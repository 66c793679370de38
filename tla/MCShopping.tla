----------------------------- MODULE MCShopping -----------------------------
(* Values of the constants of Shopping for TLC. *)
EXTENDS Shopping, TLC

CONSTANTS s1, s2

\* Only the second store changes its terms, once.
TermsOf == (s1 :> 1) @@ (s2 :> 2)

\* Rows, keys and requests have no order among them.
Names ==
  Permutations(Carts) \cup Permutations(Preparations) \cup Permutations(Purchases)
    \cup Permutations(Keys) \cup Permutations(PayKeys)

\* Bound of the model: while a purchase is being paid or expires there is one
\* preparation and its address has not changed, for no action of the one looks
\* at the other; and the address and the terms do not both change.
InProgress(q) ==
  purchase[q].due \/ \E s \in Stores : order[q][s] \notin {NoOrder, OrderRow}
Separate ==
  /\ address = 1 \/ \A s \in Stores : terms[s] = 1
  /\ (\E q \in Made : InProgress(q)) =>
      /\ Cardinality({p \in Preparations : preparation[p].status # "NONE"}) = 1
      /\ address = 1

\* Bound of the model: the answers of commands look at no cart, so that either the
\* carts change or the commands are asked for.
OneMoves ==
  \/ CommandInit /\ Next /\ UNCHANGED commandVars
  \/ Init /\ CommandNext /\ UNCHANGED vars
OneMovesSpec == ShoppingInit /\ [][OneMoves]_<<vars, commandVars>>
=============================================================================
