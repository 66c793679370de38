-------------------------------- MODULE Cart --------------------------------
(***************************************************************************)
(* The carts of one buyer and of the browser the buyer shops from, as the  *)
(* orders module keeps them: a browser that is not signed in holds a guest *)
(* cart by a secret token, a signed-in buyer holds a cart by identity, and *)
(* at login the two become one.  Every command is one database transaction *)
(* that locks the cart row and compares the revision the client saw; a     *)
(* command with another revision changes nothing and is left out, and so   *)
(* is a repeated idempotency key, which only repeats the stored answer.    *)
(*                                                                         *)
(* A store sells one variant.  terms[s] is the version of what store s     *)
(* asks for it: publication, price, shipping methods and return policy.    *)
(***************************************************************************)
EXTENDS Naturals, FiniteSets

CONSTANTS
  Carts,          \* cart rows that may be created
  Stores,
  MaxQuantity,    \* the largest quantity of a line (99 in the code)
  Quantities,     \* the quantities a client asks for
  RevisionBound,  \* bound of the model: no cart changes after this revision
  TermsBound      \* bound of the model: how many versions of its terms a store has

ASSUME CartAssumption ==
  /\ Stores # {}
  /\ MaxQuantity \in Nat \ {0} /\ Quantities \subseteq 1 .. MaxQuantity
  /\ RevisionBound \in Nat \ {0} /\ TermsBound \in [Stores -> Nat \ {0}]

VARIABLES
  cart,   \* the row of order_carts with its lines and its owner
  terms   \* the version of each store's terms in force

cartVars == <<cart, terms>>

CartStatus == {"NONE", "ACTIVE", "MERGED", "REPLACED", "CONVERTED", "EXPIRED"}
\* Who reaches the row: the browser by a valid token, the buyer by identity.
Owner == {"NOBODY", "GUEST", "BUYER"}
\* A line of quantity 0 is no line.
Line == [quantity : 0 .. MaxQuantity, reviewed : Nat]
NoLine == [quantity |-> 0, reviewed |-> 0]
CartRow ==
  [status : CartStatus, owner : Owner, revision : 0 .. RevisionBound + 1,
   lapsed : BOOLEAN, store : Stores, lines : [Stores -> Line]]

CartTypeOK ==
  /\ cart \in [Carts -> CartRow]
  /\ terms \in [Stores -> Nat \ {0}]

CartInit ==
  /\ cart = [c \in Carts |->
       [status |-> "NONE", owner |-> "NOBODY", revision |-> 0, lapsed |-> FALSE,
        store |-> CHOOSE s \in Stores : TRUE, lines |-> [t \in Stores |-> NoLine]]]
  /\ terms = [s \in Stores |-> 1]

\* readGuest and readBuyer: the cart of an owner, unless its 30 days are over.
Live(owner) ==
  {c \in Carts : cart[c].status = "ACTIVE" /\ cart[c].owner = owner /\ ~cart[c].lapsed}

\* The rows the unique index of active identities sees; it ignores the expiry.
Indexed == {c \in Carts : cart[c].status = "ACTIVE" /\ cart[c].owner = "BUYER"}

LinesOf(c) == {s \in Stores : cart[c].lines[s].quantity > 0}
\* The first version of the API works on carts of one store only.
OneStore(c) == LinesOf(c) \subseteq {cart[c].store}
ReviewRequired(c) == \E s \in LinesOf(c) : cart[c].lines[s].reviewed # terms[s]

Revisable(c) == cart[c].revision <= RevisionBound
Touched(row) == [row EXCEPT !.revision = @ + 1]
Terminalized(row, status) == [row EXCEPT !.status = status, !.owner = "NOBODY"]
NewCart(owner, s, q) ==
  [status |-> "ACTIVE", owner |-> owner, revision |-> 1, lapsed |-> FALSE, store |-> s,
   lines |-> [t \in Stores |-> IF t = s THEN [quantity |-> q, reviewed |-> terms[s]]
                               ELSE NoLine]]

\* The cart a request acts on: the buyer's when signed in, else the browser's.
ActsAs(signedIn) == IF signedIn THEN "BUYER" ELSE "GUEST"
\* Adding an item keeps filling the guest cart until the buyer has one.
AddsTo(signedIn) ==
  IF signedIn /\ (Live("BUYER") # {} \/ Live("GUEST") = {}) THEN "BUYER" ELSE "GUEST"

\* Changing a line keeps the terms that were reviewed for it, and renews the
\* cart's 30 days.
WithQuantity(row, s, q) ==
  [Touched(row) EXCEPT
     !.lines[s] = [quantity |-> q,
                   reviewed |-> IF @.quantity = 0 THEN terms[s] ELSE @.reviewed]]

\* mutate on a cart that is there.
ChangeItem(signedIn, s, q) ==
  /\ \E c \in Live(AddsTo(signedIn)) :
       /\ Revisable(c)
       /\ cart' = [cart EXCEPT ![c] = WithQuantity(@, s, q)]
  /\ UNCHANGED terms

\* mutate without a cart: a lapsed row of the buyer gives up the identity and
\* a new row takes it.
CreateCart(signedIn, s, q) ==
  LET owner == AddsTo(signedIn) IN
  /\ Live(owner) = {}
  /\ \E c \in Carts :
       /\ cart[c].status = "NONE"
       /\ cart' = [k \in Carts |->
            IF k = c THEN NewCart(owner, s, q)
            ELSE IF owner = "BUYER" /\ k \in Indexed THEN Terminalized(cart[k], "EXPIRED")
            ELSE cart[k]]
  /\ UNCHANGED terms

\* removeItem
RemoveItem(signedIn, s) ==
  /\ \E c \in Live(ActsAs(signedIn)) :
       /\ Revisable(c)
       /\ cart' = [cart EXCEPT ![c] = [Touched(@) EXCEPT !.lines[s] = NoLine]]
  /\ UNCHANGED terms

\* confirmReview: every line takes the terms now in force.
ConfirmReview(signedIn) ==
  /\ \E c \in Live(ActsAs(signedIn)) :
       /\ Revisable(c)
       /\ LinesOf(c) # {}
       /\ cart' = [cart EXCEPT ![c] =
            [Touched(@) EXCEPT !.lines =
               [s \in Stores |->
                  IF s \in LinesOf(c)
                  THEN [quantity |-> cart[c].lines[s].quantity, reviewed |-> terms[s]]
                  ELSE NoLine]]]
  /\ UNCHANGED terms

\* replaceStore: a cart of another store takes the place of the current one.
ReplaceStore(signedIn, s, q) ==
  LET owner == ActsAs(signedIn) IN
  /\ \E c \in Live(owner), k \in Carts :
       /\ cart[c].store # s /\ OneStore(c)
       /\ cart[k].status = "NONE"
       /\ cart' = [cart EXCEPT ![c] = Terminalized(@, "REPLACED"), ![k] = NewCart(owner, s, q)]
  /\ UNCHANGED terms

Attached(row) == [Touched(row) EXCEPT !.owner = "BUYER"]

\* inspectAttachment of a buyer without a live cart; the unique index refuses it
\* while any active row, lapsed or not, still has the identity.
Attach ==
  /\ Live("BUYER") = {}
  /\ Indexed = {}
  /\ \E g \in Live("GUEST") :
       /\ Revisable(g)
       /\ cart' = [cart EXCEPT ![g] = Attached(@)]
  /\ UNCHANGED terms

MergedLine(own, other) ==
  [quantity |-> own.quantity + other.quantity,
   reviewed |-> IF own.quantity = 0 THEN other.reviewed ELSE own.reviewed]
MergedLines(b, g) == [s \in Stores |-> MergedLine(cart[b].lines[s], cart[g].lines[s])]

\* Mutation of Resolve: a merge leaves the revision of the cart that stays.
ResolveSilently(decision) ==
  /\ \E g \in Live("GUEST"), b \in Live("BUYER") :
       /\ decision = "MERGE"
       /\ \A s \in Stores : MergedLines(b, g)[s].quantity <= MaxQuantity
       /\ cart' = [cart EXCEPT ![g] = Terminalized(@, "MERGED"),
                               ![b] = [@ EXCEPT !.lines = MergedLines(b, g)]]
  /\ UNCHANGED terms

\* resolveAttachment: of two live carts one stays, with or without the other's lines.
Resolve(decision) ==
  /\ \E g \in Live("GUEST"), b \in Live("BUYER") :
       /\ Revisable(g) /\ Revisable(b)
       /\ \/ /\ decision = "MERGE"
             /\ \A s \in Stores : MergedLines(b, g)[s].quantity <= MaxQuantity
             /\ cart' = [cart EXCEPT ![g] = Terminalized(@, "MERGED"),
                                     ![b] = [Touched(@) EXCEPT !.lines = MergedLines(b, g)]]
          \/ /\ decision = "KEEP_GUEST" /\ OneStore(g) /\ OneStore(b)
             /\ cart' = [cart EXCEPT ![b] = Terminalized(@, "REPLACED"), ![g] = Attached(@)]
          \/ /\ decision = "KEEP_BUYER" /\ OneStore(g) /\ OneStore(b)
             /\ cart' = [cart EXCEPT ![g] = Terminalized(@, "REPLACED"), ![b] = Touched(@)]
  /\ UNCHANGED terms

\* expires_at passes.
Lapse(c) ==
  /\ cart[c].status = "ACTIVE" /\ ~cart[c].lapsed
  /\ cart' = [cart EXCEPT ![c].lapsed = TRUE]
  /\ UNCHANGED terms

\* The store publishes another price, shipping method or return policy.
ChangeTerms(s) ==
  /\ terms[s] < TermsBound[s]
  /\ terms' = [terms EXCEPT ![s] = @ + 1]
  /\ UNCHANGED cart

CartNext ==
  \/ \E signedIn \in BOOLEAN, s \in Stores, q \in Quantities :
       \/ ChangeItem(signedIn, s, q)
       \/ CreateCart(signedIn, s, q)
       \/ ReplaceStore(signedIn, s, q)
  \/ \E signedIn \in BOOLEAN, s \in Stores : RemoveItem(signedIn, s)
  \/ \E signedIn \in BOOLEAN : ConfirmReview(signedIn)
  \/ Attach
  \/ \E decision \in {"MERGE", "KEEP_GUEST", "KEEP_BUYER"} : Resolve(decision)
  \/ \E c \in Carts : Lapse(c)
  \/ \E s \in Stores : ChangeTerms(s)
=============================================================================
