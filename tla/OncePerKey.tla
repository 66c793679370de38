----------------------------- MODULE OncePerKey -----------------------------
(***************************************************************************)
(* What a command with an idempotency key promises: whatever is retried,   *)
(* raced or cut short, it takes effect at most once for each key, and a    *)
(* success is only told to a caller whose request took effect.             *)
(***************************************************************************)
EXTENDS Sequences

CONSTANTS IdemKeys, Requests  \* keys and what is asked with them

VARIABLES
  effects,  \* effects[k]: the requests that took effect under key k, in order
  told      \* <<k, r>> when a success was reported to someone who asked r with k

Init ==
  /\ effects = [k \in IdemKeys |-> <<>>]
  /\ told = {}

\* The command takes effect; its caller may never hear of it.
Run(k, r) ==
  /\ effects[k] = <<>>
  /\ effects' = [effects EXCEPT ![k] = <<r>>]
  /\ told' \in {told, told \cup {<<k, r>>}}

\* A caller with the same key and request hears what was done.
Tell(k, r) ==
  /\ effects[k] = <<r>>
  /\ told' = told \cup {<<k, r>>}
  /\ UNCHANGED effects

Next == \E k \in IdemKeys, r \in Requests : Run(k, r) \/ Tell(k, r)

Spec == Init /\ [][Next]_<<effects, told>>
=============================================================================
