----------------------------- MODULE OrderOutcome -----------------------------
(***************************************************************************)
(* What a buyer and a seller may rely on once an order is paid: it is      *)
(* delivered, or it is cancelled and its goods go back on the shelf, and   *)
(* once it has been sent it can no longer be cancelled.                    *)
(***************************************************************************)
EXTENDS Integers

CONSTANTS
    Orders,    \* paid orders
    Quantity   \* Quantity[o]: the units of the item that order o has bought

VARIABLES
    outcome,   \* what becomes of each order
    returned   \* units of cancelled orders that are on the shelf again

Init ==
    /\ outcome = [o \in Orders |-> "OPEN"]
    /\ returned = 0

\* The seller sends the goods.
Send(o) ==
    /\ outcome[o] = "OPEN"
    /\ outcome' = [outcome EXCEPT ![o] = "SENT"]
    /\ UNCHANGED returned

\* The goods arrive.
Arrive(o) ==
    /\ outcome[o] = "SENT"
    /\ outcome' = [outcome EXCEPT ![o] = "DELIVERED"]
    /\ UNCHANGED returned

\* The seller gives the order up; the money is still with the seller.
GiveUp(o) ==
    /\ outcome[o] = "OPEN"
    /\ outcome' = [outcome EXCEPT ![o] = "CANCELLING"]
    /\ UNCHANGED returned

\* The money is back and so are the goods.
PayBack(o) ==
    /\ outcome[o] = "CANCELLING"
    /\ outcome' = [outcome EXCEPT ![o] = "CANCELLED"]
    /\ returned' = returned + Quantity[o]

Next == \E o \in Orders : Send(o) \/ Arrive(o) \/ GiveUp(o) \/ PayBack(o)

Spec == Init /\ [][Next]_<<outcome, returned>>

=============================================================================
