-------------------------- MODULE MCDirectPayment --------------------------
(* Values of the constants of DirectPayment for TLC. *)
EXTENDS DirectPayment, TLC

CONSTANTS o1, o2, a1, a2, v1

\* One order, two attempts.
OneOrder == {o1}
RetryOrderOf == [a \in Attempts |-> o1]
\* Two orders that compete for the same unit, one attempt each.
TwoOrders == {o1, o2}
RivalOrderOf == (a1 :> o1) @@ (a2 :> o2)
UnitDemand == [o \in Orders |-> [v \in Variants |-> 1]]
Retries == Permutations(Attempts)
=============================================================================
