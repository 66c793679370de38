----------------------------- MODULE MCBuyerCare -----------------------------
(* Values of the constants of BuyerCare for TLC. *)
EXTENDS BuyerCare, TLC

CONSTANTS o1, r1, b1, b2, k1, k2, k3, f1, c1

\* One order of two units.
OneOrder == {o1}
TwoUnits == [o \in Orders |-> 2]

\* The provider reports a failure and a confirmation, in any order.
FailedOrConfirmed == (f1 :> "FAILED") @@ (c1 :> "CONFIRMED")

\* The values name things of several kinds, so that one permutation serves them all.
Interchangeable == Permutations(Keys) \cup Permutations(BuyerRequests)

\* Bound of the model: only one of the three moves, for none looks at the others.
OneMoves ==
  \/ MsgInit /\ MediaInit /\ Next /\ UNCHANGED <<msgVars, mediaVars>>
  \/ Init /\ MediaInit /\ MsgNext /\ UNCHANGED <<vars, mediaVars>>
  \/ Init /\ MsgInit /\ MediaNext /\ UNCHANGED <<vars, msgVars>>
OneMovesSpec == CareInit /\ [][OneMoves]_<<vars, msgVars, mediaVars>>
=============================================================================
