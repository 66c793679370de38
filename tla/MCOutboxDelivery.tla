-------------------------- MODULE MCOutboxDelivery --------------------------
(* Values of the constants of OutboxDelivery for TLC. *)
EXTENDS OutboxDelivery, TLC

CONSTANTS c1, c2, w1, w2, w3, e1

\* Two workers of one consumer that rebuilds, and one of a consumer that does not.
MixedConsumerOf == (w1 :> c1) @@ (w2 :> c1) @@ (w3 :> c2)
=============================================================================
