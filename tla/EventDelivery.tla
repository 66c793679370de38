---------------------------- MODULE EventDelivery ----------------------------
(***************************************************************************)
(* What the outbox promises its consumers: a published event is pending    *)
(* for each of them until its effect is applied, in the step that marks it *)
(* done, or until it is given up as dead.  A consumer whose projection can *)
(* be rebuilt starts over with the effects of all events, which repairs    *)
(* the dead ones; it may see a pending event again afterwards.             *)
(***************************************************************************)
EXTENDS Integers

CONSTANTS
    Consumers,  \* names of consumers
    Projecting, \* the consumers whose projection can be rebuilt
    Events      \* events, those of the future included

VARIABLES
    stage,    \* stage[c][e]: where event e stands for consumer c
    effects   \* effects[c][e]: times its effect is in the consumer's data

vars == <<stage, effects>>

Stages == {"UNPUBLISHED", "PENDING", "DONE", "DEAD"}

Init ==
    /\ stage = [c \in Consumers |-> [e \in Events |-> "UNPUBLISHED"]]
    /\ effects = [c \in Consumers |-> [e \in Events |-> 0]]

Publish(e) ==
    /\ \A c \in Consumers : stage[c][e] = "UNPUBLISHED"
    /\ stage' = [c \in Consumers |-> [stage[c] EXCEPT ![e] = "PENDING"]]
    /\ UNCHANGED effects

Handle(c, e) ==
    /\ stage[c][e] = "PENDING"
    /\ stage' = [stage EXCEPT ![c][e] = "DONE"]
    /\ effects' = [effects EXCEPT ![c][e] = @ + 1]

GiveUp(c, e) ==
    /\ stage[c][e] = "PENDING"
    /\ stage' = [stage EXCEPT ![c][e] = "DEAD"]
    /\ UNCHANGED effects

\* Every published event ends up applied once; the pending ones of `awaited`
\* are still to come.
Rebuild(c, awaited) ==
    /\ \A e \in awaited : stage[c][e] = "PENDING"
    /\ stage' = [stage EXCEPT ![c] =
          [e \in Events |-> IF stage[c][e] = "UNPUBLISHED" \/ e \in awaited
                            THEN stage[c][e] ELSE "DONE"]]
    /\ effects' = [effects EXCEPT ![c] =
          [e \in Events |-> IF stage[c][e] = "UNPUBLISHED" THEN 0 ELSE 1]]

Next ==
    \/ \E e \in Events : Publish(e)
    \/ \E c \in Consumers, e \in Events : Handle(c, e) \/ GiveUp(c, e)
    \/ \E c \in Projecting, awaited \in SUBSET Events : Rebuild(c, awaited)

Spec == Init /\ [][Next]_vars

=============================================================================
