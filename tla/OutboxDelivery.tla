---------------------------- MODULE OutboxDelivery ----------------------------
(***************************************************************************)
(* The durable outbox of packages/outbox: events written by producers, one *)
(* delivery row per consumer and event, and workers that lease deliveries, *)
(* run the consumer's handler and write down how it went.                  *)
(*                                                                         *)
(* One action is one transaction, a crash or the passing of a date.  A     *)
(* handler runs inside the transaction that marks its delivery PROCESSED,  *)
(* with the row locked, so the two are one step.  A worker goes through a  *)
(* claim in several steps and keeps what it knows of it in memory: the     *)
(* event and the number of the attempt.                                    *)
(*                                                                         *)
(* Lease times, retry delays and payloads are left out; which of several   *)
(* candidate rows a claim takes is left open (the code takes the oldest    *)
(* that no other transaction has locked).                                  *)
(***************************************************************************)
EXTENDS Integers, FiniteSets

CONSTANTS
    Consumers,    \* consumer names
    Projecting,   \* the consumers whose projection can be rebuilt
    Events,       \* events that producers may publish
    Workers,      \* worker processes
    ConsumerOf,   \* ConsumerOf[w]: the consumer that worker w runs for
    MaxAttempts,  \* an attempt with this number or a later one fails for good
    AttemptBound, \* attempts with this number neither crash nor outlast a lease
    Nobody,       \* SQL null in lease_owner
    NoEvent       \* the event of a worker that has no claim

ASSUME ConstantsAssumption ==
    /\ Projecting \subseteq Consumers
    /\ ConsumerOf \in [Workers -> Consumers]
    /\ MaxAttempts \in Nat \ {0}
    /\ AttemptBound \in Nat
    /\ Nobody \notin Workers
    /\ NoEvent \notin Events

VARIABLES
    event,     \* platform_outbox_events.status, "NONE" before publication
    delivery,  \* platform_outbox_consumptions per consumer and event
    effects,   \* how often an event's effect is in the consumer's data
    claim      \* what each worker holds in memory

vars == <<event, delivery, effects, claim>>

EventStatus == {"NONE", "READY", "PROCESSED", "FAILED"}

DeliveryStatus == {"NONE", "READY", "LEASED", "PROCESSED", "FAILED"}

\* due: available_at is past; lapsed: lease_expires_at is past.
DeliveryRow == [status: DeliveryStatus, due: BOOLEAN, lapsed: BOOLEAN,
                owner: Workers \cup {Nobody}, attempts: Nat]

\* CLAIMED: before consumeClaim; CONSUMED: it has committed; THREW: something
\* threw since the claim; REPORTED: the delivery is updated, the event is not.
ActiveClaim == [phase: {"CLAIMED", "CONSUMED", "THREW", "REPORTED"},
                event: Events, attempts: Nat \ {0}]

NoClaim == [phase |-> "IDLE", event |-> NoEvent, attempts |-> 0]

TypeOK ==
    /\ event \in [Events -> EventStatus]
    /\ delivery \in [Consumers -> [Events -> DeliveryRow]]
    /\ effects \in [Consumers -> [Events -> Nat]]
    /\ claim \in [Workers -> ActiveClaim \cup {NoClaim}]

NoDelivery == [status |-> "NONE", due |-> FALSE, lapsed |-> FALSE,
               owner |-> Nobody, attempts |-> 0]

\* A READY row takes over the event's available_at, which is past.
Materialised == [NoDelivery EXCEPT !.status = "READY", !.due = TRUE]

Init ==
    /\ event = [e \in Events |-> "NONE"]
    /\ delivery = [c \in Consumers |-> [e \in Events |-> NoDelivery]]
    /\ effects = [c \in Consumers |-> [e \in Events |-> 0]]
    /\ claim = [w \in Workers |-> NoClaim]

Row(w) == delivery[ConsumerOf[w]][claim[w].event]

\* Mutation of Permanent: one attempt too few.
PermanentTooEarly(w) == claim[w].attempts + 1 >= MaxAttempts

Permanent(w) == claim[w].attempts >= MaxAttempts

-----------------------------------------------------------------------------
(* The producer and the claim. *)

\* enqueueOutboxEvent, in the transaction that changed the aggregate.
Publish(e) ==
    /\ event[e] = "NONE"
    /\ event' = [event EXCEPT ![e] = "READY"]
    /\ UNCHANGED <<delivery, effects, claim>>

\* The published events that consumer c has no row for.
Missing(c) == {e \in Events : event[e] # "NONE" /\ delivery[c][e].status = "NONE"}

\* Mutation of Claimable: a lease can be taken over while it runs.
ClaimableAnyLease(row) ==
    \/ row.status = "READY" /\ row.due
    \/ row.status = "LEASED"

Claimable(row) ==
    \/ row.status = "READY" /\ row.due
    \/ row.status = "LEASED" /\ row.lapsed

Leased(row, w) ==
    [row EXCEPT !.status = "LEASED", !.lapsed = FALSE, !.owner = w,
                !.attempts = @ + 1]

\* Mutation of ClaimNext: only rows that exist are looked at.
ClaimExisting(w, e) ==
    LET c == ConsumerOf[w] IN
    /\ claim[w].phase = "IDLE"
    /\ Claimable(delivery[c][e])
    /\ delivery' = [delivery EXCEPT ![c][e] = Leased(@, w)]
    /\ claim' = [claim EXCEPT ![w] = [phase |-> "CLAIMED", event |-> e,
                                      attempts |-> delivery'[c][e].attempts]]
    /\ UNCHANGED <<event, effects>>

\* claimNext: one missing row is inserted, then one claimable row is leased,
\* the new one or another.
ClaimNext(w, e) ==
    LET c == ConsumerOf[w] IN
    /\ claim[w].phase = "IDLE"
    /\ \E new \in IF Missing(c) = {} THEN {{}} ELSE {{m} : m \in Missing(c)} :
          LET rows == [d \in Events |-> IF d \in new THEN Materialised
                                        ELSE delivery[c][d]]
          IN /\ Claimable(rows[e])
             /\ delivery' = [delivery EXCEPT ![c] =
                                [rows EXCEPT ![e] = Leased(rows[e], w)]]
             /\ claim' = [claim EXCEPT ![w] = [phase |-> "CLAIMED", event |-> e,
                                               attempts |-> rows[e].attempts + 1]]
    /\ UNCHANGED <<event, effects>>

-----------------------------------------------------------------------------
(* The life of a claim: processClaim. *)

\* Mutation of HoldsLease: the row is not looked at again.
HoldsLeaseUnchecked(w) == TRUE

\* The row is still leased to this worker under this attempt.
HoldsLease(w) ==
    /\ Row(w).status = "LEASED"
    /\ Row(w).owner = w
    /\ Row(w).attempts = claim[w].attempts

Processed(row) == [row EXCEPT !.status = "PROCESSED", !.owner = Nobody]

\* consumeClaim: the handler's effect and the receipt, or neither.
ConsumeClaim(w) ==
    LET c == ConsumerOf[w]
        e == claim[w].event
    IN /\ claim[w].phase = "CLAIMED"
       /\ HoldsLease(w)
       /\ delivery' = [delivery EXCEPT ![c][e] = Processed(@)]
       /\ effects' = [effects EXCEPT ![c][e] = @ + 1]
       /\ claim' = [claim EXCEPT ![w].phase = "CONSUMED"]
       /\ UNCHANGED event

\* The lease is lost: the claim is dropped.
ConsumeStale(w) ==
    /\ claim[w].phase = "CLAIMED"
    /\ ~HoldsLease(w)
    /\ claim' = [claim EXCEPT ![w] = NoClaim]
    /\ UNCHANGED <<event, delivery, effects>>

\* acknowledgeClaim: the event counts as processed unless some consumer has
\* failed it.
AcknowledgeClaim(w) ==
    LET e == claim[w].event IN
    /\ claim[w].phase = "CONSUMED"
    /\ event' = [event EXCEPT ![e] = IF @ = "FAILED" THEN @ ELSE "PROCESSED"]
    /\ claim' = [claim EXCEPT ![w] = NoClaim]
    /\ UNCHANGED <<delivery, effects>>

\* The handler or the database throws and the transaction is rolled back; or
\* it has committed and the answer, or the acknowledgement, is lost.
ClaimThrows(w) ==
    /\ claim[w].phase \in {"CLAIMED", "CONSUMED"}
    /\ claim' = [claim EXCEPT ![w].phase = "THREW"]
    /\ UNCHANGED <<event, delivery, effects>>

Retried(row) == [row EXCEPT !.status = "READY", !.due = FALSE, !.owner = Nobody]

GivenUp(row) == [row EXCEPT !.status = "FAILED", !.due = FALSE, !.owner = Nobody]

\* The first update of the catch block, fenced like the consumption.
ReportDelivery(w) ==
    LET c == ConsumerOf[w]
        e == claim[w].event
    IN /\ claim[w].phase = "THREW"
       /\ delivery' = IF HoldsLease(w)
                      THEN [delivery EXCEPT ![c][e] =
                              IF Permanent(w) THEN GivenUp(@) ELSE Retried(@)]
                      ELSE delivery
       /\ claim' = [claim EXCEPT ![w].phase = "REPORTED"]
       /\ UNCHANGED <<event, effects>>

\* The second update, which is not fenced.
ReportEvent(w) ==
    LET e == claim[w].event IN
    /\ claim[w].phase = "REPORTED"
    /\ event' = [event EXCEPT ![e] = IF Permanent(w) THEN "FAILED" ELSE @]
    /\ claim' = [claim EXCEPT ![w] = NoClaim]
    /\ UNCHANGED <<delivery, effects>>

\* The process dies and starts again, or the catch block itself throws.
WorkerCrashes(w) ==
    /\ claim[w].phase # "IDLE"
    /\ claim[w].attempts < AttemptBound
    /\ claim' = [claim EXCEPT ![w] = NoClaim]
    /\ UNCHANGED <<event, delivery, effects>>

-----------------------------------------------------------------------------
(* Rebuilding a projection. *)

\* Mutation of Rebuild: failed deliveries stay failed.
RebuildLeavingFailed(c) ==
    /\ delivery' = [delivery EXCEPT ![c] =
          [e \in Events |-> IF e \in Missing(c) THEN Processed(delivery[c][e])
                            ELSE delivery[c][e]]]
    /\ effects' = [effects EXCEPT ![c] =
          [e \in Events |-> IF event[e] = "NONE" THEN 0 ELSE 1]]
    /\ UNCHANGED <<event, claim>>

\* The projection is cleared and replayOutboxEventHistory applies every event
\* in one transaction that excludes the consumer's handlers.  It closes failed
\* and missing deliveries and leaves READY and LEASED ones to the workers.
Rebuild(c) ==
    /\ delivery' = [delivery EXCEPT ![c] =
          [e \in Events |-> IF \/ e \in Missing(c)
                               \/ delivery[c][e].status = "FAILED"
                            THEN Processed(delivery[c][e])
                            ELSE delivery[c][e]]]
    /\ effects' = [effects EXCEPT ![c] =
          [e \in Events |-> IF event[e] = "NONE" THEN 0 ELSE 1]]
    /\ UNCHANGED <<event, claim>>

-----------------------------------------------------------------------------
(* Time. *)

Due(row) == [row EXCEPT !.due = TRUE]

Lapsed(row) == [row EXCEPT !.lapsed = TRUE]

RetryComesDue(c, e) ==
    /\ delivery[c][e].status = "READY"
    /\ ~delivery[c][e].due
    /\ delivery' = [delivery EXCEPT ![c][e] = Due(@)]
    /\ UNCHANGED <<event, effects, claim>>

LeaseLapses(c, e) ==
    /\ delivery[c][e].status = "LEASED"
    /\ ~delivery[c][e].lapsed
    /\ delivery[c][e].attempts < AttemptBound
    /\ delivery' = [delivery EXCEPT ![c][e] = Lapsed(@)]
    /\ UNCHANGED <<event, effects, claim>>

-----------------------------------------------------------------------------
(* The specification. *)

Works(w) ==
    \/ \E e \in Events : ClaimNext(w, e)
    \/ ConsumeClaim(w) \/ ConsumeStale(w) \/ AcknowledgeClaim(w)
    \/ ReportDelivery(w) \/ ReportEvent(w)

Next ==
    \/ \E e \in Events : Publish(e)
    \/ \E w \in Workers : Works(w) \/ ClaimThrows(w) \/ WorkerCrashes(w)
    \/ \E c \in Projecting : Rebuild(c)
    \/ \E c \in Consumers, e \in Events : RetryComesDue(c, e) \/ LeaseLapses(c, e)

Spec == Init /\ [][Next]_vars

\* Dates pass, and a worker's loop goes on: it polls, survives errors, and a
\* process that dies is started again.
Fairness ==
    /\ \A c \in Consumers, e \in Events : /\ WF_vars(RetryComesDue(c, e))
                                          /\ WF_vars(LeaseLapses(c, e))
    /\ \A w \in Workers : WF_vars(Works(w))

FairSpec == Spec /\ Fairness

-----------------------------------------------------------------------------
(* Properties. *)

\* The effect of an event is in a consumer's data exactly when its receipt is,
\* and only once, however often the event was leased, taken over and retried.
\* (A consumer that rebuilds may see a pending event twice.)
EffectsMatchReceipts ==
    \A c \in Consumers, e \in Events :
        /\ delivery[c][e].status = "PROCESSED" => effects[c][e] >= 1
        /\ c \notin Projecting =>
              effects[c][e] = IF delivery[c][e].status = "PROCESSED" THEN 1 ELSE 0

\* While a worker holds a lease that has not run out, the delivery changes only
\* by its own step or by the lease running out: neither a worker whose lease
\* was taken over nor a rebuild decides it.
LeaseIsExclusive ==
    [][\A w \in Workers :
          (claim[w].phase \in {"CLAIMED", "THREW"} /\ HoldsLease(w) /\ ~Row(w).lapsed) =>
             \/ claim'[w] # claim[w]
             \/ Row(w)' = [Row(w) EXCEPT !.lapsed = Row(w)'.lapsed]]_vars

\* A delivery is given up only after MaxAttempts claims, and a failed event has
\* used them up for some consumer.
NothingDiesEarly ==
    /\ \A c \in Consumers, e \in Events :
          delivery[c][e].status = "FAILED" => delivery[c][e].attempts >= MaxAttempts
    /\ \A e \in Events : event[e] = "FAILED" =>
          \E c \in Consumers : delivery[c][e].attempts >= MaxAttempts

\* Every published event is handled by every consumer or given up.
EventsAreHandled ==
    \A c \in Consumers, e \in Events :
        event[e] # "NONE" ~> delivery[c][e].status \in {"PROCESSED", "FAILED"}

-----------------------------------------------------------------------------
(* What the outbox implements. *)

StageOf(c, e) ==
    IF event[e] = "NONE" THEN "UNPUBLISHED"
    ELSE IF delivery[c][e].status = "PROCESSED" THEN "DONE"
    ELSE IF delivery[c][e].status = "FAILED" THEN "DEAD"
    ELSE "PENDING"

Promise == INSTANCE EventDelivery
    WITH stage <- [c \in Consumers |-> [e \in Events |-> StageOf(c, e)]],
         effects <- effects

\* The outbox does nothing that EventDelivery does not promise.
ImplementsPromise == Promise!Spec

=============================================================================
