------------------------ MODULE OutboxDeliveryProofs ------------------------
(***************************************************************************)
(* Proofs about OutboxDelivery, for any consumers, workers and events and  *)
(* any limit on attempts.                                                  *)
(***************************************************************************)
EXTENDS OutboxDelivery, TLAPS

-----------------------------------------------------------------------------
(* Type correctness. *)

\* Changing one entry of a table of tables keeps the table right.
LEMMA OneEntry ==
    ASSUME NEW C, NEW E, NEW R, NEW f \in [C -> [E -> R]],
           NEW c \in C, NEW e \in E, NEW r \in R
    PROVE  [f EXCEPT ![c][e] = r] \in [C -> [E -> R]]
OBVIOUS

\* Every way in which the code rewrites a delivery row yields a row.
LEMMA RowTypes ==
    /\ NoDelivery \in DeliveryRow
    /\ Materialised \in DeliveryRow
    /\ \A r \in DeliveryRow :
          /\ \A w \in Workers : Leased(r, w) \in DeliveryRow
          /\ Processed(r) \in DeliveryRow
          /\ Retried(r) \in DeliveryRow
          /\ GivenUp(r) \in DeliveryRow
          /\ Due(r) \in DeliveryRow
          /\ Lapsed(r) \in DeliveryRow
<1>1. NoDelivery \in DeliveryRow
  BY DEF NoDelivery, DeliveryRow, DeliveryStatus
<1>2. Materialised \in DeliveryRow
  BY DEF Materialised, NoDelivery, DeliveryRow, DeliveryStatus
<1>3. ASSUME NEW r \in DeliveryRow, NEW w \in Workers
      PROVE  Leased(r, w) \in DeliveryRow
  <2>1. r.attempts + 1 \in Nat /\ w \in Workers \cup {Nobody}
    BY DEF DeliveryRow
  <2>2. \A n \in Nat : [r EXCEPT !.status = "LEASED", !.lapsed = FALSE, !.owner = w,
                                 !.attempts = n] \in DeliveryRow
    BY DEF DeliveryRow, DeliveryStatus
  <2> QED BY <2>1, <2>2 DEF Leased
<1>4. ASSUME NEW r \in DeliveryRow
      PROVE  Processed(r) \in DeliveryRow /\ Retried(r) \in DeliveryRow
  BY DEF Processed, Retried, DeliveryRow, DeliveryStatus
<1>5. ASSUME NEW r \in DeliveryRow
      PROVE  GivenUp(r) \in DeliveryRow
  BY DEF GivenUp, DeliveryRow, DeliveryStatus
<1>6. ASSUME NEW r \in DeliveryRow
      PROVE  /\ Due(r) \in DeliveryRow
             /\ Lapsed(r) \in DeliveryRow
  BY DEF Due, Lapsed, DeliveryRow
<1> QED BY <1>1, <1>2, <1>3, <1>4, <1>5, <1>6

\* A worker that holds a claim names a delivery that exists.
LEMMA ClaimTypes ==
    ASSUME TypeOK, NEW w \in Workers, claim[w].phase # "IDLE"
    PROVE  /\ ConsumerOf[w] \in Consumers
           /\ claim[w] \in ActiveClaim
           /\ claim[w].event \in Events
           /\ claim[w].attempts \in Nat \ {0}
           /\ Row(w) \in DeliveryRow
<1>1. ConsumerOf[w] \in Consumers
  BY ConstantsAssumption
<1>2. claim[w] \in ActiveClaim
  BY DEF TypeOK, NoClaim
<1> QED BY <1>1, <1>2 DEF ActiveClaim, Row, TypeOK

\* What claimNext does to the deliveries: the claimed row, existing or new, is
\* leased, and at most one other row is created.
LEMMA ClaimNextRows ==
    ASSUME TypeOK, NEW w \in Workers, NEW e \in Events, ClaimNext(w, e)
    PROVE  LET c == ConsumerOf[w] IN
           /\ delivery' \in [Consumers -> [Events -> DeliveryRow]]
           /\ \A d \in Consumers, f \in Events :
                 \/ d = c /\ f = e
                 \/ delivery'[d][f] = delivery[d][f]
                 \/ d = c /\ f \in Missing(c) /\ delivery'[d][f] = Materialised
           /\ \/ /\ Claimable(delivery[c][e])
                 /\ delivery'[c][e] = Leased(delivery[c][e], w)
              \/ /\ e \in Missing(c)
                 /\ delivery'[c][e] = Leased(Materialised, w)
           /\ claim' = [claim EXCEPT ![w] = [phase |-> "CLAIMED", event |-> e,
                                             attempts |-> delivery'[c][e].attempts]]
<1> DEFINE c == ConsumerOf[w]
<1>0. c \in Consumers
  BY ConstantsAssumption
<1>1. PICK new \in SUBSET Missing(c) :
        LET rows == [d \in Events |-> IF d \in new THEN Materialised
                                      ELSE delivery[c][d]]
        IN /\ Claimable(rows[e])
           /\ delivery' = [delivery EXCEPT ![c] =
                              [rows EXCEPT ![e] = Leased(rows[e], w)]]
           /\ claim' = [claim EXCEPT ![w] = [phase |-> "CLAIMED", event |-> e,
                                             attempts |-> rows[e].attempts + 1]]
  <2>1. \A new \in IF Missing(c) = {} THEN {{}} ELSE {{m} : m \in Missing(c)} :
           new \in SUBSET Missing(c)
    OBVIOUS
  <2> QED BY <2>1 DEF ClaimNext
<1> DEFINE rows == [d \in Events |-> IF d \in new THEN Materialised
                                     ELSE delivery[c][d]]
<1>2. rows \in [Events -> DeliveryRow]
  BY <1>0, RowTypes DEF TypeOK
<1>3. Leased(rows[e], w) \in DeliveryRow
  BY <1>2, RowTypes
<1>4. delivery' = [delivery EXCEPT ![c] = [rows EXCEPT ![e] = Leased(rows[e], w)]]
  BY <1>1
<1>5. delivery' \in [Consumers -> [Events -> DeliveryRow]]
  <2> HIDE DEF rows
  <2>1. [rows EXCEPT ![e] = Leased(rows[e], w)] \in [Events -> DeliveryRow]
    BY <1>2, <1>3
  <2> QED BY <1>0, <1>4, <2>1 DEF TypeOK
<1>6. /\ delivery'[c][e] = Leased(rows[e], w)
      /\ \A f \in Events : f # e => delivery'[c][f] = rows[f]
      /\ \A d \in Consumers : d # c => delivery'[d] = delivery[d]
  <2> HIDE DEF rows
  <2> QED BY <1>0, <1>2, <1>4 DEF TypeOK
<1>7. \A d \in Consumers, f \in Events :
         \/ d = c /\ f = e
         \/ delivery'[d][f] = delivery[d][f]
         \/ d = c /\ f \in Missing(c) /\ delivery'[d][f] = Materialised
  BY <1>6
<1>8. \/ /\ Claimable(delivery[c][e])
         /\ delivery'[c][e] = Leased(delivery[c][e], w)
      \/ /\ e \in Missing(c)
         /\ delivery'[c][e] = Leased(Materialised, w)
  BY <1>1, <1>6
<1>9. Leased(rows[e], w).attempts = rows[e].attempts + 1
  <2> HIDE DEF rows
  <2> QED BY <1>2 DEF Leased, DeliveryRow
<1>10. claim' = [claim EXCEPT ![w] = [phase |-> "CLAIMED", event |-> e,
                                      attempts |-> delivery'[c][e].attempts]]
  BY <1>1, <1>6, <1>9
<1> QED BY <1>5, <1>7, <1>8, <1>10

\* Every transaction, crash and date leaves the tables well typed.
LEMMA TypeStep == TypeOK /\ [Next]_vars => TypeOK'
<1> SUFFICES ASSUME TypeOK, [Next]_vars PROVE TypeOK'
  OBVIOUS
<1>1. ASSUME NEW e \in Events, Publish(e) PROVE TypeOK'
  BY <1>1 DEF Publish, TypeOK, EventStatus
<1>2. ASSUME NEW w \in Workers, NEW e \in Events, ClaimNext(w, e) PROVE TypeOK'
  <2> DEFINE c == ConsumerOf[w]
  <2>1. delivery' \in [Consumers -> [Events -> DeliveryRow]]
    BY <1>2, ClaimNextRows
  <2>2. delivery'[c][e].attempts \in Nat \ {0}
    <3>1. \A r \in DeliveryRow : Leased(r, w).attempts \in Nat \ {0}
      BY DEF Leased, DeliveryRow
    <3>2. \E r \in DeliveryRow : delivery'[c][e] = Leased(r, w)
      BY <1>2, ClaimNextRows, RowTypes, ConstantsAssumption DEF TypeOK
    <3> QED BY <3>1, <3>2
  <2>3. claim' \in [Workers -> ActiveClaim \cup {NoClaim}]
    BY <1>2, <2>2, ClaimNextRows DEF TypeOK, ActiveClaim
  <2> QED BY <1>2, <2>1, <2>3 DEF ClaimNext, TypeOK
<1>3. ASSUME NEW w \in Workers, claim[w].phase # "IDLE", NEW p, claim[w].phase = p
      PROVE  /\ [claim EXCEPT ![w] = NoClaim] \in [Workers -> ActiveClaim \cup {NoClaim}]
             /\ \A q \in {"CONSUMED", "THREW", "REPORTED"} :
                  [claim EXCEPT ![w].phase = q] \in [Workers -> ActiveClaim \cup {NoClaim}]
  BY <1>3, ClaimTypes DEF TypeOK, ActiveClaim
<1>4. ASSUME NEW w \in Workers, claim[w].phase # "IDLE"
      PROVE  /\ ConsumerOf[w] \in Consumers
             /\ claim[w].event \in Events
             /\ \A r \in {Processed(Row(w)), Retried(Row(w)), GivenUp(Row(w))} :
                  [delivery EXCEPT ![ConsumerOf[w]][claim[w].event] = r]
                     \in [Consumers -> [Events -> DeliveryRow]]
  <2>1. ConsumerOf[w] \in Consumers /\ claim[w].event \in Events
    BY <1>4, ClaimTypes
  <2>2. \A r \in {Processed(Row(w)), Retried(Row(w)), GivenUp(Row(w))} : r \in DeliveryRow
    BY <1>4, ClaimTypes, RowTypes
  <2> QED BY <2>1, <2>2, OneEntry DEF TypeOK
<1>5. ASSUME NEW w \in Workers, ConsumeClaim(w) PROVE TypeOK'
  <2> DEFINE c == ConsumerOf[w]
             e == claim[w].event
  <2>1. /\ c \in Consumers /\ e \in Events
        /\ delivery' = [delivery EXCEPT ![c][e] = Processed(Row(w))]
    BY <1>4, <1>5 DEF ConsumeClaim, Row
  <2>2. delivery' \in [Consumers -> [Events -> DeliveryRow]]
    BY <1>4, <1>5, <2>1 DEF ConsumeClaim
  <2>3. effects' \in [Consumers -> [Events -> Nat]]
    BY <1>5, <2>1 DEF ConsumeClaim, TypeOK
  <2> QED BY <1>3, <1>5, <2>2, <2>3 DEF ConsumeClaim, TypeOK
<1>6. ASSUME NEW w \in Workers, ConsumeStale(w) PROVE TypeOK'
  BY <1>3, <1>6 DEF ConsumeStale, TypeOK
<1>7. ASSUME NEW w \in Workers, AcknowledgeClaim(w) PROVE TypeOK'
  BY <1>3, <1>4, <1>7 DEF AcknowledgeClaim, TypeOK, EventStatus
<1>8. ASSUME NEW w \in Workers, ClaimThrows(w) PROVE TypeOK'
  BY <1>3, <1>8 DEF ClaimThrows, TypeOK
<1>9. ASSUME NEW w \in Workers, ReportDelivery(w) PROVE TypeOK'
  <2> DEFINE c == ConsumerOf[w]
             e == claim[w].event
  <2>1. \/ delivery' = delivery
        \/ delivery' = [delivery EXCEPT ![c][e] = GivenUp(Row(w))]
        \/ delivery' = [delivery EXCEPT ![c][e] = Retried(Row(w))]
    BY <1>4, <1>9 DEF ReportDelivery, Row
  <2>2. delivery' \in [Consumers -> [Events -> DeliveryRow]]
    BY <1>4, <1>9, <2>1 DEF ReportDelivery, TypeOK
  <2> QED BY <1>3, <1>9, <2>2 DEF ReportDelivery, TypeOK
<1>10. ASSUME NEW w \in Workers, ReportEvent(w) PROVE TypeOK'
  BY <1>3, <1>4, <1>10 DEF ReportEvent, TypeOK, EventStatus
<1>11. ASSUME NEW w \in Workers, WorkerCrashes(w) PROVE TypeOK'
  BY <1>3, <1>11 DEF WorkerCrashes, TypeOK
<1>12. ASSUME NEW c \in Projecting, Rebuild(c) PROVE TypeOK'
  <2>1. c \in Consumers
    BY ConstantsAssumption
  <2>2. delivery' \in [Consumers -> [Events -> DeliveryRow]]
    BY <1>12, <2>1, RowTypes DEF Rebuild, TypeOK
  <2>3. effects' \in [Consumers -> [Events -> Nat]]
    BY <1>12, <2>1 DEF Rebuild, TypeOK
  <2> QED BY <1>12, <2>2, <2>3 DEF Rebuild, TypeOK
<1>13. ASSUME NEW c \in Consumers, NEW e \in Events, RetryComesDue(c, e)
       PROVE  TypeOK'
  <2>1. delivery' = [delivery EXCEPT ![c][e] = Due(delivery[c][e])]
    BY <1>13 DEF RetryComesDue
  <2>2. delivery' \in [Consumers -> [Events -> DeliveryRow]]
    <3>1. delivery[c][e] \in DeliveryRow
      BY DEF TypeOK
    <3>2. Due(delivery[c][e]) \in DeliveryRow
      BY <3>1, RowTypes
    <3> QED BY <2>1, <3>2, OneEntry DEF TypeOK
  <2> QED BY <1>13, <2>2 DEF RetryComesDue, TypeOK
<1>14. ASSUME NEW c \in Consumers, NEW e \in Events, LeaseLapses(c, e)
       PROVE  TypeOK'
  <2>1. delivery' = [delivery EXCEPT ![c][e] = Lapsed(delivery[c][e])]
    BY <1>14 DEF LeaseLapses
  <2>2. delivery' \in [Consumers -> [Events -> DeliveryRow]]
    <3>1. delivery[c][e] \in DeliveryRow
      BY DEF TypeOK
    <3>2. Lapsed(delivery[c][e]) \in DeliveryRow
      BY <3>1, RowTypes
    <3> QED BY <2>1, <3>2, OneEntry DEF TypeOK
  <2> QED BY <1>14, <2>2 DEF LeaseLapses, TypeOK
<1>15. CASE UNCHANGED vars
  BY <1>15 DEF vars, TypeOK
<1> QED
  BY <1>1, <1>2, <1>5, <1>6, <1>7, <1>8, <1>9, <1>10, <1>11, <1>12, <1>13, <1>14,
     <1>15 DEF Next, Works

\* Type correctness of the outbox tables and of what workers hold in memory.
THEOREM TypeCorrect == Spec => []TypeOK
<1>1. Init => TypeOK
  BY RowTypes DEF Init, TypeOK, EventStatus
<1> QED BY <1>1, TypeStep, PTL DEF Spec

-----------------------------------------------------------------------------
(* How a delivery row may change. *)

\* The fields of a rewritten row that the invariants are about.
LEMMA RowFields ==
    /\ Materialised.status = "READY" /\ Materialised.attempts = 0
    /\ \A w \in Workers : Leased(Materialised, w).status = "LEASED"
                        /\ Leased(Materialised, w).attempts = 1
    /\ \A r \in DeliveryRow :
          /\ \A w \in Workers : Leased(r, w).status = "LEASED"
                              /\ Leased(r, w).attempts = r.attempts + 1
          /\ Processed(r).status = "PROCESSED" /\ Processed(r).attempts = r.attempts
          /\ Retried(r).status = "READY" /\ Retried(r).attempts = r.attempts
          /\ GivenUp(r).status = "FAILED" /\ GivenUp(r).attempts = r.attempts
          /\ Due(r).status = r.status
          /\ Due(r).attempts = r.attempts
          /\ Lapsed(r).status = r.status
          /\ Lapsed(r).attempts = r.attempts
BY DEF Materialised, NoDelivery, Leased, Processed, Retried, GivenUp, Due, Lapsed, DeliveryRow

\* A row is created, leased by an idle worker, decided by the worker that holds
\* its lease, closed by a rebuild, or one of its dates passes.
RowChange(c, e, r, s) ==
    \/ s = r
    \/ e \in Missing(c) /\ s = Materialised
    \/ \E w \in Workers :
          /\ claim[w].phase = "IDLE" /\ claim'[w].phase = "CLAIMED"
          /\ ConsumerOf[w] = c /\ claim'[w].event = e
          /\ \/ Claimable(r) /\ s = Leased(r, w)
             \/ e \in Missing(c) /\ s = Leased(Materialised, w)
    \/ \E w \in Workers :
          /\ claim[w].phase \in {"CLAIMED", "THREW"} /\ claim'[w] # claim[w]
          /\ ConsumerOf[w] = c /\ claim[w].event = e /\ HoldsLease(w)
          /\ \/ s = Processed(r) \/ s = Retried(r)
             \/ s = GivenUp(r) /\ Permanent(w)
    \/ (e \in Missing(c) \/ r.status = "FAILED") /\ s = Processed(r)
    \/ r.status = "READY" /\ s = Due(r)
    \/ r.status = "LEASED" /\ s = Lapsed(r)

\* No step changes a delivery row in any other way.
LEMMA RowsChange ==
    ASSUME TypeOK, [Next]_vars
    PROVE  \A c \in Consumers, e \in Events :
              RowChange(c, e, delivery[c][e], delivery'[c][e])
<1> USE DEF RowChange
<1>1. ASSUME UNCHANGED delivery
      PROVE  \A c \in Consumers, e \in Events :
                RowChange(c, e, delivery[c][e], delivery'[c][e])
  BY <1>1
<1>2. ASSUME NEW w \in Workers, NEW f \in Events, ClaimNext(w, f),
             NEW c \in Consumers, NEW e \in Events
      PROVE  RowChange(c, e, delivery[c][e], delivery'[c][e])
  <2>1. claim'[w].phase = "CLAIMED" /\ claim'[w].event = f
    BY <1>2, ClaimNextRows DEF TypeOK
  <2>2. claim[w].phase = "IDLE"
    BY <1>2 DEF ClaimNext
  <2> QED BY <1>2, <2>1, <2>2, ClaimNextRows
<1>3. ASSUME NEW w \in Workers, ConsumeClaim(w), NEW c \in Consumers, NEW e \in Events
      PROVE  RowChange(c, e, delivery[c][e], delivery'[c][e])
  <2>1. claim[w].phase = "CLAIMED" /\ HoldsLease(w) /\ claim'[w].phase = "CONSUMED"
    <3>1. claim[w].phase = "CLAIMED"
      BY <1>3 DEF ConsumeClaim
    <3> QED BY <1>3, <3>1, ClaimTypes DEF ConsumeClaim, TypeOK, ActiveClaim
  <2>2. \/ delivery'[c][e] = delivery[c][e]
        \/ /\ c = ConsumerOf[w] /\ e = claim[w].event
           /\ delivery'[c][e] = Processed(delivery[c][e])
    BY <1>3, <2>1, ClaimTypes DEF ConsumeClaim, TypeOK
  <2>3. claim'[w] # claim[w]
    BY <2>1
  <2> QED BY <2>1, <2>2, <2>3
<1>4. ASSUME NEW w \in Workers, ReportDelivery(w), NEW c \in Consumers, NEW e \in Events
      PROVE  RowChange(c, e, delivery[c][e], delivery'[c][e])
  <2>1. claim[w].phase = "THREW" /\ claim'[w].phase = "REPORTED"
    <3>1. claim[w].phase = "THREW"
      BY <1>4 DEF ReportDelivery
    <3> QED BY <1>4, <3>1, ClaimTypes DEF ReportDelivery, TypeOK, ActiveClaim
  <2>2. \/ delivery'[c][e] = delivery[c][e]
        \/ /\ c = ConsumerOf[w] /\ e = claim[w].event /\ HoldsLease(w)
           /\ \/ delivery'[c][e] = Retried(delivery[c][e])
              \/ Permanent(w) /\ delivery'[c][e] = GivenUp(delivery[c][e])
    BY <1>4, <2>1, ClaimTypes DEF ReportDelivery, TypeOK
  <2>3. claim'[w] # claim[w]
    BY <2>1
  <2> QED BY <2>1, <2>2, <2>3
<1>5. ASSUME NEW d \in Projecting, Rebuild(d), NEW c \in Consumers, NEW e \in Events
      PROVE  RowChange(c, e, delivery[c][e], delivery'[c][e])
  BY <1>5, ConstantsAssumption DEF Rebuild, TypeOK
<1>6. ASSUME NEW d \in Consumers, NEW f \in Events, RetryComesDue(d, f),
             NEW c \in Consumers, NEW e \in Events
      PROVE  RowChange(c, e, delivery[c][e], delivery'[c][e])
  BY <1>6 DEF RetryComesDue, TypeOK
<1>7. ASSUME NEW d \in Consumers, NEW f \in Events, LeaseLapses(d, f),
             NEW c \in Consumers, NEW e \in Events
      PROVE  RowChange(c, e, delivery[c][e], delivery'[c][e])
  BY <1>7 DEF LeaseLapses, TypeOK
<1>8. CASE \E w \in Workers : \/ ConsumeStale(w) \/ AcknowledgeClaim(w) \/ ClaimThrows(w)
                              \/ ReportEvent(w) \/ WorkerCrashes(w)
  BY <1>1, <1>8
     DEF ConsumeStale, AcknowledgeClaim, ClaimThrows, ReportEvent, WorkerCrashes
<1>9. CASE (\E e \in Events : Publish(e)) \/ UNCHANGED vars
  BY <1>1, <1>9 DEF Publish, vars
<1> QED BY <1>2, <1>3, <1>4, <1>5, <1>6, <1>7, <1>8, <1>9 DEF Next, Works

-----------------------------------------------------------------------------
(* The inductive invariant. *)

\* Only published events have deliveries, and a delivery is numbered from one.
RowsExist ==
    \A c \in Consumers, e \in Events :
        /\ delivery[c][e].status # "NONE" => event[e] # "NONE"
        /\ delivery[c][e].status = "NONE" => delivery[c][e].attempts = 0

\* A worker's claim is about an existing delivery and is not ahead of it.
ClaimsExist ==
    \A w \in Workers : claim[w].phase # "IDLE" =>
        /\ Row(w).status # "NONE"
        /\ claim[w].attempts <= Row(w).attempts

IInv == TypeOK /\ RowsExist /\ ClaimsExist /\ EffectsMatchReceipts /\ NothingDiesEarly

\* Deliveries and events are never deleted and attempts are never uncounted.
LEMMA TablesGrow ==
    ASSUME TypeOK, RowsExist, ClaimsExist, [Next]_vars
    PROVE  /\ \A e \in Events : event[e] # "NONE" => event'[e] # "NONE"
           /\ \A c \in Consumers, e \in Events :
                 /\ delivery'[c][e].attempts >= delivery[c][e].attempts
                 /\ delivery[c][e].status # "NONE" => delivery'[c][e].status # "NONE"
                 /\ delivery'[c][e].status = "NONE" => delivery'[c][e].attempts = 0
                 /\ delivery'[c][e].status # "NONE" => event[e] # "NONE"
<1>1. \A e \in Events : event[e] # "NONE" => event'[e] # "NONE"
  <2> SUFFICES ASSUME NEW f \in Events, event[f] # "NONE", event' # event
               PROVE  event'[f] # "NONE"
    OBVIOUS
  <2>1. CASE \E e \in Events : Publish(e)
    BY <2>1 DEF Publish, TypeOK
  <2>2. CASE \E w \in Workers : AcknowledgeClaim(w) \/ ReportEvent(w)
    BY <2>2 DEF AcknowledgeClaim, ReportEvent, TypeOK
  <2> QED
    BY <2>1, <2>2 DEF Next, Works, vars, ClaimNext, ConsumeClaim, ConsumeStale, ClaimThrows,
       ReportDelivery, WorkerCrashes, Rebuild, RetryComesDue, LeaseLapses
<1>2. ASSUME NEW c \in Consumers, NEW e \in Events
      PROVE  /\ delivery'[c][e].attempts >= delivery[c][e].attempts
             /\ delivery[c][e].status # "NONE" => delivery'[c][e].status # "NONE"
             /\ delivery'[c][e].status = "NONE" => delivery'[c][e].attempts = 0
             /\ delivery'[c][e].status # "NONE" => event[e] # "NONE"
  <2> DEFINE r == delivery[c][e]
             s == delivery'[c][e]
  <2>0. r \in DeliveryRow /\ r.attempts \in Nat
    BY DEF TypeOK, DeliveryRow
  <2>1. /\ r.status # "NONE" => event[e] # "NONE"
        /\ r.status = "NONE" => r.attempts = 0
        /\ e \in Missing(c) => r.status = "NONE" /\ event[e] # "NONE"
    BY DEF RowsExist, Missing
  <2>2. RowChange(c, e, r, s)
    BY RowsChange
  <2>3. Claimable(r) => r.status # "NONE"
    BY DEF Claimable
  <2>4. \A w \in Workers : ConsumerOf[w] = c /\ claim[w].event = e /\ HoldsLease(w)
                          => r.status # "NONE"
    BY DEF HoldsLease, Row
  <2> HIDE DEF r, s
  <2> DEFINE Grows == /\ s.attempts >= r.attempts
                      /\ r.status # "NONE" => s.status # "NONE"
                      /\ s.status = "NONE" => s.attempts = 0
                      /\ s.status # "NONE" => event[e] # "NONE"
  <2>5. ASSUME s = r PROVE Grows
    BY <2>0, <2>1, <2>5
  <2>6. ASSUME e \in Missing(c) /\ s = Materialised PROVE Grows
    BY <2>0, <2>1, <2>6, RowFields
  <2>7. ASSUME NEW w \in Workers, \/ Claimable(r) /\ s = Leased(r, w)
                                  \/ e \in Missing(c) /\ s = Leased(Materialised, w)
        PROVE  Grows
    <3>1. s.status = "LEASED" /\ s.attempts >= r.attempts
      BY <2>0, <2>1, <2>7, RowFields
    <3> QED BY <2>1, <2>3, <2>7, <3>1
  <2>8. ASSUME \/ r.status # "NONE" /\ (s = Retried(r) \/ s = GivenUp(r))
               \/ (r.status # "NONE" \/ e \in Missing(c)) /\ s = Processed(r)
        PROVE  Grows
    <3>1. s.status \in {"READY", "FAILED", "PROCESSED"} /\ s.attempts = r.attempts
      BY <2>0, <2>8, RowFields
    <3> QED BY <2>0, <2>1, <2>8, <3>1
  <2>9. ASSUME s = Due(r) \/ s = Lapsed(r)
        PROVE  Grows
    <3>1. s.status = r.status /\ s.attempts = r.attempts
      BY <2>0, <2>9, RowFields
    <3> QED BY <2>0, <2>1, <3>1
  <2>10. Grows
    <3> HIDE DEF Grows
    <3>1. ASSUME NEW w \in Workers, ConsumerOf[w] = c, claim[w].event = e, HoldsLease(w),
                 s = Processed(r) \/ s = Retried(r) \/ s = GivenUp(r)
          PROVE  Grows
      BY <2>4, <2>8, <3>1
    <3>2. ASSUME e \in Missing(c) \/ r.status = "FAILED", s = Processed(r)
          PROVE  Grows
      BY <2>8, <3>2
    <3>3. \/ s = r
          \/ e \in Missing(c) /\ s = Materialised
          \/ \E w \in Workers : \/ Claimable(r) /\ s = Leased(r, w)
                                \/ e \in Missing(c) /\ s = Leased(Materialised, w)
          \/ \E w \in Workers : /\ ConsumerOf[w] = c /\ claim[w].event = e /\ HoldsLease(w)
                                /\ (s = Processed(r) \/ s = Retried(r) \/ s = GivenUp(r))
          \/ (e \in Missing(c) \/ r.status = "FAILED") /\ s = Processed(r)
          \/ s = Due(r) \/ s = Lapsed(r)
      BY <2>2, Zenon DEF RowChange
    <3>4. ASSUME NEW w \in Workers, \/ Claimable(r) /\ s = Leased(r, w)
                                    \/ e \in Missing(c) /\ s = Leased(Materialised, w)
          PROVE  Grows
      BY <2>7, <3>4
    <3> QED BY <2>5, <2>6, <2>9, <3>1, <3>2, <3>3, <3>4
  <2> QED BY <2>10 DEF r, s
<1> QED BY <1>1, <1>2

\* RowsExist is preserved.
LEMMA RowsExistStep ==
    ASSUME TypeOK, RowsExist, ClaimsExist, [Next]_vars
    PROVE  RowsExist'
BY TablesGrow DEF RowsExist

\* What a worker holds is kept, dropped, or replaced by a fresh lease.
LEMMA ClaimsChange ==
    ASSUME TypeOK, [Next]_vars, NEW w \in Workers
    PROVE  \/ claim'[w].phase = "IDLE"
           \/ /\ claim[w].phase # "IDLE"
              /\ claim'[w].event = claim[w].event
              /\ claim'[w].attempts = claim[w].attempts
           \/ Row(w)'.status = "LEASED" /\ claim'[w].attempts = Row(w)'.attempts
<1>1. ASSUME NEW v \in Workers, NEW e \in Events, ClaimNext(v, e), v = w
      PROVE  Row(w)'.status = "LEASED" /\ claim'[w].attempts = Row(w)'.attempts
  <2>1. claim'[w] = [phase |-> "CLAIMED", event |-> e,
                     attempts |-> delivery'[ConsumerOf[w]][e].attempts]
    BY <1>1, ClaimNextRows DEF TypeOK
  <2>2. delivery'[ConsumerOf[w]][e].status = "LEASED"
    <3>1. delivery[ConsumerOf[w]][e] \in DeliveryRow
      BY ConstantsAssumption DEF TypeOK
    <3>2. \/ delivery'[ConsumerOf[w]][e] = Leased(delivery[ConsumerOf[w]][e], w)
          \/ delivery'[ConsumerOf[w]][e] = Leased(Materialised, w)
      BY <1>1, ClaimNextRows
    <3> QED BY <3>1, <3>2, RowFields
  <2> QED BY <2>1, <2>2 DEF Row
<1>2. ASSUME NEW v \in Workers, NEW e \in Events, ClaimNext(v, e), v # w
      PROVE  claim'[w] = claim[w]
  BY <1>2, ClaimNextRows DEF TypeOK
<1>3. ASSUME NEW v \in Workers,
             \/ ConsumeClaim(v) \/ ClaimThrows(v) \/ ReportDelivery(v)
      PROVE  \/ claim'[w] = claim[w]
             \/ /\ claim[w].phase # "IDLE"
                /\ claim'[w].event = claim[w].event
                /\ claim'[w].attempts = claim[w].attempts
  <2>1. claim[v].phase # "IDLE"
    BY <1>3 DEF ConsumeClaim, ClaimThrows, ReportDelivery
  <2>2. claim[v] \in ActiveClaim
    BY <2>1, ClaimTypes
  <2>3. \E q : claim' = [claim EXCEPT ![v].phase = q]
    BY <1>3 DEF ConsumeClaim, ClaimThrows, ReportDelivery
  <2> QED BY <2>1, <2>2, <2>3 DEF TypeOK, ActiveClaim
<1>4. ASSUME NEW v \in Workers,
             \/ ConsumeStale(v) \/ AcknowledgeClaim(v) \/ ReportEvent(v) \/ WorkerCrashes(v)
      PROVE  claim'[w] = claim[w] \/ claim'[w].phase = "IDLE"
  BY <1>4 DEF ConsumeStale, AcknowledgeClaim, ReportEvent, WorkerCrashes, NoClaim, TypeOK
<1>5. claim[w].phase = "IDLE" \/ claim[w].phase # "IDLE"
  OBVIOUS
<1>6. CASE UNCHANGED claim
  BY <1>5, <1>6
<1> QED
  BY <1>1, <1>2, <1>3, <1>4, <1>5, <1>6
     DEF Next, Works, vars, Publish, Rebuild, RetryComesDue, LeaseLapses

\* ClaimsExist is preserved.
LEMMA ClaimsExistStep ==
    ASSUME TypeOK, RowsExist, ClaimsExist, [Next]_vars
    PROVE  ClaimsExist'
<1> SUFFICES ASSUME NEW w \in Workers, claim'[w].phase # "IDLE"
             PROVE  Row(w)'.status # "NONE" /\ claim'[w].attempts <= Row(w)'.attempts
  BY DEF ClaimsExist
<1>0. TypeOK' /\ Row(w)' \in DeliveryRow
  <2>1. TypeOK'
    BY TypeStep
  <2>2. claim'[w] \in ActiveClaim
    BY <2>1 DEF TypeOK, NoClaim
  <2> QED BY <2>1, <2>2, ConstantsAssumption DEF TypeOK, ActiveClaim, Row
<1>1. CASE /\ claim[w].phase # "IDLE"
           /\ claim'[w].event = claim[w].event
           /\ claim'[w].attempts = claim[w].attempts
  <2>1. /\ ConsumerOf[w] \in Consumers /\ claim[w].event \in Events
        /\ claim[w].attempts \in Nat /\ Row(w).attempts \in Nat
    BY <1>1, ClaimTypes DEF DeliveryRow
  <2>2. Row(w).status # "NONE" /\ claim[w].attempts <= Row(w).attempts
    BY <1>1 DEF ClaimsExist
  <2>3. /\ Row(w)'.attempts >= Row(w).attempts /\ Row(w)'.status # "NONE"
    BY <1>1, <2>1, <2>2, TablesGrow DEF Row
  <2>4. Row(w)'.attempts \in Nat
    BY <1>0 DEF DeliveryRow
  <2> QED BY <1>1, <2>1, <2>2, <2>3, <2>4
<1>2. CASE Row(w)'.status = "LEASED" /\ claim'[w].attempts = Row(w)'.attempts
  BY <1>0, <1>2 DEF DeliveryRow
<1> QED BY <1>1, <1>2, ClaimsChange

\* Only a consumption and a rebuild touch effects and processed deliveries.
LEMMA OthersKeepReceipts ==
    ASSUME TypeOK, [Next]_vars,
           \A w \in Workers : ~ConsumeClaim(w), \A c \in Projecting : ~Rebuild(c),
           NEW c \in Consumers, NEW e \in Events
    PROVE  /\ effects'[c][e] = effects[c][e]
           /\ delivery'[c][e].status = "PROCESSED" <=> delivery[c][e].status = "PROCESSED"
<1>0. /\ delivery[c][e] \in DeliveryRow
      /\ \A w \in Workers : HoldsLease(w) => Row(w).status = "LEASED"
      /\ \A r : Claimable(r) => r.status \in {"READY", "LEASED"}
  BY DEF TypeOK, HoldsLease, Claimable
<1>1. ASSUME NEW w \in Workers, NEW f \in Events, ClaimNext(w, f)
      PROVE  delivery'[c][e].status = "PROCESSED" <=> delivery[c][e].status = "PROCESSED"
  <2>1. \/ delivery'[c][e] = delivery[c][e]
        \/ delivery[c][e].status = "NONE" /\ delivery'[c][e] = Materialised
        \/ Claimable(delivery[c][e]) /\ delivery'[c][e] = Leased(delivery[c][e], w)
        \/ delivery[c][e].status = "NONE" /\ delivery'[c][e] = Leased(Materialised, w)
    BY <1>1, ClaimNextRows DEF Missing
  <2> QED BY <1>0, <2>1, RowFields
<1>2. ASSUME NEW w \in Workers, ReportDelivery(w)
      PROVE  delivery'[c][e].status = "PROCESSED" <=> delivery[c][e].status = "PROCESSED"
  <2>1. claim[w].phase # "IDLE"
    BY <1>2 DEF ReportDelivery
  <2>2. \/ delivery'[c][e] = delivery[c][e]
        \/ /\ HoldsLease(w) /\ delivery[c][e] = Row(w)
           /\ \/ delivery'[c][e] = GivenUp(delivery[c][e])
              \/ delivery'[c][e] = Retried(delivery[c][e])
    BY <1>2, <2>1, ClaimTypes DEF ReportDelivery, TypeOK, Row
  <2> QED BY <1>0, <2>2, RowFields
<1>3. ASSUME NEW d \in Consumers, NEW f \in Events, RetryComesDue(d, f) \/ LeaseLapses(d, f)
      PROVE  delivery'[c][e].status = "PROCESSED" <=> delivery[c][e].status = "PROCESSED"
  <2>1. \/ delivery'[c][e] = delivery[c][e]
        \/ delivery'[c][e] = Due(delivery[c][e])
        \/ delivery'[c][e] = Lapsed(delivery[c][e])
    BY <1>3 DEF RetryComesDue, LeaseLapses, TypeOK
  <2> QED BY <1>0, <2>1, RowFields
<1>4. UNCHANGED effects
  BY DEF Next, Works, vars, Publish, ClaimNext, ConsumeStale, AcknowledgeClaim, ClaimThrows,
     ReportDelivery, ReportEvent, WorkerCrashes, RetryComesDue, LeaseLapses
<1>5. CASE UNCHANGED delivery
  BY <1>4, <1>5
<1> QED
  BY <1>1, <1>2, <1>3, <1>4, <1>5
     DEF Next, Works, vars, Publish, ConsumeStale, AcknowledgeClaim, ClaimThrows, ReportEvent,
         WorkerCrashes

\* EffectsMatchReceipts is preserved.
LEMMA EffectsStep ==
    ASSUME TypeOK, RowsExist, EffectsMatchReceipts, [Next]_vars
    PROVE  EffectsMatchReceipts'
<1> SUFFICES ASSUME NEW c \in Consumers, NEW e \in Events
             PROVE  /\ delivery'[c][e].status = "PROCESSED" => effects'[c][e] >= 1
                    /\ c \notin Projecting =>
                         effects'[c][e] = IF delivery'[c][e].status = "PROCESSED"
                                          THEN 1 ELSE 0
  BY DEF EffectsMatchReceipts
<1>0. /\ delivery[c][e] \in DeliveryRow /\ effects[c][e] \in Nat
      /\ delivery[c][e].status = "PROCESSED" => effects[c][e] >= 1
      /\ c \notin Projecting =>
            effects[c][e] = IF delivery[c][e].status = "PROCESSED" THEN 1 ELSE 0
  BY DEF TypeOK, EffectsMatchReceipts
<1>1. ASSUME NEW w \in Workers, ConsumeClaim(w)
      PROVE  \/ delivery'[c][e] = delivery[c][e] /\ effects'[c][e] = effects[c][e]
             \/ /\ delivery[c][e].status = "LEASED"
                /\ delivery'[c][e].status = "PROCESSED"
                /\ effects'[c][e] = effects[c][e] + 1
  <2>1. claim[w].phase # "IDLE" /\ Row(w).status = "LEASED"
    BY <1>1 DEF ConsumeClaim, HoldsLease
  <2>2. CASE c = ConsumerOf[w] /\ e = claim[w].event
    <3>1. /\ delivery'[c][e] = Processed(delivery[c][e])
          /\ effects'[c][e] = effects[c][e] + 1
          /\ delivery[c][e].status = "LEASED"
      BY <1>1, <2>1, <2>2, ClaimTypes DEF ConsumeClaim, TypeOK, Row
    <3> QED BY <1>0, <3>1, RowFields
  <2>3. CASE ~(c = ConsumerOf[w] /\ e = claim[w].event)
    BY <1>1, <2>1, <2>3, ClaimTypes DEF ConsumeClaim, TypeOK
  <2> QED BY <2>2, <2>3
<1>2. ASSUME NEW d \in Projecting, Rebuild(d)
      PROVE  \/ delivery'[c][e] = delivery[c][e] /\ effects'[c][e] = effects[c][e]
             \/ /\ c \in Projecting
                /\ delivery'[c][e].status = "PROCESSED" => effects'[c][e] >= 1
  <2>1. CASE c # d
    BY <1>2, <2>1, ConstantsAssumption DEF Rebuild, TypeOK
  <2>2. CASE c = d
    <3>1. effects'[c][e] = IF event[e] = "NONE" THEN 0 ELSE 1
      BY <1>2, <2>2 DEF Rebuild, TypeOK
    <3>2. event[e] = "NONE" => delivery'[c][e].status = "NONE"
      BY <1>2, <2>2 DEF Rebuild, TypeOK, RowsExist, Missing
    <3> QED BY <2>2, <3>1, <3>2
  <2> QED BY <2>1, <2>2
<1>3. CASE \E w \in Workers : ConsumeClaim(w)
  BY <1>0, <1>1, <1>3
<1>4. CASE \E d \in Projecting : Rebuild(d)
  BY <1>0, <1>2, <1>4
<1>5. CASE ~(\E w \in Workers : ConsumeClaim(w)) /\ ~(\E d \in Projecting : Rebuild(d))
  BY <1>0, <1>5, OthersKeepReceipts
<1> QED BY <1>3, <1>4, <1>5

\* NothingDiesEarly is preserved.
LEMMA DeathsStep ==
    ASSUME TypeOK, RowsExist, ClaimsExist, NothingDiesEarly, [Next]_vars
    PROVE  NothingDiesEarly'
<1>0. MaxAttempts \in Nat
  BY ConstantsAssumption
<1>1. ASSUME NEW c \in Consumers, NEW e \in Events, delivery'[c][e].status = "FAILED"
      PROVE  delivery'[c][e].attempts >= MaxAttempts
  <2> DEFINE r == delivery[c][e]
             s == delivery'[c][e]
  <2>0. r \in DeliveryRow /\ r.attempts \in Nat /\ s.status = "FAILED"
    BY <1>1 DEF TypeOK, DeliveryRow
  <2>1. r.status = "FAILED" => r.attempts >= MaxAttempts
    BY DEF NothingDiesEarly
  <2>2. \A w \in Workers :
           (ConsumerOf[w] = c /\ claim[w].event = e /\ HoldsLease(w) /\ Permanent(w))
              => r.attempts >= MaxAttempts
    BY DEF HoldsLease, Row, Permanent
  <2>3. RowChange(c, e, r, s)
    BY RowsChange
  <2> HIDE DEF r, s
  <2>4. s = r \/ s = Due(r) \/ s = Lapsed(r)
           => s.attempts >= MaxAttempts
    BY <2>0, <2>1, RowFields
  <2>5. s = GivenUp(r) => s.attempts = r.attempts
    BY <2>0, RowFields
  <2>6. /\ s # Materialised /\ s # Processed(r) /\ s # Retried(r)
        /\ \A w \in Workers : s # Leased(r, w) /\ s # Leased(Materialised, w)
    BY <2>0, RowFields
  <2>7. s.attempts >= MaxAttempts
    BY <2>2, <2>3, <2>4, <2>5, <2>6 DEF RowChange
  <2> QED BY <2>7 DEF s
<1>2. ASSUME NEW e \in Events, event'[e] = "FAILED"
      PROVE  \E c \in Consumers : delivery[c][e].attempts >= MaxAttempts
  <2>1. CASE event[e] = "FAILED"
    BY <2>1 DEF NothingDiesEarly
  <2>2. CASE event[e] # "FAILED"
    <3>1. PICK w \in Workers : ReportEvent(w) /\ claim[w].event = e /\ Permanent(w)
      BY <1>2, <2>2
         DEF Next, Works, vars, Publish, ClaimNext, ConsumeClaim, ConsumeStale,
             AcknowledgeClaim, ClaimThrows, ReportDelivery, ReportEvent, WorkerCrashes,
             Rebuild, RetryComesDue, LeaseLapses, TypeOK
    <3>2. claim[w].phase # "IDLE"
      BY <3>1 DEF ReportEvent
    <3>3. /\ ConsumerOf[w] \in Consumers /\ claim[w].attempts \in Nat
          /\ Row(w).attempts \in Nat
      BY <3>2, ClaimTypes DEF DeliveryRow
    <3>4. Row(w).attempts >= MaxAttempts
      BY <1>0, <3>1, <3>2, <3>3 DEF ClaimsExist, Permanent
    <3> QED BY <3>1, <3>3, <3>4 DEF Row
  <2> QED BY <2>1, <2>2
<1>3. ASSUME NEW e \in Events, event'[e] = "FAILED"
      PROVE  \E c \in Consumers : delivery'[c][e].attempts >= MaxAttempts
  <2>1. PICK c \in Consumers : delivery[c][e].attempts >= MaxAttempts
    BY <1>2, <1>3
  <2>2. delivery'[c][e].attempts >= delivery[c][e].attempts
    BY TablesGrow
  <2>3. delivery[c][e].attempts \in Nat /\ delivery'[c][e].attempts \in Nat
    BY TypeStep DEF TypeOK, DeliveryRow
  <2> QED BY <1>0, <2>1, <2>2, <2>3
<1> QED BY <1>1, <1>3 DEF NothingDiesEarly

\* The inductive invariant holds in every reachable state.
THEOREM Invariance == Spec => []IInv
<1>1. Init => IInv
  <2> SUFFICES ASSUME Init PROVE IInv
    OBVIOUS
  <2>1. TypeOK
    BY RowTypes DEF Init, TypeOK, EventStatus
  <2>2. RowsExist /\ ClaimsExist /\ EffectsMatchReceipts /\ NothingDiesEarly
    BY DEF Init, NoDelivery, NoClaim, RowsExist, ClaimsExist, EffectsMatchReceipts,
       NothingDiesEarly
  <2> QED BY <2>1, <2>2 DEF IInv
<1>2. IInv /\ [Next]_vars => IInv'
  BY TypeStep, RowsExistStep, ClaimsExistStep, EffectsStep, DeathsStep DEF IInv
<1> QED BY <1>1, <1>2, PTL DEF Spec

\* An event's effect is in a consumer's data exactly when its receipt is, once.
THEOREM EffectsOnce == Spec => []EffectsMatchReceipts
BY Invariance, PTL DEF IInv

\* No delivery is given up, and no event failed, before its attempts are used up.
THEOREM DeathsAreDue == Spec => []NothingDiesEarly
BY Invariance, PTL DEF IInv

-----------------------------------------------------------------------------
(* Leases. *)

\* While a worker's lease runs nobody else decides its delivery.
LEMMA LeaseKept ==
    ASSUME TypeOK, [Next]_vars, NEW w \in Workers,
           claim[w].phase \in {"CLAIMED", "THREW"}, HoldsLease(w), ~Row(w).lapsed
    PROVE  \/ claim'[w] # claim[w]
           \/ Row(w)' = [Row(w) EXCEPT !.lapsed = Row(w)'.lapsed]
<1> DEFINE c == ConsumerOf[w]
           e == claim[w].event
           r == delivery[c][e]
           s == delivery'[c][e]
<1>1. claim[w].phase # "IDLE"
  OBVIOUS
<1>2. c \in Consumers /\ e \in Events /\ Row(w) \in DeliveryRow
  BY <1>1, ClaimTypes
<1>3. r = Row(w)
  BY DEF Row
<1>4. r \in DeliveryRow /\ r.status = "LEASED" /\ r.owner = w /\ ~r.lapsed
  BY <1>2, <1>3 DEF HoldsLease
<1>5. RowChange(c, e, r, s)
  <2>1. \A d \in Consumers, f \in Events :
           RowChange(d, f, delivery[d][f], delivery'[d][f])
    BY RowsChange
  <2> QED BY <1>2, <2>1
<1>6. ASSUME NEW v \in Workers, ConsumerOf[v] = c, claim[v].event = e, HoldsLease(v)
      PROVE  v = w
  BY <1>4, <1>6 DEF HoldsLease, Row
<1>7. e \notin Missing(c) /\ ~Claimable(r)
  BY <1>4 DEF Missing, Claimable
<1>8. claim'[w] # claim[w] \/ s = r \/ s = Lapsed(r)
  <2> HIDE DEF c, e, r, s
  <2> QED BY <1>4, <1>5, <1>6, <1>7 DEF RowChange
<1>9. claim'[w] = claim[w] => s = Row(w)'
  BY DEF Row
<1>10. /\ r = [r EXCEPT !.lapsed = r.lapsed]
       /\ Lapsed(r) = [r EXCEPT !.lapsed = Lapsed(r).lapsed]
  <2> HIDE DEF r
  <2>1. r = [r EXCEPT !.lapsed = r.lapsed]
    BY <1>4 DEF DeliveryRow
  <2>2. Lapsed(r).lapsed = TRUE
    BY <1>4 DEF DeliveryRow, Lapsed
  <2> QED BY <2>1, <2>2 DEF Lapsed
<1> QED BY <1>3, <1>8, <1>9, <1>10

\* A worker whose lease was taken over, and a rebuild, leave the delivery of the
\* worker that holds the lease alone.
THEOREM LeasesAreExclusive == Spec => LeaseIsExclusive
<1>1. TypeOK /\ [Next]_vars =>
         [\A w \in Workers :
             (claim[w].phase \in {"CLAIMED", "THREW"} /\ HoldsLease(w) /\ ~Row(w).lapsed) =>
                \/ claim'[w] # claim[w]
                \/ Row(w)' = [Row(w) EXCEPT !.lapsed = Row(w)'.lapsed]]_vars
  BY LeaseKept
<1> QED BY <1>1, TypeCorrect, PTL DEF LeaseIsExclusive, Spec

-----------------------------------------------------------------------------
(* The refinement of EventDelivery. *)

\* The stages under the refinement mapping.
Stage == [c \in Consumers |-> [e \in Events |-> StageOf(c, e)]]

\* A table of stages that changes in one place.
LEMMA OneStage ==
    ASSUME NEW T, T = [c \in Consumers |-> [e \in Events |-> T[c][e]]],
           NEW U, U = [c \in Consumers |-> [e \in Events |-> U[c][e]]],
           NEW c \in Consumers, NEW e \in Events, NEW v,
           \A d \in Consumers, f \in Events :
              U[d][f] = IF d = c /\ f = e THEN v ELSE T[d][f]
    PROVE  U = [T EXCEPT ![c][e] = v]
OBVIOUS

\* The mapping fills in whole tables.
LEMMA StageTables ==
    /\ Stage = [c \in Consumers |-> [e \in Events |-> Stage[c][e]]]
    /\ Stage' = [c \in Consumers |-> [e \in Events |-> Stage'[c][e]]]
    /\ \A c \in Consumers, e \in Events : /\ Stage[c][e] = StageOf(c, e)
                                          /\ Stage'[c][e] = StageOf(c, e)'
BY DEF Stage

\* The initial states map to the initial state of the promise.
LEMMA InitImplements == Init => Promise!Init
BY DEF Init, Promise!Init, StageOf

\* Only a publication changes whether an event is there.
LEMMA EventsStay ==
    ASSUME TypeOK, RowsExist, ClaimsExist, NEW w \in Workers,
           AcknowledgeClaim(w) \/ ReportEvent(w)
    PROVE  \A e \in Events : event'[e] = "NONE" <=> event[e] = "NONE"
<1>1. claim[w].phase # "IDLE"
  BY DEF AcknowledgeClaim, ReportEvent
<1>2. claim[w].event \in Events /\ event[claim[w].event] # "NONE"
  BY <1>1, ClaimTypes DEF ClaimsExist, RowsExist, Row
<1> QED BY <1>2 DEF AcknowledgeClaim, ReportEvent, TypeOK

\* A step that publishes, handles and gives up nothing and rebuilds nothing is
\* invisible.
LEMMA Stutters ==
    ASSUME \A c \in Consumers, e \in Events : StageOf(c, e)' = StageOf(c, e),
           UNCHANGED effects
    PROVE  UNCHANGED Promise!vars
<1>1. [c \in Consumers |-> [e \in Events |-> StageOf(c, e)']]
        = [c \in Consumers |-> [e \in Events |-> StageOf(c, e)]]
  OBVIOUS
<1> QED BY <1>1 DEF Promise!vars

\* The publication of an event.
LEMMA PublishImplements ==
    ASSUME TypeOK, RowsExist, NEW e \in Events, Publish(e)
    PROVE  Promise!Publish(e)
<1>1. ASSUME NEW c \in Consumers, NEW f \in Events
      PROVE  /\ StageOf(c, f)' = IF f = e THEN "PENDING" ELSE StageOf(c, f)
             /\ StageOf(c, e) = "UNPUBLISHED"
  BY <1>1 DEF Publish, TypeOK, RowsExist, StageOf
<1>2. [c \in Consumers |-> [f \in Events |-> StageOf(c, f)']]
        = [c \in Consumers |-> [[f \in Events |-> StageOf(c, f)] EXCEPT ![e] = "PENDING"]]
  BY <1>1
<1>3. UNCHANGED effects
  BY DEF Publish
<1> QED BY <1>1, <1>2, <1>3 DEF Promise!Publish

\* A claim creates and leases pending deliveries.
LEMMA ClaimImplements ==
    ASSUME TypeOK, RowsExist, NEW w \in Workers, NEW e \in Events, ClaimNext(w, e)
    PROVE  UNCHANGED Promise!vars
<1>1. UNCHANGED <<event, effects>>
  BY DEF ClaimNext
<1>2. ASSUME NEW c \in Consumers, NEW f \in Events
      PROVE  StageOf(c, f)' = StageOf(c, f)
  <2> DEFINE r == delivery[c][f]
             s == delivery'[c][f]
  <2>1. r \in DeliveryRow
    BY DEF TypeOK
  <2>2. \/ s = r
        \/ Claimable(r) /\ s = Leased(r, w)
        \/ f \in Missing(c) /\ (s = Materialised \/ s = Leased(Materialised, w))
    BY ClaimNextRows
  <2>3. \/ s = r
        \/ r.status \in {"READY", "LEASED"} /\ s.status = "LEASED"
        \/ f \in Missing(c) /\ s.status \in {"READY", "LEASED"}
    <3> HIDE DEF r, s
    <3> QED BY <2>1, <2>2, RowFields DEF Claimable
  <2>4. r.status # "NONE" => event[f] # "NONE"
    BY DEF RowsExist
  <2> QED BY <1>1, <2>3, <2>4 DEF StageOf, Missing
<1> QED BY <1>1, <1>2, Stutters

\* The transaction of the handler.
LEMMA ConsumeImplements ==
    ASSUME TypeOK, RowsExist, NEW w \in Workers, ConsumeClaim(w)
    PROVE  Promise!Handle(ConsumerOf[w], claim[w].event)
<1> DEFINE c == ConsumerOf[w]
           e == claim[w].event
<1>1. claim[w].phase # "IDLE" /\ Row(w).status = "LEASED"
  BY DEF ConsumeClaim, HoldsLease
<1>2. c \in Consumers /\ e \in Events /\ Row(w) = delivery[c][e] /\ Row(w) \in DeliveryRow
  BY <1>1, ClaimTypes DEF Row
<1>3. event[e] # "NONE" /\ UNCHANGED event
  BY <1>1, <1>2 DEF RowsExist, ConsumeClaim
<1>4. \A d \in Consumers, f \in Events :
         delivery'[d][f] = IF d = c /\ f = e THEN Processed(Row(w)) ELSE delivery[d][f]
  BY <1>2 DEF ConsumeClaim, TypeOK
<1>5. Processed(Row(w)).status = "PROCESSED"
  BY <1>2, RowFields
<1>6. \A d \in Consumers, f \in Events :
         Stage'[d][f] = IF d = c /\ f = e THEN "DONE" ELSE Stage[d][f]
  BY <1>1, <1>2, <1>3, <1>4, <1>5, StageTables DEF StageOf
<1>7. Stage[c][e] = "PENDING"
  BY <1>1, <1>2, <1>3, StageTables DEF StageOf
<1>8. Stage' = [Stage EXCEPT ![c][e] = "DONE"]
  <2> HIDE DEF c, e
  <2> QED BY <1>2, <1>6, StageTables, OneStage
<1>9. effects' = [effects EXCEPT ![c][e] = @ + 1]
  BY DEF ConsumeClaim
<1> QED BY <1>7, <1>8, <1>9 DEF Promise!Handle, Stage

\* The report of a failure, for good or for now.
LEMMA ReportImplements ==
    ASSUME TypeOK, RowsExist, NEW w \in Workers, ReportDelivery(w)
    PROVE  \/ Promise!GiveUp(ConsumerOf[w], claim[w].event)
           \/ UNCHANGED Promise!vars
<1> DEFINE c == ConsumerOf[w]
           e == claim[w].event
<1>1. claim[w].phase # "IDLE" /\ UNCHANGED <<event, effects>>
  BY DEF ReportDelivery
<1>2. c \in Consumers /\ e \in Events /\ Row(w) = delivery[c][e] /\ Row(w) \in DeliveryRow
  BY <1>1, ClaimTypes DEF Row
<1>3. CASE ~HoldsLease(w)
  <2>1. UNCHANGED delivery
    BY <1>3 DEF ReportDelivery
  <2> QED BY <1>1, <2>1, Stutters DEF StageOf
<1>4. CASE HoldsLease(w)
  <2>1. Row(w).status = "LEASED" /\ event[e] # "NONE"
    BY <1>2, <1>4 DEF HoldsLease, RowsExist
  <2>2. \A d \in Consumers, f \in Events :
           delivery'[d][f] = IF d = c /\ f = e
                             THEN IF Permanent(w) THEN GivenUp(Row(w)) ELSE Retried(Row(w))
                             ELSE delivery[d][f]
    BY <1>2, <1>4 DEF ReportDelivery, TypeOK
  <2>3. GivenUp(Row(w)).status = "FAILED" /\ Retried(Row(w)).status = "READY"
    BY <1>2, RowFields
  <2>4. Stage[c][e] = "PENDING"
    BY <1>2, <2>1, StageTables DEF StageOf
  <2>5. \A d \in Consumers, f \in Events :
           Stage'[d][f] = IF d = c /\ f = e
                          THEN IF Permanent(w) THEN "DEAD" ELSE "PENDING"
                          ELSE Stage[d][f]
    BY <1>1, <1>2, <2>1, <2>2, <2>3, StageTables DEF StageOf
  <2>6. CASE Permanent(w)
    <3>1. Stage' = [Stage EXCEPT ![c][e] = "DEAD"]
      <4> HIDE DEF c, e
      <4> QED BY <1>2, <2>5, <2>6, StageTables, OneStage
    <3> QED BY <1>1, <2>4, <3>1 DEF Promise!GiveUp, Stage
  <2>7. CASE ~Permanent(w)
    <3>1. \A d \in Consumers, f \in Events : StageOf(d, f)' = StageOf(d, f)
      BY <2>4, <2>5, <2>7, StageTables
    <3> QED BY <1>1, <3>1, Stutters
  <2> QED BY <2>6, <2>7
<1> QED BY <1>3, <1>4

\* The rebuild of a projection awaits what is left to the workers.
LEMMA RebuildImplements ==
    ASSUME TypeOK, RowsExist, NEW c \in Projecting, Rebuild(c)
    PROVE  \E awaited \in SUBSET Events : Promise!Rebuild(c, awaited)
<1> DEFINE awaited == {e \in Events : delivery[c][e].status \in {"READY", "LEASED"}}
<1>1. c \in Consumers /\ UNCHANGED event
  BY ConstantsAssumption DEF Rebuild
<1>2. \A e \in awaited : StageOf(c, e) = "PENDING"
  BY <1>1 DEF RowsExist, StageOf
<1>3. ASSUME NEW d \in Consumers, NEW e \in Events
      PROVE  delivery'[d][e] = IF d = c /\ (e \in Missing(c) \/ delivery[c][e].status = "FAILED")
                               THEN Processed(delivery[c][e]) ELSE delivery[d][e]
  BY <1>1 DEF Rebuild, TypeOK
<1>4. \A e \in Events : delivery[c][e] \in DeliveryRow
                        /\ delivery[c][e].status \in DeliveryStatus
                        /\ Processed(delivery[c][e]).status = "PROCESSED"
  BY <1>1, RowFields DEF TypeOK, DeliveryRow
<1>5. ASSUME NEW d \in Consumers, NEW e \in Events
      PROVE  StageOf(d, e)' = IF d # c \/ StageOf(c, e) = "UNPUBLISHED" \/ e \in awaited
                              THEN StageOf(d, e) ELSE "DONE"
  BY <1>1, <1>3, <1>4 DEF StageOf, Missing, DeliveryStatus, RowsExist
<1>6. Stage' = [Stage EXCEPT ![c] =
                  [e \in Events |-> IF Stage[c][e] = "UNPUBLISHED" \/ e \in awaited
                                    THEN Stage[c][e] ELSE "DONE"]]
  <2> HIDE DEF awaited
  <2> QED BY <1>1, <1>5, StageTables
<1>7. effects' = [effects EXCEPT ![c] =
                    [e \in Events |-> IF Stage[c][e] = "UNPUBLISHED" THEN 0 ELSE 1]]
  <2>1. \A e \in Events : Stage[c][e] = "UNPUBLISHED" <=> event[e] = "NONE"
    BY <1>1, StageTables DEF StageOf
  <2> QED BY <2>1 DEF Rebuild
<1>8. Promise!Rebuild(c, awaited)
  BY <1>1, <1>2, <1>6, <1>7 DEF Promise!Rebuild, Stage
<1> QED BY <1>8

\* Every step of the outbox is a step of the promise or invisible.
LEMMA StepImplements ==
    ASSUME TypeOK, RowsExist, ClaimsExist, [Next]_vars
    PROVE  [Promise!Next]_(Promise!vars)
<1>1. CASE \E e \in Events : Publish(e)
  BY <1>1, PublishImplements DEF Promise!Next
<1>2. CASE \E w \in Workers, e \in Events : ClaimNext(w, e)
  BY <1>2, ClaimImplements
<1>3. CASE \E w \in Workers : ConsumeClaim(w)
  <2>1. PICK w \in Workers : ConsumeClaim(w)
    BY <1>3
  <2>2. claim[w].phase # "IDLE"
    BY <2>1 DEF ConsumeClaim
  <2>3. ConsumerOf[w] \in Consumers /\ claim[w].event \in Events
    BY <2>2, ClaimTypes
  <2> QED BY <2>1, <2>3, ConsumeImplements DEF Promise!Next
<1>4. CASE \E w \in Workers : ReportDelivery(w)
  <2>1. PICK w \in Workers : ReportDelivery(w)
    BY <1>4
  <2>2. claim[w].phase # "IDLE"
    BY <2>1 DEF ReportDelivery
  <2>3. ConsumerOf[w] \in Consumers /\ claim[w].event \in Events
    BY <2>2, ClaimTypes
  <2> QED BY <2>1, <2>3, ReportImplements DEF Promise!Next
<1>5. CASE \E c \in Projecting : Rebuild(c)
  BY <1>5, RebuildImplements DEF Promise!Next
<1>6. CASE \E w \in Workers : AcknowledgeClaim(w) \/ ReportEvent(w)
  <2>1. UNCHANGED <<delivery, effects>>
    BY <1>6 DEF AcknowledgeClaim, ReportEvent
  <2>2. \A e \in Events : event'[e] = "NONE" <=> event[e] = "NONE"
    BY <1>6, EventsStay
  <2> QED BY <2>1, <2>2, Stutters DEF StageOf
<1>7. CASE \E w \in Workers : ConsumeStale(w) \/ ClaimThrows(w) \/ WorkerCrashes(w)
  <2>1. UNCHANGED <<event, delivery, effects>>
    BY <1>7 DEF ConsumeStale, ClaimThrows, WorkerCrashes
  <2> QED BY <2>1, Stutters DEF StageOf
<1>8. CASE \E c \in Consumers, e \in Events : RetryComesDue(c, e) \/ LeaseLapses(c, e)
  <2>1. PICK c \in Consumers, e \in Events : RetryComesDue(c, e) \/ LeaseLapses(c, e)
    BY <1>8
  <2>2. UNCHANGED <<event, effects>>
    BY <2>1 DEF RetryComesDue, LeaseLapses
  <2>3. ASSUME NEW d \in Consumers, NEW f \in Events
        PROVE  delivery'[d][f].status = delivery[d][f].status
    <3>1. \/ delivery'[d][f] = delivery[d][f]
          \/ delivery'[d][f] = Due(delivery[d][f])
          \/ delivery'[d][f] = Lapsed(delivery[d][f])
      BY <2>1 DEF RetryComesDue, LeaseLapses, TypeOK
    <3>2. delivery[d][f] \in DeliveryRow
      BY DEF TypeOK
    <3> QED BY <3>1, <3>2, RowFields
  <2> QED BY <2>2, <2>3, Stutters DEF StageOf
<1>9. CASE UNCHANGED vars
  BY <1>9, Stutters DEF vars, StageOf
<1> QED
  BY <1>1, <1>2, <1>3, <1>4, <1>5, <1>6, <1>7, <1>8, <1>9 DEF Next, Works

\* The outbox does what EventDelivery promises: a published event is pending for
\* a consumer until it is handled, once, or given up, or a rebuild covers it.
THEOREM OutboxImplementsPromise == Spec => ImplementsPromise
<1>1. Init => Promise!Init
  BY InitImplements
<1>2. IInv /\ [Next]_vars => [Promise!Next]_(Promise!vars)
  BY StepImplements DEF IInv
<1> QED BY <1>1, <1>2, Invariance, PTL DEF Spec, ImplementsPromise, Promise!Spec

=============================================================================
