------------------------ MODULE DirectPaymentProofs ------------------------
(***************************************************************************)
(* Proofs about DirectPayment, for any number of orders, attempts and      *)
(* variants and any provider faults.  First the agreement of the tables;   *)
(* then what follows a single attempt: verdicts are final, the database    *)
(* and the provider agree on what was asked, and an honest provider        *)
(* charges an order once; last the stock, which is never oversold while    *)
(* the sweeps are timely.                                                  *)
(***************************************************************************)
EXTENDS DirectPayment, FoldTheorems, TLAPS

-----------------------------------------------------------------------------
(* Type correctness. *)

\* Changing one row of a table to a row of the right kind keeps the table right.
LEMMA OneRow ==
    ASSUME NEW D, NEW R, NEW f \in [D -> R], NEW d \in D, NEW r \in R
    PROVE  [f EXCEPT ![d] = r] \in [D -> R]
OBVIOUS

\* Freeing a reservation yields a reservation row.
LEMMA FreedType == ASSUME NEW r \in ReservationRow PROVE Freed(r) \in ReservationRow
BY DEF Freed, ReservationRow, ReservationStatus

\* So does holding it for review,
LEMMA HeldType == ASSUME NEW r \in ReservationRow PROVE HeldForReview(r) \in ReservationRow
BY DEF HeldForReview, ReservationRow, ReservationStatus

\* consuming it
LEMMA ConsumedType == ASSUME NEW r \in ReservationRow PROVE ConsumedRow(r) \in ReservationRow
BY DEF ConsumedRow, ReservationRow, ReservationStatus

\* and holding it for a conflict.
LEMMA ConflictType ==
    ASSUME NEW r \in ReservationRow, NEW a \in Attempts
    PROVE  HeldForConflict(r, a) \in ReservationRow
BY DEF HeldForConflict, ReservationRow, ReservationStatus

\* A claimed dispatch is an attempt row.
LEMMA DispatchedType ==
    ASSUME NEW r \in AttemptRow PROVE Dispatched(r) \in AttemptRow
BY DEF Dispatched, AttemptRow, AttemptStatus

\* The rows that verdicts leave behind are attempt rows.
LEMMA AttemptVerdictType ==
    ASSUME NEW r \in AttemptRow
    PROVE  /\ [r EXCEPT !.status = "FAILED"] \in AttemptRow
           /\ [r EXCEPT !.status = "REVIEW_REQUIRED", !.due = TRUE] \in AttemptRow
BY DEF AttemptRow, AttemptStatus

\* Failing attempts and moving attempts to review keeps the rows well typed.
LEMMA ApplyVerdictsType ==
    ASSUME TypeOK, NEW failed, NEW review, ApplyVerdicts(failed, review)
    PROVE  /\ order' \in [Orders -> OrderStatus]
           /\ reservation' \in [Orders -> ReservationRow]
           /\ attempt' \in [Attempts -> AttemptRow]
<1>1. order' \in [Orders -> OrderStatus]
  BY DEF ApplyVerdicts, TypeOK, OrderStatus
<1>2. reservation' \in [Orders -> ReservationRow]
  BY FreedType, HeldType DEF ApplyVerdicts, TypeOK
<1>3. attempt' \in [Attempts -> AttemptRow]
  BY AttemptVerdictType DEF ApplyVerdicts, TypeOK
<1> QED BY <1>1, <1>2, <1>3

\* A success, with or without the stock for it, keeps the rows well typed.
LEMMA ConfirmType ==
    ASSUME TypeOK, NEW a \in Attempts, Confirm(a)
    PROVE  /\ onHand' \in [Variants -> Nat]
           /\ order' \in [Orders -> OrderStatus]
           /\ reservation' \in [Orders -> ReservationRow]
           /\ attempt' \in [Attempts -> AttemptRow]
           /\ alerts' \in [Attempts -> SUBSET AlertKinds]
<1> DEFINE o == OrderOf[a]
<1>0. o \in Orders /\ Demand[o] \in [Variants -> Nat]
  BY ConstantsAssumption
<1>1. attempt' \in [Attempts -> AttemptRow]
  BY DEF Confirm, TypeOK, AttemptRow, AttemptStatus
<1>2. CASE reservation[o].status \notin {"CONSUMED", "RELEASED"}
  <2>1. onHand' = Consumed(o) /\ StockCovers(o) /\ UNCHANGED alerts
    BY <1>2 DEF Confirm
  <2>2. onHand' \in [Variants -> Nat]
    BY <1>0, <2>1 DEF Consumed, StockCovers, TypeOK
  <2>3. order' \in [Orders -> OrderStatus]
    BY <1>2 DEF Confirm, TypeOK, OrderStatus
  <2>4. reservation' \in [Orders -> ReservationRow]
    <3>1. reservation' = [reservation EXCEPT ![o] = ConsumedRow(reservation[o])]
      BY <1>2 DEF Confirm
    <3>2. ConsumedRow(reservation[o]) \in ReservationRow
      BY <1>0, ConsumedType DEF TypeOK
    <3> QED BY <1>0, <3>1, <3>2, OneRow DEF TypeOK
  <2> QED BY <1>1, <2>1, <2>2, <2>3, <2>4 DEF TypeOK
<1>3. CASE reservation[o].status \in {"CONSUMED", "RELEASED"}
  BY <1>1, <1>3 DEF Confirm, TypeOK, OrderStatus, AlertKinds
<1> QED BY <1>2, <1>3

\* A contradictory result keeps order and reservation well typed.
LEMMA ProtectType ==
    ASSUME TypeOK, NEW a \in Attempts, ProtectFailedAttempt(a)
    PROVE  /\ order' \in [Orders -> OrderStatus]
           /\ reservation' \in [Orders -> ReservationRow]
<1> DEFINE o == OrderOf[a]
<1>0. o \in Orders
  BY ConstantsAssumption
<1>1. CASE UNCHANGED <<order, reservation>>
  BY <1>1 DEF TypeOK
<1>2. CASE ~UNCHANGED <<order, reservation>>
  <2>1. order' = [order EXCEPT ![o] = "PAYMENT_REVIEW"]
    BY <1>2 DEF ProtectFailedAttempt
  <2>2. order' \in [Orders -> OrderStatus]
    BY <2>1 DEF TypeOK, OrderStatus
  <2>3. \/ reservation' = reservation
        \/ reservation' = [reservation EXCEPT ![o] = HeldForConflict(reservation[o], a)]
    BY <1>2 DEF ProtectFailedAttempt
  <2>4. HeldForConflict(reservation[o], a) \in ReservationRow
    BY <1>0, ConflictType DEF TypeOK
  <2>5. reservation' \in [Orders -> ReservationRow]
    BY <1>0, <2>3, <2>4, OneRow DEF TypeOK
  <2> QED BY <2>2, <2>5
<1> QED BY <1>1, <1>2

\* No provider result leaves the types.
LEMMA ApplyProviderResultType ==
    ASSUME TypeOK, NEW a \in Attempts, NEW r \in Results, ApplyProviderResult(a, r)
    PROVE  /\ onHand' \in [Variants -> Nat]
           /\ order' \in [Orders -> OrderStatus]
           /\ reservation' \in [Orders -> ReservationRow]
           /\ attempt' \in [Attempts -> AttemptRow]
           /\ observed' \in [Attempts -> SUBSET Results]
           /\ alerts' \in [Attempts -> SUBSET AlertKinds]
<1>1. ASSUME NEW s \in Results, NewEvent(a, s)
      PROVE  observed' \in [Attempts -> SUBSET Results]
  BY <1>1 DEF NewEvent, TypeOK
<1>2. ASSUME NEW k \in AlertKinds, RaiseAlert(a, k)
      PROVE  alerts' \in [Attempts -> SUBSET AlertKinds]
  BY <1>2 DEF RaiseAlert, TypeOK
<1>3. CASE ResultConfirms(a)
  BY <1>1, <1>3, ConfirmType DEF ResultConfirms, Results
<1>4. CASE ResultFails(a)
  BY <1>1, <1>4, ApplyVerdictsType DEF ResultFails, Results, TypeOK
<1>5. CASE ResultPends(a)
  BY <1>1, <1>5, ApplyVerdictsType DEF ResultPends, TransitionToReview, Results, TypeOK
<1>6. CASE ResultEchoes(a, r)
  BY <1>1, <1>6 DEF ResultEchoes, TypeOK
<1>7. CASE ResultContradicts(a, r)
  BY <1>1, <1>2, <1>7, ProtectType DEF ResultContradicts, TypeOK, AlertKinds
<1>8. CASE AmountMismatches(a, r)
  BY <1>1, <1>2, <1>8, ApplyVerdictsType
     DEF AmountMismatches, TransitionToReview, TypeOK, AlertKinds
<1>9. CASE EventConflicts(a, r)
  BY <1>2, <1>9, ProtectType DEF EventConflicts, OldEvent, TypeOK, AlertKinds
<1>10. CASE RepeatMismatches(a, r)
  BY <1>2, <1>10 DEF RepeatMismatches, OldEvent, TypeOK, AlertKinds
<1> QED
  BY <1>3, <1>4, <1>5, <1>6, <1>7, <1>8, <1>9, <1>10 DEF ApplyProviderResult

\* Every step keeps the types: the only numbers, the on-hand counts, stay
\* natural because consumption checks them first.
LEMMA TypeStep == ASSUME TypeOK, [Next]_vars PROVE TypeOK'
<1>1. ASSUME NEW v \in Variants, NEW n \in StockLevels, ReplaceOnHand(v, n) PROVE TypeOK'
  BY <1>1, ConstantsAssumption DEF ReplaceOnHand, TypeOK
<1>2. ASSUME NEW o \in Orders, CreateOrder(o) PROVE TypeOK'
  BY <1>2 DEF CreateOrder, TypeOK, OrderStatus, ReservationRow, ReservationStatus
<1>3. ASSUME NEW o \in Orders, ReservationExpires(o) PROVE TypeOK'
  BY <1>3 DEF ReservationExpires, TypeOK, ReservationRow
<1>4. ASSUME NEW o \in Orders, HoldLapses(o) PROVE TypeOK'
  <2>1. reservation' \in [Orders -> ReservationRow]
    BY <1>4 DEF HoldLapses, TypeOK, ReservationRow
  <2>2. attempt' \in [Attempts -> AttemptRow]
    BY <1>4 DEF HoldLapses, TypeOK, AttemptRow
  <2> QED BY <1>4, <2>1, <2>2 DEF HoldLapses, TypeOK
<1>5. ASSUME NEW o \in Orders, ExpirePendingOrder(o) PROVE TypeOK'
  BY <1>5 DEF ExpirePendingOrder, TypeOK, OrderStatus, ReservationRow, ReservationStatus
<1>6. ASSUME NEW swept \in SUBSET Attempts, RecoverExpiredAttempts(swept) PROVE TypeOK'
  BY <1>6, ApplyVerdictsType DEF RecoverExpiredAttempts, TypeOK
<1>7. ASSUME NEW a \in Attempts, PrepareAttempt(a) PROVE TypeOK'
  <2>1. reservation' \in [Orders -> ReservationRow]
    <3>1. OrderOf[a] \in Orders
      BY <1>7, ConstantsAssumption
    <3>2. reservation' = [reservation EXCEPT ![OrderOf[a]].attempt = a]
      BY <1>7 DEF PrepareAttempt
    <3> QED BY <3>1, <3>2 DEF TypeOK, ReservationRow
  <2>2. attempt' \in [Attempts -> AttemptRow]
    BY <1>7 DEF PrepareAttempt, TypeOK, AttemptRow, AttemptStatus
  <2> QED BY <1>7, <2>1, <2>2 DEF PrepareAttempt, TypeOK
<1>8. ASSUME NEW a \in Attempts, ReplayLapsedDispatch(a) PROVE TypeOK'
  BY <1>8, ApplyVerdictsType DEF ReplayLapsedDispatch, TransitionToReview, TypeOK
<1>9. ASSUME NEW a \in Attempts, ClaimDispatch(a) PROVE TypeOK'
  <2>1. attempt' = [attempt EXCEPT ![a] = Dispatched(attempt[a])]
    BY <1>9 DEF ClaimDispatch
  <2>2. attempt' \in [Attempts -> AttemptRow]
    BY <2>1, DispatchedType, OneRow DEF TypeOK
  <2>3. provider' \in [Attempts -> ProviderRow]
    BY <1>9 DEF ClaimDispatch, TypeOK, ProviderRow
  <2> QED BY <1>9, <2>2, <2>3 DEF ClaimDispatch, TypeOK
<1>10. ASSUME NEW a \in Attempts, InitiateReturns(a) PROVE TypeOK'
  BY <1>10 DEF InitiateReturns, TypeOK
<1>11. ASSUME NEW a \in Attempts, InitiateThrows(a) PROVE TypeOK'
  BY <1>11 DEF InitiateThrows, TypeOK
<1>12. ASSUME NEW a \in Attempts, RecordInitiation(a) PROVE TypeOK'
  BY <1>12 DEF RecordInitiation, StoreReference, TypeOK, AttemptRow
<1>13. ASSUME NEW a \in Attempts, MarkDispatchUnknown(a) PROVE TypeOK'
  BY <1>13, ApplyVerdictsType DEF MarkDispatchUnknown, TransitionToReview, TypeOK
<1>14. ASSUME NEW a \in Attempts, RequestCrashes(a) PROVE TypeOK'
  BY <1>14 DEF RequestCrashes, TypeOK
<1>15. ASSUME NEW a \in Attempts, ClaimNextReconciliation(a) PROVE TypeOK'
  <2>1. attempt' \in [Attempts -> AttemptRow]
    BY <1>15 DEF ClaimNextReconciliation, TypeOK, AttemptRow
  <2>2. alerts' \in [Attempts -> SUBSET AlertKinds]
    BY <1>15 DEF ClaimNextReconciliation, TypeOK, AlertKinds
  <2>3. reconciling' \in [task: {"NONE", "QUERY", "INITIATE", "RECORD"},
                          attempt: Attempts \cup {NoAttempt}]
    BY <1>15 DEF ClaimNextReconciliation
  <2> QED BY <1>15, <2>1, <2>2, <2>3 DEF ClaimNextReconciliation, TypeOK
<1>16. ASSUME NEW a \in Attempts, NEW r \in Results, ReconcileQueries(a, r) PROVE TypeOK'
  BY <1>16, ApplyProviderResultType DEF ReconcileQueries, NoTask, TypeOK
<1>17. ASSUME NEW a \in Attempts, ReconcileInitiates(a) PROVE TypeOK'
  BY <1>17 DEF ReconcileInitiates, TypeOK, ProviderRow
<1>18. ASSUME NEW a \in Attempts, ReconcileRecords(a) PROVE TypeOK'
  BY <1>18 DEF ReconcileRecords, StoreReference, NoTask, TypeOK, AttemptRow
<1>19. ASSUME NEW a \in Attempts, RequestReconciliation(a) PROVE TypeOK'
  BY <1>19 DEF RequestReconciliation, TypeOK, AttemptRow
<1>20. ASSUME NEW a \in Attempts, DispatchLeaseEnds(a) PROVE TypeOK'
  BY <1>20 DEF DispatchLeaseEnds, TypeOK, AttemptRow
<1>21. ASSUME NEW a \in Attempts, ProviderOpens(a) PROVE TypeOK'
  BY <1>21 DEF ProviderOpens, TypeOK, ProviderRow
<1>22. ASSUME NEW a \in Attempts, NEW r \in {"CONFIRMED", "FAILED"}, ProviderDecides(a, r) PROVE TypeOK'
  BY <1>22 DEF ProviderDecides, TypeOK, ProviderRow
<1>23. ASSUME NEW a \in Attempts, NEW r \in Results, Callback(a, r) PROVE TypeOK'
  BY <1>23, ApplyProviderResultType DEF Callback, TypeOK
<1>24. ASSUME ReconcileGivesUp PROVE TypeOK'
  BY <1>24 DEF ReconcileGivesUp, NoTask, TypeOK
<1>25. ASSUME UNCHANGED vars PROVE TypeOK'
  BY <1>25 DEF vars, TypeOK
<1> QED
  BY <1>1, <1>2, <1>3, <1>4, <1>5, <1>6, <1>7, <1>8, <1>9, <1>10, <1>11, <1>12, <1>13,
     <1>14, <1>15, <1>16, <1>17, <1>18, <1>19, <1>20, <1>21, <1>22, <1>23, <1>24, <1>25
     DEF Next, Sweeps, Others, Requests, Reconciles

\* Every variable keeps its type; in particular no count of stock is negative.
THEOREM TypeCorrect == Spec => []TypeOK
<1>1. Init => TypeOK
  <2> SUFFICES ASSUME Init PROVE TypeOK
    OBVIOUS
  <2>1. onHand \in [Variants -> Nat] /\ order \in [Orders -> OrderStatus]
    BY ConstantsAssumption DEF Init, OrderStatus
  <2>2. reservation \in [Orders -> ReservationRow]
    BY DEF Init, NoReservation, ReservationRow, ReservationStatus
  <2>3. attempt \in [Attempts -> AttemptRow]
    BY DEF Init, NoAttemptRow, AttemptRow, AttemptStatus
  <2>4. provider \in [Attempts -> ProviderRow]
    BY DEF Init, ProviderRow
  <2> QED BY <2>1, <2>2, <2>3, <2>4 DEF Init, NoTask, TypeOK
<1>2. TypeOK /\ [Next]_vars => TypeOK'
  BY TypeStep
<1> QED BY <1>1, <1>2, PTL DEF Spec

-----------------------------------------------------------------------------
(* The order, its reservation and its attempts never disagree. *)

\* The order and its reservation, and the attempt a held reservation names.
OrderRowsAgree(o) ==
    LET r == reservation[o] IN
    /\ order[o] = "NONE" => r.status = "NONE"
    /\ order[o] = "PENDING_PAYMENT" => r.status = "ACTIVE"
    /\ order[o] = "EXPIRED" => r.status = "RELEASED"
    /\ r.status = "CONSUMED" => order[o] = "PAID"
    /\ r.status \in {"NONE", "CONSUMED", "RELEASED"} => r.attempt = NoAttempt
    /\ r.status = "HELD_FOR_REVIEW" => order[o] = "PAYMENT_REVIEW"
    /\ r.attempt # NoAttempt =>
          /\ OrderOf[r.attempt] = o
          /\ r.status = "ACTIVE" => attempt[r.attempt].status \in {"CREATED", "DISPATCHED"}
          /\ r.status = "HELD_FOR_REVIEW" =>
                attempt[r.attempt].status \in {"REVIEW_REQUIRED", "FAILED"}

RowsInv ==
    /\ \A o \in Orders : OrderRowsAgree(o)
    /\ LiveAttemptOwnsReservation
    /\ PaidIsSettled

\* RowsInv reads only statuses and which attempt holds a reservation.
LEMMA RowsFrame ==
    ASSUME TypeOK, RowsInv, UNCHANGED order,
           \A o \in Orders : /\ reservation'[o].status = reservation[o].status
                             /\ reservation'[o].attempt = reservation[o].attempt,
           \A a \in Attempts : attempt'[a].status = attempt[a].status
    PROVE  RowsInv'
<1>1. \A o \in Orders : OrderRowsAgree(o)'
  <2> SUFFICES ASSUME NEW o \in Orders PROVE OrderRowsAgree(o)'
    OBVIOUS
  <2>1. reservation[o].attempt \in Attempts \cup {NoAttempt}
    BY DEF TypeOK, ReservationRow
  <2> QED BY <2>1 DEF RowsInv, OrderRowsAgree
<1>2. LiveAttemptOwnsReservation'
  BY ConstantsAssumption DEF RowsInv, LiveAttemptOwnsReservation, OwnsReservation
<1>3. PaidIsSettled'
  <2>1. \A o \in Orders : Confirmed(o)' = Confirmed(o)
    BY DEF Confirmed
  <2> QED BY <2>1 DEF RowsInv, PaidIsSettled
<1> QED BY <1>1, <1>2, <1>3 DEF RowsInv

\* An attempt that may still be decided holds the reservation of its order, and
\* that order is not paid.
LEMMA OpenAttempt ==
    ASSUME TypeOK, RowsInv, NEW a \in Attempts,
           attempt[a].status \in {"CREATED", "DISPATCHED", "REVIEW_REQUIRED"}
    PROVE  /\ OrderOf[a] \in Orders
           /\ reservation[OrderOf[a]].attempt = a
           /\ reservation[OrderOf[a]].status \in {"ACTIVE", "HELD_FOR_REVIEW"}
           /\ order[OrderOf[a]] \in {"PENDING_PAYMENT", "PAYMENT_REVIEW"}
           /\ Confirmed(OrderOf[a]) = {}
BY ConstantsAssumption
   DEF RowsInv, LiveAttemptOwnsReservation, OwnsReservation, PaidIsSettled

\* Failing and reviewing attempts that are open keeps order, reservation and
\* attempts in agreement, however many of them one sweep handles.
LEMMA ApplyVerdictsRows ==
    ASSUME TypeOK, RowsInv, NEW failed \in SUBSET Attempts, NEW review \in SUBSET Attempts,
           ApplyVerdicts(failed, review), failed \cap review = {},
           \A a \in failed : attempt[a].status \in {"CREATED", "DISPATCHED", "REVIEW_REQUIRED"},
           \A a \in review : attempt[a].status = "DISPATCHED"
    PROVE  RowsInv'
<1>0. /\ NoAttempt \notin failed /\ NoAttempt \notin review
      /\ \A a \in Attempts : OrderOf[a] \in Orders
  BY ConstantsAssumption
<1>1. ASSUME NEW o \in Orders
      PROVE  /\ reservation[o].attempt \in failed =>
                    /\ reservation'[o] = Freed(reservation[o])
                    /\ order'[o] = IF reservation[o].expired THEN "EXPIRED"
                                                           ELSE "PENDING_PAYMENT"
             /\ reservation[o].attempt \in review =>
                    /\ reservation'[o] = HeldForReview(reservation[o])
                    /\ order'[o] = "PAYMENT_REVIEW"
             /\ reservation[o].attempt \notin failed \cup review =>
                    /\ reservation'[o] = reservation[o]
                    /\ order'[o] = order[o]
  BY <1>1 DEF ApplyVerdicts
<1>2. ASSUME NEW a \in Attempts
      PROVE  attempt'[a].status = IF a \in failed THEN "FAILED"
                                  ELSE IF a \in review THEN "REVIEW_REQUIRED"
                                  ELSE attempt[a].status
  <2>1. attempt'[a] = IF a \in failed THEN [attempt[a] EXCEPT !.status = "FAILED"]
                      ELSE IF a \in review
                      THEN [attempt[a] EXCEPT !.status = "REVIEW_REQUIRED", !.due = TRUE]
                      ELSE attempt[a]
    BY <1>2 DEF ApplyVerdicts
  <2>2. attempt[a] \in AttemptRow
    BY <1>2 DEF TypeOK
  <2> QED BY <2>1, <2>2 DEF AttemptRow
<1>3. ASSUME NEW r \in ReservationRow
      PROVE  /\ Freed(r).status = IF r.expired THEN "RELEASED" ELSE "ACTIVE"
             /\ Freed(r).attempt = NoAttempt
             /\ HeldForReview(r).status = "HELD_FOR_REVIEW"
             /\ HeldForReview(r).attempt = r.attempt
  BY DEF Freed, HeldForReview, ReservationRow
<1>4. \A o \in Orders : reservation[o] \in ReservationRow
                        /\ reservation[o].attempt \in Attempts \cup {NoAttempt}
                        /\ reservation[o].expired \in BOOLEAN
  BY DEF TypeOK, ReservationRow
<1>5. ASSUME NEW o \in Orders PROVE OrderRowsAgree(o)'
  <2>1. CASE reservation[o].attempt \in failed
    BY <1>0, <1>1, <1>3, <1>4, <2>1 DEF OrderRowsAgree
  <2>2. CASE reservation[o].attempt \in review
    BY <1>0, <1>1, <1>2, <1>3, <1>4, <2>2 DEF OrderRowsAgree, RowsInv
  <2>3. CASE reservation[o].attempt \notin failed \cup review
    BY <1>0, <1>1, <1>2, <1>4, <2>3 DEF OrderRowsAgree, RowsInv
  <2> QED BY <2>1, <2>2, <2>3
<1>6. LiveAttemptOwnsReservation'
  <2> SUFFICES ASSUME NEW a \in Attempts,
                      attempt'[a].status \in {"CREATED", "DISPATCHED", "REVIEW_REQUIRED"}
               PROVE  /\ reservation'[OrderOf[a]].attempt = a
                      /\ attempt'[a].status \in {"CREATED", "DISPATCHED"} =>
                            /\ reservation'[OrderOf[a]].status = "ACTIVE"
                            /\ order'[OrderOf[a]] \in {"PENDING_PAYMENT", "PAYMENT_REVIEW"}
                      /\ attempt'[a].status = "REVIEW_REQUIRED" =>
                            /\ reservation'[OrderOf[a]].status = "HELD_FOR_REVIEW"
                            /\ order'[OrderOf[a]] = "PAYMENT_REVIEW"
    BY DEF LiveAttemptOwnsReservation, OwnsReservation
  <2>1. a \notin failed
    BY <1>2
  <2>2. CASE a \in review
    BY <1>0, <1>1, <1>2, <1>3, <1>4, <2>1, <2>2, OpenAttempt
  <2>3. CASE a \notin review
    <3>1. attempt'[a].status = attempt[a].status
      BY <1>2, <2>1, <2>3
    <3>2. reservation[OrderOf[a]].attempt = a /\ OrderOf[a] \in Orders
      BY <3>1, OpenAttempt
    <3>3. reservation'[OrderOf[a]] = reservation[OrderOf[a]]
          /\ order'[OrderOf[a]] = order[OrderOf[a]]
      BY <1>1, <2>1, <2>3, <3>2
    <3> QED BY <3>1, <3>3 DEF RowsInv, LiveAttemptOwnsReservation, OwnsReservation
  <2> QED BY <2>2, <2>3
<1>7. PaidIsSettled'
  <2> SUFFICES ASSUME NEW o \in Orders
               PROVE  /\ order'[o] = "PAID" <=> reservation'[o].status = "CONSUMED"
                      /\ order'[o] = "PAID" <=> Confirmed(o)' # {}
                      /\ \A a, b \in Confirmed(o)' : a = b
    BY DEF PaidIsSettled
  <2>1. Confirmed(o)' = Confirmed(o)
    BY <1>2 DEF Confirmed
  <2>2. order'[o] = "PAID" <=> order[o] = "PAID"
    BY <1>0, <1>1, <1>4 DEF RowsInv, OrderRowsAgree, PaidIsSettled
  <2>3. reservation'[o].status = "CONSUMED" <=> reservation[o].status = "CONSUMED"
    BY <1>0, <1>1, <1>3, <1>4 DEF RowsInv, OrderRowsAgree
  <2> QED BY <2>1, <2>2, <2>3 DEF RowsInv, PaidIsSettled
<1> QED BY <1>5, <1>6, <1>7 DEF RowsInv

\* An attempt that waits for a result finds its reservation unsettled: the
\* branch for paid money without stock is never taken here.
LEMMA ConfirmRows ==
    ASSUME TypeOK, RowsInv, NEW a \in Attempts, AwaitsResult(a), Confirm(a)
    PROVE  RowsInv'
<1> DEFINE o == OrderOf[a]
<1>1. /\ o \in Orders /\ reservation[o].attempt = a
      /\ reservation[o].status \in {"ACTIVE", "HELD_FOR_REVIEW"}
      /\ order[o] \in {"PENDING_PAYMENT", "PAYMENT_REVIEW"}
      /\ Confirmed(o) = {}
  BY OpenAttempt DEF AwaitsResult
<1>2. /\ reservation' = [reservation EXCEPT ![o] = ConsumedRow(reservation[o])]
      /\ order' = [order EXCEPT ![o] = "PAID"]
  BY <1>1 DEF Confirm
<1>3. ConsumedRow(reservation[o]).status = "CONSUMED"
      /\ ConsumedRow(reservation[o]).attempt = NoAttempt
  <2>1. ASSUME NEW r \in ReservationRow
        PROVE ConsumedRow(r).status = "CONSUMED" /\ ConsumedRow(r).attempt = NoAttempt
    BY DEF ConsumedRow, ReservationRow
  <2> QED BY <1>1, <2>1 DEF TypeOK
<1>4. /\ reservation'[o].status = "CONSUMED" /\ reservation'[o].attempt = NoAttempt
      /\ order'[o] = "PAID"
      /\ \A p \in Orders \ {o} : reservation'[p] = reservation[p] /\ order'[p] = order[p]
  BY <1>1, <1>2, <1>3 DEF TypeOK
<1>5. \A b \in Attempts : attempt'[b].status = IF b = a THEN "CONFIRMED" ELSE attempt[b].status
  <2>1. attempt' = [attempt EXCEPT ![a].status = "CONFIRMED"]
    BY DEF Confirm
  <2> QED BY <2>1 DEF TypeOK, AttemptRow
<1>6. \A p \in Orders : reservation[p].attempt \in Attempts \cup {NoAttempt}
  BY DEF TypeOK, ReservationRow
<1>7. ASSUME NEW p \in Orders PROVE OrderRowsAgree(p)'
  BY <1>1, <1>4, <1>5, <1>6 DEF OrderRowsAgree, RowsInv
<1>8. LiveAttemptOwnsReservation'
  <2> SUFFICES ASSUME NEW b \in Attempts,
                      attempt'[b].status \in {"CREATED", "DISPATCHED", "REVIEW_REQUIRED"}
               PROVE  /\ OrderOf[b] \in Orders \ {o}
                      /\ attempt'[b].status = attempt[b].status
    BY <1>4 DEF RowsInv, LiveAttemptOwnsReservation, OwnsReservation
  <2>1. b # a /\ attempt'[b].status = attempt[b].status
    BY <1>5
  <2>2. OrderOf[b] \in Orders /\ reservation[OrderOf[b]].attempt = b
    BY <2>1, OpenAttempt
  <2> QED BY <1>1, <2>1, <2>2
<1>9. PaidIsSettled'
  <2> SUFFICES ASSUME NEW p \in Orders
               PROVE  /\ order'[p] = "PAID" <=> reservation'[p].status = "CONSUMED"
                      /\ order'[p] = "PAID" <=> Confirmed(p)' # {}
                      /\ \A b, c \in Confirmed(p)' : b = c
    BY DEF PaidIsSettled
  <2>1. CASE p = o
    <3>1. Confirmed(p)' = {a}
      BY <1>1, <1>5, <2>1 DEF Confirmed
    <3> QED BY <1>4, <2>1, <3>1
  <2>2. CASE p # o
    <3>1. Confirmed(p)' = Confirmed(p)
      BY <1>5, <2>2 DEF Confirmed
    <3> QED BY <1>4, <2>2, <3>1 DEF RowsInv, PaidIsSettled
  <2> QED BY <2>1, <2>2
<1> QED BY <1>7, <1>8, <1>9 DEF RowsInv

\* A contradictory result keeps them in agreement.
LEMMA ProtectRows ==
    ASSUME TypeOK, RowsInv, NEW a \in Attempts, ProtectFailedAttempt(a), UNCHANGED attempt
    PROVE  RowsInv'
<1> DEFINE o == OrderOf[a]
<1>0. o \in Orders
  BY ConstantsAssumption
<1>1. CASE UNCHANGED <<order, reservation>>
  BY <1>1, RowsFrame
<1>2. CASE ~UNCHANGED <<order, reservation>>
  <2> DEFINE taken == /\ order[o] = "PENDING_PAYMENT" /\ reservation[o].status = "ACTIVE"
                      /\ reservation[o].attempt = NoAttempt
  <2>1. /\ attempt[a].status = "FAILED"
        /\ order[o] \in {"PENDING_PAYMENT", "EXPIRED"}
        /\ order' = [order EXCEPT ![o] = "PAYMENT_REVIEW"]
        /\ reservation' = IF taken
                          THEN [reservation EXCEPT ![o] = HeldForConflict(reservation[o], a)]
                          ELSE reservation
    BY <1>2 DEF ProtectFailedAttempt
  <2>2. HeldForConflict(reservation[o], a).status = "HELD_FOR_REVIEW"
        /\ HeldForConflict(reservation[o], a).attempt = a
    <3>1. ASSUME NEW r \in ReservationRow
          PROVE HeldForConflict(r, a).status = "HELD_FOR_REVIEW"
                /\ HeldForConflict(r, a).attempt = a
      BY DEF HeldForConflict, ReservationRow
    <3> QED BY <1>0, <3>1 DEF TypeOK
  <2>3. /\ order'[o] = "PAYMENT_REVIEW"
        /\ taken => reservation'[o].status = "HELD_FOR_REVIEW" /\ reservation'[o].attempt = a
        /\ ~taken => reservation'[o] = reservation[o]
        /\ \A p \in Orders \ {o} : reservation'[p] = reservation[p] /\ order'[p] = order[p]
    BY <1>0, <2>1, <2>2 DEF TypeOK
  <2>4. \A p \in Orders : reservation[p].attempt \in Attempts \cup {NoAttempt}
    BY DEF TypeOK, ReservationRow
  <2>5. NoAttempt \notin Attempts
    BY ConstantsAssumption
  <2>6. reservation[o].status \in {"ACTIVE", "RELEASED"} /\ Confirmed(o) = {}
    BY <1>0, <2>1 DEF RowsInv, OrderRowsAgree, PaidIsSettled
  <2>7. ASSUME NEW p \in Orders PROVE OrderRowsAgree(p)'
    BY <1>0, <2>1, <2>3, <2>4, <2>5, <2>6 DEF OrderRowsAgree, RowsInv
  <2>8. LiveAttemptOwnsReservation'
    <3> SUFFICES ASSUME NEW b \in Attempts,
                        attempt[b].status \in {"CREATED", "DISPATCHED", "REVIEW_REQUIRED"}
                 PROVE  /\ reservation'[OrderOf[b]] = reservation[OrderOf[b]]
                        /\ \/ order'[OrderOf[b]] = order[OrderOf[b]]
                           \/ order'[OrderOf[b]] = "PAYMENT_REVIEW"
      BY DEF RowsInv, LiveAttemptOwnsReservation, OwnsReservation
    <3>1. OrderOf[b] \in Orders /\ reservation[OrderOf[b]].attempt = b
      BY OpenAttempt
    <3> QED BY <2>3, <2>5, <3>1
  <2>9. PaidIsSettled'
    <3>1. \A p \in Orders : Confirmed(p)' = Confirmed(p)
      BY DEF Confirmed
    <3>2. reservation'[o].status # "CONSUMED"
      BY <2>3, <2>6
    <3> QED BY <1>0, <2>3, <2>6, <3>1, <3>2 DEF RowsInv, PaidIsSettled
  <2> QED BY <2>7, <2>8, <2>9 DEF RowsInv
<1> QED BY <1>1, <1>2

\* So does every other result.
LEMMA ApplyProviderResultRows ==
    ASSUME TypeOK, RowsInv, NEW a \in Attempts, NEW r \in Results, ApplyProviderResult(a, r)
    PROVE  RowsInv'
<1>1. ASSUME UNCHANGED <<order, reservation, attempt>> PROVE RowsInv'
  BY <1>1, RowsFrame
<1>2. ASSUME TransitionToReview(a), attempt[a].status = "DISPATCHED" PROVE RowsInv'
  BY <1>2, ApplyVerdictsRows DEF TransitionToReview
<1>3. CASE ResultConfirms(a)
  BY <1>3, ConfirmRows DEF ResultConfirms
<1>4. CASE ResultFails(a)
  BY <1>4, ApplyVerdictsRows DEF ResultFails, AwaitsResult
<1>5. CASE ResultPends(a)
  BY <1>2, <1>5 DEF ResultPends
<1>6. CASE ResultEchoes(a, r)
  BY <1>1, <1>6 DEF ResultEchoes
<1>7. CASE ResultContradicts(a, r)
  BY <1>7, ProtectRows DEF ResultContradicts
<1>8. CASE AmountMismatches(a, r)
  BY <1>1, <1>2, <1>8 DEF AmountMismatches
<1>9. CASE EventConflicts(a, r)
  BY <1>9, ProtectRows DEF EventConflicts
<1>10. CASE RepeatMismatches(a, r)
  BY <1>1, <1>10 DEF RepeatMismatches
<1> QED
  BY <1>3, <1>4, <1>5, <1>6, <1>7, <1>8, <1>9, <1>10 DEF ApplyProviderResult

\* An order without a holder that was and stays unpaid may change status.
LEMMA UnpaidChange ==
    ASSUME TypeOK, RowsInv, NEW o \in Orders, UNCHANGED attempt,
           order[o] \in {"NONE", "PENDING_PAYMENT"}, reservation[o].attempt = NoAttempt,
           \/ order'[o] = "PENDING_PAYMENT" /\ reservation'[o].status = "ACTIVE"
           \/ order'[o] = "EXPIRED" /\ reservation'[o].status = "RELEASED",
           reservation'[o].attempt = NoAttempt,
           \A p \in Orders \ {o} : reservation'[p] = reservation[p] /\ order'[p] = order[p]
    PROVE  RowsInv'
<1>0. NoAttempt \notin Attempts
  BY ConstantsAssumption
<1>1. ASSUME NEW p \in Orders PROVE OrderRowsAgree(p)'
  BY DEF RowsInv, OrderRowsAgree
<1>2. LiveAttemptOwnsReservation'
  <2> SUFFICES ASSUME NEW a \in Attempts,
                      attempt[a].status \in {"CREATED", "DISPATCHED", "REVIEW_REQUIRED"}
               PROVE  /\ reservation'[OrderOf[a]] = reservation[OrderOf[a]]
                      /\ order'[OrderOf[a]] = order[OrderOf[a]]
    BY DEF RowsInv, LiveAttemptOwnsReservation, OwnsReservation
  <2> QED BY <1>0, OpenAttempt
<1>3. PaidIsSettled'
  <2>1. \A p \in Orders : Confirmed(p)' = Confirmed(p)
    BY DEF Confirmed
  <2>2. Confirmed(o) = {}
    BY DEF RowsInv, PaidIsSettled
  <2> QED BY <2>1, <2>2 DEF RowsInv, PaidIsSettled
<1> QED BY <1>1, <1>2, <1>3 DEF RowsInv

\* A new attempt takes a free reservation of an open order.
LEMMA PrepareRows ==
    ASSUME TypeOK, RowsInv, NEW a \in Attempts, PrepareAttempt(a)
    PROVE  RowsInv'
<1> DEFINE o == OrderOf[a]
<1>0. o \in Orders /\ NoAttempt \notin Attempts
  BY ConstantsAssumption
<1>1. /\ order[o] = "PENDING_PAYMENT" /\ reservation[o].status = "ACTIVE"
      /\ reservation[o].attempt = NoAttempt /\ attempt[a].status = "NONE"
      /\ reservation' = [reservation EXCEPT ![o].attempt = a]
      /\ attempt' = [attempt EXCEPT ![a].status = "CREATED"]
      /\ UNCHANGED order
  BY DEF PrepareAttempt, Payable
<1>2. /\ reservation'[o].status = "ACTIVE" /\ reservation'[o].attempt = a
      /\ \A p \in Orders \ {o} : reservation'[p] = reservation[p]
  BY <1>0, <1>1 DEF TypeOK, ReservationRow
<1>3. \A b \in Attempts : attempt'[b].status = IF b = a THEN "CREATED" ELSE attempt[b].status
  BY <1>1 DEF TypeOK, AttemptRow
<1>4. \A p \in Orders : reservation[p].attempt \in Attempts \cup {NoAttempt}
  BY DEF TypeOK, ReservationRow
<1>5. ASSUME NEW p \in Orders PROVE OrderRowsAgree(p)'
  BY <1>0, <1>1, <1>2, <1>3, <1>4 DEF RowsInv, OrderRowsAgree
<1>6. LiveAttemptOwnsReservation'
  <2>1. ASSUME NEW b \in Attempts, b # a,
               attempt[b].status \in {"CREATED", "DISPATCHED", "REVIEW_REQUIRED"}
        PROVE  reservation'[OrderOf[b]] = reservation[OrderOf[b]]
    BY <1>0, <1>1, <1>2, <2>1, OpenAttempt
  <2>2. ASSUME NEW b \in Attempts
        PROVE  /\ attempt'[b].status \in {"CREATED", "DISPATCHED"} =>
                     /\ OwnsReservation(b, {"ACTIVE"})'
                     /\ order'[OrderOf[b]] \in {"PENDING_PAYMENT", "PAYMENT_REVIEW"}
               /\ attempt'[b].status = "REVIEW_REQUIRED" =>
                     /\ OwnsReservation(b, {"HELD_FOR_REVIEW"})'
                     /\ order'[OrderOf[b]] = "PAYMENT_REVIEW"
    <3>1. CASE b = a
      BY <1>1, <1>2, <1>3, <3>1 DEF OwnsReservation
    <3>2. CASE b # a
      <4>1. attempt'[b].status = attempt[b].status /\ order'[OrderOf[b]] = order[OrderOf[b]]
        BY <1>1, <1>3, <3>2
      <4>2. CASE attempt[b].status \in {"CREATED", "DISPATCHED", "REVIEW_REQUIRED"}
        <5>1. reservation'[OrderOf[b]] = reservation[OrderOf[b]]
          BY <2>1, <3>2, <4>2
        <5> QED
          BY <4>1, <5>1 DEF RowsInv, LiveAttemptOwnsReservation, OwnsReservation
      <4>3. CASE attempt[b].status \notin {"CREATED", "DISPATCHED", "REVIEW_REQUIRED"}
        BY <4>1, <4>3
      <4> QED BY <4>2, <4>3
    <3> QED BY <3>1, <3>2
  <2> QED BY <2>2 DEF LiveAttemptOwnsReservation
<1>7. PaidIsSettled'
  <2>1. \A p \in Orders : Confirmed(p)' = Confirmed(p)
    BY <1>1, <1>3 DEF Confirmed
  <2> QED BY <1>0, <1>1, <1>2, <2>1 DEF RowsInv, PaidIsSettled
<1> QED BY <1>5, <1>6, <1>7 DEF RowsInv

\* A claimed dispatch changes the status of its attempt only.
LEMMA ClaimRows ==
    ASSUME TypeOK, RowsInv, NEW a \in Attempts, ClaimDispatch(a)
    PROVE  RowsInv'
<1>1. attempt[a].status = "CREATED" /\ UNCHANGED <<order, reservation>>
      /\ attempt' = [attempt EXCEPT ![a] = Dispatched(attempt[a])]
  BY DEF ClaimDispatch
<1>2. \A b \in Attempts : attempt'[b].status = IF b = a THEN "DISPATCHED" ELSE attempt[b].status
  <2>1. ASSUME NEW r \in AttemptRow PROVE Dispatched(r).status = "DISPATCHED"
    BY DEF Dispatched, AttemptRow
  <2> QED BY <1>1, <2>1 DEF TypeOK
<1>3. \A o \in Orders : reservation[o].attempt \in Attempts \cup {NoAttempt}
  BY DEF TypeOK, ReservationRow
<1>4. \A o \in Orders : OrderRowsAgree(o)'
  BY <1>1, <1>2, <1>3 DEF RowsInv, OrderRowsAgree
<1>5. LiveAttemptOwnsReservation'
  BY <1>1, <1>2 DEF RowsInv, LiveAttemptOwnsReservation, OwnsReservation
<1>6. PaidIsSettled'
  <2>1. \A o \in Orders : Confirmed(o)' = Confirmed(o)
    BY <1>1, <1>2 DEF Confirmed
  <2> QED BY <1>1, <2>1 DEF RowsInv, PaidIsSettled
<1> QED BY <1>4, <1>5, <1>6 DEF RowsInv

\* Every step keeps the rows in agreement.
LEMMA RowsStep == ASSUME TypeOK, RowsInv, [Next]_vars PROVE RowsInv'
<1>0. ASSUME UNCHANGED <<order, reservation, attempt>> PROVE RowsInv'
  BY <1>0, RowsFrame
<1>1. ASSUME NEW v \in Variants, NEW n \in StockLevels, ReplaceOnHand(v, n) PROVE RowsInv'
  BY <1>1, <1>0 DEF ReplaceOnHand
<1>2. ASSUME NEW o \in Orders, CreateOrder(o) PROVE RowsInv'
  <2>1. /\ order'[o] = "PENDING_PAYMENT" /\ reservation'[o].status = "ACTIVE"
        /\ reservation'[o].attempt = NoAttempt
        /\ \A p \in Orders \ {o} : reservation'[p] = reservation[p] /\ order'[p] = order[p]
    BY <1>2 DEF CreateOrder, TypeOK, ReservationRow, RowsInv, OrderRowsAgree
  <2>2. order[o] = "NONE" /\ UNCHANGED attempt /\ reservation[o].status = "NONE"
        /\ reservation[o].attempt = NoAttempt
    BY <1>2 DEF CreateOrder, RowsInv, OrderRowsAgree
  <2> QED BY <1>2, <2>1, <2>2, UnpaidChange
<1>3. ASSUME NEW o \in Orders, ReservationExpires(o) PROVE RowsInv'
  BY <1>3, RowsFrame DEF ReservationExpires, TypeOK, ReservationRow
<1>4. ASSUME NEW o \in Orders, HoldLapses(o) PROVE RowsInv'
  <2>1. \A p \in Orders : /\ reservation'[p].status = reservation[p].status
                          /\ reservation'[p].attempt = reservation[p].attempt
    BY <1>4 DEF HoldLapses, TypeOK, ReservationRow
  <2>2. \A a \in Attempts : attempt'[a].status = attempt[a].status
    BY <1>4 DEF HoldLapses, TypeOK, AttemptRow
  <2> QED BY <1>4, <2>1, <2>2, RowsFrame DEF HoldLapses
<1>5. ASSUME NEW o \in Orders, ExpirePendingOrder(o) PROVE RowsInv'
  <2>1. /\ order'[o] = "EXPIRED" /\ reservation'[o].status = "RELEASED"
        /\ reservation'[o].attempt = NoAttempt
        /\ \A p \in Orders \ {o} : reservation'[p] = reservation[p] /\ order'[p] = order[p]
    BY <1>5 DEF ExpirePendingOrder, Releasable, TypeOK, ReservationRow
  <2>2. order[o] = "PENDING_PAYMENT" /\ UNCHANGED attempt /\ reservation[o].status = "ACTIVE"
        /\ reservation[o].attempt = NoAttempt
    BY <1>5 DEF ExpirePendingOrder, Releasable
  <2> QED BY <1>5, <2>1, <2>2, UnpaidChange
<1>6. ASSUME NEW swept \in SUBSET Attempts, RecoverExpiredAttempts(swept) PROVE RowsInv'
  <2> DEFINE failed == {a \in swept : attempt[a].status = "CREATED"}
             review == {a \in swept : attempt[a].status = "DISPATCHED"}
  <2>1. ApplyVerdicts(failed, review)
    BY <1>6 DEF RecoverExpiredAttempts
  <2>2. failed \cap review = {} /\ failed \in SUBSET Attempts /\ review \in SUBSET Attempts
    BY <1>6
  <2>3. /\ \A a \in failed : attempt[a].status = "CREATED"
        /\ \A a \in review : attempt[a].status = "DISPATCHED"
    OBVIOUS
  <2> HIDE DEF failed, review
  <2> QED BY <2>1, <2>2, <2>3, ApplyVerdictsRows
<1>7. ASSUME NEW a \in Attempts, PrepareAttempt(a) PROVE RowsInv'
  BY <1>7, PrepareRows
<1>8. ASSUME NEW a \in Attempts, ReplayLapsedDispatch(a) PROVE RowsInv'
  BY <1>8, ApplyVerdictsRows DEF ReplayLapsedDispatch, TransitionToReview
<1>9. ASSUME NEW a \in Attempts, ClaimDispatch(a) PROVE RowsInv'
  BY <1>9, ClaimRows
<1>10. ASSUME NEW a \in Attempts, InitiateReturns(a) PROVE RowsInv'
  BY <1>10, <1>0 DEF InitiateReturns
<1>11. ASSUME NEW a \in Attempts, InitiateThrows(a) PROVE RowsInv'
  BY <1>11, <1>0 DEF InitiateThrows
<1>12. ASSUME NEW a \in Attempts, RecordInitiation(a) PROVE RowsInv'
  BY <1>12, RowsFrame DEF RecordInitiation, StoreReference, TypeOK, AttemptRow
<1>13. ASSUME NEW a \in Attempts, MarkDispatchUnknown(a) PROVE RowsInv'
  BY <1>13, <1>0, ApplyVerdictsRows DEF MarkDispatchUnknown, TransitionToReview
<1>14. ASSUME NEW a \in Attempts, RequestCrashes(a) PROVE RowsInv'
  BY <1>14, <1>0 DEF RequestCrashes
<1>15. ASSUME NEW a \in Attempts, ClaimNextReconciliation(a) PROVE RowsInv'
  BY <1>15, RowsFrame DEF ClaimNextReconciliation, TypeOK, AttemptRow
<1>16. ASSUME NEW a \in Attempts, NEW r \in Results, ReconcileQueries(a, r) PROVE RowsInv'
  BY <1>16, ApplyProviderResultRows DEF ReconcileQueries
<1>17. ASSUME NEW a \in Attempts, ReconcileInitiates(a) PROVE RowsInv'
  BY <1>17, <1>0 DEF ReconcileInitiates
<1>18. ASSUME NEW a \in Attempts, ReconcileRecords(a) PROVE RowsInv'
  BY <1>18, RowsFrame DEF ReconcileRecords, StoreReference, TypeOK, AttemptRow
<1>19. ASSUME NEW a \in Attempts, RequestReconciliation(a) PROVE RowsInv'
  BY <1>19, RowsFrame DEF RequestReconciliation, TypeOK, AttemptRow
<1>20. ASSUME NEW a \in Attempts, DispatchLeaseEnds(a) PROVE RowsInv'
  BY <1>20, RowsFrame DEF DispatchLeaseEnds, TypeOK, AttemptRow
<1>21. ASSUME NEW a \in Attempts, ProviderOpens(a) PROVE RowsInv'
  BY <1>21, <1>0 DEF ProviderOpens
<1>22. ASSUME NEW a \in Attempts, NEW r \in {"CONFIRMED", "FAILED"}, ProviderDecides(a, r) PROVE RowsInv'
  BY <1>22, <1>0 DEF ProviderDecides
<1>23. ASSUME NEW a \in Attempts, NEW r \in Results, Callback(a, r) PROVE RowsInv'
  BY <1>23, ApplyProviderResultRows DEF Callback
<1>24. ASSUME ReconcileGivesUp PROVE RowsInv'
  BY <1>24, <1>0 DEF ReconcileGivesUp
<1>25. ASSUME UNCHANGED vars PROVE RowsInv'
  BY <1>25, <1>0 DEF vars
<1> QED
  BY <1>1, <1>2, <1>3, <1>4, <1>5, <1>6, <1>7, <1>8, <1>9, <1>10, <1>11, <1>12, <1>13,
     <1>14, <1>15, <1>16, <1>17, <1>18, <1>19, <1>20, <1>21, <1>22, <1>23, <1>24, <1>25
     DEF Next, Sweeps, Others, Requests, Reconciles

\* Order, reservation and attempts agree in every reachable state.
THEOREM RowsAgree == Spec => []RowsInv
<1>1. Init => RowsInv
  <2> SUFFICES ASSUME Init PROVE RowsInv
    OBVIOUS
  <2>1. \A o \in Orders : OrderRowsAgree(o)
    BY DEF Init, NoReservation, OrderRowsAgree
  <2>2. LiveAttemptOwnsReservation
    BY DEF Init, NoAttemptRow, LiveAttemptOwnsReservation
  <2>3. PaidIsSettled
    BY DEF Init, NoAttemptRow, NoReservation, PaidIsSettled, Confirmed
  <2> QED BY <2>1, <2>2, <2>3 DEF RowsInv
<1>2. TypeOK /\ RowsInv /\ [Next]_vars => RowsInv'
  BY RowsStep
<1> QED BY <1>1, <1>2, TypeCorrect, PTL DEF Spec

\* A live attempt always holds the reservation of its open order, so neither
\* the expiry sweep nor another attempt can take its stock.
THEOREM LiveAttemptsAreBacked == Spec => []LiveAttemptOwnsReservation
<1>1. RowsInv => LiveAttemptOwnsReservation
  BY DEF RowsInv
<1> QED BY <1>1, RowsAgree, PTL

\* Paid order, consumed stock and exactly one confirmed attempt go together.
THEOREM PaymentsSettle == Spec => []PaidIsSettled
<1>1. RowsInv => PaidIsSettled
  BY DEF RowsInv
<1> QED BY <1>1, RowsAgree, PTL

\* The recovery transaction never meets a row that makes it roll back.
THEOREM RecoveryNeverAborts == Spec => []SweepsNeverAbort
<1>1. RowsInv => SweepsNeverAbort
  BY DEF RowsInv, LiveAttemptOwnsReservation, SweepsNeverAbort, LeaseEnded
<1> QED BY <1>1, RowsAgree, PTL

-----------------------------------------------------------------------------
(* How an attempt moves. *)

\* An attempt is created, dispatched or abandoned, put in review, or decided by
\* a report of the provider that is recorded in the same step.
StatusChange(a) ==
    LET s == attempt[a].status
        t == attempt'[a].status
    IN \/ t = s
       \/ s = "NONE" /\ t = "CREATED" /\ UNCHANGED provider
       \/ s = "CREATED" /\ t = "DISPATCHED"
       \/ s = "CREATED" /\ t = "FAILED" /\ UNCHANGED provider
       \/ s = "DISPATCHED" /\ t = "REVIEW_REQUIRED" /\ UNCHANGED provider
       \/ /\ AwaitsResult(a) /\ t \in {"CONFIRMED", "FAILED"}
          /\ Reports(a, t) /\ t \in observed'[a] /\ UNCHANGED provider

\* What ApplyVerdicts does to one attempt.
LEMMA VerdictRows ==
    ASSUME TypeOK, NEW failed, NEW review, ApplyVerdicts(failed, review), NEW a \in Attempts
    PROVE  /\ a \in failed => attempt'[a].status = "FAILED"
           /\ a \in review /\ a \notin failed => attempt'[a].status = "REVIEW_REQUIRED"
           /\ a \notin failed /\ a \notin review => attempt'[a] = attempt[a]
BY DEF ApplyVerdicts, TypeOK, AttemptRow

\* A report decides or reviews the attempt it is about and no other.
LEMMA ResultChangesStatus ==
    ASSUME TypeOK, NEW b \in Attempts, NEW r \in Results, Reports(b, r),
           ApplyProviderResult(b, r), UNCHANGED provider, NEW a \in Attempts
    PROVE  StatusChange(a)
<1> USE DEF StatusChange
<1>0. ASSUME UNCHANGED attempt PROVE StatusChange(a)
  BY <1>0
<1>1. ASSUME TransitionToReview(b), attempt[b].status = "DISPATCHED" PROVE StatusChange(a)
  <2>1. IF a = b THEN attempt'[a].status = "REVIEW_REQUIRED" ELSE attempt'[a] = attempt[a]
    BY <1>1, VerdictRows DEF TransitionToReview
  <2> QED BY <1>1, <2>1
<1>2. CASE r = "CONFIRMED" /\ ResultConfirms(b)
  <2>1. /\ AwaitsResult(b) /\ r \in observed'[b]
        /\ IF a = b THEN attempt'[a].status = "CONFIRMED" ELSE attempt'[a] = attempt[a]
    BY <1>2 DEF ResultConfirms, NewEvent, Confirm, TypeOK, AttemptRow
  <2> QED BY <1>2, <2>1
<1>3. CASE r = "FAILED" /\ ResultFails(b)
  <2>1. AwaitsResult(b) /\ r \in observed'[b] /\ ApplyVerdicts({b}, {})
    BY <1>3 DEF ResultFails, NewEvent, TypeOK
  <2>2. IF a = b THEN attempt'[a].status = "FAILED" ELSE attempt'[a] = attempt[a]
    BY <2>1, VerdictRows
  <2> QED BY <1>3, <2>1, <2>2
<1>4. CASE ResultPends(b)
  BY <1>4, <1>1 DEF ResultPends
<1>5. CASE AmountMismatches(b, r)
  BY <1>5, <1>0, <1>1 DEF AmountMismatches
<1>6. CASE ResultEchoes(b, r) \/ ResultContradicts(b, r) \/ EventConflicts(b, r)
           \/ RepeatMismatches(b, r)
  BY <1>6, <1>0 DEF ResultEchoes, ResultContradicts, EventConflicts, RepeatMismatches
<1> QED BY <1>2, <1>3, <1>4, <1>5, <1>6 DEF ApplyProviderResult

\* Nothing else moves an attempt.
LEMMA StatusChanges ==
    ASSUME TypeOK, [Next]_vars, NEW a \in Attempts
    PROVE  StatusChange(a)
<1>0. ASSUME attempt'[a].status = attempt[a].status PROVE StatusChange(a)
  BY <1>0 DEF StatusChange
<1>1. ASSUME NEW b \in Attempts, TransitionToReview(b), attempt[b].status = "DISPATCHED",
             UNCHANGED provider
      PROVE  StatusChange(a)
  <2>1. IF a = b THEN attempt'[a].status = "REVIEW_REQUIRED" ELSE attempt'[a] = attempt[a]
    BY <1>1, VerdictRows DEF TransitionToReview
  <2> QED BY <1>1, <2>1 DEF StatusChange
<1>2. ASSUME NEW swept \in SUBSET Attempts, RecoverExpiredAttempts(swept)
      PROVE  StatusChange(a)
  <2> DEFINE failed == {b \in swept : attempt[b].status = "CREATED"}
             review == {b \in swept : attempt[b].status = "DISPATCHED"}
  <2>1. ApplyVerdicts(failed, review) /\ UNCHANGED provider
    BY <1>2 DEF RecoverExpiredAttempts
  <2>2. /\ a \in failed => attempt[a].status = "CREATED"
        /\ a \in review => attempt[a].status = "DISPATCHED"
    OBVIOUS
  <2> HIDE DEF failed, review
  <2>3. \/ a \in failed /\ attempt'[a].status = "FAILED"
        \/ a \in review /\ attempt'[a].status = "REVIEW_REQUIRED"
        \/ attempt'[a] = attempt[a]
    BY <2>1, VerdictRows
  <2> QED BY <2>1, <2>2, <2>3 DEF StatusChange
<1>3. ASSUME NEW b \in Attempts, PrepareAttempt(b) PROVE StatusChange(a)
  BY <1>3 DEF PrepareAttempt, StatusChange, TypeOK, AttemptRow
<1>4. ASSUME NEW b \in Attempts, ClaimDispatch(b) PROVE StatusChange(a)
  <2>1. attempt[b].status = "CREATED" /\ attempt[b] \in AttemptRow
    BY <1>4 DEF ClaimDispatch, TypeOK
  <2>2. Dispatched(attempt[b]).status = "DISPATCHED"
    BY <2>1 DEF Dispatched, AttemptRow
  <2>3. IF a = b THEN attempt'[a].status = "DISPATCHED" ELSE attempt'[a] = attempt[a]
    BY <1>4, <2>2 DEF ClaimDispatch, TypeOK
  <2> QED BY <2>1, <2>3 DEF StatusChange
<1>5. ASSUME NEW b \in Attempts, ReplayLapsedDispatch(b) PROVE StatusChange(a)
  BY <1>5, <1>1 DEF ReplayLapsedDispatch
<1>6. ASSUME NEW b \in Attempts, MarkDispatchUnknown(b) PROVE StatusChange(a)
  BY <1>6, <1>0, <1>1 DEF MarkDispatchUnknown
<1>7. ASSUME NEW b \in Attempts, NEW r \in Results,
             ReconcileQueries(b, r) \/ Callback(b, r)
      PROVE  StatusChange(a)
  BY <1>7, ResultChangesStatus DEF ReconcileQueries, Callback
<1>8. ASSUME NEW b \in Attempts,
             \/ RecordInitiation(b) \/ ClaimNextReconciliation(b) \/ ReconcileRecords(b)
             \/ RequestReconciliation(b) \/ DispatchLeaseEnds(b)
      PROVE  attempt'[a].status = attempt[a].status
  <2>1. ASSUME StoreReference(b) PROVE attempt'[a].status = attempt[a].status
    BY <2>1 DEF StoreReference, TypeOK, AttemptRow
  <2>2. CASE RecordInitiation(b) \/ ReconcileRecords(b)
    BY <2>1, <2>2 DEF RecordInitiation, ReconcileRecords
  <2>3. CASE ClaimNextReconciliation(b)
    BY <2>3 DEF ClaimNextReconciliation, TypeOK, AttemptRow
  <2>4. CASE RequestReconciliation(b)
    BY <2>4 DEF RequestReconciliation, TypeOK, AttemptRow
  <2>5. CASE DispatchLeaseEnds(b)
    BY <2>5 DEF DispatchLeaseEnds, TypeOK, AttemptRow
  <2> QED BY <1>8, <2>2, <2>3, <2>4, <2>5
<1>9. ASSUME NEW o \in Orders, HoldLapses(o)
      PROVE  attempt'[a].status = attempt[a].status
  BY <1>9 DEF HoldLapses, TypeOK, AttemptRow
<1>10. CASE UNCHANGED attempt
  BY <1>0, <1>10
<1> QED
  BY <1>0, <1>2, <1>3, <1>4, <1>5, <1>6, <1>7, <1>8, <1>9, <1>10
     DEF Next, Sweeps, Others, Requests, Reconciles, vars, ReplaceOnHand, CreateOrder,
         ReservationExpires, ExpirePendingOrder, InitiateReturns, InitiateThrows,
         RequestCrashes, ReconcileInitiates, ProviderOpens, ProviderDecides, ReconcileGivesUp

-----------------------------------------------------------------------------
(* Verdicts are final. *)

\* What ApplyVerdicts, a sweep's or a single one's, does to a paid order: nothing,
\* for only the owner of a reservation is failed or reviewed.
LEMMA VerdictsSparePaid ==
    ASSUME TypeOK, RowsInv, NEW failed \in SUBSET Attempts, NEW review \in SUBSET Attempts,
           ApplyVerdicts(failed, review), NEW o \in Orders, order[o] = "PAID"
    PROVE  order'[o] = "PAID"
<1>1. reservation[o].status = "CONSUMED"
  BY DEF RowsInv, PaidIsSettled
<1>2. reservation[o].attempt = NoAttempt
  BY <1>1 DEF RowsInv, OrderRowsAgree
<1>3. reservation[o].attempt \notin failed /\ reservation[o].attempt \notin review
  BY <1>2, ConstantsAssumption
<1> QED BY <1>3 DEF ApplyVerdicts

\* No provider result unpays an order.
LEMMA ResultsSparePaid ==
    ASSUME TypeOK, RowsInv, NEW a \in Attempts, NEW r \in Results,
           ApplyProviderResult(a, r), NEW o \in Orders, order[o] = "PAID"
    PROVE  order'[o] = "PAID"
<1>1. CASE ResultConfirms(a)
  BY <1>1 DEF ResultConfirms, Confirm, TypeOK
<1>2. CASE ResultFails(a)
  BY <1>2, VerdictsSparePaid DEF ResultFails
<1>3. ASSUME TransitionToReview(a) PROVE order'[o] = "PAID"
  BY <1>3, VerdictsSparePaid DEF TransitionToReview
<1>4. ASSUME ProtectFailedAttempt(a) PROVE order'[o] = "PAID"
  BY <1>4 DEF ProtectFailedAttempt, TypeOK
<1> QED
  BY <1>1, <1>2, <1>3, <1>4
     DEF ApplyProviderResult, ResultPends, ResultEchoes, ResultContradicts, AmountMismatches,
         EventConflicts, RepeatMismatches

\* No step does.
LEMMA PaidStays ==
    ASSUME TypeOK, RowsInv, [Next]_vars, NEW o \in Orders, order[o] = "PAID"
    PROVE  order'[o] = "PAID"
<1>1. ASSUME NEW swept \in SUBSET Attempts, RecoverExpiredAttempts(swept)
      PROVE  order'[o] = "PAID"
  <2> DEFINE failed == {b \in swept : attempt[b].status = "CREATED"}
             review == {b \in swept : attempt[b].status = "DISPATCHED"}
  <2>1. ApplyVerdicts(failed, review)
    BY <1>1 DEF RecoverExpiredAttempts
  <2>2. failed \in SUBSET Attempts /\ review \in SUBSET Attempts
    OBVIOUS
  <2> HIDE DEF failed, review
  <2> QED BY <2>1, <2>2, VerdictsSparePaid
<1>2. ASSUME NEW p \in Orders, CreateOrder(p) \/ ExpirePendingOrder(p)
      PROVE  order'[o] = "PAID"
  BY <1>2 DEF CreateOrder, ExpirePendingOrder, TypeOK
<1>3. ASSUME NEW a \in Attempts, ReplayLapsedDispatch(a) \/ MarkDispatchUnknown(a)
      PROVE  order'[o] = "PAID"
  BY <1>3, VerdictsSparePaid DEF ReplayLapsedDispatch, MarkDispatchUnknown, TransitionToReview
<1>4. ASSUME NEW a \in Attempts, NEW r \in Results, ReconcileQueries(a, r) \/ Callback(a, r)
      PROVE  order'[o] = "PAID"
  BY <1>4, ResultsSparePaid DEF ReconcileQueries, Callback
<1>5. CASE UNCHANGED order
  BY <1>5
<1> QED
  BY <1>1, <1>2, <1>3, <1>4, <1>5
     DEF Next, Sweeps, Others, Requests, Reconciles, vars, ReplaceOnHand,
         ReservationExpires, HoldLapses, PrepareAttempt, ClaimDispatch, InitiateReturns,
         InitiateThrows, RecordInitiation, RequestCrashes, ClaimNextReconciliation,
         ReconcileInitiates, ReconcileRecords, RequestReconciliation, DispatchLeaseEnds,
         ProviderOpens, ProviderDecides, ReconcileGivesUp

\* A decided attempt is never decided again and a paid order stays paid.
THEOREM VerdictsStay == Spec => VerdictsAreFinal
<1>1. ASSUME TypeOK, [Next]_vars, NEW a \in Attempts,
             attempt[a].status \in {"CONFIRMED", "FAILED"}
      PROVE  attempt'[a].status = attempt[a].status
  BY <1>1, StatusChanges DEF StatusChange, AwaitsResult
<1>2. TypeOK /\ RowsInv /\ [Next]_vars =>
         [/\ \A a \in Attempts : attempt[a].status \in {"CONFIRMED", "FAILED"} =>
                attempt'[a].status = attempt[a].status
          /\ \A o \in Orders : order[o] = "PAID" => order'[o] = "PAID"]_vars
  BY <1>1, PaidStays
<1> QED BY <1>2, TypeCorrect, RowsAgree, PTL DEF VerdictsAreFinal, Spec

-----------------------------------------------------------------------------
(* What the database knows of the provider. *)

\* An attempt was not requested before its dispatch, an attempt failed without
\* being asked for was never requested, any other failure was reported, and the
\* worker's claim is about an attempt that has left the buyer's hands.
ProviderAgrees(a) ==
    /\ provider[a].state # "OPEN" => provider[a].verdicts = {}
    /\ attempt[a].status \in {"NONE", "CREATED"} => provider[a].state = "NONE"
    /\ attempt[a].status = "FAILED" =>
          \/ provider[a].state = "NONE"
          \/ observed[a] # {} /\ "FAILED" \in provider[a].verdicts
    /\ reconciling.attempt = a =>
          /\ attempt[a].status \in {"REVIEW_REQUIRED", "CONFIRMED", "FAILED"}
          /\ attempt[a].status = "FAILED" => provider[a].state = "OPEN"

ProviderInv == \A a \in Attempts : ProviderAgrees(a)

\* The provider hears of an attempt from its dispatch or from a reconciliation.
ProviderChange(a) ==
    \/ provider'[a] = provider[a]
    \/ /\ attempt[a].status = "CREATED" /\ attempt'[a].status = "DISPATCHED"
       /\ provider'[a].state = "REQUESTED" /\ provider'[a].verdicts = provider[a].verdicts
    \/ /\ UNCHANGED attempt
       /\ provider[a].state = "REQUESTED" \/ reconciling.attempt = a
       /\ provider'[a].state = "OPEN" /\ provider'[a].verdicts = provider[a].verdicts
    \/ /\ UNCHANGED attempt
       /\ provider[a].state = "OPEN" /\ provider'[a].state = "OPEN"
       /\ provider[a].verdicts \subseteq provider'[a].verdicts

\* Nothing else changes what the provider knows.
LEMMA ProviderChanges ==
    ASSUME TypeOK, [Next]_vars, NEW a \in Attempts
    PROVE  ProviderChange(a)
<1> USE DEF ProviderChange
<1>1. ASSUME NEW b \in Attempts, ClaimDispatch(b) PROVE ProviderChange(a)
  <2>1. attempt[b].status = "CREATED" /\ attempt[b] \in AttemptRow /\ provider[b] \in ProviderRow
    BY <1>1 DEF ClaimDispatch, TypeOK
  <2>2. Dispatched(attempt[b]).status = "DISPATCHED"
    BY <2>1 DEF Dispatched, AttemptRow
  <2>3. /\ a = b => /\ attempt'[a].status = "DISPATCHED"
                    /\ provider'[a].state = "REQUESTED"
                    /\ provider'[a].verdicts = provider[a].verdicts
        /\ a # b => provider'[a] = provider[a]
    BY <1>1, <2>1, <2>2 DEF ClaimDispatch, TypeOK, ProviderRow
  <2> QED BY <2>1, <2>3
<1>2. ASSUME NEW b \in Attempts, ProviderOpens(b) \/ ReconcileInitiates(b)
      PROVE  ProviderChange(a)
  BY <1>2 DEF ProviderOpens, ReconcileInitiates, TypeOK, ProviderRow
<1>3. ASSUME NEW b \in Attempts, NEW r \in {"CONFIRMED", "FAILED"}, ProviderDecides(b, r)
      PROVE  ProviderChange(a)
  BY <1>3 DEF ProviderDecides, TypeOK, ProviderRow
<1>4. CASE UNCHANGED provider
  BY <1>4
<1> QED
  BY <1>1, <1>2, <1>3, <1>4
     DEF Next, Sweeps, Others, Requests, Reconciles, vars, ReplaceOnHand, CreateOrder,
         ReservationExpires, HoldLapses, ExpirePendingOrder, RecoverExpiredAttempts,
         PrepareAttempt, ReplayLapsedDispatch, InitiateReturns, InitiateThrows,
         RecordInitiation, MarkDispatchUnknown, RequestCrashes, ClaimNextReconciliation,
         ReconcileQueries, ReconcileRecords, RequestReconciliation, DispatchLeaseEnds,
         Callback, ReconcileGivesUp

\* Reports are remembered.
LEMMA ObservedGrows ==
    ASSUME TypeOK, [Next]_vars, NEW a \in Attempts
    PROVE  observed[a] \subseteq observed'[a]
<1>1. ASSUME NEW b \in Attempts, NEW r \in Results, ApplyProviderResult(b, r)
      PROVE  observed[a] \subseteq observed'[a]
  BY <1>1
     DEF ApplyProviderResult, ResultConfirms, ResultFails, ResultPends, ResultEchoes,
         ResultContradicts, AmountMismatches, EventConflicts, RepeatMismatches, NewEvent,
         OldEvent, TypeOK
<1>2. CASE UNCHANGED observed
  BY <1>2
<1> QED
  BY <1>1, <1>2
     DEF Next, Sweeps, Others, Requests, Reconciles, vars, ReplaceOnHand, CreateOrder,
         ReservationExpires, HoldLapses, ExpirePendingOrder, RecoverExpiredAttempts,
         PrepareAttempt, ReplayLapsedDispatch, ClaimDispatch, InitiateReturns, InitiateThrows,
         RecordInitiation, MarkDispatchUnknown, RequestCrashes, ClaimNextReconciliation,
         ReconcileQueries, ReconcileInitiates, ReconcileRecords, RequestReconciliation,
         DispatchLeaseEnds, ProviderOpens, ProviderDecides, Callback, ReconcileGivesUp

\* The worker claims attempts that are in review.
LEMMA ClaimsAreReviews ==
    ASSUME TypeOK, [Next]_vars, NEW a \in Attempts, reconciling'.attempt = a
    PROVE  \/ reconciling.attempt = a
           \/ attempt[a].status = "REVIEW_REQUIRED" /\ attempt'[a].status = "REVIEW_REQUIRED"
<1>1. ASSUME NEW b \in Attempts, ClaimNextReconciliation(b), b = a
      PROVE  attempt[a].status = "REVIEW_REQUIRED" /\ attempt'[a].status = "REVIEW_REQUIRED"
  BY <1>1 DEF ClaimNextReconciliation, TypeOK, AttemptRow
<1>2. ASSUME NEW b \in Attempts, ClaimNextReconciliation(b) PROVE b = a
  BY <1>2 DEF ClaimNextReconciliation
<1>3. ASSUME reconciling' = NoTask PROVE FALSE
  BY <1>3, ConstantsAssumption DEF NoTask
<1>4. ASSUME NEW b \in Attempts, ReconcileInitiates(b) PROVE reconciling.attempt = a
  BY <1>4 DEF ReconcileInitiates
<1>5. CASE UNCHANGED reconciling
  BY <1>5
<1> QED
  BY <1>1, <1>2, <1>3, <1>4, <1>5
     DEF Next, Sweeps, Others, Requests, Reconciles, vars, ReplaceOnHand, CreateOrder,
         ReservationExpires, HoldLapses, ExpirePendingOrder, RecoverExpiredAttempts,
         PrepareAttempt, ReplayLapsedDispatch, ClaimDispatch, InitiateReturns, InitiateThrows,
         RecordInitiation, MarkDispatchUnknown, RequestCrashes, ReconcileQueries,
         ReconcileRecords, RequestReconciliation, DispatchLeaseEnds, ProviderOpens,
         ProviderDecides, Callback, ReconcileGivesUp

\* ProviderInv is preserved.
LEMMA ProviderStep == ASSUME TypeOK, ProviderInv, [Next]_vars PROVE ProviderInv'
<1> SUFFICES ASSUME NEW a \in Attempts PROVE ProviderAgrees(a)'
  BY DEF ProviderInv
<1>0. /\ ProviderAgrees(a)
      /\ attempt[a].status \in AttemptStatus
      /\ provider[a].state \in {"NONE", "REQUESTED", "OPEN"}
  BY DEF ProviderInv, TypeOK, AttemptRow, ProviderRow
<1>1. StatusChange(a) /\ ProviderChange(a) /\ observed[a] \subseteq observed'[a]
  BY StatusChanges, ProviderChanges, ObservedGrows
<1>2. (provider[a].state = "REQUESTED" \/ reconciling.attempt = a \/ provider[a].state = "OPEN")
         => attempt[a].status \notin {"NONE", "CREATED"}
  BY <1>0 DEF ProviderAgrees
<1>3. (provider'[a].state # "OPEN" => provider'[a].verdicts = {})
  BY <1>0, <1>1 DEF ProviderAgrees, ProviderChange
<1>4. attempt'[a].status \in {"NONE", "CREATED"} => provider'[a].state = "NONE"
  BY <1>0, <1>1, <1>2 DEF ProviderAgrees, ProviderChange, StatusChange, AwaitsResult
<1>5. attempt'[a].status = "FAILED" =>
         \/ provider'[a].state = "NONE"
         \/ observed'[a] # {} /\ "FAILED" \in provider'[a].verdicts
  <2> SUFFICES ASSUME attempt'[a].status = "FAILED"
               PROVE  \/ provider'[a].state = "NONE"
                      \/ observed'[a] # {} /\ "FAILED" \in provider'[a].verdicts
    OBVIOUS
  <2>1. CASE attempt[a].status = "FAILED"
    BY <1>0, <1>1, <2>1 DEF ProviderAgrees, ProviderChange
  <2>2. CASE attempt[a].status # "FAILED"
    <3>1. CASE attempt[a].status = "CREATED" /\ UNCHANGED provider
      BY <1>0, <3>1 DEF ProviderAgrees
    <3>2. CASE Reports(a, "FAILED") /\ "FAILED" \in observed'[a] /\ UNCHANGED provider
      BY <3>2 DEF Reports
    <3> QED BY <1>1, <2>2, <3>1, <3>2 DEF StatusChange
  <2> QED BY <2>1, <2>2
<1>6. reconciling'.attempt = a =>
         /\ attempt'[a].status \in {"REVIEW_REQUIRED", "CONFIRMED", "FAILED"}
         /\ attempt'[a].status = "FAILED" => provider'[a].state = "OPEN"
  <2> SUFFICES ASSUME reconciling'.attempt = a
               PROVE  /\ attempt'[a].status \in {"REVIEW_REQUIRED", "CONFIRMED", "FAILED"}
                      /\ attempt'[a].status = "FAILED" => provider'[a].state = "OPEN"
    OBVIOUS
  <2>1. CASE reconciling.attempt = a
    <3>1. /\ attempt[a].status \in {"REVIEW_REQUIRED", "CONFIRMED", "FAILED"}
          /\ attempt[a].status = "FAILED" => provider[a].state = "OPEN"
      BY <1>0, <2>1 DEF ProviderAgrees
    <3>2. CASE attempt'[a].status = attempt[a].status
      BY <1>1, <3>1, <3>2 DEF ProviderChange
    <3>3. CASE /\ Reports(a, attempt'[a].status) /\ UNCHANGED provider
               /\ attempt'[a].status \in {"CONFIRMED", "FAILED"}
      BY <3>3 DEF Reports
    <3> QED BY <1>1, <3>1, <3>2, <3>3 DEF StatusChange
  <2>2. CASE reconciling.attempt # a
    BY <2>2, ClaimsAreReviews
  <2> QED BY <2>1, <2>2
<1> QED BY <1>3, <1>4, <1>5, <1>6 DEF ProviderAgrees

\* The database and the provider agree in every reachable state.
THEOREM ProvidersAgree == Spec => []ProviderInv
<1>1. Init => ProviderInv
  BY ConstantsAssumption DEF Init, ProviderInv, ProviderAgrees, NoAttemptRow, NoTask
<1>2. TypeOK /\ ProviderInv /\ [Next]_vars => ProviderInv'
  BY ProviderStep
<1> QED BY <1>1, <1>2, TypeCorrect, PTL DEF Spec

\* An attempt that the sweep failed as never dispatched was never requested.
THEOREM AbandonedWasNotRequested == Spec => []AbandonedNeverRequested
<1>1. ProviderInv => AbandonedNeverRequested
  BY DEF ProviderInv, ProviderAgrees, AbandonedNeverRequested
<1> QED BY <1>1, ProvidersAgree, PTL

\* An honest provider takes the buyer's money once per order, whatever requests,
\* retries, callbacks and sweeps do.
THEOREM ChargedOnce == Spec => []NoDoubleCharge
<1>1. TypeOK /\ RowsInv /\ ProviderInv => NoDoubleCharge
  <2> SUFFICES ASSUME TypeOK, RowsInv, ProviderInv, NEW a \in Attempts, NEW b \in Attempts,
                      OrderOf[a] = OrderOf[b],
                      provider[a].verdicts = {"CONFIRMED"},
                      provider[b].verdicts = {"CONFIRMED"}
               PROVE  a = b
    BY DEF NoDoubleCharge
  <2>1. ASSUME NEW c \in Attempts, provider[c].verdicts = {"CONFIRMED"}
        PROVE  attempt[c].status \in {"DISPATCHED", "REVIEW_REQUIRED", "CONFIRMED"}
    <3>1. ProviderAgrees(c) /\ attempt[c].status \in AttemptStatus
      BY DEF ProviderInv, TypeOK, AttemptRow
    <3> QED BY <2>1, <3>1 DEF ProviderAgrees, AttemptStatus
  <2>2. OrderOf[a] \in Orders
    BY ConstantsAssumption
  <2>3. ASSUME NEW c \in Attempts, attempt[c].status \in {"DISPATCHED", "REVIEW_REQUIRED"}
        PROVE  /\ reservation[OrderOf[c]].attempt = c
               /\ Confirmed(OrderOf[c]) = {}
    BY <2>3, OpenAttempt
  <2>4. ASSUME NEW c \in Attempts, attempt[c].status = "CONFIRMED"
        PROVE  c \in Confirmed(OrderOf[c])
    BY <2>4 DEF Confirmed
  <2>5. a \in Confirmed(OrderOf[a]) /\ b \in Confirmed(OrderOf[a]) => a = b
    BY <2>2 DEF RowsInv, PaidIsSettled
  <2> QED BY <2>1, <2>3, <2>4, <2>5
<1> QED BY <1>1, TypeCorrect, RowsAgree, ProvidersAgree, PTL

-----------------------------------------------------------------------------
(* No success is buried. *)

\* Alerts are never withdrawn.
LEMMA AlertsGrow ==
    ASSUME TypeOK, [Next]_vars, NEW a \in Attempts
    PROVE  alerts[a] \subseteq alerts'[a]
<1>1. ASSUME NEW b \in Attempts, NEW r \in Results, ApplyProviderResult(b, r)
      PROVE  alerts[a] \subseteq alerts'[a]
  BY <1>1
     DEF ApplyProviderResult, ResultConfirms, ResultFails, ResultPends, ResultEchoes,
         ResultContradicts, AmountMismatches, EventConflicts, RepeatMismatches, Confirm,
         RaiseAlert, TypeOK
<1>2. ASSUME NEW b \in Attempts, ClaimNextReconciliation(b)
      PROVE  alerts[a] \subseteq alerts'[a]
  BY <1>2 DEF ClaimNextReconciliation
<1>3. CASE UNCHANGED alerts
  BY <1>3
<1> QED
  BY <1>1, <1>2, <1>3
     DEF Next, Sweeps, Others, Requests, Reconciles, vars, ReplaceOnHand, CreateOrder,
         ReservationExpires, HoldLapses, ExpirePendingOrder, RecoverExpiredAttempts,
         PrepareAttempt, ReplayLapsedDispatch, ClaimDispatch, InitiateReturns, InitiateThrows,
         RecordInitiation, MarkDispatchUnknown, RequestCrashes, ReconcileQueries,
         ReconcileInitiates, ReconcileRecords, RequestReconciliation, DispatchLeaseEnds,
         ProviderOpens, ProviderDecides, Callback, ReconcileGivesUp

\* A success that is recorded for the first time confirms its attempt or alerts.
LEMMA SuccessIsHeard ==
    ASSUME TypeOK, [Next]_vars, NEW a \in Attempts,
           "CONFIRMED" \in observed'[a], "CONFIRMED" \notin observed[a]
    PROVE  attempt'[a].status = "CONFIRMED" \/ alerts'[a] # {}
<1>1. ASSUME NEW b \in Attempts, NEW r \in Results, ApplyProviderResult(b, r)
      PROVE  attempt'[a].status = "CONFIRMED" \/ alerts'[a] # {}
  <2>1. NewEvent(b, r)
    BY <1>1
       DEF ApplyProviderResult, ResultConfirms, ResultFails, ResultPends, ResultEchoes,
           ResultContradicts, AmountMismatches, EventConflicts, RepeatMismatches, OldEvent
  <2>2. b = a /\ r = "CONFIRMED"
    BY <2>1 DEF NewEvent, TypeOK
  <2>3. CASE ResultConfirms(a)
    BY <2>3 DEF ResultConfirms, Confirm, TypeOK, AttemptRow
  <2>4. CASE ResultEchoes(a, r)
    BY <2>2, <2>4 DEF ResultEchoes
  <2>5. CASE ResultContradicts(a, r) \/ AmountMismatches(a, r)
    BY <2>5 DEF ResultContradicts, AmountMismatches, RaiseAlert, TypeOK
  <2>6. CASE EventConflicts(a, r) \/ RepeatMismatches(a, r)
    BY <2>6 DEF EventConflicts, RepeatMismatches, OldEvent
  <2> QED BY <1>1, <2>2, <2>3, <2>4, <2>5, <2>6 DEF ApplyProviderResult
<1>2. UNCHANGED observed => FALSE
  OBVIOUS
<1> QED
  BY <1>1, <1>2
     DEF Next, Sweeps, Others, Requests, Reconciles, vars, ReplaceOnHand, CreateOrder,
         ReservationExpires, HoldLapses, ExpirePendingOrder, RecoverExpiredAttempts,
         PrepareAttempt, ReplayLapsedDispatch, ClaimDispatch, InitiateReturns, InitiateThrows,
         RecordInitiation, MarkDispatchUnknown, RequestCrashes, ClaimNextReconciliation,
         ReconcileQueries, ReconcileInitiates, ReconcileRecords, RequestReconciliation,
         DispatchLeaseEnds, ProviderOpens, ProviderDecides, Callback, ReconcileGivesUp

\* A recorded success confirms its attempt or has raised an alert, for ever.
THEOREM SuccessIsNeverSilent == Spec => []NoSilentSuccess
<1>1. Init => NoSilentSuccess
  BY DEF Init, NoSilentSuccess
<1>2. TypeOK /\ NoSilentSuccess /\ [Next]_vars => NoSilentSuccess'
  <2> SUFFICES ASSUME TypeOK, NoSilentSuccess, [Next]_vars, NEW a \in Attempts,
                      "CONFIRMED" \in observed'[a]
               PROVE  attempt'[a].status = "CONFIRMED" \/ alerts'[a] # {}
    BY DEF NoSilentSuccess
  <2>1. CASE "CONFIRMED" \notin observed[a]
    BY <2>1, SuccessIsHeard
  <2>2. CASE "CONFIRMED" \in observed[a]
    <3>1. attempt[a].status = "CONFIRMED" \/ alerts[a] # {}
      BY <2>2 DEF NoSilentSuccess
    <3>2. alerts[a] \subseteq alerts'[a]
      BY AlertsGrow
    <3>3. attempt[a].status = "CONFIRMED" => attempt'[a].status = "CONFIRMED"
      BY StatusChanges DEF StatusChange, AwaitsResult
    <3> QED BY <3>1, <3>2, <3>3
  <2> QED BY <2>1, <2>2
<1> QED BY <1>1, <1>2, TypeCorrect, PTL DEF Spec

-----------------------------------------------------------------------------
(* The stock that reservations take away. *)

\* What a set of orders takes of a variant, and the fold that adds it up.
Sum(v, S) == MapThenSumSet(LAMBDA o : Demand[o][v], S)

Chosen(s) == CHOOSE o \in s : TRUE

Adds(g, v, S) ==
    g = [s \in SUBSET S |->
           IF s = {} THEN 0 ELSE Demand[Chosen(s)][v] + g[s \ {Chosen(s)}]]

First(S) == [s \in SUBSET S |-> Chosen(s)]
Adding(v, S) == [x \in S \X Nat |-> Demand[x[1]][v] + x[2]]

\* What a fold of demands comes to.
Totals(g, v, S) ==
    /\ g \in [SUBSET S -> Nat]
    /\ g[{}] = 0
    /\ \A s \in SUBSET S : s # {} => g[s] = Demand[Chosen(s)][v] + g[s \ {Chosen(s)}]

\* The library's sum is such a fold, if there is one.
LEMMA SumIsFold ==
    ASSUME NEW v \in Variants, NEW S, \E g : Adds(g, v, S)
    PROVE  \E g : Adds(g, v, S) /\ Sum(v, S) = g[S]
<1> DEFINE h == CHOOSE g : Adds(g, v, S)
<1>1. Adds(h, v, S)
  BY Zenon
<1>2. Sum(v, S) = h[S]
  BY DEF Sum, MapThenSumSet, MapThenFoldSet, Adds, Chosen
<1> QED BY <1>1, <1>2

\* An element is chosen of every nonempty set.
LEMMA FirstPicks == ASSUME NEW S PROVE Picks(First(S), S)
BY DEF Picks, First, Chosen

\* A fold that adds demands gives natural numbers,
LEMMA AddsNat ==
    ASSUME NEW v \in Variants, NEW S \in SUBSET Orders, IsFiniteSet(S),
           NEW g, Adds(g, v, S)
    PROVE  Totals(g, v, S)
<1> DEFINE f == [s \in SUBSET S |->
                   IF s = {} THEN 0 ELSE Demand[Chosen(s)][v] + g[s \ {Chosen(s)}]]
<1>1. g = f
  BY DEF Adds
<1>2. /\ f[{}] = 0
      /\ \A s \in SUBSET S : s # {} => f[s] = Demand[Chosen(s)][v] + g[s \ {Chosen(s)}]
      /\ f = [s \in SUBSET S |-> f[s]]
  OBVIOUS
<1> HIDE DEF f
<1>3. /\ g[{}] = 0
      /\ \A s \in SUBSET S : s # {} => g[s] = Demand[Chosen(s)][v] + g[s \ {Chosen(s)}]
      /\ g = [s \in SUBSET S |-> g[s]]
  BY <1>1, <1>2
<1> DEFINE T == {U \in SUBSET S : g[U] \notin Nat}
<1>4. T = {}
  <2> SUFFICES ASSUME T # {} PROVE FALSE
    OBVIOUS
  <2>1. T \in SUBSET SUBSET S
    OBVIOUS
  <2>2. PICK U \in T : \A W \in T : W \subseteq U => W = U
    <3> HIDE DEF T
    <3> QED BY <2>1, SmallestSubset
  <2>3. U # {} /\ U \in SUBSET S
    <3>1. g[{}] \in Nat
      BY <1>3
    <3> QED BY <3>1
  <2>4. Chosen(U) \in U
    BY <2>3 DEF Chosen
  <2>5. g[U \ {Chosen(U)}] \in Nat
    BY <2>2, <2>3, <2>4
  <2>6. Demand[Chosen(U)][v] \in Nat
    BY <2>3, <2>4, ConstantsAssumption
  <2>7. g[U] = Demand[Chosen(U)][v] + g[U \ {Chosen(U)}]
    BY <1>3, <2>3
  <2>8. g[U] \in Nat
    BY <2>5, <2>6, <2>7
  <2> QED BY <2>8
<1> QED BY <1>3, <1>4 DEF Totals

\* and is a fold of the kind the lemmas speak of.
LEMMA AddsIsFold ==
    ASSUME NEW v \in Variants, NEW S \in SUBSET Orders, IsFiniteSet(S),
           NEW R \in SUBSET S, NEW g, Adds(g, v, R)
    PROVE  IsFold(g, R, 0, First(S), Adding(v, S))
<1>1. IsFiniteSet(R) /\ R \in SUBSET Orders
  BY FS_Subset
<1>0. Totals(g, v, R)
  BY <1>1, AddsNat
<1>2. /\ g \in [SUBSET R -> Nat]
      /\ g[{}] = 0
      /\ \A s \in SUBSET R : s # {} => g[s] = Demand[Chosen(s)][v] + g[s \ {Chosen(s)}]
  BY <1>0 DEF Totals
<1> DEFINE f == [s \in SUBSET R |->
        IF s = {} THEN 0 ELSE Adding(v, S)[<<First(S)[s], g[s \ {First(S)[s]}]>>]]
<1>3. ASSUME NEW s \in SUBSET R, s # {}
      PROVE  Adding(v, S)[<<First(S)[s], g[s \ {First(S)[s]}]>>]
               = Demand[Chosen(s)][v] + g[s \ {Chosen(s)}]
  <2>1. First(S)[s] = Chosen(s) /\ Chosen(s) \in s /\ Chosen(s) \in S
    BY <1>3 DEF First, Chosen
  <2>2. g[s \ {Chosen(s)}] \in Nat
    BY <1>2
  <2> QED BY <2>1, <2>2 DEF Adding
<1>4. \A s \in SUBSET R : g[s] = f[s]
  BY <1>2, <1>3
<1>5. g = f
  <2>1. f = [s \in SUBSET R |-> f[s]] /\ g = [s \in SUBSET R |-> g[s]]
    BY <1>2
  <2> HIDE DEF f
  <2> QED BY <1>4, <2>1
<1> QED BY <1>5 DEF IsFold

\* There is such a fold.
LEMMA AddsExists ==
    ASSUME NEW v \in Variants, NEW S \in SUBSET Orders, IsFiniteSet(S)
    PROVE  \E g : Adds(g, v, S)
<1>1. Adding(v, S) \in [S \X Nat -> Nat]
  BY ConstantsAssumption DEF Adding
<1>2. PICK g \in [SUBSET S -> Nat] : IsFold(g, S, 0, First(S), Adding(v, S))
  BY <1>1, FirstPicks, FoldExists
<1> DEFINE f == [s \in SUBSET S |->
                   IF s = {} THEN 0 ELSE Demand[Chosen(s)][v] + g[s \ {Chosen(s)}]]
<1>3. ASSUME NEW s \in SUBSET S PROVE g[s] = f[s]
  <2>1. CASE s = {}
    BY <1>2, <2>1, FoldEmpty
  <2>2. CASE s # {}
    <3>1. g[s] = Adding(v, S)[<<First(S)[s], g[s \ {First(S)[s]}]>>]
      BY <1>2, <2>2, FoldUnfolds
    <3>2. First(S)[s] = Chosen(s) /\ Chosen(s) \in S
      BY <2>2 DEF First, Chosen
    <3>3. g[s \ {Chosen(s)}] \in Nat
      OBVIOUS
    <3> QED BY <2>2, <3>1, <3>2, <3>3 DEF Adding
  <2> QED BY <2>1, <2>2
<1>4. g = f
  <2>1. f = [s \in SUBSET S |-> f[s]] /\ g = [s \in SUBSET S |-> g[s]]
    OBVIOUS
  <2> HIDE DEF f
  <2> QED BY <1>3, <2>1
<1> QED BY <1>4 DEF Adds

\* A sum of demands is a natural number, and an order adds its demand to it.
LEMMA SumTakes ==
    ASSUME NEW v \in Variants, NEW S \in SUBSET Orders, IsFiniteSet(S)
    PROVE  /\ Sum(v, S) \in Nat
           /\ \A o \in S : Sum(v, S) = Demand[o][v] + Sum(v, S \ {o})
<1>1. PICK g : Adds(g, v, S) /\ Sum(v, S) = g[S]
  BY AddsExists, SumIsFold
<1>0. Totals(g, v, S)
  BY <1>1, AddsNat
<1>2. /\ g \in [SUBSET S -> Nat]
      /\ g[{}] = 0
      /\ \A s \in SUBSET S : s # {} => g[s] = Demand[Chosen(s)][v] + g[s \ {Chosen(s)}]
  BY <1>0 DEF Totals
<1>3. ASSUME NEW o \in S PROVE Sum(v, S) = Demand[o][v] + Sum(v, S \ {o})
  <2> DEFINE R == S \ {o}
  <2>1. R \in SUBSET S /\ R \in SUBSET Orders /\ IsFiniteSet(R)
    BY FS_Subset
  <2> HIDE DEF R
  <2>2. PICK h : Adds(h, v, R) /\ Sum(v, R) = h[R]
    BY <2>1, AddsExists, SumIsFold
  <2>3. g[R] = h[R]
    <3>1. IsFold(g, S, 0, First(S), Adding(v, S))
      BY <1>1, AddsIsFold
    <3>2. IsFold(h, R, 0, First(S), Adding(v, S))
      BY <2>1, <2>2, AddsIsFold
    <3>3. Picks(First(S), R)
      BY <2>1, FirstPicks DEF Picks
    <3> QED BY <2>1, <3>1, <3>2, <3>3, FoldsAgree
  <2>4. g[S] = Demand[o][v] + g[R]
    <3> DEFINE weight == [p \in S |-> Demand[p][v]]
    <3>1. weight \in [S -> Nat]
      BY ConstantsAssumption
    <3> DEFINE pick == First(S)
    <3>2. SumsUp(g, S, weight, pick)
      <4> SUFFICES ASSUME NEW s \in SUBSET S, s # {}
                   PROVE  g[s] = weight[First(S)[s]] + g[s \ {First(S)[s]}]
        BY <1>2 DEF SumsUp
      <4>1. First(S)[s] = Chosen(s) /\ Chosen(s) \in S
        BY DEF First, Chosen
      <4> QED BY <1>2, <4>1
    <3>3. weight[o] = Demand[o][v]
      BY <1>3
    <3>5. Picks(pick, S)
      BY FirstPicks
    <3> HIDE DEF weight, pick
    <3>4. g[S] = weight[o] + g[S \ {o}]
      BY <3>1, <3>2, <3>5, SumTakesAny
    <3> QED BY <3>3, <3>4 DEF R
  <2> QED BY <1>1, <2>2, <2>3, <2>4 DEF R
<1> QED BY <1>1, <1>2, <1>3

\* More orders take more.
LEMMA SumGrows ==
    ASSUME NEW v \in Variants, NEW S \in SUBSET Orders, IsFiniteSet(S), NEW R \in SUBSET S
    PROVE  Sum(v, R) <= Sum(v, S)
<1> DEFINE T == {U \in SUBSET S : R \subseteq U /\ ~(Sum(v, R) <= Sum(v, U))}
<1>1. SUFFICES ASSUME T # {} PROVE FALSE
  OBVIOUS
<1>2. PICK U \in T : \A W \in T : W \subseteq U => W = U
  <2>1. T \in SUBSET SUBSET S
    OBVIOUS
  <2> HIDE DEF T
  <2> QED BY <1>1, <2>1, SmallestSubset
<1>3. \A W \in SUBSET S : W \in SUBSET Orders /\ IsFiniteSet(W)
  BY FS_Subset
<1>4. \A W \in SUBSET S : Sum(v, W) \in Nat
  BY <1>3, SumTakes
<1>5. PICK o \in U : o \notin R
  BY <1>4
<1> DEFINE W == U \ {o}
<1>6. W \in SUBSET S /\ R \subseteq W /\ W \subseteq U /\ W # U
  BY <1>5
<1>7. Sum(v, R) <= Sum(v, W)
  BY <1>2, <1>6
<1>8. Sum(v, U) = Demand[o][v] + Sum(v, W)
  <2>1. U \in SUBSET S
    OBVIOUS
  <2> QED BY <1>3, <2>1, SumTakes
<1>9. Demand[o][v] \in Nat
  BY ConstantsAssumption
<1>10. Sum(v, W) \in Nat /\ Sum(v, R) \in Nat
  BY <1>4, <1>6
<1>11. Sum(v, R) <= Sum(v, U)
  <2> HIDE DEF T, W
  <2> QED BY <1>7, <1>8, <1>9, <1>10
<1> QED BY <1>11

-----------------------------------------------------------------------------
(* Stock is oversold by taking back what had stopped counting, and by nothing *)
(* else, however late the sweeps are and whatever lapses first.               *)

\* The orders whose reservations take stock away, and those that have reservations.
Promised == {o \in Orders : Counted(o)}
Placed == {o \in Orders : reservation[o].status # "NONE"}

\* What is reserved of a variant is the sum over these orders.
LEMMA ReservedIsSum == ASSUME NEW v \in Variants PROVE Reserved(v) = Sum(v, Promised)
BY DEF Reserved, Sum, Promised

\* The same after a step.
LEMMA ReservedAfter == ASSUME NEW v \in Variants PROVE Reserved(v)' = Sum(v, Promised')
BY DEF Reserved, Sum, Promised, MapThenSumSet, MapThenFoldSet

LEMMA PromisedArePlaced ==
    ASSUME IsFiniteSet(Placed)
    PROVE  IsFiniteSet(Promised) /\ Promised \in SUBSET Orders
<1>1. Promised \in SUBSET Placed
  BY DEF Promised, Placed, Counted
<1> QED BY <1>1, FS_Subset DEF Promised

\* What a step owes: it places finitely many orders, and oversells only what it takes back.
Covers ==
    /\ IsFiniteSet(Placed')
    /\ ReservedWithinOnHand => ReservedWithinOnHand' \/ \E o \in Orders : TakesBack(o)

\* A row is neither placed nor counted by the step, unless it is taken back.
RowKept(o) ==
    /\ reservation'[o].status # "NONE" => reservation[o].status # "NONE"
    /\ Counted(o)' => Counted(o) \/ TakesBack(o)

\* A step that leaves the count alone and keeps every row covers what is promised.
LEMMA KeptRowsCover ==
    ASSUME TypeOK, IsFiniteSet(Placed), UNCHANGED onHand, \A o \in Orders : RowKept(o)
    PROVE  Covers
<1>1. IsFiniteSet(Placed')
  <2>1. Placed' \in SUBSET Placed
    BY DEF Placed, RowKept
  <2> QED BY <2>1, FS_Subset
<1>2. ASSUME ReservedWithinOnHand, ~\E o \in Orders : TakesBack(o)
      PROVE  ReservedWithinOnHand'
  <2>1. Promised' \in SUBSET Promised
    BY <1>2 DEF Promised, RowKept
  <2>2. /\ IsFiniteSet(Promised) /\ IsFiniteSet(Promised')
        /\ Promised \in SUBSET Orders /\ Promised' \in SUBSET Orders
    BY <2>1, PromisedArePlaced, FS_Subset
  <2>3. ASSUME NEW v \in Variants PROVE Reserved(v)' <= onHand'[v]
    <3>1. Sum(v, Promised') <= Sum(v, Promised)
      BY <2>1, <2>2, SumGrows
    <3>2. Sum(v, Promised) <= onHand[v]
      BY <1>2, ReservedIsSum DEF ReservedWithinOnHand
    <3>3. Reserved(v)' = Sum(v, Promised')
      BY ReservedAfter
    <3>4. Sum(v, Promised') \in Nat /\ Sum(v, Promised) \in Nat /\ onHand[v] \in Nat
      BY <2>2, SumTakes DEF TypeOK
    <3> QED BY <3>1, <3>2, <3>3, <3>4
  <2> QED BY <2>3 DEF ReservedWithinOnHand
<1> QED BY <1>1, <1>2 DEF Covers

\* Deadlines only pass: a row whose status and holder stay is kept.
LEMMA FlagsCover ==
    ASSUME TypeOK, IsFiniteSet(Placed), UNCHANGED onHand,
           \A o \in Orders : /\ reservation'[o].status = reservation[o].status
                             /\ reservation'[o].attempt = reservation[o].attempt
                             /\ reservation[o].lapsed => reservation'[o].lapsed
                             /\ reservation[o].expired => reservation'[o].expired
    PROVE  Covers
<1>1. \A o \in Orders : RowKept(o)
  BY DEF RowKept, Counted
<1> QED BY <1>1, KeptRowsCover

\* Verdicts free reservations, or take them to review: counted ones, or back.
LEMMA VerdictsCover ==
    ASSUME TypeOK, RowsInv, IsFiniteSet(Placed), UNCHANGED onHand,
           NEW failed \in SUBSET Attempts, NEW review \in SUBSET Attempts,
           ApplyVerdicts(failed, review)
    PROVE  Covers
<1>0. NoAttempt \notin failed /\ NoAttempt \notin review
  BY ConstantsAssumption
<1>1. ASSUME NEW o \in Orders
      PROVE  reservation'[o] =
                IF reservation[o].attempt \in failed THEN Freed(reservation[o])
                ELSE IF reservation[o].attempt \in review THEN HeldForReview(reservation[o])
                ELSE reservation[o]
  BY DEF ApplyVerdicts
<1>2. ASSUME NEW r \in ReservationRow
      PROVE  /\ Freed(r).status = IF r.expired THEN "RELEASED" ELSE "ACTIVE"
             /\ HeldForReview(r).status = "HELD_FOR_REVIEW"
  BY DEF Freed, HeldForReview, ReservationRow
<1>3. \A o \in Orders : reservation[o] \in ReservationRow
  BY DEF TypeOK
<1> DEFINE holder(o) == reservation[o].attempt
<1>4. \A o \in Orders : holder(o) # NoAttempt => OrderOf[holder(o)] = o
  BY DEF RowsInv, OrderRowsAgree
<1>5. ASSUME NEW o \in Orders, holder(o) \in failed
      PROVE  reservation[o].status \in {"ACTIVE", "HELD_FOR_REVIEW"}
  <2>1. OrderOf[holder(o)] = o
    BY <1>0, <1>4, <1>5
  <2>2. OwnsReservation(holder(o), {"ACTIVE", "HELD_FOR_REVIEW"})
    BY <1>5 DEF ApplyVerdicts
  <2> QED BY <2>1, <2>2 DEF OwnsReservation
<1>6. ASSUME NEW o \in Orders, holder(o) \in review
      PROVE  reservation[o].status = "ACTIVE"
  <2>1. OrderOf[holder(o)] = o
    BY <1>0, <1>4, <1>6
  <2>2. OwnsReservation(holder(o), {"ACTIVE"})
    BY <1>6 DEF ApplyVerdicts
  <2> QED BY <2>1, <2>2 DEF OwnsReservation
<1>7. ASSUME NEW o \in Orders PROVE RowKept(o)
  <2>1. CASE holder(o) \in failed
    <3>1. reservation'[o].status = IF reservation[o].expired THEN "RELEASED" ELSE "ACTIVE"
      BY <1>1, <1>2, <1>3, <2>1
    <3>2. reservation[o].status \in {"ACTIVE", "HELD_FOR_REVIEW"}
      BY <1>5, <2>1
    <3> QED BY <3>1, <3>2 DEF RowKept, Counted
  <2>2. CASE holder(o) \in review /\ holder(o) \notin failed
    <3>1. reservation'[o].status = "HELD_FOR_REVIEW" /\ reservation[o].status = "ACTIVE"
      BY <1>1, <1>2, <1>3, <1>6, <2>2
    <3> QED BY <3>1 DEF RowKept, TakesBack
  <2>3. CASE holder(o) \notin failed \cup review
    <3>1. reservation'[o] = reservation[o]
      BY <1>1, <2>3
    <3> QED BY <3>1 DEF RowKept, Counted
  <2> QED BY <2>1, <2>2, <2>3
<1> QED BY <1>7, KeptRowsCover

\* A recorded success takes the stock that was promised to its order, or takes its
\* reservation back.
LEMMA ConfirmCovers ==
    ASSUME TypeOK, RowsInv, IsFiniteSet(Placed), NEW a \in Attempts, AwaitsResult(a),
           Confirm(a)
    PROVE  Covers
<1> DEFINE o == OrderOf[a]
<1>1. /\ o \in Orders /\ reservation[o].attempt = a
      /\ reservation[o].status \in {"ACTIVE", "HELD_FOR_REVIEW"}
  BY OpenAttempt DEF AwaitsResult
<1>2. /\ reservation' = [reservation EXCEPT ![o] = ConsumedRow(reservation[o])]
      /\ onHand' = Consumed(o)
  BY <1>1 DEF Confirm
<1>3. reservation'[o].status = "CONSUMED"
  <2>1. ASSUME NEW r \in ReservationRow PROVE ConsumedRow(r).status = "CONSUMED"
    BY DEF ConsumedRow, ReservationRow
  <2> QED BY <1>1, <1>2, <2>1 DEF TypeOK
<1>4. \A p \in Orders \ {o} : reservation'[p] = reservation[p]
  BY <1>2 DEF TypeOK
<1>5. IsFiniteSet(Placed')
  <2>1. Placed' \in SUBSET Placed
    BY <1>1, <1>4 DEF Placed
  <2> QED BY <2>1, FS_Subset
<1>6. CASE ~Counted(o)
  <2>1. TakesBack(o)
    BY <1>1, <1>3, <1>6 DEF TakesBack, Counted
  <2> QED BY <1>1, <1>5, <2>1 DEF Covers
<1>7. CASE Counted(o)
  <2>1. Promised' = Promised \ {o} /\ o \in Promised /\ Promised \in SUBSET Orders
    <3>1. \A p \in Orders \ {o} : Counted(p)' <=> Counted(p)
      BY <1>4 DEF Counted
    <3>2. ~Counted(o)'
      BY <1>3 DEF Counted
    <3> QED BY <1>1, <1>7, <3>1, <3>2 DEF Promised
  <2>2. IsFiniteSet(Promised) /\ IsFiniteSet(Promised')
    BY <2>1, PromisedArePlaced, FS_Subset
  <2>3. ASSUME ReservedWithinOnHand, NEW v \in Variants PROVE Reserved(v)' <= onHand'[v]
    <3>1. Sum(v, Promised) = Demand[o][v] + Sum(v, Promised')
      BY <2>1, <2>2, SumTakes
    <3>2. Sum(v, Promised) <= onHand[v]
      BY <2>3, ReservedIsSum DEF ReservedWithinOnHand
    <3>3. Reserved(v)' = Sum(v, Promised')
      BY ReservedAfter
    <3>4. onHand'[v] = onHand[v] - Demand[o][v]
      BY <1>2 DEF Consumed
    <3>5. Sum(v, Promised') \in Nat /\ onHand[v] \in Nat /\ Demand[o][v] \in Nat
      BY <1>1, <2>1, <2>2, SumTakes, ConstantsAssumption DEF TypeOK
    <3> QED BY <3>1, <3>2, <3>3, <3>4, <3>5
  <2> QED BY <1>5, <2>3 DEF Covers, ReservedWithinOnHand
<1> QED BY <1>6, <1>7

\* A contradictory result takes a free reservation, counted or back.
LEMMA ProtectCovers ==
    ASSUME TypeOK, IsFiniteSet(Placed), UNCHANGED onHand, NEW a \in Attempts,
           ProtectFailedAttempt(a)
    PROVE  Covers
<1> DEFINE o == OrderOf[a]
<1>0. o \in Orders
  BY ConstantsAssumption
<1>1. CASE UNCHANGED reservation
  BY <1>1, FlagsCover
<1>2. CASE ~UNCHANGED reservation
  <2>1. /\ reservation[o].status = "ACTIVE"
        /\ reservation' = [reservation EXCEPT ![o] = HeldForConflict(reservation[o], a)]
    BY <1>2 DEF ProtectFailedAttempt
  <2>2. reservation'[o].status = "HELD_FOR_REVIEW"
    <3>1. ASSUME NEW r \in ReservationRow PROVE HeldForConflict(r, a).status = "HELD_FOR_REVIEW"
      BY DEF HeldForConflict, ReservationRow
    <3> QED BY <1>0, <2>1, <3>1 DEF TypeOK
  <2>3. \A p \in Orders \ {o} : reservation'[p] = reservation[p]
    BY <2>1 DEF TypeOK
  <2>4. \A p \in Orders : RowKept(p)
    BY <2>1, <2>2, <2>3 DEF RowKept, TakesBack, Counted
  <2> QED BY <2>4, KeptRowsCover
<1> QED BY <1>1, <1>2

LEMMA ResultCovers ==
    ASSUME TypeOK, RowsInv, IsFiniteSet(Placed), NEW a \in Attempts, NEW r \in Results,
           ApplyProviderResult(a, r)
    PROVE  Covers
<1>1. ASSUME UNCHANGED <<onHand, reservation>> PROVE Covers
  BY <1>1, FlagsCover
<1>2. ASSUME UNCHANGED onHand, TransitionToReview(a) PROVE Covers
  BY <1>2, VerdictsCover DEF TransitionToReview
<1>3. CASE ResultConfirms(a)
  BY <1>3, ConfirmCovers DEF ResultConfirms
<1>4. CASE ResultFails(a)
  BY <1>4, VerdictsCover DEF ResultFails
<1>5. CASE ResultPends(a)
  BY <1>2, <1>5 DEF ResultPends
<1>6. CASE ResultEchoes(a, r)
  BY <1>1, <1>6 DEF ResultEchoes
<1>7. CASE ResultContradicts(a, r)
  BY <1>7, ProtectCovers DEF ResultContradicts
<1>8. CASE AmountMismatches(a, r)
  BY <1>1, <1>2, <1>8 DEF AmountMismatches
<1>9. CASE EventConflicts(a, r)
  BY <1>9, ProtectCovers DEF EventConflicts
<1>10. CASE RepeatMismatches(a, r)
  BY <1>1, <1>10 DEF RepeatMismatches
<1> QED
  BY <1>3, <1>4, <1>5, <1>6, <1>7, <1>8, <1>9, <1>10 DEF ApplyProviderResult

\* An order is created when what is not promised covers it.
LEMMA CreateCovers ==
    ASSUME TypeOK, RowsInv, IsFiniteSet(Placed), NEW o \in Orders, CreateOrder(o)
    PROVE  Covers
<1>1. reservation[o].status = "NONE"
  BY DEF CreateOrder, RowsInv, OrderRowsAgree
<1>2. reservation' = [reservation EXCEPT ![o].status = "ACTIVE"] /\ UNCHANGED onHand
  BY DEF CreateOrder
<1>3. \A p \in Orders \ {o} : reservation'[p] = reservation[p]
  BY <1>2 DEF TypeOK
<1>4. IsFiniteSet(Placed')
  <2>1. Placed' \in SUBSET (Placed \cup {o})
    BY <1>3 DEF Placed
  <2>2. IsFiniteSet(Placed \cup {o})
    BY FS_AddElement
  <2> QED BY <2>1, <2>2, FS_Subset
<1> DEFINE P == Promised \cup {o}
<1>5. ~Counted(o) /\ Promised' \in SUBSET P /\ Promised = P \ {o} /\ o \in P
  <2>1. ~Counted(o)
    BY <1>1 DEF Counted
  <2>2. \A p \in Orders \ {o} : Counted(p)' <=> Counted(p)
    BY <1>3 DEF Counted
  <2> QED BY <2>1, <2>2 DEF Promised
<1>6. /\ P \in SUBSET Orders /\ IsFiniteSet(P)
      /\ Promised \in SUBSET Orders /\ IsFiniteSet(Promised)
      /\ Promised' \in SUBSET Orders /\ IsFiniteSet(Promised')
  <2>1. IsFiniteSet(P) /\ P \in SUBSET Orders
    BY PromisedArePlaced, FS_AddElement
  <2> QED BY <1>5, <2>1, PromisedArePlaced, FS_Subset
<1> HIDE DEF P
<1>7. ASSUME ReservedWithinOnHand, NEW v \in Variants PROVE Reserved(v)' <= onHand'[v]
  <2>1. Sum(v, Promised') <= Sum(v, P)
    BY <1>5, <1>6, SumGrows
  <2>2. Sum(v, P) = Demand[o][v] + Sum(v, Promised)
    BY <1>5, <1>6, SumTakes
  <2>3. Reserved(v)' = Sum(v, Promised')
    BY ReservedAfter
  <2>4. Sum(v, Promised) <= onHand[v]
    BY <1>7, ReservedIsSum DEF ReservedWithinOnHand
  <2>5. Demand[o][v] > 0 => onHand[v] - Sum(v, Promised) >= Demand[o][v]
    BY ReservedIsSum DEF CreateOrder
  <2>6. /\ Sum(v, Promised') \in Nat /\ Sum(v, Promised) \in Nat /\ Sum(v, P) \in Nat
        /\ onHand[v] \in Nat /\ Demand[o][v] \in Nat
    BY <1>6, SumTakes, ConstantsAssumption DEF TypeOK
  <2> QED BY <1>2, <2>1, <2>2, <2>3, <2>4, <2>5, <2>6
<1> QED BY <1>4, <1>7 DEF Covers, ReservedWithinOnHand

\* The seller's count covers what is promised.
LEMMA ReplaceCovers ==
    ASSUME TypeOK, IsFiniteSet(Placed), NEW v \in Variants, NEW n \in StockLevels,
           ReplaceOnHand(v, n)
    PROVE  Covers
<1>1. Promised' = Promised /\ Placed' = Placed
  BY DEF ReplaceOnHand, Promised, Counted, Placed
<1>2. ASSUME ReservedWithinOnHand, NEW w \in Variants PROVE Reserved(w)' <= onHand'[w]
  <2>1. Reserved(w)' = Reserved(w)
    BY <1>1, ReservedIsSum, ReservedAfter
  <2>2. n \in Nat /\ n >= Reserved(v)
    BY ConstantsAssumption DEF ReplaceOnHand
  <2>3. Reserved(v) \in Nat /\ Reserved(v) <= n
    <3>1. Reserved(v) \in Nat
      BY ReservedIsSum, SumTakes, PromisedArePlaced
    <3> QED BY <2>2, <3>1
  <2>4. onHand'[w] = IF w = v THEN n ELSE onHand[w]
    BY DEF ReplaceOnHand, TypeOK
  <2> QED BY <1>2, <2>1, <2>3, <2>4 DEF ReservedWithinOnHand
<1> QED BY <1>1, <1>2 DEF Covers, ReservedWithinOnHand

\* An order that expires gives its stock back.
LEMMA ExpireCovers ==
    ASSUME TypeOK, IsFiniteSet(Placed), NEW o \in Orders, ExpirePendingOrder(o)
    PROVE  Covers
<1>1. /\ reservation' = [reservation EXCEPT ![o].status = "RELEASED"]
      /\ reservation[o].status = "ACTIVE" /\ UNCHANGED onHand
  BY DEF ExpirePendingOrder, Releasable
<1>2. reservation'[o].status = "RELEASED"
      /\ \A p \in Orders \ {o} : reservation'[p] = reservation[p]
  BY <1>1 DEF TypeOK, ReservationRow
<1>3. \A p \in Orders : RowKept(p)
  BY <1>1, <1>2 DEF RowKept, Counted
<1> QED BY <1>1, <1>3, KeptRowsCover

\* A new attempt finds a reservation that has not expired.
LEMMA PrepareCovers ==
    ASSUME TypeOK, IsFiniteSet(Placed), NEW a \in Attempts, PrepareAttempt(a)
    PROVE  Covers
<1> DEFINE o == OrderOf[a]
<1>0. o \in Orders
  BY ConstantsAssumption
<1>1. /\ ~reservation[o].expired /\ reservation[o].status = "ACTIVE"
      /\ reservation' = [reservation EXCEPT ![o].attempt = a]
      /\ UNCHANGED onHand
  BY DEF PrepareAttempt, Payable
<1>2. \A p \in Orders \ {o} : reservation'[p] = reservation[p]
  BY <1>1 DEF TypeOK
<1>3. \A p \in Orders : RowKept(p)
  BY <1>1, <1>2 DEF RowKept, Counted
<1> QED BY <1>1, <1>3, KeptRowsCover

LEMMA LapseCovers ==
    ASSUME TypeOK, IsFiniteSet(Placed), NEW o \in Orders, HoldLapses(o)
    PROVE  Covers
<1>1. reservation' = [reservation EXCEPT ![o].lapsed = TRUE] /\ UNCHANGED onHand
  BY DEF HoldLapses
<1> QED BY <1>1, FlagsCover DEF TypeOK, ReservationRow

LEMMA SweepsCover ==
    ASSUME TypeOK, RowsInv, IsFiniteSet(Placed), Sweeps
    PROVE  Covers
<1>1. ASSUME NEW o \in Orders, ExpirePendingOrder(o) PROVE Covers
  BY <1>1, ExpireCovers
<1>2. ASSUME NEW swept \in SUBSET Attempts, RecoverExpiredAttempts(swept) PROVE Covers
  <2> DEFINE failed == {a \in swept : attempt[a].status = "CREATED"}
             review == {a \in swept : attempt[a].status = "DISPATCHED"}
  <2>1. ApplyVerdicts(failed, review) /\ UNCHANGED onHand
    BY <1>2 DEF RecoverExpiredAttempts
  <2>2. failed \in SUBSET Attempts /\ review \in SUBSET Attempts
    BY <1>2
  <2> HIDE DEF failed, review
  <2> QED BY <2>1, <2>2, VerdictsCover
<1> QED BY <1>1, <1>2 DEF Sweeps

LEMMA OthersCover ==
    ASSUME TypeOK, RowsInv, IsFiniteSet(Placed), Others
    PROVE  Covers
<1>0. ASSUME UNCHANGED <<onHand, reservation>> PROVE Covers
  BY <1>0, FlagsCover
<1>1. ASSUME NEW v \in Variants, NEW n \in StockLevels, ReplaceOnHand(v, n) PROVE Covers
  BY <1>1, ReplaceCovers
<1>2. ASSUME NEW o \in Orders, CreateOrder(o) PROVE Covers
  BY <1>2, CreateCovers
<1>3. ASSUME NEW o \in Orders, ReservationExpires(o) PROVE Covers
  BY <1>3, FlagsCover DEF ReservationExpires, TypeOK, ReservationRow
<1>4. ASSUME NEW o \in Orders, HoldLapses(o) PROVE Covers
  BY <1>4, LapseCovers
<1>5. ASSUME NEW a \in Attempts, PrepareAttempt(a) PROVE Covers
  BY <1>5, PrepareCovers
<1>6. ASSUME NEW a \in Attempts, ReplayLapsedDispatch(a) PROVE Covers
  BY <1>6, VerdictsCover DEF ReplayLapsedDispatch, TransitionToReview
<1>7. ASSUME NEW a \in Attempts,
             \/ ClaimDispatch(a) \/ InitiateReturns(a) \/ InitiateThrows(a)
             \/ RecordInitiation(a) \/ RequestCrashes(a) \/ ClaimNextReconciliation(a)
             \/ ReconcileInitiates(a) \/ ReconcileRecords(a) \/ RequestReconciliation(a)
             \/ DispatchLeaseEnds(a) \/ ProviderOpens(a)
      PROVE  Covers
  <2>1. UNCHANGED <<onHand, reservation>>
    BY <1>7 DEF ClaimDispatch, InitiateReturns, InitiateThrows, RecordInitiation,
       RequestCrashes, ClaimNextReconciliation, ReconcileInitiates, ReconcileRecords,
       RequestReconciliation, DispatchLeaseEnds, ProviderOpens
  <2> QED BY <1>0, <2>1
<1>8. ASSUME NEW a \in Attempts, MarkDispatchUnknown(a) PROVE Covers
  BY <1>8, <1>0, VerdictsCover DEF MarkDispatchUnknown, TransitionToReview
<1>9. ASSUME NEW a \in Attempts, NEW r \in Results, ReconcileQueries(a, r) PROVE Covers
  BY <1>9, ResultCovers DEF ReconcileQueries
<1>10. ASSUME NEW a \in Attempts, NEW r \in {"CONFIRMED", "FAILED"}, ProviderDecides(a, r)
       PROVE  Covers
  BY <1>10, <1>0 DEF ProviderDecides
<1>11. ASSUME NEW a \in Attempts, NEW r \in Results, Callback(a, r) PROVE Covers
  BY <1>11, ResultCovers DEF Callback
<1>12. ASSUME ReconcileGivesUp PROVE Covers
  BY <1>12, <1>0 DEF ReconcileGivesUp
<1> QED
  BY <1>1, <1>2, <1>3, <1>4, <1>5, <1>6, <1>7, <1>8, <1>9, <1>10, <1>11, <1>12
     DEF Others, Requests, Reconciles

\* Whatever the timing of deadlines, sweeps, provider and seller, a variant becomes
\* oversold only in a step that takes back, for a review or a payment, a reservation
\* which had expired and whose hold had lapsed (activeReservationPredicate stops
\* counting it; transitionToReview, consumeReservation and protectFailedAttempt take
\* it nevertheless).
THEOREM StockIsOversoldByTakingBackOnly == Spec => OnlyTakingBackOversells
<1>1. Init => IsFiniteSet(Placed)
  <2> SUFFICES ASSUME Init PROVE IsFiniteSet(Placed)
    OBVIOUS
  <2>1. Placed = {}
    BY DEF Init, NoReservation, Placed
  <2> QED BY <2>1, FS_EmptySet
<1>2. TypeOK /\ RowsInv /\ IsFiniteSet(Placed) /\ [Next]_vars
         => IsFiniteSet(Placed)' /\ [ReservedWithinOnHand =>
               ReservedWithinOnHand' \/ \E o \in Orders : TakesBack(o)]_vars
  <2> SUFFICES ASSUME TypeOK, RowsInv, IsFiniteSet(Placed), [Next]_vars PROVE Covers
    BY DEF Covers
  <2>1. CASE Sweeps
    BY <2>1, SweepsCover
  <2>2. CASE Others
    BY <2>2, OthersCover
  <2>3. CASE UNCHANGED vars
    BY <2>3, FlagsCover DEF vars
  <2> QED BY <2>1, <2>2, <2>3 DEF Next
<1> QED BY <1>1, <1>2, TypeCorrect, RowsAgree, PTL DEF Spec, OnlyTakingBackOversells
=============================================================================
