---------------------------- MODULE DirectPayment ----------------------------
(***************************************************************************)
(* Direct payment of a single-store order: the orders, the inventory       *)
(* reservations that back them, the payment attempts, the provider and the *)
(* two workers that sweep expired orders and expired dispatch leases.      *)
(*                                                                         *)
(* One action is one database transaction of the API or of the worker (the *)
(* repositories open a transaction per method and lock the rows they       *)
(* touch), or one step of the world outside: the provider, the network, a  *)
(* crash, the passing of a deadline.  A transaction that throws rolls back *)
(* and changes nothing, so a check that throws is a guard here.            *)
(*                                                                         *)
(* Deadlines are flags ("this deadline has passed") raised by actions of   *)
(* their own, which leaves the relative order of unrelated deadlines open. *)
(* Amounts are either the order's total or a wrong one; event identifiers  *)
(* are either new or already observed; audits, events and wording are left *)
(* out.                                                                    *)
(***************************************************************************)
EXTENDS Integers, FiniteSets, FiniteSetsExt

CONSTANTS
    Orders,               \* single-store orders
    Attempts,             \* payment attempt identifiers
    OrderOf,              \* OrderOf[a]: the order attempt a is drawn for
    Variants,             \* product variants with a stock level
    Demand,               \* Demand[o][v]: units of v in order o
    StockLevels,          \* the on-hand counts a seller may enter
    NoAttempt,            \* SQL null in inventory_reservations.payment_attempt_id
    ProviderFaults,       \* what the provider may get wrong, see Faults
    SlowReviews,          \* the attempts whose review may last half an hour
    TimelyWorkers,        \* both sweeps run before anything else can happen
    HoldOutlivesDispatch  \* a hold never ends while its dispatch lease runs

\* CONTRADICTION: it reports both verdicts for one attempt; LATE_PENDING: a
\* PENDING report may be overtaken by the verdict it precedes; WRONG_AMOUNT: the
\* reported amount is not the attempt's; REUSED_EVENT: an event identifier comes
\* back with another result.
Faults == {"CONTRADICTION", "LATE_PENDING", "WRONG_AMOUNT", "REUSED_EVENT"}

ASSUME ConstantsAssumption ==
    /\ Demand \in [Orders -> [Variants -> Nat]]
    /\ OrderOf \in [Attempts -> Orders]
    /\ StockLevels \subseteq Nat
    /\ NoAttempt \notin Attempts
    /\ ProviderFaults \subseteq Faults
    /\ SlowReviews \subseteq Attempts
    /\ TimelyWorkers \in BOOLEAN
    /\ HoldOutlivesDispatch \in BOOLEAN

VARIABLES
    onHand,       \* inventory_levels.on_hand
    order,        \* order_orders.status, "NONE" before the order exists
    reservation,  \* inventory_reservations, one row per order
    attempt,      \* payment_attempts
    observed,     \* payment_provider_observations: results seen per attempt
    alerts,       \* payment_operational_alerts per attempt
    provider,     \* the provider's own record of an attempt
    dispatch,     \* the API request that owns the provider call of an attempt
    reconciling   \* the attempt the worker is reconciling

vars == <<onHand, order, reservation, attempt, observed, alerts, provider,
          dispatch, reconciling>>

Results == {"CONFIRMED", "FAILED", "PENDING"}

OrderStatus == {"NONE", "PENDING_PAYMENT", "PAYMENT_REVIEW", "PAID", "EXPIRED"}

ReservationStatus ==
    {"NONE", "ACTIVE", "HELD_FOR_REVIEW", "CONSUMED", "RELEASED"}

AttemptStatus ==
    {"NONE", "CREATED", "DISPATCHED", "REVIEW_REQUIRED", "CONFIRMED", "FAILED"}

AlertKinds == {"RECONCILIATION_OVERDUE", "PAID_STOCK_CONFLICT",
               "PROVIDER_AMOUNT_MISMATCH", "PROVIDER_RESULT_CONTRADICTION"}

\* expired: expires_at (and the order's copy, reservation_expires_at) is past;
\* lapsed: hold_lease_until is past.
ReservationRow == [status: ReservationStatus, expired: BOOLEAN,
                   attempt: Attempts \cup {NoAttempt}, lapsed: BOOLEAN]

\* lapsed: dispatch_lease_until is past; reference: provider_reference and
\* redirect_url are recorded; due: next_reconciliation_at is past.
AttemptRow == [status: AttemptStatus, lapsed: BOOLEAN, reference: BOOLEAN,
               due: BOOLEAN]

\* REQUESTED: an initiate call is on its way; OPEN: the provider knows the
\* attempt; verdicts: the final results it has reported so far.
ProviderRow == [state: {"NONE", "REQUESTED", "OPEN"},
                verdicts: SUBSET {"CONFIRMED", "FAILED"}]

TypeOK ==
    /\ onHand \in [Variants -> Nat]
    /\ order \in [Orders -> OrderStatus]
    /\ reservation \in [Orders -> ReservationRow]
    /\ attempt \in [Attempts -> AttemptRow]
    /\ observed \in [Attempts -> SUBSET Results]
    /\ alerts \in [Attempts -> SUBSET AlertKinds]
    /\ provider \in [Attempts -> ProviderRow]
    /\ dispatch \in [Attempts -> {"IDLE", "CALLING", "ANSWERED", "UNKNOWN"}]
    /\ reconciling \in [task: {"NONE", "QUERY", "INITIATE", "RECORD"},
                        attempt: Attempts \cup {NoAttempt}]

NoReservation == [status |-> "NONE", expired |-> FALSE,
                  attempt |-> NoAttempt, lapsed |-> FALSE]

NoAttemptRow == [status |-> "NONE", lapsed |-> FALSE, reference |-> FALSE,
                 due |-> FALSE]

NoTask == [task |-> "NONE", attempt |-> NoAttempt]

Init ==
    /\ onHand \in [Variants -> StockLevels]
    /\ order = [o \in Orders |-> "NONE"]
    /\ reservation = [o \in Orders |-> NoReservation]
    /\ attempt = [a \in Attempts |-> NoAttemptRow]
    /\ observed = [a \in Attempts |-> {}]
    /\ alerts = [a \in Attempts |-> {}]
    /\ provider = [a \in Attempts |-> [state |-> "NONE", verdicts |-> {}]]
    /\ dispatch = [a \in Attempts |-> "IDLE"]
    /\ reconciling = NoTask

-----------------------------------------------------------------------------
(* Inventory. *)

\* Mutation of Counted: the payment hold does not extend the reservation.
CountedUntilExpiry(o) ==
    \/ reservation[o].status = "HELD_FOR_REVIEW"
    \/ reservation[o].status = "ACTIVE" /\ ~reservation[o].expired

\* Which reservations take stock away from other buyers.
Counted(o) ==
    LET r == reservation[o] IN
    \/ r.status = "HELD_FOR_REVIEW"
    \/ /\ r.status = "ACTIVE"
       /\ ~r.expired \/ (r.attempt # NoAttempt /\ ~r.lapsed)

Reserved(v) ==
    MapThenSumSet(LAMBDA o : Demand[o][v], {o \in Orders : Counted(o)})

\* consumeReservation throws when some line exceeds the on-hand count.
StockCovers(o) == \A v \in Variants : onHand[v] >= Demand[o][v]

Consumed(o) == [v \in Variants |-> onHand[v] - Demand[o][v]]

\* What resolveFailedPayment leaves of a reservation.
Freed(r) == [r EXCEPT !.status = IF r.expired THEN "RELEASED" ELSE "ACTIVE",
                      !.attempt = NoAttempt, !.lapsed = FALSE]

HeldForReview(r) == [r EXCEPT !.status = "HELD_FOR_REVIEW"]

HeldForConflict(r, a) ==
    [r EXCEPT !.status = "HELD_FOR_REVIEW", !.attempt = a, !.lapsed = TRUE]

ConsumedRow(r) ==
    [r EXCEPT !.status = "CONSUMED", !.attempt = NoAttempt, !.lapsed = FALSE]

OwnsReservation(a, statuses) ==
    LET r == reservation[OrderOf[a]] IN
    r.status \in statuses /\ r.attempt = a

\* The seller replaces the on-hand count of a variant.  The submitted revision
\* is the current one (any other is rejected).
ReplaceOnHand(v, n) ==
    /\ n >= Reserved(v)
    /\ onHand' = [onHand EXCEPT ![v] = n]
    /\ UNCHANGED <<order, reservation, attempt, observed, alerts, provider,
                   dispatch, reconciling>>

-----------------------------------------------------------------------------
(* Orders. *)

\* CreateOrder: the order and its reservation, or neither.
CreateOrder(o) ==
    /\ order[o] = "NONE"
    /\ \A v \in Variants :
          Demand[o][v] > 0 => onHand[v] - Reserved(v) >= Demand[o][v]
    /\ order' = [order EXCEPT ![o] = "PENDING_PAYMENT"]
    /\ reservation' = [reservation EXCEPT ![o].status = "ACTIVE"]
    /\ UNCHANGED <<onHand, attempt, observed, alerts, provider, dispatch,
                   reconciling>>

\* Mutation of Releasable: a reservation held for a payment is released too.
ReleasableWhileHeld(o) ==
    reservation[o].status = "ACTIVE" /\ reservation[o].expired

Releasable(o) ==
    /\ reservation[o].status = "ACTIVE"
    /\ reservation[o].expired
    /\ reservation[o].attempt = NoAttempt

\* One row of the expiry sweep; a row that cannot be released is skipped, so
\* the rows of a sweep do not depend on each other.
ExpirePendingOrder(o) ==
    /\ order[o] = "PENDING_PAYMENT"
    /\ Releasable(o)
    /\ order' = [order EXCEPT ![o] = "EXPIRED"]
    /\ reservation' = [reservation EXCEPT ![o].status = "RELEASED"]
    /\ UNCHANGED <<onHand, attempt, observed, alerts, provider, dispatch,
                   reconciling>>

-----------------------------------------------------------------------------
(* What a verdict about an attempt does to the rows of its order. *)

\* Mutation of ApplyVerdicts: a failed payment always reopens its order.
ApplyVerdictsByReopening(failed, review) ==
    /\ \A a \in failed : OwnsReservation(a, {"ACTIVE", "HELD_FOR_REVIEW"})
    /\ \A a \in review : OwnsReservation(a, {"ACTIVE"})
    /\ reservation' = [o \in Orders |->
          IF reservation[o].attempt \in failed THEN Freed(reservation[o])
          ELSE IF reservation[o].attempt \in review THEN HeldForReview(reservation[o])
          ELSE reservation[o]]
    /\ order' = [o \in Orders |->
          IF reservation[o].attempt \in failed THEN "PENDING_PAYMENT"
          ELSE IF reservation[o].attempt \in review THEN "PAYMENT_REVIEW"
          ELSE order[o]]
    /\ attempt' = [a \in Attempts |->
          IF a \in failed THEN [attempt[a] EXCEPT !.status = "FAILED"]
          ELSE IF a \in review THEN [attempt[a] EXCEPT !.status = "REVIEW_REQUIRED",
                                                       !.due = TRUE]
          ELSE attempt[a]]

\* The attempts of `failed` fail and give their reservation back, those of
\* `review` go to review and keep theirs.  Any row that does not match throws.
ApplyVerdicts(failed, review) ==
    /\ \A a \in failed : /\ OwnsReservation(a, {"ACTIVE", "HELD_FOR_REVIEW"})
                         /\ order[OrderOf[a]] \in {"PENDING_PAYMENT", "PAYMENT_REVIEW"}
    /\ \A a \in review : /\ OwnsReservation(a, {"ACTIVE"})
                         /\ order[OrderOf[a]] \in {"PENDING_PAYMENT", "PAYMENT_REVIEW",
                                                   "EXPIRED"}
    /\ reservation' = [o \in Orders |->
          IF reservation[o].attempt \in failed THEN Freed(reservation[o])
          ELSE IF reservation[o].attempt \in review THEN HeldForReview(reservation[o])
          ELSE reservation[o]]
    /\ order' = [o \in Orders |->
          IF reservation[o].attempt \in failed
          THEN IF reservation[o].expired THEN "EXPIRED" ELSE "PENDING_PAYMENT"
          ELSE IF reservation[o].attempt \in review THEN "PAYMENT_REVIEW"
          ELSE order[o]]
    /\ attempt' = [a \in Attempts |->
          IF a \in failed THEN [attempt[a] EXCEPT !.status = "FAILED"]
          ELSE IF a \in review THEN [attempt[a] EXCEPT !.status = "REVIEW_REQUIRED",
                                                       !.due = TRUE]
          ELSE attempt[a]]

TransitionToReview(a) == ApplyVerdicts({}, {a})

\* A verified success: the reservation is consumed and the order is paid.  A
\* reservation that is already settled means paid money without stock.
Confirm(a) ==
    LET o == OrderOf[a]
        consumed == reservation[o].status \notin {"CONSUMED", "RELEASED"}
    IN
    /\ attempt' = [attempt EXCEPT ![a].status = "CONFIRMED"]
    /\ IF consumed
       THEN /\ OwnsReservation(a, {"ACTIVE", "HELD_FOR_REVIEW"})
            /\ StockCovers(o)
            /\ order[o] \in {"PENDING_PAYMENT", "PAYMENT_REVIEW"}
            /\ onHand' = Consumed(o)
            /\ reservation' = [reservation EXCEPT ![o] = ConsumedRow(@)]
            /\ order' = [order EXCEPT ![o] = "PAID"]
            /\ UNCHANGED alerts
       ELSE /\ order[o] \in {"PENDING_PAYMENT", "PAYMENT_REVIEW", "EXPIRED"}
            /\ order' = [order EXCEPT ![o] = "PAYMENT_REVIEW"]
            /\ alerts' = [alerts EXCEPT ![a] = @ \cup {"PAID_STOCK_CONFLICT"}]
            /\ UNCHANGED <<onHand, reservation>>

\* Mutation of ProtectFailedAttempt: the hold is taken from a newer attempt.
ProtectByTakingTheHold(a) ==
    LET o == OrderOf[a] IN
    IF attempt[a].status = "FAILED" /\ order[o] = "PENDING_PAYMENT"
    THEN /\ order' = [order EXCEPT ![o] = "PAYMENT_REVIEW"]
         /\ reservation' = [reservation EXCEPT ![o] = HeldForConflict(@, a)]
    ELSE UNCHANGED <<order, reservation>>

\* Mutation of ProtectFailedAttempt: the order goes to review in every status.
ProtectAnyOrder(a) ==
    IF attempt[a].status = "FAILED"
    THEN /\ order' = [order EXCEPT ![OrderOf[a]] = "PAYMENT_REVIEW"]
         /\ UNCHANGED reservation
    ELSE UNCHANGED <<order, reservation>>

\* A result that contradicts a FAILED attempt puts its open order in review
\* and takes the reservation, unless another attempt holds it.
ProtectFailedAttempt(a) ==
    LET o == OrderOf[a] IN
    IF attempt[a].status = "FAILED" /\ order[o] \in {"PENDING_PAYMENT", "EXPIRED"}
    THEN /\ order' = [order EXCEPT ![o] = "PAYMENT_REVIEW"]
         /\ reservation' =
               IF /\ order[o] = "PENDING_PAYMENT"
                  /\ reservation[o].status = "ACTIVE"
                  /\ reservation[o].attempt = NoAttempt
               THEN [reservation EXCEPT ![o] = HeldForConflict(@, a)]
               ELSE reservation
    ELSE UNCHANGED <<order, reservation>>

-----------------------------------------------------------------------------
(* The buyer's request: prepare, claim the dispatch, call the provider,     *)
(* record the answer.  A crash can separate any two of these steps.         *)

Payable(o) ==
    /\ order[o] = "PENDING_PAYMENT"
    /\ ~reservation[o].expired

\* A first request for an order that has no active attempt.
PrepareAttempt(a) ==
    LET o == OrderOf[a] IN
    /\ attempt[a].status = "NONE"
    /\ Payable(o)
    /\ ~\E b \in Attempts : /\ OrderOf[b] = o
                            /\ attempt[b].status \in {"CREATED", "DISPATCHED", "CONFIRMED"}
    /\ reservation[o].status = "ACTIVE"
    /\ reservation[o].attempt = NoAttempt
    /\ attempt' = [attempt EXCEPT ![a].status = "CREATED"]
    /\ reservation' = [reservation EXCEPT ![o].attempt = a]
    /\ UNCHANGED <<onHand, order, observed, alerts, provider, dispatch,
                   reconciling>>

\* The same request again, after the dispatch lease ended without an answer.
ReplayLapsedDispatch(a) ==
    /\ attempt[a].status = "DISPATCHED"
    /\ attempt[a].lapsed
    /\ ~attempt[a].reference
    /\ order[OrderOf[a]] = "PENDING_PAYMENT"
    /\ TransitionToReview(a)
    /\ UNCHANGED <<onHand, observed, alerts, provider, dispatch, reconciling>>

Dispatched(r) == [r EXCEPT !.status = "DISPATCHED", !.lapsed = FALSE]

\* One request wins the right to call the provider.  The attempt gets a new
\* dispatch lease; the hold on the reservation keeps its old one.
ClaimDispatch(a) ==
    /\ attempt[a].status = "CREATED"
    /\ attempt' = [attempt EXCEPT ![a] = Dispatched(@)]
    /\ dispatch' = [dispatch EXCEPT ![a] = "CALLING"]
    /\ provider' = [provider EXCEPT ![a].state = "REQUESTED"]
    /\ UNCHANGED <<onHand, order, reservation, observed, alerts, reconciling>>

InitiateReturns(a) ==
    /\ dispatch[a] = "CALLING"
    /\ provider[a].state = "OPEN"
    /\ dispatch' = [dispatch EXCEPT ![a] = "ANSWERED"]
    /\ UNCHANGED <<onHand, order, reservation, attempt, observed, alerts,
                   provider, reconciling>>

\* The call times out or fails; the provider may still have accepted it.
InitiateThrows(a) ==
    /\ dispatch[a] = "CALLING"
    /\ dispatch' = [dispatch EXCEPT ![a] = "UNKNOWN"]
    /\ UNCHANGED <<onHand, order, reservation, attempt, observed, alerts,
                   provider, reconciling>>

\* Mutation of AwaitsResult: a late success overrides a failure.
AwaitsResultOrFailed(a) ==
    attempt[a].status \in {"DISPATCHED", "REVIEW_REQUIRED", "FAILED"}

AwaitsResult(a) == attempt[a].status \in {"DISPATCHED", "REVIEW_REQUIRED"}

\* The reference is stored while the attempt still waits for a result;
\* otherwise the request fails with not found.
StoreReference(a) ==
    attempt' = IF AwaitsResult(a)
               THEN [attempt EXCEPT ![a].reference = TRUE]
               ELSE attempt

RecordInitiation(a) ==
    /\ dispatch[a] = "ANSWERED"
    /\ StoreReference(a)
    /\ dispatch' = [dispatch EXCEPT ![a] = "IDLE"]
    /\ UNCHANGED <<onHand, order, reservation, observed, alerts, provider,
                   reconciling>>

\* After a thrown call: to review, unless another transaction was first.
MarkDispatchUnknown(a) ==
    /\ dispatch[a] = "UNKNOWN"
    /\ IF attempt[a].status = "DISPATCHED"
       THEN TransitionToReview(a)
       ELSE UNCHANGED <<order, reservation, attempt>>
    /\ dispatch' = [dispatch EXCEPT ![a] = "IDLE"]
    /\ UNCHANGED <<onHand, observed, alerts, provider, reconciling>>

\* The API process dies, or the client of a request gives up.
RequestCrashes(a) ==
    /\ dispatch[a] # "IDLE"
    /\ dispatch' = [dispatch EXCEPT ![a] = "IDLE"]
    /\ UNCHANGED <<onHand, order, reservation, attempt, observed, alerts,
                   provider, reconciling>>

-----------------------------------------------------------------------------
(* The provider, which is outside the repository. *)

\* An initiate call arrives; a second one for the same attempt changes nothing.
ProviderOpens(a) ==
    /\ provider[a].state = "REQUESTED"
    /\ provider' = [provider EXCEPT ![a].state = "OPEN"]
    /\ UNCHANGED <<onHand, order, reservation, attempt, observed, alerts,
                   dispatch, reconciling>>

\* The provider reaches a final verdict; a faulty one reaches both.
ProviderDecides(a, r) ==
    /\ provider[a].state = "OPEN"
    /\ r \notin provider[a].verdicts
    /\ provider[a].verdicts = {} \/ "CONTRADICTION" \in ProviderFaults
    /\ provider' = [provider EXCEPT ![a].verdicts = @ \cup {r}]
    /\ UNCHANGED <<onHand, order, reservation, attempt, observed, alerts,
                   dispatch, reconciling>>

\* A report may be late or repeated: any verdict reached so far, or PENDING.
Reports(a, r) ==
    /\ provider[a].state = "OPEN"
    /\ \/ r \in provider[a].verdicts
       \/ /\ r = "PENDING"
          /\ provider[a].verdicts = {} \/ "LATE_PENDING" \in ProviderFaults

-----------------------------------------------------------------------------
(* applyProviderResult, one branch per operator.  The attempt must carry    *)
(* the provider's reference, otherwise the report is rejected.              *)

RaiseAlert(a, kind) == alerts' = [alerts EXCEPT ![a] = @ \cup {kind}]

\* An event that was not observed before.
NewEvent(a, r) ==
    /\ attempt[a].reference
    /\ observed' = [observed EXCEPT ![a] = @ \cup {r}]

\* An event that was observed before, then with result s.
OldEvent(a, s) ==
    /\ attempt[a].reference
    /\ s \in observed[a]
    /\ UNCHANGED observed

ResultConfirms(a) ==
    /\ NewEvent(a, "CONFIRMED")
    /\ AwaitsResult(a)
    /\ Confirm(a)

ResultFails(a) ==
    /\ NewEvent(a, "FAILED")
    /\ AwaitsResult(a)
    /\ ApplyVerdicts({a}, {})
    /\ UNCHANGED <<onHand, alerts>>

ResultPends(a) ==
    /\ NewEvent(a, "PENDING")
    /\ attempt[a].status = "DISPATCHED"
    /\ TransitionToReview(a)
    /\ UNCHANGED <<onHand, alerts>>

\* The result says nothing new about the attempt.
ResultEchoes(a, r) ==
    /\ NewEvent(a, r)
    /\ \/ attempt[a].status \in {"CONFIRMED", "FAILED"} /\ r = attempt[a].status
       \/ attempt[a].status = "REVIEW_REQUIRED" /\ r = "PENDING"
    /\ UNCHANGED <<onHand, order, reservation, attempt, alerts>>

\* Mutation of ResultContradicts: the contradiction raises no alert.
ResultContradictsSilently(a, r) ==
    /\ NewEvent(a, r)
    /\ attempt[a].status \in {"CONFIRMED", "FAILED"}
    /\ r # attempt[a].status
    /\ ProtectFailedAttempt(a)
    /\ UNCHANGED <<onHand, attempt, alerts>>

ResultContradicts(a, r) ==
    /\ NewEvent(a, r)
    /\ attempt[a].status \in {"CONFIRMED", "FAILED"}
    /\ r # attempt[a].status
    /\ ProtectFailedAttempt(a)
    /\ RaiseAlert(a, "PROVIDER_RESULT_CONTRADICTION")
    /\ UNCHANGED <<onHand, attempt>>

\* A wrong amount moves a dispatched attempt to review and changes no other.
AmountMismatches(a, r) ==
    /\ "WRONG_AMOUNT" \in ProviderFaults
    /\ NewEvent(a, r)
    /\ RaiseAlert(a, "PROVIDER_AMOUNT_MISMATCH")
    /\ IF attempt[a].status = "DISPATCHED"
       THEN TransitionToReview(a)
       ELSE UNCHANGED <<order, reservation, attempt>>
    /\ UNCHANGED onHand

\* An event identifier comes back with another result.
EventConflicts(a, r) ==
    /\ "REUSED_EVENT" \in ProviderFaults
    /\ \E s \in Results \ {r} : OldEvent(a, s)
    /\ ProtectFailedAttempt(a)
    /\ RaiseAlert(a, "PROVIDER_RESULT_CONTRADICTION")
    /\ UNCHANGED <<onHand, attempt>>

\* An event identifier comes back with another amount.
RepeatMismatches(a, r) ==
    /\ "WRONG_AMOUNT" \in ProviderFaults
    /\ OldEvent(a, r)
    /\ RaiseAlert(a, "PROVIDER_AMOUNT_MISMATCH")
    /\ UNCHANGED <<onHand, order, reservation, attempt>>

ApplyProviderResult(a, r) ==
    \/ r = "CONFIRMED" /\ ResultConfirms(a)
    \/ r = "FAILED" /\ ResultFails(a)
    \/ r = "PENDING" /\ ResultPends(a)
    \/ ResultEchoes(a, r)
    \/ ResultContradicts(a, r)
    \/ AmountMismatches(a, r)
    \/ EventConflicts(a, r)
    \/ RepeatMismatches(a, r)

\* A callback: lost, late, repeated or reordered as the network pleases.
Callback(a, r) ==
    /\ Reports(a, r)
    /\ ApplyProviderResult(a, r)
    /\ UNCHANGED <<provider, dispatch, reconciling>>

-----------------------------------------------------------------------------
(* The payment recovery worker. *)

LeaseEnded(a) ==
    /\ attempt[a].status \in {"CREATED", "DISPATCHED"}
    /\ attempt[a].lapsed

\* Mutation of RecoverExpiredAttempts: a dispatched attempt fails as well.
RecoverByFailing(swept) ==
    /\ swept # {}
    /\ \A a \in swept : LeaseEnded(a)
    /\ ApplyVerdicts(swept, {})
    /\ UNCHANGED <<onHand, observed, alerts, provider, dispatch, reconciling>>

\* Mutation of RecoverExpiredAttempts: attempts never dispatched are left out.
RecoverDispatchedOnly(swept) ==
    /\ swept # {}
    /\ \A a \in swept : LeaseEnded(a) /\ attempt[a].status = "DISPATCHED"
    /\ ApplyVerdicts({}, swept)
    /\ UNCHANGED <<onHand, observed, alerts, provider, dispatch, reconciling>>

\* One sweep is one transaction over every row it could lock: an attempt never
\* dispatched fails, a dispatched one goes to review, and one row that throws
\* rolls all of them back.
RecoverExpiredAttempts(swept) ==
    /\ swept # {}
    /\ \A a \in swept : LeaseEnded(a)
    /\ ApplyVerdicts({a \in swept : attempt[a].status = "CREATED"},
                     {a \in swept : attempt[a].status = "DISPATCHED"})
    /\ UNCHANGED <<onHand, observed, alerts, provider, dispatch, reconciling>>

\* Mutation of ClaimNextReconciliation: only attempts with a reference.
ClaimReferencedReconciliation(a) ==
    /\ reconciling = NoTask
    /\ attempt[a].status = "REVIEW_REQUIRED"
    /\ attempt[a].due /\ attempt[a].reference
    /\ attempt' = [attempt EXCEPT ![a].due = FALSE]
    /\ reconciling' = [task |-> "QUERY", attempt |-> a]
    /\ UNCHANGED <<onHand, order, reservation, observed, alerts, provider, dispatch>>

\* The claim books the next retry before the provider is asked.  Which of the
\* slow reviews are older than half an hour by now is left open.
ClaimNextReconciliation(a) ==
    /\ reconciling = NoTask
    /\ attempt[a].status = "REVIEW_REQUIRED"
    /\ attempt[a].due
    /\ attempt' = [attempt EXCEPT ![a].due = FALSE]
    /\ reconciling' = [task |-> IF attempt[a].reference THEN "QUERY" ELSE "INITIATE",
                       attempt |-> a]
    /\ \E overdue \in SUBSET {b \in SlowReviews : attempt[b].status = "REVIEW_REQUIRED"} :
          alerts' = [b \in Attempts |-> IF b \in overdue
                                        THEN alerts[b] \cup {"RECONCILIATION_OVERDUE"}
                                        ELSE alerts[b]]
    /\ UNCHANGED <<onHand, order, reservation, observed, provider, dispatch>>

\* The query answers with a verdict once there is one.
ReconcileQueries(a, r) ==
    /\ reconciling = [task |-> "QUERY", attempt |-> a]
    /\ Reports(a, r)
    /\ r = "PENDING" => provider[a].verdicts = {}
    /\ ApplyProviderResult(a, r)
    /\ reconciling' = NoTask
    /\ UNCHANGED <<provider, dispatch>>

\* The reference is unknown: initiate again, then record the answer.
ReconcileInitiates(a) ==
    /\ reconciling = [task |-> "INITIATE", attempt |-> a]
    /\ provider' = [provider EXCEPT ![a].state = "OPEN"]
    /\ reconciling' = [task |-> "RECORD", attempt |-> a]
    /\ UNCHANGED <<onHand, order, reservation, attempt, observed, alerts, dispatch>>

ReconcileRecords(a) ==
    /\ reconciling = [task |-> "RECORD", attempt |-> a]
    /\ StoreReference(a)
    /\ reconciling' = NoTask
    /\ UNCHANGED <<onHand, order, reservation, observed, alerts, provider, dispatch>>

\* Any error is swallowed, and the worker may die: the booked retry remains.
ReconcileGivesUp ==
    /\ reconciling # NoTask
    /\ reconciling' = NoTask
    /\ UNCHANGED <<onHand, order, reservation, attempt, observed, alerts,
                   provider, dispatch>>

\* Time reaches next_reconciliation_at, or platform staff ask for a retry now.
RequestReconciliation(a) ==
    /\ attempt[a].status = "REVIEW_REQUIRED"
    /\ ~attempt[a].due
    /\ attempt' = [attempt EXCEPT ![a].due = TRUE]
    /\ UNCHANGED <<onHand, order, reservation, observed, alerts, provider,
                   dispatch, reconciling>>

-----------------------------------------------------------------------------
(* Time. *)

ReservationExpires(o) ==
    /\ reservation[o].status \in {"ACTIVE", "HELD_FOR_REVIEW"}
    /\ ~reservation[o].expired
    /\ reservation' = [reservation EXCEPT ![o].expired = TRUE]
    /\ UNCHANGED <<onHand, order, attempt, observed, alerts, provider, dispatch,
                   reconciling>>

\* An attempt still CREATED carries the same deadline as the hold it took.
HoldLapses(o) ==
    LET a == reservation[o].attempt IN
    /\ reservation[o].status = "ACTIVE"
    /\ a # NoAttempt
    /\ ~reservation[o].lapsed
    /\ (HoldOutlivesDispatch /\ attempt[a].status = "DISPATCHED") => attempt[a].lapsed
    /\ reservation' = [reservation EXCEPT ![o].lapsed = TRUE]
    /\ attempt' = IF attempt[a].status = "CREATED"
                  THEN [attempt EXCEPT ![a].lapsed = TRUE]
                  ELSE attempt
    /\ UNCHANGED <<onHand, order, observed, alerts, provider, dispatch, reconciling>>

DispatchLeaseEnds(a) ==
    /\ attempt[a].status = "DISPATCHED"
    /\ ~attempt[a].lapsed
    /\ attempt' = [attempt EXCEPT ![a].lapsed = TRUE]
    /\ UNCHANGED <<onHand, order, reservation, observed, alerts, provider,
                   dispatch, reconciling>>

-----------------------------------------------------------------------------
(* The specification. *)

Sweeps ==
    \/ \E swept \in SUBSET Attempts : RecoverExpiredAttempts(swept)
    \/ \E o \in Orders : ExpirePendingOrder(o)

SweepIsDue ==
    \/ \E a \in Attempts : LeaseEnded(a)
    \/ \E o \in Orders : order[o] = "PENDING_PAYMENT" /\ Releasable(o)

Requests(a) ==
    \/ PrepareAttempt(a) \/ ReplayLapsedDispatch(a) \/ ClaimDispatch(a)
    \/ InitiateReturns(a) \/ InitiateThrows(a) \/ RecordInitiation(a)
    \/ MarkDispatchUnknown(a) \/ RequestCrashes(a)

Reconciles(a) ==
    \/ ClaimNextReconciliation(a)
    \/ \E r \in Results : ReconcileQueries(a, r)
    \/ ReconcileInitiates(a) \/ ReconcileRecords(a)
    \/ RequestReconciliation(a)

Others ==
    \/ \E v \in Variants, n \in StockLevels : ReplaceOnHand(v, n)
    \/ \E o \in Orders : CreateOrder(o) \/ ReservationExpires(o) \/ HoldLapses(o)
    \/ \E a \in Attempts : Requests(a) \/ Reconciles(a) \/ DispatchLeaseEnds(a)
    \/ \E a \in Attempts : ProviderOpens(a)
    \/ \E a \in Attempts, r \in {"CONFIRMED", "FAILED"} : ProviderDecides(a, r)
    \/ \E a \in Attempts, r \in Results : Callback(a, r)
    \/ ReconcileGivesUp

Next ==
    \/ Sweeps
    \/ ~(TimelyWorkers /\ SweepIsDue) /\ Others

Spec == Init /\ [][Next]_vars

\* What the platform and the provider owe the buyer: deadlines pass, the sweeps
\* and the reconciliation worker keep running, no attempt's retries fail for
\* ever, and the provider decides every attempt it has opened.  Nothing is
\* assumed of the buyer, of callbacks or of an API process that dies.
Fairness ==
    /\ \A o \in Orders : /\ WF_vars(ExpirePendingOrder(o))
                         /\ WF_vars(ReservationExpires(o))
                         /\ WF_vars(HoldLapses(o))
    /\ \A a \in Attempts :
          /\ WF_vars(DispatchLeaseEnds(a))
          /\ WF_vars(\E swept \in SUBSET Attempts :
                        a \in swept /\ RecoverExpiredAttempts(swept))
          /\ WF_vars(RequestReconciliation(a))
          /\ SF_vars(ClaimNextReconciliation(a))
          /\ SF_vars(\E r \in Results : ReconcileQueries(a, r))
          /\ SF_vars(ReconcileInitiates(a))
          /\ SF_vars(ReconcileRecords(a))
          /\ WF_vars(\E r \in {"CONFIRMED", "FAILED"} : ProviderDecides(a, r))

FairSpec == Spec /\ Fairness

-----------------------------------------------------------------------------
(* Properties. *)

Confirmed(o) == {a \in Attempts : OrderOf[a] = o /\ attempt[a].status = "CONFIRMED"}

\* An order is paid exactly when its stock is consumed and one attempt is
\* confirmed for it, and no second one ever is: the three rows that
\* applyProviderResult writes never disagree, whatever the provider reports
\* later and whichever sweep runs in between.
PaidIsSettled ==
    \A o \in Orders :
        /\ order[o] = "PAID" <=> reservation[o].status = "CONSUMED"
        /\ order[o] = "PAID" <=> Confirmed(o) # {}
        /\ \A a, b \in Confirmed(o) : a = b

\* While an attempt may still take the buyer's money its order is open and its
\* reservation is its own: the expiry sweep, a conflict about an older attempt
\* and a replayed request never take the stock from under it.
LiveAttemptOwnsReservation ==
    \A a \in Attempts :
        /\ attempt[a].status \in {"CREATED", "DISPATCHED"} =>
              /\ OwnsReservation(a, {"ACTIVE"})
              /\ order[OrderOf[a]] \in {"PENDING_PAYMENT", "PAYMENT_REVIEW"}
        /\ attempt[a].status = "REVIEW_REQUIRED" =>
              /\ OwnsReservation(a, {"HELD_FOR_REVIEW"})
              /\ order[OrderOf[a]] = "PAYMENT_REVIEW"

\* recoverExpiredAttempts handles every expired attempt in one transaction, so
\* one row that throws would stop the recovery of all of them, and with it the
\* reconciliation that runs after it.  No row it selects ever throws.
SweepsNeverAbort ==
    \A a \in Attempts : LeaseEnded(a) =>
        /\ OwnsReservation(a, {"ACTIVE"})
        /\ order[OrderOf[a]] \in {"PENDING_PAYMENT", "PAYMENT_REVIEW"}

\* An attempt that failed without any answer of the provider was never sent to
\* it: only attempts that were not dispatched are failed by the recovery sweep.
AbandonedNeverRequested ==
    \A a \in Attempts :
        (attempt[a].status = "FAILED" /\ observed[a] = {}) => provider[a].state = "NONE"

\* A success that was recorded of the provider confirms its attempt or raises
\* an alert; no order of reports, retries and repeats buries it.
NoSilentSuccess ==
    \A a \in Attempts :
        "CONFIRMED" \in observed[a] => attempt[a].status = "CONFIRMED" \/ alerts[a] # {}

\* A decided attempt is never decided again, and no step leaves PAID.
VerdictsAreFinal ==
    [][/\ \A a \in Attempts : attempt[a].status \in {"CONFIRMED", "FAILED"} =>
              attempt'[a].status = attempt[a].status
       /\ \A o \in Orders : order[o] = "PAID" => order'[o] = "PAID"]_vars

\* The stock promised to buyers never exceeds the stock there is: no order of
\* expiries, holds, reviews and stock corrections oversells a variant.
ReservedWithinOnHand == \A v \in Variants : Reserved(v) <= onHand[v]

\* A step takes back a reservation that no longer counted: a hold that lapsed while its
\* payment was out, or a free one that expired before a contradiction reached it.
TakesBack(o) ==
    /\ reservation[o].status = "ACTIVE"
    /\ ~Counted(o)
    /\ reservation'[o].status \in {"HELD_FOR_REVIEW", "CONSUMED"}

\* However late the sweeps are and whatever lapses first, a variant becomes oversold
\* only in a step that takes such a reservation back; no creation, expiry, correction
\* of the count or other verdict ever oversells.
OnlyTakingBackOversells ==
    [][ReservedWithinOnHand =>
          ReservedWithinOnHand' \/ \E o \in Orders : TakesBack(o)]_vars

\* A buyer is charged twice for an order only if the provider contradicts
\* itself: no crash, lost answer or retry lets two attempts of one order both
\* succeed, because a new attempt starts only after the last one has failed.
NoDoubleCharge ==
    \A a, b \in Attempts :
        /\ OrderOf[a] = OrderOf[b]
        /\ provider[a].verdicts = {"CONFIRMED"}
        /\ provider[b].verdicts = {"CONFIRMED"}
        => a = b

\* A success the provider has reached can always be recorded: the stock that
\* consumeReservation must find is still there.
SuccessIsRecordable ==
    \A a \in Attempts :
        (AwaitsResult(a) /\ attempt[a].reference
            /\ "CONFIRMED" \in provider[a].verdicts) => StockCovers(OrderOf[a])

\* Every review ends with a verdict, though every single retry may be lost.
ReviewResolves ==
    \A a \in Attempts :
        attempt[a].status = "REVIEW_REQUIRED" ~>
        attempt[a].status \in {"CONFIRMED", "FAILED"}

\* No payment keeps stock for ever: every hold is given back or consumed.
HoldsAreReleased ==
    \A o \in Orders :
        reservation[o].attempt # NoAttempt ~> reservation[o].attempt = NoAttempt

\* Every order is eventually paid or expired.
OrdersSettle ==
    \A o \in Orders : order[o] # "NONE" ~> order[o] \in {"PAID", "EXPIRED"}

=============================================================================
