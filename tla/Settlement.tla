------------------------------ MODULE Settlement ------------------------------
(***************************************************************************)
(* What happens to an order after it is paid: the fulfillment row that the *)
(* worker creates from OrderBecameActionable, the seller's steps towards   *)
(* delivery, and the cancellation with its refund, which undoes the sale   *)
(* in four modules (payments, orders, fulfillment, inventory) at once.     *)
(*                                                                         *)
(* One action is one transaction, the part of a request before its         *)
(* transaction, or the passing of time.  Transactions on one order exclude *)
(* each other (advisory lock fulfillment:<order> and row locks); one that  *)
(* throws changes nothing, hence its checks are guards.  A request reads   *)
(* the clock before its transaction; the times of acceptances and          *)
(* cancellations are read by nothing and left out (0).                     *)
(***************************************************************************)
EXTENDS Integers, Sequences, FiniteSets

CONSTANTS
    Orders,         \* orders that have been paid
    Quantity,       \* Quantity[o]: the units order o has bought
    InitialOnHand,  \* units on hand when the orders have been paid
    Requests,       \* the seller's requests that may be in flight at once
    Keys,           \* idempotency keys of advance requests
    ProviderEvents, \* identifiers of refund results, each repeated at will
    ResultOf,       \* ResultOf[e]: what the result e says
    MaxTime         \* bound of the clock

ASSUME SettlementAssumption ==
    /\ Quantity \in [Orders -> Nat \ {0}]
    /\ InitialOnHand \in Nat
    /\ ResultOf \in [ProviderEvents -> {"FAILED", "CONFIRMED"}]
    /\ MaxTime \in Nat

VARIABLES
    now,         \* the clock
    order,       \* order_orders.status
    fulfillment, \* fulfillment_orders: status and version
    timeline,    \* fulfillment_timeline_entries by version
    completed,   \* fulfillment_idempotency_records: the step each key made
    advancing,   \* what each advance request remembers before its transaction
    refund,      \* payment_direct_refunds: status and version
    results,     \* the provider events in payment_direct_refund_audits
    reservation, \* inventory_reservations.status
    onHand       \* inventory_levels.on_hand of the item

settlementVars == <<now, order, fulfillment, timeline, completed, advancing,
                    refund, results, reservation, onHand>>

OrderStatus == {"PAID", "CANCELLATION_PENDING_REFUND", "CANCELLED"}

FulfillmentStatus == {"ACTION_REQUIRED", "PREPARING", "SHIPPED", "DELIVERED",
                      "CANCELLATION_PENDING_REFUND", "CANCELLED"}

RefundStatus == {"NONE", "PENDING", "FAILED", "CONFIRMED"}

NextStatus == [ACTION_REQUIRED |-> "PREPARING",
               PREPARING       |-> "SHIPPED",
               SHIPPED         |-> "DELIVERED"]

Entry == [status: FulfillmentStatus, at: Nat]

NoRow == [status |-> "NONE", version |-> 0]

Idle == [phase |-> "IDLE"]

Advance == [phase: {"CHECKED"}, order: Orders, key: Keys,
            expected: DOMAIN NextStatus, at: Nat]

SettlementTypeOK ==
    /\ now \in Nat
    /\ order \in [Orders -> OrderStatus]
    /\ fulfillment \in
          [Orders -> [status: FulfillmentStatus \cup {"NONE"}, version: Nat]]
    /\ timeline \in [Orders -> Seq(Entry)]
    /\ completed \in [Orders -> [Keys -> FulfillmentStatus \cup {"NONE"}]]
    /\ advancing \in [Requests -> Advance \cup {Idle}]
    /\ refund \in [Orders -> [status: RefundStatus, version: Nat]]
    /\ results \in [Orders -> SUBSET ProviderEvents]
    /\ reservation \in [Orders -> {"CONSUMED", "CANCELLED"}]
    /\ onHand \in Nat

\* The orders as markPaid has left them.
SettlementInit ==
    /\ now = 0
    /\ order = [o \in Orders |-> "PAID"]
    /\ fulfillment = [o \in Orders |-> NoRow]
    /\ timeline = [o \in Orders |-> <<>>]
    /\ completed = [o \in Orders |-> [k \in Keys |-> "NONE"]]
    /\ advancing = [r \in Requests |-> Idle]
    /\ refund = [o \in Orders |-> NoRow]
    /\ results = [o \in Orders |-> {}]
    /\ reservation = [o \in Orders |-> "CONSUMED"]
    /\ onHand = InitialOnHand

-----------------------------------------------------------------------------
(* Fulfillment. *)

\* The row and its timeline entry, written together.
MovesTo(o, status, at) ==
    /\ fulfillment' = [fulfillment EXCEPT ![o] =
                          [status |-> status, version |-> @.version + 1]]
    /\ timeline' = [timeline EXCEPT ![o] = Append(@, [status |-> status, at |-> at])]

\* projectActionableOrder; a row that exists is left alone.
ProjectActionableOrder(o) ==
    /\ fulfillment[o].status = "NONE"
    /\ MovesTo(o, "ACTION_REQUIRED", 0)
    /\ UNCHANGED <<now, order, completed, advancing, refund, results,
                   reservation, onHand>>

\* FulfillmentService.advance up to the call of the repository: the key is new
\* and the step asked for is the next one.
BeginAdvance(r, o, k) ==
    /\ advancing[r] = Idle
    /\ completed[o][k] = "NONE"
    /\ fulfillment[o].status \in DOMAIN NextStatus
    /\ advancing' = [advancing EXCEPT ![r] =
          [phase |-> "CHECKED", order |-> o, key |-> k,
           expected |-> fulfillment[o].status, at |-> now]]
    /\ UNCHANGED <<now, order, fulfillment, timeline, completed, refund, results,
                   reservation, onHand>>

\* Mutation of CommitAdvance: the status read before the transaction is trusted.
CommitStaleAdvance(r) ==
    LET a == advancing[r] IN
    /\ a # Idle
    /\ completed[a.order][a.key] = "NONE"
    /\ MovesTo(a.order, NextStatus[a.expected], a.at)
    /\ completed' = [completed EXCEPT ![a.order][a.key] = NextStatus[a.expected]]
    /\ advancing' = [advancing EXCEPT ![r] = Idle]
    /\ UNCHANGED <<now, order, refund, results, reservation, onHand>>

\* The repository's transaction looks at the key and the status again.
CommitAdvance(r) ==
    LET a == advancing[r] IN
    /\ a # Idle
    /\ completed[a.order][a.key] = "NONE"
    /\ fulfillment[a.order].status = a.expected
    /\ MovesTo(a.order, NextStatus[a.expected], a.at)
    /\ completed' = [completed EXCEPT ![a.order][a.key] = NextStatus[a.expected]]
    /\ advancing' = [advancing EXCEPT ![r] = Idle]
    /\ UNCHANGED <<now, order, refund, results, reservation, onHand>>

\* A replay, INVALID_TRANSITION or a process that dies.
AbandonAdvance(r) ==
    /\ advancing[r] # Idle
    /\ advancing' = [advancing EXCEPT ![r] = Idle]
    /\ UNCHANGED <<now, order, fulfillment, timeline, completed, refund, results,
                   reservation, onHand>>

-----------------------------------------------------------------------------
(* Cancellation and refund. *)

Cancellable == {"ACTION_REQUIRED", "PREPARING", "CANCELLATION_PENDING_REFUND"}

\* beginCancellation; a row that waits for its refund already is left alone.
BeginCancellation(o) ==
    /\ fulfillment[o].status \in Cancellable
    /\ IF fulfillment[o].status = "CANCELLATION_PENDING_REFUND"
       THEN UNCHANGED <<fulfillment, timeline>>
       ELSE MovesTo(o, "CANCELLATION_PENDING_REFUND", 0)

\* PostgresDirectRefundRepository.request for an order without a refund; the
\* confirmed attempt it needs is there (PaidIsSettled of DirectPayment).
RequestRefund(o) ==
    /\ order[o] = "PAID"
    /\ refund[o].status = "NONE"
    /\ BeginCancellation(o)
    /\ order' = [order EXCEPT ![o] = "CANCELLATION_PENDING_REFUND"]
    /\ refund' = [refund EXCEPT ![o] = [status |-> "PENDING", version |-> 1]]
    /\ UNCHANGED <<now, completed, advancing, results, reservation, onHand>>

\* completeCancellation.
CompleteCancellation(o) ==
    /\ fulfillment[o].status \in {"CANCELLATION_PENDING_REFUND", "CANCELLED"}
    /\ IF fulfillment[o].status = "CANCELLED"
       THEN UNCHANGED <<fulfillment, timeline>>
       ELSE MovesTo(o, "CANCELLED", 0)

\* restoreConsumedReservationForCancellation.
RestoreReservation(o) ==
    IF reservation[o] = "CANCELLED" THEN UNCHANGED <<reservation, onHand>>
    ELSE /\ reservation' = [reservation EXCEPT ![o] = "CANCELLED"]
         /\ onHand' = onHand + Quantity[o]

Cancel(o) ==
    /\ CompleteCancellation(o)
    /\ RestoreReservation(o)
    /\ order' = [order EXCEPT ![o] = "CANCELLED"]

\* Mutation of RecordResult: goods return with the first result, whatever it says.
RecordResultRestockingFirst(o, e) ==
    /\ refund[o].status \in {"PENDING", "FAILED"}
    /\ e \notin UNION {results[p] : p \in Orders}
    /\ order[o] = "CANCELLATION_PENDING_REFUND"
    /\ refund' = [refund EXCEPT ![o] =
                     [status |-> ResultOf[e], version |-> @.version + 1]]
    /\ results' = [results EXCEPT ![o] = @ \cup {e}]
    /\ RestoreReservation(o)
    /\ IF ResultOf[e] = "CONFIRMED"
       THEN /\ CompleteCancellation(o)
            /\ order' = [order EXCEPT ![o] = "CANCELLED"]
       ELSE UNCHANGED <<order, fulfillment, timeline>>
    /\ UNCHANGED <<now, completed, advancing>>

\* recordResult of a verified result that is new to a refund not yet confirmed.
\* A result known by its event or its key, and any result after a confirmation,
\* changes nothing.
RecordResult(o, e) ==
    /\ refund[o].status \in {"PENDING", "FAILED"}
    /\ e \notin UNION {results[p] : p \in Orders}
    /\ order[o] = "CANCELLATION_PENDING_REFUND"
    /\ refund' = [refund EXCEPT ![o] =
                     [status |-> ResultOf[e], version |-> @.version + 1]]
    /\ results' = [results EXCEPT ![o] = @ \cup {e}]
    /\ IF ResultOf[e] = "CONFIRMED" THEN Cancel(o)
       ELSE UNCHANGED <<order, fulfillment, timeline, reservation, onHand>>
    /\ UNCHANGED <<now, completed, advancing>>

TimePasses ==
    /\ now < MaxTime
    /\ now' = now + 1
    /\ UNCHANGED <<order, fulfillment, timeline, completed, advancing, refund,
                   results, reservation, onHand>>

-----------------------------------------------------------------------------
(* The specification. *)

SettlementNext ==
    \/ \E o \in Orders :
          \/ ProjectActionableOrder(o)
          \/ RequestRefund(o)
          \/ \E e \in ProviderEvents : RecordResult(o, e)
    \/ \E r \in Requests :
          \/ \E o \in Orders, k \in Keys : BeginAdvance(r, o, k)
          \/ CommitAdvance(r)
          \/ AbandonAdvance(r)
    \/ TimePasses

SettlementSpec == SettlementInit /\ [][SettlementNext]_settlementVars

=============================================================================
