---------------------------- MODULE AfterSaleViews ----------------------------
(***************************************************************************)
(* The read models that the worker keeps of fulfillment and disputes: the  *)
(* status in the seller's list of related buyers (module orders), and the  *)
(* fulfillment and dispute states behind the seller's figures              *)
(* (reporting-analytics).  Each is fed by the outbox, which applies an     *)
(* event at most once per consumer and in any order: a failed delivery     *)
(* waits for its retry while later events of the same order pass it.       *)
(***************************************************************************)
EXTENDS Disputes

VARIABLES
    relatedBuyerStatus, \* order_fulfillment_status_projections
    sellerStatus,       \* reporting_fulfillment_states
    disputeState,       \* reporting_seller_dispute_states
    handled             \* handled[c][o]: versions of o's events c has applied

viewVars == <<relatedBuyerStatus, sellerStatus, disputeState, handled>>

vars == <<settlementVars, disputeVars, viewVars>>

Consumers == {"BUYER", "SELLER", "DISPUTE"}

\* order_fulfillment_status_projections_status_check.
RelatedBuyerStatus == {"ACTION_REQUIRED", "PREPARING", "SHIPPED", "DELIVERED"}

ViewTypeOK ==
    /\ relatedBuyerStatus \in
          [Orders -> [status: RelatedBuyerStatus \cup {"NONE"}, version: Nat]]
    /\ sellerStatus \in
          [Orders -> [status: FulfillmentStatus \cup {"NONE"}, version: Nat]]
    /\ disputeState \in
          [Orders -> [status: DisputeStatus \cup {"NONE"}, version: Nat]]
    /\ handled \in [Consumers -> [Orders -> SUBSET Nat]]

TypeOK == DisputesTypeOK /\ ViewTypeOK

Init ==
    /\ DisputesInit
    /\ relatedBuyerStatus = [o \in Orders |-> NoRow]
    /\ sellerStatus = [o \in Orders |-> NoRow]
    /\ disputeState = [o \in Orders |-> NoRow]
    /\ handled = [c \in Consumers |-> [o \in Orders |-> {}]]

-----------------------------------------------------------------------------
(* Handlers. *)

Delivers(c, o, version) ==
    /\ version \notin handled[c][o]
    /\ handled' = [handled EXCEPT ![c][o] = @ \cup {version}]

\* Mutation of Upsert: a late event overwrites a newer one.
UpsertAlways(view, o, row) == [view EXCEPT ![o] = row]

\* insert ... on conflict do update ... where version < excluded.version.
Upsert(view, o, row) ==
    IF view[o].version < row.version THEN [view EXCEPT ![o] = row] ELSE view

\* OrderBecameActionable is published with the payment, before the worker has
\* created the fulfillment row; every later entry of the timeline comes with a
\* FulfillmentAdvanced.
ShowAccepted(o) ==
    /\ Delivers("BUYER", o, 1)
    /\ relatedBuyerStatus' =
          Upsert(relatedBuyerStatus, o, [status |-> "ACTION_REQUIRED", version |-> 1])
    /\ UNCHANGED <<settlementVars, disputeVars, sellerStatus, disputeState>>

Advanced(o) ==
    {[status |-> timeline[o][v].status, version |-> v] : v \in 2..Len(timeline[o])}

\* projectRelatedBuyerFulfillmentStatus; the table rejects other statuses, so the
\* handler throws and the delivery ends up dead.
ShowRelatedBuyer(o) ==
    \E event \in Advanced(o) :
        /\ event.status \in RelatedBuyerStatus
        /\ Delivers("BUYER", o, event.version)
        /\ relatedBuyerStatus' = Upsert(relatedBuyerStatus, o, event)
        /\ UNCHANGED <<settlementVars, disputeVars, sellerStatus, disputeState>>

\* projectFulfillmentState.
ShowToSeller(o) ==
    \E event \in Advanced(o) :
        /\ Delivers("SELLER", o, event.version)
        /\ sellerStatus' = Upsert(sellerStatus, o, event)
        /\ UNCHANGED <<settlementVars, disputeVars, relatedBuyerStatus, disputeState>>

\* projectDisputeState: only DisputeOpened creates the row.
ShowDispute(o) ==
    \E i \in DOMAIN history[o] :
        LET event == history[o][i]
            row == [status |-> event.status, version |-> event.version]
        IN
        /\ Delivers("DISPUTE", o, event.version)
        /\ disputeState' =
              IF event.type = "DisputeOpened" \/ disputeState[o] # NoRow
              THEN Upsert(disputeState, o, row)
              ELSE disputeState
        /\ UNCHANGED <<settlementVars, disputeVars, relatedBuyerStatus, sellerStatus>>

-----------------------------------------------------------------------------
(* The specification. *)

Next ==
    \/ DisputesNext /\ UNCHANGED viewVars
    \/ \E o \in Orders :
          ShowAccepted(o) \/ ShowRelatedBuyer(o) \/ ShowToSeller(o) \/ ShowDispute(o)

Spec == Init /\ [][Next]_vars

-----------------------------------------------------------------------------
(* Properties. *)

\* The four modules that record a sale undo it together: an order whose refund
\* waits is cancelling for its seller and its buyer, and one whose refund is
\* confirmed is cancelled, with its goods back.  A seller's step that was checked
\* before the refund was requested does not slip in between (request and
\* recordResult of PostgresDirectRefundRepository, advance of
\* PostgresFulfillmentRepository).
CancellationAgrees ==
    \A o \in Orders :
        CASE order[o] = "PAID" ->
                /\ refund[o].status = "NONE"
                /\ fulfillment[o].status \notin {"CANCELLATION_PENDING_REFUND", "CANCELLED"}
                /\ reservation[o] = "CONSUMED"
          [] order[o] = "CANCELLATION_PENDING_REFUND" ->
                /\ refund[o].status \in {"PENDING", "FAILED"}
                /\ fulfillment[o].status = "CANCELLATION_PENDING_REFUND"
                /\ reservation[o] = "CONSUMED"
          [] order[o] = "CANCELLED" ->
                /\ refund[o].status = "CONFIRMED"
                /\ fulfillment[o].status = "CANCELLED"
                /\ reservation[o] = "CANCELLED"

\* A dispute is about goods that were sent and not refunded, and was opened after
\* they were sent and before the longer of the two windows had ended, although the
\* timeline moves on between the check of the window and the insert of the row
\* (ProblemFollowUpService.open).
DisputesAreJustified ==
    \A o \in Orders :
        dispute[o] # NoDispute =>
            /\ refund[o].status = "NONE"
            /\ \E shipped \in ReachedAt(o, "SHIPPED") :
                  dispute[o].status = "AWAITING_SELLER_RESPONSE" =>
                      LET openedAt == dispute[o].deadlineAt - ResponseTime IN
                      /\ shipped <= openedAt
                      /\ \/ openedAt <= shipped + ShippedWindow
                         \/ \E delivered \in ReachedAt(o, "DELIVERED") :
                               openedAt <= delivered + DeliveredWindow

\* The platform decides over the head of a silent seller only once the time to
\* respond has ended, whenever the agent's request read the clock (resolve,
\* platformDisputeAction).
NoHastyDecision ==
    [][\A o \in Orders :
          /\ dispute[o].status = "AWAITING_SELLER_RESPONSE"
          /\ dispute'[o].status \in Decided
          => dispute[o].deadlineAt < now]_vars

\* A status view shows the newest event it has applied, whatever the order of
\* arrival: it never goes back, and shows the status of the order when it has
\* applied everything (the version guards of the two upserts).
ShowsNewest(view, versions, o) ==
    /\ \A v \in versions : v <= view[o].version
    /\ view[o].version \in versions \cup {0}
    /\ view[o].version > 1 => view[o].status = timeline[o][view[o].version].status

StatusViewsShowNewest ==
    \A o \in Orders :
        /\ ShowsNewest(relatedBuyerStatus, handled["BUYER"][o], o)
        /\ ShowsNewest(sellerStatus, handled["SELLER"][o], o)

\* The same of the dispute view, as its test "removes a responded dispute from
\* seller response work" asks: a dispute all of whose events have been applied is
\* shown as it stands.
DisputeViewConverges ==
    \A o \in Orders :
        {history[o][i].version : i \in DOMAIN history[o]} \subseteq handled["DISPUTE"][o]
        => disputeState[o] = [status |-> dispute[o].status, version |-> dispute[o].version]

-----------------------------------------------------------------------------
(* The four modules implement OrderOutcome. *)

Outcome(o) ==
    IF order[o] = "CANCELLED" THEN "CANCELLED"
    ELSE IF order[o] = "CANCELLATION_PENDING_REFUND" THEN "CANCELLING"
    ELSE IF fulfillment[o].status = "SHIPPED" THEN "SENT"
    ELSE IF fulfillment[o].status = "DELIVERED" THEN "DELIVERED"
    ELSE "OPEN"

Promise == INSTANCE OrderOutcome WITH
    outcome <- [o \in Orders |-> Outcome(o)],
    returned <- onHand - InitialOnHand

\* An order is sent and delivered, or given up and paid back, never both, and its
\* goods return to the shelf in the step that makes it cancelled and in no other.
ImplementsOutcome == Promise!Spec

=============================================================================
