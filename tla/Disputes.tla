------------------------------- MODULE Disputes -------------------------------
(***************************************************************************)
(* The dispute a buyer may open about an order that was sent, on top of    *)
(* Settlement: the window read from the fulfillment timeline, the seller's *)
(* time to respond, the platform's decision and its reopening.             *)
(*                                                                         *)
(* A request reads the clock before its transaction, so the time `at` it    *)
(* acts on is any time up to now.                                          *)
(*                                                                         *)
(* Texts, evidence, categories, audits and violation cases are left out.   *)
(***************************************************************************)
EXTENDS Settlement

CONSTANTS
    BuyerRequests,   \* requests to open a dispute that may be in flight at once
    ShippedWindow,   \* DISPUTE_SHIPPED_OPEN_WINDOW_DAYS
    DeliveredWindow, \* DISPUTE_DELIVERED_OPEN_WINDOW_DAYS
    ResponseTime,    \* DISPUTE_SELLER_FIRST_RESPONSE_HOURS
    ReopenWindow,    \* DISPUTE_REOPEN_WINDOW_DAYS
    CaseBound        \* a dispute of this version is not reopened

ASSUME DisputesAssumption ==
    /\ ShippedWindow \in Nat /\ DeliveredWindow \in Nat
    /\ ResponseTime \in Nat /\ ReopenWindow \in Nat
    /\ CaseBound \in Nat

VARIABLES
    dispute,  \* problem_disputes of each order
    history,  \* the events of each dispute in the outbox
    opening   \* what each request to open a dispute remembers

disputeVars == <<dispute, history, opening>>

Decided == {"RESOLVED", "CLOSED"}

DisputeStatus == {"AWAITING_SELLER_RESPONSE", "UNDER_REVIEW"} \cup Decided

NoDeadline == -1

DisputeRow == [status: DisputeStatus, deadlineAt: Nat \cup {NoDeadline},
               version: Nat]

NoDispute == [status |-> "NONE", deadlineAt |-> NoDeadline, version |-> 0]

DisputeEvent == [type: {"DisputeOpened", "DisputeResponded", "DisputeResolved",
                        "DisputeReopened"},
                 status: DisputeStatus, version: Nat]

DisputesTypeOK ==
    /\ SettlementTypeOK
    /\ dispute \in [Orders -> DisputeRow \cup {NoDispute}]
    /\ history \in [Orders -> Seq(DisputeEvent)]
    /\ opening \in [BuyerRequests ->
                      [phase: {"ELIGIBLE"}, order: Orders, at: Nat] \cup {Idle}]

DisputesInit ==
    /\ SettlementInit
    /\ dispute = [o \in Orders |-> NoDispute]
    /\ history = [o \in Orders |-> <<>>]
    /\ opening = [b \in BuyerRequests |-> Idle]

-----------------------------------------------------------------------------
(* Opening. *)

\* The times at which order o has reached a status.
ReachedAt(o, status) ==
    {timeline[o][i].at : i \in {j \in DOMAIN timeline[o] :
                                   timeline[o][j].status = status}}

\* Mutation of WindowOpen: packing the order already counts as sending it.
WindowOpenOncePrepared(o, at) ==
    \E prepared \in ReachedAt(o, "PREPARING") : at <= prepared + ShippedWindow

\* isBuyerDisputeWindowOpen of readOrderSnapshot: an order that was never sent
\* has no snapshot.
WindowOpen(o, at) ==
    /\ ReachedAt(o, "SHIPPED") # {}
    /\ IF ReachedAt(o, "DELIVERED") # {}
       THEN \E delivered \in ReachedAt(o, "DELIVERED") :
               at <= delivered + DeliveredWindow
       ELSE \E shipped \in ReachedAt(o, "SHIPPED") : at <= shipped + ShippedWindow

\* ProblemFollowUpService.open up to the evidence checks.
BeginOpen(b, o) ==
    /\ opening[b] = Idle
    /\ WindowOpen(o, now)
    /\ opening' = [opening EXCEPT ![b] = [phase |-> "ELIGIBLE", order |-> o, at |-> now]]
    /\ UNCHANGED <<dispute, history, settlementVars>>

\* Writes the row and publishes the event of its last change.
Records(o, type, row) ==
    /\ dispute' = [dispute EXCEPT ![o] = row]
    /\ history' = [history EXCEPT ![o] = Append(@,
          [type |-> type, status |-> row.status, version |-> row.version])]

\* PostgresProblemFollowUpRepository.open: an order has one dispute.
CommitOpen(b) ==
    LET o == opening[b].order IN
    /\ opening[b] # Idle
    /\ dispute[o] = NoDispute
    /\ Records(o, "DisputeOpened",
               [status |-> "AWAITING_SELLER_RESPONSE",
                deadlineAt |-> opening[b].at + ResponseTime, version |-> 1])
    /\ opening' = [opening EXCEPT ![b] = Idle]
    /\ UNCHANGED settlementVars

\* A replay, the unique order, missing evidence or a process that dies.
AbandonOpen(b) ==
    /\ opening[b] # Idle
    /\ opening' = [opening EXCEPT ![b] = Idle]
    /\ UNCHANGED <<dispute, history, settlementVars>>

-----------------------------------------------------------------------------
(* The course of a dispute. *)

UnderReview(version) ==
    [status |-> "UNDER_REVIEW", deadlineAt |-> NoDeadline, version |-> version]

\* respond.
Respond(o, at) ==
    /\ dispute[o].status = "AWAITING_SELLER_RESPONSE"
    /\ at <= dispute[o].deadlineAt
    /\ Records(o, "DisputeResponded", UnderReview(dispute[o].version + 1))
    /\ UNCHANGED <<opening, settlementVars>>

\* The seller has let the time to respond pass.
Overdue(o, at) ==
    /\ dispute[o].status = "AWAITING_SELLER_RESPONSE"
    /\ dispute[o].deadlineAt < at

\* Mutation of PlatformAction: the deadline itself counts as past.
PlatformActionAtDeadline(o, at) ==
    IF \/ dispute[o].status = "UNDER_REVIEW"
       \/ /\ dispute[o].status = "AWAITING_SELLER_RESPONSE"
          /\ dispute[o].deadlineAt <= at
    THEN "RESOLVE"
    ELSE IF dispute[o].status \in Decided /\ dispute[o].deadlineAt >= at
    THEN "REOPEN"
    ELSE "NONE"

\* platformDisputeAction.
PlatformAction(o, at) ==
    IF dispute[o].status = "UNDER_REVIEW" \/ Overdue(o, at) THEN "RESOLVE"
    ELSE IF dispute[o].status \in Decided /\ dispute[o].deadlineAt >= at
    THEN "REOPEN"
    ELSE "NONE"

\* resolve: an overdue dispute is escalated first, which takes a version and
\* publishes nothing.
Resolve(o, status, at) ==
    /\ PlatformAction(o, at) = "RESOLVE"
    /\ Records(o, "DisputeResolved",
               [status |-> status, deadlineAt |-> at + ReopenWindow,
                version |-> dispute[o].version + (IF Overdue(o, at) THEN 2 ELSE 1)])
    /\ UNCHANGED <<opening, settlementVars>>

\* reopen.
Reopen(o, at) ==
    /\ PlatformAction(o, at) = "REOPEN"
    /\ dispute[o].version < CaseBound
    /\ Records(o, "DisputeReopened", UnderReview(dispute[o].version + 1))
    /\ UNCHANGED <<opening, settlementVars>>

DisputesNext ==
    \/ SettlementNext /\ UNCHANGED disputeVars
    \/ \E b \in BuyerRequests :
          (\E o \in Orders : BeginOpen(b, o)) \/ CommitOpen(b) \/ AbandonOpen(b)
    \/ \E o \in Orders, at \in 0..now :
          \/ Respond(o, at) \/ Reopen(o, at)
          \/ \E status \in Decided : Resolve(o, status, at)

=============================================================================
