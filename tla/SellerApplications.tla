------------------------- MODULE SellerApplications -------------------------
(***************************************************************************)
(* How an identity becomes a seller: it applies, a reviewer asks for more, *)
(* rejects or approves, and the applicant may resubmit or withdraw.  An    *)
(* approval is two transactions: the first records it as a recovery, the   *)
(* second carries it out.  When the second does not happen a worker takes  *)
(* the recovery up and carries it out in the reviewer's name, or cancels   *)
(* it in a third transaction when it can no longer be carried out.         *)
(* Commands with another revision than the current one change nothing, but *)
(* a recovery keeps the revision its reviewer saw.                         *)
(***************************************************************************)
EXTENDS AccessRoles

CONSTANTS
  Applications,   \* rows of identity_seller_applications that may be created
  Recoveries,     \* rows of identity_seller_approval_recoveries that may be created
  NoApplication,  \* no row
  VersionBound    \* bound of the model: the last aggregate version of an application

REVIEW == "SELLER_APPLICATION_REVIEW"

ASSUME ApplicationAssumption ==
  /\ REVIEW \in Duties
  /\ NoApplication \notin Applications
  /\ VersionBound \in Nat \ {0}

VARIABLES
  application,  \* rows of identity_seller_applications
  recovery,     \* rows of identity_seller_approval_recoveries, one per request key
  worker,       \* how far the worker's recover has come with a recovery
  seller        \* identities with a row of identity_seller_access

appVars == <<application, recovery, worker, seller>>

ApplicationStatus ==
  {"NONE", "SUBMITTED", "NEEDS_INFORMATION", "APPROVED", "REJECTED", "WITHDRAWN"}
ApplicationRow ==
  [status : ApplicationStatus, applicant : Somebody, version : 0 .. VersionBound + 1,
   approver : Somebody]
RecoveryRow ==
  [status : {"NONE", "PENDING", "COMPLETED", "CANCELLED"},
   application : Applications \cup {NoApplication}, actor : Somebody,
   expected : 0 .. VersionBound]

\* Variables hold rows of the tables.
AppTypeOK ==
  /\ application \in [Applications -> ApplicationRow]
  /\ recovery \in [Recoveries -> RecoveryRow]
  /\ worker \in [Recoveries -> {"IDLE", "TAKEN", "REFUSED"}]
  /\ seller \subseteq People

AppInit ==
  /\ application = [x \in Applications |->
       [status |-> "NONE", applicant |-> Nobody, version |-> 0, approver |-> Nobody]]
  /\ recovery = [r \in Recoveries |->
       [status |-> "NONE", application |-> NoApplication, actor |-> Nobody, expected |-> 0]]
  /\ worker = [r \in Recoveries |-> "IDLE"]
  /\ seller = {}

Undecided(x) == application[x].status \in {"SUBMITTED", "NEEDS_INFORMATION"}
Changeable(x) == application[x].version <= VersionBound
Moved(x, status) ==
  [application EXCEPT ![x].status = status, ![x].version = @ + 1]

\* requireReviewPermission; it does not ask for the identity to be ACTIVE, which
\* only the session of a request does.
CanReview(p) == p \in LiveSuperadmins \/ <<p, REVIEW>> \in permission

\* The applicant.

Submit(p, x) ==
  /\ p \in active \ seller
  /\ \A y \in Applications : application[y].applicant = p => ~Undecided(y)
  /\ application[x].status = "NONE"
  /\ application' = [application EXCEPT ![x] =
       [status |-> "SUBMITTED", applicant |-> p, version |-> 1, approver |-> Nobody]]
  /\ UNCHANGED <<recovery, worker, seller>>

Resubmit(x) ==
  /\ application[x].applicant \in active
  /\ application[x].status = "NEEDS_INFORMATION" /\ Changeable(x)
  /\ application' = Moved(x, "SUBMITTED")
  /\ UNCHANGED <<recovery, worker, seller>>

Withdraw(x) ==
  /\ application[x].applicant \in active
  /\ Undecided(x) /\ Changeable(x)
  /\ application' = Moved(x, "WITHDRAWN")
  /\ UNCHANGED <<recovery, worker, seller>>

\* The reviewer.

\* #reviewDecision
Decide(p, x, status) ==
  /\ p \in active /\ CanReview(p)
  /\ p # application[x].applicant
  /\ application[x].status = "SUBMITTED" /\ Changeable(x)
  /\ application' = Moved(x, status)
  /\ UNCHANGED <<recovery, worker, seller>>

\* #prepareApprovalRecovery
PrepareApproval(p, x, r) ==
  /\ p \in active /\ CanReview(p)
  /\ application[x].status = "SUBMITTED" /\ Changeable(x)
  /\ application[x].applicant \notin seller \cup {p}
  /\ recovery[r].status = "NONE"
  /\ recovery' = [recovery EXCEPT ![r] =
       [status |-> "PENDING", application |-> x, actor |-> p,
        expected |-> application[x].version]]
  /\ UNCHANGED <<application, worker, seller>>

\* Mutation of Approvable: whatever text is there is approved.
ApprovableUnseen(r) ==
  LET x == recovery[r].application IN
  /\ application[x].status = "SUBMITTED"
  /\ application[x].applicant \notin seller \cup {recovery[r].actor}
Approvable(r) ==
  LET x == recovery[r].application IN
  /\ application[x].version = recovery[r].expected
  /\ application[x].status = "SUBMITTED"
  /\ application[x].applicant \notin seller \cup {recovery[r].actor}

\* #approve; it completes every pending recovery of the application, and looks at
\* no recovery's status.
CarryOut(r) ==
  LET x == recovery[r].application IN
  /\ recovery[r].status # "NONE"
  /\ CanReview(recovery[r].actor) /\ Approvable(r)
  /\ application' = [Moved(x, "APPROVED") EXCEPT ![x].approver = recovery[r].actor]
  /\ seller' = seller \cup {application[x].applicant}
  /\ recovery' = [q \in Recoveries |->
       IF recovery[q].application = x /\ recovery[q].status = "PENDING"
       THEN [recovery[q] EXCEPT !.status = "COMPLETED"] ELSE recovery[q]]

\* The request that prepared the recovery, or a retry of it with the same key.
ApproveByRequest(r) ==
  /\ recovery[r].actor \in active
  /\ CarryOut(r)
  /\ UNCHANGED worker

\* The worker: recover.

TakeRecovery(r) ==
  /\ recovery[r].status = "PENDING" /\ worker[r] = "IDLE"
  /\ worker' = [worker EXCEPT ![r] = "TAKEN"]
  /\ UNCHANGED <<application, recovery, seller>>

ApproveByWorker(r) ==
  /\ worker[r] = "TAKEN"
  /\ CarryOut(r)
  /\ worker' = [worker EXCEPT ![r] = "IDLE"]

\* The approval failed for good: isTerminalApprovalRecoveryError.
RefuseRecovery(r) ==
  /\ worker[r] = "TAKEN"
  /\ ~(CanReview(recovery[r].actor) /\ Approvable(r))
  /\ worker' = [worker EXCEPT ![r] = "REFUSED"]
  /\ UNCHANGED <<application, recovery, seller>>

\* The transaction after it, unless somebody completed the recovery in between.
CancelRecovery(r) ==
  /\ worker[r] = "REFUSED"
  /\ recovery' = IF recovery[r].status = "PENDING"
                 THEN [recovery EXCEPT ![r].status = "CANCELLED"] ELSE recovery
  /\ worker' = [worker EXCEPT ![r] = "IDLE"]
  /\ UNCHANGED <<application, seller>>

\* The worker stops, or the store could not be provisioned: the recovery stays.
DropRecovery(r) ==
  /\ worker[r] # "IDLE"
  /\ worker' = [worker EXCEPT ![r] = "IDLE"]
  /\ UNCHANGED <<application, recovery, seller>>

AppNext ==
  \/ \E p \in People, x \in Applications :
       \/ Submit(p, x)
       \/ \E status \in {"NEEDS_INFORMATION", "REJECTED"} : Decide(p, x, status)
       \/ \E r \in Recoveries : PrepareApproval(p, x, r)
  \/ \E x \in Applications : Resubmit(x) \/ Withdraw(x)
  \/ \E r \in Recoveries :
       \/ ApproveByRequest(r) \/ TakeRecovery(r) \/ ApproveByWorker(r)
       \/ RefuseRecovery(r) \/ CancelRecovery(r) \/ DropRecovery(r)

\* An identity is a seller exactly when one application of its own is approved,
\* and no other is open then.  Whoever approved it had, in some request, decided
\* on that very version of it, so a recovery that is carried out late, after more
\* information was asked for and given, approves nothing its reviewer did not
\* see; and a recovery that says COMPLETED is of an approved application.
SellersWereApproved ==
  /\ \A p \in People :
       LET own(S) == {x \in Applications : application[x].applicant = p
                                           /\ application[x].status \in S} IN
       /\ Cardinality(own({"SUBMITTED", "NEEDS_INFORMATION", "APPROVED"})) <= 1
       /\ p \in seller <=> own({"APPROVED"}) # {}
  /\ \A x \in Applications : application[x].status = "APPROVED" =>
       \E r \in Recoveries :
         /\ recovery[r].application = x /\ recovery[r].status # "PENDING"
         /\ recovery[r].actor = application[x].approver
         /\ recovery[r].actor # application[x].applicant
         /\ recovery[r].expected + 1 = application[x].version
  /\ \A r \in Recoveries : recovery[r].status = "COMPLETED" =>
       application[recovery[r].application].status = "APPROVED"
=============================================================================
