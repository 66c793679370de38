--------------------------- MODULE PlatformAccess ---------------------------
(***************************************************************************)
(* Sensitive and emergency access on top of the duties of AccessRoles: how *)
(* a grant is asked for, agreed, used, ended and reviewed.  A consumer     *)
(* uses a grant in a transaction of its own: it locks the duty, then the   *)
(* grant, and commits its own change later, so a revocation or an expiry   *)
(* may come between any two of its steps and waits while it holds a lock.  *)
(***************************************************************************)
EXTENDS AccessRoles

\* Variables hold identities, live permission rows and rows of the table.
TypeOK ==
  /\ active \subseteq People /\ superadmin \subseteq People /\ oversight \subseteq People
  /\ permission \subseteq People \X Duties /\ scripted \subseteq permission
  /\ grant \in [Grants -> GrantRow]
  /\ use \in [Grants -> Stage]
  /\ outside \in 0 .. OutsideBound

Ended == {"EXPIRED", "REVOKED", "CLOSED"}

\* Sensitive access.

RequestSensitiveAccess(a, p, d, g) ==
  LET assigned == a # p
      mode == IF ~assigned THEN "REQUEST_APPROVAL"
              ELSE IF Cardinality(Managers) = 1 THEN "SINGLE_MANAGER_EXCEPTION"
              ELSE "DIRECT_ASSIGNMENT" IN
  /\ a \in active
  /\ assigned => Administrator(a)
  /\ Managers # {}
  /\ Responsible(p, d)
  /\ Free(g)
  /\ Write(g, NewRow("SENSITIVE_ACCESS", IF assigned THEN "ACTIVE" ELSE "PENDING_APPROVAL",
                     mode, d, p, a))
  /\ UNCHANGED <<roleVars, use, oversight, outside>>

\* rejected_at is not looked at.
ApproveSensitiveAccess(a, g) ==
  /\ Administrator(a)
  /\ grant[g].kind = "SENSITIVE_ACCESS" /\ grant[g].status = "PENDING_APPROVAL"
  /\ ~grant[g].over
  /\ Outsider(a, g)
  /\ Responsible(grant[g].subject, grant[g].duty)
  /\ Write(g, Approved(grant[g], a))
  /\ UNCHANGED <<roleVars, use, oversight, outside>>

RevokeSensitiveAccess(a, g) ==
  /\ a \in active
  /\ a # grant[g].subject => Administrator(a)
  /\ grant[g].kind = "SENSITIVE_ACCESS" /\ grant[g].status # "REVOKED"
  /\ Write(g, [grant[g] EXCEPT !.status = "REVOKED"])
  /\ UNCHANGED <<roleVars, use, oversight, outside>>

\* Emergency access.

HasOverdueReview(a) ==
  \E g \in Grants : /\ grant[g].kind = "EMERGENCY_ACCESS" /\ grant[g].requester = a
                    /\ grant[g].activated /\ grant[g].review = "NONE" /\ grant[g].overdue

RequestEmergencyAccess(a, g) ==
  /\ Administrator(a)
  /\ ~HasOverdueReview(a)
  /\ Free(g)
  /\ Write(g, NewRow("EMERGENCY_ACCESS", "PENDING_APPROVAL",
                     IF Cardinality(Managers) = 1 THEN "SINGLE_MANAGER_EXCEPTION"
                     ELSE "DUAL_CONTROL", "NONE", a, a))
  /\ UNCHANGED <<roleVars, use, oversight, outside>>

PendingEmergency(g) ==
  /\ grant[g].kind = "EMERGENCY_ACCESS" /\ grant[g].status = "PENDING_APPROVAL"
  /\ ~grant[g].rejected

Excepted(g) == grant[g].mode = "SINGLE_MANAGER_EXCEPTION"

ApproveEmergencyAccess(a, g) ==
  /\ Administrator(a)
  /\ PendingEmergency(g) /\ ~grant[g].over
  /\ ~Excepted(g) /\ grant[g].approver = Nobody
  /\ Cardinality(Managers) >= 2
  /\ a # grant[g].requester
  /\ Write(g, [grant[g] EXCEPT !.approver = a])
  /\ UNCHANGED <<roleVars, use, oversight, outside>>

ActivateEmergencyAccess(a, g) ==
  /\ Administrator(a)
  /\ PendingEmergency(g) /\ ~grant[g].over
  /\ a = grant[g].requester
  /\ \/ Excepted(g) /\ Cardinality(Managers) = 1
     \/ ~Excepted(g) /\ grant[g].approver # Nobody /\ Cardinality(Managers) >= 2
  /\ Write(g, [grant[g] EXCEPT !.status = "ACTIVE", !.activated = TRUE])
  /\ UNCHANGED <<roleVars, use, oversight, outside>>

RejectEmergencyAccess(a, g) ==
  /\ Administrator(a)
  /\ PendingEmergency(g)
  /\ a # grant[g].requester
  /\ Write(g, [grant[g] EXCEPT !.rejected = TRUE])
  /\ UNCHANGED <<roleVars, use, oversight, outside>>

\* revokeEmergencyAccess and closeEmergencyAccess
EndEmergencyAccess(a, g, status) ==
  /\ a \in active
  /\ grant[g].kind = "EMERGENCY_ACCESS" /\ ~grant[g].rejected
  /\ a # grant[g].subject => Administrator(a)
  /\ \/ status = "CLOSED" /\ grant[g].status = "ACTIVE"
     \/ status = "REVOKED" /\ grant[g].status \in {"PENDING_APPROVAL", "ACTIVE"}
  /\ Write(g, [grant[g] EXCEPT !.status = status])
  /\ UNCHANGED <<roleVars, use, oversight, outside>>

\* Mutation of Party: the approver is no party.
RequesterOnly(a, g) == a = grant[g].requester
Party(a, g) == a \in {grant[g].requester, grant[g].approver}
\* alone: only one identity has a live session of the platform.
ReviewModeOf(a, g, alone) ==
  IF alone /\ a = grant[g].requester /\ grant[g].approver = Nobody
  THEN "WITHOUT_INDEPENDENT_REVIEW" ELSE "INDEPENDENT"

\* A review may only replace a self-review, and only one by somebody else.
Reviewable(a, g) ==
  \/ grant[g].review = "NONE"
  \/ grant[g].review = "WITHOUT_INDEPENDENT_REVIEW" /\ ~Party(a, g)

CompleteReview(a, g, alone) ==
  LET mode == ReviewModeOf(a, g, alone) IN
  /\ a \in active /\ Responsible(a, AUDIT)
  /\ grant[g].kind = "EMERGENCY_ACCESS"
  /\ grant[g].activated /\ grant[g].status \in Ended
  /\ Reviewable(a, g)
  /\ mode = "INDEPENDENT" => ~Party(a, g)
  /\ Write(g, [grant[g] EXCEPT !.review = mode, !.reviewer = a])
  /\ UNCHANGED <<roleVars, use, oversight, outside>>

\* Consumers.

\* lockSensitiveActionPermission
LockPermission(g) ==
  /\ grant[g].kind = "SENSITIVE_ACCESS" /\ use[g] = "NONE"
  /\ grant[g].subject \in active
  /\ <<grant[g].subject, grant[g].duty>> \in permission
  /\ use' = [use EXCEPT ![g] = "PERMISSION"]
  /\ UNCHANGED <<roleVars, grant, oversight, outside>>

Usable(g) == grant[g].status = "ACTIVE" /\ ~grant[g].over

\* readAuthorizedSensitiveGrant; a refusal rolls the consumer back.
AuthorizeSensitiveAction(g) ==
  /\ use[g] = "PERMISSION"
  /\ use' = [use EXCEPT ![g] = IF Usable(g) THEN "AUTHORIZED" ELSE "NONE"]
  /\ UNCHANGED <<roleVars, grant, oversight, outside>>

\* authorizeEmergencyAction locks the grant only.
AuthorizeEmergencyAction(g) ==
  /\ grant[g].kind = "EMERGENCY_ACCESS" /\ use[g] = "NONE"
  /\ grant[g].subject \in active
  /\ Usable(g)
  /\ use' = [use EXCEPT ![g] = "AUTHORIZED"]
  /\ UNCHANGED <<roleVars, grant, oversight, outside>>

\* The consumer commits its change, or fails and rolls back.
EndUse(g) ==
  /\ use[g] # "NONE"
  /\ use' = [use EXCEPT ![g] = "NONE"]
  /\ UNCHANGED <<roleVars, grant, oversight, outside>>

\* authorizeSuperadminSensitiveAction, until the consumer's transaction ends
BeginOversight(p) ==
  /\ p \in LiveSuperadmins \ oversight
  /\ oversight' = oversight \cup {p}
  /\ UNCHANGED <<roleVars, grant, use, outside>>
EndOversight(p) ==
  /\ p \in oversight
  /\ oversight' = oversight \ {p}
  /\ UNCHANGED <<roleVars, grant, use, outside>>

\* Time.

DueOf(kind) == {g \in Grants : grant[g].kind = kind /\ grant[g].status = "ACTIVE" /\ grant[g].over}

\* #expireSensitiveGrantIfDue and #expireEmergencyGrantIfDue, each in a
\* transaction of its own before or after the request that calls it
ExpireGrant(g) ==
  /\ g \in DueOf("SENSITIVE_ACCESS") \cup DueOf("EMERGENCY_ACCESS")
  /\ Write(g, [grant[g] EXCEPT !.status = "EXPIRED"])
  /\ UNCHANGED <<roleVars, use, oversight, outside>>

\* Reading a list locks every ACTIVE row of the kind and expires those due.
ListGrants(kind) ==
  /\ \A g \in LockedGrants : grant[g].kind # kind
  /\ DueOf(kind) # {}
  /\ grant' = [g \in Grants |-> IF g \in DueOf(kind)
                                THEN [grant[g] EXCEPT !.status = "EXPIRED"] ELSE grant[g]]
  /\ UNCHANGED <<roleVars, use, oversight, outside>>

\* expires_at passes while it matters.
PassExpiry(g) ==
  /\ grant[g].kind \in {"SENSITIVE_ACCESS", "EMERGENCY_ACCESS"}
  /\ grant[g].status \in {"PENDING_APPROVAL", "ACTIVE"} /\ ~grant[g].over
  /\ grant' = [grant EXCEPT ![g].over = TRUE]
  /\ UNCHANGED <<roleVars, use, oversight, outside>>

\* review_due_at, a day after the request, passes while it matters.
PassReviewDue(g) ==
  /\ grant[g].kind = "EMERGENCY_ACCESS" /\ grant[g].activated
  /\ grant[g].review = "NONE" /\ ~grant[g].overdue
  /\ grant' = [grant EXCEPT ![g].over = TRUE, ![g].overdue = TRUE]
  /\ UNCHANGED <<roleVars, use, oversight, outside>>

\* Who is there and who is superadmin; the operations script.
RoleNext ==
  \/ \E a, p \in People : GrantSuperadmin(a, p) \/ RevokeSuperadmin(a, p)
  \/ \E p \in People : RecoverSuperadmin(p) \/ Deactivate(p)
  \/ \E p \in People, d \in Duties : ScriptGrants(p, d) \/ ScriptRevokes(p, d)
GrantNext ==
  \/ \E p \in People : BeginOversight(p) \/ EndOversight(p)
  \/ \E a, p \in People, d \in Duties, g \in Grants :
       RequestResponsibility(a, p, d, g) \/ RequestSensitiveAccess(a, p, d, g)
  \/ \E a \in People, g \in Grants :
       \/ ApproveResponsibility(a, g)
       \/ RevokeResponsibility(a, g)
       \/ RejectRequest(a, g)
       \/ ApproveSensitiveAccess(a, g)
       \/ RevokeSensitiveAccess(a, g)
       \/ RequestEmergencyAccess(a, g)
       \/ ApproveEmergencyAccess(a, g)
       \/ ActivateEmergencyAccess(a, g)
       \/ RejectEmergencyAccess(a, g)
       \/ \E status \in {"REVOKED", "CLOSED"} : EndEmergencyAccess(a, g, status)
       \/ \E alone \in BOOLEAN : CompleteReview(a, g, alone)
  \/ \E g \in Grants :
       \/ LockPermission(g)
       \/ AuthorizeSensitiveAction(g)
       \/ AuthorizeEmergencyAction(g)
       \/ EndUse(g)
       \/ ExpireGrant(g)
       \/ PassExpiry(g)
       \/ PassReviewDue(g)
  \/ \E kind \in {"SENSITIVE_ACCESS", "EMERGENCY_ACCESS"} : ListGrants(kind)

Next == RoleNext \/ GrantNext

Spec == AccessInit /\ [][Next]_vars

\* A duty somebody holds other than from the operations script goes back to a
\* responsibility grant in force, which somebody else asked for and, for a
\* high-risk duty, a third one approved, unless a superadmin or the only
\* manager gave it.  Approval, rejection, revocation of a duty two grants and
\* the script may give, and a changing number of managers come in any order.
DutiesAreAgreed ==
  \A pd \in permission \ scripted : \E g \in LiveResponsibility(pd[1], pd[2]) :
    /\ grant[g].status = "ACTIVE" /\ grant[g].requester # grant[g].subject
    /\ pd[2] \in HighRisk =>
         \/ grant[g].mode \in {"SUPERADMIN_DIRECT", "SINGLE_MANAGER_EXCEPTION"}
         \/ grant[g].approver \notin {Nobody, grant[g].requester, grant[g].subject}

\* While a consumer changes sensitive data in the name of a grant, the grant is
\* in force and its subject has the duty: a revocation or an expiry that comes
\* between the consumer's check and its commit waits.
UsesAreCovered ==
  \A g \in Grants : use[g] = "AUTHORIZED" =>
    /\ grant[g].status = "ACTIVE"
    /\ grant[g].kind = "SENSITIVE_ACCESS" =>
         <<grant[g].subject, grant[g].duty>> \in permission

\* Emergency access that came into force was never rejected and was approved by
\* somebody other than the one who has it, or was asked for by the only manager
\* and approved by nobody; approval, rejection and activation may race.
EmergencyIsAgreed ==
  \A g \in Grants : grant[g].kind = "EMERGENCY_ACCESS" /\ grant[g].activated =>
    /\ ~grant[g].rejected
    /\ IF Excepted(g) THEN grant[g].approver = Nobody
       ELSE grant[g].approver \notin {Nobody, grant[g].requester}

\* A review is of an access that came into force and ended.  An independent one
\* is by somebody who neither asked for it nor approved it, a self-review by the
\* only manager, whom nobody approved.
ReviewsAreIndependent ==
  \A g \in Grants : grant[g].review # "NONE" =>
    /\ grant[g].activated /\ grant[g].status \in Ended
    /\ IF grant[g].review = "INDEPENDENT"
       THEN grant[g].reviewer \notin {Nobody, grant[g].requester, grant[g].approver}
       ELSE grant[g].reviewer = grant[g].requester /\ Excepted(g)

\* Emergency access had two people for it, and its review has another two, in
\* whatever order they approve, reject, activate, end and review.
EmergencyHasTwo == EmergencyIsAgreed /\ ReviewsAreIndependent
=============================================================================
