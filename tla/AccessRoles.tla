---------------------------- MODULE AccessRoles ----------------------------
(***************************************************************************)
(* Who may do what on the platform: the superadmins, the duties people     *)
(* hold (rows of identity_platform_permission_grants) and the              *)
(* responsibility grants by which access administrators hand duties out.   *)
(* Every command is one database transaction.  A command answers only to   *)
(* an identity that is ACTIVE and has a session, so sessions are left out, *)
(* and so are the revisions and idempotency keys of the commands: a stale  *)
(* or repeated command changes nothing.                                    *)
(*                                                                         *)
(* A consumer that reveals or changes sensitive data does so in its own    *)
(* transaction, under share locks this module's commands wait for; use and *)
(* oversight say which such transactions are running.                      *)
(***************************************************************************)
EXTENDS Naturals, FiniteSets

CONSTANTS
  People,        \* identities
  Nobody,        \* no identity
  Duties,        \* responsibilities
  HighRisk,      \* the responsibilities of HIGH_RISK
  Grants,        \* rows of identity_platform_access_grants that may be created
  OutsideBound   \* bound of the model: moves of the operators outside the API

ADMIN == "ACCESS_ADMINISTRATION"
AUDIT == "ACCESS_AUDIT_REVIEW"

ASSUME AccessAssumption ==
  /\ Nobody \notin People
  /\ {ADMIN, AUDIT} \subseteq Duties /\ ADMIN \in HighRisk /\ HighRisk \subseteq Duties
  /\ "NONE" \notin Duties
  /\ OutsideBound \in Nat

VARIABLES
  active,      \* the identities with status ACTIVE
  superadmin,  \* the identities with a live row of identity_platform_superadmins
  permission,  \* the live permission rows, <<identity, duty>>
  scripted,    \* those of them the operations script wrote
  grant,       \* rows of identity_platform_access_grants
  use,         \* how far a consumer's transaction that names the grant has come
  oversight,   \* superadmins in whose name a consumer's transaction is running
  outside      \* how many moves the operators made

roleVars == <<active, superadmin, permission, scripted>>
vars == <<active, superadmin, permission, scripted, grant, use, oversight, outside>>

Kind == {"NONE", "RESPONSIBILITY", "SENSITIVE_ACCESS", "EMERGENCY_ACCESS"}
GrantStatus == {"NONE", "PENDING_APPROVAL", "ACTIVE", "EXPIRED", "REVOKED", "CLOSED"}
Mode ==
  {"NONE", "DIRECT", "SUPERADMIN_DIRECT", "SINGLE_MANAGER_EXCEPTION", "DUAL_CONTROL",
   "DIRECT_ASSIGNMENT", "REQUEST_APPROVAL"}
ReviewMode == {"NONE", "INDEPENDENT", "WITHOUT_INDEPENDENT_REVIEW"}
Somebody == People \cup {Nobody}
\* over: expires_at has passed; overdue: review_due_at has.
GrantRow ==
  [kind : Kind, status : GrantStatus, mode : Mode, duty : Duties \cup {"NONE"},
   subject : Somebody, requester : Somebody, approver : Somebody,
   rejected : BOOLEAN, activated : BOOLEAN, over : BOOLEAN, overdue : BOOLEAN,
   review : ReviewMode, reviewer : Somebody]

NoRow ==
  [kind |-> "NONE", status |-> "NONE", mode |-> "NONE", duty |-> "NONE",
   subject |-> Nobody, requester |-> Nobody, approver |-> Nobody,
   rejected |-> FALSE, activated |-> FALSE, over |-> FALSE, overdue |-> FALSE,
   review |-> "NONE", reviewer |-> Nobody]
NewRow(kind, status, mode, duty, subject, requester) ==
  [NoRow EXCEPT !.kind = kind, !.status = status, !.mode = mode, !.duty = duty,
     !.subject = subject, !.requester = requester, !.activated = (status = "ACTIVE")]

Stage == {"NONE", "PERMISSION", "AUTHORIZED"}

AccessInit ==
  /\ active = People
  /\ superadmin = {} /\ permission = {} /\ scripted = {}
  /\ grant = [g \in Grants |-> NoRow]
  /\ use = [g \in Grants |-> "NONE"] /\ oversight = {}
  /\ outside = 0

LiveSuperadmins == superadmin \cap active
\* requireAccessAdministrator, and its count of all of them
Administrator(p) == p \in LiveSuperadmins \/ (p \in active /\ <<p, ADMIN>> \in permission)
Managers == {p \in People : Administrator(p)}
\* requireResponsibility
Responsible(p, d) == p \in LiveSuperadmins \/ (p \in active /\ <<p, d>> \in permission)

\* The rows running consumers have locked FOR SHARE.
LockedGrants == {g \in Grants : use[g] = "AUTHORIZED"}
\* Mutation of LockedPermissions: the lock on the duty is not kept to the end.
LockedUntilChecked ==
  {<<grant[g].subject, grant[g].duty>> :
     g \in {h \in Grants : use[h] = "PERMISSION" /\ grant[h].kind = "SENSITIVE_ACCESS"}}
LockedPermissions ==
  {<<grant[g].subject, grant[g].duty>> :
     g \in {h \in Grants : use[h] # "NONE" /\ grant[h].kind = "SENSITIVE_ACCESS"}}

Free(g) == grant[g].kind = "NONE"
Write(g, row) == g \notin LockedGrants /\ grant' = [grant EXCEPT ![g] = row]

\* Superadmins, one advisory lock for all changes.

GrantSuperadmin(a, p) ==
  /\ a \in LiveSuperadmins
  /\ p \in active \ superadmin
  /\ superadmin' = superadmin \cup {p}
  /\ UNCHANGED <<active, permission, scripted, grant, use, oversight, outside>>

RevokeSuperadmin(a, p) ==
  /\ a \in LiveSuperadmins
  /\ p \in superadmin \ oversight
  /\ p \in active => Cardinality(LiveSuperadmins) > 1
  /\ superadmin' = superadmin \ {p}
  /\ UNCHANGED <<active, permission, scripted, grant, use, oversight, outside>>

Outside == outside < OutsideBound /\ outside' = outside + 1

\* identity_recover_superadmin, run by the database's owner
RecoverSuperadmin(p) ==
  /\ Outside
  /\ LiveSuperadmins = {}
  /\ p \in active
  /\ superadmin' = superadmin \cup {p}
  /\ UNCHANGED <<active, permission, scripted, grant, use, oversight>>

\* An identity stops being ACTIVE; a trigger keeps the last live superadmin.
Deactivate(p) ==
  /\ Outside
  /\ p \in active \ oversight
  /\ p \in superadmin => LiveSuperadmins # {p}
  /\ active' = active \ {p}
  /\ UNCHANGED <<superadmin, permission, scripted, grant, use, oversight>>

\* The operations script writes and revokes permission rows without a grant.
ScriptGrants(p, d) ==
  /\ Outside
  /\ p \in active
  /\ <<p, d>> \notin permission
  /\ permission' = permission \cup {<<p, d>>}
  /\ scripted' = scripted \cup {<<p, d>>}
  /\ UNCHANGED <<active, superadmin, grant, use, oversight>>
ScriptRevokes(p, d) ==
  /\ Outside
  /\ p \in active
  /\ <<p, d>> \in permission \ LockedPermissions
  /\ permission' = permission \ {<<p, d>>}
  /\ scripted' = scripted \ {<<p, d>>}
  /\ UNCHANGED <<active, superadmin, grant, use, oversight>>

\* Responsibility grants.

LiveResponsibility(p, d) ==
  {g \in Grants : /\ grant[g].kind = "RESPONSIBILITY"
                  /\ grant[g].subject = p /\ grant[g].duty = d
                  /\ grant[g].status \in {"PENDING_APPROVAL", "ACTIVE"}}

\* The permission row of a grant that becomes active; its unique index refuses
\* a second live one.
HandOut(p, d) ==
  /\ <<p, d>> \notin permission
  /\ permission' = permission \cup {<<p, d>>}

ControlMode(a, d) ==
  IF a \in LiveSuperadmins THEN "SUPERADMIN_DIRECT"
  ELSE IF d \notin HighRisk THEN "DIRECT"
  ELSE IF Cardinality(Managers) = 1 THEN "SINGLE_MANAGER_EXCEPTION"
  ELSE "DUAL_CONTROL"

RequestResponsibility(a, p, d, g) ==
  LET mode == ControlMode(a, d)
      status == IF mode = "DUAL_CONTROL" THEN "PENDING_APPROVAL" ELSE "ACTIVE" IN
  /\ Administrator(a) /\ a # p
  /\ Free(g) /\ LiveResponsibility(p, d) = {}
  /\ Write(g, NewRow("RESPONSIBILITY", status, mode, d, p, a))
  /\ IF status = "ACTIVE" THEN HandOut(p, d) ELSE UNCHANGED permission
  /\ UNCHANGED <<active, superadmin, scripted, use, oversight, outside>>

Outsider(a, g) == a \notin {grant[g].requester, grant[g].subject}
Approved(row, a) ==
  [row EXCEPT !.status = "ACTIVE", !.activated = TRUE, !.approver = a]

\* Mutation of ApproveResponsibility: the one who asked may approve.
ApproveOwnResponsibility(a, g) ==
  /\ Administrator(a)
  /\ grant[g].kind = "RESPONSIBILITY" /\ grant[g].status = "PENDING_APPROVAL"
  /\ a # grant[g].subject
  /\ Cardinality(Managers) >= 2
  /\ Write(g, Approved(grant[g], a))
  /\ HandOut(grant[g].subject, grant[g].duty)
  /\ UNCHANGED <<active, superadmin, scripted, use, oversight, outside>>
\* rejected_at is not looked at.
ApproveResponsibility(a, g) ==
  /\ Administrator(a)
  /\ grant[g].kind = "RESPONSIBILITY" /\ grant[g].status = "PENDING_APPROVAL"
  /\ Outsider(a, g)
  /\ Cardinality(Managers) >= 2
  /\ Write(g, Approved(grant[g], a))
  /\ HandOut(grant[g].subject, grant[g].duty)
  /\ UNCHANGED <<active, superadmin, scripted, use, oversight, outside>>

\* Whatever row gives the duty goes, even if this grant never gave it.
RevokeResponsibility(a, g) ==
  LET duty == <<grant[g].subject, grant[g].duty>> IN
  /\ Administrator(a)
  /\ grant[g].kind = "RESPONSIBILITY" /\ grant[g].status # "REVOKED"
  /\ duty \in permission => duty \notin LockedPermissions
  /\ Write(g, [grant[g] EXCEPT !.status = "REVOKED"])
  /\ permission' = permission \ {duty}
  /\ scripted' = scripted \ {duty}
  /\ UNCHANGED <<active, superadmin, use, oversight, outside>>

\* rejectResponsibility and rejectSensitiveAccess: the row stays PENDING_APPROVAL.
RejectRequest(a, g) ==
  /\ Administrator(a)
  /\ grant[g].kind \in {"RESPONSIBILITY", "SENSITIVE_ACCESS"}
  /\ grant[g].status = "PENDING_APPROVAL" /\ ~grant[g].rejected
  /\ Outsider(a, g)
  /\ Write(g, [grant[g] EXCEPT !.rejected = TRUE])
  /\ UNCHANGED <<roleVars, use, oversight, outside>>
=============================================================================
