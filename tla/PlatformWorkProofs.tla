------------------------- MODULE PlatformWorkProofs -------------------------
(***************************************************************************)
(* Proofs about PlatformWork, for any people, duties, grants, applications *)
(* and recoveries, any number of codes and sessions, and any bounds on     *)
(* them or on what the operators do outside the API.  First access by      *)
(* itself, as PlatformAccess has it; then access beside the rest, and that *)
(* a seller was approved, a factor is vouched for, and a session is as new *)
(* as the password.                                                        *)
(***************************************************************************)
EXTENDS PlatformWork, FiniteSetTheorems, TLAPS

-----------------------------------------------------------------------------
(* Rows. *)

\* What every row of the table owes to those who asked for it and agreed to it.
\* A row is asked for by somebody else, or by its subject when it is an emergency;
\* nobody approves his own; what came into force is no longer pending; a review is
\* of an emergency that came into force and ended.
RowIsAgreed(row) ==
  /\ row.kind = "RESPONSIBILITY" =>
       /\ row.subject \in People /\ row.duty \in Duties /\ row.requester # row.subject
       /\ row.status = "ACTIVE" /\ row.duty \in HighRisk =>
            \/ row.mode \in {"SUPERADMIN_DIRECT", "SINGLE_MANAGER_EXCEPTION"}
            \/ row.approver \notin {Nobody, row.requester, row.subject}
  /\ row.kind = "EMERGENCY_ACCESS" =>
       /\ row.requester # Nobody /\ row.approver # row.requester
       /\ row.mode = "SINGLE_MANAGER_EXCEPTION" => row.approver = Nobody
       /\ row.activated =>
            /\ ~row.rejected /\ row.status # "PENDING_APPROVAL"
            /\ row.mode = "SINGLE_MANAGER_EXCEPTION" \/ row.approver # Nobody
  /\ row.review # "NONE" =>
       /\ row.kind = "EMERGENCY_ACCESS"
       /\ row.activated /\ row.status \in Ended
       /\ IF row.review = "INDEPENDENT"
          THEN row.reviewer \notin {Nobody, row.requester, row.approver}
          ELSE row.reviewer = row.requester /\ row.mode = "SINGLE_MANAGER_EXCEPTION"

AgreedRow == {row \in GrantRow : RowIsAgreed(row)}

\* What a running consumer relies on: its first lock is on a duty that is there, its
\* second on a grant in force.
LocksHold ==
  \A g \in Grants :
    /\ use[g] = "PERMISSION" => grant[g].kind = "SENSITIVE_ACCESS"
    /\ use[g] = "AUTHORIZED" => grant[g].status = "ACTIVE"
    /\ use[g] # "NONE" =>
         /\ grant[g].kind # "NONE"
         /\ grant[g].kind = "SENSITIVE_ACCESS" =>
              <<grant[g].subject, grant[g].duty>> \in permission

AccessInv ==
  /\ TypeOK
  /\ \A g \in Grants : grant[g] \in AgreedRow
  /\ LocksHold
  /\ DutiesAreAgreed

\* A written row replaces one row, which no consumer has locked.
LEMMA WrittenRow ==
  ASSUME NEW row, TypeOK, NEW g \in Grants, Write(g, row)
  PROVE  /\ use[g] # "AUTHORIZED"
         /\ grant' \in [Grants -> GrantRow \cup {row}]
         /\ grant'[g] = row
         /\ \A h \in Grants \ {g} : grant'[h] = grant[h]
BY DEF Write, LockedGrants, TypeOK

\* A row as it is requested.
LEMMA RequestedRow ==
  ASSUME NEW kind \in Kind \ {"NONE"}, NEW status \in {"PENDING_APPROVAL", "ACTIVE"},
         NEW mode \in Mode, NEW duty \in Duties \cup {"NONE"},
         NEW subject \in People, NEW requester \in People,
         kind = "RESPONSIBILITY" =>
           /\ duty \in Duties /\ requester # subject
           /\ status = "ACTIVE" /\ duty \in HighRisk =>
                mode \in {"SUPERADMIN_DIRECT", "SINGLE_MANAGER_EXCEPTION"},
         kind = "EMERGENCY_ACCESS" => status = "PENDING_APPROVAL"
  PROVE  LET row == NewRow(kind, status, mode, duty, subject, requester) IN
         /\ row \in AgreedRow
         /\ row.kind = kind /\ row.status = status /\ row.duty = duty
         /\ row.subject = subject /\ row.requester = requester /\ row.mode = mode
<1> USE AccessAssumption
<1>1. NoRow \in GrantRow
  BY DEF NoRow, GrantRow, Kind, GrantStatus, Mode, ReviewMode, Somebody
<1> DEFINE row == NewRow(kind, status, mode, duty, subject, requester)
<1> DEFINE live == status = "ACTIVE"
<1>2. row \in GrantRow
  <2>1. live \in BOOLEAN
    OBVIOUS
  <2>2. row = [NoRow EXCEPT !.kind = kind, !.status = status, !.mode = mode, !.duty = duty,
                            !.subject = subject, !.requester = requester, !.activated = live]
    BY DEF NewRow
  <2> HIDE DEF live
  <2> QED BY <1>1, <2>1, <2>2 DEF GrantRow, GrantStatus, Somebody
<1>3. /\ row.kind = kind /\ row.status = status /\ row.duty = duty
      /\ row.subject = subject /\ row.requester = requester /\ row.mode = mode
      /\ row.approver = Nobody /\ row.review = "NONE" /\ row.rejected = FALSE
      /\ row.activated = (status = "ACTIVE")
  BY DEF NewRow, NoRow
<1>4. RowIsAgreed(row)
  BY <1>3 DEF RowIsAgreed
<1> QED BY <1>2, <1>3, <1>4 DEF AgreedRow

\* What the commands on sensitive access and on emergencies, and the passing of time,
\* make of a row; a responsibility keeps who asked, who agreed and whether it is in
\* force.
SameParties(old, new) ==
  /\ old.kind # "NONE" =>
       new.kind = old.kind /\ new.subject = old.subject /\ new.duty = old.duty
  /\ old.kind = "RESPONSIBILITY" =>
       /\ new.status = old.status /\ new.requester = old.requester
       /\ new.mode = old.mode /\ new.approver = old.approver

\* Approving, rejecting and ending what was asked for keeps a row agreed.
LEMMA DecidedRow ==
  ASSUME NEW row \in AgreedRow, NEW a \in People
  PROVE  /\ row.kind = "RESPONSIBILITY" /\ a \notin {row.requester, row.subject} =>
              Approved(row, a) \in AgreedRow
         /\ row.kind = "SENSITIVE_ACCESS" =>
              Approved(row, a) \in AgreedRow
         /\ row.kind \in {"RESPONSIBILITY", "SENSITIVE_ACCESS"} =>
              /\ [row EXCEPT !.status = "REVOKED"] \in AgreedRow
              /\ [row EXCEPT !.rejected = TRUE] \in AgreedRow
<1>1. row \in GrantRow /\ a # Nobody
  BY AccessAssumption DEF AgreedRow
<1>2. /\ Approved(row, a) \in GrantRow
      /\ [row EXCEPT !.status = "REVOKED"] \in GrantRow
      /\ [row EXCEPT !.rejected = TRUE] \in GrantRow
  BY <1>1 DEF Approved, GrantRow, GrantStatus, Somebody
<1>3. RowIsAgreed(row)
  BY DEF AgreedRow
<1>4. ASSUME row.kind = "RESPONSIBILITY", a \notin {row.requester, row.subject}
      PROVE  RowIsAgreed(Approved(row, a))
  BY <1>1, <1>3, <1>4 DEF RowIsAgreed, Approved, GrantRow
<1>5. ASSUME row.kind = "SENSITIVE_ACCESS"
      PROVE  RowIsAgreed(Approved(row, a))
  BY <1>1, <1>3, <1>5 DEF RowIsAgreed, Approved, GrantRow
<1>6. ASSUME row.kind \in {"RESPONSIBILITY", "SENSITIVE_ACCESS"}
      PROVE  RowIsAgreed([row EXCEPT !.status = "REVOKED"]) /\ RowIsAgreed([row EXCEPT !.rejected = TRUE])
  BY <1>1, <1>3, <1>6 DEF RowIsAgreed, GrantRow
<1> QED BY <1>2, <1>4, <1>5, <1>6 DEF AgreedRow

\* The same for an emergency: it is approved, activated or rejected while it is
\* pending, ends, and is reviewed by those whom Reviewable lets.
LEMMA EmergencyRow ==
  ASSUME NEW row \in AgreedRow, NEW a \in People, row.kind = "EMERGENCY_ACCESS"
  PROVE  /\ row.status = "PENDING_APPROVAL" /\ row.mode # "SINGLE_MANAGER_EXCEPTION"
              /\ a # row.requester => [row EXCEPT !.approver = a] \in AgreedRow
         /\ row.status = "PENDING_APPROVAL" /\ ~row.rejected
              /\ (row.mode = "SINGLE_MANAGER_EXCEPTION" \/ row.approver # Nobody) =>
              [row EXCEPT !.status = "ACTIVE", !.activated = TRUE] \in AgreedRow
         /\ row.status = "PENDING_APPROVAL" => [row EXCEPT !.rejected = TRUE] \in AgreedRow
         /\ \A status \in Ended : [row EXCEPT !.status = status] \in AgreedRow
         /\ row.activated /\ row.status \in Ended => \A mode \in {"INDEPENDENT", "WITHOUT_INDEPENDENT_REVIEW"} :
              (IF mode = "INDEPENDENT" THEN a \notin {row.requester, row.approver}
               ELSE a = row.requester /\ row.approver = Nobody)
              => [row EXCEPT !.review = mode, !.reviewer = a] \in AgreedRow
<1>1. row \in GrantRow /\ a # Nobody
  BY AccessAssumption DEF AgreedRow
<1>2. RowIsAgreed(row)
  BY DEF AgreedRow
<1>3. ASSUME row.status = "PENDING_APPROVAL", row.mode # "SINGLE_MANAGER_EXCEPTION",
             a # row.requester
      PROVE  [row EXCEPT !.approver = a] \in AgreedRow
  <2>1. [row EXCEPT !.approver = a] \in GrantRow
    BY <1>1 DEF GrantRow, Somebody
  <2>2. RowIsAgreed([row EXCEPT !.approver = a])
    BY <1>1, <1>2, <1>3 DEF RowIsAgreed, GrantRow, Ended
  <2> QED BY <2>1, <2>2 DEF AgreedRow
<1>4. ASSUME row.status = "PENDING_APPROVAL", ~row.rejected,
             row.mode = "SINGLE_MANAGER_EXCEPTION" \/ row.approver # Nobody
      PROVE  [row EXCEPT !.status = "ACTIVE", !.activated = TRUE] \in AgreedRow
  <2>1. [row EXCEPT !.status = "ACTIVE", !.activated = TRUE] \in GrantRow
    BY <1>1 DEF GrantRow, GrantStatus
  <2>2. RowIsAgreed([row EXCEPT !.status = "ACTIVE", !.activated = TRUE])
    BY <1>1, <1>2, <1>4 DEF RowIsAgreed, GrantRow, Ended
  <2> QED BY <2>1, <2>2 DEF AgreedRow
<1>5. ASSUME row.status = "PENDING_APPROVAL"
      PROVE  [row EXCEPT !.rejected = TRUE] \in AgreedRow
  <2>1. [row EXCEPT !.rejected = TRUE] \in GrantRow
    BY <1>1 DEF GrantRow
  <2>2. RowIsAgreed([row EXCEPT !.rejected = TRUE])
    BY <1>1, <1>2, <1>5 DEF RowIsAgreed, GrantRow, Ended
  <2> QED BY <2>1, <2>2 DEF AgreedRow
<1>6. ASSUME NEW status \in Ended
      PROVE  [row EXCEPT !.status = status] \in AgreedRow
  <2>1. [row EXCEPT !.status = status] \in GrantRow
    BY <1>1 DEF GrantRow, GrantStatus, Ended
  <2>2. RowIsAgreed([row EXCEPT !.status = status])
    BY <1>1, <1>2, <1>6 DEF RowIsAgreed, GrantRow, Ended
  <2> QED BY <2>1, <2>2 DEF AgreedRow
<1>7. ASSUME row.activated, row.status \in Ended,
             NEW mode \in {"INDEPENDENT", "WITHOUT_INDEPENDENT_REVIEW"},
             (IF mode = "INDEPENDENT" THEN a \notin {row.requester, row.approver}
              ELSE a = row.requester /\ row.approver = Nobody)
      PROVE  [row EXCEPT !.review = mode, !.reviewer = a] \in AgreedRow
  <2>1. [row EXCEPT !.review = mode, !.reviewer = a] \in GrantRow
    BY <1>1 DEF GrantRow, ReviewMode, Somebody
  <2>2. RowIsAgreed([row EXCEPT !.review = mode, !.reviewer = a])
    BY <1>1, <1>2, <1>7 DEF RowIsAgreed, GrantRow, Ended
  <2> QED BY <2>1, <2>2 DEF AgreedRow
<1> QED BY <1>3, <1>4, <1>5, <1>6, <1>7

\* A date that passes, and what becomes of a row that is due.
LEMMA LateRow ==
  ASSUME NEW row \in AgreedRow
  PROVE  /\ [row EXCEPT !.over = TRUE] \in AgreedRow
         /\ [row EXCEPT !.over = TRUE, !.overdue = TRUE] \in AgreedRow
         /\ row.kind \in {"SENSITIVE_ACCESS", "EMERGENCY_ACCESS"} =>
              [row EXCEPT !.status = "EXPIRED"] \in AgreedRow
<1>1. row \in GrantRow /\ RowIsAgreed(row)
  BY DEF AgreedRow
<1>2. /\ [row EXCEPT !.over = TRUE] \in AgreedRow
      /\ [row EXCEPT !.over = TRUE, !.overdue = TRUE] \in AgreedRow
  BY <1>1 DEF AgreedRow, GrantRow, RowIsAgreed
<1>3. ASSUME row.kind \in {"SENSITIVE_ACCESS", "EMERGENCY_ACCESS"}
      PROVE  [row EXCEPT !.status = "EXPIRED"] \in AgreedRow
  <2>1. [row EXCEPT !.status = "EXPIRED"] \in GrantRow
    BY <1>1 DEF GrantRow, GrantStatus
  <2>2. RowIsAgreed([row EXCEPT !.status = "EXPIRED"])
    BY <1>1, <1>3 DEF RowIsAgreed, GrantRow, Ended
  <2> QED BY <2>1, <2>2 DEF AgreedRow
<1> QED BY <1>2, <1>3

-----------------------------------------------------------------------------
(* Steps. *)

\* The rows move, and nobody's role or duty does: no row changes hands, a duty in
\* force stays in force, and what a consumer has locked keeps its status.
LEMMA RowsMove ==
  ASSUME AccessInv, UNCHANGED <<roleVars, use, oversight, outside>>,
         grant' \in [Grants -> AgreedRow],
         \A g \in Grants : /\ SameParties(grant[g], grant'[g])
                           /\ use[g] = "AUTHORIZED" => grant'[g].status = grant[g].status
  PROVE  AccessInv'
<1>1. TypeOK'
  BY DEF AccessInv, TypeOK, roleVars, AgreedRow
<1>2. LocksHold'
  BY DEF AccessInv, LocksHold, SameParties, roleVars
<1>3. DutiesAreAgreed'
  <2> SUFFICES ASSUME NEW pd \in permission \ scripted
               PROVE  (\E g \in LiveResponsibility(pd[1], pd[2]) :
                         /\ grant[g].status = "ACTIVE" /\ grant[g].requester # grant[g].subject
                         /\ pd[2] \in HighRisk =>
                              \/ grant[g].mode \in {"SUPERADMIN_DIRECT", "SINGLE_MANAGER_EXCEPTION"}
                              \/ grant[g].approver \notin {Nobody, grant[g].requester, grant[g].subject})'
    BY DEF DutiesAreAgreed, roleVars
  <2>1. PICK g \in LiveResponsibility(pd[1], pd[2]) :
          /\ grant[g].status = "ACTIVE" /\ grant[g].requester # grant[g].subject
          /\ pd[2] \in HighRisk =>
               \/ grant[g].mode \in {"SUPERADMIN_DIRECT", "SINGLE_MANAGER_EXCEPTION"}
               \/ grant[g].approver \notin {Nobody, grant[g].requester, grant[g].subject}
    BY DEF AccessInv, DutiesAreAgreed
  <2>2. /\ g \in Grants /\ grant[g].kind = "RESPONSIBILITY"
        /\ grant[g].subject = pd[1] /\ grant[g].duty = pd[2]
    BY DEF LiveResponsibility
  <2>3. /\ grant'[g].kind = "RESPONSIBILITY"
        /\ grant'[g].subject = grant[g].subject /\ grant'[g].duty = grant[g].duty
        /\ grant'[g].status = grant[g].status /\ grant'[g].requester = grant[g].requester
        /\ grant'[g].mode = grant[g].mode /\ grant'[g].approver = grant[g].approver
    BY <2>2 DEF SameParties
  <2>4. g \in LiveResponsibility(pd[1], pd[2])'
    BY <2>1, <2>2, <2>3 DEF LiveResponsibility
  <2> QED BY <2>1, <2>3, <2>4
<1> QED BY <1>1, <1>2, <1>3 DEF AccessInv

\* One row is written, as RowsMove allows.
LEMMA RowWritten ==
  ASSUME AccessInv, UNCHANGED <<roleVars, use, oversight, outside>>,
         NEW g \in Grants, NEW row \in AgreedRow,
         SameParties(grant[g], row), Write(g, row)
  PROVE  AccessInv'
<1>1. /\ use[g] # "AUTHORIZED"
      /\ grant' = [grant EXCEPT ![g] = row]
  BY WrittenRow DEF AccessInv, Write
<1>2. grant \in [Grants -> AgreedRow]
  BY DEF AccessInv, TypeOK
<1>3. grant' \in [Grants -> AgreedRow]
  BY <1>1, <1>2
<1>4. \A h \in Grants : /\ SameParties(grant[h], grant'[h])
                        /\ use[h] = "AUTHORIZED" => grant'[h].status = grant[h].status
  BY <1>1, <1>2 DEF SameParties
<1> QED BY <1>3, <1>4, RowsMove

\* Roles move and no row does: nothing a consumer relies on is taken away, and no
\* duty is handed out but by the operations script.
LEMMA RolesMove ==
  ASSUME AccessInv, TypeOK', UNCHANGED <<grant, use>>,
         permission' \ scripted' \subseteq permission \ scripted,
         permission \cap LockedPermissions \subseteq permission'
  PROVE  AccessInv'
<1>1. LocksHold'
  BY DEF AccessInv, LocksHold, LockedPermissions
<1>2. DutiesAreAgreed'
  BY DEF AccessInv, DutiesAreAgreed, LiveResponsibility
<1> QED BY <1>1, <1>2 DEF AccessInv

LEMMA RoleStep ==
  ASSUME AccessInv, RoleNext
  PROVE  AccessInv'
<1> USE AccessAssumption
<1>1. TypeOK
  BY DEF AccessInv
<1>2. CASE \E a, p \in People : GrantSuperadmin(a, p) \/ RevokeSuperadmin(a, p)
  <2>1. TypeOK' /\ UNCHANGED <<grant, use, permission, scripted>>
    BY <1>1, <1>2 DEF TypeOK, GrantSuperadmin, RevokeSuperadmin
  <2> QED BY <2>1, RolesMove
<1>3. CASE \E p \in People : RecoverSuperadmin(p) \/ Deactivate(p)
  <2>1. TypeOK' /\ UNCHANGED <<grant, use, permission, scripted>>
    BY <1>1, <1>3 DEF TypeOK, RecoverSuperadmin, Deactivate, Outside
  <2> QED BY <2>1, RolesMove
<1>4. CASE \E p \in People, d \in Duties : ScriptGrants(p, d)
  <2>1. /\ TypeOK' /\ UNCHANGED <<grant, use>>
        /\ permission' \ scripted' \subseteq permission \ scripted /\ permission \subseteq permission'
    BY <1>1, <1>4 DEF TypeOK, ScriptGrants, Outside
  <2> QED BY <2>1, RolesMove
<1>5. CASE \E p \in People, d \in Duties : ScriptRevokes(p, d)
  <2>1. /\ TypeOK' /\ UNCHANGED <<grant, use>>
        /\ permission' \ scripted' \subseteq permission \ scripted
        /\ permission \cap LockedPermissions \subseteq permission'
    BY <1>1, <1>5 DEF TypeOK, ScriptRevokes, Outside
  <2> QED BY <2>1, RolesMove
<1> QED BY <1>2, <1>3, <1>4, <1>5 DEF RoleNext

\* A duty is handed out with the row that says so, or taken with it.
LEMMA RequestResponsibilityStep ==
  ASSUME AccessInv, NEW a \in People, NEW p \in People, NEW d \in Duties, NEW g \in Grants,
         RequestResponsibility(a, p, d, g)
  PROVE  AccessInv'
<1> DEFINE mode == ControlMode(a, d)
           status == IF mode = "DUAL_CONTROL" THEN "PENDING_APPROVAL" ELSE "ACTIVE"
           row == NewRow("RESPONSIBILITY", status, mode, d, p, a)
<1>1. /\ a # p /\ Free(g) /\ Write(g, row)
      /\ IF status = "ACTIVE" THEN HandOut(p, d) ELSE UNCHANGED permission
      /\ UNCHANGED <<active, superadmin, scripted, use, oversight, outside>>
  BY DEF RequestResponsibility
<1>2. mode \in Mode /\ (status = "ACTIVE" /\ d \in HighRisk => mode \in {"SUPERADMIN_DIRECT", "SINGLE_MANAGER_EXCEPTION"})
  BY DEF ControlMode, Mode
<1>3. /\ row \in AgreedRow /\ row.kind = "RESPONSIBILITY" /\ row.status = status
      /\ row.duty = d /\ row.subject = p /\ row.requester = a /\ row.mode = mode
  <2> HIDE DEF mode
  <2> QED BY <1>1, <1>2, RequestedRow DEF Kind
<1> HIDE DEF row, status, mode
<1>4. /\ use[g] # "AUTHORIZED" /\ grant' = [grant EXCEPT ![g] = row]
      /\ grant \in [Grants -> AgreedRow]
  BY <1>1, WrittenRow DEF AccessInv, TypeOK, Write
<1>5. /\ grant' \in [Grants -> AgreedRow] /\ grant'[g] = row
      /\ \A h \in Grants \ {g} : grant'[h] = grant[h]
  BY <1>3, <1>4
<1>6. /\ permission \subseteq permission'
      /\ permission' \subseteq permission \cup {<<p, d>>}
      /\ status # "ACTIVE" => permission' = permission
  BY <1>1 DEF HandOut
<1>7. TypeOK'
  BY <1>1, <1>5, <1>6 DEF AccessInv, TypeOK, AgreedRow
<1>8. grant[g].kind = "NONE" /\ use[g] = "NONE"
  BY <1>1 DEF Free, AccessInv, LocksHold
<1>9. LocksHold'
  BY <1>1, <1>5, <1>6, <1>8 DEF AccessInv, LocksHold
<1>10. DutiesAreAgreed'
  BY <1>1, <1>2, <1>3, <1>5, <1>6, <1>8 DEF AccessInv, DutiesAreAgreed, LiveResponsibility
<1> QED BY <1>5, <1>7, <1>9, <1>10 DEF AccessInv

\* An approved responsibility hands its duty out, and says who agreed.
LEMMA ApproveResponsibilityStep ==
  ASSUME AccessInv, NEW a \in People, NEW g \in Grants, ApproveResponsibility(a, g)
  PROVE  AccessInv'
<1> DEFINE old == grant[g]
           row == Approved(old, a)
<1>1. /\ old.kind = "RESPONSIBILITY" /\ a \notin {old.requester, old.subject}
      /\ old.status = "PENDING_APPROVAL"
      /\ Write(g, row) /\ HandOut(old.subject, old.duty)
      /\ UNCHANGED <<active, superadmin, scripted, use, oversight, outside>>
  BY DEF ApproveResponsibility, Outsider
<1>2. grant \in [Grants -> AgreedRow] /\ old \in AgreedRow
  BY DEF AccessInv, TypeOK
<1>3. row \in AgreedRow /\ RowIsAgreed(row)
  BY <1>1, <1>2, DecidedRow DEF AgreedRow
<1>4. /\ row.kind = "RESPONSIBILITY" /\ row.subject = old.subject /\ row.duty = old.duty
      /\ row.status = "ACTIVE"
  BY <1>1, <1>2 DEF Approved, AgreedRow, GrantRow
<1>5. row.requester # row.subject /\ (row.duty \in HighRisk =>
        \/ row.mode \in {"SUPERADMIN_DIRECT", "SINGLE_MANAGER_EXCEPTION"}
        \/ row.approver \notin {Nobody, row.requester, row.subject})
  BY <1>3, <1>4 DEF RowIsAgreed
<1>6. old.subject \in People /\ old.duty \in Duties
  BY <1>1, <1>2 DEF AgreedRow, RowIsAgreed
<1>7. /\ use[g] # "AUTHORIZED" /\ grant' = [grant EXCEPT ![g] = row]
  BY <1>1, WrittenRow DEF AccessInv, Write
<1> HIDE DEF row
<1>8. /\ grant' \in [Grants -> AgreedRow] /\ grant'[g] = row
      /\ \A h \in Grants \ {g} : grant'[h] = grant[h]
  BY <1>2, <1>3, <1>7
<1>9. permission' = permission \cup {<<old.subject, old.duty>>}
  BY <1>1 DEF HandOut
<1>10. TypeOK'
  BY <1>1, <1>6, <1>8, <1>9 DEF AccessInv, TypeOK, AgreedRow
<1>11. LocksHold'
  BY <1>1, <1>4, <1>7, <1>8, <1>9 DEF AccessInv, LocksHold
<1>12. DutiesAreAgreed'
  <2> SUFFICES ASSUME NEW pd \in permission' \ scripted'
               PROVE  (\E h \in LiveResponsibility(pd[1], pd[2]) :
                         /\ grant[h].status = "ACTIVE" /\ grant[h].requester # grant[h].subject
                         /\ pd[2] \in HighRisk =>
                              \/ grant[h].mode \in {"SUPERADMIN_DIRECT", "SINGLE_MANAGER_EXCEPTION"}
                              \/ grant[h].approver \notin {Nobody, grant[h].requester, grant[h].subject})'
    BY DEF DutiesAreAgreed
  <2>1. CASE pd = <<old.subject, old.duty>>
    <3>1. g \in LiveResponsibility(pd[1], pd[2])'
      BY <1>4, <1>8, <2>1 DEF LiveResponsibility
    <3> QED BY <1>4, <1>5, <1>8, <2>1, <3>1
  <2>2. CASE pd \in permission \ scripted
    BY <1>1, <1>8, <2>2 DEF AccessInv, DutiesAreAgreed, LiveResponsibility
  <2> QED BY <1>1, <1>9, <2>1, <2>2
<1> QED BY <1>8, <1>10, <1>11, <1>12 DEF AccessInv

\* A revoked responsibility takes its duty with it, and no other.
LEMMA RevokeResponsibilityStep ==
  ASSUME AccessInv, NEW a \in People, NEW g \in Grants, RevokeResponsibility(a, g)
  PROVE  AccessInv'
<1> DEFINE old == grant[g]
           row == [old EXCEPT !.status = "REVOKED"]
           duty == <<old.subject, old.duty>>
<1>1. /\ old.kind = "RESPONSIBILITY" /\ Write(g, row)
      /\ duty \in permission => duty \notin LockedPermissions
      /\ permission' = permission \ {duty} /\ scripted' = scripted \ {duty}
      /\ UNCHANGED <<active, superadmin, use, oversight, outside>>
  BY DEF RevokeResponsibility
<1>2. grant \in [Grants -> AgreedRow] /\ old \in AgreedRow
  BY DEF AccessInv, TypeOK
<1>3. row \in AgreedRow
  BY <1>1, <1>2, DecidedRow
<1>4. row.kind = "RESPONSIBILITY"
  BY <1>1, <1>2 DEF AgreedRow, GrantRow
<1>5. /\ use[g] # "AUTHORIZED" /\ grant' = [grant EXCEPT ![g] = row]
  BY <1>1, WrittenRow DEF AccessInv, Write
<1> HIDE DEF row
<1>6. /\ grant' \in [Grants -> AgreedRow] /\ grant'[g] = row
      /\ \A h \in Grants \ {g} : grant'[h] = grant[h]
  BY <1>2, <1>3, <1>5
<1>7. TypeOK'
  BY <1>1, <1>6 DEF AccessInv, TypeOK, AgreedRow
<1>8. LocksHold'
  <2> SUFFICES ASSUME NEW h \in Grants
               PROVE  /\ use[h] = "PERMISSION" => grant'[h].kind = "SENSITIVE_ACCESS"
                      /\ use[h] = "AUTHORIZED" => grant'[h].status = "ACTIVE"
                      /\ use[h] # "NONE" =>
                           /\ grant'[h].kind # "NONE"
                           /\ grant'[h].kind = "SENSITIVE_ACCESS" =>
                                <<grant'[h].subject, grant'[h].duty>> \in permission'
    BY <1>1 DEF LocksHold
  <2>1. CASE h = g
    BY <1>1, <1>4, <1>5, <1>6, <2>1 DEF AccessInv, LocksHold
  <2>2. CASE h # g
    <3>1. use[h] # "NONE" /\ grant[h].kind = "SENSITIVE_ACCESS" =>
            <<grant[h].subject, grant[h].duty>> \in permission \cap LockedPermissions
      BY DEF AccessInv, LocksHold, LockedPermissions
    <3> QED BY <1>1, <1>6, <2>2, <3>1 DEF AccessInv, LocksHold
  <2> QED BY <2>1, <2>2
<1>9. DutiesAreAgreed'
  <2> SUFFICES ASSUME NEW pd \in permission' \ scripted'
               PROVE  (\E h \in LiveResponsibility(pd[1], pd[2]) :
                         /\ grant[h].status = "ACTIVE" /\ grant[h].requester # grant[h].subject
                         /\ pd[2] \in HighRisk =>
                              \/ grant[h].mode \in {"SUPERADMIN_DIRECT", "SINGLE_MANAGER_EXCEPTION"}
                              \/ grant[h].approver \notin {Nobody, grant[h].requester, grant[h].subject})'
    BY DEF DutiesAreAgreed
  <2>1. pd \in permission \ scripted /\ pd # duty /\ pd = <<pd[1], pd[2]>>
    BY <1>1 DEF AccessInv, TypeOK
  <2>2. PICK h \in LiveResponsibility(pd[1], pd[2]) :
          /\ grant[h].status = "ACTIVE" /\ grant[h].requester # grant[h].subject
          /\ pd[2] \in HighRisk =>
               \/ grant[h].mode \in {"SUPERADMIN_DIRECT", "SINGLE_MANAGER_EXCEPTION"}
               \/ grant[h].approver \notin {Nobody, grant[h].requester, grant[h].subject}
    BY <2>1 DEF AccessInv, DutiesAreAgreed
  <2>3. h \in Grants \ {g}
    BY <2>1, <2>2 DEF LiveResponsibility
  <2>4. grant'[h] = grant[h]
    BY <1>6, <2>3
  <2>5. h \in LiveResponsibility(pd[1], pd[2])'
    BY <2>2, <2>4 DEF LiveResponsibility
  <2> QED BY <2>2, <2>4, <2>5
<1> QED BY <1>6, <1>7, <1>8, <1>9 DEF AccessInv

\* What is asked for is asked for in a row of its own.
LEMMA RequestStep ==
  ASSUME AccessInv, NEW a \in People, NEW g \in Grants,
         \/ RequestEmergencyAccess(a, g)
         \/ \E p \in People, d \in Duties : RequestSensitiveAccess(a, p, d, g)
  PROVE  AccessInv'
<1>1. CASE RequestEmergencyAccess(a, g)
  <2> DEFINE mode == IF Cardinality(Managers) = 1 THEN "SINGLE_MANAGER_EXCEPTION" ELSE "DUAL_CONTROL"
             row == NewRow("EMERGENCY_ACCESS", "PENDING_APPROVAL", mode, "NONE", a, a)
  <2>1. mode \in Mode
    BY DEF Mode
  <2> HIDE DEF mode
  <2>2. row \in AgreedRow
    BY <2>1, RequestedRow DEF Kind
  <2>3. Free(g) /\ Write(g, row) /\ UNCHANGED <<roleVars, use, oversight, outside>>
    BY <1>1 DEF RequestEmergencyAccess, mode
  <2>4. SameParties(grant[g], row)
    BY <2>3 DEF SameParties, Free
  <2> QED BY <2>2, <2>3, <2>4, RowWritten
<1>2. ASSUME NEW p \in People, NEW d \in Duties, RequestSensitiveAccess(a, p, d, g)
      PROVE  AccessInv'
  <2> DEFINE assigned == a # p
             mode == IF ~assigned THEN "REQUEST_APPROVAL"
                     ELSE IF Cardinality(Managers) = 1 THEN "SINGLE_MANAGER_EXCEPTION"
                     ELSE "DIRECT_ASSIGNMENT"
             status == IF assigned THEN "ACTIVE" ELSE "PENDING_APPROVAL"
             row == NewRow("SENSITIVE_ACCESS", status, mode, d, p, a)
  <2>1. mode \in Mode /\ status \in {"PENDING_APPROVAL", "ACTIVE"}
    BY DEF Mode
  <2>2. Free(g) /\ Write(g, row) /\ UNCHANGED <<roleVars, use, oversight, outside>>
    BY <1>2 DEF RequestSensitiveAccess
  <2> HIDE DEF mode, status
  <2>3. row \in AgreedRow
    BY <2>1, RequestedRow DEF Kind
  <2>4. SameParties(grant[g], row)
    BY <2>2 DEF SameParties, Free
  <2> QED BY <2>2, <2>3, <2>4, RowWritten
<1> QED BY <1>1, <1>2

\* What was asked for is rejected, agreed, ended or reviewed in its own row.
LEMMA DecisionStep ==
  ASSUME AccessInv, NEW a \in People, NEW g \in Grants,
         \/ RejectRequest(a, g)
         \/ ApproveSensitiveAccess(a, g)
         \/ RevokeSensitiveAccess(a, g)
         \/ ApproveEmergencyAccess(a, g)
         \/ ActivateEmergencyAccess(a, g)
         \/ RejectEmergencyAccess(a, g)
         \/ \E status \in {"REVOKED", "CLOSED"} : EndEmergencyAccess(a, g, status)
         \/ \E alone \in BOOLEAN : CompleteReview(a, g, alone)
  PROVE  AccessInv'
<1> DEFINE old == grant[g]
<1>1. old \in AgreedRow /\ old \in GrantRow
  BY DEF AccessInv, AgreedRow
<1>2. CASE RejectRequest(a, g)
  <2> DEFINE row == [old EXCEPT !.rejected = TRUE]
  <2>1. /\ old.kind \in {"RESPONSIBILITY", "SENSITIVE_ACCESS"} /\ Write(g, row)
        /\ UNCHANGED <<roleVars, use, oversight, outside>>
    BY <1>2 DEF RejectRequest
  <2>2. row \in AgreedRow
    BY <1>1, <2>1, DecidedRow
  <2>3. SameParties(old, row)
    BY <1>1 DEF SameParties, GrantRow
  <2> QED BY <2>1, <2>2, <2>3, RowWritten
<1>3. CASE ApproveSensitiveAccess(a, g)
  <2> DEFINE row == Approved(old, a)
  <2>1. /\ old.kind = "SENSITIVE_ACCESS" /\ Write(g, row)
        /\ UNCHANGED <<roleVars, use, oversight, outside>>
    BY <1>3 DEF ApproveSensitiveAccess
  <2>2. row \in AgreedRow
    BY <1>1, <2>1, DecidedRow
  <2>3. SameParties(old, row)
    BY <1>1, <2>1 DEF SameParties, Approved, GrantRow
  <2> QED BY <2>1, <2>2, <2>3, RowWritten
<1>4. CASE RevokeSensitiveAccess(a, g)
  <2> DEFINE row == [old EXCEPT !.status = "REVOKED"]
  <2>1. /\ old.kind = "SENSITIVE_ACCESS" /\ Write(g, row)
        /\ UNCHANGED <<roleVars, use, oversight, outside>>
    BY <1>4 DEF RevokeSensitiveAccess
  <2>2. row \in AgreedRow
    BY <1>1, <2>1, DecidedRow
  <2>3. SameParties(old, row)
    BY <1>1, <2>1 DEF SameParties, GrantRow
  <2> QED BY <2>1, <2>2, <2>3, RowWritten
<1>5. CASE ApproveEmergencyAccess(a, g)
  <2> DEFINE row == [old EXCEPT !.approver = a]
  <2>1. /\ old.kind = "EMERGENCY_ACCESS" /\ old.status = "PENDING_APPROVAL"
        /\ old.mode # "SINGLE_MANAGER_EXCEPTION" /\ a # old.requester
        /\ Write(g, row) /\ UNCHANGED <<roleVars, use, oversight, outside>>
    BY <1>5 DEF ApproveEmergencyAccess, PendingEmergency, Excepted
  <2>2. row \in AgreedRow
    BY <1>1, <2>1, EmergencyRow
  <2>3. SameParties(old, row)
    BY <1>1, <2>1 DEF SameParties, GrantRow
  <2> QED BY <2>1, <2>2, <2>3, RowWritten
<1>6. CASE ActivateEmergencyAccess(a, g)
  <2> DEFINE row == [old EXCEPT !.status = "ACTIVE", !.activated = TRUE]
  <2>1. /\ old.kind = "EMERGENCY_ACCESS" /\ old.status = "PENDING_APPROVAL" /\ ~old.rejected
        /\ old.mode = "SINGLE_MANAGER_EXCEPTION" \/ old.approver # Nobody
        /\ Write(g, row) /\ UNCHANGED <<roleVars, use, oversight, outside>>
    BY <1>6 DEF ActivateEmergencyAccess, PendingEmergency, Excepted
  <2>2. row \in AgreedRow
    BY <1>1, <2>1, EmergencyRow
  <2>3. SameParties(old, row)
    BY <1>1, <2>1 DEF SameParties, GrantRow
  <2> QED BY <2>1, <2>2, <2>3, RowWritten
<1>7. CASE RejectEmergencyAccess(a, g)
  <2> DEFINE row == [old EXCEPT !.rejected = TRUE]
  <2>1. /\ old.kind = "EMERGENCY_ACCESS" /\ old.status = "PENDING_APPROVAL"
        /\ Write(g, row) /\ UNCHANGED <<roleVars, use, oversight, outside>>
    BY <1>7 DEF RejectEmergencyAccess, PendingEmergency
  <2>2. row \in AgreedRow
    BY <1>1, <2>1, EmergencyRow
  <2>3. SameParties(old, row)
    BY <1>1, <2>1 DEF SameParties, GrantRow
  <2> QED BY <2>1, <2>2, <2>3, RowWritten
<1>8. ASSUME NEW status \in {"REVOKED", "CLOSED"}, EndEmergencyAccess(a, g, status)
      PROVE  AccessInv'
  <2> DEFINE row == [old EXCEPT !.status = status]
  <2>1. /\ old.kind = "EMERGENCY_ACCESS" /\ status \in Ended
        /\ Write(g, row) /\ UNCHANGED <<roleVars, use, oversight, outside>>
    BY <1>8 DEF EndEmergencyAccess, Ended
  <2>2. row \in AgreedRow
    BY <1>1, <2>1, EmergencyRow
  <2>3. SameParties(old, row)
    BY <1>1, <2>1 DEF SameParties, GrantRow
  <2> QED BY <2>1, <2>2, <2>3, RowWritten
<1>9. ASSUME NEW alone \in BOOLEAN, CompleteReview(a, g, alone)
      PROVE  AccessInv'
  <2> DEFINE mode == ReviewModeOf(a, g, alone)
             row == [old EXCEPT !.review = mode, !.reviewer = a]
  <2>1. /\ old.kind = "EMERGENCY_ACCESS" /\ old.activated /\ old.status \in Ended
        /\ mode = "INDEPENDENT" => a \notin {old.requester, old.approver}
        /\ Write(g, row) /\ UNCHANGED <<roleVars, use, oversight, outside>>
    BY <1>9 DEF CompleteReview, Party
  <2>2. /\ mode \in {"INDEPENDENT", "WITHOUT_INDEPENDENT_REVIEW"}
        /\ mode # "INDEPENDENT" => a = old.requester /\ old.approver = Nobody
    BY DEF ReviewModeOf
  <2> HIDE DEF mode
  <2>3. row \in AgreedRow
    BY <1>1, <2>1, <2>2, EmergencyRow
  <2>4. SameParties(old, row)
    BY <1>1, <2>1 DEF SameParties, GrantRow
  <2> QED BY <2>1, <2>3, <2>4, RowWritten
<1> QED BY <1>2, <1>3, <1>4, <1>5, <1>6, <1>7, <1>8, <1>9

\* Time passes, and what is due is expired unless a consumer has it locked.
LEMMA TimeStep ==
  ASSUME AccessInv, NEW g \in Grants, ExpireGrant(g) \/ PassExpiry(g) \/ PassReviewDue(g)
  PROVE  AccessInv'
<1> DEFINE old == grant[g]
<1>1. old \in AgreedRow /\ old \in GrantRow /\ grant \in [Grants -> AgreedRow]
  BY DEF AccessInv, AgreedRow, TypeOK
<1>2. CASE ExpireGrant(g)
  <2> DEFINE row == [old EXCEPT !.status = "EXPIRED"]
  <2>1. /\ old.kind \in {"SENSITIVE_ACCESS", "EMERGENCY_ACCESS"}
        /\ Write(g, row) /\ UNCHANGED <<roleVars, use, oversight, outside>>
    BY <1>2 DEF ExpireGrant, DueOf
  <2>2. row \in AgreedRow
    BY <1>1, <2>1, LateRow
  <2>3. SameParties(old, row)
    BY <1>1, <2>1 DEF SameParties, GrantRow
  <2> QED BY <2>1, <2>2, <2>3, RowWritten
<1>3. CASE PassExpiry(g) \/ PassReviewDue(g)
  <2>1. PICK row \in {[old EXCEPT !.over = TRUE], [old EXCEPT !.over = TRUE, !.overdue = TRUE]} :
          grant' = [grant EXCEPT ![g] = row]
    BY <1>1, <1>3 DEF PassExpiry, PassReviewDue
  <2>2. row \in AgreedRow
    BY <1>1, <2>1, LateRow
  <2>3. SameParties(old, row) /\ row.status = old.status
    BY <1>1, <2>1 DEF SameParties, GrantRow
  <2>4. grant' \in [Grants -> AgreedRow] /\ \A h \in Grants :
          /\ SameParties(grant[h], grant'[h])
          /\ use[h] = "AUTHORIZED" => grant'[h].status = grant[h].status
    BY <1>1, <2>1, <2>2, <2>3 DEF SameParties
  <2>5. UNCHANGED <<roleVars, use, oversight, outside>>
    BY <1>3 DEF PassExpiry, PassReviewDue
  <2> QED BY <2>4, <2>5, RowsMove
<1> QED BY <1>2, <1>3

LEMMA ListStep ==
  ASSUME AccessInv, NEW kind \in {"SENSITIVE_ACCESS", "EMERGENCY_ACCESS"}, ListGrants(kind)
  PROVE  AccessInv'
<1> DEFINE row(g) == [grant[g] EXCEPT !.status = "EXPIRED"]
<1>1. grant \in [Grants -> AgreedRow] /\ AgreedRow \subseteq GrantRow
  BY DEF AccessInv, TypeOK, AgreedRow
<1>2. /\ \A g \in Grants : use[g] = "AUTHORIZED" => g \notin DueOf(kind)
      /\ \A g \in DueOf(kind) : g \in Grants /\ grant[g].kind = kind
      /\ grant' = [g \in Grants |-> IF g \in DueOf(kind) THEN row(g) ELSE grant[g]]
      /\ UNCHANGED <<roleVars, use, oversight, outside>>
  BY DEF ListGrants, LockedGrants, DueOf
<1>3. \A g \in DueOf(kind) : row(g) \in AgreedRow /\ SameParties(grant[g], row(g))
  <2> SUFFICES ASSUME NEW g \in DueOf(kind)
               PROVE  row(g) \in AgreedRow /\ SameParties(grant[g], row(g))
    OBVIOUS
  <2>1. grant[g] \in AgreedRow /\ grant[g] \in GrantRow /\ grant[g].kind = kind
    BY <1>1, <1>2
  <2>2. row(g) \in AgreedRow
    BY <2>1, LateRow
  <2>3. SameParties(grant[g], row(g))
    BY <2>1 DEF SameParties, GrantRow
  <2> QED BY <2>2, <2>3
<1> HIDE DEF row
<1>4. /\ grant' \in [Grants -> AgreedRow]
      /\ \A g \in Grants : /\ SameParties(grant[g], grant'[g])
                           /\ use[g] = "AUTHORIZED" => grant'[g].status = grant[g].status
  BY <1>1, <1>2, <1>3 DEF SameParties
<1> QED BY <1>2, <1>4, RowsMove

\* A consumer locks the duty, then the grant, and lets both go.
LEMMA ConsumerStep ==
  ASSUME AccessInv, NEW g \in Grants,
         \/ LockPermission(g)
         \/ AuthorizeSensitiveAction(g)
         \/ AuthorizeEmergencyAction(g)
         \/ EndUse(g)
  PROVE  AccessInv'
<1>1. UNCHANGED <<roleVars, grant, oversight, outside>>
  BY DEF LockPermission, AuthorizeSensitiveAction, AuthorizeEmergencyAction, EndUse
<1>2. /\ use' \in [Grants -> Stage]
      /\ \A h \in Grants \ {g} : use'[h] = use[h]
  BY DEF AccessInv, TypeOK, Stage, LockPermission, AuthorizeSensitiveAction,
         AuthorizeEmergencyAction, EndUse
<1>3. TypeOK'
  BY <1>1, <1>2 DEF AccessInv, TypeOK, roleVars
<1>4. /\ use'[g] = "PERMISSION" => grant[g].kind = "SENSITIVE_ACCESS"
      /\ use'[g] = "AUTHORIZED" => grant[g].status = "ACTIVE"
      /\ use'[g] # "NONE" =>
           /\ grant[g].kind # "NONE"
           /\ grant[g].kind = "SENSITIVE_ACCESS" =>
                <<grant[g].subject, grant[g].duty>> \in permission
  BY DEF AccessInv, TypeOK, LocksHold, LockPermission, AuthorizeSensitiveAction,
         AuthorizeEmergencyAction, EndUse, Usable
<1>5. LocksHold'
  BY <1>1, <1>2, <1>4 DEF AccessInv, LocksHold, roleVars
<1>6. DutiesAreAgreed'
  BY <1>1 DEF AccessInv, DutiesAreAgreed, LiveResponsibility, roleVars
<1> QED BY <1>1, <1>3, <1>5, <1>6 DEF AccessInv

LEMMA OversightStep ==
  ASSUME AccessInv, NEW p \in People, BeginOversight(p) \/ EndOversight(p)
  PROVE  AccessInv'
<1>1. UNCHANGED <<roleVars, grant, use>> /\ TypeOK'
  BY DEF AccessInv, TypeOK, BeginOversight, EndOversight, LiveSuperadmins, roleVars
<1> QED BY <1>1, RolesMove DEF roleVars

-----------------------------------------------------------------------------
(* Theorems. *)

LEMMA InitAgreed == AccessInit => AccessInv
<1> SUFFICES ASSUME AccessInit PROVE AccessInv
  OBVIOUS
<1>1. NoRow \in GrantRow
  BY DEF NoRow, GrantRow, Kind, GrantStatus, Mode, ReviewMode, Somebody
<1>2. NoRow \in AgreedRow
  BY <1>1 DEF AgreedRow, RowIsAgreed, NoRow
<1>3. TypeOK
  BY <1>1, AccessAssumption DEF AccessInit, TypeOK, Stage
<1> QED BY <1>2, <1>3 DEF AccessInv, AccessInit, LocksHold, DutiesAreAgreed

LEMMA NextAgreed == AccessInv /\ [Next]_vars => AccessInv'
<1> SUFFICES ASSUME AccessInv, [Next]_vars PROVE AccessInv'
  OBVIOUS
<1>1. CASE RoleNext
  BY <1>1, RoleStep
<1>2. CASE GrantNext
  <2>1. CASE \E p \in People : BeginOversight(p) \/ EndOversight(p)
    BY <2>1, OversightStep
  <2>2. ASSUME NEW a \in People, NEW p \in People, NEW d \in Duties, NEW g \in Grants,
               RequestResponsibility(a, p, d, g) \/ RequestSensitiveAccess(a, p, d, g)
        PROVE  AccessInv'
    BY <2>2, RequestResponsibilityStep, RequestStep
  <2>3. ASSUME NEW a \in People, NEW g \in Grants,
               \/ ApproveResponsibility(a, g)
               \/ RevokeResponsibility(a, g)
               \/ RequestEmergencyAccess(a, g)
        PROVE  AccessInv'
    BY <2>3, ApproveResponsibilityStep, RevokeResponsibilityStep, RequestStep
  <2>4. ASSUME NEW a \in People, NEW g \in Grants,
               \/ RejectRequest(a, g)
               \/ ApproveSensitiveAccess(a, g)
               \/ RevokeSensitiveAccess(a, g)
               \/ ApproveEmergencyAccess(a, g)
               \/ ActivateEmergencyAccess(a, g)
               \/ RejectEmergencyAccess(a, g)
               \/ \E status \in {"REVOKED", "CLOSED"} : EndEmergencyAccess(a, g, status)
               \/ \E alone \in BOOLEAN : CompleteReview(a, g, alone)
        PROVE  AccessInv'
    BY <2>4, DecisionStep
  <2>5. ASSUME NEW g \in Grants,
               \/ LockPermission(g) \/ AuthorizeSensitiveAction(g)
               \/ AuthorizeEmergencyAction(g) \/ EndUse(g)
        PROVE  AccessInv'
    BY <2>5, ConsumerStep
  <2>6. ASSUME NEW g \in Grants, ExpireGrant(g) \/ PassExpiry(g) \/ PassReviewDue(g)
        PROVE  AccessInv'
    BY <2>6, TimeStep
  <2>7. ASSUME NEW kind \in {"SENSITIVE_ACCESS", "EMERGENCY_ACCESS"}, ListGrants(kind)
        PROVE  AccessInv'
    BY <2>7, ListStep
  <2> QED BY <1>2, <2>1, <2>2, <2>3, <2>4, <2>5, <2>6, <2>7 DEF GrantNext
<1>3. CASE UNCHANGED vars
  BY <1>3 DEF vars, AccessInv, TypeOK, LocksHold, DutiesAreAgreed, LiveResponsibility
<1> QED BY <1>1, <1>2, <1>3 DEF Next

\* Every row is one its commands can have written, every lock a running consumer
\* counts on is on what it checked, and every duty is accounted for.
THEOREM AccessIsAgreed == Spec => []AccessInv
BY InitAgreed, NextAgreed, PTL DEF Spec

\* Type correctness.
THEOREM AccessTypeCorrect == Spec => []TypeOK
<1>1. AccessInv => TypeOK
  BY DEF AccessInv
<1> QED BY <1>1, AccessIsAgreed, PTL

\* No duty without a grant in force that others agreed to, whoever approves, rejects
\* and revokes in whatever order.
THEOREM DutiesAgreed == Spec => []DutiesAreAgreed
<1>1. AccessInv => DutiesAreAgreed
  BY DEF AccessInv
<1> QED BY <1>1, AccessIsAgreed, PTL

\* No consumer commits in the name of a grant that has been revoked or has expired,
\* or of a duty that has been taken away.
THEOREM UsesCovered == Spec => []UsesAreCovered
<1>1. AccessInv => UsesAreCovered
  BY DEF AccessInv, LocksHold, UsesAreCovered
<1> QED BY <1>1, AccessIsAgreed, PTL

\* Four eyes on every emergency: on its activation and on its review.
THEOREM EmergencyTakesTwo == Spec => []EmergencyHasTwo
<1>1. ASSUME AccessInv PROVE EmergencyHasTwo
  <2>1. \A g \in Grants : RowIsAgreed(grant[g])
    BY <1>1 DEF AccessInv, AgreedRow
  <2> QED BY <2>1 DEF EmergencyHasTwo, EmergencyIsAgreed, ReviewsAreIndependent, RowIsAgreed, Excepted
<1> QED BY <1>1, AccessIsAgreed, PTL

-----------------------------------------------------------------------------
(* Access, beside the rest. *)

\* The applications, the factors and the accounts change nothing access relies on.
THEOREM WorkImplementsAccess == WorkSpec => Spec
<1>1. WorkInit => AccessInit
  BY DEF WorkInit
<1>2. [WorkNext]_<<vars, otherVars>> => [Next]_vars
  BY DEF WorkNext
<1> QED BY <1>1, <1>2, PTL DEF WorkSpec, Spec

-----------------------------------------------------------------------------
(* Seller applications. *)

Open == {"SUBMITTED", "NEEDS_INFORMATION", "APPROVED"}

\* One application of an applicant is open or approved, the sellers are those with
\* an approved one, and every approval is one somebody else decided on at that very
\* version, in a recovery that is over.
OneOpen ==
  \A x, y \in Applications :
    /\ application[x].status \in Open /\ application[y].status \in Open
    /\ application[x].applicant = application[y].applicant
    => x = y
SellersAreApproved ==
  \A p \in People : p \in seller <=>
    \E x \in Applications : application[x].applicant = p /\ application[x].status = "APPROVED"
ApprovalIsRecorded(x, r) ==
  /\ recovery[r].application = x /\ recovery[r].status \in {"COMPLETED", "CANCELLED"}
  /\ recovery[r].actor = application[x].approver
  /\ recovery[r].actor # application[x].applicant
  /\ recovery[r].expected + 1 = application[x].version
AppInv ==
  /\ AppTypeOK
  /\ \A x \in Applications : application[x].status # "NONE" => application[x].applicant \in People
  /\ \A r \in Recoveries : recovery[r].status # "NONE" => recovery[r].application \in Applications
  /\ OneOpen
  /\ SellersAreApproved
  /\ \A x \in Applications : application[x].status = "APPROVED" =>
       \E r \in Recoveries : ApprovalIsRecorded(x, r)
  /\ \A r \in Recoveries : recovery[r].status = "COMPLETED" =>
       application[recovery[r].application].status = "APPROVED"

LEMMA AppInitInv == AppInit => AppInv
BY AccessAssumption, ApplicationAssumption
   DEF AppInit, AppInv, AppTypeOK, ApplicationRow, ApplicationStatus, RecoveryRow, Somebody,
       OneOpen, Open, SellersAreApproved

\* An application that is not approved becomes another one that is not.
LEMMA ApplicationMoves ==
  ASSUME AppInv, NEW x \in Applications, NEW row \in ApplicationRow,
         application[x].status # "APPROVED", row.status # "APPROVED",
         row.status # "NONE" => row.applicant \in People,
         row.status \in Open =>
           \A y \in Applications \ {x} :
             application[y].status \in Open => application[y].applicant # row.applicant,
         application' = [application EXCEPT ![x] = row],
         UNCHANGED <<recovery, worker, seller>>
  PROVE  AppInv'
<1>1. /\ application'[x] = row
      /\ \A y \in Applications \ {x} : application'[y] = application[y]
      /\ application' \in [Applications -> ApplicationRow]
  BY DEF AppInv, AppTypeOK
<1>2. AppTypeOK'
  BY <1>1 DEF AppInv, AppTypeOK
<1>3. OneOpen'
  BY <1>1 DEF AppInv, OneOpen
<1>4. SellersAreApproved'
  BY <1>1 DEF AppInv, SellersAreApproved
<1>5. \A y \in Applications : application'[y].status = "APPROVED" =>
        \E r \in Recoveries : ApprovalIsRecorded(y, r)'
  BY <1>1 DEF AppInv, ApprovalIsRecorded
<1>6. \A r \in Recoveries : recovery[r].status = "COMPLETED" =>
        application'[recovery[r].application].status = "APPROVED"
  BY <1>1 DEF AppInv
<1> QED BY <1>1, <1>2, <1>3, <1>4, <1>5, <1>6 DEF AppInv

LEMMA ApplicantStep ==
  ASSUME AppInv, NEW x \in Applications,
         \/ \E p \in People : Submit(p, x)
         \/ \E p \in People : \E status \in {"NEEDS_INFORMATION", "REJECTED"} : Decide(p, x, status)
         \/ Resubmit(x)
         \/ Withdraw(x)
  PROVE  AppInv'
<1>1. application[x] \in ApplicationRow /\ VersionBound \in Nat
  BY ApplicationAssumption DEF AppInv, AppTypeOK
<1>2. ASSUME NEW p \in People, Submit(p, x)
      PROVE  AppInv'
  <2> DEFINE row == [status |-> "SUBMITTED", applicant |-> p, version |-> 1, approver |-> Nobody]
  <2>1. row \in ApplicationRow
    BY ApplicationAssumption DEF ApplicationRow, ApplicationStatus, Somebody
  <2>2. \A y \in Applications \ {x} : application[y].status \in Open => application[y].applicant # p
    BY <1>2 DEF Submit, Undecided, AppInv, SellersAreApproved, Open
  <2> QED BY <1>2, <2>1, <2>2, ApplicationMoves DEF Submit
<1>3. ASSUME NEW status \in {"SUBMITTED", "NEEDS_INFORMATION", "REJECTED", "WITHDRAWN"},
             application[x].status \in {"SUBMITTED", "NEEDS_INFORMATION"}, Changeable(x),
             application' = Moved(x, status), UNCHANGED <<recovery, worker, seller>>
      PROVE  AppInv'
  <2> DEFINE version == application[x].version + 1
             row == [application[x] EXCEPT !.status = status, !.version = version]
  <2>1. row \in ApplicationRow
    <3>1. version \in 0 .. VersionBound + 1
      BY <1>1, <1>3 DEF ApplicationRow, Changeable
    <3> HIDE DEF version
    <3> QED BY <1>1, <3>1 DEF ApplicationRow, ApplicationStatus
  <2>2. row.status = status /\ row.applicant = application[x].applicant
    BY <1>1 DEF ApplicationRow
  <2>3. application' = [application EXCEPT ![x] = row]
    BY <1>1, <1>3 DEF Moved, AppInv, AppTypeOK
  <2>4. application[x].applicant \in People
    BY <1>3 DEF AppInv
  <2>5. \A y \in Applications \ {x} :
          application[y].status \in Open => application[y].applicant # row.applicant
    BY <1>3, <2>2 DEF AppInv, OneOpen, Open
  <2> HIDE DEF row
  <2> QED BY <1>3, <2>1, <2>2, <2>3, <2>4, <2>5, ApplicationMoves
<1> QED BY <1>2, <1>3 DEF Decide, Resubmit, Withdraw, Undecided

\* The recoveries that are not over move; the applications and the sellers rest.
LEMMA RecoveryMoves ==
  ASSUME AppInv, UNCHANGED <<application, seller>>,
         worker' \in [Recoveries -> {"IDLE", "TAKEN", "REFUSED"}],
         recovery' \in [Recoveries -> RecoveryRow],
         \A r \in Recoveries :
           \/ recovery'[r] = recovery[r]
           \/ /\ recovery[r].status \in {"NONE", "PENDING"}
              /\ recovery'[r].status \in {"PENDING", "CANCELLED"}
              /\ recovery'[r].application \in Applications
  PROVE  AppInv'
<1>1. \A r \in Recoveries : recovery[r].status \in {"COMPLETED", "CANCELLED"} => recovery'[r] = recovery[r]
  OBVIOUS
<1>2. \A x \in Applications : application'[x].status = "APPROVED" =>
        \E r \in Recoveries : ApprovalIsRecorded(x, r)'
  BY <1>1 DEF AppInv, ApprovalIsRecorded
<1>3. AppTypeOK'
  BY DEF AppInv, AppTypeOK
<1>4. OneOpen' /\ SellersAreApproved'
  BY DEF AppInv, OneOpen, SellersAreApproved
<1> QED BY <1>2, <1>3, <1>4 DEF AppInv

LEMMA WorkerStep ==
  ASSUME AppInv, NEW r \in Recoveries,
         \/ \E p \in People, x \in Applications : PrepareApproval(p, x, r)
         \/ TakeRecovery(r)
         \/ RefuseRecovery(r)
         \/ CancelRecovery(r)
         \/ DropRecovery(r)
  PROVE  AppInv'
<1>1. /\ recovery \in [Recoveries -> RecoveryRow]
      /\ worker \in [Recoveries -> {"IDLE", "TAKEN", "REFUSED"}]
  BY DEF AppInv, AppTypeOK
<1>2. ASSUME NEW p \in People, NEW x \in Applications, PrepareApproval(p, x, r)
      PROVE  AppInv'
  <2> DEFINE row == [status |-> "PENDING", application |-> x, actor |-> p,
                     expected |-> application[x].version]
  <2>1. application[x].version \in 0 .. VersionBound
    BY <1>2, ApplicationAssumption DEF PrepareApproval, Changeable, AppInv, AppTypeOK, ApplicationRow
  <2>2. row \in RecoveryRow
    BY <2>1 DEF RecoveryRow, Somebody
  <2>3. /\ recovery' = [recovery EXCEPT ![r] = row] /\ recovery[r].status = "NONE"
        /\ UNCHANGED <<application, worker, seller>>
    BY <1>2 DEF PrepareApproval
  <2> QED BY <1>1, <2>2, <2>3, RecoveryMoves
<1>3. CASE TakeRecovery(r) \/ RefuseRecovery(r) \/ DropRecovery(r)
  <2>1. /\ UNCHANGED <<application, recovery, seller>>
        /\ worker' \in [Recoveries -> {"IDLE", "TAKEN", "REFUSED"}]
    BY <1>1, <1>3 DEF TakeRecovery, RefuseRecovery, DropRecovery
  <2> QED BY <1>1, <2>1, RecoveryMoves
<1>4. CASE CancelRecovery(r)
  <2>1. /\ UNCHANGED <<application, seller>>
        /\ worker' \in [Recoveries -> {"IDLE", "TAKEN", "REFUSED"}]
    BY <1>1, <1>4 DEF CancelRecovery
  <2>2. CASE recovery[r].status = "PENDING"
    <3> DEFINE row == [recovery[r] EXCEPT !.status = "CANCELLED"]
    <3>1. row \in RecoveryRow /\ row.status = "CANCELLED" /\ row.application = recovery[r].application
      BY <1>1 DEF RecoveryRow
    <3>2. recovery' = [recovery EXCEPT ![r] = row]
      BY <1>4, <2>2 DEF CancelRecovery
    <3>3. recovery[r].application \in Applications
      BY <2>2 DEF AppInv
    <3> HIDE DEF row
    <3> QED BY <1>1, <2>1, <2>2, <3>1, <3>2, <3>3, RecoveryMoves
  <2>3. CASE recovery[r].status # "PENDING"
    BY <1>1, <1>4, <2>1, <2>3, RecoveryMoves DEF CancelRecovery
  <2> QED BY <2>2, <2>3
<1> QED BY <1>2, <1>3, <1>4

\* What is carried out is what was decided: the one place where an application
\* becomes approved.
LEMMA CarryOutStep ==
  ASSUME AppInv, NEW r \in Recoveries, ApproveByRequest(r) \/ ApproveByWorker(r)
  PROVE  AppInv'
<1>1. /\ CarryOut(r)
      /\ worker' \in [Recoveries -> {"IDLE", "TAKEN", "REFUSED"}]
  BY DEF ApproveByRequest, ApproveByWorker, AppInv, AppTypeOK
<1>2. /\ recovery \in [Recoveries -> RecoveryRow] /\ application \in [Applications -> ApplicationRow]
      /\ recovery[r].status # "NONE"
  BY <1>1 DEF AppInv, AppTypeOK, CarryOut
<1>3. PICK x \in Applications, actor \in Somebody, version \in 0 .. VersionBound :
        /\ recovery[r].application = x /\ recovery[r].actor = actor
        /\ recovery[r].expected = version
    BY <1>2 DEF AppInv, RecoveryRow
<1> DEFINE next == version + 1
           row == [application[x] EXCEPT !.status = "APPROVED", !.version = next, !.approver = actor]
<1>4. /\ application[x].version = version /\ application[x].status = "SUBMITTED"
      /\ application[x].applicant \notin seller \cup {actor}
      /\ application' = [application EXCEPT ![x] = row]
      /\ seller' = seller \cup {application[x].applicant}
      /\ recovery' = [q \in Recoveries |->
           IF recovery[q].application = x /\ recovery[q].status = "PENDING"
           THEN [recovery[q] EXCEPT !.status = "COMPLETED"] ELSE recovery[q]]
  BY <1>1, <1>2, <1>3 DEF CarryOut, Approvable, Moved
<1>5. application[x].applicant \in People
  BY <1>4 DEF AppInv
<1>6. /\ row \in ApplicationRow /\ row.status = "APPROVED" /\ row.approver = actor
      /\ row.applicant = application[x].applicant /\ row.version = version + 1
  <2>1. next \in 0 .. VersionBound + 1 /\ next = version + 1
    BY ApplicationAssumption
  <2> HIDE DEF next
  <2> QED BY <1>2, <2>1 DEF ApplicationRow, ApplicationStatus
<1> HIDE DEF row, next
<1>7. /\ application' \in [Applications -> ApplicationRow] /\ application'[x] = row
      /\ \A y \in Applications \ {x} : application'[y] = application[y]
  BY <1>2, <1>4, <1>6
<1>8. /\ recovery' \in [Recoveries -> RecoveryRow]
      /\ \A q \in Recoveries :
        \/ recovery'[q] = recovery[q] /\ ~(recovery[q].application = x /\ recovery[q].status = "PENDING")
        \/ /\ recovery[q].status = "PENDING" /\ recovery'[q].status = "COMPLETED"
           /\ recovery'[q].application = x /\ recovery[q].application = x
           /\ recovery'[q].actor = recovery[q].actor /\ recovery'[q].expected = recovery[q].expected
  BY <1>2, <1>4 DEF RecoveryRow
<1>9. AppTypeOK'
  BY <1>1, <1>4, <1>5, <1>7, <1>8 DEF AppInv, AppTypeOK
<1>10. OneOpen'
  BY <1>4, <1>6, <1>7 DEF AppInv, OneOpen, Open
<1>11. SellersAreApproved'
  BY <1>4, <1>5, <1>6, <1>7 DEF AppInv, SellersAreApproved
<1>12. \A q \in Recoveries :
         /\ recovery'[q].status # "NONE" => recovery'[q].application \in Applications
         /\ recovery'[q].status = "COMPLETED" =>
              application'[recovery'[q].application].status = "APPROVED"
  BY <1>6, <1>7, <1>8 DEF AppInv
<1>13. ApprovalIsRecorded(x, r)'
  <2>1. recovery[r].status \in {"PENDING", "COMPLETED", "CANCELLED"}
    BY <1>2 DEF RecoveryRow
  <2>2. recovery'[r].status \in {"COMPLETED", "CANCELLED"} /\ recovery'[r].application = x
        /\ recovery'[r].actor = actor /\ recovery'[r].expected = version
    BY <1>3, <1>8, <2>1
  <2> QED BY <1>4, <1>6, <1>7, <2>2 DEF ApprovalIsRecorded
<1>14. \A y \in Applications : application'[y].status = "APPROVED" =>
         \E q \in Recoveries : ApprovalIsRecorded(y, q)'
  <2> SUFFICES ASSUME NEW y \in Applications, application'[y].status = "APPROVED"
               PROVE  \E q \in Recoveries : ApprovalIsRecorded(y, q)'
    OBVIOUS
  <2>1. CASE y = x
    BY <1>13, <2>1
  <2>2. CASE y # x
    <3>1. PICK q \in Recoveries : ApprovalIsRecorded(y, q)
      BY <1>7, <2>2 DEF AppInv
    <3>2. recovery'[q] = recovery[q]
      BY <1>8, <3>1 DEF ApprovalIsRecorded
    <3>3. ApprovalIsRecorded(y, q)'
      BY <1>7, <2>2, <3>1, <3>2 DEF ApprovalIsRecorded
    <3> QED BY <3>3
  <2> QED BY <2>1, <2>2
<1>15. \A y \in Applications : application'[y].status # "NONE" => application'[y].applicant \in People
  BY <1>5, <1>6, <1>7 DEF AppInv
<1> QED BY <1>9, <1>10, <1>11, <1>12, <1>14, <1>15 DEF AppInv

LEMMA AppNextInv == AppInv /\ [WorkNext]_<<vars, otherVars>> => AppInv'
<1> SUFFICES ASSUME AppInv, [WorkNext]_<<vars, otherVars>> PROVE AppInv'
  OBVIOUS
<1>1. CASE AppNext
  BY <1>1, ApplicantStep, WorkerStep, CarryOutStep DEF AppNext
<1>2. CASE UNCHANGED appVars
  BY <1>2 DEF appVars, AppInv, AppTypeOK, OneOpen, SellersAreApproved, ApprovalIsRecorded
<1> QED BY <1>1, <1>2 DEF WorkNext, otherVars

\* Nobody sells without an application somebody else approved as it then was, and
\* nobody's approval is lost, however late the worker carries it out.
THEOREM SellersApproved == WorkSpec => []SellersWereApproved
<1>1. AppInv => SellersWereApproved
  <2> SUFFICES ASSUME AppInv PROVE SellersWereApproved
    OBVIOUS
  <2>1. ASSUME NEW p \in People
        PROVE  LET own(S) == {x \in Applications : application[x].applicant = p
                                                   /\ application[x].status \in S} IN
               /\ Cardinality(own({"SUBMITTED", "NEEDS_INFORMATION", "APPROVED"})) <= 1
               /\ p \in seller <=> own({"APPROVED"}) # {}
    <3> DEFINE own(S) == {x \in Applications : application[x].applicant = p
                                               /\ application[x].status \in S}
    <3>1. own(Open) = {} \/ \E x \in own(Open) : own(Open) = {x}
      BY DEF AppInv, OneOpen
    <3>2. Cardinality(own(Open)) <= 1
      <4> HIDE DEF own
      <4>1. CASE own(Open) = {}
        BY <4>1, FS_EmptySet
      <4>2. ASSUME NEW x, own(Open) = {x}
            PROVE  Cardinality(own(Open)) <= 1
        <5>1. Cardinality({x}) = 1
          BY FS_Singleton
        <5> QED BY <4>2, <5>1
      <4> QED BY <3>1, <4>1, <4>2
    <3>3. p \in seller <=> own({"APPROVED"}) # {}
      BY DEF AppInv, SellersAreApproved
    <3> QED BY <3>2, <3>3 DEF Open
  <2>2. \A x \in Applications : application[x].status = "APPROVED" =>
          \E r \in Recoveries :
            /\ recovery[r].application = x /\ recovery[r].status # "PENDING"
            /\ recovery[r].actor = application[x].approver
            /\ recovery[r].actor # application[x].applicant
            /\ recovery[r].expected + 1 = application[x].version
    BY DEF AppInv, ApprovalIsRecorded
  <2>3. \A r \in Recoveries : recovery[r].status = "COMPLETED" =>
          application[recovery[r].application].status = "APPROVED"
    BY DEF AppInv
  <2> QED BY <2>1, <2>2, <2>3 DEF SellersWereApproved
<1>2. WorkInit => AppInv
  BY AppInitInv DEF WorkInit
<1> QED BY <1>1, <1>2, AppNextInv, PTL DEF WorkSpec

-----------------------------------------------------------------------------
(* Public sessions. *)

\* What a session can be opened with is from after the last reset: the password, the
\* hash a login is comparing, and every code that is not void.
AccountInv ==
  /\ AccountTypeOK
  /\ password # 0 => password = resets
  /\ login # 0 => login = resets
  /\ \A c \in challenge : ~c.voided => c.since = resets
  /\ SessionsFollowResets

LEMMA AccountStep ==
  ASSUME AccountInv, AccountNext
  PROVE  AccountInv'
<1> USE AccountAssumption
<1>1. ASSUME NEW i \in Challenges, NEW audience \in {"PUBLIC", "PASSWORD_RESET"},
             RequestCode(i, audience)
      PROVE  AccountInv'
  <2> DEFINE row == [id |-> i, audience |-> audience, guesses |-> 0, consumed |-> FALSE,
                     voided |-> FALSE, over |-> FALSE, since |-> resets]
  <2>1. row \in ChallengeRow /\ row.since = resets
    BY DEF ChallengeRow, AccountInv, AccountTypeOK
  <2>2. challenge' = challenge \cup {row}
        /\ UNCHANGED <<proved, session, password, login, trading, resets>>
    BY <1>1 DEF RequestCode
  <2> HIDE DEF row
  <2> QED BY <2>1, <2>2 DEF AccountInv, AccountTypeOK, SessionsFollowResets
<1>2. ASSUME NEW c \in challenge,
             \/ CodeIsOver(c) \/ GuessCode(c) \/ ConsumeCode(c) \/ ResetNothing(c)
      PROVE  AccountInv'
  <2>1. c \in ChallengeRow
    BY DEF AccountInv, AccountTypeOK
  <2> DEFINE next == c.guesses + 1
  <2>2. PICK row \in ChallengeRow :
          /\ challenge' = (challenge \ {c}) \cup {row}
          /\ row.voided = c.voided /\ row.since = c.since
    <3>1. CASE CodeIsOver(c)
      <4> DEFINE row == [c EXCEPT !.over = TRUE]
      <4>1. challenge' = (challenge \ {c}) \cup {row}
        BY <3>1 DEF CodeIsOver, ChallengeBecomes
      <4>2. row \in ChallengeRow /\ row.voided = c.voided /\ row.since = c.since
        BY <2>1 DEF ChallengeRow
      <4> QED BY <4>1, <4>2
    <3>2. CASE GuessCode(c)
      <4> DEFINE row == [c EXCEPT !.guesses = next]
      <4>1. challenge' = (challenge \ {c}) \cup {row}
        BY <3>2 DEF GuessCode, ChallengeBecomes
      <4>2. next \in 0 .. MaxGuesses
        BY <2>1, <3>2 DEF ChallengeRow, GuessCode, CodeCounts
      <4>3. row \in ChallengeRow /\ row.voided = c.voided /\ row.since = c.since
        <5> HIDE DEF next
        <5> QED BY <2>1, <4>2 DEF ChallengeRow
      <4> QED BY <4>1, <4>3
    <3>3. CASE ConsumeCode(c) \/ ResetNothing(c)
      <4> DEFINE row == [c EXCEPT !.consumed = TRUE, !.guesses = next]
      <4>1. challenge' = (challenge \ {c}) \cup {row}
        BY <3>3 DEF ConsumeCode, ResetNothing, ChallengeBecomes
      <4>2. next \in 0 .. MaxGuesses
        BY <2>1, <3>3 DEF ChallengeRow, ConsumeCode, ResetNothing, CodeCounts
      <4>3. row \in ChallengeRow /\ row.voided = c.voided /\ row.since = c.since
        <5> HIDE DEF next
        <5> QED BY <2>1, <4>2 DEF ChallengeRow
      <4> QED BY <4>1, <4>3
    <3> QED BY <1>2, <3>1, <3>2, <3>3
  <2>3. /\ UNCHANGED <<session, password, login, trading, resets>>
        /\ proved' \subseteq proved \cup {c.id}
    BY <1>2 DEF CodeIsOver, GuessCode, ConsumeCode, ResetNothing
  <2>4. c.id \in Challenges
    BY <2>1 DEF ChallengeRow
  <2> QED BY <2>2, <2>3, <2>4 DEF AccountInv, AccountTypeOK, SessionsFollowResets
<1>3. ASSUME NEW since, since = resets, Opens(since)
      PROVE  /\ session' \subseteq SessionRow
             /\ \A s \in session' : s.since = resets
  BY <1>3 DEF AccountInv, AccountTypeOK, SessionRow, Opens, SessionsFollowResets
<1>4. ASSUME NEW c \in challenge, SaveSession(c) \/ LoseProof(c)
      PROVE  AccountInv'
  <2>1. /\ UNCHANGED <<challenge, password, login, trading, resets>>
        /\ proved' \subseteq proved
        /\ session' \subseteq SessionRow /\ \A s \in session' : s.since = resets
    BY <1>3, <1>4 DEF AccountInv, AccountTypeOK, SaveSession, LoseProof, SessionsFollowResets
  <2> QED BY <2>1 DEF AccountInv, AccountTypeOK, SessionsFollowResets
<1>5. ASSUME NEW c \in challenge, Reset(c)
      PROVE  AccountInv'
  <2>1. /\ resets' = resets + 1 /\ password' = resets + 1 /\ session' = {}
        /\ login = 0 /\ UNCHANGED <<proved, login, trading>>
    BY <1>5 DEF Reset, LoggingIn
  <2>2. \A d \in challenge : LET row == [d EXCEPT !.voided = TRUE, !.consumed = TRUE] IN
          row \in ChallengeRow /\ row.voided
    BY DEF AccountInv, AccountTypeOK, ChallengeRow
  <2>3. challenge' \subseteq ChallengeRow /\ \A d \in challenge' : d.voided
    BY <1>5, <2>2 DEF Reset
  <2> QED BY <2>1, <2>3 DEF AccountInv, AccountTypeOK, SessionsFollowResets
<1>6. CASE BeginLogin \/ EndLogin \/ FailLogin \/ Enroll
  <2>1. CASE EndLogin
    BY <1>3, <2>1 DEF AccountInv, AccountTypeOK, EndLogin, LoggingIn, SessionsFollowResets
  <2>2. CASE BeginLogin \/ FailLogin \/ Enroll
    BY <2>2 DEF AccountInv, AccountTypeOK, BeginLogin, FailLogin, Enroll, LoggingIn, SessionsFollowResets
  <2> QED BY <1>6, <2>1, <2>2
<1>7. CASE (\E s \in session : EndSession(s)) \/ EndAllSessions \/ SwitchSeller
  BY <1>7 DEF AccountInv, AccountTypeOK, EndSession, EndAllSessions, SwitchSeller, SessionsFollowResets
<1> QED BY <1>1, <1>2, <1>4, <1>5, <1>6, <1>7 DEF AccountNext

\* No login, verification or enrolment that was under way when the password was reset
\* leaves a session behind.
THEOREM SessionsAreCurrent == WorkSpec => []SessionsFollowResets
<1>1. WorkInit => AccountInv
  BY DEF WorkInit, AccountInit, AccountInv, AccountTypeOK, SessionsFollowResets
<1>2. AccountInv /\ [WorkNext]_<<vars, otherVars>> => AccountInv'
  <2> SUFFICES ASSUME AccountInv, [WorkNext]_<<vars, otherVars>> PROVE AccountInv'
    OBVIOUS
  <2>1. CASE AccountNext
    BY <2>1, AccountStep
  <2>2. CASE UNCHANGED accountVars
    BY <2>2 DEF accountVars, AccountInv, AccountTypeOK, SessionsFollowResets
  <2> QED BY <2>1, <2>2 DEF WorkNext, otherVars
<1>3. AccountInv => SessionsFollowResets
  BY DEF AccountInv
<1> QED BY <1>1, <1>2, <1>3, PTL DEF WorkSpec

-----------------------------------------------------------------------------
(* Second factors. *)

\* A voucher of a confirmation that has read and not committed: its row and its
\* factor are the ones it approved with.
StillVouches(v) ==
  /\ v.who \in active /\ v.who \notin confirming
  /\ Stands(v.who, v.by)
  /\ factor[v.who] = v.generation

FactorInv ==
  /\ factor \in [People -> Nat] /\ confirming \subseteq People
  /\ authorized \subseteq People \X {"ROLE", "ANY"}
  /\ enrolling \subseteq People \X {"ROLE", "ANY", "ENDED"}
  \* an enrolment is a person's only one, and the person has no factor
  /\ \A x \in enrolling : factor[x[1]] = 0 /\ \A y \in enrolling : x[1] = y[1] => x = y
  /\ \A x \in proof : x.who \in People /\ x.by \in Basis /\ x.generation \in Nat \ {0}
  /\ replacing \subseteq ReplacingRow
  /\ \A r \in replacing :
       /\ \A s \in replacing : r.who = s.who => r = s
       /\ \A v \in r.approvals : v.generation # 0
       /\ r.who \in confirming =>
            /\ r.status = "ENROLLING"
            /\ Cardinality({v.who : v \in r.approvals}) = 2
            /\ \A v \in r.approvals : v.who # r.who /\ StillVouches(v)

\* Two of a set of two.
LEMMA TwoOfTwo ==
  ASSUME NEW S, Cardinality(S) = 2
  PROVE  \E a, b \in S : a # b
<1>1. S # {}
  <2>1. Cardinality({}) = 0
    BY FS_EmptySet
  <2> QED BY <2>1
<1>2. PICK a \in S : TRUE
  BY <1>1
<1>3. S # {a}
  <2>1. Cardinality({a}) = 1
    BY FS_Singleton
  <2> QED BY <2>1
<1> QED BY <1>2, <1>3

\* What the confirmation of a recovery rests on is what FactorsAreVouchedFor asks for.
LEMMA ConfirmedIsVouched ==
  ASSUME FactorInv, NEW r \in replacing, r.who \in confirming
  PROVE  VouchedByTwo(r.who)
<1> DEFINE S == {v.who : v \in r.approvals}
<1>1. Cardinality(S) = 2
  BY DEF FactorInv
<1>2. \E p, q \in S : p # q
  <2> HIDE DEF S
  <2> QED BY <1>1, TwoOfTwo
<1>3. PICK a, b \in r.approvals : a.who # b.who
  BY <1>2
<1>4. \A v \in {a, b} : /\ v.who # r.who /\ v.who \in active
                        /\ Stands(v.who, v.by) /\ factor[v.who] = v.generation
  BY DEF FactorInv, StillVouches
<1> QED BY <1>3, <1>4 DEF VouchedByTwo

LEMMA FactorInitInv == FactorInit => FactorInv
BY DEF FactorInit, FactorInv

\* First enrolments move: what is authorized and what is being enrolled may shrink,
\* or grow by one of a person who has no factor and no other.
LEMMA EnrolmentStep ==
  ASSUME FactorInv, UNCHANGED vars,
         \/ \E p \in People : \E by \in {"ROLE", "ANY"} : Authorize(p, by)
         \/ \E x \in authorized : Begin(x[1], x[2]) \/ AuthorizationIsOver(x)
         \/ \E x \in enrolling : EnrolmentIsOver(x)
  PROVE  FactorInv' /\ UNCHANGED factor
<1>1. /\ UNCHANGED <<factor, proof, replacing, confirming>>
      /\ UNCHANGED <<active, superadmin, permission>>
  BY DEF Authorize, Begin, AuthorizationIsOver, EnrolmentIsOver, vars
<1>2. authorized' \subseteq People \X {"ROLE", "ANY"}
  <2>1. ASSUME NEW p \in People, NEW by \in {"ROLE", "ANY"}, Authorize(p, by)
        PROVE  authorized' \subseteq People \X {"ROLE", "ANY"}
    BY <2>1 DEF FactorInv, Authorize
  <2>2. CASE authorized' \subseteq authorized
    BY <2>2 DEF FactorInv
  <2> QED BY <2>1, <2>2 DEF Begin, AuthorizationIsOver, EnrolmentIsOver
<1>3. /\ enrolling' \subseteq People \X {"ROLE", "ANY", "ENDED"}
      /\ \A x \in enrolling' : factor[x[1]] = 0 /\ \A y \in enrolling' : x[1] = y[1] => x = y
  <2>1. ASSUME NEW x \in authorized, Begin(x[1], x[2])
        PROVE  /\ enrolling' \subseteq People \X {"ROLE", "ANY", "ENDED"}
               /\ \A y \in enrolling' :
                    factor[y[1]] = 0 /\ \A z \in enrolling' : y[1] = z[1] => y = z
    <3>1. x \in People \X {"ROLE", "ANY"} /\ x = <<x[1], x[2]>>
      BY DEF FactorInv
    <3>2. /\ factor[x[1]] = 0 /\ \A y \in enrolling : y[1] # x[1]
          /\ enrolling' = enrolling \cup {x}
      BY <2>1, <3>1 DEF Begin, Has
    <3> QED BY <3>1, <3>2 DEF FactorInv
  <2>2. CASE enrolling' \subseteq enrolling
    BY <2>2 DEF FactorInv
  <2> QED BY <2>1, <2>2 DEF Authorize, AuthorizationIsOver, EnrolmentIsOver
<1>4. \A v : StillVouches(v)' <=> StillVouches(v)
  BY <1>1 DEF StillVouches, Stands
<1> QED BY <1>1, <1>2, <1>3, <1>4 DEF FactorInv

\* A first factor is written: its owner confirms nothing and vouches for nobody.
LEMMA ConfirmStep ==
  ASSUME FactorInv, UNCHANGED vars, NEW x \in enrolling, Confirm(x[1], x[2])
  PROVE  /\ FactorInv'
         /\ Enrolled(x[1]) /\ \A p \in People : factor'[p] # factor[p] => p = x[1]
<1>1. x[1] \in People /\ x[2] \in {"ROLE", "ANY"} /\ x = <<x[1], x[2]>>
      /\ factor[x[1]] = 0 /\ x[1] \notin confirming
  BY DEF FactorInv, Confirm, Staff
<1>2. /\ enrolling' = enrolling \ {x} /\ factor' = [factor EXCEPT ![x[1]] = 1]
      /\ UNCHANGED <<authorized, proof, replacing, confirming>>
      /\ UNCHANGED <<active, superadmin, permission>>
  BY <1>1 DEF Confirm, vars
<1>3. /\ factor' \in [People -> Nat] /\ \A p \in People \ {x[1]} : factor'[p] = factor[p]
  BY <1>1, <1>2 DEF FactorInv
<1>4. \A y \in enrolling' : factor'[y[1]] = 0
  BY <1>1, <1>2, <1>3 DEF FactorInv
<1>5. ASSUME NEW r \in replacing, r.who \in confirming, NEW v \in r.approvals
      PROVE  StillVouches(v)'
  <2>1. v.who \in People /\ v.generation # 0 /\ StillVouches(v)
    BY <1>5 DEF FactorInv, ReplacingRow, Approval
  <2>2. v.who # x[1]
    BY <1>1, <2>1 DEF StillVouches
  <2> QED BY <1>2, <1>3, <2>1, <2>2 DEF StillVouches, Stands
<1>6. Enrolled(x[1])
  BY <1>1 DEF Enrolled
<1> QED BY <1>2, <1>3, <1>4, <1>5, <1>6 DEF FactorInv

\* A recovery becomes another one of the same person, whose confirmation has not read.
LEMMA RecoveryBecomes ==
  ASSUME FactorInv, UNCHANGED vars, NEW r \in replacing, NEW row \in ReplacingRow,
         r.who \notin confirming, row.who = r.who,
         \A v \in row.approvals : v.generation # 0,
         replacing' = (replacing \ {r}) \cup {row}, proof' \subseteq proof,
         UNCHANGED <<authorized, enrolling, factor, confirming>>
  PROVE  FactorInv'
<1>1. UNCHANGED <<active, superadmin, permission>>
  BY DEF vars
<1>2. \A v : StillVouches(v)' <=> StillVouches(v)
  BY <1>1 DEF StillVouches, Stands
<1>3. \A s \in replacing' : \/ s = row
                            \/ s \in replacing /\ s.who # r.who
  BY DEF FactorInv
<1>4. \A s, t \in replacing' : s.who = t.who => s = t
  BY <1>3 DEF FactorInv
<1> QED BY <1>2, <1>3, <1>4 DEF FactorInv

\* A recovery is asked for, proved for, agreed and begun: those whose confirmation has
\* read are not touched, and a voucher comes with the factor it proved itself with.
LEMMA RecoveryStep ==
  ASSUME FactorInv, UNCHANGED vars,
         \/ \E p \in People : RequestRecovery(p)
         \/ \E x \in proof : ProofIsOver(x)
         \/ \E r \in replacing :
              \/ \E a \in People : CreateProof(a, r)
              \/ \E x \in proof : ApproveRecovery(x, r)
              \/ BeginRecovery(r) \/ RecoveryEnrolmentIsOver(r)
  PROVE  FactorInv' /\ UNCHANGED factor
<1>1. UNCHANGED <<active, superadmin, permission>>
  BY DEF vars
<1>2. UNCHANGED <<authorized, enrolling, factor, confirming>>
  BY DEF RequestRecovery, ProofIsOver, CreateProof, ApproveRecovery, BeginRecovery,
         RecoveryEnrolmentIsOver
<1>3. \A v : StillVouches(v)' <=> StillVouches(v)
  BY <1>1, <1>2 DEF StillVouches, Stands
<1>4. ASSUME NEW p \in People, RequestRecovery(p)
      PROVE  FactorInv'
  <2> DEFINE row == [who |-> p, status |-> "PENDING", approvals |-> {}, enrolled |-> FALSE]
  <2>1. /\ p \notin confirming /\ \A r \in replacing : r.who # p
        /\ replacing' = replacing \cup {row} /\ UNCHANGED proof
    BY <1>4 DEF RequestRecovery, Staff
  <2>2. row \in ReplacingRow /\ row.who = p /\ row.approvals = {}
    BY DEF ReplacingRow
  <2> HIDE DEF row
  <2> QED BY <1>2, <1>3, <2>1, <2>2 DEF FactorInv
<1>5. ASSUME NEW a \in People, NEW r \in replacing, CreateProof(a, r)
      PROVE  FactorInv'
  <2> DEFINE x == [who |-> a, target |-> r.who, by |-> Authority(a), generation |-> factor[a]]
  <2>1. /\ proof' = proof \cup {x} /\ UNCHANGED replacing
        /\ Authority(a) # "NONE" /\ factor[a] # 0
    BY <1>5 DEF CreateProof
  <2>2. x.who = a /\ x.by \in Basis /\ x.generation \in Nat \ {0}
    BY <2>1 DEF Authority, Basis, FactorInv
  <2> HIDE DEF x
  <2> QED BY <1>2, <1>3, <2>1, <2>2 DEF FactorInv
<1>6. CASE \E x \in proof : ProofIsOver(x)
  BY <1>2, <1>3, <1>6 DEF FactorInv, ProofIsOver
<1>7. ASSUME NEW x \in proof, NEW r \in replacing, ApproveRecovery(x, r)
      PROVE  FactorInv'
  <2> DEFINE voucher == [who |-> x.who, by |-> x.by, generation |-> x.generation]
             approvals == r.approvals \cup {voucher}
             status == IF r.approvals = {} THEN "PENDING" ELSE "APPROVED"
             row == [r EXCEPT !.approvals = approvals, !.status = status]
  <2>1. /\ r.status = "PENDING" /\ proof' = proof \ {x}
        /\ replacing' = (replacing \ {r}) \cup {row}
    BY <1>7 DEF ApproveRecovery, ReplacingBecomes
  <2>2. r.who \notin confirming
    BY <2>1 DEF FactorInv
  <2>3. voucher \in Approval /\ voucher.generation # 0
    BY DEF FactorInv, Approval
  <2> HIDE DEF voucher
  <2>4. /\ r \in ReplacingRow /\ approvals \in SUBSET Approval
        /\ \A v \in approvals : v.generation # 0
    BY <2>3 DEF FactorInv, ReplacingRow
  <2> HIDE DEF approvals
  <2>5. row \in ReplacingRow /\ row.who = r.who /\ row.approvals = approvals
    BY <2>4 DEF ReplacingRow
  <2> HIDE DEF row
  <2>6. proof' \subseteq proof
    BY <2>1
  <2> QED BY <1>2, <2>1, <2>2, <2>4, <2>5, <2>6, RecoveryBecomes
<1>8. ASSUME NEW r \in replacing, BeginRecovery(r) \/ RecoveryEnrolmentIsOver(r)
      PROVE  FactorInv'
  <2>1. /\ r \in ReplacingRow
        /\ \A v \in r.approvals : v.generation # 0
    BY DEF FactorInv
  <2>2. PICK row \in ReplacingRow :
          /\ row.who = r.who /\ row.approvals = r.approvals
          /\ replacing' = (replacing \ {r}) \cup {row}
    BY <1>8, <2>1 DEF BeginRecovery, RecoveryEnrolmentIsOver, ReplacingBecomes, ReplacingRow
  <2>3. r.who \notin confirming /\ UNCHANGED proof
    BY <1>8 DEF BeginRecovery, RecoveryEnrolmentIsOver, Staff
  <2> QED BY <1>2, <2>1, <2>2, <2>3, RecoveryBecomes
<1> QED BY <1>2, <1>4, <1>5, <1>6, <1>7, <1>8

\* A confirmation reads: its vouchers' factors are fixed from here on, and nobody of
\* them is confirming, nor does any other confirmation count on the one who is.
LEMMA CheckStep ==
  ASSUME FactorInv, UNCHANGED vars, NEW r \in replacing, CheckRecovery(r)
  PROVE  FactorInv' /\ UNCHANGED factor
<1>1. /\ r.status = "ENROLLING" /\ r.who \notin SharedFactors
      /\ Cardinality({v.who : v \in r.approvals}) = 2
      /\ \A v \in r.approvals : v.who # r.who /\ Valid(v)
      /\ confirming' = confirming \cup {r.who}
      /\ UNCHANGED <<authorized, enrolling, factor, proof, replacing>>
      /\ UNCHANGED <<active, superadmin, permission>>
  BY DEF CheckRecovery, Vouched, vars
<1>2. r.who \in People
  BY DEF FactorInv, ReplacingRow
<1>3. ASSUME NEW v \in r.approvals
      PROVE  StillVouches(v)'
  <2>1. v.by \in Basis /\ v.by = Authority(v.who)
    BY <1>1 DEF FactorInv, ReplacingRow, Approval, Valid
  <2>2. Stands(v.who, v.by)
    BY <2>1 DEF Authority, Stands, Basis
  <2> QED BY <1>1, <2>2 DEF StillVouches, Stands, Valid
<1>4. ASSUME NEW s \in replacing, s.who \in confirming, NEW v \in s.approvals
      PROVE  StillVouches(v)'
  <2>1. StillVouches(v)
    BY <1>4 DEF FactorInv
  <2>2. v \in Vouchers
    BY <1>4 DEF Vouchers
  <2>3. v.who # r.who
    BY <1>1, <2>2 DEF SharedFactors
  <2> QED BY <1>1, <2>1, <2>3 DEF StillVouches, Stands
<1>5. \A s \in replacing : s.who = r.who => s = r
  BY DEF FactorInv
<1> QED BY <1>1, <1>2, <1>3, <1>4, <1>5 DEF FactorInv

\* A confirmation commits, or another end is put to a recovery: nobody counts on the
\* factor that changes.
LEMMA EndStep ==
  ASSUME FactorInv, UNCHANGED vars, NEW r \in replacing,
         CommitRecovery(r) \/ GiveRecoveryUp(r) \/ RecoveryIsOver(r)
  PROVE  /\ FactorInv'
         /\ \A p \in People : factor'[p] # factor[p] => p = r.who /\ p \in confirming
<1>1. /\ r.who \in People
      /\ \A s \in replacing : s.who = r.who => s = r
  BY DEF FactorInv, ReplacingRow
<1>2. /\ confirming' \subseteq confirming /\ replacing' \subseteq replacing
      /\ enrolling' \subseteq enrolling /\ proof' \subseteq proof /\ UNCHANGED authorized
      /\ UNCHANGED <<active, superadmin, permission>>
  BY DEF CommitRecovery, GiveRecoveryUp, RecoveryIsOver, vars
<1>3. /\ factor' \in [People -> Nat]
      /\ \A p \in People : factor'[p] # factor[p] =>
           /\ p = r.who /\ p \in confirming /\ p \notin confirming' /\ r \notin replacing'
           /\ \A x \in enrolling' : x[1] # p
  <2>1. CASE CommitRecovery(r)
    BY <1>1, <2>1 DEF FactorInv, CommitRecovery
  <2>2. CASE GiveRecoveryUp(r) \/ RecoveryIsOver(r)
    BY <2>2 DEF FactorInv, GiveRecoveryUp, RecoveryIsOver
  <2> QED BY <2>1, <2>2
<1>4. ASSUME NEW s \in replacing', s.who \in confirming', NEW v \in s.approvals
      PROVE  StillVouches(v)'
  <2>1. s \in replacing /\ s.who \in confirming
    BY <1>2, <1>4
  <2>2. StillVouches(v) /\ v.who \in People
    BY <2>1 DEF FactorInv, ReplacingRow, Approval
  <2>3. factor'[v.who] = factor[v.who]
    BY <1>3, <2>2 DEF StillVouches
  <2> QED BY <1>2, <2>2, <2>3 DEF StillVouches, Stands
<1>5. \A x \in enrolling' : factor'[x[1]] = 0
  <2> TAKE x \in enrolling'
  <2>1. x \in enrolling /\ x[1] \in People /\ factor[x[1]] = 0
    BY <1>2 DEF FactorInv
  <2> QED BY <1>3, <2>1
<1> QED BY <1>2, <1>3, <1>4, <1>5 DEF FactorInv

\* Roles and duties move under the locks of what has read them.
LEMMA RolesMoveBeside ==
  ASSUME FactorInv, RowsAreHeld, RowsEnd
  PROVE  FactorInv' /\ UNCHANGED factor
<1>1. /\ authorized' \subseteq authorized /\ proof' \subseteq proof
      /\ UNCHANGED <<factor, confirming>>
  BY DEF RowsEnd
<1> DEFINE now(v) == [v EXCEPT !.by = Ends(v.who, v.by)]
           kept(r) == {now(v) : v \in r.approvals}
           row(r) == [r EXCEPT !.approvals = kept(r)]
<1>2. replacing' = {row(r) : r \in replacing}
  BY DEF RowsEnd
<1>3. ASSUME NEW v \in Approval
      PROVE  /\ now(v) \in Approval /\ now(v).who = v.who /\ now(v).generation = v.generation
             /\ Stands(v.who, v.by)' => now(v) = v
  BY DEF Approval, Ends, Basis
<1>4. ASSUME NEW r \in replacing
      PROVE  /\ row(r) \in ReplacingRow /\ row(r).who = r.who /\ row(r).status = r.status
             /\ row(r).approvals = kept(r)
             /\ \A w \in kept(r) : w.generation # 0
             /\ r.who \in confirming => kept(r) = r.approvals
  <2>1. /\ r \in ReplacingRow /\ r.approvals \subseteq Approval
        /\ \A v \in r.approvals : v.generation # 0
    BY DEF FactorInv, ReplacingRow
  <2> HIDE DEF now
  <2>2. kept(r) \in SUBSET Approval /\ \A w \in kept(r) : w.generation # 0
    BY <1>3, <2>1
  <2>3. ASSUME r.who \in confirming
        PROVE  kept(r) = r.approvals
    <3>1. \A v \in r.approvals : v \in Approval /\ Stands(v.who, v.by)'
      BY <2>1, <2>3 DEF RowsAreHeld, Vouchers
    <3> QED BY <1>3, <3>1
  <2> HIDE DEF kept
  <2>4. row(r) \in ReplacingRow /\ row(r).who = r.who /\ row(r).status = r.status
        /\ row(r).approvals = kept(r)
    BY <2>1, <2>2 DEF ReplacingRow
  <2> QED BY <2>2, <2>3, <2>4
<1> HIDE DEF row, kept
<1>5. \A s \in replacing' : \E r \in replacing :
        /\ s = row(r) /\ s \in ReplacingRow /\ s.who = r.who /\ s.status = r.status
        /\ \A w \in s.approvals : w.generation # 0
        /\ r.who \in confirming => s.approvals = r.approvals
  BY <1>2, <1>4
<1>6. ASSUME NEW s \in replacing', NEW t \in replacing', s.who = t.who
      PROVE  s = t
  <2>1. PICK q, r \in replacing : s = row(q) /\ s.who = q.who /\ t = row(r) /\ t.who = r.who
    BY <1>5
  <2>2. q = r
    BY <1>6, <2>1 DEF FactorInv
  <2> QED BY <2>1, <2>2
<1>7. ASSUME NEW s \in replacing', s.who \in confirming'
      PROVE  /\ s.status = "ENROLLING"
             /\ Cardinality({v.who : v \in s.approvals}) = 2
             /\ \A v \in s.approvals : v.who # s.who /\ StillVouches(v)'
  <2>1. PICK r \in replacing : /\ s.who = r.who /\ s.status = r.status
                               /\ s.approvals = r.approvals /\ r.who \in confirming
    BY <1>1, <1>5, <1>7
  <2>2. \A v \in r.approvals : v \in Vouchers
    BY <2>1 DEF Vouchers
  <2>3. \A v \in r.approvals : v.who \in active' /\ Stands(v.who, v.by)'
    BY <2>2 DEF RowsAreHeld
  <2>4. \A v \in r.approvals : StillVouches(v)'
    BY <1>1, <2>1, <2>3 DEF FactorInv, StillVouches
  <2> QED BY <2>1, <2>4 DEF FactorInv
<1>8. /\ enrolling' \subseteq People \X {"ROLE", "ANY", "ENDED"}
      /\ \A x \in enrolling' : factor[x[1]] = 0 /\ \A y \in enrolling' : x[1] = y[1] => x = y
  <2>1. \A x \in enrolling' : \E y \in enrolling : x = <<y[1], Ends(y[1], y[2])>>
    BY DEF RowsEnd
  <2>2. \A y \in enrolling : y[1] \in People /\ Ends(y[1], y[2]) \in {"ROLE", "ANY", "ENDED"}
    BY DEF FactorInv, Ends
  <2> QED BY <2>1, <2>2 DEF FactorInv
<1> QED BY <1>1, <1>5, <1>6, <1>7, <1>8 DEF FactorInv

\* What a step of any of the four does to the factors.
LEMMA FactorStep ==
  ASSUME FactorInv, [WorkNext]_<<vars, otherVars>>
  PROVE  /\ FactorInv'
         /\ \A p \in People : factor'[p] # factor[p] => Enrolled(p) \/ VouchedByTwo(p)
<1>1. CASE FactorNext /\ UNCHANGED vars
  <2>1. ASSUME NEW x \in enrolling, Confirm(x[1], x[2])
        PROVE  /\ FactorInv'
               /\ \A p \in People : factor'[p] # factor[p] => Enrolled(p) \/ VouchedByTwo(p)
    BY <1>1, <2>1, ConfirmStep
  <2>2. ASSUME NEW r \in replacing, CommitRecovery(r) \/ GiveRecoveryUp(r) \/ RecoveryIsOver(r)
        PROVE  /\ FactorInv'
               /\ \A p \in People : factor'[p] # factor[p] => Enrolled(p) \/ VouchedByTwo(p)
    BY <1>1, <2>2, EndStep, ConfirmedIsVouched
  <2>3. ASSUME NEW r \in replacing, CheckRecovery(r)
        PROVE  FactorInv' /\ UNCHANGED factor
    BY <1>1, <2>3, CheckStep
  <2>4. CASE \/ \E p \in People : \E by \in {"ROLE", "ANY"} : Authorize(p, by)
             \/ \E x \in authorized : Begin(x[1], x[2]) \/ AuthorizationIsOver(x)
             \/ \E x \in enrolling : EnrolmentIsOver(x)
    BY <1>1, <2>4, EnrolmentStep
  <2>5. CASE \/ \E p \in People : RequestRecovery(p)
             \/ \E x \in proof : ProofIsOver(x)
             \/ \E r \in replacing :
                  \/ \E a \in People : CreateProof(a, r)
                  \/ \E x \in proof : ApproveRecovery(x, r)
                  \/ BeginRecovery(r) \/ RecoveryEnrolmentIsOver(r)
    BY <1>1, <2>5, RecoveryStep
  <2> QED BY <1>1, <2>1, <2>2, <2>3, <2>4, <2>5 DEF FactorNext
<1>2. CASE Next /\ RowsAreHeld /\ RowsEnd
  BY <1>2, RolesMoveBeside
<1>3. CASE UNCHANGED <<vars, factorVars>>
  <2>1. UNCHANGED factorVars /\ UNCHANGED <<active, superadmin, permission>>
    BY <1>3 DEF vars
  <2>2. \A v : StillVouches(v)' <=> StillVouches(v)
    BY <2>1 DEF StillVouches, Stands, factorVars
  <2> QED BY <2>1, <2>2 DEF factorVars, FactorInv
<1> QED BY <1>1, <1>2, <1>3 DEF WorkNext, otherVars

\* Nobody gets a second factor by himself: whatever roles are lost meanwhile, it takes
\* the operators' authorization or two others who still stand for it.
THEOREM FactorsVouched == WorkSpec => FactorsAreVouchedFor
<1>1. WorkInit => FactorInv
  BY FactorInitInv DEF WorkInit
<1>2. FactorInv /\ [WorkNext]_<<vars, otherVars>> => FactorInv'
  BY FactorStep
<1>3. FactorInv /\ [WorkNext]_<<vars, otherVars>> =>
        [\A p \in People : factor'[p] # factor[p] => Enrolled(p) \/ VouchedByTwo(p)]_factorVars
  BY FactorStep
<1> QED BY <1>1, <1>2, <1>3, PTL DEF WorkSpec, FactorsAreVouchedFor
=============================================================================
