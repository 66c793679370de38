---------------------------- MODULE StaffFactors ----------------------------
(***************************************************************************)
(* The second factors (TOTP) of platform staff: how one is first enrolled  *)
(* on an authorization of the operators, and how a lost one is replaced    *)
(* once two administrators have approved, each with a proof made by a code *)
(* of their own factor.                                                    *)
(*                                                                         *)
(* Every command is a transaction that first takes the advisory lock of    *)
(* the one who gives it, so one person's commands never overlap.  The      *)
(* confirmation of a recovery is in two steps, its checks and its commit:  *)
(* in between, other people's commands and the changes of AccessRoles run, *)
(* as far as the rows it read FOR SHARE let them.                          *)
(*                                                                         *)
(* A code is right or wrong; the counters of codes and of wrong ones are   *)
(* left out, and so are the five-minute sessions: losing one is losing the *)
(* proof or the enrolment made in it.                                      *)
(***************************************************************************)
EXTENDS AccessRoles

VARIABLES
  authorized,  \* unused rows of identity_totp_bootstrap_authorizations
  enrolling,   \* rows of identity_totp_factors that are PENDING
  factor,      \* the generation of a person's ACTIVE factor, 0 for none
  proof,       \* APPROVE_TOTP_RECOVERY rows of identity_totp_action_proofs, not consumed
  replacing,    \* open rows of identity_totp_recoveries, with their approvals
  confirming   \* whose confirmRecovery has read and not committed

factorVars == <<authorized, enrolling, factor, proof, replacing, confirming>>

\* What a row names to show why it may exist: the role, a permission row (for an
\* authorization ANY one), or a row that has ended and never comes back.
Basis == {"ROLE", "GRANT", "ANY", "ENDED"}
Approval == [who : People, by : Basis, generation : Nat]
ReplacingRow ==
  [who : People, status : {"PENDING", "APPROVED", "ENROLLING"},
   approvals : SUBSET Approval, enrolled : BOOLEAN]

\* Variables hold open rows; the factors are numbered.
FactorTypeOK ==
  /\ authorized \subseteq People \X Basis /\ enrolling \subseteq People \X Basis
  /\ factor \in [People -> Nat]
  /\ \A x \in proof : x \in [who : People, target : People, by : Basis, generation : Nat]
  /\ \A r \in replacing :
       /\ r.who \in People /\ r.status \in {"PENDING", "APPROVED", "ENROLLING"}
       /\ r.enrolled \in BOOLEAN /\ \A v \in r.approvals : v \in Approval
  /\ confirming \subseteq People

FactorInit ==
  /\ authorized = {} /\ enrolling = {}
  /\ factor = [p \in People |-> 0]
  /\ proof = {} /\ replacing = {} /\ confirming = {}

\* session: the one who gives a command is ACTIVE and holds some duty.
Staff(p) ==
  /\ p \in active /\ p \notin confirming
  /\ p \in superadmin \/ \E d \in Duties : <<p, d>> \in permission
Has(S, p) == \E x \in S : x[1] = p
\* lockTotpAuthority: a permission row is preferred to the role.
Authority(p) ==
  IF <<p, ADMIN>> \in permission THEN "GRANT"
  ELSE IF p \in superadmin THEN "ROLE" ELSE "NONE"
Stands(p, by) ==
  CASE by = "ROLE" -> p \in superadmin
    [] by = "GRANT" -> <<p, ADMIN>> \in permission
    [] by = "ANY" -> TRUE
    [] by = "ENDED" -> FALSE

\* The approvals running confirmations have read FOR SHARE.
Vouchers == UNION {r.approvals : r \in {s \in replacing : s.who \in confirming}}
SharedFactors == {v.who : v \in Vouchers}

\* First enrolment.

\* The operators' script, or identity_authorize_superadmin_totp.
Authorize(p, by) ==
  /\ p \in active
  /\ by = "ROLE" => p \in superadmin
  /\ by = "ANY" => <<p, ADMIN>> \in permission
  /\ factor[p] = 0 /\ ~Has(enrolling, p) /\ ~Has(authorized, p)
  /\ authorized' = authorized \cup {<<p, by>>}
  /\ UNCHANGED <<enrolling, factor, proof, replacing, confirming>>
Begin(p, by) ==
  /\ Staff(p)
  /\ <<p, by>> \in authorized
  /\ by = "ANY" => \E d \in Duties : <<p, d>> \in permission
  /\ factor[p] = 0 /\ ~Has(enrolling, p)
  /\ enrolling' = enrolling \cup {<<p, by>>}
  /\ authorized' = authorized \ {<<p, by>>}
  /\ UNCHANGED <<factor, proof, replacing, confirming>>
\* Mutation of Confirm: the role's generation is not looked at again.
ConfirmAnyGeneration(p, by) ==
  /\ Staff(p)
  /\ <<p, by>> \in enrolling
  /\ enrolling' = enrolling \ {<<p, by>>}
  /\ factor' = [factor EXCEPT ![p] = 1]
  /\ UNCHANGED <<authorized, proof, replacing, confirming>>
Confirm(p, by) ==
  /\ Staff(p)
  /\ <<p, by>> \in enrolling /\ by # "ENDED"
  /\ enrolling' = enrolling \ {<<p, by>>}
  /\ factor' = [factor EXCEPT ![p] = 1]
  /\ UNCHANGED <<authorized, proof, replacing, confirming>>
\* Their time is up, or the session of an enrolment ends; cleanupExpired.
AuthorizationIsOver(x) ==
  /\ authorized' = authorized \ {x}
  /\ UNCHANGED <<enrolling, factor, proof, replacing, confirming>>
EnrolmentIsOver(x) ==
  /\ x[1] \notin confirming
  /\ enrolling' = enrolling \ {x}
  /\ UNCHANGED <<authorized, factor, proof, replacing, confirming>>

\* Recovery.

ReplacingBecomes(r, row) == replacing' = (replacing \ {r}) \cup {row}

\* requestRecovery; a recovery of the same person that is over ends here, if not before.
RequestRecovery(p) ==
  /\ Staff(p)
  /\ \A r \in replacing : r.who # p
  /\ replacing' = replacing \cup
       {[who |-> p, status |-> "PENDING", approvals |-> {}, enrolled |-> FALSE]}
  /\ UNCHANGED <<authorized, enrolling, factor, proof, confirming>>
\* A proof for anything but an open recovery is never accepted.
CreateProof(a, r) ==
  /\ Staff(a) /\ Authority(a) # "NONE"
  /\ r.status = "PENDING" /\ r.who \in active
  /\ factor[a] # 0 /\ a \notin SharedFactors
  /\ proof' = proof \cup
       {[who |-> a, target |-> r.who, by |-> Authority(a), generation |-> factor[a]]}
  /\ UNCHANGED <<authorized, enrolling, factor, replacing, confirming>>
ProofIsOver(x) ==
  /\ proof' = proof \ {x}
  /\ UNCHANGED <<authorized, enrolling, factor, replacing, confirming>>

\* validTotpApproval; it waits for one whose factor is being replaced.
Valid(v) ==
  /\ v.who \in active /\ v.who \notin confirming
  /\ factor[v.who] = v.generation
  /\ v.by = Authority(v.who)
\* A prior approval that is valid no more keeps the recovery from going on.
ApproveRecovery(x, r) ==
  /\ Staff(x.who)
  /\ x.target = r.who /\ r.who # x.who
  /\ r.status = "PENDING"
  /\ x.by = Authority(x.who) /\ x.generation = factor[x.who]
  /\ \A v \in r.approvals : v.who # x.who /\ Valid(v)
  /\ ReplacingBecomes(r, [r EXCEPT
       !.approvals = @ \cup {[who |-> x.who, by |-> x.by, generation |-> x.generation]},
       !.status = IF r.approvals = {} THEN "PENDING" ELSE "APPROVED"])
  /\ proof' = proof \ {x}
  /\ UNCHANGED <<authorized, enrolling, factor, confirming>>

\* validRecoveryApprovals
Vouched(r) ==
  /\ Cardinality({v.who : v \in r.approvals}) = 2
  /\ \A v \in r.approvals : v.who # r.who /\ Valid(v)
\* Again and again, as long as it is not confirmed.
BeginRecovery(r) ==
  /\ Staff(r.who)
  /\ r.status \in {"APPROVED", "ENROLLING"}
  /\ Vouched(r)
  /\ ReplacingBecomes(r, [r EXCEPT !.status = "ENROLLING", !.enrolled = TRUE])
  /\ UNCHANGED <<authorized, enrolling, factor, proof, confirming>>
RecoveryEnrolmentIsOver(r) ==
  /\ r.enrolled /\ r.who \notin confirming
  /\ ReplacingBecomes(r, [r EXCEPT !.enrolled = FALSE])
  /\ UNCHANGED <<authorized, enrolling, factor, proof, confirming>>

\* confirmRecovery up to the comparison of the code.
CheckRecovery(r) ==
  /\ Staff(r.who)
  /\ r.status = "ENROLLING" /\ r.enrolled
  /\ Vouched(r)
  /\ r.who \notin SharedFactors
  /\ confirming' = confirming \cup {r.who}
  /\ UNCHANGED <<authorized, enrolling, factor, proof, replacing>>
\* The factor gets a new generation, and what the old one proved is spent.
CommitRecovery(r) ==
  /\ r.who \in confirming
  /\ factor' = [factor EXCEPT ![r.who] = @ + 1]
  /\ enrolling' = {x \in enrolling : x[1] # r.who}
  /\ proof' = {x \in proof : r.who \notin {x.who, x.target}}
  /\ replacing' = replacing \ {r}
  /\ confirming' = confirming \ {r.who}
  /\ UNCHANGED authorized
\* The code was wrong, the time ran out, or the process went down.
GiveRecoveryUp(r) ==
  /\ r.who \in confirming
  /\ confirming' = confirming \ {r.who}
  /\ UNCHANGED <<authorized, enrolling, factor, proof, replacing>>
RecoveryIsOver(r) ==
  /\ r.who \notin confirming
  /\ replacing' = replacing \ {r}
  /\ proof' = {x \in proof : x.target # r.who}
  /\ UNCHANGED <<authorized, enrolling, factor, confirming>>

FactorNext ==
  \/ \E p \in People :
       \/ \E by \in {"ROLE", "ANY"} : Authorize(p, by)
       \/ RequestRecovery(p)
  \/ \E x \in authorized : Begin(x[1], x[2]) \/ AuthorizationIsOver(x)
  \/ \E x \in enrolling : Confirm(x[1], x[2]) \/ EnrolmentIsOver(x)
  \/ \E x \in proof : ProofIsOver(x)
  \/ \E r \in replacing :
       \/ \E a \in People : CreateProof(a, r)
       \/ \E x \in proof : ApproveRecovery(x, r)
       \/ BeginRecovery(r) \/ RecoveryEnrolmentIsOver(r)
       \/ CheckRecovery(r) \/ CommitRecovery(r) \/ GiveRecoveryUp(r)
       \/ RecoveryIsOver(r)

\* While AccessRoles moves: no row a confirmation has read FOR SHARE changes, and
\* rows that named one that ends name it for ever.
RowsAreHeld ==
  /\ \A p \in confirming :
       /\ p \in active' /\ (p \in superadmin => p \in superadmin')
       /\ \A d \in Duties : <<p, d>> \in permission => <<p, d>> \in permission'
  /\ \A v \in Vouchers : v.who \in active' /\ Stands(v.who, v.by)'
Ends(p, by) == IF Stands(p, by)' THEN by ELSE "ENDED"
RowsEnd ==
  /\ authorized' = {x \in authorized : Stands(x[1], x[2])'}
  /\ enrolling' = {<<x[1], Ends(x[1], x[2])>> : x \in enrolling}
  /\ proof' = {x \in proof : Stands(x.who, x.by)'}
  /\ replacing' =
       {[r EXCEPT !.approvals = {[v EXCEPT !.by = Ends(v.who, v.by)] : v \in @}] :
          r \in replacing}
  /\ UNCHANGED <<factor, confirming>>

\* Whoever loses a role or is stopped while it is under way: a factor is written
\* only on the operators' authorization or while two other people vouch for it, each
\* ACTIVE, with the very row and the very factor they approved with.
Enrolled(p) ==
  /\ factor[p] = 0 /\ p \notin confirming
  /\ \E by \in {"ROLE", "ANY"} : <<p, by>> \in enrolling
VouchedByTwo(p) ==
  \E r \in replacing : \E a, b \in r.approvals :
    /\ r.who = p /\ p \notin {a.who, b.who} /\ a.who # b.who
    /\ \A v \in {a, b} :
         v.who \in active /\ Stands(v.who, v.by) /\ factor[v.who] = v.generation
FactorsAreVouchedFor ==
  [][\A p \in People : factor'[p] # factor[p] => Enrolled(p) \/ VouchedByTwo(p)]_factorVars
=============================================================================
