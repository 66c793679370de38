---------------------------- MODULE PlatformWork ----------------------------
(***************************************************************************)
(* The platform's people at work: access, seller applications, second      *)
(* factors, and beside them the public accounts they may log out.  The     *)
(* first three share who is active, who is superadmin and who holds which  *)
(* duty: a reviewer or an approver may gain or lose it between two steps,  *)
(* unless a running transaction has locked the row that says so.           *)
(***************************************************************************)
EXTENDS PlatformAccess, SellerApplications, StaffFactors, Accounts

otherVars == <<appVars, factorVars, accountVars>>

WorkInit == AccessInit /\ AppInit /\ FactorInit /\ AccountInit
WorkNext ==
  \/ Next /\ RowsAreHeld /\ RowsEnd /\ UNCHANGED <<appVars, accountVars>>
  \/ AppNext /\ UNCHANGED <<vars, factorVars, accountVars>>
  \/ FactorNext /\ UNCHANGED <<vars, appVars, accountVars>>
  \/ AccountNext /\ UNCHANGED <<vars, appVars, factorVars>>
WorkSpec == WorkInit /\ [][WorkNext]_<<vars, otherVars>>
=============================================================================
