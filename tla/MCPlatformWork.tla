--------------------------- MODULE MCPlatformWork ---------------------------
(* Values of the constants of PlatformWork for TLC. *)
EXTENDS PlatformWork, TLC

Identical ==
  Permutations(People) \cup Permutations(Grants) \cup Permutations(Applications)
  \cup Permutations(Recoveries)

\* Second factors and applications never meet, nor do factors and grants but in who
\* holds a role or a duty, which the superadmins and the script change as well; the
\* accounts meet nobody.
RolesAtRest == superadmin = {} /\ permission = {} /\ outside = 0
GrantsAtRest == (\A g \in Grants : Free(g)) /\ oversight = {}
AppsAtRest == \A x \in Applications : application[x].status = "NONE"
FactorsAtRest == FactorInit
AccountsAtRest == AccountInit
OneMoves ==
  \/ /\ AccountsAtRest
     /\ \/ FactorsAtRest /\ Next /\ RowsAreHeld /\ RowsEnd
           /\ UNCHANGED <<appVars, accountVars>>
        \/ ~FactorsAtRest /\ RoleNext /\ RowsAreHeld /\ RowsEnd
           /\ UNCHANGED <<appVars, accountVars>>
        \/ FactorsAtRest /\ AppNext /\ UNCHANGED <<vars, factorVars, accountVars>>
        \/ GrantsAtRest /\ AppsAtRest /\ FactorNext
           /\ UNCHANGED <<vars, appVars, accountVars>>
  \/ /\ RolesAtRest /\ FactorsAtRest /\ GrantsAtRest /\ AppsAtRest
     /\ AccountNext /\ UNCHANGED <<vars, appVars, factorVars>>
OneMovesSpec == WorkInit /\ [][OneMoves]_<<vars, otherVars>>

\* Two superadmins at once only until the last grant is created, three only beside
\* factors, and one of them overseeing only until the first grant is: the locks of
\* oversight and those of grants never meet.
FewSuperadmins ==
  /\ Cardinality(superadmin) <= 2 \/ ~FactorsAtRest
  /\ Cardinality(superadmin) = 2 => \E g \in Grants : Free(g)
  /\ oversight # {} => Cardinality(oversight) = 1 /\ \A g \in Grants : Free(g)

\* A behaviour has grants or applications: the two only meet in who has a duty,
\* and the superadmins and the operations script change that as well.
Reviewing ==
  \/ \E p \in People : <<p, REVIEW>> \in permission
  \/ ~AppsAtRest
Separate ==
  /\ \A g \in Grants : grant[g].duty # REVIEW
  /\ Reviewing => /\ Cardinality(superadmin) <= 1 /\ oversight = {}
                 /\ permission \subseteq People \X {REVIEW}
                 /\ \A g \in Grants : Free(g)

\* One enrolment at a time; at most two factors being replaced, the second once all
\* are enrolled and with one proof open; every factor at most once.
FewFactors ==
  /\ ~FactorsAtRest => permission \subseteq People \X {ADMIN}
  /\ Cardinality(authorized) + Cardinality(enrolling) <= 1
  /\ Cardinality(replacing) + Cardinality(proof) <= 3
  /\ Cardinality(replacing) = 2 =>
       authorized = {} /\ enrolling = {} /\ Cardinality(proof) <= 1
  /\ \A p \in People : factor[p] <= 2

Bounded == FewSuperadmins /\ Separate /\ FewFactors
=============================================================================
