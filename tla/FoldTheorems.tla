---------------------------- MODULE FoldTheorems ----------------------------
(***************************************************************************)
(* Facts about the folds of the community modules over finite sets.        *)
(*                                                                         *)
(* A fold is there a recursive function on the subsets of a set, which     *)
(* takes out one element at a time.  The facts are stated for functions in *)
(* place of the operators that a fold is given, and rest on a smallest     *)
(* counterexample where a textbook would use induction.                    *)
(***************************************************************************)
EXTENDS Integers, FiniteSets, FiniteSetTheorems, WellFoundedInduction, TLAPS

\* Among subsets of a finite set some contain no other of them.
LEMMA SmallestSubset ==
  ASSUME NEW S, IsFiniteSet(S), NEW T \in SUBSET SUBSET S, T # {}
  PROVE  \E x \in T : \A y \in T : y \subseteq x => y = x
<1> DEFINE R == StrictSubsetOrdering(S)
<1>1. IsWellFoundedOn(R, SUBSET S)
  BY FS_StrictSubsetOrderingWellFounded, FS_FiniteSubsetsOfFinite
<1>2. \E x \in T : \A y \in T : <<y, x>> \notin R
  <2> HIDE DEF R
  <2> QED BY <1>1, WFMin
<1> QED BY <1>2 DEF StrictSubsetOrdering

\* Function g folds S: pick says which element is taken out next, step[<<x, y>>] what
\* it makes of the result y for the others.
IsFold(g, S, base, pick, step) ==
  g = [s \in SUBSET S |->
         IF s = {} THEN base ELSE step[<<pick[s], g[s \ {pick[s]}]>>]]

Picks(pick, S) == \A s \in SUBSET S : s # {} => pick[s] \in s

\* What a fold gives for the empty set
LEMMA FoldEmpty ==
  ASSUME NEW S, NEW base, NEW pick, NEW step, NEW g, IsFold(g, S, base, pick, step)
  PROVE  g[{}] = base
BY DEF IsFold

\* and for any other.
LEMMA FoldUnfolds ==
  ASSUME NEW S, NEW base, NEW pick, NEW step, NEW g, IsFold(g, S, base, pick, step),
         NEW s \in SUBSET S, s # {}
  PROVE  g[s] = step[<<pick[s], g[s \ {pick[s]}]>>]
<1> DEFINE h == [t \in SUBSET S |->
                   IF t = {} THEN base ELSE step[<<pick[t], g[t \ {pick[t]}]>>]]
<1>1. h[s] = step[<<pick[s], g[s \ {pick[s]}]>>]
  OBVIOUS
<1>2. g = h
  BY DEF IsFold
<1> HIDE DEF h
<1> QED BY <1>1, <1>2

\* Two folds agree on the sets that both of them cover.
LEMMA FoldsAgree ==
  ASSUME NEW S, IsFiniteSet(S), NEW A, NEW B, S \subseteq A, S \subseteq B,
         NEW base, NEW pick, NEW step, Picks(pick, S),
         NEW g, IsFold(g, A, base, pick, step),
         NEW h, IsFold(h, B, base, pick, step)
  PROVE  g[S] = h[S]
<1> DEFINE T == {U \in SUBSET S : g[U] # h[U]}
<1>1. SUFFICES ASSUME T # {} PROVE FALSE
  OBVIOUS
<1>2. PICK U \in T : \A W \in T : W \subseteq U => W = U
  <2>1. T \in SUBSET SUBSET S
    OBVIOUS
  <2> HIDE DEF T
  <2> QED BY <1>1, <2>1, SmallestSubset
<1>3. U \in SUBSET A /\ U \in SUBSET B /\ U \in SUBSET S
  OBVIOUS
<1>4. U # {}
  BY <1>2, FoldEmpty
<1> DEFINE W == U \ {pick[U]}
<1>5. pick[U] \in U /\ W \in SUBSET S /\ W \subseteq U /\ W # U
  BY <1>3, <1>4 DEF Picks
<1>6. g[W] = h[W]
  BY <1>2, <1>5
<1>7. g[U] = step[<<pick[U], g[W]>>] /\ h[U] = step[<<pick[U], h[W]>>]
  <2> HIDE DEF T
  <2>1. g[U] = step[<<pick[U], g[U \ {pick[U]}]>>]
    BY <1>3, <1>4, FoldUnfolds
  <2>2. h[U] = step[<<pick[U], h[U \ {pick[U]}]>>]
    BY <1>3, <1>4, FoldUnfolds
  <2> QED BY <2>1, <2>2
<1> QED BY <1>2, <1>6, <1>7

\* Every finite set can be folded.
LEMMA FoldExists ==
  ASSUME NEW S, IsFiniteSet(S), NEW V, NEW base \in V,
         NEW pick, Picks(pick, S), NEW step \in [S \X V -> V]
  PROVE  \E g \in [SUBSET S -> V] : IsFold(g, S, base, pick, step)
<1> DEFINE Folded(U, g) == IsFold(g, U, base, pick, step)
           Foldable(U) == \E g \in [SUBSET U -> V] : Folded(U, g)
           T == {U \in SUBSET S : ~Foldable(U)}
<1>1. SUFFICES ASSUME T # {} PROVE FALSE
  OBVIOUS
<1>2. PICK U \in T : \A W \in T : W \subseteq U => W = U
  <2>1. T \in SUBSET SUBSET S
    <3> HIDE DEF Foldable
    <3> QED OBVIOUS
  <2> HIDE DEF T
  <2> QED BY <1>1, <2>1, SmallestSubset
<1> DEFINE G(W) == CHOOSE g \in [SUBSET W -> V] : Folded(W, g)
<1>3. ASSUME NEW W \in SUBSET U, W # U PROVE G(W) \in [SUBSET W -> V] /\ Folded(W, G(W))
  <2>1. Foldable(W)
    <3> HIDE DEF Foldable
    <3> QED BY <1>2, <1>3
  <2> QED BY <2>1
<1> DEFINE f == [W \in SUBSET U |-> IF W = U THEN base ELSE G(W)[W]]
           h == [s \in SUBSET U |-> IF s = {} THEN base ELSE step[<<pick[s], f[s \ {pick[s]}]>>]]
<1>4. ASSUME NEW W \in SUBSET U PROVE f[W] \in V
  <2> HIDE DEF G
  <2>1. W # U => G(W)[W] \in V
    BY <1>3
  <2> QED BY <2>1
<1>5. ASSUME NEW s \in SUBSET U, s # {}
      PROVE  pick[s] \in s /\ pick[s] \in S /\ s \ {pick[s]} \in SUBSET U /\ s \ {pick[s]} # U
  BY <1>5 DEF Picks
<1>6. h \in [SUBSET U -> V]
  <2> HIDE DEF f
  <2>1. ASSUME NEW s \in SUBSET U, s # {} PROVE step[<<pick[s], f[s \ {pick[s]}]>>] \in V
    <3>1. f[s \ {pick[s]}] \in V
      BY <1>4, <1>5, <2>1
    <3>2. <<pick[s], f[s \ {pick[s]}]>> \in S \X V
      BY <1>5, <2>1, <3>1
    <3> QED BY <3>2
  <2> QED BY <2>1
<1>7. ASSUME NEW W \in SUBSET U, W # U PROVE h[W] = G(W)[W]
  <2> DEFINE g == G(W)
  <2>1. IsFold(g, W, base, pick, step)
    BY <1>3, <1>7
  <2>2. CASE W = {}
    <3> HIDE DEF G
    <3>1. g[{}] = base
      BY <2>1, FoldEmpty
    <3> QED BY <2>2, <3>1
  <2>3. CASE W # {}
    <3> DEFINE X == W \ {pick[W]}
    <3>1. X \in SUBSET W /\ X \in SUBSET U /\ X # U /\ pick[W] \in W
      BY <1>5, <2>3
    <3>2. IsFold(G(X), X, base, pick, step)
      BY <1>3, <3>1
    <3>3. IsFiniteSet(X) /\ Picks(pick, X)
      <4>1. X \in SUBSET S
        OBVIOUS
      <4> QED BY <4>1, FS_Subset DEF Picks
    <3> HIDE DEF G, X
    <3>4. g[X] = G(X)[X]
      BY <2>1, <3>1, <3>2, <3>3, FoldsAgree
    <3>5. g[W] = step[<<pick[W], g[X]>>]
      <4> HIDE DEF g, T
      <4>1. W \in SUBSET W
        OBVIOUS
      <4>2. g[W] = step[<<pick[W], g[W \ {pick[W]}]>>]
        BY <2>1, <2>3, <4>1, FoldUnfolds
      <4> QED BY <4>2 DEF X
    <3>6. f[X] = G(X)[X]
      BY <3>1
    <3>7. h[W] = step[<<pick[W], f[X]>>]
      BY <2>3 DEF X
    <3> QED BY <3>4, <3>5, <3>6, <3>7
  <2> QED BY <2>2, <2>3
<1>8. Folded(U, h)
  <2> DEFINE hh == [s \in SUBSET U |-> IF s = {} THEN base ELSE step[<<pick[s], h[s \ {pick[s]}]>>]]
  <2>1. ASSUME NEW s \in SUBSET U, s # {} PROVE f[s \ {pick[s]}] = h[s \ {pick[s]}]
    <3> HIDE DEF G, h
    <3> QED BY <1>5, <1>7, <2>1
  <2>2. h = hh
    <3> HIDE DEF f
    <3>1. \A s \in SUBSET U : h[s] = hh[s]
      BY <2>1
    <3> QED BY <3>1
  <2> HIDE DEF h
  <2> QED BY <2>2 DEF IsFold
<1>9. Foldable(U)
  <2> HIDE DEF h
  <2> QED BY <1>6, <1>8
<1> QED
  <2> HIDE DEF Foldable
  <2> QED BY <1>9

\* What holds of the empty set and, with an element added, of the larger set.
Hereditary(J, S, pick) ==
  /\ {} \in J
  /\ \A s \in SUBSET S : s # {} /\ s \ {pick[s]} \in J => s \in J

\* It holds of every finite set.
LEMMA SetInduction ==
  ASSUME NEW S, IsFiniteSet(S), NEW pick, Picks(pick, S), NEW J, Hereditary(J, S, pick)
  PROVE  S \in J
<1> DEFINE T == {U \in SUBSET S : U \notin J}
<1>1. SUFFICES ASSUME T # {} PROVE FALSE
  OBVIOUS
<1>2. PICK U \in T : \A W \in T : W \subseteq U => W = U
  <2>1. T \in SUBSET SUBSET S
    OBVIOUS
  <2> HIDE DEF T
  <2> QED BY <1>1, <2>1, SmallestSubset
<1>3. U # {} /\ U \in SUBSET S
  BY DEF Hereditary
<1>4. pick[U] \in U
  BY <1>3 DEF Picks
<1>5. U \ {pick[U]} \in J
  BY <1>2, <1>3, <1>4
<1> QED BY <1>3, <1>5 DEF Hereditary

Largest(S) == [s \in SUBSET S |-> CHOOSE x \in s : \A y \in s : x >= y]

\* A finite set of numbers has a largest.
LEMMA LargestPicks ==
  ASSUME NEW S, IsFiniteSet(S), S \subseteq Int
  PROVE  /\ Picks(Largest(S), S)
         /\ \A s \in SUBSET S : s # {} => \A y \in s : Largest(S)[s] >= y
<1> DEFINE Above(s) == \E x \in s : \A y \in s : x >= y
           J == {s \in SUBSET S : s = {} \/ Above(s)}
           any == [s \in SUBSET S |-> CHOOSE x \in s : TRUE]
<1>1. ASSUME NEW R \in SUBSET S PROVE R = {} \/ Above(R)
  <2>1. IsFiniteSet(R) /\ Picks(any, R)
    BY FS_Subset DEF Picks
  <2>2. Hereditary(J, R, any)
    <3> SUFFICES ASSUME NEW s \in SUBSET R, s # {}, s \ {any[s]} \in J PROVE s \in J
      BY DEF Hereditary
    <3>1. PICK z : z = any[s]
      OBVIOUS
    <3>2. z \in s /\ z \in Int /\ s \in SUBSET S /\ s \ {z} \in J
      BY <3>1
    <3>3. CASE s \ {z} = {}
      <4>1. \A y \in s : z >= y
        BY <3>2, <3>3
      <4> QED BY <3>2, <4>1
    <3>4. CASE Above(s \ {z})
      <4>1. PICK x \in s \ {z} : \A y \in s \ {z} : x >= y
        BY <3>4
      <4>2. x \in Int
        BY <3>2, <4>1
      <4>3. CASE x >= z
        BY <3>2, <4>1, <4>3
      <4>4. CASE z >= x
        <5>1. \A y \in s : z >= y
          BY <3>2, <4>1, <4>2, <4>4
        <5> QED BY <3>2, <5>1
      <4> QED BY <3>2, <4>2, <4>3, <4>4
    <3> QED BY <3>2, <3>3, <3>4
  <2>3. R \in J
    <3> HIDE DEF J, any
    <3> QED BY <2>1, <2>2, SetInduction
  <2> QED BY <2>3
<1>2. \A s \in SUBSET S : s # {} =>
        Largest(S)[s] \in s /\ \A y \in s : Largest(S)[s] >= y
  BY <1>1 DEF Largest
<1> QED BY <1>2 DEF Picks

\* Function g adds up the weights of a set.
SumsUp(g, S, weight, pick) ==
  /\ g \in [SUBSET S -> Nat]
  /\ g[{}] = 0
  /\ \A s \in SUBSET S : s # {} => g[s] = weight[pick[s]] + g[s \ {pick[s]}]

\* Which element a sum takes out first makes no difference.
LEMMA SumTakesAny ==
  ASSUME NEW S, IsFiniteSet(S), NEW weight \in [S -> Nat],
         NEW pick, Picks(pick, S), NEW g, SumsUp(g, S, weight, pick),
         NEW y \in S
  PROVE  g[S] = weight[y] + g[S \ {y}]
<1> USE DEF SumsUp
<1> DEFINE T == {U \in SUBSET S : \E x \in U : g[U] # weight[x] + g[U \ {x}]}
<1>1. SUFFICES ASSUME T # {} PROVE FALSE
  OBVIOUS
<1>2. PICK U \in T : \A W \in T : W \subseteq U => W = U
  <2>1. T \in SUBSET SUBSET S
    OBVIOUS
  <2> HIDE DEF T
  <2> QED BY <1>1, <2>1, SmallestSubset
<1>3. PICK x \in U : g[U] # weight[x] + g[U \ {x}]
  OBVIOUS
<1>4. PICK p : p = pick[U]
  OBVIOUS
<1>5. p \in U /\ g[U] = weight[p] + g[U \ {p}]
  BY <1>3, <1>4 DEF Picks
<1>6. p # x
  BY <1>3, <1>5
<1> DEFINE W == U \ {p}
           Y == U \ {x}
           Z == U \ {p, x}
<1>7. /\ W \in SUBSET S /\ W \subseteq U /\ W # U /\ x \in W /\ W \ {x} = Z
      /\ Y \in SUBSET S /\ Y \subseteq U /\ Y # U /\ p \in Y /\ Y \ {p} = Z
      /\ Z \in SUBSET S
  BY <1>3, <1>5, <1>6
<1>8. W \notin T /\ Y \notin T
  <2> HIDE DEF T
  <2> QED BY <1>2, <1>7
<1>9. g[W] = weight[x] + g[Z] /\ g[Y] = weight[p] + g[Z]
  <2> HIDE DEF W, Y, Z
  <2> QED BY <1>7, <1>8
<1>10. weight[x] \in Nat /\ weight[p] \in Nat /\ g[Z] \in Nat
  BY <1>3, <1>5, <1>7
<1>11. g[U] = weight[p] + (weight[x] + g[Z]) /\ weight[x] + g[Y] = weight[x] + (weight[p] + g[Z])
  BY <1>5, <1>9
<1>12. g[U] = weight[x] + g[Y]
  BY <1>10, <1>11
<1> QED BY <1>3, <1>12
=============================================================================
