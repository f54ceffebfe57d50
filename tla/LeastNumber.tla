----------------------------- MODULE LeastNumber ----------------------------
(***************************************************************************)
(* Facts about natural numbers and about recursion that the proofs of the  *)
(* other modules rest on.  Induction is used in this form: a set of        *)
(* counterexamples that is not empty has a least element.                  *)
(***************************************************************************)
EXTENDS Integers, WellFoundedInduction, TLAPS

NatLess == {ss \in Nat \X Nat : ss[1] < ss[2]}

LEMMA NatLessWellFounded == IsWellFoundedOn(NatLess, Nat)
  BY NatLessThanWellFounded DEF OpToRel, NatLess

LEMMA LeastElement ==
    ASSUME NEW T, T \subseteq Nat, T # {}
    PROVE  \E m \in T : \A k \in T : m <= k
<1>1. PICK m \in T : \A k \in T : ~(<<k, m>> \in NatLess)
  BY WFMin, NatLessWellFounded
<1>2. \A k \in T : ~(k < m)
  BY <1>1 DEF NatLess
<1> QED BY <1>2

\* Induction over the numbers, for a set of them.
LEMMA Induction ==
    ASSUME NEW T, 0 \in T, \A n \in Nat : n \in T => n + 1 \in T
    PROVE  Nat \subseteq T
<1> DEFINE Bad == { n \in Nat : n \notin T }
<1> SUFFICES ASSUME Bad # {} PROVE FALSE
  OBVIOUS
<1>1. Bad \subseteq Nat
  OBVIOUS
<1>2. PICK m \in Bad : \A k \in Bad : m <= k
  BY <1>1, LeastElement
<1>3. m \in Nat /\ m # 0 /\ m - 1 \in Nat /\ ~(m <= m - 1) /\ (m - 1) + 1 = m
  BY <1>2
<1>4. m - 1 \in T
  BY <1>2, <1>3
<1> QED BY <1>2, <1>3, <1>4

\* The same, from all smaller numbers of the set R.
LEMMA StrongInduction ==
    ASSUME NEW R, R \subseteq Nat, NEW T,
           \A n \in R : (\A m \in R : m < n => m \in T) => n \in T
    PROVE  R \subseteq T
<1> DEFINE Bad == { n \in R : n \notin T }
<1> SUFFICES ASSUME Bad # {} PROVE FALSE
  OBVIOUS
<1>1. Bad \subseteq Nat
  OBVIOUS
<1>2. PICK m \in Bad : \A k \in Bad : m <= k
  BY <1>1, LeastElement
<1>3. \A k \in R : k < m => k \in T
  BY <1>1, <1>2
<1> QED BY <1>2, <1>3
\* Induction over any set whose elements have a rank.
LEMMA RankInduction ==
    ASSUME NEW S, NEW rank \in [S -> Nat], NEW T,
           \A x \in S : (\A y \in S : rank[y] < rank[x] => y \in T) => x \in T
    PROVE  S \subseteq T
<1> DEFINE U == { n \in Nat : \A x \in S : rank[x] = n => x \in T }
<1>1. ASSUME NEW n \in Nat, \A m \in Nat : m < n => m \in U
      PROVE  n \in U
  <2> SUFFICES ASSUME NEW x \in S, rank[x] = n PROVE x \in T
    OBVIOUS
  <2>1. \A y \in S : rank[y] < n => y \in T
    BY <1>1
  <2> QED BY <2>1
<1>2. Nat \subseteq U
  <2> HIDE DEF U
  <2> QED BY <1>1, StrongInduction
<1> QED BY <1>2

\* A definition by recursion on the set S: B[x][f] is the value at x in terms of
\* the function f, and looks at f only where the rank is smaller.
IsRecursion(S, V, rank, B) ==
    /\ V # {} /\ rank \in [S -> Nat] /\ B \in [S -> [[S -> V] -> V]]
    /\ \A x \in S : \A f, g \in [S -> V] :
           (\A y \in S : rank[y] < rank[x] => f[y] = g[y]) => B[x][f] = B[x][g]
HasSolution(S, V, B) == \E f \in [S -> V] : \A x \in S : f[x] = B[x][f]

\* The function it defines exists.
LEMMA RecursiveFunction ==
    ASSUME NEW S, NEW V, NEW rank, NEW B, IsRecursion(S, V, rank, B)
    PROVE  HasSolution(S, V, B)
<1>0. /\ V # {} /\ rank \in [S -> Nat] /\ B \in [S -> [[S -> V] -> V]]
      /\ \A x \in S : \A f, g \in [S -> V] :
             (\A y \in S : rank[y] < rank[x] => f[y] = g[y]) => B[x][f] = B[x][g]
  BY DEF IsRecursion
<1> USE <1>0
<1> DEFINE Solves(f, n) == \A x \in S : rank[x] < n => f[x] = B[x][f]
           T == { n \in Nat : \E f \in [S -> V] : Solves(f, n) }
<1>1. 0 \in T
  <2>1. PICK v \in V : TRUE
    OBVIOUS
  <2>2. [x \in S |-> v] \in [S -> V] /\ Solves([x \in S |-> v], 0)
    BY <2>1
  <2> HIDE DEF Solves
  <2> QED BY <2>2
<1>2. ASSUME NEW n \in Nat, n \in T
      PROVE  n + 1 \in T
  <2>1. PICK f \in [S -> V] : Solves(f, n)
    BY <1>2
  <2> DEFINE g == [x \in S |-> IF rank[x] < n THEN f[x] ELSE B[x][f]]
  <2>2. \A x \in S : B[x] \in [[S -> V] -> V] /\ B[x][f] \in V /\ f[x] \in V
    OBVIOUS
  <2>3. g \in [S -> V]
    BY <2>2
  <2>4. \A x \in S : g[x] = B[x][f] /\ (rank[x] < n => g[x] = f[x])
    BY <2>1
  <2> HIDE DEF g
  <2>5. ASSUME NEW x \in S, rank[x] < n + 1
        PROVE  g[x] = B[x][g]
    <3>1. \A y \in S : rank[y] < rank[x] => f[y] = g[y]
      BY <2>4, <2>5
    <3> QED BY <2>3, <2>4, <3>1
  <2> QED BY <2>3, <2>5
<1>3. Nat \subseteq T
  <2> HIDE DEF T
  <2> QED BY <1>1, <1>2, Induction
<1>4. \A n \in Nat : \E f \in [S -> V] : Solves(f, n)
  BY <1>3
<1> DEFINE Agree(f, g, n) == \A x \in S : rank[x] < n => f[x] = g[x]
<1>5. ASSUME NEW f \in [S -> V], NEW g \in [S -> V], NEW n \in Nat, NEW m \in Nat,
             n <= m, Solves(f, n), Solves(g, m)
      PROVE  Agree(f, g, n)
  <2> DEFINE U == { k \in Nat : \A x \in S :
                        rank[x] = k /\ k < n => f[x] = g[x] }
  <2>1. ASSUME NEW k \in Nat, \A j \in Nat : j < k => j \in U
        PROVE  k \in U
    <3> SUFFICES ASSUME NEW x \in S, rank[x] = k, k < n PROVE f[x] = g[x]
      OBVIOUS
    <3>1. \A y \in S : rank[y] < rank[x] => f[y] = g[y]
      BY <2>1
    <3>2. f[x] = B[x][f] /\ g[x] = B[x][g]
      BY <1>5
    <3> QED BY <3>1, <3>2
  <2>2. Nat \subseteq U
    <3> HIDE DEF U
    <3> QED BY <2>1, StrongInduction
  <2> QED BY <2>2
<1> DEFINE sol == [n \in Nat |-> CHOOSE f \in [S -> V] : Solves(f, n)]
<1>6. \A n \in Nat : sol[n] \in [S -> V] /\ Solves(sol[n], n)
  <2> HIDE DEF Solves
  <2> QED BY <1>4
<1> DEFINE whole == [x \in S |-> sol[rank[x] + 1][x]]
<1> HIDE DEF sol
<1>7. whole \in [S -> V] /\ \A x \in S : whole[x] = sol[rank[x] + 1][x]
  BY <1>6
<1> HIDE DEF whole
<1>8. ASSUME NEW x \in S
      PROVE  whole[x] = B[x][whole]
  <2>1. rank[x] \in Nat /\ rank[x] + 1 \in Nat /\ rank[x] < rank[x] + 1
    OBVIOUS
  <2>2. sol[rank[x] + 1][x] = B[x][sol[rank[x] + 1]]
    BY <1>6, <2>1
  <2>3. ASSUME NEW y \in S, rank[y] < rank[x]
        PROVE  sol[rank[x] + 1][y] = whole[y]
    <3>1. rank[y] \in Nat /\ rank[y] + 1 \in Nat /\ rank[y] < rank[y] + 1 /\ rank[y] < rank[x] + 1
      BY <2>1, <2>3
    <3> DEFINE p == sol[rank[y] + 1]
               q == sol[rank[x] + 1]
    <3>2. p \in [S -> V] /\ Solves(p, rank[y] + 1) /\ q \in [S -> V] /\ Solves(q, rank[x] + 1)
      BY <1>6, <2>1, <3>1
    <3>3. rank[y] + 1 <= rank[x] + 1
      BY <2>1, <3>1
    <3>4. Agree(p, q, rank[y] + 1)
      <4> HIDE DEF Solves, Agree, p, q
      <4> QED BY <1>5, <2>1, <3>1, <3>2, <3>3
    <3>5. p[y] = q[y]
      <4> HIDE DEF p, q
      <4> QED BY <3>1, <3>4
    <3> QED BY <1>7, <3>5
  <2>4. sol[rank[x] + 1] \in [S -> V]
    BY <1>6, <2>1
  <2> QED BY <1>7, <2>2, <2>3, <2>4
<1> QED BY <1>7, <1>8 DEF HasSolution
=============================================================================
