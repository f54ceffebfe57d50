---------------------------- MODULE LevelProofs -----------------------------
(***************************************************************************)
(* Theorems about universe levels (module Levels).                         *)
(*                                                                         *)
(* A level is a tree of bounded height.  Each recursive function of        *)
(* level.rs is first shown to exist and to satisfy its equation at every   *)
(* level; what it computes follows by induction over the tree.             *)
(***************************************************************************)
EXTENDS Levels, LeastNumber

-----------------------------------------------------------------------------
(* Levels as trees *)

\* The trees whose subtrees are in S.
Over(S) == Atoms \cup ({"succ"} \X S) \cup ({"max", "imax"} \X S \X S)

LEMMA HeightFacts ==
    /\ OfHeight[0] = Atoms
    /\ \A n \in Nat : OfHeight[n + 1] = Over(OfHeight[n])
<1> DEFINE Built(g, n) == IF n = 0 THEN Atoms
                          ELSE LET below == g[n - 1] IN
                               Atoms \cup ({"succ"} \X below) \cup ({"max", "imax"} \X below \X below)
           Solves(g, N) == \A n \in 0 .. N : g[n] = Built(g, n)
           T == { N \in Nat : \E g : Solves(g, N) }
<1>1. \A g, h : \A n \in Nat : (n # 0 => g[n - 1] = h[n - 1]) => Built(g, n) = Built(h, n)
  OBVIOUS
<1>2. 0 \in T
  <2>1. Built(<<>>, 0) = Atoms
    OBVIOUS
  <2>2. \A g : Built(g, 0) = Atoms
    OBVIOUS
  <2> HIDE DEF Built
  <2>3. Solves([n \in 0 .. 0 |-> Atoms], 0)
    BY <2>2
  <2> HIDE DEF Solves
  <2> QED BY <2>3
<1>3. ASSUME NEW N \in Nat, N \in T
      PROVE  N + 1 \in T
  <2> HIDE DEF Built
  <2>1. PICK h : Solves(h, N)
    BY <1>3
  <2> DEFINE g == [n \in 0 .. N + 1 |-> Built(h, n)]
  <2>2. \A n \in 0 .. N + 1 : g[n] = Built(h, n)
    OBVIOUS
  <2> HIDE DEF g
  <2>3. \A n \in 0 .. N : n \in 0 .. N + 1 /\ g[n] = h[n]
    BY <2>1, <2>2
  <2>4. \A n \in 0 .. N + 1 : n \in Nat /\ (n # 0 => n - 1 \in 0 .. N)
    OBVIOUS
  <2>5. \A n \in 0 .. N + 1 : Built(g, n) = Built(h, n)
    BY <1>1, <2>3, <2>4
  <2>6. Solves(g, N + 1)
    BY <2>2, <2>5
  <2> HIDE DEF Solves
  <2> QED BY <2>6
<1>4. Nat \subseteq T
  <2> HIDE DEF T
  <2> QED BY <1>2, <1>3, Induction
<1>5. ASSUME NEW g, NEW h, NEW N \in Nat, NEW M \in Nat, N <= M, Solves(g, N), Solves(h, M)
      PROVE  \A n \in 0 .. N : g[n] = h[n]
  <2> HIDE DEF Built
  <2> DEFINE U == { n \in Nat : n <= N => g[n] = h[n] }
  <2>1. 0 \in U
    <3>1. 0 \in 0 .. N /\ 0 \in 0 .. M
      BY <1>5
    <3>2. g[0] = Built(g, 0) /\ h[0] = Built(h, 0)
      BY <1>5, <3>1
    <3>3. Built(g, 0) = Built(h, 0)
      BY <1>1
    <3> QED BY <3>2, <3>3
  <2>2. ASSUME NEW n \in Nat, n \in U
        PROVE  n + 1 \in U
    <3> SUFFICES ASSUME n + 1 <= N PROVE g[n + 1] = h[n + 1]
      OBVIOUS
    <3>1. n + 1 \in 0 .. N /\ n + 1 \in 0 .. M /\ n <= N /\ (n + 1) - 1 = n /\ n + 1 \in Nat
      BY <1>5
    <3>2. g[n + 1] = Built(g, n + 1) /\ h[n + 1] = Built(h, n + 1)
      BY <1>5, <3>1
    <3>3. Built(g, n + 1) = Built(h, n + 1)
      BY <1>1, <2>2, <3>1
    <3> QED BY <3>2, <3>3
  <2>3. Nat \subseteq U
    <3> HIDE DEF U
    <3> QED BY <2>1, <2>2, Induction
  <2> QED BY <2>3
<1> DEFINE sol == [N \in Nat |-> CHOOSE g : Solves(g, N)]
<1>6. \A N \in Nat : Solves(sol[N], N)
  <2>1. \A N \in Nat : \E g : Solves(g, N)
    BY <1>4
  <2> HIDE DEF Solves
  <2> QED BY <2>1
<1> HIDE DEF sol
<1> DEFINE whole == [n \in Nat |-> sol[n][n]]
<1>7. \A n \in Nat : whole[n] = Built(whole, n)
  <2> SUFFICES ASSUME NEW n \in Nat PROVE whole[n] = Built(whole, n)
    OBVIOUS
  <2>1. whole[n] = sol[n][n] /\ \A m \in Nat : whole[m] = sol[m][m]
    OBVIOUS
  <2> HIDE DEF whole
  <2>2. n # 0 => sol[n][n - 1] = whole[n - 1]
    <3> SUFFICES ASSUME n # 0 PROVE sol[n][n - 1] = whole[n - 1]
      OBVIOUS
    <3>1. n - 1 \in Nat /\ n - 1 <= n /\ n - 1 \in 0 .. n - 1
      OBVIOUS
    <3>2. Solves(sol[n - 1], n - 1) /\ Solves(sol[n], n)
      BY <1>6, <3>1
    <3>3. sol[n - 1][n - 1] = sol[n][n - 1]
      <4> HIDE DEF Solves
      <4> QED BY <1>5, <3>1, <3>2
    <3> QED BY <2>1, <3>1, <3>3
  <2> HIDE DEF Built
  <2>3. sol[n][n] = Built(sol[n], n)
    BY <1>6
  <2>4. Built(sol[n], n) = Built(whole, n)
    BY <1>1, <2>2
  <2> QED BY <2>1, <2>3, <2>4
<1>8. \E f : f = [n \in Nat |-> Built(f, n)]
  <2>1. whole = [n \in Nat |-> whole[n]]
    OBVIOUS
  <2> HIDE DEF Built, whole
  <2>2. whole = [n \in Nat |-> Built(whole, n)]
    BY <1>7, <2>1
  <2> QED BY <2>2
<1> DEFINE made == CHOOSE f : f = [n \in Nat |-> Built(f, n)]
<1>9. OfHeight = made
  BY DEF OfHeight
<1>10. made = [n \in Nat |-> Built(made, n)]
  <2> HIDE DEF Built
  <2> QED BY <1>8
<1> HIDE DEF made
<1>11. \A n \in Nat : OfHeight[n] = Built(OfHeight, n)
  <2> HIDE DEF Built
  <2> QED BY <1>9, <1>10
<1>12. OfHeight[0] = Atoms
  BY <1>11
<1>13. ASSUME NEW n \in Nat
       PROVE  OfHeight[n + 1] = Over(OfHeight[n])
  <2>1. n + 1 \in Nat /\ n + 1 # 0 /\ (n + 1) - 1 = n
    OBVIOUS
  <2>2. Built(OfHeight, n + 1) = Over(OfHeight[n])
    BY <2>1 DEF Over
  <2> HIDE DEF Built
  <2> QED BY <1>11, <2>1, <2>2
<1> QED BY <1>12, <1>13

LEMMA Parts ==
    /\ Op(Zero) = "zero"
    /\ \A p : Op(Param(p)) = "param" /\ Param(p)[2] = p
    /\ \A a : Op(Succ(a)) = "succ" /\ Succ(a)[2] = a
    /\ \A a, b : /\ Op(RawMax(a, b)) = "max" /\ RawMax(a, b)[2] = a /\ RawMax(a, b)[3] = b
                 /\ Op(RawIMax(a, b)) = "imax" /\ RawIMax(a, b)[2] = a /\ RawIMax(a, b)[3] = b
  BY DEF Op, Zero, Param, Succ, RawMax, RawIMax

\* A level has one of five shapes.
IsAtom(l) == l = Zero \/ (Op(l) = "param" /\ l[2] \in Params /\ l = Param(l[2]))
IsTree(l, S) ==
    \/ Op(l) = "succ" /\ l[2] \in S /\ l = Succ(l[2])
    \/ Op(l) = "max" /\ l[2] \in S /\ l[3] \in S /\ l = RawMax(l[2], l[3])
    \/ Op(l) = "imax" /\ l[2] \in S /\ l[3] \in S /\ l = RawIMax(l[2], l[3])

LEMMA AtomShape == \A l : l \in Atoms <=> IsAtom(l)
<1>1. \A l \in Atoms : l = Zero \/ \E p \in Params : l = Param(p)
  BY DEF Atoms, Param
<1>2. \A p \in Params : Param(p) \in Atoms
  BY DEF Atoms, Param
<1>3. Zero \in Atoms
  BY DEF Atoms
<1> QED BY <1>1, <1>2, <1>3, Parts DEF IsAtom

LEMMA OverShape == \A S, l : l \in Over(S) <=> IsAtom(l) \/ IsTree(l, S)
<1> SUFFICES ASSUME NEW S, NEW l PROVE l \in Over(S) <=> IsAtom(l) \/ IsTree(l, S)
  OBVIOUS
<1>1. l \in {"succ"} \X S <=> \E a \in S : l = Succ(a)
  BY DEF Succ
<1>2. l \in {"max", "imax"} \X S \X S <=> \E a, b \in S : l = RawMax(a, b) \/ l = RawIMax(a, b)
  BY DEF RawMax, RawIMax
<1>3. (\E a \in S : l = Succ(a)) <=> Op(l) = "succ" /\ l[2] \in S /\ l = Succ(l[2])
  BY Parts
<1>4. (\E a, b \in S : l = RawMax(a, b) \/ l = RawIMax(a, b))
      <=> \/ Op(l) = "max" /\ l[2] \in S /\ l[3] \in S /\ l = RawMax(l[2], l[3])
          \/ Op(l) = "imax" /\ l[2] \in S /\ l[3] \in S /\ l = RawIMax(l[2], l[3])
  BY Parts
<1> QED BY <1>1, <1>2, <1>3, <1>4, AtomShape DEF Over, IsTree

LEMMA Shape ==
    /\ \A l : l \in OfHeight[0] <=> IsAtom(l)
    /\ \A n \in Nat : \A l : l \in OfHeight[n + 1] <=> IsAtom(l) \/ IsTree(l, OfHeight[n])
  BY HeightFacts, AtomShape, OverShape

LEMMA Higher == \A m, n \in Nat : m <= n => OfHeight[m] \subseteq OfHeight[n]
<1> DEFINE T == { n \in Nat : OfHeight[n] \subseteq OfHeight[n + 1] }
<1>1. 0 \in T
  BY Shape
<1>2. ASSUME NEW n \in Nat, n \in T
      PROVE  n + 1 \in T
  <2>1. \A l : IsTree(l, OfHeight[n]) => IsTree(l, OfHeight[n + 1])
    BY <1>2 DEF IsTree
  <2> QED BY <2>1, Shape
<1>3. Nat \subseteq T
  <2> HIDE DEF T
  <2> QED BY <1>1, <1>2, Induction
<1> SUFFICES ASSUME NEW m \in Nat PROVE \A n \in Nat : m <= n => OfHeight[m] \subseteq OfHeight[n]
  OBVIOUS
<1> DEFINE U == { k \in Nat : OfHeight[m] \subseteq OfHeight[m + k] }
<1>4. 0 \in U
  <2>1. m + 0 = m
    OBVIOUS
  <2> QED BY <2>1
<1>5. ASSUME NEW k \in Nat, k \in U
      PROVE  k + 1 \in U
  <2>1. m + k \in Nat /\ (m + k) + 1 = m + (k + 1)
    OBVIOUS
  <2>2. OfHeight[m + k] \subseteq OfHeight[(m + k) + 1]
    BY <1>3, <2>1
  <2> QED BY <1>5, <2>1, <2>2
<1>6. Nat \subseteq U
  <2> HIDE DEF U
  <2> QED BY <1>4, <1>5, Induction
<1>7. ASSUME NEW n \in Nat, m <= n
      PROVE  OfHeight[m] \subseteq OfHeight[n]
  <2>1. n - m \in Nat /\ m + (n - m) = n
    BY <1>7
  <2> QED BY <1>6, <2>1
<1> QED BY <1>7

\* The levels of any height: what the constructors build from levels.
AnyLevel == UNION { OfHeight[n] : n \in Nat }

LEMMA AnyLevelClosed ==
    /\ Zero \in AnyLevel /\ \A p \in Params : Param(p) \in AnyLevel
    /\ \A a \in AnyLevel : Succ(a) \in AnyLevel
    /\ \A a, b \in AnyLevel : RawMax(a, b) \in AnyLevel /\ RawIMax(a, b) \in AnyLevel
<1>1. ASSUME NEW l, IsAtom(l)
      PROVE  l \in AnyLevel
  BY <1>1, Shape DEF AnyLevel
<1>2. Zero \in AnyLevel /\ \A p \in Params : Param(p) \in AnyLevel
  BY <1>1, Parts DEF IsAtom
<1>3. ASSUME NEW a \in AnyLevel, NEW b \in AnyLevel, NEW l, IsTree(l, {a, b})
      PROVE  l \in AnyLevel
  <2>1. PICK m \in Nat : a \in OfHeight[m]
    BY DEF AnyLevel
  <2>2. PICK n \in Nat : b \in OfHeight[n]
    BY DEF AnyLevel
  <2>3. PICK k \in Nat : m <= k /\ n <= k
    <3>1. CASE m <= n
      BY <3>1
    <3>2. CASE n <= m
      BY <3>2
    <3> QED BY <3>1, <3>2
  <2>4. a \in OfHeight[k] /\ b \in OfHeight[k]
    BY <2>1, <2>2, <2>3, Higher
  <2>5. IsTree(l, OfHeight[k])
    BY <1>3, <2>4 DEF IsTree
  <2>6. l \in OfHeight[k + 1] /\ k + 1 \in Nat
    BY <2>5, Shape
  <2> QED BY <2>6 DEF AnyLevel
<1>4. ASSUME NEW a, NEW b
      PROVE  IsTree(Succ(a), {a, b}) /\ IsTree(RawMax(a, b), {a, b}) /\ IsTree(RawIMax(a, b), {a, b})
  BY Parts DEF IsTree
<1> QED BY <1>2, <1>3, <1>4

LEMMA Bounds == MaxHeight \in Nat /\ 2 * MaxHeight \in Nat /\ MaxHeight <= 2 * MaxHeight
                /\ MaxValue \in Nat /\ MaxValue > MaxHeight + 1
  BY LevelsAssumption DEF LevelsAssumption

LEMMA LevelsAreLevels == InPlay \subseteq Level /\ Level \subseteq AnyLevel
  BY Bounds, Higher DEF InPlay, Level, AnyLevel

\* The height of a level: the least that has it.
Rank == [l \in Level |-> CHOOSE n \in Nat : /\ l \in OfHeight[n]
                                            /\ \A m \in Nat : l \in OfHeight[m] => n <= m]

LEMMA RankFacts ==
    /\ Rank \in [Level -> Nat]
    /\ \A l \in Level : /\ l \in OfHeight[Rank[l]]
                        /\ \A m \in Nat : l \in OfHeight[m] => Rank[l] <= m
<1>1. ASSUME NEW l \in Level
      PROVE  \E n \in Nat : l \in OfHeight[n] /\ \A m \in Nat : l \in OfHeight[m] => n <= m
  <2> DEFINE T == { n \in Nat : l \in OfHeight[n] }
  <2>1. T # {} /\ T \subseteq Nat
    BY Bounds DEF Level
  <2>2. \E n \in T : \A m \in T : n <= m
    <3> HIDE DEF T
    <3> QED BY <2>1, LeastElement
  <2> QED BY <2>2
<1> QED BY <1>1 DEF Rank

\* What a level is made of; the parts of a tree have a smaller rank.
LEMMA Anatomy ==
    ASSUME NEW l \in Level
    PROVE  /\ Op(l) \in {"zero", "param", "succ", "max", "imax"}
           /\ Op(l) = "zero" => l = Zero
           /\ Op(l) = "param" => l[2] \in Params /\ l = Param(l[2])
           /\ Op(l) \in {"succ", "max", "imax"} => l[2] \in Level /\ Rank[l[2]] < Rank[l]
           /\ Op(l) \in {"max", "imax"} => l[3] \in Level /\ Rank[l[3]] < Rank[l]
           /\ Op(l) = "succ" => l = Succ(l[2])
           /\ Op(l) = "max" => l = RawMax(l[2], l[3])
           /\ Op(l) = "imax" => l = RawIMax(l[2], l[3])
<1>1. Rank[l] \in Nat /\ l \in OfHeight[Rank[l]] /\ Rank[l] <= 2 * MaxHeight
  BY RankFacts, Bounds DEF Level
<1>2. CASE IsAtom(l)
  BY <1>2, Parts DEF IsAtom
<1>3. CASE ~IsAtom(l)
  <2>1. Rank[l] # 0
    BY <1>1, <1>3, Shape
  <2>2. PICK n \in Nat : Rank[l] = n + 1
    <3>1. Rank[l] - 1 \in Nat /\ Rank[l] = (Rank[l] - 1) + 1
      BY <1>1, <2>1
    <3> QED BY <3>1
  <2>3. IsTree(l, OfHeight[n])
    BY <1>1, <1>3, <2>2, Shape
  <2>4. \A k \in OfHeight[n] : k \in Level /\ Rank[k] < Rank[l]
    <3>1. n < Rank[l] /\ n <= 2 * MaxHeight
      BY <1>1, <2>2, Bounds
    <3>2. OfHeight[n] \subseteq Level
      BY <3>1, Higher, Bounds DEF Level
    <3> QED BY <2>2, <3>1, <3>2, RankFacts
  <2> QED BY <2>3, <2>4 DEF IsTree
<1> QED BY <1>2, <1>3

\* Induction over the parts.
LEMMA LevelInduction ==
    ASSUME NEW T,
           \A l \in Level : /\ Op(l) \in {"succ", "max", "imax"} => l[2] \in T
                            /\ Op(l) \in {"max", "imax"} => l[3] \in T
                            => l \in T
    PROVE  Level \subseteq T
<1>1. ASSUME NEW l \in Level, \A k \in Level : Rank[k] < Rank[l] => k \in T
      PROVE  l \in T
  BY <1>1, Anatomy
<1> QED BY <1>1, RankFacts, RankInduction

-----------------------------------------------------------------------------
(* The recursive functions satisfy their equations *)

LEMMA IsExplicitFacts ==
    ASSUME NEW l \in Level
    PROVE  /\ IsExplicit(l) \in BOOLEAN
           /\ IsExplicit(l) <=> Op(l) = "zero" \/ (Op(l) = "succ" /\ IsExplicit(l[2]))
<1> DEFINE Body(f, k) ==
               Op(k) = "zero" \/ (Op(k) = "succ" /\ f[k[2]])
           B == [k \in Level |-> [f \in [Level -> BOOLEAN] |-> Body(f, k)]]
           made == CHOOSE f : f = [k \in Level |-> Body(f, k)]
<1>1. \A k \in Level : \A f \in [Level -> BOOLEAN] : Body(f, k) \in BOOLEAN
  BY Anatomy
<1>2. ASSUME NEW k \in Level, NEW f, NEW g, \A y \in Level : Rank[y] < Rank[k] => f[y] = g[y]
      PROVE  Body(f, k) = Body(g, k)
  BY <1>2, Anatomy
<1> HIDE DEF Body
<1>3. HasSolution(Level, BOOLEAN, B)
  <2>1. B \in [Level -> [[Level -> BOOLEAN] -> BOOLEAN]]
    BY <1>1
  <2>2. \A k \in Level : \A f \in [Level -> BOOLEAN] : B[k][f] = Body(f, k)
    OBVIOUS
  <2> HIDE DEF B
  <2>3. \A k \in Level : \A f, g \in [Level -> BOOLEAN] :
            (\A y \in Level : Rank[y] < Rank[k] => f[y] = g[y]) => B[k][f] = B[k][g]
    BY <1>2, <2>2
  <2>4. BOOLEAN # {}
    OBVIOUS
  <2>5. IsRecursion(Level, BOOLEAN, Rank, B)
    BY <2>1, <2>3, <2>4, RankFacts DEF IsRecursion
  <2> QED BY <2>5, RecursiveFunction
<1>4. PICK f \in [Level -> BOOLEAN] : \A k \in Level : f[k] = Body(f, k)
  BY <1>3 DEF HasSolution
<1>5. made = [k \in Level |-> Body(made, k)]
  <2>1. f = [k \in Level |-> Body(f, k)]
    BY <1>4
  <2> QED BY <2>1
<1> HIDE DEF made
<1>6. \A k \in Level : made[k] = Body(made, k)
  BY <1>5
<1>7. \A k \in Level : made[k] = f[k]
  <2> DEFINE T == { k \in Level : made[k] = f[k] }
  <2>1. ASSUME NEW k \in Level, \A y \in Level : Rank[y] < Rank[k] => y \in T
        PROVE  k \in T
    BY <1>2, <1>4, <1>6, <2>1
  <2>2. Level \subseteq T
    <3> HIDE DEF T
    <3> QED BY <2>1, RankFacts, RankInduction
  <2> QED BY <2>2
<1>8. \A k : IsExplicit(k) = made[k]
  BY DEF IsExplicit, made, Body
<1> QED BY <1>6, <1>7, <1>8, Anatomy DEF Body

LEMMA BaseFacts ==
    ASSUME NEW l \in Level
    PROVE  /\ Base(l) \in Level
           /\ Base(l) = IF Op(l) = "succ" THEN Base(l[2]) ELSE l
<1> DEFINE Body(f, k) ==
               IF Op(k) = "succ" THEN f[k[2]] ELSE k
           B == [k \in Level |-> [f \in [Level -> Level] |-> Body(f, k)]]
           made == CHOOSE f : f = [k \in Level |-> Body(f, k)]
<1>1. \A k \in Level : \A f \in [Level -> Level] : Body(f, k) \in Level
  BY Anatomy
<1>2. ASSUME NEW k \in Level, NEW f, NEW g, \A y \in Level : Rank[y] < Rank[k] => f[y] = g[y]
      PROVE  Body(f, k) = Body(g, k)
  BY <1>2, Anatomy
<1> HIDE DEF Body
<1>3. HasSolution(Level, Level, B)
  <2>1. B \in [Level -> [[Level -> Level] -> Level]]
    BY <1>1
  <2>2. \A k \in Level : \A f \in [Level -> Level] : B[k][f] = Body(f, k)
    OBVIOUS
  <2> HIDE DEF B
  <2>3. \A k \in Level : \A f, g \in [Level -> Level] :
            (\A y \in Level : Rank[y] < Rank[k] => f[y] = g[y]) => B[k][f] = B[k][g]
    BY <1>2, <2>2
  <2>4. Level # {}
    BY LevelsAreLevels, Bounds, Shape DEF InPlay
  <2>5. IsRecursion(Level, Level, Rank, B)
    BY <2>1, <2>3, <2>4, RankFacts DEF IsRecursion
  <2> QED BY <2>5, RecursiveFunction
<1>4. PICK f \in [Level -> Level] : \A k \in Level : f[k] = Body(f, k)
  BY <1>3 DEF HasSolution
<1>5. made = [k \in Level |-> Body(made, k)]
  <2>1. f = [k \in Level |-> Body(f, k)]
    BY <1>4
  <2> QED BY <2>1
<1> HIDE DEF made
<1>6. \A k \in Level : made[k] = Body(made, k)
  BY <1>5
<1>7. \A k \in Level : made[k] = f[k]
  <2> DEFINE T == { k \in Level : made[k] = f[k] }
  <2>1. ASSUME NEW k \in Level, \A y \in Level : Rank[y] < Rank[k] => y \in T
        PROVE  k \in T
    BY <1>2, <1>4, <1>6, <2>1
  <2>2. Level \subseteq T
    <3> HIDE DEF T
    <3> QED BY <2>1, RankFacts, RankInduction
  <2> QED BY <2>2
<1>8. \A k : Base(k) = made[k]
  BY DEF Base, made, Body
<1> QED BY <1>6, <1>7, <1>8, Anatomy DEF Body

LEMMA OffsetFacts ==
    ASSUME NEW l \in Level
    PROVE  /\ Offset(l) \in Nat
           /\ Offset(l) = IF Op(l) = "succ" THEN 1 + Offset(l[2]) ELSE 0
<1> DEFINE Body(f, k) ==
               IF Op(k) = "succ" THEN 1 + f[k[2]] ELSE 0
           B == [k \in Level |-> [f \in [Level -> Nat] |-> Body(f, k)]]
           made == CHOOSE f : f = [k \in Level |-> Body(f, k)]
<1>1. \A k \in Level : \A f \in [Level -> Nat] : Body(f, k) \in Nat
  BY Anatomy
<1>2. ASSUME NEW k \in Level, NEW f, NEW g, \A y \in Level : Rank[y] < Rank[k] => f[y] = g[y]
      PROVE  Body(f, k) = Body(g, k)
  BY <1>2, Anatomy
<1> HIDE DEF Body
<1>3. HasSolution(Level, Nat, B)
  <2>1. B \in [Level -> [[Level -> Nat] -> Nat]]
    BY <1>1
  <2>2. \A k \in Level : \A f \in [Level -> Nat] : B[k][f] = Body(f, k)
    OBVIOUS
  <2> HIDE DEF B
  <2>3. \A k \in Level : \A f, g \in [Level -> Nat] :
            (\A y \in Level : Rank[y] < Rank[k] => f[y] = g[y]) => B[k][f] = B[k][g]
    BY <1>2, <2>2
  <2>4. Nat # {}
    OBVIOUS
  <2>5. IsRecursion(Level, Nat, Rank, B)
    BY <2>1, <2>3, <2>4, RankFacts DEF IsRecursion
  <2> QED BY <2>5, RecursiveFunction
<1>4. PICK f \in [Level -> Nat] : \A k \in Level : f[k] = Body(f, k)
  BY <1>3 DEF HasSolution
<1>5. made = [k \in Level |-> Body(made, k)]
  <2>1. f = [k \in Level |-> Body(f, k)]
    BY <1>4
  <2> QED BY <2>1
<1> HIDE DEF made
<1>6. \A k \in Level : made[k] = Body(made, k)
  BY <1>5
<1>7. \A k \in Level : made[k] = f[k]
  <2> DEFINE T == { k \in Level : made[k] = f[k] }
  <2>1. ASSUME NEW k \in Level, \A y \in Level : Rank[y] < Rank[k] => y \in T
        PROVE  k \in T
    BY <1>2, <1>4, <1>6, <2>1
  <2>2. Level \subseteq T
    <3> HIDE DEF T
    <3> QED BY <2>1, RankFacts, RankInduction
  <2> QED BY <2>2
<1>8. \A k : Offset(k) = made[k]
  BY DEF Offset, made, Body
<1> QED BY <1>6, <1>7, <1>8, Anatomy DEF Body

LEMMA IsNotZeroFacts ==
    ASSUME NEW l \in Level
    PROVE  /\ IsNotZero(l) \in BOOLEAN
           /\ IsNotZero(l) <=> \/ Op(l) = "succ"
                               \/ Op(l) = "max" /\ (IsNotZero(l[2]) \/ IsNotZero(l[3]))
                               \/ Op(l) = "imax" /\ IsNotZero(l[3])
<1> DEFINE Body(f, k) ==
               \/ Op(k) = "succ"
               \/ Op(k) = "max" /\ (f[k[2]] \/ f[k[3]])
               \/ Op(k) = "imax" /\ f[k[3]]
           B == [k \in Level |-> [f \in [Level -> BOOLEAN] |-> Body(f, k)]]
           made == CHOOSE f : f = [k \in Level |-> Body(f, k)]
<1>1. \A k \in Level : \A f \in [Level -> BOOLEAN] : Body(f, k) \in BOOLEAN
  BY Anatomy
<1>2. ASSUME NEW k \in Level, NEW f, NEW g, \A y \in Level : Rank[y] < Rank[k] => f[y] = g[y]
      PROVE  Body(f, k) = Body(g, k)
  BY <1>2, Anatomy
<1> HIDE DEF Body
<1>3. HasSolution(Level, BOOLEAN, B)
  <2>1. B \in [Level -> [[Level -> BOOLEAN] -> BOOLEAN]]
    BY <1>1
  <2>2. \A k \in Level : \A f \in [Level -> BOOLEAN] : B[k][f] = Body(f, k)
    OBVIOUS
  <2> HIDE DEF B
  <2>3. \A k \in Level : \A f, g \in [Level -> BOOLEAN] :
            (\A y \in Level : Rank[y] < Rank[k] => f[y] = g[y]) => B[k][f] = B[k][g]
    BY <1>2, <2>2
  <2>4. BOOLEAN # {}
    OBVIOUS
  <2>5. IsRecursion(Level, BOOLEAN, Rank, B)
    BY <2>1, <2>3, <2>4, RankFacts DEF IsRecursion
  <2> QED BY <2>5, RecursiveFunction
<1>4. PICK f \in [Level -> BOOLEAN] : \A k \in Level : f[k] = Body(f, k)
  BY <1>3 DEF HasSolution
<1>5. made = [k \in Level |-> Body(made, k)]
  <2>1. f = [k \in Level |-> Body(f, k)]
    BY <1>4
  <2> QED BY <2>1
<1> HIDE DEF made
<1>6. \A k \in Level : made[k] = Body(made, k)
  BY <1>5
<1>7. \A k \in Level : made[k] = f[k]
  <2> DEFINE T == { k \in Level : made[k] = f[k] }
  <2>1. ASSUME NEW k \in Level, \A y \in Level : Rank[y] < Rank[k] => y \in T
        PROVE  k \in T
    BY <1>2, <1>4, <1>6, <2>1
  <2>2. Level \subseteq T
    <3> HIDE DEF T
    <3> QED BY <2>1, RankFacts, RankInduction
  <2> QED BY <2>2
<1>8. \A k : IsNotZero(k) = made[k]
  BY DEF IsNotZero, made, Body
<1> QED BY <1>6, <1>7, <1>8, Anatomy DEF Body

LEMMA ValueFacts ==
    ASSUME NEW l \in Level, NEW r \in [Params -> Nat]
    PROVE  /\ Value(l, r) \in Nat
           /\ Op(l) = "zero" => Value(l, r) = 0
           /\ Op(l) = "param" => Value(l, r) = r[l[2]]
           /\ Op(l) = "succ" => Value(l, r) = Value(l[2], r) + 1
           /\ Op(l) = "max" => Value(l, r) = Larger(Value(l[2], r), Value(l[3], r))
           /\ Op(l) = "imax" => Value(l, r) = IF Value(l[3], r) = 0 THEN 0
                                              ELSE Larger(Value(l[2], r), Value(l[3], r))
<1> DEFINE Body(f, k) ==
               IF Op(k) = "zero" THEN 0
               ELSE IF Op(k) = "param" THEN r[k[2]]
               ELSE IF Op(k) = "succ" THEN f[k[2]] + 1
               ELSE IF Op(k) = "imax" /\ f[k[3]] = 0 THEN 0
               ELSE Larger(f[k[2]], f[k[3]])
           B == [k \in Level |-> [f \in [Level -> Nat] |-> Body(f, k)]]
           made == CHOOSE f : f = [k \in Level |-> Body(f, k)]
<1>1. \A k \in Level : \A f \in [Level -> Nat] : Body(f, k) \in Nat
  BY Anatomy DEF Larger
<1>2. ASSUME NEW k \in Level, NEW f, NEW g, \A y \in Level : Rank[y] < Rank[k] => f[y] = g[y]
      PROVE  Body(f, k) = Body(g, k)
  BY <1>2, Anatomy
<1> HIDE DEF Body
<1>3. HasSolution(Level, Nat, B)
  <2>1. B \in [Level -> [[Level -> Nat] -> Nat]]
    BY <1>1
  <2>2. \A k \in Level : \A f \in [Level -> Nat] : B[k][f] = Body(f, k)
    OBVIOUS
  <2> HIDE DEF B
  <2>3. \A k \in Level : \A f, g \in [Level -> Nat] :
            (\A y \in Level : Rank[y] < Rank[k] => f[y] = g[y]) => B[k][f] = B[k][g]
    BY <1>2, <2>2
  <2>4. Nat # {}
    OBVIOUS
  <2>5. IsRecursion(Level, Nat, Rank, B)
    BY <2>1, <2>3, <2>4, RankFacts DEF IsRecursion
  <2> QED BY <2>5, RecursiveFunction
<1>4. PICK f \in [Level -> Nat] : \A k \in Level : f[k] = Body(f, k)
  BY <1>3 DEF HasSolution
<1>5. made = [k \in Level |-> Body(made, k)]
  <2>1. f = [k \in Level |-> Body(f, k)]
    BY <1>4
  <2> QED BY <2>1
<1> HIDE DEF made
<1>6. \A k \in Level : made[k] = Body(made, k)
  BY <1>5
<1>7. \A k \in Level : made[k] = f[k]
  <2> DEFINE T == { k \in Level : made[k] = f[k] }
  <2>1. ASSUME NEW k \in Level, \A y \in Level : Rank[y] < Rank[k] => y \in T
        PROVE  k \in T
    BY <1>2, <1>4, <1>6, <2>1
  <2>2. Level \subseteq T
    <3> HIDE DEF T
    <3> QED BY <2>1, RankFacts, RankInduction
  <2> QED BY <2>2
<1>8. \A k : Value(k, r) = made[k]
  BY DEF Value, made, Body
<1> QED BY <1>6, <1>7, <1>8, Anatomy DEF Body

LEMMA IMaxFreeFacts ==
    ASSUME NEW l \in Level
    PROVE  /\ IMaxFree(l) \in BOOLEAN
           /\ IMaxFree(l) <=> /\ Op(l) # "imax"
                              /\ Op(l) \in {"succ", "max"} => IMaxFree(l[2])
                              /\ Op(l) = "max" => IMaxFree(l[3])
<1> DEFINE Body(f, k) ==
               /\ Op(k) # "imax"
               /\ Op(k) \in {"succ", "max"} => f[k[2]]
               /\ Op(k) = "max" => f[k[3]]
           B == [k \in Level |-> [f \in [Level -> BOOLEAN] |-> Body(f, k)]]
           made == CHOOSE f : f = [k \in Level |-> Body(f, k)]
<1>1. \A k \in Level : \A f \in [Level -> BOOLEAN] : Body(f, k) \in BOOLEAN
  BY Anatomy
<1>2. ASSUME NEW k \in Level, NEW f, NEW g, \A y \in Level : Rank[y] < Rank[k] => f[y] = g[y]
      PROVE  Body(f, k) = Body(g, k)
  BY <1>2, Anatomy
<1> HIDE DEF Body
<1>3. HasSolution(Level, BOOLEAN, B)
  <2>1. B \in [Level -> [[Level -> BOOLEAN] -> BOOLEAN]]
    BY <1>1
  <2>2. \A k \in Level : \A f \in [Level -> BOOLEAN] : B[k][f] = Body(f, k)
    OBVIOUS
  <2> HIDE DEF B
  <2>3. \A k \in Level : \A f, g \in [Level -> BOOLEAN] :
            (\A y \in Level : Rank[y] < Rank[k] => f[y] = g[y]) => B[k][f] = B[k][g]
    BY <1>2, <2>2
  <2>4. BOOLEAN # {}
    OBVIOUS
  <2>5. IsRecursion(Level, BOOLEAN, Rank, B)
    BY <2>1, <2>3, <2>4, RankFacts DEF IsRecursion
  <2> QED BY <2>5, RecursiveFunction
<1>4. PICK f \in [Level -> BOOLEAN] : \A k \in Level : f[k] = Body(f, k)
  BY <1>3 DEF HasSolution
<1>5. made = [k \in Level |-> Body(made, k)]
  <2>1. f = [k \in Level |-> Body(f, k)]
    BY <1>4
  <2> QED BY <2>1
<1> HIDE DEF made
<1>6. \A k \in Level : made[k] = Body(made, k)
  BY <1>5
<1>7. \A k \in Level : made[k] = f[k]
  <2> DEFINE T == { k \in Level : made[k] = f[k] }
  <2>1. ASSUME NEW k \in Level, \A y \in Level : Rank[y] < Rank[k] => y \in T
        PROVE  k \in T
    BY <1>2, <1>4, <1>6, <2>1
  <2>2. Level \subseteq T
    <3> HIDE DEF T
    <3> QED BY <2>1, RankFacts, RankInduction
  <2> QED BY <2>2
<1>8. \A k : IMaxFree(k) = made[k]
  BY DEF IMaxFree, made, Body
<1> QED BY <1>6, <1>7, <1>8, Anatomy DEF Body

-----------------------------------------------------------------------------
(* The simplifying constructors compute the maximum *)

\* The parameters may take any values.
Valuations == [Params -> Nat]

LEMMA PeelFacts ==
    ASSUME NEW r \in Valuations
    PROVE  \A l \in Level : Value(l, r) = Value(Base(l), r) + Offset(l)
<1> DEFINE T == { l \in Level : Value(l, r) = Value(Base(l), r) + Offset(l) }
<1>1. ASSUME NEW l \in Level, Op(l) = "succ" => l[2] \in T
      PROVE  l \in T
  <2>1. CASE Op(l) = "succ"
    <3>1. /\ l[2] \in Level /\ Base(l) = Base(l[2]) /\ Offset(l) = 1 + Offset(l[2])
          /\ Value(l, r) = Value(l[2], r) + 1
      BY <2>1, Anatomy, BaseFacts, OffsetFacts, ValueFacts DEF Valuations
    <3>2. /\ Value(l[2], r) = Value(Base(l[2]), r) + Offset(l[2])
          /\ Offset(l[2]) \in Nat /\ Value(Base(l[2]), r) \in Nat
      BY <1>1, <2>1, <3>1, BaseFacts, OffsetFacts, ValueFacts DEF Valuations
    <3> QED BY <3>1, <3>2
  <2>2. CASE Op(l) # "succ"
    <3>1. Base(l) = l /\ Offset(l) = 0 /\ Value(l, r) \in Nat
      BY <2>2, BaseFacts, OffsetFacts, ValueFacts DEF Valuations
    <3> QED BY <3>1
  <2> QED BY <2>1, <2>2
<1>2. Level \subseteq T
  <2> HIDE DEF T
  <2> QED BY <1>1, LevelInduction
<1> QED BY <1>2

LEMMA NumeralFacts ==
    ASSUME NEW r \in Valuations
    PROVE  \A l \in Level : IsExplicit(l) => Value(l, r) = Offset(l)
<1> DEFINE T == { l \in Level : IsExplicit(l) => Value(l, r) = Offset(l) }
<1>1. ASSUME NEW l \in Level, Op(l) = "succ" => l[2] \in T
      PROVE  l \in T
  <2> SUFFICES ASSUME IsExplicit(l) PROVE Value(l, r) = Offset(l)
    OBVIOUS
  <2>1. CASE Op(l) = "succ"
    <3>1. /\ l[2] \in Level /\ IsExplicit(l[2]) /\ Offset(l) = 1 + Offset(l[2])
          /\ Value(l, r) = Value(l[2], r) + 1
      BY <2>1, Anatomy, IsExplicitFacts, OffsetFacts, ValueFacts DEF Valuations
    <3>2. Value(l[2], r) = Offset(l[2]) /\ Offset(l[2]) \in Nat
      BY <1>1, <2>1, <3>1, OffsetFacts
    <3> QED BY <3>1, <3>2
  <2>2. CASE Op(l) # "succ"
    <3>1. Op(l) = "zero"
      BY <2>2, IsExplicitFacts
    <3> QED BY <2>2, <3>1, OffsetFacts, ValueFacts DEF Valuations
  <2> QED BY <2>1, <2>2
<1>2. Level \subseteq T
  <2> HIDE DEF T
  <2> QED BY <1>1, LevelInduction
<1> QED BY <1>2

LEMMA MaxResult == \A a, b : Max(a, b) \in {a, b, RawMax(a, b)}
  BY DEF Max

LEMMA IMaxResult == \A a, b : IMax(a, b) \in {a, b, Zero, RawMax(a, b), RawIMax(a, b)}
  BY MaxResult DEF IMax

\* mk_max returns a level of the value of the maximum.
LEMMA MaxMeaning ==
    ASSUME NEW a \in Level, NEW b \in Level, RawMax(a, b) \in Level, NEW r \in Valuations
    PROVE  /\ Max(a, b) \in Level
           /\ Value(Max(a, b), r) = Larger(Value(a, r), Value(b, r))
<1>1. Max(a, b) \in Level
  BY MaxResult
<1>2. Value(a, r) \in Nat /\ Value(b, r) \in Nat
  BY ValueFacts DEF Valuations
<1>3. CASE IsExplicit(a) /\ IsExplicit(b)
  <2>1. Value(a, r) = Offset(a) /\ Value(b, r) = Offset(b)
    BY <1>3, NumeralFacts
  <2>2. Max(a, b) = IF Offset(a) >= Offset(b) THEN a ELSE b
    BY <1>3 DEF Max
  <2> QED BY <1>1, <1>2, <2>1, <2>2 DEF Larger
<1>4. CASE a = b
  <2>1. Max(a, b) = a
    BY <1>4 DEF Max
  <2> QED BY <1>1, <1>2, <1>4, <2>1 DEF Larger
<1>5. CASE ~(IsExplicit(a) /\ IsExplicit(b)) /\ IsZero(b)
  <2>1. Max(a, b) = a /\ Value(b, r) = 0
    BY <1>5, ValueFacts, Parts DEF Max, IsZero, Valuations
  <2> QED BY <1>1, <1>2, <2>1 DEF Larger
<1>6. CASE ~(IsExplicit(a) /\ IsExplicit(b)) /\ ~IsZero(b) /\ IsZero(a)
  <2>1. Max(a, b) = b /\ Value(a, r) = 0
    BY <1>6, ValueFacts, Parts DEF Max, IsZero, Valuations
  <2> QED BY <1>1, <1>2, <2>1 DEF Larger
<1> DEFINE General == ~(IsExplicit(a) /\ IsExplicit(b)) /\ a # b /\ ~IsZero(a) /\ ~IsZero(b)
<1>7. CASE General /\ Op(b) = "max" /\ a \in {b[2], b[3]}
  <2>1. Max(a, b) = b
    BY <1>7 DEF Max
  <2>2. /\ Value(b, r) = Larger(Value(b[2], r), Value(b[3], r))
        /\ Value(b[2], r) \in Nat /\ Value(b[3], r) \in Nat
    BY <1>7, Anatomy, ValueFacts DEF Valuations
  <2>3. a = b[2] \/ a = b[3]
    BY <1>7
  <2> QED BY <1>1, <1>2, <2>1, <2>2, <2>3 DEF Larger
<1>8. CASE General /\ ~(Op(b) = "max" /\ a \in {b[2], b[3]}) /\ Op(a) = "max" /\ b \in {a[2], a[3]}
  <2>1. Max(a, b) = a
    BY <1>8 DEF Max
  <2>2. /\ Value(a, r) = Larger(Value(a[2], r), Value(a[3], r))
        /\ Value(a[2], r) \in Nat /\ Value(a[3], r) \in Nat
    BY <1>8, Anatomy, ValueFacts DEF Valuations
  <2>3. b = a[2] \/ b = a[3]
    BY <1>8
  <2> QED BY <1>1, <1>2, <2>1, <2>2, <2>3 DEF Larger
<1>9. CASE /\ General /\ ~(Op(b) = "max" /\ a \in {b[2], b[3]})
           /\ ~(Op(a) = "max" /\ b \in {a[2], a[3]})
  <2>1. CASE Base(a) = Base(b)
    <3>1. Max(a, b) = IF Offset(a) > Offset(b) THEN a ELSE b
      BY <1>9, <2>1 DEF Max
    <3>2. /\ Value(a, r) = Value(Base(a), r) + Offset(a) /\ Value(b, r) = Value(Base(a), r) + Offset(b)
          /\ Value(Base(a), r) \in Nat /\ Offset(a) \in Nat /\ Offset(b) \in Nat
      BY <2>1, PeelFacts, BaseFacts, OffsetFacts, ValueFacts DEF Valuations
    <3> QED BY <1>1, <3>1, <3>2 DEF Larger
  <2>2. CASE Base(a) # Base(b)
    <3>1. Max(a, b) = RawMax(a, b)
      BY <1>9, <2>2 DEF Max
    <3> QED BY <1>1, <3>1, Parts, ValueFacts DEF Valuations
  <2> QED BY <2>1, <2>2
<1> QED BY <1>3, <1>4, <1>5, <1>6, <1>7, <1>8, <1>9

\* A level is_not_zero accepts is positive under every valuation.
LEMMA NotZeroIsPositive ==
    ASSUME NEW r \in Valuations
    PROVE  \A l \in Level : IsNotZero(l) => Value(l, r) > 0
<1> DEFINE T == { l \in Level : IsNotZero(l) => Value(l, r) > 0 }
<1>1. ASSUME NEW l \in Level, Op(l) \in {"succ", "max", "imax"} => l[2] \in T,
             Op(l) \in {"max", "imax"} => l[3] \in T
      PROVE  l \in T
  <2> SUFFICES ASSUME IsNotZero(l) PROVE Value(l, r) > 0
    OBVIOUS
  <2>1. /\ Op(l) \in {"succ", "max", "imax"} => l[2] \in Level /\ Value(l[2], r) \in Nat
        /\ Op(l) \in {"max", "imax"} => l[3] \in Level /\ Value(l[3], r) \in Nat
    BY Anatomy, ValueFacts DEF Valuations
  <2>2. CASE Op(l) = "succ"
    BY <2>1, <2>2, ValueFacts DEF Valuations
  <2>3. CASE Op(l) = "max"
    <3>1. Value(l, r) = Larger(Value(l[2], r), Value(l[3], r))
      BY <2>3, ValueFacts DEF Valuations
    <3>2. Value(l[2], r) > 0 \/ Value(l[3], r) > 0
      BY <1>1, <2>3, IsNotZeroFacts
    <3> QED BY <2>1, <2>3, <3>1, <3>2 DEF Larger
  <2>4. CASE Op(l) = "imax"
    <3>1. Value(l[3], r) > 0
      BY <1>1, <2>4, IsNotZeroFacts
    <3>2. Value(l, r) = Larger(Value(l[2], r), Value(l[3], r))
      BY <2>1, <2>4, <3>1, ValueFacts DEF Valuations
    <3> QED BY <2>1, <2>4, <3>1, <3>2 DEF Larger
  <2> QED BY <2>2, <2>3, <2>4, IsNotZeroFacts
<1>2. Level \subseteq T
  <2> HIDE DEF T
  <2> QED BY <1>1, LevelInduction
<1> QED BY <1>2

\* mk_imax: nothing when the right side is zero, the maximum otherwise.
LEMMA IMaxMeaning ==
    ASSUME NEW a \in Level, NEW b \in Level, RawMax(a, b) \in Level, RawIMax(a, b) \in Level,
           NEW r \in Valuations
    PROVE  /\ IMax(a, b) \in Level
           /\ Value(IMax(a, b), r) = IF Value(b, r) = 0 THEN 0
                                     ELSE Larger(Value(a, r), Value(b, r))
<1>1. Zero \in Level
  BY Bounds, Higher, Shape DEF Level, IsAtom
<1>2. IMax(a, b) \in Level
  BY <1>1, IMaxResult
<1>3. Value(a, r) \in Nat /\ Value(b, r) \in Nat /\ Value(Zero, r) = 0
  BY <1>1, ValueFacts, Parts DEF Valuations
<1>4. CASE IsNotZero(b)
  <2>1. Value(b, r) > 0
    BY <1>4, NotZeroIsPositive
  <2>2. IMax(a, b) = Max(a, b)
    BY <1>4 DEF IMax
  <2> QED BY <1>2, <1>3, <2>1, <2>2, MaxMeaning
<1>5. CASE ~IsNotZero(b) /\ IsZero(b)
  <2>1. IMax(a, b) = Zero /\ b = Zero
    BY <1>5 DEF IMax, IsZero
  <2> QED BY <1>2, <1>3, <2>1
<1>6. CASE ~IsNotZero(b) /\ ~IsZero(b) /\ (IsZero(a) \/ IsOne(a) \/ a = b)
  <2>1. IMax(a, b) = b
    BY <1>6 DEF IMax
  <2>2. IsZero(a) => Value(a, r) = 0
    BY <1>3 DEF IsZero
  <2>3. IsOne(a) => Value(a, r) = 1
    <3>1. IsOne(a) => Op(a) = "succ" /\ a[2] = Zero
      BY Parts DEF IsOne
    <3> QED BY <1>3, <3>1, ValueFacts DEF Valuations
  <2> QED BY <1>2, <1>3, <1>6, <2>1, <2>2, <2>3 DEF Larger
<1>7. CASE ~IsNotZero(b) /\ ~IsZero(b) /\ ~(IsZero(a) \/ IsOne(a) \/ a = b)
  <2>1. IMax(a, b) = RawIMax(a, b)
    BY <1>7 DEF IMax
  <2> QED BY <1>2, <2>1, Parts, ValueFacts DEF Valuations
<1> QED BY <1>4, <1>5, <1>6, <1>7

-----------------------------------------------------------------------------
(* Instantiation and normalisation keep the meaning *)

LEMMA MaxesAreLevels ==
    \A a, b \in AnyLevel : Max(a, b) \in AnyLevel /\ IMax(a, b) \in AnyLevel
<1> SUFFICES ASSUME NEW a \in AnyLevel, NEW b \in AnyLevel
             PROVE  Max(a, b) \in AnyLevel /\ IMax(a, b) \in AnyLevel
  OBVIOUS
<1>1. RawMax(a, b) \in AnyLevel /\ RawIMax(a, b) \in AnyLevel /\ Zero \in AnyLevel
  BY AnyLevelClosed
<1> QED BY <1>1, MaxResult, IMaxResult

LEMMA InstantiateFacts ==
    ASSUME NEW l \in Level, NEW s \in [Params -> InPlay]
    PROVE  /\ Op(l) = "zero" => Instantiate(l, s) = l
           /\ Op(l) = "param" => Instantiate(l, s) = s[l[2]]
           /\ Op(l) = "succ" => Instantiate(l, s) = Succ(Instantiate(l[2], s))
           /\ Op(l) = "max" => Instantiate(l, s) = Max(Instantiate(l[2], s), Instantiate(l[3], s))
           /\ Op(l) = "imax" => Instantiate(l, s) = IMax(Instantiate(l[2], s), Instantiate(l[3], s))
<1> DEFINE Body(f, k) ==
               IF Op(k) = "zero" THEN k
               ELSE IF Op(k) = "param" THEN s[k[2]]
               ELSE IF Op(k) = "succ" THEN Succ(f[k[2]])
               ELSE IF Op(k) = "max" THEN Max(f[k[2]], f[k[3]])
               ELSE IMax(f[k[2]], f[k[3]])
           B == [k \in Level |-> [f \in [Level -> AnyLevel] |-> Body(f, k)]]
           made == CHOOSE f : f = [k \in Level |-> Body(f, k)]
<1>1. \A k \in Level : \A f \in [Level -> AnyLevel] : Body(f, k) \in AnyLevel
  <2> SUFFICES ASSUME NEW k \in Level, NEW f \in [Level -> AnyLevel] PROVE Body(f, k) \in AnyLevel
    OBVIOUS
  <2>1. CASE Op(k) \in {"zero", "param"}
    BY <2>1, Anatomy, LevelsAreLevels
  <2>2. CASE Op(k) = "succ"
    <3>1. f[k[2]] \in AnyLevel
      BY <2>2, Anatomy
    <3> QED BY <2>2, <3>1, AnyLevelClosed
  <2>3. CASE Op(k) \in {"max", "imax"}
    <3>1. f[k[2]] \in AnyLevel /\ f[k[3]] \in AnyLevel
      BY <2>3, Anatomy
    <3> QED BY <2>3, <3>1, MaxesAreLevels
  <2> QED BY <2>1, <2>2, <2>3, Anatomy
<1>2. ASSUME NEW k \in Level, NEW f, NEW g, \A y \in Level : Rank[y] < Rank[k] => f[y] = g[y]
      PROVE  Body(f, k) = Body(g, k)
  BY <1>2, Anatomy
<1> HIDE DEF Body
<1>3. HasSolution(Level, AnyLevel, B)
  <2>1. B \in [Level -> [[Level -> AnyLevel] -> AnyLevel]]
    BY <1>1
  <2>2. \A k \in Level : \A f \in [Level -> AnyLevel] : B[k][f] = Body(f, k)
    OBVIOUS
  <2> HIDE DEF B
  <2>3. \A k \in Level : \A f, g \in [Level -> AnyLevel] :
            (\A y \in Level : Rank[y] < Rank[k] => f[y] = g[y]) => B[k][f] = B[k][g]
    BY <1>2, <2>2
  <2>4. AnyLevel # {}
    BY AnyLevelClosed
  <2>5. IsRecursion(Level, AnyLevel, Rank, B)
    BY <2>1, <2>3, <2>4, RankFacts DEF IsRecursion
  <2> QED BY <2>5, RecursiveFunction
<1>4. PICK f \in [Level -> AnyLevel] : \A k \in Level : f[k] = Body(f, k)
  BY <1>3 DEF HasSolution
<1>5. made = [k \in Level |-> Body(made, k)]
  <2>1. f = [k \in Level |-> Body(f, k)]
    BY <1>4
  <2> QED BY <2>1
<1> HIDE DEF made
<1>6. \A k \in Level : made[k] = Body(made, k)
  BY <1>5
<1>7. \A k \in Level : made[k] = f[k]
  <2> DEFINE T == { k \in Level : made[k] = f[k] }
  <2>1. ASSUME NEW k \in Level, \A y \in Level : Rank[y] < Rank[k] => y \in T
        PROVE  k \in T
    BY <1>2, <1>4, <1>6, <2>1
  <2>2. Level \subseteq T
    <3> HIDE DEF T
    <3> QED BY <2>1, RankFacts, RankInduction
  <2> QED BY <2>2
<1>8. \A k : Instantiate(k, s) = made[k]
  BY DEF Instantiate, made, Body
<1> QED BY <1>6, <1>7, <1>8, Anatomy DEF Body

LEMMA PushSuccIsLevel == \A l \in AnyLevel : PushSucc(l) \in AnyLevel
<1> SUFFICES ASSUME NEW l \in AnyLevel PROVE PushSucc(l) \in AnyLevel
  OBVIOUS
<1>1. CASE Op(l) = "max"
  <2>1. PICK n \in Nat : l \in OfHeight[n]
    BY DEF AnyLevel
  <2>2. ~IsAtom(l)
    BY <1>1, Parts DEF IsAtom
  <2>3. n # 0
    BY <2>1, <2>2, Shape
  <2>4. n - 1 \in Nat /\ n = (n - 1) + 1
    BY <2>3
  <2>5. IsTree(l, OfHeight[n - 1])
    BY <2>1, <2>2, <2>4, Shape
  <2>6. l[2] \in AnyLevel /\ l[3] \in AnyLevel
    BY <1>1, <2>4, <2>5 DEF IsTree, AnyLevel
  <2> QED BY <1>1, <2>6, AnyLevelClosed, MaxesAreLevels DEF PushSucc
<1>2. CASE Op(l) # "max"
  BY <1>2, AnyLevelClosed DEF PushSucc
<1> QED BY <1>1, <1>2

LEMMA NormalizeFacts ==
    ASSUME NEW l \in Level
    PROVE  /\ Op(l) \in {"zero", "param"} => Normalize(l) = l
           /\ Op(l) = "succ" => Normalize(l) = PushSucc(Normalize(l[2]))
           /\ Op(l) = "max" => Normalize(l) = Max(Normalize(l[2]), Normalize(l[3]))
           /\ Op(l) = "imax" => Normalize(l) = IMax(Normalize(l[2]), Normalize(l[3]))
<1> DEFINE Body(f, k) ==
               IF Op(k) \in {"zero", "param"} THEN k
               ELSE IF Op(k) = "succ" THEN PushSucc(f[k[2]])
               ELSE IF Op(k) = "max" THEN Max(f[k[2]], f[k[3]])
               ELSE IMax(f[k[2]], f[k[3]])
           B == [k \in Level |-> [f \in [Level -> AnyLevel] |-> Body(f, k)]]
           made == CHOOSE f : f = [k \in Level |-> Body(f, k)]
<1>1. \A k \in Level : \A f \in [Level -> AnyLevel] : Body(f, k) \in AnyLevel
  <2> SUFFICES ASSUME NEW k \in Level, NEW f \in [Level -> AnyLevel] PROVE Body(f, k) \in AnyLevel
    OBVIOUS
  <2>1. CASE Op(k) \in {"zero", "param"}
    BY <2>1, LevelsAreLevels
  <2>2. CASE Op(k) = "succ"
    <3>1. f[k[2]] \in AnyLevel
      BY <2>2, Anatomy
    <3> QED BY <2>2, <3>1, PushSuccIsLevel
  <2>3. CASE Op(k) \in {"max", "imax"}
    <3>1. f[k[2]] \in AnyLevel /\ f[k[3]] \in AnyLevel
      BY <2>3, Anatomy
    <3> QED BY <2>3, <3>1, MaxesAreLevels
  <2> QED BY <2>1, <2>2, <2>3, Anatomy
<1>2. ASSUME NEW k \in Level, NEW f, NEW g, \A y \in Level : Rank[y] < Rank[k] => f[y] = g[y]
      PROVE  Body(f, k) = Body(g, k)
  BY <1>2, Anatomy
<1> HIDE DEF Body
<1>3. HasSolution(Level, AnyLevel, B)
  <2>1. B \in [Level -> [[Level -> AnyLevel] -> AnyLevel]]
    BY <1>1
  <2>2. \A k \in Level : \A f \in [Level -> AnyLevel] : B[k][f] = Body(f, k)
    OBVIOUS
  <2> HIDE DEF B
  <2>3. \A k \in Level : \A f, g \in [Level -> AnyLevel] :
            (\A y \in Level : Rank[y] < Rank[k] => f[y] = g[y]) => B[k][f] = B[k][g]
    BY <1>2, <2>2
  <2>4. AnyLevel # {}
    BY AnyLevelClosed
  <2>5. IsRecursion(Level, AnyLevel, Rank, B)
    BY <2>1, <2>3, <2>4, RankFacts DEF IsRecursion
  <2> QED BY <2>5, RecursiveFunction
<1>4. PICK f \in [Level -> AnyLevel] : \A k \in Level : f[k] = Body(f, k)
  BY <1>3 DEF HasSolution
<1>5. made = [k \in Level |-> Body(made, k)]
  <2>1. f = [k \in Level |-> Body(f, k)]
    BY <1>4
  <2> QED BY <2>1
<1> HIDE DEF made
<1>6. \A k \in Level : made[k] = Body(made, k)
  BY <1>5
<1>7. \A k \in Level : made[k] = f[k]
  <2> DEFINE T == { k \in Level : made[k] = f[k] }
  <2>1. ASSUME NEW k \in Level, \A y \in Level : Rank[y] < Rank[k] => y \in T
        PROVE  k \in T
    BY <1>2, <1>4, <1>6, <2>1
  <2>2. Level \subseteq T
    <3> HIDE DEF T
    <3> QED BY <2>1, RankFacts, RankInduction
  <2> QED BY <2>2
<1>8. \A k : Normalize(k) = made[k]
  BY DEF Normalize, made, Body
<1> QED BY <1>6, <1>7, <1>8, Anatomy DEF Body

\* A tree over levels of height n, no higher than the limit, is a level.
LEMMA TreesAreLevels ==
    ASSUME NEW n \in Nat, n + 1 <= 2 * MaxHeight
    PROVE  /\ OfHeight[n] \subseteq Level /\ OfHeight[n + 1] \subseteq Level
           /\ \A a \in OfHeight[n] : Succ(a) \in OfHeight[n + 1]
           /\ \A a, b \in OfHeight[n] : /\ RawMax(a, b) \in OfHeight[n + 1]
                                        /\ RawIMax(a, b) \in OfHeight[n + 1]
                                        /\ Max(a, b) \in OfHeight[n + 1]
                                        /\ IMax(a, b) \in OfHeight[n + 1]
<1>1. n + 1 \in Nat /\ n <= n + 1 /\ n <= 2 * MaxHeight
  BY Bounds
<1>2. OfHeight[n] \subseteq Level /\ OfHeight[n + 1] \subseteq Level /\ OfHeight[n] \subseteq OfHeight[n + 1]
  BY <1>1, Bounds, Higher DEF Level
<1>3. \A a \in OfHeight[n] : Succ(a) \in OfHeight[n + 1]
  BY Shape, Parts DEF IsTree
<1>4. ASSUME NEW a \in OfHeight[n], NEW b \in OfHeight[n]
      PROVE  /\ RawMax(a, b) \in OfHeight[n + 1] /\ RawIMax(a, b) \in OfHeight[n + 1]
             /\ Max(a, b) \in OfHeight[n + 1] /\ IMax(a, b) \in OfHeight[n + 1]
  <2>1. RawMax(a, b) \in OfHeight[n + 1] /\ RawIMax(a, b) \in OfHeight[n + 1]
    BY Shape, Parts DEF IsTree
  <2>2. Zero \in OfHeight[n + 1]
    BY Shape DEF IsAtom
  <2> QED BY <1>2, <2>1, <2>2, MaxResult, IMaxResult
<1> QED BY <1>2, <1>3, <1>4

LEMMA InstantiateMeaning ==
    ASSUME NEW s \in [Params -> InPlay], NEW r \in Valuations, NEW l \in InPlay
    PROVE  /\ Instantiate(l, s) \in Level
           /\ Value(Instantiate(l, s), r) = Value(l, [p \in Params |-> Value(s[p], r)])
<1> DEFINE q == [p \in Params |-> Value(s[p], r)]
           Same(k, n) == /\ Instantiate(k, s) \in OfHeight[n]
                         /\ Value(Instantiate(k, s), r) = Value(k, q)
           T == { n \in Nat : n <= MaxHeight => \A k \in OfHeight[n] : Same(k, n + MaxHeight) }
<1>1. q \in Valuations /\ \A p \in Params : q[p] = Value(s[p], r)
  BY LevelsAreLevels, ValueFacts DEF Valuations
<1> HIDE DEF q
<1>2. ASSUME NEW k \in Level, IsAtom(k)
      PROVE  Same(k, MaxHeight)
  <2>1. CASE k = Zero
    <3>1. Instantiate(k, s) = k
      BY <2>1, InstantiateFacts, Parts
    <3>2. Value(k, r) = 0 /\ Value(k, q) = 0
      BY <1>1, <2>1, ValueFacts, Parts DEF Valuations
    <3> QED BY <2>1, <3>1, <3>2, Bounds, Higher, Shape DEF IsAtom
  <2> QED BY <1>1, <1>2, <2>1, InstantiateFacts, ValueFacts DEF IsAtom, Valuations, InPlay
<1>3. \A k \in OfHeight[0] : IsAtom(k) /\ k \in Level
  BY Shape, Bounds, Higher DEF Level
<1>4. 0 \in T
  <2>1. 0 + MaxHeight = MaxHeight
    BY Bounds
  <2> QED BY <1>2, <1>3, <2>1
<1>5. ASSUME NEW n \in Nat, n \in T
      PROVE  n + 1 \in T
  <2> SUFFICES ASSUME n + 1 <= MaxHeight, NEW k \in OfHeight[n + 1]
               PROVE  Same(k, (n + 1) + MaxHeight)
    OBVIOUS
  <2> DEFINE h == n + MaxHeight
  <2>1. /\ h \in Nat /\ h + 1 = (n + 1) + MaxHeight /\ h + 1 <= 2 * MaxHeight /\ n <= MaxHeight
        /\ n + 1 \in Nat /\ n + 1 <= 2 * MaxHeight /\ MaxHeight <= h + 1
    BY Bounds
  <2>2. \A j \in OfHeight[n] : Same(j, h)
    BY <1>5, <2>1
  <2>3. k \in Level /\ OfHeight[n] \subseteq Level
    BY <2>1, Bounds, Higher DEF Level
  <2> HIDE DEF h
  <2>4. CASE IsAtom(k)
    <3>1. Same(k, MaxHeight)
      BY <1>2, <2>3, <2>4
    <3>2. OfHeight[MaxHeight] \subseteq OfHeight[h + 1]
      BY <2>1, Bounds, Higher
    <3> QED BY <2>1, <3>1, <3>2
  <2>5. CASE IsTree(k, OfHeight[n])
    <3>1. CASE Op(k) = "succ"
      <4>1. k[2] \in OfHeight[n] /\ Instantiate(k, s) = Succ(Instantiate(k[2], s))
        BY <2>3, <2>5, <3>1, InstantiateFacts DEF IsTree
      <4>2. Same(k[2], h)
        BY <2>2, <4>1
      <4> DEFINE i == Instantiate(k[2], s)
      <4>3. i \in OfHeight[h] /\ Value(i, r) = Value(k[2], q) /\ Instantiate(k, s) = Succ(i)
        BY <4>1, <4>2
      <4> HIDE DEF i
      <4>4. Succ(i) \in OfHeight[h + 1] /\ Succ(i) \in Level
        BY <2>1, <4>3, TreesAreLevels
      <4>5. Value(Succ(i), r) = Value(i, r) + 1
        BY <4>4, ValueFacts, Parts DEF Valuations
      <4>6. Value(k, q) = Value(k[2], q) + 1
        BY <1>1, <2>3, <3>1, ValueFacts DEF Valuations
      <4> QED BY <2>1, <4>3, <4>4, <4>5, <4>6
    <3>2. CASE Op(k) \in {"max", "imax"}
      <4> DEFINE i == Instantiate(k[2], s)
                 j == Instantiate(k[3], s)
      <4>1. k[2] \in OfHeight[n] /\ k[3] \in OfHeight[n]
        BY <2>5, <3>2 DEF IsTree
      <4>2. Same(k[2], h) /\ Same(k[3], h)
        BY <2>2, <4>1
      <4>3. /\ i \in OfHeight[h] /\ Value(i, r) = Value(k[2], q)
            /\ j \in OfHeight[h] /\ Value(j, r) = Value(k[3], q)
            /\ Op(k) = "max" => Instantiate(k, s) = Max(i, j)
            /\ Op(k) = "imax" => Instantiate(k, s) = IMax(i, j)
        BY <2>3, <4>2, InstantiateFacts
      <4> HIDE DEF i, j
      <4>4. /\ i \in Level /\ j \in Level /\ RawMax(i, j) \in Level /\ RawIMax(i, j) \in Level
            /\ Max(i, j) \in OfHeight[h + 1] /\ IMax(i, j) \in OfHeight[h + 1]
        BY <2>1, <4>3, TreesAreLevels
      <4>5. /\ Value(Max(i, j), r) = Larger(Value(i, r), Value(j, r))
            /\ Value(IMax(i, j), r) = IF Value(j, r) = 0 THEN 0
                                      ELSE Larger(Value(i, r), Value(j, r))
        BY <4>4, MaxMeaning, IMaxMeaning
      <4>6. /\ Op(k) = "max" => Value(k, q) = Larger(Value(k[2], q), Value(k[3], q))
            /\ Op(k) = "imax" => Value(k, q) = IF Value(k[3], q) = 0 THEN 0
                                               ELSE Larger(Value(k[2], q), Value(k[3], q))
        BY <1>1, <2>3, ValueFacts DEF Valuations
      <4> QED BY <2>1, <3>2, <4>3, <4>4, <4>5, <4>6
    <3> QED BY <2>5, <3>1, <3>2 DEF IsTree
  <2> QED BY <2>4, <2>5, Shape
<1>6. Nat \subseteq T
  <2> HIDE DEF T
  <2> QED BY <1>4, <1>5, Induction
<1>7. Same(l, MaxHeight + MaxHeight)
  BY <1>6, Bounds DEF InPlay
<1>8. MaxHeight + MaxHeight = 2 * MaxHeight
  BY Bounds
<1> QED BY <1>7, <1>8 DEF Level, q

LEMMA PushSuccMeaning ==
    ASSUME NEW n \in Nat, n + 1 <= 2 * MaxHeight, NEW a \in OfHeight[n], NEW r \in Valuations
    PROVE  PushSucc(a) \in OfHeight[n + 1] /\ Value(PushSucc(a), r) = Value(a, r) + 1
<1>1. /\ a \in Level /\ Succ(a) \in OfHeight[n + 1] /\ Succ(a) \in Level
  BY TreesAreLevels
<1>2. CASE Op(a) # "max"
  <2>1. PushSucc(a) = Succ(a)
    BY <1>2 DEF PushSucc
  <2> QED BY <1>1, <2>1, ValueFacts, Parts DEF Valuations
<1>3. CASE Op(a) = "max"
  <2>1. ~IsAtom(a)
    BY <1>3, Parts DEF IsAtom
  <2>2. n # 0
    BY <2>1, Shape
  <2>3. n - 1 \in Nat /\ (n - 1) + 1 = n /\ (n - 1) + 1 <= 2 * MaxHeight
    BY <2>2, Bounds
  <2>4. IsTree(a, OfHeight[n - 1])
    BY <2>1, <2>3, Shape
  <2> DEFINE x == a[2]
             y == a[3]
  <2>5. x \in OfHeight[n - 1] /\ y \in OfHeight[n - 1] /\ PushSucc(a) = Max(Succ(x), Succ(y))
    BY <1>3, <2>4 DEF IsTree, PushSucc
  <2>6. Value(a, r) = Larger(Value(x, r), Value(y, r))
    BY <1>1, <1>3, ValueFacts DEF Valuations
  <2> HIDE DEF x, y
  <2>7. x \in Level /\ y \in Level /\ Succ(x) \in OfHeight[n] /\ Succ(y) \in OfHeight[n]
    BY <2>3, <2>5, TreesAreLevels
  <2>8. /\ Succ(x) \in Level /\ Succ(y) \in Level /\ RawMax(Succ(x), Succ(y)) \in Level
        /\ Max(Succ(x), Succ(y)) \in OfHeight[n + 1]
    BY <2>7, TreesAreLevels
  <2>9. Value(Succ(x), r) = Value(x, r) + 1 /\ Value(Succ(y), r) = Value(y, r) + 1
    BY <2>8, ValueFacts, Parts DEF Valuations
  <2>10. Value(Max(Succ(x), Succ(y)), r) = Larger(Value(Succ(x), r), Value(Succ(y), r))
    BY <2>8, MaxMeaning
  <2>11. Value(x, r) \in Nat /\ Value(y, r) \in Nat
    BY <2>7, ValueFacts DEF Valuations
  <2> QED BY <2>5, <2>6, <2>8, <2>9, <2>10, <2>11 DEF Larger
<1> QED BY <1>2, <1>3

LEMMA NormalizeMeaning ==
    ASSUME NEW r \in Valuations
    PROVE  \A n \in Nat : n <= 2 * MaxHeight =>
               \A l \in OfHeight[n] : /\ Normalize(l) \in OfHeight[n]
                                      /\ Value(Normalize(l), r) = Value(l, r)
<1> DEFINE Same(k, n) == Normalize(k) \in OfHeight[n] /\ Value(Normalize(k), r) = Value(k, r)
           T == { n \in Nat : n <= 2 * MaxHeight => \A k \in OfHeight[n] : Same(k, n) }
<1>1. ASSUME NEW k \in Level, IsAtom(k)
      PROVE  Normalize(k) = k
  <2>1. Op(k) \in {"zero", "param"}
    BY <1>1, Parts DEF IsAtom
  <2> QED BY <2>1, NormalizeFacts
<1>2. 0 \in T
  BY <1>1, Shape, Bounds, Higher DEF Level
<1>3. ASSUME NEW n \in Nat, n \in T
      PROVE  n + 1 \in T
  <2> SUFFICES ASSUME n + 1 <= 2 * MaxHeight, NEW k \in OfHeight[n + 1]
               PROVE  Same(k, n + 1)
    OBVIOUS
  <2>1. n <= 2 * MaxHeight /\ n + 1 \in Nat
    BY Bounds
  <2>2. \A j \in OfHeight[n] : Same(j, n)
    BY <1>3, <2>1
  <2>3. k \in Level /\ OfHeight[n] \subseteq Level
    BY TreesAreLevels
  <2>4. CASE IsAtom(k)
    BY <1>1, <2>3, <2>4
  <2>5. CASE IsTree(k, OfHeight[n])
    <3>1. CASE Op(k) = "succ"
      <4> DEFINE i == Normalize(k[2])
      <4>1. k[2] \in OfHeight[n] /\ Normalize(k) = PushSucc(i)
        BY <2>3, <2>5, <3>1, NormalizeFacts DEF IsTree
      <4>2. i \in OfHeight[n] /\ Value(i, r) = Value(k[2], r)
        BY <2>2, <4>1
      <4> HIDE DEF i
      <4>3. PushSucc(i) \in OfHeight[n + 1] /\ Value(PushSucc(i), r) = Value(i, r) + 1
        BY <4>2, PushSuccMeaning
      <4>4. Value(k, r) = Value(k[2], r) + 1
        BY <2>3, <3>1, ValueFacts DEF Valuations
      <4> QED BY <4>1, <4>2, <4>3, <4>4
    <3>2. CASE Op(k) \in {"max", "imax"}
      <4> DEFINE i == Normalize(k[2])
                 j == Normalize(k[3])
      <4>1. k[2] \in OfHeight[n] /\ k[3] \in OfHeight[n]
        BY <2>5, <3>2 DEF IsTree
      <4>2. /\ i \in OfHeight[n] /\ Value(i, r) = Value(k[2], r)
            /\ j \in OfHeight[n] /\ Value(j, r) = Value(k[3], r)
            /\ Op(k) = "max" => Normalize(k) = Max(i, j)
            /\ Op(k) = "imax" => Normalize(k) = IMax(i, j)
        BY <2>2, <2>3, <4>1, NormalizeFacts
      <4> HIDE DEF i, j
      <4>3. /\ i \in Level /\ j \in Level /\ RawMax(i, j) \in Level /\ RawIMax(i, j) \in Level
            /\ Max(i, j) \in OfHeight[n + 1] /\ IMax(i, j) \in OfHeight[n + 1]
        BY <4>2, TreesAreLevels
      <4>4. /\ Value(Max(i, j), r) = Larger(Value(i, r), Value(j, r))
            /\ Value(IMax(i, j), r) = IF Value(j, r) = 0 THEN 0
                                      ELSE Larger(Value(i, r), Value(j, r))
        BY <4>3, MaxMeaning, IMaxMeaning
      <4>5. /\ Op(k) = "max" => Value(k, r) = Larger(Value(k[2], r), Value(k[3], r))
            /\ Op(k) = "imax" => Value(k, r) = IF Value(k[3], r) = 0 THEN 0
                                               ELSE Larger(Value(k[2], r), Value(k[3], r))
        BY <2>3, ValueFacts DEF Valuations
      <4> QED BY <3>2, <4>2, <4>3, <4>4, <4>5
    <3> QED BY <2>5, <3>1, <3>2 DEF IsTree
  <2> QED BY <2>4, <2>5, Shape
<1>4. Nat \subseteq T
  <2> HIDE DEF T
  <2> QED BY <1>2, <1>3, Induction
<1> QED BY <1>4

-----------------------------------------------------------------------------
(* The decision procedure *)

\* What the recursion of leq makes smaller: an imax weighs more than the max
\* that replaces it.
Weight == [l \in Level |-> 2 * Rank[l] + IF Op(l) = "imax" THEN 1 ELSE 0]

LEMMA ZeroFacts == Zero \in Level /\ Zero \in InPlay /\ Rank[Zero] = 0 /\ Weight[Zero] = 0
<1>1. Zero \in OfHeight[0] /\ Zero \in Level /\ Zero \in InPlay
  BY Bounds, Higher, Shape DEF Level, InPlay, IsAtom
<1>2. Rank[Zero] = 0
  BY <1>1, RankFacts
<1> QED BY <1>1, <1>2, Parts DEF Weight

LEMMA WeightFacts ==
    /\ Weight \in [Level -> Nat]
    /\ \A l \in Level :
        /\ Op(l) \in {"succ", "max", "imax"} => Weight[l[2]] < Weight[l]
        /\ Op(l) \in {"max", "imax"} => Weight[l[3]] < Weight[l]
        /\ Op(l) = "imax" => /\ RawMax(l[2], l[3]) \in Level /\ Max(l[2], l[3]) \in Level
                             /\ Weight[Max(l[2], l[3])] < Weight[l] /\ 0 < Weight[l]
<1>1. Weight \in [Level -> Nat]
  BY RankFacts DEF Weight
<1>2. ASSUME NEW l \in Level
      PROVE  Rank[l] \in Nat /\ 2 * Rank[l] <= Weight[l] /\ Weight[l] <= 2 * Rank[l] + 1
  BY RankFacts DEF Weight
<1>3. ASSUME NEW l \in Level, NEW k \in Level, Rank[k] < Rank[l]
      PROVE  Weight[k] < Weight[l]
  <2>1. Weight[k] <= 2 * Rank[k] + 1 /\ 2 * Rank[l] <= Weight[l] /\ Rank[k] \in Nat /\ Rank[l] \in Nat
    BY <1>2
  <2>2. Weight[k] \in Nat /\ Weight[l] \in Nat
    BY <1>1
  <2> QED BY <1>3, <2>1, <2>2
<1>4. ASSUME NEW l \in Level, Op(l) = "imax"
      PROVE  /\ RawMax(l[2], l[3]) \in Level /\ Max(l[2], l[3]) \in Level
             /\ Weight[Max(l[2], l[3])] < Weight[l] /\ 0 < Weight[l]
  <2> DEFINE m == RawMax(l[2], l[3])
  <2>1. ~IsAtom(l)
    BY <1>4, Parts DEF IsAtom
  <2>2. Rank[l] \in Nat /\ l \in OfHeight[Rank[l]] /\ Rank[l] # 0 /\ Rank[l] <= 2 * MaxHeight
    BY <2>1, RankFacts, Shape, Bounds DEF Level
  <2>3. Rank[l] - 1 \in Nat /\ (Rank[l] - 1) + 1 = Rank[l]
    BY <2>2
  <2>4. IsTree(m, OfHeight[Rank[l] - 1])
    <3>1. IsTree(l, OfHeight[Rank[l] - 1])
      BY <2>1, <2>2, <2>3, Shape
    <3> QED BY <1>4, <3>1, Parts DEF IsTree
  <2>5. m \in OfHeight[Rank[l]] /\ Op(m) = "max"
    BY <2>3, <2>4, Shape, Parts
  <2> HIDE DEF m
  <2>6. m \in Level /\ Rank[m] <= Rank[l]
    BY <2>2, <2>5, RankFacts, Higher, Bounds DEF Level
  <2>7. Weight[m] = 2 * Rank[m] /\ Weight[l] = 2 * Rank[l] + 1 /\ Rank[m] \in Nat
    BY <1>4, <2>5, <2>6, RankFacts DEF Weight
  <2>8. Weight[m] < Weight[l] /\ 0 < Weight[l]
    BY <2>2, <2>6, <2>7
  <2>9. /\ l[2] \in Level /\ Weight[l[2]] < Weight[l]
        /\ l[3] \in Level /\ Weight[l[3]] < Weight[l]
    BY <1>3, <1>4, Anatomy
  <2>10. Max(l[2], l[3]) \in {l[2], l[3], m}
    BY MaxResult DEF m
  <2> QED BY <2>6, <2>8, <2>9, <2>10 DEF m
<1>5. \A l \in Level : /\ Op(l) \in {"succ", "max", "imax"} => Weight[l[2]] < Weight[l]
                       /\ Op(l) \in {"max", "imax"} => Weight[l[3]] < Weight[l]
  BY <1>3, Anatomy
<1> QED BY <1>1, <1>4, <1>5

Questions == Level \X Level \X Int
Work == [x \in Questions |-> Weight[x[1]] + Weight[x[2]]]

LEMMA WorkFacts ==
    /\ Work \in [Questions -> Nat]
    /\ \A a, b \in Level, d \in Int : /\ <<a, b, d>> \in Questions
                                      /\ Work[<<a, b, d>>] = Weight[a] + Weight[b]
  BY WeightFacts DEF Work, Questions

\* leq looks only at questions of less work.
LEMMA LeqRuleLooksBelow ==
    ASSUME NEW l1 \in Level, NEW l2 \in Level, NEW d \in Int, NEW f, NEW g,
           \A a, b \in Level, e \in Int :
               Weight[a] + Weight[b] < Weight[l1] + Weight[l2] => f[<<a, b, e>>] = g[<<a, b, e>>]
    PROVE  LeqRule(f, l1, l2, d) = LeqRule(g, l1, l2, d)
<1>1. /\ Weight[l1] \in Nat /\ Weight[l2] \in Nat /\ Weight[Zero] = 0 /\ Zero \in Level
      /\ d - 1 \in Int /\ d + 1 \in Int /\ 0 \in Int
  BY WeightFacts, ZeroFacts
<1>2. \A l \in {l1, l2} :
          /\ Op(l) \in {"succ", "max", "imax"} =>
                 l[2] \in Level /\ Weight[l[2]] \in Nat /\ Weight[l[2]] < Weight[l]
          /\ Op(l) \in {"max", "imax"} =>
                 l[3] \in Level /\ Weight[l[3]] \in Nat /\ Weight[l[3]] < Weight[l]
          /\ Op(l) = "imax" => /\ Max(l[2], l[3]) \in Level /\ Weight[Max(l[2], l[3])] \in Nat
                               /\ Weight[Max(l[2], l[3])] < Weight[l] /\ 0 < Weight[l]
  BY Anatomy, WeightFacts
<1>3. Op(l1) = "succ" => f[<<l1[2], l2, d - 1>>] = g[<<l1[2], l2, d - 1>>]
  BY <1>1, <1>2
<1>4. Op(l2) = "succ" => f[<<l1, l2[2], d + 1>>] = g[<<l1, l2[2], d + 1>>]
  BY <1>1, <1>2
<1>5. Op(l1) = "max" => /\ f[<<l1[2], l2, d>>] = g[<<l1[2], l2, d>>]
                        /\ f[<<l1[3], l2, d>>] = g[<<l1[3], l2, d>>]
  BY <1>1, <1>2
<1>6. Op(l2) = "max" => /\ f[<<l1, l2[2], d>>] = g[<<l1, l2[2], d>>]
                        /\ f[<<l1, l2[3], d>>] = g[<<l1, l2[3], d>>]
  BY <1>1, <1>2
<1>7. ASSUME Op(l1) = "imax", Op(l2) = "imax"
      PROVE  /\ f[<<l1[3], l2[3], 0>>] = g[<<l1[3], l2[3], 0>>]
             /\ f[<<l2[3], l1[3], 0>>] = g[<<l2[3], l1[3], 0>>]
             /\ f[<<Max(l1[2], l1[3]), Max(l2[2], l2[3]), d>>]
                = g[<<Max(l1[2], l1[3]), Max(l2[2], l2[3]), d>>]
  BY <1>1, <1>2, <1>7
<1>8. SameIMaxRight(f, l1, l2) <=> SameIMaxRight(g, l1, l2)
  BY <1>7 DEF SameIMaxRight
<1>9. Op(l1) = "imax" => /\ f[<<Zero, l2, d>>] = g[<<Zero, l2, d>>]
                         /\ f[<<Max(l1[2], l1[3]), l2, d>>] = g[<<Max(l1[2], l1[3]), l2, d>>]
  BY <1>1, <1>2
<1>10. Op(l2) = "imax" => /\ f[<<l1, Zero, d>>] = g[<<l1, Zero, d>>]
                          /\ f[<<l1, Max(l2[2], l2[3]), d>>] = g[<<l1, Max(l2[2], l2[3]), d>>]
  BY <1>1, <1>2
<1>11. SameIMaxRight(f, l1, l2) => Op(l1) = "imax" /\ Op(l2) = "imax"
  BY DEF SameIMaxRight
<1> QED BY <1>3, <1>4, <1>5, <1>6, <1>7, <1>8, <1>9, <1>10, <1>11 DEF LeqRule

LEMMA LeqFacts ==
    ASSUME NEW l1 \in Level, NEW l2 \in Level, NEW d \in Int
    PROVE  Leq(l1, l2, d) \in BOOLEAN /\ Leq(l1, l2, d) = LeqRule(leq, l1, l2, d)
<1> DEFINE Body(f, x) == LeqRule(f, x[1], x[2], x[3])
           B == [x \in Questions |-> [f \in [Questions -> BOOLEAN] |-> Body(f, x)]]
<1>1. ASSUME NEW x \in Questions, NEW f \in [Questions -> BOOLEAN]
      PROVE  Body(f, x) \in BOOLEAN
  <2>1. PICK a \in Level, b \in Level, e \in Int : x = <<a, b, e>>
    BY DEF Questions
  <2>2. /\ Op(a) \in {"succ", "max", "imax"} => a[2] \in Level
        /\ Op(a) \in {"max", "imax"} => a[3] \in Level
        /\ Op(a) = "imax" => Max(a[2], a[3]) \in Level
        /\ Op(b) \in {"succ", "max", "imax"} => b[2] \in Level
        /\ Op(b) \in {"max", "imax"} => b[3] \in Level
        /\ Op(b) = "imax" => Max(b[2], b[3]) \in Level
        /\ Zero \in Level /\ e - 1 \in Int /\ e + 1 \in Int
    BY Anatomy, WeightFacts, ZeroFacts
  <2>3. \A u, v \in Level, c \in Int : f[<<u, v, c>>] \in BOOLEAN
    BY WorkFacts
  <2>4. LeqRule(f, a, b, e) \in BOOLEAN
    <3>1. /\ Op(a) = "succ" => f[<<a[2], b, e - 1>>] \in BOOLEAN
          /\ Op(b) = "succ" => f[<<a, b[2], e + 1>>] \in BOOLEAN
          /\ Op(a) = "imax" /\ Op(b) = "imax" =>
                 f[<<Max(a[2], a[3]), Max(b[2], b[3]), e>>] \in BOOLEAN
      BY <2>2, <2>3
    <3>2. SameIMaxRight(f, a, b) => Op(a) = "imax" /\ Op(b) = "imax"
      BY DEF SameIMaxRight
    <3>3. (e >= 0) \in BOOLEAN /\ AtomsBelow(a, e) \in BOOLEAN
      BY DEF AtomsBelow
    <3> QED BY <3>1, <3>2, <3>3, Zenon DEF LeqRule
  <2> QED BY <2>1, <2>4
<1>2. ASSUME NEW x \in Questions, NEW f, NEW g,
             \A y \in Questions : Work[y] < Work[x] => f[y] = g[y]
      PROVE  Body(f, x) = Body(g, x)
  <2>1. PICK a \in Level, b \in Level, e \in Int : x = <<a, b, e>>
    BY DEF Questions
  <2>2. \A u, v \in Level, c \in Int :
            Weight[u] + Weight[v] < Weight[a] + Weight[b] => f[<<u, v, c>>] = g[<<u, v, c>>]
    BY <1>2, <2>1, WorkFacts
  <2> QED BY <2>1, <2>2, LeqRuleLooksBelow
<1> HIDE DEF Body
<1>3. HasSolution(Questions, BOOLEAN, B)
  <2>1. B \in [Questions -> [[Questions -> BOOLEAN] -> BOOLEAN]]
    BY <1>1
  <2>2. \A x \in Questions : \A f \in [Questions -> BOOLEAN] : B[x][f] = Body(f, x)
    OBVIOUS
  <2> HIDE DEF B
  <2>3. \A x \in Questions : \A f, g \in [Questions -> BOOLEAN] :
            (\A y \in Questions : Work[y] < Work[x] => f[y] = g[y]) => B[x][f] = B[x][g]
    BY <1>2, <2>2
  <2>4. IsRecursion(Questions, BOOLEAN, Work, B)
    BY <2>1, <2>3, WorkFacts DEF IsRecursion
  <2> QED BY <2>4, RecursiveFunction
<1>4. PICK f \in [Questions -> BOOLEAN] : \A x \in Questions : f[x] = Body(f, x)
  BY <1>3 DEF HasSolution
<1> DEFINE made == CHOOSE h : h = [x \in Questions |-> Body(h, x)]
<1>5. made = [x \in Questions |-> Body(made, x)]
  <2>1. f = [x \in Questions |-> Body(f, x)]
    BY <1>4
  <2> QED BY <2>1
<1>6. leq = made
  BY DEF leq, Questions, Body
<1> HIDE DEF made
<1>7. \A x \in Questions : made[x] = Body(made, x)
  BY <1>5
<1>8. \A x \in Questions : made[x] = f[x]
  <2> DEFINE T == { x \in Questions : made[x] = f[x] }
  <2>1. ASSUME NEW x \in Questions, \A y \in Questions : Work[y] < Work[x] => y \in T
        PROVE  x \in T
    BY <1>2, <1>4, <1>7, <2>1
  <2>2. Questions \subseteq T
    <3> HIDE DEF T
    <3> QED BY <2>1, WorkFacts, RankInduction
  <2> QED BY <2>2
<1>9. <<l1, l2, d>> \in Questions
  BY WorkFacts
<1>10. Leq(l1, l2, d) = leq[<<l1, l2, d>>]
  BY DEF Leq
<1>11. Body(leq, <<l1, l2, d>>) = LeqRule(leq, l1, l2, d)
  BY DEF Body
<1> QED BY <1>4, <1>6, <1>7, <1>8, <1>9, <1>10, <1>11

\* The equation of leq, rule by rule, for the questions the properties ask.
LEMMA LeqRules ==
    ASSUME NEW a \in Level, NEW b \in Level, NEW d \in Int
    PROVE  /\ a = b => (Leq(a, b, d) <=> d >= 0)
           /\ a # b /\ Op(a) = "succ" => (Leq(a, b, d) <=> Leq(a[2], b, d - 1))
           /\ a # b /\ Op(a) # "succ" /\ Op(b) = "succ" => (Leq(a, b, d) <=> Leq(a, b[2], d + 1))
           /\ a # b /\ Op(a) = "max" /\ Op(b) # "succ" =>
                  (Leq(a, b, d) <=> Leq(a[2], b, d) /\ Leq(a[3], b, d))
           /\ a # b /\ Op(a) \notin {"succ", "max"} /\ Op(b) = "max" =>
                  (Leq(a, b, d) <=> Leq(a, b[2], d) \/ Leq(a, b[3], d))
           /\ Op(a) = "imax" /\ b = Zero =>
                  (Leq(a, b, d) <=> Leq(Zero, b, d) /\ Leq(Max(a[2], a[3]), b, d))
           /\ a # b /\ Op(a) \in {"zero", "param"} /\ Op(b) \in {"zero", "param"} =>
                  (Leq(a, b, d) <=> Op(a) = "zero" /\ d >= 0)
<1>1. Leq(a, b, d) = LeqRule(leq, a, b, d)
  BY LeqFacts
<1>2. Op(Zero) = "zero"
  BY Parts
<1> QED BY <1>1, <1>2 DEF LeqRule, Leq, AtomsBelow, SameIMaxRight

AllZero == [p \in Params |-> 0]

LEMMA AssignmentFacts ==
    /\ Assignments \subseteq Valuations /\ AllZero \in Assignments
    /\ \A p \in Params : [AllZero EXCEPT ![p] = 1] \in Assignments
    /\ \A p \in Params : [AllZero EXCEPT ![p] = MaxValue] \in Assignments
  BY Bounds DEF Assignments, Valuations, AllZero

\* Against zero leq is sound, also for levels with imax.
LEMMA BelowZero ==
    ASSUME NEW r \in Valuations
    PROVE  \A l \in Level : \A d \in Int : Leq(l, Zero, d) => Value(l, r) <= d
<1> DEFINE T == { l \in Level : \A d \in Int : Leq(l, Zero, d) => Value(l, r) <= d }
<1>1. Zero \in Level /\ Op(Zero) = "zero" /\ Value(Zero, r) = 0
  BY ZeroFacts, Parts, ValueFacts DEF Valuations
<1>2. ASSUME NEW l \in Level, \A k \in Level : Weight[k] < Weight[l] => k \in T
      PROVE  l \in T
  <2> SUFFICES ASSUME NEW d \in Int, Leq(l, Zero, d) PROVE Value(l, r) <= d
    OBVIOUS
  <2>1. \A k \in Level : Weight[k] < Weight[l] =>
            \A e \in Int : Leq(k, Zero, e) => Value(k, r) <= e
    BY <1>2
  <2>2. Value(l, r) \in Nat
    BY ValueFacts DEF Valuations
  <2>3. CASE l = Zero
    BY <1>1, <2>3, LeqRules
  <2>4. CASE Op(l) = "param"
    BY <1>1, <2>4, LeqRules
  <2>5. CASE Op(l) = "succ"
    <3>1. l[2] \in Level /\ Weight[l[2]] < Weight[l] /\ d - 1 \in Int
      BY <2>5, Anatomy, WeightFacts
    <3>2. Leq(l[2], Zero, d - 1)
      BY <1>1, <2>5, LeqRules
    <3>3. Value(l[2], r) <= d - 1
      BY <2>1, <3>1, <3>2
    <3>4. Value(l, r) = Value(l[2], r) + 1 /\ Value(l[2], r) \in Nat
      BY <2>5, <3>1, ValueFacts DEF Valuations
    <3> QED BY <3>3, <3>4
  <2>6. CASE Op(l) = "max"
    <3>1. l[2] \in Level /\ Weight[l[2]] < Weight[l] /\ l[3] \in Level /\ Weight[l[3]] < Weight[l]
      BY <2>6, Anatomy, WeightFacts
    <3>2. Leq(l[2], Zero, d) /\ Leq(l[3], Zero, d)
      BY <1>1, <2>6, LeqRules
    <3>3. Value(l[2], r) <= d /\ Value(l[3], r) <= d
      BY <2>1, <3>1, <3>2
    <3>4. Value(l, r) = Larger(Value(l[2], r), Value(l[3], r))
      BY <2>6, ValueFacts DEF Valuations
    <3> QED BY <3>3, <3>4 DEF Larger
  <2>7. CASE Op(l) = "imax"
    <3>1. /\ l[2] \in Level /\ l[3] \in Level /\ RawMax(l[2], l[3]) \in Level
          /\ Max(l[2], l[3]) \in Level /\ Weight[Max(l[2], l[3])] < Weight[l]
      BY <2>7, Anatomy, WeightFacts
    <3>2. Leq(Zero, Zero, d) /\ Leq(Max(l[2], l[3]), Zero, d)
      BY <1>1, <2>7, LeqRules
    <3>3. d >= 0 /\ Value(Max(l[2], l[3]), r) <= d
      BY <1>1, <2>1, <3>1, <3>2, LeqRules
    <3>4. Value(Max(l[2], l[3]), r) = Larger(Value(l[2], r), Value(l[3], r))
      BY <3>1, MaxMeaning
    <3>5. Value(l, r) = IF Value(l[3], r) = 0 THEN 0 ELSE Larger(Value(l[2], r), Value(l[3], r))
      BY <2>7, ValueFacts DEF Valuations
    <3> QED BY <3>3, <3>4, <3>5
  <2> QED BY <2>3, <2>4, <2>5, <2>6, <2>7, Anatomy
<1>3. Level \subseteq T
  <2> HIDE DEF T
  <2> QED BY <1>2, WeightFacts, RankInduction
<1> QED BY <1>3

\* The normal form of a level that is always zero is zero.
LEMMA AlwaysZero ==
    \A l \in Level : (\A r \in Assignments : Value(l, r) = 0) => Normalize(l) = Zero
<1> DEFINE Null(k) == \A r \in Assignments : Value(k, r) = 0
           T == { l \in Level : Null(l) => Normalize(l) = Zero }
<1>1. ASSUME NEW l \in Level, Op(l) \in {"succ", "max", "imax"} => l[2] \in T,
             Op(l) \in {"max", "imax"} => l[3] \in T
      PROVE  l \in T
  <2> SUFFICES ASSUME Null(l) PROVE Normalize(l) = Zero
    OBVIOUS
  <2>1. /\ Op(l) \in {"succ", "max", "imax"} =>
               l[2] \in Level /\ \A r \in Assignments : Value(l[2], r) \in Nat
        /\ Op(l) \in {"max", "imax"} =>
               l[3] \in Level /\ \A r \in Assignments : Value(l[3], r) \in Nat
    BY Anatomy, ValueFacts, AssignmentFacts DEF Valuations
  <2>2. CASE Op(l) = "zero"
    BY <2>2, NormalizeFacts, Anatomy
  <2>3. CASE Op(l) = "param"
    <3> DEFINE r == [AllZero EXCEPT ![l[2]] = 1]
    <3>1. l[2] \in Params
      BY <2>3, Anatomy
    <3>2. r \in Assignments /\ r[l[2]] = 1
      BY <3>1, AssignmentFacts DEF AllZero
    <3> HIDE DEF r
    <3>3. Value(l, r) = 1
      BY <2>3, <3>2, ValueFacts, AssignmentFacts DEF Valuations
    <3> QED BY <3>2, <3>3
  <2>4. CASE Op(l) = "succ"
    <3>1. Value(l, AllZero) = Value(l[2], AllZero) + 1
      BY <2>4, ValueFacts, AssignmentFacts DEF Valuations
    <3> QED BY <2>1, <2>4, <3>1, AssignmentFacts
  <2>5. CASE Op(l) = "max"
    <3>1. \A r \in Assignments : Value(l, r) = Larger(Value(l[2], r), Value(l[3], r))
      BY <2>5, ValueFacts, AssignmentFacts DEF Valuations
    <3>2. Null(l[2]) /\ Null(l[3])
      BY <2>1, <2>5, <3>1 DEF Larger
    <3>3. Normalize(l[2]) = Zero /\ Normalize(l[3]) = Zero
      BY <1>1, <2>5, <3>2
    <3>4. Max(Zero, Zero) = Zero
      BY MaxResult DEF Max
    <3> QED BY <2>5, <3>3, <3>4, NormalizeFacts
  <2>6. CASE Op(l) = "imax"
    <3>1. \A r \in Assignments :
              Value(l, r) = IF Value(l[3], r) = 0 THEN 0
                            ELSE Larger(Value(l[2], r), Value(l[3], r))
      BY <2>6, ValueFacts, AssignmentFacts DEF Valuations
    <3>2. Null(l[3])
      BY <2>1, <2>6, <3>1 DEF Larger
    <3>3. Normalize(l[3]) = Zero
      BY <1>1, <2>6, <3>2
    <3>4. \A a : IMax(a, Zero) = Zero
      BY IsNotZeroFacts, ZeroFacts, Parts DEF IMax, IsZero
    <3> QED BY <2>6, <3>3, <3>4, NormalizeFacts
  <2> QED BY <2>2, <2>3, <2>4, <2>5, <2>6, Anatomy
<1>2. Level \subseteq T
  <2> HIDE DEF T
  <2> QED BY <1>1, LevelInduction
<1> QED BY <1>2

-----------------------------------------------------------------------------
(* leq is exact between levels without imax *)

LEMMA FreeFacts ==
    ASSUME NEW l \in Level, IMaxFree(l)
    PROVE  /\ Op(l) \in {"zero", "param", "succ", "max"}
           /\ Op(l) = "succ" => /\ l[2] \in Level /\ IMaxFree(l[2]) /\ Rank[l[2]] \in Nat
                                /\ Rank[l] \in Nat /\ Rank[l[2]] + 1 <= Rank[l]
           /\ Op(l) = "max" => /\ l[2] \in Level /\ IMaxFree(l[2]) /\ Rank[l[2]] \in Nat
                               /\ l[3] \in Level /\ IMaxFree(l[3]) /\ Rank[l[3]] \in Nat
                               /\ Rank[l] \in Nat /\ Rank[l[2]] <= Rank[l] /\ Rank[l[3]] <= Rank[l]
<1>1. Op(l) \in {"zero", "param", "succ", "max"}
  BY IMaxFreeFacts, Anatomy
<1>2. Op(l) \in {"succ", "max"} => l[2] \in Level /\ IMaxFree(l[2]) /\ Rank[l[2]] < Rank[l]
  BY IMaxFreeFacts, Anatomy
<1>3. Op(l) = "max" => l[3] \in Level /\ IMaxFree(l[3]) /\ Rank[l[3]] < Rank[l]
  BY IMaxFreeFacts, Anatomy
<1> QED BY <1>1, <1>2, <1>3, RankFacts

\* Zero is below a level exactly when it is where all parameters are zero.
LEMMA ZeroBelow ==
    \A l \in Level : IMaxFree(l) =>
        \A d \in Int : Leq(Zero, l, d) <=> 0 <= Value(l, AllZero) + d
<1> DEFINE T == { l \in Level : IMaxFree(l) =>
                      \A d \in Int : Leq(Zero, l, d) <=> 0 <= Value(l, AllZero) + d }
<1>1. Zero \in Level /\ Op(Zero) = "zero" /\ AllZero \in Valuations
  BY ZeroFacts, Parts, AssignmentFacts
<1>2. ASSUME NEW l \in Level, Op(l) \in {"succ", "max", "imax"} => l[2] \in T,
             Op(l) \in {"max", "imax"} => l[3] \in T
      PROVE  l \in T
  <2> SUFFICES ASSUME IMaxFree(l), NEW d \in Int
               PROVE  Leq(Zero, l, d) <=> 0 <= Value(l, AllZero) + d
    OBVIOUS
  <2>1. CASE l = Zero
    <3>1. Value(l, AllZero) = 0
      BY <1>1, <2>1, ValueFacts DEF Valuations
    <3>2. Leq(Zero, l, d) <=> d >= 0
      BY <1>1, <2>1, LeqRules
    <3> QED BY <3>1, <3>2
  <2>2. CASE Op(l) = "param"
    <3>1. Value(l, AllZero) = 0
      BY <1>1, <2>2, ValueFacts, Anatomy DEF Valuations, AllZero
    <3>2. Leq(Zero, l, d) <=> d >= 0
      BY <1>1, <2>2, LeqRules
    <3> QED BY <3>1, <3>2
  <2>3. CASE Op(l) = "succ"
    <3>1. l[2] \in Level /\ IMaxFree(l[2]) /\ d + 1 \in Int
      BY <2>3, FreeFacts
    <3>2. Leq(Zero, l, d) <=> Leq(Zero, l[2], d + 1)
      BY <1>1, <2>3, LeqRules
    <3>3. Leq(Zero, l[2], d + 1) <=> 0 <= Value(l[2], AllZero) + (d + 1)
      BY <1>2, <2>3, <3>1
    <3>4. Value(l, AllZero) = Value(l[2], AllZero) + 1 /\ Value(l[2], AllZero) \in Nat
      BY <1>1, <2>3, <3>1, ValueFacts DEF Valuations
    <3> QED BY <3>2, <3>3, <3>4
  <2>4. CASE Op(l) = "max"
    <3>1. l[2] \in Level /\ IMaxFree(l[2]) /\ l[3] \in Level /\ IMaxFree(l[3])
      BY <2>4, FreeFacts
    <3>2. Leq(Zero, l, d) <=> Leq(Zero, l[2], d) \/ Leq(Zero, l[3], d)
      BY <1>1, <2>4, LeqRules
    <3>3. /\ Leq(Zero, l[2], d) <=> 0 <= Value(l[2], AllZero) + d
          /\ Leq(Zero, l[3], d) <=> 0 <= Value(l[3], AllZero) + d
      BY <1>2, <2>4, <3>1
    <3>4. /\ Value(l, AllZero) = Larger(Value(l[2], AllZero), Value(l[3], AllZero))
          /\ Value(l[2], AllZero) \in Nat /\ Value(l[3], AllZero) \in Nat
      BY <1>1, <2>4, <3>1, ValueFacts DEF Valuations
    <3> QED BY <3>2, <3>3, <3>4 DEF Larger
  <2> QED BY <2>1, <2>2, <2>3, <2>4, FreeFacts, Anatomy
<1>3. Level \subseteq T
  <2> HIDE DEF T
  <2> QED BY <1>2, LevelInduction
<1> QED BY <1>3

\* A parameter is below a level exactly when it is where that parameter alone is
\* large: larger than the numerals of the level.
LEMMA ParamBelow ==
    ASSUME NEW p \in Params
    PROVE  \A l \in Level : IMaxFree(l) => \A d \in Int : d + Rank[l] < MaxValue =>
               (Leq(Param(p), l, d) <=> MaxValue <= Value(l, [AllZero EXCEPT ![p] = MaxValue]) + d)
<1> DEFINE r == [AllZero EXCEPT ![p] = MaxValue]
           T == { l \in Level : IMaxFree(l) => \A d \in Int : d + Rank[l] < MaxValue =>
                      (Leq(Param(p), l, d) <=> MaxValue <= Value(l, r) + d) }
<1>1. r \in Valuations /\ r[p] = MaxValue /\ \A q \in Params \ {p} : r[q] = 0
  BY AssignmentFacts DEF AllZero
<1> HIDE DEF r
<1>2. Param(p) \in Level /\ Op(Param(p)) = "param" /\ Param(p)[2] = p /\ MaxValue \in Nat
  <2>1. IsAtom(Param(p))
    BY Parts DEF IsAtom
  <2> QED BY <2>1, Parts, Bounds, Higher, Shape DEF Level
<1>3. ASSUME NEW l \in Level, Op(l) \in {"succ", "max", "imax"} => l[2] \in T,
             Op(l) \in {"max", "imax"} => l[3] \in T
      PROVE  l \in T
  <2> SUFFICES ASSUME IMaxFree(l), NEW d \in Int, d + Rank[l] < MaxValue
               PROVE  Leq(Param(p), l, d) <=> MaxValue <= Value(l, r) + d
    OBVIOUS
  <2>0. Rank[l] \in Nat /\ d < MaxValue
    BY <1>2, RankFacts
  <2>1. CASE Op(l) = "zero"
    <3>1. Value(l, r) = 0
      BY <1>1, <2>1, ValueFacts DEF Valuations
    <3>2. ~Leq(Param(p), l, d)
      BY <1>2, <2>1, LeqRules
    <3> QED BY <1>2, <2>0, <3>1, <3>2
  <2>2. CASE l = Param(p)
    <3>1. Value(l, r) = MaxValue
      BY <1>1, <1>2, <2>2, ValueFacts DEF Valuations
    <3>2. Leq(Param(p), l, d) <=> d >= 0
      BY <1>2, <2>2, LeqRules
    <3> QED BY <1>2, <3>1, <3>2
  <2>3. CASE Op(l) = "param" /\ l # Param(p)
    <3>1. l[2] \in Params \ {p}
      BY <2>3, Anatomy
    <3>2. Value(l, r) = 0
      BY <1>1, <2>3, <3>1, ValueFacts DEF Valuations
    <3>3. ~Leq(Param(p), l, d)
      BY <1>2, <2>3, LeqRules
    <3> QED BY <1>2, <2>0, <3>2, <3>3
  <2>4. CASE Op(l) = "succ"
    <3>1. l[2] \in Level /\ IMaxFree(l[2]) /\ d + 1 \in Int /\ (d + 1) + Rank[l[2]] < MaxValue
      BY <1>2, <2>4, FreeFacts
    <3>2. Leq(Param(p), l, d) <=> Leq(Param(p), l[2], d + 1)
      BY <1>2, <2>4, LeqRules
    <3>3. Leq(Param(p), l[2], d + 1) <=> MaxValue <= Value(l[2], r) + (d + 1)
      BY <1>3, <2>4, <3>1
    <3>4. Value(l, r) = Value(l[2], r) + 1 /\ Value(l[2], r) \in Nat
      BY <1>1, <2>4, <3>1, ValueFacts DEF Valuations
    <3> QED BY <1>2, <3>2, <3>3, <3>4
  <2>5. CASE Op(l) = "max"
    <3>1. /\ l[2] \in Level /\ IMaxFree(l[2]) /\ d + Rank[l[2]] < MaxValue
          /\ l[3] \in Level /\ IMaxFree(l[3]) /\ d + Rank[l[3]] < MaxValue
      BY <1>2, <2>5, FreeFacts
    <3>2. Leq(Param(p), l, d) <=> Leq(Param(p), l[2], d) \/ Leq(Param(p), l[3], d)
      BY <1>2, <2>5, LeqRules
    <3>3. /\ Leq(Param(p), l[2], d) <=> MaxValue <= Value(l[2], r) + d
          /\ Leq(Param(p), l[3], d) <=> MaxValue <= Value(l[3], r) + d
      BY <1>3, <2>5, <3>1
    <3>4. /\ Value(l, r) = Larger(Value(l[2], r), Value(l[3], r))
          /\ Value(l[2], r) \in Nat /\ Value(l[3], r) \in Nat
      BY <1>1, <2>5, <3>1, ValueFacts DEF Valuations
    <3> QED BY <1>2, <3>2, <3>3, <3>4 DEF Larger
  <2> QED BY <2>1, <2>2, <2>3, <2>4, <2>5, FreeFacts
<1>4. Level \subseteq T
  <2> HIDE DEF T
  <2> QED BY <1>3, LevelInduction
<1> QED BY <1>4 DEF r

LEMMA LeqIsBelow ==
    \A l1, l2 \in Level, d \in Int :
        IMaxFree(l1) /\ IMaxFree(l2) /\ d + Rank[l2] < MaxValue =>
            (Leq(l1, l2, d) <=> Below(l1, l2, d))
<1> DEFINE Holds(a, b, d) == IMaxFree(a) /\ IMaxFree(b) /\ d + Rank[b] < MaxValue =>
                                 (Leq(a, b, d) <=> Below(a, b, d))
           T == { x \in Questions : Holds(x[1], x[2], x[3]) }
<1>1. ASSUME NEW a \in Level, NEW b \in Level, NEW d \in Int,
             \A u, v \in Level, e \in Int :
                 Weight[u] + Weight[v] < Weight[a] + Weight[b] => Holds(u, v, e)
      PROVE  Holds(a, b, d)
  <2> SUFFICES ASSUME IMaxFree(a), IMaxFree(b), d + Rank[b] < MaxValue
               PROVE  Leq(a, b, d) <=> Below(a, b, d)
    OBVIOUS
  <2>1. /\ \A r \in Assignments : Value(a, r) \in Nat /\ Value(b, r) \in Nat
        /\ Weight[a] \in Nat /\ Weight[b] \in Nat /\ Rank[a] \in Nat /\ Rank[b] \in Nat
        /\ MaxValue \in Nat /\ AllZero \in Assignments
    BY ValueFacts, AssignmentFacts, WeightFacts, RankFacts, Bounds DEF Valuations
  <2>2. CASE a = b
    <3>1. Leq(a, b, d) <=> d >= 0
      BY <2>2, LeqRules
    <3> QED BY <2>1, <2>2, <3>1 DEF Below
  <2>3. CASE a # b /\ Op(a) = "succ"
    <3>1. /\ a[2] \in Level /\ IMaxFree(a[2]) /\ d - 1 \in Int /\ (d - 1) + Rank[b] < MaxValue
          /\ Weight[a[2]] \in Nat /\ Weight[a[2]] < Weight[a]
      BY <2>1, <2>3, FreeFacts, WeightFacts
    <3>2. Leq(a, b, d) <=> Leq(a[2], b, d - 1)
      BY <2>3, LeqRules
    <3>3. Leq(a[2], b, d - 1) <=> Below(a[2], b, d - 1)
      BY <1>1, <2>1, <3>1
    <3>4. \A r \in Assignments : Value(a, r) = Value(a[2], r) + 1 /\ Value(a[2], r) \in Nat
      BY <2>3, <3>1, ValueFacts, AssignmentFacts DEF Valuations
    <3>5. Below(a[2], b, d - 1) <=> Below(a, b, d)
      BY <2>1, <3>4 DEF Below
    <3> QED BY <3>2, <3>3, <3>5
  <2>4. CASE a # b /\ Op(a) # "succ" /\ Op(b) = "succ"
    <3>1. /\ b[2] \in Level /\ IMaxFree(b[2]) /\ d + 1 \in Int /\ (d + 1) + Rank[b[2]] < MaxValue
          /\ Weight[b[2]] \in Nat /\ Weight[b[2]] < Weight[b]
      BY <2>1, <2>4, FreeFacts, WeightFacts
    <3>2. Leq(a, b, d) <=> Leq(a, b[2], d + 1)
      BY <2>4, LeqRules
    <3>3. Leq(a, b[2], d + 1) <=> Below(a, b[2], d + 1)
      BY <1>1, <2>1, <3>1
    <3>4. \A r \in Assignments : Value(b, r) = Value(b[2], r) + 1 /\ Value(b[2], r) \in Nat
      BY <2>4, <3>1, ValueFacts, AssignmentFacts DEF Valuations
    <3>5. Below(a, b[2], d + 1) <=> Below(a, b, d)
      BY <2>1, <3>4 DEF Below
    <3> QED BY <3>2, <3>3, <3>5
  <2>5. CASE a # b /\ Op(a) = "max" /\ Op(b) # "succ"
    <3>1. /\ a[2] \in Level /\ IMaxFree(a[2]) /\ Weight[a[2]] \in Nat /\ Weight[a[2]] < Weight[a]
          /\ a[3] \in Level /\ IMaxFree(a[3]) /\ Weight[a[3]] \in Nat /\ Weight[a[3]] < Weight[a]
      BY <2>5, FreeFacts, WeightFacts
    <3>2. Leq(a, b, d) <=> Leq(a[2], b, d) /\ Leq(a[3], b, d)
      BY <2>5, LeqRules
    <3>3. (Leq(a[2], b, d) <=> Below(a[2], b, d)) /\ (Leq(a[3], b, d) <=> Below(a[3], b, d))
      BY <1>1, <2>1, <3>1
    <3>4. \A r \in Assignments : /\ Value(a, r) = Larger(Value(a[2], r), Value(a[3], r))
                                 /\ Value(a[2], r) \in Nat /\ Value(a[3], r) \in Nat
      BY <2>5, <3>1, ValueFacts, AssignmentFacts DEF Valuations
    <3>5. Below(a[2], b, d) /\ Below(a[3], b, d) <=> Below(a, b, d)
      BY <2>1, <3>4 DEF Below, Larger
    <3> QED BY <3>2, <3>3, <3>5
  <2>6. ASSUME Op(a) \in {"zero", "param"}, Below(a, b, d)
        PROVE  Leq(a, b, d)
    <3>1. CASE Op(a) = "zero"
      <4>1. a = Zero
        BY <3>1, Anatomy
      <4>2. Value(a, AllZero) = 0
        BY <3>1, ValueFacts, AssignmentFacts DEF Valuations
      <4>3. 0 <= Value(b, AllZero) + d
        BY <2>1, <2>6, <4>2 DEF Below
      <4> QED BY <4>1, <4>3, ZeroBelow
    <3>2. CASE Op(a) = "param"
      <4> DEFINE r == [AllZero EXCEPT ![a[2]] = MaxValue]
      <4>1. a[2] \in Params /\ a = Param(a[2])
        BY <3>2, Anatomy
      <4>2. r \in Assignments /\ r[a[2]] = MaxValue
        BY <4>1, AssignmentFacts DEF AllZero
      <4>3. Value(a, r) = MaxValue
        <5> HIDE DEF r
        <5> QED BY <3>2, <4>2, ValueFacts, AssignmentFacts DEF Valuations
      <4>4. MaxValue <= Value(b, r) + d
        <5> HIDE DEF r
        <5> QED BY <2>6, <4>2, <4>3 DEF Below
      <4>5. Leq(Param(a[2]), b, d)
        BY <4>1, <4>4, ParamBelow
      <4> QED BY <4>1, <4>5
    <3> QED BY <2>6, <3>1, <3>2
  <2>7. CASE a # b /\ Op(a) \in {"zero", "param"} /\ Op(b) = "max"
    <3>1. /\ b[2] \in Level /\ IMaxFree(b[2]) /\ d + Rank[b[2]] < MaxValue
          /\ Weight[b[2]] \in Nat /\ Weight[b[2]] < Weight[b]
          /\ b[3] \in Level /\ IMaxFree(b[3]) /\ d + Rank[b[3]] < MaxValue
          /\ Weight[b[3]] \in Nat /\ Weight[b[3]] < Weight[b]
      BY <2>1, <2>7, FreeFacts, WeightFacts
    <3>2. Leq(a, b, d) <=> Leq(a, b[2], d) \/ Leq(a, b[3], d)
      BY <2>7, LeqRules
    <3>3. (Leq(a, b[2], d) <=> Below(a, b[2], d)) /\ (Leq(a, b[3], d) <=> Below(a, b[3], d))
      BY <1>1, <2>1, <3>1
    <3>4. \A r \in Assignments : /\ Value(b, r) = Larger(Value(b[2], r), Value(b[3], r))
                                 /\ Value(b[2], r) \in Nat /\ Value(b[3], r) \in Nat
      BY <2>7, <3>1, ValueFacts, AssignmentFacts DEF Valuations
    <3>5. Below(a, b[2], d) \/ Below(a, b[3], d) => Below(a, b, d)
      BY <2>1, <3>4 DEF Below, Larger
    <3> QED BY <2>6, <2>7, <3>2, <3>3, <3>5
  <2>8. CASE a # b /\ Op(a) \in {"zero", "param"} /\ Op(b) \in {"zero", "param"}
    <3>1. Leq(a, b, d) <=> Op(a) = "zero" /\ d >= 0
      BY <2>8, LeqRules
    <3>2. Op(a) = "zero" => \A r \in Assignments : Value(a, r) = 0
      BY ValueFacts, AssignmentFacts DEF Valuations
    <3>3. Leq(a, b, d) => Below(a, b, d)
      BY <2>1, <3>1, <3>2 DEF Below
    <3> QED BY <2>6, <2>8, <3>3
  <2> QED BY <2>2, <2>3, <2>4, <2>5, <2>7, <2>8, FreeFacts
<1>2. ASSUME NEW x \in Questions, \A y \in Questions : Work[y] < Work[x] => y \in T
      PROVE  x \in T
  <2>1. PICK a \in Level, b \in Level, d \in Int : x = <<a, b, d>>
    BY DEF Questions
  <2>2. \A u, v \in Level, e \in Int :
            Weight[u] + Weight[v] < Weight[a] + Weight[b] => Holds(u, v, e)
    <3> SUFFICES ASSUME NEW u \in Level, NEW v \in Level, NEW e \in Int,
                        Weight[u] + Weight[v] < Weight[a] + Weight[b]
                 PROVE  Holds(u, v, e)
      OBVIOUS
    <3>1. <<u, v, e>> \in T
      <4> HIDE DEF T, Holds
      <4> QED BY <1>2, <2>1, WorkFacts
    <3> HIDE DEF Holds
    <3> QED BY <3>1
  <2>3. Holds(a, b, d)
    <3> HIDE DEF Holds
    <3> QED BY <1>1, <2>2
  <2> HIDE DEF Holds
  <2> QED BY <2>1, <2>3
<1>3. Questions \subseteq T
  <2> HIDE DEF T
  <2> QED BY <1>2, WorkFacts, RankInduction
<1>4. ASSUME NEW a \in Level, NEW b \in Level, NEW d \in Int
      PROVE  Holds(a, b, d)
  <2>1. <<a, b, d>> \in T
    <3> HIDE DEF T
    <3> QED BY <1>3, WorkFacts
  <2> HIDE DEF Holds
  <2> QED BY <2>1
<1> QED BY <1>4

-----------------------------------------------------------------------------
(* Theorems of the specification *)

\* Every level in play stays within the height the instance allows.
LevelsInPlay == levels \subseteq InPlay

\* Every level in play is a tree of the height the instance allows.
LEMMA LevelsStayInPlay == Spec => []LevelsInPlay
<1>1. Init => LevelsInPlay
  BY ZeroFacts DEF Init, LevelsInPlay
<1>2. LevelsInPlay /\ [Next]_levels => LevelsInPlay'
  <2> SUFFICES ASSUME LevelsInPlay, [Next]_levels PROVE LevelsInPlay'
    OBVIOUS
  <2>1. ASSUME NEW l, Enter(l)
        PROVE  LevelsInPlay'
    BY <2>1 DEF Enter, LevelsInPlay
  <2>2. CASE HandleParam
    BY <2>1, <2>2 DEF HandleParam
  <2>3. CASE HandleSucc
    BY <2>1, <2>3 DEF HandleSucc
  <2>4. CASE HandleMax
    BY <2>1, <2>4 DEF HandleMax
  <2>5. CASE HandleIMax
    BY <2>1, <2>5 DEF HandleIMax
  <2>6. CASE InferConst
    BY <2>1, <2>6 DEF InferConst
  <2>7. CASE UNCHANGED levels
    BY <2>7 DEF LevelsInPlay
  <2> QED BY <2>2, <2>3, <2>4, <2>5, <2>6, <2>7 DEF Next
<1> QED BY <1>1, <1>2, PTL DEF Spec

\* The parameters as levels, and the levels they leave as they are.
Own == [p \in Params |-> Param(p)]
Simplified(l) == Instantiate(l, Own) = l

LEMMA OwnFacts == Own \in [Params -> InPlay] /\ \A p \in Params : Own[p] = Param(p)
<1>1. \A p \in Params : Param(p) \in OfHeight[0]
  BY Shape, Parts DEF IsAtom
<1>2. OfHeight[0] \subseteq InPlay
  BY Bounds, Higher DEF InPlay
<1> QED BY <1>1, <1>2 DEF Own

\* What the constructors build of simplified levels is simplified: a raw max or
\* imax is built only where no rule applies, and none applies a second time.
LEMMA AtomsSimplified ==
    /\ Simplified(Zero)
    /\ \A p \in Params : Param(p) \in Level => Simplified(Param(p))
BY ZeroFacts, OwnFacts, InstantiateFacts, Parts DEF Simplified

LEMMA SuccSimplified ==
    ASSUME NEW a, Simplified(a), Succ(a) \in Level
    PROVE  Simplified(Succ(a))
BY OwnFacts, InstantiateFacts, Parts DEF Simplified

LEMMA MaxSimplified ==
    ASSUME NEW a, NEW b, Simplified(a), Simplified(b), Max(a, b) \in Level
    PROVE  Simplified(Max(a, b))
<1>1. CASE Max(a, b) = RawMax(a, b)
  <2>1. Instantiate(RawMax(a, b), Own) = Max(Instantiate(a, Own), Instantiate(b, Own))
    BY <1>1, OwnFacts, InstantiateFacts, Parts
  <2> QED BY <1>1, <2>1 DEF Simplified
<1> QED BY <1>1, MaxResult

LEMMA IMaxSimplified ==
    ASSUME NEW a, NEW b, Simplified(a), Simplified(b), IMax(a, b) \in Level
    PROVE  Simplified(IMax(a, b))
<1>1. CASE IMax(a, b) = RawIMax(a, b)
  <2>1. Instantiate(RawIMax(a, b), Own) = IMax(Instantiate(a, Own), Instantiate(b, Own))
    BY <1>1, OwnFacts, InstantiateFacts, Parts
  <2> QED BY <1>1, <2>1 DEF Simplified
<1>2. CASE IMax(a, b) = Max(a, b)
  BY <1>2, MaxSimplified
<1>3. IMax(a, b) \in {b, Zero, Max(a, b), RawIMax(a, b)}
  BY DEF IMax
<1> QED BY <1>1, <1>2, <1>3, AtomsSimplified

\* The parts of a level in play are in play.
LEMMA PartsInPlay ==
    ASSUME NEW l \in InPlay
    PROVE  /\ l \in Level
           /\ Op(l) \in {"succ", "max", "imax"} => l[2] \in InPlay
           /\ Op(l) \in {"max", "imax"} => l[3] \in InPlay
<1>1. l \in Level /\ Rank[l] <= MaxHeight
  BY LevelsAreLevels, RankFacts, Bounds DEF InPlay
<1>2. \A k \in Level : Rank[k] < Rank[l] => k \in InPlay
  <2> SUFFICES ASSUME NEW k \in Level, Rank[k] < Rank[l] PROVE k \in InPlay
    OBVIOUS
  <2>1. Rank[k] \in Nat /\ Rank[k] <= MaxHeight /\ k \in OfHeight[Rank[k]]
    BY <1>1, RankFacts, Bounds
  <2> QED BY <2>1, Higher, Bounds DEF InPlay
<1> QED BY <1>1, <1>2, Anatomy

\* Instantiating with simplified levels builds a simplified one, whatever the
\* level that is instantiated.
LEMMA InstantiateSimplifies ==
    ASSUME NEW s \in [Params -> InPlay], \A p \in Params : Simplified(s[p]), NEW l \in InPlay
    PROVE  Simplified(Instantiate(l, s))
<1> DEFINE T == { k \in Level : k \in InPlay => Simplified(Instantiate(k, s)) }
<1>1. \A k \in InPlay : Instantiate(k, s) \in Level
  <2>1. [p \in Params |-> 0] \in Valuations
    BY DEF Valuations
  <2> QED BY <2>1, InstantiateMeaning
<1>2. ASSUME NEW k \in Level,
             Op(k) \in {"succ", "max", "imax"} => k[2] \in T,
             Op(k) \in {"max", "imax"} => k[3] \in T
      PROVE  k \in T
  <2> SUFFICES ASSUME k \in InPlay PROVE Simplified(Instantiate(k, s))
    OBVIOUS
  <2>1. Instantiate(k, s) \in Level
    BY <1>1
  <2>2. CASE Op(k) = "zero"
    BY <2>2, Anatomy, InstantiateFacts, AtomsSimplified
  <2>3. CASE Op(k) = "param"
    BY <2>3, Anatomy, InstantiateFacts
  <2>4. CASE Op(k) = "succ"
    <3>1. Simplified(Instantiate(k[2], s)) /\ Instantiate(k, s) = Succ(Instantiate(k[2], s))
      BY <1>2, <2>4, PartsInPlay, InstantiateFacts
    <3> QED BY <2>1, <3>1, SuccSimplified
  <2>5. CASE Op(k) \in {"max", "imax"}
    <3>1. Simplified(Instantiate(k[2], s)) /\ Simplified(Instantiate(k[3], s))
      BY <1>2, <2>5, PartsInPlay
    <3>2. /\ Op(k) = "max" => Instantiate(k, s) = Max(Instantiate(k[2], s), Instantiate(k[3], s))
          /\ Op(k) = "imax" => Instantiate(k, s) = IMax(Instantiate(k[2], s), Instantiate(k[3], s))
      BY InstantiateFacts
    <3> QED BY <2>1, <2>5, <3>1, <3>2, MaxSimplified, IMaxSimplified
  <2> QED BY <2>2, <2>3, <2>4, <2>5, Anatomy
<1>3. Level \subseteq T
  <2> HIDE DEF T
  <2> QED BY <1>2, LevelInduction
<1> QED BY <1>3, LevelsAreLevels

AllSimplified == \A l \in levels : Simplified(l)

\* Levels in play are in simplified form: the constructors, and instantiation
\* with levels in play, build only levels that rebuilding leaves as they are
\* (succ, max, imax and instantiate of level.rs).
THEOREM SimplifiedForm == Spec => []OwnParametersKeepLevels
<1>1. Init => AllSimplified
  BY AtomsSimplified DEF Init, AllSimplified
<1>2. LevelsInPlay /\ AllSimplified /\ [Next]_levels => AllSimplified'
  <2> SUFFICES ASSUME LevelsInPlay, AllSimplified, [Next]_levels
               PROVE  \A l \in levels' : Simplified(l)
    BY DEF AllSimplified
  <2>0. \A l \in levels : Simplified(l)
    BY DEF AllSimplified
  <2>1. ASSUME NEW l, Enter(l), l \in Level => Simplified(l)
        PROVE  \A k \in levels' : Simplified(k)
    BY <2>0, <2>1, LevelsAreLevels DEF Enter
  <2>2. CASE HandleParam
    BY <2>1, <2>2, AtomsSimplified DEF HandleParam
  <2>3. CASE HandleSucc
    BY <2>0, <2>1, <2>3, SuccSimplified DEF HandleSucc
  <2>4. CASE HandleMax
    BY <2>0, <2>1, <2>4, MaxSimplified DEF HandleMax
  <2>5. CASE HandleIMax
    BY <2>0, <2>1, <2>5, IMaxSimplified DEF HandleIMax
  <2>6. CASE InferConst
    <3>1. PICK l \in levels, s \in [Params -> levels] : Enter(Instantiate(l, s))
      BY <2>6 DEF InferConst
    <3>2. l \in InPlay /\ s \in [Params -> InPlay] /\ \A p \in Params : Simplified(s[p])
      BY <2>0 DEF LevelsInPlay
    <3>3. Simplified(Instantiate(l, s))
      BY <3>2, InstantiateSimplifies
    <3> QED BY <2>1, <3>1, <3>3
  <2>7. CASE UNCHANGED levels
    BY <2>0, <2>7
  <2> QED BY <2>2, <2>3, <2>4, <2>5, <2>6, <2>7 DEF Next
<1>3. AllSimplified => OwnParametersKeepLevels
  BY DEF AllSimplified, Simplified, Own, OwnParametersKeepLevels
<1> QED BY <1>1, <1>2, <1>3, LevelsStayInPlay, PTL DEF Spec

\* Instantiating a level in play with levels in play commutes with its meaning
\* (instantiate, max and imax of level.rs).
THEOREM InstantiateCorrect == Spec => []InstantiateKeepsMeaning
<1>1. LevelsInPlay => InstantiateKeepsMeaning
  <2> SUFFICES ASSUME LevelsInPlay, NEW l \in levels, NEW s \in [Params -> levels],
                      NEW r \in Assignments
               PROVE  Value(Instantiate(l, s), r) = Value(l, [p \in Params |-> Value(s[p], r)])
    BY DEF InstantiateKeepsMeaning
  <2>1. s \in [Params -> InPlay] /\ l \in InPlay /\ r \in Valuations
    BY AssignmentFacts DEF LevelsInPlay
  <2> QED BY <2>1, InstantiateMeaning
<1> QED BY <1>1, LevelsStayInPlay, PTL

\* The normal form of a level in play has the level's value everywhere.
THEOREM NormalizeCorrect == Spec => []NormalizeKeepsMeaning
<1>1. LevelsInPlay => NormalizeKeepsMeaning
  <2> SUFFICES ASSUME LevelsInPlay, NEW l \in levels, NEW r \in Assignments
               PROVE  Value(Normalize(l), r) = Value(l, r)
    BY DEF NormalizeKeepsMeaning, SameMeaning
  <2>1. l \in OfHeight[2 * MaxHeight] /\ r \in Valuations
    BY LevelsAreLevels, AssignmentFacts DEF LevelsInPlay, Level
  <2> QED BY <2>1, NormalizeMeaning, Bounds
<1> QED BY <1>1, LevelsStayInPlay, PTL

\* A level is_not_zero refuses is zero where all parameters are.
LEMMA NotPositive == \A l \in Level : ~IsNotZero(l) => Value(l, AllZero) = 0
<1> DEFINE T == { l \in Level : ~IsNotZero(l) => Value(l, AllZero) = 0 }
<1>1. ASSUME NEW l \in Level, Op(l) \in {"succ", "max", "imax"} => l[2] \in T,
             Op(l) \in {"max", "imax"} => l[3] \in T
      PROVE  l \in T
  <2> SUFFICES ASSUME ~IsNotZero(l) PROVE Value(l, AllZero) = 0
    OBVIOUS
  <2>1. AllZero \in Valuations /\ \A p \in Params : AllZero[p] = 0
    BY AssignmentFacts DEF AllZero
  <2>2. CASE Op(l) \in {"zero", "param"}
    BY <2>1, <2>2, Anatomy, ValueFacts DEF Valuations
  <2>3. CASE Op(l) = "succ"
    BY <2>3, IsNotZeroFacts
  <2>4. CASE Op(l) = "max"
    <3>1. ~IsNotZero(l[2]) /\ ~IsNotZero(l[3])
      BY <2>4, IsNotZeroFacts
    <3>2. Value(l[2], AllZero) = 0 /\ Value(l[3], AllZero) = 0
      BY <1>1, <2>4, <3>1
    <3> QED BY <2>1, <2>4, <3>2, ValueFacts DEF Valuations, Larger
  <2>5. CASE Op(l) = "imax"
    <3>1. ~IsNotZero(l[3])
      BY <2>5, IsNotZeroFacts
    <3>2. Value(l[3], AllZero) = 0
      BY <1>1, <2>5, <3>1
    <3> QED BY <2>1, <2>5, <3>2, ValueFacts DEF Valuations
  <2> QED BY <2>2, <2>3, <2>4, <2>5, Anatomy
<1>2. Level \subseteq T
  <2> HIDE DEF T
  <2> QED BY <1>1, LevelInduction
<1> QED BY <1>2

\* is_not_zero accepts exactly the levels that are positive under every
\* assignment.
THEOREM NotZeroCorrect == Spec => []NotZeroIsExact
<1>1. LevelsInPlay => NotZeroIsExact
  <2> SUFFICES ASSUME LevelsInPlay, NEW l \in levels
               PROVE  IsNotZero(l) <=> \A r \in Assignments : Value(l, r) > 0
    BY DEF NotZeroIsExact
  <2>1. l \in Level
    BY LevelsAreLevels DEF LevelsInPlay
  <2>2. IsNotZero(l) => \A r \in Assignments : Value(l, r) > 0
    BY <2>1, NotZeroIsPositive, AssignmentFacts
  <2>3. ~IsNotZero(l) => AllZero \in Assignments /\ ~(Value(l, AllZero) > 0)
    BY <2>1, NotPositive, AssignmentFacts
  <2> QED BY <2>2, <2>3
<1> QED BY <1>1, LevelsStayInPlay, PTL

\* is_def_eq(l, zero) answers whether l is zero under every assignment, with and
\* without imax: the test for Prop.
THEOREM PropCorrect == Spec => []PropIsExact
<1>1. LevelsInPlay => PropIsExact
  <2> SUFFICES ASSUME LevelsInPlay, NEW l \in levels
               PROVE  IsDefEq(l, Zero) <=> SameMeaning(l, Zero)
    BY DEF PropIsExact
  <2> DEFINE n == Normalize(l)
  <2>1. l \in Level /\ Zero \in Level /\ Op(Zero) = "zero"
    BY LevelsAreLevels, ZeroFacts, Parts DEF LevelsInPlay
  <2>2. n \in Level /\ \A r \in Assignments : Value(n, r) = Value(l, r)
    <3>1. l \in OfHeight[2 * MaxHeight] /\ AllZero \in Valuations
      BY <2>1, AssignmentFacts DEF Level
    <3>2. n \in Level
      BY <3>1, NormalizeMeaning, Bounds DEF Level
    <3> QED BY <3>1, <3>2, NormalizeMeaning, Bounds, AssignmentFacts
  <2>3. \A r \in Assignments : Value(Zero, r) = 0 /\ Value(n, r) \in Nat
    BY <2>1, <2>2, ValueFacts, AssignmentFacts DEF Valuations
  <2>4. Normalize(Zero) = Zero
    BY <2>1, NormalizeFacts
  <2>5. IsDefEq(l, Zero) <=> Leq(n, Zero, 0) /\ Leq(Zero, n, 0)
    BY <2>4 DEF IsDefEq, LeqBothWays
  <2>6. SameMeaning(l, Zero) <=> \A r \in Assignments : Value(l, r) = 0
    BY <2>3 DEF SameMeaning
  <2>7. SameMeaning(l, Zero) => n = Zero
    BY <2>1, <2>6, AlwaysZero
  <2> HIDE DEF n
  <2>8. n = Zero => Leq(n, Zero, 0) /\ Leq(Zero, n, 0)
    BY <2>1, LeqRules
  <2>9. Leq(n, Zero, 0) => \A r \in Assignments : Value(n, r) <= 0
    BY <2>2, BelowZero, AssignmentFacts
  <2>10. (\A r \in Assignments : Value(n, r) <= 0) => \A r \in Assignments : Value(l, r) = 0
    BY <2>2, <2>3
  <2> QED BY <2>5, <2>6, <2>7, <2>8, <2>9, <2>10
<1> QED BY <1>1, LevelsStayInPlay, PTL

\* Between levels without imax leq answers whether the one is below the other
\* under every assignment, at every offset asked.
THEOREM LeqCorrect == Spec => []LeqIsExactWithoutIMax
<1>1. LevelsInPlay => LeqIsExactWithoutIMax
  <2> SUFFICES ASSUME LevelsInPlay, NEW l1 \in levels, NEW l2 \in levels, NEW d \in -1 .. 1,
                      IMaxFree(l1), IMaxFree(l2)
               PROVE  Leq(l1, l2, d) <=> Below(l1, l2, d)
    BY DEF LeqIsExactWithoutIMax
  <2>1. l1 \in Level /\ l2 \in Level /\ d \in Int /\ d <= 1
    BY LevelsAreLevels DEF LevelsInPlay
  <2>2. Rank[l2] \in Nat /\ Rank[l2] <= MaxHeight
    BY <2>1, RankFacts, Bounds DEF LevelsInPlay, InPlay
  <2>3. d + Rank[l2] < MaxValue
    BY <2>1, <2>2, Bounds
  <2> QED BY <2>1, <2>3, LeqIsBelow
<1> QED BY <1>1, LevelsStayInPlay, PTL
=============================================================================
