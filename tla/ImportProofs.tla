----------------------------- MODULE ImportProofs -----------------------------
(***************************************************************************)
(* Proofs about Import: for every export, the inductive blocks enter the   *)
(* environment whole or not at all, no two constants have one name, and    *)
(* the recursors own the inductives they are named after; and the tables   *)
(* hold what their types say, also after a failure.                        *)
(***************************************************************************)
EXTENDS Import, LeastNumber, SequenceTheorems, FiniteSetTheorems

(* The invariant *)

\* A function with nothing but its values; a sequence of whatever it holds.
IsFun(f) == f = [x \in DOMAIN f |-> f[x]]
IsSeq(s) == s \in Seq(ToSet(s))

\* What taking the block back would leave.
OldConsts == Undone(consts, "constant")
OldOwners == Undone(recOf, "owner")
OldGroups == Undone(recGroup, "group")

\* Whole blocks whose constructors end in the inductive that has them.
WholeInside(c, owner, group) ==
    /\ Whole(c, owner, group)
    /\ \A i \in DOMAIN c : c[i].kind = "ctor" => c[i].concl = c[i].induct

Stages == {"types", "ctors", "recs", "compare", "owners", "check"}
Records == [name : RecIds, all : Seq(TypeIds), rules : CtorLists]
Blocks == [stage : Stages, container : Nat \cup {None}, types : Seq(TypeIds),
           lists : Seq(CtorLists), recs : Seq(Records), pending : Seq(Records),
           ordered : Seq(Records), seen : SUBSET TypeIds, k : Nat]

Open == block # NoBlock
Fresh == DOMAIN consts \ DOMAIN OldConsts
RecNames == { r.name : r \in ToSet(block.recs) }

\* The block has added to the environment and changed nothing in it.
Added == DOMAIN OldConsts \subseteq DOMAIN consts
         /\ \A i \in DOMAIN OldConsts : consts[i] = OldConsts[i]

\* Its types are those it has read, each with the constructors listed.
TypesAdded ==
    /\ Len(block.lists) = Len(block.types)
    /\ \A k \in 1 .. Len(block.types) :
          /\ block.types[k] \in Fresh
          /\ consts[block.types[k]].kind = "type"
          /\ consts[block.types[k]].ctors = block.lists[k]
    /\ \A i \in Fresh : consts[i].kind = "type" => i \in ToSet(block.types)

\* Its constructors are listed by the inductive they belong to.
CtorsAdded ==
    \A i \in Fresh : consts[i].kind = "ctor" =>
        \E k \in 1 .. Len(block.types) :
            /\ block.types[k] = consts[i].induct
            /\ consts[i].cidx \in DOMAIN block.lists[k]
            /\ block.lists[k][consts[i].cidx] = i

\* Its recursors wait outside until all have been compared.
RecsWaiting ==
    /\ block.stage \in {"types", "ctors"} => block.recs = <<>>
    /\ block.stage \in {"types", "ctors", "recs"} => block.ordered = <<>> /\ block.k = 1
    /\ \A j, k \in 1 .. Len(block.recs) :
          block.recs[j].name = block.recs[k].name => j = k
    /\ block.stage \in {"types", "ctors", "recs", "compare"} =>
          /\ RecNames \cap DOMAIN consts = {}
          /\ \A i \in Fresh : consts[i].kind # "rec"
          /\ recOf = OldOwners /\ recGroup = OldGroups /\ block.seen = {}

\* Those compared and those left are the records, and serve the block's types.
RecsCompared ==
    block.stage \in {"compare", "owners", "check"} =>
        /\ ListedOk /\ block.types # <<>>
        /\ ToSet(block.pending) \cup ToSet(block.ordered) = ToSet(block.recs)
        /\ Len(block.pending) + Len(block.ordered) = DerivedCount
        /\ \A r \in ToSet(block.ordered) : r.all = block.types
        /\ block.stage = "compare" => block.k = Len(block.ordered) + 1

RecsAdded ==
    block.stage \in {"owners", "check"} =>
        /\ ToSet(block.ordered) = ToSet(block.recs)
        /\ RecNames \subseteq Fresh
        /\ \A i \in Fresh : consts[i].kind = "rec" <=> i \in RecNames
        /\ \A i \in RecNames : consts[i].all = block.types

\* The types that have an owner are the ones seen, and the owners are the
\* block's recursors.
OwnersAdded ==
    block.stage = "owners" =>
        /\ recGroup = OldGroups /\ block.k > 0
        /\ block.seen \subseteq ToSet(block.types)
        /\ DOMAIN recOf = DOMAIN OldOwners \cup block.seen
        /\ \A t \in DOMAIN OldOwners : recOf[t] = OldOwners[t]
        /\ \A t \in block.seen : recOf[t] \in RecNames

BlockInv ==
    Open =>
        /\ block \in Blocks
        /\ Added /\ TypesAdded /\ CtorsAdded
        /\ RecsWaiting /\ RecsCompared /\ RecsAdded /\ OwnersAdded
        /\ block.stage = "check" => WholeInside(consts, recOf, recGroup)

\* The inductive invariant: what the journal takes the environment back to is
\* whole, and what the block adds to it is going to be.
ImportInv ==
    /\ IsFun(consts) /\ IsFun(recOf) /\ IsFun(recGroup) /\ IsSeq(journal)
    /\ DOMAIN consts \subseteq Nat
    /\ WholeInside(OldConsts, OldOwners, OldGroups)
    /\ ~Open => journal = <<>>
    /\ BlockInv

\* The keys by which a group is ordered never fall.
KeysRise(s) == \A j, k \in 1 .. Len(s) : j <= k => SortKey(s[j]) <= SortKey(s[k])

\* The first n recursors in file order own what they claim.
Served(n) ==
    \A j \in 1 .. n : \A t \in Claimed(block.recs[j]) :
        t \in block.seen /\ recOf[t] = block.recs[j].name

\* Each recursor entered so far owns what it claims, then the groups are in
\* order; and every type of the block had a recursor derived for it.
OwnersInv ==
    Open =>
        /\ block.stage = "owners" => block.k <= Len(block.recs) + 1 /\ Served(block.k - 1)
        /\ block.stage = "check" => Served(Len(block.recs))
                                    /\ \A i \in RecNames : IsSeq(recGroup[i]) /\ KeysRise(recGroup[i])
        /\ block.stage \in {"owners", "check"} => Len(block.types) <= Len(block.ordered)

\* The names: each spelling leads to its indices, of which one is kept by
\* spelling alone.
Spelled(s) == { i \in 1 .. Len(names) - 1 : names[i + 1] = s }

NamesInv ==
    /\ names \in Seq(Seq(STRING)) /\ Len(names) \in 1 .. Len(NameLines) + 1
    /\ IsFun(byStr) /\ IsFun(dups)
    /\ \A i \in 1 .. Len(names) - 1 : names[i + 1] \in DOMAIN byStr
    /\ \A s \in DOMAIN byStr : byStr[s] \in Spelled(s)
    /\ \A s \in DOMAIN byStr \ DOMAIN dups : Spelled(s) = {byStr[s]}
    /\ DOMAIN dups \subseteq DOMAIN byStr
    /\ \A s \in DOMAIN dups : IsSeq(dups[s]) /\ ToSet(dups[s]) = Spelled(s)

\* Declarations come after the names, and each has a name of its own; so will
\* the recursors that wait, once they carry the names the kernel expects.
DeclaredInv ==
    /\ (DOMAIN consts # {} \/ Open) => Len(names) = Len(NameLines) + 1
    /\ DOMAIN consts \subseteq 1 .. Len(NameLines)
    /\ \A i, j \in DOMAIN consts : Spelling(i) = Spelling(j) => i = j
    /\ Open => \A j, k \in 1 .. Len(block.types) : block.types[j] = block.types[k] => j = k
    /\ Open /\ block.stage \in {"types", "ctors", "recs", "compare"} =>
          \A r \in ToSet(block.recs) : \A i \in DOMAIN consts : Spelling(r.name) # Spelling(i)
    /\ Open /\ block.stage = "compare" =>
          \A k \in 1 .. Len(block.ordered) : Spelling(block.ordered[k].name) = ExpectedName(k)

\* The file names what it declares.
NamedFile == TypeIds \cup CtorIds \cup RecIds \cup AxiomIds \subseteq 1 .. Len(NameLines)

-----------------------------------------------------------------------------
(* Sequences *)

\* A sequence of elements of some set is one.
LEMMA SeqIsSeq ==
    ASSUME NEW S, NEW s \in Seq(S)
    PROVE  IsSeq(s)
<1>1. ToSet(s) = Range(s)
  BY DEF ToSet, Range
<1> QED BY <1>1, SeqOfRange DEF IsSeq

\* Its length and indices.
LEMMA SeqFacts ==
    ASSUME NEW s, IsSeq(s)
    PROVE  /\ Len(s) \in Nat /\ DOMAIN s = 1 .. Len(s)
           /\ \A n \in 1 .. Len(s) : s[n] \in ToSet(s)
           /\ \A x \in ToSet(s) : \E n \in 1 .. Len(s) : s[n] = x
<1>1. s \in Seq(ToSet(s))
  BY DEF IsSeq
<1>2. Len(s) \in Nat /\ DOMAIN s = 1 .. Len(s)
  BY <1>1, LenProperties
<1> QED BY <1>2 DEF ToSet

\* What follows one another.
LEMMA ConcatFacts ==
    ASSUME NEW s, IsSeq(s), NEW t, IsSeq(t)
    PROVE  /\ IsSeq(s \o t) /\ Len(s \o t) = Len(s) + Len(t)
           /\ \A n \in 1 .. Len(s) : (s \o t)[n] = s[n]
           /\ \A n \in 1 .. Len(t) : (s \o t)[Len(s) + n] = t[n]
           /\ ToSet(s \o t) = ToSet(s) \cup ToSet(t)
<1> DEFINE S == ToSet(s) \cup ToSet(t)
<1>1. s \in Seq(ToSet(s)) /\ t \in Seq(ToSet(t))
  BY DEF IsSeq
<1>2. s \in Seq(S) /\ t \in Seq(S)
  BY <1>1, SeqMonotonic
<1>3. Len(s) \in Nat /\ Len(t) \in Nat
  BY SeqFacts
<1> HIDE DEF S
<1>4. /\ s \o t \in Seq(S) /\ Len(s \o t) = Len(s) + Len(t)
      /\ \A i \in 1 .. Len(s) + Len(t) : (s \o t)[i] = IF i <= Len(s) THEN s[i] ELSE t[i - Len(s)]
  BY <1>2, ConcatProperties
<1>5. \A n \in 1 .. Len(s) : (s \o t)[n] = s[n]
  BY <1>3, <1>4
<1>6. \A n \in 1 .. Len(t) : (s \o t)[Len(s) + n] = t[n]
  <2> TAKE n \in 1 .. Len(t)
  <2>1. Len(s) + n \in 1 .. Len(s) + Len(t) /\ ~(Len(s) + n <= Len(s)) /\ Len(s) + n - Len(s) = n
    BY <1>3
  <2> QED BY <1>4, <2>1
<1>7. IsSeq(s \o t)
  BY <1>4, SeqIsSeq
<1>8. ToSet(s \o t) = ToSet(s) \cup ToSet(t)
  <2>1. /\ ToSet(s) = Range(s) /\ ToSet(t) = Range(t) /\ ToSet(s \o t) = Range(s \o t)
    BY DEF ToSet, Range
  <2> QED BY <1>2, <2>1, RangeConcatenation
<1> QED BY <1>4, <1>5, <1>6, <1>7, <1>8

\* One more.
LEMMA AppendFacts ==
    ASSUME NEW s, IsSeq(s), NEW x
    PROVE  /\ IsSeq(Append(s, x)) /\ Len(Append(s, x)) = Len(s) + 1
           /\ Append(s, x) = s \o <<x>>
           /\ \A n \in 1 .. Len(s) : Append(s, x)[n] = s[n]
           /\ Append(s, x)[Len(s) + 1] = x
           /\ ToSet(Append(s, x)) = ToSet(s) \cup {x}
<1> DEFINE S == ToSet(s) \cup {x}
<1>1. s \in Seq(S) /\ x \in S
  BY SeqMonotonic DEF IsSeq
<1> HIDE DEF S
<1>2. Append(s, x) = s \o <<x>>
  BY <1>1, AppendIsConcat
<1>3. IsSeq(<<x>>) /\ Len(<<x>>) = 1 /\ <<x>>[1] = x /\ ToSet(<<x>>) = {x}
  <2>1. <<x>> \in Seq({x})
    OBVIOUS
  <2>2. IsSeq(<<x>>)
    BY <2>1, SeqIsSeq
  <2>3. DOMAIN <<x>> = {1}
    OBVIOUS
  <2> QED BY <2>2, <2>3 DEF ToSet
<1>4. Len(s) \in Nat
  BY SeqFacts
<1> DEFINE t == <<x>>
<1>5. /\ IsSeq(s \o t) /\ Len(s \o t) = Len(s) + Len(t)
      /\ \A n \in 1 .. Len(s) : (s \o t)[n] = s[n]
      /\ \A n \in 1 .. Len(t) : (s \o t)[Len(s) + n] = t[n]
      /\ ToSet(s \o t) = ToSet(s) \cup ToSet(t)
  BY <1>3, ConcatFacts
<1>6. Len(t) = 1 /\ t[1] = x /\ ToSet(t) = {x} /\ 1 \in 1 .. 1
  BY <1>3
<1> HIDE DEF t
<1>7. (s \o t)[Len(s) + 1] = x
  BY <1>5, <1>6
<1>8. Append(s, x) = s \o t
  BY <1>2 DEF t
<1> QED BY <1>2, <1>5, <1>6, <1>7, <1>8

-----------------------------------------------------------------------------
(* The journal *)

\* The replay, write by write.
Backwards(back, f, table, log) ==
    /\ Replayed(f, table, log) = back[Len(log)]
    /\ back[0] = f
    /\ \A n \in 1 .. Len(log) :
          back[n] = IF log[Len(log) - (n - 1)].table = table
                    THEN Restore(back[n - 1], log[Len(log) - (n - 1)])
                    ELSE back[n - 1]

\* Replay takes back one write after the other, the last one first.
LEMMA ReplayedSteps ==
    ASSUME NEW f, NEW table, NEW log, IsSeq(log)
    PROVE  \E back : Backwards(back, f, table, log)
<1> DEFINE Step(g, n) == IF log[Len(log) - (n - 1)].table = table
                         THEN Restore(g[n - 1], log[Len(log) - (n - 1)]) ELSE g[n - 1]
           Built(g, n) == IF n = 0 THEN f ELSE Step(g, n)
           Solves(g, N) == g = [n \in 0 .. N |-> Built(g, n)]
           back == CHOOSE g : Solves(g, Len(log))
           T == { N \in Nat : \E g : Solves(g, N) }
<1>0. Len(log) \in Nat
  BY SeqFacts
<1>1. 0 \in T
  <2>1. Solves([n \in 0 .. 0 |-> f], 0)
    OBVIOUS
  <2> HIDE DEF Solves
  <2> QED BY <2>1
<1>2. ASSUME NEW N \in Nat, N \in T
      PROVE  N + 1 \in T
  <2>1. PICK h : Solves(h, N)
    BY <1>2
  <2> DEFINE g == [n \in 0 .. N + 1 |-> Built(h, n)]
  <2>2. \A n \in 0 .. N : g[n] = h[n]
    <3>1. \A n \in 0 .. N : h[n] = Built(h, n)
      <4> HIDE DEF Built
      <4> QED BY <2>1
    <3>2. \A n \in 0 .. N + 1 : g[n] = Built(h, n)
      <4> HIDE DEF Built
      <4> QED OBVIOUS
    <3> HIDE DEF Built, g
    <3> QED BY <3>1, <3>2
  <2>3. \A n \in 0 .. N + 1 : Built(g, n) = Built(h, n)
    <3>1. \A n \in 0 .. N + 1 : n # 0 => n - 1 \in 0 .. N
      OBVIOUS
    <3> HIDE DEF g
    <3> QED BY <2>2, <3>1
  <2>4. Solves(g, N + 1)
    <3> HIDE DEF Built
    <3> QED BY <2>3
  <2> HIDE DEF Solves, g
  <2> QED BY <2>4
<1>3. Solves(back, Len(log))
  <2>1. Len(log) \in T
    <3> HIDE DEF T
    <3> QED BY <1>0, <1>1, <1>2, Induction
  <2>2. \E g : Solves(g, Len(log))
    BY <2>1
  <2> HIDE DEF Solves
  <2> QED BY <2>2
<1>4. Replayed(f, table, log) = back[Len(log)]
  BY DEF Replayed
<1> HIDE DEF back
<1>5. \A n \in 0 .. Len(log) : back[n] = Built(back, n)
  <2> HIDE DEF Built
  <2> QED BY <1>3
<1>6. back[0] = f
  BY <1>0, <1>5
<1>7. \A n \in 1 .. Len(log) : back[n] = Step(back, n)
  <2> HIDE DEF Step
  <2> QED BY <1>0, <1>5
<1> QED BY <1>4, <1>6, <1>7 DEF Backwards

\* Nothing written, nothing to take back.
LEMMA ReplayedNothing ==
    ASSUME NEW f, NEW table
    PROVE  Replayed(f, table, <<>>) = f
<1>1. IsSeq(<<>>) /\ Len(<<>>) = 0
  BY EmptySeq, SeqIsSeq
<1> QED BY <1>1, ReplayedSteps DEF Backwards

\* Taking a write back that was made when g was there and nothing else has
\* changed since.
LEMMA RestoreFacts ==
    ASSUME NEW f, NEW g, IsFun(g), NEW w, w.prior = Before(f, w.key)
    PROVE  LET r == Restore(g, w) IN
           /\ IsFun(r)
           /\ w.key \in DOMAIN r <=> w.key \in DOMAIN f
           /\ w.key \in DOMAIN f => r[w.key] = f[w.key]
           /\ \A x : x # w.key => (x \in DOMAIN r <=> x \in DOMAIN g)
           /\ \A x \in DOMAIN g : x # w.key => r[x] = g[x]
<1>1. CASE w.key \in DOMAIN f
  <2>1. w.prior = <<f[w.key]>> /\ w.prior # <<>> /\ w.prior[1] = f[w.key]
    BY <1>1 DEF Before
  <2>2. Restore(g, w) = Put(g, w.key, f[w.key])
    BY <2>1 DEF Restore
  <2> QED BY <1>1, <2>2 DEF Put, IsFun
<1>2. CASE w.key \notin DOMAIN f
  <2>1. Restore(g, w) = Drop(g, w.key)
    BY <1>2 DEF Before, Restore
  <2> QED BY <1>2, <2>1 DEF Drop, IsFun
<1> QED BY <1>1, <1>2

\* Writes that entered g into one table where f was are taken back to f, and
\* the earlier ones as if they had not been made.
LEMMA WritesUndone ==
    ASSUME NEW j, IsSeq(j), NEW ws, IsSeq(ws), NEW table,
           NEW f, IsFun(f), NEW g, IsFun(g),
           \A n \in 1 .. Len(ws) : ws[n].table = table /\ ws[n].prior = Before(f, ws[n].key),
           \A x : x \notin { ws[n].key : n \in 1 .. Len(ws) } =>
              (x \in DOMAIN g <=> x \in DOMAIN f) /\ (x \in DOMAIN f => g[x] = f[x])
    PROVE  Replayed(g, table, j \o ws) = Replayed(f, table, j)
<1> DEFINE log == j \o ws
           M == Len(ws)
           Keys(n) == { ws[k].key : k \in 1 .. n }
           Near(h, n) == /\ IsFun(h)
                         /\ \A x : x \notin Keys(n) =>
                               (x \in DOMAIN h <=> x \in DOMAIN f) /\ (x \in DOMAIN f => h[x] = f[x])
<1>0. Len(j) \in Nat /\ M \in Nat
  BY SeqFacts
<1>1. /\ IsSeq(log) /\ Len(log) = Len(j) + M
      /\ \A n \in 1 .. Len(j) : log[n] = j[n]
      /\ \A n \in 1 .. M : log[Len(j) + n] = ws[n]
  BY ConcatFacts
<1> HIDE DEF log
<1>2. PICK b : Backwards(b, g, table, log)
  <2>1. IsSeq(log)
    BY <1>1
  <2> QED BY <2>1, ReplayedSteps
<1>3. PICK c : Backwards(c, f, table, j)
  BY ReplayedSteps
<1>4. \A n \in Nat : n <= M => Near(b[n], M - n)
  <2> DEFINE T == { n \in Nat : n <= M => Near(b[n], M - n) }
  <2>1. 0 \in T
    <3>1. M - 0 = M
      BY <1>0
    <3> QED BY <1>0, <1>2, <3>1 DEF Backwards
  <2>2. ASSUME NEW n \in Nat, n \in T
        PROVE  n + 1 \in T
    <3> SUFFICES ASSUME n + 1 <= M PROVE Near(b[n + 1], M - (n + 1))
      OBVIOUS
    <3> DEFINE w == ws[M - n]
    <3>0. Near(b[n], M - n)
      BY <1>0, <2>2
    <3>1. /\ M - n \in 1 .. M /\ n + 1 \in 1 .. Len(log) /\ (n + 1) - 1 = n
          /\ Len(log) - ((n + 1) - 1) = Len(j) + (M - n) /\ M - (n + 1) = (M - n) - 1
          /\ M - n \in Nat /\ M - (n + 1) \in Nat
      BY <1>0, <1>1
    <3>2. log[Len(log) - ((n + 1) - 1)] = w
      BY <1>1, <3>1
    <3>3. w.table = table /\ w.prior = Before(f, w.key)
      BY <3>1
    <3>4. b[n + 1] = Restore(b[n], w)
      BY <1>2, <3>1, <3>2, <3>3 DEF Backwards
    <3>5. \A x : x \in Keys(M - n) <=> x \in Keys(M - (n + 1)) \/ x = w.key
      <4> DEFINE m == M - n
      <4>1. \A k \in 1 .. m : k \in 1 .. m - 1 \/ k = m
        <5>1. m \in Nat
          BY <3>1
        <5> HIDE DEF m
        <5> QED BY <5>1
      <4>2. 1 .. m - 1 \subseteq 1 .. m /\ m \in 1 .. m
        BY <3>1
      <4>3. w.key = ws[m].key /\ Keys(M - (n + 1)) = Keys(m - 1)
        BY <3>1
      <4> HIDE DEF m, w
      <4>4. \A x : x \in Keys(m) <=> x \in Keys(m - 1) \/ x = w.key
        BY <4>1, <4>2, <4>3
      <4> QED BY <4>3, <4>4 DEF m
    <3> HIDE DEF w, Keys
    <3>6. /\ IsFun(b[n + 1])
          /\ w.key \in DOMAIN b[n + 1] <=> w.key \in DOMAIN f
          /\ w.key \in DOMAIN f => b[n + 1][w.key] = f[w.key]
          /\ \A x : x # w.key => (x \in DOMAIN b[n + 1] <=> x \in DOMAIN b[n])
          /\ \A x \in DOMAIN b[n] : x # w.key => b[n + 1][x] = b[n][x]
      BY <3>0, <3>3, <3>4, RestoreFacts
    <3>7. ASSUME NEW x, x \notin Keys(M - (n + 1))
          PROVE  /\ x \in DOMAIN b[n + 1] <=> x \in DOMAIN f
                 /\ x \in DOMAIN f => b[n + 1][x] = f[x]
      <4>1. CASE x = w.key
        BY <3>6, <4>1
      <4>2. CASE x # w.key
        <5>1. x \notin Keys(M - n)
          BY <3>5, <3>7, <4>2
        <5>2. (x \in DOMAIN b[n] <=> x \in DOMAIN f) /\ (x \in DOMAIN f => b[n][x] = f[x])
          BY <3>0, <5>1
        <5> QED BY <3>6, <4>2, <5>2
      <4> QED BY <4>1, <4>2
    <3> QED BY <3>6, <3>7
  <2> HIDE DEF T
  <2>3. Nat \subseteq T
    BY <2>1, <2>2, Induction
  <2> QED BY <2>3 DEF T
<1>5. b[M] = f
  <2>1. Near(b[M], 0)
    BY <1>0, <1>4
  <2>2. Keys(0) = {}
    OBVIOUS
  <2> QED BY <2>1, <2>2 DEF IsFun
<1>6. \A n \in Nat : n <= Len(j) => b[M + n] = c[n]
  <2> DEFINE T == { n \in Nat : n <= Len(j) => b[M + n] = c[n] }
  <2>1. 0 \in T
    BY <1>0, <1>3, <1>5 DEF Backwards
  <2>2. ASSUME NEW n \in Nat, n \in T
        PROVE  n + 1 \in T
    <3> SUFFICES ASSUME n + 1 <= Len(j) PROVE b[M + (n + 1)] = c[n + 1]
      OBVIOUS
    <3> DEFINE w == j[Len(j) - n]
    <3>1. /\ M + (n + 1) \in 1 .. Len(log) /\ n + 1 \in 1 .. Len(j) /\ (n + 1) - 1 = n
          /\ Len(log) - ((M + (n + 1)) - 1) = Len(j) - n /\ Len(j) - n \in 1 .. Len(j)
          /\ (M + (n + 1)) - 1 = M + n
      BY <1>0, <1>1
    <3>2. log[Len(log) - ((M + (n + 1)) - 1)] = w /\ j[Len(j) - ((n + 1) - 1)] = w
      BY <1>1, <3>1
    <3> HIDE DEF w, Keys, Near
    <3>3. b[M + (n + 1)] = IF w.table = table THEN Restore(b[M + n], w) ELSE b[M + n]
      BY <1>2, <3>1, <3>2 DEF Backwards
    <3>4. c[n + 1] = IF w.table = table THEN Restore(c[n], w) ELSE c[n]
      BY <1>3, <3>1, <3>2 DEF Backwards
    <3>5. b[M + n] = c[n]
      BY <1>0, <2>2
    <3> QED BY <3>3, <3>4, <3>5
  <2> HIDE DEF T
  <2>3. Nat \subseteq T
    BY <2>1, <2>2, Induction
  <2> QED BY <2>3 DEF T
<1>7. b[M + Len(j)] = c[Len(j)] /\ M + Len(j) = Len(log)
  BY <1>0, <1>1, <1>6
<1> QED BY <1>2, <1>3, <1>7 DEF Backwards, log

\* Writes to other tables are nothing to this one.
LEMMA OtherWrites ==
    ASSUME NEW j, IsSeq(j), NEW ws, IsSeq(ws), NEW table, NEW f,
           \A n \in 1 .. Len(ws) : ws[n].table # table
    PROVE  Replayed(f, table, j \o ws) = Replayed(f, table, j)
<1> DEFINE log == j \o ws
           M == Len(ws)
<1>0. Len(j) \in Nat /\ M \in Nat
  BY SeqFacts
<1>1. /\ IsSeq(log) /\ Len(log) = Len(j) + M
      /\ \A n \in 1 .. Len(j) : log[n] = j[n]
      /\ \A n \in 1 .. M : log[Len(j) + n] = ws[n]
  BY ConcatFacts
<1> HIDE DEF log
<1>2. PICK b : Backwards(b, f, table, log)
  <2>1. IsSeq(log)
    BY <1>1
  <2> QED BY <2>1, ReplayedSteps
<1>3. PICK c : Backwards(c, f, table, j)
  BY ReplayedSteps
<1>4. \A n \in Nat : n <= M => b[n] = f
  <2> DEFINE T == { n \in Nat : n <= M => b[n] = f }
  <2>1. 0 \in T
    BY <1>2 DEF Backwards
  <2>2. ASSUME NEW n \in Nat, n \in T
        PROVE  n + 1 \in T
    <3> SUFFICES ASSUME n + 1 <= M PROVE b[n + 1] = f
      OBVIOUS
    <3>1. /\ M - n \in 1 .. M /\ n + 1 \in 1 .. Len(log) /\ (n + 1) - 1 = n
          /\ Len(log) - ((n + 1) - 1) = Len(j) + (M - n)
      BY <1>0, <1>1
    <3>2. log[Len(log) - ((n + 1) - 1)] = ws[M - n] /\ ws[M - n].table # table
      BY <1>1, <3>1
    <3>3. b[n + 1] = b[n]
      BY <1>2, <3>1, <3>2 DEF Backwards
    <3> QED BY <1>0, <2>2, <3>3
  <2> HIDE DEF T
  <2>3. Nat \subseteq T
    BY <2>1, <2>2, Induction
  <2> QED BY <2>3 DEF T
<1>6. \A n \in Nat : n <= Len(j) => b[M + n] = c[n]
  <2> DEFINE T == { n \in Nat : n <= Len(j) => b[M + n] = c[n] }
  <2>1. 0 \in T
    BY <1>0, <1>3, <1>4 DEF Backwards
  <2>2. ASSUME NEW n \in Nat, n \in T
        PROVE  n + 1 \in T
    <3> SUFFICES ASSUME n + 1 <= Len(j) PROVE b[M + (n + 1)] = c[n + 1]
      OBVIOUS
    <3> DEFINE w == j[Len(j) - n]
    <3>1. /\ M + (n + 1) \in 1 .. Len(log) /\ n + 1 \in 1 .. Len(j) /\ (n + 1) - 1 = n
          /\ Len(log) - ((M + (n + 1)) - 1) = Len(j) - n /\ Len(j) - n \in 1 .. Len(j)
          /\ (M + (n + 1)) - 1 = M + n
      BY <1>0, <1>1
    <3>2. log[Len(log) - ((M + (n + 1)) - 1)] = w /\ j[Len(j) - ((n + 1) - 1)] = w
      BY <1>1, <3>1
    <3> HIDE DEF w
    <3>3. b[M + (n + 1)] = IF w.table = table THEN Restore(b[M + n], w) ELSE b[M + n]
      BY <1>2, <3>1, <3>2 DEF Backwards
    <3>4. c[n + 1] = IF w.table = table THEN Restore(c[n], w) ELSE c[n]
      BY <1>3, <3>1, <3>2 DEF Backwards
    <3>5. b[M + n] = c[n]
      BY <1>0, <2>2
    <3> QED BY <3>3, <3>4, <3>5
  <2> HIDE DEF T
  <2>3. Nat \subseteq T
    BY <2>1, <2>2, Induction
  <2> QED BY <2>3 DEF T
<1>7. b[M + Len(j)] = c[Len(j)] /\ M + Len(j) = Len(log)
  BY <1>0, <1>1, <1>6
<1> QED BY <1>2, <1>3, <1>7 DEF Backwards, log

\* What is left after the replay is a function.
LEMMA ReplayedFun ==
    ASSUME NEW f, IsFun(f), NEW table, NEW log, IsSeq(log)
    PROVE  IsFun(Replayed(f, table, log))
<1>1. PICK b : Backwards(b, f, table, log)
  BY ReplayedSteps
<1>2. Len(log) \in Nat
  BY SeqFacts
<1> DEFINE T == { n \in Nat : n <= Len(log) => IsFun(b[n]) }
<1>3. 0 \in T
  BY <1>1 DEF Backwards
<1>4. ASSUME NEW n \in Nat, n \in T
      PROVE  n + 1 \in T
  <2> SUFFICES ASSUME n + 1 <= Len(log) PROVE IsFun(b[n + 1])
    OBVIOUS
  <2> DEFINE w == log[Len(log) - ((n + 1) - 1)]
  <2>1. IsFun(b[n]) /\ n + 1 \in 1 .. Len(log) /\ (n + 1) - 1 = n
    BY <1>2, <1>4
  <2>2. b[n + 1] = IF w.table = table THEN Restore(b[n], w) ELSE b[n]
    BY <1>1, <2>1 DEF Backwards
  <2>3. IsFun(Restore(b[n], w))
    BY DEF Restore, Drop, Put, IsFun
  <2> HIDE DEF w
  <2> QED BY <2>1, <2>2, <2>3
<1> HIDE DEF T
<1>5. Nat \subseteq T
  BY <1>3, <1>4, Induction
<1>6. IsFun(b[Len(log)])
  BY <1>2, <1>5 DEF T
<1> QED BY <1>1, <1>6 DEF Backwards

\* A constant entered with its write in the journal is taken back.
LEMMA InsertedConstant ==
    ASSUME NEW i, NEW c, IsFun(consts), IsSeq(journal), InsertConstant(i, c),
           recOf' = recOf, recGroup' = recGroup
    PROVE  /\ IsFun(consts') /\ IsSeq(journal')
           /\ OldConsts' = OldConsts /\ OldOwners' = OldOwners /\ OldGroups' = OldGroups
           /\ DOMAIN consts' = DOMAIN consts \cup {i} /\ consts'[i] = c
           /\ \A x \in DOMAIN consts : x # i => consts'[x] = consts[x]
<1> DEFINE w == Write("constant", i, Before(consts, i))
           ws == <<w>>
<1>1. consts' = Put(consts, i, c) /\ journal' = Append(journal, w)
  BY DEF InsertConstant
<1>2. /\ IsFun(consts') /\ DOMAIN consts' = DOMAIN consts \cup {i} /\ consts'[i] = c
      /\ \A x \in DOMAIN consts : x # i => consts'[x] = consts[x]
  BY <1>1 DEF Put, IsFun
<1>3. IsSeq(journal') /\ journal' = journal \o ws
  <2> HIDE DEF w
  <2> QED BY <1>1, AppendFacts
<1>4. IsSeq(ws) /\ Len(ws) = 1 /\ ws[1] = w
  <2> HIDE DEF w
  <2>1. <<w>> \in Seq({w})
    OBVIOUS
  <2> QED BY <2>1, SeqIsSeq
<1>5. w.table = "constant" /\ w.key = i /\ w.prior = Before(consts, i)
  BY DEF Write
<1> HIDE DEF w, ws
<1>6. OldConsts' = OldConsts
  <2>1. \A n \in 1 .. Len(ws) : ws[n].table = "constant" /\ ws[n].prior = Before(consts, ws[n].key)
    BY <1>4, <1>5
  <2>2. \A x : x \notin { ws[n].key : n \in 1 .. Len(ws) } => x # i
    BY <1>4, <1>5
  <2>3. \A x : x \notin { ws[n].key : n \in 1 .. Len(ws) } =>
           (x \in DOMAIN consts' <=> x \in DOMAIN consts) /\ (x \in DOMAIN consts => consts'[x] = consts[x])
    BY <1>2, <2>2
  <2>4. Replayed(consts', "constant", journal \o ws) = Replayed(consts, "constant", journal)
    BY <1>2, <1>4, <2>1, <2>3, WritesUndone
  <2> QED BY <1>3, <2>4 DEF OldConsts, Undone
<1>7. OldOwners' = OldOwners /\ OldGroups' = OldGroups
  <2>1. \A n \in 1 .. Len(ws) : ws[n].table # "owner" /\ ws[n].table # "group"
    BY <1>4, <1>5
  <2>2. Replayed(recOf, "owner", journal \o ws) = Replayed(recOf, "owner", journal)
    BY <1>4, <2>1, OtherWrites
  <2>3. Replayed(recGroup, "group", journal \o ws) = Replayed(recGroup, "group", journal)
    BY <1>4, <2>1, OtherWrites
  <2> QED BY <1>3, <2>2, <2>3 DEF OldOwners, OldGroups, Undone
<1> QED BY <1>2, <1>3, <1>6, <1>7

\* The writes of a line of keys to one table of the environment.
Writes(table, line, f) == [n \in DOMAIN line |-> Write(table, line[n], Before(f, line[n]))]

\* The replay takes the line back from g to f, and nothing from other tables.
TakesBack(j, table, line, f, g) ==
    /\ IsSeq(j \o Writes(table, line, f))
    /\ Replayed(g, table, j \o Writes(table, line, f)) = Replayed(f, table, j)
    /\ \A other, h : other # table =>
          Replayed(h, other, j \o Writes(table, line, f)) = Replayed(h, other, j)

\* A line of keys entered with its writes is taken back.
LEMMA LineEntered ==
    ASSUME NEW j, IsSeq(j), NEW line, IsSeq(line), NEW table,
           NEW f, IsFun(f), NEW g, IsFun(g), DOMAIN g = DOMAIN f \cup ToSet(line),
           \A x \in DOMAIN f : x \notin ToSet(line) => g[x] = f[x]
    PROVE  TakesBack(j, table, line, f, g)
<1> DEFINE ws == Writes(table, line, f)
<1>1. /\ Len(line) \in Nat /\ DOMAIN line = 1 .. Len(line)
      /\ \A n \in 1 .. Len(line) : line[n] \in ToSet(line)
      /\ \A x \in ToSet(line) : \E n \in 1 .. Len(line) : line[n] = x
  BY SeqFacts
<1>2. /\ DOMAIN ws = 1 .. Len(line)
      /\ \A n \in 1 .. Len(line) : ws[n] = Write(table, line[n], Before(f, line[n]))
  BY <1>1 DEF Writes
<1>3. \A n \in 1 .. Len(line) :
         ws[n].table = table /\ ws[n].key = line[n] /\ ws[n].prior = Before(f, ws[n].key)
  BY <1>2 DEF Write
<1>4. IsSeq(ws) /\ Len(ws) = Len(line)
  <2> DEFINE S == { ws[n] : n \in 1 .. Len(line) }
  <2>1. ws \in [1 .. Len(line) -> S]
    <3>1. ws = [n \in 1 .. Len(line) |-> ws[n]]
      BY <1>1 DEF Writes
    <3>2. \A n \in 1 .. Len(line) : ws[n] \in S
      OBVIOUS
    <3> HIDE DEF ws, S
    <3> QED BY <3>1, <3>2
  <2> HIDE DEF S, ws
  <2>2. ws \in Seq(S)
    BY <1>1, <2>1, IsASeq
  <2>3. Len(ws) = Len(line)
    BY <1>1, <1>2, <2>2, LenProperties
  <2> QED BY <2>2, <2>3, SeqIsSeq
<1> HIDE DEF ws
<1>5. \A x : x \notin { ws[n].key : n \in 1 .. Len(ws) } => x \notin ToSet(line)
  BY <1>1, <1>3, <1>4
<1>6. \A x : x \notin { ws[n].key : n \in 1 .. Len(ws) } =>
         (x \in DOMAIN g <=> x \in DOMAIN f) /\ (x \in DOMAIN f => g[x] = f[x])
  BY <1>5
<1>7. \A n \in 1 .. Len(ws) : ws[n].table = table /\ ws[n].prior = Before(f, ws[n].key)
  BY <1>3, <1>4
<1>8. Replayed(g, table, j \o ws) = Replayed(f, table, j)
  BY <1>4, <1>6, <1>7, WritesUndone
<1>9. ASSUME NEW other, NEW h, other # table
      PROVE  Replayed(h, other, j \o ws) = Replayed(h, other, j)
  <2>1. \A n \in 1 .. Len(ws) : ws[n].table # other
    BY <1>7, <1>9
  <2> QED BY <1>4, <2>1, OtherWrites
<1>10. IsSeq(j \o ws)
  BY <1>4, ConcatFacts
<1> QED BY <1>8, <1>9, <1>10 DEF ws, TakesBack

\* A finite set in some order.
LEMMA EnumerationFacts ==
    ASSUME NEW S, IsFiniteSet(S)
    PROVE  IsSeq(SetToSeq(S)) /\ ToSet(SetToSeq(S)) = S
<1> DEFINE n == Cardinality(S)
           q == SetToSeq(S)
<1>1. n \in Nat /\ ExistsBijection(1 .. n, S)
  BY FS_CardinalityType
<1>2. \E f \in [1 .. n -> S] : IsInjective(f)
  BY <1>1 DEF ExistsBijection, Bijection, Injection
<1>3. q \in [1 .. n -> S] /\ IsInjective(q)
  BY <1>2 DEF SetToSeq
<1> HIDE DEF q
<1>4. q \in Injection(1 .. n, S)
  BY <1>3 DEF Injection
<1>5. IsFiniteSet(1 .. n) /\ Cardinality(1 .. n) = n
  <2> HIDE DEF n
  <2>1. IsFiniteSet(1 .. n) /\ Cardinality(1 .. n) = IF 1 > n THEN 0 ELSE n - 1 + 1
    BY <1>1, FS_Interval
  <2> QED BY <1>1, <2>1
<1>6. q \in Surjection(1 .. n, S)
  BY <1>4, <1>5, FS_Injection
<1>7. IsSeq(q)
  <2>1. q \in Seq(S)
    BY <1>1, <1>3, IsASeq
  <2> QED BY <2>1, SeqIsSeq
<1>8. ToSet(q) = S
  BY <1>3, <1>6 DEF Surjection, ToSet
<1> QED BY <1>7, <1>8 DEF q

\* What a sequence holds is finite.
LEMMA HeldIsFinite ==
    ASSUME NEW s, IsSeq(s)
    PROVE  IsFiniteSet(ToSet(s))
<1>1. Len(s) \in Nat /\ DOMAIN s = 1 .. Len(s)
  BY SeqFacts
<1>2. s \in Surjection(1 .. Len(s), ToSet(s))
  <2>1. s \in [1 .. Len(s) -> ToSet(s)]
    BY <1>1, LenProperties DEF IsSeq
  <2> QED BY <1>1, <2>1 DEF Surjection, ToSet
<1>3. IsFiniteSet(1 .. Len(s))
  BY <1>1, FS_Interval
<1> QED BY <1>2, <1>3, FS_Surjection

\* The names of a sequence of records.
LEMMA NamesFacts ==
    ASSUME NEW s, IsSeq(s)
    PROVE  LET line == [n \in DOMAIN s |-> s[n].name] IN
           /\ IsSeq(line) /\ DOMAIN line = DOMAIN s /\ Len(line) = Len(s)
           /\ ToSet(line) = { r.name : r \in ToSet(s) }
<1> DEFINE line == [n \in DOMAIN s |-> s[n].name]
           S == { r.name : r \in ToSet(s) }
<1>1. /\ Len(s) \in Nat /\ DOMAIN s = 1 .. Len(s)
      /\ \A n \in 1 .. Len(s) : s[n] \in ToSet(s)
      /\ \A x \in ToSet(s) : \E n \in 1 .. Len(s) : s[n] = x
  BY SeqFacts
<1>2. line \in [1 .. Len(s) -> S]
  BY <1>1
<1>3. line \in Seq(S)
  <2> HIDE DEF line, S
  <2> QED BY <1>1, <1>2, IsASeq
<1>4. IsSeq(line)
  <2> HIDE DEF line, S
  <2> QED BY <1>3, SeqIsSeq
<1>5. Len(line) = Len(s)
  <2>1. DOMAIN line = 1 .. Len(s)
    BY <1>1
  <2> HIDE DEF line, S
  <2> QED BY <1>1, <1>3, <2>1, LenProperties
<1>6. ToSet(line) = S
  <2>1. \A n \in 1 .. Len(s) : line[n] = s[n].name
    BY <1>1
  <2>2. DOMAIN line = 1 .. Len(s)
    BY <1>1
  <2>3. ToSet(line) = { line[n] : n \in 1 .. Len(s) }
    <3> HIDE DEF line
    <3> QED BY <2>2 DEF ToSet
  <2> HIDE DEF line
  <2> QED BY <1>1, <2>1, <2>3
<1> QED BY <1>4, <1>5, <1>6

\* One left out of a sequence.
LEMMA RemovedFacts ==
    ASSUME NEW S, NEW s \in Seq(S), NEW p \in 1 .. Len(s)
    PROVE  /\ RemoveAt(s, p) \in Seq(S) /\ Len(RemoveAt(s, p)) = Len(s) - 1
           /\ ToSet(RemoveAt(s, p)) \cup {s[p]} = ToSet(s)
<1> DEFINE a == SubSeq(s, 1, p - 1)
           b == SubSeq(s, p + 1, Len(s))
<1>1. /\ Len(s) \in Nat /\ DOMAIN s = 1 .. Len(s) /\ \A n \in 1 .. Len(s) : s[n] \in S
  BY LenProperties, ElementOfSeq
<1>2. /\ a \in Seq(S) /\ Len(a) = p - 1 /\ \A i \in 1 .. p - 1 : a[i] = s[i]
  <2>1. \A i \in 1 .. p - 1 : s[i] \in S
    BY <1>1
  <2>2. /\ a \in Seq(S) /\ Len(a) = IF 1 <= p - 1 THEN (p - 1) - 1 + 1 ELSE 0
        /\ \A i \in 1 .. (p - 1) - 1 + 1 : a[i] = s[1 + i - 1]
    BY <1>1, <2>1, SubSeqProperties
  <2> HIDE DEF a
  <2> QED BY <1>1, <2>2
<1>3. /\ b \in Seq(S) /\ Len(b) = Len(s) - p /\ \A i \in 1 .. Len(s) - p : b[i] = s[p + i]
  <2> DEFINE m == p + 1
  <2>1. m \in Int /\ \A i \in m .. Len(s) : s[i] \in S
    BY <1>1
  <2>2. b = SubSeq(s, m, Len(s))
    OBVIOUS
  <2> HIDE DEF b, m
  <2>3. /\ b \in Seq(S) /\ Len(b) = IF m <= Len(s) THEN Len(s) - m + 1 ELSE 0
        /\ \A i \in 1 .. Len(s) - m + 1 : b[i] = s[m + i - 1]
    BY <1>1, <2>1, <2>2, SubSeqProperties
  <2>4. m \in Int /\ m = p + 1 /\ Len(s) - m + 1 = Len(s) - p
    BY <1>1 DEF m
  <2>5. Len(b) = Len(s) - p
    <3>1. Len(b) = IF m <= Len(s) THEN Len(s) - m + 1 ELSE 0
      BY <2>3
    <3>2. Len(s) \in Nat
      BY <1>1
    <3>3. \A n \in Nat : \A q \in 1 .. n : ~(q + 1 <= n) => n - q = 0
      OBVIOUS
    <3>4. ~(m <= Len(s)) => Len(s) - p = 0
      BY <2>4, <3>2, <3>3
    <3> QED BY <2>4, <3>1, <3>4
  <2>6. ASSUME NEW i \in 1 .. Len(s) - p
        PROVE  b[i] = s[p + i]
    <3>1. b[i] = s[m + i - 1]
      BY <2>3, <2>4
    <3>2. m + i - 1 = p + i
      BY <2>4
    <3> QED BY <3>1, <3>2
  <2> QED BY <2>3, <2>5, <2>6
<1>4. RemoveAt(s, p) = a \o b
  BY DEF RemoveAt
<1> HIDE DEF a, b
<1>5. IsSeq(a) /\ IsSeq(b)
  BY <1>2, <1>3, SeqIsSeq
<1>6. ToSet(a \o b) = ToSet(a) \cup ToSet(b)
  BY <1>5, ConcatFacts
<1>7. a \o b \in Seq(S) /\ Len(a \o b) = Len(a) + Len(b)
  BY <1>2, <1>3, ConcatProperties
<1>8. ToSet(a) = { s[i] : i \in 1 .. p - 1 }
  <2>1. DOMAIN a = 1 .. p - 1
    BY <1>2, LenProperties
  <2> QED BY <1>2, <2>1 DEF ToSet
<1>9. ToSet(b) = { s[i] : i \in p + 1 .. Len(s) }
  <2>1. DOMAIN b = 1 .. Len(s) - p
    BY <1>3, LenProperties
  <2>2. \A i \in p + 1 .. Len(s) : i - p \in 1 .. Len(s) - p /\ b[i - p] = s[i]
    <3> TAKE i \in p + 1 .. Len(s)
    <3>1. i - p \in 1 .. Len(s) - p /\ p + (i - p) = i
      BY <1>1
    <3> QED BY <1>3, <3>1
  <2>3. \A i \in 1 .. Len(s) - p : p + i \in p + 1 .. Len(s)
    BY <1>1
  <2>4. ToSet(b) = { b[i] : i \in 1 .. Len(s) - p }
    BY <2>1 DEF ToSet
  <2>5. ASSUME NEW i \in 1 .. Len(s) - p
        PROVE  b[i] \in { s[k] : k \in p + 1 .. Len(s) }
    BY <1>3, <2>3
  <2>6. ASSUME NEW i \in p + 1 .. Len(s)
        PROVE  s[i] \in { b[k] : k \in 1 .. Len(s) - p }
    BY <2>2
  <2> QED BY <2>4, <2>5, <2>6
<1>10. ToSet(s) = { s[i] : i \in 1 .. Len(s) }
  BY <1>1 DEF ToSet
<1>11. \A i \in 1 .. Len(s) : i \in 1 .. p - 1 \/ i = p \/ i \in p + 1 .. Len(s)
  BY <1>1
<1>12. 1 .. p - 1 \subseteq 1 .. Len(s) /\ p + 1 .. Len(s) \subseteq 1 .. Len(s)
  BY <1>1
<1>13. ToSet(a) \cup ToSet(b) \cup {s[p]} = ToSet(s)
  BY <1>8, <1>9, <1>10, <1>11, <1>12
<1>14. Len(a) + Len(b) = Len(s) - 1
  BY <1>1, <1>2, <1>3
<1> QED BY <1>4, <1>6, <1>7, <1>13, <1>14

\* Insertion puts one in and leaves none out.
LEMMA InsertedFacts ==
    ASSUME NEW s, IsSeq(s), NEW i
    PROVE  IsSeq(Inserted(s, i)) /\ ToSet(Inserted(s, i)) = ToSet(s) \cup {i}
<1> DEFINE J == { j \in DOMAIN s : SortKey(s[j]) <= SortKey(i) }
           n == Cardinality(J)
           a == SubSeq(s, 1, n)
           b == SubSeq(s, n + 1, Len(s))
<1>1. Len(s) \in Nat /\ DOMAIN s = 1 .. Len(s) /\ s \in Seq(ToSet(s))
  BY SeqFacts DEF IsSeq
<1>2. n \in 0 .. Len(s)
  <2>1. IsFiniteSet(1 .. Len(s)) /\ Cardinality(1 .. Len(s)) = IF 1 > Len(s) THEN 0 ELSE Len(s) - 1 + 1
    BY <1>1, FS_Interval
  <2>2. Cardinality(1 .. Len(s)) = Len(s)
    BY <1>1, <2>1
  <2>3. J \subseteq 1 .. Len(s)
    BY <1>1
  <2> HIDE DEF J
  <2>4. IsFiniteSet(J) /\ n <= Len(s)
    BY <2>1, <2>2, <2>3, FS_Subset
  <2>5. n \in Nat
    BY <2>4, FS_CardinalityType
  <2> HIDE DEF n
  <2> QED BY <1>1, <2>4, <2>5
<1>3. Inserted(s, i) = a \o <<i>> \o b
  BY DEF Inserted
<1> HIDE DEF n
<1>4. /\ \A k \in 1 .. n : s[k] \in ToSet(s)
      /\ \A k \in n + 1 .. Len(s) : s[k] \in ToSet(s)
  <2>1. \A k \in 1 .. Len(s) : s[k] \in ToSet(s)
    BY SeqFacts
  <2> QED BY <1>1, <1>2, <2>1
<1>5. a \in Seq(ToSet(s)) /\ b \in Seq(ToSet(s))
  BY <1>1, <1>2, <1>4, SubSeqProperties
<1>6. a \o b = s
  <2>1. SubSeq(s, 1, n) \o SubSeq(s, n + 1, Len(s)) = SubSeq(s, 1, Len(s))
    <3>1. 1 \in 1 .. Len(s) + 1 /\ n \in 1 - 1 .. Len(s) /\ Len(s) \in n .. Len(s)
      BY <1>1, <1>2
    <3> QED BY <1>1, <3>1, ConcatAdjacentSubSeq
  <2> QED BY <1>1, <2>1, SubSeqFull
<1> HIDE DEF a, b
<1>7. IsSeq(a) /\ IsSeq(b)
  BY <1>5, SeqIsSeq
<1>8. ToSet(s) = ToSet(a) \cup ToSet(b)
  BY <1>6, <1>7, ConcatFacts
<1>9. a \o <<i>> = Append(a, i) /\ IsSeq(Append(a, i)) /\ ToSet(Append(a, i)) = ToSet(a) \cup {i}
  BY <1>7, AppendFacts
<1> DEFINE c == Append(a, i)
<1>10. IsSeq(c) /\ ToSet(c) = ToSet(a) \cup {i} /\ Inserted(s, i) = c \o b
  BY <1>3, <1>9
<1> HIDE DEF c
<1>11. IsSeq(c \o b) /\ ToSet(c \o b) = ToSet(c) \cup ToSet(b)
  BY <1>7, <1>10, ConcatFacts
<1> QED BY <1>8, <1>10, <1>11

\* A key is one of three, and the owners have the first.
LEMMA KeyFacts ==
    ASSUME NEW i
    PROVE  SortKey(i) \in 0 .. 2 /\ (Main(i) <=> SortKey(i) = 0)
  BY DEF SortKey

\* Numbers that come with all smaller ones are a first few.
LEMMA FirstFew ==
    ASSUME NEW L \in Nat, NEW J, J \subseteq 1 .. L,
           \A j \in J : \A k \in 1 .. j : k \in J
    PROVE  Cardinality(J) \in 0 .. L /\ J = 1 .. Cardinality(J)
<1> DEFINE Out == { n \in Nat : n + 1 \notin J }
<1>1. L \in Out
  OBVIOUS
<1>2. Out \subseteq Nat
  OBVIOUS
<1> HIDE DEF Out
<1>3. PICK m \in Out : \A n \in Out : m <= n
  BY <1>1, <1>2, LeastElement
<1>4. m \in Nat /\ m <= L /\ m + 1 \notin J
  BY <1>1, <1>3 DEF Out
<1>5. ASSUME NEW j \in 1 .. m
      PROVE  j \in J
  <2>1. j - 1 \in Nat /\ ~(m <= j - 1) /\ (j - 1) + 1 = j
    BY <1>4
  <2>2. j - 1 \notin Out
    BY <1>3, <2>1
  <2> QED BY <2>1, <2>2 DEF Out
<1>6. ASSUME NEW j \in J
      PROVE  j \in 1 .. m
  <2>1. j \in 1 .. L
    OBVIOUS
  <2>2. ~(m + 1 \in 1 .. j)
    BY <1>4
  <2> QED BY <1>4, <2>1, <2>2
<1>7. J = 1 .. m
  BY <1>5, <1>6
<1>8. Cardinality(1 .. m) = m
  <2>1. Cardinality(1 .. m) = IF 1 > m THEN 0 ELSE m - 1 + 1
    BY <1>4, FS_Interval
  <2> QED BY <1>4, <2>1
<1> QED BY <1>4, <1>7, <1>8

\* Insertion behind what does not come after it keeps the order.
LEMMA InsertedRises ==
    ASSUME NEW s, IsSeq(s), KeysRise(s), NEW i
    PROVE  KeysRise(Inserted(s, i))
<1> DEFINE J == { j \in DOMAIN s : SortKey(s[j]) <= SortKey(i) }
           n == Cardinality(J)
           L == Len(s)
           a == SubSeq(s, 1, n)
           b == SubSeq(s, n + 1, Len(s))
           t == Inserted(s, i)
<1>1. L \in Nat /\ DOMAIN s = 1 .. L /\ \A k \in 1 .. L : s[k] \in ToSet(s)
  BY SeqFacts
<1>2. \A j, k \in 1 .. L : j <= k => SortKey(s[j]) <= SortKey(s[k])
  BY DEF KeysRise
<1>3. n \in 0 .. L /\ J = 1 .. n
  <2>1. J \subseteq 1 .. L
    BY <1>1
  <2>2. ASSUME NEW j \in J, NEW k \in 1 .. j
        PROVE  k \in J
    <3>1. j \in 1 .. L /\ k \in 1 .. L /\ k <= j
      BY <1>1
    <3>2. SortKey(s[j]) <= SortKey(i)
      OBVIOUS
    <3>3. SortKey(s[k]) <= SortKey(s[j])
      BY <1>2, <3>1
    <3>4. SortKey(s[k]) \in 0 .. 2 /\ SortKey(s[j]) \in 0 .. 2 /\ SortKey(i) \in 0 .. 2
      BY KeyFacts
    <3>5. SortKey(s[k]) <= SortKey(i)
      BY <3>2, <3>3, <3>4
    <3> QED BY <1>1, <3>1, <3>5
  <2> HIDE DEF J, L
  <2> QED BY <1>1, <2>1, <2>2, FirstFew
<1>4. /\ \A k \in 1 .. n : SortKey(s[k]) <= SortKey(i)
      /\ \A k \in n + 1 .. L : SortKey(i) <= SortKey(s[k])
  <2>1. \A k \in 1 .. n : k \in J
    BY <1>3
  <2>2. \A k \in n + 1 .. L : k \in 1 .. L /\ k \notin J
    <3> HIDE DEF J, n, L
    <3> QED BY <1>1, <1>3
  <2>3. ASSUME NEW k \in n + 1 .. L
        PROVE  SortKey(i) <= SortKey(s[k])
    <3>1. ~(SortKey(s[k]) <= SortKey(i))
      BY <1>1, <2>2
    <3>2. SortKey(s[k]) \in 0 .. 2 /\ SortKey(i) \in 0 .. 2
      BY KeyFacts
    <3> QED BY <3>1, <3>2
  <2> QED BY <2>1, <2>3
<1>5. t = (a \o <<i>>) \o b
  BY DEF Inserted
<1> HIDE DEF J, n, L
<1>6. /\ a \in Seq(ToSet(s)) /\ Len(a) = n /\ \A k \in 1 .. n : a[k] = s[k]
  <2>1. \A k \in 1 .. n : s[k] \in ToSet(s)
    BY <1>1, <1>3
  <2>2. 1 \in Int /\ n \in Int /\ n - 1 + 1 = n
    BY <1>3
  <2>3. /\ a \in Seq(ToSet(s)) /\ Len(a) = IF 1 <= n THEN n - 1 + 1 ELSE 0
        /\ \A k \in 1 .. n - 1 + 1 : a[k] = s[1 + k - 1]
    BY <2>1, <2>2, SubSeqProperties
  <2> HIDE DEF a
  <2> QED BY <1>3, <2>2, <2>3
<1>7. /\ b \in Seq(ToSet(s)) /\ Len(b) = L - n /\ \A k \in 1 .. L - n : b[k] = s[n + k]
  <2>1. \A k \in n + 1 .. L : s[k] \in ToSet(s)
    BY <1>1, <1>3
  <2>2. n + 1 \in Int /\ L \in Int /\ L - (n + 1) + 1 = L - n
    BY <1>1, <1>3
  <2>3. /\ b \in Seq(ToSet(s)) /\ Len(b) = IF n + 1 <= L THEN L - (n + 1) + 1 ELSE 0
        /\ \A k \in 1 .. L - (n + 1) + 1 : b[k] = s[n + 1 + k - 1]
    BY <2>1, <2>2, SubSeqProperties DEF L
  <2> HIDE DEF b
  <2>4. \A k \in 1 .. L - n : n + 1 + k - 1 = n + k
    BY <1>1, <1>3
  <2> QED BY <1>1, <1>3, <2>2, <2>3, <2>4
<1> HIDE DEF a, b
<1>8. IsSeq(a) /\ IsSeq(b)
  BY <1>6, <1>7, SeqIsSeq
<1> DEFINE c == Append(a, i)
<1>9. /\ a \o <<i>> = c /\ IsSeq(c) /\ Len(c) = n + 1
      /\ \A k \in 1 .. n : c[k] = s[k]
      /\ c[n + 1] = i
  <2>1. /\ Append(a, i) = a \o <<i>> /\ IsSeq(Append(a, i)) /\ Len(Append(a, i)) = Len(a) + 1
        /\ \A k \in 1 .. Len(a) : Append(a, i)[k] = a[k]
        /\ Append(a, i)[Len(a) + 1] = i
    BY <1>8, AppendFacts
  <2>2. c = Append(a, i)
    OBVIOUS
  <2> HIDE DEF c, t
  <2>3. a \o <<i>> = c /\ IsSeq(c) /\ Len(c) = n + 1 /\ c[n + 1] = i
    BY <1>6, <2>1, <2>2
  <2>4. \A k \in 1 .. n : c[k] = a[k]
    BY <1>6, <2>1, <2>2
  <2>5. \A k \in 1 .. n : c[k] = s[k]
    BY <1>6, <2>4
  <2> QED BY <2>3, <2>5
<1> HIDE DEF c
<1>10. /\ t = c \o b /\ Len(c \o b) = Len(c) + Len(b)
       /\ \A k \in 1 .. Len(c) : (c \o b)[k] = c[k]
       /\ \A k \in 1 .. Len(b) : (c \o b)[Len(c) + k] = b[k]
  <2>1. t = c \o b
    BY <1>5, <1>9
  <2> HIDE DEF t
  <2> QED BY <1>8, <1>9, <2>1, ConcatFacts
<1> HIDE DEF t
<1>11. Len(t) = L + 1
  BY <1>1, <1>3, <1>7, <1>9, <1>10
<1>12. \A k \in 1 .. n : t[k] = s[k]
  BY <1>3, <1>9, <1>10
<1>13. t[n + 1] = i
  BY <1>3, <1>9, <1>10
<1>14. \A k \in n + 2 .. L + 1 : t[k] = s[k - 1]
  <2> TAKE k \in n + 2 .. L + 1
  <2>1. k - (n + 1) \in 1 .. L - n /\ (n + 1) + (k - (n + 1)) = k /\ n + (k - (n + 1)) = k - 1
    BY <1>1, <1>3
  <2>2. (c \o b)[Len(c) + (k - (n + 1))] = b[k - (n + 1)]
    BY <1>7, <1>10, <2>1
  <2>3. b[k - (n + 1)] = s[n + (k - (n + 1))]
    BY <1>7, <2>1
  <2> QED BY <1>9, <1>10, <2>1, <2>2, <2>3
<1> SUFFICES ASSUME NEW j \in 1 .. Len(t), NEW k \in 1 .. Len(t), j <= k
             PROVE  SortKey(t[j]) <= SortKey(t[k])
  BY DEF KeysRise, t
<1>15. j \in 1 .. L + 1 /\ k \in 1 .. L + 1 /\ j \in Nat /\ k \in Nat /\ n \in Nat /\ n <= L
  BY <1>1, <1>3, <1>11
<1>16. CASE k <= n
  <2>1. j \in 1 .. n /\ k \in 1 .. n /\ j \in 1 .. L /\ k \in 1 .. L
    BY <1>1, <1>15, <1>16
  <2> QED BY <1>2, <1>12, <2>1
<1>17. CASE j <= n /\ k = n + 1
  <2>1. j \in 1 .. n
    BY <1>15, <1>17
  <2> QED BY <1>4, <1>12, <1>13, <1>17, <2>1
<1>18. CASE j <= n /\ k > n + 1
  <2>1. j \in 1 .. n /\ k \in n + 2 .. L + 1 /\ j \in 1 .. L /\ k - 1 \in 1 .. L /\ j <= k - 1
    BY <1>1, <1>15, <1>18
  <2> QED BY <1>2, <1>12, <1>14, <2>1
<1>19. CASE j = n + 1 /\ k = n + 1
  <2>1. SortKey(i) \in 0 .. 2
    BY KeyFacts
  <2>2. SortKey(i) <= SortKey(i)
    BY <2>1
  <2> QED BY <1>13, <1>19, <2>2
<1>20. CASE j = n + 1 /\ k > n + 1
  <2>1. k \in n + 2 .. L + 1 /\ k - 1 \in n + 1 .. L
    BY <1>1, <1>15, <1>20
  <2> QED BY <1>4, <1>13, <1>14, <1>20, <2>1
<1>21. CASE j > n + 1
  <2>1. /\ j \in n + 2 .. L + 1 /\ k \in n + 2 .. L + 1
        /\ j - 1 \in 1 .. L /\ k - 1 \in 1 .. L /\ j - 1 <= k - 1
    BY <1>1, <1>15, <1>21
  <2> QED BY <1>2, <1>14, <2>1
<1>22. \/ k <= n \/ (j <= n /\ k = n + 1) \/ (j <= n /\ k > n + 1)
       \/ (j = n + 1 /\ k = n + 1) \/ (j = n + 1 /\ k > n + 1) \/ j > n + 1
  BY <1>15
<1> QED BY <1>16, <1>17, <1>18, <1>19, <1>20, <1>21, <1>22

\* The sorted group is the group, in order.
LEMMA SortedFacts ==
    ASSUME NEW recs, IsSeq(recs)
    PROVE  /\ IsSeq(SortedGroup(recs)) /\ ToSet(SortedGroup(recs)) = ToSet(recs)
           /\ KeysRise(SortedGroup(recs))
<1> DEFINE Built(g, n) == IF n = 0 THEN <<>> ELSE Inserted(g[n - 1], recs[n])
           Solves(g, N) == g = [n \in 0 .. N |-> Built(g, n)]
           sorted == CHOOSE g : Solves(g, Len(recs))
           T == { N \in Nat : \E g : Solves(g, N) }
<1>0. /\ Len(recs) \in Nat /\ DOMAIN recs = 1 .. Len(recs)
  BY SeqFacts
<1>1. 0 \in T
  <2>1. Solves([n \in 0 .. 0 |-> <<>>], 0)
    OBVIOUS
  <2> HIDE DEF Solves
  <2> QED BY <2>1
<1>2. ASSUME NEW N \in Nat, N \in T
      PROVE  N + 1 \in T
  <2>1. PICK h : Solves(h, N)
    BY <1>2
  <2> DEFINE g == [n \in 0 .. N + 1 |-> Built(h, n)]
  <2>2. \A n \in 0 .. N : g[n] = h[n]
    <3>1. \A n \in 0 .. N : h[n] = Built(h, n)
      <4> HIDE DEF Built
      <4> QED BY <2>1
    <3>2. \A n \in 0 .. N + 1 : g[n] = Built(h, n)
      <4> HIDE DEF Built
      <4> QED OBVIOUS
    <3> HIDE DEF Built, g
    <3> QED BY <3>1, <3>2
  <2>3. \A n \in 0 .. N + 1 : Built(g, n) = Built(h, n)
    <3>1. \A n \in 0 .. N + 1 : n # 0 => n - 1 \in 0 .. N
      OBVIOUS
    <3> HIDE DEF g
    <3> QED BY <2>2, <3>1
  <2>4. Solves(g, N + 1)
    <3> HIDE DEF Built
    <3> QED BY <2>3
  <2> HIDE DEF Solves, g
  <2> QED BY <2>4
<1>3. Solves(sorted, Len(recs))
  <2>1. Len(recs) \in T
    <3> HIDE DEF T
    <3> QED BY <1>0, <1>1, <1>2, Induction
  <2>2. \E g : Solves(g, Len(recs))
    BY <2>1
  <2> HIDE DEF Solves
  <2> QED BY <2>2
<1>4. SortedGroup(recs) = sorted[Len(recs)]
  BY DEF SortedGroup
<1> HIDE DEF sorted
<1>5. \A n \in 0 .. Len(recs) : sorted[n] = Built(sorted, n)
  <2> HIDE DEF Built
  <2> QED BY <1>3
<1>6. sorted[0] = <<>>
  BY <1>0, <1>5
<1>7. \A n \in 1 .. Len(recs) : sorted[n] = Inserted(sorted[n - 1], recs[n])
  BY <1>0, <1>5
<1> DEFINE Holds(n) == /\ IsSeq(sorted[n]) /\ ToSet(sorted[n]) = { recs[k] : k \in 1 .. n }
                       /\ KeysRise(sorted[n])
           U == { n \in Nat : n <= Len(recs) => Holds(n) }
<1>8. 0 \in U
  <2>1. IsSeq(<<>>)
    BY EmptySeq, SeqIsSeq
  <2>2. ToSet(<<>>) = {} /\ { recs[k] : k \in 1 .. 0 } = {}
    BY DEF ToSet
  <2>3. KeysRise(<<>>)
    BY DEF KeysRise
  <2> QED BY <1>6, <2>1, <2>2, <2>3
<1>9. ASSUME NEW n \in Nat, n \in U
      PROVE  n + 1 \in U
  <2> SUFFICES ASSUME n + 1 <= Len(recs) PROVE Holds(n + 1)
    OBVIOUS
  <2>1. Holds(n) /\ n + 1 \in 1 .. Len(recs) /\ (n + 1) - 1 = n
    BY <1>0, <1>9
  <2>2. sorted[n + 1] = Inserted(sorted[n], recs[n + 1])
    BY <1>7, <2>1
  <2>3. IsSeq(sorted[n + 1]) /\ ToSet(sorted[n + 1]) = ToSet(sorted[n]) \cup {recs[n + 1]}
    BY <2>1, <2>2, InsertedFacts
  <2>4. { recs[k] : k \in 1 .. n + 1 } = { recs[k] : k \in 1 .. n } \cup {recs[n + 1]}
    <3>1. \A k \in 1 .. n + 1 : k \in 1 .. n \/ k = n + 1
      OBVIOUS
    <3>2. 1 .. n \subseteq 1 .. n + 1 /\ n + 1 \in 1 .. n + 1
      OBVIOUS
    <3> QED BY <3>1, <3>2
  <2>5. KeysRise(sorted[n + 1])
    BY <2>1, <2>2, InsertedRises
  <2> QED BY <2>1, <2>3, <2>4, <2>5
<1> HIDE DEF U
<1>10. Nat \subseteq U
  BY <1>8, <1>9, Induction
<1>11. Holds(Len(recs))
  BY <1>0, <1>10 DEF U
<1> QED BY <1>0, <1>4, <1>11 DEF ToSet

-----------------------------------------------------------------------------
(* The steps of a block, one by one *)

\* Failing takes the environment back to where the block began.
LEMMA FailKeeps ==
    ASSUME ImportInv, Fail
    PROVE  ImportInv'
<1>1. /\ consts' = OldConsts /\ recOf' = OldOwners /\ recGroup' = OldGroups
      /\ journal' = <<>> /\ ~Open'
  BY DEF Fail, Rollback, OldConsts, OldOwners, OldGroups, Open
<1>2. OldConsts' = consts' /\ OldOwners' = recOf' /\ OldGroups' = recGroup'
  BY <1>1, ReplayedNothing DEF OldConsts, OldOwners, OldGroups, Undone
<1>3. IsFun(consts') /\ IsFun(recOf') /\ IsFun(recGroup')
  BY <1>1, ReplayedFun DEF ImportInv, OldConsts, OldOwners, OldGroups, Undone
<1>4. IsSeq(journal')
  BY <1>1, EmptySeq, SeqIsSeq
<1>5. DOMAIN consts' \subseteq Nat
  <2>1. CASE Open
    BY <1>1, <2>1 DEF ImportInv, BlockInv, Added
  <2>2. CASE ~Open
    BY <1>1, <2>2, ReplayedNothing DEF ImportInv, OldConsts, Undone
  <2> QED BY <2>1, <2>2
<1>6. WholeInside(OldConsts', OldOwners', OldGroups')
  BY <1>1, <1>2 DEF ImportInv
<1>7. BlockInv' /\ (~Open' => journal' = <<>>)
  BY <1>1 DEF BlockInv
<1> QED BY <1>3, <1>4, <1>5, <1>6, <1>7 DEF ImportInv

\* Committing leaves what it found whole.
LEMMA CommitKeeps ==
    ASSUME ImportInv, Open, Commit
    PROVE  ImportInv'
<1>1. CASE Fail
  BY <1>1, FailKeeps
<1>2. CASE block' = NoBlock /\ journal' = <<>> /\ UNCHANGED env
  <2>1. consts' = consts /\ recOf' = recOf /\ recGroup' = recGroup /\ ~Open'
    BY <1>2 DEF env, Open
  <2>2. OldConsts' = consts /\ OldOwners' = recOf /\ OldGroups' = recGroup
    BY <1>2, <2>1, ReplayedNothing DEF OldConsts, OldOwners, OldGroups, Undone
  <2>3. WholeInside(consts, recOf, recGroup)
    BY DEF ImportInv, BlockInv, Commit, At
  <2>4. IsSeq(journal')
    BY <1>2, EmptySeq, SeqIsSeq
  <2>5. BlockInv' /\ (~Open' => journal' = <<>>)
    BY <1>2, <2>1 DEF BlockInv
  <2>6. IsFun(consts') /\ IsFun(recOf') /\ IsFun(recGroup') /\ DOMAIN consts' \subseteq Nat
    BY <2>1 DEF ImportInv
  <2>7. WholeInside(OldConsts', OldOwners', OldGroups')
    BY <2>2, <2>3
  <2> QED BY <2>4, <2>5, <2>6, <2>7 DEF ImportInv
<1> QED BY <1>1, <1>2 DEF Commit

\* A step that touches neither the environment nor the block.
LEMMA ElsewhereKeeps ==
    ASSUME ImportInv, UNCHANGED <<env, block, journal>>
    PROVE  ImportInv'
<1>1. /\ consts' = consts /\ recOf' = recOf /\ recGroup' = recGroup
      /\ block' = block /\ journal' = journal
  BY DEF env
<1>2. OldConsts' = OldConsts /\ OldOwners' = OldOwners /\ OldGroups' = OldGroups
  BY <1>1 DEF OldConsts, OldOwners, OldGroups, Undone
<1>3. Open' = Open /\ Fresh' = Fresh /\ RecNames' = RecNames
  BY <1>1, <1>2 DEF Open, Fresh, RecNames
<1>4. ListedOk' = ListedOk /\ DerivedCount' = DerivedCount
  BY <1>1 DEF ListedOk, DerivedCount, Nested
<1>5. BlockInv'
  <2>1. Added' = Added /\ TypesAdded' = TypesAdded /\ CtorsAdded' = CtorsAdded
    BY <1>1, <1>2, <1>3 DEF Added, TypesAdded, CtorsAdded
  <2>2. RecsWaiting' = RecsWaiting
    BY <1>1, <1>2, <1>3 DEF RecsWaiting
  <2>3. RecsCompared' = RecsCompared
    BY <1>1, <1>4 DEF RecsCompared
  <2>4. RecsAdded' = RecsAdded /\ OwnersAdded' = OwnersAdded
    BY <1>1, <1>2, <1>3 DEF RecsAdded, OwnersAdded
  <2> QED BY <1>1, <1>3, <2>1, <2>2, <2>3, <2>4 DEF ImportInv, BlockInv
<1> QED BY <1>1, <1>2, <1>3, <1>5 DEF ImportInv

\* A whole environment with one more axiom is whole.
LEMMA AxiomAdded ==
    ASSUME NEW c, NEW owner, NEW group, IsFun(c), WholeInside(c, owner, group), NEW i, i \notin DOMAIN c
    PROVE  WholeInside(Put(c, i, [kind |-> "axiom"]), owner, group)
<1> DEFINE d == Put(c, i, [kind |-> "axiom"])
<1>1. /\ DOMAIN d = DOMAIN c \cup {i} /\ d[i].kind = "axiom"
      /\ \A x \in DOMAIN c : d[x] = c[x]
  BY DEF Put
<1> HIDE DEF d
<1>2. TypesOf(d) = TypesOf(c) /\ RecsOf(d) = RecsOf(c)
  BY <1>1 DEF TypesOf, RecsOf
<1>3. TypesOf(c) \subseteq DOMAIN c /\ RecsOf(c) \subseteq DOMAIN c
  BY DEF TypesOf, RecsOf
<1>4. \A t \in TypesOf(d) : \A k \in DOMAIN d[t].ctors :
          /\ d[t].ctors[k] \in DOMAIN d
          /\ d[d[t].ctors[k]].kind = "ctor"
          /\ d[d[t].ctors[k]].induct = t
  BY <1>1, <1>2, <1>3 DEF WholeInside, Whole
<1>5. \A x \in DOMAIN d : d[x].kind = "ctor" =>
          /\ d[x].induct \in TypesOf(d)
          /\ d[x].cidx \in DOMAIN d[d[x].induct].ctors
          /\ d[d[x].induct].ctors[d[x].cidx] = x
          /\ d[x].concl = d[x].induct
  BY <1>1, <1>2, <1>3 DEF WholeInside, Whole
<1>6. ASSUME NEW r \in RecsOf(d)
      PROVE  /\ ToSet(d[r].all) \subseteq TypesOf(d)
             /\ ToSet(group[r]) = { x \in RecsOf(d) : d[x].all = d[r].all }
  BY <1>1, <1>2, <1>3 DEF WholeInside, Whole
<1>7. DOMAIN owner = TypesOf(d) /\ DOMAIN group = RecsOf(d)
  BY <1>2 DEF WholeInside, Whole
<1>8. \A t \in DOMAIN owner : owner[t] \in RecsOf(d) /\ t \in ToSet(d[owner[t]].all)
  BY <1>1, <1>2, <1>3 DEF WholeInside, Whole
<1>9. WholeInside(d, owner, group)
  BY <1>4, <1>5, <1>6, <1>7, <1>8 DEF WholeInside, Whole
<1> QED BY <1>9 DEF d

\* Outside a block the journal is empty and the environment is the old one.
LEMMA ClosedFacts ==
    ASSUME ImportInv, ~Open
    PROVE  /\ journal = <<>> /\ OldConsts = consts /\ OldOwners = recOf /\ OldGroups = recGroup
           /\ WholeInside(consts, recOf, recGroup)
<1>1. journal = <<>>
  BY DEF ImportInv
<1>2. OldConsts = consts /\ OldOwners = recOf /\ OldGroups = recGroup
  BY <1>1, ReplayedNothing DEF OldConsts, OldOwners, OldGroups, Undone
<1> QED BY <1>1, <1>2 DEF ImportInv

LEMMA DeclarationKeeps ==
    ASSUME ImportInv, NEW i \in AxiomIds, Declaration(i)
    PROVE  ImportInv'
<1>1. /\ ~Open /\ ~Open' /\ recOf' = recOf /\ recGroup' = recGroup
      /\ block' = block /\ journal' = journal
  BY DEF Declaration, Running, Open
<1>2. CASE UNCHANGED consts
  BY <1>1, <1>2, ElsewhereKeeps DEF env
<1>3. CASE ~Duplicate(i) /\ consts' = Put(consts, i, [kind |-> "axiom"])
  <2>1. i \notin DOMAIN consts /\ i \in Nat
    BY <1>3, ImportAssumption DEF Duplicate
  <2>2. /\ journal = <<>> /\ WholeInside(consts, recOf, recGroup)
    BY <1>1, ClosedFacts
  <2>3. WholeInside(consts', recOf, recGroup)
    BY <1>3, <2>1, <2>2, AxiomAdded DEF ImportInv
  <2>4. OldConsts' = consts' /\ OldOwners' = recOf /\ OldGroups' = recGroup
    BY <1>1, <2>2, ReplayedNothing DEF OldConsts, OldOwners, OldGroups, Undone
  <2>5. IsFun(consts') /\ DOMAIN consts' \subseteq Nat
    BY <1>3, <2>1 DEF ImportInv, Put, IsFun
  <2>6. IsSeq(journal') /\ journal' = <<>>
    BY <1>1, <2>2 DEF ImportInv
  <2>7. BlockInv'
    BY <1>1 DEF BlockInv
  <2> QED BY <1>1, <2>3, <2>4, <2>5, <2>6, <2>7 DEF ImportInv
<1> QED BY <1>2, <1>3 DEF Declaration

LEMMA BeginKeeps ==
    ASSUME ImportInv, BeginBlock
    PROVE  ImportInv'
<1>1. PICK container \in Inductives \cup {None} :
         block' = [stage |-> "types", container |-> container, types |-> <<>>, lists |-> <<>>,
                   recs |-> <<>>, pending |-> <<>>, ordered |-> <<>>, seen |-> {}, k |-> 1]
  BY DEF BeginBlock
<1>2. /\ ~Open /\ consts' = consts /\ recOf' = recOf /\ recGroup' = recGroup /\ journal' = <<>>
  BY DEF BeginBlock, Running, Open, env
<1>3. /\ journal = <<>> /\ OldConsts = consts /\ OldOwners = recOf /\ OldGroups = recGroup
      /\ WholeInside(consts, recOf, recGroup)
  BY <1>2, ClosedFacts
<1>4. OldConsts' = consts' /\ OldOwners' = recOf' /\ OldGroups' = recGroup'
  BY <1>2, ReplayedNothing DEF OldConsts, OldOwners, OldGroups, Undone
<1>5. block' \in Blocks
  <2>1. container \in Nat \cup {None}
    BY DEF ImportInv, Inductives
  <2>2. \A S : <<>> \in Seq(S)
    BY EmptySeq
  <2> QED BY <1>1, <2>1, <2>2 DEF Blocks, Stages
<1>6. /\ block'.stage = "types" /\ block'.types = <<>> /\ block'.lists = <<>> /\ block'.recs = <<>>
      /\ block'.ordered = <<>> /\ block'.k = 1 /\ block'.seen = {}
  BY <1>1
<1>7. Fresh' = {} /\ RecNames' = {} /\ Len(<<>>) = 0
  <2>1. ToSet(<<>>) = {}
    BY DEF ToSet
  <2> QED BY <1>4, <1>6, <2>1, EmptySeq DEF Fresh, RecNames
<1>8. Added' /\ TypesAdded' /\ CtorsAdded' /\ RecsWaiting' /\ RecsCompared' /\ RecsAdded' /\ OwnersAdded'
  <2>1. Added' /\ RecsCompared' /\ RecsAdded' /\ OwnersAdded' /\ CtorsAdded'
    BY <1>4, <1>6, <1>7 DEF Added, RecsCompared, RecsAdded, OwnersAdded, CtorsAdded
  <2>2. TypesAdded'
    BY <1>4, <1>6, <1>7 DEF TypesAdded
  <2>3. RecsWaiting'
    BY <1>4, <1>6, <1>7 DEF RecsWaiting
  <2> QED BY <2>1, <2>2, <2>3
<1>9. BlockInv' /\ Open'
  <2>1. Open'
    <3>1. NoBlock.stage = "none"
      BY DEF NoBlock
    <3> QED BY <1>6, <3>1 DEF Open
  <2> QED BY <1>5, <1>6, <1>8, <2>1 DEF BlockInv
<1>10. IsSeq(journal')
  BY <1>2, <1>3 DEF ImportInv
<1> QED BY <1>2, <1>3, <1>4, <1>9, <1>10 DEF ImportInv

\* What is known of the block being read.
LEMMA OpenFacts ==
    ASSUME ImportInv, Open
    PROVE  /\ block \in Blocks
           /\ Added /\ TypesAdded /\ CtorsAdded /\ RecsWaiting /\ RecsCompared /\ RecsAdded /\ OwnersAdded
           /\ IsFun(consts) /\ IsFun(recOf) /\ IsFun(recGroup) /\ IsSeq(journal)
           /\ DOMAIN consts \subseteq Nat
  BY DEF ImportInv, BlockInv

\* Its sequences.
LEMMA BlockFacts ==
    ASSUME NEW b \in Blocks
    PROVE  /\ b.types \in Seq(TypeIds) /\ b.lists \in Seq(CtorLists) /\ b.recs \in Seq(Records)
           /\ b.pending \in Seq(Records) /\ b.ordered \in Seq(Records)
           /\ IsSeq(b.types) /\ IsSeq(b.lists) /\ IsSeq(b.recs) /\ IsSeq(b.pending) /\ IsSeq(b.ordered)
           /\ b.k \in Nat /\ b.seen \in SUBSET TypeIds /\ b.stage \in Stages
           /\ b # NoBlock
<1>1. /\ b.types \in Seq(TypeIds) /\ b.lists \in Seq(CtorLists) /\ b.recs \in Seq(Records)
      /\ b.pending \in Seq(Records) /\ b.ordered \in Seq(Records)
      /\ b.k \in Nat /\ b.seen \in SUBSET TypeIds /\ b.stage \in Stages
  BY DEF Blocks
<1>2. IsSeq(b.types) /\ IsSeq(b.lists) /\ IsSeq(b.recs) /\ IsSeq(b.pending) /\ IsSeq(b.ordered)
  BY <1>1, SeqIsSeq
<1>3. b # NoBlock
  BY <1>1 DEF NoBlock, Stages
<1> QED BY <1>1, <1>2, <1>3

\* A step inside a block.
LEMMA StepKeeps ==
    ASSUME ImportInv, Open,
           IsFun(consts'), IsFun(recOf'), IsFun(recGroup'), IsSeq(journal'), DOMAIN consts' \subseteq Nat,
           OldConsts' = OldConsts, OldOwners' = OldOwners, OldGroups' = OldGroups,
           block' \in Blocks,
           Added', TypesAdded', CtorsAdded', RecsWaiting', RecsCompared', RecsAdded', OwnersAdded',
           block'.stage = "check" => WholeInside(consts', recOf', recGroup')
    PROVE  ImportInv'
<1>1. Open'
  BY BlockFacts DEF Open
<1>2. WholeInside(OldConsts', OldOwners', OldGroups')
  BY DEF ImportInv
<1> QED BY <1>1, <1>2 DEF ImportInv, BlockInv

\* A step of the block alone.
LEMMA BlockStepKeeps ==
    ASSUME ImportInv, Open, UNCHANGED <<env, journal>>, block' \in Blocks, block'.stage # "check",
           TypesAdded', CtorsAdded', RecsWaiting', RecsCompared', RecsAdded', OwnersAdded'
    PROVE  ImportInv'
<1>1. /\ consts' = consts /\ recOf' = recOf /\ recGroup' = recGroup /\ journal' = journal
  BY DEF env
<1>2. OldConsts' = OldConsts /\ OldOwners' = OldOwners /\ OldGroups' = OldGroups
  BY <1>1 DEF OldConsts, OldOwners, OldGroups, Undone
<1>3. Added'
  BY <1>1, <1>2, OpenFacts DEF Added
<1> QED BY <1>1, <1>2, <1>3, OpenFacts, StepKeeps

\* One more of a kind.
LEMMA AppendedFacts ==
    ASSUME NEW S, NEW s \in Seq(S), NEW x \in S
    PROVE  /\ Append(s, x) \in Seq(S) /\ Len(Append(s, x)) = Len(s) + 1
           /\ \A n \in 1 .. Len(s) : Append(s, x)[n] = s[n]
           /\ Append(s, x)[Len(s) + 1] = x
           /\ ToSet(Append(s, x)) = ToSet(s) \cup {x}
<1>1. IsSeq(s)
  BY SeqIsSeq
<1>2. Append(s, x) \in Seq(S)
  BY AppendProperties
<1>3. Len(Append(s, x)) = Len(s) + 1
  BY AppendProperties
<1>4. \A n \in 1 .. Len(s) : Append(s, x)[n] = s[n]
  BY <1>1, AppendFacts
<1>5. Append(s, x)[Len(s) + 1] = x
  BY AppendProperties
<1>6. ToSet(Append(s, x)) = ToSet(s) \cup {x}
  BY <1>1, AppendFacts
<1> QED BY <1>2, <1>3, <1>4, <1>5, <1>6

LEMMA TypeKeeps ==
    ASSUME ImportInv, Open, NEW i \in TypeIds, NEW ctors \in CtorLists, TypeRecord(i, ctors)
    PROVE  ImportInv'
<1>1. CASE Fail
  BY <1>1, FailKeeps
<1>2. CASE /\ ~Duplicate(i) /\ InsertConstant(i, [kind |-> "type", ctors |-> ctors])
           /\ block' = [block EXCEPT !.types = Append(@, i), !.lists = Append(@, ctors)]
           /\ UNCHANGED <<recOf, recGroup>>
  <2> DEFINE ts == Append(block.types, i)
             ls == Append(block.lists, ctors)
             c == [kind |-> "type", ctors |-> ctors]
  <2>0. block.stage = "types" /\ c.kind = "type" /\ c.ctors = ctors
    BY DEF TypeRecord, At
  <2>1. /\ block \in Blocks /\ Added /\ TypesAdded /\ CtorsAdded /\ RecsWaiting
        /\ IsFun(consts) /\ IsFun(recOf) /\ IsFun(recGroup) /\ IsSeq(journal) /\ DOMAIN consts \subseteq Nat
    BY OpenFacts
  <2>2. i \notin DOMAIN consts /\ i \in Nat
    BY <1>2, ImportAssumption DEF Duplicate
  <2> HIDE DEF c
  <2>3. /\ IsFun(consts') /\ IsSeq(journal')
        /\ OldConsts' = OldConsts /\ OldOwners' = OldOwners /\ OldGroups' = OldGroups
        /\ DOMAIN consts' = DOMAIN consts \cup {i} /\ consts'[i] = c
        /\ \A x \in DOMAIN consts : consts'[x] = consts[x]
    <3>1. InsertConstant(i, c)
      BY <1>2 DEF c
    <3> QED BY <1>2, <2>1, <2>2, <3>1, InsertedConstant
  <2>4. /\ block.types \in Seq(TypeIds) /\ block.lists \in Seq(CtorLists)
        /\ IsSeq(block.types) /\ IsSeq(block.lists) /\ block.recs \in Seq(Records)
    BY <2>1, BlockFacts
  <2>5. /\ ts \in Seq(TypeIds) /\ Len(ts) = Len(block.types) + 1
        /\ \A n \in 1 .. Len(block.types) : ts[n] = block.types[n]
        /\ ts[Len(block.types) + 1] = i /\ ToSet(ts) = ToSet(block.types) \cup {i}
    BY <2>4, AppendedFacts
  <2>6. /\ ls \in Seq(CtorLists) /\ Len(ls) = Len(block.lists) + 1
        /\ \A n \in 1 .. Len(block.lists) : ls[n] = block.lists[n]
        /\ ls[Len(block.lists) + 1] = ctors
    BY <2>4, AppendedFacts
  <2> HIDE DEF ts, ls
  <2>7. block' = [block EXCEPT !.types = ts, !.lists = ls]
    BY <1>2 DEF ts, ls
  <2>8. /\ block' \in Blocks /\ block'.types = ts /\ block'.lists = ls /\ block'.stage = "types"
        /\ block'.recs = block.recs /\ block'.ordered = block.ordered /\ block'.k = block.k
        /\ block'.seen = block.seen
    BY <2>0, <2>1, <2>5, <2>6, <2>7 DEF Blocks
  <2>9. Fresh' = Fresh \cup {i} /\ i \notin DOMAIN OldConsts
    BY <2>1, <2>2, <2>3 DEF Fresh, Added
  <2>10. Added'
    BY <2>1, <2>3 DEF Added
  <2>11. Len(block.types) \in Nat /\ Len(block.lists) = Len(block.types)
    BY <2>1, <2>4, SeqFacts DEF TypesAdded
  <2>12. \A n \in 1 .. Len(ts) : n \in 1 .. Len(block.types) \/ n = Len(block.types) + 1
    BY <2>5, <2>11
  <2>13. TypesAdded'
    <3>1. Len(ls) = Len(ts)
      BY <2>5, <2>6, <2>11
    <3>2. ASSUME NEW n \in 1 .. Len(ts)
          PROVE  ts[n] \in Fresh' /\ consts'[ts[n]].kind = "type" /\ consts'[ts[n]].ctors = ls[n]
      <4>1. CASE n \in 1 .. Len(block.types)
        <5>1. /\ block.types[n] \in Fresh /\ consts[block.types[n]].kind = "type"
              /\ consts[block.types[n]].ctors = block.lists[n]
          BY <2>1, <4>1 DEF TypesAdded
        <5>2. ts[n] = block.types[n] /\ ls[n] = block.lists[n]
          BY <2>5, <2>6, <2>11, <4>1
        <5>3. consts'[ts[n]] = consts[ts[n]]
          BY <2>3, <5>1, <5>2 DEF Fresh
        <5> QED BY <2>9, <5>1, <5>2, <5>3
      <4>2. CASE n = Len(block.types) + 1
        <5>1. ts[n] = i /\ ls[n] = ctors
          BY <2>5, <2>6, <2>11, <4>2
        <5> QED BY <2>0, <2>3, <2>9, <5>1
      <4> QED BY <2>12, <4>1, <4>2
    <3>3. ASSUME NEW x \in Fresh', consts'[x].kind = "type"
          PROVE  x \in ToSet(ts)
      <4>1. CASE x = i
        BY <2>5, <4>1
      <4>2. CASE x \in Fresh
        <5>1. consts[x].kind = "type"
          BY <2>3, <3>3, <4>2 DEF Fresh
        <5> QED BY <2>1, <2>5, <4>2, <5>1 DEF TypesAdded
      <4> QED BY <2>9, <4>1, <4>2
    <3> QED BY <2>8, <3>1, <3>2, <3>3 DEF TypesAdded
  <2>14. CtorsAdded'
    <3>1. ASSUME NEW x \in Fresh', consts'[x].kind = "ctor"
          PROVE  \E n \in 1 .. Len(ts) :
                    /\ ts[n] = consts'[x].induct
                    /\ consts'[x].cidx \in DOMAIN ls[n] /\ ls[n][consts'[x].cidx] = x
      <4>1. x \in Fresh /\ consts'[x] = consts[x]
        BY <2>0, <2>3, <2>9, <3>1 DEF Fresh
      <4>2. PICK n \in 1 .. Len(block.types) :
              /\ block.types[n] = consts[x].induct
              /\ consts[x].cidx \in DOMAIN block.lists[n] /\ block.lists[n][consts[x].cidx] = x
        BY <2>1, <3>1, <4>1 DEF CtorsAdded
      <4>3. n \in 1 .. Len(ts) /\ ts[n] = block.types[n] /\ ls[n] = block.lists[n]
        BY <2>5, <2>6, <2>11
      <4> QED BY <4>1, <4>2, <4>3
    <3> QED BY <2>8, <3>1 DEF CtorsAdded
  <2>15. RecsWaiting'
    <3>1. /\ block.recs = <<>> /\ block.ordered = <<>> /\ block.k = 1 /\ recOf = OldOwners
          /\ recGroup = OldGroups /\ block.seen = {} /\ \A x \in Fresh : consts[x].kind # "rec"
      BY <2>0, <2>1 DEF RecsWaiting
    <3>2. RecNames' = {} /\ Len(<<>>) = 0
      <4>1. ToSet(<<>>) = {}
        BY DEF ToSet
      <4> QED BY <2>8, <3>1, <4>1, EmptySeq DEF RecNames
    <3>3. \A x \in Fresh' : consts'[x].kind # "rec"
      BY <2>0, <2>3, <2>9, <3>1 DEF Fresh
    <3>4. recOf' = OldOwners' /\ recGroup' = OldGroups'
      BY <1>2, <2>3, <3>1
    <3> QED BY <2>8, <3>1, <3>2, <3>3, <3>4 DEF RecsWaiting
  <2>16. RecsCompared' /\ RecsAdded' /\ OwnersAdded' /\ block'.stage # "check"
    BY <2>8 DEF RecsCompared, RecsAdded, OwnersAdded
  <2>17. IsFun(recOf') /\ IsFun(recGroup') /\ DOMAIN consts' \subseteq Nat
    BY <1>2, <2>1, <2>2, <2>3
  <2> QED BY <2>3, <2>8, <2>10, <2>13, <2>14, <2>15, <2>16, <2>17, StepKeeps
<1> QED BY <1>1, <1>2 DEF TypeRecord

\* The recursors of no records.
LEMMA NoRecords == { r.name : r \in ToSet(<<>>) } = {} /\ Len(<<>>) = 0
<1>1. ToSet(<<>>) = {}
  BY DEF ToSet
<1> QED BY <1>1, EmptySeq

LEMMA CtorKeeps ==
    ASSUME ImportInv, Open, NEW i \in CtorIds, NEW induct, NEW cidx, NEW concl,
           CtorRecord(i, induct, cidx, concl)
    PROVE  ImportInv'
<1>1. CASE Fail
  BY <1>1, FailKeeps
<1>2. CASE /\ ~Duplicate(i) /\ OwnCtor(i, induct, cidx)
           /\ InsertConstant(i, [kind |-> "ctor", induct |-> induct, cidx |-> cidx, concl |-> concl])
           /\ UNCHANGED <<recOf, recGroup, block>>
  <2> DEFINE c == [kind |-> "ctor", induct |-> induct, cidx |-> cidx, concl |-> concl]
  <2>0. block.stage = "ctors" /\ c.kind = "ctor" /\ c.induct = induct /\ c.cidx = cidx
    BY DEF CtorRecord, At
  <2>1. /\ block \in Blocks /\ Added /\ TypesAdded /\ CtorsAdded /\ RecsWaiting
        /\ IsFun(consts) /\ IsFun(recOf) /\ IsFun(recGroup) /\ IsSeq(journal) /\ DOMAIN consts \subseteq Nat
    BY OpenFacts
  <2>2. i \notin DOMAIN consts /\ i \in Nat
    BY <1>2, ImportAssumption DEF Duplicate
  <2> HIDE DEF c
  <2>3. /\ IsFun(consts') /\ IsSeq(journal')
        /\ OldConsts' = OldConsts /\ OldOwners' = OldOwners /\ OldGroups' = OldGroups
        /\ DOMAIN consts' = DOMAIN consts \cup {i} /\ consts'[i] = c
        /\ \A x \in DOMAIN consts : consts'[x] = consts[x]
    <3>1. InsertConstant(i, c)
      BY <1>2 DEF c
    <3> QED BY <1>2, <2>1, <2>2, <3>1, InsertedConstant
  <2>4. DOMAIN block.types = 1 .. Len(block.types)
    BY <2>1, BlockFacts, SeqFacts
  <2>5. block' = block /\ recOf' = recOf /\ recGroup' = recGroup
    BY <1>2
  <2>6. Fresh' = Fresh \cup {i} /\ i \notin DOMAIN OldConsts
    BY <2>1, <2>2, <2>3 DEF Fresh, Added
  <2>7. Added'
    BY <2>1, <2>3 DEF Added
  <2>8. \A x \in Fresh : consts'[x] = consts[x]
    BY <2>3 DEF Fresh
  <2>9. TypesAdded'
    <3>1. ASSUME NEW n \in 1 .. Len(block.types)
          PROVE  /\ block.types[n] \in Fresh' /\ consts'[block.types[n]].kind = "type"
                 /\ consts'[block.types[n]].ctors = block.lists[n]
      BY <2>1, <2>6, <2>8 DEF TypesAdded
    <3>2. ASSUME NEW x \in Fresh', consts'[x].kind = "type"
          PROVE  x \in ToSet(block.types)
      BY <2>0, <2>1, <2>3, <2>6, <2>8, <3>2 DEF TypesAdded
    <3> QED BY <2>1, <2>5, <3>1, <3>2 DEF TypesAdded
  <2>10. CtorsAdded'
    <3>1. PICK n \in 1 .. Len(block.types) :
             block.types[n] = induct /\ cidx \in DOMAIN block.lists[n] /\ block.lists[n][cidx] = i
      BY <1>2, <2>4 DEF OwnCtor, OwnerList
    <3>2. ASSUME NEW x \in Fresh', consts'[x].kind = "ctor"
          PROVE  \E n2 \in 1 .. Len(block.types) :
                    /\ block.types[n2] = consts'[x].induct
                    /\ consts'[x].cidx \in DOMAIN block.lists[n2]
                    /\ block.lists[n2][consts'[x].cidx] = x
      <4>1. CASE x = i
        BY <2>0, <2>3, <3>1, <4>1
      <4>2. CASE x \in Fresh
        BY <2>1, <2>8, <3>2, <4>2 DEF CtorsAdded
      <4> QED BY <2>6, <4>1, <4>2
    <3> QED BY <2>5, <3>2 DEF CtorsAdded
  <2>11. RecsWaiting'
    <3>1. /\ block.recs = <<>> /\ block.ordered = <<>> /\ block.k = 1 /\ recOf = OldOwners
          /\ recGroup = OldGroups /\ block.seen = {} /\ \A x \in Fresh : consts[x].kind # "rec"
      BY <2>0, <2>1 DEF RecsWaiting
    <3>2. RecNames' = {} /\ Len(<<>>) = 0
      BY <2>5, <3>1, NoRecords DEF RecNames
    <3>3. \A x \in Fresh' : consts'[x].kind # "rec"
      BY <2>0, <2>3, <2>6, <2>8, <3>1
    <3>4. recOf' = OldOwners' /\ recGroup' = OldGroups'
      BY <2>3, <2>5, <3>1
    <3> QED BY <2>5, <3>1, <3>2, <3>3, <3>4 DEF RecsWaiting
  <2>12. RecsCompared' /\ RecsAdded' /\ OwnersAdded' /\ block'.stage # "check"
    BY <2>0, <2>5 DEF RecsCompared, RecsAdded, OwnersAdded
  <2>13. IsFun(recOf') /\ IsFun(recGroup') /\ DOMAIN consts' \subseteq Nat
    BY <2>1, <2>2, <2>3, <2>5
  <2> QED BY <2>1, <2>3, <2>5, <2>7, <2>9, <2>10, <2>11, <2>12, <2>13, StepKeeps
<1> QED BY <1>1, <1>2 DEF CtorRecord

\* Where the environment and the journal stay, so does what the block has added.
LEMMA QuietFacts ==
    ASSUME UNCHANGED <<env, journal>>
    PROVE  /\ consts' = consts /\ recOf' = recOf /\ recGroup' = recGroup
           /\ OldConsts' = OldConsts /\ OldOwners' = OldOwners /\ OldGroups' = OldGroups
           /\ Fresh' = Fresh
<1>1. /\ consts' = consts /\ recOf' = recOf /\ recGroup' = recGroup /\ journal' = journal
  BY DEF env
<1>2. OldConsts' = OldConsts /\ OldOwners' = OldOwners /\ OldGroups' = OldGroups
  BY <1>1 DEF OldConsts, OldOwners, OldGroups, Undone
<1> QED BY <1>1, <1>2 DEF Fresh

\* And if its types and their lists stay too, they are still those added.
LEMMA QuietAdded ==
    ASSUME UNCHANGED <<env, journal>>, TypesAdded, CtorsAdded,
           block'.types = block.types, block'.lists = block.lists
    PROVE  TypesAdded' /\ CtorsAdded' /\ ListedOk' = ListedOk
<1>1. consts' = consts /\ Fresh' = Fresh
  BY QuietFacts
<1> QED BY <1>1 DEF TypesAdded, CtorsAdded, ListedOk

LEMMA RecKeeps ==
    ASSUME ImportInv, Open, NEW i \in RecIds, NEW all \in {<<>>, block.types}, NEW rules \in CtorLists,
           RecRecord(i, all, rules)
    PROVE  ImportInv'
<1>1. CASE Fail
  BY <1>1, FailKeeps
<1>2. CASE /\ ~Duplicate(i) /\ \A k \in DOMAIN block.recs : block.recs[k].name # i
           /\ block' = [block EXCEPT !.recs = Append(@, [name |-> i, all |-> all, rules |-> rules])]
           /\ UNCHANGED <<env, journal>>
  <2> DEFINE r == [name |-> i, all |-> all, rules |-> rules]
             rs == Append(block.recs, r)
  <2>0. block.stage = "recs" /\ r.name = i
    BY DEF RecRecord, At
  <2>1. block \in Blocks /\ TypesAdded /\ CtorsAdded /\ RecsWaiting
    BY OpenFacts
  <2>2. /\ block.types \in Seq(TypeIds) /\ block.recs \in Seq(Records)
        /\ DOMAIN block.recs = 1 .. Len(block.recs) /\ Len(block.recs) \in Nat
    BY <2>1, BlockFacts, SeqFacts
  <2>3. r \in Records
    BY <2>2, EmptySeq DEF Records
  <2> HIDE DEF r
  <2>4. /\ rs \in Seq(Records) /\ Len(rs) = Len(block.recs) + 1
        /\ \A n \in 1 .. Len(block.recs) : rs[n] = block.recs[n]
        /\ rs[Len(block.recs) + 1] = r /\ ToSet(rs) = ToSet(block.recs) \cup {r}
    BY <2>2, <2>3, AppendedFacts
  <2> HIDE DEF rs
  <2>5. block' = [block EXCEPT !.recs = rs]
    BY <1>2 DEF rs, r
  <2>6. /\ block' \in Blocks /\ block'.recs = rs /\ block'.stage = "recs"
        /\ block'.types = block.types /\ block'.lists = block.lists
        /\ block'.ordered = block.ordered /\ block'.k = block.k /\ block'.seen = block.seen
    BY <2>0, <2>1, <2>4, <2>5 DEF Blocks
  <2>7. TypesAdded' /\ CtorsAdded'
    BY <1>2, <2>1, <2>6, QuietAdded
  <2>8. RecsWaiting'
    <3>1. /\ block.ordered = <<>> /\ block.k = 1 /\ RecNames \cap DOMAIN consts = {}
          /\ \A j, k \in 1 .. Len(block.recs) : block.recs[j].name = block.recs[k].name => j = k
          /\ \A x \in Fresh : consts[x].kind # "rec"
          /\ recOf = OldOwners /\ recGroup = OldGroups /\ block.seen = {}
      BY <2>0, <2>1 DEF RecsWaiting
    <3>2. RecNames' = RecNames \cup {i} /\ i \notin DOMAIN consts
      <4>1. RecNames' = { x.name : x \in ToSet(block.recs) \cup {r} }
        BY <2>4, <2>6 DEF RecNames
      <4>2. i \notin DOMAIN consts
        BY <1>2 DEF Duplicate
      <4> QED BY <2>0, <4>1, <4>2 DEF RecNames
    <3>3. ASSUME NEW j \in 1 .. Len(rs), NEW k \in 1 .. Len(rs), rs[j].name = rs[k].name
          PROVE  j = k
      <4>1. \A n \in 1 .. Len(rs) : n \in 1 .. Len(block.recs) \/ n = Len(block.recs) + 1
        BY <2>2, <2>4
      <4>2. \A n \in 1 .. Len(block.recs) : rs[n] = block.recs[n] /\ block.recs[n].name # i
        BY <1>2, <2>2, <2>4
      <4> QED BY <2>0, <2>4, <3>1, <3>3, <4>1, <4>2
    <3>4. /\ recOf' = OldOwners' /\ recGroup' = OldGroups' /\ consts' = consts
          /\ \A x \in Fresh' : consts'[x].kind # "rec"
      BY <1>2, <3>1, QuietFacts
    <3>5. RecNames' \cap DOMAIN consts' = {}
      BY <3>1, <3>2, <3>4
    <3> QED BY <2>6, <3>1, <3>3, <3>4, <3>5 DEF RecsWaiting
  <2>9. RecsCompared' /\ RecsAdded' /\ OwnersAdded' /\ block'.stage # "check"
    BY <2>6 DEF RecsCompared, RecsAdded, OwnersAdded
  <2> QED BY <1>2, <2>6, <2>7, <2>8, <2>9, BlockStepKeeps
<1> QED BY <1>1, <1>2 DEF RecRecord

LEMMA NextStageKeeps ==
    ASSUME ImportInv, Open, NextStage
    PROVE  ImportInv'
<1>1. block \in Blocks /\ TypesAdded /\ CtorsAdded /\ RecsWaiting
  BY OpenFacts
<1>2. UNCHANGED <<env, journal>> /\ block.stage \in {"types", "ctors"}
  BY DEF NextStage, At
<1>3. PICK s \in {"ctors", "recs"} : block' = [block EXCEPT !.stage = s, !.k = 1]
  BY DEF NextStage, GoTo
<1>4. /\ block' \in Blocks /\ block'.stage = s /\ block'.k = 1 /\ block'.recs = block.recs
      /\ block'.types = block.types /\ block'.lists = block.lists /\ block'.ordered = block.ordered
      /\ block'.seen = block.seen
  BY <1>1, <1>3 DEF Blocks, Stages
<1>5. TypesAdded' /\ CtorsAdded'
  BY <1>1, <1>2, <1>4, QuietAdded
<1>6. RecsWaiting'
  <2>1. /\ block.recs = <<>> /\ block.ordered = <<>> /\ recOf = OldOwners
        /\ recGroup = OldGroups /\ block.seen = {} /\ \A x \in Fresh : consts[x].kind # "rec"
    BY <1>1, <1>2 DEF RecsWaiting
  <2>2. RecNames' = {} /\ Len(<<>>) = 0
    BY <1>4, <2>1, NoRecords DEF RecNames
  <2>3. /\ recOf' = OldOwners' /\ recGroup' = OldGroups' /\ \A x \in Fresh' : consts'[x].kind # "rec"
    BY <1>2, <2>1, QuietFacts
  <2> QED BY <1>4, <2>1, <2>2, <2>3 DEF RecsWaiting
<1>7. RecsCompared' /\ RecsAdded' /\ OwnersAdded' /\ block'.stage # "check"
  BY <1>4 DEF RecsCompared, RecsAdded, OwnersAdded
<1> QED BY <1>2, <1>4, <1>5, <1>6, <1>7, BlockStepKeeps

LEMMA ReconstructKeeps ==
    ASSUME ImportInv, Open, Reconstruct
    PROVE  ImportInv'
<1>1. CASE Fail
  BY <1>1, FailKeeps
<1>2. CASE /\ block.types # <<>> /\ ListedOk /\ Len(block.recs) = DerivedCount
           /\ block' = [block EXCEPT !.stage = "compare", !.pending = block.recs]
           /\ UNCHANGED <<env, journal>>
  <2>1. block \in Blocks /\ TypesAdded /\ CtorsAdded /\ RecsWaiting /\ block.stage = "recs"
    BY OpenFacts DEF Reconstruct, At
  <2>2. block.recs \in Seq(Records) /\ Len(block.recs) \in Nat
    BY <2>1, BlockFacts, SeqFacts
  <2>3. /\ block' \in Blocks /\ block'.stage = "compare" /\ block'.pending = block.recs
        /\ block'.types = block.types /\ block'.lists = block.lists /\ block'.recs = block.recs
        /\ block'.ordered = block.ordered /\ block'.k = block.k /\ block'.seen = block.seen
        /\ block'.container = block.container
    BY <1>2, <2>1, <2>2 DEF Blocks, Stages
  <2>4. TypesAdded' /\ CtorsAdded' /\ ListedOk'
    BY <1>2, <2>1, <2>3, QuietAdded
  <2>5. /\ block.ordered = <<>> /\ block.k = 1
        /\ \A j, k \in 1 .. Len(block.recs) : block.recs[j].name = block.recs[k].name => j = k
        /\ RecNames \cap DOMAIN consts = {} /\ \A i \in Fresh : consts[i].kind # "rec"
        /\ recOf = OldOwners /\ recGroup = OldGroups /\ block.seen = {}
    BY <2>1 DEF RecsWaiting
  <2>6. RecsWaiting'
    <3>1. RecNames' = RecNames
      BY <2>3 DEF RecNames
    <3>2. /\ recOf' = OldOwners' /\ recGroup' = OldGroups' /\ consts' = consts /\ Fresh' = Fresh
      BY <1>2, <2>5, QuietFacts
    <3> QED BY <2>3, <2>5, <3>1, <3>2 DEF RecsWaiting
  <2>7. RecsCompared'
    <3>1. DerivedCount' = DerivedCount
      BY <2>3 DEF DerivedCount, Nested
    <3>2. ToSet(block'.pending) \cup ToSet(block'.ordered) = ToSet(block'.recs)
      <4>1. ToSet(<<>>) = {}
        BY DEF ToSet
      <4> QED BY <2>3, <2>5, <4>1
    <3>3. Len(block'.pending) + Len(block'.ordered) = DerivedCount'
      <4>1. Len(block'.ordered) = 0
        BY <2>3, <2>5, EmptySeq
      <4>2. Len(block'.pending) = DerivedCount' /\ Len(block'.pending) \in Nat
        BY <1>2, <2>2, <2>3, <3>1
      <4> QED BY <4>1, <4>2
    <3>4. block'.k = Len(block'.ordered) + 1
      BY <2>3, <2>5, EmptySeq
    <3>5. \A r \in ToSet(block'.ordered) : FALSE
      BY <2>3, <2>5 DEF ToSet
    <3> QED BY <1>2, <2>3, <2>4, <3>2, <3>3, <3>4, <3>5 DEF RecsCompared
  <2>8. RecsAdded' /\ OwnersAdded' /\ block'.stage # "check"
    BY <2>3 DEF RecsAdded, OwnersAdded
  <2> QED BY <1>2, <2>3, <2>4, <2>6, <2>7, <2>8, BlockStepKeeps
<1> QED BY <1>1, <1>2 DEF Reconstruct

LEMMA CompareKeeps ==
    ASSUME ImportInv, Open, Compare
    PROVE  ImportInv'
<1>1. CASE Fail
  BY <1>1, FailKeeps
<1>2. ASSUME NEW p \in DOMAIN block.pending, block.pending[p].all = block.types,
             block' = [block EXCEPT !.k = @ + 1, !.pending = RemoveAt(@, p),
                                    !.ordered = Append(@, block.pending[p])],
             UNCHANGED <<env, journal>>
      PROVE  ImportInv'
  <2> DEFINE r == block.pending[p]
             left == RemoveAt(block.pending, p)
             done == Append(block.ordered, r)
  <2>1. /\ block \in Blocks /\ TypesAdded /\ CtorsAdded /\ RecsWaiting /\ RecsCompared
        /\ block.stage = "compare"
    BY OpenFacts DEF Compare, At
  <2>2. /\ block.pending \in Seq(Records) /\ block.ordered \in Seq(Records)
        /\ DOMAIN block.pending = 1 .. Len(block.pending) /\ Len(block.pending) \in Nat
        /\ Len(block.ordered) \in Nat /\ block.k \in Nat
    BY <2>1, BlockFacts, SeqFacts
  <2>3. r \in Records
    BY <2>2, ElementOfSeq
  <2>4. /\ left \in Seq(Records) /\ Len(left) = Len(block.pending) - 1
        /\ ToSet(left) \cup {r} = ToSet(block.pending)
    BY <2>2, RemovedFacts
  <2>5. /\ done \in Seq(Records) /\ Len(done) = Len(block.ordered) + 1
        /\ ToSet(done) = ToSet(block.ordered) \cup {r}
    <3> HIDE DEF r
    <3> QED BY <2>2, <2>3, AppendedFacts
  <2> DEFINE next == block.k + 1
  <2>6. /\ block' = [block EXCEPT !.k = next, !.pending = left, !.ordered = done]
        /\ next \in Nat /\ next = block.k + 1 /\ r.all = block.types
    BY <1>2, <2>2
  <2> HIDE DEF r, left, done, next
  <2>7. /\ block' \in Blocks /\ block'.stage = "compare" /\ block'.pending = left
        /\ block'.types = block.types /\ block'.lists = block.lists /\ block'.recs = block.recs
        /\ block'.ordered = done /\ block'.k = next /\ block'.seen = block.seen
        /\ block'.container = block.container
    BY <2>1, <2>2, <2>4, <2>5, <2>6 DEF Blocks
  <2>8. TypesAdded' /\ CtorsAdded' /\ ListedOk' = ListedOk
    BY <1>2, <2>1, <2>7, QuietAdded
  <2>9. RecsWaiting'
    <3>1. RecNames' = RecNames
      BY <2>7 DEF RecNames
    <3>2. /\ \A j, k \in 1 .. Len(block.recs) : block.recs[j].name = block.recs[k].name => j = k
          /\ RecNames \cap DOMAIN consts = {} /\ \A i \in Fresh : consts[i].kind # "rec"
          /\ recOf = OldOwners /\ recGroup = OldGroups /\ block.seen = {}
      BY <2>1 DEF RecsWaiting
    <3>3. /\ recOf' = OldOwners' /\ recGroup' = OldGroups' /\ consts' = consts /\ Fresh' = Fresh
      BY <1>2, <3>2, QuietFacts
    <3> QED BY <2>7, <3>1, <3>2, <3>3 DEF RecsWaiting
  <2>10. RecsCompared'
    <3>1. /\ ListedOk /\ block.types # <<>>
          /\ ToSet(block.pending) \cup ToSet(block.ordered) = ToSet(block.recs)
          /\ Len(block.pending) + Len(block.ordered) = DerivedCount
          /\ \A x \in ToSet(block.ordered) : x.all = block.types
          /\ block.k = Len(block.ordered) + 1
      BY <2>1 DEF RecsCompared
    <3>2. DerivedCount' = DerivedCount
      BY <2>7 DEF DerivedCount, Nested
    <3>3. ToSet(left) \cup ToSet(done) = ToSet(block.recs)
      BY <2>4, <2>5, <3>1
    <3>4. Len(left) + Len(done) = DerivedCount
      <4>1. \A a, b \in Nat : (a - 1) + (b + 1) = a + b
        OBVIOUS
      <4> QED BY <2>2, <2>4, <2>5, <3>1, <4>1
    <3>5. \A x \in ToSet(done) : x.all = block.types
      BY <2>5, <2>6, <3>1
    <3>6. next = Len(done) + 1
      BY <2>5, <2>6, <3>1
    <3> QED BY <2>7, <2>8, <3>1, <3>2, <3>3, <3>4, <3>5, <3>6 DEF RecsCompared
  <2>11. RecsAdded' /\ OwnersAdded' /\ block'.stage # "check"
    BY <2>7 DEF RecsAdded, OwnersAdded
  <2> QED BY <1>2, <2>7, <2>8, <2>9, <2>10, <2>11, BlockStepKeeps
<1> QED BY <1>1, <1>2 DEF Compare

\* Nothing is left to compare once every derived recursor has been.
LEMMA AllCompared ==
    ASSUME block \in Blocks, block.stage = "compare", RecsCompared, block.k > DerivedCount
    PROVE  ToSet(block.ordered) = ToSet(block.recs)
<1>1. /\ ToSet(block.pending) \cup ToSet(block.ordered) = ToSet(block.recs)
      /\ Len(block.pending) + Len(block.ordered) = DerivedCount
      /\ block.k = Len(block.ordered) + 1
  BY DEF RecsCompared
<1>2. Len(block.pending) \in Nat /\ Len(block.ordered) \in Nat /\ DOMAIN block.pending = 1 .. Len(block.pending)
  BY BlockFacts, SeqFacts
<1>3. \A a, b \in Nat : b + 1 > a + b => a = 0
  OBVIOUS
<1>4. Len(block.pending) = 0
  BY <1>1, <1>2, <1>3
<1>5. ToSet(block.pending) = {}
  BY <1>2, <1>4 DEF ToSet
<1> QED BY <1>1, <1>5

LEMMA InstallKeeps ==
    ASSUME ImportInv, Open, Install
    PROVE  ImportInv'
<1> DEFINE recs == block.ordered
           line == [k \in DOMAIN recs |-> recs[k].name]
<1>1. /\ block \in Blocks /\ Added /\ TypesAdded /\ CtorsAdded /\ RecsWaiting /\ RecsCompared
      /\ IsFun(consts) /\ IsFun(recOf) /\ IsFun(recGroup) /\ IsSeq(journal) /\ DOMAIN consts \subseteq Nat
  BY OpenFacts
<1>2. block.stage = "compare" /\ block.k > DerivedCount /\ recOf' = recOf /\ recGroup' = recGroup
  BY DEF Install, At
<1>3. ToSet(block.ordered) = ToSet(block.recs)
  BY <1>1, <1>2, AllCompared
<1>4. IsSeq(line) /\ ToSet(line) = RecNames
  <2>1. IsSeq(recs)
    BY <1>1, BlockFacts
  <2>2. IsSeq(line) /\ ToSet(line) = { r.name : r \in ToSet(recs) }
    BY <2>1, NamesFacts
  <2> QED BY <1>3, <2>2 DEF RecNames
<1>5. /\ DOMAIN consts' = DOMAIN consts \cup ToSet(line) /\ IsFun(consts')
      /\ \A i \in ToSet(line) : consts'[i].kind = "rec" /\ consts'[i].all = block.types
      /\ \A i \in DOMAIN consts : i \notin ToSet(line) => consts'[i] = consts[i]
  BY DEF Install, IsFun
<1>6. journal' = journal \o Writes("constant", line, consts)
  BY DEF Install, Writes
<1>7. block' = [block EXCEPT !.stage = "owners", !.k = 1]
  BY DEF Install, GoTo
<1> HIDE DEF line
<1>8. /\ IsSeq(journal') /\ OldConsts' = OldConsts /\ OldOwners' = OldOwners /\ OldGroups' = OldGroups
  <2>1. TakesBack(journal, "constant", line, consts, consts')
    BY <1>1, <1>4, <1>5, LineEntered
  <2> QED BY <1>2, <1>6, <2>1 DEF TakesBack, OldConsts, OldOwners, OldGroups, Undone
<1>9. /\ block' \in Blocks /\ block'.stage = "owners" /\ block'.pending = block.pending
      /\ block'.types = block.types /\ block'.lists = block.lists /\ block'.recs = block.recs
      /\ block'.ordered = block.ordered /\ block'.k = 1 /\ block'.seen = block.seen
      /\ block'.container = block.container
  BY <1>1, <1>7 DEF Blocks, Stages
<1>10. RecNames' = RecNames /\ DerivedCount' = DerivedCount
  BY <1>9 DEF RecNames, DerivedCount, Nested
<1>11. /\ RecNames \cap DOMAIN consts = {} /\ \A i \in Fresh : consts[i].kind # "rec"
       /\ \A j, k \in 1 .. Len(block.recs) : block.recs[j].name = block.recs[k].name => j = k
       /\ recOf = OldOwners /\ recGroup = OldGroups /\ block.seen = {}
  BY <1>1, <1>2 DEF RecsWaiting
<1>12. \A i \in DOMAIN consts : consts'[i] = consts[i]
  BY <1>4, <1>5, <1>11
<1>13. Fresh' = Fresh \cup RecNames
  BY <1>1, <1>4, <1>5, <1>8, <1>11 DEF Fresh, Added
<1>14. /\ \A i \in RecNames : consts'[i].kind = "rec" /\ consts'[i].all = block.types
       /\ \A i \in Fresh : consts'[i] = consts[i]
  BY <1>4, <1>5, <1>12 DEF Fresh
<1>15. Added'
  BY <1>1, <1>5, <1>8, <1>12 DEF Added
<1>16. TypesAdded'
  <2>1. ASSUME NEW n \in 1 .. Len(block.types)
        PROVE  /\ block.types[n] \in Fresh' /\ consts'[block.types[n]].kind = "type"
               /\ consts'[block.types[n]].ctors = block.lists[n]
    BY <1>1, <1>13, <1>14 DEF TypesAdded
  <2>2. ASSUME NEW x \in Fresh', consts'[x].kind = "type"
        PROVE  x \in ToSet(block.types)
    BY <1>1, <1>13, <1>14, <2>2 DEF TypesAdded
  <2> QED BY <1>1, <1>9, <2>1, <2>2 DEF TypesAdded
<1>17. CtorsAdded'
  <2>1. ASSUME NEW x \in Fresh', consts'[x].kind = "ctor"
        PROVE  x \in Fresh /\ consts'[x] = consts[x]
    BY <1>13, <1>14, <2>1
  <2> QED BY <1>1, <1>9, <2>1 DEF CtorsAdded
<1>18. RecsWaiting'
  BY <1>9, <1>11 DEF RecsWaiting
<1>19. RecsCompared'
  <2>1. /\ ListedOk /\ block.types # <<>>
        /\ ToSet(block.pending) \cup ToSet(block.ordered) = ToSet(block.recs)
        /\ Len(block.pending) + Len(block.ordered) = DerivedCount
        /\ \A r \in ToSet(block.ordered) : r.all = block.types
    BY <1>1, <1>2 DEF RecsCompared
  <2>2. ListedOk'
    <3>1. ASSUME NEW k \in DOMAIN block.lists, NEW c \in ToSet(block.lists[k])
          PROVE  c \in DOMAIN consts' /\ consts'[c].kind = "ctor" /\ consts'[c].concl = block.types[k]
      BY <1>5, <1>12, <2>1 DEF ListedOk
    <3> QED BY <1>9, <3>1 DEF ListedOk
  <2> QED BY <1>9, <1>10, <2>1, <2>2 DEF RecsCompared
<1>20. RecsAdded'
  <2>1. \A i \in Fresh' : consts'[i].kind = "rec" <=> i \in RecNames
    BY <1>11, <1>13, <1>14
  <2>2. RecNames \subseteq Fresh'
    BY <1>13
  <2> QED BY <1>3, <1>9, <1>10, <1>14, <2>1, <2>2 DEF RecsAdded
<1>21. OwnersAdded'
  BY <1>2, <1>8, <1>9, <1>11 DEF OwnersAdded
<1>22. DOMAIN consts' \subseteq Nat
  <2>1. \A r \in ToSet(block.recs) : r.name \in Nat
    <3>1. \A n \in DOMAIN block.recs : block.recs[n] \in Records
      BY <1>1, BlockFacts, ElementOfSeq, SeqFacts
    <3> QED BY <3>1, ImportAssumption DEF Records, ToSet
  <2> QED BY <1>1, <1>4, <1>5, <2>1 DEF RecNames
<1>23. IsFun(recOf') /\ IsFun(recGroup') /\ block'.stage # "check"
  BY <1>1, <1>2, <1>9
<1> QED BY <1>5, <1>8, <1>9, <1>15, <1>16, <1>17, <1>18, <1>19, <1>20, <1>21, <1>22, <1>23, StepKeeps

\* What a recursor claims is among the block's types.
LEMMA ClaimedFacts ==
    ASSUME NEW r
    PROVE  Claimed(r) \subseteq ToSet(block.types)
<1>1. CASE r.rules = <<>>
  BY <1>1 DEF Claimed
<1>2. CASE r.rules # <<>>
  <2>1. Claimed(r) = { consts[c].induct : c \in { d \in ToSet(r.rules) :
             /\ d \in DOMAIN consts /\ consts[d].kind = "ctor"
             /\ consts[d].induct \in ToSet(block.types) } }
    BY <1>2 DEF Claimed
  <2> QED BY <2>1
<1> QED BY <1>1, <1>2

LEMMA OwnKeeps ==
    ASSUME ImportInv, Open, Own
    PROVE  ImportInv'
<1> DEFINE r == block.recs[block.k]
           owners == Claimed(r)
           line == SetToSeq(owners)
<1>1. CASE Fail
  BY <1>1, FailKeeps
<1>2. CASE /\ recOf' = [t \in DOMAIN recOf \cup owners |-> IF t \in owners THEN r.name ELSE recOf[t]]
           /\ journal' = journal \o [j \in DOMAIN line |-> Write("owner", line[j], Before(recOf, line[j]))]
           /\ block' = [block EXCEPT !.k = @ + 1, !.seen = @ \cup owners]
           /\ UNCHANGED <<consts, recGroup>>
  <2>1. /\ block \in Blocks /\ Added /\ TypesAdded /\ CtorsAdded /\ RecsWaiting /\ RecsCompared
        /\ RecsAdded /\ OwnersAdded
        /\ IsFun(consts) /\ IsFun(recOf) /\ IsFun(recGroup) /\ IsSeq(journal) /\ DOMAIN consts \subseteq Nat
    BY OpenFacts
  <2>2. block.stage = "owners" /\ block.k <= Len(block.recs) /\ consts' = consts /\ recGroup' = recGroup
    BY <1>2 DEF Own, At
  <2>3. /\ IsSeq(block.types) /\ block.types \in Seq(TypeIds) /\ IsSeq(block.recs) /\ block.k \in Nat
        /\ block.seen \in SUBSET TypeIds
    BY <2>1, BlockFacts
  <2>4. owners \subseteq ToSet(block.types) /\ ToSet(block.types) \subseteq TypeIds
    <3>1. ToSet(block.types) \subseteq TypeIds
      BY <2>3, ElementOfSeq, SeqFacts
    <3> QED BY <3>1, ClaimedFacts
  <2> HIDE DEF owners
  <2>5. IsSeq(line) /\ ToSet(line) = owners
    <3>1. IsFiniteSet(owners)
      BY <2>3, <2>4, HeldIsFinite, FS_Subset
    <3> QED BY <3>1, EnumerationFacts
  <2>6. journal' = journal \o Writes("owner", line, recOf)
    BY <1>2 DEF Writes
  <2> HIDE DEF line
  <2>7. /\ DOMAIN recOf' = DOMAIN recOf \cup owners /\ IsFun(recOf')
        /\ \A t \in owners : recOf'[t] = r.name
        /\ \A t \in DOMAIN recOf : t \notin owners => recOf'[t] = recOf[t]
    BY <1>2 DEF IsFun
  <2>8. /\ IsSeq(journal') /\ OldConsts' = OldConsts /\ OldOwners' = OldOwners /\ OldGroups' = OldGroups
    <3>0. /\ DOMAIN recOf' = DOMAIN recOf \cup ToSet(line)
          /\ \A t \in DOMAIN recOf : t \notin ToSet(line) => recOf'[t] = recOf[t]
      BY <2>5, <2>7
    <3>1. TakesBack(journal, "owner", line, recOf, recOf')
      BY <2>1, <2>5, <2>7, <3>0, LineEntered
    <3> QED BY <2>2, <2>6, <3>1 DEF TakesBack, OldConsts, OldOwners, OldGroups, Undone
  <2> DEFINE next == block.k + 1
             seen == block.seen \cup owners
  <2>9. next \in Nat /\ seen \in SUBSET TypeIds /\ block' = [block EXCEPT !.k = next, !.seen = seen]
    BY <1>2, <2>3, <2>4
  <2> HIDE DEF next, seen
  <2>10. /\ block' \in Blocks /\ block'.stage = "owners" /\ block'.pending = block.pending
         /\ block'.types = block.types /\ block'.lists = block.lists /\ block'.recs = block.recs
         /\ block'.ordered = block.ordered /\ block'.seen = seen /\ block'.k = next
         /\ block'.container = block.container
    BY <2>1, <2>2, <2>9 DEF Blocks, Stages
  <2>11. RecNames' = RecNames /\ DerivedCount' = DerivedCount /\ Fresh' = Fresh
    BY <2>2, <2>8, <2>10 DEF RecNames, DerivedCount, Nested, Fresh
  <2>12. Added' /\ TypesAdded' /\ CtorsAdded' /\ ListedOk' = ListedOk
    BY <2>1, <2>2, <2>8, <2>10, <2>11 DEF Added, TypesAdded, CtorsAdded, ListedOk
  <2>13. RecsWaiting'
    <3>1. \A j, k \in 1 .. Len(block.recs) : block.recs[j].name = block.recs[k].name => j = k
      BY <2>1 DEF RecsWaiting
    <3> QED BY <2>10, <3>1 DEF RecsWaiting
  <2>14. RecsCompared'
    <3>1. /\ ListedOk /\ block.types # <<>>
          /\ ToSet(block.pending) \cup ToSet(block.ordered) = ToSet(block.recs)
          /\ Len(block.pending) + Len(block.ordered) = DerivedCount
          /\ \A x \in ToSet(block.ordered) : x.all = block.types
      BY <2>1, <2>2 DEF RecsCompared
    <3> QED BY <2>10, <2>11, <2>12, <3>1 DEF RecsCompared
  <2>15. RecsAdded'
    BY <2>1, <2>2, <2>10, <2>11 DEF RecsAdded
  <2>16. OwnersAdded'
    <3>1. /\ recGroup = OldGroups /\ block.seen \subseteq ToSet(block.types)
          /\ DOMAIN recOf = DOMAIN OldOwners \cup block.seen
          /\ \A t \in DOMAIN OldOwners : recOf[t] = OldOwners[t]
          /\ \A t \in block.seen : recOf[t] \in RecNames
      BY <2>1, <2>2 DEF OwnersAdded
    <3>2. r.name \in RecNames
      <4>1. Len(block.recs) \in Nat
        BY <2>3, SeqFacts
      <4>2. block.k \in 1 .. Len(block.recs)
        BY <2>1, <2>2, <2>3, <4>1 DEF OwnersAdded
      <4>3. r \in ToSet(block.recs)
        BY <2>3, <4>2, SeqFacts
      <4> QED BY <4>3 DEF RecNames
    <3> HIDE DEF r
    <3>3. owners \cap DOMAIN OldOwners = {}
      <4>1. DOMAIN OldOwners \subseteq DOMAIN OldConsts
        BY DEF ImportInv, WholeInside, Whole, TypesOf
      <4>2. ToSet(block.types) \cap DOMAIN OldConsts = {}
        <5>1. \A x \in ToSet(block.types) : x \in Fresh
          BY <2>1, <2>3, SeqFacts DEF TypesAdded
        <5> QED BY <5>1 DEF Fresh
      <4> QED BY <2>4, <4>1, <4>2
    <3>4. seen \subseteq ToSet(block.types) /\ DOMAIN recOf' = DOMAIN OldOwners \cup seen
      BY <2>4, <2>7, <3>1 DEF seen
    <3>5. \A t \in DOMAIN OldOwners : recOf'[t] = OldOwners[t]
      BY <2>7, <3>1, <3>3
    <3>6. \A t \in seen : recOf'[t] \in RecNames
      BY <2>7, <3>1, <3>2 DEF seen
    <3>7. next > 0
      BY <2>3 DEF next
    <3> QED BY <2>2, <2>8, <2>10, <2>11, <3>1, <3>4, <3>5, <3>6, <3>7 DEF OwnersAdded
  <2> QED BY <2>1, <2>2, <2>7, <2>8, <2>10, <2>12, <2>13, <2>14, <2>15, <2>16, StepKeeps
<1> QED BY <1>1, <1>2 DEF Own

\* What the block has added completes the environment: the old part was whole,
\* each listed constructor is the block's own and ends in the type that lists
\* it, and no old recursor serves the block's types.
LEMMA BlockIsWhole ==
    ASSUME ImportInv, Open, block.stage = "owners", ToSet(block.types) \subseteq DOMAIN recOf,
           NEW group, DOMAIN group = DOMAIN recGroup \cup RecNames,
           \A i \in RecNames : ToSet(group[i]) = RecNames,
           \A i \in DOMAIN recGroup : i \notin RecNames => group[i] = recGroup[i]
    PROVE  WholeInside(consts, recOf, group)
<1> DEFINE types == ToSet(block.types)
<1>1. /\ block \in Blocks /\ Added /\ TypesAdded /\ CtorsAdded /\ RecsCompared /\ RecsAdded /\ OwnersAdded
  BY OpenFacts
<1>2. /\ DOMAIN block.types = 1 .. Len(block.types) /\ DOMAIN block.lists = 1 .. Len(block.lists)
      /\ \A n \in 1 .. Len(block.types) : block.types[n] \in types
      /\ \A t \in types : \E n \in 1 .. Len(block.types) : block.types[n] = t
  BY <1>1, BlockFacts, SeqFacts
<1>3. /\ WholeInside(OldConsts, OldOwners, OldGroups)
  BY DEF ImportInv
<1>4. /\ DOMAIN OldConsts \subseteq DOMAIN consts
      /\ \A i \in DOMAIN OldConsts : consts[i] = OldConsts[i]
  BY <1>1 DEF Added
<1>5. \A t \in types : t \in Fresh /\ consts[t].kind = "type"
  <2> TAKE t \in types
  <2>1. PICK n \in 1 .. Len(block.types) : block.types[n] = t
    BY <1>2
  <2> HIDE DEF types
  <2> QED BY <1>1, <2>1 DEF TypesAdded
<1> HIDE DEF types
<1>6. DOMAIN consts = DOMAIN OldConsts \cup Fresh /\ Fresh \cap DOMAIN OldConsts = {}
  BY <1>4 DEF Fresh
<1>7. TypesOf(consts) = TypesOf(OldConsts) \cup types
  <2>1. \A i \in Fresh : consts[i].kind = "type" => i \in types
    BY <1>1 DEF TypesAdded, types
  <2> QED BY <1>4, <1>5, <1>6, <2>1 DEF TypesOf
<1>8. RecsOf(consts) = RecsOf(OldConsts) \cup RecNames /\ RecNames \subseteq Fresh
  <2>1. RecNames \subseteq Fresh /\ \A i \in Fresh : consts[i].kind = "rec" <=> i \in RecNames
    BY <1>1 DEF RecsAdded
  <2> QED BY <1>4, <1>6, <2>1 DEF RecsOf
<1>9. types # {} /\ types \cap DOMAIN OldConsts = {}
  <2>1. block.types # <<>> /\ block.types \in Seq(TypeIds)
    BY <1>1, BlockFacts DEF RecsCompared
  <2>2. 1 \in 1 .. Len(block.types)
    BY <2>1, EmptySeq
  <2> QED BY <1>2, <1>5, <1>6, <2>2
<1>10. /\ TypesOf(OldConsts) \subseteq DOMAIN OldConsts /\ RecsOf(OldConsts) \subseteq DOMAIN OldConsts
  BY DEF TypesOf, RecsOf
<1>11. \A n \in 1 .. Len(block.types) :
          /\ consts[block.types[n]].ctors = block.lists[n]
          /\ n \in DOMAIN block.lists
  BY <1>1, <1>2 DEF TypesAdded
<1>12. ASSUME NEW i \in Fresh, consts[i].kind = "ctor"
       PROVE  /\ consts[i].induct \in types /\ consts[i].concl = consts[i].induct
              /\ consts[i].cidx \in DOMAIN consts[consts[i].induct].ctors
              /\ consts[consts[i].induct].ctors[consts[i].cidx] = i
  <2>1. PICK n \in 1 .. Len(block.types) :
           /\ block.types[n] = consts[i].induct
           /\ consts[i].cidx \in DOMAIN block.lists[n] /\ block.lists[n][consts[i].cidx] = i
    BY <1>1, <1>12 DEF CtorsAdded
  <2>2. i \in ToSet(block.lists[n])
    BY <2>1 DEF ToSet
  <2>3. consts[i].concl = block.types[n]
    BY <1>1, <1>11, <2>2 DEF RecsCompared, ListedOk
  <2> QED BY <1>2, <1>11, <2>1, <2>3
<1>13. ASSUME NEW t \in types, NEW k \in DOMAIN consts[t].ctors
       PROVE  LET c == consts[t].ctors[k] IN
              c \in DOMAIN consts /\ consts[c].kind = "ctor" /\ consts[c].induct = t
  <2> DEFINE c == consts[t].ctors[k]
  <2>1. PICK n \in 1 .. Len(block.types) : block.types[n] = t
    BY <1>2
  <2>2. c \in ToSet(block.lists[n]) /\ n \in DOMAIN block.lists
    BY <1>11, <2>1 DEF ToSet
  <2> HIDE DEF c
  <2>3. c \in DOMAIN consts /\ consts[c].kind = "ctor" /\ consts[c].concl = t
    BY <1>1, <2>1, <2>2 DEF RecsCompared, ListedOk
  <2>4. c \notin DOMAIN OldConsts
    <3>1. SUFFICES ASSUME c \in DOMAIN OldConsts PROVE FALSE
      OBVIOUS
    <3>2. OldConsts[c].kind = "ctor" /\ OldConsts[c].concl = t
      BY <1>4, <2>3, <3>1
    <3>3. t \in TypesOf(OldConsts)
      BY <1>3, <3>1, <3>2 DEF WholeInside, Whole
    <3> QED BY <1>9, <1>10, <3>3
  <2>5. c \in Fresh
    BY <1>6, <2>3, <2>4
  <2> QED BY <1>12, <2>3, <2>5 DEF c
<1>14. \A t \in TypesOf(consts) : \A k \in DOMAIN consts[t].ctors :
          /\ consts[t].ctors[k] \in DOMAIN consts
          /\ consts[consts[t].ctors[k]].kind = "ctor"
          /\ consts[consts[t].ctors[k]].induct = t
  <2>1. ASSUME NEW t \in TypesOf(OldConsts), NEW k \in DOMAIN consts[t].ctors
        PROVE  /\ consts[t].ctors[k] \in DOMAIN consts
               /\ consts[consts[t].ctors[k]].kind = "ctor"
               /\ consts[consts[t].ctors[k]].induct = t
    <3>1. consts[t] = OldConsts[t]
      BY <1>4, <1>10
    <3>2. /\ OldConsts[t].ctors[k] \in DOMAIN OldConsts
          /\ OldConsts[OldConsts[t].ctors[k]].kind = "ctor"
          /\ OldConsts[OldConsts[t].ctors[k]].induct = t
      BY <1>3, <2>1, <3>1 DEF WholeInside, Whole
    <3> QED BY <1>4, <3>1, <3>2
  <2> QED BY <1>7, <1>13, <2>1
<1>15. ASSUME NEW i \in DOMAIN consts, consts[i].kind = "ctor"
       PROVE  /\ consts[i].induct \in TypesOf(consts)
              /\ consts[i].cidx \in DOMAIN consts[consts[i].induct].ctors
              /\ consts[consts[i].induct].ctors[consts[i].cidx] = i
              /\ consts[i].concl = consts[i].induct
  <2>1. CASE i \in Fresh
    BY <1>7, <1>12, <1>15, <2>1
  <2>2. CASE i \in DOMAIN OldConsts
    <3>1. consts[i] = OldConsts[i] /\ OldConsts[i].kind = "ctor"
      BY <1>4, <1>15, <2>2
    <3>2. /\ OldConsts[i].induct \in TypesOf(OldConsts)
          /\ OldConsts[i].cidx \in DOMAIN OldConsts[OldConsts[i].induct].ctors
          /\ OldConsts[OldConsts[i].induct].ctors[OldConsts[i].cidx] = i
          /\ OldConsts[i].concl = OldConsts[i].induct
      BY <1>3, <2>2, <3>1 DEF WholeInside, Whole
    <3>3. consts[OldConsts[i].induct] = OldConsts[OldConsts[i].induct]
      BY <1>4, <1>10, <3>2
    <3> QED BY <1>7, <3>1, <3>2, <3>3
  <2> QED BY <1>6, <2>1, <2>2
<1>16. /\ \A i \in RecNames : consts[i].all = block.types
       /\ recGroup = OldGroups /\ block.seen \subseteq types
       /\ DOMAIN recOf = DOMAIN OldOwners \cup block.seen
       /\ \A t \in DOMAIN OldOwners : recOf[t] = OldOwners[t]
       /\ \A t \in block.seen : recOf[t] \in RecNames
  BY <1>1 DEF RecsAdded, OwnersAdded, types
<1>17. ASSUME NEW i \in RecsOf(OldConsts)
       PROVE  /\ consts[i] = OldConsts[i] /\ ToSet(consts[i].all) \subseteq TypesOf(OldConsts)
              /\ consts[i].all # block.types
  <2>1. consts[i] = OldConsts[i]
    BY <1>4, <1>10
  <2>2. ToSet(OldConsts[i].all) \subseteq TypesOf(OldConsts)
    BY <1>3 DEF WholeInside, Whole
  <2> QED BY <1>9, <1>10, <2>1, <2>2 DEF types
<1>18. ASSUME NEW i \in RecsOf(consts)
       PROVE  /\ ToSet(consts[i].all) \subseteq TypesOf(consts)
              /\ ToSet(group[i]) = { r \in RecsOf(consts) : consts[r].all = consts[i].all }
  <2>1. CASE i \in RecNames
    <3>1. ToSet(group[i]) = RecNames /\ consts[i].all = block.types
      BY <1>16, <2>1
    <3>2. { r \in RecsOf(consts) : consts[r].all = block.types } = RecNames
      BY <1>8, <1>16, <1>17
    <3> QED BY <1>7, <3>1, <3>2 DEF types
  <2>2. CASE i \in RecsOf(OldConsts)
    <3>1. i \notin RecNames
      BY <1>6, <1>8, <1>10, <2>2
    <3>2. DOMAIN OldGroups = RecsOf(OldConsts)
          /\ ToSet(OldGroups[i]) = { r \in RecsOf(OldConsts) : OldConsts[r].all = OldConsts[i].all }
      BY <1>3, <2>2 DEF WholeInside, Whole
    <3>3. group[i] = OldGroups[i]
      BY <1>16, <2>2, <3>1, <3>2
    <3>4. { r \in RecsOf(consts) : consts[r].all = consts[i].all }
             = { r \in RecsOf(OldConsts) : OldConsts[r].all = OldConsts[i].all }
      BY <1>8, <1>16, <1>17, <2>2
    <3> QED BY <1>7, <1>17, <2>2, <3>2, <3>3, <3>4
  <2> QED BY <1>8, <2>1, <2>2
<1>19. DOMAIN recOf = TypesOf(consts)
  <2>1. DOMAIN OldOwners = TypesOf(OldConsts)
    BY <1>3 DEF WholeInside, Whole
  <2>2. types \subseteq DOMAIN recOf
    BY DEF types
  <2> QED BY <1>7, <1>16, <2>1, <2>2
<1>20. ASSUME NEW t \in DOMAIN recOf
       PROVE  recOf[t] \in RecsOf(consts) /\ t \in ToSet(consts[recOf[t]].all)
  <2>1. CASE t \in block.seen
    BY <1>8, <1>16, <2>1 DEF types
  <2>2. CASE t \in DOMAIN OldOwners
    <3>1. OldOwners[t] \in RecsOf(OldConsts) /\ t \in ToSet(OldConsts[OldOwners[t]].all)
      BY <1>3, <2>2 DEF WholeInside, Whole
    <3> QED BY <1>8, <1>16, <1>17, <2>2, <3>1
  <2> QED BY <1>16, <2>1, <2>2
<1>21. DOMAIN group = RecsOf(consts)
  BY <1>3, <1>8, <1>16 DEF WholeInside, Whole
<1> QED BY <1>14, <1>15, <1>18, <1>19, <1>20, <1>21 DEF WholeInside, Whole

LEMMA GroupKeeps ==
    ASSUME ImportInv, Open, Group
    PROVE  ImportInv'
<1> DEFINE recs == [j \in DOMAIN block.recs |-> block.recs[j].name]
           grown == [i \in DOMAIN recGroup \cup ToSet(recs) |->
                        IF i \in ToSet(recs) THEN SortedGroup(recs) ELSE recGroup[i]]
<1>1. CASE Fail
  BY <1>1, FailKeeps
<1>2. CASE /\ ToSet(block.types) \subseteq DOMAIN recOf
           /\ recGroup' = grown
           /\ journal' = journal \o [j \in DOMAIN recs |-> Write("group", recs[j], Before(recGroup, recs[j]))]
           /\ GoTo("check") /\ UNCHANGED <<consts, recOf>>
  <2>1. /\ block \in Blocks /\ Added /\ TypesAdded /\ CtorsAdded /\ RecsWaiting /\ RecsCompared
        /\ RecsAdded /\ OwnersAdded
        /\ IsFun(consts) /\ IsFun(recOf) /\ IsFun(recGroup) /\ IsSeq(journal) /\ DOMAIN consts \subseteq Nat
    BY OpenFacts
  <2>2. block.stage = "owners" /\ consts' = consts /\ recOf' = recOf
    BY <1>2 DEF Group, At
  <2>3. IsSeq(recs) /\ ToSet(recs) = RecNames
    <3>1. IsSeq(block.recs)
      BY <2>1, BlockFacts
    <3> QED BY <3>1, NamesFacts DEF RecNames
  <2>4. ToSet(SortedGroup(recs)) = RecNames
    <3> HIDE DEF recs
    <3> QED BY <2>3, SortedFacts
  <2>5. journal' = journal \o Writes("group", recs, recGroup)
    BY <1>2 DEF Writes
  <2> HIDE DEF recs
  <2>6. /\ DOMAIN recGroup' = DOMAIN recGroup \cup ToSet(recs) /\ IsFun(recGroup')
        /\ \A i \in ToSet(recs) : recGroup'[i] = SortedGroup(recs)
        /\ \A i \in DOMAIN recGroup : i \notin ToSet(recs) => recGroup'[i] = recGroup[i]
    BY <1>2 DEF IsFun
  <2> HIDE DEF grown
  <2>7. /\ IsSeq(journal') /\ OldConsts' = OldConsts /\ OldOwners' = OldOwners /\ OldGroups' = OldGroups
    <3>1. TakesBack(journal, "group", recs, recGroup, recGroup')
      BY <2>1, <2>3, <2>6, LineEntered
    <3> QED BY <2>2, <2>5, <3>1 DEF TakesBack, OldConsts, OldOwners, OldGroups, Undone
  <2>8. WholeInside(consts', recOf', recGroup')
    <3>1. /\ DOMAIN recGroup' = DOMAIN recGroup \cup RecNames
          /\ \A i \in RecNames : ToSet(recGroup'[i]) = RecNames
          /\ \A i \in DOMAIN recGroup : i \notin RecNames => recGroup'[i] = recGroup[i]
      BY <2>3, <2>4, <2>6
    <3>2. WholeInside(consts, recOf, recGroup')
      BY <1>2, <2>2, <3>1, BlockIsWhole
    <3> QED BY <2>2, <3>2
  <2>9. block' = [block EXCEPT !.stage = "check", !.k = 1]
    BY <1>2 DEF GoTo
  <2>10. /\ block' \in Blocks /\ block'.stage = "check" /\ block'.pending = block.pending
         /\ block'.types = block.types /\ block'.lists = block.lists /\ block'.recs = block.recs
         /\ block'.ordered = block.ordered /\ block'.container = block.container
    BY <2>1, <2>9 DEF Blocks, Stages
  <2>11. RecNames' = RecNames /\ DerivedCount' = DerivedCount /\ Fresh' = Fresh
    BY <2>2, <2>7, <2>10 DEF RecNames, DerivedCount, Nested, Fresh
  <2>12. Added' /\ TypesAdded' /\ CtorsAdded' /\ ListedOk' = ListedOk
    BY <2>1, <2>2, <2>7, <2>10, <2>11 DEF Added, TypesAdded, CtorsAdded, ListedOk
  <2>13. RecsWaiting'
    <3>1. \A j, k \in 1 .. Len(block.recs) : block.recs[j].name = block.recs[k].name => j = k
      BY <2>1 DEF RecsWaiting
    <3> QED BY <2>10, <3>1 DEF RecsWaiting
  <2>14. RecsCompared'
    <3>1. /\ ListedOk /\ block.types # <<>>
          /\ ToSet(block.pending) \cup ToSet(block.ordered) = ToSet(block.recs)
          /\ Len(block.pending) + Len(block.ordered) = DerivedCount
          /\ \A x \in ToSet(block.ordered) : x.all = block.types
      BY <2>1, <2>2 DEF RecsCompared
    <3> QED BY <2>10, <2>11, <2>12, <3>1 DEF RecsCompared
  <2>15. RecsAdded' /\ OwnersAdded'
    BY <2>1, <2>2, <2>10, <2>11 DEF RecsAdded, OwnersAdded
  <2> QED BY <2>1, <2>2, <2>6, <2>7, <2>8, <2>10, <2>12, <2>13, <2>14, <2>15, StepKeeps
<1> QED BY <1>1, <1>2 DEF Group

-----------------------------------------------------------------------------
(* Blocks enter whole or not at all *)

\* Before the first line nothing is there.
LEMMA InitHolds == ImportInit => ImportInv
<1> SUFFICES ASSUME ImportInit PROVE ImportInv
  OBVIOUS
<1>1. consts = <<>> /\ recOf = <<>> /\ recGroup = <<>> /\ journal = <<>> /\ ~Open
  BY DEF ImportInit, Open
<1>2. OldConsts = consts /\ OldOwners = recOf /\ OldGroups = recGroup
  BY <1>1, ReplayedNothing DEF OldConsts, OldOwners, OldGroups, Undone
<1>3. DOMAIN <<>> = {} /\ IsFun(<<>>)
  BY DEF IsFun
<1>4. IsSeq(journal)
  BY <1>1, EmptySeq, SeqIsSeq
<1>5. WholeInside(consts, recOf, recGroup)
  BY <1>1, <1>3 DEF WholeInside, Whole, TypesOf, RecsOf
<1> QED BY <1>1, <1>2, <1>3, <1>4, <1>5 DEF ImportInv, BlockInv

LEMMA NextHolds ==
    ASSUME ImportInv, [ImportNext]_importVars
    PROVE  ImportInv'
<1>1. CASE UNCHANGED importVars
  BY <1>1, ElsewhereKeeps DEF importVars, env
<1>2. CASE NameLine
  BY <1>2, ElsewhereKeeps DEF NameLine
<1>3. ASSUME NEW i \in AxiomIds, Declaration(i)
      PROVE  ImportInv'
  BY <1>3, DeclarationKeeps
<1>4. CASE BeginBlock
  BY <1>4, BeginKeeps
<1>5. ASSUME Open, NEW i \in TypeIds, NEW l \in CtorLists, TypeRecord(i, l)
      PROVE  ImportInv'
  BY <1>5, TypeKeeps
<1>6. ASSUME Open, NEW i \in CtorIds, NEW t \in TypeIds, NEW c \in 1 .. MaxCtors,
             NEW concl \in ToSet(block.types), CtorRecord(i, t, c, concl)
      PROVE  ImportInv'
  BY <1>6, CtorKeeps
<1>7. ASSUME Open, NEW i \in RecIds, NEW all \in {<<>>, block.types}, NEW rules \in CtorLists,
             RecRecord(i, all, rules)
      PROVE  ImportInv'
  BY <1>7, RecKeeps
<1>8. CASE Open /\ NextStage
  BY <1>8, NextStageKeeps
<1>9. CASE Open /\ Reconstruct
  BY <1>9, ReconstructKeeps
<1>10. CASE Open /\ Compare
  BY <1>10, CompareKeeps
<1>11. CASE Open /\ Install
  BY <1>11, InstallKeeps
<1>12. CASE Open /\ Own
  BY <1>12, OwnKeeps
<1>13. CASE Open /\ Group
  BY <1>13, GroupKeeps
<1>14. CASE Open /\ Commit
  BY <1>14, CommitKeeps
<1> QED BY <1>1, <1>2, <1>3, <1>4, <1>5, <1>6, <1>7, <1>8, <1>9, <1>10, <1>11, <1>12, <1>13, <1>14
        DEF ImportNext, Open

\* The inductive invariant holds of every import.
THEOREM ImportInvariantHolds == ImportSpec => []ImportInv
<1>1. ImportInit => ImportInv
  BY InitHolds
<1>2. ImportInv /\ [ImportNext]_importVars => ImportInv'
  BY NextHolds
<1> QED BY <1>1, <1>2, PTL DEF ImportSpec

\* Whatever the file, whenever no block is being read the environment is one of
\* whole blocks: a failed block leaves nothing behind (InductiveUndo::rollback)
\* and a committed one lacks nothing (handle_inductive_block).
THEOREM BlocksEnterWhole == ImportSpec => []BlocksAreWhole
<1>1. ImportInv => BlocksAreWhole
  <2> SUFFICES ASSUME ImportInv, ~Open PROVE Whole(consts, recOf, recGroup)
    BY DEF BlocksAreWhole, Open
  <2> QED BY ClosedFacts DEF WholeInside
<1> QED BY <1>1, ImportInvariantHolds, PTL

-----------------------------------------------------------------------------
(* The owners *)

\* What a recursor claims hangs on the constants and the block's types.
LEMMA SameClaims ==
    ASSUME consts' = consts, block'.types = block.types
    PROVE  \A r : Claimed(r)' = Claimed(r)
  BY DEF Claimed

\* Before the recursors are in, and outside a block, nothing is said.
LEMMA NoOwnersYet ==
    ASSUME Open' => block'.stage \notin {"owners", "check"}
    PROVE  OwnersInv'
  BY DEF OwnersInv

\* Nor after a failure.
LEMMA FailOwners ==
    ASSUME Fail
    PROVE  OwnersInv'
<1>1. ~Open'
  BY DEF Fail, Open
<1> QED BY <1>1, NoOwnersYet

LEMMA SameOwners ==
    ASSUME OwnersInv, UNCHANGED importVars
    PROVE  OwnersInv'
<1>1. /\ consts' = consts /\ names' = names /\ recOf' = recOf /\ recGroup' = recGroup
      /\ block' = block
  BY DEF importVars
<1>2. \A r : Claimed(r)' = Claimed(r)
  BY <1>1, SameClaims
<1>3. \A i : SortKey(i)' = SortKey(i)
  BY <1>1 DEF SortKey, Main, Spelling
<1>4. \A s : KeysRise(s)' = KeysRise(s)
  BY <1>3 DEF KeysRise
<1>5. RecNames' = RecNames /\ Open' = Open
  BY <1>1 DEF RecNames, Open
<1>6. \A n : Served(n)' = Served(n)
  BY <1>1, <1>2 DEF Served
<1> QED BY <1>1, <1>4, <1>5, <1>6 DEF OwnersInv

\* The records are read and compared.
LEMMA EarlierOwners ==
    ASSUME ImportInv, Open, NextStage \/ Reconstruct \/ Compare
    PROVE  OwnersInv'
<1>1. CASE Fail
  BY <1>1, FailOwners
<1>2. block \in Blocks
  BY OpenFacts
<1>3. CASE NextStage
  <2>1. \E g \in {"ctors", "recs"} : block' = [block EXCEPT !.stage = g, !.k = 1]
    BY <1>3 DEF NextStage, GoTo
  <2>2. block'.stage \in {"ctors", "recs"}
    BY <1>2, <2>1 DEF Blocks
  <2> QED BY <2>2, NoOwnersYet
<1>4. CASE Reconstruct /\ ~Fail
  <2>1. block' = [block EXCEPT !.stage = "compare", !.pending = block.recs]
    BY <1>4 DEF Reconstruct
  <2>2. block'.stage = "compare"
    BY <1>2, <2>1 DEF Blocks
  <2> QED BY <2>2, NoOwnersYet
<1>5. CASE Compare /\ ~Fail
  <2>1. block.stage = "compare"
    BY <1>5 DEF Compare, At
  <2>2. PICK p \in DOMAIN block.pending :
            block' = [block EXCEPT !.k = @ + 1, !.pending = RemoveAt(@, p),
                                   !.ordered = Append(@, block.pending[p])]
    BY <1>5 DEF Compare
  <2>3. block'.stage = "compare"
    BY <1>2, <2>1, <2>2 DEF Blocks
  <2> QED BY <2>3, NoOwnersYet
<1> QED BY <1>1, <1>3, <1>4, <1>5

LEMMA RecordOwners ==
    ASSUME ImportInv, Open,
           \/ \E i \in TypeIds, l \in CtorLists : TypeRecord(i, l)
           \/ \E i \in CtorIds, t \in TypeIds, c \in 1 .. MaxCtors, concl \in ToSet(block.types) :
                 CtorRecord(i, t, c, concl)
           \/ \E i \in RecIds, all \in {<<>>, block.types}, rules \in CtorLists :
                 RecRecord(i, all, rules)
    PROVE  OwnersInv'
<1>1. CASE Fail
  BY <1>1, FailOwners
<1>2. block \in Blocks
  BY OpenFacts
<1>3. ASSUME NEW i \in TypeIds, NEW l \in CtorLists, TypeRecord(i, l), ~Fail
      PROVE  OwnersInv'
  <2>1. block.stage = "types" /\ \E a, b : block' = [block EXCEPT !.types = a, !.lists = b]
    BY <1>3 DEF TypeRecord, At
  <2>2. block'.stage = "types"
    BY <1>2, <2>1 DEF Blocks
  <2> QED BY <2>2, NoOwnersYet
<1>4. ASSUME NEW i \in CtorIds, NEW t \in TypeIds, NEW c \in 1 .. MaxCtors,
             NEW concl \in ToSet(block.types), CtorRecord(i, t, c, concl), ~Fail
      PROVE  OwnersInv'
  <2>1. block.stage = "ctors" /\ block' = block
    BY <1>4 DEF CtorRecord, At
  <2> QED BY <2>1, NoOwnersYet
<1>5. ASSUME NEW i \in RecIds, NEW all \in {<<>>, block.types}, NEW rules \in CtorLists,
             RecRecord(i, all, rules), ~Fail
      PROVE  OwnersInv'
  <2>1. block.stage = "recs" /\ \E a : block' = [block EXCEPT !.recs = a]
    BY <1>5 DEF RecRecord, At
  <2>2. block'.stage = "recs"
    BY <1>2, <2>1 DEF Blocks
  <2> QED BY <2>2, NoOwnersYet
<1> QED BY <1>1, <1>3, <1>4, <1>5

\* Once all are compared there is a recursor for every type.
LEMMA InstallOwners ==
    ASSUME ImportInv, Open, Install
    PROVE  OwnersInv'
<1>1. block \in Blocks /\ RecsCompared
  BY OpenFacts
<1>2. block.stage = "compare" /\ block.k > DerivedCount /\ block' = [block EXCEPT !.stage = "owners", !.k = 1]
  BY DEF Install, At, GoTo
<1>3. /\ block'.stage = "owners" /\ block'.k = 1 /\ block'.types = block.types
      /\ block'.ordered = block.ordered /\ block'.recs = block.recs
  BY <1>1, <1>2 DEF Blocks
<1>4. /\ Len(block.types) \in Nat /\ Len(block.ordered) \in Nat /\ Len(block.recs) \in Nat
  BY <1>1, BlockFacts, SeqFacts
<1>5. Len(block.types) <= Len(block.ordered)
  <2>1. block.k = Len(block.ordered) + 1
    BY <1>1, <1>2 DEF RecsCompared
  <2>2. DerivedCount = Len(block.types) \/ DerivedCount = Len(block.types) + 1
    <3>1. CASE Nested
      BY <3>1 DEF DerivedCount
    <3>2. CASE ~Nested
      BY <1>4, <3>2 DEF DerivedCount
    <3> QED BY <3>1, <3>2
  <2>3. Len(block.ordered) + 1 > DerivedCount
    BY <1>2, <2>1
  <2>4. \A a, b, d \in Nat : b + 1 > d /\ (d = a \/ d = a + 1) => a <= b
    OBVIOUS
  <2>5. DerivedCount \in Nat
    BY <1>4, <2>2
  <2> QED BY <1>4, <2>2, <2>3, <2>4, <2>5
<1>6. Served(block.k - 1)'
  <2>1. 1 .. block'.k - 1 = {}
    BY <1>3
  <2> QED BY <2>1 DEF Served
<1>7. block'.k <= Len(block'.recs) + 1
  BY <1>3, <1>4
<1> QED BY <1>3, <1>5, <1>6, <1>7 DEF OwnersInv

\* A recursor takes what it claims and nothing that is taken.
LEMMA OwnOwners ==
    ASSUME ImportInv, Open, OwnersInv, Own
    PROVE  OwnersInv'
<1> DEFINE r == block.recs[block.k]
           owners == Claimed(r)
           next == block.k + 1
           seen == block.seen \cup owners
<1>1. CASE Fail
  BY <1>1, FailOwners
<1>2. CASE ~Fail
  <2>1. block \in Blocks /\ OwnersAdded
    BY OpenFacts
  <2>2. /\ block.stage = "owners" /\ block.k <= Len(block.recs) /\ consts' = consts
        /\ owners \cap block.seen = {}
        /\ recOf' = [t \in DOMAIN recOf \cup owners |-> IF t \in owners THEN r.name ELSE recOf[t]]
        /\ block' = [block EXCEPT !.k = next, !.seen = seen]
    BY <1>2 DEF Own, At
  <2> HIDE DEF next, seen
  <2>3. /\ block'.stage = "owners" /\ block'.types = block.types /\ block'.recs = block.recs
        /\ block'.ordered = block.ordered /\ block'.k = next /\ block'.seen = seen
    BY <2>1, <2>2 DEF Blocks
  <2>4. block.k \in Nat /\ block.k > 0 /\ Len(block.recs) \in Nat
    BY <2>1, <2>2, BlockFacts, SeqFacts DEF OwnersAdded
  <2>5. next <= Len(block.recs) + 1 /\ next - 1 = block.k
    BY <2>2, <2>4 DEF next
  <2>6. \A x : Claimed(x)' = Claimed(x)
    BY <2>2, <2>3, SameClaims
  <2>7. Served(block.k - 1) /\ Len(block.types) <= Len(block.ordered)
    BY <2>2 DEF OwnersInv
  <2>8. block.seen \subseteq DOMAIN recOf
    BY <2>1, <2>2 DEF OwnersAdded
  <2>9. ASSUME NEW j \in 1 .. block.k, NEW t \in Claimed(block.recs[j])
        PROVE  t \in seen /\ recOf'[t] = block.recs[j].name
    <3>1. CASE j = block.k
      <4>1. t \in owners
        BY <3>1
      <4> HIDE DEF owners
      <4>2. recOf'[t] = r.name
        BY <2>2, <4>1
      <4> QED BY <3>1, <4>1, <4>2 DEF seen
    <3>2. CASE j # block.k
      <4>1. j \in 1 .. block.k - 1
        BY <2>4, <3>2
      <4>2. t \in block.seen /\ recOf[t] = block.recs[j].name
        BY <2>7, <4>1 DEF Served
      <4> HIDE DEF owners, r
      <4>3. t \notin owners /\ t \in DOMAIN recOf
        BY <2>2, <2>8, <4>2
      <4>4. recOf'[t] = recOf[t]
        BY <2>2, <4>3
      <4> QED BY <4>2, <4>4 DEF seen
    <3> QED BY <3>1, <3>2
  <2>10. Served(block.k - 1)'
    BY <2>3, <2>5, <2>6, <2>9 DEF Served
  <2> QED BY <2>3, <2>5, <2>7, <2>10 DEF OwnersInv
<1> QED BY <1>1, <1>2

\* The groups are put in order once every recursor has taken its types.
LEMMA GroupOwners ==
    ASSUME ImportInv, Open, OwnersInv, Group
    PROVE  OwnersInv'
<1> DEFINE recs == [j \in DOMAIN block.recs |-> block.recs[j].name]
<1>1. CASE Fail
  BY <1>1, FailOwners
<1>2. CASE ~Fail
  <2>1. block \in Blocks
    BY OpenFacts
  <2>2. /\ block.stage = "owners" /\ block.k > Len(block.recs)
        /\ consts' = consts /\ recOf' = recOf /\ names' = names
        /\ block' = [block EXCEPT !.stage = "check", !.k = 1]
        /\ recGroup' = [i \in DOMAIN recGroup \cup ToSet(recs) |->
                           IF i \in ToSet(recs) THEN SortedGroup(recs) ELSE recGroup[i]]
    BY <1>2 DEF Group, GoTo, At, Quiet, tables
  <2>3. /\ block'.stage = "check" /\ block'.types = block.types /\ block'.recs = block.recs
        /\ block'.ordered = block.ordered /\ block'.seen = block.seen
    BY <2>1, <2>2 DEF Blocks
  <2>4. IsSeq(recs) /\ ToSet(recs) = RecNames /\ RecNames' = RecNames
    <3>1. IsSeq(block.recs)
      BY <2>1, BlockFacts
    <3> QED BY <2>3, <3>1, NamesFacts DEF RecNames
  <2> HIDE DEF recs
  <2>5. IsSeq(SortedGroup(recs)) /\ KeysRise(SortedGroup(recs))
    BY <2>4, SortedFacts
  <2>6. \A i \in RecNames : recGroup'[i] = SortedGroup(recs)
    BY <2>2, <2>4
  <2>7. \A i : SortKey(i)' = SortKey(i)
    BY <2>2 DEF SortKey, Main, Spelling
  <2>8. \A s : KeysRise(s)' = KeysRise(s)
    BY <2>7 DEF KeysRise
  <2>9. \A i \in RecNames : IsSeq(recGroup'[i]) /\ KeysRise(recGroup[i])'
    <3>1. ASSUME NEW i \in RecNames
          PROVE  IsSeq(recGroup'[i]) /\ KeysRise(recGroup[i])'
      <4>1. recGroup'[i] = SortedGroup(recs)
        BY <2>6
      <4>2. \A j, k \in 1 .. Len(SortedGroup(recs)) :
               j <= k => SortKey(SortedGroup(recs)[j]) <= SortKey(SortedGroup(recs)[k])
        BY <2>5 DEF KeysRise
      <4>3. KeysRise(recGroup[i])'
        BY <2>7, <4>1, <4>2 DEF KeysRise
      <4> QED BY <2>5, <4>1, <4>3
    <3> QED BY <3>1
  <2>10. Served(Len(block.recs))'
    <3>1. block.k \in Nat /\ Len(block.recs) \in Nat /\ block.k <= Len(block.recs) + 1
      BY <2>1, <2>2, BlockFacts, SeqFacts DEF OwnersInv
    <3>2. block.k - 1 = Len(block.recs)
      BY <2>2, <3>1
    <3>3. Served(Len(block.recs))
      BY <2>2, <3>2 DEF OwnersInv
    <3>4. \A x : Claimed(x)' = Claimed(x)
      BY <2>2, <2>3, SameClaims
    <3> QED BY <2>2, <2>3, <3>3, <3>4 DEF Served
  <2>11. Len(block.types) <= Len(block.ordered)
    BY <2>2 DEF OwnersInv
  <2>12. \A i \in RecNames' : IsSeq(recGroup[i])' /\ KeysRise(recGroup[i])'
    BY <2>4, <2>9 DEF IsSeq
  <2> QED BY <2>3, <2>10, <2>11, <2>12 DEF OwnersInv
<1> QED BY <1>1, <1>2

LEMMA NextOwners ==
    ASSUME ImportInv, OwnersInv, [ImportNext]_importVars
    PROVE  OwnersInv'
<1>1. CASE UNCHANGED importVars
  BY <1>1, SameOwners
<1>2. ASSUME NameLine \/ (\E i \in AxiomIds : Declaration(i))
      PROVE  OwnersInv'
  <2>1. ~Open'
    BY <1>2 DEF NameLine, Declaration, Running, Open
  <2> QED BY <2>1, NoOwnersYet
<1>3. CASE BeginBlock
  <2>1. block'.stage = "types"
    BY <1>3 DEF BeginBlock
  <2> QED BY <2>1, NoOwnersYet
<1>4. CASE Open /\ (\/ \E i \in TypeIds, l \in CtorLists : TypeRecord(i, l)
                    \/ \E i \in CtorIds, t \in TypeIds, c \in 1 .. MaxCtors, concl \in ToSet(block.types) :
                          CtorRecord(i, t, c, concl)
                    \/ \E i \in RecIds, all \in {<<>>, block.types}, rules \in CtorLists :
                          RecRecord(i, all, rules))
  BY <1>4, RecordOwners
<1>5. CASE Open /\ (NextStage \/ Reconstruct \/ Compare)
  BY <1>5, EarlierOwners
<1>6. CASE Open /\ Install
  BY <1>6, InstallOwners
<1>7. CASE Open /\ Own
  BY <1>7, OwnOwners
<1>8. CASE Open /\ Group
  BY <1>8, GroupOwners
<1>9. CASE Open /\ Commit
  <2>1. ~Open'
    BY <1>9 DEF Commit, Fail, Open
  <2> QED BY <2>1, NoOwnersYet
<1> QED BY <1>1, <1>2, <1>3, <1>4, <1>5, <1>6, <1>7, <1>8, <1>9 DEF ImportNext, Open

\* A recursor with the rules the kernel would give it claims its type: by the
\* first constructor its rules name, or, without rules, with all the others.
LEMMA HonestClaims ==
    ASSUME ImportInv, Open, OwnersInv, block.stage = "check", HonestRules,
           NEW n \in 1 .. Len(block.types)
    PROVE  n \in DOMAIN block.ordered /\ block.types[n] \in Claimed(block.ordered[n])
<1> DEFINE r == block.ordered[n]
           t == block.types[n]
           list == block.lists[n]
<1>1. block \in Blocks /\ TypesAdded /\ RecsCompared
  BY OpenFacts
<1>2. /\ IsSeq(block.types) /\ IsSeq(block.ordered) /\ block.lists \in Seq(CtorLists)
      /\ IsSeq(block.lists)
  BY <1>1, BlockFacts
<1>3. /\ Len(block.types) \in Nat /\ DOMAIN block.types = 1 .. Len(block.types)
      /\ t \in ToSet(block.types)
  BY <1>2, SeqFacts
<1>4. /\ Len(block.ordered) \in Nat /\ DOMAIN block.ordered = 1 .. Len(block.ordered)
      /\ \A k \in 1 .. Len(block.ordered) : block.ordered[k] \in ToSet(block.ordered)
  BY <1>2, SeqFacts
<1>5. n \in 1 .. Len(block.ordered)
  <2>1. Len(block.types) <= Len(block.ordered)
    BY DEF OwnersInv
  <2> QED BY <1>3, <1>4, <2>1
<1>6. n \in DOMAIN block.lists /\ list \in CtorLists
  <2>1. Len(block.lists) = Len(block.types)
    BY <1>1 DEF TypesAdded
  <2>2. n \in 1 .. Len(block.lists) /\ DOMAIN block.lists = 1 .. Len(block.lists)
    BY <1>2, <2>1, SeqFacts
  <2> QED BY <1>2, <2>2, ElementOfSeq
<1>7. r.rules = list
  <2>1. r.rules = DerivedRules(n)
    BY <1>4, <1>5 DEF HonestRules
  <2>2. DerivedRules(n) = list
    BY <1>3 DEF DerivedRules
  <2> QED BY <2>1, <2>2
<1>8. CASE list = <<>>
  <2>1. r.all = block.types
    BY <1>1, <1>4, <1>5 DEF RecsCompared
  <2>2. Claimed(r) = ToSet(block.types) \cap ToSet(block.types)
    BY <1>7, <1>8, <2>1 DEF Claimed
  <2> QED BY <1>3, <1>4, <1>5, <2>2
<1>9. CASE list # <<>>
  <2>1. \E c : c \in ToSet(list)
    <3>1. PICK m \in 0 .. MaxCtors : list \in [1 .. m -> CtorIds]
      BY <1>6 DEF CtorLists
    <3>2. m # 0
      <4>1. SUFFICES ASSUME m = 0 PROVE list = <<>>
        BY <1>9
      <4>2. 1 .. 0 = {}
        OBVIOUS
      <4>3. list \in [{} -> CtorIds]
        BY <3>1, <4>1, <4>2
      <4> HIDE DEF list
      <4> QED BY <4>3
    <3>3. 1 \in DOMAIN list
      BY <3>1, <3>2
    <3> QED BY <3>3 DEF ToSet
  <2>2. PICK c : c \in ToSet(list)
    BY <2>1
  <2>3. c \in DOMAIN consts /\ consts[c].kind = "ctor" /\ consts[c].concl = t
    BY <1>1, <1>6, <2>2 DEF RecsCompared, ListedOk
  <2>4. consts[c].concl = consts[c].induct
    BY <2>3 DEF ImportInv, BlockInv, WholeInside
  <2>5. Claimed(r) = { consts[x].induct : x \in { d \in ToSet(r.rules) :
             /\ d \in DOMAIN consts /\ consts[d].kind = "ctor"
             /\ consts[d].induct \in ToSet(block.types) } }
    BY <1>7, <1>9 DEF Claimed
  <2> HIDE DEF t, r, list
  <2>6. c \in { d \in ToSet(r.rules) : /\ d \in DOMAIN consts /\ consts[d].kind = "ctor"
                                       /\ consts[d].induct \in ToSet(block.types) }
    BY <1>3, <1>7, <2>2, <2>3, <2>4
  <2>7. consts[c].induct \in Claimed(r)
    BY <2>5, <2>6
  <2>8. consts[c].induct = t
    BY <2>3, <2>4
  <2>9. t \in Claimed(r)
    BY <2>7, <2>8
  <2> QED BY <1>4, <1>5, <2>9 DEF t, r
<1> QED BY <1>8, <1>9

LEMMA OwnersFollow ==
    ASSUME ImportInv, OwnersInv
    PROVE  OwnersAreNamed
<1> SUFFICES ASSUME Open, block.stage = "check", HonestRules
             PROVE  /\ \A k \in DOMAIN block.types : recOf[block.types[k]] = block.ordered[k].name
                    /\ \A k \in DOMAIN block.ordered :
                          LET group == recGroup[block.ordered[k].name]
                          IN  \A j \in 1 .. Len(group) - 1 : Main(group[j + 1]) => Main(group[j])
  BY DEF OwnersAreNamed, Open
<1>1. block \in Blocks /\ RecsAdded
  BY OpenFacts
<1>2. /\ IsSeq(block.types) /\ IsSeq(block.ordered) /\ IsSeq(block.recs)
  BY <1>1, BlockFacts
<1>3. ToSet(block.ordered) = ToSet(block.recs)
  BY <1>1 DEF RecsAdded
<1>4. ASSUME NEW k \in DOMAIN block.ordered
      PROVE  \E j \in 1 .. Len(block.recs) : block.recs[j] = block.ordered[k]
  <2>1. block.ordered[k] \in ToSet(block.recs)
    BY <1>2, <1>3, SeqFacts
  <2> QED BY <1>2, <2>1, SeqFacts
<1>5. ASSUME NEW k \in DOMAIN block.types
      PROVE  recOf[block.types[k]] = block.ordered[k].name
  <2>1. k \in 1 .. Len(block.types)
    BY <1>2, SeqFacts
  <2>2. k \in DOMAIN block.ordered /\ block.types[k] \in Claimed(block.ordered[k])
    BY <2>1, HonestClaims
  <2>3. PICK j \in 1 .. Len(block.recs) : block.recs[j] = block.ordered[k]
    BY <1>4, <2>2
  <2>4. Served(Len(block.recs))
    BY DEF OwnersInv
  <2> QED BY <2>2, <2>3, <2>4 DEF Served
<1>6. ASSUME NEW k \in DOMAIN block.ordered, NEW group, group = recGroup[block.ordered[k].name],
             NEW j \in 1 .. Len(group) - 1, Main(group[j + 1])
      PROVE  Main(group[j])
  <2>1. block.ordered[k].name \in RecNames
    <3>1. block.ordered[k] \in ToSet(block.recs)
      BY <1>2, <1>3, SeqFacts
    <3> QED BY <3>1 DEF RecNames
  <2>2. IsSeq(group) /\ KeysRise(group)
    BY <1>6, <2>1 DEF OwnersInv
  <2>3. Len(group) \in Nat
    BY <2>2, SeqFacts
  <2>4. j \in 1 .. Len(group) /\ j + 1 \in 1 .. Len(group) /\ j <= j + 1
    BY <2>3
  <2>5. SortKey(group[j]) <= SortKey(group[j + 1])
    BY <2>2, <2>4 DEF KeysRise
  <2>6. SortKey(group[j + 1]) = 0 /\ SortKey(group[j]) \in 0 .. 2
    BY <1>6, KeyFacts
  <2>7. SortKey(group[j]) = 0
    BY <2>5, <2>6
  <2> QED BY <2>7, KeyFacts
<1> QED BY <1>5, <1>6

\* Whatever the file, when the recursors of a block carry the rules the kernel
\* would write, the owner of each inductive is the recursor the kernel names
\* after it, and every group has its owners before its auxiliary recursors (the
\* claims of the recursor records and `sort_by_key`, handle_inductive_block).
THEOREM OwnersNamed == ImportSpec => []OwnersAreNamed
<1>1. ImportInit => ImportInv /\ OwnersInv
  <2>1. ImportInit => OwnersInv
    BY DEF ImportInit, OwnersInv, Open
  <2> QED BY <2>1, InitHolds
<1>2. ImportInv /\ OwnersInv /\ [ImportNext]_importVars => ImportInv' /\ OwnersInv'
  BY NextHolds, NextOwners
<1>3. ImportInv /\ OwnersInv => OwnersAreNamed
  BY OwnersFollow
<1> QED BY <1>1, <1>2, <1>3, PTL DEF ImportSpec

-----------------------------------------------------------------------------
(* One constant per name *)

\* The spelling of an index the file has named.
LEMMA SpelledFacts ==
    ASSUME NamesInv, NEW s
    PROVE  \A i : i \in Spelled(s) <=> i \in 1 .. Len(names) - 1 /\ Spelling(i) = s
<1>1. Len(names) \in Nat /\ Len(names) >= 1
  BY DEF NamesInv
<1>2. ASSUME NEW i \in 1 .. Len(names) - 1
      PROVE  Spelling(i) = names[i + 1]
  BY <1>1 DEF Spelling
<1> QED BY <1>2 DEF Spelled

\* The lookup by name finds the constant of that name if there is one, past the
\* indices that were never declared.
LEMMA DeclaredFacts ==
    ASSUME NamesInv, DeclaredInv, NEW s \in DOMAIN byStr
    PROVE  IF \E i \in DOMAIN consts : Spelling(i) = s
           THEN Declared(s) \in DOMAIN consts /\ Spelling(Declared(s)) = s
           ELSE Declared(s) = None
<1>1. \A i : i \in Spelled(s) <=> i \in 1 .. Len(names) - 1 /\ Spelling(i) = s
  BY SpelledFacts
<1>2. \A i \in DOMAIN consts : i \in 1 .. Len(names) - 1
  BY DEF DeclaredInv
<1>3. CASE s \in DOMAIN dups
  <2> DEFINE there == { k \in DOMAIN dups[s] : dups[s][k] \in DOMAIN consts }
  <2>1. IsSeq(dups[s]) /\ ToSet(dups[s]) = Spelled(s)
    BY <1>3 DEF NamesInv
  <2>2. /\ DOMAIN dups[s] = 1 .. Len(dups[s]) /\ Len(dups[s]) \in Nat
        /\ \A k \in DOMAIN dups[s] : dups[s][k] \in Spelled(s)
        /\ \A i \in Spelled(s) : \E k \in DOMAIN dups[s] : dups[s][k] = i
    BY <2>1, SeqFacts
  <2>3. CASE there = {}
    <3>1. Declared(s) = None
      BY <1>3, <2>3 DEF Declared
    <3>2. \A i \in DOMAIN consts : Spelling(i) # s
      BY <1>1, <1>2, <2>2, <2>3
    <3> QED BY <3>1, <3>2
  <2>4. CASE there # {}
    <3> DEFINE first == CHOOSE k \in there : \A j \in there : k <= j
    <3>1. Declared(s) = dups[s][first]
      BY <1>3, <2>4 DEF Declared
    <3>2. there \subseteq Nat
      BY <2>2
    <3>3. \E k \in there : \A j \in there : k <= j
      <4> HIDE DEF there
      <4> QED BY <2>4, <3>2, LeastElement
    <3>4. first \in there
      <4> HIDE DEF there
      <4> QED BY <3>3
    <3> HIDE DEF first
    <3>5. Declared(s) \in DOMAIN consts /\ Declared(s) \in Spelled(s)
      BY <2>2, <3>1, <3>4
    <3> QED BY <1>1, <3>5
  <2> QED BY <2>3, <2>4
<1>4. CASE s \notin DOMAIN dups
  <2>1. Spelled(s) = {byStr[s]}
    BY <1>4 DEF NamesInv
  <2>2. Declared(s) = IF byStr[s] \in DOMAIN consts THEN byStr[s] ELSE None
    BY <1>4 DEF Declared, DeclaredLast
  <2> QED BY <1>1, <1>2, <2>1, <2>2
<1> QED BY <1>3, <1>4

\* What is no duplicate has a name that no constant has.
LEMMA NewName ==
    ASSUME NamesInv, DeclaredInv, NEW i \in 1 .. Len(NameLines), ~Duplicate(i),
           Len(names) = Len(NameLines) + 1
    PROVE  i \notin DOMAIN consts /\ \A j \in DOMAIN consts : Spelling(j) # Spelling(i)
<1>0. Len(names) \in Nat
  BY DEF NamesInv
<1>1. i \notin DOMAIN consts /\ Declared(Spelling(i)) = None
  BY DEF Duplicate
<1>2. Spelling(i) \in DOMAIN byStr
  <2>1. i \in 1 .. Len(names) - 1
    BY <1>0
  <2>2. Spelling(i) = names[i + 1]
    BY <1>0, <2>1 DEF Spelling
  <2> QED BY <2>1, <2>2 DEF NamesInv
<1>3. None \notin DOMAIN consts
  <2>1. Len(NameLines) \in Nat
    BY ImportAssumption, LenProperties
  <2>2. None \notin 1 .. Len(NameLines)
    BY <2>1 DEF None
  <2> QED BY <2>2 DEF DeclaredInv
<1> QED BY <1>1, <1>2, <1>3, DeclaredFacts

\* What a name line spells, at the next index.
LEMMA LineFacts ==
    ASSUME NamesInv, NameLine
    PROVE  \E s \in Seq(STRING), i \in 1 .. Len(NameLines) :
              /\ i = Len(names) /\ names' = Append(names, s)
              /\ byStr' = Put(byStr, s, i) /\ dups' = Respelled(s, i)
<1> DEFINE i == Len(names)
           l == NameLines[i]
           s == names[l[1] + 1] \o l[2]
<1>1. /\ names' = Append(names, s) /\ byStr' = Put(byStr, s, i) /\ dups' = Respelled(s, i)
      /\ Len(names) <= Len(NameLines)
  BY DEF NameLine
<1>2. i \in Nat /\ i >= 1 /\ Len(NameLines) \in Nat /\ i \in 1 .. Len(NameLines)
  <2>1. Len(NameLines) \in Nat
    BY ImportAssumption, LenProperties
  <2> QED BY <1>1, <2>1 DEF NamesInv
<1>3. s \in Seq(STRING)
  <2>1. l \in Nat \X Seq(STRING) /\ l[1] < i
    <3>1. DOMAIN NameLines = 1 .. Len(NameLines)
      BY ImportAssumption, LenProperties
    <3> QED BY <1>2, <3>1, ImportAssumption, ElementOfSeq
  <2>2. l[1] \in Nat /\ l[2] \in Seq(STRING) /\ l[1] + 1 \in 1 .. Len(names)
    BY <1>2, <2>1
  <2>3. names[l[1] + 1] \in Seq(STRING)
    <3>1. names \in Seq(Seq(STRING))
      BY DEF NamesInv
    <3> DEFINE q == l[1] + 1
    <3>2. q \in 1 .. Len(names)
      BY <2>2
    <3> HIDE DEF q
    <3>3. names[q] \in Seq(STRING)
      BY <3>1, <3>2, ElementOfSeq
    <3> QED BY <3>3 DEF q
  <2> QED BY <2>2, <2>3, ConcatProperties
<1> HIDE DEF s
<1> QED BY <1>1, <1>2, <1>3

\* A line adds its index to those of its spelling.
LEMMA NameLineKeeps ==
    ASSUME NamesInv, NameLine
    PROVE  NamesInv'
<1>1. PICK s \in Seq(STRING), i \in 1 .. Len(NameLines) :
         /\ i = Len(names) /\ names' = Append(names, s)
         /\ byStr' = Put(byStr, s, i) /\ dups' = Respelled(s, i)
  BY LineFacts
<1>2. i \in Nat /\ i >= 1 /\ Len(NameLines) \in Nat
  BY ImportAssumption, LenProperties
<1>4. /\ names' \in Seq(Seq(STRING)) /\ Len(names') = i + 1
      /\ \A n \in 1 .. i : names'[n] = names[n]
      /\ names'[i + 1] = s
  <2>1. names \in Seq(Seq(STRING))
    BY DEF NamesInv
  <2> QED BY <1>1, <2>1, AppendedFacts
<1> DEFINE Is(t, n) == n \in 1 .. i - 1 /\ names[n + 1] = t
<1>5. \A t, n : n \in Spelled(t) <=> Is(t, n)
  BY <1>1 DEF Spelled
<1>6. \A t, n : n \in Spelled(t)' <=> Is(t, n) \/ (t = s /\ n = i)
  <2>1. \A t, n : n \in Spelled(t)' <=> n \in 1 .. Len(names') - 1 /\ names'[n + 1] = t
    BY DEF Spelled
  <2>2. Len(names') - 1 = i
    BY <1>2, <1>4
  <2>3. \A n : n \in 1 .. i <=> n \in 1 .. i - 1 \/ n = i
    BY <1>2
  <2>4. \A n \in 1 .. i - 1 : names'[n + 1] = names[n + 1]
    <3>1. \A n \in 1 .. i - 1 : n + 1 \in 1 .. i
      BY <1>2
    <3> QED BY <1>4, <3>1
  <2> QED BY <1>4, <2>1, <2>2, <2>3, <2>4
<1> HIDE DEF Is
<1>7. \A t, n : n \in Spelled(t)' <=> n \in Spelled(t) \/ (t = s /\ n = i)
  BY <1>5, <1>6
<1>8. ASSUME NEW t, t # s
      PROVE  Spelled(t)' = Spelled(t)
  <2>1. \A n : n \in Spelled(t)' <=> n \in Spelled(t)
    BY <1>7, <1>8
  <2> DEFINE old == Spelled(t)
             new == Spelled(t)'
  <2>2. \A n : n \in new <=> n \in old
    BY <2>1
  <2> HIDE DEF old, new
  <2>3. new = old
    BY <2>2
  <2> QED BY <2>3 DEF old, new
<1>9. Spelled(s)' = Spelled(s) \cup {i}
  BY <1>7
<1>10. /\ DOMAIN byStr' = DOMAIN byStr \cup {s} /\ byStr'[s] = i /\ IsFun(byStr')
       /\ \A t \in DOMAIN byStr : t # s => byStr'[t] = byStr[t]
  BY <1>1 DEF Put, IsFun
<1>11. /\ IsFun(byStr) /\ IsFun(dups)
       /\ \A n \in 1 .. Len(names) - 1 : names[n + 1] \in DOMAIN byStr
       /\ \A t \in DOMAIN byStr : byStr[t] \in Spelled(t)
       /\ \A t \in DOMAIN byStr \ DOMAIN dups : Spelled(t) = {byStr[t]}
       /\ DOMAIN dups \subseteq DOMAIN byStr
       /\ \A t \in DOMAIN dups : IsSeq(dups[t]) /\ ToSet(dups[t]) = Spelled(t)
  BY DEF NamesInv
<1>12. i \notin Spelled(s)
  BY <1>1, <1>2 DEF Spelled
<1>13. \A n \in 1 .. Len(names') - 1 : names'[n + 1] \in DOMAIN byStr'
  <2> TAKE n \in 1 .. Len(names') - 1
  <2>0. PICK t : t = names'[n + 1]
    OBVIOUS
  <2>1. n \in Spelled(t)'
    BY <2>0 DEF Spelled
  <2>2. CASE n \in Spelled(t)
    <3>1. names[n + 1] = t /\ n \in 1 .. Len(names) - 1
      BY <2>2 DEF Spelled
    <3>2. t \in DOMAIN byStr
      BY <1>11, <3>1
    <3> QED BY <1>10, <2>0, <3>2
  <2>3. CASE t = s
    BY <1>10, <2>0, <2>3
  <2> QED BY <1>7, <2>0, <2>1, <2>2, <2>3
<1>14. \A t \in DOMAIN byStr' : byStr'[t] \in Spelled(t)'
  BY <1>8, <1>9, <1>10, <1>11
<1>15. Len(names') \in 1 .. Len(NameLines) + 1
  BY <1>1, <1>2, <1>4
<1>16. /\ IsFun(dups') /\ DOMAIN dups' \subseteq DOMAIN byStr'
       /\ \A t \in DOMAIN byStr' \ DOMAIN dups' : Spelled(t)' = {byStr'[t]}
       /\ \A t \in DOMAIN dups' : IsSeq(dups'[t]) /\ ToSet(dups'[t]) = Spelled(t)'
  <2>1. CASE s \notin DOMAIN byStr
    <3>1. dups' = dups
      BY <1>1, <2>1 DEF Respelled
    <3>2. Spelled(s) = {}
      BY <1>11, <2>1 DEF Spelled
    <3>3. \A t \in DOMAIN dups' : t # s /\ Spelled(t)' = Spelled(t)
      BY <1>8, <1>11, <2>1, <3>1
    <3>4. \A t \in DOMAIN byStr' \ DOMAIN dups' : Spelled(t)' = {byStr'[t]}
      BY <1>8, <1>9, <1>10, <1>11, <3>1, <3>2
    <3> QED BY <1>10, <1>11, <3>1, <3>3, <3>4
  <2>2. CASE s \in DOMAIN byStr
    <3> DEFINE old == IF s \in DOMAIN dups THEN dups[s] ELSE <<byStr[s]>>
               new == Append(old, i)
    <3>1. byStr[s] # i
      BY <1>11, <1>12, <2>2
    <3>2. dups' = Put(dups, s, new)
      BY <1>1, <2>2, <3>1 DEF Respelled
    <3>3. IsSeq(old) /\ ToSet(old) = Spelled(s)
      <4>1. CASE s \in DOMAIN dups
        BY <1>11, <4>1
      <4>2. CASE s \notin DOMAIN dups
        <5> DEFINE one == byStr[s]
        <5>1. Spelled(s) = {one} /\ old = <<one>>
          BY <1>11, <2>2, <4>2
        <5> HIDE DEF one, old
        <5>2. <<one>> \in Seq({one}) /\ DOMAIN <<one>> = {1} /\ <<one>>[1] = one
          OBVIOUS
        <5>3. IsSeq(<<one>>) /\ ToSet(<<one>>) = {one}
          BY <5>2, SeqIsSeq DEF ToSet
        <5> QED BY <5>1, <5>3
      <4> QED BY <4>1, <4>2
    <3> HIDE DEF old
    <3>4. IsSeq(new) /\ ToSet(new) = Spelled(s)'
      BY <1>9, <3>3, AppendFacts
    <3> HIDE DEF new
    <3>5. /\ DOMAIN dups' = DOMAIN dups \cup {s} /\ dups'[s] = new /\ IsFun(dups')
          /\ \A t \in DOMAIN dups : t # s => dups'[t] = dups[t]
      BY <3>2 DEF Put, IsFun
    <3>6. \A t \in DOMAIN byStr' \ DOMAIN dups' : Spelled(t)' = {byStr'[t]}
      BY <1>8, <1>10, <1>11, <3>5
    <3>7. \A t \in DOMAIN dups' : IsSeq(dups'[t]) /\ ToSet(dups'[t]) = Spelled(t)'
      BY <1>8, <1>11, <3>4, <3>5
    <3> QED BY <1>10, <1>11, <2>2, <3>5, <3>6, <3>7
  <2> QED BY <2>1, <2>2
<1> QED BY <1>4, <1>10, <1>13, <1>14, <1>15, <1>16 DEF NamesInv

\* The steps after the names keep their spellings.
LEMMA SameSpelling ==
    ASSUME UNCHANGED tables
    PROVE  names' = names /\ \A i : Spelling(i)' = Spelling(i)
  BY DEF tables, Spelling

\* A constant of a new name.
LEMMA NamedInsert ==
    ASSUME NamesInv, DeclaredInv, Len(names) = Len(NameLines) + 1, NEW i \in 1 .. Len(NameLines),
           ~Duplicate(i), DOMAIN consts' = DOMAIN consts \cup {i}, UNCHANGED tables
    PROVE  /\ DOMAIN consts' \subseteq 1 .. Len(NameLines) /\ i \notin DOMAIN consts
           /\ \A x, y \in DOMAIN consts' : Spelling(x)' = Spelling(y)' => x = y
<1>1. i \notin DOMAIN consts /\ \A j \in DOMAIN consts : Spelling(j) # Spelling(i)
  BY NewName
<1>2. /\ DOMAIN consts \subseteq 1 .. Len(NameLines)
      /\ \A x, y \in DOMAIN consts : Spelling(x) = Spelling(y) => x = y
  BY DEF DeclaredInv
<1>3. \A x : Spelling(x)' = Spelling(x)
  BY SameSpelling
<1> QED BY <1>1, <1>2, <1>3

\* A failed block leaves the constants that were there.
LEMMA FailNamed ==
    ASSUME ImportInv, DeclaredInv, Open, Fail
    PROVE  DeclaredInv'
<1>1. /\ consts' = OldConsts /\ ~Open' /\ UNCHANGED tables
  BY DEF Fail, Rollback, OldConsts, Open
<1>2. DOMAIN OldConsts \subseteq DOMAIN consts
  BY OpenFacts DEF Added
<1>3. names' = names /\ \A i : Spelling(i)' = Spelling(i)
  BY <1>1, SameSpelling
<1>4. /\ Len(names) = Len(NameLines) + 1 /\ DOMAIN consts \subseteq 1 .. Len(NameLines)
      /\ \A x, y \in DOMAIN consts : Spelling(x) = Spelling(y) => x = y
  BY DEF DeclaredInv
<1> QED BY <1>1, <1>2, <1>3, <1>4 DEF DeclaredInv

LEMMA DeclarationNamed ==
    ASSUME NamedFile, NamesInv, DeclaredInv, NEW i \in AxiomIds, Declaration(i)
    PROVE  DeclaredInv'
<1>1. /\ ~Open /\ ~Open' /\ UNCHANGED tables /\ Len(names) = Len(NameLines) + 1
      /\ i \in 1 .. Len(NameLines)
  BY DEF Declaration, Running, Open, NamedFile
<1>2. names' = names /\ \A x : Spelling(x)' = Spelling(x)
  BY <1>1, SameSpelling
<1>3. CASE UNCHANGED consts
  BY <1>1, <1>2, <1>3 DEF DeclaredInv
<1>4. CASE ~Duplicate(i) /\ consts' = Put(consts, i, [kind |-> "axiom"])
  <2>1. DOMAIN consts' = DOMAIN consts \cup {i}
    BY <1>4 DEF Put
  <2>2. /\ DOMAIN consts' \subseteq 1 .. Len(NameLines)
        /\ \A x, y \in DOMAIN consts' : Spelling(x)' = Spelling(y)' => x = y
    BY <1>1, <1>4, <2>1, NamedInsert
  <2> QED BY <1>1, <1>2, <2>2 DEF DeclaredInv
<1> QED BY <1>3, <1>4 DEF Declaration

LEMMA BeginNamed ==
    ASSUME DeclaredInv, BeginBlock
    PROVE  DeclaredInv'
<1>1. /\ UNCHANGED tables /\ consts' = consts /\ Len(names) = Len(NameLines) + 1
      /\ block'.types = <<>> /\ block'.recs = <<>> /\ block'.stage = "types"
  BY DEF BeginBlock, Running, env
<1>2. names' = names /\ \A x : Spelling(x)' = Spelling(x)
  BY <1>1, SameSpelling
<1>3. ToSet(<<>>) = {} /\ Len(<<>>) = 0
  BY NoRecords DEF ToSet
<1> QED BY <1>1, <1>2, <1>3 DEF DeclaredInv

LEMMA TypeNamed ==
    ASSUME NamedFile, ImportInv, NamesInv, DeclaredInv, Open, NEW i \in TypeIds, NEW ctors,
           TypeRecord(i, ctors)
    PROVE  DeclaredInv'
<1>1. CASE Fail
  BY <1>1, FailNamed
<1>2. CASE /\ ~Duplicate(i) /\ InsertConstant(i, [kind |-> "type", ctors |-> ctors])
           /\ block' = [block EXCEPT !.types = Append(@, i), !.lists = Append(@, ctors)]
           /\ Quiet
  <2>1. /\ block \in Blocks /\ TypesAdded /\ RecsWaiting /\ block.stage = "types"
        /\ UNCHANGED tables /\ Len(names) = Len(NameLines) + 1 /\ i \in 1 .. Len(NameLines)
    BY <1>2, OpenFacts DEF TypeRecord, At, Quiet, DeclaredInv, NamedFile
  <2>2. names' = names /\ \A x : Spelling(x)' = Spelling(x)
    BY <2>1, SameSpelling
  <2>3. DOMAIN consts' = DOMAIN consts \cup {i}
    BY <1>2 DEF InsertConstant, Put
  <2>4. /\ DOMAIN consts' \subseteq 1 .. Len(NameLines) /\ i \notin DOMAIN consts
        /\ \A x, y \in DOMAIN consts' : Spelling(x)' = Spelling(y)' => x = y
    BY <1>2, <2>1, <2>3, NamedInsert
  <2>5. block.types \in Seq(TypeIds) /\ Len(block.types) \in Nat /\ block.recs = <<>>
    BY <2>1, BlockFacts, SeqFacts DEF RecsWaiting
  <2> DEFINE ts == Append(block.types, i)
  <2>6. /\ Len(ts) = Len(block.types) + 1 /\ ts[Len(block.types) + 1] = i
        /\ \A n \in 1 .. Len(block.types) : ts[n] = block.types[n]
    BY <2>5, AppendedFacts
  <2>7. block'.types = ts /\ block'.recs = <<>> /\ block'.stage = "types"
    BY <1>2, <2>1, <2>5 DEF Blocks
  <2> HIDE DEF ts
  <2>8. \A n \in 1 .. Len(block.types) : block.types[n] \in DOMAIN consts
    BY <2>1 DEF TypesAdded, Fresh
  <2>9. \A n \in 1 .. Len(ts) : n \in 1 .. Len(block.types) \/ n = Len(block.types) + 1
    BY <2>5, <2>6
  <2>10. \A j, k \in 1 .. Len(block.types) : block.types[j] = block.types[k] => j = k
    BY DEF DeclaredInv
  <2>11. \A j, k \in 1 .. Len(ts) : ts[j] = ts[k] => j = k
    BY <2>4, <2>6, <2>8, <2>9, <2>10
  <2>12. ToSet(<<>>) = {}
    BY DEF ToSet
  <2> QED BY <2>1, <2>2, <2>4, <2>7, <2>11, <2>12 DEF DeclaredInv
<1> QED BY <1>1, <1>2 DEF TypeRecord

LEMMA CtorNamed ==
    ASSUME NamedFile, ImportInv, NamesInv, DeclaredInv, Open, NEW i \in CtorIds, NEW induct, NEW cidx,
           NEW concl, CtorRecord(i, induct, cidx, concl)
    PROVE  DeclaredInv'
<1>1. CASE Fail
  BY <1>1, FailNamed
<1>2. CASE /\ ~Duplicate(i)
           /\ InsertConstant(i, [kind |-> "ctor", induct |-> induct, cidx |-> cidx, concl |-> concl])
           /\ UNCHANGED block /\ Quiet
  <2>1. /\ RecsWaiting /\ block.stage = "ctors"
        /\ UNCHANGED tables /\ Len(names) = Len(NameLines) + 1 /\ i \in 1 .. Len(NameLines)
    BY <1>2, OpenFacts DEF CtorRecord, At, Quiet, DeclaredInv, NamedFile
  <2>2. names' = names /\ \A x : Spelling(x)' = Spelling(x)
    BY <2>1, SameSpelling
  <2>3. DOMAIN consts' = DOMAIN consts \cup {i}
    BY <1>2 DEF InsertConstant, Put
  <2>4. /\ DOMAIN consts' \subseteq 1 .. Len(NameLines)
        /\ \A x, y \in DOMAIN consts' : Spelling(x)' = Spelling(y)' => x = y
    BY <1>2, <2>1, <2>3, NamedInsert
  <2>5. block' = block /\ block.recs = <<>> /\ ToSet(<<>>) = {}
    BY <1>2, <2>1 DEF RecsWaiting, ToSet
  <2>6. \A j, k \in 1 .. Len(block.types) : block.types[j] = block.types[k] => j = k
    BY DEF DeclaredInv
  <2> QED BY <2>1, <2>2, <2>4, <2>5, <2>6 DEF DeclaredInv
<1> QED BY <1>1, <1>2 DEF CtorRecord

LEMMA RecNamed ==
    ASSUME NamedFile, ImportInv, NamesInv, DeclaredInv, Open, NEW i \in RecIds, NEW all, NEW rules,
           RecRecord(i, all, rules)
    PROVE  DeclaredInv'
<1>1. CASE Fail
  BY <1>1, FailNamed
<1>2. CASE /\ ~Duplicate(i)
           /\ block' = [block EXCEPT !.recs = Append(@, [name |-> i, all |-> all, rules |-> rules])]
           /\ UNCHANGED env /\ Quiet
  <2> DEFINE r == [name |-> i, all |-> all, rules |-> rules]
             rs == Append(block.recs, r)
  <2>1. /\ block \in Blocks /\ block.stage = "recs" /\ r.name = i /\ consts' = consts
        /\ UNCHANGED tables /\ Len(names) = Len(NameLines) + 1 /\ i \in 1 .. Len(NameLines)
    BY <1>2, OpenFacts DEF RecRecord, At, Quiet, env, DeclaredInv, NamedFile
  <2>2. names' = names /\ \A x : Spelling(x)' = Spelling(x)
    BY <2>1, SameSpelling
  <2>3. \A j \in DOMAIN consts : Spelling(j) # Spelling(i)
    BY <1>2, <2>1, NewName
  <2> HIDE DEF r
  <2>4. ToSet(rs) = ToSet(block.recs) \cup {r}
    BY <2>1, BlockFacts, AppendFacts
  <2>5. block'.types = block.types /\ block'.recs = rs /\ block'.stage = "recs"
    BY <1>2, <2>1 DEF Blocks, r
  <2> HIDE DEF rs
  <2>6. /\ \A j, k \in 1 .. Len(block.types) : block.types[j] = block.types[k] => j = k
        /\ \A x \in ToSet(block.recs) : \A j \in DOMAIN consts : Spelling(x.name) # Spelling(j)
        /\ DOMAIN consts \subseteq 1 .. Len(NameLines)
        /\ \A x, y \in DOMAIN consts : Spelling(x) = Spelling(y) => x = y
    BY <2>1 DEF DeclaredInv
  <2>7. \A x \in ToSet(rs) : \A j \in DOMAIN consts : Spelling(x.name) # Spelling(j)
    BY <2>1, <2>3, <2>4, <2>6
  <2> QED BY <2>1, <2>2, <2>5, <2>6, <2>7 DEF DeclaredInv
<1> QED BY <1>1, <1>2 DEF RecRecord

\* What is spelled is a sequence of segments.
LEMMA SpellingType ==
    ASSUME NamesInv, NEW i \in Nat
    PROVE  Spelling(i) \in Seq(STRING)
<1>1. CASE i < Len(names)
  <2>1. names \in Seq(Seq(STRING)) /\ i + 1 \in 1 .. Len(names)
    BY <1>1 DEF NamesInv
  <2> DEFINE n == i + 1
  <2>2. n \in 1 .. Len(names) /\ Spelling(i) = names[n]
    BY <1>1, <2>1 DEF Spelling
  <2> HIDE DEF n
  <2> QED BY <2>1, <2>2, ElementOfSeq
<1>2. CASE ~(i < Len(names))
  BY <1>2, EmptySeq DEF Spelling, Anonymous
<1> QED BY <1>1, <1>2

\* The names the kernel expects of a block's recursors are distinct.
LEMMA ExpectedDistinct ==
    ASSUME ImportInv, NamesInv, DeclaredInv, Open, block.types # <<>>,
           NEW j \in 1 .. DerivedCount, NEW k \in 1 .. DerivedCount, ExpectedName(j) = ExpectedName(k)
    PROVE  j = k
<1> DEFINE N == Len(block.types)
           spelled(n) == Spelling(block.types[n])
<1>1. /\ block \in Blocks /\ TypesAdded /\ N \in Nat
  BY OpenFacts, BlockFacts, SeqFacts
<1>2. \A n \in 1 .. N : block.types[n] \in DOMAIN consts
  BY <1>1 DEF TypesAdded, Fresh
<1>3. /\ \A n \in 1 .. N : block.types[n] \in Nat
      /\ \A x, y \in DOMAIN consts : Spelling(x) = Spelling(y) => x = y
      /\ \A m, n \in 1 .. N : block.types[m] = block.types[n] => m = n
  BY <1>2 DEF DeclaredInv
<1>4. \A n \in 1 .. N : spelled(n) \in Seq(STRING)
  BY <1>3, SpellingType
<1>5. ASSUME NEW m \in 1 .. N, NEW n \in 1 .. N, spelled(m) = spelled(n)
      PROVE  m = n
  <2> DEFINE x == block.types[m]
             y == block.types[n]
  <2>1. Spelling(x) = Spelling(y)
    BY <1>5
  <2>2. x \in DOMAIN consts /\ y \in DOMAIN consts
    BY <1>2
  <2>3. x = y => m = n
    BY <1>3
  <2>4. \A u, v \in DOMAIN consts : Spelling(u) = Spelling(v) => u = v
    BY <1>3
  <2> HIDE DEF x, y
  <2> QED BY <2>1, <2>2, <2>3, <2>4
<1>6. DerivedCount = N \/ DerivedCount = N + 1
  <2>1. Len(block.types) + 0 = Len(block.types)
    BY <1>1
  <2>2. CASE Nested
    BY <2>2 DEF DerivedCount
  <2>3. CASE ~Nested
    BY <2>1, <2>3 DEF DerivedCount
  <2> QED BY <2>2, <2>3
<1>7. \A n \in 1 .. DerivedCount : n \in 1 .. N \/ n = N + 1
  BY <1>1, <1>6
<1>8. \A n \in 1 .. N : ExpectedName(n) = Append(spelled(n), "rec")
  BY <1>1 DEF ExpectedName
<1>9. ExpectedName(N + 1) = Append(spelled(1), "rec_1")
  BY <1>1 DEF ExpectedName
<1>10. spelled(1) \in Seq(STRING)
  <2>1. block.types \in Seq(TypeIds)
    BY <1>1, BlockFacts
  <2>2. 1 \in 1 .. N
    BY <1>1, <2>1, EmptySeq
  <2> QED BY <1>4, <2>2
<1> HIDE DEF spelled, N
<1>0. ASSUME NEW a \in Seq(STRING), NEW b \in Seq(STRING)
      PROVE  /\ Append(a, "rec") = Append(b, "rec") => a = b
             /\ Append(a, "rec") # Append(b, "rec_1")
  <2> DEFINE Segments == STRING \cup {"rec", "rec_1"}
  <2>1. "rec" \in Segments /\ "rec_1" \in Segments
    OBVIOUS
  <2>2. "rec" # "rec_1"
    OBVIOUS
  <2>3. a \in Seq(Segments) /\ b \in Seq(Segments)
    BY <1>0, SeqMonotonic
  <2> HIDE DEF Segments
  <2>4. Append(a, "rec") = Append(b, "rec") => a = b
    BY <2>1, <2>3, AppendInjective
  <2>5. Append(a, "rec") = Append(b, "rec_1") => "rec" = "rec_1"
    BY <2>1, <2>3, AppendInjective
  <2> QED BY <2>2, <2>4, <2>5
<1>11. CASE j \in 1 .. N /\ k \in 1 .. N
  <2>1. Append(spelled(j), "rec") = Append(spelled(k), "rec")
    BY <1>8, <1>11
  <2>2. spelled(j) = spelled(k)
    BY <1>0, <1>4, <1>11, <2>1
  <2> QED BY <1>5, <1>11, <2>2
<1>12. CASE j \in 1 .. N /\ k = N + 1
  <2>1. Append(spelled(j), "rec") = Append(spelled(1), "rec_1")
    BY <1>8, <1>9, <1>12
  <2> QED BY <1>0, <1>4, <1>10, <1>12, <2>1
<1>13. CASE j = N + 1 /\ k \in 1 .. N
  <2>1. Append(spelled(k), "rec") = Append(spelled(1), "rec_1")
    BY <1>8, <1>9, <1>13
  <2> QED BY <1>0, <1>4, <1>10, <1>13, <2>1
<1> QED BY <1>7, <1>11, <1>12, <1>13

LEMMA NextStageNamed ==
    ASSUME ImportInv, DeclaredInv, Open, NextStage
    PROVE  DeclaredInv'
<1>1. /\ block \in Blocks /\ RecsWaiting /\ block.stage \in {"types", "ctors"}
      /\ UNCHANGED tables /\ consts' = consts
  BY OpenFacts DEF NextStage, At, Quiet, env
<1>2. PICK s \in {"ctors", "recs"} : block' = [block EXCEPT !.stage = s, !.k = 1]
  BY DEF NextStage, GoTo
<1>3. /\ block'.types = block.types /\ block'.recs = block.recs /\ block'.stage = s
      /\ block.recs = <<>> /\ ToSet(<<>>) = {}
  BY <1>1, <1>2 DEF Blocks, RecsWaiting, ToSet
<1>4. names' = names /\ \A x : Spelling(x)' = Spelling(x)
  BY <1>1, SameSpelling
<1> QED BY <1>1, <1>3, <1>4 DEF DeclaredInv

LEMMA ReconstructNamed ==
    ASSUME ImportInv, DeclaredInv, Open, Reconstruct
    PROVE  DeclaredInv'
<1>1. CASE Fail
  BY <1>1, FailNamed
<1>2. CASE /\ block' = [block EXCEPT !.stage = "compare", !.pending = block.recs]
           /\ UNCHANGED env /\ Quiet
  <2>1. /\ block \in Blocks /\ RecsWaiting /\ block.stage = "recs"
        /\ UNCHANGED tables /\ consts' = consts
    BY <1>2, OpenFacts DEF Reconstruct, At, Quiet, env
  <2>2. /\ block'.types = block.types /\ block'.recs = block.recs
        /\ block'.ordered = block.ordered /\ block'.stage = "compare"
    BY <1>2, <2>1 DEF Blocks
  <2>3. block.ordered = <<>> /\ Len(<<>>) = 0
    BY <2>1, EmptySeq DEF RecsWaiting
  <2>4. names' = names /\ \A x : Spelling(x)' = Spelling(x)
    BY <2>1, SameSpelling
  <2> QED BY <2>1, <2>2, <2>3, <2>4 DEF DeclaredInv
<1> QED BY <1>1, <1>2 DEF Reconstruct

LEMMA CompareNamed ==
    ASSUME ImportInv, DeclaredInv, Open, Compare
    PROVE  DeclaredInv'
<1>1. CASE Fail
  BY <1>1, FailNamed
<1>2. ASSUME NEW p \in DOMAIN block.pending,
             Spelling(block.pending[p].name) = ExpectedName(block.k),
             block' = [block EXCEPT !.k = @ + 1, !.pending = RemoveAt(@, p),
                                    !.ordered = Append(@, block.pending[p])],
             UNCHANGED env, Quiet
      PROVE  DeclaredInv'
  <2> DEFINE r == block.pending[p]
             done == Append(block.ordered, r)
  <2>1. /\ block \in Blocks /\ RecsCompared /\ block.stage = "compare"
        /\ UNCHANGED tables /\ consts' = consts
    BY <1>2, OpenFacts DEF Compare, At, Quiet, env
  <2>2. IsSeq(block.ordered) /\ Len(block.ordered) \in Nat /\ block.k = Len(block.ordered) + 1
    BY <2>1, BlockFacts, SeqFacts DEF RecsCompared
  <2>3. Spelling(r.name) = ExpectedName(block.k)
    BY <1>2
  <2> HIDE DEF r
  <2>4. /\ Len(done) = Len(block.ordered) + 1 /\ done[Len(block.ordered) + 1] = r
        /\ \A n \in 1 .. Len(block.ordered) : done[n] = block.ordered[n]
    BY <2>2, AppendFacts
  <2>5. /\ block'.types = block.types /\ block'.recs = block.recs
        /\ block'.ordered = done /\ block'.stage = "compare"
    BY <1>2, <2>1 DEF Blocks, r
  <2> HIDE DEF done
  <2>6. names' = names /\ \A x : Spelling(x)' = Spelling(x)
    BY <2>1, SameSpelling
  <2>7. \A k : ExpectedName(k)' = ExpectedName(k)
    BY <2>5, <2>6 DEF ExpectedName
  <2>8. \A k \in 1 .. Len(done) : Spelling(done[k].name) = ExpectedName(k)
    <3> TAKE k \in 1 .. Len(done)
    <3>1. CASE k \in 1 .. Len(block.ordered)
      BY <2>1, <2>4, <3>1 DEF DeclaredInv
    <3>2. CASE k = Len(block.ordered) + 1
      BY <2>2, <2>3, <2>4, <3>2
    <3>3. k \in 1 .. Len(block.ordered) \/ k = Len(block.ordered) + 1
      BY <2>2, <2>4
    <3> QED BY <3>1, <3>2, <3>3
  <2> QED BY <2>1, <2>5, <2>6, <2>7, <2>8 DEF DeclaredInv
<1> QED BY <1>1, <1>2 DEF Compare

\* The recursors that enter are the ones compared, whose names are distinct and
\* were new when their records were read.
LEMMA InstallNamed ==
    ASSUME NamedFile, ImportInv, NamesInv, DeclaredInv, Open, Install
    PROVE  DeclaredInv'
<1> DEFINE line == [k \in DOMAIN block.ordered |-> block.ordered[k].name]
<1>1. /\ block \in Blocks /\ RecsCompared /\ block.stage = "compare" /\ block.k > DerivedCount
      /\ UNCHANGED tables /\ block' = [block EXCEPT !.stage = "owners", !.k = 1]
      /\ DOMAIN consts' = DOMAIN consts \cup ToSet(line)
  BY OpenFacts DEF Install, At, Quiet, GoTo
<1>2. /\ IsSeq(block.ordered) /\ DOMAIN block.ordered = 1 .. Len(block.ordered)
      /\ Len(block.ordered) \in Nat /\ Len(block.pending) \in Nat
      /\ \A k \in 1 .. Len(block.ordered) : block.ordered[k] \in ToSet(block.ordered)
      /\ block.ordered \in Seq(Records)
  BY <1>1, BlockFacts, SeqFacts
<1>3. /\ ToSet(line) = { r.name : r \in ToSet(block.ordered) }
  BY <1>2, NamesFacts
<1> HIDE DEF line
<1>4. ToSet(block.ordered) = ToSet(block.recs)
  BY <1>1, AllCompared
<1>5. /\ \A x, y \in DOMAIN consts : Spelling(x) = Spelling(y) => x = y
      /\ \A j, k \in 1 .. Len(block.types) : block.types[j] = block.types[k] => j = k
      /\ \A r \in ToSet(block.recs) : \A i \in DOMAIN consts : Spelling(r.name) # Spelling(i)
      /\ \A k \in 1 .. Len(block.ordered) : Spelling(block.ordered[k].name) = ExpectedName(k)
      /\ DOMAIN consts \subseteq 1 .. Len(NameLines) /\ Len(names) = Len(NameLines) + 1
  BY <1>1 DEF DeclaredInv
<1>6. names' = names /\ \A x : Spelling(x)' = Spelling(x)
  BY <1>1, SameSpelling
<1>7. ASSUME NEW x \in ToSet(line), NEW y \in ToSet(line), Spelling(x) = Spelling(y)
      PROVE  x = y
  <2>1. PICK j \in 1 .. Len(block.ordered) : block.ordered[j].name = x
    BY <1>2, <1>3 DEF ToSet
  <2>2. PICK k \in 1 .. Len(block.ordered) : block.ordered[k].name = y
    BY <1>2, <1>3 DEF ToSet
  <2>3. ExpectedName(j) = ExpectedName(k)
    BY <1>5, <1>7, <2>1, <2>2
  <2>4. j \in 1 .. DerivedCount /\ k \in 1 .. DerivedCount
    <3>1. Len(block.pending) + Len(block.ordered) = DerivedCount
      BY <1>1 DEF RecsCompared
    <3>2. \A a, b \in Nat : 1 .. b \subseteq 1 .. a + b
      OBVIOUS
    <3>3. 1 .. Len(block.ordered) \subseteq 1 .. DerivedCount
      BY <1>2, <3>1, <3>2
    <3> QED BY <3>3
  <2>5. block.types # <<>>
    BY <1>1 DEF RecsCompared
  <2>6. j = k
    BY <2>3, <2>4, <2>5, ExpectedDistinct
  <2> QED BY <2>1, <2>2, <2>6
<1>8. \A x \in ToSet(line) : \A i \in DOMAIN consts : Spelling(x) # Spelling(i)
  BY <1>3, <1>4, <1>5
<1>9. \A x, y \in DOMAIN consts' : Spelling(x)' = Spelling(y)' => x = y
  BY <1>1, <1>5, <1>6, <1>7, <1>8
<1>10. DOMAIN consts' \subseteq 1 .. Len(NameLines)
  <2>1. \A k \in 1 .. Len(block.ordered) : block.ordered[k] \in Records
    BY <1>2, ElementOfSeq
  <2>2. ToSet(line) \subseteq RecIds
    BY <1>2, <1>3, <2>1 DEF Records, ToSet
  <2> QED BY <1>1, <1>5, <2>2 DEF NamedFile
<1>11. block'.types = block.types /\ block'.stage = "owners"
  BY <1>1 DEF Blocks
<1> QED BY <1>5, <1>6, <1>9, <1>10, <1>11 DEF DeclaredInv

\* Past the recursors the constants stay.
LEMMA LaterNamed ==
    ASSUME DeclaredInv, Open, UNCHANGED tables, consts' = consts,
           Open' => block'.types = block.types /\ block'.stage \in {"owners", "check"}
    PROVE  DeclaredInv'
<1>1. names' = names /\ \A x : Spelling(x)' = Spelling(x)
  BY SameSpelling
<1> QED BY <1>1 DEF DeclaredInv

LEMMA OwnNamed ==
    ASSUME ImportInv, DeclaredInv, Open, Own \/ Group \/ Commit
    PROVE  DeclaredInv'
<1>1. CASE Fail
  BY <1>1, FailNamed
<1>2. block \in Blocks
  BY OpenFacts
<1>3. CASE Own /\ ~Fail
  <2>1. UNCHANGED tables /\ consts' = consts /\ block.stage = "owners"
    BY <1>3 DEF Own, Quiet, At
  <2>2. \E s : block' = [block EXCEPT !.k = @ + 1, !.seen = s]
    BY <1>3 DEF Own
  <2>3. block'.types = block.types /\ block'.stage = "owners"
    BY <1>2, <2>1, <2>2 DEF Blocks
  <2> QED BY <2>1, <2>3, LaterNamed
<1>4. CASE Group /\ ~Fail
  <2>1. UNCHANGED tables /\ consts' = consts /\ block' = [block EXCEPT !.stage = "check", !.k = 1]
    BY <1>4 DEF Group, GoTo, Quiet
  <2>2. block'.types = block.types /\ block'.stage = "check"
    BY <1>2, <2>1 DEF Blocks
  <2> QED BY <2>1, <2>2, LaterNamed
<1>5. CASE Commit /\ ~Fail
  <2>1. UNCHANGED tables /\ consts' = consts /\ ~Open'
    BY <1>5 DEF Commit, Quiet, env, Open
  <2> QED BY <2>1, LaterNamed
<1> QED BY <1>1, <1>3, <1>4, <1>5

\* Whoever does not read a name leaves the names as they are.
LEMMA SameNames ==
    ASSUME NamesInv, UNCHANGED tables
    PROVE  NamesInv'
<1>1. names' = names /\ byStr' = byStr /\ dups' = dups
  BY DEF tables
<1>2. \A s : Spelled(s)' = Spelled(s)
  BY <1>1 DEF Spelled
<1> QED BY <1>1, <1>2 DEF NamesInv

\* No constant is there while names are read.
LEMMA NameLineNamed ==
    ASSUME DeclaredInv, NameLine
    PROVE  DeclaredInv'
<1>1. /\ ~Open /\ ~Open' /\ consts' = consts /\ Len(names) <= Len(NameLines)
  BY DEF NameLine, Open, env
<1>2. Len(NameLines) \in Nat
  BY ImportAssumption, LenProperties
<1>3. DOMAIN consts = {}
  <2>1. Len(names) # Len(NameLines) + 1
    BY <1>1, <1>2
  <2> QED BY <2>1 DEF DeclaredInv
<1> QED BY <1>1, <1>3 DEF DeclaredInv

\* Only NameLine touches the names.
LEMMA TablesStay ==
    ASSUME [ImportNext]_importVars
    PROVE  NameLine \/ UNCHANGED tables
<1>1. Fail => UNCHANGED tables
  BY DEF Fail
<1>2. Quiet => UNCHANGED tables
  BY DEF Quiet
<1>3. \A i : Declaration(i) => UNCHANGED tables
  BY DEF Declaration
<1>4. BeginBlock => UNCHANGED tables
  BY DEF BeginBlock
<1>5. \A i, l : TypeRecord(i, l) => UNCHANGED tables
  BY <1>1, <1>2 DEF TypeRecord
<1>6. \A i, t, c, concl : CtorRecord(i, t, c, concl) => UNCHANGED tables
  BY <1>1, <1>2 DEF CtorRecord
<1>7. \A i, all, rules : RecRecord(i, all, rules) => UNCHANGED tables
  BY <1>1, <1>2 DEF RecRecord
<1>8. NextStage \/ Reconstruct => UNCHANGED tables
  BY <1>1, <1>2 DEF NextStage, Reconstruct
<1>9. Compare \/ Install => UNCHANGED tables
  BY <1>1, <1>2 DEF Compare, Install
<1>10. Own \/ Group \/ Commit => UNCHANGED tables
  BY <1>1, <1>2 DEF Own, Group, Commit
<1>11. UNCHANGED importVars => UNCHANGED tables
  BY DEF importVars, tables
<1> QED BY <1>3, <1>4, <1>5, <1>6, <1>7, <1>8, <1>9, <1>10, <1>11 DEF ImportNext

LEMMA InitNamed == ImportInit => NamesInv /\ DeclaredInv
<1> SUFFICES ASSUME ImportInit PROVE NamesInv /\ DeclaredInv
  OBVIOUS
<1>1. /\ names = <<Anonymous>> /\ byStr = <<>> /\ dups = <<>> /\ consts = <<>> /\ ~Open
  BY DEF ImportInit, Open
<1>2. Len(NameLines) \in Nat
  BY ImportAssumption, LenProperties
<1>3. DOMAIN <<>> = {} /\ IsFun(<<>>)
  BY DEF IsFun
<1>4. Anonymous \in Seq(STRING)
  BY EmptySeq DEF Anonymous
<1>5. names \in Seq(Seq(STRING)) /\ Len(names) = 1
  <2> DEFINE S == Seq(STRING)
  <2>1. Anonymous \in S
    BY <1>4
  <2> HIDE DEF S
  <2>2. names \in Seq(S) /\ Len(names) = 1
    BY <1>1, <2>1
  <2> QED BY <2>2 DEF S
<1>6. Len(names) \in 1 .. Len(NameLines) + 1 /\ 1 .. Len(names) - 1 = {}
  BY <1>2, <1>5
<1>7. NamesInv
  BY <1>1, <1>3, <1>5, <1>6 DEF NamesInv
<1>8. DeclaredInv
  BY <1>1, <1>3 DEF DeclaredInv
<1> QED BY <1>7, <1>8

\* The names and the declarations of a file that names what it declares.
LEMMA NextNamed ==
    ASSUME NamedFile, ImportInv, NamesInv, DeclaredInv, [ImportNext]_importVars
    PROVE  NamesInv' /\ DeclaredInv'
<1>0. NamesInv'
  BY TablesStay, SameNames, NameLineKeeps
<1>1. CASE UNCHANGED importVars
  <2>1. UNCHANGED tables /\ consts' = consts /\ block' = block
    BY <1>1 DEF importVars, tables
  <2>2. names' = names /\ \A x : Spelling(x)' = Spelling(x)
    BY <2>1, SameSpelling
  <2>3. \A k : ExpectedName(k)' = ExpectedName(k)
    BY <2>1, <2>2 DEF ExpectedName
  <2>4. Open' = Open
    BY <2>1 DEF Open
  <2>5. DeclaredInv'
    BY <2>1, <2>2, <2>3, <2>4 DEF DeclaredInv
  <2> QED BY <1>0, <2>5
<1>2. CASE NameLine
  BY <1>0, <1>2, NameLineNamed
<1>3. ASSUME NEW i \in AxiomIds, Declaration(i)
      PROVE  DeclaredInv'
  BY <1>3, DeclarationNamed
<1>4. CASE BeginBlock
  BY <1>0, <1>4, BeginNamed
<1>5. ASSUME Open, NEW i \in TypeIds, NEW l \in CtorLists, TypeRecord(i, l)
      PROVE  DeclaredInv'
  BY <1>5, TypeNamed
<1>6. ASSUME Open, NEW i \in CtorIds, NEW t \in TypeIds, NEW c \in 1 .. MaxCtors,
             NEW concl \in ToSet(block.types), CtorRecord(i, t, c, concl)
      PROVE  DeclaredInv'
  BY <1>6, CtorNamed
<1>7. ASSUME Open, NEW i \in RecIds, NEW all \in {<<>>, block.types}, NEW rules \in CtorLists,
             RecRecord(i, all, rules)
      PROVE  DeclaredInv'
  BY <1>7, RecNamed
<1>8. CASE Open /\ NextStage
  BY <1>0, <1>8, NextStageNamed
<1>9. CASE Open /\ Reconstruct
  BY <1>0, <1>9, ReconstructNamed
<1>10. CASE Open /\ Compare
  BY <1>0, <1>10, CompareNamed
<1>11. CASE Open /\ Install
  BY <1>0, <1>11, InstallNamed
<1>12. CASE Open /\ (Own \/ Group \/ Commit)
  BY <1>0, <1>12, OwnNamed
<1> QED BY <1>0, <1>1, <1>2, <1>3, <1>4, <1>5, <1>6, <1>7, <1>8, <1>9, <1>10, <1>11, <1>12
        DEF ImportNext, Open

\* In a file that names what it declares, the environment never holds two
\* constants of one name, in the middle of a block as between blocks, and the
\* lookup by name finds the constant whichever of the name's indices was
\* declared (reject_if_dup, declared).
THEOREM OneName == ASSUME NamedFile PROVE ImportSpec => []OneConstantPerName
<1>1. ImportInit => ImportInv /\ NamesInv /\ DeclaredInv
  BY InitHolds, InitNamed
<1>2. ImportInv /\ NamesInv /\ DeclaredInv /\ [ImportNext]_importVars
      => ImportInv' /\ NamesInv' /\ DeclaredInv'
  BY NextHolds, NextNamed
<1>3. ImportInv /\ NamesInv /\ DeclaredInv => OneConstantPerName
  <2> SUFFICES ASSUME NamesInv, DeclaredInv PROVE OneConstantPerName
    OBVIOUS
  <2>1. \A i, j \in DOMAIN consts : Spelling(i) = Spelling(j) => i = j
    BY DEF DeclaredInv
  <2> QED BY <2>1, DeclaredFacts DEF OneConstantPerName
<1> QED BY <1>1, <1>2, <1>3, PTL DEF ImportSpec

-----------------------------------------------------------------------------
(* The type invariant                                                      *)

\* What is in the environment is a constant, and stands under an index its
\* kind of record uses.
ConstantsTyped ==
    \A i \in DOMAIN consts :
        /\ consts[i] \in Constants
        /\ consts[i].kind = "type" => i \in TypeIds
        /\ consts[i].kind = "rec" => i \in RecIds

OwnersTyped == DOMAIN recOf \subseteq TypeIds /\ DOMAIN recGroup \subseteq RecIds

\* A spelling is among the respelled ones once it has several indices.
DupsTyped == \A s \in DOMAIN dups : Len(dups[s]) > 1

RunTyped == outcome \in {"running", "rejected"} /\ decls \in Nat /\ decls <= MaxDecls

TypedInv == ConstantsTyped /\ OwnersTyped /\ DupsTyped /\ RunTyped

\* The kinds of constants.
LEMMA KindsDiffer ==
    /\ \A c \in Constants : c.kind \in {"axiom", "type", "ctor", "rec"}
    /\ [kind |-> "axiom"] \in Constants /\ [kind |-> "axiom"].kind = "axiom"
  BY DEF Constants

\* Failing keeps a part of what was there.
LEMMA FailTyped ==
    ASSUME ImportInv, TypedInv, Open, Fail
    PROVE  TypedInv'
<1>1. /\ consts' = OldConsts /\ recOf' = OldOwners /\ recGroup' = OldGroups
      /\ outcome' = "rejected" /\ decls' = decls /\ dups' = dups
  BY DEF Fail, Rollback, OldConsts, OldOwners, OldGroups, tables
<1>2. Added /\ Whole(OldConsts, OldOwners, OldGroups)
  BY OpenFacts DEF ImportInv, WholeInside
<1>3. \A i \in DOMAIN OldConsts : i \in DOMAIN consts /\ OldConsts[i] = consts[i]
  BY <1>2 DEF Added
<1>4. ConstantsTyped'
  BY <1>1, <1>3 DEF TypedInv, ConstantsTyped
<1>5. DOMAIN OldOwners = TypesOf(OldConsts) /\ DOMAIN OldGroups = RecsOf(OldConsts)
  BY <1>2 DEF Whole
<1>6. /\ TypesOf(OldConsts) \subseteq TypeIds
      /\ RecsOf(OldConsts) \subseteq RecIds
  BY <1>3 DEF TypedInv, ConstantsTyped, TypesOf, RecsOf
<1>7. OwnersTyped'
  BY <1>1, <1>5, <1>6 DEF OwnersTyped
<1>8. DupsTyped' /\ RunTyped'
  BY <1>1 DEF TypedInv, DupsTyped, RunTyped
<1> QED BY <1>4, <1>7, <1>8 DEF TypedInv

\* A step in a block that reads no name and does not fail.
LEMMA QuietTyped ==
    ASSUME TypedInv, Quiet
    PROVE  DupsTyped' /\ RunTyped'
<1>1. dups' = dups /\ decls' = decls /\ outcome' = outcome
  BY DEF Quiet, tables
<1> QED BY <1>1 DEF TypedInv, DupsTyped, RunTyped

LEMMA EnvTyped ==
    ASSUME TypedInv, UNCHANGED env
    PROVE  ConstantsTyped' /\ OwnersTyped'
<1>1. consts' = consts /\ recOf' = recOf /\ recGroup' = recGroup
  BY DEF env
<1> QED BY <1>1 DEF TypedInv, ConstantsTyped, OwnersTyped

\* One more constant, under an index of its kind.
LEMMA PutTyped ==
    ASSUME TypedInv, NEW i, NEW c \in Constants, consts' = Put(consts, i, c),
           c.kind = "type" => i \in TypeIds, c.kind = "rec" => i \in RecIds
    PROVE  ConstantsTyped'
<1>1. /\ DOMAIN consts' = DOMAIN consts \cup {i} /\ consts'[i] = c
      /\ \A x \in DOMAIN consts : x # i => consts'[x] = consts[x]
  BY DEF Put
<1> QED BY <1>1 DEF TypedInv, ConstantsTyped

LEMMA NameLineTyped ==
    ASSUME NamesInv, TypedInv, NameLine
    PROVE  TypedInv'
<1>1. PICK s \in Seq(STRING), i \in 1 .. Len(NameLines) :
         names' = Append(names, s) /\ dups' = Respelled(s, i)
  BY LineFacts
<1>2. ConstantsTyped' /\ OwnersTyped' /\ RunTyped'
  BY EnvTyped DEF NameLine, TypedInv, RunTyped
<1>3. CASE s \in DOMAIN byStr /\ byStr[s] # i
  <2> DEFINE old == IF s \in DOMAIN dups THEN dups[s] ELSE <<byStr[s]>>
             new == Append(old, i)
  <2>1. dups' = Put(dups, s, new)
    BY <1>1, <1>3 DEF Respelled
  <2>2. IsSeq(old) /\ Len(old) >= 1 /\ Len(old) \in Nat
    <3>1. CASE s \in DOMAIN dups
      <4>1. IsSeq(dups[s]) /\ Len(dups[s]) > 1
        BY <3>1 DEF NamesInv, TypedInv, DupsTyped
      <4>2. Len(dups[s]) \in Nat
        BY <4>1, SeqFacts
      <4> QED BY <3>1, <4>1, <4>2
    <3>2. CASE s \notin DOMAIN dups
      <4> DEFINE one == byStr[s]
      <4>1. old = <<one>>
        BY <3>2
      <4> HIDE DEF one, old
      <4>2. <<one>> \in Seq({one}) /\ Len(<<one>>) = 1
        OBVIOUS
      <4>3. IsSeq(<<one>>)
        BY <4>2, SeqIsSeq
      <4> QED BY <4>1, <4>2, <4>3
    <3> QED BY <3>1, <3>2
  <2> HIDE DEF old
  <2>3. Len(new) = Len(old) + 1
    BY <2>2, AppendFacts
  <2> HIDE DEF new
  <2>4. Len(new) > 1
    BY <2>2, <2>3
  <2>5. DupsTyped'
    <3>1. /\ DOMAIN dups' = DOMAIN dups \cup {s} /\ dups'[s] = new
          /\ \A t \in DOMAIN dups : t # s => dups'[t] = dups[t]
      BY <2>1 DEF Put
    <3> QED BY <2>4, <3>1 DEF TypedInv, DupsTyped
  <2> QED BY <1>2, <2>5 DEF TypedInv
<1>4. CASE ~(s \in DOMAIN byStr /\ byStr[s] # i)
  <2>1. dups' = dups
    BY <1>1, <1>4 DEF Respelled
  <2>2. DupsTyped'
    BY <2>1 DEF TypedInv, DupsTyped
  <2> QED BY <1>2, <2>2 DEF TypedInv
<1> QED BY <1>3, <1>4

LEMMA DeclarationTyped ==
    ASSUME TypedInv, NEW i \in AxiomIds, Declaration(i)
    PROVE  TypedInv'
<1>1. /\ decls' = decls + 1 /\ decls < MaxDecls /\ dups' = dups
      /\ recOf' = recOf /\ recGroup' = recGroup /\ outcome' \in {"running", "rejected"}
      /\ consts' = Put(consts, i, [kind |-> "axiom"]) \/ consts' = consts
  BY DEF Declaration, Running, tables
<1>2. ConstantsTyped'
  <2>1. CASE consts' = consts
    BY <2>1 DEF TypedInv, ConstantsTyped
  <2>2. CASE consts' = Put(consts, i, [kind |-> "axiom"])
    <3> DEFINE c == [kind |-> "axiom"]
    <3>1. c \in Constants /\ c.kind # "type" /\ c.kind # "rec"
      BY KindsDiffer
    <3> HIDE DEF c
    <3>2. consts' = Put(consts, i, c)
      BY <2>2 DEF c
    <3> QED BY <3>1, <3>2, PutTyped
  <2> QED BY <1>1, <2>1, <2>2
<1>3. OwnersTyped' /\ DupsTyped'
  BY <1>1 DEF TypedInv, OwnersTyped, DupsTyped
<1>4. RunTyped'
  BY <1>1, ImportAssumption DEF TypedInv, RunTyped
<1> QED BY <1>2, <1>3, <1>4 DEF TypedInv

LEMMA BeginTyped ==
    ASSUME TypedInv, BeginBlock
    PROVE  TypedInv'
<1>1. decls' = decls + 1 /\ decls < MaxDecls /\ dups' = dups /\ outcome' = outcome
  BY DEF BeginBlock, Running, tables
<1>2. DupsTyped' /\ RunTyped'
  BY <1>1, ImportAssumption DEF TypedInv, DupsTyped, RunTyped
<1>3. ConstantsTyped' /\ OwnersTyped'
  BY EnvTyped DEF BeginBlock
<1> QED BY <1>2, <1>3 DEF TypedInv

LEMMA TypeTyped ==
    ASSUME ImportInv, TypedInv, Open, NEW i \in TypeIds, NEW l \in CtorLists, TypeRecord(i, l)
    PROVE  TypedInv'
<1>1. CASE Fail
  BY <1>1, FailTyped
<1>2. CASE ~Fail
  <2> DEFINE c == [kind |-> "type", ctors |-> l]
  <2>1. consts' = Put(consts, i, c) /\ recOf' = recOf /\ recGroup' = recGroup /\ Quiet
    BY <1>2 DEF TypeRecord, InsertConstant
  <2>2. c \in Constants /\ c.kind = "type"
    BY DEF Constants
  <2> HIDE DEF c
  <2>3. ConstantsTyped'
    BY <2>1, <2>2, PutTyped
  <2>4. OwnersTyped'
    BY <2>1 DEF TypedInv, OwnersTyped
  <2> QED BY <2>1, <2>3, <2>4, QuietTyped DEF TypedInv
<1> QED BY <1>1, <1>2

LEMMA CtorTyped ==
    ASSUME ImportInv, TypedInv, Open, NEW i \in CtorIds, NEW t \in TypeIds,
           NEW n \in 1 .. MaxCtors, NEW concl \in ToSet(block.types), CtorRecord(i, t, n, concl)
    PROVE  TypedInv'
<1>1. CASE Fail
  BY <1>1, FailTyped
<1>2. CASE ~Fail
  <2> DEFINE c == [kind |-> "ctor", induct |-> t, cidx |-> n, concl |-> concl]
  <2>1. consts' = Put(consts, i, c) /\ recOf' = recOf /\ recGroup' = recGroup /\ Quiet
    BY <1>2 DEF CtorRecord, InsertConstant
  <2>2. concl \in TypeIds
    <3>1. block.types \in Seq(TypeIds) /\ IsSeq(block.types)
      BY OpenFacts, BlockFacts
    <3>2. \A k \in 1 .. Len(block.types) : block.types[k] \in TypeIds
      BY <3>1, ElementOfSeq
    <3> QED BY <3>1, <3>2, SeqFacts
  <2>3. c \in Constants /\ c.kind = "ctor"
    BY <2>2 DEF Constants
  <2> HIDE DEF c
  <2>4. ConstantsTyped'
    BY <2>1, <2>3, PutTyped
  <2>5. OwnersTyped'
    BY <2>1 DEF TypedInv, OwnersTyped
  <2> QED BY <2>1, <2>4, <2>5, QuietTyped DEF TypedInv
<1> QED BY <1>1, <1>2

\* Every element of a record's sequence is a record.
LEMMA RecordsAre ==
    ASSUME block \in Blocks
    PROVE  /\ \A r \in ToSet(block.recs) \cup ToSet(block.ordered) :
                 r \in Records /\ r.name \in RecIds /\ r.rules \in CtorLists
           /\ ToSet(block.types) \subseteq TypeIds
<1>1. /\ block.types \in Seq(TypeIds) /\ block.recs \in Seq(Records) /\ block.ordered \in Seq(Records)
      /\ IsSeq(block.types) /\ IsSeq(block.recs) /\ IsSeq(block.ordered)
  BY BlockFacts
<1>2. \A r \in ToSet(block.recs) : r \in Records
  <2>1. \A k \in 1 .. Len(block.recs) : block.recs[k] \in Records
    BY <1>1, ElementOfSeq
  <2> QED BY <1>1, <2>1, SeqFacts
<1>3. \A r \in ToSet(block.ordered) : r \in Records
  <2>1. \A k \in 1 .. Len(block.ordered) : block.ordered[k] \in Records
    BY <1>1, ElementOfSeq
  <2> QED BY <1>1, <2>1, SeqFacts
<1>4. ToSet(block.types) \subseteq TypeIds
  <2>1. \A k \in 1 .. Len(block.types) : block.types[k] \in TypeIds
    BY <1>1, ElementOfSeq
  <2> QED BY <1>1, <2>1, SeqFacts
<1>5. \A r \in Records : r.name \in RecIds /\ r.rules \in CtorLists
  BY DEF Records
<1> QED BY <1>2, <1>3, <1>4, <1>5

LEMMA InstallTyped ==
    ASSUME ImportInv, TypedInv, Open, Install
    PROVE  TypedInv'
<1> DEFINE recs == block.ordered
           line == [k \in DOMAIN recs |-> recs[k].name]
           at(i) == CHOOSE k \in DOMAIN recs : line[k] = i
<1>1. block \in Blocks
  BY OpenFacts
<1>2. /\ consts' = [i \in DOMAIN consts \cup ToSet(line) |->
                       IF i \in ToSet(line)
                       THEN [kind |-> "rec", all |-> block.types, rules |-> recs[at(i)].rules]
                       ELSE consts[i]]
      /\ recOf' = recOf /\ recGroup' = recGroup /\ Quiet
  BY DEF Install
<1>3. ASSUME NEW i \in ToSet(line)
      PROVE  /\ consts'[i] \in Constants /\ consts'[i].kind = "rec" /\ i \in RecIds
  <2>1. PICK k \in DOMAIN recs : line[k] = i
    BY <1>3 DEF ToSet
  <2>2. at(i) \in DOMAIN recs /\ line[at(i)] = i
    BY <2>1
  <2> DEFINE a == at(i)
  <2>3. a \in DOMAIN recs /\ line[a] = i
    BY <2>2
  <2>4. consts'[i] = [kind |-> "rec", all |-> block.types, rules |-> recs[a].rules]
    BY <1>2, <1>3
  <2> HIDE DEF a
  <2>5. recs[a] \in ToSet(block.ordered) /\ recs[a].name = i
    BY <2>3 DEF ToSet
  <2>6. recs[a].name \in RecIds /\ recs[a].rules \in CtorLists /\ block.types \in Seq(TypeIds)
    BY <1>1, <2>5, RecordsAre, BlockFacts
  <2> QED BY <2>4, <2>5, <2>6 DEF Constants
<1>4. \A i \in DOMAIN consts' : i \notin ToSet(line) => i \in DOMAIN consts /\ consts'[i] = consts[i]
  BY <1>2
<1>5. ConstantsTyped'
  <2> HIDE DEF line
  <2> QED BY <1>3, <1>4 DEF TypedInv, ConstantsTyped
<1>6. OwnersTyped'
  BY <1>2 DEF TypedInv, OwnersTyped
<1> QED BY <1>2, <1>5, <1>6, QuietTyped DEF TypedInv

LEMMA OwnTyped ==
    ASSUME ImportInv, TypedInv, Open, Own
    PROVE  TypedInv'
<1>1. CASE Fail
  BY <1>1, FailTyped
<1>2. CASE ~Fail
  <2> DEFINE r == block.recs[block.k]
             owners == Claimed(r)
  <2>1. /\ recOf' = [t \in DOMAIN recOf \cup owners |-> IF t \in owners THEN r.name ELSE recOf[t]]
        /\ consts' = consts /\ recGroup' = recGroup /\ Quiet
    BY <1>2 DEF Own
  <2>2. owners \subseteq TypeIds
    <3>1. ToSet(block.types) \subseteq TypeIds
      BY OpenFacts, RecordsAre
    <3> HIDE DEF r
    <3> QED BY <3>1, ClaimedFacts
  <2> HIDE DEF owners, r
  <2>3. OwnersTyped'
    BY <2>1, <2>2 DEF TypedInv, OwnersTyped
  <2>4. ConstantsTyped'
    BY <2>1 DEF TypedInv, ConstantsTyped
  <2> QED BY <2>1, <2>3, <2>4, QuietTyped DEF TypedInv
<1> QED BY <1>1, <1>2

LEMMA GroupTyped ==
    ASSUME ImportInv, TypedInv, Open, Group
    PROVE  TypedInv'
<1>1. CASE Fail
  BY <1>1, FailTyped
<1>2. CASE ~Fail
  <2> DEFINE recs == [j \in DOMAIN block.recs |-> block.recs[j].name]
  <2>1. /\ recGroup' = [i \in DOMAIN recGroup \cup ToSet(recs) |->
                           IF i \in ToSet(recs) THEN SortedGroup(recs) ELSE recGroup[i]]
        /\ consts' = consts /\ recOf' = recOf /\ Quiet
    BY <1>2 DEF Group
  <2>2. ToSet(recs) \subseteq RecIds
    <3>1. \A j \in DOMAIN block.recs : block.recs[j].name \in RecIds
      BY OpenFacts, RecordsAre DEF ToSet
    <3> QED BY <3>1 DEF ToSet
  <2> HIDE DEF recs
  <2>3. OwnersTyped'
    BY <2>1, <2>2 DEF TypedInv, OwnersTyped
  <2>4. ConstantsTyped'
    BY <2>1 DEF TypedInv, ConstantsTyped
  <2> QED BY <2>1, <2>3, <2>4, QuietTyped DEF TypedInv
<1> QED BY <1>1, <1>2

LEMMA TypedNext ==
    ASSUME ImportInv, NamesInv, TypedInv, [ImportNext]_importVars
    PROVE  TypedInv'
<1>1. CASE UNCHANGED importVars
  <2>1. UNCHANGED env /\ Quiet
    BY <1>1 DEF importVars, env, Quiet, tables
  <2> QED BY <2>1, EnvTyped, QuietTyped DEF TypedInv
<1>2. CASE NameLine
  BY <1>2, NameLineTyped
<1>3. ASSUME NEW i \in AxiomIds, Declaration(i)
      PROVE  TypedInv'
  BY <1>3, DeclarationTyped
<1>4. CASE BeginBlock
  BY <1>4, BeginTyped
<1>5. ASSUME Open, NEW i \in TypeIds, NEW l \in CtorLists, TypeRecord(i, l)
      PROVE  TypedInv'
  BY <1>5, TypeTyped
<1>6. ASSUME Open, NEW i \in CtorIds, NEW t \in TypeIds, NEW c \in 1 .. MaxCtors,
             NEW concl \in ToSet(block.types), CtorRecord(i, t, c, concl)
      PROVE  TypedInv'
  BY <1>6, CtorTyped
<1>7. CASE Open /\ Fail
  BY <1>7, FailTyped
<1>8. CASE Open /\ UNCHANGED env /\ Quiet
  BY <1>8, EnvTyped, QuietTyped DEF TypedInv
<1>9. ASSUME Open, NEW i \in RecIds, NEW all \in {<<>>, block.types}, NEW rules \in CtorLists,
             RecRecord(i, all, rules)
      PROVE  TypedInv'
  BY <1>7, <1>8, <1>9 DEF RecRecord
<1>10. CASE Open /\ (NextStage \/ Reconstruct \/ Compare \/ Commit)
  BY <1>7, <1>8, <1>10 DEF NextStage, Reconstruct, Compare, Commit
<1>11. CASE Open /\ Install
  BY <1>11, InstallTyped
<1>12. CASE Open /\ Own
  BY <1>12, OwnTyped
<1>13. CASE Open /\ Group
  BY <1>13, GroupTyped
<1> QED BY <1>1, <1>2, <1>3, <1>4, <1>5, <1>6, <1>9, <1>10, <1>11, <1>12, <1>13
        DEF ImportNext, Open

\* For every export the environment holds constants under the indices their
\* records use, the ownership maps are about inductives and recursors, a
\* spelling is listed as respelled only once it has several indices, and no
\* journal outlives its block (handle_name, handle_inductive_block).
THEOREM ImportTyped == ImportSpec => []ImportTypeOK
<1>1. ImportInit => ImportInv /\ NamesInv /\ TypedInv
  <2>1. ImportInit => TypedInv
    <3> SUFFICES ASSUME ImportInit PROVE TypedInv
      OBVIOUS
    <3>1. /\ dups = <<>> /\ consts = <<>> /\ recOf = <<>> /\ recGroup = <<>>
          /\ decls = 0 /\ outcome = "running"
      BY DEF ImportInit
    <3>2. DOMAIN <<>> = {}
      OBVIOUS
    <3> QED BY <3>1, <3>2, ImportAssumption
            DEF TypedInv, ConstantsTyped, OwnersTyped, DupsTyped, RunTyped
  <2> QED BY <2>1, InitHolds, InitNamed
<1>2. ImportInv /\ NamesInv /\ TypedInv /\ [ImportNext]_importVars
      => ImportInv' /\ NamesInv' /\ TypedInv'
  BY NextHolds, TablesStay, SameNames, NameLineKeeps, TypedNext
<1>3. ImportInv /\ NamesInv /\ TypedInv => ImportTypeOK
  <2> SUFFICES ASSUME ImportInv, NamesInv, TypedInv PROVE ImportTypeOK
    OBVIOUS
  <2>1. Len(names) <= Len(NameLines) + 1 /\ DOMAIN dups \subseteq DOMAIN byStr
    <3>1. Len(NameLines) \in Nat
      BY ImportAssumption, LenProperties
    <3> QED BY <3>1 DEF NamesInv
  <2>2. block = NoBlock => journal = <<>>
    BY DEF ImportInv, Open
  <2> QED BY <2>1, <2>2
          DEF TypedInv, ConstantsTyped, OwnersTyped, DupsTyped, RunTyped, ImportTypeOK
<1> QED BY <1>1, <1>2, <1>3, PTL DEF ImportSpec

=============================================================================
