--------------------------- MODULE ExpressionProofs --------------------------
(***************************************************************************)
(* Proofs about expressions.                                               *)
(*                                                                         *)
(* The first part is about `Interner`, for any hash, any kinds of node and *)
(* tables of any size: identity of live nodes is equality, and no memo is  *)
(* read for another expression or another key than it was made for.        *)
(* Three things are kept by every step.  A part is older than its whole,   *)
(* so what a node stands for never changes.  A node made since the table   *)
(* was last dropped is still found under its hash, whatever entries have   *)
(* died and been swept.  And what the memos were asked about was allocated *)
(* before, under an identity no later node gets.                           *)
(* The nodes allocated are those alive from the roots, and the table is    *)
(* swept in time.                                                          *)
(*                                                                         *)
(* The second part is about `Terms` and `Substitution`, for terms of any   *)
(* height: the summaries of the free indices are exact, and shifting,      *)
(* instantiating and substituting levels mean what they should.  The       *)
(* functions of `Terms` recurse over terms, so each is first shown to      *)
(* satisfy its equation; what follows is by induction over the subterms.   *)
(*                                                                         *)
(* The third part is about `ContextKeys`, for any types and queries: the   *)
(* binders a key is chained over are the least set that is closed under    *)
(* what types mention, or the whole context; no two such chains are equal; *)
(* and what a term means in a context is fixed by that set.                *)
(***************************************************************************)
EXTENDS Interner, Substitution, ContextKeys, LeastNumber, SequenceTheorems, FiniteSetTheorems

\* Every part of a node is an older node.
PartsOlder(ns) ==
    \A i \in DOMAIN ns :
        /\ ns[i] = Node(ns[i].op, ns[i].kids)
        /\ ns[i].kids = [k \in DOMAIN ns[i].kids |-> ns[i].kids[k]]
        /\ \A k \in DOMAIN ns[i].kids :
              ns[i].kids[k] \in DOMAIN ns /\ ns[i].kids[k] < i

\* A lookup finds the node under its hash.
Tabled(ns, pr, ov, i) ==
    LET h == HashOf(ns[i])
    IN  \/ h \in DOMAIN pr /\ pr[h] = i
        \/ h \in DOMAIN ov /\ \E k \in DOMAIN ov[h] : ov[h][k] = i

CountersInv ==
    /\ weak \in BOOLEAN
    /\ nextId \in 1 .. (MaxNodes + 1)
    /\ base \in 1 .. nextId
    /\ DOMAIN nodes \subseteq 1 .. (nextId - 1)
    /\ held \subseteq DOMAIN nodes

TableInv ==
    /\ \A h \in DOMAIN overflow : overflow[h] \in Seq(Nat)
    /\ \A i \in DOMAIN nodes : i >= base => Tabled(nodes, primary, overflow, i)

MemoInv ==
    /\ numbers \in Seq(Extras)
    /\ \A key \in DOMAIN numbered : key[1] \in 1 .. (nextId - 1)
    /\ DOMAIN iotaMemo \subseteq 1 .. (nextId - 1)

InternInv ==
    /\ CountersInv
    /\ PartsOlder(nodes)
    /\ TableInv
    /\ SameDataSameNode
    /\ MemoInv
    /\ MemosFit

-----------------------------------------------------------------------------
(* What is alive, and the expression a node stands for.                    *)

\* What is alive is allocated, holds the roots, holds the parts of what it
\* holds, and nothing else.
LEMMA AliveFacts ==
    ASSUME NEW ns, DOMAIN ns \subseteq 1 .. MaxNodes, NEW roots
    PROVE  /\ AliveFrom(ns, roots) \subseteq DOMAIN ns
           /\ \A i \in DOMAIN ns : i \in roots => i \in AliveFrom(ns, roots)
           /\ \A p \in AliveFrom(ns, roots), c \in DOMAIN ns :
                 c < p /\ HasChild(ns, p, c) => c \in AliveFrom(ns, roots)
           /\ \A i \in AliveFrom(ns, roots) :
                 \/ i \in roots
                 \/ \E p \in AliveFrom(ns, roots) : i < p /\ HasChild(ns, p, i)
<1> DEFINE D == 1 .. MaxNodes
           Held(f, i) == \/ i \in roots
                         \/ \E p \in (i + 1) .. MaxNodes :
                               p \in DOMAIN ns /\ HasChild(ns, p, i) /\ f[p]
           Solves(f) == f = [i \in D |-> Held(f, i)]
           KeepsParts(X) == /\ \A i \in D : i \in roots => i \in X
                            /\ \A i \in D, p \in X :
                                  i < p /\ p \in DOMAIN ns /\ HasChild(ns, p, i) => i \in X
           Least == { i \in D : \A X \in SUBSET D : KeepsParts(X) => i \in X }
           least == [i \in D |-> i \in Least]
           alive == CHOOSE f : Solves(f)
<1>1. \A i \in D : Held(least, i) <=>
        i \in roots \/ \E p \in Least : i < p /\ p \in DOMAIN ns /\ HasChild(ns, p, i)
  <2> SUFFICES ASSUME NEW i \in D
               PROVE  Held(least, i) <=>
        i \in roots \/ \E p \in Least : i < p /\ p \in DOMAIN ns /\ HasChild(ns, p, i)
    OBVIOUS
  <2>1. \A p \in D : least[p] <=> p \in Least
    OBVIOUS
  <2>2. /\ \A p \in (i + 1) .. MaxNodes : p \in D /\ i < p
        /\ \A p \in D : i < p => p \in (i + 1) .. MaxNodes
    OBVIOUS
  <2>3. Least \subseteq D
    OBVIOUS
  <2> HIDE DEF least, Least, D
  <2> QED BY <2>1, <2>2, <2>3
<1>2. KeepsParts(Least)
  OBVIOUS
<1>3. \A i \in D : i \in Least =>
        i \in roots \/ \E p \in Least : i < p /\ p \in DOMAIN ns /\ HasChild(ns, p, i)
  <2> SUFFICES ASSUME NEW i \in Least, i \notin roots,
                      ~\E p \in Least : i < p /\ p \in DOMAIN ns /\ HasChild(ns, p, i)
               PROVE  FALSE
    OBVIOUS
  <2>1. KeepsParts(Least \ {i})
    BY <1>2
  <2>2. Least \ {i} \in SUBSET D
    OBVIOUS
  <2>3. i \in Least \ {i}
    BY <2>1, <2>2
  <2> QED BY <2>3
<1>4. Solves(least)
  <2>0. \A i \in D : i \in Least <=>
          i \in roots \/ \E p \in Least : i < p /\ p \in DOMAIN ns /\ HasChild(ns, p, i)
    <3>1. \A i \in D, p \in Least :
             i < p /\ p \in DOMAIN ns /\ HasChild(ns, p, i) => i \in Least
      BY <1>2
    <3>2. \A i \in D : i \in roots => i \in Least
      BY <1>2
    <3> HIDE DEF Least, D
    <3> QED BY <1>3, <3>1, <3>2
  <2>1. \A i \in D : Held(least, i) <=> i \in Least
    <3> HIDE DEF Held, Least, D, least
    <3> QED BY <1>1, <2>0
  <2>2. \A i \in D : Held(least, i) = (i \in Least)
    <3>1. \A i \in D : Held(least, i) \in BOOLEAN /\ (i \in Least) \in BOOLEAN
      OBVIOUS
    <3> HIDE DEF Held, Least, D, least
    <3> QED BY <2>1, <3>1
  <2>3. [i \in D |-> Held(least, i)] = [i \in D |-> i \in Least]
    <3> HIDE DEF Held, Least, D, least
    <3> QED BY <2>2
  <2> HIDE DEF Held, Least, D
  <2> QED BY <2>3
<1>5. Solves(alive)
  <2> HIDE DEF Solves, least
  <2> QED BY <1>4
<1>6. \A i \in D : alive[i] <=> Held(alive, i)
  <2> HIDE DEF alive, Held
  <2> QED BY <1>5
<1>7. AliveFrom(ns, roots) = { i \in DOMAIN ns : alive[i] }
  BY DEF AliveFrom
<1> HIDE DEF alive
<1>8. \A i \in DOMAIN ns : i \in AliveFrom(ns, roots) <=> alive[i]
  BY <1>7
<1>9. AliveFrom(ns, roots) \subseteq DOMAIN ns
  BY <1>7
<1>10. ASSUME NEW p \in AliveFrom(ns, roots), NEW c \in DOMAIN ns, c < p, HasChild(ns, p, c)
       PROVE  c \in AliveFrom(ns, roots)
  <2>1. p \in DOMAIN ns /\ p \in (c + 1) .. MaxNodes /\ alive[p]
    BY <1>8, <1>9, <1>10, InternerAssumption
  <2>2. Held(alive, c)
    BY <1>10, <2>1
  <2> QED BY <1>6, <1>8, <2>2
<1>11. ASSUME NEW i \in DOMAIN ns, i \in roots
       PROVE  i \in AliveFrom(ns, roots)
  BY <1>6, <1>8, <1>11
<1>12. ASSUME NEW i \in AliveFrom(ns, roots), i \notin roots
       PROVE  \E p \in AliveFrom(ns, roots) : i < p /\ HasChild(ns, p, i)
  <2>1. i \in D /\ Held(alive, i)
    BY <1>6, <1>8, <1>9
  <2>2. PICK p \in (i + 1) .. MaxNodes : p \in DOMAIN ns /\ HasChild(ns, p, i) /\ alive[p]
    BY <1>12, <2>1
  <2>3. i < p
    BY <2>1, <2>2, InternerAssumption
  <2> QED BY <1>8, <2>2, <2>3
<1> QED BY <1>9, <1>10, <1>11, <1>12

\* A removal keeps nodes as they are and keeps whole what it keeps.
LEMMA SweepFacts ==
    ASSUME NEW ns, DOMAIN ns \subseteq 1 .. MaxNodes, NEW roots, PartsOlder(ns)
    PROVE  /\ DOMAIN Sweep(ns, roots) \subseteq DOMAIN ns
           /\ \A i \in DOMAIN ns : i \in roots => i \in DOMAIN Sweep(ns, roots)
           /\ \A i \in DOMAIN Sweep(ns, roots) : Sweep(ns, roots)[i] = ns[i]
           /\ PartsOlder(Sweep(ns, roots))
<1> DEFINE left == Sweep(ns, roots)
<1>1. /\ DOMAIN left \subseteq DOMAIN ns
      /\ \A i \in DOMAIN ns : i \in roots => i \in DOMAIN left
      /\ \A p \in DOMAIN left, c \in DOMAIN ns : c < p /\ HasChild(ns, p, c) => c \in DOMAIN left
      /\ \A i \in DOMAIN left : left[i] = ns[i]
  BY AliveFacts DEF Sweep
<1> HIDE DEF left
<1>2. ASSUME NEW i \in DOMAIN left, NEW k \in DOMAIN ns[i].kids
      PROVE  ns[i].kids[k] \in DOMAIN left /\ ns[i].kids[k] < i
  <2>1. ns[i].kids[k] \in DOMAIN ns /\ ns[i].kids[k] < i
    BY <1>1, <1>2 DEF PartsOlder
  <2>2. HasChild(ns, i, ns[i].kids[k])
    BY <1>2 DEF HasChild
  <2> QED BY <1>1, <1>2, <2>1, <2>2
<1>3. PartsOlder(left)
  <2>1. \A i \in DOMAIN left : /\ ns[i] = Node(ns[i].op, ns[i].kids)
                               /\ ns[i].kids = [k \in DOMAIN ns[i].kids |-> ns[i].kids[k]]
    BY <1>1 DEF PartsOlder
  <2>2. \A i \in DOMAIN left : left[i] = ns[i]
    BY <1>1
  <2> QED BY <1>2, <2>1, <2>2 DEF PartsOlder
<1> QED BY <1>1, <1>3 DEF left

\* The recursion that says what a node stands for ends at the nodes without
\* parts.
LEMMA TermEquation ==
    ASSUME NEW ns, PartsOlder(ns), DOMAIN ns \subseteq 1 .. MaxNodes
    PROVE  \A i \in DOMAIN ns :
              TermIn(ns)[i] = <<ns[i].op, [k \in DOMAIN ns[i].kids |-> TermIn(ns)[ns[i].kids[k]]]>>
<1> DEFINE D == DOMAIN ns
           Up(n) == { i \in D : i <= n }
           Built(f, i) == <<ns[i].op, [k \in DOMAIN ns[i].kids |-> f[ns[i].kids[k]]]>>
           Solves(f, S) == f = [i \in S |-> Built(f, i)]
           T == { n \in Nat : \E f : Solves(f, Up(n)) }
           term == CHOOSE f : Solves(f, D)
<1>0. /\ D \subseteq Nat /\ \A i \in D : 1 <= i /\ i <= MaxNodes
      /\ MaxNodes \in Nat
  BY InternerAssumption
<1>1. \A i \in D : \A k \in DOMAIN ns[i].kids : ns[i].kids[k] \in D /\ ns[i].kids[k] < i
  BY DEF PartsOlder
<1>2. 0 \in T
  <2>1. Up(0) = {}
    BY <1>0
  <2>2. Solves([i \in {} |-> 0], {})
    OBVIOUS
  <2> HIDE DEF Solves, Up
  <2> QED BY <2>1, <2>2
<1>3. ASSUME NEW n \in Nat, n \in T
      PROVE  n + 1 \in T
  <2>1. PICK f : Solves(f, Up(n))
    BY <1>3
  <2> DEFINE g == [i \in Up(n + 1) |-> Built(f, i)]
  <2>2. \A i \in Up(n + 1) : \A k \in DOMAIN ns[i].kids : ns[i].kids[k] \in Up(n)
    <3> SUFFICES ASSUME NEW i \in Up(n + 1), NEW k \in DOMAIN ns[i].kids
                 PROVE  ns[i].kids[k] \in Up(n)
      OBVIOUS
    <3>1. i \in Nat /\ i <= n + 1
      BY <1>0
    <3>2. ns[i].kids[k] \in D /\ ns[i].kids[k] \in Nat /\ ns[i].kids[k] < i
      BY <1>0, <1>1
    <3> QED BY <3>1, <3>2
  <2>3. Up(n) \subseteq Up(n + 1)
    BY <1>0
  <2>4. \A i \in Up(n) : g[i] = f[i]
    <3>1. \A i \in Up(n) : f[i] = Built(f, i)
      <4> HIDE DEF Up, Built
      <4> QED BY <2>1
    <3>2. \A i \in Up(n + 1) : g[i] = Built(f, i)
      <4> HIDE DEF Up, Built
      <4> QED OBVIOUS
    <3> HIDE DEF Up, Built, g
    <3> QED BY <2>3, <3>1, <3>2
  <2>5. \A i \in Up(n + 1) : Built(g, i) = Built(f, i)
    <3> HIDE DEF Up, g
    <3> QED BY <2>2, <2>4
  <2>6. Solves(g, Up(n + 1))
    <3> HIDE DEF Up, Built
    <3> QED BY <2>5
  <2> HIDE DEF Solves, g
  <2> QED BY <2>6
<1>4. \E f : Solves(f, D)
  <2>1. MaxNodes \in T
    <3> HIDE DEF T
    <3> QED BY <1>0, <1>2, <1>3, Induction
  <2>2. Up(MaxNodes) = D
    BY <1>0
  <2>3. \E f : Solves(f, Up(MaxNodes))
    BY <2>1
  <2> HIDE DEF Solves, Up
  <2> QED BY <2>2, <2>3
<1>5. Solves(term, D)
  <2> HIDE DEF Solves
  <2> QED BY <1>4
<1>6. TermIn(ns) = term
  BY DEF TermIn
<1> HIDE DEF term
<1>7. \A i \in D : term[i] = Built(term, i)
  <2> HIDE DEF Built
  <2> QED BY <1>5
<1> QED BY <1>6, <1>7

\* A node stands for the same expression as long as it and its parts are there.
LEMMA TermsAgree ==
    ASSUME NEW ns1, PartsOlder(ns1), DOMAIN ns1 \subseteq 1 .. MaxNodes,
           NEW ns2, PartsOlder(ns2), DOMAIN ns2 \subseteq 1 .. MaxNodes,
           DOMAIN ns1 \subseteq DOMAIN ns2, \A i \in DOMAIN ns1 : ns1[i] = ns2[i]
    PROVE  \A i \in DOMAIN ns1 : TermIn(ns1)[i] = TermIn(ns2)[i]
<1> DEFINE D == DOMAIN ns1
           T == { i \in D : TermIn(ns1)[i] = TermIn(ns2)[i] }
<1>1. D \subseteq Nat
  OBVIOUS
<1>2. ASSUME NEW i \in D, \A m \in D : m < i => m \in T
      PROVE  i \in T
  <2>1. \A k \in DOMAIN ns1[i].kids : ns1[i].kids[k] \in D /\ ns1[i].kids[k] < i
    BY DEF PartsOlder
  <2>2. \A k \in DOMAIN ns1[i].kids : TermIn(ns1)[ns1[i].kids[k]] = TermIn(ns2)[ns1[i].kids[k]]
    BY <1>2, <2>1
  <2>3. TermIn(ns1)[i] = <<ns1[i].op, [k \in DOMAIN ns1[i].kids |-> TermIn(ns1)[ns1[i].kids[k]]]>>
    BY TermEquation
  <2>4. TermIn(ns2)[i] = <<ns1[i].op, [k \in DOMAIN ns1[i].kids |-> TermIn(ns2)[ns1[i].kids[k]]]>>
    <3>1. i \in DOMAIN ns2 /\ ns2[i] = ns1[i]
      OBVIOUS
    <3> QED BY <3>1, TermEquation
  <2> QED BY <2>2, <2>3, <2>4
<1>3. D \subseteq T
  <2> HIDE DEF T, D
  <2> QED BY <1>1, <1>2, StrongInduction
<1> QED BY <1>3

\* When nodes with the same data are the same node, so are nodes that stand
\* for the same expression.
LEMMA IdentityFollows ==
    ASSUME NEW ns, PartsOlder(ns), DOMAIN ns \subseteq 1 .. MaxNodes,
           \A i, j \in DOMAIN ns : ns[i] = ns[j] => i = j
    PROVE  \A i, j \in DOMAIN ns : TermIn(ns)[i] = TermIn(ns)[j] => i = j
<1> DEFINE D == DOMAIN ns
           T == { i \in D : \A j \in D : TermIn(ns)[i] = TermIn(ns)[j] => i = j }
<1>1. D \subseteq Nat
  OBVIOUS
<1>2. ASSUME NEW i \in D, \A m \in D : m < i => m \in T,
             NEW j \in D, TermIn(ns)[i] = TermIn(ns)[j]
      PROVE  i = j
  <2> DEFINE KidTerms(x) == [k \in DOMAIN ns[x].kids |-> TermIn(ns)[ns[x].kids[k]]]
  <2>1. TermIn(ns)[i] = <<ns[i].op, KidTerms(i)>> /\ TermIn(ns)[j] = <<ns[j].op, KidTerms(j)>>
    BY TermEquation
  <2>2. ns[i].op = ns[j].op /\ KidTerms(i) = KidTerms(j)
    <3> HIDE DEF KidTerms
    <3>1. <<ns[i].op, KidTerms(i)>> = <<ns[j].op, KidTerms(j)>>
      BY <1>2, <2>1
    <3> QED BY <3>1
  <2>3. DOMAIN ns[i].kids = DOMAIN ns[j].kids
    <3>1. DOMAIN KidTerms(i) = DOMAIN ns[i].kids /\ DOMAIN KidTerms(j) = DOMAIN ns[j].kids
      OBVIOUS
    <3> HIDE DEF KidTerms
    <3> QED BY <2>2, <3>1
  <2>4. ASSUME NEW k \in DOMAIN ns[i].kids
        PROVE  ns[i].kids[k] = ns[j].kids[k]
    <3>1. /\ ns[i].kids[k] \in D /\ ns[i].kids[k] < i
          /\ ns[j].kids[k] \in D
      BY <2>3, <2>4 DEF PartsOlder
    <3>2. KidTerms(i)[k] = TermIn(ns)[ns[i].kids[k]] /\ KidTerms(j)[k] = TermIn(ns)[ns[j].kids[k]]
      BY <2>3, <2>4
    <3>3. TermIn(ns)[ns[i].kids[k]] = TermIn(ns)[ns[j].kids[k]]
      <4> HIDE DEF KidTerms
      <4> QED BY <2>2, <3>2
    <3> QED BY <1>2, <3>1, <3>3
  <2>5. ns[i].kids = ns[j].kids
    <3>1. /\ ns[i].kids = [k \in DOMAIN ns[i].kids |-> ns[i].kids[k]]
          /\ ns[j].kids = [k \in DOMAIN ns[j].kids |-> ns[j].kids[k]]
      BY DEF PartsOlder
    <3> QED BY <2>3, <2>4, <3>1
  <2>6. ns[i] = ns[j]
    <3>1. ns[i] = Node(ns[i].op, ns[i].kids) /\ ns[j] = Node(ns[j].op, ns[j].kids)
      BY DEF PartsOlder
    <3> QED BY <2>2, <2>5, <3>1
  <2> QED BY <2>6
<1>3. D \subseteq T
  <2>1. \A i \in D : (\A m \in D : m < i => m \in T) => i \in T
    BY <1>2
  <2> HIDE DEF T, D
  <2> QED BY <1>1, <2>1, StrongInduction
<1> QED BY <1>3

-----------------------------------------------------------------------------
(* The table.                                                              *)

\* A sweep of a bucket drops none of the entries that stand for a node, and
\* adds none.
LEMMA LiveEntriesFacts ==
    ASSUME NEW s \in Seq(Nat)
    PROVE  /\ LiveEntries(s) \in Seq(Nat)
           /\ \A k \in DOMAIN s : s[k] \in Alive =>
                 \E j \in DOMAIN LiveEntries(s) : LiveEntries(s)[j] = s[k]
           /\ \A j \in DOMAIN LiveEntries(s) : \E k \in DOMAIN s : LiveEntries(s)[j] = s[k]
           /\ Len(LiveEntries(s)) <= Len(s)
<1> DEFINE Built(f, n) == IF n = 0 THEN <<>>
                          ELSE IF s[n] \in Alive THEN Append(f[n - 1], s[n]) ELSE f[n - 1]
           Solves(f, N) == f = [n \in 0 .. N |-> Built(f, n)]
           live == CHOOSE f : Solves(f, Len(s))
           T == { N \in Nat : \E f : Solves(f, N) }
           Keeps(n) == /\ live[n] \in Seq(Nat)
                       /\ \A k \in 1 .. n : s[k] \in Alive =>
                             \E j \in 1 .. Len(live[n]) : live[n][j] = s[k]
                       /\ \A j \in 1 .. Len(live[n]) : \E k \in 1 .. n : live[n][j] = s[k]
                       /\ Len(live[n]) <= n
           K == { n \in Nat : n <= Len(s) => Keeps(n) }
<1>0. Len(s) \in Nat /\ DOMAIN s = 1 .. Len(s) /\ \A k \in 1 .. Len(s) : s[k] \in Nat
  <2>1. Len(s) \in Nat /\ DOMAIN s = 1 .. Len(s)
    OBVIOUS
  <2> QED BY <2>1, ElementOfSeq
<1>1. 0 \in T
  <2>1. Solves([n \in 0 .. 0 |-> <<>>], 0)
    OBVIOUS
  <2> HIDE DEF Solves
  <2> QED BY <2>1
<1>2. ASSUME NEW N \in Nat, N \in T
      PROVE  N + 1 \in T
  <2>1. PICK f : Solves(f, N)
    BY <1>2
  <2> DEFINE g == [n \in 0 .. N + 1 |-> Built(f, n)]
  <2>2. \A n \in 0 .. N : g[n] = f[n]
    <3>1. \A n \in 0 .. N : f[n] = Built(f, n)
      <4> HIDE DEF Built
      <4> QED BY <2>1
    <3>2. \A n \in 0 .. N + 1 : g[n] = Built(f, n)
      <4> HIDE DEF Built
      <4> QED OBVIOUS
    <3> HIDE DEF Built, g
    <3> QED BY <3>1, <3>2
  <2>3. \A n \in 0 .. N + 1 : Built(g, n) = Built(f, n)
    <3>1. \A n \in 0 .. N + 1 : n # 0 => n - 1 \in 0 .. N
      OBVIOUS
    <3> HIDE DEF g
    <3> QED BY <2>2, <3>1
  <2>4. Solves(g, N + 1)
    <3> HIDE DEF Built
    <3> QED BY <2>3
  <2> HIDE DEF Solves, g
  <2> QED BY <2>4
<1>3. Solves(live, Len(s))
  <2>1. Len(s) \in T
    <3> HIDE DEF T
    <3> QED BY <1>0, <1>1, <1>2, Induction
  <2>2. \E f : Solves(f, Len(s))
    BY <2>1
  <2> HIDE DEF Solves
  <2> QED BY <2>2
<1>4. LiveEntries(s) = live[Len(s)]
  BY DEF LiveEntries
<1> HIDE DEF live
<1>5. \A n \in 0 .. Len(s) : live[n] = Built(live, n)
  <2> HIDE DEF Built
  <2> QED BY <1>3
<1>6. 0 \in K
  <2>1. live[0] = <<>>
    BY <1>0, <1>5
  <2>2. live[0] \in Seq(Nat)
    BY <2>1
  <2>3. 1 .. 0 = {} /\ Len(live[0]) = 0
    BY <2>1
  <2> QED BY <2>2, <2>3
<1>7. ASSUME NEW n \in Nat, n \in K
      PROVE  n + 1 \in K
  <2> SUFFICES ASSUME n + 1 <= Len(s) PROVE Keeps(n + 1)
    OBVIOUS
  <2> DEFINE l == live[n]
             m == live[n + 1]
  <2>0. Keeps(n)
    BY <1>0, <1>7
  <2>1. l \in Seq(Nat) /\ Len(l) \in Nat
        /\ \A k \in 1 .. n : s[k] \in Alive => \E j \in 1 .. Len(l) : l[j] = s[k]
    BY <2>0
  <2>6. \A j \in 1 .. Len(l) : \E k \in 1 .. n : l[j] = s[k]
    BY <2>0
  <2>7. Len(l) <= n /\ Len(l) \in Nat
    BY <2>0
  <2>2. m = IF s[n + 1] \in Alive THEN Append(l, s[n + 1]) ELSE l
    BY <1>0, <1>5
  <2>3. s[n + 1] \in Nat
    BY <1>0
  <2> HIDE DEF l, m
  <2>4. CASE s[n + 1] \in Alive
    <3>0. l \in Seq(Nat)
      BY <2>1
    <3>1. /\ m \in Seq(Nat) /\ Len(m) = Len(l) + 1 /\ m[Len(l) + 1] = s[n + 1]
          /\ \A j \in 1 .. Len(l) : m[j] = l[j]
      BY <2>2, <2>3, <2>4, <3>0
    <3>2. ASSUME NEW k \in 1 .. n + 1, s[k] \in Alive
          PROVE  \E j \in 1 .. Len(m) : m[j] = s[k]
      <4>1. CASE k = n + 1
        <5>1. Len(l) + 1 \in 1 .. Len(m) /\ m[Len(l) + 1] = s[k]
          BY <2>1, <3>1, <4>1
        <5> QED BY <5>1
      <4>2. CASE k \in 1 .. n
        <5>1. PICK j \in 1 .. Len(l) : l[j] = s[k]
          BY <2>1, <3>2, <4>2
        <5>2. j \in 1 .. Len(m) /\ m[j] = s[k]
          BY <2>1, <3>1, <5>1
        <5> QED BY <5>2
      <4> QED BY <4>1, <4>2
    <3>3. ASSUME NEW j \in 1 .. Len(m)
          PROVE  \E k \in 1 .. n + 1 : m[j] = s[k]
      <4>1. CASE j = Len(l) + 1
        <5>1. n + 1 \in 1 .. n + 1
          OBVIOUS
        <5> QED BY <3>1, <4>1, <5>1
      <4>2. CASE j \in 1 .. Len(l)
        <5>1. PICK k \in 1 .. n : l[j] = s[k]
          BY <2>6, <4>2
        <5>2. k \in 1 .. n + 1 /\ m[j] = s[k]
          BY <3>1, <4>2, <5>1
        <5> QED BY <5>2
      <4>3. j = Len(l) + 1 \/ j \in 1 .. Len(l)
        BY <2>7, <3>1
      <4> QED BY <4>1, <4>2, <4>3
    <3>4. Len(m) <= n + 1
      BY <2>7, <3>1
    <3> QED BY <3>1, <3>2, <3>3, <3>4 DEF m
  <2>5. CASE s[n + 1] \notin Alive
    <3>1. m = l
      BY <2>2, <2>5
    <3>2. \A k \in 1 .. n + 1 : s[k] \in Alive => k \in 1 .. n
      BY <2>5
    <3>3. \A k \in 1 .. n + 1 : s[k] \in Alive => \E j \in 1 .. Len(m) : m[j] = s[k]
      BY <2>1, <3>1, <3>2
    <3>4. m \in Seq(Nat)
      BY <2>1, <3>1
    <3>5. \A j \in 1 .. Len(m) : \E k \in 1 .. n + 1 : m[j] = s[k]
      <4>1. 1 .. n \subseteq 1 .. n + 1
        OBVIOUS
      <4> QED BY <2>6, <3>1, <4>1
    <3>6. Len(m) <= n + 1
      BY <2>7, <3>1
    <3> QED BY <3>3, <3>4, <3>5, <3>6 DEF m
  <2> QED BY <2>4, <2>5
<1>8. Keeps(Len(s))
  <2>1. Len(s) \in K
    <3> HIDE DEF K
    <3> QED BY <1>0, <1>6, <1>7, Induction
  <2> QED BY <1>0, <2>1
<1> DEFINE t == live[Len(s)]
<1>9. /\ t \in Seq(Nat)
      /\ \A k \in 1 .. Len(s) : s[k] \in Alive => \E j \in 1 .. Len(t) : t[j] = s[k]
      /\ \A j \in 1 .. Len(t) : \E k \in 1 .. Len(s) : t[j] = s[k]
      /\ Len(t) <= Len(s)
  BY <1>8
<1>10. LiveEntries(s) = t
  BY <1>4
<1> HIDE DEF t
<1>11. DOMAIN t = 1 .. Len(t)
  BY <1>9
<1> QED BY <1>0, <1>9, <1>10, <1>11

\* A sweep of the table loses no node a lookup would find.
LEMMA TableFacts ==
    ASSUME TableInv
    PROVE  /\ \A h \in DOMAIN Table[2] : Table[2][h] \in Seq(Nat)
           /\ \A i \in DOMAIN nodes : i >= base => Tabled(nodes, Table[1], Table[2], i)
<1>1. CASE ~SweepDue
  <2>1. Table[1] = primary /\ Table[2] = overflow
    BY <1>1 DEF Table
  <2> QED BY <2>1 DEF TableInv
<1>2. CASE SweepDue
  <2> DEFINE pr == Table[1]
             ov == Table[2]
  <2>1. /\ pr = [h \in {g \in DOMAIN primary : primary[g] \in Alive} |-> primary[h]]
        /\ ov = [h \in {g \in DOMAIN overflow : LiveEntries(overflow[g]) # <<>>}
                    |-> LiveEntries(overflow[h])]
    BY <1>2 DEF Table, Collected, Restrict
  <2> HIDE DEF pr, ov
  <2>2. \A h \in DOMAIN ov : ov[h] \in Seq(Nat)
    BY <2>1, LiveEntriesFacts DEF TableInv
  <2>3. ASSUME NEW i \in DOMAIN nodes, i >= base
        PROVE  Tabled(nodes, pr, ov, i)
    <3> DEFINE h == HashOf(nodes[i])
    <3>1. \/ h \in DOMAIN primary /\ primary[h] = i
          \/ h \in DOMAIN overflow /\ \E k \in DOMAIN overflow[h] : overflow[h][k] = i
      BY <2>3 DEF TableInv, Tabled
    <3> HIDE DEF h
    <3>2. CASE h \in DOMAIN primary /\ primary[h] = i
      <4>1. h \in DOMAIN pr /\ pr[h] = i
        BY <2>1, <3>2 DEF Alive
      <4> QED BY <4>1 DEF Tabled, h
    <3>3. CASE h \in DOMAIN overflow /\ \E k \in DOMAIN overflow[h] : overflow[h][k] = i
      <4> DEFINE left == LiveEntries(overflow[h])
      <4>1. overflow[h] \in Seq(Nat)
        BY <3>3 DEF TableInv
      <4>2. \E j \in DOMAIN left : left[j] = i
        BY <3>3, <4>1, LiveEntriesFacts DEF Alive
      <4> HIDE DEF left
      <4>3. left # <<>>
        BY <4>2
      <4>4. h \in DOMAIN ov /\ ov[h] = left
        BY <2>1, <3>3, <4>3 DEF left
      <4> QED BY <4>2, <4>4 DEF Tabled, h
    <3> QED BY <3>1, <3>2, <3>3
  <2> QED BY <2>2, <2>3 DEF pr, ov
<1> QED BY <1>1, <1>2

-----------------------------------------------------------------------------
(* The steps.                                                              *)

LEMMA NodesBound ==
    ASSUME CountersInv
    PROVE  /\ nextId \in Nat /\ base \in Nat /\ DOMAIN nodes \subseteq 1 .. MaxNodes
           /\ DOMAIN nodes \subseteq Nat /\ nextId \notin DOMAIN nodes
  BY InternerAssumption DEF CountersInv

LEMMA IdentitiesGrow ==
    ASSUME NEW a \in Nat, NEW b \in Nat, a <= b
    PROVE  /\ 1 .. (a - 1) \subseteq 1 .. (b - 1)
           /\ \A i \in 1 .. (a - 1) : i \in Nat /\ i < a
  OBVIOUS

\* What a memo holds stays right while the nodes it was asked about stand for
\* what they stood for.
LEMMA MemosStay ==
    ASSUME MemoInv, MemosFit, nextId \in Nat, nextId' \in Nat, nextId <= nextId',
           UNCHANGED memos,
           \A i \in DOMAIN nodes' : i < nextId => i \in DOMAIN nodes /\ Term(i)' = Term(i)
    PROVE  MemoInv' /\ MemosFit'
<1>1. /\ numbers' = numbers /\ numbered' = numbered /\ iotaMemo' = iotaMemo
      /\ 1 .. (nextId - 1) \subseteq 1 .. (nextId' - 1)
      /\ \A i \in 1 .. (nextId - 1) : i < nextId
  <2>1. numbers' = numbers /\ numbered' = numbered /\ iotaMemo' = iotaMemo
    BY DEF memos
  <2>2. /\ 1 .. (nextId - 1) \subseteq 1 .. (nextId' - 1)
        /\ \A i \in 1 .. (nextId - 1) : i < nextId
    BY IdentitiesGrow
  <2> QED BY <2>1, <2>2
<1>2. MemoInv'
  BY <1>1 DEF MemoInv
<1>3. NumberedAnswersFit'
  BY <1>1 DEF MemoInv, MemosFit, NumberedAnswersFit, Alive
<1>4. RememberedPeelsFit'
  BY <1>1 DEF MemoInv, MemosFit, RememberedPeelsFit, Alive
<1> QED BY <1>2, <1>3, <1>4 DEF MemosFit

\* Nodes go: what is left is what it was.
LEMMA NodesGo ==
    ASSUME InternInv, NEW roots, held' \subseteq roots, held' \subseteq held,
           nodes' = Sweep(nodes, roots)
    PROVE  /\ DOMAIN nodes' \subseteq DOMAIN nodes
           /\ \A i \in DOMAIN nodes' : nodes'[i] = nodes[i] /\ Term(i)' = Term(i)
           /\ held' \subseteq DOMAIN nodes'
           /\ PartsOlder(nodes)'
<1>1. DOMAIN nodes \subseteq 1 .. MaxNodes /\ held \subseteq DOMAIN nodes /\ PartsOlder(nodes)
  BY NodesBound DEF InternInv, CountersInv
<1>2. /\ DOMAIN nodes' \subseteq DOMAIN nodes
      /\ \A i \in DOMAIN nodes : i \in roots => i \in DOMAIN nodes'
      /\ \A i \in DOMAIN nodes' : nodes'[i] = nodes[i]
      /\ PartsOlder(nodes')
  BY <1>1, SweepFacts
<1>3. \A i \in DOMAIN nodes' : TermIn(nodes')[i] = TermIn(nodes)[i]
  BY <1>1, <1>2, TermsAgree
<1>4. PartsOlder(nodes)'
  BY <1>2 DEF PartsOlder
<1>5. \A i : Term(i)' = TermIn(nodes')[i] /\ Term(i) = TermIn(nodes)[i]
  BY DEF Term, TermIn
<1> QED BY <1>1, <1>2, <1>3, <1>4, <1>5

LEMMA InitInv == InternInit => InternInv
<1> SUFFICES ASSUME InternInit PROVE InternInv
  OBVIOUS
<1> USE DEF InternInit
<1>1. CountersInv
  BY InternerAssumption DEF CountersInv
<1>2. PartsOlder(nodes) /\ TableInv /\ SameDataSameNode /\ MemoInv
  BY DEF PartsOlder, TableInv, SameDataSameNode, MemoInv, Alive
<1>3. MemosFit
  BY DEF MemosFit, NumberedAnswersFit, RememberedPeelsFit
<1> QED BY <1>1, <1>2, <1>3 DEF InternInv

LEMMA ReleaseKeeps ==
    ASSUME InternInv, NEW i \in held, Release(i)
    PROVE  InternInv'
<1>1. PICK roots : held' \subseteq roots /\ nodes' = Sweep(nodes, roots)
  BY DEF Release
<1>2. /\ held' \subseteq held
      /\ UNCHANGED <<weak, nextId, primary, overflow, nextSweep, base, memos>>
  BY DEF Release, tables
<1>3. /\ DOMAIN nodes' \subseteq DOMAIN nodes
      /\ \A j \in DOMAIN nodes' : nodes'[j] = nodes[j] /\ Term(j)' = Term(j)
      /\ held' \subseteq DOMAIN nodes'
      /\ PartsOlder(nodes)'
  BY <1>1, <1>2, NodesGo
<1>4. CountersInv'
  BY <1>2, <1>3 DEF InternInv, CountersInv
<1>5. TableInv'
  BY <1>2, <1>3 DEF InternInv, TableInv, Tabled
<1>6. SameDataSameNode'
  BY <1>2, <1>3 DEF InternInv, SameDataSameNode, Alive
<1>7. MemoInv' /\ MemosFit'
  <2>1. nextId' = nextId /\ nextId \in Nat /\ nextId <= nextId'
    BY <1>2, NodesBound DEF InternInv
  <2> QED BY <1>2, <1>3, <2>1, MemosStay DEF InternInv
<1> QED BY <1>3, <1>4, <1>5, <1>6, <1>7 DEF InternInv

LEMMA CheckDeclKeeps ==
    ASSUME InternInv, NEW fresh \in BOOLEAN, CheckDecl(fresh)
    PROVE  InternInv'
<1>1. /\ numbers' = <<>> /\ numbered' = <<>> /\ iotaMemo' \in {<<>>, iotaMemo}
      /\ UNCHANGED <<weak, nextId, held>>
  BY DEF CheckDecl, ClearedNumbered
<1>2. nextId \in Nat /\ base \in Nat
  BY NodesBound DEF InternInv
<1>3. /\ DOMAIN nodes' \subseteq DOMAIN nodes
      /\ \A j \in DOMAIN nodes' : nodes'[j] = nodes[j] /\ Term(j)' = Term(j)
      /\ held' \subseteq DOMAIN nodes'
      /\ PartsOlder(nodes)'
  <2>1. CASE TableIsLarge
    <3>1. nodes' = Sweep(nodes, held) /\ held' \subseteq held
      BY <2>1 DEF CheckDecl
    <3> QED BY <3>1, NodesGo
  <2>2. CASE ~TableIsLarge
    <3>1. nodes' = nodes /\ held' = held
      BY <2>2 DEF CheckDecl
    <3>2. PartsOlder(nodes)'
      BY <3>1 DEF InternInv, PartsOlder
    <3>3. \A j : Term(j)' = Term(j)
      BY <3>1 DEF Term, TermIn
    <3> QED BY <3>1, <3>2, <3>3 DEF InternInv, CountersInv
  <2> QED BY <2>1, <2>2
<1>4. \/ primary' = <<>> /\ overflow' = <<>> /\ base' = nextId
      \/ UNCHANGED <<primary, overflow, base>>
  BY DEF CheckDecl, tables
<1>5. CountersInv'
  BY <1>1, <1>2, <1>3, <1>4 DEF InternInv, CountersInv
<1>6. TableInv' /\ SameDataSameNode'
  <2>1. CASE primary' = <<>> /\ overflow' = <<>> /\ base' = nextId
    <3>1. \A j \in DOMAIN nodes' : ~(j >= base')
      BY <1>2, <1>3, <2>1 DEF InternInv, CountersInv
    <3> QED BY <2>1, <3>1 DEF TableInv, SameDataSameNode, Alive
  <2>2. CASE UNCHANGED <<primary, overflow, base>>
    BY <1>3, <2>2 DEF InternInv, TableInv, Tabled, SameDataSameNode, Alive
  <2> QED BY <1>4, <2>1, <2>2
<1>7. MemoInv'
  BY <1>1 DEF InternInv, MemoInv
<1>8. MemosFit'
  <2>1. NumberedAnswersFit'
    BY <1>1 DEF NumberedAnswersFit
  <2>2. RememberedPeelsFit'
    BY <1>1, <1>3 DEF InternInv, MemosFit, RememberedPeelsFit, Alive
  <2> QED BY <2>1, <2>2 DEF MemosFit
<1> QED BY <1>3, <1>5, <1>6, <1>7, <1>8 DEF InternInv

\* A memo is asked about a node: nodes and tables stay.
LEMMA AskingKeeps ==
    ASSUME InternInv, UNCHANGED <<weak, nodes, nextId, held, tables, base>>,
           MemoInv', MemosFit'
    PROVE  InternInv'
<1>1. CountersInv' /\ TableInv' /\ SameDataSameNode'
  BY DEF InternInv, CountersInv, TableInv, Tabled, SameDataSameNode, Alive, tables
<1>2. PartsOlder(nodes)'
  BY DEF InternInv, PartsOlder
<1> QED BY <1>1, <1>2 DEF InternInv

\* An insertion leaves entries of the table, besides the new one.
LEMMA MemoInsertFacts ==
    ASSUME NEW table, NEW key, NEW value
    PROVE  \A k \in DOMAIN MemoInsert(table, key, value) :
              \/ k = key /\ MemoInsert(table, key, value)[k] = value
              \/ k \in DOMAIN table /\ MemoInsert(table, key, value)[k] = table[k]
<1>1. DOMAIN <<>> = {}
  OBVIOUS
<1> QED BY <1>1 DEF MemoInsert, With

LEMMA AskNumberedKeeps ==
    ASSUME InternInv, NEW i \in Alive, NEW x \in Extras, AskNumbered(i, x)
    PROVE  InternInv'
<1> DEFINE ns == IF Numbered(x) THEN numbers ELSE Append(numbers, x)
           n == CHOOSE k \in DOMAIN ns : ns[k] = x
<1>1. /\ UNCHANGED <<weak, nodes, nextId, held, tables, base, iotaMemo>>
      /\ numbers' = ns /\ numbered' = MemoInsert(numbered, <<i, n>>, Answer(i, x))
  BY DEF AskNumbered
<1>2. numbers \in Seq(Extras) /\ Len(numbers) \in Nat /\ DOMAIN numbers = 1 .. Len(numbers)
  BY DEF InternInv, MemoInv
<1>3. /\ ns \in Seq(Extras) /\ DOMAIN numbers \subseteq DOMAIN ns
      /\ \A k \in DOMAIN numbers : ns[k] = numbers[k]
      /\ \E k \in DOMAIN ns : ns[k] = x
  <2>1. CASE Numbered(x)
    BY <1>2, <2>1 DEF Numbered
  <2>2. CASE ~Numbered(x)
    <3> DEFINE longer == Append(numbers, x)
    <3>1. /\ longer \in Seq(Extras) /\ DOMAIN longer = 1 .. Len(numbers) + 1
          /\ longer[Len(numbers) + 1] = x
          /\ \A k \in 1 .. Len(numbers) : longer[k] = numbers[k]
      BY <1>2
    <3>2. ns = longer
      BY <2>2
    <3> HIDE DEF longer, ns
    <3>3. Len(numbers) + 1 \in DOMAIN longer
      BY <1>2, <3>1
    <3> QED BY <1>2, <3>1, <3>2, <3>3
  <2> QED BY <2>1, <2>2
<1> HIDE DEF ns
<1>4. n \in DOMAIN ns /\ ns[n] = x
  BY <1>3
<1> HIDE DEF n
<1>5. \A key \in DOMAIN numbered' :
         \/ key = <<i, n>> /\ numbered'[key] = Answer(i, x)
         \/ key \in DOMAIN numbered /\ numbered'[key] = numbered[key]
  BY <1>1, MemoInsertFacts
<1>6. i \in 1 .. (nextId - 1) /\ i \in DOMAIN nodes
  BY DEF InternInv, CountersInv, Alive
<1>7. MemoInv'
  BY <1>1, <1>3, <1>5, <1>6 DEF InternInv, MemoInv
<1>8. \A j : Term(j)' = Term(j)
  BY <1>1 DEF Term, TermIn
<1>9. NumberedAnswersFit'
  <2> SUFFICES ASSUME NEW key \in DOMAIN numbered'
               PROVE  /\ key[2] \in DOMAIN ns /\ numbered'[key].extra = ns[key[2]]
                      /\ key[1] \in Alive => numbered'[key].term = Term(key[1])
    BY <1>1, <1>8 DEF NumberedAnswersFit, Alive
  <2>1. CASE key = <<i, n>> /\ numbered'[key] = Answer(i, x)
    BY <1>4, <2>1 DEF Answer
  <2>2. CASE key \in DOMAIN numbered /\ numbered'[key] = numbered[key]
    <3>1. /\ key[2] \in DOMAIN numbers /\ numbered[key].extra = numbers[key[2]]
          /\ key[1] \in Alive => numbered[key].term = Term(key[1])
      BY <2>2 DEF InternInv, MemosFit, NumberedAnswersFit
    <3> QED BY <1>3, <2>2, <3>1
  <2> QED BY <1>5, <2>1, <2>2
<1>10. RememberedPeelsFit'
  BY <1>1, <1>8 DEF InternInv, MemosFit, RememberedPeelsFit, Alive
<1> QED BY <1>1, <1>7, <1>9, <1>10, AskingKeeps DEF MemosFit

LEMMA PeelLiteralKeeps ==
    ASSUME InternInv, NEW i \in Alive, PeelLiteral(i)
    PROVE  InternInv'
<1>1. /\ UNCHANGED <<weak, nodes, nextId, held, tables, base, numbers, numbered>>
      /\ iotaMemo' = MemoInsert(iotaMemo, i, Term(i))
  BY DEF PeelLiteral
<1>2. \A k \in DOMAIN iotaMemo' :
         \/ k = i /\ iotaMemo'[k] = Term(i)
         \/ k \in DOMAIN iotaMemo /\ iotaMemo'[k] = iotaMemo[k]
  BY <1>1, MemoInsertFacts
<1>3. i \in 1 .. (nextId - 1) /\ i \in DOMAIN nodes
  BY DEF InternInv, CountersInv, Alive
<1>4. \A j : Term(j)' = Term(j)
  BY <1>1 DEF Term, TermIn
<1>5. MemoInv'
  BY <1>1, <1>2, <1>3 DEF InternInv, MemoInv
<1>6. RememberedPeelsFit'
  BY <1>1, <1>2, <1>4 DEF InternInv, MemosFit, RememberedPeelsFit, Alive
<1>7. NumberedAnswersFit'
  BY <1>1, <1>4 DEF InternInv, MemosFit, NumberedAnswersFit, Alive
<1> QED BY <1>1, <1>5, <1>6, <1>7, AskingKeeps DEF MemosFit

\* The lookup misses no node that is in the table.
LEMMA FoundFacts ==
    ASSUME NEW pr, NEW ov, NEW d
    PROVE  /\ \A i \in Found(pr, ov, d) : i \in DOMAIN nodes
           /\ \A i \in DOMAIN nodes : nodes[i] = d /\ Tabled(nodes, pr, ov, i) => i \in Found(pr, ov, d)
<1>1. ASSUME NEW i \in DOMAIN nodes, nodes[i] = d, Tabled(nodes, pr, ov, i)
      PROVE  i \in Found(pr, ov, d)
  <2> DEFINE h == HashOf(d)
  <2>1. \/ h \in DOMAIN pr /\ pr[h] = i
        \/ h \in DOMAIN ov /\ \E k \in DOMAIN ov[h] : ov[h][k] = i
    BY <1>1 DEF Tabled
  <2> HIDE DEF h
  <2>2. i \in Candidates(pr, ov, h)
    BY <2>1 DEF Candidates, Bucket, Alive
  <2> QED BY <1>1, <2>2 DEF Found, h
<1> QED BY <1>1 DEF Found, Candidates, Alive

\* The table with a new entry.
PrimaryWith(pr, h, new) == IF PrimaryTaken(pr, h) THEN pr ELSE With(pr, h, new)
OverflowWith(pr, ov, h, new) ==
    IF PrimaryTaken(pr, h) THEN With(ov, h, Append(Bucket(ov, h), new)) ELSE ov

InPrimary(pr, h, i) == h \in DOMAIN pr /\ pr[h] = i
InOverflow(ov, h, i) == h \in DOMAIN ov /\ \E k \in DOMAIN ov[h] : ov[h][k] = i

\* A new entry is found, and displaces no live node's.
LEMMA EntryFacts ==
    ASSUME NEW pr, NEW ov, \A g \in DOMAIN ov : ov[g] \in Seq(Nat), NEW h, NEW new \in Nat
    PROVE  /\ \A g \in DOMAIN OverflowWith(pr, ov, h, new) :
                 OverflowWith(pr, ov, h, new)[g] \in Seq(Nat)
           /\ \/ InPrimary(PrimaryWith(pr, h, new), h, new)
              \/ InOverflow(OverflowWith(pr, ov, h, new), h, new)
           /\ \A g, i : i \in Alive /\ InPrimary(pr, g, i) =>
                 InPrimary(PrimaryWith(pr, h, new), g, i)
           /\ \A g, i : i \in Alive /\ InOverflow(ov, g, i) =>
                 InOverflow(OverflowWith(pr, ov, h, new), g, i)
<1> DEFINE pr1 == PrimaryWith(pr, h, new)
           ov1 == OverflowWith(pr, ov, h, new)
<1>1. CASE ~PrimaryTaken(pr, h)
  <2>1. ov1 = ov /\ DOMAIN pr1 = DOMAIN pr \cup {h}
        /\ \A g \in DOMAIN pr1 : pr1[g] = IF g = h THEN new ELSE pr[g]
    BY <1>1 DEF With, PrimaryWith, OverflowWith
  <2> HIDE DEF pr1, ov1
  <2>2. \A i \in Alive : h \in DOMAIN pr => pr[h] # i
    BY <1>1 DEF PrimaryTaken
  <2>3. \A g, i : i \in Alive /\ InPrimary(pr, g, i) => InPrimary(pr1, g, i)
    BY <2>1, <2>2 DEF InPrimary
  <2>4. InPrimary(pr1, h, new)
    BY <2>1 DEF InPrimary
  <2> QED BY <2>1, <2>3, <2>4 DEF pr1, ov1
<1>2. CASE PrimaryTaken(pr, h)
  <2> DEFINE old == Bucket(ov, h)
             long == Append(old, new)
  <2>1. pr1 = pr /\ DOMAIN ov1 = DOMAIN ov \cup {h}
        /\ \A g \in DOMAIN ov1 : ov1[g] = IF g = h THEN long ELSE ov[g]
    BY <1>2 DEF With, PrimaryWith, OverflowWith
  <2> HIDE DEF pr1, ov1
  <2>2. old \in Seq(Nat) /\ (h \in DOMAIN ov => old = ov[h])
    BY DEF Bucket
  <2> HIDE DEF old
  <2>3. /\ long \in Seq(Nat) /\ Len(old) \in Nat
        /\ DOMAIN long = 1 .. Len(old) + 1 /\ DOMAIN old = 1 .. Len(old)
        /\ long[Len(old) + 1] = new /\ \A k \in 1 .. Len(old) : long[k] = old[k]
    BY <2>2
  <2> HIDE DEF long
  <2>4. Len(old) + 1 \in DOMAIN long /\ DOMAIN old \subseteq DOMAIN long
    BY <2>3
  <2>5. \A i : (\E k \in DOMAIN old : old[k] = i) => \E k \in DOMAIN long : long[k] = i
    BY <2>3, <2>4
  <2>6. InOverflow(ov1, h, new) /\ h \in DOMAIN ov1 /\ ov1[h] = long
    BY <2>1, <2>3, <2>4 DEF InOverflow
  <2>7. \A g \in DOMAIN ov1 : ov1[g] \in Seq(Nat)
    BY <2>1, <2>3
  <2>8. ASSUME NEW g, NEW i, InOverflow(ov, g, i)
        PROVE  InOverflow(ov1, g, i)
    <3>1. CASE g = h
      <4>1. \E k \in DOMAIN old : old[k] = i
        BY <2>2, <2>8, <3>1 DEF InOverflow
      <4>2. \E k \in DOMAIN long : long[k] = i
        BY <2>5, <4>1
      <4> QED BY <2>6, <3>1, <4>2 DEF InOverflow
    <3>2. CASE g # h
      BY <2>1, <2>8, <3>2 DEF InOverflow
    <3> QED BY <3>1, <3>2
  <2> QED BY <2>1, <2>6, <2>7, <2>8 DEF pr1, ov1
<1> QED BY <1>1, <1>2

\* The lookup answers with a node that is there: the table may be swept.
LEMMA HitKeeps ==
    ASSUME InternInv, UNCHANGED <<weak, nodes, nextId, base, memos>>,
           primary' = Table[1], overflow' = Table[2], held' \subseteq DOMAIN nodes
    PROVE  InternInv'
<1>1. CountersInv' /\ SameDataSameNode' /\ PartsOlder(nodes)'
  BY DEF InternInv, CountersInv, SameDataSameNode, PartsOlder, Alive
<1>2. TableInv'
  BY TableFacts DEF InternInv, TableInv, Tabled
<1>3. \A j : Term(j)' = Term(j)
  BY DEF Term, TermIn
<1>4. MemoInv' /\ MemosFit'
  <2>1. nextId' = nextId /\ nextId \in Nat /\ nextId <= nextId'
    BY NodesBound DEF InternInv
  <2> QED BY <1>3, <2>1, MemosStay DEF InternInv
<1> QED BY <1>1, <1>2, <1>4 DEF InternInv

\* A node is made: its parts are there, and no node made since the table was
\* dropped has its data.
LEMMA MissKeeps ==
    ASSUME InternInv, NEW op, NEW kids, kids = [k \in DOMAIN kids |-> kids[k]],
           \A k \in DOMAIN kids : kids[k] \in Alive,
           NEW d, d = Node(op, kids), NEW h, h = HashOf(d),
           Found(Table[1], Table[2], d) = {}, nextId <= MaxNodes,
           nodes' = With(nodes, nextId, d), nextId' = nextId + 1, held' = held \cup {nextId},
           primary' = PrimaryWith(Table[1], h, nextId),
           overflow' = OverflowWith(Table[1], Table[2], h, nextId),
           UNCHANGED <<weak, base, memos>>
    PROVE  InternInv'
<1>1. /\ nextId \in Nat /\ base \in Nat /\ base <= nextId /\ MaxNodes \in Nat
      /\ DOMAIN nodes \subseteq 1 .. (nextId - 1) /\ nextId \notin DOMAIN nodes
      /\ DOMAIN nodes \subseteq 1 .. MaxNodes /\ held \subseteq DOMAIN nodes
      /\ \A i \in DOMAIN nodes : i < nextId /\ i \in Nat
  BY NodesBound, InternerAssumption DEF InternInv, CountersInv
<1>2. /\ DOMAIN nodes' = DOMAIN nodes \cup {nextId} /\ nodes'[nextId] = d
      /\ \A i \in DOMAIN nodes : nodes'[i] = nodes[i]
  BY <1>1 DEF With
<1>3. /\ \A g \in DOMAIN Table[2] : Table[2][g] \in Seq(Nat)
      /\ \A i \in DOMAIN nodes : i >= base => Tabled(nodes, Table[1], Table[2], i)
  BY TableFacts DEF InternInv
<1>4. CountersInv'
  <2>1. nextId' \in 1 .. (MaxNodes + 1) /\ base \in 1 .. nextId'
    BY <1>1 DEF InternInv, CountersInv
  <2>2. DOMAIN nodes' \subseteq 1 .. (nextId' - 1)
    <3>1. nextId' - 1 = nextId /\ nextId \in 1 .. nextId
      BY <1>1 DEF InternInv, CountersInv
    <3>2. \A i \in DOMAIN nodes : i \in 1 .. nextId
      BY <1>1
    <3> QED BY <1>2, <3>1, <3>2
  <2> QED BY <1>1, <1>2, <2>1, <2>2 DEF InternInv, CountersInv
<1>5. PartsOlder(nodes')
  <2>1. d.op = op /\ d.kids = kids
    BY DEF Node
  <2>2. ASSUME NEW i \in DOMAIN nodes
        PROVE  /\ nodes[i] = Node(nodes[i].op, nodes[i].kids)
               /\ nodes[i].kids = [k \in DOMAIN nodes[i].kids |-> nodes[i].kids[k]]
               /\ \A k \in DOMAIN nodes[i].kids :
                     nodes[i].kids[k] \in DOMAIN nodes' /\ nodes[i].kids[k] < i
    BY <1>2 DEF InternInv, PartsOlder
  <2>3. \A k \in DOMAIN kids : kids[k] \in DOMAIN nodes' /\ kids[k] < nextId
    BY <1>1, <1>2 DEF Alive
  <2>4. \A i \in DOMAIN nodes' : \/ i = nextId /\ nodes'[i] = d
                                 \/ i \in DOMAIN nodes /\ nodes'[i] = nodes[i]
    BY <1>2
  <2> QED BY <2>1, <2>2, <2>3, <2>4 DEF PartsOlder
<1>6. \A i \in DOMAIN nodes : i >= base => nodes[i] # d
  BY <1>3, FoundFacts
<1>7. TableInv'
  <2>1. /\ \A g \in DOMAIN overflow' : overflow'[g] \in Seq(Nat)
        /\ InPrimary(primary', h, nextId) \/ InOverflow(overflow', h, nextId)
        /\ \A g, i : i \in Alive /\ InPrimary(Table[1], g, i) => InPrimary(primary', g, i)
        /\ \A g, i : i \in Alive /\ InOverflow(Table[2], g, i) => InOverflow(overflow', g, i)
    BY <1>1, <1>3, EntryFacts
  <2>2. ASSUME NEW i \in DOMAIN nodes', i >= base
        PROVE  Tabled(nodes', primary', overflow', i)
    <3>1. CASE i = nextId
      BY <1>2, <2>1, <3>1 DEF Tabled, InPrimary, InOverflow
    <3>2. CASE i \in DOMAIN nodes
      <4> DEFINE g == HashOf(nodes[i])
      <4>1. InPrimary(Table[1], g, i) \/ InOverflow(Table[2], g, i)
        BY <1>3, <2>2, <3>2 DEF Tabled, InPrimary, InOverflow
      <4>2. g = HashOf(nodes'[i]) /\ i \in Alive
        BY <1>2, <3>2 DEF Alive
      <4> HIDE DEF g
      <4>3. InPrimary(primary', g, i) \/ InOverflow(overflow', g, i)
        BY <2>1, <4>1, <4>2
      <4> QED BY <4>2, <4>3 DEF Tabled, InPrimary, InOverflow
    <3> QED BY <1>2, <3>1, <3>2
  <2> QED BY <2>1, <2>2 DEF TableInv, Tabled
<1>8. SameDataSameNode'
  <2> SUFFICES ASSUME NEW i \in DOMAIN nodes', NEW j \in DOMAIN nodes',
                      i >= base, j >= base, nodes'[i] = nodes'[j]
               PROVE  i = j
    BY DEF SameDataSameNode, Alive
  <2>1. CASE i \in DOMAIN nodes /\ j \in DOMAIN nodes
    BY <1>2, <2>1 DEF InternInv, SameDataSameNode, Alive
  <2>2. CASE i = nextId /\ j \in DOMAIN nodes
    BY <1>2, <1>6, <2>2
  <2>3. CASE j = nextId /\ i \in DOMAIN nodes
    BY <1>2, <1>6, <2>3
  <2> QED BY <1>2, <2>1, <2>2, <2>3
<1>9. \A i \in DOMAIN nodes : Term(i)' = Term(i)
  <2>1. DOMAIN nodes' \subseteq 1 .. MaxNodes /\ PartsOlder(nodes)
    <3>1. nextId \in 1 .. MaxNodes
      BY <1>1 DEF InternInv, CountersInv
    <3> QED BY <1>1, <1>2, <3>1 DEF InternInv
  <2>2. \A i \in DOMAIN nodes : TermIn(nodes)[i] = TermIn(nodes')[i]
    BY <1>1, <1>2, <1>5, <2>1, TermsAgree
  <2>3. \A i : Term(i)' = TermIn(nodes')[i] /\ Term(i) = TermIn(nodes)[i]
    BY DEF Term, TermIn
  <2> QED BY <2>2, <2>3
<1>10. MemoInv' /\ MemosFit'
  <2>1. \A i \in DOMAIN nodes' : i < nextId => i \in DOMAIN nodes /\ Term(i)' = Term(i)
    BY <1>1, <1>2, <1>9
  <2>2. nextId' \in Nat /\ nextId <= nextId' /\ UNCHANGED memos
    BY <1>1
  <2> QED BY <1>1, <2>1, <2>2, MemosStay DEF InternInv
<1>11. PartsOlder(nodes)'
  BY <1>5 DEF PartsOlder
<1> QED BY <1>4, <1>7, <1>8, <1>10, <1>11 DEF InternInv

LEMMA InternKeeps ==
    ASSUME InternInv, NEW op \in Ops, NEW kids \in Kids(op), Intern(op, kids)
    PROVE  InternInv'
<1> DEFINE d == Node(op, kids)
           hit == Found(Table[1], Table[2], d)
<1>1. kids = [k \in DOMAIN kids |-> kids[k]] /\ \A k \in DOMAIN kids : kids[k] \in Alive
  <2>1. \A k \in DOMAIN kids : kids[k] \in Alive
    BY DEF Intern
  <2>2. CASE kids = <<>>
    BY <2>2
  <2>3. CASE kids \in [1 .. Arity[op] -> Alive]
    BY <2>3
  <2>4. kids = <<>> \/ kids \in [1 .. Arity[op] -> Alive]
    BY DEF Kids
  <2> QED BY <2>1, <2>2, <2>3, <2>4
<1>2. CASE /\ \E i \in hit : held' = held \cup {i}
           /\ primary' = Table[1] /\ overflow' = Table[2]
           /\ UNCHANGED <<nodes, nextId>>
  <2>1. held' \subseteq DOMAIN nodes
    BY <1>2, FoundFacts DEF InternInv, CountersInv
  <2>2. UNCHANGED <<weak, nodes, nextId, base, memos>>
    BY <1>2 DEF Intern
  <2> QED BY <1>2, <2>1, <2>2, HitKeeps
<1>3. CASE /\ hit = {} /\ nextId <= MaxNodes
           /\ nodes' = With(nodes, nextId, d) /\ nextId' = nextId + 1
           /\ held' = held \cup {nextId}
           /\ primary' = PrimaryWith(Table[1], HashOf(d), nextId)
           /\ overflow' = OverflowWith(Table[1], Table[2], HashOf(d), nextId)
  <2>1. UNCHANGED <<weak, base, memos>>
    BY DEF Intern
  <2> HIDE DEF d
  <2>2. d = Node(op, kids)
    BY DEF d
  <2> QED BY <1>1, <1>3, <2>1, <2>2, MissKeeps
<1> QED BY <1>2, <1>3 DEF Intern, NewId, PrimaryWith, OverflowWith

LEMMA StutterKeeps ==
    ASSUME InternInv, UNCHANGED internVars
    PROVE  InternInv'
<1>1. /\ UNCHANGED <<weak, nodes, nextId, held, tables, base>>
      /\ numbers' = numbers /\ numbered' = numbered /\ iotaMemo' = iotaMemo
  BY DEF internVars, tables
<1>2. \A j : Term(j)' = Term(j)
  BY <1>1 DEF Term, TermIn
<1>3. MemoInv'
  BY <1>1 DEF InternInv, MemoInv
<1>4. MemosFit'
  BY <1>1, <1>2 DEF InternInv, MemosFit, NumberedAnswersFit, RememberedPeelsFit, Alive
<1> QED BY <1>1, <1>3, <1>4, AskingKeeps

LEMMA NextInv == InternInv /\ [InternNext]_internVars => InternInv'
<1> SUFFICES ASSUME InternInv, [InternNext]_internVars PROVE InternInv'
  OBVIOUS
<1>1. ASSUME NEW op \in Ops, NEW kids \in Kids(op), Intern(op, kids) PROVE InternInv'
  BY <1>1, InternKeeps
<1>2. ASSUME NEW i \in held, Release(i) PROVE InternInv'
  BY <1>2, ReleaseKeeps
<1>3. ASSUME NEW i \in Alive, NEW x \in Extras, AskNumbered(i, x) PROVE InternInv'
  BY <1>3, AskNumberedKeeps
<1>4. ASSUME NEW i \in Alive, PeelLiteral(i) PROVE InternInv'
  BY <1>4, PeelLiteralKeeps
<1>5. ASSUME NEW fresh \in BOOLEAN, CheckDecl(fresh) PROVE InternInv'
  BY <1>5, CheckDeclKeeps
<1>6. CASE UNCHANGED internVars
  BY <1>6, StutterKeeps
<1> QED
  BY <1>1, <1>2, <1>3, <1>4, <1>5, <1>6 DEF InternNext

THEOREM InvariantHolds == InternSpec => []InternInv
<1>1. InternInit => InternInv
  BY InitInv
<1>2. InternInv /\ [InternNext]_internVars => InternInv'
  BY NextInv
<1> QED
  BY <1>1, <1>2, PTL DEF InternSpec

\* Comparing live nodes by identity is comparing what they stand for, whatever
\* hashes collide and whatever is swept or dropped in between.
THEOREM IdentityIsExact == InternSpec => []IdentityIsEquality
<1>1. InternInv => IdentityIsEquality
  <2> SUFFICES ASSUME InternInv, base = 1,
                      NEW i \in Alive, NEW j \in Alive, Term(i) = Term(j)
               PROVE  i = j
    BY DEF InternInv, IdentityIsEquality, EqualTermsAreOneNode
  <2>1. PartsOlder(nodes) /\ DOMAIN nodes \subseteq 1 .. MaxNodes
    BY NodesBound DEF InternInv
  <2>2. \A k, l \in DOMAIN nodes : nodes[k] = nodes[l] => k = l
    BY <2>1, InternerAssumption DEF InternInv, SameDataSameNode, Alive
  <2>3. TermIn(nodes)[i] = TermIn(nodes)[j]
    BY DEF Term
  <2> QED BY <2>1, <2>2, <2>3, IdentityFollows DEF Alive
<1> QED
  BY <1>1, InvariantHolds, PTL

\* No memo is read for another expression, or under another key, than it was
\* made for, although numbers start over, nodes die and tables are dropped.
THEOREM MemosAreRight == InternSpec => []MemosFit
<1>1. InternInv => MemosFit
  BY DEF InternInv
<1> QED
  BY <1>1, InvariantHolds, PTL

-----------------------------------------------------------------------------
(* The type invariant.                                                     *)

\* What holds the roots, and the parts of what it holds, holds all that is
\* alive.
LEMMA AliveLeast ==
    ASSUME NEW ns, DOMAIN ns \subseteq 1 .. MaxNodes, NEW roots, NEW X,
           \A i \in DOMAIN ns : i \in roots => i \in X,
           \A p, c \in DOMAIN ns : p \in X /\ c < p /\ HasChild(ns, p, c) => c \in X
    PROVE  AliveFrom(ns, roots) \subseteq X
<1> DEFINE A == AliveFrom(ns, roots)
           rank == [i \in A |-> MaxNodes - i]
<1>1. /\ A \subseteq DOMAIN ns
      /\ \A i \in A : i \in roots \/ \E p \in A : i < p /\ HasChild(ns, p, i)
  BY AliveFacts
<1> HIDE DEF A
<1>2. MaxNodes \in Nat /\ \A i \in A : i \in Nat /\ i <= MaxNodes
  BY <1>1, InternerAssumption
<1>3. rank \in [A -> Nat]
  BY <1>2
<1>4. ASSUME NEW i \in A, \A j \in A : rank[j] < rank[i] => j \in X
      PROVE  i \in X
  <2>1. CASE i \in roots
    BY <1>1, <2>1
  <2>2. CASE i \notin roots
    <3>1. PICK p \in A : i < p /\ HasChild(ns, p, i)
      BY <1>1, <2>2
    <3>2. rank[p] < rank[i]
      BY <1>2, <3>1
    <3> QED BY <1>1, <1>4, <3>1, <3>2
  <2> QED BY <2>1, <2>2
<1> HIDE DEF rank
<1>5. A \subseteq X
  BY <1>3, <1>4, RankInduction
<1> QED BY <1>5 DEF A

\* What is alive stays alive when nodes and roots are added.
LEMMA AliveGrows ==
    ASSUME NEW ns1, DOMAIN ns1 \subseteq 1 .. MaxNodes, NEW roots1,
           NEW ns2, DOMAIN ns2 \subseteq 1 .. MaxNodes, NEW roots2,
           \A i \in DOMAIN ns1 : i \in DOMAIN ns2 /\ ns2[i] = ns1[i],
           \A i \in DOMAIN ns1 : i \in roots1 => i \in roots2
    PROVE  AliveFrom(ns1, roots1) \subseteq AliveFrom(ns2, roots2)
<1> DEFINE X == AliveFrom(ns2, roots2)
<1>1. /\ \A i \in DOMAIN ns2 : i \in roots2 => i \in X
      /\ \A p \in X, c \in DOMAIN ns2 : c < p /\ HasChild(ns2, p, c) => c \in X
  BY AliveFacts
<1>2. \A p, c \in DOMAIN ns1 : HasChild(ns1, p, c) => HasChild(ns2, p, c)
  BY DEF HasChild
<1> HIDE DEF X
<1>3. AliveFrom(ns1, roots1) \subseteq X
  <2>1. \A i \in DOMAIN ns1 : i \in roots1 => i \in X
    BY <1>1
  <2>2. \A p, c \in DOMAIN ns1 : p \in X /\ c < p /\ HasChild(ns1, p, c) => c \in X
    BY <1>1, <1>2
  <2> QED BY <2>1, <2>2, AliveLeast
<1> QED BY <1>3 DEF X

\* All that a removal leaves is alive.
LEMMA SweepLeavesAlive ==
    ASSUME NEW ns, DOMAIN ns \subseteq 1 .. MaxNodes, NEW roots
    PROVE  DOMAIN Sweep(ns, roots) = AliveFrom(Sweep(ns, roots), roots)
<1> DEFINE A == AliveFrom(ns, roots)
           left == Sweep(ns, roots)
           X == AliveFrom(left, roots)
<1>1. /\ A \subseteq DOMAIN ns /\ \A i \in DOMAIN ns : i \in roots => i \in A
      /\ \A p \in A, c \in DOMAIN ns : c < p /\ HasChild(ns, p, c) => c \in A
  BY AliveFacts
<1>2. DOMAIN left = A /\ \A i \in A : left[i] = ns[i]
  BY DEF Sweep
<1> HIDE DEF left, A
<1>3. DOMAIN left \subseteq 1 .. MaxNodes
  BY <1>1, <1>2
<1>4. /\ X \subseteq DOMAIN left /\ \A i \in DOMAIN left : i \in roots => i \in X
      /\ \A p \in X, c \in DOMAIN left : c < p /\ HasChild(left, p, c) => c \in X
  BY <1>3, AliveFacts
<1> HIDE DEF X
<1>5. \A i \in DOMAIN ns : i \in roots => i \in X
  BY <1>1, <1>2, <1>4
<1>6. ASSUME NEW p \in DOMAIN ns, NEW c \in DOMAIN ns, p \in X, c < p, HasChild(ns, p, c)
      PROVE  c \in X
  <2>1. p \in A /\ left[p] = ns[p]
    BY <1>2, <1>4, <1>6
  <2>2. c \in A
    BY <1>1, <1>6, <2>1
  <2>3. HasChild(left, p, c)
    BY <1>6, <2>1 DEF HasChild
  <2> QED BY <1>2, <1>4, <1>6, <2>2, <2>3
<1>7. A \subseteq X
  BY <1>5, <1>6, AliveLeast DEF A
<1> QED BY <1>2, <1>4, <1>7 DEF left, X

-----------------------------------------------------------------------------
(* The entries of the table, and how many they are.                        *)

InTable(pr, ov, i) == (\E h : InPrimary(pr, h, i)) \/ (\E h : InOverflow(ov, h, i))

LEMMA EntriesAre ==
    /\ \A i : i \in Entries <=> InTable(primary, overflow, i)
    /\ \A i : i \in Entries' <=> InTable(primary', overflow', i)
  BY DEF Entries, InTable, InPrimary, InOverflow

\* A sweep makes no entries and lengthens nothing.
LEMMA SweptTable ==
    ASSUME TableInv
    PROVE  /\ \A i : InTable(Table[1], Table[2], i) => i \in Entries
           /\ DOMAIN Table[1] \subseteq DOMAIN primary
           /\ Slots(Table[2]) \subseteq Slots(overflow)
           /\ ~weak => Table[1] = primary /\ Table[2] = overflow
<1>1. CASE ~SweepDue
  <2>1. Table[1] = primary /\ Table[2] = overflow
    BY <1>1 DEF Table
  <2> QED BY <2>1, EntriesAre
<1>2. CASE SweepDue
  <2> DEFINE pr == Table[1]
             ov == Table[2]
  <2>1. /\ pr = [h \in {g \in DOMAIN primary : primary[g] \in Alive} |-> primary[h]]
        /\ ov = [h \in {g \in DOMAIN overflow : LiveEntries(overflow[g]) # <<>>}
                    |-> LiveEntries(overflow[h])]
    BY <1>2 DEF Table, Collected, Restrict
  <2> HIDE DEF pr, ov
  <2>2. \A h \in DOMAIN ov :
          /\ h \in DOMAIN overflow /\ DOMAIN ov[h] \subseteq DOMAIN overflow[h]
          /\ \A k \in DOMAIN ov[h] : \E j \in DOMAIN overflow[h] : ov[h][k] = overflow[h][j]
    <3> SUFFICES ASSUME NEW h \in DOMAIN ov
                 PROVE  /\ h \in DOMAIN overflow /\ DOMAIN ov[h] \subseteq DOMAIN overflow[h]
                        /\ \A k \in DOMAIN ov[h] :
                              \E j \in DOMAIN overflow[h] : ov[h][k] = overflow[h][j]
      OBVIOUS
    <3>1. h \in DOMAIN overflow /\ overflow[h] \in Seq(Nat) /\ ov[h] = LiveEntries(overflow[h])
      BY <2>1 DEF TableInv
    <3>2. /\ ov[h] \in Seq(Nat) /\ Len(ov[h]) <= Len(overflow[h])
          /\ \A k \in DOMAIN ov[h] : \E j \in DOMAIN overflow[h] : ov[h][k] = overflow[h][j]
      BY <3>1, LiveEntriesFacts
    <3>3. DOMAIN ov[h] = 1 .. Len(ov[h]) /\ DOMAIN overflow[h] = 1 .. Len(overflow[h])
          /\ Len(ov[h]) \in Nat /\ Len(overflow[h]) \in Nat
      BY <3>1, <3>2
    <3>4. DOMAIN ov[h] \subseteq DOMAIN overflow[h]
      BY <3>2, <3>3
    <3> QED BY <3>1, <3>2, <3>4
  <2>3. DOMAIN pr \subseteq DOMAIN primary /\ \A h \in DOMAIN pr : pr[h] = primary[h]
    BY <2>1
  <2>4. \A i : InTable(pr, ov, i) => InTable(primary, overflow, i)
    BY <2>2, <2>3 DEF InTable, InPrimary, InOverflow
  <2>5. Slots(ov) \subseteq Slots(overflow)
    BY <2>2 DEF Slots
  <2>6. weak
    BY <1>2 DEF SweepDue
  <2> QED BY <2>3, <2>4, <2>5, <2>6, EntriesAre DEF pr, ov
<1> QED BY <1>1, <1>2

\* Both parts of the table can be counted.
Countable(pr, ov) == IsFiniteSet(DOMAIN pr) /\ IsFiniteSet(Slots(ov))

LEMMA LengthIsNumber ==
    ASSUME NEW pr, NEW ov, Countable(pr, ov)
    PROVE  TableLen(pr, ov) \in Nat
  BY FS_CardinalityType DEF TableLen, Countable

\* A new entry is one more, and one that was not there before.
LEMMA OneEntryMore ==
    ASSUME NEW pr, NEW ov, \A g \in DOMAIN ov : ov[g] \in Seq(Nat), Countable(pr, ov),
           NEW h, NEW new \in Nat
    PROVE  /\ Countable(PrimaryWith(pr, h, new), OverflowWith(pr, ov, h, new))
           /\ TableLen(PrimaryWith(pr, h, new), OverflowWith(pr, ov, h, new))
                <= TableLen(pr, ov) + 1
           /\ \A i : InTable(PrimaryWith(pr, h, new), OverflowWith(pr, ov, h, new), i) =>
                 i = new \/ InTable(pr, ov, i)
<1> DEFINE pr1 == PrimaryWith(pr, h, new)
           ov1 == OverflowWith(pr, ov, h, new)
<1>1. /\ IsFiniteSet(DOMAIN pr) /\ Cardinality(DOMAIN pr) \in Nat
      /\ IsFiniteSet(Slots(ov)) /\ Cardinality(Slots(ov)) \in Nat
  BY FS_CardinalityType DEF Countable
<1>2. CASE ~PrimaryTaken(pr, h)
  <2>1. ov1 = ov /\ DOMAIN pr1 = DOMAIN pr \cup {h}
        /\ \A g \in DOMAIN pr1 : pr1[g] = IF g = h THEN new ELSE pr[g]
    BY <1>2 DEF With, PrimaryWith, OverflowWith
  <2> HIDE DEF pr1, ov1
  <2>2. /\ IsFiniteSet(DOMAIN pr1)
        /\ Cardinality(DOMAIN pr1) = Cardinality(DOMAIN pr)
           \/ Cardinality(DOMAIN pr1) = Cardinality(DOMAIN pr) + 1
    <3> DEFINE was == DOMAIN pr
    <3>1. IsFiniteSet(was) /\ DOMAIN pr1 = was \cup {h}
      BY <1>1, <2>1
    <3> HIDE DEF was
    <3>2. /\ IsFiniteSet(was \cup {h})
          /\ \/ Cardinality(was \cup {h}) = Cardinality(was)
             \/ Cardinality(was \cup {h}) = Cardinality(was) + 1
      BY <3>1, FS_AddElement
    <3> QED BY <3>1, <3>2 DEF was
  <2>3. TableLen(pr1, ov1) <= TableLen(pr, ov) + 1
    BY <1>1, <2>1, <2>2 DEF TableLen
  <2>4. \A i : InTable(pr1, ov1, i) => i = new \/ InTable(pr, ov, i)
    BY <2>1 DEF InTable, InPrimary
  <2> QED BY <1>1, <2>1, <2>2, <2>3, <2>4 DEF pr1, ov1, Countable
<1>3. CASE PrimaryTaken(pr, h)
  <2> DEFINE old == Bucket(ov, h)
             long == Append(old, new)
             slot == <<h, Len(old) + 1>>
  <2>1. pr1 = pr /\ DOMAIN ov1 = DOMAIN ov \cup {h}
        /\ \A g \in DOMAIN ov1 : ov1[g] = IF g = h THEN long ELSE ov[g]
    BY <1>3 DEF With, PrimaryWith, OverflowWith
  <2> HIDE DEF pr1, ov1
  <2>2. old \in Seq(Nat) /\ (h \in DOMAIN ov => old = ov[h])
        /\ (h \notin DOMAIN ov => DOMAIN old = {})
    BY DEF Bucket
  <2> HIDE DEF old
  <2>3. /\ Len(old) \in Nat
        /\ DOMAIN long = 1 .. Len(old) + 1 /\ DOMAIN old = 1 .. Len(old)
        /\ long[Len(old) + 1] = new /\ \A k \in 1 .. Len(old) : long[k] = old[k]
    BY <2>2
  <2> HIDE DEF long
  <2>4. \A k \in DOMAIN long : \/ k = Len(old) + 1 /\ long[k] = new
                               \/ k \in DOMAIN old /\ h \in DOMAIN ov /\ old = ov[h]
                                  /\ long[k] = ov[h][k]
    <3> SUFFICES ASSUME NEW k \in DOMAIN long, k # Len(old) + 1
                 PROVE  k \in DOMAIN old /\ h \in DOMAIN ov /\ old = ov[h] /\ long[k] = ov[h][k]
      BY <2>3
    <3>1. k \in DOMAIN old /\ long[k] = old[k]
      BY <2>3
    <3> QED BY <2>2, <3>1
  <2>5. Slots(ov1) \subseteq Slots(ov) \cup {slot}
    <3> SUFFICES ASSUME NEW g \in DOMAIN ov1, NEW k \in DOMAIN ov1[g]
                 PROVE  <<g, k>> \in Slots(ov) \cup {slot}
      BY DEF Slots
    <3>1. CASE g = h
      BY <2>1, <2>4, <3>1 DEF Slots
    <3>2. CASE g # h
      BY <2>1, <3>2 DEF Slots
    <3> QED BY <3>1, <3>2
  <2> HIDE DEF slot
  <2>6. IsFiniteSet(Slots(ov1)) /\ Cardinality(Slots(ov1)) <= Cardinality(Slots(ov)) + 1
        /\ Cardinality(Slots(ov1)) \in Nat
    <3> DEFINE more == Slots(ov) \cup {slot}
    <3>1. IsFiniteSet(more) /\ (\/ Cardinality(more) = Cardinality(Slots(ov))
                                \/ Cardinality(more) = Cardinality(Slots(ov)) + 1)
      BY <1>1, FS_AddElement
    <3>2. Slots(ov1) \in SUBSET more
      BY <2>5
    <3> HIDE DEF more
    <3>3. IsFiniteSet(Slots(ov1)) /\ Cardinality(Slots(ov1)) <= Cardinality(more)
      BY <3>1, <3>2, FS_Subset
    <3>4. Cardinality(Slots(ov1)) \in Nat
      BY <3>3, FS_CardinalityType
    <3> QED BY <1>1, <3>1, <3>3, <3>4
  <2>7. TableLen(pr1, ov1) <= TableLen(pr, ov) + 1
    BY <1>1, <2>1, <2>6 DEF TableLen
  <2>8. \A i : InTable(pr1, ov1, i) => i = new \/ InTable(pr, ov, i)
    <3> SUFFICES ASSUME NEW i, NEW g \in DOMAIN ov1, NEW k \in DOMAIN ov1[g], ov1[g][k] = i
                 PROVE  i = new \/ InTable(pr, ov, i)
      BY <2>1 DEF InTable, InOverflow
    <3>1. CASE g = h
      BY <2>1, <2>4, <3>1 DEF InTable, InOverflow
    <3>2. CASE g # h
      BY <2>1, <3>2 DEF InTable, InOverflow
    <3> QED BY <3>1, <3>2
  <2> QED BY <1>1, <2>1, <2>6, <2>7, <2>8 DEF pr1, ov1, Countable
<1> QED BY <1>2, <1>3


-----------------------------------------------------------------------------
(* The steps.                                                              *)

\* What is allocated is alive.
Rooted == DOMAIN nodes = AliveFrom(nodes, Roots)

Shaped ==
    \A i \in DOMAIN nodes :
        nodes[i].op \in Ops /\ DOMAIN nodes[i].kids = 1 .. Arity[nodes[i].op]

\* The table can be counted, and under reclamation is swept in time.
Counted ==
    /\ Countable(primary, overflow)
    /\ nextSweep \in Nat
    /\ weak => TableLen(primary, overflow) <= nextSweep

TypedInv ==
    /\ Rooted
    /\ Shaped
    /\ \A i : i \in Entries => i \in 1 .. (nextId - 1)
    /\ Counted

LEMMA EmptyTable == Countable(<<>>, <<>>) /\ TableLen(<<>>, <<>>) = 0
<1>1. DOMAIN <<>> = {} /\ Slots(<<>>) = {}
  BY DEF Slots
<1> QED BY <1>1, FS_EmptySet DEF Countable, TableLen

LEMMA TypedInit == InternInit => TypedInv
<1> SUFFICES ASSUME InternInit PROVE TypedInv
  OBVIOUS
<1>1. DOMAIN nodes = {} /\ primary = <<>> /\ overflow = <<>> /\ nextSweep = CollectStep
  BY DEF InternInit
<1>2. Rooted
  <2>1. AliveFrom(nodes, Roots) \subseteq DOMAIN nodes
    BY DEF AliveFrom
  <2> QED BY <1>1, <2>1 DEF Rooted
<1>3. Counted
  <2>1. nextSweep \in Nat
    BY <1>1, InternerAssumption
  <2> QED BY <1>1, <2>1, EmptyTable DEF Counted
<1>4. \A i : i \notin Entries
  BY <1>1 DEF Entries
<1> QED BY <1>1, <1>2, <1>3, <1>4 DEF TypedInv, Shaped

\* Nothing that the types are about changes.
LEMMA TypedStays ==
    ASSUME TypedInv, UNCHANGED <<weak, nodes, nextId, held, tables>>
    PROVE  TypedInv'
<1>1. /\ weak' = weak /\ nodes' = nodes /\ nextId' = nextId /\ held' = held
      /\ primary' = primary /\ overflow' = overflow /\ nextSweep' = nextSweep
  BY DEF tables
<1>2. Entries' = Entries /\ Roots' = Roots
  BY <1>1 DEF Entries, Roots
<1>3. Rooted'
  <2>1. AliveFrom(nodes, Roots)' = AliveFrom(nodes, Roots)
    BY <1>1, <1>2 DEF AliveFrom, HasChild
  <2> QED BY <1>1, <2>1 DEF TypedInv, Rooted
<1>4. Shaped'
  BY <1>1 DEF TypedInv, Shaped
<1>5. Counted'
  BY <1>1 DEF TypedInv, Counted, Countable, TableLen, Slots
<1> QED BY <1>1, <1>2, <1>3, <1>4, <1>5 DEF TypedInv

\* Nodes go: what is left is alive, and what it was.
LEMMA TypedGo ==
    ASSUME InternInv, TypedInv, nodes' = Sweep(nodes, Roots')
    PROVE  Rooted' /\ Shaped'
<1>1. DOMAIN nodes \subseteq 1 .. MaxNodes /\ PartsOlder(nodes)
  BY NodesBound DEF InternInv
<1>2. Rooted'
  <2> DEFINE roots == Roots'
  <2>1. DOMAIN Sweep(nodes, roots) = AliveFrom(Sweep(nodes, roots), roots)
    <3> HIDE DEF roots
    <3> QED BY <1>1, SweepLeavesAlive
  <2>2. DOMAIN nodes' = AliveFrom(nodes', Roots')
    BY <2>1
  <2>3. AliveFrom(nodes, Roots)' = AliveFrom(nodes', Roots')
    BY DEF AliveFrom, HasChild
  <2> QED BY <2>2, <2>3 DEF Rooted
<1>3. \A i \in DOMAIN nodes' : i \in DOMAIN nodes /\ nodes'[i] = nodes[i]
  BY <1>1, SweepFacts
<1>4. Shaped'
  BY <1>3 DEF TypedInv, Shaped
<1> QED BY <1>2, <1>4

LEMMA ReleaseTyped ==
    ASSUME InternInv, TypedInv, NEW i \in held, Release(i)
    PROVE  TypedInv'
<1>1. /\ UNCHANGED <<weak, nextId, primary, overflow, nextSweep>>
      /\ nodes' = Sweep(nodes, IF weak THEN held' ELSE held' \cup Entries)
  BY DEF Release, tables
<1>2. Entries' = Entries
  BY <1>1 DEF Entries
<1>3. Roots' = IF weak THEN held' ELSE held' \cup Entries
  BY <1>1, <1>2 DEF Roots
<1>4. Rooted' /\ Shaped'
  BY <1>1, <1>3, TypedGo
<1>5. Counted'
  BY <1>1 DEF TypedInv, Counted, Countable, TableLen, Slots
<1> QED BY <1>1, <1>2, <1>4, <1>5 DEF TypedInv

LEMMA CheckDeclTyped ==
    ASSUME InternInv, TypedInv, NEW fresh \in BOOLEAN, CheckDecl(fresh)
    PROVE  TypedInv'
<1>1. CASE ~TableIsLarge
  <2>1. UNCHANGED <<weak, nodes, nextId, held, tables>>
    BY <1>1 DEF CheckDecl
  <2> QED BY <2>1, TypedStays
<1>2. CASE TableIsLarge
  <2>1. /\ primary' = <<>> /\ overflow' = <<>> /\ nextSweep' = CollectStep
        /\ nodes' = Sweep(nodes, held) /\ weak' = weak /\ held' = held
    BY <1>2 DEF CheckDecl
  <2>2. \A i : i \notin Entries'
    BY <2>1 DEF Entries
  <2>3. Roots' = held
    BY <2>1, <2>2 DEF Roots
  <2>4. Rooted' /\ Shaped'
    BY <2>1, <2>3, TypedGo
  <2>5. Counted'
    <3>1. nextSweep' \in Nat
      BY <2>1, InternerAssumption
    <3>2. /\ Countable(primary, overflow)' <=> Countable(primary', overflow')
          /\ TableLen(primary, overflow)' = TableLen(primary', overflow')
      BY DEF Countable, TableLen, Slots
    <3> QED BY <2>1, <3>1, <3>2, EmptyTable DEF Counted
  <2> QED BY <2>2, <2>4, <2>5 DEF TypedInv
<1> QED BY <1>1, <1>2

\* What intern does to the tables: a new entry, if any, is one more than the
\* sweep left, and the next sweep comes at least one later.
LEMMA CountedStays ==
    ASSUME TableInv, TypedInv, weak' = weak,
           nextSweep' = IF SweepDue THEN TableLen(Table[1], Table[2]) + CollectStep
                        ELSE nextSweep,
           Countable(primary', overflow'),
           TableLen(primary', overflow') <= TableLen(Table[1], Table[2]) + 1
    PROVE  Counted'
<1>1. Countable(Table[1], Table[2])
  <2>1. /\ DOMAIN Table[1] \in SUBSET DOMAIN primary
        /\ Slots(Table[2]) \in SUBSET Slots(overflow)
    BY SweptTable
  <2>2. IsFiniteSet(DOMAIN primary) /\ IsFiniteSet(Slots(overflow))
    BY DEF TypedInv, Counted, Countable
  <2>3. IsFiniteSet(DOMAIN Table[1])
    BY <2>1, <2>2, FS_Subset
  <2>4. IsFiniteSet(Slots(Table[2]))
    BY <2>1, <2>2, FS_Subset
  <2> QED BY <2>3, <2>4 DEF Countable
<1>2. /\ TableLen(Table[1], Table[2]) \in Nat /\ TableLen(primary', overflow') \in Nat
      /\ TableLen(primary, overflow) \in Nat
      /\ nextSweep \in Nat /\ CollectStep \in Nat /\ CollectStep >= 1
  <2>1. TableLen(Table[1], Table[2]) \in Nat
    BY <1>1, LengthIsNumber
  <2>2. TableLen(primary', overflow') \in Nat
    BY LengthIsNumber
  <2>3. TableLen(primary, overflow) \in Nat /\ nextSweep \in Nat
    BY LengthIsNumber DEF TypedInv, Counted
  <2> QED BY <2>1, <2>2, <2>3, InternerAssumption
<1>3. nextSweep' \in Nat
  BY <1>2
<1>4. weak => TableLen(primary', overflow') <= nextSweep'
  <2>1. CASE SweepDue
    BY <1>2, <2>1
  <2>2. CASE ~SweepDue /\ weak
    <3>1. Table[1] = primary /\ Table[2] = overflow
      BY <2>2 DEF Table
    <3>2. ~(TableLen(primary, overflow) >= nextSweep)
      BY <2>2 DEF SweepDue
    <3> QED BY <1>2, <2>2, <3>1, <3>2
  <2> QED BY <2>1, <2>2
<1>5. /\ Countable(primary, overflow)' <=> Countable(primary', overflow')
      /\ TableLen(primary, overflow)' = TableLen(primary', overflow')
  BY DEF Countable, TableLen, Slots
<1> QED BY <1>3, <1>4, <1>5 DEF Counted

\* No root goes, and what is added is a root: all of it is alive.
LEMMA RootedGrows ==
    ASSUME InternInv, TypedInv, InternInv',
           \A i \in DOMAIN nodes : i \in DOMAIN nodes' /\ nodes'[i] = nodes[i],
           \A i \in DOMAIN nodes : i \in Roots => i \in Roots',
           \A i \in DOMAIN nodes' : i \in DOMAIN nodes \/ i \in Roots'
    PROVE  Rooted'
<1> DEFINE roots == Roots'
           A == AliveFrom(nodes', roots)
<1>1. DOMAIN nodes \subseteq 1 .. MaxNodes
  BY NodesBound DEF InternInv
<1>2. DOMAIN nodes' \subseteq 1 .. MaxNodes
  <2>1. nextId' \in 1 .. (MaxNodes + 1) /\ DOMAIN nodes' \subseteq 1 .. (nextId' - 1)
    BY DEF InternInv, CountersInv
  <2> QED BY <2>1, InternerAssumption
<1>3. A \subseteq DOMAIN nodes' /\ \A i \in DOMAIN nodes' : i \in roots => i \in A
  <2> HIDE DEF roots
  <2> QED BY <1>2, AliveFacts
<1>4. DOMAIN nodes \subseteq A
  <2> HIDE DEF roots
  <2>1. \A i \in DOMAIN nodes : i \in Roots => i \in roots
    BY DEF roots
  <2>2. AliveFrom(nodes, Roots) \subseteq AliveFrom(nodes', roots)
    BY <1>1, <1>2, <2>1, AliveGrows
  <2> QED BY <2>2 DEF TypedInv, Rooted, roots
<1>5. DOMAIN nodes' = A
  BY <1>3, <1>4
<1>6. AliveFrom(nodes, Roots)' = A
  BY DEF AliveFrom, HasChild
<1> QED BY <1>5, <1>6 DEF Rooted

LEMMA HitTyped ==
    ASSUME InternInv, TypedInv, InternInv', NEW i, held' = held \cup {i},
           UNCHANGED <<weak, nodes, nextId>>,
           primary' = Table[1], overflow' = Table[2],
           nextSweep' = IF SweepDue THEN TableLen(Table[1], Table[2]) + CollectStep
                        ELSE nextSweep
    PROVE  TypedInv'
<1>1. /\ \A j : InTable(Table[1], Table[2], j) => j \in Entries
      /\ DOMAIN Table[1] \in SUBSET DOMAIN primary
      /\ Slots(Table[2]) \in SUBSET Slots(overflow)
      /\ ~weak => Table[1] = primary /\ Table[2] = overflow
  BY SweptTable DEF InternInv
<1>2. \A j : j \in Entries' => j \in Entries
  BY <1>1, EntriesAre
<1>3. Rooted'
  <2>1. ~weak => Entries' = Entries
    BY <1>1 DEF Entries
  <2>2. \A j : j \in Roots => j \in Roots'
    BY <2>1 DEF Roots
  <2> QED BY <2>2, RootedGrows
<1>4. Shaped'
  BY DEF TypedInv, Shaped
<1>5. Counted'
  <2>1. IsFiniteSet(DOMAIN primary) /\ IsFiniteSet(Slots(overflow))
    BY DEF TypedInv, Counted, Countable
  <2>2. IsFiniteSet(DOMAIN Table[1])
    BY <1>1, <2>1, FS_Subset
  <2>3. IsFiniteSet(Slots(Table[2]))
    BY <1>1, <2>1, FS_Subset
  <2>4. Countable(Table[1], Table[2])
    BY <2>2, <2>3 DEF Countable
  <2>5. TableLen(Table[1], Table[2]) \in Nat
    BY <2>4, LengthIsNumber
  <2>6. Countable(primary', overflow')
    BY <2>4
  <2>7. TableLen(primary', overflow') <= TableLen(Table[1], Table[2]) + 1
    BY <2>5
  <2> QED BY <2>6, <2>7, CountedStays DEF InternInv
<1> QED BY <1>2, <1>3, <1>4, <1>5 DEF TypedInv

LEMMA MissTyped ==
    ASSUME InternInv, TypedInv, InternInv', NEW op \in Ops, NEW kids,
           DOMAIN kids = 1 .. Arity[op],
           NEW d, d = Node(op, kids), NEW h,
           nodes' = With(nodes, nextId, d), nextId' = nextId + 1, held' = held \cup {nextId},
           primary' = PrimaryWith(Table[1], h, nextId),
           overflow' = OverflowWith(Table[1], Table[2], h, nextId),
           nextSweep' = IF SweepDue THEN TableLen(Table[1], Table[2]) + CollectStep
                        ELSE nextSweep,
           weak' = weak
    PROVE  TypedInv'
<1>1. nextId \in Nat /\ nextId >= 1 /\ nextId \notin DOMAIN nodes
      /\ \A i \in DOMAIN nodes : i # nextId
  BY NodesBound DEF InternInv, CountersInv
<1>2. /\ DOMAIN nodes' = DOMAIN nodes \cup {nextId} /\ nodes'[nextId] = d
      /\ \A i \in DOMAIN nodes : nodes'[i] = nodes[i]
  BY <1>1 DEF With
<1>3. /\ \A j : InTable(Table[1], Table[2], j) => j \in Entries
      /\ DOMAIN Table[1] \in SUBSET DOMAIN primary
      /\ Slots(Table[2]) \in SUBSET Slots(overflow)
      /\ ~weak => Table[1] = primary /\ Table[2] = overflow
  BY SweptTable DEF InternInv
<1>4. Countable(Table[1], Table[2])
  <2>1. IsFiniteSet(DOMAIN primary) /\ IsFiniteSet(Slots(overflow))
    BY DEF TypedInv, Counted, Countable
  <2>2. IsFiniteSet(DOMAIN Table[1])
    BY <1>3, <2>1, FS_Subset
  <2>3. IsFiniteSet(Slots(Table[2]))
    BY <1>3, <2>1, FS_Subset
  <2> QED BY <2>2, <2>3 DEF Countable
<1>5. \A g \in DOMAIN Table[2] : Table[2][g] \in Seq(Nat)
  BY TableFacts DEF InternInv
<1>6. /\ Countable(primary', overflow')
      /\ TableLen(primary', overflow') <= TableLen(Table[1], Table[2]) + 1
      /\ \A i : InTable(primary', overflow', i) => i = nextId \/ InTable(Table[1], Table[2], i)
  BY <1>1, <1>4, <1>5, OneEntryMore
<1>7. \A i : i \in Entries' => i \in 1 .. (nextId' - 1)
  <2>1. \A i : i \in Entries' => i = nextId \/ i \in 1 .. (nextId - 1)
    BY <1>3, <1>6, EntriesAre DEF TypedInv
  <2>2. nextId' - 1 = nextId /\ nextId \in 1 .. nextId /\ 1 .. (nextId - 1) \subseteq 1 .. nextId
    BY <1>1
  <2> QED BY <2>1, <2>2
<1>8. Rooted'
  <2>1. ASSUME ~weak, NEW i \in Alive, i \in Entries
        PROVE  i \in Entries'
    <3>1. (\E g : InPrimary(Table[1], g, i)) \/ (\E g : InOverflow(Table[2], g, i))
      BY <1>3, <2>1, EntriesAre DEF InTable
    <3>2. (\E g : InPrimary(primary', g, i)) \/ (\E g : InOverflow(overflow', g, i))
      BY <1>1, <1>5, <2>1, <3>1, EntryFacts
    <3> QED BY <3>2, EntriesAre DEF InTable
  <2>2. \A i \in DOMAIN nodes : i \in Roots => i \in Roots'
    BY <2>1 DEF Roots, Alive
  <2>3. nextId \in Roots'
    BY DEF Roots
  <2> QED BY <1>2, <2>2, <2>3, RootedGrows
<1>9. Shaped'
  <2>1. d.op = op /\ d.kids = kids
    BY DEF Node
  <2>2. nodes'[nextId].op \in Ops
        /\ DOMAIN nodes'[nextId].kids = 1 .. Arity[nodes'[nextId].op]
    BY <1>2, <2>1
  <2>3. \A i \in DOMAIN nodes : nodes'[i].op \in Ops
           /\ DOMAIN nodes'[i].kids = 1 .. Arity[nodes'[i].op]
    BY <1>2 DEF TypedInv, Shaped
  <2> QED BY <1>2, <2>2, <2>3 DEF Shaped
<1>10. Counted'
  BY <1>6, CountedStays DEF InternInv
<1> QED BY <1>7, <1>8, <1>9, <1>10 DEF TypedInv

LEMMA InternStepTyped ==
    ASSUME InternInv, TypedInv, NEW op \in Ops, NEW kids \in Kids(op), Intern(op, kids)
    PROVE  TypedInv'
<1> DEFINE d == Node(op, kids)
           hit == Found(Table[1], Table[2], d)
<1>1. InternInv'
  BY InternKeeps
<1>2. DOMAIN kids = 1 .. Arity[op]
  <2>1. Arity[op] \in 0 .. 2
    BY InternerAssumption
  <2>2. CASE Arity[op] = 0
    <3>1. kids = <<>>
      BY <2>2 DEF Kids
    <3> QED BY <2>2, <3>1
  <2>3. CASE Arity[op] # 0
    BY <2>3 DEF Kids
  <2> QED BY <2>2, <2>3
<1>3. /\ nextSweep' = IF SweepDue THEN TableLen(Table[1], Table[2]) + CollectStep ELSE nextSweep
      /\ weak' = weak
  BY DEF Intern
<1>4. CASE /\ \E i \in hit : held' = held \cup {i}
           /\ primary' = Table[1] /\ overflow' = Table[2]
           /\ UNCHANGED <<nodes, nextId>>
  <2>1. PICK i : held' = held \cup {i}
    BY <1>4
  <2> QED BY <1>1, <1>3, <1>4, <2>1, HitTyped
<1>5. CASE /\ nodes' = With(nodes, nextId, d) /\ nextId' = nextId + 1
           /\ held' = held \cup {nextId}
           /\ primary' = PrimaryWith(Table[1], HashOf(d), nextId)
           /\ overflow' = OverflowWith(Table[1], Table[2], HashOf(d), nextId)
  <2> HIDE DEF d
  <2>1. d = Node(op, kids)
    BY DEF d
  <2> QED BY <1>1, <1>2, <1>3, <1>5, <2>1, MissTyped
<1> QED BY <1>4, <1>5 DEF Intern, NewId, PrimaryWith, OverflowWith

LEMMA TypedNext == InternInv /\ TypedInv /\ [InternNext]_internVars => TypedInv'
<1> SUFFICES ASSUME InternInv, TypedInv, [InternNext]_internVars PROVE TypedInv'
  OBVIOUS
<1>1. ASSUME NEW op \in Ops, NEW kids \in Kids(op), Intern(op, kids) PROVE TypedInv'
  BY <1>1, InternStepTyped
<1>2. ASSUME NEW i \in held, Release(i) PROVE TypedInv'
  BY <1>2, ReleaseTyped
<1>3. ASSUME NEW i \in Alive, NEW x \in Extras, AskNumbered(i, x) PROVE TypedInv'
  BY <1>3, TypedStays DEF AskNumbered
<1>4. ASSUME NEW i \in Alive, PeelLiteral(i) PROVE TypedInv'
  BY <1>4, TypedStays DEF PeelLiteral
<1>5. ASSUME NEW fresh \in BOOLEAN, CheckDecl(fresh) PROVE TypedInv'
  BY <1>5, CheckDeclTyped
<1>6. CASE UNCHANGED internVars
  BY <1>6, TypedStays DEF internVars, tables
<1> QED
  BY <1>1, <1>2, <1>3, <1>4, <1>5, <1>6 DEF InternNext

\* Every node that is allocated is alive and whole, and the weak table is
\* swept before it outgrows what its last sweep left by more than one step
\* (WeakInterner::intern, next_collection), for tables of any size.
THEOREM InternTyped == InternSpec => []InternTypeOK
<1>1. InternInv /\ TypedInv => InternTypeOK
  <2> SUFFICES ASSUME InternInv, TypedInv PROVE InternTypeOK
    OBVIOUS
  <2>1. /\ weak \in BOOLEAN /\ nextId \in 1 .. (MaxNodes + 1) /\ base \in 1 .. nextId
        /\ held \subseteq DOMAIN nodes
    BY DEF InternInv, CountersInv
  <2>2. \A i \in DOMAIN nodes :
            /\ nodes[i].op \in Ops /\ DOMAIN nodes[i].kids = 1 .. Arity[nodes[i].op]
            /\ \A k \in DOMAIN nodes[i].kids : nodes[i].kids[k] \in DOMAIN nodes
    BY DEF InternInv, PartsOlder, TypedInv, Shaped
  <2>3. Entries \subseteq 1 .. (nextId - 1)
    BY DEF TypedInv
  <2> QED BY <2>1, <2>2, <2>3 DEF InternTypeOK, TypedInv, Rooted, Counted
<1>2. InternInit => TypedInv
  BY TypedInit
<1>3. InternInv /\ TypedInv /\ [InternNext]_internVars => TypedInv'
  BY TypedNext
<1> QED
  BY <1>1, <1>2, <1>3, InvariantHolds, PTL DEF InternSpec

-----------------------------------------------------------------------------
(* Terms as trees *)

\* The trees whose subtrees are in S.
Over(S) == Leaves \cup ({"app", "lam", "pi"} \X S \X S)
                  \cup ({"let"} \X S \X S \X S)
                  \cup ({"proj"} \X ConstNames \X Nat \X S)

LEMMA TreeFacts ==
    /\ OfHeight[0] = Leaves
    /\ \A n \in Nat : OfHeight[n + 1] = Over(OfHeight[n])
<1> DEFINE Built(g, n) == Leaves \cup IF n = 0 THEN {}
                                      ELSE LET below == g[n - 1] IN
                                           ({"app", "lam", "pi"} \X below \X below)
                                           \cup ({"let"} \X below \X below \X below)
                                           \cup ({"proj"} \X ConstNames \X Nat \X below)
           Solves(g, N) == \A n \in 0 .. N : g[n] = Built(g, n)
           T == { N \in Nat : \E g : Solves(g, N) }
<1>1. \A g, h : \A n \in Nat : (n # 0 => g[n - 1] = h[n - 1]) => Built(g, n) = Built(h, n)
  OBVIOUS
<1>2. 0 \in T
  <2>1. \A g : Built(g, 0) = Leaves
    OBVIOUS
  <2> HIDE DEF Built
  <2>2. Solves([n \in 0 .. 0 |-> Leaves], 0)
    BY <2>1
  <2> HIDE DEF Solves
  <2> QED BY <2>2
<1>3. ASSUME NEW N \in Nat, N \in T
      PROVE  N + 1 \in T
  <2> HIDE DEF Built
  <2>1. PICK h : Solves(h, N)
    BY <1>3
  <2> DEFINE g == [n \in 0 .. N + 1 |-> Built(h, n)]
  <2>2. \A n \in 0 .. N + 1 : g[n] = Built(h, n)
    OBVIOUS
  <2> HIDE DEF g
  <2>3. \A n \in 0 .. N : n \in 0 .. N + 1 /\ g[n] = h[n]
    BY <2>1, <2>2
  <2>4. \A n \in 0 .. N + 1 : n \in Nat /\ (n # 0 => n - 1 \in 0 .. N)
    OBVIOUS
  <2>5. \A n \in 0 .. N + 1 : Built(g, n) = Built(h, n)
    BY <1>1, <2>3, <2>4
  <2>6. Solves(g, N + 1)
    BY <2>2, <2>5
  <2> HIDE DEF Solves
  <2> QED BY <2>6
<1>4. Nat \subseteq T
  <2> HIDE DEF T
  <2> QED BY <1>2, <1>3, Induction
<1>5. ASSUME NEW g, NEW h, NEW N \in Nat, NEW M \in Nat, N <= M, Solves(g, N), Solves(h, M)
      PROVE  \A n \in 0 .. N : g[n] = h[n]
  <2> HIDE DEF Built
  <2> DEFINE U == { n \in Nat : n <= N => g[n] = h[n] }
  <2>1. 0 \in U
    <3>1. 0 \in 0 .. N /\ 0 \in 0 .. M
      BY <1>5
    <3>2. g[0] = Built(g, 0) /\ h[0] = Built(h, 0)
      BY <1>5, <3>1
    <3>3. Built(g, 0) = Built(h, 0)
      BY <1>1
    <3> QED BY <3>2, <3>3
  <2>2. ASSUME NEW n \in Nat, n \in U
        PROVE  n + 1 \in U
    <3> SUFFICES ASSUME n + 1 <= N PROVE g[n + 1] = h[n + 1]
      OBVIOUS
    <3>1. n + 1 \in 0 .. N /\ n + 1 \in 0 .. M /\ n <= N /\ (n + 1) - 1 = n /\ n + 1 \in Nat
      BY <1>5
    <3>2. g[n + 1] = Built(g, n + 1) /\ h[n + 1] = Built(h, n + 1)
      BY <1>5, <3>1
    <3>3. Built(g, n + 1) = Built(h, n + 1)
      BY <1>1, <2>2, <3>1
    <3> QED BY <3>2, <3>3
  <2>3. Nat \subseteq U
    <3> HIDE DEF U
    <3> QED BY <2>1, <2>2, Induction
  <2> QED BY <2>3
<1> DEFINE sol == [N \in Nat |-> CHOOSE g : Solves(g, N)]
<1>6. \A N \in Nat : Solves(sol[N], N)
  <2>1. \A N \in Nat : \E g : Solves(g, N)
    BY <1>4
  <2> HIDE DEF Solves
  <2> QED BY <2>1
<1> HIDE DEF sol
<1> DEFINE whole == [n \in Nat |-> sol[n][n]]
<1>7. \A n \in Nat : whole[n] = Built(whole, n)
  <2> SUFFICES ASSUME NEW n \in Nat PROVE whole[n] = Built(whole, n)
    OBVIOUS
  <2>1. whole[n] = sol[n][n] /\ \A m \in Nat : whole[m] = sol[m][m]
    OBVIOUS
  <2> HIDE DEF whole
  <2>2. n # 0 => sol[n][n - 1] = whole[n - 1]
    <3> SUFFICES ASSUME n # 0 PROVE sol[n][n - 1] = whole[n - 1]
      OBVIOUS
    <3>1. n - 1 \in Nat /\ n - 1 <= n /\ n - 1 \in 0 .. n - 1
      OBVIOUS
    <3>2. Solves(sol[n - 1], n - 1) /\ Solves(sol[n], n)
      BY <1>6, <3>1
    <3>3. sol[n - 1][n - 1] = sol[n][n - 1]
      <4> HIDE DEF Solves
      <4> QED BY <1>5, <3>1, <3>2
    <3> QED BY <2>1, <3>1, <3>3
  <2> HIDE DEF Built
  <2>3. sol[n] [n] = Built(sol[n], n)
    BY <1>6
  <2>4. Built(sol[n], n) = Built(whole, n)
    BY <1>1, <2>2
  <2> QED BY <2>1, <2>3, <2>4
<1>8. \E f : f = [n \in Nat |-> Built(f, n)]
  <2>1. whole = [n \in Nat |-> whole[n]]
    OBVIOUS
  <2> HIDE DEF Built, whole
  <2>2. whole = [n \in Nat |-> Built(whole, n)]
    BY <1>7, <2>1
  <2> QED BY <2>2
<1> DEFINE made == CHOOSE f : f = [n \in Nat |-> Built(f, n)]
<1>9. OfHeight = made
  BY DEF OfHeight
<1>10. made = [n \in Nat |-> Built(made, n)]
  <2> HIDE DEF Built
  <2> QED BY <1>8
<1> HIDE DEF made
<1>11. \A n \in Nat : OfHeight[n] = Built(OfHeight, n)
  <2> HIDE DEF Built
  <2> QED BY <1>9, <1>10
<1>12. OfHeight[0] = Leaves
  BY <1>11
<1>13. ASSUME NEW n \in Nat
       PROVE  OfHeight[n + 1] = Over(OfHeight[n])
  <2>1. n + 1 \in Nat /\ n + 1 # 0 /\ (n + 1) - 1 = n
    OBVIOUS
  <2>2. Built(OfHeight, n + 1) = Over(OfHeight[n])
    BY <2>1 DEF Over
  <2> HIDE DEF Built
  <2> QED BY <1>11, <2>1, <2>2
<1> QED BY <1>12, <1>13

LEMMA Constructors ==
    /\ \A i : Tag(BVar(i)) = "bvar" /\ BVar(i)[2] = i
    /\ \A l : Tag(Sort(l)) = "sort" /\ Sort(l)[2] = l
    /\ \A n, us : Tag(Const(n, us)) = "const" /\ Const(n, us)[2] = n /\ Const(n, us)[3] = us
    /\ \A n : Tag(Lit(n)) = "lit" /\ Lit(n)[2] = n
    /\ \A f, a : App(f, a) = <<"app", f, a>> /\ Lam(f, a) = <<"lam", f, a>> /\ Pi(f, a) = <<"pi", f, a>>
    /\ \A tag, f, a : Tag(<<tag, f, a>>) = tag /\ <<tag, f, a>>[2] = f /\ <<tag, f, a>>[3] = a
    /\ \A a, b, c : Tag(Let(a, b, c)) = "let" /\ Let(a, b, c)[2] = a /\ Let(a, b, c)[3] = b /\ Let(a, b, c)[4] = c
    /\ \A a, b, c : Tag(Proj(a, b, c)) = "proj" /\ Proj(a, b, c)[2] = a /\ Proj(a, b, c)[3] = b
                    /\ Proj(a, b, c)[4] = c
  BY DEF Tag, BVar, Sort, Const, Lit, App, Lam, Pi, Let, Proj

\* The shapes of a term.
IsLeafTerm(t) ==
    \/ Tag(t) = "bvar" /\ t[2] \in Nat /\ t = BVar(t[2])
    \/ Tag(t) = "sort" /\ t[2] \in Universes /\ t = Sort(t[2])
    \/ Tag(t) = "const" /\ t[2] \in ConstNames /\ t[3] \in Seq(Universes) /\ t = Const(t[2], t[3])
    \/ Tag(t) = "lit" /\ t[2] \in Nat /\ t = Lit(t[2])
IsTree(t, S) ==
    \/ Tag(t) \in {"app", "lam", "pi"} /\ t[2] \in S /\ t[3] \in S /\ t = <<Tag(t), t[2], t[3]>>
    \/ Tag(t) = "let" /\ t[2] \in S /\ t[3] \in S /\ t[4] \in S /\ t = Let(t[2], t[3], t[4])
    \/ Tag(t) = "proj" /\ t[2] \in ConstNames /\ t[3] \in Nat /\ t[4] \in S /\ t = Proj(t[2], t[3], t[4])

LEMMA LeafShape == \A t : t \in Leaves <=> IsLeafTerm(t)
<1> SUFFICES ASSUME NEW t PROVE t \in Leaves <=> IsLeafTerm(t)
  OBVIOUS
<1>1. t \in {"bvar"} \X Nat <=> \E i \in Nat : t = BVar(i)
  BY DEF BVar
<1>2. t \in {"sort"} \X Universes <=> \E l \in Universes : t = Sort(l)
  BY DEF Sort
<1>3. t \in {"const"} \X ConstNames \X Seq(Universes)
      <=> \E n \in ConstNames : \E us \in Seq(Universes) : t = Const(n, us)
  <2> DEFINE SU == Seq(Universes)
  <2> HIDE DEF SU
  <2>1. t \in {"const"} \X ConstNames \X SU <=> \E n \in ConstNames : \E us \in SU : t = Const(n, us)
    BY DEF Const
  <2> QED BY <2>1 DEF SU
<1>4. t \in {"lit"} \X Nat <=> \E i \in Nat : t = Lit(i)
  BY DEF Lit
<1>5. (\E i \in Nat : t = BVar(i)) <=> Tag(t) = "bvar" /\ t[2] \in Nat /\ t = BVar(t[2])
  BY Constructors
<1>6. (\E l \in Universes : t = Sort(l)) <=> Tag(t) = "sort" /\ t[2] \in Universes /\ t = Sort(t[2])
  BY Constructors
<1>7. (\E n \in ConstNames : \E us \in Seq(Universes) : t = Const(n, us))
      <=> Tag(t) = "const" /\ t[2] \in ConstNames /\ t[3] \in Seq(Universes) /\ t = Const(t[2], t[3])
  BY Constructors
<1>8. (\E i \in Nat : t = Lit(i)) <=> Tag(t) = "lit" /\ t[2] \in Nat /\ t = Lit(t[2])
  BY Constructors
<1>9. t \in Leaves <=> \/ t \in {"bvar"} \X Nat
                       \/ t \in {"sort"} \X Universes
                       \/ t \in {"const"} \X ConstNames \X Seq(Universes)
                       \/ t \in {"lit"} \X Nat
  BY Zenon DEF Leaves
<1> QED BY <1>1, <1>2, <1>3, <1>4, <1>5, <1>6, <1>7, <1>8, <1>9, Zenon DEF IsLeafTerm

LEMMA OverShape == \A S, t : t \in Over(S) <=> IsLeafTerm(t) \/ IsTree(t, S)
<1> SUFFICES ASSUME NEW S, NEW t PROVE t \in Over(S) <=> IsLeafTerm(t) \/ IsTree(t, S)
  OBVIOUS
<1>1. t \in {"app", "lam", "pi"} \X S \X S
      <=> Tag(t) \in {"app", "lam", "pi"} /\ t[2] \in S /\ t[3] \in S /\ t = <<Tag(t), t[2], t[3]>>
  BY DEF Tag
<1>2. t \in {"let"} \X S \X S \X S
      <=> Tag(t) = "let" /\ t[2] \in S /\ t[3] \in S /\ t[4] \in S /\ t = Let(t[2], t[3], t[4])
  BY DEF Tag, Let
<1>3. t \in {"proj"} \X ConstNames \X Nat \X S
      <=> Tag(t) = "proj" /\ t[2] \in ConstNames /\ t[3] \in Nat /\ t[4] \in S /\ t = Proj(t[2], t[3], t[4])
  BY DEF Tag, Proj
<1>4. t \in Over(S) <=> \/ t \in Leaves \/ t \in {"app", "lam", "pi"} \X S \X S
                        \/ t \in {"let"} \X S \X S \X S
                        \/ t \in {"proj"} \X ConstNames \X Nat \X S
  BY Zenon DEF Over
<1> QED BY <1>1, <1>2, <1>3, <1>4, LeafShape, Zenon DEF IsTree

LEMMA TermShape ==
    /\ \A t : t \in OfHeight[0] <=> IsLeafTerm(t)
    /\ \A n \in Nat : \A t : t \in OfHeight[n + 1] <=> IsLeafTerm(t) \/ IsTree(t, OfHeight[n])
<1>1. \A t : t \in OfHeight[0] <=> IsLeafTerm(t)
  BY TreeFacts, LeafShape
<1>2. ASSUME NEW n \in Nat, NEW t
      PROVE  t \in OfHeight[n + 1] <=> IsLeafTerm(t) \/ IsTree(t, OfHeight[n])
  <2>1. OfHeight[n + 1] = Over(OfHeight[n])
    BY TreeFacts
  <2> QED BY <2>1, OverShape, Zenon
<1> QED BY <1>1, <1>2

LEMMA Higher == \A m, n \in Nat : m <= n => OfHeight[m] \subseteq OfHeight[n]
<1> DEFINE T == { n \in Nat : OfHeight[n] \subseteq OfHeight[n + 1] }
<1>1. 0 \in T
  <2>1. \A t : t \in OfHeight[0 + 1] <=> IsLeafTerm(t) \/ IsTree(t, OfHeight[0])
    BY TermShape
  <2> QED BY <2>1, TermShape
<1>2. ASSUME NEW n \in Nat, n \in T
      PROVE  n + 1 \in T
  <2>1. \A t : IsTree(t, OfHeight[n]) => IsTree(t, OfHeight[n + 1])
    BY <1>2 DEF IsTree
  <2>2. \A t : t \in OfHeight[n + 1] <=> IsLeafTerm(t) \/ IsTree(t, OfHeight[n])
    BY TermShape
  <2>3. \A t : t \in OfHeight[(n + 1) + 1] <=> IsLeafTerm(t) \/ IsTree(t, OfHeight[n + 1])
    BY TermShape
  <2> QED BY <2>1, <2>2, <2>3
<1>3. Nat \subseteq T
  <2> HIDE DEF T
  <2> QED BY <1>1, <1>2, Induction
<1> SUFFICES ASSUME NEW m \in Nat PROVE \A n \in Nat : m <= n => OfHeight[m] \subseteq OfHeight[n]
  OBVIOUS
<1> DEFINE U == { k \in Nat : OfHeight[m] \subseteq OfHeight[m + k] }
<1>4. 0 \in U
  <2>1. m + 0 = m
    OBVIOUS
  <2> QED BY <2>1
<1>5. ASSUME NEW k \in Nat, k \in U
      PROVE  k + 1 \in U
  <2>1. m + k \in Nat /\ (m + k) + 1 = m + (k + 1)
    OBVIOUS
  <2>2. OfHeight[m + k] \subseteq OfHeight[(m + k) + 1]
    BY <1>3, <2>1
  <2> QED BY <1>5, <2>1, <2>2
<1>6. Nat \subseteq U
  <2> HIDE DEF U
  <2> QED BY <1>4, <1>5, Induction
<1>7. ASSUME NEW n \in Nat, m <= n
      PROVE  OfHeight[m] \subseteq OfHeight[n]
  <2>1. n - m \in Nat /\ m + (n - m) = n
    BY <1>7
  <2> QED BY <1>6, <2>1
<1> QED BY <1>7

\* The terms the functions are defined on, and those of any height.
Tree == OfHeight[MaxHeight]
AnyTree == UNION { OfHeight[n] : n \in Nat }

LEMMA TermsAreTerms ==
    /\ Tree \subseteq AnyTree
    /\ \A n \in Nat : n <= MaxHeight => OfHeight[n] \subseteq Tree
    /\ Leaves \subseteq Tree /\ Tree # {} /\ Lit(0) \in Leaves
<1>1. MaxHeight \in Nat
  BY TermsAssumption DEF TermsAssumption
<1>2. \A n \in Nat : n <= MaxHeight => OfHeight[n] \subseteq Tree
  BY <1>1, Higher DEF Tree
<1>3. Leaves \subseteq Tree
  BY <1>1, <1>2, TreeFacts
<1>4. Lit(0) \in Leaves
  BY LeafShape, Constructors DEF IsLeafTerm
<1> QED BY <1>1, <1>2, <1>3, <1>4 DEF Tree, AnyTree

\* The height of a term: the least that has it.
Rank == [t \in Tree |-> CHOOSE n \in Nat : /\ t \in OfHeight[n]
                                           /\ \A m \in Nat : t \in OfHeight[m] => n <= m]

LEMMA RankFacts ==
    /\ Rank \in [Tree -> Nat]
    /\ \A t \in Tree : /\ t \in OfHeight[Rank[t]] /\ Rank[t] <= MaxHeight
                       /\ \A m \in Nat : t \in OfHeight[m] => Rank[t] <= m
<1>0. MaxHeight \in Nat
  BY TermsAssumption DEF TermsAssumption
<1>1. ASSUME NEW t \in Tree
      PROVE  \E n \in Nat : t \in OfHeight[n] /\ \A m \in Nat : t \in OfHeight[m] => n <= m
  <2> DEFINE T == { n \in Nat : t \in OfHeight[n] }
  <2>1. T # {} /\ T \subseteq Nat
    BY <1>0 DEF Tree
  <2>2. \E n \in T : \A m \in T : n <= m
    <3> HIDE DEF T
    <3> QED BY <2>1, LeastElement
  <2> QED BY <2>2
<1>2. Rank \in [Tree -> Nat]
  BY <1>1 DEF Rank
<1>3. \A t \in Tree : t \in OfHeight[Rank[t]] /\ \A m \in Nat : t \in OfHeight[m] => Rank[t] <= m
  BY <1>1 DEF Rank
<1> QED BY <1>0, <1>2, <1>3 DEF Tree

-----------------------------------------------------------------------------
(* Subterms.  Subs are the places of the subterms, Under the binders over   *)
(* them; Put replaces the subterms and keeps everything else.              *)

Tags == {"bvar", "sort", "const", "lit", "app", "lam", "pi", "let", "proj"}
Subs(t) == IF Tag(t) \in {"app", "lam", "pi"} THEN {2, 3}
           ELSE IF Tag(t) = "let" THEN {2, 3, 4}
           ELSE IF Tag(t) = "proj" THEN {4} ELSE {}
Under(t, i) == IF (Tag(t) \in {"lam", "pi"} /\ i = 3) \/ (Tag(t) = "let" /\ i = 4) THEN 1 ELSE 0
Put(t, s) == IF Tag(t) \in {"app", "lam", "pi"} THEN <<Tag(t), s[2], s[3]>>
             ELSE IF Tag(t) = "let" THEN Let(s[2], s[3], s[4])
             ELSE IF Tag(t) = "proj" THEN Proj(t[2], t[3], s[4])
             ELSE t

LEMMA KidFacts == \A t : /\ Subs(t) \subseteq 2 .. 4
                         /\ \A i : Under(t, i) \in {0, 1} /\ Under(t, i) \in Nat
  BY DEF Subs, Under

LEMMA TagCases ==
    /\ \A t : Tag(t) \in {"bvar", "sort", "const", "lit"} => Subs(t) = {}
    /\ \A t : Tag(t) \in {"app", "lam", "pi"} => Subs(t) = {2, 3} /\ Under(t, 2) = 0
    /\ \A t : Tag(t) = "app" => Under(t, 3) = 0
    /\ \A t : Tag(t) \in {"lam", "pi"} => Under(t, 3) = 1
    /\ \A t : Tag(t) = "let" => Subs(t) = {2, 3, 4} /\ Under(t, 2) = 0 /\ Under(t, 3) = 0 /\ Under(t, 4) = 1
    /\ \A t : Tag(t) = "proj" => Subs(t) = {4} /\ Under(t, 4) = 0
  BY DEF Subs, Under

\* What a term is made of; its subterms have a smaller rank.
LEMMA Anatomy ==
    ASSUME NEW t \in Tree
    PROVE  /\ Tag(t) \in Tags
           /\ Tag(t) = "bvar" => t[2] \in Nat /\ t = BVar(t[2])
           /\ Tag(t) = "sort" => t[2] \in Universes /\ t = Sort(t[2])
           /\ Tag(t) = "const" => t[2] \in ConstNames /\ t[3] \in Seq(Universes) /\ t = Const(t[2], t[3])
           /\ Tag(t) = "lit" => t[2] \in Nat /\ t = Lit(t[2])
           /\ Tag(t) = "proj" => t[2] \in ConstNames /\ t[3] \in Nat
           /\ \A i \in Subs(t) : t[i] \in Tree /\ Rank[t[i]] \in Nat /\ Rank[t[i]] < Rank[t]
           /\ t = Put(t, t)
<1>1. Rank[t] \in Nat /\ t \in OfHeight[Rank[t]] /\ Rank[t] <= MaxHeight /\ MaxHeight \in Nat
  BY RankFacts, TermsAssumption DEF TermsAssumption
<1>2. CASE IsLeafTerm(t)
  <2>1. Tag(t) \in {"bvar", "sort", "const", "lit"}
    BY <1>2 DEF IsLeafTerm
  <2>2. Subs(t) = {} /\ t = Put(t, t)
    BY <2>1 DEF Subs, Put
  <2> QED BY <1>2, <2>1, <2>2 DEF IsLeafTerm, Tags
<1>3. CASE ~IsLeafTerm(t)
  <2>1. Rank[t] # 0
    BY <1>1, <1>3, TermShape
  <2>2. PICK n \in Nat : Rank[t] = n + 1
    <3>1. Rank[t] - 1 \in Nat /\ Rank[t] = (Rank[t] - 1) + 1
      BY <1>1, <2>1
    <3> QED BY <3>1
  <2>3. IsTree(t, OfHeight[n])
    BY <1>1, <1>3, <2>2, TermShape
  <2>4. \A k \in OfHeight[n] : k \in Tree /\ Rank[k] \in Nat /\ Rank[k] < Rank[t]
    <3>1. n < Rank[t] /\ n <= MaxHeight
      BY <1>1, <2>2
    <3>2. OfHeight[n] \subseteq Tree
      BY <3>1, TermsAreTerms
    <3> QED BY <2>2, <3>1, <3>2, RankFacts
  <2>5. CASE Tag(t) \in {"app", "lam", "pi"}
    <3>1. t[2] \in OfHeight[n] /\ t[3] \in OfHeight[n] /\ t = <<Tag(t), t[2], t[3]>>
      BY <2>3, <2>5 DEF IsTree
    <3>2. Subs(t) = {2, 3} /\ Put(t, t) = <<Tag(t), t[2], t[3]>>
      BY <2>5 DEF Subs, Put
    <3> QED BY <2>4, <2>5, <3>1, <3>2 DEF Tags
  <2>6. CASE Tag(t) = "let"
    <3>1. t[2] \in OfHeight[n] /\ t[3] \in OfHeight[n] /\ t[4] \in OfHeight[n] /\ t = Let(t[2], t[3], t[4])
      BY <2>3, <2>6 DEF IsTree
    <3>2. Subs(t) = {2, 3, 4} /\ Put(t, t) = Let(t[2], t[3], t[4])
      BY <2>6 DEF Subs, Put
    <3> QED BY <2>4, <2>6, <3>1, <3>2 DEF Tags
  <2>7. CASE Tag(t) = "proj"
    <3>1. t[2] \in ConstNames /\ t[3] \in Nat /\ t[4] \in OfHeight[n] /\ t = Proj(t[2], t[3], t[4])
      BY <2>3, <2>7 DEF IsTree
    <3>2. Subs(t) = {4} /\ Put(t, t) = Proj(t[2], t[3], t[4])
      BY <2>7 DEF Subs, Put
    <3> QED BY <2>4, <2>7, <3>1, <3>2 DEF Tags
  <2> QED BY <2>3, <2>5, <2>6, <2>7 DEF IsTree
<1> QED BY <1>2, <1>3

\* Induction over the subterms.
LEMMA TermInduction ==
    ASSUME NEW T, \A t \in Tree : (\A i \in Subs(t) : t[i] \in T) => t \in T
    PROVE  Tree \subseteq T
<1>1. ASSUME NEW t \in Tree, \A k \in Tree : Rank[k] < Rank[t] => k \in T
      PROVE  t \in T
  BY <1>1, Anatomy
<1> QED BY <1>1, RankFacts, RankInduction

\* Replacing the subterms.
LEMMA PutFacts ==
    ASSUME NEW t, NEW s
    PROVE  /\ Tag(t) \notin {"app", "lam", "pi", "let", "proj"} => Put(t, s) = t
           /\ Tag(Put(t, s)) = Tag(t) /\ Subs(Put(t, s)) = Subs(t)
           /\ \A i : Under(Put(t, s), i) = Under(t, i)
           /\ \A i \in Subs(t) : Put(t, s)[i] = s[i]
           /\ \A r : Put(Put(t, s), r) = Put(t, r)
           /\ \A r : (\A i \in Subs(t) : s[i] = r[i]) => Put(t, s) = Put(t, r)
<1> DEFINE u == Put(t, s)
<1>1. CASE Tag(t) \in {"app", "lam", "pi"}
  <2>1. u = <<Tag(t), s[2], s[3]>> /\ Subs(t) = {2, 3}
    BY <1>1 DEF Put, Subs
  <2>2. Tag(u) = Tag(t) /\ u[2] = s[2] /\ u[3] = s[3]
    BY <2>1, Constructors
  <2>3. \A r : Put(u, r) = <<Tag(t), r[2], r[3]>> /\ Put(t, r) = <<Tag(t), r[2], r[3]>>
    BY <1>1, <2>2 DEF Put
  <2> HIDE DEF u
  <2>4. Subs(u) = Subs(t) /\ \A i : Under(u, i) = Under(t, i)
    BY <2>2 DEF Subs, Under
  <2>5. \A r : (\A i \in Subs(t) : s[i] = r[i]) => u = Put(t, r)
    BY <2>1, <2>3
  <2> QED BY <1>1, <2>1, <2>2, <2>3, <2>4, <2>5 DEF u
<1>2. CASE Tag(t) = "let"
  <2>1. u = Let(s[2], s[3], s[4]) /\ Subs(t) = {2, 3, 4}
    BY <1>2 DEF Put, Subs
  <2>2. Tag(u) = Tag(t) /\ u[2] = s[2] /\ u[3] = s[3] /\ u[4] = s[4]
    BY <1>2, <2>1, Constructors
  <2>3. \A r : Put(u, r) = Let(r[2], r[3], r[4]) /\ Put(t, r) = Let(r[2], r[3], r[4])
    BY <1>2, <2>2 DEF Put
  <2> HIDE DEF u
  <2>4. Subs(u) = Subs(t) /\ \A i : Under(u, i) = Under(t, i)
    BY <2>2 DEF Subs, Under
  <2>5. \A r : (\A i \in Subs(t) : s[i] = r[i]) => u = Put(t, r)
    BY <2>1, <2>3
  <2> QED BY <1>2, <2>1, <2>2, <2>3, <2>4, <2>5 DEF u
<1>3. CASE Tag(t) = "proj"
  <2>1. u = Proj(t[2], t[3], s[4]) /\ Subs(t) = {4}
    BY <1>3 DEF Put, Subs
  <2>2. Tag(u) = Tag(t) /\ u[2] = t[2] /\ u[3] = t[3] /\ u[4] = s[4]
    BY <1>3, <2>1, Constructors
  <2>3. \A r : Put(u, r) = Proj(t[2], t[3], r[4]) /\ Put(t, r) = Proj(t[2], t[3], r[4])
    BY <1>3, <2>2 DEF Put
  <2> HIDE DEF u
  <2>4. Subs(u) = Subs(t) /\ \A i : Under(u, i) = Under(t, i)
    BY <2>2 DEF Subs, Under
  <2>5. \A r : (\A i \in Subs(t) : s[i] = r[i]) => u = Put(t, r)
    BY <2>1, <2>3
  <2> QED BY <1>3, <2>1, <2>2, <2>3, <2>4, <2>5 DEF u
<1>4. CASE Tag(t) \notin {"app", "lam", "pi", "let", "proj"}
  <2>1. u = t /\ Subs(t) = {} /\ \A r : Put(t, r) = t
    BY <1>4 DEF Put, Subs
  <2> QED BY <1>4, <2>1
<1> QED BY <1>1, <1>2, <1>3, <1>4

\* Replacing subterms by terms gives a term, higher by no more than they are.
LEMMA PutHeight ==
    ASSUME NEW t \in Tree, NEW s
    PROVE  /\ \A n \in Nat : (\A i \in Subs(t) : s[i] \in OfHeight[n]) => Put(t, s) \in OfHeight[n + 1]
           /\ (\A i \in Subs(t) : s[i] \in AnyTree) => Put(t, s) \in AnyTree
<1>1. ASSUME NEW n \in Nat, \A i \in Subs(t) : s[i] \in OfHeight[n]
      PROVE  Put(t, s) \in OfHeight[n + 1]
  <2>1. CASE Tag(t) \in {"app", "lam", "pi"}
    <3>1. Put(t, s) = <<Tag(t), s[2], s[3]>> /\ Subs(t) = {2, 3}
      BY <2>1 DEF Put, Subs
    <3>2. IsTree(Put(t, s), OfHeight[n])
      BY <1>1, <2>1, <3>1, Constructors DEF IsTree
    <3> QED BY <3>2, TermShape
  <2>2. CASE Tag(t) = "let"
    <3>1. Put(t, s) = Let(s[2], s[3], s[4]) /\ Subs(t) = {2, 3, 4}
      BY <2>2 DEF Put, Subs
    <3>2. IsTree(Put(t, s), OfHeight[n])
      BY <1>1, <3>1, Constructors DEF IsTree
    <3> QED BY <3>2, TermShape
  <2>3. CASE Tag(t) = "proj"
    <3>1. Put(t, s) = Proj(t[2], t[3], s[4]) /\ Subs(t) = {4} /\ t[2] \in ConstNames /\ t[3] \in Nat
      BY <2>3, Anatomy DEF Put, Subs
    <3>2. IsTree(Put(t, s), OfHeight[n])
      BY <1>1, <3>1, Constructors DEF IsTree
    <3> QED BY <3>2, TermShape
  <2>4. CASE Tag(t) \in {"bvar", "sort", "const", "lit"}
    <3>1. Put(t, s) = t
      BY <2>4, PutFacts
    <3>2. IsLeafTerm(t)
      BY <2>4, Anatomy DEF IsLeafTerm
    <3> QED BY <3>1, <3>2, TermShape
  <2> QED BY <2>1, <2>2, <2>3, <2>4, Anatomy DEF Tags
<1>2. ASSUME \A i \in Subs(t) : s[i] \in AnyTree
      PROVE  Put(t, s) \in AnyTree
  <2>1. \A i \in Subs(t) : \E n \in Nat : s[i] \in OfHeight[n]
    BY <1>2 DEF AnyTree
  <2> DEFINE h == [i \in 2 .. 4 |-> IF i \in Subs(t) THEN CHOOSE n \in Nat : s[i] \in OfHeight[n] ELSE 0]
  <2>2. h[2] \in Nat /\ h[3] \in Nat /\ h[4] \in Nat
        /\ \A i \in Subs(t) : i \in 2 .. 4 /\ s[i] \in OfHeight[h[i]]
    BY <2>1, KidFacts
  <2> HIDE DEF h
  <2> DEFINE n == h[2] + h[3] + h[4]
  <2>3. n \in Nat /\ \A i \in 2 .. 4 : h[i] \in Nat /\ h[i] <= n
    <3>1. \A i \in 2 .. 4 : i = 2 \/ i = 3 \/ i = 4
      OBVIOUS
    <3> QED BY <2>2, <3>1
  <2> HIDE DEF n
  <2>4. \A i \in Subs(t) : s[i] \in OfHeight[n]
    BY <2>2, <2>3, Higher
  <2>5. Put(t, s) \in OfHeight[n + 1] /\ n + 1 \in Nat
    BY <1>1, <2>3, <2>4
  <2> QED BY <2>5 DEF AnyTree
<1> QED BY <1>1, <1>2

-----------------------------------------------------------------------------
(* The functions satisfy their equations *)

LEMMA LooseFacts ==
    ASSUME NEW t \in Tree
    PROVE  /\ Loose(t) \in Nat
           /\ Loose(t) = IF Tag(t) = "bvar" THEN t[2] + 1
                         ELSE IF Tag(t) = "app" THEN Larger(Loose(t[2]), Loose(t[3]))
                         ELSE IF Tag(t) \in {"lam", "pi"} THEN Larger(Loose(t[2]), Less1(Loose(t[3])))
                         ELSE IF Tag(t) = "let"
                              THEN Larger(Larger(Loose(t[2]), Loose(t[3])), Less1(Loose(t[4])))
                         ELSE IF Tag(t) = "proj" THEN Loose(t[4])
                         ELSE 0
<1> DEFINE Body(f, k) ==
               IF Tag(k) = "bvar" THEN k[2] + 1
               ELSE IF Tag(k) = "app" THEN Larger(f[k[2]], f[k[3]])
               ELSE IF Tag(k) \in {"lam", "pi"} THEN Larger(f[k[2]], Less1(f[k[3]]))
               ELSE IF Tag(k) = "let"
                    THEN Larger(Larger(f[k[2]], f[k[3]]), Less1(f[k[4]]))
               ELSE IF Tag(k) = "proj" THEN f[k[4]]
               ELSE 0
           B == [k \in Tree |-> [f \in [Tree -> Nat] |-> Body(f, k)]]
           made == CHOOSE f : f = [k \in Tree |-> Body(f, k)]
<1>1. \A k \in Tree : \A f \in [Tree -> Nat] : Body(f, k) \in Nat
  <2> SUFFICES ASSUME NEW k \in Tree, NEW f \in [Tree -> Nat] PROVE Body(f, k) \in Nat
    OBVIOUS
  <2>1. \A i \in Subs(k) : f[k[i]] \in Nat
    BY Anatomy
  <2> QED BY <2>1, TagCases, Anatomy DEF Tags, Larger, Less1
<1>2. ASSUME NEW k \in Tree, NEW f, NEW g, \A y \in Tree : Rank[y] < Rank[k] => f[y] = g[y]
      PROVE  Body(f, k) = Body(g, k)
  <2>1. \A i \in Subs(k) : f[k[i]] = g[k[i]]
    BY <1>2, Anatomy
  <2> QED BY <2>1, TagCases, Anatomy DEF Tags
<1> HIDE DEF Body
<1>3. HasSolution(Tree, Nat, B)
  <2>1. B \in [Tree -> [[Tree -> Nat] -> Nat]]
    BY <1>1
  <2>2. \A k \in Tree : \A f \in [Tree -> Nat] : B[k][f] = Body(f, k)
    OBVIOUS
  <2> HIDE DEF B
  <2>3. \A k \in Tree : \A f, g \in [Tree -> Nat] :
            (\A y \in Tree : Rank[y] < Rank[k] => f[y] = g[y]) => B[k][f] = B[k][g]
    BY <1>2, <2>2
  <2>4. Nat # {}
    OBVIOUS
  <2>5. IsRecursion(Tree, Nat, Rank, B)
    BY <2>1, <2>3, <2>4, RankFacts DEF IsRecursion
  <2> QED BY <2>5, RecursiveFunction
<1>4. PICK f \in [Tree -> Nat] : \A k \in Tree : f[k] = Body(f, k)
  BY <1>3 DEF HasSolution
<1>5. made = [k \in Tree |-> Body(made, k)]
  <2>1. f = [k \in Tree |-> Body(f, k)]
    BY <1>4
  <2> QED BY <2>1
<1> HIDE DEF made
<1>6. \A k \in Tree : made[k] = Body(made, k)
  BY <1>5
<1>7. \A k \in Tree : made[k] = f[k]
  <2> DEFINE T == { k \in Tree : made[k] = f[k] }
  <2>1. ASSUME NEW k \in Tree, \A y \in Tree : Rank[y] < Rank[k] => y \in T
        PROVE  k \in T
    BY <1>2, <1>4, <1>6, <2>1
  <2>2. Tree \subseteq T
    <3> HIDE DEF T
    <3> QED BY <2>1, RankFacts, RankInduction
  <2> QED BY <2>2
<1>8. \A k : Loose(k) = made[k]
  BY DEF Loose, Tree, made, Body
<1> QED BY <1>6, <1>7, <1>8, Anatomy DEF Body

LEMMA FreeFacts ==
    ASSUME NEW t \in Tree
    PROVE  /\ Free(t) \in SUBSET Nat
           /\ Free(t) = IF Tag(t) = "bvar" THEN {t[2]}
                        ELSE IF Tag(t) = "app" THEN Free(t[2]) \cup Free(t[3])
                        ELSE IF Tag(t) \in {"lam", "pi"} THEN Free(t[2]) \cup Outside(Free(t[3]))
                        ELSE IF Tag(t) = "let" THEN Free(t[2]) \cup Free(t[3]) \cup Outside(Free(t[4]))
                        ELSE IF Tag(t) = "proj" THEN Free(t[4])
                        ELSE {}
<1> DEFINE Body(f, k) ==
               IF Tag(k) = "bvar" THEN {k[2]}
               ELSE IF Tag(k) = "app" THEN f[k[2]] \cup f[k[3]]
               ELSE IF Tag(k) \in {"lam", "pi"} THEN f[k[2]] \cup Outside(f[k[3]])
               ELSE IF Tag(k) = "let" THEN f[k[2]] \cup f[k[3]] \cup Outside(f[k[4]])
               ELSE IF Tag(k) = "proj" THEN f[k[4]]
               ELSE {}
           B == [k \in Tree |-> [f \in [Tree -> (SUBSET Nat)] |-> Body(f, k)]]
           made == CHOOSE f : f = [k \in Tree |-> Body(f, k)]
<1>1. \A k \in Tree : \A f \in [Tree -> (SUBSET Nat)] : Body(f, k) \in (SUBSET Nat)
  <2> SUFFICES ASSUME NEW k \in Tree, NEW f \in [Tree -> SUBSET Nat] PROVE Body(f, k) \in SUBSET Nat
    OBVIOUS
  <2>1. \A i \in Subs(k) : f[k[i]] \in SUBSET Nat
    BY Anatomy
  <2>2. \A S \in SUBSET Nat : Outside(S) \in SUBSET Nat
    BY DEF Outside
  <2> QED BY <2>1, <2>2, TagCases, Anatomy DEF Tags
<1>2. ASSUME NEW k \in Tree, NEW f, NEW g, \A y \in Tree : Rank[y] < Rank[k] => f[y] = g[y]
      PROVE  Body(f, k) = Body(g, k)
  <2>1. \A i \in Subs(k) : f[k[i]] = g[k[i]]
    BY <1>2, Anatomy
  <2>2. /\ Tag(k) \in {"app", "lam", "pi", "let"} => f[k[2]] = g[k[2]] /\ f[k[3]] = g[k[3]]
        /\ Tag(k) \in {"let", "proj"} => f[k[4]] = g[k[4]]
    BY <2>1, TagCases
  <2>3. CASE Tag(k) \in {"app", "lam", "pi"}
    BY <2>2, <2>3
  <2>4. CASE Tag(k) = "let"
    BY <2>2, <2>4
  <2>5. CASE Tag(k) \notin {"app", "lam", "pi", "let"}
    BY <2>2, <2>5
  <2> QED BY <2>3, <2>4, <2>5
<1> HIDE DEF Body
<1>3. HasSolution(Tree, (SUBSET Nat), B)
  <2>1. B \in [Tree -> [[Tree -> (SUBSET Nat)] -> (SUBSET Nat)]]
    BY <1>1
  <2>2. \A k \in Tree : \A f \in [Tree -> (SUBSET Nat)] : B[k][f] = Body(f, k)
    OBVIOUS
  <2> HIDE DEF B
  <2>3. \A k \in Tree : \A f, g \in [Tree -> (SUBSET Nat)] :
            (\A y \in Tree : Rank[y] < Rank[k] => f[y] = g[y]) => B[k][f] = B[k][g]
    BY <1>2, <2>2
  <2>4. (SUBSET Nat) # {}
    OBVIOUS
  <2>5. IsRecursion(Tree, (SUBSET Nat), Rank, B)
    BY <2>1, <2>3, <2>4, RankFacts DEF IsRecursion
  <2> QED BY <2>5, RecursiveFunction
<1>4. PICK f \in [Tree -> (SUBSET Nat)] : \A k \in Tree : f[k] = Body(f, k)
  BY <1>3 DEF HasSolution
<1>5. made = [k \in Tree |-> Body(made, k)]
  <2>1. f = [k \in Tree |-> Body(f, k)]
    BY <1>4
  <2> QED BY <2>1
<1> HIDE DEF made
<1>6. \A k \in Tree : made[k] = Body(made, k)
  BY <1>5
<1>7. \A k \in Tree : made[k] = f[k]
  <2> DEFINE T == { k \in Tree : made[k] = f[k] }
  <2>1. ASSUME NEW k \in Tree, \A y \in Tree : Rank[y] < Rank[k] => y \in T
        PROVE  k \in T
    BY <1>2, <1>4, <1>6, <2>1
  <2>2. Tree \subseteq T
    <3> HIDE DEF T
    <3> QED BY <2>1, RankFacts, RankInduction
  <2> QED BY <2>2
<1>8. \A k : Free(k) = made[k]
  BY DEF Free, Tree, made, Body
<1> QED BY <1>6, <1>7, <1>8, Anatomy DEF Body

LEMMA UsedFacts ==
    ASSUME NEW t \in Tree
    PROVE  /\ Used(t) \in SUBSET Nat
           /\ Used(t) = IF Tag(t) = "bvar" THEN IF t[2] >= WordBits THEN UsedOverflow ELSE {t[2]}
                        ELSE IF Tag(t) = "app" THEN UsedOr(Used(t[2]), Used(t[3]))
                        ELSE IF Tag(t) \in {"lam", "pi"} THEN UsedOr(Used(t[2]), UsedShiftBinder(Used(t[3])))
                        ELSE IF Tag(t) = "let"
                             THEN UsedOr(UsedOr(Used(t[2]), Used(t[3])), UsedShiftBinder(Used(t[4])))
                        ELSE IF Tag(t) = "proj" THEN Used(t[4])
                        ELSE {}
<1> DEFINE Body(f, k) ==
               IF Tag(k) = "bvar" THEN IF k[2] >= WordBits THEN UsedOverflow ELSE {k[2]}
               ELSE IF Tag(k) = "app" THEN UsedOr(f[k[2]], f[k[3]])
               ELSE IF Tag(k) \in {"lam", "pi"} THEN UsedOr(f[k[2]], UsedShiftBinder(f[k[3]]))
               ELSE IF Tag(k) = "let"
                    THEN UsedOr(UsedOr(f[k[2]], f[k[3]]), UsedShiftBinder(f[k[4]]))
               ELSE IF Tag(k) = "proj" THEN f[k[4]]
               ELSE {}
           B == [k \in Tree |-> [f \in [Tree -> (SUBSET Nat)] |-> Body(f, k)]]
           made == CHOOSE f : f = [k \in Tree |-> Body(f, k)]
<1>1. \A k \in Tree : \A f \in [Tree -> (SUBSET Nat)] : Body(f, k) \in (SUBSET Nat)
  <2> SUFFICES ASSUME NEW k \in Tree, NEW f \in [Tree -> SUBSET Nat] PROVE Body(f, k) \in SUBSET Nat
    OBVIOUS
  <2>1. \A i \in Subs(k) : f[k[i]] \in SUBSET Nat
    BY Anatomy
  <2>2. UsedOverflow \in SUBSET Nat
    BY TermsAssumption DEF TermsAssumption, UsedOverflow
  <2>3. \A u \in SUBSET Nat : UsedShiftBinder(u) \in SUBSET Nat
    BY <2>2 DEF UsedShiftBinder
  <2>4. \A u, v \in SUBSET Nat : UsedOr(u, v) \in SUBSET Nat
    BY <2>2 DEF UsedOr
  <2> QED BY <2>1, <2>2, <2>3, <2>4, TagCases, Anatomy DEF Tags
<1>2. ASSUME NEW k \in Tree, NEW f, NEW g, \A y \in Tree : Rank[y] < Rank[k] => f[y] = g[y]
      PROVE  Body(f, k) = Body(g, k)
  <2>1. \A i \in Subs(k) : f[k[i]] = g[k[i]]
    BY <1>2, Anatomy
  <2> QED BY <2>1, TagCases, Anatomy DEF Tags
<1> HIDE DEF Body
<1>3. HasSolution(Tree, (SUBSET Nat), B)
  <2>1. B \in [Tree -> [[Tree -> (SUBSET Nat)] -> (SUBSET Nat)]]
    BY <1>1
  <2>2. \A k \in Tree : \A f \in [Tree -> (SUBSET Nat)] : B[k][f] = Body(f, k)
    OBVIOUS
  <2> HIDE DEF B
  <2>3. \A k \in Tree : \A f, g \in [Tree -> (SUBSET Nat)] :
            (\A y \in Tree : Rank[y] < Rank[k] => f[y] = g[y]) => B[k][f] = B[k][g]
    BY <1>2, <2>2
  <2>4. (SUBSET Nat) # {}
    OBVIOUS
  <2>5. IsRecursion(Tree, (SUBSET Nat), Rank, B)
    BY <2>1, <2>3, <2>4, RankFacts DEF IsRecursion
  <2> QED BY <2>5, RecursiveFunction
<1>4. PICK f \in [Tree -> (SUBSET Nat)] : \A k \in Tree : f[k] = Body(f, k)
  BY <1>3 DEF HasSolution
<1>5. made = [k \in Tree |-> Body(made, k)]
  <2>1. f = [k \in Tree |-> Body(f, k)]
    BY <1>4
  <2> QED BY <2>1
<1> HIDE DEF made
<1>6. \A k \in Tree : made[k] = Body(made, k)
  BY <1>5
<1>7. \A k \in Tree : made[k] = f[k]
  <2> DEFINE T == { k \in Tree : made[k] = f[k] }
  <2>1. ASSUME NEW k \in Tree, \A y \in Tree : Rank[y] < Rank[k] => y \in T
        PROVE  k \in T
    BY <1>2, <1>4, <1>6, <2>1
  <2>2. Tree \subseteq T
    <3> HIDE DEF T
    <3> QED BY <2>1, RankFacts, RankInduction
  <2> QED BY <2>2
<1>8. \A k : Used(k) = made[k]
  BY DEF Used, Tree, made, Body
<1> QED BY <1>6, <1>7, <1>8, Anatomy DEF Body

LEMMA UsedSetFacts ==
    ASSUME NEW t \in Tree
    PROVE  /\ UsedSet(t) \in SUBSET Int
           /\ UsedSet(t) =
                  IF Used(t) # UsedOverflow THEN Used(t)
                  ELSE IF Tag(t) = "bvar" THEN {t[2]}
                  ELSE IF Tag(t) = "app"
                       THEN MergeUsed(ChildUsed(t[2], UsedSet(t[2]), 0), ChildUsed(t[3], UsedSet(t[3]), 0))
                  ELSE IF Tag(t) \in {"lam", "pi"}
                       THEN MergeUsed(ChildUsed(t[2], UsedSet(t[2]), 0), ChildUsed(t[3], UsedSet(t[3]), 1))
                  ELSE IF Tag(t) = "let"
                       THEN MergeUsed(MergeUsed(ChildUsed(t[2], UsedSet(t[2]), 0),
                                                ChildUsed(t[3], UsedSet(t[3]), 0)),
                                      ChildUsed(t[4], UsedSet(t[4]), 1))
                  ELSE ChildUsed(t[4], UsedSet(t[4]), 0)
<1> DEFINE Body(f, k) ==
               IF Used(k) # UsedOverflow THEN Used(k)
               ELSE IF Tag(k) = "bvar" THEN {k[2]}
               ELSE IF Tag(k) = "app"
                    THEN MergeUsed(ChildUsed(k[2], f[k[2]], 0), ChildUsed(k[3], f[k[3]], 0))
               ELSE IF Tag(k) \in {"lam", "pi"}
                    THEN MergeUsed(ChildUsed(k[2], f[k[2]], 0), ChildUsed(k[3], f[k[3]], 1))
               ELSE IF Tag(k) = "let"
                    THEN MergeUsed(MergeUsed(ChildUsed(k[2], f[k[2]], 0),
                                             ChildUsed(k[3], f[k[3]], 0)),
                                   ChildUsed(k[4], f[k[4]], 1))
               ELSE ChildUsed(k[4], f[k[4]], 0)
           B == [k \in Tree |-> [f \in [Tree -> (SUBSET Int)] |-> Body(f, k)]]
           made == CHOOSE f : f = [k \in Tree |-> Body(f, k)]
<1>1. \A k \in Tree : \A f \in [Tree -> (SUBSET Int)] : Body(f, k) \in (SUBSET Int)
  <2> SUFFICES ASSUME NEW k \in Tree, NEW f \in [Tree -> SUBSET Int] PROVE Body(f, k) \in SUBSET Int
    OBVIOUS
  <2>0. Used(k) \in SUBSET Int /\ {-1} \in SUBSET Int
    BY UsedFacts
  <2>1. \A i \in Subs(k) : f[k[i]] \in SUBSET Int
    BY Anatomy
  <2>2. \A u, v \in SUBSET Int : MergeUsed(u, v) \in SUBSET Int
    BY <2>0 DEF MergeUsed, NoSet
  <2>3. \A u \in SUBSET Int, d \in Nat : \A x : ChildUsed(x, u, d) \in SUBSET Int
    BY <2>0 DEF ChildUsed, NoSet
  <2> HIDE DEF MergeUsed, ChildUsed, UsedOverflow
  <2>4. 0 \in Nat /\ 1 \in Nat
    OBVIOUS
  <2>5. CASE Used(k) # UsedOverflow
    BY <2>0, <2>5
  <2>6. CASE Used(k) = UsedOverflow /\ Tag(k) = "bvar"
    BY <2>6, Anatomy
  <2>7. CASE Used(k) = UsedOverflow /\ Tag(k) = "app"
    BY <2>1, <2>2, <2>3, <2>4, <2>7, TagCases
  <2>8. CASE Used(k) = UsedOverflow /\ Tag(k) \in {"lam", "pi"}
    BY <2>1, <2>2, <2>3, <2>4, <2>8, TagCases
  <2>9. CASE Used(k) = UsedOverflow /\ Tag(k) = "let"
    BY <2>1, <2>2, <2>3, <2>4, <2>9, TagCases
  <2>10. CASE Used(k) = UsedOverflow /\ Tag(k) = "proj"
    BY <2>1, <2>3, <2>4, <2>10, TagCases
  <2>11. CASE Tag(k) \in {"sort", "const", "lit"}
    <3>1. Used(k) = {} /\ 0 \in UsedOverflow
      BY <2>11, UsedFacts, TermsAssumption DEF TermsAssumption, UsedOverflow
    <3> QED BY <2>0, <3>1
  <2> QED BY <2>5, <2>6, <2>7, <2>8, <2>9, <2>10, <2>11, Anatomy DEF Tags
<1>2. ASSUME NEW k \in Tree, NEW f, NEW g, \A y \in Tree : Rank[y] < Rank[k] => f[y] = g[y]
      PROVE  Body(f, k) = Body(g, k)
  <2>1. \A i \in Subs(k) : f[k[i]] = g[k[i]]
    BY <1>2, Anatomy
  <2>2. CASE Tag(k) \in {"sort", "const", "lit"}
    <3>1. Used(k) = {} /\ 0 \in UsedOverflow
      BY <2>2, UsedFacts, TermsAssumption DEF TermsAssumption, UsedOverflow
    <3> QED BY <3>1
  <2> QED BY <2>1, <2>2, TagCases, Anatomy DEF Tags
<1> HIDE DEF Body
<1>3. HasSolution(Tree, (SUBSET Int), B)
  <2>1. B \in [Tree -> [[Tree -> (SUBSET Int)] -> (SUBSET Int)]]
    BY <1>1
  <2>2. \A k \in Tree : \A f \in [Tree -> (SUBSET Int)] : B[k][f] = Body(f, k)
    OBVIOUS
  <2> HIDE DEF B
  <2>3. \A k \in Tree : \A f, g \in [Tree -> (SUBSET Int)] :
            (\A y \in Tree : Rank[y] < Rank[k] => f[y] = g[y]) => B[k][f] = B[k][g]
    BY <1>2, <2>2
  <2>4. (SUBSET Int) # {}
    OBVIOUS
  <2>5. IsRecursion(Tree, (SUBSET Int), Rank, B)
    BY <2>1, <2>3, <2>4, RankFacts DEF IsRecursion
  <2> QED BY <2>5, RecursiveFunction
<1>4. PICK f \in [Tree -> (SUBSET Int)] : \A k \in Tree : f[k] = Body(f, k)
  BY <1>3 DEF HasSolution
<1>5. made = [k \in Tree |-> Body(made, k)]
  <2>1. f = [k \in Tree |-> Body(f, k)]
    BY <1>4
  <2> QED BY <2>1
<1> HIDE DEF made
<1>6. \A k \in Tree : made[k] = Body(made, k)
  BY <1>5
<1>7. \A k \in Tree : made[k] = f[k]
  <2> DEFINE T == { k \in Tree : made[k] = f[k] }
  <2>1. ASSUME NEW k \in Tree, \A y \in Tree : Rank[y] < Rank[k] => y \in T
        PROVE  k \in T
    BY <1>2, <1>4, <1>6, <2>1
  <2>2. Tree \subseteq T
    <3> HIDE DEF T
    <3> QED BY <2>1, RankFacts, RankInduction
  <2> QED BY <2>2
<1>8. \A k : UsedSet(k) = made[k]
  BY DEF UsedSet, Tree, made, Body
<1> QED BY <1>6, <1>7, <1>8, Anatomy DEF Body

\* Rebuilding a term puts what becomes of each subterm in its place.
LEMMA ListFacts ==
    \A S : \A xs \in Seq(S) : /\ Len(xs) \in Nat /\ DOMAIN xs = 1 .. Len(xs)
                              /\ \A i \in 1 .. Len(xs) : xs[i] \in S
<1> SUFFICES ASSUME NEW S, NEW xs \in Seq(S)
             PROVE  /\ Len(xs) \in Nat /\ DOMAIN xs = 1 .. Len(xs)
                    /\ \A i \in 1 .. Len(xs) : xs[i] \in S
  OBVIOUS
<1>1. Len(xs) \in Nat
  OBVIOUS
<1>2. DOMAIN xs = 1 .. Len(xs)
  OBVIOUS
<1>3. \A i \in 1 .. Len(xs) : xs[i] \in S
  OBVIOUS
<1> QED BY <1>1, <1>2, <1>3

\* The argument an index stands for, and the index behind all arguments.
LEMMA ArgumentOf ==
    \A n, d, l \in Nat : n >= d => IF n - d < l THEN n - d + 1 \in 1 .. l ELSE n - l \in Nat
  OBVIOUS

\* Rebuilding a term puts what becomes of each subterm in its place.
LEMMA RebuildIsPut ==
    ASSUME NEW t, NEW f
    PROVE  /\ \A c : Rebuild(t, LAMBDA p, d : f[<<p, c + d>>])
                         = Put(t, [i \in 2 .. 4 |-> f[<<t[i], c + Under(t, i)>>]])
           /\ Rebuild(t, LAMBDA p, d : f[p]) = Put(t, [i \in 2 .. 4 |-> f[t[i]]])
<1>1. 2 \in 2 .. 4 /\ 3 \in 2 .. 4 /\ 4 \in 2 .. 4
  OBVIOUS
<1>2. ASSUME NEW c
      PROVE  Rebuild(t, LAMBDA p, d : f[<<p, c + d>>])
                 = Put(t, [i \in 2 .. 4 |-> f[<<t[i], c + Under(t, i)>>]])
  <2> DEFINE s == [i \in 2 .. 4 |-> f[<<t[i], c + Under(t, i)>>]]
  <2>1. /\ s[2] = f[<<t[2], c + Under(t, 2)>>] /\ s[3] = f[<<t[3], c + Under(t, 3)>>]
        /\ s[4] = f[<<t[4], c + Under(t, 4)>>]
    BY <1>1
  <2> HIDE DEF s
  <2>2. CASE Tag(t) = "app"
    BY <2>1, <2>2, TagCases, Constructors DEF Rebuild, Put
  <2>3. CASE Tag(t) \in {"lam", "pi"}
    BY <2>1, <2>3, TagCases, Constructors DEF Rebuild, Put
  <2>4. CASE Tag(t) = "let"
    BY <2>1, <2>4, TagCases DEF Rebuild, Put
  <2>5. CASE Tag(t) = "proj"
    BY <2>1, <2>5, TagCases DEF Rebuild, Put
  <2>6. CASE Tag(t) \notin {"app", "lam", "pi", "let", "proj"}
    BY <2>6 DEF Rebuild, Put
  <2> QED BY <2>2, <2>3, <2>4, <2>5, <2>6 DEF s
<1>3. Rebuild(t, LAMBDA p, d : f[p]) = Put(t, [i \in 2 .. 4 |-> f[t[i]]])
  <2> DEFINE s == [i \in 2 .. 4 |-> f[t[i]]]
  <2>1. s[2] = f[t[2]] /\ s[3] = f[t[3]] /\ s[4] = f[t[4]]
    BY <1>1
  <2> HIDE DEF s
  <2>2. CASE Tag(t) \in {"app", "lam", "pi"}
    BY <2>1, <2>2, Constructors DEF Rebuild, Put
  <2>3. CASE Tag(t) = "let"
    BY <2>1, <2>3 DEF Rebuild, Put
  <2>4. CASE Tag(t) = "proj"
    BY <2>1, <2>4 DEF Rebuild, Put
  <2>5. CASE Tag(t) \notin {"app", "lam", "pi", "let", "proj"}
    BY <2>5 DEF Rebuild, Put
  <2> QED BY <2>2, <2>3, <2>4, <2>5 DEF s
<1> QED BY <1>2, <1>3

\* Shifting and instantiating recurse over a term with the binders passed.
Places == Tree \X Nat
PlaceRank == [x \in Places |-> Rank[x[1]]]

LEMMA PlaceRankFacts ==
    /\ PlaceRank \in [Places -> Nat]
    /\ \A t \in Tree, c \in Nat : /\ <<t, c>> \in Places /\ PlaceRank[<<t, c>>] = Rank[t]
                                  /\ <<t, c>>[1] = t /\ <<t, c>>[2] = c
    /\ \A x \in Places : x[1] \in Tree /\ x[2] \in Nat /\ x = <<x[1], x[2]>>
  BY RankFacts DEF Places, PlaceRank

LEMMA PlacesBelow ==
    ASSUME NEW x \in Places, NEW i \in Subs(x[1])
    PROVE  /\ <<x[1][i], x[2] + Under(x[1], i)>> \in Places
           /\ PlaceRank[<<x[1][i], x[2] + Under(x[1], i)>>] < PlaceRank[x]
<1>1. x[1] \in Tree /\ x[2] \in Nat /\ x = <<x[1], x[2]>>
  BY PlaceRankFacts
<1>2. x[1][i] \in Tree /\ Rank[x[1][i]] < Rank[x[1]]
  BY <1>1, Anatomy
<1>3. x[2] + Under(x[1], i) \in Nat
  BY <1>1, KidFacts
<1> QED BY <1>1, <1>2, <1>3, PlaceRankFacts

LEMMA ShiftFacts ==
    ASSUME NEW t \in Tree, NEW c \in Nat, NEW by \in Nat
    PROVE  /\ Shift(t, by, c) \in AnyTree
           /\ Shift(t, by, c) = IF by = 0 \/ Loose(t) <= c THEN t
                                ELSE IF Tag(t) = "bvar" THEN IF t[2] >= c THEN BVar(t[2] + by) ELSE t
                                ELSE Put(t, [i \in 2 .. 4 |-> Shift(t[i], by, c + Under(t, i))])
<1> DEFINE Body(f, x) ==
               LET k == x[1]
                   c1 == x[2] IN
               IF by = 0 \/ Loose(k) <= c1 THEN k
               ELSE IF Tag(k) = "bvar" THEN IF k[2] >= c1 THEN BVar(k[2] + by) ELSE k
               ELSE Rebuild(k, LAMBDA p, d : f[<<p, c1 + d>>])
           B == [x \in Places |-> [f \in [Places -> AnyTree] |-> Body(f, x)]]
           made == CHOOSE f : f = [x \in Places |-> Body(f, x)]
<1>1. \A x \in Places : \A f \in [Places -> AnyTree] : Body(f, x) \in AnyTree
  <2> SUFFICES ASSUME NEW x \in Places, NEW f \in [Places -> AnyTree] PROVE Body(f, x) \in AnyTree
    OBVIOUS
  <2> DEFINE sf == [i \in 2 .. 4 |-> f[<<x[1][i], x[2] + Under(x[1], i)>>]]
  <2>1. x[1] \in Tree /\ x[2] \in Nat /\ x[1] \in AnyTree
    BY PlaceRankFacts, TermsAreTerms
  <2>2. \A i \in Subs(x[1]) : f[<<x[1][i], x[2] + Under(x[1], i)>>] \in AnyTree
    BY PlacesBelow
  <2>3. \A i \in Subs(x[1]) : sf[i] \in AnyTree
    BY <2>2, KidFacts
  <2> HIDE DEF sf
  <2>4. Put(x[1], sf) \in AnyTree
    BY <2>1, <2>3, PutHeight
  <2>5. Rebuild(x[1], LAMBDA p, d : f[<<p, x[2] + d>>]) = Put(x[1], sf)
    BY RebuildIsPut DEF sf
  <2>6. Tag(x[1]) = "bvar" => BVar(x[1][2] + by) \in AnyTree
    <3>1. SUFFICES ASSUME Tag(x[1]) = "bvar" PROVE BVar(x[1][2] + by) \in AnyTree
      OBVIOUS
    <3>2. x[1][2] + by \in Nat
      BY <2>1, <3>1, Anatomy
    <3>3. IsLeafTerm(BVar(x[1][2] + by))
      BY <3>2, Constructors DEF IsLeafTerm
    <3> QED BY <3>3, LeafShape, TermsAreTerms
  <2> QED BY <2>1, <2>4, <2>5, <2>6
<1>2. ASSUME NEW x \in Places, NEW f, NEW g, \A y \in Places : PlaceRank[y] < PlaceRank[x] => f[y] = g[y]
      PROVE  Body(f, x) = Body(g, x)
  <2> DEFINE sf == [i \in 2 .. 4 |-> f[<<x[1][i], x[2] + Under(x[1], i)>>]]
             sg == [i \in 2 .. 4 |-> g[<<x[1][i], x[2] + Under(x[1], i)>>]]
  <2>1. \A i \in Subs(x[1]) : f[<<x[1][i], x[2] + Under(x[1], i)>>] = g[<<x[1][i], x[2] + Under(x[1], i)>>]
    BY <1>2, PlacesBelow
  <2>2. \A i \in Subs(x[1]) : sf[i] = sg[i]
    BY <2>1, KidFacts
  <2>3. Rebuild(x[1], LAMBDA p, d : f[<<p, x[2] + d>>]) = Put(x[1], sf)
    BY RebuildIsPut DEF sf
  <2>4. Rebuild(x[1], LAMBDA p, d : g[<<p, x[2] + d>>]) = Put(x[1], sg)
    BY RebuildIsPut DEF sg
  <2> HIDE DEF sf, sg
  <2>5. Put(x[1], sf) = Put(x[1], sg)
    BY <2>2, PutFacts
  <2> QED BY <2>3, <2>4, <2>5
<1> HIDE DEF Body
<1>3. HasSolution(Places, AnyTree, B)
  <2>1. B \in [Places -> [[Places -> AnyTree] -> AnyTree]]
    BY <1>1
  <2>2. \A x \in Places : \A f \in [Places -> AnyTree] : B[x][f] = Body(f, x)
    OBVIOUS
  <2> HIDE DEF B
  <2>3. \A x \in Places : \A f, g \in [Places -> AnyTree] :
            (\A y \in Places : PlaceRank[y] < PlaceRank[x] => f[y] = g[y]) => B[x][f] = B[x][g]
    BY <1>2, <2>2
  <2>4. AnyTree # {}
    BY TermsAreTerms
  <2>5. IsRecursion(Places, AnyTree, PlaceRank, B)
    BY <2>1, <2>3, <2>4, PlaceRankFacts DEF IsRecursion
  <2> QED BY <2>5, RecursiveFunction
<1>4. PICK f \in [Places -> AnyTree] : \A x \in Places : f[x] = Body(f, x)
  BY <1>3 DEF HasSolution
<1>5. made = [x \in Places |-> Body(made, x)]
  <2>1. f = [x \in Places |-> Body(f, x)]
    BY <1>4
  <2> QED BY <2>1
<1> HIDE DEF made
<1>6. \A x \in Places : made[x] = Body(made, x)
  BY <1>5
<1>7. \A x \in Places : made[x] = f[x]
  <2> DEFINE T == { x \in Places : made[x] = f[x] }
  <2>1. ASSUME NEW x \in Places, \A y \in Places : PlaceRank[y] < PlaceRank[x] => y \in T
        PROVE  x \in T
    BY <1>2, <1>4, <1>6, <2>1
  <2>2. Places \subseteq T
    <3> HIDE DEF T
    <3> QED BY <2>1, PlaceRankFacts, RankInduction
  <2> QED BY <2>2
<1>8. \A k, d : Shift(k, by, d) = made[<<k, d>>]
  BY DEF Shift, Tree, Places, made, Body
<1>9. made[<<t, c>>] = Body(made, <<t, c>>) /\ made[<<t, c>>] \in AnyTree
  BY <1>6, <1>7, PlaceRankFacts
<1>10. Body(made, <<t, c>>) =
           IF by = 0 \/ Loose(t) <= c THEN t
           ELSE IF Tag(t) = "bvar" THEN IF t[2] >= c THEN BVar(t[2] + by) ELSE t
           ELSE Put(t, [i \in 2 .. 4 |-> made[<<t[i], c + Under(t, i)>>]])
  <2>1. ASSUME NEW x \in Places
        PROVE  Body(made, x) = IF by = 0 \/ Loose(x[1]) <= x[2] THEN x[1]
                 ELSE IF Tag(x[1]) = "bvar" THEN IF x[1][2] >= x[2] THEN BVar(x[1][2] + by) ELSE x[1]
                 ELSE Put(x[1], [i \in 2 .. 4 |-> made[<<x[1][i], x[2] + Under(x[1], i)>>]])
    <3>1. Rebuild(x[1], LAMBDA p, d : made[<<p, x[2] + d>>])
              = Put(x[1], [i \in 2 .. 4 |-> made[<<x[1][i], x[2] + Under(x[1], i)>>]])
      BY RebuildIsPut
    <3> QED BY <3>1 DEF Body
  <2>2. <<t, c>> \in Places /\ <<t, c>>[1] = t /\ <<t, c>>[2] = c
    BY PlaceRankFacts
  <2> QED BY <2>1, <2>2
<1>11. [i \in 2 .. 4 |-> made[<<t[i], c + Under(t, i)>>]]
           = [i \in 2 .. 4 |-> Shift(t[i], by, c + Under(t, i))]
  BY <1>8
<1> QED BY <1>8, <1>9, <1>10, <1>11

LEMMA InstantiateCoreFacts ==
    ASSUME NEW t \in Tree, NEW c \in Nat, NEW xs \in Seq(Tree)
    PROVE  /\ InstantiateCore(t, xs, c) \in AnyTree
           /\ InstantiateCore(t, xs, c) =
                IF Loose(t) <= c THEN t
                ELSE IF Tag(t) = "bvar" THEN
                    IF t[2] >= c /\ t[2] - c < Len(xs) THEN Shift(xs[t[2] - c + 1], c, 0)
                    ELSE IF t[2] >= c THEN BVar(t[2] - Len(xs))
                    ELSE t
                ELSE Put(t, [i \in 2 .. 4 |-> InstantiateCore(t[i], xs, c + Under(t, i))])
<1> DEFINE Body(f, x) ==
               LET k == x[1]
                   d == x[2] IN
               IF Loose(k) <= d THEN k
               ELSE IF Tag(k) = "bvar" THEN
                   IF k[2] >= d /\ k[2] - d < Len(xs) THEN Shift(xs[k[2] - d + 1], d, 0)
                   ELSE IF k[2] >= d THEN BVar(k[2] - Len(xs))
                   ELSE k
               ELSE Rebuild(k, LAMBDA p, b : f[<<p, d + b>>])
           B == [x \in Places |-> [f \in [Places -> AnyTree] |-> Body(f, x)]]
           made == CHOOSE f : f = [x \in Places |-> Body(f, x)]
<1>1. \A x \in Places : \A f \in [Places -> AnyTree] : Body(f, x) \in AnyTree
  <2> SUFFICES ASSUME NEW x \in Places, NEW f \in [Places -> AnyTree] PROVE Body(f, x) \in AnyTree
    OBVIOUS
  <2> DEFINE sf == [i \in 2 .. 4 |-> f[<<x[1][i], x[2] + Under(x[1], i)>>]]
  <2>1. x[1] \in Tree /\ x[2] \in Nat /\ x[1] \in AnyTree
    BY PlaceRankFacts, TermsAreTerms
  <2>2. \A i \in Subs(x[1]) : f[<<x[1][i], x[2] + Under(x[1], i)>>] \in AnyTree
    BY PlacesBelow
  <2>3. \A i \in Subs(x[1]) : sf[i] \in AnyTree
    BY <2>2, KidFacts
  <2> HIDE DEF sf
  <2>4. Put(x[1], sf) \in AnyTree
    BY <2>1, <2>3, PutHeight
  <2>5. Rebuild(x[1], LAMBDA p, d : f[<<p, x[2] + d>>]) = Put(x[1], sf)
    BY RebuildIsPut DEF sf
  <2>6. ASSUME Tag(x[1]) = "bvar", x[1][2] >= x[2]
        PROVE  IF x[1][2] - x[2] < Len(xs) THEN Shift(xs[x[1][2] - x[2] + 1], x[2], 0) \in AnyTree
               ELSE BVar(x[1][2] - Len(xs)) \in AnyTree
    <3> DEFINE i == x[1][2] - x[2] + 1
    <3>0. x[1][2] \in Nat
      BY <2>1, <2>6, Anatomy
    <3>1. x[1][2] \in Nat /\ Len(xs) \in Nat /\ \A j \in 1 .. Len(xs) : xs[j] \in Tree
      BY <3>0, ListFacts
    <3>2. CASE x[1][2] - x[2] < Len(xs)
      <4>1. i \in 1 .. Len(xs)
        BY <2>1, <2>6, <3>1, <3>2, ArgumentOf
      <4>2. xs[i] \in Tree
        BY <3>1, <4>1
      <4> QED BY <2>1, <3>2, <4>2, ShiftFacts
    <3>3. CASE ~(x[1][2] - x[2] < Len(xs))
      <4>1. x[1][2] - Len(xs) \in Nat
        BY <2>1, <2>6, <3>1, <3>3, ArgumentOf
      <4>2. IsLeafTerm(BVar(x[1][2] - Len(xs)))
        BY <4>1, Constructors DEF IsLeafTerm
      <4> QED BY <3>3, <4>2, LeafShape, TermsAreTerms
    <3> QED BY <3>2, <3>3
  <2> QED BY <2>1, <2>4, <2>5, <2>6
<1>2. ASSUME NEW x \in Places, NEW f, NEW g, \A y \in Places : PlaceRank[y] < PlaceRank[x] => f[y] = g[y]
      PROVE  Body(f, x) = Body(g, x)
  <2> DEFINE sf == [i \in 2 .. 4 |-> f[<<x[1][i], x[2] + Under(x[1], i)>>]]
             sg == [i \in 2 .. 4 |-> g[<<x[1][i], x[2] + Under(x[1], i)>>]]
  <2>1. \A i \in Subs(x[1]) : f[<<x[1][i], x[2] + Under(x[1], i)>>] = g[<<x[1][i], x[2] + Under(x[1], i)>>]
    BY <1>2, PlacesBelow
  <2>2. \A i \in Subs(x[1]) : sf[i] = sg[i]
    BY <2>1, KidFacts
  <2>3. Rebuild(x[1], LAMBDA p, d : f[<<p, x[2] + d>>]) = Put(x[1], sf)
    BY RebuildIsPut DEF sf
  <2>4. Rebuild(x[1], LAMBDA p, d : g[<<p, x[2] + d>>]) = Put(x[1], sg)
    BY RebuildIsPut DEF sg
  <2> HIDE DEF sf, sg
  <2>5. Put(x[1], sf) = Put(x[1], sg)
    BY <2>2, PutFacts
  <2> QED BY <2>3, <2>4, <2>5
<1> HIDE DEF Body
<1>3. HasSolution(Places, AnyTree, B)
  <2>1. B \in [Places -> [[Places -> AnyTree] -> AnyTree]]
    BY <1>1
  <2>2. \A x \in Places : \A f \in [Places -> AnyTree] : B[x][f] = Body(f, x)
    OBVIOUS
  <2> HIDE DEF B
  <2>3. \A x \in Places : \A f, g \in [Places -> AnyTree] :
            (\A y \in Places : PlaceRank[y] < PlaceRank[x] => f[y] = g[y]) => B[x][f] = B[x][g]
    BY <1>2, <2>2
  <2>4. AnyTree # {}
    BY TermsAreTerms
  <2>5. IsRecursion(Places, AnyTree, PlaceRank, B)
    BY <2>1, <2>3, <2>4, PlaceRankFacts DEF IsRecursion
  <2> QED BY <2>5, RecursiveFunction
<1>4. PICK f \in [Places -> AnyTree] : \A x \in Places : f[x] = Body(f, x)
  BY <1>3 DEF HasSolution
<1>5. made = [x \in Places |-> Body(made, x)]
  <2>1. f = [x \in Places |-> Body(f, x)]
    BY <1>4
  <2> QED BY <2>1
<1> HIDE DEF made
<1>6. \A x \in Places : made[x] = Body(made, x)
  BY <1>5
<1>7. \A x \in Places : made[x] = f[x]
  <2> DEFINE T == { x \in Places : made[x] = f[x] }
  <2>1. ASSUME NEW x \in Places, \A y \in Places : PlaceRank[y] < PlaceRank[x] => y \in T
        PROVE  x \in T
    BY <1>2, <1>4, <1>6, <2>1
  <2>2. Places \subseteq T
    <3> HIDE DEF T
    <3> QED BY <2>1, PlaceRankFacts, RankInduction
  <2> QED BY <2>2
<1>8. \A k, d : InstantiateCore(k, xs, d) = made[<<k, d>>]
  BY DEF InstantiateCore, Tree, Places, made, Body
<1>9. made[<<t, c>>] = Body(made, <<t, c>>) /\ made[<<t, c>>] \in AnyTree
  BY <1>6, <1>7, PlaceRankFacts
<1>10. Body(made, <<t, c>>) =
           IF Loose(t) <= c THEN t
           ELSE IF Tag(t) = "bvar" THEN
               IF t[2] >= c /\ t[2] - c < Len(xs) THEN Shift(xs[t[2] - c + 1], c, 0)
               ELSE IF t[2] >= c THEN BVar(t[2] - Len(xs))
               ELSE t
           ELSE Put(t, [i \in 2 .. 4 |-> made[<<t[i], c + Under(t, i)>>]])
  <2>1. ASSUME NEW x \in Places
        PROVE  Body(made, x) =
                 IF Loose(x[1]) <= x[2] THEN x[1]
                 ELSE IF Tag(x[1]) = "bvar" THEN
                     IF x[1][2] >= x[2] /\ x[1][2] - x[2] < Len(xs) THEN Shift(xs[x[1][2] - x[2] + 1], x[2], 0)
                     ELSE IF x[1][2] >= x[2] THEN BVar(x[1][2] - Len(xs))
                     ELSE x[1]
                 ELSE Put(x[1], [i \in 2 .. 4 |-> made[<<x[1][i], x[2] + Under(x[1], i)>>]])
    <3>1. Rebuild(x[1], LAMBDA p, d : made[<<p, x[2] + d>>])
              = Put(x[1], [i \in 2 .. 4 |-> made[<<x[1][i], x[2] + Under(x[1], i)>>]])
      BY RebuildIsPut
    <3> QED BY <3>1 DEF Body
  <2>2. <<t, c>> \in Places /\ <<t, c>>[1] = t /\ <<t, c>>[2] = c
    BY PlaceRankFacts
  <2> QED BY <2>1, <2>2
<1>11. [i \in 2 .. 4 |-> made[<<t[i], c + Under(t, i)>>]]
           = [i \in 2 .. 4 |-> InstantiateCore(t[i], xs, c + Under(t, i))]
  BY <1>8
<1> QED BY <1>8, <1>9, <1>10, <1>11

LEMMA ReadFacts ==
    ASSUME NEW t \in Tree, NEW c \in Nat, NEW env \in [Nat -> AnyTree]
    PROVE  /\ Read(t, env, c) \in AnyTree
           /\ Read(t, env, c) =
                IF Tag(t) = "bvar" THEN IF t[2] < c THEN t ELSE env[t[2] - c]
                ELSE Put(t, [i \in 2 .. 4 |-> Read(t[i], env, c + Under(t, i))])
<1> DEFINE Body(f, x) ==
               LET k == x[1]
                   d == x[2] IN
               IF Tag(k) = "bvar" THEN IF k[2] < d THEN k ELSE env[k[2] - d]
               ELSE Rebuild(k, LAMBDA p, b : f[<<p, d + b>>])
           B == [x \in Places |-> [f \in [Places -> AnyTree] |-> Body(f, x)]]
           made == CHOOSE f : f = [x \in Places |-> Body(f, x)]
<1>1. \A x \in Places : \A f \in [Places -> AnyTree] : Body(f, x) \in AnyTree
  <2> SUFFICES ASSUME NEW x \in Places, NEW f \in [Places -> AnyTree] PROVE Body(f, x) \in AnyTree
    OBVIOUS
  <2> DEFINE sf == [i \in 2 .. 4 |-> f[<<x[1][i], x[2] + Under(x[1], i)>>]]
  <2>1. x[1] \in Tree /\ x[2] \in Nat /\ x[1] \in AnyTree
    BY PlaceRankFacts, TermsAreTerms
  <2>2. \A i \in Subs(x[1]) : f[<<x[1][i], x[2] + Under(x[1], i)>>] \in AnyTree
    BY PlacesBelow
  <2>3. \A i \in Subs(x[1]) : sf[i] \in AnyTree
    BY <2>2, KidFacts
  <2> HIDE DEF sf
  <2>4. Put(x[1], sf) \in AnyTree
    BY <2>1, <2>3, PutHeight
  <2>5. Rebuild(x[1], LAMBDA p, d : f[<<p, x[2] + d>>]) = Put(x[1], sf)
    BY RebuildIsPut DEF sf
  <2>6. Tag(x[1]) = "bvar" /\ ~(x[1][2] < x[2]) => env[x[1][2] - x[2]] \in AnyTree
    <3> SUFFICES ASSUME Tag(x[1]) = "bvar", ~(x[1][2] < x[2]) PROVE x[1][2] - x[2] \in Nat
      OBVIOUS
    <3>1. x[1][2] \in Nat
      BY <2>1, Anatomy
    <3> QED BY <2>1, <3>1
  <2> QED BY <2>1, <2>4, <2>5, <2>6
<1>2. ASSUME NEW x \in Places, NEW f, NEW g, \A y \in Places : PlaceRank[y] < PlaceRank[x] => f[y] = g[y]
      PROVE  Body(f, x) = Body(g, x)
  <2> DEFINE sf == [i \in 2 .. 4 |-> f[<<x[1][i], x[2] + Under(x[1], i)>>]]
             sg == [i \in 2 .. 4 |-> g[<<x[1][i], x[2] + Under(x[1], i)>>]]
  <2>1. \A i \in Subs(x[1]) : f[<<x[1][i], x[2] + Under(x[1], i)>>] = g[<<x[1][i], x[2] + Under(x[1], i)>>]
    BY <1>2, PlacesBelow
  <2>2. \A i \in Subs(x[1]) : sf[i] = sg[i]
    BY <2>1, KidFacts
  <2>3. Rebuild(x[1], LAMBDA p, d : f[<<p, x[2] + d>>]) = Put(x[1], sf)
    BY RebuildIsPut DEF sf
  <2>4. Rebuild(x[1], LAMBDA p, d : g[<<p, x[2] + d>>]) = Put(x[1], sg)
    BY RebuildIsPut DEF sg
  <2> HIDE DEF sf, sg
  <2>5. Put(x[1], sf) = Put(x[1], sg)
    BY <2>2, PutFacts
  <2> QED BY <2>3, <2>4, <2>5
<1> HIDE DEF Body
<1>3. HasSolution(Places, AnyTree, B)
  <2>1. B \in [Places -> [[Places -> AnyTree] -> AnyTree]]
    BY <1>1
  <2>2. \A x \in Places : \A f \in [Places -> AnyTree] : B[x][f] = Body(f, x)
    OBVIOUS
  <2> HIDE DEF B
  <2>3. \A x \in Places : \A f, g \in [Places -> AnyTree] :
            (\A y \in Places : PlaceRank[y] < PlaceRank[x] => f[y] = g[y]) => B[x][f] = B[x][g]
    BY <1>2, <2>2
  <2>4. AnyTree # {}
    BY TermsAreTerms
  <2>5. IsRecursion(Places, AnyTree, PlaceRank, B)
    BY <2>1, <2>3, <2>4, PlaceRankFacts DEF IsRecursion
  <2> QED BY <2>5, RecursiveFunction
<1>4. PICK f \in [Places -> AnyTree] : \A x \in Places : f[x] = Body(f, x)
  BY <1>3 DEF HasSolution
<1>5. made = [x \in Places |-> Body(made, x)]
  <2>1. f = [x \in Places |-> Body(f, x)]
    BY <1>4
  <2> QED BY <2>1
<1> HIDE DEF made
<1>6. \A x \in Places : made[x] = Body(made, x)
  BY <1>5
<1>7. \A x \in Places : made[x] = f[x]
  <2> DEFINE T == { x \in Places : made[x] = f[x] }
  <2>1. ASSUME NEW x \in Places, \A y \in Places : PlaceRank[y] < PlaceRank[x] => y \in T
        PROVE  x \in T
    BY <1>2, <1>4, <1>6, <2>1
  <2>2. Places \subseteq T
    <3> HIDE DEF T
    <3> QED BY <2>1, PlaceRankFacts, RankInduction
  <2> QED BY <2>2
<1>8. \A k, d : Read(k, env, d) = made[<<k, d>>]
  BY DEF Read, Tree, Places, made, Body
<1>9. made[<<t, c>>] = Body(made, <<t, c>>) /\ made[<<t, c>>] \in AnyTree
  BY <1>6, <1>7, PlaceRankFacts
<1>10. Body(made, <<t, c>>) =
           IF Tag(t) = "bvar" THEN IF t[2] < c THEN t ELSE env[t[2] - c]
           ELSE Put(t, [i \in 2 .. 4 |-> made[<<t[i], c + Under(t, i)>>]])
  <2>1. ASSUME NEW x \in Places
        PROVE  Body(made, x) =
                 IF Tag(x[1]) = "bvar" THEN IF x[1][2] < x[2] THEN x[1] ELSE env[x[1][2] - x[2]]
                 ELSE Put(x[1], [i \in 2 .. 4 |-> made[<<x[1][i], x[2] + Under(x[1], i)>>]])
    <3>1. Rebuild(x[1], LAMBDA p, d : made[<<p, x[2] + d>>])
              = Put(x[1], [i \in 2 .. 4 |-> made[<<x[1][i], x[2] + Under(x[1], i)>>]])
      BY RebuildIsPut
    <3> QED BY <3>1 DEF Body
  <2>2. <<t, c>> \in Places /\ <<t, c>>[1] = t /\ <<t, c>>[2] = c
    BY PlaceRankFacts
  <2> QED BY <2>1, <2>2
<1>11. [i \in 2 .. 4 |-> made[<<t[i], c + Under(t, i)>>]]
           = [i \in 2 .. 4 |-> Read(t[i], env, c + Under(t, i))]
  BY <1>8
<1> QED BY <1>8, <1>9, <1>10, <1>11

LEMMA InstantiateLevelsFacts ==
    ASSUME NEW t \in Tree, NEW s, s \in [DOMAIN s -> Universes]
    PROVE  /\ InstantiateLevels(t, s) \in AnyTree
           /\ InstantiateLevels(t, s) =
                IF Tag(t) = "sort" THEN Sort(LevelAt(t[2], s))
                ELSE IF Tag(t) = "const" THEN Const(t[2], [i \in DOMAIN t[3] |-> LevelAt(t[3][i], s)])
                ELSE Put(t, [i \in 2 .. 4 |-> InstantiateLevels(t[i], s)])
<1> DEFINE Body(f, k) ==
               IF Tag(k) = "sort" THEN Sort(LevelAt(k[2], s))
               ELSE IF Tag(k) = "const" THEN Const(k[2], [i \in DOMAIN k[3] |-> LevelAt(k[3][i], s)])
               ELSE Rebuild(k, LAMBDA p, d : f[p])
           B == [k \in Tree |-> [f \in [Tree -> AnyTree] |-> Body(f, k)]]
           made == CHOOSE f : f = [k \in Tree |-> Body(f, k)]
<1>1. \A k \in Tree : \A f \in [Tree -> AnyTree] : Body(f, k) \in AnyTree
  <2> SUFFICES ASSUME NEW k \in Tree, NEW f \in [Tree -> AnyTree] PROVE Body(f, k) \in AnyTree
    OBVIOUS
  <2> DEFINE sf == [i \in 2 .. 4 |-> f[k[i]]]
  <2>1. \A i \in Subs(k) : f[k[i]] \in AnyTree
    BY Anatomy
  <2>2. \A i \in Subs(k) : sf[i] \in AnyTree
    BY <2>1, KidFacts
  <2> HIDE DEF sf
  <2>3. Put(k, sf) \in AnyTree
    BY <2>2, PutHeight
  <2>4. Rebuild(k, LAMBDA p, d : f[p]) = Put(k, sf)
    BY RebuildIsPut DEF sf
  <2>5. \A l \in Universes : LevelAt(l, s) \in Universes
    BY DEF LevelAt
  <2>6. CASE Tag(k) = "sort"
    <3>1. IsLeafTerm(Sort(LevelAt(k[2], s)))
      BY <2>5, <2>6, Anatomy, Constructors DEF IsLeafTerm
    <3> QED BY <2>6, <3>1, LeafShape, TermsAreTerms
  <2>7. CASE Tag(k) = "const"
    <3> DEFINE us == [i \in DOMAIN k[3] |-> LevelAt(k[3][i], s)]
    <3>1. k[2] \in ConstNames /\ k[3] \in Seq(Universes)
      BY <2>7, Anatomy
    <3>2. us \in Seq(Universes)
      <4>1. DOMAIN k[3] = 1 .. Len(k[3]) /\ Len(k[3]) \in Nat /\ \A i \in 1 .. Len(k[3]) : k[3][i] \in Universes
        BY <3>1
      <4> HIDE DEF LevelAt
      <4>2. us \in [1 .. Len(k[3]) -> Universes]
        BY <2>5, <4>1
      <4> HIDE DEF us
      <4> QED BY <4>1, <4>2
    <3> HIDE DEF us
    <3>3. IsLeafTerm(Const(k[2], us))
      BY <3>1, <3>2, Constructors DEF IsLeafTerm
    <3>4. Const(k[2], us) \in AnyTree
      BY <3>3, LeafShape, TermsAreTerms
    <3> QED BY <2>7, <3>4 DEF us
  <2> QED BY <2>3, <2>4, <2>6, <2>7
<1>2. ASSUME NEW k \in Tree, NEW f, NEW g, \A y \in Tree : Rank[y] < Rank[k] => f[y] = g[y]
      PROVE  Body(f, k) = Body(g, k)
  <2>1. \A i \in Subs(k) : f[k[i]] = g[k[i]]
    BY <1>2, Anatomy
  <2> DEFINE sf == [i \in 2 .. 4 |-> f[k[i]]]
             sg == [i \in 2 .. 4 |-> g[k[i]]]
  <2>2. \A i \in Subs(k) : sf[i] = sg[i]
    BY <2>1, KidFacts
  <2>3. Rebuild(k, LAMBDA p, d : f[p]) = Put(k, sf)
    BY RebuildIsPut DEF sf
  <2>4. Rebuild(k, LAMBDA p, d : g[p]) = Put(k, sg)
    BY RebuildIsPut DEF sg
  <2> HIDE DEF sf, sg
  <2>5. Put(k, sf) = Put(k, sg)
    BY <2>2, PutFacts
  <2> QED BY <2>3, <2>4, <2>5
<1> HIDE DEF Body
<1>3. HasSolution(Tree, AnyTree, B)
  <2>1. B \in [Tree -> [[Tree -> AnyTree] -> AnyTree]]
    BY <1>1
  <2>2. \A k \in Tree : \A f \in [Tree -> AnyTree] : B[k][f] = Body(f, k)
    OBVIOUS
  <2> HIDE DEF B
  <2>3. \A k \in Tree : \A f, g \in [Tree -> AnyTree] :
            (\A y \in Tree : Rank[y] < Rank[k] => f[y] = g[y]) => B[k][f] = B[k][g]
    BY <1>2, <2>2
  <2>4. AnyTree # {}
    BY TermsAreTerms
  <2>5. IsRecursion(Tree, AnyTree, Rank, B)
    BY <2>1, <2>3, <2>4, RankFacts DEF IsRecursion
  <2> QED BY <2>5, RecursiveFunction
<1>4. PICK f \in [Tree -> AnyTree] : \A k \in Tree : f[k] = Body(f, k)
  BY <1>3 DEF HasSolution
<1>5. made = [k \in Tree |-> Body(made, k)]
  <2>1. f = [k \in Tree |-> Body(f, k)]
    BY <1>4
  <2> QED BY <2>1
<1> HIDE DEF made
<1>6. \A k \in Tree : made[k] = Body(made, k)
  BY <1>5
<1>7. \A k \in Tree : made[k] = f[k]
  <2> DEFINE T == { k \in Tree : made[k] = f[k] }
  <2>1. ASSUME NEW k \in Tree, \A y \in Tree : Rank[y] < Rank[k] => y \in T
        PROVE  k \in T
    BY <1>2, <1>4, <1>6, <2>1
  <2>2. Tree \subseteq T
    <3> HIDE DEF T
    <3> QED BY <2>1, RankFacts, RankInduction
  <2> QED BY <2>2
<1>8. \A k : InstantiateLevels(k, s) = made[k]
  BY DEF InstantiateLevels, Tree, made, Body
<1>9. made[t] = Body(made, t) /\ made[t] \in AnyTree
  BY <1>6, <1>7
<1>10. Rebuild(t, LAMBDA p, d : made[p]) = Put(t, [i \in 2 .. 4 |-> made[t[i]]])
  BY RebuildIsPut
<1>11. [i \in 2 .. 4 |-> made[t[i]]] = [i \in 2 .. 4 |-> InstantiateLevels(t[i], s)]
  BY <1>8
<1> QED BY <1>8, <1>9, <1>10, <1>11 DEF Body

LEMMA LevelsOfFacts ==
    ASSUME NEW t \in Tree
    PROVE  /\ LevelsOf(t) \in SUBSET Universes
           /\ LevelsOf(t) = IF Tag(t) = "sort" THEN {t[2]}
                            ELSE IF Tag(t) = "const" THEN {t[3][i] : i \in DOMAIN t[3]}
                            ELSE IF Tag(t) \in {"app", "lam", "pi"} THEN LevelsOf(t[2]) \cup LevelsOf(t[3])
                            ELSE IF Tag(t) = "let" THEN LevelsOf(t[2]) \cup LevelsOf(t[3]) \cup LevelsOf(t[4])
                            ELSE IF Tag(t) = "proj" THEN LevelsOf(t[4])
                            ELSE {}
<1> DEFINE Body(f, k) ==
               IF Tag(k) = "sort" THEN {k[2]}
               ELSE IF Tag(k) = "const" THEN {k[3][i] : i \in DOMAIN k[3]}
               ELSE IF Tag(k) \in {"app", "lam", "pi"} THEN f[k[2]] \cup f[k[3]]
               ELSE IF Tag(k) = "let" THEN f[k[2]] \cup f[k[3]] \cup f[k[4]]
               ELSE IF Tag(k) = "proj" THEN f[k[4]]
               ELSE {}
           B == [k \in Tree |-> [f \in [Tree -> (SUBSET Universes)] |-> Body(f, k)]]
           made == CHOOSE f : f = [k \in Tree |-> Body(f, k)]
<1>1. \A k \in Tree : \A f \in [Tree -> (SUBSET Universes)] : Body(f, k) \in (SUBSET Universes)
  <2> SUFFICES ASSUME NEW k \in Tree, NEW f \in [Tree -> SUBSET Universes] PROVE Body(f, k) \in SUBSET Universes
    OBVIOUS
  <2>1. \A i \in Subs(k) : f[k[i]] \in SUBSET Universes
    BY Anatomy
  <2>2. CASE Tag(k) = "const"
    <3>1. k[3] \in Seq(Universes)
      BY <2>2, Anatomy
    <3> QED BY <2>2, <3>1
  <2> QED BY <2>1, <2>2, TagCases, Anatomy DEF Tags
<1>2. ASSUME NEW k \in Tree, NEW f, NEW g, \A y \in Tree : Rank[y] < Rank[k] => f[y] = g[y]
      PROVE  Body(f, k) = Body(g, k)
  <2>1. \A i \in Subs(k) : f[k[i]] = g[k[i]]
    BY <1>2, Anatomy
  <2>2. /\ Tag(k) \in {"app", "lam", "pi", "let"} => f[k[2]] = g[k[2]] /\ f[k[3]] = g[k[3]]
        /\ Tag(k) \in {"let", "proj"} => f[k[4]] = g[k[4]]
    BY <2>1, TagCases
  <2>3. CASE Tag(k) \in {"app", "lam", "pi"}
    BY <2>2, <2>3
  <2>4. CASE Tag(k) = "let"
    BY <2>2, <2>4
  <2>5. CASE Tag(k) \notin {"app", "lam", "pi", "let"}
    BY <2>2, <2>5
  <2> QED BY <2>3, <2>4, <2>5
<1> HIDE DEF Body
<1>3. HasSolution(Tree, (SUBSET Universes), B)
  <2>1. B \in [Tree -> [[Tree -> (SUBSET Universes)] -> (SUBSET Universes)]]
    BY <1>1
  <2>2. \A k \in Tree : \A f \in [Tree -> (SUBSET Universes)] : B[k][f] = Body(f, k)
    OBVIOUS
  <2> HIDE DEF B
  <2>3. \A k \in Tree : \A f, g \in [Tree -> (SUBSET Universes)] :
            (\A y \in Tree : Rank[y] < Rank[k] => f[y] = g[y]) => B[k][f] = B[k][g]
    BY <1>2, <2>2
  <2>4. (SUBSET Universes) # {}
    OBVIOUS
  <2>5. IsRecursion(Tree, (SUBSET Universes), Rank, B)
    BY <2>1, <2>3, <2>4, RankFacts DEF IsRecursion
  <2> QED BY <2>5, RecursiveFunction
<1>4. PICK f \in [Tree -> (SUBSET Universes)] : \A k \in Tree : f[k] = Body(f, k)
  BY <1>3 DEF HasSolution
<1>5. made = [k \in Tree |-> Body(made, k)]
  <2>1. f = [k \in Tree |-> Body(f, k)]
    BY <1>4
  <2> QED BY <2>1
<1> HIDE DEF made
<1>6. \A k \in Tree : made[k] = Body(made, k)
  BY <1>5
<1>7. \A k \in Tree : made[k] = f[k]
  <2> DEFINE T == { k \in Tree : made[k] = f[k] }
  <2>1. ASSUME NEW k \in Tree, \A y \in Tree : Rank[y] < Rank[k] => y \in T
        PROVE  k \in T
    BY <1>2, <1>4, <1>6, <2>1
  <2>2. Tree \subseteq T
    <3> HIDE DEF T
    <3> QED BY <2>1, RankFacts, RankInduction
  <2> QED BY <2>2
<1>8. \A k : LevelsOf(k) = made[k]
  BY DEF LevelsOf, Tree, made, Body
<1> QED BY <1>6, <1>7, <1>8, Anatomy DEF Body

-----------------------------------------------------------------------------
(* Summaries *)

\* A larger of two naturals, and one less than a natural, against a bound.
LEMMA LargerBound ==
    ASSUME NEW a \in Nat, NEW b \in Nat, NEW m \in Nat
    PROVE  Larger(a, b) \in Nat /\ (Larger(a, b) <= m <=> a <= m /\ b <= m)
BY DEF Larger

LEMMA Less1Bound ==
    ASSUME NEW a \in Nat, NEW m \in Nat
    PROVE  Less1(a) \in Nat /\ (Less1(a) <= m <=> a <= m + 1)
BY DEF Less1

\* The range of a term in terms of its subterms'.
LEMMA LooseShape ==
    ASSUME NEW t \in Tree, NEW m \in Nat
    PROVE  Loose(t) <= m <=> /\ Tag(t) = "bvar" => t[2] < m
                             /\ \A i \in Subs(t) : Loose(t[i]) <= m + Under(t, i)
<1>1. \A i \in Subs(t) : Loose(t[i]) \in Nat
  BY Anatomy, LooseFacts
<1>3. CASE Tag(t) = "bvar"
  BY <1>3, LooseFacts, Anatomy, TagCases
<1>4. CASE Tag(t) \in {"sort", "const", "lit"}
  BY <1>4, LooseFacts, TagCases
<1>5. CASE Tag(t) = "app"
  <2>1. Loose(t) = Larger(Loose(t[2]), Loose(t[3])) /\ Loose(t[2]) \in Nat /\ Loose(t[3]) \in Nat
    BY <1>1, <1>5, LooseFacts, TagCases
  <2>2. Loose(t) <= m <=> Loose(t[2]) <= m /\ Loose(t[3]) <= m
    <3> DEFINE a == Loose(t[2])
               b == Loose(t[3])
    <3>1. Loose(t) = Larger(a, b) /\ a \in Nat /\ b \in Nat
      BY <2>1
    <3> HIDE DEF a, b
    <3>2. Larger(a, b) <= m <=> a <= m /\ b <= m
      BY ONLY <3>1, LargerBound, m \in Nat
    <3>3. Loose(t) <= m <=> a <= m /\ b <= m
      BY ONLY <3>1, <3>2, Zenon
    <3> QED BY <3>3 DEF a, b
  <2>3. Subs(t) = {2, 3} /\ m + Under(t, 2) = m /\ m + Under(t, 3) = m
    BY <1>5, TagCases
  <2>4. (\A i \in Subs(t) : Loose(t[i]) <= m + Under(t, i))
        <=> Loose(t[2]) <= m + Under(t, 2) /\ Loose(t[3]) <= m + Under(t, 3)
    <3>1. 2 \in Subs(t) /\ 3 \in Subs(t) /\ \A i \in Subs(t) : i = 2 \/ i = 3
      BY <2>3
    <3> QED BY <3>1, Zenon
  <2> QED BY <1>5, <2>2, <2>3, <2>4
<1>6. CASE Tag(t) \in {"lam", "pi"}
  <2>1. Loose(t) = Larger(Loose(t[2]), Less1(Loose(t[3]))) /\ Loose(t[2]) \in Nat /\ Loose(t[3]) \in Nat
    BY <1>1, <1>6, LooseFacts, TagCases
  <2>2. Loose(t) <= m <=> Loose(t[2]) <= m /\ Loose(t[3]) <= m + 1
    <3> DEFINE a == Loose(t[2])
               b == Loose(t[3])
    <3>1. Loose(t) = Larger(a, Less1(b)) /\ a \in Nat /\ b \in Nat
      BY <2>1
    <3> HIDE DEF a, b
    <3>2. Less1(b) \in Nat /\ (Less1(b) <= m <=> b <= m + 1)
      BY ONLY <3>1, Less1Bound, m \in Nat
    <3>3. Larger(a, Less1(b)) <= m <=> a <= m /\ Less1(b) <= m
      BY ONLY <3>1, <3>2, LargerBound, m \in Nat
    <3>4. Loose(t) <= m <=> a <= m /\ b <= m + 1
      BY ONLY <3>1, <3>2, <3>3, Zenon
    <3> QED BY <3>4 DEF a, b
  <2>3. Subs(t) = {2, 3} /\ m + Under(t, 2) = m /\ m + Under(t, 3) = m + 1
    BY <1>6, TagCases
  <2>4. (\A i \in Subs(t) : Loose(t[i]) <= m + Under(t, i))
        <=> Loose(t[2]) <= m + Under(t, 2) /\ Loose(t[3]) <= m + Under(t, 3)
    <3>1. 2 \in Subs(t) /\ 3 \in Subs(t) /\ \A i \in Subs(t) : i = 2 \/ i = 3
      BY <2>3
    <3> QED BY <3>1, Zenon
  <2> QED BY <1>6, <2>2, <2>3, <2>4
<1>7. CASE Tag(t) = "let"
  <2>1. /\ Loose(t) = Larger(Larger(Loose(t[2]), Loose(t[3])), Less1(Loose(t[4])))
        /\ Loose(t[2]) \in Nat /\ Loose(t[3]) \in Nat /\ Loose(t[4]) \in Nat
    BY <1>1, <1>7, LooseFacts, TagCases
  <2>3. Loose(t) <= m <=> Loose(t[2]) <= m /\ Loose(t[3]) <= m /\ Loose(t[4]) <= m + 1
    <3> DEFINE a == Loose(t[2])
               b == Loose(t[3])
               c == Loose(t[4])
    <3>1. Loose(t) = Larger(Larger(a, b), Less1(c)) /\ a \in Nat /\ b \in Nat /\ c \in Nat
      BY <2>1
    <3> HIDE DEF a, b, c
    <3>2. Less1(c) \in Nat /\ (Less1(c) <= m <=> c <= m + 1)
      BY ONLY <3>1, Less1Bound, m \in Nat
    <3>3. Larger(a, b) \in Nat /\ (Larger(a, b) <= m <=> a <= m /\ b <= m)
      BY ONLY <3>1, LargerBound, m \in Nat
    <3>4. Larger(Larger(a, b), Less1(c)) <= m <=> Larger(a, b) <= m /\ Less1(c) <= m
      BY ONLY <3>2, <3>3, LargerBound, m \in Nat
    <3>5. Loose(t) <= m <=> a <= m /\ b <= m /\ c <= m + 1
      BY ONLY <3>1, <3>2, <3>3, <3>4, Zenon
    <3> QED BY <3>5 DEF a, b, c
  <2>4. Subs(t) = {2, 3, 4} /\ m + Under(t, 2) = m /\ m + Under(t, 3) = m /\ m + Under(t, 4) = m + 1
    BY <1>7, TagCases
  <2>5. (\A i \in Subs(t) : Loose(t[i]) <= m + Under(t, i))
        <=> Loose(t[2]) <= m + Under(t, 2) /\ Loose(t[3]) <= m + Under(t, 3) /\ Loose(t[4]) <= m + Under(t, 4)
    <3>1. 2 \in Subs(t) /\ 3 \in Subs(t) /\ 4 \in Subs(t) /\ \A i \in Subs(t) : i = 2 \/ i = 3 \/ i = 4
      BY <2>4
    <3> QED BY <3>1, Zenon
  <2> QED BY <1>7, <2>3, <2>4, <2>5
<1>8. CASE Tag(t) = "proj"
  <2>1. Loose(t) = Loose(t[4])
    BY <1>8, LooseFacts
  <2> QED BY <1>1, <1>8, <2>1, TagCases
<1> QED BY <1>3, <1>4, <1>5, <1>6, <1>7, <1>8, Anatomy DEF Tags

\* The free indices of a term in terms of its subterms'.
LEMMA FreeShape ==
    ASSUME NEW t \in Tree, NEW j \in Nat
    PROVE  j \in Free(t) <=> \/ Tag(t) = "bvar" /\ j = t[2]
                             \/ \E i \in Subs(t) : j + Under(t, i) \in Free(t[i])
<1>1. \A i \in Subs(t) : Free(t[i]) \in SUBSET Nat
  BY Anatomy, FreeFacts
<1>2. \A S \in SUBSET Nat : j \in Outside(S) <=> j + 1 \in S
  BY DEF Outside
<1>3. CASE Tag(t) = "bvar"
  BY <1>3, FreeFacts, TagCases
<1>4. CASE Tag(t) \in {"sort", "const", "lit"}
  BY <1>4, FreeFacts, TagCases
<1>5. CASE Tag(t) = "app"
  <2>1. Free(t) = Free(t[2]) \cup Free(t[3])
    BY <1>5, FreeFacts
  <2> QED BY <1>5, <2>1, TagCases
<1>6. CASE Tag(t) \in {"lam", "pi"}
  <2>1. Free(t) = Free(t[2]) \cup Outside(Free(t[3]))
    BY <1>6, FreeFacts
  <2> QED BY <1>1, <1>2, <1>6, <2>1, TagCases
<1>7. CASE Tag(t) = "let"
  <2>1. Free(t) = Free(t[2]) \cup Free(t[3]) \cup Outside(Free(t[4]))
    BY <1>7, FreeFacts
  <2> QED BY <1>1, <1>2, <1>7, <2>1, TagCases
<1>8. CASE Tag(t) = "proj"
  <2>1. Free(t) = Free(t[4])
    BY <1>8, FreeFacts
  <2> QED BY <1>8, <2>1, TagCases
<1> QED BY <1>3, <1>4, <1>5, <1>6, <1>7, <1>8, Anatomy DEF Tags

\* The range is the least bound of the free indices.
LEMMA LooseBounds ==
    \A t \in Tree : \A m \in Nat : Loose(t) <= m <=> \A j \in Free(t) : j < m
<1> DEFINE T == { t \in Tree : \A m \in Nat : Loose(t) <= m <=> \A j \in Free(t) : j < m }
<1>1. ASSUME NEW t \in Tree, \A i \in Subs(t) : t[i] \in T
      PROVE  t \in T
  <2> SUFFICES ASSUME NEW m \in Nat PROVE Loose(t) <= m <=> \A j \in Free(t) : j < m
    OBVIOUS
  <2>1. \A i \in Subs(t) : /\ t[i] \in Tree /\ Under(t, i) \in Nat /\ m + Under(t, i) \in Nat
                           /\ Free(t[i]) \in SUBSET Nat
    BY Anatomy, KidFacts, FreeFacts
  <2>2. \A i \in Subs(t) : Loose(t[i]) <= m + Under(t, i) <=> \A j \in Free(t[i]) : j < m + Under(t, i)
    BY <1>1, <2>1
  <2>3. Free(t) \in SUBSET Nat
    BY FreeFacts
  <2>4. ASSUME Loose(t) <= m, NEW j \in Free(t)
        PROVE  j < m
    <3>1. j \in Nat
      BY <2>3
    <3>2. CASE Tag(t) = "bvar" /\ j = t[2]
      BY <2>4, <3>2, LooseShape
    <3>3. CASE \E i \in Subs(t) : j + Under(t, i) \in Free(t[i])
      <4>1. PICK i \in Subs(t) : j + Under(t, i) \in Free(t[i])
        BY <3>3
      <4>2. Loose(t[i]) <= m + Under(t, i)
        BY <2>4, LooseShape
      <4>3. j + Under(t, i) < m + Under(t, i)
        BY <2>2, <4>1, <4>2
      <4> QED BY <2>1, <3>1, <4>3
    <3> QED BY <3>1, <3>2, <3>3, FreeShape
  <2>5. ASSUME \A j \in Free(t) : j < m
        PROVE  Loose(t) <= m
    <3>1. Tag(t) = "bvar" => t[2] < m
      BY <2>5, FreeShape, Anatomy
    <3>2. ASSUME NEW i \in Subs(t)
          PROVE  Loose(t[i]) <= m + Under(t, i)
      <4> SUFFICES ASSUME NEW j \in Free(t[i]) PROVE j < m + Under(t, i)
        BY <2>2
      <4>1. j \in Nat /\ Under(t, i) \in Nat
        BY <2>1
      <4>2. CASE j < Under(t, i)
        BY <4>1, <4>2
      <4>3. CASE ~(j < Under(t, i))
        <5>1. j - Under(t, i) \in Nat /\ (j - Under(t, i)) + Under(t, i) = j
          BY <4>1, <4>3
        <5>2. j - Under(t, i) \in Free(t)
          BY <5>1, FreeShape
        <5>3. j - Under(t, i) < m
          BY <2>5, <5>2
        <5> QED BY <4>1, <5>3
      <4> QED BY <4>2, <4>3
    <3> QED BY <3>1, <3>2, LooseShape
  <2> QED BY <2>4, <2>5
<1>2. Tree \subseteq T
  <2> HIDE DEF T
  <2> QED BY <1>1, TermInduction
<1> QED BY <1>2

LEMMA LooseExact ==
    ASSUME NEW t \in Tree
    PROVE  Loose(t) = Largest({i + 1 : i \in Free(t)})
<1> DEFINE S == {i + 1 : i \in Free(t)}
<1>1. Loose(t) \in Nat /\ Free(t) \in SUBSET Nat
  BY LooseFacts, FreeFacts
<1>2. S \subseteq Nat /\ \A m \in Nat : Loose(t) <= m <=> \A x \in S : x <= m
  <2>1. S \subseteq Nat
    BY <1>1
  <2>2. ASSUME NEW m \in Nat
        PROVE  (\A j \in Free(t) : j < m) <=> \A x \in S : x <= m
    BY <1>1
  <2> QED BY <2>1, <2>2, LooseBounds
<1>3. S = {} <=> Free(t) = {}
  OBVIOUS
<1> HIDE DEF S
<1>4. CASE S = {}
  <2>1. Loose(t) <= 0
    BY <1>2, <1>4
  <2> QED BY <1>1, <1>4, <2>1 DEF Largest, S
<1>5. CASE S # {}
  <2>1. \A x \in S : x <= Loose(t)
    BY <1>1, <1>2
  <2>2. PICK y \in S : TRUE
    BY <1>5
  <2>3. Loose(t) \in S
    <3> SUFFICES ASSUME Loose(t) \notin S PROVE FALSE
      OBVIOUS
    <3>1. y \in Nat /\ y <= Loose(t) /\ y # Loose(t)
      BY <1>2, <2>1, <2>2
    <3>2. Loose(t) - 1 \in Nat
      BY <1>1, <3>1
    <3>3. \A x \in S : x <= Loose(t) - 1
      BY <1>1, <1>2, <2>1
    <3>4. Loose(t) <= Loose(t) - 1
      BY <1>2, <3>2, <3>3
    <3> QED BY <1>1, <3>4
  <2>4. \A x, z \in S : (\A w \in S : w <= x) /\ (\A w \in S : w <= z) => x = z
    BY <1>2
  <2>5. Largest(S) = CHOOSE m \in S : \A x \in S : x <= m
    BY <1>5 DEF Largest
  <2> QED BY <2>1, <2>3, <2>4, <2>5 DEF S
<1> QED BY <1>4, <1>5

LEMMA FreeFinite ==
    ASSUME NEW t \in Tree
    PROVE  IsFiniteSet(Free(t)) /\ Cardinality(Free(t)) \in Nat
<1>1. Loose(t) \in Nat /\ Free(t) \in SUBSET Nat /\ \A j \in Free(t) : j < Loose(t)
  BY LooseFacts, FreeFacts, LooseBounds
<1>2. Free(t) \subseteq 0 .. Loose(t)
  BY <1>1
<1>3. IsFiniteSet(0 .. Loose(t))
  BY <1>1, FS_Interval
<1> QED BY <1>2, <1>3, FS_Subset, FS_CardinalityType

\* A word has no bits beyond its width, and lists exactly the free indices
\* unless it is the mark.
LEMMA UsedExact ==
    ASSUME NEW t \in Tree
    PROVE  Used(t) \subseteq UsedOverflow /\ (Used(t) # UsedOverflow => Used(t) = Free(t))
<1> DEFINE T == { k \in Tree : /\ Used(k) \subseteq UsedOverflow
                               /\ Used(k) # UsedOverflow => Used(k) = Free(k) }
<1>1. \A u, v : /\ u \subseteq UsedOverflow /\ v \subseteq UsedOverflow => UsedOr(u, v) \subseteq UsedOverflow
                /\ UsedOr(u, v) # UsedOverflow => u # UsedOverflow /\ v # UsedOverflow /\ UsedOr(u, v) = u \cup v
  BY DEF UsedOr
<1>2. \A u : /\ u \subseteq UsedOverflow => UsedShiftBinder(u) \subseteq UsedOverflow
             /\ UsedShiftBinder(u) # UsedOverflow => u # UsedOverflow /\ UsedShiftBinder(u) = Outside(u)
  <2>1. WordBits \in Nat \ {0}
    BY TermsAssumption DEF TermsAssumption
  <2>2. ASSUME NEW u, u \subseteq UsedOverflow
        PROVE  UsedShiftBinder(u) \subseteq UsedOverflow
    BY <2>1, <2>2 DEF UsedShiftBinder, UsedOverflow
  <2>3. \A u : UsedShiftBinder(u) # UsedOverflow => u # UsedOverflow /\ UsedShiftBinder(u) = Outside(u)
    BY DEF UsedShiftBinder, Outside
  <2> QED BY <2>2, <2>3
<1>3. ASSUME NEW k \in Tree, \A i \in Subs(k) : k[i] \in T
      PROVE  k \in T
  <2>1. \A i \in Subs(k) : /\ Used(k[i]) \subseteq UsedOverflow
                           /\ Used(k[i]) # UsedOverflow => Used(k[i]) = Free(k[i])
    BY <1>3
  <2> HIDE DEF T
  <2> SUFFICES /\ Used(k) \subseteq UsedOverflow
               /\ Used(k) # UsedOverflow => Used(k) = Free(k)
    BY DEF T
  <2>2. CASE Tag(k) = "bvar"
    <3>1. k[2] \in Nat
      BY <2>2, Anatomy
    <3>2. CASE k[2] >= WordBits
      BY <2>2, <3>2, UsedFacts
    <3>3. CASE ~(k[2] >= WordBits)
      <4>1. k[2] \in UsedOverflow
        BY <3>1, <3>3, TermsAssumption DEF TermsAssumption, UsedOverflow
      <4> QED BY <2>2, <3>3, <4>1, UsedFacts, FreeFacts
    <3> QED BY <3>2, <3>3
  <2>3. CASE Tag(k) \in {"sort", "const", "lit"}
    BY <2>3, UsedFacts, FreeFacts
  <2>4. CASE Tag(k) = "app"
    <3>1. Used(k) = UsedOr(Used(k[2]), Used(k[3])) /\ Free(k) = Free(k[2]) \cup Free(k[3])
      BY <2>4, UsedFacts, FreeFacts
    <3>2. 2 \in Subs(k) /\ 3 \in Subs(k)
      BY <2>4, TagCases
    <3>3. Used(k) \subseteq UsedOverflow
      BY <1>1, <2>1, <3>1, <3>2
    <3>4. ASSUME Used(k) # UsedOverflow
          PROVE  Used(k) = Free(k)
      <4>1. /\ Used(k[2]) # UsedOverflow /\ Used(k[3]) # UsedOverflow
            /\ Used(k) = Used(k[2]) \cup Used(k[3])
        BY <1>1, <3>1, <3>4
      <4> QED BY <2>1, <3>1, <3>2, <4>1
    <3> QED BY <3>3, <3>4
  <2>5. CASE Tag(k) \in {"lam", "pi"}
    <3>1. Used(k) = UsedOr(Used(k[2]), UsedShiftBinder(Used(k[3]))) /\ Free(k) = Free(k[2]) \cup Outside(Free(k[3]))
      BY <2>5, UsedFacts, FreeFacts
    <3>2. 2 \in Subs(k) /\ 3 \in Subs(k)
      BY <2>5, TagCases
    <3>3. Used(k) \subseteq UsedOverflow
      <4>1. UsedShiftBinder(Used(k[3])) \subseteq UsedOverflow
        BY <1>2, <2>1, <3>2
      <4> QED BY <1>1, <2>1, <3>1, <3>2, <4>1
    <3>4. ASSUME Used(k) # UsedOverflow
          PROVE  Used(k) = Free(k)
      <4>1. /\ Used(k[2]) # UsedOverflow /\ UsedShiftBinder(Used(k[3])) # UsedOverflow
            /\ Used(k) = Used(k[2]) \cup UsedShiftBinder(Used(k[3]))
        BY <1>1, <3>1, <3>4
      <4>2. Used(k[3]) # UsedOverflow /\ UsedShiftBinder(Used(k[3])) = Outside(Used(k[3]))
        BY <1>2, <4>1
      <4> QED BY <2>1, <3>1, <3>2, <4>1, <4>2
    <3> QED BY <3>3, <3>4
  <2>6. CASE Tag(k) = "let"
    <3>1. /\ Used(k) = UsedOr(UsedOr(Used(k[2]), Used(k[3])), UsedShiftBinder(Used(k[4])))
          /\ Free(k) = Free(k[2]) \cup Free(k[3]) \cup Outside(Free(k[4]))
      BY <2>6, UsedFacts, FreeFacts
    <3>2. 2 \in Subs(k) /\ 3 \in Subs(k) /\ 4 \in Subs(k)
      BY <2>6, TagCases
    <3>3. Used(k) \subseteq UsedOverflow
      <4>1. UsedShiftBinder(Used(k[4])) \subseteq UsedOverflow
        BY <1>2, <2>1, <3>2
      <4>2. UsedOr(Used(k[2]), Used(k[3])) \subseteq UsedOverflow
        BY <1>1, <2>1, <3>2
      <4> QED BY <1>1, <3>1, <4>1, <4>2
    <3>4. ASSUME Used(k) # UsedOverflow
          PROVE  Used(k) = Free(k)
      <4>1. /\ UsedOr(Used(k[2]), Used(k[3])) # UsedOverflow /\ UsedShiftBinder(Used(k[4])) # UsedOverflow
            /\ Used(k) = UsedOr(Used(k[2]), Used(k[3])) \cup UsedShiftBinder(Used(k[4]))
        BY <1>1, <3>1, <3>4
      <4>2. /\ Used(k[2]) # UsedOverflow /\ Used(k[3]) # UsedOverflow /\ Used(k[4]) # UsedOverflow
            /\ UsedOr(Used(k[2]), Used(k[3])) = Used(k[2]) \cup Used(k[3])
            /\ UsedShiftBinder(Used(k[4])) = Outside(Used(k[4]))
        BY <1>1, <1>2, <4>1
      <4> QED BY <2>1, <3>1, <3>2, <4>1, <4>2
    <3> QED BY <3>3, <3>4
  <2>7. CASE Tag(k) = "proj"
    <3>1. Used(k) = Used(k[4]) /\ Free(k) = Free(k[4]) /\ 4 \in Subs(k)
      BY <2>7, UsedFacts, FreeFacts, TagCases
    <3> QED BY <2>1, <3>1
  <2> QED BY <2>2, <2>3, <2>4, <2>5, <2>6, <2>7, Anatomy DEF Tags
<1>4. Tree \subseteq T
  <2> HIDE DEF T
  <2> QED BY <1>3, TermInduction
<1> QED BY <1>4

\* A list is the mark, or exactly the free indices, no more than the cap.
LEMMA ChildUsedExact ==
    ASSUME NEW c \in Tree, NEW list \in SUBSET Int, list # NoSet => list = Free(c)
    PROVE  /\ ChildUsed(c, list, 0) # NoSet => ChildUsed(c, list, 0) = Free(c)
           /\ ChildUsed(c, list, 1) # NoSet => ChildUsed(c, list, 1) = Outside(Free(c))
<1>1. Loose(c) \in Nat /\ Free(c) \in SUBSET Nat
  BY LooseFacts, FreeFacts
<1>2. ASSUME ChildUsed(c, list, 0) # NoSet
      PROVE  ChildUsed(c, list, 0) = Free(c)
  <2>1. CASE Loose(c) <= 0
    <3>1. Free(c) = {}
      BY <1>1, <2>1, LooseBounds
    <3> QED BY <2>1, <3>1 DEF ChildUsed
  <2>2. CASE ~(Loose(c) <= 0)
    <3>1. list = Free(c) /\ ChildUsed(c, list, 0) = {i - 0 : i \in {j \in list : j >= 0}}
      BY <1>2, <2>2 DEF ChildUsed
    <3>2. {i - 0 : i \in {j \in Free(c) : j >= 0}} = Free(c)
      BY <1>1
    <3> QED BY <3>1, <3>2
  <2> QED BY <2>1, <2>2
<1>3. ASSUME ChildUsed(c, list, 1) # NoSet
      PROVE  ChildUsed(c, list, 1) = Outside(Free(c))
  <2>1. CASE Loose(c) <= 1
    <3>1. \A j \in Free(c) : j < 1
      BY <1>1, <2>1, LooseBounds
    <3>2. Outside(Free(c)) = {}
      BY <1>1, <3>1 DEF Outside
    <3> QED BY <2>1, <3>2 DEF ChildUsed
  <2>2. CASE ~(Loose(c) <= 1)
    <3>1. list = Free(c) /\ ChildUsed(c, list, 1) = {i - 1 : i \in {j \in list : j >= 1}}
      BY <1>3, <2>2 DEF ChildUsed
    <3>2. {j \in Free(c) : j >= 1} = Free(c) \ {0}
      BY <1>1
    <3> QED BY <3>1, <3>2 DEF Outside
  <2> QED BY <2>1, <2>2
<1> QED BY <1>2, <1>3

LEMMA UsedSetExact ==
    ASSUME NEW t \in Tree
    PROVE  UsedSet(t) # NoSet => UsedSet(t) = Free(t) /\ Cardinality(Free(t)) <= UsedSetCap
<1> DEFINE Listed(k) == UsedSet(k) # NoSet => UsedSet(k) = Free(k) /\ Cardinality(Free(k)) <= UsedSetCap
           T == { k \in Tree : Listed(k) }
<1>0. WordBits \in Nat \ {0} /\ UsedSetCap \in Nat /\ WordBits <= UsedSetCap
  BY TermsAssumption DEF TermsAssumption
<1>1. \A a, b : MergeUsed(a, b) # NoSet => /\ a # NoSet /\ b # NoSet /\ MergeUsed(a, b) = a \cup b
                                           /\ ~(Cardinality(a \cup b) > UsedSetCap)
  BY DEF MergeUsed
<1>2. \A k \in Tree : Cardinality(Free(k)) \in Nat
  BY FreeFinite
<1>3. ASSUME NEW k \in Tree, \A i \in Subs(k) : k[i] \in T
      PROVE  k \in T
  <2>1. \A i \in Subs(k) : /\ k[i] \in Tree /\ UsedSet(k[i]) \in SUBSET Int
                           /\ UsedSet(k[i]) # NoSet => UsedSet(k[i]) = Free(k[i])
    BY <1>3, UsedSetFacts
  <2>2. \A i \in Subs(k) : LET c0 == ChildUsed(k[i], UsedSet(k[i]), 0)
                               c1 == ChildUsed(k[i], UsedSet(k[i]), 1)
                           IN  /\ c0 # NoSet => c0 = Free(k[i])
                               /\ c1 # NoSet => c1 = Outside(Free(k[i]))
    BY <2>1, ChildUsedExact
  <2> SUFFICES ASSUME UsedSet(k) # NoSet
               PROVE  UsedSet(k) = Free(k) /\ Cardinality(Free(k)) <= UsedSetCap
    OBVIOUS
  <2> HIDE DEF T, Listed
  <2>3. CASE Used(k) # UsedOverflow
    <3>1. UsedSet(k) = Used(k) /\ Used(k) = Free(k) /\ Free(k) \subseteq UsedOverflow
      BY <2>3, UsedSetFacts, UsedExact
    <3>2. IsFiniteSet(UsedOverflow) /\ Cardinality(UsedOverflow) = WordBits
      <4>1. 0 \in Int /\ WordBits - 1 \in Int /\ ~(0 > WordBits - 1) /\ (WordBits - 1) - 0 + 1 = WordBits
        BY <1>0
      <4> QED BY <4>1, FS_Interval DEF UsedOverflow
    <3>3. Cardinality(Free(k)) <= WordBits
      BY <3>1, <3>2, FS_Subset
    <3> QED BY <1>0, <1>2, <3>1, <3>3
  <2>4. CASE Used(k) = UsedOverflow
    <3>1. CASE Tag(k) = "bvar"
      <4>1. UsedSet(k) = {k[2]} /\ Free(k) = {k[2]}
        BY <2>4, <3>1, UsedSetFacts, FreeFacts
      <4>2. Cardinality(Free(k)) = 1
        BY <4>1, FS_Singleton
      <4> QED BY <1>0, <4>1, <4>2
    <3>2. CASE Tag(k) \in {"sort", "const", "lit"}
      <4>1. Used(k) = {} /\ 0 \in UsedOverflow
        BY <1>0, <3>2, UsedFacts DEF UsedOverflow
      <4> QED BY <2>4, <4>1
    <3>3. CASE Tag(k) = "app"
      <4> DEFINE a == ChildUsed(k[2], UsedSet(k[2]), 0)
                 b == ChildUsed(k[3], UsedSet(k[3]), 0)
      <4>1. UsedSet(k) = MergeUsed(a, b) /\ Free(k) = Free(k[2]) \cup Free(k[3])
        BY <2>4, <3>3, UsedSetFacts, FreeFacts
      <4>2. (a # NoSet => a = Free(k[2])) /\ (b # NoSet => b = Free(k[3]))
        BY <2>2, <3>3, TagCases
      <4> HIDE DEF a, b
      <4>3. MergeUsed(a, b) # NoSet
        BY <4>1
      <4>4. a # NoSet /\ b # NoSet /\ MergeUsed(a, b) = a \cup b /\ ~(Cardinality(a \cup b) > UsedSetCap)
        BY <1>1, <4>3, Zenon
      <4>5. UsedSet(k) = Free(k) /\ a \cup b = Free(k)
        BY <4>1, <4>2, <4>4
      <4>6. ~(Cardinality(Free(k)) > UsedSetCap)
        BY <4>4, <4>5
      <4> QED BY <1>0, <1>2, <4>5, <4>6
    <3>4. CASE Tag(k) \in {"lam", "pi"}
      <4> DEFINE a == ChildUsed(k[2], UsedSet(k[2]), 0)
                 b == ChildUsed(k[3], UsedSet(k[3]), 1)
      <4>1. UsedSet(k) = MergeUsed(a, b) /\ Free(k) = Free(k[2]) \cup Outside(Free(k[3]))
        BY <2>4, <3>4, UsedSetFacts, FreeFacts
      <4>2. (a # NoSet => a = Free(k[2])) /\ (b # NoSet => b = Outside(Free(k[3])))
        BY <2>2, <3>4, TagCases
      <4> HIDE DEF a, b
      <4>3. MergeUsed(a, b) # NoSet
        BY <4>1
      <4>4. a # NoSet /\ b # NoSet /\ MergeUsed(a, b) = a \cup b /\ ~(Cardinality(a \cup b) > UsedSetCap)
        BY <1>1, <4>3, Zenon
      <4>5. UsedSet(k) = Free(k) /\ a \cup b = Free(k)
        BY <4>1, <4>2, <4>4
      <4>6. ~(Cardinality(Free(k)) > UsedSetCap)
        BY <4>4, <4>5
      <4> QED BY <1>0, <1>2, <4>5, <4>6
    <3>5. CASE Tag(k) = "let"
      <4> DEFINE a == ChildUsed(k[2], UsedSet(k[2]), 0)
                 b == ChildUsed(k[3], UsedSet(k[3]), 0)
                 c == ChildUsed(k[4], UsedSet(k[4]), 1)
      <4>1. /\ UsedSet(k) = MergeUsed(MergeUsed(a, b), c)
            /\ Free(k) = Free(k[2]) \cup Free(k[3]) \cup Outside(Free(k[4]))
        BY <2>4, <3>5, UsedSetFacts, FreeFacts
      <4>2. /\ a # NoSet => a = Free(k[2])
            /\ b # NoSet => b = Free(k[3])
            /\ c # NoSet => c = Outside(Free(k[4]))
        BY <2>2, <3>5, TagCases
      <4> HIDE DEF a, b, c
      <4> DEFINE ab == MergeUsed(a, b)
      <4>3. MergeUsed(ab, c) # NoSet
        BY <4>1
      <4>4. ab # NoSet /\ c # NoSet /\ MergeUsed(ab, c) = ab \cup c /\ ~(Cardinality(ab \cup c) > UsedSetCap)
        BY <1>1, <4>3, Zenon
      <4>5. a # NoSet /\ b # NoSet /\ ab = a \cup b
        BY <1>1, <4>4, Zenon
      <4>6. UsedSet(k) = Free(k) /\ ab \cup c = Free(k)
        BY <4>1, <4>2, <4>4, <4>5
      <4>7. ~(Cardinality(Free(k)) > UsedSetCap)
        BY <4>4, <4>6
      <4> QED BY <1>0, <1>2, <4>6, <4>7
    <3>6. CASE Tag(k) = "proj"
      <4>1. 4 \in Subs(k) /\ Free(k) = Free(k[4]) /\ UsedSet(k) = ChildUsed(k[4], UsedSet(k[4]), 0)
        BY <2>4, <3>6, TagCases, UsedSetFacts, FreeFacts
      <4>2. UsedSet(k) = Free(k) /\ k[4] \in Tree
        BY <2>1, <2>2, <4>1
      <4>3. Cardinality(Free(k[4])) <= UsedSetCap
        <5>1. CASE Loose(k[4]) <= 0
          <6>1. Free(k[4]) = {}
            <7>1. \A j \in Free(k[4]) : j < 0 /\ j \in Nat
              BY <4>2, <5>1, LooseBounds, FreeFacts
            <7> QED BY <7>1
          <6> QED BY <1>0, <6>1, FS_EmptySet
        <5>2. CASE ~(Loose(k[4]) <= 0)
          <6>1. UsedSet(k[4]) # NoSet
            BY <4>1, <5>2 DEF ChildUsed
          <6> QED BY <1>3, <4>1, <6>1 DEF T, Listed
        <5> QED BY <5>1, <5>2
      <4> QED BY <4>1, <4>2, <4>3
    <3> QED BY <3>1, <3>2, <3>3, <3>4, <3>5, <3>6, Anatomy DEF Tags
  <2> QED BY <2>3, <2>4
<1>4. Tree \subseteq T
  <2> HIDE DEF T, Listed
  <2> QED BY <1>3, TermInduction
<1> QED BY <1>4

-----------------------------------------------------------------------------
(* Shifting and instantiating, without the short cuts *)

\* The subterms of t, shifted, instantiated and read.
ShiftKids(t, by, c) == [i \in 2 .. 4 |-> Shift(t[i], by, c + Under(t, i))]
InstKids(t, xs, c) == [i \in 2 .. 4 |-> InstantiateCore(t[i], xs, c + Under(t, i))]
ReadKids(t, env, c) == [i \in 2 .. 4 |-> Read(t[i], env, c + Under(t, i))]

LEMMA KidValues ==
    \A t : \A i \in Subs(t) : /\ \A by, c : ShiftKids(t, by, c)[i] = Shift(t[i], by, c + Under(t, i))
                              /\ \A xs, c : InstKids(t, xs, c)[i] = InstantiateCore(t[i], xs, c + Under(t, i))
                              /\ \A env, c : ReadKids(t, env, c)[i] = Read(t[i], env, c + Under(t, i))
  BY KidFacts DEF ShiftKids, InstKids, ReadKids

LEMMA ShiftRec ==
    ASSUME NEW t \in Tree, NEW by \in Nat, NEW c \in Nat
    PROVE  Shift(t, by, c) = IF Tag(t) = "bvar" THEN IF t[2] >= c THEN BVar(t[2] + by) ELSE t
                             ELSE Put(t, ShiftKids(t, by, c))
<1>1. CASE ~(by = 0 \/ Loose(t) <= c)
  BY <1>1, ShiftFacts DEF ShiftKids
<1>2. CASE by = 0 \/ Loose(t) <= c
  <2>1. Shift(t, by, c) = t
    BY <1>2, ShiftFacts
  <2>2. CASE Tag(t) = "bvar"
    <3>1. t[2] \in Nat /\ t = BVar(t[2])
      BY <2>2, Anatomy
    <3>2. by = 0 => t[2] + by = t[2]
      BY <3>1
    <3>3. Loose(t) <= c => ~(t[2] >= c)
      BY <2>2, <3>1, LooseShape
    <3> QED BY <1>2, <2>1, <2>2, <3>1, <3>2, <3>3
  <2>3. CASE Tag(t) # "bvar"
    <3>1. ASSUME NEW i \in Subs(t)
          PROVE  ShiftKids(t, by, c)[i] = t[i]
      <4>1. t[i] \in Tree /\ c + Under(t, i) \in Nat
        BY Anatomy, KidFacts
      <4>2. by = 0 \/ Loose(t[i]) <= c + Under(t, i)
        BY <1>2, LooseShape
      <4> DEFINE u == t[i]
                 d == c + Under(t, i)
      <4>3. u \in Tree /\ d \in Nat /\ (by = 0 \/ Loose(u) <= d)
        BY <4>1, <4>2
      <4> HIDE DEF u, d
      <4>4. Shift(u, by, d) = u
        BY <4>3, ShiftFacts
      <4> QED BY <4>4, KidValues DEF u, d
    <3>2. Put(t, ShiftKids(t, by, c)) = Put(t, t)
      BY <3>1, PutFacts
    <3> QED BY <2>1, <2>3, <3>2, Anatomy
  <2> QED BY <2>2, <2>3
<1> QED BY <1>1, <1>2

LEMMA InstantiateRec ==
    ASSUME NEW t \in Tree, NEW xs \in Seq(Tree), NEW c \in Nat
    PROVE  InstantiateCore(t, xs, c) =
               IF Tag(t) = "bvar" THEN
                   IF t[2] >= c /\ t[2] - c < Len(xs) THEN Shift(xs[t[2] - c + 1], c, 0)
                   ELSE IF t[2] >= c THEN BVar(t[2] - Len(xs))
                   ELSE t
               ELSE Put(t, InstKids(t, xs, c))
<1>1. CASE ~(Loose(t) <= c)
  BY <1>1, InstantiateCoreFacts DEF InstKids
<1>2. CASE Loose(t) <= c
  <2>1. InstantiateCore(t, xs, c) = t
    BY <1>2, InstantiateCoreFacts
  <2>2. CASE Tag(t) = "bvar"
    <3>1. t[2] \in Nat
      BY <2>2, Anatomy
    <3>2. ~(t[2] >= c)
      BY <1>2, <2>2, <3>1, LooseShape
    <3> QED BY <2>1, <2>2, <3>2
  <2>3. CASE Tag(t) # "bvar"
    <3>1. ASSUME NEW i \in Subs(t)
          PROVE  InstKids(t, xs, c)[i] = t[i]
      <4>1. t[i] \in Tree /\ c + Under(t, i) \in Nat
        BY Anatomy, KidFacts
      <4>2. Loose(t[i]) <= c + Under(t, i)
        BY <1>2, LooseShape
      <4> DEFINE u == t[i]
                 d == c + Under(t, i)
      <4>3. u \in Tree /\ d \in Nat /\ Loose(u) <= d
        BY <4>1, <4>2
      <4> HIDE DEF u, d
      <4>4. InstantiateCore(u, xs, d) = u
        BY <4>3, InstantiateCoreFacts
      <4> QED BY <4>4, KidValues DEF u, d
    <3>2. Put(t, InstKids(t, xs, c)) = Put(t, t)
      BY <3>1, PutFacts
    <3> QED BY <2>1, <2>3, <3>2, Anatomy
  <2> QED BY <2>2, <2>3
<1> QED BY <1>1, <1>2

\* Index i as a term.
LEMMA Index ==
    ASSUME NEW i \in Nat
    PROVE  /\ BVar(i) \in Tree /\ BVar(i) \in OfHeight[0] /\ Tag(BVar(i)) = "bvar" /\ BVar(i)[2] = i
           /\ Rank[BVar(i)] = 0 /\ \A n \in Nat : BVar(i) \in OfHeight[n]
<1>1. IsLeafTerm(BVar(i)) /\ Tag(BVar(i)) = "bvar" /\ BVar(i)[2] = i
  BY Constructors DEF IsLeafTerm
<1>2. BVar(i) \in Leaves /\ BVar(i) \in OfHeight[0]
  BY <1>1, LeafShape, TermShape
<1>3. BVar(i) \in Tree
  BY <1>2, TermsAreTerms
<1>4. Rank[BVar(i)] <= 0 /\ Rank[BVar(i)] \in Nat
  BY <1>2, <1>3, RankFacts
<1>5. \A n \in Nat : BVar(i) \in OfHeight[n]
  BY <1>2, Higher
<1> QED BY <1>1, <1>2, <1>3, <1>4, <1>5

\* Replacing the subterms of t by terms at most H higher.
LEMMA PutRank ==
    ASSUME NEW t \in Tree, NEW s, NEW H \in Nat,
           \A i \in Subs(t) : s[i] \in OfHeight[Rank[t[i]] + H]
    PROVE  Put(t, s) \in OfHeight[Rank[t] + H]
<1>1. Rank[t] \in Nat /\ t \in OfHeight[Rank[t]]
  BY RankFacts
<1>2. CASE Subs(t) = {}
  <2>1. Put(t, s) = Put(t, t)
    BY <1>2, PutFacts
  <2>2. Put(t, s) = t
    BY <2>1, Anatomy
  <2>3. Rank[t] <= Rank[t] + H /\ Rank[t] + H \in Nat
    BY <1>1
  <2> QED BY <1>1, <2>2, <2>3, Higher
<1>3. CASE Subs(t) # {}
  <2>1. \A i \in Subs(t) : Rank[t[i]] \in Nat /\ Rank[t[i]] < Rank[t]
    BY Anatomy
  <2> DEFINE n == Rank[t] + H - 1
  <2>2. n \in Nat /\ n + 1 = Rank[t] + H /\ \A i \in Subs(t) : Rank[t[i]] + H \in Nat /\ Rank[t[i]] + H <= n
    BY <1>1, <1>3, <2>1
  <2> HIDE DEF n
  <2>3. \A i \in Subs(t) : s[i] \in OfHeight[n]
    BY <2>2, Higher
  <2>4. Put(t, s) \in OfHeight[n + 1]
    BY <2>2, <2>3, PutHeight
  <2> QED BY <2>2, <2>4
<1> QED BY <1>2, <1>3

\* A shifted term is no higher, and has as many more free indices at most.
LEMMA ShiftHeight ==
    ASSUME NEW t \in Tree, NEW by \in Nat, NEW c \in Nat
    PROVE  /\ Shift(t, by, c) \in OfHeight[Rank[t]] /\ Shift(t, by, c) \in Tree
           /\ \A n \in Nat : t \in OfHeight[n] => Shift(t, by, c) \in OfHeight[n]
<1> DEFINE T == { k \in Tree : \A d \in Nat : Shift(k, by, d) \in OfHeight[Rank[k]] }
<1>1. ASSUME NEW k \in Tree, \A i \in Subs(k) : k[i] \in T
      PROVE  k \in T
  <2> SUFFICES ASSUME NEW d \in Nat PROVE Shift(k, by, d) \in OfHeight[Rank[k]]
    OBVIOUS
  <2>1. Rank[k] \in Nat /\ k \in OfHeight[Rank[k]] /\ Rank[k] + 0 = Rank[k]
    BY RankFacts
  <2>2. CASE Tag(k) = "bvar"
    <3>1. k[2] + by \in Nat
      BY <2>2, Anatomy
    <3>2. BVar(k[2] + by) \in OfHeight[Rank[k]]
      BY <2>1, <3>1, Index
    <3> QED BY <2>1, <2>2, <3>2, ShiftRec
  <2>3. CASE Tag(k) # "bvar"
    <3>1. ASSUME NEW i \in Subs(k)
          PROVE  ShiftKids(k, by, d)[i] \in OfHeight[Rank[k[i]] + 0]
      <4>1. k[i] \in Tree /\ d + Under(k, i) \in Nat /\ Rank[k[i]] + 0 = Rank[k[i]]
        BY Anatomy, KidFacts
      <4>2. Shift(k[i], by, d + Under(k, i)) \in OfHeight[Rank[k[i]]]
        BY <1>1, <4>1
      <4> QED BY <4>1, <4>2, KidValues
    <3>2. Put(k, ShiftKids(k, by, d)) \in OfHeight[Rank[k] + 0]
      BY <3>1, PutRank
    <3> QED BY <2>1, <2>3, <3>2, ShiftRec
  <2> QED BY <2>2, <2>3
<1>2. Tree \subseteq T
  <2> HIDE DEF T
  <2> QED BY <1>1, TermInduction
<1>3. Shift(t, by, c) \in OfHeight[Rank[t]]
  BY <1>2
<1>4. Rank[t] \in Nat /\ Rank[t] <= MaxHeight
  BY RankFacts
<1>5. Shift(t, by, c) \in Tree
  BY <1>3, <1>4, TermsAreTerms
<1>6. \A n \in Nat : t \in OfHeight[n] => Shift(t, by, c) \in OfHeight[n]
  BY <1>3, <1>4, RankFacts, Higher
<1> QED BY <1>3, <1>5, <1>6

\* Instantiating by terms of height H raises a term by no more than H.
LEMMA InstantiateHeight ==
    ASSUME NEW t \in Tree, NEW H \in Nat, NEW xs \in Seq(Tree), NEW c \in Nat,
           \A i \in 1 .. Len(xs) : xs[i] \in OfHeight[H]
    PROVE  InstantiateCore(t, xs, c) \in OfHeight[Rank[t] + H]
<1> DEFINE T == { k \in Tree : \A d \in Nat : InstantiateCore(k, xs, d) \in OfHeight[Rank[k] + H] }
<1>1. ASSUME NEW k \in Tree, \A i \in Subs(k) : k[i] \in T
      PROVE  k \in T
  <2> SUFFICES ASSUME NEW d \in Nat PROVE InstantiateCore(k, xs, d) \in OfHeight[Rank[k] + H]
    OBVIOUS
  <2>1. /\ Rank[k] \in Nat /\ k \in OfHeight[Rank[k]]
        /\ Rank[k] + H \in Nat /\ Rank[k] <= Rank[k] + H /\ H <= Rank[k] + H
    BY RankFacts
  <2>2. CASE Tag(k) = "bvar"
    <3>1. k[2] \in Nat /\ Len(xs) \in Nat
      BY <2>2, Anatomy, ListFacts
    <3>2. CASE k[2] >= d /\ k[2] - d < Len(xs)
      <4> DEFINE i == k[2] - d + 1
      <4>1. i \in 1 .. Len(xs)
        BY <3>1, <3>2, ArgumentOf
      <4>2. xs[i] \in Tree /\ xs[i] \in OfHeight[H]
        BY <4>1, ListFacts
      <4>3. InstantiateCore(k, xs, d) = Shift(xs[i], d, 0)
        BY <2>2, <3>2, InstantiateRec
      <4> HIDE DEF i
      <4>4. Shift(xs[i], d, 0) \in OfHeight[H]
        BY <4>2, ShiftHeight
      <4> QED BY <2>1, <4>3, <4>4, Higher
    <3>3. CASE k[2] >= d /\ ~(k[2] - d < Len(xs))
      <4>1. k[2] - Len(xs) \in Nat
        BY <3>1, <3>3, ArgumentOf
      <4>2. InstantiateCore(k, xs, d) = BVar(k[2] - Len(xs))
        BY <2>2, <3>3, InstantiateRec
      <4> QED BY <2>1, <4>1, <4>2, Index
    <3>4. CASE ~(k[2] >= d)
      <4>1. InstantiateCore(k, xs, d) = k
        BY <2>2, <3>4, InstantiateRec
      <4> QED BY <2>1, <4>1, Higher
    <3> QED BY <3>2, <3>3, <3>4
  <2>3. CASE Tag(k) # "bvar"
    <3>1. ASSUME NEW i \in Subs(k)
          PROVE  InstKids(k, xs, d)[i] \in OfHeight[Rank[k[i]] + H]
      <4>1. k[i] \in Tree /\ d + Under(k, i) \in Nat
        BY Anatomy, KidFacts
      <4>2. InstantiateCore(k[i], xs, d + Under(k, i)) \in OfHeight[Rank[k[i]] + H]
        BY <1>1, <4>1
      <4> QED BY <4>2, KidValues
    <3>2. Put(k, InstKids(k, xs, d)) \in OfHeight[Rank[k] + H]
      BY <3>1, PutRank
    <3> QED BY <2>3, <3>2, InstantiateRec
  <2> QED BY <2>2, <2>3
<1>2. Tree \subseteq T
  <2> HIDE DEF T
  <2> QED BY <1>1, TermInduction
<1> QED BY <1>2

\* A shifted or instantiated term that is not an index keeps its constructor.
Like(u, k) == /\ u \in Tree /\ Tag(u) = Tag(k) /\ Subs(u) = Subs(k)
              /\ \A i : Under(u, i) = Under(k, i)
              /\ \A r : Put(u, r) = Put(k, r)

LEMMA PutLike ==
    ASSUME NEW k \in Tree, NEW s, Put(k, s) \in Tree
    PROVE  Like(Put(k, s), k) /\ \A i \in Subs(k) : Put(k, s)[i] = s[i]
<1> DEFINE u == Put(k, s)
<1>1. Tag(u) = Tag(k) /\ Subs(u) = Subs(k)
  BY PutFacts
<1>2. \A i : Under(u, i) = Under(k, i)
  BY PutFacts
<1>3. \A r : Put(u, r) = Put(k, r)
  BY PutFacts
<1>4. \A i \in Subs(k) : u[i] = s[i]
  BY PutFacts
<1> HIDE DEF u
<1>5. Like(u, k)
  BY <1>1, <1>2, <1>3 DEF Like, u
<1> QED BY <1>4, <1>5 DEF u

LEMMA ShiftLike ==
    ASSUME NEW k \in Tree, NEW by \in Nat, NEW c \in Nat, Tag(k) # "bvar"
    PROVE  Like(Shift(k, by, c), k) /\ \A i \in Subs(k) : Shift(k, by, c)[i] = Shift(k[i], by, c + Under(k, i))
<1>1. Shift(k, by, c) = Put(k, ShiftKids(k, by, c)) /\ Shift(k, by, c) \in Tree
  BY ShiftRec, ShiftHeight
<1>2. Like(Shift(k, by, c), k) /\ \A i \in Subs(k) : Shift(k, by, c)[i] = ShiftKids(k, by, c)[i]
  BY <1>1, PutLike
<1> QED BY <1>2, KidValues

LEMMA InstantiateLike ==
    ASSUME NEW k \in Tree, NEW xs \in Seq(Tree), NEW c \in Nat, Tag(k) # "bvar",
           InstantiateCore(k, xs, c) \in Tree
    PROVE  /\ Like(InstantiateCore(k, xs, c), k)
           /\ \A i \in Subs(k) : InstantiateCore(k, xs, c)[i] = InstantiateCore(k[i], xs, c + Under(k, i))
<1>1. InstantiateCore(k, xs, c) = Put(k, InstKids(k, xs, c))
  BY InstantiateRec
<1>2. /\ Like(InstantiateCore(k, xs, c), k)
      /\ \A i \in Subs(k) : InstantiateCore(k, xs, c)[i] = InstKids(k, xs, c)[i]
  BY <1>1, PutLike
<1> QED BY <1>2, KidValues

LEMMA ShiftRange ==
    ASSUME NEW t \in Tree, NEW by \in Nat, NEW c \in Nat, NEW m \in Nat, Loose(t) <= m
    PROVE  Loose(Shift(t, by, c)) <= m + by
<1> DEFINE T == { k \in Tree : \A d, n \in Nat : Loose(k) <= n => Loose(Shift(k, by, d)) <= n + by }
<1>1. ASSUME NEW k \in Tree, \A i \in Subs(k) : k[i] \in T
      PROVE  k \in T
  <2> SUFFICES ASSUME NEW d \in Nat, NEW n \in Nat, Loose(k) <= n
               PROVE  Loose(Shift(k, by, d)) <= n + by
    OBVIOUS
  <2>1. Shift(k, by, d) \in Tree /\ n + by \in Nat /\ Loose(k) \in Nat
    BY ShiftHeight, LooseFacts
  <2>2. CASE Tag(k) = "bvar"
    <3>1. k[2] \in Nat /\ k[2] < n /\ k[2] + by \in Nat
      BY <2>2, Anatomy, LooseShape
    <3>2. CASE k[2] >= d
      <4>1. Shift(k, by, d) = BVar(k[2] + by)
        BY <2>2, <3>2, ShiftRec
      <4>2. Loose(BVar(k[2] + by)) = k[2] + by + 1
        BY <3>1, Index, LooseFacts
      <4> QED BY <3>1, <4>1, <4>2
    <3>3. CASE ~(k[2] >= d)
      <4>1. Shift(k, by, d) = k
        BY <2>2, <3>3, ShiftRec
      <4> QED BY <2>1, <4>1
    <3> QED BY <3>2, <3>3
  <2>3. CASE Tag(k) # "bvar"
    <3> DEFINE u == Shift(k, by, d)
    <3>2. Like(u, k) /\ \A i \in Subs(k) : u[i] = Shift(k[i], by, d + Under(k, i))
      BY <2>1, <2>3, ShiftLike
    <3> HIDE DEF u
    <3>3. ASSUME NEW i \in Subs(k)
          PROVE  Loose(u[i]) <= (n + by) + Under(u, i)
      <4> DEFINE b == Under(k, i)
      <4>1. b \in Nat /\ k[i] \in Tree /\ d + b \in Nat /\ n + b \in Nat /\ (n + b) + by = (n + by) + b
        BY Anatomy, KidFacts
      <4>2. Loose(k[i]) <= n + b
        BY LooseShape
      <4> HIDE DEF b
      <4>3. Loose(Shift(k[i], by, d + b)) <= (n + b) + by
        BY <1>1, <4>1, <4>2
      <4> QED BY <3>2, <4>1, <4>3 DEF b, Like
    <3>4. Loose(u) <= n + by
      BY <2>1, <2>3, <3>2, <3>3, LooseShape DEF Like
    <3> QED BY <3>4 DEF u
  <2> QED BY <2>2, <2>3
<1>2. Tree \subseteq T
  <2> HIDE DEF T
  <2> QED BY <1>1, TermInduction
<1> QED BY <1>2

LEMMA InstantiateRange ==
    ASSUME NEW t \in Tree, NEW H \in Nat, NEW xs \in Seq(Tree), NEW m \in Nat,
           \A i \in 1 .. Len(xs) : xs[i] \in OfHeight[H] /\ Loose(xs[i]) <= m,
           Rank[t] + H <= MaxHeight, Loose(t) <= m
    PROVE  Loose(Instantiate(t, xs)) <= m
<1> DEFINE T == { k \in Tree : Rank[k] + H <= MaxHeight =>
                      \A d \in Nat : Loose(k) <= d + m => Loose(InstantiateCore(k, xs, d)) <= d + m }
<1>1. ASSUME NEW k \in Tree, \A i \in Subs(k) : k[i] \in T
      PROVE  k \in T
  <2> SUFFICES ASSUME Rank[k] + H <= MaxHeight, NEW d \in Nat, Loose(k) <= d + m
               PROVE  Loose(InstantiateCore(k, xs, d)) <= d + m
    OBVIOUS
  <2>0. Rank[k] \in Nat /\ Rank[k] + H \in Nat /\ MaxHeight \in Nat
    BY RankFacts, TermsAssumption DEF TermsAssumption
  <2>1. InstantiateCore(k, xs, d) \in Tree /\ d + m \in Nat /\ Loose(k) \in Nat
    <3>1. InstantiateCore(k, xs, d) \in OfHeight[Rank[k] + H]
      BY InstantiateHeight
    <3>2. OfHeight[Rank[k] + H] \subseteq Tree
      BY <2>0, TermsAreTerms
    <3> QED BY <3>1, <3>2, LooseFacts
  <2>2. CASE Tag(k) = "bvar"
    <3>1. k[2] \in Nat /\ k[2] < d + m /\ Len(xs) \in Nat
      BY <2>1, <2>2, Anatomy, LooseShape, ListFacts
    <3>2. CASE k[2] >= d /\ k[2] - d < Len(xs)
      <4> DEFINE i == k[2] - d + 1
      <4>1. i \in 1 .. Len(xs)
        BY <3>1, <3>2, ArgumentOf
      <4>2. xs[i] \in Tree /\ Loose(xs[i]) <= m
        BY <4>1, ListFacts
      <4>3. InstantiateCore(k, xs, d) = Shift(xs[i], d, 0)
        BY <2>2, <3>2, InstantiateRec
      <4> HIDE DEF i
      <4>4. Loose(Shift(xs[i], d, 0)) <= m + d
        BY <4>2, ShiftRange
      <4> QED BY <4>3, <4>4
    <3>3. CASE k[2] >= d /\ ~(k[2] - d < Len(xs))
      <4>1. k[2] - Len(xs) \in Nat
        BY <3>1, <3>3, ArgumentOf
      <4>2. InstantiateCore(k, xs, d) = BVar(k[2] - Len(xs))
        BY <2>2, <3>3, InstantiateRec
      <4>3. Loose(BVar(k[2] - Len(xs))) = k[2] - Len(xs) + 1
        BY <4>1, Index, LooseFacts
      <4> QED BY <3>1, <4>2, <4>3
    <3>4. CASE ~(k[2] >= d)
      <4>1. InstantiateCore(k, xs, d) = k
        BY <2>2, <3>4, InstantiateRec
      <4> QED BY <4>1
    <3> QED BY <3>2, <3>3, <3>4
  <2>3. CASE Tag(k) # "bvar"
    <3> DEFINE u == InstantiateCore(k, xs, d)
    <3>2. Like(u, k) /\ \A i \in Subs(k) : u[i] = InstantiateCore(k[i], xs, d + Under(k, i))
      BY <2>1, <2>3, InstantiateLike
    <3> HIDE DEF u
    <3>3. ASSUME NEW i \in Subs(k)
          PROVE  Loose(u[i]) <= (d + m) + Under(u, i)
      <4> DEFINE b == Under(k, i)
      <4>1. b \in Nat /\ k[i] \in Tree /\ d + b \in Nat /\ (d + b) + m = (d + m) + b
        BY Anatomy, KidFacts
      <4>2. Loose(k[i]) <= (d + m) + b
        BY <2>1, LooseShape
      <4>3. Rank[k[i]] \in Nat /\ Rank[k[i]] < Rank[k]
        BY Anatomy
      <4>4. Rank[k[i]] + H <= MaxHeight
        BY <2>0, <4>3
      <4> HIDE DEF b
      <4>5. Loose(InstantiateCore(k[i], xs, d + b)) <= (d + b) + m
        BY <1>1, <4>1, <4>2, <4>4
      <4> QED BY <3>2, <4>1, <4>5 DEF b, Like
    <3>4. Loose(u) <= d + m
      BY <2>1, <2>3, <3>2, <3>3, LooseShape DEF Like
    <3> QED BY <3>4 DEF u
  <2> QED BY <2>2, <2>3
<1>2. Tree \subseteq T
  <2> HIDE DEF T
  <2> QED BY <1>1, TermInduction
<1>3. 0 \in Nat /\ 0 + m = m
  OBVIOUS
<1>4. Loose(InstantiateCore(t, xs, 0)) <= 0 + m
  BY <1>2, <1>3
<1> QED BY <1>3, <1>4 DEF Instantiate

-----------------------------------------------------------------------------
(* Reading *)

Assignment == [Nat -> AnyTree]

LEMMA ReadFold ==
    ASSUME NEW t \in Tree, NEW env \in Assignment, NEW c \in Nat
    PROVE  Read(t, env, c) = IF Tag(t) = "bvar" THEN IF t[2] < c THEN t ELSE env[t[2] - c]
                             ELSE Put(t, ReadKids(t, env, c))
  BY ReadFacts DEF ReadKids, Assignment

LEMMA InsertAtFacts ==
    ASSUME NEW env \in Assignment, NEW c \in Nat, NEW ins \in Seq(AnyTree)
    PROVE  /\ InsertAt(env, c, ins) \in Assignment
           /\ \A i \in Nat : InsertAt(env, c, ins)[i]
                                 = IF i < c THEN env[i]
                                   ELSE IF i - c < Len(ins) THEN ins[i - c + 1]
                                   ELSE env[i - Len(ins)]
<1>1. Len(ins) \in Nat /\ \A i \in 1 .. Len(ins) : ins[i] \in AnyTree
  BY ListFacts
<1>2. \A i \in Nat : i >= c => IF i - c < Len(ins) THEN i - c + 1 \in 1 .. Len(ins) ELSE i - Len(ins) \in Nat
  BY <1>1, ArgumentOf
<1>3. \A i \in Nat : env[i] \in AnyTree
  BY DEF Assignment
<1>4. ASSUME NEW i \in Nat
      PROVE  (IF i < c THEN env[i] ELSE IF i - c < Len(ins) THEN ins[i - c + 1] ELSE env[i - Len(ins)]) \in AnyTree
  BY <1>1, <1>2, <1>3
<1> QED BY <1>4 DEF InsertAt, Assignment

\* Shifting a term over ins, which stand from the cutoff on, keeps its reading.
LEMMA ShiftReads ==
    ASSUME NEW t \in Tree, NEW by \in Nat, NEW env \in Assignment, NEW ins \in Seq(AnyTree),
           Len(ins) = by, NEW c \in Nat, NEW d \in Nat
    PROVE  Read(Shift(t, by, c + d), InsertAt(env, c, ins), d) = Read(t, env, d)
<1> DEFINE env2 == InsertAt(env, c, ins)
           T == { k \in Tree : \A b \in Nat : Read(Shift(k, by, c + b), env2, b) = Read(k, env, b) }
<1>1. /\ env2 \in Assignment
      /\ \A i \in Nat : env2[i] = IF i < c THEN env[i]
                                  ELSE IF i - c < by THEN ins[i - c + 1]
                                  ELSE env[i - by]
  BY InsertAtFacts
<1> HIDE DEF env2
<1>2. ASSUME NEW k \in Tree, \A i \in Subs(k) : k[i] \in T
      PROVE  k \in T
  <2> SUFFICES ASSUME NEW b \in Nat PROVE Read(Shift(k, by, c + b), env2, b) = Read(k, env, b)
    OBVIOUS
  <2>1. c + b \in Nat
    OBVIOUS
  <2>2. CASE Tag(k) = "bvar"
    <3>1. k[2] \in Nat /\ k[2] + by \in Nat
      BY <2>2, Anatomy
    <3>2. CASE k[2] >= c + b
      <4>1. Shift(k, by, c + b) = BVar(k[2] + by)
        BY <2>1, <2>2, <3>2, ShiftRec
      <4>2. Read(BVar(k[2] + by), env2, b) = env2[(k[2] + by) - b]
        <5> DEFINE n == k[2] + by
        <5>1. n \in Nat /\ ~(n < b)
          BY <3>1, <3>2
        <5> HIDE DEF n
        <5>2. BVar(n) \in Tree /\ Tag(BVar(n)) = "bvar" /\ BVar(n)[2] = n
          BY <5>1, Index
        <5>3. Read(BVar(n), env2, b) = env2[n - b]
          BY <1>1, <5>1, <5>2, ReadFold
        <5> QED BY <5>3 DEF n
      <4>3. Read(k, env, b) = env[k[2] - b]
        BY <2>2, <3>1, <3>2, ReadFold
      <4>4. /\ (k[2] + by) - b \in Nat /\ ~((k[2] + by) - b < c) /\ ~(((k[2] + by) - b) - c < by)
            /\ ((k[2] + by) - b) - by = k[2] - b
        BY <3>1, <3>2
      <4> QED BY <1>1, <4>1, <4>2, <4>3, <4>4
    <3>3. CASE ~(k[2] >= c + b)
      <4>1. Shift(k, by, c + b) = k
        BY <2>1, <2>2, <3>3, ShiftRec
      <4>2. CASE k[2] < b
        BY <1>1, <2>2, <4>1, <4>2, ReadFold
      <4>3. CASE ~(k[2] < b)
        <5>1. Read(k, env2, b) = env2[k[2] - b] /\ Read(k, env, b) = env[k[2] - b]
          BY <1>1, <2>2, <4>3, ReadFold
        <5>2. k[2] - b \in Nat /\ k[2] - b < c
          BY <3>1, <3>3, <4>3
        <5> QED BY <1>1, <4>1, <5>1, <5>2
      <4> QED BY <4>2, <4>3
    <3> QED BY <3>2, <3>3
  <2>3. CASE Tag(k) # "bvar"
    <3> DEFINE u == Shift(k, by, c + b)
    <3>2. Like(u, k) /\ \A i \in Subs(k) : u[i] = Shift(k[i], by, (c + b) + Under(k, i))
      BY <2>1, <2>3, ShiftLike
    <3> HIDE DEF u
    <3>3. ASSUME NEW i \in Subs(k)
          PROVE  ReadKids(u, env2, b)[i] = ReadKids(k, env, b)[i]
      <4>1. k[i] \in Tree /\ b + Under(k, i) \in Nat /\ (c + b) + Under(k, i) = c + (b + Under(k, i))
        BY Anatomy, KidFacts
      <4>2. Read(Shift(k[i], by, c + (b + Under(k, i))), env2, b + Under(k, i)) = Read(k[i], env, b + Under(k, i))
        BY <1>2, <4>1
      <4>3. /\ ReadKids(u, env2, b)[i] = Read(u[i], env2, b + Under(u, i))
            /\ ReadKids(k, env, b)[i] = Read(k[i], env, b + Under(k, i))
        BY <3>2, KidValues DEF Like
      <4> QED BY <3>2, <4>1, <4>2, <4>3 DEF Like
    <3>4. Read(u, env2, b) = Put(k, ReadKids(u, env2, b))
      BY <1>1, <2>3, <3>2, ReadFold DEF Like
    <3>5. Read(k, env, b) = Put(k, ReadKids(k, env, b))
      BY <2>3, ReadFold
    <3>6. Put(k, ReadKids(u, env2, b)) = Put(k, ReadKids(k, env, b))
      BY <3>3, PutFacts
    <3> QED BY <3>4, <3>5, <3>6 DEF u
  <2> QED BY <2>2, <2>3
<1>3. Tree \subseteq T
  <2> HIDE DEF T
  <2> QED BY <1>2, TermInduction
<1> QED BY <1>3 DEF env2

\* A term moved under binders that it does not mention reads the same under them.
LEMMA ShiftReadsUnder ==
    ASSUME NEW t \in Tree, NEW by \in Nat, NEW env \in Assignment, NEW c \in Nat
    PROVE  Read(Shift(t, by, c), env, c + by) = Read(t, env, c)
<1> DEFINE T == { k \in Tree : \A b \in Nat : Read(Shift(k, by, b), env, b + by) = Read(k, env, b) }
<1>1. ASSUME NEW k \in Tree, \A i \in Subs(k) : k[i] \in T
      PROVE  k \in T
  <2> SUFFICES ASSUME NEW b \in Nat PROVE Read(Shift(k, by, b), env, b + by) = Read(k, env, b)
    OBVIOUS
  <2>1. b + by \in Nat
    OBVIOUS
  <2>2. CASE Tag(k) = "bvar"
    <3>1. k[2] \in Nat /\ k[2] + by \in Nat
      BY <2>2, Anatomy
    <3>2. CASE k[2] >= b
      <4>1. Shift(k, by, b) = BVar(k[2] + by)
        BY <2>2, <3>2, ShiftRec
      <4>2. ~(k[2] + by < b + by) /\ (k[2] + by) - (b + by) = k[2] - b /\ ~(k[2] < b)
        BY <3>1, <3>2
      <4>3. Read(BVar(k[2] + by), env, b + by) = env[(k[2] + by) - (b + by)]
        BY <2>1, <3>1, <4>2, Index, ReadFold
      <4>4. Read(k, env, b) = env[k[2] - b]
        BY <2>2, <4>2, ReadFold
      <4> QED BY <4>1, <4>2, <4>3, <4>4
    <3>3. CASE ~(k[2] >= b)
      <4>1. Shift(k, by, b) = k
        BY <2>2, <3>3, ShiftRec
      <4>2. k[2] < b /\ k[2] < b + by
        BY <3>1, <3>3
      <4> QED BY <2>1, <2>2, <4>1, <4>2, ReadFold
    <3> QED BY <3>2, <3>3
  <2>3. CASE Tag(k) # "bvar"
    <3> DEFINE u == Shift(k, by, b)
    <3>2. Like(u, k) /\ \A i \in Subs(k) : u[i] = Shift(k[i], by, b + Under(k, i))
      BY <2>3, ShiftLike
    <3> HIDE DEF u
    <3>3. ASSUME NEW i \in Subs(k)
          PROVE  ReadKids(u, env, b + by)[i] = ReadKids(k, env, b)[i]
      <4>1. k[i] \in Tree /\ b + Under(k, i) \in Nat /\ (b + by) + Under(k, i) = (b + Under(k, i)) + by
        BY Anatomy, KidFacts
      <4>2. Read(Shift(k[i], by, b + Under(k, i)), env, (b + Under(k, i)) + by) = Read(k[i], env, b + Under(k, i))
        BY <1>1, <4>1
      <4>3. /\ ReadKids(u, env, b + by)[i] = Read(u[i], env, (b + by) + Under(u, i))
            /\ ReadKids(k, env, b)[i] = Read(k[i], env, b + Under(k, i))
        BY <3>2, KidValues DEF Like
      <4> QED BY <3>2, <4>1, <4>2, <4>3 DEF Like
    <3>4. Read(u, env, b + by) = Put(k, ReadKids(u, env, b + by))
      BY <2>1, <2>3, <3>2, ReadFold DEF Like
    <3>5. Read(k, env, b) = Put(k, ReadKids(k, env, b))
      BY <2>3, ReadFold
    <3>6. Put(k, ReadKids(u, env, b + by)) = Put(k, ReadKids(k, env, b))
      BY <3>3, PutFacts
    <3> QED BY <3>4, <3>5, <3>6 DEF u
  <2> QED BY <2>2, <2>3
<1>2. Tree \subseteq T
  <2> HIDE DEF T
  <2> QED BY <1>1, TermInduction
<1> QED BY <1>2

\* An instantiated term reads as the term does when its first indices stand for
\* the readings of the arguments.
LEMMA InstantiateReads ==
    ASSUME NEW t \in Tree, NEW H \in Nat, NEW xs \in Seq(Tree), NEW env \in Assignment,
           \A i \in 1 .. Len(xs) : xs[i] \in OfHeight[H], Rank[t] + H <= MaxHeight
    PROVE  Meaning(Instantiate(t, xs), env)
               = Meaning(t, InsertAt(env, 0, [i \in DOMAIN xs |-> Meaning(xs[i], env)]))
<1> DEFINE ins == [i \in DOMAIN xs |-> Meaning(xs[i], env)]
           env2 == InsertAt(env, 0, ins)
           T == { k \in Tree : Rank[k] + H <= MaxHeight =>
                      \A d \in Nat : Read(InstantiateCore(k, xs, d), env, d) = Read(k, env2, d) }
<1>1. Len(xs) \in Nat /\ DOMAIN xs = 1 .. Len(xs) /\ \A i \in 1 .. Len(xs) : xs[i] \in Tree
  BY ListFacts
<1>2. /\ ins \in Seq(AnyTree) /\ Len(ins) = Len(xs)
      /\ \A i \in 1 .. Len(xs) : ins[i] = Read(xs[i], env, 0)
  <2>1. \A i \in 1 .. Len(xs) : Read(xs[i], env, 0) \in AnyTree
    BY <1>1, ReadFacts DEF Assignment
  <2>2. ins = [i \in 1 .. Len(xs) |-> Read(xs[i], env, 0)]
    BY <1>1 DEF Meaning
  <2> HIDE DEF ins
  <2>3. ins \in [1 .. Len(xs) -> AnyTree]
    BY <2>1, <2>2
  <2>4. ins \in Seq(AnyTree)
    BY <1>1, <2>3
  <2>5. Len(ins) = Len(xs)
    BY <1>1, <2>3
  <2> QED BY <2>2, <2>4, <2>5
<1> HIDE DEF ins
<1>3. /\ env2 \in Assignment
      /\ \A i \in Nat : env2[i] = IF i < 0 THEN env[i]
                                  ELSE IF i - 0 < Len(xs) THEN ins[i - 0 + 1]
                                  ELSE env[i - Len(xs)]
  BY <1>2, InsertAtFacts
<1> HIDE DEF env2
<1>4. ASSUME NEW k \in Tree, \A i \in Subs(k) : k[i] \in T
      PROVE  k \in T
  <2> SUFFICES ASSUME Rank[k] + H <= MaxHeight, NEW d \in Nat
               PROVE  Read(InstantiateCore(k, xs, d), env, d) = Read(k, env2, d)
    OBVIOUS
  <2>1. Rank[k] \in Nat /\ Rank[k] + H \in Nat /\ MaxHeight \in Nat
    BY RankFacts, TermsAssumption DEF TermsAssumption
  <2>2. InstantiateCore(k, xs, d) \in Tree
    <3>1. InstantiateCore(k, xs, d) \in OfHeight[Rank[k] + H]
      BY InstantiateHeight
    <3>2. OfHeight[Rank[k] + H] \subseteq Tree
      BY <2>1, TermsAreTerms
    <3> QED BY <3>1, <3>2
  <2>3. CASE Tag(k) = "bvar"
    <3> DEFINE n == k[2]
    <3>1. n \in Nat
      BY <2>3, Anatomy
    <3>2. Read(k, env2, d) = IF n < d THEN k ELSE env2[n - d]
      BY <1>3, <2>3, ReadFold
    <3>3. InstantiateCore(k, xs, d) = IF n >= d /\ n - d < Len(xs) THEN Shift(xs[n - d + 1], d, 0)
                                      ELSE IF n >= d THEN BVar(n - Len(xs)) ELSE k
      BY <2>3, InstantiateRec
    <3>4. n < d => Read(k, env, d) = k
      BY <2>3, ReadFold
    <3> HIDE DEF n
    <3>5. CASE n >= d /\ n - d < Len(xs)
      <4> DEFINE i == n - d + 1
      <4>1. i \in 1 .. Len(xs) /\ ~(n < d) /\ n - d \in Nat /\ ~(n - d < 0) /\ n - d - 0 = n - d
        BY <1>1, <3>1, <3>5, ArgumentOf
      <4>2. env2[n - d] = ins[i]
        BY <1>3, <3>5, <4>1
      <4> HIDE DEF i
      <4>3. xs[i] \in Tree /\ ins[i] = Read(xs[i], env, 0)
        BY <1>1, <1>2, <4>1
      <4> DEFINE x == xs[i]
      <4>4. Read(Shift(xs[i], d, 0), env, d) = Read(xs[i], env, 0)
        <5>1. x \in Tree /\ 0 + d = d
          BY <4>3
        <5> HIDE DEF x
        <5>2. Read(Shift(x, d, 0), env, 0 + d) = Read(x, env, 0)
          BY <5>1, ShiftReadsUnder
        <5> QED BY <5>1, <5>2 DEF x
      <4> HIDE DEF x
      <4>5. InstantiateCore(k, xs, d) = Shift(xs[i], d, 0)
        BY <3>3, <3>5 DEF i
      <4> QED BY <3>2, <4>1, <4>2, <4>3, <4>4, <4>5
    <3>6. CASE n >= d /\ ~(n - d < Len(xs))
      <4> DEFINE m == n - Len(xs)
      <4>1. /\ m \in Nat /\ ~(n < d) /\ ~(m < d) /\ n - d \in Nat /\ ~(n - d < 0) /\ n - d - 0 = n - d
            /\ (n - d) - Len(xs) = m - d
        BY <1>1, <3>1, <3>6, ArgumentOf
      <4>2. InstantiateCore(k, xs, d) = BVar(m)
        BY <3>3, <3>6
      <4> HIDE DEF m
      <4>3. env2[n - d] = env[m - d]
        BY <1>3, <3>6, <4>1
      <4>4. Read(BVar(m), env, d) = env[m - d]
        <5>1. BVar(m) \in Tree /\ Tag(BVar(m)) = "bvar" /\ BVar(m)[2] = m
          BY <4>1, Index
        <5> QED BY <4>1, <5>1, ReadFold
      <4> QED BY <3>2, <4>1, <4>2, <4>3, <4>4
    <3>7. CASE ~(n >= d)
      <4>1. n < d
        BY <3>1, <3>7
      <4> QED BY <3>2, <3>3, <3>4, <3>7, <4>1
    <3> QED BY <3>5, <3>6, <3>7
  <2>4. CASE Tag(k) # "bvar"
    <3> DEFINE u == InstantiateCore(k, xs, d)
    <3>1. Like(u, k) /\ \A i \in Subs(k) : u[i] = InstantiateCore(k[i], xs, d + Under(k, i))
      BY <2>2, <2>4, InstantiateLike
    <3> HIDE DEF u
    <3>2. ASSUME NEW i \in Subs(k)
          PROVE  ReadKids(u, env, d)[i] = ReadKids(k, env2, d)[i]
      <4>1. k[i] \in Tree /\ d + Under(k, i) \in Nat /\ Rank[k[i]] \in Nat /\ Rank[k[i]] < Rank[k]
        BY Anatomy, KidFacts
      <4>2. Rank[k[i]] + H <= MaxHeight
        BY <2>1, <4>1
      <4>3. Read(InstantiateCore(k[i], xs, d + Under(k, i)), env, d + Under(k, i)) = Read(k[i], env2, d + Under(k, i))
        BY <1>4, <4>1, <4>2
      <4>4. /\ ReadKids(u, env, d)[i] = Read(u[i], env, d + Under(u, i))
            /\ ReadKids(k, env2, d)[i] = Read(k[i], env2, d + Under(k, i))
        BY <3>1, KidValues DEF Like
      <4> QED BY <3>1, <4>3, <4>4 DEF Like
    <3>3. Read(u, env, d) = Put(k, ReadKids(u, env, d))
      BY <2>4, <3>1, ReadFold DEF Like
    <3>4. Read(k, env2, d) = Put(k, ReadKids(k, env2, d))
      BY <1>3, <2>4, ReadFold
    <3>5. Put(k, ReadKids(u, env, d)) = Put(k, ReadKids(k, env2, d))
      BY <3>2, PutFacts
    <3> QED BY <3>3, <3>4, <3>5 DEF u
  <2> QED BY <2>3, <2>4
<1>5. Tree \subseteq T
  <2> HIDE DEF T
  <2> QED BY <1>4, TermInduction
<1>6. Read(InstantiateCore(t, xs, 0), env, 0) = Read(t, env2, 0)
  BY <1>5
<1> QED BY <1>6 DEF Instantiate, Meaning, env2, ins

-----------------------------------------------------------------------------
(* Universe levels *)

LevelKids(t, s) == [i \in 2 .. 4 |-> InstantiateLevels(t[i], s)]
LevelsIn(us, s) == [i \in DOMAIN us |-> LevelAt(us[i], s)]

LEMMA LevelsRec ==
    ASSUME NEW t \in Tree, NEW s, s \in [DOMAIN s -> Universes]
    PROVE  /\ Tag(t) = "sort" => InstantiateLevels(t, s) = Sort(LevelAt(t[2], s))
           /\ Tag(t) = "const" => InstantiateLevels(t, s) = Const(t[2], LevelsIn(t[3], s))
           /\ Tag(t) \notin {"sort", "const"} => InstantiateLevels(t, s) = Put(t, LevelKids(t, s))
           /\ \A i \in Subs(t) : LevelKids(t, s)[i] = InstantiateLevels(t[i], s)
  BY InstantiateLevelsFacts, KidFacts DEF LevelKids, LevelsIn

LEMMA LevelsHeight ==
    ASSUME NEW t \in Tree, NEW s, s \in [DOMAIN s -> Universes]
    PROVE  InstantiateLevels(t, s) \in OfHeight[Rank[t]] /\ InstantiateLevels(t, s) \in Tree
<1> DEFINE T == { k \in Tree : InstantiateLevels(k, s) \in OfHeight[Rank[k]] }
<1>1. \A l \in Universes : LevelAt(l, s) \in Universes
  BY DEF LevelAt
<1>2. ASSUME NEW k \in Tree, \A i \in Subs(k) : k[i] \in T
      PROVE  k \in T
  <2>1. Rank[k] \in Nat /\ Rank[k] + 0 = Rank[k]
    BY RankFacts
  <2>2. OfHeight[0] \subseteq OfHeight[Rank[k]]
    BY <2>1, Higher
  <2>3. CASE Tag(k) = "sort"
    <3>1. IsLeafTerm(Sort(LevelAt(k[2], s)))
      BY <1>1, <2>3, Anatomy, Constructors DEF IsLeafTerm
    <3> QED BY <2>2, <2>3, <3>1, TermShape, LevelsRec
  <2>4. CASE Tag(k) = "const"
    <3> DEFINE us == LevelsIn(k[3], s)
    <3>1. k[2] \in ConstNames /\ k[3] \in Seq(Universes)
      BY <2>4, Anatomy
    <3>2. us \in Seq(Universes)
      <4>1. DOMAIN k[3] = 1 .. Len(k[3]) /\ Len(k[3]) \in Nat /\ \A i \in 1 .. Len(k[3]) : k[3][i] \in Universes
        BY <3>1, ListFacts
      <4>2. us \in [1 .. Len(k[3]) -> Universes]
        BY <1>1, <4>1 DEF LevelsIn
      <4> HIDE DEF us
      <4> QED BY <4>1, <4>2
    <3> HIDE DEF us
    <3>3. IsLeafTerm(Const(k[2], us))
      BY <3>1, <3>2, Constructors DEF IsLeafTerm
    <3>4. InstantiateLevels(k, s) = Const(k[2], us)
      BY <2>4, LevelsRec DEF us
    <3> QED BY <2>2, <3>3, <3>4, TermShape
  <2>5. CASE Tag(k) \notin {"sort", "const"}
    <3>1. \A i \in Subs(k) : LevelKids(k, s)[i] \in OfHeight[Rank[k[i]] + 0]
      <4> SUFFICES ASSUME NEW i \in Subs(k) PROVE LevelKids(k, s)[i] \in OfHeight[Rank[k[i]] + 0]
        OBVIOUS
      <4>1. Rank[k[i]] \in Nat /\ Rank[k[i]] + 0 = Rank[k[i]]
        BY Anatomy
      <4>2. InstantiateLevels(k[i], s) \in OfHeight[Rank[k[i]]]
        BY <1>2
      <4> QED BY <4>1, <4>2, LevelsRec
    <3>2. Put(k, LevelKids(k, s)) \in OfHeight[Rank[k] + 0]
      BY <3>1, PutRank
    <3> QED BY <2>1, <2>5, <3>2, LevelsRec
  <2> QED BY <2>3, <2>4, <2>5
<1>3. Tree \subseteq T
  <2> HIDE DEF T
  <2> QED BY <1>2, TermInduction
<1>4. InstantiateLevels(t, s) \in OfHeight[Rank[t]]
  BY <1>3
<1>5. Rank[t] \in Nat /\ Rank[t] <= MaxHeight
  BY RankFacts
<1>6. OfHeight[Rank[t]] \subseteq Tree
  BY <1>5, TermsAreTerms
<1> QED BY <1>4, <1>6

LEMMA LevelsLike ==
    ASSUME NEW k \in Tree, NEW s, s \in [DOMAIN s -> Universes]
    PROVE  /\ Tag(k) \in {"sort", "const"} => Tag(InstantiateLevels(k, s)) = Tag(k)
           /\ Tag(k) \in {"bvar", "lit"} => InstantiateLevels(k, s) = k
           /\ Tag(k) \notin {"sort", "const"} =>
                  /\ Like(InstantiateLevels(k, s), k)
                  /\ \A i \in Subs(k) : InstantiateLevels(k, s)[i] = InstantiateLevels(k[i], s)
<1>1. InstantiateLevels(k, s) \in Tree
  BY LevelsHeight
<1>2. Tag(k) \in {"sort", "const"} => Tag(InstantiateLevels(k, s)) = Tag(k)
  BY LevelsRec, Constructors
<1>3. ASSUME Tag(k) \notin {"sort", "const"}
      PROVE  /\ Like(InstantiateLevels(k, s), k)
             /\ \A i \in Subs(k) : InstantiateLevels(k, s)[i] = InstantiateLevels(k[i], s)
  <2>1. InstantiateLevels(k, s) = Put(k, LevelKids(k, s))
    BY <1>3, LevelsRec
  <2>2. /\ Like(InstantiateLevels(k, s), k)
        /\ \A i \in Subs(k) : InstantiateLevels(k, s)[i] = LevelKids(k, s)[i]
    BY <1>1, <2>1, PutLike
  <2> QED BY <2>2, LevelsRec
<1>4. ASSUME Tag(k) \in {"bvar", "lit"}
      PROVE  InstantiateLevels(k, s) = k
  <2>1. InstantiateLevels(k, s) = Put(k, LevelKids(k, s))
    BY <1>4, LevelsRec
  <2> QED BY <1>4, <2>1, PutFacts
<1> QED BY <1>2, <1>3, <1>4

\* Terms without indices stay as they are.
LEMMA LeavesStay ==
    ASSUME NEW k \in Tree, Tag(k) \in {"sort", "const", "lit"}
    PROVE  /\ \A by, c \in Nat : Shift(k, by, c) = k
           /\ \A xs \in Seq(Tree), c \in Nat : InstantiateCore(k, xs, c) = k
<1>1. \A r : Put(k, r) = k
  BY PutFacts
<1>2. \A by, c \in Nat : Shift(k, by, c) = k
  BY <1>1, ShiftRec
<1>3. \A xs \in Seq(Tree), c \in Nat : InstantiateCore(k, xs, c) = k
  BY <1>1, InstantiateRec
<1> QED BY <1>2, <1>3

LEMMA LevelsShift ==
    ASSUME NEW t \in Tree, NEW s, s \in [DOMAIN s -> Universes], NEW by \in Nat, NEW c \in Nat
    PROVE  InstantiateLevels(Shift(t, by, c), s) = Shift(InstantiateLevels(t, s), by, c)
<1> DEFINE T == { k \in Tree : \A d \in Nat :
                      InstantiateLevels(Shift(k, by, d), s) = Shift(InstantiateLevels(k, s), by, d) }
<1>1. ASSUME NEW k \in Tree, \A i \in Subs(k) : k[i] \in T
      PROVE  k \in T
  <2> SUFFICES ASSUME NEW d \in Nat
               PROVE  InstantiateLevels(Shift(k, by, d), s) = Shift(InstantiateLevels(k, s), by, d)
    OBVIOUS
  <2> DEFINE u == Shift(k, by, d)
             v == InstantiateLevels(k, s)
  <2>1. u \in Tree /\ v \in Tree
    BY ShiftHeight, LevelsHeight
  <2>2. CASE Tag(k) = "bvar"
    <3>1. Tag(u) = "bvar"
      BY <2>2, ShiftRec, Constructors
    <3> HIDE DEF u
    <3>2. InstantiateLevels(u, s) = u /\ v = k
      BY <2>1, <2>2, <3>1, LevelsLike
    <3> QED BY <3>2 DEF u
  <2>3. CASE Tag(k) \in {"sort", "const"}
    <3>1. u = k /\ Tag(v) = Tag(k)
      BY <2>3, LeavesStay, LevelsLike
    <3> HIDE DEF u, v
    <3>2. Shift(v, by, d) = v
      BY <2>1, <2>3, <3>1, LeavesStay
    <3> QED BY <3>1, <3>2 DEF u, v
  <2>4. CASE Tag(k) \notin {"bvar", "sort", "const"}
    <3>1. Like(u, k) /\ \A i \in Subs(k) : u[i] = Shift(k[i], by, d + Under(k, i))
      BY <2>4, ShiftLike
    <3>2. Like(v, k) /\ \A i \in Subs(k) : v[i] = InstantiateLevels(k[i], s)
      BY <2>4, LevelsLike
    <3> HIDE DEF u, v
    <3>3. ASSUME NEW i \in Subs(k)
          PROVE  LevelKids(u, s)[i] = ShiftKids(v, by, d)[i]
      <4>1. k[i] \in Tree /\ d + Under(k, i) \in Nat
        BY Anatomy, KidFacts
      <4>2. InstantiateLevels(Shift(k[i], by, d + Under(k, i)), s) = Shift(InstantiateLevels(k[i], s), by, d + Under(k, i))
        BY <1>1, <4>1
      <4>3. i \in Subs(u) /\ i \in Subs(v) /\ Under(v, i) = Under(k, i)
        BY <3>1, <3>2 DEF Like
      <4>4. LevelKids(u, s)[i] = InstantiateLevels(u[i], s)
        BY <2>1, <4>3, LevelsRec
      <4>5. ShiftKids(v, by, d)[i] = Shift(v[i], by, d + Under(k, i))
        BY <4>3, KidValues
      <4> QED BY <3>1, <3>2, <4>2, <4>4, <4>5
    <3>4. InstantiateLevels(u, s) = Put(k, LevelKids(u, s))
      BY <2>4, <3>1, LevelsRec DEF Like
    <3>5. Shift(v, by, d) = Put(k, ShiftKids(v, by, d))
      BY <2>4, <3>2, ShiftRec DEF Like
    <3>6. Put(k, LevelKids(u, s)) = Put(k, ShiftKids(v, by, d))
      BY <3>3, PutFacts
    <3> QED BY <3>4, <3>5, <3>6 DEF u, v
  <2> QED BY <2>2, <2>3, <2>4
<1>2. Tree \subseteq T
  <2> HIDE DEF T
  <2> QED BY <1>1, TermInduction
<1> QED BY <1>2

\* Levels may be substituted before or after the arguments.
LEMMA LevelsInstantiate ==
    ASSUME NEW t \in Tree, NEW s, s \in [DOMAIN s -> Universes], NEW H \in Nat, NEW xs \in Seq(Tree),
           \A i \in 1 .. Len(xs) : xs[i] \in OfHeight[H], Rank[t] + H <= MaxHeight
    PROVE  InstantiateLevels(Instantiate(t, xs), s)
               = Instantiate(InstantiateLevels(t, s), [i \in DOMAIN xs |-> InstantiateLevels(xs[i], s)])
<1> DEFINE ys == [i \in DOMAIN xs |-> InstantiateLevels(xs[i], s)]
           T == { k \in Tree : Rank[k] + H <= MaxHeight => \A d \in Nat :
                      InstantiateLevels(InstantiateCore(k, xs, d), s)
                          = InstantiateCore(InstantiateLevels(k, s), ys, d) }
<1>1. Len(xs) \in Nat /\ DOMAIN xs = 1 .. Len(xs) /\ \A i \in 1 .. Len(xs) : xs[i] \in Tree
  BY ListFacts
<1>2. ys \in Seq(Tree) /\ Len(ys) = Len(xs) /\ \A i \in 1 .. Len(xs) : ys[i] = InstantiateLevels(xs[i], s)
  <2>1. \A i \in 1 .. Len(xs) : InstantiateLevels(xs[i], s) \in Tree
    BY <1>1, LevelsHeight
  <2>2. ys = [i \in 1 .. Len(xs) |-> InstantiateLevels(xs[i], s)]
    BY <1>1
  <2> HIDE DEF ys
  <2>3. ys \in [1 .. Len(xs) -> Tree]
    BY <2>1, <2>2
  <2>4. ys \in Seq(Tree)
    BY <1>1, <2>3
  <2>5. Len(ys) = Len(xs)
    BY <1>1, <2>3
  <2> QED BY <2>2, <2>4, <2>5
<1> HIDE DEF ys
<1>3. ASSUME NEW k \in Tree, \A i \in Subs(k) : k[i] \in T
      PROVE  k \in T
  <2> SUFFICES ASSUME Rank[k] + H <= MaxHeight, NEW d \in Nat
               PROVE  InstantiateLevels(InstantiateCore(k, xs, d), s)
                          = InstantiateCore(InstantiateLevels(k, s), ys, d)
    OBVIOUS
  <2> DEFINE u == InstantiateCore(k, xs, d)
             v == InstantiateLevels(k, s)
  <2>0. Rank[k] \in Nat /\ Rank[k] + H \in Nat /\ MaxHeight \in Nat
    BY RankFacts, TermsAssumption DEF TermsAssumption
  <2>1. u \in Tree /\ v \in Tree
    <3>1. u \in OfHeight[Rank[k] + H]
      BY InstantiateHeight
    <3>2. OfHeight[Rank[k] + H] \subseteq Tree
      BY <2>0, TermsAreTerms
    <3> HIDE DEF u
    <3> QED BY <3>1, <3>2, LevelsHeight
  <2>2. CASE Tag(k) = "bvar"
    <3> DEFINE n == k[2]
    <3>1. n \in Nat /\ v = k
      BY <2>2, Anatomy, LevelsLike
    <3>2. u = IF n >= d /\ n - d < Len(xs) THEN Shift(xs[n - d + 1], d, 0)
              ELSE IF n >= d THEN BVar(n - Len(xs)) ELSE k
      BY <2>2, InstantiateRec
    <3>3. InstantiateCore(k, ys, d) = IF n >= d /\ n - d < Len(xs) THEN Shift(ys[n - d + 1], d, 0)
                                      ELSE IF n >= d THEN BVar(n - Len(xs)) ELSE k
      BY <1>2, <2>2, InstantiateRec
    <3> HIDE DEF n, u, v
    <3>4. CASE n >= d /\ n - d < Len(xs)
      <4> DEFINE i == n - d + 1
                 x == xs[i]
      <4>1. i \in 1 .. Len(xs)
        BY <1>1, <3>1, <3>4, ArgumentOf
      <4> HIDE DEF i
      <4>2. x \in Tree /\ ys[i] = InstantiateLevels(x, s)
        BY <1>1, <1>2, <4>1
      <4>3. u = Shift(x, d, 0) /\ InstantiateCore(k, ys, d) = Shift(ys[i], d, 0)
        BY <3>2, <3>3, <3>4 DEF i
      <4> HIDE DEF x
      <4>4. InstantiateLevels(Shift(x, d, 0), s) = Shift(InstantiateLevels(x, s), d, 0)
        BY <4>2, LevelsShift
      <4> QED BY <3>1, <4>2, <4>3, <4>4 DEF u, v
    <3>5. CASE ~(n >= d /\ n - d < Len(xs))
      <4>1. InstantiateCore(k, ys, d) = u
        BY <3>2, <3>3, <3>5
      <4>2. Tag(u) = "bvar"
        BY <2>2, <3>2, <3>5, Constructors
      <4>3. InstantiateLevels(u, s) = u
        BY <2>1, <4>2, LevelsLike
      <4> QED BY <3>1, <4>1, <4>3 DEF u, v
    <3> QED BY <3>4, <3>5
  <2>3. CASE Tag(k) \in {"sort", "const"}
    <3>1. u = k /\ Tag(v) = Tag(k)
      BY <2>3, LeavesStay, LevelsLike
    <3> HIDE DEF u, v
    <3>2. InstantiateCore(v, ys, d) = v
      BY <1>2, <2>1, <2>3, <3>1, LeavesStay
    <3> QED BY <3>1, <3>2 DEF u, v
  <2>4. CASE Tag(k) \notin {"bvar", "sort", "const"}
    <3>1. Like(u, k) /\ \A i \in Subs(k) : u[i] = InstantiateCore(k[i], xs, d + Under(k, i))
      BY <2>1, <2>4, InstantiateLike
    <3>2. Like(v, k) /\ \A i \in Subs(k) : v[i] = InstantiateLevels(k[i], s)
      BY <2>4, LevelsLike
    <3> HIDE DEF u, v
    <3>3. ASSUME NEW i \in Subs(k)
          PROVE  LevelKids(u, s)[i] = InstKids(v, ys, d)[i]
      <4>1. k[i] \in Tree /\ d + Under(k, i) \in Nat /\ Rank[k[i]] \in Nat /\ Rank[k[i]] < Rank[k]
        BY Anatomy, KidFacts
      <4>2. Rank[k[i]] + H <= MaxHeight
        BY <2>0, <4>1
      <4>3. InstantiateLevels(InstantiateCore(k[i], xs, d + Under(k, i)), s)
                = InstantiateCore(InstantiateLevels(k[i], s), ys, d + Under(k, i))
        BY <1>3, <4>1, <4>2
      <4>4. i \in Subs(u) /\ i \in Subs(v) /\ Under(v, i) = Under(k, i)
        BY <3>1, <3>2 DEF Like
      <4>5. LevelKids(u, s)[i] = InstantiateLevels(u[i], s)
        BY <2>1, <4>4, LevelsRec
      <4>6. InstKids(v, ys, d)[i] = InstantiateCore(v[i], ys, d + Under(k, i))
        BY <4>4, KidValues
      <4> QED BY <3>1, <3>2, <4>3, <4>5, <4>6
    <3>4. InstantiateLevels(u, s) = Put(k, LevelKids(u, s))
      BY <2>4, <3>1, LevelsRec DEF Like
    <3>5. InstantiateCore(v, ys, d) = Put(k, InstKids(v, ys, d))
      BY <1>2, <2>4, <3>2, InstantiateRec DEF Like
    <3>6. Put(k, LevelKids(u, s)) = Put(k, InstKids(v, ys, d))
      BY <3>3, PutFacts
    <3> QED BY <3>4, <3>5, <3>6 DEF u, v
  <2> QED BY <2>2, <2>3, <2>4
<1>4. Tree \subseteq T
  <2> HIDE DEF T
  <2> QED BY <1>3, TermInduction
<1>5. InstantiateLevels(InstantiateCore(t, xs, 0), s) = InstantiateCore(InstantiateLevels(t, s), ys, 0)
  BY <1>4
<1> QED BY <1>5 DEF Instantiate, ys

LEMMA LevelsShape ==
    ASSUME NEW t \in Tree, NEW l
    PROVE  l \in LevelsOf(t) <=> \/ Tag(t) = "sort" /\ l = t[2]
                                 \/ Tag(t) = "const" /\ \E i \in DOMAIN t[3] : l = t[3][i]
                                 \/ \E i \in Subs(t) : l \in LevelsOf(t[i])
<1>1. CASE Tag(t) = "sort"
  BY <1>1, LevelsOfFacts, TagCases
<1>2. CASE Tag(t) = "const"
  <2>1. LevelsOf(t) = {t[3][i] : i \in DOMAIN t[3]}
    BY <1>2, LevelsOfFacts
  <2> QED BY <1>2, <2>1, TagCases
<1>3. CASE Tag(t) \in {"bvar", "lit"}
  BY <1>3, LevelsOfFacts, TagCases
<1>4. CASE Tag(t) \in {"app", "lam", "pi"}
  <2>1. LevelsOf(t) = LevelsOf(t[2]) \cup LevelsOf(t[3])
    BY <1>4, LevelsOfFacts
  <2> QED BY <1>4, <2>1, TagCases
<1>5. CASE Tag(t) = "let"
  <2>1. LevelsOf(t) = LevelsOf(t[2]) \cup LevelsOf(t[3]) \cup LevelsOf(t[4])
    BY <1>5, LevelsOfFacts
  <2> QED BY <1>5, <2>1, TagCases
<1>6. CASE Tag(t) = "proj"
  <2>1. LevelsOf(t) = LevelsOf(t[4])
    BY <1>6, LevelsOfFacts
  <2> QED BY <1>6, <2>1, TagCases
<1> QED BY <1>1, <1>2, <1>3, <1>4, <1>5, <1>6, Anatomy DEF Tags

\* Every level of a term is replaced.
LEMMA LevelsReplaced ==
    ASSUME NEW t \in Tree, NEW s, s \in [DOMAIN s -> Universes]
    PROVE  LevelsOf(InstantiateLevels(t, s)) = {LevelAt(l, s) : l \in LevelsOf(t)}
<1> DEFINE T == { k \in Tree : \A m : m \in LevelsOf(InstantiateLevels(k, s))
                                        <=> \E l \in LevelsOf(k) : m = LevelAt(l, s) }
<1>1. ASSUME NEW k \in Tree, \A i \in Subs(k) : k[i] \in T
      PROVE  k \in T
  <2> SUFFICES ASSUME NEW m
               PROVE  m \in LevelsOf(InstantiateLevels(k, s)) <=> \E l \in LevelsOf(k) : m = LevelAt(l, s)
    OBVIOUS
  <2> DEFINE u == InstantiateLevels(k, s)
  <2>1. u \in Tree
    BY LevelsHeight
  <2>2. CASE Tag(k) = "sort"
    <3>1. u = Sort(LevelAt(k[2], s)) /\ Tag(u) = "sort" /\ u[2] = LevelAt(k[2], s)
      BY <2>2, LevelsRec, Constructors
    <3> HIDE DEF u
    <3>2. LevelsOf(u) = {u[2]} /\ LevelsOf(k) = {k[2]}
      BY <2>1, <2>2, <3>1, LevelsOfFacts
    <3> QED BY <3>1, <3>2 DEF u
  <2>3. CASE Tag(k) = "const"
    <3>1. Tag(u) = "const" /\ u[3] = LevelsIn(k[3], s)
      BY <2>3, LevelsRec, Constructors
    <3>2. DOMAIN u[3] = DOMAIN k[3] /\ \A i \in DOMAIN k[3] : u[3][i] = LevelAt(k[3][i], s)
      BY <3>1 DEF LevelsIn
    <3> HIDE DEF u
    <3>3. m \in LevelsOf(u) <=> \E i \in DOMAIN u[3] : m = u[3][i]
      BY <2>1, <3>1, LevelsOfFacts
    <3>4. \A l : l \in LevelsOf(k) <=> \E i \in DOMAIN k[3] : l = k[3][i]
      BY <2>3, LevelsOfFacts
    <3>5. (\E i \in DOMAIN u[3] : m = u[3][i]) <=> \E i \in DOMAIN k[3] : m = LevelAt(k[3][i], s)
      BY <3>2
    <3>6. (\E l \in LevelsOf(k) : m = LevelAt(l, s)) <=> \E i \in DOMAIN k[3] : m = LevelAt(k[3][i], s)
      BY <3>4
    <3> QED BY <3>3, <3>5, <3>6 DEF u
  <2>4. CASE Tag(k) \notin {"sort", "const"}
    <3>1. Like(u, k) /\ \A i \in Subs(k) : u[i] = InstantiateLevels(k[i], s)
      BY <2>4, LevelsLike
    <3> HIDE DEF u
    <3>2. m \in LevelsOf(u) <=> \E i \in Subs(k) : m \in LevelsOf(u[i])
      BY <2>4, <3>1, LevelsShape DEF Like
    <3>3. \A l : l \in LevelsOf(k) <=> \E i \in Subs(k) : l \in LevelsOf(k[i])
      BY <2>4, LevelsShape
    <3>4. \A i \in Subs(k) : m \in LevelsOf(u[i]) <=> \E l \in LevelsOf(k[i]) : m = LevelAt(l, s)
      BY <1>1, <3>1
    <3> QED BY <3>2, <3>3, <3>4 DEF u
  <2> QED BY <2>2, <2>3, <2>4
<1>2. Tree \subseteq T
  <2> HIDE DEF T
  <2> QED BY <1>1, TermInduction
<1>3. \A m : m \in LevelsOf(InstantiateLevels(t, s)) <=> \E l \in LevelsOf(t) : m = LevelAt(l, s)
  BY <1>2
<1> QED BY <1>3

-----------------------------------------------------------------------------
(* The machine *)

\* The bound on the range as an integer, and the height of subjects.
Half == MaxSize - 1

LEMMA Bounds ==
    /\ MaxIndex \in Nat /\ MaxIndex + 1 \in Nat /\ MaxArgs \in Nat /\ MaxHeight \in Nat
    /\ Half \in Nat /\ Half <= MaxHeight /\ Half + Half <= MaxHeight
    /\ Pieces \subseteq OfHeight[Half] /\ OfHeight[Half] \subseteq Tree /\ "S" \in ConstNames
    /\ \A p \in Pieces : p \in Tree /\ Loose(p) <= MaxIndex + 1
    /\ \A s \in LevelMaps : s \in [DOMAIN s -> Universes]
<1>1. MaxIndex \in Nat /\ MaxSize \in Nat \ {0} /\ MaxArgs \in Nat /\ MaxHeight \in Nat
      /\ 2 * MaxSize <= MaxHeight + 2
  BY TermsAssumption, SubstitutionAssumption DEF TermsAssumption, SubstitutionAssumption
<1>2. Half \in Nat /\ Half <= MaxHeight /\ Half + Half <= MaxHeight /\ MaxIndex + 1 \in Nat
  BY <1>1 DEF Half
<1>3. /\ Pieces \subseteq OfHeight[Half] /\ "S" \in ConstNames
      /\ \A p \in Pieces : Loose(p) <= MaxIndex + 1
      /\ \A s \in LevelMaps : s \in [DOMAIN s -> Universes]
  BY SubstitutionAssumption DEF SubstitutionAssumption, Half
<1>4. OfHeight[Half] \subseteq Tree
  BY <1>2, TermsAreTerms
<1> QED BY <1>1, <1>2, <1>3, <1>4

\* The inductive invariant: subject and arguments are terms of half the height
\* terms may have, and their free indices are in range.
SubstInv ==
    /\ e \in OfHeight[Half] /\ Loose(e) <= MaxIndex + 1
    /\ args \in Seq(Pieces) /\ Len(args) <= MaxArgs

\* What an instantiation needs of the arguments.
LEMMA Arguments ==
    ASSUME NEW xs \in Seq(Pieces)
    PROVE  /\ xs \in Seq(Tree) /\ DOMAIN xs = 1 .. Len(xs)
           /\ \A i \in 1 .. Len(xs) : xs[i] \in OfHeight[Half] /\ Loose(xs[i]) <= MaxIndex + 1
<1>1. Len(xs) \in Nat /\ DOMAIN xs = 1 .. Len(xs) /\ \A i \in 1 .. Len(xs) : xs[i] \in Pieces
  BY ListFacts
<1>2. Pieces \subseteq Tree
  BY Bounds
<1>3. xs \in Seq(Tree)
  BY <1>2
<1> QED BY <1>1, <1>3, Bounds

LEMMA HalfHeight ==
    ASSUME NEW t \in OfHeight[Half]
    PROVE  t \in Tree /\ Rank[t] + Half <= MaxHeight /\ Loose(t) \in Nat
<1>1. t \in Tree
  BY Bounds
<1>2. Rank[t] \in Nat /\ Rank[t] <= Half
  BY <1>1, Bounds, RankFacts
<1> QED BY <1>1, <1>2, Bounds, LooseFacts

\* A term of terms in range is in range.
LEMMA BuiltInRange ==
    ASSUME NEW t \in Tree, Tag(t) # "bvar", \A i \in Subs(t) : t[i] \in Tree /\ Loose(t[i]) <= MaxIndex + 1
    PROVE  Loose(t) <= MaxIndex + 1
<1>1. ASSUME NEW i \in Subs(t)
      PROVE  Loose(t[i]) <= (MaxIndex + 1) + Under(t, i)
  <2>1. Loose(t[i]) \in Nat /\ Under(t, i) \in Nat /\ MaxIndex + 1 \in Nat /\ Loose(t[i]) <= MaxIndex + 1
    BY LooseFacts, KidFacts, Bounds
  <2> QED BY <2>1
<1> QED BY <1>1, Bounds, LooseShape

LEMMA SubstInvInit == SubstInit => SubstInv
<1> SUFFICES ASSUME SubstInit PROVE SubstInv
  OBVIOUS
<1>1. args \in Seq(Pieces) /\ Len(args) <= MaxArgs
  BY Bounds DEF SubstInit
<1>2. CASE e \in Pieces
  BY <1>1, <1>2, Bounds DEF SubstInv
<1>3. CASE e \in {BVar(i) : i \in 0 .. MaxIndex}
  <2>1. PICK i \in 0 .. MaxIndex : e = BVar(i)
    BY <1>3
  <2>2. i \in Nat /\ i + 1 <= MaxIndex + 1
    BY <2>1, Bounds
  <2>3. BVar(i) \in Tree /\ BVar(i) \in OfHeight[Half] /\ Tag(BVar(i)) = "bvar" /\ BVar(i)[2] = i
    BY <2>2, Index, Bounds
  <2>4. Loose(BVar(i)) = i + 1
    BY <2>3, LooseFacts
  <2> QED BY <1>1, <2>1, <2>2, <2>3, <2>4 DEF SubstInv
<1> QED BY <1>2, <1>3 DEF SubstInit

\* What a step may build from terms in range.
InRange(t) == t \in Tree /\ Loose(t) <= MaxIndex + 1

LEMMA BuiltParts ==
    /\ \A f, a : InRange(f) /\ InRange(a) =>
           \A u \in {App(f, a), Lam(f, a), Pi(f, a)} : Tag(u) # "bvar" /\ \A i \in Subs(u) : InRange(u[i])
    /\ \A a, b, c : InRange(a) /\ InRange(b) /\ InRange(c) =>
           LET u == Let(a, b, c) IN Tag(u) # "bvar" /\ \A i \in Subs(u) : InRange(u[i])
    /\ \A c : InRange(c) => LET u == Proj("S", 0, c) IN Tag(u) # "bvar" /\ \A i \in Subs(u) : InRange(u[i])
<1>1. ASSUME NEW f, NEW a, InRange(f), InRange(a), NEW u \in {App(f, a), Lam(f, a), Pi(f, a)}
      PROVE  Tag(u) # "bvar" /\ \A i \in Subs(u) : InRange(u[i])
  <2>1. Tag(u) \in {"app", "lam", "pi"} /\ u[2] = f /\ u[3] = a
    BY <1>1, Constructors
  <2> QED BY <1>1, <2>1, TagCases
<1>2. ASSUME NEW a, NEW b, NEW c, InRange(a), InRange(b), InRange(c)
      PROVE  LET u == Let(a, b, c) IN Tag(u) # "bvar" /\ \A i \in Subs(u) : InRange(u[i])
  <2> DEFINE u == Let(a, b, c)
  <2>1. Tag(u) = "let" /\ u[2] = a /\ u[3] = b /\ u[4] = c
    BY Constructors
  <2> HIDE DEF u
  <2>2. Tag(u) # "bvar" /\ \A i \in Subs(u) : InRange(u[i])
    BY <1>2, <2>1, TagCases
  <2> QED BY <2>2 DEF u
<1>3. ASSUME NEW c, InRange(c)
      PROVE  LET u == Proj("S", 0, c) IN Tag(u) # "bvar" /\ \A i \in Subs(u) : InRange(u[i])
  <2> DEFINE u == Proj("S", 0, c)
  <2>1. Tag(u) = "proj" /\ u[4] = c
    BY Constructors
  <2> HIDE DEF u
  <2>2. Tag(u) # "bvar" /\ \A i \in Subs(u) : InRange(u[i])
    BY <1>3, <2>1, TagCases
  <2> QED BY <2>2 DEF u
<1> QED BY <1>1, <1>2, <1>3

LEMMA SubstInvNext == SubstInv /\ [SubstNext]_substVars => SubstInv'
<1> SUFFICES ASSUME SubstInv, [SubstNext]_substVars PROVE SubstInv'
  OBVIOUS
<1>1. /\ e \in OfHeight[Half] /\ Loose(e) <= MaxIndex + 1
      /\ args \in Seq(Pieces) /\ Len(args) <= MaxArgs
  BY DEF SubstInv
<1>2. InRange(e) /\ \A p \in Pieces : InRange(p)
  BY <1>1, Bounds, HalfHeight DEF InRange
<1>3. ASSUME NEW t, Fits(t)
      PROVE  t \in OfHeight[Half] /\ t \in Tree
  BY <1>3, Bounds DEF Fits, Half
<1>4. CASE Build
  <2>1. args' = args /\ e' \in OfHeight[Half] /\ e' \in Tree
    BY <1>3, <1>4 DEF Build
  <2>2. Tag(e') # "bvar" /\ \A i \in Subs(e') : InRange(e'[i])
    <3>1. CASE BuildApp
      <4>1. PICK p \in Pieces : e' \in {App(e, p), App(p, e)}
        BY <3>1 DEF BuildApp
      <4> QED BY <1>2, <4>1, BuiltParts
    <3>2. CASE BuildBinder
      <4>1. PICK p \in Pieces : e' \in {Lam(p, e), Lam(e, p), Pi(p, e), Pi(e, p)}
        BY <3>2 DEF BuildBinder
      <4> QED BY <1>2, <4>1, BuiltParts
    <3>3. CASE BuildLet
      <4>1. PICK p \in Pieces, q \in Pieces : e' \in {Let(p, q, e), Let(p, e, q), Let(e, p, q)}
        BY <3>3 DEF BuildLet
      <4> QED BY <1>2, <4>1, BuiltParts
    <3>4. CASE BuildProj
      BY <1>2, <3>4, BuiltParts DEF BuildProj
    <3> QED BY <1>4, <3>1, <3>2, <3>3, <3>4 DEF Build
  <2>3. Loose(e') <= MaxIndex + 1
    BY <2>1, <2>2, BuiltInRange DEF InRange
  <2> QED BY <1>1, <2>1, <2>3 DEF SubstInv
<1>5. CASE AddArg
  <2>1. PICK p \in Pieces : Len(args) < MaxArgs /\ args' = Append(args, p) /\ e' = e
    BY <1>5 DEF AddArg
  <2>2. args' \in Seq(Pieces) /\ Len(args') = Len(args) + 1 /\ Len(args) \in Nat
    BY <1>1, <2>1
  <2> QED BY <1>1, <2>1, <2>2, Bounds DEF SubstInv
<1>6. CASE Substitute
  <2>1. e' = Instantiate(e, args) /\ Fits(e') /\ args' = <<>>
    BY <1>6 DEF Substitute
  <2>2. e' \in OfHeight[Half]
    BY <1>3, <2>1
  <2>3. args' \in Seq(Pieces) /\ Len(args') <= MaxArgs
    BY <2>1, Bounds
  <2>4. /\ args \in Seq(Tree)
        /\ \A i \in 1 .. Len(args) : args[i] \in OfHeight[Half] /\ Loose(args[i]) <= MaxIndex + 1
    BY <1>1, Arguments
  <2>5. e \in Tree /\ Rank[e] + Half <= MaxHeight /\ Loose(e) <= MaxIndex + 1
    BY <1>1, HalfHeight
  <2>6. Loose(Instantiate(e, args)) <= MaxIndex + 1
    BY <2>4, <2>5, Bounds, InstantiateRange
  <2> QED BY <2>1, <2>2, <2>3, <2>6 DEF SubstInv
<1>7. CASE PushUnderBinders
  <2>1. PICK by \in 1 .. 2 : Loose(e) + by <= MaxIndex + 1 /\ e' = Shift(e, by, 0) /\ args' = args
    BY <1>7 DEF PushUnderBinders
  <2>2. by \in Nat /\ e \in Tree /\ Loose(e) \in Nat
    BY <1>1, <2>1, HalfHeight
  <2>3. Shift(e, by, 0) \in OfHeight[Half]
    BY <1>1, <2>2, Bounds, ShiftHeight
  <2>4. Loose(e) <= Loose(e)
    BY <2>2
  <2>5. Loose(Shift(e, by, 0)) <= Loose(e) + by
    BY <2>2, <2>4, ShiftRange
  <2>6. Loose(Shift(e, by, 0)) \in Nat
    BY <2>2, ShiftHeight, LooseFacts
  <2>7. Loose(Shift(e, by, 0)) <= MaxIndex + 1
    BY <2>1, <2>2, <2>5, <2>6, Bounds
  <2> QED BY <1>1, <2>1, <2>3, <2>7 DEF SubstInv
<1>8. CASE UNCHANGED substVars
  BY <1>1, <1>8 DEF substVars, SubstInv
<1> QED BY <1>4, <1>5, <1>6, <1>7, <1>8 DEF SubstNext

\* The free indices of the subject stay in range whatever is built, shifted and
\* instantiated: instantiation adds none, a shift no more than it says.
THEOREM SubstTyped == SubstSpec => []SubstTypeOK
<1>1. SubstInv => SubstTypeOK
  <2> SUFFICES ASSUME SubstInv PROVE SubstTypeOK
    OBVIOUS
  <2>1. Loose(e) \in Nat /\ Loose(e) <= MaxIndex + 1
    BY HalfHeight DEF SubstInv
  <2> QED BY <2>1, Bounds DEF SubstInv, SubstTypeOK
<1> QED BY <1>1, SubstInvInit, SubstInvNext, PTL DEF SubstSpec

\* The range, the word and the list of every subject say exactly which indices
\* are free in it, and no list is longer than its cap.
THEOREM SummariesCorrect == SubstSpec => []SummariesAreExact
<1>1. SubstInv => SummariesAreExact
  <2> SUFFICES ASSUME SubstInv PROVE SummariesAreExact
    OBVIOUS
  <2>1. e \in Tree
    BY HalfHeight DEF SubstInv
  <2> QED BY <2>1, LooseExact, UsedExact, UsedSetExact DEF SummariesAreExact
<1> QED BY <1>1, SubstInvInit, SubstInvNext, PTL DEF SubstSpec

\* The assignments the properties read subjects under.
LEMMA Assignments ==
    /\ Env \in Assignment
    /\ \A by \in Nat : New(by) \in Seq(AnyTree) /\ Len(New(by)) = by
<1>1. \A n \in Nat : Lit(n) \in AnyTree
  <2> SUFFICES ASSUME NEW n \in Nat PROVE Lit(n) \in AnyTree
    OBVIOUS
  <2>1. IsLeafTerm(Lit(n))
    BY Constructors DEF IsLeafTerm
  <2> QED BY <2>1, LeafShape, TermsAreTerms
<1>2. Env \in Assignment
  BY <1>1 DEF Env, Assignment
<1>3. ASSUME NEW by \in Nat
      PROVE  New(by) \in Seq(AnyTree) /\ Len(New(by)) = by
  <2>1. New(by) \in [1 .. by -> AnyTree]
    BY <1>1 DEF New
  <2>2. New(by) \in Seq(AnyTree)
    BY <2>1
  <2>3. Len(New(by)) = by
    BY <2>1
  <2> QED BY <2>2, <2>3
<1> QED BY <1>2, <1>3

\* Shifting, instantiating and substituting levels mean what they should on
\* every subject, whatever was built, shifted and instantiated before.
THEOREM SubstitutionCorrect == SubstSpec => []SubstitutionIsExact
<1>1. SubstInv => SubstitutionIsExact
  <2> SUFFICES ASSUME SubstInv PROVE SubstitutionIsExact
    OBVIOUS
  <2>1. e \in Tree /\ Rank[e] + Half <= MaxHeight /\ Half \in Nat
    BY HalfHeight, Bounds DEF SubstInv
  <2>2. args \in Seq(Tree) /\ \A i \in 1 .. Len(args) : args[i] \in OfHeight[Half]
    BY Arguments DEF SubstInv
  <2>3. ShiftKeepsMeaning
    <3> SUFFICES ASSUME NEW by \in 1 .. 2, NEW c \in 0 .. 1
                 PROVE  Meaning(Shift(e, by, c), InsertAt(Env, c, New(by))) = Meaning(e, Env)
      BY DEF ShiftKeepsMeaning
    <3>1. by \in Nat /\ c \in Nat /\ 0 \in Nat /\ c + 0 = c
      OBVIOUS
    <3>2. Env \in Assignment /\ New(by) \in Seq(AnyTree) /\ Len(New(by)) = by
      BY <3>1, Assignments
    <3>3. Read(Shift(e, by, c + 0), InsertAt(Env, c, New(by)), 0) = Read(e, Env, 0)
      BY <2>1, <3>1, <3>2, ShiftReads
    <3> QED BY <3>1, <3>3 DEF Meaning
  <2>4. InstantiateKeepsMeaning
    BY <2>1, <2>2, Assignments, InstantiateReads DEF InstantiateKeepsMeaning
  <2>5. LevelsCommute
    <3> SUFFICES ASSUME NEW s \in LevelMaps
                 PROVE  /\ InstantiateLevels(Instantiate(e, args), s)
                             = Instantiate(InstantiateLevels(e, s),
                                           [i \in DOMAIN args |-> InstantiateLevels(args[i], s)])
                        /\ LevelsOf(InstantiateLevels(e, s)) = {LevelAt(l, s) : l \in LevelsOf(e)}
      BY DEF LevelsCommute
    <3>1. s \in [DOMAIN s -> Universes]
      BY Bounds
    <3>2. InstantiateLevels(Instantiate(e, args), s)
              = Instantiate(InstantiateLevels(e, s), [i \in DOMAIN args |-> InstantiateLevels(args[i], s)])
      BY <2>1, <2>2, <3>1, LevelsInstantiate
    <3> QED BY <2>1, <3>1, <3>2, LevelsReplaced
  <2> QED BY <2>3, <2>4, <2>5 DEF SubstitutionIsExact
<1> QED BY <1>1, SubstInvInit, SubstInvNext, PTL DEF SubstSpec

-----------------------------------------------------------------------------
(* Moving a term under binders: its free indices, and that no two terms    *)
(* become one.                                                             *)

LEMMA ShiftFree ==
    ASSUME NEW t \in Tree, NEW by \in Nat, NEW c \in Nat, NEW j \in Nat
    PROVE  j \in Free(Shift(t, by, c)) <=> \/ j < c /\ j \in Free(t)
                                           \/ j >= c + by /\ j - by \in Free(t)
<1> DEFINE Moved(k, d, i) == \/ i < d /\ i \in Free(k)
                             \/ i >= d + by /\ i - by \in Free(k)
           T == { k \in Tree : \A d, i \in Nat : i \in Free(Shift(k, by, d)) <=> Moved(k, d, i) }
<1>1. ASSUME NEW k \in Tree, \A n \in Subs(k) : k[n] \in T
      PROVE  k \in T
  <2> SUFFICES ASSUME NEW d \in Nat, NEW i \in Nat
               PROVE  i \in Free(Shift(k, by, d)) <=> Moved(k, d, i)
    OBVIOUS
  <2>1. CASE Tag(k) = "bvar"
    <3>1. k[2] \in Nat /\ k[2] + by \in Nat /\ k = BVar(k[2]) /\ Free(k) = {k[2]}
      BY <2>1, Anatomy, FreeFacts
    <3>2. CASE k[2] >= d
      <4>1. Shift(k, by, d) = BVar(k[2] + by)
        BY <2>1, <3>2, ShiftRec
      <4>2. BVar(k[2] + by) \in Tree /\ Tag(BVar(k[2] + by)) = "bvar" /\ BVar(k[2] + by)[2] = k[2] + by
        BY <3>1, Index
      <4>3. Free(Shift(k, by, d)) = {k[2] + by}
        BY <4>1, <4>2, FreeFacts
      <4> QED BY <3>1, <3>2, <4>3
    <3>3. CASE ~(k[2] >= d)
      <4>1. Shift(k, by, d) = k
        BY <2>1, <3>3, ShiftRec
      <4> QED BY <3>1, <3>3, <4>1
    <3> QED BY <3>2, <3>3
  <2>2. CASE Tag(k) # "bvar"
    <3> DEFINE u == Shift(k, by, d)
    <3>1. Like(u, k) /\ \A n \in Subs(k) : u[n] = Shift(k[n], by, d + Under(k, n))
      BY <2>2, ShiftLike
    <3> HIDE DEF u
    <3>2. i \in Free(u) <=> \E n \in Subs(k) : i + Under(k, n) \in Free(u[n])
      <4>1. u \in Tree /\ Tag(u) # "bvar" /\ Subs(u) = Subs(k) /\ \A n : Under(u, n) = Under(k, n)
        BY <2>2, <3>1 DEF Like
      <4> QED BY <4>1, FreeShape
    <3>3. \A h \in Nat : h \in Free(k) <=> \E n \in Subs(k) : h + Under(k, n) \in Free(k[n])
      BY <2>2, FreeShape
    <3>4. ASSUME NEW n \in Subs(k)
          PROVE  /\ Under(k, n) \in Nat
                 /\ i + Under(k, n) \in Free(u[n]) <=>
                      \/ i < d /\ i + Under(k, n) \in Free(k[n])
                      \/ i >= d + by /\ (i - by) + Under(k, n) \in Free(k[n])
      <4> DEFINE b == Under(k, n)
      <4>1. b \in Nat /\ d + b \in Nat /\ i + b \in Nat
        BY KidFacts
      <4>2. k[n] \in T /\ u[n] = Shift(k[n], by, d + b)
        BY <1>1, <3>1
      <4> HIDE DEF b
      <4>3. i + b \in Free(u[n]) <=> Moved(k[n], d + b, i + b)
        BY <4>1, <4>2
      <4>4. /\ i + b < d + b <=> i < d
            /\ i + b >= (d + b) + by <=> i >= d + by
            /\ (i + b) - by = (i - by) + b
        BY <4>1
      <4> QED BY <4>1, <4>3, <4>4 DEF b
    <3>5. i >= d + by => i - by \in Nat
      OBVIOUS
    <3>6. i \in Free(u) <=> Moved(k, d, i)
      <4>1. i \in Free(u) <=> \/ i < d /\ \E n \in Subs(k) : i + Under(k, n) \in Free(k[n])
                              \/ i >= d + by /\ \E n \in Subs(k) : (i - by) + Under(k, n) \in Free(k[n])
        BY <3>2, <3>4, Zenon
      <4>2. i >= d + by => (i - by \in Free(k) <=> \E n \in Subs(k) : (i - by) + Under(k, n) \in Free(k[n]))
        BY <3>3, <3>5
      <4>3. i \in Free(k) <=> \E n \in Subs(k) : i + Under(k, n) \in Free(k[n])
        BY <3>3
      <4> QED BY <4>1, <4>2, <4>3, Zenon
    <3> QED BY <3>6 DEF u
  <2> QED BY <2>1, <2>2
<1>2. Tree \subseteq T
  <2> HIDE DEF T
  <2> QED BY <1>1, TermInduction
<1> QED BY <1>2

LEMMA ShiftInjective ==
    ASSUME NEW t \in Tree, NEW u \in Tree, NEW by \in Nat, NEW c \in Nat,
           Shift(t, by, c) = Shift(u, by, c)
    PROVE  t = u
<1> DEFINE T == { k \in Tree : \A d \in Nat, h \in Tree : Shift(k, by, d) = Shift(h, by, d) => k = h }
<1>1. ASSUME NEW k \in Tree, \A n \in Subs(k) : k[n] \in T
      PROVE  k \in T
  <2> SUFFICES ASSUME NEW d \in Nat, NEW h \in Tree, Shift(k, by, d) = Shift(h, by, d)
               PROVE  k = h
    OBVIOUS
  <2>1. ASSUME NEW v \in Tree, Tag(v) = "bvar"
        PROVE  /\ v[2] \in Nat /\ v = BVar(v[2])
               /\ Tag(Shift(v, by, d)) = "bvar"
               /\ Shift(v, by, d)[2] = IF v[2] >= d THEN v[2] + by ELSE v[2]
    <3>1. v[2] \in Nat /\ v[2] + by \in Nat /\ v = BVar(v[2])
      BY <2>1, Anatomy
    <3>2. Shift(v, by, d) = IF v[2] >= d THEN BVar(v[2] + by) ELSE v
      BY <2>1, ShiftRec
    <3>3. Tag(BVar(v[2] + by)) = "bvar" /\ BVar(v[2] + by)[2] = v[2] + by
      BY <3>1, Index
    <3> QED BY <2>1, <3>1, <3>2, <3>3
  <2>2. ASSUME NEW v \in Tree, Tag(v) # "bvar"
        PROVE  /\ Like(Shift(v, by, d), v) /\ Tag(Shift(v, by, d)) # "bvar"
               /\ \A n \in Subs(v) : Shift(v, by, d)[n] = Shift(v[n], by, d + Under(v, n))
    <3>1. /\ Like(Shift(v, by, d), v)
          /\ \A n \in Subs(v) : Shift(v, by, d)[n] = Shift(v[n], by, d + Under(v, n))
      BY <2>2, ShiftLike
    <3> QED BY <2>2, <3>1 DEF Like
  <2>3. CASE Tag(k) = "bvar"
    <3>1. Tag(h) = "bvar"
      BY <2>1, <2>2, <2>3
    <3>2. k[2] = h[2]
      <4> DEFINE a == k[2]
                 b == h[2]
                 x == Shift(k, by, d)[2]
      <4>1. a \in Nat /\ b \in Nat /\ x = (IF a >= d THEN a + by ELSE a) /\ x = (IF b >= d THEN b + by ELSE b)
        BY <2>1, <2>3, <3>1
      <4> HIDE DEF a, b, x
      <4>2. a = b
        BY <4>1
      <4> QED BY <4>2 DEF a, b
    <3> QED BY <2>1, <2>3, <3>1, <3>2
  <2>4. CASE Tag(k) # "bvar"
    <3>1. Tag(h) # "bvar"
      BY <2>1, <2>2, <2>4
    <3> DEFINE s == Shift(k, by, d)
    <3>2. /\ Like(s, k) /\ Like(s, h)
          /\ \A n \in Subs(k) : s[n] = Shift(k[n], by, d + Under(k, n))
          /\ \A n \in Subs(h) : s[n] = Shift(h[n], by, d + Under(h, n))
      BY <2>2, <2>4, <3>1
    <3> HIDE DEF s
    <3>3. Subs(k) = Subs(h) /\ (\A n : Under(k, n) = Under(h, n)) /\ \A r : Put(k, r) = Put(h, r)
      BY <3>2 DEF Like
    <3>4. ASSUME NEW n \in Subs(k)
          PROVE  k[n] = h[n]
      <4>1. k[n] \in T /\ h[n] \in Tree /\ d + Under(k, n) \in Nat
        BY <1>1, <3>3, Anatomy, KidFacts
      <4>2. Shift(k[n], by, d + Under(k, n)) = Shift(h[n], by, d + Under(k, n))
        BY <3>2, <3>3
      <4> QED BY <4>1, <4>2
    <3>5. k = Put(k, k) /\ h = Put(h, h)
      BY Anatomy
    <3>6. Put(k, k) = Put(k, h)
      BY <3>4, PutFacts
    <3> QED BY <3>3, <3>5, <3>6
  <2> QED BY <2>3, <2>4
<1>2. Tree \subseteq T
  <2> HIDE DEF T
  <2> QED BY <1>1, TermInduction
<1> QED BY <1>2

-----------------------------------------------------------------------------
(* Contexts, and the least closed set of binders.                          *)

\* A context the machine can be in: every recorded type is well scoped where
\* it was recorded.
Telescope(c) == c \in Seq(Types) /\ \A n \in 1 .. Len(c) : Loose(c[n]) <= n - 1
Scope(c) == 0 .. (Len(c) - 1)

LEMMA RawFacts ==
    ASSUME NEW c, Telescope(c), NEW i \in Scope(c)
    PROVE  /\ i \in Nat /\ Len(c) \in Nat /\ i + 1 \in Nat
           /\ Raw(c, i) \in Tree /\ LocalTy(c, i) \in Tree
           /\ Loose(Raw(c, i)) \in Nat /\ (i + 1) + Loose(Raw(c, i)) <= Len(c)
           /\ Free(Raw(c, i)) \in SUBSET Nat
           /\ Mentions(c)[i] = {(i + 1) + j : j \in Free(Raw(c, i))}
           /\ Mentions(c)[i] \subseteq Scope(c)
           /\ Loose(Raw(c, i)) = 0 => Mentions(c)[i] = {}
<1> DEFINE ty == Raw(c, i)
<1>1. /\ i \in Nat /\ Len(c) \in Nat /\ i + 1 \in Nat /\ i < Len(c)
      /\ Len(c) - i \in 1 .. Len(c) /\ (Len(c) - i) - 1 \in Nat
  BY DEF Telescope, Scope
<1>2. ty \in Types /\ Loose(ty) <= (Len(c) - i) - 1
  <2>1. c \in Seq(Types)
    BY DEF Telescope
  <2>2. c[Len(c) - i] \in Types
    BY <1>1, <2>1, ElementOfSeq
  <2>3. ty = c[Len(c) - i]
    BY DEF Raw
  <2> QED BY <1>1, <2>2, <2>3 DEF Telescope
<1>3. ty \in Tree
  BY <1>2, ContextAssumption DEF ContextAssumption, Tree
<1>4. Mentions(c)[i] = Free(Shift(ty, i + 1, 0)) /\ LocalTy(c, i) = Shift(ty, i + 1, 0)
  BY DEF Mentions, Scope, LocalTy
<1> HIDE DEF ty
<1>5. Loose(ty) \in Nat /\ (i + 1) + Loose(ty) <= Len(c)
  BY <1>1, <1>2, <1>3, LooseFacts
<1>6. Free(ty) \in SUBSET Nat /\ \A j \in Free(ty) : j < Loose(ty)
  BY <1>3, <1>5, FreeFacts, LooseBounds
<1>7. Shift(ty, i + 1, 0) \in Tree
  BY <1>1, <1>3, ShiftHeight
<1>8. Free(Shift(ty, i + 1, 0)) = {(i + 1) + j : j \in Free(ty)}
  <2> DEFINE F == Free(Shift(ty, i + 1, 0))
  <2>1. F \in SUBSET Nat
    BY <1>7, FreeFacts
  <2>2. \A j \in Nat : j \in F <=> j >= i + 1 /\ j - (i + 1) \in Free(ty)
    <3> SUFFICES ASSUME NEW j \in Nat PROVE j \in F <=> j >= i + 1 /\ j - (i + 1) \in Free(ty)
      OBVIOUS
    <3>1. j \in F <=> \/ j < 0 /\ j \in Free(ty)
                      \/ j >= 0 + (i + 1) /\ j - (i + 1) \in Free(ty)
      BY <1>1, <1>3, ShiftFree
    <3> QED BY <1>1, <3>1
  <2> HIDE DEF F
  <2>3. ASSUME NEW j \in F
        PROVE  j \in {(i + 1) + h : h \in Free(ty)}
    <3>1. j - (i + 1) \in Free(ty) /\ j = (i + 1) + (j - (i + 1))
      BY <1>1, <2>1, <2>2
    <3> QED BY <3>1
  <2>4. ASSUME NEW h \in Free(ty)
        PROVE  (i + 1) + h \in F
    <3>1. h \in Nat /\ (i + 1) + h \in Nat /\ (i + 1) + h >= i + 1 /\ ((i + 1) + h) - (i + 1) = h
      BY <1>1, <1>6
    <3> QED BY <2>2, <3>1
  <2> QED BY <2>3, <2>4 DEF F
<1>9. \A j \in Free(ty) : (i + 1) + j \in Scope(c)
  BY <1>1, <1>5, <1>6 DEF Scope
<1>10. Loose(ty) = 0 => Free(ty) = {}
  BY <1>6
<1>11. Mentions(c)[i] = {(i + 1) + j : j \in Free(ty)}
  BY <1>4, <1>8
<1> QED BY <1>1, <1>3, <1>4, <1>5, <1>6, <1>7, <1>9, <1>10, <1>11 DEF ty

\* K is a set of binders in scope with those of S and those its members' types
\* mention.
Closes(c, S, K) == K \subseteq Scope(c) /\ S \subseteq K /\ Closed(Mentions(c), K)

LEMMA ReachIsLeast ==
    ASSUME NEW c, NEW S
    PROVE  /\ \A K : Closes(c, S, K) => Reach(c, S) \subseteq K
           /\ Telescope(c) /\ S \subseteq Scope(c) => Closes(c, S, Reach(c, S))
           /\ \A K : Closes(c, S, K) /\ (\A L : Closes(c, S, L) => K \subseteq L) => Reach(c, S) = K
<1> DEFINE R == Reach(c, S)
<1>1. \A i : i \in R <=> i \in Scope(c) /\ \A K : Closes(c, S, K) => i \in K
  BY DEF Reach, Closes, Scope
<1> HIDE DEF R
<1>2. \A K : Closes(c, S, K) => R \subseteq K
  BY <1>1
<1>3. ASSUME Telescope(c), S \subseteq Scope(c)
      PROVE  Closes(c, S, R)
  <2>1. R \subseteq Scope(c) /\ S \subseteq R
    BY <1>1, <1>3 DEF Closes
  <2>2. Closed(Mentions(c), R)
    <3> SUFFICES ASSUME NEW i \in R, NEW m \in Mentions(c)[i] PROVE m \in R
      BY DEF Closed
    <3>1. m \in Scope(c)
      BY <1>3, <2>1, RawFacts
    <3>2. ASSUME NEW K, Closes(c, S, K)
          PROVE  m \in K
      BY <1>1, <3>2 DEF Closes, Closed
    <3> QED BY <1>1, <3>1, <3>2
  <2> QED BY <2>1, <2>2 DEF Closes
<1>4. ASSUME NEW K, Closes(c, S, K), \A L : Closes(c, S, L) => K \subseteq L
      PROVE  R = K
  <2>1. R \subseteq K
    BY <1>2, <1>4
  <2>2. K \subseteq Scope(c)
    BY <1>4 DEF Closes
  <2>3. K \subseteq R
    BY <1>1, <1>4, <2>2
  <2> QED BY <2>1, <2>3
<1> QED BY <1>2, <1>3, <1>4 DEF R

\* What a set of binders reaches is the same in every context with the same
\* types at a closed set that has it.
LEMMA SameReach ==
    ASSUME NEW c, Telescope(c), NEW d, Telescope(d), NEW S, NEW K,
           Closes(c, S, K), K \subseteq Scope(d), \A i \in K : Raw(c, i) = Raw(d, i)
    PROVE  /\ Closes(d, S, K) /\ Reach(c, S) = Reach(d, S) /\ Reach(c, S) \subseteq K
           /\ \A i \in Reach(c, S) : LocalTy(c, i) = LocalTy(d, i)
<1>1. K \subseteq Scope(c) /\ S \subseteq K /\ S \subseteq Scope(c) /\ S \subseteq Scope(d)
  BY DEF Closes
<1>2. \A i \in K : Mentions(c)[i] = Mentions(d)[i] /\ LocalTy(c, i) = LocalTy(d, i)
  BY <1>1, RawFacts DEF LocalTy
<1>3. Closes(d, S, K)
  BY <1>1, <1>2 DEF Closes, Closed
<1>4. Closes(c, S, Reach(c, S)) /\ Reach(c, S) \subseteq K /\ Closes(d, S, Reach(d, S)) /\ Reach(d, S) \subseteq K
  BY <1>1, <1>3, ReachIsLeast
<1>5. Closes(d, S, Reach(c, S)) /\ Closes(c, S, Reach(d, S))
  BY <1>1, <1>2, <1>4 DEF Closes, Closed
<1>6. Reach(d, S) \subseteq Reach(c, S) /\ Reach(c, S) \subseteq Reach(d, S)
  BY <1>5, ReachIsLeast
<1> QED BY <1>2, <1>3, <1>4, <1>6

-----------------------------------------------------------------------------
(* Chains stand for the bindings they are made of.                         *)

LEMMA FromLargestFacts ==
    ASSUME NEW S, S \subseteq Nat, IsFiniteSet(S)
    PROVE  /\ Cardinality(S) \in Nat
           /\ \A k \in 1 .. Cardinality(S) : FromLargest(S, k) \in S
           /\ \A i \in S : \E k \in 1 .. Cardinality(S) : FromLargest(S, k) = i
<1> DEFINE n == Cardinality(S)
           Up(i) == {j \in S : j >= i}
           rank == [i \in S |-> Cardinality(Up(i))]
<1>1. n \in Nat
  BY FS_CardinalityType
<1>2. \A i \in S : IsFiniteSet(Up(i)) /\ Cardinality(Up(i)) \in 1 .. n
  <2> SUFFICES ASSUME NEW i \in S PROVE IsFiniteSet(Up(i)) /\ Cardinality(Up(i)) \in 1 .. n
    OBVIOUS
  <2>1. Up(i) \in SUBSET S /\ i \in Up(i)
    OBVIOUS
  <2> HIDE DEF Up
  <2>2. IsFiniteSet(Up(i)) /\ Cardinality(Up(i)) <= n
    BY <2>1, FS_Subset
  <2>3. Cardinality(Up(i)) \in Nat /\ Cardinality(Up(i)) # 0
    BY <2>1, <2>2, FS_CardinalityType, FS_EmptySet
  <2> HIDE DEF n
  <2> QED BY <1>1, <2>2, <2>3
<1>3. rank \in [S -> 1 .. n]
  BY <1>2
<1>4. ASSUME NEW i \in S, NEW j \in S, i < j
      PROVE  rank[i] # rank[j]
  <2>0. \A x \in S : x \in Nat
    OBVIOUS
  <2>1. Up(j) \in SUBSET Up(i) /\ i \in Up(i) /\ i \notin Up(j)
    <3>1. i \in Nat /\ j \in Nat /\ i < j
      BY <1>4, <2>0
    <3>2. \A x \in S : x >= j => x >= i
      BY <2>0, <3>1
    <3>3. i >= i /\ ~(i >= j)
      BY <3>1
    <3>4. \A x : x \in Up(j) => x \in Up(i)
      BY <3>2, Zenon
    <3>5. i \in Up(i) /\ i \notin Up(j)
      BY <3>3, Zenon
    <3> QED BY <3>4, <3>5, Zenon
  <2>2. IsFiniteSet(Up(i)) /\ IsFiniteSet(Up(j))
    BY <1>2
  <2>3. rank[i] = Cardinality(Up(i)) /\ rank[j] = Cardinality(Up(j))
    OBVIOUS
  <2> HIDE DEF Up, rank
  <2>4. Cardinality(Up(i)) # Cardinality(Up(j))
    BY <2>1, <2>2, FS_Subset
  <2> QED BY <2>3, <2>4
<1>5. \A i, j \in S : rank[i] = rank[j] => i = j
  <2> SUFFICES ASSUME NEW i \in S, NEW j \in S, rank[i] = rank[j] PROVE i = j
    OBVIOUS
  <2>1. i \in Nat /\ j \in Nat /\ (i < j \/ j < i \/ i = j)
    OBVIOUS
  <2> HIDE DEF rank
  <2> QED BY <1>4, <2>1
<1> HIDE DEF rank
<1>6. rank \in Injection(S, 1 .. n)
  BY <1>3, <1>5 DEF Injection, IsInjective
<1>7. IsFiniteSet(1 .. n) /\ Cardinality(1 .. n) = n
  BY <1>1, FS_Interval
<1>8. rank \in Surjection(S, 1 .. n)
  BY <1>6, <1>7, FS_Injection
<1>9. \A k \in 1 .. n : \E i \in S : rank[i] = k
  BY <1>8 DEF Surjection
<1>10. \A i \in S : rank[i] = Cardinality(Up(i))
  BY DEF rank
<1>11. \A k \in 1 .. n : FromLargest(S, k) \in S /\ rank[FromLargest(S, k)] = k
  <2> SUFFICES ASSUME NEW k \in 1 .. n PROVE FromLargest(S, k) \in S /\ rank[FromLargest(S, k)] = k
    OBVIOUS
  <2>1. FromLargest(S, k) = CHOOSE i \in S : Cardinality(Up(i)) = k
    BY DEF FromLargest
  <2>2. \E i \in S : Cardinality(Up(i)) = k
    BY <1>9, <1>10
  <2> HIDE DEF Up
  <2> QED BY <1>10, <2>1, <2>2
<1>12. \A i \in S : \E k \in 1 .. n : FromLargest(S, k) = i
  <2> SUFFICES ASSUME NEW i \in S PROVE \E k \in 1 .. n : FromLargest(S, k) = i
    OBVIOUS
  <2>1. rank[i] \in 1 .. n
    BY <1>3
  <2> QED BY <1>5, <1>11, <2>1
<1> QED BY <1>1, <1>11, <1>12

\* s lists the bindings of S in c, and nothing else.
Lists(s, c, S) ==
    /\ DOMAIN s = 1 .. Cardinality(S)
    /\ \A k \in 1 .. Cardinality(S) : \E i \in S : s[k] = <<i, Raw(c, i)>>
    /\ \A i \in S : \E k \in 1 .. Cardinality(S) : s[k] = <<i, Raw(c, i)>>

LEMMA ChainFacts ==
    ASSUME NEW S, S \subseteq Nat, IsFiniteSet(S), NEW c
    PROVE  Lists(Chain(c, S), c, S)
  BY FromLargestFacts DEF Chain, Lists

\* Equal chains are chains over the same binders with the same types.
SameBindings(c, S, d, K) == S = K /\ \A i \in S : Raw(c, i) = Raw(d, i)

LEMMA ChainInjective ==
    ASSUME NEW S, S \subseteq Nat, IsFiniteSet(S), NEW c,
           NEW K, K \subseteq Nat, IsFiniteSet(K), NEW d,
           Chain(c, S) = Chain(d, K)
    PROVE  SameBindings(c, S, d, K)
<1>0. Lists(Chain(c, S), c, S) /\ Lists(Chain(d, K), d, K)
  BY ChainFacts
<1>1. 1 .. Cardinality(S) = 1 .. Cardinality(K)
  BY <1>0 DEF Lists
<1>2. ASSUME NEW i \in S
      PROVE  i \in K /\ Raw(c, i) = Raw(d, i)
  <2>1. PICK k \in 1 .. Cardinality(S) : Chain(c, S)[k] = <<i, Raw(c, i)>>
    BY <1>0 DEF Lists
  <2>2. PICK j \in K : Chain(d, K)[k] = <<j, Raw(d, j)>>
    BY <1>0, <1>1 DEF Lists
  <2>3. <<i, Raw(c, i)>> = <<j, Raw(d, j)>>
    BY <2>1, <2>2
  <2>4. i = j /\ Raw(c, i) = Raw(d, j)
    BY <2>3
  <2> QED BY <2>4
<1>3. ASSUME NEW j \in K
      PROVE  j \in S
  <2>1. PICK k \in 1 .. Cardinality(K) : Chain(d, K)[k] = <<j, Raw(d, j)>>
    BY <1>0 DEF Lists
  <2>2. PICK i \in S : Chain(c, S)[k] = <<i, Raw(c, i)>>
    BY <1>0, <1>1 DEF Lists
  <2>3. <<i, Raw(c, i)>> = <<j, Raw(d, j)>>
    BY <2>1, <2>2
  <2>4. i = j
    BY <2>3
  <2> QED BY <2>4
<1> QED BY <1>2, <1>3 DEF SameBindings

\* The chain over no binders is the id of the empty context.
LEMMA EmptyChain == \A c : Chain(c, {}) = Root
<1> SUFFICES ASSUME NEW c PROVE Chain(c, {}) = Root
  OBVIOUS
<1>1. Cardinality({}) = 0 /\ 1 .. 0 = {}
  BY FS_EmptySet
<1>2. Chain(c, {}) = [k \in 1 .. 0 |-> <<FromLargest({}, k), Raw(c, FromLargest({}, k))>>]
  BY <1>1 DEF Chain
<1>3. DOMAIN Chain(c, {}) = {} /\ DOMAIN <<>> = {}
  BY <1>1, <1>2
<1> QED BY <1>1, <1>2, <1>3 DEF Root

LEMMA WholeFacts ==
    ASSUME NEW c, c \in Seq(Types)
    PROVE  /\ DOMAIN WholeId(c) = 1 .. Len(c) /\ Len(c) \in Nat
           /\ \A n \in 1 .. Len(c) : WholeId(c)[n] = <<Whole, c[n]>>
<1>1. DOMAIN c = 1 .. Len(c) /\ Len(c) \in Nat
  OBVIOUS
<1> QED BY <1>1 DEF WholeId

\* Equal whole ids are ids of the same context, and only the empty one's is a
\* chain of bindings.
LEMMA WholeInjective ==
    ASSUME NEW c, c \in Seq(Types)
    PROVE  /\ \A d : d \in Seq(Types) /\ WholeId(c) = WholeId(d) => c = d
           /\ \A d, K : K \subseteq Nat /\ IsFiniteSet(K) /\ WholeId(c) = Chain(d, K) =>
                  c = <<>> /\ K = {}
<1>1. ASSUME NEW d, d \in Seq(Types), WholeId(c) = WholeId(d)
      PROVE  c = d
  <2>1. 1 .. Len(c) = 1 .. Len(d) /\ Len(c) \in Nat /\ Len(d) \in Nat
    BY <1>1, WholeFacts
  <2>2. Len(c) = Len(d)
    BY <2>1
  <2>3. ASSUME NEW n \in 1 .. Len(c)
        PROVE  c[n] = d[n]
    <3>1. WholeId(c)[n] = <<Whole, c[n]>> /\ WholeId(d)[n] = <<Whole, d[n]>>
      BY <1>1, <2>1, WholeFacts
    <3>2. <<Whole, c[n]>> = <<Whole, d[n]>>
      BY <1>1, <3>1
    <3> QED BY <3>2
  <2> QED BY <1>1, <2>2, <2>3
<1>2. ASSUME NEW d, NEW K, K \subseteq Nat, IsFiniteSet(K), WholeId(c) = Chain(d, K)
      PROVE  c = <<>> /\ K = {}
  <2>0. Lists(Chain(d, K), d, K)
    BY <1>2, ChainFacts
  <2>1. 1 .. Len(c) = 1 .. Cardinality(K) /\ Len(c) \in Nat
    BY <1>2, <2>0, WholeFacts DEF Lists
  <2>2. Len(c) = 0
    <3> SUFFICES ASSUME Len(c) # 0 PROVE FALSE
      OBVIOUS
    <3>1. 1 \in 1 .. Len(c)
      BY <2>1
    <3>2. WholeId(c)[1] = <<Whole, c[1]>>
      BY <3>1, WholeFacts
    <3>3. PICK i \in K : Chain(d, K)[1] = <<i, Raw(d, i)>>
      BY <2>0, <2>1, <3>1 DEF Lists
    <3>4. <<Whole, c[1]>> = <<i, Raw(d, i)>>
      BY <1>2, <3>2, <3>3
    <3>5. Whole = i
      BY <3>4
    <3>6. i >= 0 /\ Whole = -1
      BY <1>2 DEF Whole
    <3> QED BY <3>5, <3>6
  <2>3. K = {}
    <3> SUFFICES ASSUME NEW i \in K PROVE FALSE
      OBVIOUS
    <3>1. \E k \in 1 .. Cardinality(K) : Chain(d, K)[k] = <<i, Raw(d, i)>>
      BY <2>0 DEF Lists
    <3>2. 1 .. 0 = {}
      OBVIOUS
    <3> QED BY <2>1, <2>2, <3>1, <3>2
  <2> QED BY <2>2, <2>3
<1> QED BY <1>1, <1>2

-----------------------------------------------------------------------------
(* The two closures are the least closed sets, or say that they are not.   *)

LEMMA WidePasses ==
    ASSUME NEW c, NEW set, Len(c) \in Nat
    PROVE  \E upTo : /\ upTo[0] = set
                     /\ \A n \in 1 .. Len(c) : upTo[n] = WideStep(c, upTo[n - 1], n)
                     /\ CloseWide(c, set) = IF \E i \in set : i >= Len(c) THEN NoSet
                                            ELSE upTo[Len(c)]
<1> DEFINE Built(f, n) == IF n = 0 THEN set ELSE WideStep(c, f[n - 1], n)
           Solves(f, N) == f = [n \in 0 .. N |-> Built(f, n)]
           upTo == CHOOSE f : Solves(f, Len(c))
           T == { N \in Nat : \E f : Solves(f, N) }
<1>1. 0 \in T
  <2>1. Solves([n \in 0 .. 0 |-> set], 0)
    OBVIOUS
  <2> HIDE DEF Solves
  <2> QED BY <2>1
<1>2. ASSUME NEW N \in Nat, N \in T
      PROVE  N + 1 \in T
  <2>1. PICK f : Solves(f, N)
    BY <1>2
  <2> DEFINE g == [n \in 0 .. N + 1 |-> Built(f, n)]
  <2>2. \A n \in 0 .. N : g[n] = f[n]
    <3>1. \A n \in 0 .. N : f[n] = Built(f, n)
      <4> HIDE DEF Built
      <4> QED BY <2>1
    <3>2. \A n \in 0 .. N + 1 : g[n] = Built(f, n)
      <4> HIDE DEF Built
      <4> QED OBVIOUS
    <3> HIDE DEF Built, g
    <3> QED BY <3>1, <3>2
  <2>3. \A n \in 0 .. N + 1 : Built(g, n) = Built(f, n)
    <3>1. \A n \in 0 .. N + 1 : n # 0 => n - 1 \in 0 .. N
      OBVIOUS
    <3> HIDE DEF g
    <3> QED BY <2>2, <3>1
  <2>4. Solves(g, N + 1)
    <3> HIDE DEF Built
    <3> QED BY <2>3
  <2> HIDE DEF Solves, g
  <2> QED BY <2>4
<1>3. Solves(upTo, Len(c))
  <2>1. Len(c) \in T
    <3> HIDE DEF T
    <3> QED BY <1>1, <1>2, Induction
  <2>2. \E f : Solves(f, Len(c))
    BY <2>1
  <2> HIDE DEF Solves
  <2> QED BY <2>2
<1>4. CloseWide(c, set) = IF \E i \in set : i >= Len(c) THEN NoSet ELSE upTo[Len(c)]
  BY DEF CloseWide
<1> HIDE DEF upTo
<1>5. \A n \in 0 .. Len(c) : upTo[n] = Built(upTo, n)
  <2> HIDE DEF Built
  <2> QED BY <1>3
<1>6. upTo[0] = set
  BY <1>5
<1>7. \A n \in 1 .. Len(c) : upTo[n] = WideStep(c, upTo[n - 1], n)
  BY <1>5
<1> QED BY <1>4, <1>6, <1>7

LEMMA WordPasses ==
    ASSUME NEW c, NEW used
    PROVE  \E upTo : /\ upTo[0] = used
                     /\ \A n \in 1 .. WordBits : upTo[n] = WordStep(c, upTo[n - 1], n)
                     /\ CloseWord(c, used) = upTo[WordBits]
<1> DEFINE Built(f, n) == IF n = 0 THEN used ELSE WordStep(c, f[n - 1], n)
           Solves(f, N) == f = [n \in 0 .. N |-> Built(f, n)]
           upTo == CHOOSE f : Solves(f, WordBits)
           T == { N \in Nat : \E f : Solves(f, N) }
<1>1. 0 \in T
  <2>1. Solves([n \in 0 .. 0 |-> used], 0)
    OBVIOUS
  <2> HIDE DEF Solves
  <2> QED BY <2>1
<1>2. ASSUME NEW N \in Nat, N \in T
      PROVE  N + 1 \in T
  <2>1. PICK f : Solves(f, N)
    BY <1>2
  <2> DEFINE g == [n \in 0 .. N + 1 |-> Built(f, n)]
  <2>2. \A n \in 0 .. N : g[n] = f[n]
    <3>1. \A n \in 0 .. N : f[n] = Built(f, n)
      <4> HIDE DEF Built
      <4> QED BY <2>1
    <3>2. \A n \in 0 .. N + 1 : g[n] = Built(f, n)
      <4> HIDE DEF Built
      <4> QED OBVIOUS
    <3> HIDE DEF Built, g
    <3> QED BY <3>1, <3>2
  <2>3. \A n \in 0 .. N + 1 : Built(g, n) = Built(f, n)
    <3>1. \A n \in 0 .. N + 1 : n # 0 => n - 1 \in 0 .. N
      OBVIOUS
    <3> HIDE DEF g
    <3> QED BY <2>2, <3>1
  <2>4. Solves(g, N + 1)
    <3> HIDE DEF Built
    <3> QED BY <2>3
  <2> HIDE DEF Solves, g
  <2> QED BY <2>4
<1>3. Solves(upTo, WordBits)
  <2>1. WordBits \in T
    <3> HIDE DEF T
    <3> QED BY <1>1, <1>2, Induction, TermsAssumption DEF TermsAssumption
  <2>2. \E f : Solves(f, WordBits)
    BY <2>1
  <2> HIDE DEF Solves
  <2> QED BY <2>2
<1>4. CloseWord(c, used) = upTo[WordBits]
  BY DEF CloseWord
<1> HIDE DEF upTo
<1>5. \A n \in 0 .. WordBits : upTo[n] = Built(upTo, n)
  <2> HIDE DEF Built
  <2> QED BY <1>3
<1>6. upTo[0] = used
  BY <1>5, TermsAssumption DEF TermsAssumption
<1>7. \A n \in 1 .. WordBits : upTo[n] = WordStep(c, upTo[n - 1], n)
  BY <1>5, TermsAssumption DEF TermsAssumption
<1> QED BY <1>4, <1>6, <1>7

\* A stage of a closure: it has grown towards every closed set, and has what
\* the binders before n mention.
Growing(c, set, X, n) ==
    /\ X \in SUBSET Nat /\ set \subseteq X
    /\ \A K : Closes(c, set, K) => X \subseteq K
    /\ \A i \in X : i < n /\ i < Len(c) => Mentions(c)[i] \subseteq X

\* The lists are long enough for what set reaches.
ListsCover(c, set) ==
    /\ set \subseteq Scope(c)
    /\ Cardinality(Reach(c, set)) <= 2 * UsedSetCap
    /\ \A i \in Reach(c, set) : UsedSet(Raw(c, i)) # NoSet

LEMMA NoSets == /\ NoSet # TooWide
                /\ \A X \in SUBSET Nat : X # NoSet /\ X # TooWide
  BY DEF NoSet, TooWide

\* The step that adds what the type of the binder before n mentions.
LEMMA GrowingGrows ==
    ASSUME NEW c, Telescope(c), NEW set, NEW X, NEW n \in Nat \ {0},
           Growing(c, set, X, n - 1), n - 1 \in X => n - 1 \in Scope(c),
           NEW Y, Y = IF n - 1 \in X THEN X \cup {n + j : j \in Free(Raw(c, n - 1))} ELSE X
    PROVE  Growing(c, set, Y, n)
<1>1. /\ X \in SUBSET Nat /\ set \subseteq X
      /\ \A K : Closes(c, set, K) => X \subseteq K
      /\ \A i \in X : i < n - 1 /\ i < Len(c) => Mentions(c)[i] \subseteq X
  BY DEF Growing
<1>2. CASE n - 1 \notin X
  <2>1. Y = X
    BY <1>2
  <2>2. \A i \in X : i < n => i < n - 1
    BY <1>1, <1>2
  <2> QED BY <1>1, <2>1, <2>2 DEF Growing
<1>3. CASE n - 1 \in X
  <2> DEFINE M == Mentions(c)[n - 1]
  <2>1. n - 1 \in Scope(c) /\ (n - 1) + 1 = n
    BY <1>3
  <2>2. M = {n + j : j \in Free(Raw(c, n - 1))} /\ Free(Raw(c, n - 1)) \in SUBSET Nat
    BY <2>1, RawFacts
  <2>3. \A m \in M : m \in Nat /\ m >= n
    BY <2>2
  <2>4. Y = X \cup M
    BY <1>3, <2>2
  <2>5. ASSUME NEW K, Closes(c, set, K)
        PROVE  Y \subseteq K
    <3>1. X \subseteq K
      BY <1>1, <2>5
    <3>2. M \subseteq K
      BY <1>3, <2>5, <3>1 DEF Closes, Closed
    <3> QED BY <2>4, <3>1, <3>2
  <2> HIDE DEF M
  <2>6. ASSUME NEW i \in Y, i < n, i < Len(c)
        PROVE  Mentions(c)[i] \subseteq Y
    <3>1. i \in X
      BY <2>3, <2>4, <2>6
    <3>2. i = n - 1 \/ i < n - 1
      BY <1>1, <2>6, <3>1
    <3> QED BY <1>1, <2>4, <2>6, <3>1, <3>2 DEF M
  <2>7. Y \in SUBSET Nat /\ set \subseteq Y
    BY <1>1, <2>3, <2>4
  <2> QED BY <2>5, <2>6, <2>7 DEF Growing
<1> QED BY <1>2, <1>3

LEMMA CloseWideFacts ==
    ASSUME NEW c, Telescope(c), NEW set \in SUBSET Nat
    PROVE  /\ CloseWide(c, set) # NoSet =>
                  Closes(c, set, CloseWide(c, set)) /\ Reach(c, set) = CloseWide(c, set)
           /\ ListsCover(c, set) => CloseWide(c, set) # NoSet
<1>1. Len(c) \in Nat
  BY DEF Telescope
<1>2. PICK upTo : /\ upTo[0] = set
                  /\ \A n \in 1 .. Len(c) : upTo[n] = WideStep(c, upTo[n - 1], n)
                  /\ CloseWide(c, set) = IF \E i \in set : i >= Len(c) THEN NoSet
                                         ELSE upTo[Len(c)]
  BY <1>1, WidePasses
<1> DEFINE Good(n) == /\ upTo[n] = NoSet \/ Growing(c, set, upTo[n], n)
                      /\ ListsCover(c, set) => upTo[n] # NoSet
           T == { n \in Nat : n <= Len(c) => Good(n) }
<1>3. 0 \in T
  <2>1. Growing(c, set, set, 0)
    <3>1. \A i \in set : ~(i < 0)
      OBVIOUS
    <3> QED BY <3>1 DEF Growing, Closes
  <2> QED BY <1>2, <2>1, NoSets
<1>4. ASSUME NEW m \in Nat, m \in T
      PROVE  m + 1 \in T
  <2> SUFFICES ASSUME m + 1 <= Len(c) PROVE Good(m + 1)
    OBVIOUS
  <2> DEFINE n == m + 1
             X == upTo[m]
             Y == upTo[n]
             ty == Raw(c, m)
             next == X \cup {n + j : j \in UsedSet(ty)}
  <2>1. n \in 1 .. Len(c) /\ n - 1 = m /\ m \in Scope(c) /\ n \in Nat \ {0} /\ m <= Len(c)
    BY <1>1 DEF Scope
  <2>2. Good(m)
    BY <1>4, <2>1
  <2>3. Y = IF m \notin X \/ Loose(ty) = 0 THEN X
            ELSE IF n + Loose(ty) > Len(c) \/ UsedSet(ty) = NoSet THEN NoSet
            ELSE IF Cardinality(next) > 2 * UsedSetCap THEN NoSet
            ELSE next
    <3>1. Y = WideStep(c, X, n)
      BY <1>2, <2>1
    <3> QED BY <2>1, <3>1 DEF WideStep
  <2>4. /\ ty \in Tree /\ n + Loose(ty) <= Len(c) /\ Free(ty) \in SUBSET Nat /\ Loose(ty) \in Nat
        /\ Mentions(c)[m] = {n + j : j \in Free(ty)}
        /\ Loose(ty) = 0 => Free(ty) = {}
    <3>1. /\ ty \in Tree /\ n + Loose(ty) <= Len(c) /\ Free(ty) \in SUBSET Nat /\ Loose(ty) \in Nat
          /\ Mentions(c)[m] = {n + j : j \in Free(ty)}
      BY <2>1, RawFacts
    <3>2. Loose(ty) = 0 => \A j \in Free(ty) : j < 0
      BY <3>1, LooseBounds
    <3> QED BY <3>1, <3>2
  <2>5. UsedSet(ty) # NoSet => UsedSet(ty) = Free(ty)
    BY <2>4, UsedSetExact
  <2> HIDE DEF ty, next
  <2>6. CASE X = NoSet
    <3>1. m \notin X
      BY <2>6 DEF NoSet
    <3> QED BY <2>2, <2>3, <2>6, <3>1
  <2>7. CASE X # NoSet
    <3>1. Growing(c, set, X, n - 1) /\ X \in SUBSET Nat
      BY <2>1, <2>2, <2>7 DEF Growing
    <3>2. ASSUME Y # NoSet
          PROVE  Growing(c, set, Y, n)
      <4>1. Y = IF n - 1 \in X THEN X \cup {n + j : j \in Free(Raw(c, n - 1))} ELSE X
        <5>1. CASE m \notin X
          BY <2>1, <2>3, <5>1
        <5>2. CASE m \in X /\ Loose(ty) = 0
          BY <2>1, <2>3, <2>4, <5>2 DEF ty
        <5>3. CASE m \in X /\ Loose(ty) # 0
          <6>1. Y = next /\ UsedSet(ty) = Free(ty)
            BY <2>3, <2>5, <3>2, <5>3
          <6> QED BY <2>1, <5>3, <6>1 DEF ty, next
        <5> QED BY <5>1, <5>2, <5>3
      <4> HIDE DEF X, Y, n
      <4> QED BY <2>1, <3>1, <4>1, GrowingGrows
    <3>3. ASSUME ListsCover(c, set)
          PROVE  Y # NoSet
      <4> SUFFICES ASSUME m \in X, Loose(ty) # 0 PROVE Y # NoSet
        BY <2>3, <2>7
      <4>1. Closes(c, set, Reach(c, set))
        BY <3>3, ReachIsLeast DEF ListsCover
      <4>2. X \subseteq Reach(c, set)
        BY <3>1, <4>1 DEF Growing
      <4>3. UsedSet(ty) # NoSet /\ next = X \cup Mentions(c)[m]
        BY <2>4, <2>5, <3>3, <4>2 DEF ListsCover, ty, next
      <4>4. next \subseteq Reach(c, set) /\ Reach(c, set) \subseteq Scope(c)
        BY <4>1, <4>2, <4>3 DEF Closes, Closed
      <4>5. Cardinality(next) <= Cardinality(Reach(c, set)) /\ Cardinality(next) \in Nat
            /\ Cardinality(Reach(c, set)) \in Nat
        <5>1. IsFiniteSet(Scope(c))
          BY <1>1, FS_Interval DEF Scope
        <5>2. IsFiniteSet(Reach(c, set))
          BY <4>4, <5>1, FS_Subset
        <5>3. IsFiniteSet(next) /\ Cardinality(next) <= Cardinality(Reach(c, set))
          BY <4>4, <5>2, FS_Subset
        <5> QED BY <5>2, <5>3, FS_CardinalityType
      <4>6. ~(Cardinality(next) > 2 * UsedSetCap)
        BY <3>3, <4>5, TermsAssumption DEF ListsCover, TermsAssumption
      <4>7. ~(n + Loose(ty) > Len(c))
        BY <1>1, <2>1, <2>4
      <4>8. Y = next
        BY <2>3, <4>3, <4>6, <4>7
      <4>9. next \in SUBSET Nat
        BY <1>1, <4>4 DEF Scope
      <4> QED BY <4>8, <4>9, NoSets
    <3> QED BY <3>2, <3>3
  <2> QED BY <2>6, <2>7
<1>5. Good(Len(c))
  <2>1. Len(c) \in T
    <3> HIDE DEF T
    <3> QED BY <1>1, <1>3, <1>4, Induction
  <2> QED BY <1>1, <2>1
<1> DEFINE all == upTo[Len(c)]
<1>6. ASSUME CloseWide(c, set) # NoSet
      PROVE  Closes(c, set, CloseWide(c, set)) /\ Reach(c, set) = CloseWide(c, set)
  <2>1. CloseWide(c, set) = all /\ all # NoSet /\ \A i \in set : ~(i >= Len(c))
    BY <1>2, <1>6
  <2>2. Growing(c, set, all, Len(c))
    BY <1>5, <2>1
  <2> HIDE DEF all
  <2>3. all \subseteq Scope(c)
    <3>1. set \subseteq Scope(c)
      BY <1>1, <2>1 DEF Scope
    <3>2. Closes(c, set, Scope(c))
      BY <3>1, RawFacts DEF Closes, Closed
    <3> QED BY <2>2, <3>2 DEF Growing
  <2>4. Closes(c, set, all)
    <3>1. \A i \in all : i \in Nat /\ i < Len(c)
      BY <1>1, <2>3 DEF Scope
    <3> QED BY <2>2, <2>3, <3>1 DEF Growing, Closes, Closed
  <2> QED BY <2>1, <2>2, <2>4, ReachIsLeast DEF Growing
<1>7. ASSUME ListsCover(c, set)
      PROVE  CloseWide(c, set) # NoSet
  <2>1. all # NoSet /\ Growing(c, set, all, Len(c))
    BY <1>5, <1>7
  <2>2. \A i \in set : ~(i >= Len(c))
    BY <1>1, <1>7 DEF ListsCover, Scope
  <2> QED BY <1>2, <2>1, <2>2
<1> QED BY <1>6, <1>7

LEMMA CloseWordFacts ==
    ASSUME NEW c, Telescope(c), NEW used \in SUBSET UsedOverflow
    PROVE  LET closure == CloseWord(c, used) IN
           /\ closure \notin {NoSet, TooWide} => Closes(c, used, closure) /\ Reach(c, used) = closure
           /\ used \subseteq Scope(c) => closure # NoSet
<1>0. WordBits \in Nat \ {0} /\ Len(c) \in Nat
  BY TermsAssumption DEF TermsAssumption, Telescope
<1>1. PICK upTo : /\ upTo[0] = used
                  /\ \A n \in 1 .. WordBits : upTo[n] = WordStep(c, upTo[n - 1], n)
                  /\ CloseWord(c, used) = upTo[WordBits]
  BY WordPasses
<1> DEFINE Inside(X, n) == /\ Growing(c, used, X, n) /\ X \subseteq UsedOverflow
                           /\ \A i \in X : i < n => i < Len(c)
           Good(n) == /\ upTo[n] \in {NoSet, TooWide} \/ Inside(upTo[n], n)
                      /\ used \subseteq Scope(c) => upTo[n] # NoSet
           T == { n \in Nat : n <= WordBits => Good(n) }
<1>2. UsedOverflow \subseteq Nat /\ \A i \in UsedOverflow : i < WordBits
  BY <1>0 DEF UsedOverflow
<1>3. 0 \in T
  <2>1. \A i \in used : ~(i < 0)
    BY <1>2
  <2>2. Inside(used, 0)
    BY <1>2, <2>1 DEF Growing, Closes
  <2>3. used # NoSet
    BY <1>2, NoSets
  <2> HIDE DEF Inside
  <2> QED BY <1>1, <2>2, <2>3
<1>4. ASSUME NEW m \in Nat, m \in T
      PROVE  m + 1 \in T
  <2> SUFFICES ASSUME m + 1 <= WordBits PROVE Good(m + 1)
    OBVIOUS
  <2> DEFINE n == m + 1
             X == upTo[m]
             Y == upTo[n]
             ty == Raw(c, m)
  <2>1. n \in 1 .. WordBits /\ n - 1 = m /\ n \in Nat \ {0} /\ m <= WordBits
    BY <1>0
  <2>2. Good(m)
    BY <1>4, <2>1
  <2>3. Y = IF m \notin X THEN X
            ELSE IF n > Len(c) THEN NoSet
            ELSE IF Loose(ty) = 0 THEN X
            ELSE IF n + Loose(ty) > WordBits \/ Used(ty) \in {{}, UsedOverflow} THEN TooWide
            ELSE X \cup {n + j : j \in Used(ty)}
    <3>1. Y = WordStep(c, X, n)
      BY <1>1, <2>1
    <3> QED BY <2>1, <3>1 DEF WordStep
  <2>4. CASE X \in {NoSet, TooWide}
    <3>1. m \notin X
      BY <2>4 DEF NoSet, TooWide
    <3> QED BY <2>2, <2>3, <2>4, <3>1
  <2>5. CASE X \notin {NoSet, TooWide}
    <3>1. /\ Growing(c, used, X, n - 1) /\ X \subseteq UsedOverflow /\ X \in SUBSET Nat
          /\ \A i \in X : i < n - 1 => i < Len(c)
      BY <2>1, <2>2, <2>5 DEF Growing
    <3>2. ASSUME m \in X, n <= Len(c)
          PROVE  /\ m \in Scope(c) /\ ty \in Tree /\ Free(ty) \in SUBSET Nat /\ Loose(ty) \in Nat
                 /\ \A j \in Free(ty) : j < Loose(ty)
                 /\ Loose(ty) = 0 => Free(ty) = {}
                 /\ Used(ty) # UsedOverflow => Used(ty) = Free(ty)
      <4>1. m \in Scope(c)
        BY <1>0, <2>1, <3>2 DEF Scope
      <4>2. ty \in Tree /\ Free(ty) \in SUBSET Nat /\ Loose(ty) \in Nat
        BY <4>1, RawFacts
      <4> HIDE DEF ty
      <4>3. \A j \in Free(ty) : j < Loose(ty)
        BY <4>2, LooseBounds
      <4>4. Used(ty) # UsedOverflow => Used(ty) = Free(ty)
        BY <4>2, UsedExact
      <4> QED BY <4>1, <4>2, <4>3, <4>4
    <3> HIDE DEF ty
    <3>3. ASSUME Y \notin {NoSet, TooWide}
          PROVE  Inside(Y, n)
      <4>1. m \in X => n <= Len(c)
        BY <1>0, <2>1, <2>3, <3>3
      <4>2. /\ Y = IF n - 1 \in X THEN X \cup {n + j : j \in Free(Raw(c, n - 1))} ELSE X
            /\ Y \subseteq UsedOverflow
        <5>1. CASE m \notin X
          BY <2>1, <2>3, <3>1, <5>1
        <5>2. CASE m \in X /\ Loose(ty) = 0
          <6>1. Y = X /\ Free(ty) = {}
            BY <1>0, <2>1, <2>3, <3>2, <4>1, <5>2
          <6> QED BY <2>1, <3>1, <5>2, <6>1 DEF ty
        <5>3. CASE m \in X /\ Loose(ty) # 0
          <6>1. /\ ~(n + Loose(ty) > WordBits) /\ Used(ty) = Free(ty)
                /\ Y = X \cup {n + j : j \in Used(ty)}
            <7>1. ~(n > Len(c))
              BY <1>0, <2>1, <4>1, <5>3
            <7> HIDE DEF Y, X, n
            <7> QED BY <2>3, <3>2, <3>3, <4>1, <5>3, <7>1
          <6>2. \A j \in Free(ty) : n + j \in UsedOverflow
            <7> SUFFICES ASSUME NEW j \in Free(ty) PROVE n + j \in UsedOverflow
              OBVIOUS
            <7>1. j \in Nat /\ j < Loose(ty) /\ Loose(ty) \in Nat
              BY <3>2, <4>1, <5>3
            <7> QED BY <1>0, <2>1, <6>1, <7>1 DEF UsedOverflow
          <6> QED BY <2>1, <3>1, <5>3, <6>1, <6>2 DEF ty
        <5> QED BY <5>1, <5>2, <5>3
      <4>3. n - 1 \in X => n - 1 \in Scope(c)
        BY <2>1, <3>2, <4>1
      <4>4. Growing(c, used, Y, n)
        <5> HIDE DEF X, Y, n
        <5> QED BY <2>1, <3>1, <4>2, <4>3, GrowingGrows
      <4>5. ASSUME NEW i \in Y, i < n
            PROVE  i < Len(c)
        <5>1. i \in X
          <6>1. CASE n - 1 \in X
            <7>1. Free(Raw(c, n - 1)) \in SUBSET Nat
              BY <4>3, <6>1, RawFacts
            <7>2. \A j \in Free(Raw(c, n - 1)) : ~(n + j < n)
              BY <2>1, <7>1
            <7>3. Y = X \cup {n + j : j \in Free(Raw(c, n - 1))}
              BY <4>2, <6>1
            <7> HIDE DEF X, Y, n
            <7> QED BY <4>5, <7>2, <7>3
          <6>2. CASE n - 1 \notin X
            BY <4>2, <4>5, <6>2
          <6> QED BY <6>1, <6>2
        <5>2. i \in Nat /\ (i < n - 1 \/ i = n - 1)
          BY <2>1, <3>1, <4>5, <5>1
        <5>3. CASE i < n - 1
          BY <3>1, <5>1, <5>3
        <5>4. CASE i = n - 1
          BY <1>0, <4>3, <5>1, <5>4 DEF Scope
        <5> QED BY <5>2, <5>3, <5>4
      <4> HIDE DEF X, Y, n
      <4> QED BY <4>2, <4>4, <4>5
    <3>4. ASSUME used \subseteq Scope(c)
          PROVE  Y # NoSet
      <4>1. Closes(c, used, Reach(c, used))
        BY <3>4, ReachIsLeast
      <4>2. X \subseteq Scope(c)
        BY <3>1, <4>1 DEF Growing, Closes
      <4>3. m \in X => n <= Len(c)
        BY <1>0, <2>1, <4>2 DEF Scope
      <4>4. m \in X /\ Loose(ty) # 0 /\ Used(ty) # UsedOverflow =>
                {n + j : j \in Used(ty)} \subseteq Nat
        <5> SUFFICES ASSUME m \in X, Loose(ty) # 0, Used(ty) # UsedOverflow
                     PROVE  {n + j : j \in Used(ty)} \subseteq Nat
          OBVIOUS
        <5>1. Used(ty) = Free(ty) /\ Free(ty) \in SUBSET Nat
          BY <3>2, <4>3
        <5> QED BY <2>1, <5>1
      <4>5. \/ Y = X \/ Y = TooWide
            \/ Y \in SUBSET Nat
        <5>1. m \in X => ~(n > Len(c))
          BY <1>0, <2>1, <4>3
        <5> HIDE DEF X, Y, n
        <5> QED BY <2>3, <3>1, <4>4, <5>1
      <4> HIDE DEF X, Y, n
      <4> QED BY <2>5, <4>5, NoSets
    <3> HIDE DEF Inside
    <3> QED BY <3>3, <3>4
  <2> QED BY <2>4, <2>5
<1>5. Good(WordBits)
  <2>1. WordBits \in T
    <3> HIDE DEF T
    <3> QED BY <1>0, <1>3, <1>4, Induction
  <2> QED BY <1>0, <2>1
<1> DEFINE closure == CloseWord(c, used)
<1>6. ASSUME closure \notin {NoSet, TooWide}
      PROVE  Closes(c, used, closure) /\ Reach(c, used) = closure
  <2>1. Inside(closure, WordBits)
    BY <1>1, <1>5, <1>6
  <2> HIDE DEF closure
  <2>2. \A i \in closure : i \in Nat /\ i < WordBits /\ i < Len(c) /\ i \in Scope(c)
    BY <1>0, <1>2, <2>1 DEF Scope
  <2>3. Closes(c, used, closure)
    BY <2>1, <2>2 DEF Growing, Closes, Closed
  <2> QED BY <2>1, <2>3, ReachIsLeast DEF Growing
<1>7. used \subseteq Scope(c) => closure # NoSet
  BY <1>1, <1>5
<1> QED BY <1>6, <1>7

-----------------------------------------------------------------------------
(* What a key says about the context it was made in.                       *)

\* The key names the whole context, or the types of a closed set with S.
Stands(c, S, key) ==
    \/ key = WholeId(c)
    \/ \E K : Closes(c, S, K) /\ key = Chain(c, K)

LEMMA ScopeFinite ==
    ASSUME NEW c, Len(c) \in Nat, NEW K, K \subseteq Scope(c)
    PROVE  K \subseteq Nat /\ IsFiniteSet(K)
<1>1. IsFiniteSet(0 .. (Len(c) - 1))
  BY FS_Interval
<1>2. K \in SUBSET (0 .. (Len(c) - 1)) /\ K \subseteq Nat
  BY DEF Scope
<1> QED BY <1>1, <1>2, FS_Subset

LEMMA WideKeyStands ==
    ASSUME NEW c, Telescope(c), NEW set \in SUBSET Nat, NEW loose
    PROVE  /\ Stands(c, set, WideKey(c, set, loose))
           /\ ~(loose > Len(c)) /\ ListsCover(c, set) => WideKey(c, set, loose) = Chain(c, Reach(c, set))
  BY CloseWideFacts DEF WideKey, Stands

LEMMA WordKeyStands ==
    ASSUME NEW c, Telescope(c), NEW used \in SUBSET UsedOverflow, NEW loose,
           loose = 0 => used = {}
    PROVE  /\ Stands(c, used, WordKey(c, used, loose))
           /\ ~(loose > Len(c)) /\ ListsCover(c, used) /\ loose # 0 /\ used \notin {{}, UsedOverflow} =>
                  WordKey(c, used, loose) = Chain(c, Reach(c, used))
<1>1. used \in SUBSET Nat
  BY TermsAssumption DEF TermsAssumption, UsedOverflow
<1>2. CASE loose = 0
  <2>1. WordKey(c, used, loose) = Chain(c, {}) /\ used = {}
    BY <1>2, EmptyChain DEF WordKey
  <2>2. Closes(c, {}, {})
    BY DEF Closes, Closed
  <2> QED BY <1>2, <2>1, <2>2 DEF Stands
<1>3. CASE loose # 0
  BY <1>1, <1>3, CloseWordFacts, WideKeyStands DEF WordKey, Stands, ListsCover
<1> QED BY <1>2, <1>3

\* The binders terms mention that fit in a context are in scope.
LEMMA FreeInScope ==
    ASSUME NEW c, Len(c) \in Nat, NEW t \in Tree, InScope(c, t)
    PROVE  /\ Free(t) \in SUBSET Nat /\ Free(t) \subseteq Scope(c) /\ Loose(t) \in Nat
           /\ Loose(t) = 0 <=> Free(t) = {}
<1>1. Free(t) \in SUBSET Nat /\ Loose(t) \in Nat
  BY FreeFacts, LooseFacts
<1>2. \A j \in Free(t) : j < Len(c)
  BY LooseBounds DEF InScope
<1>3. Loose(t) <= 0 <=> \A j \in Free(t) : j < 0
  BY LooseBounds
<1>4. Loose(t) = 0 <=> Free(t) = {}
  BY <1>1, <1>3
<1> QED BY <1>1, <1>2, <1>4 DEF Scope

\* What the terms of ts mention.
FreeIn(ts) == UNION {Free(t) : t \in ts}

LEMMA FreeOfOne == \A t : FreeIn({t}) = Free(t)
  BY DEF FreeIn

LEMMA FreeOfTwo == \A a, b : FreeIn({a, b}) = Free(a) \cup Free(b)
  BY DEF FreeIn

LEMMA DepsAre ==
    \A c, ts : Deps(c, ts) = [i \in Reach(c, FreeIn(ts)) |-> LocalTy(c, i)]
  BY DEF Deps, FreeIn

LEMMA TermKeyStands ==
    ASSUME NEW c, Telescope(c), NEW t \in Tree, InScope(c, t)
    PROVE  /\ Stands(c, Free(t), TermKey(c, t))
           /\ ListsCover(c, Free(t)) /\ UsedSet(t) # NoSet => TermKey(c, t) = Chain(c, Reach(c, Free(t)))
<1>0. Len(c) \in Nat
  BY DEF Telescope
<1>1. /\ Free(t) \in SUBSET Nat /\ Free(t) \subseteq Scope(c) /\ Loose(t) \in Nat
      /\ Loose(t) = 0 <=> Free(t) = {}
  BY <1>0, FreeInScope
<1>2. ~(Loose(t) > Len(c))
  BY <1>0, <1>1 DEF InScope
<1>3. CASE Loose(t) = 0
  <2>1. TermKey(c, t) = Chain(c, {}) /\ Free(t) = {}
    BY <1>1, <1>3, EmptyChain DEF TermKey
  <2>2. Closes(c, {}, {})
    BY DEF Closes, Closed
  <2>3. Reach(c, {}) = {}
    BY <2>2, ReachIsLeast
  <2> QED BY <2>1, <2>2, <2>3 DEF Stands
<1>4. CASE Loose(t) # 0 /\ Used(t) # UsedOverflow
  <2>1. Used(t) = Free(t) /\ Used(t) \in SUBSET UsedOverflow
    BY <1>4, UsedExact
  <2>2. TermKey(c, t) = WordKey(c, Free(t), Loose(t)) /\ Free(t) \notin {{}, UsedOverflow}
    BY <1>1, <1>4, <2>1 DEF TermKey
  <2> QED BY <1>2, <1>4, <2>1, <2>2, WordKeyStands
<1>5. CASE Loose(t) # 0 /\ Used(t) = UsedOverflow /\ UsedSet(t) = NoSet
  <2>1. TermKey(c, t) = WholeId(c)
    BY <1>5 DEF TermKey
  <2> QED BY <1>5, <2>1 DEF Stands
<1>6. CASE Loose(t) # 0 /\ Used(t) = UsedOverflow /\ UsedSet(t) # NoSet
  <2>1. TermKey(c, t) = WideKey(c, Free(t), Loose(t))
    BY <1>6, UsedSetExact DEF TermKey
  <2> QED BY <1>1, <1>2, <2>1, WideKeyStands
<1> QED BY <1>3, <1>4, <1>5, <1>6

LEMMA PairKeyStands ==
    ASSUME NEW c, Telescope(c), NEW a \in Tree, NEW b \in Tree, InScope(c, a), InScope(c, b)
    PROVE  Stands(c, Free(a) \cup Free(b), PairKey(c, a, b))
<1> DEFINE S == Free(a) \cup Free(b)
           loose == Larger(Loose(a), Loose(b))
<1>0. Len(c) \in Nat
  BY DEF Telescope
<1>1. /\ S \in SUBSET Nat /\ S \subseteq Scope(c) /\ Loose(a) \in Nat /\ Loose(b) \in Nat
      /\ Loose(a) = 0 <=> Free(a) = {}
      /\ Loose(b) = 0 <=> Free(b) = {}
  BY <1>0, FreeInScope
<1>2. loose = 0 => S = {}
  BY <1>1 DEF Larger
<1>3. PairKey(c, a, b) =
        IF loose = 0 THEN Root
        ELSE IF UsedOverflow \notin {Used(a), Used(b)} THEN WordKey(c, Used(a) \cup Used(b), loose)
        ELSE IF NoSet \in {UsedSet(a), UsedSet(b)} THEN WholeId(c)
        ELSE WideKey(c, UsedSet(a) \cup UsedSet(b), loose)
  BY DEF PairKey
<1> HIDE DEF loose
<1>4. CASE loose = 0
  <2>1. Closes(c, {}, {})
    BY DEF Closes, Closed
  <2>2. PairKey(c, a, b) = Chain(c, {}) /\ S = {}
    BY <1>2, <1>3, <1>4, EmptyChain
  <2> QED BY <2>1, <2>2 DEF Stands
<1>5. CASE loose # 0 /\ UsedOverflow \notin {Used(a), Used(b)}
  <2>1. Used(a) \cup Used(b) = S /\ S \in SUBSET UsedOverflow
    BY <1>5, UsedExact
  <2>2. PairKey(c, a, b) = WordKey(c, S, loose)
    BY <1>3, <1>5, <2>1
  <2> HIDE DEF S
  <2>3. Stands(c, S, WordKey(c, S, loose))
    BY <1>5, <2>1, WordKeyStands
  <2> QED BY <2>2, <2>3 DEF S
<1>6. CASE loose # 0 /\ UsedOverflow \in {Used(a), Used(b)} /\ NoSet \in {UsedSet(a), UsedSet(b)}
  <2>1. PairKey(c, a, b) = WholeId(c)
    BY <1>3, <1>6
  <2> QED BY <2>1 DEF Stands
<1>7. CASE loose # 0 /\ UsedOverflow \in {Used(a), Used(b)} /\ NoSet \notin {UsedSet(a), UsedSet(b)}
  <2>1. UsedSet(a) \cup UsedSet(b) = S
    BY <1>7, UsedSetExact
  <2>2. PairKey(c, a, b) = WideKey(c, S, loose)
    BY <1>3, <1>7, <2>1
  <2> HIDE DEF S
  <2>3. Stands(c, S, WideKey(c, S, loose))
    BY <1>1, WideKeyStands
  <2> QED BY <2>2, <2>3 DEF S
<1> QED BY <1>4, <1>5, <1>6, <1>7

\* Where two keys that stand for their contexts are equal, what the terms
\* depend on is the same.
LEMMA EqualKeysSameDeps ==
    ASSUME NEW c, Telescope(c), NEW d, Telescope(d), NEW ts, NEW key,
           FreeIn(ts) \subseteq Scope(c), FreeIn(ts) \subseteq Scope(d),
           Stands(c, FreeIn(ts), key), Stands(d, FreeIn(ts), key)
    PROVE  Deps(c, ts) = Deps(d, ts)
<1> DEFINE S == FreeIn(ts)
<1>0. c \in Seq(Types) /\ Len(c) \in Nat /\ d \in Seq(Types) /\ Len(d) \in Nat
  BY DEF Telescope
<1>1. \A f, K : Closes(f, S, K) => K \subseteq Scope(f)
  BY DEF Closes
<1>2. ASSUME NEW K, Closes(c, S, K), NEW L, Closes(d, S, L), Chain(c, K) = Chain(d, L)
      PROVE  Deps(c, ts) = Deps(d, ts)
  <2>1. K \subseteq Nat /\ IsFiniteSet(K) /\ L \subseteq Nat /\ IsFiniteSet(L)
    BY <1>0, <1>1, <1>2, ScopeFinite
  <2>2. K = L /\ \A i \in K : Raw(c, i) = Raw(d, i)
    <3>1. SameBindings(c, K, d, L)
      BY <1>2, <2>1, ChainInjective
    <3> QED BY <3>1 DEF SameBindings
  <2>3. K \subseteq Scope(d)
    BY <1>1, <1>2, <2>2
  <2>4. Reach(c, S) = Reach(d, S) /\ \A i \in Reach(c, S) : LocalTy(c, i) = LocalTy(d, i)
    BY <1>2, <2>2, <2>3, SameReach
  <2> QED BY <2>4, DepsAre
<1>3. ASSUME NEW f, Telescope(f), NEW h, Telescope(h), S \subseteq Scope(f),
             NEW K, Closes(h, S, K), WholeId(f) = Chain(h, K)
      PROVE  Deps(f, ts) = Deps(h, ts)
  <2>1. f \in Seq(Types) /\ Len(h) \in Nat
    BY <1>3 DEF Telescope
  <2>2. K \subseteq Nat /\ IsFiniteSet(K)
    BY <1>1, <1>3, <2>1, ScopeFinite
  <2>3. f = <<>> /\ K = {}
    BY <1>3, <2>1, <2>2, WholeInjective
  <2>4. S = {} /\ Closes(f, S, {}) /\ Closes(h, S, {})
    BY <1>3, <2>3 DEF Closes, Closed
  <2>5. Reach(f, S) = {} /\ Reach(h, S) = {}
    BY <2>4, ReachIsLeast
  <2> QED BY <2>5, DepsAre
<1>4. CASE key = WholeId(c) /\ key = WholeId(d)
  <2>1. c = d
    BY <1>0, <1>4, WholeInjective
  <2> QED BY <2>1
<1>5. CASE key = WholeId(c) /\ \E L : Closes(d, S, L) /\ key = Chain(d, L)
  <2> HIDE DEF S
  <2> QED BY <1>3, <1>5 DEF S
<1>6. CASE key = WholeId(d) /\ \E K : Closes(c, S, K) /\ key = Chain(c, K)
  <2> HIDE DEF S
  <2> QED BY <1>3, <1>6 DEF S
<1>7. CASE (\E K : Closes(c, S, K) /\ key = Chain(c, K)) /\ \E L : Closes(d, S, L) /\ key = Chain(d, L)
  <2> HIDE DEF S
  <2> QED BY <1>2, <1>7
<1> QED BY <1>4, <1>5, <1>6, <1>7 DEF Stands

\* Where a term depends on the same and the lists are long enough, the keys are
\* equal.
LEMMA SameDepsEqualKeys ==
    ASSUME NEW c, Telescope(c), NEW d, Telescope(d), NEW t \in Tree,
           InScope(c, t), InScope(d, t), Deps(c, {t}) = Deps(d, {t}), ListsSuffice(c, t)
    PROVE  TermKey(c, t) = TermKey(d, t)
<1> DEFINE S == Free(t)
           R == Reach(c, S)
<1>0. Len(c) \in Nat /\ Len(d) \in Nat /\ S \subseteq Scope(c) /\ S \subseteq Scope(d)
  BY FreeInScope DEF Telescope
<1>1. /\ Deps(c, {t}) = [i \in R |-> LocalTy(c, i)]
      /\ Deps(d, {t}) = [i \in Reach(d, S) |-> LocalTy(d, i)]
  BY DepsAre, FreeOfOne
<1>2. DOMAIN Deps(c, {t}) = R /\ R = Reach(d, S) /\ \A i \in R : LocalTy(c, i) = LocalTy(d, i)
  <2>1. DOMAIN Deps(c, {t}) = R /\ DOMAIN Deps(d, {t}) = Reach(d, S)
    BY <1>1
  <2>2. \A i \in R : Deps(c, {t})[i] = LocalTy(c, i)
    BY <1>1
  <2>3. \A i \in Reach(d, S) : Deps(d, {t})[i] = LocalTy(d, i)
    BY <1>1
  <2> HIDE DEF R, S
  <2> QED BY <2>1, <2>2, <2>3
<1>3. R \subseteq Scope(c) /\ R \subseteq Scope(d)
  BY <1>0, <1>2, ReachIsLeast DEF Closes
<1>4. ASSUME NEW i \in R
      PROVE  Raw(c, i) = Raw(d, i)
  <2>1. Raw(c, i) \in Tree /\ Raw(d, i) \in Tree /\ i + 1 \in Nat
    BY <1>3, RawFacts
  <2>2. Shift(Raw(c, i), i + 1, 0) = Shift(Raw(d, i), i + 1, 0)
    BY <1>2 DEF LocalTy
  <2> QED BY <2>1, <2>2, ShiftInjective
<1>5. ListsCover(c, S) /\ ListsCover(d, S) /\ UsedSet(t) # NoSet
  BY <1>0, <1>2, <1>4 DEF ListsSuffice, ListsCover
<1>6. TermKey(c, t) = Chain(c, R) /\ TermKey(d, t) = Chain(d, R)
  BY <1>2, <1>5, TermKeyStands
<1>7. IsFiniteSet(R) /\ R \subseteq Nat
  BY <1>0, <1>3, ScopeFinite
<1> HIDE DEF R
<1>8. \A k \in 1 .. Cardinality(R) : FromLargest(R, k) \in R
  BY <1>7, FromLargestFacts
<1>9. Chain(c, R) = Chain(d, R)
  BY <1>4, <1>8 DEF Chain
<1> QED BY <1>6, <1>9

-----------------------------------------------------------------------------
(* The ids of a context and of its innermost binders.                      *)

Ids == Seq({Whole} \X Types)
Inner(c, k) == SubSeq(c, Len(c) - k + 1, Len(c))

LEMMA InnerFacts ==
    ASSUME NEW c, c \in Seq(Types)
    PROVE  /\ \A k \in 0 .. Len(c) :
                 /\ Inner(c, k) \in Seq(Types) /\ Len(Inner(c, k)) = k
                 /\ \A n \in 1 .. k : Inner(c, k)[n] = c[(Len(c) - k) + n]
           /\ Inner(c, 0) = <<>> /\ Inner(c, Len(c)) = c
<1>1. Len(c) \in Nat /\ \A n \in 1 .. Len(c) : c[n] \in Types
  <2>1. Len(c) \in Nat
    OBVIOUS
  <2> QED BY <2>1, ElementOfSeq
<1>2. ASSUME NEW k \in 0 .. Len(c)
      PROVE  /\ Inner(c, k) \in Seq(Types) /\ Len(Inner(c, k)) = k
             /\ \A n \in 1 .. k : Inner(c, k)[n] = c[(Len(c) - k) + n]
  <2> DEFINE m == Len(c) - k + 1
             s == SubSeq(c, m, Len(c))
  <2>1. m \in Int /\ Len(c) \in Int /\ \A i \in m .. Len(c) : c[i] \in Types
    BY <1>1
  <2>2. /\ m <= Len(c) <=> k # 0
        /\ Len(c) - m + 1 = k
        /\ \A n \in 1 .. k : m + n - 1 = (Len(c) - k) + n
    BY <1>1
  <2>3. Inner(c, k) = s
    BY DEF Inner
  <2> HIDE DEF m
  <2>4. /\ s \in Seq(Types) /\ Len(s) = IF m <= Len(c) THEN Len(c) - m + 1 ELSE 0
        /\ \A n \in 1 .. (Len(c) - m + 1) : s[n] = c[m + n - 1]
    BY <2>1, SubSeqProperties
  <2> HIDE DEF s
  <2>5. Len(s) = k
    BY <2>2, <2>4
  <2> QED BY <2>2, <2>3, <2>4, <2>5
<1>3. Inner(c, 0) = <<>>
  BY <1>1, <1>2, EmptySeq
<1>4. Inner(c, Len(c)) = c
  <2>1. Len(c) - Len(c) + 1 = 1
    BY <1>1
  <2> QED BY <2>1, SubSeqFull DEF Inner
<1> QED BY <1>2, <1>3, <1>4

\* One more binder: the innermost ones grow by it.
LEMMA InnerAppend ==
    ASSUME NEW c, c \in Seq(Types), NEW ty \in Types, NEW k \in 0 .. Len(c)
    PROVE  Inner(Append(c, ty), k + 1) = Append(Inner(c, k), ty)
<1> DEFINE d == Append(c, ty)
           l == Inner(d, k + 1)
           r == Append(Inner(c, k), ty)
<1>1. /\ d \in Seq(Types) /\ Len(d) = Len(c) + 1 /\ Len(c) \in Nat
      /\ (\A n \in 1 .. Len(c) : d[n] = c[n]) /\ d[Len(c) + 1] = ty
  BY AppendProperties, LenProperties
<1> HIDE DEF d
<1>2. k + 1 \in 0 .. Len(d)
  BY <1>1
<1>3. l \in Seq(Types) /\ Len(l) = k + 1 /\ \A n \in 1 .. k + 1 : l[n] = d[(Len(d) - (k + 1)) + n]
  BY <1>1, <1>2, InnerFacts
<1>4. /\ Inner(c, k) \in Seq(Types) /\ Len(Inner(c, k)) = k
      /\ \A n \in 1 .. k : Inner(c, k)[n] = c[(Len(c) - k) + n]
  BY InnerFacts
<1>5. /\ r \in Seq(Types) /\ Len(r) = k + 1
      /\ (\A n \in 1 .. k : r[n] = Inner(c, k)[n]) /\ r[k + 1] = ty
  BY <1>4, AppendProperties
<1> HIDE DEF l, r
<1>6. ASSUME NEW n \in 1 .. k + 1
      PROVE  l[n] = r[n]
  <2>1. l[n] = d[(Len(c) - k) + n]
    <3>1. (Len(d) - (k + 1)) + n = (Len(c) - k) + n
      BY <1>1
    <3> QED BY <1>3, <3>1
  <2>2. CASE n = k + 1
    <3>1. (Len(c) - k) + n = Len(c) + 1
      BY <1>1, <2>2
    <3> QED BY <1>1, <1>5, <2>1, <2>2, <3>1
  <2>3. CASE n # k + 1
    <3>1. n \in 1 .. k /\ (Len(c) - k) + n \in 1 .. Len(c)
      BY <1>1, <2>3
    <3> QED BY <1>1, <1>4, <1>5, <2>1, <3>1
  <2> QED BY <2>2, <2>3
<1>7. l = r
  <2>1. \A n \in 1 .. Len(l) : l[n] = r[n]
    BY <1>3, <1>6
  <2>2. Len(l) = Len(r)
    BY <1>3, <1>5
  <2> QED BY <1>3, <1>5, <2>1, <2>2, SeqEqual
<1> QED BY <1>7 DEF l, r, d

\* The id of a longer context is the id of the shorter one, extended.
LEMMA WholeAppend ==
    ASSUME NEW c, c \in Seq(Types), NEW ty \in Types
    PROVE  /\ WholeId(c) \in Ids
           /\ CtxId(WholeId(c), ty) \in Ids /\ CtxId(WholeId(c), ty) = WholeId(Append(c, ty))
<1> DEFINE d == Append(c, ty)
           w == WholeId(c)
           v == WholeId(d)
           a == Append(w, <<Whole, ty>>)
<1>1. /\ d \in Seq(Types) /\ Len(d) = Len(c) + 1 /\ Len(c) \in Nat
      /\ (\A n \in 1 .. Len(c) : d[n] = c[n]) /\ d[Len(c) + 1] = ty
  BY AppendProperties, LenProperties
<1> HIDE DEF d
<1>2. ASSUME NEW f, f \in Seq(Types)
      PROVE  /\ WholeId(f) \in Ids /\ Len(WholeId(f)) = Len(f)
             /\ \A n \in 1 .. Len(f) : WholeId(f)[n] = <<Whole, f[n]>>
  <2>1. Len(f) \in Nat /\ DOMAIN f = 1 .. Len(f) /\ \A n \in 1 .. Len(f) : f[n] \in Types
    <3>1. Len(f) \in Nat /\ DOMAIN f = 1 .. Len(f)
      BY <1>2, LenProperties
    <3> QED BY <1>2, <3>1, ElementOfSeq
  <2>2. WholeId(f) = [n \in 1 .. Len(f) |-> <<Whole, f[n]>>]
    BY <2>1 DEF WholeId
  <2>3. WholeId(f) \in [1 .. Len(f) -> {Whole} \X Types]
    BY <2>1, <2>2
  <2>4. WholeId(f) \in Ids
    BY <2>1, <2>3, SeqDef DEF Ids
  <2>5. Len(WholeId(f)) = Len(f)
    BY <2>1, <2>3
  <2> QED BY <2>2, <2>4, <2>5
<1>3. /\ w \in Ids /\ Len(w) = Len(c) /\ \A n \in 1 .. Len(c) : w[n] = <<Whole, c[n]>>
  BY <1>2
<1>4. /\ v \in Ids /\ Len(v) = Len(c) + 1 /\ \A n \in 1 .. Len(c) + 1 : v[n] = <<Whole, d[n]>>
  BY <1>1, <1>2
<1> HIDE DEF w, v
<1>5. /\ a \in Ids /\ Len(a) = Len(c) + 1 /\ (\A n \in 1 .. Len(c) : a[n] = w[n])
      /\ a[Len(c) + 1] = <<Whole, ty>>
  <2>1. <<Whole, ty>> \in {Whole} \X Types
    OBVIOUS
  <2> QED BY <1>3, <2>1, AppendProperties DEF Ids
<1> HIDE DEF a
<1>6. ASSUME NEW n \in 1 .. Len(c) + 1
      PROVE  a[n] = v[n]
  <2>1. CASE n = Len(c) + 1
    BY <1>1, <1>4, <1>5, <2>1
  <2>2. CASE n # Len(c) + 1
    <3>1. n \in 1 .. Len(c)
      BY <1>1, <2>2
    <3>2. v[n] = <<Whole, c[n]>> /\ a[n] = <<Whole, c[n]>>
      BY <1>1, <1>3, <1>4, <1>5, <3>1
    <3> QED BY <3>2
  <2> QED BY <2>1, <2>2
<1>7. a = v
  <2>1. Len(a) = Len(v) /\ \A n \in 1 .. Len(a) : a[n] = v[n]
    BY <1>4, <1>5, <1>6
  <2> QED BY <1>4, <1>5, <2>1, SeqEqual DEF Ids
<1>8. CtxId(WholeId(c), ty) = a
  BY DEF CtxId, BindingId, a, w
<1> QED BY <1>3, <1>5, <1>7, <1>8 DEF w, v, d

LEMMA EmptyWhole == WholeId(<<>>) = Root /\ Root \in Ids
<1>1. <<>> \in Seq(Types)
  OBVIOUS
<1>2. DOMAIN WholeId(<<>>) = {} /\ WholeId(<<>>) \in Ids
  BY <1>1, WholeFacts DEF WholeId, Ids
<1> QED BY <1>2 DEF Root, Ids

-----------------------------------------------------------------------------
(* The machine.  The id of a context and the ids of its innermost binders  *)
(* are those of the contexts they stand for, and every entry of the table  *)
(* was made in some context under the key that context gave it.            *)

Holds(m, ts, key, c) == m = [terms |-> ts, key |-> key, deps |-> Deps(c, ts)]

MadeForTerm(c, m, t) ==
    t \in Queries /\ InScope(c, t) /\ Holds(m, {t}, TermKey(c, t), c)

MadeForPair(c, m, a, b) ==
    /\ a \in Queries /\ b \in Queries /\ a # b
    /\ InScope(c, a) /\ InScope(c, b) /\ Holds(m, {a, b}, PairKey(c, a, b), c)

Made(c, m) == (\E t : MadeForTerm(c, m, t)) \/ (\E a, b : MadeForPair(c, m, a, b))

IdsOf(c, whole, ids) ==
    /\ whole = WholeId(c) /\ Len(ids) = Len(c) + 1
    /\ \A k \in 0 .. Len(c) : ids[k + 1] = WholeId(Inner(c, k))

KeyInv ==
    /\ Telescope(tys)
    /\ IdsOf(tys, id, suffix)
    /\ \A m \in memo : \E c : Telescope(c) /\ Made(c, m)

LEMMA QueriesAreTerms == Queries \subseteq Tree
  BY ContextAssumption, TermsAreTerms, TermsAssumption DEF TermsAssumption

LEMMA EmptyTelescope == Telescope(<<>>) /\ IdsOf(<<>>, Root, <<Root>>)
<1>1. <<>> \in Seq(Types) /\ Len(<<>>) = 0
  OBVIOUS
<1>2. Telescope(<<>>)
  BY <1>1 DEF Telescope
<1>3. Inner(<<>>, 0) = <<>>
  BY <1>1, InnerFacts
<1>4. Len(<<Root>>) = 1 /\ <<Root>>[1] = Root
  OBVIOUS
<1> QED BY <1>1, <1>2, <1>3, <1>4, EmptyWhole DEF IdsOf

\* Ctx::push gives the ids of the longer context.
LEMMA PushedIds ==
    ASSUME NEW ty \in Types, tys \in Seq(Types), IdsOf(tys, id, suffix)
    PROVE  IdsOf(Append(tys, ty), CtxId(id, ty), PushedSuffix(ty))
<1> DEFINE d == Append(tys, ty)
           len == Len(tys)
           mid == IF len = 0 THEN 0 ELSE len - 1
           A == <<Root, CtxId(Root, ty)>>
           B == [k \in 1 .. (len - 1) |-> CtxId(suffix[k + 1], ty)]
           C == IF tys = <<>> THEN <<>> ELSE <<CtxId(id, ty)>>
           P == PushedSuffix(ty)
<1>1. /\ len \in Nat /\ mid \in Nat /\ d \in Seq(Types) /\ Len(d) = len + 1
      /\ 1 .. (len - 1) = 1 .. mid
  BY AppendProperties, LenProperties
<1>2. /\ id = WholeId(tys)
      /\ \A k \in 0 .. len : suffix[k + 1] = WholeId(Inner(tys, k))
  BY DEF IdsOf
<1>3. ASSUME NEW k \in 0 .. len
      PROVE  /\ CtxId(WholeId(Inner(tys, k)), ty) \in Ids
             /\ CtxId(WholeId(Inner(tys, k)), ty) = WholeId(Inner(d, k + 1))
  <2>1. Inner(tys, k) \in Seq(Types)
    BY <1>3, InnerFacts
  <2>2. Inner(d, k + 1) = Append(Inner(tys, k), ty)
    BY <1>3, InnerAppend
  <2> QED BY <2>1, <2>2, WholeAppend
<1>4. Inner(tys, 0) = <<>> /\ Inner(tys, len) = tys /\ Inner(d, 0) = <<>>
  BY <1>1, InnerFacts
<1>5. 0 \in 0 .. len /\ len \in 0 .. len /\ (tys = <<>> <=> len = 0)
  BY <1>1, EmptySeq
<1>6. /\ CtxId(Root, ty) \in Ids /\ CtxId(Root, ty) = WholeId(Inner(d, 0 + 1))
      /\ CtxId(id, ty) \in Ids /\ CtxId(id, ty) = WholeId(Inner(d, len + 1))
  BY <1>2, <1>3, <1>4, <1>5, EmptyWhole
<1>7. CtxId(id, ty) = WholeId(d)
  BY <1>2, WholeAppend
<1>8. ASSUME NEW k \in 1 .. mid
      PROVE  /\ k \in 0 .. len /\ B[k] = CtxId(WholeId(Inner(tys, k)), ty)
             /\ B[k] \in Ids /\ B[k] = WholeId(Inner(d, k + 1))
  <2>1. k \in 0 .. len /\ k \in 1 .. (len - 1)
    BY <1>1
  <2>2. B[k] = CtxId(suffix[k + 1], ty)
    BY <2>1
  <2>3. suffix[k + 1] = WholeId(Inner(tys, k))
    BY <1>2, <2>1
  <2> QED BY <1>3, <2>1, <2>2, <2>3
<1>9. A \in Seq(Ids) /\ Len(A) = 2 /\ A[1] = Root /\ A[2] = CtxId(Root, ty)
  BY <1>6, EmptyWhole
<1>10. B \in Seq(Ids) /\ Len(B) = mid
  <2>1. DOMAIN B = 1 .. mid
    BY <1>1
  <2>2. B \in [1 .. mid -> Ids]
    BY <1>1, <1>8, <2>1
  <2> HIDE DEF B
  <2> QED BY <1>1, <2>2, SeqDef
<1>11. /\ C \in Seq(Ids) /\ Len(C) = IF len = 0 THEN 0 ELSE 1
       /\ len # 0 => C[1] = CtxId(id, ty)
  BY <1>5, <1>6
<1>12. P = (A \o B) \o C
  BY DEF PushedSuffix
<1> HIDE DEF A, B, C
<1>13. /\ A \o B \in Seq(Ids) /\ Len(A \o B) = 2 + mid
       /\ \A i \in 1 .. 2 + mid : (A \o B)[i] = IF i <= 2 THEN A[i] ELSE B[i - 2]
  <2> HIDE DEF Ids
  <2>1. Len(A \o B) = 2 + mid /\ A \o B \in Seq(Ids)
    BY <1>9, <1>10, ConcatProperties
  <2>2. \A i \in 1 .. Len(A) + Len(B) : (A \o B)[i] = IF i <= Len(A) THEN A[i] ELSE B[i - Len(A)]
    BY <1>9, <1>10, ConcatProperties
  <2> QED BY <1>9, <1>10, <2>1, <2>2
<1> DEFINE AB == A \o B
<1>17. /\ AB \in Seq(Ids) /\ Len(AB) = 2 + mid
       /\ \A i \in 1 .. 2 + mid : AB[i] = IF i <= 2 THEN A[i] ELSE B[i - 2]
  BY <1>13
<1>18. P = AB \o C
  BY <1>12
<1> HIDE DEF AB
<1>14. /\ P \in Seq(Ids) /\ Len(P) = (2 + mid) + Len(C)
       /\ \A i \in 1 .. (2 + mid) + Len(C) : P[i] = IF i <= 2 + mid THEN AB[i] ELSE C[i - (2 + mid)]
  <2>1. P \in Seq(Ids) /\ Len(P) = Len(AB) + Len(C)
    BY <1>11, <1>17, <1>18, ConcatProperties
  <2>2. \A i \in 1 .. Len(AB) + Len(C) : (AB \o C)[i] = IF i <= Len(AB) THEN AB[i] ELSE C[i - Len(AB)]
    BY <1>11, <1>17, ConcatProperties
  <2> QED BY <1>17, <1>18, <2>1, <2>2
<1> HIDE DEF P
<1>15. Len(P) = Len(d) + 1 /\ Len(d) = len + 1
  BY <1>1, <1>11, <1>14
<1>16. ASSUME NEW k \in 0 .. Len(d)
       PROVE  P[k + 1] = WholeId(Inner(d, k))
  <2>0. k \in Nat /\ k + 1 \in 1 .. (2 + mid) + Len(C)
    BY <1>14, <1>15, <1>1
  <2>1. CASE k = 0
    <3>1. 1 \in 1 .. (2 + mid) + Len(C) /\ 1 <= 2 + mid /\ 1 \in 1 .. 2 + mid /\ k + 1 = 1
      BY <1>1, <1>11, <2>1
    <3>2. P[1] = AB[1]
      BY <1>14, <3>1
    <3>3. AB[1] = A[1]
      BY <1>17, <3>1
    <3> QED BY <1>4, <1>9, <2>1, <3>1, <3>2, <3>3, EmptyWhole
  <2>2. CASE k = 1
    <3>1. 2 \in 1 .. (2 + mid) + Len(C) /\ 2 <= 2 + mid /\ 2 \in 1 .. 2 + mid /\ k + 1 = 2 /\ k = 0 + 1
      BY <1>1, <1>11, <2>2
    <3>2. P[2] = AB[2]
      BY <1>14, <3>1
    <3>3. AB[2] = A[2]
      BY <1>17, <3>1
    <3> QED BY <1>6, <1>9, <3>1, <3>2, <3>3
  <2>3. CASE k > 1 /\ k <= 1 + mid
    <3>1. k - 1 \in 1 .. mid /\ k + 1 <= 2 + mid /\ (k + 1) - 2 = k - 1 /\ (k - 1) + 1 = k
      BY <1>1, <2>0, <2>3
    <3>2. P[k + 1] = AB[k + 1]
      BY <1>14, <2>0, <3>1
    <3>3. AB[k + 1] = B[k - 1]
      BY <1>1, <1>17, <2>0, <2>3, <3>1
    <3> QED BY <1>8, <3>1, <3>2, <3>3
  <2>4. CASE k > 1 + mid /\ k # 1
    <3>1. len # 0 /\ k = len + 1 /\ k + 1 > 2 + mid /\ (k + 1) - (2 + mid) = 1
      BY <1>1, <1>15, <2>0, <2>4
    <3>2. P[k + 1] = C[1]
      BY <1>14, <2>0, <3>1
    <3> QED BY <1>6, <1>11, <3>1, <3>2
  <2> QED BY <1>1, <2>0, <2>1, <2>2, <2>3, <2>4
<1> QED BY <1>7, <1>15, <1>16 DEF IdsOf, P

LEMMA KeyInvInit == KeyInit => KeyInv
  BY EmptyTelescope DEF KeyInit, KeyInv

\* Entering a binder.
LEMMA KeyInvPush == ASSUME KeyInv, NEW ty \in Types, Push(ty) PROVE KeyInv'
<1>1. /\ Telescope(tys) /\ IdsOf(tys, id, suffix)
      /\ \A m \in memo : \E c : Telescope(c) /\ Made(c, m)
  BY DEF KeyInv
<1>2. /\ InScope(tys, ty) /\ tys' = Append(tys, ty) /\ id' = CtxId(id, ty)
      /\ suffix' = PushedSuffix(ty) /\ memo' = memo
  BY DEF Push
<1>3. IdsOf(tys', id', suffix')
  BY <1>1, <1>2, PushedIds DEF Telescope
<1>4. Telescope(tys')
  <2> DEFINE d == Append(tys, ty)
             len == Len(tys)
  <2>1. /\ d \in Seq(Types) /\ Len(d) = len + 1 /\ len \in Nat
        /\ (\A n \in 1 .. len : d[n] = tys[n]) /\ d[len + 1] = ty
    BY <1>1, AppendProperties, LenProperties DEF Telescope
  <2>2. Loose(ty) <= len
    BY <1>2 DEF InScope
  <2>3. \A n \in 1 .. len : Loose(tys[n]) <= n - 1
    BY <1>1 DEF Telescope
  <2> HIDE DEF d, len
  <2>4. ASSUME NEW n \in 1 .. len + 1
        PROVE  Loose(d[n]) <= n - 1
    <3>1. CASE n = len + 1
      <4>1. n - 1 = len
        BY <2>1, <3>1
      <4> QED BY <2>1, <2>2, <3>1, <4>1
    <3>2. CASE n # len + 1
      <4>1. n \in 1 .. len
        BY <2>1, <3>2
      <4> QED BY <2>1, <2>3, <4>1
    <3> QED BY <3>1, <3>2
  <2>5. tys' = d
    BY <1>2 DEF d
  <2> QED BY <2>1, <2>4, <2>5 DEF Telescope
<1> QED BY <1>1, <1>2, <1>3, <1>4 DEF KeyInv

\* Leaving it.
LEMMA KeyInvBack == ASSUME KeyInv, Back PROVE KeyInv'
<1> DEFINE d == SubSeq(tys, 1, Len(tys) - 1)
           len == Len(tys)
           ids == [k \in 1 .. len |-> WholeId(SubSeq(d, Len(d) - k + 2, Len(d)))]
<1>1. /\ Telescope(tys) /\ \A m \in memo : \E c : Telescope(c) /\ Made(c, m)
  BY DEF KeyInv
<1>2. tys # <<>> /\ tys' = d /\ id' = WholeId(tys') /\ memo' = memo
  BY DEF Back
<1>3. suffix' = ids
  BY <1>2 DEF Back
<1>4. /\ tys \in Seq(Types) /\ len \in Nat /\ len # 0
      /\ \A n \in 1 .. len : tys[n] \in Types /\ Loose(tys[n]) <= n - 1
  <2>1. tys \in Seq(Types) /\ len \in Nat
    BY <1>1 DEF Telescope
  <2>2. len # 0
    BY <1>2, <2>1, EmptySeq
  <2> QED BY <1>1, <2>1, <2>2, ElementOfSeq DEF Telescope
<1>5. /\ d \in Seq(Types) /\ Len(d) = len - 1
      /\ \A n \in 1 .. len - 1 : d[n] = tys[n]
  <2>1. 1 \in Int /\ len - 1 \in Int /\ \A i \in 1 .. len - 1 : tys[i] \in Types
    BY <1>4
  <2>2. /\ d \in Seq(Types)
        /\ Len(d) = IF 1 <= len - 1 THEN (len - 1) - 1 + 1 ELSE 0
        /\ \A i \in 1 .. (len - 1) - 1 + 1 : d[i] = tys[1 + i - 1]
    BY <2>1, SubSeqProperties
  <2> HIDE DEF d, len
  <2>3. Len(d) = len - 1
    <3>1. CASE 1 <= len - 1
      BY <1>4, <2>2, <3>1
    <3>2. CASE ~(1 <= len - 1)
      BY <1>4, <2>2, <3>2
    <3> QED BY <3>1, <3>2
  <2>4. \A n \in 1 .. len - 1 : n \in 1 .. (len - 1) - 1 + 1 /\ 1 + n - 1 = n
    BY <1>4
  <2> QED BY <2>2, <2>3, <2>4
<1> HIDE DEF d
<1>6. Telescope(d)
  <2>1. \A n \in 1 .. len - 1 : n \in 1 .. len
    BY <1>4
  <2> QED BY <1>4, <1>5, <2>1 DEF Telescope
<1>7. Len(ids) = len
  BY <1>4
<1>8. ASSUME NEW k \in 0 .. Len(d)
      PROVE  ids[k + 1] = WholeId(Inner(d, k))
  <2>1. k + 1 \in 1 .. len /\ Len(d) - (k + 1) + 2 = Len(d) - k + 1
    BY <1>4, <1>5
  <2>2. ids[k + 1] = WholeId(SubSeq(d, Len(d) - (k + 1) + 2, Len(d)))
    BY <2>1
  <2> QED BY <2>1, <2>2 DEF Inner
<1>9. Len(ids) = Len(d) + 1
  BY <1>4, <1>5, <1>7
<1> HIDE DEF ids
<1>10. IdsOf(tys', id', suffix')
  BY <1>2, <1>3, <1>8, <1>9 DEF IdsOf
<1> QED BY <1>1, <1>2, <1>6, <1>10 DEF KeyInv

\* A lookup that missed.
LEMMA KeyInvInfer == ASSUME KeyInv, NEW t \in Queries, InferTerm(t) PROVE KeyInv'
<1> DEFINE m == Entry({t}, TermKey(tys, t))
<1>1. /\ InScope(tys, t) /\ memo' = memo \cup {m}
      /\ tys' = tys /\ id' = id /\ suffix' = suffix
  BY DEF InferTerm, Remember
<1>2. Made(tys, m)
  BY <1>1 DEF Made, MadeForTerm, Holds, Entry
<1> HIDE DEF m
<1> QED BY <1>1, <1>2 DEF KeyInv

LEMMA KeyInvCompare ==
    ASSUME KeyInv, NEW a \in Queries, NEW b \in Queries, ComparePair(a, b)
    PROVE  KeyInv'
<1> DEFINE m == Entry({a, b}, PairKey(tys, a, b))
<1>1. /\ a # b /\ InScope(tys, a) /\ InScope(tys, b) /\ memo' = memo \cup {m}
      /\ tys' = tys /\ id' = id /\ suffix' = suffix
  BY DEF ComparePair, Remember
<1>2. MadeForPair(tys, m, a, b)
  BY <1>1 DEF MadeForPair, Holds, Entry
<1>3. Made(tys, m)
  BY <1>2 DEF Made
<1> HIDE DEF m
<1> QED BY <1>1, <1>3 DEF KeyInv

LEMMA KeyInvNextDecl == ASSUME KeyInv, NextDecl PROVE KeyInv'
  BY EmptyTelescope DEF NextDecl, KeyInv

LEMMA KeyInvNext == KeyInv /\ [KeyNext]_keyVars => KeyInv'
<1> SUFFICES ASSUME KeyInv, [KeyNext]_keyVars PROVE KeyInv'
  OBVIOUS
<1>1. CASE \E ty \in Types : Push(ty)
  BY <1>1, KeyInvPush
<1>2. CASE Back
  BY <1>2, KeyInvBack
<1>3. CASE \E t \in Queries : InferTerm(t)
  BY <1>3, KeyInvInfer
<1>4. CASE \E a, b \in Queries : ComparePair(a, b)
  BY <1>4, KeyInvCompare
<1>5. CASE NextDecl
  BY <1>5, KeyInvNextDecl
<1>6. CASE UNCHANGED keyVars
  BY <1>6 DEF KeyInv, keyVars
<1> QED BY <1>1, <1>2, <1>3, <1>4, <1>5, <1>6 DEF KeyNext

-----------------------------------------------------------------------------
(* What the invariant says of the keys. *)

LEMMA HitsMean ==
    ASSUME KeyInv, NEW m \in memo, NEW t \in Queries,
           m.terms = {t}, InScope(tys, t)
    PROVE  \E c : /\ Telescope(c) /\ InScope(c, t)
                  /\ m.key = TermKey(c, t) /\ m.deps = Deps(c, {t})
<1>1. PICK c : Telescope(c) /\ Made(c, m)
  BY DEF KeyInv
<1>2. ASSUME NEW a, NEW b, MadeForPair(c, m, a, b)
      PROVE  FALSE
  <2>1. m.terms = {a, b} /\ a # b
    BY <1>2 DEF MadeForPair, Holds
  <2> QED BY <2>1
<1>3. PICK s : MadeForTerm(c, m, s)
  BY <1>1, <1>2 DEF Made
<1>4. /\ InScope(c, s) /\ m.terms = {s} /\ m.key = TermKey(c, s) /\ m.deps = Deps(c, {s})
  BY <1>3 DEF MadeForTerm, Holds
<1>5. s = t
  BY <1>4
<1> QED BY <1>1, <1>4, <1>5

LEMMA KeysHit == KeyInv => HitsMeanTheSame
<1> SUFFICES ASSUME KeyInv, NEW m \in memo, NEW t \in Queries,
                    m.terms = {t}, InScope(tys, t), m.key = TermKey(tys, t)
             PROVE  m.deps = Deps(tys, {t})
  BY DEF HitsMeanTheSame
<1>1. PICK c : /\ Telescope(c) /\ InScope(c, t)
               /\ m.key = TermKey(c, t) /\ m.deps = Deps(c, {t})
  BY HitsMean
<1>2. Telescope(tys) /\ t \in Tree
  BY QueriesAreTerms DEF KeyInv
<1>3. Stands(c, Free(t), m.key) /\ Stands(tys, Free(t), m.key)
  BY <1>1, <1>2, TermKeyStands
<1>4. Free(t) \subseteq Scope(c) /\ Free(t) \subseteq Scope(tys)
  BY <1>1, <1>2, FreeInScope DEF Telescope
<1>5. FreeIn({t}) = Free(t)
  BY FreeOfOne
<1>6. Deps(c, {t}) = Deps(tys, {t})
  BY <1>1, <1>2, <1>3, <1>4, <1>5, EqualKeysSameDeps
<1> QED BY <1>1, <1>6

LEMMA KeysHitForPairs == KeyInv => PairHitsMeanTheSame
<1> SUFFICES ASSUME KeyInv, NEW m \in memo, NEW a \in Queries, NEW b \in Queries,
                    a # b, m.terms = {a, b}, InScope(tys, a), InScope(tys, b),
                    m.key = PairKey(tys, a, b)
             PROVE  m.deps = Deps(tys, {a, b})
  BY DEF PairHitsMeanTheSame
<1>1. PICK c : Telescope(c) /\ Made(c, m)
  BY DEF KeyInv
<1>2. ASSUME NEW s, MadeForTerm(c, m, s)
      PROVE  FALSE
  <2>1. m.terms = {s}
    BY <1>2 DEF MadeForTerm, Holds
  <2> QED BY <2>1
<1>3. PICK p, q : MadeForPair(c, m, p, q)
  BY <1>1, <1>2 DEF Made
<1>4. /\ InScope(c, p) /\ InScope(c, q) /\ p \in Tree /\ q \in Tree
      /\ m.terms = {p, q} /\ m.key = PairKey(c, p, q) /\ m.deps = Deps(c, {p, q})
  BY <1>3, QueriesAreTerms DEF MadeForPair, Holds
<1>5. {a, b} = {p, q}
  BY <1>4
<1>6. InScope(c, a) /\ InScope(c, b) /\ m.deps = Deps(c, {a, b})
  <2>1. a \in {p, q} /\ b \in {p, q}
    BY <1>5
  <2> QED BY <1>4, <1>5, <2>1
<1>7. Telescope(tys) /\ a \in Tree /\ b \in Tree
  BY QueriesAreTerms DEF KeyInv
<1> DEFINE S == Free(a) \cup Free(b)
<1>8. FreeIn({a, b}) = S /\ FreeIn({p, q}) = Free(p) \cup Free(q)
  BY FreeOfTwo
<1>9. Free(p) \cup Free(q) = S
  BY <1>5, <1>8
<1>10. Stands(c, S, m.key) /\ Stands(tys, S, m.key)
  <2>1. Stands(c, Free(p) \cup Free(q), PairKey(c, p, q))
    BY <1>1, <1>4, PairKeyStands
  <2>2. Stands(tys, Free(a) \cup Free(b), PairKey(tys, a, b))
    BY <1>7, PairKeyStands
  <2> QED BY <1>4, <1>9, <2>1, <2>2
<1>11. S \subseteq Scope(c) /\ S \subseteq Scope(tys)
  BY <1>1, <1>6, <1>7, FreeInScope DEF Telescope
<1> HIDE DEF S
<1>12. Deps(c, {a, b}) = Deps(tys, {a, b})
  BY <1>1, <1>7, <1>8, <1>10, <1>11, EqualKeysSameDeps
<1> QED BY <1>6, <1>12

LEMMA KeysAgree == KeyInv => UnusedBindersDoNotMatter
<1> SUFFICES ASSUME KeyInv, NEW m \in memo, NEW t \in Queries,
                    m.terms = {t}, InScope(tys, t),
                    m.deps = Deps(tys, {t}), ListsSuffice(tys, t)
             PROVE  m.key = TermKey(tys, t)
  BY DEF UnusedBindersDoNotMatter
<1>1. PICK c : /\ Telescope(c) /\ InScope(c, t)
               /\ m.key = TermKey(c, t) /\ m.deps = Deps(c, {t})
  BY HitsMean
<1>2. Telescope(tys) /\ t \in Tree
  BY QueriesAreTerms DEF KeyInv
<1>3. TermKey(tys, t) = TermKey(c, t)
  BY <1>1, <1>2, SameDepsEqualKeys
<1> QED BY <1>1, <1>3

\* The ids and the recorded types are those of the context.
LEMMA KeyInvTyped == KeyInv => KeyTypeOK
<1> SUFFICES ASSUME KeyInv PROVE KeyTypeOK
  OBVIOUS
<1>1. Telescope(tys) /\ IdsOf(tys, id, suffix)
  BY DEF KeyInv
<1>2. tys \in Seq(Types) /\ Len(tys) \in Nat /\ DOMAIN tys = 1 .. Len(tys)
  BY <1>1, LenProperties DEF Telescope
<1>3. ASSUME NEW n \in DOMAIN tys
      PROVE  InScope(SubSeq(tys, 1, n - 1), tys[n])
  <2>1. Loose(tys[n]) <= n - 1 /\ n \in 1 .. Len(tys)
    BY <1>1, <1>2 DEF Telescope
  <2>2. Len(SubSeq(tys, 1, n - 1)) = n - 1
    <3>1. 1 \in Int /\ n - 1 \in Int /\ \A i \in 1 .. n - 1 : i \in 1 .. Len(tys)
      BY <1>2, <2>1
    <3>2. \A i \in 1 .. n - 1 : tys[i] \in Types
      BY <1>2, <3>1, ElementOfSeq
    <3>3. Len(SubSeq(tys, 1, n - 1)) = IF 1 <= n - 1 THEN (n - 1) - 1 + 1 ELSE 0
      BY <3>1, <3>2, SubSeqProperties
    <3> QED BY <1>2, <2>1, <3>3
  <2> QED BY <2>1, <2>2 DEF InScope
<1>4. ASSUME NEW k \in 0 .. Len(tys)
      PROVE  SuffixKey(k) = WholeId(SubSeq(tys, Len(tys) - k + 1, Len(tys)))
  <2>1. Len(suffix) = Len(tys) + 1 /\ suffix[k + 1] = WholeId(Inner(tys, k))
    BY <1>1 DEF IdsOf
  <2>2. k + 1 <= Len(suffix)
    BY <1>2, <2>1
  <2> QED BY <2>1, <2>2 DEF SuffixKey, Inner
<1>5. ASSUME NEW m \in memo
      PROVE  m.terms \subseteq Queries
  <2>1. PICK c : Made(c, m)
    BY DEF KeyInv
  <2>2. ASSUME NEW t, MadeForTerm(c, m, t)
        PROVE  m.terms \subseteq Queries
    <3>1. m.terms = {t} /\ t \in Queries
      BY <2>2 DEF MadeForTerm, Holds
    <3> QED BY <3>1
  <2>3. ASSUME NEW a, NEW b, MadeForPair(c, m, a, b)
        PROVE  m.terms \subseteq Queries
    <3>1. m.terms = {a, b} /\ a \in Queries /\ b \in Queries
      BY <2>3 DEF MadeForPair, Holds
    <3> QED BY <3>1
  <2> QED BY <2>1, <2>2, <2>3 DEF Made
<1>6. id = WholeId(tys) /\ Len(suffix) = Len(tys) + 1
  BY <1>1 DEF IdsOf
<1> QED BY <1>3, <1>4, <1>5, <1>6 DEF KeyTypeOK

LEMMA KeyInvHolds == KeySpec => []KeyInv
  BY KeyInvInit, KeyInvNext, PTL DEF KeySpec

\* A context's id and suffix ids are always those of the binders in scope,
\* whatever order binders are entered and left in.
THEOREM ContextsTyped == KeySpec => []KeyTypeOK
  BY KeyInvHolds, KeyInvTyped, PTL

\* For every choice of types, queries and word and list sizes: an answer is
\* found only where its terms mean what they meant when it was recorded, and a
\* term is found again wherever it means the same.
THEOREM KeysCorrect == KeySpec => []KeysStandForMeanings
<1>1. KeyInv => KeysStandForMeanings
  BY KeysHit, KeysHitForPairs, KeysAgree DEF KeysStandForMeanings
<1> QED BY <1>1, KeyInvHolds, PTL
=============================================================================
