------------------------------ MODULE Interner ------------------------------
(***************************************************************************)
(* Hash-consing of expressions (src/src/expr.rs, src/src/expr/reclaim.rs)  *)
(* and the memo tables keyed by the identity of a node.                    *)
(*                                                                         *)
(* A node is created only through `intern`, which answers with the node    *)
(* already there for the same data.  The strong table keeps every node     *)
(* alive and is dropped whole between declarations when it is large; the   *)
(* weak table (KIOTA_RECLAIM) keeps none alive and sweeps dead entries.    *)
(***************************************************************************)
EXTENDS Integers, Sequences, FiniteSetsExt

CONSTANTS
    Ops,             \* node kinds with their payload
    Arity,           \* number of children of a kind
    HashOf(_),       \* hash_node; different data may collide
    InternReset,     \* INTERN_RESET: size past which the table is dropped
    CollectStep,     \* entries between two sweeps of the weak table (250 000)
    MemoCap,         \* entries at which memo_insert empties a memo table
    Extras,          \* what an identity is combined with in a numbered key
    MaxMemo,         \* bound of the model: answers remembered
    MaxNodes         \* bound of the model: nodes allocated

ASSUME InternerAssumption ==
    /\ Arity \in [Ops -> 0 .. 2]
    /\ InternReset \in Nat /\ CollectStep \in Nat \ {0} /\ MemoCap \in Nat \ {0}
    /\ MaxMemo \in Nat /\ MaxNodes \in Nat

VARIABLES
    weak,        \* reclamation_enabled, fixed for the life of the process
    nodes,       \* identity -> data of every node that is allocated
    nextId,      \* NEXT_NODE_ID
    held,        \* nodes the program holds: environment, tables, locals
    primary,     \* hash -> the first entry of the table
    overflow,    \* hash -> further entries
    nextSweep,   \* WeakInterner::next_collection
    base,        \* first identity allocated since the table was last dropped
    numbers,     \* LEVEL_SUBST_IDS or CTX_IDS: the keys numbered so far
    numbered,    \* LEVEL_INST_MEMO or a checker table: (node, number) -> answer
    iotaMemo     \* iota_lit_memo: nodes whose literal peel is remembered

internVars == <<weak, nodes, nextId, held, primary, overflow, nextSweep, base,
          numbers, numbered, iotaMemo>>

tables == <<primary, overflow, nextSweep>>
memos == <<numbers, numbered, iotaMemo>>

-----------------------------------------------------------------------------
(* Nodes: a node is alive while the program or a live node holds it, or,   *)
(* under the strong table, while the table has an entry for it.            *)

Node(op, kids) == [op |-> op, kids |-> kids]
HasChild(ns, p, c) == \E k \in DOMAIN ns[p].kids : ns[p].kids[k] = c

Entries == {primary[h] : h \in DOMAIN primary}
             \cup UNION {{overflow[h][k] : k \in DOMAIN overflow[h]} : h \in DOMAIN overflow}

\* What is alive when the program and the tables hold roots: children are
\* older than their parents.
AliveFrom(ns, roots) ==
    LET alive[i \in 1 .. MaxNodes] ==
            i \in roots
              \/ \E p \in (i + 1) .. MaxNodes :
                    p \in DOMAIN ns /\ HasChild(ns, p, i) /\ alive[p]
    IN  {i \in DOMAIN ns : alive[i]}

Roots == IF weak THEN held ELSE held \cup Entries

\* Nodes that die are removed at once, so the allocated ones are alive.
Alive == DOMAIN nodes

\* The expression a node stands for.
TermIn(ns) ==
    LET term[i \in DOMAIN ns] ==
            <<ns[i].op, [k \in DOMAIN ns[i].kids |-> term[ns[i].kids[k]]]>>
    IN  term
Term(i) == TermIn(nodes)[i]

\* Drop for ExprNode: what is no longer alive is gone, its children with it.
Sweep(ns, roots) == [i \in AliveFrom(ns, roots) |-> ns[i]]

-----------------------------------------------------------------------------
(* Lookup: the primary entry of the hash, then its overflow list.  Weak    *)
(* entries of dead nodes do not answer.                                    *)

With(f, x, v) == [y \in DOMAIN f \cup {x} |-> IF y = x THEN v ELSE f[y]]

Bucket(ov, h) == IF h \in DOMAIN ov THEN ov[h] ELSE <<>>

Candidates(pr, ov, h) ==
    {i \in Alive : (h \in DOMAIN pr /\ pr[h] = i)
                      \/ \E k \in DOMAIN Bucket(ov, h) : Bucket(ov, h)[k] = i}

Found(pr, ov, d) == {i \in Candidates(pr, ov, HashOf(d)) : nodes[i] = d}

\* The places of the overflow lists.
Slots(ov) == UNION {{h} \X DOMAIN ov[h] : h \in DOMAIN ov}
TableLen(pr, ov) == Cardinality(DOMAIN pr) + Cardinality(Slots(ov))

\* Mutant of Collected: a bucket is dropped with the primary entry it follows.
CollectedWithPrimary(pr, ov) ==
    <<Restrict(pr, {h \in DOMAIN pr : pr[h] \in Alive}),
      Restrict(ov, {h \in DOMAIN ov \cap DOMAIN pr : pr[h] \in Alive})>>

\* WeakInterner::collect: the entries of a bucket that still stand for a node,
\* in order, then the table of what is left.
LiveEntries(s) ==
    LET live[n \in 0 .. Len(s)] ==
            IF n = 0 THEN <<>>
            ELSE IF s[n] \in Alive THEN Append(live[n - 1], s[n]) ELSE live[n - 1]
    IN  live[Len(s)]

Collected(pr, ov) ==
    <<Restrict(pr, {h \in DOMAIN pr : pr[h] \in Alive}),
      [h \in {g \in DOMAIN ov : LiveEntries(ov[g]) # <<>>} |-> LiveEntries(ov[h])]>>

\* Mutant of SweepDue: the length is compared with the next length.
SweepLate == weak /\ TableLen(primary, overflow) > nextSweep
SweepDue == weak /\ TableLen(primary, overflow) >= nextSweep
Table == IF SweepDue THEN Collected(primary, overflow) ELSE <<primary, overflow>>

NewId(ns, n) == n

\* Where a new entry goes.  A dead primary entry is replaced.
PrimaryTaken(pr, h) == h \in DOMAIN pr /\ (weak => pr[h] \in Alive)

-----------------------------------------------------------------------------
(* intern *)

Intern(op, kids) ==
    LET d == Node(op, kids)
        h == HashOf(d)
        pr == Table[1]
        ov == Table[2]
        hit == Found(pr, ov, d)
        new == NewId(nodes, nextId)
        add == PrimaryTaken(pr, h)
    IN  /\ \A k \in DOMAIN kids : kids[k] \in Alive
        /\ nextSweep' = IF SweepDue THEN TableLen(pr, ov) + CollectStep ELSE nextSweep
        /\ \/ /\ hit # {}
              /\ \E i \in hit : held' = held \cup {i}
              /\ primary' = pr /\ overflow' = ov
              /\ UNCHANGED <<nodes, nextId>>
           \/ /\ hit = {} /\ nextId <= MaxNodes
              /\ nodes' = With(nodes, new, d)
              /\ nextId' = nextId + 1
              /\ held' = held \cup {new}
              /\ primary' = IF add THEN pr ELSE With(pr, h, new)
              /\ overflow' = IF add THEN With(ov, h, Append(Bucket(ov, h), new)) ELSE ov
        /\ UNCHANGED <<weak, base, memos>>

\* A handle goes out of scope.
Release(i) ==
    /\ i \in held
    /\ held' = held \ {i}
    /\ nodes' = Sweep(nodes, IF weak THEN held' ELSE held' \cup Entries)
    /\ UNCHANGED <<weak, nextId, tables, base, memos>>

-----------------------------------------------------------------------------
(* Memo tables.  A substitution of universe parameters and a context are   *)
(* numbered in order of first use within a declaration, and answers are    *)
(* filed under a node's identity and that number.                          *)

Numbered(x) == \E n \in DOMAIN numbers : numbers[n] = x

MemoInsert(memo, key, value) ==
    IF weak /\ Cardinality(DOMAIN memo) >= MemoCap THEN With(<<>>, key, value)
    ELSE With(memo, key, value)

\* Bound of the model: entries of the table asked and of the other one.
RoomFor(memo, other) ==
    /\ Cardinality(DOMAIN other) < MaxMemo
    /\ weak \/ Cardinality(DOMAIN memo) + Cardinality(DOMAIN other) < MaxMemo

Answer(i, x) == [term |-> Term(i), extra |-> x]

AskNumbered(i, x) ==
    LET ns == IF Numbered(x) THEN numbers ELSE Append(numbers, x)
        n == CHOOSE n \in DOMAIN ns : ns[n] = x
    IN  /\ i \in Alive
        /\ <<i, n>> \notin DOMAIN numbered
        /\ RoomFor(numbered, iotaMemo)
        /\ numbers' = ns
        /\ numbered' = MemoInsert(numbered, <<i, n>>, Answer(i, x))
        /\ UNCHANGED <<weak, nodes, nextId, held, tables, base, iotaMemo>>

PeelLiteral(i) ==
    /\ i \in Alive /\ i \notin DOMAIN iotaMemo
    /\ RoomFor(iotaMemo, numbered)
    /\ iotaMemo' = MemoInsert(iotaMemo, i, Term(i))
    /\ UNCHANGED <<weak, nodes, nextId, held, tables, base, numbers, numbered>>

-----------------------------------------------------------------------------
(* Between declarations: check_decl_once clears what is numbered per       *)
(* declaration, and drops the intern table when it is large, after the     *)
(* memo that outlives a declaration's first pass.                          *)

\* Mutant of ClearedNumbered: the answers outlive the numbers.
KeptNumbered(memo) == memo
ClearedNumbered(memo) == <<>>

TableIsLarge == TableLen(primary, overflow) > InternReset

\* fresh: a new Checker, as for every declaration but the lazy retry.
CheckDecl(fresh) ==
    /\ numbers' = <<>>
    /\ numbered' = ClearedNumbered(numbered)
    /\ iotaMemo' = IF fresh \/ TableIsLarge THEN <<>> ELSE iotaMemo
    /\ IF TableIsLarge
       THEN /\ primary' = <<>> /\ overflow' = <<>>
            /\ nextSweep' = CollectStep
            /\ base' = nextId
            /\ nodes' = Sweep(nodes, held)
       ELSE UNCHANGED <<tables, base, nodes>>
    /\ UNCHANGED <<weak, nextId, held>>

InternInit ==
    /\ weak \in BOOLEAN
    /\ nodes = <<>> /\ nextId = 1 /\ held = {}
    /\ primary = <<>> /\ overflow = <<>> /\ nextSweep = CollectStep /\ base = 1
    /\ numbers = <<>> /\ numbered = <<>> /\ iotaMemo = <<>>

Kids(op) == IF Arity[op] = 0 THEN {<<>>} ELSE [1 .. Arity[op] -> Alive]

InternNext ==
    \/ \E op \in Ops : \E kids \in Kids(op) : Intern(op, kids)
    \/ \E i \in held : Release(i)
    \/ \E i \in Alive, x \in Extras : AskNumbered(i, x)
    \/ \E i \in Alive : PeelLiteral(i)
    \/ \E fresh \in BOOLEAN : CheckDecl(fresh)

InternSpec == InternInit /\ [][InternNext]_internVars

-----------------------------------------------------------------------------
(* Properties. *)

\* Every node alive is allocated and has its parts, the table has no entry
\* without a number, and the weak table is swept before it outgrows what was
\* alive at its last sweep by more than one step (next_collection).
InternTypeOK ==
    /\ weak \in BOOLEAN /\ nextId \in 1 .. (MaxNodes + 1) /\ base \in 1 .. nextId
    /\ DOMAIN nodes = AliveFrom(nodes, Roots) /\ held \subseteq DOMAIN nodes
    /\ \A i \in DOMAIN nodes :
            /\ nodes[i].op \in Ops /\ DOMAIN nodes[i].kids = 1 .. Arity[nodes[i].op]
            /\ \A k \in DOMAIN nodes[i].kids : nodes[i].kids[k] \in DOMAIN nodes
    /\ Entries \subseteq 1 .. (nextId - 1)
    /\ weak => TableLen(primary, overflow) <= nextSweep

\* Two live nodes made since the table was last dropped never have the same
\* data.
SameDataSameNode ==
    \A i, j \in Alive : i >= base /\ j >= base /\ nodes[i] = nodes[j] => i = j

\* Until a table is dropped, and under reclamation too, identity of live nodes
\* is equality of the expressions they stand for.
EqualTermsAreOneNode ==
    base = 1 => \A i, j \in Alive : Term(i) = Term(j) => i = j

\* Identity is equality, whatever hashes collide and whatever entries die or
\* are swept between two creations: pointer comparison of children decides
\* equality of nodes (Interner::intern, WeakInterner::intern, node_eq).
IdentityIsEquality == SameDataSameNode /\ EqualTermsAreOneNode

\* An answer filed under a live node and a number was computed for the
\* expression that node is and for the key that has that number now.
NumberedAnswersFit ==
    \A key \in DOMAIN numbered :
        /\ key[2] \in DOMAIN numbers /\ numbered[key].extra = numbers[key[2]]
        /\ key[1] \in Alive => numbered[key].term = Term(key[1])

\* A remembered peel is that of the node asked about.
RememberedPeelsFit ==
    \A i \in DOMAIN iotaMemo : i \in Alive => iotaMemo[i] = Term(i)

\* No memo is ever read for something else than it was made for: numbers start
\* over with each declaration, nodes die, and a lazy retry of a declaration
\* keeps its checker while the table is dropped or not (clear_subst_memos,
\* NEXT_NODE_ID, iota_lit_memo).
MemosFit == NumberedAnswersFit /\ RememberedPeelsFit
=============================================================================
