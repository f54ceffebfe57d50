----------------------------- MODULE ProofCodec -----------------------------
(***************************************************************************)
(* How a proof is written to the store and read back (proofstore.rs encode *)
(* and decode): the nodes of its DAG in post-order, each shared node once, *)
(* children by position, numbers in groups of bits.  Reading goes through  *)
(* the constructors of expressions and of levels again, and those of       *)
(* levels simplify (module Levels).  The reader refuses a level beyond a   *)
(* depth; the writer has no such limit.                                    *)
(*                                                                         *)
(* The machine builds a term, encodes it with the stack of the code, may   *)
(* lose the end of the blob or gain a byte, and decodes it node by node.   *)
(* A node is its tag, its data and its children.  A string is its bytes.   *)
(***************************************************************************)
EXTENDS Integers, Sequences, FiniteSets, SequencesExt

CONSTANTS GroupBits,     \* bits of a number in one byte (7)
          VarintBits,    \* width of a decoded number (64)
          FieldBits,     \* width of a name, an index, a parameter (32)
          LevelDepth,    \* deepest level that is read
          Leaves,        \* the leaves terms are built from
          MaxNodes       \* most distinct nodes of a term

ASSUMPTION CodecAssumption ==
    /\ {GroupBits, VarintBits, FieldBits, LevelDepth, MaxNodes} \subseteq Nat \ {0}
    /\ FieldBits <= VarintBits

VARIABLES root,     \* the proof
          stage,    \* "build", "visit", "stored", "decode", "done"
          stack,    \* encode's stack of (node, children pushed), top last
          order,    \* nodes in post-order
          blob,     \* the bytes written
          intact,   \* whether the blob is as it was written
          pos,      \* where the reader stands
          left,     \* nodes still to read
          nodes,    \* nodes read
          result    \* "pending", "malformed" or "term"

codecVars == <<root, stage, stack, order, blob, intact, pos, left, nodes, result>>

Radix == 2 ^ GroupBits
L == INSTANCE Levels WITH Params <- Nat, MaxLevels <- 0, MaxHeight <- LevelDepth,
                         MaxValue <- LevelDepth + 2, levels <- {}

-----------------------------------------------------------------------------
(* Nodes.                                                                  *)

T_BVAR == 0
T_SORT == 1
T_CONST == 2
T_APP == 3
T_LAM == 4
T_PI == 5
T_LET == 6
T_PROJ == 7
T_NAT == 8
T_STR == 9
Arity == <<0, 0, 0, 2, 2, 2, 3, 1, 0, 0>>

Node(tag, data, kids) == [tag |-> tag, data |-> data, kids |-> kids]

RECURSIVE Subterms(_)
Subterms(e) == {e} \cup UNION { Subterms(e.kids[k]) : k \in DOMAIN e.kids }

-----------------------------------------------------------------------------
(* Writing.                                                                *)

\* A bug: the mark that another group follows is left out.
RECURSIVE PutUnmarked(_)
PutUnmarked(v) ==
    IF v < Radix THEN <<v>> ELSE <<v % Radix>> \o PutUnmarked(v \div Radix)

RECURSIVE PutVarint(_)
PutVarint(v) ==
    IF v < Radix THEN <<v>> ELSE <<Radix + (v % Radix)>> \o PutVarint(v \div Radix)

L_ZERO == 0
L_SUCC == 1
L_MAX == 2
L_IMAX == 3
L_PARAM == 4

RECURSIVE PutLevel(_)
PutLevel(l) ==
    CASE L!Op(l) = "zero" -> <<L_ZERO>>
      [] L!Op(l) = "succ" -> <<L_SUCC>> \o PutLevel(l[2])
      [] L!Op(l) = "max" -> <<L_MAX>> \o PutLevel(l[2]) \o PutLevel(l[3])
      [] L!Op(l) = "imax" -> <<L_IMAX>> \o PutLevel(l[2]) \o PutLevel(l[3])
      [] L!Op(l) = "param" -> <<L_PARAM>> \o PutVarint(l[2])

\* to_bytes_le: at least one byte.
RECURSIVE LittleEndian(_)
LittleEndian(n) ==
    IF n < 2 * Radix THEN <<n>>
    ELSE <<n % (2 * Radix)>> \o LittleEndian(n \div (2 * Radix))

RECURSIVE FromLittleEndian(_)
FromLittleEndian(b) ==
    IF b = <<>> THEN 0 ELSE b[1] + 2 * Radix * FromLittleEndian(Tail(b))

PutBytes(b) == PutVarint(Len(b)) \o b

PutData(tag, data) ==
    CASE tag = T_BVAR -> PutVarint(data)
      [] tag = T_SORT -> PutLevel(data)
      [] tag = T_CONST -> PutVarint(data.name) \o PutVarint(Len(data.us))
                          \o FlattenSeq([k \in DOMAIN data.us |-> PutLevel(data.us[k])])
      [] tag \in {T_LAM, T_PI} -> <<data>>
      [] tag = T_PROJ -> PutVarint(data.struct) \o PutVarint(data.idx)
      [] tag = T_NAT -> PutBytes(LittleEndian(data))
      [] tag = T_STR -> PutBytes(data)
      [] OTHER -> <<>>

Place(e) == CHOOSE k \in DOMAIN order : order[k] = e

PutNode(e) ==
    <<e.tag>> \o PutData(e.tag, e.data)
    \o FlattenSeq([k \in DOMAIN e.kids |-> PutVarint(Place(e.kids[k]) - 1)])

Written ==
    PutVarint(Len(order)) \o FlattenSeq([k \in DOMAIN order |-> PutNode(order[k])])

-----------------------------------------------------------------------------
(* Reading: a value and the position behind it, or Malformed.              *)

Malformed == [ok |-> FALSE]
Got(v, p) == [ok |-> TRUE, val |-> v, pos |-> p]
Then(r, F(_, _)) == IF r.ok THEN F(r.val, r.pos) ELSE r

Byte(p) == IF p <= Len(blob) THEN Got(blob[p], p + 1) ELSE Malformed

RECURSIVE VarintFrom(_, _, _)
VarintFrom(p, v, shift) ==
    Then(Byte(p), LAMBDA b, q :
        IF shift >= VarintBits THEN Malformed
        ELSE LET w == (v + (b % Radix) * 2 ^ shift) % 2 ^ VarintBits
             IN  IF b < Radix THEN Got(w, q) ELSE VarintFrom(q, w, shift + GroupBits))
Varint(p) == VarintFrom(p, 0, 0)

Field(p) == Then(Varint(p), LAMBDA v, q : IF v < 2 ^ FieldBits THEN Got(v, q) ELSE Malformed)

Slice(p, len) ==
    IF p + len <= Len(blob) + 1 THEN Got(SubSeq(blob, p, p + len - 1), p + len)
    ELSE Malformed

Bytes(p) == Then(Varint(p), LAMBDA n, q : Slice(q, n))

\* A level is rebuilt by the simplifying constructors.
RECURSIVE LevelFrom(_, _)
LevelFrom(p, depth) ==
    LET two(F(_, _), q) == Then(LevelFrom(q, depth + 1), LAMBDA a, r :
                           Then(LevelFrom(r, depth + 1), LAMBDA b, s : Got(F(a, b), s)))
    IN  IF depth > LevelDepth THEN Malformed
        ELSE Then(Byte(p), LAMBDA t, q :
            CASE t = L_ZERO -> Got(L!Zero, q)
              [] t = L_SUCC -> Then(LevelFrom(q, depth + 1), LAMBDA a, r : Got(L!Succ(a), r))
              [] t = L_MAX -> two(L!Max, q)
              [] t = L_IMAX -> two(L!IMax, q)
              [] t = L_PARAM -> Then(Field(q), LAMBDA n, r : Got(L!Param(n), r))
              [] OTHER -> Malformed)

RECURSIVE LevelsFrom(_, _)
LevelsFrom(p, k) ==
    IF k = 0 THEN Got(<<>>, p)
    ELSE Then(LevelFrom(p, 0), LAMBDA a, q :
         Then(LevelsFrom(q, k - 1), LAMBDA us, r : Got(<<a>> \o us, r)))

DataFrom(tag, p) ==
    CASE tag = T_BVAR -> Field(p)
      [] tag = T_SORT -> LevelFrom(p, 0)
      [] tag = T_CONST -> Then(Field(p), LAMBDA n, q : Then(Varint(q), LAMBDA k, r :
                          Then(LevelsFrom(r, k), LAMBDA us, s : Got([name |-> n, us |-> us], s))))
      [] tag \in {T_LAM, T_PI} -> Then(Byte(p), LAMBDA b, q :
                                  IF b <= 3 THEN Got(b, q) ELSE Malformed)
      [] tag = T_PROJ -> Then(Field(p), LAMBDA s, q : Then(Field(q), LAMBDA i, r :
                         Got([struct |-> s, idx |-> i], r)))
      [] tag = T_NAT -> Then(Bytes(p), LAMBDA b, q : Got(FromLittleEndian(b), q))
      [] tag = T_STR -> Bytes(p)
      [] OTHER -> Got(0, p)

\* A child must have been read before.
RECURSIVE KidsFrom(_, _)
KidsFrom(p, k) ==
    IF k = 0 THEN Got(<<>>, p)
    ELSE Then(Varint(p), LAMBDA i, q :
         IF i >= Len(nodes) THEN Malformed
         ELSE Then(KidsFrom(q, k - 1), LAMBDA es, r : Got(<<nodes[i + 1]>> \o es, r)))

NodeFrom(p) ==
    Then(Byte(p), LAMBDA tag, q :
    IF tag > T_STR THEN Malformed
    ELSE Then(DataFrom(tag, q), LAMBDA d, r :
         Then(KidsFrom(r, Arity[tag + 1]), LAMBDA es, s : Got(Node(tag, d, es), s))))

-----------------------------------------------------------------------------
CodecInit ==
    /\ root \in Leaves
    /\ stage = "build"
    /\ stack = <<>> /\ order = <<>> /\ blob = <<>> /\ intact = TRUE
    /\ pos = 1 /\ left = 0 /\ nodes = <<>> /\ result = "pending"

\* The checked proof, as large as it may be.
Grow ==
    /\ stage = "build"
    /\ \E x \in Leaves \cup {root}, bi \in {0, 3} :
          root' \in { Node(T_APP, 0, <<root, x>>), Node(T_APP, 0, <<x, root>>),
                      Node(T_LAM, bi, <<x, root>>), Node(T_PI, bi, <<x, root>>),
                      Node(T_LET, 0, <<x, root, root>>),
                      Node(T_PROJ, [struct |-> 1, idx |-> bi], <<root>>) }
    /\ Cardinality(Subterms(root')) <= MaxNodes
    /\ UNCHANGED <<stage, stack, order, blob, intact, pos, left, nodes, result>>

StartEncode ==
    /\ stage = "build"
    /\ stage' = "visit"
    /\ stack' = << <<root, FALSE>> >>
    /\ UNCHANGED <<root, order, blob, intact, pos, left, nodes, result>>

Top == stack[Len(stack)]
Popped == SubSeq(stack, 1, Len(stack) - 1)

\* A bug: a node that is already numbered is numbered again.
NumberedBefore(e) == FALSE
Numbered(e) == \E k \in DOMAIN order : order[k] = e

\* One turn of encode's loop.
Visit ==
    /\ stage = "visit" /\ stack # <<>>
    /\ \/ /\ Numbered(Top[1])
          /\ stack' = Popped
          /\ UNCHANGED order
       \/ /\ ~Numbered(Top[1]) /\ Top[2]
          /\ order' = Append(order, Top[1])
          /\ stack' = Popped
       \/ /\ ~Numbered(Top[1]) /\ ~Top[2]
          /\ stack' = Append(Popped, <<Top[1], TRUE>>)
                      \o Reverse([k \in DOMAIN Top[1].kids |-> <<Top[1].kids[k], FALSE>>])
          /\ UNCHANGED order
    /\ UNCHANGED <<root, stage, blob, intact, pos, left, nodes, result>>

Emit ==
    /\ stage = "visit" /\ stack = <<>>
    /\ blob' = Written
    /\ stage' = "stored"
    /\ UNCHANGED <<root, stack, order, intact, pos, left, nodes, result>>

\* The blob loses its end, or another byte follows it.
Mangle ==
    /\ stage = "stored" /\ intact
    /\ \/ \E n \in 0 .. Len(blob) - 1 : blob' = SubSeq(blob, 1, n)
       \/ blob' = Append(blob, 0)
    /\ intact' = FALSE
    /\ UNCHANGED <<root, stage, stack, order, pos, left, nodes, result>>

Finish(r) == stage' = "done" /\ result' = r

StartDecode ==
    /\ stage = "stored"
    /\ LET count == Varint(1)
       IN  IF count.ok /\ count.val > 0
           THEN /\ left' = count.val /\ pos' = count.pos
                /\ stage' = "decode"
                /\ UNCHANGED result
           ELSE Finish("malformed") /\ UNCHANGED <<left, pos>>
    /\ UNCHANGED <<root, stack, order, blob, intact, nodes>>

DecodeNode ==
    /\ stage = "decode" /\ left > 0
    /\ LET r == NodeFrom(pos)
       IN  IF r.ok
           THEN /\ nodes' = Append(nodes, r.val) /\ pos' = r.pos
                /\ left' = left - 1
                /\ UNCHANGED <<stage, result>>
           ELSE Finish("malformed") /\ UNCHANGED <<nodes, pos, left>>
    /\ UNCHANGED <<root, stack, order, blob, intact>>

AtEnd == pos = Len(blob) + 1

EndDecode ==
    /\ stage = "decode" /\ left = 0
    /\ Finish(IF AtEnd THEN "term" ELSE "malformed")
    /\ UNCHANGED <<root, stack, order, blob, intact, pos, left, nodes>>

CodecNext == Grow \/ StartEncode \/ Visit \/ Emit \/ Mangle \/ StartDecode \/ DecodeNode \/ EndDecode

CodecSpec == CodecInit /\ [][CodecNext]_codecVars

-----------------------------------------------------------------------------
(* Properties.                                                             *)

\* Every byte fits, the reader stays within the blob, and every number the
\* writer puts down fits the field that will read it.
CodecTypeOK ==
    /\ stage \in {"build", "visit", "stored", "decode", "done"}
    /\ result \in {"pending", "malformed", "term"}
    /\ \A k \in DOMAIN blob : blob[k] \in 0 .. 2 * Radix - 1
    /\ pos \in 1 .. Len(blob) + 1
    /\ left \in Nat /\ Len(nodes) <= Len(order)

\* Constructors on the longest path of a level.
RECURSIVE Height(_)
Height(l) ==
    CASE L!Op(l) \in {"zero", "param"} -> 0
      [] L!Op(l) = "succ" -> 1 + Height(l[2])
      [] L!Op(l) \in {"max", "imax"} -> 1 + Max({Height(l[2]), Height(l[3])})

LevelsIn(e) == CASE e.tag = T_SORT -> {e.data}
                 [] e.tag = T_CONST -> ToSet(e.data.us)
                 [] OTHER -> {}

\* No level of the proof is deeper than the reader goes.
WithinDepth(e) == \A x \in Subterms(e) : \A l \in LevelsIn(x) : Height(l) <= LevelDepth

\* What was written comes back node for node, sharing included, or not at all:
\* it is refused exactly when a level of it is too deep for the reader.
RoundTrip ==
    (stage = "done" /\ intact) =>
        IF WithinDepth(root)
        THEN /\ result = "term"
             /\ nodes = order
             /\ nodes[Len(nodes)] = root
        ELSE result = "malformed"

\* The post-order lists every node of the DAG once and each after its parts.
EveryNodeOnce ==
    stage = "stored" =>
        /\ ToSet(order) = Subterms(root)
        /\ Len(order) = Cardinality(Subterms(root))
        /\ \A k \in DOMAIN order : \A j \in DOMAIN order[k].kids :
              Place(order[k].kids[j]) < k

\* A stored proof comes back as the term that was released, with its binder
\* annotations, levels, literals and sharing, from a blob as long as the proof
\* has distinct nodes, unless a level of it is beyond the reader's depth, when
\* it is an error and never another term; and a blob cut short or run into the
\* next one is an error too (encode, decode).
BlobIsItsTerm == RoundTrip /\ EveryNodeOnce /\ (~intact => result # "term")

\* What the store's doc says: "reading it back re-interns each node, so a reloaded
\* proof is the same term as the released one", whatever its levels are
\* (put_level has no limit, Reader::level has one).
EveryProofReadsBack == (stage = "done" /\ intact) => result = "term"
=============================================================================
