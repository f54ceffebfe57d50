---------------------------- MODULE TypingProps ----------------------------
(***************************************************************************)
(* What accepting a declaration promises, against the typing rules.         *)
(***************************************************************************)
EXTENDS Typing

CONSTANT Typed   \* Typed[G]: the expressions typable with the constants of G

\* What a premise says once it has been established with the constants of G.
Satisfied(p, G) ==
    CASE p.op = "infer" -> p.s \in Typed[G]
      [] p.op = "reduce" -> Exposes[p.s] \in p.want
      [] p.op = "compare" -> <<p.s, p.t>> \in Equal
      [] p.op = "ispropchecked" -> Exposes[TypeOf[p.s]] \in p.want
      [] p.op = "const" -> ConstOf[p.s] \in G

Environments == {Base \cup X : X \in SUBSET (Name \ Base)}

\* The typing rules: an expression is typed when its premises hold.
ASSUME TypedAssumption ==
    /\ Typed \in [Environments -> SUBSET Exp]
    /\ \A G \in Environments : \A e \in Exp :
          e \in Typed[G] <=> \A i \in DOMAIN Premises(e) : Satisfied(Premises(e)[i], G)

\* The type of a typed expression is typed, and so are the types of the fields
\* of the structure a typed projection is taken from.
ASSUME RegularAssumption ==
    \A G \in Environments : \A e \in Typed[G] :
        /\ TypeOf[e] \in Typed[G]
        /\ Kind[e] = "proj" =>
              \A i \in DOMAIN Fields[e] : Fields[e][i].typ \in Typed[G]

\* The environment of declaration i: what was admitted before it.
Before(x, i) == Base \cup {x[j].name : j \in 1..(i - 1)}

Justified(x, i) ==
    LET G == Before(x, i) IN
    /\ ~x[i].dup /\ ~x[i].unsafe /\ x[i].name \notin G
    /\ x[i].typ \in Typed[G]
    /\ Exposes[TypeOf[x[i].typ]] \in IF x[i].theorem THEN {"prop"} ELSE Sorts
    /\ x[i].value # NoExp => /\ x[i].value \in Typed[G]
                             /\ <<TypeOf[x[i].value], x[i].typ>> \in Equal

-----------------------------------------------------------------------------
Pcs == {"enter", "premise", "typed", "sort", "prop", "typedB", "same", "type",
        "value", "match", "rescue", "rematch"}
Frame == [fn : Functions, pc : Pcs, st : {"run", "ok"} \cup Failures,
          a : Exp, b : Exp, n : Nat, eq : BOOLEAN, old : BOOLEAN]
Verdicts == {"accepted"} \cup Failures

\* Every variable holds a value of its kind; the tables are partial maps.
TypeOK ==
    /\ export \in Exports /\ at \in 1..Len(export) + 1
    /\ outcome \in Verdicts \cup {"none"}
    /\ env \subseteq Name /\ decides \in BOOLEAN
    /\ declaring \in Name \cup {NoName}
    /\ lazyMainPath \in BOOLEAN /\ first \in {"none", "declined", "rejected"}
    /\ inferOnly \in BOOLEAN /\ forced \in BOOLEAN
    /\ inferCache \in [DOMAIN inferCache -> BOOLEAN]
    /\ eagerInferCache \in [DOMAIN eagerInferCache -> BOOLEAN]
    /\ DOMAIN inferCache \cup DOMAIN eagerInferCache \subseteq Exp
    /\ top \in Frame /\ stack \in Seq(Frame)
    /\ probes \in 0..MaxProbes

\* Nothing is accepted on credit: whatever was memoised without checking,
\* looked up by a rescue or a second pass, or failed half way, an accepted
\* declaration is typed by the constants admitted before it.
AcceptedAreJustified == \A i \in 1..at - 1 : Justified(export, i)

\* The checked mark of a memoised type is earned: the expression is typed, and
\* not by the declaration that is being checked.
CheckedMarkIsEarned ==
    /\ \A e \in DOMAIN inferCache : inferCache[e] => e \in Typed[env \ {declaring}]
    /\ \A e \in DOMAIN eagerInferCache :
          eagerInferCache[e] => e \in Typed[env \ {declaring}]

Running == {stack[i] : i \in DOMAIN stack} \cup (IF top.st = "run" THEN {top} ELSE {})

\* The modes belong to the calls that set them: nothing is checked exactly
\* below a with_infer_only, tables are separate exactly during a rescue, and the
\* lazy main path is taken exactly after a failed first pass.
ModesAreBracketed ==
    /\ inferOnly <=> \E f \in Running :
          f.fn \in IsPropFunctions \cup {"proofs"} /\ f.pc # "enter"
    /\ forced <=> \E f \in Running :
          /\ f.fn = "check" /\ f.pc \in {"rescue", "rematch"}
          /\ f.pc = "rescue" => f # top
    /\ lazyMainPath <=> first # "none"

\* When conversion decides, so does the checker: an export is accepted exactly
\* when every declaration is justified, after any inferences on the way.
VerdictIsExact ==
    decides /\ outcome # "none" =>
        (outcome = "accepted" <=> \A i \in DOMAIN export : Justified(export, i))

\* The run refines the kernel's promise: one declaration at a time, each
\* justified, nothing said of a part of an export, and a verdict in the end.
K == INSTANCE Kernel WITH admitted <- at - 1, verdict <- outcome
KernelSpec == K!Spec
=============================================================================
