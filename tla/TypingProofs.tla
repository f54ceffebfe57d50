---------------------------- MODULE TypingProofs ----------------------------
(***************************************************************************)
(* Proofs about Typing: for every signature, every set of exports and every *)
(* behaviour that conversion's promise allows, only justified declarations  *)
(* are accepted.                                                           *)
(***************************************************************************)
EXTENDS TypingProps, SequenceTheorems, TLAPS

(* The inductive invariant *)

ModalFunctions == IsPropFunctions \cup {"proofs"}

\* A frame in whose span nothing is checked.
Modal(f) == f.fn \in ModalFunctions /\ f.pc # "enter" /\ f.st = "run"

\* Some frame of s before the i-th is modal.
Under(s, i) == \E j \in 1..(i - 1) : Modal(s[j])
Below(s) == \E j \in 1..Len(s) : Modal(s[j])

\* Where a frame of each function can be.
Shape(f) ==
    /\ f.fn = "infer" => /\ f.pc \in {"enter", "premise"}
                         /\ f.pc = "premise" => f.n \in 1..(Len(Premises(f.a)) + 1)
    /\ f.fn \in {"idle", "reduce", "compare"} => f.pc = "enter"
    /\ f.fn \in IsPropFunctions => f.pc \in {"enter", "typed", "sort"}
    /\ f.fn = "proofs" => f.pc \in {"enter", "typed", "prop", "typedB", "same"}
    /\ f.fn = "check" => /\ f.pc \in {"enter", "type", "sort", "value", "match",
                                      "rescue", "rematch"}
                         /\ f.old = FALSE

\* What an answer says in either mode.
Sure(f) ==
    f.st = "ok" =>
        /\ f.fn = "compare" /\ f.eq => <<f.a, f.b>> \in Equal
        /\ f.fn \in IsPropFunctions /\ f.eq => Exposes[TypeOf[f.a]] = "prop"
        /\ f.fn = "ispropchecked" => Exposes[TypeOf[f.a]] \in Sorts

\* The type of declaration x[k] is checked, and so is its value.
TypeChecked(x, k) ==
    /\ x[k].typ \in Typed[Before(x, k)]
    /\ Exposes[TypeOf[x[k].typ]] \in IF x[k].theorem THEN {"prop"} ELSE Sorts
ValueChecked(x, k) == x[k].value \in Typed[Before(x, k)]

\* The premises of e before the n-th hold with the constants of G.
Established(e, n, G) == \A i \in 1..(n - 1) : Satisfied(Premises(e)[i], G)

\* What a frame outside every modal one has established.
Derived(x, k, f) ==
    /\ f.fn = "infer" =>
        /\ f.pc = "premise" => Established(f.a, f.n, Before(x, k))
        /\ f.st = "ok" => f.a \in Typed[Before(x, k)]
    /\ f.fn = "check" =>
        /\ f.pc # "enter" => ~x[k].dup
        /\ f.pc = "sort" => x[k].typ \in Typed[Before(x, k)]
        /\ f.pc \in {"value", "match", "rescue", "rematch"} =>
             TypeChecked(x, k) /\ x[k].value \in Exp
        /\ f.pc \in {"match", "rescue", "rematch"} => ValueChecked(x, k)
        /\ f.st = "ok" => Justified(x, k)

\* A frame is as it should be, u telling whether a modal one is below it.
Good(x, k, f, u) ==
    /\ Shape(f) /\ Sure(f)
    /\ ~u => Derived(x, k, f)
    /\ Modal(f) => (f.old <=> u)

\* A frame that has only been called is as it should be in either mode.
Fresh(x, k, g) == Shape(g) /\ Sure(g) /\ Derived(x, k, g) /\ ~Modal(g)

\* Frame g is what its caller c waits for.
Link(x, k, c, g) ==
    /\ c.fn # "idle" /\ g.fn \notin {"idle", "check"}
    /\ c.fn = "infer" =>
        /\ c.pc = "premise" /\ c.n \in 1..Len(Premises(c.a))
        /\ g.fn = Premises(c.a)[c.n].op
        /\ g.a = Premises(c.a)[c.n].s /\ g.b = Premises(c.a)[c.n].t
    /\ c.fn \in IsPropFunctions =>
        /\ c.pc \in {"typed", "sort"}
        /\ c.pc = "typed" => g.fn = "infer" /\ g.a = c.a
        /\ c.pc = "sort" => g.fn = "reduce" /\ g.a = TypeOf[c.a]
    /\ c.fn = "proofs" => c.pc # "enter"
    /\ c.fn = "check" =>
        /\ c.pc # "enter"
        /\ c.pc = "type" => g.fn = "infer" /\ g.a = x[k].typ
        /\ c.pc = "sort" => g.fn = "reduce" /\ g.a = TypeOf[x[k].typ]
        /\ c.pc \in {"value", "rescue"} => g.fn = "infer" /\ g.a = x[k].value
        /\ c.pc \in {"match", "rematch"} =>
             g.fn = "compare" /\ g.a = TypeOf[x[k].value] /\ g.b = x[k].typ

StackOK(x, k, t, s) ==
    /\ t \in Frame /\ s \in Seq(Frame)
    /\ \A i \in 1..Len(s) : Good(x, k, s[i], Under(s, i)) /\ s[i].st = "run"
    /\ \A i \in 1..(Len(s) - 1) : Link(x, k, s[i], s[i + 1])
    /\ s # <<>> => Link(x, k, s[Len(s)], t)
    /\ Good(x, k, t, Below(s))

\* The outermost frame: the parser's loop or the check of a declaration.
Root(t, s) == IF s = <<>> THEN t ELSE s[1]

StackInv == StackOK(export, at, top, stack)

ModeInv == inferOnly <=> Below(stack) \/ Modal(top)

BaseInv ==
    LET b == Root(top, stack) IN
    /\ b.fn \in {"idle", "check"}
    /\ b.fn = "idle" => stack = <<>> /\ (outcome = "none" => env = Before(export, at))
    /\ b.fn = "check" =>
        /\ outcome = "none" /\ at <= Len(export)
        /\ env = Before(export, at) \cup {record.name}
        /\ record.name \notin Before(export, at) /\ ~record.unsafe
        /\ b.pc # "enter" => declaring = record.name
    /\ forced <=> /\ b.fn = "check" /\ b.st = "run"
                  /\ b.pc = "rematch" \/ (b.pc = "rescue" /\ stack # <<>>)

Machine == StackInv /\ ModeInv /\ BaseInv

\* Everything else.
Held ==
    /\ export \in Exports /\ at \in 1..Len(export) + 1
    /\ outcome \in Verdicts \cup {"none"}
    /\ env \subseteq Name /\ declaring \in Name \cup {NoName}
    /\ lazyMainPath \in BOOLEAN /\ first \in {"none", "declined", "rejected"}
    /\ lazyMainPath <=> first # "none"
    /\ inferOnly \in BOOLEAN /\ forced \in BOOLEAN
    /\ probes \in 0..MaxProbes
    /\ AcceptedAreJustified

TableInv ==
    /\ inferCache \in [DOMAIN inferCache -> BOOLEAN]
    /\ eagerInferCache \in [DOMAIN eagerInferCache -> BOOLEAN]
    /\ DOMAIN inferCache \subseteq Exp /\ DOMAIN eagerInferCache \subseteq Exp
    /\ CheckedMarkIsEarned

TypingInv == Machine /\ Held /\ TableInv

-----------------------------------------------------------------------------
(* The signature *)

Operations == {"infer", "reduce", "compare", "ispropchecked", "const"}
PremiseSet == [op : Operations, s : Exp, t : Exp, want : SUBSET Forms, check : BOOLEAN]

\* A classification asks for a sort or for Prop.
WantsRight(p) == p.op = "ispropchecked" => p.want \in {Sorts, {"prop"}}

\* The premises an expression is made of.
LEMMA PremiseKinds ==
    ASSUME NEW e \in Exp, NEW u \in Exp, NEW w \in SUBSET Forms
    PROVE  /\ \A p \in {Infer(e), Reduce(e, w), Compare(e, u), Checking(Infer(e)),
                        Checking(Compare(e, u))} :
                /\ p \in PremiseSet /\ WantsRight(p)
                /\ p.op \notin {"const", "ispropchecked"}
           /\ Classify(e, w) \in PremiseSet /\ Classify(e, w).op # "const"
           /\ Classify(e, w).s = e
           /\ w \in {Sorts, {"prop"}} => WantsRight(Classify(e, w))
           /\ Lookup(e) \in PremiseSet /\ WantsRight(Lookup(e)) /\ Lookup(e).s = e
           /\ Lookup(e).op = "const"
<1>1. Infer(e) \in PremiseSet /\ WantsRight(Infer(e))
      /\ Infer(e).op \notin {"const", "ispropchecked"}
  BY DEF Infer, PremiseSet, Operations, WantsRight, Forms
<1>2. /\ Reduce(e, w) \in PremiseSet /\ WantsRight(Reduce(e, w))
      /\ Reduce(e, w).op \notin {"const", "ispropchecked"}
  BY DEF Reduce, PremiseSet, Operations, WantsRight
<1>3. /\ Compare(e, u) \in PremiseSet /\ WantsRight(Compare(e, u))
      /\ Compare(e, u).op \notin {"const", "ispropchecked"}
  BY DEF Compare, PremiseSet, Operations, WantsRight, Forms
<1>4. \A p \in PremiseSet :
        /\ Checking(p) \in PremiseSet /\ Checking(p).op = p.op
        /\ Checking(p).want = p.want
  BY DEF Checking, PremiseSet
<1>5. \A p \in {Infer(e), Compare(e, u)} :
        /\ Checking(p) \in PremiseSet /\ WantsRight(Checking(p))
        /\ Checking(p).op \notin {"const", "ispropchecked"}
  BY <1>1, <1>3, <1>4 DEF WantsRight
<1>6. /\ Classify(e, w) \in PremiseSet /\ Classify(e, w).op # "const"
      /\ Classify(e, w).s = e
      /\ w \in {Sorts, {"prop"}} => WantsRight(Classify(e, w))
  BY DEF Classify, PremiseSet, Operations, WantsRight
<1>7. Lookup(e) \in PremiseSet /\ WantsRight(Lookup(e)) /\ Lookup(e).s = e
      /\ Lookup(e).op = "const"
  BY DEF Lookup, PremiseSet, Operations, WantsRight, Forms
<1> QED BY <1>1, <1>2, <1>3, <1>5, <1>6, <1>7

\* What a projection classifies: the type of its structure and its fields' types.
Classified(e) ==
    {t \in {TypeOf[Sub[e][1]]} \cup {Fields[e][i].typ : i \in DOMAIN Fields[e]} :
       Kind[e] = "proj"}

\* Well formed premises of e, which looks up its own constant only.
RightPremises(e) ==
    {p \in PremiseSet : /\ WantsRight(p) /\ (p.op = "const" => p.s = e)
                        /\ p.op = "ispropchecked" => p.s \in Classified(e)}

\* The premises of an expression are a sequence of well formed premises.
LEMMA PremisesAreRight == \A e \in Exp : Premises(e) \in Seq(RightPremises(e))
<1> TAKE e \in Exp
<1> DEFINE R == RightPremises(e)
<1>0. Sorts \in SUBSET Forms /\ {"prop"} \in SUBSET Forms /\ {"pi"} \in SUBSET Forms
      /\ {"struct"} \in SUBSET Forms
  BY DEF Sorts, Forms
<1>1. /\ \A d \in Exp : TypeOf[d] \in Exp /\ Dom[d] \in Exp
      /\ Kind[e] \in Kinds /\ Fields[e] \in Seq(Field)
      /\ Sub[e] \in Seq(Exp)
  BY TypingAssumption
<1>2. /\ Lookup(e) \in R
      /\ \A d, u \in Exp : /\ Infer(d) \in R /\ Compare(d, u) \in R
                           /\ Checking(Infer(d)) \in R /\ Checking(Compare(d, u)) \in R
      /\ \A d \in Exp \cap Classified(e) :
            Classify(d, Sorts) \in R /\ Classify(d, {"prop"}) \in R
  <2>1. Lookup(e) \in R
    BY <1>0, PremiseKinds DEF RightPremises
  <2>2. ASSUME NEW d \in Exp, NEW u \in Exp
        PROVE  /\ Infer(d) \in R /\ Compare(d, u) \in R
               /\ Checking(Infer(d)) \in R /\ Checking(Compare(d, u)) \in R
    BY <1>0, PremiseKinds DEF RightPremises
  <2>3. ASSUME NEW d \in Exp \cap Classified(e)
        PROVE  Classify(d, Sorts) \in R /\ Classify(d, {"prop"}) \in R
    <3>1. /\ Classify(d, Sorts) \in PremiseSet /\ Classify(d, {"prop"}) \in PremiseSet
          /\ WantsRight(Classify(d, Sorts)) /\ WantsRight(Classify(d, {"prop"}))
          /\ Classify(d, Sorts).op # "const" /\ Classify(d, {"prop"}).op # "const"
          /\ Classify(d, Sorts).s = d /\ Classify(d, {"prop"}).s = d
      BY <1>0, PremiseKinds
    <3> QED BY <3>1 DEF RightPremises
  <2> QED BY <2>1, <2>2, <2>3
<1>3. \A d \in Exp : \A w \in SUBSET Forms : Reduce(d, w) \in R
  BY PremiseKinds DEF RightPremises
<1> HIDE DEF R
<1>4. \A d, u \in Exp : App(d, u) \in Seq(R)
  BY <1>0, <1>1, <1>2, <1>3 DEF App
<1>5. \A d, u \in Exp : Lam(d, u) \in Seq(R)
  BY <1>0, <1>1, <1>2, <1>3 DEF Lam
<1>6. \A d, u \in Exp : Pi(d, u) \in Seq(R)
  <2> TAKE d, u \in Exp
  <2>1. <<Reduce(TypeOf[u], Sorts)>> \in Seq(R)
    BY <1>0, <1>1, <1>3
  <2> QED BY <1>5, <2>1, ConcatProperties DEF Pi
<1>7. \A d, v, u \in Exp : Let(d, v, u) \in Seq(R)
  BY <1>0, <1>1, <1>2, <1>3 DEF Let
<1>8. ASSUME Kind[e] = "proj", Sub[e][1] \in Exp
      PROVE  Proj(Sub[e][1], Fields[e]) \in Seq(R)
  <2> DEFINE v == Sub[e][1]
  <2>0. /\ v \in Exp /\ TypeOf[v] \in Exp \cap Classified(e)
        /\ \A i \in DOMAIN Fields[e] : Fields[e][i].typ \in Classified(e)
    BY <1>1, <1>8 DEF Classified
  <2> HIDE DEF v
  <2>1. <<Infer(v), Reduce(TypeOf[v], {"struct"}), Classify(TypeOf[v], Sorts)>> \in Seq(R)
    BY <1>0, <1>1, <1>2, <1>3, <2>0
  <2> DEFINE g == [i \in DOMAIN Fields[e] |->
                Classify(Fields[e][i].typ, IF Fields[e][i].later THEN Sorts ELSE {"prop"})]
  <2>2. g \in Seq(R)
    <3>1. \A i \in 1..Len(Fields[e]) : g[i] \in R
      <4> TAKE i \in 1..Len(Fields[e])
      <4>1. Fields[e][i] \in Field
        BY <1>1
      <4>2. Fields[e][i].typ \in Exp
        BY <4>1 DEF Field
      <4>3. Fields[e][i].typ \in Exp \cap Classified(e)
        BY <1>1, <2>0, <4>2
      <4> QED BY <4>3, <1>2
    <3>2. DOMAIN g = 1..Len(Fields[e]) /\ Len(Fields[e]) \in Nat
      BY <1>1
    <3>3. g = [i \in 1..Len(Fields[e]) |-> g[i]]
      BY <3>2
    <3> HIDE DEF g
    <3>4. g \in [1..Len(Fields[e]) -> R]
      BY <3>1, <3>3
    <3> QED BY <3>2, <3>4, SeqDef
  <2>3. <<>> \in Seq(R)
    OBVIOUS
  <2> HIDE DEF g
  <2> DEFINE h == IF Exposes[TypeOf[TypeOf[v]]] = "prop" THEN g ELSE <<>>
  <2>4. h \in Seq(R)
    BY <2>2, <2>3
  <2> HIDE DEF h
  <2>5. <<Infer(v), Reduce(TypeOf[v], {"struct"}), Classify(TypeOf[v], Sorts)>> \o h \in Seq(R)
    BY <2>1, <2>4, ConcatProperties
  <2> QED BY <2>5 DEF Proj, h, g, v
<1>9. Len(Sub[e]) = CASE Kind[e] \in {"const", "leaf"} -> 0
                      [] Kind[e] = "proj" -> 1
                      [] Kind[e] = "let" -> 3
                      [] OTHER -> 2
  BY TypingAssumption
<1>10. ASSUME Kind[e] = "const" PROVE Premises(e) \in Seq(R)
  <2>1. Premises(e) = <<Lookup(e)>>
    BY <1>10 DEF Premises
  <2> QED BY <2>1, <1>2
<1>11. ASSUME Kind[e] = "leaf" PROVE Premises(e) \in Seq(R)
  <2>1. Premises(e) = <<>>
    BY <1>11 DEF Premises
  <2> QED BY <2>1
<1>12. ASSUME Kind[e] \in {"app", "lam", "pi"} PROVE Premises(e) \in Seq(R)
  <2>1. Len(Sub[e]) = 2
    BY <1>9, <1>12
  <2>2. Sub[e][1] \in Exp /\ Sub[e][2] \in Exp
    BY <1>1, <2>1
  <2>3. Premises(e) \in {App(Sub[e][1], Sub[e][2]), Lam(Sub[e][1], Sub[e][2]),
                        Pi(Sub[e][1], Sub[e][2])}
    BY <1>12 DEF Premises
  <2> QED BY <2>2, <2>3, <1>4, <1>5, <1>6
<1>13. ASSUME Kind[e] = "let" PROVE Premises(e) \in Seq(R)
  <2>1. Len(Sub[e]) = 3
    BY <1>9, <1>13
  <2>2. Sub[e][1] \in Exp /\ Sub[e][2] \in Exp /\ Sub[e][3] \in Exp
    BY <1>1, <2>1
  <2>3. Premises(e) = Let(Sub[e][1], Sub[e][2], Sub[e][3])
    BY <1>13 DEF Premises
  <2> QED BY <2>2, <2>3, <1>7
<1>14. ASSUME Kind[e] = "proj" PROVE Premises(e) \in Seq(R)
  <2>1. Len(Sub[e]) = 1
    BY <1>9, <1>14
  <2>2. Sub[e][1] \in Exp
    BY <1>1, <2>1
  <2>3. Premises(e) = Proj(Sub[e][1], Fields[e])
    BY <1>14 DEF Premises
  <2> QED BY <1>8, <1>14, <2>2, <2>3
<1>15. Premises(e) \in Seq(R)
  BY <1>1, <1>10, <1>11, <1>12, <1>13, <1>14 DEF Kinds
<1> QED BY <1>15 DEF R

\* A premise in hand is well formed.
LEMMA PremiseIsRight ==
    ASSUME NEW e \in Exp, NEW i \in 1..Len(Premises(e))
    PROVE  /\ Premises(e)[i] \in PremiseSet /\ WantsRight(Premises(e)[i])
           /\ Premises(e)[i].op \in Operations
           /\ Premises(e)[i].s \in Exp /\ Premises(e)[i].t \in Exp
           /\ Premises(e)[i].op = "const" => Premises(e)[i].s = e
           /\ Premises(e)[i].op = "ispropchecked" => Premises(e)[i].s \in Classified(e)
<1>1. Premises(e)[i] \in RightPremises(e)
  BY PremisesAreRight
<1> QED BY <1>1 DEF RightPremises, PremiseSet

\* The number of premises is a number.
LEMMA PremiseCount == \A e \in Exp : Len(Premises(e)) \in Nat
BY PremisesAreRight

-----------------------------------------------------------------------------
(* The stack *)

\* A frame of the same function, place and term is waited for alike.
LEMMA LinkDependsOn ==
    ASSUME NEW x, NEW k, NEW c, NEW d, NEW g, NEW h, Link(x, k, c, g),
           d.fn = c.fn, d.pc = c.pc, d.a = c.a, d.n = c.n,
           h.fn = g.fn, h.a = g.a, h.b = g.b
    PROVE  Link(x, k, d, h)
BY DEF Link

\* A frame that goes on leaves its callers waiting for the same call.
LEMMA GoOn ==
    ASSUME NEW x, NEW k, NEW t, NEW s, StackOK(x, k, t, s), NEW f \in Frame,
           Good(x, k, f, Below(s)), f.fn = t.fn, f.a = t.a, f.b = t.b
    PROVE  StackOK(x, k, f, s)
<1>1. s # <<>> => Link(x, k, s[Len(s)], f)
  BY LinkDependsOn DEF StackOK
<1> QED BY <1>1 DEF StackOK

\* Below s there is what is below its last frame, and that frame.
LEMMA BelowAppend ==
    ASSUME NEW s \in Seq(Frame), NEW f \in Frame
    PROVE  /\ Append(s, f) \in Seq(Frame) /\ Len(Append(s, f)) = Len(s) + 1
           /\ \A i \in 1..Len(s) : Append(s, f)[i] = s[i]
           /\ Append(s, f)[Len(s) + 1] = f
           /\ \A i \in 1..(Len(s) + 1) : Under(Append(s, f), i) <=> Under(s, i)
           /\ Under(s, Len(s) + 1) <=> Below(s)
           /\ Below(Append(s, f)) <=> Below(s) \/ Modal(f)
<1> DEFINE r == Append(s, f)
<1>1. /\ r \in Seq(Frame) /\ Len(r) = Len(s) + 1 /\ Len(s) \in Nat
      /\ \A i \in 1..Len(s) : r[i] = s[i]
      /\ r[Len(s) + 1] = f
  OBVIOUS
<1> HIDE DEF r
<1>2. \A i \in 1..(Len(s) + 1) : Under(r, i) <=> Under(s, i)
  BY <1>1 DEF Under
<1>3. Under(s, Len(s) + 1) <=> Below(s)
  BY <1>1 DEF Under, Below
<1>4. Below(r) <=> Below(s) \/ Modal(f)
  <2>1. \A j \in 1..Len(r) : j \in 1..Len(s) \/ j = Len(s) + 1
    BY <1>1
  <2>2. \A j \in 1..Len(s) : j \in 1..Len(r)
    BY <1>1
  <2>3. Len(s) + 1 \in 1..Len(r)
    BY <1>1
  <2> QED BY <1>1, <2>1, <2>2, <2>3 DEF Below
<1> QED BY <1>1, <1>2, <1>3, <1>4 DEF r

\* A call: the caller, changed to f, waits for the new frame g.
LEMMA Push ==
    ASSUME NEW x, NEW k, NEW t, NEW s, StackOK(x, k, t, s), NEW f \in Frame,
           Good(x, k, f, Below(s)), f.st = "run",
           f.fn = t.fn, f.a = t.a, f.b = t.b,
           NEW g \in Frame, Link(x, k, f, g), Good(x, k, g, Below(s) \/ Modal(f))
    PROVE  StackOK(x, k, g, Append(s, f))
<1>1. StackOK(x, k, f, s)
  BY GoOn
<1>2. s \in Seq(Frame) /\ Len(s) \in Nat
  BY DEF StackOK
<1> DEFINE r == Append(s, f)
<1>3. /\ r \in Seq(Frame) /\ Len(r) = Len(s) + 1
      /\ \A i \in 1..Len(s) : r[i] = s[i]
      /\ r[Len(s) + 1] = f
      /\ \A i \in 1..(Len(s) + 1) : Under(r, i) <=> Under(s, i)
      /\ Under(s, Len(s) + 1) <=> Below(s)
      /\ Below(r) <=> Below(s) \/ Modal(f)
  BY <1>2, BelowAppend
<1> HIDE DEF r
<1>4. \A i \in 1..Len(r) : Good(x, k, r[i], Under(r, i)) /\ r[i].st = "run"
  <2> TAKE i \in 1..Len(r)
  <2>1. CASE i \in 1..Len(s)
    <3>1. Good(x, k, s[i], Under(s, i)) /\ s[i].st = "run"
      BY <1>1, <2>1 DEF StackOK
    <3>2. r[i] = s[i] /\ (Under(r, i) <=> Under(s, i))
      BY <1>2, <1>3, <2>1
    <3> QED BY <3>1, <3>2 DEF Good
  <2>2. CASE i = Len(s) + 1
    BY <1>2, <1>3, <2>2 DEF Good
  <2> QED BY <1>2, <1>3, <2>1, <2>2
<1>5. \A i \in 1..(Len(r) - 1) : Link(x, k, r[i], r[i + 1])
  <2> TAKE i \in 1..(Len(r) - 1)
  <2>1. CASE i < Len(s)
    BY <1>1, <1>2, <1>3, <2>1 DEF StackOK
  <2>2. CASE i = Len(s)
    BY <1>1, <1>2, <1>3, <2>2 DEF StackOK
  <2> QED BY <1>2, <1>3, <2>1, <2>2
<1>6. Link(x, k, r[Len(r)], g) /\ Good(x, k, g, Below(r))
  BY <1>2, <1>3 DEF Good
<1>7. StackOK(x, k, g, r)
  BY <1>3, <1>4, <1>5, <1>6 DEF StackOK
<1> QED BY <1>7 DEF r

\* Without its last element a sequence of frames is one, of the same frames.
LEMMA AllButLast ==
    ASSUME NEW s \in Seq(Frame), s # <<>>
    PROVE  /\ Len(s) \in Nat /\ Len(s) >= 1
           /\ SubSeq(s, 1, Len(s) - 1) \in Seq(Frame)
           /\ Len(SubSeq(s, 1, Len(s) - 1)) = Len(s) - 1
           /\ \A i \in 1..(Len(s) - 1) : SubSeq(s, 1, Len(s) - 1)[i] = s[i]
           /\ Len(s) = 1 <=> SubSeq(s, 1, Len(s) - 1) = <<>>
           /\ \A i \in 1..Len(s) : Under(SubSeq(s, 1, Len(s) - 1), i) <=> Under(s, i)
           /\ Below(SubSeq(s, 1, Len(s) - 1)) <=> Under(s, Len(s))
           /\ Below(s) <=> Under(s, Len(s)) \/ Modal(s[Len(s)])
<1> DEFINE m == Len(s) - 1
           r == SubSeq(s, 1, m)
<1>1. Len(s) \in Nat /\ Len(s) >= 1 /\ m \in Nat /\ \A i \in 1..m : s[i] \in Frame
  OBVIOUS
<1>0. Len(s) = m + 1
  BY <1>1
<1> HIDE DEF m
<1>2. /\ r \in Seq(Frame)
      /\ Len(r) = IF 1 <= m THEN m - 1 + 1 ELSE 0
      /\ \A i \in 1..m - 1 + 1 : r[i] = s[1 + i - 1]
  BY <1>1, SubSeqProperties
<1>3. m = 0 => r = <<>>
  BY <1>1, SubSeqEmpty
<1> HIDE DEF r
<1>4. r \in Seq(Frame) /\ Len(r) = m /\ (\A i \in 1..m : r[i] = s[i])
  BY <1>1, <1>2, <1>3
<1>5. Len(s) = 1 <=> r = <<>>
  BY <1>0, <1>1, <1>4
<1>6. \A i \in 1..Len(s) : Under(r, i) <=> Under(s, i)
  BY <1>0, <1>1, <1>4 DEF Under
<1>7. Below(r) <=> Under(s, Len(s))
  BY <1>0, <1>1, <1>4 DEF Under, Below
<1>8. Below(s) <=> Under(s, Len(s)) \/ Modal(s[Len(s)])
  <2>1. \A j \in 1..Len(s) : j \in 1..(Len(s) - 1) \/ j = Len(s)
    BY <1>1
  <2>2. \A j \in 1..(Len(s) - 1) : j \in 1..Len(s)
    BY <1>1
  <2> QED BY <1>1, <2>1, <2>2 DEF Below, Under
<1> QED BY <1>0, <1>1, <1>4, <1>5, <1>6, <1>7, <1>8 DEF r, m

\* A return: the innermost caller goes on as f.
LEMMA Pop ==
    ASSUME NEW x, NEW k, NEW t, NEW s, StackOK(x, k, t, s), s # <<>>, NEW f \in Frame,
           Good(x, k, f, Under(s, Len(s))),
           f.fn = s[Len(s)].fn, f.a = s[Len(s)].a, f.b = s[Len(s)].b
    PROVE  StackOK(x, k, f, SubSeq(s, 1, Len(s) - 1))
<1>1. s \in Seq(Frame)
  BY DEF StackOK
<1> DEFINE r == SubSeq(s, 1, Len(s) - 1)
<1>2. /\ Len(s) \in Nat /\ Len(s) >= 1
      /\ r \in Seq(Frame) /\ Len(r) = Len(s) - 1
      /\ \A i \in 1..Len(r) : r[i] = s[i]
      /\ Len(s) = 1 <=> r = <<>>
      /\ \A i \in 1..Len(s) : Under(r, i) <=> Under(s, i)
      /\ Below(r) <=> Under(s, Len(s))
  BY <1>1, AllButLast
<1> HIDE DEF r
<1>3. \A i \in 1..Len(r) : Good(x, k, r[i], Under(r, i)) /\ r[i].st = "run"
  <2> TAKE i \in 1..Len(r)
  <2>1. i \in 1..Len(s)
    BY <1>2
  <2>2. Good(x, k, s[i], Under(s, i)) /\ s[i].st = "run"
    BY <2>1 DEF StackOK
  <2>3. r[i] = s[i] /\ (Under(r, i) <=> Under(s, i))
    BY <1>2, <2>1
  <2> QED BY <2>2, <2>3 DEF Good
<1>4. \A i \in 1..(Len(r) - 1) : Link(x, k, r[i], r[i + 1])
  BY <1>1, <1>2 DEF StackOK
<1>5. r # <<>> => Link(x, k, r[Len(r)], f)
  <2> HAVE r # <<>>
  <2>1. Len(s) - 1 \in 1..(Len(s) - 1)
    BY <1>2
  <2>2. Link(x, k, s[Len(s) - 1], s[Len(s)])
    BY <1>2, <2>1 DEF StackOK
  <2>3. r[Len(r)] = s[Len(s) - 1]
    BY <1>2, <2>1
  <2>4. Link(x, k, s[Len(s) - 1], f)
    BY <2>2, LinkDependsOn
  <2> QED BY <2>3, <2>4
<1>6. Good(x, k, f, Below(r))
  BY <1>2 DEF Good
<1>7. StackOK(x, k, f, r)
  BY <1>2, <1>3, <1>4, <1>5, <1>6 DEF StackOK
<1> QED BY <1>7 DEF r

-----------------------------------------------------------------------------
(* Steps of inference and conversion leave the outermost frame alone *)

\* What the caller and the returned frame know when a call comes back.
LEMMA CallerFacts ==
    ASSUME StackInv, stack # <<>>
    PROVE  /\ Caller \in Frame /\ Caller.st = "run"
           /\ Good(export, at, Caller, Under(stack, Len(stack)))
           /\ Link(export, at, Caller, top)
           /\ top \in Frame /\ Good(export, at, top, Below(stack))
           /\ Below(stack) <=> Under(stack, Len(stack)) \/ Modal(Caller)
<1>1. stack \in Seq(Frame)
  BY DEF StackInv, StackOK
<1>2. Len(stack) \in 1..Len(stack)
  BY <1>1
<1> QED BY <1>1, <1>2, AllButLast DEF StackInv, StackOK, Caller

\* The frame that runs, whatever called it.
LEMMA TopFacts ==
    ASSUME StackInv
    PROVE  top \in Frame /\ stack \in Seq(Frame) /\ Good(export, at, top, Below(stack))
BY DEF StackInv, StackOK

\* Places in a stack of at least two frames.
LEMMA FirstAndLastButOne ==
    \A n \in Nat : n >= 1 /\ n # 1 =>
        1 \in 1..(n - 1) /\ n - 1 \in 1..(n - 1) /\ n - 1 + 1 = n
OBVIOUS

\* The check of a declaration is the outermost frame whenever there is a stack.
LEMMA BaseFacts ==
    ASSUME Machine
    PROVE  /\ top.fn \in {"idle", "check"} => stack = <<>>
           /\ stack # <<>> => /\ stack[1].fn = "check" /\ stack[1] \in Frame
                              /\ Caller.fn = "check" <=> Len(stack) = 1
<1>1. stack \in Seq(Frame) /\ Len(stack) \in Nat /\ (stack # <<>> => Len(stack) >= 1)
  BY TopFacts, AllButLast DEF Machine
<1>2. top.fn \in {"idle", "check"} => stack = <<>>
  BY CallerFacts DEF Machine, Link
<1>3. ASSUME stack # <<>> PROVE stack[1].fn = "check" /\ stack[1] \in Frame
  <2>1. Root(top, stack).fn \in {"idle", "check"} /\ Root(top, stack).fn # "idle"
    BY <1>3 DEF Machine, BaseInv
  <2>2. 1 \in 1..Len(stack)
    BY <1>1, <1>3
  <2>3. stack[1] \in Frame
    BY <1>1, <2>2
  <2>4. Root(top, stack) = stack[1]
    BY <1>3 DEF Root
  <2> QED BY <2>1, <2>3, <2>4
<1>4. ASSUME stack # <<>>, Caller.fn = "check" PROVE Len(stack) = 1
  <2> SUFFICES ASSUME Len(stack) # 1 PROVE FALSE
    OBVIOUS
  <2>1. Len(stack) - 1 \in 1..(Len(stack) - 1) /\ Len(stack) - 1 + 1 = Len(stack)
    BY <1>1, <1>4, FirstAndLastButOne
  <2>2. Link(export, at, stack[Len(stack) - 1], stack[Len(stack) - 1 + 1])
    BY <2>1 DEF Machine, StackInv, StackOK
  <2> QED BY <2>1, <2>2, <1>4 DEF Link, Caller
<1> QED BY <1>2, <1>3, <1>4 DEF Caller

\* Nothing but the frames and the tables changes.
Still == UNCHANGED <<export, at, outcome, env, declaring, inferOnly, forced>>

\* While the outermost frame is a caller it stays what it is.
LEMMA BaseKeeps ==
    ASSUME Machine, stack # <<>>, stack' # <<>>, Root(top', stack') = Root(top, stack),
           UNCHANGED <<export, at, outcome, env, declaring, forced>>
    PROVE  BaseInv'
BY DEF Machine, BaseInv, record, Before

\* A step of inference or conversion that stays in its frame.
LEMMA GotoKeeps ==
    ASSUME Machine, top.fn \notin {"idle", "check"}, NEW f \in Frame,
           Good(export, at, f, Below(stack)), f.fn = top.fn, f.a = top.a, f.b = top.b,
           Modal(f) <=> Modal(top), Goto(f), Still
    PROVE  Machine'
<1>1. StackOK(export, at, f, stack)
  BY GoOn DEF Machine, StackInv
<1>2. StackInv'
  BY <1>1 DEF StackInv, Goto, Still
<1>3. ModeInv'
  BY DEF Machine, ModeInv, Goto, Still
<1>4. stack # <<>>
  BY DEF Machine, BaseInv, Root
<1>5. BaseInv'
  BY <1>4, BaseKeeps DEF Goto, Still, Root
<1> QED BY <1>2, <1>3, <1>5 DEF Machine

\* The first frame of the stack is not the one that a call adds.
LEMMA BaseOfAppend ==
    ASSUME NEW s \in Seq(Frame), s # <<>>, NEW f, NEW g, NEW t
    PROVE  Append(s, f) # <<>> /\ Root(g, Append(s, f)) = Root(t, s)
BY DEF Root

\* The stack after a call.
LEMMA AskStack ==
    ASSUME Machine, top.fn \notin {"idle", "check"}, NEW f \in Frame,
           Good(export, at, f, Below(stack)), f.st = "run",
           f.fn = top.fn, f.a = top.a, f.b = top.b,
           NEW g \in Frame, Link(export, at, f, g), Fresh(export, at, g), Ask(f, g),
           UNCHANGED <<export, at, outcome, env, declaring, forced>>
    PROVE  /\ StackInv' /\ BaseInv'
           /\ Below(stack') \/ Modal(top') <=> Below(stack) \/ Modal(f)
<1>0. Good(export, at, g, Below(stack) \/ Modal(f)) /\ ~Modal(g)
  BY DEF Fresh, Good
<1>1. StackOK(export, at, g, Append(stack, f))
  BY <1>0, Push DEF Machine, StackInv
<1>2. StackInv'
  BY <1>1 DEF StackInv, Ask
<1>3. stack # <<>> /\ stack \in Seq(Frame)
  BY TopFacts DEF Machine, BaseInv, Root
<1>4. BaseInv'
  BY <1>3, BaseKeeps, BaseOfAppend DEF Ask
<1>5. Below(Append(stack, f)) <=> Below(stack) \/ Modal(f)
  BY <1>3, BelowAppend
<1> QED BY <1>0, <1>2, <1>4, <1>5 DEF Ask

\* A call that changes no mode.
LEMMA AskKeeps ==
    ASSUME Machine, top.fn \notin {"idle", "check"}, NEW f \in Frame,
           Good(export, at, f, Below(stack)), f.st = "run",
           f.fn = top.fn, f.a = top.a, f.b = top.b, Modal(f) <=> Modal(top),
           NEW g \in Frame, Link(export, at, f, g), Fresh(export, at, g), Ask(f, g), Still
    PROVE  Machine'
<1>1. /\ StackInv' /\ BaseInv'
      /\ Below(stack') \/ Modal(top') <=> Below(stack) \/ Modal(f)
  BY AskStack DEF Still
<1> QED BY <1>1 DEF Machine, ModeInv, Still

\* The stack after a return to a caller other than the check.
LEMMA ResumeStack ==
    ASSUME Machine, stack # <<>>, Caller.fn # "check", NEW f \in Frame,
           Good(export, at, f, Under(stack, Len(stack))),
           f.fn = Caller.fn, f.a = Caller.a, f.b = Caller.b, Resume(f),
           UNCHANGED <<export, at, outcome, env, declaring, forced>>
    PROVE  /\ StackInv' /\ BaseInv'
           /\ Below(stack') \/ Modal(top') <=> Under(stack, Len(stack)) \/ Modal(f)
<1> DEFINE r == SubSeq(stack, 1, Len(stack) - 1)
<1>1. StackOK(export, at, f, r)
  BY Pop DEF Machine, StackInv, Caller
<1>2. StackInv'
  BY <1>1 DEF StackInv, Resume
<1>3. /\ Len(stack) \in Nat /\ Len(stack) >= 1 /\ Len(stack) # 1
      /\ r \in Seq(Frame) /\ Len(r) = Len(stack) - 1 /\ r # <<>>
      /\ \A i \in 1..(Len(stack) - 1) : r[i] = stack[i]
      /\ Below(r) <=> Under(stack, Len(stack))
  BY TopFacts, BaseFacts, AllButLast DEF Machine
<1> HIDE DEF r
<1>4. stack' = r /\ top' = f
  BY DEF Resume, r
<1>5. Root(top', stack') = Root(top, stack)
  BY <1>3, <1>4 DEF Root
<1>6. BaseInv'
  BY <1>3, <1>4, <1>5, BaseKeeps
<1> QED BY <1>2, <1>3, <1>4, <1>6

\* A return that changes no mode.
LEMMA ResumeKeeps ==
    ASSUME Machine, stack # <<>>, Caller.fn # "check", top.st # "run", NEW f \in Frame,
           Good(export, at, f, Under(stack, Len(stack))),
           f.fn = Caller.fn, f.a = Caller.a, f.b = Caller.b,
           Modal(f) <=> Modal(Caller), Resume(f), Still
    PROVE  Machine'
<1>1. /\ StackInv' /\ BaseInv'
      /\ Below(stack') \/ Modal(top') <=> Under(stack, Len(stack)) \/ Modal(f)
  BY ResumeStack DEF Still
<1>2. ~Modal(top)
  BY DEF Modal
<1>3. Below(stack) <=> Under(stack, Len(stack)) \/ Modal(Caller)
  BY CallerFacts DEF Machine
<1> QED BY <1>1, <1>2, <1>3 DEF Machine, ModeInv, Still

\* A modal frame that ends puts back the mode it found.
LEMMA LeaveKeeps ==
    ASSUME Machine, Held, stack # <<>>, Modal(Caller), NEW f \in Frame,
           Good(export, at, f, Under(stack, Len(stack))), f.old = Caller.old,
           f.fn = Caller.fn, f.a = Caller.a, f.b = Caller.b, f.st # "run", Leave(f),
           UNCHANGED <<export, at, outcome, env, declaring, forced>>
    PROVE  Machine' /\ inferOnly' \in BOOLEAN
<1>1. Caller.fn # "check"
  BY DEF Modal, ModalFunctions, IsPropFunctions
<1>2. ~Modal(f)
  BY DEF Modal
<1>3. /\ StackInv' /\ BaseInv'
      /\ Below(stack') \/ Modal(top') <=> Under(stack, Len(stack))
  BY <1>1, <1>2, ResumeStack DEF Leave
<1>4. Caller.old <=> Under(stack, Len(stack))
  BY CallerFacts DEF Machine, Good
<1>5. Caller.old \in BOOLEAN
  BY CallerFacts DEF Machine, Frame
<1>6. inferOnly' = Caller.old
  BY DEF Leave
<1>7. ModeInv'
  BY <1>3, <1>4, <1>6 DEF ModeInv
<1> QED BY <1>3, <1>5, <1>6, <1>7 DEF Machine

-----------------------------------------------------------------------------
(* Inference *)

\* A call starts a frame that has established nothing.
LEMMA EntryIsFresh ==
    ASSUME NEW x, NEW k, NEW fn \in Functions \ {"idle", "check"},
           NEW a \in Exp, NEW b \in Exp
    PROVE  /\ Entry(fn, a, b) \in Frame /\ Fresh(x, k, Entry(fn, a, b))
           /\ Entry(fn, a, b).fn = fn /\ Entry(fn, a, b).a = a /\ Entry(fn, a, b).b = b
<1>1. /\ Entry(fn, a, b) \in Frame
      /\ Entry(fn, a, b).fn = fn /\ Entry(fn, a, b).a = a /\ Entry(fn, a, b).b = b
      /\ Entry(fn, a, b).pc = "enter" /\ Entry(fn, a, b).st = "run"
  BY DEF Entry, Frame, Functions, Pcs
<1>2. ~Modal(Entry(fn, a, b))
  BY <1>1 DEF Modal
<1>3. Shape(Entry(fn, a, b)) /\ Sure(Entry(fn, a, b))
  BY <1>1 DEF Shape, Sure, IsPropFunctions
<1>4. Derived(x, k, Entry(fn, a, b))
  BY <1>1 DEF Derived
<1> QED BY <1>1, <1>2, <1>3, <1>4 DEF Fresh

\* The environment of a declaration is one the typing rules speak of.
LEMMA BeforeIsEnvironment ==
    ASSUME NEW x \in Exports, NEW k \in 1..(Len(x) + 1)
    PROVE  Before(x, k) \in Environments /\ Before(x, k) \subseteq Name
<1>1. x \in Seq(Decl) /\ Len(x) \in Nat
  BY TypingAssumption
<1>2. \A j \in 1..(k - 1) : x[j].name \in Name
  <2> TAKE j \in 1..(k - 1)
  <2>1. x[j] \in Decl
    BY <1>1
  <2> QED BY <2>1 DEF Decl
<1> DEFINE X == {x[j].name : j \in 1..(k - 1)} \ Base
<1>3. X \in SUBSET (Name \ Base) /\ Before(x, k) = Base \cup X
  BY <1>2 DEF Before
<1>4. Base \subseteq Name
  BY TypingAssumption
<1> HIDE DEF X
<1> QED BY <1>3, <1>4 DEF Environments

\* While anything is inferred, what is visible is what was admitted before.
LEMMA VisibleIsBefore ==
    ASSUME Machine, Held, stack # <<>>
    PROVE  /\ env \ {declaring} = Before(export, at)
           /\ at <= Len(export) /\ outcome = "none"
           /\ Before(export, at) \in Environments
<1>1. stack[1].fn = "check" /\ stack \in Seq(Frame) /\ Len(stack) \in Nat /\ Len(stack) >= 1
  BY BaseFacts, TopFacts, AllButLast DEF Machine
<1>2. stack[1].pc # "enter"
  <2>1. CASE Len(stack) = 1
    <3>1. Caller = stack[1]
      BY <2>1 DEF Caller
    <3>2. Link(export, at, stack[1], top)
      BY <3>1, CallerFacts DEF Machine
    <3> QED BY <3>2, <1>1 DEF Link
  <2>2. CASE Len(stack) # 1
    <3>1. 1 \in 1..(Len(stack) - 1)
      BY <1>1, <2>2, FirstAndLastButOne
    <3>2. Link(export, at, stack[1], stack[1 + 1])
      BY <3>1 DEF Machine, StackInv, StackOK
    <3> QED BY <3>2, <1>1 DEF Link
  <2> QED BY <2>1, <2>2
<1>3. Root(top, stack) = stack[1]
  BY DEF Root
<1>4. /\ outcome = "none" /\ at <= Len(export)
      /\ env = Before(export, at) \cup {record.name} /\ declaring = record.name
      /\ record.name \notin Before(export, at)
  BY <1>1, <1>2, <1>3 DEF Machine, BaseInv
<1> QED BY <1>4, BeforeIsEnvironment DEF Held

\* The rest of the state, when a step leaves it alone.
LEMMA StillHeld ==
    ASSUME Held, TableInv, Still, UNCHANGED <<lazyMainPath, first, tables, probes>>
    PROVE  Held' /\ TableInv'
BY DEF Held, TableInv, Still, tables, AcceptedAreJustified, CheckedMarkIsEarned

\* An expression is typed once all of its premises hold.
LEMMA PremisesType ==
    ASSUME NEW e \in Exp, NEW G \in Environments,
           \A i \in 1..Len(Premises(e)) : Satisfied(Premises(e)[i], G)
    PROVE  e \in Typed[G]
<1>1. DOMAIN Premises(e) = 1..Len(Premises(e))
  BY PremisesAreRight
<1> QED BY <1>1, TypedAssumption

\* Outside every modal frame inference checks.
LEMMA ChecksWhenNotBelow ==
    ASSUME Machine, top.fn = "infer"
    PROVE  ~Modal(top) /\ (inferOnly <=> Below(stack)) /\ stack # <<>>
<1>1. ~Modal(top)
  BY DEF Modal, ModalFunctions, IsPropFunctions
<1>2. stack # <<>>
  BY DEF Machine, BaseInv, Root
<1> QED BY <1>1, <1>2 DEF Machine, ModeInv

\* The frame of f before its n-th premise.
Onward(f, n) == [f EXCEPT !.pc = "premise", !.n = n]

\* A frame of inference that goes on or ends keeps its function and term.
LEMMA InferFrames ==
    ASSUME NEW f \in Frame, f.fn = "infer", NEW n \in Nat
    PROVE  /\ \A g \in {Onward(f, n)} :
                 /\ g \in Frame /\ g.fn = "infer" /\ g.a = f.a /\ g.b = f.b
                 /\ g.pc = "premise" /\ g.n = n /\ g.st = f.st /\ ~Modal(g)
           /\ \A st \in {"ok"} \cup Failures :
                 /\ Ends(f, st) \in Frame /\ Ends(f, st).fn = "infer"
                 /\ Ends(f, st).a = f.a /\ Ends(f, st).b = f.b /\ Ends(f, st).pc = f.pc
                 /\ Ends(f, st).n = f.n /\ Ends(f, st).st = st /\ ~Modal(Ends(f, st))
BY DEF Frame, Pcs, Ends, Onward, Modal, ModalFunctions, IsPropFunctions

\* A frame that goes on with its next premise.
LEMMA NextPremiseIsGood ==
    ASSUME NEW x, NEW k, NEW f \in Frame, NEW u, Good(x, k, f, u),
           f.fn = "infer", f.st = "run", NEW n \in 1..(Len(Premises(f.a)) + 1),
           ~u => Established(f.a, n, Before(x, k))
    PROVE  /\ Onward(f, n) \in Frame /\ Good(x, k, Onward(f, n), u)
           /\ ~Modal(Onward(f, n)) /\ Onward(f, n).fn = f.fn
           /\ Onward(f, n).a = f.a /\ Onward(f, n).b = f.b
<1> DEFINE g == Onward(f, n)
<1>1. /\ g \in Frame /\ g.fn = "infer" /\ g.a = f.a /\ g.b = f.b
      /\ g.pc = "premise" /\ g.n = n /\ g.st = "run" /\ ~Modal(g)
  <2>1. n \in Nat
    BY PremiseCount DEF Frame
  <2> QED BY <2>1, InferFrames
<1> HIDE DEF g
<1>2. Shape(g) /\ Sure(g)
  BY <1>1 DEF Shape, Sure, IsPropFunctions
<1>3. ~u => Derived(x, k, g)
  BY <1>1 DEF Derived
<1>4. Good(x, k, g, u)
  BY <1>1, <1>2, <1>3 DEF Good
<1> QED BY <1>1, <1>4 DEF g

\* A frame of inference that ends.
LEMMA EndedIsGood ==
    ASSUME NEW x, NEW k, NEW f \in Frame, NEW u, f.fn = "infer", Good(x, k, f, u),
           NEW st \in {"ok"} \cup Failures,
           ~u /\ st = "ok" => f.a \in Typed[Before(x, k)]
    PROVE  /\ Ends(f, st) \in Frame /\ Good(x, k, Ends(f, st), u) /\ ~Modal(Ends(f, st))
           /\ Ends(f, st).fn = f.fn /\ Ends(f, st).a = f.a /\ Ends(f, st).b = f.b
<1> DEFINE g == Ends(f, st)
<1>1. /\ g \in Frame /\ g.fn = "infer" /\ g.a = f.a /\ g.b = f.b
      /\ g.pc = f.pc /\ g.n = f.n /\ g.st = st /\ ~Modal(g)
  BY InferFrames
<1> HIDE DEF g
<1>2. Shape(g) /\ Sure(g)
  BY <1>1 DEF Shape, Sure, IsPropFunctions, Good
<1>3. ~u => Derived(x, k, g)
  BY <1>1 DEF Derived, Good
<1>4. Good(x, k, g, u)
  BY <1>1, <1>2, <1>3 DEF Good
<1> QED BY <1>1, <1>4 DEF g

\* A frame that starts has nothing to establish.
LEMMA NothingBefore == \A e, G : Established(e, 1, G)
BY DEF Established

\* A memoised type serves only where its mark suffices.
LEMMA InferEnterKeeps ==
    ASSUME TypingInv, InferEnter PROVE TypingInv'
<1>1. top \in Frame /\ top.fn = "infer" /\ top.pc = "enter" /\ top.st = "run"
      /\ Good(export, at, top, Below(stack)) /\ top.a \in Exp
  BY TopFacts DEF TypingInv, Machine, InferEnter, At, Frame
<1>2. ~Modal(top) /\ (inferOnly <=> Below(stack)) /\ stack # <<>>
  BY <1>1, ChecksWhenNotBelow DEF TypingInv
<1>3. Still /\ UNCHANGED <<lazyMainPath, first, tables, probes>>
  BY DEF InferEnter, Still, file, pass
<1>4. CASE Usable(top.a)
  <2>1. ~Below(stack) => top.a \in Typed[Before(export, at)]
    <3> HAVE ~Below(stack)
    <3>1. top.a \in DOMAIN Table /\ Table[top.a]
      BY <1>2, <1>4 DEF Usable
    <3>2. top.a \in Typed[env \ {declaring}]
      BY <3>1 DEF TypingInv, TableInv, CheckedMarkIsEarned, Table
    <3> QED BY <3>2, <1>2, VisibleIsBefore DEF TypingInv
  <2> DEFINE g == Ends(top, "ok")
  <2>2. /\ g \in Frame /\ Good(export, at, g, Below(stack)) /\ ~Modal(g)
        /\ g.fn = top.fn /\ g.a = top.a /\ g.b = top.b
    BY <1>1, <2>1, EndedIsGood
  <2>3. Goto(g)
    BY <1>4 DEF InferEnter
  <2> HIDE DEF g
  <2>4. Machine'
    BY <1>1, <1>2, <1>3, <2>2, <2>3, GotoKeeps DEF TypingInv
  <2> QED BY <1>3, <2>4, StillHeld DEF TypingInv
<1>5. CASE ~Usable(top.a)
  <2> DEFINE g == Onward(top, 1)
  <2>1. 1 \in 1..(Len(Premises(top.a)) + 1)
    BY <1>1, PremiseCount
  <2>2. /\ g \in Frame /\ Good(export, at, g, Below(stack)) /\ ~Modal(g)
        /\ g.fn = top.fn /\ g.a = top.a /\ g.b = top.b
    BY <1>1, <2>1, NothingBefore, NextPremiseIsGood
  <2>3. Goto(g)
    BY <1>5 DEF InferEnter, Onward
  <2> HIDE DEF g
  <2>4. Machine'
    BY <1>1, <1>2, <1>3, <2>2, <2>3, GotoKeeps DEF TypingInv
  <2> QED BY <1>3, <2>4, StillHeld DEF TypingInv
<1> QED BY <1>4, <1>5

\* The premise a frame stands before.
LEMMA PremiseFacts ==
    ASSUME TypingInv, At("infer", "premise")
    PROVE  /\ top \in Frame /\ top.fn = "infer" /\ top.st = "run" /\ top.a \in Exp
           /\ top.pc = "premise" /\ top.n \in 1..(Len(Premises(top.a)) + 1)
           /\ Good(export, at, top, Below(stack))
           /\ ~Below(stack) => Established(top.a, top.n, Before(export, at))
<1>1. /\ top \in Frame /\ Good(export, at, top, Below(stack))
      /\ top.fn = "infer" /\ top.st = "run" /\ top.pc = "premise"
  BY TopFacts DEF TypingInv, Machine, At
<1>2. top.a \in Exp
  BY <1>1 DEF Frame
<1>3. top.n \in 1..(Len(Premises(top.a)) + 1)
  BY <1>1 DEF Good, Shape
<1>4. ~Below(stack) => Established(top.a, top.n, Before(export, at))
  BY <1>1 DEF Good, Derived
<1> QED BY <1>1, <1>2, <1>3, <1>4

\* With one more premise the frame goes on.
LEMMA OneMorePremise ==
    ASSUME NEW e \in Exp, NEW n \in 1..Len(Premises(e)), NEW G,
           Established(e, n, G), Satisfied(Premises(e)[n], G)
    PROVE  Established(e, n + 1, G)
<1>1. Len(Premises(e)) \in Nat
  BY PremiseCount
<1>2. \A i \in 1..(n + 1 - 1) : i \in 1..(n - 1) \/ i = n
  BY <1>1
<1> QED BY <1>2 DEF Established

\* A place before the end moves on by one.
LEMMA NextPlace ==
    ASSUME NEW e \in Exp, NEW n \in 1..(Len(Premises(e)) + 1), n <= Len(Premises(e))
    PROVE  n \in 1..Len(Premises(e)) /\ n + 1 \in 1..(Len(Premises(e)) + 1)
BY PremiseCount

\* A premise is asked for, or waived where nothing is checked.
LEMMA InferPremiseKeeps ==
    ASSUME TypingInv, InferPremise PROVE TypingInv'
<1>1. /\ top \in Frame /\ top.fn = "infer" /\ top.st = "run" /\ top.a \in Exp
      /\ top.pc = "premise" /\ top.n \in 1..(Len(Premises(top.a)) + 1)
      /\ Good(export, at, top, Below(stack))
  BY PremiseFacts DEF InferPremise
<1>2. ~Modal(top) /\ (inferOnly <=> Below(stack)) /\ stack # <<>>
  BY <1>1, ChecksWhenNotBelow DEF TypingInv
<1>3. Still /\ UNCHANGED <<lazyMainPath, first, tables, probes>>
  BY DEF InferPremise, Still, file, pass
<1>4. top.n \in 1..Len(Premises(top.a)) /\ top.n + 1 \in 1..(Len(Premises(top.a)) + 1)
  BY <1>1, NextPlace DEF InferPremise
<1>5. ASSUME Waived, Goto([top EXCEPT !.n = @ + 1]) PROVE Machine'
  <2> DEFINE g == Onward(top, top.n + 1)
  <2>1. Below(stack)
    BY <1>2, <1>5 DEF Waived
  <2>2. /\ g \in Frame /\ Good(export, at, g, Below(stack)) /\ ~Modal(g)
        /\ g.fn = top.fn /\ g.a = top.a /\ g.b = top.b
    BY <1>1, <1>4, <2>1, NextPremiseIsGood
  <2>3. g = [top EXCEPT !.n = @ + 1]
    BY <1>1 DEF Frame, Onward
  <2> HIDE DEF g
  <2> QED BY <1>1, <1>2, <1>3, <1>5, <2>2, <2>3, GotoKeeps DEF TypingInv
<1>6. ASSUME Premise.op # "const", Ask(top, Entry(Premise.op, Premise.s, Premise.t))
      PROVE  Machine'
  <2> DEFINE p == Premises(top.a)[top.n]
  <2>1. p.op \in Operations /\ p.s \in Exp /\ p.t \in Exp /\ p.op # "const"
    BY <1>1, <1>4, <1>6, PremiseIsRight DEF Premise
  <2>2. p.op \in Functions \ {"idle", "check"}
    BY <2>1 DEF Operations, Functions
  <2> DEFINE g == Entry(p.op, p.s, p.t)
  <2>3. /\ g \in Frame /\ Fresh(export, at, g)
        /\ g.fn = p.op /\ g.a = p.s /\ g.b = p.t
    BY <2>1, <2>2, EntryIsFresh
  <2>4. Ask(top, g)
    BY <1>6 DEF Premise
  <2> HIDE DEF g
  <2>5. Link(export, at, top, g)
    BY <1>1, <1>4, <2>2, <2>3 DEF Link, IsPropFunctions
  <2> QED BY <1>1, <1>3, <2>3, <2>4, <2>5, AskKeeps DEF TypingInv
<1>7. Machine'
  BY <1>5, <1>6 DEF InferPremise
<1> QED BY <1>3, <1>7, StillHeld DEF TypingInv

\* A constant is looked up among those admitted before.
LEMMA InferConstKeeps ==
    ASSUME TypingInv, InferConst PROVE TypingInv'
<1>1. /\ top \in Frame /\ top.fn = "infer" /\ top.st = "run" /\ top.a \in Exp
      /\ top.pc = "premise" /\ top.n \in 1..(Len(Premises(top.a)) + 1)
      /\ Good(export, at, top, Below(stack))
      /\ ~Below(stack) => Established(top.a, top.n, Before(export, at))
  BY PremiseFacts DEF InferConst
<1>2. ~Modal(top) /\ (inferOnly <=> Below(stack)) /\ stack # <<>>
  BY <1>1, ChecksWhenNotBelow DEF TypingInv
<1>3. Still /\ UNCHANGED <<lazyMainPath, first, tables, probes>>
  BY DEF InferConst, Still, file, pass
<1>4. top.n \in 1..Len(Premises(top.a)) /\ top.n + 1 \in 1..(Len(Premises(top.a)) + 1)
  BY <1>1, NextPlace DEF InferConst
<1> DEFINE p == Premises(top.a)[top.n]
<1>5. p.op = "const" /\ p.s = top.a
  BY <1>1, <1>4, PremiseIsRight DEF InferConst, Premise
<1>6. ASSUME Visible(ConstOf[top.a]), Goto([top EXCEPT !.n = @ + 1]) PROVE Machine'
  <2> DEFINE g == Onward(top, top.n + 1)
  <2>1. ConstOf[top.a] \in Before(export, at)
    BY <1>2, <1>6, VisibleIsBefore DEF TypingInv, Visible
  <2>2. Satisfied(p, Before(export, at))
    BY <1>5, <2>1, Zenon DEF Satisfied
  <2>3. ~Below(stack) => Established(top.a, top.n + 1, Before(export, at))
    BY <1>1, <1>4, <2>2, OneMorePremise
  <2>4. /\ g \in Frame /\ Good(export, at, g, Below(stack)) /\ ~Modal(g)
        /\ g.fn = top.fn /\ g.a = top.a /\ g.b = top.b
    BY <1>1, <1>4, <2>3, NextPremiseIsGood
  <2>5. g = [top EXCEPT !.n = @ + 1]
    BY <1>1 DEF Frame, Onward
  <2> HIDE DEF g
  <2> QED BY <1>1, <1>2, <1>3, <1>6, <2>4, <2>5, GotoKeeps DEF TypingInv
<1>7. ASSUME NEW st \in Failures, Goto(Ends(top, st)) PROVE Machine'
  <2> DEFINE g == Ends(top, st)
  <2>1. /\ g \in Frame /\ Good(export, at, g, Below(stack)) /\ ~Modal(g)
        /\ g.fn = top.fn /\ g.a = top.a /\ g.b = top.b
    <3>1. st \in {"ok"} \cup Failures /\ st # "ok"
      BY DEF Failures
    <3> QED BY <1>1, <3>1, EndedIsGood
  <2> HIDE DEF g
  <2>2. Goto(g)
    BY <1>7 DEF g
  <2> QED BY <1>1, <1>2, <1>3, <2>1, <2>2, GotoKeeps DEF TypingInv
<1>8. \/ Visible(ConstOf[top.a]) /\ Goto([top EXCEPT !.n = @ + 1])
      \/ Goto(Ends(top, "rejected")) \/ Goto(Ends(top, "error"))
  BY DEF InferConst
<1>9. Machine'
  BY <1>6, <1>7, <1>8 DEF Failures
<1> QED BY <1>3, <1>9, StillHeld DEF TypingInv

\* The premise a caller waits for, and the frame that returns to it.
LEMMA WaitingFacts ==
    ASSUME TypingInv, Returned("infer", "premise")
    PROVE  /\ stack # <<>> /\ Caller \in Frame /\ Caller.fn = "infer" /\ Caller.st = "run"
           /\ ~Modal(Caller) /\ Caller.a \in Exp /\ Caller.n \in 1..Len(Premises(Caller.a))
           /\ Good(export, at, Caller, Under(stack, Len(stack)))
           /\ ~Under(stack, Len(stack)) => Established(Caller.a, Caller.n, Before(export, at))
           /\ top.fn = Premises(Caller.a)[Caller.n].op
           /\ top.a = Premises(Caller.a)[Caller.n].s /\ top.b = Premises(Caller.a)[Caller.n].t
           /\ top.fn \in Functions /\ Shape(top) /\ Sure(top)
           /\ ~Under(stack, Len(stack)) => Derived(export, at, top)
<1>1. /\ stack # <<>> /\ Caller.fn = "infer" /\ Caller.pc = "premise"
  BY DEF Returned
<1>2. /\ Caller \in Frame /\ Caller.st = "run" /\ top \in Frame
      /\ Good(export, at, Caller, Under(stack, Len(stack)))
      /\ Link(export, at, Caller, top)
      /\ Good(export, at, top, Below(stack))
      /\ Below(stack) <=> Under(stack, Len(stack)) \/ Modal(Caller)
  BY <1>1, CallerFacts DEF TypingInv, Machine
<1>3. ~Modal(Caller)
  BY <1>1 DEF Modal, ModalFunctions, IsPropFunctions
<1>4. Caller.a \in Exp /\ top.fn \in Functions
  BY <1>2 DEF Frame
<1>5. /\ Caller.n \in 1..Len(Premises(Caller.a))
      /\ top.fn = Premises(Caller.a)[Caller.n].op
      /\ top.a = Premises(Caller.a)[Caller.n].s /\ top.b = Premises(Caller.a)[Caller.n].t
  BY <1>1, <1>2 DEF Link
<1>6. ~Under(stack, Len(stack)) => Established(Caller.a, Caller.n, Before(export, at))
  BY <1>1, <1>2 DEF Good, Derived
<1>7. Shape(top) /\ Sure(top) /\ (~Under(stack, Len(stack)) => Derived(export, at, top))
  BY <1>2, <1>3 DEF Good
<1> QED BY <1>1, <1>2, <1>3, <1>4, <1>5, <1>6, <1>7

\* A premise that was found to hold does hold, where types are checked.
LEMMA HoldsIsSatisfied ==
    ASSUME TypingInv, Returned("infer", "premise"), Ok,
           Holds(Premises(Caller.a)[Caller.n]), ~Under(stack, Len(stack))
    PROVE  Satisfied(Premises(Caller.a)[Caller.n], Before(export, at))
<1> DEFINE p == Premises(Caller.a)[Caller.n]
           G == Before(export, at)
<1>1. /\ Caller.a \in Exp /\ Caller.n \in 1..Len(Premises(Caller.a))
      /\ top.fn = p.op /\ top.a = p.s /\ top.b = p.t /\ top.fn \in Functions
      /\ Shape(top) /\ Sure(top) /\ Derived(export, at, top) /\ top.st = "ok"
  BY WaitingFacts DEF Ok
<1>2. p.op \in Operations /\ WantsRight(p) /\ p.op # "const"
  BY <1>1, PremiseIsRight DEF Functions
<1> HIDE DEF p, G
<1>3. Holds(p)
  BY DEF p
<1>4. CASE p.op = "infer"
  <2>1. p.s \in Typed[G]
    BY <1>1, <1>4 DEF Derived, G
  <2> QED BY <1>4, <2>1, Zenon DEF Satisfied, p, G
<1>5. CASE p.op = "reduce"
  <2>1. Exposes[p.s] \in p.want
    BY <1>3, <1>5, Zenon DEF Holds
  <2> QED BY <1>5, <2>1, Zenon DEF Satisfied, p, G
<1>6. CASE p.op = "compare"
  <2>1. top.eq
    BY <1>3, <1>6, Zenon DEF Holds
  <2>2. <<p.s, p.t>> \in Equal
    BY <1>1, <1>6, <2>1 DEF Sure
  <2> QED BY <1>6, <2>2, Zenon DEF Satisfied, p, G
<1>7. CASE p.op = "ispropchecked"
  <2>1. "sort" \in p.want \/ top.eq
    BY <1>3, <1>7, Zenon DEF Holds
  <2>2. p.want \in {Sorts, {"prop"}}
    BY <1>2, <1>7 DEF WantsRight
  <2>3. /\ Exposes[TypeOf[p.s]] \in Sorts
        /\ top.eq => Exposes[TypeOf[p.s]] = "prop"
    BY <1>1, <1>7 DEF Sure, IsPropFunctions
  <2>4. Exposes[TypeOf[p.s]] \in p.want
    BY <2>1, <2>2, <2>3 DEF Sorts
  <2> QED BY <1>7, <2>4, Zenon DEF Satisfied, p, G
<1>8. Satisfied(p, G)
  BY <1>2, <1>4, <1>5, <1>6, <1>7 DEF Operations, p, G
<1> QED BY <1>8 DEF p, G

\* A premise has been answered.
LEMMA InferReturnKeeps ==
    ASSUME TypingInv, InferReturn PROVE TypingInv'
<1>1. Returned("infer", "premise") /\ Ok
  BY DEF InferReturn
<1>2. /\ stack # <<>> /\ Caller \in Frame /\ Caller.fn = "infer" /\ Caller.st = "run"
      /\ ~Modal(Caller) /\ Caller.a \in Exp /\ Caller.n \in 1..Len(Premises(Caller.a))
      /\ Good(export, at, Caller, Under(stack, Len(stack)))
      /\ ~Under(stack, Len(stack)) => Established(Caller.a, Caller.n, Before(export, at))
  BY <1>1, WaitingFacts
<1>3. Still /\ UNCHANGED <<lazyMainPath, first, tables, probes>>
  BY DEF InferReturn, Still, file, pass
<1>4. top.st # "run"
  BY <1>1 DEF Ok
<1>5. CASE Holds(Premises(Caller.a)[Caller.n])
  <2> DEFINE g == Onward(Caller, Caller.n + 1)
  <2>1. Caller.n + 1 \in 1..(Len(Premises(Caller.a)) + 1)
    BY <1>2, PremiseCount
  <2>2. ~Under(stack, Len(stack)) =>
          Established(Caller.a, Caller.n + 1, Before(export, at))
    BY <1>1, <1>2, <1>5, HoldsIsSatisfied, OneMorePremise
  <2>3. /\ g \in Frame /\ Good(export, at, g, Under(stack, Len(stack))) /\ ~Modal(g)
        /\ g.fn = Caller.fn /\ g.a = Caller.a /\ g.b = Caller.b
    BY <1>2, <2>1, <2>2, NextPremiseIsGood
  <2>4. g = [Caller EXCEPT !.n = @ + 1]
    BY <1>1, <1>2 DEF Frame, Onward, Returned
  <2> HIDE DEF g
  <2>5. Resume(g)
    BY <1>5, <2>4 DEF InferReturn
  <2> QED BY <1>2, <1>3, <1>4, <2>3, <2>5, ResumeKeeps, StillHeld DEF TypingInv
<1>6. CASE ~Holds(Premises(Caller.a)[Caller.n])
  <2> DEFINE g == Ends(Caller, "rejected")
  <2>1. "rejected" \in {"ok"} \cup Failures /\ "rejected" # "ok"
    BY DEF Failures
  <2>2. /\ g \in Frame /\ Good(export, at, g, Under(stack, Len(stack))) /\ ~Modal(g)
        /\ g.fn = Caller.fn /\ g.a = Caller.a /\ g.b = Caller.b
    BY <1>2, <2>1, EndedIsGood
  <2>3. Resume(g)
    BY <1>6 DEF InferReturn
  <2> HIDE DEF g
  <2> QED BY <1>2, <1>3, <1>4, <2>2, <2>3, ResumeKeeps, StillHeld DEF TypingInv
<1> QED BY <1>5, <1>6

\* A premise has failed.
LEMMA InferFailsKeeps ==
    ASSUME TypingInv, InferFails PROVE TypingInv'
<1>1. Returned("infer", "premise") /\ top.st \in Failures
  BY DEF InferFails
<1>2. /\ stack # <<>> /\ Caller \in Frame /\ Caller.fn = "infer"
      /\ ~Modal(Caller) /\ Good(export, at, Caller, Under(stack, Len(stack)))
  BY <1>1, WaitingFacts
<1>3. Still /\ UNCHANGED <<lazyMainPath, first, tables, probes>>
  BY DEF InferFails, Still, file, pass
<1> DEFINE g == Ends(Caller, top.st)
<1>4. top.st \in {"ok"} \cup Failures /\ top.st # "ok" /\ top.st # "run"
  BY <1>1 DEF Failures
<1>5. /\ g \in Frame /\ Good(export, at, g, Under(stack, Len(stack))) /\ ~Modal(g)
      /\ g.fn = Caller.fn /\ g.a = Caller.a /\ g.b = Caller.b
  BY <1>2, <1>4, EndedIsGood
<1>6. Resume(g)
  BY DEF InferFails
<1> HIDE DEF g
<1> QED BY <1>2, <1>3, <1>4, <1>5, <1>6, ResumeKeeps, StillHeld DEF TypingInv

\* What insertion leaves in a table was there, or is the new entry.
LEMMA MemoKeeps ==
    ASSUME NEW f, NEW e \in Exp, NEW v \in BOOLEAN, NEW G, f \in [DOMAIN f -> BOOLEAN],
           DOMAIN f \subseteq Exp, \A d \in DOMAIN f : f[d] => d \in Typed[G],
           v => e \in Typed[G]
    PROVE  /\ Memo(f, e, v) \in [DOMAIN Memo(f, e, v) -> BOOLEAN]
           /\ DOMAIN Memo(f, e, v) \subseteq Exp
           /\ \A d \in DOMAIN Memo(f, e, v) : Memo(f, e, v)[d] => d \in Typed[G]
BY DEF Memo

\* All premises hold: the type is derived and entered with the mark it earned.
LEMMA InferDoneKeeps ==
    ASSUME TypingInv, InferDone PROVE TypingInv'
<1>1. /\ top \in Frame /\ top.fn = "infer" /\ top.st = "run" /\ top.a \in Exp
      /\ top.pc = "premise" /\ top.n \in 1..(Len(Premises(top.a)) + 1)
      /\ Good(export, at, top, Below(stack))
      /\ ~Below(stack) => Established(top.a, top.n, Before(export, at))
  BY PremiseFacts DEF InferDone
<1>2. ~Modal(top) /\ (inferOnly <=> Below(stack)) /\ stack # <<>>
  BY <1>1, ChecksWhenNotBelow DEF TypingInv
<1>3. Still /\ UNCHANGED <<lazyMainPath, first, probes>>
  BY DEF InferDone, Still, file, pass
<1>4. /\ env \ {declaring} = Before(export, at) /\ Before(export, at) \in Environments
  BY <1>2, VisibleIsBefore DEF TypingInv
<1>5. ~Below(stack) => top.a \in Typed[Before(export, at)]
  <2> HAVE ~Below(stack)
  <2>1. top.n - 1 = Len(Premises(top.a))
    BY <1>1, PremiseCount DEF InferDone
  <2>2. \A i \in 1..Len(Premises(top.a)) : Satisfied(Premises(top.a)[i], Before(export, at))
    BY <1>1, <2>1 DEF Established
  <2> QED BY <1>1, <1>4, <2>2, PremisesType
<1> DEFINE g == Ends(top, "ok")
<1>6. /\ g \in Frame /\ Good(export, at, g, Below(stack)) /\ ~Modal(g)
      /\ g.fn = top.fn /\ g.a = top.a /\ g.b = top.b
  <2>1. "ok" \in {"ok"} \cup Failures
    OBVIOUS
  <2>2. ~Below(stack) /\ "ok" = "ok" => top.a \in Typed[Before(export, at)]
    BY <1>5
  <2> QED BY <1>1, <2>1, <2>2, EndedIsGood
<1>7. Goto(g)
  BY DEF InferDone
<1> HIDE DEF g
<1>8. Machine'
  BY <1>1, <1>2, <1>3, <1>6, <1>7, GotoKeeps DEF TypingInv
<1> DEFINE G == env \ {declaring}
           v == ~inferOnly \/ (top.a \in DOMAIN Kept /\ Kept[top.a])
<1>9. /\ Table \in [DOMAIN Table -> BOOLEAN] /\ DOMAIN Table \subseteq Exp
      /\ \A d \in DOMAIN Table : Table[d] => d \in Typed[G]
  BY DEF TypingInv, TableInv, CheckedMarkIsEarned, Table
<1>10. /\ Kept \in [DOMAIN Kept -> BOOLEAN] /\ DOMAIN Kept \subseteq Exp
       /\ \A d \in DOMAIN Kept : Kept[d] => d \in Typed[G]
  <2>1. CASE Kept = Table
    BY <1>9, <2>1
  <2>2. CASE Kept = <<>>
    <3>1. DOMAIN Kept = {} /\ Kept = [d \in {} |-> Kept[d]]
      BY <2>2
    <3> QED BY <3>1
  <2> QED BY <2>1, <2>2 DEF Kept
<1>11. v \in BOOLEAN /\ (v => top.a \in Typed[G])
  BY <1>2, <1>4, <1>5, <1>10
<1> HIDE DEF v, G
<1> DEFINE t == Memo(Kept, top.a, v)
<1>12. /\ t \in [DOMAIN t -> BOOLEAN] /\ DOMAIN t \subseteq Exp
       /\ \A d \in DOMAIN t : t[d] => d \in Typed[G]
  BY <1>1, <1>10, <1>11, MemoKeeps
<1>13. SetTable(t)
  BY DEF InferDone, v
<1> HIDE DEF t
<1>14. \/ inferCache' = t /\ eagerInferCache' = eagerInferCache
       \/ eagerInferCache' = t /\ inferCache' = inferCache
  BY <1>13 DEF SetTable
<1>15. G' = G
  BY <1>3 DEF Still, G
<1>16. TableInv'
  BY <1>12, <1>14, <1>15 DEF TypingInv, TableInv, CheckedMarkIsEarned, G
<1>17. Held'
  BY <1>3 DEF TypingInv, Held, Still, AcceptedAreJustified
<1> QED BY <1>8, <1>16, <1>17 DEF TypingInv

-----------------------------------------------------------------------------
(* Conversion *)

\* The frames an answer, a failure and a change of place make.
LEMMA ChangedFrames ==
    ASSUME NEW f \in Frame
    PROVE  /\ \A st \in {"ok"} \cup Failures :
                 /\ Ends(f, st) \in Frame /\ Ends(f, st).st = st /\ Ends(f, st).fn = f.fn
                 /\ Ends(f, st).pc = f.pc /\ Ends(f, st).a = f.a /\ Ends(f, st).b = f.b
                 /\ Ends(f, st).n = f.n /\ Ends(f, st).old = f.old
           /\ \A r \in BOOLEAN :
                 /\ Answers(f, r) \in Frame /\ Answers(f, r).st = "ok"
                 /\ Answers(f, r).eq = r /\ Answers(f, r).fn = f.fn
                 /\ Answers(f, r).pc = f.pc /\ Answers(f, r).a = f.a
                 /\ Answers(f, r).b = f.b /\ Answers(f, r).n = f.n
                 /\ Answers(f, r).old = f.old
           /\ \A pc \in Pcs : \A g \in {[f EXCEPT !.pc = pc]} :
                 /\ g \in Frame /\ g.pc = pc /\ g.fn = f.fn /\ g.st = f.st /\ g.a = f.a
                 /\ g.b = f.b /\ g.n = f.n /\ g.eq = f.eq /\ g.old = f.old
BY DEF Frame, Ends, Answers, Failures

\* A frame of conversion that ends is as it should be when its answer is right.
LEMMA EndOfConversion ==
    ASSUME NEW x, NEW k, NEW f \in Frame, NEW u, Good(x, k, f, u),
           f.fn \notin {"infer", "check"}, NEW g \in Frame, g.fn = f.fn, g.pc = f.pc,
           g.a = f.a, g.b = f.b, g.st # "run", Sure(g)
    PROVE  Good(x, k, g, u) /\ ~Modal(g)
<1>1. Shape(g) /\ Derived(x, k, g)
  BY DEF Good, Shape, Derived
<1>2. ~Modal(g)
  BY DEF Modal
<1> QED BY <1>1, <1>2 DEF Good

\* Types of terms are terms.
LEMMA TypesAreTerms == \A e \in Exp : TypeOf[e] \in Exp
BY TypingAssumption

\* A reduction or a comparison that ends answers the truth, or gives up.
LEMMA AnswerKeeps ==
    ASSUME TypingInv, top.fn \in {"reduce", "compare", "isprop"}, top.pc = "enter",
           NEW g \in Frame, g.fn = top.fn, g.pc = top.pc, g.a = top.a, g.b = top.b,
           g.st # "run", Sure(g), Goto(g), Still,
           UNCHANGED <<lazyMainPath, first, tables, probes>>
    PROVE  TypingInv'
<1>1. top \in Frame /\ Good(export, at, top, Below(stack))
  BY TopFacts DEF TypingInv, Machine
<1>2. Good(export, at, g, Below(stack)) /\ ~Modal(g)
  BY <1>1, EndOfConversion
<1>3. ~Modal(top)
  BY DEF Modal
<1>4. Machine'
  BY <1>1, <1>2, <1>3, GotoKeeps DEF TypingInv
<1> QED BY <1>4, StillHeld DEF TypingInv

\* A reduction ends.
LEMMA ReducedKeeps ==
    ASSUME TypingInv, Reduced PROVE TypingInv'
<1>1. top \in Frame /\ top.fn = "reduce" /\ top.pc = "enter"
  BY TopFacts DEF TypingInv, Machine, Reduced, At
<1>2. Still /\ UNCHANGED <<lazyMainPath, first, tables, probes>>
  BY DEF Reduced, Still, file, pass
<1>3. ASSUME NEW g \in Frame, g.fn = top.fn, g.pc = top.pc, g.a = top.a, g.b = top.b,
             g.st # "run", Goto(g)
      PROVE  TypingInv'
  <2>1. Sure(g)
    BY <1>1, <1>3 DEF Sure, IsPropFunctions
  <2> QED BY <1>1, <1>2, <1>3, <2>1, AnswerKeeps
<1>4. ASSUME NEW r \in BOOLEAN, Goto(Answers(top, r)) PROVE TypingInv'
  BY <1>1, <1>3, <1>4, ChangedFrames
<1>5. CASE Goto(Ends(top, "declined"))
  <2>1. "declined" \in {"ok"} \cup Failures
    BY DEF Failures
  <2> QED BY <1>1, <1>3, <1>5, <2>1, ChangedFrames
<1> QED BY <1>4, <1>5 DEF Reduced

\* A comparison ends.
LEMMA ComparedKeeps ==
    ASSUME TypingInv, Compared PROVE TypingInv'
<1>1. top \in Frame /\ top.fn = "compare" /\ top.pc = "enter"
  BY TopFacts DEF TypingInv, Machine, Compared, At
<1>2. Still /\ UNCHANGED <<lazyMainPath, first, tables, probes>>
  BY DEF Compared, Still, file, pass
<1>3. ASSUME NEW g \in Frame, g.fn = top.fn, g.pc = top.pc, g.a = top.a, g.b = top.b,
             g.st # "run", g.st = "ok" /\ g.eq => <<top.a, top.b>> \in Equal, Goto(g)
      PROVE  TypingInv'
  <2>1. Sure(g)
    BY <1>1, <1>3 DEF Sure, IsPropFunctions
  <2> QED BY <1>1, <1>2, <1>3, <2>1, AnswerKeeps
<1>4. CASE <<top.a, top.b>> \in Equal /\ Goto(Answers(top, TRUE))
  BY <1>1, <1>3, <1>4, ChangedFrames
<1>5. CASE Goto(Answers(top, FALSE))
  BY <1>1, <1>3, <1>5, ChangedFrames
<1>6. CASE Goto(Ends(top, "declined"))
  <2>1. "declined" \in {"ok"} \cup Failures
    BY DEF Failures
  <2> QED BY <1>1, <1>3, <1>6, <2>1, ChangedFrames
<1> QED BY <1>4, <1>5, <1>6 DEF Compared

\* is_prop answers from the shape of a type.
LEMMA IsPropByShapeKeeps ==
    ASSUME TypingInv, IsPropByShape PROVE TypingInv'
<1>1. top \in Frame /\ top.fn = "isprop" /\ top.pc = "enter"
  BY TopFacts DEF TypingInv, Machine, IsPropByShape, At
<1>2. Still /\ UNCHANGED <<lazyMainPath, first, tables, probes>>
  BY DEF IsPropByShape, Still, file, pass
<1>3. PICK r \in BOOLEAN : Goto(Answers(top, r)) /\ (r => Exposes[TypeOf[top.a]] = "prop")
  <2>1. ASSUME Goto(Answers(top, Exposes[TypeOf[top.a]] = "prop"))
        PROVE  \E r \in BOOLEAN :
                  Goto(Answers(top, r)) /\ (r => Exposes[TypeOf[top.a]] = "prop")
    <3> WITNESS (Exposes[TypeOf[top.a]] = "prop") \in BOOLEAN
    <3> QED BY <2>1, Zenon
  <2>2. ASSUME Goto(Answers(top, FALSE))
        PROVE  \E r \in BOOLEAN :
                  Goto(Answers(top, r)) /\ (r => Exposes[TypeOf[top.a]] = "prop")
    <3> WITNESS FALSE \in BOOLEAN
    <3> QED BY <2>2, Zenon
  <2> QED BY <2>1, <2>2, Zenon DEF IsPropByShape
<1> DEFINE g == Answers(top, r)
<1>4. /\ g \in Frame /\ g.fn = top.fn /\ g.pc = top.pc /\ g.a = top.a /\ g.b = top.b
      /\ g.st = "ok" /\ g.eq = r
  BY <1>1, ChangedFrames
<1>5. Goto(g)
  BY <1>3
<1> HIDE DEF g
<1>6. Sure(g)
  BY <1>1, <1>3, <1>4 DEF Sure
<1> QED BY <1>1, <1>2, <1>4, <1>5, <1>6, AnswerKeeps

\* Conversion starts an inference of its own.
LEMMA ProbeKeeps ==
    ASSUME TypingInv, Probe PROVE TypingInv'
<1>1. /\ top \in Frame /\ top.fn \in {"reduce", "compare"} /\ top.st = "run"
      /\ Good(export, at, top, Below(stack))
  BY TopFacts DEF TypingInv, Machine, Probe, At
<1>2. Still /\ UNCHANGED <<lazyMainPath, first, tables>>
  BY DEF Probe, Still, file, pass
<1>3. PICK p \in Probes, q \in Probes, fn \in {"proofs", "infer"} :
        Ask(top, Entry(fn, p, q))
  BY DEF Probe
<1>4. p \in Exp /\ q \in Exp /\ fn \in Functions \ {"idle", "check"}
  <2>1. Probes \subseteq Exp
    BY TypingAssumption
  <2> QED BY <2>1 DEF Functions
<1> DEFINE g == Entry(fn, p, q)
<1>5. g \in Frame /\ Fresh(export, at, g) /\ g.fn = fn
  BY <1>4, EntryIsFresh
<1>6. Ask(top, g)
  BY <1>3
<1> HIDE DEF g
<1>7. Link(export, at, top, g)
  BY <1>1, <1>5 DEF Link, IsPropFunctions
<1>8. Machine'
  BY <1>1, <1>2, <1>5, <1>6, <1>7, AskKeeps DEF TypingInv
<1>9. probes' \in 0..MaxProbes
  <2>1. MaxProbes \in Nat
    BY TypingAssumption
  <2> QED BY <2>1 DEF Probe, TypingInv, Held
<1>10. Held'
  BY <1>2, <1>9 DEF TypingInv, Held, Still, AcceptedAreJustified
<1>11. TableInv'
  BY <1>2 DEF TypingInv, TableInv, Still, tables, CheckedMarkIsEarned
<1> QED BY <1>8, <1>10, <1>11 DEF TypingInv

\* The inference that conversion started returns.
LEMMA ProbeReturnKeeps ==
    ASSUME TypingInv, ProbeReturn PROVE TypingInv'
<1>1. /\ stack # <<>> /\ top.st # "run"
      /\ Caller.fn \in {"reduce", "compare"} /\ Caller.pc = "enter"
  BY DEF ProbeReturn, Returned
<1>2. Caller \in Frame /\ Good(export, at, Caller, Under(stack, Len(stack)))
  BY <1>1, CallerFacts DEF TypingInv, Machine
<1>3. Still /\ UNCHANGED <<lazyMainPath, first, tables, probes>>
  BY DEF ProbeReturn, Still, file, pass
<1>4. ~Modal(Caller)
  BY <1>1 DEF Modal, ModalFunctions, IsPropFunctions
<1>5. CASE Resume(Caller)
  <2>1. Machine'
    BY <1>1, <1>2, <1>3, <1>5, ResumeKeeps DEF TypingInv
  <2> QED BY <1>3, <2>1, StillHeld DEF TypingInv
<1>6. ASSUME top.st \in Failures, Resume(Ends(Caller, top.st)) PROVE TypingInv'
  <2> DEFINE g == Ends(Caller, top.st)
  <2>1. /\ g \in Frame /\ g.st # "run" /\ g.st # "ok" /\ g.fn = Caller.fn
        /\ g.pc = Caller.pc /\ g.a = Caller.a /\ g.b = Caller.b
    BY <1>2, <1>6, ChangedFrames DEF Failures
  <2>2. Resume(g)
    BY <1>6
  <2> HIDE DEF g
  <2>3. Sure(g)
    BY <2>1 DEF Sure
  <2>4. Good(export, at, g, Under(stack, Len(stack))) /\ ~Modal(g)
    BY <1>1, <1>2, <2>1, <2>3, EndOfConversion
  <2>5. Machine'
    BY <1>1, <1>2, <1>3, <1>4, <2>1, <2>2, <2>4, ResumeKeeps DEF TypingInv
  <2> QED BY <1>3, <2>5, StillHeld DEF TypingInv
<1> QED BY <1>5, <1>6 DEF ProbeReturn

-----------------------------------------------------------------------------
(* with_infer_only *)

\* The functions that infer without checking, entered.
LEMMA InferOnlyEnterKeeps ==
    ASSUME TypingInv, InferOnlyEnter PROVE TypingInv'
<1>1. /\ top \in Frame /\ top.fn \in ModalFunctions /\ top.pc = "enter" /\ top.st = "run"
      /\ Good(export, at, top, Below(stack)) /\ top.a \in Exp
  BY TopFacts DEF TypingInv, Machine, InferOnlyEnter, At, ModalFunctions, Frame
<1>2. ~Modal(top) /\ (inferOnly <=> Below(stack)) /\ inferOnly \in BOOLEAN
  BY <1>1 DEF Modal, TypingInv, Machine, ModeInv, Held
<1>3. UNCHANGED <<export, at, outcome, env, declaring, forced>>
      /\ UNCHANGED <<lazyMainPath, first, tables, probes>> /\ inferOnly' = TRUE
  BY DEF InferOnlyEnter, file, pass
<1> DEFINE f == [top EXCEPT !.old = inferOnly, !.pc = "typed"]
           g == Entry("infer", top.a, top.a)
<1>4. /\ f \in Frame /\ f.fn = top.fn /\ f.a = top.a /\ f.b = top.b
      /\ f.st = "run" /\ f.pc = "typed" /\ f.old = inferOnly
  BY <1>1, <1>2 DEF Frame, Pcs
<1>5. g \in Frame /\ Fresh(export, at, g) /\ g.fn = "infer" /\ g.a = top.a
  <2>1. g.fn = "infer" /\ g.a = top.a
    BY DEF Entry
  <2> QED BY <1>1, <2>1, EntryIsFresh DEF Functions
<1>6. Ask(f, g)
  BY DEF InferOnlyEnter
<1> HIDE DEF f, g
<1>7. Modal(f)
  BY <1>1, <1>4 DEF Modal
<1>8. Good(export, at, f, Below(stack))
  <2>1. Shape(f) /\ Sure(f) /\ Derived(export, at, f)
    BY <1>1, <1>4 DEF Shape, Sure, Derived, ModalFunctions, IsPropFunctions
  <2> QED BY <1>2, <1>4, <2>1 DEF Good
<1>9. Link(export, at, f, g)
  BY <1>1, <1>4, <1>5 DEF Link, ModalFunctions, IsPropFunctions
<1>10. /\ StackInv' /\ BaseInv'
       /\ Below(stack') \/ Modal(top') <=> Below(stack) \/ Modal(f)
  <2>1. top.fn \notin {"idle", "check"}
    BY <1>1 DEF ModalFunctions, IsPropFunctions
  <2> QED BY <1>3, <1>4, <1>5, <1>6, <1>8, <1>9, <2>1, AskStack DEF TypingInv
<1>11. Machine'
  BY <1>3, <1>7, <1>10 DEF Machine, ModeInv
<1>12. Held'
  BY <1>3 DEF TypingInv, Held, AcceptedAreJustified
<1>13. TableInv'
  BY <1>3 DEF TypingInv, TableInv, tables, CheckedMarkIsEarned
<1> QED BY <1>11, <1>12, <1>13 DEF TypingInv

\* The innermost caller, when it is a function that infers without checking.
LEMMA ModalCaller ==
    ASSUME TypingInv, stack # <<>>, Caller.fn \in ModalFunctions
    PROVE  /\ Caller \in Frame /\ Caller.st = "run" /\ Modal(Caller)
           /\ Good(export, at, Caller, Under(stack, Len(stack)))
           /\ Caller.fn \in IsPropFunctions => Caller.pc \in {"typed", "sort"}
           /\ Caller.fn = "proofs" => Caller.pc \in {"typed", "prop", "typedB", "same"}
           /\ Caller.fn \in IsPropFunctions /\ Caller.pc = "sort" =>
                top.a = TypeOf[Caller.a]
<1>1. /\ Caller \in Frame /\ Caller.st = "run"
      /\ Good(export, at, Caller, Under(stack, Len(stack)))
      /\ Link(export, at, Caller, top)
  BY CallerFacts DEF TypingInv, Machine
<1>2. /\ Caller.fn \in IsPropFunctions => Caller.pc \in {"typed", "sort"}
      /\ Caller.fn = "proofs" => Caller.pc \in {"typed", "prop", "typedB", "same"}
      /\ Caller.fn \in IsPropFunctions /\ Caller.pc = "sort" => top.a = TypeOf[Caller.a]
  BY <1>1 DEF Link, Good, Shape
<1>3. Modal(Caller)
  BY <1>1, <1>2 DEF Modal, ModalFunctions, IsPropFunctions
<1> QED BY <1>1, <1>2, <1>3

\* Such a function goes on to its next question.
LEMMA ModalGoesOn ==
    ASSUME TypingInv, stack # <<>>, Caller.fn \in ModalFunctions, top.st # "run",
           NEW pc \in Pcs \ {"enter"}, Resume([Caller EXCEPT !.pc = pc]), Still,
           UNCHANGED <<lazyMainPath, first, tables, probes>>,
           Caller.fn \in IsPropFunctions => pc = "sort",
           Caller.fn = "proofs" => pc \in {"prop", "typedB", "same"}
    PROVE  TypingInv'
<1> DEFINE f == [Caller EXCEPT !.pc = pc]
<1>1. /\ Caller \in Frame /\ Caller.st = "run" /\ Modal(Caller)
      /\ Good(export, at, Caller, Under(stack, Len(stack)))
  BY ModalCaller
<1>2. /\ f \in Frame /\ f.pc = pc /\ f.fn = Caller.fn /\ f.st = "run"
      /\ f.a = Caller.a /\ f.b = Caller.b /\ f.old = Caller.old
  BY <1>1, ChangedFrames
<1>3. Resume(f)
  OBVIOUS
<1> HIDE DEF f
<1>4. Modal(f)
  BY <1>2 DEF Modal
<1>5. Good(export, at, f, Under(stack, Len(stack)))
  <2>1. Shape(f) /\ Sure(f) /\ Derived(export, at, f)
    BY <1>2 DEF Shape, Sure, Derived, ModalFunctions, IsPropFunctions
  <2>2. f.old <=> Under(stack, Len(stack))
    BY <1>1, <1>2 DEF Good
  <2> QED BY <2>1, <2>2 DEF Good
<1>6. Caller.fn # "check"
  BY DEF ModalFunctions, IsPropFunctions
<1>7. Machine'
  BY <1>1, <1>2, <1>3, <1>4, <1>5, <1>6, ResumeKeeps DEF TypingInv
<1> QED BY <1>7, StillHeld DEF TypingInv

\* Such a function ends with an answer that is right, or with a failure.
LEMMA ModalEnds ==
    ASSUME TypingInv, stack # <<>>, Caller.fn \in ModalFunctions,
           NEW f \in Frame, f.fn = Caller.fn, f.pc = Caller.pc, f.a = Caller.a,
           f.b = Caller.b, f.old = Caller.old, f.st # "run", Sure(f), Leave(f),
           UNCHANGED <<file, pass, forced, tables, probes>>
    PROVE  TypingInv'
<1>1. /\ Caller \in Frame /\ Caller.st = "run" /\ Modal(Caller)
      /\ Good(export, at, Caller, Under(stack, Len(stack)))
  BY ModalCaller
<1>2. Good(export, at, f, Under(stack, Len(stack))) /\ ~Modal(f)
  <2>1. Caller.fn \notin {"infer", "check"}
    BY DEF ModalFunctions, IsPropFunctions
  <2> QED BY <1>1, <2>1, EndOfConversion
<1>3. UNCHANGED <<export, at, outcome, env, declaring, forced>>
      /\ UNCHANGED <<lazyMainPath, first, tables, probes>>
  BY DEF file, pass
<1>4. Machine' /\ inferOnly' \in BOOLEAN
  BY <1>1, <1>2, <1>3, LeaveKeeps DEF TypingInv
<1>5. Held'
  BY <1>3, <1>4 DEF TypingInv, Held, AcceptedAreJustified
<1>6. TableInv'
  BY <1>3 DEF TypingInv, TableInv, tables, CheckedMarkIsEarned
<1> QED BY <1>4, <1>5, <1>6 DEF TypingInv

\* What a failure is to the caller: FALSE, or a failure.
LEMMA OutcomeKeeps ==
    ASSUME TypingInv, stack # <<>>, Caller.fn \in ModalFunctions, top.st \in Failures,
           Leave(Outcome(Caller)), UNCHANGED <<file, pass, forced, tables, probes>>
    PROVE  TypingInv'
<1>1. Caller \in Frame
  BY ModalCaller
<1> DEFINE f == Outcome(Caller)
<1>2. f = Ends(Caller, top.st) \/ (f = Answers(Caller, FALSE) /\ Caller.fn # "ispropchecked")
  BY DEF Outcome
<1>3. Leave(f)
  OBVIOUS
<1> HIDE DEF f
<1>4. /\ f \in Frame /\ f.fn = Caller.fn /\ f.pc = Caller.pc /\ f.a = Caller.a
      /\ f.b = Caller.b /\ f.old = Caller.old /\ f.st # "run"
      /\ f.st = "ok" => ~f.eq /\ f.fn # "ispropchecked"
  <2>1. CASE f = Ends(Caller, top.st)
    <3>1. top.st \in {"ok"} \cup Failures /\ top.st # "ok" /\ top.st # "run"
      BY DEF Failures
    <3> QED BY <1>1, <2>1, <3>1, ChangedFrames
  <2>2. CASE f = Answers(Caller, FALSE) /\ Caller.fn # "ispropchecked"
    BY <1>1, <2>2, ChangedFrames
  <2> QED BY <1>2, <2>1, <2>2
<1>5. Sure(f)
  BY <1>4 DEF Sure
<1> QED BY <1>3, <1>4, <1>5, ModalEnds

\* is_prop and is_prop_checked, answered.
LEMMA IsPropReturnKeeps ==
    ASSUME TypingInv, IsPropReturn PROVE TypingInv'
<1>1. stack # <<>> /\ Caller.fn \in IsPropFunctions /\ Caller.fn \in ModalFunctions
  BY DEF IsPropReturn, ModalFunctions
<1>2. UNCHANGED <<file, pass, forced, tables, probes>>
  BY DEF IsPropReturn
<1>3. Caller \in Frame
  BY <1>1, ModalCaller
<1>4. ASSUME Ok, Resume([Caller EXCEPT !.pc = "sort"]), UNCHANGED inferOnly
      PROVE  TypingInv'
  <2>1. Still /\ UNCHANGED <<lazyMainPath, first, tables, probes>> /\ top.st # "run"
    BY <1>2, <1>4 DEF Still, file, pass, Ok
  <2>2. "sort" \in Pcs \ {"enter"} /\ Caller.fn # "proofs"
    BY <1>1 DEF Pcs, IsPropFunctions
  <2> QED BY <1>1, <1>4, <2>1, <2>2, ModalGoesOn
<1>5. ASSUME NEW f \in Frame, f.fn = Caller.fn, f.pc = Caller.pc, f.a = Caller.a,
             f.b = Caller.b, f.old = Caller.old, f.st # "run", Sure(f), Leave(f)
      PROVE  TypingInv'
  BY <1>1, <1>2, <1>5, ModalEnds
<1>6. ASSUME Returned(Caller.fn, "sort"), Exposes[top.a] \in Sorts,
             NEW r \in BOOLEAN, r => Exposes[top.a] = "prop", Leave(Answers(Caller, r))
      PROVE  TypingInv'
  <2>1. top.a = TypeOf[Caller.a]
    BY <1>1, <1>6, ModalCaller DEF Returned
  <2> DEFINE f == Answers(Caller, r)
  <2>2. /\ f \in Frame /\ f.fn = Caller.fn /\ f.pc = Caller.pc /\ f.a = Caller.a
        /\ f.b = Caller.b /\ f.old = Caller.old /\ f.st = "ok" /\ f.eq = r
    BY <1>3, ChangedFrames
  <2>3. Leave(f)
    BY <1>6
  <2> HIDE DEF f
  <2>4. Sure(f)
    BY <1>1, <1>6, <2>1, <2>2 DEF Sure, IsPropFunctions
  <2> QED BY <1>5, <2>2, <2>3, <2>4
<1>7. ASSUME Caller.fn = "isprop", Leave(Answers(Caller, FALSE)) PROVE TypingInv'
  <2> DEFINE f == Answers(Caller, FALSE)
  <2>1. /\ f \in Frame /\ f.fn = Caller.fn /\ f.pc = Caller.pc /\ f.a = Caller.a
        /\ f.b = Caller.b /\ f.old = Caller.old /\ f.st = "ok" /\ f.eq = FALSE
    BY <1>3, ChangedFrames
  <2>2. Leave(f)
    BY <1>7
  <2> HIDE DEF f
  <2>3. Sure(f)
    BY <1>7, <2>1 DEF Sure, IsPropFunctions
  <2> QED BY <1>5, <2>1, <2>2, <2>3
<1>8. ASSUME Leave(Ends(Caller, "rejected")) PROVE TypingInv'
  <2> DEFINE f == Ends(Caller, "rejected")
  <2>1. /\ f \in Frame /\ f.fn = Caller.fn /\ f.pc = Caller.pc /\ f.a = Caller.a
        /\ f.b = Caller.b /\ f.old = Caller.old /\ f.st = "rejected"
    <3>1. "rejected" \in {"ok"} \cup Failures
      BY DEF Failures
    <3> QED BY <1>3, <3>1, ChangedFrames
  <2>2. Leave(f)
    BY <1>8
  <2> HIDE DEF f
  <2>3. Sure(f)
    BY <2>1 DEF Sure
  <2> QED BY <1>5, <2>1, <2>2, <2>3
<1>9. CASE Exposes[top.a] = "prop"
  <2>1. (Exposes[top.a] = "prop") = TRUE /\ Exposes[top.a] \in Sorts
    BY <1>9 DEF Sorts
  <2> QED BY <1>1, <1>2, <1>4, <1>6, <1>7, <1>8, <1>9, <2>1, OutcomeKeeps DEF IsPropReturn
<1>10. CASE Exposes[top.a] # "prop"
  <2>1. (Exposes[top.a] = "prop") = FALSE
    BY <1>10
  <2> QED BY <1>1, <1>2, <1>4, <1>6, <1>7, <1>8, <1>10, <2>1, OutcomeKeeps DEF IsPropReturn
<1> QED BY <1>9, <1>10

\* proofs_of_same_prop, answered.
LEMMA ProofsReturnKeeps ==
    ASSUME TypingInv, ProofsReturn PROVE TypingInv'
<1>1. stack # <<>> /\ Caller.fn = "proofs" /\ Caller.fn \in ModalFunctions
  BY DEF ProofsReturn, ModalFunctions
<1>2. UNCHANGED <<file, pass, forced, tables, probes>>
  BY DEF ProofsReturn
<1>3. Caller \in Frame /\ Caller.pc \in {"typed", "prop", "typedB", "same"}
  BY <1>1, ModalCaller
<1> DEFINE next == CASE Caller.pc = "typed" -> "prop" [] Caller.pc = "prop" -> "typedB"
                     [] Caller.pc = "typedB" -> "same"
<1>4. Caller.pc # "same" => next \in {"prop", "typedB", "same"}
  <2>1. CASE Caller.pc = "typed"
    <3>1. next = "prop"
      BY <2>1, Zenon
    <3> QED BY <3>1
  <2>2. CASE Caller.pc = "prop"
    <3>1. next = "typedB"
      BY <2>2, Zenon
    <3> QED BY <3>1
  <2>3. CASE Caller.pc = "typedB"
    <3>1. next = "same"
      BY <2>3, Zenon
    <3> QED BY <3>1
  <2> QED BY <1>3, <2>1, <2>2, <2>3
<1>5. ASSUME Ok, Caller.pc # "same", Resume([Caller EXCEPT !.pc = next]), UNCHANGED inferOnly
      PROVE  TypingInv'
  <2>1. Still /\ UNCHANGED <<lazyMainPath, first, tables, probes>> /\ top.st # "run"
    BY <1>2, <1>5 DEF Still, file, pass, Ok
  <2> HIDE DEF next
  <2>2. /\ next \in Pcs \ {"enter"} /\ next \in {"prop", "typedB", "same"}
        /\ Caller.fn \notin IsPropFunctions
    BY <1>1, <1>4, <1>5 DEF Pcs, IsPropFunctions
  <2> QED BY <1>1, <1>5, <2>1, <2>2, ModalGoesOn
<1>6. ASSUME NEW r \in BOOLEAN, Leave(Answers(Caller, r)) PROVE TypingInv'
  <2> DEFINE f == Answers(Caller, r)
  <2>1. /\ f \in Frame /\ f.fn = Caller.fn /\ f.pc = Caller.pc /\ f.a = Caller.a
        /\ f.b = Caller.b /\ f.old = Caller.old /\ f.st = "ok" /\ f.eq = r
    BY <1>3, ChangedFrames
  <2>2. Leave(f)
    BY <1>6
  <2> HIDE DEF f, next
  <2>3. Sure(f)
    BY <1>1, <2>1 DEF Sure, IsPropFunctions
  <2> QED BY <1>1, <1>2, <2>1, <2>2, <2>3, ModalEnds
<1>7. top.eq \in BOOLEAN
  BY TopFacts DEF TypingInv, Machine, Frame
<1>8. \/ Ok /\ Caller.pc # "same" /\ Resume([Caller EXCEPT !.pc = next])
         /\ UNCHANGED inferOnly
      \/ Leave(Answers(Caller, FALSE))
      \/ Leave(Answers(Caller, top.eq))
      \/ top.st \in Failures /\ Leave(Outcome(Caller))
  BY Zenon DEF ProofsReturn
<1> HIDE DEF next
<1> QED BY <1>1, <1>2, <1>5, <1>6, <1>7, <1>8, OutcomeKeeps

\* The questions of the functions that infer without checking.
LEMMA InferOnlyAsksKeeps ==
    ASSUME TypingInv, InferOnlyAsks PROVE TypingInv'
<1>1. /\ top \in Frame /\ top.fn \in ModalFunctions /\ top.pc # "enter" /\ top.st = "run"
      /\ Good(export, at, top, Below(stack)) /\ top.a \in Exp /\ top.b \in Exp
  BY TopFacts DEF TypingInv, Machine, InferOnlyAsks, At, ModalFunctions, IsPropFunctions, Frame
<1>2. Still /\ UNCHANGED <<lazyMainPath, first, tables, probes>>
  BY DEF InferOnlyAsks, Still, file, pass
<1>3. TypeOf[top.a] \in Exp /\ TypeOf[top.b] \in Exp
  BY <1>1, TypesAreTerms
<1>4. top.fn \notin {"idle", "check"}
  BY <1>1 DEF ModalFunctions, IsPropFunctions
<1>5. ASSUME NEW fn \in Functions \ {"idle", "check"}, NEW a \in Exp, NEW b \in Exp,
             Ask(top, Entry(fn, a, b)),
             top.fn \in IsPropFunctions => top.pc = "sort" /\ fn = "reduce" /\ a = TypeOf[top.a]
      PROVE  TypingInv'
  <2> DEFINE g == Entry(fn, a, b)
  <2>1. g \in Frame /\ Fresh(export, at, g) /\ g.fn = fn /\ g.a = a
    BY EntryIsFresh
  <2>2. Ask(top, g)
    BY <1>5
  <2> HIDE DEF g
  <2>3. Link(export, at, top, g)
    BY <1>1, <1>5, <2>1 DEF Link, ModalFunctions, IsPropFunctions
  <2>4. Machine'
    BY <1>1, <1>2, <1>4, <2>1, <2>2, <2>3, AskKeeps DEF TypingInv
  <2> QED BY <1>2, <2>4, StillHeld DEF TypingInv
<1>6. {"reduce", "isprop", "infer", "compare"} \subseteq Functions \ {"idle", "check"}
  BY DEF Functions
<1>7. CASE top.fn \in IsPropFunctions /\ At(top.fn, "sort")
           /\ Ask(top, Entry("reduce", TypeOf[top.a], TypeOf[top.a]))
  <2>1. top.pc = "sort"
    BY <1>7 DEF At
  <2> QED BY <1>3, <1>5, <1>6, <1>7, <2>1
<1>8. ASSUME top.fn = "proofs" PROVE top.fn \notin IsPropFunctions
  BY <1>8 DEF IsPropFunctions
<1>9. CASE At("proofs", "prop") /\ Ask(top, Entry("isprop", TypeOf[top.a], TypeOf[top.a]))
  BY <1>3, <1>5, <1>6, <1>8, <1>9 DEF At
<1>10. CASE At("proofs", "typedB") /\ Ask(top, Entry("infer", top.b, top.b))
  BY <1>1, <1>5, <1>6, <1>8, <1>10 DEF At
<1>11. CASE At("proofs", "same") /\ Ask(top, Entry("compare", TypeOf[top.a], TypeOf[top.b]))
  BY <1>3, <1>5, <1>6, <1>8, <1>11 DEF At
<1> QED BY <1>7, <1>9, <1>10, <1>11 DEF InferOnlyAsks

-----------------------------------------------------------------------------
(* check_decl_once *)

\* The declaration in hand, while it is checked.
LEMMA RecordFacts ==
    ASSUME Held, at <= Len(export)
    PROVE  /\ record \in Decl /\ record.name \in Name /\ record.typ \in Exp
           /\ record.value \in Exp \cup {NoExp} /\ at \in 1..Len(export)
           /\ Len(export) \in Nat
           /\ Before(export, at) \in Environments /\ Before(export, at) \subseteq Name
<1>1. export \in Seq(Decl) /\ at \in 1..(Len(export) + 1) /\ Len(export) \in Nat
  BY TypingAssumption DEF Held
<1>2. at \in 1..Len(export)
  BY <1>1
<1>3. record \in Decl
  BY <1>1, <1>2 DEF record
<1>4. /\ record.name \in Name /\ record.typ \in Exp
      /\ record.value \in Exp \cup {NoExp}
  BY <1>3 DEF Decl
<1> QED BY <1>1, <1>2, <1>3, <1>4, BeforeIsEnvironment DEF Held

\* A check that runs: it is alone, and nothing is inferred below it.
LEMMA CheckTop ==
    ASSUME Machine, Held, top.fn = "check"
    PROVE  /\ stack = <<>> /\ top \in Frame /\ ~Modal(top) /\ ~Below(stack)
           /\ inferOnly = FALSE /\ Shape(top) /\ Derived(export, at, top)
           /\ outcome = "none" /\ at <= Len(export)
           /\ env = Before(export, at) \cup {record.name}
           /\ record.name \notin Before(export, at) /\ ~record.unsafe
           /\ top.pc # "enter" => declaring = record.name
           /\ forced <=> top.st = "run" /\ top.pc = "rematch"
<1>1. stack = <<>>
  BY BaseFacts
<1>2. ~Below(stack)
  BY <1>1 DEF Below
<1>3. ~Modal(top)
  BY DEF Modal, ModalFunctions, IsPropFunctions
<1>4. top \in Frame /\ Good(export, at, top, Below(stack))
  BY TopFacts DEF Machine
<1>5. Shape(top) /\ Derived(export, at, top)
  BY <1>2, <1>4 DEF Good
<1>6. inferOnly = FALSE
  BY <1>2, <1>3 DEF Machine, ModeInv, Held
<1>7. Root(top, stack) = top
  BY <1>1 DEF Root
<1> QED BY <1>1, <1>2, <1>3, <1>4, <1>5, <1>6, <1>7 DEF Machine, BaseInv

\* A check that waits: it is the only caller, and what it waited for was checked.
LEMMA CheckCaller ==
    ASSUME Machine, Held, stack # <<>>, Caller.fn = "check", top.st # "run"
    PROVE  /\ SubSeq(stack, 1, Len(stack) - 1) = <<>>
           /\ Caller \in Frame /\ Caller.st = "run" /\ inferOnly = FALSE
           /\ Shape(Caller) /\ Derived(export, at, Caller)
           /\ Sure(top) /\ Derived(export, at, top) /\ Link(export, at, Caller, top)
           /\ outcome = "none" /\ at <= Len(export)
           /\ env = Before(export, at) \cup {record.name} /\ declaring = record.name
           /\ record.name \notin Before(export, at) /\ ~record.unsafe
           /\ forced <=> Caller.pc \in {"rescue", "rematch"}
<1>1. Len(stack) = 1 /\ stack \in Seq(Frame)
  BY BaseFacts, TopFacts DEF Machine
<1>2. SubSeq(stack, 1, Len(stack) - 1) = <<>>
  BY <1>1, AllButLast
<1>3. ~Modal(Caller) /\ ~Modal(top)
  BY DEF Modal, ModalFunctions, IsPropFunctions
<1>4. ~Under(stack, Len(stack))
  BY <1>1 DEF Under
<1>5. /\ Caller \in Frame /\ Caller.st = "run"
      /\ Good(export, at, Caller, Under(stack, Len(stack)))
      /\ Link(export, at, Caller, top)
      /\ Good(export, at, top, Below(stack))
      /\ Below(stack) <=> Under(stack, Len(stack)) \/ Modal(Caller)
  BY CallerFacts DEF Machine
<1>6. /\ Shape(Caller) /\ Derived(export, at, Caller)
      /\ Sure(top) /\ Derived(export, at, top)
  BY <1>3, <1>4, <1>5 DEF Good
<1>7. inferOnly = FALSE
  BY <1>3, <1>4, <1>5 DEF Machine, ModeInv, Held
<1>8. Root(top, stack) = Caller
  BY <1>1 DEF Root, Caller
<1>9. Caller.pc # "enter"
  BY <1>5 DEF Link
<1> QED BY <1>1, <1>2, <1>5, <1>6, <1>7, <1>8, <1>9 DEF Machine, BaseInv

\* The check of the declaration in hand, alone on the stack, as it should be.
LEMMA CheckAlone ==
    ASSUME NEW f \in Frame, f.fn = "check", Shape(f), Derived(export, at, f),
           top' = f, stack' = <<>>, inferOnly' = FALSE,
           UNCHANGED <<export, at, outcome>>,
           outcome = "none", at <= Len(export),
           env' = Before(export, at) \cup {record.name},
           record.name \notin Before(export, at), ~record.unsafe,
           f.pc # "enter" => declaring' = record.name,
           forced' <=> f.st = "run" /\ f.pc = "rematch"
    PROVE  Machine'
<1>1. ~Modal(f)
  BY DEF Modal, ModalFunctions, IsPropFunctions
<1>2. ~Below(<<>>) /\ <<>> \in Seq(Frame) /\ Len(<<>>) = 0
  BY DEF Below
<1>3. Good(export, at, f, Below(<<>>))
  <2>1. Sure(f)
    BY DEF Sure, IsPropFunctions
  <2> QED BY <1>1, <2>1 DEF Good
<1>4. StackOK(export, at, f, <<>>)
  BY <1>2, <1>3 DEF StackOK
<1>5. StackInv'
  BY <1>4 DEF StackInv
<1>6. ModeInv'
  BY <1>1, <1>2 DEF ModeInv
<1>7. Root(top', stack') = f /\ record' = record /\ Before(export, at)' = Before(export, at)
  BY DEF Root, record, Before
<1>8. BaseInv'
  BY <1>7 DEF BaseInv
<1> QED BY <1>5, <1>6, <1>8 DEF Machine

\* The check waits for a call of its own.
LEMMA CheckWaits ==
    ASSUME Machine, Held, top.fn = "check", NEW f \in Frame, f.fn = "check", f.st = "run",
           f.a = top.a, f.b = top.b, f.pc = top.pc, f.pc # "enter", f.old = FALSE,
           NEW fn \in {"infer", "reduce", "compare"}, NEW a \in Exp, NEW b \in Exp,
           Link(export, at, f, Entry(fn, a, b)), Ask(f, Entry(fn, a, b)),
           UNCHANGED <<export, at, outcome, env, declaring, inferOnly>>,
           forced' <=> f.pc \in {"rescue", "rematch"}
    PROVE  Machine'
<1>1. /\ stack = <<>> /\ top \in Frame /\ ~Below(stack) /\ inferOnly = FALSE
      /\ Shape(top) /\ Derived(export, at, top) /\ outcome = "none" /\ at <= Len(export)
      /\ env = Before(export, at) \cup {record.name}
      /\ record.name \notin Before(export, at) /\ ~record.unsafe
      /\ declaring = record.name
  BY CheckTop
<1>2. Shape(f) /\ Derived(export, at, f) /\ Sure(f)
  BY <1>1 DEF Shape, Derived, Sure, IsPropFunctions
<1>3. ~Modal(f)
  BY DEF Modal, ModalFunctions, IsPropFunctions
<1>4. Good(export, at, f, Below(stack))
  BY <1>2, <1>3 DEF Good
<1> DEFINE g == Entry(fn, a, b)
<1>5. g \in Frame /\ Fresh(export, at, g)
  BY EntryIsFresh DEF Functions
<1>6. Ask(f, g) /\ Link(export, at, f, g)
  OBVIOUS
<1> HIDE DEF g
<1>7. Good(export, at, g, Below(stack) \/ Modal(f)) /\ ~Modal(g)
  BY <1>5 DEF Fresh, Good
<1>8. StackOK(export, at, g, Append(stack, f))
  BY <1>4, <1>5, <1>6, <1>7, Push DEF Machine, StackInv
<1>9. StackInv'
  BY <1>6, <1>8 DEF StackInv, Ask
<1>10. stack' = <<f>> /\ top' = g
  BY <1>1, <1>6 DEF Ask
<1>11. ~Below(stack')
  BY <1>3, <1>10 DEF Below
<1>12. ModeInv'
  BY <1>1, <1>7, <1>10, <1>11 DEF ModeInv
<1>13. Root(top', stack') = f /\ stack' # <<>> /\ record' = record
       /\ Before(export, at)' = Before(export, at)
  BY <1>10 DEF Root, record, Before
<1>14. BaseInv'
  BY <1>1, <1>13 DEF BaseInv
<1> QED BY <1>9, <1>12, <1>14 DEF Machine

\* The tables start empty, the declaration is hidden from itself.
LEMMA CheckHeaderKeeps ==
    ASSUME TypingInv, CheckHeader PROVE TypingInv'
<1>1. /\ stack = <<>> /\ top \in Frame /\ top.fn = "check" /\ top.pc = "enter"
      /\ top.st = "run" /\ inferOnly = FALSE /\ ~forced
      /\ Shape(top) /\ outcome = "none" /\ at <= Len(export)
      /\ env = Before(export, at) \cup {record.name}
      /\ record.name \notin Before(export, at) /\ ~record.unsafe
  BY CheckTop DEF TypingInv, CheckHeader, At
<1>2. /\ UNCHANGED <<export, at, outcome, env, inferOnly, forced, lazyMainPath, first, probes>>
      /\ inferCache' = <<>> /\ eagerInferCache' = <<>>
  BY DEF CheckHeader, file
<1>3. record.name \in Name
  BY <1>1, RecordFacts DEF TypingInv
<1>4. ASSUME record.dup, Goto(Ends(top, "rejected")), UNCHANGED declaring
      PROVE  Machine' /\ declaring' \in Name \cup {NoName}
  <2> DEFINE f == Ends(top, "rejected")
  <2>1. /\ f \in Frame /\ f.fn = "check" /\ f.pc = "enter" /\ f.st = "rejected"
        /\ f.old = top.old
    <3>1. "rejected" \in {"ok"} \cup Failures
      BY DEF Failures
    <3> QED BY <1>1, <3>1, ChangedFrames
  <2>2. top' = f /\ stack' = <<>>
    BY <1>1, <1>4 DEF Goto
  <2> HIDE DEF f
  <2>3. Shape(f) /\ Derived(export, at, f)
    BY <1>1, <2>1 DEF Shape, Derived, IsPropFunctions
  <2>4. Machine'
    BY <1>1, <1>2, <2>1, <2>2, <2>3, CheckAlone
  <2> QED BY <1>4, <2>4 DEF TypingInv, Held
<1>5. ASSUME ~record.dup, Goto([top EXCEPT !.pc = "type"]), declaring' = record.name
      PROVE  Machine' /\ declaring' \in Name \cup {NoName}
  <2> DEFINE f == [top EXCEPT !.pc = "type"]
  <2>1. /\ f \in Frame /\ f.fn = "check" /\ f.pc = "type" /\ f.st = "run"
        /\ f.old = top.old
    BY <1>1 DEF Frame, Pcs
  <2>2. top' = f /\ stack' = <<>>
    BY <1>1, <1>5 DEF Goto
  <2> HIDE DEF f
  <2>3. Shape(f) /\ Derived(export, at, f)
    BY <1>1, <1>5, <2>1 DEF Shape, Derived, IsPropFunctions, record
  <2>4. Machine'
    BY <1>1, <1>2, <1>5, <2>1, <2>2, <2>3, CheckAlone
  <2> QED BY <1>3, <1>5, <2>4
<1>6. Machine' /\ declaring' \in Name \cup {NoName}
  BY <1>4, <1>5 DEF CheckHeader
<1>7. Held'
  BY <1>2, <1>6 DEF TypingInv, Held, AcceptedAreJustified
<1>8. TableInv'
  BY <1>2 DEF TableInv, CheckedMarkIsEarned
<1> QED BY <1>6, <1>7, <1>8 DEF TypingInv

\* The rest of the state during a check, in which only `forced` may change.
LEMMA CheckHeld ==
    ASSUME Held, TableInv, forced' \in BOOLEAN,
           UNCHANGED <<file, pass, inferOnly, tables, probes>>
    PROVE  Held' /\ TableInv'
BY DEF Held, TableInv, file, pass, tables, AcceptedAreJustified, CheckedMarkIsEarned

\* What the check asks at each place.
Asked(fn, a, b) ==
    /\ fn \in {"infer", "reduce", "compare"} /\ a \in Exp /\ b \in Exp
    /\ top.pc = "type" => fn = "infer" /\ a = record.typ
    /\ top.pc = "sort" => fn = "reduce" /\ a = TypeOf[record.typ]
    /\ top.pc = "value" => fn = "infer" /\ a = record.value
    /\ top.pc \in {"match", "rematch"} =>
          fn = "compare" /\ a = TypeOf[record.value] /\ b = record.typ

\* The steps of the check, in order.
LEMMA CheckAsksKeeps ==
    ASSUME TypingInv, CheckAsks PROVE TypingInv'
<1>1. top.fn = "check" /\ top.st = "run" /\ top.pc # "enter" /\ top.pc # "rescue"
  BY DEF CheckAsks, At
<1>2. /\ stack = <<>> /\ top \in Frame /\ Shape(top) /\ Derived(export, at, top)
      /\ at <= Len(export) /\ (forced <=> top.pc = "rematch")
  BY <1>1, CheckTop DEF TypingInv
<1>3. UNCHANGED <<file, pass, inferOnly, forced, tables, probes>>
  BY DEF CheckAsks
<1>4. UNCHANGED <<export, at, outcome, env, declaring, inferOnly>> /\ forced' = forced
  BY <1>3 DEF file, pass
<1>5. top.old = FALSE
  BY <1>1, <1>2 DEF Shape
<1>6. record.typ \in Exp /\ TypeOf[record.typ] \in Exp
  BY <1>2, RecordFacts, TypesAreTerms DEF TypingInv
<1>7. top.pc \in {"value", "match", "rematch"} =>
        record.value \in Exp /\ TypeOf[record.value] \in Exp
  BY <1>1, <1>2, TypesAreTerms DEF Derived, record
<1>8. ASSUME NEW fn, NEW a, NEW b, Asked(fn, a, b), Ask(top, Entry(fn, a, b))
      PROVE  Machine'
  <2>1. /\ Entry(fn, a, b).fn = fn /\ Entry(fn, a, b).a = a /\ Entry(fn, a, b).b = b
    BY DEF Entry
  <2>2. Link(export, at, top, Entry(fn, a, b))
    BY <1>1, <1>8, <2>1 DEF Link, Asked, IsPropFunctions, record
  <2>3. forced' <=> top.pc \in {"rescue", "rematch"}
    BY <1>1, <1>2, <1>4
  <2> QED BY <1>1, <1>2, <1>4, <1>5, <1>8, <2>2, <2>3, CheckWaits DEF TypingInv, Asked
<1>9. ASSUME At("check", "type"), Ask(top, Entry("infer", record.typ, record.typ))
      PROVE  Machine'
  <2>1. Asked("infer", record.typ, record.typ)
    BY <1>6, <1>9 DEF At, Asked
  <2> QED BY <1>8, <1>9, <2>1
<1>10. ASSUME At("check", "sort"),
              Ask(top, Entry("reduce", TypeOf[record.typ], TypeOf[record.typ]))
       PROVE  Machine'
  <2>1. Asked("reduce", TypeOf[record.typ], TypeOf[record.typ])
    BY <1>6, <1>10 DEF At, Asked
  <2> QED BY <1>8, <1>10, <2>1
<1>11. ASSUME At("check", "value"),
              Ask(top, Entry("infer", record.value, record.value))
       PROVE  Machine'
  <2>1. Asked("infer", record.value, record.value)
    BY <1>7, <1>11 DEF At, Asked
  <2> QED BY <1>8, <1>11, <2>1
<1>12. ASSUME At("check", "match") \/ At("check", "rematch"),
              Ask(top, Entry("compare", TypeOf[record.value], record.typ))
       PROVE  Machine'
  <2>1. Asked("compare", TypeOf[record.value], record.typ)
    BY <1>6, <1>7, <1>12 DEF At, Asked
  <2> QED BY <1>8, <1>12, <2>1
<1>13. Machine'
  BY <1>9, <1>10, <1>11, <1>12 DEF CheckAsks
<1>14. forced' \in BOOLEAN
  BY <1>4 DEF TypingInv, Held
<1> QED BY <1>3, <1>13, <1>14, CheckHeld DEF TypingInv

\* The check goes on, or ends, after a call.
LEMMA CheckResumes ==
    ASSUME TypingInv, stack # <<>>, Caller.fn = "check", top.st # "run",
           NEW f \in Frame, f.fn = "check", f.old = Caller.old, f.pc # "enter", Resume(f),
           Shape(f), Derived(export, at, f),
           UNCHANGED <<file, pass, inferOnly, tables, probes>>,
           forced' <=> f.st = "run" /\ f.pc = "rematch", forced' \in BOOLEAN
    PROVE  TypingInv'
<1>1. /\ SubSeq(stack, 1, Len(stack) - 1) = <<>> /\ inferOnly = FALSE
      /\ outcome = "none" /\ at <= Len(export)
      /\ env = Before(export, at) \cup {record.name} /\ declaring = record.name
      /\ record.name \notin Before(export, at) /\ ~record.unsafe
  BY CheckCaller DEF TypingInv
<1>2. top' = f /\ stack' = <<>>
  BY <1>1 DEF Resume
<1>3. /\ UNCHANGED <<export, at, outcome>> /\ inferOnly' = FALSE
      /\ env' = Before(export, at) \cup {record.name} /\ declaring' = record.name
  BY <1>1 DEF file, pass
<1>4. Machine'
  BY <1>1, <1>2, <1>3, CheckAlone
<1> QED BY <1>4, CheckHeld DEF TypingInv

\* The frame f at its next place.
Moved(f, pc) == [f EXCEPT !.pc = pc]

\* A frame of the check that ends.
LEMMA CheckEnds ==
    ASSUME NEW x, NEW k, NEW c \in Frame, c.fn = "check", Shape(c), Derived(x, k, c),
           NEW st \in {"ok"} \cup Failures, st = "ok" => Justified(x, k)
    PROVE  /\ Ends(c, st) \in Frame /\ Ends(c, st).fn = "check" /\ Ends(c, st).pc = c.pc
           /\ Ends(c, st).st = st /\ Ends(c, st).old = c.old
           /\ Shape(Ends(c, st)) /\ Derived(x, k, Ends(c, st))
<1> DEFINE f == Ends(c, st)
<1>1. f \in Frame /\ f.fn = "check" /\ f.pc = c.pc /\ f.st = st /\ f.old = c.old
  BY ChangedFrames
<1> HIDE DEF f
<1>2. Shape(f)
  BY <1>1 DEF Shape, IsPropFunctions
<1>3. Derived(x, k, f)
  BY <1>1 DEF Derived
<1> QED BY <1>1, <1>2, <1>3 DEF f

\* A frame of the check that moves on.
LEMMA CheckMoves ==
    ASSUME NEW c \in Frame, c.fn = "check", c.st = "run", Shape(c), c.pc # "enter",
           NEW pc \in {"sort", "value", "match", "rescue", "rematch"}
    PROVE  /\ Moved(c, pc) \in Frame /\ Moved(c, pc).fn = "check" /\ Moved(c, pc).pc = pc
           /\ Moved(c, pc).st = "run" /\ Moved(c, pc).old = c.old /\ Shape(Moved(c, pc))
<1> DEFINE f == Moved(c, pc)
<1>1. f \in Frame /\ f.fn = "check" /\ f.pc = pc /\ f.st = "run" /\ f.old = c.old
  BY DEF Moved, Frame, Pcs
<1> HIDE DEF f
<1>2. Shape(f)
  BY <1>1 DEF Shape, IsPropFunctions
<1> QED BY <1>1, <1>2 DEF f

\* The declared type is a sort, Prop for a theorem.
LEMMA SortFitsMeans ==
    ASSUME SortFits, top.a = TypeOf[record.typ]
    PROVE  Exposes[TypeOf[export[at].typ]] \in IF export[at].theorem THEN {"prop"} ELSE Sorts
BY DEF SortFits, record

\* A declaration whose type and value are checked is justified.
LEMMA CheckedIsJustified ==
    ASSUME NEW x, NEW k, ~x[k].dup, ~x[k].unsafe, x[k].name \notin Before(x, k),
           TypeChecked(x, k),
           x[k].value # NoExp => /\ ValueChecked(x, k)
                                 /\ <<TypeOf[x[k].value], x[k].typ>> \in Equal
    PROVE  Justified(x, k)
BY DEF Justified, TypeChecked, ValueChecked

\* A question of the check has been answered.
LEMMA CheckReturnsKeeps ==
    ASSUME TypingInv, CheckReturns PROVE TypingInv'
<1>1. stack # <<>> /\ Caller.fn = "check" /\ top.st = "ok" /\ top.st # "run"
  BY DEF CheckReturns, Returned, Ok
<1> DEFINE c == Caller
<1>2. /\ c \in Frame /\ c.st = "run" /\ c.fn = "check" /\ Shape(c)
      /\ Derived(export, at, c) /\ Sure(top) /\ Derived(export, at, top)
      /\ Link(export, at, c, top) /\ at <= Len(export)
      /\ record.name \notin Before(export, at) /\ ~record.unsafe
      /\ forced <=> c.pc \in {"rescue", "rematch"}
  BY <1>1, CheckCaller DEF TypingInv
<1>3. UNCHANGED <<file, pass, inferOnly, tables, probes>> /\ forced' = forced
      /\ forced \in BOOLEAN
  BY DEF CheckReturns, TypingInv, Held
<1>4. record.value \in Exp \cup {NoExp} /\ NoExp \notin Exp
  BY <1>2, RecordFacts, TypingAssumption DEF TypingInv
<1> HIDE DEF c
<1>5. c.pc # "enter"
  BY <1>2 DEF Link
<1>6. ASSUME NEW f \in Frame, f.fn = "check", f.old = c.old, f.pc # "enter", Resume(f),
             Shape(f), Derived(export, at, f), forced <=> f.st = "run" /\ f.pc = "rematch"
      PROVE  TypingInv'
  <2>1. f.old = Caller.old
    BY <1>6 DEF c
  <2> QED BY <1>1, <1>3, <1>6, <2>1, CheckResumes
<1>7. ASSUME Resume(Ends(c, "rejected")), ~forced PROVE TypingInv'
  <2> DEFINE f == Ends(c, "rejected")
  <2>1. /\ f \in Frame /\ f.fn = "check" /\ f.pc = c.pc /\ f.st = "rejected"
        /\ f.old = c.old /\ Shape(f) /\ Derived(export, at, f)
    <3>1. "rejected" \in {"ok"} \cup Failures /\ "rejected" # "ok"
      BY DEF Failures
    <3> QED BY <1>2, <3>1, CheckEnds
  <2>2. Resume(f)
    BY <1>7
  <2> HIDE DEF f
  <2> QED BY <1>5, <1>6, <1>7, <2>1, <2>2
<1>8. ASSUME Justified(export, at), Resume(Ends(c, "ok")), ~forced PROVE TypingInv'
  <2> DEFINE f == Ends(c, "ok")
  <2>1. /\ f \in Frame /\ f.fn = "check" /\ f.pc = c.pc /\ f.st = "ok"
        /\ f.old = c.old /\ Shape(f) /\ Derived(export, at, f)
    BY <1>2, <1>8, CheckEnds
  <2>2. Resume(f)
    BY <1>8
  <2> HIDE DEF f
  <2> QED BY <1>5, <1>6, <1>8, <2>1, <2>2
<1>9. ASSUME NEW pc \in {"sort", "value", "match", "rescue", "rematch"},
             Resume([c EXCEPT !.pc = pc]), forced <=> pc = "rematch",
             pc = "sort" => export[at].typ \in Typed[Before(export, at)],
             pc # "sort" => TypeChecked(export, at) /\ export[at].value \in Exp,
             pc \in {"match", "rescue", "rematch"} => ValueChecked(export, at)
      PROVE  TypingInv'
  <2> DEFINE f == Moved(c, pc)
  <2>1. /\ f \in Frame /\ f.fn = "check" /\ f.pc = pc /\ f.st = "run"
        /\ f.old = c.old /\ Shape(f)
    BY <1>2, <1>5, CheckMoves
  <2>2. Resume(f)
    BY <1>9 DEF Moved
  <2> HIDE DEF f
  <2>3. Derived(export, at, f)
    BY <1>2, <1>5, <1>9, <2>1 DEF Derived
  <2> QED BY <1>6, <1>9, <2>1, <2>2, <2>3
<1>10. CASE Returned("check", "type") /\ Resume([Caller EXCEPT !.pc = "sort"])
  <2>1. c.pc = "type"
    BY <1>10 DEF Returned, c
  <2>2. export[at].typ \in Typed[Before(export, at)]
    BY <1>1, <1>2, <2>1 DEF Link, Derived
  <2>3. Resume([c EXCEPT !.pc = "sort"])
    BY <1>10 DEF c
  <2> QED BY <1>2, <1>9, <2>1, <2>2, <2>3
<1>11. CASE /\ Returned("check", "sort")
            /\ Resume(IF ~SortFits THEN Ends(Caller, "rejected")
                      ELSE IF record.value = NoExp THEN Ends(Caller, "ok")
                      ELSE [Caller EXCEPT !.pc = "value"])
  <2>1. c.pc = "sort" /\ ~forced
    BY <1>2, <1>11 DEF Returned, c
  <2>2. top.a = TypeOf[record.typ] /\ record.typ \in Typed[Before(export, at)] /\ ~record.dup
    BY <1>2, <2>1 DEF Link, Derived, record
  <2>3. SortFits => TypeChecked(export, at)
    BY <2>2, SortFitsMeans DEF TypeChecked, record
  <2>4. CASE ~SortFits
    <3>1. Resume(Ends(c, "rejected"))
      BY <1>11, <2>4 DEF c
    <3> QED BY <1>7, <2>1, <3>1
  <2>5. CASE SortFits /\ record.value = NoExp
    <3>1. Resume(Ends(c, "ok"))
      BY <1>11, <2>5 DEF c
    <3>2. Justified(export, at)
      BY <1>2, <2>2, <2>3, <2>5, CheckedIsJustified DEF record
    <3> QED BY <1>8, <2>1, <3>1, <3>2
  <2>6. CASE SortFits /\ record.value # NoExp
    <3>1. Resume([c EXCEPT !.pc = "value"])
      BY <1>11, <2>6 DEF c
    <3>2. export[at].value \in Exp
      BY <1>4, <2>6 DEF record
    <3> QED BY <1>9, <2>1, <2>3, <2>6, <3>1, <3>2
  <2> QED BY <2>4, <2>5, <2>6
<1>12. c.pc \in {"value", "match", "rescue"} =>
         TypeChecked(export, at) /\ export[at].value \in Exp
  BY <1>2 DEF Derived
<1>13. CASE Returned("check", "value") /\ Resume([Caller EXCEPT !.pc = "match"])
  <2>1. c.pc = "value" /\ ~forced
    BY <1>2, <1>13 DEF Returned, c
  <2>2. ValueChecked(export, at)
    BY <1>1, <1>2, <2>1 DEF Link, Derived, ValueChecked
  <2>3. Resume([c EXCEPT !.pc = "match"])
    BY <1>13 DEF c
  <2> QED BY <1>9, <1>12, <2>1, <2>2, <2>3
<1>14. CASE /\ Returned("check", "match")
            /\ Resume(IF top.eq THEN Ends(Caller, "ok") ELSE [Caller EXCEPT !.pc = "rescue"])
  <2>1. c.pc = "match" /\ ~forced
    BY <1>2, <1>14 DEF Returned, c
  <2>2. ValueChecked(export, at) /\ ~record.dup
    BY <1>2, <2>1 DEF Derived, record
  <2>3. CASE top.eq
    <3>1. Resume(Ends(c, "ok"))
      BY <1>14, <2>3 DEF c
    <3>2. <<TypeOf[export[at].value], export[at].typ>> \in Equal
      BY <1>1, <1>2, <2>1, <2>3 DEF Link, Sure
    <3>3. Justified(export, at)
      BY <1>2, <1>12, <2>1, <2>2, <3>2, CheckedIsJustified DEF record
    <3> QED BY <1>8, <2>1, <3>1, <3>3
  <2>4. CASE ~top.eq
    <3>1. Resume([c EXCEPT !.pc = "rescue"])
      BY <1>14, <2>4 DEF c
    <3> QED BY <1>9, <1>12, <2>1, <2>2, <3>1
  <2> QED BY <2>3, <2>4
<1>15. CASE Returned("check", "rescue") /\ Resume([Caller EXCEPT !.pc = "rematch"])
  <2>1. c.pc = "rescue" /\ forced
    BY <1>2, <1>15 DEF Returned, c
  <2>2. ValueChecked(export, at)
    BY <1>2, <2>1 DEF Derived
  <2>3. Resume([c EXCEPT !.pc = "rematch"])
    BY <1>15 DEF c
  <2> QED BY <1>9, <1>12, <2>1, <2>2, <2>3
<1> QED BY <1>10, <1>11, <1>13, <1>14, <1>15 DEF CheckReturns

\* A question of the check has failed.
LEMMA CheckFailsKeeps ==
    ASSUME TypingInv, CheckFails PROVE TypingInv'
<1>1. /\ stack # <<>> /\ Caller.fn = "check" /\ top.st \in Failures /\ top.st # "run"
      /\ Caller.pc \in {"type", "sort", "value", "match"}
  BY DEF CheckFails, Returned, Failures
<1>2. /\ Caller \in Frame /\ Caller.st = "run" /\ Shape(Caller)
      /\ Derived(export, at, Caller)
      /\ forced <=> Caller.pc \in {"rescue", "rematch"}
  BY <1>1, CheckCaller DEF TypingInv
<1>3. UNCHANGED <<file, pass, inferOnly, tables, probes>> /\ forced' = forced
      /\ forced \in BOOLEAN
  BY DEF CheckFails, TypingInv, Held
<1>4. top.st \in {"ok"} \cup Failures /\ top.st # "ok"
  BY <1>1 DEF Failures
<1> DEFINE f == Ends(Caller, top.st)
<1>5. f \in Frame /\ f.fn = "check" /\ f.pc = Caller.pc /\ f.st = top.st
      /\ f.old = Caller.old
  BY <1>1, <1>2, <1>4, ChangedFrames
<1>6. Resume(f)
  BY DEF CheckFails
<1> HIDE DEF f
<1>7. Shape(f) /\ Derived(export, at, f)
  BY <1>1, <1>2, <1>4, <1>5 DEF Shape, Derived, IsPropFunctions
<1> QED BY <1>1, <1>2, <1>3, <1>5, <1>6, <1>7, CheckResumes

\* The value is inferred once more, in tables of its own.
LEMMA RescueEnterKeeps ==
    ASSUME TypingInv, RescueEnter PROVE TypingInv'
<1>1. top.fn = "check" /\ top.st = "run" /\ top.pc = "rescue"
  BY DEF RescueEnter, At
<1>2. /\ stack = <<>> /\ top \in Frame /\ Derived(export, at, top) /\ ~forced
      /\ forced \in BOOLEAN
  BY <1>1, CheckTop DEF TypingInv, Held
<1>3. record.value \in Exp
  BY <1>1, <1>2 DEF Derived, record
<1>4. UNCHANGED <<file, pass, inferOnly, tables, probes>> /\ forced' = TRUE
  BY DEF RescueEnter
<1> DEFINE f == [top EXCEPT !.old = forced]
<1>5. /\ f \in Frame /\ f.fn = "check" /\ f.st = "run" /\ f.pc = "rescue"
      /\ f.a = top.a /\ f.b = top.b /\ f.old = FALSE
  BY <1>1, <1>2 DEF Frame
<1>6. Ask(f, Entry("infer", record.value, record.value))
  BY DEF RescueEnter
<1> HIDE DEF f
<1>7. Link(export, at, f, Entry("infer", record.value, record.value))
  <2>1. /\ Entry("infer", record.value, record.value).fn = "infer"
        /\ Entry("infer", record.value, record.value).a = record.value
    BY DEF Entry
  <2> QED BY <1>5, <2>1 DEF Link, IsPropFunctions, record
<1>8. UNCHANGED <<export, at, outcome, env, declaring, inferOnly>>
  BY <1>4 DEF file, pass
<1>9. Machine'
  BY <1>1, <1>3, <1>4, <1>5, <1>6, <1>7, <1>8, CheckWaits DEF TypingInv
<1> QED BY <1>4, <1>9, CheckHeld DEF TypingInv

\* The rescue ends, and with it the separate tables.
LEMMA RescueLeaveKeeps ==
    ASSUME TypingInv, RescueLeave PROVE TypingInv'
<1>1. /\ stack # <<>> /\ Caller.fn = "check" /\ top.st # "run"
      /\ Caller.pc \in {"rescue", "rematch"}
  BY DEF RescueLeave, Returned
<1> DEFINE c == Caller
<1>2. /\ c \in Frame /\ c.st = "run" /\ c.fn = "check" /\ Shape(c)
      /\ Derived(export, at, c) /\ Sure(top)
      /\ Link(export, at, c, top)
      /\ record.name \notin Before(export, at) /\ ~record.unsafe
  BY <1>1, CheckCaller DEF TypingInv
<1>3. c.old = FALSE /\ c.pc \in {"rescue", "rematch"}
  BY <1>1, <1>2 DEF Shape
<1>4. UNCHANGED <<file, pass, inferOnly, tables, probes>> /\ forced' = FALSE
  BY <1>3 DEF RescueLeave
<1> HIDE DEF c
<1>5. ASSUME NEW f \in Frame, f.fn = "check", f.old = c.old, f.pc # "enter", Resume(f),
             Shape(f), Derived(export, at, f), f.st # "run"
      PROVE  TypingInv'
  <2>1. f.old = Caller.old
    BY <1>5 DEF c
  <2> QED BY <1>1, <1>4, <1>5, <2>1, CheckResumes
<1>6. ASSUME NEW st \in Failures, Resume(Ends(c, st)) PROVE TypingInv'
  <2> DEFINE f == Ends(c, st)
  <2>1. /\ f \in Frame /\ f.fn = "check" /\ f.pc = c.pc /\ f.st = st
        /\ f.old = c.old /\ Shape(f) /\ Derived(export, at, f)
    <3>1. st \in {"ok"} \cup Failures /\ st # "ok"
      BY DEF Failures
    <3> QED BY <1>2, <3>1, CheckEnds
  <2>2. Resume(f)
    BY <1>6
  <2> HIDE DEF f
  <2>3. f.st # "run"
    BY <2>1 DEF Failures
  <2> QED BY <1>3, <1>5, <2>1, <2>2, <2>3
<1>7. CASE Returned("check", "rematch") /\ Ok /\ top.eq /\ Resume(Ends(Caller, "ok"))
  <2>1. c.pc = "rematch" /\ top.st = "ok" /\ Resume(Ends(c, "ok"))
    BY <1>7 DEF Returned, Ok, c
  <2>2. /\ <<TypeOf[export[at].value], export[at].typ>> \in Equal
        /\ TypeChecked(export, at) /\ ValueChecked(export, at) /\ ~export[at].dup
    BY <1>2, <1>7, <2>1 DEF Link, Sure, Derived
  <2>3. Justified(export, at)
    BY <1>2, <2>2, CheckedIsJustified DEF record
  <2> DEFINE f == Ends(c, "ok")
  <2>4. /\ f \in Frame /\ f.fn = "check" /\ f.pc = c.pc /\ f.st = "ok"
        /\ f.old = c.old /\ Shape(f) /\ Derived(export, at, f)
    BY <1>2, <2>3, CheckEnds
  <2>5. Resume(f)
    BY <2>1
  <2> HIDE DEF f
  <2> QED BY <1>3, <1>5, <2>4, <2>5
<1>8. CASE Resume(Ends(Caller, "rejected"))
  <2>1. "rejected" \in Failures /\ Resume(Ends(c, "rejected"))
    BY <1>8 DEF Failures, c
  <2> QED BY <1>6, <2>1
<1>9. CASE top.st \in Failures /\ Resume(Ends(Caller, top.st))
  <2>1. Resume(Ends(c, top.st))
    BY <1>9 DEF c
  <2> QED BY <1>6, <1>9, <2>1
<1>10. CASE Returned("check", "rematch") /\ Ok
            /\ Resume(Ends(Caller, IF top.eq THEN "ok" ELSE "rejected"))
  BY <1>7, <1>8, <1>10
<1> QED BY <1>8, <1>9, <1>10 DEF RescueLeave

-----------------------------------------------------------------------------
(* The driver *)

\* A record is admitted to the environment and its check begins, or it is refused.
LEMMA HandleDefLikeKeeps ==
    ASSUME TypingInv, HandleDefLike PROVE TypingInv'
<1>1. /\ top.fn = "idle" /\ outcome = "none" /\ at <= Len(export)
      /\ UNCHANGED <<export, at, lazyMainPath, first, forced, probes>>
  BY DEF HandleDefLike, Idle
<1>2. stack = <<>> /\ top \in Frame /\ stack \in Seq(Frame)
  BY <1>1, BaseFacts, TopFacts DEF TypingInv, Machine
<1>3. Root(top, stack) = top
  BY <1>2 DEF Root
<1>4. env = Before(export, at) /\ ~forced
  BY <1>1, <1>3 DEF TypingInv, Machine, BaseInv
<1>5. /\ record.name \in Name /\ record.typ \in Exp
  BY <1>1, RecordFacts DEF TypingInv
<1>6. CASE record.name \in env \/ record.unsafe
  <2>1. /\ outcome' = "rejected"
        /\ UNCHANGED <<env, declaring, inferOnly, tables, frames>>
    BY <1>6 DEF HandleDefLike
  <2>2. StackInv' /\ ModeInv'
    BY <1>1, <2>1 DEF TypingInv, Machine, StackInv, ModeInv, frames
  <2>3. Root(top', stack') = top /\ stack' = <<>>
    BY <1>2, <2>1 DEF Root, frames
  <2>4. BaseInv'
    BY <1>1, <1>4, <2>1, <2>3 DEF BaseInv
  <2>5. Held'
    BY <1>1, <2>1 DEF TypingInv, Held, AcceptedAreJustified, Verdicts, Failures
  <2>6. TableInv'
    BY <2>1 DEF TypingInv, TableInv, tables, CheckedMarkIsEarned
  <2> QED BY <2>2, <2>4, <2>5, <2>6 DEF TypingInv, Machine
<1>7. CASE record.name \notin env /\ ~record.unsafe
  <2>1. /\ env' = env \cup {record.name} /\ declaring' = NoName /\ inferOnly' = FALSE
        /\ inferCache' = <<>> /\ eagerInferCache' = <<>>
        /\ Goto(CheckFrame) /\ UNCHANGED outcome
    BY <1>7 DEF HandleDefLike
  <2> DEFINE f == CheckFrame
  <2>2. /\ f \in Frame /\ f.fn = "check" /\ f.pc = "enter" /\ f.st = "run" /\ f.old = FALSE
    BY <1>5 DEF CheckFrame, Entry, Frame, Functions, Pcs
  <2>3. top' = f /\ stack' = <<>>
    BY <1>2, <2>1 DEF Goto
  <2> HIDE DEF f
  <2>4. Shape(f) /\ Derived(export, at, f)
    BY <2>2 DEF Shape, Derived, IsPropFunctions
  <2>5. Machine'
    BY <1>1, <1>4, <1>7, <2>1, <2>2, <2>3, <2>4, CheckAlone
  <2>6. Held'
    BY <1>1, <1>5, <2>1 DEF TypingInv, Held, AcceptedAreJustified
  <2>7. TableInv'
    BY <2>1 DEF TableInv, CheckedMarkIsEarned
  <2> QED BY <2>5, <2>6, <2>7 DEF TypingInv
<1> QED BY <1>6, <1>7

\* The second pass starts the check anew.
LEMMA RetryKeeps ==
    ASSUME TypingInv, Retry PROVE TypingInv'
<1>1. /\ top.fn = "check" /\ top.st # "run" /\ top.st \in {"declined", "rejected"}
      /\ lazyMainPath' = TRUE /\ first' = top.st /\ Goto(CheckFrame)
      /\ UNCHANGED <<file, declaring, inferOnly, forced, tables, probes>>
  BY DEF Retry, Checked
<1>2. /\ stack = <<>> /\ inferOnly = FALSE /\ outcome = "none" /\ at <= Len(export)
      /\ env = Before(export, at) \cup {record.name}
      /\ record.name \notin Before(export, at) /\ ~record.unsafe /\ ~forced
  BY <1>1, CheckTop DEF TypingInv
<1>3. record.typ \in Exp
  BY <1>2, RecordFacts DEF TypingInv
<1> DEFINE f == CheckFrame
<1>4. /\ f \in Frame /\ f.fn = "check" /\ f.pc = "enter" /\ f.st = "run" /\ f.old = FALSE
  BY <1>3 DEF CheckFrame, Entry, Frame, Functions, Pcs
<1>5. top' = f /\ stack' = <<>>
  BY <1>1, <1>2 DEF Goto
<1> HIDE DEF f
<1>6. Shape(f) /\ Derived(export, at, f)
  BY <1>4 DEF Shape, Derived, IsPropFunctions
<1>7. UNCHANGED <<export, at, outcome, env>>
  BY <1>1 DEF file
<1>8. Machine'
  BY <1>1, <1>2, <1>4, <1>5, <1>6, <1>7, CheckAlone
<1>9. Held'
  BY <1>1, <1>7 DEF TypingInv, Held, AcceptedAreJustified
<1>10. TableInv'
  BY <1>1, <1>7 DEF TypingInv, TableInv, tables, CheckedMarkIsEarned
<1> QED BY <1>8, <1>9, <1>10 DEF TypingInv

\* An accepted verdict is that of a check, never that of a failed first pass.
LEMMA ConcludeFacts ==
    ASSUME TypingInv, Conclude
    PROVE  /\ at <= Len(export) /\ outcome = "none"
           /\ Verdict \in {"ok"} \cup Failures
           /\ Verdict = "ok" => Justified(export, at)
<1>1. top.fn = "check" /\ top.st # "run"
  BY DEF Conclude, Checked
<1>2. top \in Frame /\ Derived(export, at, top) /\ at <= Len(export) /\ outcome = "none"
  BY <1>1, CheckTop DEF TypingInv
<1>3. top.st \in {"ok"} \cup Failures
  BY <1>1, <1>2 DEF Frame
<1>4. lazyMainPath => first \in {"declined", "rejected"}
  BY DEF TypingInv, Held
<1>5. Verdict \in {"ok"} \cup Failures /\ (Verdict = "ok" => top.st = "ok")
  BY <1>3, <1>4 DEF Verdict, Failures
<1> QED BY <1>1, <1>2, <1>5 DEF Derived

\* An accepted declaration joins the environment of those after it.
LEMMA BeforeNext ==
    ASSUME NEW x, NEW k \in Nat \ {0}
    PROVE  Before(x, k + 1) = Before(x, k) \cup {x[k].name}
<1>1. \A j : j \in 1..(k + 1 - 1) <=> j \in 1..(k - 1) \/ j = k
  OBVIOUS
<1> QED BY <1>1 DEF Before

\* The verdict of a record ends the run or admits the record.
LEMMA ConcludeKeeps ==
    ASSUME TypingInv, Conclude PROVE TypingInv'
<1>1. /\ top.fn = "check" /\ top.st # "run"
      /\ lazyMainPath' = FALSE /\ first' = "none" /\ Goto(IdleFrame)
      /\ UNCHANGED <<export, env, declaring, inferOnly, forced, tables, probes>>
  BY DEF Conclude, Checked
<1>2. /\ stack = <<>> /\ inferOnly = FALSE /\ at <= Len(export) /\ ~forced
      /\ env = Before(export, at) \cup {record.name}
  BY <1>1, CheckTop DEF TypingInv
<1>3. record.typ \in Exp /\ at \in 1..Len(export) /\ Len(export) \in Nat
  BY <1>2, RecordFacts DEF TypingInv
<1>4. /\ Verdict \in {"ok"} \cup Failures /\ outcome = "none"
      /\ Verdict = "ok" => Justified(export, at)
  BY ConcludeFacts
<1>5. \/ Verdict = "ok" /\ at' = at + 1 /\ outcome' = outcome
      \/ Verdict \in Failures /\ outcome' = Verdict /\ at' = at
  BY <1>4 DEF Conclude
<1> DEFINE f == IdleFrame
<1>6. f \in Frame /\ f.fn = "idle" /\ f.pc = "enter" /\ f.st = "ok"
  BY <1>3 DEF IdleFrame, CheckFrame, Entry, Frame, Functions, Pcs
<1>7. top' = f /\ stack' = <<>>
  BY <1>1, <1>2 DEF Goto
<1> HIDE DEF f
<1>8. Shape(f) /\ Sure(f) /\ Derived(export', at', f) /\ ~Modal(f)
  BY <1>6 DEF Shape, Sure, Derived, Modal, ModalFunctions, IsPropFunctions
<1>9. ~Below(<<>>) /\ <<>> \in Seq(Frame) /\ Len(<<>>) = 0
  BY DEF Below
<1>10. StackOK(export', at', f, <<>>)
  BY <1>6, <1>8, <1>9 DEF StackOK, Good
<1>11. StackInv'
  BY <1>7, <1>10 DEF StackInv
<1>12. ModeInv'
  BY <1>1, <1>2, <1>7, <1>8, <1>9 DEF ModeInv
<1>13. BaseInv'
  <2>1. Root(top', stack') = f
    BY <1>7 DEF Root
  <2>2. outcome' = "none" => env' = Before(export', at')
    <3>1. at \in Nat \ {0}
      BY <1>3
    <3>2. Verdict \in Failures => Verdict # "none"
      BY DEF Failures
    <3> QED BY <1>1, <1>2, <1>5, <3>1, <3>2, BeforeNext DEF record
  <2> QED BY <1>1, <1>2, <1>6, <1>7, <2>1, <2>2 DEF BaseInv
<1>14. AcceptedAreJustified'
  <2>1. \A i \in 1..(at' - 1) : i \in 1..(at - 1) \/ (i = at /\ Verdict = "ok")
    BY <1>3, <1>5
  <2>2. \A i \in 1..(at - 1) : Justified(export, i)
    BY DEF TypingInv, Held, AcceptedAreJustified
  <2>3. \A i \in 1..(at' - 1) : Justified(export, i)
    BY <1>4, <2>1, <2>2
  <2>4. export' = export
    BY <1>1
  <2> QED BY <2>3, <2>4 DEF AcceptedAreJustified
<1>15. at' \in 1..(Len(export) + 1) /\ outcome' \in Verdicts \cup {"none"}
  BY <1>3, <1>4, <1>5 DEF Verdicts
<1>16. Held'
  BY <1>1, <1>14, <1>15 DEF TypingInv, Held
<1>17. TableInv'
  BY <1>1 DEF TypingInv, TableInv, tables, CheckedMarkIsEarned
<1> QED BY <1>11, <1>12, <1>13, <1>16, <1>17 DEF TypingInv, Machine

\* The whole export is accepted.
LEMMA EndOfExportKeeps ==
    ASSUME TypingInv, EndOfExport PROVE TypingInv'
<1>1. /\ top.fn = "idle" /\ outcome' = "accepted"
      /\ UNCHANGED <<export, at, env, pass, inferOnly, forced, tables, frames, probes>>
  BY DEF EndOfExport, Idle
<1>2. stack = <<>>
  BY <1>1, BaseFacts DEF TypingInv, Machine
<1>3. Root(top, stack) = top
  BY <1>2 DEF Root
<1>4. ~forced
  BY <1>1, <1>3 DEF TypingInv, Machine, BaseInv
<1>5. StackInv' /\ ModeInv'
  BY <1>1 DEF TypingInv, Machine, StackInv, ModeInv, frames
<1>6. BaseInv'
  <2>1. Root(top', stack') = top /\ stack' = <<>>
    BY <1>1, <1>2 DEF Root, frames
  <2> QED BY <1>1, <1>4, <2>1 DEF BaseInv
<1>7. Held'
  BY <1>1 DEF TypingInv, Held, AcceptedAreJustified, Verdicts, pass
<1>8. TableInv'
  BY <1>1 DEF TypingInv, TableInv, tables, pass, CheckedMarkIsEarned
<1> QED BY <1>5, <1>6, <1>7, <1>8 DEF TypingInv, Machine

-----------------------------------------------------------------------------
(* The theorems *)

\* A run starts in the invariant.
LEMMA InitHolds ==
    ASSUME Init PROVE TypingInv
<1>1. export \in Exports /\ export # <<>> /\ at = 1
  BY DEF Init
<1>2. export \in Seq(Decl) /\ Base \subseteq Name /\ MaxProbes \in Nat
  BY <1>1, TypingAssumption
<1>3. Len(export) \in Nat /\ at \in 1..Len(export)
  BY <1>1, <1>2
<1>4. record \in Decl
  BY <1>2, <1>3 DEF record
<1>5. record.typ \in Exp
  BY <1>4 DEF Decl
<1> DEFINE f == IdleFrame
<1>6. f \in Frame /\ f.fn = "idle" /\ f.pc = "enter" /\ f.st = "ok"
  BY <1>5 DEF IdleFrame, CheckFrame, Entry, Frame, Functions, Pcs
<1>7. top = f /\ stack = <<>>
  BY DEF Init
<1> HIDE DEF f
<1>8. Shape(f) /\ Sure(f) /\ Derived(export, at, f) /\ ~Modal(f)
  BY <1>6 DEF Shape, Sure, Derived, Modal, ModalFunctions, IsPropFunctions
<1>9. ~Below(<<>>) /\ <<>> \in Seq(Frame) /\ Len(<<>>) = 0
  BY DEF Below
<1>10. StackInv
  BY <1>6, <1>7, <1>8, <1>9 DEF StackInv, StackOK, Good
<1>11. ModeInv
  BY <1>7, <1>8, <1>9 DEF ModeInv, Init
<1>12. env = Before(export, at)
  BY <1>1 DEF Init, Before
<1>13. BaseInv
  <2>1. Root(top, stack) = f
    BY <1>7 DEF Root
  <2> QED BY <1>6, <1>7, <1>12, <2>1 DEF BaseInv, Init
<1>14. Held
  <2>1. at \in 1..(Len(export) + 1) /\ probes \in 0..MaxProbes
    BY <1>2, <1>3 DEF Init
  <2>2. AcceptedAreJustified
    BY <1>1 DEF AcceptedAreJustified
  <2> QED BY <1>1, <1>2, <2>1, <2>2 DEF Held, Init
<1>15. TableInv
  BY DEF TableInv, CheckedMarkIsEarned, Init
<1> QED BY <1>10, <1>11, <1>13, <1>14, <1>15 DEF TypingInv, Machine

\* A step that changes nothing keeps the invariant.
LEMMA StutterHolds ==
    ASSUME TypingInv, UNCHANGED vars PROVE TypingInv'
<1>1. /\ UNCHANGED <<export, at, outcome, env, declaring, inferOnly, forced, top, stack>>
      /\ UNCHANGED <<lazyMainPath, first, tables, probes>>
  BY DEF vars, file, pass, frames
<1>2. StackInv' /\ ModeInv'
  BY <1>1 DEF TypingInv, Machine, StackInv, ModeInv
<1>3. BaseInv'
  BY <1>1 DEF TypingInv, Machine, BaseInv, record, Before
<1>4. Held' /\ TableInv'
  BY <1>1, StillHeld DEF TypingInv, Still
<1> QED BY <1>2, <1>3, <1>4 DEF TypingInv, Machine

\* Every step keeps the invariant.
LEMMA StepHolds ==
    ASSUME TypingInv, [Next]_vars PROVE TypingInv'
<1>1. CASE Inference
  BY <1>1, InferEnterKeeps, InferPremiseKeeps, InferConstKeeps, InferReturnKeeps,
     InferFailsKeeps, InferDoneKeeps DEF Inference
<1>2. CASE Conversions
  BY <1>2, ReducedKeeps, ComparedKeeps, ProbeKeeps, ProbeReturnKeeps, IsPropByShapeKeeps,
     InferOnlyEnterKeeps, IsPropReturnKeeps, ProofsReturnKeeps, InferOnlyAsksKeeps
     DEF Conversions
<1>3. CASE Checks
  BY <1>3, CheckHeaderKeeps, CheckAsksKeeps, CheckReturnsKeeps, CheckFailsKeeps,
     RescueEnterKeeps, RescueLeaveKeeps DEF Checks
<1>4. CASE Driver
  BY <1>4, HandleDefLikeKeeps, RetryKeeps, ConcludeKeeps, EndOfExportKeeps DEF Driver
<1>5. CASE UNCHANGED vars
  BY <1>5, StutterHolds
<1> QED BY <1>1, <1>2, <1>3, <1>4, <1>5 DEF Next

\* What conversion promises in a run is settled before the run.
LEMMA DecidesStays == ASSUME [Next]_vars PROVE decides' = decides
<1>1. CASE Inference
  BY <1>1 DEF Inference, InferEnter, InferPremise, InferConst, InferReturn,
     InferFails, InferDone, file
<1>2. CASE Conversions
  BY <1>2 DEF Conversions, Reduced, Compared, Probe, ProbeReturn, IsPropByShape,
     InferOnlyEnter, IsPropReturn, ProofsReturn, InferOnlyAsks, file
<1>3. CASE Checks
  BY <1>3 DEF Checks, CheckHeader, CheckAsks, CheckReturns, CheckFails, RescueEnter,
     RescueLeave, file
<1>4. CASE Driver
  BY <1>4 DEF Driver, HandleDefLike, Retry, Conclude, EndOfExport, file
<1>5. CASE UNCHANGED vars
  BY <1>5 DEF vars, file
<1> QED BY <1>1, <1>2, <1>3, <1>4, <1>5 DEF Next

\* The inductive invariant holds throughout every run of the checker.
THEOREM InvariantHolds == Spec => []TypingInv
<1>1. Init => TypingInv
  BY InitHolds
<1>2. TypingInv /\ [Next]_vars => TypingInv'
  BY StepHolds
<1> QED BY <1>1, <1>2, PTL DEF Spec

\* Every variable of the checker keeps its type.
THEOREM TypeCorrect == Spec => []TypeOK
<1>1. TypingInv /\ decides \in BOOLEAN => TypeOK
  <2> SUFFICES ASSUME TypingInv, decides \in BOOLEAN PROVE TypeOK
    OBVIOUS
  <2>1. top \in Frame /\ stack \in Seq(Frame)
    BY TopFacts DEF TypingInv, Machine
  <2> QED BY <2>1 DEF TypingInv, Held, TableInv, TypeOK
<1>2. Init => decides \in BOOLEAN
  BY DEF Init
<1>3. decides \in BOOLEAN /\ [Next]_vars => (decides \in BOOLEAN)'
  BY DecidesStays
<1> QED BY <1>1, <1>2, <1>3, InvariantHolds, PTL DEF Spec

\* Whatever is memoised, looked up, rescued, retried or given up on the way,
\* every declaration the checker accepts is justified by those before it.
THEOREM Acceptance == Spec => []AcceptedAreJustified
<1>1. TypingInv => AcceptedAreJustified
  BY DEF TypingInv, Held
<1> QED BY <1>1, InvariantHolds, PTL

\* An expression whose memoised type bears the checked mark is typed by the
\* constants admitted before the declaration in hand.
THEOREM MarkSoundness == Spec => []CheckedMarkIsEarned
<1>1. TypingInv => CheckedMarkIsEarned
  BY DEF TypingInv, TableInv
<1> QED BY <1>1, InvariantHolds, PTL

\* The frames that run, at their places.
LEMMA RunningFrames ==
    ASSUME StackInv
    PROVE  /\ \A i \in 1..Len(stack) : stack[i] \in Running /\ stack[i].st = "run"
           /\ top.st = "run" => top \in Running
           /\ \A f \in Running :
                 f.st = "run" /\ (f = top \/ \E i \in 1..Len(stack) : f = stack[i])
<1>1. DOMAIN stack = 1..Len(stack)
  BY TopFacts
<1>2. \A i \in 1..Len(stack) : stack[i].st = "run"
  BY DEF StackInv, StackOK
<1> QED BY <1>1, <1>2 DEF Running

\* Nothing is checked exactly below a function that asked for that, the tables
\* are separate exactly during a rescue, the lazy path follows a failed pass.
THEOREM Modes == Spec => []ModesAreBracketed
<1>1. TypingInv => ModesAreBracketed
  <2> SUFFICES ASSUME TypingInv PROVE ModesAreBracketed
    OBVIOUS
  <2>1. StackInv /\ stack \in Seq(Frame) /\ Len(stack) \in Nat
    BY TopFacts DEF TypingInv, Machine
  <2>2. inferOnly <=> \E f \in Running :
          f.fn \in IsPropFunctions \cup {"proofs"} /\ f.pc # "enter"
    <3>1. Below(stack) \/ Modal(top) <=> \E f \in Running : Modal(f)
      BY <2>1, RunningFrames DEF Below, Modal
    <3>2. \A f \in Running :
            Modal(f) <=> f.fn \in IsPropFunctions \cup {"proofs"} /\ f.pc # "enter"
      BY <2>1, RunningFrames DEF Modal, ModalFunctions
    <3> QED BY <3>1, <3>2 DEF TypingInv, Machine, ModeInv
  <2>3. \A f \in Running : f.fn = "check" => f = Root(top, stack)
    <3> TAKE f \in Running
    <3> HAVE f.fn = "check"
    <3>1. CASE f = top
      <4>1. stack = <<>>
        BY <3>1, BaseFacts DEF TypingInv
      <4> QED BY <3>1, <4>1 DEF Root
    <3>2. ASSUME NEW i \in 1..Len(stack), f = stack[i] PROVE f = Root(top, stack)
      <4>1. i = 1
        <5> SUFFICES ASSUME i # 1 PROVE FALSE
          OBVIOUS
        <5>1. i - 1 \in 1..(Len(stack) - 1) /\ i - 1 + 1 = i
          BY <2>1
        <5>2. Link(export, at, stack[i - 1], stack[i - 1 + 1])
          BY <2>1, <5>1 DEF StackInv, StackOK
        <5> QED BY <3>2, <5>1, <5>2 DEF Link
      <4>2. stack # <<>>
        BY <2>1
      <4> QED BY <3>2, <4>1, <4>2 DEF Root
    <3> QED BY <2>1, <3>1, <3>2, RunningFrames
  <2> DEFINE b == Root(top, stack)
  <2>4. forced <=> /\ b.fn = "check" /\ b.st = "run"
                   /\ b.pc = "rematch" \/ (b.pc = "rescue" /\ stack # <<>>)
    BY DEF TypingInv, Machine, BaseInv
  <2>5. b = IF stack = <<>> THEN top ELSE stack[1]
    BY DEF Root
  <2>6. stack # <<>> => b \in Running /\ b # top
    <3> HAVE stack # <<>>
    <3>1. 1 \in 1..Len(stack) /\ stack[1].fn = "check"
      BY <2>1, BaseFacts, AllButLast DEF TypingInv
    <3>2. top.fn # "check"
      BY BaseFacts DEF TypingInv
    <3> QED BY <2>1, <2>5, <3>1, <3>2, RunningFrames
  <2>7. stack = <<>> /\ b.st = "run" => b \in Running
    BY <2>1, <2>5, RunningFrames
  <2>8. stack = <<>> => b = top
    BY <2>5
  <2> HIDE DEF b
  <2>9. \A f \in Running : f.fn = "check" => f = b /\ f.st = "run"
    BY <2>1, <2>3, RunningFrames DEF b
  <2>10. forced <=> \E f \in Running :
           /\ f.fn = "check" /\ f.pc \in {"rescue", "rematch"}
           /\ f.pc = "rescue" => f # top
    BY <2>4, <2>6, <2>7, <2>8, <2>9
  <2>11. lazyMainPath <=> first # "none"
    BY DEF TypingInv, Held
  <2> QED BY <2>2, <2>10, <2>11 DEF ModesAreBracketed
<1> QED BY <1>1, InvariantHolds, PTL

\* What of the kernel's promise is safety.
KernelSafety == K!Init /\ [][K!Next]_(K!vars)

\* A step that is no verdict is none of the kernel's.
LEMMA QuietStep ==
    ASSUME UNCHANGED <<export, at, outcome>> PROVE UNCHANGED K!vars
BY DEF K!vars

\* Every step of the checker is one of the kernel's, or none.
LEMMA KernelStep ==
    ASSUME TypingInv, [Next]_vars PROVE [K!Next]_(K!vars)
<1>1. CASE Inference
  <2>1. UNCHANGED file
    BY <1>1 DEF Inference, InferEnter, InferPremise, InferConst, InferReturn, InferFails,
       InferDone
  <2> QED BY <2>1, QuietStep DEF file
<1>2. CASE Conversions
  <2>1. UNCHANGED file
    BY <1>2 DEF Conversions, Reduced, Compared, Probe, ProbeReturn, IsPropByShape,
       InferOnlyEnter, IsPropReturn, ProofsReturn, InferOnlyAsks
  <2> QED BY <2>1, QuietStep DEF file
<1>3. CASE Checks
  <2>1. UNCHANGED file
    BY <1>3 DEF Checks, CheckHeader, CheckAsks, CheckReturns, CheckFails, RescueEnter,
       RescueLeave
  <2> QED BY <2>1, QuietStep DEF file
<1>4. CASE HandleDefLike
  <2>1. /\ outcome = "none" /\ UNCHANGED <<export, at>>
        /\ outcome' = "rejected" \/ outcome' = outcome
    BY <1>4 DEF HandleDefLike
  <2>2. CASE outcome' = "rejected"
    BY <2>1, <2>2 DEF K!Next, K!Stop, K!vars
  <2>3. CASE outcome' = outcome
    BY <2>1, <2>3, QuietStep
  <2> QED BY <2>1, <2>2, <2>3
<1>5. CASE Retry
  <2>1. UNCHANGED file
    BY <1>5 DEF Retry
  <2> QED BY <2>1, QuietStep DEF file
<1>6. CASE Conclude
  <2>1. /\ at <= Len(export) /\ outcome = "none" /\ Verdict \in {"ok"} \cup Failures
        /\ Verdict = "ok" => Justified(export, at)
    BY <1>6, ConcludeFacts
  <2>2. at \in Nat \ {0} /\ Len(export) \in Nat
    <3>1. at \in 1..Len(export) /\ Len(export) \in Nat
      BY <2>1, RecordFacts DEF TypingInv
    <3> QED BY <3>1
  <2>3. CASE Verdict = "ok"
    <3>1. at' = at + 1 /\ UNCHANGED <<export, outcome>>
      BY <1>6, <2>3 DEF Conclude
    <3>2. at - 1 + 1 = at /\ at - 1 < Len(export) /\ at' - 1 = at - 1 + 1
      BY <2>1, <2>2, <3>1
    <3> QED BY <2>1, <2>3, <3>1, <3>2 DEF K!Next, K!Admit
  <2>4. CASE Verdict \in Failures
    <3>1. Verdict # "ok"
      BY <2>4 DEF Failures
    <3>2. outcome' = Verdict /\ UNCHANGED <<export, at>>
      BY <1>6, <3>1 DEF Conclude
    <3> QED BY <2>1, <2>4, <3>2 DEF K!Next, K!Stop, Failures
  <2> QED BY <2>1, <2>3, <2>4
<1>7. CASE EndOfExport
  <2>1. /\ outcome = "none" /\ at > Len(export) /\ outcome' = "accepted"
        /\ UNCHANGED <<export, at>>
    BY <1>7 DEF EndOfExport
  <2>2. at \in 1..(Len(export) + 1) /\ Len(export) \in Nat
    BY TypingAssumption DEF TypingInv, Held
  <2>3. at - 1 = Len(export)
    BY <2>1, <2>2
  <2> QED BY <2>1, <2>3 DEF K!Next, K!Accept
<1>8. CASE UNCHANGED vars
  BY <1>8, QuietStep DEF vars, file
<1> QED BY <1>1, <1>2, <1>3, <1>4, <1>5, <1>6, <1>7, <1>8 DEF Next, Driver

\* The checker implements the kernel: declarations are admitted one at a time in
\* the order of the export, each justified by those before it, "accepted" is said
\* of a whole export, and nothing happens after a verdict.
THEOREM Refinement == Spec => KernelSafety
<1>1. Init => K!Init
  BY DEF Init, K!Init
<1>2. TypingInv /\ [Next]_vars => [K!Next]_(K!vars)
  BY KernelStep
<1> QED BY <1>1, <1>2, InvariantHolds, PTL DEF Spec, KernelSafety

-----------------------------------------------------------------------------
(* Exactness: where conversion decides, nothing justified is refused *)

\* What is true of the term of a frame that has answered or failed.
Decided(x, k, f) ==
    /\ f.st = "ok" =>
        /\ f.fn = "reduce" => f.eq
        /\ f.fn = "compare" /\ ~f.eq => <<f.a, f.b>> \notin Equal
        /\ f.fn = "ispropchecked" /\ ~f.eq => Exposes[TypeOf[f.a]] # "prop"
    /\ f.st \in Failures =>
        /\ f.fn \notin {"reduce", "compare"}
        /\ f.fn = "infer" => f.a \notin Typed[Before(x, k)]
        /\ f.fn = "ispropchecked" => \/ f.a \notin Typed[Before(x, k)]
                                     \/ Exposes[TypeOf[f.a]] \notin Sorts
        /\ f.fn = "check" => ~Justified(x, k)

\* The frame that runs is right when it ends, and so is the verdict.
ExactInv ==
    /\ Decided(export, at, top)
    /\ outcome = "accepted" => at = Len(export) + 1
    /\ outcome \in Failures => at <= Len(export) /\ ~Justified(export, at)

\* A frame that runs, or that answers where nothing depends on the answer.
LEMMA Undecided ==
    ASSUME NEW x, NEW k, NEW f,
           \/ f.st = "run"
           \/ f.fn \in {"isprop", "proofs"}
           \/ f.fn \in {"infer", "check"} /\ f.st = "ok"
    PROVE  Decided(x, k, f)
BY DEF Decided, Failures

\* A step of the checker, by the frame it leaves.
LEMMA ExactStep ==
    ASSUME ExactInv, NEW f, top' = f, UNCHANGED <<export, at, outcome>>,
           Decided(export, at, f)
    PROVE  ExactInv'
BY DEF ExactInv

\* A step that leaves a running frame.
LEMMA ExactRuns ==
    ASSUME ExactInv, NEW f, top' = f, UNCHANGED <<export, at, outcome>>, f.st = "run"
    PROVE  ExactInv'
BY ExactStep, Undecided

\* A call leaves a running frame.
LEMMA ExactCalls ==
    ASSUME ExactInv, NEW fn, NEW a, NEW b, top' = Entry(fn, a, b),
           UNCHANGED <<export, at, outcome>>
    PROVE  ExactInv'
<1>1. Entry(fn, a, b).st = "run"
  BY DEF Entry
<1> QED BY <1>1, ExactRuns

\* An expression with a premise that does not hold is not typed.
LEMMA UnsatisfiedIsUntyped ==
    ASSUME NEW e \in Exp, NEW i \in 1..Len(Premises(e)), NEW G \in Environments,
           ~Satisfied(Premises(e)[i], G)
    PROVE  e \notin Typed[G]
<1>1. DOMAIN Premises(e) = 1..Len(Premises(e))
  BY PremisesAreRight
<1> QED BY <1>1, TypedAssumption

\* What a typed projection classifies is typed.
LEMMA ClassifiedIsTyped ==
    ASSUME NEW e \in Exp, NEW G \in Environments, e \in Typed[G], NEW t \in Classified(e)
    PROVE  t \in Typed[G]
<1> DEFINE v == Sub[e][1]
<1>1. Kind[e] = "proj" /\ (t = TypeOf[v] \/ \E i \in DOMAIN Fields[e] : t = Fields[e][i].typ)
  BY DEF Classified
<1>2. v \in Exp
  <2>1. Sub[e] \in Seq(Exp) /\ Len(Sub[e]) = 1
    BY <1>1, TypingAssumption
  <2> QED BY <2>1
<1>3. Premises(e) = Proj(v, Fields[e])
  BY <1>1 DEF Premises
<1> HIDE DEF v
<1>4. 1 \in DOMAIN Premises(e) /\ Premises(e)[1] = Infer(v)
  <2> DEFINE s == <<Infer(v), Reduce(TypeOf[v], {"struct"}), Classify(TypeOf[v], Sorts)>>
             P == {Infer(v), Reduce(TypeOf[v], {"struct"}), Classify(TypeOf[v], Sorts)}
             h == IF Exposes[TypeOf[TypeOf[v]]] = "prop"
                  THEN [i \in DOMAIN Fields[e] |->
                          Classify(Fields[e][i].typ,
                                   IF Fields[e][i].later THEN Sorts ELSE {"prop"})]
                  ELSE <<>>
  <2>1. Premises(e) = s \o h
    BY <1>3 DEF Proj
  <2>2. Len(s) = 3 /\ s[1] = Infer(v) /\ s \in Seq(P)
    OBVIOUS
  <2>3. Len(Premises(e)) \in Nat /\ DOMAIN Premises(e) = 1..Len(Premises(e))
    BY PremisesAreRight
  <2> DEFINE C == {Classify(Fields[e][i].typ,
                            IF Fields[e][i].later THEN Sorts ELSE {"prop"}) :
                     i \in DOMAIN Fields[e]}
  <2>4. h \in Seq(C)
    <3> DEFINE g == [i \in DOMAIN Fields[e] |->
                       Classify(Fields[e][i].typ,
                                IF Fields[e][i].later THEN Sorts ELSE {"prop"})]
    <3>1. Len(Fields[e]) \in Nat /\ DOMAIN Fields[e] = 1..Len(Fields[e])
      BY TypingAssumption
    <3>2. g \in [1..Len(Fields[e]) -> C]
      BY <3>1
    <3>3. g \in Seq(C)
      BY <3>1, <3>2, SeqDef
    <3>4. <<>> \in Seq(C)
      OBVIOUS
    <3> HIDE DEF C
    <3> QED BY <3>3, <3>4
  <2> HIDE DEF s, h, P, C
  <2>5. s \in Seq(P \cup C) /\ h \in Seq(P \cup C)
    BY <2>2, <2>4, SeqMonotonic
  <2>6. /\ Len(s \o h) = Len(s) + Len(h) /\ Len(h) \in Nat
        /\ \A i \in 1..(Len(s) + Len(h)) :
              (s \o h)[i] = IF i <= Len(s) THEN s[i] ELSE h[i - Len(s)]
    BY <2>5, ConcatProperties
  <2> QED BY <2>1, <2>2, <2>3, <2>6
<1>5. Satisfied(Infer(v), G)
  BY <1>4, TypedAssumption
<1>6. Infer(v).op = "infer" /\ Infer(v).s = v
  BY DEF Infer
<1>7. v \in Typed[G]
  BY <1>5, <1>6, Zenon DEF Satisfied
<1>8. TypeOf[v] \in Typed[G] /\ \A i \in DOMAIN Fields[e] : Fields[e][i].typ \in Typed[G]
  BY <1>1, <1>7, RegularAssumption
<1> QED BY <1>1, <1>8

(* Inference *)

\* A memoised type is an answer, a computation goes on.
LEMMA InferEnterExact ==
    ASSUME TypingInv, ExactInv, InferEnter PROVE ExactInv'
<1>1. top \in Frame /\ top.fn = "infer" /\ top.st = "run"
  BY TopFacts DEF TypingInv, Machine, InferEnter, At
<1>2. UNCHANGED <<export, at, outcome>>
  BY DEF InferEnter, file
<1>3. CASE top' = Ends(top, "ok")
  <2>1. Ends(top, "ok").fn = "infer" /\ Ends(top, "ok").st = "ok"
    BY <1>1, ChangedFrames
  <2> QED BY <1>2, <1>3, <2>1, Undecided, ExactStep
<1>4. CASE top' = [top EXCEPT !.pc = "premise", !.n = 1]
  <2>1. [top EXCEPT !.pc = "premise", !.n = 1].st = "run"
    BY <1>1 DEF Frame
  <2> QED BY <1>2, <1>4, <2>1, ExactRuns
<1> QED BY <1>3, <1>4 DEF InferEnter, Goto

\* A premise is asked for or waived.
LEMMA InferPremiseExact ==
    ASSUME TypingInv, ExactInv, InferPremise PROVE ExactInv'
<1>1. top \in Frame /\ top.st = "run"
  BY TopFacts DEF TypingInv, Machine, InferPremise, At
<1>2. UNCHANGED <<export, at, outcome>>
  BY DEF InferPremise, file
<1>3. CASE top' = [top EXCEPT !.n = @ + 1]
  <2>1. [top EXCEPT !.n = @ + 1].st = "run"
    BY <1>1 DEF Frame
  <2> QED BY <1>2, <1>3, <2>1, ExactRuns
<1>4. CASE top' = Entry(Premise.op, Premise.s, Premise.t)
  BY <1>2, <1>4, ExactCalls
<1> QED BY <1>3, <1>4 DEF InferPremise, Goto, Ask

\* A constant that is not visible was not admitted before.
LEMMA InferConstExact ==
    ASSUME TypingInv, ExactInv, InferConst PROVE ExactInv'
<1>1. /\ top \in Frame /\ top.fn = "infer" /\ top.st = "run" /\ top.a \in Exp
      /\ top.pc = "premise" /\ top.n \in 1..(Len(Premises(top.a)) + 1)
  BY PremiseFacts DEF InferConst
<1>2. stack # <<>>
  BY <1>1, ChecksWhenNotBelow DEF TypingInv
<1>3. UNCHANGED <<export, at, outcome>>
  BY DEF InferConst, file
<1>4. top.n \in 1..Len(Premises(top.a))
  BY <1>1, NextPlace DEF InferConst
<1> DEFINE p == Premises(top.a)[top.n]
           G == Before(export, at)
<1>5. p.op = "const" /\ p.s = top.a
  BY <1>1, <1>4, PremiseIsRight DEF InferConst, Premise
<1>6. CASE Visible(ConstOf[top.a])
  <2>1. top' = [top EXCEPT !.n = @ + 1]
    BY <1>6 DEF InferConst, Goto
  <2>2. [top EXCEPT !.n = @ + 1].st = "run"
    BY <1>1 DEF Frame
  <2> QED BY <1>3, <2>1, <2>2, ExactRuns
<1>7. CASE ~Visible(ConstOf[top.a])
  <2>1. ConstOf[top.a] \notin G /\ G \in Environments
    BY <1>2, <1>7, VisibleIsBefore DEF TypingInv, Visible
  <2>2. ~Satisfied(p, G)
    BY <1>5, <2>1, Zenon DEF Satisfied
  <2>3. top.a \notin Typed[G]
    BY <1>1, <1>4, <2>1, <2>2, UnsatisfiedIsUntyped
  <2>4. PICK st \in Failures : top' = Ends(top, st)
    BY <1>7 DEF InferConst, Goto, Failures
  <2>5. Ends(top, st).fn = "infer" /\ Ends(top, st).st = st /\ Ends(top, st).a = top.a
    BY <1>1, ChangedFrames
  <2>6. Decided(export, at, Ends(top, st))
    BY <2>3, <2>5 DEF Decided, Failures
  <2> QED BY <1>3, <2>4, <2>6, ExactStep
<1> QED BY <1>6, <1>7

\* A premise that was found not to hold does not hold.
LEMMA RefutedIsUnsatisfied ==
    ASSUME TypingInv, ExactInv, Returned("infer", "premise"), Ok,
           ~Holds(Premises(Caller.a)[Caller.n])
    PROVE  ~Satisfied(Premises(Caller.a)[Caller.n], Before(export, at))
<1> DEFINE p == Premises(Caller.a)[Caller.n]
           G == Before(export, at)
<1>1. /\ Caller.a \in Exp /\ Caller.n \in 1..Len(Premises(Caller.a))
      /\ top.fn = p.op /\ top.a = p.s /\ top.b = p.t /\ top.fn \in Functions
      /\ top.st = "ok" /\ Decided(export, at, top)
  BY WaitingFacts DEF Ok, ExactInv
<1>2. p.op \in Operations /\ WantsRight(p) /\ p.op # "const"
  BY <1>1, PremiseIsRight DEF Functions
<1> HIDE DEF p, G
<1>3. ~Holds(p)
  BY DEF p
<1>4. p.op # "infer"
  BY <1>3, Zenon DEF Holds
<1>5. CASE p.op = "reduce"
  <2>1. top.eq
    BY <1>1, <1>5 DEF Decided
  <2>2. Exposes[p.s] \notin p.want
    BY <1>3, <1>5, <2>1, Zenon DEF Holds
  <2> QED BY <1>5, <2>2, Zenon DEF Satisfied, p, G
<1>6. CASE p.op = "compare"
  <2>1. ~top.eq
    BY <1>3, <1>6, Zenon DEF Holds
  <2>2. <<p.s, p.t>> \notin Equal
    BY <1>1, <1>6, <2>1 DEF Decided
  <2> QED BY <1>6, <2>2, Zenon DEF Satisfied, p, G
<1>7. CASE p.op = "ispropchecked"
  <2>1. "sort" \notin p.want /\ ~top.eq
    BY <1>3, <1>7, Zenon DEF Holds
  <2>2. p.want \in {Sorts, {"prop"}}
    BY <1>2, <1>7 DEF WantsRight
  <2>3. Exposes[TypeOf[p.s]] # "prop"
    BY <1>1, <1>7, <2>1 DEF Decided
  <2>4. Exposes[TypeOf[p.s]] \notin p.want
    BY <2>1, <2>2, <2>3 DEF Sorts
  <2> QED BY <1>7, <2>4, Zenon DEF Satisfied, p, G
<1>8. ~Satisfied(p, G)
  BY <1>2, <1>4, <1>5, <1>6, <1>7 DEF Operations, p, G
<1> QED BY <1>8 DEF p, G

\* The environment in hand, while a caller waits.
LEMMA WaitingEnvironment ==
    ASSUME TypingInv, Returned("infer", "premise")
    PROVE  Before(export, at) \in Environments
BY WaitingFacts, VisibleIsBefore DEF TypingInv

\* Inference that fails leaves an expression that is not typed.
LEMMA UntypedIsDecided ==
    ASSUME NEW f \in Frame, f.fn = "infer", NEW st \in Failures,
           f.a \notin Typed[Before(export, at)]
    PROVE  Decided(export, at, Ends(f, st))
<1>1. Ends(f, st).fn = "infer" /\ Ends(f, st).st = st /\ Ends(f, st).a = f.a
  BY ChangedFrames
<1> QED BY <1>1 DEF Decided, Failures

\* A premise has been answered.
LEMMA InferReturnExact ==
    ASSUME TypingInv, ExactInv, InferReturn PROVE ExactInv'
<1>1. Returned("infer", "premise") /\ Ok
  BY DEF InferReturn
<1>2. /\ Caller \in Frame /\ Caller.fn = "infer" /\ Caller.st = "run"
      /\ Caller.a \in Exp /\ Caller.n \in 1..Len(Premises(Caller.a))
  BY <1>1, WaitingFacts
<1>3. UNCHANGED <<export, at, outcome>>
  BY DEF InferReturn, file
<1>4. CASE Holds(Premises(Caller.a)[Caller.n])
  <2>1. top' = [Caller EXCEPT !.n = @ + 1]
    BY <1>4 DEF InferReturn, Resume
  <2>2. [Caller EXCEPT !.n = @ + 1].st = "run"
    BY <1>2 DEF Frame
  <2> QED BY <1>3, <2>1, <2>2, ExactRuns
<1>5. CASE ~Holds(Premises(Caller.a)[Caller.n])
  <2>1. Caller.a \notin Typed[Before(export, at)]
    BY <1>1, <1>2, <1>5, RefutedIsUnsatisfied, WaitingEnvironment, UnsatisfiedIsUntyped
  <2>2. "rejected" \in Failures
    BY DEF Failures
  <2>3. Decided(export, at, Ends(Caller, "rejected"))
    BY <1>2, <2>1, <2>2, UntypedIsDecided
  <2>4. top' = Ends(Caller, "rejected")
    BY <1>5 DEF InferReturn, Resume
  <2> QED BY <1>3, <2>3, <2>4, ExactStep
<1> QED BY <1>4, <1>5

\* A premise that failed cannot hold, so what depends on it is not typed.
LEMMA InferFailsExact ==
    ASSUME TypingInv, ExactInv, InferFails PROVE ExactInv'
<1>1. Returned("infer", "premise") /\ top.st \in Failures
  BY DEF InferFails
<1> DEFINE p == Premises(Caller.a)[Caller.n]
           G == Before(export, at)
<1>2. /\ Caller \in Frame /\ Caller.fn = "infer"
      /\ Caller.a \in Exp /\ Caller.n \in 1..Len(Premises(Caller.a))
      /\ top.fn = p.op /\ top.a = p.s /\ top.fn \in Functions
      /\ Decided(export, at, top) /\ G \in Environments
  BY <1>1, WaitingFacts, WaitingEnvironment DEF ExactInv
<1>3. /\ p.op \in Operations /\ WantsRight(p) /\ p.op # "const"
      /\ p.op = "ispropchecked" => p.s \in Classified(Caller.a)
  BY <1>2, PremiseIsRight DEF Functions
<1> HIDE DEF p, G
<1>4. p.op \in {"infer", "ispropchecked"}
  BY <1>1, <1>2, <1>3 DEF Operations, Decided
<1>5. ASSUME p.op = "infer" PROVE Caller.a \notin Typed[G]
  <2>1. p.s \notin Typed[G]
    BY <1>1, <1>2, <1>5 DEF Decided, G
  <2>2. ~Satisfied(p, G)
    BY <1>5, <2>1, Zenon DEF Satisfied
  <2> QED BY <1>2, <2>2, UnsatisfiedIsUntyped DEF p, G
<1>6. ASSUME p.op = "ispropchecked" PROVE Caller.a \notin Typed[G]
  <2>1. p.s \notin Typed[G] \/ Exposes[TypeOf[p.s]] \notin Sorts
    BY <1>1, <1>2, <1>6 DEF Decided, G
  <2>2. p.s \in Classified(Caller.a)
    BY <1>3, <1>6
  <2>3. CASE p.s \notin Typed[G]
    BY <1>2, <2>2, <2>3, ClassifiedIsTyped
  <2>4. CASE Exposes[TypeOf[p.s]] \notin Sorts
    <3>1. Exposes[TypeOf[p.s]] \notin p.want
      BY <1>3, <1>6, <2>4 DEF WantsRight, Sorts
    <3>2. ~Satisfied(p, G)
      BY <1>6, <3>1, Zenon DEF Satisfied
    <3> QED BY <1>2, <3>2, UnsatisfiedIsUntyped DEF p, G
  <2> QED BY <2>1, <2>3, <2>4
<1>7. Caller.a \notin Typed[G]
  BY <1>4, <1>5, <1>6
<1>8. Decided(export, at, Ends(Caller, top.st))
  BY <1>1, <1>2, <1>7, UntypedIsDecided DEF G
<1>9. top' = Ends(Caller, top.st) /\ UNCHANGED <<export, at, outcome>>
  BY DEF InferFails, Resume, file
<1> QED BY <1>8, <1>9, ExactStep

\* All premises hold.
LEMMA InferDoneExact ==
    ASSUME TypingInv, ExactInv, InferDone PROVE ExactInv'
<1>1. top \in Frame /\ top.fn = "infer"
  BY TopFacts DEF TypingInv, Machine, InferDone, At
<1>2. UNCHANGED <<export, at, outcome>> /\ top' = Ends(top, "ok")
  BY DEF InferDone, file, Goto
<1>3. Ends(top, "ok").fn = "infer" /\ Ends(top, "ok").st = "ok"
  BY <1>1, ChangedFrames
<1> QED BY <1>2, <1>3, Undecided, ExactStep

(* Conversion *)

\* Conversion that decides exposes every form and gives every answer.
LEMMA ConversionExact ==
    ASSUME decides, TypingInv, ExactInv, Reduced \/ Compared \/ IsPropByShape
    PROVE  ExactInv'
<1>1. top \in Frame /\ UNCHANGED <<export, at, outcome>>
  BY TopFacts DEF TypingInv, Machine, Reduced, Compared, IsPropByShape, file
<1>2. ASSUME NEW r \in BOOLEAN, top' = Answers(top, r), top.fn \in {"reduce", "compare", "isprop"},
             top.fn = "reduce" => r,
             top.fn = "compare" /\ ~r => <<top.a, top.b>> \notin Equal
      PROVE  ExactInv'
  <2> DEFINE f == Answers(top, r)
  <2>1. f.fn = top.fn /\ f.st = "ok" /\ f.eq = r /\ f.a = top.a /\ f.b = top.b
    BY <1>1, ChangedFrames
  <2> HIDE DEF f
  <2>2. Decided(export, at, f)
    BY <1>2, <2>1 DEF Decided, Failures
  <2> QED BY <1>1, <1>2, <2>2, ExactStep DEF f
<1>3. CASE Reduced
  <2>1. top.fn = "reduce" /\ top' = Answers(top, TRUE)
    BY <1>3 DEF Reduced, At, Goto
  <2> QED BY <1>2, <2>1
<1>4. CASE Compared
  <2>1. /\ top.fn = "compare"
        /\ \/ top' = Answers(top, TRUE)
           \/ top' = Answers(top, FALSE) /\ <<top.a, top.b>> \notin Equal
    BY <1>4 DEF Compared, At, Goto
  <2> QED BY <1>2, <2>1
<1>5. CASE IsPropByShape
  <2>1. top.fn = "isprop" /\ top' = Answers(top, Exposes[TypeOf[top.a]] = "prop")
    BY <1>5 DEF IsPropByShape, At, Goto
  <2>2. top.fn # "reduce" /\ top.fn # "compare"
    BY <2>1
  <2> HIDE DEF Answers
  <2>3. CASE Exposes[TypeOf[top.a]] = "prop"
    <3>1. top' = Answers(top, TRUE)
      BY <2>1, <2>3
    <3> QED BY <1>2, <2>1, <2>2, <3>1
  <2>4. CASE Exposes[TypeOf[top.a]] # "prop"
    <3>1. top' = Answers(top, FALSE)
      BY <2>1, <2>4
    <3> QED BY <1>2, <2>1, <2>2, <3>1
  <2> QED BY <2>3, <2>4
<1> QED BY <1>3, <1>4, <1>5

\* Inferences that conversion starts come back to a conversion that runs.
LEMMA ProbesExact ==
    ASSUME decides, TypingInv, ExactInv, Probe \/ ProbeReturn PROVE ExactInv'
<1>1. UNCHANGED <<export, at, outcome>>
  BY DEF Probe, ProbeReturn, file
<1>2. CASE Probe
  <2>1. PICK p, q \in Probes, fn \in {"proofs", "infer"} : top' = Entry(fn, p, q)
    BY <1>2 DEF Probe, Ask
  <2> QED BY <1>1, <2>1, ExactCalls
<1>3. CASE ProbeReturn
  <2>1. stack # <<>> /\ top' = Caller
    BY <1>3 DEF ProbeReturn, Returned, Resume
  <2>2. Caller.st = "run"
    BY <2>1, CallerFacts DEF TypingInv, Machine
  <2> QED BY <1>1, <2>1, <2>2, ExactRuns
<1> QED BY <1>2, <1>3

\* The functions that infer without checking ask their questions.
LEMMA QuestionsExact ==
    ASSUME TypingInv, ExactInv, InferOnlyEnter \/ InferOnlyAsks PROVE ExactInv'
<1>1. UNCHANGED <<export, at, outcome>>
  BY DEF InferOnlyEnter, InferOnlyAsks, file
<1>2. \/ top' = Entry("infer", top.a, top.a)
      \/ top' = Entry("reduce", TypeOf[top.a], TypeOf[top.a])
      \/ top' = Entry("isprop", TypeOf[top.a], TypeOf[top.a])
      \/ top' = Entry("infer", top.b, top.b)
      \/ top' = Entry("compare", TypeOf[top.a], TypeOf[top.b])
  BY DEF InferOnlyEnter, InferOnlyAsks, Ask
<1> QED BY <1>1, <1>2, ExactCalls

\* is_prop_checked fails only for what has no sort.
LEMMA IsPropReturnExact ==
    ASSUME TypingInv, ExactInv, IsPropReturn PROVE ExactInv'
<1>1. stack # <<>> /\ Caller.fn \in IsPropFunctions /\ UNCHANGED <<export, at, outcome>>
  BY DEF IsPropReturn, file
<1>2. /\ Caller \in Frame /\ Link(export, at, Caller, top) /\ Caller.st = "run"
      /\ Decided(export, at, top)
  BY <1>1, CallerFacts DEF TypingInv, Machine, ExactInv
<1>3. /\ Caller.pc \in {"typed", "sort"}
      /\ Caller.pc = "typed" => top.fn = "infer" /\ top.a = Caller.a
      /\ Caller.pc = "sort" => top.fn = "reduce" /\ top.a = TypeOf[Caller.a]
  BY <1>1, <1>2 DEF Link
<1>4. ASSUME NEW r \in BOOLEAN, top' = Answers(Caller, r),
             Caller.fn = "ispropchecked" /\ ~r => Exposes[TypeOf[Caller.a]] # "prop"
      PROVE  ExactInv'
  <2> DEFINE f == Answers(Caller, r)
  <2>1. f.fn = Caller.fn /\ f.st = "ok" /\ f.eq = r /\ f.a = Caller.a
    BY <1>2, ChangedFrames
  <2>2. top' = f
    BY <1>4
  <2> HIDE DEF f
  <2>3. Decided(export, at, f)
    BY <1>1, <1>4, <2>1 DEF Decided, Failures, IsPropFunctions
  <2> QED BY <1>1, <2>2, <2>3, ExactStep
<1>5. ASSUME NEW st \in Failures, top' = Ends(Caller, st),
             \/ Caller.a \notin Typed[Before(export, at)]
             \/ Exposes[TypeOf[Caller.a]] \notin Sorts
      PROVE  ExactInv'
  <2> DEFINE f == Ends(Caller, st)
  <2>1. f.fn = Caller.fn /\ f.st = st /\ f.a = Caller.a
    BY <1>2, ChangedFrames
  <2>2. top' = f
    BY <1>5
  <2> HIDE DEF f
  <2>3. Decided(export, at, f)
    BY <1>1, <1>5, <2>1 DEF Decided, Failures, IsPropFunctions
  <2> QED BY <1>1, <2>2, <2>3, ExactStep
<1>6. CASE top.st = "ok" /\ top' = [Caller EXCEPT !.pc = "sort"]
  <2>1. [Caller EXCEPT !.pc = "sort"].st = "run"
    BY <1>2 DEF Frame
  <2> QED BY <1>1, <1>6, <2>1, ExactRuns
<1> DEFINE s == Exposes[top.a]
<1>7. CASE /\ top.st = "ok" /\ Caller.pc = "sort"
           /\ top' = IF top.eq /\ s \in Sorts THEN Answers(Caller, s = "prop")
                     ELSE IF Caller.fn = "isprop" THEN Answers(Caller, FALSE)
                     ELSE Ends(Caller, "rejected")
  <2>1. top.eq /\ s = Exposes[TypeOf[Caller.a]]
    BY <1>2, <1>3, <1>7 DEF Decided
  <2>2. CASE s = "prop"
    <3>1. (s = "prop") = TRUE /\ s \in Sorts
      BY <2>2 DEF Sorts
    <3>2. top' = Answers(Caller, TRUE)
      BY <1>7, <2>1, <3>1
    <3> QED BY <1>4, <3>2
  <2>3. CASE s # "prop" /\ s \in Sorts
    <3>1. (s = "prop") = FALSE
      BY <2>3
    <3>2. top' = Answers(Caller, FALSE)
      BY <1>7, <2>1, <2>3, <3>1
    <3> QED BY <1>4, <2>1, <2>3, <3>2
  <2>4. CASE s \notin Sorts /\ Caller.fn = "isprop"
    <3>1. top' = Answers(Caller, FALSE)
      BY <1>7, <2>4
    <3> QED BY <1>4, <2>4, <3>1
  <2>5. CASE s \notin Sorts /\ Caller.fn # "isprop"
    <3>1. top' = Ends(Caller, "rejected") /\ "rejected" \in Failures
      BY <1>7, <2>5 DEF Failures
    <3> QED BY <1>5, <2>1, <2>5, <3>1
  <2> QED BY <2>2, <2>3, <2>4, <2>5 DEF Sorts
<1>8. CASE top.st \in Failures /\ top' = Outcome(Caller)
  <2>1. top.fn = "infer" /\ Caller.a \notin Typed[Before(export, at)]
    BY <1>2, <1>3, <1>8 DEF Decided
  <2>2. CASE Caller.fn = "isprop"
    <3>1. top' = Answers(Caller, FALSE)
      BY <1>8, <2>2 DEF Outcome
    <3> QED BY <1>4, <2>2, <3>1
  <2>3. CASE Caller.fn # "isprop"
    <3>1. top' = Ends(Caller, top.st)
      BY <1>1, <1>8, <2>3 DEF Outcome, IsPropFunctions
    <3> QED BY <1>5, <1>8, <2>1, <3>1
  <2> QED BY <2>2, <2>3
<1> HIDE DEF s
<1> QED BY <1>6, <1>7, <1>8 DEF IsPropReturn, Returned, Ok, Leave, Resume, s

\* Nothing depends on what proofs_of_same_prop answers.
LEMMA ProofsReturnExact ==
    ASSUME TypingInv, ExactInv, ProofsReturn PROVE ExactInv'
<1>1. stack # <<>> /\ Caller.fn = "proofs" /\ UNCHANGED <<export, at, outcome>>
  BY DEF ProofsReturn, file
<1>2. Caller \in Frame
  BY <1>1, CallerFacts DEF TypingInv, Machine
<1>3. top'.fn = "proofs"
  <2>1. \A r, st : Answers(Caller, r).fn = "proofs" /\ Ends(Caller, st).fn = "proofs"
    BY <1>1, <1>2 DEF Answers, Ends, Frame
  <2>2. \A pc : [Caller EXCEPT !.pc = pc].fn = "proofs"
    BY <1>1, <1>2 DEF Frame
  <2>3. Outcome(Caller).fn = "proofs"
    BY <2>1 DEF Outcome
  <2>4. \/ \E pc : top' = [Caller EXCEPT !.pc = pc]
        \/ \E r : top' = Answers(Caller, r)
        \/ top' = Outcome(Caller)
    BY DEF ProofsReturn, Leave, Resume
  <2> QED BY <2>1, <2>2, <2>3, <2>4
<1> QED BY <1>1, <1>3, Undecided, ExactStep

(* check_decl_once *)

\* A check that fails refutes the declaration in hand.
LEMMA RefusalIsDecided ==
    ASSUME NEW f \in Frame, f.fn = "check", NEW st \in Failures, ~Justified(export, at)
    PROVE  Decided(export, at, Ends(f, st))
<1>1. Ends(f, st).fn = "check" /\ Ends(f, st).st = st
  BY ChangedFrames
<1> QED BY <1>1 DEF Decided, Failures

\* A duplicate universe parameter.
LEMMA CheckHeaderExact ==
    ASSUME TypingInv, ExactInv, CheckHeader PROVE ExactInv'
<1>1. top \in Frame /\ top.fn = "check" /\ top.st = "run"
  BY TopFacts DEF TypingInv, Machine, CheckHeader, At
<1>2. UNCHANGED <<export, at, outcome>>
  BY DEF CheckHeader, file
<1>3. CASE record.dup
  <2>1. ~Justified(export, at)
    BY <1>3 DEF Justified, record
  <2>2. top' = Ends(top, "rejected") /\ "rejected" \in Failures
    BY <1>3 DEF CheckHeader, Goto, Failures
  <2> QED BY <1>1, <1>2, <2>1, <2>2, RefusalIsDecided, ExactStep
<1>4. CASE ~record.dup
  <2>1. top' = [top EXCEPT !.pc = "type"]
    BY <1>4 DEF CheckHeader, Goto
  <2>2. [top EXCEPT !.pc = "type"].st = "run"
    BY <1>1 DEF Frame
  <2> QED BY <1>2, <2>1, <2>2, ExactRuns
<1> QED BY <1>3, <1>4

\* The questions of the check.
LEMMA CheckAsksExact ==
    ASSUME TypingInv, ExactInv, CheckAsks \/ RescueEnter PROVE ExactInv'
<1>1. UNCHANGED <<export, at, outcome>>
  BY DEF CheckAsks, RescueEnter, file
<1>2. \E fn, a, b : top' = Entry(fn, a, b)
  BY DEF CheckAsks, RescueEnter, Ask
<1> QED BY <1>1, <1>2, ExactCalls

\* The check waits for what its declaration needs.
LEMMA CheckNeeds ==
    ASSUME TypingInv, ExactInv, stack # <<>>, Caller.fn = "check", top.st # "run"
    PROVE  /\ Caller \in Frame /\ Caller.st = "run" /\ Decided(export, at, top)
           /\ Caller.pc = "type" => top.fn = "infer" /\ top.a = export[at].typ
           /\ Caller.pc = "sort" => top.fn = "reduce" /\ top.a = TypeOf[export[at].typ]
           /\ Caller.pc \in {"value", "rescue"} =>
                top.fn = "infer" /\ top.a = export[at].value
           /\ Caller.pc \in {"match", "rematch"} =>
                /\ top.fn = "compare"
                /\ top.a = TypeOf[export[at].value] /\ top.b = export[at].typ
           /\ Caller.pc \in {"value", "match", "rescue", "rematch"} =>
                export[at].value # NoExp
<1>1. /\ Caller \in Frame /\ Caller.st = "run" /\ Derived(export, at, Caller)
      /\ Link(export, at, Caller, top)
  BY CheckCaller DEF TypingInv
<1>2. Caller.pc \in {"value", "match", "rescue", "rematch"} => export[at].value # NoExp
  BY <1>1, TypingAssumption DEF Derived
<1> QED BY <1>1, <1>2 DEF Link, ExactInv

\* A failure of what the check asks refutes the declaration.
LEMMA FailureRefutes ==
    ASSUME TypingInv, ExactInv, stack # <<>>, Caller.fn = "check", top.st \in Failures,
           Caller.pc \in {"type", "sort", "value", "match", "rescue", "rematch"}
    PROVE  ~Justified(export, at)
<1>1. top.st # "run"
  BY DEF Failures
<1>2. top.fn \notin {"reduce", "compare"} /\
      (top.fn = "infer" => top.a \notin Typed[Before(export, at)])
  BY <1>1, CheckNeeds DEF Decided
<1>3. CASE Caller.pc = "type"
  <2>1. export[at].typ \notin Typed[Before(export, at)]
    BY <1>1, <1>2, <1>3, CheckNeeds
  <2> QED BY <2>1 DEF Justified
<1>4. CASE Caller.pc \in {"value", "rescue"}
  <2>1. export[at].value # NoExp /\ export[at].value \notin Typed[Before(export, at)]
    BY <1>1, <1>2, <1>4, CheckNeeds
  <2> QED BY <2>1 DEF Justified
<1>5. CASE Caller.pc \in {"sort", "match", "rematch"}
  BY <1>1, <1>2, <1>5, CheckNeeds
<1> QED BY <1>3, <1>4, <1>5

\* A value whose type is another is not that of the declaration.
LEMMA MismatchRefutes ==
    ASSUME TypingInv, ExactInv, stack # <<>>, Caller.fn = "check", top.st = "ok",
           Caller.pc \in {"match", "rematch"}, ~top.eq
    PROVE  ~Justified(export, at)
<1>1. /\ top.fn = "compare" /\ export[at].value # NoExp /\ Decided(export, at, top)
      /\ top.a = TypeOf[export[at].value] /\ top.b = export[at].typ
  BY CheckNeeds
<1>2. <<TypeOf[export[at].value], export[at].typ>> \notin Equal
  BY <1>1 DEF Decided
<1> QED BY <1>1, <1>2 DEF Justified

\* A question of the check has been answered.
LEMMA CheckReturnsExact ==
    ASSUME TypingInv, ExactInv, CheckReturns PROVE ExactInv'
<1>1. /\ stack # <<>> /\ Caller.fn = "check" /\ top.st = "ok" /\ top.st # "run"
      /\ UNCHANGED <<export, at, outcome>>
  BY DEF CheckReturns, Returned, Ok, file
<1>2. Caller \in Frame /\ Caller.st = "run" /\ Decided(export, at, top)
  BY <1>1, CheckNeeds
<1>3. ASSUME NEW pc, top' = [Caller EXCEPT !.pc = pc] PROVE ExactInv'
  <2>1. [Caller EXCEPT !.pc = pc].st = "run"
    BY <1>2 DEF Frame
  <2> QED BY <1>1, <1>3, <2>1, ExactRuns
<1>4. ASSUME top' = Ends(Caller, "ok") PROVE ExactInv'
  <2>1. Ends(Caller, "ok").fn = "check" /\ Ends(Caller, "ok").st = "ok"
    BY <1>1, <1>2, ChangedFrames
  <2> QED BY <1>1, <1>4, <2>1, Undecided, ExactStep
<1>5. ASSUME Caller.pc = "sort", ~SortFits, top' = Ends(Caller, "rejected") PROVE ExactInv'
  <2>1. top.eq /\ top.a = TypeOf[export[at].typ]
    BY <1>1, <1>5, CheckNeeds DEF Decided
  <2>2. ~Justified(export, at)
    BY <1>5, <2>1 DEF SortFits, Justified, record
  <2>3. "rejected" \in Failures
    BY DEF Failures
  <2> QED BY <1>1, <1>2, <1>5, <2>2, <2>3, RefusalIsDecided, ExactStep
<1>6. \/ \E pc : top' = [Caller EXCEPT !.pc = pc]
      \/ top' = Ends(Caller, "ok")
      \/ Caller.pc = "sort" /\ ~SortFits /\ top' = Ends(Caller, "rejected")
  BY DEF CheckReturns, Returned, Resume
<1> QED BY <1>3, <1>4, <1>5, <1>6

\* A question of the check has failed.
LEMMA CheckFailsExact ==
    ASSUME TypingInv, ExactInv, CheckFails PROVE ExactInv'
<1>1. /\ stack # <<>> /\ Caller.fn = "check" /\ top.st \in Failures /\ top.st # "run"
      /\ Caller.pc \in {"type", "sort", "value", "match"}
      /\ top' = Ends(Caller, top.st) /\ UNCHANGED <<export, at, outcome>>
  BY DEF CheckFails, Returned, Failures, Resume, file
<1>2. Caller \in Frame /\ ~Justified(export, at)
  BY <1>1, CheckNeeds, FailureRefutes
<1> QED BY <1>1, <1>2, RefusalIsDecided, ExactStep

\* The rescue, too, only gives up what is wrong.
LEMMA RescueLeaveExact ==
    ASSUME TypingInv, ExactInv, RescueLeave PROVE ExactInv'
<1>1. /\ stack # <<>> /\ Caller.fn = "check" /\ top.st # "run"
      /\ Caller.pc \in {"rescue", "rematch"} /\ UNCHANGED <<export, at, outcome>>
  BY DEF RescueLeave, Returned, file
<1>2. Caller \in Frame
  BY <1>1, CheckNeeds
<1>3. ASSUME NEW st \in Failures, top' = Ends(Caller, st), ~Justified(export, at)
      PROVE  ExactInv'
  BY <1>1, <1>2, <1>3, RefusalIsDecided, ExactStep
<1>4. CASE top.st \in Failures
  <2>1. \E st \in Failures : top' = Ends(Caller, st)
    BY <1>4 DEF RescueLeave, Resume, Ok, Failures
  <2>2. ~Justified(export, at)
    BY <1>1, <1>4, FailureRefutes
  <2> QED BY <1>3, <2>1, <2>2
<1>5. CASE top.st \notin Failures
  <2>1. /\ Caller.pc = "rematch" /\ top.st = "ok"
        /\ top' = Ends(Caller, IF top.eq THEN "ok" ELSE "rejected")
    BY <1>5 DEF RescueLeave, Returned, Resume, Ok
  <2>2. CASE top.eq
    <3>1. top' = Ends(Caller, "ok")
      BY <2>1, <2>2
    <3>2. Ends(Caller, "ok").fn = "check" /\ Ends(Caller, "ok").st = "ok"
      BY <1>1, <1>2, ChangedFrames
    <3> QED BY <1>1, <3>1, <3>2, Undecided, ExactStep
  <2>3. CASE ~top.eq
    <3>1. top' = Ends(Caller, "rejected") /\ "rejected" \in Failures
      BY <2>1, <2>3 DEF Failures
    <3>2. ~Justified(export, at)
      BY <1>1, <2>1, <2>3, MismatchRefutes
    <3> QED BY <1>3, <3>1, <3>2
  <2> QED BY <2>2, <2>3
<1> QED BY <1>4, <1>5

(* The driver *)

\* A record refused at the door is not justified.
LEMMA HandleDefLikeExact ==
    ASSUME TypingInv, ExactInv, HandleDefLike PROVE ExactInv'
<1>1. /\ top.fn = "idle" /\ outcome = "none" /\ at <= Len(export)
      /\ UNCHANGED <<export, at>>
  BY DEF HandleDefLike, Idle
<1>2. CASE record.name \in env \/ record.unsafe
  <2>1. outcome' = "rejected" /\ top' = top
    BY <1>2 DEF HandleDefLike, frames
  <2>2. env = Before(export, at)
    <3>1. Root(top, stack) = top
      BY <1>1, BaseFacts DEF TypingInv, Machine, Root
    <3> QED BY <1>1, <3>1 DEF TypingInv, Machine, BaseInv
  <2>3. ~Justified(export, at)
    BY <1>2, <2>2 DEF Justified, record
  <2> QED BY <1>1, <2>1, <2>3 DEF ExactInv
<1>3. CASE ~(record.name \in env \/ record.unsafe)
  <2>1. top' = CheckFrame /\ outcome' = outcome
    BY <1>3 DEF HandleDefLike, Goto
  <2>2. CheckFrame.st = "run"
    BY DEF CheckFrame, Entry
  <2> QED BY <1>1, <2>1, <2>2, ExactRuns
<1> QED BY <1>2, <1>3

\* The second pass starts the check anew.
LEMMA RetryExact ==
    ASSUME TypingInv, ExactInv, Retry PROVE ExactInv'
<1>1. top' = CheckFrame /\ UNCHANGED <<export, at, outcome>>
  BY DEF Retry, Goto, file
<1>2. CheckFrame.st = "run"
  BY DEF CheckFrame, Entry
<1> QED BY <1>1, <1>2, ExactRuns

\* A verdict other than acceptance is that of a pass that refuted the record.
LEMMA ConcludeExact ==
    ASSUME TypingInv, ExactInv, Conclude PROVE ExactInv'
<1>1. top.fn = "check" /\ top.st # "run" /\ top' = IdleFrame /\ export' = export
  BY DEF Conclude, Checked, Goto
<1>2. at <= Len(export) /\ outcome = "none" /\ Verdict \in {"ok"} \cup Failures
  BY ConcludeFacts
<1>3. Decided(export', at', IdleFrame)
  <2>1. IdleFrame.fn = "idle"
    BY DEF IdleFrame, CheckFrame, Entry
  <2> QED BY <2>1 DEF Decided
<1>4. CASE Verdict = "ok"
  <2>1. outcome' = "none"
    BY <1>2, <1>4 DEF Conclude
  <2> QED BY <1>1, <1>3, <2>1 DEF ExactInv, Failures
<1>5. CASE Verdict # "ok"
  <2>1. outcome' = Verdict /\ at' = at /\ Verdict \in Failures
    BY <1>2, <1>5 DEF Conclude
  <2>2. top.st \in Failures
    <3>1. top.st \in {"ok"} \cup Failures
      BY <1>1, TopFacts DEF TypingInv, Machine, Frame
    <3> QED BY <1>5, <3>1 DEF Verdict, Failures
  <2>3. ~Justified(export, at)
    BY <1>1, <2>2 DEF ExactInv, Decided
  <2>4. outcome' # "accepted"
    BY <2>1 DEF Failures
  <2> QED BY <1>1, <1>2, <1>3, <2>1, <2>3, <2>4 DEF ExactInv
<1> QED BY <1>4, <1>5

\* The end is reached past the last record.
LEMMA EndOfExportExact ==
    ASSUME TypingInv, ExactInv, EndOfExport PROVE ExactInv'
<1>1. /\ outcome' = "accepted" /\ at > Len(export) /\ UNCHANGED <<export, at, top>>
  BY DEF EndOfExport, frames
<1>2. at = Len(export) + 1
  <2>1. export \in Seq(Decl) /\ at \in 1..(Len(export) + 1)
    BY TypingAssumption DEF TypingInv, Held
  <2> QED BY <1>1, <2>1
<1> QED BY <1>1, <1>2 DEF ExactInv, Failures

\* Every step keeps the verdict exact.
LEMMA ExactHolds ==
    ASSUME decides, TypingInv, ExactInv, [Next]_vars PROVE ExactInv'
<1>1. CASE Inference
  BY <1>1, InferEnterExact, InferPremiseExact, InferConstExact, InferReturnExact,
     InferFailsExact, InferDoneExact DEF Inference
<1>2. CASE Conversions
  BY <1>2, ConversionExact, ProbesExact, QuestionsExact, IsPropReturnExact,
     ProofsReturnExact DEF Conversions
<1>3. CASE Checks
  BY <1>3, CheckHeaderExact, CheckAsksExact, CheckReturnsExact, CheckFailsExact,
     RescueLeaveExact DEF Checks
<1>4. CASE Driver
  BY <1>4, HandleDefLikeExact, RetryExact, ConcludeExact, EndOfExportExact DEF Driver
<1>5. CASE UNCHANGED vars
  BY <1>5 DEF vars, file, frames, ExactInv
<1> QED BY <1>1, <1>2, <1>3, <1>4, <1>5 DEF Next

\* Where conversion decides, an export is accepted exactly when each of its
\* declarations is justified by those before it: neither a full table, nor an
\* unchecked entry, nor an inference on the way, nor the rescue or the second
\* pass costs a justified declaration its acceptance.
THEOREM Exactness == Spec => []VerdictIsExact
<1>1. Init => (decides => ExactInv)
  <2> SUFFICES ASSUME Init PROVE ExactInv
    OBVIOUS
  <2>1. top.fn = "idle" /\ outcome = "none"
    BY DEF Init, IdleFrame, CheckFrame, Entry
  <2> QED BY <2>1 DEF ExactInv, Decided, Failures
<1>2. TypingInv /\ (decides => ExactInv) /\ [Next]_vars => (decides => ExactInv)'
  BY ExactHolds, DecidesStays
<1>3. TypingInv /\ (decides => ExactInv) => VerdictIsExact
  <2> SUFFICES ASSUME TypingInv, decides, ExactInv, outcome # "none"
               PROVE  outcome = "accepted" <=> \A i \in DOMAIN export : Justified(export, i)
    BY DEF VerdictIsExact
  <2>1. export \in Seq(Decl) /\ at \in 1..(Len(export) + 1) /\ outcome \in Verdicts
    BY TypingAssumption DEF TypingInv, Held
  <2>2. DOMAIN export = 1..Len(export) /\ Len(export) \in Nat
    BY <2>1
  <2>3. CASE outcome = "accepted"
    <3>1. at - 1 = Len(export)
      BY <2>1, <2>2, <2>3 DEF ExactInv
    <3> QED BY <2>2, <2>3, <3>1 DEF TypingInv, Held, AcceptedAreJustified
  <2>4. CASE outcome # "accepted"
    <3>1. outcome \in Failures
      BY <2>1, <2>4 DEF Verdicts
    <3>2. at \in 1..Len(export) /\ ~Justified(export, at)
      BY <2>1, <2>2, <3>1 DEF ExactInv
    <3> QED BY <2>2, <2>4, <3>2
  <2> QED BY <2>3, <2>4
<1> QED BY <1>1, <1>2, <1>3, InvariantHolds, PTL DEF Spec
=============================================================================
