------------------------------ MODULE Reduction -----------------------------
(***************************************************************************)
(* How a recursor application reduces (tc.rs, try_iota and what it calls). *)
(* The rules in the export are not used: the constructor is read off the   *)
(* major premise, by its head, by structure eta or by K; its minor premise *)
(* is found in the installed type, and the recursive calls are worked out  *)
(* from the types of the constructor's fields.                             *)
(*                                                                         *)
(* An application is reduced once the block is accepted, under variables   *)
(* for the parameters, motives and minors and for the fields or the major. *)
(* Literals are outside this module, and so are arguments past the major,  *)
(* which are put back as they are.                                         *)
(***************************************************************************)
EXTENDS Recursors

CONSTANTS GiveUps,      \* whether the normal form of a field's type may fail
          IndexTerms    \* indices of a variable major

ASSUME ReductionAssumption == GiveUps \subseteq BOOLEAN

VARIABLES redex,      \* [target, major, gaveUp, ctx, args], what is reduced
          reduct      \* what try_iota answers: a term, or Stuck

reduceVars == <<redex, reduct>>

Stuck == <<"stuck">>
NoRedex == [target |-> 0]

\* The universes the recursor is used at, and a term of the block at them.
Us == [i \in DOMAIN lps |-> L!Param(MaxLevelId + i)]
AtUs(t) == InstantiateLevels(t, Subst(lps, Us))

RecConst(i) == Const("$rec" \o ToString(i), Us)

\* The recursors of the group in order, each with the constructors of its rules.
Rules(i) == [j \in DOMAIN members[i].ctors |-> members[i].ctors[j].name]
AllRules == FlattenSeq([i \in DOMAIN members |-> Rules(i)])
NMinors == Len(AllRules)
Outer == NP + Len(members) + NMinors

\* The isRec of the export for a type: a field mentions the group.
IsRec(t) ==
    \E c \in ToSet(Get(t).ctors) : \E d \in ToSet(Manifest(Get(c).typ).doms) :
        Occurs(d, ToSet(Get(t).all))

-----------------------------------------------------------------------------
(* The constructor the major premise stands for: name, parameters, fields, *)
(* universes; <<>> if there is none.                                       *)

Instance(c, np, args, us) ==
    [name |-> c, params |-> SubSeq(args, 1, np), fields |-> SubSeq(args, np + 1, Len(args)),
     us |-> us]

IsCtorOf(i, c) == c \in ToSet(Rules(i)) \/ \E t \in Names : c \in ToSet(Get(t).ctors)
ByHeadAt(i, h, as) ==
    IF /\ Tag(h) = "const" /\ Get(h[2]).kind = "ctor" /\ IsCtorOf(i, h[2])
       /\ Len(as) >= Get(h[2]).np
    THEN Instance(h[2], Get(h[2]).np, as, h[3]) ELSE <<>>
ByHeadOf(i, u) == ByHeadAt(i, u[1], u[2])
ByHead(i, major) == ByHeadOf(i, UnfoldApps(Whnf(major)))

IsNonRecStructure(t) ==
    Get(t).kind = "type" /\ Len(Get(t).ctors) = 1 /\ Get(t).ni = 0 /\ ~IsRec(t)

\* to_ctor_when_structure: the constructor at the projections of the major.
NFields(c) == Len(Manifest(Get(c).typ).doms) - Get(c).np
Expanded(t, c, as, us, major) ==
    Instance(c, Get(t).np,
             SubSeq(as, 1, Get(t).np) \o [k \in 1 .. NFields(c) |-> Proj(t, k - 1, major)], us)
ByStructureAt(ctx, typ, u, major) ==
    IF /\ ~L!IsDefEq(SortOf(ctx, typ), L!Zero)
       /\ Tag(u[1]) = "const" /\ IsNonRecStructure(u[1][2]) /\ Len(u[2]) >= Get(u[1][2]).np
    THEN Expanded(u[1][2], Get(u[1][2]).ctors[1], u[2], u[1][3], major) ELSE <<>>
ByStructureOf(ctx, typ, major) == ByStructureAt(ctx, typ, UnfoldApps(typ), major)
ByStructure(ctx, major) == ByStructureOf(ctx, Whnf(Infer(ctx, major)), major)

\* k_like_ctor: the major's type is the type of the one constructor.
OnlyCtor == Get(First).ctors[1]
ByKAt(h, as, params) ==
    IF /\ Tag(h) = "const" /\ h[2] = First
       /\ AllDefEq(as, UnfoldApps(Applied(TypOf(Get(OnlyCtor), h[3]), params))[2])
    THEN Instance(OnlyCtor, Get(OnlyCtor).np, params, Us) ELSE <<>>
ByKOf(u, params) == ByKAt(u[1], u[2], params)
ByK(ctx, params, major) == ByKOf(UnfoldApps(Whnf(Infer(ctx, major))), params)

-----------------------------------------------------------------------------
(* Which minor premise is the constructor's (minor_index_from_type and     *)
(* ctor_minor_index).                                                      *)

\* The type of member i's recursor behind its parameters.
Behind(i, params) == Manifest(Instantiate(Peel(AtUs(derived[i]), NP).rest, Reverse(params)))

\* What a minor concludes in, constructor and arguments.
LastArg(as) == UnfoldApps(as[Len(as)])
Shown(dom) == LastArg(UnfoldApps(Manifest(dom).rest)[2])
AllShown(doms) == [p \in 1 .. NMinors |-> Shown(doms[Len(members) + p])]

MinorsBefore(i) == Len(FlattenSeq([k \in 1 .. (i - 1) |-> Rules(k)]))
Place(cs, c) == FirstOf({ k \in DOMAIN cs : cs[k] = c })
MinorByPosition(i, c) ==
    IF c \in ToSet(Rules(i)) THEN MinorsBefore(i) + Place(Rules(i), c) ELSE Place(AllRules, c)

\* A bug: the first minor of that name is taken.
MinorByName(i, c, params, ctorParams) == Place(AllRules, c)

\* By name if that is enough, then by the constructor's parameters, compared
\* as they are written, then by position.
Foremost(named, exact, i, c) ==
    IF Cardinality(named) = 1 THEN FirstOf(named)
    ELSE IF exact # {} THEN FirstOf(exact) ELSE MinorByPosition(i, c)
Named(shown, c) == { p \in DOMAIN shown : Tag(shown[p][1]) = "const" /\ shown[p][1][2] = c }
AtParams(shown, c, ps) == { p \in Named(shown, c) : SubSeq(shown[p][2], 1, Len(ps)) = ps }
MinorAmong(shown, i, c, ctorParams) ==
    Foremost(Named(shown, c), AtParams(shown, c, ctorParams), i, c)
MinorIndex(i, c, params, ctorParams) ==
    MinorAmong(AllShown(Behind(i, params).doms), i, c, ctorParams)

-----------------------------------------------------------------------------
(* Recursive calls (mk_rec_call).                                          *)

\* nested_rec_for_type: the members whose major, as declared, is this
\* application, indices included.
MajorOf(j, params) ==
    LET n == Len(members) + NMinors + members[j].ni
    IN  UnfoldApps(Shift(Behind(j, params).doms[n + 1], 0 - n, 0))
IsMajor(u, target, args) ==
    /\ Tag(u[1]) = "const" /\ u[1][2] = target /\ Len(u[2]) >= Len(args)
    /\ AllDefEq(SubSeq(u[2], 1, Len(args)), args)
ByMajor(target, args, params) ==
    { j \in DOMAIN members : IsMajor(MajorOf(j, params), target, args) }

\* nested_rec_for: the members with a rule for a constructor of the target.
ByCtor(target) ==
    IF Get(target).kind # "type" THEN {}
    ELSE { j \in DOMAIN members : ToSet(Rules(j)) \cap ToSet(Get(target).ctors) # {} }

\* The recursor, parameters and indices of the call for an application t of
\* `target`, the parameters moved under the arguments of a field; <<>> if
\* there is none.  A call through another type gets no indices.
Call(j, ps, ix) == [rec |-> j, params |-> ps, indices |-> ix]
OwnCallee(target, args, params) ==
    IF AllDefEq(SubSeq(args, 1, NP), params)
    THEN Call(Place(block.types, target), SubSeq(args, 1, NP), Drop(args, NP)) ELSE <<>>
NestedCallee(exact, target, t, params) ==
    IF exact # {} THEN Call(FirstOf(exact), params, <<>>)
    ELSE IF Occurs(t, Names) /\ ByCtor(target) # {} THEN Call(FirstOf(ByCtor(target)), params, <<>>)
    ELSE <<>>
CalleeAt(h, args, t, params) ==
    IF Tag(h) # "const" THEN <<>>
    ELSE IF h[2] \in Names THEN OwnCallee(h[2], args, params)
    ELSE NestedCallee(ByMajor(h[2], args, params), h[2], t, params)
Callee(t, params) == CalleeAt(UnfoldApps(t)[1], UnfoldApps(t)[2], t, params)

Reduced(t, gaveUp) == IF gaveUp THEN t ELSE Whnf(t)

RECURSIVE FieldTelescope(_, _)
RECURSIVE FieldTelescopeAt(_, _)
FieldTelescopeAt(w, gaveUp) ==
    IF Tag(w) # "pi" THEN [doms |-> <<>>, rest |-> w]
    ELSE Telescoped(w[2], FieldTelescope(w[3], gaveUp))
FieldTelescope(t, gaveUp) == FieldTelescopeAt(Reduced(t, gaveUp), gaveUp)

LamTelescope(doms, body) == FoldRight(LAMBDA d, t : Lam(d, t), doms, body)

MovedUnder(ts, k) == [i \in DOMAIN ts |-> Shift(ts[i], k, 0)]

\* motives and minors in one list; the answer is a list of at most one call.
RecCallTo(callee, doms, field, motivesAndMinors) ==
    IF callee = <<>> \/ ~(\E t \in Names : IsRec(t)) THEN <<>>
    ELSE <<LamTelescope(doms,
             Apps(RecConst(callee.rec),
                  callee.params \o MovedUnder(motivesAndMinors, Len(doms)) \o callee.indices
                    \o <<Apps(Shift(field, Len(doms), 0), Counting(Len(doms)))>>))>>
RecCallAt(p, field, params, motivesAndMinors) ==
    RecCallTo(Callee(p.rest, MovedUnder(params, Len(p.doms))), p.doms, field, motivesAndMinors)
RecCall(field, typ, params, motivesAndMinors, gaveUp) ==
    RecCallAt(FieldTelescope(typ, gaveUp), field, params, motivesAndMinors)

\* iota_from_first_principles: the fields, then the calls, in field order.
RECURSIVE Calls(_, _, _, _, _)
CallsAt(w, fields, params, motivesAndMinors, gaveUp) ==
    RecCall(Head(fields), w[2], params, motivesAndMinors, gaveUp)
      \o Calls(Instantiate1(w[3], Head(fields)), Tail(fields), params, motivesAndMinors, gaveUp)
Calls(ct, fields, params, motivesAndMinors, gaveUp) ==
    IF fields = <<>> THEN <<>>
    ELSE CallsAt(Whnf(ct), fields, params, motivesAndMinors, gaveUp)

FirstPrinciples(c, params, motivesAndMinors, minor, gaveUp) ==
    Apps(minor, c.fields \o
        Calls(Applied(TypOf(Get(c.name), c.us), c.params),
              c.fields, params, motivesAndMinors, gaveUp))

\* try_iota
IotaAt(c, i, params, motivesAndMinors, gaveUp) ==
    IF c = <<>> THEN Stuck
    ELSE FirstPrinciples(c, params, motivesAndMinors,
             motivesAndMinors[Len(members) + MinorIndex(i, c.name, params, c.params)], gaveUp)
OrElse(c, d) == IF c # <<>> THEN c ELSE d
MajorCtor(i, ctx, params, major) ==
    OrElse(OrElse(ByHead(i, major), ByStructure(ctx, major)),
           IF KLike(block.types) THEN ByK(ctx, params, major) ELSE <<>>)
Iota(i, ctx, args, gaveUp) ==
    IotaAt(MajorCtor(i, ctx, SubSeq(args, 1, NP), args[Outer + members[i].ni + 1]),
           i, SubSeq(args, 1, NP), SubSeq(args, NP + 1, Outer), gaveUp)

-----------------------------------------------------------------------------
(* The machine: an application of a recursor of an accepted block, to a    *)
(* constructor or to a variable.  Both are written with named variables,   *)
(* as in the reference, and then counted.                                  *)

MinorNames == [p \in 1 .. NMinors |-> Var("m", p)]
OuterNames == ParamNames \o [i \in DOMAIN members |-> Motive(i)] \o MinorNames
Major == Var("t", 0)

\* A term over the named variables xs, each replaced by its index.
Closed(t, xs) ==
    FoldLeft(LAMBDA u, k : Abstract(xs[k], u, Len(xs) - k), t, [k \in DOMAIN xs |-> k])

FieldsAt(i, c) == Opened(At(c, members[i]), "f", 1)

Redex(i, major, gaveUp, ctx, args, xs) ==
    [target |-> i, major |-> major, gaveUp |-> gaveUp, ctx |-> ctx,
     args |-> [k \in DOMAIN args |-> Closed(args[k], xs)]]
CtorRedexAt(i, m, c, gaveUp, f) ==
    Redex(i, c, gaveUp, <<>>,
          OuterNames \o [k \in 1 .. m.ni |-> AtUs(IndicesOf(f.rest, i)[k])]
                     \o <<AtUs(Apps(Const(c, m.us), FixedAt(m) \o f.vars))>>,
          OuterNames \o f.vars)
CtorRedex(i, c, gaveUp) == CtorRedexAt(i, members[i], c, gaveUp, FieldsAt(i, c))

VariableRedex(i, ix, gaveUp) ==
    Redex(i, ix, gaveUp,
          Append(SubSeq(Manifest(AtUs(derived[i])).doms, 1, Outer),
                 Closed(AtUs(Apps(Const(members[i].name, members[i].us), FixedAt(members[i]) \o ix)),
                        OuterNames)),
          OuterNames \o ix \o <<Major>>, Append(OuterNames, Major))

Redexes ==
    UNION { { CtorRedex(i, c, g) : c \in ToSet(Rules(i)), g \in GiveUps }
            \cup { VariableRedex(i, ix, g) : ix \in [1 .. members[i].ni -> IndexTerms], g \in GiveUps } :
            i \in DOMAIN members }

TryIota ==
    /\ stage = "accepted" /\ redex = NoRedex
    /\ redex' \in Redexes
    /\ reduct' = Iota(redex'.target, redex'.ctx, redex'.args, redex'.gaveUp)
    /\ UNCHANGED recVars

ReduceInit == RecInit /\ redex = NoRedex /\ reduct = Stuck

ReduceNext == (RecNext /\ UNCHANGED reduceVars) \/ TryIota

ReduceSpec == ReduceInit /\ [][ReduceNext]_<<recVars, reduceVars>>

-----------------------------------------------------------------------------
(* Reference: Lean's rules, with named variables.                          *)

Lambdas(xs, doms, body) ==
    FoldRight(LAMBDA i, t : Lam(doms[i], Abstract(xs[i], t, 0)), [i \in DOMAIN xs |-> i], body)

\* The fields of a constructor that are recursive: member, arguments, indices.
\* `seen` says whether a field's type is reduced to find out.
RecursiveAt(v, o, hits) ==
    IF hits = {} THEN <<>> ELSE <<[field |-> v, o |-> o, member |-> CHOOSE x \in hits : TRUE]>>
Unseen(rest) == Whnf(rest) # rest
RecursiveOf(v, dom, o, seen) ==
    IF ~seen /\ Unseen(Manifest(dom).rest) THEN <<>> ELSE RecursiveAt(v, o, Hits(o.rest))
RecursiveIn(f, seen) ==
    FlattenSeq([k \in DOMAIN f.vars |->
        RecursiveOf(f.vars[k], f.doms[k], Opened(f.doms[k], "x", 1), seen)])

LeanCall(r) ==
    Lambdas(r.o.vars, r.o.doms,
        Apps(RecConst(r.member), OuterNames \o IndicesOf(r.o.rest, r.member)
                                   \o <<Apps(r.field, r.o.vars)>>))

MinorOf(i, c) == Var("m", MinorsBefore(i) + Place(Rules(i), c))

\* The minor of the constructor at its fields and the calls for them.
LeanRuleAt(minor, fields, calls) ==
    Apps(minor, fields \o [k \in DOMAIN calls |-> LeanCall(calls[k])])
LeanRule(i, c, f, seen) == LeanRuleAt(MinorOf(i, c), f.vars, RecursiveIn(f, seen))

\* The same with the fields read off a variable of a structure.
Projected(t, i, fs) ==
    FoldLeft(LAMBDA u, k : Instantiate1(Abstract(fs[k], u, 0), Proj(members[i].name, k - 1, Major)),
             t, [k \in DOMAIN fs |-> k])

\* A structure that is not a proposition stands for its constructor at its
\* projections; a proof of a type with one constructor without fields stands
\* for that constructor, at the indices it has.
IsStructure(m, prop) == ~prop /\ m.ni = 0 /\ ~IsRec(m.name)
IsKLike(i, prop, ix, f) ==
    prop /\ Len(members) = 1 /\ f.vars = <<>> /\ IndicesOf(f.rest, i) = ix
OfVariable(i, ix, f, rule, prop) ==
    IF Len(Rules(i)) # 1 THEN Stuck
    ELSE IF IsStructure(members[i], prop) THEN Projected(rule, i, f.vars)
    ELSE IF IsKLike(i, prop, ix, f) THEN rule
    ELSE Stuck

ByCtorMajor == redex.ctx = <<>>
Counted2(t, xs) == IF t = Stuck THEN Stuck ELSE Closed(AtUs(t), xs)
ExpectedFrom(i, major, f, rule) ==
    IF ByCtorMajor THEN Counted2(rule, OuterNames \o f.vars)
    ELSE Counted2(OfVariable(i, major, f, rule, L!IsDefEq(MemberSort(members[i], NP), L!Zero)),
                 Append(OuterNames, Major))
ExpectedAt(i, c, major, f, seen) == ExpectedFrom(i, major, f, LeanRule(i, c, f, seen))

-----------------------------------------------------------------------------
(* Properties.                                                             *)

ReduceTypeOK == redex = NoRedex => reduct = Stuck

\* A recursive field that is an application of an earlier inductive with indices.
ThroughIndexed(calls) ==
    \E r \in ToSet(calls) : r.member > Len(block.types) /\ members[r.member].ni > 0

\* A recursor applied to a constructor, or to what stands for one, reduces to
\* the rule of Lean's kernel: the constructor's own minor, the fields, then one
\* call per recursive field, with motives, minors and binders in place
\* (iota_from_first_principles).  A normal form that fails inside mk_rec_call
\* loses the calls that show only after a step, and no others.  A call through
\* a container with indices is set apart: the code builds it without them.
Agree(t, lean) ==
    \/ t = Stuck /\ lean = Stuck
    \/ t # Stuck /\ lean # Stuck /\ Normal(t) = Normal(lean)
ReductIsLeansAt(i, c, f) ==
    \/ ByCtorMajor /\ ThroughIndexed(RecursiveIn(f, TRUE))
    \/ Agree(reduct, ExpectedAt(i, c, redex.major, f, ~redex.gaveUp))
ReductIsLeans(i, c) == ReductIsLeansAt(i, c, FieldsAt(i, c))
ReductsAreLeans ==
    redex # NoRedex =>
        IF ByCtorMajor THEN ReductIsLeans(redex.target, redex.major)
        ELSE IF Rules(redex.target) = <<>> THEN reduct = Stuck
        ELSE ReductIsLeans(redex.target, Rules(redex.target)[1])
=============================================================================
