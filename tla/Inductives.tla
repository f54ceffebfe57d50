----------------------------- MODULE Inductives -----------------------------
(***************************************************************************)
(* Inductive blocks: what tc.rs checks of their types and constructors,    *)
(* and how tc/recursor.rs derives their recursors.  Operators over a block *)
(* staged in front of the constants declared before it; `Recursors` runs   *)
(* them in the order of the reader and says what is right.                 *)
(*                                                                         *)
(* Types are compared and put in head normal form by beta and by unfolding *)
(* definitions, the part of conversion that these checks need; how the     *)
(* checker converts is the subject of Conversion and Typing.               *)
(***************************************************************************)
EXTENDS Spines, SequencesExt

CONSTANTS Prior,       \* the constants declared before: name -> constant
          MaxLevelId   \* the largest index of a universe parameter

VARIABLE block      \* [types: sequence of names, decls: name -> constant]

\* Levels here are at most 4 constructors high; instances of them, 8.
L == INSTANCE Levels WITH Params <- Int, MaxLevels <- 0, MaxHeight <- 4, MaxValue <- 6, levels <- {}

Unknown == [kind |-> "unknown"]
Listed(consts, n, default) == IF n \in DOMAIN consts THEN consts[n] ELSE default
Get(n) == Listed(block.decls, n, Listed(Prior, n, Unknown))

-----------------------------------------------------------------------------
(* Conversion, telescopes, occurrences.                                    *)

RECURSIVE Whnf(_)
RECURSIVE WhnfAt(_, _, _)
Unfolded(t, c, as) == IF c.kind = "def" THEN Whnf(Apps(c.value, as)) ELSE t
WhnfAt(t, head, as) ==
    IF Tag(head) = "lam" /\ as # <<>>
    THEN Whnf(Apps(Instantiate1(head[3], as[1]), Tail(as)))
    ELSE IF Tag(head) = "const" THEN Unfolded(t, Get(head[2]), as)
    ELSE t
Whnf(t) == WhnfAt(t, UnfoldApps(t)[1], UnfoldApps(t)[2])

RECURSIVE Normal(_)
Normal(t) == Rebuild(Whnf(t), LAMBDA c, d : Normal(c))

DefEq(a, b) == Normal(a) = Normal(b)
AllDefEq(as, bs) == Len(as) = Len(bs) /\ \A i \in DOMAIN as : DefEq(as[i], bs[i])

Telescoped(dom, p) == [p EXCEPT !.doms = <<dom>> \o @]

\* The first n domains of a function type, and the rest; ensure_pi at each.
RECURSIVE Peel(_, _)
RECURSIVE PeelAt(_, _, _)
PeelAt(t, w, n) ==
    IF Tag(w) # "pi" THEN [ok |-> FALSE, doms |-> <<>>, rest |-> t]
    ELSE Telescoped(w[2], Peel(w[3], n - 1))
Peel(t, n) ==
    IF n = 0 THEN [ok |-> TRUE, doms |-> <<>>, rest |-> t] ELSE PeelAt(t, Whnf(t), n)

\* As many domains as there are.
RECURSIVE PeelAll(_)
RECURSIVE PeelAllAt(_, _)
PeelAllAt(t, w) ==
    IF Tag(w) # "pi" THEN [ok |-> TRUE, doms |-> <<>>, rest |-> t]
    ELSE Telescoped(w[2], PeelAll(w[3]))
PeelAll(t) == PeelAllAt(t, Whnf(t))

\* The domains that stand there, without reducing.
RECURSIVE Manifest(_)
Manifest(t) ==
    IF Tag(t) # "pi" THEN [ok |-> TRUE, doms |-> <<>>, rest |-> t]
    ELSE Telescoped(t[2], Manifest(t[3]))

\* close_rec_telescope
CloseTelescope(doms, result) == FoldRight(LAMBDA d, t : Pi(d, t), doms, result)

\* occurs_any
RECURSIVE Occurs(_, _)
Occurs(t, names) ==
    \/ Tag(t) = "const" /\ t[2] \in names
    \/ \E p \in Parts(t) : Occurs(p[1], names)

Subst(lps, us) == [l \in { L!Param(lps[i]) : i \in DOMAIN lps } |->
                      us[CHOOSE i \in DOMAIN lps : L!Param(lps[i]) = l]]
ParamLevels(lps) == [i \in DOMAIN lps |-> L!Param(lps[i])]
TypOf(c, us) == InstantiateLevels(c.typ, Subst(c.lps, us))

\* infer_type and ensure_sort on the types of fields, which are well typed.
RECURSIVE Infer(_, _)
Infer(ctx, t) ==
    CASE Tag(t) = "bvar" -> Shift(ctx[Len(ctx) - t[2]], t[2] + 1, 0)
      [] Tag(t) = "sort" -> Sort(L!Succ(t[2]))
      [] Tag(t) = "const" -> TypOf(Get(t[2]), t[3])
      [] Tag(t) = "app" -> Instantiate1(Whnf(Infer(ctx, t[2]))[3], t[3])
      [] Tag(t) = "lam" -> Pi(t[2], Infer(Append(ctx, t[2]), t[3]))
      [] Tag(t) = "pi" -> Sort(L!IMax(Whnf(Infer(ctx, t[2]))[2],
                                      Whnf(Infer(Append(ctx, t[2]), t[3]))[2]))
SortOf(ctx, t) == Whnf(Infer(ctx, t))[2]

-----------------------------------------------------------------------------
(* Strict positivity (check_arg_positive and what it calls).               *)

\* shift_visiting: what was recorded further out, seen under `by` more binders.
ShiftVisiting(visiting, by) ==
    { <<v[1], [i \in DOMAIN v[2] |-> Shift(v[2][i], by, 0)]>> : v \in visiting }

\* check_uniform_i
Uniform(depth, args, bound, np) ==
    /\ \A i \in DOMAIN args : ~Occurs(args[i], bound)
    /\ Len(args) >= np
    /\ \A i \in 1 .. np : DefEq(args[i], BVar(depth - i))

\* A bug: the domains of an argument's type are not looked at.
RECURSIVE PositiveInResult(_, _, _, _, _)
RECURSIVE Positive(_, _, _, _, _)
RECURSIVE PositiveCtor(_, _, _, _, _)

\* check_nested_functor: a container is positive in the block when its
\* constructors, at these parameters, are; a specialization already being
\* looked at is taken for positive.
PositiveNested(depth, n, us, args, bound, np, visiting) ==
    LET f == Get(n) IN
    /\ f.kind = "type" /\ Len(args) >= f.np /\ Len(f.lps) = Len(us)
    /\ LET params == SubSeq(args, 1, f.np)
           indices == SubSeq(args, f.np + 1, Len(args))
           seen == \E v \in visiting : v[1] = n /\ AllDefEq(v[2], params)
       IN  /\ \A i \in DOMAIN indices : ~Occurs(indices[i], bound)
           /\ \/ seen
              \/ /\ \E i \in DOMAIN params : Occurs(params[i], bound)
                 /\ \A t \in ToSet(f.all) : \A c \in ToSet(Get(t).ctors) :
                       LET ctor == Get(c) IN
                       /\ ctor.kind = "ctor" /\ ctor.np = Len(params)
                       /\ Len(ctor.lps) = Len(us)
                       /\ PositiveCtor(depth,
                              FoldLeft(LAMBDA ty, a : Instantiate1(ty[3], a),
                                       InstantiateLevels(ctor.typ, Subst(ctor.lps, us)), params),
                              bound, np,
                              visiting \cup { <<g, params>> : g \in ToSet(f.all) })

\* check_positive_spine
PositiveSpine(depth, t, bound, np, visiting) ==
    \/ ~Occurs(t, bound)
    \/ LET u == UnfoldApps(t) IN
       /\ Tag(u[1]) = "const"
       /\ IF u[1][2] \in bound THEN Uniform(depth, u[2], bound, np)
          ELSE PositiveNested(depth, u[1][2], u[1][3], u[2], bound, np, visiting)

PositiveInResult(depth, t, bound, np, visiting) ==
    LET w == Whnf(t) IN
    IF Tag(w) = "pi"
    THEN PositiveInResult(depth + 1, w[3], bound, np, ShiftVisiting(visiting, 1))
    ELSE PositiveSpine(depth, w, bound, np, visiting)

\* check_arg_positive_in
Positive(depth, t, bound, np, visiting) ==
    LET w == Whnf(t) IN
    IF Tag(w) = "pi"
    THEN ~Occurs(w[2], bound) /\ Positive(depth + 1, w[3], bound, np, ShiftVisiting(visiting, 1))
    ELSE PositiveSpine(depth, w, bound, np, visiting)

\* check_specialized_ctor_positive: the fields in order, each under the ones
\* before it, then the conclusion.
PositiveCtor(depth, t, bound, np, visiting) ==
    IF Tag(t) = "pi"
    THEN /\ Positive(depth, t[2], bound, np, visiting)
         /\ PositiveCtor(depth + 1, t[3], bound, np, ShiftVisiting(visiting, 1))
    ELSE LET u == UnfoldApps(t) IN
         IF Tag(u[1]) = "const" /\ Get(u[1][2]).kind = "type"
         THEN \A i \in DOMAIN u[2] : i > Get(u[1][2]).np => ~Occurs(u[2][i], bound)
         ELSE ~Occurs(t, bound)

-----------------------------------------------------------------------------
(* check_inductive_group_structure.                                        *)

DistinctIds(s) == \A i, j \in DOMAIN s : s[i] = s[j] => i = j

RECURSIVE IsNumeral(_)
IsNumeral(l) == l = L!Zero \/ (L!Op(l) = "succ" /\ IsNumeral(l[2]))

\* is_strict_succ_of
StrictSucc(hi, lo) == L!Offset(hi) > 0 /\ L!IsDefEq(L!Base(hi), lo)

TooBig(field, sort) ==
    /\ \/ IsNumeral(field) /\ IsNumeral(sort) /\ ~L!Leq(field, sort, 0)
       \/ StrictSucc(field, sort)
    /\ ~L!IsDefEq(sort, L!Zero)

Telescope(t) == Peel(Get(t).typ, Get(t).np + Get(t).ni)
ResultSort(t) == Whnf(Telescope(t).rest)[2]
ParamDoms(t) == SubSeq(Telescope(t).doms, 1, Get(t).np)

TelescopeWellFormed(p, first) ==
    /\ p.ok /\ Tag(Whnf(p.rest)) = "sort"
    /\ AllDefEq(SubSeq(p.doms, 1, Get(first).np), ParamDoms(first))
TypeWellFormed(t, first) ==
    /\ Get(t).np = Get(first).np /\ Get(t).lps = Get(first).lps
    /\ TelescopeWellFormed(Telescope(t), first)

FieldOk(ctx, dom, t, bound) ==
    /\ Positive(Len(ctx), dom, bound, Get(t).np, {})
    /\ ~TooBig(SortOf(ctx, dom), ResultSort(t))

\* The constructor's own parameters, its fields one by one, and a conclusion
\* that is the inductive at the shared parameters and at indices without it.
ConclusionOk(ctx, t, rest, bound) ==
    LET u == UnfoldApps(rest)
        np == Get(t).np
    IN  /\ Tag(u[1]) = "const" /\ u[1][2] = t
        /\ Len(u[1][3]) = Len(Get(t).lps)
        /\ \A i \in DOMAIN u[1][3] : L!IsDefEq(u[1][3][i], L!Param(Get(t).lps[i]))
        /\ Len(u[2]) = np + Get(t).ni
        /\ \A i \in 1 .. np : DefEq(u[2][i], BVar(Len(ctx) - i))
        /\ \A i \in np + 1 .. Len(u[2]) : ~Occurs(u[2][i], bound)

CtorAtWellFormed(ctor, doms, rest, t, first, bound) ==
    /\ ctor.kind = "ctor" /\ ctor.lps = Get(first).lps /\ ctor.np = Get(first).np
    /\ AllDefEq(SubSeq(doms, 1, ctor.np), ParamDoms(first))
    /\ \A i \in ctor.np + 1 .. Len(doms) : FieldOk(SubSeq(doms, 1, i - 1), doms[i], t, bound)
    /\ ConclusionOk(doms, t, rest, bound)
CtorBehind(ctor, ps, fields, t, first, bound) ==
    ps.ok /\ CtorAtWellFormed(ctor, ps.doms \o fields.doms, fields.rest, t, first, bound)
CtorPeeled(ctor, ps, t, first, bound) == CtorBehind(ctor, ps, Manifest(ps.rest), t, first, bound)
CtorWellFormed(c, t, first, bound) ==
    CtorPeeled(Get(c), Peel(Get(c).typ, Get(c).np), t, first, bound)

GroupStructure(first) ==
    LET bound == ToSet(Get(first).all) IN
    /\ DistinctIds(Get(first).lps)
    /\ \A t \in bound : TypeWellFormed(t, first)
    /\ \A t \in bound : \A c \in ToSet(Get(t).ctors) : CtorWellFormed(c, t, first, bound)

-----------------------------------------------------------------------------
(* Which universes a recursor may eliminate into.                          *)

\* The fields of a constructor that are data and do not show in its conclusion.
HiddenAmong(np, doms, shown) ==
    { i \in np + 1 .. Len(doms) :
        /\ BVar(Len(doms) - i) \notin shown
        /\ ~L!IsDefEq(SortOf(SubSeq(doms, 1, i - 1), doms[i]), L!Zero) }
HiddenIn(np, all) == HiddenAmong(np, all.doms, ToSet(UnfoldApps(all.rest)[2]))
HiddenData(c) == HiddenIn(Get(c).np, Manifest(Get(c).typ))

\* elim_only_at_universe_zero
ElimOnlyAtZero(all) ==
    /\ ~L!IsNotZero(ResultSort(all[1]))
    /\ \/ Len(all) > 1
       \/ Len(Get(all[1]).ctors) > 1
       \/ \E c \in ToSet(Get(all[1]).ctors) : HiddenData(c) # {}

\* is_k_like
KLike(all) ==
    /\ Len(all) = 1 /\ Len(Get(all[1]).ctors) = 1
    /\ L!IsDefEq(Whnf(PeelAll(Get(all[1]).typ).rest)[2], L!Zero)
    /\ Len(Manifest(Get(Get(all[1]).ctors[1]).typ).doms) = Get(all[1]).np

-----------------------------------------------------------------------------
(* Members: the block's types and the specializations they nest in.        *)

Member(n, us, fixed, typ, ni, ctors) ==
    [name |-> n, us |-> us, fixed |-> fixed, typ |-> typ, ni |-> ni, ctors |-> ctors]
MemberCtor(n, us, typ) == [name |-> n, us |-> us, typ |-> typ]

ParamVars(np) == [i \in 1 .. np |-> BVar(np - i)]

\* original_rec_members
OriginalMembers(all, np, subst, us) ==
    [k \in DOMAIN all |->
        LET t == Get(all[k]) IN
        Member(all[k], us, ParamVars(np), InstantiateLevels(t.typ, subst), t.ni,
               [j \in DOMAIN t.ctors |->
                   MemberCtor(t.ctors[j], us, InstantiateLevels(Get(t.ctors[j]).typ, subst))])]

\* The indices of a member's application under `depth` binders in all, or NoMatch.
NoMatch == <<"no match">>
PrefixMatches(m, t, np, depth) ==
    LET u == UnfoldApps(t)
        k == Len(m.fixed)
    IN  IF /\ Tag(u[1]) = "const" /\ u[1][2] = m.name /\ u[1][3] = m.us
           /\ Len(u[2]) >= k
           /\ \A i \in 1 .. k : u[2][i] = Shift(m.fixed[i], depth - np, 0)
        THEN SubSeq(u[2], k + 1, Len(u[2])) ELSE NoMatch

\* find_member_target
MatchingMembers(ms, t, np, depth) ==
    { i \in DOMAIN ms : LET ix == PrefixMatches(ms[i], t, np, depth)
                        IN  ix # NoMatch /\ Len(ix) = ms[i].ni }

\* find_member_target_defeq
ConvertibleMembers(ms, t, np, depth) ==
    LET u == UnfoldApps(Whnf(t)) IN
    { i \in DOMAIN ms :
        LET m == ms[i] IN
        /\ Tag(u[1]) = "const" /\ u[1][2] = m.name
        /\ Len(u[1][3]) = Len(m.us)
        /\ \A j \in DOMAIN m.us : L!IsDefEq(u[1][3][j], m.us[j])
        /\ Len(u[2]) = Len(m.fixed) + m.ni
        /\ \A j \in DOMAIN m.fixed : DefEq(u[2][j], Shift(m.fixed[j], depth - np, 0)) }

\* contains_current_member, under `d` binders of the constructor.
RECURSIVE ContainsMember(_, _, _, _, _)
ContainsMember(t, d, np, names, ms) ==
    \/ Tag(t) = "const" /\ t[2] \in names
    \/ \E i \in DOMAIN ms : PrefixMatches(ms[i], t, np, np + d) # NoMatch
    \/ \E p \in Parts(t) : ContainsMember(p[1], d + p[2], np, names, ms)

\* has_bvar_in_range, for the d innermost binders.
HasLocal(t, d) == \E i \in Free(t) : i < d

\* specialize_prior_telescope
Specialize(typ, lps, us, fixed, params) ==
    LET p == Peel(InstantiateLevels(typ, Subst(lps, us)), Len(fixed))
    IN  CloseTelescope(params, Instantiate(p.rest, Reverse(fixed)))

SpecializedMembers(n, us, fixed, params) ==
    LET all == Get(n).all IN
    [k \in DOMAIN all |->
        LET t == Get(all[k]) IN
        Member(all[k], us, fixed, Specialize(t.typ, t.lps, us, fixed, params), t.ni,
               [j \in DOMAIN t.ctors |->
                   LET c == Get(t.ctors[j]) IN
                   MemberCtor(t.ctors[j], us, Specialize(c.typ, c.lps, us, fixed, params))])]

\* nested_occurrence: the application of an earlier inductive whose parameters
\* mention the block.
IsNested(t, d, np, names, ms) ==
    LET u == UnfoldApps(t) IN
    /\ Tag(t) = "app" /\ Tag(u[1]) = "const" /\ u[1][2] \notin names
    /\ Get(u[1][2]).kind = "type" /\ Len(u[2]) >= Get(u[1][2]).np
    /\ \E i \in 1 .. Get(u[1][2]).np : ContainsMember(u[2][i], d, np, names, ms)

\* The parameters of a nested occurrence, in the context of the block's own.
SourceParams(t, d, np) ==
    [i \in 1 .. np |-> Shift(UnfoldApps(t)[2][i], 0 - d, 0)]

\* The parts of a term in the order they are written.
PartSeq(t) ==
    CASE IsLeaf(t) -> <<>>
      [] Tag(t) = "app" -> <<<<t[2], 0>>, <<t[3], 0>>>>
      [] Tag(t) \in {"lam", "pi"} -> <<<<t[2], 0>>, <<t[3], 1>>>>
      [] Tag(t) = "let" -> <<<<t[2], 0>>, <<t[3], 0>>, <<t[4], 1>>>>
      [] Tag(t) = "proj" -> <<<<t[4], 0>>>>

\* add_nested_specialization
WithSpecialization(n, us, fixed, params, ms) ==
    IF \E i \in DOMAIN ms : ms[i].name = n /\ ms[i].us = us /\ ms[i].fixed = fixed
    THEN ms ELSE ms \o SpecializedMembers(n, us, fixed, params)

\* scan_nested_expr: outermost first, and not into what becomes a member.  No
\* members at all stand for the rejection of parameters with local variables.
LocalParams == <<>>
RECURSIVE Scan(_, _, _, _, _, _)
Scan(t, d, np, params, names, ms) ==
    IF ms = LocalParams THEN LocalParams
    ELSE IF IsNested(t, d, np, names, ms)
    THEN LET h == UnfoldApps(t)[1]
             k == Get(h[2]).np
         IN  IF \E i \in 1 .. k : HasLocal(UnfoldApps(t)[2][i], d) THEN LocalParams
             ELSE WithSpecialization(h[2], h[3], SourceParams(t, d, k), params, ms)
    ELSE FoldLeft(LAMBDA acc, p : Scan(p[1], d + p[2], np, params, names, acc), ms, PartSeq(t))

\* One round of expand_nested_members: the constructors of one member.
ScanMember(m, np, params, names, ms) ==
    FoldLeft(LAMBDA acc, c : Scan(Peel(c.typ, np).rest, 0, np, params, names, acc), ms, m.ctors)

\* expanded_prop_only, which wants one result universe for all members.
MemberSort(m, np) == Whnf(Peel(m.typ, np + m.ni).rest)[2]
OneSort(ms, np) == \A i \in DOMAIN ms : L!IsDefEq(MemberSort(ms[i], np), MemberSort(ms[1], np))
\* A bug: a group with specializations is not restricted at all.
OwnPropOnly(names, ms, np) == Len(ms) = Len(names) /\ ElimOnlyAtZero(names)

ExpandedPropOnly(names, ms, np) ==
    IF Len(ms) = Len(names) THEN ElimOnlyAtZero(names)
    ELSE ~L!IsNotZero(MemberSort(ms[1], np))

-----------------------------------------------------------------------------
(* The type of a recursor (build_base_recursor_type, build_minor_type).    *)

\* member_app, under `depth` binders in all.
MemberApp(m, np, depth, indices) ==
    Apps(Const(m.name, m.us),
         [i \in DOMAIN m.fixed |-> Shift(m.fixed[i], depth - np, 0)] \o indices)

Counting(n) == [i \in 1 .. n |-> BVar(n - i)]

\* The index telescope of a member, moved from under the parameters to `base`.
IndexDoms(m, np, base) ==
    LET doms == Peel(Peel(m.typ, np).rest, m.ni).doms
    IN  [i \in DOMAIN doms |-> Shift(doms[i], base - np, i - 1)]

MotiveType(m, np, base, elim) ==
    LET ix == IndexDoms(m, np, base) IN
    CloseTelescope(ix, Pi(MemberApp(m, np, base + m.ni, Counting(m.ni)), Sort(elim)))

\* A bug: what is inserted inside a field is moved past everything.
MovedFlat(t, outer, inner, keep, locals) == Shift(t, outer + inner, locals)

\* A term over the parameters, `keep` fields and `locals` arguments: motives
\* and minors come in outside the fields, the other fields and the earlier
\* hypotheses inside them.
Moved(t, outer, inner, keep, locals) == Shift(Shift(t, outer, locals + keep), inner, locals)

\* The member that t is an application of and the spine it shows it by: as t
\* is written, else as it reduces; <<>> if there is none.
FirstOf(S) == CHOOSE x \in S : \A y \in S : x <= y
TargetAmong(t, direct, convertible) ==
    IF direct # {} THEN <<FirstOf(direct), UnfoldApps(t)[2]>>
    ELSE IF convertible # {} THEN <<FirstOf(convertible), UnfoldApps(Whnf(t))[2]>>
    ELSE <<>>
Target(ms, t, np, depth) ==
    TargetAmong(t, MatchingMembers(ms, t, np, depth), ConvertibleMembers(ms, t, np, depth))

\* A recursive field: its arguments' types, its member and the indices there.
FieldTarget(target, doms, ms) ==
    IF target = <<>> THEN <<>>
    ELSE <<[doms |-> doms, member |-> target[1],
            indices |-> SubSeq(target[2], Len(ms[target[1]].fixed) + 1, Len(target[2]))]>>
RecursiveFieldAt(p, ms, np, k) ==
    FieldTarget(Target(ms, p.rest, np, np + k + Len(p.doms)), p.doms, ms)
RecursiveField(ms, np, dom, k) == RecursiveFieldAt(PeelAll(Whnf(dom)), ms, np, k)

\* The induction hypothesis of the k-th field (from 0): `n` fields in all, `h`
\* hypotheses before it, `base` binders outside.
HypothesisFor(r, args, np, k, n, h, base) ==
    CloseTelescope(
        [a \in 1 .. args |-> Moved(r.doms[a], base - np, n - k + h, k, a - 1)],
        Apps(BVar(base + n + h + args - (np + r.member)),
             [j \in DOMAIN r.indices |-> Moved(r.indices[j], base - np, n - k + h, k, args)]
               \o <<Apps(BVar(n + h + args - 1 - k), Counting(args))>>))
Hypotheses(ms, np, doms, base) ==
    LET rs == [k \in DOMAIN doms |-> RecursiveField(ms, np, doms[k], k - 1)] IN
    FoldLeft(LAMBDA acc, k :
                acc \o [j \in DOMAIN rs[k] |->
                           HypothesisFor(rs[k][j], Len(rs[k][j].doms), np, k - 1, Len(doms), Len(acc), base)],
             <<>>, [k \in DOMAIN doms |-> k])

\* A recursive occurrence that is no member's exact application.
StrayAt(p, ms, np, names, depth) ==
    Target(ms, p.rest, np, depth) = <<>> /\ ContainsMember(p.rest, depth - np, np, names, ms)
StrayIn(p, ms, np, names, k) == StrayAt(p, ms, np, names, np + k + Len(p.doms))
Stray(ms, np, names, dom, k) == StrayIn(PeelAll(Whnf(dom)), ms, np, names, k)

FieldsOf(c, np) == PeelAll(Peel(c.typ, np).rest)

\* A constructor of the owner concludes in the owner, and its fields recur
\* only through members.
ConcludesIn(found, owner) == found # {} /\ FirstOf(found) = owner
MinorOkAt(f, ms, owner, np, names) ==
    /\ ConcludesIn(MatchingMembers(ms, f.rest, np, np + Len(f.doms)), owner)
    /\ \A k \in DOMAIN f.doms : ~Stray(ms, np, names, f.doms[k], k - 1)
MinorOk(ms, owner, c, np, names) == MinorOkAt(FieldsOf(c, np), ms, owner, np, names)

\* The conclusion of a minor: n fields, h hypotheses, base binders outside.
MinorResult(m, owner, c, indices, np, base, n, h) ==
    Apps(BVar(base + n + h - (np + owner)),
         Append([i \in DOMAIN indices |-> Shift(Shift(indices[i], base - np, n), h, 0)],
                Apps(Const(c.name, c.us),
                     [i \in DOMAIN m.fixed |-> Shift(m.fixed[i], base + n + h - np, 0)]
                       \o [k \in 1 .. n |-> BVar(n + h - k)])))
MinorAt(f, hyps, ms, owner, c, np, base) ==
    CloseTelescope([k \in DOMAIN f.doms |-> Shift(f.doms[k], base - np, k - 1)] \o hyps,
        MinorResult(ms[owner], owner, c, PrefixMatches(ms[owner], f.rest, np, np + Len(f.doms)),
                    np, base, Len(f.doms), Len(hyps)))
MinorOver(f, ms, owner, c, np, base) ==
    MinorAt(f, Hypotheses(ms, np, f.doms, base), ms, owner, c, np, base)
MinorType(ms, owner, c, np, base) == MinorOver(FieldsOf(c, np), ms, owner, c, np, base)

\* The minors of all members in order, each at the depth it stands.
Minors(ms, np) ==
    LET owners == FlattenSeq([o \in DOMAIN ms |-> [j \in DOMAIN ms[o].ctors |-> <<o, j>>]])
    IN  [x \in DOMAIN owners |->
            MinorType(ms, owners[x][1], ms[owners[x][1]].ctors[owners[x][2]], np,
                      np + Len(ms) + x - 1)]

RecursorAt(all, m, target, np) ==
    CloseTelescope(all, Apps(BVar(Len(all) - (np + target)),
                             [i \in 1 .. m.ni |-> BVar(m.ni - i + 1)] \o <<BVar(0)>>))
RecursorOver(outer, m, target, np) ==
    RecursorAt(outer \o IndexDoms(m, np, Len(outer))
                     \o <<MemberApp(m, np, Len(outer) + m.ni, Counting(m.ni))>>, m, target, np)
RecursorType(ms, target, np, params, elim) ==
    RecursorOver(params \o [i \in DOMAIN ms |-> MotiveType(ms[i], np, np + i - 1, elim)]
                        \o Minors(ms, np), ms[target], target, np)

-----------------------------------------------------------------------------
(* validate_reconstructed_type, and the check of the installed recursors.  *)

RECURSIVE IdsOfLevel(_)
IdsOfLevel(l) ==
    CASE L!Op(l) = "zero" -> {}
      [] L!Op(l) = "param" -> {l[2]}
      [] L!Op(l) = "succ" -> IdsOfLevel(l[2])
      [] OTHER -> IdsOfLevel(l[2]) \cup IdsOfLevel(l[3])

RECURSIVE LevelIds(_)
LevelIds(t) ==
    CASE Tag(t) = "sort" -> IdsOfLevel(t[2])
      [] Tag(t) = "const" -> UNION { IdsOfLevel(t[3][i]) : i \in DOMAIN t[3] }
      [] OTHER -> UNION { LevelIds(p[1]) : p \in Parts(t) }

\* The canonical parameters: the n largest ids in nobody's use, downwards.
Canonical(n, used) ==
    LET free == (1 .. MaxLevelId) \ used
    IN  [i \in 1 .. n |-> CHOOSE x \in free : Cardinality({ y \in free : y >= x }) = i]

\* A bug: the types are compared under the parameters they are written with.
ValidAsSpelled(supplied, slps, typ, dlps) ==
    /\ Loose(supplied) = 0 /\ Len(slps) = Len(dlps) /\ DistinctIds(slps)
    /\ DefEq(supplied, typ)

ValidRecursor(supplied, slps, typ, dlps) ==
    /\ Loose(supplied) = 0 /\ Loose(typ) = 0
    /\ Len(slps) = Len(dlps) /\ DistinctIds(slps) /\ DistinctIds(dlps)
    /\ LevelIds(supplied) \subseteq ToSet(slps)
    /\ LevelIds(typ) \subseteq ToSet(dlps)
    /\ LET canon == ParamLevels(Canonical(Len(slps), ToSet(slps) \cup ToSet(dlps)))
       IN  DefEq(InstantiateLevels(supplied, Subst(slps, canon)),
                 InstantiateLevels(typ, Subst(dlps, canon)))

\* check_inductive_group_large_elim: a restricted group's motives are in Prop.
LargeElimOk(all, typ, np, motives) ==
    ElimOnlyAtZero(all) =>
        LET doms == Peel(typ, np + motives).doms IN
        \A i \in np + 1 .. np + motives :
            LET rest == Whnf(PeelAll(doms[i]).rest)
            IN  Tag(rest) = "sort" /\ L!IsDefEq(rest[2], L!Zero)
=============================================================================
