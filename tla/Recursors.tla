------------------------------ MODULE Recursors -----------------------------
(***************************************************************************)
(* The recursors of an inductive block, in the order the reader derives    *)
(* them: the structure of the block, the specializations it nests in found *)
(* breadth first, the universe to eliminate into, the members once more at *)
(* the universe names of the file, the types one by one, the comparison    *)
(* with what the file supplies, and the check of what was installed.       *)
(*                                                                         *)
(* The reference is Lean's kernel as the module comment of recursor.rs     *)
(* cites it, where variables have names and are abstracted when a          *)
(* telescope is closed; the code counts and shifts indices.                *)
(***************************************************************************)
EXTENDS Inductives

CONSTANTS Blocks,       \* the blocks that may be read
          LevelLists    \* universe parameters a recursor may be written with

VARIABLES stage,      \* what comes next; "rejected" and "accepted" end
          reason,     \* why a block was rejected
          members,    \* the members found
          at,         \* the member being scanned, built or compared
          lps,        \* the recursors' universe parameters
          elim,       \* the universe they eliminate into
          derived     \* the types built

recVars == <<block, stage, reason, members, at, lps, elim, derived>>

Names == ToSet(block.types)
First == block.types[1]
NP == Get(First).np
Own == ParamLevels(Get(First).lps)

\* A bug: the parameters keep the universe names of the type.
ParamsAsDeclared(us) == Peel(Get(First).typ, NP).doms

\* rec_params
Params(us) == Peel(TypOf(Get(First), us), NP).doms

DeclLevels == IF Len(lps) = Len(Get(First).lps) THEN ParamLevels(lps) ELSE Tail(ParamLevels(lps))

Reject(why) ==
    /\ stage' = "rejected" /\ reason' = why
    /\ UNCHANGED <<members, at, lps, elim, derived>>

\* check_inductive_group_structure for every type; all list the same group.
StructureOk == \A t \in Names : GroupStructure(t) /\ Get(t).all = block.types

CheckStructure ==
    /\ stage = "structure"
    /\ IF StructureOk
       THEN /\ stage' = "discover" /\ at' = 1
            /\ members' = OriginalMembers(block.types, NP, Subst(Get(First).lps, Own), Own)
            /\ UNCHANGED <<reason, lps, elim, derived>>
       ELSE Reject("structure")

\* One round of expand_nested_members.
Scanned(ms) ==
    IF ms = LocalParams THEN Reject("local parameters")
    ELSE /\ members' = ms /\ at' = at + 1
         /\ UNCHANGED <<stage, reason, lps, elim, derived>>
ScanNext(us) ==
    /\ at <= Len(members)
    /\ Scanned(ScanMember(members[at], NP, Params(us), Names, members))

Discover == stage = "discover" /\ ScanNext(Own)

\* A recursor that eliminates into any universe has one parameter more.
LevelsOk(supplied, propOnly) ==
    /\ OneSort(members, NP) /\ DistinctIds(supplied)
    /\ Len(supplied) = Len(Get(First).lps) + (IF propOnly THEN 0 ELSE 1)

\* The universe to eliminate into, then the members at the file's names.
Eliminate(supplied, propOnly) ==
    /\ lps' = supplied
    /\ elim' = IF propOnly THEN L!Zero ELSE L!Param(supplied[1])
    /\ members' = LET us == ParamLevels(IF propOnly THEN supplied ELSE Tail(supplied))
                  IN  OriginalMembers(block.types, NP, Subst(Get(First).lps, us), us)
    /\ stage' = "expand" /\ at' = 1
    /\ UNCHANGED <<reason, derived>>
DecideFor(supplied, propOnly) ==
    IF LevelsOk(supplied, propOnly) THEN Eliminate(supplied, propOnly) ELSE Reject("universes")
Decide(supplied) ==
    /\ stage = "discover" /\ at > Len(members)
    /\ DecideFor(supplied, ExpandedPropOnly(block.types, members, NP))

Expand == stage = "expand" /\ ScanNext(DeclLevels)

StartBuilding ==
    /\ stage = "expand" /\ at > Len(members)
    /\ stage' = "build" /\ at' = 1
    /\ UNCHANGED <<reason, members, lps, elim, derived>>

MinorsOk ==
    \A o \in DOMAIN members : \A j \in DOMAIN members[o].ctors :
        MinorOk(members, o, members[o].ctors[j], NP, Names)

\* The type of the next recursor.
Build ==
    /\ stage = "build" /\ at <= Len(members)
    /\ IF MinorsOk
       THEN /\ derived' = Append(derived, RecursorType(members, at, NP, Params(DeclLevels), elim))
            /\ at' = at + 1
            /\ UNCHANGED <<stage, reason, members, lps, elim>>
       ELSE Reject("recursive field")

StartComparing ==
    /\ stage = "build" /\ at > Len(members)
    /\ stage' = "compare" /\ at' = 1
    /\ UNCHANGED <<reason, members, lps, elim, derived>>

\* A record of the file against the recursor derived in its place.
Compare(supplied, slps) ==
    /\ stage = "compare" /\ at <= Len(derived)
    /\ IF ValidRecursor(supplied, slps, derived[at], lps)
       THEN at' = at + 1 /\ UNCHANGED <<stage, reason, members, lps, elim, derived>>
       ELSE Reject("type")

\* check_inductive_group once the recursors are installed; every type's own
\* recursor is looked at.
InstalledOk ==
    \A i \in DOMAIN block.types : LargeElimOk(block.types, derived[i], NP, Len(members))

Install ==
    /\ stage = "compare" /\ at > Len(derived)
    /\ IF InstalledOk
       THEN stage' = "accepted" /\ UNCHANGED <<reason, members, at, lps, elim, derived>>
       ELSE Reject("large elimination")

\* What the file may supply: the derived type of this place or another, under
\* other universe parameters.
Renamed(t, from, to) == InstantiateLevels(t, Subst(from, ParamLevels(to)))
Supplied(slps) ==
    { derived[i] : i \in DOMAIN derived }
    \cup (IF Len(slps) = Len(lps) THEN { Renamed(derived[at], lps, slps) } ELSE {})

RecInit ==
    /\ block \in Blocks
    /\ stage = "structure" /\ reason = "none"
    /\ members = <<>> /\ at = 1 /\ lps = <<>> /\ elim = L!Zero /\ derived = <<>>

RecNext ==
    /\ UNCHANGED block
    /\ \/ CheckStructure \/ Discover \/ Expand \/ StartBuilding \/ Build \/ StartComparing
       \/ \E supplied \in LevelLists : Decide(supplied)
       \/ stage = "compare" /\ at <= Len(derived)
          /\ \E slps \in LevelLists : \E t \in Supplied(slps) : Compare(t, slps)
       \/ Install

RecSpec == RecInit /\ [][RecNext]_recVars

-----------------------------------------------------------------------------
(* Reference: Lean's construction, with named variables.  A variable is a  *)
(* constant of a name no file has.                                         *)

Var(x, k) == Const("$" \o x \o ToString(k), <<>>)

RECURSIVE Abstract(_, _, _)
Abstract(x, t, d) ==
    IF t = x THEN BVar(d)
    ELSE Rebuild(t, LAMBDA c, e : Abstract(x, c, d + e))

\* The type of functions of the variables xs of the types doms.
Bind(xs, doms, body) ==
    FoldRight(LAMBDA i, t : Pi(doms[i], Abstract(xs[i], t, 0)), [i \in DOMAIN xs |-> i], body)

\* Domains and conclusion of a function type at variables named x.
Preceded(v, d, o) == [o EXCEPT !.vars = <<v>> \o @, !.doms = <<d>> \o @]
RECURSIVE Opened(_, _, _)
RECURSIVE OpenedAt(_, _, _)
OpenedAt(w, x, k) ==
    IF Tag(w) # "pi" THEN [vars |-> <<>>, doms |-> <<>>, rest |-> w]
    ELSE Preceded(Var(x, k), w[2], Opened(Instantiate1(w[3], Var(x, k)), x, k + 1))
Opened(t, x, k) == OpenedAt(Whnf(t), x, k)

Applied(t, as) == FoldLeft(LAMBDA ty, a : Instantiate1(Whnf(ty)[3], a), t, as)

ParamNames == [i \in 1 .. NP |-> Var("p", i)]
FixedAt(m) == [j \in DOMAIN m.fixed |-> Instantiate(m.fixed[j], Reverse(ParamNames))]
At(c, m) == Applied(TypOf(Get(c), m.us), FixedAt(m))
Motive(i) == Var("C", i)

\* The members whose application t is, and the indices.
HitsAmong(h, as) ==
    { i \in DOMAIN members :
        /\ Tag(h) = "const" /\ h[2] = members[i].name /\ h[3] = members[i].us
        /\ Len(as) = Len(members[i].fixed) + members[i].ni
        /\ AllDefEq(SubSeq(as, 1, Len(members[i].fixed)), FixedAt(members[i])) }
Hits(t) == HitsAmong(UnfoldApps(t)[1], UnfoldApps(t)[2])
Drop(as, n) == SubSeq(as, n + 1, Len(as))
IndicesOf(t, i) == Drop(UnfoldApps(t)[2], Len(members[i].fixed))

MajorAt(m, ix) == Apps(Const(m.name, m.us), FixedAt(m) \o ix.vars)
LeanMotiveAt(m, ix) == Bind(ix.vars, ix.doms, Pi(MajorAt(m, ix), Sort(elim)))
LeanMotive(m) == LeanMotiveAt(m, Opened(At(m.name, m), "i", 1))

\* The hypothesis of a field v of the opened type o, if it is recursive.
LeanHypothesisFor(v, o, j) ==
    Bind(o.vars, o.doms, Apps(Motive(j), Append(IndicesOf(o.rest, j), Apps(v, o.vars))))
LeanHypothesisAt(v, o, hits) ==
    IF hits = {} THEN <<>> ELSE <<LeanHypothesisFor(v, o, CHOOSE x \in hits : TRUE)>>
LeanHypothesis(v, o) == LeanHypothesisAt(v, o, Hits(o.rest))

LeanMinorOver(i, m, c, fs, hyps) ==
    Bind(fs.vars \o [k \in DOMAIN hyps |-> Var("h", k)], fs.doms \o hyps,
         Apps(Motive(i), Append(IndicesOf(fs.rest, i),
                                Apps(Const(c, m.us), FixedAt(m) \o fs.vars))))
LeanMinorAt(i, m, c, fs) ==
    LeanMinorOver(i, m, c, fs,
        FlattenSeq([k \in DOMAIN fs.vars |-> LeanHypothesis(fs.vars[k], Opened(fs.doms[k], "x", 1))]))
LeanMinor(i, c) == LeanMinorAt(i, members[i], c, Opened(At(c, members[i]), "f", 1))

LeanRecursorOver(target, m, ps, minors, ix) ==
    Bind(ParamNames \o [i \in DOMAIN members |-> Motive(i)]
                    \o [k \in DOMAIN minors |-> Var("m", k)] \o ix.vars \o <<Var("t", 0)>>,
         SubSeq(ps.doms, 1, NP) \o [i \in DOMAIN members |-> LeanMotive(members[i])]
                    \o minors \o ix.doms \o <<MajorAt(m, ix)>>,
         Apps(Motive(target), ix.vars \o <<Var("t", 0)>>))
LeanRecursor(target) ==
    LeanRecursorOver(target, members[target],
        Opened(TypOf(Get(First), DeclLevels), "p", 1),
        FlattenSeq([i \in DOMAIN members |->
            [j \in DOMAIN members[i].ctors |-> LeanMinor(i, members[i].ctors[j].name)]]),
        Opened(At(members[target].name, members[target]), "i", 1))

\* Lean's positivity, on the members: the domains of a field's arguments do
\* not mention the group, and its target either does not or is a member.
Mentions(t, ms) == ContainsMember(t, 0, 0, Names, ms)
IsMember(m, h, as) ==
    /\ Tag(h) = "const" /\ h[2] = m.name /\ h[3] = m.us
    /\ Len(as) = Len(m.fixed) + m.ni
    /\ AllDefEq(SubSeq(as, 1, Len(m.fixed)), m.fixed)
RECURSIVE LeanPositive(_, _)
RECURSIVE LeanPositiveAt(_, _)
LeanPositiveAt(w, ms) ==
    \/ ~Mentions(w, ms)
    \/ Tag(w) = "pi" /\ ~Mentions(w[2], ms) /\ LeanPositive(Instantiate1(w[3], Var("x", 0)), ms)
    \/ \E i \in DOMAIN ms :
          /\ IsMember(ms[i], UnfoldApps(w)[1], UnfoldApps(w)[2])
          /\ \A a \in ToSet(Drop(UnfoldApps(w)[2], Len(ms[i].fixed))) : ~Mentions(a, ms)
LeanPositive(t, ms) == LeanPositiveAt(Whnf(t), ms)

RECURSIVE AllMembers(_, _)
AllMembers(q, ms) ==
    IF ms = LocalParams \/ q > Len(ms) THEN ms
    ELSE AllMembers(q + 1, ScanMember(ms[q], NP, Params(Own), Names, ms))

CtorAt(m, c) == Applied(TypOf(Get(c), m.us), m.fixed)
AllPositive(doms, ms) == \A k \in DOMAIN doms : LeanPositive(doms[k], ms)
LeanAcceptsNamed(ms) ==
    \A m \in ToSet(ms) : \A c \in ToSet(m.ctors) :
        AllPositive(Opened(CtorAt(m, c.name), "f", 1).doms, ms)
LeanAcceptsMembers(found) ==
    /\ found # LocalParams
    /\ LeanAcceptsNamed([i \in DOMAIN found |-> [found[i] EXCEPT !.fixed = FixedAt(found[i])]])
LeanAccepts ==
    LeanAcceptsMembers(AllMembers(1, OriginalMembers(block.types, NP, Subst(Get(First).lps, Own), Own)))

\* The other demands of the structure check, which are the code's own.
CtorOtherwise(all, t) ==
    /\ ConclusionOk(all.doms, t, all.rest, Names)
    /\ \A i \in NP + 1 .. Len(all.doms) :
          ~TooBig(SortOf(SubSeq(all.doms, 1, i - 1), all.doms[i]), ResultSort(t))
OtherwiseWellFormed ==
    \A t \in Names :
        TypeWellFormed(t, First)
        /\ \A c \in ToSet(Get(t).ctors) : CtorOtherwise(Manifest(Get(c).typ), t)

-----------------------------------------------------------------------------
(* Properties.                                                             *)

Stages == {"structure", "discover", "expand", "build", "compare", "accepted", "rejected"}

\* The state is what the reader can hold; every type built is closed and
\* mentions only the recursor's own universe parameters.
RecTypeOK ==
    /\ stage \in Stages
    /\ Len(derived) <= Len(members)
    /\ \A i \in DOMAIN derived :
          Loose(derived[i]) = 0 /\ LevelIds(derived[i]) \subseteq ToSet(lps)
    /\ \A i \in DOMAIN members : Loose(members[i].typ) = 0

\* No application has two members, so every recursive field has one motive to
\* go to, and none of them mentions a variable of the constructor it was found
\* in.
MembersAreDistinct ==
    \A i, j \in DOMAIN members :
        /\ members[i].name = members[j].name /\ members[i].us = members[j].us
              /\ AllDefEq(members[i].fixed, members[j].fixed) => i = j
        /\ \A k \in DOMAIN members[i].fixed : Loose(members[i].fixed[k]) <= NP

\* Every recursor has the type Lean's kernel gives it: parameters, motives,
\* minors with their induction hypotheses, indices and major, for direct,
\* functional, nested and mutual recursion (recursor.rs cites the algorithm);
\* every type the block is nested in is specialized once.  Neither changes
\* after they are built.
RecursorsAreLeans ==
    stage = "build" =>
        /\ \A i \in DOMAIN derived : derived[i] = LeanRecursor(i)
        /\ MembersAreDistinct

\* Something under a function's arguments mentions the block and loses it when
\* it is reduced: there the occurrence test of find_member_target_defeq sees
\* the type as it is written, and the block is rejected.
VanishesIn(p) ==
    p.doms # <<>> /\ Occurs(p.rest, Names) /\ ~Occurs(Whnf(p.rest), Names)
Vanishes ==
    \E t \in Names : \E c \in ToSet(Get(t).ctors) :
        \E d \in ToSet(Manifest(Get(c).typ).doms) : VanishesIn(PeelAll(Whnf(d)))

\* The structure check and the search for specializations decide strict
\* positivity as Lean does, at the constructors of every specialization:
\* whatever gets its recursors is positive, and a block is rejected for its
\* recursion only if it is not, or an occurrence vanishes.
Answered == \/ stage = "build" /\ derived # <<>>
            \/ stage = "rejected" /\ reason \in {"structure", "local parameters", "recursive field"}
JudgedAs(accepts) ==
    IF stage # "rejected" THEN accepts
    ELSE accepts => IF reason = "structure" THEN ~OtherwiseWellFormed ELSE Vanishes
PositivityIsExact == Answered => JudgedAs(LeanAccepts)

\* The second look at the elimination universe, after the recursors are
\* installed, finds what the first look allowed.
SecondLookAgrees == reason # "large elimination"

\* A supplied type is taken exactly when it is the derived one with the
\* universe parameters renamed by position: reference with names that no file
\* can use.
Apart(t, from) == InstantiateLevels(t, Subst(from, [i \in DOMAIN from |-> L!Param(0 - i)]))
ComparedByPosition ==
    stage = "compare" /\ at <= Len(derived) =>
        LET expected == Normal(Apart(derived[at], lps)) IN
        \A slps \in LevelLists : \A t \in Supplied(slps) :
            ValidRecursor(t, slps, derived[at], lps)
            <=> /\ Len(slps) = Len(lps) /\ DistinctIds(slps)
                /\ LevelIds(t) \subseteq ToSet(slps)
                /\ Normal(Apart(t, slps)) = expected
=============================================================================
