-------------------------------- MODULE Terms -------------------------------
(***************************************************************************)
(* Expressions with de Bruijn indices (src/src/expr.rs): the two summaries *)
(* of free indices every node carries, the occurrence lists for terms the  *)
(* one-word summary cannot describe, shifting, instantiation, and          *)
(* substitution of universe parameters.  Operators only: `Substitution`    *)
(* checks them, `ContextKeys` and `Inductives` build on them.              *)
(***************************************************************************)
EXTENDS Integers, Sequences, FiniteSets

CONSTANTS
    WordBits,    \* bits of the one-word summary (64)
    UsedSetCap,  \* USED_SET_CAP (64)
    ConstNames,  \* names of constants and structures
    Universes,   \* the universe levels terms are built with
    MaxHeight    \* bound of the model: constructors on a path of a term

\* A word that lists its indices lists no more than an occurrence list may.
ASSUME TermsAssumption ==
    /\ WordBits \in Nat \ {0} /\ UsedSetCap \in Nat /\ MaxHeight \in Nat
    /\ WordBits <= UsedSetCap

-----------------------------------------------------------------------------
(* ExprData.  Binder information takes part in no operation of this module. *)

BVar(i) == <<"bvar", i>>
Sort(l) == <<"sort", l>>
Const(n, us) == <<"const", n, us>>
Lit(n) == <<"lit", n>>
App(f, a) == <<"app", f, a>>
Lam(ty, body) == <<"lam", ty, body>>
Pi(ty, body) == <<"pi", ty, body>>
Let(ty, val, body) == <<"let", ty, val, body>>
Proj(s, i, v) == <<"proj", s, i, v>>

Tag(t) == t[1]
IsLeaf(t) == Tag(t) \in {"bvar", "sort", "const", "lit"}

\* ExprData is a tree: the terms of height n have at most n constructors on a
\* path.  Every function below recurses over terms of height MaxHeight.
Leaves == ({"bvar"} \X Nat) \cup ({"sort"} \X Universes)
          \cup ({"const"} \X ConstNames \X Seq(Universes)) \cup ({"lit"} \X Nat)
OfHeight[n \in Nat] ==
    Leaves \cup IF n = 0 THEN {}
                ELSE LET below == OfHeight[n - 1] IN
                     ({"app", "lam", "pi"} \X below \X below)
                     \cup ({"let"} \X below \X below \X below)
                     \cup ({"proj"} \X ConstNames \X Nat \X below)

\* The subterms of t, each with the number of binders t puts over it.
Parts(t) ==
    CASE IsLeaf(t) -> {}
      [] Tag(t) = "app" -> {<<t[2], 0>>, <<t[3], 0>>}
      [] Tag(t) \in {"lam", "pi"} -> {<<t[2], 0>>, <<t[3], 1>>}
      [] Tag(t) = "let" -> {<<t[2], 0>>, <<t[3], 0>>, <<t[4], 1>>}
      [] Tag(t) = "proj" -> {<<t[4], 0>>}

\* t with every subterm c, under d binders of t, replaced by F(c, d).
Rebuild(t, F(_, _)) ==
    IF Tag(t) = "app" THEN App(F(t[2], 0), F(t[3], 0))
    ELSE IF Tag(t) \in {"lam", "pi"} THEN <<Tag(t), F(t[2], 0), F(t[3], 1)>>
    ELSE IF Tag(t) = "let" THEN Let(F(t[2], 0), F(t[3], 0), F(t[4], 1))
    ELSE IF Tag(t) = "proj" THEN Proj(t[2], t[3], F(t[4], 0))
    ELSE t

Largest(S) == IF S = {} THEN 0 ELSE CHOOSE m \in S : \A x \in S : x <= m
Larger(a, b) == IF a >= b THEN a ELSE b

-----------------------------------------------------------------------------
(* Summaries of the free indices.  A word is the set of its bits; all bits *)
(* set is the mark that the word says nothing (USED_OVERFLOW).             *)

UsedOverflow == 0 .. (WordBits - 1)

UsedOr(u, v) == IF u = UsedOverflow \/ v = UsedOverflow THEN UsedOverflow ELSE u \cup v

\* Mutant of UsedShiftBinder: the mark is shifted like any other word.
UsedShiftMark(u) == {i - 1 : i \in u \ {0}}
UsedShiftBinder(u) ==
    IF u = UsedOverflow THEN UsedOverflow ELSE {i - 1 : i \in u \ {0}}

Used(t) ==
    LET used[k \in OfHeight[MaxHeight]] ==
            IF Tag(k) = "bvar" THEN IF k[2] >= WordBits THEN UsedOverflow ELSE {k[2]}
            ELSE IF Tag(k) = "app" THEN UsedOr(used[k[2]], used[k[3]])
            ELSE IF Tag(k) \in {"lam", "pi"} THEN UsedOr(used[k[2]], UsedShiftBinder(used[k[3]]))
            ELSE IF Tag(k) = "let"
                 THEN UsedOr(UsedOr(used[k[2]], used[k[3]]), UsedShiftBinder(used[k[4]]))
            ELSE IF Tag(k) = "proj" THEN used[k[4]]
            ELSE {}
    IN  used[t]

\* saturating_sub(1)
Less1(n) == IF n = 0 THEN 0 ELSE n - 1

Loose(t) ==
    LET loose[k \in OfHeight[MaxHeight]] ==
            IF Tag(k) = "bvar" THEN k[2] + 1
            ELSE IF Tag(k) = "app" THEN Larger(loose[k[2]], loose[k[3]])
            ELSE IF Tag(k) \in {"lam", "pi"} THEN Larger(loose[k[2]], Less1(loose[k[3]]))
            ELSE IF Tag(k) = "let"
                 THEN Larger(Larger(loose[k[2]], loose[k[3]]), Less1(loose[k[4]]))
            ELSE IF Tag(k) = "proj" THEN loose[k[4]]
            ELSE 0
    IN  loose[t]

\* used_bvar_set: the indices as a list, here a set, or NoSet past the cap.
NoSet == {-1}

MergeUsed(acc, other) ==
    IF acc = NoSet \/ other = NoSet THEN NoSet
    ELSE IF Cardinality(acc \cup other) > UsedSetCap THEN NoSet
    ELSE acc \cup other

\* child_used, given the child's own list.
ChildUsed(c, set, drop) ==
    IF Loose(c) <= drop THEN {}
    ELSE IF set = NoSet THEN NoSet
    ELSE {i - drop : i \in {j \in set : j >= drop}}

UsedSet(t) ==
    LET list[k \in OfHeight[MaxHeight]] ==
            IF Used(k) # UsedOverflow THEN Used(k)
            ELSE IF Tag(k) = "bvar" THEN {k[2]}
            ELSE IF Tag(k) = "app"
                 THEN MergeUsed(ChildUsed(k[2], list[k[2]], 0), ChildUsed(k[3], list[k[3]], 0))
            ELSE IF Tag(k) \in {"lam", "pi"}
                 THEN MergeUsed(ChildUsed(k[2], list[k[2]], 0), ChildUsed(k[3], list[k[3]], 1))
            ELSE IF Tag(k) = "let"
                 THEN MergeUsed(MergeUsed(ChildUsed(k[2], list[k[2]], 0),
                                          ChildUsed(k[3], list[k[3]], 0)),
                                ChildUsed(k[4], list[k[4]], 1))
            ELSE ChildUsed(k[4], list[k[4]], 0)
    IN  list[t]

-----------------------------------------------------------------------------
(* Operations.                                                             *)

Shift(t, by, cutoff) ==
    LET shift[x \in OfHeight[MaxHeight] \X Nat] ==
            LET k == x[1]
                c == x[2] IN
            IF by = 0 \/ Loose(k) <= c THEN k
            ELSE IF Tag(k) = "bvar" THEN IF k[2] >= c THEN BVar(k[2] + by) ELSE k
            ELSE Rebuild(k, LAMBDA p, d : shift[<<p, c + d>>])
    IN  shift[<<t, cutoff>>]

\* Mutant of InstantiateCore: an argument moves under one binder too many.
InstantiateDeeper(t, as, depth) ==
    LET inst[x \in OfHeight[MaxHeight] \X Nat] ==
            LET k == x[1]
                d == x[2] IN
            IF Loose(k) <= d THEN k
            ELSE IF Tag(k) = "bvar" THEN
                IF k[2] >= d /\ k[2] - d < Len(as) THEN Shift(as[k[2] - d + 1], d + 1, 0)
                ELSE IF k[2] >= d THEN BVar(k[2] - Len(as))
                ELSE k
            ELSE Rebuild(k, LAMBDA p, b : inst[<<p, d + b>>])
    IN  inst[<<t, depth>>]

InstantiateCore(t, as, depth) ==
    LET inst[x \in OfHeight[MaxHeight] \X Nat] ==
            LET k == x[1]
                d == x[2] IN
            IF Loose(k) <= d THEN k
            ELSE IF Tag(k) = "bvar" THEN
                IF k[2] >= d /\ k[2] - d < Len(as) THEN Shift(as[k[2] - d + 1], d, 0)
                ELSE IF k[2] >= d THEN BVar(k[2] - Len(as))
                ELSE k
            ELSE Rebuild(k, LAMBDA p, b : inst[<<p, d + b>>])
    IN  inst[<<t, depth>>]

Instantiate(t, as) == InstantiateCore(t, as, 0)
Instantiate1(t, a) == Instantiate(t, <<a>>)

\* A level is a parameter or a constant; level::instantiate is `Levels`.
LevelAt(l, s) == IF l \in DOMAIN s THEN s[l] ELSE l

InstantiateLevels(t, s) ==
    LET inst[k \in OfHeight[MaxHeight]] ==
            IF Tag(k) = "sort" THEN Sort(LevelAt(k[2], s))
            ELSE IF Tag(k) = "const" THEN Const(k[2], [i \in DOMAIN k[3] |-> LevelAt(k[3][i], s)])
            ELSE Rebuild(k, LAMBDA p, d : inst[p])
    IN  inst[t]

-----------------------------------------------------------------------------
(* Reference: the free indices of a term. *)

\* The indices of S as they are outside one binder.
Outside(S) == {i - 1 : i \in S \ {0}}

Free(t) ==
    LET free[k \in OfHeight[MaxHeight]] ==
            IF Tag(k) = "bvar" THEN {k[2]}
            ELSE IF Tag(k) = "app" THEN free[k[2]] \cup free[k[3]]
            ELSE IF Tag(k) \in {"lam", "pi"} THEN free[k[2]] \cup Outside(free[k[3]])
            ELSE IF Tag(k) = "let" THEN free[k[2]] \cup free[k[3]] \cup Outside(free[k[4]])
            ELSE IF Tag(k) = "proj" THEN free[k[4]]
            ELSE {}
    IN  free[t]
=============================================================================
