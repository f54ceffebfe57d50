------------------------------- MODULE Levels -------------------------------
(***************************************************************************)
(* Universe levels: the simplifying constructors, instantiation,           *)
(* normalisation and the decision procedure `leq` of src/src/level.rs, over  *)
(* the levels an export line or a constant's universe arguments can build. *)
(***************************************************************************)
EXTENDS Integers, FiniteSets

CONSTANTS
    Params,     \* universe parameters
    MaxLevels,  \* bound of the model: distinct levels in play
    MaxHeight,  \* bound of the model: constructors on a path of a level in play
    MaxValue    \* bound of the model: values a parameter is tried at

\* A parameter is tried at values above every numeral in play.
ASSUME LevelsAssumption ==
    MaxLevels \in Nat /\ MaxHeight \in Nat /\ MaxValue \in Nat /\ MaxValue > MaxHeight + 1

VARIABLE levels   \* the levels of the parser's table and of instantiated types

-----------------------------------------------------------------------------
(* LevelData *)

Zero == <<"zero">>
Param(p) == <<"param", p>>
Succ(l) == <<"succ", l>>
RawMax(a, b) == <<"max", a, b>>
RawIMax(a, b) == <<"imax", a, b>>

Op(l) == l[1]
IsZero(l) == l = Zero
IsOne(l) == l = Succ(Zero)

\* LevelData is a tree: the levels of height n have at most n constructors on a
\* path.  Instantiating a level in play stays within twice its height.
Atoms == {Zero} \cup ({"param"} \X Params)
OfHeight[n \in Nat] ==
    IF n = 0 THEN Atoms
    ELSE LET below == OfHeight[n - 1] IN
         Atoms \cup ({"succ"} \X below) \cup ({"max", "imax"} \X below \X below)
InPlay == OfHeight[MaxHeight]
Level == OfHeight[2 * MaxHeight]

IsExplicit(l) ==
    LET explicit[k \in Level] == Op(k) = "zero" \/ (Op(k) = "succ" /\ explicit[k[2]])
    IN  explicit[l]

\* to_offset peels succ^k(base) into base and k; explicit_offset is the k of a
\* numeral.
Base(l) == LET base[k \in Level] == IF Op(k) = "succ" THEN base[k[2]] ELSE k IN base[l]
Offset(l) == LET offset[k \in Level] == IF Op(k) = "succ" THEN 1 + offset[k[2]] ELSE 0
             IN  offset[l]

IsNotZero(l) ==
    LET positive[k \in Level] ==
            \/ Op(k) = "succ"
            \/ Op(k) = "max" /\ (positive[k[2]] \/ positive[k[3]])
            \/ Op(k) = "imax" /\ positive[k[3]]
    IN  positive[l]

\* Mutant of Max: the raw maximum is built with its sides exchanged.
MaxExchanged(a, b) ==
    IF IsExplicit(a) /\ IsExplicit(b) THEN IF Offset(a) >= Offset(b) THEN a ELSE b
    ELSE IF a = b \/ IsZero(b) THEN a
    ELSE IF IsZero(a) THEN b
    ELSE IF Op(b) = "max" /\ a \in {b[2], b[3]} THEN b
    ELSE IF Op(a) = "max" /\ b \in {a[2], a[3]} THEN a
    ELSE IF Base(a) = Base(b) THEN IF Offset(a) > Offset(b) THEN a ELSE b
    ELSE RawMax(b, a)

Max(a, b) ==
    IF IsExplicit(a) /\ IsExplicit(b) THEN IF Offset(a) >= Offset(b) THEN a ELSE b
    ELSE IF a = b \/ IsZero(b) THEN a
    ELSE IF IsZero(a) THEN b
    ELSE IF Op(b) = "max" /\ a \in {b[2], b[3]} THEN b
    ELSE IF Op(a) = "max" /\ b \in {a[2], a[3]} THEN a
    ELSE IF Base(a) = Base(b) THEN IF Offset(a) > Offset(b) THEN a ELSE b
    ELSE RawMax(a, b)

\* Mutant of IMax: the rule `imax u 0 = 0` is dropped.
IMaxKeepsZero(a, b) ==
    IF IsNotZero(b) THEN Max(a, b)
    ELSE IF IsZero(a) \/ IsOne(a) \/ a = b THEN b
    ELSE RawIMax(a, b)

IMax(a, b) ==
    IF IsNotZero(b) THEN Max(a, b)
    ELSE IF IsZero(b) THEN Zero
    ELSE IF IsZero(a) \/ IsOne(a) \/ a = b THEN b
    ELSE RawIMax(a, b)

\* Mutant of Instantiate: an instantiated imax is kept as a max.
InstantiateAsMax(l, s) ==
    LET inst[k \in Level] ==
            CASE Op(k) = "zero" -> k
              [] Op(k) = "param" -> s[k[2]]
              [] Op(k) = "succ" -> Succ(inst[k[2]])
              [] Op(k) \in {"max", "imax"} -> Max(inst[k[2]], inst[k[3]])
    IN  inst[l]

Instantiate(l, s) ==
    LET inst[k \in Level] ==
            IF Op(k) = "zero" THEN k
            ELSE IF Op(k) = "param" THEN s[k[2]]
            ELSE IF Op(k) = "succ" THEN Succ(inst[k[2]])
            ELSE IF Op(k) = "max" THEN Max(inst[k[2]], inst[k[3]])
            ELSE IMax(inst[k[2]], inst[k[3]])
    IN  inst[l]

\* succ(max(x, y)) becomes max(succ(x), succ(y)).
PushSucc(l) == IF Op(l) = "max" THEN Max(Succ(l[2]), Succ(l[3])) ELSE Succ(l)

Normalize(l) ==
    LET norm[k \in Level] ==
            IF Op(k) \in {"zero", "param"} THEN k
            ELSE IF Op(k) = "succ" THEN PushSucc(norm[k[2]])
            ELSE IF Op(k) = "max" THEN Max(norm[k[2]], norm[k[3]])
            ELSE IMax(norm[k[2]], norm[k[3]])
    IN  norm[l]

\* Mutant of AtomsBelow: two atoms compare by the offset alone.
AtomsByOffset(l1, d) == d >= 0

\* Two different atoms: only zero is below another, and only without deficit.
AtomsBelow(l1, d) == Op(l1) = "zero" /\ d >= 0

\* The right sides of two imax are one term, or each below the other.
SameIMaxRight(below, l1, l2) ==
    /\ Op(l1) = "imax" /\ Op(l2) = "imax"
    /\ l1[3] = l2[3] \/ (below[<<l1[3], l2[3], 0>>] /\ below[<<l2[3], l1[3], 0>>])

\* leq: l1 <= l2 + d.  The first rule that fits decides.
LeqRule(below, l1, l2, d) ==
    IF l1 = l2 THEN d >= 0
    ELSE IF Op(l1) = "succ" THEN below[<<l1[2], l2, d - 1>>]
    ELSE IF Op(l2) = "succ" THEN below[<<l1, l2[2], d + 1>>]
    ELSE IF Op(l1) = "max" THEN below[<<l1[2], l2, d>>] /\ below[<<l1[3], l2, d>>]
    ELSE IF Op(l2) = "max" THEN below[<<l1, l2[2], d>>] \/ below[<<l1, l2[3], d>>]
    ELSE IF SameIMaxRight(below, l1, l2)
         THEN below[<<Max(l1[2], l1[3]), Max(l2[2], l2[3]), d>>]
    ELSE IF Op(l1) = "imax"
         THEN below[<<Zero, l2, d>>] /\ below[<<Max(l1[2], l1[3]), l2, d>>]
    ELSE IF Op(l2) = "imax"
         THEN below[<<l1, Zero, d>>] /\ below[<<l1, Max(l2[2], l2[3]), d>>]
    ELSE AtomsBelow(l1, d)
leq[x \in Level \X Level \X Int] == LeqRule(leq, x[1], x[2], x[3])
Leq(l1, l2, d) == leq[<<l1, l2, d>>]

LeqBothWays(a, b) == Leq(a, b, 0) /\ Leq(b, a, 0)
IsDefEq(l1, l2) == LeqBothWays(Normalize(l1), Normalize(l2))

-----------------------------------------------------------------------------
(* Levels in play.  Every entry is built from earlier ones. *)

Enter(l) == /\ l \in InPlay /\ Cardinality(levels \cup {l}) <= MaxLevels
            /\ levels' = levels \cup {l}

HandleParam == \E p \in Params : Enter(Param(p))
HandleSucc == \E l \in levels : Enter(Succ(l))
HandleMax == \E a, b \in levels : Enter(Max(a, b))
HandleIMax == \E a, b \in levels : Enter(IMax(a, b))

\* infer_const instantiates the levels of a constant's type.
InferConst == \E l \in levels, s \in [Params -> levels] : Enter(Instantiate(l, s))

Init == levels = {Zero}
Next == HandleParam \/ HandleSucc \/ HandleMax \/ HandleIMax \/ InferConst
Spec == Init /\ [][Next]_levels

-----------------------------------------------------------------------------
(* What a level means *)

Assignments == [Params -> 0..MaxValue]

Larger(a, b) == IF a >= b THEN a ELSE b

Value(l, r) ==
    LET value[k \in Level] ==
            IF Op(k) = "zero" THEN 0
            ELSE IF Op(k) = "param" THEN r[k[2]]
            ELSE IF Op(k) = "succ" THEN value[k[2]] + 1
            ELSE IF Op(k) = "imax" /\ value[k[3]] = 0 THEN 0
            ELSE Larger(value[k[2]], value[k[3]])
    IN  value[l]

Below(l1, l2, d) == \A r \in Assignments : Value(l1, r) <= Value(l2, r) + d
SameMeaning(l1, l2) == \A r \in Assignments : Value(l1, r) = Value(l2, r)

IMaxFree(l) ==
    LET free[k \in Level] == /\ Op(k) # "imax"
                             /\ Op(k) \in {"succ", "max"} => free[k[2]]
                             /\ Op(k) = "max" => free[k[3]]
    IN  free[l]

-----------------------------------------------------------------------------
(* Properties *)

\* Instantiation commutes with the meaning of a level: the simplifying
\* constructors that rebuild it never change its value.
InstantiateKeepsMeaning ==
    \A l \in levels, s \in [Params -> levels], r \in Assignments :
        Value(Instantiate(l, s), r) = Value(l, [p \in Params |-> Value(s[p], r)])

\* Levels in play are in simplified form, also those that instantiation has
\* rebuilt: building one again by the simplifying constructors, which is what
\* instantiating it with its own parameters does, gives the very same level.
OwnParametersKeepLevels ==
    \A l \in levels : Instantiate(l, [p \in Params |-> Param(p)]) = l

\* Normalisation, which runs before every comparison, keeps the meaning.
NormalizeKeepsMeaning == \A l \in levels : SameMeaning(Normalize(l), l)

\* is_not_zero decides whether a level is positive under every assignment.
NotZeroIsExact ==
    \A l \in levels : IsNotZero(l) <=> \A r \in Assignments : Value(l, r) > 0

\* The test for Prop, which a theorem's type and a small inductive must pass:
\* a level is definitionally zero exactly when its value is always 0.
PropIsExact == \A l \in levels : IsDefEq(l, Zero) <=> SameMeaning(l, Zero)

\* Between levels without imax, leq decides the order in both directions at
\* every offset.
LeqIsExactWithoutIMax ==
    \A l1, l2 \in levels, d \in -1..1 :
        IMaxFree(l1) /\ IMaxFree(l2) => (Leq(l1, l2, d) <=> Below(l1, l2, d))

\* Levels found equal have the same value under every assignment ("must hold
\* for every instantiation. Sound for the fragment the kernel needs", leq).
EqualLevelsMeanTheSame ==
    \A l1, l2 \in levels : IsDefEq(l1, l2) => SameMeaning(l1, l2)
=============================================================================
