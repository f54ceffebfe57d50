---------------------------- MODULE Substitution ----------------------------
(***************************************************************************)
(* The operations of `Terms` against a reference.  The machine builds a    *)
(* subject and a list of arguments the way the parser and the checker do,  *)
(* one constructor or operation at a time; the properties compare the      *)
(* operations with the reading of a term under an assignment of closed     *)
(* terms, where substitution needs no renumbering.                         *)
(***************************************************************************)
EXTENDS Terms

CONSTANTS
    MaxIndex,    \* bound of the model: indices an export line may carry
    MaxSize,     \* bound of the model: nodes of the subject
    MaxArgs,     \* bound of the model: arguments instantiated at once
    LevelMaps,   \* substitutions of universe parameters
    Pieces       \* the terms the subject is combined with, and the arguments

\* Subjects and arguments are within the range of an index and half the height
\* terms may have, which leaves room to substitute one into the other.
ASSUME SubstitutionAssumption ==
    /\ MaxIndex \in Nat /\ MaxSize \in Nat \ {0} /\ MaxArgs \in Nat
    /\ 2 * MaxSize <= MaxHeight + 2
    /\ Pieces \subseteq OfHeight[MaxSize - 1] /\ "S" \in ConstNames
    /\ \A p \in Pieces : Loose(p) <= MaxIndex + 1
    /\ \A s \in LevelMaps : s \in [DOMAIN s -> Universes]

VARIABLES e, args

substVars == <<e, args>>

Size(t) ==
    LET size[k \in OfHeight[MaxHeight]] ==
            IF Tag(k) \in {"app", "lam", "pi"} THEN 1 + size[k[2]] + size[k[3]]
            ELSE IF Tag(k) = "let" THEN 1 + size[k[2]] + size[k[3]] + size[k[4]]
            ELSE IF Tag(k) = "proj" THEN 1 + size[k[4]]
            ELSE 1
    IN  size[t]

-----------------------------------------------------------------------------
(* The machine. *)

SubstInit == args = <<>> /\ e \in {BVar(i) : i \in 0 .. MaxIndex} \cup Pieces

Fits(t) == t \in OfHeight[MaxSize - 1] /\ Size(t) <= MaxSize

BuildApp == \E p \in Pieces : e' \in {App(e, p), App(p, e)}
BuildBinder == \E p \in Pieces :
    e' \in {Lam(p, e), Lam(e, p), Pi(p, e), Pi(e, p)}
BuildLet == \E p, q \in Pieces : e' \in {Let(p, q, e), Let(p, e, q), Let(e, p, q)}
BuildProj == e' = Proj("S", 0, e)

Build ==
    /\ args = <<>>
    /\ BuildApp \/ BuildBinder \/ BuildLet \/ BuildProj
    /\ Fits(e')
    /\ UNCHANGED args

AddArg == \E p \in Pieces :
    /\ Len(args) < MaxArgs
    /\ args' = Append(args, p)
    /\ UNCHANGED e

Substitute ==
    /\ args # <<>>
    /\ e' = Instantiate(e, args) /\ Fits(e')
    /\ args' = <<>>

PushUnderBinders == \E by \in 1 .. 2 :
    /\ args = <<>>
    /\ Loose(e) + by <= MaxIndex + 1
    /\ e' = Shift(e, by, 0)
    /\ UNCHANGED args

SubstNext == Build \/ AddArg \/ Substitute \/ PushUnderBinders

SubstSpec == SubstInit /\ [][SubstNext]_substVars

-----------------------------------------------------------------------------
(* Reference: the reading of a term under an assignment of closed terms to *)
(* the indices.                                                            *)

Read(t, env, depth) ==
    LET read[x \in OfHeight[MaxHeight] \X Nat] ==
            LET k == x[1]
                d == x[2] IN
            IF Tag(k) = "bvar" THEN IF k[2] < d THEN k ELSE env[k[2] - d]
            ELSE Rebuild(k, LAMBDA p, b : read[<<p, d + b>>])
    IN  read[<<t, depth>>]

Meaning(t, env) == Read(t, env, 0)

LevelsOf(t) ==
    LET levels[k \in OfHeight[MaxHeight]] ==
            IF Tag(k) = "sort" THEN {k[2]}
            ELSE IF Tag(k) = "const" THEN {k[3][i] : i \in DOMAIN k[3]}
            ELSE IF Tag(k) \in {"app", "lam", "pi"} THEN levels[k[2]] \cup levels[k[3]]
            ELSE IF Tag(k) = "let" THEN levels[k[2]] \cup levels[k[3]] \cup levels[k[4]]
            ELSE IF Tag(k) = "proj" THEN levels[k[4]]
            ELSE {}
    IN  levels[t]

\* An assignment of distinct closed terms; the terms ins put at the indices from
\* c on, and everything behind them moved up.
Env == [i \in Nat |-> Lit(2 * i)]
New(k) == [i \in 1 .. k |-> Lit(2 * i + 1)]
InsertAt(env, c, ins) ==
    [i \in Nat |-> IF i < c THEN env[i]
                   ELSE IF i - c < Len(ins) THEN ins[i - c + 1]
                   ELSE env[i - Len(ins)]]

-----------------------------------------------------------------------------
(* Properties. *)

\* The subject's free indices stay in range: instantiation adds none, and a
\* shift no more than it says.
SubstTypeOK ==
    /\ Loose(e) \in 0 .. (MaxIndex + 1)
    /\ args \in Seq(Pieces) /\ Len(args) <= MaxArgs

\* The summaries a node carries, from which every short cut and every cache
\* key is computed (loose_of, used_of, used_bvar_set): the range is the least
\* bound of the free indices; a word or a list that is not the overflow mark
\* lists exactly the free indices; and a list is never longer than its cap.
SummariesAreExact ==
    /\ Loose(e) = Largest({i + 1 : i \in Free(e)})
    /\ Used(e) # UsedOverflow => Used(e) = Free(e)
    /\ UsedSet(e) # NoSet => UsedSet(e) = Free(e) /\ Cardinality(Free(e)) <= UsedSetCap

\* A term moved under binders it does not mention means what it meant, also
\* when part of its free indices are bound by the place it stands in.
ShiftKeepsMeaning ==
    LET meaning == Meaning(e, Env) IN
    \A by \in 1 .. 2, c \in 0 .. 1 :
        Meaning(Shift(e, by, c), InsertAt(Env, c, New(by))) = meaning

\* All arguments are substituted at once, without capture, and what is left is
\* renumbered.
InstantiateKeepsMeaning ==
    Meaning(Instantiate(e, args), Env)
        = Meaning(e, InsertAt(Env, 0, [i \in DOMAIN args |-> Meaning(args[i], Env)]))

\* Universe parameters may be substituted before or after the arguments, and
\* every level of a term is replaced, all parameters at once.
LevelsCommute ==
    \A s \in LevelMaps :
        /\ InstantiateLevels(Instantiate(e, args), s)
             = Instantiate(InstantiateLevels(e, s),
                           [i \in DOMAIN args |-> InstantiateLevels(args[i], s)])
        /\ LevelsOf(InstantiateLevels(e, s)) = {LevelAt(l, s) : l \in LevelsOf(e)}

\* Moving a term under binders (shift), beta, zeta and opening a telescope
\* (instantiate) and instantiate_level_params mean what they should on every
\* term and in any succession, their short cuts by summary included.
SubstitutionIsExact == ShiftKeepsMeaning /\ InstantiateKeepsMeaning /\ LevelsCommute
=============================================================================
