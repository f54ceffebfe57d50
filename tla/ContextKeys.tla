----------------------------- MODULE ContextKeys ----------------------------
(***************************************************************************)
(* Local contexts and the keys of open terms (src/src/tc.rs, `Ctx`).       *)
(*                                                                         *)
(* A context records the raw type of every binder in scope.  The memo      *)
(* tables of whnf, inference and comparison are keyed by a term and the    *)
(* part of the context it depends on; the machine walks under binders and  *)
(* back, as the checker does, and keeps one table that is filled and read  *)
(* under such keys.                                                        *)
(***************************************************************************)
EXTENDS Terms

CONSTANTS
    Types,       \* raw types a binder may have
    Queries,     \* terms looked up
    MaxDepth,    \* bound of the model: binders in scope
    MaxEntries   \* bound of the model: entries of the table

ASSUME ContextAssumption == Types \cup Queries \subseteq OfHeight[MaxHeight]

VARIABLES
    tys,      \* Ctx::tys, outermost binder first
    id,       \* Ctx::id
    suffix,   \* Ctx::suffix, suffix[k + 1] for k binders
    memo      \* a table: entries [terms, key, deps]

keyVars == <<tys, id, suffix, memo>>

-----------------------------------------------------------------------------
(* CTX_IDS gives every (parent, index, type) an id of its own.  Here an id *)
(* is the chain it was given for, the empty one for the id 0; MAX is the   *)
(* index under which whole contexts are chained.                           *)

Whole == -1
Root == <<>>
BindingId(parent, index, ty) == Append(parent, <<index, ty>>)
CtxId(parent, ty) == BindingId(parent, Whole, ty)

WholeId(c) == [n \in DOMAIN c |-> <<Whole, c[n]>>]

\* The raw type recorded for index i, and the type it denotes here (local_ty).
Raw(c, i) == c[Len(c) - i]
LocalTy(c, i) == Shift(Raw(c, i), i + 1, 0)

\* The ids of the k innermost binders when ty is pushed on tys.
PushedSuffix(ty) ==
    <<Root, CtxId(Root, ty)>>
      \o [k \in 1 .. (Len(tys) - 1) |-> CtxId(suffix[k + 1], ty)]
      \o (IF tys = <<>> THEN <<>> ELSE <<CtxId(id, ty)>>)

\* Outermost first: each binding chained to the one outside it.
FromLargest(S, k) == CHOOSE i \in S : Cardinality({j \in S : j >= i}) = k
Chain(c, S) ==
    [k \in 1 .. Cardinality(S) |-> <<FromLargest(S, k), Raw(c, FromLargest(S, k))>>]

-----------------------------------------------------------------------------
(* used_bvar_key_wide: the closure over lists, from the innermost binder   *)
(* out, since a type mentions binders outside it only.  NoSet where the    *)
(* code falls back to the whole telescope.                                 *)

\* The n-th binder of the pass: what its type mentions, when it is listed.
WideStep(c, closure, n) ==
    LET ty == Raw(c, n - 1)
        next == closure \cup {n + j : j \in UsedSet(ty)} IN
    IF n - 1 \notin closure \/ Loose(ty) = 0 THEN closure
    ELSE IF n + Loose(ty) > Len(c) \/ UsedSet(ty) = NoSet THEN NoSet
    ELSE IF Cardinality(next) > 2 * UsedSetCap THEN NoSet
    ELSE next

CloseWide(c, set) ==
    LET upTo[n \in 0 .. Len(c)] ==
            IF n = 0 THEN set ELSE LET closure == upTo[n - 1] IN WideStep(c, closure, n)
    IN  IF \E i \in set : i >= Len(c) THEN NoSet ELSE upTo[Len(c)]

WideKey(c, set, loose) ==
    LET closure == CloseWide(c, set) IN
    IF loose > Len(c) \/ closure = NoSet THEN WholeId(c) ELSE Chain(c, closure)

\* used_bvar_key: the closure within a word, which gives way to the list form
\* when a type reaches beyond the word.
TooWide == {-2}

WordStep(c, closure, n) ==
    LET ty == Raw(c, n - 1) IN
    IF n - 1 \notin closure THEN closure
    ELSE IF n > Len(c) THEN NoSet
    ELSE IF Loose(ty) = 0 THEN closure
    ELSE IF n + Loose(ty) > WordBits \/ Used(ty) \in {{}, UsedOverflow} THEN TooWide
    ELSE closure \cup {n + j : j \in Used(ty)}

CloseWord(c, used) ==
    LET upTo[n \in 0 .. WordBits] ==
            IF n = 0 THEN used ELSE LET closure == upTo[n - 1] IN WordStep(c, closure, n)
    IN  upTo[WordBits]

\* Mutant of WordKey: a type's own free indices are not followed.
WordKeyDirect(c, used, loose) ==
    IF loose = 0 THEN Root
    ELSE IF used \in {{}, UsedOverflow} THEN WholeId(c)
    ELSE IF \E i \in used : i >= Len(c) THEN WholeId(c)
    ELSE Chain(c, used)

WordKey(c, used, loose) ==
    LET closure == CloseWord(c, used) IN
    IF loose = 0 THEN Root
    ELSE IF used \in {{}, UsedOverflow} \/ closure = NoSet THEN WholeId(c)
    ELSE IF closure = TooWide THEN WideKey(c, used, loose)
    ELSE Chain(c, closure)

TermKey(c, t) ==
    IF Loose(t) = 0 THEN Root
    ELSE IF Used(t) # UsedOverflow THEN WordKey(c, Used(t), Loose(t))
    ELSE IF UsedSet(t) = NoSet THEN WholeId(c)
    ELSE WideKey(c, UsedSet(t), Loose(t))

PairKey(c, a, b) ==
    LET loose == Larger(Loose(a), Loose(b)) IN
    IF loose = 0 THEN Root
    ELSE IF UsedOverflow \notin {Used(a), Used(b)} THEN WordKey(c, Used(a) \cup Used(b), loose)
    ELSE IF NoSet \in {UsedSet(a), UsedSet(b)} THEN WholeId(c)
    ELSE WideKey(c, UsedSet(a) \cup UsedSet(b), loose)

SuffixKey(k) == IF k + 1 <= Len(suffix) THEN suffix[k + 1] ELSE id

-----------------------------------------------------------------------------
(* What an answer about terms may depend on: the types of the binders they *)
(* mention, of the binders those mention, and so on.                       *)

InScope(c, t) == Loose(t) <= Len(c)

\* The least set of binders with S and, with a binder, those its type mentions.
Closed(mentions, K) == \A i \in K : mentions[i] \subseteq K
Mentions(c) == [i \in 0 .. (Len(c) - 1) |-> Free(LocalTy(c, i))]
Reach(c, S) ==
    LET scope == 0 .. (Len(c) - 1)
        mentions == Mentions(c)
        closed == {K \in SUBSET scope : S \subseteq K /\ Closed(mentions, K)} IN
    { i \in scope : \A K \in closed : i \in K }

Deps(c, ts) == [i \in Reach(c, UNION {Free(t) : t \in ts}) |-> LocalTy(c, i)]

-----------------------------------------------------------------------------
(* The machine: under a binder, back, a lookup of a term or a pair, the    *)
(* end of a declaration (check_decl_once clears the tables and the ids).   *)

KeyInit == tys = <<>> /\ id = Root /\ suffix = <<Root>> /\ memo = {}

Push(ty) ==
    /\ Len(tys) < MaxDepth
    /\ InScope(tys, ty)
    /\ tys' = Append(tys, ty)
    /\ id' = CtxId(id, ty)
    /\ suffix' = PushedSuffix(ty)
    /\ UNCHANGED memo

\* The caller's context is a clone from before the push.
Back ==
    /\ tys # <<>>
    /\ tys' = SubSeq(tys, 1, Len(tys) - 1)
    /\ id' = WholeId(tys')
    /\ suffix' = [k \in 1 .. Len(tys) |->
                    WholeId(SubSeq(tys', Len(tys') - k + 2, Len(tys')))]
    /\ UNCHANGED memo

Entry(ts, key) == [terms |-> ts, key |-> key, deps |-> Deps(tys, ts)]

Remember(ts, key) ==
    /\ \A t \in ts : InScope(tys, t)
    /\ Cardinality(memo) < MaxEntries
    /\ ~ \E m \in memo : m.terms = ts /\ m.key = key
    /\ memo' = memo \cup {Entry(ts, key)}
    /\ UNCHANGED <<tys, id, suffix>>

InferTerm(t) == Remember({t}, TermKey(tys, t))
ComparePair(a, b) == a # b /\ Remember({a, b}, PairKey(tys, a, b))

NextDecl ==
    /\ memo # {}
    /\ tys' = <<>> /\ id' = Root /\ suffix' = <<Root>> /\ memo' = {}

KeyNext ==
    \/ \E ty \in Types : Push(ty)
    \/ Back
    \/ \E t \in Queries : InferTerm(t)
    \/ \E a, b \in Queries : ComparePair(a, b)
    \/ NextDecl

KeySpec == KeyInit /\ [][KeyNext]_keyVars

-----------------------------------------------------------------------------
(* Properties. *)

\* The id and the suffix ids are those of the binders in scope, and every
\* recorded type is well scoped where it was recorded.
KeyTypeOK ==
    /\ \A n \in DOMAIN tys : InScope(SubSeq(tys, 1, n - 1), tys[n])
    /\ id = WholeId(tys) /\ Len(suffix) = Len(tys) + 1
    /\ \A k \in 0 .. Len(tys) :
            SuffixKey(k) = WholeId(SubSeq(tys, Len(tys) - k + 1, Len(tys)))
    /\ \A m \in memo : m.terms \subseteq Queries

\* A lookup of a term that hits finds an entry made where it meant the same.
HitsMeanTheSame ==
    \A m \in memo : \A t \in Queries :
        /\ m.terms = {t} /\ InScope(tys, t) /\ m.key = TermKey(tys, t)
        => m.deps = Deps(tys, {t})

\* The same for a comparison, which is keyed by one id for both sides.
PairHitsMeanTheSame ==
    \A m \in memo : \A a, b \in Queries :
        /\ a # b /\ m.terms = {a, b}
        /\ InScope(tys, a) /\ InScope(tys, b) /\ m.key = PairKey(tys, a, b)
        => m.deps = Deps(tys, {a, b})

\* Where a term means the same, it is found again, whatever binders it does
\* not depend on have been entered in between: no fallback to the whole
\* telescope while the dependencies fit the occurrence lists.
ListsSuffice(c, t) ==
    /\ Cardinality(DOMAIN Deps(c, {t})) <= 2 * UsedSetCap
    /\ \A i \in DOMAIN Deps(c, {t}) : UsedSet(Raw(c, i)) # NoSet
    /\ UsedSet(t) # NoSet
UnusedBindersDoNotMatter ==
    \A m \in memo : \A t \in Queries :
        /\ m.terms = {t} /\ InScope(tys, t)
        /\ m.deps = Deps(tys, {t}) /\ ListsSuffice(tys, t)
        => m.key = TermKey(tys, t)

\* The key of a term or a pair (term_ctx_key, pair_ctx_key) stands for its
\* meaning: equal keys only where every binder the terms depend on, directly or
\* through the types of others, has the same type at the same index; and for a
\* term, equal keys wherever it means the same.
KeysStandForMeanings == HitsMeanTheSame /\ PairHitsMeanTheSame /\ UnusedBindersDoNotMatter
=============================================================================
