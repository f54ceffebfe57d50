----------------------------- MODULE Conversion -----------------------------
(***************************************************************************)
(* The conversion checker of src/src/tc.rs: `is_def_eq` with its           *)
(* speculative congruence, its two main paths and its last-resort fallback, *)
(* over `whnf` and `whnf_core` with their depth guards and caches.         *)
(*                                                                         *)
(* The recursive Rust functions share the flags CORE_ABORTED, SPECULATING, *)
(* FALLBACK_TRIES and LAZY_MAIN_PATH, three memo tables and three depth     *)
(* counters, so the order in which frames start, return and decline is     *)
(* what matters.  The model is that call stack: `top` is the frame that    *)
(* runs (or has just returned), `stack` its callers, and every action is   *)
(* what one frame does between two calls.                                  *)
(*                                                                         *)
(* Terms are abstract nodes of a finite graph.  What the control flow asks *)
(* of a term is its shape, head and arguments, the term it steps to, and   *)
(* whether a major premise has exposed a constructor.                      *)
(***************************************************************************)
EXTENDS Naturals, Sequences, FiniteSets

CONSTANTS
    Term,             \* expressions of one declaration
    Shape,            \* Shape[t]: what heads t (see Shapes)
    Hd,               \* Hd[t]: the head constant
    Args,             \* Args[t]: the argument spine
    Step,             \* Step[t]: the contractum or unfolding
    Major,            \* Major[t]: what a recursor or projection cases on
    Canonical,        \* terms headed by a constructor of the right inductive
    Rank,             \* Rank[t]: definitional height of the head
    OpaqueHints,      \* definitions the elaborator is told not to unfold
    HeadStep,         \* HeadStep[t]: one lazy head step, t itself if none
    ConvDepth,        \* CONV_DEPTH
    MaxFallbackTries, \* MAX_FALLBACK_TRIES
    LazyDeltaSteps,   \* LAZY_DELTA_STEPS
    HeadRounds,       \* rounds of try_lazy_head_congruence
    Pairs,            \* the comparisons inference may ask
    MaxQueries        \* bound of the model: comparisons per declaration

\* "beta": beta redex, or an applied `let` (cheap_zeta contracts a bare one before
\* any guard, so it is no term here); "proj": projection; "rec": recursor application;
\* "def": definition; "thm": small theorem; "rigid": everything else.
Shapes == {"beta", "proj", "rec", "def", "thm", "rigid"}

ASSUME TermsAssumption ==
    /\ Term # {}
    /\ Shape \in [Term -> Shapes]
    /\ Args \in [Term -> Seq(Term)]
    /\ Step \in [Term -> Term]
    /\ Major \in [Term -> Term]
    /\ HeadStep \in [Term -> Term]
    /\ Canonical \subseteq Term
    /\ OpaqueHints \subseteq {t \in Term : Shape[t] = "def"}
    /\ Rank \in [Term -> Nat]

ASSUME BoundsAssumption ==
    /\ ConvDepth \in Nat \ {0}
    /\ MaxFallbackTries \in Nat
    /\ LazyDeltaSteps \in Nat
    /\ HeadRounds \in Nat
    /\ Pairs \subseteq Term \X Term
    /\ MaxQueries \in Nat

VARIABLES
    top,           \* the running or just returned frame
    stack,         \* its callers, innermost last
    speculating,   \* SPECULATING
    coreAborted,   \* CORE_ABORTED
    fallbackTries, \* FALLBACK_TRIES, read against DECLINE_SERIAL
    lazyMainPath,  \* LAZY_MAIN_PATH
    whnfCache,     \* Checker.whnf_cache
    coreCache,     \* Checker.whnf_core_cache
    defeqCache,    \* Checker.defeq_cache, keyed by the unordered pair
    queries        \* comparisons asked in this declaration

driver == <<lazyMainPath, queries>>   \* what only the caller changes
flags == <<speculating, coreAborted, fallbackTries, driver>>
caches == <<whnfCache, coreCache, defeqCache>>
vars == <<top, stack, flags, caches>>

-----------------------------------------------------------------------------
(* Terms *)

\* is_whnf_core_redex: not in weak head normal form whatever its major is.
Redex(t) == Shape[t] \in {"beta", "proj"}

\* Two spines congruence can compare argument by argument.
SameSpine(s, t) ==
    /\ Shape[s] # "beta" /\ Shape[s] = Shape[t]
    /\ Hd[s] = Hd[t] /\ Len(Args[s]) = Len(Args[t])

\* lazy_same_head: the same constant, applied to as many arguments.
SameHead(s, t) == SameSpine(s, t) /\ Shape[s] # "proj"

\* lazy_delta_rank: a pending redex outranks every definition.
Steppable(t) == Shape[t] \in {"beta", "proj", "def"}
Outranks(s, t) ==
    /\ Steppable(s)
    /\ Steppable(t) => Redex(s) \/ (~Redex(t) /\ Rank[s] >= Rank[t])
EqualRank(s, t) == Steppable(s) /\ Steppable(t) /\ Outranks(s, t) /\ Outranks(t, s)

\* Mutant of Unfolded: a pending projection steps without its major premise.
UnfoldedBlindly(t) == Step[t]

\* The term lazy_delta_step hands to whnf_core.
Unfolded(t) == IF Shape[t] = "def" THEN Step[t] ELSE t

\* eager_whnf_unfolds, for the loop of whnf: definitions whatever their hint
\* says, and small theorems.
EagerUnfolds(t) == Shape[t] \in {"def", "thm"}

\* Mutant of DeltaReducible: a small theorem never unfolds.
OnlyDefinitions(t) == Shape[t] = "def" /\ t \notin OpaqueHints

\* is_delta_reducible, for the delta step of is_def_eq_core: the hint counts.
DeltaReducible(t) == Shape[t] \in {"def", "thm"} /\ t \notin OpaqueHints

\* Mutant of DeltaStep: a theorem is claimed reducible and not unfolded.
DeltaStepOfDefinitions(t) == IF Shape[t] = "def" THEN Step[t] ELSE t

\* delta_step: the unfolding of a head with a value, else the term unchanged.
DeltaStep(t) == IF Shape[t] \in {"def", "thm"} THEN Step[t] ELSE t

-----------------------------------------------------------------------------
(* Frames *)

Functions == {"idle", "defeq", "args", "compare", "lazydelta", "lazymain",
              "lazyhead", "whnf", "core"}

\* A frame of function fn entered with arguments a and b.
Entry(fn, a, b) ==
    [fn |-> fn, pc |-> "enter", st |-> "run", a |-> a, b |-> b, x |-> a, y |-> b,
     n |-> 0, eq |-> FALSE, outer |-> FALSE, abort0 |-> FALSE, declined |-> FALSE,
     both |-> FALSE, ls |-> <<a>>, rs |-> <<b>>]

Caller == stack[Len(stack)]
At(fn, pc) == top.st = "run" /\ top.fn = fn /\ top.pc = pc
Returned(fn, pc) == /\ top.st # "run" /\ stack # <<>>
                    /\ Caller.fn = fn /\ Caller.pc = pc

\* WHNF_DEPTH, CORE_DEPTH and DEFEQ_DEPTH, before the running frame is counted.
Depth(fn) == Cardinality({i \in DOMAIN stack : stack[i].fn = fn})

Goto(f) == top' = f /\ stack' = stack
Ask(f, g) == top' = g /\ stack' = Append(stack, f)
Resume(f) == top' = f /\ stack' = SubSeq(stack, 1, Len(stack) - 1)

Answers(f, r) == [f EXCEPT !.st = "ok", !.eq = r]
Reduces(f, t) == [f EXCEPT !.st = "ok", !.x = t]
Declines(f) == [f EXCEPT !.st = "declined"]

\* Mutant of FreshDecline: the decline takes a try instead of starting anew.
FreshDeclineTakesTry(f) == Goto(Declines(f)) /\ fallbackTries' = fallbackTries - 1

\* decline(): a decline of its own gets a new serial, so the tries recorded
\* for the previous one no longer count.
FreshDecline(f) == Goto(Declines(f)) /\ fallbackTries' = 0

\* A decline of the callee that the caller passes on with `?`.
PassDecline == top.st = "declined" /\ Resume(Declines(Caller))
Ok == top.st = "ok"

Pair(s, t) == {s, t}
Memo(cache, k, v) ==
    [j \in DOMAIN cache \cup {k} |-> IF j = k THEN v ELSE cache[j]]

-----------------------------------------------------------------------------
(* whnf *)

WhnfEnter ==
    /\ At("whnf", "enter")
    /\ IF Depth("whnf") >= ConvDepth
       THEN FreshDecline(top) /\ UNCHANGED <<speculating, coreAborted, driver>>
       ELSE /\ IF top.a \in DOMAIN whnfCache
               THEN Goto(Reduces(top, whnfCache[top.a]))
               ELSE Ask([top EXCEPT !.pc = "core"], Entry("core", top.a, top.a))
            /\ UNCHANGED flags
    /\ UNCHANGED caches

\* The loop of whnf_inner: whnf_core, then unfold the head definition.
WhnfLoop ==
    /\ Returned("whnf", "core") /\ Ok
    /\ Resume(IF EagerUnfolds(top.x) /\ Step[top.x] # Caller.x
              THEN [Caller EXCEPT !.x = Step[top.x], !.pc = "again"]
              ELSE [Caller EXCEPT !.x = top.x, !.pc = "done"])
    /\ UNCHANGED <<flags, caches>>

WhnfAgain ==
    /\ At("whnf", "again")
    /\ Ask([top EXCEPT !.pc = "core"], Entry("core", top.x, top.x))
    /\ UNCHANGED <<flags, caches>>

\* The abort flag is taken, whoever set it.  An aborted redex declines, an
\* aborted normal form is returned and not cached.
WhnfDone ==
    /\ At("whnf", "done")
    /\ coreAborted' = FALSE
    /\ IF coreAborted /\ Redex(top.x)
       THEN FreshDecline(top)
       ELSE Goto(Reduces(top, top.x)) /\ UNCHANGED fallbackTries
    /\ whnfCache' = IF coreAborted THEN whnfCache ELSE Memo(whnfCache, top.a, top.x)
    /\ UNCHANGED <<speculating, driver, coreCache, defeqCache>>

\* `self.whnf_core(ctx, &cur)?` leaves before the flag is taken.
WhnfDeclines ==
    /\ Returned("whnf", "core") /\ PassDecline
    /\ UNCHANGED <<flags, caches>>

-----------------------------------------------------------------------------
(* whnf_core *)

\* Above the cap a redex declines, anything else is handed back as it is: a
\* recursor application whose major would still reduce is not told from a
\* stuck one.
CoreEnter ==
    /\ At("core", "enter")
    /\ IF Depth("core") >= ConvDepth
       THEN /\ coreAborted' = TRUE
            /\ IF Redex(top.a) THEN FreshDecline(top)
               ELSE Goto(Reduces(top, top.a)) /\ UNCHANGED fallbackTries
       ELSE /\ Goto(IF top.a \in DOMAIN coreCache
                    THEN Reduces(top, coreCache[top.a])
                    ELSE [top EXCEPT !.pc = "go"])
            /\ UNCHANGED <<coreAborted, fallbackTries>>
    /\ UNCHANGED <<speculating, driver, caches>>

CoreBeta ==
    /\ At("core", "go") /\ Shape[top.x] = "beta"
    /\ Goto([top EXCEPT !.x = Step[top.x]])
    /\ UNCHANGED <<flags, caches>>

\* A projection normalises its structure with whnf, a recursor its major with
\* the loop of whnf_major, which works by whnf_core.
CoreMajor ==
    /\ At("core", "go") /\ Shape[top.x] \in {"proj", "rec"}
    /\ LET m == Major[top.x] IN
       Ask([top EXCEPT !.pc = "major"],
           Entry(IF Shape[top.x] = "proj" THEN "whnf" ELSE "core", m, m))
    /\ UNCHANGED <<flags, caches>>

\* whnf_major unfolds a definition the major is headed by and goes on.
CoreMajorUnfolds ==
    /\ Returned("core", "major") /\ Ok
    /\ Shape[Caller.x] = "rec" /\ Shape[top.x] = "def"
    /\ Resume([Caller EXCEPT !.y = Step[top.x], !.pc = "unfolded"])
    /\ UNCHANGED <<flags, caches>>

CoreMajorAgain ==
    /\ At("core", "unfolded")
    /\ Ask([top EXCEPT !.pc = "major"], Entry("core", top.y, top.y))
    /\ UNCHANGED <<flags, caches>>

\* The contractum once the major exposes a constructor, else the term itself.
CoreMajorDone ==
    /\ Returned("core", "major") /\ Ok
    /\ ~(Shape[Caller.x] = "rec" /\ Shape[top.x] = "def")
    /\ Resume(IF top.x \in Canonical
              THEN [Caller EXCEPT !.x = Step[Caller.x], !.pc = "go"]
              ELSE [Caller EXCEPT !.pc = "stuck"])
    /\ UNCHANGED <<flags, caches>>

\* The result is cached whatever the calls below have aborted.
CoreDone ==
    /\ top.fn = "core" /\ top.st = "run"
    /\ \/ top.pc = "stuck"
       \/ top.pc = "go" /\ Shape[top.x] \in {"def", "thm", "rigid"}
    /\ Goto(Reduces(top, top.x))
    /\ coreCache' = Memo(coreCache, top.a, top.x)
    /\ UNCHANGED <<flags, whnfCache, defeqCache>>

CoreDeclines ==
    /\ Returned("core", "major") /\ PassDecline
    /\ UNCHANGED <<flags, caches>>

-----------------------------------------------------------------------------
(* pairwise_args: the spines of top.a and top.b, first difference decides *)

ArgsNext ==
    /\ At("args", "enter")
    /\ IF top.n = Len(Args[top.a])
       THEN Goto(Answers(top, TRUE))
       ELSE Ask([top EXCEPT !.pc = "arg"],
                Entry("defeq", Args[top.a][top.n + 1], Args[top.b][top.n + 1]))
    /\ UNCHANGED <<flags, caches>>

ArgsReturn ==
    /\ Returned("args", "arg") /\ Ok
    /\ Resume(IF top.eq THEN [Caller EXCEPT !.n = @ + 1, !.pc = "enter"]
                        ELSE Answers(Caller, FALSE))
    /\ UNCHANGED <<flags, caches>>

ArgsDecline ==
    /\ Returned("args", "arg") /\ PassDecline
    /\ UNCHANGED <<flags, caches>>

-----------------------------------------------------------------------------
(* is_def_eq: guard, memo, speculation *)

DefeqEnter ==
    /\ At("defeq", "enter")
    /\ IF Depth("defeq") >= ConvDepth
       THEN FreshDecline(top) /\ UNCHANGED <<speculating, coreAborted, driver>>
       ELSE /\ UNCHANGED <<coreAborted, fallbackTries, driver>>
            /\ IF top.a = top.b
               THEN Goto(Answers(top, TRUE)) /\ UNCHANGED speculating
               ELSE IF Pair(top.a, top.b) \in DOMAIN defeqCache
               THEN /\ Goto(Answers(top, defeqCache[Pair(top.a, top.b)]))
                    /\ UNCHANGED speculating
               ELSE /\ Goto([top EXCEPT !.outer = ~speculating,
                                        !.abort0 = coreAborted, !.pc = "raw"])
                    /\ speculating' = TRUE
    /\ UNCHANGED caches

\* The attempts of try_speculative_congruence, in their order: congruence of
\* the terms as they are, of their core normal forms, then lazy delta.
SpecRaw ==
    /\ At("defeq", "raw")
    /\ IF SameSpine(top.a, top.b) /\ Shape[top.a] # "rec"
       THEN Ask([top EXCEPT !.pc = "spec"], Entry("args", top.a, top.b))
       ELSE Goto([top EXCEPT !.pc = "coreA"]) 
    /\ UNCHANGED <<flags, caches>>

SpecCore ==
    /\ \/ At("defeq", "coreA") /\ Ask([top EXCEPT !.pc = "gotA"], Entry("core", top.a, top.a))
       \/ At("defeq", "coreB") /\ Ask([top EXCEPT !.pc = "gotB"], Entry("core", top.b, top.b))
    /\ UNCHANGED <<flags, caches>>

SpecCong ==
    /\ At("defeq", "cong")
    /\ IF (top.x # top.a \/ top.y # top.b) /\ SameSpine(top.x, top.y)
       THEN Ask([top EXCEPT !.pc = "speccong"], Entry("args", top.x, top.y))
       ELSE Goto([top EXCEPT !.pc = "delta"])
    /\ UNCHANGED <<flags, caches>>

SpecDelta ==
    /\ At("defeq", "delta")
    /\ Ask([top EXCEPT !.pc = "specdelta"], Entry("lazydelta", top.x, top.y))
    /\ UNCHANGED <<flags, caches>>

\* An attempt that does not prove equality hands over to the next one.
SpecFails ==
    /\ Ok /\ stack # <<>> /\ Caller.fn = "defeq"
    /\ \/ Caller.pc = "spec" /\ ~top.eq /\ Resume([Caller EXCEPT !.pc = "coreA"])
       \/ Caller.pc = "gotA" /\ Resume([Caller EXCEPT !.x = top.x, !.pc = "coreB"])
       \/ Caller.pc = "gotB" /\ Resume([Caller EXCEPT !.y = top.x, !.pc = "cong"])
       \/ Caller.pc = "speccong" /\ ~top.eq /\ Resume([Caller EXCEPT !.pc = "delta"])
    /\ UNCHANGED <<flags, caches>>

SpecPcs == {"spec", "gotA", "gotB", "speccong", "specdelta"}

\* One attempt proves the two sides equal: remember it and answer.
SpecProves ==
    /\ Ok /\ stack # <<>> /\ Caller.fn = "defeq"
    /\ Caller.pc \in {"spec", "speccong", "specdelta"} /\ top.eq
    /\ Resume(Answers(Caller, TRUE))
    /\ speculating' = (speculating /\ ~Caller.outer)
    /\ defeqCache' = Memo(defeqCache, Pair(Caller.a, Caller.b), TRUE)
    /\ UNCHANGED <<coreAborted, fallbackTries, driver, whnfCache, coreCache>>

\* Mutant of SpecExhausted: the outermost frame leaves SPECULATING set.
SpecExhaustedKeepsFlag ==
    /\ Returned("defeq", "specdelta") /\ Ok /\ ~top.eq
    /\ Resume([Caller EXCEPT !.x = Caller.a, !.y = Caller.b, !.pc = "main"])
    /\ UNCHANGED <<flags, caches>>

\* Nothing proved: the main path runs, from the terms as they were given.
SpecExhausted ==
    /\ Returned("defeq", "specdelta") /\ Ok /\ ~top.eq
    /\ Resume([Caller EXCEPT !.x = Caller.a, !.y = Caller.b, !.pc = "main"])
    /\ speculating' = (speculating /\ ~Caller.outer)
    /\ UNCHANGED <<coreAborted, fallbackTries, driver, caches>>

\* The outermost frame keeps a speculative decline for later and restores the
\* abort flag; a nested one passes it on.
SpecDeclines ==
    /\ top.st = "declined" /\ stack # <<>>
    /\ Caller.fn = "defeq" /\ Caller.pc \in SpecPcs
    /\ IF Caller.outer
       THEN /\ Resume([Caller EXCEPT !.x = Caller.a, !.y = Caller.b,
                                     !.declined = TRUE, !.pc = "main"])
            /\ speculating' = FALSE
            /\ coreAborted' = Caller.abort0
       ELSE Resume(Declines(Caller)) /\ UNCHANGED <<speculating, coreAborted>>
    /\ UNCHANGED <<fallbackTries, driver, caches>>

-----------------------------------------------------------------------------
(* is_def_eq: main path, verdict and last resort *)

\* def_eq_main_path normalises both sides fully and compares once; under
\* LAZY_MAIN_PATH the lazy loop replaces it.
MainPath ==
    /\ \/ /\ At("defeq", "main") /\ lazyMainPath
          /\ Ask([top EXCEPT !.pc = "verdict"], Entry("lazymain", top.a, top.b))
       \/ /\ At("defeq", "main") /\ ~lazyMainPath
          /\ Ask([top EXCEPT !.pc = "whnfA"], Entry("whnf", top.a, top.a))
       \/ /\ At("defeq", "main2")
          /\ Ask([top EXCEPT !.pc = "whnfB"], Entry("whnf", top.b, top.b))
       \/ /\ At("defeq", "both")
          /\ Ask([top EXCEPT !.pc = "verdict"], Entry("compare", top.x, top.y))
    /\ UNCHANGED <<flags, caches>>

MainNormalised ==
    /\ Ok /\ stack # <<>> /\ Caller.fn = "defeq"
    /\ \/ Caller.pc = "whnfA" /\ Resume([Caller EXCEPT !.x = top.x, !.pc = "main2"])
       \/ Caller.pc = "whnfB" /\ Resume([Caller EXCEPT !.y = top.x, !.pc = "both"])
    /\ UNCHANGED <<flags, caches>>

\* Mutant of MainAnswers: a speculative decline is forgotten.
MainAnswersAnything ==
    /\ Returned("defeq", "verdict") /\ Ok
    /\ Resume(Answers(Caller, top.eq))
    /\ defeqCache' = Memo(defeqCache, Pair(Caller.a, Caller.b), top.eq)
    /\ UNCHANGED <<flags, whnfCache, coreCache>>

\* A completed comparison answers, unless speculation declined and the answer
\* is not a proof of equality.  Cacheable when no abort is pending.
MainAnswers ==
    /\ Returned("defeq", "verdict") /\ Ok
    /\ Caller.declined => top.eq
    /\ Resume(Answers(Caller, top.eq))
    /\ defeqCache' = IF coreAborted THEN defeqCache
                     ELSE Memo(defeqCache, Pair(Caller.a, Caller.b), top.eq)
    /\ UNCHANGED <<flags, whnfCache, coreCache>>

\* A nested frame passes the decline of its main path on; the outermost one
\* goes to the last resort, and so does an answer `false` after a decline.
MainDeclines ==
    /\ stack # <<>> /\ Caller.fn = "defeq"
    /\ Caller.pc \in {"whnfA", "whnfB", "verdict"}
    /\ \/ top.st = "declined"
       \/ Ok /\ Caller.pc = "verdict" /\ Caller.declined /\ ~top.eq
    /\ Resume(IF Caller.outer \/ Ok THEN [Caller EXCEPT !.pc = "last"]
                                    ELSE Declines(Caller))
    /\ UNCHANGED <<flags, caches>>

\* The tries recorded for the decline that unwinds are kept in n: declines
\* raised and caught inside the attempt do not replace its serial.
FallbackAllowed == /\ fallbackTries < MaxFallbackTries
                   /\ ~top.abort0 /\ ~coreAborted
                   /\ Depth("core") < ConvDepth

Fallback ==
    /\ At("defeq", "last")
    /\ IF FallbackAllowed
       THEN /\ Ask([top EXCEPT !.pc = "fallback", !.n = fallbackTries],
                   Entry("lazyhead", top.a, top.b))
            /\ speculating' = TRUE
       ELSE Goto(Declines(top)) /\ UNCHANGED speculating
    /\ UNCHANGED <<coreAborted, fallbackTries, driver, caches>>

\* Mutant of FallbackReturn: any answer of the attempt counts as a proof.
FallbackReturnAcceptsAnswer ==
    /\ Returned("defeq", "fallback")
    /\ speculating' = FALSE
    /\ coreAborted' = Caller.abort0
    /\ IF Ok
       THEN /\ Resume(Answers(Caller, top.eq))
            /\ defeqCache' = Memo(defeqCache, Pair(Caller.a, Caller.b), TRUE)
            /\ UNCHANGED fallbackTries
       ELSE /\ Resume(Declines(Caller))
            /\ fallbackTries' = Caller.n + 1
            /\ UNCHANGED defeqCache
    /\ UNCHANGED <<driver, whnfCache, coreCache>>

FallbackReturn ==
    /\ Returned("defeq", "fallback")
    /\ speculating' = FALSE
    /\ coreAborted' = Caller.abort0
    /\ IF Ok /\ top.eq
       THEN /\ Resume(Answers(Caller, TRUE))
            /\ defeqCache' = Memo(defeqCache, Pair(Caller.a, Caller.b), TRUE)
            /\ UNCHANGED fallbackTries
       ELSE /\ Resume(Declines(Caller))
            /\ fallbackTries' = Caller.n + 1
            /\ UNCHANGED defeqCache
    /\ UNCHANGED <<driver, whnfCache, coreCache>>

-----------------------------------------------------------------------------
(* is_def_eq_core: structural comparison, then the delta step *)

\* What to do once congruence has not proved the sides equal: unfold the same
\* head on both sides, or the higher one, and compare again.
CompareEnter ==
    /\ At("compare", "enter")
    /\ IF top.a = top.b THEN Goto(Answers(top, TRUE))
       ELSE IF SameSpine(top.a, top.b)
       THEN Ask([top EXCEPT !.abort0 = coreAborted, !.pc = "spine"],
                Entry("args", top.a, top.b))
       ELSE Goto([top EXCEPT !.pc = "delta"])
    /\ UNCHANGED <<flags, caches>>

\* Under the lazy main path a decline inside an argument is remembered, and
\* only an unfolding that proves equality overrides it.
CompareSpine ==
    /\ Returned("compare", "spine")
    /\ IF Ok
       THEN /\ Resume(IF top.eq THEN Answers(Caller, TRUE)
                                ELSE [Caller EXCEPT !.pc = "delta"])
            /\ UNCHANGED coreAborted
       ELSE IF lazyMainPath /\ Shape[Caller.a] # "proj"
       THEN /\ Resume([Caller EXCEPT !.declined = TRUE, !.pc = "delta"])
            /\ coreAborted' = Caller.abort0
       ELSE Resume(Declines(Caller)) /\ UNCHANGED coreAborted
    /\ UNCHANGED <<speculating, fallbackTries, driver, caches>>

UnfoldsA == /\ DeltaReducible(top.a)
            /\ Hd[top.a] # Hd[top.b] /\ DeltaReducible(top.b) =>
                  Rank[top.a] >= Rank[top.b]
UnfoldsB == /\ DeltaReducible(top.b)
            /\ Hd[top.a] = Hd[top.b] \/ ~UnfoldsA

CompareDelta ==
    /\ \/ /\ At("compare", "delta")
          /\ IF UnfoldsA
             THEN Ask([top EXCEPT !.pc = "gotA"], Entry("core", DeltaStep(top.a), DeltaStep(top.a)))
             ELSE Goto([top EXCEPT !.pc = "deltaB"])
       \/ /\ At("compare", "deltaB")
          /\ IF UnfoldsB
             THEN Ask([top EXCEPT !.pc = "gotB"], Entry("core", DeltaStep(top.b), DeltaStep(top.b)))
             ELSE Goto([top EXCEPT !.pc = "sub"])
       \/ /\ At("compare", "sub")
          /\ IF UnfoldsA \/ UnfoldsB
             THEN Ask([top EXCEPT !.pc = "again"], Entry("compare", top.x, top.y))
             ELSE Goto(IF top.declined THEN Declines(top) ELSE Answers(top, FALSE))
    /\ UNCHANGED <<flags, caches>>

CompareReturn ==
    /\ Ok /\ stack # <<>> /\ Caller.fn = "compare"
    /\ \/ Caller.pc = "gotA" /\ Resume([Caller EXCEPT !.x = top.x, !.pc = "deltaB"])
       \/ Caller.pc = "gotB" /\ Resume([Caller EXCEPT !.y = top.x, !.pc = "sub"])
       \/ /\ Caller.pc = "again"
          /\ Resume(IF Caller.declined /\ ~top.eq THEN Declines(Caller)
                                                  ELSE Answers(Caller, top.eq))
    /\ UNCHANGED <<flags, caches>>

CompareDeclines ==
    /\ stack # <<>> /\ Caller.fn = "compare" /\ Caller.pc \in {"gotA", "gotB", "again"}
    /\ PassDecline
    /\ UNCHANGED <<flags, caches>>

-----------------------------------------------------------------------------
(* Stepping both sides: shared by try_lazy_delta and the lazy main path *)

\* lazy_delta_step on the higher ranked side, on both when they rank equal.
StepSides(fn) ==
    /\ \/ /\ At(fn, "stepA")
          /\ IF Outranks(top.x, top.y)
             THEN Ask([top EXCEPT !.both = EqualRank(top.x, top.y), !.pc = "gotA"],
                      Entry("core", Unfolded(top.x), Unfolded(top.x)))
             ELSE Goto([top EXCEPT !.both = TRUE, !.pc = "stepB"])
       \/ /\ At(fn, "stepB")
          /\ IF top.both
             THEN Ask([top EXCEPT !.pc = "gotB"],
                      Entry("core", Unfolded(top.y), Unfolded(top.y)))
             ELSE Goto([top EXCEPT !.pc = "check"])
    /\ UNCHANGED <<flags, caches>>

-----------------------------------------------------------------------------
(* try_lazy_delta: at most LAZY_DELTA_STEPS rounds; FALSE is "not proved" *)

DeltaEnter ==
    /\ At("lazydelta", "enter")
    /\ Goto(IF \/ SameHead(top.a, top.b) \/ coreAborted
               \/ Depth("core") >= ConvDepth
            THEN Answers(top, FALSE) ELSE [top EXCEPT !.pc = "round"])
    /\ UNCHANGED <<flags, caches>>

DeltaRound ==
    /\ At("lazydelta", "round")
    /\ Goto(IF \/ top.n = LazyDeltaSteps
               \/ ~Steppable(top.x) /\ ~Steppable(top.y)
            THEN Answers(top, FALSE)
            ELSE [top EXCEPT !.n = @ + 1, !.pc = "stepA"])
    /\ UNCHANGED <<flags, caches>>

\* A side that does not move ends the attempt.
DeltaStepped ==
    /\ Ok /\ stack # <<>> /\ Caller.fn = "lazydelta"
    /\ \/ /\ Caller.pc = "gotA"
          /\ Resume(IF top.x = Caller.x THEN Answers(Caller, FALSE)
                    ELSE [Caller EXCEPT !.x = top.x, !.pc = "stepB"])
       \/ /\ Caller.pc = "gotB"
          /\ Resume(IF top.x = Caller.y THEN Answers(Caller, FALSE)
                    ELSE [Caller EXCEPT !.y = top.x, !.pc = "check"])
    /\ UNCHANGED <<flags, caches>>

\* So does a step that declines; the abort it left is dropped.
DeltaStepDeclines ==
    /\ top.st = "declined" /\ stack # <<>>
    /\ Caller.fn = "lazydelta" /\ Caller.pc \in {"gotA", "gotB"}
    /\ Resume(Answers(Caller, FALSE))
    /\ coreAborted' = FALSE
    /\ UNCHANGED <<speculating, fallbackTries, driver, caches>>

DeltaCheck ==
    /\ At("lazydelta", "check")
    /\ IF top.x = top.y THEN Goto(Answers(top, TRUE))
       ELSE IF SameHead(top.x, top.y)
       THEN Ask([top EXCEPT !.pc = "cong"], Entry("args", top.x, top.y))
       ELSE Goto([top EXCEPT !.pc = "round"])
    /\ UNCHANGED <<flags, caches>>

DeltaCong ==
    /\ Returned("lazydelta", "cong")
    /\ \/ Ok /\ Resume(IF top.eq THEN Answers(Caller, TRUE)
                       ELSE [Caller EXCEPT !.pc = "round"])
       \/ PassDecline
    /\ UNCHANGED <<flags, caches>>

-----------------------------------------------------------------------------
(* def_eq_main_path_lazy *)

LazyCores ==
    /\ \/ At("lazymain", "enter") /\ Ask([top EXCEPT !.pc = "coreA"], Entry("core", top.a, top.a))
       \/ At("lazymain", "second") /\ Ask([top EXCEPT !.pc = "coreB"], Entry("core", top.b, top.b))
    /\ UNCHANGED <<flags, caches>>

\* Same head and rank: the arguments first, then unfold; no definition head
\* left: the structural comparison.
LazyLoop ==
    /\ At("lazymain", "loop")
    /\ IF top.x = top.y THEN Goto(Answers(top, TRUE))
       ELSE IF ~Steppable(top.x) /\ ~Steppable(top.y)
       THEN Goto([top EXCEPT !.pc = "compare"])
       ELSE IF EqualRank(top.x, top.y) /\ SameHead(top.x, top.y)
       THEN Ask([top EXCEPT !.abort0 = coreAborted, !.outer = FALSE, !.pc = "spine"],
                Entry("args", top.x, top.y))
       ELSE Goto([top EXCEPT !.outer = FALSE, !.pc = "stepA"])
    /\ UNCHANGED <<flags, caches>>

LazySpine ==
    /\ Returned("lazymain", "spine")
    /\ Resume(IF Ok /\ top.eq THEN Answers(Caller, TRUE)
              ELSE [Caller EXCEPT !.pc = "stepA"])
    /\ coreAborted' = IF Ok THEN coreAborted ELSE Caller.abort0
    /\ UNCHANGED <<speculating, fallbackTries, driver, caches>>

\* `outer` is `moved` here: some side has stepped in this round.
LazyReturn ==
    /\ Ok /\ stack # <<>> /\ Caller.fn = "lazymain"
    /\ \/ Caller.pc = "coreA" /\ Resume([Caller EXCEPT !.x = top.x, !.pc = "second"])
       \/ Caller.pc = "coreB" /\ Resume([Caller EXCEPT !.y = top.x, !.pc = "loop"])
       \/ Caller.pc = "gotA" /\ Resume([Caller EXCEPT !.outer = @ \/ top.x # Caller.x,
                                                      !.x = top.x, !.pc = "stepB"])
       \/ Caller.pc = "gotB" /\ Resume([Caller EXCEPT !.outer = @ \/ top.x # Caller.y,
                                                      !.y = top.x, !.pc = "check"])
       \/ Caller.pc = "result" /\ Resume(Answers(Caller, top.eq))
    /\ UNCHANGED <<flags, caches>>

\* Mutant of LazyCheck: a round in which no side has moved is repeated.
LazyCheckNeverStops ==
    /\ \/ At("lazymain", "check") /\ Goto([top EXCEPT !.pc = "loop"])
       \/ At("lazymain", "compare")
          /\ Ask([top EXCEPT !.pc = "result"], Entry("compare", top.x, top.y))
    /\ UNCHANGED <<flags, caches>>

LazyCheck ==
    /\ \/ At("lazymain", "check")
          /\ Goto([top EXCEPT !.pc = IF top.outer THEN "loop" ELSE "compare"])
       \/ At("lazymain", "compare")
          /\ Ask([top EXCEPT !.pc = "result"], Entry("compare", top.x, top.y))
    /\ UNCHANGED <<flags, caches>>

LazyDeclines ==
    /\ stack # <<>> /\ Caller.fn = "lazymain" /\ Caller.pc # "spine"
    /\ PassDecline
    /\ UNCHANGED <<flags, caches>>

-----------------------------------------------------------------------------
(* try_lazy_head_congruence: the fallback's alias search *)

\* ls and rs keep every head exposed so far on the two sides.
LastL == top.ls[Len(top.ls)]
LastR == top.rs[Len(top.rs)]
DoneL == HeadStep[LastL] = LastL
DoneR == HeadStep[LastR] = LastR

HeadExpose ==
    /\ \/ /\ At("lazyhead", "enter")
          /\ Goto(IF \/ DoneL /\ DoneR
                     \/ Len(top.ls) > HeadRounds \/ Len(top.rs) > HeadRounds
                  THEN Answers(top, FALSE)
                  ELSE IF DoneL THEN [top EXCEPT !.pc = "right"]
                  ELSE [top EXCEPT !.x = HeadStep[LastL], !.n = 1, !.pc = "tryL"])
       \/ /\ At("lazyhead", "right")
          /\ Goto(IF DoneR THEN [top EXCEPT !.pc = "enter"]
                  ELSE [top EXCEPT !.y = HeadStep[LastR], !.n = 1, !.pc = "tryR"])
    /\ UNCHANGED <<flags, caches>>

\* The new head against every head kept on the other side, then kept itself.
HeadTry ==
    /\ \/ /\ At("lazyhead", "tryL")
          /\ IF top.n > Len(top.rs)
             THEN Goto([top EXCEPT !.ls = Append(@, top.x), !.pc = "right"])
             ELSE IF SameHead(top.x, top.rs[top.n])
             THEN Ask([top EXCEPT !.pc = "congL"], Entry("args", top.x, top.rs[top.n]))
             ELSE Goto([top EXCEPT !.n = @ + 1])
       \/ /\ At("lazyhead", "tryR")
          /\ IF top.n > Len(top.ls)
             THEN Goto([top EXCEPT !.rs = Append(@, top.y), !.pc = "enter"])
             ELSE IF SameHead(top.ls[top.n], top.y)
             THEN Ask([top EXCEPT !.pc = "congR"], Entry("args", top.ls[top.n], top.y))
             ELSE Goto([top EXCEPT !.n = @ + 1])
    /\ UNCHANGED <<flags, caches>>

HeadReturn ==
    /\ stack # <<>> /\ Caller.fn = "lazyhead" /\ Caller.pc \in {"congL", "congR"}
    /\ \/ /\ Ok
          /\ Resume(IF top.eq THEN Answers(Caller, TRUE)
                    ELSE [Caller EXCEPT !.n = @ + 1,
                              !.pc = IF Caller.pc = "congL" THEN "tryL" ELSE "tryR"])
       \/ PassDecline
    /\ UNCHANGED <<flags, caches>>

-----------------------------------------------------------------------------
(* The caller: inference asks comparisons within one declaration *)

Idle == top.st # "run" /\ stack = <<>>

\* A caller that gets a decline may swallow it (`unwrap_or(false)`) and ask
\* on, with whatever the flags hold.
Query ==
    /\ Idle /\ queries < MaxQueries
    /\ \E p \in Pairs : Goto(Entry("defeq", p[1], p[2]))
    /\ queries' = queries + 1
    /\ UNCHANGED <<speculating, coreAborted, fallbackTries, lazyMainPath, caches>>

\* check_decl_once clears the abort flag and the memo tables; check_decl runs
\* it with either main path.
NewDeclaration ==
    /\ Idle
    /\ coreAborted' = FALSE
    /\ lazyMainPath' \in BOOLEAN
    /\ whnfCache' = <<>> /\ coreCache' = <<>> /\ defeqCache' = <<>>
    /\ queries' = 0
    /\ UNCHANGED <<top, stack, speculating, fallbackTries>>

Init ==
    /\ \E t \in Term : top = [Entry("idle", t, t) EXCEPT !.st = "ok"]
    /\ stack = <<>>
    /\ speculating = FALSE /\ coreAborted = FALSE
    /\ fallbackTries = 0 /\ lazyMainPath = FALSE
    /\ whnfCache = <<>> /\ coreCache = <<>> /\ defeqCache = <<>>
    /\ queries = 0

Reduction == \/ WhnfEnter \/ WhnfLoop \/ WhnfAgain \/ WhnfDone \/ WhnfDeclines
             \/ CoreEnter \/ CoreBeta \/ CoreMajor \/ CoreMajorUnfolds
             \/ CoreMajorAgain \/ CoreMajorDone \/ CoreDone \/ CoreDeclines
Speculation == \/ DefeqEnter \/ SpecRaw \/ SpecCore \/ SpecCong \/ SpecDelta
               \/ SpecFails \/ SpecProves \/ SpecExhausted \/ SpecDeclines
Verdict == \/ MainPath \/ MainNormalised \/ MainAnswers \/ MainDeclines
           \/ Fallback \/ FallbackReturn
Comparison == \/ ArgsNext \/ ArgsReturn \/ ArgsDecline
              \/ CompareEnter \/ CompareSpine \/ CompareDelta
              \/ CompareReturn \/ CompareDeclines
LazyPaths == \/ StepSides("lazydelta") \/ StepSides("lazymain")
             \/ DeltaEnter \/ DeltaRound \/ DeltaStepped \/ DeltaStepDeclines
             \/ DeltaCheck \/ DeltaCong
             \/ LazyCores \/ LazyLoop \/ LazySpine \/ LazyReturn \/ LazyCheck
             \/ LazyDeclines
             \/ HeadExpose \/ HeadTry \/ HeadReturn

Machine == Reduction \/ Speculation \/ Verdict \/ Comparison \/ LazyPaths
Next == Machine \/ Query \/ NewDeclaration

Spec == Init /\ [][Next]_vars /\ WF_vars(Machine)
=============================================================================
