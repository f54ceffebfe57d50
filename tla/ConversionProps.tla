--------------------------- MODULE ConversionProps ---------------------------
(***************************************************************************)
(* What the conversion checker promises, against definitional equality     *)
(* itself: Conv is the relation the kernel's rules generate on the terms.  *)
(***************************************************************************)
EXTENDS Conversion

CONSTANT Conv   \* definitional equality: a subset of Term \X Term

\* Conv is closed under the reduction rules and congruence.  A projection or
\* recursor application steps once its major is a constructor up to Conv.
ASSUME ConvAssumption ==
    /\ Conv \subseteq Term \X Term
    /\ \A t \in Term : <<t, t>> \in Conv
    /\ \A s, t \in Term : <<s, t>> \in Conv => <<t, s>> \in Conv
    /\ \A s, t, u \in Term : <<s, t>> \in Conv /\ <<t, u>> \in Conv => <<s, u>> \in Conv
    /\ \A t \in Term : Shape[t] \in {"beta", "def", "thm"} => <<t, Step[t]>> \in Conv
    /\ \A t \in Term, c \in Canonical :
          Shape[t] \in {"proj", "rec"} /\ <<Major[t], c>> \in Conv => <<t, Step[t]>> \in Conv
    /\ \A t \in Term : <<t, HeadStep[t]>> \in Conv
    /\ \A s, t \in Term :
          /\ SameSpine(s, t)
          /\ \A i \in DOMAIN Args[s] : <<Args[s][i], Args[t][i]>> \in Conv
          => <<s, t>> \in Conv

-----------------------------------------------------------------------------
Pcs == {"enter", "core", "again", "done", "go", "major", "unfolded", "stuck", "arg",
        "raw", "spec", "coreA", "coreB", "gotA", "gotB", "cong", "speccong", "delta",
        "specdelta", "main", "main2", "whnfA", "whnfB", "both", "verdict", "last",
        "fallback", "spine", "deltaB", "sub", "stepA", "stepB", "check", "round",
        "second", "loop", "compare", "result", "right", "tryL", "tryR", "congL", "congR"}

Frame == [fn : Functions, pc : Pcs, st : {"run", "ok", "declined"},
          a : Term, b : Term, x : Term, y : Term, n : Nat, eq : BOOLEAN,
          outer : BOOLEAN, abort0 : BOOLEAN, declined : BOOLEAN, both : BOOLEAN,
          ls : Seq(Term), rs : Seq(Term)]

Keys == {{p[1], p[2]} : p \in Term \X Term}

\* Every variable holds a value of its kind; the memo tables are partial maps.
TypeOK ==
    /\ top \in Frame
    /\ stack \in Seq(Frame)
    /\ speculating \in BOOLEAN /\ coreAborted \in BOOLEAN /\ lazyMainPath \in BOOLEAN
    /\ fallbackTries \in Nat
    /\ whnfCache \in [DOMAIN whnfCache -> Term] /\ DOMAIN whnfCache \subseteq Term
    /\ coreCache \in [DOMAIN coreCache -> Term] /\ DOMAIN coreCache \subseteq Term
    /\ defeqCache \in [DOMAIN defeqCache -> BOOLEAN] /\ DOMAIN defeqCache \subseteq Keys
    /\ queries \in 0..MaxQueries

Equalities == {"defeq", "args", "compare", "lazydelta", "lazymain", "lazyhead"}

\* The kernel accepts only definitional equality: whatever frame answers TRUE,
\* through speculation, a cache, either main path or the fallback, and after
\* whatever aborts and declines, its two terms are definitionally equal.
AnswersAreEqualities ==
    top.st = "ok" /\ top.fn \in Equalities /\ top.eq => <<top.a, top.b>> \in Conv

\* Nothing unsound outlives the frame that found it: the memo tables relate
\* equal terms only, even those filled while a core abort was pending.
CachesAreSound ==
    /\ \A t \in DOMAIN whnfCache : <<t, whnfCache[t]>> \in Conv
    /\ \A t \in DOMAIN coreCache : <<t, coreCache[t]>> \in Conv
    /\ \A k \in DOMAIN defeqCache :
          defeqCache[k] => \A s, t \in k : <<s, t>> \in Conv

\* A stored `false` is a completed answer: two sides of a memoised `false` are
\* not definitionally equal (the comment at the end of def_eq_main_path).
StoredFalseIsCompleted ==
    \A k \in DOMAIN defeqCache :
        ~defeqCache[k] => \A s, t \in k : s # t => <<s, t>> \notin Conv

\* A decline that was kept is not hidden by a later FALSE.  A comparison whose speculation
\* declined, or whose main path did so that it came to its last resort, answers
\* TRUE or declines (is_def_eq_inner_body); so does a structural comparison that
\* has kept the decline of an argument and unfolds on (is_def_eq_core).
DeclineYieldsToProofOnly ==
    top.st = "ok" =>
        /\ top.fn = "defeq" /\ (top.declined \/ top.pc \in {"last", "fallback"}) => top.eq
        /\ top.fn = "compare" /\ top.declined => top.eq

Frames == [i \in 1..Len(stack) + 1 |-> IF i <= Len(stack) THEN stack[i] ELSE top]

\* The structural comparison makes progress: is_def_eq_core never runs inside
\* itself on the same two terms, however many calls lie between, so what
\* is_delta_reducible promises to unfold, delta_step does unfold.
NoComparisonInsideItself ==
    \A i, j \in DOMAIN Frames :
        i < j /\ Frames[i].fn = "compare" /\ Frames[j].fn = "compare"
        => <<Frames[i].a, Frames[i].b>> # <<Frames[j].a, Frames[j].b>>

InSpeculation(f) == /\ f.fn = "defeq" /\ f.outer /\ f.st = "run"
                    /\ f.pc \in SpecPcs \cup {"raw", "coreA", "coreB", "cong", "delta", "fallback"}

\* SPECULATING is the property of exactly one frame: the one outermost frame
\* inside its speculative attempt or its fallback sets it, and it is clear
\* again on every way out, so no comparison loses its fallback to a stale flag.
SpeculationBracketed ==
    /\ speculating <=> \E i \in DOMAIN Frames : InSpeculation(Frames[i])
    /\ \A i, j \in DOMAIN Frames :
          InSpeculation(Frames[i]) /\ InSpeculation(Frames[j]) => i = j

\* Below the caps conversion is complete on the comparisons asked: a frame of
\* is_def_eq whose terms are definitionally equal answers TRUE; it neither
\* declines nor gives in to a speculative attempt that failed.
EqualTermsAreProved ==
    top.fn = "defeq" /\ top.st # "run" /\ <<top.a, top.b>> \in Conv
    => top.st = "ok" /\ top.eq

\* An abort of whnf_core is taken by the whnf call it happened in ("Abort is
\* per-`whnf` call" in whnf_inner): an outermost whnf call finds none pending.
AbortIsPerWhnfCall ==
    At("whnf", "enter") /\ Depth("whnf") = 0 => ~coreAborted

\* Every comparison comes back to its caller.
ComparisonsTerminate == (top.st = "run") ~> Idle

-----------------------------------------------------------------------------
(* Why the answers are equalities: what every frame on the stack guarantees, *)
(* and what a waiting frame knows of the one it has called.                  *)

Reducers == {"whnf", "core"}
Equal(s, t) == <<s, t>> \in Conv

\* The functions that carry a term x for their first side and y for the second.
TwoSided == {"defeq", "compare", "lazydelta", "lazymain", "lazyhead"}

\* pairwise_args has found the first n arguments equal.
SpineSoFar(f) ==
    /\ SameSpine(f.a, f.b) /\ f.n <= Len(Args[f.a])
    /\ \A i \in 1..f.n : Equal(Args[f.a][i], Args[f.b][i])

\* Every head exposed on a side is equal to the term of that side.
HeadsSoFar(f) ==
    /\ Len(f.ls) >= 1 /\ \A i \in 1..Len(f.ls) : Equal(f.a, f.ls[i])
    /\ Len(f.rs) >= 1 /\ \A i \in 1..Len(f.rs) : Equal(f.b, f.rs[i])
    /\ f.pc \in {"tryL", "tryR", "congL", "congR"} => f.n >= 1

\* The terms a frame has derived so far are equal to those it was given.
Derived(f) ==
    /\ f.fn \in Reducers => Equal(f.a, f.x)
    /\ f.fn = "args" => SpineSoFar(f)
    /\ f.fn \in TwoSided => Equal(f.a, f.x) /\ Equal(f.b, f.y)
    /\ f.fn = "lazyhead" => HeadsSoFar(f)

Sound(f) ==
    /\ Derived(f)
    /\ f.fn = "core" /\ f.pc \in {"major", "unfolded"} => Shape[f.x] \in {"proj", "rec"}
    /\ f.fn = "core" /\ f.pc = "unfolded" => Equal(Major[f.x], f.y)
    /\ f.fn \in Equalities /\ f.st = "ok" /\ f.eq => Equal(f.a, f.b)

WaitsA == {"gotA", "whnfA", "coreA"}
WaitsB == {"gotB", "whnfB", "coreB"}

\* Frame c may wait for a call of fn on s and t: terms equal to those it asks
\* about.
Calls(c, fn, s, t) ==
    /\ c.fn = "whnf" => fn \in Reducers /\ Equal(c.a, s)
    /\ c.fn = "core" => fn \in Reducers /\ Equal(Major[c.x], s)
    /\ c.fn = "args" => /\ fn \in Equalities /\ c.n < Len(Args[c.a])
                        /\ s = Args[c.a][c.n + 1] /\ t = Args[c.b][c.n + 1]
    /\ c.fn \in TwoSided =>
          /\ c.pc \in WaitsA => fn \in Reducers /\ Equal(c.a, s)
          /\ c.pc \in WaitsB => fn \in Reducers /\ Equal(c.b, s)
          /\ c.pc \notin WaitsA \cup WaitsB =>
                fn \in Equalities /\ Equal(c.a, s) /\ Equal(c.b, t)

Link(c, g) == Calls(c, g.fn, g.a, g.b)

\* Frame t runs above the callers s.
StackOK(t, s) ==
    /\ t \in Frame /\ s \in Seq(Frame)
    /\ Sound(t)
    /\ \A i \in 1..Len(s) : Sound(s[i]) /\ s[i].st = "run"
    /\ \A i \in 1..Len(s) - 1 : Link(s[i], s[i + 1])
    /\ s # <<>> => Link(s[Len(s)], t)

StackInv == StackOK(top, stack)

\* The inductive invariant: every frame's guarantee, along the whole stack,
\* together with the memo tables the frames read.
ConversionInv == TypeOK /\ StackInv /\ CachesAreSound
=============================================================================
