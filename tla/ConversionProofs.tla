--------------------------- MODULE ConversionProofs ---------------------------
(***************************************************************************)
(* Proofs about Conversion: for every term graph, every relation closed     *)
(* under the rules and every value of the bounds, the checker answers TRUE  *)
(* only for definitionally equal terms, sets the flag SPECULATING exactly   *)
(* while it speculates, and follows a speculative decline by a proof or by  *)
(* a decline.                                                              *)
(***************************************************************************)
EXTENDS ConversionProps, SequenceTheorems, TLAPS

USE DEF Equalities, Reducers, TwoSided

(* Definitional equality *)

\* Conv is an equivalence on the terms.
LEMMA EqualIsEquivalence ==
    /\ \A t \in Term : Equal(t, t)
    /\ \A s, t \in Term : Equal(s, t) => Equal(t, s)
    /\ \A s, t, u \in Term : Equal(s, t) /\ Equal(t, u) => Equal(s, u)
BY ConvAssumption DEF Equal

\* Unfolding, contracting and exposing a head preserve equality.
LEMMA StepIsEqual ==
    /\ \A t \in Term : Shape[t] \in {"beta", "def", "thm"} => Equal(t, Step[t])
    /\ \A t \in Term, c \in Canonical :
          Shape[t] \in {"proj", "rec"} /\ Equal(Major[t], c) => Equal(t, Step[t])
    /\ \A t \in Term : Equal(t, HeadStep[t])
    /\ \A t \in Term : Equal(t, Unfolded(t)) /\ Unfolded(t) \in Term
BY ConvAssumption, TermsAssumption DEF Equal, Unfolded

\* The components of a term are terms.
LEMMA TermParts ==
    /\ \A t \in Term : Step[t] \in Term /\ Major[t] \in Term /\ HeadStep[t] \in Term
    /\ \A t \in Term : Len(Args[t]) \in Nat
    /\ \A t \in Term : \A i \in 1..Len(Args[t]) : Args[t][i] \in Term
    /\ Canonical \subseteq Term
BY TermsAssumption

-----------------------------------------------------------------------------
(* The stack: what pushing, returning and going on ask of the new frame *)

\* What a call promises depends on the caller's place and terms only.
LEMMA LinkDependsOn ==
    ASSUME NEW c, NEW d, NEW g, NEW h, Link(c, g),
           d.fn = c.fn, d.pc = c.pc, d.a = c.a, d.b = c.b, d.n = c.n, d.x = c.x,
           h.fn = g.fn, h.a = g.a, h.b = g.b
    PROVE  Link(d, h)
BY DEF Link, Calls

\* A frame that goes on leaves its callers waiting for the same call.
LEMMA GoOn ==
    ASSUME NEW t, NEW s, StackOK(t, s), NEW f \in Frame, Sound(f),
           f.fn = t.fn, f.a = t.a, f.b = t.b
    PROVE  StackOK(f, s)
<1>1. s # <<>> => Link(s[Len(s)], f)
  BY LinkDependsOn DEF StackOK
<1> QED BY <1>1 DEF StackOK

\* A call: the caller, changed to f, waits for the new frame g.
LEMMA Push ==
    ASSUME NEW t, NEW s, StackOK(t, s), NEW f \in Frame, Sound(f), f.st = "run",
           f.fn = t.fn, f.a = t.a, f.b = t.b,
           NEW g \in Frame, Sound(g), Link(f, g)
    PROVE  StackOK(g, Append(s, f))
<1>1. StackOK(f, s)
  BY GoOn
<1>2. s \in Seq(Frame) /\ Len(s) \in Nat
  BY DEF StackOK
<1> DEFINE r == Append(s, f)
<1>3. /\ r \in Seq(Frame) /\ Len(r) = Len(s) + 1 /\ r # <<>>
      /\ \A i \in 1..Len(s) : r[i] = s[i]
      /\ r[Len(s) + 1] = f
  BY <1>2
<1>4. \A i \in 1..Len(r) : Sound(r[i]) /\ r[i].st = "run"
  BY <1>1, <1>2, <1>3 DEF StackOK
<1>5. \A i \in 1..Len(r) - 1 : Link(r[i], r[i + 1])
  <2> TAKE i \in 1..Len(r) - 1
  <2>1. CASE i < Len(s)
    BY <1>1, <1>2, <1>3, <2>1 DEF StackOK
  <2>2. CASE i = Len(s)
    BY <1>1, <1>2, <1>3, <2>2 DEF StackOK
  <2> QED BY <1>2, <1>3, <2>1, <2>2
<1>6. Link(r[Len(r)], g)
  BY <1>2, <1>3
<1> HIDE DEF r
<1>7. StackOK(g, r)
  BY <1>3, <1>4, <1>5, <1>6 DEF StackOK
<1> QED BY <1>7 DEF r

\* Without its last element a sequence of frames is one, of the same frames.
LEMMA AllButLast ==
    ASSUME NEW S, NEW s \in Seq(S), Len(s) >= 1
    PROVE  /\ SubSeq(s, 1, Len(s) - 1) \in Seq(S)
           /\ Len(SubSeq(s, 1, Len(s) - 1)) = Len(s) - 1
           /\ \A i \in 1..Len(s) - 1 : SubSeq(s, 1, Len(s) - 1)[i] = s[i]
           /\ SubSeq(s, 1, Len(s) - 1) # <<>> => Len(s) - 1 >= 1
<1> DEFINE m == Len(s) - 1
           r == SubSeq(s, 1, m)
<1>1. m \in Nat /\ \A i \in 1..m : s[i] \in S
  OBVIOUS
<1> HIDE DEF m
<1>2. /\ r \in Seq(S)
      /\ Len(r) = IF 1 <= m THEN m - 1 + 1 ELSE 0
      /\ \A i \in 1..m - 1 + 1 : r[i] = s[1 + i - 1]
  BY <1>1, SubSeqProperties
<1>3. m = 0 => r = <<>>
  BY <1>1, SubSeqEmpty
<1> HIDE DEF r
<1>4. r \in Seq(S) /\ Len(r) = m /\ (\A i \in 1..m : r[i] = s[i]) /\ (r # <<>> => m >= 1)
  BY <1>1, <1>2, <1>3
<1> QED BY <1>4 DEF r, m

\* A return: the innermost caller goes on as f.
LEMMA Pop ==
    ASSUME NEW t, NEW s, StackOK(t, s), s # <<>>, NEW f \in Frame, Sound(f),
           f.fn = s[Len(s)].fn, f.a = s[Len(s)].a, f.b = s[Len(s)].b
    PROVE  StackOK(f, SubSeq(s, 1, Len(s) - 1))
<1>1. s \in Seq(Frame) /\ Len(s) \in Nat /\ Len(s) >= 1
  BY DEF StackOK
<1> DEFINE r == SubSeq(s, 1, Len(s) - 1)
<1>2. /\ r \in Seq(Frame) /\ Len(r) = Len(s) - 1
      /\ \A i \in 1..Len(r) : r[i] = s[i]
      /\ r # <<>> => Len(r) >= 1
  BY <1>1, AllButLast
<1>3. /\ \A i \in 1..Len(r) : Sound(r[i]) /\ r[i].st = "run"
      /\ \A i \in 1..Len(r) - 1 : Link(r[i], r[i + 1])
  BY <1>1, <1>2 DEF StackOK
<1>4. r # <<>> => Link(r[Len(r)], f)
  <2> HAVE r # <<>>
  <2>1. Link(s[Len(s) - 1], s[Len(s)])
    BY <1>1, <1>2 DEF StackOK
  <2>2. r[Len(r)] = s[Len(s) - 1]
    BY <1>1, <1>2
  <2>3. Link(s[Len(s) - 1], f)
    BY <2>1, LinkDependsOn
  <2> QED BY <2>2, <2>3
<1> HIDE DEF r
<1>5. StackOK(f, r)
  BY <1>2, <1>3, <1>4 DEF StackOK
<1> QED BY <1>5 DEF r
\* The three ways a step changes the stack keep it sound when they leave a
\* sound frame behind.
LEMMA GotoKeeps ==
    ASSUME StackInv, NEW f \in Frame, Sound(f), Goto(f),
           f.fn = top.fn, f.a = top.a, f.b = top.b
    PROVE  StackInv'
<1>1. StackOK(f, stack)
  BY GoOn DEF StackInv
<1> QED BY <1>1 DEF StackInv, Goto

\* A step that calls keeps the stack sound when caller and callee are sound.
LEMMA AskKeeps ==
    ASSUME StackInv, NEW f \in Frame, Sound(f), f.st = "run",
           f.fn = top.fn, f.a = top.a, f.b = top.b,
           NEW g \in Frame, Sound(g), Link(f, g), Ask(f, g)
    PROVE  StackInv'
<1>1. StackOK(g, Append(stack, f))
  BY Push DEF StackInv
<1> QED BY <1>1 DEF StackInv, Ask

\* A step that returns keeps the stack sound when the caller goes on soundly.
LEMMA ResumeKeeps ==
    ASSUME StackInv, stack # <<>>, NEW f \in Frame, Sound(f), Resume(f),
           f.fn = Caller.fn, f.a = Caller.a, f.b = Caller.b
    PROVE  StackInv'
<1>1. StackOK(f, SubSeq(stack, 1, Len(stack) - 1))
  BY Pop DEF StackInv, Caller
<1> QED BY <1>1 DEF StackInv, Resume

\* What the caller and the returned frame know when a call comes back.
LEMMA CallerFacts ==
    ASSUME StackInv, stack # <<>>
    PROVE  /\ Caller \in Frame /\ Sound(Caller) /\ Caller.st = "run"
           /\ Link(Caller, top)
           /\ top \in Frame /\ Sound(top)
<1>1. Len(stack) \in 1..Len(stack)
  BY DEF StackInv, StackOK
<1> QED BY <1>1 DEF StackInv, StackOK, Caller

-----------------------------------------------------------------------------
(* New frames *)

\* What a frame has derived depends on its function, terms and counters only.
LEMMA DerivedDependsOn ==
    ASSUME NEW f, NEW g, Derived(f), g.fn = f.fn, g.pc = f.pc, g.a = f.a, g.b = f.b,
           g.x = f.x, g.y = f.y, g.n = f.n, g.ls = f.ls, g.rs = f.rs
    PROVE  Derived(g)
BY DEF Derived, SpineSoFar, HeadsSoFar

\* A fresh frame has derived nothing yet.
LEMMA EntryIsSound ==
    ASSUME NEW fn \in Functions, NEW a \in Term, NEW b \in Term,
           fn = "args" => SameSpine(a, b)
    PROVE  /\ Entry(fn, a, b) \in Frame /\ Sound(Entry(fn, a, b))
           /\ Entry(fn, a, b).fn = fn /\ Entry(fn, a, b).a = a /\ Entry(fn, a, b).b = b
<1>1. Entry(fn, a, b) \in Frame
  BY DEF Entry, Frame, Pcs, Functions
<1>2. Derived(Entry(fn, a, b))
  <2> DEFINE e == Entry(fn, a, b)
  <2>1. /\ e.fn = fn /\ e.a = a /\ e.b = b /\ e.x = a /\ e.y = b /\ e.n = 0
        /\ e.ls = <<a>> /\ e.rs = <<b>> /\ e.pc = "enter"
    BY DEF Entry
  <2>2. Equal(a, a) /\ Equal(b, b) /\ Len(Args[a]) \in Nat
    BY EqualIsEquivalence, TermParts
  <2>3. /\ Len(<<a>>) = 1 /\ \A i \in 1..1 : <<a>>[i] = a
        /\ Len(<<b>>) = 1 /\ \A i \in 1..1 : <<b>>[i] = b
    OBVIOUS
  <2> HIDE DEF e
  <2>4. e.fn = "args" => SpineSoFar(e)
    BY <2>1, <2>2 DEF SpineSoFar
  <2>5. HeadsSoFar(e)
    <3>1. Len(e.ls) = 1 /\ e.ls[1] = a /\ Len(e.rs) = 1 /\ e.rs[1] = b
      BY <2>1, <2>3
    <3>2. e.pc \notin {"tryL", "tryR", "congL", "congR"}
      BY <2>1
    <3>3. /\ \A i \in 1..Len(e.ls) : Equal(e.a, e.ls[i])
          /\ \A i \in 1..Len(e.rs) : Equal(e.b, e.rs[i])
      <4>1. \A i \in 1..1 : Equal(a, e.ls[i]) /\ Equal(b, e.rs[i])
        <5> TAKE i \in 1..1
        <5>1. i = 1
          OBVIOUS
        <5>2. Equal(a, e.ls[1]) /\ Equal(b, e.rs[1])
          BY <2>2, <3>1
        <5> QED BY <5>1, <5>2
      <4> QED BY <2>1, <3>1, <4>1
    <3> QED BY <3>1, <3>2, <3>3 DEF HeadsSoFar
  <2>6. Derived(e)
    BY <2>1, <2>2, <2>4, <2>5 DEF Derived
  <2> QED BY <2>6 DEF e
<1>3. Sound(Entry(fn, a, b))
  BY <1>2 DEF Sound, Entry
<1> QED BY <1>1, <1>3 DEF Entry

\* What a sound frame knows.
LEMMA FrameFacts ==
    ASSUME NEW f \in Frame, Sound(f)
    PROVE  /\ f.a \in Term /\ f.b \in Term /\ f.x \in Term /\ f.y \in Term
           /\ f.n \in Nat /\ f.pc \in Pcs /\ f.fn \in Functions
           /\ f.fn \in Reducers => Equal(f.a, f.x)
           /\ f.fn \in TwoSided => Equal(f.a, f.x) /\ Equal(f.b, f.y)
           /\ f.fn \in Equalities /\ f.st = "ok" /\ f.eq => Equal(f.a, f.b)
<1>1. /\ f.a \in Term /\ f.b \in Term /\ f.x \in Term /\ f.y \in Term
      /\ f.n \in Nat /\ f.pc \in Pcs /\ f.fn \in Functions
  BY DEF Frame
<1> QED BY <1>1 DEF Sound, Derived

\* Frame g continues frame f: it keeps to what it has derived, and an answer
\* TRUE is proved.
Plain == {"whnf", "core", "defeq", "compare", "lazydelta", "lazymain"}
Continues(f, g) ==
    /\ g.fn = f.fn /\ g.a = f.a /\ g.b = f.b /\ f.fn \in Plain
    /\ Equal(f.a, g.x)
    /\ f.fn \in TwoSided => Equal(f.b, g.y)
    /\ f.fn = "core" => g.pc \notin {"major", "unfolded"}
    /\ f.fn \in Equalities /\ g.st = "ok" /\ g.eq => Equal(f.a, f.b)

\* A frame that runs on with the same terms stays sound.
LEMMA ContinuationIsSound ==
    ASSUME NEW f, NEW g, Sound(f), Continues(f, g)
    PROVE  Sound(g)
BY DEF Sound, Derived, Continues, Plain

\* The running frame may move to a place with no guarantee of its own.
LEMMA GotoContinues ==
    ASSUME StackInv, NEW g \in Frame, Continues(top, g), Goto(g)
    PROVE  StackInv'
<1>1. Sound(g)
  BY ContinuationIsSound DEF StackInv, StackOK
<1> QED BY <1>1, GotoKeeps DEF Continues

\* A return may resume the caller at such a place.
LEMMA ResumeContinues ==
    ASSUME StackInv, stack # <<>>, NEW g \in Frame, Continues(Caller, g), Resume(g)
    PROVE  StackInv'
<1>1. Sound(g)
  BY ContinuationIsSound, CallerFacts
<1> QED BY <1>1, ResumeKeeps DEF Continues

\* A call may leave the caller waiting at such a place.
LEMMA AskContinues ==
    ASSUME StackInv, NEW f \in Frame, Continues(top, f), f.st = "run",
           NEW fn \in Functions, NEW s \in Term, NEW t \in Term,
           fn = "args" => SameSpine(s, t), Calls(f, fn, s, t),
           Ask(f, Entry(fn, s, t))
    PROVE  StackInv'
<1> DEFINE g == Entry(fn, s, t)
<1>1. Sound(f)
  BY ContinuationIsSound DEF StackInv, StackOK
<1>2. g \in Frame /\ Sound(g) /\ g.fn = fn /\ g.a = s /\ g.b = t
  BY EntryIsSound
<1>3. Link(f, g)
  BY <1>2 DEF Link
<1> HIDE DEF g
<1>4. Ask(f, g)
  BY DEF g
<1> QED BY <1>1, <1>2, <1>3, <1>4, AskKeeps DEF Continues

\* An answer is sound when TRUE is proved.
LEMMA AnswerIsSound ==
    ASSUME NEW f \in Frame, Sound(f), NEW r \in BOOLEAN, r => Equal(f.a, f.b)
    PROVE  /\ Answers(f, r) \in Frame /\ Sound(Answers(f, r))
           /\ Answers(f, r).fn = f.fn /\ Answers(f, r).a = f.a /\ Answers(f, r).b = f.b
<1>1. Derived(f)
  BY DEF Sound
<1> DEFINE g == Answers(f, r)
<1>2. /\ g \in Frame
      /\ g.fn = f.fn /\ g.pc = f.pc /\ g.a = f.a /\ g.b = f.b /\ g.x = f.x /\ g.y = f.y
      /\ g.n = f.n /\ g.ls = f.ls /\ g.rs = f.rs /\ g.eq = r
  BY DEF Answers, Frame
<1> HIDE DEF g
<1>3. Derived(g)
  BY <1>1, <1>2, DerivedDependsOn
<1>4. Sound(g)
  BY <1>2, <1>3 DEF Sound
<1> QED BY <1>2, <1>4 DEF g

\* A declined frame owes nothing beyond what it has derived.
LEMMA DeclineIsSound ==
    ASSUME NEW f \in Frame, Sound(f)
    PROVE  /\ Declines(f) \in Frame /\ Sound(Declines(f))
           /\ Declines(f).fn = f.fn /\ Declines(f).a = f.a /\ Declines(f).b = f.b
<1>1. Derived(f)
  BY DEF Sound
<1> DEFINE g == Declines(f)
<1>2. /\ g \in Frame
      /\ g.fn = f.fn /\ g.pc = f.pc /\ g.a = f.a /\ g.b = f.b /\ g.x = f.x /\ g.y = f.y
      /\ g.n = f.n /\ g.ls = f.ls /\ g.rs = f.rs /\ g.st = "declined"
  BY DEF Declines, Frame
<1> HIDE DEF g
<1>3. Derived(g)
  BY <1>1, <1>2, DerivedDependsOn
<1>4. Sound(g)
  BY <1>2, <1>3 DEF Sound
<1> QED BY <1>2, <1>4 DEF g

\* The stack stays sound when the running frame or the caller it returns to
\* declines, or answers.
LEMMA GiveUpKeeps ==
    ASSUME StackInv,
           \/ Goto(Declines(top))
           \/ stack # <<>> /\ Resume(Declines(Caller))
    PROVE  StackInv'
<1>1. CASE Goto(Declines(top))
  BY <1>1, DeclineIsSound, GotoKeeps DEF StackInv, StackOK
<1>2. CASE stack # <<>> /\ Resume(Declines(Caller))
  BY <1>2, CallerFacts, DeclineIsSound, ResumeKeeps
<1> QED BY <1>1, <1>2

\* The running frame may answer: TRUE only when its two terms are equal.
LEMMA AnswerKeeps ==
    ASSUME StackInv, NEW r \in BOOLEAN,
           \/ Goto(Answers(top, r)) /\ (r => Equal(top.a, top.b))
           \/ stack # <<>> /\ Resume(Answers(Caller, r)) /\ (r => Equal(Caller.a, Caller.b))
    PROVE  StackInv'
<1>1. CASE Goto(Answers(top, r)) /\ (r => Equal(top.a, top.b))
  BY <1>1, AnswerIsSound, GotoKeeps DEF StackInv, StackOK
<1>2. CASE stack # <<>> /\ Resume(Answers(Caller, r)) /\ (r => Equal(Caller.a, Caller.b))
  BY <1>2, CallerFacts, AnswerIsSound, ResumeKeeps
<1> QED BY <1>1, <1>2

\* What the frame that returns has established about its caller's terms.
LEMMA ReturnFacts ==
    ASSUME StackInv, stack # <<>>
    PROVE  /\ Caller.fn = "whnf" => Equal(Caller.a, top.x)
           /\ Caller.fn = "core" => Equal(Major[Caller.x], top.x)
           /\ Caller.fn \in TwoSided /\ Caller.pc \in WaitsA => Equal(Caller.a, top.x)
           /\ Caller.fn \in TwoSided /\ Caller.pc \in WaitsB => Equal(Caller.b, top.x)
           /\ Caller.fn \in TwoSided /\ Caller.pc \notin WaitsA \cup WaitsB
                 /\ top.st = "ok" /\ top.eq => Equal(Caller.a, Caller.b)
<1>1. /\ Caller \in Frame /\ Sound(Caller) /\ top \in Frame /\ Sound(top)
      /\ Calls(Caller, top.fn, top.a, top.b)
  BY CallerFacts DEF Link
<1>2. /\ Caller.a \in Term /\ Caller.b \in Term /\ Major[Caller.x] \in Term
      /\ top.a \in Term /\ top.b \in Term /\ top.x \in Term
      /\ top.fn \in Reducers => Equal(top.a, top.x)
      /\ top.fn \in Equalities /\ top.st = "ok" /\ top.eq => Equal(top.a, top.b)
  BY <1>1, FrameFacts, TermParts
<1> QED BY <1>1, <1>2, EqualIsEquivalence DEF Calls

\* The components of the running frame are terms and numbers.
LEMMA TopFacts ==
    ASSUME StackInv
    PROVE  /\ top \in Frame /\ Sound(top)
           /\ top.a \in Term /\ top.b \in Term /\ top.x \in Term /\ top.y \in Term
           /\ Equal(top.a, top.a) /\ Equal(top.b, top.b)
           /\ top.fn \in Reducers => Equal(top.a, top.x)
           /\ top.fn \in TwoSided => Equal(top.a, top.x) /\ Equal(top.b, top.y)
BY FrameFacts, EqualIsEquivalence DEF StackInv, StackOK

\* The components of the caller are terms and numbers.
LEMMA CallerTerms ==
    ASSUME StackInv, stack # <<>>
    PROVE  /\ Caller \in Frame /\ Caller.st = "run"
           /\ Caller.a \in Term /\ Caller.b \in Term /\ Caller.x \in Term /\ Caller.y \in Term
           /\ Equal(Caller.a, Caller.a) /\ Equal(Caller.b, Caller.b)
           /\ Caller.fn \in Reducers => Equal(Caller.a, Caller.x)
           /\ Caller.fn \in TwoSided => Equal(Caller.a, Caller.x) /\ Equal(Caller.b, Caller.y)
BY CallerFacts, FrameFacts, EqualIsEquivalence

-----------------------------------------------------------------------------
(* whnf *)

\* whnf's guard and cache: a cached normal form equals its term.
LEMMA WhnfEnterKeeps ==
    ASSUME ConversionInv, WhnfEnter
    PROVE  StackInv'
<1>0. StackInv /\ top.fn = "whnf" /\ top.st = "run"
  BY DEF ConversionInv, WhnfEnter, At
<1>1. CASE Goto(Declines(top))
  BY <1>0, <1>1, GiveUpKeeps
<1>2. CASE top.a \in DOMAIN whnfCache /\ Goto(Reduces(top, whnfCache[top.a]))
  <2> DEFINE g == Reduces(top, whnfCache[top.a])
  <2>1. whnfCache[top.a] \in Term /\ Equal(top.a, whnfCache[top.a])
    BY <1>2 DEF ConversionInv, TypeOK, CachesAreSound, Equal
  <2>2. g \in Frame /\ Continues(top, g)
    BY <1>0, <2>1, TopFacts DEF Reduces, Frame, Continues, Plain
  <2> QED BY <1>0, <1>2, <2>2, GotoContinues
<1>3. CASE Ask([top EXCEPT !.pc = "core"], Entry("core", top.a, top.a))
  <2> DEFINE f == [top EXCEPT !.pc = "core"]
  <2>1. f \in Frame /\ f.st = "run" /\ Continues(top, f) /\ Calls(f, "core", top.a, top.a)
    BY <1>0, TopFacts DEF Frame, Pcs, Continues, Plain, Calls
  <2>2. "core" \in Functions
    BY DEF Functions
  <2> QED BY <1>0, <1>3, <2>1, <2>2, TopFacts, AskContinues
<1> QED BY <1>1, <1>2, <1>3 DEF WhnfEnter, FreshDecline

\* The loop of whnf_inner goes on from an equal term.
LEMMA WhnfLoopKeeps ==
    ASSUME ConversionInv, WhnfLoop
    PROVE  StackInv'
<1>0. StackInv /\ stack # <<>> /\ Caller.fn = "whnf"
  BY DEF ConversionInv, WhnfLoop, Returned
<1>1. Equal(Caller.a, top.x) /\ top.x \in Term
  BY <1>0, ReturnFacts, TopFacts
<1>2. CASE /\ EagerUnfolds(top.x)
           /\ Resume([Caller EXCEPT !.x = Step[top.x], !.pc = "again"])
  <2> DEFINE g == [Caller EXCEPT !.x = Step[top.x], !.pc = "again"]
  <2>1. Step[top.x] \in Term /\ Equal(Caller.a, Step[top.x])
    BY <1>0, <1>1, <1>2, CallerTerms, StepIsEqual, TermParts, EqualIsEquivalence
       DEF EagerUnfolds
  <2>2. g \in Frame /\ Continues(Caller, g)
    BY <1>0, <2>1, CallerTerms DEF Frame, Pcs, Continues, Plain
  <2> QED BY <1>0, <1>2, <2>2, ResumeContinues
<1>3. CASE Resume([Caller EXCEPT !.x = top.x, !.pc = "done"])
  <2> DEFINE g == [Caller EXCEPT !.x = top.x, !.pc = "done"]
  <2>1. g \in Frame /\ Continues(Caller, g)
    BY <1>0, <1>1, CallerTerms DEF Frame, Pcs, Continues, Plain
  <2> QED BY <1>0, <1>3, <2>1, ResumeContinues
<1> QED BY <1>2, <1>3 DEF WhnfLoop

\* whnf calls whnf_core again, on an equal term.
LEMMA WhnfAgainKeeps ==
    ASSUME ConversionInv, WhnfAgain
    PROVE  StackInv'
<1> DEFINE f == [top EXCEPT !.pc = "core"]
<1>0. StackInv /\ top.fn = "whnf" /\ top.st = "run"
  BY DEF ConversionInv, WhnfAgain, At
<1>1. f \in Frame /\ f.st = "run" /\ Continues(top, f) /\ Calls(f, "core", top.x, top.x)
  BY <1>0, TopFacts DEF Frame, Pcs, Continues, Plain, Calls
<1>2. "core" \in Functions
  BY DEF Functions
<1> QED BY <1>0, <1>1, <1>2, TopFacts, AskContinues DEF WhnfAgain

\* whnf returns an equal term, or declines.
LEMMA WhnfDoneKeeps ==
    ASSUME ConversionInv, WhnfDone
    PROVE  StackInv' /\ CachesAreSound'
<1> DEFINE g == Reduces(top, top.x)
<1>0. /\ StackInv /\ TypeOK /\ CachesAreSound /\ top.fn = "whnf"
      /\ Goto(Declines(top)) \/ Goto(g)
  BY DEF ConversionInv, WhnfDone, At, FreshDecline
<1>1. top.a \in Term /\ top.x \in Term /\ Equal(top.a, top.x)
  BY <1>0, TopFacts
<1>2. g \in Frame /\ Continues(top, g)
  BY <1>0, TopFacts DEF Reduces, Frame, Continues, Plain
<1>3. StackInv'
  BY <1>0, <1>2, GiveUpKeeps, GotoContinues
<1>4. /\ whnfCache' = whnfCache \/ whnfCache' = Memo(whnfCache, top.a, top.x)
      /\ coreCache' = coreCache /\ defeqCache' = defeqCache
  BY DEF WhnfDone
<1>5. \A t \in DOMAIN whnfCache' : <<t, whnfCache'[t]>> \in Conv
  BY <1>0, <1>1, <1>4 DEF CachesAreSound, Memo, Equal
<1>6. CachesAreSound'
  BY <1>0, <1>4, <1>5 DEF CachesAreSound
<1> QED BY <1>3, <1>6

\* A caller that passes a decline on.
LEMMA PassDeclineKeeps ==
    ASSUME StackInv, stack # <<>>, PassDecline
    PROVE  StackInv'
BY GiveUpKeeps DEF PassDecline

-----------------------------------------------------------------------------
(* whnf_core *)

\* whnf_core's guard and cache return an equal term.
LEMMA CoreEnterKeeps ==
    ASSUME ConversionInv, CoreEnter
    PROVE  StackInv'
<1>0. StackInv /\ top.fn = "core" /\ top.st = "run"
  BY DEF ConversionInv, CoreEnter, At
<1>1. CASE Goto(Declines(top))
  BY <1>0, <1>1, GiveUpKeeps
<1>2. CASE Goto(Reduces(top, top.a))
  <2> DEFINE g == Reduces(top, top.a)
  <2>1. g \in Frame /\ Continues(top, g)
    BY <1>0, TopFacts DEF Reduces, Frame, Continues, Plain, CoreEnter, At
  <2> QED BY <1>0, <1>2, <2>1, GotoContinues
<1>3. CASE top.a \in DOMAIN coreCache /\ Goto(Reduces(top, coreCache[top.a]))
  <2> DEFINE g == Reduces(top, coreCache[top.a])
  <2>1. coreCache[top.a] \in Term /\ Equal(top.a, coreCache[top.a])
    BY <1>3 DEF ConversionInv, TypeOK, CachesAreSound, Equal
  <2>2. g \in Frame /\ Continues(top, g)
    BY <1>0, <2>1, TopFacts DEF Reduces, Frame, Continues, Plain, CoreEnter, At
  <2> QED BY <1>0, <1>3, <2>2, GotoContinues
<1>4. CASE Goto([top EXCEPT !.pc = "go"])
  <2> DEFINE g == [top EXCEPT !.pc = "go"]
  <2>1. g \in Frame /\ Continues(top, g)
    BY <1>0, TopFacts DEF Frame, Pcs, Continues, Plain
  <2> QED BY <1>0, <1>4, <2>1, GotoContinues
<1> QED BY <1>1, <1>2, <1>3, <1>4 DEF CoreEnter, FreshDecline

\* A beta or zeta step yields an equal term.
LEMMA CoreBetaKeeps ==
    ASSUME ConversionInv, CoreBeta
    PROVE  StackInv'
<1> DEFINE g == [top EXCEPT !.x = Step[top.x]]
<1>0. StackInv /\ top.fn = "core" /\ top.pc = "go" /\ top.st = "run"
  BY DEF ConversionInv, CoreBeta, At
<1>1. Step[top.x] \in Term /\ Equal(top.a, Step[top.x])
  BY <1>0, TopFacts, StepIsEqual, TermParts, EqualIsEquivalence DEF CoreBeta
<1>2. g \in Frame /\ Continues(top, g)
  BY <1>0, <1>1, TopFacts DEF Frame, Continues, Plain
<1> QED BY <1>0, <1>2, GotoContinues DEF CoreBeta

\* The frame of a recursor or projection that waits for its major premise.
LEMMA MajorIsSound ==
    ASSUME NEW f \in Frame, f.fn = "core", f.st = "run", Equal(f.a, f.x),
           f.pc \in {"major", "unfolded"}, Shape[f.x] \in {"proj", "rec"},
           f.pc = "unfolded" => Equal(Major[f.x], f.y)
    PROVE  Sound(f)
BY DEF Sound, Derived

\* whnf_core asks for its major premise.
LEMMA CoreMajorKeeps ==
    ASSUME ConversionInv, CoreMajor
    PROVE  StackInv'
<1> DEFINE f == [top EXCEPT !.pc = "major"]
           m == Major[top.x]
           g == Entry(IF Shape[top.x] = "proj" THEN "whnf" ELSE "core", m, m)
<1>0. StackInv /\ top.fn = "core" /\ top.st = "run" /\ Shape[top.x] \in {"proj", "rec"}
  BY DEF ConversionInv, CoreMajor, At
<1>1. /\ f \in Frame /\ f.st = "run" /\ f.fn = "core" /\ f.a = top.a /\ f.b = top.b
      /\ f.x = top.x /\ f.pc = "major"
  BY <1>0, TopFacts DEF Frame, Pcs
<1>2. Sound(f)
  BY <1>0, <1>1, TopFacts, MajorIsSound
<1>3. m \in Term /\ Equal(m, m)
  BY <1>0, TopFacts, TermParts, EqualIsEquivalence
<1>4. g \in Frame /\ Sound(g) /\ g.fn \in Reducers /\ g.a = m
  BY <1>3, EntryIsSound DEF Functions
<1>5. Link(f, g)
  BY <1>1, <1>3, <1>4 DEF Link, Calls
<1>6. Ask(f, g)
  BY DEF CoreMajor
<1> HIDE DEF f, g
<1> QED BY <1>0, <1>1, <1>2, <1>4, <1>5, <1>6, AskKeeps

\* What a core frame that waits for its major premise knows.
LEMMA MajorFacts ==
    ASSUME StackInv, stack # <<>>, Caller.fn = "core", Caller.pc = "major"
    PROVE  /\ Shape[Caller.x] \in {"proj", "rec"}
           /\ top.x \in Term /\ Equal(Major[Caller.x], top.x)
BY CallerFacts, ReturnFacts, TopFacts DEF Sound

\* The major premise is unfolded to an equal term.
LEMMA CoreMajorUnfoldsKeeps ==
    ASSUME ConversionInv, CoreMajorUnfolds
    PROVE  StackInv'
<1> DEFINE g == [Caller EXCEPT !.y = Step[top.x], !.pc = "unfolded"]
<1>0. /\ StackInv /\ stack # <<>> /\ Caller.fn = "core" /\ Caller.pc = "major"
      /\ Shape[top.x] = "def" /\ Resume(g)
  BY DEF ConversionInv, CoreMajorUnfolds, Returned
<1>1. Step[top.x] \in Term /\ Equal(Major[Caller.x], Step[top.x])
  BY <1>0, MajorFacts, CallerTerms, StepIsEqual, TermParts, EqualIsEquivalence
<1>2. /\ g \in Frame /\ g.st = "run" /\ g.fn = "core" /\ g.a = Caller.a /\ g.b = Caller.b
      /\ g.x = Caller.x /\ g.pc = "unfolded" /\ g.y = Step[top.x]
  BY <1>0, <1>1, CallerTerms DEF Frame, Pcs
<1>3. Sound(g)
  BY <1>0, <1>1, <1>2, CallerTerms, MajorFacts, MajorIsSound
<1> HIDE DEF g
<1> QED BY <1>0, <1>2, <1>3, ResumeKeeps

\* whnf_major asks whnf_core again.
LEMMA CoreMajorAgainKeeps ==
    ASSUME ConversionInv, CoreMajorAgain
    PROVE  StackInv'
<1> DEFINE f == [top EXCEPT !.pc = "major"]
           g == Entry("core", top.y, top.y)
<1>0. /\ StackInv /\ top.fn = "core" /\ top.pc = "unfolded" /\ top.st = "run" /\ Ask(f, g)
  BY DEF ConversionInv, CoreMajorAgain, At
<1>1. Shape[top.x] \in {"proj", "rec"} /\ Equal(Major[top.x], top.y)
  BY <1>0, TopFacts DEF Sound
<1>2. /\ f \in Frame /\ f.st = "run" /\ f.fn = "core" /\ f.a = top.a /\ f.b = top.b
      /\ f.x = top.x /\ f.pc = "major"
  BY <1>0, TopFacts DEF Frame, Pcs
<1>3. Sound(f)
  BY <1>0, <1>1, <1>2, TopFacts, MajorIsSound
<1>4. g \in Frame /\ Sound(g) /\ g.fn = "core" /\ g.a = top.y
  BY <1>0, TopFacts, EntryIsSound DEF Functions
<1>5. Link(f, g)
  BY <1>1, <1>2, <1>4 DEF Link, Calls
<1> HIDE DEF f, g
<1> QED BY <1>0, <1>2, <1>3, <1>4, <1>5, AskKeeps

\* A contraction by a constructor equal to the major premise.
LEMMA CoreMajorDoneKeeps ==
    ASSUME ConversionInv, CoreMajorDone
    PROVE  StackInv'
<1>0. StackInv /\ stack # <<>> /\ Caller.fn = "core" /\ Caller.pc = "major"
  BY DEF ConversionInv, CoreMajorDone, Returned
<1>1. CASE /\ top.x \in Canonical
           /\ Resume([Caller EXCEPT !.x = Step[Caller.x], !.pc = "go"])
  <2> DEFINE g == [Caller EXCEPT !.x = Step[Caller.x], !.pc = "go"]
  <2>1. Step[Caller.x] \in Term /\ Equal(Caller.x, Step[Caller.x])
    BY <1>0, <1>1, MajorFacts, CallerTerms, StepIsEqual, TermParts
  <2>2. Equal(Caller.a, Step[Caller.x])
    BY <1>0, <2>1, CallerTerms, EqualIsEquivalence
  <2>3. g \in Frame /\ Continues(Caller, g)
    BY <1>0, <2>1, <2>2, CallerTerms DEF Frame, Pcs, Continues, Plain
  <2> QED BY <1>0, <1>1, <2>3, ResumeContinues
<1>2. CASE Resume([Caller EXCEPT !.pc = "stuck"])
  <2> DEFINE g == [Caller EXCEPT !.pc = "stuck"]
  <2>1. g \in Frame /\ Continues(Caller, g)
    BY <1>0, CallerTerms DEF Frame, Pcs, Continues, Plain
  <2> QED BY <1>0, <1>2, <2>1, ResumeContinues
<1> QED BY <1>1, <1>2 DEF CoreMajorDone

\* whnf_core returns the equal term it has reached.
LEMMA CoreDoneKeeps ==
    ASSUME ConversionInv, CoreDone
    PROVE  StackInv' /\ CachesAreSound'
<1> DEFINE g == Reduces(top, top.x)
<1>0. /\ StackInv /\ TypeOK /\ CachesAreSound /\ top.fn = "core" /\ Goto(g)
      /\ top.pc \in {"stuck", "go"}
  BY DEF ConversionInv, CoreDone
<1>1. top.a \in Term /\ top.x \in Term /\ Equal(top.a, top.x)
  BY <1>0, TopFacts
<1>2. g \in Frame /\ Continues(top, g)
  BY <1>0, TopFacts DEF Reduces, Frame, Continues, Plain
<1>3. StackInv'
  BY <1>0, <1>2, GotoContinues
<1>4. /\ coreCache' = Memo(coreCache, top.a, top.x)
      /\ whnfCache' = whnfCache /\ defeqCache' = defeqCache
  BY DEF CoreDone
<1>5. \A t \in DOMAIN coreCache' : <<t, coreCache'[t]>> \in Conv
  BY <1>0, <1>1, <1>4 DEF CachesAreSound, Memo, Equal
<1>6. CachesAreSound'
  BY <1>0, <1>4, <1>5 DEF CachesAreSound
<1> QED BY <1>3, <1>6

-----------------------------------------------------------------------------
(* pairwise_args *)

\* A spine frame that goes on to the next argument, or waits for one.
LEMMA SpineIsSound ==
    ASSUME NEW f \in Frame, f.fn = "args", f.st = "run", SpineSoFar(f)
    PROVE  Sound(f)
BY DEF Sound, Derived

\* pairwise_args answers at the end of equal spines, or asks the next pair.
LEMMA ArgsNextKeeps ==
    ASSUME ConversionInv, ArgsNext
    PROVE  StackInv'
<1>0. /\ StackInv /\ top.fn = "args" /\ top.st = "run" /\ SpineSoFar(top) /\ top.n \in Nat
  BY FrameFacts DEF ConversionInv, ArgsNext, At, StackInv, StackOK, Sound, Derived
<1>1. /\ top.a \in Term /\ top.b \in Term
      /\ Len(Args[top.a]) \in Nat /\ Len(Args[top.a]) = Len(Args[top.b])
  BY <1>0, TopFacts, TermParts DEF SpineSoFar, SameSpine
<1>2. CASE top.n = Len(Args[top.a]) /\ Goto(Answers(top, TRUE))
  <2>1. \A i \in 1..Len(Args[top.a]) : Equal(Args[top.a][i], Args[top.b][i])
    BY <1>0, <1>2 DEF SpineSoFar
  <2>2. DOMAIN Args[top.a] = 1..Len(Args[top.a])
    BY <1>1, TermsAssumption
  <2>3. Equal(top.a, top.b)
    BY <1>0, <1>1, <2>1, <2>2, ConvAssumption DEF Equal, SpineSoFar
  <2> QED BY <1>0, <1>2, <2>3, AnswerKeeps
<1>3. CASE /\ top.n # Len(Args[top.a])
           /\ Ask([top EXCEPT !.pc = "arg"],
                  Entry("defeq", Args[top.a][top.n + 1], Args[top.b][top.n + 1]))
  <2> DEFINE f == [top EXCEPT !.pc = "arg"]
             s == Args[top.a][top.n + 1]
             t == Args[top.b][top.n + 1]
             g == Entry("defeq", s, t)
  <2>1. /\ f \in Frame /\ f.st = "run" /\ f.fn = "args" /\ f.a = top.a /\ f.b = top.b
        /\ f.n = top.n
    BY <1>0, TopFacts DEF Frame, Pcs
  <2>2. Sound(f)
    BY <1>0, <2>1, SpineIsSound DEF SpineSoFar
  <2>3. top.n < Len(Args[top.a]) /\ s \in Term /\ t \in Term
    BY <1>0, <1>1, <1>3, TermParts DEF SpineSoFar
  <2>4. g \in Frame /\ Sound(g) /\ g.fn = "defeq" /\ g.a = s /\ g.b = t
    BY <2>3, EntryIsSound DEF Functions
  <2>5. Link(f, g)
    BY <2>1, <2>3, <2>4 DEF Link, Calls
  <2>6. Ask(f, g)
    BY <1>3
  <2> HIDE DEF f, g
  <2> QED BY <1>0, <2>1, <2>2, <2>4, <2>5, <2>6, AskKeeps
<1> QED BY <1>2, <1>3 DEF ArgsNext

\* An equal argument extends the equal prefix of the spines.
LEMMA ArgsReturnKeeps ==
    ASSUME ConversionInv, ArgsReturn
    PROVE  StackInv'
<1>0. StackInv /\ stack # <<>> /\ Caller.fn = "args" /\ top.st = "ok"
  BY DEF ConversionInv, ArgsReturn, Returned, Ok
<1>1. CASE Resume(Answers(Caller, FALSE))
  BY <1>0, <1>1, AnswerKeeps
<1>2. CASE top.eq /\ Resume([Caller EXCEPT !.n = @ + 1, !.pc = "enter"])
  <2> DEFINE g == [Caller EXCEPT !.n = @ + 1, !.pc = "enter"]
  <2>1. /\ SpineSoFar(Caller) /\ Caller.n \in Nat /\ Len(Args[Caller.a]) \in Nat
        /\ Caller \in Frame /\ Caller.st = "run"
    BY <1>0, CallerFacts, FrameFacts, TermParts DEF Sound, Derived
  <2>2. /\ top.fn \in Equalities /\ Caller.n < Len(Args[Caller.a])
        /\ top.a = Args[Caller.a][Caller.n + 1] /\ top.b = Args[Caller.b][Caller.n + 1]
    BY <1>0, CallerFacts DEF Link, Calls
  <2>3. Equal(Args[Caller.a][Caller.n + 1], Args[Caller.b][Caller.n + 1])
    BY <1>0, <1>2, <2>2, CallerFacts, FrameFacts
  <2>4. /\ g \in Frame /\ g.st = "run" /\ g.fn = "args" /\ g.a = Caller.a /\ g.b = Caller.b
        /\ g.n = Caller.n + 1
    <3> DEFINE m == Caller.n + 1
    <3>1. m \in Nat /\ "enter" \in Pcs
      BY <2>1 DEF Pcs
    <3> HIDE DEF m
    <3>2. [Caller EXCEPT !.n = m, !.pc = "enter"] \in Frame
      BY <2>1, <3>1 DEF Frame
    <3>3. g = [Caller EXCEPT !.n = m, !.pc = "enter"]
      BY <2>1 DEF m, Frame
    <3> HIDE DEF g
    <3> QED BY <1>0, <2>1, <3>1, <3>2, <3>3 DEF m, Frame
  <2>5. \A i \in 1..Caller.n + 1 : Equal(Args[Caller.a][i], Args[Caller.b][i])
    <3> TAKE i \in 1..Caller.n + 1
    <3>1. i \in 1..Caller.n \/ i = Caller.n + 1
      BY <2>1
    <3> QED BY <2>1, <2>3, <3>1 DEF SpineSoFar
  <2> HIDE DEF g
  <2>6. SpineSoFar(g)
    BY <2>1, <2>2, <2>4, <2>5 DEF SpineSoFar
  <2>7. Resume(g)
    BY <1>2 DEF g
  <2> QED BY <1>0, <2>4, <2>6, <2>7, SpineIsSound, ResumeKeeps
<1> QED BY <1>1, <1>2 DEF ArgsReturn

-----------------------------------------------------------------------------
(* is_def_eq: the speculative attempts *)

\* is_def_eq's guard and memo: identical terms and memoised equalities.
LEMMA DefeqEnterKeeps ==
    ASSUME ConversionInv, DefeqEnter
    PROVE  StackInv'
<1>0. StackInv /\ top.fn = "defeq" /\ top.st = "run"
  BY DEF ConversionInv, DefeqEnter, At
<1>1. CASE Goto(Declines(top))
  BY <1>0, <1>1, GiveUpKeeps
<1>2. CASE top.a = top.b /\ Goto(Answers(top, TRUE))
  BY <1>0, <1>2, TopFacts, AnswerKeeps
<1>3. CASE /\ Pair(top.a, top.b) \in DOMAIN defeqCache
           /\ Goto(Answers(top, defeqCache[Pair(top.a, top.b)]))
  <2> DEFINE r == defeqCache[Pair(top.a, top.b)]
  <2>1. r \in BOOLEAN
    BY <1>3 DEF ConversionInv, TypeOK
  <2>2. r => Equal(top.a, top.b)
    BY <1>3 DEF ConversionInv, CachesAreSound, Pair, Equal
  <2> QED BY <1>0, <1>3, <2>1, <2>2, AnswerKeeps
<1>4. CASE Goto([top EXCEPT !.outer = ~speculating, !.abort0 = coreAborted, !.pc = "raw"])
  <2> DEFINE o == ~speculating
             g == [top EXCEPT !.outer = o, !.abort0 = coreAborted, !.pc = "raw"]
  <2>1. coreAborted \in BOOLEAN /\ o \in BOOLEAN /\ "raw" \in Pcs
    BY DEF ConversionInv, TypeOK, Pcs
  <2>2. Goto(g)
    BY <1>4
  <2> HIDE DEF o
  <2>3. g \in Frame
    BY <1>0, <2>1, TopFacts DEF Frame
  <2>4. Continues(top, g)
    BY <1>0, TopFacts DEF Frame, Continues, Plain
  <2> QED BY <1>0, <2>2, <2>3, <2>4, GotoContinues
<1> QED BY <1>1, <1>2, <1>3, <1>4 DEF DefeqEnter, FreshDecline

\* The first speculative attempt: congruence of the given terms.
LEMMA SpecRawKeeps ==
    ASSUME ConversionInv, SpecRaw
    PROVE  StackInv'
<1>0. StackInv /\ top.fn = "defeq" /\ top.st = "run"
  BY DEF ConversionInv, SpecRaw, At
<1>1. CASE SameSpine(top.a, top.b) /\ Ask([top EXCEPT !.pc = "spec"], Entry("args", top.a, top.b))
  <2> DEFINE f == [top EXCEPT !.pc = "spec"]
  <2>1. f \in Frame /\ f.st = "run" /\ Continues(top, f)
    BY <1>0, TopFacts DEF Frame, Pcs, Continues, Plain
  <2>2. "args" \in Functions /\ Calls(f, "args", top.a, top.b)
    BY <1>0, TopFacts DEF Functions, Frame, Calls, WaitsA, WaitsB
  <2> QED BY <1>0, <1>1, <2>1, <2>2, TopFacts, AskContinues
<1>2. CASE Goto([top EXCEPT !.pc = "coreA"])
  <2> DEFINE g == [top EXCEPT !.pc = "coreA"]
  <2>1. g \in Frame /\ Continues(top, g)
    BY <1>0, TopFacts DEF Frame, Pcs, Continues, Plain
  <2> QED BY <1>0, <1>2, <2>1, GotoContinues
<1> QED BY <1>1, <1>2 DEF SpecRaw

\* Speculation asks the core normal forms of both sides.
LEMMA SpecCoreKeeps ==
    ASSUME ConversionInv, SpecCore
    PROVE  StackInv'
<1>0. StackInv /\ top.fn = "defeq" /\ top.st = "run"
  BY DEF ConversionInv, SpecCore, At
<1>1. CASE Ask([top EXCEPT !.pc = "gotA"], Entry("core", top.a, top.a))
  <2> DEFINE f == [top EXCEPT !.pc = "gotA"]
  <2>1. f \in Frame /\ f.st = "run" /\ Continues(top, f)
    BY <1>0, TopFacts DEF Frame, Pcs, Continues, Plain
  <2>2. "core" \in Functions /\ Calls(f, "core", top.a, top.a)
    BY <1>0, TopFacts DEF Functions, Frame, Calls, WaitsA, WaitsB
  <2> QED BY <1>0, <1>1, <2>1, <2>2, TopFacts, AskContinues
<1>2. CASE Ask([top EXCEPT !.pc = "gotB"], Entry("core", top.b, top.b))
  <2> DEFINE f == [top EXCEPT !.pc = "gotB"]
  <2>1. f \in Frame /\ f.st = "run" /\ Continues(top, f)
    BY <1>0, TopFacts DEF Frame, Pcs, Continues, Plain
  <2>2. "core" \in Functions /\ Calls(f, "core", top.b, top.b)
    BY <1>0, TopFacts DEF Functions, Frame, Calls, WaitsA, WaitsB
  <2> QED BY <1>0, <1>2, <2>1, <2>2, TopFacts, AskContinues
<1> QED BY <1>1, <1>2 DEF SpecCore

\* The second speculative attempt: congruence of the core normal forms.
LEMMA SpecCongKeeps ==
    ASSUME ConversionInv, SpecCong
    PROVE  StackInv'
<1>0. StackInv /\ top.fn = "defeq" /\ top.st = "run"
  BY DEF ConversionInv, SpecCong, At
<1>1. CASE SameSpine(top.x, top.y) /\ Ask([top EXCEPT !.pc = "speccong"], Entry("args", top.x, top.y))
  <2> DEFINE f == [top EXCEPT !.pc = "speccong"]
  <2>1. f \in Frame /\ f.st = "run" /\ Continues(top, f)
    BY <1>0, TopFacts DEF Frame, Pcs, Continues, Plain
  <2>2. "args" \in Functions /\ Calls(f, "args", top.x, top.y)
    BY <1>0, TopFacts DEF Functions, Frame, Calls, WaitsA, WaitsB
  <2> QED BY <1>0, <1>1, <2>1, <2>2, TopFacts, AskContinues
<1>2. CASE Goto([top EXCEPT !.pc = "delta"])
  <2> DEFINE g == [top EXCEPT !.pc = "delta"]
  <2>1. g \in Frame /\ Continues(top, g)
    BY <1>0, TopFacts DEF Frame, Pcs, Continues, Plain
  <2> QED BY <1>0, <1>2, <2>1, GotoContinues
<1> QED BY <1>1, <1>2 DEF SpecCong

\* The third speculative attempt: lazy delta.
LEMMA SpecDeltaKeeps ==
    ASSUME ConversionInv, SpecDelta
    PROVE  StackInv'
<1>0. StackInv /\ top.fn = "defeq" /\ top.st = "run"
  BY DEF ConversionInv, SpecDelta, At
<1>1. Ask([top EXCEPT !.pc = "specdelta"], Entry("lazydelta", top.x, top.y))
  BY DEF SpecDelta
<1>2. StackInv'
  <2> DEFINE f == [top EXCEPT !.pc = "specdelta"]
  <2>1. f \in Frame /\ f.st = "run" /\ Continues(top, f)
    BY <1>0, TopFacts DEF Frame, Pcs, Continues, Plain
  <2>2. "lazydelta" \in Functions /\ Calls(f, "lazydelta", top.x, top.y)
    BY <1>0, TopFacts DEF Functions, Frame, Calls, WaitsA, WaitsB
  <2> QED BY <1>0, <1>1, <2>1, <2>2, TopFacts, AskContinues
<1> QED BY <1>2

\* A failed attempt leaves both sides as they were, or core-normal.
LEMMA SpecFailsKeeps ==
    ASSUME ConversionInv, SpecFails
    PROVE  StackInv'
<1>0. StackInv /\ stack # <<>> /\ Caller.fn = "defeq"
  BY DEF ConversionInv, SpecFails
<1>1. CASE Resume([Caller EXCEPT !.pc = "coreA"])
  <2> DEFINE g == [Caller EXCEPT !.pc = "coreA"]
  <2>1. g \in Frame /\ Continues(Caller, g)
    BY <1>0, CallerTerms DEF Frame, Pcs, Continues, Plain
  <2> QED BY <1>0, <1>1, <2>1, ResumeContinues
<1>2. CASE Caller.pc = "gotA" /\ Resume([Caller EXCEPT !.x = top.x, !.pc = "coreB"])
  <2> DEFINE g == [Caller EXCEPT !.x = top.x, !.pc = "coreB"]
  <2>1. "coreB" \in Pcs /\ top.x \in Term /\ Equal(Caller.a, top.x)
    BY <1>0, CallerTerms, <1>2, ReturnFacts, TopFacts DEF Pcs, WaitsA
  <2>2. g \in Frame
    BY <1>0, <2>1, CallerTerms DEF Frame
  <2>3. Continues(Caller, g)
    BY <1>0, <2>1, CallerTerms DEF Frame, Continues, Plain
  <2> QED BY <1>0, <1>2, <2>2, <2>3, ResumeContinues
<1>3. CASE Caller.pc = "gotB" /\ Resume([Caller EXCEPT !.y = top.x, !.pc = "cong"])
  <2> DEFINE g == [Caller EXCEPT !.y = top.x, !.pc = "cong"]
  <2>1. "cong" \in Pcs /\ top.x \in Term /\ Equal(Caller.b, top.x)
    BY <1>0, CallerTerms, <1>3, ReturnFacts, TopFacts DEF Pcs, WaitsB
  <2>2. g \in Frame
    BY <1>0, <2>1, CallerTerms DEF Frame
  <2>3. Continues(Caller, g)
    BY <1>0, <2>1, CallerTerms DEF Frame, Continues, Plain
  <2> QED BY <1>0, <1>3, <2>2, <2>3, ResumeContinues
<1>4. CASE Resume([Caller EXCEPT !.pc = "delta"])
  <2> DEFINE g == [Caller EXCEPT !.pc = "delta"]
  <2>1. g \in Frame /\ Continues(Caller, g)
    BY <1>0, CallerTerms DEF Frame, Pcs, Continues, Plain
  <2> QED BY <1>0, <1>4, <2>1, ResumeContinues
<1> QED BY <1>1, <1>2, <1>3, <1>4 DEF SpecFails

\* A memoised comparison is sound when TRUE is proved.
LEMMA MemoKeeps ==
    ASSUME StackInv, CachesAreSound, stack # <<>>, NEW r \in BOOLEAN, r => Equal(Caller.a, Caller.b),
           whnfCache' = whnfCache, coreCache' = coreCache,
           \/ defeqCache' = defeqCache
           \/ defeqCache' = Memo(defeqCache, Pair(Caller.a, Caller.b), r)
    PROVE  CachesAreSound'
<1>1. Caller.a \in Term /\ Caller.b \in Term /\ Equal(Caller.a, Caller.a) /\ Equal(Caller.b, Caller.b)
  BY CallerTerms
<1>2. r => \A s, t \in Pair(Caller.a, Caller.b) : Equal(s, t)
  BY <1>1, EqualIsEquivalence DEF Pair
<1>3. \A k \in DOMAIN defeqCache' : defeqCache'[k] => \A s, t \in k : <<s, t>> \in Conv
  BY <1>2 DEF CachesAreSound, Memo, Equal
<1> QED BY <1>3 DEF CachesAreSound

\* A proof by speculation is a proof of the terms given.
LEMMA SpecProvesKeeps ==
    ASSUME ConversionInv, SpecProves
    PROVE  StackInv' /\ CachesAreSound'
<1>0. StackInv /\ CachesAreSound /\ stack # <<>> /\ Caller.fn = "defeq"
  BY DEF ConversionInv, SpecProves
<1>1. Equal(Caller.a, Caller.b)
  BY <1>0, ReturnFacts DEF SpecProves, Ok, WaitsA, WaitsB
<1>2. StackInv'
  BY <1>0, <1>1, AnswerKeeps DEF SpecProves
<1>3. CachesAreSound'
  BY <1>0, <1>1, MemoKeeps DEF SpecProves
<1> QED BY <1>2, <1>3

\* The main path starts from the terms given.
LEMMA SpecExhaustedKeeps ==
    ASSUME ConversionInv, SpecExhausted
    PROVE  StackInv'
<1>0. StackInv /\ stack # <<>> /\ Caller.fn = "defeq"
  BY DEF ConversionInv, SpecExhausted, Returned
<1>1. Resume([Caller EXCEPT !.x = Caller.a, !.y = Caller.b, !.pc = "main"])
  BY DEF SpecExhausted
<1>2. StackInv'
  <2> DEFINE g == [Caller EXCEPT !.x = Caller.a, !.y = Caller.b, !.pc = "main"]
  <2>1. "main" \in Pcs
    BY <1>0, CallerTerms DEF Pcs
  <2>2. g \in Frame
    BY <1>0, <2>1, CallerTerms DEF Frame
  <2>3. Continues(Caller, g)
    BY <1>0, <2>1, CallerTerms DEF Frame, Continues, Plain
  <2> QED BY <1>0, <1>1, <2>2, <2>3, ResumeContinues
<1> QED BY <1>2

\* A decline in speculation claims nothing.
LEMMA SpecDeclinesKeeps ==
    ASSUME ConversionInv, SpecDeclines
    PROVE  StackInv'
<1>0. StackInv /\ stack # <<>> /\ Caller.fn = "defeq"
  BY DEF ConversionInv, SpecDeclines
<1>1. CASE Resume(Declines(Caller))
  BY <1>0, <1>1, GiveUpKeeps
<1>2. CASE Resume([Caller EXCEPT !.x = Caller.a, !.y = Caller.b, !.declined = TRUE, !.pc = "main"])
  <2> DEFINE g == [Caller EXCEPT !.x = Caller.a, !.y = Caller.b, !.declined = TRUE, !.pc = "main"]
  <2>1. "main" \in Pcs
    BY <1>0, CallerTerms DEF Pcs
  <2>2. g \in Frame
    BY <1>0, <2>1, CallerTerms DEF Frame
  <2>3. Continues(Caller, g)
    BY <1>0, <2>1, CallerTerms DEF Frame, Continues, Plain
  <2> QED BY <1>0, <1>2, <2>2, <2>3, ResumeContinues
<1> QED BY <1>1, <1>2 DEF SpecDeclines

-----------------------------------------------------------------------------
(* is_def_eq: main path, verdict and last resort *)

\* The main path of either mode asks about equal terms.
LEMMA MainPathKeeps ==
    ASSUME ConversionInv, MainPath
    PROVE  StackInv'
<1>0. StackInv /\ top.fn = "defeq" /\ top.st = "run"
  BY DEF ConversionInv, MainPath, At
<1>1. CASE Ask([top EXCEPT !.pc = "verdict"], Entry("lazymain", top.a, top.b))
  <2> DEFINE f == [top EXCEPT !.pc = "verdict"]
  <2>1. f \in Frame /\ f.st = "run" /\ Continues(top, f)
    BY <1>0, TopFacts DEF Frame, Pcs, Continues, Plain
  <2>2. "lazymain" \in Functions /\ Calls(f, "lazymain", top.a, top.b)
    BY <1>0, TopFacts DEF Functions, Frame, Calls, WaitsA, WaitsB
  <2> QED BY <1>0, <1>1, <2>1, <2>2, TopFacts, AskContinues
<1>2. CASE Ask([top EXCEPT !.pc = "whnfA"], Entry("whnf", top.a, top.a))
  <2> DEFINE f == [top EXCEPT !.pc = "whnfA"]
  <2>1. f \in Frame /\ f.st = "run" /\ Continues(top, f)
    BY <1>0, TopFacts DEF Frame, Pcs, Continues, Plain
  <2>2. "whnf" \in Functions /\ Calls(f, "whnf", top.a, top.a)
    BY <1>0, TopFacts DEF Functions, Frame, Calls, WaitsA, WaitsB
  <2> QED BY <1>0, <1>2, <2>1, <2>2, TopFacts, AskContinues
<1>3. CASE Ask([top EXCEPT !.pc = "whnfB"], Entry("whnf", top.b, top.b))
  <2> DEFINE f == [top EXCEPT !.pc = "whnfB"]
  <2>1. f \in Frame /\ f.st = "run" /\ Continues(top, f)
    BY <1>0, TopFacts DEF Frame, Pcs, Continues, Plain
  <2>2. "whnf" \in Functions /\ Calls(f, "whnf", top.b, top.b)
    BY <1>0, TopFacts DEF Functions, Frame, Calls, WaitsA, WaitsB
  <2> QED BY <1>0, <1>3, <2>1, <2>2, TopFacts, AskContinues
<1>4. CASE Ask([top EXCEPT !.pc = "verdict"], Entry("compare", top.x, top.y))
  <2> DEFINE f == [top EXCEPT !.pc = "verdict"]
  <2>1. f \in Frame /\ f.st = "run" /\ Continues(top, f)
    BY <1>0, TopFacts DEF Frame, Pcs, Continues, Plain
  <2>2. "compare" \in Functions /\ Calls(f, "compare", top.x, top.y)
    BY <1>0, TopFacts DEF Functions, Frame, Calls, WaitsA, WaitsB
  <2> QED BY <1>0, <1>4, <2>1, <2>2, TopFacts, AskContinues
<1> QED BY <1>1, <1>2, <1>3, <1>4 DEF MainPath

\* The eager path compares the weak head normal forms of the two sides.
LEMMA MainNormalisedKeeps ==
    ASSUME ConversionInv, MainNormalised
    PROVE  StackInv'
<1>0. StackInv /\ stack # <<>> /\ Caller.fn = "defeq"
  BY DEF ConversionInv, MainNormalised, Returned
<1>1. CASE Caller.pc = "whnfA" /\ Resume([Caller EXCEPT !.x = top.x, !.pc = "main2"])
  <2> DEFINE g == [Caller EXCEPT !.x = top.x, !.pc = "main2"]
  <2>1. "main2" \in Pcs /\ top.x \in Term /\ Equal(Caller.a, top.x)
    BY <1>0, CallerTerms, <1>1, ReturnFacts, TopFacts DEF Pcs, WaitsA
  <2>2. g \in Frame
    BY <1>0, <2>1, CallerTerms DEF Frame
  <2>3. Continues(Caller, g)
    BY <1>0, <2>1, CallerTerms DEF Frame, Continues, Plain
  <2> QED BY <1>0, <1>1, <2>2, <2>3, ResumeContinues
<1>2. CASE Caller.pc = "whnfB" /\ Resume([Caller EXCEPT !.y = top.x, !.pc = "both"])
  <2> DEFINE g == [Caller EXCEPT !.y = top.x, !.pc = "both"]
  <2>1. "both" \in Pcs /\ top.x \in Term /\ Equal(Caller.b, top.x)
    BY <1>0, CallerTerms, <1>2, ReturnFacts, TopFacts DEF Pcs, WaitsB
  <2>2. g \in Frame
    BY <1>0, <2>1, CallerTerms DEF Frame
  <2>3. Continues(Caller, g)
    BY <1>0, <2>1, CallerTerms DEF Frame, Continues, Plain
  <2> QED BY <1>0, <1>2, <2>2, <2>3, ResumeContinues
<1> QED BY <1>1, <1>2 DEF MainNormalised

\* The answer of the main path is one about the terms given.
LEMMA MainAnswersKeeps ==
    ASSUME ConversionInv, MainAnswers
    PROVE  StackInv' /\ CachesAreSound'
<1>0. /\ StackInv /\ CachesAreSound /\ stack # <<>> /\ Caller.fn = "defeq"
      /\ Caller.pc = "verdict" /\ top.st = "ok" /\ top.eq \in BOOLEAN
  BY TopFacts DEF ConversionInv, MainAnswers, Returned, Ok, Frame
<1>1. top.eq => Equal(Caller.a, Caller.b)
  BY <1>0, ReturnFacts DEF WaitsA, WaitsB
<1>2. StackInv'
  BY <1>0, <1>1, AnswerKeeps DEF MainAnswers
<1>3. CachesAreSound'
  BY <1>0, <1>1, MemoKeeps DEF MainAnswers
<1> QED BY <1>2, <1>3

\* A decline of the main path claims nothing.
LEMMA MainDeclinesKeeps ==
    ASSUME ConversionInv, MainDeclines
    PROVE  StackInv'
<1>0. StackInv /\ stack # <<>> /\ Caller.fn = "defeq"
  BY DEF ConversionInv, MainDeclines, Returned
<1>1. CASE Resume(Declines(Caller))
  BY <1>0, <1>1, GiveUpKeeps
<1>2. CASE Resume([Caller EXCEPT !.pc = "last"])
  <2> DEFINE g == [Caller EXCEPT !.pc = "last"]
  <2>1. g \in Frame /\ Continues(Caller, g)
    BY <1>0, CallerTerms DEF Frame, Pcs, Continues, Plain
  <2> QED BY <1>0, <1>2, <2>1, ResumeContinues
<1> QED BY <1>1, <1>2 DEF MainDeclines

\* The fallback starts from the terms given.
LEMMA FallbackKeeps ==
    ASSUME ConversionInv, Fallback
    PROVE  StackInv'
<1>0. StackInv /\ top.fn = "defeq" /\ top.st = "run"
  BY DEF ConversionInv, Fallback, At
<1>1. CASE Goto(Declines(top))
  BY <1>0, <1>1, GiveUpKeeps
<1>2. CASE Ask([top EXCEPT !.pc = "fallback", !.n = fallbackTries],
              Entry("lazyhead", top.a, top.b))
  <2> DEFINE f == [top EXCEPT !.pc = "fallback", !.n = fallbackTries]
  <2>1. fallbackTries \in Nat /\ "fallback" \in Pcs
    BY DEF ConversionInv, TypeOK, Pcs
  <2>2. f \in Frame
    BY <1>0, <2>1, TopFacts DEF Frame
  <2>3. f.st = "run" /\ Continues(top, f)
    BY <1>0, TopFacts DEF Frame, Continues, Plain
  <2>4. "lazyhead" \in Functions /\ Calls(f, "lazyhead", top.a, top.b)
    BY <1>0, TopFacts DEF Functions, Frame, Calls, WaitsA, WaitsB
  <2> QED BY <1>0, <1>2, <2>2, <2>3, <2>4, TopFacts, AskContinues
<1> QED BY <1>1, <1>2 DEF Fallback

\* Only a proof by the fallback becomes an answer.
LEMMA FallbackReturnKeeps ==
    ASSUME ConversionInv, FallbackReturn
    PROVE  StackInv' /\ CachesAreSound'
<1>0. /\ StackInv /\ CachesAreSound /\ stack # <<>> /\ Caller.fn = "defeq"
      /\ Caller.pc = "fallback"
  BY DEF ConversionInv, FallbackReturn, Returned
<1>1. CASE Ok /\ top.eq
  <2>1. Equal(Caller.a, Caller.b)
    BY <1>0, <1>1, ReturnFacts DEF Ok, WaitsA, WaitsB
  <2>2. StackInv'
    BY <1>0, <1>1, <2>1, AnswerKeeps DEF FallbackReturn
  <2>3. CachesAreSound'
    BY <1>0, <1>1, <2>1, MemoKeeps DEF FallbackReturn
  <2> QED BY <2>2, <2>3
<1>2. CASE ~(Ok /\ top.eq)
  <2>1. StackInv'
    BY <1>0, <1>2, GiveUpKeeps DEF FallbackReturn
  <2>2. CachesAreSound'
    BY <1>0, <1>2 DEF FallbackReturn, CachesAreSound
  <2> QED BY <2>1, <2>2
<1> QED BY <1>1, <1>2

-----------------------------------------------------------------------------
(* is_def_eq_core *)

\* The comparison answers TRUE at once for identical terms only.
LEMMA CompareEnterKeeps ==
    ASSUME ConversionInv, CompareEnter
    PROVE  StackInv'
<1>0. StackInv /\ top.fn = "compare" /\ top.st = "run"
  BY DEF ConversionInv, CompareEnter, At
<1>1. CASE top.a = top.b /\ Goto(Answers(top, TRUE))
  BY <1>0, <1>1, TopFacts, AnswerKeeps
<1>2. CASE /\ SameSpine(top.a, top.b)
           /\ Ask([top EXCEPT !.abort0 = coreAborted, !.pc = "spine"],
                  Entry("args", top.a, top.b))
  <2> DEFINE f == [top EXCEPT !.abort0 = coreAborted, !.pc = "spine"]
  <2>1. coreAborted \in BOOLEAN /\ "spine" \in Pcs
    BY DEF ConversionInv, TypeOK, Pcs
  <2>2. f \in Frame
    BY <1>0, <2>1, TopFacts DEF Frame
  <2>3. f.st = "run" /\ Continues(top, f)
    BY <1>0, TopFacts DEF Frame, Continues, Plain
  <2>4. "args" \in Functions /\ Calls(f, "args", top.a, top.b)
    BY <1>0, TopFacts DEF Functions, Frame, Calls, WaitsA, WaitsB
  <2> QED BY <1>0, <1>2, <2>2, <2>3, <2>4, TopFacts, AskContinues
<1>3. CASE Goto([top EXCEPT !.pc = "delta"])
  <2> DEFINE g == [top EXCEPT !.pc = "delta"]
  <2>1. g \in Frame /\ Continues(top, g)
    BY <1>0, TopFacts DEF Frame, Pcs, Continues, Plain
  <2> QED BY <1>0, <1>3, <2>1, GotoContinues
<1> QED BY <1>1, <1>2, <1>3 DEF CompareEnter

\* Congruent spines are equal; otherwise the delta step follows.
LEMMA CompareSpineKeeps ==
    ASSUME ConversionInv, CompareSpine
    PROVE  StackInv'
<1>0. StackInv /\ stack # <<>> /\ Caller.fn = "compare" /\ Caller.pc = "spine"
  BY DEF ConversionInv, CompareSpine, Returned
<1>1. CASE Ok /\ top.eq /\ Resume(Answers(Caller, TRUE))
  BY <1>0, <1>1, ReturnFacts, AnswerKeeps DEF Ok, WaitsA, WaitsB
<1>2. CASE Resume(Declines(Caller))
  BY <1>0, <1>2, GiveUpKeeps
<1>3. CASE Resume([Caller EXCEPT !.pc = "delta"])
  <2> DEFINE g == [Caller EXCEPT !.pc = "delta"]
  <2>1. g \in Frame /\ Continues(Caller, g)
    BY <1>0, CallerTerms DEF Frame, Pcs, Continues, Plain
  <2> QED BY <1>0, <1>3, <2>1, ResumeContinues
<1>4. CASE Resume([Caller EXCEPT !.declined = TRUE, !.pc = "delta"])
  <2> DEFINE g == [Caller EXCEPT !.declined = TRUE, !.pc = "delta"]
  <2>1. "delta" \in Pcs
    BY <1>0, CallerTerms DEF Pcs
  <2>2. g \in Frame
    BY <1>0, <2>1, CallerTerms DEF Frame
  <2>3. Continues(Caller, g)
    BY <1>0, <2>1, CallerTerms DEF Frame, Continues, Plain
  <2> QED BY <1>0, <1>4, <2>2, <2>3, ResumeContinues
<1> QED BY <1>1, <1>2, <1>3, <1>4 DEF CompareSpine

\* The delta step unfolds a side to an equal term.
LEMMA CompareDeltaKeeps ==
    ASSUME ConversionInv, CompareDelta
    PROVE  StackInv'
<1>0. StackInv /\ top.fn = "compare" /\ top.st = "run"
  BY DEF ConversionInv, CompareDelta, At
<1>1. CASE UnfoldsA /\ Ask([top EXCEPT !.pc = "gotA"], Entry("core", DeltaStep(top.a), DeltaStep(top.a)))
  <2> DEFINE f == [top EXCEPT !.pc = "gotA"]
  <2>1. DeltaStep(top.a) \in Term /\ Equal(top.a, DeltaStep(top.a))
    BY <1>0, <1>1, TopFacts, StepIsEqual, TermParts DEF UnfoldsA, DeltaReducible, DeltaStep
  <2>2. f \in Frame /\ f.st = "run" /\ Continues(top, f)
    BY <1>0, TopFacts DEF Frame, Pcs, Continues, Plain
  <2>3. "core" \in Functions /\ Calls(f, "core", DeltaStep(top.a), DeltaStep(top.a))
    BY <1>0, <2>1, TopFacts DEF Functions, Frame, Calls, WaitsA, WaitsB
  <2> QED BY <1>0, <1>1, <2>1, <2>2, <2>3, AskContinues
<1>2. CASE UnfoldsB /\ Ask([top EXCEPT !.pc = "gotB"], Entry("core", DeltaStep(top.b), DeltaStep(top.b)))
  <2> DEFINE f == [top EXCEPT !.pc = "gotB"]
  <2>1. DeltaStep(top.b) \in Term /\ Equal(top.b, DeltaStep(top.b))
    BY <1>0, <1>2, TopFacts, StepIsEqual, TermParts DEF UnfoldsB, DeltaReducible, DeltaStep
  <2>2. f \in Frame /\ f.st = "run" /\ Continues(top, f)
    BY <1>0, TopFacts DEF Frame, Pcs, Continues, Plain
  <2>3. "core" \in Functions /\ Calls(f, "core", DeltaStep(top.b), DeltaStep(top.b))
    BY <1>0, <2>1, TopFacts DEF Functions, Frame, Calls, WaitsA, WaitsB
  <2> QED BY <1>0, <1>2, <2>1, <2>2, <2>3, AskContinues
<1>3. CASE Goto([top EXCEPT !.pc = "deltaB"])
  <2> DEFINE g == [top EXCEPT !.pc = "deltaB"]
  <2>1. g \in Frame /\ Continues(top, g)
    BY <1>0, TopFacts DEF Frame, Pcs, Continues, Plain
  <2> QED BY <1>0, <1>3, <2>1, GotoContinues
<1>4. CASE Goto([top EXCEPT !.pc = "sub"])
  <2> DEFINE g == [top EXCEPT !.pc = "sub"]
  <2>1. g \in Frame /\ Continues(top, g)
    BY <1>0, TopFacts DEF Frame, Pcs, Continues, Plain
  <2> QED BY <1>0, <1>4, <2>1, GotoContinues
<1>5. CASE Ask([top EXCEPT !.pc = "again"], Entry("compare", top.x, top.y))
  <2> DEFINE f == [top EXCEPT !.pc = "again"]
  <2>1. f \in Frame /\ f.st = "run" /\ Continues(top, f)
    BY <1>0, TopFacts DEF Frame, Pcs, Continues, Plain
  <2>2. "compare" \in Functions /\ Calls(f, "compare", top.x, top.y)
    BY <1>0, TopFacts DEF Functions, Frame, Calls, WaitsA, WaitsB
  <2> QED BY <1>0, <1>5, <2>1, <2>2, TopFacts, AskContinues
<1>6. CASE Goto(Declines(top))
  BY <1>0, <1>6, GiveUpKeeps
<1>7. CASE Goto(Answers(top, FALSE))
  BY <1>0, <1>7, AnswerKeeps
<1> QED BY <1>1, <1>2, <1>3, <1>4, <1>5, <1>6, <1>7 DEF CompareDelta

\* The comparison of the unfolded sides decides the given ones.
LEMMA CompareReturnKeeps ==
    ASSUME ConversionInv, CompareReturn
    PROVE  StackInv'
<1>0. StackInv /\ stack # <<>> /\ Caller.fn = "compare"
  BY DEF ConversionInv, CompareReturn, Returned
<1>1. CASE Caller.pc = "gotA" /\ Resume([Caller EXCEPT !.x = top.x, !.pc = "deltaB"])
  <2> DEFINE g == [Caller EXCEPT !.x = top.x, !.pc = "deltaB"]
  <2>1. "deltaB" \in Pcs /\ top.x \in Term /\ Equal(Caller.a, top.x)
    BY <1>0, CallerTerms, <1>1, ReturnFacts, TopFacts DEF Pcs, WaitsA
  <2>2. g \in Frame
    BY <1>0, <2>1, CallerTerms DEF Frame
  <2>3. Continues(Caller, g)
    BY <1>0, <2>1, CallerTerms DEF Frame, Continues, Plain
  <2> QED BY <1>0, <1>1, <2>2, <2>3, ResumeContinues
<1>2. CASE Caller.pc = "gotB" /\ Resume([Caller EXCEPT !.y = top.x, !.pc = "sub"])
  <2> DEFINE g == [Caller EXCEPT !.y = top.x, !.pc = "sub"]
  <2>1. "sub" \in Pcs /\ top.x \in Term /\ Equal(Caller.b, top.x)
    BY <1>0, CallerTerms, <1>2, ReturnFacts, TopFacts DEF Pcs, WaitsB
  <2>2. g \in Frame
    BY <1>0, <2>1, CallerTerms DEF Frame
  <2>3. Continues(Caller, g)
    BY <1>0, <2>1, CallerTerms DEF Frame, Continues, Plain
  <2> QED BY <1>0, <1>2, <2>2, <2>3, ResumeContinues
<1>3. CASE Resume(Declines(Caller))
  BY <1>0, <1>3, GiveUpKeeps
<1>4. CASE Ok /\ Caller.pc = "again" /\ Resume(Answers(Caller, top.eq))
  <2>1. top.eq \in BOOLEAN
    BY <1>0, TopFacts DEF Frame
  <2>2. top.eq => Equal(Caller.a, Caller.b)
    BY <1>0, <1>4, ReturnFacts DEF Ok, WaitsA, WaitsB
  <2> QED BY <1>0, <1>4, <2>1, <2>2, AnswerKeeps
<1> QED BY <1>1, <1>2, <1>3, <1>4 DEF CompareReturn

-----------------------------------------------------------------------------
(* Stepping both sides *)

\* A lazy delta step asks whnf_core for a term equal to its side.
LEMMA StepSidesKeeps ==
    ASSUME ConversionInv, NEW fn \in {"lazydelta", "lazymain"}, StepSides(fn)
    PROVE  StackInv'
<1>0. StackInv /\ top.fn \in {"lazydelta", "lazymain"} /\ top.st = "run"
  BY DEF ConversionInv, StepSides, At
<1>1. CASE Ask([top EXCEPT !.both = EqualRank(top.x, top.y), !.pc = "gotA"], Entry("core", Unfolded(top.x), Unfolded(top.x)))
  <2> DEFINE r == EqualRank(top.x, top.y)
             f == [top EXCEPT !.both = r, !.pc = "gotA"]
  <2>1. "gotA" \in Pcs /\ r \in BOOLEAN
    BY DEF Pcs, EqualRank
  <2>2. Ask(f, Entry("core", Unfolded(top.x), Unfolded(top.x)))
    BY <1>1
  <2> HIDE DEF r
  <2>3. f \in Frame
    BY <1>0, <2>1, TopFacts DEF Frame
  <2>4. f.st = "run" /\ Continues(top, f)
    BY <1>0, TopFacts DEF Frame, Continues, Plain
  <2>5. Unfolded(top.x) \in Term /\ Equal(top.a, Unfolded(top.x))
    BY <1>0, TopFacts, StepIsEqual, EqualIsEquivalence
  <2>6. "core" \in Functions /\ Calls(f, "core", Unfolded(top.x), Unfolded(top.x))
    BY <1>0, <2>5, TopFacts DEF Functions, Frame, Calls, WaitsA, WaitsB
  <2> QED BY <1>0, <2>2, <2>3, <2>4, <2>5, <2>6, AskContinues
<1>2. CASE Ask([top EXCEPT !.pc = "gotB"], Entry("core", Unfolded(top.y), Unfolded(top.y)))
  <2> DEFINE f == [top EXCEPT !.pc = "gotB"]
  <2>1. "gotB" \in Pcs
    BY DEF Pcs
  <2>2. Ask(f, Entry("core", Unfolded(top.y), Unfolded(top.y)))
    BY <1>2
  <2>3. f \in Frame
    BY <1>0, <2>1, TopFacts DEF Frame
  <2>4. f.st = "run" /\ Continues(top, f)
    BY <1>0, TopFacts DEF Frame, Continues, Plain
  <2>5. Unfolded(top.y) \in Term /\ Equal(top.b, Unfolded(top.y))
    BY <1>0, TopFacts, StepIsEqual, EqualIsEquivalence
  <2>6. "core" \in Functions /\ Calls(f, "core", Unfolded(top.y), Unfolded(top.y))
    BY <1>0, <2>5, TopFacts DEF Functions, Frame, Calls, WaitsA, WaitsB
  <2> QED BY <1>0, <2>2, <2>3, <2>4, <2>5, <2>6, AskContinues
<1>3. CASE Goto([top EXCEPT !.both = TRUE, !.pc = "stepB"])
  <2> DEFINE g == [top EXCEPT !.both = TRUE, !.pc = "stepB"]
  <2>1. "stepB" \in Pcs
    BY <1>0, TopFacts DEF Pcs
  <2>2. g \in Frame
    BY <1>0, <2>1, TopFacts DEF Frame
  <2>3. Continues(top, g)
    BY <1>0, <2>1, TopFacts DEF Frame, Continues, Plain
  <2> QED BY <1>0, <1>3, <2>2, <2>3, GotoContinues
<1>4. CASE Goto([top EXCEPT !.pc = "check"])
  <2> DEFINE g == [top EXCEPT !.pc = "check"]
  <2>1. g \in Frame /\ Continues(top, g)
    BY <1>0, TopFacts DEF Frame, Pcs, Continues, Plain
  <2> QED BY <1>0, <1>4, <2>1, GotoContinues
<1> QED BY <1>1, <1>2, <1>3, <1>4 DEF StepSides

-----------------------------------------------------------------------------
(* try_lazy_delta *)

\* try_lazy_delta gives up without claiming anything.
LEMMA DeltaEnterKeeps ==
    ASSUME ConversionInv, DeltaEnter
    PROVE  StackInv'
<1>0. StackInv /\ top.fn = "lazydelta" /\ top.st = "run"
  BY DEF ConversionInv, DeltaEnter, At
<1>1. CASE Goto(Answers(top, FALSE))
  BY <1>0, <1>1, AnswerKeeps
<1>2. CASE Goto([top EXCEPT !.pc = "round"])
  <2> DEFINE g == [top EXCEPT !.pc = "round"]
  <2>1. "round" \in Pcs
    BY <1>0, TopFacts DEF Pcs
  <2>2. g \in Frame
    BY <1>0, <2>1, TopFacts DEF Frame
  <2>3. Continues(top, g)
    BY <1>0, <2>1, TopFacts DEF Frame, Continues, Plain
  <2> QED BY <1>0, <1>2, <2>2, <2>3, GotoContinues
<1> QED BY <1>1, <1>2 DEF DeltaEnter

\* So it does when its steps are used up.
LEMMA DeltaRoundKeeps ==
    ASSUME ConversionInv, DeltaRound
    PROVE  StackInv'
<1>0. StackInv /\ top.fn = "lazydelta" /\ top.st = "run"
  BY DEF ConversionInv, DeltaRound, At
<1>1. CASE Goto(Answers(top, FALSE))
  BY <1>0, <1>1, AnswerKeeps
<1>2. CASE Goto([top EXCEPT !.n = @ + 1, !.pc = "stepA"])
  <2> DEFINE m == top.n + 1
             g == [top EXCEPT !.n = m, !.pc = "stepA"]
  <2>1. m \in Nat /\ "stepA" \in Pcs /\ Goto(g)
    BY <1>0, <1>2, TopFacts, FrameFacts DEF Pcs, Frame
  <2> HIDE DEF m
  <2>2. g \in Frame
    BY <1>0, <2>1, TopFacts DEF Frame
  <2>3. Continues(top, g)
    BY <1>0, TopFacts DEF Frame, Continues, Plain
  <2> QED BY <1>0, <2>1, <2>2, <2>3, GotoContinues
<1> QED BY <1>1, <1>2 DEF DeltaRound

\* A side that has stepped equals the one it replaces.
LEMMA DeltaSteppedKeeps ==
    ASSUME ConversionInv, DeltaStepped
    PROVE  StackInv'
<1>0. StackInv /\ stack # <<>> /\ Caller.fn = "lazydelta"
  BY DEF ConversionInv, DeltaStepped, Returned
<1>1. CASE Resume(Answers(Caller, FALSE))
  BY <1>0, <1>1, AnswerKeeps
<1>2. CASE Caller.pc = "gotA" /\ Resume([Caller EXCEPT !.x = top.x, !.pc = "stepB"])
  <2> DEFINE g == [Caller EXCEPT !.x = top.x, !.pc = "stepB"]
  <2>1. "stepB" \in Pcs /\ top.x \in Term /\ Equal(Caller.a, top.x)
    BY <1>0, CallerTerms, <1>2, ReturnFacts, TopFacts DEF Pcs, WaitsA
  <2>2. g \in Frame
    BY <1>0, <2>1, CallerTerms DEF Frame
  <2>3. Continues(Caller, g)
    BY <1>0, <2>1, CallerTerms DEF Frame, Continues, Plain
  <2> QED BY <1>0, <1>2, <2>2, <2>3, ResumeContinues
<1>3. CASE Caller.pc = "gotB" /\ Resume([Caller EXCEPT !.y = top.x, !.pc = "check"])
  <2> DEFINE g == [Caller EXCEPT !.y = top.x, !.pc = "check"]
  <2>1. "check" \in Pcs /\ top.x \in Term /\ Equal(Caller.b, top.x)
    BY <1>0, CallerTerms, <1>3, ReturnFacts, TopFacts DEF Pcs, WaitsB
  <2>2. g \in Frame
    BY <1>0, <2>1, CallerTerms DEF Frame
  <2>3. Continues(Caller, g)
    BY <1>0, <2>1, CallerTerms DEF Frame, Continues, Plain
  <2> QED BY <1>0, <1>3, <2>2, <2>3, ResumeContinues
<1> QED BY <1>1, <1>2, <1>3 DEF DeltaStepped

\* Sides that have become identical are equal.
LEMMA DeltaCheckKeeps ==
    ASSUME ConversionInv, DeltaCheck
    PROVE  StackInv'
<1>0. StackInv /\ top.fn = "lazydelta" /\ top.st = "run"
  BY DEF ConversionInv, DeltaCheck, At
<1>1. CASE top.x = top.y /\ Goto(Answers(top, TRUE))
  <2>1. Equal(top.a, top.b)
    BY <1>0, <1>1, TopFacts, EqualIsEquivalence
  <2> QED BY <1>0, <1>1, <2>1, AnswerKeeps
<1>2. CASE SameHead(top.x, top.y) /\ Ask([top EXCEPT !.pc = "cong"], Entry("args", top.x, top.y))
  <2> DEFINE f == [top EXCEPT !.pc = "cong"]
  <2>1. f \in Frame /\ f.st = "run" /\ Continues(top, f)
    BY <1>0, TopFacts DEF Frame, Pcs, Continues, Plain
  <2>2. "args" \in Functions /\ Calls(f, "args", top.x, top.y)
    BY <1>0, TopFacts DEF Functions, Frame, Calls, WaitsA, WaitsB
  <2> QED BY <1>0, <1>2, <2>1, <2>2, TopFacts, AskContinues DEF SameHead
<1>3. CASE Goto([top EXCEPT !.pc = "round"])
  <2> DEFINE g == [top EXCEPT !.pc = "round"]
  <2>1. "round" \in Pcs
    BY <1>0, TopFacts DEF Pcs
  <2>2. g \in Frame
    BY <1>0, <2>1, TopFacts DEF Frame
  <2>3. Continues(top, g)
    BY <1>0, <2>1, TopFacts DEF Frame, Continues, Plain
  <2> QED BY <1>0, <1>3, <2>2, <2>3, GotoContinues
<1> QED BY <1>1, <1>2, <1>3 DEF DeltaCheck

\* So are sides whose spines have been proved equal.
LEMMA DeltaCongKeeps ==
    ASSUME ConversionInv, DeltaCong
    PROVE  StackInv'
<1>0. StackInv /\ stack # <<>> /\ Caller.fn = "lazydelta" /\ Caller.pc = "cong"
  BY DEF ConversionInv, DeltaCong, Returned
<1>1. CASE Ok /\ top.eq /\ Resume(Answers(Caller, TRUE))
  BY <1>0, <1>1, ReturnFacts, AnswerKeeps DEF Ok, WaitsA, WaitsB
<1>2. CASE PassDecline
  BY <1>0, <1>2, PassDeclineKeeps
<1>3. CASE Resume([Caller EXCEPT !.pc = "round"])
  <2> DEFINE g == [Caller EXCEPT !.pc = "round"]
  <2>1. "round" \in Pcs
    BY <1>0, CallerTerms DEF Pcs
  <2>2. g \in Frame
    BY <1>0, <2>1, CallerTerms DEF Frame
  <2>3. Continues(Caller, g)
    BY <1>0, <2>1, CallerTerms DEF Frame, Continues, Plain
  <2> QED BY <1>0, <1>3, <2>2, <2>3, ResumeContinues
<1> QED BY <1>1, <1>2, <1>3 DEF DeltaCong

-----------------------------------------------------------------------------
(* def_eq_main_path_lazy *)

\* The lazy main path asks the core normal forms of both sides.
LEMMA LazyCoresKeeps ==
    ASSUME ConversionInv, LazyCores
    PROVE  StackInv'
<1>0. StackInv /\ top.fn = "lazymain" /\ top.st = "run"
  BY DEF ConversionInv, LazyCores, At
<1>1. CASE Ask([top EXCEPT !.pc = "coreA"], Entry("core", top.a, top.a))
  <2> DEFINE f == [top EXCEPT !.pc = "coreA"]
  <2>1. f \in Frame /\ f.st = "run" /\ Continues(top, f)
    BY <1>0, TopFacts DEF Frame, Pcs, Continues, Plain
  <2>2. "core" \in Functions /\ Calls(f, "core", top.a, top.a)
    BY <1>0, TopFacts DEF Functions, Frame, Calls, WaitsA, WaitsB
  <2> QED BY <1>0, <1>1, <2>1, <2>2, TopFacts, AskContinues
<1>2. CASE Ask([top EXCEPT !.pc = "coreB"], Entry("core", top.b, top.b))
  <2> DEFINE f == [top EXCEPT !.pc = "coreB"]
  <2>1. f \in Frame /\ f.st = "run" /\ Continues(top, f)
    BY <1>0, TopFacts DEF Frame, Pcs, Continues, Plain
  <2>2. "core" \in Functions /\ Calls(f, "core", top.b, top.b)
    BY <1>0, TopFacts DEF Functions, Frame, Calls, WaitsA, WaitsB
  <2> QED BY <1>0, <1>2, <2>1, <2>2, TopFacts, AskContinues
<1> QED BY <1>1, <1>2 DEF LazyCores

\* Its loop answers TRUE at once for identical sides only.
LEMMA LazyLoopKeeps ==
    ASSUME ConversionInv, LazyLoop
    PROVE  StackInv'
<1>0. StackInv /\ top.fn = "lazymain" /\ top.st = "run"
  BY DEF ConversionInv, LazyLoop, At
<1>1. CASE top.x = top.y /\ Goto(Answers(top, TRUE))
  <2>1. Equal(top.a, top.b)
    BY <1>0, <1>1, TopFacts, EqualIsEquivalence
  <2> QED BY <1>0, <1>1, <2>1, AnswerKeeps
<1>2. CASE Goto([top EXCEPT !.pc = "compare"])
  <2> DEFINE g == [top EXCEPT !.pc = "compare"]
  <2>1. "compare" \in Pcs
    BY <1>0, TopFacts DEF Pcs
  <2>2. g \in Frame
    BY <1>0, <2>1, TopFacts DEF Frame
  <2>3. Continues(top, g)
    BY <1>0, <2>1, TopFacts DEF Frame, Continues, Plain
  <2> QED BY <1>0, <1>2, <2>2, <2>3, GotoContinues
<1>3. CASE /\ SameHead(top.x, top.y)
           /\ Ask([top EXCEPT !.abort0 = coreAborted, !.outer = FALSE, !.pc = "spine"],
                  Entry("args", top.x, top.y))
  <2> DEFINE f == [top EXCEPT !.abort0 = coreAborted, !.outer = FALSE, !.pc = "spine"]
  <2>1. coreAborted \in BOOLEAN /\ "spine" \in Pcs
    BY DEF ConversionInv, TypeOK, Pcs
  <2>2. f \in Frame
    BY <1>0, <2>1, TopFacts DEF Frame
  <2>3. f.st = "run" /\ Continues(top, f)
    BY <1>0, TopFacts DEF Frame, Continues, Plain
  <2>4. "args" \in Functions /\ Calls(f, "args", top.x, top.y)
    BY <1>0, TopFacts DEF Functions, Frame, Calls, WaitsA, WaitsB
  <2> QED BY <1>0, <1>3, <2>2, <2>3, <2>4, TopFacts, AskContinues DEF SameHead
<1>4. CASE Goto([top EXCEPT !.outer = FALSE, !.pc = "stepA"])
  <2> DEFINE g == [top EXCEPT !.outer = FALSE, !.pc = "stepA"]
  <2>1. "stepA" \in Pcs
    BY <1>0, TopFacts DEF Pcs
  <2>2. g \in Frame
    BY <1>0, <2>1, TopFacts DEF Frame
  <2>3. Continues(top, g)
    BY <1>0, <2>1, TopFacts DEF Frame, Continues, Plain
  <2> QED BY <1>0, <1>4, <2>2, <2>3, GotoContinues
<1> QED BY <1>1, <1>2, <1>3, <1>4 DEF LazyLoop

\* Its congruence answers TRUE for equal spines only.
LEMMA LazySpineKeeps ==
    ASSUME ConversionInv, LazySpine
    PROVE  StackInv'
<1>0. StackInv /\ stack # <<>> /\ Caller.fn = "lazymain" /\ Caller.pc = "spine"
  BY DEF ConversionInv, LazySpine, Returned
<1>1. CASE Ok /\ top.eq /\ Resume(Answers(Caller, TRUE))
  BY <1>0, <1>1, ReturnFacts, AnswerKeeps DEF Ok, WaitsA, WaitsB
<1>2. CASE Resume([Caller EXCEPT !.pc = "stepA"])
  <2> DEFINE g == [Caller EXCEPT !.pc = "stepA"]
  <2>1. "stepA" \in Pcs
    BY <1>0, CallerTerms DEF Pcs
  <2>2. g \in Frame
    BY <1>0, <2>1, CallerTerms DEF Frame
  <2>3. Continues(Caller, g)
    BY <1>0, <2>1, CallerTerms DEF Frame, Continues, Plain
  <2> QED BY <1>0, <1>2, <2>2, <2>3, ResumeContinues
<1> QED BY <1>1, <1>2 DEF LazySpine

\* Its sides stay equal to the terms given.
LEMMA LazyReturnKeeps ==
    ASSUME ConversionInv, LazyReturn
    PROVE  StackInv'
<1>0. StackInv /\ stack # <<>> /\ Caller.fn = "lazymain"
  BY DEF ConversionInv, LazyReturn, Returned
<1>1. CASE Caller.pc = "coreA" /\ Resume([Caller EXCEPT !.x = top.x, !.pc = "second"])
  <2> DEFINE g == [Caller EXCEPT !.x = top.x, !.pc = "second"]
  <2>1. "second" \in Pcs /\ top.x \in Term /\ Equal(Caller.a, top.x)
    BY <1>0, CallerTerms, <1>1, ReturnFacts, TopFacts DEF Pcs, WaitsA
  <2>2. g \in Frame
    BY <1>0, <2>1, CallerTerms DEF Frame
  <2>3. Continues(Caller, g)
    BY <1>0, <2>1, CallerTerms DEF Frame, Continues, Plain
  <2> QED BY <1>0, <1>1, <2>2, <2>3, ResumeContinues
<1>2. CASE Caller.pc = "coreB" /\ Resume([Caller EXCEPT !.y = top.x, !.pc = "loop"])
  <2> DEFINE g == [Caller EXCEPT !.y = top.x, !.pc = "loop"]
  <2>1. "loop" \in Pcs /\ top.x \in Term /\ Equal(Caller.b, top.x)
    BY <1>0, CallerTerms, <1>2, ReturnFacts, TopFacts DEF Pcs, WaitsB
  <2>2. g \in Frame
    BY <1>0, <2>1, CallerTerms DEF Frame
  <2>3. Continues(Caller, g)
    BY <1>0, <2>1, CallerTerms DEF Frame, Continues, Plain
  <2> QED BY <1>0, <1>2, <2>2, <2>3, ResumeContinues
<1>3. CASE /\ Caller.pc = "gotA"
           /\ Resume([Caller EXCEPT !.outer = @ \/ top.x # Caller.x,
                                    !.x = top.x, !.pc = "stepB"])
  <2> DEFINE r == Caller.outer \/ top.x # Caller.x
             g == [Caller EXCEPT !.outer = r, !.x = top.x, !.pc = "stepB"]
  <2>1. "stepB" \in Pcs /\ r \in BOOLEAN
    BY <1>0, CallerTerms DEF Pcs, Frame
  <2>2. top.x \in Term /\ Equal(Caller.a, top.x)
    BY <1>0, <1>3, ReturnFacts, TopFacts DEF WaitsA
  <2>3. Resume(g)
    BY <1>0, <1>3, CallerTerms DEF Frame
  <2> HIDE DEF r
  <2>4. g \in Frame
    BY <1>0, <2>1, <2>2, CallerTerms DEF Frame
  <2>5. Continues(Caller, g)
    BY <1>0, <2>2, CallerTerms DEF Frame, Continues, Plain
  <2> QED BY <1>0, <2>3, <2>4, <2>5, ResumeContinues
<1>4. CASE /\ Caller.pc = "gotB"
           /\ Resume([Caller EXCEPT !.outer = @ \/ top.x # Caller.y,
                                    !.y = top.x, !.pc = "check"])
  <2> DEFINE r == Caller.outer \/ top.x # Caller.y
             g == [Caller EXCEPT !.outer = r, !.y = top.x, !.pc = "check"]
  <2>1. "check" \in Pcs /\ r \in BOOLEAN
    BY <1>0, CallerTerms DEF Pcs, Frame
  <2>2. top.x \in Term /\ Equal(Caller.b, top.x)
    BY <1>0, <1>4, ReturnFacts, TopFacts DEF WaitsB
  <2>3. Resume(g)
    BY <1>0, <1>4, CallerTerms DEF Frame
  <2> HIDE DEF r
  <2>4. g \in Frame
    BY <1>0, <2>1, <2>2, CallerTerms DEF Frame
  <2>5. Continues(Caller, g)
    BY <1>0, <2>2, CallerTerms DEF Frame, Continues, Plain
  <2> QED BY <1>0, <2>3, <2>4, <2>5, ResumeContinues
<1>5. CASE Ok /\ Caller.pc = "result" /\ Resume(Answers(Caller, top.eq))
  <2>1. top.eq \in BOOLEAN
    BY <1>0, TopFacts DEF Frame
  <2>2. top.eq => Equal(Caller.a, Caller.b)
    BY <1>0, <1>5, ReturnFacts DEF Ok, WaitsA, WaitsB
  <2> QED BY <1>0, <1>5, <2>1, <2>2, AnswerKeeps
<1> QED BY <1>1, <1>2, <1>3, <1>4, <1>5 DEF LazyReturn

\* It hands two equal sides to the structural comparison.
LEMMA LazyCheckKeeps ==
    ASSUME ConversionInv, LazyCheck
    PROVE  StackInv'
<1>0. StackInv /\ top.fn = "lazymain" /\ top.st = "run"
  BY DEF ConversionInv, LazyCheck, At
<1>1. CASE Goto([top EXCEPT !.pc = "loop"])
  <2> DEFINE g == [top EXCEPT !.pc = "loop"]
  <2>1. "loop" \in Pcs
    BY <1>0, TopFacts DEF Pcs
  <2>2. g \in Frame
    BY <1>0, <2>1, TopFacts DEF Frame
  <2>3. Continues(top, g)
    BY <1>0, <2>1, TopFacts DEF Frame, Continues, Plain
  <2> QED BY <1>0, <1>1, <2>2, <2>3, GotoContinues
<1>2. CASE Goto([top EXCEPT !.pc = "compare"])
  <2> DEFINE g == [top EXCEPT !.pc = "compare"]
  <2>1. "compare" \in Pcs
    BY <1>0, TopFacts DEF Pcs
  <2>2. g \in Frame
    BY <1>0, <2>1, TopFacts DEF Frame
  <2>3. Continues(top, g)
    BY <1>0, <2>1, TopFacts DEF Frame, Continues, Plain
  <2> QED BY <1>0, <1>2, <2>2, <2>3, GotoContinues
<1>3. CASE Ask([top EXCEPT !.pc = "result"], Entry("compare", top.x, top.y))
  <2> DEFINE f == [top EXCEPT !.pc = "result"]
  <2>1. f \in Frame /\ f.st = "run" /\ Continues(top, f)
    BY <1>0, TopFacts DEF Frame, Pcs, Continues, Plain
  <2>2. "compare" \in Functions /\ Calls(f, "compare", top.x, top.y)
    BY <1>0, TopFacts DEF Functions, Frame, Calls, WaitsA, WaitsB
  <2> QED BY <1>0, <1>3, <2>1, <2>2, TopFacts, AskContinues
<1>4. CASE Goto([top EXCEPT !.pc = IF top.outer THEN "loop" ELSE "compare"])
  <2>1. CASE top.outer
    BY <1>1, <1>4, <2>1
  <2>2. CASE ~top.outer
    BY <1>2, <1>4, <2>2
  <2> QED BY <2>1, <2>2
<1> QED BY <1>3, <1>4 DEF LazyCheck

-----------------------------------------------------------------------------
(* try_lazy_head_congruence *)

\* A fallback frame that goes on keeps every exposed head.
LEMMA HeadIsSound ==
    ASSUME NEW f \in Frame, f.fn = "lazyhead", f.st = "run",
           Equal(f.a, f.x), Equal(f.b, f.y), HeadsSoFar(f)
    PROVE  Sound(f)
BY DEF Sound, Derived

\* The heads a running or waiting fallback frame keeps.
LEMMA HeadFacts ==
    ASSUME NEW f \in Frame, Sound(f), f.fn = "lazyhead"
    PROVE  /\ Equal(f.a, f.x) /\ Equal(f.b, f.y) /\ HeadsSoFar(f)
           /\ f.ls \in Seq(Term) /\ f.rs \in Seq(Term)
           /\ Len(f.ls) \in Nat /\ Len(f.rs) \in Nat
           /\ \A i \in 1..Len(f.ls) : f.ls[i] \in Term /\ Equal(f.a, f.ls[i])
           /\ \A i \in 1..Len(f.rs) : f.rs[i] \in Term /\ Equal(f.b, f.rs[i])
           /\ Len(f.ls) \in 1..Len(f.ls) /\ Len(f.rs) \in 1..Len(f.rs)
<1>1. f.ls \in Seq(Term) /\ f.rs \in Seq(Term)
  BY DEF Frame
<1>2. Equal(f.a, f.x) /\ Equal(f.b, f.y) /\ HeadsSoFar(f)
  BY DEF Sound, Derived
<1>3. Len(f.ls) \in Nat /\ Len(f.rs) \in Nat
  BY <1>1
<1>4. /\ \A i \in 1..Len(f.ls) : f.ls[i] \in Term
      /\ \A i \in 1..Len(f.rs) : f.rs[i] \in Term
  BY <1>1
<1> QED BY <1>1, <1>2, <1>3, <1>4 DEF HeadsSoFar

\* A fallback frame f becomes g without a new exposed head.
SameHeads(f, g) ==
    /\ g \in Frame /\ g.st = "run" /\ g.fn = f.fn /\ g.a = f.a /\ g.b = f.b
    /\ g.ls = f.ls /\ g.rs = f.rs
    /\ Equal(f.a, g.x) /\ Equal(f.b, g.y)
    /\ g.pc \in {"tryL", "tryR", "congL", "congR"} => g.n >= 1

\* A fallback frame that exposes no head stays sound.
LEMMA SameHeadsIsSound ==
    ASSUME NEW f \in Frame, Sound(f), f.fn = "lazyhead", NEW g, SameHeads(f, g)
    PROVE  Sound(g)
<1>1. HeadsSoFar(f)
  BY HeadFacts
<1>2. HeadsSoFar(g)
  BY <1>1 DEF HeadsSoFar, SameHeads
<1> QED BY <1>2, HeadIsSound DEF SameHeads

\* A head step exposes a term equal to its side.
LEMMA HeadExposeKeeps ==
    ASSUME ConversionInv, HeadExpose
    PROVE  StackInv'
<1>0. /\ StackInv /\ top.fn = "lazyhead" /\ top.st = "run"
      /\ top \in Frame /\ Sound(top) /\ top.a \in Term /\ top.b \in Term
  BY TopFacts DEF ConversionInv, HeadExpose, At
<1>1. /\ LastL \in Term /\ Equal(top.a, LastL) /\ LastR \in Term /\ Equal(top.b, LastR)
      /\ Equal(top.a, top.x) /\ Equal(top.b, top.y)
  BY <1>0, HeadFacts DEF LastL, LastR
<1>2. /\ HeadStep[LastL] \in Term /\ Equal(top.a, HeadStep[LastL])
      /\ HeadStep[LastR] \in Term /\ Equal(top.b, HeadStep[LastR])
  BY <1>0, <1>1, StepIsEqual, TermParts, EqualIsEquivalence
<1>3. "right" \in Pcs /\ "enter" \in Pcs /\ "tryL" \in Pcs /\ "tryR" \in Pcs /\ 1 \in Nat
  BY DEF Pcs
<1>4. ASSUME NEW g, SameHeads(top, g), Goto(g)
      PROVE  StackInv'
  BY <1>0, <1>4, SameHeadsIsSound, GotoKeeps DEF SameHeads
<1>5. CASE Goto(Answers(top, FALSE))
  BY <1>0, <1>5, AnswerKeeps
<1>6. CASE Goto([top EXCEPT !.pc = "right"])
  <2>1. SameHeads(top, [top EXCEPT !.pc = "right"])
    BY <1>0, <1>1, <1>3 DEF SameHeads, Frame
  <2> QED BY <1>4, <1>6, <2>1
<1>7. CASE Goto([top EXCEPT !.pc = "enter"])
  <2>1. SameHeads(top, [top EXCEPT !.pc = "enter"])
    BY <1>0, <1>1, <1>3 DEF SameHeads, Frame
  <2> QED BY <1>4, <1>7, <2>1
<1>8. CASE Goto([top EXCEPT !.x = HeadStep[LastL], !.n = 1, !.pc = "tryL"])
  <2> DEFINE h == HeadStep[LastL]
             g == [top EXCEPT !.x = h, !.n = 1, !.pc = "tryL"]
  <2>1. h \in Term /\ Equal(top.a, h) /\ Goto(g)
    BY <1>2, <1>8
  <2> HIDE DEF h
  <2>2. g \in Frame
    BY <1>0, <1>3, <2>1 DEF Frame
  <2>3. /\ g.st = "run" /\ g.fn = top.fn /\ g.a = top.a /\ g.b = top.b /\ g.n = 1
        /\ g.ls = top.ls /\ g.rs = top.rs /\ Equal(top.a, g.x) /\ Equal(top.b, g.y)
    BY <1>0, <1>1, <2>1 DEF Frame
  <2> HIDE DEF g
  <2>4. SameHeads(top, g)
    BY <2>2, <2>3 DEF SameHeads
  <2> QED BY <1>4, <2>1, <2>4
<1>9. CASE Goto([top EXCEPT !.y = HeadStep[LastR], !.n = 1, !.pc = "tryR"])
  <2> DEFINE h == HeadStep[LastR]
             g == [top EXCEPT !.y = h, !.n = 1, !.pc = "tryR"]
  <2>1. h \in Term /\ Equal(top.b, h) /\ Goto(g)
    BY <1>2, <1>9
  <2> HIDE DEF h
  <2>2. g \in Frame
    BY <1>0, <1>3, <2>1 DEF Frame
  <2>3. /\ g.st = "run" /\ g.fn = top.fn /\ g.a = top.a /\ g.b = top.b /\ g.n = 1
        /\ g.ls = top.ls /\ g.rs = top.rs /\ Equal(top.a, g.x) /\ Equal(top.b, g.y)
    BY <1>0, <1>1, <2>1 DEF Frame
  <2> HIDE DEF g
  <2>4. SameHeads(top, g)
    BY <2>2, <2>3 DEF SameHeads
  <2> QED BY <1>4, <2>1, <2>4
<1> QED BY <1>5, <1>6, <1>7, <1>8, <1>9 DEF HeadExpose

\* Keeping a new head that equals the term of its side.
LEMMA KeepHead ==
    ASSUME NEW s \in Seq(Term), NEW a, \A i \in 1..Len(s) : Equal(a, s[i]), Len(s) >= 1,
           NEW t \in Term, Equal(a, t)
    PROVE  /\ Append(s, t) \in Seq(Term) /\ Len(Append(s, t)) >= 1
           /\ \A i \in 1..Len(Append(s, t)) : Equal(a, Append(s, t)[i])
<1> DEFINE r == Append(s, t)
<1>1. /\ r \in Seq(Term) /\ Len(s) \in Nat /\ Len(r) = Len(s) + 1
      /\ \A i \in 1..Len(s) : r[i] = s[i]
      /\ r[Len(s) + 1] = t
  OBVIOUS
<1> HIDE DEF r
<1>2. \A i \in 1..Len(r) : Equal(a, r[i])
  <2> TAKE i \in 1..Len(r)
  <2>1. i \in 1..Len(s) \/ i = Len(s) + 1
    BY <1>1
  <2> QED BY <1>1, <2>1
<1>3. Len(r) >= 1
  BY <1>1
<1> QED BY <1>1, <1>2, <1>3 DEF r

\* The fallback tries a head against those kept on the other side.
LEMMA HeadTryKeeps ==
    ASSUME ConversionInv, HeadTry
    PROVE  StackInv'
<1>0. /\ StackInv /\ top.fn = "lazyhead" /\ top.st = "run" /\ top.pc \in {"tryL", "tryR"}
      /\ top \in Frame /\ Sound(top) /\ top.a \in Term /\ top.b \in Term
      /\ top.x \in Term /\ top.y \in Term /\ top.n \in Nat
  BY TopFacts, FrameFacts DEF ConversionInv, HeadTry, At
<1>1. /\ Equal(top.a, top.x) /\ Equal(top.b, top.y) /\ HeadsSoFar(top) /\ top.n >= 1
      /\ Len(top.ls) \in Nat /\ Len(top.rs) \in Nat
      /\ \A i \in 1..Len(top.ls) : top.ls[i] \in Term /\ Equal(top.a, top.ls[i])
      /\ \A i \in 1..Len(top.rs) : top.rs[i] \in Term /\ Equal(top.b, top.rs[i])
  BY <1>0, HeadFacts DEF HeadsSoFar
<1>2. "right" \in Pcs /\ "enter" \in Pcs /\ "congL" \in Pcs /\ "congR" \in Pcs
  BY DEF Pcs
<1>3. CASE Goto([top EXCEPT !.ls = Append(@, top.x), !.pc = "right"])
  <2> DEFINE r == Append(top.ls, top.x)
             g == [top EXCEPT !.ls = r, !.pc = "right"]
  <2>1. r \in Seq(Term) /\ Len(r) >= 1 /\ \A i \in 1..Len(r) : Equal(top.a, r[i])
    BY <1>0, <1>1, HeadFacts, KeepHead DEF HeadsSoFar
  <2>2. Goto(g)
    BY <1>0, <1>3 DEF Frame
  <2> HIDE DEF r
  <2>3. /\ g \in Frame /\ g.fn = "lazyhead" /\ g.st = "run" /\ g.a = top.a /\ g.b = top.b
        /\ g.x = top.x /\ g.y = top.y /\ g.ls = r /\ g.rs = top.rs /\ g.pc = "right"
    BY <1>0, <1>2, <2>1 DEF Frame
  <2> HIDE DEF g
  <2>4. HeadsSoFar(g)
    BY <1>1, <2>1, <2>3 DEF HeadsSoFar
  <2> QED BY <1>0, <1>1, <2>2, <2>3, <2>4, HeadIsSound, GotoKeeps
<1>4. CASE Goto([top EXCEPT !.rs = Append(@, top.y), !.pc = "enter"])
  <2> DEFINE r == Append(top.rs, top.y)
             g == [top EXCEPT !.rs = r, !.pc = "enter"]
  <2>1. r \in Seq(Term) /\ Len(r) >= 1 /\ \A i \in 1..Len(r) : Equal(top.b, r[i])
    BY <1>0, <1>1, HeadFacts, KeepHead DEF HeadsSoFar
  <2>2. Goto(g)
    BY <1>0, <1>4 DEF Frame
  <2> HIDE DEF r
  <2>3. /\ g \in Frame /\ g.fn = "lazyhead" /\ g.st = "run" /\ g.a = top.a /\ g.b = top.b
        /\ g.x = top.x /\ g.y = top.y /\ g.ls = top.ls /\ g.rs = r /\ g.pc = "enter"
    BY <1>0, <1>2, <2>1 DEF Frame
  <2> HIDE DEF g
  <2>4. HeadsSoFar(g)
    BY <1>1, <2>1, <2>3 DEF HeadsSoFar
  <2> QED BY <1>0, <1>1, <2>2, <2>3, <2>4, HeadIsSound, GotoKeeps
<1>5. ASSUME NEW p \in Pcs, NEW s \in Term, NEW t \in Term,
             Ask([top EXCEPT !.pc = p], Entry("args", s, t)), p \in {"congL", "congR"},
             SameSpine(s, t), Equal(top.a, s), Equal(top.b, t)
      PROVE  StackInv'
  <2> DEFINE f == [top EXCEPT !.pc = p]
             g == Entry("args", s, t)
  <2>1. /\ f \in Frame /\ f.fn = "lazyhead" /\ f.st = "run" /\ f.a = top.a /\ f.b = top.b
        /\ f.pc = p /\ SameHeads(top, f)
    BY <1>0, <1>1, <1>5 DEF Frame, SameHeads
  <2>2. g \in Frame /\ Sound(g) /\ g.fn = "args" /\ g.a = s /\ g.b = t
    BY <1>5, EntryIsSound DEF Functions
  <2>3. Ask(f, g)
    BY <1>5
  <2> HIDE DEF f, g
  <2>4. Link(f, g)
    BY <1>5, <2>1, <2>2 DEF Link, Calls, WaitsA, WaitsB
  <2>5. Sound(f)
    BY <1>0, <2>1, SameHeadsIsSound
  <2> QED BY <1>0, <2>1, <2>2, <2>3, <2>4, <2>5, AskKeeps
<1>6. CASE /\ top.n <= Len(top.rs) /\ SameHead(top.x, top.rs[top.n])
           /\ Ask([top EXCEPT !.pc = "congL"], Entry("args", top.x, top.rs[top.n]))
  BY <1>0, <1>1, <1>2, <1>5, <1>6 DEF SameHead
<1>7. CASE /\ top.n <= Len(top.ls) /\ SameHead(top.ls[top.n], top.y)
           /\ Ask([top EXCEPT !.pc = "congR"], Entry("args", top.ls[top.n], top.y))
  BY <1>0, <1>1, <1>2, <1>5, <1>7 DEF SameHead
<1>8. CASE Goto([top EXCEPT !.n = @ + 1])
  <2> DEFINE m == top.n + 1
             g == [top EXCEPT !.n = m]
  <2>1. m \in Nat /\ m >= 1 /\ Goto(g)
    BY <1>0, <1>8 DEF Frame
  <2> HIDE DEF m
  <2>2. SameHeads(top, g)
    BY <1>0, <1>1, <2>1 DEF SameHeads, Frame
  <2> QED BY <1>0, <2>1, <2>2, SameHeadsIsSound, GotoKeeps DEF SameHeads
<1> QED BY <1>0, <1>1, <1>3, <1>4, <1>6, <1>7, <1>8 DEF HeadTry

\* Congruent heads of the two sides make the sides equal.
LEMMA HeadReturnKeeps ==
    ASSUME ConversionInv, HeadReturn
    PROVE  StackInv'
<1>0. /\ StackInv /\ stack # <<>> /\ Caller.fn = "lazyhead" /\ Caller.pc \in {"congL", "congR"}
      /\ Caller \in Frame /\ Sound(Caller) /\ Caller.st = "run" /\ Caller.n \in Nat
  BY CallerFacts, FrameFacts DEF ConversionInv, HeadReturn
<1>1. CASE PassDecline
  BY <1>0, <1>1, PassDeclineKeeps
<1>2. CASE Ok /\ top.eq /\ Resume(Answers(Caller, TRUE))
  BY <1>0, <1>2, ReturnFacts, AnswerKeeps DEF Ok, WaitsA, WaitsB
<1>3. ASSUME NEW p \in {"tryL", "tryR"}, Resume([Caller EXCEPT !.n = @ + 1, !.pc = p])
      PROVE  StackInv'
  <2> DEFINE m == Caller.n + 1
             g == [Caller EXCEPT !.n = m, !.pc = p]
  <2>1. m \in Nat /\ m >= 1 /\ Resume(g) /\ p \in Pcs
    BY <1>0, <1>3 DEF Frame, Pcs
  <2> HIDE DEF m
  <2>2. SameHeads(Caller, g)
    BY <1>0, <2>1, HeadFacts DEF SameHeads, Frame
  <2> QED BY <1>0, <2>1, <2>2, SameHeadsIsSound, ResumeKeeps DEF SameHeads
<1>4. CASE Resume([Caller EXCEPT !.n = @ + 1, !.pc = IF Caller.pc = "congL" THEN "tryL" ELSE "tryR"])
  <2>1. CASE Caller.pc = "congL"
    BY <1>3, <1>4, <2>1
  <2>2. CASE Caller.pc # "congL"
    BY <1>3, <1>4, <2>2
  <2> QED BY <2>1, <2>2
<1> QED BY <1>1, <1>2, <1>4 DEF HeadReturn

-----------------------------------------------------------------------------
(* The flags and the memo tables *)

FlagsOK ==
    /\ speculating \in BOOLEAN /\ coreAborted \in BOOLEAN /\ lazyMainPath \in BOOLEAN
    /\ fallbackTries \in Nat /\ queries \in 0..MaxQueries

TablesOK ==
    /\ whnfCache \in [DOMAIN whnfCache -> Term] /\ DOMAIN whnfCache \subseteq Term
    /\ coreCache \in [DOMAIN coreCache -> Term] /\ DOMAIN coreCache \subseteq Term
    /\ defeqCache \in [DOMAIN defeqCache -> BOOLEAN] /\ DOMAIN defeqCache \subseteq Keys

\* The flags of a caller are Booleans.
LEMMA CallerFlags ==
    ASSUME StackInv, stack # <<>>
    PROVE  Caller.outer \in BOOLEAN /\ Caller.abort0 \in BOOLEAN /\ Caller.n + 1 \in Nat
<1>1. Caller \in Frame
  BY CallerFacts
<1>2. Caller.n \in Nat /\ Caller.outer \in BOOLEAN /\ Caller.abort0 \in BOOLEAN
  BY <1>1 DEF Frame
<1> QED BY <1>2

\* whnf and whnf_core keep the kinds of the flags.
LEMMA ReductionFlags ==
    ASSUME ConversionInv, Reduction
    PROVE  FlagsOK'
<1>0. FlagsOK
  BY DEF ConversionInv, TypeOK, FlagsOK
<1>1. CASE WhnfEnter
  BY <1>0, <1>1 DEF WhnfEnter, FlagsOK, FreshDecline, flags, driver
<1>2. CASE WhnfDone
  <2>1. /\ fallbackTries' = 0 \/ fallbackTries' = fallbackTries
        /\ coreAborted' = FALSE /\ UNCHANGED <<speculating, lazyMainPath, queries>>
    BY <1>2 DEF WhnfDone, FreshDecline, driver
  <2>2. fallbackTries' \in Nat
    BY <1>0, <2>1 DEF FlagsOK
  <2> QED BY <1>0, <2>1, <2>2 DEF FlagsOK
<1>3. CASE CoreEnter
  <2>1. /\ fallbackTries' = 0 \/ fallbackTries' = fallbackTries
        /\ coreAborted' = TRUE \/ coreAborted' = coreAborted
        /\ UNCHANGED <<speculating, lazyMainPath, queries>>
    BY <1>3 DEF CoreEnter, FreshDecline, driver
  <2>2. fallbackTries' \in Nat
    BY <1>0, <2>1 DEF FlagsOK
  <2> QED BY <1>0, <2>1, <2>2 DEF FlagsOK
<1>4. CASE UNCHANGED flags
  BY <1>0, <1>4 DEF FlagsOK, flags, driver
<1> QED
  BY <1>1, <1>2, <1>3, <1>4 DEF Reduction, WhnfLoop, WhnfAgain, WhnfDeclines, CoreBeta,
     CoreMajor, CoreMajorUnfolds, CoreMajorAgain, CoreMajorDone, CoreDone, CoreDeclines

\* So do the attempts and verdicts of is_def_eq.
LEMMA SpeculationFlags ==
    ASSUME ConversionInv, Speculation
    PROVE  FlagsOK'
<1>0. FlagsOK /\ StackInv
  BY DEF ConversionInv, TypeOK, FlagsOK
<1>1. CASE DefeqEnter
  <2>1. /\ fallbackTries' = 0 \/ fallbackTries' = fallbackTries
        /\ speculating' = TRUE \/ speculating' = speculating
        /\ UNCHANGED <<coreAborted, lazyMainPath, queries>>
    BY <1>1 DEF DefeqEnter, FreshDecline, driver
  <2>2. fallbackTries' \in Nat
    BY <1>0, <2>1 DEF FlagsOK
  <2> QED BY <1>0, <2>1, <2>2 DEF FlagsOK
<1>2. CASE SpecProves
  <2>1. (speculating /\ ~Caller.outer) \in BOOLEAN
    OBVIOUS
  <2> QED BY <1>0, <1>2, <2>1 DEF SpecProves, FlagsOK, driver
<1>3. CASE SpecExhausted
  <2>1. (speculating /\ ~Caller.outer) \in BOOLEAN
    OBVIOUS
  <2> QED BY <1>0, <1>3, <2>1 DEF SpecExhausted, FlagsOK, driver
<1>4. CASE SpecDeclines
  BY <1>0, <1>4, CallerFlags DEF SpecDeclines, FlagsOK, driver
<1>5. CASE UNCHANGED flags
  BY <1>0, <1>5 DEF FlagsOK, flags, driver
<1> QED
  BY <1>1, <1>2, <1>3, <1>4, <1>5 DEF Speculation, SpecRaw, SpecCore, SpecCong, SpecDelta,
     SpecFails

\* So do the comparisons, the lazy paths and the caller.
LEMMA OtherFlags ==
    ASSUME ConversionInv, Verdict \/ Comparison \/ LazyPaths \/ Query \/ NewDeclaration
    PROVE  FlagsOK'
<1>0. FlagsOK /\ StackInv
  BY DEF ConversionInv, TypeOK, FlagsOK
<1>1. CASE Fallback
  BY <1>0, <1>1 DEF Fallback, FlagsOK, driver
<1>2. CASE FallbackReturn
  BY <1>0, <1>2, CallerFlags DEF FallbackReturn, Returned, FlagsOK, driver
<1>3. CASE CompareSpine
  BY <1>0, <1>3, CallerFlags DEF CompareSpine, Returned, FlagsOK, driver
<1>4. CASE DeltaStepDeclines
  BY <1>0, <1>4 DEF DeltaStepDeclines, FlagsOK, driver
<1>5. CASE LazySpine
  BY <1>0, <1>5, CallerFlags DEF LazySpine, Returned, FlagsOK, driver
<1>6. CASE Query
  BY <1>0, <1>6, BoundsAssumption DEF Query, FlagsOK
<1>7. CASE NewDeclaration
  <2>1. 0 \in 0..MaxQueries
    BY BoundsAssumption
  <2> QED BY <1>0, <1>7, <2>1 DEF NewDeclaration, FlagsOK
<1>8. CASE UNCHANGED flags
  BY <1>0, <1>8 DEF FlagsOK, flags, driver
<1>9. CASE Verdict
  BY <1>1, <1>2, <1>8, <1>9 DEF Verdict, MainPath, MainNormalised, MainAnswers, MainDeclines
<1>10. CASE Comparison
  BY <1>3, <1>8, <1>10 DEF Comparison, ArgsNext, ArgsReturn, ArgsDecline, CompareEnter,
     CompareDelta, CompareReturn, CompareDeclines
<1>11. CASE LazyPaths
  BY <1>4, <1>5, <1>8, <1>11 DEF LazyPaths, StepSides, DeltaEnter, DeltaRound, DeltaStepped,
     DeltaCheck, DeltaCong, LazyCores, LazyLoop, LazyReturn, LazyCheck, LazyDeclines,
     HeadExpose, HeadTry, HeadReturn
<1> QED BY <1>6, <1>7, <1>9, <1>10, <1>11

\* Filling a table keeps its kind.
LEMMA MemoIsTable ==
    ASSUME NEW K, NEW V, NEW c, c \in [DOMAIN c -> V], DOMAIN c \subseteq K,
           NEW k \in K, NEW v \in V
    PROVE  /\ Memo(c, k, v) \in [DOMAIN Memo(c, k, v) -> V]
           /\ DOMAIN Memo(c, k, v) \subseteq K
BY DEF Memo

\* An empty table is one of every kind.
LEMMA EmptyTable ==
    ASSUME NEW K, NEW V
    PROVE  <<>> \in [DOMAIN <<>> -> V] /\ DOMAIN <<>> = {}
OBVIOUS

\* The actions that leave the memo tables alone.
Fills == \/ WhnfDone \/ CoreDone \/ SpecProves \/ MainAnswers \/ FallbackReturn
\* Most actions leave the three tables alone.
LEMMA OthersKeepTables ==
    ASSUME Next, ~Fills, ~NewDeclaration
    PROVE  UNCHANGED caches
<1>1. CASE Reduction
  BY <1>1 DEF Fills, Reduction, WhnfEnter, WhnfLoop, WhnfAgain, WhnfDeclines, CoreEnter,
     CoreBeta, CoreMajor, CoreMajorUnfolds, CoreMajorAgain, CoreMajorDone, CoreDeclines
<1>2. CASE Speculation
  BY <1>2 DEF Fills, Speculation, DefeqEnter, SpecRaw, SpecCore, SpecCong, SpecDelta,
     SpecFails, SpecExhausted, SpecDeclines
<1>3. CASE Verdict
  BY <1>3 DEF Fills, Verdict, MainPath, MainNormalised, MainDeclines, Fallback
<1>4. CASE Comparison
  BY <1>4 DEF Comparison, ArgsNext, ArgsReturn, ArgsDecline, CompareEnter, CompareSpine,
     CompareDelta, CompareReturn, CompareDeclines
<1>5. CASE LazyPaths
  BY <1>5 DEF LazyPaths, StepSides, DeltaEnter, DeltaRound, DeltaStepped, DeltaStepDeclines,
     DeltaCheck, DeltaCong, LazyCores, LazyLoop, LazySpine, LazyReturn, LazyCheck,
     LazyDeclines, HeadExpose, HeadTry, HeadReturn
<1>6. CASE Query
  BY <1>6 DEF Query
<1> QED BY <1>1, <1>2, <1>3, <1>4, <1>5, <1>6 DEF Next, Machine

\* No step puts anything but terms and Booleans into the tables.
LEMMA TablesStep ==
    ASSUME ConversionInv, Next
    PROVE  TablesOK'
<1>0. TablesOK /\ StackInv
  BY DEF ConversionInv, TypeOK, TablesOK
<1>1. CASE WhnfDone
  <2>1. top.a \in Term /\ top.x \in Term
    BY <1>0, TopFacts
  <2>2. LET c == Memo(whnfCache, top.a, top.x) IN
        c \in [DOMAIN c -> Term] /\ DOMAIN c \subseteq Term
    BY <1>0, <2>1, MemoIsTable DEF TablesOK
  <2> QED BY <1>0, <1>1, <2>2 DEF WhnfDone, TablesOK
<1>2. CASE CoreDone
  <2>1. top.a \in Term /\ top.x \in Term
    BY <1>0, TopFacts
  <2>2. LET c == Memo(coreCache, top.a, top.x) IN
        c \in [DOMAIN c -> Term] /\ DOMAIN c \subseteq Term
    BY <1>0, <2>1, MemoIsTable DEF TablesOK
  <2> QED BY <1>0, <1>2, <2>2 DEF CoreDone, TablesOK
<1>3. ASSUME stack # <<>>, NEW r \in BOOLEAN
      PROVE  LET c == Memo(defeqCache, Pair(Caller.a, Caller.b), r) IN
             c \in [DOMAIN c -> BOOLEAN] /\ DOMAIN c \subseteq Keys
  <2>1. Pair(Caller.a, Caller.b) \in Keys
    <3>1. <<Caller.a, Caller.b>> \in Term \X Term
      BY <1>0, <1>3, CallerTerms
    <3> QED BY <3>1 DEF Keys, Pair
  <2>2. /\ defeqCache \in [DOMAIN defeqCache -> BOOLEAN] /\ DOMAIN defeqCache \subseteq Keys
        /\ r \in BOOLEAN
    BY <1>0, <1>3 DEF TablesOK
  <2> DEFINE k == Pair(Caller.a, Caller.b)
  <2>3. k \in Keys
    BY <2>1
  <2> HIDE DEF k
  <2>4. /\ Memo(defeqCache, k, r) \in [DOMAIN Memo(defeqCache, k, r) -> BOOLEAN]
        /\ DOMAIN Memo(defeqCache, k, r) \subseteq Keys
    BY <2>2, <2>3, MemoIsTable
  <2> QED BY <2>4 DEF k
<1>4. CASE SpecProves
  BY <1>0, <1>3, <1>4 DEF SpecProves, TablesOK
<1>5. CASE MainAnswers
  <2>1. top.eq \in BOOLEAN
    BY <1>0, TopFacts DEF Frame
  <2> QED BY <1>0, <1>3, <1>5, <2>1 DEF MainAnswers, Returned, TablesOK
<1>6. CASE FallbackReturn
  BY <1>0, <1>3, <1>6 DEF FallbackReturn, Returned, TablesOK
<1>7. CASE NewDeclaration
  BY <1>7, EmptyTable DEF NewDeclaration, TablesOK
<1>8. CASE UNCHANGED caches
  BY <1>0, <1>8 DEF TablesOK, caches
<1> QED BY <1>1, <1>2, <1>4, <1>5, <1>6, <1>7, <1>8, OthersKeepTables DEF Fills

-----------------------------------------------------------------------------
(* The inductive invariant *)

\* Every step keeps every frame's guarantee.
LEMMA StackStep ==
    ASSUME ConversionInv, Next
    PROVE  StackInv'
<1>0. StackInv
  BY DEF ConversionInv
<1>1. CASE Reduction
  <2>1. CASE WhnfDeclines \/ CoreDeclines
    BY <1>0, <2>1, PassDeclineKeeps DEF WhnfDeclines, CoreDeclines, Returned
  <2> QED
    BY <1>1, <2>1, WhnfEnterKeeps, WhnfLoopKeeps, WhnfAgainKeeps, WhnfDoneKeeps,
       CoreEnterKeeps, CoreBetaKeeps, CoreMajorKeeps, CoreMajorUnfoldsKeeps,
       CoreMajorAgainKeeps, CoreMajorDoneKeeps, CoreDoneKeeps DEF Reduction
<1>2. CASE Speculation
  BY <1>2, DefeqEnterKeeps, SpecRawKeeps, SpecCoreKeeps, SpecCongKeeps, SpecDeltaKeeps,
     SpecFailsKeeps, SpecProvesKeeps, SpecExhaustedKeeps, SpecDeclinesKeeps DEF Speculation
<1>3. CASE Verdict
  BY <1>3, MainPathKeeps, MainNormalisedKeeps, MainAnswersKeeps, MainDeclinesKeeps,
     FallbackKeeps, FallbackReturnKeeps DEF Verdict
<1>4. CASE Comparison
  <2>1. CASE ArgsDecline \/ CompareDeclines
    BY <1>0, <2>1, PassDeclineKeeps DEF ArgsDecline, CompareDeclines, Returned
  <2> QED
    BY <1>4, <2>1, ArgsNextKeeps, ArgsReturnKeeps, CompareEnterKeeps, CompareSpineKeeps,
       CompareDeltaKeeps, CompareReturnKeeps DEF Comparison
<1>5. CASE LazyPaths
  <2>1. CASE LazyDeclines
    BY <1>0, <2>1, PassDeclineKeeps DEF LazyDeclines
  <2>2. CASE DeltaStepDeclines
    BY <1>0, <2>2, AnswerKeeps DEF DeltaStepDeclines
  <2> QED
    BY <1>5, <2>1, <2>2, StepSidesKeeps, DeltaEnterKeeps, DeltaRoundKeeps, DeltaSteppedKeeps,
       DeltaCheckKeeps, DeltaCongKeeps, LazyCoresKeeps, LazyLoopKeeps, LazySpineKeeps,
       LazyReturnKeeps, LazyCheckKeeps, HeadExposeKeeps, HeadTryKeeps, HeadReturnKeeps
       DEF LazyPaths
<1>6. CASE Query
  <2>1. PICK p \in Pairs : Goto(Entry("defeq", p[1], p[2]))
    BY <1>6 DEF Query
  <2>2. p[1] \in Term /\ p[2] \in Term /\ "defeq" \in Functions
    BY BoundsAssumption DEF Functions
  <2>3. top' \in Frame /\ Sound(top') /\ stack' = <<>>
    BY <1>6, <2>1, <2>2, EntryIsSound DEF Goto, Query, Idle
  <2> QED BY <2>3 DEF StackInv, StackOK
<1>7. CASE NewDeclaration
  BY <1>0, <1>7 DEF NewDeclaration, StackInv
<1> QED BY <1>1, <1>2, <1>3, <1>4, <1>5, <1>6, <1>7 DEF Next, Machine

\* Every step keeps the tables sound: what it enters, a frame has guaranteed.
LEMMA CachesStep ==
    ASSUME ConversionInv, Next
    PROVE  CachesAreSound'
<1>1. CASE Fills
  BY <1>1, WhnfDoneKeeps, CoreDoneKeeps, SpecProvesKeeps, MainAnswersKeeps,
     FallbackReturnKeeps DEF Fills
<1>2. CASE NewDeclaration
  BY <1>2, EmptyTable DEF NewDeclaration, CachesAreSound
<1>3. CASE UNCHANGED caches
  BY <1>3 DEF ConversionInv, CachesAreSound, caches
<1> QED BY <1>1, <1>2, <1>3, OthersKeepTables

\* The invariant holds of an idle checker with empty tables.
LEMMA InitInv == Init => ConversionInv
<1> SUFFICES ASSUME Init PROVE ConversionInv
  OBVIOUS
<1>1. PICK t \in Term : top = [Entry("idle", t, t) EXCEPT !.st = "ok"]
  BY DEF Init
<1>2. Entry("idle", t, t) \in Frame /\ Sound(Entry("idle", t, t))
  BY EntryIsSound DEF Functions
<1>3. /\ top \in Frame /\ top.fn = "idle"
  BY <1>1, <1>2 DEF Frame, Entry
<1>4. Sound(top)
  BY <1>3 DEF Sound, Derived
<1>5. stack = <<>>
  BY DEF Init
<1>6. StackInv
  BY <1>3, <1>4, <1>5 DEF StackInv, StackOK
<1>7. TypeOK
  <2>1. 0 \in 0..MaxQueries /\ 0 \in Nat
    BY BoundsAssumption
  <2>2. FlagsOK
    BY <2>1 DEF Init, FlagsOK
  <2>3. TablesOK
    BY EmptyTable DEF Init, TablesOK
  <2>4. top \in Frame /\ stack \in Seq(Frame)
    BY <1>3, <1>5
  <2> QED BY <2>2, <2>3, <2>4 DEF TypeOK, FlagsOK, TablesOK
<1>8. CachesAreSound
  BY EmptyTable DEF Init, CachesAreSound
<1> QED BY <1>6, <1>7, <1>8 DEF ConversionInv

\* The invariant is inductive.
LEMMA StepInv == ConversionInv /\ [Next]_vars => ConversionInv'
<1>1. ASSUME ConversionInv, Next
      PROVE  ConversionInv'
  <2>1. StackInv' /\ CachesAreSound' /\ TablesOK'
    BY <1>1, StackStep, CachesStep, TablesStep
  <2>2. FlagsOK'
    BY <1>1, ReductionFlags, SpeculationFlags, OtherFlags DEF Next, Machine
  <2>3. TypeOK'
    BY <2>1, <2>2 DEF TypeOK, TablesOK, FlagsOK, StackInv, StackOK
  <2> QED BY <2>1, <2>3 DEF ConversionInv
<1>2. ASSUME ConversionInv, UNCHANGED vars
      PROVE  ConversionInv'
  BY <1>2 DEF ConversionInv, TypeOK, StackInv, CachesAreSound, vars, flags, caches, driver
<1> QED BY <1>1, <1>2

\* In every reachable state every frame on the stack keeps its guarantee and
\* the memo tables relate equal terms: the inductive invariant of the
\* conversion checker (is_def_eq, whnf, whnf_core and what they call).
THEOREM InvariantHolds == Spec => []ConversionInv
BY InitInv, StepInv, PTL DEF Spec

\* The flags, frames and tables of the checker hold values of their kinds.
THEOREM TypeCorrect == Spec => []TypeOK
<1>1. ConversionInv => TypeOK
  BY DEF ConversionInv
<1> QED BY InvariantHolds, <1>1, PTL

\* Conversion is sound: an answer TRUE of is_def_eq, of congruence, of lazy
\* delta, of either main path or of the fallback is a definitional equality,
\* whatever was declined, aborted or cached before it.
THEOREM Soundness == Spec => []AnswersAreEqualities
<1>1. ConversionInv => AnswersAreEqualities
  BY FrameFacts DEF ConversionInv, StackInv, StackOK, AnswersAreEqualities, Equal
<1> QED BY InvariantHolds, <1>1, PTL

\* whnf_cache, whnf_core_cache and defeq_cache never relate terms that are not
\* definitionally equal.
THEOREM CacheSoundness == Spec => []CachesAreSound
<1>1. ConversionInv => CachesAreSound
  BY DEF ConversionInv
<1> QED BY InvariantHolds, <1>1, PTL

-----------------------------------------------------------------------------
(* The flag SPECULATING and the declines: the flag is set exactly while one  *)
(* outermost frame of is_def_eq speculates or falls back, and a speculative  *)
(* decline is followed by a proof of equality or by a decline.               *)

(* What a frame of is_def_eq may be, and how the frames lie on the stack *)

\* An outermost frame that is still running, speculating or not.
Outermost(f) == f.fn = "defeq" /\ f.outer /\ f.st = "run"

\* The places behind the speculative attempts.
AfterSpeculation == {"main", "main2", "whnfA", "whnfB", "both", "verdict", "last", "fallback"}

\* Only an outermost frame keeps a decline for later or reaches the last
\* resort; a kept decline is past speculation and answered by a proof only.
Placed(f) ==
    f.fn = "defeq" =>
        /\ f.declined => f.outer
        /\ f.declined /\ f.st = "run" => f.pc \in AfterSpeculation
        /\ f.declined /\ f.st = "ok" => f.eq
        /\ f.st = "run" /\ f.pc \in {"last", "fallback"} => f.outer

\* Frame t runs above the callers s, and sp says that one of them speculates:
\* no outermost frame is above the one that does.
Bracketed(t, s, sp) ==
    /\ sp <=> InSpeculation(t) \/ \E i \in 1..Len(s) : InSpeculation(s[i])
    /\ \A i, j \in 1..Len(s) : i < j /\ InSpeculation(s[i]) => ~Outermost(s[j])
    /\ \A i \in 1..Len(s) : InSpeculation(s[i]) => ~Outermost(t)

AllPlaced(t, s) == Placed(t) /\ \A i \in 1..Len(s) : Placed(s[i])

\* The inductive invariant, relative to ConversionInv.
SpeculationInv == Bracketed(top, stack, speculating) /\ AllPlaced(top, stack)

-----------------------------------------------------------------------------
(* Steps that leave the flag alone *)

\* Frame f becomes g in a step that is none of the flag's business.
Moves(f, g) ==
    /\ InSpeculation(g) <=> InSpeculation(f)
    /\ Outermost(g) => Outermost(f)
    /\ Placed(f) => Placed(g)

\* A frame of another function than is_def_eq.
Elsewhere(f) == f.fn # "defeq"

\* Such a frame neither speculates nor keeps a decline.
LEMMA ElsewhereFacts ==
    ASSUME NEW f, Elsewhere(f)
    PROVE  ~InSpeculation(f) /\ ~Outermost(f) /\ Placed(f)
BY DEF Elsewhere, InSpeculation, Outermost, Placed

\* It may become any other frame of its function.
LEMMA ElsewhereMoves ==
    ASSUME NEW f, NEW g, Elsewhere(f), g.fn = f.fn
    PROVE  Moves(f, g)
BY ElsewhereFacts DEF Elsewhere, Moves

\* A fresh frame is not outermost yet.
LEMMA EntryFacts ==
    ASSUME NEW fn, NEW a, NEW b
    PROVE  LET e == Entry(fn, a, b) IN ~InSpeculation(e) /\ ~Outermost(e) /\ Placed(e)
BY DEF Entry, InSpeculation, Outermost, Placed

\* A frame that has returned speculates no longer.
LEMMA ReturnedFacts ==
    ASSUME NEW f, f.st # "run"
    PROVE  ~InSpeculation(f) /\ ~Outermost(f)
BY DEF InSpeculation, Outermost

\* The frame that speculates is an outermost one.
LEMMA SpeculatorIsOutermost ==
    ASSUME NEW f, InSpeculation(f)
    PROVE  Outermost(f)
BY DEF InSpeculation, Outermost

\* Going on within a frame keeps the brackets.
LEMMA GotoBrackets ==
    ASSUME NEW t, NEW s, NEW sp, Bracketed(t, s, sp), AllPlaced(t, s),
           NEW g, Moves(t, g)
    PROVE  Bracketed(g, s, sp) /\ AllPlaced(g, s)
BY DEF Bracketed, AllPlaced, Moves

\* So does a call: the new frame is not outermost.
LEMMA AskBrackets ==
    ASSUME NEW t, NEW s \in Seq(Frame), NEW sp, Bracketed(t, s, sp), AllPlaced(t, s),
           NEW f, Moves(t, f),
           NEW g, ~InSpeculation(g), ~Outermost(g), Placed(g)
    PROVE  Bracketed(g, Append(s, f), sp) /\ AllPlaced(g, Append(s, f))
<1> DEFINE r == Append(s, f)
<1>1. /\ Len(s) \in Nat /\ Len(r) = Len(s) + 1
      /\ \A i \in 1..Len(s) : r[i] = s[i]
      /\ r[Len(s) + 1] = f
  <2>1. s \in Seq(Frame \cup {f}) /\ f \in Frame \cup {f}
    BY SeqDef
  <2> QED BY <2>1, AppendProperties
<1> HIDE DEF r
<1>2. \A i \in 1..Len(r) : i \in 1..Len(s) \/ i = Len(s) + 1
  BY <1>1
<1>3. Bracketed(f, s, sp) /\ AllPlaced(f, s)
  BY GotoBrackets
<1>4. \A i \in 1..Len(r) : Placed(r[i])
  BY <1>1, <1>2, <1>3 DEF AllPlaced
<1>5. sp <=> \E i \in 1..Len(r) : InSpeculation(r[i])
  <2>1. \A i \in 1..Len(s) : i \in 1..Len(r)
    BY <1>1
  <2>2. Len(s) + 1 \in 1..Len(r)
    BY <1>1
  <2> QED BY <1>1, <1>2, <1>3, <2>1, <2>2 DEF Bracketed
<1>6. \A i, j \in 1..Len(r) : i < j /\ InSpeculation(r[i]) => ~Outermost(r[j])
  <2> TAKE i, j \in 1..Len(r)
  <2> HAVE i < j /\ InSpeculation(r[i])
  <2>1. i \in 1..Len(s)
    BY <1>1
  <2>2. CASE j \in 1..Len(s)
    BY <1>1, <1>3, <2>1, <2>2 DEF Bracketed
  <2>3. CASE j = Len(s) + 1
    BY <1>1, <1>3, <2>1, <2>3 DEF Bracketed
  <2> QED BY <1>2, <2>2, <2>3
<1>7. Bracketed(g, r, sp) /\ AllPlaced(g, r)
  BY <1>4, <1>5, <1>6 DEF Bracketed, AllPlaced
<1> QED BY <1>7 DEF r

\* The callers without the innermost one, of which f is the last.
LEMMA BelowBrackets ==
    ASSUME NEW t, NEW s \in Seq(Frame), s # <<>>, NEW sp, Bracketed(t, s, sp),
           AllPlaced(t, s), t.st # "run"
    PROVE  LET r == SubSeq(s, 1, Len(s) - 1)
               c == s[Len(s)] IN
           Bracketed(c, r, sp) /\ AllPlaced(c, r)
<1> DEFINE r == SubSeq(s, 1, Len(s) - 1)
           c == s[Len(s)]
<1>1. Len(s) \in Nat /\ Len(s) >= 1
  OBVIOUS
<1>2. Len(r) = Len(s) - 1 /\ \A i \in 1..Len(s) - 1 : r[i] = s[i]
  BY <1>1, AllButLast
<1> HIDE DEF r
<1>3. /\ Len(s) \in 1..Len(s)
      /\ \A i \in 1..Len(r) : i \in 1..Len(s) /\ i < Len(s) /\ r[i] = s[i]
      /\ \A i \in 1..Len(s) : i \in 1..Len(r) \/ i = Len(s)
  BY <1>1, <1>2
<1>4. ~InSpeculation(t)
  BY ReturnedFacts
<1>5. AllPlaced(c, r)
  BY <1>3 DEF AllPlaced
<1>6. sp <=> InSpeculation(c) \/ \E i \in 1..Len(r) : InSpeculation(r[i])
  BY <1>3, <1>4 DEF Bracketed
<1>7. \A i, j \in 1..Len(r) : i < j /\ InSpeculation(r[i]) => ~Outermost(r[j])
  BY <1>3 DEF Bracketed
<1>8. \A i \in 1..Len(r) : InSpeculation(r[i]) => ~Outermost(c)
  BY <1>3 DEF Bracketed
<1>9. Bracketed(c, r, sp) /\ AllPlaced(c, r)
  BY <1>5, <1>6, <1>7, <1>8 DEF Bracketed
<1> QED BY <1>9 DEF r

\* The three ways a step changes the stack, when it keeps the flag.
LEMMA GotoQuiet ==
    ASSUME SpeculationInv, UNCHANGED speculating, NEW g, Moves(top, g), Goto(g)
    PROVE  SpeculationInv'
<1>1. Bracketed(g, stack, speculating) /\ AllPlaced(g, stack)
  BY GotoBrackets DEF SpeculationInv
<1> QED BY <1>1 DEF SpeculationInv, Goto

\* A step that calls.
LEMMA AskQuiet ==
    ASSUME StackInv, SpeculationInv, UNCHANGED speculating,
           NEW f, Moves(top, f), NEW fn, NEW a, NEW b, Ask(f, Entry(fn, a, b))
    PROVE  SpeculationInv'
<1> DEFINE g == Entry(fn, a, b)
<1>1. ~InSpeculation(g) /\ ~Outermost(g) /\ Placed(g)
  BY EntryFacts
<1>2. stack \in Seq(Frame)
  BY DEF StackInv, StackOK
<1>3. Ask(f, g)
  OBVIOUS
<1> HIDE DEF g
<1>4. Bracketed(g, Append(stack, f), speculating) /\ AllPlaced(g, Append(stack, f))
  BY <1>1, <1>2, AskBrackets DEF SpeculationInv
<1> QED BY <1>3, <1>4 DEF SpeculationInv, Ask

\* A step that returns.
LEMMA ResumeQuiet ==
    ASSUME StackInv, SpeculationInv, UNCHANGED speculating, stack # <<>>, top.st # "run",
           NEW g, Moves(Caller, g), Resume(g)
    PROVE  SpeculationInv'
<1> DEFINE r == SubSeq(stack, 1, Len(stack) - 1)
<1>1. Bracketed(Caller, r, speculating) /\ AllPlaced(Caller, r)
  BY BelowBrackets DEF SpeculationInv, StackInv, StackOK, Caller
<1>2. top' = g /\ stack' = r
  BY DEF Resume
<1> HIDE DEF r
<1>3. Bracketed(g, r, speculating) /\ AllPlaced(g, r)
  BY <1>1, GotoBrackets
<1> QED BY <1>2, <1>3 DEF SpeculationInv

\* The same three for a frame of another function.
LEMMA GotoElsewhere ==
    ASSUME SpeculationInv, UNCHANGED speculating, Elsewhere(top),
           NEW g, g.fn = top.fn, Goto(g)
    PROVE  SpeculationInv'
BY ElsewhereMoves, GotoQuiet

\* A call from elsewhere.
LEMMA AskElsewhere ==
    ASSUME StackInv, SpeculationInv, UNCHANGED speculating, Elsewhere(top),
           NEW f, f.fn = top.fn, NEW fn, NEW a, NEW b, Ask(f, Entry(fn, a, b))
    PROVE  SpeculationInv'
BY ElsewhereMoves, AskQuiet

\* A return to elsewhere.
LEMMA ResumeElsewhere ==
    ASSUME StackInv, SpeculationInv, UNCHANGED speculating, stack # <<>>, top.st # "run",
           Elsewhere(Caller), NEW g, g.fn = Caller.fn, Resume(g)
    PROVE  SpeculationInv'
BY ElsewhereMoves, ResumeQuiet

-----------------------------------------------------------------------------
(* The actions of the other functions *)

\* What answering, reducing and declining leave of a frame.
LEMMA FrameEnds ==
    ASSUME NEW f \in Frame
    PROVE  /\ \A r \in BOOLEAN : Answers(f, r).fn = f.fn
           /\ \A t : Reduces(f, t).fn = f.fn
           /\ Declines(f).fn = f.fn
BY DEF Answers, Reduces, Declines, Frame

\* What every action below may assume.
LEMMA StepFacts ==
    ASSUME StackInv
    PROVE  top \in Frame /\ (stack # <<>> => Caller \in Frame)
BY TopFacts, CallerFacts

\* Declining, in any frame, keeps the brackets while the flag stays.
LEMMA DeclinesElsewhere ==
    ASSUME StackInv, SpeculationInv, UNCHANGED speculating,
           \/ Elsewhere(top) /\ Goto(Declines(top))
           \/ stack # <<>> /\ Elsewhere(Caller) /\ PassDecline
    PROVE  SpeculationInv'
BY StepFacts, FrameEnds, GotoElsewhere, ResumeElsewhere DEF PassDecline

\* whnf and whnf_core keep the brackets.
LEMMA ReductionBrackets ==
    ASSUME StackInv, SpeculationInv, Reduction
    PROVE  SpeculationInv'
<1>0. top \in Frame /\ (stack # <<>> => Caller \in Frame)
  BY StepFacts
<1>1. CASE WhnfEnter
  BY <1>0, <1>1, GotoElsewhere, AskElsewhere, ResumeElsewhere
  DEF WhnfEnter, At, Returned, Ok, FreshDecline, PassDecline, flags, Elsewhere, Frame, Answers, Reduces,
      Declines
<1>2. CASE WhnfLoop
  BY <1>0, <1>2, GotoElsewhere, AskElsewhere, ResumeElsewhere
  DEF WhnfLoop, At, Returned, Ok, FreshDecline, PassDecline, flags, Elsewhere, Frame, Answers, Reduces,
      Declines
<1>3. CASE WhnfAgain
  BY <1>0, <1>3, GotoElsewhere, AskElsewhere, ResumeElsewhere
  DEF WhnfAgain, At, Returned, Ok, FreshDecline, PassDecline, flags, Elsewhere, Frame, Answers, Reduces,
      Declines
<1>4. CASE WhnfDone
  BY <1>0, <1>4, GotoElsewhere, AskElsewhere, ResumeElsewhere
  DEF WhnfDone, At, Returned, Ok, FreshDecline, PassDecline, flags, Elsewhere, Frame, Answers, Reduces,
      Declines
<1>5. CASE WhnfDeclines
  BY <1>0, <1>5, GotoElsewhere, AskElsewhere, ResumeElsewhere
  DEF WhnfDeclines, At, Returned, Ok, FreshDecline, PassDecline, flags, Elsewhere, Frame, Answers, Reduces,
      Declines
<1>6. CASE CoreEnter
  BY <1>0, <1>6, GotoElsewhere, AskElsewhere, ResumeElsewhere
  DEF CoreEnter, At, Returned, Ok, FreshDecline, PassDecline, flags, Elsewhere, Frame, Answers, Reduces,
      Declines
<1>7. CASE CoreBeta
  BY <1>0, <1>7, GotoElsewhere, AskElsewhere, ResumeElsewhere
  DEF CoreBeta, At, Returned, Ok, FreshDecline, PassDecline, flags, Elsewhere, Frame, Answers, Reduces,
      Declines
<1>8. CASE CoreMajor
  BY <1>0, <1>8, GotoElsewhere, AskElsewhere, ResumeElsewhere
  DEF CoreMajor, At, Returned, Ok, FreshDecline, PassDecline, flags, Elsewhere, Frame, Answers, Reduces,
      Declines
<1>9. CASE CoreMajorUnfolds
  BY <1>0, <1>9, GotoElsewhere, AskElsewhere, ResumeElsewhere
  DEF CoreMajorUnfolds, At, Returned, Ok, FreshDecline, PassDecline, flags, Elsewhere, Frame, Answers, Reduces,
      Declines
<1>10. CASE CoreMajorAgain
  BY <1>0, <1>10, GotoElsewhere, AskElsewhere, ResumeElsewhere
  DEF CoreMajorAgain, At, Returned, Ok, FreshDecline, PassDecline, flags, Elsewhere, Frame, Answers, Reduces,
      Declines
<1>11. CASE CoreMajorDone
  BY <1>0, <1>11, GotoElsewhere, AskElsewhere, ResumeElsewhere
  DEF CoreMajorDone, At, Returned, Ok, FreshDecline, PassDecline, flags, Elsewhere, Frame, Answers, Reduces,
      Declines
<1>12. CASE CoreDone
  BY <1>0, <1>12, GotoElsewhere, AskElsewhere, ResumeElsewhere
  DEF CoreDone, At, Returned, Ok, FreshDecline, PassDecline, flags, Elsewhere, Frame, Answers, Reduces,
      Declines
<1>13. CASE CoreDeclines
  BY <1>0, <1>13, GotoElsewhere, AskElsewhere, ResumeElsewhere
  DEF CoreDeclines, At, Returned, Ok, FreshDecline, PassDecline, flags, Elsewhere, Frame, Answers, Reduces,
      Declines
<1> QED
  BY <1>1, <1>2, <1>3, <1>4, <1>5, <1>6, <1>7, <1>8, <1>9, <1>10, <1>11, <1>12, <1>13 DEF Reduction

\* So do pairwise_args and is_def_eq_core.
LEMMA ComparisonBrackets ==
    ASSUME StackInv, SpeculationInv, Comparison
    PROVE  SpeculationInv'
<1>0. top \in Frame /\ (stack # <<>> => Caller \in Frame)
  BY StepFacts
<1>1. CASE ArgsNext
  BY <1>0, <1>1, GotoElsewhere, AskElsewhere, ResumeElsewhere
  DEF ArgsNext, At, Returned, Ok, FreshDecline, PassDecline, flags, Elsewhere, Frame, Answers, Reduces,
      Declines
<1>2. CASE ArgsReturn
  BY <1>0, <1>2, GotoElsewhere, AskElsewhere, ResumeElsewhere
  DEF ArgsReturn, At, Returned, Ok, FreshDecline, PassDecline, flags, Elsewhere, Frame, Answers, Reduces,
      Declines
<1>3. CASE ArgsDecline
  BY <1>0, <1>3, GotoElsewhere, AskElsewhere, ResumeElsewhere
  DEF ArgsDecline, At, Returned, Ok, FreshDecline, PassDecline, flags, Elsewhere, Frame, Answers, Reduces,
      Declines
<1>4. CASE CompareEnter
  BY <1>0, <1>4, GotoElsewhere, AskElsewhere, ResumeElsewhere
  DEF CompareEnter, At, Returned, Ok, FreshDecline, PassDecline, flags, Elsewhere, Frame, Answers, Reduces,
      Declines
<1>5. CASE CompareSpine
  BY <1>0, <1>5, GotoElsewhere, AskElsewhere, ResumeElsewhere
  DEF CompareSpine, At, Returned, Ok, FreshDecline, PassDecline, flags, Elsewhere, Frame, Answers, Reduces,
      Declines
<1>6. CASE CompareDelta
  BY <1>0, <1>6, GotoElsewhere, AskElsewhere, ResumeElsewhere
  DEF CompareDelta, At, Returned, Ok, FreshDecline, PassDecline, flags, Elsewhere, Frame, Answers, Reduces,
      Declines
<1>7. CASE CompareReturn
  BY <1>0, <1>7, GotoElsewhere, AskElsewhere, ResumeElsewhere
  DEF CompareReturn, At, Returned, Ok, FreshDecline, PassDecline, flags, Elsewhere, Frame, Answers, Reduces,
      Declines
<1>8. CASE CompareDeclines
  BY <1>0, <1>8, GotoElsewhere, AskElsewhere, ResumeElsewhere
  DEF CompareDeclines, At, Returned, Ok, FreshDecline, PassDecline, flags, Elsewhere, Frame, Answers, Reduces,
      Declines
<1> QED
  BY <1>1, <1>2, <1>3, <1>4, <1>5, <1>6, <1>7, <1>8 DEF Comparison

\* So do lazy delta, the lazy main path and the fallback's search.
LEMMA LazyPathsBrackets ==
    ASSUME StackInv, SpeculationInv, LazyPaths
    PROVE  SpeculationInv'
<1>0. top \in Frame /\ (stack # <<>> => Caller \in Frame)
  BY StepFacts
<1>1. CASE DeltaEnter
  BY <1>0, <1>1, GotoElsewhere, AskElsewhere, ResumeElsewhere
  DEF DeltaEnter, At, Returned, Ok, FreshDecline, PassDecline, flags, Elsewhere, Frame, Answers, Reduces,
      Declines
<1>2. CASE DeltaRound
  BY <1>0, <1>2, GotoElsewhere, AskElsewhere, ResumeElsewhere
  DEF DeltaRound, At, Returned, Ok, FreshDecline, PassDecline, flags, Elsewhere, Frame, Answers, Reduces,
      Declines
<1>3. CASE DeltaStepped
  BY <1>0, <1>3, GotoElsewhere, AskElsewhere, ResumeElsewhere
  DEF DeltaStepped, At, Returned, Ok, FreshDecline, PassDecline, flags, Elsewhere, Frame, Answers, Reduces,
      Declines
<1>4. CASE DeltaStepDeclines
  BY <1>0, <1>4, GotoElsewhere, AskElsewhere, ResumeElsewhere
  DEF DeltaStepDeclines, At, Returned, Ok, FreshDecline, PassDecline, flags, Elsewhere, Frame, Answers, Reduces,
      Declines
<1>5. CASE DeltaCheck
  BY <1>0, <1>5, GotoElsewhere, AskElsewhere, ResumeElsewhere
  DEF DeltaCheck, At, Returned, Ok, FreshDecline, PassDecline, flags, Elsewhere, Frame, Answers, Reduces,
      Declines
<1>6. CASE DeltaCong
  BY <1>0, <1>6, GotoElsewhere, AskElsewhere, ResumeElsewhere
  DEF DeltaCong, At, Returned, Ok, FreshDecline, PassDecline, flags, Elsewhere, Frame, Answers, Reduces,
      Declines
<1>7. CASE LazyCores
  BY <1>0, <1>7, GotoElsewhere, AskElsewhere, ResumeElsewhere
  DEF LazyCores, At, Returned, Ok, FreshDecline, PassDecline, flags, Elsewhere, Frame, Answers, Reduces,
      Declines
<1>8. CASE LazyLoop
  BY <1>0, <1>8, GotoElsewhere, AskElsewhere, ResumeElsewhere
  DEF LazyLoop, At, Returned, Ok, FreshDecline, PassDecline, flags, Elsewhere, Frame, Answers, Reduces,
      Declines
<1>9. CASE LazySpine
  BY <1>0, <1>9, GotoElsewhere, AskElsewhere, ResumeElsewhere
  DEF LazySpine, At, Returned, Ok, FreshDecline, PassDecline, flags, Elsewhere, Frame, Answers, Reduces,
      Declines
<1>10. CASE LazyReturn
  BY <1>0, <1>10, GotoElsewhere, AskElsewhere, ResumeElsewhere
  DEF LazyReturn, At, Returned, Ok, FreshDecline, PassDecline, flags, Elsewhere, Frame, Answers, Reduces,
      Declines
<1>11. CASE LazyCheck
  BY <1>0, <1>11, GotoElsewhere, AskElsewhere, ResumeElsewhere
  DEF LazyCheck, At, Returned, Ok, FreshDecline, PassDecline, flags, Elsewhere, Frame, Answers, Reduces,
      Declines
<1>12. CASE LazyDeclines
  BY <1>0, <1>12, GotoElsewhere, AskElsewhere, ResumeElsewhere
  DEF LazyDeclines, At, Returned, Ok, FreshDecline, PassDecline, flags, Elsewhere, Frame, Answers, Reduces,
      Declines
<1>13. CASE HeadExpose
  BY <1>0, <1>13, GotoElsewhere, AskElsewhere, ResumeElsewhere
  DEF HeadExpose, At, Returned, Ok, FreshDecline, PassDecline, flags, Elsewhere, Frame, Answers, Reduces,
      Declines
<1>14. CASE HeadTry
  BY <1>0, <1>14, GotoElsewhere, AskElsewhere, ResumeElsewhere
  DEF HeadTry, At, Returned, Ok, FreshDecline, PassDecline, flags, Elsewhere, Frame, Answers, Reduces,
      Declines
<1>15. CASE HeadReturn
  BY <1>0, <1>15, GotoElsewhere, AskElsewhere, ResumeElsewhere
  DEF HeadReturn, At, Returned, Ok, FreshDecline, PassDecline, flags, Elsewhere, Frame, Answers, Reduces,
      Declines
<1>16. ASSUME NEW fn \in {"lazydelta", "lazymain"}, StepSides(fn)
      PROVE  SpeculationInv'
  BY <1>0, <1>16, GotoElsewhere, AskElsewhere DEF StepSides, At, flags, Elsewhere, Frame
<1> QED
  BY <1>1, <1>2, <1>3, <1>4, <1>5, <1>6, <1>7, <1>8, <1>9, <1>10, <1>11, <1>12, <1>13, <1>14, <1>15, <1>16 DEF LazyPaths

-----------------------------------------------------------------------------
(* The actions of is_def_eq *)

\* A frame that is not speculating takes the flag: it becomes g, which is
\* outermost, while no other frame speculates.
LEMMA Takes ==
    ASSUME NEW t, NEW s, NEW sp, Bracketed(t, s, sp),
           \/ ~sp
           \/ Outermost(t) /\ ~InSpeculation(t),
           NEW g, InSpeculation(g)
    PROVE  Bracketed(g, s, TRUE)
BY DEF Bracketed

\* The frame that speculates gives the flag back, as a frame g that does not.
LEMMA GivesBack ==
    ASSUME NEW t, NEW s, NEW sp, Bracketed(t, s, sp), InSpeculation(t),
           NEW g, ~InSpeculation(g)
    PROVE  Bracketed(g, s, FALSE)
<1>1. Outermost(t)
  BY SpeculatorIsOutermost
<1> QED BY <1>1 DEF Bracketed

\* A return gives the flag back exactly when the caller is the one that set it.
LEMMA ResumeGivesBack ==
    ASSUME StackInv, SpeculationInv, stack # <<>>, top.st # "run",
           NEW g, Resume(g), ~InSpeculation(g), Placed(g),
           \/ InSpeculation(Caller) /\ speculating' = FALSE
           \/ /\ ~InSpeculation(Caller) /\ (Outermost(g) => Outermost(Caller))
              /\ speculating' = speculating
    PROVE  SpeculationInv'
<1> DEFINE r == SubSeq(stack, 1, Len(stack) - 1)
<1>1. Bracketed(Caller, r, speculating) /\ AllPlaced(Caller, r)
  BY BelowBrackets DEF SpeculationInv, StackInv, StackOK, Caller
<1>2. top' = g /\ stack' = r
  BY DEF Resume
<1> HIDE DEF r
<1>3. AllPlaced(g, r)
  BY <1>1 DEF AllPlaced
<1>4. CASE InSpeculation(Caller) /\ speculating' = FALSE
  BY <1>1, <1>2, <1>3, <1>4, GivesBack DEF SpeculationInv
<1>5. CASE ~InSpeculation(Caller) /\ (Outermost(g) => Outermost(Caller)) /\ speculating' = speculating
  <2>1. Bracketed(g, r, speculating)
    BY <1>1, <1>5 DEF Bracketed
  <2> QED BY <1>2, <1>3, <1>5, <2>1 DEF SpeculationInv
<1> QED BY <1>4, <1>5

\* Entering is_def_eq takes the flag unless a caller has it.
LEMMA DefeqEnterBrackets ==
    ASSUME ConversionInv, SpeculationInv, DefeqEnter
    PROVE  SpeculationInv'
<1>0. /\ top \in Frame /\ top.fn = "defeq" /\ top.pc = "enter" /\ top.st = "run"
      /\ Placed(top) /\ speculating \in BOOLEAN
  BY StepFacts DEF ConversionInv, TypeOK, DefeqEnter, At, SpeculationInv, AllPlaced
<1>1. ~top.declined /\ ~InSpeculation(top)
  BY <1>0 DEF Placed, AfterSpeculation, InSpeculation, SpecPcs
<1>2. CASE Goto(Declines(top)) /\ UNCHANGED speculating
  <2>1. Moves(top, Declines(top))
    BY <1>0, <1>1 DEF Moves, Declines, Frame, InSpeculation, Outermost, Placed
  <2> QED BY <1>2, <2>1, GotoQuiet
<1>3. ASSUME NEW r, Goto(Answers(top, r)), UNCHANGED speculating
      PROVE  SpeculationInv'
  <2>1. Moves(top, Answers(top, r))
    BY <1>0, <1>1 DEF Moves, Answers, Frame, InSpeculation, Outermost, Placed
  <2> QED BY <1>3, <2>1, GotoQuiet
<1>4. CASE /\ Goto([top EXCEPT !.outer = ~speculating, !.abort0 = coreAborted, !.pc = "raw"])
           /\ speculating' = TRUE
  <2> DEFINE g == [top EXCEPT !.outer = ~speculating, !.abort0 = coreAborted, !.pc = "raw"]
  <2>1. /\ g.fn = "defeq" /\ g.st = "run" /\ g.pc = "raw" /\ ~g.declined
        /\ g.outer = ~speculating
    BY <1>0, <1>1 DEF Frame
  <2>2. Goto(g)
    BY <1>4
  <2> HIDE DEF g
  <2>3. Placed(g) /\ AllPlaced(g, stack)
    BY <2>1 DEF Placed, SpeculationInv, AllPlaced
  <2>4. CASE speculating
    <3>1. ~InSpeculation(g) /\ ~Outermost(g)
      BY <2>1, <2>4 DEF InSpeculation, Outermost
    <3>2. Bracketed(g, stack, TRUE)
      BY <1>1, <2>4, <3>1 DEF SpeculationInv, Bracketed
    <3> QED BY <1>4, <2>2, <2>3, <3>2 DEF SpeculationInv, Goto
  <2>5. CASE ~speculating
    <3>1. InSpeculation(g)
      BY <2>1, <2>5 DEF InSpeculation, SpecPcs
    <3>2. Bracketed(g, stack, TRUE)
      BY <2>5, <3>1, Takes DEF SpeculationInv
    <3> QED BY <1>4, <2>2, <2>3, <3>2 DEF SpeculationInv, Goto
  <2> QED BY <1>0, <2>4, <2>5
<1> QED BY <1>2, <1>3, <1>4 DEF DefeqEnter, FreshDecline

\* The speculative attempts keep the flag.
LEMMA AttemptBrackets ==
    ASSUME StackInv, SpeculationInv, SpecRaw \/ SpecCore \/ SpecCong \/ SpecDelta \/ SpecFails
    PROVE  SpeculationInv'
<1>0. /\ top \in Frame /\ (stack # <<>> => Caller \in Frame /\ Caller.st = "run")
      /\ UNCHANGED speculating
  BY StepFacts, CallerFacts DEF SpecRaw, SpecCore, SpecCong, SpecDelta, SpecFails, flags
<1>1. ASSUME NEW f \in Frame, f.fn = "defeq", f.st = "run",
             f.pc \in SpecPcs \cup {"raw", "coreA", "coreB", "cong", "delta"},
             NEW g, g.fn = "defeq", g.st = "run",
             g.pc \in SpecPcs \cup {"raw", "coreA", "coreB", "cong", "delta"},
             g.outer = f.outer, g.declined = f.declined, g.eq = f.eq
      PROVE  Moves(f, g)
  BY <1>1 DEF Moves, InSpeculation, Outermost, Placed, AfterSpeculation, SpecPcs
<1>2. CASE SpecRaw
  BY <1>0, <1>1, <1>2, GotoQuiet, AskQuiet DEF SpecRaw, At, Frame, SpecPcs
<1>3. CASE SpecCore
  BY <1>0, <1>1, <1>3, AskQuiet DEF SpecCore, At, Frame, SpecPcs
<1>4. CASE SpecCong
  BY <1>0, <1>1, <1>4, GotoQuiet, AskQuiet DEF SpecCong, At, Frame, SpecPcs
<1>5. CASE SpecDelta
  BY <1>0, <1>1, <1>5, AskQuiet DEF SpecDelta, At, Frame, SpecPcs
<1>6. CASE SpecFails
  <2>0. /\ Caller \in Frame /\ Caller.fn = "defeq" /\ Caller.st = "run" /\ stack # <<>>
        /\ top.st # "run" /\ Caller.pc \in SpecPcs
    BY <1>0, <1>6 DEF SpecFails, Ok, SpecPcs
  <2>1. ASSUME NEW g, Resume(g), g.fn = "defeq", g.st = "run",
               g.pc \in SpecPcs \cup {"raw", "coreA", "coreB", "cong", "delta"},
               g.outer = Caller.outer, g.declined = Caller.declined, g.eq = Caller.eq
        PROVE  SpeculationInv'
    <3>1. Moves(Caller, g)
      BY <1>1, <2>0, <2>1
    <3> QED BY <1>0, <2>0, <2>1, <3>1, ResumeQuiet
  <2>2. ASSUME NEW p \in {"coreA", "delta"}, Resume([Caller EXCEPT !.pc = p])
        PROVE  SpeculationInv'
    BY <2>0, <2>1, <2>2 DEF Frame
  <2>3. CASE Resume([Caller EXCEPT !.x = top.x, !.pc = "coreB"])
    BY <2>0, <2>1, <2>3 DEF Frame
  <2>4. CASE Resume([Caller EXCEPT !.y = top.x, !.pc = "cong"])
    BY <2>0, <2>1, <2>4 DEF Frame
  <2> QED BY <1>6, <2>2, <2>3, <2>4 DEF SpecFails
<1> QED BY <1>2, <1>3, <1>4, <1>5, <1>6

\* The end of the attempts gives the flag back: a proof, no proof, or a decline.
LEMMA AttemptsEndBrackets ==
    ASSUME ConversionInv, SpeculationInv, SpecProves \/ SpecExhausted \/ SpecDeclines
    PROVE  SpeculationInv'
<1>0. /\ StackInv /\ stack # <<>> /\ Caller \in Frame /\ Caller.st = "run"
      /\ Caller.fn = "defeq" /\ Caller.pc \in SpecPcs /\ top.st # "run"
      /\ speculating \in BOOLEAN
  BY StepFacts, CallerFacts DEF ConversionInv, TypeOK, SpecProves, SpecExhausted,
     SpecDeclines, Returned, Ok, SpecPcs
<1>1. Placed(Caller)
  BY <1>0 DEF SpeculationInv, AllPlaced, Caller, StackInv, StackOK
<1>2. Caller.outer \in BOOLEAN /\ ~Caller.declined /\ (InSpeculation(Caller) <=> Caller.outer)
  BY <1>0, <1>1 DEF Frame, Placed, AfterSpeculation, SpecPcs, InSpeculation
<1>3. Caller.outer => speculating
  BY <1>0, <1>2 DEF SpeculationInv, Bracketed, Caller, StackInv, StackOK
<1>4. CASE SpecProves
  <2> DEFINE g == Answers(Caller, TRUE)
  <2>1. g.fn = "defeq" /\ g.st = "ok" /\ ~g.declined
    BY <1>0, <1>2 DEF Answers, Frame
  <2>2. Resume(g) /\ speculating' = (speculating /\ ~Caller.outer)
    BY <1>4 DEF SpecProves
  <2> HIDE DEF g
  <2>3. ~InSpeculation(g) /\ ~Outermost(g) /\ Placed(g)
    BY <2>1 DEF InSpeculation, Outermost, Placed
  <2> QED BY <1>0, <1>2, <2>2, <2>3, ResumeGivesBack
<1>5. CASE SpecExhausted
  <2> DEFINE g == [Caller EXCEPT !.x = Caller.a, !.y = Caller.b, !.pc = "main"]
  <2>1. g.fn = "defeq" /\ g.st = "run" /\ ~g.declined /\ g.pc = "main" /\ g.outer = Caller.outer
    BY <1>0, <1>2 DEF Frame
  <2>2. Resume(g) /\ speculating' = (speculating /\ ~Caller.outer)
    BY <1>5 DEF SpecExhausted
  <2> HIDE DEF g
  <2>3. ~InSpeculation(g) /\ (Outermost(g) => Outermost(Caller)) /\ Placed(g)
    BY <1>0, <2>1 DEF InSpeculation, Outermost, Placed, SpecPcs
  <2> QED BY <1>0, <1>2, <2>2, <2>3, ResumeGivesBack
<1>6. CASE SpecDeclines /\ Caller.outer
  <2> DEFINE g == [Caller EXCEPT !.x = Caller.a, !.y = Caller.b, !.declined = TRUE, !.pc = "main"]
  <2>1. g.fn = "defeq" /\ g.st = "run" /\ g.pc = "main" /\ g.outer
    BY <1>0, <1>6 DEF Frame
  <2>2. Resume(g) /\ speculating' = FALSE
    BY <1>6 DEF SpecDeclines
  <2> HIDE DEF g
  <2>3. ~InSpeculation(g) /\ Placed(g)
    BY <2>1 DEF InSpeculation, Placed, SpecPcs, AfterSpeculation
  <2> QED BY <1>0, <1>2, <1>6, <2>2, <2>3, ResumeGivesBack
<1>7. CASE SpecDeclines /\ ~Caller.outer
  <2> DEFINE g == Declines(Caller)
  <2>1. g.fn = "defeq" /\ g.st = "declined" /\ ~g.declined
    BY <1>0, <1>2 DEF Declines, Frame
  <2>2. Resume(g) /\ speculating' = speculating
    BY <1>7 DEF SpecDeclines
  <2> HIDE DEF g
  <2>3. ~InSpeculation(g) /\ ~Outermost(g) /\ Placed(g)
    BY <2>1 DEF InSpeculation, Outermost, Placed
  <2> QED BY <1>0, <1>2, <1>7, <2>2, <2>3, ResumeGivesBack
<1> QED BY <1>2, <1>4, <1>5, <1>6, <1>7

\* The places of the main path, where no frame speculates.
MainPcs == {"main", "main2", "whnfA", "whnfB", "both", "verdict", "last"}

\* The main path keeps the flag: there it is nobody's, or a caller's.
LEMMA MainBrackets ==
    ASSUME StackInv, SpeculationInv, MainPath \/ MainNormalised \/ MainAnswers \/ MainDeclines
    PROVE  SpeculationInv'
<1>0. /\ top \in Frame /\ (stack # <<>> => Caller \in Frame /\ Caller.st = "run")
      /\ UNCHANGED speculating
  BY StepFacts, CallerFacts DEF MainPath, MainNormalised, MainAnswers, MainDeclines, flags
<1>1. ASSUME NEW f, f.fn = "defeq", f.st = "run", f.pc \in MainPcs,
             NEW g, g.fn = "defeq", g.outer = f.outer, g.declined = f.declined,
             \/ g.st = "run" /\ g.pc \in MainPcs /\ (g.pc = "last" => (Placed(f) => f.outer))
             \/ g.st = "declined"
             \/ g.st = "ok" /\ (f.declined => g.eq)
      PROVE  Moves(f, g)
  BY <1>1 DEF Moves, InSpeculation, Outermost, Placed, AfterSpeculation, SpecPcs, MainPcs
<1>2. CASE MainPath
  <2>1. ASSUME NEW p \in MainPcs \ {"last"}, NEW fn, NEW a, NEW b,
               Ask([top EXCEPT !.pc = p], Entry(fn, a, b)),
               top.fn = "defeq", top.st = "run", top.pc \in MainPcs
        PROVE  SpeculationInv'
    <3> DEFINE f == [top EXCEPT !.pc = p]
    <3>1. /\ f.fn = "defeq" /\ f.st = "run" /\ f.pc = p
          /\ f.outer = top.outer /\ f.declined = top.declined
      BY <1>0, <2>1 DEF Frame
    <3>2. Ask(f, Entry(fn, a, b))
      BY <2>1
    <3> HIDE DEF f
    <3>3. Moves(top, f)
      BY <1>1, <2>1, <3>1
    <3> QED BY <1>0, <3>2, <3>3, AskQuiet
  <2> QED BY <1>2, <2>1 DEF MainPath, At, MainPcs
<1>3. ASSUME NEW g, Resume(g), stack # <<>>, top.st # "run", Caller.fn = "defeq",
             Caller.pc \in MainPcs, g.fn = "defeq", g.outer = Caller.outer,
             g.declined = Caller.declined,
             \/ g.st = "run" /\ g.pc \in MainPcs /\ (g.pc = "last" => (Placed(Caller) => Caller.outer))
             \/ g.st = "declined"
             \/ g.st = "ok" /\ (Caller.declined => g.eq)
      PROVE  SpeculationInv'
  <2>1. Moves(Caller, g)
    BY <1>0, <1>1, <1>3
  <2> QED BY <1>0, <1>3, <2>1, ResumeQuiet
<1>4. CASE MainNormalised
  <2>0. /\ stack # <<>> /\ top.st # "run" /\ Caller \in Frame /\ Caller.fn = "defeq"
        /\ Caller.pc \in MainPcs /\ Caller.st = "run"
    BY <1>0, <1>4 DEF MainNormalised, Ok, MainPcs
  <2>1. CASE Resume([Caller EXCEPT !.x = top.x, !.pc = "main2"])
    BY <1>3, <2>0, <2>1 DEF Frame, MainPcs
  <2>2. CASE Resume([Caller EXCEPT !.y = top.x, !.pc = "both"])
    BY <1>3, <2>0, <2>2 DEF Frame, MainPcs
  <2> QED BY <1>4, <2>1, <2>2 DEF MainNormalised
<1>5. CASE MainAnswers
  <2>0. /\ stack # <<>> /\ top.st # "run" /\ Caller \in Frame /\ Caller.fn = "defeq"
        /\ Caller.pc \in MainPcs /\ Resume(Answers(Caller, top.eq))
        /\ Caller.declined => top.eq
    BY <1>0, <1>5 DEF MainAnswers, Returned, MainPcs
  <2> DEFINE g == Answers(Caller, top.eq)
  <2>1. /\ g.fn = "defeq" /\ g.st = "ok" /\ g.eq = top.eq /\ g.outer = Caller.outer
        /\ g.declined = Caller.declined
    BY <2>0 DEF Answers, Frame
  <2>2. Resume(g)
    BY <2>0
  <2> HIDE DEF g
  <2> QED BY <1>3, <2>0, <2>1, <2>2
<1>6. CASE MainDeclines
  <2>0. /\ stack # <<>> /\ top.st # "run" /\ Caller \in Frame /\ Caller.fn = "defeq"
        /\ Caller.pc \in MainPcs /\ Caller.st = "run"
    BY <1>0, <1>6 DEF MainDeclines, Ok, MainPcs
  <2>1. CASE (Caller.outer \/ Caller.declined) /\ Resume([Caller EXCEPT !.pc = "last"])
    <3> DEFINE g == [Caller EXCEPT !.pc = "last"]
    <3>1. /\ g.fn = "defeq" /\ g.st = "run" /\ g.pc = "last" /\ g.outer = Caller.outer
          /\ g.declined = Caller.declined
      BY <2>0 DEF Frame
    <3>2. Placed(Caller) => Caller.outer
      BY <2>0, <2>1 DEF Placed
    <3>3. Resume(g) /\ "last" \in MainPcs
      BY <2>1 DEF MainPcs
    <3> HIDE DEF g
    <3> QED BY <1>3, <2>0, <3>1, <3>2, <3>3
  <2>2. CASE Resume(Declines(Caller))
    <3> DEFINE g == Declines(Caller)
    <3>1. /\ g.fn = "defeq" /\ g.st = "declined" /\ g.outer = Caller.outer
          /\ g.declined = Caller.declined
      BY <2>0 DEF Declines, Frame
    <3>2. Resume(g)
      BY <2>2
    <3> HIDE DEF g
    <3> QED BY <1>3, <2>0, <3>1, <3>2
  <2>3. \/ (Caller.outer \/ Caller.declined) /\ Resume([Caller EXCEPT !.pc = "last"])
        \/ Resume(Declines(Caller))
    BY <1>6 DEF MainDeclines, Ok
  <2> QED BY <2>1, <2>2, <2>3
<1> QED BY <1>2, <1>4, <1>5, <1>6

\* The last resort takes the flag: its frame is outermost, and none below it
\* speculates.
LEMMA FallbackBrackets ==
    ASSUME ConversionInv, SpeculationInv, Fallback
    PROVE  SpeculationInv'
<1>0. /\ top \in Frame /\ top.fn = "defeq" /\ top.st = "run" /\ top.pc = "last"
      /\ Placed(top) /\ stack \in Seq(Frame) /\ StackInv
  BY StepFacts DEF ConversionInv, TypeOK, Fallback, At, SpeculationInv, AllPlaced
<1>1. top.outer
  BY <1>0 DEF Placed
<1>2. Outermost(top) /\ ~InSpeculation(top)
  BY <1>0, <1>1 DEF Outermost, InSpeculation, SpecPcs
<1>3. CASE Goto(Declines(top)) /\ UNCHANGED speculating
  <2> DEFINE g == Declines(top)
  <2>1. g.fn = "defeq" /\ g.st = "declined" /\ g.outer = top.outer /\ g.declined = top.declined
    BY <1>0 DEF Declines, Frame
  <2>2. Goto(g)
    BY <1>3
  <2> HIDE DEF g
  <2>3. Moves(top, g)
    BY <1>0, <1>2, <2>1 DEF Moves, InSpeculation, Outermost, Placed
  <2> QED BY <1>3, <2>2, <2>3, GotoQuiet
<1>4. CASE /\ Ask([top EXCEPT !.pc = "fallback", !.n = fallbackTries],
                  Entry("lazyhead", top.a, top.b))
           /\ speculating' = TRUE
  <2> DEFINE f == [top EXCEPT !.pc = "fallback", !.n = fallbackTries]
             g == Entry("lazyhead", top.a, top.b)
  <2>1. /\ f.fn = "defeq" /\ f.st = "run" /\ f.pc = "fallback" /\ f.outer
        /\ f.declined = top.declined
    BY <1>0, <1>1 DEF Frame
  <2>2. ~InSpeculation(g) /\ ~Outermost(g) /\ Placed(g)
    BY EntryFacts
  <2>3. Ask(f, g)
    BY <1>4
  <2> HIDE DEF f, g
  <2>4. InSpeculation(f) /\ Placed(f)
    BY <2>1 DEF InSpeculation, SpecPcs, Placed, AfterSpeculation
  <2>5. Bracketed(f, stack, TRUE) /\ AllPlaced(f, stack)
    BY <1>2, <2>4, Takes DEF SpeculationInv, AllPlaced
  <2>6. Moves(f, f)
    BY DEF Moves
  <2>7. Bracketed(g, Append(stack, f), TRUE) /\ AllPlaced(g, Append(stack, f))
    BY <1>0, <2>2, <2>5, <2>6, AskBrackets
  <2> QED BY <1>4, <2>3, <2>7 DEF SpeculationInv, Ask
<1> QED BY <1>3, <1>4 DEF Fallback

\* Its return gives the flag back, with a proof or a decline.
LEMMA FallbackReturnBrackets ==
    ASSUME StackInv, SpeculationInv, FallbackReturn
    PROVE  SpeculationInv'
<1>0. /\ stack # <<>> /\ Caller \in Frame /\ Caller.st = "run" /\ Caller.fn = "defeq"
      /\ Caller.pc = "fallback" /\ top.st # "run" /\ speculating' = FALSE
  BY StepFacts, CallerFacts DEF FallbackReturn, Returned
<1>1. Placed(Caller)
  BY <1>0 DEF SpeculationInv, AllPlaced, Caller, StackInv, StackOK
<1>2. InSpeculation(Caller)
  BY <1>0, <1>1 DEF Placed, InSpeculation
<1>3. Caller.outer
  BY <1>2 DEF InSpeculation
<1>4. CASE Resume(Answers(Caller, TRUE))
  <2> DEFINE g == Answers(Caller, TRUE)
  <2>1. g.fn = "defeq" /\ g.st = "ok" /\ g.eq /\ g.outer
    BY <1>0, <1>3 DEF Answers, Frame
  <2>2. Resume(g)
    BY <1>4
  <2> HIDE DEF g
  <2>3. ~InSpeculation(g) /\ Placed(g)
    BY <2>1 DEF InSpeculation, Placed
  <2> QED BY <1>0, <1>2, <2>2, <2>3, ResumeGivesBack
<1>5. CASE Resume(Declines(Caller))
  <2> DEFINE g == Declines(Caller)
  <2>1. g.fn = "defeq" /\ g.st = "declined" /\ g.outer
    BY <1>0, <1>3 DEF Declines, Frame
  <2>2. Resume(g)
    BY <1>5
  <2> HIDE DEF g
  <2>3. ~InSpeculation(g) /\ Placed(g)
    BY <2>1 DEF InSpeculation, Placed
  <2> QED BY <1>0, <1>2, <2>2, <2>3, ResumeGivesBack
<1> QED BY <1>4, <1>5 DEF FallbackReturn

-----------------------------------------------------------------------------
(* The theorems *)

\* The invariant holds of an idle checker.
LEMMA InitSpeculation == Init => SpeculationInv
<1> SUFFICES ASSUME Init PROVE SpeculationInv
  OBVIOUS
<1>1. PICK t \in Term : top = [Entry("idle", t, t) EXCEPT !.st = "ok"]
  BY DEF Init
<1>2. top.fn = "idle"
  BY <1>1 DEF Entry
<1>3. ~InSpeculation(top) /\ ~Outermost(top) /\ Placed(top)
  BY <1>2, ElsewhereFacts DEF Elsewhere
<1>4. stack = <<>> /\ Len(<<>>) = 0 /\ ~speculating
  BY DEF Init
<1> QED BY <1>3, <1>4 DEF SpeculationInv, Bracketed, AllPlaced

\* Every step keeps it.
LEMMA StepSpeculation ==
    ASSUME ConversionInv, SpeculationInv, [Next]_vars
    PROVE  SpeculationInv'
<1>0. StackInv
  BY DEF ConversionInv
<1>1. CASE Reduction \/ Comparison \/ LazyPaths
  BY <1>0, <1>1, ReductionBrackets, ComparisonBrackets, LazyPathsBrackets
<1>2. CASE Speculation
  BY <1>0, <1>2, DefeqEnterBrackets, AttemptBrackets, AttemptsEndBrackets DEF Speculation
<1>3. CASE Verdict
  BY <1>0, <1>3, MainBrackets, FallbackBrackets, FallbackReturnBrackets DEF Verdict
<1>4. CASE Query
  <2>1. PICK p \in Pairs : Goto(Entry("defeq", p[1], p[2]))
    BY <1>4 DEF Query
  <2> DEFINE g == Entry("defeq", p[1], p[2])
  <2>2. ~InSpeculation(g) /\ ~Outermost(g) /\ Placed(g)
    BY EntryFacts
  <2>3. Goto(g) /\ stack = <<>> /\ top.st # "run" /\ UNCHANGED speculating
    BY <1>4, <2>1 DEF Query, Idle
  <2> HIDE DEF g
  <2>4. ~speculating /\ stack' = <<>> /\ top' = g /\ Len(<<>>) = 0
    BY <2>3, ReturnedFacts DEF SpeculationInv, Bracketed, Goto
  <2> QED BY <2>2, <2>3, <2>4 DEF SpeculationInv, Bracketed, AllPlaced
<1>5. CASE NewDeclaration
  BY <1>5 DEF NewDeclaration, SpeculationInv
<1>6. CASE UNCHANGED vars
  BY <1>6 DEF SpeculationInv, vars, flags
<1> QED BY <1>1, <1>2, <1>3, <1>4, <1>5, <1>6 DEF Next, Machine

\* In every reachable state the outermost frames lie on the stack as the flag
\* says, and a kept decline is past speculation: the inductive invariant of
\* the speculative comparison (is_def_eq_inner_body, try_fallback).
THEOREM SpeculationHolds == Spec => []SpeculationInv
<1>1. ConversionInv /\ SpeculationInv /\ [Next]_vars => SpeculationInv'
  BY StepSpeculation
<1> QED BY InvariantHolds, InitSpeculation, <1>1, PTL DEF Spec

\* SPECULATING is set exactly while one outermost frame of is_def_eq is inside
\* its speculative attempts or its fallback, and it is clear again however
\* that frame leaves them.
THEOREM FlagIsBracketed == Spec => []SpeculationBracketed
<1>1. ConversionInv /\ SpeculationInv => SpeculationBracketed
  <2> SUFFICES ASSUME ConversionInv, SpeculationInv PROVE SpeculationBracketed
    OBVIOUS
  <2>1. Len(stack) \in Nat
    BY DEF ConversionInv, TypeOK
  <2>2. /\ DOMAIN Frames = 1..Len(stack) + 1
        /\ \A i \in 1..Len(stack) : Frames[i] = stack[i]
        /\ Frames[Len(stack) + 1] = top
    BY <2>1 DEF Frames
  <2>3. /\ \A i \in DOMAIN Frames : i \in 1..Len(stack) \/ i = Len(stack) + 1
        /\ 1..Len(stack) \subseteq DOMAIN Frames /\ Len(stack) + 1 \in DOMAIN Frames
    BY <2>1, <2>2
  <2>4. speculating <=> \E i \in DOMAIN Frames : InSpeculation(Frames[i])
    BY <2>2, <2>3 DEF SpeculationInv, Bracketed
  <2>5. ASSUME NEW i \in DOMAIN Frames, NEW j \in DOMAIN Frames, i < j,
               InSpeculation(Frames[i]), InSpeculation(Frames[j])
        PROVE  FALSE
    <3>1. i \in 1..Len(stack) /\ Outermost(Frames[j])
      BY <2>1, <2>2, <2>5, SpeculatorIsOutermost
    <3> QED BY <2>2, <2>3, <2>5, <3>1 DEF SpeculationInv, Bracketed
  <2>6. \A i, j \in DOMAIN Frames : i \in Nat /\ j \in Nat /\ (i = j \/ i < j \/ j < i)
    BY <2>1, <2>2
  <2> QED BY <2>4, <2>5, <2>6 DEF SpeculationBracketed
<1> QED BY InvariantHolds, SpeculationHolds, <1>1, PTL

-----------------------------------------------------------------------------
(* Declines: a kept decline is answered by a proof or by a decline *)

\* A frame that has not decided a comparison of is_def_eq or is_def_eq_core.
Undecided(g) == g.st # "ok" \/ g.fn \notin {"defeq", "compare"}

\* Frames whose answer a decline binds, and what they may answer.
Yielding(g) ==
    g.st = "ok" =>
        /\ g.fn = "defeq" /\ (g.declined \/ g.pc \in {"last", "fallback"}) => g.eq
        /\ g.fn = "compare" /\ g.declined => g.eq

\* What the lemmas below assume of the frames a step may touch.
Moved == top \in Frame /\ (stack # <<>> => Caller \in Frame /\ Caller.st = "run")

\* In a reachable state they are frames, and a caller is running.
LEMMA MovedFacts ==
    ASSUME StackInv
    PROVE  Moved
BY StepFacts, CallerFacts DEF Moved

\* A step leaves the frame it goes on with, calls or returns to on top.
LEMMA GotoUndecided ==
    ASSUME NEW g, Goto(g), Undecided(g)
    PROVE  Undecided(top')
BY DEF Goto

\* A frame that has just been called has decided nothing.
LEMMA AskUndecided ==
    ASSUME NEW f, NEW fn, NEW a, NEW b, Ask(f, Entry(fn, a, b))
    PROVE  Undecided(top')
BY DEF Ask, Entry, Undecided

\* A return goes on with the caller.
LEMMA ResumeUndecided ==
    ASSUME NEW g, Resume(g), Undecided(g)
    PROVE  Undecided(top')
BY DEF Resume

\* The same of a frame that yields.
LEMMA GotoYields ==
    ASSUME NEW g, Goto(g), Yielding(g)
    PROVE  Yielding(top')
BY DEF Goto

\* A frame that has just been called has nothing to yield to.
LEMMA AskYields ==
    ASSUME NEW f, NEW fn, NEW a, NEW b, Ask(f, Entry(fn, a, b))
    PROVE  Yielding(top')
BY DEF Ask, Entry, Yielding

\* A return goes on with the caller.
LEMMA ResumeYields ==
    ASSUME NEW g, Resume(g), Yielding(g)
    PROVE  Yielding(top')
BY DEF Resume

\* whnf and whnf_core decide no comparison.
LEMMA ReductionDecidesNothing ==
    ASSUME Moved, Reduction
    PROVE  Undecided(top')
<1> USE GotoUndecided, AskUndecided, ResumeUndecided
    DEF At, Returned, Answers, Reduces, Declines, FreshDecline, PassDecline, Ok
<1>0. Moved
  OBVIOUS
<1>1. CASE WhnfEnter
  BY <1>0, <1>1 DEF WhnfEnter, Moved, Undecided, Frame
<1>2. CASE WhnfLoop
  BY <1>0, <1>2 DEF WhnfLoop, Moved, Undecided, Frame
<1>3. CASE WhnfAgain
  BY <1>0, <1>3 DEF WhnfAgain, Moved, Undecided, Frame
<1>4. CASE WhnfDone
  BY <1>0, <1>4 DEF WhnfDone, Moved, Undecided, Frame
<1>5. CASE WhnfDeclines
  BY <1>0, <1>5 DEF WhnfDeclines, Moved, Undecided, Frame
<1>6. CASE CoreEnter
  BY <1>0, <1>6 DEF CoreEnter, Moved, Undecided, Frame
<1>7. CASE CoreBeta
  BY <1>0, <1>7 DEF CoreBeta, Moved, Undecided, Frame
<1>8. CASE CoreMajor
  BY <1>0, <1>8 DEF CoreMajor, Moved, Undecided, Frame
<1>9. CASE CoreMajorUnfolds
  BY <1>0, <1>9 DEF CoreMajorUnfolds, Moved, Undecided, Frame
<1>10. CASE CoreMajorAgain
  BY <1>0, <1>10 DEF CoreMajorAgain, Moved, Undecided, Frame
<1>11. CASE CoreMajorDone
  BY <1>0, <1>11 DEF CoreMajorDone, Moved, Undecided, Frame
<1>12. CASE CoreDone
  BY <1>0, <1>12 DEF CoreDone, Moved, Undecided, Frame
<1>13. CASE CoreDeclines
  BY <1>0, <1>13 DEF CoreDeclines, Moved, Undecided, Frame
<1> QED BY <1>1, <1>2, <1>3, <1>4, <1>5, <1>6, <1>7, <1>8, <1>9, <1>10, <1>11, <1>12, <1>13 DEF Reduction

\* Nor do the lazy loops and the fallback's search.
LEMMA LazyPathsDecideNothing ==
    ASSUME Moved, LazyPaths
    PROVE  Undecided(top')
<1> USE GotoUndecided, AskUndecided, ResumeUndecided
    DEF At, Returned, Answers, Reduces, Declines, FreshDecline, PassDecline, Ok
<1>0. Moved
  OBVIOUS
<1>1. CASE StepSides("lazydelta")
  BY <1>0, <1>1 DEF StepSides, Moved, Undecided, Frame
<1>2. CASE StepSides("lazymain")
  BY <1>0, <1>2 DEF StepSides, Moved, Undecided, Frame
<1>3. CASE DeltaEnter
  BY <1>0, <1>3 DEF DeltaEnter, Moved, Undecided, Frame
<1>4. CASE DeltaRound
  BY <1>0, <1>4 DEF DeltaRound, Moved, Undecided, Frame
<1>5. CASE DeltaStepped
  BY <1>0, <1>5 DEF DeltaStepped, Moved, Undecided, Frame
<1>6. CASE DeltaStepDeclines
  BY <1>0, <1>6 DEF DeltaStepDeclines, Moved, Undecided, Frame
<1>7. CASE DeltaCheck
  BY <1>0, <1>7 DEF DeltaCheck, Moved, Undecided, Frame
<1>8. CASE DeltaCong
  BY <1>0, <1>8 DEF DeltaCong, Moved, Undecided, Frame
<1>9. CASE LazyCores
  BY <1>0, <1>9 DEF LazyCores, Moved, Undecided, Frame
<1>10. CASE LazyLoop
  BY <1>0, <1>10 DEF LazyLoop, Moved, Undecided, Frame
<1>11. CASE LazySpine
  BY <1>0, <1>11 DEF LazySpine, Moved, Undecided, Frame
<1>12. CASE LazyReturn
  BY <1>0, <1>12 DEF LazyReturn, Moved, Undecided, Frame
<1>13. CASE LazyCheck
  BY <1>0, <1>13 DEF LazyCheck, Moved, Undecided, Frame
<1>14. CASE LazyDeclines
  BY <1>0, <1>14 DEF LazyDeclines, Moved, Undecided, Frame
<1>15. CASE HeadExpose
  BY <1>0, <1>15 DEF HeadExpose, Moved, Undecided, Frame
<1>16. CASE HeadTry
  BY <1>0, <1>16 DEF HeadTry, Moved, Undecided, Frame
<1>17. CASE HeadReturn
  BY <1>0, <1>17 DEF HeadReturn, Moved, Undecided, Frame
<1> QED BY <1>1, <1>2, <1>3, <1>4, <1>5, <1>6, <1>7, <1>8, <1>9, <1>10, <1>11, <1>12, <1>13, <1>14, <1>15, <1>16, <1>17 DEF LazyPaths

\* The steps of a comparison that hand over decide nothing.
LEMMA HandOversDecideNothing ==
    ASSUME Moved,
           \/ SpecRaw \/ SpecCore \/ SpecCong \/ SpecDelta
           \/ SpecFails \/ SpecExhausted \/ SpecDeclines
           \/ MainPath \/ MainNormalised \/ MainDeclines \/ Fallback
           \/ ArgsNext \/ ArgsReturn \/ ArgsDecline \/ CompareDeclines
    PROVE  Undecided(top')
<1> USE GotoUndecided, AskUndecided, ResumeUndecided
    DEF At, Returned, Answers, Reduces, Declines, FreshDecline, PassDecline, Ok
<1>0. Moved
  OBVIOUS
<1>1. CASE SpecRaw
  BY <1>0, <1>1 DEF SpecRaw, Moved, Undecided, Frame
<1>2. CASE SpecCore
  BY <1>0, <1>2 DEF SpecCore, Moved, Undecided, Frame
<1>3. CASE SpecCong
  BY <1>0, <1>3 DEF SpecCong, Moved, Undecided, Frame
<1>4. CASE SpecDelta
  BY <1>0, <1>4 DEF SpecDelta, Moved, Undecided, Frame
<1>5. CASE SpecFails
  BY <1>0, <1>5 DEF SpecFails, Moved, Undecided, Frame
<1>6. CASE SpecExhausted
  BY <1>0, <1>6 DEF SpecExhausted, Moved, Undecided, Frame
<1>7. CASE SpecDeclines
  BY <1>0, <1>7 DEF SpecDeclines, Moved, Undecided, Frame
<1>8. CASE MainPath
  BY <1>0, <1>8 DEF MainPath, Moved, Undecided, Frame
<1>9. CASE MainNormalised
  BY <1>0, <1>9 DEF MainNormalised, Moved, Undecided, Frame
<1>10. CASE MainDeclines
  BY <1>0, <1>10 DEF MainDeclines, Moved, Undecided, Frame
<1>11. CASE Fallback
  BY <1>0, <1>11 DEF Fallback, Moved, Undecided, Frame
<1>12. CASE ArgsNext
  BY <1>0, <1>12 DEF ArgsNext, Moved, Undecided, Frame
<1>13. CASE ArgsReturn
  BY <1>0, <1>13 DEF ArgsReturn, Moved, Undecided, Frame
<1>14. CASE ArgsDecline
  BY <1>0, <1>14 DEF ArgsDecline, Moved, Undecided, Frame
<1>15. CASE CompareDeclines
  BY <1>0, <1>15 DEF CompareDeclines, Moved, Undecided, Frame
<1> QED BY <1>1, <1>2, <1>3, <1>4, <1>5, <1>6, <1>7, <1>8, <1>9, <1>10, <1>11, <1>12, <1>13, <1>14, <1>15

\* The steps that decide one yield to a decline the frame has kept.  A frame
\* that enters has kept none.
LEMMA DecisionsYield ==
    ASSUME Moved, SpeculationInv,
           \/ DefeqEnter \/ SpecProves \/ MainAnswers \/ FallbackReturn
           \/ CompareEnter \/ CompareSpine \/ CompareDelta \/ CompareReturn
    PROVE  Yielding(top')
<1> USE GotoYields, AskYields, ResumeYields
    DEF At, Returned, Answers, Reduces, Declines, FreshDecline, PassDecline, Ok
<1>0. Moved /\ (top.fn = "defeq" => Placed(top))
  BY DEF SpeculationInv, AllPlaced
<1>1. CASE DefeqEnter
  BY <1>0, <1>1 DEF DefeqEnter, Moved, Yielding, Frame, Placed, AfterSpeculation
<1>2. CASE SpecProves
  BY <1>0, <1>2 DEF SpecProves, Moved, Yielding, Frame, Placed, AfterSpeculation
<1>3. CASE MainAnswers
  BY <1>0, <1>3 DEF MainAnswers, Moved, Yielding, Frame, Placed, AfterSpeculation
<1>4. CASE FallbackReturn
  BY <1>0, <1>4 DEF FallbackReturn, Moved, Yielding, Frame, Placed, AfterSpeculation
<1>5. CASE CompareEnter
  BY <1>0, <1>5 DEF CompareEnter, Moved, Yielding, Frame, Placed, AfterSpeculation
<1>6. CASE CompareSpine
  BY <1>0, <1>6 DEF CompareSpine, Moved, Yielding, Frame, Placed, AfterSpeculation
<1>7. CASE CompareDelta
  BY <1>0, <1>7 DEF CompareDelta, Moved, Yielding, Frame, Placed, AfterSpeculation
<1>8. CASE CompareReturn
  BY <1>0, <1>8 DEF CompareReturn, Moved, Yielding, Frame, Placed, AfterSpeculation
<1> QED BY <1>1, <1>2, <1>3, <1>4, <1>5, <1>6, <1>7, <1>8

\* Every step keeps the promise.
LEMMA StepYields ==
    ASSUME ConversionInv, SpeculationInv, Yielding(top), [Next]_vars
    PROVE  Yielding(top')
<1>0. Moved
  BY MovedFacts DEF ConversionInv
<1>1. ASSUME Undecided(top') PROVE Yielding(top')
  BY <1>1 DEF Undecided, Yielding
<1>2. CASE Reduction \/ LazyPaths
  BY <1>0, <1>1, <1>2, ReductionDecidesNothing, LazyPathsDecideNothing
<1>3. CASE Speculation \/ Verdict \/ Comparison
  BY <1>0, <1>1, <1>3, HandOversDecideNothing, DecisionsYield
  DEF Speculation, Verdict, Comparison
<1>4. CASE Query
  BY <1>4 DEF Query, Goto, Entry, Yielding
<1>5. CASE NewDeclaration \/ UNCHANGED vars
  BY <1>5 DEF NewDeclaration, vars
<1> QED BY <1>2, <1>3, <1>4, <1>5 DEF Next, Machine

\* A decline that was kept is not hidden by a later FALSE: a comparison whose speculation or
\* main path has declined, and a structural comparison that has kept the decline
\* of an argument, answer TRUE or decline (is_def_eq_inner_body, is_def_eq_core).
THEOREM DeclineYields == Spec => []DeclineYieldsToProofOnly
<1>1. Init => Yielding(top)
  BY DEF Init, Entry, Yielding
<1>2. ConversionInv /\ SpeculationInv /\ Yielding(top) /\ [Next]_vars => Yielding(top)'
  BY StepYields DEF Yielding
<1>3. Yielding(top) => DeclineYieldsToProofOnly
  BY DEF Yielding, DeclineYieldsToProofOnly
<1> QED BY InvariantHolds, SpeculationHolds, <1>1, <1>2, <1>3, PTL DEF Spec

=============================================================================
