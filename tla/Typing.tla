------------------------------- MODULE Typing -------------------------------
(***************************************************************************)
(* The check of a stream of declarations: the parser's admission of one     *)
(* record, the two passes of `check_decl`, the forced-eager rescue, and      *)
(* `infer_type` with its memo tables.                                       *)
(*                                                                         *)
(* Conversion is used by its promise (module Conversion): a comparison       *)
(* answers TRUE only for definitionally equal terms, a reduction keeps its   *)
(* term up to equality, and either may give up.  Both may infer types while  *)
(* they run, most of the time without checking (`with_infer_only`), and so   *)
(* write into the table that the checking inference around them reads.       *)
(*                                                                         *)
(* As in Conversion, `top` is the running frame and `stack` its callers.    *)
(***************************************************************************)
EXTENDS Naturals, Sequences, FiniteSets

CONSTANTS
    Exp,        \* expressions, each in its local context
    Kind,       \* Kind[e]: see Kinds
    Sub,        \* Sub[e]: subterms in the order infer_type visits them
    ConstOf,    \* ConstOf[e]: the constant a "const" names
    TypeOf,     \* TypeOf[e]: the type infer_type derives
    Dom,        \* Dom[t]: domain of the function type t reduces to
    Exposes,    \* Exposes[t]: what type t reduces to
    Fields,     \* Fields[e]: the field a "proj" takes, then the fields that
                \* types of the structure refer to
    Equal,      \* definitional equality: a subset of Exp \X Exp
    Name,       \* constants
    Base,       \* constants admitted by other records (inductive, quotient)
    NoName, NoExp,
    Exports,    \* the exports: sequences of declarations
    MaxEntries, \* the infer tables are cleared at this size (50_000)
    MaxProbes,  \* bound of the model: inferences started by conversion
    Probes      \* bound of the model: the expressions they start from

Kinds == {"const", "app", "lam", "pi", "let", "proj", "leaf"}
Forms == {"pi", "sort", "prop", "struct", "stuck"}
\* A field: its type, and whether it comes after the field taken.
Field == [typ : Exp, later : BOOLEAN]
\* dup: a universe parameter is repeated; unsafe: so marked, or partial.
Decl == [name : Name, theorem : BOOLEAN, typ : Exp, value : Exp \cup {NoExp},
         dup : BOOLEAN, unsafe : BOOLEAN]

ASSUME TypingAssumption ==
    /\ Kind \in [Exp -> Kinds]
    /\ Sub \in [Exp -> Seq(Exp)]
    /\ \A e \in Exp : Len(Sub[e]) = CASE Kind[e] \in {"const", "leaf"} -> 0
                                      [] Kind[e] = "proj" -> 1
                                      [] Kind[e] = "let" -> 3
                                      [] OTHER -> 2
    /\ ConstOf \in [Exp -> Name]
    /\ TypeOf \in [Exp -> Exp] /\ Dom \in [Exp -> Exp]
    /\ Fields \in [Exp -> Seq(Field)]
    /\ Exposes \in [Exp -> Forms]
    /\ Equal \subseteq Exp \X Exp
    /\ Base \subseteq Name /\ NoName \notin Name /\ NoExp \notin Exp
    /\ Exports \subseteq Seq(Decl)
    /\ MaxEntries \in Nat /\ MaxProbes \in Nat
    /\ Probes \subseteq Exp

VARIABLES
    export,       \* the declarations of the file
    at,           \* the record in hand; those before it are accepted
    outcome,      \* the verdict of the run
    env,          \* names in the environment
    decides,      \* conversion neither gives up nor misses an equality in this run
    declaring,    \* Checker.declaring
    lazyMainPath, \* LAZY_MAIN_PATH: the second pass of check_decl
    first,        \* `first`: how the first pass failed
    inferOnly,    \* Checker.infer_only
    forced,       \* FORCE_EAGER_DEFEQ
    inferCache,      \* Checker.infer_cache: expression |-> checked mark
    eagerInferCache, \* Checker.eager_infer_cache
    top, stack,
    probes        \* inferences conversion has started in this run

file == <<export, at, outcome, env, decides>>
pass == <<declaring, lazyMainPath, first>>
tables == <<inferCache, eagerInferCache>>
frames == <<top, stack>>
vars == <<file, pass, inferOnly, forced, tables, frames, probes>>

-----------------------------------------------------------------------------
(* infer_type_uncached: what each kind of expression asks for, in order *)

\* `check`: only when not infer_only.
Infer(e) == [op |-> "infer", s |-> e, t |-> e, want |-> Forms, check |-> FALSE]
Reduce(t, want) == [op |-> "reduce", s |-> t, t |-> t, want |-> want, check |-> FALSE]
Compare(s, t) == [op |-> "compare", s |-> s, t |-> t, want |-> Forms, check |-> FALSE]
Classify(t, want) == [op |-> "ispropchecked", s |-> t, t |-> t, want |-> want, check |-> FALSE]
Lookup(e) == [op |-> "const", s |-> e, t |-> e, want |-> Forms, check |-> FALSE]
Checking(p) == [p EXCEPT !.check = TRUE]

Sorts == {"sort", "prop"}

App(f, a) == <<Infer(f), Reduce(TypeOf[f], {"pi"}), Checking(Infer(a)),
               Checking(Compare(TypeOf[a], Dom[TypeOf[f]]))>>
Lam(d, b) == <<Infer(d), Reduce(TypeOf[d], Sorts), Infer(b)>>
Pi(d, b) == Lam(d, b) \o <<Reduce(TypeOf[b], Sorts)>>
Let(d, v, b) == <<Infer(d), Reduce(TypeOf[d], Sorts), Infer(v),
                  Compare(TypeOf[v], d), Infer(b)>>

\* infer_proj: from a structure in Prop, a field in Prop behind no data field
\* that others depend on; the later ones are classified all the same.
Proj(v, fields) ==
    <<Infer(v), Reduce(TypeOf[v], {"struct"}), Classify(TypeOf[v], Sorts)>>
    \o IF Exposes[TypeOf[TypeOf[v]]] = "prop"
       THEN [i \in DOMAIN fields |->
                Classify(fields[i].typ, IF fields[i].later THEN Sorts ELSE {"prop"})]
       ELSE <<>>

Premises(e) ==
    CASE Kind[e] = "const" -> <<Lookup(e)>>
      [] Kind[e] = "app" -> App(Sub[e][1], Sub[e][2])
      [] Kind[e] = "lam" -> Lam(Sub[e][1], Sub[e][2])
      [] Kind[e] = "pi" -> Pi(Sub[e][1], Sub[e][2])
      [] Kind[e] = "let" -> Let(Sub[e][1], Sub[e][2], Sub[e][3])
      [] Kind[e] = "proj" -> Proj(Sub[e][1], Fields[e])
      [] Kind[e] = "leaf" -> <<>>

-----------------------------------------------------------------------------
(* Frames *)

Functions == {"idle", "check", "infer", "reduce", "compare", "proofs",
              "isprop", "ispropchecked"}
Failures == {"declined", "rejected", "error"}

Entry(fn, a, b) == [fn |-> fn, pc |-> "enter", st |-> "run", a |-> a, b |-> b,
                    n |-> 0, eq |-> FALSE, old |-> FALSE]

Caller == stack[Len(stack)]
At(fn, pc) == top.st = "run" /\ top.fn = fn /\ top.pc = pc
Returned(fn, pc) == /\ top.st # "run" /\ stack # <<>>
                    /\ Caller.fn = fn /\ Caller.pc = pc
Ok == top.st = "ok"

Goto(f) == top' = f /\ stack' = stack
Ask(f, g) == top' = g /\ stack' = Append(stack, f)
Resume(f) == top' = f /\ stack' = SubSeq(stack, 1, Len(stack) - 1)

Ends(f, s) == [f EXCEPT !.st = s]
Answers(f, r) == [f EXCEPT !.st = "ok", !.eq = r]

\* The table infer_type_cached works on.
Table == IF forced THEN eagerInferCache ELSE inferCache
SetTable(t) == IF forced THEN eagerInferCache' = t /\ UNCHANGED inferCache
                         ELSE inferCache' = t /\ UNCHANGED eagerInferCache

-----------------------------------------------------------------------------
(* infer_type_cached *)

\* Mutant of Usable: any entry of the table serves.
UsableAlways(e) == e \in DOMAIN Table

\* An entry without the checked mark serves only where nothing is checked.
Usable(e) == e \in DOMAIN Table /\ (inferOnly \/ Table[e])

InferEnter ==
    /\ At("infer", "enter")
    /\ Goto(IF Usable(top.a) THEN Ends(top, "ok")
            ELSE [top EXCEPT !.pc = "premise", !.n = 1])
    /\ UNCHANGED <<file, pass, inferOnly, forced, tables, probes>>

Premise == Premises(top.a)[top.n]
Waived == Premise.check /\ inferOnly

InferPremise ==
    /\ At("infer", "premise") /\ top.n <= Len(Premises(top.a))
    /\ \/ Waived /\ Goto([top EXCEPT !.n = @ + 1])
       \/ /\ ~Waived /\ Premise.op # "const"
          /\ Ask(top, Entry(Premise.op, Premise.s, Premise.t))
    /\ UNCHANGED <<file, pass, inferOnly, forced, tables, probes>>

\* Mutant of Visible: a declaration sees itself while it is checked.
VisibleToItself(c) == c \in env

\* infer_const: the declaration being checked is hidden from its own check.
Visible(c) == c \in env /\ c # declaring

InferConst ==
    /\ At("infer", "premise") /\ top.n <= Len(Premises(top.a))
    /\ Premise.op = "const"
    /\ LET c == ConstOf[top.a] IN
       Goto(IF Visible(c) THEN [top EXCEPT !.n = @ + 1]
            ELSE Ends(top, IF c = declaring THEN "rejected" ELSE "error"))
    /\ UNCHANGED <<file, pass, inferOnly, forced, tables, probes>>

\* ensure_pi and ensure_sort reject a form they did not ask for, is_def_eq an
\* inequality, the test of a projection a field that is data.
Holds(p) ==
    CASE p.op = "infer" -> TRUE
      [] p.op = "reduce" -> top.eq /\ Exposes[p.s] \in p.want
      [] p.op = "compare" -> top.eq
      [] p.op = "ispropchecked" -> "sort" \in p.want \/ top.eq

InferReturn ==
    /\ Returned("infer", "premise") /\ Ok
    /\ Resume(IF Holds(Premises(Caller.a)[Caller.n])
              THEN [Caller EXCEPT !.n = @ + 1] ELSE Ends(Caller, "rejected"))
    /\ UNCHANGED <<file, pass, inferOnly, forced, tables, probes>>

InferFails ==
    /\ Returned("infer", "premise") /\ top.st \in Failures
    /\ Resume(Ends(Caller, top.st))
    /\ UNCHANGED <<file, pass, inferOnly, forced, tables, probes>>

Memo(f, k, v) == [j \in DOMAIN f \cup {k} |-> IF j = k THEN v ELSE f[j]]

\* The table as insertion finds it: a full one is dropped first.
Kept == IF Cardinality(DOMAIN Table) >= MaxEntries THEN <<>> ELSE Table

\* Mutant of InferDone: whatever is inferred counts as checked.
InferDoneMarksAll ==
    /\ At("infer", "premise") /\ top.n > Len(Premises(top.a))
    /\ Goto(Ends(top, "ok"))
    /\ SetTable(Memo(Kept, top.a, TRUE))
    /\ UNCHANGED <<file, pass, inferOnly, forced, probes>>

\* The mark is set by a checked inference and never lost to an unchecked one.
InferDone ==
    /\ At("infer", "premise") /\ top.n > Len(Premises(top.a))
    /\ Goto(Ends(top, "ok"))
    /\ SetTable(Memo(Kept, top.a,
                     ~inferOnly \/ (top.a \in DOMAIN Kept /\ Kept[top.a])))
    /\ UNCHANGED <<file, pass, inferOnly, forced, probes>>

-----------------------------------------------------------------------------
(* Conversion, by its promise *)

\* whnf and reduce_for_ensure: eq says whether the form was exposed.
Reduced ==
    /\ At("reduce", "enter")
    /\ \/ Goto(Answers(top, TRUE))
       \/ ~decides /\ (Goto(Answers(top, FALSE)) \/ Goto(Ends(top, "declined")))
    /\ UNCHANGED <<file, pass, inferOnly, forced, tables, probes>>

Compared ==
    /\ At("compare", "enter")
    /\ \/ <<top.a, top.b>> \in Equal /\ Goto(Answers(top, TRUE))
       \/ /\ decides => <<top.a, top.b>> \notin Equal
          /\ Goto(Answers(top, FALSE))
       \/ ~decides /\ Goto(Ends(top, "declined"))
    /\ UNCHANGED <<file, pass, inferOnly, forced, tables, probes>>

\* Conversion infers types on the way: of two terms that may be proofs of one
\* proposition, or, in the current mode, of a major premise or a structure.
Probe ==
    /\ At("reduce", "enter") \/ At("compare", "enter")
    /\ probes < MaxProbes
    /\ \E p, q \in Probes, fn \in {"proofs", "infer"} :
          Ask(top, Entry(fn, p, q))
    /\ probes' = probes + 1
    /\ UNCHANGED <<file, pass, inferOnly, forced, tables>>

\* Some callers swallow a failure of that inference, others pass it on.
ProbeReturn ==
    /\ Returned("reduce", "enter") \/ Returned("compare", "enter")
    /\ \/ Resume(Caller)
       \/ ~decides /\ top.st \in Failures /\ Resume(Ends(Caller, top.st))
    /\ UNCHANGED <<file, pass, inferOnly, forced, tables, probes>>

-----------------------------------------------------------------------------
(* with_infer_only: is_prop, is_prop_checked and proofs_of_same_prop *)

IsPropFunctions == {"isprop", "ispropchecked"}

\* is_prop answers some types from their shape; a Sort is never a proposition.
IsPropByShape ==
    /\ At("isprop", "enter")
    /\ \/ Goto(Answers(top, Exposes[TypeOf[top.a]] = "prop"))
       \/ ~decides /\ Goto(Answers(top, FALSE))
    /\ UNCHANGED <<file, pass, inferOnly, forced, tables, probes>>

\* The previous mode is kept in the frame and put back on every way out.
InferOnlyEnter ==
    /\ \/ /\ top.fn \in IsPropFunctions \cup {"proofs"} /\ At(top.fn, "enter")
          /\ Ask([top EXCEPT !.old = inferOnly, !.pc = "typed"],
                 Entry("infer", top.a, top.a))
    /\ inferOnly' = TRUE
    /\ UNCHANGED <<file, pass, forced, tables, probes>>

\* What a failure is to the caller: is_prop_by_infer and proofs_of_same_prop
\* take one of the inference for FALSE, the others pass it on.
Outcome(f) == IF \/ f.fn = "isprop"
                 \/ f.fn = "proofs" /\ f.pc \in {"typed", "typedB"}
              THEN Answers(f, FALSE) ELSE Ends(f, top.st)

\* Mutant of Leave: the mode is put back only after an answer.
LeaveOnSuccess(f) == Resume(f) /\ inferOnly' = IF Ok THEN f.old ELSE inferOnly

Leave(f) == Resume(f) /\ inferOnly' = f.old

IsPropReturn ==
    /\ stack # <<>> /\ Caller.fn \in IsPropFunctions
    /\ \/ /\ Returned(Caller.fn, "typed") /\ Ok
          /\ Resume([Caller EXCEPT !.pc = "sort"]) /\ UNCHANGED inferOnly
       \/ /\ Returned(Caller.fn, "sort") /\ Ok
          /\ LET s == Exposes[top.a] IN
             Leave(IF top.eq /\ s \in Sorts THEN Answers(Caller, s = "prop")
                   ELSE IF Caller.fn = "isprop" THEN Answers(Caller, FALSE)
                   ELSE Ends(Caller, "rejected"))
       \/ top.st \in Failures /\ Leave(Outcome(Caller))
    /\ UNCHANGED <<file, pass, forced, tables, probes>>

ProofsReturn ==
    /\ stack # <<>> /\ Caller.fn = "proofs"
    /\ \/ /\ Ok /\ (Caller.pc = "prop" => top.eq) /\ Caller.pc # "same"
          /\ Resume([Caller EXCEPT !.pc = CASE @ = "typed" -> "prop"
                                            [] @ = "prop" -> "typedB"
                                            [] @ = "typedB" -> "same"])
          /\ UNCHANGED inferOnly
       \/ Ok /\ Caller.pc = "prop" /\ ~top.eq /\ Leave(Answers(Caller, FALSE))
       \/ Ok /\ Caller.pc = "same" /\ Leave(Answers(Caller, top.eq))
       \/ top.st \in Failures /\ Leave(Outcome(Caller))
    /\ UNCHANGED <<file, pass, forced, tables, probes>>

InferOnlyAsks ==
    /\ \/ /\ top.fn \in IsPropFunctions /\ At(top.fn, "sort")
          /\ Ask(top, Entry("reduce", TypeOf[top.a], TypeOf[top.a]))
       \/ /\ At("proofs", "prop")
          /\ Ask(top, Entry("isprop", TypeOf[top.a], TypeOf[top.a]))
       \/ At("proofs", "typedB") /\ Ask(top, Entry("infer", top.b, top.b))
       \/ /\ At("proofs", "same")
          /\ Ask(top, Entry("compare", TypeOf[top.a], TypeOf[top.b]))
    /\ UNCHANGED <<file, pass, inferOnly, forced, tables, probes>>

-----------------------------------------------------------------------------
(* check_decl_once *)

\* The declaration in hand.
record == export[at]

\* Tables start empty; a duplicate universe parameter ends the check; then the
\* declaration is hidden from itself.
CheckHeader ==
    /\ At("check", "enter")
    /\ inferCache' = <<>> /\ eagerInferCache' = <<>>
    /\ IF record.dup THEN Goto(Ends(top, "rejected")) /\ UNCHANGED declaring
       ELSE Goto([top EXCEPT !.pc = "type"]) /\ declaring' = record.name
    /\ UNCHANGED <<file, lazyMainPath, first, inferOnly, forced, probes>>

CheckAsks ==
    /\ \/ At("check", "type") /\ Ask(top, Entry("infer", record.typ, record.typ))
       \/ At("check", "sort") /\ Ask(top, Entry("reduce", TypeOf[record.typ], TypeOf[record.typ]))
       \/ At("check", "value") /\ Ask(top, Entry("infer", record.value, record.value))
       \/ At("check", "match") /\ Ask(top, Entry("compare", TypeOf[record.value], record.typ))
       \/ At("check", "rematch") /\ Ask(top, Entry("compare", TypeOf[record.value], record.typ))
    /\ UNCHANGED <<file, pass, inferOnly, forced, tables, probes>>

\* The sort of the declared type, Prop for a theorem.
SortFits == top.eq /\ Exposes[top.a] \in IF record.theorem THEN {"prop"} ELSE Sorts

CheckReturns ==
    /\ stack # <<>> /\ Ok
    /\ \/ Returned("check", "type") /\ Resume([Caller EXCEPT !.pc = "sort"])
       \/ /\ Returned("check", "sort")
          /\ Resume(IF ~SortFits THEN Ends(Caller, "rejected")
                    ELSE IF record.value = NoExp THEN Ends(Caller, "ok")
                    ELSE [Caller EXCEPT !.pc = "value"])
       \/ Returned("check", "value") /\ Resume([Caller EXCEPT !.pc = "match"])
       \/ /\ Returned("check", "match")
          /\ Resume(IF top.eq THEN Ends(Caller, "ok")
                    ELSE [Caller EXCEPT !.pc = "rescue"])
       \/ Returned("check", "rescue") /\ Resume([Caller EXCEPT !.pc = "rematch"])
    /\ UNCHANGED <<file, pass, inferOnly, forced, tables, probes>>

CheckFails ==
    /\ stack # <<>> /\ top.st \in Failures
    /\ \E pc \in {"type", "sort", "value", "match"} : Returned("check", pc)
    /\ Resume(Ends(Caller, top.st))
    /\ UNCHANGED <<file, pass, inferOnly, forced, tables, probes>>

\* value_type_ok_eager: the type once more, in tables of its own; a failure of
\* the inference is FALSE, one of the comparison is passed on.
RescueEnter ==
    /\ At("check", "rescue")
    /\ Ask([top EXCEPT !.old = forced], Entry("infer", record.value, record.value))
    /\ forced' = TRUE
    /\ UNCHANGED <<file, pass, inferOnly, tables, probes>>

\* Mutant of RescueLeave: a comparison that fails is no mismatch.
RescueLeaveTrusts ==
    /\ \/ Returned("check", "rescue") /\ top.st \in Failures /\ Resume(Ends(Caller, "rejected"))
       \/ Returned("check", "rematch") /\ Resume(Ends(Caller, "ok"))
    /\ forced' = Caller.old
    /\ UNCHANGED <<file, pass, inferOnly, tables, probes>>

RescueLeave ==
    /\ \/ Returned("check", "rescue") /\ top.st \in Failures /\ Resume(Ends(Caller, "rejected"))
       \/ /\ Returned("check", "rematch") /\ Ok
          /\ Resume(Ends(Caller, IF top.eq THEN "ok" ELSE "rejected"))
       \/ Returned("check", "rematch") /\ top.st \in Failures /\ Resume(Ends(Caller, top.st))
    /\ forced' = Caller.old
    /\ UNCHANGED <<file, pass, inferOnly, tables, probes>>

-----------------------------------------------------------------------------
(* check_decl and the parser's loop *)

Idle == top.fn = "idle"
Checked == top.fn = "check" /\ top.st # "run" /\ stack = <<>>
CheckFrame == Entry("check", record.typ, record.typ)
IdleFrame == [CheckFrame EXCEPT !.fn = "idle", !.st = "ok"]

\* handle_def_like admits the record unless it refuses it, check_last makes a fresh Checker.
HandleDefLike ==
    /\ Idle /\ outcome = "none" /\ at <= Len(export)
    /\ IF record.name \in env \/ record.unsafe
       THEN /\ outcome' = "rejected"
            /\ UNCHANGED <<env, declaring, inferOnly, tables, frames>>
       ELSE /\ env' = env \cup {record.name}
            /\ declaring' = NoName /\ inferOnly' = FALSE
            /\ inferCache' = <<>> /\ eagerInferCache' = <<>>
            /\ Goto(CheckFrame) /\ UNCHANGED outcome
    /\ UNCHANGED <<export, at, decides, lazyMainPath, first, forced, probes>>

\* Mutant of Retry: every failure is checked once more.
RetryErrors ==
    /\ Checked /\ top.st \in Failures /\ ~lazyMainPath
    /\ lazyMainPath' = TRUE /\ first' = top.st
    /\ Goto(CheckFrame)
    /\ UNCHANGED <<file, declaring, inferOnly, forced, tables, probes>>

\* A declined or rejected declaration is checked once more in lazy mode.
Retry ==
    /\ Checked /\ top.st \in {"declined", "rejected"} /\ ~lazyMainPath
    /\ lazyMainPath' = TRUE /\ first' = top.st
    /\ Goto(CheckFrame)
    /\ UNCHANGED <<file, declaring, inferOnly, forced, tables, probes>>

\* A decline of the second pass leaves the verdict of the first.
Verdict == IF lazyMainPath /\ top.st = "declined" THEN first ELSE top.st

\* The run goes on after an accepted declaration and ends with any other.
Conclude ==
    /\ Checked
    /\ top.st \in {"declined", "rejected"} => lazyMainPath
    /\ lazyMainPath' = FALSE /\ first' = "none"
    /\ IF Verdict = "ok" THEN at' = at + 1 /\ UNCHANGED outcome
       ELSE outcome' = Verdict /\ UNCHANGED at
    /\ Goto(IdleFrame)
    /\ UNCHANGED <<export, env, decides, declaring, inferOnly, forced, tables, probes>>

EndOfExport ==
    /\ Idle /\ outcome = "none" /\ at > Len(export)
    /\ outcome' = "accepted"
    /\ UNCHANGED <<export, at, env, decides, pass, inferOnly, forced, tables, frames, probes>>

Init ==
    /\ export \in Exports /\ export # <<>> /\ at = 1
    /\ outcome = "none" /\ env = Base /\ decides \in BOOLEAN
    /\ declaring = NoName /\ lazyMainPath = FALSE /\ first = "none"
    /\ inferOnly = FALSE /\ forced = FALSE
    /\ inferCache = <<>> /\ eagerInferCache = <<>>
    /\ top = IdleFrame /\ stack = <<>> /\ probes = 0

Inference == \/ InferEnter \/ InferPremise \/ InferConst \/ InferReturn
             \/ InferFails \/ InferDone
Conversions == \/ Reduced \/ Compared \/ Probe \/ ProbeReturn \/ IsPropByShape
               \/ InferOnlyEnter \/ IsPropReturn \/ ProofsReturn \/ InferOnlyAsks
Checks == \/ CheckHeader \/ CheckAsks \/ CheckReturns \/ CheckFails
          \/ RescueEnter \/ RescueLeave
Driver == HandleDefLike \/ Retry \/ Conclude \/ EndOfExport

Next == Inference \/ Conversions \/ Checks \/ Driver

\* One thread runs every function to its return.
Spec == Init /\ [][Next]_vars /\ WF_vars(Next)
=============================================================================
