# Verification of kiota

kiota (`src/src/`, Rust) checks files exported from Lean 4: it reads an export
line by line, rebuilds names, levels, expressions and declarations, and type
checks every declaration with a kernel of its own.  A run ends with *accepted*,
*rejected* or *declined* ("could not decide within the limits").  Accepting
something ill-typed is the one thing it must never do; declining too often
makes it useless; and because almost all of its speed comes from memo tables,
depth caps, heuristics that may give up, and flags shared by deeply recursive
functions, the hard part is that none of these shortcuts ever turns "gave up"
into "yes", or a stale entry into an answer.

This directory holds TLA+ modules translated from that code, TLC
configurations that check them on small instances, and proofs checked by TLAPS.

## Inventory

| Component | State | Operations | What makes it correct |
|---|---|---|---|
| Conversion checker, `tc.rs` 2150-3790 | memo tables `whnf_cache`, `whnf_core_cache`, `defeq_cache`; thread-locals `CORE_ABORTED`, `SPECULATING`, `LAZY_MAIN_PATH`, `DECLINE_SERIAL`, `FALLBACK_TRIES`; three depth counters | `whnf`, `whnf_core`, `is_def_eq` with speculation, two main paths, fallback | never TRUE for terms that are not definitionally equal; memo tables sound although calls abort and decline; always returns |
| Inference, `tc.rs` 1236-1990, 7371-7430 | `infer_cache` (with a "checked" mark), `infer_only`, `declaring` | `infer_type`, `infer_only`, argument checks | a type inferred without checking is never taken for a checked one |
| Declaration check, `tc.rs` 803-1129, 3452-3508 | the mode (`LAZY_MAIN_PATH`, forced eager), two sets of tables | `check_decl` (eager pass, lazy retry), rescue by the eager path | a declaration is accepted only if every obligation was proved, modes are restored, retry only turns declines into verdicts |
| Contexts and cache keys, `tc.rs` 400-800 | `Ctx`, `CTX_IDS` | `term_ctx_key`, `pair_ctx_key` | equal keys imply equal readings of a term's free variables |
| Inductive types, `tc.rs` 5900-6560, `recursor.rs` | none beyond the block at hand | `check_inductive_group`, positivity, universe bounds, `expand_nested_members`, `reconstruct_recursors` | only positive families; declared recursors are those of the family |
| Reduction of recursors, `tc.rs` 4150-5154 | none modelled (the code memoises) | `try_iota`, structure eta, K, `mk_rec_call` | an application reduces to what Lean's rule says, though no rule is stored |
| NbE, `nbe.rs`, `tc.rs` 6586-7345 | its own memo tables | `eval`, `quote`, `conv` | agrees with `whnf`; off by default |
| Universe levels, `level.rs` | none | `max`, `imax`, `instantiate`, `normalize`, `leq` | decisions are those of the levels' values |
| Expressions, `expr.rs`, `expr/reclaim.rs` | the intern table, memo tables of `instantiate`, `shift` | `intern`, `intern_clear_if_large`, `shift`, `instantiate` | identity of nodes means equality as long as a memo key uses it |
| Literals, `nat.rs` | the run of consecutive peels | successor views of literals, binary operations | literals and their unary readings are not told apart |
| Parser and environment, `parser.rs`, `env.rs` | tables of names, levels, expressions; the environment | one handler per line kind; `InductiveUndo` | a declaration enters the environment only once checked; a failed block leaves nothing |
| Lifetimes, `lifetime.rs` | last reference of every table entry | pre-pass, `release_after_decl` | nothing is released before its last use |
| Proof store, `proofstore.rs` | file, index, loaded proofs | `store`, `load` | a reloaded proof is the stored one |
| Command line, `main.rs` | exit code | worker thread, caught panic | accepted (0) only for a completed run |
| Remote runner, `scripts/remote/runner.py` | child group, deadline | `execute`, `run` | a child is reported once and its group is gone afterwards |
| Gate, profiling, statistics | none | reports | outside the models |

How they interact: the parser's loop (`parser.rs` 1354-1419) hands one
declaration at a time to a fresh `Checker`; `check_decl` runs inference, which
asks the conversion checker for comparisons and normal forms; conversion and
inference call each other recursively on one thread.  There are no concurrent
workers inside a check: what interleaves is *calls*, nested to any depth, and
the state they share is the thread-locals and the memo tables.  The pre-pass
of `lifetime.rs` and the proof store touch the parser's tables between
declarations.  Only `runner.py` deals with processes, signals and time.

Hard behaviour, in short (PROJECT.json lists every hazard with its line): a
depth cap met deep inside one comparison leaves an abort flag that some other
comparison reads; a declined attempt leaves tables partly filled; a speculative
attempt must leave no trace in its flags; four heuristics run in order on
changed copies of the same two terms; a loop must notice that a step did not
move; an answer `false` after a decline is worth nothing.

## Modules

| Module | Role |
|---|---|
| `Conversion` | the conversion checker as a call stack machine, one action per piece of a function between two calls |
| `ConversionProps` | its type invariant, safety and liveness properties, the meaning of terms they are stated against |
| `ConversionProofs` | TLAPS proofs about `Conversion`: answers and tables, the speculation flag and declines |
| `MCConversion` | a term graph for TLC |
| `Kernel` | the promise of a run, in one page: declarations admitted in order, each justified by those before it |
| `Typing` | `check_decl`, `infer_type` and the parser's admission of a record, as a call stack machine; conversion by its promise |
| `TypingProps` | the typing rules, the properties of `Typing`, and its refinement of `Kernel` |
| `TypingProofs` | TLAPS proofs about `Typing` |
| `MCTyping` | a signature, 27 expressions over it and 24 exports for TLC |
| `Levels`, `MCLevels` | universe levels, over all levels that export lines and instantiation build |
| `LevelProofs` | TLAPS proofs about `Levels` |
| `Terms` | expressions with de Bruijn indices: summaries, shifting, instantiation, universe substitution (operators) |
| `Spines` | applications to several arguments (operators) |
| `Substitution` | the operations of `Terms` against the named reading of a term |
| `ContextKeys` | local contexts, the keys of open terms, and a memo table under such keys |
| `Interner` | the strong and the reclaiming intern table, and memo tables keyed by identity |
| `ExpressionProofs` | TLAPS proofs about `Interner`, about `Terms` and `Substitution`, and about `ContextKeys` |
| `MCTerms` | `Substitution`, `ContextKeys` and `Interner` for TLC |
| `Lifetime` | the pre-pass over the file and the release of table slots behind the reader |
| `LifetimeProofs` | TLAPS proofs about `Lifetime` |
| `ProofStore` | the proof of a checked theorem: in memory, on disk, or gone |
| `ProofStoreProofs` | TLAPS proofs about `ProofStore` |
| `ProofCodec` | the bytes of a stored proof: encoding and decoding of a shared term graph |
| `Import` | names, declarations, and inductive blocks as transactions with an undo log |
| `ImportProofs` | TLAPS proofs about `Import` |
| `LeastNumber` | least elements, induction over the numbers and recursion along a rank, for the proofs |
| `MCReader` | `Lifetime`, `ProofStore`, `ProofCodec` and `Import` for TLC |
| `Inductives` | the checks of a block and the derivation of its recursors (operators) |
| `Recursors` | the reader's order of those checks, against Lean's kernel with named variables |
| `Reduction` | what a recursor application reduces to, against the rule Lean would store |
| `Quotients` | the four quotient declarations |
| `MCInductives` | a family of blocks over six inductive types and two definitions, and `Quotients`, for TLC |

`Substitution`, `ContextKeys` and `Interner` share operators and no state, and
so do the four parts of `MCReader` and the two of `MCInductives`.  A variable
`part` says whose behaviour it is and the others wait in an initial state, so a
run checks the sum of its parts and not their product.

### Conversion: how the model relates to the code

Rust recursion is made explicit.  `stack` holds the suspended callers, `top`
the frame that runs (`st = "run"`) or has just returned (`"ok"`: Rust `Ok`,
`"declined"`: `Err(Decline)`).  A frame records the function (`fn`), the point
it waits at (`pc`), its arguments `a`, `b`, its current terms `x`, `y`, an
index or count `n`, and the locals the code keeps across calls: `outer` (this
call started the speculation; in the lazy main path, *moved*), `abort0` (the
abort flag saved before an attempt), `declined`, `both`, and the lists `ls`,
`rs` of the alias search.  `Ask` is a call, `Goto` a step inside a function or
a return, `Resume` the caller going on with the value returned.

| `fn` | Rust function |
|---|---|
| `defeq` | `is_def_eq` and `is_def_eq_inner_body` (guard, memo, speculation, verdict, fallback), `def_eq_main_path` |
| `args` | `pairwise_args` |
| `compare` | `is_def_eq_core_go`: congruence, then the delta step |
| `lazydelta` | `try_lazy_delta` |
| `lazymain` | `def_eq_main_path_lazy` |
| `lazyhead` | `try_lazy_head_congruence` |
| `whnf` | `whnf`, `whnf_inner` |
| `core` | `whnf_core`, `whnf_core_go`, `whnf_major` |

The depth counters are read off the stack (`Depth`).  The flags are variables
of their own because any frame may change them.  `fallbackTries` is the number
of fallback attempts recorded for the decline in flight: the code keeps
`FALLBACK_TRIES = (serial, tries)` and reads `tries` as 0 when `DECLINE_SERIAL`
has moved on, so a fresh decline sets the variable to 0 and an attempt puts
back its saved number plus one.

A term is a node of a finite graph.  What the code asks of it is what the
constants give: its shape (beta redex, projection, recursor application,
definition, small theorem, rigid), head, arguments, major premise, the term it
steps to, its rank, and whether a term is headed by a constructor.  Three
functions of the code decide on unfolding and differ: `EagerUnfolds`
(`eager_whnf_unfolds`) takes every definition and small theorem, `DeltaReducible`
(`is_delta_reducible`) not the definitions whose hint is opaque (`OpaqueHints`),
and `DeltaStep` is what `delta_step` then does.  TLC's graph
(`MCConversion`) has 34 nodes: definitions over definitions, projections and
recursors whose majors have to be unfolded (at several depths, so that a cap
bites in some and not in others), two sides that meet only after several
unfoldings, a pair that only the alias search proves, and pairs that are
different.  The proofs are for every graph.

A decline inside an argument is treated in two ways, as in the code: the
structural comparison keeps it (`declined`) and gives it back instead of a later
`false`; the lazy main path, which has unfolded the heads by then, drops it
(`LazySpine`, `tc.rs` 3743-3751).

Left out of this module, each noted in PROJECT.json: binders, literals, proof
irrelevance (to which the code leaves a small theorem that unfolds to a
definition with an opaque hint), the step of a projection's major by its head
(`tc.rs` 2904-2906, which does nothing behind `whnf` on these shapes), eta and structure eta in `is_def_eq_core_go`, `iterated_app_congruent`,
the K and structure rules of iota, the separate rules for quotients and
extended `Nat` operations, unfolding of a theorem in major position, the opt-in
lazy head mode (`KIOTA_LAZY_HEAD`), and NbE (off unless switched on).  Each
answers TRUE by a rule of its own; soundness of those rules is a property of
the rule and not of the control flow modelled here.

### Typing: how the model relates to the code

The same machine of frames: `check` is `check_decl_once`, `infer` is
`infer_type_cached` with `infer_type_uncached`, `ispropchecked`, `isprop` and
`proofs` are `is_prop_checked`, `is_prop` with `is_prop_by_infer`, and
`proofs_of_same_prop`.  What `infer_type_uncached` does for each kind of
expression is a list of *premises* in the order of the code (`Premises`):
infer a subterm, reduce a type to a form, compare two types, classify a type,
look up a constant.  The frame walks the list; an argument check is waived
while `infer_only`.  `InferDone` writes the table, which is dropped first when
full, and never takes the checked mark from an entry.

`check_decl`'s two passes are `CheckHeader` ... and `Retry`; `Verdict` is the
rule by which a second decline leaves the first verdict.  `RescueEnter` and
`RescueLeave` bracket `value_type_ok_eager`, in whose span `Table` is the eager
one.  `HandleDefLike` is the admission of a record, which puts the declaration
into the environment *before* it is checked and hides it by `declaring`.

Conversion is used by its promise, which is what `Conversion` establishes: TRUE
only for equal terms, and it may give up.  `Reduced` and `Compared` choose
among the answers the promise allows.  Whether it may also give up, or miss an
equality, is `decides`, chosen when a run begins and never changed: it separates
the runs in which the checker owes an exact verdict.  Conversion
also infers types on the way, for proof irrelevance without checking and for
structures in the mode of the caller; `Probe` lets a comparison or a reduction
start such an inference, of any expression of `Probes`, at any depth, and its
outcome be swallowed or passed on.

`TypedAssumption` states the typing rules: an expression is typed by an
environment when its premises hold there.  `Justified` says when a declaration
may be admitted, and `Kernel` is the run that admits justified declarations and
nothing else.  `Typing` refines `Kernel` with the number of declarations
admitted and the verdict (`KernelSpec`).

Left out: universe arguments of constants (their count and substitution),
contexts (an expression stands for itself in its context), the rescue of one
argument inside NbE, `Lit` types that are missing, malformed records, and the
diagnostic switches.  The table is dropped at its limit in every run, in the
code only when reclamation is on.  A data field that bars a projection ends the
inference at once; the code classifies the remaining fields before it rejects.

### Levels

`levels` is the parser's table together with levels that `infer_const` makes by
instantiation, so exactly the levels a run can meet.  All constructors, the
normal form and `leq` are translated rule by rule in the order of the code.
`Value` gives the meaning of a level under an assignment of numbers.  A level is
a tree of bounded height (`Level`), so that each function of `level.rs` is a
recursive function over a set; `leq` recurses over pairs and an offset, by the
first rule that fits (`LeqRule`).  `OwnParametersKeepLevels` says that every
level in play is in the form its constructors leave: instantiated with its own
parameters, which rebuilds every node, it is the same level again.

### Terms, Substitution, ContextKeys, Interner

A term of `Terms` is a tuple with the fields of `ExprData`.  Each node carries
the two summaries of `mk`: `Loose`, one more than the largest free index, and the
word `Used` of free indices, in which all bits set mean that the word says
nothing; `UsedSet` lists the indices of such a term up to `UsedSetCap`.  `Shift`,
`InstantiateCore` and `InstantiateLevels` are the functions of `expr.rs` with
their early returns.  They are recursive functions over the terms of a bounded
height (`OfHeight[MaxHeight]`), which a tree of `ExprData` always has.
`Substitution` builds a subject with a constructor or an operation per step and
compares: the summaries with the free indices of the term, the operations with
substitution in a reading where every free variable has a name and nothing is
renumbered.  A summary may say less than it could, never anything false: the
overflow mark stays when the indices it stood for are bound further out, so a
closed term may carry it.

`ContextKeys`: `Push` is `Ctx::push`, `Back` the end of its scope, `InferTerm` and
`ComparePair` look a term or a pair up in one memo table and write what is
missing, `NextDecl` starts over.  A key is built as in `term_ctx_key` and
`pair_ctx_key`: which binders a term depends on, closed over the types of those
binders, in a word while it suffices, in lists up to their cap, and as the whole
context beyond.  `CTX_IDS` gives every (parent, index, type) an id of its own, so
an id is here the list of what it was chained from.  `WideStep` and `WordStep` are
one binder of the two passes, which go from the innermost binder out.
`KeysStandForMeanings`: an entry is read only where all binders the term reaches
have the types they had when it was written, and is found wherever they have, as
long as the lists suffice.

`Interner`: `Intern` is `intern` with its hash buckets and, in the weak table,
the sweep that may precede a lookup; `Release` drops a handle; `CheckDecl` is
what happens between declarations: numbered memo tables are cleared, and a
table that is large is dropped together with the memo that outlives a
declaration's first pass.  `AskNumbered` files an answer under a node and
the number of a substitution or context in this declaration, `PeelLiteral` under
a node alone.  `IdentityIsEquality` asks that no two live nodes of one table
hold the same data, and none that are live stand for equal terms until a table is dropped;
`MemosFit` that an answer is only read for what it was made for.

### Lifetime, ProofStore, ProofCodec, Import

`Lifetime`: `WriteLine` chooses the file; `StartScan`, `ScanLine`, `EndScan` are the
pre-pass, `ReadExpr`, `ReadDecl`, `SkipLine`, `EndRead` the reader with
`release_after_decl` behind every declaration.  Which keys of a line hold
references is abstracted to the set of indices it refers to: a record of a kind
the reader does not know has none here, while the pre-pass collects the usual keys
of any record (`lifetime.rs` 192-206), which can only keep a slot longer, and a
missing key, which the reader takes for index 0 (`parser.rs:117`), belongs to the
JSON layer.

`ProofStore`: `Begin` fixes the switches, `StoreProof`, `StoreFails` and
`ReleaseWithoutStore` are the branches of `release_theorem_value`, the `Unfold`
actions those of `unfold_delta` for a theorem whose proof is at hand, loaded
already, in the store, unreadable, or gone; `Damage` is the disk.  A blob's hash
is its content.  `TooDeep` names the theorems whose stored proof the reader will
refuse for the depth of a level, which `UnfoldStored` ends in an error.  `ProofCodec` opens the blob: `StartEncode`, `Visit`, `Emit` are
the explicit stack of `encode`, `DecodeNode` one node of `decode`, `Mangle` the loss
of a byte or one too many.  Levels are read through the constructors of
`Levels`, which simplify, and only to `LevelDepth` (10 000 in the code), a limit
the writer does not have: a proof beyond it is not `WithinDepth` and comes back
as an error.  That a string's bytes are UTF-8 is not checked (`proofstore.rs`
487): the writer writes nothing else.

`Import`: `NameLine` respells names and records duplicates; `Declaration` is an
axiom-like record; `BeginBlock`, `TypeRecord`, `CtorRecord`, `RecRecord`,
`NextStage`, `Reconstruct`, `Compare`, `Install`, `Own`, `Group` and `Commit` are
`handle_inductive` in its order, and each of them may fail, which rolls the
journal back.  Verdicts of the checker are an oracle.  Left out: the
comparisons of `named_for_group`, motive and minor counts that cannot fail once
the recursors have been compared, an index defined by two name lines, and the
JSON layer.  What `Compare` in `Recursors` leaves out, the comparison of `all` and
of the `num_` fields (`parser.rs` 852-861), is part of the oracle here.

### Inductives, Recursors, Reduction, Quotients

`Recursors` runs the operators of `Inductives` in the order of the reader:
`CheckStructure` (types, positivity, universes), `Discover` (one member of the
nested expansion at a time), `Decide` (the universe to eliminate into), `Expand`
(the members again at the file's universe names), `StartBuilding` and `Build` (one
recursor type each), `StartComparing` and `Compare` (with the file's, by position), `Install`
(with the second elimination check).  The reference derives each type the way
Lean's kernel does, opening binders to named variables and abstracting them
again, while the code counts and shifts.  `Lean...` operators are that
reference, and so is the test of strict positivity, which sees through
containers.  Conversion here is beta and unfolding, up to normal form.

`Reduction` adds `TryIota`: an accepted block's recursor is applied under
variables to each constructor, or to a variable major (structure eta, K, or
stuck).  `gaveUp` is a `whnf` that fails inside `mk_rec_call`.  Left out:
literal majors, `try_quot`, the memo table, arguments past the major, K by
conversion of the major's type, and in the comparison of constructor parameters
(`tc.rs:4862`) the test of identity that comes before the structural one.  Of the
reader's checks, `StartBuilding` leaves out that the second expansion is as long
as the first (`recursor.rs` 921-925) and `ValidRecursor` that both types have sorts
(`recursor.rs` 1025-1026), which the types in the run do.  `isRec` is the export's, taken as honest, and
auxiliary recursors are named in the order of the file.

`Quotients`: `HandleQuot` is `handle_quot`, offered the four declarations, every
one-node variation of them, and every order.

## Runs

| Run | Question | Result |
|---|---|---|
| `conversion` | All caps at 2, two comparisons per declaration: are answers and tables sound, declines overridden only by proofs, flags bracketed, is no comparison inside itself, does every comparison end? | holds, 106 761 states |
| `conversion_roomy` | With caps no comparison reaches, is every equal pair proved, in both modes and after any earlier comparison? | holds, 61 264 states |
| `conversion_cap` | Is a memoised `false` a completed answer, as `tc.rs:3715` says? | no |
| `conversion_abort` | Is the abort flag per `whnf` call, as `tc.rs:2348` says? | no |
| `typing` | Is only what is justified accepted, is the checked mark earned, are the modes bracketed, does the run refine `Kernel`, whatever conversion infers, misses or declines? When conversion decides, is an export accepted exactly when all its declarations are justified? | holds, 625 691 states |
| `levels` | Does instantiation keep a level's value, and with a level's own parameters the level, are the Prop test and `leq` without imax exact? | holds, 753 sets of levels |
| `levels_imax` | Do levels found equal have the same values? | no |
| `terms` | Are summaries exact, do shifting and instantiation substitute, does a memo entry only answer in contexts that agree with its own, is identity equality across sweeps and resets? | holds, 170 276 states |
| `reader` | Does the reader release every slot in time and none early, does a proof come back as itself or not at all, does a failed block leave nothing, does each recursor get its type? | holds, 767 095 states |
| `reader_deep` | Does every stored proof read back, as `proofstore.rs:12` says? | no |
| `import_empty` | Is every block of the kernel's own records admitted? | no |
| `inductives` | Are the derived recursors and their reductions Lean's, only strictly positive blocks admitted, the file's recursors compared by position, quotients admitted only as the kernel's own? | holds, 32 838 states |

Bounds.  `ConvDepth = 2` stands for the caps of the build: every cap is met
by some terms of the graph and not by others, in all three counters.
`MaxQueries = 2` is what carries tables and flags from one comparison to the
next within a declaration; `NewDeclaration` starts over, with or without the
lazy main path.  `LazyDeltaSteps = 3`, `HeadRounds = 3` and
`MaxFallbackTries = 2` are reached and exhausted.  In `conversion_roomy`,
`ConvDepth = 8` exceeds the deepest chain of the graph.  In `levels`, six
levels over two parameters reach `imax`, `max` and `succ` nested three deep,
and `MaxValue` exceeds every offset so built by two (`LevelsAssumption`), so a
difference between two such levels shows at some assignment; the violation takes
`MaxHeight = 4`.  The parameters are interchangeable,
hence the symmetry set.  The level runs switch deadlock off: an export ends.

`typing`: the exports have one or two declarations, well and ill typed in every
way the premises know (argument, `let` value, projection out of a proposition,
theorem outside Prop, self reference, duplicate parameter, unsafe, no value),
and the second uses or repeats the first.  `MaxEntries = 3` is less than the
subterms of several expressions, so tables overflow in the middle of an
inference; `MaxProbes = 1` per run is enough for an unchecked entry, a failed
unchecked inference, or a nested one at every point of the run, since a probe
may itself nest three modes deep.  The run switches deadlock off: a run ends
with its verdict.

`terms`: `WordBits = 2` and `UsedSetCap = 2` for 64 and 64, so that
both summaries overflow on terms of at most five nodes with indices up to 3 and
contexts up to five binders; `MaxHeight = 8` holds a subject with an argument
substituted at its deepest index.  Two universe parameters are exchanged, which
would show a substitution applied one parameter after the other.  Four nodes with `InternReset = 2`, `CollectStep = 1`,
`MemoCap = 1` and two data that share a hash reach resets, sweeps and emptied
memos with nodes from before still held.  `reader`: files of at most four lines
over two indices (a definition, its use, a declaration and a reuse); three
theorems with blobs of two cells, so a store can fail in either cell with
proofs before and after; numbers in groups of three bits, eight in a varint, six in a
field, so truncation and overflow both occur; one level of exactly the depth
`LevelDepth = 4` that is read and one beyond, and one theorem whose proof is too deep; two inductive blocks, the second
free to use what names the first left.  `inductives`: one type with up to two
constructors of up to two fields, with and without parameter and index, in
Prop and Type; pairs of types; a type with a universe of its own; fields direct,
functional, under five containers (one itself nested, one negative, one
a structure, one indexed), and under definitions that hide or drop an occurrence; universe lists
right and wrong.  These runs switch deadlock off: files and blocks end.

Fairness.  `WF_vars(Machine)` in `Conversion`, `WF_vars(Next)` in `Typing`: a
Rust function that has been called runs on to its return, and the parser's loop
goes on to the next line; nothing else is assumed, in particular the caller of
a comparison need not ask another one.  That a run of `Typing` ends with a
verdict is part of `KernelSpec` (the weak fairness of `Kernel`).  The other modules state safety only: each of
their loops is over a file or a list.

### What the violated properties show

- `StoredFalseIsCompleted`: at the core cap a recursor application is handed
  back as if stuck; the comparison goes on with it, answers `false`, and the
  `false` is memoised.  It costs completeness (an equal pair found different,
  a rejection where a decline was meant), never soundness.
- `AbortIsPerWhnfCall`: `whnf_core` called by the speculation sets the abort
  flag outside any `whnf`; the next outermost `whnf` takes it for its own and
  does not cache, or declines a redex it could have reduced.
- `EqualLevelsMeanTheSame`: `leq` compares two `imax` levels with the same
  right side in their nonzero case only, so `succ (imax (u+1) u)` and
  `imax (u+2) u` are found equal, 1 and 0 at `u = 0`.
- `EveryProofReadsBack`: the reader of a stored proof refuses a level deeper
  than 10 000 (`proofstore.rs:395`); nothing keeps the writer from writing one.
  The proof of a checked theorem is then stored and released, and a later
  comparison that unfolds the theorem ends in an error (`tc.rs:3077`) though the
  file is sound.  It costs a run its verdict, never soundness.
- `HonestBlockHasOwners`: a recursor without rules claims every type of its
  group, so in a mutual block with an empty member the second recursor is a
  duplicate (`parser.rs:960`) and a correct block is rejected.

Met while modelling, and set apart in a property's statement rather than given
a run:

- `mk_rec_call` builds the recursive call through a nested container with
  indices without those indices (`tc.rs` 5098-5103), an ill-typed reduct.
  `ReductsAreLeans` excludes these calls.
- `mk_rec_call` goes on with the type itself when its normal form fails
  (`tc.rs:5031`, `5040`); a field whose recursion shows only after a step then
  loses its call.  `ReductsAreLeans` allows a lost call only then.
- The occurrence test looks under a function's arguments before they reduce
  (`recursor.rs:1281`, `372`): a positive block is rejected when an occurrence
  vanishes by conversion.
- The rules of a recursor are never compared with the block (`parser.rs:904`),
  which is harmless because reduction does not read them.
- A failed write closes the store, and proofs stored before it decline from
  then on (`parser.rs` 1248-1268); `NoUnfoldingLost` is about runs without a
  fault, and asks of the others that a proof was once written whole.  It allows an
  error for a proof too deep to be read.
- A reference to a slot already released reports the message for one never
  defined (`parser.rs:158`).

## Proofs

`ConversionProofs` proves for every term graph, every cap and every budget,
from `TermsAssumption`, `BoundsAssumption` (kinds of the constants, at least
one level of depth) and `ConvAssumption` (definitional equality is an
equivalence that contains the steps and is a congruence):

- `InvariantHolds`: the inductive invariant `ConversionInv`.
- `TypeCorrect`: `Spec => []TypeOK`.
- `Soundness`: `Spec => []AnswersAreEqualities`.
- `CacheSoundness`: `Spec => []CachesAreSound`.

`AnswersAreEqualities` says something of the frame that has just answered and
is far from inductive: whether the answer is right depends on what its callers
replaced the terms by.  The invariant therefore has three parts.  Each frame
on the stack keeps the guarantee of its function (what `x`, `y`, `ls` and `rs`
are equal to, given `a` and `b`, at its `pc`).  Every caller is *linked* to
the frame above it: what it asked for is what it will use the answer for.  And
the three tables relate equal terms only.  A `TRUE` then travels down the stack
through links, and a decline or an abort, which carries no promise, cannot
break it.  The proof has one lemma per action group; pushes, pops and steps of
a frame are handled by lemmas of their own, so a new function costs one
guarantee and its steps.

`TypingProofs` proves for every signature, every set of exports, every table
limit and every behaviour conversion's promise allows, from `TypingAssumption`
(kinds of the constants) and `TypedAssumption` (the typing rules: an expression
is typed exactly when its premises hold):

- `InvariantHolds`: the inductive invariant `TypingInv`.
- `TypeCorrect`: `Spec => []TypeOK`.
- `Acceptance`: `Spec => []AcceptedAreJustified`.
- `MarkSoundness`: `Spec => []CheckedMarkIsEarned`.
- `Modes`: `Spec => []ModesAreBracketed`.
- `Exactness`: `Spec => []VerdictIsExact`.
- `Refinement`: `Spec => K!Init /\ [][K!Next]_(K!vars)`, the safety of `Kernel`.

Acceptance rests on the checked mark, the mark on which frames of inference
check, and that on where the frame stands: `infer_only` is one flag for the
whole checker, but what an inference has established is a matter of who called
it.  `TypingInv` therefore speaks of the stack.  A frame is *modal* while it
runs an inference it asked not to check; every frame with no modal one below it
has established its premises so far, its answer, and for the check of a
declaration what its steps have shown (`Derived`).  A frame under a modal one
has established nothing and is asked for nothing.  A modal frame remembers
whether one was below it, which is what `with_infer_only` puts back, and
`ModeInv` says the flag is what the stack says.  The outermost frame ties the
environment to the export (`BaseInv`): what is visible during a check is what was
admitted before it, hence a mark earned now is one the typing rules grant.
Steps are proved over three shapes of stack change (a frame goes on, calls,
returns), each preserving the invariant once.

`Exactness` is the other direction. Where conversion decides, every failure is
earned, in both modes (`Decided`, kept by every step while `decides`): inference fails only on an expression that is
not typed, `is_prop_checked` only on one that is not or whose type has no sort,
the check only on a declaration that is not justified. Callers pass a failure
on, so it is enough to speak of the frame that has just ended; what its caller
makes of it is again in the links. One step needs more than the typing rules:
`infer_proj` classifies the types of a structure and of its fields, which the
projection does not ask to be typed. That they are is `RegularAssumption`, a
fact about the type theory: the type of a typed expression is typed, and so are
the types of the fields of a typed projection's structure. No other theorem
uses it.

`ConversionProofs` adds, from its own assumptions:

- `FlagIsBracketed`: `Spec => []SpeculationBracketed`.
- `DeclineYields`: `Spec => []DeclineYieldsToProofOnly`.

`SPECULATING` is one flag, and any comparison in the stack may find it set.
`SpeculationInv` says which frame set it: one outermost frame, with no other
outermost frame above it (`Bracketed`), and where a frame may stand that has
kept a decline (`AllPlaced`). The invariant of `ConversionProofs` is needed for
where callers wait.  `DeclineYields` covers the three declines a frame keeps: of
its speculation, of its main path (the frame then stands at its last resort or
fallback), and of an argument in the structural comparison; each step out of such
a frame is shown to answer TRUE or decline (`StepYields`).

`LifetimeProofs` proves for files of any length over any indices
`NeverTooEarly` (`LifeSpec => []NothingReleasedTooEarly`) and `NeverTooLong`
(`LifeSpec => []NothingKeptTooLong`), and `TypeCorrect`. The pre-pass and the
reader are two programs that walk the same file at different times; `LifeInv`
relates each to the file and so to the other. After the scan, the table of last
uses holds the last line that uses an index (`LastUse`) and the size of the
table at every declaration is known (`Sized`). While reading, the two lists of
`release_after_decl` hold what has no use left, and everything else still waits
in one of them (`ListsInv`); a slot that is empty has no use left and one that
is filled has one behind the last declaration (`TableInv`).

`ProofStoreProofs` proves for any theorems, some of their proofs too deep to be
read, any size of a blob and any number of faults `SameProof` (`StoreSpec => []SameProofOrNone`), `NothingLost`
(`StoreSpec => []NoUnfoldingLost`) and `TypeCorrect`. `StoreInv` says what each
place a proof may be in holds: index entries lie within the file and carry the
hash of the theorem's own encoding (`EntriesFit`), the bytes under them are
that encoding while nothing was damaged (`BlobsStand`), both caches hold a
theorem's own encoding (`CachesFit`), and what was stored whole is still
indexed unless a write failed (`StoredIsIndexed`). From `StoreAssumption`
(finitely many theorems, blobs that are not empty); that a hash stands for its
bytes is the model's.

`ExpressionProofs` proves for any hash and any data, from `InternerAssumption`,
`IdentityIsExact` (`InternSpec => []IdentityIsEquality`) and `MemosAreRight`
(`InternSpec => []MemosFit`). Every part of a node is older than the node
(`PartsOlder`), so the recursion that reads a node's term ends, and no step
changes the term of a node that stays. A node made since the last drop of the
table is found under its hash by the next lookup, in the main slot or the
overflow list, whatever the sweep removed (`Tabled`); and no identity is given
out twice, so a memo entry under a dead node is never read. That terms are
equal only for one node is by induction over the node's number.

`InternTyped` (`InternSpec => []InternTypeOK`) says when nodes are freed and when
the table is swept.  The nodes allocated are exactly those alive from what is held
and, for the strong table, from its entries (`Rooted`): being alive is the least
set that has the roots and the parts of its members (`AliveLeast`), it grows with
the roots (`AliveGrows`), and freeing what is not in it changes nothing about the
rest (`SweepLeavesAlive`).  So a held node always has its parts, and a freed node
is no part of a live one.  The table is counted by slots, the overflow lists
included (`Countable`); a sweep adds no entry (`SweptTable`) and is next due more
than one entry later, and a creation adds at most one (`OneEntryMore`), so under reclamation the table never passes the size at which it
is due to be swept.

Its second part proves, for any width of a word, any cap of a list, indices of
any range and terms of any height, from `TermsAssumption` (a word has bits and no
more of them than a list may have entries) and `SubstitutionAssumption`
(subjects and arguments have half the height terms may have):

- `SubstTyped`: `SubstSpec => []SubstTypeOK`.
- `SummariesCorrect`: `SubstSpec => []SummariesAreExact`.
- `SubstitutionCorrect`: `SubstSpec => []SubstitutionIsExact`.

Each recursive function is shown to satisfy its equation on every term, with
the height of the term as rank; `shift`, `instantiate_core` and the reading
recurse over a term and the number of binders above it.  What follows is by
induction over the subterms.  The summaries come first: the free indices are
finitely many, `Loose` is the least bound of them (`LooseExact`), and a word or a
list that says something lists them (`UsedExact`, `UsedSetExact`); the cap
counts distinct indices, and `child_used` may skip a part by its range alone.
With `LooseExact` the early returns of `shift` and `instantiate_core` are
removed: a part whose range is below the binders above it comes back
unchanged, which is what the recursion without the short cut would return.
`ShiftReads` and `InstantiateReads` then compare readings at any depth of
binders; at an index that is substituted, the second needs the first, since the
argument is shifted there.  The range of the results bounds what the machine
builds (`ShiftRange`, and its counterpart for instantiation), and the invariant
`SubstInv` adds that subject and arguments have at most half of `MaxHeight`: a
term substituted at the deepest index of another is then still within it.
Without such room the functions would be asked for a term outside their domain,
of which nothing can be said; the code has no such bound.

Its third part proves, for any types of binders and any queries, from the
same assumption on words and lists and from `ContextAssumption` (types and
queries are terms):

- `KeysCorrect`: `KeySpec => []KeysStandForMeanings`.
- `ContextsTyped`: `KeySpec => []KeyTypeOK`.

What a term means in a context is fixed by the types of the binders it reaches
(`Deps`), and these are the least set that has what the term mentions and, with
a binder, what its type mentions (`Reach`).  A context in which every recorded
type is well scoped (`Telescope`) lets a single pass, innermost first, find that
set: a type mentions binders further out only.  `CloseWideFacts` and
`CloseWordFacts` say so of the two passes, which at every stage are contained in
each closed set and have what the binders passed mention (`Growing`), or give up.
So a key is the id of the whole context or a chain over a closed set of
binders (`Stands`).  Two chains are equal only over the same binders with the same
raw types (`ChainInjective`), a whole id is no chain unless both are empty
(`WholeInjective`), and a closed set with equal types reaches the same in both
contexts (`SameReach`); hence equal keys, equal meanings (`EqualKeysSameDeps`).
The converse, that a term is found again (`SameDepsEqualKeys`), needs that raw
types are the same when the types seen from inside are: shifting is injective
(`ShiftInjective`).  It is stated where the lists suffice, since a key that falls
back to the whole context changes with every binder.  `KeyInv` remembers of each
entry of the table some context it was made in.

`ImportProofs` proves for every export, from `ImportAssumption` (a name line's
prefix was read before it):

- `BlocksEnterWhole`: `ImportSpec => []BlocksAreWhole`.
- `OneName`: `ImportSpec => []OneConstantPerName`, for a file that names what
  it declares (`NamedFile`). The hypothesis is needed: `name_str` reads an
  index the file never named as the empty name (`parser.rs:347`), which no name
  line enters into the tables, so two such indices would both be let in.
- `OwnersNamed`: `ImportSpec => []OwnersAreNamed`.

`ImportInv` holds in the middle of a block, where the environment is not whole.
What the journal would take it back to is whole (`OldConsts`, `OldOwners`,
`OldGroups`: the reverse replay, as a function of the state), the block has
only added (`Added`), and at each stage what it added is what it has read and
compared (`TypesAdded` to `OwnersAdded`); at the last stage the sum is whole.
That reverse replay undoes a write just journaled, and leaves the other tables
alone, is by induction over the journal; that the sort of the group loses no
recursor and orders its keys, by induction over its insertions. For the names, `NamesInv` says that
the two tables together hold every index of a spelling, `DeclaredInv` that
declared indices have distinct spellings and that the recursors still outside
the environment will, once compared: the names the kernel expects of a block
are distinct because those of its types are. For the owners, `OwnersInv` says
that the recursors entered so far own all they claim (`Served`: a later claim of
the same type is a failure, so none is lost), that every type had a recursor
derived for it, and that the keys of a sorted group never fall. A recursor with
the kernel's rules claims its own type, by the first constructor they name, which
the whole block has under that type, or with all the others when there is none.

`ImportTyped` (`ImportSpec => []ImportTypeOK`) types the environment along the same
invariant: a failure keeps a part of what was there, and the ownership maps, which
a failure takes back as well, are about inductives and recursors because what the
journal leads back to is whole.

Induction. The provers cannot instantiate an induction theorem over a
predicate. `LeastNumber` states the principle for *sets*: a set of numbers that
holds 0 and with n also n + 1 holds every number (`Induction`), or with all
smaller numbers (`StrongInduction`), from the well-foundedness of `<`. With it,
what a recursive function computes is proved as a property of the set of
arguments where it is right. That the function exists at all, without which
`f[t] == ... f[part of t] ...` is a `CHOOSE` of nothing, is a theorem too:
`RecursiveFunction` gives one for every set with a rank in `Nat` and every body
that reads its argument only at lower ranks (`IsRecursion`). `RankInduction` is
induction along the rank. A definition whose recursion would not end has no
such rank and could not be proved about.

`LevelProofs` proves `Levels` for every set of parameters and every level a
tree of the bounded height can be, from `LevelsAssumption` (the numbers a
parameter is tried at reach beyond what a chain of `succ` adds,
`MaxValue > MaxHeight + 1`, without which a parameter could not be told from a
large numeral):

- `SimplifiedForm`: `Spec => []OwnParametersKeepLevels`.  Every node of a level
  in play is what its constructor returns for the parts it has (`Simplified`);
  the constructors and instantiation build only such levels, although `max` may
  hand back a part, or a part of a part, of what it was given.
- `InstantiateCorrect`, `NormalizeCorrect`: instantiating and normalising keep
  the value of a level under every assignment.
- `NotZeroCorrect`, `PropCorrect`: the tests for a positive level and for
  `Prop` are exact, `imax` included.
  (`NormalizeKeepsMeaning` and `NotZeroIsExact`, each about one function, are
  proved and in no run.)
- `LeqCorrect`: `leq` is exact between levels without `imax`, at the offsets of
  the property.

Each recursive function of the module is shown to exist, with the height of a
level as its rank.  `leq` recurses on either side and turns an `imax` into a
`max` of the same height, so its rank is the sum of the weights of its sides, an
`imax` weighing one more (`Weight`, `Work`).  Completeness of `leq` needs, for
every refusal, an assignment that refutes the order: all parameters zero, or
one of them larger than any numeral in play.

### Only model-checked

`EqualTermsAreProved` (a statement about one graph), `NoComparisonInsideItself`
(which holds only where a step never leads back to its term, as in the graph of the run),
`ComparisonsTerminate` and the liveness of `KernelSpec` (liveness), the
properties found violated, and all of `Spines`, `Inductives`,
`Recursors`, `Reduction`, `Quotients` and `ProofCodec`, whose operators recurse
over terms and graphs and are RECURSIVE, of which the prover can use no
definition.

## Not modelled

- Normalisation by evaluation (`nbe.rs`, `tc.rs` 6586-7345) is off unless an
  environment variable enables it and only a proof of equality is used from it;
  a model would restate conversion with closures.
- `nat.rs` and the literal rules of conversion: pure functions on big integers.
  The counter of consecutive peels of huge literals (`tc.rs:4265`) depends on
  literal majors, which `Reduction` leaves out.
- `try_quot`: two reductions by argument position.
- `main.rs`: a thread that is joined and a table of exit codes.
- `scripts/remote/runner.py`: process groups and signals of the operating system; outside the
  checker, last in the plan.  The other scripts, the gate and the statistics
  report and decide nothing.

## Plan

1. Done: `Conversion`, `Levels`, `Typing`, `Kernel`; `Import`, `Lifetime`,
   `ProofStore`, `ProofCodec`; `Interner`, `ContextKeys`, `Substitution`;
   `Inductives`, `Recursors`, `Reduction`, `Quotients`.
2. Proofs: done for every safety property the prover can reach (see "Only
   model-checked").
3. Left to model: `Conversion` as a refinement of the comparison `Typing`
   assumes, the rescue of arguments with NbE, literal majors with the counter
   of peels, the runner's child group.
