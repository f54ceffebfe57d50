------------------------------ MODULE Lifetime ------------------------------
(***************************************************************************)
(* The export reader's expression table and the release of its slots.      *)
(*                                                                         *)
(* An export file is read twice.  lifetime.rs scans it line by line and    *)
(* remembers, for every expression index, the last line that defines or    *)
(* refers to it.  parser.rs then reads the file again, fills the table     *)
(* and, behind every declaration line, empties the slots that expired: a   *)
(* short-lived slot with its home declaration, a long-lived one when its   *)
(* last line is reached.  The two passes must agree: a slot emptied too    *)
(* early stops the run, a slot never emptied is the memory this is for.    *)
(*                                                                         *)
(* The file is chosen line by line before the passes start; a line is its  *)
(* kind and the indices it refers to, which is all the two passes look at. *)
(* A term is the line that defined it and the terms it refers to are not   *)
(* kept: what matters is whether a slot is filled.                         *)
(***************************************************************************)
EXTENDS Integers, Sequences, FiniteSets, FiniteSetsExt

CONSTANTS MaxIndex,   \* largest expression index of the file
          MaxLines,   \* longest file
          MaxRefs     \* most references on one line

ASSUMPTION LifetimeAssumption ==
    /\ MaxIndex \in Nat
    /\ MaxLines \in Nat \ {0}
    /\ MaxRefs \in Nat

VARIABLES file,       \* the lines of the export
          phase,      \* "write", "scan", "read", "end"
          line,       \* lines handled by the current pass
          scan,       \* what the first pass has collected
          lt,         \* its result, and the cursor of the release
          exprs,      \* the parser's table: a sequence of slots, index 0 first
          err         \* why the reading stopped, with the index read

lifeVars == <<file, phase, line, scan, lt, exprs, err>>

Indices == 0 .. MaxIndex
Refs == { r \in SUBSET Indices : Cardinality(r) <= MaxRefs }

\* A slot before its line and after its release, and the errors of a read.
Empty == 0
NoError == [kind |-> "none", idx |-> 0]

ExprLine(i, refs) == [kind |-> "expr", idx |-> i, refs |-> refs]
DeclLine(refs, ok) == [kind |-> "decl", refs |-> refs, ok |-> ok]
OtherLine == [kind |-> "other"]         \* names, levels, metadata, blank
UnknownLine == [kind |-> "unknown"]     \* a record the parser skips

Lines == { ExprLine(i, r) : i \in Indices, r \in Refs }
         \cup { DeclLine(r, ok) : r \in Refs, ok \in BOOLEAN }
         \cup {OtherLine, UnknownLine}

-----------------------------------------------------------------------------
(* The first pass (scan_reader).                                           *)

\* How `classify` sees a line: everything that is not an expression, a level,
\* a name or metadata is taken for a declaration, also a record nobody knows.
Classify(l) == IF l.kind = "unknown" THEN "decl" ELSE l.kind
RefsOf(l) == IF l.kind \in {"expr", "decl"} THEN l.refs ELSE {}

EmptyScan == [last |-> <<>>, declLines |-> <<>>, declFirst |-> <<>>]

\* A table grown so that it has a place for index i.
Grown(s, i, fill) ==
    IF i < Len(s) THEN s ELSE s \o [k \in 1 .. i + 1 - Len(s) |-> fill]

\* Every known index the line refers to is alive up to this line.
Touch(last, refs, n) ==
    [k \in DOMAIN last |-> IF k - 1 \in refs THEN n ELSE last[k]]

ScanExpr(s, l, n) ==
    LET touched == Grown(Touch(s.last, l.refs, n), l.idx, 0)
    IN  [s EXCEPT !.last = [touched EXCEPT ![l.idx + 1] = n]]

ScanDecl(s, l, n) ==
    [s EXCEPT !.last = Touch(s.last, RefsOf(l), n),
              !.declLines = Append(s.declLines, n),
              !.declFirst = Append(s.declFirst, Len(s.last))]

\* No declaration follows: the node's home is past every line.
Never == MaxLines + 1

\* The first declaration line after the node.
Home(s, i) ==
    LET after == { g \in DOMAIN s.declFirst : s.declFirst[g] > i }
    IN  IF after = {} THEN Never ELSE s.declLines[Min(after)]

Lifetimes(s) ==
    LET nodes == 0 .. Len(s.last) - 1
        short == { i \in nodes : s.last[i + 1] <= Home(s, i) }
    IN  [short |-> short,
         \* the list sorted by line, as the pairs still ahead of its cursor
         long |-> { <<s.last[i + 1], i>> : i \in nodes \ short },
         groupFirst |-> 0,
         nodes |-> Len(s.last)]

NoLifetimes == [short |-> {}, long |-> {}, groupFirst |-> 0, nodes |-> 0]

-----------------------------------------------------------------------------
(* The second pass (Parser::run).                                          *)

Filled(i) == i < Len(exprs) /\ exprs[i + 1] # Empty

\* expr_at: an index past the table is the file's fault, an empty slot is
\* taken for one that was released.
ReadError(i) ==
    [kind |-> IF i < Len(exprs) THEN "released" ELSE "range", idx |-> i]

\* A bug: a long-lived slot expires with the line before its last one.
DueOneEarly(l, n, defined) ==
    { i \in l.short : l.groupFirst <= i /\ i < defined }
    \cup { p[2] : p \in { q \in l.long : q[1] <= n + 1 } }

\* A bug: the group starts one index late.
DueSkipsFirst(l, n, defined) ==
    { i \in l.short : l.groupFirst < i /\ i < defined }
    \cup { p[2] : p \in { q \in l.long : q[1] <= n } }

\* What the release behind a declaration line passes to `release`.
Due(l, n, defined) ==
    { i \in l.short : l.groupFirst <= i /\ i < defined }
    \cup { p[2] : p \in { q \in l.long : q[1] <= n } }

Released(slots, gone) ==
    [k \in DOMAIN slots |-> IF k - 1 \in gone THEN Empty ELSE slots[k]]

\* release_expired, after the declaration on line n.
ReleaseExpired(n) ==
    /\ exprs' = Released(exprs, Due(lt, n, Len(exprs)))
    /\ lt' = [lt EXCEPT !.groupFirst = Len(exprs),
                        !.long = { q \in @ : q[1] > n }]

-----------------------------------------------------------------------------
LifeInit ==
    /\ file = <<>>
    /\ phase = "write"
    /\ line = 0
    /\ scan = EmptyScan
    /\ lt = NoLifetimes
    /\ exprs = <<>>
    /\ err = NoError

\* The exporter's next line.
WriteLine(l) ==
    /\ phase = "write"
    /\ Len(file) < MaxLines
    /\ file' = Append(file, l)
    /\ UNCHANGED <<phase, line, scan, lt, exprs, err>>

\* run_file: the file is complete, the first pass starts.
StartScan ==
    /\ phase = "write"
    /\ phase' = "scan"
    /\ UNCHANGED <<file, line, scan, lt, exprs, err>>

ScanLine ==
    /\ phase = "scan"
    /\ line < Len(file)
    /\ line' = line + 1
    /\ LET l == file[line']
       IN  scan' = CASE Classify(l) = "expr" -> ScanExpr(scan, l, line')
                     [] Classify(l) = "decl" -> ScanDecl(scan, l, line')
                     [] OTHER -> scan
    /\ UNCHANGED <<file, phase, lt, exprs, err>>

EndScan ==
    /\ phase = "scan"
    /\ line = Len(file)
    /\ lt' = Lifetimes(scan)
    /\ phase' = "read"
    /\ line' = 0
    /\ scan' = EmptyScan
    /\ UNCHANGED <<file, exprs, err>>

\* The next line of the second pass is of kind k.
Reading(k) ==
    /\ phase = "read"
    /\ line < Len(file)
    /\ file[line + 1].kind = k
    /\ line' = line + 1
    /\ UNCHANGED <<file, scan>>

\* A line whose references cannot all be read stops the run at one of them.
Fails(l) ==
    \E i \in { j \in l.refs : ~Filled(j) } :
        /\ err' = ReadError(i)
        /\ phase' = "end"

\* A bug: the table grows with copies of the new term.
FillSlotAndGap(l) ==
    /\ \A i \in l.refs : Filled(i)
    /\ exprs' = [Grown(exprs, l.idx, line') EXCEPT ![l.idx + 1] = line']
    /\ UNCHANGED <<phase, lt, err>>

\* handle_expr: read the parts, grow the table, fill the slot.
FillSlot(l) ==
    /\ \A i \in l.refs : Filled(i)
    /\ exprs' = [Grown(exprs, l.idx, Empty) EXCEPT ![l.idx + 1] = line']
    /\ UNCHANGED <<phase, lt, err>>

\* The run releases behind a failed line of any kind.
ReadExpr ==
    /\ Reading("expr")
    /\ LET l == file[line']
       IN  FillSlot(l) \/ (Fails(l) /\ ReleaseExpired(line'))

\* A declaration: its terms are read and checked; behind it, whatever the
\* verdict, the expired slots go, and a failure then ends the run.
ReadDecl ==
    /\ Reading("decl")
    /\ LET l == file[line']
       IN  \/ /\ \A i \in l.refs : Filled(i)
              /\ l.ok
              /\ UNCHANGED <<phase, err>>
           \/ /\ \A i \in l.refs : Filled(i)
              /\ ~l.ok
              /\ phase' = "end"
              /\ err' = [NoError EXCEPT !.kind = "verdict"]
           \/ Fails(l)
    /\ ReleaseExpired(line')

\* Names, levels, metadata, blank lines and unknown records release nothing.
SkipLine ==
    /\ Reading("other") \/ Reading("unknown")
    /\ UNCHANGED <<phase, lt, exprs, err>>

EndRead ==
    /\ phase = "read"
    /\ line = Len(file)
    /\ phase' = "end"
    /\ UNCHANGED <<file, line, scan, lt, exprs, err>>

LifeNext ==
    \/ \E l \in Lines : WriteLine(l)
    \/ StartScan \/ ScanLine \/ EndScan
    \/ ReadExpr \/ ReadDecl \/ SkipLine \/ EndRead

LifeSpec == LifeInit /\ [][LifeNext]_lifeVars

-----------------------------------------------------------------------------
(* Properties.                                                             *)

DefinesBy(n) == { file[k].idx : k \in { j \in 1 .. n : file[j].kind = "expr" } }

\* The state is what the code can hold: the table has no more slots than the
\* pre-pass counted, the cursor never passes the table's end, and a filled
\* slot holds a term of a line that defines its index.
LifeTypeOK ==
    /\ file \in Seq(Lines) /\ Len(file) <= MaxLines
    /\ phase \in {"write", "scan", "read", "end"}
    /\ line \in 0 .. Len(file)
    /\ phase \in {"read", "end"} => Len(exprs) <= lt.nodes
    /\ lt.groupFirst <= Len(exprs)
    /\ \A k \in DOMAIN exprs :
          exprs[k] # Empty => /\ exprs[k] <= line
                              /\ file[exprs[k]] = ExprLine(k - 1, file[exprs[k]].refs)
    /\ err.kind \in {"none", "released", "range", "verdict"}

\* No slot is emptied before its last use: a read that finds an empty slot
\* reads an index that no earlier line defined, whatever the order in which
\* indices are defined, redefined and referred to (the fear of
\* Parser::released, and of the header of lifetime.rs).
NothingReleasedTooEarly ==
    err.kind = "released" => err.idx \notin DefinesBy(line - 1)

UsedAfter(i, n) ==
    \E k \in n + 1 .. Len(file) :
        \/ file[k].kind = "expr" /\ (file[k].idx = i \/ i \in file[k].refs)
        \/ file[k].kind = "decl" /\ i \in file[k].refs

\* Behind a declaration line the table holds no term that nothing later
\* needs: memory follows what is still alive (the reason for the pre-pass).
NothingKeptTooLong ==
    (line > 0 /\ phase \in {"read", "end"} /\ file[line].kind = "decl") =>
        \A i \in Indices : Filled(i) => UsedAfter(i, line)
=============================================================================
