--------------------------- MODULE LifetimeProofs ---------------------------
(***************************************************************************)
(* Proofs about `Lifetime`, for files of any length over any indices: the  *)
(* release behind a declaration never empties a slot that a later line     *)
(* reads, and never keeps one that no later line uses.                     *)
(*                                                                         *)
(* The two passes agree because both follow the same notion of a use, so   *)
(* the invariant states what each has collected in terms of the file: the  *)
(* scan has the last use of every index so far and the size of the table   *)
(* at every declaration; the reader's two lists say of every index when no *)
(* use is left; and what the table holds is what still has one.            *)
(***************************************************************************)
EXTENDS Lifetime, LeastNumber, SequenceTheorems

\* After line n the table has a slot for index i.
Known(i, n) == \E k \in 1 .. n : file[k].kind = "expr" /\ file[k].idx >= i

\* Line k needs index i, as the scan sees it: it defines it, or refers to a
\* slot that is already there.
Uses(k, i) ==
    \/ file[k].kind = "expr" /\ file[k].idx = i
    \/ i \in RefsOf(file[k]) /\ Known(i, k - 1)

UsesAfter(i, n) == \E k \in n + 1 .. Len(file) : Uses(k, i)

\* m is the last of the first n lines that uses i, or 0.
LastUse(i, m, n) ==
    /\ m \in 0 .. n
    /\ m > 0 => Uses(m, i)
    /\ \A k \in m + 1 .. n : ~Uses(k, i)

Sized(size, n) == \A i \in Nat : i < size <=> Known(i, n)
DeclAt(n) == Classify(file[n]) = "decl"

\* What the first pass has collected after `line` lines.
ScanInv ==
    /\ scan \in [last : Seq(Nat), declLines : Seq(Nat), declFirst : Seq(Nat)]
    /\ Sized(Len(scan.last), line)
    /\ \A k \in DOMAIN scan.last : LastUse(k - 1, scan.last[k], line)
    /\ scan.declLines \in Seq(1 .. line)
    /\ Len(scan.declFirst) = Len(scan.declLines)
    /\ \A g \in DOMAIN scan.declLines :
          /\ Sized(scan.declFirst[g], scan.declLines[g])
          /\ \A f \in 1 .. g : scan.declLines[f] <= scan.declLines[g]
    /\ \A n \in 1 .. line : DeclAt(n) => \E g \in DOMAIN scan.declLines : scan.declLines[g] = n

\* The lists of the second pass, behind the declaration on line r (0: none).
ListsInv(r) ==
    /\ Sized(lt.groupFirst, r)
    /\ \A i \in lt.short : \A h \in 1 .. Len(file) :
          DeclAt(h) /\ Known(i, h) => ~UsesAfter(i, h)
    /\ \A q \in lt.long : /\ q[1] \in 1 .. Len(file) /\ Uses(q[1], q[2])
                          /\ ~UsesAfter(q[2], q[1])
    /\ \A i \in 0 .. lt.nodes - 1 :
          i \notin lt.short /\ UsesAfter(i, r) => \E q \in lt.long : q[2] = i

\* What is gone has no use left, and what is there has one behind line r.
TableInv(r) ==
    /\ Sized(Len(exprs), line)
    /\ \A i \in DefinesBy(line) : ~Filled(i) => ~UsesAfter(i, line)
    /\ \A i \in Nat : Filled(i) => UsesAfter(i, r)

LastDecl(r) ==
    /\ r \in 0 .. line
    /\ r > 0 => file[r].kind = "decl"
    /\ \A k \in r + 1 .. line : file[k].kind # "decl"

ReadInv == /\ Sized(lt.nodes, Len(file))
           /\ \E r \in 0 .. line : LastDecl(r) /\ ListsInv(r) /\ TableInv(r)

LtType == [short : SUBSET Nat, long : SUBSET (Nat \X Nat), groupFirst : Nat, nodes : Nat]

LifeInv ==
    /\ LifeTypeOK
    /\ exprs \in Seq(Nat)
    /\ lt \in LtType
    /\ phase \in {"write", "scan"} => exprs = <<>> /\ lt = NoLifetimes
    /\ phase = "write" => line = 0 /\ scan = EmptyScan
    /\ phase # "end" => err = NoError
    /\ phase = "scan" => ScanInv
    /\ phase = "read" => ReadInv
    /\ NothingReleasedTooEarly
    /\ NothingKeptTooLong

-----------------------------------------------------------------------------
(* Lines, tables and uses.                                                 *)

LEMMA LineFacts ==
    ASSUME NEW l \in Lines
    PROVE  /\ l.kind \in {"expr", "decl", "other", "unknown"}
           /\ RefsOf(l) \subseteq Nat
           /\ l.kind = "expr" => /\ l.idx \in Nat /\ l.refs \subseteq Nat
                                 /\ l = ExprLine(l.idx, l.refs)
           /\ l.kind = "decl" => l.refs \subseteq Nat
           /\ l.kind \in {"expr", "decl"} => RefsOf(l) = l.refs
           /\ l.kind \in {"other", "unknown"} => RefsOf(l) = {}
<1> USE LifetimeAssumption DEF RefsOf
<1>1. \A r \in Refs : r \subseteq Nat
  BY DEF Refs, Indices
<1>2. CASE \E i \in Indices, r \in Refs : l = ExprLine(i, r)
  BY <1>1, <1>2 DEF ExprLine, Indices
<1>3. CASE \E r \in Refs, ok \in BOOLEAN : l = DeclLine(r, ok)
  BY <1>1, <1>3 DEF DeclLine
<1>4. CASE l \in {OtherLine, UnknownLine}
  BY <1>4 DEF OtherLine, UnknownLine
<1> QED
  BY <1>2, <1>3, <1>4 DEF Lines

LEMMA GrownFacts ==
    ASSUME NEW s \in Seq(Nat), NEW i \in Nat, NEW fill \in Nat
    PROVE  /\ Grown(s, i, fill) \in Seq(Nat)
           /\ Len(Grown(s, i, fill)) = IF i < Len(s) THEN Len(s) ELSE i + 1
           /\ \A k \in 1 .. Len(Grown(s, i, fill)) :
                 Grown(s, i, fill)[k] = IF k <= Len(s) THEN s[k] ELSE fill
<1>1. CASE i < Len(s)
  BY <1>1 DEF Grown
<1>2. CASE ~(i < Len(s))
  <2> DEFINE more == [k \in 1 .. i + 1 - Len(s) |-> fill]
  <2>1. Len(s) \in Nat /\ i + 1 - Len(s) \in Nat
    BY <1>2
  <2>2. more \in Seq(Nat) /\ Len(more) = i + 1 - Len(s)
    BY <2>1
  <2>3. \A k \in 1 .. i + 1 - Len(s) : more[k] = fill
    OBVIOUS
  <2> HIDE DEF more
  <2>4. Grown(s, i, fill) = s \o more
    BY <1>2 DEF Grown, more
  <2>5. /\ s \o more \in Seq(Nat) /\ Len(s \o more) = i + 1
        /\ \A k \in 1 .. i + 1 : (s \o more)[k] = IF k <= Len(s) THEN s[k] ELSE more[k - Len(s)]
    BY <2>1, <2>2, ConcatProperties
  <2>6. \A k \in 1 .. i + 1 : ~(k <= Len(s)) => more[k - Len(s)] = fill
    BY <2>1, <2>3
  <2> QED
    BY <1>2, <2>4, <2>5, <2>6
<1> QED BY <1>1, <1>2

LEMMA KnownMonotone ==
    ASSUME NEW i, NEW n \in Nat, NEW m \in Nat, n <= m, Known(i, n)
    PROVE  Known(i, m)
  BY DEF Known

\* One more line.
LEMMA KnownStep ==
    ASSUME NEW i, NEW n \in Nat
    PROVE  Known(i, n + 1) <=> Known(i, n) \/ (file[n + 1].kind = "expr" /\ file[n + 1].idx >= i)
  BY DEF Known

\* The file is not written any more once it is read, and the facts about it
\* do not change.
LEMMA FileFacts ==
    ASSUME UNCHANGED file
    PROVE  /\ \A i, n : Known(i, n)' <=> Known(i, n)
           /\ \A k, i : Uses(k, i)' <=> Uses(k, i)
           /\ \A i, n : UsesAfter(i, n)' <=> UsesAfter(i, n)
           /\ \A i, m, n : LastUse(i, m, n)' <=> LastUse(i, m, n)
           /\ \A size, n : Sized(size, n)' <=> Sized(size, n)
           /\ \A n : DeclAt(n)' <=> DeclAt(n)
           /\ \A n : DefinesBy(n)' = DefinesBy(n)
  BY DEF Known, Uses, UsesAfter, LastUse, Sized, DeclAt, DefinesBy

-----------------------------------------------------------------------------
(* Writing the file, and the first pass.                                   *)

LEMMA InitInv == LifeInit => LifeInv
<1> SUFFICES ASSUME LifeInit PROVE LifeInv
  OBVIOUS
<1> USE DEF LifeInit, NoLifetimes, EmptyScan, NoError, Empty
<1>1. LifeTypeOK
  BY LifetimeAssumption DEF LifeTypeOK
<1>2. lt \in LtType
  BY DEF LtType
<1> QED
  BY <1>1, <1>2 DEF LifeInv, NothingReleasedTooEarly, NothingKeptTooLong

LEMMA WriteLineKeeps ==
    ASSUME LifeInv, NEW l \in Lines, WriteLine(l)
    PROVE  LifeInv'
<1> USE DEF WriteLine, LifeInv
<1>1. file' \in Seq(Lines) /\ Len(file') = Len(file) + 1 /\ Len(file') <= MaxLines
  BY LifetimeAssumption DEF LifeTypeOK
<1>2. LifeTypeOK'
  BY <1>1, LifetimeAssumption DEF LifeTypeOK, NoLifetimes
<1> QED
  BY <1>1, <1>2 DEF NothingReleasedTooEarly, NothingKeptTooLong, NoError

LEMMA StartScanKeeps ==
    ASSUME LifeInv, StartScan
    PROVE  LifeInv'
<1> USE DEF StartScan, LifeInv
<1>1. LifeTypeOK'
  BY DEF LifeTypeOK
<1>2. /\ line' = 0 /\ scan'.last = <<>>
      /\ scan'.declLines = <<>> /\ scan'.declFirst = <<>>
      /\ scan' = [last |-> <<>>, declLines |-> <<>>, declFirst |-> <<>>]
  BY DEF EmptyScan
<1>3. Sized(0, 0)'
  BY DEF Sized, Known
<1>4. ScanInv'
  BY <1>2, <1>3 DEF ScanInv
<1> QED
  BY <1>1, <1>4 DEF NothingReleasedTooEarly, NothingKeptTooLong, NoError

\* The scan reads an expression line: its uses are touched, its slot is there.
LEMMA ScanExprKeeps ==
    ASSUME NEW l \in Lines, NEW n \in Nat, n + 1 \in 1 .. Len(file), file[n + 1] = l,
           l.kind = "expr", ScanInv, line = n,
           NEW t, t = ScanExpr(scan, l, n + 1)
    PROVE  /\ t \in [last : Seq(Nat), declLines : Seq(Nat), declFirst : Seq(Nat)]
           /\ Sized(Len(t.last), n + 1)
           /\ \A k \in DOMAIN t.last : LastUse(k - 1, t.last[k], n + 1)
           /\ t.declLines = scan.declLines /\ t.declFirst = scan.declFirst
<1> DEFINE last == scan.last
           touch == Touch(last, l.refs, n + 1)
           grown == Grown(touch, l.idx, 0)
           new == [grown EXCEPT ![l.idx + 1] = n + 1]
<1>1. l.idx \in Nat /\ l.refs \subseteq Nat /\ RefsOf(l) = l.refs
  BY LineFacts
<1>2. last \in Seq(Nat) /\ Sized(Len(last), n)
      /\ \A k \in 1 .. Len(last) : LastUse(k - 1, last[k], n)
  BY DEF ScanInv
<1>t. t = [scan EXCEPT !.last = new]
  BY DEF ScanExpr
<1> HIDE DEF last
<1>3. /\ touch \in Seq(Nat) /\ Len(touch) = Len(last)
      /\ \A k \in 1 .. Len(last) : touch[k] = IF k - 1 \in l.refs THEN n + 1 ELSE last[k]
  <2>1. Len(last) \in Nat /\ DOMAIN last = 1 .. Len(last) /\ \A k \in 1 .. Len(last) : last[k] \in Nat
    BY <1>2
  <2>2. touch = [k \in 1 .. Len(last) |-> IF k - 1 \in l.refs THEN n + 1 ELSE last[k]]
    BY <2>1 DEF Touch
  <2> QED BY <2>1, <2>2
<1> HIDE DEF touch
<1>4. /\ grown \in Seq(Nat)
      /\ Len(grown) = IF l.idx < Len(last) THEN Len(last) ELSE l.idx + 1
      /\ \A k \in 1 .. Len(grown) : grown[k] = IF k <= Len(last) THEN touch[k] ELSE 0
  <2>2. grown = Grown(touch, l.idx, 0)
    OBVIOUS
  <2> HIDE DEF grown, new
  <2>7. touch \in Seq(Nat) /\ l.idx \in Nat /\ 0 \in Nat
    BY <1>1, <1>3
  <2>1. /\ Grown(touch, l.idx, 0) \in Seq(Nat)
        /\ Len(Grown(touch, l.idx, 0)) = IF l.idx < Len(touch) THEN Len(touch) ELSE l.idx + 1
        /\ \A k \in 1 .. Len(Grown(touch, l.idx, 0)) :
              Grown(touch, l.idx, 0)[k] = IF k <= Len(touch) THEN touch[k] ELSE 0
    BY <2>7, GrownFacts
  <2>3. Len(touch) = Len(last)
    BY <1>3
  <2>4. grown \in Seq(Nat)
    BY <2>1, <2>2
  <2>5. Len(grown) = IF l.idx < Len(last) THEN Len(last) ELSE l.idx + 1
    BY <2>1, <2>2, <2>3
  <2>6. \A k \in 1 .. Len(grown) : grown[k] = IF k <= Len(last) THEN touch[k] ELSE 0
    BY <2>1, <2>2, <2>3
  <2> QED BY <2>4, <2>5, <2>6
<1> HIDE DEF grown
<1>5. /\ new \in Seq(Nat) /\ Len(new) = Len(grown) /\ l.idx + 1 \in 1 .. Len(grown)
      /\ \A k \in 1 .. Len(grown) : new[k] = IF k = l.idx + 1 THEN n + 1 ELSE grown[k]
  <2>1. Len(last) \in Nat
    BY <1>2
  <2>2. Len(grown) \in Nat /\ DOMAIN grown = 1 .. Len(grown)
        /\ \A k \in 1 .. Len(grown) : grown[k] \in Nat
    BY <1>4
  <2>3. l.idx + 1 \in 1 .. Len(grown)
    BY <1>1, <1>4, <2>1, <2>2
  <2>4. new = [k \in 1 .. Len(grown) |-> IF k = l.idx + 1 THEN n + 1 ELSE grown[k]]
    BY <2>2, <2>3
  <2> HIDE DEF new
  <2>5. new \in [1 .. Len(grown) -> Nat]
    BY <2>2, <2>4
  <2> QED BY <2>2, <2>3, <2>4, <2>5
<1> HIDE DEF new
<1>6. /\ t.last = new /\ t.declLines = scan.declLines /\ t.declFirst = scan.declFirst
      /\ t \in [last : Seq(Nat), declLines : Seq(Nat), declFirst : Seq(Nat)]
  BY <1>t, <1>5 DEF ScanInv
<1>7. Sized(Len(new), n + 1)
  <2>1. Len(last) \in Nat
    BY <1>2
  <2> SUFFICES ASSUME NEW i \in Nat
               PROVE  i < Len(new) <=> Known(i, n + 1)
    BY DEF Sized
  <2>2. Known(i, n + 1) <=> i < Len(last) \/ l.idx >= i
    BY <1>2, KnownStep DEF Sized
  <2> QED BY <1>1, <1>4, <1>5, <2>1, <2>2
<1>8. ASSUME NEW k \in 1 .. Len(new)
      PROVE  LastUse(k - 1, new[k], n + 1)
  <2>1. Len(last) \in Nat /\ k \in Nat /\ k - 1 \in Nat
    BY <1>2, <1>5, <1>4
  <2>2. Uses(n + 1, k - 1) <=> k = l.idx + 1 \/ (k - 1 \in l.refs /\ k <= Len(last))
    BY <1>1, <1>2, <2>1 DEF Uses, Sized
  <2>3. CASE k = l.idx + 1 \/ (k - 1 \in l.refs /\ k <= Len(last))
    <3>1. new[k] = IF k = l.idx + 1 THEN n + 1 ELSE grown[k]
      BY <1>5
    <3>2. k # l.idx + 1 => grown[k] = n + 1
      BY <1>3, <1>4, <1>5, <2>1, <2>3
    <3>3. new[k] = n + 1
      BY <3>1, <3>2
    <3> QED BY <2>2, <2>3, <3>3 DEF LastUse
  <2>4. CASE k # l.idx + 1 /\ k - 1 \notin l.refs /\ k <= Len(last)
    <3>1. new[k] = last[k]
      BY <1>3, <1>4, <1>5, <2>1, <2>4
    <3>2. LastUse(k - 1, last[k], n)
      BY <1>2, <2>1, <2>4
    <3> QED BY <2>2, <2>4, <3>1, <3>2 DEF LastUse
  <2>5. CASE k # l.idx + 1 /\ ~(k <= Len(last))
    <3>1. new[k] = 0
      BY <1>4, <1>5, <2>1, <2>5
    <3>2. ~Known(k - 1, n)
      BY <1>2, <2>1, <2>5 DEF Sized
    <3>3. ASSUME NEW j \in 1 .. n
          PROVE  ~Uses(j, k - 1)
      BY <3>2, <2>1 DEF Uses, Known
    <3> QED BY <2>2, <2>5, <3>1, <3>3 DEF LastUse
  <2> QED BY <2>3, <2>4, <2>5
<1>9. DOMAIN t.last = 1 .. Len(new)
  BY <1>5, <1>6
<1> QED BY <1>6, <1>7, <1>8, <1>9

\* The scan reads any other line: there are no new slots.
LEMMA OtherLineSized ==
    ASSUME NEW n \in Nat, file[n + 1].kind # "expr", NEW size, Sized(size, n)
    PROVE  Sized(size, n + 1)
  BY KnownStep DEF Sized

LEMMA ScanDeclKeeps ==
    ASSUME NEW l \in Lines, NEW n \in Nat, n + 1 \in 1 .. Len(file), file[n + 1] = l,
           Classify(l) = "decl", ScanInv, line = n,
           NEW t, t = ScanDecl(scan, l, n + 1)
    PROVE  /\ t \in [last : Seq(Nat), declLines : Seq(Nat), declFirst : Seq(Nat)]
           /\ Sized(Len(t.last), n + 1)
           /\ \A k \in DOMAIN t.last : LastUse(k - 1, t.last[k], n + 1)
           /\ t.declLines = Append(scan.declLines, n + 1)
           /\ t.declFirst = Append(scan.declFirst, Len(t.last))
<1> DEFINE last == scan.last
           touch == Touch(last, RefsOf(l), n + 1)
<1>1. RefsOf(l) \subseteq Nat /\ l.kind # "expr"
  BY LineFacts DEF Classify
<1>2. last \in Seq(Nat) /\ Sized(Len(last), n)
      /\ \A k \in 1 .. Len(last) : LastUse(k - 1, last[k], n)
  BY DEF ScanInv
<1>t. t = [scan EXCEPT !.last = touch, !.declLines = Append(@, n + 1),
                       !.declFirst = Append(@, Len(last))]
  BY DEF ScanDecl
<1> HIDE DEF last
<1>3. /\ touch \in Seq(Nat) /\ Len(touch) = Len(last)
      /\ \A k \in 1 .. Len(last) : touch[k] = IF k - 1 \in RefsOf(l) THEN n + 1 ELSE last[k]
  <2>1. Len(last) \in Nat /\ DOMAIN last = 1 .. Len(last) /\ \A k \in 1 .. Len(last) : last[k] \in Nat
    BY <1>2
  <2>2. touch = [k \in 1 .. Len(last) |-> IF k - 1 \in RefsOf(l) THEN n + 1 ELSE last[k]]
    BY <2>1 DEF Touch
  <2> QED BY <2>1, <2>2
<1> HIDE DEF touch
<1>4. /\ t.last = touch /\ t.declLines = Append(scan.declLines, n + 1)
      /\ t.declFirst = Append(scan.declFirst, Len(last))
      /\ t \in [last : Seq(Nat), declLines : Seq(Nat), declFirst : Seq(Nat)]
  <2>1. scan \in [last : Seq(Nat), declLines : Seq(Nat), declFirst : Seq(Nat)]
        /\ Len(last) \in Nat
    BY <1>2 DEF ScanInv
  <2> DEFINE lines == Append(scan.declLines, n + 1)
             first == Append(scan.declFirst, Len(last))
  <2>2. lines \in Seq(Nat) /\ first \in Seq(Nat)
    BY <2>1
  <2>3. t = [last |-> touch, declLines |-> lines, declFirst |-> first]
    BY <1>t, <2>1
  <2> HIDE DEF lines, first
  <2>4. touch \in Seq(Nat)
    BY <1>3
  <2>5. t \in [last : Seq(Nat), declLines : Seq(Nat), declFirst : Seq(Nat)]
    BY <2>2, <2>3, <2>4
  <2> QED BY <2>3, <2>5 DEF lines, first
<1>5. ASSUME NEW k \in 1 .. Len(last)
      PROVE  LastUse(k - 1, touch[k], n + 1)
  <2>1. Uses(n + 1, k - 1) <=> k - 1 \in RefsOf(l)
    BY <1>1, <1>2 DEF Uses, Sized
  <2>2. LastUse(k - 1, last[k], n)
    BY <1>2
  <2> QED BY <1>3, <2>1, <2>2 DEF LastUse
<1>6. Sized(Len(last), n + 1)
  BY <1>1, <1>2, OtherLineSized
<1>7. DOMAIN t.last = 1 .. Len(last)
  BY <1>3, <1>4
<1>8. Len(t.last) = Len(last)
  BY <1>3, <1>4
<1> QED BY <1>4, <1>5, <1>6, <1>7, <1>8

LEMMA ScanLineKeeps ==
    ASSUME LifeInv, ScanLine
    PROVE  LifeInv'
<1> DEFINE n == line
           l == file[n + 1]
<1>1. /\ n \in Nat /\ n + 1 \in 1 .. Len(file) /\ l \in Lines
      /\ phase = "scan" /\ ScanInv
      /\ line' = n + 1 /\ UNCHANGED <<file, phase, lt, exprs, err>>
  BY DEF ScanLine, LifeInv, LifeTypeOK
<1>2. scan' = CASE Classify(l) = "expr" -> ScanExpr(scan, l, n + 1)
                [] Classify(l) = "decl" -> ScanDecl(scan, l, n + 1)
                [] OTHER -> scan
  BY DEF ScanLine
<1>3. Classify(l) \in {"expr", "decl", "other"} /\ (Classify(l) = "expr" <=> l.kind = "expr")
  BY <1>1, LineFacts DEF Classify
<1>4. /\ scan.declLines \in Seq(1 .. n) /\ scan.declFirst \in Seq(Nat)
      /\ Len(scan.declFirst) = Len(scan.declLines)
      /\ \A g \in DOMAIN scan.declLines :
            /\ Sized(scan.declFirst[g], scan.declLines[g])
            /\ \A f \in 1 .. g : scan.declLines[f] <= scan.declLines[g]
      /\ \A k \in 1 .. n : DeclAt(k) => \E g \in DOMAIN scan.declLines : scan.declLines[g] = k
  BY <1>1 DEF ScanInv
<1> HIDE DEF n, l
<1>5. /\ scan' \in [last : Seq(Nat), declLines : Seq(Nat), declFirst : Seq(Nat)]
      /\ Sized(Len(scan'.last), n + 1)
      /\ \A k \in DOMAIN scan'.last : LastUse(k - 1, scan'.last[k], n + 1)
      /\ IF Classify(l) = "decl"
         THEN /\ scan'.declLines = Append(scan.declLines, n + 1)
              /\ scan'.declFirst = Append(scan.declFirst, Len(scan'.last))
         ELSE /\ scan'.declLines = scan.declLines
              /\ scan'.declFirst = scan.declFirst
  <2>1. CASE Classify(l) = "expr"
    BY <1>1, <1>2, <1>3, <2>1, ScanExprKeeps DEF n, l
  <2>2. CASE Classify(l) = "decl"
    BY <1>1, <1>2, <1>3, <2>2, ScanDeclKeeps DEF n, l
  <2>3. CASE Classify(l) = "other"
    <3>1. scan' = scan /\ l.kind = "other" /\ RefsOf(l) = {}
      BY <1>1, <1>2, <2>3, LineFacts DEF Classify
    <3>2. Sized(Len(scan.last), n + 1)
      BY <1>1, <3>1, OtherLineSized DEF ScanInv, n, l
    <3>3. \A k : ~Uses(n + 1, k)
      BY <3>1 DEF Uses, l
    <3>4. \A k \in DOMAIN scan.last : LastUse(k - 1, scan.last[k], n + 1)
      BY <1>1, <3>3 DEF ScanInv, LastUse, n
    <3> QED BY <1>1, <2>3, <3>1, <3>2, <3>4 DEF ScanInv
  <2> QED BY <1>3, <2>1, <2>2, <2>3
<1>6. /\ scan'.declLines \in Seq(1 .. n + 1)
      /\ Len(scan'.declFirst) = Len(scan'.declLines)
      /\ \A g \in DOMAIN scan'.declLines :
            /\ Sized(scan'.declFirst[g], scan'.declLines[g])
            /\ \A f \in 1 .. g : scan'.declLines[f] <= scan'.declLines[g]
      /\ \A k \in 1 .. n + 1 :
            DeclAt(k) => \E g \in DOMAIN scan'.declLines : scan'.declLines[g] = k
  <2>1. CASE Classify(l) # "decl"
    <3>1. ~DeclAt(n + 1)
      BY <2>1 DEF DeclAt, l
    <3>2. scan'.declLines = scan.declLines /\ scan'.declFirst = scan.declFirst
      BY <1>5, <2>1
    <3> DEFINE d == scan.declLines
               e == scan.declFirst
    <3>3. /\ d \in Seq(1 .. n) /\ Len(e) = Len(d)
          /\ \A g \in DOMAIN d : /\ Sized(e[g], d[g])
                                /\ \A f \in 1 .. g : d[f] <= d[g]
          /\ \A k \in 1 .. n : DeclAt(k) => \E g \in DOMAIN d : d[g] = k
      BY <1>4
    <3>4. scan'.declLines = d /\ scan'.declFirst = e
      BY <3>2
    <3> HIDE DEF d, e
    <3>5. d \in Seq(1 .. n + 1)
      <4>1. 1 .. n \subseteq 1 .. n + 1
        BY <1>1
      <4> QED BY <3>3, <4>1, SeqMonotonic
    <3>6. \A k \in 1 .. n + 1 : DeclAt(k) => k \in 1 .. n
      BY <1>1, <3>1
    <3>7. \A k \in 1 .. n + 1 : DeclAt(k) => \E g \in DOMAIN d : d[g] = k
      BY <3>3, <3>6
    <3> QED BY <3>3, <3>4, <3>5, <3>7
  <2>2. CASE Classify(l) = "decl"
    <3> DEFINE d == scan.declLines
               e == scan.declFirst
               size == Len(scan'.last)
    <3>1. /\ scan'.declLines = Append(d, n + 1) /\ scan'.declFirst = Append(e, size)
          /\ Sized(size, n + 1) /\ size \in Nat
      BY <1>5, <2>2
    <3>2. /\ d \in Seq(1 .. n) /\ e \in Seq(Nat) /\ Len(e) = Len(d) /\ Len(d) \in Nat
          /\ \A g \in 1 .. Len(d) : /\ d[g] \in 1 .. n /\ Sized(e[g], d[g])
                                    /\ \A f \in 1 .. g : d[f] <= d[g]
      <4>1. d \in Seq(1 .. n) /\ e \in Seq(Nat) /\ Len(e) = Len(d)
        BY <1>4
      <4>2. \A g \in DOMAIN d : /\ Sized(e[g], d[g])
                                /\ \A f \in 1 .. g : d[f] <= d[g]
        BY <1>4
      <4> HIDE DEF d, e
      <4>3. Len(d) \in Nat /\ DOMAIN d = 1 .. Len(d)
        BY <4>1
      <4>4. \A g \in 1 .. Len(d) : d[g] \in 1 .. n
        BY <4>1, ElementOfSeq
      <4>5. \A g \in 1 .. Len(d) : Sized(e[g], d[g])
        BY <4>2, <4>3
      <4>6. \A g \in 1 .. Len(d) : \A f \in 1 .. g : d[f] <= d[g]
        BY <4>2, <4>3
      <4> QED BY <4>1, <4>3, <4>4, <4>5, <4>6
    <3> HIDE DEF d, e, size
    <3>3. /\ Append(d, n + 1) \in Seq(1 .. n + 1) /\ Len(Append(d, n + 1)) = Len(d) + 1
          /\ Append(d, n + 1)[Len(d) + 1] = n + 1
          /\ \A g \in 1 .. Len(d) : Append(d, n + 1)[g] = d[g]
      BY <1>1, <3>2
    <3>4. /\ Len(Append(e, size)) = Len(d) + 1 /\ Append(e, size)[Len(d) + 1] = size
          /\ \A g \in 1 .. Len(d) : Append(e, size)[g] = e[g]
      BY <3>1, <3>2
    <3>5. ASSUME NEW g \in 1 .. Len(d) + 1
          PROVE  /\ Sized(Append(e, size)[g], Append(d, n + 1)[g])
                 /\ \A f \in 1 .. g : Append(d, n + 1)[f] <= Append(d, n + 1)[g]
      <4>1. CASE g = Len(d) + 1
        BY <1>1, <3>1, <3>2, <3>3, <3>4, <4>1
      <4>2. CASE g \in 1 .. Len(d)
        BY <3>2, <3>3, <3>4, <4>2
      <4> QED BY <3>2, <4>1, <4>2
    <3>6. ASSUME NEW k \in 1 .. n + 1, DeclAt(k)
          PROVE  \E g \in 1 .. Len(d) + 1 : Append(d, n + 1)[g] = k
      <4>1. CASE k = n + 1
        BY <3>2, <3>3, <4>1
      <4>2. CASE k \in 1 .. n
        <5>1. PICK g \in DOMAIN d : d[g] = k
          BY <1>4, <3>6, <4>2 DEF d
        <5>2. g \in 1 .. Len(d)
          BY <3>2
        <5> QED BY <3>3, <5>1, <5>2, <3>2
      <4> QED BY <1>1, <4>1, <4>2
    <3>7. DOMAIN Append(d, n + 1) = 1 .. Len(d) + 1
      BY <3>3
    <3> QED BY <3>1, <3>3, <3>4, <3>5, <3>6, <3>7
  <2> QED BY <2>1, <2>2
<1>7. ScanInv'
  BY <1>1, <1>5, <1>6, FileFacts DEF ScanInv
<1>8. LifeTypeOK'
  BY <1>1 DEF LifeInv, LifeTypeOK, NoLifetimes, n
<1> QED
  BY <1>1, <1>7, <1>8
     DEF LifeInv, NothingReleasedTooEarly, NothingKeptTooLong, NoError

\* The first declaration line behind which the slot is there.
LEMMA HomeFacts ==
    ASSUME ScanInv, line = Len(file), file \in Seq(Lines), Len(file) <= MaxLines,
           NEW i \in Nat
    PROVE  \/ /\ Home(scan, i) = Never
              /\ \A h \in 1 .. Len(file) : DeclAt(h) => ~Known(i, h)
           \/ /\ Home(scan, i) \in 1 .. Len(file)
              /\ \A h \in 1 .. Len(file) : DeclAt(h) /\ Known(i, h) => Home(scan, i) <= h
<1> DEFINE d == scan.declLines
           after == { g \in DOMAIN scan.declFirst : scan.declFirst[g] > i }
<1>1. /\ Len(file) \in Nat /\ d \in Seq(1 .. Len(file)) /\ Len(d) \in Nat
      /\ DOMAIN d = 1 .. Len(d) /\ DOMAIN scan.declFirst = 1 .. Len(d)
      /\ \A g \in 1 .. Len(d) : d[g] \in 1 .. Len(file)
  BY DEF ScanInv
<1>2. \A g \in 1 .. Len(d) : scan.declFirst[g] > i <=> Known(i, d[g])
  BY DEF ScanInv, Sized
<1>3. \A g \in 1 .. Len(d) : \A f \in 1 .. g : d[f] <= d[g]
  BY DEF ScanInv
<1>4. \A h \in 1 .. Len(file) : DeclAt(h) => \E g \in 1 .. Len(d) : d[g] = h
  BY <1>1 DEF ScanInv
<1>5. after = { g \in 1 .. Len(d) : Known(i, d[g]) }
  BY <1>1, <1>2
<1>6. Home(scan, i) = IF after = {} THEN Never ELSE d[Min(after)]
  BY DEF Home
<1> HIDE DEF d, after
<1>7. CASE after = {}
  BY <1>4, <1>5, <1>6, <1>7
<1>8. CASE after # {}
  <2>0. after \subseteq Nat
    BY <1>1, <1>5
  <2>1. \E m \in after : \A k \in after : m <= k
    BY <1>8, <2>0, LeastElement
  <2>2. Min(after) \in after /\ \A k \in after : Min(after) <= k
    BY <2>1 DEF Min
  <2>3. Min(after) \in 1 .. Len(d) /\ Home(scan, i) = d[Min(after)]
    BY <1>5, <1>6, <1>8, <2>2
  <2>4. ASSUME NEW h \in 1 .. Len(file), DeclAt(h), Known(i, h)
        PROVE  d[Min(after)] <= h
    <3>1. PICK g \in 1 .. Len(d) : d[g] = h
      BY <1>4, <2>4
    <3>2. g \in after
      BY <1>5, <2>4, <3>1
    <3>3. Min(after) \in 1 .. g
      BY <2>2, <2>3, <3>2
    <3> QED BY <1>3, <3>1, <3>3
  <2> QED BY <1>1, <2>3, <2>4
<1> QED BY <1>7, <1>8

LEMMA LastUseFacts ==
    ASSUME NEW i, NEW m, LastUse(i, m, Len(file)), file \in Seq(Lines), NEW r \in Nat, r <= Len(file)
    PROVE  UsesAfter(i, r) <=> m > r
<1>1. Len(file) \in Nat /\ m \in 0 .. Len(file)
  BY DEF LastUse
<1>2. CASE m > r
  BY <1>1, <1>2 DEF LastUse, UsesAfter
<1>3. CASE ~(m > r)
  BY <1>1, <1>3 DEF LastUse, UsesAfter
<1> QED BY <1>2, <1>3

\* The lists of the second pass before its first line.
LEMMA EndScanKeeps ==
    ASSUME LifeInv, EndScan
    PROVE  LifeInv'
<1> DEFINE last == scan.last
           nodes == 0 .. Len(last) - 1
           short == { i \in nodes : last[i + 1] <= Home(scan, i) }
           long == { <<last[i + 1], i>> : i \in nodes \ short }
<1>1. /\ phase = "scan" /\ line = Len(file) /\ ScanInv /\ file \in Seq(Lines)
      /\ Len(file) <= MaxLines /\ MaxLines \in Nat /\ Len(file) \in Nat
      /\ phase' = "read" /\ line' = 0 /\ UNCHANGED <<file, exprs, err>>
      /\ exprs = <<>> /\ err = NoError
  BY LifetimeAssumption DEF EndScan, LifeInv, LifeTypeOK
<1>2. lt' = [short |-> short, long |-> long, groupFirst |-> 0, nodes |-> Len(last)]
  BY DEF EndScan, Lifetimes
<1>3. /\ last \in Seq(Nat) /\ Len(last) \in Nat /\ Sized(Len(last), Len(file))
      /\ \A i \in nodes : i \in Nat /\ last[i + 1] \in Nat /\ LastUse(i, last[i + 1], Len(file))
  <2>1. /\ last \in Seq(Nat) /\ Len(last) \in Nat /\ Sized(Len(last), Len(file))
        /\ \A k \in 1 .. Len(last) : LastUse(k - 1, last[k], Len(file))
    BY <1>1 DEF ScanInv
  <2>2. ASSUME NEW i \in nodes
        PROVE  i \in Nat /\ last[i + 1] \in Nat /\ LastUse(i, last[i + 1], Len(file))
    <3>1. i \in Nat /\ i + 1 \in 1 .. Len(last) /\ (i + 1) - 1 = i
      BY <2>1, <2>2
    <3> QED BY <2>1, <3>1
  <2> QED BY <2>1, <2>2
<1> HIDE DEF last
<1>4. lt' \in LtType
  BY <1>2, <1>3 DEF LtType
<1>5. ASSUME NEW i \in short, NEW h \in 1 .. Len(file), DeclAt(h), Known(i, h)
      PROVE  ~UsesAfter(i, h)
  <2>1. i \in nodes /\ last[i + 1] <= Home(scan, i)
    OBVIOUS
  <2>2. Home(scan, i) \in Nat /\ Home(scan, i) <= h
    BY <1>1, <1>3, <1>5, <2>1, HomeFacts
  <2>3. ~(last[i + 1] > h)
    BY <1>3, <2>1, <2>2
  <2> QED BY <1>1, <1>3, <2>1, <2>3, LastUseFacts
<1>6. ASSUME NEW i \in nodes, i \notin short
      PROVE  /\ last[i + 1] \in 1 .. Len(file) /\ Uses(last[i + 1], i)
             /\ ~UsesAfter(i, last[i + 1])
  <2>1. ~(last[i + 1] <= Home(scan, i)) /\ last[i + 1] \in 0 .. Len(file)
    BY <1>3, <1>6 DEF LastUse
  <2>2. last[i + 1] \in 1 .. Len(file)
    BY <1>1, <1>3, <2>1, HomeFacts DEF Never
  <2>3. LastUse(i, last[i + 1], Len(file))
    BY <1>3
  <2>4. Uses(last[i + 1], i)
    BY <2>2, <2>3 DEF LastUse
  <2>5. \A r \in 1 .. Len(file) :
           LastUse(i, last[i + 1], Len(file)) => (UsesAfter(i, r) <=> last[i + 1] > r)
    BY <1>1, LastUseFacts
  <2>6. ~(last[i + 1] > last[i + 1])
    BY <2>2
  <2>7. UsesAfter(i, last[i + 1]) <=> last[i + 1] > last[i + 1]
    BY <2>2, <2>3, <2>5
  <2> QED BY <2>2, <2>4, <2>6, <2>7
<1>7. ListsInv(0)'
  <2>1. Sized(0, 0)
    BY DEF Sized, Known
  <2>2. \A q \in long : /\ q[1] \in 1 .. Len(file) /\ Uses(q[1], q[2])
                        /\ ~UsesAfter(q[2], q[1])
    BY <1>6
  <2>3. ASSUME NEW i \in nodes, i \notin short
        PROVE  \E q \in long : q[2] = i
    <3>1. <<last[i + 1], i>> \in long
      BY <2>3
    <3> QED BY <3>1
  <2> HIDE DEF short, long
  <2> QED BY <1>1, <1>2, <1>3, <1>5, <2>1, <2>2, <2>3, FileFacts DEF ListsInv
<1>8. TableInv(0)'
  <2>1. Sized(0, 0) /\ DefinesBy(0) = {}
    BY DEF Sized, Known, DefinesBy
  <2>2. exprs' = <<>> /\ \A i \in Nat : ~Filled(i)'
    BY <1>1 DEF Filled
  <2> QED BY <1>1, <2>1, <2>2, FileFacts DEF TableInv
<1>9. ReadInv'
  <2>1. LastDecl(0)'
    BY <1>1 DEF LastDecl
  <2>2. Sized(lt.nodes, Len(file))'
    BY <1>1, <1>2, <1>3, FileFacts
  <2> QED BY <1>1, <1>7, <1>8, <2>1, <2>2 DEF ReadInv
<1>10. LifeTypeOK'
  BY <1>1, <1>2, <1>3 DEF LifeInv, LifeTypeOK
<1> QED
  BY <1>1, <1>4, <1>9, <1>10
     DEF LifeInv, NothingReleasedTooEarly, NothingKeptTooLong, NoError

-----------------------------------------------------------------------------
(* The second pass.                                                        *)

\* One more line in terms of the uses that are left.
LEMMA UseSplit ==
    ASSUME NEW i, NEW n \in Nat, n + 1 \in 1 .. Len(file), Len(file) \in Nat
    PROVE  UsesAfter(i, n) <=> Uses(n + 1, i) \/ UsesAfter(i, n + 1)
  BY DEF UsesAfter

LEMMA UsesAfterMonotone ==
    ASSUME NEW i, NEW n \in Nat, NEW m \in Nat, n <= m, UsesAfter(i, m), Len(file) \in Nat
    PROVE  UsesAfter(i, n)
  BY DEF UsesAfter

\* A line that the reading reaches, and what is known there.
LEMMA ReadingFacts ==
    ASSUME LifeInv, phase = "read", line < Len(file)
    PROVE  /\ line \in Nat /\ Len(file) \in Nat /\ line + 1 \in 1 .. Len(file)
           /\ file[line + 1] \in Lines
           /\ exprs \in Seq(Nat) /\ Len(exprs) \in Nat /\ DOMAIN exprs = 1 .. Len(exprs)
           /\ lt \in LtType /\ err = NoError
           /\ Sized(lt.nodes, Len(file)) /\ Sized(Len(exprs), line)
           /\ \A i \in DefinesBy(line) : ~Filled(i) => ~UsesAfter(i, line)
           /\ \E r \in 0 .. line : LastDecl(r) /\ ListsInv(r) /\ TableInv(r)
  BY DEF LifeInv, LifeTypeOK, ReadInv, TableInv

\* The lines that define an index are lines that make it known.
LEMMA DefinedIsKnown ==
    ASSUME NEW n \in Nat, n <= Len(file), Len(file) \in Nat, file \in Seq(Lines),
           NEW i \in DefinesBy(n)
    PROVE  i \in Nat /\ Known(i, n)
<1>1. PICK k \in 1 .. n : file[k].kind = "expr" /\ file[k].idx = i
  BY DEF DefinesBy
<1>2. file[k] \in Lines
  BY <1>1
<1> QED BY <1>1, <1>2, LineFacts DEF Known

\* The heart of the first property: an empty slot that a line reads was
\* never filled, because a slot that was filled and is gone has no use left.
LEMMA ReadIsUse ==
    ASSUME LifeInv, phase = "read", line < Len(file),
           NEW i \in RefsOf(file[line + 1]), ~Filled(i)
    PROVE  i \notin DefinesBy(line)
<1> SUFFICES ASSUME i \in DefinesBy(line) PROVE FALSE
  OBVIOUS
<1>1. /\ line \in Nat /\ Len(file) \in Nat /\ line + 1 \in 1 .. Len(file)
      /\ \A j \in DefinesBy(line) : ~Filled(j) => ~UsesAfter(j, line)
  BY ReadingFacts
<1>2. Known(i, line)
  BY <1>1, DefinedIsKnown DEF LifeInv, LifeTypeOK
<1>3. Uses(line + 1, i)
  BY <1>1, <1>2 DEF Uses
<1>4. UsesAfter(i, line)
  BY <1>1, <1>3, UseSplit
<1> QED BY <1>1, <1>4

\* A line that stops the run for a released slot.
LEMMA FailIsHonest ==
    ASSUME LifeInv, phase = "read", line < Len(file), line' = line + 1, UNCHANGED file,
           file[line + 1].kind \in {"expr", "decl"}, Fails(file[line + 1])
    PROVE  /\ phase' = "end" /\ err'.kind \in {"released", "range"}
           /\ NothingReleasedTooEarly'
<1>1. line \in Nat /\ file[line + 1] \in Lines
  BY ReadingFacts
<1>2. RefsOf(file[line + 1]) = file[line + 1].refs
  BY <1>1, LineFacts
<1>3. PICK i \in file[line + 1].refs : ~Filled(i) /\ err' = ReadError(i) /\ phase' = "end"
  BY DEF Fails
<1>4. i \notin DefinesBy(line)
  BY <1>2, <1>3, ReadIsUse
<1>5. err'.idx = i /\ err'.kind \in {"released", "range"}
  BY <1>3 DEF ReadError
<1>6. line' - 1 = line
  BY <1>1
<1>7. NothingReleasedTooEarly' <=> (err'.kind = "released" => err'.idx \notin DefinesBy(line))
  BY <1>6 DEF NothingReleasedTooEarly, DefinesBy
<1> QED BY <1>3, <1>4, <1>5, <1>7

\* What the release behind line n does to the table and to the lists.
LEMMA ReleaseFacts ==
    ASSUME LifeInv, phase = "read", line < Len(file), line' = line + 1, UNCHANGED file,
           phase' \in {"read", "end"}, err'.kind \in {"none", "released", "range", "verdict"},
           ReleaseExpired(line + 1)
    PROVE  /\ exprs' \in Seq(Nat) /\ Len(exprs') = Len(exprs)
           /\ \A i \in Nat : Filled(i)' <=> Filled(i) /\ i \notin Due(lt, line + 1, Len(exprs))
           /\ lt' \in LtType
           /\ lt'.short = lt.short /\ lt'.nodes = lt.nodes /\ lt'.groupFirst = Len(exprs)
           /\ lt'.long = { q \in lt.long : q[1] > line + 1 }
           /\ LifeTypeOK'
<1> DEFINE due == Due(lt, line + 1, Len(exprs))
           long == { q \in lt.long : q[1] > line + 1 }
<1>1. /\ line \in Nat /\ exprs \in Seq(Nat) /\ Len(exprs) \in Nat
      /\ DOMAIN exprs = 1 .. Len(exprs) /\ lt \in LtType
  BY ReadingFacts
<1>2. exprs' = Released(exprs, due) /\ lt' = [lt EXCEPT !.groupFirst = Len(exprs), !.long = long]
  BY DEF ReleaseExpired
<1> HIDE DEF due
<1>3. /\ exprs' \in Seq(Nat) /\ Len(exprs') = Len(exprs) /\ DOMAIN exprs' = 1 .. Len(exprs)
      /\ \A k \in 1 .. Len(exprs) : exprs'[k] = IF k - 1 \in due THEN Empty ELSE exprs[k]
  <2>1. exprs' = [k \in 1 .. Len(exprs) |-> IF k - 1 \in due THEN Empty ELSE exprs[k]]
    BY <1>1, <1>2 DEF Released
  <2>2. \A k \in 1 .. Len(exprs) : exprs[k] \in Nat
    BY <1>1
  <2> QED BY <1>1, <2>1, <2>2 DEF Empty
<1>4. \A i \in Nat : Filled(i)' <=> Filled(i) /\ i \notin due
  <2> SUFFICES ASSUME NEW i \in Nat
               PROVE  Filled(i)' <=> Filled(i) /\ i \notin due
    OBVIOUS
  <2>1. i < Len(exprs) => i + 1 \in 1 .. Len(exprs) /\ (i + 1) - 1 = i
    BY <1>1
  <2> QED BY <1>3, <2>1 DEF Filled, Empty
<1>5. /\ lt' \in LtType
      /\ lt'.short = lt.short /\ lt'.nodes = lt.nodes /\ lt'.groupFirst = Len(exprs)
      /\ lt'.long = long
  <2>1. long \subseteq Nat \X Nat
    BY <1>1 DEF LtType
  <2> HIDE DEF long
  <2>2. lt' = [short |-> lt.short, long |-> long, groupFirst |-> Len(exprs), nodes |-> lt.nodes]
    BY <1>1, <1>2 DEF LtType
  <2> QED BY <1>1, <2>1, <2>2 DEF LtType
<1>6. LifeTypeOK'
  <2>1. \A k \in 1 .. Len(exprs) :
           exprs'[k] # Empty => /\ exprs'[k] <= line + 1
                                /\ file[exprs'[k]] = ExprLine(k - 1, file[exprs'[k]].refs)
    <3>1. \A k \in 1 .. Len(exprs) :
             exprs[k] # Empty => /\ exprs[k] \in Nat /\ exprs[k] <= line
                                 /\ file[exprs[k]] = ExprLine(k - 1, file[exprs[k]].refs)
      <4>1. \A k \in 1 .. Len(exprs) : exprs[k] \in Nat
        BY <1>1, ElementOfSeq
      <4>2. LifeTypeOK
        BY DEF LifeInv
      <4>3. \A k \in DOMAIN exprs :
               exprs[k] # Empty => /\ exprs[k] <= line
                                   /\ file[exprs[k]] = ExprLine(k - 1, file[exprs[k]].refs)
        BY <4>2 DEF LifeTypeOK
      <4> QED BY <1>1, <4>1, <4>3
    <3>2. \A k \in 1 .. Len(exprs) : exprs'[k] # Empty => exprs'[k] = exprs[k]
      BY <1>3
    <3> QED BY <1>1, <3>1, <3>2
  <2>2. line + 1 \in 0 .. Len(file) /\ Len(exprs) <= lt.nodes
        /\ file \in Seq(Lines) /\ Len(file) <= MaxLines
    BY <1>1, ReadingFacts DEF LifeInv, LifeTypeOK
  <2> QED BY <1>1, <1>3, <1>5, <2>1, <2>2 DEF LifeTypeOK
<1> QED BY <1>3, <1>4, <1>5, <1>6 DEF due

\* The heart of the second property: behind a declaration line exactly what
\* nothing later uses is released.
LEMMA ReleaseIsExact ==
    ASSUME LifeInv, phase = "read", line < Len(file), file[line + 1].kind = "decl",
           NEW r \in 0 .. line, LastDecl(r), ListsInv(r), TableInv(r),
           NEW i \in Nat
    PROVE  /\ i \in Due(lt, line + 1, Len(exprs)) => ~UsesAfter(i, line + 1)
           /\ Filled(i) /\ i \notin Due(lt, line + 1, Len(exprs)) => UsesAfter(i, line + 1)
<1> DEFINE n == line + 1
<1>1. /\ line \in Nat /\ Len(file) \in Nat /\ n \in 1 .. Len(file) /\ DeclAt(n)
      /\ Len(exprs) \in Nat /\ lt \in LtType /\ r \in Nat
      /\ Sized(lt.nodes, Len(file)) /\ Sized(Len(exprs), line)
  BY ReadingFacts DEF DeclAt, Classify
<1>2. i < Len(exprs) => Known(i, n)
  <2>1. i < Len(exprs) => Known(i, line)
    BY <1>1 DEF Sized
  <2> QED BY <1>1, <2>1, KnownMonotone
<1>3. ASSUME i \in lt.short, i < Len(exprs) PROVE ~UsesAfter(i, n)
  BY <1>1, <1>2, <1>3 DEF ListsInv
<1>4. ASSUME NEW q \in lt.long, q[1] <= n, q[2] = i PROVE ~UsesAfter(i, n)
  <2>1. q[1] \in 1 .. Len(file) /\ ~UsesAfter(i, q[1])
    BY <1>4 DEF ListsInv
  <2> QED BY <1>1, <1>4, <2>1, UsesAfterMonotone
<1>5. i \in Due(lt, n, Len(exprs)) => ~UsesAfter(i, n)
  BY <1>3, <1>4 DEF Due
<1>6. ASSUME Filled(i), i \notin Due(lt, n, Len(exprs))
      PROVE  UsesAfter(i, n)
  <2>1. i < Len(exprs) /\ UsesAfter(i, r)
    BY <1>6 DEF Filled, TableInv
  <2>2. i \notin lt.short
    <3> SUFFICES ASSUME i \in lt.short PROVE FALSE
      OBVIOUS
    <3>1. i < lt.groupFirst
      BY <1>1, <1>6, <2>1 DEF Due, LtType
    <3>2. Known(i, r)
      BY <3>1 DEF ListsInv, Sized
    <3>3. r \in 1 .. Len(file) /\ file[r].kind = "decl"
      BY <1>1, <3>2 DEF Known, LastDecl
    <3> QED BY <2>1, <3>2, <3>3 DEF ListsInv, DeclAt, Classify
  <2>3. i \in 0 .. lt.nodes - 1
    <3>1. Known(i, Len(file))
      BY <1>1, <1>2, <2>1, KnownMonotone
    <3>2. i < lt.nodes /\ lt.nodes \in Nat
      BY <1>1, <3>1 DEF Sized, LtType
    <3> QED BY <3>2
  <2>4. PICK q \in lt.long : q[2] = i
    BY <2>1, <2>2, <2>3 DEF ListsInv
  <2>5. q[1] \in 1 .. Len(file) /\ Uses(q[1], i)
    BY <2>4 DEF ListsInv
  <2>6. ~(q[1] <= n)
    BY <1>6, <2>4 DEF Due
  <2> QED BY <1>1, <2>5, <2>6 DEF UsesAfter
<1> QED BY <1>5, <1>6

\* The scan's notion of a use is one that the file shows.
LEMMA UsesAreShown ==
    ASSUME NEW i, NEW n \in Nat, UsesAfter(i, n), file \in Seq(Lines)
    PROVE  UsedAfter(i, n)
<1>1. PICK k \in n + 1 .. Len(file) : Uses(k, i)
  BY DEF UsesAfter
<1>2. file[k] \in Lines
  BY <1>1
<1> QED BY <1>1, <1>2, LineFacts DEF Uses, UsedAfter, RefsOf

\* The same, for the state behind the line: whether or not the run goes on,
\* the lists and the table are right, and nothing is kept too long.
LEMMA ReleaseKeeps ==
    ASSUME LifeInv, phase = "read", line < Len(file), NEW n \in Nat, n = line + 1, line' = n,
           UNCHANGED file,
           phase' \in {"read", "end"}, err'.kind \in {"none", "released", "range", "verdict"},
           file[n].kind = "decl", ReleaseExpired(n)
    PROVE  ReadInv' /\ NothingKeptTooLong'
<1> DEFINE due == Due(lt, n, Len(exprs))
<1>1. /\ line \in Nat /\ Len(file) \in Nat /\ n \in 1 .. Len(file)
      /\ Len(exprs) \in Nat /\ lt \in LtType /\ file \in Seq(Lines)
      /\ Sized(lt.nodes, Len(file)) /\ Sized(Len(exprs), line)
  BY ReadingFacts DEF LifeInv, LifeTypeOK
<1>2. PICK r \in 0 .. line : LastDecl(r) /\ ListsInv(r) /\ TableInv(r)
  BY ReadingFacts
<1>3. /\ Len(exprs') = Len(exprs) /\ lt'.short = lt.short /\ lt'.nodes = lt.nodes
      /\ lt'.groupFirst = Len(exprs) /\ lt'.long = { q \in lt.long : q[1] > n }
      /\ \A i \in Nat : Filled(i)' <=> Filled(i) /\ i \notin due
  BY ReleaseFacts
<1>4. \A i \in Nat : /\ i \in due => ~UsesAfter(i, n)
                     /\ Filled(i) /\ i \notin due => UsesAfter(i, n)
  BY <1>2, ReleaseIsExact
<1> HIDE DEF due
<1>5. Sized(Len(exprs), n)
  BY <1>1, OtherLineSized
<1>6. ListsInv(n)'
  <2>1. Sized(lt'.groupFirst, n)
    BY <1>3, <1>5
  <2>2. \A q \in lt'.long : /\ q[1] \in 1 .. Len(file) /\ Uses(q[1], q[2])
                            /\ ~UsesAfter(q[2], q[1])
    BY <1>2, <1>3 DEF ListsInv
  <2>3. ASSUME NEW i \in 0 .. lt.nodes - 1, i \notin lt.short, UsesAfter(i, n)
        PROVE  \E q \in lt'.long : q[2] = i
    <3>1. UsesAfter(i, r)
      BY <1>1, <2>3, UsesAfterMonotone
    <3>2. PICK q \in lt.long : q[2] = i
      BY <1>2, <2>3, <3>1 DEF ListsInv
    <3>3. q[1] \in 1 .. Len(file) /\ ~UsesAfter(i, q[1])
      BY <1>2, <3>2 DEF ListsInv
    <3>4. q[1] > n
      <4> SUFFICES ASSUME ~(q[1] > n) PROVE FALSE
        OBVIOUS
      <4>1. q[1] \in Nat /\ q[1] <= n
        BY <1>1, <3>3
      <4> QED BY <1>1, <2>3, <3>3, <4>1, UsesAfterMonotone
    <3> QED BY <1>3, <3>2, <3>4
  <2>4. \A i \in lt.short : \A h \in 1 .. Len(file) :
           DeclAt(h) /\ Known(i, h) => ~UsesAfter(i, h)
    BY <1>2 DEF ListsInv
  <2> QED BY <1>3, <2>1, <2>2, <2>3, <2>4, FileFacts DEF ListsInv
<1>7. TableInv(n)'
  <2>1. ASSUME NEW i \in DefinesBy(n), ~Filled(i)'
        PROVE  ~UsesAfter(i, n)
    <3>1. i \in DefinesBy(line)
      BY <1>1, <2>1 DEF DefinesBy
    <3>2. i \in Nat
      BY <1>1, <3>1, DefinedIsKnown
    <3>3. CASE i \in due
      BY <1>4, <3>2, <3>3
    <3>4. CASE ~Filled(i)
      <4>1. ~UsesAfter(i, line)
        BY <1>2, <3>1, <3>4 DEF TableInv
      <4> QED BY <1>1, <4>1, UseSplit
    <3> QED BY <1>3, <2>1, <3>2, <3>3, <3>4
  <2>2. \A i \in Nat : Filled(i)' => UsesAfter(i, n)
    BY <1>3, <1>4
  <2> QED BY <1>3, <1>5, <2>1, <2>2, FileFacts DEF TableInv
<1>8. LastDecl(n)'
  BY <1>1 DEF LastDecl
<1>9. ReadInv'
  <2>1. Sized(lt.nodes, Len(file))'
    BY <1>1, <1>3, FileFacts
  <2> QED BY <1>1, <1>6, <1>7, <1>8, <2>1 DEF ReadInv
<1>10. NothingKeptTooLong'
  <2>1. Indices \subseteq Nat
    BY LifetimeAssumption DEF Indices
  <2>2. \A i \in Nat : Filled(i)' => UsedAfter(i, n)
    BY <1>1, <1>3, <1>4, UsesAreShown
  <2>3. \A i : UsedAfter(i, n)' <=> UsedAfter(i, n)
    BY DEF UsedAfter
  <2> QED BY <2>1, <2>2, <2>3 DEF NothingKeptTooLong, UsedAfter
<1> QED BY <1>9, <1>10

\* A line that goes on reading keeps the lists and the home of the release.
LEMMA OtherReadKeeps ==
    ASSUME LifeInv, phase = "read", line < Len(file), NEW n \in Nat, n = line + 1, line' = n,
           UNCHANGED <<file, lt>>, file[n].kind # "decl",
           NEW r \in 0 .. line, LastDecl(r), ListsInv(r), TableInv(r)'
    PROVE  ReadInv'
<1>1. line \in Nat /\ n \in 1 .. Len(file) /\ Sized(lt.nodes, Len(file))
  BY ReadingFacts
<1>2. LastDecl(r)'
  BY <1>1 DEF LastDecl
<1>3. ListsInv(r)'
  BY FileFacts DEF ListsInv
<1>4. Sized(lt.nodes, Len(file))'
  BY <1>1, FileFacts
<1>5. r \in 0 .. line'
  BY <1>1
<1> QED BY <1>2, <1>3, <1>4, <1>5 DEF ReadInv

LEMMA ReadExprKeeps ==
    ASSUME LifeInv, ReadExpr
    PROVE  LifeInv'
<1> SUFFICES ASSUME NEW n \in Nat, n = line + 1
             PROVE  LifeInv'
  BY DEF LifeInv, LifeTypeOK
<1> DEFINE l == file[n]
<1>1. /\ phase = "read" /\ line < Len(file) /\ line' = n /\ UNCHANGED <<file, scan>>
      /\ l.kind = "expr" /\ file' = file
      /\ FillSlot(l) \/ (Fails(l) /\ ReleaseExpired(n))
  BY DEF ReadExpr, Reading
<1>2. /\ line \in Nat /\ n \in 1 .. Len(file) /\ l \in Lines /\ Len(file) \in Nat
      /\ exprs \in Seq(Nat) /\ Len(exprs) \in Nat /\ DOMAIN exprs = 1 .. Len(exprs)
      /\ lt \in LtType /\ err = NoError /\ file \in Seq(Lines)
      /\ Sized(lt.nodes, Len(file)) /\ Sized(Len(exprs), line)
  BY <1>1, ReadingFacts DEF LifeInv, LifeTypeOK
<1>3. l.idx \in Nat /\ l = ExprLine(l.idx, l.refs)
  BY <1>1, <1>2, LineFacts
<1>4. NothingKeptTooLong'
  BY <1>1 DEF NothingKeptTooLong
<1>5. CASE Fails(l) /\ ReleaseExpired(n)
  <2>1. phase' = "end" /\ err'.kind \in {"released", "range"} /\ NothingReleasedTooEarly'
    BY <1>1, <1>5, FailIsHonest
  <2>2. exprs' \in Seq(Nat) /\ lt' \in LtType /\ LifeTypeOK'
    BY <1>1, <1>5, <2>1, ReleaseFacts
  <2> QED BY <1>4, <2>1, <2>2 DEF LifeInv
<1>6. CASE FillSlot(l)
  <2> DEFINE grown == Grown(exprs, l.idx, Empty)
             new == [grown EXCEPT ![l.idx + 1] = n]
  <2>1. exprs' = new /\ UNCHANGED <<phase, lt, err>>
    BY <1>1, <1>6 DEF FillSlot
  <2>2. /\ grown \in Seq(Nat)
        /\ Len(grown) = IF l.idx < Len(exprs) THEN Len(exprs) ELSE l.idx + 1
        /\ \A k \in 1 .. Len(grown) : grown[k] = IF k <= Len(exprs) THEN exprs[k] ELSE Empty
    <3>1. Empty \in Nat
      BY DEF Empty
    <3>2. exprs \in Seq(Nat) /\ l.idx \in Nat
      BY <1>2, <1>3
    <3> HIDE DEF l
    <3> QED BY <3>1, <3>2, GrownFacts
  <2> HIDE DEF grown
  <2>3. Len(grown) \in Nat /\ DOMAIN grown = 1 .. Len(grown) /\ l.idx + 1 \in 1 .. Len(grown)
        /\ \A k \in 1 .. Len(grown) : grown[k] \in Nat
    <3>1. Len(grown) \in Nat /\ DOMAIN grown = 1 .. Len(grown)
      BY <2>2
    <3>2. \A k \in 1 .. Len(grown) : grown[k] \in Nat
      BY <2>2, ElementOfSeq
    <3> QED BY <1>2, <1>3, <2>2, <3>1, <3>2
  <2>4. new = [k \in 1 .. Len(grown) |-> IF k = l.idx + 1 THEN n ELSE grown[k]]
    BY <2>3
  <2> HIDE DEF new
  <2>5. /\ exprs' \in Seq(Nat) /\ Len(exprs') = Len(grown) /\ DOMAIN exprs' = 1 .. Len(grown)
        /\ \A k \in 1 .. Len(grown) : exprs'[k] = IF k = l.idx + 1 THEN n ELSE grown[k]
    <3>1. new \in [1 .. Len(grown) -> Nat]
      BY <2>3, <2>4
    <3> QED BY <2>1, <2>3, <2>4, <3>1
  <2>6. \A i \in Nat : Filled(i)' <=> Filled(i) \/ i = l.idx
    <3> SUFFICES ASSUME NEW i \in Nat
                 PROVE  Filled(i)' <=> Filled(i) \/ i = l.idx
      OBVIOUS
    <3>1. /\ i < Len(grown) <=> i + 1 \in 1 .. Len(grown)
          /\ i < Len(exprs) <=> i + 1 \in 1 .. Len(exprs)
          /\ i = l.idx <=> i + 1 = l.idx + 1
      BY <1>2, <1>3, <2>3
    <3>2. n # Empty
      BY <1>2 DEF Empty
    <3>3. Filled(i)' <=> i + 1 \in 1 .. Len(grown) /\ exprs'[i + 1] # Empty
      BY <2>5, <3>1 DEF Filled, Empty
    <3>4. Filled(i) <=> i + 1 \in 1 .. Len(exprs) /\ exprs[i + 1] # Empty
      BY <3>1 DEF Filled
    <3>5. 1 .. Len(exprs) \subseteq 1 .. Len(grown)
      BY <1>2, <1>3, <2>2
    <3>6. i + 1 \in 1 .. Len(exprs) => i + 1 <= Len(exprs)
      BY <1>2
    <3>7. i + 1 \in 1 .. Len(grown) /\ i + 1 \notin 1 .. Len(exprs) => ~(i + 1 <= Len(exprs))
      BY <1>2, <2>3
    <3> QED BY <2>2, <2>3, <2>5, <3>1, <3>2, <3>3, <3>4, <3>5, <3>6, <3>7
  <2>7. Sized(Len(exprs'), n)
    <3> SUFFICES ASSUME NEW i \in Nat
                 PROVE  i < Len(grown) <=> Known(i, n)
      BY <2>5 DEF Sized
    <3>1. Known(i, n) <=> i < Len(exprs) \/ l.idx >= i
      BY <1>1, <1>2, KnownStep DEF Sized
    <3> QED BY <1>2, <1>3, <2>2, <3>1
  <2>8. Len(exprs') <= lt.nodes
    <3> SUFFICES ASSUME ~(Len(exprs') <= lt.nodes) PROVE FALSE
      OBVIOUS
    <3>1. lt.nodes \in Nat /\ lt.nodes < Len(exprs')
      BY <1>2, <2>3, <2>5 DEF LtType
    <3>2. Known(lt.nodes, n)
      BY <2>7, <3>1 DEF Sized
    <3>3. Known(lt.nodes, Len(file))
      BY <1>2, <3>2, KnownMonotone
    <3> QED BY <1>2, <3>1, <3>3 DEF Sized
  <2>9. LifeTypeOK'
    <3>1. LifeTypeOK
      BY DEF LifeInv
    <3>2. \A k \in 1 .. Len(exprs) :
             exprs[k] # Empty => /\ exprs[k] \in Nat /\ exprs[k] <= line
                                 /\ file[exprs[k]] = ExprLine(k - 1, file[exprs[k]].refs)
      <4>1. \A k \in 1 .. Len(exprs) : exprs[k] \in Nat
        BY <1>2, ElementOfSeq
      <4>2. \A k \in DOMAIN exprs :
               exprs[k] # Empty => /\ exprs[k] <= line
                                   /\ file[exprs[k]] = ExprLine(k - 1, file[exprs[k]].refs)
        BY <3>1 DEF LifeTypeOK
      <4> QED BY <1>2, <4>1, <4>2
    <3>3. ASSUME NEW k \in 1 .. Len(grown), exprs'[k] # Empty
          PROVE  exprs'[k] <= n /\ file[exprs'[k]] = ExprLine(k - 1, file[exprs'[k]].refs)
      <4>1. CASE k = l.idx + 1
        <5>1. exprs'[k] = n /\ k - 1 = l.idx
          BY <1>3, <2>5, <4>1
        <5> QED BY <1>2, <1>3, <5>1
      <4>2. CASE k # l.idx + 1
        <5>1. exprs'[k] = grown[k]
          BY <2>5, <4>2
        <5>2. k <= Len(exprs) /\ grown[k] = exprs[k]
          BY <2>2, <3>3, <5>1
        <5>3. k \in 1 .. Len(exprs)
          BY <1>2, <2>3, <5>2
        <5> QED BY <1>2, <3>2, <3>3, <5>1, <5>2, <5>3
      <4> QED BY <4>1, <4>2
    <3>4. lt.groupFirst <= Len(exprs') /\ lt.groupFirst \in Nat
      BY <1>2, <1>3, <2>2, <2>5, <3>1 DEF LifeTypeOK, LtType
    <3>5. n \in 0 .. Len(file) /\ file \in Seq(Lines) /\ Len(file) <= MaxLines
          /\ err.kind \in {"none", "released", "range", "verdict"}
      BY <1>2, <3>1 DEF LifeTypeOK
    <3>6. /\ lt' = lt /\ err' = err /\ file' = file /\ line' = n /\ phase' = "read"
          /\ DOMAIN exprs' = 1 .. Len(grown)
      BY <1>1, <2>1, <2>5
    <3> QED BY <2>8, <3>3, <3>4, <3>5, <3>6 DEF LifeTypeOK
  <2>10. ReadInv'
    <3>1. PICK r \in 0 .. line : LastDecl(r) /\ ListsInv(r) /\ TableInv(r)
      BY <1>1, ReadingFacts
    <3>2. ASSUME NEW i \in DefinesBy(n), ~Filled(i)'
          PROVE  ~UsesAfter(i, n)
      <4>1. i \in DefinesBy(line) \/ i = l.idx
        BY <1>2, <3>2 DEF DefinesBy
      <4>2. i \in Nat
        BY <1>2, <3>2, DefinedIsKnown
      <4>3. i \in DefinesBy(line) /\ ~Filled(i)
        BY <2>6, <3>2, <4>1, <4>2
      <4>4. ~UsesAfter(i, line)
        BY <3>1, <4>3 DEF TableInv
      <4> QED BY <1>2, <4>4, UseSplit
    <3>3. ASSUME NEW i \in Nat, Filled(i)'
          PROVE  UsesAfter(i, r)
      <4>1. CASE Filled(i)
        BY <3>1, <4>1 DEF TableInv
      <4>2. CASE i = l.idx
        BY <1>1, <1>2, <3>1, <4>2 DEF Uses, UsesAfter
      <4> QED BY <2>6, <3>3, <4>1, <4>2
    <3>4. TableInv(r)'
      BY <1>1, <2>7, <3>2, <3>3, FileFacts DEF TableInv
    <3> QED BY <1>1, <2>1, <3>1, <3>4, OtherReadKeeps
  <2>11. NothingReleasedTooEarly'
    BY <1>2, <2>1 DEF NothingReleasedTooEarly, NoError
  <2> QED BY <1>1, <1>2, <1>4, <2>1, <2>5, <2>9, <2>10, <2>11 DEF LifeInv
<1> QED BY <1>1, <1>5, <1>6

LEMMA ReadDeclKeeps ==
    ASSUME LifeInv, ReadDecl
    PROVE  LifeInv'
<1> SUFFICES ASSUME NEW n \in Nat, n = line + 1
             PROVE  LifeInv'
  BY DEF LifeInv, LifeTypeOK
<1>1. /\ phase = "read" /\ line < Len(file) /\ line' = n /\ UNCHANGED <<file, scan>>
      /\ file[n].kind = "decl" /\ ReleaseExpired(n)
      /\ \/ UNCHANGED <<phase, err>>
         \/ phase' = "end" /\ err' = [NoError EXCEPT !.kind = "verdict"]
         \/ Fails(file[n])
  BY DEF ReadDecl, Reading
<1>2. err = NoError
  BY <1>1 DEF LifeInv
<1>3. /\ phase' \in {"read", "end"} /\ err'.kind \in {"none", "released", "range", "verdict"}
      /\ NothingReleasedTooEarly'
      /\ phase' # "end" => err' = NoError
  <2>1. CASE UNCHANGED <<phase, err>>
    BY <1>1, <1>2, <2>1 DEF NothingReleasedTooEarly, NoError
  <2>2. CASE phase' = "end" /\ err' = [NoError EXCEPT !.kind = "verdict"]
    BY <2>2 DEF NothingReleasedTooEarly, NoError
  <2>3. CASE Fails(file[n])
    BY <1>1, <2>3, FailIsHonest
  <2> QED BY <1>1, <2>1, <2>2, <2>3
<1>4. exprs' \in Seq(Nat) /\ lt' \in LtType /\ LifeTypeOK'
  BY <1>1, <1>3, ReleaseFacts
<1>5. ReadInv' /\ NothingKeptTooLong'
  BY <1>1, <1>3, ReleaseKeeps
<1> QED BY <1>3, <1>4, <1>5 DEF LifeInv

LEMMA SkipLineKeeps ==
    ASSUME LifeInv, SkipLine
    PROVE  LifeInv'
<1> SUFFICES ASSUME NEW n \in Nat, n = line + 1
             PROVE  LifeInv'
  BY DEF LifeInv, LifeTypeOK
<1>1. /\ phase = "read" /\ line < Len(file) /\ line' = n /\ UNCHANGED <<file, scan>>
      /\ file[n].kind \in {"other", "unknown"} /\ UNCHANGED <<phase, lt, exprs, err>>
  BY DEF SkipLine, Reading
<1>2. /\ line \in Nat /\ n \in 1 .. Len(file) /\ Len(file) \in Nat /\ err = NoError
      /\ Sized(Len(exprs), line) /\ file \in Seq(Lines)
  BY <1>1, ReadingFacts DEF LifeInv, LifeTypeOK
<1>3. LifeTypeOK'
  BY <1>1, <1>2 DEF LifeInv, LifeTypeOK
<1>4. PICK r \in 0 .. line : LastDecl(r) /\ ListsInv(r) /\ TableInv(r)
  BY <1>1, ReadingFacts
<1>5. ReadInv'
  <2>1. Sized(Len(exprs), n)
    BY <1>1, <1>2, OtherLineSized
  <2>2. DefinesBy(n) = DefinesBy(line)
    BY <1>1, <1>2 DEF DefinesBy
  <2>3. \A i \in DefinesBy(n) : ~Filled(i) => ~UsesAfter(i, n)
    BY <1>2, <1>4, <2>2, UseSplit DEF TableInv
  <2>4. \A i \in Nat : Filled(i) => UsesAfter(i, r)
    BY <1>4 DEF TableInv
  <2>5. \A i : Filled(i)' <=> Filled(i)
    BY <1>1 DEF Filled
  <2>6. TableInv(r)'
    BY <1>1, <2>1, <2>3, <2>4, <2>5, FileFacts DEF TableInv
  <2> QED BY <1>1, <1>4, <2>6, OtherReadKeeps
<1>6. NothingReleasedTooEarly' /\ NothingKeptTooLong'
  BY <1>1, <1>2 DEF NothingReleasedTooEarly, NothingKeptTooLong, NoError
<1> QED BY <1>1, <1>2, <1>3, <1>5, <1>6 DEF LifeInv

LEMMA EndReadKeeps ==
    ASSUME LifeInv, EndRead
    PROVE  LifeInv'
<1> USE DEF EndRead, LifeInv
<1>1. LifeTypeOK'
  BY DEF LifeTypeOK
<1>2. NothingReleasedTooEarly'
  BY DEF NothingReleasedTooEarly, NoError
<1>3. NothingKeptTooLong'
  BY DEF NothingKeptTooLong, Filled, UsedAfter, Empty
<1> QED BY <1>1, <1>2, <1>3

LEMMA StutterKeeps ==
    ASSUME LifeInv, UNCHANGED lifeVars
    PROVE  LifeInv'
<1> USE DEF lifeVars
<1>1. LifeTypeOK'
  BY DEF LifeInv, LifeTypeOK
<1>2. \A i : Filled(i)' <=> Filled(i)
  BY DEF Filled
<1>3. ScanInv' <=> ScanInv
  BY FileFacts DEF ScanInv
<1>4. ReadInv' <=> ReadInv
  <2>1. \A r : /\ ListsInv(r)' <=> ListsInv(r)
               /\ TableInv(r)' <=> TableInv(r)
               /\ LastDecl(r)' <=> LastDecl(r)
    BY <1>2, FileFacts DEF ListsInv, TableInv, LastDecl
  <2> QED BY <2>1, FileFacts DEF ReadInv
<1>5. NothingReleasedTooEarly' /\ NothingKeptTooLong'
  BY DEF LifeInv, NothingReleasedTooEarly, NothingKeptTooLong, DefinesBy, Filled, UsedAfter
<1> QED BY <1>1, <1>3, <1>4, <1>5 DEF LifeInv

-----------------------------------------------------------------------------
(* The theorems.                                                           *)

LEMMA NextInv == LifeInv /\ [LifeNext]_lifeVars => LifeInv'
<1> SUFFICES ASSUME LifeInv, [LifeNext]_lifeVars PROVE LifeInv'
  OBVIOUS
<1>1. ASSUME NEW l \in Lines, WriteLine(l) PROVE LifeInv'
  BY <1>1, WriteLineKeeps
<1>2. CASE StartScan
  BY <1>2, StartScanKeeps
<1>3. CASE ScanLine
  BY <1>3, ScanLineKeeps
<1>4. CASE EndScan
  BY <1>4, EndScanKeeps
<1>5. CASE ReadExpr
  BY <1>5, ReadExprKeeps
<1>6. CASE ReadDecl
  BY <1>6, ReadDeclKeeps
<1>7. CASE SkipLine
  BY <1>7, SkipLineKeeps
<1>8. CASE EndRead
  BY <1>8, EndReadKeeps
<1>9. CASE UNCHANGED lifeVars
  BY <1>9, StutterKeeps
<1> QED
  BY <1>1, <1>2, <1>3, <1>4, <1>5, <1>6, <1>7, <1>8, <1>9 DEF LifeNext

THEOREM InvariantHolds == LifeSpec => []LifeInv
<1>1. LifeInit => LifeInv
  BY InitInv
<1>2. LifeInv /\ [LifeNext]_lifeVars => LifeInv'
  BY NextInv
<1> QED
  BY <1>1, <1>2, PTL DEF LifeSpec

\* The table never outgrows what the first pass counted, and a filled slot
\* holds a term of a line that defines its index.
THEOREM TypeCorrect == LifeSpec => []LifeTypeOK
<1>1. LifeInv => LifeTypeOK
  BY DEF LifeInv
<1> QED
  BY <1>1, InvariantHolds, PTL

\* Parser::released never reports a slot that some earlier line had filled:
\* the release and the scan agree on what a use is.
THEOREM NeverTooEarly == LifeSpec => []NothingReleasedTooEarly
<1>1. LifeInv => NothingReleasedTooEarly
  BY DEF LifeInv
<1> QED
  BY <1>1, InvariantHolds, PTL

\* Behind every declaration the table holds only what a later line uses.
THEOREM NeverTooLong == LifeSpec => []NothingKeptTooLong
<1>1. LifeInv => NothingKeptTooLong
  BY DEF LifeInv
<1> QED
  BY <1>1, InvariantHolds, PTL
=============================================================================
