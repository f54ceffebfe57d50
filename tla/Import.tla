------------------------------- MODULE Import -------------------------------
(***************************************************************************)
(* The export reader's names and declarations (parser.rs, env.rs).         *)
(*                                                                         *)
(* The export refers to a constant by an index; the kernel knows only its  *)
(* spelled name, and two indices may spell one name.  Names are read into  *)
(* a table, an axiom-like declaration is one line and one check, and an    *)
(* inductive block is a transaction: its types, constructors and recursors *)
(* enter the environment one by one, each write journaled, and a failure   *)
(* anywhere takes all of them back.                                        *)
(*                                                                         *)
(* What the checker says of a term is an oracle here (modules Typing,      *)
(* Inductives): a check may fail at any place the code checks.  The        *)
(* reconstruction of the recursors is given by what it reads, the block's  *)
(* types and constructors and the inductive `container` it nests in.       *)
(***************************************************************************)
EXTENDS Integers, Sequences, FiniteSets, SequencesExt

CONSTANTS NameLines,    \* the name lines: sequence of <<prefix index, segments>>
          TypeIds, CtorIds, RecIds, AxiomIds,  \* indices the declarations use
          MaxTypes, MaxCtors, MaxDecls

\* A line's prefix is a name read before it.
ASSUME ImportAssumption ==
    /\ NameLines \in Seq(Nat \X Seq(STRING))
    /\ \A k \in DOMAIN NameLines : NameLines[k][1] < k
    /\ TypeIds \cup CtorIds \cup RecIds \cup AxiomIds \subseteq Nat
    /\ MaxTypes \in Nat /\ MaxCtors \in Nat /\ MaxDecls \in Nat

None == -1

VARIABLES names,      \* index -> spelling
          byStr,      \* spelling -> last index that has it (name_by_str)
          dups,       \* spelling -> its indices, where there are several
          consts,     \* the environment: index -> constant
          recOf,      \* inductive -> recursor
          recGroup,   \* recursor -> the recursors of its block
          block,      \* the inductive block being read
          journal,    \* the writes it has made, first to last
          decls,      \* declarations read
          outcome     \* "running", "rejected"

importVars == <<names, byStr, dups, consts, recOf, recGroup, block, journal, decls, outcome>>
tables == <<names, byStr, dups>>
env == <<consts, recOf, recGroup>>

Anonymous == <<>>
NoBlock == [stage |-> "none"]

Put(f, k, v) == [x \in DOMAIN f \cup {k} |-> IF x = k THEN v ELSE f[x]]
Drop(f, k) == [x \in DOMAIN f \ {k} |-> f[x]]

-----------------------------------------------------------------------------
(* Names.                                                                  *)

\* A bug: an index that respells a name is not remembered.
NotRemembered(s, i) == dups

\* The indices of a spelling once a second one carries it.
Respelled(s, i) ==
    IF s \in DOMAIN byStr /\ byStr[s] # i
    THEN Put(dups, s, Append(IF s \in DOMAIN dups THEN dups[s] ELSE <<byStr[s]>>, i))
    ELSE dups

\* handle_name: the next name line, whose index is one the file has not used.
NameLine ==
    /\ outcome = "running" /\ block = NoBlock
    /\ Len(names) <= Len(NameLines)
    /\ LET i == Len(names)
           l == NameLines[i]
           s == names[l[1] + 1] \o l[2]
       IN  /\ names' = Append(names, s)
           /\ byStr' = Put(byStr, s, i)
           /\ dups' = Respelled(s, i)
    /\ UNCHANGED <<env, block, journal, decls, outcome>>

Spelling(i) == IF i < Len(names) THEN names[i + 1] ELSE Anonymous

\* The last index of a spelling, if it is declared.
DeclaredLast(s) ==
    IF s \in DOMAIN byStr /\ byStr[s] \in DOMAIN consts THEN byStr[s] ELSE None

\* declared: the declared index among all that spell s.
Declared(s) ==
    IF s \in DOMAIN dups
    THEN LET there == { k \in DOMAIN dups[s] : dups[s][k] \in DOMAIN consts }
         IN  IF there = {} THEN None
             ELSE dups[s][CHOOSE k \in there : \A j \in there : k <= j]
    ELSE DeclaredLast(s)

\* reject_if_dup
Duplicate(i) == i \in DOMAIN consts \/ Declared(Spelling(i)) # None

-----------------------------------------------------------------------------
(* One-line declarations (handle_def_like, check_last).                    *)

Running == outcome = "running" /\ block = NoBlock /\ Len(names) = Len(NameLines) + 1
           /\ decls < MaxDecls

\* The record is complete and safe, the constant goes in, and only then it is
\* checked; a failed check leaves it there, and the run ends.
Declaration(i) ==
    /\ Running
    /\ decls' = decls + 1
    /\ \/ /\ ~Duplicate(i)
          /\ consts' = Put(consts, i, [kind |-> "axiom"])
          /\ outcome' \in {"running", "rejected"}
       \/ outcome' = "rejected" /\ UNCHANGED consts
    /\ UNCHANGED <<tables, recOf, recGroup, block, journal>>

-----------------------------------------------------------------------------
(* The journal (InductiveUndo).                                            *)

Before(f, k) == IF k \in DOMAIN f THEN <<f[k]>> ELSE <<>>
Write(table, k, prior) == [table |-> table, key |-> k, prior |-> prior]

Restore(f, w) == IF w.prior = <<>> THEN Drop(f, w.key) ELSE Put(f, w.key, w.prior[1])

\* Reverse replay of the writes to one table: `back[n]` has the last n of the
\* log taken back.
Replayed(f, table, log) ==
    LET back[n \in 0 .. Len(log)] ==
            IF n = 0 THEN f
            ELSE LET w == log[Len(log) - (n - 1)] IN
                 IF w.table = table THEN Restore(back[n - 1], w) ELSE back[n - 1]
    IN  back[Len(log)]

Undone(f, table) == Replayed(f, table, journal)

\* A bug: the ownership maps stay as the block left them.
RollbackConstants ==
    /\ consts' = Undone(consts, "constant")
    /\ UNCHANGED <<recOf, recGroup>>

Rollback ==
    /\ consts' = Undone(consts, "constant")
    /\ recOf' = Undone(recOf, "owner")
    /\ recGroup' = Undone(recGroup, "group")

\* A block that fails is rolled back and ends the run.
Fail ==
    /\ Rollback
    /\ block' = NoBlock /\ journal' = <<>>
    /\ outcome' = "rejected"
    /\ UNCHANGED <<tables, decls>>

InsertConstant(i, c) ==
    /\ consts' = Put(consts, i, c)
    /\ journal' = Append(journal, Write("constant", i, Before(consts, i)))

-----------------------------------------------------------------------------
(* An inductive block (handle_inductive_block).                            *)

Inductives == { i \in DOMAIN consts : consts[i].kind = "type" }

\* `container`: the inductive that some constructor field nests the block's
\* types in, which the checker finds in the constructor types.
BeginBlock ==
    /\ Running
    /\ \E container \in Inductives \cup {None} :
          block' = [stage |-> "types", container |-> container, types |-> <<>>, lists |-> <<>>,
                    recs |-> <<>>, pending |-> <<>>, ordered |-> <<>>, seen |-> {},
                    k |-> 1]
    /\ journal' = <<>>
    /\ decls' = decls + 1
    /\ UNCHANGED <<tables, env, outcome>>

At(stage) == block.stage = stage
GoTo(stage) == block' = [block EXCEPT !.stage = stage, !.k = 1]
Quiet == UNCHANGED <<tables, decls, outcome>>

CtorLists == UNION { [1 .. n -> CtorIds] : n \in 0 .. MaxCtors }

\* The next type, with the constructors it lists.
TypeRecord(i, ctors) ==
    /\ At("types") /\ Len(block.types) < MaxTypes
    /\ \/ /\ ~Duplicate(i)
          /\ InsertConstant(i, [kind |-> "type", ctors |-> ctors])
          /\ block' = [block EXCEPT !.types = Append(@, i), !.lists = Append(@, ctors)]
          /\ UNCHANGED <<recOf, recGroup>> /\ Quiet
       \/ Fail     \* a duplicate, an unsafe type, a missing field

\* The list of the type that claims the constructor, in this block.
OwnerList(induct) ==
    UNION { {block.lists[k]} : k \in { j \in DOMAIN block.types : block.types[j] = induct } }

\* A constructor is taken only where its own inductive lists it.
OwnCtor(i, induct, cidx) ==
    \E list \in OwnerList(induct) : cidx \in DOMAIN list /\ list[cidx] = i

\* `concl`: the inductive its type ends in.
CtorRecord(i, induct, cidx, concl) ==
    /\ At("ctors")
    /\ \/ /\ ~Duplicate(i) /\ OwnCtor(i, induct, cidx)
          /\ InsertConstant(i, [kind |-> "ctor", induct |-> induct, cidx |-> cidx,
                                concl |-> concl])
          /\ UNCHANGED <<recOf, recGroup, block>> /\ Quiet
       \/ Fail

\* A recursor record stays outside the environment.
RecRecord(i, all, rules) ==
    /\ At("recs") /\ Len(block.recs) < MaxTypes + 1
    /\ \/ /\ ~Duplicate(i)
          /\ \A k \in DOMAIN block.recs : block.recs[k].name # i
          /\ block' = [block EXCEPT !.recs = Append(@, [name |-> i, all |-> all,
                                                        rules |-> rules])]
          /\ UNCHANGED <<env, journal>> /\ Quiet
       \/ Fail

NextStage ==
    /\ \/ At("types") /\ GoTo("ctors")
       \/ At("ctors") /\ GoTo("recs")
    /\ UNCHANGED <<env, journal>> /\ Quiet

\* check_inductive_group_structure wants at the end of a listed constructor's
\* type the inductive that lists it, and reconstruct_recursors wants all there.
ListedOk ==
    \A k \in DOMAIN block.lists : \A c \in ToSet(block.lists[k]) :
        /\ c \in DOMAIN consts /\ consts[c].kind = "ctor"
        /\ consts[c].concl = block.types[k]

\* One recursor per type and one per nested specialization.
Nested == block.container # None
DerivedCount == Len(block.types) + (IF Nested THEN 1 ELSE 0)

\* The rules the kernel would give the k-th recursor: its type's constructors,
\* or those of the container.
DerivedRules(k) ==
    IF k <= Len(block.types) THEN block.lists[k] ELSE consts[block.container].ctors

Reconstruct ==
    /\ At("recs")
    /\ \/ /\ block.types # <<>> /\ block.recs # <<>>
          /\ ListedOk
          /\ Len(block.recs) = DerivedCount
          /\ block' = [block EXCEPT !.stage = "compare", !.pending = block.recs]
          /\ UNCHANGED <<env, journal>> /\ Quiet
       \/ Fail

ExpectedName(k) ==
    IF k <= Len(block.types) THEN Append(Spelling(block.types[k]), "rec")
    ELSE Append(Spelling(block.types[1]), "rec_1")

\* The k-th derived recursor finds its record by its spelled name; its group
\* must agree, and its counts and type (which may fail).  What is stored is
\* the derived one with the record's name and rules.
Compare ==
    /\ At("compare") /\ block.k <= DerivedCount
    /\ \/ \E p \in DOMAIN block.pending :
             LET r == block.pending[p] IN
             /\ Spelling(r.name) = ExpectedName(block.k)
             /\ \A q \in 1 .. p - 1 : Spelling(block.pending[q].name) # ExpectedName(block.k)
             /\ r.all = block.types
             /\ block' = [block EXCEPT !.k = @ + 1, !.pending = RemoveAt(@, p),
                                       !.ordered = Append(@, r)]
             /\ UNCHANGED <<env, journal>> /\ Quiet
       \/ Fail

\* Every recursor of the block enters the environment, in the derived order.
Install ==
    /\ At("compare") /\ block.k > DerivedCount
    /\ LET recs == block.ordered
           line == [k \in DOMAIN recs |-> recs[k].name]
           at(i) == CHOOSE k \in DOMAIN recs : line[k] = i
       IN  /\ consts' = [i \in DOMAIN consts \cup ToSet(line) |->
                            IF i \in ToSet(line)
                            THEN [kind |-> "rec", all |-> block.types, rules |-> recs[at(i)].rules]
                            ELSE consts[i]]
           /\ journal' = journal \o [k \in DOMAIN line |->
                             Write("constant", line[k], Before(consts, line[k]))]
    /\ GoTo("owners")
    /\ UNCHANGED <<recOf, recGroup>> /\ Quiet

\* The types a recursor serves: those whose constructors its rules name; one
\* without rules serves every type of the group.
Claimed(r) ==
    IF r.rules = <<>> THEN ToSet(r.all) \cap ToSet(block.types)
    ELSE { consts[c].induct : c \in { d \in ToSet(r.rules) :
             /\ d \in DOMAIN consts /\ consts[d].kind = "ctor"
             /\ consts[d].induct \in ToSet(block.types) } }

\* Enter the k-th recursor, in file order, as the owner of what it serves; a
\* type that has an owner already is a failure.
Own ==
    /\ At("owners") /\ block.k <= Len(block.recs)
    /\ LET r == block.recs[block.k]
           owners == Claimed(r)
           line == SetToSeq(owners)
       IN  \/ /\ owners # {} \/ r.rules # <<>> \/ Nested
              /\ owners \cap block.seen = {}
              /\ recOf' = [t \in DOMAIN recOf \cup owners |->
                              IF t \in owners THEN r.name ELSE recOf[t]]
              /\ journal' = journal \o [j \in DOMAIN line |->
                                Write("owner", line[j], Before(recOf, line[j]))]
              /\ block' = [block EXCEPT !.k = @ + 1, !.seen = @ \cup owners]
              /\ UNCHANGED <<consts, recGroup>> /\ Quiet
           \/ /\ \/ owners = {} /\ r.rules = <<>> /\ ~Nested
                 \/ owners \cap block.seen # {}
              /\ Fail

\* Owners come first, then the auxiliary recursors by their number.
Main(i) == \E t \in DOMAIN recOf : recOf[t] = i
SortKey(i) ==
    IF Main(i) THEN 0
    ELSE IF Spelling(i) # Anonymous /\ Last(Spelling(i)) = "rec_1" THEN 2 ELSE 1

\* A bug: the group keeps the order of the records.
InFileOrder(recs) == recs

\* Behind everything that does not come after it.
Inserted(s, i) ==
    LET n == Cardinality({ j \in DOMAIN s : SortKey(s[j]) <= SortKey(i) })
    IN  SubSeq(s, 1, n) \o <<i>> \o SubSeq(s, n + 1, Len(s))

SortedGroup(recs) ==
    LET sorted[n \in 0 .. Len(recs)] ==
            IF n = 0 THEN <<>> ELSE Inserted(sorted[n - 1], recs[n])
    IN  sorted[Len(recs)]

\* The group of every recursor; then every type must have one.
Group ==
    /\ At("owners") /\ block.k > Len(block.recs)
    /\ LET recs == [j \in DOMAIN block.recs |-> block.recs[j].name]
           grown == [i \in DOMAIN recGroup \cup ToSet(recs) |->
                        IF i \in ToSet(recs) THEN SortedGroup(recs) ELSE recGroup[i]]
           writes == [j \in DOMAIN recs |-> Write("group", recs[j], Before(recGroup, recs[j]))]
       IN  \/ /\ ToSet(block.types) \subseteq DOMAIN recOf
              /\ recGroup' = grown
              /\ journal' = journal \o writes
              /\ GoTo("check")
              /\ UNCHANGED <<consts, recOf>> /\ Quiet
           \/ /\ ~(ToSet(block.types) \subseteq DOMAIN recOf)
              /\ Fail

\* check_inductive_group on the installed block, then the block is committed.
Commit ==
    /\ At("check")
    /\ \/ /\ block' = NoBlock /\ journal' = <<>>
          /\ UNCHANGED env /\ Quiet
       \/ Fail

-----------------------------------------------------------------------------
ImportInit ==
    /\ names = <<Anonymous>>
    /\ byStr = <<>> /\ dups = <<>>
    /\ consts = <<>> /\ recOf = <<>> /\ recGroup = <<>>
    /\ block = NoBlock /\ journal = <<>>
    /\ decls = 0 /\ outcome = "running"

ImportNext ==
    \/ NameLine
    \/ \E i \in AxiomIds : Declaration(i)
    \/ BeginBlock
    \/ /\ outcome = "running" /\ block # NoBlock
       /\ \/ \E i \in TypeIds, l \in CtorLists : TypeRecord(i, l)
          \/ \E i \in CtorIds, t \in TypeIds, c \in 1 .. MaxCtors, concl \in ToSet(block.types) :
                CtorRecord(i, t, c, concl)
          \/ \E i \in RecIds, all \in {<<>>, block.types}, rules \in CtorLists :
                RecRecord(i, all, rules)
          \/ NextStage \/ Reconstruct \/ Compare \/ Install \/ Own \/ Group \/ Commit

ImportSpec == ImportInit /\ [][ImportNext]_importVars

-----------------------------------------------------------------------------
(* Properties.                                                             *)

Constants == [kind : {"axiom"}]
             \cup [kind : {"type"}, ctors : CtorLists]
             \cup [kind : {"ctor"}, induct : TypeIds, cidx : 1 .. MaxCtors, concl : TypeIds]
             \cup [kind : {"rec"}, all : Seq(TypeIds), rules : CtorLists]

\* The state is what the code can hold; the journal never outlives its block.
ImportTypeOK ==
    /\ Len(names) <= Len(NameLines) + 1
    /\ \A s \in DOMAIN dups : Len(dups[s]) > 1 /\ s \in DOMAIN byStr
    /\ \A i \in DOMAIN consts : consts[i] \in Constants
    /\ DOMAIN recOf \subseteq TypeIds /\ DOMAIN recGroup \subseteq RecIds
    /\ block = NoBlock => journal = <<>>
    /\ outcome \in {"running", "rejected"}
    /\ decls <= MaxDecls

\* The environment never holds two constants of one name, whichever of its
\* indices the declarations use and also in the middle of a block: the kernel
\* "knows only the name" (reject_if_dup).
\* And the lookups by name (Nat, String, Eq, Quot) find that constant, past the
\* indices that were never declared.
OneConstantPerName ==
    /\ \A i, j \in DOMAIN consts : Spelling(i) = Spelling(j) => i = j
    /\ \A s \in DOMAIN byStr :
        IF \E i \in DOMAIN consts : Spelling(i) = s
        THEN Declared(s) \in DOMAIN consts /\ Spelling(Declared(s)) = s
        ELSE Declared(s) = None

\* The environment c with its ownership maps is one of whole blocks: every
\* inductive has all the constructors it lists, a recursor of its block that
\* owns it and a group of that recursor, every constructor and recursor belongs
\* to such an inductive, and the maps are about nothing else.
TypesOf(c) == { i \in DOMAIN c : c[i].kind = "type" }
RecsOf(c) == { i \in DOMAIN c : c[i].kind = "rec" }

Whole(c, owner, group) ==
    /\ \A t \in TypesOf(c) : \A k \in DOMAIN c[t].ctors :
          /\ c[t].ctors[k] \in DOMAIN c
          /\ c[c[t].ctors[k]].kind = "ctor"
          /\ c[c[t].ctors[k]].induct = t
    /\ \A i \in DOMAIN c : c[i].kind = "ctor" =>
          /\ c[i].induct \in TypesOf(c)
          /\ c[i].cidx \in DOMAIN c[c[i].induct].ctors
          /\ c[c[i].induct].ctors[c[i].cidx] = i
    /\ \A i \in RecsOf(c) :
          /\ ToSet(c[i].all) \subseteq TypesOf(c)
          /\ ToSet(group[i]) = { r \in RecsOf(c) : c[r].all = c[i].all }
    /\ DOMAIN owner = TypesOf(c)
    /\ \A t \in DOMAIN owner : owner[t] \in RecsOf(c) /\ t \in ToSet(c[owner[t]].all)
    /\ DOMAIN group = RecsOf(c)

\* Blocks enter the environment whole or not at all: whenever no block is
\* being read, committed or failed, the environment is one of whole blocks
\* (InductiveUndo).
BlocksAreWhole == block = NoBlock => Whole(consts, recOf, recGroup)

\* The rules of the records are those the kernel would write.
HonestRules ==
    \A k \in DOMAIN block.ordered : block.ordered[k].rules = DerivedRules(k)

\* When the rules are honest, the recursor that owns an inductive is the one
\* the kernel names after it, and in every group the owners come before the
\* auxiliary recursors: nested iota finds both by position.
OwnersAreNamed ==
    (block # NoBlock /\ block.stage = "check" /\ HonestRules) =>
        /\ \A k \in DOMAIN block.types : recOf[block.types[k]] = block.ordered[k].name
        /\ \A k \in DOMAIN block.ordered :
              LET group == recGroup[block.ordered[k].name]
              IN  \A j \in 1 .. Len(group) - 1 : Main(group[j + 1]) => Main(group[j])

\* A block whose recursors carry the kernel's names, groups, counts, types and
\* rules can be entered: `I.rec` is the recursor of I (the comment above the
\* check of the names).  A recursor without rules claims every type of its
\* group, so a group with an empty member or an empty container is rejected
\* for a second recursor.
HonestBlockHasOwners ==
    (block # NoBlock /\ block.stage = "owners" /\ block.k <= Len(block.recs) /\ HonestRules) =>
        Claimed(block.recs[block.k]) \cap block.seen = {}
=============================================================================
