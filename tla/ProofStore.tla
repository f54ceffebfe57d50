----------------------------- MODULE ProofStore -----------------------------
(***************************************************************************)
(* What becomes of the proof of a checked theorem: it leaves the memory,   *)
(* to a file on disk or for good, and must come back as the same term when *)
(* a later comparison unfolds the theorem (parser.rs                       *)
(* release_theorem_value, proofstore.rs, tc.rs unfold_delta).              *)
(*                                                                         *)
(* A proof is the sequence of cells its encoding writes; module ProofCodec *)
(* shows that the encoding can be read back, up to a depth of levels that  *)
(* only the reader limits: the proofs beyond it are `TooDeep` here, stored *)
(* like any other and refused by the reader.  A write can stop half way,   *)
(* a read can fail, and a cell of the file can be damaged: these are       *)
(* actions of the environment.  The hash of a blob is its content: that    *)
(* two contents never share a hash is assumed.                             *)
(***************************************************************************)
EXTENDS Integers, Sequences, FiniteSets

CONSTANTS Theorems,
          TooDeep,       \* theorems whose proof has a level the reader refuses
          BlobCells,     \* cells of an encoded proof
          MaxDamage      \* cells the environment may damage

ASSUMPTION StoreAssumption ==
    /\ IsFiniteSet(Theorems) /\ TooDeep \subseteq Theorems
    /\ BlobCells \in Nat \ {0}
    /\ MaxDamage \in Nat

VARIABLES keep,        \* KIOTA_KEEP_THEOREM_VALUES
          lifetimes,   \* whether the pre-pass has run
          referenced,  \* the theorems some expression of the export names
          proofs,      \* the store: "none" or "open"
          stored,      \* theorems whose proof was once written whole
          value,       \* where the environment has a theorem's proof
          disk,        \* the cells of the file
          index,       \* the store's index, a function on what it holds
          loaded,      \* proofs read back in this run, by theorem
          current,     \* the declaration being checked
          cache,       \* its checker's unfold_cache
          answer,      \* the last unfolding: theorem, outcome, term
          faults       \* faults of the environment so far

storeVars == <<keep, lifetimes, referenced, proofs, stored, value, disk, index,
          loaded, current, cache, answer, faults>>
policy == <<keep, lifetimes, referenced>>

Idle == "idle"
OtherDecl == "other"       \* a declaration that is not a theorem
Encoded(n) == [k \in 1 .. BlobCells |-> <<n, k>>]
Bad(cell) == <<cell[1], 0>>
NoTerm == <<>>
NoAnswer == [name |-> Idle, res |-> "none", term |-> NoTerm]
NoFaults == [write |-> 0, read |-> 0, damage |-> 0]

Extended(f, n, v) == [m \in DOMAIN f \cup {n} |-> IF m = n THEN v ELSE f[m]]

-----------------------------------------------------------------------------
StoreInit ==
    /\ keep \in BOOLEAN
    /\ lifetimes \in BOOLEAN
    /\ referenced \in SUBSET Theorems
    /\ proofs \in IF keep THEN {"none"} ELSE {"none", "open"}
    /\ stored = {}
    /\ value = [n \in Theorems |-> "absent"]
    /\ disk = <<>>
    /\ index = <<>>
    /\ loaded = <<>>
    /\ current = Idle
    /\ cache = <<>>
    /\ answer = NoAnswer
    /\ faults = NoFaults

\* The parser reads a declaration and makes a checker for it.
Begin(d) ==
    /\ current = Idle
    /\ current' = d
    /\ IF d \in Theorems
       THEN value[d] = "absent" /\ value' = [value EXCEPT ![d] = "memory"]
       ELSE UNCHANGED value
    /\ cache' = <<>>
    /\ answer' = NoAnswer
    /\ UNCHANGED <<policy, proofs, stored, disk, index, loaded, faults>>

-----------------------------------------------------------------------------
(* Releasing the proof of the theorem that was just checked.               *)

Ended == current' = Idle /\ answer' = NoAnswer /\ UNCHANGED <<policy, cache, loaded>>

\* Another declaration was checked, or every proof is kept.
EndWithoutRelease ==
    /\ current # Idle
    /\ current \in Theorems => keep
    /\ Ended
    /\ UNCHANGED <<proofs, stored, value, disk, index, faults>>

\* ProofStore::store writes the whole blob at the end of the file.
StoreProof(n) ==
    /\ current = n /\ ~keep /\ proofs = "open"
    /\ disk' = disk \o Encoded(n)
    /\ index' = Extended(index, n, [offset |-> Len(disk), len |-> BlobCells,
                                    hash |-> Encoded(n)])
    /\ stored' = stored \cup {n}
    /\ value' = [value EXCEPT ![n] = "released"]
    /\ Ended
    /\ UNCHANGED <<proofs, faults>>

\* A bug: the proof leaves the memory although its write failed.
StoreFailsAndReleases(n) ==
    /\ current = n /\ ~keep /\ proofs = "open"
    /\ proofs' = "none" /\ index' = <<>>
    /\ value' = [value EXCEPT ![n] = "released"]
    /\ UNCHANGED <<stored, disk>>
    /\ faults' = [faults EXCEPT !.write = @ + 1]
    /\ Ended

\* The write stops after some cells, or ends and is refused for its length:
\* nothing is recorded, the proof stays in memory, and the parser drops the
\* store with all it holds.
StoreFails(n) ==
    /\ current = n /\ ~keep /\ proofs = "open"
    /\ \E k \in 0 .. BlobCells : disk' = disk \o SubSeq(Encoded(n), 1, k)
    /\ proofs' = "none"
    /\ index' = <<>>
    /\ faults' = [faults EXCEPT !.write = @ + 1]
    /\ current' = Idle /\ answer' = NoAnswer
    /\ loaded' = <<>>
    /\ UNCHANGED <<policy, cache, stored, value>>

\* Without a store, a theorem that no expression names loses its proof.
Droppable(n) == lifetimes /\ n \notin referenced

ReleaseWithoutStore(n) ==
    /\ current = n /\ ~keep /\ proofs = "none"
    /\ value' = [value EXCEPT ![n] = IF Droppable(n) THEN "released" ELSE @]
    /\ Ended
    /\ UNCHANGED <<proofs, stored, disk, index, faults>>

-----------------------------------------------------------------------------
(* Unfolding a theorem during the check of a declaration.                  *)

Answer(n, res, term) == answer' = [name |-> n, res |-> res, term |-> term]

\* A bug: the hash of the blob is not verified.
Unverified(entry, blob) == TRUE

\* load: a blob is decoded only if it hashes to what was written.
Verified(entry, blob) == blob = entry.hash

\* Only an expression that names a theorem can unfold it.
Unfoldable(n) == current # Idle /\ n \in referenced

\* The proof is in memory, or this checker has unfolded it before.
UnfoldAtHand(n) ==
    /\ Unfoldable(n)
    /\ value[n] = "memory" \/ (value[n] = "released" /\ n \in DOMAIN cache)
    /\ LET term == IF n \in DOMAIN cache THEN cache[n] ELSE Encoded(n)
       IN  /\ Answer(n, "term", term)
           /\ cache' = Extended(cache, n, term)
    /\ UNCHANGED <<policy, proofs, stored, value, disk, index, loaded, current, faults>>

\* The proof was released: ProofStore::load, from the proofs read before ...
UnfoldLoaded(n) ==
    /\ Unfoldable(n) /\ value[n] = "released" /\ n \notin DOMAIN cache
    /\ proofs = "open" /\ n \in DOMAIN loaded
    /\ Answer(n, "term", loaded[n])
    /\ cache' = Extended(cache, n, loaded[n])
    /\ UNCHANGED <<policy, proofs, stored, value, disk, index, loaded, current, faults>>

\* ... or from the file, where the blob is verified and then decoded; either
\* may end in an error, which is not remembered.
UnfoldStored(n) ==
    /\ Unfoldable(n) /\ value[n] = "released" /\ n \notin DOMAIN cache
    /\ proofs = "open" /\ n \notin DOMAIN loaded /\ n \in DOMAIN index
    /\ LET e == index[n]
           blob == SubSeq(disk, e.offset + 1, e.offset + e.len)
       IN  IF Verified(e, blob) /\ n \notin TooDeep
           THEN /\ Answer(n, "term", blob)
                /\ cache' = Extended(cache, n, blob)
                /\ loaded' = Extended(loaded, n, blob)
           ELSE /\ Answer(n, "error", NoTerm)
                /\ UNCHANGED <<cache, loaded>>
    /\ UNCHANGED <<policy, proofs, stored, value, disk, index, current, faults>>

\* The read fails: an error, never a term.
UnfoldUnreadable(n) ==
    /\ Unfoldable(n) /\ value[n] = "released" /\ n \notin DOMAIN cache
    /\ proofs = "open" /\ n \notin DOMAIN loaded /\ n \in DOMAIN index
    /\ Answer(n, "error", NoTerm)
    /\ faults' = [faults EXCEPT !.read = 1]
    /\ UNCHANGED <<policy, proofs, stored, value, disk, index, loaded, current, cache>>

\* No store, or nothing stored under the name: the comparison declines.
UnfoldGone(n) ==
    /\ Unfoldable(n) /\ value[n] = "released" /\ n \notin DOMAIN cache
    /\ proofs = "open" => n \notin DOMAIN loaded \cup DOMAIN index
    /\ Answer(n, "decline", NoTerm)
    /\ UNCHANGED <<policy, proofs, stored, value, disk, index, loaded, current, cache, faults>>

\* The environment damages a cell of the file.
Damage(k) ==
    /\ k <= Len(disk) /\ disk[k] # Bad(disk[k])
    /\ faults.damage < MaxDamage
    /\ disk' = [disk EXCEPT ![k] = Bad(@)]
    /\ faults' = [faults EXCEPT !.damage = @ + 1]
    /\ UNCHANGED <<policy, proofs, stored, value, index, loaded, current, cache, answer>>

StoreNext ==
    \/ \E d \in Theorems \cup {OtherDecl} : Begin(d)
    \/ EndWithoutRelease
    \/ \E n \in Theorems :
          \/ StoreProof(n) \/ StoreFails(n) \/ ReleaseWithoutStore(n)
          \/ UnfoldAtHand(n) \/ UnfoldLoaded(n) \/ UnfoldStored(n)
          \/ UnfoldUnreadable(n) \/ UnfoldGone(n)
    \/ \E k \in 1 .. BlobCells * Cardinality(Theorems) : Damage(k)

StoreSpec == StoreInit /\ [][StoreNext]_storeVars

-----------------------------------------------------------------------------
(* Properties.                                                             *)

\* The state is what the code can hold; in particular every index entry lies
\* within the file, and only a live store has an index.
StoreTypeOK ==
    /\ keep \in BOOLEAN /\ lifetimes \in BOOLEAN
    /\ referenced \subseteq Theorems /\ stored \subseteq Theorems
    /\ proofs \in {"none", "open"}
    /\ value \in [Theorems -> {"absent", "memory", "released"}]
    /\ DOMAIN index \subseteq Theorems /\ DOMAIN loaded \subseteq DOMAIN index
    /\ proofs = "none" => index = <<>>
    /\ \A n \in DOMAIN index :
          index[n].offset \in 0 .. Len(disk) - index[n].len
    /\ current \in Theorems \cup {Idle, OtherDecl}
    /\ answer.name \in Theorems \cup {Idle}
    /\ answer.res \in {"none", "term", "error", "decline"}

\* An unfolded theorem gives the proof that was checked, wherever it has been
\* in between and whatever happened to the file: a fault can only end in an
\* error or a decline (proofstore.rs: "a mismatch is an error, never a term").
SameProofOrNone == answer.res = "term" => answer.term = Encoded(answer.name)

\* Releasing proofs costs nothing while the file works, except where the reader
\* refuses what the writer wrote: as long as no fault occurred, no unfolding
\* declines ("no unfolding Lean would do is lost"), and one ends in an error only
\* for a proof with a level beyond the reader's depth; and a proof leaves memory
\* only once it has been written whole, whatever fails (release_theorem_value).
NoUnfoldingLost ==
    /\ answer.res = "decline" => faults # NoFaults
    /\ answer.res = "error" => faults # NoFaults \/ answer.name \in TooDeep
    /\ \A n \in referenced : value[n] = "released" => n \in stored
=============================================================================
