-------------------------- MODULE ProofStoreProofs --------------------------
(***************************************************************************)
(* Proofs about `ProofStore`, for any set of theorems, any size of a blob  *)
(* and any amount of damage: a released proof comes back as it was or not  *)
(* at all, and is only lost to a fault or to the depth of its levels.      *)
(*                                                                         *)
(* What an unfolding answers depends on the file, on two caches above it   *)
(* and on what was believed when the proof left memory, so the invariant   *)
(* says for each of them what it holds: a cache holds a theorem's own      *)
(* encoding; an index entry names a stretch of the file, and the hash of   *)
(* the theorem's encoding, and while nothing was damaged that stretch *is* *)
(* the encoding; and a proof that was stored is still indexed unless a     *)
(* write has failed since.                                                 *)
(***************************************************************************)
EXTENDS ProofStore, FiniteSetTheorems, SequenceTheorems, TLAPS

Cells == Theorems \X Nat

FaultCounts == [write : Nat, read : {0, 1}, damage : Nat]

\* An entry lies within the file and carries the hash of what was written.
EntriesFit ==
    \A n \in DOMAIN index :
        /\ index[n] \in [offset : Nat, len : {BlobCells}, hash : {Encoded(n)}]
        /\ index[n].offset + BlobCells <= Len(disk)

\* Bytes change under an entry only by damage: the file grows at its end.
BlobsStand ==
    faults.damage = 0 =>
        \A n \in DOMAIN index : \A k \in 1 .. BlobCells :
            disk[index[n].offset + k] = <<n, k>>

\* Both caches hold a theorem's own encoding.
CachesFit ==
    /\ \A n \in DOMAIN loaded : loaded[n] = Encoded(n)
    /\ \A n \in DOMAIN cache : cache[n] = Encoded(n)

\* A proof that was once written whole is lost only with the store.
StoredIsIndexed ==
    /\ proofs = "open" => stored \subseteq DOMAIN index
    /\ proofs = "none" /\ stored # {} => faults.write > 0

StoreInv ==
    /\ StoreTypeOK
    /\ disk \in Seq(Cells)
    /\ faults \in FaultCounts
    /\ EntriesFit
    /\ BlobsStand
    /\ CachesFit
    /\ StoredIsIndexed
    /\ SameProofOrNone
    /\ NoUnfoldingLost

-----------------------------------------------------------------------------
(* The steps, each with the conjuncts it can disturb.                      *)

LEMMA EncodedIsBlob ==
    ASSUME NEW n \in Theorems
    PROVE  /\ Encoded(n) \in Seq(Cells)
           /\ Len(Encoded(n)) = BlobCells
           /\ \A k \in 1 .. BlobCells : Encoded(n)[k] = <<n, k>>
<1>1. Encoded(n) \in [1 .. BlobCells -> Cells]
  BY StoreAssumption DEF Encoded, Cells
<1> QED
  BY <1>1, StoreAssumption DEF Encoded

LEMMA InitInv == StoreInit => StoreInv
  BY DEF StoreInit, StoreInv, StoreTypeOK, FaultCounts, EntriesFit, BlobsStand, CachesFit,
         StoredIsIndexed, SameProofOrNone, NoUnfoldingLost, NoAnswer, NoFaults

\* A declaration begins or ends without a release.
LEMMA BeginKeeps ==
    ASSUME StoreInv, NEW d \in Theorems \cup {OtherDecl}, Begin(d)
    PROVE  StoreInv'
<1> USE DEF Begin, policy, StoreInv, NoAnswer
<1>1. StoreTypeOK' BY DEF StoreTypeOK
<1>2. EntriesFit' BY DEF EntriesFit
<1>3. BlobsStand' BY DEF BlobsStand
<1>4. CachesFit' BY DEF CachesFit
<1>5. StoredIsIndexed' BY DEF StoredIsIndexed
<1>6. SameProofOrNone' BY DEF SameProofOrNone
<1>7. NoUnfoldingLost' BY DEF NoUnfoldingLost, StoreTypeOK
<1> QED BY <1>1, <1>2, <1>3, <1>4, <1>5, <1>6, <1>7

LEMMA EndKeeps ==
    ASSUME StoreInv, EndWithoutRelease
    PROVE  StoreInv'
  BY DEF EndWithoutRelease, Ended, policy, StoreInv, StoreTypeOK, FaultCounts, EntriesFit,
         BlobsStand, CachesFit, StoredIsIndexed, SameProofOrNone, NoUnfoldingLost, NoAnswer

\* A whole blob at the end of the file leaves those before it where they are.
LEMMA StoreKeeps ==
    ASSUME StoreInv, NEW n \in Theorems, StoreProof(n)
    PROVE  StoreInv'
<1>1. /\ DOMAIN index' = DOMAIN index \cup {n}
      /\ index'[n] = [offset |-> Len(disk), len |-> BlobCells, hash |-> Encoded(n)]
      /\ \A m \in DOMAIN index \ {n} : index'[m] = index[m]
  BY DEF StoreProof, Extended
<1>2. /\ disk' \in Seq(Cells) /\ Len(disk') = Len(disk) + BlobCells
      /\ \A k \in 1 .. Len(disk) : disk'[k] = disk[k]
      /\ \A k \in 1 .. BlobCells : disk'[Len(disk) + k] = <<n, k>>
  <2>1. PICK e \in Seq(Cells) : /\ e = Encoded(n) /\ Len(e) = BlobCells
                                /\ \A k \in 1 .. BlobCells : e[k] = <<n, k>>
    BY EncodedIsBlob
  <2>2. disk' = disk \o e /\ disk \in Seq(Cells)
    BY <2>1 DEF StoreProof, StoreInv
  <2>3. Len(disk) \in Nat /\ BlobCells \in Nat
    BY <2>2, StoreAssumption
  <2>4. disk' \in Seq(Cells) /\ Len(disk') = Len(disk) + BlobCells
    BY <2>1, <2>2, ConcatProperties
  <2>5. \A k \in 1 .. Len(disk) : disk'[k] = disk[k]
    BY <2>1, <2>2, <2>3, ConcatProperties
  <2>6. ASSUME NEW k \in 1 .. BlobCells
        PROVE  disk'[Len(disk) + k] = <<n, k>>
    <3>1. disk'[Len(disk) + k] = e[(Len(disk) + k) - Len(disk)]
      BY <2>1, <2>2, <2>3, ConcatProperties
    <3>2. (Len(disk) + k) - Len(disk) = k
      BY <2>3
    <3> QED BY <2>1, <3>1, <3>2
  <2> QED BY <2>4, <2>5, <2>6
<1>3. EntriesFit'
  <2> SUFFICES ASSUME NEW m \in DOMAIN index'
               PROVE  /\ index'[m] \in [offset : Nat, len : {BlobCells}, hash : {Encoded(m)}]
                      /\ index'[m].offset + BlobCells <= Len(disk')
    BY DEF EntriesFit
  <2>1. disk \in Seq(Cells) /\ Len(disk) \in Nat /\ BlobCells \in Nat
    BY StoreAssumption DEF StoreInv
  <2>2. CASE m = n
    <3>1. index'[m] = [offset |-> Len(disk), len |-> BlobCells, hash |-> Encoded(m)]
      BY <1>1, <2>2
    <3>2. index'[m] \in [offset : Nat, len : {BlobCells}, hash : {Encoded(m)}]
      BY <3>1, <2>1
    <3>3. index'[m].offset + BlobCells <= Len(disk')
      BY <3>1, <2>1, <1>2
    <3> QED BY <3>2, <3>3
  <2>3. CASE m # n
    BY <1>1, <1>2, <2>1, <2>3 DEF EntriesFit, StoreInv
  <2> QED BY <2>2, <2>3
<1>4. BlobsStand'
  <2> SUFFICES ASSUME faults.damage = 0,
                      NEW m \in DOMAIN index', NEW k \in 1 .. BlobCells
               PROVE  disk'[index'[m].offset + k] = <<m, k>>
    BY DEF BlobsStand, StoreProof
  <2>1. CASE m = n
    BY <1>1, <1>2, <2>1
  <2>2. CASE m # n
    <3>1. m \in DOMAIN index /\ index'[m] = index[m]
      BY <1>1, <2>2
    <3>2. index[m].offset \in Nat /\ index[m].offset + BlobCells <= Len(disk)
      BY <3>1 DEF EntriesFit, StoreInv
    <3>3. index[m].offset + k \in 1 .. Len(disk)
      BY <3>2, StoreAssumption DEF StoreInv
    <3> QED BY <1>2, <3>1, <3>3 DEF BlobsStand, StoreInv
  <2> QED BY <2>1, <2>2
<1>5. StoreTypeOK'
  <2>1. \A m \in DOMAIN index' : index'[m].offset \in 0 .. Len(disk') - index'[m].len
    BY <1>2, <1>3, StoreAssumption DEF EntriesFit
  <2> QED
    BY <1>1, <2>1 DEF StoreTypeOK, StoreInv, StoreProof, Ended, policy, NoAnswer
<1>6. CachesFit' /\ SameProofOrNone'
  BY DEF StoreInv, StoreProof, Ended, policy, CachesFit, SameProofOrNone, NoAnswer
<1>7. StoredIsIndexed' /\ NoUnfoldingLost'
  BY <1>1 DEF StoreInv, StoreTypeOK, StoreProof, Ended, policy, StoredIsIndexed, NoUnfoldingLost,
              NoAnswer
<1> QED
  BY <1>2, <1>3, <1>4, <1>5, <1>6, <1>7 DEF StoreInv, StoreProof

\* A write that stops half way leaves bytes no entry covers, and no store.
LEMMA StoreFailsKeeps ==
    ASSUME StoreInv, NEW n \in Theorems, StoreFails(n)
    PROVE  StoreInv'
<1>1. disk' \in Seq(Cells)
  BY EncodedIsBlob, StoreAssumption DEF StoreFails, StoreInv
<1>2. faults' \in FaultCounts /\ faults'.write > 0 /\ faults'.damage = faults.damage
  <2>1. faults' = [faults EXCEPT !.write = @ + 1] /\ faults \in FaultCounts
    BY DEF StoreFails, StoreInv
  <2> QED BY <2>1 DEF FaultCounts
<1> USE DEF StoreFails, policy, StoreInv, NoAnswer
<1>3. StoreTypeOK' BY DEF StoreTypeOK
<1>4. EntriesFit' /\ BlobsStand' BY DEF EntriesFit, BlobsStand
<1>5. CachesFit' BY DEF CachesFit
<1>6. StoredIsIndexed' BY <1>2 DEF StoredIsIndexed
<1>7. SameProofOrNone' BY DEF SameProofOrNone
<1>8. NoUnfoldingLost' BY DEF NoUnfoldingLost
<1> QED BY <1>1, <1>2, <1>3, <1>4, <1>5, <1>6, <1>7, <1>8

LEMMA ReleaseWithoutStoreKeeps ==
    ASSUME StoreInv, NEW n \in Theorems, ReleaseWithoutStore(n)
    PROVE  StoreInv'
  BY DEF ReleaseWithoutStore, Droppable, Ended, policy, StoreInv, StoreTypeOK, FaultCounts,
         EntriesFit, BlobsStand, CachesFit, StoredIsIndexed, SameProofOrNone, NoUnfoldingLost,
         NoAnswer

LEMMA UnfoldAtHandKeeps ==
    ASSUME StoreInv, NEW n \in Theorems, UnfoldAtHand(n)
    PROVE  StoreInv'
<1>1. /\ answer' = [name |-> n, res |-> "term", term |-> Encoded(n)]
      /\ cache' = Extended(cache, n, Encoded(n))
  BY DEF UnfoldAtHand, Answer, StoreInv, CachesFit
<1> USE <1>1 DEF UnfoldAtHand, policy, StoreInv
<1>2. StoreTypeOK' BY DEF StoreTypeOK
<1>3. EntriesFit' /\ BlobsStand' BY DEF EntriesFit, BlobsStand
<1>4. CachesFit' BY DEF CachesFit, Extended
<1>5. StoredIsIndexed' BY DEF StoredIsIndexed
<1>6. SameProofOrNone' /\ NoUnfoldingLost' BY DEF SameProofOrNone, NoUnfoldingLost
<1> QED BY <1>2, <1>3, <1>4, <1>5, <1>6

LEMMA UnfoldLoadedKeeps ==
    ASSUME StoreInv, NEW n \in Theorems, UnfoldLoaded(n)
    PROVE  StoreInv'
  BY DEF UnfoldLoaded, Unfoldable, Answer, Extended, policy, StoreInv, StoreTypeOK, EntriesFit,
         BlobsStand, CachesFit, StoredIsIndexed, SameProofOrNone, NoUnfoldingLost, Encoded

\* What is read hashes to the theorem's encoding or is refused, and it is only
\* refused when the file has been damaged or the proof is too deep to be read.
LEMMA UnfoldStoredKeeps ==
    ASSUME StoreInv, NEW n \in Theorems, UnfoldStored(n)
    PROVE  StoreInv'
<1> USE StoreAssumption
<1> DEFINE blob == SubSeq(disk, index[n].offset + 1, index[n].offset + index[n].len)
<1>1. n \in DOMAIN index /\ index[n].hash = Encoded(n) /\ index[n].len = BlobCells
      /\ index[n].offset \in Nat /\ index[n].offset + BlobCells <= Len(disk)
  BY DEF UnfoldStored, StoreInv, EntriesFit
<1>2. faults.damage = 0 => blob = Encoded(n)
  <2> SUFFICES ASSUME faults.damage = 0
               PROVE  blob = Encoded(n)
    OBVIOUS
  <2>1. blob = [k \in 1 .. BlobCells |-> disk[index[n].offset + k]]
    BY <1>1 DEF StoreInv
  <2>2. \A k \in 1 .. BlobCells : disk[index[n].offset + k] = <<n, k>>
    BY <1>1 DEF StoreInv, BlobsStand
  <2> QED BY <2>1, <2>2 DEF Encoded
<1> HIDE DEF blob
<1>3. CASE blob = Encoded(n) /\ n \notin TooDeep
  <2>1. /\ answer' = [name |-> n, res |-> "term", term |-> Encoded(n)]
        /\ cache' = Extended(cache, n, Encoded(n))
        /\ loaded' = Extended(loaded, n, Encoded(n))
    BY <1>1, <1>3 DEF UnfoldStored, Verified, Answer, blob
  <2> USE <2>1 DEF UnfoldStored, policy, StoreInv
  <2>2. StoreTypeOK' BY <1>1 DEF StoreTypeOK, Extended
  <2>3. EntriesFit' /\ BlobsStand' BY DEF EntriesFit, BlobsStand
  <2>4. CachesFit' BY DEF CachesFit, Extended
  <2>5. StoredIsIndexed' BY DEF StoredIsIndexed
  <2>6. SameProofOrNone' /\ NoUnfoldingLost' BY DEF SameProofOrNone, NoUnfoldingLost
  <2> QED BY <2>2, <2>3, <2>4, <2>5, <2>6
<1>4. CASE blob # Encoded(n) \/ n \in TooDeep
  <2>1. /\ answer' = [name |-> n, res |-> "error", term |-> NoTerm]
        /\ UNCHANGED <<cache, loaded>>
    BY <1>1, <1>4 DEF UnfoldStored, Verified, Answer, blob
  <2>2. faults # NoFaults \/ n \in TooDeep
    BY <1>2, <1>4 DEF NoFaults
  <2> QED
    BY <1>1, <2>1, <2>2
       DEF UnfoldStored, policy, StoreInv, StoreTypeOK, EntriesFit, BlobsStand,
           CachesFit, StoredIsIndexed, SameProofOrNone, NoUnfoldingLost, Encoded
<1> QED BY <1>3, <1>4

LEMMA UnfoldUnreadableKeeps ==
    ASSUME StoreInv, NEW n \in Theorems, UnfoldUnreadable(n)
    PROVE  StoreInv'
<1>1. faults' \in FaultCounts /\ faults' # NoFaults
      /\ faults'.damage = faults.damage /\ faults'.write = faults.write
  BY DEF UnfoldUnreadable, StoreInv, FaultCounts, NoFaults
<1> QED
  BY <1>1
     DEF UnfoldUnreadable, Unfoldable, Answer, policy, StoreInv, StoreTypeOK, EntriesFit,
         BlobsStand, CachesFit, StoredIsIndexed, SameProofOrNone, NoUnfoldingLost, Encoded

\* A released proof that is not indexed was stored before a write failed.
LEMMA UnfoldGoneKeeps ==
    ASSUME StoreInv, NEW n \in Theorems, UnfoldGone(n)
    PROVE  StoreInv'
<1>1. n \in stored
  BY DEF UnfoldGone, Unfoldable, StoreInv, NoUnfoldingLost
<1>2. faults.write > 0
  BY <1>1 DEF UnfoldGone, StoreInv, StoredIsIndexed, StoreTypeOK
<1>3. faults # NoFaults
  BY <1>2 DEF NoFaults
<1> QED
  BY <1>3
     DEF UnfoldGone, Unfoldable, Answer, policy, StoreInv, StoreTypeOK, EntriesFit,
         BlobsStand, CachesFit, StoredIsIndexed, SameProofOrNone, NoUnfoldingLost, Encoded

LEMMA DamageKeeps ==
    ASSUME StoreInv, NEW k \in 1 .. BlobCells * Cardinality(Theorems), Damage(k)
    PROVE  StoreInv'
<1> USE StoreAssumption
<1>0. k \in Nat \ {0}
  BY FS_CardinalityType
<1>1. disk' \in Seq(Cells) /\ Len(disk') = Len(disk)
  BY <1>0 DEF Damage, Bad, Cells, StoreInv
<1>2. faults' \in FaultCounts /\ faults'.damage > 0 /\ faults' # NoFaults
      /\ faults'.write = faults.write
  BY DEF Damage, StoreInv, FaultCounts, NoFaults
<1> QED
  BY <1>1, <1>2
     DEF Damage, policy, StoreInv, StoreTypeOK, EntriesFit, BlobsStand,
         CachesFit, StoredIsIndexed, SameProofOrNone, NoUnfoldingLost, Encoded

LEMMA StutterKeeps ==
    ASSUME StoreInv, UNCHANGED storeVars
    PROVE  StoreInv'
<1> USE DEF storeVars, StoreInv
<1>1. StoreTypeOK' BY DEF StoreTypeOK
<1>2. EntriesFit' BY DEF EntriesFit
<1>3. BlobsStand' BY DEF BlobsStand
<1>4. CachesFit' BY DEF CachesFit
<1>5. StoredIsIndexed' BY DEF StoredIsIndexed
<1>6. SameProofOrNone' BY DEF SameProofOrNone
<1>7. NoUnfoldingLost' BY DEF NoUnfoldingLost
<1> QED BY <1>1, <1>2, <1>3, <1>4, <1>5, <1>6, <1>7

LEMMA NextInv == StoreInv /\ [StoreNext]_storeVars => StoreInv'
  BY BeginKeeps, EndKeeps, StoreKeeps, StoreFailsKeeps, ReleaseWithoutStoreKeeps,
     UnfoldAtHandKeeps, UnfoldLoadedKeeps, UnfoldStoredKeeps, UnfoldUnreadableKeeps,
     UnfoldGoneKeeps, DamageKeeps, StutterKeeps DEF StoreNext

-----------------------------------------------------------------------------
(* The theorems.                                                           *)

\* The inductive invariant of the store.
THEOREM InvariantHolds == StoreSpec => []StoreInv
  BY InitInv, NextInv, PTL DEF StoreSpec

\* The store's state is what the code can hold.
THEOREM TypeCorrect == StoreSpec => []StoreTypeOK
<1>1. StoreInv => StoreTypeOK BY DEF StoreInv
<1> QED BY <1>1, InvariantHolds, PTL

\* An unfolded theorem gives the proof that was checked, through both caches
\* and the file, whatever write failed or byte was damaged (ProofStore::load).
THEOREM SameProof == StoreSpec => []SameProofOrNone
<1>1. StoreInv => SameProofOrNone BY DEF StoreInv
<1> QED BY <1>1, InvariantHolds, PTL

\* Without a fault every unfolding of a released proof succeeds unless a level of
\* it is too deep for the reader, and a proof leaves memory only once it has been
\* written whole (release_theorem_value).
THEOREM NothingLost == StoreSpec => []NoUnfoldingLost
<1>1. StoreInv => NoUnfoldingLost BY DEF StoreInv
<1> QED BY <1>1, InvariantHolds, PTL
=============================================================================
