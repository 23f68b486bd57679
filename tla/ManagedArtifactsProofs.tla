---------------------- MODULE ManagedArtifactsProofs ----------------------
(***************************************************************************)
(* Proofs about the managed artifacts, for every number of digests, rows,  *)
(* overlapping uploads and deletions.                                      *)
(***************************************************************************)
EXTENDS ManagedArtifacts, TLAPS

-----------------------------------------------------------------------------
(***************************************************************************)
(* What the slots hold, and what the helpers do to them.                   *)
(***************************************************************************)
UploadSteps == {"storing", "copying", "comparing", "stored"}

\* A busy upload has a digest.
LEMMA UploadShape ==
    ASSUME TypeOK, NEW u \in Uploads, upload[u].step # "idle"
    PROVE  /\ upload[u].digest \in Digests
           /\ upload[u].copied \in BOOLEAN
           /\ upload[u].step \in UploadSteps
  BY DEF TypeOK, Upload, IdleUpload, UploadSteps

LEMMA UploadGoesTyped ==
    ASSUME TypeOK, NEW u \in Uploads, upload[u].step # "idle",
           NEW step \in UploadSteps, NEW copied \in BOOLEAN, UploadGoes(u, step, copied)
    PROVE  /\ upload' \in [Uploads -> Upload]
           /\ upload'[u].step = step /\ upload'[u].copied = copied
           /\ upload'[u].digest = upload[u].digest
           /\ \A v \in Uploads \ {u} : upload'[v] = upload[v]
<1> DEFINE z == [upload[u] EXCEPT !.step = step, !.copied = copied]
<1>1. /\ z \in Upload /\ z.step = step /\ z.copied = copied
      /\ z.digest = upload[u].digest
  <2>1. upload[u] \in [step: UploadSteps, digest: Digests, copied: BOOLEAN]
    BY DEF TypeOK, Upload, IdleUpload, UploadSteps
  <2> QED
    BY <2>1 DEF Upload, UploadSteps
<1>2. upload' = [upload EXCEPT ![u] = z]
  BY DEF UploadGoes, TypeOK
<1> HIDE DEF z
<1> QED
  BY <1>1, <1>2 DEF TypeOK

LEMMA UploadEndsTyped ==
    ASSUME TypeOK, NEW u \in Uploads, UploadEnds(u)
    PROVE  /\ upload' \in [Uploads -> Upload]
           /\ upload'[u] = IdleUpload
           /\ \A v \in Uploads \ {u} : upload'[v] = upload[v]
  BY DEF UploadEnds, TypeOK, Upload

\* A busy deletion has read a row.
LEMMA DeletionShape ==
    ASSUME TypeOK, NEW r \in Deletions, deletion[r].step # "idle"
    PROVE  /\ deletion[r].id \in Ids
           /\ deletion[r].digest \in Digests \cup {NoDigest}
           /\ deletion[r].last \in BOOLEAN
           /\ deletion[r].step \in {"deleted", "removing"} \/ deletion[r].last
                => deletion[r].digest \in Digests
           /\ deletion[r].step \in {"found", "deleted", "checked", "locked", "counted", "removing"}
<1>1. deletion[r] # IdleDeletion
  BY DEF IdleDeletion
<1>2. deletion[r] \in ReadDeletion \cup KeyDeletion
  BY <1>1 DEF TypeOK, Deletion
<1>3. CASE deletion[r] \in ReadDeletion
  BY <1>3 DEF ReadDeletion
<1>4. CASE deletion[r] \in KeyDeletion
  BY <1>4 DEF KeyDeletion
<1> QED
  BY <1>2, <1>3, <1>4

LEMMA DeletionGoesTyped ==
    ASSUME TypeOK, NEW r \in Deletions, deletion[r].step # "idle",
           NEW step \in {"deleted", "locked", "counted", "removing"}, NEW last \in BOOLEAN,
           step \in {"deleted", "removing"} \/ last => deletion[r].digest # NoDigest,
           step \in {"locked"} => ~last,
           DeletionGoes(r, step, last)
    PROVE  /\ deletion' \in [Deletions -> Deletion]
           /\ deletion'[r].step = step /\ deletion'[r].last = last
           /\ deletion'[r].id = deletion[r].id
           /\ deletion'[r].digest = deletion[r].digest
           /\ \A q \in Deletions \ {r} : deletion'[q] = deletion[q]
<1> DEFINE z == [deletion[r] EXCEPT !.step = step, !.last = last]
<1>1. /\ z \in Deletion /\ z.step = step /\ z.last = last
      /\ z.id = deletion[r].id /\ z.digest = deletion[r].digest
  <2>1. deletion[r] \in [step: {"found", "deleted", "checked", "locked", "counted", "removing"},
                         id: Ids, digest: Digests \cup {NoDigest}, last: BOOLEAN]
    <3>1. deletion[r] # IdleDeletion
      BY DEF IdleDeletion
    <3>2. deletion[r] \in ReadDeletion \cup KeyDeletion
      BY <3>1 DEF TypeOK, Deletion
    <3> QED
      BY <3>2 DEF ReadDeletion, KeyDeletion
  <2>2. /\ z \in [step: {step}, id: Ids, digest: {deletion[r].digest}, last: {last}]
        /\ z.step = step /\ z.last = last
        /\ z.id = deletion[r].id /\ z.digest = deletion[r].digest
    BY <2>1
  <2>3. deletion[r].digest \in Digests \cup {NoDigest}
    BY <2>1
  <2> HIDE DEF z
  <2>4. z \in Deletion
    BY <2>2, <2>3 DEF Deletion, ReadDeletion, KeyDeletion
  <2> QED
    BY <2>2, <2>4
<1>2. deletion' = [deletion EXCEPT ![r] = z]
  BY DEF DeletionGoes, TypeOK
<1> HIDE DEF z
<1> QED
  BY <1>1, <1>2 DEF TypeOK

LEMMA DeletionEndsTyped ==
    ASSUME TypeOK, NEW r \in Deletions, DeletionEnds(r)
    PROVE  /\ deletion' \in [Deletions -> Deletion]
           /\ deletion'[r] = IdleDeletion
           /\ \A q \in Deletions \ {r} : deletion'[q] = deletion[q]
  BY DEF DeletionEnds, TypeOK, Deletion

\* Rows are either managed and have a digest, or have none.
LEMMA RowShape ==
    ASSUME TypeOK, NEW a \in Ids
    PROVE  /\ row[a].state \in {"unused", "managed", "reference", "deleted"}
           /\ row[a].copied \in BOOLEAN
           /\ row[a].state = "managed" => row[a].digest \in Digests
           /\ row[a].state # "managed" => row[a].digest = NoDigest /\ ~row[a].copied
           /\ row[a].digest \in Digests \cup {NoDigest}
  BY DEF TypeOK, ArtifactRow

LEMMA DeletionLoadsTyped ==
    ASSUME TypeOK, NEW r \in Deletions, NEW a \in Ids, NEW step \in {"found", "checked"},
           DeletionLoads(r, a, step)
    PROVE  /\ deletion' \in [Deletions -> Deletion]
           /\ deletion'[r].step = step /\ deletion'[r].id = a /\ deletion'[r].last = FALSE
           /\ deletion'[r].digest = row[a].digest
           /\ \A q \in Deletions \ {r} : deletion'[q] = deletion[q]
<1> DEFINE z == [step |-> step, id |-> a, digest |-> row[a].digest, last |-> FALSE]
<1>1. /\ z \in Deletion /\ z.step = step /\ z.id = a /\ z.last = FALSE
      /\ z.digest = row[a].digest
  BY RowShape DEF Deletion, ReadDeletion
<1>2. deletion' = [deletion EXCEPT ![r] = z]
  BY DEF DeletionLoads
<1> HIDE DEF z
<1> QED
  BY <1>1, <1>2 DEF TypeOK

-----------------------------------------------------------------------------
(***************************************************************************)
(* Type correctness.                                                       *)
(***************************************************************************)

\* Writes of a single file or row keep their table typed.
LEMMA FileTyped ==
    ASSUME TypeOK, NEW d \in Digests
    PROVE  /\ file[d] \in Object
           /\ [file EXCEPT ![d] = NoObject] \in [Digests -> Object]
           /\ \A u \in Uploads :
                [file EXCEPT ![d] = [bytes |-> "partial", old |-> FALSE, writer |-> u]]
                  \in [Digests -> Object]
           /\ [file EXCEPT ![d].old = TRUE] \in [Digests -> Object]
           /\ [file EXCEPT ![d].bytes = "whole", ![d].writer = NoUpload] \in [Digests -> Object]
<1>1. file[d] \in Object /\ NoObject \in Object
  BY DEF TypeOK, Object, NoObject
<1>2. \A u \in Uploads : [bytes |-> "partial", old |-> FALSE, writer |-> u] \in Object
  BY DEF Object
<1>3. /\ [file[d] EXCEPT !.old = TRUE] \in Object
      /\ [file[d] EXCEPT !.bytes = "whole", !.writer = NoUpload] \in Object
  BY <1>1 DEF Object
<1> QED
  BY <1>1, <1>2, <1>3 DEF TypeOK

LEMMA RowTyped ==
    ASSUME TypeOK, NEW a \in Ids
    PROVE  /\ [row EXCEPT ![a] = Row("reference", NoDigest, FALSE)] \in [Ids -> ArtifactRow]
           /\ [row EXCEPT ![a] = Row("deleted", NoDigest, FALSE)] \in [Ids -> ArtifactRow]
           /\ \A d \in Digests, copied \in BOOLEAN :
                [row EXCEPT ![a] = Row("managed", d, copied)] \in [Ids -> ArtifactRow]
<1>1. /\ Row("reference", NoDigest, FALSE) \in ArtifactRow
      /\ Row("deleted", NoDigest, FALSE) \in ArtifactRow
      /\ \A d \in Digests, copied \in BOOLEAN : Row("managed", d, copied) \in ArtifactRow
  BY DEF Row, ArtifactRow
<1> QED
  BY <1>1 DEF TypeOK

LEMMA RowDeletedTyped ==
    ASSUME TypeOK, NEW a \in Ids, RowDeleted(a)
    PROVE  row' \in [Ids -> ArtifactRow] /\ evidence' \subseteq Ids
  BY RowTyped DEF RowDeleted, TypeOK

LEMMA InitTyped == Init => TypeOK
<1> SUFFICES ASSUME Init PROVE TypeOK
  OBVIOUS
<1>1. file \in [Digests -> Object]
  BY DEF Init, Object, NoObject
<1>2. row \in [Ids -> ArtifactRow]
  <2>1. Row("unused", NoDigest, FALSE) \in ArtifactRow
    BY DEF Row, ArtifactRow
  <2> QED
    BY <2>1 DEF Init
<1>3. upload \in [Uploads -> Upload] /\ deletion \in [Deletions -> Deletion]
  BY DEF Init, Upload, Deletion
<1>4. prune \in Prune /\ inputs \subseteq Ids /\ evidence \subseteq Ids
  BY DEF Init, Prune, IdlePrune
<1> QED
  BY <1>1, <1>2, <1>3, <1>4 DEF TypeOK

LEMMA UploadTyped ==
    ASSUME TypeOK, NEW u \in Uploads, UploadStep(u)
    PROVE  TypeOK'
<1>1. ASSUME StoreOpen(u) PROVE TypeOK'
  <2>1. upload[u].digest \in Digests /\ upload[u].step # "idle"
    BY <1>1, UploadShape DEF StoreOpen
  <2>2. upload' \in [Uploads -> Upload]
    BY <1>1, <2>1, UploadGoesTyped DEF StoreOpen, UploadSteps
  <2>3. [file EXCEPT ![upload[u].digest] = [bytes |-> "partial", old |-> FALSE, writer |-> u]]
          \in [Digests -> Object]
    BY <2>1, FileTyped, Zenon
  <2>4. file' \in [Digests -> Object]
    BY <1>1, <2>3 DEF StoreOpen, TypeOK
  <2> QED
    BY <1>1, <2>2, <2>4 DEF StoreOpen, TypeOK
<1>2. ASSUME StoreFinish(u) PROVE TypeOK'
  <2>1. upload[u].digest \in Digests /\ upload[u].step # "idle"
    BY <1>2, UploadShape DEF StoreFinish
  <2>2. upload' \in [Uploads -> Upload]
    BY <1>2, <2>1, UploadGoesTyped DEF StoreFinish, UploadSteps
  <2>3. file' \in [Digests -> Object]
    BY <1>2, <2>1, FileTyped DEF StoreFinish, TypeOK
  <2> QED
    BY <1>2, <2>2, <2>3 DEF StoreFinish, TypeOK
<1>3. ASSUME StoreFail(u) PROVE TypeOK'
  <2>1. upload[u].digest \in Digests
    BY <1>3, UploadShape DEF StoreFail
  <2> QED
    BY <1>3, <2>1, UploadEndsTyped, FileTyped DEF StoreFail, TypeOK
<1>4. ASSUME StoreCompare(u) PROVE TypeOK'
  <2>1. upload' \in [Uploads -> Upload]
    BY <1>4, UploadGoesTyped, UploadEndsTyped DEF StoreCompare, UploadSteps
  <2> QED
    BY <1>4, <2>1 DEF StoreCompare, TypeOK
<1>5. ASSUME NEW a \in Ids, CreateRow(u, a) PROVE TypeOK'
  <2>1. upload[u].digest \in Digests /\ upload[u].copied \in BOOLEAN
    BY <1>5, UploadShape DEF CreateRow
  <2>2. row' \in [Ids -> ArtifactRow]
    BY <1>5, <2>1, RowTyped DEF CreateRow
  <2> QED
    BY <1>5, <2>2, UploadEndsTyped DEF CreateRow, TypeOK
<1>6. ASSUME CreateFail(u) PROVE TypeOK'
  BY <1>6, UploadEndsTyped DEF CreateFail, TypeOK
<1> QED
  BY <1>1, <1>2, <1>3, <1>4, <1>5, <1>6 DEF UploadStep

LEMMA DeletionTyped ==
    ASSUME TypeOK, NEW r \in Deletions, DeletionStep(r)
    PROVE  TypeOK'
<1>1. ASSUME DeleteRow(r) PROVE TypeOK'
  <2>1. deletion[r].id \in Ids /\ deletion[r].step # "idle"
    BY <1>1, DeletionShape DEF DeleteRow
  <2>2. deletion' \in [Deletions -> Deletion]
    BY <1>1, <2>1, DeletionGoesTyped, DeletionEndsTyped DEF DeleteRow
  <2>3. row' \in [Ids -> ArtifactRow] /\ evidence' \subseteq Ids
    BY <1>1, <2>1, RowDeletedTyped DEF DeleteRow, TypeOK
  <2> QED
    BY <1>1, <2>2, <2>3 DEF DeleteRow, TypeOK
<1>2. ASSUME DeleteCount(r) PROVE TypeOK'
  <2>1. deletion[r].step # "idle" /\ deletion[r].digest # NoDigest
    BY <1>2, DeletionShape, ArtifactAssumption DEF DeleteCount
  <2>2. deletion' \in [Deletions -> Deletion]
    BY <1>2, <2>1, DeletionGoesTyped, DeletionEndsTyped DEF DeleteCount
  <2> QED
    BY <1>2, <2>2 DEF DeleteCount, TypeOK
<1>3. ASSUME DeleteObject(r) PROVE TypeOK'
  <2>1. deletion[r].digest \in Digests
    BY <1>3, DeletionShape DEF DeleteObject
  <2>2. [file EXCEPT ![deletion[r].digest] = NoObject] \in [Digests -> Object]
    BY <2>1, FileTyped, Zenon
  <2>3. file' \in [Digests -> Object]
    BY <1>3, <2>2 DEF DeleteObject, TypeOK
  <2>4. deletion' \in [Deletions -> Deletion]
    BY <1>3, DeletionEndsTyped DEF DeleteObject
  <2> QED
    BY <1>3, <2>3, <2>4 DEF DeleteObject, TypeOK
<1>4. ASSUME TransactionDelete(r) PROVE TypeOK'
  <2>1. deletion[r].step # "idle"
    BY <1>4 DEF TransactionDelete
  <2>2. deletion' \in [Deletions -> Deletion]
    BY <1>4, <2>1, DeletionGoesTyped, DeletionEndsTyped DEF TransactionDelete
  <2> QED
    BY <1>4, <2>2 DEF TransactionDelete, TypeOK
<1>5. ASSUME TransactionCount(r) PROVE TypeOK'
  <2> DEFINE last == /\ deletion[r].digest # NoDigest
                     /\ Pointing(deletion[r].digest) \subseteq {deletion[r].id}
  <2>1. last \in BOOLEAN /\ (last => deletion[r].digest # NoDigest)
    OBVIOUS
  <2>2. DeletionGoes(r, "counted", last) /\ deletion[r].step # "idle"
    BY <1>5 DEF TransactionCount
  <2> HIDE DEF last
  <2>3. deletion' \in [Deletions -> Deletion]
    BY <2>1, <2>2, DeletionGoesTyped
  <2> QED
    BY <1>5, <2>3 DEF TransactionCount, TypeOK
<1>6. ASSUME TransactionCommit(r) PROVE TypeOK'
  <2>1. deletion[r].id \in Ids /\ deletion[r].step # "idle"
    BY <1>6, DeletionShape DEF TransactionCommit
  <2>2. deletion[r].last => deletion[r].digest # NoDigest
    BY <2>1, DeletionShape, ArtifactAssumption
  <2>3. deletion' \in [Deletions -> Deletion]
    BY <1>6, <2>1, <2>2, DeletionGoesTyped, DeletionEndsTyped DEF TransactionCommit
  <2> QED
    BY <1>6, <2>1, <2>3, RowDeletedTyped DEF TransactionCommit, TypeOK
<1> QED
  BY <1>1, <1>2, <1>3, <1>4, <1>5, <1>6 DEF DeletionStep

LEMMA PruneTyped ==
    ASSUME TypeOK, PruneStep
    PROVE  TypeOK'
<1> IdlePrune \in Prune
  BY DEF IdlePrune, Prune
<1>1. ASSUME PruneBegin PROVE TypeOK'
  <2>1. prune' \in Prune
    BY <1>1 DEF PruneBegin, IdlePrune, Prune
  <2> QED
    BY <1>1, <2>1 DEF PruneBegin, TypeOK
<1>2. ASSUME NEW p \in Prefixes, PruneList(p) PROVE TypeOK'
  <2>1. prune' \in Prune
    BY <1>2 DEF PruneList, Prune, TypeOK
  <2> QED
    BY <1>2, <2>1 DEF PruneList, TypeOK
<1>3. ASSUME NEW d \in Digests, PruneStat(d) PROVE TypeOK'
  <2>1. prune' \in Prune
    BY <1>3 DEF PruneStat, Prune, TypeOK
  <2> QED
    BY <1>3, <2>1 DEF PruneStat, TypeOK
<1>4. ASSUME PruneRemove PROVE TypeOK'
  <2>1. prune.victim \in Digests /\ prune' \in Prune
    BY <1>4 DEF PruneRemove, Prune, TypeOK
  <2> QED
    BY <1>4, <2>1, FileTyped DEF PruneRemove, TypeOK
<1>5. ASSUME PruneEnd PROVE TypeOK'
  BY <1>5 DEF PruneEnd, TypeOK
<1> QED
  BY <1>1, <1>2, <1>3, <1>4, <1>5 DEF PruneStep

LEMMA CrashTyped ==
    ASSUME TypeOK, Crash
    PROVE  TypeOK'
<1>1. \A d \in Digests : [file[d] EXCEPT !.writer = NoUpload] \in Object
  BY DEF TypeOK, Object
<1>2. file' \in [Digests -> Object]
  BY <1>1 DEF Crash
<1>3. upload' \in [Uploads -> Upload] /\ deletion' \in [Deletions -> Deletion]
  BY DEF Crash, Upload, Deletion
<1> QED
  BY <1>2, <1>3 DEF Crash, TypeOK

LEMMA TypeStep == TypeOK /\ [Next]_vars => TypeOK'
<1> SUFFICES ASSUME TypeOK, [Next]_vars PROVE TypeOK'
  OBVIOUS
<1>1. ASSUME NEW u \in Uploads, NEW d \in Digests, UploadBegin(u, d) PROVE TypeOK'
  <2>1. [step |-> "storing", digest |-> d, copied |-> FALSE] \in Upload
    BY DEF Upload
  <2> QED
    BY <1>1, <2>1 DEF UploadBegin, TypeOK
<1>2. ASSUME NEW r \in Deletions, NEW a \in Ids, DeleteFind(r, a) \/ TransactionCheck(r, a)
      PROVE TypeOK'
  BY <1>2, DeletionLoadsTyped DEF DeleteFind, TransactionCheck, TypeOK
<1>3. ASSUME NEW a \in Ids, RegisterReference(a) PROVE TypeOK'
  BY <1>3, RowTyped DEF RegisterReference, TypeOK
<1>4. ASSUME NEW a \in Attachable, Attach(a) \/ Detach(a) PROVE TypeOK'
  BY <1>4, ArtifactAssumption DEF Attach, Detach, TypeOK
<1>5. ASSUME NEW d \in Digests, Age(d) PROVE TypeOK'
  BY <1>5, FileTyped DEF Age, TypeOK
<1>6. CASE UNCHANGED vars
  BY <1>6 DEF vars, TypeOK
<1> QED
  BY <1>1, <1>2, <1>3, <1>4, <1>5, <1>6, UploadTyped, DeletionTyped, PruneTyped, CrashTyped
  DEF Next

\* Type correctness: every upload and deletion holds what its step has read,
\* and a deletion that will remove bytes has a key, whatever overlaps it.
THEOREM TypeCorrect == Spec => []TypeOK
  BY InitTyped, TypeStep, PTL DEF Spec

-----------------------------------------------------------------------------
(***************************************************************************)
(* Locks: whatever overlaps, a transaction that has deleted its row keeps  *)
(* it until it commits.                                                    *)
(***************************************************************************)
Holds(r) == deletion[r].step \in {"locked", "counted"}

LocksHold ==
    \A r \in Deletions :
        Holds(r) => /\ Present(deletion[r].id)
                    /\ \A q \in Deletions :
                         Holds(q) /\ deletion[q].id = deletion[r].id => q = r

LEMMA LocksUndisturbed ==
    ASSUME TypeOK, LocksHold, UNCHANGED deletion,
           \A a \in Ids : Present(a) => Present(a)'
    PROVE  LocksHold'
  BY DeletionShape DEF LocksHold, Holds

LEMMA RowDeletedShrinks ==
    ASSUME TypeOK, NEW a \in Ids, RowDeleted(a)
    PROVE  /\ \A b \in Ids \ {a} : row'[b] = row[b]
           /\ row'[a].state = "deleted" /\ row'[a].digest = NoDigest
           /\ \A d : Pointing(d)' = Pointing(d) \ {a}
<1>1. /\ \A b \in Ids \ {a} : row'[b] = row[b]
      /\ row'[a].state = "deleted" /\ row'[a].digest = NoDigest
  BY DEF RowDeleted, Row, TypeOK
<1> QED
  BY <1>1 DEF Pointing

\* What each step of a deletion does to its slot.
Others(r) == \A q \in Deletions \ {r} : deletion'[q] = deletion[q]

Keeps(r) == deletion'[r].id = deletion[r].id /\ deletion'[r].digest = deletion[r].digest

LEMMA DeleteRowEffect ==
    ASSUME TypeOK, NEW r \in Deletions, DeleteRow(r)
    PROVE  /\ Others(r)
           /\ deletion'[r].step = "idle" \/ (deletion'[r].step = "deleted" /\ Keeps(r))
<1>1. /\ deletion[r].step # "idle"
      /\ \/ deletion[r].digest # NoDigest /\ DeletionGoes(r, "deleted", FALSE)
         \/ DeletionEnds(r)
  BY DEF DeleteRow
<1>2. CASE deletion[r].digest # NoDigest /\ DeletionGoes(r, "deleted", FALSE)
  BY <1>1, <1>2, DeletionGoesTyped DEF Others, Keeps
<1>3. CASE DeletionEnds(r)
  BY <1>3, DeletionEndsTyped DEF Others, IdleDeletion
<1> QED
  BY <1>1, <1>2, <1>3

LEMMA DeleteCountEffect ==
    ASSUME TypeOK, NEW r \in Deletions, DeleteCount(r)
    PROVE  /\ Others(r)
           /\ \/ deletion'[r].step = "idle"
              \/ /\ deletion'[r].step = "removing" /\ Keeps(r)
                 /\ Pointing(deletion[r].digest) = {}
<1>1. /\ deletion[r].step # "idle" /\ deletion[r].digest # NoDigest
      /\ \/ DeletionGoes(r, "removing", TRUE) /\ Pointing(deletion[r].digest) = {}
         \/ DeletionEnds(r)
  BY DeletionShape, ArtifactAssumption DEF DeleteCount
<1>2. CASE DeletionGoes(r, "removing", TRUE) /\ Pointing(deletion[r].digest) = {}
  BY <1>1, <1>2, DeletionGoesTyped DEF Others, Keeps
<1>3. CASE DeletionEnds(r)
  BY <1>3, DeletionEndsTyped DEF Others, IdleDeletion
<1> QED
  BY <1>1, <1>2, <1>3

LEMMA TransactionDeleteEffect ==
    ASSUME TypeOK, NEW r \in Deletions, TransactionDelete(r)
    PROVE  /\ Others(r)
           /\ \/ deletion'[r].step = "idle"
              \/ /\ deletion'[r].step = "locked" /\ Keeps(r)
                 /\ Present(deletion[r].id)
<1>1. /\ deletion[r].step # "idle"
      /\ \/ DeletionGoes(r, "locked", FALSE) /\ Present(deletion[r].id)
         \/ DeletionEnds(r)
  BY DEF TransactionDelete
<1>2. CASE DeletionGoes(r, "locked", FALSE) /\ Present(deletion[r].id)
  BY <1>1, <1>2, DeletionGoesTyped DEF Others, Keeps
<1>3. CASE DeletionEnds(r)
  BY <1>3, DeletionEndsTyped DEF Others, IdleDeletion
<1> QED
  BY <1>1, <1>2, <1>3

LEMMA TransactionCountEffect ==
    ASSUME TypeOK, NEW r \in Deletions, TransactionCount(r)
    PROVE  /\ Others(r)
           /\ deletion'[r].step = "counted" /\ Keeps(r)
           /\ deletion'[r].last => Pointing(deletion[r].digest) \subseteq {deletion[r].id}
<1> DEFINE last == /\ deletion[r].digest # NoDigest
                   /\ Pointing(deletion[r].digest) \subseteq {deletion[r].id}
<1>1. /\ last \in BOOLEAN
      /\ last => /\ deletion[r].digest # NoDigest
                 /\ Pointing(deletion[r].digest) \subseteq {deletion[r].id}
  OBVIOUS
<1>2. DeletionGoes(r, "counted", last) /\ deletion[r].step # "idle"
  BY DEF TransactionCount
<1> HIDE DEF last
<1> QED
  BY <1>1, <1>2, DeletionGoesTyped DEF Others, Keeps

LEMMA TransactionCommitEffect ==
    ASSUME TypeOK, NEW r \in Deletions, TransactionCommit(r)
    PROVE  /\ Others(r)
           /\ \/ deletion'[r].step = "idle"
              \/ /\ deletion'[r].step = "removing" /\ Keeps(r)
                 /\ deletion[r].last
<1>1. deletion[r].step # "idle"
  BY DEF TransactionCommit
<1>2. /\ deletion[r].last => deletion[r].digest # NoDigest
      /\ \/ DeletionGoes(r, "removing", TRUE) /\ deletion[r].last
         \/ DeletionEnds(r)
  BY <1>1, DeletionShape, ArtifactAssumption DEF TransactionCommit
<1>3. CASE DeletionGoes(r, "removing", TRUE) /\ deletion[r].last
  BY <1>1, <1>2, <1>3, DeletionGoesTyped DEF Others, Keeps
<1>4. CASE DeletionEnds(r)
  BY <1>4, DeletionEndsTyped DEF Others, IdleDeletion
<1> QED
  BY <1>2, <1>3, <1>4

LEMMA LocksStep == TypeOK /\ LocksHold /\ [Next]_vars => LocksHold'
<1> SUFFICES ASSUME TypeOK, LocksHold, [Next]_vars PROVE LocksHold'
  OBVIOUS
<1>1. ASSUME NEW u \in Uploads, NEW a \in Ids, CreateRow(u, a) PROVE LocksHold'
  <2>1. \A b \in Ids : Present(b) => Present(b)'
    BY <1>1 DEF CreateRow, Present, Row, TypeOK
  <2> QED
    BY <1>1, <2>1, LocksUndisturbed DEF CreateRow
<1>2. ASSUME NEW a \in Ids, RegisterReference(a) PROVE LocksHold'
  <2>1. \A b \in Ids : Present(b) => Present(b)'
    BY <1>2 DEF RegisterReference, Present, Row, TypeOK
  <2> QED
    BY <1>2, <2>1, LocksUndisturbed DEF RegisterReference
<1>3. ASSUME UNCHANGED <<row, deletion>> PROVE LocksHold'
  BY <1>3, LocksUndisturbed DEF Present
<1>4. ASSUME NEW r \in Deletions, NEW a \in Ids, DeleteFind(r, a) \/ TransactionCheck(r, a)
      PROVE LocksHold'
  <2>1. /\ deletion'[r].step \in {"found", "checked"} /\ row' = row
        /\ \A q \in Deletions \ {r} : deletion'[q] = deletion[q]
    BY <1>4, DeletionLoadsTyped DEF DeleteFind, TransactionCheck
  <2> QED
    BY <2>1 DEF LocksHold, Holds, Present
<1>5. ASSUME NEW r \in Deletions, DeleteRow(r) PROVE LocksHold'
  <2>1. deletion[r].id \in Ids /\ deletion[r].step # "idle"
    BY <1>5, DeletionShape DEF DeleteRow
  <2>2. Others(r) /\ deletion'[r].step \in {"idle", "deleted"}
    BY <1>5, DeleteRowEffect
  <2>3. \A b \in Ids : Present(b) /\ Locked(b) => Present(b)'
    BY <1>5, <2>1, RowDeletedShrinks DEF DeleteRow, Present
  <2>4. \A q \in Deletions : Holds(q)' => /\ Holds(q) /\ q # r /\ deletion[q].id \in Ids
                                         /\ Locked(deletion[q].id)
    BY <2>2, DeletionShape DEF Holds, Locked, Others
  <2> QED
    BY <2>2, <2>3, <2>4 DEF LocksHold, Others
<1>6. ASSUME NEW r \in Deletions, DeleteCount(r) PROVE LocksHold'
  <2>1. Others(r) /\ deletion'[r].step \in {"idle", "removing"} /\ row' = row
    BY <1>6, DeleteCountEffect DEF DeleteCount
  <2> QED
    BY <2>1 DEF LocksHold, Holds, Present, Others
<1>7. ASSUME NEW r \in Deletions, DeleteObject(r) PROVE LocksHold'
  <2>1. /\ deletion'[r].step = "idle" /\ row' = row
        /\ \A q \in Deletions \ {r} : deletion'[q] = deletion[q]
    BY <1>7, DeletionEndsTyped DEF DeleteObject, IdleDeletion
  <2> QED
    BY <2>1 DEF LocksHold, Holds, Present
<1>8. ASSUME NEW r \in Deletions, TransactionDelete(r) PROVE LocksHold'
  <2>1. deletion[r].id \in Ids /\ deletion[r].step # "idle" /\ row' = row
    BY <1>8, DeletionShape DEF TransactionDelete
  <2>2. /\ Others(r)
        /\ \/ deletion'[r].step = "idle"
           \/ deletion'[r].step = "locked" /\ Keeps(r) /\ Present(deletion[r].id)
    BY <1>8, TransactionDeleteEffect
  <2>3. \A q \in Deletions : Holds(q) => deletion[q].id # deletion[r].id
    BY <1>8 DEF TransactionDelete, Locked, Holds
  <2> QED
    BY <2>1, <2>2, <2>3 DEF LocksHold, Holds, Present, Others, Keeps
<1>9. ASSUME NEW r \in Deletions, TransactionCount(r) PROVE LocksHold'
  <2>1. Holds(r) /\ row' = row
    BY <1>9 DEF TransactionCount, Holds
  <2>2. Others(r) /\ Keeps(r)
    BY <1>9, TransactionCountEffect
  <2> QED
    BY <2>1, <2>2 DEF LocksHold, Holds, Present, Others, Keeps
<1>10. ASSUME NEW r \in Deletions, TransactionCommit(r) PROVE LocksHold'
  <2>1. deletion[r].id \in Ids /\ deletion[r].step # "idle" /\ Holds(r)
    BY <1>10, DeletionShape DEF TransactionCommit, Holds
  <2>2. Others(r) /\ deletion'[r].step \in {"idle", "removing"}
    BY <1>10, TransactionCommitEffect
  <2>3. \A b \in Ids \ {deletion[r].id} : Present(b) => Present(b)'
    BY <1>10, <2>1, RowDeletedShrinks DEF TransactionCommit, Present
  <2>4. \A q \in Deletions : Holds(q)' => /\ Holds(q) /\ q # r
                                         /\ deletion[q].id \in Ids \ {deletion[r].id}
    BY <2>1, <2>2, DeletionShape DEF Holds, LocksHold, Others
  <2> QED
    BY <2>2, <2>3, <2>4 DEF LocksHold, Others
<1>11. CASE Crash
  BY <1>11 DEF Crash, LocksHold, Holds, IdleDeletion
<1> QED
  <2>1. ASSUME NEW u \in Uploads, UploadStep(u) PROVE LocksHold'
    BY <2>1, <1>1, <1>3 DEF UploadStep, StoreOpen, StoreFinish, StoreFail, StoreCompare, CreateFail
  <2>2. ASSUME NEW r \in Deletions, DeletionStep(r) PROVE LocksHold'
    BY <2>2, <1>5, <1>6, <1>7, <1>8, <1>9, <1>10 DEF DeletionStep
  <2>3. ASSUME PruneStep PROVE LocksHold'
    BY <2>3, <1>3 DEF PruneStep, PruneBegin, PruneList, PruneStat, PruneRemove, PruneEnd
  <2>4. ASSUME \/ \E u \in Uploads, d \in Digests : UploadBegin(u, d)
               \/ \E a \in Attachable : Attach(a) \/ Detach(a)
               \/ \E d \in Digests : Age(d)
               \/ UNCHANGED vars
        PROVE  LocksHold'
    BY <2>4, <1>3 DEF UploadBegin, Attach, Detach, Age, vars
  <2> QED
    BY <1>2, <1>4, <1>11, <2>1, <2>2, <2>3, <2>4 DEF Next

-----------------------------------------------------------------------------
(***************************************************************************)
(* Uploads apart from prunings and from deletions of the same bytes.  That *)
(* every row has its bytes is not inductive: bytes are stored, counted or  *)
(* listed several steps before the insert or the removal relies on it.     *)
(***************************************************************************)

\* What an upload has stored stays until its row exists.
InFlight ==
    \A u \in Uploads :
        /\ upload[u].step = "copying" => /\ file[upload[u].digest].bytes = "partial"
                                         /\ file[upload[u].digest].writer = u
        /\ upload[u].step = "stored" => file[upload[u].digest].bytes = "whole"

\* What a deletion will remove, no row but its own points at.
RemovalSafe ==
    \A r \in Deletions :
        /\ deletion[r].step = "removing" => Pointing(deletion[r].digest) = {}
        /\ deletion[r].step = "counted" /\ deletion[r].last
             => Pointing(deletion[r].digest) \subseteq {deletion[r].id}

\* What a pruning may remove, no row points at.
PruneSafe ==
    /\ prune.step = "idle" => prune = IdlePrune
    /\ prune.step = "scanning" => \A d \in Digests \ prune.kept : Pointing(d) = {}
    /\ prune.entries \cap prune.kept = {}
    /\ prune.victim \notin prune.kept

ApartInv == RowsHaveBytes /\ InFlight /\ RemovalSafe /\ PruneSafe

LEMMA ApartInit == Init => ApartInv
  BY DEF Init, ApartInv, RowsHaveBytes, InFlight, RemovalSafe, PruneSafe, Row, IdleUpload,
         IdleDeletion, IdlePrune

\* While nothing points at more rows, removals and prunings stay safe.
LEMMA RemovalUndisturbed ==
    ASSUME RemovalSafe, UNCHANGED deletion, \A d : Pointing(d)' \subseteq Pointing(d)
    PROVE  RemovalSafe'
  BY DEF RemovalSafe

LEMMA PruneUndisturbed ==
    ASSUME PruneSafe, UNCHANGED prune, \A d : Pointing(d)' \subseteq Pointing(d)
    PROVE  PruneSafe'
  BY DEF PruneSafe, IdlePrune

LEMMA SamePointing ==
    ASSUME UNCHANGED row
    PROVE  \A d : Pointing(d)' \subseteq Pointing(d)
  BY DEF Pointing

\* Removing bytes nothing points at, and no upload relies on.
LEMMA RemoveUnreferenced ==
    ASSUME TypeOK, RowsHaveBytes, InFlight, NEW d \in Digests, Pointing(d) = {},
           \A u \in Uploads : upload[u].step = "idle" \/ upload[u].digest # d,
           file' = [file EXCEPT ![d] = NoObject], UNCHANGED <<row, upload>>
    PROVE  RowsHaveBytes' /\ InFlight'
<1>1. \A e \in Digests \ {d} : file'[e] = file[e]
  BY DEF TypeOK
<1>2. \A a \in Ids : row[a].state = "managed" => row[a].digest \in Digests \ {d}
  BY RowShape DEF Pointing
<1>3. \A u \in Uploads : upload[u].step # "idle" => upload[u].digest \in Digests \ {d}
  BY UploadShape
<1>4. RowsHaveBytes'
  BY <1>1, <1>2 DEF RowsHaveBytes
<1>5. InFlight'
  BY <1>1, <1>3 DEF InFlight
<1> QED
  BY <1>4, <1>5

LEMMA ApartUpload ==
    ASSUME TypeOK, ApartInv, Apart, NEW u \in Uploads, UploadStep(u)
    PROVE  ApartInv'
<1> USE DEF ApartInv
<1> DEFINE d == upload[u].digest
<1>1. /\ upload[u].step # "idle" /\ d \in Digests /\ upload[u].copied \in BOOLEAN
      /\ prune.step = "idle"
      /\ \A r \in Deletions : deletion[r].step # "idle" => deletion[r].digest # d
  BY UploadShape
  DEF UploadStep, StoreOpen, StoreFinish, StoreFail, StoreCompare, CreateRow, CreateFail, Apart
<1>2. \A v \in Uploads : upload[v].step # "idle" => upload[v].digest \in Digests
  BY UploadShape
<1>3. ASSUME UNCHANGED <<row, deletion, prune>> PROVE RemovalSafe' /\ PruneSafe'
  BY <1>3, RemovalUndisturbed, PruneUndisturbed, SamePointing
<1>4. ASSUME StoreOpen(u), file[d].bytes = "none" PROVE ApartInv'
  <2>1. /\ file'[d].bytes = "partial" /\ file'[d].writer = u
        /\ \A e \in Digests \ {d} : file'[e] = file[e]
    BY <1>1, <1>4 DEF StoreOpen, TypeOK
  <2>2. /\ upload'[u].step = "copying" /\ upload'[u].digest = d
        /\ \A v \in Uploads \ {u} : upload'[v] = upload[v]
    BY <1>1, <1>4, UploadGoesTyped DEF StoreOpen, UploadSteps
  <2>3. RowsHaveBytes'
    BY <1>4, <2>1, RowShape DEF StoreOpen, RowsHaveBytes
  <2>4. InFlight'
    BY <1>2, <1>4, <2>1, <2>2 DEF InFlight
  <2> QED
    BY <1>3, <1>4, <2>3, <2>4 DEF StoreOpen
<1>5. ASSUME StoreOpen(u), file[d].bytes # "none" PROVE ApartInv'
  <2>1. /\ upload'[u].step = "comparing"
        /\ \A v \in Uploads \ {u} : upload'[v] = upload[v]
        /\ UNCHANGED <<file, row, deletion, prune>>
    BY <1>1, <1>5, UploadGoesTyped DEF StoreOpen, UploadSteps
  <2>2. RowsHaveBytes' /\ InFlight'
    BY <2>1 DEF RowsHaveBytes, InFlight
  <2> QED
    BY <1>3, <2>1, <2>2
<1>6. ASSUME StoreFinish(u) PROVE ApartInv'
  <2>1. /\ file'[d].bytes = "whole"
        /\ \A e \in Digests \ {d} : file'[e] = file[e]
    BY <1>1, <1>6 DEF StoreFinish, TypeOK, InFlight
  <2>2. /\ upload'[u].step = "stored" /\ upload'[u].digest = d
        /\ \A v \in Uploads \ {u} : upload'[v] = upload[v]
    BY <1>1, <1>6, UploadGoesTyped DEF StoreFinish, UploadSteps
  <2>3. file[d].writer = u /\ file[d].bytes = "partial"
    BY <1>6 DEF StoreFinish, InFlight
  <2>4. RowsHaveBytes'
    BY <1>6, <2>1, RowShape DEF StoreFinish, RowsHaveBytes
  <2>5. InFlight'
    BY <1>2, <2>1, <2>2, <2>3 DEF InFlight
  <2> QED
    BY <1>3, <1>6, <2>4, <2>5 DEF StoreFinish
<1>7. ASSUME StoreFail(u) PROVE ApartInv'
  <2>1. \A e \in Digests \ {d} : file'[e] = file[e]
    BY <1>7 DEF StoreFail, TypeOK
  <2>2. /\ upload'[u].step = "idle"
        /\ \A v \in Uploads \ {u} : upload'[v] = upload[v]
    BY <1>7, UploadEndsTyped DEF StoreFail, IdleUpload
  <2>3. file[d].writer = u /\ file[d].bytes = "partial"
    BY <1>7 DEF StoreFail, InFlight
  <2>4. RowsHaveBytes'
    BY <1>7, <2>1, <2>3, RowShape DEF StoreFail, RowsHaveBytes
  <2>5. InFlight'
    BY <1>2, <2>1, <2>2, <2>3 DEF InFlight
  <2> QED
    BY <1>3, <1>7, <2>4, <2>5 DEF StoreFail
<1>8. ASSUME StoreCompare(u) PROVE ApartInv'
  <2>1. /\ UNCHANGED <<file, row, deletion, prune>>
        /\ \/ UploadGoes(u, "stored", FALSE) /\ file[d].bytes = "whole"
           \/ UploadEnds(u)
    BY <1>8 DEF StoreCompare
  <2>2. CASE UploadGoes(u, "stored", FALSE) /\ file[d].bytes = "whole"
    <3>1. /\ upload'[u].step = "stored" /\ upload'[u].digest = d
          /\ \A v \in Uploads \ {u} : upload'[v] = upload[v]
      BY <1>1, <2>2, UploadGoesTyped DEF UploadSteps
    <3> QED
      BY <2>1, <2>2, <3>1, <1>3 DEF RowsHaveBytes, InFlight
  <2>3. CASE UploadEnds(u)
    <3>1. /\ upload'[u].step = "idle"
          /\ \A v \in Uploads \ {u} : upload'[v] = upload[v]
      BY <2>3, UploadEndsTyped DEF IdleUpload
    <3> QED
      BY <2>1, <3>1, <1>3 DEF RowsHaveBytes, InFlight
  <2> QED
    BY <2>1, <2>2, <2>3
<1>9. ASSUME NEW a \in Ids, CreateRow(u, a) PROVE ApartInv'
  <2>1. /\ row'[a].state = "managed" /\ row'[a].digest = d
        /\ \A b \in Ids \ {a} : row'[b] = row[b]
        /\ UNCHANGED <<file, deletion, prune>> /\ file[d].bytes = "whole"
    BY <1>9 DEF CreateRow, Row, TypeOK, InFlight
  <2>2. /\ upload'[u].step = "idle"
        /\ \A v \in Uploads \ {u} : upload'[v] = upload[v]
    BY <1>9, UploadEndsTyped DEF CreateRow, IdleUpload
  <2>3. \A e : e # d => Pointing(e)' \subseteq Pointing(e)
    BY <2>1 DEF Pointing
  <2>4. RowsHaveBytes' /\ InFlight'
    BY <2>1, <2>2 DEF RowsHaveBytes, InFlight
  <2>5. RemovalSafe'
    BY <1>1, <2>1, <2>3 DEF RemovalSafe
  <2>6. PruneSafe'
    BY <1>1, <2>1 DEF PruneSafe, IdlePrune
  <2> QED
    BY <2>4, <2>5, <2>6
<1>10. ASSUME CreateFail(u) PROVE ApartInv'
  <2>1. /\ upload'[u].step = "idle"
        /\ \A v \in Uploads \ {u} : upload'[v] = upload[v]
        /\ UNCHANGED <<file, row, deletion, prune>>
    BY <1>10, UploadEndsTyped DEF CreateFail, IdleUpload
  <2> QED
    BY <2>1, <1>3 DEF RowsHaveBytes, InFlight
<1> QED
  BY <1>4, <1>5, <1>6, <1>7, <1>8, <1>9, <1>10 DEF UploadStep

\* Steps that leave files, uploads and the pruning alone and add no row.
LEMMA ApartRows ==
    ASSUME TypeOK, ApartInv, UNCHANGED <<file, upload, prune>>,
           \A a \in Ids : row'[a].state = "managed" => row'[a] = row[a]
    PROVE  /\ RowsHaveBytes' /\ InFlight' /\ PruneSafe'
           /\ \A d : Pointing(d)' \subseteq Pointing(d)
<1>1. \A d : Pointing(d)' \subseteq Pointing(d)
  BY DEF Pointing
<1>2. RowsHaveBytes' /\ InFlight'
  BY DEF ApartInv, RowsHaveBytes, InFlight
<1> QED
  BY <1>1, <1>2, PruneUndisturbed DEF ApartInv

LEMMA ApartDeletion ==
    ASSUME TypeOK, ApartInv, Apart, NEW r \in Deletions, DeletionStep(r)
    PROVE  ApartInv'
<1> USE DEF ApartInv
<1>1. ASSUME DeleteRow(r) PROVE ApartInv'
  <2>1. deletion[r].id \in Ids
    BY <1>1, DeletionShape DEF DeleteRow
  <2>2. \A a \in Ids : row'[a].state = "managed" => row'[a] = row[a]
    BY <1>1, <2>1, RowDeletedShrinks DEF DeleteRow
  <2>3. /\ RowsHaveBytes' /\ InFlight' /\ PruneSafe'
        /\ \A d : Pointing(d)' \subseteq Pointing(d)
    BY <1>1, <2>2, ApartRows DEF DeleteRow
  <2>4. RemovalSafe'
    BY <1>1, <2>3, DeleteRowEffect DEF RemovalSafe, Others
  <2> QED
    BY <2>3, <2>4
<1>2. ASSUME DeleteCount(r) PROVE ApartInv'
  <2>1. /\ RowsHaveBytes' /\ InFlight' /\ PruneSafe'
        /\ \A d : Pointing(d)' \subseteq Pointing(d)
    BY <1>2, ApartRows DEF DeleteCount
  <2>2. RemovalSafe'
    BY <1>2, <2>1, DeleteCountEffect DEF RemovalSafe, Others, Keeps
  <2> QED
    BY <2>1, <2>2
<1>3. ASSUME DeleteObject(r) PROVE ApartInv'
  <2> DEFINE d == deletion[r].digest
  <2>1. /\ d \in Digests /\ Pointing(d) = {}
        /\ \A u \in Uploads : upload[u].step = "idle" \/ upload[u].digest # d
    BY <1>3, DeletionShape DEF DeleteObject, RemovalSafe, Apart
  <2>2. UNCHANGED <<row, upload, prune>>
    BY <1>3 DEF DeleteObject
  <2>3. RowsHaveBytes' /\ InFlight'
    <3>1. CASE file' = [file EXCEPT ![d] = NoObject]
      BY <2>1, <2>2, <3>1, RemoveUnreferenced
    <3>2. CASE UNCHANGED file
      BY <2>2, <3>2 DEF RowsHaveBytes, InFlight
    <3> QED
      BY <1>3, <3>1, <3>2 DEF DeleteObject
  <2>4. PruneSafe'
    BY <2>2, PruneUndisturbed, SamePointing
  <2>5. RemovalSafe'
    <3>1. Others(r) /\ deletion'[r].step = "idle"
      BY <1>3, DeletionEndsTyped DEF DeleteObject, IdleDeletion, Others
    <3> QED
      BY <2>2, <3>1, SamePointing DEF RemovalSafe, Others
  <2> QED
    BY <2>3, <2>4, <2>5
<1>4. ASSUME TransactionDelete(r) PROVE ApartInv'
  <2>1. /\ RowsHaveBytes' /\ InFlight' /\ PruneSafe'
        /\ \A d : Pointing(d)' \subseteq Pointing(d)
    BY <1>4, ApartRows DEF TransactionDelete
  <2>2. RemovalSafe'
    BY <1>4, <2>1, TransactionDeleteEffect DEF RemovalSafe, Others
  <2> QED
    BY <2>1, <2>2
<1>5. ASSUME TransactionCount(r) PROVE ApartInv'
  <2>1. /\ RowsHaveBytes' /\ InFlight' /\ PruneSafe'
        /\ \A d : Pointing(d)' \subseteq Pointing(d)
    BY <1>5, ApartRows DEF TransactionCount
  <2>2. RemovalSafe'
    BY <1>5, <2>1, TransactionCountEffect DEF RemovalSafe, Others, Keeps
  <2> QED
    BY <2>1, <2>2
<1>6. ASSUME TransactionCommit(r) PROVE ApartInv'
  <2>1. deletion[r].id \in Ids /\ RowDeleted(deletion[r].id) /\ deletion[r].step = "counted"
    BY <1>6, DeletionShape DEF TransactionCommit
  <2>2. \A d : Pointing(d)' = Pointing(d) \ {deletion[r].id}
    BY <2>1, RowDeletedShrinks
  <2>3. \A a \in Ids : row'[a].state = "managed" => row'[a] = row[a]
    BY <2>1, RowDeletedShrinks
  <2>4. RowsHaveBytes' /\ InFlight' /\ PruneSafe'
    BY <1>6, <2>3, ApartRows DEF TransactionCommit
  <2>5. RemovalSafe'
    BY <1>6, <2>1, <2>2, TransactionCommitEffect DEF RemovalSafe, Others, Keeps
  <2> QED
    BY <2>4, <2>5
<1> QED
  BY <1>1, <1>2, <1>3, <1>4, <1>5, <1>6 DEF DeletionStep

LEMMA ApartPrune ==
    ASSUME TypeOK, ApartInv, Apart, PruneStep
    PROVE  ApartInv'
<1> USE DEF ApartInv
<1>1. ASSUME UNCHANGED <<file, row, upload, deletion>>
      PROVE  RowsHaveBytes' /\ InFlight' /\ RemovalSafe'
  BY <1>1, RemovalUndisturbed, SamePointing DEF RowsHaveBytes, InFlight
<1>2. UNCHANGED row
  BY DEF PruneStep, PruneBegin, PruneList, PruneStat, PruneRemove, PruneEnd
<1>3. \A d : Pointing(d)' = Pointing(d)
  BY <1>2 DEF Pointing
<1>4. /\ prune \in Prune /\ NoDigest \notin Digests
      /\ prune.victim # NoDigest => prune.step = "scanning"
      /\ prune.entries # {} => prune.step = "scanning"
      /\ prune.left # {} => prune.step = "scanning"
  BY ArtifactAssumption DEF TypeOK, Prune, PruneSafe, IdlePrune
<1>5. ASSUME PruneBegin PROVE ApartInv'
  <2>1. /\ prune'.step = "scanning" /\ prune'.entries = {} /\ prune'.victim = NoDigest
        /\ prune'.kept = {d \in Digests : Pointing(d) # {}}
    BY <1>5 DEF PruneBegin, IdlePrune
  <2>2. PruneSafe'
    BY <1>3, <1>4, <2>1 DEF PruneSafe
  <2> QED
    BY <1>1, <1>5, <2>2 DEF PruneBegin
<1>6. ASSUME NEW p \in Prefixes, PruneList(p) PROVE ApartInv'
  <2>1. /\ prune'.step = "scanning" /\ prune'.victim = prune.victim
        /\ prune'.kept = prune.kept /\ prune'.entries \subseteq Digests \ prune.kept
    BY <1>4, <1>6 DEF PruneList, Prune
  <2>2. PruneSafe'
    BY <1>3, <1>4, <1>6, <2>1 DEF PruneSafe, PruneList
  <2> QED
    BY <1>1, <1>6, <2>2 DEF PruneList
<1>7. ASSUME NEW d \in Digests, PruneStat(d) PROVE ApartInv'
  <2>1. CASE file[d].bytes = "none"
    <3>1. PruneSafe'
      BY <1>7, <2>1, <1>3 DEF PruneStat, PruneSafe, IdlePrune
    <3> QED
      BY <1>1, <1>7, <3>1 DEF PruneStat
  <2>2. CASE file[d].bytes # "none"
    <3>1. /\ prune'.step = "scanning" /\ prune'.kept = prune.kept
          /\ prune'.entries \subseteq prune.entries /\ prune'.victim \in {d, NoDigest}
          /\ d \in prune.entries
      BY <1>4, <1>7, <2>2 DEF PruneStat, Prune
    <3>2. PruneSafe'
      BY <1>3, <1>4, <3>1 DEF PruneSafe, Prune
    <3> QED
      BY <1>1, <1>7, <3>2 DEF PruneStat
  <2> QED
    BY <2>1, <2>2
<1>8. ASSUME PruneRemove PROVE ApartInv'
  <2> DEFINE d == prune.victim
  <2>1. /\ prune.step = "scanning" /\ d \in Digests \ prune.kept /\ Pointing(d) = {}
        /\ \A u \in Uploads : upload[u].step = "idle"
    BY <1>4, <1>8 DEF PruneRemove, PruneSafe, Prune, Apart
  <2>2. RowsHaveBytes' /\ InFlight'
    BY <1>8, <2>1, RemoveUnreferenced DEF PruneRemove
  <2>3. RemovalSafe'
    BY <1>8, RemovalUndisturbed, SamePointing DEF PruneRemove
  <2>4. /\ prune'.step = "scanning" /\ prune'.kept = prune.kept
        /\ prune'.entries = prune.entries /\ prune'.victim = NoDigest
    BY <1>4, <1>8, <2>1 DEF PruneRemove, Prune
  <2>5. PruneSafe'
    BY <1>3, <1>4, <2>4, <2>1 DEF PruneSafe, Prune
  <2> QED
    BY <2>2, <2>3, <2>5
<1>9. ASSUME PruneEnd PROVE ApartInv'
  <2>1. PruneSafe'
    BY <1>9, <1>3 DEF PruneEnd, PruneSafe, IdlePrune
  <2> QED
    BY <1>1, <1>9, <2>1 DEF PruneEnd
<1> QED
  BY <1>5, <1>6, <1>7, <1>8, <1>9 DEF PruneStep

LEMMA ApartStep == TypeOK /\ ApartInv /\ Apart /\ [Next]_vars => ApartInv'
<1> SUFFICES ASSUME TypeOK, ApartInv, Apart, [Next]_vars PROVE ApartInv'
  OBVIOUS
<1> USE DEF ApartInv
<1>1. ASSUME UNCHANGED <<file, row, deletion, prune>>,
             \A u \in Uploads : upload'[u] = upload[u] \/ upload'[u].step \in {"idle", "storing"}
      PROVE  ApartInv'
  BY <1>1, RemovalUndisturbed, PruneUndisturbed, SamePointing DEF RowsHaveBytes, InFlight
<1>2. ASSUME NEW u \in Uploads, NEW d \in Digests, UploadBegin(u, d) PROVE ApartInv'
  <2>1. \A v \in Uploads : upload'[v] = upload[v] \/ upload'[v].step \in {"idle", "storing"}
    BY <1>2 DEF UploadBegin, TypeOK
  <2> QED
    BY <1>1, <1>2, <2>1 DEF UploadBegin
<1>3. ASSUME NEW r \in Deletions, NEW a \in Ids, DeleteFind(r, a) \/ TransactionCheck(r, a)
      PROVE ApartInv'
  <2>1. /\ deletion'[r].step \in {"found", "checked"} /\ UNCHANGED <<file, row, upload, prune>>
        /\ Others(r)
    BY <1>3, DeletionLoadsTyped DEF DeleteFind, TransactionCheck, Others
  <2>2. /\ RowsHaveBytes' /\ InFlight' /\ PruneSafe'
        /\ \A d : Pointing(d)' \subseteq Pointing(d)
    BY <2>1, ApartRows
  <2> QED
    BY <2>1, <2>2 DEF RemovalSafe, Others
<1>4. ASSUME NEW a \in Ids, RegisterReference(a) PROVE ApartInv'
  <2>1. \A b \in Ids : row'[b].state = "managed" => row'[b] = row[b]
    BY <1>4 DEF RegisterReference, Row, TypeOK
  <2> QED
    BY <1>4, <2>1, ApartRows, RemovalUndisturbed DEF RegisterReference
<1>5. ASSUME NEW a \in Attachable, Attach(a) \/ Detach(a) PROVE ApartInv'
  BY <1>1, <1>5 DEF Attach, Detach
<1>6. ASSUME NEW d \in Digests, Age(d) PROVE ApartInv'
  <2>1. \A e \in Digests : file'[e].bytes = file[e].bytes /\ file'[e].writer = file[e].writer
    BY <1>6 DEF Age, TypeOK, Object
  <2>2. RowsHaveBytes' /\ InFlight'
    BY <1>6, <2>1, RowShape, UploadShape DEF Age, RowsHaveBytes, InFlight
  <2> QED
    BY <1>6, <2>2, RemovalUndisturbed, PruneUndisturbed, SamePointing DEF Age
<1>7. ASSUME Crash PROVE ApartInv'
  <2>1. \A e \in Digests : file'[e].bytes = file[e].bytes
    BY <1>7 DEF Crash, TypeOK, Object
  <2>2. RowsHaveBytes'
    BY <1>7, <2>1, RowShape DEF Crash, RowsHaveBytes
  <2>3. InFlight' /\ RemovalSafe'
    BY <1>7 DEF Crash, InFlight, RemovalSafe, IdleUpload, IdleDeletion
  <2> QED
    BY <1>7, <2>2, <2>3, PruneUndisturbed, SamePointing DEF Crash
<1>8. CASE UNCHANGED vars
  BY <1>1, <1>8 DEF vars
<1> QED
  BY <1>2, <1>3, <1>4, <1>5, <1>6, <1>7, <1>8, ApartUpload, ApartDeletion, ApartPrune DEF Next

\* Both stores stay in step when uploads keep apart from prunings and from
\* deletions of the same bytes: every managed row finds its bytes in full.
THEOREM ApartRowsHaveBytes == ApartSpec => []RowsHaveBytes
<1>1. Init => TypeOK /\ ApartInv /\ Apart
  <2>1. Init => Apart
    BY DEF Init, Apart, IdleUpload
  <2> QED
    BY <2>1, InitTyped, ApartInit
<1>2. TypeOK /\ ApartInv /\ Apart /\ [Next /\ Apart']_vars => (TypeOK /\ ApartInv /\ Apart)'
  <2>1. Apart /\ UNCHANGED vars => Apart'
    BY DEF Apart, vars
  <2> QED
    BY <2>1, TypeStep, ApartStep
<1>3. ApartInv => RowsHaveBytes
  BY DEF ApartInv
<1> QED
  BY <1>1, <1>2, <1>3, PTL DEF ApartSpec

-----------------------------------------------------------------------------
(***************************************************************************)
(* The two stores implement the abstract one.                              *)
(***************************************************************************)
Whole == {d \in Digests : file[d].bytes = "whole"}

Catalog == [a \in Ids |-> [state |-> row[a].state, digest |-> row[a].digest]]

LEMMA StorePointing == \A d : Store!Pointing(d) = Pointing(d)
  BY DEF Store!Pointing, Pointing

LEMMA StoreActions ==
    \A d \in Digests : /\ Store!Put(d) => Store!Next
                       /\ \A a \in Ids : Store!Register(a, d) => Store!Next
  BY Zenon DEF Store!Next

LEMMA CatalogSame ==
    ASSUME UNCHANGED row
    PROVE  Catalog' = Catalog
  BY DEF Catalog

\* Steps that leave the rows alone and remove at most bytes nothing points at.
LEMMA StoreStutter ==
    ASSUME UNCHANGED row, Whole' = Whole
    PROVE  [Store!Next]_(Store!vars)
  BY CatalogSame DEF Store!vars, Whole, Catalog

LEMMA StoreDiscard ==
    ASSUME TypeOK, NEW d \in Digests, Pointing(d) = {},
           file' = [file EXCEPT ![d] = NoObject], UNCHANGED row
    PROVE  [Store!Next]_(Store!vars)
<1>1. Whole' = Whole \ {d}
  <2>1. \A e \in Digests : file'[e] = IF e = d THEN NoObject ELSE file[e]
    BY DEF TypeOK
  <2> QED
    BY <2>1 DEF Whole, NoObject
<1>2. Store!Discard(d)
  BY <1>1, StorePointing, CatalogSame DEF Store!Discard, Whole, Catalog
<1> QED
  BY <1>2 DEF Store!Next

\* One row moves; the bytes stay.
LEMMA StoreMoves ==
    ASSUME UNCHANGED file, NEW a \in Ids, NEW from, NEW to,
           row[a].state \in from, row'[a].state = to,
           \A b \in Ids \ {a} : row'[b] = row[b]
    PROVE  Store!Moves(a, from, to)
<1>1. Whole' = Whole
  BY DEF Whole
<1>2. /\ Catalog[a].state \in from /\ Catalog'[a].state = to
      /\ \A b \in Ids \ {a} : Catalog'[b] = Catalog[b]
  BY DEF Catalog
<1> QED
  BY <1>1, <1>2 DEF Store!Moves, Whole, Catalog

LEMMA StoreWithdraw ==
    ASSUME TypeOK, NEW a \in Ids, Present(a), RowDeleted(a), UNCHANGED file
    PROVE  [Store!Next]_(Store!vars)
<1>1. Store!Moves(a, {"managed", "reference"}, "deleted")
  BY RowDeletedShrinks, StoreMoves DEF Present
<1> QED
  BY <1>1 DEF Store!Withdraw, Store!Next

LEMMA StoreUpload ==
    ASSUME TypeOK, ApartInv, NEW u \in Uploads, UploadStep(u)
    PROVE  [Store!Next]_(Store!vars)
<1>1. upload[u].step # "idle"
  BY DEF UploadStep, StoreOpen, StoreFinish, StoreFail, StoreCompare, CreateRow, CreateFail
<1> PICK d \in Digests : d = upload[u].digest
  BY <1>1, UploadShape
<1>2. ASSUME StoreOpen(u) PROVE [Store!Next]_(Store!vars)
  <2> DEFINE o == [bytes |-> "partial", old |-> FALSE, writer |-> u]
  <2>1. /\ file' = file \/ (file[d].bytes = "none" /\ file' = [file EXCEPT ![d] = o])
        /\ row' = row
    BY <1>2 DEF StoreOpen
  <2>2. o.bytes = "partial"
    OBVIOUS
  <2> HIDE DEF o
  <2>3. Whole' = Whole
    BY <2>1, <2>2 DEF Whole, TypeOK
  <2> QED
    BY <2>1, <2>3, StoreStutter
<1>3. ASSUME StoreFinish(u) PROVE [Store!Next]_(Store!vars)
  <2>1. /\ file'[d].bytes = "whole"
        /\ \A e \in Digests \ {d} : file'[e] = file[e]
    BY <1>1, <1>3 DEF StoreFinish, TypeOK, ApartInv, InFlight
  <2>2. Whole' = Whole \cup {d}
    BY <1>1, <2>1 DEF Whole
  <2>3. Store!Put(d)
    BY <1>3, <2>2, CatalogSame DEF StoreFinish, Store!Put, Whole, Catalog
  <2> QED
    BY <2>3, StoreActions, Zenon
<1>4. ASSUME StoreFail(u) PROVE [Store!Next]_(Store!vars)
  <2>1. file[d].bytes = "partial"
    BY <1>4 DEF StoreFail, ApartInv, InFlight
  <2>2. \A e \in Digests : file'[e].bytes = "whole" <=> file[e].bytes = "whole"
    BY <1>1, <1>4, <2>1 DEF StoreFail, TypeOK, NoObject
  <2>3. Whole' = Whole /\ row' = row
    BY <1>4, <2>2 DEF StoreFail, Whole
  <2> QED
    BY <2>3, StoreStutter
<1>5. ASSUME UNCHANGED <<file, row>> PROVE [Store!Next]_(Store!vars)
  BY <1>5, StoreStutter DEF Whole
<1>6. ASSUME NEW a \in Ids, CreateRow(u, a) PROVE [Store!Next]_(Store!vars)
  <2>1. /\ row[a].state = "unused" /\ row'[a].state = "managed" /\ row'[a].digest = d
        /\ \A b \in Ids \ {a} : row'[b] = row[b]
        /\ UNCHANGED file /\ d \in Whole
    BY <1>1, <1>6 DEF CreateRow, Row, TypeOK, ApartInv, InFlight, Whole
  <2>2. Store!Moves(a, {"unused"}, "managed")
    BY <2>1, StoreMoves
  <2>3. Catalog'[a].digest = d
    BY <2>1 DEF Catalog
  <2>4. Store!Register(a, d)
    BY <2>1, <2>2, <2>3 DEF Store!Register, Whole, Catalog
  <2> QED
    BY <2>4, StoreActions, Zenon
<1> QED
  BY <1>2, <1>3, <1>4, <1>5, <1>6 DEF UploadStep, StoreCompare, CreateFail

LEMMA StoreDeletion ==
    ASSUME TypeOK, ApartInv, LocksHold, NEW r \in Deletions, DeletionStep(r)
    PROVE  [Store!Next]_(Store!vars)
<1>1. deletion[r].step # "idle" /\ deletion[r].id \in Ids
  BY DeletionShape DEF DeletionStep, DeleteRow, DeleteCount, DeleteObject, TransactionDelete,
                       TransactionCount, TransactionCommit
<1>2. ASSUME UNCHANGED <<file, row>> PROVE [Store!Next]_(Store!vars)
  BY <1>2, StoreStutter DEF Whole
<1>3. ASSUME DeleteRow(r) PROVE [Store!Next]_(Store!vars)
  BY <1>1, <1>2, <1>3, StoreWithdraw DEF DeleteRow
<1>4. ASSUME DeleteObject(r) PROVE [Store!Next]_(Store!vars)
  <2>1. deletion[r].digest \in Digests /\ Pointing(deletion[r].digest) = {}
    BY <1>4, DeletionShape DEF DeleteObject, ApartInv, RemovalSafe
  <2> QED
    BY <1>2, <1>4, <2>1, StoreDiscard DEF DeleteObject
<1>5. ASSUME TransactionCommit(r) PROVE [Store!Next]_(Store!vars)
  <2>1. Present(deletion[r].id)
    BY <1>5 DEF TransactionCommit, LocksHold, Holds
  <2> QED
    BY <1>1, <1>5, <2>1, StoreWithdraw DEF TransactionCommit
<1> QED
  BY <1>2, <1>3, <1>4, <1>5 DEF DeletionStep, DeleteCount, TransactionDelete, TransactionCount

LEMMA StorePrune ==
    ASSUME TypeOK, ApartInv, PruneStep
    PROVE  [Store!Next]_(Store!vars)
<1>1. ASSUME PruneRemove PROVE [Store!Next]_(Store!vars)
  <2>1. prune.victim \in Digests /\ Pointing(prune.victim) = {}
    BY <1>1, ArtifactAssumption
    DEF PruneRemove, ApartInv, PruneSafe, IdlePrune, TypeOK, Prune
  <2> QED
    BY <1>1, <2>1, StoreDiscard DEF PruneRemove
<1>2. ASSUME UNCHANGED <<file, row>> PROVE [Store!Next]_(Store!vars)
  BY <1>2, StoreStutter DEF Whole
<1> QED
  BY <1>1, <1>2 DEF PruneStep, PruneBegin, PruneList, PruneStat, PruneEnd

LEMMA StoreStep ==
    TypeOK /\ ApartInv /\ LocksHold /\ [Next]_vars => [Store!Next]_(Store!vars)
<1> SUFFICES ASSUME TypeOK, ApartInv, LocksHold, [Next]_vars
             PROVE  [Store!Next]_(Store!vars)
  OBVIOUS
<1>1. ASSUME NEW a \in Ids, RegisterReference(a) PROVE [Store!Next]_(Store!vars)
  <2>1. Store!Moves(a, {"unused"}, "reference")
    BY <1>1, StoreMoves DEF RegisterReference, Row, TypeOK
  <2> QED
    BY <2>1 DEF Store!RegisterReference, Store!Next
<1>2. ASSUME UNCHANGED row, \A d \in Digests : file'[d].bytes = file[d].bytes
      PROVE  [Store!Next]_(Store!vars)
  BY <1>2, StoreStutter DEF Whole
<1>3. ASSUME NEW d \in Digests, Age(d) PROVE [Store!Next]_(Store!vars)
  BY <1>2, <1>3 DEF Age, TypeOK, Object
<1>4. ASSUME Crash PROVE [Store!Next]_(Store!vars)
  BY <1>2, <1>4 DEF Crash, TypeOK, Object
<1>5. ASSUME UNCHANGED <<file, row>> PROVE [Store!Next]_(Store!vars)
  BY <1>2, <1>5
<1> QED
  BY <1>1, <1>3, <1>4, <1>5, StoreUpload, StoreDeletion, StorePrune
  DEF Next, UploadBegin, DeleteFind, TransactionCheck, Attach, Detach, vars

\* Seen from outside, managed artifacts are one store: rows are registered for
\* bytes stored in full, and only bytes no row points at are discarded.
THEOREM ArtifactsImplementStore == ApartSpec => StoreSpec
<1>1. Init => /\ TypeOK /\ ApartInv /\ Apart /\ LocksHold
              /\ Store!Init
  <2>1. Init => Apart /\ LocksHold
    BY DEF Init, Apart, IdleUpload, LocksHold, Holds, IdleDeletion
  <2>2. Init => Store!Init
    BY DEF Init, Store!Init, NoObject, Row
  <2> QED
    BY <2>1, <2>2, InitTyped, ApartInit
<1>2. TypeOK /\ ApartInv /\ Apart /\ LocksHold /\ [Next /\ Apart']_vars
        => (TypeOK /\ ApartInv /\ Apart /\ LocksHold)' /\ [Store!Next]_(Store!vars)
  <2>1. Apart /\ UNCHANGED vars => Apart'
    BY DEF Apart, vars
  <2> QED
    BY <2>1, TypeStep, ApartStep, LocksStep, StoreStep
<1> QED
  BY <1>1, <1>2, PTL DEF ApartSpec, StoreSpec, Store!Spec

-----------------------------------------------------------------------------
(***************************************************************************)
(* Prunings overlapping uploads.  The rows alone are not inductive: an     *)
(* object is safe from a pruning that has not seen its row only because it *)
(* is young from the copy to the end of that pruning.                      *)
(***************************************************************************)
YoungCopies ==
    \A u \in Uploads :
        /\ upload[u].step = "copying" =>
             /\ upload[u].copied /\ ~file[upload[u].digest].old
             /\ file[upload[u].digest].bytes = "partial" /\ file[upload[u].digest].writer = u
        /\ upload[u].step = "stored" /\ upload[u].copied =>
             ~file[upload[u].digest].old /\ file[upload[u].digest].bytes = "whole"

SafeRows ==
    \A a \in Ids :
        row[a].state = "managed" /\ row[a].copied =>
          /\ file[row[a].digest].bytes = "whole"
          /\ prune.step = "scanning" /\ row[a].digest \notin prune.kept
               => ~file[row[a].digest].old

OldVictim ==
    /\ prune.step = "idle" => prune = IdlePrune
    /\ prune.entries \cap prune.kept = {}
    /\ prune.victim # NoDigest =>
         /\ prune.victim \notin prune.kept
         /\ file[prune.victim].old /\ file[prune.victim].bytes # "none"

PruneInv == YoungCopies /\ SafeRows /\ OldVictim

LEMMA PruneInvInit == Init => PruneInv
  BY DEF Init, PruneInv, YoungCopies, SafeRows, OldVictim, Row, IdleUpload, IdlePrune

LEMMA PruneInvUpload ==
    ASSUME TypeOK, PruneInv, NEW u \in Uploads, UploadStep(u)
    PROVE  PruneInv'
<1> USE DEF PruneInv
<1>1. upload[u].step # "idle" /\ upload[u].copied \in BOOLEAN
  BY UploadShape
  DEF UploadStep, StoreOpen, StoreFinish, StoreFail, StoreCompare, CreateRow, CreateFail
<1> PICK d \in Digests : d = upload[u].digest
  BY <1>1, UploadShape
<1>2. \A v \in Uploads : upload[v].step # "idle" => upload[v].digest \in Digests
  BY UploadShape
<1>3. prune.victim \in Digests \cup {NoDigest}
  BY DEF TypeOK, Prune
<1>4. ASSUME StoreOpen(u), file[d].bytes = "none" PROVE PruneInv'
  <2>1. /\ file'[d].bytes = "partial" /\ file'[d].writer = u /\ file'[d].old = FALSE
        /\ \A e \in Digests \ {d} : file'[e] = file[e]
        /\ UNCHANGED <<row, prune>>
    BY <1>4 DEF StoreOpen, TypeOK
  <2>2. /\ upload'[u].step = "copying" /\ upload'[u].digest = d /\ upload'[u].copied
        /\ \A v \in Uploads \ {u} : upload'[v] = upload[v]
    BY <1>1, <1>4, UploadGoesTyped DEF StoreOpen, UploadSteps
  <2>3. YoungCopies'
    BY <1>2, <1>4, <2>1, <2>2 DEF YoungCopies
  <2>4. SafeRows'
    BY <1>4, <2>1, RowShape DEF SafeRows
  <2>5. OldVictim'
    BY <1>3, <1>4, <2>1 DEF OldVictim, IdlePrune
  <2> QED
    BY <2>3, <2>4, <2>5
<1>5. ASSUME UNCHANGED <<file, row, prune>>,
             \A v \in Uploads \ {u} : upload'[v] = upload[v],
             \/ upload'[u].step \in {"idle", "comparing"}
             \/ upload'[u].step = "stored" /\ ~upload'[u].copied
      PROVE  PruneInv'
  BY <1>5 DEF YoungCopies, SafeRows, OldVictim, IdlePrune
<1>6. ASSUME StoreOpen(u), file[d].bytes # "none" PROVE PruneInv'
  <2>1. /\ upload'[u].step = "comparing"
        /\ \A v \in Uploads \ {u} : upload'[v] = upload[v]
        /\ UNCHANGED <<file, row, prune>>
    BY <1>1, <1>6, UploadGoesTyped DEF StoreOpen, UploadSteps
  <2> QED
    BY <1>5, <2>1
<1>7. ASSUME StoreFinish(u) PROVE PruneInv'
  <2>1. file[d].writer = u /\ file[d].bytes = "partial" /\ ~file[d].old
    BY <1>7 DEF StoreFinish, YoungCopies
  <2>2. /\ file'[d].bytes = "whole" /\ file'[d].old = file[d].old
        /\ \A e \in Digests \ {d} : file'[e] = file[e]
        /\ UNCHANGED <<row, prune>>
    BY <1>7, <2>1 DEF StoreFinish, TypeOK, Object
  <2>3. /\ upload'[u].step = "stored" /\ upload'[u].digest = d
        /\ \A v \in Uploads \ {u} : upload'[v] = upload[v]
    BY <1>1, <1>7, UploadGoesTyped DEF StoreFinish, UploadSteps
  <2>4. YoungCopies'
    BY <1>2, <2>1, <2>2, <2>3 DEF YoungCopies
  <2>5. SafeRows'
    BY <2>1, <2>2, RowShape DEF SafeRows
  <2>6. OldVictim'
    BY <1>3, <2>1, <2>2 DEF OldVictim, IdlePrune
  <2> QED
    BY <2>4, <2>5, <2>6
<1>8. ASSUME StoreFail(u) PROVE PruneInv'
  <2>1. file[d].writer = u /\ file[d].bytes = "partial" /\ ~file[d].old
    BY <1>8 DEF StoreFail, YoungCopies
  <2>2. (\A e \in Digests \ {d} : file'[e] = file[e]) /\ UNCHANGED <<row, prune>>
    BY <1>8 DEF StoreFail, TypeOK
  <2>3. /\ upload'[u].step = "idle"
        /\ \A v \in Uploads \ {u} : upload'[v] = upload[v]
    BY <1>8, UploadEndsTyped DEF StoreFail, IdleUpload
  <2>4. YoungCopies'
    BY <1>2, <2>1, <2>2, <2>3 DEF YoungCopies
  <2>5. SafeRows'
    BY <2>1, <2>2, RowShape DEF SafeRows
  <2>6. OldVictim'
    BY <1>3, <2>1, <2>2 DEF OldVictim, IdlePrune
  <2> QED
    BY <2>4, <2>5, <2>6
<1>9. ASSUME StoreCompare(u) PROVE PruneInv'
  <2>1. UploadGoes(u, "stored", FALSE) \/ UploadEnds(u)
    BY <1>9 DEF StoreCompare
  <2>2. /\ \A v \in Uploads \ {u} : upload'[v] = upload[v]
        /\ \/ upload'[u].step = "idle"
           \/ upload'[u].step = "stored" /\ ~upload'[u].copied
    <3>1. CASE UploadGoes(u, "stored", FALSE)
      BY <1>1, <3>1, UploadGoesTyped DEF UploadSteps
    <3>2. CASE UploadEnds(u)
      BY <3>2, UploadEndsTyped DEF IdleUpload
    <3> QED
      BY <2>1, <3>1, <3>2
  <2> QED
    BY <1>5, <1>9, <2>2 DEF StoreCompare
<1>10. ASSUME NEW a \in Ids, CreateRow(u, a) PROVE PruneInv'
  <2>1. /\ row'[a].digest = d /\ row'[a].copied = upload[u].copied
        /\ \A b \in Ids \ {a} : row'[b] = row[b]
        /\ UNCHANGED <<file, prune>>
    BY <1>10 DEF CreateRow, Row, TypeOK
  <2>2. /\ upload'[u].step = "idle"
        /\ \A v \in Uploads \ {u} : upload'[v] = upload[v]
    BY <1>10, UploadEndsTyped DEF CreateRow, IdleUpload
  <2>3. upload[u].copied => ~file[d].old /\ file[d].bytes = "whole"
    BY <1>10 DEF CreateRow, YoungCopies
  <2>4. SafeRows'
    BY <2>1, <2>3 DEF SafeRows
  <2> QED
    BY <2>1, <2>2, <2>4 DEF YoungCopies, OldVictim, IdlePrune
<1>11. ASSUME CreateFail(u) PROVE PruneInv'
  <2>1. /\ upload'[u].step = "idle"
        /\ \A v \in Uploads \ {u} : upload'[v] = upload[v]
        /\ UNCHANGED <<file, row, prune>>
    BY <1>11, UploadEndsTyped DEF CreateFail, IdleUpload
  <2> QED
    BY <1>5, <2>1
<1> QED
  BY <1>4, <1>6, <1>7, <1>8, <1>9, <1>10, <1>11 DEF UploadStep

LEMMA PruneInvPrune ==
    ASSUME TypeOK, PruneInv, PruneStep
    PROVE  PruneInv'
<1> USE DEF PruneInv
<1>1. UNCHANGED <<row, upload>>
  BY DEF PruneStep, PruneBegin, PruneList, PruneStat, PruneRemove, PruneEnd
<1>2. /\ prune \in Prune /\ NoDigest \notin Digests
      /\ prune.victim # NoDigest \/ prune.entries # {} \/ prune.left # {}
           => prune.step = "scanning"
  BY ArtifactAssumption DEF TypeOK, Prune, OldVictim, IdlePrune
<1>3. ASSUME UNCHANGED file PROVE YoungCopies'
  BY <1>1, <1>3 DEF YoungCopies
<1>4. ASSUME UNCHANGED file, prune'.step = "scanning" => prune.step = "scanning",
             prune'.step = "scanning" => prune'.kept = prune.kept
      PROVE  SafeRows'
  BY <1>1, <1>4 DEF SafeRows
<1>5. ASSUME PruneBegin PROVE PruneInv'
  <2>1. /\ prune'.step = "scanning" /\ prune'.entries = {} /\ prune'.victim = NoDigest
        /\ prune'.kept = {d \in Digests : Pointing(d) # {}} /\ UNCHANGED file
    BY <1>5 DEF PruneBegin, IdlePrune
  <2>2. \A a \in Ids : row[a].state = "managed" => row[a].digest \in prune'.kept
    BY <2>1, RowShape DEF Pointing
  <2>3. SafeRows'
    BY <1>1, <2>1, <2>2 DEF SafeRows
  <2> QED
    BY <1>3, <2>1, <2>3 DEF OldVictim
<1>6. ASSUME NEW p \in Prefixes, PruneList(p) PROVE PruneInv'
  <2>1. /\ prune'.step = prune.step /\ prune'.victim = NoDigest /\ UNCHANGED file
        /\ prune'.kept = prune.kept /\ prune'.entries \cap prune.kept = {}
        /\ prune.step = "scanning"
    BY <1>2, <1>6 DEF PruneList, Prune
  <2> QED
    BY <1>3, <1>4, <2>1 DEF OldVictim
<1>7. ASSUME NEW d \in Digests, PruneStat(d) PROVE PruneInv'
  <2>1. UNCHANGED file
    BY <1>7 DEF PruneStat
  <2>2. CASE file[d].bytes = "none"
    <3>1. prune' = IdlePrune
      BY <1>7, <2>2 DEF PruneStat
    <3> QED
      BY <1>3, <1>4, <2>1, <3>1 DEF OldVictim, IdlePrune
  <2>3. CASE file[d].bytes # "none"
    <3>1. /\ prune'.step = prune.step /\ prune'.kept = prune.kept
          /\ prune'.entries \subseteq prune.entries
          /\ prune'.victim = NoDigest \/ (prune'.victim = d /\ file[d].old)
          /\ d \in prune.entries /\ prune.step = "scanning"
      BY <1>2, <1>7, <2>3 DEF PruneStat, Prune
    <3>2. OldVictim'
      BY <2>1, <2>3, <3>1 DEF OldVictim
    <3> QED
      BY <1>3, <1>4, <2>1, <3>1, <3>2
  <2> QED
    BY <2>2, <2>3
<1>8. ASSUME PruneRemove PROVE PruneInv'
  <2> DEFINE d == prune.victim
  <2>1. /\ d \in Digests \ prune.kept /\ file[d].old /\ prune.step = "scanning"
        /\ \A e \in Digests \ {d} : file'[e] = file[e]
    BY <1>2, <1>8 DEF PruneRemove, OldVictim, Prune, TypeOK
  <2>2. /\ prune'.step = prune.step /\ prune'.kept = prune.kept
        /\ prune'.entries = prune.entries /\ prune'.victim = NoDigest
    BY <1>2, <1>8 DEF PruneRemove, Prune
  <2>3. YoungCopies'
    BY <1>1, <2>1, UploadShape DEF YoungCopies
  <2>4. SafeRows'
    BY <1>1, <2>1, <2>2, RowShape DEF SafeRows
  <2>5. OldVictim'
    BY <2>1, <2>2 DEF OldVictim
  <2> QED
    BY <2>3, <2>4, <2>5
<1>9. ASSUME PruneEnd PROVE PruneInv'
  BY <1>3, <1>4, <1>9 DEF PruneEnd, OldVictim, IdlePrune
<1> QED
  BY <1>5, <1>6, <1>7, <1>8, <1>9 DEF PruneStep

LEMMA PruneInvStep ==
    ASSUME Deletions = {}
    PROVE  TypeOK /\ PruneInv /\ [Next]_vars => PruneInv'
<1> SUFFICES ASSUME TypeOK, PruneInv, [Next]_vars PROVE PruneInv'
  OBVIOUS
<1> USE DEF PruneInv
<1>1. ASSUME UNCHANGED <<file, row, prune>>,
             \A u \in Uploads : upload'[u] = upload[u] \/ upload'[u].step \in {"idle", "storing"}
      PROVE  PruneInv'
  BY <1>1 DEF YoungCopies, SafeRows, OldVictim, IdlePrune
<1>2. ASSUME NEW u \in Uploads, NEW d \in Digests, UploadBegin(u, d) PROVE PruneInv'
  <2>1. \A v \in Uploads : upload'[v] = upload[v] \/ upload'[v].step \in {"idle", "storing"}
    BY <1>2 DEF UploadBegin, TypeOK
  <2> QED
    BY <1>1, <1>2, <2>1 DEF UploadBegin
<1>3. ASSUME NEW a \in Ids, RegisterReference(a) PROVE PruneInv'
  <2>1. \A b \in Ids : row'[b].state = "managed" => row'[b] = row[b]
    BY <1>3 DEF RegisterReference, Row, TypeOK
  <2>2. UNCHANGED <<file, upload, prune>>
    BY <1>3 DEF RegisterReference
  <2>3. YoungCopies' /\ OldVictim'
    BY <2>2 DEF YoungCopies, OldVictim, IdlePrune
  <2>4. SafeRows'
    BY <2>1, <2>2 DEF SafeRows
  <2> QED
    BY <2>3, <2>4
<1>4. ASSUME NEW a \in Attachable, Attach(a) \/ Detach(a) PROVE PruneInv'
  BY <1>1, <1>4 DEF Attach, Detach
<1>5. ASSUME NEW d \in Digests, Age(d) PROVE PruneInv'
  <2>1. /\ \A e \in Digests : file'[e].bytes = file[e].bytes /\ file'[e].writer = file[e].writer
        /\ \A e \in Digests \ {d} : file'[e] = file[e]
        /\ UNCHANGED <<row, upload, prune>> /\ prune.step = "idle"
        /\ \A u \in Uploads : upload[u].digest = d => ~upload[u].copied
    BY <1>5 DEF Age, TypeOK, Object
  <2>2. prune.victim = NoDigest
    BY <2>1 DEF OldVictim, IdlePrune
  <2>3. YoungCopies'
    BY <2>1, UploadShape DEF YoungCopies
  <2>4. SafeRows'
    BY <2>1, RowShape DEF SafeRows
  <2> QED
    BY <2>1, <2>2, <2>3, <2>4 DEF OldVictim, IdlePrune
<1>6. ASSUME Crash PROVE PruneInv'
  <2>1. /\ \A e \in Digests : file'[e].bytes = file[e].bytes /\ file'[e].old = file[e].old
        /\ UNCHANGED <<row, prune>>
    BY <1>6 DEF Crash, TypeOK, Object
  <2>2. prune.victim \in Digests \cup {NoDigest}
    BY DEF TypeOK, Prune
  <2>3. YoungCopies'
    BY <1>6 DEF Crash, YoungCopies, IdleUpload
  <2>4. SafeRows'
    BY <2>1, RowShape DEF SafeRows
  <2>5. OldVictim'
    BY <2>1, <2>2 DEF OldVictim, IdlePrune
  <2> QED
    BY <2>3, <2>4, <2>5
<1>7. CASE UNCHANGED vars
  BY <1>1, <1>7 DEF vars
<1> QED
  BY <1>2, <1>3, <1>4, <1>5, <1>6, <1>7, PruneInvUpload, PruneInvPrune DEF Next

\* Prunings may overlap uploads and crashes at any step: a row whose upload
\* wrote the bytes keeps them while nothing is deleted.
THEOREM PruningSparesCopies ==
    ASSUME Deletions = {}
    PROVE  Spec => []CopiedRowsHaveBytes
<1>1. PruneInv => CopiedRowsHaveBytes
  BY DEF PruneInv, SafeRows, CopiedRowsHaveBytes
<1>2. TypeOK /\ PruneInv /\ [Next]_vars => (TypeOK /\ PruneInv)'
  BY TypeStep, PruneInvStep
<1> QED
  BY <1>1, <1>2, InitTyped, PruneInvInit, PTL DEF Spec
-----------------------------------------------------------------------------
(***************************************************************************)
(* What the collection of orphans rests on beside the fairness: requests,  *)
(* a pruning and the age of an object only go one way, whatever overlaps.  *)
(***************************************************************************)
\* How many steps an upload or a deletion has left, at most.
StepsLeft(step) ==
    IF step = "checked" THEN 4
    ELSE IF step \in {"storing", "found", "locked"} THEN 3
    ELSE IF step \in {"copying", "comparing", "deleted", "counted"} THEN 2
    ELSE IF step \in {"stored", "removing"} THEN 1
    ELSE 0

UploadsAdvance ==
    \A u \in Uploads :
        upload[u].step # "idle" /\ upload'[u] # upload[u] =>
            StepsLeft(upload'[u].step) < StepsLeft(upload[u].step)

DeletionsAdvance ==
    \A r \in Deletions :
        deletion[r].step # "idle" /\ deletion'[r] # deletion[r] =>
            StepsLeft(deletion'[r].step) < StepsLeft(deletion[r].step)

\* A pruning ends, or has fewer directories, files or victims left; the files it
\* has read as in use stay so for it.
PruneAdvances ==
    prune.step = "scanning" /\ prune' # prune =>
        \/ prune' = IdlePrune
        \/ /\ prune'.step = "scanning" /\ prune'.kept = prune.kept
           /\ \/ prune'.left \subseteq prune.left /\ prune'.left # prune.left
              \/ /\ prune'.left = prune.left
                 /\ prune'.entries \subseteq prune.entries /\ prune'.entries # prune.entries
              \/ /\ prune'.left = prune.left /\ prune'.entries = prune.entries
                 /\ prune.victim # NoDigest /\ prune'.victim = NoDigest

\* An object that has grown old is not young again before it is removed.
OldStay ==
    \A d \in Digests :
        file[d].bytes # "none" /\ file[d].old => file'[d].old \/ file'[d].bytes = "none"

LEMMA StepCounts ==
    /\ StepsLeft("checked") = 4
    /\ StepsLeft("storing") = 3 /\ StepsLeft("found") = 3 /\ StepsLeft("locked") = 3
    /\ StepsLeft("copying") = 2 /\ StepsLeft("comparing") = 2
    /\ StepsLeft("deleted") = 2 /\ StepsLeft("counted") = 2
    /\ StepsLeft("stored") = 1 /\ StepsLeft("removing") = 1
    /\ StepsLeft("idle") = 0
BY DEF StepsLeft

\* The steps in their order have fewer and fewer left.
LEMMA Fewer ==
    ASSUME NEW s, NEW t,
           \/ s = "storing" /\ t \in {"copying", "comparing"}
           \/ s \in {"copying", "comparing"} /\ t = "stored"
           \/ s = "checked" /\ t = "locked"
           \/ s = "locked" /\ t = "counted"
           \/ s = "found" /\ t = "deleted"
           \/ s \in {"counted", "deleted"} /\ t = "removing"
           \/ s \in {"storing", "copying", "comparing", "stored", "checked", "locked",
                     "counted", "found", "deleted", "removing"} /\ t = "idle"
    PROVE  StepsLeft(t) < StepsLeft(s)
<1>1. \/ StepsLeft(s) = 3 /\ StepsLeft(t) = 2
      \/ StepsLeft(s) = 2 /\ StepsLeft(t) = 1
      \/ StepsLeft(s) = 4 /\ StepsLeft(t) = 3
      \/ StepsLeft(s) \in 1..4 /\ StepsLeft(t) = 0
  BY StepCounts
<1>2. QED
  BY <1>1

LEMMA UploadStepsAdvance ==
    ASSUME TypeOK, NEW u \in Uploads, UploadStep(u)
    PROVE  UploadsAdvance
<1>1. SUFFICES /\ \A v \in Uploads \ {u} : upload'[v] = upload[v]
               /\ StepsLeft(upload'[u].step) < StepsLeft(upload[u].step)
  BY DEF UploadsAdvance
<1>2. upload[u].step \in UploadSteps /\ upload[u].step # "idle"
  <2>1. upload[u].step # "idle"
    BY DEF UploadStep, StoreOpen, StoreFinish, StoreFail, StoreCompare, CreateRow, CreateFail
  <2>2. QED
    BY <2>1, UploadShape
<1>3. CASE UploadEnds(u)
  <2>1. /\ upload'[u].step = "idle"
        /\ \A v \in Uploads \ {u} : upload'[v] = upload[v]
    BY <1>3, UploadEndsTyped DEF IdleUpload
  <2>2. QED
    BY <1>2, <2>1, Fewer DEF UploadSteps
<1>4. CASE StoreOpen(u)
  <2>1. /\ upload[u].step = "storing"
        /\ \/ UploadGoes(u, "copying", TRUE)
           \/ UploadGoes(u, "comparing", FALSE)
    BY <1>4 DEF StoreOpen
  <2>2. /\ upload'[u].step \in {"copying", "comparing"}
        /\ \A v \in Uploads \ {u} : upload'[v] = upload[v]
    BY <1>2, <2>1, UploadGoesTyped DEF UploadSteps
  <2>3. QED
    BY <2>1, <2>2, Fewer
<1>5. CASE UploadGoes(u, "stored", TRUE) \/ UploadGoes(u, "stored", FALSE)
  <2>1. /\ upload'[u].step = "stored"
        /\ \A v \in Uploads \ {u} : upload'[v] = upload[v]
    BY <1>2, <1>5, UploadGoesTyped DEF UploadSteps
  <2>2. upload[u].step \in {"copying", "comparing"} \/ UploadEnds(u) \/ StoreOpen(u)
    BY DEF UploadStep, StoreFinish, StoreFail, StoreCompare, CreateRow, CreateFail
  <2>3. QED
    BY <1>3, <1>4, <2>1, <2>2, Fewer
<1>6. QED
  BY <1>3, <1>4, <1>5
     DEF UploadStep, StoreFinish, StoreFail, StoreCompare, CreateRow, CreateFail

LEMMA DeletionStepsAdvance ==
    ASSUME TypeOK, NEW r \in Deletions, DeletionStep(r)
    PROVE  DeletionsAdvance
<1>1. SUFFICES Others(r) /\ StepsLeft(deletion'[r].step) < StepsLeft(deletion[r].step)
  BY DEF DeletionsAdvance, Others
<1>2. CASE DeleteRow(r)
  <2>1. deletion[r].step = "found"
    BY <1>2 DEF DeleteRow
  <2>2. QED
    BY <1>2, <2>1, DeleteRowEffect, Fewer
<1>3. CASE DeleteCount(r)
  <2>1. deletion[r].step = "deleted"
    BY <1>3 DEF DeleteCount
  <2>2. QED
    BY <1>3, <2>1, DeleteCountEffect, Fewer
<1>4. CASE DeleteObject(r)
  <2>1. deletion[r].step = "removing" /\ DeletionEnds(r)
    BY <1>4 DEF DeleteObject
  <2>2. Others(r) /\ deletion'[r].step = "idle"
    BY <2>1, DeletionEndsTyped DEF Others, IdleDeletion
  <2>3. QED
    BY <2>1, <2>2, Fewer
<1>5. CASE TransactionDelete(r)
  <2>1. deletion[r].step = "checked"
    BY <1>5 DEF TransactionDelete
  <2>2. QED
    BY <1>5, <2>1, TransactionDeleteEffect, Fewer
<1>6. CASE TransactionCount(r)
  <2>1. deletion[r].step = "locked"
    BY <1>6 DEF TransactionCount
  <2>2. QED
    BY <1>6, <2>1, TransactionCountEffect, Fewer
<1>7. CASE TransactionCommit(r)
  <2>1. deletion[r].step = "counted"
    BY <1>7 DEF TransactionCommit
  <2>2. QED
    BY <1>7, <2>1, TransactionCommitEffect, Fewer
<1>8. QED
  BY <1>2, <1>3, <1>4, <1>5, <1>6, <1>7 DEF DeletionStep

LEMMA PruneStepsAdvance ==
    ASSUME TypeOK, PruneStep
    PROVE  PruneAdvances
<1>1. prune \in Prune
  BY DEF TypeOK
<1>2. CASE PruneBegin
  BY <1>2 DEF PruneBegin, PruneAdvances
<1>3. ASSUME NEW p \in Prefixes, PruneList(p) PROVE PruneAdvances
  <2>1. /\ p \in prune.left /\ prune'.left = prune.left \ {p}
        /\ prune'.step = prune.step /\ prune'.kept = prune.kept
    BY <1>1, <1>3 DEF PruneList, Prune
  <2>2. QED
    BY <2>1 DEF PruneAdvances
<1>4. ASSUME NEW d \in Digests, PruneStat(d) PROVE PruneAdvances
  <2>1. CASE prune' = IdlePrune
    BY <2>1 DEF PruneAdvances
  <2>2. CASE prune' # IdlePrune
    <3>1. /\ d \in prune.entries /\ prune'.entries = prune.entries \ {d}
          /\ prune'.step = prune.step /\ prune'.kept = prune.kept /\ prune'.left = prune.left
      BY <1>1, <1>4, <2>2 DEF PruneStat, Prune
    <3>2. QED
      BY <3>1 DEF PruneAdvances
  <2>3. QED
    BY <2>1, <2>2
<1>5. CASE PruneRemove
  <2>1. /\ prune.victim # NoDigest /\ prune'.victim = NoDigest
        /\ prune'.step = prune.step /\ prune'.kept = prune.kept
        /\ prune'.left = prune.left /\ prune'.entries = prune.entries
    BY <1>1, <1>5 DEF PruneRemove, Prune
  <2>2. QED
    BY <2>1 DEF PruneAdvances
<1>6. CASE PruneEnd
  BY <1>6 DEF PruneEnd, PruneAdvances
<1>7. QED
  BY <1>2, <1>3, <1>4, <1>5, <1>6 DEF PruneStep

LEMMA OldStayStep ==
    ASSUME TypeOK, [Next]_vars
    PROVE  OldStay
<1>1. ASSUME UNCHANGED file PROVE OldStay
  BY <1>1 DEF OldStay
<1>2. ASSUME NEW e \in Digests, file' = [file EXCEPT ![e] = NoObject] PROVE OldStay
  BY <1>2 DEF OldStay, NoObject, TypeOK
<1>3. ASSUME NEW u \in Uploads, UploadStep(u) PROVE OldStay
  <2>1. upload[u].digest \in Digests
    BY <1>3, UploadShape
       DEF UploadStep, StoreOpen, StoreFinish, StoreFail, StoreCompare, CreateRow, CreateFail
  <2>2. PICK e \in Digests : e = upload[u].digest
    BY <2>1
  <2>3. CASE StoreOpen(u)
    BY <1>1, <2>2, <2>3 DEF StoreOpen, OldStay, TypeOK
  <2>4. CASE StoreFinish(u)
    <3>1. CASE file' = [file EXCEPT ![e].bytes = "whole", ![e].writer = NoUpload]
      <4>1. /\ file'[e] = [file[e] EXCEPT !.bytes = "whole", !.writer = NoUpload]
            /\ \A d \in Digests \ {e} : file'[d] = file[d]
            /\ file[e] \in Object
        BY <3>1 DEF TypeOK
      <4>2. file'[e].old = file[e].old
        BY <4>1 DEF Object
      <4>3. QED
        BY <4>1, <4>2 DEF OldStay
    <3>2. QED
      BY <1>1, <2>2, <2>4, <3>1 DEF StoreFinish
  <2>5. CASE StoreFail(u)
    BY <1>2, <2>2, <2>5 DEF StoreFail
  <2>6. QED
    BY <1>1, <1>3, <2>3, <2>4, <2>5 DEF UploadStep, StoreCompare, CreateRow, CreateFail
<1>4. ASSUME NEW r \in Deletions, DeletionStep(r) PROVE OldStay
  <2>1. CASE DeleteObject(r)
    <3>1. deletion[r].digest \in Digests
      BY <2>1, DeletionShape DEF DeleteObject
    <3>2. QED
      BY <1>1, <1>2, <2>1, <3>1 DEF DeleteObject
  <2>2. QED
    BY <1>1, <1>4, <2>1 DEF DeletionStep, DeleteRow, DeleteCount, TransactionDelete,
                            TransactionCount, TransactionCommit
<1>5. ASSUME PruneStep PROVE OldStay
  <2>1. CASE PruneRemove
    <3>1. prune.victim \in Digests
      BY <2>1 DEF PruneRemove, TypeOK, Prune
    <3>2. QED
      BY <1>2, <2>1, <3>1 DEF PruneRemove
  <2>2. QED
    BY <1>1, <1>5, <2>1 DEF PruneStep, PruneBegin, PruneList, PruneStat, PruneEnd
<1>6. ASSUME NEW e \in Digests, Age(e) PROVE OldStay
  <2>1. /\ file'[e] = [file[e] EXCEPT !.old = TRUE]
        /\ \A d \in Digests \ {e} : file'[d] = file[d]
        /\ file[e] \in Object
    BY <1>6 DEF Age, TypeOK
  <2>2. file'[e].old
    BY <2>1 DEF Object
  <2>3. QED
    BY <2>1, <2>2 DEF OldStay
<1>7. ASSUME Crash PROVE OldStay
  <2>1. \A d \in Digests : file'[d] = [file[d] EXCEPT !.writer = NoUpload] /\ file[d] \in Object
    BY <1>7 DEF Crash, TypeOK
  <2>2. \A d \in Digests : file'[d].old = file[d].old
    BY <2>1 DEF Object
  <2>3. QED
    BY <2>2 DEF OldStay
<1>8. QED
  BY <1>1, <1>3, <1>4, <1>5, <1>6, <1>7
     DEF Next, UploadBegin, DeleteFind, TransactionCheck, RegisterReference, Attach, Detach, vars

LEMMA RequestsAdvanceStep ==
    ASSUME TypeOK, [Next]_vars
    PROVE  UploadsAdvance /\ DeletionsAdvance
<1>1. ASSUME UNCHANGED upload PROVE UploadsAdvance
  BY <1>1 DEF UploadsAdvance
<1>2. ASSUME UNCHANGED deletion PROVE DeletionsAdvance
  BY <1>2 DEF DeletionsAdvance
<1>3. ASSUME NEW u \in Uploads, NEW d \in Digests, UploadBegin(u, d) PROVE UploadsAdvance
  BY <1>3 DEF UploadBegin, UploadsAdvance, TypeOK
<1>4. ASSUME NEW r \in Deletions, NEW a \in Ids, DeleteFind(r, a) \/ TransactionCheck(r, a)
      PROVE  DeletionsAdvance
  BY <1>4, DeletionLoadsTyped DEF DeleteFind, TransactionCheck, DeletionsAdvance
<1>5. ASSUME Crash PROVE UploadsAdvance /\ DeletionsAdvance
  <2>1. /\ \A u \in Uploads : upload'[u].step = "idle"
        /\ \A r \in Deletions : deletion'[r].step = "idle"
    BY <1>5 DEF Crash, IdleUpload, IdleDeletion
  <2>2. /\ \A u \in Uploads : upload[u].step # "idle" => upload[u].step \in UploadSteps
        /\ \A r \in Deletions : deletion[r].step # "idle" =>
              deletion[r].step \in {"found", "deleted", "checked", "locked", "counted",
                                    "removing"}
    BY UploadShape, DeletionShape
  <2>3. UploadsAdvance
    BY <2>1, <2>2, Fewer DEF UploadsAdvance, UploadSteps
  <2>4. DeletionsAdvance
    BY <2>1, <2>2, Fewer DEF DeletionsAdvance
  <2>5. QED
    BY <2>3, <2>4
<1>6. ASSUME NEW u \in Uploads, UploadStep(u) PROVE UNCHANGED deletion
  BY <1>6 DEF UploadStep, StoreOpen, StoreFinish, StoreFail, StoreCompare, CreateRow, CreateFail
<1>7. ASSUME NEW r \in Deletions, DeletionStep(r) PROVE UNCHANGED upload
  BY <1>7 DEF DeletionStep, DeleteRow, DeleteCount, DeleteObject, TransactionDelete,
              TransactionCount, TransactionCommit
<1>8. ASSUME PruneStep PROVE UNCHANGED <<upload, deletion>>
  BY <1>8 DEF PruneStep, PruneBegin, PruneList, PruneStat, PruneRemove, PruneEnd
<1>9. UploadsAdvance
  BY <1>1, <1>3, <1>5, <1>7, <1>8, UploadStepsAdvance
     DEF Next, DeleteFind, TransactionCheck, RegisterReference, Attach, Detach, Age, vars
<1>10. DeletionsAdvance
  BY <1>2, <1>4, <1>5, <1>6, <1>8, DeletionStepsAdvance
     DEF Next, UploadBegin, RegisterReference, Attach, Detach, Age, vars
<1>11. QED
  BY <1>9, <1>10

LEMMA PruneAdvancesStep ==
    ASSUME TypeOK, [Next]_vars
    PROVE  PruneAdvances
<1>1. ASSUME UNCHANGED prune PROVE PruneAdvances
  BY <1>1 DEF PruneAdvances
<1>2. ASSUME NEW u \in Uploads, UploadStep(u) PROVE UNCHANGED prune
  BY <1>2 DEF UploadStep, StoreOpen, StoreFinish, StoreFail, StoreCompare, CreateRow, CreateFail
<1>3. ASSUME NEW r \in Deletions, DeletionStep(r) PROVE UNCHANGED prune
  BY <1>3 DEF DeletionStep, DeleteRow, DeleteCount, DeleteObject, TransactionDelete,
              TransactionCount, TransactionCommit
<1>4. QED
  BY <1>1, <1>2, <1>3, PruneStepsAdvance
     DEF Next, UploadBegin, DeleteFind, TransactionCheck, RegisterReference, Attach, Detach,
         Age, Crash, vars

(***************************************************************************)
(* Uploads and deletions come closer to their end with each of their       *)
(* steps, a pruning examines less and less, and an object once old is      *)
(* never made young: whatever overlaps, and whether the server dies.       *)
(***************************************************************************)
THEOREM ArtifactsAdvance ==
    Spec => [][UploadsAdvance /\ DeletionsAdvance /\ PruneAdvances /\ OldStay]_vars
<1>1. TypeOK /\ [Next]_vars =>
         [UploadsAdvance /\ DeletionsAdvance /\ PruneAdvances /\ OldStay]_vars
  BY RequestsAdvanceStep, PruneAdvancesStep, OldStayStep
<1>2. QED
  BY <1>1, TypeCorrect, PTL DEF Spec
=============================================================================
