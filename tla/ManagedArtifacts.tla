-------------------------- MODULE ManagedArtifacts --------------------------
(***************************************************************************)
(* Managed artifacts: content-addressed files on disk and the Artifact     *)
(* rows that point at them, with no transaction across the two.  Uploads   *)
(* store the bytes and then insert a row; deletions remove the row, count  *)
(* what still points at the bytes and then remove them; the scheduled      *)
(* pruning is a process of its own.  Every action is the code between two  *)
(* awaits of one of them.                                                  *)
(***************************************************************************)
EXTENDS Integers, FiniteSets

CONSTANTS
    Digests,        \* SHA-256 digests; each is a storage key
    Ids,            \* ids (cuid) rows may get; none is ever reused
    Uploads,        \* slots for concurrent managed uploads
    Deletions,      \* slots for concurrent deletions
    Prefixes,       \* directories of the storage root
    Prefix,         \* Prefix[d]: the directory of d, the digest's first byte
    Attachable,     \* bound: rows that inputs and evidence may reference
    NoUpload,       \* no upload is writing the file
    NoDigest        \* no digest

ASSUME ArtifactAssumption ==
    /\ Prefix \in [Digests -> Prefixes]
    /\ Attachable \subseteq Ids
    /\ NoUpload \notin Uploads
    /\ NoDigest \notin Digests

VARIABLES
    file,           \* file[d]: the object stored under d
    row,            \* row[a]: the Artifact row
    inputs,         \* rows some LabInput references
    evidence,       \* rows some Evidence references
    upload,         \* upload[u]: a registerManaged in progress
    deletion,       \* deletion[r]: a delete or deleteArtifact in progress
    prune           \* the pruning in progress

vars == <<file, row, inputs, evidence, upload, deletion, prune>>

-----------------------------------------------------------------------------
(***************************************************************************)
(* State.                                                                  *)
(***************************************************************************)

\* "old": modified before the cutoff of the pruning in progress, or of the
\* next one.  "writer": the upload whose open descriptor this file is.
Object == [bytes: {"none", "partial", "whole"}, old: BOOLEAN,
           writer: Uploads \cup {NoUpload}]

NoObject == [bytes |-> "none", old |-> FALSE, writer |-> NoUpload]

\* "copied" is auxiliary: the row's upload wrote the bytes and did not find
\* them stored.  A "reference" row manages no bytes.
ArtifactRow ==
    [state: {"managed"}, digest: Digests, copied: BOOLEAN]
    \cup [state: {"unused", "reference", "deleted"}, digest: {NoDigest}, copied: {FALSE}]

Row(state, d, copied) == [state |-> state, digest |-> d, copied |-> copied]

IdleUpload == [step |-> "idle", digest |-> NoDigest, copied |-> FALSE]

Upload ==
    {IdleUpload}
    \cup [step: {"storing", "copying", "comparing", "stored"},
          digest: Digests, copied: BOOLEAN]

\* "last": the count found no other row with the same key.
IdleDeletion == [step |-> "idle", last |-> FALSE]

ReadDeletion ==
    [step: {"found", "checked", "locked", "counted"},
     id: Ids, digest: Digests \cup {NoDigest}, last: {FALSE}]

KeyDeletion ==
    [step: {"deleted", "counted", "removing"},
     id: Ids, digest: Digests, last: BOOLEAN]

Deletion == {IdleDeletion} \cup ReadDeletion \cup KeyDeletion

\* kept: the keys read from the table; left: the directories not listed yet;
\* entries: files listed and not yet examined; victim: examined, not removed.
IdlePrune == [step |-> "idle", kept |-> {}, left |-> {}, entries |-> {}, victim |-> NoDigest]

Prune == [step: {"idle", "scanning"}, kept: SUBSET Digests, left: SUBSET Prefixes,
          entries: SUBSET Digests, victim: Digests \cup {NoDigest}]

Present(a) == row[a].state \in {"managed", "reference"}

\* countByStorageKey, not counting the row a.
Pointing(d) == {a \in Ids : row[a].state = "managed" /\ row[a].digest = d}

\* A deleteArtifact transaction has deleted the row and not committed yet.
Locked(a) == \E r \in Deletions : /\ deletion[r].step \in {"locked", "counted"}
                                  /\ deletion[r].id = a

Init ==
    /\ file = [d \in Digests |-> NoObject]
    /\ row = [a \in Ids |-> Row("unused", NoDigest, FALSE)]
    /\ inputs = {}
    /\ evidence = {}
    /\ upload = [u \in Uploads |-> IdleUpload]
    /\ deletion = [r \in Deletions |-> IdleDeletion]
    /\ prune = IdlePrune

-----------------------------------------------------------------------------
(***************************************************************************)
(* registerManaged: store the bytes, then create the row.                  *)
(***************************************************************************)
UploadGoes(u, step, copied) ==
    upload' = [upload EXCEPT ![u].step = step, ![u].copied = copied]

UploadEnds(u) == upload' = [upload EXCEPT ![u] = IdleUpload]

\* Checks passed, temporary written.  A failure up to here changes nothing.
UploadBegin(u, d) ==
    /\ upload[u].step = "idle"
    /\ upload' = [upload EXCEPT ![u] = [step |-> "storing", digest |-> d, copied |-> FALSE]]
    /\ UNCHANGED <<file, row, inputs, evidence, deletion, prune>>

\* copyFile with COPYFILE_EXCL creates the destination empty and fills it.
StoreOpen(u) ==
    /\ upload[u].step = "storing"
    /\ LET d == upload[u].digest IN
         \/ /\ file[d].bytes = "none"
            /\ file' = [file EXCEPT ![d] = [bytes |-> "partial", old |-> FALSE, writer |-> u]]
            /\ UploadGoes(u, "copying", TRUE)
         \/ /\ file[d].bytes # "none"       \* EEXIST
            /\ UploadGoes(u, "comparing", FALSE)
            /\ UNCHANGED file
    /\ UNCHANGED <<row, inputs, evidence, deletion, prune>>

\* The copy completes in the file it opened, which may be unlinked by now.
StoreFinish(u) ==
    /\ upload[u].step = "copying"
    /\ LET d == upload[u].digest IN
         file' = IF file[d].writer = u
                   THEN [file EXCEPT ![d].bytes = "whole", ![d].writer = NoUpload]
                   ELSE file
    /\ UploadGoes(u, "stored", TRUE)
    /\ UNCHANGED <<row, inputs, evidence, deletion, prune>>

\* A copy that fails unlinks its destination by name.
StoreFail(u) ==
    /\ upload[u].step = "copying"
    /\ file' = [file EXCEPT ![upload[u].digest] = NoObject]
    /\ UploadEnds(u)
    /\ UNCHANGED <<row, inputs, evidence, deletion, prune>>

\* Mutant: what is stored under the key is taken for the bytes.
StoreCompareUnchecked(u) ==
    /\ upload[u].step = "comparing"
    /\ UploadGoes(u, "stored", FALSE)
    /\ UNCHANGED <<file, row, inputs, evidence, deletion, prune>>

\* Bytes that do not hash to the key, or are gone again, refuse the upload.
StoreCompare(u) ==
    /\ upload[u].step = "comparing"
    /\ IF file[upload[u].digest].bytes = "whole"
         THEN UploadGoes(u, "stored", FALSE)
         ELSE UploadEnds(u)
    /\ UNCHANGED <<file, row, inputs, evidence, deletion, prune>>

CreateRow(u, a) ==
    /\ upload[u].step = "stored"
    /\ row[a].state = "unused"
    /\ row' = [row EXCEPT ![a] = Row("managed", upload[u].digest, upload[u].copied)]
    /\ UploadEnds(u)
    /\ UNCHANGED <<file, inputs, evidence, deletion, prune>>

\* The insert fails, for example as the project is gone.  The object stays.
CreateFail(u) ==
    /\ upload[u].step = "stored"
    /\ UploadEnds(u)
    /\ UNCHANGED <<file, row, inputs, evidence, deletion, prune>>

RegisterReference(a) ==
    /\ row[a].state = "unused"
    /\ row' = [row EXCEPT ![a] = Row("reference", NoDigest, FALSE)]
    /\ UNCHANGED <<file, inputs, evidence, upload, deletion, prune>>

-----------------------------------------------------------------------------
(***************************************************************************)
(* Inputs and evidence.  Their foreign keys need the row to exist, and     *)
(* wait for a transaction that deletes it.                                 *)
(***************************************************************************)
Attach(a) ==
    /\ Present(a) /\ ~Locked(a)
    /\ \/ inputs' = inputs \cup {a} /\ UNCHANGED evidence
       \/ evidence' = evidence \cup {a} /\ UNCHANGED inputs
    /\ UNCHANGED <<file, row, upload, deletion, prune>>

Detach(a) ==
    /\ \/ a \in inputs /\ inputs' = inputs \ {a} /\ UNCHANGED evidence
       \/ a \in evidence /\ evidence' = evidence \ {a} /\ UNCHANGED inputs
    /\ UNCHANGED <<file, row, upload, deletion, prune>>

-----------------------------------------------------------------------------
(***************************************************************************)
(* DELETE /api/media/:id: row, count and object, one after the other.      *)
(***************************************************************************)
DeletionGoes(r, step, last) ==
    deletion' = [deletion EXCEPT ![r].step = step, ![r].last = last]

DeletionEnds(r) == deletion' = [deletion EXCEPT ![r] = IdleDeletion]

DeletionLoads(r, a, step) ==
    deletion' = [deletion EXCEPT ![r] =
                   [step |-> step, id |-> a, digest |-> row[a].digest, last |-> FALSE]]

\* The row goes; onDelete: SetNull takes it from all evidence.
RowDeleted(a) ==
    /\ row' = [row EXCEPT ![a] = Row("deleted", NoDigest, FALSE)]
    /\ evidence' = evidence \ {a}

DeleteFind(r, a) ==
    /\ deletion[r].step = "idle"
    /\ Present(a)
    /\ DeletionLoads(r, a, "found")
    /\ UNCHANGED <<file, row, inputs, evidence, upload, prune>>

\* onDelete: Restrict refuses while an input references the row; deleteMany
\* finds nothing when the row is gone.
DeleteRow(r) ==
    /\ deletion[r].step = "found"
    /\ LET a == deletion[r].id IN
         /\ ~Locked(a)
         /\ \/ /\ Present(a) /\ a \notin inputs
               /\ RowDeleted(a)
               /\ IF deletion[r].digest = NoDigest
                    THEN DeletionEnds(r)
                    ELSE DeletionGoes(r, "deleted", FALSE)
            \/ /\ ~Present(a) \/ a \in inputs
               /\ DeletionEnds(r)
               /\ UNCHANGED <<row, evidence>>
    /\ UNCHANGED <<file, inputs, upload, prune>>

\* Mutant: the object goes with any of its rows.
DeleteCountIgnored(r) ==
    /\ deletion[r].step = "deleted"
    /\ DeletionGoes(r, "removing", TRUE)
    /\ UNCHANGED <<file, row, inputs, evidence, upload, prune>>

DeleteCount(r) ==
    /\ deletion[r].step = "deleted"
    /\ IF Pointing(deletion[r].digest) = {}
         THEN DeletionGoes(r, "removing", TRUE)
         ELSE DeletionEnds(r)
    /\ UNCHANGED <<file, row, inputs, evidence, upload, prune>>

\* storage.delete of either path; its failure is logged and the file stays.
DeleteObject(r) ==
    /\ deletion[r].step = "removing"
    /\ \/ file' = [file EXCEPT ![deletion[r].digest] = NoObject]
       \/ UNCHANGED file
    /\ DeletionEnds(r)
    /\ UNCHANGED <<row, inputs, evidence, upload, prune>>

-----------------------------------------------------------------------------
(***************************************************************************)
(* The orchestrator's deleteArtifact: reference check, row and count in a  *)
(* READ COMMITTED transaction, the object after the commit.                *)
(***************************************************************************)
TransactionCheck(r, a) ==
    /\ deletion[r].step = "idle"
    /\ Present(a)
    /\ a \notin inputs \cup evidence        \* otherwise CONFLICT
    /\ DeletionLoads(r, a, "checked")
    /\ UNCHANGED <<file, row, inputs, evidence, upload, prune>>

TransactionDelete(r) ==
    /\ deletion[r].step = "checked"
    /\ LET a == deletion[r].id IN
         /\ ~Locked(a)
         /\ IF Present(a) /\ a \notin inputs
              THEN DeletionGoes(r, "locked", FALSE)
              ELSE DeletionEnds(r)          \* the statement throws
    /\ UNCHANGED <<file, row, inputs, evidence, upload, prune>>

\* Rows another transaction has deleted and not committed still count.
TransactionCount(r) ==
    /\ deletion[r].step = "locked"
    /\ DeletionGoes(r, "counted", /\ deletion[r].digest # NoDigest
                                  /\ Pointing(deletion[r].digest) \subseteq {deletion[r].id})
    /\ UNCHANGED <<file, row, inputs, evidence, upload, prune>>

TransactionCommit(r) ==
    /\ deletion[r].step = "counted"
    /\ RowDeleted(deletion[r].id)
    /\ IF deletion[r].last
         THEN DeletionGoes(r, "removing", TRUE)
         ELSE DeletionEnds(r)
    /\ UNCHANGED <<file, inputs, upload, prune>>

-----------------------------------------------------------------------------
(***************************************************************************)
(* cleanup-runtime-state and pruneUnreferenced, which skip temporaries.    *)
(* The directories are never removed: rm refuses one without recursive.    *)
(***************************************************************************)
PruneBegin ==
    /\ prune.step = "idle"
    /\ prune' = [IdlePrune EXCEPT !.step = "scanning", !.left = Prefixes,
                   !.kept = {d \in Digests : Pointing(d) # {}}]
    /\ UNCHANGED <<file, row, inputs, evidence, upload, deletion>>

PruneList(p) ==
    /\ prune.entries = {} /\ prune.victim = NoDigest
    /\ p \in prune.left
    /\ prune' = [prune EXCEPT !.left = @ \ {p},
                   !.entries = {d \in Digests \ prune.kept :
                                  Prefix[d] = p /\ file[d].bytes # "none"}]
    /\ UNCHANGED <<file, row, inputs, evidence, upload, deletion>>

\* Mutants: the modification time is not compared, or the wrong way round.
PruneStatAnyAge(d) ==
    /\ d \in prune.entries /\ prune.victim = NoDigest
    /\ prune' = IF file[d].bytes = "none"
                  THEN IdlePrune
                  ELSE [prune EXCEPT !.entries = @ \ {d}, !.victim = d]
    /\ UNCHANGED <<file, row, inputs, evidence, upload, deletion>>

PruneStatYoung(d) ==
    /\ d \in prune.entries /\ prune.victim = NoDigest
    /\ prune' = IF file[d].bytes = "none"
                  THEN IdlePrune
                  ELSE [prune EXCEPT !.entries = @ \ {d},
                          !.victim = IF file[d].old THEN NoDigest ELSE d]
    /\ UNCHANGED <<file, row, inputs, evidence, upload, deletion>>

\* stat throws when the file is gone, and the whole pruning ends.
PruneStat(d) ==
    /\ d \in prune.entries /\ prune.victim = NoDigest
    /\ prune' = IF file[d].bytes = "none"
                  THEN IdlePrune
                  ELSE [prune EXCEPT !.entries = @ \ {d},
                          !.victim = IF file[d].old THEN d ELSE NoDigest]
    /\ UNCHANGED <<file, row, inputs, evidence, upload, deletion>>

PruneRemove ==
    /\ prune.victim # NoDigest
    /\ file' = [file EXCEPT ![prune.victim] = NoObject]
    /\ prune' = [prune EXCEPT !.victim = NoDigest]
    /\ UNCHANGED <<row, inputs, evidence, upload, deletion>>

PruneEnd ==
    /\ prune.step = "scanning" /\ prune.left = {}
    /\ prune.entries = {} /\ prune.victim = NoDigest
    /\ prune' = IdlePrune
    /\ UNCHANGED <<file, row, inputs, evidence, upload, deletion>>

PruneStep ==
    \/ PruneBegin
    \/ \E p \in Prefixes : PruneList(p)
    \/ \E d \in Digests : PruneStat(d)
    \/ PruneRemove
    \/ PruneEnd

-----------------------------------------------------------------------------
(***************************************************************************)
(* Time and restarts.                                                      *)
(***************************************************************************)

\* The cutoff is fixed when a pruning starts, so nothing ages during one.  No
\* upload lasts the 24 hours between its copy and its insert.
Age(d) ==
    /\ prune.step = "idle"
    /\ file[d].bytes # "none" /\ ~file[d].old
    /\ \A u \in Uploads : ~(upload[u].digest = d /\ upload[u].copied)
    /\ file' = [file EXCEPT ![d].old = TRUE]
    /\ UNCHANGED <<row, inputs, evidence, upload, deletion, prune>>

\* The server dies: requests vanish, transactions roll back, files stay.
Crash ==
    /\ upload' = [u \in Uploads |-> IdleUpload]
    /\ deletion' = [r \in Deletions |-> IdleDeletion]
    /\ file' = [d \in Digests |-> [file[d] EXCEPT !.writer = NoUpload]]
    /\ UNCHANGED <<row, inputs, evidence, prune>>

-----------------------------------------------------------------------------
UploadStep(u) ==
    \/ StoreOpen(u)
    \/ StoreFinish(u)
    \/ StoreFail(u)
    \/ StoreCompare(u)
    \/ \E a \in Ids : CreateRow(u, a)
    \/ CreateFail(u)

DeletionStep(r) ==
    \/ DeleteRow(r)
    \/ DeleteCount(r)
    \/ DeleteObject(r)
    \/ TransactionDelete(r)
    \/ TransactionCount(r)
    \/ TransactionCommit(r)

Next ==
    \/ \E u \in Uploads : UploadStep(u) \/ \E d \in Digests : UploadBegin(u, d)
    \/ \E r \in Deletions :
         \/ DeletionStep(r)
         \/ \E a \in Ids : DeleteFind(r, a) \/ TransactionCheck(r, a)
    \/ \E a \in Ids : RegisterReference(a)
    \/ \E a \in Attachable : Attach(a) \/ Detach(a)
    \/ PruneStep
    \/ \E d \in Digests : Age(d)
    \/ Crash

Spec == Init /\ [][Next]_vars

\* Accepted requests run to their answer and the pruning is scheduled.  Between
\* two prunings time passes, so what stays stored grows old.
Fairness ==
    /\ \A u \in Uploads : WF_vars(UploadStep(u))
    /\ \A r \in Deletions : WF_vars(DeletionStep(r))
    /\ WF_vars(PruneStep)
    /\ \A d \in Digests : SF_vars(Age(d))

FairSpec == Spec /\ Fairness

\* No upload overlaps a pruning, or a deletion of a row with the same bytes:
\* the code does not enforce it, and the runs without it show what then fails.
Apart ==
    \A u \in Uploads :
        upload[u].step # "idle" =>
            /\ prune.step = "idle"
            /\ \A r \in Deletions :
                 deletion[r].step # "idle" => deletion[r].digest # upload[u].digest

ApartSpec == Init /\ [][Next /\ Apart']_vars
-----------------------------------------------------------------------------
(***************************************************************************)
(* Properties.                                                             *)
(***************************************************************************)

\* The types of the files, the rows, the requests and the pruning.
TypeOK ==
    /\ file \in [Digests -> Object]
    /\ row \in [Ids -> ArtifactRow]
    /\ inputs \subseteq Ids
    /\ evidence \subseteq Ids
    /\ upload \in [Uploads -> Upload]
    /\ deletion \in [Deletions -> Deletion]
    /\ prune \in Prune

\* Every row that manages bytes finds them stored in full: deduplicated
\* uploads, both deletions, prunings and crashes leave no row without them.
RowsHaveBytes ==
    \A a \in Ids : row[a].state = "managed" => file[row[a].digest].bytes = "whole"

\* The two stores together act as one that registers only stored bytes and
\* discards only unreferenced ones.
Store == INSTANCE ArtifactStore WITH
            stored <- {d \in Digests : file[d].bytes = "whole"},
            catalog <- [a \in Ids |-> [state |-> row[a].state, digest |-> row[a].digest]]

StoreSpec == Store!Spec

\* A row whose upload wrote the bytes keeps them through prunings that overlap
\* uploads and crashes: the 24 hours of pruneUnreferenced protect new objects.
CopiedRowsHaveBytes ==
    \A a \in Ids : row[a].state = "managed" /\ row[a].copied
                    => file[row[a].digest].bytes = "whole"

\* A stored object, whole or left half written by a crash, that no row points
\* at is pruned unless a row comes to point at it.
OrphansCollected ==
    \A d \in Digests :
        file[d].bytes # "none" /\ Pointing(d) = {} ~> file[d].bytes = "none" \/ Pointing(d) # {}

\* "Scheduled maintenance safely removes old, unreferenced objects" (the
\* comment in registerManaged): what a pruning removes, no row points at.
PruneSparesReferenced ==
    [][prune.victim # NoDigest /\ prune'.victim = NoDigest
       /\ file[prune.victim].bytes # "none" => Pointing(prune.victim) = {}]_vars
=============================================================================
