----------------------------- MODULE BlobStore ------------------------------
(***************************************************************************)
(* The content-addressed store and the database rows that keep its files:  *)
(*   storage/cas.py         publication_lock, put_stream, delete_blob      *)
(*   db/repository.py       artifact_blobs rows and the rows that reference*)
(*                          them (source_assets, artifacts)                *)
(*   api/routes/operations.py, jobs/supervisor.py   the two publishers     *)
(*   maintenance.py         the garbage collector                          *)
(*                                                                         *)
(* Files and rows live in two stores with no common transaction.  What     *)
(* keeps them together is the advisory lock (shared for a publisher,       *)
(* exclusive for the collector), the order of the steps taken under it,    *)
(* and the foreign keys.  A process that dies releases the lock and leaves *)
(* what it has done so far.                                                *)
(*                                                                         *)
(* "old" is what lies before the retention threshold; anything may grow    *)
(* old at any time, so nothing depends on how long a step takes.           *)
(* Definitions named X_Y that stand before X are deliberate defects of X,  *)
(* used to check that the properties can fail.                             *)
(***************************************************************************)
EXTENDS Integers, FiniteSets

CONSTANTS
  Blob,       \* digests
  Project,    \* project ids, each of a project that exists at the start
  Publisher,  \* publications: an upload or the completion of a job
  Collector,  \* processes that run the garbage collector
  BatchSize,  \* settings.garbage_collection_batch_size
  MaxAborts   \* bound: collector passes cut short

ASSUME BlobStoreAssumption ==
  /\ Project # {}
  /\ BatchSize \in Nat \ {0}
  /\ MaxAborts \in Nat

VARIABLES
  file,      \* blobs/sha256/...: the file's modification time
  row,       \* artifact_blobs: the row's created_at
  refs,      \* <<project, blob>>: a source asset or an artifact of the project
  projects,  \* the projects not deleted
  pub,       \* the publications
  gc,        \* the collectors
  aborts     \* collector passes cut short so far

vars == <<file, row, refs, projects, pub, gc, aborts>>

Age == {"none", "young", "old"}

(* A publication: blobs still to be put, blobs put, blobs whose row is to  *)
(* be inserted, blobs it carries forward from the previous artifact set.   *)
Publication ==
  [pc : {"new", "put", "commit", "done"}, project : Project,
   todo : SUBSET Blob, put : SUBSET Blob, fresh : SUBSET Blob, inherit : SUBSET Blob]

(* A collector: blobs still to be visited in this phase, the digests it    *)
(* found in artifact_blobs, the files its sweep removed in this pass.      *)
Pass == [pc : {"idle", "locked", "unlink", "row", "sweep"},
         todo : SUBSET Blob, at : SUBSET Blob,
         known : SUBSET Blob, swept : SUBSET Blob]
IdlePass == [pc |-> "idle", todo |-> {}, at |-> {}, known |-> {}, swept |-> {}]

TypeOK ==
  /\ file \in [Blob -> Age]
  /\ row \in [Blob -> Age]
  /\ refs \subseteq Project \X Blob
  /\ projects \subseteq Project
  /\ pub \in [Publisher -> Publication]
  /\ gc \in [Collector -> Pass]
  /\ aborts \in 0 .. MaxAborts

Init ==
  /\ file = [b \in Blob |-> "none"]
  /\ row = [b \in Blob |-> "none"]
  /\ refs = {}
  /\ projects = Project
  /\ \E p \in Project :
       pub = [x \in Publisher |->
         [pc |-> "new", project |-> p, todo |-> {}, put |-> {},
          fresh |-> {}, inherit |-> {}]]
  /\ gc = [c \in Collector |-> IdlePass]
  /\ aborts = 0

Referenced(b) == \E r \in refs : r[2] = b
Publishing(x) == pub[x].pc \in {"put", "commit"}

(* fcntl.flock on .publication.lock, LOCK_SH and LOCK_EX.                  *)
MayShare_Always == TRUE
MayShare == \A c \in Collector : gc[c].pc = "idle"
MayExclude_CollectorsOnly == \A c \in Collector : gc[c].pc = "idle"
MayExclude ==
  /\ \A c \in Collector : gc[c].pc = "idle"
  /\ \A x \in Publisher : ~Publishing(x)

-----------------------------------------------------------------------------
(* Publishing.                                                             *)

BeginPublish(x, p, B) ==
  /\ pub[x].pc = "new"
  /\ B # {}
  /\ MayShare
  /\ pub' = [pub EXCEPT ![x] =
       [pc |-> "put", project |-> p, todo |-> B, put |-> {},
        fresh |-> {}, inherit |-> {}]]
  /\ UNCHANGED <<file, row, refs, projects, gc, aborts>>

(* put_path: a temporary file is linked to the digest's path; a file that  *)
(* is already there is verified and kept, with its modification time.      *)
PutBlob(x, b) ==
  /\ pub[x].pc = "put"
  /\ b \in pub[x].todo
  /\ file' = IF file[b] = "none" THEN [file EXCEPT ![b] = "young"] ELSE file
  /\ pub' = [pub EXCEPT ![x].todo = @ \ {b}, ![x].put = @ \cup {b}]
  /\ UNCHANGED <<row, refs, projects, gc, aborts>>

(* create_source_asset and complete_job, reads: the project, the rows that *)
(* _upsert_blob finds, and the unchanged artifacts of the previous set.    *)
ReadRows(x) ==
  LET p == pub[x].project IN
  /\ pub[x].pc = "put"
  /\ pub[x].todo = {}
  /\ p \in projects
  /\ \E I \in SUBSET {b \in Blob : <<p, b>> \in refs} :
       pub' = [pub EXCEPT
         ![x].pc = "commit",
         ![x].fresh = {b \in pub[x].put : row[b] = "none"},
         ![x].inherit = I]
  /\ UNCHANGED <<file, row, refs, projects, gc, aborts>>

(* ... and their commit: the rows go in if no other session inserted the   *)
(* same digest, and the foreign keys find the project and every digest.    *)
CommitRefs(x) ==
  LET p == pub[x].project
      B == pub[x].put \cup pub[x].inherit
  IN
  /\ pub[x].pc = "commit"
  /\ p \in projects
  /\ \A b \in pub[x].fresh : row[b] = "none"
  /\ \A b \in B \ pub[x].fresh : row[b] # "none"
  /\ row' = [b \in Blob |-> IF b \in pub[x].fresh THEN "young" ELSE row[b]]
  /\ refs' = refs \cup ({p} \X B)
  /\ pub' = [pub EXCEPT ![x].pc = "done"]
  /\ UNCHANGED <<file, projects, gc, aborts>>

(* Any step fails (a file that cannot be stored, a stale revision, a       *)
(* deleted project, a constraint) or the process dies: what was put stays. *)
AbandonPublish(x) ==
  /\ Publishing(x)
  /\ pub' = [pub EXCEPT ![x].pc = "done"]
  /\ UNCHANGED <<file, row, refs, projects, gc, aborts>>

(* delete_project: its source assets, artifact sets and artifacts go with  *)
(* the row (ON DELETE CASCADE); artifact_blobs and the files stay.         *)
DeleteProject(p) ==
  /\ p \in projects
  /\ projects' = projects \ {p}
  /\ refs' = {r \in refs : r[1] # p}
  /\ UNCHANGED <<file, row, pub, gc, aborts>>

-----------------------------------------------------------------------------
(* StorageGarbageCollector.run_once.                                       *)

GcLock(c) ==
  /\ gc[c].pc = "idle"
  /\ MayExclude
  /\ gc' = [gc EXCEPT ![c].pc = "locked"]
  /\ UNCHANGED <<file, row, refs, projects, pub, aborts>>

Orphan(b) == row[b] = "old" /\ ~Referenced(b)

(* orphan_blob_candidates_before: at most a batch of the old orphans.      *)
GcCandidates(c) ==
  LET orphans == {b \in Blob : Orphan(b)} IN
  /\ gc[c].pc = "locked"
  /\ \E B \in SUBSET orphans :
       /\ Cardinality(B) <= BatchSize
       /\ B = orphans \/ Cardinality(B) = BatchSize
       /\ gc' = [gc EXCEPT ![c].pc = "unlink", ![c].todo = B]
  /\ UNCHANGED <<file, row, refs, projects, pub, aborts>>

(* For each candidate, delete_blob ...                                     *)
GcUnlink_SkipMissing(c, b) ==
  /\ gc[c].pc = "unlink"
  /\ b \in gc[c].todo
  /\ file' = [file EXCEPT ![b] = "none"]
  /\ gc' = [gc EXCEPT ![c].pc = "row", ![c].todo = @ \ {b},
                      ![c].at = IF file[b] = "none" THEN {} ELSE {b}]
  /\ UNCHANGED <<row, refs, projects, pub, aborts>>
GcUnlink(c, b) ==
  /\ gc[c].pc = "unlink"
  /\ b \in gc[c].todo
  /\ file' = [file EXCEPT ![b] = "none"]
  /\ gc' = [gc EXCEPT ![c].pc = "row", ![c].todo = @ \ {b}, ![c].at = {b}]
  /\ UNCHANGED <<row, refs, projects, pub, aborts>>

(* ... and delete_orphan_blob_metadata, which looks for references again.  *)
GcDropRow(c) ==
  /\ gc[c].pc = "row"
  /\ row' = [b \in Blob |->
       IF b \in gc[c].at /\ ~Referenced(b) THEN "none" ELSE row[b]]
  /\ gc' = [gc EXCEPT ![c].pc = "unlink", ![c].at = {}]
  /\ UNCHANGED <<file, refs, projects, pub, aborts>>

(* known_blob_digests, then every file of iter_blobs.                      *)
GcKnown(c) ==
  /\ gc[c].pc = "unlink"
  /\ gc[c].todo = {}
  /\ gc' = [gc EXCEPT ![c].pc = "sweep", ![c].todo = Blob,
                      ![c].known = {b \in Blob : row[b] # "none"}]
  /\ UNCHANGED <<file, row, refs, projects, pub, aborts>>

Stray_Known(c, b) == file[b] = "old"
Stray(c, b) == b \notin gc[c].known /\ file[b] = "old"

GcSweep(c, b) ==
  /\ gc[c].pc = "sweep"
  /\ b \in gc[c].todo
  /\ \/ /\ Stray(c, b)
        /\ file' = [file EXCEPT ![b] = "none"]
        /\ gc' = [gc EXCEPT ![c].todo = @ \ {b}, ![c].swept = @ \cup {b}]
     \/ /\ ~Stray(c, b)
        /\ gc' = [gc EXCEPT ![c].todo = @ \ {b}]
        /\ UNCHANGED file
  /\ UNCHANGED <<row, refs, projects, pub, aborts>>

GcDone(c) ==
  /\ gc[c].pc = "sweep"
  /\ gc[c].todo = {}
  /\ gc' = [gc EXCEPT ![c] = IdlePass]
  /\ UNCHANGED <<file, row, refs, projects, pub, aborts>>

(* An exception ends the pass, or the process dies in it.                  *)
GcAbort(c) ==
  /\ gc[c].pc # "idle"
  /\ aborts < MaxAborts
  /\ aborts' = aborts + 1
  /\ gc' = [gc EXCEPT ![c] = IdlePass]
  /\ UNCHANGED <<file, row, refs, projects, pub>>

(* Time passes the retention threshold of a file or of a row.              *)
GrowOld(b) ==
  /\ \/ /\ file[b] = "young"
        /\ file' = [file EXCEPT ![b] = "old"]
        /\ UNCHANGED row
     \/ /\ row[b] = "young"
        /\ row' = [row EXCEPT ![b] = "old"]
        /\ UNCHANGED file
  /\ UNCHANGED <<refs, projects, pub, gc, aborts>>

-----------------------------------------------------------------------------
PublisherStep(x) ==
  \/ \E b \in Blob : PutBlob(x, b)
  \/ ReadRows(x) \/ CommitRefs(x) \/ AbandonPublish(x)

PassStep(c) ==
  \/ GcCandidates(c) \/ GcDropRow(c) \/ GcKnown(c) \/ GcDone(c)
  \/ \E b \in Blob : GcUnlink(c, b) \/ GcSweep(c, b)

Next ==
  \/ \E x \in Publisher : \/ PublisherStep(x)
                          \/ \E p \in Project, B \in SUBSET Blob : BeginPublish(x, p, B)
  \/ \E p \in Project : DeleteProject(p)
  \/ \E c \in Collector : PassStep(c) \/ GcLock(c) \/ GcAbort(c)
  \/ \E b \in Blob : GrowOld(b)

Spec == Init /\ [][Next]_vars

(* Fairness.  A publication that has begun comes to an end, a pass goes on *)
(* and the collector's loop starts another one when the lock is free.      *)
(* Publications are finitely many here, so the exclusive lock is not       *)
(* starved by an endless succession of shared ones.                        *)
FairSpec ==
  /\ Spec
  /\ \A x \in Publisher : WF_vars(PublisherStep(x))
  /\ \A c \in Collector : WF_vars(PassStep(c)) /\ WF_vars(GcLock(c))

-----------------------------------------------------------------------------
(* Properties.                                                             *)

(* Whatever an artifact or a source asset references is in artifact_blobs  *)
(* and its file is in the store: no collection, in whatever process, slips *)
(* between a publication's files and its commit, or meets a deduplicated   *)
(* file, an interrupted pass or a deleted project in a way that takes a    *)
(* referenced file.                                                        *)
ReferencesReadable ==
  \A r \in refs : file[r[2]] # "none" /\ row[r[2]] # "none"

(* Until its commit, a publication keeps what it has: the files it put or  *)
(* found, the rows it did not have to insert, the artifacts carried over   *)
(* (unless their project is deleted, and then the commit fails).           *)
PublicationKept ==
  \A x \in Publisher :
    /\ Publishing(x) => \A b \in pub[x].put : file[b] # "none"
    /\ pub[x].pc = "commit" =>
         /\ \A b \in pub[x].put \ pub[x].fresh : row[b] # "none"
         /\ pub[x].project \in projects =>
              \A b \in pub[x].inherit : <<pub[x].project, b>> \in refs

(* A row whose file is missing is one the next pass takes away: it is old  *)
(* and nothing references it (a pass deletes the file before the row).     *)
MissingFileIsOrphan ==
  \A b \in Blob : row[b] # "none" /\ file[b] = "none" =>
    row[b] = "old" /\ ~Referenced(b)

(* The store keeps the contract: references are made to files that are     *)
(* there, and only unreferenced files go.                                  *)
Contract == INSTANCE BlobContract WITH stored <- {b \in Blob : file[b] # "none"}
KeepsContract == Contract!Spec

(* An old row that nothing references does not stay for ever, and neither  *)
(* does an old file without a row.                                         *)
OrphansAreCollected ==
  \A b \in Blob :
    /\ Orphan(b) ~> ~Orphan(b)
    /\ (file[b] = "old" /\ row[b] = "none") ~> (file[b] = "none" \/ row[b] # "none")

(* docs/deployment.md:210: MESH2PARAM_GARBAGE_COLLECTION_BATCH_SIZE is the *)
(* "Maximum metadata or filesystem candidates reconciled per pass".        *)
SweepIsBatched ==
  \A c \in Collector : Cardinality(gc[c].swept) <= BatchSize
=============================================================================
