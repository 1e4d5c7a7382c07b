# Mesh2Param in TLA+

Mesh2Param turns a triangle mesh into a parametric CAD model. A React workspace
edits a project document; a FastAPI service stores projects, versions and files
in SQLite and a content-addressed directory; long computations run as durable
jobs in worker processes that call a geometry engine. These modules model what
several actors change at once (queue, supervisor, file store, projects, event
stream, workspace) and the control of what runs in one process (handlers,
reconstruction routes, compiler, repair, upload readers, patch edits). The
floating-point geometry is not modelled: what a fit or a comparison decides is
a choice.

Paths are relative to `services/api/mesh2param_api/` unless they start with
`engine/` (`engine/mesh2param/`), `apps/` or `docs/`.

## 1. Inventory

| Component | State | Operations | Hard part | Correct means | Module |
|---|---|---|---|---|---|
| Job queue: `db/repository.py:326-1056`, `db/models.py` | `jobs`, `job_attempts`, `uq_jobs_one_active_mutation` | create, cancel, delete, claim, complete, terminalize, retry, recover | reads outside the write transaction | one pending job per project; attempt budget; a result is published once; every job ends | `JobContract`, `JobQueue` |
| Supervisor and child: `jobs/supervisor.py`, `jobs/worker.py`, `jobs/protocol.py` | `active` entries, child and pipe, cancel event | launch, monitor, drain, force-stop, terminalize, shutdown | pipe against signals, exits, crashes; restarts | a running job is owned; a signal beats a late result | `JobQueue`, `GeometryWorker` |
| Content store and collector: `storage/cas.py`, `maintenance.py`, blob rows | files, rows, references, the publication lock | put, commit of references, project deletion, GC pass | two stores without a common transaction; a pass that dies | no referenced file is collected; orphans are | `BlobContract`, `BlobStore` |
| Projects and versions: `db/repository.py:116-290, 1049-1190`, routes | `projects`, `project_states`, `versions`, clients' ETags | rename, replace, version, restore, delete | comparisons before transactions, routes of several; foreign keys | a request is a compare-and-set until two cross; which crossing breaks what | `ProjectContract`, `ProjectStore` |
| Project document: `api/routes/operations.py`, `jobs/handlers.py`, `db/repository.py:326-700` | document, current artifact set, payload of a job | every operation, its handler's patch, `create_source_asset`, `complete_job` | results of old snapshots; comparisons before transactions; files carried by name | evidence and files are of the current source, labels of the current graph | `Conversion` |
| Event log and stream: `db/repository.py:984-1000, 1329`, `api/routes/jobs.py`, `apps/web/src/api/jobs.ts` | bounded log, cursor, watcher, view of the job | append, evict, poll, reconnect, cancel | eviction, retries that restart progress, late answers | nothing skipped; the end is told and shown | `JobWatch` |
| Upload and readers: `security/uploads.py`, `engine/ingest.py` | the staged file | preflight, ingestion | two parsers of one file, with their own lines and indices | they agree on what they both read | `MeshFormats`, `MeshSource` |
| Mesh repair: `engine/repair.py` | mesh, enabled operations | nine operations in order, diagnosis | one makes work for another | what is cleared is clear until holes are filled; holes close | `MeshRepair`, `MeshSource` |
| Handlers and routes: `jobs/handlers.py`, `engine/{reconstruction,prismatic,sections,curved_patch,curved_conversion,faceted}.py` | files of the job, stages kept, errors, progress | each kind of job | exceptions through nested tries; cancellation anywhere | nothing of a rejected attempt is published; refusals explained | `EngineSteps`, `AutomaticRoute`, `CurvedRoute`, `WorkerJobs`, `GeometryWorker` |
| Compiler and registry: `engine/compiler.py`, `engine/topology.py` | body, semantic references, states of features | features, remapping, rollback | a face that is gone or has moved | a reference never names another face | `Compilation` |
| Settings and patch edits: `api/routes/patches.py`, `jobs/handlers.py:58-423`, `engine/segmentation.py` | analysis settings, patches with locks and joins | analyze, update, merge, reconstruct | edits kept by ids of an earlier segmentation; three validators | intent is applied or refused; replay is exact; locks hold until patches are replaced | `JobSettings`, `PatchEdits` |
| Web workspace: `apps/web/src/state/store.ts`, `workspace/WorkspaceController.tsx`, `persistence/` | working document, history, requests, IndexedDB | edit, undo, send, refresh, rename, restore, autosave, reload | answers in any order | writable means the server's graph; edits survive | `Workspace` |
| Samples: `api/routes/samples.py`, `engine/samples.py` | none | open | - | as other jobs | `Conversion`, `WorkerJobs` |
| HTTP application: `app.py`, `api/core.py`, `security/http.py` | settings | If-Match, ETag, limits | - | preconditions before effects | If-Match in `ProjectStore` |
| Fits, comparison, tessellation, export: `engine/segmentation.py`, `comparison.py`, `tessellation.py`, `source.py` | files of the job | accept or refuse, write | refusals inside an attempt | as handlers and routes | `EngineSteps`, `AutomaticRoute` |
| Worker service, downloads, browser-local backend, viewer, Rust core, infrastructure | - | - | - | - | none (section 6) |

How they interact: the API and the supervisor share only the database and the
content store. A request reads and writes rows; the supervisor claims a queued
row, starts a child with a pipe, publishes what the child produced (files under
the publication lock, then rows and the next revision) and closes the attempt.
Cancellation travels through a column the supervisor polls. The collector meets
publishers only at the lock. The browser sees a job through the stream of its
log and the project through requests under If-Match. `PROJECT.json` lists the
hazards line by line.

### Granularity

`db/session.py:15-35` leaves transaction control to the SQLite driver: a SELECT
runs in autocommit and the write transaction opens at the first INSERT, UPDATE
or DELETE, and no table has a version column. In `JobQueue`, `ProjectStore` and
`Conversion` a repository method that reads, decides and writes is therefore two
steps, with other sessions between them; `claim_one` starts with its UPDATE and
is one. `JobWatch`, `PatchEdits` and `Workspace` take such a transaction as one
step: they look at one project or job from outside, and what two crossing
requests do to it is the question of the other three. In the browser a step
ends at each `await`. In a worker a step is a report, a file, an error or a
choice, because a cancellation can be raised at every report.

## 2. Modules

**`JobQueue`.** `jobs` and `attempts` are the two tables; `requests` the API
transactions between read and commit; `active` the supervisor's entries, each
with its process, pipe and signal; `pc`, `focus`, `fence` and `txn` are the
supervisor's task: where it stands, the job and attempt it holds, its open
transaction. `CreateRead`/`CreateCommit` ... `DeleteRead`/`DeleteCommit` are the
routes; `Start`, `RecoverCommit`, `Claim`, `LaunchOk`, `LaunchFail`,
`LaunchRaise`, `Monitor`, the `Receive...` actions, `DrainedAlive`, `ForceStop`,
`DrainedDead`, `Reap`, `StopEntry`, `StopDone`, `Crash` the loop of
`supervisor.py`; `WorkerSend`, `WorkerExit`, `WorkerDie` the child. An exception
runs the `finally` clause (`Raise`). `revision` is only what fences the
publication of a result. Left out: heartbeats, the limit of 100 events per
drain, the order of the queue and `available_at`, children orphaned by a killed
supervisor. **`JobContract`** is what a client is promised of a job, without
supervisor, requests or restarts: it is queued when no other job of its project
is pending, tried within its budget, each try begun when all earlier ones were
lost, and comes to one end, which its last try shares; a cancellation or a
deletion may come at any time. `JobQueue` implements it with `life` = status,
budget and attempts of the rows (`JobsKeepContract`).

**`BlobStore`** has the two stores, `file` and `row`, each with an age (`old` is
past the retention threshold; anything can grow old at any time), the
references, publications (`BeginPublish` takes the shared lock, `PutBlob`,
`ReadRows`, `CommitRefs`, `AbandonPublish`) and passes (`GcLock` takes the
exclusive lock, `GcCandidates`, `GcUnlink`/`GcDropRow`, `GcKnown`, `GcSweep`,
`GcDone`; `GcAbort` ends a pass anywhere). An existing file keeps its old time
(`PutBlob`), which is what makes deduplication dangerous. **`BlobContract`** is
the promise: references are made to stored files, only unreferenced files go.
`BlobStore` implements it with `stored` = the blobs that have a file
(`KeepsContract`).

**`ProjectStore`** is one project: the row with revision, document and name,
`versions`, `issued` ids, what each client was last answered (`known`), and each
request at its stage: `checked` (the route has compared), `read`, `answer`
(committed, the ETag still to be read). `Flush` writes the columns that differ
from what the session loaded, as the ORM does. `InFlight` is the number of
requests served at one time. The history variable `crossed`, which no action
reads, records how requests have crossed: `overwrite` (a request went on from
another row than it had read), `deletion` (a version was deleted that had become
current since it was looked up, or restored that had been deleted), `answer` (an
ETag was read after a further commit). The code prevents none of them, so that
each property says what holds until the crossing that can break it: `deletion`
and `overwrite` for `CurrentIsVersion`, `answer` and `overwrite` for
`TagNamesDocument`. **`ProjectContract`** is the promise of If-Match: a change
compares the document its client was last answered from with the present one
and replaces it in one step. It has no requests; `ChecksAreAtomic` says that up to
the first crossing the transactions of a route come to one such step, the one
that commits. What is promised without an exception (`NoBlindWrite`,
`CurrentExists`, `TagIsDocument`) fails and is in section 3.

**`Conversion`** follows one project from its source to its bundle. A mesh is
its source; a geometry is a number, the shape, and a file is known by the source
and shape it was made from. `Accepted` is `_operation_payload`; the `...Output`
operators are the handlers: fields replaced, files listed, validation state of
the set; `Patched` is `document.update` and the carrying of files by name.
`ListFiles` is the second transaction of an export. Versions, restores and
client edits of the graph (`PatchGraph`, whose metrics are the client's) move
the document under a request or a job. Each writes in two steps: `Reads` takes
the document and compares the revision (`writes`, `completion`), `Commit` and
`Publish` replace whatever the row holds by then, and set `crossed` when that is
not what was read. `Compare` and `CreateJob` are the halves of `create_job`. The
lock of publications is a shared one and keeps no two of these apart. `crossed`
is a history variable here too: what depends on the comparison being enough
holds up to the first crossing (`EvidenceIsOfSource`, `NothingStaleIsPublished`,
`BundleIsTheSet`), what does not depend on it holds always (`LabelIsOfGraph`,
`FacetsHaveTheirMesh`).

**`EngineSteps`, `AutomaticRoute`, `CurvedRoute`, `WorkerJobs`,
`GeometryWorker`.** A handler is a *procedure*: a sequence of steps (report,
write, remove, manifest, keep, may raise, try, call, return, hand over).
`EngineSteps` names, function by function, what a fit, a comparison, a
tessellation or an export may refuse and which files it writes first.
`AutomaticRoute` has the three hypotheses of `reconstruct_file` in their order,
`CurvedRoute` the layouts and openings of the curved conversion, `WorkerJobs`
one procedure per kind of job. `GeometryWorker` runs one: `frames` are the calls
and tries around the step, `raised` the error in flight, `Unwind` takes it out
of one frame at a time and marks what that frame wrote as `stale`. `Cancel` may
come between any two steps and is raised by the next report.

**`Compilation`** is `compile_cadgraph` on bodies along a line: a body is a set of
unit cells, one solid when it is an interval, with a face and an edge at either
end. Booleans, shifts and reflections are exact; whether the kernel fails, and
whether a face that keeps its place is still the same object, is left open.
`Build`, `Validate`, `Remap`, `Register`, `Commit` and `Rollback` are the steps
of one feature, `Remapped` is `remap_against`. **`CompilationContract`** has no
steps within a feature: one happens at once, moving the material as its mode
says, naming something of its own and keeping or losing each earlier name, or it
ends the compilation without a trace. `Compilation` implements it with the state
of the last commit (`FeaturesAreAtomic`).

**`JobWatch`** is one job as a browser sees it: row and bounded log, the generator
of the response with its cursor (`PollJob`, `PollEvents`), what is on the wire,
the watcher of `jobs.ts`, the view in the workspace, refreshes after a
completion, a cancellation and its late answer. `spoiled` names the three ways
the browser can lose the end.

**`Workspace`** is one open project: `client` is the store, `calls` the graph
updates on their way, `ask` the one other request, `refresh` the revision a
refresh has read, `stored` the records of IndexedDB. A document is its graph, a
number. Foreign changes are another tab or a completed job. `Trimmed` is
`trimHistory` with both of its limits, on entries and on their bytes (`Size` is
a constant): an entry that is too large takes every one before it along, and
itself.

**`JobSettings`** holds the validation of the settings, as the API
(`AnalysisAccepts`, `SettingsRefusal`, `Admission`), the page (`Offer`) and the
worker (`ReplayRefusal`) write it. `Offer` tells on what account a reconstruction
is offered: the supported sample, an analysis by the service, or one by the core
that runs in a browser. The last branch is in the definition and in the theorem,
but no run reaches it: no route of the service writes such settings.
**`PatchEdits`** keeps the patches users lock, reclassify, join and merge, and
what a curved conversion makes of the edits after segmenting again. An upload
clears the patches, an analysis replaces them, and so does an automatic
reconstruction that completes (`Completed`): locks, classifications, joins and
merges are gone with them. A merge is not an intent that `IntentIsApplied` speaks
of; the id of a merged patch is one no segmentation makes, so that an edit of one
refuses the conversion. The segmentation is a constant operator from settings
to patches. That it names them apart is assumed: the id is a digest of kind,
centroid, area and fit (`engine/segmentation.py:658`), which two patches of a very
symmetric mesh could share.

**`MeshFormats`** has the two readers as functions on the same files (STL text and
binary, OBJ, PLY): `Preflight` of the API and `Ingestion` of the engine. A file
is a sequence of lines or records. The preflight ends a line at a line feed
only, the engine at every break of `str.splitlines`: a file in which the two
differ has both texts (`split`, `BrokenAt`), where a comment may hide any lines
and another line loses its last words. (The header of a PLY has only one text.)
The faces of an OBJ have the numbers of textures and normals, which the
preflight compares at the end of the file and the engine at once. `Loadings` is
what the mesh library may make of an OBJ: unused points left out, or three
points of its own for each triangle; an OBJ is exempt from the comparison of
counts. **`MeshRepair`** has every repair on meshes of
a plane with integer points. **`MeshSource`** composes them: upload, ingestion,
a repair operation by operation. What the code does in a loop is a recursive
function here (`Reading` of a text, `Keeping` of points, `Roots` of components,
`Clipped` of a hole). `FilesAssumption` says that a file of the model has what
its format gives every file (`Taken`: lines of some length, corners that are
whole numbers, points of the plane): whether it is a good file is what the readers find
out.

The `MC...` modules add symmetry and definitions for TLC. The theorems are in
`JobQueueProofs`, `BlobStoreProofs`, `ProjectStoreProofs`, `ConversionProofs`,
`JobWatchProofs`, `WorkspaceProofs` and `CompilationProofs`, each named after the
module it extends, and in `MeshProofs`, which extends `MeshSource` and
`PatchEdits`, the two modules about the mesh itself.
Operators named `X_Y` in front of `X` are plausible defects of `X`;
`PROJECT.json` says which property each of them breaks.

## 3. What is checked

| Run | Instance | Shows |
|---|---|---|
| `JobQueueRace` | 2 jobs of 1 project, 2 requests open, 2 attempts, no outage | one pending job, single publication, one open attempt, ownership, precedence of signals |
| `JobQueueOutage` | 1 job, 2 attempts, 2 requests open, 2 outages; 262,178 states | `JobsKeepContract` and `TerminalRewrites` through recovery; `EveryJobSettles` |
| `BlobStore` | 2 blobs, 2 projects, 2 publications, 1 collector, batches of 1, 1 aborted pass; 650,928 states | no referenced or counted-on file goes; the contract; orphans are collected |
| `ProjectStore` | 2 clients, 2 versions, 2 names, 2 requests at a time, 4 revisions; 4,754,613 states | `CurrentIsVersion`, `TagNamesDocument`, `ChecksAreAtomic` |
| `Conversion` | 2 sources, one of them not plain, 1 sample, 6 revisions, 3 shapes, 2 requests and a job at a time, up to the first crossing; 4,881,667 states | evidence, facets, labels, staleness, bundles |
| `ConversionRebuild` | the same, 5 revisions, 2 shapes | **violated**: `BuildsArePublished` |
| `GeometryWorker` | all kinds of job, every choice and error, a cancellation anywhere; 45,733 states | rejected attempts, refusals, manifests, cancellation, openings |
| `Compilation` | all well-formed graphs of up to 3 features of a menu of 21; 92,764 states | `FeaturesAreAtomic` (rollback, replacing mirrors), references |
| `JobWatch` | log of 3, pages of 2, 2 attempts, 7 events, 1 broken connection; 878,960 states | `NeitherSkippedNorRepeated`, `EndIsTold`, `ShownEndIsTrue`, `EndIsShown` |
| `Workspace` | 3 revisions, 3 local revisions, 2 updates on their way, history of 2 entries and 2 bytes, entries of 1 to 3 bytes, 1 reload; 6,756,350 states | `WritableGraphIsServers`, `EditsSurvive` |
| `MeshSource` | 20,008 files, one or two edits from good ones, with textures, normals and torn lines; meshes of 2 to 7 triangles with every combination of repairs; 81,124 states | `ReadersAgree`, `NoLeftovers`, `FilledLoopsClose` |
| `PatchEdits` | 3 triangles, 5 kinds of graph, 4 edits or uploads, 12 bodies, 11 reconstructions, 4 older documents; 631,391 states | `IntentIsApplied`, `ReplayIsExact`, `LockHolds` |

Bounds. Two jobs of one project are what the index is about, two attempts what
retries and fences are about; two open requests let each read fall before the
other's commit; two outages reach an outage of the recovery. In `JobQueueRace`
two entries contend, in `JobQueueOutage` time is long. Two publications race for
one digest, and either can deduplicate against an orphan. Two versions make a
parent and a child; with two requests at a time each read falls before or after
the other's commit, and four revisions let a request commit behind two others.
Six revisions of `Conversion` reach an upload, a conversion, a version, another
upload, a restore and the request for a build; three shapes tell the first graph,
its edit and the next conversion apart. `Bounded` follows a behaviour up to its
first crossing, because the properties that hold beyond it are theorems there
too, and allows from the fourth revision on one request at a time beside the job:
that an upload or an edit commits between the two reads and the commit of a job
happens at every revision. Three features are a base, a change and something
that refers to either. A log of three with seven events drops events under a
reader; pages of two split what is left. Three local revisions are two edits
and a refresh between them; a history of two entries and two bytes is full
within them, one entry of two bytes drops the one before it and one of three also
itself, and what the limits leave no room for is the one thing besides a rename
or a restore that `EditsSurvive` lets go. A procedure of `GeometryWorker` is finite, and the
run takes every way through it.

Deadlock is checked in `BlobStore`, where the collector can always start again,
and in `PatchEdits`. The others rest when their jobs are finished, their bounds
reached or their job, compilation or repair is over.

Fairness. `JobQueue`: the supervisor's loop makes a round every poll interval and
visits the queue and every entry, so a step that is due in each round is taken:
weak fairness of the steps in hand (`Advance`), strong fairness of claims, of
the visits and of signals, which other entries' rounds interrupt. `Advance`
includes the start of the supervisor: that it is started again after each of the
finitely many outages is an assumption about the operator, since
`docker-compose.yml` states no restart policy; without it a job of an outage
stays as it was. The timeout and the grace period elapse. `FairSpec` adds that a worker that has sent its
terminal event exits; `HangSpec` does not. Nothing is asked of clients, outages
or a worker's computation. `BlobStore`: a publication begun ends, a pass goes on,
and the collector comes back when the lock is free; `flock` promises nothing
against an endless succession of publishers, and here there are finitely many.
`JobWatch`: the generator polls at its interval (`Serve`), the browser reads
what arrives and its requests are answered or fail (`Listen`, `ReadAnswer`);
nothing is asked of the job, so `EndIsShown` starts where a job is over. Every
connection starts at cursor 0, because the web client sends no `Last-Event-ID`,
and the stale cancellation that `JobQueue` lets through (`TerminalRewrites`) is
not composed with it.

### Disagreements with the documentation

`ConversionRebuild` is the one that has a run: a rebuild, validation or export of
a faceted conversion gives its set the validation state `partial`
(`jobs/handlers.py:1501`), which the CHECK of `artifact_sets`
(`db/models.py:287`) refuses, so that a job whose model compiled ends as
`artifact_publication_failed`, always. That it should be published is said by the
page ("Adjust its sewing tolerance or rebuild that source-bound feature instead",
`apps/web/src/workspace/automaticReconstruction.ts:66`), by the handler, which has
a branch for such a graph, and by its test, which asserts the state of the set of
a rebuild that succeeds (`tests/api/test_job_handler_settings.py:233`:
`== "partial"`); `docs/api.md:72`: "Successful fallback validation is `partial`".

Others follow from properties that stand in the modules and have no run. Add
them to the cfg named and TLC shows them violated:

1. `ChildrenAreTerminated` (`JobQueueOutage.cfg` with `HangSpec`): a signal is
   raised only before the terminal event (`jobs/supervisor.py:251`) and a child
   stopped only after a signal; one that hangs between its event and its exit
   keeps its slot. `docs/security.md:50`: "terminates unresponsive children".
2. `CancelReachesWorker` (`JobQueueRace.cfg`): a cancellation that read `queued`
   and commits after the claim leaves a cancelled job whose worker is not
   signalled (`db/repository.py:899`). `docs/security.md:49`: "enforces
   cancellation".
3. `SweepIsBatched` (`BlobStore.cfg`): the batch bounds the candidate rows, not
   the sweep of unknown files (`maintenance.py:46`; `docs/deployment.md:210`).
4. `NoBlindWrite`, `CurrentExists` and `TagIsDocument` (`ProjectStore.cfg`): two
   requests with the same If-Match both pass the comparison and the second
   commit replaces the first (`db/repository.py:1308`; no `version_id_col` in
   `db/models.py:67-79`); the revision, written as the one read plus one, can even
   go back. `docs/architecture.md:58`: "A stale revision fails; it is never
   silently merged"; `docs/api.md:21`. `crossed` names the ways it comes about.
5. `DeletionRemoves` (`ProjectStore.cfg`): a project with a parent and a child
   version cannot be deleted, because the cascade meets a RESTRICT key
   (`db/models.py:133`; `docs/security.md:40`).
6. `ValidIsMeasured` (`Conversion.cfg`): a build judges the tolerance by the
   metrics the graph carries (`jobs/handlers.py:1245`), and an edited graph
   carries those of another geometry (`docs/validation.md:32`, `:100`).
7. `NeitherSideIsDiscarded` (`Workspace.cfg`): the answer to a rename or a restore
   that crosses an edit replaces the document and its history
   (`apps/web/src/state/store.ts:444`), and a refresh whose entry is too large for
   the history takes the edits before it along, and cannot be undone itself
   (`store.ts:188-191`); `docs/architecture.md:62`: "without discarding either
   side".
8. `SmoothIsMutual` (`PatchEdits.cfg`): a merge takes the joins of one patch with
   it and leaves the neighbours' pointing at an id that is gone
   (`api/routes/patches.py:46`). Every curved conversion is then refused.
9. `AcceptedIsReadable` (`MeshSource.cfg`): the preflight accepts `SOLID` in
   capitals, polygons, numbers of vertices, textures and normals that come below
   the face, faces beyond the first MiB, OBJ files whose triangles have more
   corners than there may be vertices, a comment before the PLY format, lists
   longer than the vertices, and lines with a break that only the engine sees;
   the engine refuses these or may refuse them, and the upload has replaced the
   source by then (`docs/architecture.md:68`). With such a break both may also
   accept and differ: a carriage return in a comment hides a face from the
   preflight that the engine reads. `PreflightOnly` is the list.
10. `IdenticalFaceIsFound` (`Compilation.cfg`): a descriptor is recorded without
    the neighbours and compared with one that has them, so that the promised
    "one exact descriptor match" (`engine/topology.py:409`) is not found until a
    record has been seen once more as the same object.
11. `HypothesisIsContained` (`GeometryWorker.cfg`): a `float(None)` in
    `engine/inference.py:1188` is a TypeError, which the try of
    `engine/reconstruction.py:866-895` does not catch.
12. `EvidenceIsOfSource`, `NothingStaleIsPublished` and `BundleIsTheSet` without
    their condition on `crossed` (`Conversion.cfg` without `Bounded`): two uploads
    with one If-Match, or an upload, a PATCH or a restore beside the completion of
    a job, both pass the comparison (`db/repository.py:203`, `:242`, `:355`,
    `:579`), and the second replaces the document of the first: diagnostics of
    one source beside another, an edit lost to a result that was computed before
    it. `docs/architecture.md:58` again.
13. `NothingReturns` (`MeshSource.cfg`): `fill_small_holes` takes an open triangle
    with no neighbours for a hole of three edges and adds it once more, turned
    (`engine/repair.py:675-706`), after `remove_duplicate_faces` has run.
14. `OfferIsAdmitted` (`PatchEdits.cfg`): the page offers the supported sample
    without looking at its analysis (`automaticReconstruction.ts:129-142`) and the
    API refuses it with `analysis_required` (`api/routes/operations.py:273-286`).
    `automaticReconstruction.ts:28-30`: "a project may only be reconstructed when
    those settings are present". The settings of the browser's core (`:36`,
    `:49-55`) would be offered and refused in the same way.

Read while modelling, without a property: a rebuild or an export of a curved
conversion never compiles, because `_graph_build` resolves artifacts for faceted
features only (`docs/api.md:86`; here `Compiles`); the curved `manifest.json`
maps names to files and has no hashes (`docs/api.md:112`); the web client never
sends `Last-Event-ID` (`docs/api.md:27`), and one failed request for the job
leaves its watcher stuck (`apps/web/src/api/jobs.ts:294`); two quick undos can
leave the workspace `saving` for ever after a conflict; the outbox is written
and never replayed; `fill_small_holes` fills the outer boundary of an open
sheet; a curved conversion ignores the settings of the analysis and an automatic
one the edits of patches; a concave fillet records no removed material;
`reconstruction.partial.json`, which a refusal recommends, is not published; a
set can be stored as valid with a graph labelled invalid.

## 4. What is proved

For every value of the constants under the modules' `ASSUME`s:

- **`JobQueueProofs`**: `TypeOK`, `AttemptBudget`, `OneActiveMutation`. None is
  inductive alone: that a claimed attempt has a number at all needs the budget,
  the budget of a job queued again needs what the supervisor's open transaction
  read, and two retried jobs of one project need the index. `QueueInv` joins
  them with `Requests` (what an open API transaction refers to), `Control` (what
  the supervisor holds at each step) and `Retries` (what is about to be
  queued). Lemma `Rows` reduces every step to one of five changes of the job
  rows, and the invariants follow from those.
  Its second part proves `OneOpenAttempt`, `PublishedOnce`, `SignalPrecedence`,
  `RunningIsOwned` and the action property `TerminalRewrites`. The supervisor
  decides on what it read and writes in a later step; `AttemptInv` says what
  stays true meanwhile: the attempt in hand is open, cancelled, or its row is
  gone for good (`InHand`), and an entry that has not sent its terminal event has
  published nothing (`Entries`). It is inductive relative to `QueueInv`.
  Its third part proves `JobsKeepContract`: every step of requests, supervisor,
  worker or recovery is a step of `JobContract` or changes no `life`. The
  contract begins a try only after all earlier ones were lost, which needs one
  more invariant, `Trials`: every try below the count of a job failed, that at the
  count too while the job is queued, and above it there is none. A recovery ends
  several jobs at once, and so the contract has a step that does.
- **`BlobStoreProofs`**: `TypeOK`, `ReferencesReadable`, `PublicationKept`,
  `MissingFileIsOrphan`, and `KeepsContract`, the refinement of `BlobContract`.
  `StoreInv` adds `LockSeparates` (the exclusive holder is alone), `FreshIsPut`
  and `PassKnows` (what a pass has read is still true, because no reference can
  be made while it holds the lock).
- **`ProjectStoreProofs`**: `TypeOK`, `ParentsExist`, `CurrentIsVersion`,
  `TagNamesDocument` and the refinement `ChecksAreAtomic`, for any number of
  clients and of requests at a time. The first two hold whatever happens. For the
  others `CrossInv` says what a request under way may rely on: `Own` (the version
  it inserts is its own, the one it deletes was not current when it looked), and,
  until something is overwritten, `OrderInv`: no client knows a revision to come
  (`Known`), and what a request has compared and proposes belongs to the present
  row as long as that has the revision it read (`Compared`, `Proposed`, `Carried`).
  A commit without a crossing then proposes one of the contract's changes to the
  document that is there now, though it was computed two transactions ago
  (`WriterIsCurrent`, `CommitIsWrite`).
- **`ConversionProofs`**: `TypeOK`, `EvidenceIsOfSource`, `LabelIsOfGraph`,
  `FacetsHaveTheirMesh`, and the action properties `NothingStaleIsPublished` and
  `BundleIsTheSet`. `ConversionInv` is `Lasting /\ (~crossed => Current)`. `Lasting`
  holds through any crossing: types, labels that name their geometry, and what
  the API demanded of a document being kept with the request and the job.
  `Current` says that until then a revision names one document: a request or job
  of the present revision has seen the present document (`Snapshot`), so that
  comparing revisions is enough. `NoneIsNoGraph` says that the value for "no
  graph" is not a graph.
- **`JobWatchProofs`**: `NeitherSkippedNorRepeated`, `EndIsTold` and
  `ShownEndIsTrue`, for a log and pages of any length. `WatchInv` adds that the log
  has no gap (`NoGap`) and that what the stream knows of the row is still so
  (`StreamOK`). `BrowserInv` continues it to the browser: what is on the wire is in
  order and ends at the cursor, so that the next page begins after it, and every
  place that tells of an end (the log, the wire, a snapshot, a refresh, the answer
  to a cancellation) tells the one the job has, whichever arrives first.
- **`WorkspaceProofs`**: `WritableGraphIsServers` and the action property
  `EditsSurvive`, for histories of any length. `WorkspaceInv` says the same of the
  store and of IndexedDB (`Sound`), since a reload makes one the other: undo is a
  chain that ends at the working graph and redo one that starts there, what a
  redo brings back is not an edit of the user's, and a writable workspace has the
  server's graph. The last needs that an update of the latest edit carries the
  working graph (`Latest`). Trimming takes a prefix of the history, for any sizes
  of entries and any limits, and only as much as does not fit.
- **`CompilationProofs`**: `ResolvedIsOnBody`, `FailureKeepsTheLastValid`,
  `NothingElseIsUndone` and the action property `NeverAnotherFace`, for graphs of
  any length over any menu whose fields have their types (`MenuAssumption`). A
  body stays an interval with one shape in each place, and so every record made
  for a feature finds its shape. Between features each resolved record names a
  shape of the body (`Consistent`); within one, what was saved is consistent and
  no record has changed its place since (`Tracks`), which a rollback from any
  step relies on. `MaterialFollowsMode` is proved from the same invariant: a cut
  only removes and does remove, a boss only adds and does add. For a fillet or a
  chamfer that needs that the edge it names is still at an end of the body.
  Together with `Fresh` (what a feature registers before it is committed is its
  own) this gives `FeaturesAreAtomic`, the refinement of `CompilationContract`:
  only the commit and the rollback are steps of the contract. Its proof found
  what a replacing mirror promises instead: it has the mode of the feature it
  replaces and does to the body from before that one what this mode says. The
  run checks the refinement in place of `FailureKeepsTheLastValid` and
  `NothingElseIsUndone`, which are theorems and need no run of their own: a
  rollback that forgets a part, or a mirror that goes back over another feature,
  breaks the refinement as well.
- **`MeshProofs`**, on `MeshSource`: `ReadersAgree`, `NoLeftovers` and the action
  property `FilledLoopsClose`, for any files, meshes of any size, any limits and any
  settings of repairs. The library's
  induction theorems take an operator and cannot be used, so that the induction is
  over sets: a set of numbers has a least member (`Least`, from well-foundedness),
  and therefore a set with 0 and every successor is `Nat` (`Induction`); `Recursion`
  gives a recursive function that takes its steps, and `Enumerated` says that
  `InOrder` lists each member of a set once. On these rest what the loops compute:
  the merge leaves no two points near each other and one near every point of the
  old mesh (`KeepingCovers`), union-find ends with roots of every triangle
  (`RootsAre`), and each reader counts what it keeps. `ReadersAgree` is a fact
  about the two parsers and a file (`Sound`, `Agreed`), proved format by format, for
  lines torn in any of the ways of `BrokenAt` too, and about what is loaded of it
  (`ReadAsCounted`): whatever the library does with the points of an OBJ, its
  triangles are those that were counted and their corners exist.
  `NoLeftovers` needs `SourceInv`: until a hole is filled the mesh is well formed
  and, when all four clearing operations are wanted, clear of what those before the
  operation that is due remove (`ClearedInOrder`); after the filling it is such a
  mesh with triangles added (`FilledFrom`), and may have double ones again.
  Each operation has to keep what those before it cleared, which is where the
  order matters: removing faces leaves points unreferenced, and a merge makes
  faces degenerate.
  `FilledLoopsClose` is a fact about every well-formed mesh (`FillCloses`), in three
  parts. The walk along a hole from its lowest corner comes back only after the whole
  ring (`LoopWalksRound`): a corner that came twice would close the walk on a part of
  the ring, but the ring is what is reached from any of its corners, and rings lie
  apart (`RingsApart`). Cutting an ear keeps `Closing`: a side of the loop is still on
  the walk or met by a new triangle, and each new side meets a side of the loop,
  another new side or the walk; when three corners are left nothing is open
  (`ClippedCloses`). And since rings lie apart, new triangles touch the edges of no
  ring but their own, so that a ring that is not filled keeps all of its edges.
  `ComponentsAreConnectivity` has no run of its own and is a theorem
  (`ComponentsFollowEdges`): a union joins exactly what has one of the two roots
  (`UnitedJoins`), it joins only sets with triangles that touch, so that they stay
  whole (`WholeTogether`), and every triangle keeps the root of the owners of its
  edges (`RoundShares`). What is kept or dropped as a component is one, then.
- **`MeshProofs`**, on `PatchEdits`: `IntentIsApplied`, `ReplayIsExact` and the action property
  `LockHolds`, for any segmentation that names its patches apart, any settings,
  bodies and number of edits (`SegmentationAssumption`, `UpdatesAssumption`,
  `OlderAssumption`: no version has written an option out of its bounds). Ids are
  sets that no two patches share (`Apart`), so that what is looked up by an id is
  the patch that has it, after merges too; and the patches a document came with
  are those of the settings it names (`Recorded`), after an automatic
  reconstruction as well, which replaces both. `LockHolds` names what may end a
  lock: an update that says so, and an upload, an analysis or an automatic
  reconstruction. `EveryTriangleOnce` follows from
  `Apart`: if the patches of an analysis divide the mesh, so do those that any
  updates and merges make of them.

## 5. What is only model-checked

Everything temporal under fairness (`EveryJobSettles`, `OrphansAreCollected`,
`EndIsShown`) is out of the prover's reach, as is `ENABLED`.

The five invariants of `GeometryWorker` have no theorem because there is nothing
more to say than the run says: its one constant is the set of kinds of job, the
run takes all of them, the procedures and their choices are finite, and nothing is
bounded. A smaller set of kinds has fewer behaviours, so TLC has been through every
value, and a proof would enumerate the same 45,733 states by hand.

## 6. Not modelled

- **Worker service** (`jobs/service.py`, `jobs/lock.py`, `jobs/heartbeat.py`): an
  operating-system lock, a heartbeat file and one call of the supervisor.
- **Downloads** (`api/routes/artifacts.py`): reads only; a collection between the
  check and the open cuts the answer short.
- **Browser-local backend** (`apps/web/src/local/`) and the **Rust core**: a second
  implementation for builds without a server, of one tab and sequential.
- **The geometry of fits, comparison, tessellation and export**
  (`engine/surface_fit.py`, `segmentation.py`, `comparison.py`, `validation.py`):
  floating-point computations on OpenCascade. What each may refuse, and what it
  writes before and after, is in `EngineSteps`; which it does is a choice.
- **Viewer, contracts, infrastructure, scripts**: rendering, schemas,
  configuration.
- In modelled components: heartbeats and the drain limit of the supervisor, the
  temporary files of `put_stream` and the sweeps of job directories, 3MF
  containers and byte decoding, units and normals in repair, several projects at
  a time in the workspace, the quota and project files of the persistence.
