----------------------------- MODULE Conversion -----------------------------
(***************************************************************************)
(* One project from its source mesh to its export bundle: what each        *)
(* operation demands of the document, what its handler makes of the        *)
(* snapshot it was given, and what completion leaves in the document.      *)
(*   api/routes/operations.py  _operation_payload, _enqueue, upload_source *)
(*   api/routes/cadgraph.py    patch_cadgraph                              *)
(*   jobs/handlers.py          the handler of every kind of job            *)
(*   jobs/supervisor.py        the publication of a result                 *)
(*   db/repository.py          create_source_asset, complete_job           *)
(*                                                                         *)
(* Transactions.  A method of the repository reads the project, compares   *)
(* revisions and only then writes: its writing transaction opens at the    *)
(* first flush, and nothing in the row guards the update.  So a write of   *)
(* the document is two steps, the read with its comparison and the commit  *)
(* of what was made of the document read, and others commit between them.  *)
(* "crossed" is a history variable: some commit replaced a document other  *)
(* than the one its comparison had read.                                   *)
(*                                                                         *)
(* The queue and its attempts are JobQueue's; here a project has at most   *)
(* one job, which only the supervisor ends.                                *)
(*                                                                         *)
(* Data.  A mesh is its source.  A geometry is a number, its shape: a      *)
(* graph has one, and the number it was measured for.  A file is known by  *)
(* the source and the shape it was made from; files that every handler     *)
(* writes together are one file here.                                      *)
(* Definitions named X_Y that stand before X are deliberate defects of X,  *)
(* used to check that the properties can fail.                             *)
(***************************************************************************)
EXTENDS Integers, FiniteSets

CONSTANTS
  Source,      \* what clients upload
  PlainSource, \* those that are STL in the project's units, with scale 1
  Sample,      \* the sources of bundled samples
  Supported,   \* the samples that automatic reconstruction supports
  None,
  InFlight,    \* bound: requests under way at a time
  Asking,      \* bound: of these, requests for an operation
  MaxRevision, \* bound: the document is replaced up to this revision
  MaxShape     \* bound: geometries ever made

ASSUME ConversionAssumption ==
  /\ PlainSource \subseteq Source
  /\ Supported \subseteq Sample
  /\ Source \cap Sample = {}
  /\ None \notin Source \cup Sample
  /\ MaxRevision \in Nat \ {0} /\ MaxShape \in Nat \ {0}

VARIABLES
  doc,      \* the project's document
  revision, \* and its revision
  saved,    \* the document a version holds
  shapes,   \* how many geometries were made
  writes,   \* requests between their read of the document and their commit of another
  requests, \* requests between the read of the project and create_job
  job,      \* the project's queued or running job
  completion, \* what complete_job has read of the project, before it commits
  ended,    \* how the last job ended
  bundle,   \* what the zip of the last export contains
  crossed   \* history: a commit replaced another document than the one read

vars == <<doc, revision, saved, shapes, writes, requests, job, completion, ended, bundle, crossed>>

Mesh  == Source \cup Sample
Shape == 0 .. MaxShape
File  == {"analysis.json", "source.glb", "repair.json", "repaired.glb", "patches.json",
          "frame.json", "metrics.json", "model.step", "validation.json",
          "source.original.stl", "source-random.stl", "curved-plate.json",
          "faceted-fallback.json", "manifest.json", "project.mesh2param.json",
          "mesh2param-export.zip"}
Made  == [source : Mesh \cup {None}, shape : Shape]
Graph == [kind : {"exact", "faceted", "curved"}, sample : Sample \cup {None},
          source : Mesh, shape : Shape, measured : Shape, fits : BOOLEAN]
Label == [status : {"not-run", "valid", "invalid", "partial"}, shape : Shape]
ASSUME NoneIsNoGraph == None \notin Graph
Evidence == {"diagnostics", "repair", "analysis", "patches"}
Document ==
  [source : Mesh \cup {None}, diagnostics : Mesh \cup {None}, repair : Mesh \cup {None},
   analysis : Mesh \cup {None}, replayable : BOOLEAN, patches : Mesh \cup {None},
   graph : Graph \cup {None}, label : Label \cup {None},
   settings : SUBSET {"supported", "unsupported", "candidates", "faceted", "curved"},
   files : [File -> Made \cup {None}]]
Kind == {"upload", "repair", "analyze", "automatic", "faceted", "curved",
         "rebuild", "validate", "export", "sample_open"}
Build == {"rebuild", "validate", "export"}
(* The payload of a job: the document it was made from, its input revision *)
(* and, for an export, the files listed then.                              *)
Payload == [kind : Kind, seen : Document, revision : 1 .. MaxRevision,
            prior : [File -> Made \cup {None}], stage : {"read", "built", "compared"}]
(* A request that replaces the document: what it read and what it writes.  *)
Write   == [kind : {"upload", "patch", "version", "restore"}, read : Document,
            revision : 1 .. MaxRevision - 1, next : Document]
Reading == [read : Document, revision : 1 .. MaxRevision - 1]

NoFiles == [f \in File |-> None]
Idle    == [kind |-> "none"]

-----------------------------------------------------------------------------
(* What _operation_payload demands of the document.                        *)

SampleRefused(d) ==
  /\ d.graph # None /\ d.graph.sample # None
  /\ \/ "unsupported" \in d.settings
     \/ d.graph.sample \notin Supported

Replayable(d) == d.analysis # None /\ d.replayable

(* An imported faceted feature is bound to the preserved source mesh.      *)
BoundToSource_GraphOnly(d) == d.graph.kind = "faceted" => d.source \in PlainSource \cup Sample
BoundToSource(d) ==
  d.graph.kind = "faceted" => /\ d.source \in PlainSource \cup Sample
                              /\ d.graph.source = d.source

Accepted(kind, d) ==
  \/ kind \in {"repair", "analyze"} /\ d.source # None
  \/ kind \in {"faceted", "curved"} /\ d.source \in PlainSource \cup Sample
  \/ kind = "automatic" /\ d.source # None /\ ~SampleRefused(d) /\ Replayable(d)
  \/ kind \in Build /\ d.graph # None /\ BoundToSource(d)

-----------------------------------------------------------------------------
(* Requests.                                                               *)

MayAsk == Cardinality(writes) + Cardinality(requests) < InFlight

Asked(kind, seen, rev) ==
  [kind |-> kind, seen |-> seen, revision |-> rev, prior |-> NoFiles,
   stage |-> IF kind = "export" THEN "read" ELSE "built"]
Becomes(p, q) == requests' = (requests \ {p}) \cup {q}

(* POST of an operation: the project is read, then the payload is built.   *)
Ask(kind) ==
  /\ MayAsk /\ Cardinality(requests) < Asking /\ Accepted(kind, doc)
  /\ requests' = requests \cup {Asked(kind, doc, revision)}
  /\ UNCHANGED <<doc, revision, saved, shapes, writes, job, completion, ended, bundle, crossed>>

(* An export also lists the current files, in a transaction of its own.    *)
Unlisted_Metrics == {"manifest.json", "mesh2param-export.zip", "project.mesh2param.json",
                     "metrics.json"}
Unlisted == {"manifest.json", "mesh2param-export.zip", "project.mesh2param.json"}
ListFiles(p) ==
  /\ p.stage = "read"
  /\ Becomes(p, [p EXCEPT !.stage = "built",
       !.prior = [f \in File |-> IF f \in Unlisted THEN None ELSE doc.files[f]]])
  /\ UNCHANGED <<doc, revision, saved, shapes, writes, job, completion, ended, bundle, crossed>>

(* create_job compares the revision once more, and inserts the job later:  *)
(* the index of pending jobs admits one for each project.                  *)
Compare(p) ==
  /\ p.stage = "built" /\ p.revision = revision
  /\ Becomes(p, [p EXCEPT !.stage = "compared"])
  /\ UNCHANGED <<doc, revision, saved, shapes, writes, job, completion, ended, bundle, crossed>>

CreateJob(p) ==
  /\ p.stage = "compared" /\ job = Idle
  /\ job' = p /\ requests' = requests \ {p}
  /\ UNCHANGED <<doc, revision, saved, shapes, writes, completion, ended, bundle, crossed>>

Refuse(p) ==
  /\ \/ p.stage = "built" /\ p.revision # revision
     \/ p.stage = "compared" /\ job # Idle
  /\ requests' = requests \ {p}
  /\ UNCHANGED <<doc, revision, saved, shapes, writes, job, completion, ended, bundle, crossed>>

(* POST of a sample: a project of its own, and its job.                    *)
OpenSample(p) ==
  /\ revision = 1 /\ job = Idle /\ requests = {} /\ writes = {}
  /\ job' = [Asked("sample_open", [doc EXCEPT !.source = p], revision) EXCEPT !.stage = "compared"]
  /\ UNCHANGED <<doc, revision, saved, shapes, writes, requests, completion, ended, bundle, crossed>>

-----------------------------------------------------------------------------
(* Requests that write the document.  The revision is the one the client   *)
(* names, compared when the document is read; CreateVersion names none.    *)

Reads(kind, next) ==
  /\ MayAsk /\ revision < MaxRevision
  /\ writes' = writes \cup {[kind |-> kind, read |-> doc, revision |-> revision, next |-> next]}
  /\ UNCHANGED <<doc, revision, saved, requests, job, completion, ended, bundle, crossed>>

(* create_source_asset: the document starts over with the new source; of   *)
(* the settings only the sample's capability is dropped.                   *)
Restarted_KeepFiles(d, s) ==
  [d EXCEPT !.source = s, !.diagnostics = None, !.repair = None, !.analysis = None,
            !.replayable = FALSE, !.patches = None, !.graph = None, !.label = None,
            !.settings = @ \ {"supported", "unsupported"}]
Restarted(d, s) ==
  [d EXCEPT !.source = s, !.diagnostics = None, !.repair = None, !.analysis = None,
            !.replayable = FALSE, !.patches = None, !.graph = None, !.label = None,
            !.settings = @ \ {"supported", "unsupported"}, !.files = NoFiles]
Upload(s) == Reads("upload", Restarted(doc, s)) /\ UNCHANGED shapes

(* PATCH of the CADGraph: the graph the project has, or one a client kept  *)
(* from another source, with edited features; its metrics are the client's.*)
Relabelled_Keep(d) == d.label
Relabelled(d) == [status |-> "not-run", shape |-> 0]

PatchGraph ==
  /\ shapes < MaxShape /\ shapes' = shapes + 1
  /\ \E g \in {doc.graph, IF saved = None THEN None ELSE saved.graph} \ {None} :
       Reads("patch", [doc EXCEPT !.graph = [g EXCEPT !.shape = shapes + 1],
                                  !.label = Relabelled(doc)])

(* A version keeps the document; restoring it puts the document back.      *)
CreateVersion  == saved # doc /\ Reads("version", doc) /\ UNCHANGED shapes
RestoreVersion == saved \notin {None, doc} /\ Reads("restore", saved) /\ UNCHANGED shapes

(* The commit replaces whatever document the row holds by now.  An upload  *)
(* goes on to create its job.                                              *)
Overwrites(r) == r.read # doc \/ r.revision # revision
Commit(w) ==
  /\ doc' = w.next /\ revision' = w.revision + 1
  /\ saved' = IF w.kind = "version" THEN w.next ELSE saved
  /\ writes' = writes \ {w}
  /\ requests' = IF w.kind = "upload" THEN requests \cup {Asked("upload", w.next, w.revision + 1)}
                 ELSE requests
  /\ crossed' = (crossed \/ Overwrites(w))
  /\ UNCHANGED <<shapes, job, completion, ended, bundle>>

-----------------------------------------------------------------------------
(* Handlers: from a payload to the fields of the document they replace,    *)
(* the files they list and the validation state of the set.                *)

Output(patch, source, shape, files, state) ==
  [patch |-> patch, files |-> [f \in files |-> [source |-> source, shape |-> shape]],
   state |-> state]

UploadOutput(j) == LET s == j.seen.source IN
  Output([diagnostics |-> s, analysis |-> s, replayable |-> FALSE],
         s, 0, {"analysis.json"}, "valid")

RepairOutput(j) == LET s == j.seen.source IN
  Output([diagnostics |-> s, repair |-> s],
         s, 0, {"analysis.json", "source.glb", "repair.json", "repaired.glb"}, "valid")

AnalyzeOutput(j) == LET s == j.seen.source IN
  Output([diagnostics |-> s, repair |-> s, analysis |-> s, replayable |-> TRUE, patches |-> s],
         s, 0, {"analysis.json", "source.glb", "repair.json", "repaired.glb", "patches.json"},
         "valid")

NewGraph(kind, sample, s, shape, fits) ==
  [kind |-> kind, sample |-> sample, source |-> s, shape |-> shape, measured |-> shape,
   fits |-> fits]
Within(fits) == IF fits THEN "valid" ELSE "invalid"

(* The automatic path writes the frame only when it takes the measured     *)
(* bracket; the files of its set are called valid in any case.             *)
AutomaticOutput(j, shape, fits, framed) == LET s == j.seen.source IN
  Output([diagnostics |-> s, repair |-> s, analysis |-> s, replayable |-> TRUE, patches |-> s,
          graph |-> NewGraph("exact", None, s, shape, fits),
          label |-> [status |-> Within(fits), shape |-> shape],
          settings |-> j.seen.settings \cup {"candidates"}],
         s, shape,
         {"analysis.json", "source.glb", "repair.json", "repaired.glb", "patches.json",
          "metrics.json", "model.step", "manifest.json"}
           \cup (IF framed THEN {"frame.json"} ELSE {}),
         "valid")

FacetedOutput(j, shape) == LET s == j.seen.source IN
  Output([diagnostics |-> s, repair |-> s,
          graph |-> NewGraph("faceted", None, s, shape, TRUE),
          label |-> [status |-> "partial", shape |-> shape],
          settings |-> (j.seen.settings \ {"candidates"}) \cup {"faceted"}],
         s, shape,
         {"analysis.json", "source.original.stl", "source.glb", "repair.json", "repaired.glb",
          "model.step", "validation.json", "faceted-fallback.json", "manifest.json"},
         "valid")

CurvedOutput(j, shape) == LET s == j.seen.source IN
  Output([diagnostics |-> s, repair |-> s,
          graph |-> NewGraph("curved", None, s, shape, TRUE),
          label |-> [status |-> "valid", shape |-> shape],
          settings |-> (j.seen.settings \ {"candidates"}) \cup {"curved"}],
         s, shape,
         {"analysis.json", "source.original.stl", "source.glb", "repair.json",
          "curved-plate.json", "model.step", "validation.json", "manifest.json"},
         "valid")

SampleOutput(j, shape) == LET p == j.seen.source IN
  Output([source |-> p, graph |-> NewGraph("exact", p, p, shape, TRUE),
          label |-> [status |-> "valid", shape |-> shape],
          settings |-> {IF p \in Supported THEN "supported" ELSE "unsupported"}],
         p, shape, {"source-random.stl", "source.glb", "model.step", "manifest.json"}, "valid")

(* _graph_build compiles the graph of the payload and judges the metrics   *)
(* the graph carries; a changed tolerance changes the judgement.  It gives *)
(* the compiler the mesh of a faceted feature and no other artifact, so    *)
(* that a reconstructed surface network does not compile.                  *)
Compiles(g) == g.kind # "curved"
Status(g) == IF g.kind = "faceted" THEN "partial" ELSE Within(g.fits)
BuildOutput(j, fits) ==
  LET g == [j.seen.graph EXCEPT !.fits = fits]
      own == {"model.step", "validation.json"}
               \cup (IF g.kind = "faceted" THEN {"source.original.stl"} ELSE {})
      made == [source |-> j.seen.source, shape |-> g.shape]
      taken == {f \in File \ own : j.prior[f] # None}
      written == IF j.kind # "export" THEN own
                 ELSE own \cup {"project.mesh2param.json", "manifest.json",
                                "mesh2param-export.zip"}
  IN [patch |-> [graph |-> g, label |-> [status |-> Status(g), shape |-> g.shape]],
      files |-> [f \in written \cup taken |-> IF f \in taken THEN j.prior[f] ELSE made],
      state |-> Status(g)]

Outputs(j) ==
  CASE j.kind = "upload"      -> {UploadOutput(j)}
    [] j.kind = "repair"      -> {RepairOutput(j)}
    [] j.kind = "analyze"     -> {AnalyzeOutput(j)}
    [] j.kind = "automatic"   -> {AutomaticOutput(j, shapes + 1, fits, framed) :
                                    fits \in BOOLEAN, framed \in BOOLEAN}
    [] j.kind = "faceted"     -> {FacetedOutput(j, shapes + 1)}
    [] j.kind = "curved"      -> {CurvedOutput(j, shapes + 1)}
    [] j.kind = "sample_open" -> {SampleOutput(j, shapes + 1)}
    [] j.kind = "validate"    -> {BuildOutput(j, fits) : fits \in BOOLEAN}
    [] OTHER                  -> {BuildOutput(j, j.seen.graph.fits)}

-----------------------------------------------------------------------------
(* complete_job.                                                           *)

(* The states an artifact set may be stored with.                          *)
Storable == {"pending", "valid", "valid-with-warnings", "invalid"}

(* document.update(state_patch), and the names of the previous set that    *)
(* the job does not replace go on with the set.                            *)
Patched(d, out) ==
  [field \in DOMAIN d |->
     IF field = "files"
     THEN [f \in File |-> IF f \in DOMAIN out.files THEN out.files[f] ELSE d.files[f]]
     ELSE IF field \in DOMAIN out.patch THEN out.patch[field] ELSE d[field]]

SameRevision_Unchecked(j) == TRUE
SameRevision(j) == revision = j.revision

(* The handler has a result for complete_job.                              *)
HasResult ==
  /\ job # Idle
  /\ job.kind \in Build => Compiles(job.seen.graph)
  /\ job.kind \in {"automatic", "faceted", "curved", "sample_open"} => shapes < MaxShape

(* The project is read and its revision compared with the job's.           *)
CompareForCompletion ==
  /\ completion = Idle /\ HasResult /\ SameRevision(job) /\ revision < MaxRevision
  /\ completion' = [read |-> doc, revision |-> revision]
  /\ UNCHANGED <<doc, revision, saved, shapes, writes, requests, job, ended, bundle, crossed>>

End(how) == job' = Idle /\ completion' = Idle /\ ended' = how

(* The result is put into the document that was read, and that replaces    *)
(* whatever document the row holds by now.                                 *)
Publish ==
  /\ completion # Idle /\ HasResult
  /\ \E out \in Outputs(job) :
       /\ out.state \in Storable
       /\ doc' = Patched(completion.read, out)
       /\ shapes' = IF "graph" \in DOMAIN out.patch /\ out.patch.graph.shape > shapes
                    THEN shapes + 1 ELSE shapes
       /\ bundle' = IF job.kind # "export" THEN bundle
                    ELSE [f \in File |-> IF f \in DOMAIN out.files \ {"mesh2param-export.zip"}
                                         THEN out.files[f] ELSE None]
  /\ revision' = completion.revision + 1
  /\ crossed' = (crossed \/ Overwrites(completion))
  /\ End("completed")
  /\ UNCHANGED <<saved, writes, requests>>

(* project_revision_conflict                                               *)
Conflict ==
  /\ job # Idle /\ completion = Idle /\ ~SameRevision(job)
  /\ End("conflict")
  /\ UNCHANGED <<doc, revision, saved, shapes, writes, requests, bundle, crossed>>

(* artifact_publication_failed: the CHECK of table artifact_sets refuses   *)
(* the state.                                                              *)
PublicationFails ==
  /\ completion # Idle /\ HasResult
  /\ \E out \in Outputs(job) : out.state \notin Storable
  /\ End("artifact_publication_failed")
  /\ UNCHANGED <<doc, revision, saved, shapes, writes, requests, bundle, crossed>>

(* The handler raises: the geometry is refused, or does not compile; or    *)
(* the job is cancelled, times out or crashes.                             *)
JobFails ==
  /\ job # Idle /\ completion = Idle
  /\ End("failed")
  /\ UNCHANGED <<doc, revision, saved, shapes, writes, requests, bundle, crossed>>

Init ==
  /\ doc = [source |-> None, diagnostics |-> None, repair |-> None, analysis |-> None,
            replayable |-> FALSE, patches |-> None, graph |-> None, label |-> None,
            settings |-> {}, files |-> NoFiles]
  /\ revision = 1 /\ saved = None /\ shapes = 0
  /\ writes = {} /\ requests = {} /\ job = Idle /\ completion = Idle
  /\ ended = "none" /\ bundle = NoFiles /\ crossed = FALSE

Next ==
  \/ \E kind \in Kind : Ask(kind)
  \/ \E p \in requests : ListFiles(p) \/ Compare(p) \/ CreateJob(p) \/ Refuse(p)
  \/ \E s \in Source : Upload(s)
  \/ \E p \in Sample : OpenSample(p)
  \/ PatchGraph \/ CreateVersion \/ RestoreVersion
  \/ \E w \in writes : Commit(w)
  \/ CompareForCompletion \/ Publish \/ Conflict \/ PublicationFails \/ JobFails

Spec == Init /\ [][Next]_vars

-----------------------------------------------------------------------------
TypeOK ==
  /\ doc \in Document /\ revision \in 1 .. MaxRevision
  /\ saved \in Document \cup {None} /\ shapes \in Shape
  /\ writes \subseteq Write /\ requests \subseteq Payload
  /\ job \in Payload \cup {Idle} /\ completion \in Reading \cup {Idle}
  /\ ended \in {"none", "completed", "conflict", "artifact_publication_failed", "failed"}
  /\ bundle \in [File -> Made \cup {None}] /\ crossed \in BOOLEAN

(* Diagnostics, repair, analysis, patches and every file of the current    *)
(* set were made from the project's current source, whatever uploads,      *)
(* restores and completions of jobs follow each other, and however their   *)
(* reads and commits interleave, up to the first commit that replaced      *)
(* another document than the one it had read.                              *)
EvidenceIsOfSource ==
  ~crossed =>
    /\ \A e \in Evidence : doc[e] \in {None, doc.source}
    /\ \A f \in File : doc.files[f] # None => doc.files[f].source = doc.source

(* A result that is published was computed from the very document it       *)
(* replaces: nothing another request did meanwhile is lost or contradicted *)
(* unless that request committed between complete_job's comparison and its *)
(* commit, or such a commit has happened before.                           *)
NothingStaleIsPublished ==
  [][ended' = "completed" /\ job # Idle /\ job' = Idle /\ job.kind # "sample_open" /\ ~crossed'
       => job.seen = doc]_vars

(* The zip of an export holds every file of the set that is published with *)
(* it, itself excepted, and the same content, also when this very commit   *)
(* replaces a document that another request put there meanwhile.           *)
BundleIsTheSet ==
  [][job # Idle /\ job' = Idle /\ ended' = "completed" /\ job.kind = "export" /\ ~crossed
       => \A f \in File \ {"mesh2param-export.zip"} : bundle'[f] = doc'.files[f]]_vars

(* A job that compiles an imported faceted feature is given the mesh the   *)
(* feature was made from, also when a client sent the graph of an earlier  *)
(* source.                                                                 *)
FacetsHaveTheirMesh ==
  job # Idle /\ job.kind \in Build /\ job.seen.graph.kind = "faceted"
    => job.seen.graph.source = job.seen.source

(* A validation that says more than not-run is about the geometry of the   *)
(* current graph.                                                          *)
LabelIsOfGraph ==
  doc.label # None /\ doc.label.status # "not-run"
    => doc.graph # None /\ doc.label.shape = doc.graph.shape

(* A rebuild, validation or export that compiled and was reimported is     *)
(* published unless the project changed meanwhile.                         *)
BuildsArePublished == ended # "artifact_publication_failed"

(* A geometry that is labelled valid was compared with the source.         *)
ValidIsMeasured ==
  doc.label # None /\ doc.label.status = "valid" => doc.graph.measured = doc.graph.shape
=============================================================================
