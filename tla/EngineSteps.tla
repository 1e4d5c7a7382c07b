---------------------------- MODULE EngineSteps ----------------------------
(***************************************************************************)
(* The steps a job handler and the geometry engine are made of, as far as  *)
(* the rest of the service can tell them apart: a report of progress, the  *)
(* files that are written, the stages that are kept for a partial report,  *)
(* the errors that may be raised and who catches them.  A procedure is a   *)
(* sequence of steps; GeometryWorker executes it.                          *)
(*                                                                         *)
(* A measure of the geometry is a choice: what it decides (accepted or     *)
(* not, this branch or that, which refusal) is kept, the numbers are not.  *)
(***************************************************************************)
EXTENDS Integers, Sequences

(* Progress is counted in hundredths of a percent.                         *)
Report(percent)       == <<[do |-> "report", at |-> 100 * percent]>>
ReportAt(hundredths)  == <<[do |-> "report", at |-> hundredths]>>
Write(names)          == <<[do |-> "write", names |-> names]>>
Remove(names)         == <<[do |-> "remove", names |-> names]>>
(* A manifest with the size and hash of these files, and one with names.   *)
Manifest(names)       == <<[do |-> "manifest", names |-> names]>>
KeepAll(stages)       == <<[do |-> "keep", stages |-> stages]>>
Keep(stage)           == KeepAll({stage})
(* Goes on, or raises one of the codes.                                    *)
May(class, codes)     == <<[do |-> "may", class |-> class, codes |-> codes]>>
Raise(class, code)    == <<[do |-> "raise", class |-> class, code |-> code]>>
(* Raises what the handler in progress has caught.                         *)
Reraise               == <<[do |-> "reraise"]>>
(* The caught error under another class, with its own code.                *)
RaiseAs(class)        == <<[do |-> "raise_as", class |-> class]>>
(* One of several continuations: the branches are a function.              *)
Choose(branches)      == <<[do |-> "choose", branches |-> branches]>>
Optionally(steps)     == Choose(<< <<>>, steps >>)
(* try ... except ... else: the first clause whose class the error         *)
(* belongs to; the else steps are not under the try.                       *)
On(class, steps)      == [class |-> class, steps |-> steps]
TryElse(body, clauses, orelse) ==
  <<[do |-> "try", body |-> body, clauses |-> clauses, orelse |-> orelse]>>
Try(body, clauses)    == TryElse(body, clauses, <<>>)
(* A call, and the return from it, out of every try inside the call, with  *)
(* the files that it names.                                                *)
Call(body)            == <<[do |-> "call", body |-> body]>>
Return(names)         == <<[do |-> "return", names |-> names]>>
(* What a handler hands over: the files of the last return that it knows,  *)
(* each copied to its published name, and more of its own.                 *)
Hand(as, more)        == <<[do |-> "hand", as |-> as, more |-> more]>>

(* The classes of error the code raises on purpose, each with itself and   *)
(* the classes an except clause may name instead.                          *)
ValueErrors == {"ValueError", "ReconstructionError", "MeshIngestionError", "MeshRepairError",
                "FrameInferenceError", "SectionExtractionError", "PrismaticFitError",
                "CurvedPatchError", "CurvedConversionError", "FacetedFallbackError",
                "ChartParameterizationError", "SurfaceNetworkError", "StepAuditError"}
OtherErrors == {"KeyError", "RuntimeError", "TypeError", "AssertionError", "JobFailure", "WorkerCancelled"}
Belongs(class, to) ==
  \/ class = to
  \/ to = "Exception"
  \/ to = "ValueError" /\ class \in ValueErrors

(* An error that has no code of its own.                                   *)
Plain == {"worker_failed"}

-----------------------------------------------------------------------------
(* Steps that several procedures share.                                    *)

IngestMesh == May("MeshIngestionError",
  {"invalid_path", "unsupported_extension", "content_mismatch", "excessive_bytes",
   "malformed_geometry"})

(* segment_mesh: the settings are in range, the mesh is finite and not      *)
(* empty; a region without an area has no surface, and a freeform one is   *)
(* divided by its curvature when the settings ask for that.                *)
FitPatch          == May("ValueError", Plain)
DivideByCurvature == Optionally(May("ValueError", Plain))
Segment           == May("ValueError", Plain) \o FitPatch \o DivideByCurvature

RepairMesh == May("MeshRepairError", {"operation_failed", "empty_result", "source_mutated"})

(* A shape that is not valid is not tessellated; what is tessellated is    *)
(* written in the three formats of a mesh, under the names of the job.     *)
Tessellate         == May("ValueError", Plain)
WriteMeshes(names) == Write(names)

(* The script of a document is refused when it would import or call what a *)
(* generated script must not; the document itself is already in place.     *)
WriteSource == May("ValueError", Plain) \o Write({"model.cq.py"})

(* Every triangle of the mesh belongs to one patch, and no two triangles   *)
(* coincide, or there is no selection map.                                 *)
PatchSelection == May("ValueError", Plain) \o Write({"patches.glb", "selection-map.json"})

(* export_step_validated: what cannot be exported leaves nothing; the file *)
(* stays when it cannot be read back, and goes when the round trip fails.  *)
ExportStep ==
  May("ValueError", Plain) \o Write({"model.step"}) \o May("ValueError", Plain)
    \o Optionally(Remove({"model.step"}) \o Raise("ValueError", "worker_failed"))
=============================================================================
