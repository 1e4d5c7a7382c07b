--------------------------- MODULE GeometryWorker ---------------------------
(***************************************************************************)
(* One geometry worker: the process that runs the procedure of one job in  *)
(* a directory of its own and sends its events to the supervisor.          *)
(*   services/api/mesh2param_api/jobs/worker.py  worker_main               *)
(* A procedure of WorkerJobs is executed step by step; an error unwinds    *)
(* the calls and tries it is raised in, one at a time.  The supervisor may *)
(* ask for cancellation between any two steps.                             *)
(***************************************************************************)
EXTENDS WorkerJobs, FiniteSets

CONSTANT JobKinds   \* the kinds of job that are run
ASSUME JobKindsAssumption == JobKinds \subseteq Kinds

VARIABLES
  kind,       \* the kind of the job
  todo,       \* the steps that remain of the innermost call or try
  frames,     \* the calls and tries around it, the innermost first
  raised,     \* the error in flight, or NoError
  caught,     \* the error of the clause that is running
  files,      \* of every name: absent, fresh, or stale
  manifested, \* the files whose size and hash are in a manifest, as they are
  kept,       \* the stages and facts on record for a report
  progress,   \* the last progress that was sent
  returned,   \* the files of the last return
  listed,     \* the artifacts the job hands over
  status,     \* running, completed, failed or cancelled
  code,       \* the code of a failure
  cancelled   \* cancellation was asked for, or the supervisor is gone
vars == <<kind, todo, frames, raised, caught, files, manifested, kept, progress, returned,
          listed, status, code, cancelled>>

NoError == [class |-> "none", code |-> "none"]
NoCode  == "none"

AllFiles ==
  MeshFiles \cup ModelFiles \cup SectionFiles \cup FacetedFiles \cup CurvedFiles
    \cup BundleFiles(TRUE) \cup AnalysisFiles \cup SampleFiles
    \cup {"frame.json", "sketches.json", "prismatic.json", "suppressed-regions.json",
          "detail-regions.json", "reconstruction.partial.json", "manifest.json",
          "mesh2param-export.zip", "metrics.json", "residual.glb", "thumbnail.svg"}

(* The source is linked or copied into the directory of the job.           *)
Begin == May("JobFailure", {"invalid_job_payload", "unsupported_file", "source_missing"})
           \o Report(1)

Running == status = "running"
Due(step) == Running /\ raised = NoError /\ todo # <<>> /\ Head(todo).do = step
Rest == Tail(todo)

(* What the frames around a file know of it.                               *)
Noted(names) == [i \in DOMAIN frames |-> [frames[i] EXCEPT !.wrote = @ \cup names]]

Init ==
  \E k \in JobKinds :
    /\ kind = k
    /\ \E i \in DOMAIN Procedures(k) : todo = Begin \o Procedures(k)[i]
    /\ frames = <<>>
    /\ raised = NoError
    /\ caught = NoError
    /\ files = [f \in AllFiles |-> "absent"]
    /\ manifested = {}
    /\ kept = {}
    /\ progress = 0
    /\ returned = {}
    /\ listed = {}
    /\ status = "running"
    /\ code = NoCode
    /\ cancelled = FALSE

-----------------------------------------------------------------------------
(* progress(): a worker that has been cancelled raises instead, whatever   *)
(* the step that reports.                                                  *)
SendProgress ==
  /\ Due("report")
  /\ todo' = Rest
  /\ IF cancelled
     THEN /\ raised' = [class |-> "WorkerCancelled", code |-> "job_cancelled"]
          /\ UNCHANGED progress
     ELSE /\ progress' = IF Head(todo).at > 9900 THEN 9900 ELSE Head(todo).at
          /\ UNCHANGED raised
  /\ UNCHANGED <<kind, frames, caught, files, manifested, kept, returned, listed, status, code,
                 cancelled>>

(* A file that is written again is no longer what a manifest says it is.   *)
WriteFiles ==
  /\ Due("write")
  /\ todo' = Rest
  /\ files' = [f \in AllFiles |-> IF f \in Head(todo).names THEN "fresh" ELSE files[f]]
  /\ manifested' = manifested \ Head(todo).names
  /\ frames' = Noted(Head(todo).names)
  /\ UNCHANGED <<kind, raised, caught, kept, progress, returned, listed, status, code, cancelled>>

RemoveFiles ==
  /\ Due("remove")
  /\ todo' = Rest
  /\ files' = [f \in AllFiles |-> IF f \in Head(todo).names THEN "absent" ELSE files[f]]
  /\ manifested' = manifested \ Head(todo).names
  /\ UNCHANGED <<kind, frames, raised, caught, kept, progress, returned, listed, status, code,
                 cancelled>>

(* The files of a manifest are read, so they must be there.                *)
WriteManifest ==
  /\ Due("manifest")
  /\ todo' = Rest
  /\ IF \E f \in Head(todo).names : files[f] = "absent"
     THEN /\ raised' = [class |-> "OSError", code |-> "worker_failed"]
          /\ UNCHANGED <<files, manifested, frames>>
     ELSE /\ manifested' = Head(todo).names
          /\ files' = [files EXCEPT !["manifest.json"] = "fresh"]
          /\ frames' = Noted({"manifest.json"})
          /\ UNCHANGED raised
  /\ UNCHANGED <<kind, caught, kept, progress, returned, listed, status, code, cancelled>>

Record ==
  /\ Due("keep")
  /\ todo' = Rest
  /\ kept' = kept \cup Head(todo).stages
  /\ UNCHANGED <<kind, frames, raised, caught, files, manifested, progress, returned, listed,
                 status, code, cancelled>>

-----------------------------------------------------------------------------
(* Errors.                                                                 *)
Throw(error) ==
  /\ raised' = error
  /\ todo' = <<>>
  /\ UNCHANGED <<kind, frames, caught, files, manifested, kept, progress, returned, listed,
                 status, code, cancelled>>

RaiseError ==
  \/ /\ Due("may") \/ Due("raise")
     /\ \E c \in IF Head(todo).do = "may" THEN Head(todo).codes ELSE {Head(todo).code} :
          Throw([class |-> Head(todo).class, code |-> c])
  \/ Due("reraise") /\ Throw(caught)
  \/ Due("raise_as") /\ Throw([class |-> Head(todo).class, code |-> caught.code])

GoOn ==
  /\ Due("may")
  /\ todo' = Rest
  /\ UNCHANGED <<kind, frames, raised, caught, files, manifested, kept, progress, returned,
                 listed, status, code, cancelled>>

Branch ==
  /\ Due("choose")
  /\ \E b \in DOMAIN Head(todo).branches : todo' = Head(todo).branches[b] \o Rest
  /\ UNCHANGED <<kind, frames, raised, caught, files, manifested, kept, progress, returned,
                 listed, status, code, cancelled>>

(* Calls and tries.                                                        *)
Enter ==
  /\ Due("try") \/ Due("call")
  /\ LET step == Head(todo)
         isTry == step.do = "try"
     IN  /\ todo' = step.body
         /\ frames' = <<[call |-> ~isTry, wrote |-> {}, rest |-> Rest,
                         clauses |-> IF isTry THEN step.clauses ELSE <<>>,
                         orelse |-> IF isTry THEN step.orelse ELSE <<>>]>> \o frames
  /\ UNCHANGED <<kind, raised, caught, files, manifested, kept, progress, returned, listed,
                 status, code, cancelled>>

Leave ==
  /\ Running /\ raised = NoError /\ todo = <<>> /\ frames # <<>>
  /\ todo' = Head(frames).orelse \o Head(frames).rest
  /\ frames' = Tail(frames)
  /\ UNCHANGED <<kind, raised, caught, files, manifested, kept, progress, returned, listed,
                 status, code, cancelled>>

(* A return leaves the tries of its call with it.                          *)
Calls == {i \in DOMAIN frames : frames[i].call}
ReturnFiles ==
  /\ Due("return")
  /\ returned' = Head(todo).names
  /\ IF Calls = {}
     THEN todo' = Rest /\ UNCHANGED frames
     ELSE LET i == CHOOSE c \in Calls : \A d \in Calls : c <= d
          IN  /\ todo' = frames[i].rest
              /\ frames' = SubSeq(frames, i + 1, Len(frames))
  /\ UNCHANGED <<kind, raised, caught, files, manifested, kept, progress, listed, status, code,
                 cancelled>>

(* The error leaves the innermost frame, or its first clause takes it; the *)
(* files of the attempt that is given up are left as they are.             *)
Takes(error, frame) == {i \in DOMAIN frame.clauses : Belongs(error.class, frame.clauses[i].class)}
Unwind ==
  /\ Running /\ raised # NoError /\ frames # <<>>
  /\ LET frame == Head(frames)
         takes == Takes(raised, frame)
     IN  IF takes = {}
         THEN UNCHANGED <<todo, raised, caught, files>>
         ELSE LET i == CHOOSE c \in takes : \A d \in takes : c <= d
              IN  /\ todo' = frame.clauses[i].steps \o frame.rest
                  /\ caught' = raised
                  /\ raised' = NoError
                  /\ files' = [f \in AllFiles |-> IF f \in frame.wrote /\ files[f] = "fresh"
                                                  THEN "stale" ELSE files[f]]
  /\ frames' = Tail(frames)
  /\ UNCHANGED <<kind, manifested, kept, progress, returned, listed, status, code, cancelled>>

-----------------------------------------------------------------------------
(* The artifacts of the job: known files of the result under their         *)
(* published names, and the others that are there.                         *)
HandOver ==
  /\ Due("hand")
  /\ LET as == Head(todo).as
         known == returned \cap DOMAIN as
         copied == {as[f] : f \in known}
         source(n) == CHOOSE f \in known : as[f] = n
     IN  /\ files' = [n \in AllFiles |-> IF n \in copied THEN files[source(n)] ELSE files[n]]
         /\ listed' = copied \cup {f \in Head(todo).more : files[f] # "absent"}
  /\ todo' = Rest
  /\ UNCHANGED <<kind, frames, raised, caught, manifested, kept, progress, returned, status, code,
                 cancelled>>

(* The end of worker_main.                                                 *)
End(how, why) ==
  /\ status' = how
  /\ code' = why
  /\ UNCHANGED <<kind, todo, frames, raised, caught, files, manifested, kept, progress, returned,
                 listed, cancelled>>

Complete ==
  /\ Running /\ raised = NoError /\ todo = <<>> /\ frames = <<>>
  /\ \/ cancelled /\ End("cancelled", "job_cancelled")
     \/ ~cancelled /\ End("completed", NoCode)
     \/ ~cancelled /\ End("failed", "worker_result_too_large")

Fail ==
  /\ Running /\ raised # NoError /\ frames = <<>>
  /\ End(IF raised.class = "WorkerCancelled" THEN "cancelled" ELSE "failed", raised.code)

(* The supervisor sets the event of the job, or goes away.                 *)
Cancel ==
  /\ Running /\ ~cancelled
  /\ cancelled' = TRUE
  /\ UNCHANGED <<kind, todo, frames, raised, caught, files, manifested, kept, progress, returned,
                 listed, status, code>>

Step ==
  \/ SendProgress \/ WriteFiles \/ RemoveFiles \/ WriteManifest \/ Record
  \/ RaiseError \/ GoOn \/ Branch \/ Enter \/ Leave \/ ReturnFiles \/ Unwind \/ HandOver
  \/ Complete \/ Fail
Next == Step \/ Cancel
Spec == Init /\ [][Next]_vars

-----------------------------------------------------------------------------
(* Properties.                                                             *)

Errors == ValueErrors \cup OtherErrors \cup {"OSError"}

TypeOK ==
  /\ kind \in JobKinds
  /\ raised = NoError \/ raised.class \in Errors
  /\ caught = NoError \/ caught.class \in Errors
  /\ files \in [AllFiles -> {"absent", "fresh", "stale"}]
  /\ progress \in 0..9900
  /\ status \in {"running", "completed", "failed", "cancelled"}
  /\ manifested \cup returned \subseteq AllFiles
  /\ listed \subseteq {f \in AllFiles : files[f] # "absent"}

(* What a rejected hypothesis wrote is never published: an accepted one    *)
(* has written every file of the job again.                                *)
NothingOfARejectedAttempt ==
  status = "completed" => \A f \in listed : files[f] = "fresh"

(* A search for a model that is refused leaves the partial report that     *)
(* explains it, whichever of its hypotheses refused last.                  *)
RefusalIsExplained ==
  (kind = "automatic" /\ status = "failed" /\ code # "worker_failed"
     /\ progress >= 200 /\ listed = {})
    => files["reconstruction.partial.json"] # "absent"

(* What an export or a faceted conversion hands over is in its manifest,   *)
(* as it is: nothing is written after the manifest was made.               *)
ManifestBindsTheSet ==
  (kind \in {"faceted", "export"} /\ status = "completed")
    => listed \ {"manifest.json", "mesh2param-export.zip"} \subseteq manifested

(* No clause of the engine takes a cancellation for a failed hypothesis.   *)
CancelIsNotSwallowed == caught.class # "WorkerCancelled"

(* A curved solid has every hole, cap, cone and bead that was recognized   *)
(* in the mesh, whichever way its top was fitted.                          *)
NoOpeningIsLost ==
  (kind = "curved" /\ status = "completed")
    => \A o \in Openings : Recognized[o] \in kept => Made[o] \in kept

(* A patch that the user locked is never cut in two.                       *)
LockedStaysWhole ==
  (kind = "curved" /\ status = "completed") => ~({"locked", "split"} \subseteq kept)

(* Progress never falls within a job, although hypotheses are given up.    *)
ProgressNeverFalls == [][progress' >= progress]_vars

(* "Preserve the rejection and allow the existing bounded analytic paths   *)
(* to continue": whatever an analytic hypothesis raises, only cancellation *)
(* gets past its try.                                                      *)
IsHypothesis(frame) ==
  frame.clauses # <<>> /\ frame.clauses[1].steps = Write({"prismatic.json"})
HypothesisIsContained ==
  [][(Unwind /\ IsHypothesis(Head(frames)) /\ raised' # NoError)
       => raised.class = "WorkerCancelled"]_vars
=============================================================================
