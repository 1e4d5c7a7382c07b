------------------------------ MODULE JobWatch ------------------------------
(***************************************************************************)
(* One job as a browser sees it: the bounded log of its events, the stream *)
(* that the API makes of the log, the client that watches the stream, and  *)
(* the view of the job in the workspace.                                   *)
(*   services/api/mesh2param_api/db/repository.py   _event, events_after   *)
(*   services/api/mesh2param_api/api/routes/jobs.py job_events             *)
(*   apps/web/src/api/jobs.ts                       watchJob               *)
(*   apps/web/src/workspace/WorkspaceController.tsx trackJob, cancelJob    *)
(*   apps/web/src/state/store.ts                    setJob, applyJobEvent  *)
(*                                                                         *)
(* A transaction on the job is one step here; what falls between its read  *)
(* and its commit is in JobQueue.  Definitions named X_Y that stand before *)
(* X are deliberate defects of X.                                          *)
(***************************************************************************)
EXTENDS Integers, Sequences, FiniteSets

CONSTANTS
  MaxEvents,      \* events that the log of a job keeps
  PageSize,       \* events that one poll of the stream reads
  MaxAttempts,    \* attempts of the job
  MaxAppends,     \* bound: events the log is ever given
  MaxBreaks       \* bound: how often the connection breaks
ASSUME LogAssumption == MaxEvents \in Nat \ {0} /\ PageSize \in Nat \ {0}

VARIABLES
  job,       \* the row: status, progress, attempt, cancelAsked
  log,       \* the events that are kept, oldest first
  appended,  \* how many events there ever were; the id of the last
  stream,    \* the generator of the response: none, open or ended
  wire,      \* what it has sent and the browser has not read
  yielded,   \* ids that the stream has sent
  breaks,
  watch,     \* the registration of the watcher: state, lastProgress
  view,      \* the job in the workspace: status, progress, connection
  refresh,   \* refreshes of the project that a completion has started
  cancel,    \* the request to cancel: none, sent or read, and its answer
  spoiled    \* what has gone wrong for good in this browser
vars == <<job, log, appended, stream, wire, yielded, breaks, watch, view, refresh,
          cancel, spoiled>>
server == <<job, log, appended>>
client == <<watch, view, refresh, spoiled>>

NoStream == [state |-> "none", cursor |-> 0, polled |-> FALSE, terminal |-> FALSE]
NoAnswer == [state |-> "none", answer |-> [status |-> "none", progress |-> 0]]
Terminal == {"completed", "cancelled", "failed"}
(* The types a watcher listens to; the others pass it by.                  *)
Watched == {"progress"} \cup Terminal
(* Progress is 0 or 1 while a worker reports it, and 2 at the end.         *)
Snapshot(j) == [status |-> j.status, progress |-> j.progress]

Init ==
  /\ job = [status |-> "queued", progress |-> 0, attempt |-> 0, cancelAsked |-> FALSE]
  /\ log = << [id |-> 1, type |-> "state", progress |-> 0] >>
  /\ appended = 1
  /\ stream = NoStream
  /\ wire = <<>>
  /\ yielded = {}
  /\ breaks = 0
  /\ watch = [state |-> "connect", lastProgress |-> 0, snapshot |-> NoAnswer.answer]
  /\ view = [status |-> "queued", progress |-> 0, connection |-> "connecting"]
  /\ refresh = {}
  /\ cancel = NoAnswer
  /\ spoiled = {}

-----------------------------------------------------------------------------
(* The row and its log.                                                    *)

(* _event: a full log gives up its oldest event.                           *)
Kept(events) == IF Len(events) >= MaxEvents THEN Tail(events) ELSE events
Append1(type, progress) ==
  /\ appended < MaxAppends
  /\ appended' = appended + 1
  /\ log' = Append(Kept(log), [id |-> appended + 1, type |-> type, progress |-> progress])

Unwatched == UNCHANGED <<stream, wire, yielded, breaks, watch, view, refresh, spoiled>>

Claim ==
  /\ job.status = "queued"
  /\ job' = [job EXCEPT !.status = "running", !.attempt = @ + 1]
  /\ Append1("state", 0)
  /\ UNCHANGED cancel /\ Unwatched

(* apply_worker_event: progress does not fall within an attempt.           *)
ReportProgress ==
  /\ job.status = "running"
  /\ \E p \in 0..1 :
       LET progress == IF p > job.progress THEN p ELSE job.progress
       IN  /\ job' = [job EXCEPT !.progress = progress]
           /\ Append1("progress", progress)
  /\ UNCHANGED cancel /\ Unwatched

CompleteJob ==
  /\ job.status = "running"
  /\ job' = [job EXCEPT !.status = "completed", !.progress = 2]
  /\ Append1("completed", 2)
  /\ UNCHANGED cancel /\ Unwatched

(* terminalize_job                                                         *)
EndJob ==
  /\ job.status = "running"
  /\ \E s \in {"failed"} \cup (IF job.cancelAsked THEN {"cancelled"} ELSE {}) :
       /\ job' = [job EXCEPT !.status = s]
       /\ Append1(s, job.progress)
  /\ UNCHANGED cancel /\ Unwatched

(* retry_or_fail_crash, recover_abandoned: progress starts again from 0.   *)
CrashJob ==
  /\ job.status = "running"
  /\ IF job.attempt < MaxAttempts /\ ~job.cancelAsked
     THEN /\ job' = [job EXCEPT !.status = "queued", !.progress = 0]
          /\ Append1("retry_scheduled", 0)
     ELSE /\ job' = [job EXCEPT !.status = "failed"]
          /\ Append1("failed", job.progress)
  /\ UNCHANGED cancel /\ Unwatched

-----------------------------------------------------------------------------
(* The stream: each poll reads the row, then the events after the cursor.  *)

(* The log is in the order of the ids, so what is later is a suffix of it. *)
EventsAfter(cursor) ==
  LET seen == Cardinality({i \in DOMAIN log : log[i].id <= cursor})
  IN  SubSeq(log, seen + 1, IF Len(log) - seen < PageSize THEN Len(log) ELSE seen + PageSize)

(* events_after loads the job before the events, in a session of its own.  *)
PollJob ==
  /\ stream.state = "open" /\ ~stream.polled
  /\ stream' = [stream EXCEPT !.polled = TRUE, !.terminal = job.status \in Terminal]
  /\ UNCHANGED <<server, wire, yielded, breaks, client, cancel>>

(* What a poll sends; nothing more, and a job that was over when its row   *)
(* was read, is the end.                                                   *)
Sent_SkipsAhead(page, over) ==
  /\ wire' = wire \o page
  /\ yielded' = yielded \cup {page[i].id : i \in DOMAIN page}
  /\ stream' = IF page = <<>> /\ over
               THEN [stream EXCEPT !.state = "ended"]
               ELSE [stream EXCEPT !.polled = FALSE, !.cursor = appended]
Sent_Hasty(page, over) ==
  /\ wire' = wire \o page
  /\ yielded' = yielded \cup {page[i].id : i \in DOMAIN page}
  /\ stream' = IF over
               THEN [stream EXCEPT !.state = "ended"]
               ELSE [stream EXCEPT !.polled = FALSE,
                       !.cursor = IF page = <<>> THEN @ ELSE page[Len(page)].id]
Sent(page, over) ==
  /\ wire' = wire \o page
  /\ yielded' = yielded \cup {page[i].id : i \in DOMAIN page}
  /\ stream' = IF page = <<>> /\ over
               THEN [stream EXCEPT !.state = "ended"]
               ELSE [stream EXCEPT !.polled = FALSE,
                       !.cursor = IF page = <<>> THEN @ ELSE page[Len(page)].id]

PollEvents ==
  /\ stream.state = "open" /\ stream.polled
  /\ Sent(EventsAfter(stream.cursor), stream.terminal)
  /\ UNCHANGED <<server, breaks, client, cancel>>

(* The connection goes, with what was on its way.                          *)
Break ==
  /\ stream.state # "none" /\ watch.state = "listening"
  /\ breaks < MaxBreaks
  /\ breaks' = breaks + 1
  /\ stream' = NoStream
  /\ wire' = <<>>
  /\ UNCHANGED <<server, yielded, client, cancel>>

-----------------------------------------------------------------------------
(* The watcher.                                                            *)

(* connect: the request has no Last-Event-ID, so the cursor is 0.          *)
Connect ==
  /\ watch.state = "connect"
  /\ stream' = [NoStream EXCEPT !.state = "open"]
  /\ wire' = <<>>
  /\ yielded' = {}
  /\ watch' = [watch EXCEPT !.state = "listening"]
  /\ view' = [view EXCEPT !.connection = "open"]
  /\ UNCHANGED <<server, breaks, refresh, cancel, spoiled>>

(* applyJobEvent; an event behind the view changes nothing.                *)
Applied(v, event) ==
  IF event.progress < v.progress THEN v
  ELSE IF event.type \in Terminal
       THEN [status |-> event.type, progress |-> event.progress, connection |-> "closed"]
       ELSE [v EXCEPT !.progress = event.progress]

(* An event behind the progress that was seen is refused as invalid.       *)
Read(event) == event.progress >= watch.lastProgress

(* A completion is shown once the project has been read again.             *)
ReceiveEvent ==
  /\ watch.state = "listening" /\ wire # <<>>
  /\ LET event == Head(wire)
     IN  IF event.type \notin Watched \/ ~Read(event)
         THEN wire' = Tail(wire) /\ UNCHANGED <<stream, watch, view, refresh>>
         ELSE /\ watch' = [watch EXCEPT !.state = IF event.type \in Terminal THEN "over" ELSE @,
                                     !.lastProgress = event.progress]
              /\ stream' = IF event.type \in Terminal THEN NoStream ELSE stream
              /\ wire' = IF event.type \in Terminal THEN <<>> ELSE Tail(wire)
              /\ view' = IF event.type = "completed"
                         THEN [view EXCEPT !.connection = "closed"] ELSE Applied(view, event)
              /\ refresh' = IF event.type = "completed" THEN refresh \cup {"event"} ELSE refresh
  /\ UNCHANGED <<server, yielded, breaks, cancel, spoiled>>

(* onerror: the stream has ended or broken, the job itself is asked for.   *)
StreamGone ==
  /\ watch.state = "listening" /\ wire = <<>>
  /\ stream.state \in {"none", "ended"}
  /\ stream' = NoStream
  /\ watch' = [watch EXCEPT !.state = "asking"]
  /\ view' = [view EXCEPT !.connection = "reconnecting"]
  /\ UNCHANGED <<server, wire, yielded, breaks, refresh, cancel, spoiled>>

(* The answer is the row at some moment, read later.                       *)
AnswerSnapshot ==
  /\ watch.state = "asking"
  /\ watch' = [watch EXCEPT !.state = "answered", !.snapshot = Snapshot(job)]
  /\ UNCHANGED <<server, stream, wire, yielded, breaks, view, refresh, cancel, spoiled>>

Shown(status) == IF status = "running" THEN "reconnecting" ELSE "closed"
(* onSnapshot, and the stream again after the delay when there is more.    *)
Reconnecting_Never(snapshot) == [watch EXCEPT !.state = "over"]
Reconnecting(snapshot) ==
  IF snapshot.status \in Terminal THEN [watch EXCEPT !.state = "over"]
  ELSE [watch EXCEPT !.state = "connect", !.lastProgress = snapshot.progress]
TakeSnapshot ==
  /\ watch.state = "answered"
  /\ LET snapshot == watch.snapshot
     IN  /\ IF snapshot.status = "completed"
            THEN refresh' = refresh \cup {"snapshot"} /\ UNCHANGED view
            ELSE /\ view' = [status |-> snapshot.status, progress |-> snapshot.progress,
                             connection |-> Shown(snapshot.status)]
                 /\ UNCHANGED refresh
         /\ watch' = Reconnecting(snapshot)
  /\ UNCHANGED <<server, stream, wire, yielded, breaks, cancel, spoiled>>

(* A failed request is reported, and that is all: nothing asks again.      *)
LoseSnapshot ==
  /\ watch.state = "asking"
  /\ watch' = [watch EXCEPT !.state = "stuck"]
  /\ spoiled' = spoiled \cup {"snapshot"}
  /\ UNCHANGED <<server, stream, wire, yielded, breaks, view, refresh, cancel>>

(* refreshProject, and what is shown after it.                             *)
Refreshed ==
  /\ \E from \in refresh :
       /\ refresh' = refresh \ {from}
       /\ view' = IF from = "event"
                  THEN Applied(view, [type |-> "completed", progress |-> 2])
                  ELSE [status |-> "completed", progress |-> 2, connection |-> "closed"]
  /\ UNCHANGED <<server, stream, wire, yielded, breaks, watch, cancel, spoiled>>

LoseRefresh ==
  /\ \E from \in refresh : refresh' = refresh \ {from}
  /\ spoiled' = spoiled \cup {"refresh"}
  /\ UNCHANGED <<server, stream, wire, yielded, breaks, watch, view, cancel>>

-----------------------------------------------------------------------------
(* Cancellation.                                                           *)

(* findActiveJob                                                           *)
Active == view.status \in {"queued", "running"}

SetJob_Optimistic(j) == [status |-> "cancelled", progress |-> j.progress, connection |-> "open"]
SetJob(j) == [status |-> j.status, progress |-> j.progress, connection |-> "open"]

(* request_cancel: the answer is the row as it is afterwards.              *)
RequestCancel ==
  /\ Active /\ cancel = NoAnswer
  /\ LET after == CASE job.status = "queued"  -> [job EXCEPT !.status = "cancelled",
                                                             !.cancelAsked = TRUE]
                    [] job.status = "running" -> [job EXCEPT !.cancelAsked = TRUE]
                    [] OTHER                  -> job
     IN  /\ job' = after
         /\ IF job.status \in {"queued", "running"}
            THEN Append1(IF job.status = "queued" THEN "cancelled" ELSE "cancel_requested",
                         job.progress)
            ELSE UNCHANGED <<log, appended>>
         /\ cancel' = [state |-> "sent", answer |-> Snapshot(after)]
  /\ UNCHANGED <<stream, wire, yielded, breaks, watch, view, refresh, spoiled>>

(* setJob with whatever the answer says, however old it is.                *)
ReadAnswer ==
  /\ cancel.state = "sent"
  /\ cancel' = [cancel EXCEPT !.state = "read"]
  /\ view' = SetJob(cancel.answer)
  /\ spoiled' = IF view.status \in Terminal /\ cancel.answer.status \notin Terminal
                THEN spoiled \cup {"answer"} ELSE spoiled
  /\ UNCHANGED <<server, stream, wire, yielded, breaks, watch, refresh>>

-----------------------------------------------------------------------------
Serve  == PollJob \/ PollEvents
Listen == Connect \/ ReceiveEvent \/ StreamGone \/ AnswerSnapshot \/ TakeSnapshot \/ LoseSnapshot
            \/ Refreshed \/ LoseRefresh
Next ==
  \/ Claim \/ ReportProgress \/ CompleteJob \/ EndJob \/ CrashJob
  \/ Serve \/ Break \/ Listen
  \/ RequestCancel \/ ReadAnswer

(* The stream polls at an interval, the browser reads what arrives, and a  *)
(* request is answered or fails.  Nothing is asked of the job itself.      *)
Fairness == WF_vars(Serve) /\ WF_vars(Listen) /\ WF_vars(ReadAnswer)
Spec == Init /\ [][Next]_vars /\ Fairness

-----------------------------------------------------------------------------
(* Properties.                                                             *)

Over == job.status \in Terminal

(* A stream that ends has sent the event that ended the job: the row is    *)
(* read before the events, so an end that is seen has its event in the log.*)
EndIsTold ==
  stream.state = "ended" => appended \in yielded

(* A connection skips no event of the log: what is behind the cursor was   *)
(* sent, unless the log had already given it up.                           *)
NothingIsSkipped ==
  \A i \in DOMAIN log : log[i].id <= stream.cursor => log[i].id \in yielded

(* Nor does it repeat one, or send one before an earlier one: what is on   *)
(* the wire goes up to the cursor, and a page starts behind it.            *)
NothingIsRepeated ==
  /\ \A i, j \in DOMAIN wire : i < j => wire[i].id < wire[j].id
  /\ \A i \in DOMAIN wire : wire[i].id <= stream.cursor
NeitherSkippedNorRepeated == NothingIsSkipped /\ NothingIsRepeated

(* An end that the workspace shows is the one that the job had, however    *)
(* events, snapshots, refreshes and the answer to a cancellation cross.    *)
ShownEndIsTrue == view.status \in Terminal => view.status = job.status

(* When the job is over the workspace shows it as over, whatever breaks on *)
(* the way: after a retry the watcher refuses events, and learns the end   *)
(* from the job itself.  There are three ways not to: the one request for  *)
(* the job fails, the refresh after a completion fails, or an answer to a  *)
(* cancellation overwrites the end that the stream has told.               *)
EndIsShown == Over ~> (view.status = job.status \/ spoiled # {})
=============================================================================
