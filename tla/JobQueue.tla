------------------------------ MODULE JobQueue ------------------------------
(***************************************************************************)
(* The durable job queue of the API service and the supervisor that runs   *)
(* its jobs in worker processes:                                           *)
(*   db/repository.py    the job methods, one transaction each             *)
(*   jobs/supervisor.py  the loop that claims, launches, watches, publishes*)
(*   jobs/worker.py      the child process that computes one attempt       *)
(*                                                                         *)
(* Granularity.  db/session.py leaves SQLite's transaction control at the  *)
(* driver's default: a SELECT runs in autocommit and the write transaction *)
(* opens at the first INSERT, UPDATE or DELETE.  A repository method that  *)
(* reads, decides and writes is therefore two steps here, a read and a     *)
(* commit, with other sessions between them; the commit writes, by primary *)
(* key, the values the read decided.  A method that starts with its UPDATE *)
(* (claim_one) is one step.                                                *)
(*                                                                         *)
(* All jobs mutate their project, as every caller of create_job asks.      *)
(* Definitions named X_Y that stand before X are deliberate defects of X,  *)
(* used to check that the properties can fail.                             *)
(***************************************************************************)
EXTENDS Integers, FiniteSets

CONSTANTS
  Job,          \* job ids; an id is used once
  Project,      \* project ids
  ProjectOf,    \* the project each job is created for
  Client,       \* API requests in progress at one time
  NoJob,        \* the supervisor is at no job
  MaxAttempts,  \* largest max_attempts a job is created with
  Concurrency,  \* settings.worker_concurrency
  MaxRevision,  \* bound: edits stop at this revision
  MaxOutages    \* bound: shutdowns and crashes of the supervisor process

ASSUME JobQueueAssumption ==
  /\ Project # {}
  /\ ProjectOf \in [Job -> Project]
  /\ NoJob \notin Job
  /\ MaxAttempts \in Nat \ {0}
  /\ Concurrency \in Nat \ {0}
  /\ MaxRevision \in Nat
  /\ MaxOutages \in Nat

VARIABLES
  revision,  \* project_states.revision
  jobs,      \* the rows of table jobs
  attempts,  \* the status of the rows of table job_attempts, by attempt_number
  requests,  \* the API transactions between their read and their commit
  active,    \* JobSupervisor.active, with the child process of each entry
  pc,        \* where the supervisor's task stands
  focus,     \* the job it is at
  fence,     \* the attempt (attempt_id and run_token) it holds for that job
  txn,       \* its repository transaction between the read and the commit
  outages    \* supervisor processes that have ended

vars == <<revision, jobs, attempts, requests, active, pc, focus, fence, txn, outages>>
supervisor == <<active, pc, focus, fence, txn, outages>>

-----------------------------------------------------------------------------
(* The tables and the records.                                             *)

Number   == 1 .. MaxAttempts
Pending  == {"queued", "running"}                       \* uq_jobs_one_active_mutation
Terminal == {"completed", "failed", "cancelled"}        \* TERMINAL_JOB_STATUSES
JobStatus == Pending \cup Terminal \cup {"absent", "deleted"}
AttemptStatus == {"none", "running"} \cup Terminal

JobRow == [status : JobStatus, count : 0 .. MaxAttempts, max : Number,
           attempt : 0 .. MaxAttempts, cancel : BOOLEAN, input : Nat]
NoRow(s) == [status |-> s, count |-> 0, max |-> 1, attempt |-> 0,
             cancel |-> FALSE, input |-> 0]

(* What an API transaction read: the job's status, or the project revision. *)
Request == [op : {"idle", "create", "edit", "cancel", "delete"},
            job : Job \cup {NoJob}, project : Project,
            seen : JobStatus, rev : Nat]

Signal  == {"none", "cancel", "timeout", "protocol"}
Message == {"completed", "failed", "cancelled", "torn"}
Entry == [attempt : Number, signal : Signal, terminal : BOOLEAN,
          proc : {"running", "sent", "exited", "crashed"},
          pipe : Message \cup {"empty"}]
NoEntry == [attempt |-> 0]
Launched(n) == [attempt |-> n, signal |-> "none", terminal |-> FALSE,
                proc |-> "running", pipe |-> "empty"]

Txn == [op : {"none", "recover", "retry", "failed", "cancelled", "completed"},
        jobs : SUBSET Job, retry : SUBSET Job,
        next : {"loop", "drain", "exit", "stopping"}]
NoTxn == [op |-> "none", jobs |-> {}, retry |-> {}, next |-> "loop"]

PC == {"down", "recover", "loop", "launch", "drain", "exit", "commit", "stopping"}

TypeOK ==
  /\ revision \in [Project -> Nat]
  /\ jobs \in [Job -> JobRow]
  /\ attempts \in [Job -> [Number -> AttemptStatus]]
  /\ requests \in [Client -> Request]
  /\ active \in [Job -> Entry \cup {NoEntry}]
  /\ pc \in PC
  /\ focus \in Job \cup {NoJob}
  /\ fence \in 0 .. MaxAttempts
  /\ txn \in Txn
  /\ outages \in 0 .. MaxOutages

NoAttempts == [n \in Number |-> "none"]
IdleRequest == [op |-> "idle", job |-> NoJob, project |-> CHOOSE p \in Project : TRUE,
                seen |-> "absent", rev |-> 0]

Init ==
  /\ revision = [p \in Project |-> 1]
  /\ jobs = [j \in Job |-> NoRow("absent")]
  /\ attempts = [j \in Job |-> NoAttempts]
  /\ requests = [c \in Client |-> IdleRequest]
  /\ active = [j \in Job |-> NoEntry]
  /\ pc = "down"
  /\ focus = NoJob
  /\ fence = 0
  /\ txn = NoTxn
  /\ outages = 0

Stored(j)  == jobs[j].status \notin {"absent", "deleted"}
Held       == {j \in Job : active[j] # NoEntry}
Alive(j)   == active[j].proc \in {"running", "sent"}

(* The partial unique index uq_jobs_one_active_mutation lets j be pending. *)
IndexFree_QueuedOnly(j) ==
  \A k \in Job \ {j} : ProjectOf[k] = ProjectOf[j] => jobs[k].status # "queued"
IndexFree(j) ==
  \A k \in Job \ {j} : ProjectOf[k] = ProjectOf[j] => jobs[k].status \notin Pending

(* A crashed or abandoned attempt may be followed by another one.           *)
RetryLeft_OffByOne(row) == row.count <= row.max /\ ~row.cancel
RetryLeft(row) == row.count < row.max /\ ~row.cancel

(* The attempt's row is closed with the status of its end.                 *)
Closed_Forgotten(j, n, status) == attempts
Closed(j, n, status) == [attempts EXCEPT ![j][n] = status]

-----------------------------------------------------------------------------
(* API requests.                                                           *)

Reply(c) == requests' = [requests EXCEPT ![c] = IdleRequest]

(* create_job: the If-Match revision is compared with the project's.  A    *)
(* request that fails the comparison (412) changes nothing.                *)
CreateRead(c, j) ==
  /\ requests[c].op = "idle"
  /\ jobs[j].status = "absent"
  /\ \A d \in Client : ~(requests[d].op = "create" /\ requests[d].job = j)
  /\ requests' = [requests EXCEPT ![c] =
       [op |-> "create", job |-> j, project |-> ProjectOf[j],
        seen |-> "absent", rev |-> revision[ProjectOf[j]]]]
  /\ UNCHANGED <<revision, jobs, attempts, supervisor>>

(* ... and the row is inserted, unless the index already holds a pending   *)
(* job of the project (ActiveJobConflictError, 409).                       *)
CreateCommit(c) ==
  LET j == requests[c].job IN
  /\ requests[c].op = "create"
  /\ \/ /\ IndexFree(j)
        /\ \E m \in Number :
             jobs' = [jobs EXCEPT ![j] =
               [status |-> "queued", count |-> 0, max |-> m, attempt |-> 0,
                cancel |-> FALSE, input |-> requests[c].rev]]
     \/ /\ ~IndexFree(j)
        /\ UNCHANGED jobs
  /\ Reply(c)
  /\ UNCHANGED <<revision, attempts, supervisor>>

(* Any route that edits the project document: the revision read passes the *)
(* precondition and the commit stores the next number.                     *)
EditRead(c, p) ==
  /\ requests[c].op = "idle"
  /\ revision[p] < MaxRevision
  /\ requests' = [requests EXCEPT ![c] =
       [op |-> "edit", job |-> NoJob, project |-> p,
        seen |-> "absent", rev |-> revision[p]]]
  /\ UNCHANGED <<revision, jobs, attempts, supervisor>>

EditCommit(c) ==
  /\ requests[c].op = "edit"
  /\ revision' = [revision EXCEPT ![requests[c].project] = requests[c].rev + 1]
  /\ Reply(c)
  /\ UNCHANGED <<jobs, attempts, supervisor>>

(* request_cancel reads the status ...                                     *)
CancelRead(c, j) ==
  /\ requests[c].op = "idle"
  /\ \/ jobs[j].status = "queued"
     \/ jobs[j].status = "running" /\ ~jobs[j].cancel
  /\ requests' = [requests EXCEPT ![c] =
       [op |-> "cancel", job |-> j, project |-> ProjectOf[j],
        seen |-> jobs[j].status, rev |-> 0]]
  /\ UNCHANGED <<revision, jobs, attempts, supervisor>>

(* ... and writes what that status calls for, whatever it is by now.  On a *)
(* row that is gone the UPDATE matches nothing and the request fails.      *)
CancelCommit(c) ==
  LET j == requests[c].job IN
  /\ requests[c].op = "cancel"
  /\ \/ /\ Stored(j) /\ requests[c].seen = "queued"
        /\ jobs' = [jobs EXCEPT ![j].status = "cancelled", ![j].cancel = TRUE]
     \/ /\ Stored(j) /\ requests[c].seen = "running"
        /\ jobs' = [jobs EXCEPT ![j].cancel = TRUE]
     \/ /\ ~Stored(j)
        /\ UNCHANGED jobs
  /\ Reply(c)
  /\ UNCHANGED <<revision, attempts, supervisor>>

(* delete_terminal_job; the attempts go with the row (ON DELETE CASCADE).  *)
DeleteRead(c, j) ==
  /\ requests[c].op = "idle"
  /\ jobs[j].status \in Terminal
  /\ requests' = [requests EXCEPT ![c] =
       [op |-> "delete", job |-> j, project |-> ProjectOf[j],
        seen |-> jobs[j].status, rev |-> 0]]
  /\ UNCHANGED <<revision, jobs, attempts, supervisor>>

DeleteCommit(c) ==
  LET j == requests[c].job IN
  /\ requests[c].op = "delete"
  /\ jobs' = [jobs EXCEPT ![j] = NoRow("deleted")]
  /\ attempts' = [attempts EXCEPT ![j] = NoAttempts]
  /\ Reply(c)
  /\ UNCHANGED <<revision, supervisor>>

-----------------------------------------------------------------------------
(* The worker process of an entry.                                         *)

(* worker_main sends one terminal event.  It acknowledges a cancellation   *)
(* only when the supervisor has set the cancel event.                      *)
WorkerSend(j, m) ==
  /\ active[j] # NoEntry
  /\ active[j].proc = "running"
  /\ m \in {"completed", "failed"} \/ (m = "cancelled" /\ active[j].signal # "none")
  /\ active' = [active EXCEPT ![j].proc = "sent", ![j].pipe = m]
  /\ UNCHANGED <<revision, jobs, attempts, requests, pc, focus, fence, txn, outages>>

(* The process that has sent its terminal event ends with exit code 0.     *)
WorkerExit(j) ==
  /\ active[j] # NoEntry
  /\ active[j].proc = "sent"
  /\ active' = [active EXCEPT ![j].proc = "exited"]
  /\ UNCHANGED <<revision, jobs, attempts, requests, pc, focus, fence, txn, outages>>

(* The process dies: by itself with code 0 and no event, or by a signal or *)
(* a fault, which can cut the message it was writing.                      *)
WorkerDie(j) ==
  /\ active[j] # NoEntry
  /\ \/ /\ active[j].proc = "running"
        /\ \/ active' = [active EXCEPT ![j].proc = "exited"]
           \/ active' = [active EXCEPT ![j].proc = "crashed", ![j].pipe = "torn"]
           \/ active' = [active EXCEPT ![j].proc = "crashed"]
     \/ /\ active[j].proc = "sent"
        /\ active' = [active EXCEPT ![j].proc = "crashed"]
  /\ UNCHANGED <<revision, jobs, attempts, requests, pc, focus, fence, txn, outages>>

-----------------------------------------------------------------------------
(* The supervisor: start, loop, stop.                                      *)

Goto(p, j, n) == pc' = p /\ focus' = j /\ fence' = n

(* recover_abandoned, read: every running job, and whether it runs again.  *)
Start ==
  LET running == {j \in Job : jobs[j].status = "running"} IN
  /\ pc = "down"
  /\ txn' = [op |-> "recover", jobs |-> running, next |-> "loop",
             retry |-> {j \in running : RetryLeft(jobs[j])}]
  /\ Goto("recover", NoJob, 0)
  /\ UNCHANGED <<revision, jobs, attempts, requests, active, outages>>

(* recover_abandoned, commit: one transaction for all of them; a row that  *)
(* is gone, or one that the index no longer admits, fails it and start().  *)
RecoverCommit ==
  /\ pc = "recover"
  /\ txn' = NoTxn
  /\ \/ /\ \A j \in txn.jobs : Stored(j)
        /\ \A j \in txn.retry : IndexFree(j)
        /\ jobs' = [j \in Job |->
             IF j \in txn.retry THEN [jobs[j] EXCEPT !.status = "queued", !.attempt = 0]
             ELSE IF j \in txn.jobs THEN [jobs[j] EXCEPT !.status = "failed"]
             ELSE jobs[j]]
        /\ attempts' = [j \in Job |->
             IF j \in txn.jobs THEN [n \in Number |->
               IF n = jobs[j].attempt THEN "failed" ELSE attempts[j][n]]
             ELSE attempts[j]]
        /\ Goto("loop", NoJob, 0)
     \/ /\ \/ \E j \in txn.jobs : ~Stored(j)
           \/ \E j \in txn.retry : ~IndexFree(j)
        /\ Goto("down", NoJob, 0)
        /\ UNCHANGED <<jobs, attempts>>
  /\ UNCHANGED <<revision, requests, active, outages>>

(* The process stops: it is asked to between two rounds (the entries are   *)
(* then dealt with one by one), or it is killed and its memory is gone.    *)
Stop ==
  /\ pc = "loop"
  /\ outages < MaxOutages
  /\ outages' = outages + 1
  /\ pc' = "stopping"
  /\ UNCHANGED <<revision, jobs, attempts, requests, active, focus, fence, txn>>

Crash ==
  /\ pc # "down"
  /\ outages < MaxOutages
  /\ outages' = outages + 1
  /\ active' = [j \in Job |-> NoEntry]
  /\ txn' = NoTxn
  /\ Goto("down", NoJob, 0)
  /\ UNCHANGED <<revision, jobs, attempts, requests>>

(* An exception escapes a supervisor step: _run's finally clause runs; one *)
(* that escapes the finally clause ends the process.                       *)
Raise(next) ==
  IF next = "stopping"
  THEN /\ Goto("down", NoJob, 0)
       /\ active' = [j \in Job |-> NoEntry]
  ELSE /\ Goto("stopping", NoJob, 0)
       /\ UNCHANGED active

-----------------------------------------------------------------------------
(* The repository calls the supervisor makes for the attempt it holds.     *)

CanTerminalize_AnyStatus(j, n) == jobs[j].attempt = n
CanTerminalize(j, n) == jobs[j].status \in Pending /\ jobs[j].attempt = n
CanRetry(j, n)       == jobs[j].status = "running" /\ jobs[j].attempt = n
CanComplete(j, n)    == /\ jobs[j].status = "running"
                        /\ jobs[j].attempt = n
                        /\ attempts[j][n] = "running"

(* The transaction of op for the job at hand, and where the supervisor     *)
(* goes on after it.                                                       *)
Begin(op, j, n, retry, next) ==
  /\ txn' = [op |-> op, jobs |-> {j}, retry |-> retry, next |-> next]
  /\ Goto("commit", j, n)

(* After the call: while draining the entry has its terminal event; from   *)
(* a launch, an exit or the finally clause it is cleaned up.               *)
Settle(next, j, n) ==
  \/ /\ next \in {"drain", "exit"}
     /\ active' = [active EXCEPT ![j].terminal = TRUE]
     /\ Goto(next, j, n)
  \/ /\ next \in {"loop", "stopping"}
     /\ active' = [active EXCEPT ![j] = NoEntry]
     /\ Goto(next, NoJob, 0)

(* terminalize_job, read: status is what it would write.                   *)
Terminalize(status, j, n, next) ==
  /\ CanTerminalize(j, n)
  /\ Begin(status, j, n, {}, next)
  /\ UNCHANGED active

(* terminalize_job, commit, by primary key.                                *)
TerminalizeCommit ==
  /\ pc = "commit" /\ txn.op \in {"failed", "cancelled"}
  /\ txn' = NoTxn
  /\ \/ /\ Stored(focus)
        /\ jobs' = [jobs EXCEPT ![focus].status = txn.op]
        /\ attempts' = Closed(focus, fence, txn.op)
        /\ Settle(txn.next, focus, fence)
     \/ /\ ~Stored(focus)
        /\ Raise(txn.next)
        /\ UNCHANGED <<jobs, attempts>>
  /\ UNCHANGED <<revision, requests, outages>>

(* retry_or_fail_crash, commit.                                            *)
RetryCommit ==
  LET again == focus \in txn.retry IN
  /\ pc = "commit" /\ txn.op = "retry"
  /\ txn' = NoTxn
  /\ \/ /\ Stored(focus)
        /\ again => IndexFree(focus)
        /\ jobs' = [jobs EXCEPT
             ![focus].status = IF again THEN "queued" ELSE "failed",
             ![focus].attempt = IF again THEN 0 ELSE @]
        /\ attempts' = Closed(focus, fence, "failed")
        /\ Settle(txn.next, focus, fence)
     \/ /\ ~Stored(focus) \/ (again /\ ~IndexFree(focus))
        /\ Raise(txn.next)
        /\ UNCHANGED <<jobs, attempts>>
  /\ UNCHANGED <<revision, requests, outages>>

(* complete_job, commit: the project revision it stores follows the one it *)
(* read, which was the job's input revision.  A row that is gone raises;   *)
(* _drain catches that and terminalize_job finds no job.                   *)
CompleteCommit_JobOpen ==
  /\ pc = "commit" /\ txn.op = "completed"
  /\ txn' = NoTxn
  /\ attempts' = Closed(focus, fence, "completed")
  /\ revision' = [revision EXCEPT ![ProjectOf[focus]] = jobs[focus].input + 1]
  /\ Settle(txn.next, focus, fence)
  /\ UNCHANGED <<jobs, requests, outages>>
CompleteCommit ==
  /\ pc = "commit" /\ txn.op = "completed"
  /\ txn' = NoTxn
  /\ \/ /\ Stored(focus)
        /\ jobs' = [jobs EXCEPT ![focus].status = "completed"]
        /\ attempts' = Closed(focus, fence, "completed")
        /\ revision' = [revision EXCEPT ![ProjectOf[focus]] = jobs[focus].input + 1]
     \/ /\ ~Stored(focus)
        /\ UNCHANGED <<revision, jobs, attempts>>
  /\ Settle(txn.next, focus, fence)
  /\ UNCHANGED <<requests, outages>>

-----------------------------------------------------------------------------
(* _launch_available.                                                      *)

(* claim_one: one UPDATE ... RETURNING.                                    *)
Claim(j) ==
  LET n == jobs[j].count + 1 IN
  /\ pc = "loop"
  /\ Cardinality(Held) < Concurrency
  /\ jobs[j].status = "queued"
  /\ jobs' = [jobs EXCEPT ![j].status = "running", ![j].count = n, ![j].attempt = n]
  /\ attempts' = [attempts EXCEPT ![j][n] = "running"]
  /\ Goto("launch", j, n)
  /\ UNCHANGED <<revision, requests, active, txn, outages>>

LaunchOk ==
  /\ pc = "launch"
  /\ active' = [active EXCEPT ![focus] = Launched(fence)]
  /\ Goto("loop", NoJob, 0)
  /\ UNCHANGED <<revision, jobs, attempts, requests, txn, outages>>

(* Staging the prior artifacts or starting the process fails: the job is   *)
(* failed; any other exception (the work directory) leaves it running.     *)
LaunchFail_Ignored ==
  /\ pc = "launch"
  /\ Goto("loop", NoJob, 0)
  /\ UNCHANGED <<revision, jobs, attempts, requests, active, txn, outages>>
LaunchFail ==
  /\ pc = "launch"
  /\ \/ Terminalize("failed", focus, fence, "loop")
     \/ /\ ~CanTerminalize(focus, fence)
        /\ Goto("loop", NoJob, 0)
        /\ UNCHANGED <<active, txn>>
  /\ UNCHANGED <<revision, jobs, attempts, requests, outages>>

LaunchRaise ==
  /\ pc = "launch"
  /\ outages < MaxOutages
  /\ outages' = outages + 1
  /\ Raise("loop")
  /\ UNCHANGED <<revision, jobs, attempts, requests, txn>>

-----------------------------------------------------------------------------
(* _monitor and _drain.                                                    *)

CancelSeen(j) ==   \* cancellation_requested
  jobs[j].status = "running" /\ jobs[j].attempt = active[j].attempt /\ jobs[j].cancel

(* One round for entry j begins: a signal is raised at most once, and not  *)
(* after a terminal event; cancellation goes before the timeout.           *)
Monitor(j, signal) ==
  /\ pc = "loop"
  /\ active[j] # NoEntry
  /\ LET open == active[j].signal = "none" /\ ~active[j].terminal IN
     \/ /\ signal = "cancel" /\ open /\ CancelSeen(j)
        /\ active' = [active EXCEPT ![j].signal = "cancel"]
     \/ /\ signal = "timeout" /\ open /\ ~CancelSeen(j)
        /\ active' = [active EXCEPT ![j].signal = "timeout"]
     \/ /\ signal = "none" /\ ~(open /\ CancelSeen(j))
        /\ UNCHANGED active
  /\ Goto("drain", j, active[j].attempt)
  /\ UNCHANGED <<revision, jobs, attempts, requests, txn, outages>>

Draining == pc \in {"drain", "exit"}
Took     == [active EXCEPT ![focus].pipe = "empty"]

(* A message that cannot be decoded replaces whatever signal was raised.   *)
ReceiveTorn ==
  /\ Draining /\ active[focus].pipe = "torn"
  /\ active' = [Took EXCEPT ![focus].signal = "protocol"]
  /\ UNCHANGED <<revision, jobs, attempts, requests, pc, focus, fence, txn, outages>>

(* After a timeout every terminal event is dropped, after a cancellation   *)
(* the completed one.                                                      *)
Dropped_TimeoutOnly(signal, m) ==
  signal = "timeout" /\ m \in {"completed", "cancelled", "failed"}
Dropped(signal, m) ==
  \/ signal = "timeout" /\ m \in {"completed", "cancelled", "failed"}
  \/ signal = "cancel" /\ m = "completed"

ReceiveDropped ==
  /\ Draining /\ Dropped(active[focus].signal, active[focus].pipe)
  /\ active' = Took
  /\ UNCHANGED <<revision, jobs, attempts, requests, pc, focus, fence, txn, outages>>

(* cancelled or failed: terminalize_job, or no effect when it declines.    *)
ReceiveEnd ==
  LET m == active[focus].pipe IN
  /\ Draining /\ m \in {"cancelled", "failed"}
  /\ ~Dropped(active[focus].signal, m)
  /\ active' = Took
  /\ \/ /\ CanTerminalize(focus, fence)
        /\ Begin(m, focus, fence, {}, pc)
     \/ /\ ~CanTerminalize(focus, fence)
        /\ UNCHANGED <<pc, focus, fence, txn>>
  /\ UNCHANGED <<revision, jobs, attempts, requests, outages>>

(* completed: _publish_completed up to complete_job's reads.  A job that   *)
(* is no longer this attempt's is left alone; a project whose revision     *)
(* moved, or an output that cannot be stored, fails the job.               *)
ReceiveCompleted ==
  LET j == focus
      took == [Took EXCEPT ![j].terminal = TRUE]
      stale == revision[ProjectOf[j]] # jobs[j].input
      fail == /\ CanTerminalize(j, fence)
              /\ Begin("failed", j, fence, {}, pc)
  IN
  /\ Draining /\ active[j].pipe = "completed"
  /\ ~Dropped(active[j].signal, "completed")
  /\ active' = took
  /\ \/ /\ CanComplete(j, fence) /\ ~stale
        /\ Begin("completed", j, fence, {}, pc)
     \/ /\ CanComplete(j, fence) /\ stale
        /\ fail
     \/ fail                                   \* artifact_publication_failed
     \/ /\ ~CanComplete(j, fence)
        /\ UNCHANGED <<pc, focus, fence, txn>>
  /\ UNCHANGED <<revision, jobs, attempts, requests, outages>>

(* The pipe is drained and the process is alive: next entry, or, once the  *)
(* grace period after a signal is over, the process is stopped.            *)
DrainedAlive ==
  /\ pc = "drain" /\ active[focus].pipe = "empty" /\ Alive(focus)
  /\ Goto("loop", NoJob, 0)
  /\ UNCHANGED <<revision, jobs, attempts, requests, active, txn, outages>>

ForceStop ==
  /\ pc = "drain" /\ active[focus].pipe = "empty" /\ Alive(focus)
  /\ active[focus].signal # "none"
  /\ \/ active' = [active EXCEPT ![focus].proc = "crashed"]
     \/ /\ active[focus].proc = "running"
        /\ active' = [active EXCEPT ![focus].proc = "crashed", ![focus].pipe = "torn"]
  /\ Goto("exit", focus, fence)
  /\ UNCHANGED <<revision, jobs, attempts, requests, txn, outages>>

DrainedDead ==
  /\ pc = "drain" /\ active[focus].pipe = "empty" /\ ~Alive(focus)
  /\ Goto("exit", focus, fence)
  /\ UNCHANGED <<revision, jobs, attempts, requests, active, txn, outages>>

(* The process is dead and its pipe drained again: an entry without its    *)
(* terminal event goes through _terminalize_missing, then _cleanup.        *)
MissingStatus(j) ==
  IF active[j].signal = "cancel" THEN "cancelled"
  ELSE IF active[j].signal \in {"timeout", "protocol"} \/ active[j].proc = "exited"
  THEN "failed"
  ELSE "retry"

Reap_NoTerminalize ==
  /\ pc = "exit" /\ active[focus].pipe = "empty"
  /\ Settle("loop", focus, fence)
  /\ UNCHANGED <<revision, jobs, attempts, requests, txn, outages>>
Reap ==
  LET j == focus
      status == MissingStatus(j)
      open == ~active[j].terminal /\ IF status = "retry" THEN CanRetry(j, fence)
                                                       ELSE CanTerminalize(j, fence)
      again == status = "retry" /\ RetryLeft(jobs[j])
  IN
  /\ pc = "exit" /\ active[j].pipe = "empty"
  /\ \/ /\ open
        /\ Begin(status, j, fence, IF again THEN {j} ELSE {}, "loop")
        /\ UNCHANGED active
     \/ /\ ~open
        /\ Settle("loop", j, fence)
        /\ UNCHANGED txn
  /\ UNCHANGED <<revision, jobs, attempts, requests, outages>>

(* _run's finally clause: each entry is force-stopped and its job failed.  *)
StopEntry(j) ==
  LET n == active[j].attempt IN
  /\ pc = "stopping"
  /\ active[j] # NoEntry
  /\ \/ Terminalize("failed", j, n, "stopping")
     \/ /\ ~CanTerminalize(j, n)
        /\ Settle("stopping", j, n)
        /\ UNCHANGED txn
  /\ UNCHANGED <<revision, jobs, attempts, requests, outages>>

StopDone ==
  /\ pc = "stopping"
  /\ Held = {}
  /\ Goto("down", NoJob, 0)
  /\ UNCHANGED <<revision, jobs, attempts, requests, active, txn, outages>>

-----------------------------------------------------------------------------
Receive == ReceiveTorn \/ ReceiveDropped \/ ReceiveEnd \/ ReceiveCompleted
Commit  == RecoverCommit \/ TerminalizeCommit \/ RetryCommit \/ CompleteCommit

ClientStep(c) ==
  \/ \E j \in Job : CreateRead(c, j) \/ CancelRead(c, j) \/ DeleteRead(c, j)
  \/ \E p \in Project : EditRead(c, p)
  \/ CreateCommit(c) \/ EditCommit(c) \/ CancelCommit(c) \/ DeleteCommit(c)

WorkerStep(j) ==
  \/ \E m \in Message : WorkerSend(j, m)
  \/ WorkerExit(j) \/ WorkerDie(j)

SupervisorStep ==
  \/ Start \/ Stop \/ Crash \/ Commit
  \/ \E j \in Job : Claim(j) \/ StopEntry(j) \/ (\E s \in Signal : Monitor(j, s))
  \/ LaunchOk \/ LaunchFail \/ LaunchRaise
  \/ Receive \/ DrainedAlive \/ ForceStop \/ DrainedDead \/ Reap \/ StopDone

Next ==
  \/ \E c \in Client : ClientStep(c)
  \/ \E j \in Job : WorkerStep(j)
  \/ SupervisorStep

Spec == Init /\ [][Next]_vars

(* Fairness.  The loop visits the queue and every entry in each round, so  *)
(* what is due again and again is done (SF where a round of another entry  *)
(* can come between).  The timeout elapses, and so does the grace period.  *)
(* Shutdowns, crashes, client requests and the worker's own steps are not  *)
(* fair: a worker may compute, or hang, for ever.                          *)
Advance ==
  \/ Start \/ Commit \/ LaunchOk \/ Receive \/ Reap
  \/ DrainedAlive \/ DrainedDead \/ StopDone \/ \E j \in Job : StopEntry(j)

SupervisorFairness ==
  /\ WF_vars(Advance)
  /\ SF_vars(ForceStop)
  /\ \A j \in Job : /\ SF_vars(Claim(j))
                    /\ SF_vars(Monitor(j, "none"))
                    /\ SF_vars(Monitor(j, "cancel") \/ Monitor(j, "timeout"))

(* A worker that may hang at any point.                                    *)
HangSpec == Spec /\ SupervisorFairness

(* A worker that, once its terminal event is sent, does exit.              *)
FairSpec == HangSpec /\ \A j \in Job : WF_vars(WorkerExit(j))

-----------------------------------------------------------------------------
(* Properties.                                                             *)

(* Two jobs of one project are never pending together, whatever requests,  *)
(* retries and recoveries are under way (uq_jobs_one_active_mutation).     *)
OneActiveMutation ==
  \A j, k \in Job :
    /\ ProjectOf[j] = ProjectOf[k]
    /\ jobs[j].status \in Pending
    /\ jobs[k].status \in Pending
    => j = k

(* No job is started more often than max_attempts allows, and one that is  *)
(* queued, by its creation, by a crash retry or by a recovery, has an      *)
(* attempt left.                                                           *)
AttemptBudget ==
  \A j \in Job :
    /\ jobs[j].count <= jobs[j].max
    /\ jobs[j].status = "queued" => jobs[j].count < jobs[j].max

(* A result is published at most once per job, by its last attempt, and a  *)
(* job whose result was published is never pending again.  ("cancelled":   *)
(* a cancellation that read the job while it was queued can land after.)   *)
PublishedOnce ==
  \A j \in Job :
    /\ jobs[j].status = "completed" => attempts[j][jobs[j].count] = "completed"
    /\ \A n \in Number : attempts[j][n] = "completed" =>
         n = jobs[j].count /\ jobs[j].status \in {"completed", "cancelled"}

(* At most one attempt of a job is open; it is the last one, and it is the *)
(* one a running job points to.  (A stale cancellation can leave it open.) *)
OneOpenAttempt ==
  \A j \in Job :
    /\ jobs[j].status = "running" =>
         jobs[j].attempt = jobs[j].count /\ attempts[j][jobs[j].count] = "running"
    /\ \A n \in Number : attempts[j][n] = "running" =>
         n = jobs[j].count /\ jobs[j].status \in {"running", "cancelled"}

(* While the loop runs, every running job is in the supervisor's hands: an *)
(* entry that still expects its terminal event holds its current attempt,  *)
(* or the supervisor is at it.  Otherwise it would be running for ever.    *)
(* (The finally clause leaves what it cannot close to the next recovery.)  *)
Looping ==
  \/ pc \in {"loop", "launch", "drain", "exit"}
  \/ pc = "commit" /\ txn.next # "stopping"
RunningIsOwned ==
  Looping =>
    \A j \in Job : jobs[j].status = "running" =>
      \/ /\ active[j] # NoEntry
         /\ active[j].attempt = jobs[j].attempt
         /\ ~active[j].terminal
      \/ focus = j /\ fence = jobs[j].attempt /\ pc \in {"launch", "commit"}

(* Once the supervisor has raised a timeout or a cancellation, that attempt*)
(* is never published, even when its completed event was already sent.     *)
SignalPrecedence ==
  \A j \in Job :
    active[j] # NoEntry /\ active[j].signal \in {"cancel", "timeout"} =>
      attempts[j][active[j].attempt] # "completed"

(* A terminal job changes only by deletion, by a cancellation that had read*)
(* it as queued, or, once so cancelled, by the commit of a transaction the *)
(* supervisor had opened for it before.                                    *)
TerminalRewrites ==
  [][\A j \in Job :
       jobs[j].status \in Terminal /\ jobs'[j].status # jobs[j].status =>
         \/ jobs'[j].status = "deleted"
         \/ /\ jobs'[j].status = "cancelled"
            /\ \E c \in Client : /\ requests[c].op = "cancel"
                                 /\ requests[c].job = j
                                 /\ requests[c].seen = "queued"
         \/ jobs[j].status = "cancelled" /\ j \in txn.jobs]_vars

(* The queue implements the life of a job as JobContract tells it: rows and*)
(* attempts move by its steps only, however requests, retries, recoveries, *)
(* cancellations and deletions fall between the supervisor's reads and     *)
(* commits.                                                                *)
Contract == INSTANCE JobContract WITH
  life <- [j \in Job |->
    [status |-> jobs[j].status,
     budget |-> IF Stored(j) THEN jobs[j].max ELSE 0,
     tries  |-> attempts[j]]]
JobsKeepContract == Contract!Spec

(* Every job that is queued or running comes to an end: its worker answers,*)
(* crashes, is timed out or is lost with the supervisor.                   *)
EveryJobSettles ==
  \A j \in Job : jobs[j].status \in Pending ~> jobs[j].status \notin Pending

(* docs/security.md:49-50: the supervisor "enforces cancellation": a job   *)
(* that is cancelled has no worker still computing that was not signalled. *)
CancelReachesWorker ==
  \A j \in Job :
    active[j] # NoEntry /\ Alive(j) /\ jobs[j].status = "cancelled" =>
      active[j].signal # "none"

(* docs/security.md:50: it "terminates unresponsive children": the entry of*)
(* every child, and the slot it takes, is given back.                      *)
ChildrenAreTerminated ==
  \A j \in Job : active[j] # NoEntry ~> active[j] = NoEntry
=============================================================================
