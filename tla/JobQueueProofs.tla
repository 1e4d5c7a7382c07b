--------------------------- MODULE JobQueueProofs ---------------------------
(***************************************************************************)
(* Theorems about JobQueue for every set of jobs, projects and requests,   *)
(* every attempt limit and every concurrency.                              *)
(*                                                                         *)
(* That a claimed attempt has a number at all depends on the attempt       *)
(* budget, and the budget of a retried job on what the supervisor's open   *)
(* transaction read, so types, budget and the project's single pending job *)
(* are proved together, as one inductive invariant.                        *)
(***************************************************************************)
EXTENDS JobQueue, TLAPS

(* What an open API transaction refers to.                                 *)
Requests ==
  /\ \A c \in Client : requests[c].op \in {"create", "cancel", "delete"} =>
       requests[c].job \in Job
  /\ \A c \in Client : requests[c].op = "create" =>
       jobs[requests[c].job].status = "absent"
  /\ \A c \in Client : requests[c].op \in {"cancel", "delete"} =>
       jobs[requests[c].job].status # "absent"
  /\ \A c, d \in Client :
       /\ requests[c].op = "create"
       /\ requests[d].op = "create"
       /\ requests[c].job = requests[d].job
       => c = d

(* What the supervisor has in hand at each of its steps.                   *)
Control ==
  /\ pc \in {"launch", "drain", "exit", "commit"} => focus \in Job /\ fence \in Number
  /\ pc \in {"drain", "exit"} => active[focus] # NoEntry
  /\ pc = "commit" /\ txn.next \in {"drain", "exit"} => active[focus] # NoEntry
  /\ pc \notin {"recover", "commit"} => txn = NoTxn

(* The jobs that the open transaction is about to queue again.             *)
Retries ==
  /\ \A j \in txn.retry :
       jobs[j].status # "absent" /\ jobs[j].count < jobs[j].max
  /\ \A j, k \in txn.retry : ProjectOf[j] = ProjectOf[k] => j = k

QueueInv ==
  /\ TypeOK
  /\ Requests
  /\ Control
  /\ Retries
  /\ AttemptBudget
  /\ OneActiveMutation

-----------------------------------------------------------------------------
(* Rows of table jobs.  Every step changes each row in one of five ways.   *)

Kept(j) == jobs'[j].count = jobs[j].count /\ jobs'[j].max = jobs[j].max

Quiet(j) ==
  /\ Kept(j)
  /\ \/ jobs'[j].status = jobs[j].status
     \/ jobs[j].status # "absent" /\ jobs'[j].status \in Terminal

Created(j) ==
  /\ \E c \in Client : /\ requests[c].op = "create"
                       /\ requests[c].job = j
                       /\ requests'[c] = IdleRequest
  /\ jobs[j].status = "absent" /\ IndexFree(j)
  /\ jobs'[j].status = "queued" /\ jobs'[j].count = 0
  /\ \A k \in Job \ {j} : jobs'[k] = jobs[k]

Claimed(j) ==
  /\ jobs[j].status = "queued" /\ jobs'[j].status = "running"
  /\ jobs'[j].count = jobs[j].count + 1 /\ jobs'[j].max = jobs[j].max
  /\ txn = NoTxn

Requeued(j) ==
  /\ j \in txn.retry /\ IndexFree(j)
  /\ Kept(j) /\ jobs'[j].status = "queued"

Removed(j) ==
  /\ jobs[j].status # "absent" /\ jobs'[j] = NoRow("deleted")

RowChange(j) ==
  Quiet(j) \/ Created(j) \/ Claimed(j) \/ Requeued(j) \/ Removed(j)

LEMMA Rows ==
  QueueInv /\ [Next]_vars =>
    jobs' \in [Job -> JobRow] /\ \A j \in Job : RowChange(j)
<1> SUFFICES ASSUME QueueInv, [Next]_vars
             PROVE  jobs' \in [Job -> JobRow] /\ \A j \in Job : RowChange(j)
  OBVIOUS
<1> USE JobQueueAssumption DEF QueueInv, RowChange
<1> DEFINE Goal == jobs' \in [Job -> JobRow] /\ \A j \in Job : RowChange(j)
<1> 0 \in 0 .. MaxAttempts
  OBVIOUS
<1>1. ASSUME jobs' = jobs PROVE Goal
  BY <1>1 DEF TypeOK, Quiet, Kept
<1>2. ASSUME NEW c \in Client, CreateCommit(c) PROVE Goal
  <2> DEFINE j == requests[c].job
  <2>1. j \in Job /\ jobs[j].status = "absent" /\ requests'[c] = IdleRequest
    BY <1>2 DEF CreateCommit, Reply, Requests, TypeOK
  <2>2. CASE IndexFree(j)
    <3>1. PICK m \in Number : jobs' = [jobs EXCEPT ![j] =
               [status |-> "queued", count |-> 0, max |-> m, attempt |-> 0,
                cancel |-> FALSE, input |-> requests[c].rev]]
      BY <1>2, <2>2 DEF CreateCommit
    <3>2. [status |-> "queued", count |-> 0, max |-> m, attempt |-> 0,
           cancel |-> FALSE, input |-> requests[c].rev] \in JobRow
      BY DEF TypeOK, Request, JobRow, JobStatus, Pending, Number
    <3>3. jobs' \in [Job -> JobRow]
      BY <3>1, <3>2 DEF TypeOK
    <3>4. Created(j)
      BY <1>2, <2>1, <2>2, <3>1 DEF Created, CreateCommit, TypeOK
    <3>5. \A k \in Job \ {j} : jobs'[k] = jobs[k]
      BY <3>1 DEF TypeOK
    <3> QED
      BY <3>3, <3>4, <3>5 DEF Quiet, Kept
  <2>3. CASE ~IndexFree(j)
    BY <1>1, <1>2, <2>3 DEF CreateCommit
  <2> QED
    BY <2>2, <2>3
<1>3. ASSUME NEW c \in Client, CancelCommit(c) PROVE Goal
  <2> DEFINE j == requests[c].job
  <2>1. j \in Job /\ jobs[j].status # "absent" /\ jobs[j] \in JobRow
    BY <1>3 DEF CancelCommit, Requests, TypeOK
  <2>2. CASE jobs' = [jobs EXCEPT ![j].status = "cancelled", ![j].cancel = TRUE]
    <3>1. [jobs[j] EXCEPT !.status = "cancelled", !.cancel = TRUE] \in JobRow
      BY <2>1 DEF JobRow, JobStatus, Terminal
    <3>2. jobs' = [jobs EXCEPT ![j] =
                     [jobs[j] EXCEPT !.status = "cancelled", !.cancel = TRUE]]
      BY <2>2
    <3>3. jobs' \in [Job -> JobRow]
      BY <3>1, <3>2 DEF TypeOK
    <3> QED
      BY <2>1, <3>2, <3>3 DEF Quiet, Kept, Terminal, TypeOK, JobRow
  <2>3. CASE jobs' = [jobs EXCEPT ![j].cancel = TRUE]
    <3>1. [jobs[j] EXCEPT !.cancel = TRUE] \in JobRow
      BY <2>1 DEF JobRow
    <3>2. jobs' = [jobs EXCEPT ![j] = [jobs[j] EXCEPT !.cancel = TRUE]]
      BY <2>3
    <3>3. jobs' \in [Job -> JobRow]
      BY <3>1, <3>2 DEF TypeOK
    <3> QED
      BY <2>1, <3>2, <3>3 DEF Quiet, Kept, TypeOK, JobRow
  <2> QED
    BY <1>1, <1>3, <2>2, <2>3 DEF CancelCommit
<1>4. ASSUME NEW c \in Client, DeleteCommit(c) PROVE Goal
  <2>1. requests[c].job \in Job /\ jobs[requests[c].job].status # "absent"
    BY <1>4 DEF DeleteCommit, Requests
  <2>2. NoRow("deleted") \in JobRow
    BY DEF NoRow, JobRow, JobStatus, Number
  <2> QED
    BY <1>4, <2>1, <2>2 DEF DeleteCommit, Removed, Quiet, Kept, TypeOK
<1>5. ASSUME RecoverCommit PROVE Goal
  <2> DEFINE again(j) == [jobs[j] EXCEPT !.status = "queued", !.attempt = 0]
             failed(j) == [jobs[j] EXCEPT !.status = "failed"]
  <2>1. CASE jobs' = jobs
    BY <1>1, <2>1
  <2>2. CASE /\ \A j \in txn.jobs : Stored(j)
             /\ \A j \in txn.retry : IndexFree(j)
             /\ jobs' = [j \in Job |-> IF j \in txn.retry THEN again(j)
                                       ELSE IF j \in txn.jobs THEN failed(j)
                                       ELSE jobs[j]]
    <3>1. ASSUME NEW j \in Job PROVE again(j) \in JobRow /\ failed(j) \in JobRow
      <4>1. jobs[j] \in JobRow
        BY DEF TypeOK
      <4> QED
        BY <4>1 DEF JobRow, JobStatus, Pending, Terminal
    <3>2. jobs' \in [Job -> JobRow]
      BY <2>2, <3>1 DEF TypeOK
    <3>3. ASSUME NEW j \in Job PROVE RowChange(j)
      <4>1. CASE j \in txn.retry
        <5>1. jobs'[j] = again(j)
          BY <2>2, <4>1
        <5> QED
          <6>1. jobs[j] \in JobRow
            BY DEF TypeOK
          <6>2. Kept(j) /\ jobs'[j].status = "queued"
            BY <5>1, <6>1 DEF Kept, JobRow
          <6> QED
            BY <2>2, <4>1, <6>2 DEF Requeued
      <4>2. CASE j \in txn.jobs \ txn.retry
        <5>1. jobs'[j] = failed(j) /\ Stored(j)
          BY <2>2, <4>2
        <5> QED
          BY <5>1 DEF Quiet, Kept, Stored, Terminal, TypeOK, JobRow
      <4>3. CASE j \notin txn.jobs \cup txn.retry
        BY <2>2, <4>3 DEF Quiet, Kept
      <4> QED
        BY <4>1, <4>2, <4>3
    <3> QED
      BY <3>2, <3>3
  <2> QED
    BY <1>5, <2>1, <2>2 DEF RecoverCommit
<1>6. ASSUME NEW s \in Terminal, focus \in Job, Stored(focus),
             jobs' = [jobs EXCEPT ![focus].status = s]
      PROVE  Goal
  <2>1. [jobs[focus] EXCEPT !.status = s] \in JobRow
    BY <1>6 DEF TypeOK, JobRow, JobStatus
  <2>2. jobs' = [jobs EXCEPT ![focus] = [jobs[focus] EXCEPT !.status = s]]
    BY <1>6
  <2>3. jobs' \in [Job -> JobRow]
    BY <2>1, <2>2 DEF TypeOK
  <2> QED
    BY <1>6, <2>2, <2>3 DEF Quiet, Kept, Stored, TypeOK, JobRow
<1>7. ASSUME TerminalizeCommit PROVE Goal
  BY <1>1, <1>6, <1>7 DEF TerminalizeCommit, Control, Terminal
<1>8. ASSUME CompleteCommit PROVE Goal
  BY <1>1, <1>6, <1>8 DEF CompleteCommit, Control, Terminal
<1>9. ASSUME RetryCommit PROVE Goal
  <2> DEFINE r == [jobs[focus] EXCEPT !.status = "queued", !.attempt = 0]
             f == [jobs[focus] EXCEPT !.status = "failed"]
  <2>1. focus \in Job /\ jobs[focus] \in JobRow
    BY <1>9 DEF RetryCommit, Control, TypeOK
  <2>2. r \in JobRow /\ f \in JobRow
    BY <2>1 DEF JobRow, JobStatus, Pending, Terminal
  <2>3. CASE jobs' = jobs
    BY <1>1, <2>3
  <2>4. CASE Stored(focus) /\ focus \in txn.retry /\ IndexFree(focus) /\ jobs # jobs'
    <3>1. jobs' = [jobs EXCEPT ![focus] = r]
      BY <1>9, <2>4 DEF RetryCommit
    <3>2. jobs' \in [Job -> JobRow]
      BY <2>2, <3>1 DEF TypeOK
    <3> QED
      BY <2>1, <2>4, <3>1, <3>2 DEF Requeued, Quiet, Kept, TypeOK, JobRow
  <2>5. CASE Stored(focus) /\ focus \notin txn.retry /\ jobs # jobs'
    <3>1. jobs' = [jobs EXCEPT ![focus] = f]
      BY <1>9, <2>1, <2>5 DEF RetryCommit, TypeOK, JobRow
    <3>2. jobs' \in [Job -> JobRow]
      BY <2>2, <3>1 DEF TypeOK
    <3> QED
      BY <2>1, <2>5, <3>1, <3>2 DEF Quiet, Kept, Stored, Terminal, TypeOK, JobRow
  <2> QED
    BY <1>9, <2>3, <2>4, <2>5 DEF RetryCommit
<1>10. ASSUME NEW j \in Job, Claim(j) PROVE Goal
  <2> DEFINE n == jobs[j].count + 1
             r == [jobs[j] EXCEPT !.status = "running", !.count = n, !.attempt = n]
  <2>1. jobs[j] \in JobRow /\ n \in 0 .. MaxAttempts
    BY <1>10 DEF Claim, AttemptBudget, TypeOK, JobRow, Number
  <2> HIDE DEF n
  <2>2. r \in JobRow
    BY <2>1 DEF JobRow, JobStatus, Pending
  <2>3. jobs' = [jobs EXCEPT ![j] = r]
    BY <1>10 DEF Claim, n
  <2>4. jobs' \in [Job -> JobRow]
    BY <2>2, <2>3 DEF TypeOK
  <2>5. Claimed(j)
    BY <1>10, <2>1, <2>3 DEF Claimed, Claim, Control, TypeOK, JobRow, n
  <2> QED
    BY <2>3, <2>4, <2>5 DEF Quiet, Kept, TypeOK
<1>11. ASSUME NEW c \in Client, ClientStep(c) PROVE Goal
  BY <1>1, <1>2, <1>3, <1>4, <1>11
     DEF ClientStep, CreateRead, CancelRead, DeleteRead, EditRead, EditCommit
<1>12. ASSUME NEW j \in Job, WorkerStep(j) PROVE Goal
  BY <1>1, <1>12 DEF WorkerStep, WorkerSend, WorkerExit, WorkerDie
<1>13. ASSUME Receive PROVE Goal
  BY <1>1, <1>13
     DEF Receive, ReceiveTorn, ReceiveDropped, ReceiveEnd, ReceiveCompleted
<1>14. ASSUME NEW j \in Job, StopEntry(j) \/ \E s \in Signal : Monitor(j, s) PROVE Goal
  BY <1>1, <1>14 DEF StopEntry, Monitor
<1>15. ASSUME \/ Start \/ Stop \/ Crash \/ LaunchOk \/ LaunchFail \/ LaunchRaise
              \/ DrainedAlive \/ ForceStop \/ DrainedDead \/ Reap \/ StopDone
       PROVE Goal
  BY <1>1, <1>15 DEF Start, Stop, Crash, LaunchOk, LaunchFail, LaunchRaise,
     DrainedAlive, ForceStop, DrainedDead, Reap, StopDone
<1>16. CASE UNCHANGED vars
  BY <1>1, <1>16 DEF vars
<1> QED
  BY <1>5, <1>7, <1>8, <1>9, <1>10, <1>11, <1>12, <1>13, <1>14, <1>15, <1>16
     DEF Next, SupervisorStep, Commit

-----------------------------------------------------------------------------
(* The conjuncts that follow from the rows.                                *)

LEMMA BudgetStep == QueueInv /\ [Next]_vars => AttemptBudget'
<1> SUFFICES ASSUME QueueInv, [Next]_vars, NEW j \in Job
             PROVE  /\ jobs'[j].count <= jobs'[j].max
                    /\ jobs'[j].status = "queued" => jobs'[j].count < jobs'[j].max
  BY DEF AttemptBudget
<1>1. RowChange(j) /\ jobs[j] \in JobRow /\ jobs'[j] \in JobRow
  BY Rows DEF QueueInv, TypeOK
<1>2. CASE Quiet(j)
  BY <1>1, <1>2 DEF Quiet, Kept, QueueInv, AttemptBudget, Terminal
<1>3. CASE Created(j)
  BY <1>1, <1>3 DEF Created, JobRow, Number
<1>4. CASE Claimed(j)
  BY <1>1, <1>4 DEF Claimed, QueueInv, AttemptBudget, JobRow, Number
<1>5. CASE Requeued(j)
  BY <1>1, <1>5 DEF Requeued, Kept, QueueInv, Retries, JobRow, Number
<1>6. CASE Removed(j)
  BY <1>6 DEF Removed, NoRow
<1> QED
  BY <1>1, <1>2, <1>3, <1>4, <1>5, <1>6 DEF RowChange

LEMMA IndexStep == QueueInv /\ [Next]_vars => OneActiveMutation'
<1> SUFFICES ASSUME QueueInv, [Next]_vars,
                    NEW j \in Job, NEW k \in Job, ProjectOf[j] = ProjectOf[k],
                    jobs'[j].status \in Pending, jobs'[k].status \in Pending,
                    j # k
             PROVE  FALSE
  BY DEF OneActiveMutation
<1> USE DEF QueueInv
<1>1. RowChange(j) /\ RowChange(k)
  BY Rows
<1>2. ASSUME NEW i \in Job, jobs'[i].status \in Pending, Quiet(i) \/ Claimed(i)
      PROVE  jobs[i].status \in Pending
  BY <1>2 DEF Quiet, Claimed, Pending, Terminal
<1>3. ASSUME NEW i \in Job, jobs'[i].status \in Pending PROVE ~Removed(i)
  BY <1>3 DEF Removed, NoRow, Pending
<1>4. ASSUME NEW i \in Job, NEW h \in Job, i # h, ProjectOf[i] = ProjectOf[h],
             jobs'[h].status \in Pending, Created(i)
      PROVE  FALSE
  BY <1>4 DEF Created, IndexFree
<1>5. ASSUME NEW i \in Job, NEW h \in Job, i # h, ProjectOf[i] = ProjectOf[h],
             jobs'[h].status \in Pending, Requeued(i), ~Created(h), RowChange(h)
      PROVE  FALSE
  <2>1. jobs[h].status \notin Pending
    BY <1>5 DEF Requeued, IndexFree
  <2>2. ~Requeued(h)
    BY <1>5 DEF Requeued, Retries
  <2> QED
    BY <1>2, <1>3, <1>5, <2>1, <2>2 DEF RowChange
<1> QED
  BY <1>1, <1>2, <1>3, <1>4, <1>5 DEF RowChange, OneActiveMutation

LEMMA RequestsStep == QueueInv /\ [Next]_vars => Requests'
<1> SUFFICES ASSUME QueueInv, [Next]_vars PROVE Requests'
  OBVIOUS
<1> USE DEF QueueInv
<1>1. \A j \in Job : RowChange(j)
  BY Rows
<1>2. \A j \in Job : jobs[j].status # "absent" => jobs'[j].status # "absent"
  BY <1>1 DEF RowChange, Quiet, Created, Claimed, Requeued, Removed, NoRow, Terminal
<1>3. ASSUME requests' = requests PROVE Requests'
  <2>1. \A j \in Job : jobs[j].status = "absent" => jobs'[j].status = "absent"
    <3> SUFFICES ASSUME NEW j \in Job, jobs[j].status = "absent"
                 PROVE  jobs'[j].status = "absent"
      OBVIOUS
    <3>1. ~Created(j)
      <4>1. IdleRequest.op = "idle"
        BY DEF IdleRequest
      <4> QED
        BY <1>3, <4>1 DEF Created
    <3>2. ~Requeued(j)
      BY DEF Requeued, Retries
    <3> QED
      BY <1>1, <3>1, <3>2 DEF RowChange, Quiet, Claimed, Removed
  <2> QED
    BY <1>2, <1>3, <2>1 DEF Requests
<1>4. ASSUME NEW c \in Client, Reply(c),
             \A j \in Job : jobs[j].status = "absent" /\ jobs'[j].status # "absent" =>
               requests[c].op = "create" /\ requests[c].job = j
      PROVE  Requests'
  BY <1>2, <1>4 DEF Requests, Reply, IdleRequest, TypeOK
<1>5. ASSUME NEW c \in Client, NEW r,
             requests' = [requests EXCEPT ![c] = r], jobs' = jobs,
             r.op = "edit" \/ (/\ r.op \in {"cancel", "delete"} /\ r.job \in Job
                               /\ jobs[r.job].status # "absent")
      PROVE  Requests'
  BY <1>5 DEF Requests, TypeOK
<1>6. ASSUME NEW c \in Client, NEW j \in Job, CreateRead(c, j) PROVE Requests'
  BY <1>6 DEF CreateRead, Requests, TypeOK
<1>7. ASSUME NEW c \in Client, NEW j \in Job, CancelRead(c, j) PROVE Requests'
  BY <1>5, <1>7 DEF CancelRead
<1>8. ASSUME NEW c \in Client, NEW j \in Job, DeleteRead(c, j) PROVE Requests'
  BY <1>5, <1>8 DEF DeleteRead, Terminal
<1>9. ASSUME NEW c \in Client, NEW p \in Project, EditRead(c, p) PROVE Requests'
  BY <1>5, <1>9 DEF EditRead
<1>10. ASSUME NEW c \in Client, CreateCommit(c) PROVE Requests'
  BY <1>4, <1>10 DEF CreateCommit, TypeOK
<1>11. ASSUME NEW c \in Client, EditCommit(c) PROVE Requests'
  BY <1>4, <1>11 DEF EditCommit
<1>12. ASSUME NEW c \in Client, CancelCommit(c) PROVE Requests'
  <2>1. requests[c].job \in Job /\ jobs[requests[c].job].status # "absent"
    BY <1>12 DEF CancelCommit, Requests
  <2>2. \A j \in Job \ {requests[c].job} : jobs'[j] = jobs[j]
    BY <1>12, <2>1 DEF CancelCommit, TypeOK
  <2> QED
    BY <1>4, <1>12, <2>1, <2>2 DEF CancelCommit
<1>13. ASSUME NEW c \in Client, DeleteCommit(c) PROVE Requests'
  BY <1>4, <1>13 DEF DeleteCommit, Requests, TypeOK
<1>14. ASSUME NEW j \in Job, WorkerStep(j) PROVE Requests'
  BY <1>3, <1>14 DEF WorkerStep, WorkerSend, WorkerExit, WorkerDie
<1>15. ASSUME SupervisorStep PROVE requests' = requests
  BY <1>15 DEF SupervisorStep, Start, Stop, Crash, Commit, RecoverCommit,
     TerminalizeCommit, RetryCommit, CompleteCommit, Claim, StopEntry, Monitor,
     LaunchOk, LaunchFail, LaunchRaise, Receive, ReceiveTorn, ReceiveDropped,
     ReceiveEnd, ReceiveCompleted, DrainedAlive, ForceStop, DrainedDead, Reap,
     StopDone
<1>16. CASE UNCHANGED vars
  BY <1>3, <1>16 DEF vars
<1> QED
  BY <1>3, <1>6, <1>7, <1>8, <1>9, <1>10, <1>11, <1>12, <1>13, <1>14, <1>15, <1>16
     DEF Next, ClientStep

LEMMA RetriesStep == QueueInv /\ [Next]_vars => Retries'
<1> SUFFICES ASSUME QueueInv, [Next]_vars PROVE Retries'
  OBVIOUS
<1> USE DEF QueueInv
<1>1. \A j \in Job : /\ RowChange(j)
                     /\ jobs[j] \in JobRow /\ jobs'[j] \in JobRow
  BY Rows DEF TypeOK
<1>2. ASSUME txn'.retry = {} PROVE Retries'
  BY <1>2 DEF Retries
<1>3. ASSUME txn' = txn PROVE Retries'
  <2>1. ASSUME NEW j \in txn.retry
        PROVE  jobs'[j].status # "absent" /\ jobs'[j].count < jobs'[j].max
    <3>1. j \in Job /\ jobs[j].status # "absent" /\ jobs[j].count < jobs[j].max
      BY DEF Retries, TypeOK, Txn
    <3>2. ~Claimed(j)
      BY DEF Claimed, NoTxn
    <3>3. ~Created(j)
      BY <3>1 DEF Created
    <3> QED
      BY <1>1, <3>1, <3>2, <3>3
         DEF RowChange, Quiet, Kept, Requeued, Removed, NoRow, Terminal
  <2> QED
    BY <1>3, <2>1 DEF Retries
<1>4. ASSUME Start PROVE Retries'
  <2>1. txn'.retry = {j \in Job : jobs[j].status = "running" /\ RetryLeft(jobs[j])}
    BY <1>4 DEF Start
  <2>2. jobs' = jobs
    BY <1>4 DEF Start
  <2> QED
    BY <2>1, <2>2 DEF Retries, RetryLeft, OneActiveMutation, Pending
<1>5. ASSUME Reap PROVE Retries'
  <2>1. CASE txn' = txn
    BY <1>3, <2>1
  <2>2. CASE txn'.retry = {}
    BY <1>2, <2>2
  <2>3. CASE txn'.retry = {focus} /\ CanRetry(focus, fence) /\ RetryLeft(jobs[focus])
    <3>1. jobs' = jobs
      BY <1>5 DEF Reap
    <3> QED
      BY <2>3, <3>1 DEF Retries, CanRetry, RetryLeft
  <2> QED
    BY <1>5, <2>1, <2>2, <2>3 DEF Reap, Begin
<1>6. ASSUME \/ Commit \/ Crash \/ LaunchFail \/ ReceiveEnd \/ ReceiveCompleted
             \/ \E j \in Job : StopEntry(j)
      PROVE  txn' = txn \/ txn'.retry = {}
  <2>1. NoTxn.retry = {}
    BY DEF NoTxn
  <2>2. CASE Commit \/ Crash
    BY <2>1, <2>2 DEF Commit, RecoverCommit, TerminalizeCommit, RetryCommit,
       CompleteCommit, Crash
  <2>3. CASE LaunchFail
    BY <2>3 DEF LaunchFail, Terminalize, Begin
  <2>4. CASE ReceiveEnd
    BY <2>4 DEF ReceiveEnd, Begin
  <2>5. CASE ReceiveCompleted
    BY <2>5 DEF ReceiveCompleted, Begin
  <2>6. ASSUME NEW j \in Job, StopEntry(j) PROVE txn' = txn \/ txn'.retry = {}
    BY <2>6 DEF StopEntry, Terminalize, Begin
  <2> QED
    BY <1>6, <2>2, <2>3, <2>4, <2>5, <2>6
<1>7. ASSUME \/ Stop \/ LaunchOk \/ LaunchRaise \/ ReceiveTorn \/ ReceiveDropped
             \/ DrainedAlive \/ ForceStop \/ DrainedDead \/ StopDone
             \/ \E j \in Job : Claim(j) \/ \E s \in Signal : Monitor(j, s)
      PROVE  txn' = txn
  BY <1>7 DEF Stop, LaunchOk, LaunchRaise, ReceiveTorn, ReceiveDropped,
     DrainedAlive, ForceStop, DrainedDead, StopDone, Claim, Monitor
<1>8. ASSUME NEW c \in Client, ClientStep(c) PROVE txn' = txn
  BY <1>8 DEF ClientStep, CreateRead, CreateCommit, CancelRead, CancelCommit,
     DeleteRead, DeleteCommit, EditRead, EditCommit, supervisor
<1>9. ASSUME NEW j \in Job, WorkerStep(j) PROVE txn' = txn
  BY <1>9 DEF WorkerStep, WorkerSend, WorkerExit, WorkerDie
<1>10. CASE UNCHANGED vars
  BY <1>3, <1>10 DEF vars
<1> QED
  BY <1>2, <1>3, <1>4, <1>5, <1>6, <1>7, <1>8, <1>9, <1>10
     DEF Next, SupervisorStep, Receive

-----------------------------------------------------------------------------
(* Control and types.                                                      *)

Actives == [Job -> Entry \cup {NoEntry}]

LEMMA EntryUpdate ==
  ASSUME NEW e \in Entry, NEW s \in Signal, NEW m \in Message \cup {"empty"},
         NEW q \in {"running", "sent", "exited", "crashed"}
  PROVE  /\ [e EXCEPT !.proc = q] \in Entry
         /\ [e EXCEPT !.proc = q, !.pipe = m] \in Entry
         /\ [e EXCEPT !.pipe = m] \in Entry
         /\ [e EXCEPT !.pipe = m, !.terminal = TRUE] \in Entry
         /\ [e EXCEPT !.terminal = TRUE] \in Entry
         /\ [e EXCEPT !.signal = s] \in Entry
  BY DEF Entry

LEMMA EntryIsNotNone == NoEntry \notin Entry
  BY JobQueueAssumption DEF Entry, NoEntry, Number

(* Where the supervisor is after a call, and after an exception.           *)
LEMMA SettleResult ==
  ASSUME TypeOK, NEW j \in Job, NEW n \in Number, NEW next \in {"loop", "drain", "exit", "stopping"},
         Settle(next, j, n), next \in {"drain", "exit"} => active[j] # NoEntry
  PROVE  /\ active' \in Actives
         /\ pc' = next /\ focus' \in Job \cup {NoJob} /\ fence' \in 0 .. MaxAttempts
         /\ pc' \in {"drain", "exit"} =>
              focus' = j /\ fence' = n /\ active'[focus'] # NoEntry
<1> USE JobQueueAssumption
<1>1. CASE next \in {"drain", "exit"}
  <2>1. active[j] \in Entry
    BY <1>1 DEF TypeOK
  <2>2. [active[j] EXCEPT !.terminal = TRUE] \in Entry
    BY <2>1 DEF Entry
  <2>3. active' = [active EXCEPT ![j] = [active[j] EXCEPT !.terminal = TRUE]]
    BY <1>1 DEF Settle
  <2>4. active' \in Actives /\ active'[j] \in Entry
    BY <2>2, <2>3 DEF TypeOK, Actives
  <2>5. pc' = next /\ focus' = j /\ fence' = n
    BY <1>1 DEF Settle, Goto
  <2> QED
    BY <1>1, <2>4, <2>5, EntryIsNotNone DEF Number
<1>2. CASE next \in {"loop", "stopping"}
  BY <1>2 DEF Settle, Goto, TypeOK, Actives
<1> QED
  BY <1>1, <1>2

LEMMA RaiseResult ==
  ASSUME TypeOK, NEW next, Raise(next)
  PROVE  /\ active' \in Actives
         /\ pc' \in {"down", "stopping"} /\ focus' = NoJob /\ fence' = 0
  BY DEF Raise, Goto, TypeOK, Actives

LEMMA ClosedType ==
  ASSUME TypeOK, NEW j \in Job, NEW n \in Number, NEW s \in Terminal
  PROVE  Closed(j, n, s) \in [Job -> [Number -> AttemptStatus]]
  BY DEF TypeOK, Closed, AttemptStatus

LEMMA TypeStep == QueueInv /\ [Next]_vars => TypeOK'
<1> SUFFICES ASSUME QueueInv, [Next]_vars PROVE TypeOK'
  OBVIOUS
<1> USE JobQueueAssumption DEF QueueInv, supervisor
<1> jobs' \in [Job -> JobRow]
  BY Rows
<1> IdleRequest \in Request
  BY DEF IdleRequest, Request, JobStatus
<1> DEFINE Others == /\ UNCHANGED <<revision, attempts, requests, outages>>
                     /\ pc' \in PC /\ focus' \in Job \cup {NoJob}
                     /\ fence' \in 0 .. MaxAttempts /\ txn' \in Txn
<1>a. ASSUME NEW j \in Job, NEW e \in Entry,
             active' = [active EXCEPT ![j] = e], Others
      PROVE  TypeOK'
  BY <1>a DEF TypeOK
<1>b. ASSUME NEW j \in Job, active[j] # NoEntry PROVE active[j] \in Entry
  BY <1>b DEF TypeOK
<1>1. ASSUME NEW c \in Client, NEW j \in Job, CreateRead(c, j)
      PROVE  TypeOK'
  BY <1>1 DEF CreateRead, Request, JobStatus, TypeOK, Goto, Number
<1>2. ASSUME NEW c \in Client, CreateCommit(c)
      PROVE  TypeOK'
  BY <1>2 DEF CreateCommit, Reply, TypeOK, Goto, Number
<1>3. ASSUME NEW c \in Client, NEW p \in Project, EditRead(c, p)
      PROVE  TypeOK'
  BY <1>3 DEF EditRead, Request, JobStatus, TypeOK, Goto, Number
<1>4. ASSUME NEW c \in Client, EditCommit(c)
      PROVE  TypeOK'
  BY <1>4 DEF EditCommit, Reply, Request, TypeOK, Goto, Number
<1>5. ASSUME NEW c \in Client, NEW j \in Job, CancelRead(c, j)
      PROVE  TypeOK'
  BY <1>5 DEF CancelRead, Request, JobRow, TypeOK, Goto, Number
<1>6. ASSUME NEW c \in Client, CancelCommit(c)
      PROVE  TypeOK'
  BY <1>6 DEF CancelCommit, Reply, TypeOK, Goto, Number
<1>7. ASSUME NEW c \in Client, NEW j \in Job, DeleteRead(c, j)
      PROVE  TypeOK'
  BY <1>7 DEF DeleteRead, Request, JobRow, TypeOK, Goto, Number
<1>8. ASSUME NEW c \in Client, DeleteCommit(c)
      PROVE  TypeOK'
  BY <1>8 DEF DeleteCommit, Reply, NoAttempts, AttemptStatus, TypeOK, Goto, Number
<1>9. ASSUME NEW j \in Job, NEW m \in Message, WorkerSend(j, m)
      PROVE  TypeOK'
  <2>1. [active[j] EXCEPT !.proc = "sent", !.pipe = m] \in Entry
    BY <1>9, <1>b, EntryUpdate DEF WorkerSend, Signal
  <2> QED
    BY <1>9, <1>a, <2>1 DEF WorkerSend, TypeOK
<1>10. ASSUME NEW j \in Job, WorkerExit(j)
      PROVE  TypeOK'
  <2>1. [active[j] EXCEPT !.proc = "exited"] \in Entry
    BY <1>10, <1>b DEF WorkerExit, Entry
  <2> QED
    BY <1>10, <1>a, <2>1 DEF WorkerExit, TypeOK
<1>11. ASSUME NEW j \in Job, WorkerDie(j)
      PROVE  TypeOK'
  <2>1. /\ [active[j] EXCEPT !.proc = "exited"] \in Entry
        /\ [active[j] EXCEPT !.proc = "crashed"] \in Entry
        /\ [active[j] EXCEPT !.proc = "crashed", !.pipe = "torn"] \in Entry
    BY <1>11, <1>b DEF WorkerDie, Entry, Message
  <2> QED
    <3>1. Others
      BY <1>11 DEF WorkerDie, TypeOK
    <3> HIDE DEF Others
    <3>2. \/ active' = [active EXCEPT ![j] = [active[j] EXCEPT !.proc = "exited"]]
          \/ active' = [active EXCEPT ![j] = [active[j] EXCEPT !.proc = "crashed"]]
          \/ active' = [active EXCEPT ![j] =
                           [active[j] EXCEPT !.proc = "crashed", !.pipe = "torn"]]
      BY <1>11 DEF WorkerDie
    <3> QED
      BY <1>a, <2>1, <3>1, <3>2
<1>12. ASSUME Start
      PROVE  TypeOK'
  BY <1>12 DEF Start, Txn, PC, TypeOK, Goto, Number
<1>13. ASSUME Stop
      PROVE  TypeOK'
  BY <1>13 DEF Stop, PC, TypeOK, Goto, Number
<1>14. ASSUME Crash
      PROVE  TypeOK'
  BY <1>14 DEF Crash, PC, Txn, NoTxn, TypeOK, Goto, Number
<1>15. ASSUME RecoverCommit
      PROVE  TypeOK'
  <2>1. attempts' \in [Job -> [Number -> AttemptStatus]]
    <3>1. CASE attempts' = attempts
      BY <3>1 DEF TypeOK
    <3>2. CASE attempts' = [j \in Job |->
                 IF j \in txn.jobs THEN [n \in Number |->
                   IF n = jobs[j].attempt THEN "failed" ELSE attempts[j][n]]
                 ELSE attempts[j]]
      BY <3>2 DEF TypeOK, AttemptStatus, Terminal
    <3> QED
      BY <1>15, <3>1, <3>2 DEF RecoverCommit
  <2>2. txn' \in Txn
    BY <1>15 DEF RecoverCommit, NoTxn, Txn
  <2>3. pc' \in PC /\ focus' = NoJob /\ fence' = 0
    BY <1>15 DEF RecoverCommit, Goto, PC
  <2>4. fence' \in 0 .. MaxAttempts
    BY <2>3
  <2> QED
    BY <1>15, <2>1, <2>2, <2>3, <2>4 DEF RecoverCommit, TypeOK
<1>16. ASSUME TerminalizeCommit
      PROVE  TypeOK'
  <2>1. focus \in Job /\ fence \in Number /\ txn \in Txn
    BY <1>16 DEF TerminalizeCommit, Control, TypeOK
  <2>2. attempts' \in [Job -> [Number -> AttemptStatus]]
    <3>1. Closed(focus, fence, txn.op) \in [Job -> [Number -> AttemptStatus]]
      BY <1>16, <2>1, ClosedType DEF TerminalizeCommit, Terminal
    <3> QED
      BY <1>16, <3>1 DEF TerminalizeCommit, TypeOK
  <2>3. txn' \in Txn
    BY <1>16 DEF TerminalizeCommit, NoTxn, Txn
  <2>4. /\ active' \in Actives
        /\ pc' \in PC /\ focus' \in Job \cup {NoJob} /\ fence' \in 0 .. MaxAttempts
    BY <1>16, <2>1, SettleResult, RaiseResult DEF TerminalizeCommit, Control, PC, Txn
  <2>5. revision' \in [Project -> Nat]
    BY <1>16, <2>1 DEF TerminalizeCommit, TypeOK, JobRow
  <2> QED
    BY <1>16, <2>2, <2>3, <2>4, <2>5 DEF TerminalizeCommit, TypeOK, Actives
<1>17. ASSUME RetryCommit
      PROVE  TypeOK'
  <2>1. focus \in Job /\ fence \in Number /\ txn \in Txn
    BY <1>17 DEF RetryCommit, Control, TypeOK
  <2>2. attempts' \in [Job -> [Number -> AttemptStatus]]
    <3>1. Closed(focus, fence, "failed") \in [Job -> [Number -> AttemptStatus]]
      BY <1>17, <2>1, ClosedType DEF RetryCommit, Terminal
    <3> QED
      BY <1>17, <3>1 DEF RetryCommit, TypeOK
  <2>3. txn' \in Txn
    BY <1>17 DEF RetryCommit, NoTxn, Txn
  <2>4. /\ active' \in Actives
        /\ pc' \in PC /\ focus' \in Job \cup {NoJob} /\ fence' \in 0 .. MaxAttempts
    BY <1>17, <2>1, SettleResult, RaiseResult DEF RetryCommit, Control, PC, Txn
  <2>5. revision' \in [Project -> Nat]
    BY <1>17, <2>1 DEF RetryCommit, TypeOK, JobRow
  <2> QED
    BY <1>17, <2>2, <2>3, <2>4, <2>5 DEF RetryCommit, TypeOK, Actives
<1>18. ASSUME CompleteCommit
      PROVE  TypeOK'
  <2>1. focus \in Job /\ fence \in Number /\ txn \in Txn
    BY <1>18 DEF CompleteCommit, Control, TypeOK
  <2>2. attempts' \in [Job -> [Number -> AttemptStatus]]
    <3>1. Closed(focus, fence, "completed") \in [Job -> [Number -> AttemptStatus]]
      BY <1>18, <2>1, ClosedType DEF CompleteCommit, Terminal
    <3> QED
      BY <1>18, <3>1 DEF CompleteCommit, TypeOK
  <2>3. txn' \in Txn
    BY <1>18 DEF CompleteCommit, NoTxn, Txn
  <2>4. /\ active' \in Actives
        /\ pc' \in PC /\ focus' \in Job \cup {NoJob} /\ fence' \in 0 .. MaxAttempts
    BY <1>18, <2>1, SettleResult, RaiseResult DEF CompleteCommit, Control, PC, Txn
  <2>5. revision' \in [Project -> Nat]
    BY <1>18, <2>1 DEF CompleteCommit, TypeOK, JobRow
  <2> QED
    BY <1>18, <2>2, <2>3, <2>4, <2>5 DEF CompleteCommit, TypeOK, Actives
<1>19. ASSUME NEW j \in Job, Claim(j)
      PROVE  TypeOK'
  <2> DEFINE n == jobs[j].count + 1
  <2>1. n \in Number
    BY <1>19 DEF Claim, TypeOK, JobRow, AttemptBudget, Number
  <2> HIDE DEF n
  <2>2. attempts' = [attempts EXCEPT ![j][n] = "running"]
    BY <1>19 DEF Claim, n
  <2>3. attempts' \in [Job -> [Number -> AttemptStatus]]
    BY <2>1, <2>2 DEF TypeOK, AttemptStatus
  <2>4. pc' = "launch" /\ focus' = j /\ fence' = n
    BY <1>19 DEF Claim, Goto, n
  <2> QED
    BY <1>19, <2>1, <2>3, <2>4 DEF Claim, TypeOK, PC, Number
<1>20. ASSUME LaunchOk
      PROVE  TypeOK'
  BY <1>20 DEF LaunchOk, Launched, Entry, Signal, Control, PC, TypeOK, Goto, Number
<1>21. ASSUME LaunchFail
      PROVE  TypeOK'
  BY <1>21 DEF LaunchFail, Terminalize, Begin, Txn, PC, Control, TypeOK, Goto, Number
<1>22. ASSUME LaunchRaise
      PROVE  TypeOK'
  BY <1>22 DEF LaunchRaise, Raise, PC, TypeOK, Goto, Number
<1>23. ASSUME NEW j \in Job, NEW s \in Signal, Monitor(j, s)
      PROVE  TypeOK'
  <2>1. active[j] \in Entry
    BY <1>23, <1>b DEF Monitor
  <2>2. /\ [active[j] EXCEPT !.signal = "cancel"] \in Entry
        /\ [active[j] EXCEPT !.signal = "timeout"] \in Entry
    BY <2>1 DEF Entry, Signal
  <2>3. /\ pc' \in PC /\ focus' \in Job \cup {NoJob}
        /\ fence' \in 0 .. MaxAttempts /\ txn' \in Txn
    BY <1>23, <2>1 DEF Monitor, Goto, PC, Entry, Number, TypeOK
  <2>4. active' \in Actives
    BY <1>23, <2>2 DEF Monitor, Actives, TypeOK
  <2> QED
    BY <1>23, <2>3, <2>4 DEF Monitor, Actives, TypeOK
<1>24. ASSUME ReceiveTorn
      PROVE  TypeOK'
  BY <1>24 DEF ReceiveTorn, Draining, Took, Control, Entry, NoEntry, Signal, TypeOK, Goto, Number
<1>25. ASSUME ReceiveDropped
      PROVE  TypeOK'
  BY <1>25 DEF ReceiveDropped, Draining, Took, Control, Entry, NoEntry, TypeOK, Goto, Number
<1>26. ASSUME ReceiveEnd
      PROVE  TypeOK'
  <2>1. focus \in Job /\ active[focus] \in Entry
    BY <1>26, <1>b DEF ReceiveEnd, Draining, Control
  <2>2. [active[focus] EXCEPT !.pipe = "empty"] \in Entry
    BY <2>1 DEF Entry
  <2>3. /\ pc' \in PC /\ focus' \in Job \cup {NoJob}
        /\ fence' \in 0 .. MaxAttempts /\ txn' \in Txn
    <3>1. CASE UNCHANGED <<pc, focus, fence, txn>>
      BY <3>1 DEF TypeOK
    <3>2. CASE Begin(active[focus].pipe, focus, fence, {}, pc)
      BY <1>26, <2>1, <3>2 DEF ReceiveEnd, Draining, Begin, Goto, Txn, PC, TypeOK
    <3> QED
      BY <1>26, <3>1, <3>2 DEF ReceiveEnd
  <2> QED
    BY <1>26, <1>a, <2>1, <2>2, <2>3 DEF ReceiveEnd, Took
<1>27. ASSUME ReceiveCompleted
      PROVE  TypeOK'
  <2>1. focus \in Job /\ active[focus] \in Entry
    BY <1>27, <1>b DEF ReceiveCompleted, Draining, Control
  <2>2. [active[focus] EXCEPT !.pipe = "empty", !.terminal = TRUE] \in Entry
    BY <2>1 DEF Entry
  <2>3. active' = [active EXCEPT ![focus] =
                     [active[focus] EXCEPT !.pipe = "empty", !.terminal = TRUE]]
    BY <1>27, <2>1 DEF ReceiveCompleted, Took, TypeOK
  <2>4. /\ pc' \in PC /\ focus' \in Job \cup {NoJob}
        /\ fence' \in 0 .. MaxAttempts /\ txn' \in Txn
    <3>1. CASE UNCHANGED <<pc, focus, fence, txn>>
      BY <3>1 DEF TypeOK
    <3>2. ASSUME NEW op \in {"completed", "failed"}, Begin(op, focus, fence, {}, pc)
          PROVE  /\ pc' \in PC /\ focus' \in Job \cup {NoJob}
                 /\ fence' \in 0 .. MaxAttempts /\ txn' \in Txn
      BY <1>27, <2>1, <3>2 DEF ReceiveCompleted, Draining, Begin, Goto, Txn, PC, TypeOK
    <3> QED
      BY <1>27, <3>1, <3>2 DEF ReceiveCompleted
  <2> QED
    BY <1>27, <1>a, <2>1, <2>2, <2>3, <2>4 DEF ReceiveCompleted
<1>28. ASSUME DrainedAlive
      PROVE  TypeOK'
  BY <1>28 DEF DrainedAlive, PC, TypeOK, Goto, Number
<1>29. ASSUME ForceStop
      PROVE  TypeOK'
  <2>1. focus \in Job /\ active[focus] \in Entry
    BY <1>29, <1>b DEF ForceStop, Control
  <2>2. /\ [active[focus] EXCEPT !.proc = "crashed"] \in Entry
        /\ [active[focus] EXCEPT !.proc = "crashed", !.pipe = "torn"] \in Entry
    BY <2>1 DEF Entry, Message
  <2>3. /\ pc' \in PC /\ focus' \in Job \cup {NoJob}
        /\ fence' \in 0 .. MaxAttempts /\ txn' \in Txn
    BY <1>29 DEF ForceStop, Goto, PC, TypeOK
  <2> QED
    BY <1>29, <1>a, <2>1, <2>2, <2>3 DEF ForceStop
<1>30. ASSUME DrainedDead
      PROVE  TypeOK'
  BY <1>30 DEF DrainedDead, PC, TypeOK, Goto, Number
<1>31. ASSUME Reap
      PROVE  TypeOK'
  BY <1>31 DEF Reap, Begin, Settle, MissingStatus, Txn, PC, Control, Entry, Signal, TypeOK, Goto, Number
<1>32. ASSUME NEW j \in Job, StopEntry(j)
      PROVE  TypeOK'
  BY <1>32 DEF StopEntry, Terminalize, Begin, Settle, Entry, Txn, PC, Number, TypeOK, Goto, Number
<1>33. ASSUME StopDone
      PROVE  TypeOK'
  BY <1>33 DEF StopDone, PC, TypeOK, Goto, Number
<1>34. CASE UNCHANGED vars
  BY <1>34 DEF vars, TypeOK
<1> QED
  BY <1>1, <1>2, <1>3, <1>4, <1>5, <1>6, <1>7, <1>8, <1>9, <1>10, <1>11, <1>12, <1>13, <1>14, <1>15, <1>16, <1>17, <1>18, <1>19, <1>20, <1>21, <1>22, <1>23, <1>24, <1>25, <1>26, <1>27, <1>28, <1>29, <1>30, <1>31, <1>32, <1>33, <1>34
     DEF Next, ClientStep, WorkerStep, SupervisorStep, Commit, Receive

LEMMA ControlStep == QueueInv /\ [Next]_vars => Control'
<1> SUFFICES ASSUME QueueInv, [Next]_vars PROVE Control'
  OBVIOUS
<1> USE JobQueueAssumption DEF QueueInv
<1> TypeOK'
  BY TypeStep
<1>1. ASSUME UNCHANGED <<pc, focus, fence, txn>>,
             \A j \in Job : active[j] # NoEntry => active'[j] # NoEntry
      PROVE  Control'
  BY <1>1 DEF Control
<1>2. ASSUME NEW j \in Job, NEW e \in Entry, active' = [active EXCEPT ![j] = e]
      PROVE  \A k \in Job : active[k] # NoEntry => active'[k] # NoEntry
  BY <1>2, EntryIsNotNone DEF TypeOK
<1>3. ASSUME NEW c \in Client, ClientStep(c) PROVE Control'
  BY <1>1, <1>3 DEF ClientStep, CreateRead, CreateCommit, CancelRead, CancelCommit,
     DeleteRead, DeleteCommit, EditRead, EditCommit, supervisor
<1>4. ASSUME NEW j \in Job, WorkerStep(j) PROVE Control'
  <2>1. active[j] # NoEntry /\ active' \in Actives
    BY <1>4 DEF WorkerStep, WorkerSend, WorkerExit, WorkerDie, TypeOK, Actives
  <2>2. active'[j].attempt = active[j].attempt /\ active[j].attempt # 0
    BY <1>4, <2>1 DEF WorkerStep, WorkerSend, WorkerExit, WorkerDie, TypeOK, Entry, Number
  <2>3. active'[j] # NoEntry
    BY <2>2 DEF NoEntry
  <2>4. \A k \in Job \ {j} : active'[k] = active[k]
    BY <1>4 DEF WorkerStep, WorkerSend, WorkerExit, WorkerDie, TypeOK
  <2>5. UNCHANGED <<pc, focus, fence, txn>>
    BY <1>4 DEF WorkerStep, WorkerSend, WorkerExit, WorkerDie
  <2> QED
    BY <1>1, <2>3, <2>4, <2>5
<1>5. ASSUME NEW j \in Job, Claim(j) PROVE Control'
  BY <1>5 DEF Claim, Control, Goto, TypeOK, JobRow, Number, AttemptBudget
<1>6. ASSUME NEW j \in Job, NEW s \in Signal, Monitor(j, s) PROVE Control'
  BY <1>6 DEF Monitor, Control, Goto, TypeOK, Entry, NoEntry, Number
<1>7. ASSUME NEW j \in Job, StopEntry(j) PROVE Control'
  <2>1. active[j].attempt \in Number
    BY <1>7 DEF StopEntry, TypeOK, Entry
  <2> QED
    BY <1>7, <2>1 DEF StopEntry, Control, Terminalize, Begin, Settle, Goto
<1>8. ASSUME RecoverCommit \/ Start \/ Stop \/ Crash \/ StopDone PROVE Control'
  BY <1>8 DEF RecoverCommit, Start, Stop, Crash, StopDone, Control, Goto
<1>9. ASSUME LaunchOk \/ LaunchFail \/ LaunchRaise PROVE Control'
  BY <1>9 DEF LaunchOk, LaunchFail, LaunchRaise, Control, Goto, Raise, Terminalize, Begin
<1>10. ASSUME TerminalizeCommit \/ RetryCommit \/ CompleteCommit PROVE Control'
  <2>1. /\ focus \in Job /\ fence \in Number /\ txn \in Txn /\ txn' = NoTxn
        /\ txn.next \in {"drain", "exit"} => active[focus] # NoEntry
    BY <1>10 DEF TerminalizeCommit, RetryCommit, CompleteCommit, Control, TypeOK
  <2>2. Settle(txn.next, focus, fence) \/ Raise(txn.next)
    BY <1>10 DEF TerminalizeCommit, RetryCommit, CompleteCommit
  <2>3. CASE Settle(txn.next, focus, fence)
    <3>1. txn.next \in {"loop", "drain", "exit", "stopping"}
      BY <2>1 DEF Txn
    <3>2. /\ pc' = txn.next
          /\ pc' \in {"drain", "exit"} =>
               focus' = focus /\ fence' = fence /\ active'[focus'] # NoEntry
      BY <2>1, <2>3, <3>1, SettleResult
    <3> QED
      BY <2>1, <3>1, <3>2 DEF Control
  <2>4. CASE Raise(txn.next)
    BY <2>1, <2>4, RaiseResult DEF Control
  <2> QED
    BY <2>2, <2>3, <2>4
<1>11. ASSUME Receive PROVE Control'
  <2>1. /\ focus \in Job /\ fence \in Number /\ pc \in {"drain", "exit"}
        /\ active[focus] # NoEntry /\ active[focus] \in Entry
    BY <1>11 DEF Receive, ReceiveTorn, ReceiveDropped, ReceiveEnd, ReceiveCompleted,
       Draining, Control, TypeOK
  <2>2. active'[focus].attempt = active[focus].attempt /\ active[focus].attempt # 0
    BY <1>11, <2>1 DEF Receive, ReceiveTorn, ReceiveDropped, ReceiveEnd,
       ReceiveCompleted, Took, TypeOK, Entry, Number
  <2>3. active'[focus] # NoEntry
    BY <2>2 DEF NoEntry
  <2>4. \A k \in Job \ {focus} : active'[k] = active[k]
    BY <1>11 DEF Receive, ReceiveTorn, ReceiveDropped, ReceiveEnd,
       ReceiveCompleted, Took, TypeOK
  <2>5. CASE UNCHANGED <<pc, focus, fence, txn>>
    BY <1>1, <2>3, <2>4, <2>5
  <2>6. ASSUME NEW op, Begin(op, focus, fence, {}, pc) PROVE Control'
    BY <2>1, <2>3, <2>6 DEF Begin, Goto, Control
  <2> QED
    BY <1>11, <2>5, <2>6 DEF Receive, ReceiveTorn, ReceiveDropped, ReceiveEnd,
       ReceiveCompleted
<1>12. ASSUME DrainedAlive \/ DrainedDead PROVE Control'
  BY <1>12 DEF DrainedAlive, DrainedDead, Control, Goto
<1>13. ASSUME ForceStop PROVE Control'
  <2>1. focus \in Job /\ fence \in Number /\ active[focus] \in Entry
    BY <1>13 DEF ForceStop, Control, TypeOK
  <2>2. active'[focus].attempt = active[focus].attempt /\ active[focus].attempt # 0
    BY <1>13, <2>1 DEF ForceStop, TypeOK, Entry, Number
  <2>3. active'[focus] # NoEntry
    BY <2>2 DEF NoEntry
  <2> QED
    BY <1>13, <2>1, <2>3 DEF ForceStop, Control, Goto
<1>14. ASSUME Reap PROVE Control'
  BY <1>14 DEF Reap, Control, Begin, Settle, Goto
<1>15. CASE UNCHANGED vars
  BY <1>1, <1>15 DEF vars
<1> QED
  BY <1>3, <1>4, <1>5, <1>6, <1>7, <1>8, <1>9, <1>10, <1>11, <1>12, <1>13, <1>14, <1>15
     DEF Next, SupervisorStep, Commit

-----------------------------------------------------------------------------
(* The theorems.                                                           *)

LEMMA QueueInit == Init => QueueInv
<1> SUFFICES ASSUME Init PROVE QueueInv
  OBVIOUS
<1> USE JobQueueAssumption
<1>1. IdleRequest \in Request /\ IdleRequest.op = "idle"
  BY DEF IdleRequest, Request, JobStatus
<1>2. NoRow("absent") \in JobRow
  BY DEF NoRow, JobRow, JobStatus, Number
<1>3. NoTxn \in Txn /\ NoTxn.retry = {}
  BY DEF NoTxn, Txn
<1>4. TypeOK
  BY <1>1, <1>2, <1>3 DEF Init, TypeOK, NoAttempts, AttemptStatus, PC
<1>5. Requests /\ Control /\ Retries
  BY <1>1, <1>3 DEF Init, Requests, Control, Retries
<1>6. AttemptBudget /\ OneActiveMutation
  BY DEF Init, AttemptBudget, OneActiveMutation, NoRow, Pending
<1> QED
  BY <1>4, <1>5, <1>6 DEF QueueInv

LEMMA QueueStep == QueueInv /\ [Next]_vars => QueueInv'
  BY TypeStep, RequestsStep, ControlStep, RetriesStep, BudgetStep, IndexStep
     DEF QueueInv

LEMMA QueueInvariance == Spec => []QueueInv
  BY QueueInit, QueueStep, PTL DEF Spec

(* Every variable keeps its type; that every claimed attempt has a number  *)
(* within the limit is part of it.                                         *)
THEOREM TypeCorrect == Spec => []TypeOK
<1>1. QueueInv => TypeOK
  BY DEF QueueInv
<1> QED
  BY <1>1, QueueInvariance, PTL

(* Through claims, crash retries, recoveries and stale cancellations no    *)
(* job is started more often than its max_attempts.                        *)
THEOREM BudgetIsKept == Spec => []AttemptBudget
<1>1. QueueInv => AttemptBudget
  BY DEF QueueInv
<1> QED
  BY <1>1, QueueInvariance, PTL

(* No project ever has two pending jobs, although a retry or a recovery    *)
(* can queue a job again that a cancellation took off the index meanwhile. *)
THEOREM OneActiveMutationHolds == Spec => []OneActiveMutation
<1>1. QueueInv => OneActiveMutation
  BY DEF QueueInv
<1> QED
  BY <1>1, QueueInvariance, PTL

-----------------------------------------------------------------------------
(***************************************************************************)
(* Attempts: that one is open at a time, that a result is published once   *)
(* and never after a signal, and that no running job is lost while the     *)
(* loop runs.                                                              *)
(*                                                                         *)
(* The supervisor decides on what it read and writes in a later step.      *)
(* Between the two, clients may cancel or delete the job, and nothing      *)
(* else: what it decided on is still true of every row that is left        *)
(* (InHand), whether it holds one attempt or recovers many.                *)
(***************************************************************************)

(* Attempt n of j is open, and nothing but a cancellation has happened; or *)
(* the row is gone, for good.                                              *)
OpenAttempt(j, n) ==
  /\ n \in Number
  /\ jobs[j].status \in {"running", "cancelled"}
  /\ jobs[j].attempt = n /\ jobs[j].count = n
  /\ attempts[j][n] = "running"
OpenOrGone(j, n) == OpenAttempt(j, n) \/ jobs[j].status = "deleted"

Unclaimed ==
  \A j \in Job : /\ jobs[j].status = "queued" => jobs[j].attempt = 0
                 /\ jobs[j].status = "running" => jobs[j].attempt # 0

(* What the supervisor decided on.                                         *)
InHand ==
  /\ pc \in {"launch", "commit"} => OpenOrGone(focus, fence)
  /\ pc = "commit" => focus \in txn.jobs
  /\ pc = "recover" =>
       /\ txn.retry \subseteq txn.jobs
       /\ \A j \in txn.jobs : OpenOrGone(j, jobs[j].attempt)
       /\ \A j \in Job : jobs[j].status = "running" => j \in txn.jobs

(* The entry the supervisor is at, and what it knows of its attempt.       *)
AtEntry == pc \in {"drain", "exit"} \/ (pc = "commit" /\ txn.next \in {"drain", "exit"})
Entries ==
  /\ AtEntry => active[focus].attempt = fence
  /\ pc = "commit" /\ txn.op = "completed" =>
       /\ txn.next \in {"drain", "exit"}
       /\ active[focus].terminal
       /\ active[focus].signal \notin {"cancel", "timeout"}
  /\ \A j \in Job : active[j] # NoEntry /\ ~active[j].terminal =>
       attempts[j][active[j].attempt] # "completed"

AttemptInv ==
  /\ Unclaimed /\ PublishedOnce /\ OneOpenAttempt
  /\ InHand /\ Entries /\ SignalPrecedence /\ RunningIsOwned

-----------------------------------------------------------------------------
(* What a step may do to the row of a job and to its attempts.             *)

Same(j) ==
  /\ jobs'[j].status = jobs[j].status /\ jobs'[j].attempt = jobs[j].attempt
  /\ jobs'[j].count = jobs[j].count /\ attempts'[j] = attempts[j]
Dropped_(j) ==
  /\ jobs[j].status \notin {"absent", "deleted"} /\ jobs'[j].status = "cancelled"
  /\ jobs'[j].attempt = jobs[j].attempt /\ jobs'[j].count = jobs[j].count
  /\ attempts'[j] = attempts[j]
Gone(j) ==
  jobs[j].status # "absent" /\ jobs'[j] = NoRow("deleted") /\ attempts'[j] = NoAttempts
New_(j) ==
  /\ jobs[j].status = "absent" /\ jobs'[j].status = "queued"
  /\ jobs'[j].attempt = 0 /\ attempts'[j] = attempts[j]
Taken(j, n) ==
  /\ jobs[j].status = "queued" /\ jobs'[j].status = "running"
  /\ jobs'[j].count = n /\ jobs'[j].attempt = n
  /\ n \in Number /\ attempts'[j] = [attempts[j] EXCEPT ![n] = "running"]
Ended(j, n, s) ==
  /\ OpenAttempt(j, n) /\ n \in Number
  /\ jobs'[j].status = s /\ jobs'[j].count = n
  /\ \/ s \in {"failed", "cancelled", "completed"}
     \/ s = "queued" /\ jobs'[j].attempt = 0
  /\ \A m \in Number : attempts'[j][m] =
       IF m = n THEN (IF s = "queued" THEN "failed" ELSE s) ELSE attempts[j][m]

ByClient(j) == Same(j) \/ Dropped_(j) \/ Gone(j) \/ New_(j)

RowInv(j) ==
  /\ jobs[j].status = "queued" => jobs[j].attempt = 0
  /\ jobs[j].status = "running" => jobs[j].attempt # 0
  /\ jobs[j].status = "completed" => attempts[j][jobs[j].count] = "completed"
  /\ \A n \in Number : attempts[j][n] = "completed" =>
       n = jobs[j].count /\ jobs[j].status \in {"completed", "cancelled"}
  /\ jobs[j].status = "running" =>
       jobs[j].attempt = jobs[j].count /\ attempts[j][jobs[j].count] = "running"
  /\ \A n \in Number : attempts[j][n] = "running" =>
       n = jobs[j].count /\ jobs[j].status \in {"running", "cancelled"}

LEMMA RowInvs == Unclaimed /\ PublishedOnce /\ OneOpenAttempt <=> \A j \in Job : RowInv(j)
  BY DEF Unclaimed, PublishedOnce, OneOpenAttempt, RowInv

LEMMA ClientRowInv ==
  ASSUME TypeOK, NEW j \in Job, RowInv(j), ByClient(j) PROVE RowInv(j)'
<1>1. CASE Same(j)
  BY <1>1 DEF Same, RowInv
<1>2. CASE Dropped_(j)
  BY <1>2 DEF Dropped_, RowInv
<1>3. CASE Gone(j)
  BY <1>3 DEF Gone, RowInv, NoRow, NoAttempts
<1>4. CASE New_(j)
  BY <1>4 DEF New_, RowInv
<1> QED
  BY <1>1, <1>2, <1>3, <1>4 DEF ByClient

LEMMA TakenRowInv ==
  ASSUME TypeOK, NEW j \in Job, RowInv(j), NEW n, Taken(j, n)
  PROVE  RowInv(j)' /\ OpenAttempt(j, n)'
  BY JobQueueAssumption DEF TypeOK, Taken, RowInv, OpenAttempt, Number

LEMMA EndedRowInv ==
  ASSUME TypeOK, NEW j \in Job, RowInv(j), NEW n, NEW s, Ended(j, n, s)
  PROVE  RowInv(j)'
<1>1. jobs[j].count = n
  BY DEF Ended, OpenAttempt
<1> QED
  BY <1>1 DEF Ended, OpenAttempt, RowInv

(* What the supervisor decided on stays true whatever clients do.          *)
LEMMA ClientOpenOrGone ==
  ASSUME NEW j \in Job, NEW n, ByClient(j), OpenOrGone(j, n) PROVE OpenOrGone(j, n)'
  BY DEF ByClient, Same, Dropped_, Gone, New_, OpenOrGone, OpenAttempt, NoRow

LEMMA ClientRows ==
  ASSUME QueueInv, NEW c \in Client, ClientStep(c)
  PROVE  /\ \A j \in Job : ByClient(j)
         /\ UNCHANGED <<active, pc, focus, fence, txn>>
<1> USE DEF QueueInv
<1>1. CASE jobs' = jobs /\ attempts' = attempts
  <2>1. UNCHANGED <<active, pc, focus, fence, txn>>
    BY DEF ClientStep, CreateRead, CreateCommit, CancelRead, CancelCommit,
       DeleteRead, DeleteCommit, EditRead, EditCommit, supervisor
  <2> QED
    BY <1>1, <2>1 DEF ByClient, Same
<1>2. ASSUME CreateCommit(c), jobs' # jobs PROVE \A j \in Job : ByClient(j)
  <2> DEFINE j == requests[c].job
  <2>1. j \in Job /\ jobs[j].status = "absent" /\ attempts' = attempts
    BY <1>2 DEF CreateCommit, Requests
  <2>2. PICK m \in Number : jobs' = [jobs EXCEPT ![j] =
             [status |-> "queued", count |-> 0, max |-> m, attempt |-> 0,
              cancel |-> FALSE, input |-> requests[c].rev]]
    BY <1>2 DEF CreateCommit
  <2>3. New_(j)
    BY <2>1, <2>2 DEF New_, TypeOK
  <2>4. \A k \in Job \ {j} : Same(k)
    BY <2>1, <2>2 DEF Same, TypeOK
  <2> QED
    BY <2>1, <2>3, <2>4 DEF ByClient
<1>3. ASSUME CancelCommit(c), jobs' # jobs PROVE \A j \in Job : ByClient(j)
  <2> DEFINE j == requests[c].job
  <2>1. j \in Job /\ jobs[j] \in JobRow /\ attempts' = attempts
    BY <1>3 DEF CancelCommit, Requests, TypeOK
  <2>2. \A k \in Job \ {j} : jobs'[k] = jobs[k]
    BY <1>3, <2>1 DEF CancelCommit, TypeOK
  <2>3. Same(j) \/ Dropped_(j)
    BY <1>3, <2>1 DEF CancelCommit, Same, Dropped_, Stored, TypeOK, JobRow
  <2> QED
    BY <2>1, <2>2, <2>3 DEF ByClient, Same
<1>4. ASSUME DeleteCommit(c) PROVE \A j \in Job : ByClient(j)
  BY <1>4 DEF DeleteCommit, ByClient, Same, Gone, Requests, TypeOK
<1> QED
  <2>1. UNCHANGED <<active, pc, focus, fence, txn>>
    BY DEF ClientStep, CreateRead, CreateCommit, CancelRead, CancelCommit,
       DeleteRead, DeleteCommit, EditRead, EditCommit, supervisor
  <2>2. \/ jobs' = jobs /\ attempts' = attempts
        \/ CreateCommit(c) /\ jobs' # jobs
        \/ CancelCommit(c) /\ jobs' # jobs
        \/ DeleteCommit(c)
    BY DEF ClientStep, CreateRead, CreateCommit, CancelRead, CancelCommit,
       DeleteRead, DeleteCommit, EditRead, EditCommit, supervisor
  <2> QED
    BY <1>1, <1>2, <1>3, <1>4, <2>1, <2>2
-----------------------------------------------------------------------------
(* What the supervisor's steps do to the rows.                             *)

(* A call that is let through is about the one open attempt.               *)
LEMMA LetThrough ==
  ASSUME QueueInv, AttemptInv, NEW j \in Job, NEW n \in Number,
         CanTerminalize(j, n) \/ CanRetry(j, n) \/ CanComplete(j, n)
  PROVE  OpenAttempt(j, n)
<1>1. jobs[j].attempt = n /\ n # 0
  BY DEF CanTerminalize, CanRetry, CanComplete, Number
<1>2. jobs[j].status = "running"
  BY <1>1 DEF CanTerminalize, CanRetry, CanComplete, Pending, AttemptInv, Unclaimed
<1> QED
  BY <1>1, <1>2 DEF AttemptInv, OneOpenAttempt, OpenAttempt

LEMMA EndRows ==
  ASSUME QueueInv, AttemptInv, TerminalizeCommit \/ RetryCommit \/ CompleteCommit
  PROVE  \/ jobs' = jobs /\ attempts' = attempts
            /\ (pc' \in {"stopping", "down"} \/ jobs[focus].status = "deleted")
         \/ /\ \A k \in Job \ {focus} : Same(k)
            /\ \E s \in {"failed", "cancelled", "completed", "queued"} :
                 /\ Ended(focus, fence, s)
                 /\ s = "completed" => txn.op = "completed"
<1> USE DEF QueueInv, AttemptInv
<1>1. focus \in Job /\ fence \in Number /\ jobs[focus] \in JobRow
  BY DEF TerminalizeCommit, RetryCommit, CompleteCommit, Control, TypeOK
<1>2. Stored(focus) => OpenAttempt(focus, fence)
  BY DEF TerminalizeCommit, RetryCommit, CompleteCommit, InHand, OpenOrGone, Stored
<1>3. ~Stored(focus) => jobs[focus].status = "deleted"
  BY DEF TerminalizeCommit, RetryCommit, CompleteCommit, InHand, OpenOrGone, OpenAttempt,
     Stored
<1>4. Raise(txn.next) => pc' \in {"stopping", "down"}
  BY DEF Raise, Goto
<1>5. ASSUME NEW s \in Terminal, Stored(focus),
             jobs' = [jobs EXCEPT ![focus].status = s],
             attempts' = Closed(focus, fence, s)
      PROVE  Ended(focus, fence, s) /\ \A k \in Job \ {focus} : Same(k)
  BY <1>1, <1>2, <1>5 DEF Ended, Closed, Same, TypeOK, JobRow, Terminal, OpenAttempt
<1>6. CASE TerminalizeCommit
  BY <1>3, <1>4, <1>5, <1>6 DEF TerminalizeCommit, Terminal
<1>7. CASE CompleteCommit
  BY <1>3, <1>5, <1>7 DEF CompleteCommit, Terminal
<1>8. CASE RetryCommit
  <2>1. CASE UNCHANGED <<jobs, attempts>> /\ Raise(txn.next)
    BY <1>4, <2>1
  <2>2. CASE /\ Stored(focus) /\ focus \notin txn.retry
             /\ attempts' = Closed(focus, fence, "failed")
             /\ jobs' = [jobs EXCEPT ![focus].status = "failed", ![focus].attempt = @]
    <3>1. Ended(focus, fence, "failed") /\ \A k \in Job \ {focus} : Same(k)
      BY <1>1, <1>2, <2>2 DEF Ended, Closed, Same, TypeOK, JobRow, OpenAttempt
    <3> QED
      BY <3>1
  <2>3. CASE /\ Stored(focus) /\ focus \in txn.retry
             /\ attempts' = Closed(focus, fence, "failed")
             /\ jobs' = [jobs EXCEPT ![focus].status = "queued", ![focus].attempt = 0]
    <3>1. Ended(focus, fence, "queued") /\ \A k \in Job \ {focus} : Same(k)
      BY <1>1, <1>2, <2>3 DEF Ended, Closed, Same, TypeOK, JobRow, OpenAttempt
    <3> QED
      BY <3>1
  <2> QED
    BY <1>8, <2>1, <2>2, <2>3 DEF RetryCommit
<1> QED
  BY <1>6, <1>7, <1>8

LEMMA RecoverRows ==
  ASSUME QueueInv, AttemptInv, RecoverCommit
  PROVE  \/ jobs' = jobs /\ attempts' = attempts /\ pc' = "down"
         \/ \A j \in Job :
              \/ j \notin txn.jobs /\ Same(j)
              \/ /\ j \in txn.jobs
                 /\ \E s \in {"failed", "queued"} : Ended(j, jobs[j].attempt, s)
<1> USE DEF QueueInv, AttemptInv
<1>1. CASE UNCHANGED <<jobs, attempts>> /\ Goto("down", NoJob, 0)
  BY <1>1 DEF Goto
<1>2. CASE ~(UNCHANGED <<jobs, attempts>> /\ Goto("down", NoJob, 0))
  <2> SUFFICES ASSUME NEW j \in Job
               PROVE  \/ j \notin txn.jobs /\ Same(j)
                      \/ /\ j \in txn.jobs
                         /\ \E s \in {"failed", "queued"} : Ended(j, jobs[j].attempt, s)
    OBVIOUS
  <2>1. txn.retry \subseteq txn.jobs /\ jobs[j] \in JobRow
    BY DEF RecoverCommit, InHand, TypeOK
  <2>2. CASE j \notin txn.jobs
    BY <1>2, <2>1, <2>2 DEF RecoverCommit, Same
  <2>3. CASE j \in txn.jobs
    <3>1. OpenAttempt(j, jobs[j].attempt) /\ jobs[j].attempt \in Number
      <4>1. Stored(j)
        BY <1>2, <2>3 DEF RecoverCommit
      <4>2. OpenAttempt(j, jobs[j].attempt)
        BY <2>3, <4>1 DEF RecoverCommit, InHand, OpenOrGone, Stored
      <4> QED
        BY <4>2 DEF OpenAttempt
    <3>2. \A m \in Number : attempts'[j][m] =
            IF m = jobs[j].attempt THEN "failed" ELSE attempts[j][m]
      BY <1>2, <2>3 DEF RecoverCommit
    <3>3. CASE j \in txn.retry
      <4>1. jobs'[j] = [jobs[j] EXCEPT !.status = "queued", !.attempt = 0]
        BY <1>2, <3>3 DEF RecoverCommit
      <4> QED
        BY <2>1, <2>3, <3>1, <3>2, <4>1 DEF Ended, OpenAttempt, JobRow
    <3>4. CASE j \notin txn.retry
      <4>1. jobs'[j] = [jobs[j] EXCEPT !.status = "failed"]
        BY <1>2, <2>3, <3>4 DEF RecoverCommit
      <4> QED
        BY <2>1, <2>3, <3>1, <3>2, <4>1 DEF Ended, OpenAttempt, JobRow
    <3> QED
      BY <3>3, <3>4
  <2> QED
    BY <2>2, <2>3
<1> QED
  BY <1>1, <1>2

LEMMA ClaimRows ==
  ASSUME QueueInv, AttemptInv, NEW j \in Job, Claim(j)
  PROVE  /\ Taken(j, jobs[j].count + 1) /\ fence' = jobs[j].count + 1 /\ focus' = j
         /\ \A k \in Job \ {j} : Same(k)
<1> DEFINE n == jobs[j].count + 1
<1>1. n \in Number /\ jobs[j] \in JobRow
  BY JobQueueAssumption DEF QueueInv, Claim, TypeOK, JobRow, AttemptBudget, Number
<1> HIDE DEF n
<1>2. /\ jobs' = [jobs EXCEPT ![j].status = "running", ![j].count = n, ![j].attempt = n]
      /\ attempts' = [attempts EXCEPT ![j][n] = "running"]
      /\ focus' = j /\ fence' = n /\ jobs[j].status = "queued"
  BY DEF Claim, Goto, n
<1>3. Taken(j, n)
  BY <1>1, <1>2 DEF Taken, QueueInv, TypeOK, JobRow
<1>4. \A k \in Job \ {j} : Same(k)
  BY <1>1, <1>2 DEF Same, QueueInv, TypeOK
<1> QED
  BY <1>2, <1>3, <1>4 DEF n

(* The steps that leave rows and attempts alone.                           *)
Reading ==
  \/ \E j \in Job : WorkerStep(j) \/ StopEntry(j) \/ \E s \in Signal : Monitor(j, s)
  \/ Start \/ Stop \/ Crash \/ LaunchOk \/ LaunchFail \/ LaunchRaise
  \/ Receive \/ DrainedAlive \/ ForceStop \/ DrainedDead \/ Reap \/ StopDone
  \/ UNCHANGED vars

LEMMA ReadingRows == Reading => jobs' = jobs /\ attempts' = attempts
  BY DEF Reading, WorkerStep, WorkerSend, WorkerExit, WorkerDie, StopEntry, Monitor,
     Start, Stop, Crash, LaunchOk, LaunchFail, LaunchRaise, Receive, ReceiveTorn,
     ReceiveDropped, ReceiveEnd, ReceiveCompleted, DrainedAlive, ForceStop,
     DrainedDead, Reap, StopDone, vars

LEMMA Steps ==
  [Next]_vars => \/ \E c \in Client : ClientStep(c)
                 \/ RecoverCommit
                 \/ TerminalizeCommit \/ RetryCommit \/ CompleteCommit
                 \/ \E j \in Job : Claim(j)
                 \/ Reading
  BY DEF Next, SupervisorStep, Commit, Reading

LEMMA RowsStep ==
  ASSUME QueueInv, AttemptInv, [Next]_vars
  PROVE  (Unclaimed /\ PublishedOnce /\ OneOpenAttempt)'
<1>1. (\A j \in Job : RowInv(j))' <=> (Unclaimed /\ PublishedOnce /\ OneOpenAttempt)'
  BY RowInvs, PTL
<1> SUFFICES ASSUME NEW j \in Job PROVE RowInv(j)'
  BY <1>1
<1>2. TypeOK /\ RowInv(j)
  BY RowInvs DEF QueueInv, AttemptInv
<1>3. CASE ByClient(j)
  BY <1>2, <1>3, ClientRowInv
<1>4. ASSUME NEW n, NEW s, Ended(j, n, s) PROVE RowInv(j)'
  BY <1>2, <1>4, EndedRowInv
<1>5. ASSUME NEW n, Taken(j, n) PROVE RowInv(j)'
  BY <1>2, <1>5, TakenRowInv
<1>6. Same(j) => ByClient(j)
  BY DEF ByClient
<1>7. ASSUME NEW c \in Client, ClientStep(c) PROVE ByClient(j)
  BY <1>7, ClientRows
<1>8. CASE RecoverCommit
  BY <1>3, <1>4, <1>6, <1>8, RecoverRows DEF Same
<1>9. CASE TerminalizeCommit \/ RetryCommit \/ CompleteCommit
  <2>1. CASE jobs' = jobs /\ attempts' = attempts
    BY <1>3, <1>6, <2>1 DEF Same
  <2>2. CASE j = focus /\ \E s : Ended(focus, fence, s)
    BY <1>4, <2>2
  <2> QED
    BY <1>3, <1>6, <1>9, <2>1, <2>2, EndRows
<1>10. ASSUME NEW k \in Job, Claim(k) PROVE RowInv(j)'
  BY <1>3, <1>5, <1>6, <1>10, ClaimRows
<1>11. CASE Reading
  BY <1>3, <1>6, <1>11, ReadingRows DEF Same
<1> QED
  BY <1>3, <1>7, <1>8, <1>9, <1>10, <1>11, Steps

-----------------------------------------------------------------------------
(* What the supervisor decided on is still true when it writes.            *)

LEMMA InHandStep == ASSUME QueueInv, AttemptInv, [Next]_vars PROVE InHand'
<1> USE DEF QueueInv, AttemptInv
<1>1. ASSUME pc' \notin {"launch", "commit", "recover"} PROVE InHand'
  BY <1>1 DEF InHand
<1>2. ASSUME UNCHANGED <<jobs, attempts, pc, focus, fence, txn>> PROVE InHand'
  BY <1>2 DEF InHand, OpenOrGone, OpenAttempt
<1>3. ASSUME NEW op, NEW j \in Job, NEW n \in Number, NEW again, NEW next,
             OpenAttempt(j, n), Begin(op, j, n, again, next),
             jobs' = jobs, attempts' = attempts
      PROVE  InHand'
  BY <1>3 DEF InHand, OpenOrGone, OpenAttempt, Begin, Goto
<1>4. ASSUME NEW c \in Client, ClientStep(c) PROVE InHand'
  <2>1. /\ \A j \in Job : ByClient(j)
        /\ UNCHANGED <<pc, focus, fence, txn>>
    BY <1>4, ClientRows
  <2>2. pc \in {"launch", "commit"} => OpenOrGone(focus, fence)'
    BY <2>1, ClientOpenOrGone DEF InHand, Control
  <2>3. ASSUME pc = "recover", NEW j \in txn.jobs
        PROVE  OpenOrGone(j, jobs[j].attempt)'
    <3>1. j \in Job /\ ByClient(j) /\ OpenOrGone(j, jobs[j].attempt)
      BY <2>1, <2>3 DEF InHand, TypeOK, Txn
    <3>2. OpenOrGone(j, jobs[j].attempt)' \/ jobs'[j].status = "deleted"
      BY <3>1 DEF ByClient, Same, Dropped_, Gone, New_, OpenOrGone, OpenAttempt, NoRow
    <3> QED
      BY <3>2 DEF OpenOrGone
  <2>4. \A j \in Job : jobs'[j].status = "running" => jobs[j].status = "running"
    BY <2>1 DEF ByClient, Same, Dropped_, Gone, New_, NoRow
  <2> QED
    BY <2>1, <2>2, <2>3, <2>4 DEF InHand
<1>5. CASE Start
  <2>1. \A j \in Job : jobs[j].status = "running" => OpenAttempt(j, jobs[j].attempt)
    BY DEF Unclaimed, OneOpenAttempt, OpenAttempt, TypeOK, JobRow, Number
  <2> QED
    BY <1>5, <2>1 DEF Start, InHand, Goto, OpenOrGone, OpenAttempt
<1>6. CASE RecoverCommit \/ TerminalizeCommit \/ RetryCommit \/ CompleteCommit
  <2>1. CASE RecoverCommit
    BY <1>1, <2>1 DEF RecoverCommit, Goto
  <2>2. CASE TerminalizeCommit \/ RetryCommit \/ CompleteCommit
    <3>1. Settle(txn.next, focus, fence) \/ Raise(txn.next)
      BY <2>2 DEF TerminalizeCommit, RetryCommit, CompleteCommit
    <3> QED
      BY <1>1, <3>1 DEF Settle, Raise, Goto
  <2> QED
    BY <1>6, <2>1, <2>2
<1>7. ASSUME NEW j \in Job, Claim(j) PROVE InHand'
  <2>1. pc' = "launch"
    BY <1>7 DEF Claim, Goto
  <2>2. PICK n : n = jobs[j].count + 1
    OBVIOUS
  <2>3. Taken(j, n) /\ fence' = n /\ focus' = j
    BY <1>7, <2>2, ClaimRows
  <2>4. RowInv(j)
    BY RowInvs
  <2>5. OpenAttempt(j, n)'
    BY <2>3, <2>4, TakenRowInv
  <2>6. OpenAttempt(focus, fence)'
    BY <2>3, <2>5 DEF OpenAttempt
  <2> QED
    BY <2>1, <2>6 DEF InHand, OpenOrGone
<1>8. CASE LaunchOk \/ LaunchRaise \/ Stop \/ Crash \/ DrainedAlive \/ ForceStop
           \/ DrainedDead \/ StopDone
  BY <1>1, <1>8 DEF LaunchOk, LaunchRaise, Stop, Crash, DrainedAlive, ForceStop,
     DrainedDead, StopDone, Goto, Raise
<1>9. CASE LaunchFail
  <2>1. focus \in Job /\ fence \in Number
    BY <1>9 DEF LaunchFail, Control
  <2> QED
    BY <1>1, <1>3, <1>9, <2>1, LetThrough DEF LaunchFail, Goto, Terminalize
<1>10. ASSUME NEW j \in Job, NEW s \in Signal, Monitor(j, s) PROVE InHand'
  BY <1>1, <1>10 DEF Monitor, Goto
<1>11. CASE Receive
  <2>1. focus \in Job /\ fence \in Number /\ pc \in {"drain", "exit"}
    BY <1>11 DEF Receive, ReceiveTorn, ReceiveDropped, ReceiveEnd, ReceiveCompleted,
       Draining, Control
  <2>2. CASE UNCHANGED <<pc, focus, fence, txn>>
    BY <1>1, <2>1, <2>2
  <2>3. ASSUME NEW op, CanTerminalize(focus, fence) \/ CanComplete(focus, fence),
               Begin(op, focus, fence, {}, pc)
        PROVE  InHand'
    BY <1>3, <1>11, <2>1, <2>3, LetThrough, ReadingRows DEF Reading
  <2> QED
    BY <1>11, <2>2, <2>3 DEF Receive, ReceiveTorn, ReceiveDropped, ReceiveEnd, ReceiveCompleted
<1>12. CASE Reap
  <2>1. focus \in Job /\ fence \in Number /\ pc = "exit"
    BY <1>12 DEF Reap, Control
  <2>2. CASE Settle("loop", focus, fence)
    BY <1>1, <2>2 DEF Settle, Goto
  <2>3. ASSUME NEW op, NEW again, CanTerminalize(focus, fence) \/ CanRetry(focus, fence),
               Begin(op, focus, fence, again, "loop")
        PROVE  InHand'
    BY <1>3, <1>12, <2>1, <2>3, LetThrough, ReadingRows DEF Reading
  <2> QED
    BY <1>12, <2>2, <2>3 DEF Reap
<1>13. ASSUME NEW j \in Job, StopEntry(j) PROVE InHand'
  <2>1. active[j].attempt \in Number
    BY <1>13 DEF StopEntry, TypeOK, Entry
  <2>2. CASE Settle("stopping", j, active[j].attempt)
    BY <1>1, <2>2 DEF Settle, Goto
  <2>3. CASE Terminalize("failed", j, active[j].attempt, "stopping")
    BY <1>3, <1>13, <2>1, <2>3, LetThrough DEF StopEntry, Terminalize
  <2> QED
    BY <1>13, <2>2, <2>3 DEF StopEntry
<1>14. ASSUME NEW j \in Job, WorkerStep(j) PROVE InHand'
  BY <1>2, <1>14 DEF WorkerStep, WorkerSend, WorkerExit, WorkerDie
<1>15. CASE UNCHANGED vars
  BY <1>2, <1>15 DEF vars
<1> QED
  BY <1>4, <1>5, <1>6, <1>7, <1>8, <1>9, <1>10, <1>11, <1>12, <1>13, <1>14, <1>15,
     Steps DEF Reading

-----------------------------------------------------------------------------
(* The entries of the supervisor.                                          *)

(* One entry is replaced by one of the same attempt, and not reopened.     *)
Carried(j) ==
  /\ active[j] # NoEntry /\ active'[j] # NoEntry
  /\ active'[j].attempt = active[j].attempt
  /\ active[j].terminal => active'[j].terminal
Signalled(j) ==
  active'[j].signal \in {"cancel", "timeout"} => active'[j].signal = active[j].signal

LEMMA WorkerEntry ==
  ASSUME QueueInv, NEW j \in Job, WorkerStep(j)
  PROVE  /\ Carried(j) /\ Signalled(j) /\ active'[j].terminal = active[j].terminal
         /\ \A k \in Job \ {j} : active'[k] = active[k]
         /\ UNCHANGED <<jobs, attempts, pc, focus, fence, txn>>
<1>1. active[j] \in Entry /\ active[j] # NoEntry
  BY DEF QueueInv, TypeOK, WorkerStep, WorkerSend, WorkerExit, WorkerDie
<1>2. /\ active'[j].attempt = active[j].attempt
      /\ active'[j].terminal = active[j].terminal
      /\ active'[j].signal = active[j].signal
  BY <1>1 DEF QueueInv, TypeOK, WorkerStep, WorkerSend, WorkerExit, WorkerDie, Entry
<1>3. active'[j] # NoEntry
  BY <1>1, <1>2 DEF Entry, NoEntry, Number
<1> QED
  BY <1>1, <1>2, <1>3
     DEF QueueInv, TypeOK, WorkerStep, WorkerSend, WorkerExit, WorkerDie, Carried, Signalled

LEMMA ReceiveEntry ==
  ASSUME QueueInv, Receive
  PROVE  /\ focus \in Job /\ fence \in Number /\ pc \in {"drain", "exit"}
         /\ Carried(focus) /\ Signalled(focus)
         /\ ~ReceiveCompleted => active'[focus].terminal = active[focus].terminal
         /\ ReceiveCompleted => active'[focus].terminal
         /\ \A k \in Job \ {focus} : active'[k] = active[k]
<1>1. /\ focus \in Job /\ fence \in Number /\ pc \in {"drain", "exit"}
      /\ active[focus] # NoEntry /\ active[focus] \in Entry
  BY DEF QueueInv, Receive, ReceiveTorn, ReceiveDropped, ReceiveEnd, ReceiveCompleted,
     Draining, Control, TypeOK
<1>2. /\ active'[focus].attempt = active[focus].attempt
      /\ ~ReceiveCompleted => active'[focus].terminal = active[focus].terminal
      /\ ReceiveCompleted => active'[focus].terminal
  BY <1>1 DEF QueueInv, TypeOK, Receive, ReceiveTorn, ReceiveDropped, ReceiveEnd,
     ReceiveCompleted, Took, Entry
<1>3. Signalled(focus)
  BY <1>1 DEF QueueInv, TypeOK, Receive, ReceiveTorn, ReceiveDropped, ReceiveEnd,
     ReceiveCompleted, Took, Entry, Signalled
<1>4. active'[focus] # NoEntry
  BY <1>1, <1>2 DEF Entry, NoEntry, Number
<1>5. \A k \in Job \ {focus} : active'[k] = active[k]
  BY DEF QueueInv, TypeOK, Receive, ReceiveTorn, ReceiveDropped, ReceiveEnd,
     ReceiveCompleted, Took
<1>6. Carried(focus)
  BY <1>1, <1>2, <1>4 DEF Carried
<1> QED
  BY <1>1, <1>2, <1>3, <1>5, <1>6

(* How a commit leaves the entries.                                        *)
LEMMA CommitEntry ==
  ASSUME QueueInv, TerminalizeCommit \/ RetryCommit \/ CompleteCommit
  PROVE  /\ focus \in Job /\ fence \in Number
         /\ \/ /\ txn.next \in {"drain", "exit"} /\ pc' = txn.next
               /\ focus' = focus /\ fence' = fence
               /\ Carried(focus) /\ Signalled(focus) /\ active'[focus].terminal
               /\ \A k \in Job \ {focus} : active'[k] = active[k]
            \/ /\ txn.next \in {"loop", "stopping"} /\ pc' = txn.next
               /\ active'[focus] = NoEntry
               /\ \A k \in Job \ {focus} : active'[k] = active[k]
            \/ pc' = "stopping" /\ active' = active
            \/ pc' = "down" /\ \A k \in Job : active'[k] = NoEntry
<1>1. focus \in Job /\ fence \in Number
  BY DEF QueueInv, TerminalizeCommit, RetryCommit, CompleteCommit, Control
<1>2. CASE Raise(txn.next)
  BY <1>1, <1>2 DEF Raise, Goto
<1>3. CASE Settle(txn.next, focus, fence) /\ txn.next \in {"loop", "stopping"}
  BY <1>1, <1>3 DEF Settle, Goto, QueueInv, TypeOK
<1>4. CASE Settle(txn.next, focus, fence) /\ txn.next \in {"drain", "exit"}
  <2>1. active[focus] \in Entry /\ active[focus] # NoEntry
    BY <1>1, <1>4 DEF QueueInv, TerminalizeCommit, RetryCommit, CompleteCommit, Control, TypeOK
  <2>2. /\ active'[focus].attempt = active[focus].attempt
        /\ active'[focus].terminal /\ active'[focus].signal = active[focus].signal
        /\ \A k \in Job \ {focus} : active'[k] = active[k]
    BY <1>1, <1>4, <2>1 DEF Settle, QueueInv, TypeOK, Entry
  <2>3. active'[focus] # NoEntry
    BY <2>1, <2>2 DEF Entry, NoEntry, Number
  <2> QED
    BY <1>1, <1>4, <2>1, <2>2, <2>3 DEF Settle, Goto, Carried, Signalled
<1> QED
  BY <1>2, <1>3, <1>4 DEF TerminalizeCommit, RetryCommit, CompleteCommit, Settle

LEMMA EntrySteps ==
  ASSUME QueueInv, [Next]_vars, NEW j \in Job
  PROVE  \/ active'[j] = active[j] \/ active'[j] = NoEntry
         \/ Carried(j) /\ Signalled(j)
         \/ LaunchOk /\ j = focus
         \/ Carried(j) /\ ~active[j].terminal
<1> USE DEF QueueInv
<1> DEFINE Goal == \/ active'[j] = active[j] \/ active'[j] = NoEntry
                   \/ Carried(j) /\ Signalled(j)
                   \/ LaunchOk /\ j = focus
                   \/ Carried(j) /\ ~active[j].terminal
<1>1. ASSUME NEW c \in Client, ClientStep(c) PROVE Goal
  BY <1>1 DEF ClientStep, CreateRead, CreateCommit, CancelRead, CancelCommit,
     DeleteRead, DeleteCommit, EditRead, EditCommit, supervisor
<1>2. ASSUME NEW k \in Job, WorkerStep(k) PROVE Goal
  BY <1>2, WorkerEntry
<1>3. CASE Receive
  BY <1>3, ReceiveEntry
<1>4. CASE TerminalizeCommit \/ RetryCommit \/ CompleteCommit
  BY <1>4, CommitEntry
<1>5. CASE LaunchOk
  BY <1>5 DEF LaunchOk, Control, TypeOK
<1>6. ASSUME NEW k \in Job, NEW s \in Signal, Monitor(k, s) PROVE Goal
  <2>1. CASE active' = active
    BY <2>1
  <2>2. CASE /\ ~active[k].terminal
             /\ \E t \in Signal : active' = [active EXCEPT ![k].signal = t]
    <3>1. active[k] \in Entry /\ active[k] # NoEntry
      BY <1>6 DEF Monitor, TypeOK
    <3>2. /\ active'[k].attempt = active[k].attempt
          /\ active'[k].terminal = active[k].terminal
      BY <2>2, <3>1 DEF TypeOK, Entry
    <3>3. active'[k] # NoEntry
      BY <3>1, <3>2 DEF Entry, NoEntry, Number
    <3>4. \A i \in Job \ {k} : active'[i] = active[i]
      BY <2>2 DEF TypeOK
    <3> QED
      BY <2>2, <3>1, <3>2, <3>3, <3>4 DEF Carried
  <2> QED
    BY <1>6, <2>1, <2>2 DEF Monitor, Signal
<1>7. CASE ForceStop
  <2>1. focus \in Job /\ active[focus] \in Entry /\ active[focus] # NoEntry
    BY <1>7 DEF ForceStop, Control, TypeOK
  <2>2. /\ active'[focus].attempt = active[focus].attempt
        /\ active'[focus].terminal = active[focus].terminal
        /\ active'[focus].signal = active[focus].signal
    BY <1>7, <2>1 DEF ForceStop, TypeOK, Entry
  <2>3. active'[focus] # NoEntry
    BY <2>1, <2>2 DEF Entry, NoEntry, Number
  <2>4. \A i \in Job \ {focus} : active'[i] = active[i]
    BY <1>7 DEF ForceStop, TypeOK
  <2> QED
    BY <2>1, <2>2, <2>3, <2>4 DEF Carried, Signalled
<1>8. ASSUME NEW k \in Job, StopEntry(k) PROVE Goal
  BY <1>8 DEF StopEntry, Terminalize, Settle, TypeOK
<1>9. CASE Reap
  BY <1>9 DEF Reap, Settle, Control, TypeOK
<1>10. CASE \/ RecoverCommit \/ Start \/ Stop \/ Crash \/ LaunchFail \/ LaunchRaise
            \/ DrainedAlive \/ DrainedDead \/ StopDone \/ UNCHANGED vars
            \/ \E k \in Job : Claim(k)
  BY <1>10 DEF RecoverCommit, Start, Stop, Crash, LaunchFail, LaunchRaise, Raise,
     Terminalize, DrainedAlive, DrainedDead, StopDone, Claim, vars
<1> QED
  BY <1>1, <1>2, <1>3, <1>4, <1>5, <1>6, <1>7, <1>8, <1>9, <1>10, Steps DEF Reading

(* Only the commit of complete_job publishes, and only the attempt at hand.*)
LEMMA Publication ==
  ASSUME QueueInv, AttemptInv, [Next]_vars, NEW j \in Job, NEW n \in Number,
         attempts'[j][n] = "completed", attempts[j][n] # "completed"
  PROVE  /\ j = focus /\ n = fence
         /\ pc = "commit" /\ txn.op = "completed"
<1>1. ~ByClient(j) /\ ~Same(j)
  BY DEF ByClient, Same, Dropped_, Gone, New_, NoAttempts
<1>2. ASSUME NEW m, Taken(j, m) PROVE FALSE
  BY <1>2 DEF Taken, QueueInv, TypeOK
<1>3. ~\E c \in Client : ClientStep(c)
  BY <1>1, ClientRows
<1>4. ~Reading
  BY ReadingRows
<1>5. ~\E k \in Job : Claim(k)
  BY <1>1, <1>2, ClaimRows
<1>6. ~RecoverCommit
  BY <1>1, RecoverRows DEF Ended
<1>7. TerminalizeCommit \/ RetryCommit \/ CompleteCommit
  BY <1>3, <1>4, <1>5, <1>6, Steps
<1>8. pc = "commit"
  BY <1>7 DEF TerminalizeCommit, RetryCommit, CompleteCommit
<1>9. j = focus
  BY <1>1, <1>7, EndRows
<1>10. PICK s \in {"failed", "cancelled", "completed", "queued"} :
         Ended(j, fence, s) /\ (s = "completed" => txn.op = "completed")
  BY <1>7, <1>9, EndRows
<1>11. n = fence /\ s = "completed"
  BY <1>10 DEF Ended
<1> QED
  BY <1>8, <1>9, <1>10, <1>11

LEMMA OpenIsUnpublished ==
  ASSUME QueueInv, AttemptInv, [Next]_vars, NEW j \in Job, active'[j] # NoEntry,
         ~active'[j].terminal \/ active'[j].signal \in {"cancel", "timeout"}
  PROVE  attempts'[j][active'[j].attempt] # "completed"
<1> USE DEF QueueInv, AttemptInv
<1> SUFFICES ASSUME attempts'[j][active'[j].attempt] = "completed" PROVE FALSE
  OBVIOUS
<1> DEFINE n == active'[j].attempt
<1>1. n \in Number
  BY QueueStep DEF TypeOK, Entry
<1>2. CASE LaunchOk /\ j = focus
  <2>1. n = fence /\ attempts' = attempts
    BY <1>2 DEF LaunchOk, Launched, TypeOK
  <2>2. attempts[j][fence] # "completed"
    BY <1>1, <1>2, <2>1 DEF LaunchOk, InHand, OpenOrGone, OpenAttempt, PublishedOnce
  <2> QED
    BY <2>1, <2>2
<1>3. ASSUME active[j] # NoEntry, active[j].attempt = n,
             ~active[j].terminal \/ active[j].signal \in {"cancel", "timeout"},
             active[j].terminal => active'[j].terminal,
             Signalled(j) \/ ~active[j].terminal
      PROVE  FALSE
  <2>1. attempts[j][n] # "completed"
    BY <1>3 DEF Entries, SignalPrecedence
  <2>2. j = focus /\ pc = "commit" /\ txn.op = "completed"
    BY <1>1, <2>1, Publication
  <2> QED
    BY <1>3, <2>2 DEF Entries
<1>4. CASE active'[j] = active[j]
  BY <1>3, <1>4 DEF Signalled
<1>5. CASE Carried(j) /\ Signalled(j)
  BY <1>3, <1>5 DEF Carried, Signalled
<1>6. CASE Carried(j) /\ ~active[j].terminal
  BY <1>3, <1>6 DEF Carried
<1> QED
  BY <1>2, <1>4, <1>5, <1>6, EntrySteps

LEMMA SignalStep == ASSUME QueueInv, AttemptInv, [Next]_vars PROVE SignalPrecedence'
  BY OpenIsUnpublished DEF SignalPrecedence

(* The entry at hand keeps its attempt, and its terminal event.            *)
AtHand ==
  /\ AtEntry => active[focus].attempt = fence
  /\ pc = "commit" /\ txn.op = "completed" =>
       /\ txn.next \in {"drain", "exit"}
       /\ active[focus].terminal
       /\ active[focus].signal \notin {"cancel", "timeout"}

LEMMA AtHandStep == ASSUME QueueInv, AttemptInv, [Next]_vars PROVE AtHand'
<1> USE DEF QueueInv, AttemptInv
<1>1. ASSUME pc' \notin {"drain", "exit", "commit"} PROVE AtHand'
  BY <1>1 DEF AtHand, AtEntry
<1>2. ASSUME UNCHANGED <<pc, focus, fence, txn>>,
             \A j \in Job : active'[j] = active[j] \/ (Carried(j) /\ Signalled(j))
      PROVE  AtHand'
  <2>1. pc \in {"drain", "exit", "commit"} => focus \in Job
    BY DEF Control
  <2> QED
    BY <1>2, <2>1 DEF AtHand, AtEntry, Entries, Carried, Signalled
<1>3. ASSUME NEW op, op # "completed", NEW j, NEW n, NEW again, NEW next,
             next \notin {"drain", "exit"}, Begin(op, j, n, again, next)
      PROVE  AtHand'
  BY <1>3 DEF AtHand, AtEntry, Begin, Goto
<1>4. ASSUME NEW c \in Client, ClientStep(c) PROVE AtHand'
  BY <1>2, <1>4, ClientRows
<1>5. ASSUME NEW j \in Job, WorkerStep(j) PROVE AtHand'
  <2>1. \A k \in Job : active'[k] = active[k] \/ (Carried(k) /\ Signalled(k))
    BY <1>5, WorkerEntry
  <2> QED
    BY <1>2, <1>5, <2>1, WorkerEntry
<1>6. CASE Receive
  <2>1. /\ focus \in Job /\ pc \in {"drain", "exit"} /\ Carried(focus) /\ Signalled(focus)
        /\ \A k \in Job \ {focus} : active'[k] = active[k]
        /\ active[focus].attempt = fence
    BY <1>6, ReceiveEntry DEF Entries, AtEntry
  <2>2. CASE UNCHANGED <<pc, focus, fence, txn>>
    BY <1>2, <2>1, <2>2
  <2>3. ASSUME NEW op, op # "completed", Begin(op, focus, fence, {}, pc) PROVE AtHand'
    BY <2>1, <2>3 DEF AtHand, AtEntry, Begin, Goto, Carried
  <2>4. CASE ReceiveCompleted /\ Begin("completed", focus, fence, {}, pc)
    <3>1. active[focus].signal \notin {"cancel", "timeout"} /\ active'[focus].terminal
      BY <1>6, <2>4, ReceiveEntry DEF ReceiveCompleted, Dropped
    <3> QED
      BY <2>1, <2>4, <3>1 DEF AtHand, AtEntry, Begin, Goto, Carried, Signalled
  <2>5. CASE ReceiveEnd
    BY <2>2, <2>3, <2>5 DEF ReceiveEnd
  <2>6. CASE ReceiveCompleted
    BY <2>2, <2>3, <2>4, <2>6 DEF ReceiveCompleted
  <2> QED
    BY <1>6, <2>2, <2>5, <2>6 DEF Receive, ReceiveTorn, ReceiveDropped
<1>7. CASE TerminalizeCommit \/ RetryCommit \/ CompleteCommit
  <2>1. pc = "commit"
    BY <1>7 DEF TerminalizeCommit, RetryCommit, CompleteCommit
  <2> QED
    BY <1>1, <1>7, <2>1, CommitEntry DEF AtHand, AtEntry, Entries, Carried
<1>8. ASSUME NEW j \in Job, NEW s \in Signal, Monitor(j, s) PROVE AtHand'
  <2>1. active[j] \in Entry /\ active'[j].attempt = active[j].attempt
    BY <1>8 DEF Monitor, TypeOK, Entry
  <2> QED
    BY <1>8, <2>1 DEF Monitor, Goto, AtHand, AtEntry
<1>9. CASE ForceStop
  <2>1. focus \in Job /\ active[focus] \in Entry /\ active[focus].attempt = fence
    BY <1>9 DEF ForceStop, Control, TypeOK, Entries, AtEntry
  <2>2. active'[focus].attempt = active[focus].attempt
    BY <1>9, <2>1 DEF ForceStop, TypeOK, Entry
  <2> QED
    BY <1>9, <2>1, <2>2 DEF ForceStop, Goto, AtHand, AtEntry
<1>10. CASE DrainedDead
  BY <1>10 DEF DrainedDead, Goto, AtHand, AtEntry, Entries
<1>11. CASE Reap
  BY <1>1, <1>3, <1>11 DEF Reap, Settle, Goto, MissingStatus
<1>12. ASSUME NEW j \in Job, StopEntry(j) PROVE AtHand'
  BY <1>1, <1>3, <1>12 DEF StopEntry, Settle, Goto, Terminalize
<1>13. CASE LaunchFail
  BY <1>1, <1>3, <1>13 DEF LaunchFail, Goto, Terminalize
<1>14. CASE \/ RecoverCommit \/ Start \/ Stop \/ Crash \/ LaunchOk \/ LaunchRaise
            \/ DrainedAlive \/ StopDone \/ \E j \in Job : Claim(j)
  BY <1>1, <1>14 DEF RecoverCommit, Start, Stop, Crash, LaunchOk, LaunchRaise, Raise,
     DrainedAlive, StopDone, Claim, Goto
<1>15. CASE UNCHANGED vars
  BY <1>2, <1>15 DEF vars
<1> QED
  BY <1>4, <1>5, <1>6, <1>7, <1>8, <1>9, <1>10, <1>11, <1>12, <1>13, <1>14, <1>15,
     Steps DEF Reading

LEMMA EntriesStep == ASSUME QueueInv, AttemptInv, [Next]_vars PROVE Entries'
  BY AtHandStep, OpenIsUnpublished DEF AtHand, Entries

-----------------------------------------------------------------------------
(* No running job is lost.                                                 *)

Owned(j) ==
  \/ active[j] # NoEntry /\ active[j].attempt = jobs[j].attempt /\ ~active[j].terminal
  \/ focus = j /\ fence = jobs[j].attempt /\ pc \in {"launch", "commit"}

LEMMA OwnedStep == ASSUME QueueInv, AttemptInv, [Next]_vars PROVE RunningIsOwned'
<1> USE DEF QueueInv, AttemptInv
<1> DEFINE Goal == RunningIsOwned'
<1>1. ASSUME ~Looping' PROVE Goal
  BY <1>1 DEF RunningIsOwned
<1>2. ASSUME \A j \in Job : jobs'[j].status = "running" => Owned(j)' PROVE Goal
  BY <1>2 DEF RunningIsOwned, Owned
<1>3. ASSUME Looping, NEW j \in Job, jobs[j].status = "running" PROVE Owned(j)
  BY <1>3 DEF RunningIsOwned, Owned
<1>4. ASSUME UNCHANGED <<pc, focus, fence, txn>>,
             \A j \in Job : jobs'[j].status = "running" =>
               jobs[j].status = "running" /\ jobs'[j].attempt = jobs[j].attempt,
             \A j \in Job : \/ active'[j] = active[j]
                            \/ Carried(j) /\ active'[j].terminal = active[j].terminal
      PROVE  Goal
  <2> SUFFICES ASSUME Looping, NEW j \in Job, jobs'[j].status = "running"
               PROVE  Owned(j)'
    BY <1>1, <1>2, <1>4 DEF Looping
  <2> QED
    BY <1>3, <1>4 DEF Owned, Carried
<1>5. ASSUME NEW c \in Client, ClientStep(c) PROVE Goal
  <2>1. \A j \in Job : jobs'[j].status = "running" =>
          jobs[j].status = "running" /\ jobs'[j].attempt = jobs[j].attempt
    BY <1>5, ClientRows DEF ByClient, Same, Dropped_, Gone, New_, NoRow
  <2> QED
    BY <1>4, <1>5, <2>1, ClientRows
<1>6. ASSUME NEW j \in Job, WorkerStep(j) PROVE Goal
  <2>1. \A k \in Job : \/ active'[k] = active[k]
                       \/ Carried(k) /\ active'[k].terminal = active[k].terminal
    BY <1>6, WorkerEntry
  <2> QED
    BY <1>4, <1>6, <2>1, WorkerEntry
<1>7. CASE RecoverCommit
  <2>1. CASE pc' = "down"
    BY <1>1, <2>1 DEF Looping
  <2>2. CASE pc' # "down"
    <3>1. \A j \in Job : jobs'[j].status # "running"
      BY <1>7, <2>2, RecoverRows DEF RecoverCommit, InHand, Same, Ended
    <3> QED
      BY <1>2, <3>1
  <2> QED
    BY <2>1, <2>2
<1>8. CASE TerminalizeCommit \/ RetryCommit \/ CompleteCommit
  <2>1. pc = "commit" /\ focus \in Job
    BY <1>8, CommitEntry DEF TerminalizeCommit, RetryCommit, CompleteCommit
  <2>2. CASE pc' \in {"stopping", "down"}
    BY <1>1, <2>2 DEF Looping
  <2>3. CASE pc' \notin {"stopping", "down"}
    <3>1. Looping /\ \A k \in Job \ {focus} : active'[k] = active[k]
      BY <1>8, <2>1, <2>3, CommitEntry DEF Looping
    <3>2. jobs'[focus].status # "running"
      BY <1>8, <2>3, EndRows DEF Ended
    <3>3. \A k \in Job \ {focus} : Same(k)
      BY <1>8, <2>3, EndRows DEF Same
    <3> QED
      BY <1>2, <1>3, <3>1, <3>2, <3>3 DEF Owned, Same
  <2> QED
    BY <2>2, <2>3
<1>9. ASSUME NEW j \in Job, Claim(j) PROVE Goal
  <2>1. pc = "loop" /\ pc' = "launch" /\ active' = active
    BY <1>9 DEF Claim, Goto
  <2>2. Taken(j, fence') /\ focus' = j /\ \A k \in Job \ {j} : Same(k)
    BY <1>9, ClaimRows
  <2>3. Owned(j)'
    BY <2>1, <2>2 DEF Owned, Taken
  <2>4. ASSUME NEW k \in Job \ {j}, jobs'[k].status = "running" PROVE Owned(k)'
    BY <1>3, <2>1, <2>2, <2>4 DEF Looping, Owned, Same
  <2> QED
    BY <1>2, <2>3, <2>4
<1>10. ASSUME jobs' = jobs, Looping, NEW i \in Job,
              \A k \in Job \ {i} : /\ active'[k] = active[k]
                                   /\ k = focus => pc \notin {"launch", "commit"},
              jobs[i].status = "running" => Owned(i)'
       PROVE  Goal
  BY <1>2, <1>3, <1>10 DEF Owned
<1>11. CASE LaunchOk
  <2>1. /\ focus \in Job /\ fence \in Number /\ jobs' = jobs /\ pc = "launch"
        /\ active' = [active EXCEPT ![focus] = Launched(fence)]
    BY <1>11 DEF LaunchOk, Control
  <2>2. Launched(fence).attempt = fence /\ ~Launched(fence).terminal /\ fence # 0
    BY <2>1 DEF Launched, Number
  <2>3. active'[focus] = Launched(fence) /\ Launched(fence) # NoEntry
    BY <2>1, <2>2 DEF NoEntry, TypeOK
  <2>4. jobs[focus].status = "running" => jobs[focus].attempt = fence
    BY <2>1 DEF InHand, OpenOrGone, OpenAttempt
  <2>5. PICK i \in Job : i = focus
    BY <2>1
  <2>6. jobs[i].status = "running" => Owned(i)'
    BY <2>1, <2>2, <2>3, <2>4, <2>5 DEF Owned
  <2> QED
    BY <1>10, <2>1, <2>5, <2>6 DEF Looping, TypeOK
<1>12. ASSUME NEW op, NEW j \in Job, NEW n \in Number, NEW again, NEW next,
              OpenAttempt(j, n), Begin(op, j, n, again, next), jobs' = jobs, Looping,
              pc \in {"launch", "commit"} => j = focus,
              \A k \in Job \ {j} : active'[k] = active[k]
       PROVE  Goal
  <2>1. Owned(j)'
    BY <1>12 DEF Owned, Begin, Goto, OpenAttempt
  <2> QED
    BY <1>10, <1>12, <2>1
<1>13. CASE LaunchFail
  <2>1. focus \in Job /\ fence \in Number /\ pc = "launch" /\ active' = active /\ jobs' = jobs
    BY <1>13 DEF LaunchFail, Control, Terminalize
  <2>2. CASE Terminalize("failed", focus, fence, "loop")
    BY <1>12, <2>1, <2>2, LetThrough DEF Terminalize, Looping
  <2>3. CASE ~CanTerminalize(focus, fence)
    <3>1. jobs[focus].status # "running"
      BY <2>1, <2>3 DEF InHand, OpenOrGone, OpenAttempt, CanTerminalize, Pending
    <3> QED
      BY <1>10, <2>1, <3>1 DEF Looping
  <2> QED
    BY <1>13, <2>2, <2>3 DEF LaunchFail
<1>14. ASSUME NEW j \in Job, NEW s \in Signal, Monitor(j, s) PROVE Goal
  <2>1. active[j] \in Entry /\ active[j] # NoEntry /\ pc = "loop" /\ jobs' = jobs
    BY <1>14 DEF Monitor, TypeOK
  <2>2. /\ active'[j].attempt = active[j].attempt
        /\ active'[j].terminal = active[j].terminal
        /\ \A k \in Job \ {j} : active'[k] = active[k]
    BY <1>14, <2>1 DEF Monitor, TypeOK, Entry
  <2>3. active'[j] # NoEntry
    BY <2>1, <2>2 DEF Entry, NoEntry, Number
  <2>4. jobs[j].status = "running" => Owned(j)'
    BY <1>3, <2>1, <2>2, <2>3 DEF Owned, Looping
  <2> QED
    BY <1>10, <2>1, <2>2, <2>4 DEF Looping
<1>15. CASE Receive
  <2>1. /\ focus \in Job /\ fence \in Number /\ pc \in {"drain", "exit"}
        /\ Carried(focus) /\ active[focus].attempt = fence
        /\ \A k \in Job \ {focus} : active'[k] = active[k]
        /\ ~ReceiveCompleted => active'[focus].terminal = active[focus].terminal
    BY <1>15, ReceiveEntry DEF Entries, AtEntry
  <2>2. jobs' = jobs /\ Looping
    BY <1>15, <2>1, ReadingRows DEF Reading, Looping
  <2>3. CASE ~ReceiveCompleted /\ UNCHANGED <<pc, focus, fence, txn>>
    BY <1>4, <2>1, <2>2, <2>3
  <2>4. ASSUME NEW op, CanTerminalize(focus, fence) \/ CanComplete(focus, fence),
               Begin(op, focus, fence, {}, pc)
        PROVE  Goal
    BY <1>12, <2>1, <2>2, <2>4, LetThrough
  <2>5. CASE ReceiveCompleted /\ ~CanComplete(focus, fence)
    <3>1. jobs[focus].status # "running"
      <4> SUFFICES ASSUME jobs[focus].status = "running" PROVE FALSE
        OBVIOUS
      <4>1. jobs[focus].attempt = fence
        BY <1>3, <2>1, <2>2 DEF Owned
      <4> QED
        BY <2>1, <2>5, <4>1 DEF CanComplete, OneOpenAttempt
    <3> QED
      BY <1>10, <2>1, <2>2, <3>1
  <2>6. CASE ReceiveCompleted
    BY <2>4, <2>5, <2>6 DEF ReceiveCompleted
  <2>7. CASE ReceiveEnd /\ ~ReceiveCompleted
    BY <2>3, <2>4, <2>7 DEF ReceiveEnd
  <2> QED
    BY <1>15, <2>3, <2>6, <2>7 DEF Receive, ReceiveTorn, ReceiveDropped
<1>16. CASE DrainedAlive \/ DrainedDead \/ ForceStop
  <2>1. /\ focus \in Job /\ active[focus] \in Entry /\ active[focus] # NoEntry
        /\ pc = "drain" /\ jobs' = jobs
    BY <1>16 DEF DrainedAlive, DrainedDead, ForceStop, Control, TypeOK
  <2>2. /\ active'[focus].attempt = active[focus].attempt
        /\ active'[focus].terminal = active[focus].terminal
        /\ \A k \in Job \ {focus} : active'[k] = active[k]
    BY <1>16, <2>1 DEF DrainedAlive, DrainedDead, ForceStop, TypeOK, Entry
  <2>3. active'[focus] # NoEntry
    BY <2>1, <2>2 DEF Entry, NoEntry, Number
  <2>4. PICK i \in Job : i = focus
    BY <2>1
  <2>5. jobs[i].status = "running" => Owned(i)'
    BY <1>3, <2>1, <2>2, <2>3, <2>4 DEF Owned, Looping
  <2> QED
    BY <1>10, <2>1, <2>2, <2>4, <2>5 DEF Looping
<1>17. CASE Reap
  <2>1. /\ focus \in Job /\ fence \in Number /\ pc = "exit" /\ jobs' = jobs
        /\ active[focus].attempt = fence
    BY <1>17 DEF Reap, Control, Entries, AtEntry
  <2>2. ASSUME NEW op, NEW again, CanTerminalize(focus, fence) \/ CanRetry(focus, fence),
               Begin(op, focus, fence, again, "loop"), active' = active
        PROVE  Goal
    BY <1>12, <2>1, <2>2, LetThrough DEF Looping
  <2>3. CASE /\ Settle("loop", focus, fence)
             /\ \/ active[focus].terminal
                \/ ~CanRetry(focus, fence) \/ ~CanTerminalize(focus, fence)
    <3>1. jobs[focus].status # "running"
      BY <1>3, <2>1, <2>3 DEF Owned, Looping, CanRetry, CanTerminalize, Pending
    <3> QED
      BY <1>10, <2>1, <2>3, <3>1 DEF Looping, Settle, TypeOK
  <2> QED
    BY <1>17, <2>2, <2>3 DEF Reap
<1>18. ASSUME NEW j \in Job, StopEntry(j) PROVE Goal
  BY <1>1, <1>18 DEF StopEntry, Terminalize, Begin, Settle, Goto, Looping
<1>19. CASE Start \/ Stop \/ Crash \/ LaunchRaise \/ StopDone
  BY <1>1, <1>19 DEF Start, Stop, Crash, LaunchRaise, Raise, StopDone, Goto, Looping
<1>20. CASE UNCHANGED vars
  BY <1>4, <1>20 DEF vars
<1> QED
  BY <1>5, <1>6, <1>7, <1>8, <1>9, <1>11, <1>13, <1>14, <1>15, <1>16, <1>17, <1>18,
     <1>19, <1>20, Steps DEF Reading

-----------------------------------------------------------------------------
(* The theorems.                                                           *)

LEMMA AttemptInit == Init => AttemptInv
<1> SUFFICES ASSUME Init PROVE AttemptInv
  OBVIOUS
<1>1. /\ \A j \in Job : jobs[j].status = "absent" /\ active[j] = NoEntry
      /\ \A j \in Job, n \in Number : attempts[j][n] = "none"
      /\ pc = "down"
  BY DEF Init, NoRow, NoAttempts
<1>2. Unclaimed /\ PublishedOnce /\ OneOpenAttempt /\ SignalPrecedence
  BY <1>1 DEF Unclaimed, PublishedOnce, OneOpenAttempt, SignalPrecedence
<1>3. InHand /\ Entries /\ RunningIsOwned
  BY <1>1 DEF InHand, Entries, AtEntry, RunningIsOwned, Looping
<1> QED
  BY <1>2, <1>3 DEF AttemptInv

LEMMA AttemptStep == QueueInv /\ AttemptInv /\ [Next]_vars => AttemptInv'
  BY RowsStep, InHandStep, EntriesStep, SignalStep, OwnedStep DEF AttemptInv

LEMMA AttemptInvariance == Spec => []AttemptInv
<1>1. Init => AttemptInv
  BY AttemptInit
<1>2. QueueInv /\ AttemptInv /\ [Next]_vars => AttemptInv'
  BY AttemptStep
<1> QED
  BY <1>1, <1>2, QueueInvariance, PTL DEF Spec

(* Whatever is cancelled, retried or recovered meanwhile, one attempt of a *)
(* job is open at a time, the one a running job points to.                 *)
THEOREM OneOpenAttemptHolds == Spec => []OneOpenAttempt
<1>1. AttemptInv => OneOpenAttempt
  BY DEF AttemptInv
<1> QED
  BY <1>1, AttemptInvariance, PTL

(* complete_job publishes once per job, and only for its last attempt.     *)
THEOREM PublishedOnceHolds == Spec => []PublishedOnce
<1>1. AttemptInv => PublishedOnce
  BY DEF AttemptInv
<1> QED
  BY <1>1, AttemptInvariance, PTL

(* What was sent before a cancellation or a timeout was raised, and read   *)
(* after it, is never published.                                           *)
THEOREM SignalPrecedenceHolds == Spec => []SignalPrecedence
<1>1. AttemptInv => SignalPrecedence
  BY DEF AttemptInv
<1> QED
  BY <1>1, AttemptInvariance, PTL

(* While the loop runs no job is left running without an entry.            *)
THEOREM RunningIsOwnedHolds == Spec => []RunningIsOwned
<1>1. AttemptInv => RunningIsOwned
  BY DEF AttemptInv
<1> QED
  BY <1>1, AttemptInvariance, PTL

(* The ways in which a terminal job's status changes.                      *)
Rewrites ==
  \A j \in Job :
    jobs[j].status \in Terminal /\ jobs'[j].status # jobs[j].status =>
      \/ jobs'[j].status = "deleted"
      \/ /\ jobs'[j].status = "cancelled"
         /\ \E c \in Client : /\ requests[c].op = "cancel"
                              /\ requests[c].job = j
                              /\ requests[c].seen = "queued"
      \/ jobs[j].status = "cancelled" /\ j \in txn.jobs

LEMMA RewritesStep == QueueInv /\ AttemptInv /\ [Next]_vars => Rewrites
<1> SUFFICES ASSUME QueueInv, AttemptInv, [Next]_vars, NEW j \in Job,
                    jobs[j].status \in Terminal, jobs'[j].status # jobs[j].status,
                    jobs'[j].status # "deleted",
                    ~(jobs[j].status = "cancelled" /\ j \in txn.jobs)
             PROVE  /\ jobs'[j].status = "cancelled"
                    /\ \E c \in Client : /\ requests[c].op = "cancel"
                                         /\ requests[c].job = j
                                         /\ requests[c].seen = "queued"
  BY DEF Rewrites
<1> USE DEF QueueInv, AttemptInv
<1>1. ~Same(j) /\ ~New_(j) /\ ~\E n : Taken(j, n)
  BY DEF Same, New_, Taken, Terminal
<1>2. ASSUME NEW n, NEW s, Ended(j, n, s) PROVE jobs[j].status = "cancelled"
  BY <1>2 DEF Ended, OpenAttempt, Terminal
<1>3. ~RecoverCommit
  BY <1>1, <1>2, RecoverRows
<1>4. ~(TerminalizeCommit \/ RetryCommit \/ CompleteCommit)
  <2> SUFFICES ASSUME TerminalizeCommit \/ RetryCommit \/ CompleteCommit PROVE FALSE
    OBVIOUS
  <2>1. focus \in txn.jobs
    BY DEF TerminalizeCommit, RetryCommit, CompleteCommit, InHand
  <2> QED
    BY <1>1, <1>2, <2>1, EndRows
<1>5. ~Reading /\ ~\E k \in Job : Claim(k)
  BY <1>1, ReadingRows, ClaimRows
<1>6. PICK c \in Client : ClientStep(c)
  BY <1>3, <1>4, <1>5, Steps
<1>7. Dropped_(j)
  BY <1>1, <1>6, ClientRows DEF ByClient, Gone, NoRow
<1>8. CancelCommit(c) \/ CreateCommit(c) \/ DeleteCommit(c)
  BY <1>6 DEF ClientStep, CreateRead, CancelRead, DeleteRead, EditRead, EditCommit
<1>9. requests[c].job \in Job
  BY <1>8 DEF CancelCommit, CreateCommit, DeleteCommit, Requests
<1>10. ~CreateCommit(c)
  <2> SUFFICES ASSUME CreateCommit(c) PROVE FALSE
    OBVIOUS
  <2>1. jobs[requests[c].job].status = "absent"
    BY DEF CreateCommit, Requests
  <2>2. \A k \in Job \ {requests[c].job} : jobs'[k] = jobs[k]
    BY <1>9 DEF CreateCommit, TypeOK
  <2> QED
    BY <1>7, <2>1, <2>2 DEF Dropped_
<1>11. ~DeleteCommit(c)
  BY <1>7, <1>9 DEF Dropped_, DeleteCommit, NoRow, TypeOK
<1>12. requests[c].op = "cancel" /\ requests[c].job = j /\ requests[c].seen = "queued"
  BY <1>7, <1>8, <1>9, <1>10, <1>11 DEF CancelCommit, Dropped_, TypeOK, JobRow
<1> QED
  BY <1>7, <1>12 DEF Dropped_

(* A terminal job is not rewritten but by its deletion, by a cancellation  *)
(* that read it as queued, or by the call the supervisor had begun.        *)
THEOREM TerminalRewritesHolds == Spec => TerminalRewrites
<1>1. QueueInv /\ AttemptInv /\ [Next]_vars => [Rewrites]_vars
  BY RewritesStep
<1>2. Spec => [][Rewrites]_vars
  BY <1>1, QueueInvariance, AttemptInvariance, PTL DEF Spec
<1> QED
  BY <1>2 DEF TerminalRewrites, Rewrites

-----------------------------------------------------------------------------
(***************************************************************************)
(* The refinement of JobContract.  A step of the queue moves the life of   *)
(* one job, or ends all the open attempts of a recovery; which tries a job *)
(* has behind it is the invariant it takes.                                *)
(***************************************************************************)

(* Tries before the last one were lost, and none comes after it; a job is  *)
(* queued again only when its last one was lost too.                       *)
TrialsOf(j) ==
  /\ \A m \in Number : m < jobs[j].count => attempts[j][m] = "failed"
  /\ \A m \in Number : m > jobs[j].count => attempts[j][m] = "none"
  /\ jobs[j].status = "queued" =>
       \A m \in Number : m = jobs[j].count => attempts[j][m] = "failed"
  /\ jobs[j].status = "absent" => jobs[j].count = 0
Trials == \A j \in Job : TrialsOf(j)

LEMMA NewIsCreated ==
  ASSUME Retries, NEW j \in Job, RowChange(j), New_(j) PROVE Created(j)
  BY DEF RowChange, New_, Quiet, Claimed, Requeued, Removed, Retries, NoRow, Terminal

LEMMA TrialsStep ==
  ASSUME QueueInv, AttemptInv, Trials, [Next]_vars PROVE Trials'
<1> SUFFICES ASSUME NEW j \in Job PROVE TrialsOf(j)'
  BY DEF Trials
<1>1. /\ TrialsOf(j) /\ RowChange(j) /\ jobs[j] \in JobRow /\ Retries
      /\ attempts \in [Job -> [Number -> AttemptStatus]]
  BY Rows DEF Trials, QueueInv, TypeOK
<1>2. CASE Same(j)
  BY <1>1, <1>2 DEF Same, TrialsOf
<1>3. CASE ByClient(j)
  <2>1. CASE Dropped_(j)
    BY <1>1, <2>1 DEF Dropped_, TrialsOf
  <2>2. CASE Gone(j)
    BY <2>2 DEF Gone, NoRow, NoAttempts, TrialsOf, Number
  <2>3. CASE New_(j)
    <3>1. Created(j) /\ jobs[j].count = 0 /\ attempts'[j] = attempts[j]
      BY <1>1, <2>3, NewIsCreated DEF New_, TrialsOf
    <3> QED
      BY <1>1, <3>1 DEF Created, TrialsOf, Number
  <2> QED
    BY <1>2, <1>3, <2>1, <2>2, <2>3 DEF ByClient
<1>4. ASSUME NEW n, NEW s, Ended(j, n, s) PROVE TrialsOf(j)'
  BY <1>1, <1>4 DEF Ended, OpenAttempt, TrialsOf, Number
<1>5. ASSUME Taken(j, jobs[j].count + 1) PROVE TrialsOf(j)'
  BY <1>1, <1>5 DEF Taken, TrialsOf, Number, JobRow
<1>6. ASSUME NEW c \in Client, ClientStep(c) PROVE ByClient(j)
  BY <1>6, ClientRows
<1>7. CASE RecoverCommit
  BY <1>2, <1>4, <1>7, RecoverRows DEF Same
<1>8. CASE TerminalizeCommit \/ RetryCommit \/ CompleteCommit
  <2>1. CASE jobs' = jobs /\ attempts' = attempts
    BY <1>2, <2>1 DEF Same
  <2>2. CASE j = focus /\ \E s : Ended(focus, fence, s)
    BY <1>4, <2>2
  <2> QED
    BY <1>2, <1>8, <2>1, <2>2, EndRows
<1>9. ASSUME NEW k \in Job, Claim(k) PROVE TrialsOf(j)'
  BY <1>2, <1>5, <1>9, ClaimRows
<1>10. CASE Reading
  BY <1>2, <1>10, ReadingRows DEF Same
<1> QED
  BY <1>3, <1>6, <1>7, <1>8, <1>9, <1>10, Steps

LEMMA TrialsInvariance == Spec => []Trials
<1>1. Init => Trials
  BY DEF Init, NoRow, NoAttempts, Trials, TrialsOf, Number
<1>2. QueueInv /\ AttemptInv /\ Trials /\ [Next]_vars => Trials'
  BY TrialsStep
<1> QED
  BY <1>1, <1>2, QueueInvariance, AttemptInvariance, PTL DEF Spec

-----------------------------------------------------------------------------
(* The steps of the contract that the changes of a row are.                *)

LifeOf(j) == [status |-> jobs[j].status,
              budget |-> IF Stored(j) THEN jobs[j].max ELSE 0,
              tries  |-> attempts[j]]
Life == [j \in Job |-> LifeOf(j)]

LifeStep(j) ==
  \/ Contract!Create(j) \/ Contract!Begin(j) \/ Contract!Finish(j)
  \/ Contract!Retry(j) \/ Contract!Cancel(j) \/ Contract!Delete(j)

(* What is known of a row before and after a step.                         *)
Known(j) ==
  /\ QueueInv /\ Trials /\ QueueInv'
  /\ RowChange(j)

(* The life of a stored row, and two ways to change it.                    *)
LEMMA StoredLife ==
  ASSUME NEW j \in Job, Stored(j)
  PROVE  LifeOf(j) = [status |-> jobs[j].status, budget |-> jobs[j].max,
                      tries |-> attempts[j]]
  BY DEF LifeOf

LEMMA StoredLifeNext ==
  ASSUME NEW j \in Job, Stored(j)'
  PROVE  LifeOf(j)' = [status |-> jobs'[j].status, budget |-> jobs'[j].max,
                       tries |-> attempts'[j]]
  BY DEF LifeOf

LEMMA LifeChange ==
  ASSUME NEW j \in Job, NEW n, NEW s, NEW t, Stored(j), Stored(j)',
         jobs'[j].max = jobs[j].max, jobs'[j].status = s,
         attempts'[j] = [attempts[j] EXCEPT ![n] = t]
  PROVE  LifeOf(j)' = Contract!Life(s, LifeOf(j).budget, [LifeOf(j).tries EXCEPT ![n] = t])
  BY StoredLife, StoredLifeNext DEF Contract!Life

(* A budget is given once.                                                 *)
LEMMA BudgetStays ==
  ASSUME NEW j \in Job, Known(j), jobs[j].status # "absent", jobs'[j].status # "deleted"
  PROVE  jobs'[j].max = jobs[j].max
  BY DEF Known, RowChange, Quiet, Kept, Created, Claimed, Requeued, Removed, NoRow

LEMMA SameLife == ASSUME NEW j \in Job, Known(j), Same(j) PROVE LifeOf(j)' = LifeOf(j)
<1>1. jobs'[j].status = jobs[j].status /\ attempts'[j] = attempts[j]
  BY DEF Same
<1>2. Stored(j) => jobs'[j].max = jobs[j].max
  BY <1>1, BudgetStays DEF Stored
<1> QED
  BY <1>1, <1>2 DEF LifeOf, Stored

LEMMA AdmittedWhenQueued ==
  ASSUME NEW j \in Job, Known(j), jobs'[j].status = "queued" PROVE Contract!Admitted(j)
  BY DEF Contract!Admitted, Contract!Pending, Pending, Known, QueueInv, OneActiveMutation

LEMMA NewLife == ASSUME NEW j \in Job, Known(j), New_(j) PROVE Contract!Create(j)
<1>1. Created(j) /\ TypeOK /\ TypeOK'
  BY NewIsCreated DEF Known, QueueInv
<1>2. attempts'[j] = attempts[j] /\ \A m \in Number : attempts[j][m] = "none"
  BY <1>1 DEF New_, Known, Trials, TrialsOf, Number
<1>3. attempts'[j] = [n \in Number |-> "none"]
  BY <1>1, <1>2 DEF TypeOK
<1>4. jobs'[j].max \in Number /\ Stored(j)' /\ jobs'[j].status = "queued"
  BY <1>1 DEF TypeOK, JobRow, Created, Stored
<1>5. Contract!Admitted(j)
  BY <1>4, AdmittedWhenQueued
<1>6. LifeOf(j)' = Contract!Life("queued", jobs'[j].max, Contract!NoTries)
  BY <1>3, <1>4, StoredLifeNext DEF Contract!Life, Contract!NoTries, Contract!Number, Number
<1>7. jobs[j].status = "absent"
  BY DEF New_
<1> QED
  BY <1>4, <1>5, <1>6, <1>7 DEF Contract!Create, Contract!Number, Number, LifeOf

LEMMA TakenLife ==
  ASSUME NEW j \in Job, Known(j), Taken(j, jobs[j].count + 1) PROVE Contract!Begin(j)
<1>1. PICK n \in Number : n = jobs[j].count + 1
  BY DEF Taken
<1>2. TypeOK /\ TypeOK' /\ jobs[j] \in JobRow
  BY DEF Known, QueueInv, TypeOK
<1>3. jobs[j].status = "queued" /\ jobs'[j].status = "running" /\ Stored(j) /\ Stored(j)'
  BY DEF Taken, Stored
<1>4. n <= jobs[j].max
  BY <1>1, <1>2, <1>3 DEF Known, QueueInv, AttemptBudget, JobRow, Number
<1>5. \A m \in Number : attempts[j][m] = IF m < n THEN "failed" ELSE "none"
  BY <1>1, <1>2, <1>3 DEF Known, Trials, TrialsOf, Number, JobRow
<1>6. jobs'[j].max = jobs[j].max
  BY <1>3, BudgetStays
<1>7. attempts'[j] = [attempts[j] EXCEPT ![n] = "running"]
  BY <1>1 DEF Taken
<1>8. LifeOf(j)' = Contract!Life("running", LifeOf(j).budget,
                                 [LifeOf(j).tries EXCEPT ![n] = "running"])
  <2>1. /\ LifeOf(j) = [status |-> jobs[j].status, budget |-> jobs[j].max,
                        tries |-> attempts[j]]
        /\ LifeOf(j)' = [status |-> jobs'[j].status, budget |-> jobs'[j].max,
                         tries |-> attempts'[j]]
    BY <1>3, StoredLife, StoredLifeNext
  <2> QED
    BY <1>3, <1>6, <1>7, <2>1 DEF Contract!Life
<1> QED
  BY <1>3, <1>4, <1>5, <1>8
     DEF Contract!Begin, Contract!Tried, Contract!Number, Number, LifeOf

LEMMA EndedLife ==
  ASSUME NEW j \in Job, Known(j), NEW n, NEW s, Ended(j, n, s)
  PROVE  Contract!Finish(j) \/ Contract!Retry(j)
<1>1. TypeOK /\ TypeOK' /\ jobs[j] \in JobRow /\ n \in Number
  BY DEF Known, QueueInv, TypeOK, Ended
<1>2. /\ jobs[j].status \in {"running", "cancelled"} /\ attempts[j][n] = "running"
      /\ jobs[j].count = n /\ jobs'[j].count = n /\ jobs'[j].status = s
      /\ s \in {"failed", "cancelled", "completed", "queued"}
  BY DEF Ended, OpenAttempt
<1>3. Stored(j) /\ Stored(j)'
  BY <1>2 DEF Stored
<1>4. jobs'[j].max = jobs[j].max
  BY <1>2, BudgetStays
<1>5. Contract!Open(j, n)
  BY <1>1, <1>2 DEF Contract!Open
<1>6. CASE s # "queued"
  <2>1. attempts'[j] = [attempts[j] EXCEPT ![n] = s]
    BY <1>1, <1>6 DEF Ended, TypeOK
  <2>2. LifeOf(j)' = Contract!Life(s, LifeOf(j).budget, [LifeOf(j).tries EXCEPT ![n] = s])
    BY <1>2, <1>3, <1>4, <2>1, LifeChange
  <2> QED
    BY <1>1, <1>2, <1>5, <1>6, <2>2
       DEF Contract!Finish, Contract!Tried, Contract!Ends, Contract!Number, Number, LifeOf
<1>7. CASE s = "queued"
  <2>1. attempts'[j] = [attempts[j] EXCEPT ![n] = "failed"]
    BY <1>1, <1>7 DEF Ended, TypeOK
  <2>2. LifeOf(j)' = Contract!Life("queued", LifeOf(j).budget, [LifeOf(j).tries EXCEPT ![n] = "failed"])
    BY <1>2, <1>3, <1>4, <1>7, <2>1, LifeChange
  <2>3. n < jobs[j].max
    BY <1>2, <1>4, <1>7 DEF Known, QueueInv, AttemptBudget
  <2>4. Contract!Admitted(j)
    BY <1>2, <1>7, AdmittedWhenQueued
  <2> QED
    BY <1>1, <1>3, <1>5, <2>2, <2>3, <2>4
       DEF Contract!Retry, Contract!Tried, Contract!Number, Number, LifeOf
<1> QED
  BY <1>6, <1>7

LEMMA ClientLife ==
  ASSUME NEW j \in Job, Known(j), ByClient(j)
  PROVE  LifeStep(j) \/ LifeOf(j)' = LifeOf(j)
<1>1. CASE Same(j)
  BY <1>1, SameLife
<1>2. CASE Dropped_(j)
  <2>1. /\ jobs[j].status \notin {"absent", "deleted"} /\ jobs'[j].status = "cancelled"
        /\ attempts'[j] = attempts[j] /\ jobs[j] \in JobRow
    BY <1>2 DEF Dropped_, Known, QueueInv, TypeOK
  <2>2. jobs'[j].max = jobs[j].max /\ Stored(j) /\ Stored(j)'
    BY <2>1, BudgetStays DEF Stored
  <2>3. LifeOf(j)' = Contract!Life("cancelled", LifeOf(j).budget, LifeOf(j).tries)
    BY <2>1, <2>2, StoredLife, StoredLifeNext DEF Contract!Life
  <2>4. jobs[j].status \in {"queued", "running", "completed", "failed", "cancelled"}
    BY <2>1 DEF JobRow, JobStatus, Pending, Terminal
  <2>5. Contract!Cancel(j)
    BY <2>3, <2>4 DEF Contract!Cancel, Contract!Pending, Contract!Ends, LifeOf
  <2> QED
    BY <2>5 DEF LifeStep
<1>3. CASE Gone(j)
  <2>1. LifeOf(j)' = Contract!Life("deleted", 0, Contract!NoTries)
    <3>1. LifeOf(j)' = [status |-> "deleted", budget |-> 0, tries |-> NoAttempts]
      BY <1>3 DEF Gone, NoRow, LifeOf, Stored
    <3> QED
      BY <3>1 DEF NoAttempts, Contract!Life, Contract!NoTries, Contract!Number, Number
  <2>2. Contract!Delete(j)
    BY <1>3, <2>1 DEF Gone, Contract!Delete, LifeOf
  <2> QED
    BY <2>2 DEF LifeStep
<1>4. CASE New_(j)
  BY <1>4, NewLife DEF LifeStep
<1> QED
  BY <1>1, <1>2, <1>3, <1>4 DEF ByClient

(* A request changes one job.                                              *)
LEMMA ClientOne ==
  ASSUME QueueInv, NEW c \in Client, ClientStep(c)
  PROVE  \/ UNCHANGED <<jobs, attempts>>
         \/ \E j \in Job : \A k \in Job \ {j} :
              jobs'[k] = jobs[k] /\ attempts'[k] = attempts[k]
<1> DEFINE j == requests[c].job
<1>1. CASE CreateCommit(c) \/ CancelCommit(c) \/ DeleteCommit(c)
  <2>1. j \in Job
    BY <1>1 DEF CreateCommit, CancelCommit, DeleteCommit, QueueInv, Requests
  <2>2. \A k \in Job \ {j} : jobs'[k] = jobs[k] /\ attempts'[k] = attempts[k]
    BY <1>1, <2>1 DEF CreateCommit, CancelCommit, DeleteCommit, QueueInv, TypeOK
  <2> QED
    BY <2>1, <2>2
<1>2. CASE ~(CreateCommit(c) \/ CancelCommit(c) \/ DeleteCommit(c))
  BY <1>2 DEF ClientStep, CreateRead, CancelRead, DeleteRead, EditRead, EditCommit
<1> QED
  BY <1>1, <1>2

LEMMA JobContractStep ==
  QueueInv /\ QueueInv' /\ AttemptInv /\ Trials /\ [Next]_vars => [Contract!Next]_Life
<1> SUFFICES ASSUME QueueInv, QueueInv', AttemptInv, Trials, [Next]_vars
             PROVE  Contract!Next \/ Life' = Life
  OBVIOUS
<1>1. \A j \in Job : Known(j)
  BY Rows DEF Known
<1>2. ASSUME NEW j \in Job, LifeStep(j) \/ LifeOf(j)' = LifeOf(j),
             \A k \in Job \ {j} : LifeOf(k)' = LifeOf(k)
      PROVE  Contract!Next \/ Life' = Life
  <2>1. CASE LifeStep(j)
    BY <1>2, <2>1 DEF Contract!Next, LifeStep, LifeOf
  <2>2. CASE LifeOf(j)' = LifeOf(j)
    BY <1>2, <2>2 DEF Life
  <2> QED
    BY <1>2, <2>1, <2>2
<1>3. ASSUME jobs' = jobs, attempts' = attempts PROVE Life' = Life
  BY <1>3 DEF Life, LifeOf, Stored
<1>4. ASSUME NEW c \in Client, ClientStep(c) PROVE Contract!Next \/ Life' = Life
  <2>1. CASE UNCHANGED <<jobs, attempts>>
    BY <1>3, <2>1
  <2>2. ASSUME NEW j \in Job,
               \A k \in Job \ {j} : jobs'[k] = jobs[k] /\ attempts'[k] = attempts[k]
        PROVE  Contract!Next \/ Life' = Life
    <3>1. \A k \in Job \ {j} : LifeOf(k)' = LifeOf(k)
      BY <2>2 DEF LifeOf, Stored
    <3>2. LifeStep(j) \/ LifeOf(j)' = LifeOf(j)
      BY <1>1, <1>4, ClientRows, ClientLife
    <3> QED
      BY <1>2, <3>1, <3>2
  <2> QED
    BY <1>4, <2>1, <2>2, ClientOne
<1>5. CASE RecoverCommit
  <2>1. CASE jobs' = jobs /\ attempts' = attempts
    BY <1>3, <2>1
  <2>2. CASE \A j \in Job : Same(j) \/ \E n, s : Ended(j, n, s)
    <3>1. \A j \in Job : LifeOf(j)' = LifeOf(j) \/ Contract!Finish(j) \/ Contract!Retry(j)
      BY <1>1, <2>2, SameLife, EndedLife
    <3> QED
      BY <3>1 DEF Contract!Next, LifeOf
  <2> QED
    BY <1>5, <2>1, <2>2, RecoverRows
<1>6. CASE TerminalizeCommit \/ RetryCommit \/ CompleteCommit
  <2>1. CASE jobs' = jobs /\ attempts' = attempts
    BY <1>3, <2>1
  <2>2. ASSUME NEW s, Ended(focus, fence, s), \A k \in Job \ {focus} : Same(k)
        PROVE  Contract!Next \/ Life' = Life
    <3>1. focus \in Job /\ fence \in Number
      BY <1>6 DEF TerminalizeCommit, RetryCommit, CompleteCommit, QueueInv, Control
    <3>2. PICK j \in Job, n \in Number : j = focus /\ n = fence
      BY <3>1
    <3>3. Contract!Finish(j) \/ Contract!Retry(j)
      <4>1. Ended(j, n, s)
        BY <2>2, <3>2 DEF Ended, OpenAttempt
      <4> QED
        BY <1>1, <4>1, EndedLife
    <3>4. \A k \in Job \ {j} : LifeOf(k)' = LifeOf(k)
      BY <1>1, <2>2, <3>2, SameLife
    <3> QED
      BY <1>2, <3>3, <3>4 DEF LifeStep
  <2> QED
    BY <1>6, <2>1, <2>2, EndRows
<1>7. ASSUME NEW j \in Job, Claim(j) PROVE Contract!Next \/ Life' = Life
  <2>1. Taken(j, jobs[j].count + 1) /\ \A k \in Job \ {j} : Same(k)
    BY <1>7, ClaimRows
  <2>2. Contract!Begin(j)
    BY <1>1, <2>1, TakenLife
  <2>3. \A k \in Job \ {j} : LifeOf(k)' = LifeOf(k)
    BY <1>1, <2>1, SameLife
  <2> QED
    BY <1>2, <2>2, <2>3 DEF LifeStep
<1>8. CASE Reading
  BY <1>3, <1>8, ReadingRows
<1> QED
  BY <1>4, <1>5, <1>6, <1>7, <1>8, Steps

(* The queue implements the contract: whatever a request, an attempt or a  *)
(* recovery does to the tables is one step in the life of a job, or none,  *)
(* and a recovery ends all the open attempts in one.                       *)
THEOREM JobsKeepContractHolds == Spec => JobsKeepContract
<1>1. Init => Contract!Init
  BY DEF Init, NoRow, NoAttempts, Stored, Contract!Init, Contract!Life,
     Contract!NoTries, Contract!Number, Number
<1>2. QueueInv /\ QueueInv' /\ AttemptInv /\ Trials /\ [Next]_vars => [Contract!Next]_Life
  BY JobContractStep
<1> QED
  BY <1>1, <1>2, QueueInvariance, AttemptInvariance, TrialsInvariance, PTL
     DEF Spec, JobsKeepContract, Contract!Spec, Life, LifeOf
=============================================================================
