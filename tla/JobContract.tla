----------------------------- MODULE JobContract -----------------------------
(***************************************************************************)
(* What the job queue promises of a job, whoever asks and whatever fails:  *)
(* a job is queued, tried as often as its budget allows, one attempt after *)
(* the other, and comes to one end, which its last attempt has too; a      *)
(* cancellation or a deletion may come at any time, and no two jobs of a   *)
(* project are pending together.                                           *)
(***************************************************************************)
EXTENDS Integers

CONSTANTS
  Job,          \* job ids
  ProjectOf,    \* the project each job is of
  MaxAttempts   \* no budget is larger

VARIABLE
  life          \* of each job: its status, its budget, and how each try went

Number  == 1 .. MaxAttempts
Pending == {"queued", "running"}
Ends    == {"completed", "failed", "cancelled"}

Life(status, budget, tries) == [status |-> status, budget |-> budget, tries |-> tries]
NoTries == [n \in Number |-> "none"]
Tried(j, n, end) == [life[j].tries EXCEPT ![n] = end]

Init == life = [j \in Job |-> Life("absent", 0, NoTries)]

(* No other job of the project is pending when j has become so.            *)
Admitted(j) ==
  \A k \in Job \ {j} : ProjectOf[k] = ProjectOf[j] => life'[k].status \notin Pending

Create(j) ==
  /\ life[j].status = "absent"
  /\ \E m \in Number : life'[j] = Life("queued", m, NoTries)
  /\ Admitted(j)

(* The next attempt, within the budget; all the earlier ones were lost.    *)
Begin(j) ==
  \E n \in Number :
    /\ life[j].status = "queued"
    /\ n <= life[j].budget
    /\ \A m \in Number :
         life[j].tries[m] = IF m < n THEN "failed" ELSE "none"
    /\ life'[j] = Life("running", life[j].budget, Tried(j, n, "running"))

(* Attempt n has begun and has no end.                                     *)
Open(j, n) ==
  /\ life[j].status \in {"running", "cancelled"}
  /\ life[j].tries[n] = "running"

(* The attempt ends, and the job with it ...                               *)
Finish(j) ==
  \E n \in Number, s \in Ends :
    /\ Open(j, n)
    /\ life'[j] = Life(s, life[j].budget, Tried(j, n, s))

(* ... or it is lost, and there is another one left.                       *)
Retry(j) ==
  \E n \in Number :
    /\ Open(j, n)
    /\ n < life[j].budget
    /\ life'[j] = Life("queued", life[j].budget, Tried(j, n, "failed"))
    /\ Admitted(j)

Cancel(j) ==
  /\ life[j].status \in Pending \cup Ends
  /\ life'[j] = Life("cancelled", life[j].budget, life[j].tries)

Delete(j) ==
  /\ life[j].status # "absent"
  /\ life'[j] = Life("deleted", 0, NoTries)

(* One job changes, or a recovery deals with all open attempts at once.    *)
Next ==
  /\ life' = [j \in Job |-> life'[j]]
  /\ \/ \E j \in Job :
          /\ Create(j) \/ Begin(j) \/ Finish(j) \/ Retry(j) \/ Cancel(j) \/ Delete(j)
          /\ \A k \in Job \ {j} : life'[k] = life[k]
     \/ \A j \in Job : life'[j] = life[j] \/ Finish(j) \/ Retry(j)

Spec == Init /\ [][Next]_life
=============================================================================
