------------------------------ MODULE Workspace -----------------------------
(* The working document of one open project in a browser, the server's     *)
(* copy of it, and what IndexedDB keeps across a reload.                   *)
(*   apps/web/src/state/store.ts                     the working document  *)
(*   apps/web/src/workspace/WorkspaceController.tsx  requests and answers  *)
(*   apps/web/src/persistence/repository.ts          autosave              *)
(*   apps/web/src/App.tsx                            opening and reloading *)
(*                                                                         *)
(* A document is its CADGraph, a number that stands for the content; what  *)
(* else it holds is not told apart.  An await is where a step ends: a      *)
(* request is sent, served and answered in three steps.  Definitions named *)
(* X_Y that stand before X are deliberate defects of X.                    *)
EXTENDS Integers, Sequences, FiniteSets

CONSTANTS
  MaxHistory,    \* entries that the undo history keeps
  MaxBytes,      \* bytes that they may have together
  Size(_),       \* the bytes that the patches of an entry have
  MaxRevision,   \* bound: revisions of the project
  MaxLocal,      \* bound: local revisions
  MaxCalls,      \* bound: graph updates on their way at a time
  MaxReloads     \* bound: reloads of the page
ASSUME HistoryAssumption == MaxHistory \in Nat \ {0}

VARIABLES
  docs,      \* the graph the server has at each revision
  client,    \* the workspace store
  calls,     \* graph updates that are on their way
  ask,       \* the one other request that is on its way
  refresh,   \* the revision that a refresh has read; 0 when none is on its way
  stored,    \* the records of the project in IndexedDB
  fresh,     \* contents made so far
  mine,      \* graphs the user has made here and not taken back
  crossed,   \* a server copy has replaced a document that had been edited since
  reloads
vars == <<docs, client, calls, ask, refresh, stored, fresh, mine, crossed, reloads>>

Head_(s) == s[Len(s)]
Front_(s) == SubSeq(s, 1, Len(s) - 1)
None == [kind |-> "none"]
Revision == Len(docs)

(* hydrateProject with what the server has: nothing is local.              *)
Opened(doc, revision) ==
  [working |-> doc, local |-> 0, acked |-> 0, rev |-> revision, sync |-> "clean",
   past |-> <<>>, future |-> <<>>]

(* openWorkspace; the initial save is due.                                 *)
Init ==
  /\ docs = <<1>>
  /\ client = Opened(docs[1], 1)
  /\ calls = {}
  /\ ask = None
  /\ refresh = 0
  /\ stored = [none |-> TRUE]
  /\ fresh = 1
  /\ mine = {}
  /\ crossed = FALSE
  /\ reloads = 0

-----------------------------------------------------------------------------
(* The store.                                                              *)

Bytes(entries) ==
  LET sum[i \in 0..Len(entries)] == IF i = 0 THEN 0 ELSE sum[i - 1] + Size(entries[i])
  IN  sum[Len(entries)]
Fits(entries) == Len(entries) <= MaxHistory /\ Bytes(entries) <= MaxBytes
Since(entries, i) == SubSeq(entries, i, Len(entries))

(* trimHistory gives up the oldest until the rest fits: if one entry is    *)
(* too large, every one before it goes, and then that entry as well.       *)
Trimmed(entries) ==
  LET enough == {n \in 0..Len(entries) : n = Len(entries) \/ Fits(Since(entries, n + 1))}
  IN  Since(entries, 1 + (CHOOSE n \in enough : \A k \in enough : n <= k))

Kept == {"offline", "conflict", "error"}
DirtySync(sync) == IF sync \in Kept THEN sync ELSE "saving"

(* An entry of the history has the graph before and after, and whether it  *)
(* was an edit of the graph or replaced the whole document.                *)
TransactProjectEdit(graph) ==
  LET entry == [kind |-> "graph", before |-> client.working, after |-> graph]
  IN  [client EXCEPT !.working = graph, !.local = @ + 1, !.sync = DirtySync(@),
                     !.past = Trimmed(Append(@, entry)), !.future = <<>>]

CommitServerOperation_Forgets(doc, revision) ==
  [client EXCEPT !.working = doc, !.local = @ + 1, !.acked = client.local + 1,
                 !.rev = revision, !.sync = "clean", !.past = <<>>, !.future = <<>>]
CommitServerOperation(doc, revision) ==
  LET entry == [kind |-> "whole", before |-> client.working, after |-> doc]
  IN  [client EXCEPT !.working = doc, !.local = @ + 1, !.acked = client.local + 1,
                     !.rev = revision, !.sync = "clean",
                     !.past = Trimmed(Append(@, entry)), !.future = <<>>]

Undone ==
  LET entry == Head_(client.past)
  IN  [client EXCEPT !.working = entry.before, !.local = @ + 1,
                     !.sync = DirtySync(@), !.past = Front_(@), !.future = Append(@, entry)]
Redone ==
  LET entry == Head_(client.future)
  IN  [client EXCEPT !.working = entry.after, !.local = @ + 1,
                     !.sync = DirtySync(@), !.future = Front_(@),
                     !.past = Trimmed(Append(@, entry))]

(* An acknowledgement of what is older than the last one is ignored, and   *)
(* one that is not of the latest edit leaves the workspace saving.         *)
Acknowledged_Always(sent, revision) ==
  IF sent < client.acked \/ sent > client.local THEN client
  ELSE [client EXCEPT !.acked = client.local, !.rev = revision, !.sync = "clean"]
Acknowledged(sent, revision) ==
  IF sent < client.acked \/ sent > client.local THEN client
  ELSE [client EXCEPT !.acked = sent, !.rev = revision,
          !.sync = IF sent = client.local THEN "clean"
                   ELSE IF @ = "offline" THEN "offline" ELSE "saving"]

ReplaceWithServerCopy(doc, revision) ==
  [client EXCEPT !.working = doc, !.rev = revision, !.acked = client.local,
                 !.sync = "clean", !.past = <<>>, !.future = <<>>]

(* requireServerWritable                                                   *)
Writable == client.local = client.acked /\ client.sync = "clean"

-----------------------------------------------------------------------------
(* The server, and what others do to the project: another tab, or a job.   *)

ForeignChange ==
  /\ Revision < MaxRevision
  /\ \/ docs' = Append(docs, fresh + 1) /\ fresh' = fresh + 1
     \/ docs' = Append(docs, docs[Revision]) /\ UNCHANGED fresh
  /\ UNCHANGED <<client, calls, ask, refresh, stored, mine, crossed, reloads>>

(* patch_cadgraph under If-Match.                                          *)
ServeCall ==
  /\ \E c \in calls :
       /\ c.state = "sent"
       /\ IF c.rev = Revision
          THEN /\ Revision < MaxRevision
               /\ docs' = Append(docs, c.graph)
               /\ calls' = (calls \ {c}) \cup {[c EXCEPT !.state = "accepted", !.rev = Revision + 1]}
          ELSE /\ calls' = (calls \ {c}) \cup {[c EXCEPT !.state = "conflict"]}
               /\ UNCHANGED docs
  /\ UNCHANGED <<client, ask, refresh, stored, fresh, mine, crossed, reloads>>

(* A restored version brings an earlier graph back, and a rename the graph *)
(* of now; a job that is accepted changes nothing yet.                     *)
ServeAsk ==
  /\ ask.kind # "none" /\ ask.state = "sent"
  /\ \/ /\ ask.rev # Revision
        /\ ask' = [ask EXCEPT !.state = "conflict"]
        /\ UNCHANGED docs
     \/ /\ ask.rev = Revision /\ ask.kind = "job"
        /\ ask' = None
        /\ UNCHANGED docs
     \/ /\ ask.rev = Revision /\ ask.kind = "copy" /\ Revision < MaxRevision
        /\ ask' = [ask EXCEPT !.state = "accepted", !.rev = Revision + 1]
        /\ \E v \in 1..Revision : docs' = Append(docs, docs[v])
  /\ UNCHANGED <<client, calls, refresh, stored, fresh, mine, crossed, reloads>>

-----------------------------------------------------------------------------
(* Edits of the graph, undo and redo.                                      *)

Call(state) == [sent |-> state.local, rev |-> state.rev, graph |-> state.working,
                state |-> "sent"]
Edited(state) == client' = state /\ state.local <= MaxLocal
Undisturbed == UNCHANGED <<docs, ask, refresh, stored, crossed, reloads>>

(* updateCadgraph                                                          *)
UpdateCadgraph ==
  /\ Writable /\ Cardinality(calls) < MaxCalls
  /\ fresh' = fresh + 1
  /\ mine' = mine \cup {fresh'}
  /\ Edited(TransactProjectEdit(fresh'))
  /\ calls' = calls \cup {Call(client')}
  /\ Undisturbed

(* An entry of the graph is sent to the server, any other stays local.     *)
SyncHistory(entry) ==
  IF entry.kind = "graph"
  THEN Cardinality(calls) < MaxCalls /\ calls' = calls \cup {Call(client')}
  ELSE UNCHANGED calls

Undo ==
  /\ client.past # <<>>
  /\ Edited(Undone)
  /\ SyncHistory(Head_(client.past))
  /\ mine' = mine \ {client.working}
  /\ UNCHANGED fresh /\ Undisturbed

Redo ==
  /\ client.future # <<>>
  /\ Edited(Redone)
  /\ SyncHistory(Head_(client.future))
  /\ UNCHANGED <<mine, fresh>> /\ Undisturbed

(* The answer to a graph update; a request may also get none.              *)
ReadCall ==
  /\ \E c \in calls :
       /\ calls' = calls \ {c}
       /\ \/ /\ c.state = "accepted"
             /\ client' = Acknowledged(c.sent, c.rev)
          \/ /\ c.state = "conflict"
             /\ client' = [client EXCEPT !.sync = "conflict"]
          \/ client' = [client EXCEPT !.sync = "error"]
  /\ UNCHANGED <<docs, ask, refresh, stored, fresh, mine, crossed, reloads>>

-----------------------------------------------------------------------------
(* Refreshes and the other requests.                                       *)

(* A refresh follows the opening, a completed job, an accepted request and *)
(* a job refused for its revision: there may be one at any time.  It reads *)
(* the project, and commits what it has read whatever the workspace is     *)
(* then.                                                                   *)
ReadProject ==
  /\ refresh = 0
  /\ refresh' = Revision
  /\ UNCHANGED <<docs, client, calls, ask, stored, fresh, mine, crossed, reloads>>

RefreshProject ==
  /\ refresh # 0
  /\ Edited(CommitServerOperation(docs[refresh], refresh))
  /\ refresh' = 0
  /\ UNCHANGED <<docs, calls, ask, stored, fresh, mine, crossed, reloads>>

LoseRefresh ==
  /\ refresh # 0
  /\ refresh' = 0
  /\ UNCHANGED <<docs, client, calls, ask, stored, fresh, mine, crossed, reloads>>

(* run, and renameProject or restoreVersion.  An edit of the patches is a  *)
(* foreign change here: its answer only starts a refresh.                  *)
Ask ==
  /\ Writable /\ ask = None
  /\ \E kind \in {"job", "copy"} :
       ask' = [kind |-> kind, rev |-> client.rev, local |-> client.local, state |-> "sent"]
  /\ UNCHANGED <<docs, client, calls, refresh, stored, fresh, mine, crossed, reloads>>

(* The answer to a rename or a restore puts the server's copy in place.    *)
ReadAccepted ==
  /\ ask.kind # "none" /\ ask.state = "accepted"
  /\ ask' = None
  /\ client' = ReplaceWithServerCopy(docs[ask.rev], ask.rev)
  /\ crossed' = (crossed \/ client.local # ask.local \/ calls # {})
  /\ UNCHANGED <<docs, calls, refresh, stored, fresh, mine, reloads>>

(* A job that is refused for its revision when nothing here is local is    *)
(* asked for again after a refresh, and only reports if refused again; the *)
(* other requests only report, whether they were served or not.            *)
ReadRefused ==
  /\ ask.kind # "none"
  /\ ask' = None
  /\ IF ask.kind # "job" \/ (ask.state = "conflict" /\ client.local = client.acked)
     THEN UNCHANGED client
     ELSE client' = [client EXCEPT !.sync = IF ask.state = "conflict" THEN "conflict"
                                            ELSE "error"]
  /\ UNCHANGED <<docs, calls, refresh, stored, fresh, mine, crossed, reloads>>

-----------------------------------------------------------------------------
(* IndexedDB.                                                              *)

(* flushAutosave, saveWorkspace: the latest snapshot, in one transaction.  *)
(* The hash of the document is awaited before it; a snapshot that commits  *)
(* late leaves what a flush left that came early.  The outbox is written   *)
(* with the records and read by nothing here.                              *)
Autosave ==
  /\ stored # client
  /\ stored' = client
  /\ UNCHANGED <<docs, client, calls, ask, refresh, fresh, mine, crossed, reloads>>

HistoryGraphs(state) ==
  (UNION {{state.past[i].before, state.past[i].after} : i \in DOMAIN state.past})
    \cup (UNION {{state.future[i].before, state.future[i].after} : i \in DOMAIN state.future})
Held(state) == {state.working} \cup HistoryGraphs(state)

(* hydrateStoredWorkspace: what was not saved, or not answered, is gone.   *)
Reload ==
  /\ reloads < MaxReloads /\ "none" \notin DOMAIN stored
  /\ reloads' = reloads + 1
  /\ client' = [stored EXCEPT !.sync = IF @ \in {"conflict", "error"} THEN "offline" ELSE @]
  /\ calls' = {} /\ ask' = None
  /\ refresh' = 0
  /\ mine' = mine \cap Held(stored)
  /\ UNCHANGED <<docs, stored, fresh, crossed>>

-----------------------------------------------------------------------------
Next ==
  \/ ForeignChange \/ ServeCall \/ ServeAsk
  \/ UpdateCadgraph \/ Undo \/ Redo \/ ReadCall
  \/ ReadProject \/ RefreshProject \/ LoseRefresh
  \/ Ask \/ ReadAccepted \/ ReadRefused
  \/ Autosave \/ Reload
Spec == Init /\ [][Next]_vars

-----------------------------------------------------------------------------
(* Properties.                                                             *)

(* A workspace that may ask the server for geometry works on the graph the *)
(* server has at the revision it will name: an acknowledgement of an older *)
(* edit, which comes back after a newer edit or a refresh, does not make   *)
(* the workspace writable.  A rename or a restore answered after an edit   *)
(* is the exception; see NeitherSideIsDiscarded.                           *)
WritableGraphIsServers ==
  crossed \/ (Writable => client.working = docs[client.rev])

(* A graph the user has made and not taken back is at the server, in the   *)
(* working document or within reach of undo, through conflicts, refreshes, *)
(* lost answers and reloads: only a rename or a restore lets go of it, and *)
(* an entry that is pushed of those, itself among them, that the limits of *)
(* the history leave no room for; the history gives up no more than those. *)
Survives(graph) == graph \in {docs[r] : r \in DOMAIN docs} \cup Held(client)
Replaced == ask.kind = "copy" /\ ask' = None
Pushes ==
  [kind : {"graph", "whole"}, before : {client.working}, after : {client'.working}]
GivesUp(all, n) ==
  /\ n \in 1..Len(all) /\ client'.past = Since(all, n + 1)
  /\ ~Fits(Since(all, n))
Forgotten(graph) ==
  \E pushed \in Pushes : LET all == Append(client.past, pushed) IN
    \E n \in 1..Len(all) :
      GivesUp(all, n) /\ \E i \in 1..n : graph \in {all[i].before, all[i].after}
EditsSurvive ==
  [][\A graph \in mine \cap mine' :
       Survives(graph) => Survives(graph)' \/ Replaced \/ Forgotten(graph)]_vars

(* architecture.md, "Authority and consistency": a divergence is resolved  *)
(* "without discarding either side".                                       *)
NeitherSideIsDiscarded ==
  \A graph \in mine : Survives(graph) \/ \E c \in calls : c.graph = graph
=============================================================================
