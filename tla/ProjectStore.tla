---------------------------- MODULE ProjectStore ----------------------------
(***************************************************************************)
(* One project under concurrent API requests: the rows projects and        *)
(* project_states, the immutable versions, and the If-Match/ETag protocol. *)
(*   db/repository.py       update_project, replace_state, create_version, *)
(*                          restore_version, delete_version, delete_project*)
(*   api/routes/            projects.py, cadgraph.py, patches.py and       *)
(*                          versions.py: the checks made before the call   *)
(*   db/models.py           the foreign keys of table versions             *)
(*                                                                         *)
(* Granularity as in JobQueue: what a transaction reads before its first   *)
(* UPDATE is one step, its commit another, and a route that reads in a     *)
(* transaction of its own adds a step in front or behind.  A commit writes *)
(* the columns whose value the request changed, by primary key.            *)
(*                                                                         *)
(* A document is abstracted to the client whose edit it carries, the       *)
(* project name it repeats and its currentVersionId.                       *)
(*                                                                         *)
(* No lock and no version column keeps two requests apart between a read   *)
(* and a commit.  `crossed` is a history variable, read by no action: it   *)
(* records how requests have crossed, so that the properties can say what  *)
(* holds as long as they have not.                                         *)
(* Definitions named X_Y that stand before X are deliberate defects of X,  *)
(* used to check that the properties can fail.                             *)
(***************************************************************************)
EXTENDS Integers, FiniteSets

CONSTANTS
  Client,      \* who sends requests, one at a time each
  VersionId,   \* version ids, used once
  Name,        \* project names
  None,        \* no client, no version
  InFlight,    \* requests the server works on at one time
  MaxRevision  \* bound: requests stop at this revision

ASSUME ProjectStoreAssumption ==
  /\ IsFiniteSet(Client)
  /\ Name # {}
  /\ None \notin Client \cup VersionId
  /\ InFlight \in Nat \ {0}
  /\ MaxRevision \in Nat \ {0}

VARIABLES
  live,      \* the project exists
  row,       \* its name, revision and document
  versions,  \* the rows of table versions
  issued,    \* the version ids generated so far
  known,     \* the ETag of a client's last answer, the document it was made from
  requests,  \* the request of each client
  crossed    \* history: the ways in which requests have crossed

vars == <<live, row, versions, issued, known, requests, crossed>>

Document == [edit : Client \cup {None}, name : Name, current : VersionId \cup {None}]
Row      == [revision : 1 .. MaxRevision, document : Document, name : Name]
Version  == [id : VersionId, parent : VersionId \cup {None}, document : Document]
Tag      == [revision : 1 .. MaxRevision, document : Document]

Op == {"rename", "replace", "create", "restore", "deleteVersion", "deleteProject"}
(* "checked": a first transaction of the route has ended; "read": the last *)
(* one is open; "answer": it is committed.                                 *)
Request == [op : Op, at : {"checked", "read", "answer"},
            read : Row, next : Row, version : VersionId \cup {None}]

Idle == [op |-> "none"]

(* "overwrite": a request went on from another row than the one it had     *)
(* read; "deletion": a version was deleted that had become current, or     *)
(* restored that had been deleted, since it was looked up; "answer": an    *)
(* ETag was read after a further commit.                                   *)
Crossing == {"overwrite", "deletion", "answer"}

TagOf(r) == [revision |-> r.revision, document |-> r.document]
Ids == {v.id : v \in versions}
Parents == {v.parent : v \in versions} \ {None}

-----------------------------------------------------------------------------
(* What the requests have in common.                                       *)

Waiting(c, op, at) == requests[c] # Idle /\ requests[c].op = op /\ requests[c].at = at

MayStart(c) ==
  /\ live
  /\ requests[c] = Idle
  /\ Cardinality({d \in Client : requests[d] # Idle}) < InFlight

Matches_Always(c) == TRUE
Matches(c) == known[c].revision = row.revision

Ask(c, op, at, next, version) ==
  requests' = [requests EXCEPT ![c] =
    [op |-> op, at |-> at, read |-> row, next |-> next, version |-> version]]

Answer(c, tag) == /\ known' = [known EXCEPT ![c] = tag]
                  /\ requests' = [requests EXCEPT ![c] = Idle]
End(c) == requests' = [requests EXCEPT ![c] = Idle] /\ UNCHANGED known

(* The revision is written as the number after the one that was read.      *)
Successor_Same(document, name) ==
  [revision |-> row.revision, document |-> document, name |-> name]
Successor(document, name) ==
  [revision |-> row.revision + 1, document |-> document, name |-> name]
HasSuccessor == row.revision < MaxRevision

(* An UPDATE sets the columns that differ from what the session loaded.    *)
Kept(read, next, now) == IF next = read THEN now ELSE next
Flush(r) ==
  [revision |-> Kept(r.read.revision, r.next.revision, row.revision),
   document |-> Kept(r.read.document, r.next.document, row.document),
   name     |-> Kept(r.read.name, r.next.name, row.name)]

(* What is recorded when another commit fell between two steps.            *)
Cross(when, kind) == IF when THEN {kind} ELSE {}
Overwrites(c) == Cross(requests[c].read # row, "overwrite")
Records(kinds) == crossed' = crossed \cup kinds

-----------------------------------------------------------------------------
(* GET of the project.                                                     *)
Refresh(c) ==
  /\ live /\ requests[c] = Idle
  /\ Answer(c, TagOf(row))
  /\ UNCHANGED <<live, row, versions, issued, crossed>>

(* PATCH of the project: update_project, then a read for the answer.       *)
ReadRename(c) == \E n \in Name :
  /\ MayStart(c) /\ Matches(c) /\ HasSuccessor
  /\ Ask(c, "rename", "read", Successor([row.document EXCEPT !.name = n], n), None)
  /\ UNCHANGED <<live, row, versions, issued, known, crossed>>

CommitRename(c) ==
  /\ Waiting(c, "rename", "read") /\ live
  /\ row' = Flush(requests[c])
  /\ requests' = [requests EXCEPT ![c].at = "answer"]
  /\ Records(Overwrites(c))
  /\ UNCHANGED <<live, versions, issued, known>>

AnswerRename(c) ==
  /\ Waiting(c, "rename", "answer") /\ live
  /\ Answer(c, TagOf(row))
  /\ UNCHANGED <<live, row, versions, issued, crossed>>

(* PATCH of the CADGraph or of patches: get_state, then replace_state,     *)
(* which compares the revision and repeats the project's name.             *)
GetGraph(c) ==
  /\ MayStart(c)
  /\ Ask(c, "replace", "checked", row, None)
  /\ UNCHANGED <<live, row, versions, issued, known, crossed>>

ReadReplace(c) ==
  /\ Waiting(c, "replace", "checked") /\ live /\ Matches(c) /\ HasSuccessor
  /\ LET got == requests[c].read.document IN
       Ask(c, "replace", "read",
           Successor([got EXCEPT !.edit = c, !.name = row.name], row.name), None)
  /\ UNCHANGED <<live, row, versions, issued, known, crossed>>

CommitReplace(c) ==
  /\ Waiting(c, "replace", "read") /\ live
  /\ row' = Flush(requests[c])
  /\ Answer(c, TagOf(requests[c].next))
  /\ Records(Overwrites(c))
  /\ UNCHANGED <<live, versions, issued>>

(* POST of a version: the route compares the revision, create_version does *)
(* not; the ETag of the answer is read afterwards.                         *)
CheckCreate(c) ==
  /\ MayStart(c) /\ Matches(c)
  /\ Ask(c, "create", "checked", row, None)
  /\ UNCHANGED <<live, row, versions, issued, known, crossed>>

ReadCreate(c) == \E v \in VersionId \ issued :
  /\ Waiting(c, "create", "checked") /\ live /\ HasSuccessor
  /\ Ask(c, "create", "read", Successor([row.document EXCEPT !.current = v], row.name), v)
  /\ issued' = issued \cup {v}
  /\ Records(Overwrites(c))
  /\ UNCHANGED <<live, row, versions, known>>

ForeignKey(parent) == parent \in Ids \cup {None}

CommitCreate(c) ==
  LET r == requests[c] IN
  /\ Waiting(c, "create", "read") /\ live
  /\ ForeignKey(r.read.document.current)
  /\ versions' = versions \cup
       {[id |-> r.version, parent |-> r.read.document.current, document |-> r.read.document]}
  /\ row' = Flush(r)
  /\ requests' = [requests EXCEPT ![c].at = "answer"]
  /\ Records(Overwrites(c))
  /\ UNCHANGED <<live, issued, known>>

AnswerCreate(c) ==
  /\ Waiting(c, "create", "answer") /\ live
  /\ Answer(c, [revision |-> row.revision, document |-> requests[c].next.document])
  /\ Records(Cross(requests[c].next.revision # row.revision, "answer"))
  /\ UNCHANGED <<live, row, versions, issued>>

(* POST of a restore.                                                      *)
ReadRestore(c) == \E v \in versions :
  /\ MayStart(c) /\ Matches(c) /\ HasSuccessor
  /\ Ask(c, "restore", "read",
         Successor([v.document EXCEPT !.current = v.id], row.name), v.id)
  /\ UNCHANGED <<live, row, versions, issued, known, crossed>>

CommitRestore(c) ==
  /\ Waiting(c, "restore", "read") /\ live
  /\ row' = Flush(requests[c])
  /\ Answer(c, TagOf(requests[c].next))
  /\ Records(Overwrites(c) \cup Cross(requests[c].version \notin Ids, "deletion"))
  /\ UNCHANGED <<live, versions, issued>>

(* DELETE of a version: no If-Match; children and currentVersionId are     *)
(* looked up first, and the foreign key of the children is RESTRICT.       *)
Referenced_ChildrenOnly(v) == v \in Parents
Referenced(v) == v \in Parents \/ row.document.current = v

ReadDeleteVersion(c) == \E v \in Ids :
  /\ MayStart(c) /\ ~Referenced(v)
  /\ Ask(c, "deleteVersion", "read", row, v)
  /\ UNCHANGED <<live, row, versions, issued, known, crossed>>

Restricted(v) == v \in Parents

CommitDeleteVersion(c) ==
  LET v == requests[c].version IN
  /\ Waiting(c, "deleteVersion", "read") /\ ~Restricted(v)
  /\ versions' = {w \in versions : w.id # v}
  /\ End(c)
  /\ Records(Cross(requests[c].read.document.current # v /\ row.document.current = v, "deletion"))
  /\ UNCHANGED <<live, row, issued>>

(* DELETE of the project: the route compares the revision; the deletion    *)
(* cascades to the versions, a parent before its children, and a RESTRICT  *)
(* foreign key refuses the first parent it meets.                          *)
CheckDeleteProject(c) ==
  /\ MayStart(c) /\ Matches(c)
  /\ Ask(c, "deleteProject", "checked", row, None)
  /\ UNCHANGED <<live, row, versions, issued, known, crossed>>

CommitDeleteProject(c) ==
  /\ Waiting(c, "deleteProject", "checked") /\ live
  /\ Parents = {}
  /\ live' = FALSE /\ versions' = {}
  /\ End(c)
  /\ Records(Overwrites(c))
  /\ UNCHANGED <<row, issued>>

-----------------------------------------------------------------------------
(* A request that ends with an error: 404, 412, or a failed statement.     *)
Refused(c) ==
  \/ ~live /\ requests[c].op # "deleteVersion"
  \/ Waiting(c, "replace", "checked") /\ ~Matches(c)
  \/ Waiting(c, "create", "read") /\ ~ForeignKey(requests[c].read.document.current)
  \/ Waiting(c, "deleteVersion", "read") /\ Restricted(requests[c].version)
  \/ Waiting(c, "deleteProject", "checked") /\ Parents # {}

Fail(c) ==
  /\ requests[c] # Idle /\ Refused(c)
  /\ End(c)
  /\ UNCHANGED <<live, row, versions, issued, crossed>>

Init ==
  /\ live = TRUE
  /\ row \in {[revision |-> 1, name |-> n,
               document |-> [edit |-> None, name |-> n, current |-> None]] : n \in Name}
  /\ versions = {} /\ issued = {}
  /\ known = [c \in Client |-> TagOf(row)]
  /\ requests = [c \in Client |-> Idle]
  /\ crossed = {}

Next == \E c \in Client :
  \/ Refresh(c)
  \/ ReadRename(c)  \/ CommitRename(c) \/ AnswerRename(c)
  \/ GetGraph(c)    \/ ReadReplace(c)  \/ CommitReplace(c)
  \/ CheckCreate(c) \/ ReadCreate(c)   \/ CommitCreate(c) \/ AnswerCreate(c)
  \/ ReadRestore(c) \/ CommitRestore(c)
  \/ ReadDeleteVersion(c)  \/ CommitDeleteVersion(c)
  \/ CheckDeleteProject(c) \/ CommitDeleteProject(c)
  \/ Fail(c)

Spec == Init /\ [][Next]_vars

-----------------------------------------------------------------------------
(* The rows, the tags and the requests are what their tables and types say.*)
TypeOK ==
  /\ live \in BOOLEAN
  /\ row \in Row
  /\ versions \subseteq Version
  /\ issued \subseteq VersionId
  /\ known \in [Client -> Tag]
  /\ requests \in [Client -> Request \cup {Idle}]
  /\ crossed \subseteq Crossing

(* Every version's parent is a version: what create_version links to is    *)
(* there when the row is inserted, and delete_version and the foreign key  *)
(* keep it as long as it has a child, whatever was read before.            *)
ParentsExist == Parents \subseteq Ids

(* The document's currentVersionId is a version of the project: neither a  *)
(* restore nor a deletion leaves it at a version that is gone, but for a   *)
(* version deleted or restored across the other, or a document written     *)
(* back over a newer one.                                                  *)
CurrentExists == live /\ row.document.current # None => row.document.current \in Ids
CurrentIsVersion == crossed \subseteq {"answer"} => CurrentExists

(* Two documents with the same ETag are the same document: a client whose  *)
(* ETag is the project's revision was answered from the project's document,*)
(* as long as no commit has overwritten another and no ETag came late.     *)
TagIsDocument ==
  \A c \in Client : live /\ known[c].revision = row.revision
                      => known[c].document = row.document
TagNamesDocument == crossed \subseteq {"deletion"} => TagIsDocument

(* The checks of the routes are as good as an atomic compare-and-set up to *)
(* the first crossing, however many requests are served at a time: what a  *)
(* request read in one transaction and wrote in another is one step of the *)
(* contract whenever no other commit fell between.                         *)
Contract == INSTANCE ProjectContract
ChecksAreAtomic ==
  /\ Contract!Init
  /\ [][crossed' = {} => Contract!Next]_<<live, row, versions, known>>

(* What If-Match is for (docs/architecture.md:58, "never silently merged"),*)
(* with no exception: a request that changes the project replaces the      *)
(* document its client was last answered from.                             *)
WritesAt(c) == requests[c] # Idle /\ requests'[c] # requests[c] /\ row' # row
NoBlindWrite ==
  [][\A c \in Client : WritesAt(c) => known[c].document = row.document]_vars

(* A deletion whose revision was current when it was checked, and whose    *)
(* project is still there, removes the project.                            *)
DeletionRemoves ==
  [][\A c \in Client :
       /\ requests[c] # Idle /\ requests[c].op = "deleteProject"
       /\ requests'[c] = Idle
       => ~live']_vars
=============================================================================
