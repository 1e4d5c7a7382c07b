--------------------------- MODULE ProjectContract ---------------------------
(***************************************************************************)
(* What the routes of a project promise the clients that use If-Match: a   *)
(* change compares the document its client was last answered from with the *)
(* present one and replaces it in one step, or does not happen; a version  *)
(* is the document as it was, and none that is in use goes.                *)
(***************************************************************************)
EXTENDS Integers

CONSTANTS
  Client,     \* who changes the project
  VersionId,  \* version ids
  Name,       \* project names
  None        \* no client, no version

VARIABLES
  live,      \* the project exists
  row,       \* its name, revision and document
  versions,  \* its saved documents, each with its parent
  known      \* what each client was last answered

TagOf(r) == [revision |-> r.revision, document |-> r.document]
Ids      == {v.id : v \in versions}
Parents  == {v.parent : v \in versions} \ {None}

Init ==
  /\ live = TRUE
  /\ \E n \in Name :
       row = [revision |-> 1, name |-> n,
              document |-> [edit |-> None, name |-> n, current |-> None]]
  /\ versions = {}
  /\ known = [c \in Client |-> TagOf(row)]

(* The client has seen the document as it is now.                          *)
Current(c) == live /\ known[c] = TagOf(row)

Read(c) ==
  /\ live
  /\ known' = [known EXCEPT ![c] = TagOf(row)]
  /\ UNCHANGED <<live, row, versions>>

(* The project goes on to its next revision.                               *)
Becomes(document, name) ==
  row' = [revision |-> row.revision + 1, document |-> document, name |-> name]

Rename(n) ==
  /\ Becomes([row.document EXCEPT !.name = n], n)
  /\ UNCHANGED versions

Replace(c) ==
  /\ Becomes([row.document EXCEPT !.edit = c, !.name = row.name], row.name)
  /\ UNCHANGED versions

CreateVersion(v) ==
  /\ v \notin Ids
  /\ versions' = versions \cup
       {[id |-> v, parent |-> row.document.current, document |-> row.document]}
  /\ Becomes([row.document EXCEPT !.current = v], row.name)

Restore(v) ==
  /\ Becomes([v.document EXCEPT !.current = v.id], row.name)
  /\ UNCHANGED versions

(* The answer tells the new document, or a read does so afterwards.        *)
Write(c) ==
  /\ Current(c)
  /\ \/ \E n \in Name : Rename(n)
     \/ Replace(c)
     \/ \E v \in VersionId : CreateVersion(v)
     \/ \E v \in versions : Restore(v)
  /\ known' \in {known, [known EXCEPT ![c] = TagOf(row')]}
  /\ UNCHANGED live

DeleteVersion(v) ==
  /\ live
  /\ v \notin Parents /\ v # row.document.current
  /\ versions' = {w \in versions : w.id # v}
  /\ UNCHANGED <<live, row, known>>

DeleteProject(c) ==
  /\ Current(c)
  /\ Parents = {}
  /\ live' = FALSE /\ versions' = {}
  /\ UNCHANGED <<row, known>>

Next ==
  \/ \E c \in Client : Read(c) \/ Write(c) \/ DeleteProject(c)
  \/ \E v \in Ids : DeleteVersion(v)

Spec == Init /\ [][Next]_<<live, row, versions, known>>
=============================================================================
