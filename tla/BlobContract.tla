---------------------------- MODULE BlobContract ----------------------------
(***************************************************************************)
(* What the content store and its garbage collector promise together: a    *)
(* file may come at any time, a reference is only ever made to a file that *)
(* is there, and a file goes only while nothing references it.             *)
(***************************************************************************)
CONSTANTS
  Blob,     \* digests
  Project   \* project ids

VARIABLES
  stored,   \* the blobs whose file is in the store
  refs      \* <<project, blob>>: the project's rows reference the blob

vars == <<stored, refs>>

Init == stored = {} /\ refs = {}

Store(b) ==
  /\ stored' = stored \cup {b}
  /\ UNCHANGED refs

Reference(p, B) ==
  /\ B \subseteq stored
  /\ refs' = refs \cup ({p} \X B)
  /\ UNCHANGED stored

Release(p) ==
  /\ refs' = {r \in refs : r[1] # p}
  /\ UNCHANGED stored

Collect(b) ==
  /\ \A r \in refs : r[2] # b
  /\ stored' = stored \ {b}
  /\ UNCHANGED refs

Next ==
  \/ \E b \in Blob : Store(b) \/ Collect(b)
  \/ \E p \in Project : Release(p) \/ \E B \in SUBSET Blob : Reference(p, B)

Spec == Init /\ [][Next]_vars
=============================================================================
