------------------------- MODULE ProjectStoreProofs -------------------------
(***************************************************************************)
(* Theorems about ProjectStore, for every value of its constants, so with  *)
(* any number of requests served at a time: types and the tree of versions *)
(* whatever happens, and that the code's checks are an atomic              *)
(* compare-and-set (ProjectContract) up to the first crossing.             *)
(***************************************************************************)
EXTENDS ProjectStore, TLAPS

(* A version that is about to be inserted has its id.                      *)
Chosen == \A c \in Client :
  Waiting(c, "create", "read") => requests[c].version \in VersionId

StoreInv == TypeOK /\ Chosen /\ ParentsExist

(* The initial state has the right types and no version.                   *)
LEMMA StoreInit == ASSUME Init PROVE StoreInv
<1>1. TypeOK
  BY ProjectStoreAssumption, SMT
     DEF Init, TypeOK, Row, Document, Tag, TagOf, Idle, Crossing
<1>2. Chosen /\ ParentsExist
  BY DEF Init, Chosen, Waiting, ParentsExist, Parents
<1>. QED BY <1>1, <1>2 DEF StoreInv

(* Every step keeps the types: a request reads and proposes a row, and the *)
(* columns of a flushed row come from one of the two.                      *)
LEMMA TypeStep == ASSUME TypeOK, Chosen, [Next]_vars PROVE TypeOK'
<1>1. CASE UNCHANGED vars
  BY <1>1 DEF TypeOK, vars
<1>2. ASSUME NEW c \in Client, Refresh(c) PROVE TypeOK'
  BY <1>2 DEF TypeOK, Refresh, Answer, TagOf, Row, Tag
<1>3. ASSUME NEW c \in Client, NEW op \in Op, NEW at \in {"checked", "read"},
             NEW next \in Row, NEW version \in VersionId \cup {None},
             Ask(c, op, at, next, version), TypeOK
      PROVE requests' \in [Client -> Request \cup {Idle}]
  BY <1>3 DEF TypeOK, Ask, Request
<1>4. ASSUME NEW document \in Document, NEW name \in Name, HasSuccessor
      PROVE Successor(document, name) \in Row
  BY <1>4, ProjectStoreAssumption DEF TypeOK, Row, Successor, HasSuccessor
<1>5. ASSUME NEW r \in Request PROVE Flush(r) \in Row
  BY <1>5 DEF TypeOK, Request, Row, Flush, Kept
<1>6. ASSUME NEW c \in Client, requests[c] # Idle
      PROVE requests[c] \in Request
  BY <1>6 DEF TypeOK
<1>7. ASSUME NEW c \in Client, requests[c] # Idle
      PROVE [requests EXCEPT ![c].at = "answer"] \in [Client -> Request \cup {Idle}]
  BY <1>6, <1>7 DEF TypeOK, Request
<1>8. ASSUME NEW c \in Client, End(c)
      PROVE /\ requests' \in [Client -> Request \cup {Idle}]
            /\ known' \in [Client -> Tag]
  BY <1>8 DEF TypeOK, End
<1>9. ASSUME NEW c \in Client, NEW tag \in Tag, Answer(c, tag)
      PROVE /\ requests' \in [Client -> Request \cup {Idle}]
            /\ known' \in [Client -> Tag]
  BY <1>9 DEF TypeOK, Answer
<1>10. ASSUME NEW r \in Row PROVE TagOf(r) \in Tag
  BY DEF Row, Tag, TagOf
<1>11. ASSUME NEW c \in Client, ReadRename(c) PROVE TypeOK'
  <2>1. PICK n \in Name :
          Ask(c, "rename", "read", Successor([row.document EXCEPT !.name = n], n), None)
    BY <1>11 DEF ReadRename
  <2>2. [row.document EXCEPT !.name = n] \in Document
    BY DEF TypeOK, Row, Document
  <2>3. requests' \in [Client -> Request \cup {Idle}]
    BY <1>3, <1>4, <1>11, <2>1, <2>2 DEF ReadRename, Op
  <2>. QED BY <1>11, <2>3 DEF TypeOK, ReadRename
<1>12. ASSUME NEW c \in Client, CommitRename(c) PROVE TypeOK'
  BY <1>5, <1>6, <1>7, <1>12 DEF TypeOK, CommitRename, Records, Cross, Overwrites, Crossing, Waiting
<1>13. ASSUME NEW c \in Client, AnswerRename(c) PROVE TypeOK'
  BY <1>9, <1>10, <1>13 DEF TypeOK, AnswerRename
<1>14. ASSUME NEW c \in Client, GetGraph(c) PROVE TypeOK'
  BY <1>3, <1>14 DEF TypeOK, GetGraph, Op
<1>15. ASSUME NEW c \in Client, ReadReplace(c) PROVE TypeOK'
  <2>. DEFINE document == [requests[c].read.document EXCEPT !.edit = c, !.name = row.name]
  <2>1. document \in Document
    BY <1>6, <1>15 DEF TypeOK, ReadReplace, Waiting, Request, Row, Document
  <2>2. row.name \in Name
    BY DEF TypeOK, Row
  <2>3. Successor(document, row.name) \in Row
    BY <1>4, <1>15, <2>1, <2>2 DEF ReadReplace
  <2>4. requests' \in [Client -> Request \cup {Idle}]
    BY <1>3, <1>15, <2>3 DEF ReadReplace, Op
  <2>. QED BY <1>15, <2>4 DEF TypeOK, ReadReplace
<1>16. ASSUME NEW c \in Client, CommitReplace(c) PROVE TypeOK'
  <2>1. requests[c] \in Request /\ requests[c].next \in Row
    BY <1>6, <1>16 DEF CommitReplace, Waiting, Request
  <2>. QED BY <1>5, <1>9, <1>10, <1>16, <2>1 DEF TypeOK, CommitReplace, Records, Cross, Overwrites, Crossing
<1>17. ASSUME NEW c \in Client, CheckCreate(c) PROVE TypeOK'
  BY <1>3, <1>17 DEF TypeOK, CheckCreate, Op
<1>18. ASSUME NEW c \in Client, ReadCreate(c) PROVE TypeOK'
  <2>1. PICK v \in VersionId \ issued :
          /\ Ask(c, "create", "read",
                 Successor([row.document EXCEPT !.current = v], row.name), v)
          /\ issued' = issued \cup {v}
    BY <1>18 DEF ReadCreate
  <2>2. /\ [row.document EXCEPT !.current = v] \in Document
        /\ row.name \in Name
    BY DEF TypeOK, Row, Document
  <2>3. requests' \in [Client -> Request \cup {Idle}]
    BY <1>3, <1>4, <1>18, <2>1, <2>2 DEF ReadCreate, Op
  <2>. QED BY <1>18, <2>1, <2>3 DEF TypeOK, ReadCreate, Records, Cross, Overwrites, Crossing
<1>19. ASSUME NEW c \in Client, CommitCreate(c) PROVE TypeOK'
  <2>. DEFINE r == requests[c]
              new == [id |-> r.version, parent |-> r.read.document.current,
                      document |-> r.read.document]
  <2>1. r \in Request
    BY <1>6, <1>19 DEF CommitCreate, Waiting
  <2>2. r.version \in VersionId
    BY <1>19 DEF CommitCreate, Chosen
  <2>3. new \in Version
    BY <2>1, <2>2 DEF Request, Row, Document, Version
  <2>. QED BY <1>5, <1>7, <1>19, <2>1, <2>3 DEF TypeOK, CommitCreate, Records, Cross, Overwrites, Crossing, Waiting
<1>20. ASSUME NEW c \in Client, AnswerCreate(c) PROVE TypeOK'
  <2>1. requests[c] \in Request
    BY <1>6, <1>20 DEF AnswerCreate, Waiting
  <2>2. [revision |-> row.revision, document |-> requests[c].next.document] \in Tag
    BY <2>1 DEF TypeOK, Request, Row, Tag
  <2>. QED BY <1>9, <1>20, <2>2 DEF TypeOK, AnswerCreate, Records, Cross, Overwrites, Crossing
<1>21. ASSUME NEW c \in Client, ReadRestore(c) PROVE TypeOK'
  <2>1. PICK v \in versions :
          Ask(c, "restore", "read",
              Successor([v.document EXCEPT !.current = v.id], row.name), v.id)
    BY <1>21 DEF ReadRestore
  <2>2. /\ [v.document EXCEPT !.current = v.id] \in Document
        /\ row.name \in Name /\ v.id \in VersionId
    BY DEF TypeOK, Row, Version, Document
  <2>3. requests' \in [Client -> Request \cup {Idle}]
    BY <1>3, <1>4, <1>21, <2>1, <2>2 DEF ReadRestore, Op
  <2>. QED BY <1>21, <2>3 DEF TypeOK, ReadRestore
<1>22. ASSUME NEW c \in Client, CommitRestore(c) PROVE TypeOK'
  <2>1. requests[c] \in Request /\ requests[c].next \in Row
    BY <1>6, <1>22 DEF CommitRestore, Waiting, Request
  <2>. QED BY <1>5, <1>9, <1>10, <1>22, <2>1 DEF TypeOK, CommitRestore, Records, Cross, Overwrites, Crossing
<1>23. ASSUME NEW c \in Client, ReadDeleteVersion(c) PROVE TypeOK'
  <2>1. PICK v \in Ids : Ask(c, "deleteVersion", "read", row, v)
    BY <1>23 DEF ReadDeleteVersion
  <2>2. v \in VersionId
    BY DEF TypeOK, Ids, Version
  <2>. QED BY <1>3, <1>23, <2>1, <2>2 DEF TypeOK, ReadDeleteVersion, Op
<1>24. ASSUME NEW c \in Client, CommitDeleteVersion(c) PROVE TypeOK'
  BY <1>8, <1>24 DEF TypeOK, CommitDeleteVersion, Records, Cross, Overwrites, Crossing
<1>25. ASSUME NEW c \in Client, CheckDeleteProject(c) PROVE TypeOK'
  BY <1>3, <1>25 DEF TypeOK, CheckDeleteProject, Op
<1>26. ASSUME NEW c \in Client, CommitDeleteProject(c) PROVE TypeOK'
  BY <1>8, <1>26 DEF TypeOK, CommitDeleteProject, Records, Cross, Overwrites, Crossing
<1>27. ASSUME NEW c \in Client, Fail(c) PROVE TypeOK'
  BY <1>8, <1>27 DEF TypeOK, Fail
<1>. QED
  BY <1>1, <1>2, <1>11, <1>12, <1>13, <1>14, <1>15, <1>16, <1>17, <1>18, <1>19,
     <1>20, <1>21, <1>22, <1>23, <1>24, <1>25, <1>26, <1>27 DEF Next

(* Only the step that generates a version id opens a transaction for it.   *)
LEMMA ChosenStep == ASSUME TypeOK, Chosen, [Next]_vars PROVE Chosen'
<1>1. CASE UNCHANGED vars
  BY <1>1 DEF Chosen, Waiting, vars
<1>2. ASSUME NEW c \in Client, Refresh(c) PROVE Chosen'
  BY <1>2 DEF Refresh, Answer, Idle, TypeOK, Chosen, Waiting
<1>3. ASSUME NEW c \in Client, ReadRename(c) PROVE Chosen'
  BY <1>3 DEF ReadRename, Ask, TypeOK, Chosen, Waiting
<1>4. ASSUME NEW c \in Client, CommitRename(c) PROVE Chosen'
  BY <1>4 DEF CommitRename, TypeOK, Chosen, Waiting
<1>5. ASSUME NEW c \in Client, AnswerRename(c) PROVE Chosen'
  BY <1>5 DEF AnswerRename, Answer, Idle, TypeOK, Chosen, Waiting
<1>6. ASSUME NEW c \in Client, GetGraph(c) PROVE Chosen'
  BY <1>6 DEF GetGraph, Ask, TypeOK, Chosen, Waiting
<1>7. ASSUME NEW c \in Client, ReadReplace(c) PROVE Chosen'
  BY <1>7 DEF ReadReplace, Ask, TypeOK, Chosen, Waiting
<1>8. ASSUME NEW c \in Client, CommitReplace(c) PROVE Chosen'
  BY <1>8 DEF CommitReplace, Answer, Idle, TypeOK, Chosen, Waiting
<1>9. ASSUME NEW c \in Client, CheckCreate(c) PROVE Chosen'
  BY <1>9 DEF CheckCreate, Ask, TypeOK, Chosen, Waiting
<1>10. ASSUME NEW c \in Client, ReadCreate(c) PROVE Chosen'
  BY <1>10 DEF ReadCreate, Ask, TypeOK, Chosen, Waiting
<1>11. ASSUME NEW c \in Client, CommitCreate(c) PROVE Chosen'
  BY <1>11 DEF CommitCreate, TypeOK, Chosen, Waiting
<1>12. ASSUME NEW c \in Client, AnswerCreate(c) PROVE Chosen'
  BY <1>12 DEF AnswerCreate, Answer, Idle, TypeOK, Chosen, Waiting
<1>13. ASSUME NEW c \in Client, ReadRestore(c) PROVE Chosen'
  BY <1>13 DEF ReadRestore, Ask, TypeOK, Chosen, Waiting
<1>14. ASSUME NEW c \in Client, CommitRestore(c) PROVE Chosen'
  BY <1>14 DEF CommitRestore, Answer, Idle, TypeOK, Chosen, Waiting
<1>15. ASSUME NEW c \in Client, ReadDeleteVersion(c) PROVE Chosen'
  BY <1>15 DEF ReadDeleteVersion, Ask, TypeOK, Chosen, Waiting
<1>16. ASSUME NEW c \in Client, CommitDeleteVersion(c) PROVE Chosen'
  BY <1>16 DEF CommitDeleteVersion, End, Idle, TypeOK, Chosen, Waiting
<1>17. ASSUME NEW c \in Client, CheckDeleteProject(c) PROVE Chosen'
  BY <1>17 DEF CheckDeleteProject, Ask, TypeOK, Chosen, Waiting
<1>18. ASSUME NEW c \in Client, CommitDeleteProject(c) PROVE Chosen'
  BY <1>18 DEF CommitDeleteProject, End, Idle, TypeOK, Chosen, Waiting
<1>19. ASSUME NEW c \in Client, Fail(c) PROVE Chosen'
  BY <1>19 DEF Fail, End, Idle, TypeOK, Chosen, Waiting
<1>. QED
  BY <1>1, <1>2, <1>3, <1>4, <1>5, <1>6, <1>7, <1>8, <1>9, <1>10, <1>11,
     <1>12, <1>13, <1>14, <1>15, <1>16, <1>17, <1>18, <1>19 DEF Next

(* A parent is linked to while it is there, and goes only when no version  *)
(* links to it.                                                            *)
LEMMA ParentsStep == ASSUME TypeOK, ParentsExist, [Next]_vars PROVE ParentsExist'
<1>1. CASE UNCHANGED versions
  BY <1>1 DEF ParentsExist, Parents, Ids
<1>2. ASSUME NEW c \in Client, CommitCreate(c) PROVE ParentsExist'
  BY <1>2 DEF CommitCreate, ForeignKey, ParentsExist, Parents, Ids
<1>3. ASSUME NEW c \in Client, CommitDeleteVersion(c) PROVE ParentsExist'
  BY <1>3 DEF CommitDeleteVersion, Restricted, ParentsExist, Parents, Ids
<1>4. ASSUME NEW c \in Client, CommitDeleteProject(c) PROVE ParentsExist'
  BY <1>4 DEF CommitDeleteProject, ParentsExist, Parents, Ids
<1>5. CASE Next
  <2>. SUFFICES ASSUME UNCHANGED versions \/ \E c \in Client :
         CommitCreate(c) \/ CommitDeleteVersion(c) \/ CommitDeleteProject(c)
       PROVE ParentsExist'
    BY <1>5 DEF Next, Refresh, ReadRename, CommitRename, AnswerRename, GetGraph,
       ReadReplace, CommitReplace, CheckCreate, ReadCreate, AnswerCreate, ReadRestore,
       CommitRestore, ReadDeleteVersion, CheckDeleteProject, Fail
  <2>. QED BY <1>1, <1>2, <1>3, <1>4
<1>. QED BY <1>1, <1>5 DEF vars

LEMMA Invariance == Spec => []StoreInv
<1>1. ASSUME StoreInv, [Next]_vars PROVE StoreInv'
  BY <1>1, TypeStep, ChosenStep, ParentsStep DEF StoreInv
<1>. QED BY <1>1, StoreInit, PTL DEF Spec

(* The rows, the tags and the requests keep their types.                   *)
THEOREM TypeCorrect == Spec => []TypeOK
  BY Invariance, PTL DEF StoreInv

(* However requests interleave, no version's parent is ever missing.       *)
THEOREM ParentsStay == Spec => []ParentsExist
  BY Invariance, PTL DEF StoreInv

-----------------------------------------------------------------------------
(***************************************************************************)
(* Up to the first crossing.  What a request carries is computed from the  *)
(* row it has read; the invariant says what that row is to the present one *)
(* as long as no commit has overwritten another: the same, or an older one *)
(* with a lower revision, so that its own commit would be the crossing.    *)
(***************************************************************************)

NoOverwrite == "overwrite" \notin crossed

(* A version id belongs to one version or to one request.                  *)
Own ==
  /\ Ids \subseteq issued
  /\ \A v, w \in versions : v.id = w.id => v = w
  /\ \A c \in Client : Waiting(c, "create", "read") => requests[c].version \in issued \ Ids
  /\ \A c \in Client : Waiting(c, "restore", "read") => requests[c].version \in issued
  /\ \A c, d \in Client :
       /\ Waiting(c, "create", "read") /\ c # d
       /\ Waiting(d, "create", "read") \/ Waiting(d, "restore", "read")
       => requests[c].version # requests[d].version
  /\ \A c \in Client : Waiting(c, "deleteVersion", "read")
                      => requests[c].read.document.current # requests[c].version
  /\ ~live => versions = {}

After(r, document, name) ==
  [revision |-> r.revision + 1, document |-> document, name |-> name]

(* What is about to be flushed is a change of the contract to the row read.*)
Proposed(c) ==
  LET r == requests[c] IN
  /\ r.op \in {"rename", "replace", "create", "restore"} =>
       r.next.revision = r.read.revision + 1
  /\ r.op = "rename" => \E n \in Name :
       r.next = After(r.read, [r.read.document EXCEPT !.name = n], n)
  /\ r.op = "replace" => r.next =
       After(r.read, [r.read.document EXCEPT !.edit = c, !.name = r.read.name], r.read.name)
  /\ r.op = "create" => r.next =
       After(r.read, [r.read.document EXCEPT !.current = r.version], r.read.name)
  /\ r.op = "restore" => \A v \in versions : v.id = r.version =>
       r.next = After(r.read, [v.document EXCEPT !.current = v.id], r.read.name)

SameOrOlder(revision, is) == revision <= row.revision /\ (revision = row.revision => is)

(* The route of the request has compared the revision.                     *)
Compared(c) ==
  LET r == requests[c] IN
  \/ r.at = "read" /\ r.op # "deleteVersion"
  \/ r.at = "checked" /\ r.op \in {"create", "deleteProject"}

Carried(c) ==
  LET r == requests[c] IN
  r # Idle =>
    /\ r.at # "answer" => SameOrOlder(r.read.revision, r.read = row)
    /\ r.at = "answer" =>
         SameOrOlder(r.next.revision, r.next.document = row.document)
    /\ r.op = "replace" /\ r.at = "checked" => known[c].revision <= r.read.revision
    /\ Compared(c) => known[c].revision = r.read.revision
    /\ r.at = "read" => Proposed(c)

(* No client knows a revision that is still to come.                       *)
Known == \A c \in Client : known[c].revision <= row.revision

OrderInv == NoOverwrite => Known /\ \A c \in Client : Carried(c)

CrossInv == Own /\ OrderInv /\ TagNamesDocument /\ CurrentIsVersion

(* The kinds of step.                                                      *)
Reads(c) ==
  \/ ReadRename(c) \/ GetGraph(c) \/ ReadReplace(c) \/ CheckCreate(c) \/ ReadCreate(c)
  \/ ReadRestore(c) \/ ReadDeleteVersion(c) \/ CheckDeleteProject(c)
Commits(c) == CommitRename(c) \/ CommitReplace(c) \/ CommitCreate(c) \/ CommitRestore(c)
Answers(c) == Refresh(c) \/ AnswerRename(c) \/ AnswerCreate(c)
Ends(c) == CommitDeleteVersion(c) \/ CommitDeleteProject(c) \/ Fail(c)

LEMMA Kinds == Next <=> \E c \in Client : Reads(c) \/ Commits(c) \/ Answers(c) \/ Ends(c)
  BY DEF Next, Reads, Commits, Answers, Ends

(* A read changes no row and only the request it belongs to.               *)
LEMMA ReadsOnly ==
  ASSUME StoreInv, NEW c \in Client, Reads(c)
  PROVE  /\ UNCHANGED <<live, row, versions, known>>
         /\ issued \subseteq issued' /\ crossed \subseteq crossed' /\ live
         /\ \A d \in Client \ {c} : requests'[d] = requests[d]
  BY DEF Reads, ReadRename, GetGraph, ReadReplace, CheckCreate, ReadCreate,
     ReadRestore, ReadDeleteVersion, CheckDeleteProject, Ask, Records, StoreInv, TypeOK, MayStart

(* What is flushed over the row that was read is what was proposed.        *)
LEMMA FlushIsProposal ==
  ASSUME NEW r, r.read = row, row \in Row, r.next \in Row PROVE Flush(r) = r.next
  BY DEF Flush, Kept, Row

(* A commit that overwrites nothing writes the row it proposed over the    *)
(* row it read, which its client has seen.                                 *)
LEMMA CommitsOver ==
  ASSUME StoreInv, OrderInv, NEW c \in Client, Commits(c)
  PROVE  /\ live /\ UNCHANGED <<live, issued>> /\ crossed \subseteq crossed'
         /\ requests[c] \in Request /\ requests[c].at = "read"
         /\ requests[c].op \in {"rename", "replace", "create", "restore"}
         /\ \A d \in Client \ {c} : requests'[d] = requests[d] /\ known'[d] = known[d]
         /\ NoOverwrite' => /\ NoOverwrite /\ Matches(c) /\ requests[c].read = row
                            /\ row' = requests[c].next /\ row'.revision = row.revision + 1
<1>1. /\ requests[c] \in Request /\ requests[c].at = "read"
      /\ requests[c].op \in {"rename", "replace", "create", "restore"}
      /\ live /\ UNCHANGED <<live, issued>> /\ requests[c] # Idle
  BY DEF Commits, CommitRename, CommitReplace, CommitCreate, CommitRestore, Waiting,
     StoreInv, TypeOK
<1>2. /\ crossed \subseteq crossed' /\ row' = Flush(requests[c])
      /\ requests[c].read = row \/ "overwrite" \in crossed'
  BY DEF Commits, CommitRename, CommitReplace, CommitCreate, CommitRestore,
     Records, Overwrites, Cross
<1>3. \A d \in Client \ {c} : requests'[d] = requests[d] /\ known'[d] = known[d]
  BY DEF Commits, CommitRename, CommitReplace, CommitCreate, CommitRestore, Answer,
     StoreInv, TypeOK
<1>4. ASSUME NoOverwrite'
      PROVE /\ NoOverwrite /\ Matches(c) /\ requests[c].read = row
            /\ row' = requests[c].next /\ row'.revision = row.revision + 1
  <2>1. NoOverwrite /\ requests[c].read = row
    BY <1>2, <1>4 DEF NoOverwrite
  <2>4. Matches(c)
    BY <1>1, <2>1 DEF OrderInv, Carried, Compared, Matches
  <2>2. row' = requests[c].next
    BY <1>1, <1>2, <2>1, FlushIsProposal DEF Request, StoreInv, TypeOK
  <2>3. Proposed(c)
    BY <1>1, <2>1 DEF OrderInv, Carried
  <2> QED
    BY <1>1, <2>1, <2>2, <2>3, <2>4 DEF Proposed
<1> QED
  BY <1>1, <1>2, <1>3, <1>4

(* An answer changes what its client knows and ends its request.           *)
LEMMA AnswersOnly ==
  ASSUME StoreInv, NEW c \in Client, Answers(c)
  PROVE  /\ live /\ UNCHANGED <<live, row, versions, issued>> /\ crossed \subseteq crossed'
         /\ requests'[c] = Idle
         /\ \A d \in Client \ {c} : requests'[d] = requests[d] /\ known'[d] = known[d]
         /\ known'[c].revision = row.revision
         /\ known' = [known EXCEPT ![c] = TagOf(row)] \/ AnswerCreate(c)
<1>1. CASE Refresh(c) \/ AnswerRename(c)
  BY <1>1 DEF Refresh, AnswerRename, Answer, TagOf, StoreInv, TypeOK
<1>2. CASE AnswerCreate(c)
  BY <1>2 DEF AnswerCreate, Answer, Records, StoreInv, TypeOK
<1> QED
  BY <1>1, <1>2 DEF Answers

LEMMA EndsOnly ==
  ASSUME StoreInv, NEW c \in Client, Ends(c)
  PROVE  /\ UNCHANGED <<row, issued, known>> /\ crossed \subseteq crossed'
         /\ versions' \subseteq versions /\ (live' => live) /\ (~live => UNCHANGED live)
         /\ requests'[c] = Idle
         /\ \A d \in Client \ {c} : requests'[d] = requests[d]
  BY DEF Ends, CommitDeleteVersion, CommitDeleteProject, Fail, End, Records, StoreInv, TypeOK

LEMMA CrossInit == ASSUME Init PROVE CrossInv
<1>1. Own
  BY DEF Init, Own, Ids, Waiting
<1>2. OrderInv
  BY ProjectStoreAssumption, SMT DEF Init, OrderInv, Known, Carried, TagOf, Idle
<1>3. TagNamesDocument /\ CurrentIsVersion
  BY ProjectStoreAssumption, SMT
     DEF Init, TagNamesDocument, TagIsDocument, CurrentIsVersion, CurrentExists, TagOf
<1> QED
  BY <1>1, <1>2, <1>3 DEF CrossInv

-----------------------------------------------------------------------------
(* Version ids stay with what they were issued for.                        *)
LEMMA OwnStep == ASSUME StoreInv, Own, [Next]_vars PROVE Own'
<1>1. CASE UNCHANGED vars
  BY <1>1 DEF vars, Own, Ids, Waiting
<1>2. ASSUME NEW c \in Client, Reads(c) PROVE Own'
  <2>1. /\ UNCHANGED <<live, versions>> /\ issued \subseteq issued'
        /\ \A d \in Client \ {c} : requests'[d] = requests[d]
    BY <1>2, ReadsOnly
  <2>2. CASE ReadCreate(c)
    <3>1. PICK v \in VersionId \ issued :
            /\ requests'[c].version = v /\ requests'[c].op = "create"
            /\ issued' = issued \cup {v}
      BY <2>2 DEF ReadCreate, Ask, StoreInv, TypeOK
    <3> QED
      BY <2>1, <3>1 DEF Own, Ids, Waiting
  <2>3. CASE ReadRestore(c)
    <3>1. PICK v \in versions : requests'[c].version = v.id /\ requests'[c].op = "restore"
      BY <2>3 DEF ReadRestore, Ask, StoreInv, TypeOK
    <3>2. v.id \in Ids
      BY DEF Ids
    <3> QED
      BY <2>1, <3>1, <3>2 DEF Own, Ids, Waiting
  <2>4. CASE ~ReadCreate(c) /\ ~ReadRestore(c)
    <3>0. requests \in [Client -> Request \cup {Idle}]
      BY DEF StoreInv, TypeOK
    <3>1. ~Waiting(c, "create", "read")' /\ ~Waiting(c, "restore", "read")'
      <4>1. CASE ReadRename(c)
        BY <3>0, <4>1 DEF ReadRename, Ask, Waiting
      <4>2. CASE GetGraph(c) \/ ReadReplace(c)
        BY <3>0, <4>2 DEF GetGraph, ReadReplace, Ask, Waiting
      <4>3. CASE CheckCreate(c) \/ CheckDeleteProject(c)
        BY <3>0, <4>3 DEF CheckCreate, CheckDeleteProject, Ask, Waiting
      <4>4. CASE ReadDeleteVersion(c)
        BY <3>0, <4>4 DEF ReadDeleteVersion, Ask, Waiting
      <4> QED
        BY <1>2, <2>4, <4>1, <4>2, <4>3, <4>4 DEF Reads
    <3>2. Waiting(c, "deleteVersion", "read")' =>
            requests'[c].read.document.current # requests'[c].version
      <4>1. CASE ReadRename(c)
        BY <3>0, <4>1 DEF ReadRename, Ask, Waiting
      <4>2. CASE GetGraph(c) \/ ReadReplace(c)
        BY <3>0, <4>2 DEF GetGraph, ReadReplace, Ask, Waiting
      <4>3. CASE CheckCreate(c) \/ CheckDeleteProject(c)
        BY <3>0, <4>3 DEF CheckCreate, CheckDeleteProject, Ask, Waiting
      <4>4. CASE ReadDeleteVersion(c)
        BY <3>0, <4>4 DEF ReadDeleteVersion, Referenced, Ask, Waiting
      <4> QED
        BY <1>2, <2>4, <4>1, <4>2, <4>3, <4>4 DEF Reads
    <3> QED
      BY <2>1, <3>1, <3>2 DEF Own, Ids, Waiting
  <2> QED
    BY <2>2, <2>3, <2>4
<1>3. ASSUME NEW c \in Client, Answers(c) \/ Ends(c) PROVE Own'
  <2>1. /\ issued' = issued /\ versions' \subseteq versions /\ requests'[c] = Idle
        /\ \A d \in Client \ {c} : requests'[d] = requests[d]
    BY <1>3, AnswersOnly, EndsOnly
  <2>2. ~live' => versions' = {}
    BY <1>3 DEF Answers, Refresh, AnswerRename, AnswerCreate, Ends, CommitDeleteVersion,
       CommitDeleteProject, Fail, Own
  <2> QED
    BY <2>1, <2>2 DEF Own, Ids, Waiting
<1>4. ASSUME NEW c \in Client, Commits(c) PROVE Own'
  <2>1. /\ live' /\ issued' = issued
        /\ requests'[c] = Idle \/ requests'[c].at = "answer"
        /\ \A d \in Client \ {c} : requests'[d] = requests[d]
    BY <1>4 DEF Commits, CommitRename, CommitReplace, CommitCreate, CommitRestore, Answer,
       Waiting, StoreInv, TypeOK, Request
  <2>0. \A d \in Client : requests'[d] # Idle /\ requests'[d].at = "read" =>
          d # c /\ requests'[d] = requests[d]
    BY <2>1
  <2>2. CASE versions' = versions
    BY <2>0, <2>1, <2>2 DEF Own, Ids, Waiting
  <2>3. CASE CommitCreate(c)
    <3>. DEFINE r == requests[c]
                new == [id |-> r.version, parent |-> r.read.document.current,
                        document |-> r.read.document]
    <3>1. versions' = versions \cup {new} /\ new.id = requests[c].version
      BY <2>3 DEF CommitCreate
    <3>2. /\ Ids' = Ids \cup {new.id}
          /\ Waiting(c, "create", "read")
      BY <2>3, <3>1 DEF Ids, CommitCreate
    <3>3. new.id \in issued \ Ids
      BY <3>1, <3>2 DEF Own
    <3>4. \A v, w \in versions' : v.id = w.id => v = w
      BY <3>1, <3>3 DEF Own, Ids
    <3>5. \A d \in Client : Waiting(d, "create", "read")' => requests'[d].version # new.id
      BY <2>0, <2>1, <3>1, <3>2 DEF Own, Waiting
    <3>. HIDE DEF new
    <3>6. /\ \A d \in Client : Waiting(d, "create", "read")' =>
               requests'[d].version \in issued' \ Ids'
          /\ \A d \in Client : Waiting(d, "restore", "read")' => requests'[d].version \in issued'
          /\ \A d \in Client : Waiting(d, "deleteVersion", "read")'
               => requests'[d].read.document.current # requests'[d].version
      BY <2>0, <2>1, <3>2, <3>5 DEF Own, Waiting
    <3>7. \A d, e \in Client :
            /\ Waiting(d, "create", "read")' /\ d # e
            /\ Waiting(e, "create", "read")' \/ Waiting(e, "restore", "read")'
            => requests'[d].version # requests'[e].version
      BY <2>0 DEF Own, Waiting
    <3>8. Ids' \subseteq issued'
      BY <2>1, <3>2, <3>3 DEF Own
    <3> QED
      BY <2>1, <3>4, <3>6, <3>7, <3>8 DEF Own
  <2> QED
    BY <1>4, <2>2, <2>3 DEF Commits, CommitRename, CommitReplace, CommitRestore
<1> QED
  BY <1>1, <1>2, <1>3, <1>4, Kinds

(* As long as nothing is overwritten revisions only grow, and what was     *)
(* read is the present row or has a lower revision.                        *)
LEMMA OrderStep == ASSUME StoreInv, Own, OrderInv, [Next]_vars PROVE OrderInv'
<1>1. CASE UNCHANGED vars
  BY <1>1 DEF vars, OrderInv, NoOverwrite, Known, Carried, Compared, SameOrOlder, Proposed
<1>2. ASSUME NEW c \in Client, Reads(c) PROVE OrderInv'
  <2>1. /\ UNCHANGED <<live, row, versions, known>> /\ crossed \subseteq crossed'
        /\ \A d \in Client \ {c} : requests'[d] = requests[d]
    BY <1>2, ReadsOnly
  <2>2. ASSUME NoOverwrite' PROVE Carried(c)'
    <3>0. NoOverwrite /\ known[c].revision \in Int /\ row.revision \in Int
      BY <2>1, <2>2 DEF NoOverwrite, StoreInv, TypeOK, Tag, Row
    <3>. row \in Row /\ requests \in [Client -> Request \cup {Idle}]
      BY DEF StoreInv, TypeOK
    <3>1. CASE ReadRename(c)
      BY <2>1, <3>1 DEF ReadRename, Ask, Successor, Compared, Matches, Carried, SameOrOlder, Proposed, After, Row
    <3>2. CASE GetGraph(c)
      BY <2>1, <3>0, <3>2 DEF GetGraph, Ask, Compared, Matches, Carried, SameOrOlder, Row, OrderInv, Known
    <3>3. CASE ReadReplace(c)
      <4>1. requests[c].read = row
        BY <3>0, <3>3 DEF ReadReplace, Waiting, OrderInv, Carried, SameOrOlder, Matches,
           Row, Request, StoreInv, TypeOK, Tag
      <4> QED
        BY <2>1, <3>3, <4>1 DEF ReadReplace, Ask, Successor, Compared, Matches, Carried, SameOrOlder,
           Proposed, After, Row
    <3>4. CASE CheckCreate(c) \/ CheckDeleteProject(c) \/ ReadDeleteVersion(c)
      BY <2>1, <3>4 DEF CheckCreate, CheckDeleteProject, ReadDeleteVersion, Ask, Compared, Matches, Carried,
         SameOrOlder, Proposed, Row
    <3>5. CASE ReadCreate(c)
      <4>1. requests[c].read = row
        BY <2>2, <3>5 DEF ReadCreate, Records, Overwrites, Cross, NoOverwrite
      <4>2. known[c].revision = row.revision
        BY <3>0, <3>5, <4>1 DEF ReadCreate, Waiting, OrderInv, Carried, Compared
      <4> QED
        BY <2>1, <3>5, <4>2 DEF ReadCreate, Ask, Successor, Compared, Carried, SameOrOlder,
           Proposed, After, Row
    <3>6. CASE ReadRestore(c)
      <4>1. PICK v \in versions :
              requests'[c] =
                [op |-> "restore", at |-> "read", read |-> row, version |-> v.id,
                 next |-> Successor([v.document EXCEPT !.current = v.id], row.name)]
        BY <3>6 DEF ReadRestore, Ask
      <4>2. \A w \in versions : w.id = v.id => w = v
        BY DEF Own
      <4>3. Proposed(c)'
        BY <2>1, <4>1, <4>2 DEF Successor, Proposed, After
      <4> QED
        BY <2>1, <3>6, <4>1, <4>3 DEF ReadRestore, Compared, Matches, Carried, SameOrOlder, Row
    <3> QED
      BY <1>2, <3>1, <3>2, <3>3, <3>4, <3>5, <3>6 DEF Reads
  <2>3. ASSUME NoOverwrite', NEW d \in Client \ {c} PROVE Carried(d)'
    <3>1. Carried(d)
      BY <2>1, <2>3 DEF OrderInv, NoOverwrite
    <3> QED
      BY <2>1, <3>1 DEF Carried, Compared, SameOrOlder, Proposed
  <2> QED
    BY <2>1, <2>2, <2>3 DEF OrderInv, NoOverwrite, Known
<1>3. ASSUME NEW c \in Client, Answers(c) \/ Ends(c) PROVE OrderInv'
  <2>1. /\ row' = row /\ versions' \subseteq versions /\ requests'[c] = Idle
        /\ crossed \subseteq crossed'
        /\ \A d \in Client \ {c} : requests'[d] = requests[d] /\ known'[d] = known[d]
        /\ known'[c].revision \in {known[c].revision, row.revision}
    BY <1>3, AnswersOnly, EndsOnly
  <2>2. row.revision \in Int
    BY DEF StoreInv, TypeOK, Row
  <2>3. ASSUME NoOverwrite, NEW d \in Client PROVE Carried(d)'
    <3>1. Carried(d)
      BY <2>3 DEF OrderInv
    <3>2. CASE d = c
      BY <2>1, <3>2 DEF Carried
    <3>3. CASE d # c
      BY <2>1, <3>1, <3>3 DEF Carried, Compared, SameOrOlder, Proposed
    <3> QED
      BY <3>2, <3>3
  <2> QED
    BY <2>1, <2>2, <2>3 DEF OrderInv, NoOverwrite, Known
<1>4. ASSUME NEW c \in Client, Commits(c), NoOverwrite' PROVE OrderInv'
  <2>1. /\ NoOverwrite /\ requests[c].read = row
        /\ row' = requests[c].next /\ row'.revision = row.revision + 1
        /\ \A d \in Client \ {c} : requests'[d] = requests[d] /\ known'[d] = known[d]
        /\ row.revision \in Int /\ requests[c] \in Request
    BY <1>4, CommitsOver DEF StoreInv, TypeOK, Row
  <2>2. /\ \/ requests'[c] = Idle
           \/ requests'[c] = [requests[c] EXCEPT !.at = "answer"]
        /\ known'[c] \in {known[c], TagOf(row')}
    BY <1>4, <2>1 DEF Commits, CommitRename, CommitReplace, CommitCreate, CommitRestore,
       Answer, StoreInv, TypeOK
  <2>3. Known'
    BY <2>1, <2>2 DEF OrderInv, Known, TagOf, StoreInv, TypeOK, Tag
  <2>4. Carried(c)'
    BY <2>1, <2>2 DEF Carried, Compared, SameOrOlder, Request
  <2>5. ASSUME NEW d \in Client \ {c} PROVE Carried(d)'
    <3>1. Carried(d)
      BY <2>1 DEF OrderInv
    <3>2. ASSUME requests[d] # Idle, requests[d].at = "read", Proposed(d)
          PROVE Proposed(d)'
      <4>1. CASE versions' = versions
        BY <2>1, <3>2, <4>1 DEF Proposed
      <4>2. CASE CommitCreate(c)
        <5>. DEFINE r == requests[c]
                    new == [id |-> r.version, parent |-> r.read.document.current,
                            document |-> r.read.document]
        <5>1. versions' = versions \cup {new} /\ new.id = requests[c].version
          BY <4>2 DEF CommitCreate
        <5>2. Waiting(d, "restore", "read") => requests[d].version # new.id
          BY <4>2, <5>1 DEF Own, CommitCreate
        <5>. HIDE DEF new
        <5> QED
          BY <2>1, <3>2, <5>1, <5>2 DEF Proposed, Waiting
      <4> QED
        BY <1>4, <4>1, <4>2 DEF Commits, CommitRename, CommitReplace, CommitRestore
    <3>3. requests[d] # Idle => requests[d].read.revision \in Int /\ requests[d].next.revision \in Int
      BY DEF StoreInv, TypeOK, Request, Row
    <3> QED
      BY <2>1, <3>1, <3>2, <3>3 DEF Carried, Compared, SameOrOlder
  <2> QED
    BY <2>3, <2>4, <2>5 DEF OrderInv
<1> QED
  BY <1>1, <1>2, <1>3, <1>4, Kinds DEF OrderInv

-----------------------------------------------------------------------------
(* What a client was answered stays what its ETag names, as long as no     *)
(* commit has overwritten another and no ETag was read late.               *)
LEMMA TagStep == ASSUME StoreInv, OrderInv, TagNamesDocument, [Next]_vars
                 PROVE  TagNamesDocument'
<1>. SUFFICES ASSUME crossed' \subseteq {"deletion"} PROVE TagIsDocument'
  BY DEF TagNamesDocument
<1>1. CASE UNCHANGED vars
  BY <1>1 DEF vars, TagNamesDocument, TagIsDocument
<1>2. ASSUME NEW c \in Client, Reads(c) PROVE TagIsDocument'
  BY <1>2, ReadsOnly DEF TagNamesDocument, TagIsDocument
<1>3. ASSUME NEW c \in Client, Answers(c) PROVE TagIsDocument'
  <2>1. /\ UNCHANGED <<live, row>> /\ crossed \subseteq crossed'
        /\ \A d \in Client \ {c} : known'[d] = known[d]
        /\ known' = [known EXCEPT ![c] = TagOf(row)] \/ AnswerCreate(c)
    BY <1>3, AnswersOnly
  <2>2. known'[c].document = row.document
    <3>1. CASE AnswerCreate(c)
      <4>1. /\ NoOverwrite /\ requests[c].next.revision = row.revision
            /\ known'[c].document = requests[c].next.document
            /\ Waiting(c, "create", "answer")
        BY <3>1, <2>1 DEF AnswerCreate, Answer, Records, Cross, NoOverwrite, StoreInv, TypeOK
      <4> QED
        BY <4>1 DEF Waiting, OrderInv, Carried, SameOrOlder
    <3>2. CASE known' = [known EXCEPT ![c] = TagOf(row)]
      BY <3>2 DEF TagOf, StoreInv, TypeOK
    <3> QED
      BY <2>1, <3>1, <3>2
  <2> QED
    BY <2>1, <2>2 DEF TagNamesDocument, TagIsDocument
<1>4. ASSUME NEW c \in Client, Ends(c) PROVE TagIsDocument'
  BY <1>4, EndsOnly DEF TagNamesDocument, TagIsDocument
<1>5. ASSUME NEW c \in Client, Commits(c) PROVE TagIsDocument'
  <2>1. NoOverwrite'
    BY DEF NoOverwrite
  <2>2. /\ NoOverwrite /\ row' = requests[c].next /\ row'.revision = row.revision + 1
        /\ \A d \in Client \ {c} : known'[d] = known[d]
        /\ row.revision \in Int
    BY <1>5, <2>1, CommitsOver DEF StoreInv, TypeOK, Row
  <2>3. known'[c] \in {known[c], TagOf(row')}
    BY <1>5, <2>2 DEF Commits, CommitRename, CommitReplace, CommitCreate, CommitRestore,
       Answer, StoreInv, TypeOK
  <2>4. \A d \in Client : known[d].revision <= row.revision /\ known[d].revision \in Int
    BY <2>2 DEF OrderInv, Known, StoreInv, TypeOK, Tag
  <2> QED
    BY <2>2, <2>3, <2>4 DEF TagIsDocument, TagOf
<1> QED
  BY <1>1, <1>2, <1>3, <1>4, <1>5, Kinds

(* The current version is there: what a commit that crosses nothing makes  *)
(* current is, and what a deletion that crosses nothing takes is not       *)
(* current.                                                                *)
LEMMA CurrentStep == ASSUME StoreInv, Own, OrderInv, CurrentIsVersion, [Next]_vars
                     PROVE  CurrentIsVersion'
<1>. SUFFICES ASSUME crossed' \subseteq {"answer"} PROVE CurrentExists'
  BY DEF CurrentIsVersion
<1>1. CASE UNCHANGED vars
  BY <1>1 DEF vars, CurrentIsVersion, CurrentExists, Ids
<1>2. ASSUME NEW c \in Client, Reads(c) PROVE CurrentExists'
  BY <1>2, ReadsOnly DEF CurrentIsVersion, CurrentExists, Ids
<1>3. ASSUME NEW c \in Client, Answers(c) PROVE CurrentExists'
  BY <1>3, AnswersOnly DEF CurrentIsVersion, CurrentExists, Ids
<1>4. ASSUME NEW c \in Client, Ends(c) PROVE CurrentExists'
  <2>1. crossed \subseteq crossed'
    BY <1>4, EndsOnly
  <2>2. CASE CommitDeleteVersion(c)
    <3>1. /\ requests[c].read.document.current # requests[c].version
          /\ ~(/\ requests[c].read.document.current # requests[c].version
               /\ row.document.current = requests[c].version)
      BY <2>2 DEF CommitDeleteVersion, Records, Cross, Own
    <3> QED
      BY <2>1, <2>2, <3>1 DEF CommitDeleteVersion, CurrentIsVersion, CurrentExists, Ids
  <2>3. CASE CommitDeleteProject(c) \/ Fail(c)
    BY <2>1, <2>3 DEF CommitDeleteProject, Fail, CurrentIsVersion, CurrentExists, Ids
  <2> QED
    BY <1>4, <2>2, <2>3 DEF Ends
<1>5. ASSUME NEW c \in Client, Commits(c) PROVE CurrentExists'
  <2>1. NoOverwrite'
    BY DEF NoOverwrite
  <2>2. /\ NoOverwrite /\ row' = requests[c].next /\ requests[c].read = row
        /\ crossed \subseteq crossed' /\ live /\ row \in Row
        /\ requests[c] # Idle /\ requests[c].at = "read"
    BY <1>5, <2>1, CommitsOver
       DEF Commits, CommitRename, CommitReplace, CommitCreate, CommitRestore, Waiting,
           StoreInv, TypeOK
  <2>3. Proposed(c) /\ CurrentExists
    BY <2>2 DEF OrderInv, Carried, CurrentIsVersion
  <2>4. CASE CommitRename(c) \/ CommitReplace(c)
    <3>1. row'.document.current = row.document.current /\ versions' = versions
      <4>1. row.document \in Document
        BY <2>2 DEF Row
      <4>2. CASE CommitRename(c)
        <5>0. requests[c].op = "rename"
          BY <4>2 DEF CommitRename, Waiting
        <5>2. PICK n \in Name : requests[c].next =
                After(requests[c].read, [requests[c].read.document EXCEPT !.name = n], n)
          BY <2>3, <5>0 DEF Proposed
        <5>1. row'.document = [row.document EXCEPT !.name = n]
          BY <2>2, <5>2 DEF After
        <5> QED
          BY <4>1, <4>2, <5>1 DEF CommitRename, Document
      <4>3. CASE CommitReplace(c)
        <5>1. row'.document = [row.document EXCEPT !.edit = c, !.name = row.name]
          BY <2>2, <2>3, <4>3 DEF CommitReplace, Waiting, Proposed, After
        <5> QED
          BY <4>1, <4>3, <5>1 DEF CommitReplace, Document
      <4> QED
        BY <2>4, <4>2, <4>3
    <3> QED
      BY <2>2, <2>3, <3>1 DEF CurrentExists, Ids
  <2>5. CASE CommitCreate(c)
    <3>. DEFINE r == requests[c]
                new == [id |-> r.version, parent |-> r.read.document.current,
                        document |-> r.read.document]
    <3>1. new \in versions' /\ new.id = r.version
      BY <2>5 DEF CommitCreate
    <3>2. row'.document.current = r.version
      BY <2>2, <2>3, <2>5 DEF CommitCreate, Waiting, Proposed, After, Row, Document
    <3> QED
      BY <3>1, <3>2 DEF CurrentExists, Ids
  <2>6. CASE CommitRestore(c)
    <3>1. requests[c].version \in Ids /\ versions' = versions
      BY <2>6 DEF CommitRestore, Records, Cross
    <3>2. PICK v \in versions : v.id = requests[c].version
      BY <3>1 DEF Ids
    <3>3. v.document \in Document
      BY DEF StoreInv, TypeOK, Version
    <3>4. row'.document = [v.document EXCEPT !.current = v.id]
      <4>1. requests[c].op = "restore"
        BY <2>6 DEF CommitRestore, Waiting
      <4>2. requests[c].next = After(requests[c].read, [v.document EXCEPT !.current = v.id],
                                     requests[c].read.name)
        BY <2>3, <3>2, <4>1 DEF Proposed
      <4> QED
        BY <2>2, <4>2 DEF After
    <3>5. row'.document.current = v.id
      BY <3>3, <3>4 DEF Document
    <3> QED
      BY <3>1, <3>2, <3>5 DEF CurrentExists, Ids
  <2> QED
    BY <1>5, <2>4, <2>5, <2>6 DEF Commits
<1> QED
  BY <1>1, <1>2, <1>3, <1>4, <1>5, Kinds

LEMMA CrossInvariance == Spec => [](StoreInv /\ CrossInv)
<1>1. ASSUME StoreInv, CrossInv, [Next]_vars PROVE StoreInv' /\ CrossInv'
  BY <1>1, TypeStep, ChosenStep, ParentsStep, OwnStep, OrderStep, TagStep, CurrentStep
     DEF StoreInv, CrossInv
<1>2. Init => StoreInv /\ CrossInv
  BY StoreInit, CrossInit
<1> QED
  BY <1>1, <1>2, PTL DEF Spec

(* However many requests are served at a time, currentVersionId names a    *)
(* version that is there, but for a deletion across a commit or a document *)
(* written back over a newer one.                                          *)
THEOREM CurrentIsVersionHolds == Spec => []CurrentIsVersion
<1>1. CrossInv => CurrentIsVersion
  BY DEF CrossInv
<1> QED
  BY <1>1, CrossInvariance, PTL

(* However many requests are served at a time, an ETag names one document, *)
(* but for a commit over another one or an ETag read late.                 *)
THEOREM TagNamesDocumentHolds == Spec => []TagNamesDocument
<1>1. CrossInv => TagNamesDocument
  BY DEF CrossInv
<1> QED
  BY <1>1, CrossInvariance, PTL

-----------------------------------------------------------------------------
(***************************************************************************)
(* The refinement of ProjectContract up to the first crossing.             *)
(***************************************************************************)

(* A client whose revision is the present one has seen the present row.    *)
LEMMA WriterIsCurrent ==
  ASSUME StoreInv, CrossInv, NEW c \in Client, crossed = {}, live, Matches(c)
  PROVE  Contract!Current(c)
BY DEF StoreInv, TypeOK, Tag, Row, CrossInv, TagNamesDocument, TagIsDocument, Matches,
   Contract!Current, Contract!TagOf

LEMMA CommitIsWrite ==
  ASSUME StoreInv, CrossInv, crossed' = {}, NEW c \in Client, Commits(c)
  PROVE  Contract!Write(c)
<1>1. NoOverwrite'
  BY DEF NoOverwrite
<1>2. /\ live /\ UNCHANGED live /\ crossed = {} /\ Matches(c) /\ NoOverwrite
      /\ requests[c].read = row /\ row' = requests[c].next
      /\ requests[c] # Idle /\ requests[c].at = "read"
  BY <1>1, CommitsOver DEF CrossInv, Commits, CommitRename, CommitReplace, CommitCreate,
     CommitRestore, Waiting
<1>3. Contract!Current(c) /\ Proposed(c)
  BY <1>2, WriterIsCurrent DEF CrossInv, OrderInv, Carried
<1>4. known' \in {known, [known EXCEPT ![c] = TagOf(row')]}
  BY <1>2 DEF Commits, CommitRename, CommitReplace, CommitCreate, CommitRestore, Answer
<1>5. \/ \E n \in Name : Contract!Rename(n)
      \/ Contract!Replace(c)
      \/ \E v \in VersionId : Contract!CreateVersion(v)
      \/ \E v \in versions : Contract!Restore(v)
  <2>1. CASE CommitRename(c)
    BY <1>2, <1>3, <2>1 DEF CommitRename, Waiting, Proposed, After,
       Contract!Rename, Contract!Becomes
  <2>2. CASE CommitReplace(c)
    BY <1>2, <1>3, <2>2 DEF CommitReplace, Waiting, Proposed, After,
       Contract!Replace, Contract!Becomes
  <2>3. CASE CommitCreate(c)
    <3>1. requests[c].version \in VersionId \ Ids
      BY <2>3 DEF CommitCreate, CrossInv, Own, StoreInv, Chosen
    <3> QED
      BY <1>2, <1>3, <2>3, <3>1 DEF CommitCreate, Waiting, Proposed, After, Ids,
         Contract!CreateVersion, Contract!Becomes, Contract!Ids
  <2>4. CASE CommitRestore(c)
    <3>1. requests[c].version \in Ids
      BY <2>4 DEF CommitRestore, Records, Cross
    <3>2. PICK v \in versions : v.id = requests[c].version
      BY <3>1 DEF Ids
    <3> QED
      BY <1>2, <1>3, <2>4, <3>2 DEF CommitRestore, Waiting, Proposed, After,
         Contract!Restore, Contract!Becomes
  <2> QED
    BY <2>1, <2>2, <2>3, <2>4 DEF Commits
<1> QED
  BY <1>2, <1>3, <1>4, <1>5 DEF Contract!Write, Contract!TagOf, TagOf

LEMMA AnswerIsRead ==
  ASSUME StoreInv, CrossInv, crossed' = {}, NEW c \in Client, Answers(c)
  PROVE  Contract!Read(c)
<1>1. /\ live /\ UNCHANGED <<live, row, versions>> /\ crossed = {}
      /\ known' = [known EXCEPT ![c] = TagOf(row)] \/ AnswerCreate(c)
  BY AnswersOnly
<1>2. CASE AnswerCreate(c)
  <2>1. /\ requests[c].next.revision = row.revision /\ Waiting(c, "create", "answer")
        /\ known' = [known EXCEPT ![c] =
             [revision |-> row.revision, document |-> requests[c].next.document]]
    BY <1>2 DEF AnswerCreate, Answer, Records, Cross
  <2>2. requests[c].next.document = row.document
    BY <1>1, <2>1 DEF Waiting, CrossInv, OrderInv, NoOverwrite, Carried, SameOrOlder
  <2> QED
    BY <1>1, <2>1, <2>2 DEF Contract!Read, Contract!TagOf
<1> QED
  BY <1>1, <1>2 DEF Contract!Read, Contract!TagOf, TagOf

Seen == <<live, row, versions, known>>

LEMMA EndIsDeletion ==
  ASSUME StoreInv, CrossInv, crossed' = {}, NEW c \in Client, Ends(c)
  PROVE  [Contract!Next]_Seen
<1>1. crossed = {}
  BY EndsOnly
<1>2. CASE CommitDeleteVersion(c)
  <2>. DEFINE v == requests[c].version
  <2>1. /\ UNCHANGED <<live, row, known>> /\ v \notin Parents
        /\ versions' = {w \in versions : w.id # v}
        /\ row.document.current # v
    BY <1>2 DEF CommitDeleteVersion, Restricted, End, Records, Cross, CrossInv, Own
  <2>2. CASE v \in Ids
    <3>1. live
      BY <2>2 DEF CrossInv, Own, Ids
    <3> QED
      BY <2>1, <2>2, <3>1 DEF Contract!Next, Contract!DeleteVersion, Contract!Ids,
         Contract!Parents, Ids, Parents
  <2>3. CASE v \notin Ids
    BY <2>1, <2>3 DEF Ids, Seen
  <2> QED
    BY <2>2, <2>3
<1>3. CASE CommitDeleteProject(c)
  <2>1. requests[c].read = row /\ live /\ Waiting(c, "deleteProject", "checked")
    BY <1>3 DEF CommitDeleteProject, Records, Overwrites, Cross
  <2>3. Matches(c)
    BY <1>1, <2>1 DEF CrossInv, OrderInv, NoOverwrite, Carried, Compared, Waiting, Matches
  <2>2. Contract!Current(c)
    BY <1>1, <2>1, <2>3, WriterIsCurrent
  <2> QED
    BY <1>3, <2>2 DEF CommitDeleteProject, End, Parents, Contract!Next,
       Contract!DeleteProject, Contract!Parents
<1>4. CASE Fail(c)
  BY <1>4 DEF Fail, End, Seen
<1> QED
  BY <1>2, <1>3, <1>4 DEF Ends

LEMMA ContractStep ==
  ASSUME StoreInv, CrossInv, [Next]_vars, crossed' = {} PROVE [Contract!Next]_Seen
<1>1. CASE UNCHANGED vars
  BY <1>1 DEF vars, Seen
<1>2. ASSUME NEW c \in Client, Reads(c) PROVE UNCHANGED Seen
  BY <1>2, ReadsOnly DEF Seen
<1>3. ASSUME NEW c \in Client, Commits(c) \/ Answers(c) PROVE Contract!Next
  BY <1>3, CommitIsWrite, AnswerIsRead DEF Contract!Next
<1> QED
  BY <1>1, <1>2, <1>3, EndIsDeletion, Kinds

(* However many requests are served at a time, and up to the first of them *)
(* that crosses another: the routes' checks in one transaction and their   *)
(* writes in another implement an atomic compare-and-set of the project.   *)
THEOREM ChecksAreAtomicHolds == Spec => ChecksAreAtomic
<1>. DEFINE Step == crossed' = {} => Contract!Next
<1>1. Init => Contract!Init
  BY DEF Init, TagOf, Contract!Init, Contract!TagOf
<1>2. StoreInv /\ CrossInv /\ [Next]_vars => [Step]_Seen
  BY ContractStep
<1>3. Spec => Contract!Init /\ [][Step]_Seen
  <2>. HIDE DEF Step
  <2> QED
    BY <1>1, <1>2, CrossInvariance, PTL DEF Spec
<1> QED
  BY <1>3 DEF ChecksAreAtomic, Seen
=============================================================================
