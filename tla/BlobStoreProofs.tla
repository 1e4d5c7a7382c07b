--------------------------- MODULE BlobStoreProofs --------------------------
(***************************************************************************)
(* The safety of BlobStore for every set of blobs, projects, publications  *)
(* and collectors.  The inductive invariant says what the lock separates,  *)
(* and what a collector in each phase knows to be still true of the rows it*)
(* has read, because no publication can commit while it holds the lock.    *)
(***************************************************************************)
EXTENDS BlobStore, TLAPS

(* The exclusive holder of the lock is alone.                              *)
LockSeparates ==
  \A c \in Collector : gc[c].pc # "idle" =>
    /\ \A x \in Publisher : ~Publishing(x)
    /\ \A d \in Collector : gc[d].pc # "idle" => c = d

(* A row that a commit inserts is one of a file the publication put.       *)
FreshIsPut ==
  \A x \in Publisher : pub[x].pc = "commit" => pub[x].fresh \subseteq pub[x].put

(* What a pass holds in each phase.                                        *)
PassKnows(c) ==
  /\ gc[c].pc \in {"unlink", "row"} => \A b \in gc[c].todo : Orphan(b)
  /\ gc[c].pc = "row" =>
       /\ \A b \in gc[c].at : Orphan(b)
       /\ gc[c].at \cap gc[c].todo = {}
  /\ gc[c].pc = "sweep" => \A b \in Blob \ gc[c].known : row[b] = "none"

Safe == ReferencesReadable /\ PublicationKept /\ MissingFileIsOrphan

StoreInv ==
  /\ TypeOK
  /\ LockSeparates
  /\ FreshIsPut
  /\ \A c \in Collector : PassKnows(c)
  /\ Safe

-----------------------------------------------------------------------------
(* Types.                                                                  *)

LEMMA TypeStep == TypeOK /\ [Next]_vars => TypeOK'
<1> SUFFICES ASSUME TypeOK, [Next]_vars PROVE TypeOK'
  OBVIOUS
<1> USE DEF TypeOK, Age
<1>1. ASSUME NEW x \in Publisher, NEW p \in Project, NEW B \in SUBSET Blob,
             BeginPublish(x, p, B)
      PROVE  TypeOK'
  BY <1>1 DEF BeginPublish, Publication
<1>2. ASSUME NEW x \in Publisher, NEW b \in Blob, PutBlob(x, b)
      PROVE  TypeOK'
  BY <1>2 DEF PutBlob, Publication
<1>3. ASSUME NEW x \in Publisher, ReadRows(x)
      PROVE  TypeOK'
  <2> DEFINE F == {b \in pub[x].put : row[b] = "none"}
  <2>1. PICK I \in SUBSET {b \in Blob : <<pub[x].project, b>> \in refs} :
          pub' = [pub EXCEPT ![x].pc = "commit", ![x].fresh = F, ![x].inherit = I]
    BY <1>3 DEF ReadRows
  <2>2. I \in SUBSET Blob /\ F \in SUBSET Blob
    BY DEF Publication
  <2> HIDE DEF F
  <2>3. pub' \in [Publisher -> Publication]
    <3>1. [pub[x] EXCEPT !.pc = "commit", !.fresh = F, !.inherit = I] \in Publication
      BY <2>2 DEF Publication
    <3> QED
      BY <2>1, <3>1
  <2> QED
    BY <1>3, <2>3 DEF ReadRows
<1>4. ASSUME NEW x \in Publisher, CommitRefs(x)
      PROVE  TypeOK'
  BY <1>4 DEF CommitRefs, Publication
<1>5. ASSUME NEW x \in Publisher, AbandonPublish(x)
      PROVE  TypeOK'
  BY <1>5 DEF AbandonPublish, Publication
<1>6. ASSUME NEW p \in Project, DeleteProject(p)
      PROVE  TypeOK'
  BY <1>6 DEF DeleteProject
<1>7. ASSUME NEW c \in Collector, PassStep(c) \/ GcLock(c)
      PROVE  TypeOK'
  <2>1. CASE GcLock(c)
    BY <2>1 DEF GcLock, Pass
  <2>2. CASE GcCandidates(c)
    <3>1. PICK B \in SUBSET Blob :
            gc' = [gc EXCEPT ![c].pc = "unlink", ![c].todo = B]
      BY <2>2, Zenon DEF GcCandidates
    <3>2. gc' \in [Collector -> Pass]
      <4>1. [gc[c] EXCEPT !.pc = "unlink", !.todo = B] \in Pass
        BY DEF Pass
      <4> QED
        BY <3>1, <4>1
    <3> QED
      BY <2>2, <3>2 DEF GcCandidates
  <2>3. CASE GcDropRow(c)
    <3>1. gc' \in [Collector -> Pass]
      <4>1. [gc[c] EXCEPT !.pc = "unlink", !.at = {}] \in Pass
        BY DEF Pass
      <4>2. gc' = [gc EXCEPT ![c] = [gc[c] EXCEPT !.pc = "unlink", !.at = {}]]
        BY <2>3 DEF GcDropRow
      <4> QED
        BY <4>1, <4>2
    <3>2. row' \in [Blob -> Age]
      BY <2>3 DEF GcDropRow
    <3> QED
      BY <2>3, <3>1, <3>2 DEF GcDropRow
  <2>4. CASE GcKnown(c)
    <3> DEFINE K == {b \in Blob : row[b] # "none"}
    <3>1. K \in SUBSET Blob
      OBVIOUS
    <3>2. gc' = [gc EXCEPT ![c].pc = "sweep", ![c].todo = Blob, ![c].known = K]
      BY <2>4 DEF GcKnown
    <3> HIDE DEF K
    <3>3. gc' \in [Collector -> Pass]
      <4>1. [gc[c] EXCEPT !.pc = "sweep", !.todo = Blob, !.known = K] \in Pass
        BY <3>1 DEF Pass
      <4> QED
        BY <3>2, <4>1
    <3> QED
      BY <2>4, <3>3 DEF GcKnown
  <2>5. CASE GcDone(c)
    BY <2>5 DEF GcDone, Pass, IdlePass
  <2>6. ASSUME NEW b \in Blob, GcUnlink(c, b) PROVE TypeOK'
    BY <2>6 DEF GcUnlink, Pass
  <2>7. ASSUME NEW b \in Blob, GcSweep(c, b) PROVE TypeOK'
    BY <2>7 DEF GcSweep, Pass
  <2> QED
    BY <1>7, <2>1, <2>2, <2>3, <2>4, <2>5, <2>6, <2>7 DEF PassStep
<1>8. ASSUME NEW c \in Collector, GcAbort(c)
      PROVE  TypeOK'
  BY <1>8, BlobStoreAssumption DEF GcAbort, Pass, IdlePass
<1>9. ASSUME NEW b \in Blob, GrowOld(b)
      PROVE  TypeOK'
  BY <1>9 DEF GrowOld
<1>10. CASE UNCHANGED vars
  BY <1>10 DEF vars
<1> QED
  BY <1>1, <1>2, <1>3, <1>4, <1>5, <1>6, <1>7, <1>8, <1>9, <1>10
     DEF Next, PublisherStep

LEMMA TypeInit == Init => TypeOK
  BY BlobStoreAssumption DEF Init, TypeOK, Age, Publication, Pass, IdlePass

(* Every variable keeps its type.                                          *)
THEOREM TypeCorrect == Spec => []TypeOK
<1>1. Init => TypeOK
  BY TypeInit
<1>2. TypeOK /\ [Next]_vars => TypeOK'
  BY TypeStep
<1> QED
  BY <1>1, <1>2, PTL DEF Spec

-----------------------------------------------------------------------------
(* The inductive invariant.                                                *)

LEMMA InvStep == StoreInv /\ [Next]_vars => StoreInv'
<1> SUFFICES ASSUME StoreInv, [Next]_vars PROVE StoreInv'
  OBVIOUS
<1> TypeOK /\ TypeOK'
  BY TypeStep DEF StoreInv
<1> USE DEF StoreInv, Safe
<1>1. ASSUME NEW x \in Publisher, NEW p \in Project, NEW B \in SUBSET Blob,
             BeginPublish(x, p, B)
      PROVE  StoreInv'
  <2>1. LockSeparates'
    BY <1>1 DEF BeginPublish, MayShare, LockSeparates
  <2>2. FreshIsPut'
    BY <1>1 DEF BeginPublish, MayShare, FreshIsPut
  <2>3. (\A d \in Collector : PassKnows(d))'
    BY <1>1 DEF BeginPublish, MayShare, PassKnows
  <2>4. ReferencesReadable'
    BY <1>1 DEF BeginPublish, MayShare, ReferencesReadable
  <2>5. PublicationKept'
    BY <1>1 DEF BeginPublish, MayShare, PublicationKept, Publishing
  <2>6. MissingFileIsOrphan'
    BY <1>1 DEF BeginPublish, MayShare, MissingFileIsOrphan, Publishing,
       Orphan, Referenced
  <2> QED
    BY <2>1, <2>2, <2>3, <2>4, <2>5, <2>6
<1>2. ASSUME NEW x \in Publisher, NEW b \in Blob, PutBlob(x, b)
      PROVE  StoreInv'
  <2>1. LockSeparates'
    BY <1>2 DEF PutBlob, LockSeparates, Publishing
  <2>2. FreshIsPut'
    BY <1>2 DEF PutBlob, FreshIsPut, TypeOK
  <2>3. (\A d \in Collector : PassKnows(d))'
    BY <1>2 DEF PutBlob, PassKnows, Publishing, Orphan, Referenced
  <2>4. ReferencesReadable'
    BY <1>2 DEF PutBlob, ReferencesReadable
  <2>5. PublicationKept'
    BY <1>2 DEF PutBlob, PublicationKept, TypeOK, Publishing, LockSeparates,
       FreshIsPut
  <2>6. MissingFileIsOrphan'
    BY <1>2 DEF PutBlob, MissingFileIsOrphan, Publishing, Orphan, Referenced
  <2> QED
    BY <2>1, <2>2, <2>3, <2>4, <2>5, <2>6
<1>3. ASSUME NEW x \in Publisher, ReadRows(x)
      PROVE  StoreInv'
  <2> DEFINE F == {b \in pub[x].put : row[b] = "none"}
  <2>7. PICK I \in SUBSET {b \in Blob : <<pub[x].project, b>> \in refs} :
          pub' = [pub EXCEPT ![x].pc = "commit", ![x].fresh = F, ![x].inherit = I]
    BY <1>3 DEF ReadRows
  <2>1. LockSeparates'
    BY <1>3 DEF ReadRows, LockSeparates, Publishing
  <2>2. FreshIsPut'
    <3>1. pub'[x].fresh = F /\ pub'[x].put = pub[x].put
      BY <2>7 DEF TypeOK, Publication
    <3>2. \A y \in Publisher \ {x} : pub'[y] = pub[y]
      BY <2>7 DEF TypeOK
    <3> QED
      BY <3>1, <3>2 DEF FreshIsPut
  <2>3. (\A d \in Collector : PassKnows(d))'
    BY <1>3 DEF ReadRows, PassKnows, Publishing, Orphan, Referenced
  <2>4. ReferencesReadable'
    BY <1>3 DEF ReadRows, ReferencesReadable
  <2>5. PublicationKept'
    <3>1. /\ pub'[x].fresh = F /\ pub'[x].put = pub[x].put
          /\ pub'[x].inherit = I /\ pub'[x].project = pub[x].project
      BY <2>7 DEF TypeOK, Publication
    <3>2. \A y \in Publisher \ {x} : pub'[y] = pub[y]
      BY <2>7 DEF TypeOK
    <3>3. \A b \in pub[x].put : file[b] # "none"
      BY <1>3 DEF ReadRows, PublicationKept, Publishing
    <3> QED
      BY <1>3, <3>1, <3>2, <3>3 DEF ReadRows, PublicationKept, Publishing
  <2>6. MissingFileIsOrphan'
    BY <1>3 DEF ReadRows, MissingFileIsOrphan, Publishing, Orphan, Referenced
  <2> QED
    BY <2>1, <2>2, <2>3, <2>4, <2>5, <2>6
<1>4. ASSUME NEW x \in Publisher, CommitRefs(x)
      PROVE  StoreInv'
  <2>1. LockSeparates'
    BY <1>4 DEF CommitRefs, LockSeparates, Publishing
  <2>2. FreshIsPut'
    BY <1>4 DEF CommitRefs, FreshIsPut
  <2>3. (\A d \in Collector : PassKnows(d))'
    BY <1>4 DEF CommitRefs, PassKnows, TypeOK, Publishing, Orphan, Referenced,
       LockSeparates
  <2>4. ReferencesReadable'
    <3>1. \A b \in pub[x].put : file[b] # "none"
      BY <1>4 DEF CommitRefs, PublicationKept, Publishing
    <3>2. \A b \in pub[x].inherit : file[b] # "none"
      BY <1>4 DEF CommitRefs, PublicationKept, Publishing, ReferencesReadable
    <3>3. pub[x].put \subseteq Blob /\ pub[x].inherit \subseteq Blob
      BY DEF TypeOK, Publication
    <3>4. \A b \in Blob : row[b] # "none" => row'[b] # "none"
      BY <1>4 DEF CommitRefs
    <3>5. \A b \in pub[x].put \cup pub[x].inherit : row'[b] # "none"
      BY <1>4, <3>3 DEF CommitRefs
    <3>6. ASSUME NEW r \in refs' PROVE file'[r[2]] # "none" /\ row'[r[2]] # "none"
      <4>1. CASE r \in refs
        BY <1>4, <4>1, <3>4 DEF ReferencesReadable, CommitRefs, TypeOK
      <4>2. CASE r \in {pub[x].project} \X (pub[x].put \cup pub[x].inherit)
        <5>1. r[2] \in pub[x].put \cup pub[x].inherit
          BY <4>2
        <5> QED
          BY <1>4, <5>1, <3>1, <3>2, <3>5 DEF CommitRefs
      <4> QED
        BY <1>4, <4>1, <4>2 DEF CommitRefs
    <3> QED
      BY <3>6 DEF ReferencesReadable
  <2>5. PublicationKept'
    BY <1>4 DEF CommitRefs, TypeOK, Publication, Pass, Age, PublicationKept,
       Publishing, LockSeparates, FreshIsPut
  <2>6. MissingFileIsOrphan'
    BY <1>4 DEF CommitRefs, MissingFileIsOrphan, TypeOK, Publishing, Orphan,
       Referenced, PublicationKept, FreshIsPut
  <2> QED
    BY <2>1, <2>2, <2>3, <2>4, <2>5, <2>6
<1>5. ASSUME NEW x \in Publisher, AbandonPublish(x)
      PROVE  StoreInv'
  <2>1. LockSeparates'
    BY <1>5 DEF AbandonPublish, LockSeparates
  <2>2. FreshIsPut'
    BY <1>5 DEF AbandonPublish, FreshIsPut
  <2>3. (\A d \in Collector : PassKnows(d))'
    BY <1>5 DEF AbandonPublish, PassKnows, Publishing, Orphan, Referenced
  <2>4. ReferencesReadable'
    BY <1>5 DEF AbandonPublish, ReferencesReadable
  <2>5. PublicationKept'
    BY <1>5 DEF AbandonPublish, PublicationKept, Publishing
  <2>6. MissingFileIsOrphan'
    BY <1>5 DEF AbandonPublish, MissingFileIsOrphan, Publishing, Orphan,
       Referenced
  <2> QED
    BY <2>1, <2>2, <2>3, <2>4, <2>5, <2>6
<1>6. ASSUME NEW p \in Project, DeleteProject(p)
      PROVE  StoreInv'
  <2>1. LockSeparates'
    BY <1>6 DEF DeleteProject, LockSeparates, Publishing
  <2>2. FreshIsPut'
    BY <1>6 DEF DeleteProject, FreshIsPut
  <2>3. (\A d \in Collector : PassKnows(d))'
    BY <1>6 DEF DeleteProject, PassKnows, Publishing, Orphan, Referenced
  <2>4. ReferencesReadable'
    BY <1>6 DEF DeleteProject, ReferencesReadable
  <2>5. PublicationKept'
    BY <1>6 DEF DeleteProject, PublicationKept, Publishing
  <2>6. MissingFileIsOrphan'
    BY <1>6 DEF DeleteProject, MissingFileIsOrphan, Publishing, Orphan,
       Referenced
  <2> QED
    BY <2>1, <2>2, <2>3, <2>4, <2>5, <2>6
<1>7. ASSUME NEW c \in Collector, GcLock(c)
      PROVE  StoreInv'
  <2>1. LockSeparates'
    BY <1>7 DEF GcLock, MayExclude, LockSeparates, Publishing
  <2>2. FreshIsPut'
    BY <1>7 DEF GcLock, MayExclude, FreshIsPut
  <2>3. (\A d \in Collector : PassKnows(d))'
    BY <1>7 DEF GcLock, MayExclude, PassKnows
  <2>4. ReferencesReadable'
    BY <1>7 DEF GcLock, MayExclude, ReferencesReadable
  <2>5. PublicationKept'
    BY <1>7 DEF GcLock, MayExclude, PublicationKept, Publishing
  <2>6. MissingFileIsOrphan'
    BY <1>7 DEF GcLock, MayExclude, MissingFileIsOrphan, Publishing, Orphan,
       Referenced
  <2> QED
    BY <2>1, <2>2, <2>3, <2>4, <2>5, <2>6
<1>8. ASSUME NEW c \in Collector, GcCandidates(c)
      PROVE  StoreInv'
  <2>1. LockSeparates'
    BY <1>8 DEF GcCandidates, LockSeparates, TypeOK, Publishing
  <2>2. FreshIsPut'
    BY <1>8 DEF GcCandidates, FreshIsPut
  <2>3. (\A d \in Collector : PassKnows(d))'
    BY <1>8 DEF GcCandidates, PassKnows, TypeOK, Publishing, Orphan,
       Referenced, LockSeparates
  <2>4. ReferencesReadable'
    BY <1>8 DEF GcCandidates, ReferencesReadable
  <2>5. PublicationKept'
    BY <1>8 DEF GcCandidates, PublicationKept, Publishing
  <2>6. MissingFileIsOrphan'
    BY <1>8 DEF GcCandidates, MissingFileIsOrphan, Publishing, Orphan,
       Referenced
  <2> QED
    BY <2>1, <2>2, <2>3, <2>4, <2>5, <2>6
<1>9. ASSUME NEW c \in Collector, NEW b \in Blob, GcUnlink(c, b)
      PROVE  StoreInv'
  <2>1. LockSeparates'
    BY <1>9 DEF GcUnlink, LockSeparates, TypeOK, Pass, Publication
  <2>2. FreshIsPut'
    BY <1>9 DEF GcUnlink, FreshIsPut
  <2>3. (\A d \in Collector : PassKnows(d))'
    BY <1>9 DEF GcUnlink, PassKnows, TypeOK, Pass, Publication
  <2>4. ReferencesReadable'
    BY <1>9 DEF GcUnlink, ReferencesReadable, TypeOK, Pass, Publication
  <2>5. PublicationKept'
    BY <1>9 DEF GcUnlink, PublicationKept, TypeOK, Pass, Publication
  <2>6. MissingFileIsOrphan'
    BY <1>9 DEF GcUnlink, MissingFileIsOrphan, TypeOK, Pass, Publication
  <2> QED
    BY <2>1, <2>2, <2>3, <2>4, <2>5, <2>6
<1>10. ASSUME NEW c \in Collector, GcDropRow(c)
      PROVE  StoreInv'
  <2>1. LockSeparates'
    BY <1>10 DEF GcDropRow, LockSeparates, TypeOK, Publishing
  <2>2. FreshIsPut'
    BY <1>10 DEF GcDropRow, FreshIsPut
  <2>3. (\A d \in Collector : PassKnows(d))'
    BY <1>10 DEF GcDropRow, TypeOK, Publication, Pass, Age, PassKnows,
       LockSeparates, Publishing, Orphan, Referenced
  <2>4. ReferencesReadable'
    BY <1>10 DEF GcDropRow, ReferencesReadable, TypeOK, Pass, Publication
  <2>5. PublicationKept'
    BY <1>10 DEF GcDropRow, PublicationKept, TypeOK, Publishing,
       LockSeparates, FreshIsPut
  <2>6. MissingFileIsOrphan'
    BY <1>10 DEF GcDropRow, MissingFileIsOrphan, Publishing, Orphan, Referenced
  <2> QED
    BY <2>1, <2>2, <2>3, <2>4, <2>5, <2>6
<1>11. ASSUME NEW c \in Collector, GcKnown(c)
      PROVE  StoreInv'
  <2>1. LockSeparates'
    BY <1>11 DEF GcKnown, LockSeparates, TypeOK, Publishing
  <2>2. FreshIsPut'
    BY <1>11 DEF GcKnown, FreshIsPut
  <2>3. (\A d \in Collector : PassKnows(d))'
    <3> DEFINE K == {b \in Blob : row[b] # "none"}
    <3>1. gc' = [gc EXCEPT ![c].pc = "sweep", ![c].todo = Blob, ![c].known = K]
      BY <1>11 DEF GcKnown
    <3>2. gc'[c].pc = "sweep" /\ gc'[c].known = K
      BY <3>1 DEF TypeOK, Pass
    <3>3. \A d \in Collector \ {c} : gc'[d] = gc[d] /\ gc[d].pc = "idle"
      BY <1>11, <3>1 DEF TypeOK, LockSeparates, GcKnown
    <3> QED
      BY <1>11, <3>2, <3>3 DEF GcKnown, PassKnows
  <2>4. ReferencesReadable'
    BY <1>11 DEF GcKnown, ReferencesReadable
  <2>5. PublicationKept'
    BY <1>11 DEF GcKnown, PublicationKept, Publishing
  <2>6. MissingFileIsOrphan'
    BY <1>11 DEF GcKnown, MissingFileIsOrphan, Publishing, Orphan, Referenced
  <2> QED
    BY <2>1, <2>2, <2>3, <2>4, <2>5, <2>6
<1>12. ASSUME NEW c \in Collector, NEW b \in Blob, GcSweep(c, b)
      PROVE  StoreInv'
  <2>1. LockSeparates'
    BY <1>12 DEF GcSweep, Stray, LockSeparates, TypeOK, Publishing
  <2>2. FreshIsPut'
    BY <1>12 DEF GcSweep, Stray, FreshIsPut
  <2>3. (\A d \in Collector : PassKnows(d))'
    <3>1. gc'[c].pc = "sweep" /\ gc'[c].known = gc[c].known
      BY <1>12 DEF GcSweep, TypeOK, Pass
    <3>2. \A d \in Collector \ {c} : gc'[d] = gc[d] /\ gc[d].pc = "idle"
      BY <1>12 DEF GcSweep, TypeOK, LockSeparates
    <3> QED
      BY <1>12, <3>1, <3>2 DEF GcSweep, PassKnows
  <2>4. ReferencesReadable'
    BY <1>12 DEF GcSweep, Stray, TypeOK, ReferencesReadable, PassKnows,
       Orphan, Referenced
  <2>5. PublicationKept'
    BY <1>12 DEF GcSweep, Stray, PublicationKept, TypeOK, Publishing,
       LockSeparates, FreshIsPut
  <2>6. MissingFileIsOrphan'
    BY <1>12 DEF GcSweep, Stray, TypeOK, MissingFileIsOrphan, PublicationKept,
       FreshIsPut, PassKnows, Orphan, Referenced, Publishing
  <2> QED
    BY <2>1, <2>2, <2>3, <2>4, <2>5, <2>6
<1>13. ASSUME NEW c \in Collector, GcDone(c)
      PROVE  StoreInv'
  <2>1. LockSeparates'
    BY <1>13 DEF GcDone, IdlePass, LockSeparates, Publishing
  <2>2. FreshIsPut'
    BY <1>13 DEF GcDone, IdlePass, FreshIsPut
  <2>3. (\A d \in Collector : PassKnows(d))'
    BY <1>13 DEF GcDone, IdlePass, PassKnows, Publishing, Orphan, Referenced
  <2>4. ReferencesReadable'
    BY <1>13 DEF GcDone, IdlePass, ReferencesReadable
  <2>5. PublicationKept'
    BY <1>13 DEF GcDone, IdlePass, PublicationKept, Publishing
  <2>6. MissingFileIsOrphan'
    BY <1>13 DEF GcDone, IdlePass, MissingFileIsOrphan, Publishing, Orphan,
       Referenced
  <2> QED
    BY <2>1, <2>2, <2>3, <2>4, <2>5, <2>6
<1>14. ASSUME NEW c \in Collector, GcAbort(c)
      PROVE  StoreInv'
  <2>1. LockSeparates'
    BY <1>14 DEF GcAbort, IdlePass, LockSeparates, Publishing
  <2>2. FreshIsPut'
    BY <1>14 DEF GcAbort, IdlePass, FreshIsPut
  <2>3. (\A d \in Collector : PassKnows(d))'
    BY <1>14 DEF GcAbort, IdlePass, PassKnows, Publishing, Orphan, Referenced
  <2>4. ReferencesReadable'
    BY <1>14 DEF GcAbort, IdlePass, ReferencesReadable
  <2>5. PublicationKept'
    BY <1>14 DEF GcAbort, IdlePass, PublicationKept, Publishing
  <2>6. MissingFileIsOrphan'
    BY <1>14 DEF GcAbort, IdlePass, MissingFileIsOrphan, Publishing, Orphan,
       Referenced
  <2> QED
    BY <2>1, <2>2, <2>3, <2>4, <2>5, <2>6
<1>15. ASSUME NEW b \in Blob, GrowOld(b)
      PROVE  StoreInv'
  <2>1. LockSeparates'
    BY <1>15 DEF GrowOld, LockSeparates, Publishing
  <2>2. FreshIsPut'
    BY <1>15 DEF GrowOld, FreshIsPut
  <2>3. (\A d \in Collector : PassKnows(d))'
    BY <1>15 DEF GrowOld, TypeOK, Publication, Pass, Age, PassKnows,
       LockSeparates, Publishing, Orphan, Referenced
  <2>4. ReferencesReadable'
    BY <1>15 DEF GrowOld, ReferencesReadable, TypeOK
  <2>5. PublicationKept'
    BY <1>15 DEF GrowOld, TypeOK, Publication, Pass, Age, PublicationKept,
       Publishing, LockSeparates, FreshIsPut
  <2>6. MissingFileIsOrphan'
    BY <1>15 DEF GrowOld, MissingFileIsOrphan, TypeOK, Publishing, Orphan,
       Referenced, PublicationKept, FreshIsPut
  <2> QED
    BY <2>1, <2>2, <2>3, <2>4, <2>5, <2>6
<1>16. CASE UNCHANGED vars
  BY <1>16 DEF vars, LockSeparates, FreshIsPut, PassKnows, ReferencesReadable,
               PublicationKept, MissingFileIsOrphan, Publishing, Orphan, Referenced
<1> QED
  BY <1>1, <1>2, <1>3, <1>4, <1>5, <1>6, <1>7, <1>8, <1>9, <1>10, <1>11,
     <1>12, <1>13, <1>14, <1>15, <1>16
     DEF Next, PublisherStep, PassStep

LEMMA InvInit == Init => StoreInv
<1> SUFFICES ASSUME Init PROVE StoreInv
  OBVIOUS
<1>1. TypeOK
  BY TypeInit
<1>2. LockSeparates /\ FreshIsPut /\ \A c \in Collector : PassKnows(c)
  BY DEF Init, LockSeparates, FreshIsPut, PassKnows, IdlePass
<1>3. Safe
  BY DEF Init, Safe, ReferencesReadable, PublicationKept, MissingFileIsOrphan,
         Publishing
<1> QED
  BY <1>1, <1>2, <1>3 DEF StoreInv

LEMMA Invariance == Spec => []StoreInv
  BY InvInit, InvStep, PTL DEF Spec

(* However publications, deletions, passes and crashes interleave, every   *)
(* referenced digest has its row and its file.                             *)
THEOREM ReferencesStayReadable == Spec => []ReferencesReadable
<1>1. StoreInv => ReferencesReadable
  BY DEF StoreInv, Safe
<1> QED
  BY <1>1, Invariance, PTL

(* A publication loses nothing of what it put, found or carries forward.   *)
THEOREM PublicationsAreKept == Spec => []PublicationKept
<1>1. StoreInv => PublicationKept
  BY DEF StoreInv, Safe
<1> QED
  BY <1>1, Invariance, PTL

(* An interrupted pass leaves nothing the next one would not take.         *)
THEOREM MissingFilesAreOrphans == Spec => []MissingFileIsOrphan
<1>1. StoreInv => MissingFileIsOrphan
  BY DEF StoreInv, Safe
<1> QED
  BY <1>1, Invariance, PTL

-----------------------------------------------------------------------------
(* Refinement.                                                             *)

Files == {b \in Blob : file[b] # "none"}

LEMMA ContractStep ==
  StoreInv /\ [Next]_vars => [Contract!Next]_(Contract!vars)
<1> SUFFICES ASSUME StoreInv, [Next]_vars
             PROVE  Contract!Next \/ (Files' = Files /\ refs' = refs)
  BY DEF Contract!vars, Files
<1> USE DEF StoreInv, Safe
<1>1. ASSUME NEW x \in Publisher, NEW b \in Blob, PutBlob(x, b)
      PROVE  Contract!Store(b)
  BY <1>1 DEF PutBlob, Contract!Store, TypeOK
<1>2. ASSUME NEW x \in Publisher, CommitRefs(x)
      PROVE  Contract!Next
  <2> DEFINE p == pub[x].project
             B == pub[x].put \cup pub[x].inherit
  <2>1. p \in Project /\ B \in SUBSET Blob
    BY DEF TypeOK, Publication
  <2>2. \A b \in B : file[b] # "none"
    BY <1>2 DEF CommitRefs, PublicationKept, Publishing, ReferencesReadable
  <2>3. Contract!Reference(p, B)
    BY <1>2, <2>1, <2>2 DEF CommitRefs, Contract!Reference
  <2> QED
    BY <2>1, <2>3 DEF Contract!Next
<1>3. ASSUME NEW p \in Project, DeleteProject(p)
      PROVE  Contract!Release(p)
  BY <1>3 DEF DeleteProject, Contract!Release
<1>4. ASSUME NEW c \in Collector, NEW b \in Blob, GcUnlink(c, b)
      PROVE  Contract!Collect(b)
  BY <1>4 DEF GcUnlink, Contract!Collect, PassKnows, Orphan, Referenced, TypeOK
<1>5. ASSUME NEW c \in Collector, NEW b \in Blob, GcSweep(c, b)
      PROVE  Contract!Collect(b) \/ (Files' = Files /\ refs' = refs)
  <2>1. CASE ~Stray(c, b)
    BY <1>5, <2>1 DEF GcSweep, Files
  <2>2. CASE Stray(c, b)
    <3>1. \A r \in refs : r[2] # b
      BY <1>5, <2>2 DEF GcSweep, Stray, PassKnows, ReferencesReadable
    <3> QED
      BY <1>5, <2>2, <3>1 DEF GcSweep, Contract!Collect, TypeOK
  <2> QED
    BY <2>1, <2>2
<1>6. ASSUME NEW b \in Blob, GrowOld(b)
      PROVE  Files' = Files /\ refs' = refs
  BY <1>6 DEF GrowOld, Files, TypeOK
<1>7. ASSUME file' = file, refs' = refs
      PROVE  Files' = Files /\ refs' = refs
  BY <1>7 DEF Files
<1>8. CASE UNCHANGED vars
  BY <1>7, <1>8 DEF vars
<1>9. ASSUME NEW x \in Publisher,
             \/ \E p \in Project, B \in SUBSET Blob : BeginPublish(x, p, B)
             \/ ReadRows(x) \/ AbandonPublish(x)
      PROVE  file' = file /\ refs' = refs
  BY <1>9 DEF BeginPublish, ReadRows, AbandonPublish
<1>10. ASSUME NEW c \in Collector,
              \/ GcLock(c) \/ GcCandidates(c) \/ GcDropRow(c)
              \/ GcKnown(c) \/ GcDone(c) \/ GcAbort(c)
       PROVE  file' = file /\ refs' = refs
  BY <1>10 DEF GcLock, GcCandidates, GcDropRow, GcKnown, GcDone, GcAbort
<1> QED
  BY <1>1, <1>2, <1>3, <1>4, <1>5, <1>6, <1>7, <1>8, <1>9, <1>10
     DEF Next, PublisherStep, PassStep, Contract!Next

(* The store implements the contract: references are made to files that    *)
(* are there, and only unreferenced files go.                              *)
THEOREM StoreKeepsContract == Spec => KeepsContract
<1>1. Init => Contract!Init
  BY DEF Init, Contract!Init
<1>2. StoreInv /\ [Next]_vars => [Contract!Next]_(Contract!vars)
  BY ContractStep
<1> QED
  BY <1>1, <1>2, Invariance, PTL DEF Spec, KeepsContract, Contract!Spec
=============================================================================
