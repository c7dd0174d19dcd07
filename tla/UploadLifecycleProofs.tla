----------------------- MODULE UploadLifecycleProofs -----------------------
(***************************************************************************)
(* Proofs about UploadLifecycle for any number of uploads, objects, tasks  *)
(* and maintenance workers.                                                *)
(***************************************************************************)
EXTENDS UploadLifecycle, FiniteSetTheorems, TLAPS

\* A handler at work has an upload; a collector finishes an entry of its batch.
JobKnown == \A t \in Tasks : pc[t] # "idle" => job[t] \in Uploads
FinishInBatch == \A w \in Workers : wpc[w] = "finish" => cur[w] \in batch[w]

\* Live content comes from a completed session for that very object.
LiveIsCompleted ==
    \A o \in Objects \ deleted : blob_ref[o] # None =>
        state[blob_ref[o]] = "completed" /\ Target[blob_ref[o]] = o

\* A completion works on a session that has been ready.
CompletionAfterReady ==
    \A t \in Tasks : pc[t] \in {"markCompleting", "ensure", "commit"} =>
        state[job[t]] \notin {"absent", "initiating"}

\* A handler about to commit a session that can still commit has its blob.
CommitHasBlob ==
    \A t \in Tasks :
        pc[t] = "commit" /\ state[job[t]] \in {"ready", "completing"} => job[t] \in blobs

\* The inductive invariant.
Safety ==
    /\ JobKnown
    /\ FinishInBatch
    /\ LiveIsCompleted
    /\ CompletionAfterReady
    /\ CommitHasBlob
    /\ CollectedBlobsAreDead
    /\ LiveContentReadable

Inv == TypeOK /\ Safety

\* Every step keeps the types.
LEMMA TypeStep ==
    ASSUME TypeOK, JobKnown, FinishInBatch, [Next]_vars
    PROVE  TypeOK'
<1> USE UploadAssumption DEF TypeOK, JobKnown, FinishInBatch, Active, States,
        objects, uploads, tasks, workers, blobstore
<1>0. CASE UNCHANGED vars
  BY <1>0 DEF vars
<1>1. ASSUME NEW t \in Tasks, NEW u \in Uploads,
             BeginCreate(t, u) \/ BeginComplete(t, u) \/ BeginAbort(t, u)
      PROVE  TypeOK'
  <2>1. \E l \in {"create", "commit", "markCompleting", "providerAbort"},
           p \in ProviderIds \cup {None} : Step(t, l, u, p)
    BY <1>1 DEF BeginCreate, BeginComplete, BeginAbort
  <2>2. UNCHANGED <<objects, uploads, gc, blobstore, urls, workers>>
    BY <1>1 DEF BeginCreate, BeginComplete, BeginAbort
  <2>3. QED
    BY <2>1, <2>2 DEF Step
<1>2. ASSUME NEW t \in Tasks, CreateRecord(t) PROVE TypeOK'
  BY <1>2 DEF InsertRecord, CreateRecord, Step, Return
<1>3. ASSUME NEW t \in Tasks, PrepareUpload(t) PROVE TypeOK'
  BY <1>3 DEF InitiateMultipart, PrepareUpload, Step
<1>4. ASSUME NEW t \in Tasks, MarkReady(t) PROVE TypeOK'
  BY <1>4 DEF MarkReady, Step, Return
<1>5. ASSUME NEW t \in Tasks, MarkCompleting(t) PROVE TypeOK'
  BY <1>5 DEF MarkCompleting, Step, Return
<1>6. ASSUME NEW t \in Tasks, EnsureUploadCompleted(t) PROVE TypeOK'
  BY <1>6 DEF BlobExists, EnsureUploadCompleted, CloseMultipart, Step, Return
<1>7. ASSUME NEW t \in Tasks, CommitContent(t) PROVE TypeOK'
  BY <1>7 DEF CommitContent, Step, Return
<1>8. ASSUME NEW t \in Tasks, ProviderAbort(t) PROVE TypeOK'
  BY <1>8 DEF ProviderAbort, CloseMultipart, Step
<1>9. ASSUME NEW t \in Tasks, AbortRecord(t) PROVE TypeOK'
  BY <1>9 DEF AbortRecord, Enqueue, Step, Return
<1>10. ASSUME NEW t \in Tasks, TaskFails(t) PROVE TypeOK'
  BY <1>10 DEF TaskFails, Step, Return
<1>11. ASSUME NEW w \in Workers, ClaimExpired(w) PROVE TypeOK'
  BY <1>11 DEF ClaimExpired, BatchOf, Enqueue
<1>12. ASSUME NEW w \in Workers, AbortExpired(w) PROVE TypeOK'
  BY <1>12 DEF AbortExpired, CloseMultipart
<1>13. ASSUME NEW w \in Workers, ExpiryDone(w) \/ CollectionDone(w) PROVE TypeOK'
  BY <1>13 DEF ExpiryDone, CollectionDone
<1>14. ASSUME NEW w \in Workers, ClaimGc(w) PROVE TypeOK'
  BY <1>14 DEF ClaimGc, BatchOf
<1>15. ASSUME NEW w \in Workers, DeleteBlob(w) PROVE TypeOK'
  BY <1>15 DEF DeleteBlob
<1>16. ASSUME NEW w \in Workers, FailGc(w) PROVE TypeOK'
  BY <1>16 DEF FailGc
<1>17. ASSUME NEW w \in Workers, FinishGc(w) PROVE TypeOK'
  BY <1>17 DEF FinishGc
<1>18. ASSUME NEW w \in Workers, PassFails(w) PROVE TypeOK'
  BY <1>18 DEF PassFails
<1>19. ASSUME NEW u \in Uploads, AllocateParts(u) \/ ComesDue(u) PROVE TypeOK'
  BY <1>19 DEF AllocateParts, ComesDue
<1>20. ASSUME NEW u \in Uploads, NEW p \in ProviderIds \cup {None}, ClientPut(u, p)
       PROVE  TypeOK'
  BY <1>20 DEF ClientPut
<1>21. ASSUME NEW o \in Objects, DeleteObject(o) PROVE TypeOK'
  BY <1>21 DEF DeleteObject, Enqueue
<1>22. QED
  BY <1>0, <1>1, <1>2, <1>3, <1>4, <1>5, <1>6, <1>7, <1>8, <1>9, <1>10, <1>11,
     <1>12, <1>13, <1>14, <1>15, <1>16, <1>17, <1>18, <1>19, <1>20, <1>21
     DEF Next, TaskStep, WorkerStep

\* Every step keeps the safety part of the invariant.
LEMMA SafetyStep ==
    ASSUME Inv, TypeOK', [Next]_vars
    PROVE  Safety'
<1> USE UploadAssumption DEF Inv, Safety, TypeOK, JobKnown, FinishInBatch,
        LiveIsCompleted, CompletionAfterReady, CommitHasBlob, CollectedBlobsAreDead,
        LiveContentReadable, Live, Active, States, objects, uploads, tasks, workers, blobstore
<1>0. CASE UNCHANGED vars
  BY <1>0 DEF vars
<1>1. ASSUME NEW t \in Tasks, NEW u \in Uploads, BeginCreate(t, u) PROVE Safety'
  BY <1>1 DEF BeginCreate, Step
<1>2. ASSUME NEW t \in Tasks, NEW u \in Uploads, BeginComplete(t, u) PROVE Safety'
  BY <1>2 DEF BeginComplete, Step
<1>3. ASSUME NEW t \in Tasks, NEW u \in Uploads, BeginAbort(t, u) PROVE Safety'
  BY <1>3 DEF BeginAbort, Step
<1>4. ASSUME NEW t \in Tasks, CreateRecord(t) PROVE Safety'
  BY <1>4 DEF InsertRecord, CreateRecord, Step, Return
<1>5. ASSUME NEW t \in Tasks, PrepareUpload(t) PROVE Safety'
  BY <1>5 DEF InitiateMultipart, PrepareUpload, Step
<1>6. ASSUME NEW t \in Tasks, MarkReady(t) PROVE Safety'
  <2>1. job[t] \in Uploads
    BY <1>6 DEF MarkReady
  <2>2. \A u \in Uploads :
           \/ state'[u] = state[u]
           \/ state[u] \in {"initiating", "ready"} /\ state'[u] = "ready"
    <3>1. CASE /\ state[job[t]] \in {"initiating", "ready"}
               /\ state' = [state EXCEPT ![job[t]] = "ready"]
      BY <2>1, <3>1
    <3>2. CASE UNCHANGED state
      BY <3>2
    <3> QED
      BY <1>6, <3>1, <3>2 DEF MarkReady
  <2>3. Return(t) /\ UNCHANGED <<objects, gc, blobstore, workers>>
    BY <1>6 DEF MarkReady
  <2>4. CommitHasBlob'
    <3> SUFFICES ASSUME NEW s \in Tasks, pc'[s] = "commit",
                        state'[job'[s]] \in {"ready", "completing"}
                 PROVE  job'[s] \in blobs'
      OBVIOUS
    <3>1. s # t /\ pc[s] = "commit" /\ job'[s] = job[s] /\ job[s] \in Uploads
      BY <2>3 DEF Return, Step
    <3>2. state[job[s]] \in {"ready", "completing"}
      BY <2>2, <3>1
    <3> QED
      BY <2>3, <3>1, <3>2
  <2>5. QED
    BY <2>1, <2>2, <2>3, <2>4 DEF Return, Step
<1>7. ASSUME NEW t \in Tasks, MarkCompleting(t) PROVE Safety'
  BY <1>7 DEF MarkCompleting, Step, Return
<1>8. ASSUME NEW t \in Tasks, EnsureUploadCompleted(t) PROVE Safety'
  BY <1>8 DEF BlobExists, EnsureUploadCompleted, CloseMultipart, Step, Return
<1>9. ASSUME NEW t \in Tasks, CommitContent(t) PROVE Safety'
  <2> DEFINE u == job[t]
             o == Target[u]
             old == blob_ref[o]
  <2>1. u \in Uploads /\ o \in Objects
    BY <1>9 DEF CommitContent
  <2>2. Return(t) /\ UNCHANGED <<deleted, provider_upload_id, blobstore, urls, workers>>
    BY <1>9 DEF CommitContent
  <2>3. CASE UNCHANGED <<state, blob_ref, gc>>
    BY <2>2, <2>3 DEF Return, Step
  <2>4. CASE /\ state[u] \in {"ready", "completing"} /\ o \notin deleted
             /\ state' = [state EXCEPT ![u] = "completed"]
             /\ blob_ref' = [blob_ref EXCEPT ![o] = u]
             /\ gc' = [v \in Uploads |-> CASE v = u -> "none"
                                           [] v # u /\ v = old /\ gc[v] = "none" -> "later"
                                           [] OTHER -> gc[v]]
    <3>1. u \in blobs
      BY <1>9, <2>4 DEF CommitContent
    <3>2. \A x \in Objects \ {o} : x \notin deleted => blob_ref[x] # u
      BY <2>1, <2>4
    <3>3. LiveIsCompleted' /\ LiveContentReadable'
      BY <2>1, <2>2, <2>4, <3>1, <3>2
    <3>4. CommitHasBlob' /\ CompletionAfterReady' /\ JobKnown' /\ FinishInBatch'
      BY <2>1, <2>2, <2>4 DEF Return, Step
    <3>5. CollectedBlobsAreDead'
      <4> SUFFICES ASSUME NEW v \in Uploads,
                          gc'[v] # "none"
                            \/ \E w \in Workers : wpc'[w] \in {"delete", "finish"}
                                                    /\ v \in batch'[w]
                   PROVE  state'[v] \in {"completed", "aborted", "expired"} /\ ~Live(v)'
        BY DEF CollectedBlobsAreDead
      <4>1. v # u
        BY <2>1, <2>2, <2>4
      <4>2. CASE v = old
        BY <2>1, <2>2, <2>4, <4>1, <4>2
      <4>3. CASE v # old
        <5>1. gc[v] # "none" \/ \E w \in Workers : wpc[w] \in {"delete", "finish"}
                                                   /\ v \in batch[w]
          BY <2>2, <2>4, <4>1, <4>3
        <5>2. state[v] \in {"completed", "aborted", "expired"} /\ ~Live(v)
          BY <5>1
        <5> QED
          BY <2>1, <2>2, <2>4, <4>1, <5>2
      <4> QED
        BY <4>2, <4>3
    <3> QED
      BY <3>3, <3>4, <3>5
  <2> QED
    BY <1>9, <2>3, <2>4 DEF CommitContent
<1>10. ASSUME NEW t \in Tasks, ProviderAbort(t) PROVE Safety'
  BY <1>10 DEF ProviderAbort, CloseMultipart, Step
<1>11. ASSUME NEW t \in Tasks, AbortRecord(t) PROVE Safety'
  BY <1>11 DEF AbortRecord, Enqueue, Step, Return
<1>12. ASSUME NEW t \in Tasks, TaskFails(t) PROVE Safety'
  BY <1>12 DEF TaskFails, Step, Return
<1>13. ASSUME NEW w \in Workers, ClaimExpired(w) PROVE Safety'
  BY <1>13 DEF ClaimExpired, BatchOf, Enqueue
<1>14. ASSUME NEW w \in Workers, AbortExpired(w) PROVE Safety'
  BY <1>14 DEF AbortExpired, CloseMultipart
<1>15. ASSUME NEW w \in Workers, ExpiryDone(w) PROVE Safety'
  BY <1>15 DEF ExpiryDone
<1>16. ASSUME NEW w \in Workers, ClaimGc(w) PROVE Safety'
  BY <1>16 DEF ClaimGc, BatchOf
<1>17. ASSUME NEW w \in Workers, DeleteBlob(w) PROVE Safety'
  BY <1>17 DEF DeleteBlob
<1>18. ASSUME NEW w \in Workers, FailGc(w) PROVE Safety'
  BY <1>18 DEF FailGc
<1>19. ASSUME NEW w \in Workers, FinishGc(w) PROVE Safety'
  BY <1>19 DEF FinishGc
<1>20. ASSUME NEW w \in Workers, CollectionDone(w) PROVE Safety'
  BY <1>20 DEF CollectionDone
<1>21. ASSUME NEW w \in Workers, PassFails(w) PROVE Safety'
  BY <1>21 DEF PassFails
<1>22. ASSUME NEW u \in Uploads, AllocateParts(u) PROVE Safety'
  BY <1>22 DEF AllocateParts
<1>23. ASSUME NEW u \in Uploads, ComesDue(u) PROVE Safety'
  BY <1>23 DEF ComesDue
<1>24. ASSUME NEW u \in Uploads, NEW p \in ProviderIds \cup {None}, ClientPut(u, p) PROVE Safety'
  BY <1>24 DEF ClientPut
<1>25. ASSUME NEW o \in Objects, DeleteObject(o) PROVE Safety'
  BY <1>25 DEF DeleteObject, Enqueue
<1>26. QED
  BY <1>0, <1>1, <1>2, <1>3, <1>4, <1>5, <1>6, <1>7, <1>8, <1>9, <1>10, <1>11, <1>12, <1>13, <1>14, <1>15, <1>16, <1>17, <1>18, <1>19, <1>20, <1>21, <1>22, <1>23, <1>24, <1>25
     DEF Next, TaskStep, WorkerStep

\* The inductive invariant holds in every behaviour.
THEOREM Invariance == Spec => []Inv
<1>1. Init => Inv
  BY UploadAssumption DEF Init, Inv, Safety, TypeOK, JobKnown, FinishInBatch,
     LiveIsCompleted, CompletionAfterReady, CommitHasBlob, CollectedBlobsAreDead,
     LiveContentReadable, Live, Active, States
<1>2. Inv /\ [Next]_vars => Inv'
  BY TypeStep, SafetyStep DEF Inv, Safety
<1>3. QED
  BY <1>1, <1>2, PTL DEF Spec

\* The variables keep their types.
THEOREM TypeCorrect == Spec => []TypeOK
<1>1. Inv => TypeOK
  BY DEF Inv
<1>2. QED
  BY Invariance, <1>1, PTL

\* Garbage collection, expiry, aborts and completions of any number of sessions
\* never leave a live object pointing at a blob the provider no longer holds.
THEOREM LiveContentIsReadable == Spec => []LiveContentReadable
<1>1. Inv => LiveContentReadable
  BY DEF Inv, Safety
<1>2. QED
  BY Invariance, <1>1, PTL

\* What the collector holds or is about to claim can never become content.
THEOREM CollectedIsDead == Spec => []CollectedBlobsAreDead
<1>1. Inv => CollectedBlobsAreDead
  BY DEF Inv, Safety
<1>2. QED
  BY Invariance, <1>1, PTL

\* No step of any request or pass revives a session that ended.
THEOREM EndedStaysEnded == Spec => EndedSessionsStayEnded
<1> DEFINE Stays == \A u \in Uploads :
               /\ state[u] = "completed" => state'[u] = "completed"
               /\ state[u] \in {"aborted", "expired"} => state'[u] \in {"aborted", "expired"}
<1>1. Inv /\ [Next]_vars => [Stays]_vars
  <2> SUFFICES ASSUME Inv, Next PROVE Stays
    OBVIOUS
  <2> USE DEF Inv, Safety, TypeOK, JobKnown, Active
  <2>1. ASSUME NEW t \in Tasks,
               \/ CreateRecord(t) \/ MarkReady(t) \/ MarkCompleting(t)
               \/ CommitContent(t) \/ AbortRecord(t)
        PROVE  Stays
    BY <2>1 DEF InsertRecord, CreateRecord, MarkReady, MarkCompleting, CommitContent, AbortRecord, uploads
  <2>2. ASSUME NEW w \in Workers, ClaimExpired(w) PROVE Stays
    BY <2>2 DEF ClaimExpired, BatchOf
  <2>3. CASE UNCHANGED state
    BY <2>3
  <2>4. QED
    BY <2>1, <2>2, <2>3 DEF Next, TaskStep, WorkerStep, BeginCreate, BeginComplete, BeginAbort,
       PrepareUpload, EnsureUploadCompleted, ProviderAbort, TaskFails, AbortExpired, ExpiryDone,
       ClaimGc, DeleteBlob, FailGc, FinishGc, CollectionDone, PassFails, AllocateParts, ComesDue,
       ClientPut, DeleteObject, uploads
<1>2. QED
  BY Invariance, <1>1, PTL DEF Spec, EndedSessionsStayEnded

\* A collector that is about to drop an entry has deleted its blob.
FinishedIsCollected == \A w \in Workers : wpc[w] = "finish" => cur[w] \in collected

\* Every step keeps the committed blobs that are no content on the queue.
LEMMA QueueStep ==
    ASSUME Inv, SupersededContentQueued, FinishedIsCollected, [Next]_vars
    PROVE  SupersededContentQueued' /\ FinishedIsCollected'
<1> DEFINE Kept == SupersededContentQueued' /\ FinishedIsCollected'
<1> USE UploadAssumption DEF Inv, Safety, TypeOK, JobKnown, FinishInBatch,
        SupersededContentQueued, FinishedIsCollected, Live, Active, States,
        objects, uploads, tasks, workers, blobstore
<1>0. CASE UNCHANGED vars
  BY <1>0 DEF vars
<1>1. CASE UNCHANGED <<state, blob_ref, deleted, gc, wpc, cur, collected>>
  BY <1>1
<1>2. ASSUME NEW t \in Tasks, CreateRecord(t) PROVE Kept
  BY <1>2 DEF InsertRecord, CreateRecord
<1>3. ASSUME NEW t \in Tasks, MarkReady(t) PROVE Kept
  BY <1>3 DEF MarkReady
<1>4. ASSUME NEW t \in Tasks, MarkCompleting(t) PROVE Kept
  BY <1>4 DEF MarkCompleting
<1>5. ASSUME NEW t \in Tasks, CommitContent(t) PROVE Kept
  <2> DEFINE u == job[t]
             o == Target[u]
             old == blob_ref[o]
  <2>1. u \in Uploads /\ o \in Objects
    BY <1>5 DEF CommitContent
  <2>2. UNCHANGED <<deleted, wpc, cur, collected>>
    BY <1>5 DEF CommitContent
  <2>3. CASE UNCHANGED <<state, blob_ref, gc>>
    BY <2>2, <2>3
  <2>4. CASE /\ o \notin deleted
             /\ state' = [state EXCEPT ![u] = "completed"]
             /\ blob_ref' = [blob_ref EXCEPT ![o] = u]
             /\ gc' = [v \in Uploads |-> CASE v = u -> "none"
                                           [] v # u /\ v = old /\ gc[v] = "none" -> "later"
                                           [] OTHER -> gc[v]]
    <3> SUFFICES ASSUME NEW v \in Uploads, state'[v] = "completed", ~Live(v)'
                 PROVE  gc'[v] # "none" \/ v \in collected'
      BY <2>2
    <3>1. v # u
      BY <2>1, <2>2, <2>4
    <3>2. CASE v = old
      BY <2>4, <3>1, <3>2
    <3>3. CASE v # old
      <4>1. state[v] = "completed" /\ ~Live(v)
        BY <2>1, <2>2, <2>4, <3>1, <3>3
      <4>2. gc'[v] = gc[v]
        BY <2>4, <3>1, <3>3
      <4> QED
        BY <2>2, <4>1, <4>2
    <3> QED
      BY <3>2, <3>3
  <2> QED
    BY <1>5, <2>3, <2>4 DEF CommitContent
<1>6. ASSUME NEW t \in Tasks, AbortRecord(t) PROVE Kept
  BY <1>6 DEF AbortRecord, Enqueue
<1>7. ASSUME NEW w \in Workers, ClaimExpired(w) PROVE Kept
  BY <1>7 DEF ClaimExpired, BatchOf, Enqueue
<1>8. ASSUME NEW w \in Workers, ClaimGc(w) PROVE Kept
  BY <1>8 DEF ClaimGc, BatchOf
<1>9. ASSUME NEW w \in Workers, DeleteBlob(w) PROVE Kept
  BY <1>9 DEF DeleteBlob
<1>10. ASSUME NEW w \in Workers, FailGc(w) PROVE Kept
  BY <1>10 DEF FailGc
<1>11. ASSUME NEW w \in Workers, FinishGc(w) PROVE Kept
  BY <1>11 DEF FinishGc
<1>12. ASSUME NEW w \in Workers, ExpiryDone(w) \/ CollectionDone(w) \/ PassFails(w) PROVE Kept
  BY <1>12 DEF ExpiryDone, CollectionDone, PassFails
<1>13. ASSUME NEW u \in Uploads, ComesDue(u) PROVE Kept
  BY <1>13 DEF ComesDue
<1>14. ASSUME NEW o \in Objects, DeleteObject(o) PROVE Kept
  BY <1>14 DEF DeleteObject, Enqueue
<1>15. QED
  BY <1>0, <1>1, <1>2, <1>3, <1>4, <1>5, <1>6, <1>7, <1>8, <1>9, <1>10, <1>11, <1>12,
     <1>13, <1>14
     DEF Next, TaskStep, WorkerStep, BeginCreate, BeginComplete, BeginAbort, PrepareUpload,
         EnsureUploadCompleted, ProviderAbort, TaskFails, AbortExpired, AllocateParts,
         ClientPut

\* No committed blob is forgotten: content that was replaced, or whose object
\* was deleted, stays on the queue until a collector has deleted it.
THEOREM SupersededIsQueued == Spec => []SupersededContentQueued
<1> DEFINE IInv == SupersededContentQueued /\ FinishedIsCollected
<1>1. Init => IInv
  BY DEF Init, SupersededContentQueued, FinishedIsCollected
<1>2. Inv /\ IInv /\ [Next]_vars => IInv'
  BY QueueStep
<1>3. QED
  BY Invariance, <1>1, <1>2, PTL DEF Spec

\* A batch is a part of what was claimed, of at most BatchSize.
LEMMA BatchBound ==
    ASSUME NEW S \in SUBSET Uploads, NEW B \in BatchOf(S)
    PROVE  B \subseteq S /\ Cardinality(B) <= BatchSize
<1>1. Cardinality(S) \in Nat
  BY UploadAssumption, FS_Subset, FS_CardinalityType
<1>2. QED
  BY <1>1, UploadAssumption DEF BatchOf

\* An abort works on a session that exists.
AbortOfRecord ==
    \A t \in Tasks : pc[t] \in {"providerAbort", "abortRecord"} => state[job[t]] # "absent"

\* No step takes a session record away.
LEMMA RecordsStay ==
    ASSUME Inv, [Next]_vars, NEW u \in Uploads, state[u] # "absent"
    PROVE  state'[u] # "absent"
<1> USE DEF Inv, Safety, TypeOK, JobKnown, objects, uploads, tasks, workers, blobstore
<1>1. CASE UNCHANGED state
  BY <1>1
<1>2. ASSUME NEW t \in Tasks,
             CreateRecord(t) \/ MarkReady(t) \/ MarkCompleting(t) \/ CommitContent(t)
                \/ AbortRecord(t)
      PROVE  state'[u] # "absent"
  BY <1>2 DEF InsertRecord, CreateRecord, MarkReady, MarkCompleting, CommitContent, AbortRecord
<1>3. ASSUME NEW w \in Workers, ClaimExpired(w) PROVE state'[u] # "absent"
  <2>1. \E B : state' = [v \in Uploads |-> IF v \in B THEN "expired" ELSE state[v]]
    BY <1>3 DEF ClaimExpired
  <2>2. QED
    BY <2>1
<1>4. QED
  BY <1>1, <1>2, <1>3
     DEF vars, Next, TaskStep, WorkerStep, BeginCreate, BeginComplete, BeginAbort, PrepareUpload,
         EnsureUploadCompleted, ProviderAbort, TaskFails, AbortExpired, ExpiryDone,
         DeleteBlob, CollectionDone, PassFails, AllocateParts, ClientPut, ClaimGc, FailGc,
         FinishGc, ComesDue, DeleteObject

LEMMA AbortStep ==
    ASSUME Inv, AbortOfRecord, [Next]_vars
    PROVE  AbortOfRecord'
<1> SUFFICES ASSUME NEW t \in Tasks, pc'[t] \in {"providerAbort", "abortRecord"}
             PROVE  state'[job'[t]] # "absent"
  BY DEF AbortOfRecord
<1> USE DEF Inv, Safety, TypeOK, JobKnown
<1>1. \/ job'[t] = job[t] /\ pc[t] \in {"providerAbort", "abortRecord"}
      \/ \E u \in Uploads : BeginAbort(t, u)
  <2>1. CASE UNCHANGED tasks
    BY <2>1 DEF tasks
  <2>2. ASSUME NEW x \in Tasks, TaskStep(x) \/ TaskFails(x)
        PROVE  job'[t] = job[t] /\ pc[t] \in {"providerAbort", "abortRecord"}
    <3>1. CASE x = t
      BY <2>2, <3>1 DEF TaskStep, TaskFails, CreateRecord, PrepareUpload, MarkReady,
         MarkCompleting, EnsureUploadCompleted, CommitContent, ProviderAbort, AbortRecord,
         Step, Return
    <3>2. CASE x # t
      <4>1. \E l, u, p : Step(x, l, u, p)
        BY <2>2 DEF TaskStep, TaskFails, CreateRecord, PrepareUpload, MarkReady,
           MarkCompleting, EnsureUploadCompleted, CommitContent, ProviderAbort, AbortRecord,
           Return
      <4>2. QED
        BY <3>2, <4>1 DEF Step
    <3>3. QED
      BY <3>1, <3>2
  <2>3. ASSUME NEW x \in Tasks, NEW u \in Uploads,
               BeginCreate(x, u) \/ BeginComplete(x, u) \/ BeginAbort(x, u)
        PROVE  \/ job'[t] = job[t] /\ pc[t] \in {"providerAbort", "abortRecord"}
               \/ BeginAbort(t, u)
    BY <2>3 DEF BeginCreate, BeginComplete, BeginAbort, Step
  <2>4. QED
    BY <2>1, <2>2, <2>3
       DEF vars, tasks, Next, WorkerStep, ClaimExpired, AbortExpired, ExpiryDone, ClaimGc,
           DeleteBlob, FailGc, FinishGc, CollectionDone, PassFails, AllocateParts, ComesDue,
           ClientPut, DeleteObject
<1>2. CASE job'[t] = job[t] /\ pc[t] \in {"providerAbort", "abortRecord"}
  BY <1>2, RecordsStay DEF AbortOfRecord
<1>3. ASSUME NEW u \in Uploads, BeginAbort(t, u) PROVE state'[job'[t]] # "absent"
  <2>1. job'[t] = u /\ state[u] # "absent"
    BY <1>3 DEF BeginAbort, Step
  <2>2. QED
    BY <2>1, RecordsStay
<1>4. QED
  BY <1>1, <1>2, <1>3

\* Every step of a request, a pass, a client or the clock is one operation of
\* the store, or none.
LEMMA StoreStep ==
    ASSUME Inv, AbortOfRecord, [Next]_vars
    PROVE  [Store!Next]_Store!vars
<1> USE UploadAssumption DEF Inv, Safety, TypeOK, JobKnown, FinishInBatch, Active, States,
        objects, uploads, tasks, workers, blobstore, Store!vars
<1>0. CASE UNCHANGED <<blob_ref, deleted, state, provider_upload_id, gc>>
  BY <1>0
<1>1. ASSUME NEW t \in Tasks, CreateRecord(t) PROVE [Store!Next]_Store!vars
  <2>1. Store!create_upload_record(job[t]) \/ UNCHANGED state
    BY <1>1 DEF InsertRecord, CreateRecord, Store!create_upload_record
  <2>2. job[t] \in Uploads /\ UNCHANGED <<blob_ref, deleted, provider_upload_id, gc>>
    BY <1>1 DEF InsertRecord, CreateRecord
  <2>3. QED
    BY <2>1, <2>2 DEF Store!Next
<1>2. ASSUME NEW t \in Tasks, MarkReady(t) PROVE [Store!Next]_Store!vars
  <2>1. job[t] \in Uploads /\ pid[t] \in ProviderIds \cup {None}
    BY <1>2 DEF MarkReady
  <2>2. Store!update_upload_state(job[t], "ready", pid[t]) \/ UNCHANGED <<blob_ref, deleted, state, provider_upload_id, gc>>
    BY <1>2 DEF MarkReady, Store!update_upload_state, Store!transition_allowed
  <2>3. QED
    BY <2>1, <2>2 DEF Store!Next
<1>3. ASSUME NEW t \in Tasks, MarkCompleting(t) PROVE [Store!Next]_Store!vars
  <2>1. job[t] \in Uploads
    BY <1>3 DEF MarkCompleting
  <2>2. provider_upload_id = [provider_upload_id EXCEPT ![job[t]] = IF None = None THEN @ ELSE None]
    BY <2>1
  <2>3. \/ Store!update_upload_state(job[t], "completing", None)
        \/ UNCHANGED <<blob_ref, deleted, state, provider_upload_id, gc>>
    BY <1>3, <2>2 DEF MarkCompleting, Store!update_upload_state, Store!transition_allowed
  <2>4. QED
    BY <2>1, <2>3 DEF Store!Next
<1>4. ASSUME NEW t \in Tasks, CommitContent(t) PROVE [Store!Next]_Store!vars
  <2>1. job[t] \in Uploads
    BY <1>4 DEF CommitContent
  <2>2. CASE UNCHANGED <<state, blob_ref, gc>>
    BY <1>4, <2>2 DEF CommitContent
  <2>3. CASE ~UNCHANGED <<state, blob_ref, gc>>
    <3>1. /\ state[job[t]] \in {"ready", "completing"} /\ Target[job[t]] \notin deleted
          /\ state' = [state EXCEPT ![job[t]] = "completed"]
          /\ blob_ref' = [blob_ref EXCEPT ![Target[job[t]]] = job[t]]
          /\ gc' = [v \in Uploads |->
                CASE v = job[t] -> "none"
                  [] v # job[t] /\ v = blob_ref[Target[job[t]]] /\ gc[v] = "none" -> "later"
                  [] OTHER -> gc[v]]
          /\ UNCHANGED <<deleted, provider_upload_id>>
      BY <1>4, <2>3 DEF CommitContent
    <3>2. gc' = [v \in Uploads |->
             IF v = job[t] THEN "none"
             ELSE IF v = blob_ref[Target[job[t]]] /\ gc[v] = "none" THEN "later" ELSE gc[v]]
      BY <3>1
    <3>3. Store!commit_content(job[t])
      BY <3>1, <3>2 DEF Store!commit_content, Store!is_live
    <3>4. QED
      BY <2>1, <3>3 DEF Store!Next
  <2>4. QED
    BY <2>2, <2>3
<1>5. ASSUME NEW t \in Tasks, AbortRecord(t) PROVE [Store!Next]_Store!vars
  <2>1. job[t] \in Uploads
    BY <1>5 DEF AbortRecord
  <2>2. Store!abort_upload_record(job[t]) \/ UNCHANGED <<state, gc>>
    BY <1>5 DEF AbortRecord, AbortOfRecord, Enqueue, Store!abort_upload_record, Store!enqueue_gc
  <2>3. QED
    BY <1>5, <2>1, <2>2 DEF Store!Next, AbortRecord
<1>6. ASSUME NEW w \in Workers, ClaimExpired(w) PROVE [Store!Next]_Store!vars
  <2>1. PICK overdue \in SUBSET {u \in Uploads : state[u] \in Active} :
            \E B \in BatchOf(overdue) :
               /\ state' = [u \in Uploads |-> IF u \in B THEN "expired" ELSE state[u]]
               /\ Enqueue(B, "due")
    BY <1>6 DEF ClaimExpired
  <2>2. PICK B \in BatchOf(overdue) :
            /\ state' = [u \in Uploads |-> IF u \in B THEN "expired" ELSE state[u]]
            /\ Enqueue(B, "due")
    BY <2>1
  <2>3. B \subseteq overdue /\ Cardinality(B) <= BatchSize
    BY BatchBound
  <2>4. Store!claim_expired_uploads(B)
    <3>1. UNCHANGED <<blob_ref, deleted, provider_upload_id>>
      BY <1>6 DEF ClaimExpired
    <3>2. QED
      BY <2>2, <2>3, <3>1 DEF Enqueue, Store!claim_expired_uploads, Store!enqueue_gc
  <2>5. QED
    BY <2>3, <2>4 DEF Store!Next
<1>7. ASSUME NEW w \in Workers, ClaimGc(w) PROVE [Store!Next]_Store!vars
  <2>1. PICK B \in BatchOf({u \in Uploads : gc[u] = "due" /\ ~Live(u)}) :
            gc' = [u \in Uploads |-> IF u \in B THEN "later" ELSE gc[u]]
    BY <1>7 DEF ClaimGc
  <2>2. /\ B \subseteq {u \in Uploads : gc[u] = "due" /\ ~Live(u)}
        /\ Cardinality(B) <= BatchSize
    BY BatchBound
  <2>3. \A u \in B : u \notin Store!live_blobs
    BY <2>2 DEF Live, Store!live_blobs, Store!is_live
  <2>4. Store!claim_gc_batch(B)
    <3>1. UNCHANGED <<blob_ref, deleted, state, provider_upload_id>>
      BY <1>7 DEF ClaimGc
    <3>2. QED
      BY <2>1, <2>2, <2>3, <3>1 DEF Store!claim_gc_batch
  <2>5. QED
    BY <2>2, <2>4 DEF Store!Next
<1>8. ASSUME NEW w \in Workers, FailGc(w) PROVE [Store!Next]_Store!vars
  <2>1. PICK u \in batch[w] : gc' = [gc EXCEPT ![u] = IF @ = "none" THEN "none" ELSE "later"]
    BY <1>8 DEF FailGc
  <2>2. Store!fail_gc(u) \/ UNCHANGED gc
    <3>1. UNCHANGED <<blob_ref, deleted, state, provider_upload_id>> /\ u \in Uploads
      BY <1>8 DEF FailGc
    <3>2. CASE gc[u] = "none"
      BY <2>1, <3>1, <3>2
    <3>3. CASE gc[u] # "none"
      BY <2>1, <3>1, <3>3 DEF Store!fail_gc
    <3>4. QED
      BY <3>2, <3>3
  <2>3. QED
    BY <1>8, <2>2 DEF FailGc, Store!Next
<1>9. ASSUME NEW w \in Workers, FinishGc(w) PROVE [Store!Next]_Store!vars
  <2>1. cur[w] \in Uploads
    BY <1>9 DEF FinishGc
  <2>2. Store!finish_gc(cur[w])
    BY <1>9 DEF FinishGc, Store!finish_gc
  <2>3. QED
    BY <2>1, <2>2 DEF Store!Next
<1>10. ASSUME NEW u \in Uploads, ComesDue(u) PROVE [Store!Next]_Store!vars
  BY <1>10 DEF ComesDue, Store!Later, Store!Next
<1>11. ASSUME NEW o \in Objects, DeleteObject(o) PROVE [Store!Next]_Store!vars
  BY <1>11 DEF DeleteObject, Enqueue, Store!delete_object, Store!enqueue_gc, Store!is_live,
     Store!Next
<1>12. QED
  BY <1>0, <1>1, <1>2, <1>3, <1>4, <1>5, <1>6, <1>7, <1>8, <1>9, <1>10, <1>11
     DEF vars, Next, TaskStep, WorkerStep, BeginCreate, BeginComplete, BeginAbort, PrepareUpload,
         EnsureUploadCompleted, ProviderAbort, TaskFails, AbortExpired, ExpiryDone,
         DeleteBlob, CollectionDone, PassFails, AllocateParts, ClientPut

\* The requests and passes of UploadLifecycle implement the store of UploadStore.
THEOREM RefinesUploadStore == Spec => ImplementsUploadStore
<1>1. Init => Store!Init /\ AbortOfRecord
  BY DEF Init, Store!Init, AbortOfRecord
<1>2. Inv /\ AbortOfRecord /\ [Next]_vars => AbortOfRecord' /\ [Store!Next]_Store!vars
  BY StoreStep, AbortStep
<1>3. QED
  BY Invariance, <1>1, <1>2, PTL DEF Spec, ImplementsUploadStore, Store!Spec
=============================================================================
