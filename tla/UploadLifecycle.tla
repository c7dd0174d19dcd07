-------------------------- MODULE UploadLifecycle --------------------------
(***************************************************************************)
(* Upload sessions, the blob provider behind them, the content pointer of  *)
(* the target object and the blob garbage collector.                       *)
(*                                                                         *)
(* The metadata store and the provider share no transaction: a request is  *)
(* a sequence of calls, any of which may be the last one before a crash.   *)
(* Clock values are kept by order only: a queue entry whose not_before has *)
(* passed is "due", the others are "later"; which sessions are past their  *)
(* expires_at when a pass looks is open.  Blob refs derive from upload     *)
(* ids, so an upload names its blob.                                       *)
(***************************************************************************)
EXTENDS Naturals, FiniteSets

CONSTANTS
    Uploads,      \* upload ids
    Objects,      \* file objects
    Target,       \* the object an upload is for
    Multipart,    \* uploads above multipart_threshold
    ProviderIds,  \* multipart ids the provider hands out
    Tasks,        \* request handlers in flight
    Workers,      \* maintenance passes, one per process
    BatchSize,    \* gc_batch_size
    None

ASSUME UploadAssumption ==
    /\ Target \in [Uploads -> Objects]
    /\ Multipart \subseteq Uploads
    /\ BatchSize \in Nat \ {0}
    /\ None \notin Uploads /\ None \notin ProviderIds
    /\ IsFiniteSet(Uploads)

VARIABLES
    blob_ref,    \* content pointer of each object: the upload it came from
    deleted,     \* objects with deleted_at set
    state,       \* state of each upload record
    provider_upload_id,  \* multipart id each upload record holds
    gc,          \* blob_gc_queue: no entry, or not_before ahead or passed
    blobs,       \* finalised blobs at the provider
    multiparts,  \* open multipart uploads at the provider
    received,    \* multipart uploads whose parts have arrived
    usedIds,     \* multipart ids handed out so far
    urls,        \* signed PUT urls in the hands of clients
    pc, job, pid,             \* per task: stage, upload, provider id it holds
    wpc, batch, cur, full,    \* per worker: stage, batch left, entry, batch was full
    collected    \* history: blobs the collector has deleted

vars == <<blob_ref, deleted, state, provider_upload_id, gc, blobs, multiparts, received, usedIds, urls,
          pc, job, pid, wpc, batch, cur, full, collected>>

objects == <<blob_ref, deleted>>
uploads == <<state, provider_upload_id>>
blobstore == <<blobs, multiparts, received, usedIds, collected>>
tasks == <<pc, job, pid>>
workers == <<wpc, batch, cur, full>>

Active == {"initiating", "ready", "completing"}
States == Active \cup {"absent", "completed", "aborted", "expired"}

TypeOK ==
    /\ blob_ref \in [Objects -> Uploads \cup {None}]
    /\ deleted \subseteq Objects
    /\ state \in [Uploads -> States]
    /\ provider_upload_id \in [Uploads -> ProviderIds \cup {None}]
    /\ gc \in [Uploads -> {"none", "later", "due"}]
    /\ blobs \subseteq Uploads
    /\ multiparts \subseteq ProviderIds
    /\ received \subseteq ProviderIds
    /\ usedIds \subseteq ProviderIds
    /\ urls \subseteq Uploads \X (ProviderIds \cup {None})
    /\ pc \in [Tasks -> {"idle", "create", "prepare", "markReady", "markCompleting",
                         "ensure", "commit", "providerAbort", "abortRecord"}]
    /\ job \in [Tasks -> Uploads \cup {None}]
    /\ pid \in [Tasks -> ProviderIds \cup {None}]
    /\ wpc \in [Workers -> {"idle", "abort", "collect", "delete", "finish"}]
    /\ batch \in [Workers -> SUBSET Uploads]
    /\ cur \in [Workers -> Uploads \cup {None}]
    /\ full \in [Workers -> BOOLEAN]
    /\ collected \subseteq Uploads

Init ==
    /\ blob_ref = [o \in Objects |-> None]
    /\ deleted = {}
    /\ state = [u \in Uploads |-> "absent"]
    /\ provider_upload_id = [u \in Uploads |-> None]
    /\ gc = [u \in Uploads |-> "none"]
    /\ blobs = {}
    /\ multiparts = {}
    /\ received = {}
    /\ usedIds = {}
    /\ urls = {}
    /\ pc = [t \in Tasks |-> "idle"]
    /\ job = [t \in Tasks |-> None]
    /\ pid = [t \in Tasks |-> None]
    /\ wpc = [w \in Workers |-> "idle"]
    /\ batch = [w \in Workers |-> {}]
    /\ cur = [w \in Workers |-> None]
    /\ full = [w \in Workers |-> FALSE]
    /\ collected = {}

-----------------------------------------------------------------------------
(* Helpers *)

Live(u) == \E o \in Objects : o \notin deleted /\ blob_ref[o] = u

\* INSERT ... ON CONFLICT DO NOTHING into blob_gc_queue.
Enqueue(S, when) ==
    gc' = [u \in Uploads |-> IF u \in S /\ gc[u] = "none" THEN when ELSE gc[u]]

Step(t, l, u, p) ==
    /\ pc' = [pc EXCEPT ![t] = l]
    /\ job' = [job EXCEPT ![t] = u]
    /\ pid' = [pid EXCEPT ![t] = p]

\* The handler returns, with a reply or an error.
Return(t) == Step(t, "idle", None, None)

\* The provider finalises or drops a multipart upload; its parts are gone.
CloseMultipart(p) ==
    /\ multiparts' = multiparts \ {p}
    /\ received' = received \ {p}

\* What a claim of at most BatchSize rows may take out of S.
BatchOf(S) ==
    IF Cardinality(S) < BatchSize THEN {S} ELSE {B \in SUBSET S : Cardinality(B) = BatchSize}

-----------------------------------------------------------------------------
(* UploadService::create *)

BeginCreate(t, u) ==
    /\ pc[t] = "idle"
    /\ Target[u] \notin deleted
    /\ Step(t, "create", u, None)
    /\ UNCHANGED <<objects, uploads, gc, blobstore, urls, workers>>

\* INSERT ... ON CONFLICT DO NOTHING: the session is inserted, or found.
InsertRecord(u) == state' = [state EXCEPT ![u] = IF @ = "absent" THEN "initiating" ELSE @]

\* What becomes of the request depends on the session found.
CreateRecord(t) ==
    LET u == job[t] IN
    /\ pc[t] = "create"
    /\ InsertRecord(u)
    /\ \/ state[u] \in {"absent", "initiating"}
          /\ Step(t, "prepare", u, None) /\ UNCHANGED urls
       \/ state[u] \in {"ready", "completing"} /\ Return(t)
          /\ urls' = IF u \in Multipart THEN urls ELSE urls \cup {<<u, None>>}
       \/ state[u] \in {"completed", "aborted", "expired"} /\ Return(t)
          /\ UNCHANGED urls
    /\ UNCHANGED <<objects, provider_upload_id, gc, blobstore, workers>>

\* The provider opens a multipart upload under an id of its own.
InitiateMultipart(p) ==
    /\ p \notin usedIds
    /\ usedIds' = usedIds \cup {p}
    /\ multiparts' = multiparts \cup {p}

\* BlobStore::prepare_upload: a multipart upload is opened, a single one signed.
PrepareUpload(t) ==
    LET u == job[t] IN
    /\ pc[t] = "prepare"
    /\ \/ /\ u \notin Multipart
          /\ Step(t, "markReady", u, None)
          /\ UNCHANGED <<multiparts, usedIds>>
       \/ /\ u \in Multipart
          /\ \E p \in ProviderIds : InitiateMultipart(p) /\ Step(t, "markReady", u, p)
    /\ UNCHANGED <<objects, uploads, gc, blobs, received, collected, urls, workers>>

\* Variant: the session's own id is stored as provider id.
MarkReadyOwnId(t) ==
    LET u == job[t] IN
    /\ pc[t] = "markReady"
    /\ state' = [state EXCEPT ![u] = "ready"]
    /\ provider_upload_id' = [provider_upload_id EXCEPT ![u] = u]
    /\ Return(t)
    /\ UNCHANGED <<objects, gc, blobstore, urls, workers>>

\* update_upload_state(ready); a single-shot url reaches the client in the reply.
MarkReady(t) ==
    LET u == job[t] IN
    /\ pc[t] = "markReady"
    /\ \/ /\ state[u] \in {"initiating", "ready"}
          /\ state' = [state EXCEPT ![u] = "ready"]
          /\ provider_upload_id' =
                [provider_upload_id EXCEPT ![u] = IF pid[t] = None THEN @ ELSE pid[t]]
          /\ urls' = IF u \in Multipart THEN urls ELSE urls \cup {<<u, None>>}
       \/ state[u] \notin {"initiating", "ready"} /\ UNCHANGED <<uploads, urls>>
    /\ Return(t)
    /\ UNCHANGED <<objects, gc, blobstore, workers>>

\* UploadService::allocate_parts: reads the session and signs.
AllocateParts(u) ==
    /\ state[u] \notin {"absent", "aborted", "expired"}
    /\ u \in Multipart
    /\ provider_upload_id[u] # None
    /\ urls' = urls \cup {<<u, provider_upload_id[u]>>}
    /\ UNCHANGED <<objects, uploads, gc, blobstore, tasks, workers>>

\* The client's direct upload; it may come at any time while the url is valid.
ClientPut(u, p) ==
    /\ <<u, p>> \in urls
    /\ \/ p = None /\ blobs' = blobs \cup {u} /\ UNCHANGED received
       \/ p \in multiparts /\ received' = received \cup {p} /\ UNCHANGED blobs
    /\ UNCHANGED <<objects, uploads, gc, multiparts, usedIds, collected, urls, tasks, workers>>

-----------------------------------------------------------------------------
(* UploadService::complete *)

BeginComplete(t, u) ==
    /\ pc[t] = "idle"
    /\ state[u] \in {"ready", "completing", "completed"}
    /\ Target[u] \notin deleted
    /\ Step(t, IF state[u] = "completed" THEN "commit" ELSE "markCompleting",
            u, provider_upload_id[u])
    /\ UNCHANGED <<objects, uploads, gc, blobstore, urls, workers>>

MarkCompleting(t) ==
    LET u == job[t] IN
    /\ pc[t] = "markCompleting"
    /\ \/ /\ state[u] \in {"ready", "completing"}
          /\ state' = [state EXCEPT ![u] = "completing"]
          /\ Step(t, "ensure", u, pid[t])
       \/ state[u] \notin {"ready", "completing"} /\ Return(t) /\ UNCHANGED state
    /\ UNCHANGED <<objects, provider_upload_id, gc, blobstore, urls, workers>>

\* HEAD finds the blob.
BlobExists(u) == u \in blobs

\* BlobStore::ensure_upload_completed: finalise, or converge on an existing
\* blob; without one the request fails.
EnsureUploadCompleted(t) ==
    LET u == job[t]
        finalised == u \in Multipart /\ pid[t] \in multiparts \cap received IN
    /\ pc[t] = "ensure"
    /\ \/ /\ finalised
          /\ blobs' = blobs \cup {u}
          /\ CloseMultipart(pid[t])
          /\ Step(t, "commit", u, None)
       \/ ~finalised /\ BlobExists(u) /\ Step(t, "commit", u, None)
          /\ UNCHANGED <<blobs, multiparts, received>>
       \/ ~finalised /\ ~BlobExists(u) /\ Return(t)
          /\ UNCHANGED <<blobs, multiparts, received>>
    /\ UNCHANGED <<objects, uploads, gc, usedIds, collected, urls, workers>>

\* Variant: the session's state is not checked again under its row lock.
CommitContentUnchecked(t) ==
    LET u == job[t]  o == Target[u] IN
    /\ pc[t] = "commit"
    /\ o \notin deleted
    /\ state' = [state EXCEPT ![u] = "completed"]
    /\ blob_ref' = [blob_ref EXCEPT ![o] = u]
    /\ gc' = [gc EXCEPT ![u] = "none"]
    /\ Return(t)
    /\ UNCHANGED <<deleted, provider_upload_id, blobstore, urls, workers>>

\* Variant: the replaced blob is due for deletion at once, without gc_grace.
CommitContentNoGrace(t) ==
    LET u == job[t]  o == Target[u] IN
    /\ pc[t] = "commit"
    /\ state[u] \in {"ready", "completing"} /\ o \notin deleted
    /\ state' = [state EXCEPT ![u] = "completed"]
    /\ blob_ref' = [blob_ref EXCEPT ![o] = u]
    /\ gc' = [v \in Uploads |-> IF v = blob_ref[o] /\ v # u THEN "due" ELSE gc[v]]
    /\ Return(t)
    /\ UNCHANGED <<deleted, provider_upload_id, blobstore, urls, workers>>

\* The commit_content transaction.  A completed session is answered without
\* writing; the superseded blob is queued, the new one taken off the queue.
CommitContent(t) ==
    LET u == job[t]
        o == Target[u]
        old == blob_ref[o]
        commits == state[u] \in {"ready", "completing"} /\ o \notin deleted IN
    /\ pc[t] = "commit"
    /\ \/ /\ commits
          /\ state' = [state EXCEPT ![u] = "completed"]
          /\ blob_ref' = [blob_ref EXCEPT ![o] = u]
          /\ gc' = [v \in Uploads |-> CASE v = u -> "none"
                                        [] v # u /\ v = old /\ gc[v] = "none" -> "later"
                                        [] OTHER -> gc[v]]
       \/ ~commits /\ UNCHANGED <<state, blob_ref, gc>>
    /\ Return(t)
    /\ UNCHANGED <<deleted, provider_upload_id, blobstore, urls, workers>>

-----------------------------------------------------------------------------
(* UploadService::abort and ObjectService::delete *)

BeginAbort(t, u) ==
    /\ pc[t] = "idle"
    /\ state[u] \notin {"absent", "completed"}
    /\ Step(t, "providerAbort", u, provider_upload_id[u])
    /\ UNCHANGED <<objects, uploads, gc, blobstore, urls, workers>>

\* Best effort; without a provider id there is nothing to call.
ProviderAbort(t) ==
    /\ pc[t] = "providerAbort"
    /\ \/ CloseMultipart(pid[t])
       \/ pid[t] # None /\ UNCHANGED <<multiparts, received>>
    /\ Step(t, "abortRecord", job[t], None)
    /\ UNCHANGED <<objects, uploads, gc, blobs, usedIds, collected, urls, workers>>

\* Variant: a completed session is rolled back.
AbortRecordAlways(t) ==
    /\ pc[t] = "abortRecord"
    /\ state' = [state EXCEPT ![job[t]] = "aborted"]
    /\ Enqueue({job[t]}, "due")
    /\ Return(t)
    /\ UNCHANGED <<objects, provider_upload_id, blobstore, urls, workers>>

\* abort_upload_record never rolls a completed session back.
AbortRecord(t) ==
    LET u == job[t] IN
    /\ pc[t] = "abortRecord"
    /\ \/ /\ state[u] # "completed"
          /\ state' = [state EXCEPT ![u] = "aborted"]
          /\ Enqueue({u}, "due")
       \/ state[u] = "completed" /\ UNCHANGED <<state, gc>>
    /\ Return(t)
    /\ UNCHANGED <<objects, provider_upload_id, blobstore, urls, workers>>

\* A call fails, or the process dies: the handler is gone, its effects stay.
TaskFails(t) ==
    /\ pc[t] # "idle"
    /\ Return(t)
    /\ UNCHANGED <<objects, uploads, gc, blobstore, urls, workers>>

\* Variant: the blob of a deleted file is not queued.
DeleteObjectForgetful(o) ==
    /\ o \notin deleted
    /\ deleted' = deleted \cup {o}
    /\ UNCHANGED <<blob_ref, uploads, gc, blobstore, urls, tasks, workers>>

\* delete_object queues the blob of the deleted file.
DeleteObject(o) ==
    /\ o \notin deleted
    /\ deleted' = deleted \cup {o}
    /\ Enqueue({blob_ref[o]}, "due")
    /\ UNCHANGED <<blob_ref, uploads, blobstore, urls, tasks, workers>>

-----------------------------------------------------------------------------
(* MaintenanceService::run *)

\* Variant: sessions stuck in completing are not swept.
ClaimExpiredNotCompleting(w) ==
    /\ wpc[w] = "idle"
    /\ \E overdue \in SUBSET {u \in Uploads : state[u] \in {"initiating", "ready"}} :
       \E B \in BatchOf(overdue) :
          /\ state' = [u \in Uploads |-> IF u \in B THEN "expired" ELSE state[u]]
          /\ Enqueue(B, "due")
          /\ batch' = [batch EXCEPT ![w] = B]
          /\ full' = [full EXCEPT ![w] = Cardinality(B) = BatchSize]
    /\ wpc' = [wpc EXCEPT ![w] = "abort"]
    /\ UNCHANGED <<objects, provider_upload_id, blobstore, urls, tasks, cur>>

\* claim_expired_uploads opens the pass (and repeats after a full batch).
ClaimExpired(w) ==
    /\ wpc[w] = "idle"
    /\ \E overdue \in SUBSET {u \in Uploads : state[u] \in Active} :
       \E B \in BatchOf(overdue) :
          /\ state' = [u \in Uploads |-> IF u \in B THEN "expired" ELSE state[u]]
          /\ Enqueue(B, "due")
          /\ batch' = [batch EXCEPT ![w] = B]
          /\ full' = [full EXCEPT ![w] = Cardinality(B) = BatchSize]
    /\ wpc' = [wpc EXCEPT ![w] = "abort"]
    /\ UNCHANGED <<objects, provider_upload_id, blobstore, urls, tasks, cur>>

\* Best-effort provider abort of one claimed session.
AbortExpired(w) ==
    /\ wpc[w] = "abort"
    /\ \E u \in batch[w] :
          /\ \/ CloseMultipart(provider_upload_id[u])
             \/ provider_upload_id[u] # None /\ UNCHANGED <<multiparts, received>>
          /\ batch' = [batch EXCEPT ![w] = @ \ {u}]
    /\ UNCHANGED <<objects, uploads, gc, blobs, usedIds, collected, urls, tasks, wpc, cur, full>>

\* A short batch ends the loop, a full one only when the deadline has passed.
ExpiryDone(w) ==
    /\ wpc[w] = "abort" /\ batch[w] = {}
    /\ \/ wpc' = [wpc EXCEPT ![w] = "collect"]
       \/ full[w] /\ wpc' = [wpc EXCEPT ![w] = "idle"]
    /\ UNCHANGED <<objects, uploads, gc, blobstore, urls, tasks, batch, cur, full>>

\* claim_gc_batch: due entries no live object points to; the lease moves
\* not_before ahead.
ClaimGc(w) ==
    /\ wpc[w] = "collect"
    /\ \E B \in BatchOf({u \in Uploads : gc[u] = "due" /\ ~Live(u)}) :
          /\ gc' = [u \in Uploads |-> IF u \in B THEN "later" ELSE gc[u]]
          /\ batch' = [batch EXCEPT ![w] = B]
          /\ full' = [full EXCEPT ![w] = Cardinality(B) = BatchSize]
    /\ wpc' = [wpc EXCEPT ![w] = "delete"]
    /\ UNCHANGED <<objects, uploads, blobstore, urls, tasks, cur>>

\* BlobStore::delete_blob succeeds; a missing blob counts as success.
DeleteBlob(w) ==
    /\ wpc[w] = "delete"
    /\ \E u \in batch[w] :
          /\ blobs' = blobs \ {u}
          /\ collected' = collected \cup {u}
          /\ cur' = [cur EXCEPT ![w] = u]
    /\ wpc' = [wpc EXCEPT ![w] = "finish"]
    /\ UNCHANGED <<objects, uploads, gc, multiparts, received, usedIds, urls, tasks, batch, full>>

\* delete_blob fails and fail_gc backs the entry off.
FailGc(w) ==
    /\ wpc[w] = "delete"
    /\ \E u \in batch[w] :
          /\ gc' = [gc EXCEPT ![u] = IF @ = "none" THEN "none" ELSE "later"]
          /\ batch' = [batch EXCEPT ![w] = @ \ {u}]
    /\ UNCHANGED <<objects, uploads, blobstore, urls, tasks, wpc, cur, full>>

\* Variant: the entry stays on the queue.
FinishGcKeeping(w) ==
    /\ wpc[w] = "finish"
    /\ batch' = [batch EXCEPT ![w] = @ \ {cur[w]}]
    /\ cur' = [cur EXCEPT ![w] = None]
    /\ wpc' = [wpc EXCEPT ![w] = "delete"]
    /\ UNCHANGED <<objects, uploads, gc, blobstore, urls, tasks, full>>

\* finish_gc removes the entry.
FinishGc(w) ==
    /\ wpc[w] = "finish"
    /\ gc' = [gc EXCEPT ![cur[w]] = "none"]
    /\ batch' = [batch EXCEPT ![w] = @ \ {cur[w]}]
    /\ cur' = [cur EXCEPT ![w] = None]
    /\ wpc' = [wpc EXCEPT ![w] = "delete"]
    /\ UNCHANGED <<objects, uploads, blobstore, urls, tasks, full>>

CollectionDone(w) ==
    /\ wpc[w] = "delete" /\ batch[w] = {}
    /\ \/ wpc' = [wpc EXCEPT ![w] = "idle"]
       \/ full[w] /\ wpc' = [wpc EXCEPT ![w] = "collect"]
    /\ UNCHANGED <<objects, uploads, gc, blobstore, urls, tasks, batch, cur, full>>

\* A database error or the end of the process cuts the pass short.
PassFails(w) ==
    /\ wpc[w] # "idle"
    /\ wpc' = [wpc EXCEPT ![w] = "idle"]
    /\ batch' = [batch EXCEPT ![w] = {}]
    /\ cur' = [cur EXCEPT ![w] = None]
    /\ full' = [full EXCEPT ![w] = FALSE]
    /\ UNCHANGED <<objects, uploads, gc, blobstore, urls, tasks>>

\* Time passes: the grace period, lease or backoff of an entry ends.
ComesDue(u) ==
    /\ gc[u] = "later"
    /\ gc' = [gc EXCEPT ![u] = "due"]
    /\ UNCHANGED <<objects, uploads, blobstore, urls, tasks, workers>>

-----------------------------------------------------------------------------

TaskStep(t) ==
    \/ CreateRecord(t) \/ PrepareUpload(t) \/ MarkReady(t)
    \/ MarkCompleting(t) \/ EnsureUploadCompleted(t) \/ CommitContent(t)
    \/ ProviderAbort(t) \/ AbortRecord(t)

WorkerStep(w) ==
    \/ ClaimExpired(w) \/ AbortExpired(w) \/ ExpiryDone(w)
    \/ ClaimGc(w) \/ DeleteBlob(w) \/ FailGc(w) \/ FinishGc(w) \/ CollectionDone(w)

Next ==
    \/ \E t \in Tasks : TaskStep(t) \/ TaskFails(t)
          \/ \E u \in Uploads : BeginCreate(t, u) \/ BeginComplete(t, u) \/ BeginAbort(t, u)
    \/ \E w \in Workers : WorkerStep(w) \/ PassFails(w)
    \/ \E u \in Uploads : AllocateParts(u) \/ ComesDue(u)
    \/ \E u \in Uploads : \E p \in ProviderIds \cup {None} : ClientPut(u, p)
    \/ \E o \in Objects : DeleteObject(o)

Spec == Init /\ [][Next]_vars

\* Passes are scheduled again and again; a pass that keeps failing at the same
\* call, or a provider that never accepts a deletion, is excluded.  A pass ends:
\* it claims what was due when it began, oldest first, and has a deadline.
FairSpec ==
    /\ Spec
    /\ \A u \in Uploads : WF_vars(ComesDue(u))
    /\ \A w \in Workers :
          /\ WF_vars(WorkerStep(w))
          /\ \A u \in Uploads :
                /\ SF_vars(ClaimExpired(w) /\ state'[u] = "expired")
                /\ SF_vars(ClaimGc(w) /\ u \in batch'[w])
          /\ SF_vars(ExpiryDone(w) /\ wpc'[w] = "collect")
          /\ SF_vars(DeleteBlob(w)) /\ SF_vars(FinishGc(w))
          /\ SF_vars(CollectionDone(w) /\ wpc'[w] = "idle")

-----------------------------------------------------------------------------
(* Properties *)

\* Every live object with content points at a blob the provider holds, however
\* completions, aborts, expiry and collection interleave.
LiveContentReadable ==
    \A o \in Objects :
        o \notin deleted /\ blob_ref[o] # None => blob_ref[o] \in blobs

\* A blob in the queue, or in the hands of a collector, belongs to a session
\* that can no longer commit and to no live object.
CollectedBlobsAreDead ==
    \A u \in Uploads :
        (gc[u] # "none" \/ \E w \in Workers : wpc[w] \in {"delete", "finish"} /\ u \in batch[w])
            => state[u] \in {"completed", "aborted", "expired"} /\ ~Live(u)

\* A session that ended stays ended: completed is never left, an aborted or
\* expired one never commits.
EndedSessionsStayEnded ==
    [][\A u \in Uploads :
        /\ state[u] = "completed" => state'[u] = "completed"
        /\ state[u] \in {"aborted", "expired"}
             => state'[u] \in {"aborted", "expired"}]_vars

\* Content that is replaced, or whose object is deleted, is on the queue until
\* the collector has deleted it: no committed blob is forgotten.
SupersededContentQueued ==
    \A u \in Uploads :
        state[u] = "completed" /\ ~Live(u) => gc[u] # "none" \/ u \in collected

\* The records, pointers and queue entries the requests and passes leave are
\* those of a store that performs one operation at a time.
Store == INSTANCE UploadStore
             WITH Batches <- {B \in SUBSET Uploads : Cardinality(B) <= BatchSize}

\* Whatever handlers and passes overlap, and wherever they die, the metadata
\* store only ever takes a step the in-memory store can take.
ImplementsUploadStore == Store!Spec

\* Every session ends: abandoned ones are expired by a pass.
EverySessionEnds ==
    \A u \in Uploads : state[u] \in Active ~> state[u] \notin Active

\* Every queued blob is collected, failed deletions and lost leases included.
QueueDrains == \A u \in Uploads : gc[u] # "none" ~> gc[u] = "none"

=============================================================================
