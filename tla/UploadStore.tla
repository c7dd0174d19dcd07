---------------------------- MODULE UploadStore ----------------------------
(***************************************************************************)
(* What the metadata store knows of uploads, content and blobs to collect, *)
(* one operation at a time: the upload, content and maintenance operations *)
(* of the in-memory store, each under its one mutex.  No provider, request *)
(* or pass exists here; UploadLifecycle, which has them all, implements it.*)
(* A refused operation changes nothing and is a stuttering step.           *)
(***************************************************************************)
CONSTANTS
    Uploads, Objects, Target, ProviderIds,   \* as in UploadLifecycle
    Batches,                                 \* the sets of at most limit rows
    None

VARIABLES
    blob_ref, deleted,           \* of each object
    state, provider_upload_id,   \* of each upload record
    gc                           \* of each blob: no row, not yet due, due

vars == <<blob_ref, deleted, state, provider_upload_id, gc>>

Init ==
    /\ blob_ref = [o \in Objects |-> None]
    /\ deleted = {}
    /\ state = [u \in Uploads |-> "absent"]
    /\ provider_upload_id = [u \in Uploads |-> None]
    /\ gc = [u \in Uploads |-> "none"]

is_live(o) == o \notin deleted

live_blobs == {blob_ref[o] : o \in {x \in Objects : is_live(x)}}

\* A blob that has a row keeps it as it is.
enqueue_gc(S, not_before) ==
    gc' = [u \in Uploads |-> IF u \in S /\ gc[u] = "none" THEN not_before ELSE gc[u]]

-----------------------------------------------------------------------------
(* UploadRepository *)

create_upload_record(u) ==
    /\ state[u] = "absent"
    /\ state' = [state EXCEPT ![u] = "initiating"]
    /\ UNCHANGED <<blob_ref, deleted, provider_upload_id, gc>>

transition_allowed(from, to) ==
    \/ to = "ready" /\ from \in {"initiating", "ready"}
    \/ to = "completing" /\ from \in {"ready", "completing"}

\* Without a provider id in the command the record keeps the one it has.
update_upload_state(u, to, id) ==
    /\ transition_allowed(state[u], to)
    /\ state' = [state EXCEPT ![u] = to]
    /\ provider_upload_id' = [provider_upload_id EXCEPT ![u] = IF id = None THEN @ ELSE id]
    /\ UNCHANGED <<blob_ref, deleted, gc>>

abort_upload_record(u) ==
    /\ state[u] \notin {"absent", "completed"}
    /\ state' = [state EXCEPT ![u] = "aborted"]
    /\ enqueue_gc({u}, "due")
    /\ UNCHANGED <<blob_ref, deleted, provider_upload_id>>

-----------------------------------------------------------------------------
(* ObjectRepository, as far as content goes *)

\* The previous blob is queued, the new one taken off the queue.
commit_content(u) ==
    LET o == Target[u] IN
    /\ state[u] \in {"ready", "completing"}
    /\ is_live(o)
    /\ blob_ref' = [blob_ref EXCEPT ![o] = u]
    /\ state' = [state EXCEPT ![u] = "completed"]
    /\ gc' = [v \in Uploads |->
          IF v = u THEN "none"
          ELSE IF v = blob_ref[o] /\ gc[v] = "none" THEN "later" ELSE gc[v]]
    /\ UNCHANGED <<deleted, provider_upload_id>>

delete_object(o) ==
    /\ is_live(o)
    /\ deleted' = deleted \cup {o}
    /\ enqueue_gc({blob_ref[o]}, "due")
    /\ UNCHANGED <<blob_ref, state, provider_upload_id>>

-----------------------------------------------------------------------------
(* MaintenanceStore *)

\* At most limit expired records that are not at an end.
claim_expired_uploads(B) ==
    /\ B \in Batches
    /\ \A u \in B : state[u] \in {"initiating", "ready", "completing"}
    /\ state' = [u \in Uploads |-> IF u \in B THEN "expired" ELSE state[u]]
    /\ enqueue_gc(B, "due")
    /\ UNCHANGED <<blob_ref, deleted, provider_upload_id>>

\* At most limit due rows of blobs no live object has; the claim is a lease.
claim_gc_batch(B) ==
    /\ B \in Batches
    /\ \A u \in B : gc[u] = "due" /\ u \notin live_blobs
    /\ gc' = [u \in Uploads |-> IF u \in B THEN "later" ELSE gc[u]]
    /\ UNCHANGED <<blob_ref, deleted, state, provider_upload_id>>

finish_gc(u) ==
    /\ gc' = [gc EXCEPT ![u] = "none"]
    /\ UNCHANGED <<blob_ref, deleted, state, provider_upload_id>>

fail_gc(u) ==
    /\ gc[u] # "none"
    /\ gc' = [gc EXCEPT ![u] = "later"]
    /\ UNCHANGED <<blob_ref, deleted, state, provider_upload_id>>

\* now passes a not_before.
Later(u) ==
    /\ gc[u] = "later"
    /\ gc' = [gc EXCEPT ![u] = "due"]
    /\ UNCHANGED <<blob_ref, deleted, state, provider_upload_id>>

-----------------------------------------------------------------------------

Next ==
    \/ \E u \in Uploads :
          \/ create_upload_record(u) \/ abort_upload_record(u) \/ commit_content(u)
          \/ finish_gc(u) \/ fail_gc(u) \/ Later(u)
          \/ \E to \in {"ready", "completing"}, id \in ProviderIds \cup {None} :
                update_upload_state(u, to, id)
    \/ \E o \in Objects : delete_object(o)
    \/ \E B \in Batches : claim_expired_uploads(B) \/ claim_gc_batch(B)

Spec == Init /\ [][Next]_vars
=============================================================================
