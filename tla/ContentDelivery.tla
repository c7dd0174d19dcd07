-------------------------- MODULE ContentDelivery --------------------------
(***************************************************************************)
(* One file object whose content is uploaded to the local provider,        *)
(* replaced, downloaded through signed locations and collected.            *)
(*                                                                         *)
(* UploadLifecycle keeps clock values by order only.  Here time is         *)
(* explicit, because locations expire and the collector waits a grace      *)
(* period that is counted from the start of the request that replaced the  *)
(* content.  The provider is modelled down to its files: writing one       *)
(* truncates it first, and parts are assembled by an ordinary write.       *)
(*                                                                         *)
(* Nothing is assumed of clients or of settings.  A PUT may come at any    *)
(* time, also after the completion and several at once: its location is    *)
(* good for hours, can be renewed, and only its expiry is checked.  A      *)
(* session may be completed and aborted by any number of overlapping       *)
(* requests, which may take any time.  Expiry of a session is left to      *)
(* UploadLifecycle: here it would be one more abort.                       *)
(***************************************************************************)
EXTENDS Integers, FiniteSets

CONSTANTS
    Uploads,        \* sessions for the object
    Multipart,      \* those above multipart_threshold
    Parts,          \* part numbers of a multipart upload
    Handlers,       \* requests to complete or abort a session, each served once
    Putters,        \* PUT requests
    Readers,        \* GET .../content requests, each served once
    GcGrace,        \* gc_grace
    DownloadExpiry, \* download_url_expiry
    Lease,          \* GC_LEASE_MINUTES
    MaxTime,        \* bound on the clock
    None

ASSUME ContentAssumption ==
    /\ Multipart \subseteq Uploads
    /\ Parts \subseteq Nat
    /\ {GcGrace, DownloadExpiry, Lease, MaxTime} \subseteq Nat
    /\ None \notin Uploads /\ None \notin Int

VARIABLES
    clock,
    content,   \* blob_ref of the object: the upload its content came from
    deleted,   \* its deleted_at is set
    session,   \* state of each upload: "ready", "completed" or "aborted"
    queue,     \* blob_gc_queue: not_before of each blob, or None
    file,      \* each blob and part: "none", "broken" (not as declared), "whole"
    put,       \* the file each PUT is writing, or None
    task,      \* each handler: stage, upload, ctx.now, parts to read, bytes read
    reader,    \* each GET: stage and the pointer it has read
    signed,    \* download locations handed out: [blob, exp]
    collector, \* the blob a maintenance pass has claimed, and how far it is
    \* History:
    accepted,  \* uploads whose blob a completion accepted, not written to since
    replaced   \* ctx.now of the completion that replaced each upload, or None

vars == <<clock, content, deleted, session, queue, file, put, task, reader, signed,
          collector, accepted, replaced>>

object == <<content, deleted>>
history == <<accepted, replaced>>

NoTask == [at |-> "none", upload |-> None, now |-> 0, left |-> {}, bytes |-> "none"]
ServedTask == [NoTask EXCEPT !.at = "served"]
NoReader == [at |-> "none", blob |-> None]
ServedReader == [NoReader EXCEPT !.at = "served"]
NoClaim == [at |-> "none", blob |-> None]

-----------------------------------------------------------------------------
(* Helpers *)

\* blob_path and parts_dir.
Blob(u) == <<u, None>>
PartFiles(u) == {u} \X Parts
Files == Uploads \X (Parts \cup {None})

\* The files that PUT locations of an upload name.
Targets(u) == IF u \in Multipart THEN PartFiles(u) ELSE {Blob(u)}

Live(u) == content = u /\ ~deleted

\* INSERT ... ON CONFLICT DO NOTHING into blob_gc_queue.
Enqueue(u, when) == queue' = [queue EXCEPT ![u] = IF @ = None THEN when ELSE @]

\* fs::write opens file f: created or truncated.
Truncate(f) ==
    /\ file' = [file EXCEPT ![f] = "broken"]
    /\ accepted' = {u \in accepted : Blob(u) # f}

\* fs::write has written what made the file b.  A file that was removed
\* meanwhile stays removed; of one that another writer has open too, or has
\* created anew, that writer decides what there is.
Written(f, b) ==
    /\ \E result \in IF file[f] = "none" THEN {"none"} ELSE {b, file[f]} :
          file' = [file EXCEPT ![f] = result]
    /\ accepted' = {u \in accepted : Blob(u) # f}

Arrive(h, u, at) ==
    task' = [task EXCEPT ![h] = [NoTask EXCEPT !.at = at, !.upload = u, !.now = clock]]

Goto(h, at) == task' = [task EXCEPT ![h].at = at]

\* The handler returns, with a reply or an error.
Return(h) == task' = [task EXCEPT ![h] = ServedTask]

\* Variant: the superseded blob is due at once.
SupersededDueNow(now) == now

\* gc_not_before of a commit, counted from the request's ctx.now.
SupersededDue(now) == now + GcGrace

-----------------------------------------------------------------------------
(* The client's PUT to a signed location (transport::upload) *)

\* tokio::fs::write, once the body has arrived: truncate ...
PutBegins(p) ==
    /\ put[p] = None
    /\ \E u \in Uploads : \E f \in Targets(u) :
          Truncate(f) /\ put' = [put EXCEPT ![p] = f]
    /\ UNCHANGED <<clock, object, session, queue, task, reader, signed, collector, replaced>>

\* ... then write, whatever the client sent.
PutEnds(p) ==
    /\ put[p] # None
    /\ \E b \in {"broken", "whole"} : Written(put[p], b)
    /\ put' = [put EXCEPT ![p] = None]
    /\ UNCHANGED <<clock, object, session, queue, task, reader, signed, collector, replaced>>

\* The process dies or the disk is full, in the middle of the write.
PutDies(p) ==
    /\ put[p] # None
    /\ put' = [put EXCEPT ![p] = None]
    /\ UNCHANGED <<clock, object, session, queue, file, task, reader, signed, collector,
                   history>>

-----------------------------------------------------------------------------
(* UploadService::complete with the local ensure_upload_completed *)

\* get_upload, get_object and, while the session is open, update_upload_state
\* to completing.  All three look at what never comes back once it is gone, so
\* one that finds it gone later is a handler that fails later.
BeginComplete(h, u) ==
    /\ task[h].at = "none"
    /\ session[u] # "aborted" /\ ~deleted
    /\ Arrive(h, u, IF session[u] = "completed" THEN "commit" ELSE "exists")
    /\ UNCHANGED <<clock, object, session, queue, file, put, reader, signed, collector,
                   history>>

\* path.exists(): a multipart blob that is not there is assembled from the
\* parts that the request lists.
FindBlob(h) ==
    /\ task[h].at = "exists"
    /\ LET u == task[h].upload
       IN  IF u \in Multipart /\ file[Blob(u)] = "none"
           THEN \E listed \in SUBSET Parts :
                   task' = [task EXCEPT ![h].at = "read", ![h].left = listed,
                              ![h].bytes = IF listed = Parts THEN "whole" ELSE "broken"]
           ELSE Goto(h, "stat")
    /\ UNCHANGED <<clock, object, session, queue, file, put, reader, signed, collector,
                   history>>

\* The listed parts are read in the order of their numbers; a missing one is an
\* error, and one cut short leaves the whole cut short.
ReadPart(h) ==
    /\ task[h].at = "read"
    /\ \E n \in task[h].left :
          LET found == file[<<task[h].upload, n>>]
          IN  /\ \A m \in task[h].left : n <= m
              /\ IF found = "none" THEN Return(h)
                 ELSE task' = [task EXCEPT ![h].left = @ \ {n},
                                           ![h].bytes = IF found = "whole" THEN @ ELSE "broken"]
    /\ UNCHANGED <<clock, object, session, queue, file, put, reader, signed,
                   collector, history>>

\* fs::write of the assembled bytes: truncate ...
WriteBegins(h) ==
    /\ task[h].at = "read" /\ task[h].left = {}
    /\ Truncate(Blob(task[h].upload))
    /\ Goto(h, "writing")
    /\ UNCHANGED <<clock, object, session, queue, put, reader, signed, collector,
                   replaced>>

\* ... then write.
WriteEnds(h) ==
    /\ task[h].at = "writing"
    /\ Written(Blob(task[h].upload), task[h].bytes)
    /\ task' = [task EXCEPT ![h].at = "cleanup", ![h].bytes = "none"]
    /\ UNCHANGED <<clock, object, session, queue, put, reader, signed, collector,
                   replaced>>

\* remove_dir_all of the parts, after an assembly and in abort_upload: it may
\* fail half-way, which nobody notices.
RemoveParts(h) ==
    /\ task[h].at \in {"cleanup", "abort"}
    /\ \E gone \in SUBSET PartFiles(task[h].upload) :
          file' = [f \in Files |-> IF f \in gone THEN "none" ELSE file[f]]
    /\ Goto(h, IF task[h].at = "cleanup" THEN "stat" ELSE "record")
    /\ UNCHANGED <<clock, object, session, queue, put, reader, signed, collector,
                   history>>

\* The size and the hash of the file are the declared ones.
AsDeclared(u) == file[Blob(u)] = "whole"

Accept(h) == Goto(h, "commit") /\ accepted' = accepted \cup {task[h].upload}
Reject(h) == Return(h) /\ UNCHANGED accepted

\* Variant: the size and the hash are not compared with the declared ones.
StatUnchecked(h) ==
    /\ task[h].at = "stat"
    /\ IF file[Blob(task[h].upload)] # "none" THEN Accept(h) ELSE Reject(h)
    /\ UNCHANGED <<clock, object, session, queue, file, put, reader, signed,
                   collector, replaced>>

\* No blob: ContentNotReady.  One of another size or hash: ChecksumMismatch.
Stat(h) ==
    /\ task[h].at = "stat"
    /\ IF AsDeclared(task[h].upload) THEN Accept(h) ELSE Reject(h)
    /\ UNCHANGED <<clock, object, session, queue, file, put, reader, signed,
                   collector, replaced>>

\* The commit_content transaction.
CommitContent(h) ==
    LET u == task[h].upload IN
    /\ task[h].at = "commit"
    /\ IF session[u] = "ready" /\ ~deleted
       THEN /\ session' = [session EXCEPT ![u] = "completed"]
            /\ content' = u
            /\ queue' = [v \in Uploads |->
                  IF v = u THEN None
                  ELSE IF v = content /\ queue[v] = None THEN SupersededDue(task[h].now)
                  ELSE queue[v]]
            /\ replaced' = [v \in Uploads |-> IF v = content THEN task[h].now ELSE replaced[v]]
       ELSE UNCHANGED <<session, content, queue, replaced>>
    /\ Return(h)
    /\ UNCHANGED <<clock, deleted, file, put, reader, signed, collector, accepted>>

-----------------------------------------------------------------------------
(* UploadService::abort: the parts go first (RemoveParts), the record second *)

BeginAbort(h, u) ==
    /\ task[h].at = "none"
    /\ session[u] # "completed"
    /\ Arrive(h, u, "abort")
    /\ UNCHANGED <<clock, object, session, queue, file, put, reader, signed,
                   collector, history>>

AbortRecord(h) ==
    LET u == task[h].upload IN
    /\ task[h].at = "record"
    /\ IF session[u] = "completed" THEN UNCHANGED <<session, queue>>
       ELSE /\ session' = [session EXCEPT ![u] = "aborted"]
            /\ Enqueue(u, task[h].now)
    /\ Return(h)
    /\ UNCHANGED <<clock, object, file, put, reader, signed, collector, history>>

\* A call fails, the client is gone or the process dies, in the middle of a
\* write too.
TaskDies(h) ==
    /\ task[h].at \notin {"none", "served"}
    /\ Return(h)
    /\ UNCHANGED <<clock, object, session, queue, file, put, reader, signed,
                   collector, history>>

\* delete_object: the content is due at once.
DeleteObject ==
    /\ ~deleted
    /\ deleted' = TRUE
    /\ IF content = None THEN UNCHANGED queue ELSE Enqueue(content, clock)
    /\ UNCHANGED <<clock, content, session, file, put, task, reader, signed,
                   collector, history>>

-----------------------------------------------------------------------------
(* ContentService::location *)

\* readable_file and content_pointer: the pointer of a live file with content.
ReadPointer(r) ==
    /\ reader[r].at = "none"
    /\ content # None /\ ~deleted
    /\ reader' = [reader EXCEPT ![r] = [at |-> "sign", blob |-> content]]
    /\ UNCHANGED <<clock, object, session, queue, file, put, task, signed, collector,
                   history>>

\* sign_download: the location is good for download_url_expiry from now.
SignDownload(r) ==
    /\ reader[r].at = "sign"
    /\ signed' = signed \cup {[blob |-> reader[r].blob, exp |-> clock + DownloadExpiry]}
    /\ reader' = [reader EXCEPT ![r] = ServedReader]
    /\ UNCHANGED <<clock, object, session, queue, file, put, task, collector,
                   history>>

\* check_signature refuses a location after its expiry.
Expired(s) == clock > s.exp

\* transport::download: what a GET of a location is answered now.
Download(s) == IF Expired(s) THEN "forbidden" ELSE file[Blob(s.blob)]

-----------------------------------------------------------------------------
(* Collection *)

\* claim_gc_batch, one entry at a time: due, and not live content.
ClaimGc ==
    /\ collector.at = "none"
    /\ \E u \in Uploads :
          /\ queue[u] # None /\ queue[u] <= clock /\ ~Live(u)
          /\ queue' = [queue EXCEPT ![u] = clock + Lease]
          /\ collector' = [at |-> "delete", blob |-> u]
    /\ UNCHANGED <<clock, object, session, file, put, task, reader, signed, history>>

\* delete_blob: a missing file counts as success.
DeleteBlob ==
    /\ collector.at = "delete"
    /\ file' = [file EXCEPT ![Blob(collector.blob)] = "none"]
    /\ collector' = [collector EXCEPT !.at = "finish"]
    /\ UNCHANGED <<clock, object, session, queue, put, task, reader, signed, history>>

FinishGc ==
    /\ collector.at = "finish"
    /\ queue' = [queue EXCEPT ![collector.blob] = None]
    /\ collector' = NoClaim
    /\ UNCHANGED <<clock, object, session, file, put, task, reader, signed, history>>

\* The pass ends early; the claim's lease runs out by itself.
CollectorDies ==
    /\ collector.at # "none"
    /\ collector' = NoClaim
    /\ UNCHANGED <<clock, object, session, queue, file, put, task, reader, signed,
                   history>>

\* Time passes; expired download locations are forgotten.
Tick ==
    /\ clock < MaxTime
    /\ clock' = clock + 1
    /\ signed' = {s \in signed : s.exp > clock}
    /\ UNCHANGED <<object, session, queue, file, put, task, reader, collector,
                   history>>

-----------------------------------------------------------------------------

\* The sessions have been created and their clients given locations.
Init ==
    /\ clock = 0
    /\ content = None
    /\ deleted = FALSE
    /\ session = [u \in Uploads |-> "ready"]
    /\ queue = [u \in Uploads |-> None]
    /\ file = [f \in Files |-> "none"]
    /\ put = [p \in Putters |-> None]
    /\ task = [h \in Handlers |-> NoTask]
    /\ reader = [r \in Readers |-> NoReader]
    /\ signed = {}
    /\ collector = NoClaim
    /\ accepted = {}
    /\ replaced = [u \in Uploads |-> None]

Next ==
    \/ \E p \in Putters : PutBegins(p) \/ PutEnds(p) \/ PutDies(p)
    \/ \E h \in Handlers :
          \/ \E u \in Uploads : BeginComplete(h, u) \/ BeginAbort(h, u)
          \/ FindBlob(h) \/ ReadPart(h) \/ WriteBegins(h) \/ WriteEnds(h)
          \/ RemoveParts(h) \/ Stat(h) \/ CommitContent(h)
          \/ AbortRecord(h) \/ TaskDies(h)
    \/ \E r \in Readers : ReadPointer(r) \/ SignDownload(r)
    \/ DeleteObject
    \/ ClaimGc \/ DeleteBlob \/ FinishGc \/ CollectorDies
    \/ Tick

Spec == Init /\ [][Next]_vars

-----------------------------------------------------------------------------
(* Properties *)

\* The grace period of a replaced upload is over.
GraceOver(u) == replaced[u] # None /\ replaced[u] + GcGrace <= clock

\* The provider holds the blob of u, and exactly as declared unless it was
\* opened for writing again after a completion had accepted it.
HeldAsAccepted(u) ==
    /\ file[Blob(u)] # "none"
    /\ u \in accepted => file[Blob(u)] = "whole"

\* A download location serves the bytes it was signed for until it expires or
\* the collector may take them: gc_grace after the request that replaced the
\* content began (uploads.rs), at once when the object is deleted.  How the
\* two periods compare is up to the settings.
LocationServesContent ==
    \A s \in signed :
        \/ Download(s) = "forbidden" \/ HeldAsAccepted(s.blob)
        \/ GraceOver(s.blob) \/ (deleted /\ content = s.blob)

\* The live content of the object is never collected, and it is whole unless
\* somebody wrote to it after it was accepted: a PUT to a location that has
\* not expired (transport.rs) or an assembly that overlaps (lib.rs).  In
\* particular no short file left by a crash is ever committed.
LiveContentWhole == content # None /\ ~deleted => HeldAsAccepted(content)
=============================================================================
