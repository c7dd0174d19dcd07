# AnyStore: a TLA+ verification project

AnyStore is an object store for files and folders: a REST service (Rust) that
keeps metadata in PostgreSQL and file contents with a blob provider. The hard
parts of it are not in the data formats but in what happens when requests,
retries, maintenance and crashes meet in the database and at the provider. This
directory models those parts in TLA+, checks the models with TLC and proves the
most important results for every instance with TLAPS.

Paths below are relative to the repository; `application`, `postgres` and so on
stand for `crates/anystore-application/src`,
`crates/anystore-metastore-postgres/src`, ... Every definition's lines are in
`PROJECT.json` under `map`.

## 1. Inventory

| Component | State | Operations | What is hard |
|---|---|---|---|
| Idempotency records | `idempotency_records`, one row per (principal, operation, key) | `acquire`, `finalize_in_tx`, `complete`, `fail_or_release`, purge | leases that expire under a running owner, retries, lost commit answers, statement-by-statement decisions |
| Changes feed | `changes`, `changes_seq`, `change_cursors`, `changes_retention` | `append_changes`, `read_changes`, two purges | sequence order against commit order, concurrent reads of one cursor, purge against reading |
| Object tree | `objects` | `create_object`, `patch_object`, `delete_object` | READ COMMITTED, moves that cross, create below a folder being deleted, lock order |
| Uploads and content | `uploads`, `objects.blob_ref`, `blob_gc_queue`, provider state | create, parts, complete, abort, `commit_content`, expiry sweep, collector | two stores without a common transaction, crashes between calls, several maintenance processes |
| Maintenance pass | running flag, deadline, queue backoff | `run`, daily timer, HTTP trigger, cloud function | overlap of passes, a flag that must be cleared, `SKIP LOCKED`, what "drained" means |
| PostgREST store | none (an RPC client) | one SQL function per operation | refused, late and lost calls, what an error may promise |
| Queries and pages | none | `list_children`, `query_objects`, `resolve_path` | keyset cursors over changing data, rows and paths read apart |
| Metadata | the document of a row | merge patches, equality and existence conditions | concurrent patches of one document |
| Content download | signed locations | `location`, `head` | a location outlives the pointer it was signed for |
| Blob providers (COS, local) | provider side, files | prepare, complete, abort, delete, sign, PUT | convergence of repeated calls, torn writes |
| HTTP, configuration, metrics | none | parsing, routing, formatting | nothing that several actors share |
| In-memory test store | one mutex | all store operations | said to behave like the real one |

Interaction: a request fixes `ctx.now`, claims its idempotency key, runs one
mutation transaction in the metadata store (objects, Changes and the finished
idempotency record commit together) and answers. Upload handlers alternate
between the metadata store and the provider. Maintenance runs beside them in any
number of processes; only the rows coordinate them. The metadata store is
reached by SQL or, statement for statement the same, by PostgREST calls.

The hazards these interactions have are listed in `PROJECT.json`, each at its
line with the properties that would catch it.

## 2. Modules

| Module | Stands for | Abstract specification | Proofs |
|---|---|---|---|
| `Idempotency` | one key, its attempts and the purge | `OnceOnly` | `IdempotencyProofs` |
| `RpcStore` | the same key through PostgREST | `OnceOnly` | `RpcStoreProofs` |
| `ChangeFeed` | appending, reading and purging Changes | | `ChangeFeedProofs` |
| `ObjectTree` (uses `Metadata`) | the three mutation transactions | `TreeStore` | `ObjectTreeProofs` |
| `KeysetPages` (uses `TreeStore`, `Metadata`) | pages, queries, path lookups | | `KeysetPagesProofs` |
| `UploadLifecycle` | sessions, commits, expiry, collection | `UploadStore` | `UploadLifecycleProofs` |
| `ContentDelivery` | local provider, signed locations, grace period | | `ContentDeliveryProofs` |
| `MaintenancePass` | flag, deadline, loops, schedule, triggers | | `MaintenancePassProofs` |

`MC*` modules hold the instances for TLC.

### Idempotency (with OnceOnly)

One idempotency key. `rec` is the row or `NoRecord`; every attempt has a stage
`pc`, its arrival time `start` (`ctx.now`), its poll count and its `reply`.
`effects` and `period` are history. Each SQL statement outside a mutation
transaction is an action: `InsertClaim` (INSERT ... ON CONFLICT DO NOTHING),
`ReadRecord` (the later read and everything decided from it), `StealLease` (the
conditional takeover, which may meet another row than the one read). A mutation
transaction is one action, `FinalizeInTx`: it either finds its claim and commits
effect and record together or is abandoned. `Committed` lets the answer be lost,
`FailOrRelease` is the release with its ignored failure, `Complete` the separate
completion of `run_with_completion`. `Crash` stops an attempt anywhere. The
lease is compared with the wall clock while `lease_until` and `expires_at` are
computed from the request's arrival, as in the code. In `run_with_completion`
`effects` records what the record remembers; the operation's own writes are
covered by UploadLifecycle, where a repeated create finds the session again.

`OnceOnly` is what a client may rely on: while an outcome is remembered nobody
else takes effect, and a success answer is that outcome. `ImplementsOnceOnly`
states that Idempotency implements it under the mapping in `Once`.

### RpcStore

The same contract over HTTP calls. `calls` holds every call that was sent and
not yet received; a handler waits for the one its `pc` names. The gateway may
refuse a call (`Refuse`), the handler may give it up (`GiveUp`: timeout, broken
connection, unreadable body, 500 or 504) while it still runs in the database,
and the instance may die (`Crash`). `Insert`, `Select` and `Update` are the three
statements of the SQL function behind `acquire`; `Mutate`, `Complete` and
`Release` are transactions of one call each. `into_domain` and
`map_http_status` decide what an error says, and `DefiniteErrorIsFinal` what it
may say.

### ChangeFeed

Mutations append Changes: `AppendChanges` waits for the advisory lock and
reserves numbers, `CommitWrite` publishes them, `RollbackWrite` loses the
numbers. `read_changes` is one transaction at READ COMMITTED, so each statement
whose result is used later is an action: the watermark
(`BeginInitialRead`, `BeginCursorRead`), the cursor row with its lock and checks
(`LocateCursor`), `SnapshotMax`, `ReadItems`, `FinishRead` (continuation cursor
and materialisation) or `Reread`. `PurgeChanges` and `PurgeChangeCursors` are
the retention purges. A cursor row carries two history fields: where its chain
of reads began and what the chain delivered.

### ObjectTree (with TreeStore and Metadata)

The rows of `objects`, and one transaction per request: private writes
(`dirty`, `buf`), row locks (`share`, `excl`) held to the end, the Change-order
lock, and the Changes it has inserted. `View` is what a statement of a
transaction sees: committed rows and its own writes. A statement that needs a
lock someone else holds is not enabled; `LockTimeout` ends such a wait (the
`lock_timeout` setting and PostgreSQL's deadlock detector), `Rollback` any other
failure. The recursive queries are least fixed points, written as "the least set
that contains i and is closed under". `WalkDescendants`, `LockRow` and
`RowsLocked` are the lock-then-verify loop, one row lock at a time. The unique
index of live names blocks on an uncommitted entry and fails on a committed one.

`TreeStore` is the in-memory store: one mutation at a time on rows and Changes.
`ImplementsTreeStore` says that the transactions are serialisable in their commit
order, Changes included: `Serial` takes the committed rows and the feed in `seq`
order as the abstract state. `Metadata` has the merge patch and the conditions of
queries, on flat documents.

### KeysetPages

A reader follows a listing or a query page by page, or resolves a path, over the
mutations of `TreeStore` (`Mutate`). `CheckFolder`, `ReadRows` and `AttachPaths`
are the statements of one listing request, `ResolvePath`, `LoadObject` and
`AttachPaths` those of a lookup; `RpcPage`, `RpcQuery` and `RpcResolve` are the
same through one call. `steady` is the history of ids that have been in the
result, at their place, since the chain began. `MemoryPage` is the pagination of
the in-memory store.

### UploadLifecycle (with UploadStore)

Upload records, the object's content pointer, the collector's queue and the
provider. A handler is a sequence of calls (`pc`, `job`, `pid` hold its stage,
its upload and the provider id it read at the start); `TaskFails` may cut it
after any call. `CommitContent` is the whole commit transaction. A maintenance
pass is `ClaimExpired`, `AbortExpired`, `ExpiryDone`, `ClaimGc`, `DeleteBlob`,
`FailGc`, `FinishGc`, `CollectionDone`; several workers overlap freely, which is
more than one process allows and what several processes do. A pass may also claim
entries that came due after it began, which the fixed `now` of the code excludes:
the model has more behaviours there. Clock values are kept only as far as they
order events: a queue entry is due or comes due later; whether a session is
overdue when a pass looks is open. Clients hold the signed URLs they were given
and may use them at any later time. An upload id names its blob since
`blob_ref_for` derives one from the other.

`UploadStore` is the in-memory store again: one operation at a time on records,
pointers and queue. Its rules (which state may follow which, what a commit
queues and with which delay, what a claim may take) are what
`ImplementsUploadStore` holds the interleaved handlers and passes to.

### ContentDelivery

The local provider down to its files, with explicit time. Writing a file
truncates it first (`PutBegins`, `WriteBegins`) and fills it later (`PutEnds`,
`WriteEnds`), so a process that dies in between leaves it short (`PutDies`,
`TaskDies`), and of two writers of one file either may decide what it holds.
Nothing is assumed of clients or settings: a PUT may come at any time, before or
after the completion and several at once (`transport::upload` checks the
signature only, and a location is good for hours and can be renewed); any number
of requests may complete or abort one session, overlap and take any time, since
an idempotency key is optional. A reader reads the pointer and signs
(`ReadPointer`, `SignDownload`); the location is used any time until it expires
(`Download` is what it serves).

Two history variables say what may be expected. `accepted` holds the uploads
whose blob a completion found to be as declared and that nobody has opened for
writing since; `replaced` the `ctx.now` of the request that replaced an upload.
`LiveContentWhole`: live content is never collected, and whole if its upload is
in `accepted`. `LocationServesContent`: a location that has not expired serves the
same, until the grace period of the replaced blob is over or its object is
deleted. The exemptions are what the code really gives. A late PUT or a second
assembly does change committed content (section 5, item 8), so `accepted` loses
exactly the blobs such a write touched, and only at that write. The
grace period is counted from the beginning of the replacing request, so a long
assembly eats into it, and `ANYSTORE_DOWNLOAD_URL_EXPIRY_SECONDS` is never
compared with it (item 9): with the defaults, an hour and ten minutes, a location
expires first unless the request takes fifty minutes.

Some calls in a row are one action. `BeginComplete` is `get_upload`,
`get_object` and the update to `completing`, and `ReadPointer` the two reads of
`location`: what the earlier call finds can only go away for good, so a handler
that finds it gone later is one that fails later (`TaskDies`, or a reader that
does not go on). `Stat` reads the file at once.

### MaintenancePass

`MaintenanceService::run` with its flag per process, its deadline and its loops
(`ClaimExpired`, `Expired`, `ClaimGc`, `DeleteBlob`, `FailGc`, `SkipBlob`,
`Collected`), ended by `Finish`, `PassFails` or `Cancel` (the HTTP request is
dropped); started by `TimerFires` at the instant `next_after` gave, by `Post`,
and again by `TriggerRetries`, the cloud function. A row that a request's
transaction holds (`LockSession`) is skipped by a claim. `todo` is the history of
items that were due when a pass began and that nobody has dealt with.

## 3. Runs

| Run | Instance | Shows |
|---|---|---|
| `idem_tx` | 4 attempts (two requests, each with a retry), lease 1, retention 2, clock to 2, 1 poll | exactly-once, matching replies, final records, refinement of OnceOnly |
| `idem_session` | 2 attempts, separate completion, clock to 3, 2 polls, fair | refinement; every attempt is answered or crashed |
| `rpc` | 3 attempts (two of one request), 2 polls, clock to 1, 2 abandoned calls | refinement of OnceOnly, matching replies, definite errors are final |
| `feed` | 2 writers of one Change, 2 readers, page limit 1, 3 cursors, clock to 1, both purges | nothing skipped, stable pages, a next cursor outlives the cursor that leads to it, commit order is seq order |
| `feed_gap` | 2 writers, 1 reader, clock to 2 | violation, see 5 |
| `tree` | 6 rows, 3 transactions out of 11 requests, 3 lock attempts | serialisable (refinement of TreeStore), every prefix of the feed is a tree, feed equals rows, If-Match, lock order |
| `tree_live` | 2 transactions out of 5 crossing requests, 2 lock attempts, fair | every mutation ends |
| `upload_replace` | 2 single-shot sessions for one object, 2 handlers, 1 worker | live content readable, collected blobs dead, superseded content queued, ended sessions stay ended, refinement of UploadStore |
| `upload_live` | 1 multipart session, 2 provider ids, 1 handler, 1 worker, fair | the session ends, the queue drains |
| `content` | a single-shot and a two-part multipart session, 2 requests to complete or abort, 1 PUT at a time, 1 reader, grace 1, validity 1, clock to 2 | locations serve what was accepted until their grace is over, live content is kept and whole unless written to again |
| `maintenance` | 2 processes, a timer, 2 HTTP handlers, 2 items, batch 1, budget 1 | one pass per process, drained is true, one run per instant, passes end |
| `pages` | 6 rows, 3 mutations out of 10, 13 queries and lookups, limits 0 to 9 | steady rows once, pages in order, lookups, agreement with the in-memory store |

Each property of a passing run has a mutant of the model in `PROJECT.json` that
breaks it (the operators marked `Variant:` in the modules): the lock left out,
the WHERE clause dropped, the grace period forgotten.

### Bounds

Named bounds: `MaxTime`, `CONTENTION_POLLS`, `MaxCursors`, `MaxSeq`,
`DESCENDANT_LOCK_ATTEMPTS`, `MaxAbandoned`, `MaxAttempts` and the sizes of the
sets. Two attempts are enough for a takeover; the others carry a different
request on the same key, one to claim a released row and one to be answered from
it. Lease 1 and retention 2 make both expiries reachable, in that order, within
two ticks. `CONTENTION_POLLS` is 1 or 2 instead of 10 and
`DESCENDANT_LOCK_ATTEMPTS` 2 or 3 instead of 5: the loop bodies are identical,
and both "again" and "give up" occur. In RpcStore one tick expires a lease, and
two abandoned calls are a late mutation and a late release of one key. In
ChangeFeed three cursors give a chain of two pages and two concurrent first reads
of one cursor, and two sequence numbers a page boundary, a gap and a later
Change; with retention 0 and a cursor lifetime of 1, one tick makes Changes and
cursors expire while a read is open. In ObjectTree two folders with a child each
are the smallest tree in which moves cross at depth, and three transactions the
smallest number in which a third meets two in conflict. In UploadLifecycle two
handlers are the smallest number for each race of requests on a session and its
replacement; one worker suffices there because a dead pass releases its claims
and another finds them, and the invariants are proved for any number of workers
and of multipart sessions. The liveness run has one session: strong fairness per
call makes a second one too long for TLC. In ContentDelivery two
requests, each to complete or abort either session, are what it takes for two
assemblies of one blob to overlap, for one session to replace the other while a
reader holds its pointer, and for an abort to meet a completion; a third beside
them is covered by the proof. With grace and validity 1 and the clock to 2, a
location expires before, with and after the grace period of its blob, and the
collector takes the blob within the run. In MaintenancePass an instant is due at 1
and every two ticks, so a pass crosses its deadline and the timer its instant
within one tick. In KeysetPages folder 1 holds three rows, enough for a page
boundary inside a tie, and three mutations can move a row over the cursor, delete
the cursor's own row and create another.
`CHECK_DEADLOCK FALSE` is set where every request may have been served and the
clock stands at its bound.

Symmetry sets contain only values the specification treats alike (attempts with
the same request, writers, readers, transactions, handlers, uploads of one mode
and object, clients); runs that check liveness use none.

### Fairness

- Idempotency, `FairSpec`: a handler that has not crashed continues (the runtime
  polls ready futures). Arrival, crashes, failures, purge and clock get none.
- ObjectTree, `FairSpec`: a statement that can run runs, and a wait that lasts is
  ended by `lock_timeout`, which the store sets on every connection.
- UploadLifecycle, `FairSpec`: passes are scheduled again and again (in-process
  schedule or cloud function) and an idle worker starts one. A pass ends, since
  it claims what was due at its fixed `now` and has a deadline; it claims oldest
  first, so each entry that is due again and again is claimed (strong fairness
  per upload); and neither a provider nor a store refuses the same call for ever
  (strong fairness of the deletion and of the record's removal). Handlers and
  clients get no fairness at all.
- MaintenancePass, `FairSpec`: a pass that has not ended does its next step.
  The clock gets none, so no pass is saved by its deadline.

## 4. Proofs

`IdempotencyProofs` proves, for any number of attempts, lease, retention and
clock bound, `TypeOK`, `ExactlyOnce`, `ReplyMatchesRequest`, `CompletedIsFinal`
and the refinement `ImplementsOnceOnly`. Assumptions: `ConstantsAssumption` and
`NoRecordAssumption` (the absent row is not a row). The inductive invariant adds
two conjuncts. `EffectsArePast`: no effect carries a retention period that has
not begun, without which opening a new period could not be shown to start
without effects. `RecordMatchesRequest`: the row's hash is that of its owner or
of its response, which is what a takeover preserves because it writes the hash
of the new owner even when the row is not the one it read. The refinement needs
`AttemptHistory` besides: which stages exclude an answer or an effect already
given. The key step is `FinalizeStep`: an owner's row is unfinished, hence by
`ExactlyOnce` the current period has no effect yet, hence adding one is safe.

`UploadLifecycleProofs` proves, for any number of sessions, objects, handlers,
workers and batch size, `TypeOK`, `LiveContentReadable`, `CollectedBlobsAreDead`,
`EndedSessionsStayEnded`, `SupersededContentQueued` and the refinement
`ImplementsUploadStore`, from `UploadAssumption`. The invariant says: what is
queued or claimed is in an ended session and not live (so the collector can
delete nothing that will matter); a handler about to commit an open session has
its blob at the provider (the collector touches no open session's blob); live
content comes from a completed session for that object. `LiveContentReadable`
alone is not inductive: a commit preserves it only because of the second, a
deletion only because of the first. `QueueStep` adds that an entry leaves the
queue only after its blob was deleted. For the refinement each transaction maps to
the operation of the same name and every provider call to a stutter; `AbortStep`
is the case that needs a fact about the past (a handler aborts only a session
that has a record).

`ContentDeliveryProofs` proves `LiveContentWhole` and `LocationServesContent` for
any number of sessions, parts, requests, PUTs and readers, any clock, grace
period, validity and lease, from `ContentAssumption` only. The invariant says:
content comes from a completed session (`CompletedOnly`); a blob in `accepted` is
whole or gone (`AcceptedWhole`), which every write keeps by taking its blob out;
a request about to commit an open session has its blob, though it may have been
written to since (`CommitHasBlob`); what is queued or in the collector's hands
is not live and its session is not open (`QueuedDead`, `ClaimedDead`); what was
replaced was completed (`ReplacedCompleted`). `LiveContentWhole` follows by the
argument of UploadLifecycle, here with the files. For locations,
`CompletedKept`: the blob of a completed session is held until it is replaced
and its grace period is over, or its object is deleted; that invariant relates
the queue's `not_before` to `replaced` and needs no bound on requests.

`ChangeFeedProofs` proves, for any number of mutations, readers, cursors, page
limits and batch sizes, `TypeOK`, `ChangesCommitInOrder`, `NoChangeSkipped`,
`StableReread` and `NextCursorLives`, from `FeedAssumption`. None is inductive.
The argument turns on positions that are `Settled`: no Change that is still to
become visible has a number at or below them. Only the holder of the ordering
lock has reserved numbers (`Reserved`), and they lie above everything reserved
before, so every committed number is settled; the watermark, the maximum a reader
takes, the end of its page and the position of every cursor are committed numbers
or the start of the feed, so they are settled too (`CursorOK`, `ReaderOK`), and
what commits between two statements of a read never lands on its page
(`PageKept`). `StableReread` needs the row lock besides (`OneHolder`): the first
page of a cursor is built once. `NextCursorLives` needs that a read was in time
when it began, hence the continuation expires no earlier than its cursor.

`RpcStoreProofs` proves, for any number of attempts, polls, lost calls and
leases, `ReplyMatchesRequest`, `DefiniteErrorIsFinal` and the refinement
`ImplementsOnceOnly`, from `RpcAssumption` and `NamesAssumption` (attempts, error
codes and the absent row are told apart). A call that its handler has given up
may still run, so the invariant speaks of all calls and not of the waiting one:
an attempt has at most one call that can still take effect (`OneEffectful`), a
call that is answered tells the truth about the row (`AnswersTruthful`), and an
attempt that was told a definite error has no effect and leaves no call behind
that could have one (`Definite`). The last holds because 429 is sent
before the call is forwarded and the SQL functions' own errors roll back, while
every other status and every lost answer becomes `internal_error`, which promises
nothing.

`MaintenancePassProofs` proves, for any number of processes, callers and rows,
`FlagMeansPass`, `DrainedMeansDone` and `OncePerScheduledInstant`, from
`MaintenanceAssumption`. The flag of a process is set exactly while one of its
callers is inside a pass (`FlagSound`), on each of the ways a pass ends. For the
drained report, what is still to do was due at the pass's fixed `now`
(`DueThen`), is gone from the sessions after the first short batch
(`SessionsDone`) and from the queue after the second (`NothingLeft`): a short batch
means that the claim took all that was free. Timers sleep until an instant of the
schedule (`WakesOnSchedule`), and `next_after` returns the first such instant
after its argument (`NextAfter`), with its modulo arithmetic and any UTC offset.

`ObjectTreeProofs` proves, for every tree, set of requests and number of
transactions, `TypeOK`, `OrderLockHolderRuns`, `FeedTellsHistory`,
`IfMatchHonoured` and `EveryPrefixIsATree`, from `TreeAssumption` (the first tree
is one, a create draws a fresh id and has no If-Match, absent rows have revision
0, `None` is neither a transaction nor a request). The invariant has five layers,
each inductive given the ones before. `Shape`: what a transaction holds at each
stage. `Locks`: exclusive locks exclude, a share-locked parent is a live folder,
so rows a transaction has locked do not change under it. `RowsReady`: what it is
about to write is what its request asks of the locked rows. `Published`: the feed
is a list of Changes in which each revision of an object occurs once, and replays
to the rows. `TreeSound`: each prefix of the feed replays to a tree. The parent's
lock rules out orphans, and the ancestors checked a second time under the
Change-order lock (`CheckMove` and its recheck) rule out cycles; a deletion
publishes children before parents (`ChildrenFirstBy`), without which its last
prefix would be a tree and those in between not. Of merge patches the module
proves that repeating one changes nothing (`PatchIsIdempotent`) and that patches
of disjoint keys commute (`DisjointPatchesCommute`), which is why two concurrent
PATCH requests without If-Match lose neither's keys whichever commits first.

`KeysetPagesProofs` proves, for every tree, request, order, page size and number
of mutations, all five properties of the run `pages`: `SteadyRowsOnce`,
`PagesInOrder`, `ResolvedWhereAsked`, `EveryPageAdvances` and
`AgreesWithMemoryStore`, from `PageAssumption` and `TreeAssumption` (finitely many
objects, a live root, live siblings with different names). Places, that is sort
keys with the id as tie-breaker, are strictly ordered at every moment
(`BehindOrders`); a page is the next stretch of them behind the cursor
(`PageIsSound`); so what is delivered so far ends at the cursor, and a row that
stays at its place is either delivered or behind it, once and for all
(`SteadyTold`). For lookups, live siblings with different names make a path lead
to one object at most (`ResolvesToOne`), and the path rendered from that object is
the path asked for (`RenderedAsAsked`), because the ascent to the root retraces
the descent and, the tree being finite, is no longer than `Ids`
(`AscentIsShort`). The mutations are those of `TreeStore`, recursive deletes
included, so the proof goes through its recursive functions too. It rests on
three lemmas on numbers: a finite strict order lists its set (`Ranks`, `ByRank`);
hence finite sets have maxima, which gives induction over Nat for a set of numbers
in place of a predicate (`Induction`), and that gives recursive functions their
values (`Recursion`, `Recursive`).

Model-checked only: that ObjectTree implements `TreeStore` (`ImplementsTreeStore`),
whose proof needs the recursive query of one module compared with the recursive
function of the other at each commit; and all liveness properties
(`EveryAttemptAnswered`, `EveryMutationEnds`, `EverySessionEnds`, `QueueDrains`,
`EveryPassEnds`), which speak of fairness and so of ENABLED, out of the prover's
reach. Induction is used only where a set of numbers can stand for the predicate;
no theorem is by induction over trees, sequences or documents.

## 5. Where code and documents disagree

One run, `feed_gap`, checks a sentence of the documents that the code does not
keep: a purge between the watermark check and the page read makes a cursor skip
purged Changes without `410`. Details and lines are in `PROJECT.json` under
`findings`.

Noticed while reading, visible in the actions named, without a run:

1. A takeover (`StealLease`) may win another row than the one read and then derive
   resource ids from the token of the old one, although `metastore/idempotency.rs:23-24`
   calls the token stable for the lifetime of the record. It needs a release, a
   new claim and its expiry between two statements of one acquire.
2. That takeover overwrites `request_hash`; the in-memory store takes over only a
   row with an equal hash (`testkit/metastore.rs:972`).
3. `PurgeChanges` deletes by `changed_at` and can move the watermark beyond a
   retained Change, which an initial read then never returns, although
   `postgres/changes.rs:149` says it starts from the oldest retained one. The
   in-memory store purges a prefix only.
4. A crash between opening a provider multipart and storing its id leaves an
   upload that nothing aborts (`BeginCreate`, `InitiateMultipart`); Architecture
   line 830 says such an orphan must be cleaned.
5. Retention counts from the request's arrival, so "at least 24 hours after
   completion" falls short by the duration of the request.
6. A completion that finalises its blob after it lost against an abort or expiry
   whose entry was already collected leaves a blob on no queue, where Architecture
   21 says GC eventually removes it.
7. The in-memory store answers an empty last page when the cursor's item has left
   the listing, where the SQL stores go on behind its key; hence the condition in
   `AgreesWithMemoryStore`. Its mutations also keep their writes when finalising
   the idempotency record fails, where SQL rolls back. `testkit/metastore.rs:3-5`
   calls the behaviour deliberately identical.
8. The local provider: a late or repeated PUT truncates live content
   (`PutBegins`), and of two overlapping completions of one multipart session the
   second may assemble its parts over the blob the first has committed
   (`FindBlob`, `WriteBegins`). `blobstore/lib.rs:18-21` calls blobs immutable. A
   crash during assembly leaves a short file on which each retry fails, and a
   late PUT creates the file of an aborted and collected upload anew, on no queue.
   The properties of ContentDelivery exempt exactly the blobs written to after
   they were accepted.
9. `ANYSTORE_DOWNLOAD_URL_EXPIRY_SECONDS` and the grace period are never compared
   (`server/config.rs`), and the grace period counts from the arrival of the
   replacing request: the blob of a location may be gone before the location expires.
   `LocationServesContent` ends at the grace period for that reason.

## 6. What is not modelled

Signing, XML, HTTP routing and authentication, configuration, metrics and the
response documents: formats without shared state. `lag` and `has_more` of a
Changes page. Blob sizes and hashes: a mismatch is a failed call of
`EnsureUploadCompleted` or `Stat`. Unicode normalisation of names, the grammar of
content types and nested metadata documents. The If-Match and Changes of
`commit_content` are not repeated in UploadLifecycle: the lock and the append are
those of ObjectTree and ChangeFeed. The PostgREST calls for uploads, changes and
maintenance have no model of their own: each runs, in one transaction, the
statements that ChangeFeed and UploadLifecycle already interleave, and a lost
answer is there a handler that fails after the call. A client that changes order
or filter in the middle of a chain of pages. The collation of names: the columns of
`migrations/0001_init.sql:10-13` have the database's, the in-memory store compares
bytes (`testkit/metastore.rs:405`), and KeysetPages has one order for both, so
`AgreesWithMemoryStore` says nothing of databases whose collation is another.
Expiry of a session is in UploadLifecycle only; in ContentDelivery it would be one
more abort. Isolation below READ COMMITTED and
failures of PostgreSQL itself. The conformance suites are tests.

## 7. Plan

Done: the modules of section 2. What is left, in order:

1. Proofs: the refinement of `TreeStore` by `ObjectTree`. Every commit is one
   mutation of the store, with its Changes in the same order; everything else is
   a stutter. `RowsReady` gives the rows, `Published` the feed; what is missing is
   that the locked subtree is what `descendants` of the store lists, for which
   `Induction` and `Recursive` of `KeysetPagesProofs` are made.
2. `Idempotency` composed with session creation: derived ids across takeovers.
