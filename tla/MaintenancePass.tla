-------------------------- MODULE MaintenancePass --------------------------
(***************************************************************************)
(* MaintenanceService::run and what starts it: the daily timer of a        *)
(* process, POST /internal/maintenance, and the cloud function that posts, *)
(* retries and posts again while work is left.                             *)
(*                                                                         *)
(* UploadLifecycle shows that the calls a pass makes are safe in any       *)
(* order; here time is explicit, and the questions are those of the loop:  *)
(* a pass works with the `now` it started with and a deadline, claims move *)
(* not_before past that `now`, one flag per process keeps passes apart,    *)
(* and a pass can fail or be cancelled at any call.                        *)
(*                                                                         *)
(* An item is an upload session and its blob.  A session ends expired or   *)
(* completed; completed content dies when it is replaced or deleted.       *)
(***************************************************************************)
EXTENDS Integers, FiniteSets

CONSTANTS
    Items,
    ExpiresAt,     \* [Items -> expires_at of the session]
    Callers,       \* who can run a pass
    Timers,        \* the callers that are a process's timer; the others are http
    ProcessOf,     \* [Callers -> process]
    BatchSize,     \* gc_batch_size
    Lease,         \* GC_LEASE_MINUTES
    Budget,        \* maintenance_budget
    Day, At, Offset,   \* the daily schedule: local time At, Offset ahead of UTC
    MAX_ATTEMPTS, MAX_PASSES,  \* of the cloud function
    MaxTime,       \* bound on the clock
    MaxAttempts,   \* where the count of failed deletions stops counting
    None

Processes == {ProcessOf[c] : c \in Callers}

ASSUME MaintenanceAssumption ==
    /\ ExpiresAt \in [Items -> Nat]
    /\ Timers \subseteq Callers
    /\ BatchSize \in Nat \ {0} /\ Lease \in Nat \ {0} /\ Budget \in Nat
    /\ Day \in Nat \ {0} /\ At \in 0..(Day - 1) /\ Offset \in Int
    /\ MAX_ATTEMPTS \in Nat \ {0} /\ MAX_PASSES \in Nat \ {0}
    /\ MaxTime \in Nat /\ MaxAttempts \in Nat
    /\ None \notin Callers

VARIABLES
    clock,
    kind,      \* each item: "active" session, "busy" (its row is locked by a
               \* request's transaction), "live" content, or "dead"
    queue,     \* blob_gc_queue: [not_before, attempts], or None
    running,   \* the flag of each process
    pass,      \* what each caller is in the middle of
    wake,      \* the instant each timer sleeps until
    trigger,   \* the cloud function
    todo       \* history: items due when a pass began that nobody dealt with

vars == <<clock, kind, queue, running, pass, wake, trigger, todo>>

store == <<kind, queue>>

NoPass == [at |-> "none", now |-> 0, deadline |-> 0, batch |-> {}, full |-> FALSE,
           drained |-> TRUE]

-----------------------------------------------------------------------------
(* Time *)

\* Variant: an instant that has come is still today's.
next_after_or_at(now) ==
    LET local == now + Offset
        today == local - (local % Day) + At
    IN  (IF today >= local THEN today ELSE today + Day) - Offset

\* DailySchedule::next_after: the first scheduled instant after now.
next_after(now) ==
    LET local == now + Offset
        today == local - (local % Day) + At
    IN  (IF today > local THEN today ELSE today + Day) - Offset

\* Variant: a failed entry is due again at once.
BackoffNone(attempts) == 0

\* 60 s doubling with every failed attempt, up to ten times.
Backoff(attempts) == 2 ^ (IF attempts > 10 THEN 10 ELSE attempts)

-----------------------------------------------------------------------------
(* The store's claims *)

Expirable(now) == {i \in Items : kind[i] = "active" /\ ExpiresAt[i] <= now}

Collectable(now) ==
    {i \in Items : queue[i] # None /\ queue[i].not_before <= now /\ kind[i] # "live"}

\* What a claim of at most BatchSize rows may take out of S.
BatchOf(S) ==
    IF Cardinality(S) < BatchSize THEN {S} ELSE {B \in SUBSET S : Cardinality(B) = BatchSize}

\* A claim skips locked rows: nothing is promised for those.
Skipped == {i \in Items : kind[i] = "busy"}

\* What is left of every pass's list once the store is as kind' and queue' say.
StillDue(c) ==
    {i \in todo[c] :
        \/ kind'[i] \in {"active", "busy"}
        \/ kind'[i] = "dead" /\ queue'[i] # None /\ queue'[i].not_before <= pass[c].now}

-----------------------------------------------------------------------------
(* MaintenanceService::run *)

\* running.swap(true): the pass that finds the flag set is refused.
Run(c) ==
    IF running[ProcessOf[c]]
    THEN UNCHANGED <<running, pass, todo>>
    ELSE /\ running' = [running EXCEPT ![ProcessOf[c]] = TRUE]
         /\ pass' = [pass EXCEPT ![c] = [NoPass EXCEPT !.at = "expire", !.now = clock,
                                                       !.deadline = clock + Budget]]
         /\ todo' = [todo EXCEPT ![c] = Expirable(clock) \cup Collectable(clock)]

Ended == [at |-> "ended", caller |-> None, pass |-> 0, attempt |-> 0]

\* The cloud function's next step: with work left another pass is due, until
\* MAX_PASSES; drained, already running or an error end it.
Told(result) ==
    IF result = "leftover" /\ trigger.pass < MAX_PASSES
    THEN [at |-> "post", caller |-> None, pass |-> trigger.pass + 1, attempt |-> 1]
    ELSE Ended

\* The answer of caller c reaches the function if that still waits for it.
Answer(c, result) ==
    trigger' = IF trigger.caller = c THEN Told(result) ELSE trigger

\* Variant: a pass that returns an error leaves the flag set.
EndKeepingFlag(c, result) ==
    /\ running' = [running EXCEPT ![ProcessOf[c]] = result = "error"]
    /\ pass' = [pass EXCEPT ![c] = NoPass]
    /\ todo' = [todo EXCEPT ![c] = {}]
    /\ Answer(c, result)

\* However it ends, RunningGuard clears the flag.
End(c, result) ==
    /\ running' = [running EXCEPT ![ProcessOf[c]] = FALSE]
    /\ pass' = [pass EXCEPT ![c] = NoPass]
    /\ todo' = [todo EXCEPT ![c] = {}]
    /\ Answer(c, result)

\* claim_expired_uploads: the sessions' blobs are queued as due at once.
ClaimExpired(c) ==
    /\ pass[c].at = "expire"
    /\ \E B \in BatchOf(Expirable(pass[c].now)) :
          /\ kind' = [i \in Items |-> IF i \in B THEN "dead" ELSE kind[i]]
          /\ queue' = [i \in Items |->
                IF i \in B /\ queue[i] = None
                THEN [not_before |-> pass[c].now, attempts |-> 0] ELSE queue[i]]
          /\ pass' = [pass EXCEPT ![c].at = "expired",
                                  ![c].full = Cardinality(B) = BatchSize]
    /\ todo' = [d \in Callers |-> IF d = c THEN StillDue(c) \ Skipped ELSE StillDue(d)]
    /\ UNCHANGED <<clock, running, wake, trigger>>

\* Variant: running out of time is not reported.
AfterBatchSilent(c, again, then) ==
    pass' = [pass EXCEPT ![c].at = IF pass[c].full /\ clock < pass[c].deadline
                                   THEN again ELSE then]

\* After a batch: a short one ends the loop, a full one when time is up, and
\* then the pass is not drained.
AfterBatch(c, again, then) ==
    LET outOfTime == pass[c].full /\ clock >= pass[c].deadline IN
    pass' = [pass EXCEPT ![c].at = IF pass[c].full /\ ~outOfTime THEN again ELSE then,
                         ![c].full = FALSE,
                         ![c].drained = @ /\ ~outOfTime]

\* abort_upload of each claimed session is best effort and leaves no trace here.
Expired(c) ==
    /\ pass[c].at = "expired"
    /\ AfterBatch(c, "expire", "collect")
    /\ UNCHANGED <<clock, store, running, wake, trigger, todo>>

\* claim_gc_batch: the claim is a lease on the entries.
ClaimGc(c) ==
    /\ pass[c].at = "collect"
    /\ \E B \in BatchOf(Collectable(pass[c].now)) :
          /\ queue' = [i \in Items |->
                IF i \in B THEN [queue[i] EXCEPT !.not_before = pass[c].now + Lease]
                ELSE queue[i]]
          /\ pass' = [pass EXCEPT ![c].at = "delete", ![c].batch = B,
                                  ![c].full = Cardinality(B) = BatchSize]
    /\ UNCHANGED kind
    /\ todo' = [d \in Callers |-> StillDue(d)]
    /\ UNCHANGED <<clock, running, wake, trigger>>

\* delete_blob and finish_gc.
DeleteBlob(c) ==
    /\ pass[c].at = "delete"
    /\ \E i \in pass[c].batch :
          /\ queue' = [queue EXCEPT ![i] = None]
          /\ pass' = [pass EXCEPT ![c].batch = @ \ {i}]
    /\ UNCHANGED kind
    /\ todo' = [d \in Callers |-> StillDue(d)]
    /\ UNCHANGED <<clock, running, wake, trigger>>

\* delete_blob fails: fail_gc.
FailGc(c) ==
    /\ pass[c].at = "delete"
    /\ \E i \in pass[c].batch :
          /\ queue' = [queue EXCEPT ![i] =
                IF @ = None THEN None
                ELSE [not_before |-> pass[c].now + Backoff(@.attempts),
                      attempts |-> IF @.attempts < MaxAttempts THEN @.attempts + 1 ELSE @.attempts]]
          /\ pass' = [pass EXCEPT ![c].batch = @ \ {i}]
    /\ UNCHANGED kind
    /\ todo' = [d \in Callers |-> StillDue(d)]
    /\ UNCHANGED <<clock, running, wake, trigger>>

\* No provider answers to the entry's backend: it stays claimed.
SkipBlob(c) ==
    /\ pass[c].at = "delete"
    /\ \E i \in pass[c].batch : pass' = [pass EXCEPT ![c].batch = @ \ {i}]
    /\ UNCHANGED <<clock, store, running, wake, trigger, todo>>

Collected(c) ==
    /\ pass[c].at = "delete" /\ pass[c].batch = {}
    /\ AfterBatch(c, "collect", "purge")
    /\ UNCHANGED <<clock, store, running, wake, trigger, todo>>

\* A timer sleeps until the schedule's next instant; http callers have none.
SleepAfter(c) == wake' = IF c \in Timers THEN [wake EXCEPT ![c] = next_after(clock)] ELSE wake

\* The three purges touch nothing a pass looks at; then the report is returned.
Finish(c) ==
    /\ pass[c].at = "purge"
    /\ End(c, IF pass[c].drained THEN "drained" ELSE "leftover")
    /\ SleepAfter(c)
    /\ UNCHANGED <<clock, store>>

\* A call of the store fails: the pass returns the error.
PassFails(c) ==
    /\ pass[c].at # "none"
    /\ End(c, "error")
    /\ SleepAfter(c)
    /\ UNCHANGED <<clock, store>>

\* The http client hangs up and its handler is dropped at an await.
Cancel(c) ==
    /\ c \notin Timers
    /\ pass[c].at # "none"
    /\ running' = [running EXCEPT ![ProcessOf[c]] = FALSE]
    /\ pass' = [pass EXCEPT ![c] = NoPass]
    /\ todo' = [todo EXCEPT ![c] = {}]
    /\ UNCHANGED <<clock, store, wake, trigger>>

PassStep(c) ==
    \/ ClaimExpired(c) \/ Expired(c) \/ ClaimGc(c) \/ DeleteBlob(c) \/ FailGc(c)
    \/ SkipBlob(c) \/ Collected(c) \/ Finish(c)

-----------------------------------------------------------------------------
(* What starts passes *)

\* spawn_maintenance: the sleep is over.
TimerFires(c) ==
    /\ c \in Timers
    /\ pass[c].at = "none"
    /\ wake[c] <= clock
    /\ Run(c)
    /\ IF running[ProcessOf[c]] THEN SleepAfter(c) ELSE UNCHANGED wake
    /\ UNCHANGED <<clock, store, trigger>>

\* POST /internal/maintenance reaches some instance: 202 if a pass is running
\* there, else its answer comes when the pass ends.
Post(c) ==
    /\ c \notin Timers
    /\ pass[c].at = "none"
    /\ trigger.at = "post"
    /\ Run(c)
    /\ trigger' = IF running[ProcessOf[c]] THEN Told("already_running")
                  ELSE [trigger EXCEPT !.at = "wait", !.caller = c]
    /\ UNCHANGED <<clock, store, wake>>

\* 502, 503, 504, a dropped connection or the 60 s timeout: try again.
TriggerRetries ==
    /\ trigger.at = "wait"
    /\ trigger' = IF trigger.attempt < MAX_ATTEMPTS
                  THEN [trigger EXCEPT !.at = "post", !.caller = None, !.attempt = @ + 1]
                  ELSE Ended
    /\ UNCHANGED <<clock, store, running, pass, wake, todo>>

-----------------------------------------------------------------------------
(* Requests and time *)

\* A request's transaction locks the session's row, and completes it or not.
LockSession(i) ==
    /\ kind[i] = "active"
    /\ kind' = [kind EXCEPT ![i] = "busy"]
    /\ UNCHANGED <<clock, queue, running, pass, wake, trigger, todo>>

UnlockSession(i) ==
    /\ kind[i] = "busy"
    /\ \E k \in {"active", "live"} : kind' = [kind EXCEPT ![i] = k]
    /\ UNCHANGED queue
    /\ todo' = [d \in Callers |-> StillDue(d)]
    /\ UNCHANGED <<clock, running, pass, wake, trigger>>

\* Content is replaced or its object deleted: ctx.now, or a grace period later.
Discard(i) ==
    /\ kind[i] = "live"
    /\ kind' = [kind EXCEPT ![i] = "dead"]
    /\ \E grace \in {0, Lease} :
          queue' = [queue EXCEPT ![i] = [not_before |-> clock + grace, attempts |-> 0]]
    /\ UNCHANGED <<clock, running, pass, wake, trigger, todo>>

Tick ==
    /\ clock < MaxTime
    /\ clock' = clock + 1
    /\ UNCHANGED <<store, running, pass, wake, trigger, todo>>

-----------------------------------------------------------------------------

Init ==
    /\ clock = 0
    /\ kind = [i \in Items |-> "active"]
    /\ queue = [i \in Items |-> None]
    /\ running = [p \in Processes |-> FALSE]
    /\ pass = [c \in Callers |-> NoPass]
    /\ wake = [c \in Callers |-> next_after(0)]
    /\ trigger = [at |-> "post", caller |-> None, pass |-> 1, attempt |-> 1]
    /\ todo = [c \in Callers |-> {}]

Next ==
    \/ \E c \in Callers :
          PassStep(c) \/ PassFails(c) \/ Cancel(c) \/ TimerFires(c) \/ Post(c)
    \/ TriggerRetries
    \/ \E i \in Items : LockSession(i) \/ UnlockSession(i) \/ Discard(i)
    \/ Tick

Spec == Init /\ [][Next]_vars

\* A pass keeps working until it ends.  Time promises nothing, so no pass is
\* saved by its deadline.
FairSpec == Spec /\ \A c \in Callers : WF_vars(PassStep(c))

-----------------------------------------------------------------------------
(* Properties *)

\* The flag of a process is set exactly while one of its callers is in a pass,
\* whatever ended the passes before: none overlap, none is locked out.
FlagMeansPass ==
    \A p \in Processes :
        Cardinality({c \in Callers : ProcessOf[c] = p /\ pass[c].at # "none"})
            = IF running[p] THEN 1 ELSE 0

\* "False when the time budget ran out with expiry or GC work left over"
\* (maintenance.rs): a pass that calls itself drained leaves no session and no
\* blob that was due when it began, except rows a transaction held on to.
DrainedMeansDone ==
    \A c \in Callers : pass[c].at = "purge" /\ pass[c].drained => todo[c] = {}

\* A timer runs once for each scheduled instant: when a pass is over it sleeps
\* until a later one, which is at the local time of the schedule.
OncePerScheduledInstant ==
    [][\A c \in Timers :
        /\ pass[c].at # "none" /\ pass'[c].at = "none" => wake'[c] > clock
        /\ (wake'[c] + Offset) % Day = At]_vars

\* Every pass ends, deadline or not: what it claims it does not meet again.
EveryPassEnds == \A c \in Callers : pass[c].at # "none" ~> pass[c].at = "none"
=============================================================================
