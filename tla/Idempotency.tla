----------------------------- MODULE Idempotency -----------------------------
(***************************************************************************)
(* The idempotency record of one (principal, operation, key) scope, and    *)
(* the request attempts that race on it: claiming the key, taking over an  *)
(* expired lease, executing, finalising, releasing, and the retention      *)
(* purge.  Rows of different scopes never meet, so one scope is the whole  *)
(* story.                                                                  *)
(*                                                                         *)
(* Every SQL statement outside a mutation transaction is its own           *)
(* transaction, and is one action here.  A mutation transaction finalises  *)
(* the record and commits with it; until then its writes are invisible and *)
(* the record row is locked, so the pair is one action (FinalizeInTx).     *)
(***************************************************************************)
EXTENDS Integers

CONSTANTS
    Attempts,          \* request attempts; each carries a fresh owner token
    RequestHash,       \* [Attempts -> hash of the canonical request]
    InTransaction,     \* TRUE: idempotency::run; FALSE: run_with_completion
    Lease,             \* config.idempotency_lease
    Retention,         \* config.idempotency_retention
    CONTENTION_POLLS,  \* iterations of the acquire loop
    MaxTime,           \* bound on the clock
    None               \* absent value, and the absent row

ASSUME ConstantsAssumption ==
    /\ InTransaction \in BOOLEAN
    /\ Lease \in Nat \ {0}
    /\ Retention \in Nat \ {0}
    /\ CONTENTION_POLLS \in Nat \ {0}
    /\ MaxTime \in Nat
    /\ None \notin Attempts
    /\ "error" \notin Attempts
    /\ None # "error"
    /\ DOMAIN RequestHash = Attempts

VARIABLES
    rec,      \* the row of idempotency_records, or NoRecord
    now,      \* the clock
    pc,       \* where each attempt stands
    start,    \* ctx.now: the time the request arrived
    polls,    \* iterations of the acquire loop spent
    reply,    \* the attempt whose response was returned, "error", or None
    effects,  \* history: committed effects, with the retention period of each
    period    \* history: number of completed rows purged so far

vars == <<rec, now, pc, start, polls, reply, effects, period>>

Hashes == {RequestHash[a] : a \in Attempts}

Records ==
    [state: {"in_progress", "completed"}, hash: Hashes,
     owner: Attempts \cup {None}, lease_until: Nat,
     response: Attempts \cup {None}, expires_at: Nat]

NoRecord == None

ASSUME NoRecordAssumption == NoRecord \notin Records

Resting == {"idle", "done", "crashed"}
Working == {"insert", "read", "steal", "owner", "applied", "committed", "failed"}

TypeOK ==
    /\ rec \in Records \cup {NoRecord}
    /\ now \in Nat
    /\ pc \in [Attempts -> Resting \cup Working]
    /\ start \in [Attempts -> Nat]
    /\ polls \in [Attempts -> Nat]
    /\ reply \in [Attempts -> Attempts \cup {None, "error"}]
    /\ effects \in SUBSET [by: Attempts, period: Nat]
    /\ period \in Nat

Init ==
    /\ rec = NoRecord
    /\ now = 0
    /\ pc = [a \in Attempts |-> "idle"]
    /\ start = [a \in Attempts |-> 0]
    /\ polls = [a \in Attempts |-> 0]
    /\ reply = [a \in Attempts |-> None]
    /\ effects = {}
    /\ period = 0

-----------------------------------------------------------------------------
(* Helpers *)

Goto(a, l) == pc' = [pc EXCEPT ![a] = l]

Answer(a, r) == reply' = [reply EXCEPT ![a] = r] /\ Goto(a, "done")

InProgress == rec # NoRecord /\ rec.state = "in_progress"

Completed == rec # NoRecord /\ rec.state = "completed"

\* The WHERE clause of FINALIZE and of the release: still the owner's claim.
OwnedBy(a) == InProgress /\ rec.owner = a

\* Variant: the loop never counts its iterations.
PollAgainForever(a) == Goto(a, "insert") /\ UNCHANGED <<polls, reply>>

\* The next iteration of the acquire loop, or RateLimited after the last one.
PollAgain(a) ==
    /\ polls' = [polls EXCEPT ![a] = @ + 1]
    /\ IF polls[a] + 1 < CONTENTION_POLLS
       THEN Goto(a, "insert") /\ UNCHANGED reply
       ELSE Answer(a, "error")

-----------------------------------------------------------------------------
(* One request attempt *)

\* The request arrives: ctx.now is fixed for everything the attempt will do.
Begin(a) ==
    /\ pc[a] = "idle"
    /\ start' = [start EXCEPT ![a] = now]
    /\ Goto(a, "insert")
    /\ UNCHANGED <<rec, now, polls, reply, effects, period>>

\* Variant: the lease ends before it starts.
InsertClaimPastLease(a) ==
    /\ pc[a] = "insert"
    /\ rec = NoRecord
    /\ rec' = [state |-> "in_progress", hash |-> RequestHash[a],
               owner |-> a, lease_until |-> start[a] - Lease,
               response |-> None,
               expires_at |-> start[a] + Retention]
    /\ Goto(a, "owner")
    /\ UNCHANGED <<now, start, polls, reply, effects, period>>

\* INSERT ... ON CONFLICT DO NOTHING; the inserter owns the key.
InsertClaim(a) ==
    /\ pc[a] = "insert"
    /\ \/ /\ rec = NoRecord
          /\ rec' = [state |-> "in_progress", hash |-> RequestHash[a],
                     owner |-> a, lease_until |-> start[a] + Lease,
                     response |-> None,
                     expires_at |-> start[a] + Retention]
          /\ Goto(a, "owner")
       \/ /\ rec # NoRecord
          /\ Goto(a, "read")
          /\ UNCHANGED rec
    /\ UNCHANGED <<now, start, polls, reply, effects, period>>

\* A later statement reads the row that was in the way.
ReadRecord(a) ==
    /\ pc[a] = "read"
    /\ \/ /\ rec = NoRecord
          /\ PollAgain(a)
       \/ /\ rec # NoRecord
          /\ rec.hash # RequestHash[a]
          /\ Answer(a, "error")
          /\ UNCHANGED polls
       \/ /\ Completed
          /\ rec.hash = RequestHash[a]
          /\ Answer(a, rec.response)
          /\ UNCHANGED polls
       \/ /\ InProgress
          /\ rec.hash = RequestHash[a]
          /\ rec.lease_until > now
          /\ PollAgain(a)
       \/ /\ InProgress
          /\ rec.hash = RequestHash[a]
          /\ rec.lease_until <= now
          /\ Goto(a, "steal")
          /\ UNCHANGED <<polls, reply>>
    /\ UNCHANGED <<rec, now, start, effects, period>>

\* Variant: the takeover leaves request_hash as it was.
StealLeaseKeepingHash(a) ==
    /\ pc[a] = "steal"
    /\ InProgress
    /\ rec.lease_until <= now
    /\ rec' = [rec EXCEPT !.owner = a, !.lease_until = start[a] + Lease]
    /\ Goto(a, "owner")
    /\ UNCHANGED <<now, start, polls, reply, effects, period>>

\* The row after STEAL_LEASE by attempt a.
Stolen(a) ==
    [rec EXCEPT !.owner = a, !.hash = RequestHash[a],
                !.lease_until = start[a] + Lease]

\* Takes over the claim if, now, it is still unfinished and expired.  The row
\* may not be the one ReadRecord saw.
StealLease(a) ==
    /\ pc[a] = "steal"
    /\ \/ /\ InProgress
          /\ rec.lease_until <= now
          /\ rec' = Stolen(a)
          /\ Goto(a, "owner")
          /\ UNCHANGED <<polls, reply>>
       \/ /\ ~(InProgress /\ rec.lease_until <= now)
          /\ PollAgain(a)
          /\ UNCHANGED rec
    /\ UNCHANGED <<now, start, effects, period>>

\* The row after FINALIZE by attempt a.
Finalized(a) ==
    [rec EXCEPT !.state = "completed", !.response = a, !.owner = None,
                !.lease_until = 0, !.expires_at = start[a] + Retention]

\* Variant: FINALIZE does not look at the owner token or the state.
FinalizeInTxUnguarded(a) ==
    /\ InTransaction
    /\ pc[a] = "owner"
    /\ rec # NoRecord
    /\ rec' = Finalized(a)
    /\ effects' = effects \cup {[by |-> a, period |-> period]}
    /\ Goto(a, "committed")
    /\ UNCHANGED <<now, start, polls, reply, period>>

\* A mutation transaction: effect, finalised record and commit in one step;
\* without the claim the whole transaction is abandoned.
FinalizeInTx(a) ==
    /\ InTransaction
    /\ pc[a] = "owner"
    /\ \/ /\ OwnedBy(a)
          /\ rec' = Finalized(a)
          /\ effects' = effects \cup {[by |-> a, period |-> period]}
          /\ Goto(a, "committed")
       \/ /\ ~OwnedBy(a)
          /\ Goto(a, "failed")
          /\ UNCHANGED <<rec, effects>>
    /\ UNCHANGED <<now, start, polls, reply, period>>

\* The commit's answer reaches the handler, or is lost on the way back.
Committed(a) ==
    /\ pc[a] = "committed"
    /\ \/ Answer(a, a)
       \/ Goto(a, "failed") /\ UNCHANGED reply
    /\ UNCHANGED <<rec, now, start, polls, effects, period>>

\* run_with_completion: the operation takes effect on its own (an upload row
\* whose id is derived from the resource token), the record comes later.
Apply(a) ==
    /\ ~InTransaction
    /\ pc[a] = "owner"
    /\ Goto(a, "applied")
    /\ UNCHANGED <<rec, now, start, polls, reply, effects, period>>

\* Variant: complete() overwrites the row whoever owns it.
CompleteUnguarded(a) ==
    /\ pc[a] = "applied"
    /\ rec # NoRecord
    /\ rec' = Finalized(a)
    /\ effects' = effects \cup {[by |-> a, period |-> period]}
    /\ Answer(a, a)
    /\ UNCHANGED <<now, start, polls, period>>

\* complete(): a lost claim is an error that is returned without a release;
\* the answer of a landed UPDATE can be lost as well.
Complete(a) ==
    /\ pc[a] = "applied"
    /\ \/ /\ OwnedBy(a)
          /\ rec' = Finalized(a)
          /\ effects' = effects \cup {[by |-> a, period |-> period]}
          /\ \E r \in {a, "error"} : Answer(a, r)
       \/ /\ ~OwnedBy(a)
          /\ Answer(a, "error")
          /\ UNCHANGED <<rec, effects>>
    /\ UNCHANGED <<now, start, polls, period>>

\* The operation itself fails: validation, If-Match, a lock timeout, a store.
OperationFails(a) ==
    /\ pc[a] = "owner"
    /\ Goto(a, "failed")
    /\ UNCHANGED <<rec, now, start, polls, reply, effects, period>>

\* fail_or_release, whose own failure is ignored; then the error is returned.
FailOrRelease(a) ==
    /\ pc[a] = "failed"
    /\ \/ OwnedBy(a) /\ rec' = NoRecord
       \/ UNCHANGED rec
    /\ Answer(a, "error")
    /\ UNCHANGED <<now, start, polls, effects, period>>

\* The instance dies: its open transaction rolls back, its claim stays.
Crash(a) ==
    /\ pc[a] \in Working
    /\ Goto(a, "crashed")
    /\ UNCHANGED <<rec, now, start, polls, reply, effects, period>>

-----------------------------------------------------------------------------
(* The environment *)

\* Variant: the purge ignores expires_at.
PurgeTooEarly ==
    /\ rec # NoRecord
    /\ rec' = NoRecord
    /\ period' = IF Completed THEN period + 1 ELSE period
    /\ UNCHANGED <<now, pc, start, polls, reply, effects>>

\* Maintenance deletes the row once expires_at has passed, whatever its state.
PurgeIdempotencyRecords ==
    /\ rec # NoRecord
    /\ rec.expires_at <= now
    /\ rec' = NoRecord
    /\ period' = IF Completed THEN period + 1 ELSE period
    /\ UNCHANGED <<now, pc, start, polls, reply, effects>>

Tick ==
    /\ now < MaxTime
    /\ now' = now + 1
    /\ UNCHANGED <<rec, pc, start, polls, reply, effects, period>>

Step(a) ==
    \/ InsertClaim(a)
    \/ ReadRecord(a)
    \/ StealLease(a)
    \/ FinalizeInTx(a)
    \/ Committed(a)
    \/ Apply(a)
    \/ Complete(a)
    \/ FailOrRelease(a)

Next ==
    \/ \E a \in Attempts : Begin(a) \/ Step(a) \/ OperationFails(a) \/ Crash(a)
    \/ PurgeIdempotencyRecords
    \/ Tick

Spec == Init /\ [][Next]_vars

\* A request handler that has not crashed keeps running; arrival of requests,
\* crashes, operation failures, the purge and the clock promise nothing.
FairSpec == Spec /\ \A a \in Attempts : WF_vars(Step(a))

-----------------------------------------------------------------------------
(* Properties *)

\* At most one attempt takes effect while the record is retained, whatever
\* leases expire, attempts crash or commit answers get lost: a committed
\* effect is exactly the response the record replays.
ExactlyOnce ==
    /\ \A e, f \in effects : e.period = f.period => e = f
    /\ \A e \in effects : e.period = period => Completed /\ rec.response = e.by
    /\ Completed => [by |-> rec.response, period |-> period] \in effects

\* A client only ever receives the response of a request identical to its
\* own, even when the row was released, claimed for another request and taken
\* over between two statements of one acquire.
ReplyMatchesRequest ==
    \A a \in Attempts :
        reply[a] \in Attempts => RequestHash[reply[a]] = RequestHash[a]

\* What makes ReplyMatchesRequest inductive: the row's hash is the hash of the
\* attempt that owns it or whose response it holds.
RecordMatchesRequest ==
    rec # NoRecord =>
        /\ rec.state = "in_progress" =>
              rec.owner \in Attempts /\ RequestHash[rec.owner] = rec.hash
        /\ rec.state = "completed" =>
              rec.response \in Attempts /\ RequestHash[rec.response] = rec.hash

\* A completed record is never taken over, released or rewritten: only the
\* retention purge ends it.
CompletedIsFinal ==
    [][Completed
          => rec' = rec \/ (rec' = NoRecord /\ rec.expires_at <= now)]_vars

\* Every attempt that does not crash gets an answer: the acquire loop cannot
\* wait for ever on a stuck owner.
EveryAttemptAnswered ==
    \A a \in Attempts : pc[a] \in Working ~> pc[a] \in {"done", "crashed"}

\* The record implements a once-only register: refinement of OnceOnly.
Once == INSTANCE OnceOnly WITH
    outcome <- IF Completed THEN rec.response ELSE None,
    applied <- {e.by : e \in effects}

\* Every behaviour of the attempts, crashes and takeovers included, is one of
\* the abstract register; the answer of each attempt is the register's.
ImplementsOnceOnly == Once!ASpec

=============================================================================
