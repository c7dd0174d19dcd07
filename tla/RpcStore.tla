------------------------------ MODULE RpcStore ------------------------------
(***************************************************************************)
(* The PostgREST metadata store: every persistence operation is one HTTP   *)
(* call, which the database runs as one transaction.  A request handler    *)
(* works one Idempotency-Key scope through it: acquire, the operation,     *)
(* complete or release.                                                    *)
(*                                                                         *)
(* The transport decides nothing: a call can be refused by the gateway,    *)
(* time out before or after the database ran it, lose its answer, or run   *)
(* long after the handler stopped waiting and its client retried the key   *)
(* with another attempt.  `calls` holds every call sent and not yet        *)
(* received; a handler waits for the call named by its pc.  The retention *)
(* purge is not here (Idempotency has it): a record is kept far longer than*)
(* a call can be in flight.                                                *)
(***************************************************************************)
EXTENDS Integers, FiniteSets

CONSTANTS
    Attempts,          \* request attempts; each carries a fresh owner token
    RequestHash,       \* [Attempts -> hash of the canonical request]
    Lease,             \* config.idempotency_lease
    CONTENTION_POLLS,  \* iterations of the acquire loop
    MaxTime,           \* bound on the clock
    MaxAbandoned,      \* bound on the calls running with nobody waiting
    None               \* absent value, and the absent row

ASSUME RpcAssumption ==
    /\ Lease \in Nat \ {0}
    /\ CONTENTION_POLLS \in Nat \ {0}
    /\ MaxTime \in Nat
    /\ MaxAbandoned \in Nat
    /\ None \notin Attempts
    /\ DOMAIN RequestHash = Attempts

Hashes == {RequestHash[a] : a \in Attempts}

\* A row of idempotency_records.
Records ==
    [state: {"in_progress", "completed"}, hash: Hashes,
     owner: Attempts \cup {None}, lease_until: Nat, response: Attempts \cup {None}]

VARIABLES
    rendered,  \* TRUE: a mutation that renders and commits its own response
    rec,       \* the row of idempotency_records, or None
    now,       \* the clock
    pc,        \* the call each attempt waits for, or where it rests
    start,     \* ctx.now: the time the request arrived
    polls,     \* iterations of the acquire loop spent
    calls,     \* the calls sent, running in the database, or answered
    reply,     \* what the handler returns: an attempt's response, a code, None
    effects    \* history: the attempts whose effect committed

vars == <<rendered, rec, now, pc, start, polls, calls, reply, effects>>

store == <<rec, effects>>

-----------------------------------------------------------------------------
(* What an answer says *)

\* What an operation can raise: a code of the API contract (name_conflict
\* stands for all of them) or one the adapter does not know.
RaisedCodes == {"name_conflict", "unknown"}

ContractCodes ==
    {"name_conflict", "rate_limited", "idempotency_key_reused", "internal_error"}

\* Responses, error codes, rows and the absent value are told apart.
ASSUME NamesAssumption ==
    /\ Attempts \cap ContractCodes = {}
    /\ None \notin ContractCodes \cup Records

\* An unknown code stays opaque.
into_domain(code) == IF code \in ContractCodes THEN code ELSE "internal_error"

\* 429 is sent before the call is forwarded, like the other refusals.
Refusals == {401, 429}

Breakdowns == {500, 504}

\* Variant: a gateway that breaks down is reported as one that is busy.
map_http_status_busy(status) ==
    IF status \in {429, 500, 504} THEN "rate_limited" ELSE "internal_error"

\* A failing metadata store is never the caller's fault.
map_http_status(status) ==
    IF status = 429 THEN "rate_limited" ELSE "internal_error"

\* The envelope: ok with a decision or a response, or an error code.
Ok(decision, response) ==
    [ok |-> TRUE, code |-> "", decision |-> decision, response |-> response]

Err(code) == [ok |-> FALSE, code |-> code, decision |-> "", response |-> None]

-----------------------------------------------------------------------------
(* Calls *)

Ops == {"acquire", "mutate", "complete", "release"}

Waiting(c) == pc[c.by] = c.op

\* One request: nothing of it has happened yet.
Sent(a, op) == [by |-> a, op |-> op, at |-> "sent", began |-> None, answer |-> None]

\* The calls left when a is done with its answer: one it gave up stays there.
Left(a) == {c \in calls : ~(c.by = a /\ c.at = "answered")}

\* The handler of a issues its next call and waits for it.
Call(a, op) ==
    /\ pc' = [pc EXCEPT ![a] = op]
    /\ calls' = Left(a) \cup {Sent(a, op)}

\* Bound: one more call can be left running.
MayAbandon == Cardinality({c \in calls : ~Waiting(c)}) < MaxAbandoned

Rest(a) ==
    /\ pc' = [pc EXCEPT ![a] = "done"]
    /\ calls' = Left(a)

\* The database moves call c on; an answer nobody waits for is dropped.
Runs(c, d) == calls' = (calls \ {c}) \cup {d}

Answers(c, e) ==
    calls' = (calls \ {c}) \cup
        (IF Waiting(c) THEN {[c EXCEPT !.at = "answered", !.answer = e]} ELSE {})

-----------------------------------------------------------------------------
(* The database *)

InProgress == rec # None /\ rec.state = "in_progress"

Completed == rec # None /\ rec.state = "completed"

\* The WHERE clause of finalize and release: still the attempt's claim.
OwnedBy(a) == InProgress /\ rec.owner = a

idempotency_acquire(a) ==
    [state |-> "in_progress", hash |-> RequestHash[a], owner |-> a,
     lease_until |-> start[a] + Lease, response |-> None]

\* INSERT ... ON CONFLICT DO NOTHING, the first statement of the call.
Insert(c) ==
    /\ c.op = "acquire" /\ c.at = "sent"
    /\ \/ /\ rec = None
          /\ rec' = idempotency_acquire(c.by)
          /\ Answers(c, Ok("owner", None))
       \/ /\ rec # None
          /\ Runs(c, [c EXCEPT !.at = "read", !.began = now])
          /\ UNCHANGED rec
    /\ UNCHANGED <<rendered, now, pc, start, polls, reply, effects>>

\* Variant: a completed record answers whatever request comes.
DecisionAnyRequest(c) ==
    CASE rec = None -> "retry"
      [] Completed  -> "replay"
      [] OTHER      -> "busy"

\* The function's branches, in their order.
Decision(c) ==
    IF rec = None THEN "retry"
    ELSE IF rec.hash # RequestHash[c.by] THEN "conflict"
    ELSE IF Completed THEN "replay" ELSE "busy"

\* The SELECT, which may see another row than the one the INSERT met.
Select(c) ==
    /\ c.op = "acquire" /\ c.at = "read"
    /\ IF Decision(c) = "busy" /\ rec.lease_until <= c.began
       THEN Runs(c, [c EXCEPT !.at = "steal"])
       ELSE Answers(c, Ok(Decision(c), IF rec = None THEN None ELSE rec.response))
    /\ UNCHANGED <<rendered, now, pc, start, polls, reply, store>>

\* The takeover's row.
TakenOver(a) ==
    [rec EXCEPT !.owner = a, !.hash = RequestHash[a], !.lease_until = start[a] + Lease]

\* The UPDATE, on whatever row is there by then.
Update(c) ==
    /\ c.op = "acquire" /\ c.at = "steal"
    /\ IF InProgress /\ rec.lease_until <= c.began
       THEN /\ rec' = TakenOver(c.by)
            /\ Answers(c, Ok("owner", None))
       ELSE /\ Answers(c, Ok("busy", None))
            /\ UNCHANGED rec
    /\ UNCHANGED <<rendered, now, pc, start, polls, reply, effects>>

\* The row once the response of a is in it.
Finalized(a) ==
    [rec EXCEPT !.state = "completed", !.response = a, !.owner = None, !.lease_until = 0]

\* Variant: the number of updated rows is not looked at.
FinalizeUnchecked(c) ==
    /\ rec' = IF OwnedBy(c.by) THEN Finalized(c.by) ELSE rec
    /\ effects' = effects \cup {c.by}
    /\ Answers(c, Ok("", c.by))

\* anystore_finalize_idempotency and what commits with it: without the claim
\* the transaction is abandoned.
Finalize(c) ==
    \/ /\ OwnedBy(c.by)
       /\ rec' = Finalized(c.by)
       /\ effects' = effects \cup {c.by}
       /\ Answers(c, Ok("", c.by))
    \/ /\ ~OwnedBy(c.by)
       /\ Answers(c, Err("internal_error"))
       /\ UNCHANGED <<rec, effects>>

\* create_object, patch_object, delete_object or commit_content: mutation,
\* changes, rendered response and record, or nothing at all.
Mutate(c) ==
    /\ c.op = "mutate" /\ c.at = "sent"
    /\ \/ Finalize(c)
       \/ /\ \E code \in RaisedCodes : Answers(c, Err(code))
          /\ UNCHANGED <<rec, effects>>
    /\ UNCHANGED <<rendered, now, pc, start, polls, reply>>

Complete(c) ==
    /\ c.op = "complete" /\ c.at = "sent"
    /\ Finalize(c)
    /\ UNCHANGED <<rendered, now, pc, start, polls, reply>>

Release(c) ==
    /\ c.op = "release" /\ c.at = "sent"
    /\ rec' = IF OwnedBy(c.by) THEN None ELSE rec
    /\ Answers(c, Ok("", None))
    /\ UNCHANGED <<rendered, now, pc, start, polls, reply, effects>>

Execute(c) ==
    Insert(c) \/ Select(c) \/ Update(c) \/ Mutate(c) \/ Complete(c) \/ Release(c)

-----------------------------------------------------------------------------
(* The request handler: idempotency::run and run_with_completion *)

Returns(a, r) == reply' = [reply EXCEPT ![a] = r] /\ Rest(a)

PollAgain(a) ==
    /\ polls' = [polls EXCEPT ![a] = @ + 1]
    /\ IF polls[a] + 1 < CONTENTION_POLLS
       THEN Call(a, "acquire") /\ UNCHANGED reply
       ELSE Returns(a, "rate_limited")

\* The claim is released before an operation's error is returned.
ReleaseAfter(a, code) == reply' = [reply EXCEPT ![a] = code] /\ Call(a, "release")

\* The calls that create an upload session touch no record: they succeed, and
\* complete() follows, or they fail.
Operate(a) ==
    \/ rendered /\ Call(a, "mutate") /\ UNCHANGED reply
    \/ ~rendered /\ Call(a, "complete") /\ UNCHANGED reply
    \/ ~rendered /\ \E code \in RaisedCodes : ReleaseAfter(a, into_domain(code))

Claimed(a, e) ==
    \/ e.decision = "owner" /\ Operate(a) /\ UNCHANGED polls
    \/ e.decision = "replay" /\ Returns(a, e.response) /\ UNCHANGED polls
    \/ /\ e.decision = "conflict"
       /\ Returns(a, "idempotency_key_reused")
       /\ UNCHANGED polls
    \/ e.decision \in {"retry", "busy"} /\ PollAgain(a)

\* The awaited call succeeded.
Succeeds(a, e) ==
    \/ pc[a] = "acquire" /\ Claimed(a, e)
    \/ pc[a] \in {"mutate", "complete"} /\ Returns(a, e.response) /\ UNCHANGED polls
    \/ pc[a] = "release" /\ Rest(a) /\ UNCHANGED <<polls, reply>>

\* It failed; whether a release worked is ignored.
Fails(a, code) ==
    /\ \/ pc[a] \in {"acquire", "complete"} /\ Returns(a, code)
       \/ pc[a] = "mutate" /\ ReleaseAfter(a, code)
       \/ pc[a] = "release" /\ Rest(a) /\ UNCHANGED reply
    /\ UNCHANGED polls

\* RpcClient::call gets a 2xx with an envelope.
Receive(a) ==
    /\ \E c \in calls :
          /\ c.by = a /\ Waiting(c) /\ c.at = "answered"
          /\ IF c.answer.ok THEN Succeeds(a, c.answer)
             ELSE Fails(a, into_domain(c.answer.code))
    /\ UNCHANGED <<rendered, now, start, store>>

\* The gateway answers a call itself instead of forwarding it.
Refuse(c) ==
    /\ Waiting(c) /\ c.at = "sent"
    /\ \E status \in Refusals : Answers(c, Err(map_http_status(status)))
    /\ UNCHANGED <<rendered, now, pc, start, polls, reply, store>>

\* The handler learns nothing of its call: a timeout, a broken connection, an
\* unreadable body or a gateway that broke down.  The call goes on.
GiveUp(a) ==
    /\ pc[a] \in Ops
    /\ MayAbandon
    /\ \E status \in Breakdowns : Fails(a, map_http_status(status))
    /\ UNCHANGED <<rendered, now, start, store>>

\* A request arrives.
Begin(a) ==
    /\ pc[a] = "idle"
    /\ start' = [start EXCEPT ![a] = now]
    /\ Call(a, "acquire")
    /\ UNCHANGED <<rendered, now, polls, reply, store>>

\* The instance dies, its call does not: no release follows.  (During another
\* call a crash is a GiveUp whose error nobody reads.)
Crash(a) ==
    /\ pc[a] = "mutate"
    /\ MayAbandon
    /\ Rest(a)
    /\ UNCHANGED <<rendered, now, start, polls, reply, store>>

-----------------------------------------------------------------------------
(* The environment *)

Tick ==
    /\ now < MaxTime
    /\ now' = now + 1
    /\ UNCHANGED <<rendered, pc, start, polls, calls, reply, store>>

Init ==
    /\ rendered \in BOOLEAN
    /\ rec = None
    /\ now = 0
    /\ pc = [a \in Attempts |-> "idle"]
    /\ start = [a \in Attempts |-> 0]
    /\ polls = [a \in Attempts |-> 0]
    /\ calls = {}
    /\ reply = [a \in Attempts |-> None]
    /\ effects = {}

Next ==
    \/ \E c \in calls : Execute(c) \/ Refuse(c)
    \/ \E a \in Attempts : Begin(a) \/ Receive(a) \/ GiveUp(a) \/ Crash(a)
    \/ Tick

Spec == Init /\ [][Next]_vars

-----------------------------------------------------------------------------
(* Properties *)

\* One outcome per retained key and the same outcome for every attempt that is
\* told one, although a mutation can commit after its handler gave it up,
\* released the key and a retry claimed it again (objects_write.rs, client.rs).
Once == INSTANCE OnceOnly WITH
    outcome <- IF Completed THEN rec.response ELSE None,
    applied <- effects,
    reply <- [a \in Attempts |-> IF reply[a] \in ContractCodes THEN "error" ELSE reply[a]]

ImplementsOnceOnly == Once!ASpec

\* A success is the response of a request identical to one's own.
ReplyMatchesRequest ==
    \A a \in Attempts :
        reply[a] \in Attempts => RequestHash[reply[a]] = RequestHash[a]

\* An error other than internal_error is a promise: the request's outcome is
\* not the key's, and no call of its still in flight will make it so
\* (map_http_status reports only refused calls as rate_limited, and a raised
\* code has rolled the transaction back).
DefiniteErrorIsFinal ==
    \A a \in Attempts :
        reply[a] \in ContractCodes \ {"internal_error"}
            => a \notin effects
=============================================================================
