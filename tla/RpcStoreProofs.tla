--------------------------- MODULE RpcStoreProofs ---------------------------
(***************************************************************************)
(* What an Idempotency-Key promises when every step of the store is a call *)
(* whose answer can be lost, for every number of attempts, of polls and of *)
(* calls that run on with nobody waiting.                                  *)
(*                                                                         *)
(* The argument: an attempt sends at most one call that can take effect;   *)
(* while that call has not run it is in `calls`, and an answer that says   *)
(* it failed proves that it never will.                                    *)
(***************************************************************************)
EXTENDS RpcStore, TLAPS

Codes == ContractCodes \cup RaisedCodes \cup {""}
Decisions == {"", "owner", "retry", "busy", "conflict", "replay"}

Envelopes ==
    [ok: BOOLEAN, code: Codes, decision: Decisions, response: Attempts \cup {None}]

CallType ==
    [by: Attempts, op: Ops, at: {"sent", "read", "steal", "answered"},
     began: Nat \cup {None}, answer: Envelopes \cup {None}]

Types ==
    /\ rendered \in BOOLEAN
    /\ rec \in Records \cup {None}
    /\ now \in Nat
    /\ pc \in [Attempts -> Ops \cup {"idle", "done"}]
    /\ start \in [Attempts -> Nat]
    /\ polls \in [Attempts -> Nat]
    /\ calls \subseteq CallType
    /\ reply \in [Attempts -> Attempts \cup ContractCodes \cup {None}]
    /\ effects \subseteq Attempts

\* The row speaks of its owner's request, or of its response's.
RowMatches ==
    /\ InProgress => rec.owner \in Attempts /\ rec.hash = RequestHash[rec.owner]
    /\ Completed => rec.response \in Attempts /\ rec.hash = RequestHash[rec.response]

\* A call that can take effect.
Effectful(c) == c.op \in {"mutate", "complete"}

\* What an answer on its way still proves when it arrives.
Truthful(c) ==
    IF c.answer.ok
    THEN /\ c.op = "acquire" /\ c.answer.decision = "replay" =>
              /\ Completed /\ c.answer.response = rec.response
              /\ RequestHash[rec.response] = RequestHash[c.by]
         /\ Effectful(c) => c.answer.response = c.by /\ c.by \in effects
    ELSE Effectful(c) => c.by \notin effects

AnswersTruthful == \A c \in calls : c.at = "answered" => c.answer \in Envelopes /\ Truthful(c)

\* An attempt sends one such call, and takes no effect before it runs.
OneEffectful ==
    \A c, d \in calls : Effectful(c) /\ Effectful(d) /\ c.by = d.by => c = d

NotBefore == \A c \in calls : Effectful(c) /\ c.at = "sent" => c.by \notin effects

\* Nothing of a has happened, and nothing will that has not been sent yet.
NoEffect(a) == a \notin effects /\ \A c \in calls : Effectful(c) => c.by # a

Unstarted == \A a \in Attempts : pc[a] \in {"idle", "acquire"} => NoEffect(a)

Silent ==
    \A a \in Attempts : pc[a] \in {"idle", "acquire", "mutate", "complete"} => reply[a] = None

DefiniteCodes == ContractCodes \ {"internal_error"}
Definite == \A a \in Attempts : reply[a] \in DefiniteCodes => NoEffect(a)

Inv ==
    /\ Types /\ RowMatches /\ AnswersTruthful
    /\ OneEffectful /\ NotBefore /\ Unstarted /\ Silent
    /\ Definite /\ ReplyMatchesRequest

-----------------------------------------------------------------------------
(* What the operators on calls and rows return *)

\* Every error is answered with a code of the contract.
LEMMA CodesMapped ==
    /\ \A code \in Codes : into_domain(code) \in ContractCodes
    /\ \A status \in Refusals : map_http_status(status) \in ContractCodes
    /\ \A status \in Breakdowns : map_http_status(status) = "internal_error"
    /\ "internal_error" \in ContractCodes
BY DEF into_domain, map_http_status, ContractCodes, Refusals, Breakdowns

LEMMA EnvelopeTypes ==
    /\ \A d \in Decisions, r \in Attempts \cup {None} :
          /\ Ok(d, r) \in Envelopes /\ Ok(d, r).ok
          /\ Ok(d, r).decision = d /\ Ok(d, r).response = r
    /\ \A code \in Codes :
          Err(code) \in Envelopes /\ ~Err(code).ok /\ Err(code).code = code
BY DEF Ok, Err, Envelopes, Codes, Decisions

LEMMA SentCall ==
    ASSUME NEW a \in Attempts, NEW op \in Ops
    PROVE  /\ Sent(a, op) \in CallType
           /\ Sent(a, op).by = a /\ Sent(a, op).op = op /\ Sent(a, op).at = "sent"
BY DEF Sent, CallType

\* The step puts at most one record in the place of c.
OneNew(c) ==
    \A d, f \in calls' : d \notin calls \ {c} /\ f \notin calls \ {c} => d = f

\* A call that is answered is the same call.
LEMMA AnsweredCall ==
    ASSUME Types, NEW c \in calls, NEW e \in Envelopes, Answers(c, e)
    PROVE  /\ calls' \subseteq CallType
           /\ \A d \in calls' :
                 \/ d \in calls \ {c}
                 \/ /\ d.by = c.by /\ d.op = c.op
                    /\ d.at = "answered" /\ d.answer = e
           /\ OneNew(c)
<1> DEFINE d == [c EXCEPT !.at = "answered", !.answer = e]
<1>1. c \in CallType
  BY DEF Types
<1>2. /\ d \in CallType /\ d.by = c.by /\ d.op = c.op
      /\ d.at = "answered" /\ d.answer = e
  BY <1>1 DEF CallType
<1> HIDE DEF d
<1>3. calls' \subseteq (calls \ {c}) \cup {d}
  BY DEF Answers, d
<1>4. QED
  BY <1>2, <1>3 DEF Types, OneNew

\* A statement that is not the last of its function keeps the call running.
LEMMA RunningCall ==
    ASSUME Types, NEW c \in calls, NEW l \in {"read", "steal"}, NEW t \in Nat \cup {None},
           \/ Runs(c, [c EXCEPT !.at = l])
           \/ Runs(c, [c EXCEPT !.at = l, !.began = t])
    PROVE  /\ calls' \subseteq CallType
           /\ \A d \in calls' :
                 \/ d \in calls \ {c}
                 \/ d.by = c.by /\ d.op = c.op /\ d.at = l
           /\ OneNew(c)
<1>1. c \in CallType
  BY DEF Types
<1>2. CASE Runs(c, [c EXCEPT !.at = l])
  <2> DEFINE d == [c EXCEPT !.at = l]
  <2>1. d \in CallType /\ d.by = c.by /\ d.op = c.op /\ d.at = l
    BY <1>1 DEF CallType
  <2> HIDE DEF d
  <2>2. calls' = (calls \ {c}) \cup {d}
    BY <1>2 DEF Runs, d
  <2>3. QED
    BY <2>1, <2>2 DEF Types, OneNew
<1>3. CASE Runs(c, [c EXCEPT !.at = l, !.began = t])
  <2> DEFINE d == [c EXCEPT !.at = l, !.began = t]
  <2>1. d \in CallType /\ d.by = c.by /\ d.op = c.op /\ d.at = l
    BY <1>1 DEF CallType
  <2> HIDE DEF d
  <2>2. calls' = (calls \ {c}) \cup {d}
    BY <1>3 DEF Runs, d
  <2>3. QED
    BY <2>1, <2>2 DEF Types, OneNew
<1>4. QED
  BY <1>2, <1>3

\* The rows the claim, the takeover and the finalisation leave.
LEMMA NewRows ==
    ASSUME Types, NEW a \in Attempts
    PROVE  /\ idempotency_acquire(a) \in Records
           /\ idempotency_acquire(a).state = "in_progress"
           /\ idempotency_acquire(a).owner = a
           /\ idempotency_acquire(a).hash = RequestHash[a]
           /\ rec # None =>
                /\ TakenOver(a) \in Records /\ TakenOver(a).state = rec.state
                /\ TakenOver(a).owner = a /\ TakenOver(a).hash = RequestHash[a]
                /\ Finalized(a) \in Records /\ Finalized(a).state = "completed"
                /\ Finalized(a).response = a /\ Finalized(a).hash = rec.hash
<1>1. RequestHash[a] \in Hashes /\ start[a] + Lease \in Nat
  BY RpcAssumption DEF Hashes, Types
<1>2. rec # None => rec \in Records
  BY DEF Types
<1>3. QED
  BY <1>1, <1>2 DEF idempotency_acquire, TakenOver, Finalized, Records

-----------------------------------------------------------------------------
(* A step of the database *)

\* The database runs a statement of call c: it may answer it, and only the
\* single run of an effectful call adds an effect.
LEMMA DatabaseStep ==
    ASSUME Inv, NEW c \in calls, UNCHANGED <<rendered, now, pc, start, polls, reply>>,
           calls' \subseteq CallType, OneNew(c),
           \A d \in calls' :
              \/ d \in calls \ {c}
              \/ /\ d.by = c.by /\ d.op = c.op /\ d.at # "sent"
                 /\ d.at = "answered" => d.answer \in Envelopes /\ Truthful(d)',
           rec' \in Records \cup {None}, RowMatches', Completed => rec' = rec,
           \/ effects' = effects
           \/ effects' = effects \cup {c.by} /\ Effectful(c) /\ c.at = "sent"
    PROVE  Inv'
<1> USE DEF Inv
<1>1. effects \subseteq effects' /\ effects' \subseteq effects \cup {c.by}
  OBVIOUS
<1>2. Types'
  BY DEF Types, CallType
<1>3. \A a \in Attempts : NoEffect(a) => NoEffect(a)'
  BY DEF NoEffect, Effectful
<1>4. AnswersTruthful'
  <2> SUFFICES ASSUME NEW d \in calls', d.at = "answered"
               PROVE  d.answer \in Envelopes /\ Truthful(d)'
    BY DEF AnswersTruthful
  <2>1. CASE d \in calls \ {c}
    <3>1. d.answer \in Envelopes /\ Truthful(d)
      BY <2>1 DEF AnswersTruthful
    <3>2. Effectful(d) /\ d.by \in effects' => d.by \in effects
      BY <2>1 DEF OneEffectful
    <3>3. Completed => Completed' /\ rec' = rec
      BY DEF Completed
    <3>4. QED
      BY <1>1, <3>1, <3>2, <3>3 DEF Truthful, Effectful
  <2>2. CASE d \notin calls \ {c}
    BY <2>2
  <2>3. QED
    BY <2>1, <2>2
<1>5. OneEffectful'
  <2> SUFFICES ASSUME NEW d \in calls', NEW f \in calls',
                      Effectful(d), Effectful(f), d.by = f.by
               PROVE  d = f
    BY DEF OneEffectful, Effectful
  <2>1. \E g \in calls : g.by = d.by /\ g.op = d.op /\ (d # g => g = c)
    OBVIOUS
  <2>2. \E g \in calls : g.by = f.by /\ g.op = f.op /\ (f # g => g = c)
    OBVIOUS
  <2>3. CASE d \in calls \ {c} /\ f \in calls \ {c}
    BY <2>3 DEF OneEffectful
  <2>4. CASE d \in calls \ {c} /\ f \notin calls \ {c}
    BY <2>4 DEF OneEffectful, Effectful
  <2>5. CASE d \notin calls \ {c} /\ f \in calls \ {c}
    BY <2>5 DEF OneEffectful, Effectful
  <2>6. CASE d \notin calls \ {c} /\ f \notin calls \ {c}
    BY <2>6 DEF OneNew
  <2>7. QED
    BY <2>3, <2>4, <2>5, <2>6
<1>6. NotBefore'
  BY <1>1 DEF NotBefore, OneEffectful, Effectful
<1>7. Unstarted' /\ Silent' /\ Definite' /\ ReplyMatchesRequest'
  BY <1>3 DEF Unstarted, Silent, Definite, ReplyMatchesRequest
<1>8. QED
  BY <1>2, <1>4, <1>5, <1>6, <1>7

\* The same of a statement that answers the call, with a true envelope.
LEMMA AnswerStep ==
    ASSUME Inv, NEW c \in calls, NEW e \in Envelopes, Answers(c, e),
           UNCHANGED <<rendered, now, pc, start, polls, reply>>,
           rec' \in Records \cup {None}, RowMatches', Completed => rec' = rec,
           \/ effects' = effects
           \/ effects' = effects \cup {c.by} /\ Effectful(c) /\ c.at = "sent",
           e.ok /\ c.op = "acquire" /\ e.decision = "replay" =>
               /\ Completed' /\ e.response = rec'.response
               /\ RequestHash[rec'.response] = RequestHash[c.by],
           e.ok /\ Effectful(c) => e.response = c.by /\ c.by \in effects',
           ~e.ok /\ Effectful(c) => c.by \notin effects'
    PROVE  Inv'
<1>1. /\ calls' \subseteq CallType /\ OneNew(c)
      /\ \A d \in calls' :
            \/ d \in calls \ {c}
            \/ d.by = c.by /\ d.op = c.op /\ d.at = "answered" /\ d.answer = e
  BY AnsweredCall DEF Inv
<1>2. ASSUME NEW d \in calls', d \notin calls \ {c}
      PROVE  /\ d.by = c.by /\ d.op = c.op /\ d.at # "sent"
             /\ d.answer \in Envelopes /\ Truthful(d)'
  <2>1. d.by = c.by /\ d.op = c.op /\ d.at = "answered" /\ d.answer = e
    BY <1>1, <1>2
  <2>2. QED
    BY <2>1 DEF Truthful, Effectful
<1>3. QED
  BY <1>1, <1>2, DatabaseStep

\* A statement that leaves the call running changes neither row nor effects.
LEMMA RunStep ==
    ASSUME Inv, NEW c \in calls, NEW l \in {"read", "steal"}, NEW t \in Nat \cup {None},
           \/ Runs(c, [c EXCEPT !.at = l])
           \/ Runs(c, [c EXCEPT !.at = l, !.began = t]),
           UNCHANGED <<rendered, now, pc, start, polls, reply, rec, effects>>
    PROVE  Inv'
<1>1. /\ calls' \subseteq CallType /\ OneNew(c)
      /\ \A d \in calls' :
            d \in calls \ {c} \/ (d.by = c.by /\ d.op = c.op /\ d.at = l)
  BY RunningCall DEF Inv
<1>2. rec' \in Records \cup {None} /\ RowMatches'
  BY DEF Inv, Types, RowMatches, InProgress, Completed
<1>3. \A d \in calls' :
         \/ d \in calls \ {c}
         \/ d.by = c.by /\ d.op = c.op /\ d.at # "sent" /\ d.at # "answered"
  BY <1>1
<1>4. QED
  BY <1>1, <1>2, <1>3, DatabaseStep

LEMMA InsertKeeps == ASSUME Inv, NEW c \in calls, Insert(c) PROVE Inv'
<1>1. c.by \in Attempts /\ now \in Nat
  BY DEF Inv, Types, CallType
<1>2. CASE rec = None /\ rec' = idempotency_acquire(c.by) /\ Answers(c, Ok("owner", None))
  <2>1. rec' \in Records /\ RowMatches' /\ ~Completed
    BY <1>1, <1>2, NewRows DEF Inv, RowMatches, InProgress, Completed
  <2>2. Ok("owner", None) \in Envelopes /\ Ok("owner", None).ok
        /\ Ok("owner", None).decision = "owner"
    BY EnvelopeTypes DEF Decisions
  <2>3. ~Effectful(c)
    BY DEF Insert, Effectful
  <2>4. QED
    BY <1>2, <2>1, <2>2, <2>3, AnswerStep DEF Insert
<1>3. CASE rec # None /\ Runs(c, [c EXCEPT !.at = "read", !.began = now]) /\ UNCHANGED rec
  BY <1>1, <1>3, RunStep DEF Insert
<1>4. QED
  BY <1>2, <1>3 DEF Insert

LEMMA SelectKeeps == ASSUME Inv, NEW c \in calls, Select(c) PROVE Inv'
<1>1. c.by \in Attempts
  BY DEF Inv, Types, CallType
<1>2. UNCHANGED <<rendered, now, pc, start, polls, reply, rec, effects>>
  BY DEF Select, store
<1>3. CASE Runs(c, [c EXCEPT !.at = "steal"])
  BY <1>2, <1>3, RunStep
<1>4. CASE Answers(c, Ok(Decision(c), IF rec = None THEN None ELSE rec.response))
  <2>1. PICK r \in Attempts \cup {None} : r = IF rec = None THEN None ELSE rec.response
    BY DEF Inv, Types, Records
  <2>2. PICK k \in Decisions : k = Decision(c)
    BY DEF Decision, Decisions
  <2>3. Ok(k, r) \in Envelopes /\ Ok(k, r).ok
        /\ Ok(k, r).decision = k /\ Ok(k, r).response = r
    BY EnvelopeTypes
  <2>4. k = "replay" => Completed /\ r = rec.response /\ rec.hash = RequestHash[c.by]
    BY <2>1, <2>2 DEF Decision, Completed
  <2>5. rec' \in Records \cup {None} /\ RowMatches' /\ (Completed => Completed')
    BY <1>2 DEF Inv, Types, RowMatches, InProgress, Completed
  <2>6. k = "replay" => /\ Completed' /\ r = rec'.response
                        /\ RequestHash[rec'.response] = RequestHash[c.by]
    BY <1>2, <2>4, <2>5 DEF Inv, RowMatches
  <2>7. ~Effectful(c)
    BY DEF Select, Effectful
  <2>8. Answers(c, Ok(k, r))
    BY <1>4, <2>1, <2>2
  <2>9. QED
    BY <1>2, <2>3, <2>5, <2>6, <2>7, <2>8, AnswerStep
<1>5. QED
  BY <1>3, <1>4 DEF Select

LEMMA UpdateKeeps == ASSUME Inv, NEW c \in calls, Update(c) PROVE Inv'
<1>1. c.by \in Attempts
  BY DEF Inv, Types, CallType
<1>2. PICK k \in {"owner", "busy"} :
         /\ Answers(c, Ok(k, None))
         /\ rec' = rec \/ (InProgress /\ rec' = TakenOver(c.by))
  BY DEF Update
<1>3. rec' \in Records \cup {None} /\ RowMatches' /\ (Completed => rec' = rec)
  <2>1. CASE rec' = rec
    BY <2>1 DEF Inv, Types, RowMatches, InProgress, Completed
  <2>2. CASE InProgress /\ rec' = TakenOver(c.by)
    BY <1>1, <2>2, NewRows DEF Inv, RowMatches, InProgress, Completed
  <2>3. QED
    BY <1>2, <2>1, <2>2
<1>4. Ok(k, None) \in Envelopes /\ Ok(k, None).ok /\ Ok(k, None).decision = k
  <2>1. k \in Decisions /\ None \in Attempts \cup {None}
    BY DEF Decisions
  <2>2. QED
    BY <2>1, EnvelopeTypes
<1>5. ~Effectful(c)
  BY DEF Update, Effectful
<1>6. QED
  BY <1>2, <1>3, <1>4, <1>5, AnswerStep DEF Update

\* The call commits, or the transaction that lost its claim is abandoned.
LEMMA FinalizeKeeps ==
    ASSUME Inv, NEW c \in calls, Finalize(c), Effectful(c), c.at = "sent",
           UNCHANGED <<rendered, now, pc, start, polls, reply>>
    PROVE  Inv'
<1>1. c.by \in Attempts
  BY DEF Inv, Types, CallType
<1>2. c.op # "acquire"
  BY DEF Effectful
<1>3. CASE /\ OwnedBy(c.by) /\ rec' = Finalized(c.by)
           /\ effects' = effects \cup {c.by} /\ Answers(c, Ok("", c.by))
  <2>1. rec # None /\ rec.hash = RequestHash[c.by] /\ ~Completed
    BY <1>3 DEF Inv, RowMatches, OwnedBy, InProgress, Completed
  <2>2. rec' \in Records /\ RowMatches'
    BY <1>1, <1>3, <2>1, NewRows DEF Inv, RowMatches, InProgress, Completed
  <2>3. Ok("", c.by) \in Envelopes /\ Ok("", c.by).ok /\ Ok("", c.by).response = c.by
    BY <1>1, EnvelopeTypes DEF Decisions
  <2>4. QED
    BY <1>2, <1>3, <2>1, <2>2, <2>3, AnswerStep
<1>4. CASE Answers(c, Err("internal_error")) /\ UNCHANGED <<rec, effects>>
  <2>1. rec' \in Records \cup {None} /\ RowMatches'
    BY <1>4 DEF Inv, Types, RowMatches, InProgress, Completed
  <2>2. Err("internal_error") \in Envelopes /\ ~Err("internal_error").ok
    BY EnvelopeTypes DEF Codes, ContractCodes
  <2>3. c.by \notin effects
    BY DEF Inv, NotBefore
  <2>4. QED
    BY <1>2, <1>4, <2>1, <2>2, <2>3, AnswerStep
<1>5. QED
  BY <1>3, <1>4 DEF Finalize

\* A call fails before it has done anything, by its own code or the gateway's.
LEMMA FailureKeeps ==
    ASSUME Inv, NEW c \in calls, c.at = "sent", NEW code \in Codes, Answers(c, Err(code)),
           UNCHANGED <<rendered, now, pc, start, polls, reply, rec, effects>>
    PROVE  Inv'
<1>1. rec' \in Records \cup {None} /\ RowMatches'
  BY DEF Inv, Types, RowMatches, InProgress, Completed
<1>2. Err(code) \in Envelopes /\ ~Err(code).ok
  BY EnvelopeTypes
<1>3. Effectful(c) => c.by \notin effects
  BY DEF Inv, NotBefore
<1>4. QED
  BY <1>1, <1>2, <1>3, AnswerStep

LEMMA MutateKeeps == ASSUME Inv, NEW c \in calls, Mutate(c) PROVE Inv'
<1>1. Effectful(c)
  BY DEF Mutate, Effectful
<1>2. CASE Finalize(c)
  BY <1>1, <1>2, FinalizeKeeps DEF Mutate
<1>3. CASE (\E code \in RaisedCodes : Answers(c, Err(code))) /\ UNCHANGED <<rec, effects>>
  BY <1>3, FailureKeeps DEF Mutate, Codes
<1>4. QED
  BY <1>2, <1>3 DEF Mutate

LEMMA CompleteKeeps == ASSUME Inv, NEW c \in calls, Complete(c) PROVE Inv'
BY FinalizeKeeps DEF Complete, Effectful

LEMMA ReleaseKeeps == ASSUME Inv, NEW c \in calls, Release(c) PROVE Inv'
<1>1. rec' \in Records \cup {None} /\ RowMatches' /\ (Completed => rec' = rec)
  BY DEF Release, OwnedBy, Inv, Types, RowMatches, InProgress, Completed
<1>2. Ok("", None) \in Envelopes /\ Ok("", None).ok /\ ~Effectful(c)
  BY EnvelopeTypes DEF Decisions, Release, Effectful
<1>3. QED
  BY <1>1, <1>2, AnswerStep DEF Release

LEMMA RefuseKeeps == ASSUME Inv, NEW c \in calls, Refuse(c) PROVE Inv'
<1>1. PICK status \in Refusals : Answers(c, Err(map_http_status(status)))
  BY DEF Refuse
<1>2. map_http_status(status) \in Codes
  BY CodesMapped DEF Codes
<1>3. QED
  BY <1>1, <1>2, FailureKeeps DEF Refuse, store

-----------------------------------------------------------------------------
(* A step of a handler *)

\* No effect of a, now or from a call it leaves behind.
Clean(a) == a \notin effects /\ \A c \in Left(a) : Effectful(c) => c.by # a

\* A handler that leaves rows and effects alone keeps the invariant.
LEMMA HandlerStep ==
    ASSUME Inv, NEW a \in Attempts, UNCHANGED <<rendered, now, rec, effects>>,
           start' \in [Attempts -> Nat], polls' \in [Attempts -> Nat],
           NEW l \in Ops \cup {"done"}, pc' = [pc EXCEPT ![a] = l],
           NEW r \in Attempts \cup ContractCodes \cup {None},
           reply' = [reply EXCEPT ![a] = r],
           \/ calls' = Left(a)
           \/ l \in Ops /\ calls' = Left(a) \cup {Sent(a, l)},
           l \in {"acquire", "mutate", "complete"} => r = None /\ Clean(a),
           r \in DefiniteCodes => Clean(a),
           r \in Attempts => RequestHash[r] = RequestHash[a]
    PROVE  Inv'
<1> USE DEF Inv
<1>1. PICK S \in SUBSET CallType :
         /\ calls' = Left(a) \cup S
         /\ \A c \in S : /\ c.by = a /\ c.op = l /\ c.at = "sent"
                         /\ \A d \in S : c = d
  <2>1. CASE calls' = Left(a)
    <3>1. {} \in SUBSET CallType /\ calls' = Left(a) \cup {}
      BY <2>1
    <3>2. QED
      BY <3>1
  <2>2. CASE l \in Ops /\ calls' = Left(a) \cup {Sent(a, l)}
    <3>1. PICK d : d = Sent(a, l)
      OBVIOUS
    <3>2. /\ {d} \in SUBSET CallType /\ calls' = Left(a) \cup {d}
          /\ d.by = a /\ d.op = l /\ d.at = "sent"
      BY <2>2, <3>1, SentCall
    <3>3. QED
      BY <3>2
  <2>3. QED
    BY <2>1, <2>2
<1>2. Left(a) \subseteq calls
  BY DEF Left
<1>3. None \notin DefiniteCodes
  BY NamesAssumption DEF DefiniteCodes
<1>4. Types'
  BY <1>1, <1>2 DEF Types
<1>5. RowMatches'
  BY DEF RowMatches, InProgress, Completed
<1>6. AnswersTruthful'
  <2> SUFFICES ASSUME NEW c \in calls', c.at = "answered"
               PROVE  c.answer \in Envelopes /\ Truthful(c)'
    BY DEF AnswersTruthful
  <2>1. c \in calls
    BY <1>1, <1>2
  <2>2. c.answer \in Envelopes /\ Truthful(c)
    BY <2>1 DEF AnswersTruthful
  <2>3. QED
    BY <2>2 DEF Truthful, Effectful, Completed
<1>7. \A c \in S : Effectful(c) => Clean(a)
  BY <1>1 DEF Effectful
<1>8. OneEffectful'
  <2> SUFFICES ASSUME NEW c \in calls', NEW d \in calls',
                      Effectful(c), Effectful(d), c.by = d.by
               PROVE  c = d
    BY DEF OneEffectful, Effectful
  <2>1. CASE c \in S \/ d \in S
    BY <2>1, <1>1, <1>7 DEF Clean
  <2>2. CASE c \in Left(a) /\ d \in Left(a)
    BY <2>2, <1>2 DEF OneEffectful
  <2>3. QED
    BY <1>1, <2>1, <2>2
<1>9. NotBefore'
  <2> SUFFICES ASSUME NEW c \in calls', Effectful(c), c.at = "sent"
               PROVE  c.by \notin effects
    BY DEF NotBefore, Effectful
  <2>1. CASE c \in S
    BY <2>1, <1>1, <1>7 DEF Clean
  <2>2. CASE c \in Left(a)
    BY <2>2, <1>2 DEF NotBefore
  <2>3. QED
    BY <1>1, <2>1, <2>2
<1>10. \A b \in Attempts : b # a /\ NoEffect(b) => NoEffect(b)'
  BY <1>1, <1>2 DEF NoEffect, Effectful
<1>11. Clean(a) /\ l \notin {"mutate", "complete"} => NoEffect(a)'
  BY <1>1, <1>2 DEF NoEffect, Clean, Effectful
<1>12. \A b \in Attempts :
          /\ b # a => pc'[b] = pc[b] /\ reply'[b] = reply[b]
          /\ b = a => pc'[b] = l /\ reply'[b] = r
  BY DEF Types
<1>13. Unstarted'
  <2>1. l \in {"idle", "acquire"} => NoEffect(a)'
    BY <1>11 DEF Ops
  <2>2. QED
    BY <1>10, <1>12, <2>1 DEF Unstarted
<1>14. Silent'
  <2>1. l \in {"idle", "acquire", "mutate", "complete"} => r = None
    BY DEF Ops
  <2>2. QED
    BY <1>12, <2>1 DEF Silent
<1>15. Definite'
  <2>1. r \in DefiniteCodes => NoEffect(a)'
    BY <1>3, <1>11
  <2>2. QED
    BY <1>10, <1>12, <2>1 DEF Definite
<1>16. ReplyMatchesRequest'
  BY <1>12 DEF ReplyMatchesRequest
<1>17. QED
  BY <1>4, <1>5, <1>6, <1>8, <1>9, <1>13, <1>14, <1>15, <1>16

\* Waiting for acquire, or awaiting a call whose answer says it failed.
LEMMA Cleanliness ==
    ASSUME Inv, NEW a \in Attempts
    PROVE  /\ NoEffect(a) => Clean(a)
           /\ pc[a] \in {"idle", "acquire"} => Clean(a) /\ reply[a] = None
           /\ reply[a] \in DefiniteCodes => Clean(a)
           /\ \A c \in calls :
                 c.by = a /\ Effectful(c) /\ c.at = "answered" /\ ~c.answer.ok => Clean(a)
<1>1. Left(a) \subseteq calls
  BY DEF Left
<1>2. NoEffect(a) => Clean(a)
  BY <1>1 DEF NoEffect, Clean
<1>3. ASSUME NEW c \in calls, c.by = a, Effectful(c), c.at = "answered", ~c.answer.ok
      PROVE  Clean(a)
  <2>1. a \notin effects
    BY <1>3 DEF Inv, AnswersTruthful, Truthful
  <2>2. \A d \in Left(a) : Effectful(d) => d.by # a
    BY <1>3, <1>1 DEF Inv, OneEffectful, Left
  <2>3. QED
    BY <2>1, <2>2 DEF Clean
<1>4. QED
  BY <1>2, <1>3 DEF Inv, Unstarted, Silent, Definite

\* Leaving a function as it is, written as an update.
LEMMA SameReply ==
    ASSUME Inv, NEW a \in Attempts, UNCHANGED reply
    PROVE  /\ reply' = [reply EXCEPT ![a] = reply[a]]
           /\ reply[a] \in Attempts \cup ContractCodes \cup {None}
           /\ reply[a] \in Attempts => RequestHash[reply[a]] = RequestHash[a]
BY DEF Inv, Types, ReplyMatchesRequest

\* The handler ends with an error, or releases its claim to do so.
LEMMA ErrorStep ==
    ASSUME Inv, NEW a \in Attempts, NEW code \in ContractCodes,
           Returns(a, code) \/ ReleaseAfter(a, code), code \in DefiniteCodes => Clean(a),
           UNCHANGED <<rendered, now, rec, effects>>,
           start' \in [Attempts -> Nat], polls' \in [Attempts -> Nat]
    PROVE  Inv'
<1>1. PICK l \in {"done", "release"} :
         /\ pc' = [pc EXCEPT ![a] = l] /\ reply' = [reply EXCEPT ![a] = code]
         /\ calls' = Left(a) \/ (l \in Ops /\ calls' = Left(a) \cup {Sent(a, l)})
  <2>1. CASE Returns(a, code)
    BY <2>1 DEF Returns, Rest
  <2>2. CASE ReleaseAfter(a, code)
    BY <2>2 DEF ReleaseAfter, Call, Ops
  <2>3. QED
    BY <2>1, <2>2
<1>2. l \in Ops \cup {"done"} /\ l \notin {"acquire", "mutate", "complete"}
  BY DEF Ops
<1>3. code \in Attempts \cup ContractCodes \cup {None} /\ code \notin Attempts
  BY NamesAssumption
<1>4. l \in {"acquire", "mutate", "complete"} => code = None /\ Clean(a)
  BY <1>2
<1>5. code \in Attempts => RequestHash[code] = RequestHash[a]
  BY <1>3
<1>6. QED
  BY <1>1, <1>2, <1>3, <1>4, <1>5, HandlerStep

\* The handler ends with the reply it already has.
LEMMA RestStep ==
    ASSUME Inv, NEW a \in Attempts, Rest(a), UNCHANGED reply,
           UNCHANGED <<rendered, now, rec, effects>>,
           start' \in [Attempts -> Nat], polls' \in [Attempts -> Nat]
    PROVE  Inv'
<1>1. PICK r \in Attempts \cup ContractCodes \cup {None} : r = reply[a]
  BY DEF Inv, Types
<1>2. r \in Attempts => RequestHash[r] = RequestHash[a]
  BY <1>1, SameReply
<1>3. r \in DefiniteCodes => Clean(a)
  BY <1>1, Cleanliness
<1>4. reply' = [reply EXCEPT ![a] = r]
  BY <1>1, SameReply
<1>5. PICK l \in Ops \cup {"done"} : l = "done"
  OBVIOUS
<1>6. pc' = [pc EXCEPT ![a] = l] /\ calls' = Left(a)
  BY <1>5 DEF Rest
<1>7. l \in {"acquire", "mutate", "complete"} => r = None /\ Clean(a)
  BY <1>5
<1>8. QED
  BY <1>2, <1>3, <1>4, <1>6, <1>7, HandlerStep

\* It goes on with another call; nothing of it has happened.
LEMMA CallStep ==
    ASSUME Inv, NEW a \in Attempts, NEW op \in {"acquire", "mutate", "complete"},
           pc[a] \in {"idle", "acquire"}, Call(a, op), UNCHANGED reply,
           UNCHANGED <<rendered, now, rec, effects>>,
           start' \in [Attempts -> Nat], polls' \in [Attempts -> Nat]
    PROVE  Inv'
<1>1. Clean(a) /\ reply[a] = None /\ None \notin Attempts
  BY Cleanliness, RpcAssumption
<1>2. reply' = [reply EXCEPT ![a] = None]
  BY <1>1, SameReply
<1>3. op \in Ops
  BY DEF Ops
<1>4. QED
  BY <1>1, <1>2, <1>3, HandlerStep DEF Call

LEMMA FailsKeeps ==
    ASSUME Inv, NEW a \in Attempts, NEW code \in ContractCodes, Fails(a, code),
           UNCHANGED <<rendered, now, start, rec, effects>>,
           code # "internal_error" /\ pc[a] \in {"mutate", "complete"} => Clean(a)
    PROVE  Inv'
<1>1. start' \in [Attempts -> Nat] /\ polls' \in [Attempts -> Nat]
  BY DEF Inv, Types, Fails
<1>2. CASE /\ pc[a] \in {"acquire", "mutate", "complete"}
           /\ Returns(a, code) \/ ReleaseAfter(a, code)
  <2>1. code \in DefiniteCodes => Clean(a)
    BY <1>2, Cleanliness DEF DefiniteCodes
  <2>2. QED
    BY <1>1, <1>2, <2>1, ErrorStep
<1>3. CASE Rest(a) /\ UNCHANGED reply
  BY <1>1, <1>3, RestStep
<1>4. QED
  BY <1>2, <1>3 DEF Fails

LEMMA OperateKeeps ==
    ASSUME Inv, NEW a \in Attempts, pc[a] = "acquire", Operate(a),
           UNCHANGED <<rendered, now, start, polls, rec, effects>>
    PROVE  Inv'
<1>1. start' \in [Attempts -> Nat] /\ polls' \in [Attempts -> Nat]
  BY DEF Inv, Types
<1>2. ASSUME NEW op \in {"mutate", "complete"}, Call(a, op), UNCHANGED reply
      PROVE  Inv'
  BY <1>1, <1>2, CallStep
<1>3. ASSUME NEW code \in RaisedCodes, ReleaseAfter(a, into_domain(code))
      PROVE  Inv'
  <2>1. into_domain(code) \in ContractCodes
    BY CodesMapped DEF Codes
  <2>2. QED
    BY <1>1, <1>3, <2>1, Cleanliness, ErrorStep
<1>4. QED
  BY <1>2, <1>3 DEF Operate

LEMMA PollAgainKeeps ==
    ASSUME Inv, NEW a \in Attempts, pc[a] = "acquire", PollAgain(a),
           UNCHANGED <<rendered, now, start, rec, effects>>
    PROVE  Inv'
<1>1. start' \in [Attempts -> Nat] /\ polls' \in [Attempts -> Nat]
  BY DEF Inv, Types, PollAgain
<1>2. CASE Call(a, "acquire") /\ UNCHANGED reply
  BY <1>1, <1>2, CallStep
<1>3. CASE Returns(a, "rate_limited")
  <2>1. "rate_limited" \in ContractCodes
    BY DEF ContractCodes
  <2>2. QED
    BY <1>1, <1>3, <2>1, Cleanliness, ErrorStep
<1>4. QED
  BY <1>2, <1>3 DEF PollAgain

\* The answer of a successful acquire or effectful call is the reply.
LEMMA ResponseKeeps ==
    ASSUME Inv, NEW a \in Attempts, NEW r \in Attempts, Returns(a, r),
           RequestHash[r] = RequestHash[a], UNCHANGED <<rendered, now, start, polls, rec, effects>>
    PROVE  Inv'
<1>1. start' \in [Attempts -> Nat] /\ polls' \in [Attempts -> Nat]
  BY DEF Inv, Types
<1>2. r \in Attempts \cup ContractCodes \cup {None} /\ r \notin DefiniteCodes
  BY NamesAssumption DEF DefiniteCodes
<1>3. PICK l \in Ops \cup {"done"} : l = "done"
  OBVIOUS
<1>4. pc' = [pc EXCEPT ![a] = l] /\ calls' = Left(a) /\ reply' = [reply EXCEPT ![a] = r]
  BY <1>3 DEF Returns, Rest
<1>5. l \in {"acquire", "mutate", "complete"} => r = None /\ Clean(a)
  BY <1>3
<1>6. QED
  BY <1>1, <1>2, <1>4, <1>5, HandlerStep

LEMMA ReceiveKeeps == ASSUME Inv, NEW a \in Attempts, Receive(a) PROVE Inv'
<1>1. PICK c \in calls :
         /\ c.by = a /\ Waiting(c) /\ c.at = "answered"
         /\ IF c.answer.ok THEN Succeeds(a, c.answer)
            ELSE Fails(a, into_domain(c.answer.code))
  BY DEF Receive
<1>2. UNCHANGED <<rendered, now, start, rec, effects>>
  BY DEF Receive, store
<1>3. pc[a] = c.op
  BY <1>1 DEF Waiting
<1>4. c.answer \in Envelopes /\ Truthful(c)
  BY <1>1 DEF Inv, AnswersTruthful
<1>5. CASE ~c.answer.ok
  <2>1. into_domain(c.answer.code) \in ContractCodes
    BY <1>4, CodesMapped DEF Envelopes
  <2>2. pc[a] \in {"mutate", "complete"} => Clean(a)
    BY <1>1, <1>3, <1>5, Cleanliness DEF Effectful
  <2>3. QED
    BY <1>1, <1>2, <1>5, <2>1, <2>2, FailsKeeps
<1>6. CASE c.answer.ok /\ pc[a] = "acquire" /\ Claimed(a, c.answer)
  <2>1. CASE c.answer.decision = "owner" /\ Operate(a) /\ UNCHANGED polls
    BY <1>2, <1>6, <2>1, OperateKeeps
  <2>2. CASE c.answer.decision = "replay" /\ Returns(a, c.answer.response) /\ UNCHANGED polls
    <3>1. /\ c.answer.response \in Attempts
          /\ RequestHash[c.answer.response] = RequestHash[a]
      BY <1>1, <1>3, <1>4, <1>6, <2>2 DEF Truthful, Inv, RowMatches
    <3>2. QED
      BY <1>2, <2>2, <3>1, ResponseKeeps
  <2>3. CASE Returns(a, "idempotency_key_reused") /\ UNCHANGED polls
    <3>1. "idempotency_key_reused" \in ContractCodes
      BY DEF ContractCodes
    <3>2. start' \in [Attempts -> Nat] /\ polls' \in [Attempts -> Nat]
      BY <1>2, <2>3 DEF Inv, Types
    <3>3. QED
      BY <1>2, <1>6, <2>3, <3>1, <3>2, Cleanliness, ErrorStep
  <2>4. CASE PollAgain(a)
    BY <1>2, <1>6, <2>4, PollAgainKeeps
  <2>5. QED
    BY <1>6, <2>1, <2>2, <2>3, <2>4 DEF Claimed
<1>7. CASE /\ c.answer.ok /\ pc[a] \in {"mutate", "complete"}
           /\ Returns(a, c.answer.response) /\ UNCHANGED polls
  <2>1. c.answer.response = a
    BY <1>1, <1>3, <1>4, <1>7 DEF Truthful, Effectful
  <2>2. QED
    BY <1>2, <1>7, <2>1, ResponseKeeps
<1>8. CASE Rest(a) /\ UNCHANGED <<polls, reply>>
  <2>1. start' \in [Attempts -> Nat] /\ polls' \in [Attempts -> Nat]
    BY <1>2, <1>8 DEF Inv, Types
  <2>2. QED
    BY <1>2, <1>8, <2>1, RestStep
<1>9. QED
  BY <1>1, <1>5, <1>6, <1>7, <1>8 DEF Succeeds

\* A handler that learns nothing of its call returns internal_error only.
LEMMA GiveUpKeeps == ASSUME Inv, NEW a \in Attempts, GiveUp(a) PROVE Inv'
<1>1. Fails(a, "internal_error") /\ "internal_error" \in ContractCodes
  BY CodesMapped DEF GiveUp
<1>2. QED
  BY <1>1, FailsKeeps DEF GiveUp, store

LEMMA BeginKeeps == ASSUME Inv, NEW a \in Attempts, Begin(a) PROVE Inv'
<1>1. start' \in [Attempts -> Nat] /\ polls' \in [Attempts -> Nat]
  BY DEF Inv, Types, Begin
<1>2. QED
  BY <1>1, CallStep DEF Begin, store

LEMMA CrashKeeps == ASSUME Inv, NEW a \in Attempts, Crash(a) PROVE Inv'
<1>1. start' \in [Attempts -> Nat] /\ polls' \in [Attempts -> Nat]
  BY DEF Inv, Types, Crash
<1>2. QED
  BY <1>1, RestStep DEF Crash, store

\* A step that moves only the clock, or nothing.
LEMMA ClockKeeps ==
    ASSUME Inv, now' \in Nat, UNCHANGED <<rendered, pc, start, polls, calls, reply, rec, effects>>
    PROVE  Inv'
<1> USE DEF Inv
<1>1. Types' /\ RowMatches'
  BY DEF Types, RowMatches, InProgress, Completed
<1>2. AnswersTruthful'
  BY DEF AnswersTruthful, Truthful, Effectful, Completed
<1>3. OneEffectful' /\ NotBefore'
  BY DEF OneEffectful, NotBefore, Effectful
<1>4. Unstarted' /\ Silent' /\ Definite' /\ ReplyMatchesRequest'
  BY DEF Unstarted, Silent, Definite, ReplyMatchesRequest, NoEffect, Effectful
<1>5. QED
  BY <1>1, <1>2, <1>3, <1>4

LEMMA InitHolds == Init => Inv
<1> SUFFICES ASSUME Init PROVE Inv
  OBVIOUS
<1>1. Types /\ RowMatches
  BY DEF Init, Types, RowMatches, InProgress, Completed
<1>2. AnswersTruthful /\ OneEffectful /\ NotBefore
  BY DEF Init, AnswersTruthful, OneEffectful, NotBefore
<1>3. Unstarted /\ Silent /\ Definite /\ ReplyMatchesRequest
  BY RpcAssumption, NamesAssumption
     DEF Init, Unstarted, Silent, Definite, ReplyMatchesRequest, NoEffect, DefiniteCodes
<1>4. QED
  BY <1>1, <1>2, <1>3 DEF Inv

\* Every step keeps the invariant.
LEMMA NextKeeps == Inv /\ [Next]_vars => Inv'
<1> SUFFICES ASSUME Inv, [Next]_vars PROVE Inv'
  OBVIOUS
<1>1. ASSUME NEW c \in calls, Execute(c) PROVE Inv'
  BY <1>1, InsertKeeps, SelectKeeps, UpdateKeeps, MutateKeeps, CompleteKeeps, ReleaseKeeps
     DEF Execute
<1>2. ASSUME NEW c \in calls, Refuse(c) PROVE Inv'
  BY <1>2, RefuseKeeps
<1>3. ASSUME NEW a \in Attempts, Begin(a) \/ Receive(a) \/ GiveUp(a) \/ Crash(a) PROVE Inv'
  BY <1>3, BeginKeeps, ReceiveKeeps, GiveUpKeeps, CrashKeeps
<1>4. CASE Tick
  <2>1. now' \in Nat
    BY <1>4 DEF Tick, Inv, Types
  <2>2. QED
    BY <1>4, <2>1, ClockKeeps DEF Tick, store
<1>5. CASE UNCHANGED vars
  <2>1. now' \in Nat
    BY <1>5 DEF vars, Inv, Types
  <2>2. QED
    BY <1>5, <2>1, ClockKeeps DEF vars
<1>6. QED
  BY <1>1, <1>2, <1>3, <1>4, <1>5 DEF Next

\* The inductive invariant: what a call in flight, an answer on its way and the
\* row prove about the attempts, over every loss, refusal, crash and retry.
THEOREM Invariance == Spec => []Inv
BY InitHolds, NextKeeps, PTL DEF Spec

\* A success is the response of an identical request (a replay compares the
\* hash in idempotency_acquire, and the row it read is never rewritten).
THEOREM RepliesMatch == Spec => []ReplyMatchesRequest
<1>1. Inv => ReplyMatchesRequest
  BY DEF Inv
<1>2. QED
  BY <1>1, Invariance, PTL

\* An error other than internal_error is final: the attempt has taken no effect
\* and no call of its left running will take one (map_http_status, into_domain).
THEOREM DefiniteErrors == Spec => []DefiniteErrorIsFinal
<1>1. Inv => DefiniteErrorIsFinal
  BY DEF Inv, Definite, DefiniteErrorIsFinal, DefiniteCodes, NoEffect
<1>2. QED
  BY <1>1, Invariance, PTL

-----------------------------------------------------------------------------
(* The store implements OnceOnly *)

\* What a handler's step says to its client: nothing, or one reply that is an
\* error, the response of the row, or that of its own committed effect.
Says(a) ==
    \/ UNCHANGED reply
    \/ /\ reply[a] = None
       /\ \E r \in ContractCodes \cup Attempts :
             /\ reply' = [reply EXCEPT ![a] = r]
             /\ \/ r \in ContractCodes
                \/ Completed /\ r = rec.response
                \/ r = a /\ a \in effects

\* A failure is answered with its error.
LEMMA FailsSays ==
    ASSUME Inv, NEW a \in Attempts, NEW code \in ContractCodes, Fails(a, code)
    PROVE  Says(a)
BY DEF Fails, Returns, ReleaseAfter, Says, Inv, Silent

\* What a received answer lets an attempt say.
LEMMA ReceiveSays == ASSUME Inv, NEW a \in Attempts, Receive(a) PROVE Says(a)
<1>1. PICK c \in calls :
         /\ c.by = a /\ Waiting(c) /\ c.at = "answered"
         /\ IF c.answer.ok THEN Succeeds(a, c.answer)
            ELSE Fails(a, into_domain(c.answer.code))
  BY DEF Receive
<1>2. pc[a] = c.op
  BY <1>1 DEF Waiting
<1>3. c.answer \in Envelopes /\ Truthful(c)
  BY <1>1 DEF Inv, AnswersTruthful
<1>4. CASE ~c.answer.ok
  <2>1. into_domain(c.answer.code) \in ContractCodes
    BY <1>3, CodesMapped DEF Envelopes
  <2>2. QED
    BY <1>1, <1>4, <2>1, FailsSays
<1>5. CASE c.answer.ok /\ pc[a] = "acquire" /\ Claimed(a, c.answer)
  <2>1. reply[a] = None
    BY <1>5 DEF Inv, Silent
  <2>2. CASE Operate(a)
    <3>1. \A code \in RaisedCodes : into_domain(code) \in ContractCodes
      BY CodesMapped DEF Codes
    <3>2. QED
      BY <2>1, <2>2, <3>1 DEF Operate, ReleaseAfter, Says
  <2>3. CASE c.answer.decision = "replay" /\ Returns(a, c.answer.response)
    <3>1. Completed /\ c.answer.response = rec.response /\ rec.response \in Attempts
      BY <1>1, <1>2, <1>3, <1>5, <2>3 DEF Truthful, Inv, RowMatches
    <3>2. QED
      BY <2>1, <2>3, <3>1 DEF Returns, Says
  <2>4. CASE Returns(a, "idempotency_key_reused")
    BY <2>1, <2>4 DEF Returns, Says, ContractCodes
  <2>5. CASE PollAgain(a)
    BY <2>1, <2>5 DEF PollAgain, Returns, Says, ContractCodes
  <2>6. QED
    BY <1>5, <2>2, <2>3, <2>4, <2>5 DEF Claimed
<1>6. CASE /\ c.answer.ok /\ pc[a] \in {"mutate", "complete"}
           /\ Returns(a, c.answer.response)
  <2>1. c.answer.response = a /\ a \in effects
    BY <1>1, <1>2, <1>3, <1>6 DEF Truthful, Effectful
  <2>2. QED
    BY <1>6, <2>1 DEF Returns, Says, Inv, Silent
<1>7. CASE UNCHANGED reply
  BY <1>7 DEF Says
<1>8. QED
  BY <1>1, <1>4, <1>5, <1>6, <1>7 DEF Succeeds

\* No step of a handler touches the row or takes effect.
LEMMA HandlerSays ==
    ASSUME Inv, NEW a \in Attempts, Begin(a) \/ Receive(a) \/ GiveUp(a) \/ Crash(a)
    PROVE  UNCHANGED <<rec, effects>> /\ Says(a)
<1>1. UNCHANGED <<rec, effects>>
  BY DEF Begin, Receive, GiveUp, Crash, store
<1>2. CASE Begin(a) \/ Crash(a)
  BY <1>1, <1>2 DEF Begin, Crash, Says
<1>3. CASE GiveUp(a)
  BY <1>1, <1>3, CodesMapped, FailsSays DEF GiveUp
<1>4. QED
  BY <1>1, <1>2, <1>3, ReceiveSays

\* A step of the database finalises one attempt's claim or leaves the outcome.
LEMMA DatabaseTakesEffect ==
    ASSUME Inv, NEW c \in calls, Execute(c) \/ Refuse(c)
    PROVE  /\ UNCHANGED reply
           /\ \/ UNCHANGED effects /\ (Completed => rec' = rec) /\ (Completed' => Completed)
              \/ /\ c.by \in Attempts /\ ~Completed /\ c.by \notin effects
                 /\ Completed' /\ rec'.response = c.by /\ effects' = effects \cup {c.by}
<1>1. c.by \in Attempts
  BY DEF Inv, Types, CallType
<1>2. UNCHANGED reply
  BY DEF Execute, Insert, Select, Update, Mutate, Complete, Release, Refuse
<1>3. ASSUME Finalize(c), Effectful(c), c.at = "sent", UNCHANGED reply
      PROVE  \/ UNCHANGED <<rec, effects>>
             \/ /\ ~Completed /\ c.by \notin effects
                /\ Completed' /\ rec'.response = c.by /\ effects' = effects \cup {c.by}
  <2>1. CASE OwnedBy(c.by) /\ rec' = Finalized(c.by) /\ effects' = effects \cup {c.by}
    <3>1. ~Completed /\ rec # None
      BY <2>1 DEF OwnedBy, InProgress, Completed
    <3>2. rec' \in Records /\ rec'.state = "completed" /\ rec'.response = c.by
      BY <1>1, <2>1, <3>1, NewRows DEF Inv
    <3>3. Completed'
      BY <3>2, NamesAssumption DEF Completed
    <3>4. c.by \notin effects
      BY <1>3 DEF Inv, NotBefore
    <3>5. QED
      BY <2>1, <3>1, <3>2, <3>3, <3>4
  <2>2. QED
    BY <1>3, <2>1 DEF Finalize
<1>4. CASE Insert(c)
  <2>1. CASE rec = None /\ rec' = idempotency_acquire(c.by)
    BY <1>1, <1>4, <2>1, NewRows DEF Inv, Insert, Completed
  <2>2. CASE UNCHANGED rec
    BY <1>4, <2>2 DEF Insert, Completed
  <2>3. QED
    BY <1>2, <1>4, <2>1, <2>2 DEF Insert
<1>5. CASE Select(c) \/ Refuse(c)
  BY <1>2, <1>5 DEF Select, Refuse, store, Completed
<1>6. CASE Update(c)
  <2>1. CASE InProgress /\ rec' = TakenOver(c.by)
    BY <1>1, <1>6, <2>1, NewRows DEF Inv, Update, InProgress, Completed
  <2>2. CASE UNCHANGED rec
    BY <1>6, <2>2 DEF Update, Completed
  <2>3. QED
    BY <1>2, <1>6, <2>1, <2>2 DEF Update
<1>7. CASE Mutate(c)
  <2>1. Effectful(c) /\ c.at = "sent"
    BY <1>7 DEF Mutate, Effectful
  <2>2. CASE Finalize(c)
    BY <1>1, <1>2, <1>3, <2>1, <2>2 DEF Completed
  <2>3. CASE UNCHANGED <<rec, effects>>
    BY <1>2, <2>3 DEF Completed
  <2>4. QED
    BY <1>7, <2>2, <2>3 DEF Mutate
<1>8. CASE Complete(c)
  <2>1. Effectful(c) /\ c.at = "sent" /\ Finalize(c)
    BY <1>8 DEF Complete, Effectful
  <2>2. QED
    BY <1>1, <1>2, <1>3, <2>1 DEF Completed
<1>9. CASE Release(c)
  <2>1. UNCHANGED effects /\ (Completed => rec' = rec)
    BY <1>9 DEF Release, OwnedBy, InProgress, Completed
  <2>2. rec' = rec \/ rec' = None
    BY <1>9 DEF Release
  <2>3. QED
    BY <1>2, <2>1, <2>2 DEF Completed
<1>10. QED
  BY <1>4, <1>5, <1>6, <1>7, <1>8, <1>9 DEF Execute

Outcome == IF Completed THEN rec.response ELSE None
Answered == [a \in Attempts |-> IF reply[a] \in ContractCodes THEN "error" ELSE reply[a]]

\* An attempt that says something: OnceOnly returns, or nothing happens.
LEMMA SaysReturn ==
    ASSUME Inv, NEW a \in Attempts, UNCHANGED <<rec, effects>>, Says(a)
    PROVE  [Once!ANext]_Once!avars
<1>1. UNCHANGED Outcome
  BY DEF Outcome, Completed
<1>2. CASE UNCHANGED reply
  BY <1>1, <1>2 DEF Once!avars, Outcome
<1>3. CASE ~UNCHANGED reply
  <2>1. PICK r \in ContractCodes \cup Attempts :
           /\ reply[a] = None /\ reply' = [reply EXCEPT ![a] = r]
           /\ r \in ContractCodes \/ (Completed /\ r = rec.response) \/ (r = a /\ a \in effects)
    BY <1>3 DEF Says
  <2>2. PICK s : s = IF r \in ContractCodes THEN "error" ELSE r
    OBVIOUS
  <2>3. Answered[a] = None
    BY <2>1, NamesAssumption DEF Answered
  <2>4. Answered' = [Answered EXCEPT ![a] = s]
    BY <2>1, <2>2 DEF Answered, Inv, Types
  <2>5. \/ s = "error"
        \/ Outcome # None /\ s = Outcome
        \/ a \in effects /\ s = a
    BY <2>1, <2>2, RpcAssumption DEF Outcome
  <2>6. Once!Return(a)
    BY <2>3, <2>4, <2>5 DEF Once!Return, Answered, Outcome
  <2>7. QED
    BY <1>1, <2>6 DEF Once!ANext, Outcome
<1>4. QED
  BY <1>2, <1>3

\* Every step is a step of OnceOnly or invisible to it.
LEMMA StepRefines == Inv /\ [Next]_vars => [Once!ANext]_Once!avars
<1> SUFFICES ASSUME Inv, [Next]_vars PROVE [Once!ANext]_Once!avars
  OBVIOUS
<1>1. ASSUME NEW c \in calls, Execute(c) \/ Refuse(c) PROVE [Once!ANext]_Once!avars
  <2>1. UNCHANGED reply
    BY <1>1, DatabaseTakesEffect
  <2>2. CASE UNCHANGED effects /\ (Completed => rec' = rec) /\ (Completed' => Completed)
    BY <2>1, <2>2 DEF Once!avars, Completed
  <2>3. CASE /\ c.by \in Attempts /\ ~Completed /\ c.by \notin effects
             /\ Completed' /\ rec'.response = c.by /\ effects' = effects \cup {c.by}
    <3>1. Once!TakeEffect(c.by)
      BY <2>3 DEF Once!TakeEffect
    <3>2. UNCHANGED Answered
      BY <2>1 DEF Answered
    <3>3. QED
      BY <2>3, <3>1, <3>2 DEF Once!ANext, Answered
  <2>4. QED
    BY <1>1, <2>2, <2>3, DatabaseTakesEffect
<1>2. ASSUME NEW a \in Attempts, Begin(a) \/ Receive(a) \/ GiveUp(a) \/ Crash(a)
      PROVE  [Once!ANext]_Once!avars
  BY <1>2, HandlerSays, SaysReturn
<1>3. CASE Tick \/ UNCHANGED vars
  BY <1>3 DEF Tick, vars, store, Once!avars, Completed
<1>4. QED
  BY <1>1, <1>2, <1>3 DEF Next

\* The key is unused.
LEMMA InitRefines == Init => Once!AInit
BY RpcAssumption, NamesAssumption DEF Init, Once!AInit, Completed

\* The store implements OnceOnly: a finalisation is the one effect of a key, and
\* every success is that outcome or the attempt's own effect, however many calls
\* run on behind a handler that gave them up (objects_write.rs, client.rs).
THEOREM RefinesOnceOnly == Spec => ImplementsOnceOnly
BY Invariance, InitRefines, StepRefines, PTL DEF Spec, ImplementsOnceOnly, Once!ASpec

=============================================================================
