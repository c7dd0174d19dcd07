------------------------- MODULE IdempotencyProofs -------------------------
(***************************************************************************)
(* Proofs about Idempotency for any number of attempts, any lease and any  *)
(* retention period.                                                       *)
(***************************************************************************)
EXTENDS Idempotency, TLAPS

\* No effect belongs to a retention period that has not begun.
EffectsArePast == \A e \in effects : e.period <= period

\* The inductive invariant.  ExactlyOnce needs EffectsArePast when the purge
\* opens a new period; ReplyMatchesRequest needs RecordMatchesRequest.
Inv ==
    /\ TypeOK
    /\ EffectsArePast
    /\ ExactlyOnce
    /\ RecordMatchesRequest
    /\ ReplyMatchesRequest

\* What the three statements that rewrite the row leave in it.
LEMMA RewrittenRow ==
    ASSUME TypeOK, NEW a \in Attempts, rec # NoRecord
    PROVE  /\ rec \in Records
           /\ Finalized(a) \in Records
           /\ Finalized(a).state = "completed"
           /\ Finalized(a).response = a
           /\ Finalized(a).hash = rec.hash
           /\ Stolen(a) \in Records
           /\ Stolen(a).state = rec.state
           /\ Stolen(a).owner = a
           /\ Stolen(a).hash = RequestHash[a]
<1>1. rec \in Records
  BY DEF TypeOK
<1>2. /\ start[a] + Lease \in Nat
      /\ start[a] + Retention \in Nat
      /\ RequestHash[a] \in Hashes
  BY ConstantsAssumption DEF TypeOK, Hashes
<1>3. QED
  BY <1>1, <1>2 DEF Records, Finalized, Stolen

\* Every step keeps the types.
LEMMA TypeStep ==
    ASSUME TypeOK, [Next]_vars
    PROVE  TypeOK'
<1>a. /\ Lease \in Nat
      /\ Retention \in Nat
      /\ \A a \in Attempts : RequestHash[a] \in Hashes
  BY ConstantsAssumption DEF Hashes
<1>0. CASE UNCHANGED vars
  BY <1>0 DEF TypeOK, vars
<1>1. ASSUME NEW a \in Attempts, Begin(a) PROVE TypeOK'
  BY <1>1 DEF Begin, TypeOK, Goto, Resting, Working
<1>2. ASSUME NEW a \in Attempts, InsertClaim(a) PROVE TypeOK'
  BY <1>a, <1>2 DEF InsertClaim, TypeOK, Goto, Resting, Working, Records
<1>3. ASSUME NEW a \in Attempts, ReadRecord(a) PROVE TypeOK'
  <2>1. rec # NoRecord => rec \in Records
    BY DEF TypeOK
  <2>2. QED
    BY <1>3, <2>1 DEF ReadRecord, PollAgain, Answer, Goto, Completed, InProgress,
                      TypeOK, Resting, Working, Records
<1>4. ASSUME NEW a \in Attempts, StealLease(a) PROVE TypeOK'
  <2>1. rec' \in Records \cup {NoRecord}
    <3>1. CASE InProgress /\ rec.lease_until <= now
      <4>1. rec' = Stolen(a)
        BY <1>4, <3>1 DEF StealLease
      <4>2. QED
        BY <3>1, <4>1, RewrittenRow DEF InProgress
    <3>2. CASE ~(InProgress /\ rec.lease_until <= now)
      BY <1>4, <3>2 DEF StealLease, TypeOK
    <3>3. QED
      BY <3>1, <3>2
  <2>2. QED
    BY <1>4, <2>1 DEF StealLease, PollAgain, Answer, Goto, TypeOK, Resting, Working
<1>5. ASSUME NEW a \in Attempts, FinalizeInTx(a) PROVE TypeOK'
  <2>1. rec' \in Records \cup {NoRecord}
    BY <1>5, RewrittenRow DEF FinalizeInTx, OwnedBy, InProgress, TypeOK
  <2>2. QED
    BY <1>5, <2>1 DEF FinalizeInTx, Goto, TypeOK, Resting, Working
<1>6. ASSUME NEW a \in Attempts, Committed(a) PROVE TypeOK'
  BY <1>6 DEF Committed, Answer, Goto, TypeOK, Resting, Working
<1>7. ASSUME NEW a \in Attempts, Apply(a) PROVE TypeOK'
  BY <1>7 DEF Apply, Goto, TypeOK, Resting, Working
<1>8. ASSUME NEW a \in Attempts, Complete(a) PROVE TypeOK'
  <2>1. rec' \in Records \cup {NoRecord}
    BY <1>8, RewrittenRow DEF Complete, OwnedBy, InProgress, TypeOK
  <2>2. QED
    BY <1>8, <2>1 DEF Complete, Answer, Goto, TypeOK, Resting, Working
<1>9. ASSUME NEW a \in Attempts, OperationFails(a) PROVE TypeOK'
  BY <1>9 DEF OperationFails, Goto, TypeOK, Resting, Working
<1>10. ASSUME NEW a \in Attempts, FailOrRelease(a) PROVE TypeOK'
  BY <1>10 DEF FailOrRelease, Answer, Goto, TypeOK, Resting, Working
<1>11. ASSUME NEW a \in Attempts, Crash(a) PROVE TypeOK'
  BY <1>11 DEF Crash, Goto, TypeOK, Resting, Working
<1>12. ASSUME PurgeIdempotencyRecords PROVE TypeOK'
  BY <1>12 DEF PurgeIdempotencyRecords, TypeOK
<1>13. ASSUME Tick PROVE TypeOK'
  BY <1>13 DEF Tick, TypeOK
<1>14. QED
  BY <1>0, <1>1, <1>2, <1>3, <1>4, <1>5, <1>6, <1>7, <1>8, <1>9, <1>10,
     <1>11, <1>12, <1>13 DEF Next, Step

\* What finalising the row and recording the effect does to the invariant:
\* the claim was open, so no effect of this period existed.
LEMMA FinalizeStep ==
    ASSUME Inv, NEW a \in Attempts, OwnedBy(a),
           rec' = Finalized(a),
           effects' = effects \cup {[by |-> a, period |-> period]},
           period' = period
    PROVE  /\ EffectsArePast'
           /\ ExactlyOnce'
           /\ RecordMatchesRequest'
<1>1. rec # NoRecord /\ rec.state = "in_progress" /\ rec.owner = a
  BY DEF OwnedBy, InProgress
<1>2. /\ rec'.state = "completed"
      /\ rec'.response = a
      /\ rec'.hash = rec.hash
      /\ rec' # NoRecord
  BY <1>1, RewrittenRow, NoRecordAssumption DEF Inv
<1>3. \A e \in effects : e.period # period
  BY <1>1 DEF Inv, ExactlyOnce, Completed
<1>4. period \in Nat /\ effects \in SUBSET [by: Attempts, period: Nat]
  BY DEF Inv, TypeOK
<1>5. EffectsArePast'
  BY <1>4 DEF Inv, EffectsArePast
<1>6. ExactlyOnce'
  <2>1. \A e, f \in effects' : e.period = f.period => e = f
    BY <1>3 DEF Inv, ExactlyOnce
  <2>2. \A e \in effects' : e.period = period' => e.by = a
    BY <1>3
  <2>3. [by |-> a, period |-> period'] \in effects'
    OBVIOUS
  <2>4. Completed'
    BY <1>2 DEF Completed, NoRecord
  <2>5. QED
    BY <1>2, <2>1, <2>2, <2>3, <2>4 DEF ExactlyOnce
<1>7. RecordMatchesRequest'
  BY <1>1, <1>2 DEF Inv, RecordMatchesRequest, NoRecord
<1>8. QED
  BY <1>5, <1>6, <1>7

\* Every step keeps the four safety conjuncts.
LEMMA SafetyStep ==
    ASSUME Inv, [Next]_vars
    PROVE  EffectsArePast' /\ ExactlyOnce' /\ RecordMatchesRequest' /\ ReplyMatchesRequest'
<1> DEFINE Safety == EffectsArePast /\ ExactlyOnce /\ RecordMatchesRequest
           SameRow == rec' = rec /\ effects' = effects /\ period' = period
<1>a. SameRow => Safety'
  BY DEF Inv, EffectsArePast, ExactlyOnce, RecordMatchesRequest, Completed, NoRecord
<1>b. reply' = reply => ReplyMatchesRequest'
  BY DEF Inv, ReplyMatchesRequest
<1>c. ASSUME NEW a \in Attempts, NEW r,
             reply' = [reply EXCEPT ![a] = r],
             r \in Attempts => RequestHash[r] = RequestHash[a]
      PROVE  ReplyMatchesRequest'
  BY <1>c DEF Inv, TypeOK, ReplyMatchesRequest
<1>d. ASSUME NEW a \in Attempts, Answer(a, "error")
      PROVE  ReplyMatchesRequest'
  BY <1>c, <1>d, ConstantsAssumption DEF Answer
<1>e. ASSUME NEW a \in Attempts, PollAgain(a)
      PROVE  ReplyMatchesRequest'
  BY <1>b, <1>d, <1>e DEF PollAgain
<1>0. CASE UNCHANGED vars
  BY <1>0, <1>a, <1>b DEF vars
<1>1. ASSUME NEW a \in Attempts, Begin(a) PROVE Safety' /\ ReplyMatchesRequest'
  BY <1>1, <1>a, <1>b DEF Begin
<1>2. ASSUME NEW a \in Attempts, InsertClaim(a) PROVE Safety' /\ ReplyMatchesRequest'
  <2>1. CASE rec = NoRecord
    <3>1. /\ rec'.state = "in_progress"
          /\ rec'.owner = a
          /\ rec'.hash = RequestHash[a]
          /\ effects' = effects /\ period' = period
      BY <1>2, <2>1 DEF InsertClaim
    <3>2. ~Completed /\ ~Completed'
      BY <2>1, <3>1 DEF Completed
    <3>3. QED
      BY <1>2, <1>b, <3>1, <3>2
         DEF InsertClaim, Inv, EffectsArePast, ExactlyOnce, RecordMatchesRequest, Completed
  <2>2. CASE rec # NoRecord
    BY <1>2, <2>2, <1>a, <1>b DEF InsertClaim
  <2>3. QED
    BY <2>1, <2>2
<1>3. ASSUME NEW a \in Attempts, ReadRecord(a) PROVE Safety' /\ ReplyMatchesRequest'
  <2>1. Safety'
    BY <1>3, <1>a DEF ReadRecord
  <2>2. CASE Completed /\ rec.hash = RequestHash[a] /\ Answer(a, rec.response)
    <3>1. RequestHash[rec.response] = RequestHash[a]
      BY <2>2 DEF Inv, RecordMatchesRequest, Completed
    <3>2. QED
      BY <2>1, <2>2, <3>1, <1>c DEF Answer
  <2>3. CASE PollAgain(a)
    BY <2>1, <2>3, <1>e
  <2>4. CASE Answer(a, "error")
    BY <2>1, <2>4, <1>d
  <2>5. CASE UNCHANGED reply
    BY <2>1, <2>5, <1>b
  <2>6. QED
    BY <1>3, <2>2, <2>3, <2>4, <2>5 DEF ReadRecord
<1>4. ASSUME NEW a \in Attempts, StealLease(a) PROVE Safety' /\ ReplyMatchesRequest'
  <2>1. CASE InProgress /\ rec.lease_until <= now
    <3>1. rec' = Stolen(a) /\ UNCHANGED <<reply, effects, period>>
      BY <1>4, <2>1 DEF StealLease
    <3>2. /\ rec'.state = "in_progress"
          /\ rec'.owner = a
          /\ rec'.hash = RequestHash[a]
      BY <2>1, <3>1, RewrittenRow DEF Inv, InProgress
    <3>3. ~Completed /\ ~Completed'
      BY <2>1, <3>2 DEF Completed, InProgress
    <3>4. QED
      BY <1>b, <3>1, <3>2, <3>3
         DEF Inv, EffectsArePast, ExactlyOnce, RecordMatchesRequest
  <2>2. CASE ~(InProgress /\ rec.lease_until <= now)
    BY <1>4, <2>2, <1>a, <1>e DEF StealLease
  <2>3. QED
    BY <2>1, <2>2
<1>5. ASSUME NEW a \in Attempts, FinalizeInTx(a) PROVE Safety' /\ ReplyMatchesRequest'
  BY <1>5, <1>a, <1>b, FinalizeStep DEF FinalizeInTx
<1>6. ASSUME NEW a \in Attempts, Committed(a) PROVE Safety' /\ ReplyMatchesRequest'
  BY <1>6, <1>a, <1>b, <1>c DEF Committed, Answer
<1>7. ASSUME NEW a \in Attempts, Apply(a) PROVE Safety' /\ ReplyMatchesRequest'
  BY <1>7, <1>a, <1>b DEF Apply
<1>8. ASSUME NEW a \in Attempts, Complete(a) PROVE Safety' /\ ReplyMatchesRequest'
  <2>1. Safety'
    BY <1>8, <1>a, FinalizeStep DEF Complete
  <2>2. ReplyMatchesRequest'
    <3>1. Answer(a, a) => ReplyMatchesRequest'
      BY <1>c DEF Answer
    <3>2. QED
      BY <1>8, <3>1, <1>d DEF Complete
  <2>3. QED
    BY <2>1, <2>2
<1>9. ASSUME NEW a \in Attempts, OperationFails(a) PROVE Safety' /\ ReplyMatchesRequest'
  BY <1>9, <1>a, <1>b DEF OperationFails
<1>10. ASSUME NEW a \in Attempts, FailOrRelease(a) PROVE Safety' /\ ReplyMatchesRequest'
  <2>1. CASE OwnedBy(a) /\ rec' = NoRecord
    <3>1. ~Completed /\ ~Completed' /\ effects' = effects /\ period' = period
      BY <1>10, <2>1 DEF FailOrRelease, OwnedBy, InProgress, Completed, NoRecord
    <3>2. Safety'
      BY <2>1, <3>1 DEF Inv, EffectsArePast, ExactlyOnce, RecordMatchesRequest, NoRecord
    <3>3. QED
      BY <1>10, <3>2, <1>d DEF FailOrRelease
  <2>2. CASE UNCHANGED rec
    BY <1>10, <2>2, <1>a, <1>d DEF FailOrRelease
  <2>3. QED
    BY <1>10, <2>1, <2>2 DEF FailOrRelease
<1>11. ASSUME NEW a \in Attempts, Crash(a) PROVE Safety' /\ ReplyMatchesRequest'
  BY <1>11, <1>a, <1>b DEF Crash
<1>12. ASSUME PurgeIdempotencyRecords PROVE Safety' /\ ReplyMatchesRequest'
  <2>1. rec' = NoRecord /\ effects' = effects /\ ~Completed'
    BY <1>12 DEF PurgeIdempotencyRecords, Completed, NoRecord
  <2>2. period' = IF Completed THEN period + 1 ELSE period
    BY <1>12 DEF PurgeIdempotencyRecords
  <2>3. period \in Nat /\ effects \in SUBSET [by: Attempts, period: Nat]
    BY DEF Inv, TypeOK
  <2>4. EffectsArePast'
    BY <2>1, <2>2, <2>3 DEF Inv, EffectsArePast
  <2>5. \A e \in effects : e.period # period'
    BY <2>2, <2>3 DEF Inv, EffectsArePast, ExactlyOnce
  <2>6. ExactlyOnce' /\ RecordMatchesRequest'
    BY <2>1, <2>5 DEF Inv, ExactlyOnce, RecordMatchesRequest, NoRecord
  <2>7. QED
    BY <1>12, <2>4, <2>6, <1>b DEF PurgeIdempotencyRecords
<1>13. ASSUME Tick PROVE Safety' /\ ReplyMatchesRequest'
  BY <1>13, <1>a, <1>b DEF Tick
<1>14. QED
  BY <1>0, <1>1, <1>2, <1>3, <1>4, <1>5, <1>6, <1>7, <1>8, <1>9, <1>10,
     <1>11, <1>12, <1>13 DEF Next, Step

\* The inductive invariant holds of every behaviour.
THEOREM Invariance == Spec => []Inv
<1>1. Init => Inv
  BY ConstantsAssumption
     DEF Init, Inv, TypeOK, EffectsArePast, ExactlyOnce, RecordMatchesRequest,
         ReplyMatchesRequest, Completed, NoRecord, Resting
<1>2. Inv /\ [Next]_vars => Inv'
  BY TypeStep, SafetyStep DEF Inv
<1>3. QED
  BY <1>1, <1>2, PTL DEF Spec

\* At most one attempt takes effect per retention period, and the record
\* replays exactly that one (finalize_in_tx, complete, fail_or_release).
THEOREM EffectsAreOnce == Spec => []ExactlyOnce
<1>1. Inv => ExactlyOnce
  BY DEF Inv
<1>2. QED
  BY <1>1, Invariance, PTL

\* Nobody is answered with the response of a different request (the hash
\* check of acquire, and the hash STEAL_LEASE writes).
THEOREM RepliesMatch == Spec => []ReplyMatchesRequest
<1>1. Inv => ReplyMatchesRequest
  BY DEF Inv
<1>2. QED
  BY <1>1, Invariance, PTL

\* The variables keep their types.
THEOREM TypeCorrect == Spec => []TypeOK
<1>1. Inv => TypeOK
  BY DEF Inv
<1>2. QED
  BY <1>1, Invariance, PTL

\* Only the retention purge ends a completed record (the WHERE clauses of
\* STEAL_LEASE, FINALIZE and the release).
THEOREM CompletedRowsAreFinal == Spec => CompletedIsFinal
<1>1. [Next]_vars /\ Completed
        => rec' = rec \/ (rec' = NoRecord /\ rec.expires_at <= now)
  BY DEF Next, Step, vars, Begin, InsertClaim, ReadRecord, StealLease, FinalizeInTx,
         Committed, Apply, Complete, OperationFails, FailOrRelease, Crash,
         PurgeIdempotencyRecords, Tick, Completed, InProgress, OwnedBy
<1>2. QED
  BY <1>1, PTL DEF Spec, CompletedIsFinal

-----------------------------------------------------------------------------
(* The refinement of OnceOnly *)

\* Where an attempt stands decides what it was answered and what it did: an
\* attempt still at work has no answer, only an attempt past its finalisation
\* has an effect, and one waiting for the commit's answer has one.
AttemptHistory ==
    /\ \A a \in Attempts : pc[a] \in Working => reply[a] = None
    /\ \A a \in Attempts : pc[a] = "idle" => reply[a] = None
    /\ \A e \in effects : pc[e.by] \in {"committed", "failed", "done", "crashed"}
    /\ \A a \in Attempts : pc[a] = "committed" => \E e \in effects : e.by = a

\* Every step keeps AttemptHistory.
LEMMA HistoryStep ==
    ASSUME TypeOK, AttemptHistory, [Next]_vars
    PROVE  AttemptHistory'
<1> USE DEF TypeOK, AttemptHistory, Goto, Answer, PollAgain, Working
<1>0. CASE UNCHANGED vars
  BY <1>0 DEF vars
<1>1. ASSUME NEW a \in Attempts, Begin(a) PROVE AttemptHistory'
  BY <1>1 DEF Begin
<1>2. ASSUME NEW a \in Attempts, InsertClaim(a) PROVE AttemptHistory'
  BY <1>2 DEF InsertClaim
<1>3. ASSUME NEW a \in Attempts, ReadRecord(a) PROVE AttemptHistory'
  BY <1>3 DEF ReadRecord
<1>4. ASSUME NEW a \in Attempts, StealLease(a) PROVE AttemptHistory'
  BY <1>4 DEF StealLease
<1>5. ASSUME NEW a \in Attempts, FinalizeInTx(a) PROVE AttemptHistory'
  <2>1. CASE OwnedBy(a)
    <3> DEFINE mine == [by |-> a, period |-> period]
    <3>1. /\ pc' = [pc EXCEPT ![a] = "committed"]
          /\ effects' = effects \cup {mine}
          /\ reply' = reply
      BY <1>5, <2>1 DEF FinalizeInTx
    <3>2. mine.by = a /\ mine \in effects'
      BY <3>1
    <3>3. \A b \in Attempts : pc'[b] = "committed" => \E e \in effects' : e.by = b
      BY <3>1, <3>2
    <3>4. \A e \in effects' : pc'[e.by] \in {"committed", "failed", "done", "crashed"}
      BY <3>1, <3>2
    <3>5. \A b \in Attempts : pc'[b] \in Working => reply'[b] = None
      BY <1>5, <3>1 DEF FinalizeInTx
    <3>6. QED
      BY <3>1, <3>3, <3>4, <3>5
  <2>2. CASE ~OwnedBy(a)
    BY <1>5, <2>2 DEF FinalizeInTx
  <2>3. QED
    BY <2>1, <2>2
<1>6. ASSUME NEW a \in Attempts, Committed(a) PROVE AttemptHistory'
  BY <1>6 DEF Committed
<1>7. ASSUME NEW a \in Attempts, Apply(a) PROVE AttemptHistory'
  BY <1>7 DEF Apply
<1>8. ASSUME NEW a \in Attempts, Complete(a) PROVE AttemptHistory'
  BY <1>8 DEF Complete
<1>9. ASSUME NEW a \in Attempts, OperationFails(a) PROVE AttemptHistory'
  BY <1>9 DEF OperationFails
<1>10. ASSUME NEW a \in Attempts, FailOrRelease(a) PROVE AttemptHistory'
  BY <1>10 DEF FailOrRelease
<1>11. ASSUME NEW a \in Attempts, Crash(a) PROVE AttemptHistory'
  BY <1>11 DEF Crash
<1>12. ASSUME PurgeIdempotencyRecords PROVE AttemptHistory'
  BY <1>12 DEF PurgeIdempotencyRecords
<1>13. ASSUME Tick PROVE AttemptHistory'
  BY <1>13 DEF Tick
<1>14. QED
  BY <1>0, <1>1, <1>2, <1>3, <1>4, <1>5, <1>6, <1>7, <1>8, <1>9, <1>10,
     <1>11, <1>12, <1>13 DEF Next, Step

\* The abstract state of Once, named.
Outcome == IF Completed THEN rec.response ELSE None

Applied == {e.by : e \in effects}

\* Finalising the row is the abstract effect of the attempt.
LEMMA FinalizeTakesEffect ==
    ASSUME Inv, AttemptHistory, NEW a \in Attempts, pc[a] \in {"owner", "applied"},
           OwnedBy(a), rec' = Finalized(a),
           effects' = effects \cup {[by |-> a, period |-> period]}
    PROVE  Once!TakeEffect(a)
<1>1. Outcome = None /\ rec # NoRecord
  BY DEF OwnedBy, InProgress, Completed, Outcome
<1>2. a \notin Applied
  BY DEF AttemptHistory, Applied
<1>3. Outcome' = a
  BY <1>1, RewrittenRow, NoRecordAssumption DEF Inv, Outcome, Completed, NoRecord
<1>4. Applied' = Applied \cup {a}
  <2>1. [by |-> a, period |-> period] \in effects' /\ [by |-> a, period |-> period].by = a
    OBVIOUS
  <2>2. \A e : e \in effects' <=> e \in effects \/ e = [by |-> a, period |-> period]
    OBVIOUS
  <2>3. QED
    BY <2>1, <2>2 DEF Applied
<1>5. QED
  BY <1>1, <1>2, <1>3, <1>4 DEF Once!TakeEffect, Outcome, Applied

\* Every step is a step of the abstract register or leaves it alone.
LEMMA StepRefines ==
    ASSUME Inv, AttemptHistory, [Next]_vars
    PROVE  [Once!ANext]_(Once!avars)
<1> DEFINE Still == Outcome' = Outcome /\ Applied' = Applied
           Abstract == [Once!ANext]_(Once!avars)
<1>a. rec' = rec /\ effects' = effects => Still
  BY DEF Outcome, Applied, Completed
<1>b. Still /\ reply' = reply => Abstract
  BY DEF Once!avars, Outcome, Applied
<1>c. ASSUME NEW a \in Attempts, Still, reply[a] = None,
             \/ Outcome # None /\ reply' = [reply EXCEPT ![a] = Outcome]
             \/ a \in Applied /\ reply' = [reply EXCEPT ![a] = a]
             \/ reply' = [reply EXCEPT ![a] = "error"]
      PROVE  Abstract
  BY <1>c DEF Once!ANext, Once!Return, Outcome, Applied
<1>d. ASSUME NEW a \in Attempts, Still, pc[a] \in Working, PollAgain(a)
      PROVE  Abstract
  <2>1. reply[a] = None
    BY <1>d DEF AttemptHistory
  <2>2. reply' = reply \/ reply' = [reply EXCEPT ![a] = "error"]
    BY <1>d DEF PollAgain, Answer
  <2>3. QED
    BY <1>b, <1>c, <1>d, <2>1, <2>2
<1>0. CASE UNCHANGED vars
  BY <1>0, <1>a, <1>b DEF vars
<1>1. ASSUME NEW a \in Attempts, Begin(a) PROVE Abstract
  BY <1>1, <1>a, <1>b DEF Begin
<1>2. ASSUME NEW a \in Attempts, InsertClaim(a) PROVE Abstract
  <2>1. CASE rec = NoRecord
    <3>1. rec'.state = "in_progress" /\ effects' = effects /\ reply' = reply
      BY <1>2, <2>1 DEF InsertClaim
    <3>2. Still
      BY <2>1, <3>1 DEF Outcome, Applied, Completed
    <3>3. QED
      BY <3>1, <3>2, <1>b
  <2>2. CASE rec # NoRecord
    BY <1>2, <2>2, <1>a, <1>b DEF InsertClaim
  <2>3. QED
    BY <2>1, <2>2
<1>3. ASSUME NEW a \in Attempts, ReadRecord(a) PROVE Abstract
  <2>1. Still /\ reply[a] = None /\ pc[a] \in Working
    BY <1>3, <1>a DEF ReadRecord, AttemptHistory, Working
  <2>2. CASE Completed /\ Answer(a, rec.response)
    <3>1. rec.response \in Attempts
      BY <2>2 DEF Inv, RecordMatchesRequest, Completed
    <3>2. Outcome = rec.response /\ Outcome # None
      BY <2>2, <3>1, ConstantsAssumption DEF Outcome
    <3>3. QED
      BY <2>1, <2>2, <3>2, <1>c DEF Answer
  <2>3. CASE PollAgain(a)
    BY <2>1, <2>3, <1>d
  <2>4. CASE Answer(a, "error")
    BY <2>1, <2>4, <1>c DEF Answer
  <2>5. CASE UNCHANGED reply
    BY <2>1, <2>5, <1>b
  <2>6. QED
    BY <1>3, <2>2, <2>3, <2>4, <2>5 DEF ReadRecord
<1>4. ASSUME NEW a \in Attempts, StealLease(a) PROVE Abstract
  <2>1. CASE InProgress /\ rec.lease_until <= now
    <3>1. rec' = Stolen(a) /\ UNCHANGED <<reply, effects>>
      BY <1>4, <2>1 DEF StealLease
    <3>2. rec'.state = "in_progress"
      BY <2>1, <3>1, RewrittenRow DEF Inv, InProgress
    <3>3. Still
      BY <2>1, <3>1, <3>2 DEF Outcome, Applied, Completed, InProgress
    <3>4. QED
      BY <1>b, <3>1, <3>3
  <2>2. CASE ~(InProgress /\ rec.lease_until <= now)
    BY <1>4, <2>2, <1>a, <1>d DEF StealLease, Working
  <2>3. QED
    BY <2>1, <2>2
<1>5. ASSUME NEW a \in Attempts, FinalizeInTx(a) PROVE Abstract
  <2>1. CASE OwnedBy(a)
    BY <1>5, <2>1, FinalizeTakesEffect DEF FinalizeInTx, Once!ANext
  <2>2. CASE ~OwnedBy(a)
    BY <1>5, <2>2, <1>a, <1>b DEF FinalizeInTx
  <2>3. QED
    BY <2>1, <2>2
<1>6. ASSUME NEW a \in Attempts, Committed(a) PROVE Abstract
  <2>1. Still /\ reply[a] = None /\ a \in Applied
    BY <1>6, <1>a DEF Committed, AttemptHistory, Working, Applied
  <2>2. QED
    BY <1>6, <2>1, <1>b, <1>c DEF Committed, Answer
<1>7. ASSUME NEW a \in Attempts, Apply(a) PROVE Abstract
  BY <1>7, <1>a, <1>b DEF Apply
<1>8. ASSUME NEW a \in Attempts, Complete(a) PROVE Abstract
  <2>1. reply[a] = None
    BY <1>8 DEF Complete, AttemptHistory, Working
  <2>2. CASE OwnedBy(a)
    <3>1. \E r \in {a, "error"} : reply' = [reply EXCEPT ![a] = r]
      BY <1>8, <2>2 DEF Complete, Answer
    <3>2. Once!TakeEffect(a)
      BY <1>8, <2>2, FinalizeTakesEffect DEF Complete
    <3>3. QED
      BY <2>1, <3>1, <3>2 DEF Once!ANext
  <2>3. CASE ~OwnedBy(a)
    BY <1>8, <2>1, <2>3, <1>a, <1>c DEF Complete, Answer
  <2>4. QED
    BY <2>2, <2>3
<1>9. ASSUME NEW a \in Attempts, OperationFails(a) PROVE Abstract
  BY <1>9, <1>a, <1>b DEF OperationFails
<1>10. ASSUME NEW a \in Attempts, FailOrRelease(a) PROVE Abstract
  <2>1. reply[a] = None
    BY <1>10 DEF FailOrRelease, AttemptHistory, Working
  <2>2. Still
    BY <1>10, <1>a DEF FailOrRelease, OwnedBy, InProgress, Completed, NoRecord, Outcome, Applied
  <2>3. QED
    BY <1>10, <2>1, <2>2, <1>c DEF FailOrRelease, Answer
<1>11. ASSUME NEW a \in Attempts, Crash(a) PROVE Abstract
  BY <1>11, <1>a, <1>b DEF Crash
<1>12. ASSUME PurgeIdempotencyRecords PROVE Abstract
  <2>1. Outcome' = None /\ Applied' = Applied /\ reply' = reply
    BY <1>12 DEF PurgeIdempotencyRecords, Outcome, Applied, Completed, NoRecord
  <2>2. CASE Outcome = None
    BY <2>1, <2>2, <1>b
  <2>3. CASE Outcome # None
    BY <2>1, <2>3 DEF Once!ANext, Once!Forget, Outcome, Applied
  <2>4. QED
    BY <2>2, <2>3
<1>13. ASSUME Tick PROVE Abstract
  BY <1>13, <1>a, <1>b DEF Tick
<1>14. QED
  BY <1>0, <1>1, <1>2, <1>3, <1>4, <1>5, <1>6, <1>7, <1>8, <1>9, <1>10,
     <1>11, <1>12, <1>13 DEF Next, Step

\* The record implements the once-only register: what acquire, the takeover,
\* finalisation, release and purge do is what a client may rely on.
THEOREM RefinesOnceOnly == Spec => ImplementsOnceOnly
<1>1. Init => AttemptHistory
  BY DEF Init, AttemptHistory
<1>2. Inv /\ AttemptHistory /\ [Next]_vars => AttemptHistory'
  BY HistoryStep DEF Inv
<1>3. Init => Once!AInit
  BY DEF Init, Once!AInit, Completed, NoRecord
<1>4. Inv /\ AttemptHistory /\ [Next]_vars => [Once!ANext]_(Once!avars)
  BY StepRefines
<1>5. QED
  BY <1>1, <1>2, <1>3, <1>4, Invariance, PTL DEF Spec, ImplementsOnceOnly, Once!ASpec
=============================================================================
