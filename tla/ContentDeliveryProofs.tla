----------------------- MODULE ContentDeliveryProofs -----------------------
(***************************************************************************)
(* Proofs about ContentDelivery for any number of sessions, parts,         *)
(* requests, PUTs and readers, and for every setting of the clocks.        *)
(***************************************************************************)
EXTENDS ContentDelivery, TLAPS

Stages == {"none", "exists", "read", "writing", "cleanup", "stat", "commit", "abort",
           "record", "served"}
Contents == {"none", "broken", "whole"}

TaskType == [at: Stages, upload: Uploads \cup {None}, now: Nat, left: SUBSET Parts,
             bytes: Contents]
ReaderType == [at: {"none", "sign", "served"}, blob: Uploads \cup {None}]

Types ==
    /\ clock \in Nat
    /\ content \in Uploads \cup {None}
    /\ deleted \in BOOLEAN
    /\ session \in [Uploads -> {"ready", "completed", "aborted"}]
    /\ queue \in [Uploads -> Int \cup {None}]
    /\ file \in [Files -> Contents]
    /\ put \in [Putters -> Files \cup {None}]
    /\ task \in [Handlers -> TaskType]
    /\ reader \in [Readers -> ReaderType]
    /\ signed \subseteq [blob: Uploads, exp: Int]
    /\ collector \in [at: {"none", "delete", "finish"}, blob: Uploads \cup {None}]
    /\ accepted \subseteq Uploads
    /\ replaced \in [Uploads -> Nat \cup {None}]

\* Who works on an upload or holds its blob knows which; what a handler
\* assembles is something.
TaskKnown(h) ==
    /\ task[h].at \notin {"none", "served"} => task[h].upload \in Uploads
    /\ task[h].at \in {"read", "writing"} => task[h].bytes # "none"

Known ==
    /\ \A h \in Handlers : TaskKnown(h)
    /\ collector.at # "none" => collector.blob \in Uploads
    /\ \A r \in Readers : reader[r].at = "sign" => reader[r].blob \in Uploads

\* The content, and every blob that a GET names or is about to name, is that
\* of a completed session.
CompletedOnly ==
    /\ content # None => session[content] = "completed"
    /\ \A r \in Readers : reader[r].at = "sign" => session[reader[r].blob] = "completed"
    /\ \A s \in signed : session[s.blob] = "completed"

\* What a completion accepted is whole until it is collected or written to.
AcceptedWhole == \A u \in accepted : file[Blob(u)] \in {"none", "whole"}

\* A handler about to commit a session that is open has a blob.
CommitHasBlob ==
    \A h \in Handlers :
        task[h].at = "commit" /\ session[task[h].upload] = "ready"
            => file[Blob(task[h].upload)] # "none"

\* What is queued or claimed is dead.
Dead(u) == session[u] # "ready" /\ ~Live(u)
QueuedDead == \A u \in Uploads : queue[u] # None => Dead(u)
ClaimedDead == collector.at # "none" => Dead(collector.blob)

\* What was replaced was completed, and what was completed is the content or
\* was replaced.
ReplacedCompleted ==
    \A u \in Uploads :
        replaced[u] = None <=> (session[u] # "completed" \/ content = u)

\* The collector may take the blob of a completed session.
Due(u) == GraceOver(u) \/ (deleted /\ content = u)

\* Until then it is there, unclaimed, and not due in the queue.
Kept(u) ==
    /\ file[Blob(u)] # "none"
    /\ ~(collector.at # "none" /\ collector.blob = u)
    /\ content # u => queue[u] # None /\ queue[u] >= replaced[u] + GcGrace

CompletedKept == \A u \in Uploads : session[u] = "completed" /\ ~Due(u) => Kept(u)

\* The inductive invariant behind both properties.
Inv ==
    /\ Types /\ Known
    /\ CompletedOnly /\ AcceptedWhole /\ CommitHasBlob
    /\ QueuedDead /\ ClaimedDead /\ ReplacedCompleted /\ CompletedKept

\* What the handlers other than h do not notice.
OnlyTask(h) == \A g \in Handlers \ {h} : task'[g] = task[g]

LEMMA TaskMoves ==
    ASSUME Types, NEW h \in Handlers, NEW l \in Stages, Goto(h, l)
    PROVE  /\ task' \in [Handlers -> TaskType] /\ OnlyTask(h)
           /\ task'[h].at = l /\ task'[h].now = task[h].now
           /\ task'[h].upload = task[h].upload /\ task'[h].bytes = task[h].bytes
<1>1. task[h] \in TaskType /\ task \in [Handlers -> TaskType]
  BY DEF Types
<1>2. task' = [task EXCEPT ![h] = [task[h] EXCEPT !.at = l]]
  BY <1>1 DEF Goto
<1>3. [task[h] EXCEPT !.at = l] \in TaskType
  BY <1>1 DEF TaskType
<1>4. task'[h] = [task[h] EXCEPT !.at = l]
  BY <1>1, <1>2
<1>5. task' \in [Handlers -> TaskType] /\ OnlyTask(h)
  BY <1>1, <1>2, <1>3 DEF OnlyTask
<1>6. QED
  BY <1>1, <1>4, <1>5 DEF TaskType

LEMMA TaskReturns ==
    ASSUME Types, NEW h \in Handlers, Return(h)
    PROVE  task' \in [Handlers -> TaskType] /\ OnlyTask(h) /\ task'[h].at = "served"
<1>1. ServedTask \in TaskType /\ ServedTask.at = "served"
  BY DEF ServedTask, NoTask, TaskType, Stages, Contents
<1>2. QED
  BY <1>1 DEF Types, Return, OnlyTask

LEMMA TaskArrives ==
    ASSUME Types, NEW h \in Handlers, NEW u \in Uploads, NEW l \in Stages, Arrive(h, u, l)
    PROVE  /\ task' \in [Handlers -> TaskType] /\ OnlyTask(h)
           /\ task'[h].at = l /\ task'[h].upload = u
<1> DEFINE new == [NoTask EXCEPT !.at = l, !.upload = u, !.now = clock]
<1>1. NoTask \in TaskType
  BY DEF NoTask, TaskType, Stages, Contents
<1>2. new \in TaskType /\ new.at = l /\ new.upload = u
  BY <1>1 DEF Types, TaskType
<1>3. task' = [task EXCEPT ![h] = new]
  BY DEF Arrive
<1> HIDE DEF new
<1>4. QED
  BY <1>2, <1>3 DEF Types, OnlyTask

\* A handler takes note of what it has found and is still to read.
LEMMA TaskNotes ==
    ASSUME Types, NEW h \in Handlers, NEW l \in Stages, NEW s \in SUBSET Parts,
           NEW b \in Contents,
           task' = [task EXCEPT ![h] = [task[h] EXCEPT !.at = l, !.left = s, !.bytes = b]]
    PROVE  /\ task' \in [Handlers -> TaskType] /\ OnlyTask(h)
           /\ task'[h].at = l /\ task'[h].upload = task[h].upload /\ task'[h].bytes = b
<1>1. task[h] \in TaskType /\ task \in [Handlers -> TaskType]
  BY DEF Types
<1> DEFINE new == [task[h] EXCEPT !.at = l, !.left = s, !.bytes = b]
<1>2. new \in TaskType /\ new.at = l /\ new.upload = task[h].upload /\ new.bytes = b
  BY <1>1 DEF TaskType
<1> HIDE DEF new
<1>3. task' = [task EXCEPT ![h] = new]
  BY DEF new
<1>4. QED
  BY <1>1, <1>2, <1>3 DEF OnlyTask

\* What each step does to the handler that takes it.
LEMMA HandlerSteps ==
    ASSUME Types, Known, NEW h \in Handlers
    PROVE  /\ FindBlob(h) =>
                 /\ task' \in [Handlers -> TaskType] /\ OnlyTask(h) /\ TaskKnown(h)'
                 /\ task'[h].at \in {"read", "stat"}
           /\ ReadPart(h) =>
                 /\ task' \in [Handlers -> TaskType] /\ OnlyTask(h) /\ TaskKnown(h)'
                 /\ task'[h].at \in {"read", "served"}
           /\ WriteEnds(h) =>
                 /\ task' \in [Handlers -> TaskType] /\ OnlyTask(h) /\ TaskKnown(h)'
                 /\ task'[h].at = "cleanup"
<1>0. task \in [Handlers -> TaskType] /\ task[h] \in TaskType /\ TaskKnown(h)
  BY DEF Types, Known
<1>1. ASSUME FindBlob(h)
      PROVE  /\ task' \in [Handlers -> TaskType] /\ OnlyTask(h) /\ TaskKnown(h)'
             /\ task'[h].at \in {"read", "stat"}
  <2>1. CASE Goto(h, "stat")
    BY <1>0, <1>1, <2>1, TaskMoves DEF FindBlob, TaskKnown, Stages
  <2>2. CASE ~Goto(h, "stat")
    <3>1. PICK listed \in SUBSET Parts, b \in {"broken", "whole"} :
             task' = [task EXCEPT ![h].at = "read", ![h].left = listed, ![h].bytes = b]
      BY <1>1, <2>2 DEF FindBlob
    <3>2. task' = [task EXCEPT ![h] = [task[h] EXCEPT !.at = "read", !.left = listed,
                                                      !.bytes = b]]
      BY <1>0, <3>1
    <3>3. "read" \in Stages /\ b \in Contents
      BY DEF Stages, Contents
    <3>4. /\ task' \in [Handlers -> TaskType] /\ OnlyTask(h)
          /\ task'[h].at = "read" /\ task'[h].upload = task[h].upload /\ task'[h].bytes = b
      BY <3>2, <3>3, TaskNotes
    <3>5. QED
      BY <1>0, <1>1, <3>4 DEF FindBlob, TaskKnown
  <2>3. QED
    BY <2>1, <2>2
<1>2. ASSUME ReadPart(h)
      PROVE  /\ task' \in [Handlers -> TaskType] /\ OnlyTask(h) /\ TaskKnown(h)'
             /\ task'[h].at \in {"read", "served"}
  <2>1. CASE Return(h)
    BY <2>1, TaskReturns DEF TaskKnown
  <2>2. CASE ~Return(h)
    <3>1. PICK n \in task[h].left, b \in {"broken", task[h].bytes} :
             task' = [task EXCEPT ![h].left = @ \ {n}, ![h].bytes = b]
      BY <1>2, <2>2 DEF ReadPart
    <3>2. task[h].at = "read" /\ task[h].bytes \in {"broken", "whole"}
      BY <1>0, <1>2 DEF ReadPart, TaskKnown, TaskType, Contents
    <3>3. task' = [task EXCEPT ![h] = [task[h] EXCEPT !.at = "read", !.left = task[h].left \ {n},
                                                      !.bytes = b]]
      BY <1>0, <3>1, <3>2 DEF TaskType
    <3>4. task[h].left \ {n} \in SUBSET Parts /\ b \in Contents /\ b # "none"
      BY <1>0, <3>1, <3>2 DEF TaskType, Contents
    <3>5. /\ task' \in [Handlers -> TaskType] /\ OnlyTask(h)
          /\ task'[h].at = "read" /\ task'[h].upload = task[h].upload /\ task'[h].bytes = b
      BY <3>3, <3>4, TaskNotes DEF Stages
    <3>6. QED
      BY <1>0, <3>2, <3>4, <3>5 DEF TaskKnown
  <2>3. QED
    BY <2>1, <2>2
<1>3. ASSUME WriteEnds(h)
      PROVE  /\ task' \in [Handlers -> TaskType] /\ OnlyTask(h) /\ TaskKnown(h)'
             /\ task'[h].at = "cleanup"
  <2>1. task' = [task EXCEPT ![h] = [task[h] EXCEPT !.at = "cleanup", !.left = task[h].left,
                                                    !.bytes = "none"]]
    BY <1>0, <1>3 DEF WriteEnds, TaskType
  <2>2. /\ task' \in [Handlers -> TaskType] /\ OnlyTask(h)
        /\ task'[h].at = "cleanup" /\ task'[h].upload = task[h].upload
    BY <1>0, <2>1, TaskNotes DEF Stages, Contents, TaskType
  <2>3. QED
    BY <1>0, <1>3, <2>2 DEF WriteEnds, TaskKnown
<1>4. QED
  BY <1>1, <1>2, <1>3

\* Writing a file takes none away, and leaves no broken one accepted.
LEMMA FilesWritten ==
    ASSUME Types, AcceptedWhole, NEW f \in Files,
           Truncate(f) \/ \E b \in {"broken", "whole"} : Written(f, b)
    PROVE  /\ file' \in [Files -> Contents] /\ accepted' \subseteq accepted /\ AcceptedWhole'
           /\ \A g \in Files : file[g] # "none" => file'[g] # "none"
<1>1. PICK b \in Contents :
         /\ file' = [file EXCEPT ![f] = b]
         /\ file[f] # "none" => b # "none"
  BY DEF Truncate, Written, Types, Contents
<1>2. accepted' = {u \in accepted : Blob(u) # f}
  BY DEF Truncate, Written
<1>3. \A u \in Uploads : Blob(u) \in Files
  BY DEF Blob, Files
<1>4. QED
  BY <1>1, <1>2, <1>3 DEF Types, AcceptedWhole

\* Removing parts touches no blob.
LEMMA PartsRemoved ==
    ASSUME Types, NEW h \in Handlers, RemoveParts(h)
    PROVE  file' \in [Files -> Contents] /\ \A u \in Uploads : file'[Blob(u)] = file[Blob(u)]
<1>1. PICK gone \in SUBSET PartFiles(task[h].upload) :
         file' = [f \in Files |-> IF f \in gone THEN "none" ELSE file[f]]
  BY DEF RemoveParts
<1>2. None \notin Parts
  <2>1. Parts \subseteq Int /\ None \notin Int
    BY ContentAssumption
  <2>2. QED
    BY <2>1
<1>3. \A u \in Uploads : Blob(u) \in Files /\ Blob(u) \notin PartFiles(task[h].upload)
  BY <1>2 DEF Blob, Files, PartFiles
<1>4. QED
  BY <1>1, <1>3 DEF Types, Contents

\* Every step keeps the types.
LEMMA TypesStep ==
    ASSUME Inv, [Next]_vars
    PROVE  Types' /\ Known'
<1> DEFINE Goal == Types' /\ Known'
<1> USE ContentAssumption DEF Inv, Types, Known, object, history
<1>0. CASE UNCHANGED vars
  BY <1>0 DEF vars, TaskKnown
<1>1. ASSUME NEW p \in Putters, PutBegins(p) \/ PutEnds(p) \/ PutDies(p) PROVE Goal
  <2>1. CASE PutBegins(p)
    <3>1. \A u \in Uploads : Targets(u) \subseteq Files
      BY DEF Targets, PartFiles, Blob, Files
    <3>2. PICK f \in Files : Truncate(f) /\ put' = [put EXCEPT ![p] = f]
      BY <2>1, <3>1 DEF PutBegins
    <3>3. file' \in [Files -> Contents] /\ accepted' \subseteq accepted
      BY <3>2, FilesWritten
    <3>4. QED
      BY <2>1, <3>2, <3>3 DEF PutBegins, TaskKnown
  <2>2. CASE PutEnds(p)
    <3>1. put[p] \in Files
      BY <2>2 DEF PutEnds
    <3>2. file' \in [Files -> Contents] /\ accepted' \subseteq accepted
      BY <2>2, <3>1, FilesWritten DEF PutEnds
    <3>3. QED
      BY <2>2, <3>2 DEF PutEnds, TaskKnown
  <2>3. CASE PutDies(p)
    BY <2>3 DEF PutDies, TaskKnown
  <2>4. QED
    BY <1>1, <2>1, <2>2, <2>3
<1>2. ASSUME NEW h \in Handlers, NEW u \in Uploads, BeginComplete(h, u) \/ BeginAbort(h, u)
      PROVE  Goal
  <2>1. PICK l \in {"commit", "exists", "abort"} : Arrive(h, u, l)
    BY <1>2 DEF BeginComplete, BeginAbort
  <2>2. /\ task' \in [Handlers -> TaskType] /\ OnlyTask(h)
        /\ task'[h].at = l /\ task'[h].upload = u
    BY <2>1, TaskArrives DEF Stages
  <2>3. \A g \in Handlers : TaskKnown(g)'
    BY <2>1, <2>2 DEF OnlyTask, TaskKnown
  <2>4. QED
    BY <1>2, <2>2, <2>3 DEF BeginComplete, BeginAbort
<1>3. ASSUME NEW h \in Handlers, FindBlob(h) \/ ReadPart(h) PROVE Goal
  <2>1. task' \in [Handlers -> TaskType] /\ OnlyTask(h) /\ TaskKnown(h)'
    BY <1>3, HandlerSteps
  <2>2. \A g \in Handlers : TaskKnown(g)'
    BY <2>1 DEF OnlyTask, TaskKnown
  <2>3. QED
    BY <1>3, <2>1, <2>2 DEF FindBlob, ReadPart
<1>4. ASSUME NEW h \in Handlers, WriteBegins(h) \/ WriteEnds(h) PROVE Goal
  <2>1. task[h].upload \in Uploads /\ task[h].bytes \in {"broken", "whole"}
    BY <1>4 DEF WriteBegins, WriteEnds, TaskKnown, TaskType, Contents
  <2>2. Blob(task[h].upload) \in Files
    BY <2>1 DEF Blob, Files
  <2>3. file' \in [Files -> Contents] /\ accepted' \subseteq accepted
    BY <1>4, <2>1, <2>2, FilesWritten DEF WriteBegins, WriteEnds
  <2>4. task' \in [Handlers -> TaskType] /\ OnlyTask(h) /\ TaskKnown(h)'
    <3>1. CASE WriteBegins(h)
      <4>1. Goto(h, "writing") /\ task[h].at = "read"
        BY <3>1 DEF WriteBegins
      <4>2. QED
        BY <2>1, <4>1, TaskMoves DEF Stages, TaskKnown
    <3>2. CASE WriteEnds(h)
      BY <3>2, HandlerSteps
    <3>3. QED
      BY <1>4, <3>1, <3>2
  <2>5. \A g \in Handlers : TaskKnown(g)'
    BY <2>4 DEF OnlyTask, TaskKnown
  <2>6. QED
    BY <1>4, <2>3, <2>4, <2>5 DEF WriteBegins, WriteEnds
<1>5. ASSUME NEW h \in Handlers, RemoveParts(h) PROVE Goal
  <2>1. PICK l \in {"stat", "record"} : Goto(h, l)
    BY <1>5 DEF RemoveParts
  <2>2. task[h].upload \in Uploads
    BY <1>5 DEF RemoveParts, TaskKnown
  <2>3. /\ task' \in [Handlers -> TaskType] /\ OnlyTask(h)
        /\ task'[h].at = l /\ task'[h].upload = task[h].upload
    BY <2>1, TaskMoves DEF Stages
  <2>4. \A g \in Handlers : TaskKnown(g)'
    BY <2>1, <2>2, <2>3 DEF OnlyTask, TaskKnown
  <2>5. file' \in [Files -> Contents]
    BY <1>5, PartsRemoved
  <2>6. QED
    BY <1>5, <2>3, <2>4, <2>5 DEF RemoveParts
<1>6. ASSUME NEW h \in Handlers, Stat(h) PROVE Goal
  <2>1. task[h].upload \in Uploads
    BY <1>6 DEF Stat, TaskKnown
  <2>2. /\ Goto(h, "commit") \/ Return(h)
        /\ accepted' \subseteq Uploads
    BY <1>6, <2>1 DEF Stat, Accept, Reject
  <2>3. task' \in [Handlers -> TaskType] /\ OnlyTask(h) /\ TaskKnown(h)'
    BY <2>1, <2>2, TaskMoves, TaskReturns DEF Stages, TaskKnown
  <2>4. \A g \in Handlers : TaskKnown(g)'
    BY <2>3 DEF OnlyTask, TaskKnown
  <2>5. QED
    BY <1>6, <2>2, <2>3, <2>4 DEF Stat
<1>7. ASSUME NEW h \in Handlers, CommitContent(h) \/ AbortRecord(h) \/ TaskDies(h) PROVE Goal
  <2>1. task' \in [Handlers -> TaskType] /\ OnlyTask(h) /\ TaskKnown(h)'
    BY <1>7, TaskReturns DEF CommitContent, AbortRecord, TaskDies, TaskKnown
  <2>2. \A g \in Handlers : TaskKnown(g)'
    BY <2>1 DEF OnlyTask, TaskKnown
  <2>3. task[h].now \in Nat /\ SupersededDue(task[h].now) \in Int
    BY DEF TaskType, SupersededDue
  <2>4. task[h].at \notin {"none", "served"} => task[h].upload \in Uploads
    BY DEF TaskKnown
  <2>5. CASE CommitContent(h)
    BY <2>1, <2>2, <2>3, <2>4, <2>5 DEF CommitContent
  <2>6. CASE AbortRecord(h)
    BY <2>1, <2>2, <2>3, <2>6 DEF AbortRecord, Enqueue
  <2>7. CASE TaskDies(h)
    BY <2>1, <2>2, <2>7 DEF TaskDies
  <2>8. QED
    BY <1>7, <2>5, <2>6, <2>7
<1>8. ASSUME NEW r \in Readers, ReadPointer(r) PROVE Goal
  <2>1. [at |-> "sign", blob |-> content] \in ReaderType /\ content \in Uploads
    BY <1>8 DEF ReadPointer, ReaderType
  <2>2. QED
    BY <1>8, <2>1 DEF ReadPointer, TaskKnown
<1>9. ASSUME NEW r \in Readers, SignDownload(r) PROVE Goal
  <2>1. reader[r].blob \in Uploads
    BY <1>9 DEF SignDownload
  <2>2. signed' \subseteq [blob: Uploads, exp: Int]
    BY <1>9, <2>1 DEF SignDownload
  <2>3. ServedReader \in ReaderType /\ ServedReader.at = "served"
    BY DEF ServedReader, NoReader, ReaderType
  <2>4. QED
    BY <1>9, <2>2, <2>3 DEF SignDownload, TaskKnown
<1>10. CASE DeleteObject
  BY <1>10 DEF DeleteObject, Enqueue, TaskKnown
<1>11. CASE ClaimGc
  BY <1>11 DEF ClaimGc, TaskKnown
<1>12. CASE DeleteBlob
  BY <1>12 DEF DeleteBlob, Contents, TaskKnown
<1>13. CASE FinishGc \/ CollectorDies
  BY <1>13 DEF FinishGc, CollectorDies, NoClaim, TaskKnown
<1>14. CASE Tick
  BY <1>14 DEF Tick, TaskKnown
<1>15. QED
  BY <1>0, <1>1, <1>2, <1>3, <1>4, <1>5, <1>6, <1>7, <1>8, <1>9, <1>10, <1>11, <1>12, <1>13,
     <1>14 DEF Next

\* A step that leaves the records and the collector alone, takes no blob away
\* and brings no handler without a blob to its commit.
LEMMA QuietStep ==
    ASSUME Inv, Types', Known', AcceptedWhole',
           UNCHANGED <<clock, content, deleted, session, queue, reader, signed, collector,
                       replaced>>,
           \A u \in Uploads : file[Blob(u)] # "none" => file'[Blob(u)] # "none",
           \A h \in Handlers : task'[h] = task[h]
              \/ task'[h].at # "commit" \/ session[task'[h].upload] # "ready"
              \/ file'[Blob(task'[h].upload)] # "none"
    PROVE  Inv'
<1>1. CompletedOnly' /\ QueuedDead' /\ ClaimedDead' /\ ReplacedCompleted'
  BY DEF Inv, CompletedOnly, QueuedDead, ClaimedDead, ReplacedCompleted, Dead, Live
<1>2. CommitHasBlob'
  BY DEF Inv, Known, TaskKnown, CommitHasBlob
<1>3. CompletedKept'
  BY DEF Inv, CompletedKept, Kept, Due, GraceOver
<1>4. QED
  BY <1>1, <1>2, <1>3 DEF Inv

\* The commit: the content was not queued, so it is from now on, counted from
\* the request's arrival; the new content was there, and unclaimed.
LEMMA CommitStep ==
    ASSUME Inv, Types', Known', NEW h \in Handlers, CommitContent(h)
    PROVE  Inv'
<1> USE DEF object
<1> DEFINE u == task[h].upload
<1>1. /\ task' \in [Handlers -> TaskType] /\ OnlyTask(h) /\ task'[h].at = "served"
      /\ u \in Uploads /\ task[h].now \in Nat
  BY TaskReturns DEF Inv, Types, Known, TaskKnown, TaskType, CommitContent
<1>2. UNCHANGED <<clock, deleted, file, reader, signed, collector, accepted>>
  BY DEF CommitContent
<1>3. AcceptedWhole'
  BY <1>2 DEF Inv, AcceptedWhole
<1>4. CASE UNCHANGED <<session, content, queue, replaced>>
  BY <1>1, <1>2, <1>3, <1>4, QuietStep DEF OnlyTask
<1>5. CASE ~UNCHANGED <<session, content, queue, replaced>>
  <2>1. /\ session[u] = "ready" /\ ~deleted
        /\ session' = [session EXCEPT ![u] = "completed"]
        /\ content' = u
        /\ queue' = [v \in Uploads |->
              IF v = u THEN None
              ELSE IF v = content /\ queue[v] = None THEN SupersededDue(task[h].now)
              ELSE queue[v]]
        /\ replaced' = [v \in Uploads |-> IF v = content THEN task[h].now ELSE replaced[v]]
    BY <1>5 DEF CommitContent
  <2>2. file[Blob(u)] # "none" /\ content # u
    <3>1. task[h].at = "commit"
      BY DEF CommitContent
    <3>2. QED
      BY <1>1, <2>1, <3>1, ContentAssumption DEF Inv, CommitHasBlob, CompletedOnly
  <2> HIDE DEF u
  <2>3. CompletedOnly'
    BY <1>1, <1>2, <2>1 DEF Inv, Types, Known, CompletedOnly
  <2>4. CommitHasBlob'
    <3> SUFFICES ASSUME NEW g \in Handlers, task'[g].at = "commit",
                        session'[task'[g].upload] = "ready"
                 PROVE  file'[Blob(task'[g].upload)] # "none"
      BY DEF CommitHasBlob
    <3>1. g # h /\ task'[g] = task[g]
      BY <1>1 DEF OnlyTask
    <3>2. task[g].upload \in Uploads
      BY <3>1 DEF Inv, Known, TaskKnown
    <3>3. session[task[g].upload] = "ready"
      BY <1>1, <2>1, <3>1, <3>2 DEF Inv, Types
    <3>4. QED
      BY <1>2, <3>1, <3>3 DEF Inv, CommitHasBlob
  <2>5. QueuedDead' /\ ClaimedDead'
    <3>1. ASSUME NEW v \in Uploads, v # u, Dead(v) \/ v = content PROVE Dead(v)'
      <4>1. session[v] # "ready"
        BY <3>1, ContentAssumption DEF Inv, CompletedOnly, Dead
      <4>2. session'[v] # "ready" /\ content' # v
        BY <1>1, <2>1, <3>1, <4>1 DEF Inv, Types
      <4>3. QED
        BY <4>2 DEF Dead, Live
    <3>2. ~Dead(u)
      BY <2>1 DEF Dead
    <3>3. QueuedDead'
      BY <2>1, <3>1 DEF Inv, QueuedDead
    <3>4. ClaimedDead'
      BY <1>2, <3>1, <3>2 DEF Inv, Known, ClaimedDead
    <3>5. QED
      BY <3>3, <3>4
  <2>6. ReplacedCompleted'
    BY <1>1, <2>1, <2>2, ContentAssumption DEF Inv, Types, CompletedOnly, ReplacedCompleted
  <2>7. CompletedKept'
    <3> SUFFICES ASSUME NEW v \in Uploads, session'[v] = "completed", ~Due(v)'
                 PROVE  Kept(v)'
      BY DEF CompletedKept
    <3>1. CASE v = u
      <4>1. ~(collector.at # "none" /\ collector.blob = u)
        BY <2>1 DEF Inv, ClaimedDead, Dead
      <4>2. QED
        BY <1>2, <2>1, <2>2, <3>1, <4>1 DEF Kept
    <3>2. CASE v # u /\ v = content
      <4>1. Kept(v)
        <5>1. replaced[v] = None /\ session[v] = "completed"
          BY <3>2, ContentAssumption DEF Inv, ReplacedCompleted, CompletedOnly
        <5>2. QED
          BY <2>1, <5>1 DEF Inv, CompletedKept, Due, GraceOver
      <4>2. queue[v] = None
        BY <2>1, <3>2 DEF Inv, QueuedDead, Dead, Live
      <4>3. queue'[v] = task[h].now + GcGrace /\ replaced'[v] = task[h].now
        BY <2>1, <3>2, <4>2 DEF SupersededDue
      <4>4. queue'[v] \in Int /\ queue'[v] >= replaced'[v] + GcGrace
        BY <1>1, <4>3, ContentAssumption
      <4>5. None \notin Int
        BY ContentAssumption
      <4>6. QED
        BY <1>2, <4>1, <4>4, <4>5 DEF Kept
    <3>3. CASE v # u /\ v # content
      <4>1. session[v] = "completed" /\ replaced'[v] = replaced[v] /\ queue'[v] = queue[v]
        BY <1>1, <2>1, <3>3 DEF Inv, Types
      <4>2. ~Due(v)
        BY <1>2, <2>1, <3>3, <4>1 DEF Due, GraceOver
      <4>3. Kept(v)
        BY <4>1, <4>2 DEF Inv, CompletedKept
      <4>4. QED
        BY <1>2, <3>3, <4>1, <4>3 DEF Kept
    <3>4. QED
      BY <3>1, <3>2, <3>3
  <2>8. QED
    BY <1>3, <2>3, <2>4, <2>5, <2>6, <2>7 DEF Inv
<1>6. QED
  BY <1>4, <1>5

\* Handlers and PUTs, but for the commit and the abort's record.
LEMMA WriterStep ==
    ASSUME Inv, Types', Known',
           \/ \E p \in Putters : PutBegins(p) \/ PutEnds(p) \/ PutDies(p)
           \/ \E h \in Handlers :
                 \/ \E u \in Uploads : BeginComplete(h, u) \/ BeginAbort(h, u)
                 \/ FindBlob(h) \/ ReadPart(h) \/ WriteBegins(h) \/ WriteEnds(h)
                 \/ RemoveParts(h) \/ Stat(h) \/ TaskDies(h)
    PROVE  Inv'
<1> USE DEF object, history
<1>0. \A u \in Uploads : Blob(u) \in Files
  BY DEF Blob, Files
<1>1. ASSUME NEW p \in Putters, PutBegins(p) \/ PutEnds(p) PROVE Inv'
  <2>1. \E f \in Files : Truncate(f) \/ \E b \in {"broken", "whole"} : Written(f, b)
    <3>1. \A u \in Uploads : Targets(u) \subseteq Files
      BY DEF Targets, PartFiles, Blob, Files
    <3>2. PutEnds(p) => put[p] \in Files
      BY DEF PutEnds, Inv, Types
    <3>3. QED
      BY <1>1, <3>1, <3>2 DEF PutBegins, PutEnds
  <2>2. AcceptedWhole' /\ \A g \in Files : file[g] # "none" => file'[g] # "none"
    BY <2>1, FilesWritten DEF Inv
  <2>3. UNCHANGED <<clock, content, deleted, session, queue, reader, signed, collector,
                    replaced, task>>
    BY <1>1 DEF PutBegins, PutEnds
  <2>4. QED
    BY <1>0, <2>2, <2>3, QuietStep
<1>2. ASSUME NEW h \in Handlers, WriteBegins(h) \/ WriteEnds(h) PROVE Inv'
  <2>1. task[h].upload \in Uploads /\ task[h].bytes \in {"broken", "whole"}
    BY <1>2 DEF Inv, Types, Known, WriteBegins, WriteEnds, TaskKnown, TaskType, Contents
  <2>2. AcceptedWhole' /\ \A g \in Files : file[g] # "none" => file'[g] # "none"
    BY <1>0, <1>2, <2>1, FilesWritten DEF Inv, WriteBegins, WriteEnds
  <2>3. UNCHANGED <<clock, content, deleted, session, queue, reader, signed, collector,
                    replaced>>
    BY <1>2 DEF WriteBegins, WriteEnds
  <2>4. OnlyTask(h) /\ task'[h].at \in {"writing", "cleanup"}
    BY <1>2, TaskMoves, HandlerSteps DEF Inv, WriteBegins, Stages
  <2>5. QED
    BY <1>0, <2>2, <2>3, <2>4, QuietStep DEF OnlyTask
<1>3. ASSUME NEW h \in Handlers, RemoveParts(h) PROVE Inv'
  <2>1. \A u \in Uploads : file'[Blob(u)] = file[Blob(u)]
    BY <1>3, PartsRemoved DEF Inv
  <2>2. UNCHANGED <<clock, content, deleted, session, queue, reader, signed, collector,
                    replaced, accepted>>
    BY <1>3 DEF RemoveParts
  <2>3. AcceptedWhole'
    BY <2>1, <2>2 DEF Inv, Types, AcceptedWhole
  <2>4. OnlyTask(h) /\ task'[h].at \in {"stat", "record"}
    BY <1>3, TaskMoves DEF Inv, RemoveParts, Stages
  <2>5. QED
    BY <2>1, <2>2, <2>3, <2>4, QuietStep DEF OnlyTask
<1>4. ASSUME NEW h \in Handlers, Stat(h) PROVE Inv'
  <2>1. UNCHANGED <<clock, content, deleted, session, queue, reader, signed, collector,
                    replaced, file>>
    BY <1>4 DEF Stat
  <2>2. AcceptedWhole'
    BY <1>4, <2>1 DEF Inv, AcceptedWhole, Stat, Accept, Reject, AsDeclared
  <2>3. /\ OnlyTask(h)
        /\ \/ task'[h].at = "served"
           \/ task'[h].upload = task[h].upload /\ AsDeclared(task[h].upload)
    BY <1>4, TaskMoves, TaskReturns DEF Inv, Stat, Accept, Reject, Stages
  <2>4. QED
    BY <2>1, <2>2, <2>3, QuietStep DEF OnlyTask, AsDeclared
<1>5. ASSUME UNCHANGED <<clock, content, deleted, session, queue, reader, signed, collector,
                         replaced, accepted, file>>,
             NEW h \in Handlers, OnlyTask(h),
             task'[h].at # "commit" \/ session[task'[h].upload] # "ready"
      PROVE  Inv'
  <2>1. AcceptedWhole'
    BY <1>5 DEF Inv, AcceptedWhole
  <2>2. QED
    BY <1>5, <2>1, QuietStep DEF OnlyTask
<1>6. ASSUME NEW h \in Handlers, NEW u \in Uploads, BeginComplete(h, u) \/ BeginAbort(h, u)
      PROVE  Inv'
  <2>1. PICK l \in {"commit", "exists", "abort"} :
           Arrive(h, u, l) /\ (l = "commit" => session[u] = "completed")
    BY <1>6 DEF BeginComplete, BeginAbort
  <2>2. OnlyTask(h) /\ task'[h].at = l /\ task'[h].upload = u
    BY <2>1, TaskArrives DEF Inv, Stages
  <2>3. QED
    BY <1>5, <1>6, <2>1, <2>2 DEF BeginComplete, BeginAbort
<1>7. ASSUME NEW h \in Handlers, FindBlob(h) \/ ReadPart(h) \/ TaskDies(h) PROVE Inv'
  <2>1. OnlyTask(h) /\ task'[h].at # "commit"
    BY <1>7, HandlerSteps, TaskReturns DEF Inv, TaskDies
  <2>2. QED
    BY <1>5, <1>7, <2>1 DEF FindBlob, ReadPart, TaskDies
<1>8. ASSUME NEW p \in Putters, PutDies(p) PROVE Inv'
  <2>1. AcceptedWhole'
    BY <1>8 DEF PutDies, Inv, AcceptedWhole
  <2>2. QED
    BY <1>8, <2>1, QuietStep DEF PutDies
<1>9. QED
  BY <1>1, <1>2, <1>3, <1>4, <1>6, <1>7, <1>8

\* A step after which the blobs that were kept still are, or may be taken.
LEMMA RecordStep ==
    ASSUME Inv, Types', Known', CompletedOnly', QueuedDead', ClaimedDead',
           UNCHANGED <<content, session, file, accepted, replaced>>,
           \A h \in Handlers : task'[h] = task[h] \/ task'[h].at # "commit",
           \A u \in Uploads : Kept(u) /\ session[u] = "completed" /\ ~Due(u) /\ ~Due(u)'
              => Kept(u)',
           \A u \in Uploads : Due(u) => Due(u)'
    PROVE  Inv'
<1>1. AcceptedWhole' /\ ReplacedCompleted' /\ CompletedKept'
  BY DEF Inv, AcceptedWhole, ReplacedCompleted, CompletedKept
<1>2. CommitHasBlob'
  BY DEF Inv, CommitHasBlob
<1>3. QED
  BY <1>1, <1>2 DEF Inv

\* The abort's record: a completed session is left alone.
LEMMA AbortStep ==
    ASSUME Inv, Types', Known', NEW h \in Handlers, AbortRecord(h)
    PROVE  Inv'
<1> USE DEF object, history
<1> DEFINE u == task[h].upload
<1>1. /\ task' \in [Handlers -> TaskType] /\ OnlyTask(h) /\ task'[h].at = "served"
      /\ u \in Uploads
  BY TaskReturns DEF Inv, Known, TaskKnown, AbortRecord
<1>2. UNCHANGED <<clock, content, deleted, file, reader, signed, collector, replaced, accepted>>
  BY DEF AbortRecord
<1>3. AcceptedWhole'
  BY <1>2 DEF Inv, AcceptedWhole
<1>4. CASE UNCHANGED <<session, queue>>
  BY <1>1, <1>2, <1>3, <1>4, QuietStep DEF OnlyTask
<1>5. CASE ~UNCHANGED <<session, queue>>
  <2>1. /\ session[u] # "completed" /\ session' = [session EXCEPT ![u] = "aborted"]
        /\ Enqueue(u, task[h].now)
    BY <1>5 DEF AbortRecord
  <2> HIDE DEF u
  <2>2. /\ session'[u] = "aborted" /\ \A v \in Uploads \ {u} : session'[v] = session[v]
        /\ \A v \in Uploads \ {u} : queue'[v] = queue[v]
    BY <1>1, <2>1 DEF Inv, Types, Enqueue
  <2>3. \A v \in Uploads : session'[v] = "completed" <=> session[v] = "completed"
    BY <2>1, <2>2
  <2>4. CompletedOnly'
    BY <1>2, <2>3 DEF Inv, Types, Known, CompletedOnly
  <2>5. content # u
    BY <1>1, <2>1, ContentAssumption DEF Inv, CompletedOnly
  <2>6. QueuedDead' /\ ClaimedDead'
    BY <1>2, <2>2, <2>5 DEF Inv, Known, QueuedDead, ClaimedDead, Dead, Live
  <2>7. ReplacedCompleted'
    BY <1>2, <2>3 DEF Inv, ReplacedCompleted
  <2>8. CommitHasBlob'
    BY <1>1, <1>2, <2>2 DEF Inv, Known, TaskKnown, OnlyTask, CommitHasBlob
  <2>9. CompletedKept'
    BY <1>2, <2>1, <2>2, <2>3 DEF Inv, CompletedKept, Kept, Due, GraceOver
  <2>10. QED
    BY <1>3, <2>4, <2>6, <2>7, <2>8, <2>9 DEF Inv
<1>6. QED
  BY <1>4, <1>5

\* The other steps.
LEMMA OtherStep ==
    ASSUME Inv, Types', Known',
           \/ \E r \in Readers : ReadPointer(r) \/ SignDownload(r)
           \/ DeleteObject \/ ClaimGc \/ DeleteBlob \/ FinishGc \/ CollectorDies \/ Tick
           \/ UNCHANGED vars
    PROVE  Inv'
<1> USE DEF object, history
<1>0. CASE UNCHANGED vars
  BY <1>0, RecordStep DEF Inv, vars, CompletedOnly, QueuedDead, ClaimedDead, Dead, Live, Kept,
     Due, GraceOver
<1>1. ASSUME NEW r \in Readers, ReadPointer(r) \/ SignDownload(r) PROVE Inv'
  <2>1. UNCHANGED <<clock, content, deleted, session, queue, file, collector, task, accepted,
                    replaced>>
    BY <1>1 DEF ReadPointer, SignDownload
  <2>2. CompletedOnly'
    <3>1. CASE ReadPointer(r)
      BY <2>1, <3>1 DEF Inv, Types, CompletedOnly, ReadPointer
    <3>2. CASE SignDownload(r)
      <4>1. reader' = [reader EXCEPT ![r] = ServedReader] /\ ServedReader.at = "served"
        BY <3>2 DEF SignDownload, ServedReader, NoReader
      <4>2. \A s \in signed' : s \in signed \/ s.blob = reader[r].blob
        BY <3>2 DEF SignDownload
      <4>3. reader[r].at = "sign"
        BY <3>2 DEF SignDownload
      <4>4. QED
        BY <2>1, <4>1, <4>2, <4>3 DEF Inv, Types, CompletedOnly
    <3>3. QED
      BY <1>1, <3>1, <3>2
  <2>3. QED
    BY <2>1, <2>2, RecordStep DEF Inv, QueuedDead, ClaimedDead, Dead, Live, Kept, Due, GraceOver
<1>2. CASE DeleteObject
  <2>1. /\ UNCHANGED <<clock, content, session, file, collector, task, reader, signed, accepted,
                       replaced>>
        /\ ~deleted /\ deleted'
        /\ \A u \in Uploads : u # content => queue'[u] = queue[u]
    BY <1>2 DEF DeleteObject, Enqueue, Inv, Types
  <2>2. CompletedOnly' /\ ClaimedDead'
    BY <2>1 DEF Inv, CompletedOnly, ClaimedDead, Dead, Live
  <2>3. QueuedDead'
    BY <2>1, ContentAssumption DEF Inv, CompletedOnly, QueuedDead, Dead, Live
  <2>4. QED
    BY <2>1, <2>2, <2>3, RecordStep DEF Kept, Due, GraceOver
<1>3. CASE ClaimGc
  <2>1. PICK u \in Uploads :
           /\ queue[u] # None /\ queue[u] <= clock /\ ~Live(u)
           /\ queue' = [queue EXCEPT ![u] = clock + Lease]
           /\ collector' = [at |-> "delete", blob |-> u]
    BY <1>3 DEF ClaimGc
  <2>2. UNCHANGED <<clock, content, deleted, session, file, task, reader, signed, accepted,
                    replaced>>
    BY <1>3 DEF ClaimGc
  <2>3. CompletedOnly' /\ QueuedDead' /\ ClaimedDead'
    BY <2>1, <2>2 DEF Inv, Types, CompletedOnly, QueuedDead, ClaimedDead, Dead, Live
  <2>4. ASSUME Kept(u), session[u] = "completed" PROVE Due(u)
    <3>1. CASE content = u
      BY <2>1, <3>1 DEF Live, Due, Inv, Types
    <3>2. CASE content # u
      <4>1. replaced[u] \in Nat /\ queue[u] \in Int /\ queue[u] >= replaced[u] + GcGrace
        BY <2>4, <3>2 DEF Inv, Types, ReplacedCompleted, Kept
      <4>2. replaced[u] # None
        BY <4>1, ContentAssumption
      <4>3. clock \in Nat /\ GcGrace \in Nat
        BY ContentAssumption DEF Inv, Types
      <4>4. replaced[u] + GcGrace <= clock
        BY <2>1, <4>1, <4>3
      <4>5. QED
        BY <4>2, <4>4 DEF Due, GraceOver
    <3>3. QED
      BY <3>1, <3>2
  <2>5. \A v \in Uploads : v # u /\ Kept(v) => Kept(v)'
    BY <2>1, <2>2 DEF Inv, Types, Kept
  <2>6. \A v \in Uploads : Due(v)' <=> Due(v)
    BY <2>2 DEF Due, GraceOver
  <2>7. QED
    BY <2>2, <2>3, <2>4, <2>5, <2>6, RecordStep
<1>4. CASE DeleteBlob
  <2> DEFINE u == collector.blob
  <2>1. /\ u \in Uploads /\ Dead(u) /\ collector.at # "none"
        /\ file' = [file EXCEPT ![Blob(u)] = "none"]
        /\ collector'.blob = u
    BY <1>4 DEF Inv, Types, Known, ClaimedDead, DeleteBlob
  <2>2. UNCHANGED <<clock, content, deleted, session, queue, task, reader, signed, accepted,
                    replaced>>
    BY <1>4 DEF DeleteBlob
  <2> HIDE DEF u
  <2>3. \A v \in Uploads : Blob(v) \in Files /\ (v # u => file'[Blob(v)] = file[Blob(v)])
    BY <2>1 DEF Inv, Types, Blob, Files
  <2>4. file'[Blob(u)] = "none"
    BY <2>1, <2>3 DEF Inv, Types
  <2>5. CompletedOnly' /\ QueuedDead' /\ ReplacedCompleted'
    BY <2>2 DEF Inv, CompletedOnly, QueuedDead, ReplacedCompleted, Dead, Live
  <2>6. ClaimedDead'
    BY <2>1, <2>2 DEF ClaimedDead, Dead, Live
  <2>7. AcceptedWhole'
    BY <2>2, <2>3, <2>4 DEF Inv, Types, AcceptedWhole
  <2>8. CommitHasBlob'
    BY <2>1, <2>2, <2>3 DEF Inv, Known, TaskKnown, CommitHasBlob, Dead
  <2>9. CompletedKept'
    <3>1. ~Kept(u)
      BY <2>1 DEF Kept, u
    <3>2. \A v \in Uploads : v # u /\ Kept(v) => Kept(v)'
      BY <2>1, <2>2, <2>3 DEF Kept
    <3>3. \A v \in Uploads : Due(v)' <=> Due(v)
      BY <2>2 DEF Due, GraceOver
    <3>4. QED
      BY <2>2, <3>1, <3>2, <3>3 DEF Inv, CompletedKept
  <2>10. QED
    BY <2>5, <2>6, <2>7, <2>8, <2>9 DEF Inv
<1>5. CASE FinishGc \/ CollectorDies
  <2>1. /\ UNCHANGED <<clock, content, deleted, session, file, task, reader, signed, accepted,
                       replaced>>
        /\ collector'.at = "none" /\ collector.at # "none"
    BY <1>5 DEF FinishGc, CollectorDies, NoClaim
  <2>2. \A v \in Uploads : queue'[v] = queue[v] \/ (queue'[v] = None /\ v = collector.blob)
    BY <1>5 DEF Inv, Types, FinishGc, CollectorDies
  <2>3. CompletedOnly' /\ QueuedDead' /\ ClaimedDead'
    BY <2>1, <2>2 DEF Inv, CompletedOnly, QueuedDead, ClaimedDead, Dead, Live
  <2>4. \A v \in Uploads : Kept(v) => Kept(v)'
    BY <2>1, <2>2 DEF Kept
  <2>5. QED
    BY <2>1, <2>3, <2>4, RecordStep DEF Due, GraceOver
<1>6. CASE Tick
  <2>1. /\ UNCHANGED <<content, deleted, session, queue, file, collector, task, reader, accepted,
                       replaced>>
        /\ clock' = clock + 1 /\ signed' \subseteq signed
    BY <1>6 DEF Tick
  <2>2. CompletedOnly' /\ QueuedDead' /\ ClaimedDead'
    BY <2>1 DEF Inv, CompletedOnly, QueuedDead, ClaimedDead, Dead, Live
  <2>3. \A v \in Uploads : Kept(v)' <=> Kept(v)
    BY <2>1 DEF Kept
  <2>4. \A v \in Uploads : Due(v) => Due(v)'
    BY <2>1, ContentAssumption DEF Inv, Types, Due, GraceOver
  <2>5. QED
    BY <2>1, <2>2, <2>3, <2>4, RecordStep
<1>7. QED
  BY <1>0, <1>1, <1>2, <1>3, <1>4, <1>5, <1>6

\* The inductive invariant holds in every behaviour.
THEOREM Invariance == Spec => []Inv
<1>1. Init => Inv
  <2> SUFFICES ASSUME Init PROVE Inv
    OBVIOUS
  <2>1. NoTask \in TaskType /\ NoTask.at = "none"
    BY DEF NoTask, TaskType, Stages, Contents
  <2>2. NoReader \in ReaderType /\ NoReader.at = "none"
    BY DEF NoReader, ReaderType
  <2>3. NoClaim \in [at: {"none", "delete", "finish"}, blob: Uploads \cup {None}]
        /\ NoClaim.at = "none"
    BY DEF NoClaim
  <2>4. Types
    BY <2>1, <2>2, <2>3 DEF Init, Types, Contents
  <2>5. Known
    BY <2>1, <2>2, <2>3 DEF Init, Known, TaskKnown
  <2>6. QED
    BY <2>1, <2>2, <2>3, <2>4, <2>5 DEF Init, Inv, CompletedOnly, AcceptedWhole, CommitHasBlob,
       QueuedDead, ClaimedDead, ReplacedCompleted, CompletedKept
<1>2. ASSUME Inv, [Next]_vars PROVE Inv'
  <2>1. Types' /\ Known'
    BY <1>2, TypesStep
  <2>2. CASE \E h \in Handlers : CommitContent(h)
    BY <1>2, <2>1, <2>2, CommitStep
  <2>3. CASE \E h \in Handlers : AbortRecord(h)
    BY <1>2, <2>1, <2>3, AbortStep
  <2>4. CASE \/ \E p \in Putters : PutBegins(p) \/ PutEnds(p) \/ PutDies(p)
             \/ \E h \in Handlers :
                   \/ \E u \in Uploads : BeginComplete(h, u) \/ BeginAbort(h, u)
                   \/ FindBlob(h) \/ ReadPart(h) \/ WriteBegins(h) \/ WriteEnds(h)
                   \/ RemoveParts(h) \/ Stat(h) \/ TaskDies(h)
    BY <1>2, <2>1, <2>4, WriterStep
  <2>5. CASE \/ \E r \in Readers : ReadPointer(r) \/ SignDownload(r)
             \/ DeleteObject \/ ClaimGc \/ DeleteBlob \/ FinishGc \/ CollectorDies \/ Tick
             \/ UNCHANGED vars
    BY <1>2, <2>1, <2>5, OtherStep
  <2>6. QED
    BY <1>2, <2>2, <2>3, <2>4, <2>5 DEF Next
<1>3. QED
  BY <1>1, <1>2, PTL DEF Spec

\* A blob that is there is whole unless it was written to since it was
\* accepted.
LEMMA ThereIsHeld ==
    ASSUME Inv, NEW u \in Uploads, file[Blob(u)] # "none"
    PROVE  HeldAsAccepted(u)
BY DEF Inv, AcceptedWhole, HeldAsAccepted

\* The live content is held, and whole unless somebody wrote to it after it
\* was accepted, whichever requests overlap, die or come late.
THEOREM ContentIsWhole == Spec => []LiveContentWhole
<1>1. ASSUME Inv PROVE LiveContentWhole
  <2> SUFFICES ASSUME content # None, ~deleted PROVE HeldAsAccepted(content)
    BY DEF LiveContentWhole
  <2>1. content \in Uploads /\ session[content] = "completed" /\ replaced[content] = None
    BY <1>1 DEF Inv, Types, CompletedOnly, ReplacedCompleted
  <2>2. Kept(content)
    BY <1>1, <2>1 DEF Inv, CompletedKept, Due, GraceOver
  <2>3. QED
    BY <1>1, <2>1, <2>2, ThereIsHeld DEF Kept
<1>2. QED
  BY Invariance, <1>1, PTL

\* For every setting of the periods, a location serves what it was signed for
\* until it expires or gc_grace has passed since the request that replaced
\* the content.
THEOREM LocationsServe == Spec => []LocationServesContent
<1>1. ASSUME Inv PROVE LocationServesContent
  <2> SUFFICES ASSUME NEW s \in signed, ~Due(s.blob) PROVE HeldAsAccepted(s.blob)
    BY DEF LocationServesContent, Due
  <2>1. s.blob \in Uploads /\ session[s.blob] = "completed"
    BY <1>1 DEF Inv, Types, CompletedOnly
  <2>2. Kept(s.blob)
    BY <1>1, <2>1 DEF Inv, CompletedKept
  <2>3. QED
    BY <1>1, <2>1, <2>2, ThereIsHeld DEF Kept
<1>2. QED
  BY Invariance, <1>1, PTL
=============================================================================
