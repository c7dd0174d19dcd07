----------------------- MODULE MaintenancePassProofs -----------------------
(***************************************************************************)
(* What the maintenance loop promises for every number of processes,       *)
(* callers and items, every schedule, batch size, lease and budget: one    *)
(* pass per process, a drained pass that leaves nothing behind, and timers *)
(* that keep to the schedule.                                              *)
(*                                                                         *)
(* The argument for the drained pass: what is left of its list is always   *)
(* due at the time it began (DueThen), a short batch of sessions leaves no *)
(* session of the list (SessionsDone), and a short batch of blobs leaves   *)
(* none of the rest, since a claim moves not_before past that time.        *)
(***************************************************************************)
EXTENDS MaintenancePass, FiniteSetTheorems, TLAPS

Places == {"none", "expire", "expired", "collect", "delete", "purge"}

Passes ==
    [at: Places, now: Nat, deadline: Nat, batch: SUBSET Items, full: BOOLEAN,
     drained: BOOLEAN]

InPass(c) == pass[c].at # "none"

Types ==
    /\ clock \in Nat
    /\ kind \in [Items -> {"active", "busy", "live", "dead"}]
    /\ DOMAIN queue = Items
    /\ \A i \in Items :
          queue[i] = None \/ \E t, n : queue[i] = [not_before |-> t, attempts |-> n]
    /\ running \in [Processes -> BOOLEAN]
    /\ pass \in [Callers -> Passes]
    /\ DOMAIN wake = Callers
    /\ todo \in [Callers -> SUBSET Items]

\* The flag and the pass it stands for.
PassHoldsFlag == \A c \in Callers : InPass(c) => running[ProcessOf[c]]

FlagHasPass ==
    \A p \in Processes : running[p] => \E c \in Callers : ProcessOf[c] = p /\ InPass(c)

NoOverlap ==
    \A c, d \in Callers : InPass(c) /\ InPass(d) /\ ProcessOf[c] = ProcessOf[d] => c = d

FlagSound == PassHoldsFlag /\ FlagHasPass /\ NoOverlap

\* Only dead content is queued.
QueuedIsDead == \A i \in Items : queue[i] # None => kind[i] = "dead"

\* A session of item i, or its blob, was due at time t.
SessionDue(i, t) == kind[i] \in {"active", "busy"} /\ ExpiresAt[i] <= t

BlobDue(i, t) == kind[i] = "dead" /\ queue[i] # None /\ queue[i].not_before <= t

DueThen(c) == \A i \in todo[c] : SessionDue(i, pass[c].now) \/ BlobDue(i, pass[c].now)

\* The expiry loop of c is over, or its last batch was short.
SessionsDone(c) ==
    \/ pass[c].at \in {"collect", "delete", "purge"}
    \/ pass[c].at = "expired" /\ ~pass[c].full

NoSessionLeft(c) ==
    SessionsDone(c) /\ pass[c].drained => \A i \in todo[c] : kind[i] = "dead"

\* The same of the collection loop.
BlobsDone(c) ==
    \/ pass[c].at = "purge"
    \/ pass[c].at = "delete" /\ ~pass[c].full

NothingLeft(c) == BlobsDone(c) /\ pass[c].drained => todo[c] = {}

ListSound(c) == DueThen(c) /\ NoSessionLeft(c) /\ NothingLeft(c)

\* Every timer sleeps until an instant of the schedule.
OnSchedule(t) == t \in Int /\ (t + Offset) % Day = At

WakesOnSchedule == \A c \in Callers : OnSchedule(wake[c])

Inv ==
    /\ Types /\ FlagSound /\ QueuedIsDead
    /\ \A c \in Callers : ListSound(c)
    /\ WakesOnSchedule

-----------------------------------------------------------------------------
(* The schedule *)

\* A multiple of d plus a remainder has that remainder, and any x is one.
LEMMA Remainder ==
    ASSUME NEW d \in Nat \ {0}, NEW q \in Int, NEW r \in Nat, r < d
    PROVE  (d * q + r) % d = r
BY Z3T(30)

LEMMA Division ==
    ASSUME NEW d \in Nat \ {0}, NEW x \in Int
    PROVE  /\ x % d \in Nat /\ x % d < d
           /\ \E q \in Int : x = d * q + (x % d)
<1>1. x \div d \in Int
  BY Z3T(30)
<1>2. x = d * (x \div d) + (x % d)
  BY Z3T(30)
<1>3. x % d \in Nat /\ x % d < d
  BY Z3T(30)
<1>4. \E q \in Int : x = d * q + (x % d)
  <2>1. WITNESS x \div d \in Int
  <2>2. QED
    BY <1>2
<1>5. QED
  BY <1>3, <1>4

\* next_after is later than now, and on the schedule.
LEMMA NextAfter ==
    ASSUME NEW now \in Int
    PROVE  next_after(now) > now /\ OnSchedule(next_after(now))
<1>1. Day \in Nat \ {0} /\ At \in Nat /\ At < Day /\ Offset \in Int
  BY MaintenanceAssumption
<1>2. PICK local \in Int : local = now + Offset
  BY <1>1
<1>3. PICK m \in Nat : m = local % Day /\ m < Day
  BY <1>1, Division
<1>4. PICK q \in Int : local = Day * q + m
  BY <1>1, <1>3, Division
<1>5. PICK n \in Int : n = Day * q
  BY <1>1
<1>6. (n + At) % Day = At
  BY <1>1, <1>5, Remainder
<1>7. ((n + At) + Day) % Day = At
  <2>1. PICK k \in Int : k = q + 1
    OBVIOUS
  <2>2. (n + At) + Day = Day * k + At
    BY <1>1, <1>5, <2>1, Z3T(30)
  <2>3. QED
    BY <1>1, <2>2, Remainder
<1>8. PICK today \in Int : today = n + At /\ today = local - m + At
  BY <1>1, <1>4, <1>5
<1>9. next_after(now) = (IF today > local THEN today ELSE today + Day) - Offset
  BY <1>1, <1>2, <1>3, <1>8 DEF next_after
<1>10. CASE today > local
  <2>1. next_after(now) = today - Offset
    BY <1>9, <1>10
  <2>2. next_after(now) \in Int /\ next_after(now) > now /\ next_after(now) + Offset = today
    BY <1>1, <1>2, <1>10, <2>1
  <2>3. QED
    BY <1>6, <1>8, <2>2 DEF OnSchedule
<1>11. CASE ~(today > local)
  <2>1. next_after(now) = (today + Day) - Offset
    BY <1>9, <1>11
  <2>2. /\ next_after(now) \in Int /\ next_after(now) > now
        /\ next_after(now) + Offset = today + Day
    <3>1. today + Day > local
      BY <1>1, <1>3, <1>8
    <3>2. QED
      BY <1>1, <1>2, <2>1, <3>1
  <2>3. QED
    BY <1>7, <1>8, <2>2 DEF OnSchedule
<1>12. QED
  BY <1>10, <1>11

-----------------------------------------------------------------------------
(* The flag *)

\* A step in which no pass starts or ends.
LEMMA FlagSame ==
    ASSUME FlagSound, UNCHANGED running, \A c \in Callers : InPass(c)' <=> InPass(c)
    PROVE  FlagSound'
BY DEF FlagSound, PassHoldsFlag, FlagHasPass, NoOverlap

\* A pass that sets the free flag of its process.
LEMMA FlagStart ==
    ASSUME Types, FlagSound, NEW c \in Callers, ~InPass(c), ~running[ProcessOf[c]],
           running' = [running EXCEPT ![ProcessOf[c]] = TRUE], InPass(c)',
           \A d \in Callers \ {c} : InPass(d)' <=> InPass(d)
    PROVE  FlagSound'
<1>1. /\ running'[ProcessOf[c]]
      /\ \A p \in Processes : p # ProcessOf[c] => running'[p] = running[p]
  BY DEF Types, Processes
<1>2. \A d \in Callers : ProcessOf[d] \in Processes
  BY DEF Processes
<1>3. PassHoldsFlag'
  BY <1>1, <1>2 DEF FlagSound, PassHoldsFlag
<1>4. FlagHasPass'
  BY <1>1, <1>2 DEF FlagSound, FlagHasPass
<1>5. NoOverlap'
  BY <1>1, <1>2 DEF FlagSound, NoOverlap, PassHoldsFlag
<1>6. QED
  BY <1>3, <1>4, <1>5 DEF FlagSound

\* A pass that ends and clears the flag of its process.
LEMMA FlagStop ==
    ASSUME Types, FlagSound, NEW c \in Callers, InPass(c),
           running' = [running EXCEPT ![ProcessOf[c]] = FALSE], ~InPass(c)',
           \A d \in Callers \ {c} : InPass(d)' <=> InPass(d)
    PROVE  FlagSound'
<1>1. /\ ~running'[ProcessOf[c]]
      /\ \A p \in Processes : p # ProcessOf[c] => running'[p] = running[p]
  BY DEF Types, Processes
<1>2. \A d \in Callers : ProcessOf[d] \in Processes
  BY DEF Processes
<1>3. \A d \in Callers \ {c} : InPass(d) => ProcessOf[d] # ProcessOf[c]
  BY DEF FlagSound, NoOverlap
<1>4. PassHoldsFlag'
  BY <1>1, <1>2, <1>3 DEF FlagSound, PassHoldsFlag
<1>5. FlagHasPass'
  BY <1>1, <1>2 DEF FlagSound, FlagHasPass
<1>6. NoOverlap'
  BY DEF FlagSound, NoOverlap
<1>7. QED
  BY <1>4, <1>5, <1>6 DEF FlagSound

\* At most one caller of a process is in a pass, and one is when the flag is set.
LEMMA FlagCounts == Types /\ FlagSound => FlagMeansPass
<1> SUFFICES ASSUME Types, FlagSound, NEW p \in Processes
             PROVE  Cardinality({c \in Callers : ProcessOf[c] = p /\ pass[c].at # "none"})
                        = IF running[p] THEN 1 ELSE 0
  BY DEF FlagMeansPass
<1> DEFINE S == {c \in Callers : ProcessOf[c] = p /\ pass[c].at # "none"}
<1>1. CASE running[p]
  <2>1. PICK c \in Callers : ProcessOf[c] = p /\ InPass(c)
    BY <1>1 DEF FlagSound, FlagHasPass
  <2>2. S = {c}
    BY <2>1 DEF FlagSound, NoOverlap, InPass
  <2>3. QED
    BY <1>1, <2>2, FS_Singleton
<1>2. CASE ~running[p]
  <2>1. S = {}
    BY <1>2 DEF FlagSound, PassHoldsFlag, InPass
  <2>2. QED
    BY <1>2, <2>1, FS_EmptySet
<1>3. QED
  BY <1>1, <1>2

-----------------------------------------------------------------------------
(* The list of a pass *)

DeadStaysDead == \A i \in Items : kind[i] = "dead" => kind'[i] = "dead"

\* What stays on a list is still due.
LEMMA DueKept ==
    ASSUME Types, NEW c \in Callers, DueThen(c), DeadStaysDead,
           pass'[c].now = pass[c].now, todo'[c] \subseteq StillDue(c)
    PROVE  DueThen(c)'
<1>1. todo[c] \subseteq Items
  BY DEF Types
<1>2. QED
  BY <1>1 DEF DueThen, StillDue, SessionDue, BlobDue, DeadStaysDead

\* Another caller's step only shortens the list.
LEMMA ListKept ==
    ASSUME Types, NEW c \in Callers, ListSound(c), DeadStaysDead,
           pass'[c] = pass[c], todo'[c] = StillDue(c)
    PROVE  ListSound(c)'
<1>1. DueThen(c)'
  BY DueKept DEF ListSound
<1>2. todo'[c] \subseteq todo[c] /\ todo[c] \subseteq Items
  BY DEF StillDue, Types
<1>3. NoSessionLeft(c)'
  BY <1>2 DEF ListSound, NoSessionLeft, SessionsDone, DeadStaysDead
<1>4. NothingLeft(c)'
  BY <1>2 DEF ListSound, NothingLeft, BlobsDone
<1>5. QED
  BY <1>1, <1>3, <1>4 DEF ListSound

\* A step that leaves list and pass alone may lock a session's row.
LEMMA ListSame ==
    ASSUME Types, NEW c \in Callers, ListSound(c), pass'[c] = pass[c], todo'[c] = todo[c],
           \A i \in todo[c] :
              \/ kind'[i] = kind[i] /\ queue'[i] = queue[i]
              \/ kind[i] = "active" /\ kind'[i] = "busy"
    PROVE  ListSound(c)'
<1>1. DueThen(c)'
  BY DEF ListSound, DueThen, SessionDue, BlobDue
<1>2. NoSessionLeft(c)'
  BY DEF ListSound, NoSessionLeft, SessionsDone
<1>3. NothingLeft(c)'
  BY DEF ListSound, NothingLeft, BlobsDone
<1>4. QED
  BY <1>1, <1>2, <1>3 DEF ListSound

-----------------------------------------------------------------------------
(* Steps *)

\* c goes on to l; the other passes stay where they are.
Moves(c, l) ==
    /\ pass' \in [Callers -> Passes]
    /\ pass'[c].at = l /\ pass'[c].now = pass[c].now
    /\ \A d \in Callers \ {c} : pass'[d] = pass[d]

\* A step inside a pass: what it must show of c's list and of the store.
LEMMA WorkStep ==
    ASSUME Inv, NEW c \in Callers, InPass(c), NEW l \in Places \ {"none"}, Moves(c, l),
           UNCHANGED <<clock, running, wake>>,
           kind' \in [Items -> {"active", "busy", "live", "dead"}], DOMAIN queue' = Items,
           \A i \in Items :
              queue'[i] = None \/ \E t, n : queue'[i] = [not_before |-> t, attempts |-> n],
           todo' \in [Callers -> SUBSET Items], DeadStaysDead, QueuedIsDead', ListSound(c)',
           \/ \A d \in Callers \ {c} : todo'[d] = StillDue(d)
           \/ UNCHANGED <<kind, queue, todo>>
    PROVE  Inv'
<1>1. Types'
  BY DEF Inv, Types, Moves
<1>2. FlagSound'
  <2>1. \A d \in Callers : InPass(d)' <=> InPass(d)
    BY DEF Moves, InPass
  <2>2. QED
    BY <2>1, FlagSame DEF Inv
<1>3. ASSUME NEW d \in Callers \ {c} PROVE ListSound(d)'
  <2>1. CASE todo'[d] = StillDue(d)
    BY <2>1, ListKept DEF Inv, Moves
  <2>2. CASE UNCHANGED <<kind, queue, todo>>
    BY <2>2, ListSame DEF Inv, Moves
  <2>3. QED
    BY <2>1, <2>2
<1>4. WakesOnSchedule'
  BY DEF Inv, WakesOnSchedule, OnSchedule
<1>5. QED
  BY <1>1, <1>2, <1>3, <1>4 DEF Inv

\* A batch that ends the loop was short, or the pass is no longer drained.
LEMMA AfterBatchMoves ==
    ASSUME Types, NEW c \in Callers, NEW again \in Places, NEW then \in Places,
           AfterBatch(c, again, then)
    PROVE  \E l \in {again, then} :
              /\ Moves(c, l) /\ ~pass'[c].full
              /\ pass'[c].drained => pass[c].drained
              /\ l # again /\ pass'[c].drained => ~pass[c].full
<1>1. pass[c] \in Passes /\ pass \in [Callers -> Passes]
  BY DEF Types
<1>2. PICK out \in BOOLEAN : out = (pass[c].full /\ clock >= pass[c].deadline)
  OBVIOUS
<1>3. PICK l \in {again, then} : l = IF pass[c].full /\ ~out THEN again ELSE then
  OBVIOUS
<1>4. pass' = [pass EXCEPT ![c].at = l, ![c].full = FALSE, ![c].drained = @ /\ ~out]
  BY <1>2, <1>3 DEF AfterBatch
<1>5. /\ pass' \in [Callers -> Passes]
      /\ pass'[c].at = l /\ pass'[c].now = pass[c].now /\ pass'[c].full = FALSE
      /\ pass'[c].drained = (pass[c].drained /\ ~out)
      /\ \A d \in Callers \ {c} : pass'[d] = pass[d]
  BY <1>1, <1>4 DEF Passes
<1>6. QED
  BY <1>2, <1>3, <1>5 DEF Moves

LEMMA ExpiredKeeps == ASSUME Inv, NEW c \in Callers, Expired(c) PROVE Inv'
<1>1. PICK l \in {"expire", "collect"} :
         /\ Moves(c, l) /\ ~pass'[c].full
         /\ pass'[c].drained => pass[c].drained
         /\ l # "expire" /\ pass'[c].drained => ~pass[c].full
  BY AfterBatchMoves DEF Inv, Expired, Places
<1>2. UNCHANGED <<clock, kind, queue, running, wake, todo>> /\ pass[c].at = "expired"
  BY DEF Expired, store
<1>3. ListSound(c)'
  <2>1. DueThen(c)'
    BY <1>1, <1>2 DEF Inv, ListSound, DueThen, Moves, SessionDue, BlobDue
  <2>2. NoSessionLeft(c)'
    BY <1>1, <1>2 DEF Inv, ListSound, NoSessionLeft, SessionsDone, Moves
  <2>3. NothingLeft(c)'
    BY <1>1, <1>2 DEF NothingLeft, BlobsDone, Moves
  <2>4. QED
    BY <2>1, <2>2, <2>3 DEF ListSound
<1>4. QED
  BY <1>1, <1>2, <1>3, WorkStep
     DEF Inv, InPass, Places, Types, DeadStaysDead, QueuedIsDead

LEMMA CollectedKeeps == ASSUME Inv, NEW c \in Callers, Collected(c) PROVE Inv'
<1>1. PICK l \in {"collect", "purge"} :
         /\ Moves(c, l) /\ ~pass'[c].full
         /\ pass'[c].drained => pass[c].drained
         /\ l # "collect" /\ pass'[c].drained => ~pass[c].full
  BY AfterBatchMoves DEF Inv, Collected, Places
<1>2. UNCHANGED <<clock, kind, queue, running, wake, todo>> /\ pass[c].at = "delete"
  BY DEF Collected, store
<1>3. ListSound(c)'
  <2>1. DueThen(c)'
    BY <1>1, <1>2 DEF Inv, ListSound, DueThen, Moves, SessionDue, BlobDue
  <2>2. NoSessionLeft(c)'
    BY <1>1, <1>2 DEF Inv, ListSound, NoSessionLeft, SessionsDone, Moves
  <2>3. NothingLeft(c)'
    BY <1>1, <1>2 DEF Inv, ListSound, NothingLeft, BlobsDone, Moves
  <2>4. QED
    BY <2>1, <2>2, <2>3 DEF ListSound
<1>4. QED
  BY <1>1, <1>2, <1>3, WorkStep
     DEF Inv, InPass, Places, Types, DeadStaysDead, QueuedIsDead

\* A short batch takes every expirable session.
LEMMA ShortBatch ==
    ASSUME NEW S, NEW B \in BatchOf(S), Cardinality(B) # BatchSize
    PROVE  B = S
BY DEF BatchOf

LEMMA ClaimExpiredKeeps == ASSUME Inv, NEW c \in Callers, ClaimExpired(c) PROVE Inv'
<1>1. PICK B \in BatchOf(Expirable(pass[c].now)) :
         /\ kind' = [i \in Items |-> IF i \in B THEN "dead" ELSE kind[i]]
         /\ queue' = [i \in Items |->
               IF i \in B /\ queue[i] = None
               THEN [not_before |-> pass[c].now, attempts |-> 0] ELSE queue[i]]
         /\ pass' = [pass EXCEPT ![c].at = "expired", ![c].full = Cardinality(B) = BatchSize]
  BY DEF ClaimExpired
<1>2. /\ UNCHANGED <<clock, running, wake>> /\ pass[c].at = "expire"
      /\ todo' = [d \in Callers |-> IF d = c THEN StillDue(c) \ Skipped ELSE StillDue(d)]
  BY DEF ClaimExpired
<1>3. pass[c] \in Passes /\ pass \in [Callers -> Passes] /\ todo \in [Callers -> SUBSET Items]
  BY DEF Inv, Types
<1>4. /\ Moves(c, "expired")
      /\ pass'[c].full = (Cardinality(B) = BatchSize) /\ pass'[c].drained = pass[c].drained
  <2>1. PICK f \in BOOLEAN : f = (Cardinality(B) = BatchSize)
    OBVIOUS
  <2>2. pass' = [pass EXCEPT ![c].at = "expired", ![c].full = f]
    BY <1>1, <2>1
  <2>3. /\ pass' \in [Callers -> Passes]
        /\ pass'[c].at = "expired" /\ pass'[c].now = pass[c].now /\ pass'[c].full = f
        /\ pass'[c].drained = pass[c].drained
        /\ \A d \in Callers \ {c} : pass'[d] = pass[d]
    BY <1>3, <2>2 DEF Passes, Places
  <2>4. QED
    BY <2>1, <2>3 DEF Moves
<1>5. /\ kind' \in [Items -> {"active", "busy", "live", "dead"}] /\ DOMAIN queue' = Items
      /\ \A i \in Items :
            queue'[i] = None \/ \E t, n : queue'[i] = [not_before |-> t, attempts |-> n]
  BY <1>1 DEF Inv, Types
<1>6. DeadStaysDead
  BY <1>1 DEF DeadStaysDead
<1>7. QueuedIsDead'
  BY <1>1 DEF Inv, QueuedIsDead
<1>8. /\ todo' \in [Callers -> SUBSET Items] /\ todo'[c] = StillDue(c) \ Skipped
      /\ \A d \in Callers \ {c} : todo'[d] = StillDue(d)
  BY <1>2, <1>3 DEF StillDue
<1>9. ListSound(c)'
  <2>1. DueThen(c)'
    BY <1>4, <1>6, <1>8, DueKept DEF Inv, ListSound, Moves
  <2>2. NoSessionLeft(c)'
    <3> SUFFICES ASSUME ~pass'[c].full, NEW i \in todo'[c] PROVE kind'[i] = "dead"
      BY <1>4 DEF NoSessionLeft, SessionsDone, Moves
    <3>1. B = Expirable(pass[c].now)
      BY <1>4, ShortBatch
    <3>2. i \in Items /\ i \in todo[c] /\ kind[i] # "busy"
      BY <1>3, <1>8 DEF StillDue, Skipped
    <3>3. SessionDue(i, pass[c].now) \/ kind[i] = "dead"
      BY <3>2 DEF Inv, ListSound, DueThen, BlobDue
    <3>4. CASE kind[i] = "dead"
      BY <1>6, <3>2, <3>4 DEF DeadStaysDead
    <3>5. CASE SessionDue(i, pass[c].now)
      BY <1>1, <3>1, <3>2, <3>5 DEF SessionDue, Expirable
    <3>6. QED
      BY <3>3, <3>4, <3>5
  <2>3. NothingLeft(c)'
    BY <1>4 DEF NothingLeft, BlobsDone, Moves
  <2>4. QED
    BY <2>1, <2>2, <2>3 DEF ListSound
<1>10. QED
  BY <1>2, <1>4, <1>5, <1>6, <1>7, <1>8, <1>9, WorkStep DEF InPass, Places

LEMMA ClaimGcKeeps == ASSUME Inv, NEW c \in Callers, ClaimGc(c) PROVE Inv'
<1>1. PICK B \in BatchOf(Collectable(pass[c].now)) :
         /\ queue' = [i \in Items |->
               IF i \in B THEN [queue[i] EXCEPT !.not_before = pass[c].now + Lease]
               ELSE queue[i]]
         /\ pass' = [pass EXCEPT ![c].at = "delete", ![c].batch = B,
                                 ![c].full = Cardinality(B) = BatchSize]
  BY DEF ClaimGc
<1>2. /\ UNCHANGED <<clock, kind, running, wake>> /\ pass[c].at = "collect"
      /\ todo' = [d \in Callers |-> StillDue(d)]
  BY DEF ClaimGc
<1>3. pass[c] \in Passes /\ pass \in [Callers -> Passes] /\ todo \in [Callers -> SUBSET Items]
  BY DEF Inv, Types
<1>4. B \subseteq Collectable(pass[c].now)
  BY DEF BatchOf
<1>5. /\ Moves(c, "delete")
      /\ pass'[c].full = (Cardinality(B) = BatchSize) /\ pass'[c].drained = pass[c].drained
  <2>1. PICK f \in BOOLEAN : f = (Cardinality(B) = BatchSize)
    OBVIOUS
  <2>2. pass' = [pass EXCEPT ![c].at = "delete", ![c].batch = B, ![c].full = f]
    BY <1>1, <2>1
  <2>3. B \in SUBSET Items
    BY <1>4 DEF Collectable
  <2>4. /\ pass' \in [Callers -> Passes]
        /\ pass'[c].at = "delete" /\ pass'[c].now = pass[c].now /\ pass'[c].full = f
        /\ pass'[c].drained = pass[c].drained
        /\ \A d \in Callers \ {c} : pass'[d] = pass[d]
    BY <1>3, <2>2, <2>3 DEF Passes, Places
  <2>5. QED
    BY <2>1, <2>4 DEF Moves
<1>6. ASSUME NEW i \in B
      PROVE  \E t, n : /\ queue'[i] = [not_before |-> t, attempts |-> n]
                       /\ t = pass[c].now + Lease
  <2>1. i \in Items /\ queue[i] # None
    BY <1>4 DEF Collectable
  <2>2. PICK t, n : queue[i] = [not_before |-> t, attempts |-> n]
    BY <2>1 DEF Inv, Types
  <2>3. queue'[i] = [not_before |-> pass[c].now + Lease, attempts |-> n]
    BY <1>1, <2>1, <2>2
  <2>4. QED
    BY <2>3
<1>7. /\ kind' \in [Items -> {"active", "busy", "live", "dead"}] /\ DOMAIN queue' = Items
      /\ \A i \in Items :
            queue'[i] = None \/ \E t, n : queue'[i] = [not_before |-> t, attempts |-> n]
  <2>1. \A i \in Items : i \notin B => queue'[i] = queue[i]
    BY <1>1
  <2>2. DOMAIN queue' = Items
    BY <1>1
  <2>3. ASSUME NEW i \in Items
        PROVE  queue'[i] = None \/ \E t, n : queue'[i] = [not_before |-> t, attempts |-> n]
    <3>1. CASE i \in B
      BY <1>6, <3>1
    <3>2. queue[i] = None \/ \E t, n : queue[i] = [not_before |-> t, attempts |-> n]
      BY DEF Inv, Types
    <3>3. CASE i \notin B
      BY <2>1, <3>2, <3>3
    <3>4. QED
      BY <3>1, <3>3
  <2>4. kind' \in [Items -> {"active", "busy", "live", "dead"}]
    BY <1>2 DEF Inv, Types
  <2>5. QED
    BY <2>2, <2>3, <2>4
<1>8. DeadStaysDead
  BY <1>2 DEF DeadStaysDead
<1>9. QueuedIsDead'
  <2>1. \A i \in Items : i \notin B => queue'[i] = queue[i]
    BY <1>1
  <2>2. \A i \in B : queue[i] # None
    BY <1>4 DEF Collectable
  <2>3. QED
    BY <1>2, <2>1, <2>2 DEF Inv, QueuedIsDead
<1>10. todo' \in [Callers -> SUBSET Items] /\ \A d \in Callers : todo'[d] = StillDue(d)
  BY <1>2, <1>3 DEF StillDue
<1>11. ListSound(c)'
  <2>1. DueThen(c)'
    BY <1>5, <1>8, <1>10, DueKept DEF Inv, ListSound, Moves
  <2>2. NoSessionLeft(c)'
    BY <1>2, <1>5, <1>10 DEF Inv, ListSound, NoSessionLeft, SessionsDone, StillDue
  <2>3. NothingLeft(c)'
    <3> SUFFICES ASSUME ~pass'[c].full, pass'[c].drained, NEW i \in todo'[c] PROVE FALSE
      BY <1>5 DEF NothingLeft, BlobsDone, Moves
    <3>1. B = Collectable(pass[c].now)
      BY <1>5, ShortBatch
    <3>2. i \in Items /\ i \in todo[c] /\ kind[i] = "dead"
      BY <1>2, <1>3, <1>5, <1>10 DEF Inv, ListSound, NoSessionLeft, SessionsDone, StillDue
    <3>3. BlobDue(i, pass[c].now)
      BY <3>2 DEF Inv, ListSound, DueThen, SessionDue
    <3>4. i \in B
      BY <3>1, <3>2, <3>3 DEF BlobDue, Collectable
    <3>5. queue'[i].not_before <= pass[c].now
      BY <1>2, <1>10, <3>2 DEF StillDue
    <3>6. queue'[i].not_before = pass[c].now + Lease
      <4>1. PICK t, n : queue'[i] = [not_before |-> t, attempts |-> n] /\ t = pass[c].now + Lease
        BY <1>6, <3>4
      <4>2. QED
        BY <4>1
    <3>7. pass[c].now \in Nat /\ Lease \in Nat \ {0}
      BY <1>3, MaintenanceAssumption DEF Passes
    <3>8. QED
      BY <3>5, <3>6, <3>7
  <2>4. QED
    BY <2>1, <2>2, <2>3 DEF ListSound
<1>12. QED
  BY <1>2, <1>5, <1>7, <1>8, <1>9, <1>10, <1>11, WorkStep DEF InPass, Places

\* One entry of the batch is dealt with.
LEMMA BatchStep ==
    ASSUME Inv, NEW c \in Callers, pass[c].at = "delete", NEW i \in pass[c].batch,
           pass' = [pass EXCEPT ![c].batch = @ \ {i}],
           UNCHANGED <<clock, kind, running, wake>>, NEW e,
           e = None \/ \E t, n : e = [not_before |-> t, attempts |-> n],
           queue[i] = None => e = None,
           \/ queue' = [queue EXCEPT ![i] = e] /\ todo' = [d \in Callers |-> StillDue(d)]
           \/ UNCHANGED <<queue, todo>>
    PROVE  Inv'
<1>1. pass[c] \in Passes /\ pass \in [Callers -> Passes] /\ todo \in [Callers -> SUBSET Items]
  BY DEF Inv, Types
<1>2. /\ Moves(c, "delete")
      /\ pass'[c].full = pass[c].full /\ pass'[c].drained = pass[c].drained
  <2>1. /\ pass' \in [Callers -> Passes]
        /\ pass'[c].at = "delete" /\ pass'[c].now = pass[c].now
        /\ pass'[c].full = pass[c].full /\ pass'[c].drained = pass[c].drained
        /\ \A d \in Callers \ {c} : pass'[d] = pass[d]
    BY <1>1 DEF Passes
  <2>2. QED
    BY <2>1 DEF Moves
<1>3. DeadStaysDead
  BY DEF DeadStaysDead
<1>4. ASSUME queue' = [queue EXCEPT ![i] = e], todo' = [d \in Callers |-> StillDue(d)]
      PROVE  Inv'
  <2>1. DOMAIN queue' = Items /\ \A j \in Items : queue'[j] = IF j = i THEN e ELSE queue[j]
    BY <1>4 DEF Inv, Types
  <2>2. /\ kind' \in [Items -> {"active", "busy", "live", "dead"}]
        /\ \A j \in Items :
              queue'[j] = None \/ \E t, n : queue'[j] = [not_before |-> t, attempts |-> n]
    BY <2>1 DEF Inv, Types
  <2>3. QueuedIsDead'
    BY <2>1 DEF Inv, QueuedIsDead
  <2>4. todo' \in [Callers -> SUBSET Items] /\ \A d \in Callers : todo'[d] = StillDue(d)
    BY <1>1, <1>4 DEF StillDue
  <2>5. todo'[c] \subseteq todo[c]
    BY <2>4 DEF StillDue
  <2>6. DueThen(c)'
    BY <1>2, <1>3, <2>4, DueKept DEF Inv, ListSound, Moves
  <2>7. NoSessionLeft(c)' /\ NothingLeft(c)'
    BY <1>2, <2>5 DEF Inv, ListSound, NoSessionLeft, SessionsDone, NothingLeft, BlobsDone, Moves
  <2>8. QED
    BY <1>2, <1>3, <2>1, <2>2, <2>3, <2>4, <2>6, <2>7, WorkStep DEF ListSound, InPass, Places
<1>5. ASSUME UNCHANGED <<queue, todo>> PROVE Inv'
  <2>1. DueThen(c)'
    BY <1>2, <1>5 DEF Inv, ListSound, DueThen, Moves, SessionDue, BlobDue
  <2>2. NoSessionLeft(c)' /\ NothingLeft(c)'
    BY <1>2, <1>5 DEF Inv, ListSound, NoSessionLeft, SessionsDone, NothingLeft, BlobsDone, Moves
  <2>3. ListSound(c)' /\ QueuedIsDead'
    BY <1>2, <1>5, <2>1, <2>2 DEF Inv, ListSound, QueuedIsDead
  <2>4. /\ kind' \in [Items -> {"active", "busy", "live", "dead"}] /\ DOMAIN queue' = Items
        /\ \A j \in Items :
              queue'[j] = None \/ \E t, n : queue'[j] = [not_before |-> t, attempts |-> n]
        /\ todo' \in [Callers -> SUBSET Items]
    BY <1>5 DEF Inv, Types
  <2>5. UNCHANGED <<kind, queue, todo>> /\ "delete" \in Places \ {"none"}
    BY <1>5 DEF Places
  <2>6. QED
    BY <1>2, <1>3, <2>3, <2>4, <2>5, WorkStep DEF InPass
<1>6. QED
  BY <1>4, <1>5

LEMMA DeleteBlobKeeps == ASSUME Inv, NEW c \in Callers, DeleteBlob(c) PROVE Inv'
BY BatchStep DEF DeleteBlob

LEMMA FailGcKeeps == ASSUME Inv, NEW c \in Callers, FailGc(c) PROVE Inv'
<1>1. PICK i \in pass[c].batch :
         /\ queue' = [queue EXCEPT ![i] =
               IF @ = None THEN None
               ELSE [not_before |-> pass[c].now + Backoff(@.attempts),
                     attempts |-> IF @.attempts < MaxAttempts THEN @.attempts + 1
                                  ELSE @.attempts]]
         /\ pass' = [pass EXCEPT ![c].batch = @ \ {i}]
  BY DEF FailGc
<1>2. PICK t, n :
         /\ t = pass[c].now + Backoff(queue[i].attempts)
         /\ n = IF queue[i].attempts < MaxAttempts THEN queue[i].attempts + 1
                ELSE queue[i].attempts
  OBVIOUS
<1>3. PICK e : e = IF queue[i] = None THEN None ELSE [not_before |-> t, attempts |-> n]
  OBVIOUS
<1>4. queue' = [queue EXCEPT ![i] = e]
  BY <1>1, <1>2, <1>3
<1>5. /\ e = None \/ \E u, m : e = [not_before |-> u, attempts |-> m]
      /\ queue[i] = None => e = None
  BY <1>3
<1>6. /\ pass[c].at = "delete" /\ pass' = [pass EXCEPT ![c].batch = @ \ {i}]
      /\ UNCHANGED <<clock, kind, running, wake>> /\ todo' = [d \in Callers |-> StillDue(d)]
  BY <1>1 DEF FailGc
<1>7. QED
  BY <1>4, <1>5, <1>6, BatchStep

LEMMA SkipBlobKeeps == ASSUME Inv, NEW c \in Callers, SkipBlob(c) PROVE Inv'
<1>1. PICK i \in pass[c].batch : pass' = [pass EXCEPT ![c].batch = @ \ {i}]
  BY DEF SkipBlob
<1>2. QED
  BY <1>1, BatchStep DEF SkipBlob, store

\* A timer goes back to sleep, or wake is left alone.
LEMMA SleepKeeps ==
    ASSUME Types, WakesOnSchedule, NEW c \in Callers, SleepAfter(c) \/ UNCHANGED wake
    PROVE  DOMAIN wake' = Callers /\ WakesOnSchedule'
<1>1. OnSchedule(next_after(clock))
  BY NextAfter DEF Types
<1>2. QED
  BY <1>1 DEF SleepAfter, Types, WakesOnSchedule, OnSchedule

\* A pass begins.
LEMMA StartStep ==
    ASSUME Inv, NEW c \in Callers, ~InPass(c), ~running[ProcessOf[c]], Run(c),
           UNCHANGED <<clock, kind, queue, wake>>
    PROVE  Inv'
<1>1. pass \in [Callers -> Passes] /\ todo \in [Callers -> SUBSET Items] /\ clock \in Nat
  BY DEF Inv, Types
<1>2. PICK r : r = [NoPass EXCEPT !.at = "expire", !.now = clock, !.deadline = clock + Budget]
  OBVIOUS
<1>3. r \in Passes /\ r.at = "expire" /\ r.now = clock
  <2>1. r = [at |-> "expire", now |-> clock, deadline |-> clock + Budget, batch |-> {},
             full |-> FALSE, drained |-> TRUE]
    BY <1>2 DEF NoPass
  <2>2. clock + Budget \in Nat
    BY <1>1, MaintenanceAssumption
  <2>3. QED
    BY <1>1, <2>1, <2>2 DEF Passes, Places
<1>4. /\ running' = [running EXCEPT ![ProcessOf[c]] = TRUE]
      /\ pass' = [pass EXCEPT ![c] = r]
      /\ todo' = [todo EXCEPT ![c] = Expirable(clock) \cup Collectable(clock)]
  BY <1>2 DEF Run
<1>5. /\ pass' \in [Callers -> Passes] /\ pass'[c] = r
      /\ \A d \in Callers \ {c} : pass'[d] = pass[d] /\ todo'[d] = todo[d]
      /\ todo'[c] = Expirable(clock) \cup Collectable(clock)
      /\ todo' \in [Callers -> SUBSET Items]
  BY <1>1, <1>3, <1>4 DEF Expirable, Collectable
<1>6. Types'
  <2>1. running' \in [Processes -> BOOLEAN]
    BY <1>4 DEF Inv, Types
  <2>2. QED
    BY <1>5, <2>1 DEF Inv, Types
<1>7. FlagSound'
  BY <1>3, <1>4, <1>5, FlagStart DEF Inv, InPass
<1>8. QueuedIsDead' /\ WakesOnSchedule'
  BY DEF Inv, QueuedIsDead, WakesOnSchedule, OnSchedule
<1>9. ListSound(c)'
  <2>1. DueThen(c)'
    BY <1>3, <1>5
       DEF Inv, DueThen, SessionDue, BlobDue, Expirable, Collectable, QueuedIsDead
  <2>2. NoSessionLeft(c)' /\ NothingLeft(c)'
    BY <1>3, <1>5 DEF NoSessionLeft, SessionsDone, NothingLeft, BlobsDone
  <2>3. QED
    BY <2>1, <2>2 DEF ListSound
<1>10. \A d \in Callers \ {c} : ListSound(d)'
  BY <1>5, ListSame DEF Inv
<1>11. QED
  BY <1>6, <1>7, <1>8, <1>9, <1>10 DEF Inv

\* A pass ends, whatever ends it: its guard clears the flag.
LEMMA StopStep ==
    ASSUME Inv, NEW c \in Callers, InPass(c),
           running' = [running EXCEPT ![ProcessOf[c]] = FALSE],
           pass' = [pass EXCEPT ![c] = NoPass], todo' = [todo EXCEPT ![c] = {}],
           SleepAfter(c) \/ UNCHANGED wake, UNCHANGED <<clock, kind, queue>>
    PROVE  Inv'
<1>1. pass \in [Callers -> Passes] /\ todo \in [Callers -> SUBSET Items]
  BY DEF Inv, Types
<1>2. NoPass \in Passes /\ NoPass.at = "none"
  BY DEF NoPass, Passes, Places
<1>3. /\ pass' \in [Callers -> Passes] /\ pass'[c] = NoPass
      /\ \A d \in Callers \ {c} : pass'[d] = pass[d] /\ todo'[d] = todo[d]
      /\ todo'[c] = {} /\ todo' \in [Callers -> SUBSET Items]
  BY <1>1, <1>2
<1>4. DOMAIN wake' = Callers /\ WakesOnSchedule'
  BY SleepKeeps DEF Inv
<1>5. Types'
  <2>1. running' \in [Processes -> BOOLEAN]
    BY DEF Inv, Types
  <2>2. QED
    BY <1>3, <1>4, <2>1 DEF Inv, Types
<1>6. FlagSound'
  BY <1>2, <1>3, FlagStop DEF Inv, InPass
<1>7. QueuedIsDead'
  BY DEF Inv, QueuedIsDead
<1>8. ListSound(c)'
  BY <1>2, <1>3 DEF ListSound, DueThen, NoSessionLeft, NothingLeft
<1>9. \A d \in Callers \ {c} : ListSound(d)'
  BY <1>3, ListSame DEF Inv
<1>10. QED
  BY <1>4, <1>5, <1>6, <1>7, <1>8, <1>9 DEF Inv

\* A step outside the passes that leaves every list as it is.
LEMMA OutsideStep ==
    ASSUME Inv, clock' \in Nat, UNCHANGED <<running, pass, todo>>,
           DOMAIN wake' = Callers, WakesOnSchedule',
           kind' \in [Items -> {"active", "busy", "live", "dead"}], DOMAIN queue' = Items,
           \A i \in Items :
              queue'[i] = None \/ \E t, n : queue'[i] = [not_before |-> t, attempts |-> n],
           QueuedIsDead',
           \A i \in Items :
              \/ kind'[i] = kind[i] /\ queue'[i] = queue[i]
              \/ kind[i] = "active" /\ kind'[i] = "busy"
              \/ kind[i] = "live"
    PROVE  Inv'
<1>1. Types'
  BY DEF Inv, Types
<1>2. FlagSound'
  BY FlagSame DEF Inv, InPass
<1>3. ASSUME NEW c \in Callers PROVE ListSound(c)'
  <2>1. todo[c] \subseteq Items /\ \A i \in todo[c] : kind[i] # "live"
    BY DEF Inv, Types, ListSound, DueThen, SessionDue, BlobDue
  <2>2. QED
    BY <2>1, ListSame DEF Inv
<1>4. QED
  BY <1>1, <1>2, <1>3 DEF Inv

LEMMA FinishKeeps == ASSUME Inv, NEW c \in Callers, Finish(c) PROVE Inv'
BY StopStep DEF Finish, End, InPass, store

LEMMA PassFailsKeeps == ASSUME Inv, NEW c \in Callers, PassFails(c) PROVE Inv'
BY StopStep DEF PassFails, End, InPass, store

LEMMA CancelKeeps == ASSUME Inv, NEW c \in Callers, Cancel(c) PROVE Inv'
BY StopStep DEF Cancel, InPass, store

\* Only the clock, the timers or the cloud function move.
LEMMA IdleStep ==
    ASSUME Inv, clock' \in Nat, UNCHANGED <<kind, queue, running, pass, todo>>,
           DOMAIN wake' = Callers, WakesOnSchedule'
    PROVE  Inv'
BY OutsideStep DEF Inv, Types, QueuedIsDead

LEMMA TimerFiresKeeps == ASSUME Inv, NEW c \in Callers, TimerFires(c) PROVE Inv'
<1>1. ~InPass(c) /\ Run(c) /\ UNCHANGED <<clock, kind, queue>>
  BY DEF TimerFires, InPass, store
<1>2. CASE running[ProcessOf[c]]
  <2>1. DOMAIN wake' = Callers /\ WakesOnSchedule'
    BY <1>2, SleepKeeps DEF TimerFires, Inv
  <2>2. QED
    BY <1>1, <1>2, <2>1, IdleStep DEF Run, Inv, Types
<1>3. CASE ~running[ProcessOf[c]]
  BY <1>1, <1>3, StartStep DEF TimerFires
<1>4. QED
  BY <1>2, <1>3

LEMMA PostKeeps == ASSUME Inv, NEW c \in Callers, Post(c) PROVE Inv'
<1>1. ~InPass(c) /\ Run(c) /\ UNCHANGED <<clock, kind, queue, wake>>
  BY DEF Post, InPass, store
<1>2. CASE running[ProcessOf[c]]
  <2>1. DOMAIN wake' = Callers /\ WakesOnSchedule'
    BY <1>1, SleepKeeps DEF Inv
  <2>2. QED
    BY <1>1, <1>2, <2>1, IdleStep DEF Run, Inv, Types
<1>3. CASE ~running[ProcessOf[c]]
  BY <1>1, <1>3, StartStep
<1>4. QED
  BY <1>2, <1>3

\* A session is locked, unlocked, completed; completed content is discarded.
LEMMA LockSessionKeeps == ASSUME Inv, NEW i \in Items, LockSession(i) PROVE Inv'
<1>1. /\ kind' \in [Items -> {"active", "busy", "live", "dead"}]
      /\ \A j \in Items : kind'[j] = IF j = i THEN "busy" ELSE kind[j]
  BY DEF Inv, Types, LockSession
<1>2. UNCHANGED <<clock, queue, running, pass, wake, todo>> /\ kind[i] = "active"
  BY DEF LockSession
<1>3. QueuedIsDead'
  BY <1>1, <1>2 DEF Inv, QueuedIsDead
<1>4. DOMAIN wake' = Callers /\ WakesOnSchedule'
  BY <1>2, SleepKeeps DEF Inv, WakesOnSchedule, OnSchedule, Types
<1>5. QED
  BY <1>1, <1>2, <1>3, <1>4, OutsideStep DEF Inv, Types

LEMMA DiscardKeeps == ASSUME Inv, NEW i \in Items, Discard(i) PROVE Inv'
<1>1. PICK t : queue' = [queue EXCEPT ![i] = [not_before |-> t, attempts |-> 0]]
  BY DEF Discard
<1>2. UNCHANGED <<clock, running, pass, wake, todo>> /\ kind[i] = "live"
  BY DEF Discard
<1>3. /\ kind' \in [Items -> {"active", "busy", "live", "dead"}]
      /\ \A j \in Items : kind'[j] = IF j = i THEN "dead" ELSE kind[j]
  BY DEF Inv, Types, Discard
<1>4. /\ DOMAIN queue' = Items
      /\ queue'[i] = [not_before |-> t, attempts |-> 0]
      /\ \A j \in Items : j # i => queue'[j] = queue[j]
  BY <1>1 DEF Inv, Types
<1>5. \A j \in Items :
         queue'[j] = None \/ \E u, n : queue'[j] = [not_before |-> u, attempts |-> n]
  BY <1>4 DEF Inv, Types
<1>6. QueuedIsDead'
  BY <1>3, <1>4 DEF Inv, QueuedIsDead
<1>7. DOMAIN wake' = Callers /\ WakesOnSchedule'
  BY <1>2 DEF Inv, WakesOnSchedule, OnSchedule, Types
<1>8. QED
  BY <1>2, <1>3, <1>4, <1>5, <1>6, <1>7, OutsideStep DEF Inv, Types

LEMMA UnlockSessionKeeps == ASSUME Inv, NEW i \in Items, UnlockSession(i) PROVE Inv'
<1>1. PICK k \in {"active", "live"} : kind' = [kind EXCEPT ![i] = k]
  BY DEF UnlockSession
<1>2. /\ UNCHANGED <<clock, queue, running, pass, wake>> /\ kind[i] = "busy"
      /\ todo' = [d \in Callers |-> StillDue(d)]
  BY DEF UnlockSession
<1>3. /\ kind' \in [Items -> {"active", "busy", "live", "dead"}]
      /\ \A j \in Items : kind'[j] = IF j = i THEN k ELSE kind[j]
  BY <1>1 DEF Inv, Types
<1>4. todo' \in [Callers -> SUBSET Items] /\ \A d \in Callers : todo'[d] = StillDue(d)
  BY <1>2 DEF Inv, Types, StillDue
<1>5. Types'
  BY <1>2, <1>3, <1>4 DEF Inv, Types
<1>6. FlagSound'
  BY <1>2, FlagSame DEF Inv, InPass
<1>7. DeadStaysDead
  BY <1>2, <1>3 DEF DeadStaysDead
<1>8. QueuedIsDead'
  BY <1>2, <1>3 DEF Inv, QueuedIsDead
<1>9. ASSUME NEW c \in Callers PROVE ListSound(c)'
  BY <1>2, <1>4, <1>7, ListKept DEF Inv
<1>10. WakesOnSchedule'
  BY <1>2 DEF Inv, WakesOnSchedule, OnSchedule
<1>11. QED
  BY <1>5, <1>6, <1>8, <1>9, <1>10 DEF Inv

-----------------------------------------------------------------------------
(* The invariant and what it gives *)

LEMMA InitHolds == Init => Inv
<1> SUFFICES ASSUME Init PROVE Inv
  OBVIOUS
<1>1. NoPass \in Passes /\ NoPass.at = "none"
  BY DEF NoPass, Passes, Places
<1>2. Types
  BY <1>1 DEF Init, Types
<1>3. FlagSound
  BY <1>1 DEF Init, FlagSound, PassHoldsFlag, FlagHasPass, NoOverlap, InPass, Processes
<1>4. QueuedIsDead
  BY DEF Init, QueuedIsDead
<1>5. ASSUME NEW c \in Callers PROVE ListSound(c)
  BY <1>1 DEF Init, ListSound, DueThen, NoSessionLeft, NothingLeft
<1>6. WakesOnSchedule
  BY NextAfter DEF Init, WakesOnSchedule
<1>7. QED
  BY <1>2, <1>3, <1>4, <1>5, <1>6 DEF Inv

\* Every step keeps the invariant.
LEMMA NextKeeps == Inv /\ [Next]_vars => Inv'
<1> SUFFICES ASSUME Inv, [Next]_vars PROVE Inv'
  OBVIOUS
<1>1. ASSUME NEW c \in Callers, PassStep(c) PROVE Inv'
  BY <1>1, ClaimExpiredKeeps, ExpiredKeeps, ClaimGcKeeps, DeleteBlobKeeps, FailGcKeeps,
     SkipBlobKeeps, CollectedKeeps, FinishKeeps DEF PassStep
<1>2. ASSUME NEW c \in Callers, PassFails(c) \/ Cancel(c) \/ TimerFires(c) \/ Post(c)
      PROVE  Inv'
  BY <1>2, PassFailsKeeps, CancelKeeps, TimerFiresKeeps, PostKeeps
<1>3. ASSUME NEW i \in Items, LockSession(i) \/ UnlockSession(i) \/ Discard(i)
      PROVE  Inv'
  BY <1>3, LockSessionKeeps, UnlockSessionKeeps, DiscardKeeps
<1>4. CASE TriggerRetries \/ Tick \/ UNCHANGED vars
  <2>1. clock' \in Nat /\ UNCHANGED <<kind, queue, running, pass, wake, todo>>
    BY <1>4 DEF TriggerRetries, Tick, vars, store, Inv, Types
  <2>2. DOMAIN wake' = Callers /\ WakesOnSchedule'
    BY <2>1 DEF Inv, Types, WakesOnSchedule, OnSchedule
  <2>3. QED
    BY <2>1, <2>2, IdleStep
<1>5. QED
  BY <1>1, <1>2, <1>3, <1>4 DEF Next

\* What ends a pass.
LEMMA PassLeaves ==
    ASSUME Inv, Next, NEW c \in Callers, InPass(c), ~InPass(c)'
    PROVE  Finish(c) \/ PassFails(c) \/ Cancel(c)
<1>1. pass \in [Callers -> Passes] /\ NoPass.at = "none"
  BY DEF Inv, Types, NoPass
<1>2. ASSUME NEW d \in Callers, NEW l \in Places \ {"none"}, Moves(d, l) PROVE FALSE
  BY <1>2 DEF Moves, InPass
<1>3. ASSUME NEW d \in Callers, PassStep(d), ~Finish(d) PROVE FALSE
  <2>1. pass[d] \in Passes
    BY <1>1
  <2>2. CASE Expired(d) \/ Collected(d)
    BY <2>2, <1>2, AfterBatchMoves DEF Expired, Collected, Inv, Places
  <2>3. CASE ClaimExpired(d)
    <3>1. PICK f : pass' = [pass EXCEPT ![d].at = "expired", ![d].full = f]
      BY <2>3 DEF ClaimExpired
    <3>2. pass'[d].at = "expired" /\ \A b \in Callers \ {d} : pass'[b] = pass[b]
      BY <1>1, <2>1, <3>1 DEF Passes
    <3>3. QED
      BY <3>2 DEF InPass
  <2>4. CASE ClaimGc(d)
    <3>1. PICK B, f : pass' = [pass EXCEPT ![d].at = "delete", ![d].batch = B, ![d].full = f]
      BY <2>4 DEF ClaimGc
    <3>2. pass'[d].at = "delete" /\ \A b \in Callers \ {d} : pass'[b] = pass[b]
      BY <1>1, <2>1, <3>1 DEF Passes
    <3>3. QED
      BY <3>2 DEF InPass
  <2>5. CASE DeleteBlob(d) \/ FailGc(d) \/ SkipBlob(d)
    <3>1. PICK i : pass' = [pass EXCEPT ![d].batch = @ \ {i}]
      BY <2>5 DEF DeleteBlob, FailGc, SkipBlob
    <3>2. pass'[d].at = pass[d].at /\ \A b \in Callers \ {d} : pass'[b] = pass[b]
      BY <1>1, <2>1, <3>1 DEF Passes
    <3>3. QED
      BY <3>2 DEF InPass
  <2>6. QED
    BY <1>3, <2>2, <2>3, <2>4, <2>5 DEF PassStep
<1>4. ASSUME NEW d \in Callers, Finish(d) \/ PassFails(d) \/ Cancel(d)
      PROVE  d = c
  BY <1>1, <1>4 DEF Finish, PassFails, Cancel, End, InPass
<1>5. ASSUME NEW d \in Callers, TimerFires(d) \/ Post(d) PROVE FALSE
  <2>1. pass[d].at = "none" /\ Run(d)
    BY <1>5 DEF TimerFires, Post
  <2>2. d # c
    BY <2>1 DEF InPass
  <2>3. pass'[c] = pass[c]
    BY <1>1, <2>1, <2>2 DEF Run
  <2>4. QED
    BY <2>3 DEF InPass
<1>6. ASSUME UNCHANGED pass PROVE FALSE
  BY <1>6 DEF InPass
<1>7. QED
  BY <1>3, <1>4, <1>5, <1>6
     DEF Next, TriggerRetries, LockSession, UnlockSession, Discard, Tick

\* The inductive invariant of the maintenance loop: flags, lists and alarms.
THEOREM Invariance == Spec => []Inv
BY InitHolds, NextKeeps, PTL DEF Spec

\* Passes of one process never overlap and none is locked out, whatever ended
\* the passes before (running.swap and RunningGuard in maintenance.rs).
THEOREM OnePassPerFlag == Spec => []FlagMeansPass
<1>1. Inv => FlagMeansPass
  BY FlagCounts DEF Inv
<1>2. QED
  BY <1>1, Invariance, PTL

\* A pass that calls itself drained has dealt with all that was due when it
\* began, rows locked by others apart (MaintenanceService::run).
THEOREM DrainedIsDone == Spec => []DrainedMeansDone
<1>1. Inv => DrainedMeansDone
  BY DEF Inv, ListSound, NothingLeft, BlobsDone, DrainedMeansDone
<1>2. QED
  BY <1>1, Invariance, PTL

\* After a pass, or after finding one running, a timer sleeps until a later
\* instant of the schedule (spawn_maintenance, DailySchedule::next_after).
THEOREM TimersKeepSchedule == Spec => OncePerScheduledInstant
<1>1. Inv /\ Inv' /\ [Next]_vars =>
         [\A c \in Timers :
            /\ pass[c].at # "none" /\ pass'[c].at = "none" => wake'[c] > clock
            /\ (wake'[c] + Offset) % Day = At]_vars
  <2> SUFFICES ASSUME Inv, Inv', Next, NEW c \in Timers
               PROVE  /\ pass[c].at # "none" /\ pass'[c].at = "none" => wake'[c] > clock
                      /\ (wake'[c] + Offset) % Day = At
    OBVIOUS
  <2>1. c \in Callers
    BY MaintenanceAssumption
  <2>2. (wake'[c] + Offset) % Day = At
    BY <2>1 DEF Inv, WakesOnSchedule, OnSchedule
  <2>3. ASSUME pass[c].at # "none", pass'[c].at = "none" PROVE wake'[c] > clock
    <3>1. SleepAfter(c)
      BY <2>1, <2>3, PassLeaves DEF Finish, PassFails, Cancel, InPass
    <3>2. QED
      BY <2>1, <3>1, NextAfter DEF SleepAfter, Inv, Types
  <2>4. QED
    BY <2>2, <2>3
<1>2. QED
  BY <1>1, Invariance, PTL DEF Spec, OncePerScheduledInstant

=============================================================================
