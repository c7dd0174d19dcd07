----------------------------- MODULE ChangeFeed -----------------------------
(***************************************************************************)
(* The Changes feed: mutations that append Changes under the ordering      *)
(* lock, followers that read pages through persistent cursors, and the     *)
(* retention purges of Changes and cursors.                                *)
(*                                                                         *)
(* Transactions run at READ COMMITTED: every statement sees what is        *)
(* committed when it starts, so each statement of read_changes whose       *)
(* result is used later is an action of its own.  The purge of Changes and *)
(* a cursor purge are one statement (or one statement and the watermark    *)
(* update that commits with it), hence one action each.                    *)
(***************************************************************************)
EXTENDS Integers, FiniteSets

CONSTANTS
    Writers,         \* mutation transactions, each runs once
    Readers,         \* request handlers of GET /changes
    BatchSizes,      \* how many Changes one mutation emits
    Limits,          \* page limits clients ask for
    Retention,       \* config.changes_retention
    CursorTTL,       \* config.changes_cursor_ttl
    MaxCursors,      \* bound on the cursors issued
    MaxSeq,          \* bound on the changes_seq sequence
    MaxTime,         \* bound on the clock
    None             \* no holder

ASSUME FeedAssumption ==
    /\ BatchSizes \subseteq Nat \ {0}
    /\ Limits \subseteq Nat \ {0}
    /\ Retention \in Nat
    /\ CursorTTL \in Nat \ {0}
    /\ MaxCursors \in Nat
    /\ MaxSeq \in Nat
    /\ MaxTime \in Nat
    /\ None \notin Writers

VARIABLES
    now,         \* the clock
    nextSeq,     \* changes_seq: next value; never rolled back
    orderLock,   \* holder of the advisory lock 'anystore:changes:append'
    writer,      \* per mutation: where it stands, ctx.now, its reserved seqs
    changes,     \* committed, retained Changes (their seq)
    changedAt,   \* changed_at of each Change
    watermark,   \* changes_retention.purged_through_seq
    cursors,     \* the change_cursors table
    issued,      \* number of cursors issued; ids are 1..issued
    reader,      \* per handler: where it stands and what it has read
    purged       \* history: Changes removed by the retention purge

vars == <<now, nextSeq, orderLock, writer, changes, changedAt, watermark,
          cursors, issued, reader, purged>>

feedVars == <<nextSeq, orderLock, writer, changes, changedAt, watermark, purged>>

Seqs == 1..MaxSeq
Positions == 0..MaxSeq
CursorIds == 1..MaxCursors
NoCursor == 0      \* a read without a cursor

\* Every Change that was ever committed.
Ever == changes \cup purged

\* A row of change_cursors.  origin, seen and page are history: where the
\* chain of reads that led to the cursor began, what that chain delivered,
\* and what the first read of this cursor delivered.
CursorRows ==
    [present: BOOLEAN, after_seq: Positions, expires_at: Nat,
     materialized: BOOLEAN, page_limit: Limits \cup {0}, page_end_seq: Positions,
     next: CursorIds \cup {NoCursor}, origin: Positions, seen: SUBSET Seqs,
     page: SUBSET Seqs]

EmptyRow ==
    [present |-> FALSE, after_seq |-> 0, expires_at |-> 0,
     materialized |-> FALSE, page_limit |-> 0, page_end_seq |-> 0,
     next |-> NoCursor, origin |-> 0, seen |-> {}, page |-> {}]

ReaderPC == {"idle", "locate", "max", "items", "finish", "reread", "replied"}

ReaderStates ==
    [pc: ReaderPC, cursor: CursorIds \cup {NoCursor}, limit: Limits \cup {0},
     start: Nat, watermark: Positions, after: Positions, max: Positions,
     end: Positions, items: SUBSET Seqs, next: CursorIds \cup {NoCursor}]

IdleReader ==
    [pc |-> "idle", cursor |-> NoCursor, limit |-> 0, start |-> 0,
     watermark |-> 0, after |-> 0, max |-> 0, end |-> 0, items |-> {},
     next |-> NoCursor]

WriterStates ==
    [pc: {"idle", "writing", "appended", "done"}, start: Nat, seqs: SUBSET Seqs]

TypeOK ==
    /\ now \in Nat
    /\ nextSeq \in 1..(MaxSeq + 1)
    /\ orderLock \in Writers \cup {None}
    /\ writer \in [Writers -> WriterStates]
    /\ changes \in SUBSET Seqs
    /\ changedAt \in [Seqs -> Nat]
    /\ watermark \in Positions
    /\ cursors \in [CursorIds -> CursorRows]
    /\ issued \in 0..MaxCursors
    /\ reader \in [Readers -> ReaderStates]
    /\ purged \in SUBSET Seqs

Init ==
    /\ now = 0
    /\ nextSeq = 1
    /\ orderLock = None
    /\ writer = [w \in Writers |-> [pc |-> "idle", start |-> 0, seqs |-> {}]]
    /\ changes = {}
    /\ changedAt = [s \in Seqs |-> 0]
    /\ watermark = 0
    /\ cursors = [c \in CursorIds |-> EmptyRow]
    /\ issued = 0
    /\ reader = [r \in Readers |-> IdleReader]
    /\ purged = {}

-----------------------------------------------------------------------------
(* Mutations *)

\* The request arrives: changed_at will be its ctx.now.
BeginWrite(w) ==
    /\ writer[w].pc = "idle"
    /\ writer' = [writer EXCEPT ![w].pc = "writing", ![w].start = now]
    /\ UNCHANGED <<now, nextSeq, orderLock, changes, changedAt, watermark,
                   cursors, issued, reader, purged>>

\* Variant: no ordering lock.
AppendChangesUnlocked(w) ==
    /\ writer[w].pc = "writing"
    /\ \E n \in BatchSizes :
          /\ nextSeq + n <= MaxSeq + 1
          /\ nextSeq' = nextSeq + n
          /\ writer' = [writer EXCEPT ![w].pc = "appended",
                                      ![w].seqs = nextSeq..(nextSeq + n - 1)]
    /\ UNCHANGED <<now, orderLock, changes, changedAt, watermark, cursors,
                   issued, reader, purged>>

\* append_changes: wait for the lock, reserve the seqs, insert the rows
\* (visible to others only at commit).
AppendChanges(w) ==
    /\ writer[w].pc = "writing"
    /\ orderLock = None
    /\ orderLock' = w
    /\ \E n \in BatchSizes :
          /\ nextSeq + n <= MaxSeq + 1
          /\ nextSeq' = nextSeq + n
          /\ writer' = [writer EXCEPT ![w].pc = "appended",
                                      ![w].seqs = nextSeq..(nextSeq + n - 1)]
    /\ UNCHANGED <<now, changes, changedAt, watermark, cursors, issued, reader,
                   purged>>

\* Commit publishes the rows; the lock is released after they are visible.
CommitWrite(w) ==
    /\ writer[w].pc = "appended"
    /\ changes' = changes \cup writer[w].seqs
    /\ changedAt' = [s \in Seqs |-> IF s \in writer[w].seqs
                                    THEN writer[w].start ELSE changedAt[s]]
    /\ orderLock' = IF orderLock = w THEN None ELSE orderLock
    /\ writer' = [writer EXCEPT ![w] = [pc |-> "done", start |-> 0, seqs |-> {}]]
    /\ UNCHANGED <<now, nextSeq, watermark, cursors, issued, reader, purged>>

\* A failed statement, a lost lease or a crash rolls back; seqs are not reused.
RollbackWrite(w) ==
    /\ writer[w].pc \in {"writing", "appended"}
    /\ orderLock' = IF orderLock = w THEN None ELSE orderLock
    /\ writer' = [writer EXCEPT ![w] = [pc |-> "done", start |-> 0, seqs |-> {}]]
    /\ UNCHANGED <<now, nextSeq, changes, changedAt, watermark, cursors, issued,
                   reader, purged>>

-----------------------------------------------------------------------------
(* read_changes *)

\* The bound on cursors: pages are built only while one is left to issue.
CursorLeft == issued < MaxCursors

\* A read without a cursor: the first statement reads the watermark, and the
\* page starts there.
BeginInitialRead(r) ==
    /\ reader[r].pc = "idle"
    /\ CursorLeft
    /\ \E l \in Limits :
          reader' = [reader EXCEPT ![r] = [IdleReader EXCEPT
                        !.pc = "max", !.limit = l, !.start = now,
                        !.after = watermark]]
    /\ UNCHANGED <<now, feedVars, cursors, issued>>

\* A read of a cursor: the watermark is kept for the check of the row.
BeginCursorRead(r) ==
    /\ reader[r].pc = "idle"
    /\ \E c \in 1..issued, l \in Limits :
          reader' = [reader EXCEPT ![r] = [IdleReader EXCEPT
                        !.pc = "locate", !.cursor = c, !.limit = l,
                        !.start = now, !.watermark = watermark]]
    /\ UNCHANGED <<now, feedVars, cursors, issued>>

\* SELECT ... FOR UPDATE on the cursor row waits for another reader of it.
CursorLocked(c) ==
    \E r \in Readers : reader[r].cursor = c
                       /\ reader[r].pc \in {"max", "items", "finish", "reread"}

CursorExpired(r) ==
    LET row == cursors[reader[r].cursor] IN
    \/ ~row.present
    \/ row.expires_at <= reader[r].start
    \/ row.after_seq < reader[r].watermark

\* 410 changes_cursor_expired, or 400 when a materialised page has another limit.
RejectCursor(r) ==
    LET row == cursors[reader[r].cursor] IN
    \/ CursorExpired(r)
    \/ row.materialized /\ row.page_limit # reader[r].limit

\* Variant: the cursor row is read without FOR UPDATE.
LocateCursorUnlocked(r) ==
    /\ reader[r].pc = "locate"
    /\ ~RejectCursor(r)
    /\ reader' = [reader EXCEPT
             ![r].pc = IF cursors[reader[r].cursor].materialized THEN "reread" ELSE "max",
             ![r].after = cursors[reader[r].cursor].after_seq]
    /\ UNCHANGED <<now, feedVars, cursors, issued>>

LocateCursor(r) ==
    /\ reader[r].pc = "locate"
    /\ ~CursorLocked(reader[r].cursor)
    /\ LET row == cursors[reader[r].cursor] IN
       \/ /\ RejectCursor(r)
          /\ reader' = [reader EXCEPT ![r] = IdleReader]
       \/ /\ ~RejectCursor(r)
          /\ reader' = [reader EXCEPT
                ![r].pc = IF row.materialized THEN "reread" ELSE "max",
                ![r].watermark = 0,
                ![r].after = row.after_seq]
    /\ UNCHANGED <<now, feedVars, cursors, issued>>

\* snapshot_max_seq: MAX(seq), at least after_seq.
SnapshotMax(r) ==
    /\ reader[r].pc = "max"
    /\ CursorLeft
    /\ \E m \in changes \cup {reader[r].after} :
          /\ m >= reader[r].after
          /\ \A s \in changes : s <= m
          /\ reader' = [reader EXCEPT ![r].pc = "items", ![r].max = m]
    /\ UNCHANGED <<now, feedVars, cursors, issued>>

Window(a, b) == {s \in changes : a < s /\ s <= b}

AtMost(n, m) == IF n < m THEN n ELSE m

\* e is where the page of at most n Changes of window w after a ends.
PageEnd(w, a, n, e) ==
    IF w = {} THEN e = a
    ELSE e \in w /\ Cardinality({s \in w : s <= e}) = AtMost(n, Cardinality(w))

\* The page: ORDER BY seq LIMIT n over (after, max], as it is by now.
ReadItems(r) ==
    /\ reader[r].pc = "items"
    /\ LET w == Window(reader[r].after, reader[r].max) IN
       \E e \in w \cup {reader[r].after} :
          /\ PageEnd(w, reader[r].after, reader[r].limit, e)
          /\ reader' = [reader EXCEPT ![r].pc = "finish", ![r].end = e,
                                      ![r].items = {s \in w : s <= e}]
    /\ UNCHANGED <<now, feedVars, cursors, issued>>

\* create_cursor for the continuation.
NewRow(r) ==
    LET from == reader[r].cursor IN
    [EmptyRow EXCEPT
        !.present = TRUE, !.after_seq = reader[r].end,
        !.expires_at = reader[r].start + CursorTTL,
        !.origin = IF from = NoCursor THEN reader[r].after ELSE cursors[from].origin,
        !.seen = reader[r].items \cup (IF from = NoCursor THEN {} ELSE cursors[from].seen)]

\* The cursor just read remembers its page.
MaterializedRow(r, next) ==
    [cursors[reader[r].cursor] EXCEPT
        !.materialized = TRUE, !.page_limit = reader[r].limit,
        !.page_end_seq = reader[r].end, !.next = next, !.page = reader[r].items]

\* The page handed back: its Changes and its next cursor.
Reply(r, items, next) ==
    [IdleReader EXCEPT !.pc = "replied", !.cursor = reader[r].cursor,
                       !.items = items, !.next = next]

\* Continuation cursor, materialisation and commit.
FinishRead(r) ==
    /\ reader[r].pc = "finish"
    /\ CursorLeft
    /\ issued' = issued + 1
    /\ cursors' =
         [c \in CursorIds |->
             CASE c = issued + 1 -> NewRow(r)
               [] c = reader[r].cursor -> MaterializedRow(r, issued + 1)
               [] OTHER -> cursors[c]]
    /\ reader' = [reader EXCEPT ![r] = Reply(r, reader[r].items, issued + 1)]
    /\ UNCHANGED <<now, feedVars>>

\* A materialised cursor returns (after_seq, page_end_seq] and its stored next.
Reread(r) ==
    /\ reader[r].pc = "reread"
    /\ LET row == cursors[reader[r].cursor] IN
       reader' = [reader EXCEPT
          ![r] = Reply(r, Window(row.after_seq, row.page_end_seq), row.next)]
    /\ UNCHANGED <<now, feedVars, cursors, issued>>

\* The reply is sent, or the transaction dies before it.
EndRead(r) ==
    /\ reader[r].pc # "idle"
    /\ reader' = [reader EXCEPT ![r] = IdleReader]
    /\ UNCHANGED <<now, feedVars, cursors, issued>>

-----------------------------------------------------------------------------
(* Maintenance and time *)

\* purge_changes: by changed_at; the watermark moves to the largest seq deleted.
PurgeChanges ==
    LET old == {s \in changes : changedAt[s] < now - Retention} IN
    /\ old # {}
    /\ changes' = changes \ old
    /\ purged' = purged \cup old
    /\ \E m \in old \cup {watermark} :
          /\ \A s \in old \cup {watermark} : s <= m
          /\ watermark' = m
    /\ UNCHANGED <<now, nextSeq, orderLock, writer, changedAt, cursors, issued,
                   reader>>

ExpiredCursors == {c \in 1..issued : cursors[c].present /\ cursors[c].expires_at <= now}

\* Variant: cursors that were never read are purged before their time.
PurgeUnreadCursors ==
    /\ \E c \in 1..issued : cursors[c].present /\ ~cursors[c].materialized
                            /\ ~CursorLocked(c)
                            /\ cursors' = [cursors EXCEPT ![c].present = FALSE]
    /\ UNCHANGED <<now, feedVars, issued, reader>>

\* The DELETE waits for readers that hold one of the rows.
PurgeChangeCursors ==
    /\ ExpiredCursors # {}
    /\ \A c \in ExpiredCursors : ~CursorLocked(c)
    /\ cursors' = [c \in CursorIds |-> IF c \in ExpiredCursors
                                       THEN [cursors[c] EXCEPT !.present = FALSE]
                                       ELSE cursors[c]]
    /\ UNCHANGED <<now, feedVars, issued, reader>>

Tick ==
    /\ now < MaxTime
    /\ now' = now + 1
    /\ UNCHANGED <<feedVars, cursors, issued, reader>>

WriterStep(w) == BeginWrite(w) \/ AppendChanges(w) \/ CommitWrite(w) \/ RollbackWrite(w)

ReaderStep(r) ==
    \/ BeginInitialRead(r) \/ BeginCursorRead(r) \/ LocateCursor(r)
    \/ SnapshotMax(r) \/ ReadItems(r) \/ FinishRead(r) \/ Reread(r) \/ EndRead(r)

Next ==
    \/ \E w \in Writers : WriterStep(w)
    \/ \E r \in Readers : ReaderStep(r)
    \/ PurgeChanges
    \/ PurgeChangeCursors
    \/ Tick

Spec == Init /\ [][Next]_vars

-----------------------------------------------------------------------------
(* Properties *)

\* A Change only ever becomes visible after every smaller seq that will be:
\* commit order is seq order, although seqs are reserved before the commit.
ChangesCommitInOrder ==
    [][\A s \in Ever' \ Ever : \A t \in Ever : t < s]_vars

\* A follower that walks the next_cursor chain receives every Change between
\* where it started and where it stands, except what retention deleted.
NoChangeSkipped ==
    \A c \in 1..issued : \A s \in Ever :
        cursors[c].origin < s /\ s <= cursors[c].after_seq
            => s \in cursors[c].seen \cup purged

\* Re-reading a cursor gives the same Changes (less what retention deleted
\* meanwhile) and the same next cursor, whatever was appended in between and
\* whoever else reads the cursor concurrently.
StableReread ==
    \A r \in Readers :
        reader[r].pc = "replied" /\ reader[r].cursor # NoCursor =>
            LET row == cursors[reader[r].cursor] IN
            /\ reader[r].next = row.next
            /\ reader[r].items \ purged = row.page \ purged

\* The continuation of a page that can still be re-read can still be read:
\* a cursor never outlives the cursor after it.
NextCursorLives ==
    \A c \in 1..issued :
        cursors[c].present /\ cursors[c].materialized
            => cursors[cursors[c].next].present

\* "Cursor outside retained history returns 410 changes_cursor_expired"
\* (AnyStore_API_v1.md): the page served from a cursor lacks no Change.
NoSilentGap ==
    \A c \in 1..issued : cursors[c].materialized =>
        \A s \in Ever : cursors[c].after_seq < s /\ s <= cursors[c].page_end_seq
                           => s \in cursors[c].page
=============================================================================
