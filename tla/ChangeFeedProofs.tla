-------------------------- MODULE ChangeFeedProofs --------------------------
(***************************************************************************)
(* What the Changes feed promises, for every number of mutations, readers  *)
(* and cursors.  The argument turns on positions that are settled: no      *)
(* Change that is still to be committed can have a seq at or below them.   *)
(* The ordering lock makes every committed seq settled, so every position  *)
(* a reader or a cursor holds is settled too.                              *)
(***************************************************************************)
EXTENDS ChangeFeed, TLAPS

\* No Change that is not yet visible has a seq at or below p.
Settled(p) ==
    /\ p < nextSeq
    /\ \A w \in Writers : writer[w].pc = "appended" => \A s \in writer[w].seqs : p < s

\* Only the holder of the ordering lock has reserved seqs it may still commit.
Reserved ==
    \A w \in Writers : writer[w].pc = "appended" =>
        /\ orderLock = w
        /\ \A s \in writer[w].seqs : s < nextSeq

CommittedSettled == Settled(watermark) /\ \A s \in Ever : Settled(s)

\* s lies on the page (a, b].
On(s, a, b) == a < s /\ s <= b

\* items is the page (a, b], less what retention deleted.
Page(items, a, b) ==
    /\ items \subseteq Ever
    /\ \A s \in items : On(s, a, b)
    /\ \A s \in Ever : On(s, a, b) => s \in items \cup purged

\* What holds of an issued cursor.
CursorOK(c) ==
    /\ Settled(cursors[c].after_seq)
    /\ cursors[c].expires_at <= now + CursorTTL
    /\ \A s \in Ever : On(s, cursors[c].origin, cursors[c].after_seq)
                          => s \in cursors[c].seen \cup purged
    /\ cursors[c].materialized =>
         /\ Settled(cursors[c].page_end_seq)
         /\ Page(cursors[c].page, cursors[c].after_seq, cursors[c].page_end_seq)
         /\ cursors[c].next \in 1..issued
         /\ cursors[c].expires_at <= cursors[cursors[c].next].expires_at
         /\ cursors[c].present => cursors[cursors[c].next].present

\* A read of a cursor that is building the page (or waiting to).
Building(r) == reader[r].pc \in {"max", "items", "finish"}
FromCursor(r) == reader[r].cursor # NoCursor

\* What holds of a request handler.
ReaderOK(r) ==
    /\ reader[r].start <= now
    /\ FromCursor(r) => reader[r].cursor \in 1..issued
    /\ reader[r].pc \in {"locate", "reread"} => FromCursor(r)
    /\ (Building(r) \/ reader[r].pc = "locate") /\ FromCursor(r)
         => cursors[reader[r].cursor].expires_at <= reader[r].start + CursorTTL
    /\ Building(r) =>
         /\ Settled(reader[r].after)
         /\ FromCursor(r) => /\ reader[r].after = cursors[reader[r].cursor].after_seq
                             /\ ~cursors[reader[r].cursor].materialized
    /\ reader[r].pc = "items" => Settled(reader[r].max)
    /\ reader[r].pc = "finish" =>
         /\ Settled(reader[r].end)
         /\ Page(reader[r].items, reader[r].after, reader[r].end)
    /\ reader[r].pc = "reread" => cursors[reader[r].cursor].materialized
    /\ reader[r].pc = "replied" /\ FromCursor(r) =>
         /\ cursors[reader[r].cursor].materialized
         /\ reader[r].next = cursors[reader[r].cursor].next
         /\ reader[r].items \ purged = cursors[reader[r].cursor].page \ purged

\* SELECT ... FOR UPDATE: a cursor row has one reader at a time.
Holds(r) == reader[r].pc \in {"max", "items", "finish", "reread"} /\ FromCursor(r)
OneHolder ==
    \A q, r \in Readers : Holds(q) /\ Holds(r) /\ q # r
                             => reader[q].cursor # reader[r].cursor

Inv ==
    /\ TypeOK
    /\ Reserved
    /\ CommittedSettled
    /\ \A c \in 1..issued : CursorOK(c)
    /\ \A r \in Readers : ReaderOK(r)
    /\ OneHolder

-----------------------------------------------------------------------------
(* Types *)

LEMMA EmptyValues == EmptyRow \in CursorRows /\ IdleReader \in ReaderStates
<1>1. EmptyRow \in CursorRows
  BY FeedAssumption DEF EmptyRow, CursorRows, Positions, NoCursor, Seqs
<1>2. IdleReader \in ReaderStates
  BY FeedAssumption DEF IdleReader, ReaderStates, ReaderPC, Positions, NoCursor, Seqs
<1>3. QED
  BY <1>1, <1>2

LEMMA TypesWriter ==
    ASSUME TypeOK, NEW w \in Writers, WriterStep(w)
    PROVE  TypeOK'
<1> USE FeedAssumption DEF TypeOK
<1>1. CASE BeginWrite(w)
  BY <1>1 DEF BeginWrite, WriterStates
<1>2. CASE AppendChanges(w)
  <2>1. PICK n \in BatchSizes :
          /\ nextSeq + n <= MaxSeq + 1
          /\ nextSeq' = nextSeq + n
          /\ writer' = [writer EXCEPT ![w].pc = "appended",
                                      ![w].seqs = nextSeq..(nextSeq + n - 1)]
    BY <1>2 DEF AppendChanges
  <2>2. nextSeq' \in 1..(MaxSeq + 1) /\ nextSeq..(nextSeq + n - 1) \subseteq Seqs
    BY <2>1 DEF Seqs
  <2>3. writer' \in [Writers -> WriterStates]
    BY <2>1, <2>2 DEF WriterStates
  <2>4. QED
    BY <1>2, <2>2, <2>3 DEF AppendChanges
<1>3. CASE CommitWrite(w)
  BY <1>3 DEF CommitWrite, WriterStates, Seqs
<1>4. CASE RollbackWrite(w)
  BY <1>4 DEF RollbackWrite, WriterStates, Seqs
<1>5. QED
  BY <1>1, <1>2, <1>3, <1>4 DEF WriterStep

\* A handler moves to a new state; the others do not notice.
OnlyReader(r) == \A q \in Readers \ {r} : reader'[q] = reader[q]

LEMMA ReaderSet ==
    ASSUME TypeOK, NEW r \in Readers, NEW new \in ReaderStates,
           reader' = [reader EXCEPT ![r] = new]
    PROVE  reader' \in [Readers -> ReaderStates] /\ reader'[r] = new /\ OnlyReader(r)
BY DEF TypeOK, OnlyReader

\* Where each step of read_changes leaves the handler.
LEMMA InitialReadMoves ==
    ASSUME TypeOK, NEW r \in Readers, BeginInitialRead(r)
    PROVE  /\ reader' \in [Readers -> ReaderStates] /\ OnlyReader(r)
           /\ reader'[r].pc = "max" /\ reader'[r].cursor = NoCursor
           /\ reader'[r].start = now /\ reader'[r].after = watermark
<1>1. PICK l \in Limits : reader' = [reader EXCEPT ![r] = [IdleReader EXCEPT
                        !.pc = "max", !.limit = l, !.start = now, !.after = watermark]]
  BY DEF BeginInitialRead
<1> DEFINE new == [IdleReader EXCEPT !.pc = "max", !.limit = l, !.start = now,
                                     !.after = watermark]
<1>2. /\ IdleReader \in ReaderStates /\ IdleReader.cursor = NoCursor
      /\ "max" \in ReaderPC /\ watermark \in Positions /\ now \in Nat
  BY EmptyValues DEF IdleReader, ReaderPC, TypeOK
<1>3. /\ new \in ReaderStates /\ new.pc = "max" /\ new.cursor = NoCursor
      /\ new.start = now /\ new.after = watermark
  BY <1>2 DEF ReaderStates
<1>4. reader' = [reader EXCEPT ![r] = new]
  BY <1>1
<1> HIDE DEF new
<1>5. QED
  BY <1>3, <1>4, ReaderSet

LEMMA CursorReadMoves ==
    ASSUME TypeOK, NEW r \in Readers, BeginCursorRead(r)
    PROVE  /\ reader' \in [Readers -> ReaderStates] /\ OnlyReader(r)
           /\ reader'[r].pc = "locate" /\ reader'[r].cursor \in 1..issued
           /\ reader'[r].start = now
<1>1. PICK c \in 1..issued, l \in Limits :
        reader' = [reader EXCEPT ![r] = [IdleReader EXCEPT
                        !.pc = "locate", !.cursor = c, !.limit = l,
                        !.start = now, !.watermark = watermark]]
  BY DEF BeginCursorRead
<1> DEFINE new == [IdleReader EXCEPT !.pc = "locate", !.cursor = c, !.limit = l,
                                     !.start = now, !.watermark = watermark]
<1>2. /\ IdleReader \in ReaderStates /\ "locate" \in ReaderPC
      /\ watermark \in Positions /\ now \in Nat
  BY EmptyValues DEF ReaderPC, TypeOK
<1>3. c \in CursorIds
  BY FeedAssumption DEF TypeOK, CursorIds
<1> HIDE DEF CursorIds, ReaderPC, Positions
<1>4. new \in ReaderStates /\ new.pc = "locate" /\ new.cursor = c /\ new.start = now
  BY <1>2, <1>3 DEF ReaderStates
<1>5. reader' = [reader EXCEPT ![r] = new]
  BY <1>1
<1> HIDE DEF new
<1>6. QED
  BY <1>4, <1>5, ReaderSet

LEMMA HandlerIdle ==
    ASSUME TypeOK, NEW r \in Readers, reader' = [reader EXCEPT ![r] = IdleReader]
    PROVE  /\ reader' \in [Readers -> ReaderStates] /\ OnlyReader(r)
           /\ reader'[r].pc = "idle" /\ reader'[r].cursor = NoCursor /\ reader'[r].start = 0
<1>1. IdleReader.pc = "idle" /\ IdleReader.cursor = NoCursor /\ IdleReader.start = 0
  BY DEF IdleReader
<1>2. QED
  BY <1>1, EmptyValues, ReaderSet

LEMMA LocateMoves ==
    ASSUME TypeOK, NEW r \in Readers, LocateCursor(r), reader[r].cursor \in 1..issued,
           ~RejectCursor(r),
           reader' # [reader EXCEPT ![r] = IdleReader]
    PROVE  /\ reader' \in [Readers -> ReaderStates] /\ OnlyReader(r)
           /\ reader'[r].pc = IF cursors[reader[r].cursor].materialized THEN "reread" ELSE "max"
           /\ reader'[r].cursor = reader[r].cursor /\ reader'[r].start = reader[r].start
           /\ reader'[r].after = cursors[reader[r].cursor].after_seq
<1> DEFINE row == cursors[reader[r].cursor]
           new == [reader[r] EXCEPT
                     !.pc = IF row.materialized THEN "reread" ELSE "max",
                     !.watermark = 0, !.after = row.after_seq]
<1>1. reader' = [reader EXCEPT
                ![r].pc = IF row.materialized THEN "reread" ELSE "max",
                ![r].watermark = 0,
                ![r].after = row.after_seq]
  BY DEF LocateCursor
<1>2. row \in CursorRows
  <2>1. reader[r].cursor \in CursorIds
    BY FeedAssumption DEF TypeOK, CursorIds
  <2>2. QED
    BY <2>1 DEF TypeOK
<1>3. row.after_seq \in Positions
  BY <1>2 DEF CursorRows
<1>4. new.pc = (IF row.materialized THEN "reread" ELSE "max") /\ new.after = row.after_seq
      /\ new.cursor = reader[r].cursor /\ new.start = reader[r].start
  BY DEF TypeOK, ReaderStates
<1>5. 0 \in Positions
  BY FeedAssumption DEF Positions
<1>6. (IF row.materialized THEN "reread" ELSE "max") \in ReaderPC
  BY DEF ReaderPC
<1> HIDE DEF row
<1>7. new \in ReaderStates
  BY <1>3, <1>5, <1>6 DEF TypeOK, ReaderStates
<1>8. reader' = [reader EXCEPT ![r] = new]
  BY <1>1 DEF TypeOK
<1> HIDE DEF new
<1>9. reader' \in [Readers -> ReaderStates] /\ reader'[r] = new /\ OnlyReader(r)
  BY <1>7, <1>8, ReaderSet
<1>10. QED
  BY <1>4, <1>9 DEF row

LEMMA MaxMoves ==
    ASSUME TypeOK, NEW r \in Readers, SnapshotMax(r)
    PROVE  /\ reader' \in [Readers -> ReaderStates] /\ OnlyReader(r)
           /\ reader'[r].pc = "items" /\ reader'[r].cursor = reader[r].cursor
           /\ reader'[r].start = reader[r].start /\ reader'[r].after = reader[r].after
           /\ reader'[r].max \in changes \cup {reader[r].after}
<1>1. PICK m \in changes \cup {reader[r].after} :
        reader' = [reader EXCEPT ![r].pc = "items", ![r].max = m]
  BY DEF SnapshotMax
<1> DEFINE new == [reader[r] EXCEPT !.pc = "items", !.max = m]
<1>2. m \in Positions
  BY <1>1 DEF TypeOK, ReaderStates, Seqs, Positions
<1>3. /\ new \in ReaderStates /\ new.pc = "items" /\ new.cursor = reader[r].cursor
      /\ new.start = reader[r].start /\ new.after = reader[r].after /\ new.max = m
  BY <1>2 DEF TypeOK, ReaderStates, ReaderPC
<1>4. reader' = [reader EXCEPT ![r] = new]
  BY <1>1 DEF TypeOK
<1> HIDE DEF new
<1>5. QED
  BY <1>1, <1>3, <1>4, ReaderSet

LEMMA ItemsMoves ==
    ASSUME TypeOK, NEW r \in Readers, ReadItems(r)
    PROVE  /\ reader' \in [Readers -> ReaderStates] /\ OnlyReader(r)
           /\ reader'[r].pc = "finish" /\ reader'[r].cursor = reader[r].cursor
           /\ reader'[r].start = reader[r].start /\ reader'[r].after = reader[r].after
           /\ reader'[r].end \in Window(reader[r].after, reader[r].max) \cup {reader[r].after}
           /\ reader'[r].items =
                {s \in Window(reader[r].after, reader[r].max) : s <= reader'[r].end}
<1> DEFINE w == Window(reader[r].after, reader[r].max)
<1>1. PICK e \in w \cup {reader[r].after} :
        reader' = [reader EXCEPT ![r].pc = "finish", ![r].end = e,
                                 ![r].items = {s \in w : s <= e}]
  BY DEF ReadItems
<1> DEFINE new == [reader[r] EXCEPT !.pc = "finish", !.end = e, !.items = {s \in w : s <= e}]
<1>2. w \subseteq changes
  BY DEF Window
<1> HIDE DEF w
<1>3. e \in Positions /\ {s \in w : s <= e} \subseteq Seqs
  BY <1>1, <1>2 DEF TypeOK, ReaderStates, Seqs, Positions
<1>4. /\ new \in ReaderStates /\ new.pc = "finish" /\ new.cursor = reader[r].cursor
      /\ new.start = reader[r].start /\ new.after = reader[r].after
      /\ new.end = e /\ new.items = {s \in w : s <= e}
  BY <1>3 DEF TypeOK, ReaderStates, ReaderPC
<1>5. reader' = [reader EXCEPT ![r] = new]
  BY <1>1 DEF TypeOK
<1> HIDE DEF new
<1>6. QED
  BY <1>1, <1>4, <1>5, ReaderSet DEF w

LEMMA ReplyMoves ==
    ASSUME TypeOK, NEW r \in Readers, NEW items \in SUBSET Seqs,
           NEW next \in CursorIds \cup {NoCursor},
           reader' = [reader EXCEPT ![r] = Reply(r, items, next)]
    PROVE  /\ reader' \in [Readers -> ReaderStates] /\ OnlyReader(r)
           /\ reader'[r].pc = "replied" /\ reader'[r].cursor = reader[r].cursor
           /\ reader'[r].start = 0 /\ reader'[r].items = items /\ reader'[r].next = next
<1> DEFINE new == Reply(r, items, next)
<1>1. /\ IdleReader \in ReaderStates /\ IdleReader.start = 0 /\ "replied" \in ReaderPC
      /\ reader[r].cursor \in CursorIds \cup {NoCursor}
  BY EmptyValues DEF IdleReader, ReaderPC, TypeOK, ReaderStates
<1>2. /\ new \in ReaderStates /\ new.pc = "replied" /\ new.cursor = reader[r].cursor
      /\ new.start = 0 /\ new.items = items /\ new.next = next
  BY <1>1 DEF Reply, ReaderStates
<1> HIDE DEF new
<1>3. reader' = [reader EXCEPT ![r] = new]
  BY DEF new
<1>4. QED
  BY <1>2, <1>3, ReaderSet

\* The end of a read that built a page: the cursor read, if any, is materialised
\* and the next one is issued.
LEMMA FinishMoves ==
    ASSUME TypeOK, NEW r \in Readers, FinishRead(r)
    PROVE  /\ reader' \in [Readers -> ReaderStates] /\ OnlyReader(r)
           /\ reader'[r].pc = "replied" /\ reader'[r].cursor = reader[r].cursor
           /\ reader'[r].start = 0 /\ reader'[r].items = reader[r].items
           /\ reader'[r].next = issued + 1
           /\ issued' = issued + 1 /\ issued + 1 \in CursorIds
<1>1. issued + 1 \in CursorIds /\ reader[r].items \in SUBSET Seqs
  BY FeedAssumption DEF TypeOK, FinishRead, CursorLeft, CursorIds, ReaderStates
<1>2. reader' = [reader EXCEPT ![r] = Reply(r, reader[r].items, issued + 1)]
  BY DEF FinishRead
<1>3. issued' = issued + 1
  BY DEF FinishRead
<1>4. QED
  BY <1>1, <1>2, <1>3, ReplyMoves

LEMMA NewRowFields ==
    ASSUME TypeOK, NEW r \in Readers, reader[r].cursor \in CursorIds \cup {NoCursor}
    PROVE  /\ NewRow(r) \in CursorRows
           /\ NewRow(r).present /\ ~NewRow(r).materialized
           /\ NewRow(r).after_seq = reader[r].end
           /\ NewRow(r).expires_at = reader[r].start + CursorTTL
           /\ reader[r].cursor = NoCursor =>
                NewRow(r).origin = reader[r].after /\ NewRow(r).seen = reader[r].items
           /\ reader[r].cursor # NoCursor =>
                /\ NewRow(r).origin = cursors[reader[r].cursor].origin
                /\ NewRow(r).seen = reader[r].items \cup cursors[reader[r].cursor].seen
<1> DEFINE from == reader[r].cursor
           org == IF from = NoCursor THEN reader[r].after ELSE cursors[from].origin
           sn == reader[r].items \cup (IF from = NoCursor THEN {} ELSE cursors[from].seen)
           exp == reader[r].start + CursorTTL
           end == reader[r].end
           new == [EmptyRow EXCEPT !.present = TRUE, !.after_seq = end,
                     !.expires_at = exp, !.origin = org, !.seen = sn]
<1>1. NewRow(r) = new
  BY DEF NewRow
<1>2. /\ reader[r] \in ReaderStates
      /\ from # NoCursor => cursors[from] \in CursorRows
  BY DEF TypeOK
<1>3. org \in Positions /\ sn \in SUBSET Seqs
  <2>1. CASE from = NoCursor
    BY <1>2, <2>1 DEF ReaderStates
  <2>2. CASE from # NoCursor
    BY <1>2, <2>2 DEF ReaderStates, CursorRows
  <2>3. QED
    BY <2>1, <2>2
<1>4. exp \in Nat /\ end \in Positions
  BY <1>2, FeedAssumption DEF ReaderStates
<1>5. EmptyRow \in CursorRows /\ ~EmptyRow.materialized
  BY EmptyValues DEF EmptyRow
<1> HIDE DEF org, sn, exp, end, from
<1>6. /\ new \in CursorRows /\ new.present /\ ~new.materialized /\ new.after_seq = end
      /\ new.expires_at = exp /\ new.origin = org /\ new.seen = sn
  BY <1>3, <1>4, <1>5 DEF CursorRows
<1> HIDE DEF new
<1>7. QED
  BY <1>1, <1>6 DEF org, sn, exp, end, from

LEMMA MaterializedRowFields ==
    ASSUME TypeOK, NEW r \in Readers, reader[r].cursor \in CursorIds,
           NEW next \in CursorIds
    PROVE  /\ MaterializedRow(r, next) \in CursorRows
           /\ MaterializedRow(r, next).materialized
           /\ MaterializedRow(r, next).page_end_seq = reader[r].end
           /\ MaterializedRow(r, next).next = next
           /\ MaterializedRow(r, next).page = reader[r].items
           /\ MaterializedRow(r, next).present = cursors[reader[r].cursor].present
           /\ MaterializedRow(r, next).after_seq = cursors[reader[r].cursor].after_seq
           /\ MaterializedRow(r, next).expires_at = cursors[reader[r].cursor].expires_at
           /\ MaterializedRow(r, next).origin = cursors[reader[r].cursor].origin
           /\ MaterializedRow(r, next).seen = cursors[reader[r].cursor].seen
<1> DEFINE row == cursors[reader[r].cursor]
           lim == reader[r].limit
           end == reader[r].end
           items == reader[r].items
           new == [row EXCEPT !.materialized = TRUE, !.page_limit = lim,
                     !.page_end_seq = end, !.next = next, !.page = items]
<1>1. MaterializedRow(r, next) = new
  BY DEF MaterializedRow
<1>2. row \in CursorRows
  BY DEF TypeOK
<1>3. lim \in Limits \cup {0} /\ end \in Positions /\ items \in SUBSET Seqs
  BY DEF TypeOK, ReaderStates
<1> HIDE DEF row, lim, end, items
<1>4. /\ new \in CursorRows /\ new.materialized /\ new.page_end_seq = end
      /\ new.next = next /\ new.page = items /\ new.present = row.present
      /\ new.after_seq = row.after_seq /\ new.expires_at = row.expires_at
      /\ new.origin = row.origin /\ new.seen = row.seen
  BY <1>2, <1>3 DEF CursorRows
<1> HIDE DEF new
<1>5. QED
  BY <1>1, <1>4 DEF row, end, items

LEMMA FinishRows ==
    ASSUME TypeOK, NEW r \in Readers, FinishRead(r),
           reader[r].cursor \in 1..issued \cup {NoCursor}
    PROVE  /\ cursors' \in [CursorIds -> CursorRows]
           /\ cursors'[issued + 1] = NewRow(r)
           /\ reader[r].cursor # NoCursor =>
                cursors'[reader[r].cursor] = MaterializedRow(r, issued + 1)
           /\ \A c \in 1..issued : c # reader[r].cursor => cursors'[c] = cursors[c]
<1> DEFINE row(c) == CASE c = issued + 1 -> NewRow(r)
                       [] c = reader[r].cursor -> MaterializedRow(r, issued + 1)
                       [] OTHER -> cursors[c]
<1>1. cursors' = [c \in CursorIds |-> row(c)]
  BY DEF FinishRead
<1>2. /\ issued + 1 \in CursorIds /\ 1..issued \subseteq CursorIds
      /\ issued \in Nat /\ issued + 1 \notin 1..issued /\ NoCursor \notin CursorIds
  BY FinishMoves, FeedAssumption DEF TypeOK, CursorIds, NoCursor
<1>3. row(issued + 1) = NewRow(r)
  <2>1. reader[r].cursor # issued + 1
    BY <1>2
  <2>2. QED
    BY <2>1
<1>4. reader[r].cursor # NoCursor => row(reader[r].cursor) = MaterializedRow(r, issued + 1)
  BY <1>2
<1>5. \A c \in CursorIds : c # reader[r].cursor /\ c # issued + 1 => row(c) = cursors[c]
  OBVIOUS
<1>6. NewRow(r) \in CursorRows
  BY <1>2, NewRowFields
<1>7. reader[r].cursor # NoCursor => MaterializedRow(r, issued + 1) \in CursorRows
  BY <1>2, MaterializedRowFields
<1>8. \A c \in CursorIds : row(c) \in CursorRows
  BY <1>2, <1>3, <1>4, <1>5, <1>6, <1>7 DEF TypeOK
<1> HIDE DEF row
<1>9. QED
  BY <1>1, <1>2, <1>3, <1>4, <1>5, <1>8

-----------------------------------------------------------------------------
(* Steps that move the feed and leave cursors and readers alone *)

\* Settled positions stay settled, and what becomes visible lies above them.
FeedAdvances ==
    /\ \A p \in Positions : Settled(p) => Settled(p)'
    /\ \A s \in Ever' \ Ever : \A p \in Positions : Settled(p) => p < s
    /\ Ever \subseteq Ever' /\ purged \subseteq purged'

LEMMA WriterAdvances ==
    ASSUME TypeOK, Reserved, CommittedSettled, NEW w \in Writers, WriterStep(w)
    PROVE  FeedAdvances /\ Reserved' /\ CommittedSettled'
<1> USE FeedAssumption DEF TypeOK, WriterStates, Seqs, Positions
<1>1. CASE BeginWrite(w)
  BY <1>1 DEF BeginWrite, FeedAdvances, Reserved, CommittedSettled, Settled, Ever
<1>2. CASE AppendChanges(w)
  <2>1. PICK n \in BatchSizes :
          /\ nextSeq' = nextSeq + n
          /\ writer' = [writer EXCEPT ![w].pc = "appended",
                                      ![w].seqs = nextSeq..(nextSeq + n - 1)]
    BY <1>2 DEF AppendChanges
  <2>2. /\ writer'[w].pc = "appended" /\ writer'[w].seqs = nextSeq..(nextSeq + n - 1)
        /\ \A v \in Writers \ {w} : writer'[v] = writer[v]
    BY <2>1
  <2>3. nextSeq < nextSeq' /\ \A s \in writer'[w].seqs : nextSeq <= s /\ s < nextSeq'
    BY <2>1, <2>2
  <2>4. ASSUME NEW p \in Positions, Settled(p) PROVE Settled(p)'
    <3>1. p < nextSeq /\ \A v \in Writers : writer[v].pc = "appended" =>
                              \A s \in writer[v].seqs : p < s
      BY <2>4 DEF Settled
    <3>2. p < nextSeq' /\ \A s \in writer'[w].seqs : p < s
      <4>1. p \in Int /\ nextSeq \in Int /\ writer'[w].seqs \subseteq Int
        BY <2>2
      <4>2. QED
        BY <2>1, <2>3, <3>1, <4>1
    <3>3. QED
      BY <2>2, <3>1, <3>2 DEF Settled
  <2>5. \A v \in Writers \ {w} : writer[v].pc # "appended"
    BY <1>2 DEF AppendChanges, Reserved
  <2>6. Reserved'
    BY <1>2, <2>2, <2>3, <2>5 DEF AppendChanges, Reserved
  <2>7. Ever' = Ever /\ purged' = purged /\ watermark' = watermark
    BY <1>2 DEF AppendChanges, Ever
  <2>8. Ever \subseteq Positions
    BY DEF Ever
  <2>9. QED
    BY <2>4, <2>6, <2>7, <2>8 DEF FeedAdvances, CommittedSettled
<1>3. CASE CommitWrite(w)
  <2>1. /\ writer[w].pc = "appended" /\ writer'[w].pc = "done"
        /\ \A v \in Writers \ {w} : writer'[v] = writer[v]
    BY <1>3 DEF CommitWrite
  <2>2. \A v \in Writers \ {w} : writer'[v].pc # "appended"
    BY <2>1 DEF Reserved
  <2>3. \A p : Settled(p)' <=> p < nextSeq
    BY <1>3, <2>1, <2>2 DEF CommitWrite, Settled
  <2>4. Ever' = Ever \cup writer[w].seqs
    BY <1>3 DEF CommitWrite, Ever
  <2>5. Reserved'
    BY <2>1, <2>2 DEF Reserved
  <2>6. \A s \in writer[w].seqs : s < nextSeq
    BY <2>1 DEF Reserved
  <2>7. CommittedSettled'
    BY <1>3, <2>3, <2>4, <2>6 DEF CommitWrite, CommittedSettled, Settled
  <2>8. FeedAdvances
    BY <1>3, <2>1, <2>3, <2>4 DEF CommitWrite, FeedAdvances, Settled
  <2>9. QED
    BY <2>5, <2>7, <2>8
<1>4. CASE RollbackWrite(w)
  <2>1. /\ writer'[w].pc = "done"
        /\ \A v \in Writers \ {w} : writer'[v] = writer[v]
    BY <1>4 DEF RollbackWrite
  <2>2. \A p : Settled(p) => Settled(p)'
    BY <1>4, <2>1 DEF RollbackWrite, Settled
  <2>3. Ever' = Ever /\ purged' = purged /\ watermark' = watermark
    BY <1>4 DEF RollbackWrite, Ever
  <2>4. Reserved'
    BY <1>4, <2>1 DEF RollbackWrite, Reserved
  <2>5. QED
    BY <2>2, <2>3, <2>4 DEF FeedAdvances, CommittedSettled
<1>5. QED
  BY <1>1, <1>2, <1>3, <1>4 DEF WriterStep

LEMMA PurgeAdvances ==
    ASSUME TypeOK, Reserved, CommittedSettled, PurgeChanges
    PROVE  TypeOK' /\ FeedAdvances /\ Reserved' /\ CommittedSettled'
<1> DEFINE old == {s \in changes : changedAt[s] < now - Retention}
<1>1. /\ changes' = changes \ old /\ purged' = purged \cup old
      /\ watermark' \in old \cup {watermark}
      /\ UNCHANGED <<now, nextSeq, orderLock, writer, changedAt, cursors, issued, reader>>
  BY DEF PurgeChanges
<1>2. old \subseteq changes
  OBVIOUS
<1> HIDE DEF old
<1>3. Ever' = Ever /\ watermark' \in Ever \cup {watermark} /\ purged \subseteq purged'
  BY <1>1, <1>2 DEF Ever
<1>4. \A p : Settled(p)' <=> Settled(p)
  BY <1>1 DEF Settled
<1>5. TypeOK'
  BY <1>1, <1>2 DEF TypeOK, Seqs, Positions
<1>6. Reserved'
  BY <1>1 DEF Reserved
<1>7. CommittedSettled'
  BY <1>3, <1>4 DEF CommittedSettled
<1>8. FeedAdvances
  BY <1>3, <1>4 DEF FeedAdvances
<1>9. QED
  BY <1>5, <1>6, <1>7, <1>8

\* What is new lies above every settled position.
LEMMA NothingNew ==
    ASSUME FeedAdvances, Ever' \subseteq Nat, NEW b \in Positions, Settled(b),
           NEW s \in Ever', s <= b
    PROVE  s \in Ever
BY DEF FeedAdvances, Positions

\* A page stays the page.
LEMMA PageKept ==
    ASSUME FeedAdvances, Ever' \subseteq Nat, NEW items, NEW a \in Positions, NEW b \in Positions,
           Settled(b), Page(items, a, b)
    PROVE  /\ items \subseteq Ever'
           /\ \A s \in items : On(s, a, b)
           /\ \A s \in Ever' : On(s, a, b) => s \in items \cup purged'
<1>1. \A s \in Ever' : On(s, a, b) => s \in Ever
  BY NothingNew DEF On
<1>2. QED
  BY <1>1 DEF FeedAdvances, Page

LEMMA FeedStep ==
    ASSUME Inv, TypeOK', FeedAdvances, UNCHANGED <<now, cursors, issued, reader>>
    PROVE  /\ \A c \in 1..issued' : CursorOK(c)'
           /\ \A r \in Readers : ReaderOK(r)'
           /\ OneHolder'
<1>1. Ever' \subseteq Nat
  BY DEF TypeOK, Ever, Seqs
<1>2. \A c \in 1..issued : cursors[c] \in CursorRows
  BY FeedAssumption DEF Inv, TypeOK, CursorIds
<1>3. ASSUME NEW c \in 1..issued PROVE CursorOK(c)'
  <2>1. CursorOK(c) /\ cursors[c] \in CursorRows
    BY <1>2, <1>3 DEF Inv
  <2>2. /\ cursors[c].after_seq \in Positions /\ cursors[c].page_end_seq \in Positions
        /\ cursors[c].origin \in Positions
    BY <2>1 DEF CursorRows
  <2>3. Settled(cursors[c].after_seq)'
    BY <2>1, <2>2 DEF CursorOK, FeedAdvances, Settled
  <2>4. \A s \in Ever' : On(s, cursors[c].origin, cursors[c].after_seq)
                            => s \in cursors[c].seen \cup purged'
    <3>1. \A s \in Ever' : On(s, cursors[c].origin, cursors[c].after_seq) => s \in Ever
      BY <1>1, <2>1, <2>2, NothingNew DEF CursorOK, On
    <3>2. QED
      BY <2>1, <3>1 DEF CursorOK, FeedAdvances
  <2>5. cursors[c].materialized =>
          /\ Settled(cursors[c].page_end_seq)'
          /\ Page(cursors[c].page, cursors[c].after_seq, cursors[c].page_end_seq)'
    <3> SUFFICES ASSUME cursors[c].materialized
                 PROVE  /\ Settled(cursors[c].page_end_seq)'
                        /\ Page(cursors[c].page, cursors[c].after_seq, cursors[c].page_end_seq)'
      BY DEF CursorOK
    <3> DEFINE items == cursors[c].page
               a == cursors[c].after_seq
               b == cursors[c].page_end_seq
    <3>1. Settled(b) /\ Page(items, a, b) /\ a \in Positions /\ b \in Positions
      BY <2>1, <2>2 DEF CursorOK
    <3>2. items' = items /\ a' = a /\ b' = b
      OBVIOUS
    <3>3. Settled(b)'
      BY <3>1, <3>2 DEF FeedAdvances, Settled
    <3>4. Page(items, a, b)'
      <4>1. /\ items \subseteq Ever' /\ \A s \in items : On(s, a, b)
            /\ \A s \in Ever' : On(s, a, b) => s \in items \cup purged'
        BY <1>1, <3>1, PageKept
      <4> HIDE DEF items, a, b
      <4>2. QED
        BY <3>2, <4>1 DEF Page, On
    <3>5. QED
      BY <3>3, <3>4
  <2>6. QED
    BY <2>1, <2>3, <2>4, <2>5 DEF CursorOK
<1>4. ASSUME NEW r \in Readers PROVE ReaderOK(r)'
  <2>1. ReaderOK(r) /\ reader[r] \in ReaderStates
    BY <1>4 DEF Inv, TypeOK
  <2>2. reader[r].after \in Positions /\ reader[r].max \in Positions /\ reader[r].end \in Positions
    BY <2>1 DEF ReaderStates
  <2>3. \A p \in Positions : Settled(p) => Settled(p)'
    BY DEF FeedAdvances
  <2>4. Building(r) => Settled(reader[r].after)'
    BY <2>1, <2>2 DEF ReaderOK, FeedAdvances, Settled
  <2>5. reader[r].pc = "items" => Settled(reader[r].max)'
    BY <2>1, <2>2 DEF ReaderOK, FeedAdvances, Settled
  <2>6. reader[r].pc = "finish" =>
          /\ Settled(reader[r].end)'
          /\ Page(reader[r].items, reader[r].after, reader[r].end)'
    <3> SUFFICES ASSUME reader[r].pc = "finish"
                 PROVE  /\ Settled(reader[r].end)'
                        /\ Page(reader[r].items, reader[r].after, reader[r].end)'
      OBVIOUS
    <3>1. Settled(reader[r].end) /\ Page(reader[r].items, reader[r].after, reader[r].end)
      BY <2>1 DEF ReaderOK
    <3>2. Settled(reader[r].end)'
      BY <2>2, <3>1 DEF FeedAdvances, Settled
    <3>3. Page(reader[r].items, reader[r].after, reader[r].end)'
      <4> DEFINE items == reader[r].items
                 a == reader[r].after
                 b == reader[r].end
      <4>1. /\ items \subseteq Ever' /\ \A s \in items : On(s, a, b)
            /\ \A s \in Ever' : On(s, a, b) => s \in items \cup purged'
        BY <1>1, <2>2, <3>1, PageKept
      <4>2. items' = items /\ a' = a /\ b' = b
        OBVIOUS
      <4> HIDE DEF items, a, b
      <4>3. Page(items, a, b)'
        BY <4>1, <4>2 DEF Page, On
      <4>4. QED
        BY <4>3 DEF items, a, b
    <3>4. QED
      BY <3>2, <3>3
  <2>7. reader[r].pc = "replied" /\ FromCursor(r) =>
          reader[r].items \ purged' = cursors[reader[r].cursor].page \ purged'
    BY <2>1 DEF ReaderOK, FeedAdvances
  <2>8. QED
    BY <2>1, <2>4, <2>5, <2>6, <2>7 DEF ReaderOK, Building, FromCursor
<1>5. OneHolder'
  BY DEF Inv, OneHolder, Holds, FromCursor
<1>6. QED
  BY <1>3, <1>4, <1>5

-----------------------------------------------------------------------------
(* Steps of one handler that leave the feed and the cursors alone *)

LEMMA HandlerStep ==
    ASSUME Inv, NEW r \in Readers, UNCHANGED <<now, feedVars, cursors, issued>>,
           reader' \in [Readers -> ReaderStates], OnlyReader(r), ReaderOK(r)',
           Holds(r)' => \/ Holds(r) /\ reader'[r].cursor = reader[r].cursor
                        \/ ~CursorLocked(reader'[r].cursor)
    PROVE  Inv'
<1>1. \A p : Settled(p)' <=> Settled(p)
  BY DEF feedVars, Settled
<1>2. Ever' = Ever /\ purged' = purged
  BY DEF feedVars, Ever
<1>3. TypeOK' /\ Reserved' /\ CommittedSettled'
  <2>1. TypeOK /\ Reserved /\ CommittedSettled
    BY DEF Inv
  <2>2. TypeOK'
    BY <2>1 DEF TypeOK, feedVars
  <2>3. Reserved'
    BY <2>1 DEF Reserved, feedVars
  <2>4. CommittedSettled'
    BY <1>1, <1>2, <2>1 DEF CommittedSettled, feedVars
  <2>5. QED
    BY <2>2, <2>3, <2>4
<1>4. \A c \in 1..issued' : CursorOK(c)'
  BY <1>2 DEF Inv, CursorOK, Settled, Page, feedVars
<1>5. ASSUME NEW q \in Readers, q # r PROVE ReaderOK(q)'
  <2>1. ReaderOK(q) /\ reader'[q] = reader[q]
    BY <1>5 DEF Inv, OnlyReader
  <2>2. QED
    BY <1>2, <2>1 DEF ReaderOK, Building, FromCursor, Settled, Page, feedVars
<1>6. OneHolder'
  <2>1. \A q \in Readers \ {r} : reader'[q] = reader[q] /\ (Holds(q)' <=> Holds(q))
    BY DEF OnlyReader, Holds, FromCursor
  <2>2. ASSUME NEW q \in Readers \ {r}, Holds(q), Holds(r)' PROVE reader'[r].cursor # reader[q].cursor
    BY <2>2 DEF Inv, OneHolder, Holds, CursorLocked
  <2>3. QED
    BY <2>1, <2>2 DEF Inv, OneHolder
<1>7. QED
  BY <1>3, <1>4, <1>5, <1>6 DEF Inv

LEMMA InitialReadStep ==
    ASSUME Inv, NEW r \in Readers, BeginInitialRead(r)
    PROVE  Inv'
<1>1. /\ reader' \in [Readers -> ReaderStates] /\ OnlyReader(r)
      /\ reader'[r].pc = "max" /\ reader'[r].cursor = NoCursor
      /\ reader'[r].start = now /\ reader'[r].after = watermark
  BY InitialReadMoves DEF Inv
<1>2. UNCHANGED <<now, feedVars, cursors, issued>>
  BY DEF BeginInitialRead
<1>3. Settled(watermark)' /\ now \in Nat
  BY <1>2 DEF Inv, TypeOK, CommittedSettled, Settled, feedVars
<1>4. ReaderOK(r)'
  <2>1. Settled(reader[r].after)'
    BY <1>1, <1>2, <1>3 DEF Settled, feedVars
  <2>2. QED
    BY <1>1, <1>2, <1>3, <2>1 DEF ReaderOK, Building, FromCursor
<1>5. QED
  BY <1>1, <1>2, <1>4, HandlerStep DEF Holds, FromCursor

LEMMA CursorReadStep ==
    ASSUME Inv, NEW r \in Readers, BeginCursorRead(r)
    PROVE  Inv'
<1>1. /\ reader' \in [Readers -> ReaderStates] /\ OnlyReader(r)
      /\ reader'[r].pc = "locate" /\ reader'[r].cursor \in 1..issued
      /\ reader'[r].start = now
  BY CursorReadMoves DEF Inv
<1>2. UNCHANGED <<now, feedVars, cursors, issued>>
  BY DEF BeginCursorRead
<1>3. CursorOK(reader'[r].cursor) /\ now \in Nat
  BY <1>1 DEF Inv, TypeOK
<1>4. ReaderOK(r)'
  BY <1>1, <1>2, <1>3, FeedAssumption DEF ReaderOK, Building, FromCursor, CursorOK, NoCursor
<1>5. QED
  BY <1>1, <1>2, <1>4, HandlerStep DEF Holds

LEMMA BackToIdle ==
    ASSUME Inv, NEW r \in Readers, UNCHANGED <<now, feedVars, cursors, issued>>,
           reader' = [reader EXCEPT ![r] = IdleReader]
    PROVE  Inv'
<1>1. /\ reader' \in [Readers -> ReaderStates] /\ OnlyReader(r)
      /\ reader'[r].pc = "idle" /\ reader'[r].cursor = NoCursor /\ reader'[r].start = 0
  BY HandlerIdle DEF Inv
<1>2. now \in Nat
  BY DEF Inv, TypeOK
<1>3. ReaderOK(r)'
  BY <1>1, <1>2 DEF ReaderOK, Building, FromCursor
<1>4. QED
  BY <1>1, <1>3, HandlerStep DEF Holds

LEMMA LocateStep ==
    ASSUME Inv, NEW r \in Readers, LocateCursor(r)
    PROVE  Inv'
<1>1. UNCHANGED <<now, feedVars, cursors, issued>> /\ reader[r].pc = "locate"
  BY DEF LocateCursor
<1>2. CASE reader' = [reader EXCEPT ![r] = IdleReader]
  BY <1>1, <1>2, BackToIdle
<1>3. CASE reader' # [reader EXCEPT ![r] = IdleReader]
  <2> DEFINE c == reader[r].cursor
  <2>1. ~RejectCursor(r) /\ ~CursorLocked(c)
    BY <1>3 DEF LocateCursor
  <2>2. ReaderOK(r) /\ c \in 1..issued /\ c # NoCursor
    BY <1>1 DEF Inv, ReaderOK, FromCursor
  <2>3. /\ reader' \in [Readers -> ReaderStates] /\ OnlyReader(r)
        /\ reader'[r].pc = IF cursors[c].materialized THEN "reread" ELSE "max"
        /\ reader'[r].cursor = c /\ reader'[r].start = reader[r].start
        /\ reader'[r].after = cursors[c].after_seq
    BY <1>3, <2>1, <2>2, LocateMoves DEF Inv
  <2>4. CursorOK(c)
    BY <2>2 DEF Inv
  <2> HIDE DEF c
  <2>5. Settled(reader[r].after)'
    BY <1>1, <2>3, <2>4 DEF CursorOK, Settled, feedVars
  <2>6. /\ reader[r].start <= now
        /\ cursors[c].expires_at <= reader[r].start + CursorTTL
    BY <1>1, <2>2 DEF ReaderOK, FromCursor, c
  <2>7. ReaderOK(r)'
    <3>1. CASE cursors[c].materialized
      BY <1>1, <2>2, <2>3, <2>6, <3>1 DEF ReaderOK, Building, FromCursor
    <3>2. CASE ~cursors[c].materialized
      BY <1>1, <2>2, <2>3, <2>5, <2>6, <3>2 DEF ReaderOK, Building, FromCursor
    <3>3. QED
      BY <3>1, <3>2
  <2>8. QED
    BY <1>1, <2>1, <2>3, <2>7, HandlerStep
<1>4. QED
  BY <1>2, <1>3

LEMMA MaxStep ==
    ASSUME Inv, NEW r \in Readers, SnapshotMax(r)
    PROVE  Inv'
<1>1. UNCHANGED <<now, feedVars, cursors, issued>> /\ reader[r].pc = "max"
  BY DEF SnapshotMax
<1>2. /\ reader' \in [Readers -> ReaderStates] /\ OnlyReader(r)
      /\ reader'[r].pc = "items" /\ reader'[r].cursor = reader[r].cursor
      /\ reader'[r].start = reader[r].start /\ reader'[r].after = reader[r].after
      /\ reader'[r].max \in changes \cup {reader[r].after}
  BY MaxMoves DEF Inv
<1>3. ReaderOK(r) /\ Settled(reader[r].after)
  BY <1>1 DEF Inv, ReaderOK, Building
<1>4. Settled(reader'[r].max)
  BY <1>2, <1>3 DEF Inv, CommittedSettled, Ever
<1>5. ReaderOK(r)'
  BY <1>1, <1>2, <1>3, <1>4 DEF ReaderOK, Building, FromCursor, Settled, feedVars
<1>6. Holds(r)' => Holds(r) /\ reader'[r].cursor = reader[r].cursor
  BY <1>1, <1>2 DEF Holds, FromCursor
<1>7. QED
  BY <1>1, <1>2, <1>5, <1>6, HandlerStep

LEMMA ItemsStep ==
    ASSUME Inv, NEW r \in Readers, ReadItems(r)
    PROVE  Inv'
<1> DEFINE w == Window(reader[r].after, reader[r].max)
           a == reader[r].after
           e == reader'[r].end
<1>1. UNCHANGED <<now, feedVars, cursors, issued>> /\ reader[r].pc = "items"
  BY DEF ReadItems
<1>2. /\ reader' \in [Readers -> ReaderStates] /\ OnlyReader(r)
      /\ reader'[r].pc = "finish" /\ reader'[r].cursor = reader[r].cursor
      /\ reader'[r].start = reader[r].start /\ reader'[r].after = a
      /\ e \in w \cup {a}
      /\ reader'[r].items = {s \in w : s <= e}
  BY ItemsMoves DEF Inv
<1>3. ReaderOK(r) /\ Settled(a)
  BY <1>1 DEF Inv, ReaderOK, Building
<1>4. w \subseteq Ever /\ \A s \in w : a < s /\ s <= reader[r].max
  BY DEF Window, Ever
<1>5. Settled(e)
  BY <1>2, <1>3, <1>4 DEF Inv, CommittedSettled
<1>6. a \in Nat /\ reader[r].max \in Nat /\ Ever \subseteq Nat
  BY FeedAssumption DEF Inv, TypeOK, ReaderStates, Positions, Ever, Seqs
<1>7. Page(reader'[r].items, a, e)
  <2>1. \A s \in Ever : On(s, a, e) => s \in w \cup purged
    <3> SUFFICES ASSUME NEW s \in Ever, On(s, a, e), s \notin purged PROVE s \in w
      OBVIOUS
    <3>1. s \in changes /\ e \in w
      BY <1>2, <1>6 DEF Ever, On
    <3>2. s <= reader[r].max
      BY <1>4, <1>6, <3>1 DEF On
    <3>3. QED
      BY <3>1, <3>2 DEF Window, On
  <2> HIDE DEF w, a, e
  <2>2. QED
    BY <1>2, <1>4, <2>1 DEF Page, On
<1> HIDE DEF w, a, e
<1>8. Settled(reader[r].end)' /\ Page(reader[r].items, reader[r].after, reader[r].end)'
  <2>1. Settled(reader[r].end)'
    BY <1>1, <1>5 DEF Settled, feedVars, e
  <2>2. Ever' = Ever /\ purged' = purged
    BY <1>1 DEF Ever, feedVars
  <2>3. Page(reader[r].items, reader[r].after, reader[r].end)'
    BY <1>2, <1>7, <2>2 DEF Page, On, a, e
  <2>4. QED
    BY <2>1, <2>3
<1>9. ReaderOK(r)'
  <2>1. Settled(reader[r].after)'
    BY <1>1, <1>2, <1>3 DEF Settled, feedVars, a
  <2>2. QED
    BY <1>1, <1>2, <1>3, <1>8, <2>1 DEF ReaderOK, Building, FromCursor, a
<1>10. Holds(r)' => Holds(r) /\ reader'[r].cursor = reader[r].cursor
  BY <1>1, <1>2 DEF Holds, FromCursor
<1>11. QED
  BY <1>1, <1>2, <1>9, <1>10, HandlerStep

\* A materialised cursor answers with its page, less what was purged since.
LEMMA RereadStep ==
    ASSUME Inv, NEW r \in Readers, Reread(r)
    PROVE  Inv'
<1> DEFINE c == reader[r].cursor
           w == Window(cursors[c].after_seq, cursors[c].page_end_seq)
           next == cursors[c].next
<1>1. UNCHANGED <<now, feedVars, cursors, issued>> /\ reader[r].pc = "reread"
  BY DEF Reread
<1>2. /\ ReaderOK(r) /\ c # NoCursor /\ c \in 1..issued /\ cursors[c].materialized
  BY <1>1 DEF Inv, ReaderOK, FromCursor
<1>3. CursorOK(c) /\ cursors[c] \in CursorRows
  BY <1>2, FeedAssumption DEF Inv, TypeOK, CursorIds
<1>4. w \in SUBSET Seqs /\ next \in CursorIds \cup {NoCursor}
  BY <1>3 DEF Inv, TypeOK, Window, CursorRows
<1>5. reader' = [reader EXCEPT ![r] = Reply(r, w, next)]
  BY DEF Reread
<1>6. w \ purged = cursors[c].page \ purged
  BY <1>2, <1>3 DEF CursorOK, Page, On, Window, Ever
<1> HIDE DEF c, w, next
<1>7. /\ reader' \in [Readers -> ReaderStates] /\ OnlyReader(r)
      /\ reader'[r].pc = "replied" /\ reader'[r].cursor = reader[r].cursor
      /\ reader'[r].start = 0 /\ reader'[r].items = w /\ reader'[r].next = next
  BY <1>4, <1>5, ReplyMoves DEF Inv
<1>8. reader'[r].cursor = c /\ next = cursors[c].next /\ now \in Nat
  BY <1>7 DEF c, next, Inv, TypeOK
<1>9. ReaderOK(r)'
  BY <1>1, <1>2, <1>6, <1>7, <1>8 DEF ReaderOK, Building, FromCursor, feedVars
<1>10. QED
  BY <1>1, <1>7, <1>9, HandlerStep DEF Holds

-----------------------------------------------------------------------------
(* The end of a page, the purge of cursors, time *)

LEMMA FinishStep ==
    ASSUME Inv, NEW r \in Readers, FinishRead(r)
    PROVE  Inv'
<1> DEFINE from == reader[r].cursor
<1>0. PICK n \in Nat : n = issued + 1
  BY DEF Inv, TypeOK
<1>1. UNCHANGED <<now, feedVars>> /\ reader[r].pc = "finish"
  BY DEF FinishRead
<1>2. /\ TypeOK /\ ReaderOK(r) /\ reader[r] \in ReaderStates
      /\ from \in 1..issued \cup {NoCursor} /\ issued \in Nat
  BY DEF Inv, TypeOK, ReaderOK, FromCursor
<1>3. /\ reader' \in [Readers -> ReaderStates] /\ OnlyReader(r)
      /\ reader'[r].pc = "replied" /\ reader'[r].cursor = from
      /\ reader'[r].start = 0 /\ reader'[r].items = reader[r].items
      /\ reader'[r].next = n /\ issued' = n /\ n \in CursorIds
  BY <1>0, <1>2, FinishMoves
<1>4. /\ cursors' \in [CursorIds -> CursorRows]
      /\ cursors'[n] = NewRow(r)
      /\ from # NoCursor => cursors'[from] = MaterializedRow(r, n)
      /\ \A c \in 1..issued : c # from => cursors'[c] = cursors[c]
  BY <1>0, <1>2, FinishRows
<1>5. 1..issued \subseteq CursorIds /\ NoCursor \notin 1..issued
  BY <1>0, <1>2, <1>3, FeedAssumption DEF CursorIds, NoCursor
<1>6. from \in CursorIds \cup {NoCursor}
  BY <1>2, <1>5
<1>7. /\ cursors'[n].present /\ ~cursors'[n].materialized
      /\ cursors'[n].after_seq = reader[r].end
      /\ cursors'[n].expires_at = reader[r].start + CursorTTL
      /\ from = NoCursor =>
           cursors'[n].origin = reader[r].after /\ cursors'[n].seen = reader[r].items
      /\ from # NoCursor =>
           /\ cursors'[n].origin = cursors[from].origin
           /\ cursors'[n].seen = reader[r].items \cup cursors[from].seen
  BY <1>2, <1>4, <1>6, NewRowFields
<1>8. from # NoCursor =>
        /\ cursors'[from].materialized
        /\ cursors'[from].page_end_seq = reader[r].end
        /\ cursors'[from].next = n
        /\ cursors'[from].page = reader[r].items
        /\ cursors'[from].present = cursors[from].present
        /\ cursors'[from].after_seq = cursors[from].after_seq
        /\ cursors'[from].expires_at = cursors[from].expires_at
        /\ cursors'[from].origin = cursors[from].origin
        /\ cursors'[from].seen = cursors[from].seen
  BY <1>2, <1>3, <1>4, <1>6, MaterializedRowFields
<1>9. /\ Settled(reader[r].after) /\ Settled(reader[r].end)
      /\ Page(reader[r].items, reader[r].after, reader[r].end)
      /\ reader[r].start <= now
      /\ from # NoCursor => /\ reader[r].after = cursors[from].after_seq
                            /\ ~cursors[from].materialized
                            /\ cursors[from].expires_at <= reader[r].start + CursorTTL
  BY <1>1, <1>2 DEF ReaderOK, Building, FromCursor
<1>10. Ever' = Ever /\ purged' = purged /\ now' = now
  BY <1>1 DEF Ever, feedVars
<1>11. \A c \in 1..issued : CursorOK(c) /\ cursors[c] \in CursorRows
  BY <1>5 DEF Inv, TypeOK
<1>12. \A c \in 1..issued : /\ cursors'[c].present = cursors[c].present
                            /\ cursors'[c].expires_at = cursors[c].expires_at
  BY <1>4, <1>5, <1>8
<1> HIDE DEF from
<1>13. TypeOK' /\ Reserved' /\ CommittedSettled'
  <2>1. TypeOK'
    BY <1>0, <1>1, <1>2, <1>3, <1>4, FeedAssumption DEF TypeOK, feedVars, CursorIds
  <2>2. Reserved'
    BY <1>1 DEF Inv, Reserved, feedVars
  <2>3. CommittedSettled'
    BY <1>1, <1>10 DEF Inv, CommittedSettled, Settled, feedVars
  <2>4. QED
    BY <2>1, <2>2, <2>3
<1>14. CursorOK(n)'
  <2>1. Settled(cursors[n].after_seq)'
    BY <1>1, <1>3, <1>7, <1>9 DEF Settled, feedVars
  <2>2. cursors'[n].expires_at <= now + CursorTTL
    BY <1>2, <1>7, <1>9, FeedAssumption DEF TypeOK, ReaderStates
  <2>3. \A s \in Ever : On(s, cursors'[n].origin, cursors'[n].after_seq)
                           => s \in cursors'[n].seen \cup purged
    <3> SUFFICES ASSUME NEW s \in Ever, On(s, cursors'[n].origin, reader[r].end)
                 PROVE  s \in cursors'[n].seen \cup purged
      BY <1>7
    <3>1. CASE from = NoCursor
      BY <1>7, <1>9, <3>1 DEF Page
    <3>2. CASE from # NoCursor
      <4>1. CursorOK(from) /\ cursors[from] \in CursorRows /\ s \in Int
        BY <1>2, <1>11, <3>2 DEF TypeOK, Ever, Seqs
      <4>2. cursors[from].after_seq \in Int
        BY <4>1 DEF CursorRows, Positions
      <4>3. CASE s <= cursors[from].after_seq
        BY <1>7, <3>2, <4>1, <4>3 DEF CursorOK, On
      <4>4. CASE cursors[from].after_seq < s
        BY <1>7, <1>9, <3>2, <4>4 DEF Page, On
      <4>5. QED
        BY <4>1, <4>2, <4>3, <4>4
    <3>3. QED
      BY <3>1, <3>2
  <2>4. QED
    BY <1>7, <1>10, <2>1, <2>2, <2>3 DEF CursorOK, On
<1>15. ASSUME NEW c \in 1..issued PROVE CursorOK(c)'
  <2>1. CursorOK(c) /\ c \in 1..n /\ n \in 1..n /\ 1..issued \subseteq 1..n
    BY <1>0, <1>2, <1>11
  <2>2. CASE c = from
    <3>1. from # NoCursor
      BY <1>5, <2>2
    <3>2. Settled(cursors[c].after_seq)' /\ Settled(cursors[c].page_end_seq)'
      BY <1>1, <1>8, <1>9, <2>1, <2>2, <3>1 DEF CursorOK, Settled, feedVars
    <3>3. Page(cursors[c].page, cursors[c].after_seq, cursors[c].page_end_seq)'
      BY <1>8, <1>9, <1>10, <2>2, <3>1 DEF Page, On
    <3>4. /\ cursors'[c].next = n /\ cursors'[c].expires_at <= cursors'[n].expires_at
          /\ cursors'[n].present
      BY <1>7, <1>8, <1>9, <2>2, <3>1
    <3>5. /\ cursors'[c].after_seq = cursors[c].after_seq
          /\ cursors'[c].origin = cursors[c].origin /\ cursors'[c].seen = cursors[c].seen
          /\ cursors'[c].expires_at = cursors[c].expires_at
      BY <1>8, <2>2, <3>1
    <3>6. QED
      BY <1>3, <1>10, <2>1, <3>2, <3>3, <3>4, <3>5 DEF CursorOK, On
  <2>3. CASE c # from
    <3>1. cursors'[c] = cursors[c]
      BY <1>4, <2>3
    <3>2. Settled(cursors[c].after_seq)'
      BY <1>1, <2>1, <3>1 DEF CursorOK, Settled, feedVars
    <3>3. cursors[c].materialized =>
            /\ Settled(cursors[c].page_end_seq)'
            /\ Page(cursors[c].page, cursors[c].after_seq, cursors[c].page_end_seq)'
      BY <1>1, <1>10, <2>1, <3>1 DEF CursorOK, Settled, Page, On, feedVars
    <3>4. cursors[c].materialized =>
            /\ cursors[c].next \in 1..n
            /\ cursors[c].expires_at <= cursors'[cursors[c].next].expires_at
            /\ cursors[c].present => cursors'[cursors[c].next].present
      BY <1>12, <2>1 DEF CursorOK
    <3>5. QED
      BY <1>3, <1>10, <2>1, <3>1, <3>2, <3>3, <3>4 DEF CursorOK, On
  <2>4. QED
    BY <2>2, <2>3
<1>16. ReaderOK(r)'
  <2>1. from # NoCursor => from \in 1..n
    BY <1>0, <1>2
  <2>2. now \in Nat
    BY <1>2 DEF TypeOK
  <2>3. QED
    BY <1>3, <1>8, <1>10, <2>1, <2>2 DEF ReaderOK, Building, FromCursor
<1>17. ASSUME NEW q \in Readers, q # r PROVE ReaderOK(q)'
  <2>1. ReaderOK(q) /\ reader'[q] = reader[q]
    BY <1>3, <1>17 DEF Inv, OnlyReader
  <2>2. FromCursor(q) => reader[q].cursor \in 1..issued'
    BY <1>0, <1>2, <1>3, <2>1 DEF ReaderOK
  <2>3. CASE FromCursor(q) /\ reader[q].cursor = from
    <3>1. ~Holds(q)
      BY <1>1, <1>17, <2>3 DEF Inv, OneHolder, Holds, FromCursor, from
    <3>2. reader[q].pc # "replied"
      BY <1>9, <2>1, <2>3 DEF ReaderOK, FromCursor
    <3>3. cursors'[reader[q].cursor].expires_at = cursors[reader[q].cursor].expires_at
      BY <1>12, <2>1, <2>3 DEF ReaderOK
    <3>4. QED
      BY <1>10, <2>1, <2>2, <2>3, <3>1, <3>2, <3>3 DEF ReaderOK, Holds, Building, FromCursor
  <2>4. CASE ~(FromCursor(q) /\ reader[q].cursor = from)
    <3>1. FromCursor(q) => cursors'[reader[q].cursor] = cursors[reader[q].cursor]
      BY <1>4, <2>1, <2>4 DEF ReaderOK
    <3>2. Building(q) => Settled(reader[q].after)'
      BY <1>1, <2>1 DEF ReaderOK, Settled, feedVars
    <3>3. reader[q].pc = "items" => Settled(reader[q].max)'
      BY <1>1, <2>1 DEF ReaderOK, Settled, feedVars
    <3>4. reader[q].pc = "finish" =>
            /\ Settled(reader[q].end)'
            /\ Page(reader[q].items, reader[q].after, reader[q].end)'
      BY <1>1, <1>10, <2>1 DEF ReaderOK, Settled, Page, On, feedVars
    <3>5. QED
      BY <1>10, <2>1, <2>2, <3>1, <3>2, <3>3, <3>4 DEF ReaderOK, Building, FromCursor
  <2>5. QED
    BY <2>3, <2>4
<1>18. OneHolder'
  <2>1. \A q \in Readers \ {r} : reader'[q] = reader[q] /\ (Holds(q)' <=> Holds(q))
    BY <1>3 DEF OnlyReader, Holds, FromCursor
  <2>2. ~Holds(r)'
    BY <1>3 DEF Holds
  <2>3. QED
    BY <2>1, <2>2 DEF Inv, OneHolder
<1>19. \A c \in 1..issued' : CursorOK(c)'
  <2>1. 1..issued' = 1..issued \cup {n}
    BY <1>0, <1>2, <1>3
  <2>2. QED
    BY <1>14, <1>15, <2>1
<1>20. QED
  BY <1>13, <1>16, <1>17, <1>18, <1>19 DEF Inv

LEMMA PurgeCursorsStep ==
    ASSUME Inv, PurgeChangeCursors
    PROVE  Inv'
<1>1. UNCHANGED <<now, feedVars, issued, reader>>
  BY DEF PurgeChangeCursors
<1>2. TypeOK /\ 1..issued \subseteq CursorIds
  BY FeedAssumption DEF Inv, TypeOK, CursorIds
<1>3. ASSUME NEW c \in CursorIds
      PROVE  /\ cursors'[c] \in CursorRows
             /\ cursors'[c].present <=> cursors[c].present /\ c \notin ExpiredCursors
             /\ cursors'[c].materialized = cursors[c].materialized
             /\ cursors'[c].page_end_seq = cursors[c].page_end_seq
             /\ cursors'[c].next = cursors[c].next
             /\ cursors'[c].page = cursors[c].page
             /\ cursors'[c].after_seq = cursors[c].after_seq
             /\ cursors'[c].expires_at = cursors[c].expires_at
             /\ cursors'[c].origin = cursors[c].origin
             /\ cursors'[c].seen = cursors[c].seen
  <2>1. cursors[c] \in CursorRows
    BY <1>2 DEF TypeOK
  <2>2. CASE c \in ExpiredCursors
    <3>1. cursors'[c] = [cursors[c] EXCEPT !.present = FALSE]
      BY <2>2 DEF PurgeChangeCursors
    <3>2. QED
      BY <2>1, <2>2, <3>1 DEF CursorRows
  <2>3. CASE c \notin ExpiredCursors
    <3>1. cursors'[c] = cursors[c]
      BY <2>3 DEF PurgeChangeCursors
    <3>2. QED
      BY <2>1, <2>3, <3>1
  <2>4. QED
    BY <2>2, <2>3
<1>4. Ever' = Ever /\ purged' = purged /\ now' = now /\ issued' = issued
  BY <1>1 DEF Ever, feedVars
<1>5. TypeOK'
  <2>1. cursors' \in [CursorIds -> CursorRows]
    BY <1>3 DEF PurgeChangeCursors
  <2>2. QED
    BY <1>1, <1>2, <2>1 DEF TypeOK, feedVars
<1>6. Reserved' /\ CommittedSettled'
  BY <1>1, <1>4 DEF Inv, Reserved, CommittedSettled, Settled, feedVars
<1>7. ASSUME NEW c \in 1..issued PROVE CursorOK(c)'
  <2>1. CursorOK(c) /\ c \in CursorIds /\ cursors[c] \in CursorRows
    BY <1>2, <1>7 DEF Inv, TypeOK
  <2>2. /\ cursors'[c].page_end_seq = cursors[c].page_end_seq
        /\ cursors'[c].next = cursors[c].next /\ cursors'[c].page = cursors[c].page
        /\ cursors'[c].after_seq = cursors[c].after_seq
        /\ cursors'[c].expires_at = cursors[c].expires_at
        /\ cursors'[c].origin = cursors[c].origin /\ cursors'[c].seen = cursors[c].seen
        /\ cursors'[c].materialized = cursors[c].materialized
    BY <1>3, <2>1
  <2>3. cursors[c].materialized =>
          /\ Settled(cursors[c].page_end_seq)'
          /\ Page(cursors[c].page, cursors[c].after_seq, cursors[c].page_end_seq)'
    BY <1>1, <1>4, <2>1, <2>2 DEF CursorOK, Settled, Page, On, feedVars
  <2>4. Settled(cursors[c].after_seq)'
    BY <1>1, <2>1, <2>2 DEF CursorOK, Settled, feedVars
  <2>5. cursors[c].materialized =>
          /\ cursors[c].next \in 1..issued
          /\ cursors'[cursors[c].next].expires_at = cursors[cursors[c].next].expires_at
          /\ cursors'[c].present => cursors'[cursors[c].next].present
    <3> SUFFICES ASSUME cursors[c].materialized
                 PROVE  /\ cursors[c].next \in 1..issued
                        /\ cursors'[cursors[c].next].expires_at
                             = cursors[cursors[c].next].expires_at
                        /\ cursors'[c].present => cursors'[cursors[c].next].present
      OBVIOUS
    <3> DEFINE next == cursors[c].next
    <3>1. /\ next \in 1..issued /\ next \in CursorIds
          /\ cursors[c].expires_at <= cursors[next].expires_at
          /\ cursors[c].present => cursors[next].present
      BY <1>2, <2>1 DEF CursorOK
    <3>2. /\ cursors'[next].expires_at = cursors[next].expires_at
          /\ cursors'[next].present <=> cursors[next].present /\ next \notin ExpiredCursors
      BY <1>3, <3>1
    <3>3. /\ cursors[c].expires_at \in Nat /\ cursors[next].expires_at \in Nat /\ now \in Nat
      BY <1>2, <2>1, <3>1 DEF TypeOK, CursorRows
    <3>4. cursors'[c].present => cursors[c].present /\ c \notin ExpiredCursors
      BY <1>3, <2>1
    <3> HIDE DEF next
    <3>5. cursors'[c].present => next \notin ExpiredCursors
      BY <1>7, <3>1, <3>3, <3>4 DEF ExpiredCursors
    <3>6. cursors'[c].present => cursors'[next].present
      BY <3>1, <3>2, <3>4, <3>5
    <3>7. QED
      BY <3>1, <3>2, <3>6 DEF next
  <2>6. QED
    BY <1>4, <2>1, <2>2, <2>3, <2>4, <2>5 DEF CursorOK, On
<1>8. ASSUME NEW r \in Readers PROVE ReaderOK(r)'
  <2>1. ReaderOK(r) /\ reader'[r] = reader[r]
    BY <1>1, <1>8 DEF Inv
  <2>2. FromCursor(r) => reader[r].cursor \in CursorIds
    BY <1>2, <2>1 DEF ReaderOK
  <2>3. Building(r) => Settled(reader[r].after)'
    BY <1>1, <2>1 DEF ReaderOK, Settled, feedVars
  <2>4. reader[r].pc = "items" => Settled(reader[r].max)'
    BY <1>1, <2>1 DEF ReaderOK, Settled, feedVars
  <2>5. reader[r].pc = "finish" =>
          /\ Settled(reader[r].end)'
          /\ Page(reader[r].items, reader[r].after, reader[r].end)'
    BY <1>1, <1>4, <2>1 DEF ReaderOK, Settled, Page, On, feedVars
  <2>6. FromCursor(r) =>
          LET old == cursors[reader[r].cursor]
              new == cursors'[reader[r].cursor] IN
          /\ new.materialized = old.materialized /\ new.expires_at = old.expires_at
          /\ new.after_seq = old.after_seq /\ new.next = old.next /\ new.page = old.page
    BY <1>3, <2>2
  <2>7. QED
    BY <1>4, <2>1, <2>3, <2>4, <2>5, <2>6 DEF ReaderOK, Building, FromCursor
<1>9. OneHolder'
  BY <1>1 DEF Inv, OneHolder, Holds, FromCursor
<1>10. QED
  BY <1>4, <1>5, <1>6, <1>7, <1>8, <1>9 DEF Inv

\* Time passes, or nothing does; nothing else moves.
LEMMA TimeStep ==
    ASSUME Inv, now' \in Nat, now <= now', UNCHANGED <<feedVars, cursors, issued, reader>>
    PROVE  Inv'
<1>1. \A p : Settled(p)' <=> Settled(p)
  BY DEF feedVars, Settled
<1>2. Ever' = Ever /\ purged' = purged
  BY DEF feedVars, Ever
<1>3. TypeOK' /\ Reserved' /\ CommittedSettled'
  <2>1. TypeOK'
    BY DEF Inv, TypeOK, feedVars
  <2>2. Reserved'
    BY DEF Inv, Reserved, feedVars
  <2>3. CommittedSettled'
    BY <1>1, <1>2 DEF Inv, CommittedSettled, feedVars
  <2>4. QED
    BY <2>1, <2>2, <2>3
<1>4. ASSUME NEW c \in 1..issued PROVE CursorOK(c)'
  <2>1. CursorOK(c)
    BY <1>4 DEF Inv
  <2>2. cursors[c].expires_at <= now' + CursorTTL
    <3>1. cursors[c] \in CursorRows /\ now \in Nat
      BY <1>4, FeedAssumption DEF Inv, TypeOK, CursorIds
    <3>2. QED
      BY <2>1, <3>1, FeedAssumption DEF CursorOK, CursorRows
  <2>3. QED
    BY <1>2, <2>1, <2>2 DEF CursorOK, Settled, Page, On, feedVars
<1>5. ASSUME NEW r \in Readers PROVE ReaderOK(r)'
  <2>1. ReaderOK(r) /\ reader[r].start <= now'
    BY <1>5 DEF Inv, TypeOK, ReaderStates, ReaderOK
  <2>2. QED
    BY <1>2, <2>1 DEF ReaderOK, Building, FromCursor, Settled, Page, On, feedVars
<1>6. OneHolder'
  BY DEF Inv, OneHolder, Holds, FromCursor
<1>7. QED
  BY <1>3, <1>4, <1>5, <1>6 DEF Inv

-----------------------------------------------------------------------------
(* Theorems *)

\* The inductive invariant holds in every behaviour: every position a handler
\* or a cursor holds is settled.
THEOREM Invariance == Spec => []Inv
<1>1. Init => Inv
  <2> SUFFICES ASSUME Init PROVE Inv
    OBVIOUS
  <2>1. IdleReader.pc = "idle" /\ IdleReader.cursor = NoCursor /\ IdleReader.start = 0
    BY DEF IdleReader
  <2>2. TypeOK
    BY EmptyValues, FeedAssumption DEF Init, TypeOK, WriterStates, Seqs, Positions
  <2>3. Reserved /\ CommittedSettled /\ OneHolder
    BY <2>1 DEF Init, Reserved, CommittedSettled, Settled, Ever, OneHolder, Holds
  <2>4. \A c \in 1..issued : CursorOK(c)
    BY DEF Init
  <2>5. \A r \in Readers : ReaderOK(r)
    BY <2>1 DEF Init, ReaderOK, Building, FromCursor
  <2>6. QED
    BY <2>2, <2>3, <2>4, <2>5 DEF Inv
<1>2. Inv /\ [Next]_vars => Inv'
  <2> SUFFICES ASSUME Inv, [Next]_vars PROVE Inv'
    OBVIOUS
  <2>1. TypeOK /\ Reserved /\ CommittedSettled
    BY DEF Inv
  <2>2. ASSUME NEW w \in Writers, WriterStep(w) PROVE Inv'
    <3>1. TypeOK' /\ FeedAdvances /\ Reserved' /\ CommittedSettled'
      BY <2>1, <2>2, TypesWriter, WriterAdvances
    <3>2. UNCHANGED <<now, cursors, issued, reader>>
      BY <2>2 DEF WriterStep, BeginWrite, AppendChanges, CommitWrite, RollbackWrite
    <3>3. QED
      BY <3>1, <3>2, FeedStep DEF Inv
  <2>3. ASSUME NEW r \in Readers, ReaderStep(r) PROVE Inv'
    <3>1. CASE EndRead(r)
      BY <3>1, BackToIdle DEF EndRead
    <3>2. QED
      BY <2>3, <3>1, InitialReadStep, CursorReadStep, LocateStep, MaxStep, ItemsStep,
         FinishStep, RereadStep DEF ReaderStep
  <2>4. CASE PurgeChanges
    <3>1. UNCHANGED <<now, cursors, issued, reader>>
      BY <2>4 DEF PurgeChanges
    <3>2. QED
      BY <2>1, <2>4, <3>1, PurgeAdvances, FeedStep DEF Inv
  <2>5. CASE PurgeChangeCursors
    BY <2>5, PurgeCursorsStep
  <2>6. CASE Tick
    <3>1. now' \in Nat /\ now <= now' /\ UNCHANGED <<feedVars, cursors, issued, reader>>
      BY <2>1, <2>6 DEF Tick, TypeOK
    <3>2. QED
      BY <3>1, TimeStep
  <2>7. CASE UNCHANGED vars
    <3>1. now' \in Nat /\ now <= now' /\ UNCHANGED <<feedVars, cursors, issued, reader>>
      BY <2>1, <2>7 DEF vars, feedVars, TypeOK
    <3>2. QED
      BY <3>1, TimeStep
  <2>8. QED
    BY <2>2, <2>3, <2>4, <2>5, <2>6, <2>7 DEF Next
<1>3. QED
  BY <1>1, <1>2, PTL DEF Spec

\* Every variable keeps its type.
THEOREM TypeCorrect == Spec => []TypeOK
<1>1. Inv => TypeOK
  BY DEF Inv
<1>2. QED
  BY <1>1, Invariance, PTL

\* append_changes under the advisory lock: a Change becomes visible only after
\* every smaller seq that ever will.
THEOREM CommitOrder == Spec => ChangesCommitInOrder
<1> DEFINE Later == \A s \in Ever' \ Ever : \A t \in Ever : t < s
<1>1. Inv /\ [Next]_vars => [Later]_vars
  <2> SUFFICES ASSUME Inv, Next PROVE Later
    BY DEF vars
  <2>1. TypeOK /\ Reserved /\ CommittedSettled
    BY DEF Inv
  <2>2. CASE FeedAdvances
    <3>1. \A t \in Ever : Settled(t) /\ t \in Positions
      BY <2>1, FeedAssumption DEF CommittedSettled, TypeOK, Ever, Seqs, Positions
    <3>2. QED
      BY <2>2, <3>1 DEF FeedAdvances
  <2>3. CASE Ever' = Ever
    BY <2>3
  <2>4. ASSUME NEW w \in Writers, WriterStep(w) PROVE FeedAdvances
    BY <2>1, <2>4, WriterAdvances
  <2>5. ASSUME PurgeChanges PROVE FeedAdvances
    BY <2>1, <2>5, PurgeAdvances
  <2>6. ASSUME NEW r \in Readers, ReaderStep(r) PROVE Ever' = Ever
    <3>1. UNCHANGED feedVars
      BY <2>6 DEF ReaderStep, BeginInitialRead, BeginCursorRead, LocateCursor, SnapshotMax,
         ReadItems, FinishRead, Reread, EndRead
    <3>2. QED
      BY <3>1 DEF feedVars, Ever
  <2>7. ASSUME PurgeChangeCursors \/ Tick PROVE Ever' = Ever
    BY <2>7 DEF PurgeChangeCursors, Tick, feedVars, Ever
  <2>8. QED
    BY <2>2, <2>3, <2>4, <2>5, <2>6, <2>7 DEF Next
<1>2. QED
  BY <1>1, Invariance, PTL DEF Spec, ChangesCommitInOrder

\* Following next_cursor skips no Change that retention has not deleted.
THEOREM NothingSkipped == Spec => []NoChangeSkipped
<1>1. Inv => NoChangeSkipped
  BY DEF Inv, CursorOK, On, NoChangeSkipped
<1>2. QED
  BY <1>1, Invariance, PTL

\* Reading a cursor again gives its page and its next cursor again.
THEOREM RereadsAgree == Spec => []StableReread
<1>1. Inv => StableReread
  BY DEF Inv, ReaderOK, FromCursor, StableReread
<1>2. QED
  BY <1>1, Invariance, PTL

\* A page that can be read again has a continuation that can be read.
THEOREM ContinuationLives == Spec => []NextCursorLives
<1>1. Inv => NextCursorLives
  BY DEF Inv, CursorOK, NextCursorLives
<1>2. QED
  BY <1>1, Invariance, PTL

=============================================================================
