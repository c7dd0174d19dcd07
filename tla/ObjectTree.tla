----------------------------- MODULE ObjectTree -----------------------------
(***************************************************************************)
(* The object tree under concurrent mutations: create_object, patch_object *)
(* (rename, move, metadata) and delete_object as PostgreSQL transactions   *)
(* at READ COMMITTED, statement by statement.                              *)
(*                                                                         *)
(* A statement sees the committed rows plus the transaction's own writes.  *)
(* Row locks (FOR SHARE, FOR UPDATE) and the advisory Change-order lock    *)
(* are held to the end of the transaction.  A statement whose lock is held *)
(* by another transaction waits: its action is not enabled.                *)
(***************************************************************************)
EXTENDS Integers, Sequences, FiniteSets, Metadata

CONSTANTS
    Ids,                       \* object ids other than the root, positive
    Tx,                        \* mutation transactions, each runs once
    Requests,                  \* what a client may ask for
    InitialRows,               \* the committed rows at the start
    Names, Metas,              \* names and metadata documents
    Patches,                   \* metadata patches
    DESCENDANT_LOCK_ATTEMPTS,  \* bound of the lock-then-verify loop
    Keep,                      \* a PATCH field that is absent
    None                       \* no holder, no request

Root == 0
AllIds == Ids \cup {Root}
NoParent == -1

Rows ==
    [exists: BOOLEAN, kind: {"file", "folder"}, parent: AllIds \cup {NoParent},
     name: Names, meta: Metas, deleted: BOOLEAN, revision: Nat]

RequestType ==
    [op: {"create", "patch", "delete"}, id: AllIds,
     parent: AllIds \cup {Keep}, name: Names \cup {Keep},
     meta: Metas \cup Patches \cup {Keep},
     kind: {"file", "folder"}, recursive: BOOLEAN, if_match: Nat \cup {None}]

\* A Change; row is history, the object as that revision left it, and tx the
\* request that emitted it.
Changes ==
    [seq: Nat \ {0}, id: AllIds, revision: Nat,
     action: {"created", "renamed", "moved", "metadata_updated", "deleted"},
     tx: Tx, row: Rows]

VARIABLES
    objects,    \* committed rows
    feed,       \* committed Changes
    nextSeq,    \* changes_seq
    orderLock,  \* holder of the Change-order lock
    pc, req,    \* per transaction: where it stands, what it was asked
    share,      \* rows it holds FOR SHARE
    excl,       \* rows it holds FOR UPDATE
    dirty, buf, \* rows it has written, and their uncommitted values
    walk,       \* previous result of the descendant walk, in order
    tries,      \* iterations of the lock-then-verify loop
    pending     \* Changes it has inserted, uncommitted

vars == <<objects, feed, nextSeq, orderLock, pc, req, share, excl, dirty, buf,
          walk, tries, pending>>

Working == {"lockTarget", "lockParent", "checkMove", "walk", "lockRows",
            "checkEmpty", "write", "recheck", "append", "commit"}

\* Rows may only hang below an existing folder, and never in a cycle.
LiveRow(v, i) == v[i].exists /\ ~v[i].deleted

NoOrphanIn(v) ==
    \A i \in Ids : LiveRow(v, i) =>
        /\ v[i].parent \in AllIds
        /\ LiveRow(v, v[i].parent)
        /\ v[v[i].parent].kind = "folder"

\* No set of non-root objects is closed under "parent of".
AcyclicIn(v) ==
    \A S \in SUBSET {i \in Ids : v[i].exists} :
        S # {} => \E i \in S : v[i].parent \notin S

ASSUME TreeAssumption ==
    /\ Ids \subseteq Nat \ {0}
    /\ IsFiniteSet(Ids)
    /\ None \notin Tx \cup Requests
    /\ Requests \subseteq RequestType
    /\ \A q \in Requests : q.op = "create" =>
          /\ q.id \in Ids /\ ~InitialRows[q.id].exists /\ q.if_match = None
          /\ q.parent \in AllIds /\ q.name \in Names /\ q.meta \in Metas
    /\ \A q \in Requests : q.op = "patch" => q.meta \in Patches \cup {Keep}
    /\ \A m \in Metas, p \in Patches : apply_metadata_patch(m, p) \in Metas
    /\ InitialRows \in [AllIds -> Rows]
    /\ \A i \in AllIds : ~InitialRows[i].exists => InitialRows[i].revision = 0
    /\ LiveRow(InitialRows, Root)
    /\ InitialRows[Root].kind = "folder"
    /\ InitialRows[Root].parent = NoParent
    /\ NoOrphanIn(InitialRows)
    /\ AcyclicIn(InitialRows)
    /\ Keep \notin AllIds /\ Keep \notin Names /\ Keep \notin Metas \cup Patches
    /\ DESCENDANT_LOCK_ATTEMPTS \in Nat \ {0}

TypeOK ==
    /\ objects \in [AllIds -> Rows]
    /\ feed \in SUBSET Changes
    /\ nextSeq \in Nat \ {0}
    /\ orderLock \in Tx \cup {None}
    /\ pc \in [Tx -> Working \cup {"idle", "done"}]
    /\ req \in [Tx -> Requests \cup {None}]
    /\ share \in [Tx -> SUBSET AllIds]
    /\ excl \in [Tx -> SUBSET AllIds]
    /\ dirty \in [Tx -> SUBSET AllIds]
    /\ buf \in [Tx -> [AllIds -> Rows]]
    /\ walk \in [Tx -> Seq(AllIds)]
    /\ tries \in [Tx -> Nat]
    /\ pending \in [Tx -> SUBSET Changes]

Init ==
    /\ objects = InitialRows
    /\ feed = {}
    /\ nextSeq = 1
    /\ orderLock = None
    /\ pc = [t \in Tx |-> "idle"]
    /\ req = [t \in Tx |-> None]
    /\ share = [t \in Tx |-> {}]
    /\ excl = [t \in Tx |-> {}]
    /\ dirty = [t \in Tx |-> {}]
    /\ buf = [t \in Tx |-> InitialRows]
    /\ walk = [t \in Tx |-> << >>]
    /\ tries = [t \in Tx |-> 0]
    /\ pending = [t \in Tx |-> {}]

-----------------------------------------------------------------------------
(* Helpers *)

Goto(t, l) == pc' = [pc EXCEPT ![t] = l]

\* What a statement of t sees.
View(t) == [i \in AllIds |-> IF i \in dirty[t] THEN buf[t][i] ELSE objects[i]]

Current(t) == View(t)[req[t].id]

\* FOR UPDATE waits for any other holder, FOR SHARE for FOR UPDATE holders.
UpdateBlocked(t, i) == \E u \in Tx \ {t} : i \in share[u] \cup excl[u]
ShareBlocked(t, i) == \E u \in Tx \ {t} : i \in excl[u]

\* The least set holding i and closed under parent (ANCESTOR_QUERY), and the
\* least one holding i and closed under live children (DESCENDANTS_QUERY).
SelfAndAncestors(v, i) ==
    {j \in AllIds : \A S \in SUBSET AllIds :
        i \in S /\ (\A k \in S : v[k].parent \in AllIds => v[k].parent \in S) => j \in S}

SubtreeOf(v, i) ==
    {j \in AllIds : \A S \in SUBSET AllIds :
        i \in S /\ (\A k \in AllIds : LiveRow(v, k) /\ v[k].parent \in S => k \in S) => j \in S}

IsSelfOrDescendant(v, candidate, subject) == subject \in SelfAndAncestors(v, candidate)

Depth(v, i) == Cardinality(SelfAndAncestors(v, i))

\* S as a sequence: the member with n members before it is at n + 1.
InOrder(S, Before(_, _)) ==
    [k \in 1..Cardinality(S) |->
        CHOOSE i \in S : Cardinality({j \in S : Before(j, i)}) = k - 1]

\* Variant: shallowest first.
WalkOrderTopDown(v, S) ==
    LET depth == [i \in S |-> Depth(v, i)] IN
    InOrder(S, LAMBDA j, i : depth[j] < depth[i] \/ (depth[j] = depth[i] /\ j < i))

\* The walk lists S deepest first, ids ascending within a depth.
WalkOrder(v, S) ==
    LET depth == [i \in S |-> Depth(v, i)] IN
    InOrder(S, LAMBDA j, i : depth[j] > depth[i] \/ (depth[j] = depth[i] /\ j < i))

\* Variant: the name is looked up among committed rows only.
NameBusyNever(t, p, n) == FALSE

\* The live (parent, name) index: an entry another transaction is writing or
\* removing makes the statement wait, a committed one makes it fail.
NameBusy(t, p, n) ==
    \E u \in Tx \ {t} : \E j \in dirty[u] :
        \/ LiveRow(buf[u], j) /\ buf[u][j].parent = p /\ buf[u][j].name = n
        \/ LiveRow(objects, j) /\ objects[j].parent = p /\ objects[j].name = n

NameTaken(t, p, n) ==
    \E j \in AllIds \ {req[t].id} :
        LiveRow(objects, j) /\ objects[j].parent = p /\ objects[j].name = n

\* A create draws its id at random: no other request has drawn it.
FreshId(q) ==
    q.op = "create" =>
        \A r \in {req[u] : u \in Tx} \ {None} : ~(r.op = "create" /\ r.id = q.id)

Target(given, current) == IF given = Keep THEN current ELSE given

TargetMetadata(t) ==
    IF req[t].meta = Keep THEN Current(t).meta
    ELSE apply_metadata_patch(Current(t).meta, req[t].meta)

NewParent(t) == Target(req[t].parent, Current(t).parent)
ParentChanged(t) == NewParent(t) # Current(t).parent
NameChanged(t) == Target(req[t].name, Current(t).name) # Current(t).name
MetaChanged(t) == TargetMetadata(t) # Current(t).meta

\* The transaction ends: locks, the ordering lock and private state are gone.
End(t) ==
    /\ Goto(t, "done")
    /\ share' = [share EXCEPT ![t] = {}]
    /\ excl' = [excl EXCEPT ![t] = {}]
    /\ dirty' = [dirty EXCEPT ![t] = {}]
    /\ buf' = [buf EXCEPT ![t] = InitialRows]
    /\ walk' = [walk EXCEPT ![t] = << >>]
    /\ tries' = [tries EXCEPT ![t] = 0]
    /\ pending' = [pending EXCEPT ![t] = {}]
    /\ orderLock' = IF orderLock = t THEN None ELSE orderLock

Fail(t) == End(t) /\ UNCHANGED <<objects, feed, nextSeq, req>>

-----------------------------------------------------------------------------
(* Statements *)

Begin(t) ==
    /\ pc[t] = "idle"
    /\ \E q \in Requests :
          /\ FreshId(q)
          /\ req' = [req EXCEPT ![t] = q]
          /\ Goto(t, IF q.op = "create" THEN "lockParent" ELSE "lockTarget")
    /\ UNCHANGED <<objects, feed, nextSeq, orderLock, share, excl, dirty, buf,
                   walk, tries, pending>>

\* Where a PATCH or DELETE goes once it holds its object.
AfterLock(t) ==
    IF req[t].op = "patch"
    THEN IF ParentChanged(t) THEN "lockParent"
         ELSE IF NameChanged(t) \/ MetaChanged(t) THEN "write" ELSE "commit"
    ELSE IF Current(t).kind = "file" THEN "write"
         ELSE IF req[t].recursive THEN "walk" ELSE "checkEmpty"

\* Variant: If-Match is not compared with the locked row.
TargetRefusedStale(t) ==
    \/ ~LiveRow(objects, req[t].id)
    \/ req[t].id = Root
         /\ (req[t].op = "delete" \/ req[t].parent # Keep \/ req[t].name # Keep)

\* Not found, a stale If-Match, or the root moved, renamed or deleted.
TargetRefused(t) ==
    \/ ~LiveRow(objects, req[t].id)
    \/ req[t].if_match # None /\ req[t].if_match # objects[req[t].id].revision
    \/ req[t].id = Root
         /\ (req[t].op = "delete" \/ req[t].parent # Keep \/ req[t].name # Keep)

\* lock_object and the checks on the locked row.
LockTarget(t) ==
    /\ pc[t] = "lockTarget"
    /\ ~UpdateBlocked(t, req[t].id)
    /\ \/ TargetRefused(t) /\ Fail(t)
       \/ /\ ~TargetRefused(t)
          /\ excl' = [excl EXCEPT ![t] = @ \cup {req[t].id}]
          /\ Goto(t, AfterLock(t))
          /\ UNCHANGED <<objects, feed, nextSeq, orderLock, req, share, dirty,
                         buf, walk, tries, pending>>

Destination(t) == IF req[t].op = "create" THEN req[t].parent ELSE NewParent(t)

\* live_kind(..., lock = true) on the destination folder.
LockParent(t) ==
    /\ pc[t] = "lockParent"
    /\ ~ShareBlocked(t, Destination(t))
    /\ LET folder == LiveRow(objects, Destination(t))
                     /\ objects[Destination(t)].kind = "folder" IN
       \/ ~folder /\ Fail(t)
       \/ /\ folder
          /\ share' = [share EXCEPT ![t] = @ \cup {Destination(t)}]
          /\ Goto(t, IF req[t].op = "patch" /\ Current(t).kind = "folder"
                     THEN "checkMove" ELSE "write")
          /\ UNCHANGED <<objects, feed, nextSeq, orderLock, req, excl, dirty,
                         buf, walk, tries, pending>>

\* Variant: the Change-order lock is taken before the UPDATE.
CheckMoveOrdered(t) ==
    /\ pc[t] = "checkMove"
    /\ orderLock = None
    /\ ~IsSelfOrDescendant(View(t), NewParent(t), req[t].id)
    /\ orderLock' = t
    /\ Goto(t, "write")
    /\ UNCHANGED <<objects, feed, nextSeq, req, share, excl, dirty, buf, walk,
                   tries, pending>>

\* The first, unlocked ancestor walk of a folder move.
CheckMove(t) ==
    /\ pc[t] = "checkMove"
    /\ \/ IsSelfOrDescendant(View(t), NewParent(t), req[t].id) /\ Fail(t)
       \/ /\ ~IsSelfOrDescendant(View(t), NewParent(t), req[t].id)
          /\ Goto(t, "write")
          /\ UNCHANGED <<objects, feed, nextSeq, orderLock, req, share, excl,
                         dirty, buf, walk, tries, pending>>

\* Non-recursive delete: has_live_children.
CheckEmpty(t) ==
    /\ pc[t] = "checkEmpty"
    /\ LET occupied == \E j \in Ids : LiveRow(objects, j) /\ objects[j].parent = req[t].id IN
       \/ occupied /\ Fail(t)
       \/ /\ ~occupied
          /\ Goto(t, "write")
          /\ UNCHANGED <<objects, feed, nextSeq, orderLock, req, share, excl,
                         dirty, buf, walk, tries, pending>>

\* One iteration of collect_and_lock_descendants: walk, compare with the
\* previous walk, give up after too many attempts.
WalkDescendants(t) ==
    /\ pc[t] = "walk"
    /\ LET w == WalkOrder(View(t), SubtreeOf(View(t), req[t].id)) IN
       \/ w = walk[t] /\ Goto(t, "write") /\ UNCHANGED <<walk, tries>>
       \/ /\ w # walk[t]
          /\ walk' = [walk EXCEPT ![t] = w]
          /\ tries' = [tries EXCEPT ![t] = @ + 1]
          /\ Goto(t, "lockRows")
    /\ UNCHANGED <<objects, feed, nextSeq, orderLock, req, share, excl, dirty,
                   buf, pending>>

WalkedIds(t) == {walk[t][k] : k \in DOMAIN walk[t]}

\* SELECT ... FOR UPDATE over the walked ids locks them one after another.
LockRow(t) ==
    /\ pc[t] = "lockRows"
    /\ \E i \in WalkedIds(t) \ excl[t] :
          /\ ~UpdateBlocked(t, i)
          /\ excl' = [excl EXCEPT ![t] = @ \cup {i}]
    /\ UNCHANGED <<objects, feed, nextSeq, orderLock, pc, req, share, dirty, buf,
                   walk, tries, pending>>

\* All are locked: derive the set again, or give up.
RowsLocked(t) ==
    /\ pc[t] = "lockRows"
    /\ WalkedIds(t) \subseteq excl[t]
    /\ \/ tries[t] < DESCENDANT_LOCK_ATTEMPTS
          /\ Goto(t, "walk")
          /\ UNCHANGED <<objects, feed, nextSeq, orderLock, req, share, excl,
                         dirty, buf, walk, tries, pending>>
       \/ tries[t] >= DESCENDANT_LOCK_ATTEMPTS /\ Fail(t)

\* The row a create inserts, a patch leaves, a delete leaves.
CreatedRow(t) ==
    [exists |-> TRUE, kind |-> req[t].kind, parent |-> req[t].parent,
     name |-> req[t].name, meta |-> req[t].meta, deleted |-> FALSE, revision |-> 1]

\* Variant: an absent parent is written as it came.
PatchedRowVerbatim(t) ==
    [Current(t) EXCEPT !.parent = req[t].parent, !.name = Target(req[t].name, @),
                       !.meta = TargetMetadata(t), !.revision = @ + 1]

PatchedRow(t) ==
    [Current(t) EXCEPT !.parent = NewParent(t), !.name = Target(req[t].name, @),
                       !.meta = TargetMetadata(t), !.revision = @ + 1]

DeletedRow(r) == [r EXCEPT !.deleted = TRUE, !.revision = @ + 1]

\* INSERT of a new id, or UPDATE of the locked row, against the name index.
WriteNamed(t) ==
    LET row == IF req[t].op = "create" THEN CreatedRow(t) ELSE PatchedRow(t) IN
    /\ pc[t] = "write"
    /\ req[t].op \in {"create", "patch"}
    /\ ~NameBusy(t, row.parent, row.name)
    /\ \/ NameTaken(t, row.parent, row.name) /\ Fail(t)
       \/ /\ ~NameTaken(t, row.parent, row.name)
          /\ dirty' = [dirty EXCEPT ![t] = {req[t].id}]
          /\ buf' = [buf EXCEPT ![t][req[t].id] = row]
          /\ Goto(t, IF req[t].op = "patch" /\ ParentChanged(t) /\ row.kind = "folder"
                     THEN "recheck" ELSE "append")
          /\ UNCHANGED <<objects, feed, nextSeq, orderLock, req, share, excl,
                         walk, tries, pending>>

Targets(t) == IF walk[t] = << >> THEN << req[t].id >> ELSE walk[t]

\* UPDATE ... SET deleted_at over every target.
WriteDeleted(t) ==
    /\ pc[t] = "write"
    /\ req[t].op = "delete"
    /\ LET ids == {Targets(t)[k] : k \in DOMAIN Targets(t)} IN
       /\ dirty' = [dirty EXCEPT ![t] = {i \in ids : LiveRow(objects, i)}]
       /\ buf' = [buf EXCEPT ![t] = [i \in AllIds |-> IF i \in ids /\ LiveRow(objects, i)
                                     THEN DeletedRow(objects[i]) ELSE @[i]]]
    /\ Goto(t, "append")
    /\ UNCHANGED <<objects, feed, nextSeq, orderLock, req, share, excl, walk,
                   tries, pending>>

OrderLockFree(t) == orderLock \in {None, t}

\* A folder move walks again, now holding the Change-order lock.
RecheckMove(t) ==
    /\ pc[t] = "recheck"
    /\ OrderLockFree(t)
    /\ \/ IsSelfOrDescendant(View(t), Current(t).parent, req[t].id) /\ Fail(t)
       \/ /\ ~IsSelfOrDescendant(View(t), Current(t).parent, req[t].id)
          /\ orderLock' = t
          /\ Goto(t, "append")
          /\ UNCHANGED <<objects, feed, nextSeq, req, share, excl, dirty, buf,
                         walk, tries, pending>>

EmissionOrder == [created |-> 0, renamed |-> 1, moved |-> 2, metadata_updated |-> 3]

PatchActions(t) ==
    LET old == objects[req[t].id]  new == buf[t][req[t].id] IN
    {a \in {"renamed", "moved", "metadata_updated"} :
        \/ a = "renamed" /\ new.name # old.name
        \/ a = "moved" /\ new.parent # old.parent
        \/ a = "metadata_updated" /\ new.meta # old.meta}

\* Variant: a recursive delete emits one tombstone only.
EmittedTopOnly(t) ==
    CASE req[t].op = "create" -> {<<req[t].id, "created">>}
      [] req[t].op = "patch" -> {req[t].id} \X PatchActions(t)
      [] req[t].op = "delete" -> {<<req[t].id, "deleted">>}

\* What the mutation emits, as <<object, action>>, and in which order.
Emitted(t) ==
    CASE req[t].op = "create" -> {<<req[t].id, "created">>}
      [] req[t].op = "patch" -> {req[t].id} \X PatchActions(t)
      [] req[t].op = "delete" -> dirty[t] \X {"deleted"}

EmittedBefore(t, e, f) ==
    IF req[t].op = "delete"
    THEN \E k, l \in DOMAIN Targets(t) : k < l /\ Targets(t)[k] = e[1] /\ Targets(t)[l] = f[1]
    ELSE EmissionOrder[e[2]] < EmissionOrder[f[2]]

\* append_changes: the ordering lock, then one sequence number per Change.
AppendChanges(t) ==
    /\ pc[t] = "append"
    /\ OrderLockFree(t)
    /\ orderLock' = t
    /\ pending' = [pending EXCEPT ![t] =
          {[seq |-> nextSeq + Cardinality({f \in Emitted(t) : EmittedBefore(t, f, e)}),
            id |-> e[1], revision |-> buf[t][e[1]].revision, action |-> e[2],
            tx |-> t, row |-> buf[t][e[1]]] : e \in Emitted(t)}]
    /\ nextSeq' = nextSeq + Cardinality(Emitted(t))
    /\ Goto(t, "commit")
    /\ UNCHANGED <<objects, feed, req, share, excl, dirty, buf, walk, tries>>

\* finish and COMMIT; a PATCH that changes nothing comes here directly.
Commit(t) ==
    /\ pc[t] = "commit"
    /\ objects' = View(t)
    /\ feed' = feed \cup pending[t]
    /\ End(t)
    /\ UNCHANGED <<nextSeq, req>>

\* The statement of t that cannot run because of another transaction's locks.
Blocked(t) ==
    \/ pc[t] = "lockTarget" /\ UpdateBlocked(t, req[t].id)
    \/ pc[t] = "lockParent" /\ ShareBlocked(t, Destination(t))
    \/ /\ pc[t] = "lockRows" /\ ~(WalkedIds(t) \subseteq excl[t])
       /\ \A i \in WalkedIds(t) \ excl[t] : UpdateBlocked(t, i)
    \/ /\ pc[t] = "write" /\ req[t].op # "delete"
       /\ NameBusy(t, Destination(t), Target(req[t].name, Current(t).name))
    \/ pc[t] \in {"recheck", "append"} /\ ~OrderLockFree(t)

\* Variant: no bound on a lock wait and no deadlock detection.
LockTimeoutNever(t) == Blocked(t) /\ FALSE /\ Fail(t)

\* lock_timeout expires, or the deadlock detector picks t.
LockTimeout(t) == Blocked(t) /\ Fail(t)

\* Any statement fails, or the process dies: the transaction rolls back.
Rollback(t) == pc[t] \in Working /\ Fail(t)

Step(t) ==
    \/ LockTarget(t) \/ LockParent(t) \/ CheckMove(t) \/ CheckEmpty(t)
    \/ WalkDescendants(t) \/ LockRow(t) \/ RowsLocked(t)
    \/ WriteNamed(t) \/ WriteDeleted(t) \/ RecheckMove(t) \/ AppendChanges(t)
    \/ Commit(t)

Next == \E t \in Tx : Begin(t) \/ Step(t) \/ LockTimeout(t) \/ Rollback(t)

Spec == Init /\ [][Next]_vars

\* A statement that can run runs; a wait that lasts is cut by lock_timeout.
FairSpec == Spec /\ \A t \in Tx : WF_vars(Step(t)) /\ WF_vars(LockTimeout(t))

-----------------------------------------------------------------------------
(* Properties *)

\* Replaying the Changes numbered up to n on the initial tree.
ReplayTo(n) ==
    [i \in AllIds |->
        LET mine == {c \in feed : c.id = i /\ c.seq <= n} IN
        IF mine = {} THEN InitialRows[i]
        ELSE (CHOOSE c \in mine : \A d \in mine : d.seq <= c.seq).row]

\* A follower that has applied any prefix of the feed holds a proper tree: a
\* recursive delete emits its tombstones deepest first, sequence numbers follow
\* commit order, no object is created or moved below a folder that is being
\* deleted, and two crossing folder moves never both commit.
EveryPrefixIsATree ==
    \A n \in 0..(nextSeq - 1) : NoOrphanIn(ReplayTo(n)) /\ AcyclicIn(ReplayTo(n))

\* The whole feed replays to the committed rows, and the Changes of an object
\* carry each of its revisions, all Changes of one revision coming from one
\* request.
FeedTellsHistory ==
    /\ ReplayTo(nextSeq) = objects
    /\ \A i \in AllIds :
          {c.revision : c \in {d \in feed : d.id = i}}
            = (InitialRows[i].revision + 1)..objects[i].revision
    /\ \A c, d \in feed :
          /\ c.seq = d.seq => c = d
          /\ c.id = d.id /\ c.revision = d.revision => c.tx = d.tx

\* A mutation sent with If-Match is applied to exactly that revision.
IfMatchHonoured ==
    \A c \in feed :
        c.id = req[c.tx].id /\ req[c.tx].if_match # None
            => c.revision = req[c.tx].if_match + 1

\* The holder of the Change-order lock waits for nobody.
OrderLockHolderRuns == \A t \in Tx : orderLock = t => ~Blocked(t)

\* Every mutation ends, crossing lock orders included.
EveryMutationEnds == \A t \in Tx : pc[t] \in Working ~> pc[t] = "done"

\* The committed Changes in the order of their sequence numbers.
FeedInOrder ==
    LET inOrder == InOrder(feed, LAMBDA d, c : d.seq < c.seq) IN
    [n \in DOMAIN inOrder |->
        LET c == inOrder[n] IN
        [id |-> c.id, revision |-> c.revision, action |-> c.action, tx |-> c.tx]]

Serial == INSTANCE TreeStore WITH Clients <- Tx, changes <- FeedInOrder

\* Serialisability: whatever transactions overlap, each one takes effect at its
\* commit as the one-mutation-at-a-time store would have applied it, rows and
\* Changes alike, or not at all.
ImplementsTreeStore == Serial!Spec

=============================================================================
