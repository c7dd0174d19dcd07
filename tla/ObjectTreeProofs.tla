-------------------------- MODULE ObjectTreeProofs --------------------------
(***************************************************************************)
(* What concurrent mutations of the object tree promise, for every tree,   *)
(* every set of requests and every number of transactions.                 *)
(*                                                                         *)
(* The argument is in five layers, each inductive given the ones before:   *)
(* the shape of a transaction, what its row locks hold still, the rows it  *)
(* is about to commit, the Changes it is about to publish, and the tree.   *)
(***************************************************************************)
EXTENDS ObjectTree, FiniteSetTheorems, TLAPS

-----------------------------------------------------------------------------
(* The shape of a transaction *)

Requested ==
    \A t \in Tx :
        /\ pc[t] = "idle" <=> req[t] = None
        /\ pc[t] = "lockTarget" => req[t].op # "create"
        /\ pc[t] = "lockParent" => req[t].op # "delete" /\ req[t].parent # Keep
        /\ pc[t] \in {"walk", "lockRows", "checkEmpty"} => req[t].op = "delete"
        /\ pc[t] \in {"checkMove", "recheck"} => req[t].op = "patch"

Phased ==
    \A t \in Tx :
        /\ pc[t] \in {"idle", "done"} => share[t] = {} /\ excl[t] = {}
        /\ pc[t] \notin {"recheck", "append", "commit"} => dirty[t] = {}
        /\ pc[t] # "commit" => pending[t] = {}
        /\ walk[t] # << >> =>
              /\ pc[t] \in {"walk", "lockRows", "write", "append", "commit"}
              /\ req[t].op = "delete"
        /\ orderLock = t => pc[t] \in {"append", "commit"}

Shape == TypeOK /\ Requested /\ Phased

-----------------------------------------------------------------------------
(* What the locks hold still *)

Exclusive == \A t, u \in Tx : t # u => excl[t] \cap (excl[u] \cup share[u]) = {}

Shared ==
    \A t \in Tx : \A i \in share[t] : LiveRow(objects, i) /\ objects[i].kind = "folder"

\* Rows that are locked, walked or written exist, or are a create's own.
KnownRows ==
    \A t \in Tx :
        /\ \A i \in excl[t] \cup WalkedIds(t) : objects[i].exists
        /\ \A i \in dirty[t] :
              /\ i \in excl[t] \/ (req[t].op = "create" /\ i = req[t].id)
              /\ buf[t][i].exists
        /\ pc[t] # "lockRows" => WalkedIds(t) \subseteq excl[t]

TargetHeld ==
    \A t \in Tx : pc[t] \in Working \ {"lockTarget"} /\ req[t].op # "create" =>
        /\ req[t].id \in excl[t] /\ LiveRow(objects, req[t].id)
        /\ req[t].if_match # None => objects[req[t].id].revision = req[t].if_match
        /\ req[t].id = Root => req[t].op = "patch" /\ req[t].parent = Keep

\* An id is created once, by one transaction, and does not exist before.
FreshIds ==
    \A t \in Tx : req[t] # None /\ req[t].op = "create" =>
        /\ pc[t] \in Working => ~objects[req[t].id].exists
        /\ \A u \in Tx \ {t} :
              req[u] # None /\ req[u].op = "create" => req[u].id # req[t].id

Drawn(i) == \E t \in Tx : req[t] # None /\ req[t].op = "create" /\ req[t].id = i

Undrawn == \A q \in Requests : q.op = "create" /\ objects[q.id].exists => Drawn(q.id)

Locks == Exclusive /\ Shared /\ KnownRows /\ TargetHeld /\ FreshIds /\ Undrawn

-----------------------------------------------------------------------------
(* The rows about to be committed *)

\* Where a PATCH puts its object, and what it makes of the row.
Wants(t) == Target(req[t].parent, objects[req[t].id].parent)

NewMeta(t) ==
    IF req[t].meta = Keep THEN objects[req[t].id].meta
    ELSE apply_metadata_patch(objects[req[t].id].meta, req[t].meta)

NewName(t) == Target(req[t].name, objects[req[t].id].name)

Differs(t) ==
    \/ Wants(t) # objects[req[t].id].parent
    \/ NewName(t) # objects[req[t].id].name
    \/ NewMeta(t) # objects[req[t].id].meta

\* The destination of a create or a move is held FOR SHARE, and a PATCH that
\* writes has something to write.
ParentHeldBy(t) ==
    /\ pc[t] \in {"write", "append", "commit"} /\ req[t].op = "create" =>
          req[t].parent \in share[t]
    /\ /\ pc[t] \in {"checkMove", "write", "recheck", "append", "commit"}
       /\ req[t].op = "patch" /\ Wants(t) # objects[req[t].id].parent
       => Wants(t) \in share[t]
    /\ pc[t] \in {"lockParent", "checkMove", "write", "recheck", "append"}
       /\ req[t].op = "patch" => Differs(t)

TargetIds(t) == {Targets(t)[k] : k \in DOMAIN Targets(t)}

ListedOnce(t) == \A k, l \in DOMAIN Targets(t) : Targets(t)[k] = Targets(t)[l] => k = l

TargetsHeldBy(t) ==
    pc[t] \in {"write", "append", "commit"} /\ req[t].op = "delete" =>
        /\ req[t].id \in TargetIds(t) /\ TargetIds(t) \subseteq excl[t]
        /\ \A i \in TargetIds(t) : LiveRow(objects, i)
        /\ ListedOnce(t)

\* The fields of the row a PATCH leaves.
IsPatchOf(row, t) ==
    LET old == objects[req[t].id] IN
    /\ row.exists /\ ~row.deleted /\ row.kind = old.kind /\ row.parent = Wants(t)
    /\ row.name = NewName(t) /\ row.meta = NewMeta(t) /\ row.revision = old.revision + 1

IsTombstoneOf(row, old) ==
    /\ row.exists /\ row.deleted /\ row.kind = old.kind /\ row.parent = old.parent
    /\ row.revision = old.revision + 1

WrittenBy(t) ==
    pc[t] \in {"recheck", "append", "commit"} =>
        /\ req[t].op = "create" => dirty[t] = {req[t].id} /\ buf[t][req[t].id] = CreatedRow(t)
        /\ req[t].op = "patch" =>
              \/ dirty[t] = {req[t].id} /\ IsPatchOf(buf[t][req[t].id], t)
              \/ dirty[t] = {} /\ pc[t] = "commit" /\ pending[t] = {}
        /\ req[t].op = "delete" =>
              /\ dirty[t] = TargetIds(t)
              /\ \A i \in dirty[t] : IsTombstoneOf(buf[t][i], objects[i])

Ready(t) == ParentHeldBy(t) /\ TargetsHeldBy(t) /\ WrittenBy(t)

Rooted == objects[Root].parent = NoParent

RowsReady == Rooted /\ \A t \in Tx : Ready(t)

-----------------------------------------------------------------------------
(* The Changes about to be published, and those that are *)

\* Changes that carry numbers belong to the holder of the Change-order lock:
\* one row each, numbered after everything that is published.
PendingBy(t) ==
    /\ pending[t] # {} => orderLock = t
    /\ \A c \in pending[t] :
          /\ c.tx = t /\ c.id \in dirty[t] /\ c.row = buf[t][c.id]
          /\ c.revision = buf[t][c.id].revision /\ c.seq < nextSeq
          /\ \A d \in feed : d.seq < c.seq
          /\ \A d \in pending[t] : d.seq = c.seq => d = c
    /\ pc[t] = "commit" => \A i \in dirty[t] : \E c \in pending[t] : c.id = i

Numbered ==
    \A c \in feed :
        /\ c.seq < nextSeq /\ pc[c.tx] = "done"
        /\ \A d \in feed : d.seq = c.seq => d = c

ReplaysToObjects == \A n \in Nat : (\A c \in feed : c.seq <= n) => ReplayTo(n) = objects

RevisionsOf(i) == {c.revision : c \in {d \in feed : d.id = i}}

Revised ==
    /\ \A c, d \in feed : d.id = c.id /\ d.revision = c.revision => d.tx = c.tx
    /\ \A i \in AllIds :
          /\ RevisionsOf(i) = (InitialRows[i].revision + 1)..objects[i].revision
          /\ InitialRows[i].revision <= objects[i].revision
          /\ ~objects[i].exists => objects[i].revision = 0

Published ==
    /\ \A t \in Tx : PendingBy(t)
    /\ Numbered /\ ReplaysToObjects /\ Revised /\ IfMatchHonoured

-----------------------------------------------------------------------------
(* The tree *)

IsTree(v) == NoOrphanIn(v) /\ AcyclicIn(v)

EveryReplayIsATree == \A n \in Nat : IsTree(ReplayTo(n))

\* A folder that is being moved stays clear of its own subtree.
MoveCheckedBy(t) ==
    /\ pc[t] \in {"append", "commit"} /\ req[t].op = "patch" /\ dirty[t] # {}
    /\ objects[req[t].id].kind = "folder" /\ Wants(t) # objects[req[t].id].parent
    => orderLock = t /\ req[t].id \notin SelfAndAncestors(View(t), Wants(t))

\* A delete has every live child of what it deletes, and has it first.
TargetsClosedBy(t) ==
    pc[t] \in {"write", "append", "commit"} /\ req[t].op = "delete" =>
        \A j \in Ids : LiveRow(objects, j) /\ objects[j].parent \in TargetIds(t) =>
            j \in TargetIds(t)

TargetsOrderedBy(t) ==
    pc[t] \in {"write", "append", "commit"} /\ req[t].op = "delete" =>
        \A k, l \in DOMAIN Targets(t) :
            Targets(t)[k] \in Ids /\ objects[Targets(t)[k]].parent = Targets(t)[l] => k < l

ChildrenFirstBy(t) ==
    pc[t] = "commit" /\ req[t].op = "delete" =>
        \A c, d \in pending[t] :
            c.id \in Ids /\ objects[c.id].parent = d.id => c.seq < d.seq

TreeSafe(t) ==
    MoveCheckedBy(t) /\ TargetsClosedBy(t) /\ TargetsOrderedBy(t) /\ ChildrenFirstBy(t)

TreeSound == EveryReplayIsATree /\ \A t \in Tx : TreeSafe(t)

-----------------------------------------------------------------------------
(* Counting *)

Below(S, R, a) == {b \in S : <<b, a>> \in R}

StrictlyOrders(R, S) ==
    /\ R \in SUBSET (S \X S)
    /\ \A a \in S : <<a, a>> \notin R
    /\ \A a, b \in S : a # b => <<a, b>> \in R \/ <<b, a>> \in R
    /\ \A a, b, c \in S : <<a, b>> \in R /\ <<b, c>> \in R => <<a, c>> \in R

Rank(S, R, a) == Cardinality(Below(S, R, a))

RanksBelowSize(S, R) ==
    /\ \A a \in S : Rank(S, R, a) \in 0..(Cardinality(S) - 1)
    /\ \A a, b \in S : <<a, b>> \in R => Rank(S, R, a) < Rank(S, R, b)
    /\ \A a, b \in S : Rank(S, R, a) = Rank(S, R, b) => a = b
    /\ \A n \in 0..(Cardinality(S) - 1) : \E a \in S : Rank(S, R, a) = n

\* In a finite set with a strict total order, every rank below the size of the
\* set is taken, by one member.
LEMMA Ranks ==
    ASSUME NEW S, IsFiniteSet(S), NEW R, StrictlyOrders(R, S)
    PROVE  RanksBelowSize(S, R)
<1> USE DEF StrictlyOrders
<1>1. Cardinality(S) \in Nat
  BY FS_CardinalityType
<1>2. ASSUME NEW a \in S, NEW T \in SUBSET S, a \in T, Below(S, R, a) \subseteq T
      PROVE  Rank(S, R, a) \in Nat /\ Rank(S, R, a) < Cardinality(T)
  <2>1. IsFiniteSet(T)
    BY FS_Subset
  <2>2. Below(S, R, a) \in SUBSET (T \ {a})
    BY <1>2 DEF Below
  <2>3. IsFiniteSet(T \ {a}) /\ Cardinality(T \ {a}) = Cardinality(T) - 1
    BY <1>2, <2>1, FS_RemoveElement
  <2>4. /\ IsFiniteSet(Below(S, R, a))
        /\ Cardinality(Below(S, R, a)) <= Cardinality(T \ {a})
    BY <2>2, <2>3, FS_Subset
  <2>5. Cardinality(T) \in Nat /\ Rank(S, R, a) \in Nat
    BY <2>1, <2>4, FS_CardinalityType DEF Rank
  <2>6. QED
    BY <2>3, <2>4, <2>5 DEF Rank
<1>3. \A a \in S : Rank(S, R, a) \in 0..(Cardinality(S) - 1)
  <2> SUFFICES ASSUME NEW a \in S PROVE Rank(S, R, a) \in 0..(Cardinality(S) - 1)
    OBVIOUS
  <2>1. Rank(S, R, a) \in Nat /\ Rank(S, R, a) < Cardinality(S)
    BY <1>2 DEF Below
  <2>2. QED
    BY <1>1, <2>1
<1>4. ASSUME NEW a \in S, NEW b \in S, <<a, b>> \in R
      PROVE  Rank(S, R, a) < Rank(S, R, b)
  <2>1. /\ a \in Below(S, R, b) /\ Below(S, R, a) \subseteq Below(S, R, b)
        /\ Below(S, R, b) \in SUBSET S
    BY <1>4 DEF Below
  <2>2. Rank(S, R, a) < Cardinality(Below(S, R, b))
    BY <1>2, <2>1
  <2>3. QED
    BY <2>2 DEF Rank
<1>5. ASSUME NEW a \in S, NEW b \in S, Rank(S, R, a) = Rank(S, R, b)
      PROVE  a = b
  <2> SUFFICES ASSUME a # b PROVE FALSE
    OBVIOUS
  <2>1. Rank(S, R, a) \in Int
    BY <1>3
  <2>2. Rank(S, R, a) < Rank(S, R, b) \/ Rank(S, R, b) < Rank(S, R, a)
    BY <1>4
  <2>3. QED
    BY <1>5, <2>1, <2>2
<1>6. ASSUME NEW n \in 0..(Cardinality(S) - 1) PROVE \E a \in S : Rank(S, R, a) = n
  <2> SUFFICES ASSUME \A a \in S : Rank(S, R, a) # n PROVE FALSE
    OBVIOUS
  <2> DEFINE N == 0..(Cardinality(S) - 1)
             U == N \ {n}
             r == [a \in S |-> Rank(S, R, a)]
  <2>1. IsFiniteSet(N) /\ Cardinality(N) = Cardinality(S) /\ n \in N
    <3>1. 0 \in Int /\ Cardinality(S) - 1 \in Int
      BY <1>1
    <3>2. /\ IsFiniteSet(N)
          /\ Cardinality(N) = IF 0 > Cardinality(S) - 1 THEN 0 ELSE Cardinality(S) - 1 - 0 + 1
      BY <3>1, FS_Interval
    <3>3. QED
      BY <1>1, <1>6, <3>2
  <2>2. IsFiniteSet(U) /\ Cardinality(U) = Cardinality(S) - 1
    <3> HIDE DEF N
    <3>1. QED
      BY <2>1, FS_RemoveElement
  <2>3. r \in [S -> U]
    BY <1>3
  <2>4. Cardinality(U) < Cardinality(S)
    BY <1>1, <2>2
  <2>5. \A a \in S : r[a] = Rank(S, R, a)
    OBVIOUS
  <2> HIDE DEF U, r
  <2>6. PICK a, b \in S : a # b /\ r[a] = r[b]
    BY <2>2, <2>3, <2>4, FS_PigeonHole
  <2>7. QED
    BY <1>5, <2>5, <2>6
<1>7. QED
  BY <1>3, <1>4, <1>5, <1>6 DEF RanksBelowSize

\* The ids, and the parent of the root, which is none of them.
LEMMA IdFacts ==
    /\ AllIds \subseteq Nat /\ IsFiniteSet(AllIds) /\ NoParent \notin AllIds
    /\ Root \in AllIds /\ Root \notin Ids /\ Ids \subseteq AllIds
<1>1. AllIds = Ids \cup {0} /\ Ids \subseteq Nat \ {0} /\ IsFiniteSet(Ids)
  BY TreeAssumption DEF AllIds, Root
<1>2. IsFiniteSet(AllIds)
  BY <1>1, FS_AddElement
<1>3. QED
  BY <1>1, <1>2 DEF NoParent, Root

\* A depth is a number.
LEMMA DepthType == \A v, i : Depth(v, i) \in Nat
<1> SUFFICES ASSUME NEW v, NEW i PROVE Depth(v, i) \in Nat
  OBVIOUS
<1>1. SelfAndAncestors(v, i) \in SUBSET AllIds
  BY DEF SelfAndAncestors
<1>2. QED
  BY <1>1, IdFacts, FS_Subset, FS_CardinalityType DEF Depth

\* The walk lists every member of S once, the deeper before the shallower.
LEMMA WalkLists ==
    ASSUME NEW v, NEW S \in SUBSET AllIds, NEW w, w = WalkOrder(v, S)
    PROVE  /\ w \in Seq(AllIds) /\ {w[k] : k \in DOMAIN w} = S
           /\ S # {} => w # << >>
           /\ \A k, l \in DOMAIN w :
                 /\ w[k] = w[l] => k = l
                 /\ Depth(v, w[k]) > Depth(v, w[l]) => k < l
<1>1. IsFiniteSet(S) /\ S \subseteq Nat
  BY IdFacts, FS_Subset
<1>2. Cardinality(S) \in Nat
  BY <1>1, FS_CardinalityType
<1> DEFINE depth == [i \in S |-> Depth(v, i)]
           Before(j, i) == depth[j] > depth[i] \/ (depth[j] = depth[i] /\ j < i)
           R == {p \in S \X S : Before(p[1], p[2])}
<1>3. \A i \in S : depth[i] \in Nat /\ depth[i] = Depth(v, i)
  BY DepthType
<1> HIDE DEF depth
<1>4. \A i, j \in S : <<j, i>> \in R <=> Before(j, i)
  OBVIOUS
<1>5. w = [k \in 1..Cardinality(S) |-> CHOOSE i \in S : Rank(S, R, i) = k - 1]
  <2>1. w = [k \in 1..Cardinality(S) |->
               CHOOSE i \in S : Cardinality({j \in S : Before(j, i)}) = k - 1]
    BY DEF WalkOrder, InOrder, depth
  <2>2. \A i \in S : Rank(S, R, i) = Cardinality({j \in S : Before(j, i)})
    BY <1>4 DEF Rank, Below
  <2> HIDE DEF Before, R
  <2>3. \A k : (CHOOSE i \in S : Cardinality({j \in S : Before(j, i)}) = k - 1)
               = CHOOSE i \in S : Rank(S, R, i) = k - 1
    BY <2>2
  <2>4. QED
    BY <2>1, <2>3
<1>6. StrictlyOrders(R, S)
  <2>1. \A a \in S : ~Before(a, a)
    BY <1>1, <1>3
  <2>2. \A a, b \in S : a # b => Before(a, b) \/ Before(b, a)
    BY <1>1, <1>3
  <2>3. \A a, b, c \in S : Before(a, b) /\ Before(b, c) => Before(a, c)
    BY <1>1, <1>3
  <2>4. R \in SUBSET (S \X S)
    OBVIOUS
  <2> HIDE DEF Before, R
  <2>5. QED
    BY <1>4, <2>1, <2>2, <2>3, <2>4 DEF StrictlyOrders
<1> HIDE DEF Before, R
<1> DEFINE rank(a) == Rank(S, R, a)
<1>11. /\ \A a \in S : rank(a) \in 0..(Cardinality(S) - 1)
       /\ \A a, b \in S : <<a, b>> \in R => rank(a) < rank(b)
       /\ \A a, b \in S : rank(a) = rank(b) => a = b
       /\ \A n \in 0..(Cardinality(S) - 1) : \E a \in S : rank(a) = n
  <2>1. RanksBelowSize(S, R)
    BY <1>1, <1>6, Ranks
  <2>2. QED
    BY <2>1 DEF RanksBelowSize
<1>13. \A k \in 1..Cardinality(S) : w[k] \in S /\ rank(w[k]) = k - 1
  <2> SUFFICES ASSUME NEW k \in 1..Cardinality(S)
               PROVE  w[k] \in S /\ rank(w[k]) = k - 1
    OBVIOUS
  <2>1. \E i \in S : rank(i) = k - 1
    BY <1>2, <1>11
  <2>2. w[k] = CHOOSE i \in S : rank(i) = k - 1
    BY <1>5
  <2>3. QED
    BY <2>1, <2>2
<1>14. DOMAIN w = 1..Cardinality(S)
  BY <1>5
<1>15. w \in Seq(AllIds)
  <2>1. w \in [1..Cardinality(S) -> AllIds]
    BY <1>5, <1>13
  <2>2. \A n \in Nat : [1..n -> AllIds] \subseteq Seq(AllIds)
    OBVIOUS
  <2>3. QED
    BY <1>2, <2>1, <2>2
<1>16. {w[k] : k \in DOMAIN w} = S
  <2>1. ASSUME NEW i \in S PROVE \E k \in DOMAIN w : w[k] = i
    <3>1. PICK k \in 1..Cardinality(S) : rank(i) = k - 1
      <4>1. rank(i) \in 0..(Cardinality(S) - 1)
        BY <1>11
      <4>2. rank(i) + 1 \in 1..Cardinality(S) /\ rank(i) = (rank(i) + 1) - 1
        BY <1>2, <4>1
      <4>3. QED
        BY <4>2
    <3>2. w[k] = i
      BY <1>11, <1>13, <3>1
    <3>3. QED
      BY <1>14, <3>2
  <2>2. QED
    BY <1>13, <1>14, <2>1
<1>17. S # {} => w # << >>
  <2>1. DOMAIN << >> = {}
    OBVIOUS
  <2>2. QED
    BY <1>16, <2>1
<1>18. ASSUME NEW k \in DOMAIN w, NEW l \in DOMAIN w
       PROVE  /\ w[k] = w[l] => k = l
              /\ Depth(v, w[k]) > Depth(v, w[l]) => k < l
  <2>1. /\ w[k] \in S /\ rank(w[k]) = k - 1 /\ k \in Int
        /\ w[l] \in S /\ rank(w[l]) = l - 1 /\ l \in Int
    BY <1>2, <1>13, <1>14, <1>18
  <2>2. Depth(v, w[k]) > Depth(v, w[l]) => <<w[k], w[l]>> \in R
    BY <1>3, <1>4, <2>1 DEF Before
  <2>3. QED
    BY <1>11, <2>1, <2>2
<1>19. QED
  BY <1>15, <1>16, <1>17, <1>18

-----------------------------------------------------------------------------
(* The operators of a transaction have the types they look like having *)

LEMMA RequestFacts ==
    \A q \in Requests :
        /\ q # None /\ q.op \in {"create", "patch", "delete"} /\ q.id \in AllIds
        /\ q.parent \in AllIds \cup {Keep} /\ q.name \in Names \cup {Keep}
        /\ q.kind \in {"file", "folder"}
        /\ q.op = "create" => q.parent \in AllIds /\ q.name \in Names /\ q.meta \in Metas
        /\ q.op = "patch" => q.meta \in Patches \cup {Keep}
<1> SUFFICES ASSUME NEW q \in Requests
             PROVE  /\ q # None /\ q.op \in {"create", "patch", "delete"} /\ q.id \in AllIds
                    /\ q.parent \in AllIds \cup {Keep} /\ q.name \in Names \cup {Keep}
                    /\ q.kind \in {"file", "folder"}
                    /\ q.op = "create" => q.parent \in AllIds /\ q.name \in Names /\ q.meta \in Metas
                    /\ q.op = "patch" => q.meta \in Patches \cup {Keep}
  OBVIOUS
<1>1. q \in RequestType
  BY TreeAssumption
<1>2. QED
  BY <1>1, TreeAssumption DEF RequestType

LEMMA RowFacts ==
    \A r \in Rows :
        /\ r.exists \in BOOLEAN /\ r.deleted \in BOOLEAN /\ r.kind \in {"file", "folder"}
        /\ r.parent \in AllIds \cup {NoParent} /\ r.name \in Names /\ r.meta \in Metas
        /\ r.revision \in Nat
BY DEF Rows

LEMMA ViewType ==
    ASSUME TypeOK, NEW t \in Tx
    PROVE  /\ View(t) \in [AllIds -> Rows]
           /\ \A i \in AllIds : View(t)[i] = IF i \in dirty[t] THEN buf[t][i] ELSE objects[i]
BY DEF TypeOK, View

\* A request at work is a client's.
LEMMA AtWork ==
    ASSUME TypeOK, Requested, NEW t \in Tx, pc[t] # "idle"
    PROVE  req[t] \in Requests /\ req[t] # None
BY DEF TypeOK, Requested

LEMMA WrittenRowTypes ==
    ASSUME TypeOK, NEW t \in Tx, req[t] \in Requests
    PROVE  /\ Current(t) \in Rows
           /\ req[t].op = "create" => CreatedRow(t) \in Rows
           /\ req[t].op = "patch" => PatchedRow(t) \in Rows /\ PatchedRow(t).kind = Current(t).kind
           /\ \A r \in Rows : DeletedRow(r) \in Rows
<1>1. req[t].id \in AllIds /\ Current(t) \in Rows
  BY RequestFacts, ViewType DEF Current
<1>2. ASSUME req[t].op = "create" PROVE CreatedRow(t) \in Rows
  BY <1>2, RequestFacts DEF CreatedRow, Rows
<1>3. ASSUME req[t].op = "patch"
      PROVE  PatchedRow(t) \in Rows /\ PatchedRow(t).kind = Current(t).kind
  <2>1. NewParent(t) \in AllIds \cup {NoParent}
    BY <1>1, RequestFacts, RowFacts DEF NewParent, Target
  <2>2. Target(req[t].name, Current(t).name) \in Names
    BY <1>1, RequestFacts, RowFacts DEF Target
  <2>3. TargetMetadata(t) \in Metas
    BY <1>1, <1>3, RequestFacts, RowFacts, TreeAssumption DEF TargetMetadata
  <2>4. Current(t).revision + 1 \in Nat
    BY <1>1, RowFacts
  <2>5. PatchedRow(t) = [Current(t) EXCEPT !.parent = NewParent(t),
                            !.name = Target(req[t].name, Current(t).name),
                            !.meta = TargetMetadata(t), !.revision = Current(t).revision + 1]
    BY DEF PatchedRow
  <2>6. QED
    BY <1>1, <2>1, <2>2, <2>3, <2>4, <2>5 DEF Rows
<1>4. \A r \in Rows : DeletedRow(r) \in Rows
  <2> SUFFICES ASSUME NEW r \in Rows PROVE DeletedRow(r) \in Rows
    OBVIOUS
  <2>1. r.revision + 1 \in Nat
    BY RowFacts
  <2>2. DeletedRow(r) = [r EXCEPT !.deleted = TRUE, !.revision = r.revision + 1]
    BY DEF DeletedRow
  <2>3. QED
    BY <2>1, <2>2 DEF Rows
<1>5. QED
  BY <1>1, <1>2, <1>3, <1>4

ActionNames == {"created", "renamed", "moved", "metadata_updated", "deleted"}

\* A mutation emits finitely many Changes, so each gets a number of its own.
LEMMA EmittedFacts ==
    ASSUME TypeOK, NEW t \in Tx, req[t] \in Requests
    PROVE  /\ Emitted(t) \in SUBSET (AllIds \X ActionNames)
           /\ IsFiniteSet(Emitted(t)) /\ Cardinality(Emitted(t)) \in Nat
           /\ \A e \in Emitted(t) :
                Cardinality({f \in Emitted(t) : EmittedBefore(t, f, e)}) \in Nat
<1>1. req[t].op \in {"create", "patch", "delete"} /\ req[t].id \in AllIds
  BY RequestFacts
<1>2. dirty[t] \in SUBSET AllIds
  BY DEF TypeOK
<1>3. Emitted(t) \in SUBSET (AllIds \X ActionNames)
  BY <1>1, <1>2 DEF Emitted, PatchActions, ActionNames
<1>4. IsFiniteSet(AllIds \X ActionNames)
  <2> DEFINE A2 == {"created"} \cup {"renamed"}
             A3 == A2 \cup {"moved"}
             A4 == A3 \cup {"metadata_updated"}
  <2>1. IsFiniteSet(A2)
    BY FS_Singleton, FS_AddElement
  <2>2. IsFiniteSet(A3)
    BY <2>1, FS_AddElement
  <2>3. IsFiniteSet(A4)
    BY <2>2, FS_AddElement
  <2>4. IsFiniteSet(A4 \cup {"deleted"}) /\ ActionNames = A4 \cup {"deleted"}
    BY <2>3, FS_AddElement DEF ActionNames
  <2>5. IsFiniteSet(ActionNames)
    BY <2>4
  <2>6. QED
    BY <2>5, IdFacts, FS_Product
<1>5. IsFiniteSet(Emitted(t)) /\ Cardinality(Emitted(t)) \in Nat
  BY <1>3, <1>4, FS_Subset, FS_CardinalityType
<1>6. ASSUME NEW e \in Emitted(t)
      PROVE  Cardinality({f \in Emitted(t) : EmittedBefore(t, f, e)}) \in Nat
  <2>1. {f \in Emitted(t) : EmittedBefore(t, f, e)} \in SUBSET Emitted(t)
    OBVIOUS
  <2>2. QED
    BY <1>5, <2>1, FS_Subset, FS_CardinalityType
<1>7. QED
  BY <1>3, <1>5, <1>6

-----------------------------------------------------------------------------
(* Every step keeps the shape of the transactions *)

LEMMA InitShape == Init => Shape
<1> SUFFICES ASSUME Init PROVE Shape
  OBVIOUS
<1> USE DEF Init
<1>1. TypeOK
  <2>1. InitialRows \in [AllIds -> Rows]
    BY TreeAssumption
  <2>2. << >> \in Seq(AllIds)
    OBVIOUS
  <2>3. QED
    BY <2>1, <2>2 DEF TypeOK
<1>2. Requested /\ Phased
  BY TreeAssumption DEF Requested, Phased
<1>3. QED
  BY <1>1, <1>2 DEF Shape

\* A transaction that ends.
LEMMA EndShape ==
    ASSUME Shape, NEW t \in Tx, pc[t] \in Working, End(t),
           objects' \in [AllIds -> Rows], feed' \in SUBSET Changes,
           UNCHANGED <<nextSeq, req>>
    PROVE  Shape'
<1> USE DEF End, Goto
<1>1. TypeOK'
  <2>1. InitialRows \in [AllIds -> Rows]
    BY TreeAssumption
  <2>2. << >> \in Seq(AllIds)
    OBVIOUS
  <2>3. QED
    BY <2>1, <2>2 DEF Shape, TypeOK
<1>2. Requested'
  BY DEF Shape, TypeOK, Requested, Working
<1>3. Phased'
  <2>1. None \notin Tx
    BY TreeAssumption
  <2>2. QED
    BY <2>1 DEF Shape, TypeOK, Phased
<1>4. QED
  BY <1>1, <1>2, <1>3 DEF Shape

LEMMA BeginShape == ASSUME Shape, NEW t \in Tx, Begin(t) PROVE Shape'
<1> USE DEF Begin, Goto
<1>1. PICK q \in Requests :
        /\ req' = [req EXCEPT ![t] = q]
        /\ pc' = [pc EXCEPT ![t] = IF q.op = "create" THEN "lockParent" ELSE "lockTarget"]
  OBVIOUS
<1>2. /\ q # None /\ q.op \in {"create", "patch", "delete"}
      /\ q.op = "create" => q.parent # Keep
  BY RequestFacts, TreeAssumption
<1>3. TypeOK'
  BY <1>1 DEF Shape, TypeOK, Working
<1>4. Requested'
  BY <1>1, <1>2 DEF Shape, TypeOK, Requested
<1>5. Phased'
  BY <1>1 DEF Shape, TypeOK, Phased
<1>6. QED
  BY <1>3, <1>4, <1>5 DEF Shape

\* A statement that takes locks, walks or only decides where to go next.
LEMMA MoveOnShape ==
    ASSUME Shape, NEW t \in Tx, NEW l \in Working, req[t] \in Requests,
           pc[t] \in Working \ {"commit"}, Goto(t, l),
           UNCHANGED <<objects, feed, nextSeq, req, dirty, buf, pending>>,
           share' \in [Tx -> SUBSET AllIds], excl' \in [Tx -> SUBSET AllIds],
           walk' \in [Tx -> Seq(AllIds)], tries' \in [Tx -> Nat],
           \A u \in Tx \ {t} : share'[u] = share[u] /\ excl'[u] = excl[u] /\ walk'[u] = walk[u],
           l = "lockParent" => req[t].op # "delete" /\ req[t].parent # Keep,
           l \in {"walk", "lockRows", "checkEmpty"} => req[t].op = "delete",
           l = "checkMove" => req[t].op = "patch",
           l \notin {"lockTarget", "recheck"},
           pc[t] \in {"recheck", "append"} => l = "append",
           walk'[t] # << >> => l \in {"walk", "lockRows", "write"} /\ req[t].op = "delete",
           \/ orderLock' = orderLock
           \/ orderLock' = t /\ l = "append"
    PROVE  Shape'
<1> USE DEF Goto
<1>1. TypeOK'
  BY DEF Shape, TypeOK
<1>2. Requested'
  BY DEF Shape, TypeOK, Requested, Working
<1>3. Phased'
  BY TreeAssumption DEF Shape, TypeOK, Phased, Working
<1>4. QED
  BY <1>1, <1>2, <1>3 DEF Shape

LEMMA WriteShape ==
    ASSUME Shape, NEW t \in Tx, pc[t] = "write", NEW l \in {"recheck", "append"}, Goto(t, l),
           l = "recheck" => req[t].op = "patch" /\ walk[t] = << >>,
           dirty' \in [Tx -> SUBSET AllIds], buf' \in [Tx -> [AllIds -> Rows]],
           \A u \in Tx \ {t} : dirty'[u] = dirty[u],
           UNCHANGED <<objects, feed, nextSeq, orderLock, req, share, excl, walk, tries, pending>>
    PROVE  Shape'
<1> USE DEF Goto
<1>1. TypeOK'
  BY DEF Shape, TypeOK, Working
<1>2. Requested'
  BY DEF Shape, TypeOK, Requested
<1>3. Phased'
  BY DEF Shape, TypeOK, Phased
<1>4. QED
  BY <1>1, <1>2, <1>3 DEF Shape

LEMMA AppendShape == ASSUME Shape, NEW t \in Tx, AppendChanges(t) PROVE Shape'
<1> USE DEF AppendChanges, Goto
<1>1. TypeOK /\ Requested /\ req[t] \in Requests
  BY AtWork DEF Shape
<1> DEFINE rank(e) == Cardinality({f \in Emitted(t) : EmittedBefore(t, f, e)})
           C(e) == [seq |-> nextSeq + rank(e), id |-> e[1], revision |-> buf[t][e[1]].revision,
                    action |-> e[2], tx |-> t, row |-> buf[t][e[1]]]
<1>2. nextSeq \in Nat \ {0} /\ buf[t] \in [AllIds -> Rows]
  BY <1>1 DEF TypeOK
<1>3. ASSUME NEW e \in Emitted(t) PROVE C(e) \in Changes
  <2>1. e[1] \in AllIds /\ e[2] \in ActionNames
    BY <1>1, EmittedFacts
  <2>2. rank(e) \in Nat
    BY <1>1, EmittedFacts
  <2> HIDE DEF rank
  <2>3. nextSeq + rank(e) \in Nat \ {0}
    BY <1>2, <2>2
  <2>4. buf[t][e[1]] \in Rows /\ buf[t][e[1]].revision \in Nat
    BY <1>2, <2>1, RowFacts
  <2>5. QED
    BY <2>1, <2>3, <2>4 DEF Changes, ActionNames
<1>4. pending' = [pending EXCEPT ![t] = {C(e) : e \in Emitted(t)}]
  OBVIOUS
<1> HIDE DEF C
<1>5. {C(e) : e \in Emitted(t)} \in SUBSET Changes
  BY <1>3
<1>6. nextSeq' \in Nat \ {0}
  BY <1>1, <1>2, EmittedFacts
<1>7. TypeOK'
  <2>1. pending' \in [Tx -> SUBSET Changes]
    BY <1>1, <1>4, <1>5 DEF TypeOK
  <2>2. pc' \in [Tx -> Working \cup {"idle", "done"}] /\ orderLock' \in Tx \cup {None}
    BY <1>1 DEF TypeOK, Working
  <2>3. QED
    BY <1>1, <1>6, <2>1, <2>2 DEF TypeOK
<1>8. Requested'
  BY <1>1 DEF TypeOK, Requested
<1>9. Phased'
  BY <1>1, <1>4, TreeAssumption DEF Shape, TypeOK, Phased
<1>10. QED
  BY <1>7, <1>8, <1>9 DEF Shape

LEMMA AfterLockFacts ==
    ASSUME NEW t \in Tx, req[t].op \in {"patch", "delete"}
    PROVE  /\ AfterLock(t) \in {"commit", "lockParent", "write", "walk", "checkEmpty"}
           /\ AfterLock(t) \in {"commit", "lockParent"} => req[t].op = "patch"
           /\ AfterLock(t) = "lockParent" => req[t].parent # Keep
           /\ AfterLock(t) \in {"walk", "checkEmpty"} => req[t].op = "delete"
BY DEF AfterLock, ParentChanged, NewParent, Target

LEMMA WalkType ==
    ASSUME NEW t \in Tx, NEW v, NEW i
    PROVE  WalkOrder(v, SubtreeOf(v, i)) \in Seq(AllIds)
<1>1. SubtreeOf(v, i) \in SUBSET AllIds
  BY DEF SubtreeOf
<1>2. QED
  BY <1>1, WalkLists

LEMMA FailShape == ASSUME Shape, NEW t \in Tx, pc[t] \in Working, Fail(t) PROVE Shape'
<1>1. objects' \in [AllIds -> Rows] /\ feed' \in SUBSET Changes
  BY DEF Shape, TypeOK, Fail
<1>2. QED
  BY <1>1, EndShape DEF Fail

LEMMA StepShape == ASSUME Shape, NEW t \in Tx, Step(t) PROVE Shape'
<1>1. TypeOK /\ Requested /\ Phased
  BY DEF Shape
<1>2. pc[t] \in Working
  BY DEF Step, LockTarget, LockParent, CheckMove, CheckEmpty, WalkDescendants, LockRow,
     RowsLocked, WriteNamed, WriteDeleted, RecheckMove, AppendChanges, Commit, Working
<1>3. req[t] \in Requests /\ req[t].op \in {"create", "patch", "delete"} /\ req[t].id \in AllIds
  BY <1>1, <1>2, AtWork, RequestFacts DEF Working
<1>4. /\ share \in [Tx -> SUBSET AllIds] /\ excl \in [Tx -> SUBSET AllIds]
      /\ walk \in [Tx -> Seq(AllIds)] /\ tries \in [Tx -> Nat] /\ dirty[t] \in SUBSET AllIds
      /\ pc \in [Tx -> Working \cup {"idle", "done"}]
      /\ objects \in [AllIds -> Rows] /\ buf \in [Tx -> [AllIds -> Rows]]
      /\ dirty \in [Tx -> SUBSET AllIds]
  BY <1>1 DEF TypeOK
<1>5. CASE Fail(t)
  BY <1>2, <1>5, FailShape
<1>6. CASE LockTarget(t) /\ ~Fail(t)
  <2>1. req[t].op \in {"patch", "delete"} /\ walk[t] = << >>
    BY <1>1, <1>3, <1>6 DEF LockTarget, Requested, Phased
  <2>2. AfterLock(t) \in Working
    BY <2>1, AfterLockFacts DEF Working
  <2>3. Goto(t, AfterLock(t)) /\ pc[t] = "lockTarget"
    BY <1>6 DEF LockTarget
  <2>4. /\ excl' = [excl EXCEPT ![t] = @ \cup {req[t].id}]
        /\ UNCHANGED <<objects, feed, nextSeq, orderLock, req, share, dirty, buf, walk, tries, pending>>
    BY <1>6 DEF LockTarget
  <2>5. excl' \in [Tx -> SUBSET AllIds]
    BY <1>3, <1>4, <2>4
  <2>6. \A u \in Tx \ {t} : share'[u] = share[u] /\ excl'[u] = excl[u] /\ walk'[u] = walk[u]
    BY <1>4, <2>4
  <2>7. QED
    BY <1>2, <1>3, <1>4, <2>1, <2>2, <2>3, <2>4, <2>5, <2>6, AfterLockFacts, MoveOnShape
<1>7. CASE LockParent(t) /\ ~Fail(t)
  <2>1. PICK l \in {"checkMove", "write"} : Goto(t, l) /\ (l = "checkMove" => req[t].op = "patch")
    BY <1>7 DEF LockParent
  <2>2. /\ pc[t] = "lockParent" /\ walk[t] = << >>
        /\ share' = [share EXCEPT ![t] = @ \cup {Destination(t)}]
        /\ UNCHANGED <<objects, feed, nextSeq, orderLock, req, excl, dirty, buf, walk, tries, pending>>
    BY <1>1, <1>7 DEF LockParent, Phased
  <2>3. Destination(t) \in AllIds
    <3>1. req[t].parent \in AllIds
      BY <1>1, <1>3, <2>2, RequestFacts DEF Requested
    <3>2. req[t].parent # Keep
      BY <3>1, TreeAssumption
    <3>3. QED
      BY <3>1, <3>2 DEF Destination, NewParent, Target
  <2>4. share' \in [Tx -> SUBSET AllIds]
    BY <1>4, <2>2, <2>3
  <2>5. \A u \in Tx \ {t} : share'[u] = share[u] /\ excl'[u] = excl[u] /\ walk'[u] = walk[u]
    BY <1>4, <2>2
  <2>6. QED
    BY <1>2, <1>3, <1>4, <2>1, <2>2, <2>4, <2>5, MoveOnShape DEF Working
<1>8. CASE CheckMove(t) /\ ~Fail(t)
  <2>1. /\ pc[t] = "checkMove" /\ walk[t] = << >> /\ Goto(t, "write")
        /\ UNCHANGED <<objects, feed, nextSeq, orderLock, req, share, excl, dirty, buf, walk,
                       tries, pending>>
    BY <1>1, <1>8 DEF CheckMove, Phased
  <2>2. QED
    BY <1>2, <1>3, <1>4, <2>1, MoveOnShape DEF Working
<1>9. CASE CheckEmpty(t) /\ ~Fail(t)
  <2>1. /\ pc[t] = "checkEmpty" /\ walk[t] = << >> /\ Goto(t, "write")
        /\ UNCHANGED <<objects, feed, nextSeq, orderLock, req, share, excl, dirty, buf, walk,
                       tries, pending>>
    BY <1>1, <1>9 DEF CheckEmpty, Phased
  <2>2. QED
    BY <1>2, <1>3, <1>4, <2>1, MoveOnShape DEF Working
<1>10. CASE WalkDescendants(t)
  <2> DEFINE w == WalkOrder(View(t), SubtreeOf(View(t), req[t].id))
  <2>1. /\ pc[t] = "walk"
        /\ UNCHANGED <<objects, feed, nextSeq, orderLock, req, share, excl, dirty, buf, pending>>
    BY <1>10 DEF WalkDescendants
  <2>2. req[t].op = "delete"
    BY <1>1, <2>1 DEF Requested
  <2>3. PICK l \in {"write", "lockRows"} :
          /\ Goto(t, l)
          /\ \/ UNCHANGED <<walk, tries>>
             \/ walk' = [walk EXCEPT ![t] = w] /\ tries' = [tries EXCEPT ![t] = @ + 1]
    BY <1>10 DEF WalkDescendants
  <2>4. w \in Seq(AllIds)
    BY WalkType
  <2> HIDE DEF w
  <2>5. walk' \in [Tx -> Seq(AllIds)] /\ \A u \in Tx \ {t} : walk'[u] = walk[u]
    <3>1. walk \in [Tx -> Seq(AllIds)]
      BY <1>4
    <3> DEFINE Lists == Seq(AllIds)
    <3>2. walk \in [Tx -> Lists] /\ w \in Lists
      BY <3>1, <2>4
    <3> HIDE DEF Lists
    <3>3. walk' \in [Tx -> Lists] /\ \A u \in Tx \ {t} : walk'[u] = walk[u]
      BY <2>3, <3>2
    <3>4. QED
      BY <3>3 DEF Lists
  <2>6. tries' \in [Tx -> Nat]
    <3>1. tries[t] + 1 \in Nat
      BY <1>4
    <3>2. QED
      BY <1>4, <2>3, <3>1
  <2>7. /\ pc[t] \in Working \ {"commit"} /\ req[t] \in Requests
        /\ share' \in [Tx -> SUBSET AllIds] /\ excl' \in [Tx -> SUBSET AllIds]
        /\ UNCHANGED <<objects, feed, nextSeq, req, dirty, buf, pending>>
        /\ orderLock' = orderLock
    BY <1>3, <1>4, <2>1 DEF Working
  <2>8. \A u \in Tx \ {t} : share'[u] = share[u] /\ excl'[u] = excl[u] /\ walk'[u] = walk[u]
    BY <2>1, <2>5
  <2>9. /\ l \in Working /\ l \notin {"lockTarget", "recheck"}
        /\ l = "lockParent" => req[t].op # "delete" /\ req[t].parent # Keep
        /\ l \in {"walk", "lockRows", "checkEmpty"} => req[t].op = "delete"
        /\ l = "checkMove" => req[t].op = "patch"
        /\ pc[t] \in {"recheck", "append"} => l = "append"
        /\ walk'[t] # << >> => l \in {"walk", "lockRows", "write"} /\ req[t].op = "delete"
    BY <2>1, <2>2 DEF Working
  <2>10. Goto(t, l)
    BY <2>3
  <2>11. QED
    BY <2>5, <2>6, <2>7, <2>8, <2>9, <2>10, MoveOnShape
<1>11. CASE LockRow(t)
  <2>1. PICK i \in WalkedIds(t) \ excl[t] : excl' = [excl EXCEPT ![t] = @ \cup {i}]
    BY <1>11 DEF LockRow
  <2>2. i \in AllIds
    BY <1>4, <2>1 DEF WalkedIds
  <2>3. excl' \in [Tx -> SUBSET AllIds]
    BY <1>4, <2>1, <2>2
  <2>4. UNCHANGED <<objects, feed, nextSeq, orderLock, pc, req, share, dirty, buf, walk, tries,
                    pending>>
    BY <1>11 DEF LockRow
  <2>5. TypeOK' /\ Requested'
    BY <1>1, <2>3, <2>4 DEF TypeOK, Requested
  <2>6. Phased'
    BY <1>1, <1>11, <1>4, <2>1, <2>4 DEF Phased, LockRow
  <2>7. QED
    BY <2>5, <2>6 DEF Shape
<1>12. CASE RowsLocked(t) /\ ~Fail(t)
  <2>1. /\ pc[t] = "lockRows" /\ Goto(t, "walk")
        /\ UNCHANGED <<objects, feed, nextSeq, orderLock, req, share, excl, dirty, buf, walk,
                       tries, pending>>
    BY <1>12 DEF RowsLocked
  <2>2. req[t].op = "delete"
    BY <1>1, <2>1 DEF Requested
  <2>3. QED
    BY <1>2, <1>3, <1>4, <2>1, <2>2, MoveOnShape DEF Working
<1>13. CASE WriteNamed(t) /\ ~Fail(t)
  <2> DEFINE row == IF req[t].op = "create" THEN CreatedRow(t) ELSE PatchedRow(t)
  <2>1. PICK l \in {"recheck", "append"} : Goto(t, l) /\ (l = "recheck" => req[t].op = "patch")
    BY <1>13 DEF WriteNamed
  <2>2. /\ pc[t] = "write" /\ req[t].op \in {"create", "patch"}
        /\ dirty' = [dirty EXCEPT ![t] = {req[t].id}]
        /\ buf' = [buf EXCEPT ![t] = [buf[t] EXCEPT ![req[t].id] = row]]
        /\ UNCHANGED <<objects, feed, nextSeq, orderLock, req, share, excl, walk, tries, pending>>
    BY <1>4, <1>13 DEF WriteNamed
  <2>3. row \in Rows
    BY <1>1, <1>3, <2>2, WrittenRowTypes
  <2> HIDE DEF row
  <2>4. dirty' \in [Tx -> SUBSET AllIds] /\ \A u \in Tx \ {t} : dirty'[u] = dirty[u]
    BY <1>3, <1>4, <2>2
  <2>5. buf' \in [Tx -> [AllIds -> Rows]]
    <3>1. [buf[t] EXCEPT ![req[t].id] = row] \in [AllIds -> Rows]
      BY <1>3, <1>4, <2>3
    <3>2. QED
      BY <1>4, <2>2, <3>1
  <2>6. walk[t] = << >>
    BY <1>1, <2>2 DEF Phased
  <2>7. QED
    BY <2>1, <2>2, <2>4, <2>5, <2>6, WriteShape
<1>14. CASE WriteDeleted(t)
  <2> DEFINE ids == {Targets(t)[k] : k \in DOMAIN Targets(t)}
             left == [i \in AllIds |-> IF i \in ids /\ LiveRow(objects, i)
                                       THEN DeletedRow(objects[i]) ELSE buf[t][i]]
  <2>1. /\ pc[t] = "write" /\ req[t].op = "delete" /\ Goto(t, "append")
        /\ dirty' = [dirty EXCEPT ![t] = {i \in ids : LiveRow(objects, i)}]
        /\ buf' = [buf EXCEPT ![t] = left]
        /\ UNCHANGED <<objects, feed, nextSeq, orderLock, req, share, excl, walk, tries, pending>>
    BY <1>4, <1>14 DEF WriteDeleted
  <2>2. ids \in SUBSET AllIds
    <3>1. Targets(t) \in Seq(AllIds)
      BY <1>3, <1>4 DEF Targets
    <3>2. QED
      BY <3>1
  <2>3. left \in [AllIds -> Rows]
    BY <1>1, <1>3, <1>4, WrittenRowTypes
  <2> HIDE DEF ids, left
  <2>4. dirty' \in [Tx -> SUBSET AllIds] /\ \A u \in Tx \ {t} : dirty'[u] = dirty[u]
    BY <1>4, <2>1, <2>2
  <2>5. buf' \in [Tx -> [AllIds -> Rows]]
    BY <1>4, <2>1, <2>3
  <2>6. QED
    BY <2>1, <2>4, <2>5, WriteShape
<1>15. CASE RecheckMove(t) /\ ~Fail(t)
  <2>1. /\ pc[t] = "recheck" /\ Goto(t, "append") /\ walk[t] = << >> /\ orderLock' = t
        /\ UNCHANGED <<objects, feed, nextSeq, req, share, excl, dirty, buf, walk, tries, pending>>
    BY <1>1, <1>15 DEF RecheckMove, Phased
  <2>2. QED
    BY <1>2, <1>3, <1>4, <2>1, MoveOnShape DEF Working
<1>16. CASE AppendChanges(t)
  BY <1>16, AppendShape
<1>17. CASE Commit(t)
  <2>1. objects' \in [AllIds -> Rows]
    BY <1>1, <1>17, ViewType DEF Commit
  <2>2. feed' \in SUBSET Changes
    BY <1>1, <1>17 DEF Commit, TypeOK
  <2>3. QED
    BY <1>2, <1>17, <2>1, <2>2, EndShape DEF Commit
<1>18. QED
  BY <1>5, <1>6, <1>7, <1>8, <1>9, <1>10, <1>11, <1>12, <1>13, <1>14, <1>15, <1>16, <1>17
     DEF Step

\* Every step keeps the shape.
LEMMA ShapeStep == Shape /\ [Next]_vars => Shape'
<1>1. ASSUME Shape, NEW t \in Tx, LockTimeout(t) PROVE Shape'
  <2>1. pc[t] \in Working /\ Fail(t)
    BY <1>1 DEF LockTimeout, Blocked, Working
  <2>2. QED
    BY <1>1, <2>1, FailShape
<1>2. ASSUME Shape, UNCHANGED vars PROVE Shape'
  BY <1>2 DEF vars, Shape, TypeOK, Requested, Phased
<1>3. QED
  BY <1>1, <1>2, BeginShape, StepShape, FailShape DEF Next, Rollback

-----------------------------------------------------------------------------
(* What a step leaves alone *)

SameFor(u) ==
    /\ pc'[u] = pc[u] /\ req'[u] = req[u] /\ share'[u] = share[u] /\ excl'[u] = excl[u]
    /\ dirty'[u] = dirty[u] /\ buf'[u] = buf[u] /\ walk'[u] = walk[u] /\ tries'[u] = tries[u]
    /\ pending'[u] = pending[u]

\* The transaction is over: it holds nothing.
Over(t) ==
    /\ pc'[t] = "done" /\ req'[t] = req[t] /\ share'[t] = {} /\ excl'[t] = {} /\ dirty'[t] = {}
    /\ walk'[t] = << >> /\ pending'[t] = {}

\* A transaction that ends lets go of everything and touches no other.
LEMMA EndFacts ==
    ASSUME Shape, NEW t \in Tx, End(t), UNCHANGED req
    PROVE  Over(t) /\ \A u \in Tx \ {t} : SameFor(u)
BY DEF Shape, TypeOK, End, Goto, Over, SameFor

\* A statement of one transaction touches the state of no other.
LEMMA Frame ==
    ASSUME Shape, NEW t \in Tx, Begin(t) \/ Step(t) \/ Fail(t), NEW u \in Tx \ {t}
    PROVE  SameFor(u)
<1> USE DEF Shape, TypeOK, Goto
<1>1. CASE Begin(t)
  BY <1>1 DEF Begin, SameFor
<1>2. CASE Fail(t) \/ Commit(t)
  BY <1>2, EndFacts DEF Fail, Commit
<1>3. CASE (LockTarget(t) \/ LockParent(t) \/ CheckMove(t) \/ CheckEmpty(t) \/ RowsLocked(t)
              \/ RecheckMove(t)) /\ ~Fail(t)
  BY <1>3 DEF LockTarget, LockParent, CheckMove, CheckEmpty, RowsLocked, RecheckMove, SameFor
<1>4. CASE WalkDescendants(t) \/ LockRow(t)
  BY <1>4 DEF WalkDescendants, LockRow, SameFor
<1>5. CASE WriteNamed(t) /\ ~Fail(t)
  BY <1>5 DEF WriteNamed, SameFor
<1>6. CASE WriteDeleted(t)
  BY <1>6 DEF WriteDeleted, SameFor
<1>7. CASE AppendChanges(t)
  BY <1>7 DEF AppendChanges, SameFor
<1>8. QED
  BY <1>1, <1>2, <1>3, <1>4, <1>5, <1>6, <1>7 DEF Step

\* A commit changes the rows its transaction wrote: rows it has locked, or the
\* new row of a create.
LEMMA CommitEffect ==
    ASSUME Shape, Locks, NEW t \in Tx, Commit(t), NEW i \in AllIds
    PROVE  /\ objects'[i] = IF i \in dirty[t] THEN buf[t][i] ELSE objects[i]
           /\ i \in dirty[t] =>
                /\ objects'[i].exists
                /\ \/ i \in excl[t] /\ objects[i].exists
                   \/ req[t].op = "create" /\ i = req[t].id /\ ~objects[i].exists
<1>1. TypeOK /\ req[t] # None /\ pc[t] \in Working
  BY AtWork DEF Shape, Commit, Working
<1>2. objects'[i] = IF i \in dirty[t] THEN buf[t][i] ELSE objects[i]
  BY <1>1, ViewType DEF Commit
<1>3. ASSUME i \in dirty[t]
      PROVE  /\ buf[t][i].exists
             /\ \/ i \in excl[t] /\ objects[i].exists
                \/ req[t].op = "create" /\ i = req[t].id /\ ~objects[i].exists
  BY <1>1, <1>3 DEF Locks, KnownRows, FreshIds
<1>4. QED
  BY <1>2, <1>3

\* A commit changes no row that another transaction has locked.
LEMMA HeldStill ==
    ASSUME Shape, Locks, NEW t \in Tx, Commit(t), NEW u \in Tx \ {t},
           NEW i \in excl[u] \cup share[u]
    PROVE  objects'[i] = objects[i]
<1>1. i \in AllIds /\ i \notin excl[t] /\ objects[i].exists
  BY DEF Shape, TypeOK, Locks, Exclusive, Shared, KnownRows, LiveRow
<1>2. QED
  BY <1>1, CommitEffect

\* The descendant walk returns its start and live rows.
LEMMA SubtreeFacts ==
    ASSUME NEW v, NEW i \in AllIds
    PROVE  /\ i \in SubtreeOf(v, i)
           /\ \A j \in SubtreeOf(v, i) : j \in AllIds /\ (j = i \/ LiveRow(v, j))
           /\ \A k \in AllIds : LiveRow(v, k) /\ v[k].parent \in SubtreeOf(v, i)
                => k \in SubtreeOf(v, i)
<1>1. i \in SubtreeOf(v, i)
  BY DEF SubtreeOf
<1>2. ASSUME NEW j \in SubtreeOf(v, i) PROVE j \in AllIds /\ (j = i \/ LiveRow(v, j))
  <2> DEFINE S == {i} \cup {k \in AllIds : LiveRow(v, k)}
  <2>1. S \in SUBSET AllIds /\ i \in S /\ \A k \in AllIds : LiveRow(v, k) /\ v[k].parent \in S => k \in S
    OBVIOUS
  <2>2. j \in AllIds /\ j \in S
    <3> HIDE DEF S
    <3>1. QED
      BY <1>2, <2>1 DEF SubtreeOf
  <2>3. QED
    BY <2>2
<1>3. ASSUME NEW k \in AllIds, LiveRow(v, k), v[k].parent \in SubtreeOf(v, i)
      PROVE  k \in SubtreeOf(v, i)
  <2> SUFFICES ASSUME NEW S \in SUBSET AllIds, i \in S,
                      \A l \in AllIds : LiveRow(v, l) /\ v[l].parent \in S => l \in S
               PROVE  k \in S
    BY DEF SubtreeOf
  <2>1. v[k].parent \in S
    BY <1>3 DEF SubtreeOf
  <2>2. QED
    BY <1>3, <2>1
<1>4. QED
  BY <1>1, <1>2, <1>3

-----------------------------------------------------------------------------
(* The locks hold the locked rows still *)

LEMMA InitLocks == Init => Locks
<1> SUFFICES ASSUME Init PROVE Locks
  OBVIOUS
<1> USE DEF Init
<1>1. Exclusive /\ Shared /\ KnownRows
  BY DEF Exclusive, Shared, KnownRows, WalkedIds
<1>2. TargetHeld /\ FreshIds
  BY DEF TargetHeld, FreshIds, Working
<1>3. Undrawn
  BY TreeAssumption DEF Undrawn
<1>4. QED
  BY <1>1, <1>2, <1>3 DEF Locks

\* A mutation that ends, by rolling back or by committing, lets go of everything.
LEMMA EndLocks ==
    ASSUME Shape, Locks, NEW t \in Tx, pc[t] \in Working, End(t), UNCHANGED req,
           UNCHANGED objects \/ Commit(t)
    PROVE  Locks'
<1>1. Over(t) /\ \A u \in Tx \ {t} : SameFor(u)
  BY EndFacts
<1>2. \A u \in Tx \ {t} : \A i \in excl[u] \cup share[u] : objects'[i] = objects[i]
  BY HeldStill
<1>3. \A i \in AllIds : objects[i].exists => objects'[i].exists
  BY CommitEffect
<1>4. TypeOK /\ Requested /\ Phased
  BY DEF Shape
<1>5. Exclusive'
  BY <1>1 DEF Locks, Exclusive, SameFor, Over
<1>6. Shared'
  BY <1>1, <1>2 DEF Locks, Shared, SameFor, Over, LiveRow
<1>7. KnownRows'
  <2>1. ASSUME NEW u \in Tx \ {t}
        PROVE  /\ \A i \in excl'[u] \cup WalkedIds(u)' : objects'[i].exists
               /\ \A i \in dirty'[u] :
                     /\ i \in excl'[u] \/ (req'[u].op = "create" /\ i = req'[u].id)
                     /\ buf'[u][i].exists
               /\ pc'[u] # "lockRows" => WalkedIds(u)' \subseteq excl'[u]
    <3>1. WalkedIds(u)' = WalkedIds(u) /\ WalkedIds(u) \in SUBSET AllIds /\ excl[u] \in SUBSET AllIds
      BY <1>1, <1>4 DEF WalkedIds, SameFor, TypeOK
    <3>2. QED
      BY <1>1, <1>3, <3>1 DEF Locks, KnownRows, SameFor
  <2>2. WalkedIds(t)' = {}
    BY <1>1 DEF WalkedIds, Over
  <2>3. QED
    BY <1>1, <2>1, <2>2 DEF KnownRows, Over
<1>8. TargetHeld'
  BY <1>1, <1>2, <1>4 DEF Locks, TargetHeld, SameFor, Over, LiveRow, Working
<1>9. \A u \in Tx : pc'[u] \in Working => u # t /\ pc[u] \in Working
  BY <1>1 DEF SameFor, Over, Working
<1>10. FreshIds'
  <2>1. ASSUME NEW u \in Tx, req[u] # None, req[u].op = "create", pc'[u] \in Working
        PROVE  ~objects'[req[u].id].exists
    <3>1. /\ u # t /\ ~objects[req[u].id].exists /\ req[u].id \in AllIds
          /\ req[t] # None /\ (req[t].op = "create" => req[t].id # req[u].id)
      BY <1>4, <1>9, <2>1, AtWork, RequestFacts DEF Locks, FreshIds, Working
    <3>2. QED
      BY <3>1, CommitEffect
  <2>2. QED
    BY <2>1 DEF Locks, FreshIds
<1>11. Undrawn'
  <2>1. ASSUME NEW q \in Requests, q.op = "create", objects'[q.id].exists PROVE Drawn(q.id)
    <3>1. q.id \in AllIds /\ req[t] # None
      BY <1>4, RequestFacts, AtWork DEF Working
    <3>2. CASE objects[q.id].exists
      BY <2>1, <3>2 DEF Locks, Undrawn
    <3>3. CASE ~objects[q.id].exists
      BY <2>1, <3>1, <3>3, CommitEffect DEF Drawn
    <3>4. QED
      BY <3>2, <3>3
  <2>2. QED
    BY <2>1 DEF Undrawn, Drawn
<1>12. QED
  BY <1>5, <1>6, <1>7, <1>8, <1>10, <1>11 DEF Locks

\* A statement that commits nothing keeps the locks sound when what it adds is.
LEMMA StatementLocks ==
    ASSUME Shape, Locks, NEW t \in Tx, pc[t] \in Working, pc'[t] \in Working,
           UNCHANGED <<objects, req>>, \A u \in Tx \ {t} : SameFor(u),
           excl[t] \subseteq excl'[t],
           \A i \in excl'[t] \ excl[t] : objects[i].exists /\ ~UpdateBlocked(t, i),
           \A i \in share'[t] \ share[t] :
              LiveRow(objects, i) /\ objects[i].kind = "folder" /\ ~ShareBlocked(t, i),
           \A i \in WalkedIds(t)' : objects[i].exists,
           pc'[t] # "lockRows" => WalkedIds(t)' \subseteq excl'[t],
           \A i \in dirty'[t] :
              /\ i \in excl'[t] \/ (req[t].op = "create" /\ i = req[t].id)
              /\ buf'[t][i].exists,
           pc[t] = "lockTarget" =>
              /\ req[t].id \in excl'[t] /\ LiveRow(objects, req[t].id)
              /\ req[t].if_match # None => objects[req[t].id].revision = req[t].if_match
              /\ req[t].id = Root => req[t].op = "patch" /\ req[t].parent = Keep
    PROVE  Locks'
<1>1. Exclusive'
  BY DEF Locks, Exclusive, SameFor, UpdateBlocked, ShareBlocked
<1>2. Shared'
  BY DEF Locks, Shared, SameFor, LiveRow
<1>3. KnownRows'
  <2>1. \A u \in Tx \ {t} : WalkedIds(u)' = WalkedIds(u)
    BY DEF WalkedIds, SameFor
  <2>2. \A i \in excl'[t] : objects[i].exists
    BY DEF Locks, KnownRows
  <2>3. QED
    BY <2>1, <2>2 DEF Locks, KnownRows, SameFor
<1>4. TargetHeld'
  BY DEF Locks, TargetHeld, SameFor, LiveRow
<1>5. FreshIds'
  BY DEF Locks, FreshIds, SameFor
<1>6. Undrawn'
  BY DEF Locks, Undrawn, Drawn
<1>7. QED
  BY <1>1, <1>2, <1>3, <1>4, <1>5, <1>6 DEF Locks

LEMMA BeginLocks == ASSUME Shape, Locks, NEW t \in Tx, Begin(t) PROVE Locks'
<1> USE DEF Begin, Goto
<1>1. PICK q \in Requests :
        /\ FreshId(q) /\ req' = [req EXCEPT ![t] = q]
        /\ pc' = [pc EXCEPT ![t] = IF q.op = "create" THEN "lockParent" ELSE "lockTarget"]
  OBVIOUS
<1>2. /\ q # None /\ pc[t] = "idle" /\ req[t] = None /\ dirty[t] = {}
      /\ req'[t] = q /\ (\A u \in Tx \ {t} : req'[u] = req[u] /\ pc'[u] = pc[u])
      /\ q.op # "create" => pc'[t] = "lockTarget"
  <2>1. /\ req \in [Tx -> Requests \cup {None}]
        /\ pc \in [Tx -> Working \cup {"idle", "done"}]
    BY DEF Shape, TypeOK
  <2>2. q # None /\ pc[t] = "idle" /\ req[t] = None /\ dirty[t] = {}
    BY RequestFacts DEF Shape, Requested, Phased
  <2>3. QED
    BY <1>1, <2>1, <2>2
<1>3. Exclusive' /\ Shared'
  BY DEF Locks, Exclusive, Shared, LiveRow
<1>4. KnownRows'
  <2>1. \A u \in Tx : WalkedIds(u)' = WalkedIds(u)
    BY DEF WalkedIds
  <2>2. WalkedIds(t) \subseteq excl[t]
    BY <1>2 DEF Locks, KnownRows
  <2>3. QED
    BY <1>2, <2>1, <2>2 DEF Locks, KnownRows
<1>5. TargetHeld'
  BY <1>2 DEF Locks, TargetHeld, LiveRow, Working
<1>6. ASSUME q.op = "create" PROVE ~Drawn(q.id)
  BY <1>1, <1>6 DEF FreshId, Drawn
<1>7. FreshIds'
  <2>1. q.op = "create" => ~objects[q.id].exists
    BY <1>6 DEF Locks, Undrawn
  <2>2. QED
    BY <1>2, <1>6, <2>1 DEF Locks, FreshIds, Drawn
<1>8. Undrawn'
  BY <1>2 DEF Locks, Undrawn, Drawn
<1>9. QED
  BY <1>3, <1>4, <1>5, <1>7, <1>8 DEF Locks

LEMMA FailLocks == ASSUME Shape, Locks, NEW t \in Tx, pc[t] \in Working, Fail(t) PROVE Locks'
BY EndLocks DEF Fail

\* Every statement keeps what the locks promise.
LEMMA StepLocks == ASSUME Shape, Locks, NEW t \in Tx, Step(t) PROVE Locks'
<1>1. TypeOK /\ Requested /\ Phased
  BY DEF Shape
<1>2. pc[t] \in Working
  BY DEF Step, LockTarget, LockParent, CheckMove, CheckEmpty, WalkDescendants, LockRow,
     RowsLocked, WriteNamed, WriteDeleted, RecheckMove, AppendChanges, Commit, Working
<1>3. /\ req[t] \in Requests /\ req[t].op \in {"create", "patch", "delete"}
      /\ req[t].id \in AllIds /\ req[t] # None
  BY <1>1, <1>2, AtWork, RequestFacts DEF Working
<1>4. \A u \in Tx \ {t} : SameFor(u)
  BY Frame
<1>5. /\ \A i \in excl[t] \cup WalkedIds(t) : objects[i].exists
      /\ \A i \in dirty[t] :
            (i \in excl[t] \/ (req[t].op = "create" /\ i = req[t].id)) /\ buf[t][i].exists
      /\ pc[t] # "lockRows" => WalkedIds(t) \subseteq excl[t]
  BY DEF Locks, KnownRows
<1>6. ASSUME pc[t] # "lockTarget", req[t].op # "create"
      PROVE  req[t].id \in excl[t] /\ LiveRow(objects, req[t].id)
  BY <1>2, <1>6 DEF Locks, TargetHeld
<1>7. /\ share \in [Tx -> SUBSET AllIds] /\ excl \in [Tx -> SUBSET AllIds]
      /\ walk \in [Tx -> Seq(AllIds)] /\ pc \in [Tx -> Working \cup {"idle", "done"}]
      /\ dirty \in [Tx -> SUBSET AllIds] /\ buf \in [Tx -> [AllIds -> Rows]]
  BY <1>1 DEF TypeOK
<1>8. CASE Fail(t)
  BY <1>2, <1>8, FailLocks
<1>9. CASE LockTarget(t) /\ ~Fail(t)
  <2>1. /\ ~UpdateBlocked(t, req[t].id) /\ ~TargetRefused(t) /\ pc[t] = "lockTarget"
        /\ excl' = [excl EXCEPT ![t] = @ \cup {req[t].id}] /\ Goto(t, AfterLock(t))
        /\ UNCHANGED <<objects, req, share, dirty, buf, walk>>
    BY <1>9 DEF LockTarget
  <2>2. pc'[t] \in Working \ {"lockRows"}
    <3>1. req[t].op # "create"
      BY <1>1, <2>1 DEF Requested
    <3>2. AfterLock(t) \in {"commit", "lockParent", "write", "walk", "checkEmpty"}
      BY <1>3, <3>1, AfterLockFacts
    <3>3. pc'[t] = AfterLock(t)
      BY <1>7, <2>1 DEF Goto
    <3>4. QED
      BY <3>2, <3>3 DEF Working
  <2>3. excl'[t] = excl[t] \cup {req[t].id} /\ WalkedIds(t)' = WalkedIds(t)
    BY <1>7, <2>1 DEF WalkedIds
  <2>4. /\ LiveRow(objects, req[t].id)
        /\ req[t].if_match # None => objects[req[t].id].revision = req[t].if_match
        /\ req[t].id = Root => req[t].op = "patch" /\ req[t].parent = Keep
    BY <1>1, <1>3, <2>1 DEF TargetRefused, Requested
  <2>5. QED
    BY <1>2, <1>4, <1>5, <2>1, <2>2, <2>3, <2>4, StatementLocks DEF LiveRow
<1>10. CASE LockParent(t) /\ ~Fail(t)
  <2>1. /\ ~ShareBlocked(t, Destination(t)) /\ pc[t] = "lockParent"
        /\ LiveRow(objects, Destination(t)) /\ objects[Destination(t)].kind = "folder"
        /\ share' = [share EXCEPT ![t] = @ \cup {Destination(t)}]
        /\ UNCHANGED <<objects, req, excl, dirty, buf, walk>>
        /\ Goto(t, "checkMove") \/ Goto(t, "write")
    BY <1>10 DEF LockParent
  <2>2. /\ pc'[t] \in Working \ {"lockRows"} /\ WalkedIds(t)' = WalkedIds(t)
        /\ share'[t] = share[t] \cup {Destination(t)}
    BY <1>7, <2>1 DEF WalkedIds, Goto, Working
  <2>3. QED
    BY <1>2, <1>4, <1>5, <2>1, <2>2, StatementLocks
<1>11. CASE (CheckMove(t) \/ CheckEmpty(t) \/ RecheckMove(t)) /\ ~Fail(t)
  <2>1. /\ pc[t] \notin {"lockTarget", "lockRows"}
        /\ Goto(t, "write") \/ Goto(t, "append")
        /\ UNCHANGED <<objects, req, share, excl, dirty, buf, walk>>
    BY <1>11 DEF CheckMove, CheckEmpty, RecheckMove
  <2>2. pc'[t] \in Working \ {"lockRows"} /\ WalkedIds(t)' = WalkedIds(t)
    BY <1>7, <2>1 DEF WalkedIds, Goto, Working
  <2>3. QED
    BY <1>2, <1>4, <1>5, <2>1, <2>2, StatementLocks
<1>12. CASE WalkDescendants(t)
  <2> DEFINE w == WalkOrder(View(t), SubtreeOf(View(t), req[t].id))
  <2>1. /\ pc[t] = "walk" /\ UNCHANGED <<objects, req, share, excl, dirty, buf>>
        /\ \/ Goto(t, "write") /\ UNCHANGED walk
           \/ Goto(t, "lockRows") /\ walk' = [walk EXCEPT ![t] = w]
    BY <1>12 DEF WalkDescendants
  <2>2. dirty[t] = {} /\ LiveRow(objects, req[t].id)
    BY <1>1, <1>6, <2>1 DEF Phased, Requested
  <2>3. \A i \in AllIds : View(t)[i] = objects[i]
    BY <1>1, <2>2, ViewType
  <2>4. \A k \in DOMAIN w : objects[w[k]].exists
    <3>1. {w[k] : k \in DOMAIN w} = SubtreeOf(View(t), req[t].id)
      <4>1. SubtreeOf(View(t), req[t].id) \in SUBSET AllIds
        BY DEF SubtreeOf
      <4>2. w = WalkOrder(View(t), SubtreeOf(View(t), req[t].id))
        OBVIOUS
      <4> HIDE DEF w
      <4>3. QED
        BY <4>1, <4>2, WalkLists
    <3>2. \A j \in SubtreeOf(View(t), req[t].id) : objects[j].exists
      BY <1>3, <2>2, <2>3, SubtreeFacts DEF LiveRow
    <3>3. QED
      BY <3>1, <3>2
  <2> HIDE DEF w
  <2>5. pc'[t] \in {"write", "lockRows"}
    BY <1>7, <2>1 DEF Goto
  <2>6. \A i \in WalkedIds(t)' : objects[i].exists
    BY <1>5, <1>7, <2>1, <2>4 DEF WalkedIds
  <2>7. pc'[t] # "lockRows" => WalkedIds(t)' \subseteq excl'[t]
    BY <1>5, <1>7, <2>1 DEF WalkedIds, Goto
  <2>8. QED
    BY <1>2, <1>4, <1>5, <2>1, <2>5, <2>6, <2>7, StatementLocks DEF Working
<1>13. CASE LockRow(t)
  <2>1. PICK i \in WalkedIds(t) \ excl[t] :
          ~UpdateBlocked(t, i) /\ excl' = [excl EXCEPT ![t] = @ \cup {i}]
    BY <1>13 DEF LockRow
  <2>2. pc[t] = "lockRows" /\ UNCHANGED <<objects, req, pc, share, dirty, buf, walk>>
    BY <1>13 DEF LockRow
  <2>3. excl'[t] = excl[t] \cup {i} /\ WalkedIds(t)' = WalkedIds(t) /\ pc'[t] = "lockRows"
    BY <1>7, <2>1, <2>2 DEF WalkedIds
  <2>4. QED
    BY <1>2, <1>4, <1>5, <2>1, <2>2, <2>3, StatementLocks
<1>14. CASE RowsLocked(t) /\ ~Fail(t)
  <2>1. /\ pc[t] = "lockRows" /\ WalkedIds(t) \subseteq excl[t] /\ Goto(t, "walk")
        /\ UNCHANGED <<objects, req, share, excl, dirty, buf, walk>>
    BY <1>14 DEF RowsLocked
  <2>2. pc'[t] = "walk" /\ WalkedIds(t)' = WalkedIds(t)
    BY <1>7, <2>1 DEF WalkedIds, Goto
  <2>3. QED
    BY <1>2, <1>4, <1>5, <2>1, <2>2, StatementLocks DEF Working
<1>15. CASE WriteNamed(t) /\ ~Fail(t)
  <2> DEFINE row == IF req[t].op = "create" THEN CreatedRow(t) ELSE PatchedRow(t)
  <2>1. /\ pc[t] = "write" /\ req[t].op \in {"create", "patch"}
        /\ dirty' = [dirty EXCEPT ![t] = {req[t].id}]
        /\ buf' = [buf EXCEPT ![t] = [buf[t] EXCEPT ![req[t].id] = row]]
        /\ UNCHANGED <<objects, req, share, excl, walk>>
        /\ Goto(t, "recheck") \/ Goto(t, "append")
    BY <1>7, <1>15 DEF WriteNamed
  <2>2. row.exists
    <3>1. CreatedRow(t).exists
      BY DEF CreatedRow
    <3>2. req[t].op = "patch" => PatchedRow(t).exists = Current(t).exists
      BY <1>1, <1>3, WrittenRowTypes DEF PatchedRow, Rows
    <3>3. req[t].op = "patch" => Current(t).exists
      <4>1. dirty[t] = {}
        BY <1>1, <2>1 DEF Phased
      <4>2. QED
        BY <1>1, <1>3, <1>6, <2>1, <4>1, ViewType DEF Current, LiveRow
    <3>4. QED
      BY <2>1, <3>1, <3>2, <3>3
  <2> HIDE DEF row
  <2>3. dirty'[t] = {req[t].id} /\ buf'[t][req[t].id] = row
    BY <1>3, <1>7, <2>1
  <2>4. pc'[t] \in Working \ {"lockRows"} /\ WalkedIds(t)' = WalkedIds(t)
    BY <1>7, <2>1 DEF WalkedIds, Goto, Working
  <2>5. req[t].op # "create" => req[t].id \in excl[t]
    BY <1>6, <2>1
  <2>6. QED
    BY <1>2, <1>4, <1>5, <2>1, <2>2, <2>3, <2>4, <2>5, StatementLocks
<1>16. CASE WriteDeleted(t)
  <2> DEFINE ids == {Targets(t)[k] : k \in DOMAIN Targets(t)}
             left == [i \in AllIds |-> IF i \in ids /\ LiveRow(objects, i)
                                       THEN DeletedRow(objects[i]) ELSE buf[t][i]]
  <2>1. /\ pc[t] = "write" /\ req[t].op = "delete" /\ Goto(t, "append")
        /\ dirty' = [dirty EXCEPT ![t] = {i \in ids : LiveRow(objects, i)}]
        /\ buf' = [buf EXCEPT ![t] = left]
        /\ UNCHANGED <<objects, req, share, excl, walk>>
    BY <1>7, <1>16 DEF WriteDeleted
  <2>2. ids \subseteq {req[t].id} \cup WalkedIds(t)
    BY DEF Targets, WalkedIds
  <2>3. \A i \in ids : i \in excl[t] /\ i \in AllIds
    BY <1>5, <1>6, <1>7, <2>1, <2>2
  <2>4. \A i \in ids : LiveRow(objects, i) => left[i].exists
    <3>1. \A i \in AllIds : DeletedRow(objects[i]).exists = objects[i].exists
      BY <1>1 DEF DeletedRow, TypeOK, Rows
    <3>2. QED
      BY <2>3, <3>1 DEF LiveRow
  <2> HIDE DEF ids, left
  <2>5. dirty'[t] = {i \in ids : LiveRow(objects, i)} /\ buf'[t] = left
    BY <1>7, <2>1
  <2>6. pc'[t] = "append" /\ WalkedIds(t)' = WalkedIds(t)
    BY <1>7, <2>1 DEF WalkedIds, Goto
  <2>7. QED
    BY <1>2, <1>4, <1>5, <2>1, <2>3, <2>4, <2>5, <2>6, StatementLocks DEF Working
<1>17. CASE AppendChanges(t)
  <2>1. pc[t] = "append" /\ Goto(t, "commit") /\ UNCHANGED <<objects, req, share, excl, dirty, buf, walk>>
    BY <1>17 DEF AppendChanges
  <2>2. pc'[t] = "commit" /\ WalkedIds(t)' = WalkedIds(t)
    BY <1>7, <2>1 DEF WalkedIds, Goto
  <2>3. QED
    BY <1>2, <1>4, <1>5, <2>1, <2>2, StatementLocks DEF Working
<1>18. CASE Commit(t)
  BY <1>2, <1>18, EndLocks DEF Commit
<1>19. QED
  BY <1>8, <1>9, <1>10, <1>11, <1>12, <1>13, <1>14, <1>15, <1>16, <1>17, <1>18 DEF Step

-----------------------------------------------------------------------------
(* What a transaction is about to commit stays right until it commits *)

LEMMA InitReady == Init => RowsReady
<1> SUFFICES ASSUME Init PROVE RowsReady
  OBVIOUS
<1>1. Rooted
  BY TreeAssumption DEF Init, Rooted
<1>2. ASSUME NEW t \in Tx PROVE Ready(t)
  BY DEF Init, Ready, ParentHeldBy, TargetsHeldBy, WrittenBy
<1>3. QED
  BY <1>1, <1>2 DEF RowsReady

\* What another transaction is about to commit is as right as it was.
LEMMA OthersReady ==
    ASSUME Shape, Locks, RowsReady, NEW u \in Tx, SameFor(u),
           \A i \in excl[u] : objects'[i] = objects[i]
    PROVE  Ready(u)'
<1>1. CASE pc[u] \in Working \ {"lockTarget"}
  <2>1. req[u].op # "create" => objects'[req[u].id] = objects[req[u].id]
    BY <1>1 DEF Locks, TargetHeld
  <2>2. /\ TargetIds(u)' = TargetIds(u) /\ CreatedRow(u)' = CreatedRow(u)
        /\ ListedOnce(u)' = ListedOnce(u)
    BY DEF TargetIds, Targets, SameFor, CreatedRow, ListedOnce
  <2>3. req[u].op # "create" =>
          /\ Wants(u)' = Wants(u) /\ NewMeta(u)' = NewMeta(u) /\ NewName(u)' = NewName(u)
          /\ Differs(u)' = Differs(u)
    BY <2>1 DEF Wants, NewMeta, NewName, Differs, SameFor
  <2>4. Ready(u)
    BY DEF RowsReady
  <2>5. ParentHeldBy(u)'
    BY <2>1, <2>3, <2>4 DEF Ready, ParentHeldBy, SameFor
  <2>6. TargetsHeldBy(u)'
    BY <2>2, <2>4 DEF Ready, TargetsHeldBy, SameFor, LiveRow
  <2>7. ASSUME pc[u] \in {"recheck", "append", "commit"}, req[u].op = "delete"
        PROVE  \A i \in dirty[u] : objects'[i] = objects[i]
    <3>1. pc[u] # "recheck"
      BY <2>7 DEF Shape, Requested
    <3>2. dirty[u] \subseteq excl[u]
      BY <2>4, <2>7, <3>1 DEF Ready, TargetsHeldBy, WrittenBy
    <3>3. QED
      BY <3>2
  <2>8. WrittenBy(u)'
    BY <2>1, <2>2, <2>3, <2>4, <2>7 DEF Ready, WrittenBy, SameFor, IsPatchOf, IsTombstoneOf
  <2>9. QED
    BY <2>5, <2>6, <2>8 DEF Ready
<1>2. CASE pc[u] \notin Working \ {"lockTarget"}
  <2>1. pc'[u] \notin Working \ {"lockTarget"}
    BY <1>2 DEF SameFor
  <2>2. QED
    BY <2>1 DEF Ready, ParentHeldBy, TargetsHeldBy, WrittenBy, Working
<1>3. QED
  BY <1>1, <1>2

\* A commit or a rollback leaves the others ready.
LEMMA EndReady ==
    ASSUME Shape, Locks, RowsReady, NEW t \in Tx, pc[t] \in Working, End(t), UNCHANGED req,
           UNCHANGED objects \/ Commit(t)
    PROVE  RowsReady'
<1>1. Over(t) /\ \A u \in Tx \ {t} : SameFor(u)
  BY EndFacts
<1>2. \A u \in Tx \ {t} : \A i \in excl[u] : objects'[i] = objects[i]
  BY HeldStill
<1>3. ASSUME NEW u \in Tx \ {t} PROVE Ready(u)'
  BY <1>1, <1>2, OthersReady
<1>4. Ready(t)'
  BY <1>1 DEF Over, Ready, ParentHeldBy, TargetsHeldBy, WrittenBy
<1>5. Rooted'
  <2>1. CASE UNCHANGED objects
    BY <2>1 DEF RowsReady, Rooted
  <2>2. CASE Commit(t) /\ Root \notin dirty[t]
    BY <2>2, CommitEffect, IdFacts DEF RowsReady, Rooted
  <2>3. CASE Commit(t) /\ Root \in dirty[t]
    <3>1. objects'[Root] = buf[t][Root] /\ pc[t] = "commit"
      BY <2>3, CommitEffect, IdFacts DEF Commit
    <3>2. req[t] \in Requests /\ req[t].op \in {"create", "patch", "delete"}
      BY <3>1, AtWork, RequestFacts DEF Shape
    <3>3. Ready(t) /\ objects[Root].parent = NoParent
      BY DEF RowsReady, Rooted
    <3>4. CASE req[t].op = "create"
      BY <2>3, <3>1, <3>2, <3>3, <3>4, IdFacts, TreeAssumption DEF Ready, WrittenBy
    <3>5. CASE req[t].op = "patch"
      <4>1. req[t].id = Root /\ IsPatchOf(buf[t][Root], t)
        BY <2>3, <3>1, <3>3, <3>5 DEF Ready, WrittenBy
      <4>2. req[t].parent = Keep
        BY <3>1, <3>5, <4>1 DEF Locks, TargetHeld, Working
      <4>3. QED
        BY <3>1, <3>3, <4>1, <4>2 DEF IsPatchOf, Wants, Target, Rooted
    <3>6. CASE req[t].op = "delete"
      BY <2>3, <3>1, <3>3, <3>6 DEF Ready, WrittenBy, IsTombstoneOf, Rooted
    <3>7. QED
      BY <3>2, <3>4, <3>5, <3>6
  <2>4. QED
    BY <2>1, <2>2, <2>3
<1>6. QED
  BY <1>3, <1>4, <1>5 DEF RowsReady

\* Before it has written, a transaction sees the committed rows.
LEMMA CurrentFacts ==
    ASSUME Shape, NEW t \in Tx, req[t] \in Requests, dirty[t] = {}
    PROVE  /\ \A i \in AllIds : View(t)[i] = objects[i]
           /\ Current(t) = objects[req[t].id] /\ NewParent(t) = Wants(t)
           /\ (ParentChanged(t) \/ NameChanged(t) \/ MetaChanged(t)) <=> Differs(t)
<1>1. \A i \in AllIds : View(t)[i] = objects[i]
  BY ViewType DEF Shape
<1>2. Current(t) = objects[req[t].id]
  BY <1>1, RequestFacts DEF Current
<1>3. NewParent(t) = Wants(t)
  BY <1>2 DEF NewParent, Wants
<1>4. TargetMetadata(t) = NewMeta(t)
  BY <1>2 DEF TargetMetadata, NewMeta
<1>5. QED
  BY <1>1, <1>2, <1>3, <1>4 DEF ParentChanged, NameChanged, MetaChanged, Differs, NewName

\* The row a patch writes.
LEMMA PatchedRowFacts ==
    ASSUME Shape, NEW t \in Tx, req[t] \in Requests, req[t].op = "patch", dirty[t] = {},
           LiveRow(objects, req[t].id)
    PROVE  IsPatchOf(PatchedRow(t), t)
<1>1. Current(t) = objects[req[t].id] /\ NewParent(t) = Wants(t)
  BY CurrentFacts
<1>2. Current(t) \in Rows
  BY WrittenRowTypes DEF Shape
<1>3. TargetMetadata(t) = NewMeta(t) /\ Target(req[t].name, Current(t).name) = NewName(t)
  BY <1>1 DEF TargetMetadata, NewMeta, NewName
<1>4. PatchedRow(t) = [Current(t) EXCEPT !.parent = NewParent(t),
                          !.name = Target(req[t].name, Current(t).name),
                          !.meta = TargetMetadata(t), !.revision = Current(t).revision + 1]
  BY DEF PatchedRow
<1>5. QED
  BY <1>1, <1>2, <1>3, <1>4 DEF IsPatchOf, Rows, LiveRow

\* A statement that commits nothing leaves the others ready.
LEMMA StatementReady ==
    ASSUME Shape, Locks, RowsReady, NEW t \in Tx, Begin(t) \/ Step(t),
           UNCHANGED objects, Ready(t)'
    PROVE  RowsReady'
<1>1. \A u \in Tx \ {t} : SameFor(u)
  BY Frame
<1>2. ASSUME NEW u \in Tx \ {t} PROVE Ready(u)'
  BY <1>1, OthersReady
<1>3. Rooted'
  BY DEF RowsReady, Rooted
<1>4. QED
  BY <1>2, <1>3 DEF RowsReady

\* The walk of a delete that holds nothing new: every target is locked and live.
LEMMA WalkSettled ==
    ASSUME Shape, Locks, NEW t \in Tx, pc[t] = "walk",
           walk[t] = WalkOrder(View(t), SubtreeOf(View(t), req[t].id))
    PROVE  /\ Targets(t) = walk[t]
           /\ TargetIds(t) = SubtreeOf(View(t), req[t].id)
           /\ req[t].id \in TargetIds(t) /\ TargetIds(t) \subseteq excl[t]
           /\ \A i \in TargetIds(t) : LiveRow(objects, i)
           /\ ListedOnce(t)
<1> DEFINE S == SubtreeOf(View(t), req[t].id)
<1>1. /\ req[t] \in Requests /\ req[t].id \in AllIds /\ req[t].op = "delete" /\ dirty[t] = {}
      /\ req[t] # None
  BY AtWork, RequestFacts DEF Shape, Requested, Phased
<1>2. LiveRow(objects, req[t].id)
  BY <1>1 DEF Locks, TargetHeld, Working
<1>3. \A i \in AllIds : View(t)[i] = objects[i]
  BY <1>1, CurrentFacts
<1>4. S \in SUBSET AllIds /\ req[t].id \in S
  BY <1>1, SubtreeFacts DEF SubtreeOf
<1>5. \A i \in S : LiveRow(objects, i)
  BY <1>1, <1>2, <1>3, SubtreeFacts DEF LiveRow
<1> HIDE DEF S
<1>6. /\ {walk[t][k] : k \in DOMAIN walk[t]} = S /\ walk[t] # << >>
      /\ \A k, l \in DOMAIN walk[t] : walk[t][k] = walk[t][l] => k = l
  <2>1. walk[t] = WalkOrder(View(t), S)
    BY DEF S
  <2>2. /\ {walk[t][k] : k \in DOMAIN walk[t]} = S /\ (S # {} => walk[t] # << >>)
        /\ \A k, l \in DOMAIN walk[t] : walk[t][k] = walk[t][l] => k = l
    BY <1>4, <2>1, WalkLists
  <2>3. QED
    BY <1>4, <2>2
<1>7. Targets(t) = walk[t] /\ TargetIds(t) = S /\ WalkedIds(t) = S /\ ListedOnce(t)
  BY <1>6 DEF Targets, TargetIds, WalkedIds, ListedOnce
<1>8. WalkedIds(t) \subseteq excl[t]
  BY DEF Locks, KnownRows
<1>9. QED
  BY <1>4, <1>5, <1>7, <1>8 DEF S

\* A delete whose only target is its object.
LEMMA OneTarget ==
    ASSUME NEW t \in Tx, walk[t] = << >>
    PROVE  Targets(t) = << req[t].id >> /\ TargetIds(t) = {req[t].id} /\ ListedOnce(t)
<1>1. Targets(t) = << req[t].id >>
  BY DEF Targets
<1>2. DOMAIN Targets(t) = {1} /\ Targets(t)[1] = req[t].id
  BY <1>1
<1>3. QED
  BY <1>1, <1>2 DEF TargetIds, ListedOnce

\* The row a delete writes.
LEMMA TombstoneFacts ==
    ASSUME NEW r \in Rows, r.exists
    PROVE  IsTombstoneOf(DeletedRow(r), r)
<1>1. DeletedRow(r) = [r EXCEPT !.deleted = TRUE, !.revision = r.revision + 1]
  BY DEF DeletedRow
<1>2. QED
  BY <1>1 DEF IsTombstoneOf, Rows

\* Every statement keeps the rows that are ready right.
LEMMA StepReady == ASSUME Shape, Locks, RowsReady, NEW t \in Tx, Step(t) PROVE RowsReady'
<1>1. TypeOK /\ Requested /\ Phased
  BY DEF Shape
<1>2. pc[t] \in Working
  BY DEF Step, LockTarget, LockParent, CheckMove, CheckEmpty, WalkDescendants, LockRow,
     RowsLocked, WriteNamed, WriteDeleted, RecheckMove, AppendChanges, Commit, Working
<1>3. /\ req[t] \in Requests /\ req[t].op \in {"create", "patch", "delete"}
      /\ req[t].id \in AllIds /\ req[t] # None
  BY <1>1, <1>2, AtWork, RequestFacts DEF Working
<1>4. Ready(t)
  BY DEF RowsReady
<1>5. ASSUME pc[t] # "lockTarget", req[t].op # "create"
      PROVE  req[t].id \in excl[t] /\ LiveRow(objects, req[t].id)
  BY <1>2, <1>5 DEF Locks, TargetHeld
<1>6. /\ share \in [Tx -> SUBSET AllIds] /\ excl \in [Tx -> SUBSET AllIds]
      /\ walk \in [Tx -> Seq(AllIds)] /\ pc \in [Tx -> Working \cup {"idle", "done"}]
      /\ dirty \in [Tx -> SUBSET AllIds] /\ buf \in [Tx -> [AllIds -> Rows]]
      /\ objects \in [AllIds -> Rows]
  BY <1>1 DEF TypeOK
<1>7. pc[t] \notin {"recheck", "append", "commit"} => dirty[t] = {}
  BY <1>1 DEF Phased
<1>8. CASE Fail(t)
  BY <1>2, <1>8, EndReady DEF Fail
<1>9. CASE LockTarget(t) /\ ~Fail(t)
  <2>1. /\ ~TargetRefused(t) /\ pc[t] = "lockTarget" /\ Goto(t, AfterLock(t))
        /\ excl' = [excl EXCEPT ![t] = @ \cup {req[t].id}]
        /\ UNCHANGED <<objects, req, share, dirty, buf, walk, pending>>
    BY <1>9 DEF LockTarget
  <2>2. req[t].op \in {"patch", "delete"} /\ dirty[t] = {} /\ walk[t] = << >> /\ pending[t] = {}
    BY <1>1, <1>3, <2>1 DEF Requested, Phased
  <2>3. pc'[t] = AfterLock(t) /\ req[t].id \in excl'[t] /\ LiveRow(objects, req[t].id)
    BY <1>6, <2>1 DEF Goto, TargetRefused
  <2>4. /\ Current(t) = objects[req[t].id] /\ NewParent(t) = Wants(t)
        /\ (ParentChanged(t) \/ NameChanged(t) \/ MetaChanged(t)) <=> Differs(t)
    BY <1>3, <2>2, CurrentFacts
  <2>5. /\ Wants(t)' = Wants(t) /\ Differs(t)' = Differs(t)
        /\ Targets(t)' = Targets(t) /\ TargetIds(t)' = TargetIds(t)
        /\ ListedOnce(t)' = ListedOnce(t)
    BY <2>1 DEF Wants, Differs, NewName, NewMeta, Targets, TargetIds, ListedOnce
  <2>6. pc'[t] \in {"commit", "lockParent", "write", "walk", "checkEmpty"}
    BY <2>2, <2>3, AfterLockFacts
  <2>7. ASSUME req[t].op = "patch"
        PROVE  /\ pc'[t] \in {"lockParent", "write"} => Differs(t)
               /\ pc'[t] \in {"write", "commit"} => Wants(t) = objects[req[t].id].parent
    BY <2>3, <2>4, <2>7 DEF AfterLock, ParentChanged
  <2>8. req[t].op = "delete" => pc'[t] # "commit"
    BY <2>3 DEF AfterLock
  <2>9. ParentHeldBy(t)'
    BY <2>1, <2>2, <2>5, <2>6, <2>7 DEF ParentHeldBy
  <2>10. TargetsHeldBy(t)'
    BY <2>1, <2>2, <2>3, <2>5, OneTarget DEF TargetsHeldBy, LiveRow
  <2>11. WrittenBy(t)'
    BY <2>1, <2>2, <2>6, <2>8 DEF WrittenBy
  <2>12. QED
    BY <2>1, <2>9, <2>10, <2>11, StatementReady DEF Ready
<1>10. CASE LockParent(t) /\ ~Fail(t)
  <2>1. /\ pc[t] = "lockParent" /\ UNCHANGED <<objects, req, excl, dirty, buf, walk, pending>>
        /\ share' = [share EXCEPT ![t] = @ \cup {Destination(t)}]
        /\ Goto(t, "checkMove") \/ Goto(t, "write")
    BY <1>10 DEF LockParent
  <2>2. req[t].op # "delete" /\ pc'[t] \in {"checkMove", "write"} /\ Destination(t) \in share'[t]
    BY <1>1, <1>6, <2>1 DEF Requested, Goto
  <2>3. req[t].op # "create" => Destination(t) = Wants(t)
    BY <1>3, <1>7, <2>1, CurrentFacts DEF Destination
  <2>4. req[t].op = "create" => Destination(t) = req[t].parent
    BY DEF Destination
  <2>5. Wants(t)' = Wants(t) /\ Differs(t)' = Differs(t)
    BY <2>1 DEF Wants, Differs, NewName, NewMeta
  <2>6. ParentHeldBy(t)'
    BY <1>4, <2>1, <2>2, <2>3, <2>4, <2>5 DEF Ready, ParentHeldBy
  <2>7. TargetsHeldBy(t)' /\ WrittenBy(t)'
    BY <2>1, <2>2 DEF TargetsHeldBy, WrittenBy
  <2>8. QED
    BY <2>1, <2>6, <2>7, StatementReady DEF Ready
<1>11. CASE (CheckMove(t) \/ RecheckMove(t) \/ AppendChanges(t)) /\ ~Fail(t)
  <2>1. /\ pc[t] \in {"checkMove", "recheck", "append"}
        /\ UNCHANGED <<objects, req, excl, share, dirty, buf, walk>>
    BY <1>11 DEF CheckMove, RecheckMove, AppendChanges
  <2>2. /\ pc[t] = "checkMove" => pc'[t] = "write"
        /\ pc[t] = "recheck" => pc'[t] = "append"
        /\ pc[t] = "append" => pc'[t] = "commit"
    BY <1>6, <1>11 DEF CheckMove, RecheckMove, AppendChanges, Goto
  <2>3. pc[t] \in {"checkMove", "recheck"} => req[t].op = "patch"
    BY <1>1 DEF Requested
  <2>4. /\ Wants(t)' = Wants(t) /\ Differs(t)' = Differs(t) /\ NewMeta(t)' = NewMeta(t)
        /\ NewName(t)' = NewName(t) /\ Targets(t)' = Targets(t) /\ TargetIds(t)' = TargetIds(t)
        /\ CreatedRow(t)' = CreatedRow(t) /\ ListedOnce(t)' = ListedOnce(t)
    BY <2>1 DEF Wants, Differs, NewName, NewMeta, Targets, TargetIds, CreatedRow, ListedOnce
  <2>5. ParentHeldBy(t)'
    BY <1>4, <2>1, <2>2, <2>3, <2>4 DEF Ready, ParentHeldBy
  <2>6. TargetsHeldBy(t)'
    BY <1>4, <2>1, <2>2, <2>3, <2>4 DEF Ready, TargetsHeldBy, LiveRow
  <2>7. WrittenBy(t)'
    BY <1>4, <2>1, <2>2, <2>4 DEF Ready, WrittenBy, IsPatchOf, IsTombstoneOf
  <2>8. Step(t)
    BY <1>11 DEF Step
  <2>9. QED
    BY <2>1, <2>5, <2>6, <2>7, <2>8, StatementReady DEF Ready
<1>12. CASE (CheckEmpty(t) \/ LockRow(t) \/ RowsLocked(t)) /\ ~Fail(t)
  <2>1. /\ pc[t] \in {"checkEmpty", "lockRows"} /\ UNCHANGED <<objects, req, share, dirty, buf, walk>>
        /\ excl[t] \subseteq excl'[t]
    BY <1>6, <1>12 DEF CheckEmpty, LockRow, RowsLocked
  <2>2. /\ pc'[t] \in {"write", "walk", "lockRows"}
        /\ pc'[t] = "write" => pc[t] = "checkEmpty"
    BY <1>6, <1>12 DEF CheckEmpty, LockRow, RowsLocked, Goto
  <2>3. req[t].op = "delete"
    BY <1>1, <2>1 DEF Requested
  <2>4. pc[t] = "checkEmpty" => walk[t] = << >>
    BY <1>1 DEF Phased
  <2>5. TargetsHeldBy(t)'
    <3>1. /\ Targets(t)' = Targets(t) /\ TargetIds(t)' = TargetIds(t)
          /\ ListedOnce(t)' = ListedOnce(t)
      BY <2>1 DEF Targets, TargetIds, ListedOnce
    <3>2. QED
      BY <1>5, <2>1, <2>2, <2>3, <2>4, <3>1, OneTarget DEF TargetsHeldBy, LiveRow
  <2>6. ParentHeldBy(t)' /\ WrittenBy(t)'
    BY <2>1, <2>2, <2>3 DEF ParentHeldBy, WrittenBy
  <2>7. Step(t)
    BY <1>12 DEF Step
  <2>8. QED
    BY <2>1, <2>5, <2>6, <2>7, StatementReady DEF Ready
<1>13. CASE WalkDescendants(t)
  <2>1. /\ pc[t] = "walk" /\ UNCHANGED <<objects, req, share, excl, dirty, buf>>
        /\ \/ /\ walk[t] = WalkOrder(View(t), SubtreeOf(View(t), req[t].id))
              /\ UNCHANGED walk /\ pc'[t] = "write"
           \/ pc'[t] = "lockRows"
    BY <1>6, <1>13 DEF WalkDescendants, Goto
  <2>2. req[t].op = "delete"
    BY <1>1, <2>1 DEF Requested
  <2>3. TargetsHeldBy(t)'
    <3>1. CASE pc'[t] = "lockRows"
      BY <3>1 DEF TargetsHeldBy
    <3>2. CASE pc'[t] = "write"
      <4>1. walk[t] = WalkOrder(View(t), SubtreeOf(View(t), req[t].id)) /\ UNCHANGED walk
        BY <2>1, <3>2
      <4>2. /\ req[t].id \in TargetIds(t) /\ TargetIds(t) \subseteq excl[t]
            /\ \A i \in TargetIds(t) : LiveRow(objects, i)
            /\ ListedOnce(t)
        BY <2>1, <4>1, WalkSettled
      <4>3. TargetIds(t)' = TargetIds(t) /\ ListedOnce(t)' = ListedOnce(t)
        BY <2>1, <4>1 DEF TargetIds, Targets, ListedOnce
      <4>4. QED
        BY <2>1, <4>2, <4>3 DEF TargetsHeldBy, LiveRow
    <3>3. QED
      BY <2>1, <3>1, <3>2
  <2>4. ParentHeldBy(t)' /\ WrittenBy(t)'
    BY <2>1, <2>2 DEF ParentHeldBy, WrittenBy
  <2>5. QED
    BY <1>13, <2>1, <2>3, <2>4, StatementReady DEF Ready, Step
<1>14. CASE WriteNamed(t) /\ ~Fail(t)
  <2> DEFINE row == IF req[t].op = "create" THEN CreatedRow(t) ELSE PatchedRow(t)
  <2>1. /\ pc[t] = "write" /\ req[t].op \in {"create", "patch"}
        /\ dirty' = [dirty EXCEPT ![t] = {req[t].id}]
        /\ buf' = [buf EXCEPT ![t] = [buf[t] EXCEPT ![req[t].id] = row]]
        /\ UNCHANGED <<objects, req, share, excl, walk>>
        /\ pc'[t] \in {"recheck", "append"} /\ (pc'[t] = "recheck" => req[t].op = "patch")
    BY <1>6, <1>14 DEF WriteNamed, Goto
  <2>2. req[t].op = "patch" => IsPatchOf(row, t)
    BY <1>3, <1>5, <1>7, <2>1, PatchedRowFacts
  <2>3. req[t].op = "create" => row = CreatedRow(t)
    OBVIOUS
  <2> HIDE DEF row
  <2>4. dirty'[t] = {req[t].id} /\ buf'[t][req[t].id] = row
    BY <1>3, <1>6, <2>1
  <2>5. /\ Wants(t)' = Wants(t) /\ Differs(t)' = Differs(t) /\ NewMeta(t)' = NewMeta(t)
        /\ NewName(t)' = NewName(t) /\ CreatedRow(t)' = CreatedRow(t)
    BY <2>1 DEF Wants, Differs, NewName, NewMeta, CreatedRow
  <2>6. ParentHeldBy(t)'
    BY <1>4, <2>1, <2>5 DEF Ready, ParentHeldBy
  <2>7. TargetsHeldBy(t)'
    BY <2>1 DEF TargetsHeldBy
  <2>8. WrittenBy(t)'
    <3>1. req[t].op = "patch" => IsPatchOf(buf[t][req[t].id], t)'
      BY <2>1, <2>2, <2>4, <2>5 DEF IsPatchOf
    <3>2. QED
      BY <2>1, <2>3, <2>4, <2>5, <3>1 DEF WrittenBy
  <2>9. QED
    BY <1>14, <2>1, <2>6, <2>7, <2>8, StatementReady DEF Ready, Step
<1>15. CASE WriteDeleted(t)
  <2> DEFINE left == [i \in AllIds |-> IF i \in TargetIds(t) /\ LiveRow(objects, i)
                                       THEN DeletedRow(objects[i]) ELSE buf[t][i]]
  <2>1. /\ pc[t] = "write" /\ req[t].op = "delete" /\ pc'[t] = "append"
        /\ dirty' = [dirty EXCEPT ![t] = {i \in TargetIds(t) : LiveRow(objects, i)}]
        /\ buf' = [buf EXCEPT ![t] = left]
        /\ UNCHANGED <<objects, req, share, excl, walk>>
    BY <1>6, <1>15 DEF WriteDeleted, Goto, TargetIds
  <2>2. /\ req[t].id \in TargetIds(t) /\ TargetIds(t) \subseteq excl[t]
        /\ \A i \in TargetIds(t) : LiveRow(objects, i)
        /\ ListedOnce(t)
    BY <1>4, <2>1 DEF Ready, TargetsHeldBy
  <2>3. \A i \in TargetIds(t) : left[i] = DeletedRow(objects[i]) /\ objects[i] \in Rows
    BY <1>6, <2>2
  <2> HIDE DEF left
  <2>4. dirty'[t] = TargetIds(t) /\ buf'[t] = left
    BY <1>6, <2>1, <2>2
  <2>5. TargetIds(t)' = TargetIds(t) /\ ListedOnce(t)' = ListedOnce(t)
    BY <2>1 DEF TargetIds, Targets, ListedOnce
  <2>6. ASSUME NEW i \in TargetIds(t) PROVE IsTombstoneOf(left[i], objects[i])
    BY <2>2, <2>3, <2>6, TombstoneFacts DEF LiveRow
  <2>7. ParentHeldBy(t)'
    BY <2>1 DEF ParentHeldBy
  <2>8. TargetsHeldBy(t)'
    BY <2>1, <2>2, <2>5 DEF TargetsHeldBy, LiveRow
  <2>9. WrittenBy(t)'
    BY <2>1, <2>4, <2>5, <2>6 DEF WrittenBy, IsTombstoneOf
  <2>10. QED
    BY <1>15, <2>1, <2>7, <2>8, <2>9, StatementReady DEF Ready, Step
<1>16. CASE Commit(t)
  BY <1>2, <1>16, EndReady DEF Commit
<1>17. QED
  BY <1>8, <1>9, <1>10, <1>11, <1>12, <1>13, <1>14, <1>15, <1>16 DEF Step

LEMMA BeginReady == ASSUME Shape, Locks, RowsReady, NEW t \in Tx, Begin(t) PROVE RowsReady'
<1>1. pc'[t] \in {"lockParent", "lockTarget"} /\ req[t] = None /\ UNCHANGED objects
      /\ (pc'[t] = "lockParent" => req'[t].op = "create")
  <2>1. PICK q \in Requests :
          /\ req' = [req EXCEPT ![t] = q]
          /\ pc' = [pc EXCEPT ![t] = IF q.op = "create" THEN "lockParent" ELSE "lockTarget"]
    BY DEF Begin, Goto
  <2>2. QED
    BY <2>1 DEF Begin, Shape, TypeOK, Requested
<1>2. Ready(t)'
  BY <1>1 DEF Ready, ParentHeldBy, TargetsHeldBy, WrittenBy
<1>3. QED
  BY <1>1, <1>2, StatementReady

-----------------------------------------------------------------------------
(* Replaying Changes *)

LEMMA ChangeFacts ==
    \A c \in Changes : c.seq \in Nat /\ c.seq > 0 /\ c.id \in AllIds /\ c.revision \in Nat
                       /\ c.tx \in Tx /\ c.row \in Rows
BY DEF Changes

\* A finite, non-empty set of numbers has a greatest member.
LEMMA Maximum ==
    ASSUME NEW S \in SUBSET Nat, IsFiniteSet(S), S # {}
    PROVE  \E a \in S : \A b \in S : b <= a
<1> DEFINE R == {p \in S \X S : p[1] < p[2]}
<1>1. \A a, b \in S : <<a, b>> \in R <=> a < b
  OBVIOUS
<1>2. StrictlyOrders(R, S)
  <2>1. R \in SUBSET (S \X S)
    OBVIOUS
  <2>2. S \subseteq Int
    OBVIOUS
  <2> HIDE DEF R
  <2>3. \A a \in S : <<a, a>> \notin R
    BY <1>1, <2>2
  <2>4. \A a, b \in S : a # b => <<a, b>> \in R \/ <<b, a>> \in R
    BY <1>1, <2>2
  <2>5. \A a, b, c \in S : <<a, b>> \in R /\ <<b, c>> \in R => <<a, c>> \in R
    BY <1>1, <2>2
  <2>6. QED
    BY <2>1, <2>3, <2>4, <2>5 DEF StrictlyOrders
<1> HIDE DEF R
<1>3. Cardinality(S) \in Nat /\ Cardinality(S) # 0
  BY FS_CardinalityType, FS_EmptySet
<1> DEFINE rank(a) == Rank(S, R, a)
<1>4. /\ \A a \in S : rank(a) \in 0..(Cardinality(S) - 1)
      /\ \A a, b \in S : <<a, b>> \in R => rank(a) < rank(b)
      /\ \A a, b \in S : rank(a) = rank(b) => a = b
      /\ \A n \in 0..(Cardinality(S) - 1) : \E a \in S : rank(a) = n
  <2>1. RanksBelowSize(S, R)
    BY <1>2, Ranks
  <2>2. QED
    BY <2>1 DEF RanksBelowSize
<1> HIDE DEF rank
<1>5. PICK a \in S : rank(a) = Cardinality(S) - 1
  BY <1>3, <1>4
<1>6. ASSUME NEW b \in S, ~(b <= a) PROVE FALSE
  <2>1. <<a, b>> \in R
    BY <1>1, <1>6
  <2>2. rank(b) \in Int /\ rank(b) <= Cardinality(S) - 1 /\ rank(a) < rank(b)
    BY <1>3, <1>4, <2>1
  <2>3. QED
    BY <1>3, <1>5, <2>2
<1>7. QED
  BY <1>6

Replayed(F, n) ==
    [i \in AllIds |->
        LET mine == {c \in F : c.id = i /\ c.seq <= n} IN
        IF mine = {} THEN InitialRows[i]
        ELSE (CHOOSE c \in mine : \A d \in mine : d.seq <= c.seq).row]

\* The row a replay shows is the one of the newest Change, or the initial one.
LEMMA ReplayedRow ==
    ASSUME NEW F \in SUBSET Changes, NEW n \in Nat, NEW i \in AllIds
    PROVE  \/ /\ ~\E c \in F : c.id = i /\ c.seq <= n
              /\ Replayed(F, n)[i] = InitialRows[i]
           \/ \E c \in F : /\ c.id = i /\ c.seq <= n /\ Replayed(F, n)[i] = c.row
                           /\ \A d \in F : d.id = i /\ d.seq <= n => d.seq <= c.seq
<1> DEFINE mine == {c \in F : c.id = i /\ c.seq <= n}
<1>1. Replayed(F, n)[i] = IF mine = {} THEN InitialRows[i]
                          ELSE (CHOOSE c \in mine : \A d \in mine : d.seq <= c.seq).row
  BY DEF Replayed
<1>2. CASE mine = {}
  BY <1>1, <1>2
<1>3. CASE mine # {}
  <2> DEFINE S == {c.seq : c \in mine}
  <2>1. IsFiniteSet(0..n)
    BY FS_Interval
  <2>2. S \in SUBSET (0..n) /\ S # {}
    BY <1>3, ChangeFacts
  <2>3. IsFiniteSet(S) /\ S \in SUBSET Nat
    <3> DEFINE I == 0..n
    <3>1. I \in SUBSET Nat
      OBVIOUS
    <3>2. IsFiniteSet(I) /\ S \in SUBSET I
      BY <2>1, <2>2
    <3> HIDE DEF I, S
    <3>3. QED
      BY <3>1, <3>2, FS_Subset
  <2>4. PICK a \in S : \A b \in S : b <= a
    <3> HIDE DEF S
    <3>1. QED
      BY <2>2, <2>3, Maximum
  <2>5. \E c \in mine : \A d \in mine : d.seq <= c.seq
    BY <2>4
  <2> DEFINE top == CHOOSE c \in mine : \A d \in mine : d.seq <= c.seq
  <2>6. top \in mine /\ \A d \in mine : d.seq <= top.seq
    BY <2>5
  <2>7. Replayed(F, n)[i] = top.row
    BY <1>1, <1>3
  <2> HIDE DEF top
  <2>8. QED
    BY <2>6, <2>7
<1>4. QED
  BY <1>2, <1>3

\* P holds newer Changes than F, and those of i leave one row.
Extends(P, F) == F \in SUBSET Changes /\ P \in SUBSET Changes /\ \A c \in P, d \in F : d.seq < c.seq
Leaves(P, i, row) == \A c \in P : c.id = i => c.row = row

Overwrites(P, F, n, i, row) ==
    Replayed(F \cup P, n)[i] =
        IF \E c \in P : c.id = i /\ c.seq <= n THEN row ELSE Replayed(F, n)[i]

\* Changes numbered after all others overwrite the rows they are about.
LEMMA ReplayGrows ==
    ASSUME NEW F, NEW P, Extends(P, F), NEW n \in Nat, NEW i \in AllIds,
           NEW row, Leaves(P, i, row)
    PROVE  Overwrites(P, F, n, i, row)
<1> USE DEF Extends, Leaves, Overwrites
<1>1. CASE \E c \in P : c.id = i /\ c.seq <= n
  <2>1. PICK c \in P : c.id = i /\ c.seq <= n
    BY <1>1
  <2>2. PICK e \in F \cup P :
           /\ e.id = i /\ e.seq <= n /\ Replayed(F \cup P, n)[i] = e.row
           /\ \A d \in F \cup P : d.id = i /\ d.seq <= n => d.seq <= e.seq
    <3> DEFINE G == F \cup P
    <3>1. G \in SUBSET Changes /\ c \in G
      BY <2>1
    <3> HIDE DEF G
    <3>2. \E e \in G : /\ e.id = i /\ e.seq <= n /\ Replayed(G, n)[i] = e.row
                      /\ \A d \in G : d.id = i /\ d.seq <= n => d.seq <= e.seq
      <4>1. \/ /\ ~\E e \in G : e.id = i /\ e.seq <= n
               /\ Replayed(G, n)[i] = InitialRows[i]
            \/ \E e \in G : /\ e.id = i /\ e.seq <= n /\ Replayed(G, n)[i] = e.row
                            /\ \A d \in G : d.id = i /\ d.seq <= n => d.seq <= e.seq
        BY <3>1, ReplayedRow
      <4>2. QED
        BY <2>1, <3>1, <4>1
    <3>3. QED
      BY <3>2 DEF G
  <2>3. c.seq <= e.seq
    BY <2>1, <2>2
  <2>4. e \in P
    BY <2>1, <2>2, <2>3, ChangeFacts
  <2>5. QED
    BY <1>1, <2>2, <2>4
<1>2. CASE ~\E c \in P : c.id = i /\ c.seq <= n
  <2> DEFINE all == {c \in F \cup P : c.id = i /\ c.seq <= n}
             old == {c \in F : c.id = i /\ c.seq <= n}
             Shown(mine) == IF mine = {} THEN InitialRows[i]
                            ELSE (CHOOSE c \in mine : \A d \in mine : d.seq <= c.seq).row
  <2>1. all = old
    BY <1>2
  <2>2. Replayed(F \cup P, n)[i] = Shown(all) /\ Replayed(F, n)[i] = Shown(old)
    BY DEF Replayed
  <2> HIDE DEF all, old
  <2>3. QED
    BY <1>2, <2>1, <2>2
<1>3. QED
  BY <1>1, <1>2

-----------------------------------------------------------------------------
(* What is published is what is committed *)

LEMMA InitPublished == Init => Published
<1> SUFFICES ASSUME Init PROVE Published
  OBVIOUS
<1> USE DEF Init
<1>1. ASSUME NEW t \in Tx PROVE PendingBy(t)
  BY DEF PendingBy
<1>2. Numbered /\ IfMatchHonoured
  BY DEF Numbered, IfMatchHonoured
<1>3. InitialRows \in [AllIds -> Rows] /\ \A i \in AllIds : ~InitialRows[i].exists => InitialRows[i].revision = 0
  BY TreeAssumption
<1>4. ReplaysToObjects
  <2> SUFFICES ASSUME NEW n \in Nat PROVE ReplayTo(n) = objects
    BY DEF ReplaysToObjects
  <2>1. ReplayTo(n) = [i \in AllIds |-> InitialRows[i]]
    BY DEF ReplayTo
  <2>2. QED
    BY <1>3, <2>1
<1>5. Revised
  <2>1. \A i \in AllIds : RevisionsOf(i) = {}
    BY DEF RevisionsOf
  <2>2. \A i \in AllIds : InitialRows[i].revision \in Nat
    BY <1>3, RowFacts
  <2>3. \A i \in AllIds : (InitialRows[i].revision + 1)..InitialRows[i].revision = {}
    BY <2>2
  <2>4. ASSUME NEW i \in AllIds
        PROVE  /\ RevisionsOf(i) = (InitialRows[i].revision + 1)..objects[i].revision
               /\ InitialRows[i].revision <= objects[i].revision
               /\ ~objects[i].exists => objects[i].revision = 0
    <3> DEFINE n == InitialRows[i].revision
    <3>1. n \in Nat /\ RevisionsOf(i) = {} /\ (n + 1)..n = {} /\ objects[i] = InitialRows[i]
      BY <2>1, <2>2, <2>3
    <3>2. ~InitialRows[i].exists => n = 0
      BY <1>3
    <3> HIDE DEF n
    <3>3. n <= n
      BY <3>1
    <3>4. QED
      BY <3>1, <3>2, <3>3 DEF n
  <2>5. QED
    BY <2>4 DEF Revised
<1>6. QED
  BY <1>1, <1>2, <1>4, <1>5 DEF Published

\* A statement that neither numbers nor publishes Changes.
LEMMA StatementPublished ==
    ASSUME Shape, Published, NEW t \in Tx, pc[t] # "done", \A u \in Tx \ {t} : SameFor(u),
           UNCHANGED <<objects, feed, nextSeq>>,
           pending'[t] = {}, pc'[t] = "commit" => dirty'[t] = {},
           \A u \in Tx \ {t} : orderLock = u => orderLock' = u
    PROVE  Published'
<1>1. ASSUME NEW u \in Tx PROVE PendingBy(u)'
  BY DEF Published, PendingBy, SameFor
<1>2. \A c \in feed : c.tx \in Tx \ {t}
  BY ChangeFacts DEF Shape, TypeOK, Published, Numbered
<1>3. Numbered'
  BY <1>2 DEF Published, Numbered, SameFor
<1>4. ReplaysToObjects'
  BY DEF Published, ReplaysToObjects, ReplayTo
<1>5. Revised'
  BY DEF Published, Revised, RevisionsOf
<1>6. IfMatchHonoured'
  BY <1>2 DEF Published, IfMatchHonoured, SameFor
<1>7. QED
  BY <1>1, <1>3, <1>4, <1>5, <1>6 DEF Published

EmissionRank(t, e) == Cardinality({f \in Emitted(t) : EmittedBefore(t, f, e)})

\* The numbers an append draws follow the order of emission, one number each.
LEMMA EmissionRanks ==
    ASSUME Shape, Locks, RowsReady, NEW t \in Tx, pc[t] = "append"
    PROVE  /\ \A e \in Emitted(t) : EmissionRank(t, e) \in 0..(Cardinality(Emitted(t)) - 1)
           /\ \A e, f \in Emitted(t) :
                /\ EmittedBefore(t, e, f) => EmissionRank(t, e) < EmissionRank(t, f)
                /\ EmissionRank(t, e) = EmissionRank(t, f) => e = f
<1> DEFINE S == Emitted(t)
           R == {p \in S \X S : EmittedBefore(t, p[1], p[2])}
<1>1. /\ req[t] \in Requests /\ req[t].op \in {"create", "patch", "delete"} /\ TypeOK
      /\ Ready(t)
  BY AtWork, RequestFacts DEF Shape, RowsReady
<1>2. S \in SUBSET (AllIds \X ActionNames) /\ IsFiniteSet(S)
  BY <1>1, EmittedFacts
<1>3. \A e, f \in S : <<e, f>> \in R <=> EmittedBefore(t, e, f)
  OBVIOUS
<1>4. StrictlyOrders(R, S)
  <2>1. R \in SUBSET (S \X S)
    OBVIOUS
  <2>2. /\ \A a \in S : ~EmittedBefore(t, a, a)
        /\ \A a, b \in S : a # b => EmittedBefore(t, a, b) \/ EmittedBefore(t, b, a)
        /\ \A a, b, c \in S : EmittedBefore(t, a, b) /\ EmittedBefore(t, b, c)
                                => EmittedBefore(t, a, c)
    <3>1. CASE req[t].op = "create"
      <4>1. S = {<<req[t].id, "created">>}
        BY <3>1 DEF Emitted
      <4>2. \A a \in S : ~EmittedBefore(t, a, a)
        BY <3>1, <4>1 DEF EmittedBefore, EmissionOrder
      <4> HIDE DEF S
      <4>3. QED
        BY <4>1, <4>2
    <3>2. CASE req[t].op = "patch"
      <4>1. \A a \in S : a = <<req[t].id, a[2]>> /\ a[2] \in {"renamed", "moved", "metadata_updated"}
        BY <3>2 DEF Emitted, PatchActions
      <4>2. \A a, b \in S : EmittedBefore(t, a, b) <=> EmissionOrder[a[2]] < EmissionOrder[b[2]]
        BY <3>2 DEF EmittedBefore
      <4>3. /\ EmissionOrder["renamed"] = 1 /\ EmissionOrder["moved"] = 2
            /\ EmissionOrder["metadata_updated"] = 3
        BY DEF EmissionOrder
      <4> HIDE DEF S
      <4>4. \A a \in S : EmissionOrder[a[2]] \in {1, 2, 3}
        BY <4>1, <4>3
      <4>5. \A a, b \in S : a[2] = b[2] => a = b
        BY <4>1
      <4>6. \A a, b \in S : EmissionOrder[a[2]] = EmissionOrder[b[2]] => a = b
        BY <4>1, <4>3, <4>5
      <4>7. QED
        BY <4>2, <4>4, <4>6
    <3>3. CASE req[t].op = "delete"
      <4>1. ListedOnce(t) /\ dirty[t] = TargetIds(t)
        BY <1>1, <3>3 DEF Ready, TargetsHeldBy, WrittenBy
      <4>2. \A a \in S : a = <<a[1], "deleted">> /\ a[1] \in TargetIds(t)
        BY <3>3, <4>1 DEF Emitted
      <4>3. \A a, b : EmittedBefore(t, a, b) <=>
               \E k, l \in DOMAIN Targets(t) : k < l /\ Targets(t)[k] = a[1] /\ Targets(t)[l] = b[1]
        BY <3>3 DEF EmittedBefore
      <4>4. DOMAIN Targets(t) \subseteq Int
        <5>1. walk[t] \in Seq(AllIds)
          BY <1>1 DEF TypeOK
        <5>2. Targets(t) \in Seq(AllIds)
          BY <1>1, <5>1, RequestFacts DEF Targets
        <5>3. QED
          BY <5>2
      <4> DEFINE D == DOMAIN Targets(t)
                 At(a) == CHOOSE k \in D : Targets(t)[k] = a[1]
      <4>5. \A a \in S : At(a) \in D /\ Targets(t)[At(a)] = a[1]
        BY <4>2 DEF TargetIds
      <4> HIDE DEF At, D, S
      <4>6. \A a \in S, k \in D : Targets(t)[k] = a[1] <=> k = At(a)
        BY <4>1, <4>5 DEF ListedOnce, D
      <4>7. \A a, b \in S : EmittedBefore(t, a, b) <=> At(a) < At(b)
        <5> SUFFICES ASSUME NEW a \in S, NEW b \in S
                     PROVE  EmittedBefore(t, a, b) <=> At(a) < At(b)
          OBVIOUS
        <5>1. EmittedBefore(t, a, b) <=>
                \E k, l \in D : k < l /\ Targets(t)[k] = a[1] /\ Targets(t)[l] = b[1]
          BY <4>3 DEF D
        <5>2. QED
          BY <4>5, <4>6, <5>1
      <4>8. \A a, b \in S : At(a) = At(b) => a = b
        BY <4>2, <4>5
      <4>9. \A a \in S : At(a) \in Int
        BY <4>4, <4>5 DEF D
      <4>10. QED
        BY <4>7, <4>8, <4>9
    <3>4. QED
      BY <1>1, <3>1, <3>2, <3>3
  <2> HIDE DEF S, R
  <2>3. QED
    BY <1>3, <2>1, <2>2 DEF StrictlyOrders
<1>5. \A e \in S : Rank(S, R, e) = EmissionRank(t, e)
  <2> SUFFICES ASSUME NEW e \in S PROVE Rank(S, R, e) = EmissionRank(t, e)
    OBVIOUS
  <2>1. {f \in S : <<f, e>> \in R} = {f \in S : EmittedBefore(t, f, e)}
    BY <1>3
  <2>2. QED
    BY <2>1 DEF Rank, Below, EmissionRank
<1> HIDE DEF R
<1>6. /\ \A a \in S : Rank(S, R, a) \in 0..(Cardinality(S) - 1)
      /\ \A a, b \in S : <<a, b>> \in R => Rank(S, R, a) < Rank(S, R, b)
      /\ \A a, b \in S : Rank(S, R, a) = Rank(S, R, b) => a = b
  <2> HIDE DEF S
  <2>1. RanksBelowSize(S, R)
    BY <1>2, <1>4, Ranks
  <2>2. QED
    BY <2>1 DEF RanksBelowSize
<1>7. QED
  BY <1>3, <1>5, <1>6

\* Every row a transaction writes is one revision on.
LEMMA NextRevision ==
    ASSUME Shape, Locks, RowsReady, Revised, NEW t \in Tx,
           pc[t] \in {"append", "commit"}, NEW i \in dirty[t]
    PROVE  buf[t][i].revision = objects[i].revision + 1 /\ i \in AllIds
<1>1. /\ req[t] \in Requests /\ req[t].op \in {"create", "patch", "delete"} /\ req[t] # None
      /\ i \in AllIds /\ Ready(t)
  BY AtWork, RequestFacts DEF Shape, TypeOK, RowsReady
<1>2. CASE req[t].op = "create"
  <2>1. i = req[t].id /\ buf[t][i].revision = 1
    BY <1>1, <1>2 DEF Ready, WrittenBy, CreatedRow
  <2>2. ~objects[i].exists
    BY <1>1, <1>2, <2>1 DEF Locks, FreshIds, Working
  <2>3. objects[i].revision = 0
    BY <1>1, <2>2 DEF Revised
  <2>4. QED
    BY <1>1, <2>1, <2>3
<1>3. CASE req[t].op = "patch"
  BY <1>1, <1>3 DEF Ready, WrittenBy, IsPatchOf
<1>4. CASE req[t].op = "delete"
  BY <1>1, <1>4 DEF Ready, WrittenBy, IsTombstoneOf
<1>5. QED
  BY <1>1, <1>2, <1>3, <1>4

\* What is emitted is about the rows that are written, each of them.
LEMMA EmittedAboutWritten ==
    ASSUME Shape, RowsReady, NEW t \in Tx, pc[t] = "append"
    PROVE  /\ \A e \in Emitted(t) : e[1] \in dirty[t]
           /\ \A i \in dirty[t] : \E e \in Emitted(t) : e[1] = i
<1>1. /\ req[t] \in Requests /\ req[t].op \in {"create", "patch", "delete"} /\ Ready(t)
  BY AtWork, RequestFacts DEF Shape, RowsReady
<1>2. CASE req[t].op = "create"
  <2>1. dirty[t] = {req[t].id}
    BY <1>1, <1>2 DEF Ready, WrittenBy
  <2>2. Emitted(t) = {<<req[t].id, "created">>}
    BY <1>2 DEF Emitted
  <2>3. <<req[t].id, "created">>[1] = req[t].id
    OBVIOUS
  <2>4. QED
    BY <2>1, <2>2, <2>3
<1>3. CASE req[t].op = "patch"
  <2>1. dirty[t] = {req[t].id} /\ IsPatchOf(buf[t][req[t].id], t) /\ Differs(t)
    BY <1>1, <1>3 DEF Ready, WrittenBy, ParentHeldBy
  <2>2. Emitted(t) = {req[t].id} \X PatchActions(t)
    BY <1>3 DEF Emitted
  <2>3. PICK a \in PatchActions(t) : TRUE
    BY <2>1 DEF PatchActions, Differs, IsPatchOf
  <2>4. <<req[t].id, a>> \in Emitted(t) /\ <<req[t].id, a>>[1] = req[t].id
    BY <2>2
  <2>5. \A e \in Emitted(t) : e[1] = req[t].id
    BY <2>2
  <2>6. QED
    BY <2>1, <2>4, <2>5
<1>4. CASE req[t].op = "delete"
  <2>1. Emitted(t) = dirty[t] \X {"deleted"}
    BY <1>4 DEF Emitted
  <2>2. \A e \in Emitted(t) : e[1] \in dirty[t]
    BY <2>1
  <2>3. ASSUME NEW i \in dirty[t] PROVE \E e \in Emitted(t) : e[1] = i
    <3>1. <<i, "deleted">> \in Emitted(t) /\ <<i, "deleted">>[1] = i
      BY <2>1
    <3>2. QED
      BY <3>1
  <2>4. QED
    BY <2>2, <2>3
<1>5. QED
  BY <1>1, <1>2, <1>3, <1>4

\* The Change an append makes of e.
ChangeOf(t, e) ==
    [seq |-> nextSeq + EmissionRank(t, e), id |-> e[1], revision |-> buf[t][e[1]].revision,
     action |-> e[2], tx |-> t, row |-> buf[t][e[1]]]

\* append_changes numbers what the transaction emits, from nextSeq on.
LEMMA AppendFacts ==
    ASSUME Shape, NEW t \in Tx, AppendChanges(t)
    PROVE  /\ pending'[t] = {ChangeOf(t, e) : e \in Emitted(t)}
           /\ nextSeq' = nextSeq + Cardinality(Emitted(t))
           /\ pc[t] = "append" /\ pc'[t] = "commit" /\ orderLock' = t /\ orderLock \in {None, t}
           /\ UNCHANGED <<objects, feed, req, share, excl, dirty, buf, walk, tries>>
<1>1. pending' = [pending EXCEPT ![t] = {ChangeOf(t, e) : e \in Emitted(t)}]
  BY DEF AppendChanges, ChangeOf, EmissionRank
<1>2. QED
  BY <1>1 DEF AppendChanges, Shape, TypeOK, Goto, OrderLockFree

\* append_changes: what it numbers is what its commit will make of the rows.
LEMMA AppendPublished ==
    ASSUME Shape, Locks, RowsReady, Published, NEW t \in Tx, AppendChanges(t)
    PROVE  Published'
<1>1. /\ pending'[t] = {ChangeOf(t, e) : e \in Emitted(t)}
      /\ nextSeq' = nextSeq + Cardinality(Emitted(t))
      /\ pc[t] = "append" /\ pc'[t] = "commit" /\ orderLock' = t /\ orderLock \in {None, t}
      /\ UNCHANGED <<objects, feed, req, share, excl, dirty, buf, walk, tries>>
  BY AppendFacts
<1>2. \A u \in Tx \ {t} : SameFor(u)
  BY Frame DEF Step
<1>3. req[t] \in Requests /\ TypeOK /\ nextSeq \in Nat /\ Cardinality(Emitted(t)) \in Nat
  BY <1>1, AtWork, EmittedFacts DEF Shape, TypeOK
<1>4. \A c \in feed : c.seq \in Nat /\ c.seq < nextSeq
  BY <1>3, ChangeFacts DEF TypeOK, Published, Numbered
<1>5. \A c \in feed : c.seq < nextSeq'
  BY <1>1, <1>3, <1>4
<1>6. ASSUME NEW e \in Emitted(t)
      PROVE  /\ EmissionRank(t, e) \in Nat /\ EmissionRank(t, e) < Cardinality(Emitted(t))
             /\ \A f \in Emitted(t) : EmissionRank(t, e) = EmissionRank(t, f) => e = f
             /\ \A f \in Emitted(t) : EmissionRank(t, f) \in Nat
  BY <1>1, <1>3, EmissionRanks
<1>7. PendingBy(t)'
  <2>1. ASSUME NEW e \in Emitted(t)
        PROVE  LET c == ChangeOf(t, e) IN
               /\ c.tx = t /\ c.id \in dirty[t] /\ c.row = buf[t][c.id]
               /\ c.revision = buf[t][c.id].revision /\ c.seq < nextSeq'
               /\ \A d \in feed : d.seq < c.seq
               /\ \A f \in Emitted(t) : ChangeOf(t, f).seq = c.seq => f = e
    <3>1. \A f \in Emitted(t) : ChangeOf(t, f).seq = nextSeq + EmissionRank(t, f)
      BY DEF ChangeOf
    <3>2. nextSeq + EmissionRank(t, e) < nextSeq'
      BY <1>1, <1>3, <1>6
    <3>3. \A d \in feed : d.seq < nextSeq + EmissionRank(t, e)
      BY <1>3, <1>4, <1>6
    <3>4. \A f \in Emitted(t) : nextSeq + EmissionRank(t, f) = nextSeq + EmissionRank(t, e) => f = e
      BY <1>3, <1>6
    <3>5. e[1] \in dirty[t]
      BY <1>1, EmittedAboutWritten
    <3>6. QED
      BY <3>1, <3>2, <3>3, <3>4, <3>5 DEF ChangeOf
  <2>2. \A i \in dirty[t] : \E e \in Emitted(t) : ChangeOf(t, e).id = i
    BY <1>1, EmittedAboutWritten DEF ChangeOf
  <2>3. QED
    BY <1>1, <2>1, <2>2 DEF PendingBy
<1>8. ASSUME NEW u \in Tx \ {t} PROVE PendingBy(u)'
  <2>1. pending[u] = {}
    BY <1>1, TreeAssumption DEF Published, PendingBy
  <2>2. QED
    BY <1>1, <1>2, <2>1 DEF Published, PendingBy, SameFor
<1>9. Numbered'
  <2>1. \A c \in feed : c.tx \in Tx \ {t}
    BY <1>1, ChangeFacts DEF Shape, TypeOK, Published, Numbered
  <2>2. QED
    BY <1>1, <1>2, <1>5, <2>1 DEF Published, Numbered, SameFor
<1>10. ReplaysToObjects'
  BY <1>1 DEF Published, ReplaysToObjects, ReplayTo
<1>11. Revised' /\ IfMatchHonoured'
  BY <1>1 DEF Published, Revised, RevisionsOf, IfMatchHonoured
<1>12. QED
  BY <1>7, <1>8, <1>9, <1>10, <1>11 DEF Published

\* What a commit publishes: the changes of its rows, numbered after all others.
LEMMA CommitFacts ==
    ASSUME Shape, Locks, RowsReady, Published, NEW t \in Tx, Commit(t)
    PROVE  /\ pc[t] = "commit" /\ Over(t) /\ \A u \in Tx \ {t} : SameFor(u)
           /\ feed' = feed \cup pending[t] /\ UNCHANGED <<nextSeq, req>>
           /\ feed \in SUBSET Changes /\ pending[t] \in SUBSET Changes
           /\ \A i \in dirty[t] : \E c \in pending[t] : c.id = i
           /\ \A c \in pending[t] :
                /\ c.tx = t /\ c.id \in dirty[t] /\ c.id \in AllIds /\ c.row = buf[t][c.id]
                /\ c.revision = objects[c.id].revision + 1 /\ c.seq < nextSeq
                /\ \A d \in feed : d.seq < c.seq
                /\ \A d \in pending[t] : d.seq = c.seq => d = c
           /\ \A n \in Nat, i \in AllIds :
                ReplayTo(n)'[i] = IF \E c \in pending[t] : c.id = i /\ c.seq <= n
                                  THEN buf[t][i] ELSE ReplayTo(n)[i]
<1>1. pc[t] = "commit" /\ Over(t) /\ \A u \in Tx \ {t} : SameFor(u)
  BY EndFacts DEF Commit
<1>2. feed' = feed \cup pending[t] /\ UNCHANGED <<nextSeq, req>>
  BY DEF Commit
<1>3. feed \in SUBSET Changes /\ pending[t] \in SUBSET Changes
  BY DEF Shape, TypeOK
<1>4. PendingBy(t)
  BY DEF Published
<1>5. \A i \in dirty[t] : \E c \in pending[t] : c.id = i
  BY <1>1, <1>4 DEF PendingBy
<1>6. \A c \in pending[t] :
        /\ c.tx = t /\ c.id \in dirty[t] /\ c.row = buf[t][c.id] /\ c.seq < nextSeq
        /\ c.revision = buf[t][c.id].revision
        /\ \A d \in feed : d.seq < c.seq
        /\ \A d \in pending[t] : d.seq = c.seq => d = c
  BY <1>4 DEF PendingBy
<1>7. \A c \in pending[t] : c.id \in AllIds /\ c.revision = objects[c.id].revision + 1
  BY <1>1, <1>6, NextRevision DEF Published
<1>8. ASSUME NEW n \in Nat, NEW i \in AllIds
      PROVE  ReplayTo(n)'[i] = IF \E c \in pending[t] : c.id = i /\ c.seq <= n
                               THEN buf[t][i] ELSE ReplayTo(n)[i]
  <2>1. ReplayTo(n) = Replayed(feed, n) /\ ReplayTo(n)' = Replayed(feed', n)
    BY DEF ReplayTo, Replayed
  <2>2. PICK F, P, row : F = feed /\ P = pending[t] /\ row = buf[t][i]
    OBVIOUS
  <2>3. Leaves(P, i, row) /\ Extends(P, F)
    BY <1>3, <1>6, <2>2 DEF Extends, Leaves
  <2>4. Overwrites(P, F, n, i, row)
    BY <2>3, ReplayGrows
  <2>5. QED
    BY <1>2, <2>1, <2>2, <2>4 DEF Overwrites
<1>9. QED
  BY <1>1, <1>2, <1>3, <1>5, <1>6, <1>7, <1>8

\* A commit: the feed grows by what tells the new rows.
LEMMA CommitPublished ==
    ASSUME Shape, Locks, RowsReady, Published, NEW t \in Tx, Commit(t)
    PROVE  Published'
<1>1. /\ pc[t] = "commit" /\ Over(t) /\ \A u \in Tx \ {t} : SameFor(u)
      /\ feed' = feed \cup pending[t] /\ UNCHANGED <<nextSeq, req>>
      /\ feed \in SUBSET Changes /\ pending[t] \in SUBSET Changes
  BY CommitFacts
<1>2. \A c \in pending[t] :
        /\ c.tx = t /\ c.id \in dirty[t] /\ c.id \in AllIds /\ c.row = buf[t][c.id]
        /\ c.revision = objects[c.id].revision + 1 /\ c.seq < nextSeq
        /\ \A d \in feed : d.seq < c.seq
        /\ \A d \in pending[t] : d.seq = c.seq => d = c
  BY CommitFacts
<1>3. \A i \in dirty[t] : \E c \in pending[t] : c.id = i
  BY CommitFacts
<1>4. \A c \in feed : c.seq < nextSeq /\ c.tx \in Tx \ {t} /\ pc[c.tx] = "done" /\ c.seq \in Nat
  BY <1>1, ChangeFacts DEF Published, Numbered
<1>5. ASSUME NEW i \in AllIds
      PROVE  /\ objects'[i] = IF i \in dirty[t] THEN buf[t][i] ELSE objects[i]
             /\ i \in dirty[t] =>
                  objects'[i].exists /\ objects'[i].revision = objects[i].revision + 1
             /\ objects[i].revision \in Nat /\ InitialRows[i].revision \in Nat
  <2>1. objects[i].revision \in Nat /\ InitialRows[i].revision \in Nat
    BY RowFacts, TreeAssumption DEF Shape, TypeOK
  <2>2. i \in dirty[t] => buf[t][i].revision = objects[i].revision + 1
    BY <1>1, NextRevision DEF Published
  <2>3. QED
    BY <2>1, <2>2, CommitEffect
<1>6. ASSUME NEW u \in Tx \ {t} PROVE PendingBy(u)'
  <2>1. /\ pending'[u] = pending[u] /\ dirty'[u] = dirty[u] /\ buf'[u] = buf[u] /\ pc'[u] = pc[u]
    BY <1>1 DEF SameFor
  <2>2. PendingBy(u)
    BY DEF Published
  <2>3. orderLock = u => orderLock' = u
    BY DEF Commit, End
  <2>4. pending[u] # {} => pending[t] = {}
    BY DEF Published, PendingBy
  <2>5. QED
    BY <1>1, <2>1, <2>2, <2>3, <2>4 DEF PendingBy
<1>7. PendingBy(t)'
  BY <1>1 DEF PendingBy, Over
<1>8. Numbered'
  <2>1. \A c \in feed' : c.seq < nextSeq' /\ pc'[c.tx] = "done"
    BY <1>1, <1>2, <1>4 DEF SameFor, Over
  <2>2. \A c, d \in feed' : d.seq = c.seq => d = c
    <3> SUFFICES ASSUME NEW c \in feed \cup pending[t], NEW d \in feed \cup pending[t],
                        d.seq = c.seq
                 PROVE  d = c
      BY <1>1
    <3>1. c.seq \in Nat /\ d.seq \in Nat
      BY <1>1, ChangeFacts
    <3>2. CASE c \in feed /\ d \in feed
      BY <3>2 DEF Published, Numbered
    <3>3. CASE c \in pending[t] /\ d \in pending[t]
      BY <1>2, <3>3
    <3>4. CASE c \in pending[t] /\ d \in feed
      BY <1>2, <3>1, <3>4
    <3>5. CASE c \in feed /\ d \in pending[t]
      BY <1>2, <3>1, <3>5
    <3>6. QED
      BY <3>2, <3>3, <3>4, <3>5
  <2>3. QED
    BY <2>1, <2>2 DEF Numbered
<1>9. ReplaysToObjects'
  <2> SUFFICES ASSUME NEW n \in Nat, \A c \in feed' : c.seq <= n
               PROVE  ReplayTo(n)' = objects'
    BY DEF ReplaysToObjects
  <2>1. ReplayTo(n) = objects
    BY <1>1 DEF Published, ReplaysToObjects
  <2>2. ASSUME NEW i \in AllIds PROVE ReplayTo(n)'[i] = objects'[i]
    <3>1. ReplayTo(n)'[i] = IF \E c \in pending[t] : c.id = i /\ c.seq <= n
                            THEN buf[t][i] ELSE ReplayTo(n)[i]
      BY CommitFacts
    <3>2. (\E c \in pending[t] : c.id = i /\ c.seq <= n) <=> i \in dirty[t]
      BY <1>1, <1>2, <1>3
    <3>3. QED
      BY <1>5, <2>1, <3>1, <3>2
  <2>3. ReplayTo(n)' = [i \in AllIds |-> ReplayTo(n)'[i]]
    BY DEF ReplayTo
  <2>4. objects' = [i \in AllIds |-> objects'[i]]
    BY DEF Commit, View
  <2>5. QED
    BY <2>2, <2>3, <2>4
<1>10. Revised'
  <2>1. \A c, d \in feed' : d.id = c.id /\ d.revision = c.revision => d.tx = c.tx
    <3>1. \A d \in feed : d.revision \in Nat /\ d.revision <= objects[d.id].revision
      <4> SUFFICES ASSUME NEW d \in feed
                   PROVE  d.revision \in Nat /\ d.revision <= objects[d.id].revision
        OBVIOUS
      <4>1. d.id \in AllIds /\ d.revision \in RevisionsOf(d.id)
        BY <1>1, ChangeFacts DEF RevisionsOf
      <4>2. d.revision \in (InitialRows[d.id].revision + 1)..objects[d.id].revision
        BY <4>1 DEF Published, Revised
      <4>3. QED
        BY <1>5, <4>1, <4>2
    <3>2. \A c \in pending[t], d \in feed : d.id = c.id => d.revision # c.revision
      <4> SUFFICES ASSUME NEW c \in pending[t], NEW d \in feed, d.id = c.id
                   PROVE  d.revision # c.revision
        OBVIOUS
      <4>1. c.id \in AllIds /\ c.revision = objects[c.id].revision + 1
        BY <1>2
      <4>2. d.revision \in Nat /\ d.revision <= objects[c.id].revision
        BY <3>1
      <4>3. QED
        BY <1>5, <4>1, <4>2
    <3>3. QED
      BY <1>1, <1>2, <3>2 DEF Published, Revised
  <2>2. ASSUME NEW i \in AllIds
        PROVE  /\ RevisionsOf(i)' = (InitialRows[i].revision + 1)..objects'[i].revision
               /\ InitialRows[i].revision <= objects'[i].revision
               /\ ~objects'[i].exists => objects'[i].revision = 0
    <3> DEFINE lo == InitialRows[i].revision
               hi == objects[i].revision
    <3>1. /\ RevisionsOf(i) = (lo + 1)..hi /\ lo <= hi /\ lo \in Nat /\ hi \in Nat
          /\ ~objects[i].exists => hi = 0
      BY <1>5 DEF Published, Revised
    <3>2. CASE i \in dirty[t]
      <4>1. PICK c \in pending[t] : c.id = i
        BY <1>3, <3>2
      <4>2. \A d \in pending[t] : d.id = i => d.revision = hi + 1
        BY <1>2
      <4>3. RevisionsOf(i)' = RevisionsOf(i) \cup {hi + 1}
        BY <1>1, <4>1, <4>2 DEF RevisionsOf
      <4>4. objects'[i].exists /\ objects'[i].revision = hi + 1
        BY <1>5, <3>2
      <4> HIDE DEF lo, hi
      <4>5. ((lo + 1)..hi) \cup {hi + 1} = (lo + 1)..(hi + 1) /\ lo <= hi + 1
        BY <3>1
      <4>6. QED
        BY <3>1, <4>3, <4>4, <4>5 DEF lo
    <3>3. CASE i \notin dirty[t]
      <4>1. \A d \in pending[t] : d.id # i
        BY <1>2, <3>3
      <4>2. RevisionsOf(i)' = RevisionsOf(i)
        BY <1>1, <4>1 DEF RevisionsOf
      <4>3. objects'[i] = objects[i]
        BY <1>5, <3>3
      <4>4. QED
        BY <3>1, <4>2, <4>3
    <3>4. QED
      BY <3>2, <3>3
  <2>3. QED
    BY <2>1, <2>2 DEF Revised
<1>11. IfMatchHonoured'
  <2>1. ASSUME NEW c \in pending[t], c.id = req[t].id, req[t].if_match # None
        PROVE  c.revision = req[t].if_match + 1
    <3>1. req[t] \in Requests
      BY <1>1, AtWork DEF Shape
    <3>2. req[t].op # "create"
      BY <2>1, <3>1, TreeAssumption
    <3>3. objects[req[t].id].revision = req[t].if_match
      BY <1>1, <2>1, <3>2 DEF Locks, TargetHeld, Working
    <3>4. QED
      BY <1>2, <2>1, <3>3
  <2>2. QED
    BY <1>1, <1>2, <2>1 DEF Published, IfMatchHonoured
<1>12. QED
  BY <1>6, <1>7, <1>8, <1>9, <1>10, <1>11 DEF Published

\* Every statement keeps the feed true.
LEMMA StepPublished ==
    ASSUME Shape, Locks, RowsReady, Published, NEW t \in Tx, Step(t)
    PROVE  Published'
<1>1. pc[t] \in Working
  BY DEF Step, LockTarget, LockParent, CheckMove, CheckEmpty, WalkDescendants, LockRow,
     RowsLocked, WriteNamed, WriteDeleted, RecheckMove, AppendChanges, Commit, Working
<1>2. \A u \in Tx \ {t} : SameFor(u)
  BY Frame
<1>3. pc[t] # "done" /\ pc[t] # "idle"
  BY <1>1 DEF Working
<1>4. CASE Fail(t)
  <2>1. /\ UNCHANGED <<objects, feed, nextSeq>> /\ Over(t)
        /\ \A u \in Tx \ {t} : orderLock = u => orderLock' = u
    BY <1>4, EndFacts DEF Fail, End
  <2>2. QED
    BY <1>2, <1>3, <2>1, StatementPublished DEF Over
<1>5. CASE AppendChanges(t)
  BY <1>5, AppendPublished
<1>6. CASE Commit(t)
  BY <1>6, CommitPublished
<1>7. CASE ~Fail(t) /\ ~AppendChanges(t) /\ ~Commit(t)
  <2>1. UNCHANGED <<objects, feed, nextSeq, pending>> /\ pc[t] # "commit"
    BY <1>7 DEF Step, LockTarget, LockParent, CheckMove, CheckEmpty, WalkDescendants, LockRow,
       RowsLocked, WriteNamed, WriteDeleted, RecheckMove
  <2>2. pending'[t] = {}
    BY <2>1 DEF Shape, Phased
  <2>3. \A u \in Tx \ {t} : orderLock = u => orderLock' = u
    BY <1>7, TreeAssumption DEF Step, LockTarget, LockParent, CheckMove, CheckEmpty,
       WalkDescendants, LockRow, RowsLocked, WriteNamed, WriteDeleted, RecheckMove, OrderLockFree
  <2>4. pc'[t] = "commit" => dirty'[t] = {}
    <3>1. CASE LockTarget(t)
      BY <1>7, <3>1 DEF LockTarget, Shape, Phased
    <3>2. CASE ~LockTarget(t)
      <4>1. pc'[t] # "commit"
        BY <1>7, <3>2 DEF Step, LockParent, CheckMove, CheckEmpty, WalkDescendants, LockRow,
           RowsLocked, WriteNamed, WriteDeleted, RecheckMove, Goto, Shape, TypeOK
      <4>2. QED
        BY <4>1
    <3>3. QED
      BY <3>1, <3>2
  <2>5. QED
    BY <1>2, <1>3, <2>1, <2>2, <2>3, <2>4, StatementPublished
<1>8. QED
  BY <1>4, <1>5, <1>6, <1>7

LEMMA BeginPublished ==
    ASSUME Shape, Locks, RowsReady, Published, NEW t \in Tx, Begin(t)
    PROVE  Published'
<1>1. \A u \in Tx \ {t} : SameFor(u)
  BY Frame
<1>2. /\ pc[t] = "idle" /\ UNCHANGED <<objects, feed, nextSeq, orderLock, pending, dirty>>
      /\ pc'[t] # "commit"
  <2>1. PICK q \in Requests :
          pc' = [pc EXCEPT ![t] = IF q.op = "create" THEN "lockParent" ELSE "lockTarget"]
    BY DEF Begin, Goto
  <2>2. QED
    BY <2>1 DEF Begin, Shape, TypeOK
<1>3. pending'[t] = {}
  BY <1>2 DEF Shape, Phased
<1>4. QED
  BY <1>1, <1>2, <1>3, StatementPublished

-----------------------------------------------------------------------------
(* Trees *)

\* The ancestor walk gives the least set that holds its start and, with an
\* object, the object's parent.
LEMMA AncestorFacts ==
    ASSUME NEW v, NEW i \in AllIds
    PROVE  /\ SelfAndAncestors(v, i) \in SUBSET AllIds
           /\ i \in SelfAndAncestors(v, i)
           /\ \A k \in SelfAndAncestors(v, i) :
                v[k].parent \in AllIds => v[k].parent \in SelfAndAncestors(v, i)
           /\ \A S \in SUBSET AllIds :
                i \in S /\ (\A k \in S : v[k].parent \in AllIds => v[k].parent \in S)
                  => SelfAndAncestors(v, i) \subseteq S
<1>1. ASSUME NEW k \in SelfAndAncestors(v, i), v[k].parent \in AllIds
      PROVE  v[k].parent \in SelfAndAncestors(v, i)
  <2> SUFFICES ASSUME NEW S \in SUBSET AllIds, i \in S,
                      \A l \in S : v[l].parent \in AllIds => v[l].parent \in S
               PROVE  v[k].parent \in S
    BY <1>1 DEF SelfAndAncestors
  <2>1. k \in S
    BY DEF SelfAndAncestors
  <2>2. QED
    BY <1>1, <2>1
<1>2. QED
  BY <1>1 DEF SelfAndAncestors

\* An object's ancestors are itself and its parent's.
LEMMA AncestorStep ==
    ASSUME NEW v, NEW i \in AllIds
    PROVE  /\ v[i].parent \in AllIds =>
                SelfAndAncestors(v, i) = {i} \cup SelfAndAncestors(v, v[i].parent)
           /\ v[i].parent \notin AllIds => SelfAndAncestors(v, i) = {i}
<1>1. CASE v[i].parent \in AllIds
  <2> DEFINE p == v[i].parent
             A == SelfAndAncestors(v, p)
  <2>1. /\ A \in SUBSET AllIds /\ p \in A
        /\ \A k \in A : v[k].parent \in AllIds => v[k].parent \in A
    BY <1>1, AncestorFacts
  <2>2. SelfAndAncestors(v, i) \subseteq {i} \cup A
    <3> DEFINE S == {i} \cup A
    <3>1. S \in SUBSET AllIds /\ i \in S /\ \A k \in S : v[k].parent \in AllIds => v[k].parent \in S
      BY <2>1
    <3> HIDE DEF S
    <3>2. SelfAndAncestors(v, i) \subseteq S
      BY <3>1, AncestorFacts
    <3>3. QED
      BY <3>2 DEF S
  <2>3. A \subseteq SelfAndAncestors(v, i)
    <3> DEFINE S == SelfAndAncestors(v, i)
    <3>1. /\ S \in SUBSET AllIds /\ p \in S
          /\ \A k \in S : v[k].parent \in AllIds => v[k].parent \in S
      BY <1>1, AncestorFacts
    <3> HIDE DEF S
    <3>2. A \subseteq S
      BY <1>1, <3>1, AncestorFacts
    <3>3. QED
      BY <3>2 DEF S
  <2>4. i \in SelfAndAncestors(v, i)
    BY AncestorFacts
  <2>5. QED
    BY <1>1, <2>2, <2>3, <2>4
<1>2. CASE v[i].parent \notin AllIds
  <2> DEFINE S == {i}
  <2>1. S \in SUBSET AllIds /\ i \in S /\ \A k \in S : v[k].parent \in AllIds => v[k].parent \in S
    BY <1>2
  <2> HIDE DEF S
  <2>2. SelfAndAncestors(v, i) \subseteq S
    BY <2>1, AncestorFacts
  <2>3. i \in SelfAndAncestors(v, i)
    BY AncestorFacts
  <2>4. QED
    BY <1>2, <2>2, <2>3 DEF S
<1>3. QED
  BY <1>1, <1>2

\* In a tree, a set of non-root objects that holds the parents of its live
\* members has no live member.
LEMMA NoLiveCycle ==
    ASSUME NEW v, IsTree(v), NEW S \in SUBSET Ids,
           \A i \in S : LiveRow(v, i) => v[i].parent \in S
    PROVE  \A i \in S : ~LiveRow(v, i)
<1> SUFFICES ASSUME NEW i \in S, LiveRow(v, i) PROVE FALSE
  OBVIOUS
<1> DEFINE L == {k \in S : LiveRow(v, k)}
<1>1. \A k \in L : v[k].parent \in S /\ LiveRow(v, v[k].parent)
  BY DEF IsTree, NoOrphanIn
<1>2. L \in SUBSET {k \in Ids : v[k].exists} /\ L # {} /\ \A k \in L : v[k].parent \in L
  BY <1>1 DEF LiveRow
<1> HIDE DEF L
<1>3. QED
  BY <1>2 DEF IsTree, AcyclicIn

\* In a tree a live child lies deeper than its parent.
LEMMA ChildDeeper ==
    ASSUME NEW v, IsTree(v), v[Root].parent = NoParent, NEW j \in Ids, LiveRow(v, j)
    PROVE  Depth(v, j) > Depth(v, v[j].parent) /\ v[j].parent # j
<1> DEFINE p == v[j].parent
<1>1. p \in AllIds /\ j \in AllIds /\ j # Root
  BY IdFacts DEF IsTree, NoOrphanIn
<1>2. SelfAndAncestors(v, j) = {j} \cup SelfAndAncestors(v, p)
  BY <1>1, AncestorStep
<1>3. j \notin SelfAndAncestors(v, p)
  <2> SUFFICES ASSUME j \in SelfAndAncestors(v, p) PROVE FALSE
    OBVIOUS
  <2> DEFINE S == {k \in AllIds : j \in SelfAndAncestors(v, k)}
  <2>1. Root \notin S
    <3>1. SelfAndAncestors(v, Root) = {Root}
      BY IdFacts, AncestorStep
    <3>2. QED
      BY <1>1, <3>1
  <2>2. S \in SUBSET Ids
    BY <2>1 DEF AllIds
  <2>3. ASSUME NEW k \in S, LiveRow(v, k) PROVE v[k].parent \in S
    <3>1. v[k].parent \in AllIds
      BY <2>2, <2>3 DEF IsTree, NoOrphanIn
    <3>2. CASE k = j
      BY <1>1, <3>2
    <3>3. CASE k # j
      <4>1. SelfAndAncestors(v, k) = {k} \cup SelfAndAncestors(v, v[k].parent)
        BY <3>1, AncestorStep
      <4>2. QED
        BY <3>1, <3>3, <4>1
    <3>4. QED
      BY <3>2, <3>3
  <2>4. j \in S
    BY <1>1, AncestorFacts
  <2> HIDE DEF S
  <2>5. QED
    BY <2>2, <2>3, <2>4, NoLiveCycle
<1> DEFINE A == SelfAndAncestors(v, p)
           B == SelfAndAncestors(v, j)
<1>4. IsFiniteSet(B) /\ A \in SUBSET B /\ A # B
  <2>1. B \in SUBSET AllIds /\ j \in B
    BY <1>1, AncestorFacts
  <2>2. IsFiniteSet(B)
    BY <2>1, IdFacts, FS_Subset
  <2>3. QED
    BY <1>2, <1>3, <2>1, <2>2
<1> HIDE DEF A, B
<1>5. Cardinality(A) <= Cardinality(B) /\ Cardinality(A) # Cardinality(B)
  BY <1>4, FS_Subset
<1>6. Cardinality(A) \in Nat /\ Cardinality(B) \in Nat
  BY <1>4, FS_Subset, FS_CardinalityType
<1>7. Depth(v, j) > Depth(v, p)
  BY <1>5, <1>6 DEF Depth, A, B
<1>8. p # j
  BY <1>6, <1>7 DEF Depth, A, B
<1>9. QED
  BY <1>7, <1>8

\* The replay of everything published is the committed tree.
LEMMA ObjectsTree == ASSUME Shape, Published, TreeSound PROVE IsTree(objects)
<1>1. nextSeq \in Nat /\ \A c \in feed : c.seq < nextSeq /\ c.seq \in Nat
  BY ChangeFacts DEF Shape, TypeOK, Published, Numbered
<1>2. ReplayTo(nextSeq) = objects
  BY <1>1 DEF Published, ReplaysToObjects
<1>3. QED
  BY <1>1, <1>2 DEF TreeSound, EveryReplayIsATree

Overlay(D, t) == [i \in AllIds |-> IF i \in D THEN buf[t][i] ELSE objects[i]]

\* A create hangs a new leaf below a folder that stays.
LEMMA CreateKeepsTree ==
    ASSUME Shape, Locks, RowsReady, IsTree(objects), NEW t \in Tx, pc[t] = "commit",
           req[t].op = "create"
    PROVE  IsTree(Overlay({req[t].id}, t))
<1> DEFINE id == req[t].id  p == req[t].parent  v == Overlay({id}, t)
<1>1. req[t] \in Requests /\ id \in Ids /\ p \in AllIds
  BY AtWork, TreeAssumption DEF Shape
<1>2. p \in share[t] /\ buf[t][id] = CreatedRow(t)
  BY DEF RowsReady, Ready, ParentHeldBy, WrittenBy
<1>3. LiveRow(objects, p) /\ objects[p].kind = "folder"
  BY <1>2 DEF Locks, Shared
<1>4. ~objects[id].exists /\ p # id
  BY <1>1, <1>3, AtWork DEF Shape, Locks, FreshIds, Working, LiveRow
<1>5. \A i \in AllIds : v[i] = IF i = id THEN CreatedRow(t) ELSE objects[i]
  BY <1>2 DEF Overlay
<1>6. CreatedRow(t).exists /\ ~CreatedRow(t).deleted /\ CreatedRow(t).parent = p
  BY DEF CreatedRow
<1> HIDE DEF v, id, p
<1>7. NoOrphanIn(v)
  <2> SUFFICES ASSUME NEW i \in Ids, LiveRow(v, i)
               PROVE  /\ v[i].parent \in AllIds /\ LiveRow(v, v[i].parent)
                      /\ v[v[i].parent].kind = "folder"
    BY DEF NoOrphanIn
  <2>1. CASE i = id
    BY <1>1, <1>3, <1>4, <1>5, <1>6, <2>1, IdFacts DEF LiveRow
  <2>2. CASE i # id
    <3>1. v[i] = objects[i] /\ LiveRow(objects, i)
      BY <1>5, <2>2, IdFacts DEF LiveRow
    <3>2. /\ objects[i].parent \in AllIds /\ LiveRow(objects, objects[i].parent)
          /\ objects[objects[i].parent].kind = "folder"
      BY <3>1 DEF IsTree, NoOrphanIn
    <3>3. objects[i].parent # id
      BY <1>4, <3>2 DEF LiveRow
    <3>4. QED
      BY <1>5, <3>1, <3>2, <3>3 DEF LiveRow
  <2>3. QED
    BY <2>1, <2>2
<1>8. AcyclicIn(v)
  <2> SUFFICES ASSUME NEW S \in SUBSET {i \in Ids : v[i].exists}, S # {},
                      \A i \in S : v[i].parent \in S
               PROVE  FALSE
    BY DEF AcyclicIn
  <2>1. S \in SUBSET Ids /\ S \in SUBSET AllIds
    BY IdFacts
  <2>2. CASE id \notin S
    <3>1. \A i \in S : v[i] = objects[i]
      BY <1>5, <2>1, <2>2
    <3>2. S \in SUBSET {i \in Ids : objects[i].exists} /\ \A i \in S : objects[i].parent \in S
      BY <3>1
    <3>3. QED
      BY <3>2 DEF IsTree, AcyclicIn
  <2>3. CASE id \in S
    <3>1. p \in S
      BY <1>5, <1>6, <2>1, <2>3
    <3>2. \A i \in S : LiveRow(objects, i) => objects[i].parent \in S
      BY <1>4, <1>5, <2>1 DEF LiveRow
    <3>3. QED
      BY <1>3, <2>1, <3>1, <3>2, NoLiveCycle
  <2>4. QED
    BY <2>2, <2>3
<1>9. IsTree(v)
  BY <1>7, <1>8 DEF IsTree
<1>10. QED
  BY <1>9 DEF v, id

\* A patch keeps its object where it is, or moves it out of its own subtree.
LEMMA PatchKeepsTree ==
    ASSUME Shape, Locks, RowsReady, IsTree(objects), NEW t \in Tx, MoveCheckedBy(t),
           pc[t] = "commit", req[t].op = "patch", dirty[t] = {req[t].id}
    PROVE  IsTree(Overlay({req[t].id}, t))
<1> DEFINE id == req[t].id  p == Wants(t)  v == Overlay({id}, t)  row == buf[t][id]
<1>1. req[t] \in Requests /\ id \in AllIds
  BY AtWork, RequestFacts DEF Shape
<1>2. Ready(t) /\ LiveRow(objects, id)
  BY DEF RowsReady, Locks, TargetHeld, Working
<1>3. row.exists /\ ~row.deleted /\ row.kind = objects[id].kind /\ row.parent = p
  BY <1>2 DEF Ready, WrittenBy, IsPatchOf
<1>4. \A i \in AllIds : v[i] = IF i = id THEN row ELSE objects[i]
  BY DEF Overlay
<1>5. \A i \in AllIds : /\ LiveRow(v, i) <=> LiveRow(objects, i)
                        /\ v[i].kind = objects[i].kind /\ (v[i].exists <=> objects[i].exists)
                        /\ i # id => v[i].parent = objects[i].parent
  BY <1>2, <1>3, <1>4 DEF LiveRow
<1>6. View(t) = v
  BY DEF View, Overlay
<1>7. p # objects[id].parent =>
        /\ p \in AllIds /\ LiveRow(objects, p) /\ objects[p].kind = "folder" /\ id \in Ids
        /\ objects[id].kind = "folder" => id \notin SelfAndAncestors(v, p)
  <2> SUFFICES ASSUME p # objects[id].parent
               PROVE  /\ p \in AllIds /\ LiveRow(objects, p) /\ objects[p].kind = "folder"
                      /\ id \in Ids
                      /\ objects[id].kind = "folder" => id \notin SelfAndAncestors(v, p)
    OBVIOUS
  <2>1. p \in share[t]
    BY <1>2 DEF Ready, ParentHeldBy
  <2>2. id # Root
    BY DEF Locks, TargetHeld, Working, Wants, Target
  <2>3. objects[id].kind = "folder" => id \notin SelfAndAncestors(v, p)
    BY <1>6 DEF MoveCheckedBy
  <2>4. QED
    BY <1>1, <2>1, <2>2, <2>3 DEF Locks, Shared, Shape, TypeOK, AllIds
<1>8. v[id].parent = p
  BY <1>1, <1>3, <1>4
<1> HIDE DEF v, id, p, row
<1>9. NoOrphanIn(v)
  <2> SUFFICES ASSUME NEW i \in Ids, LiveRow(v, i)
               PROVE  /\ v[i].parent \in AllIds /\ LiveRow(v, v[i].parent)
                      /\ v[v[i].parent].kind = "folder"
    BY DEF NoOrphanIn
  <2>1. LiveRow(objects, i) /\ i \in AllIds
    BY <1>5, IdFacts
  <2>2. /\ objects[i].parent \in AllIds /\ LiveRow(objects, objects[i].parent)
        /\ objects[objects[i].parent].kind = "folder"
    BY <2>1 DEF IsTree, NoOrphanIn
  <2>3. v[i].parent = objects[i].parent \/ (v[i].parent = p /\ p # objects[id].parent)
    BY <1>5, <1>8, <2>1
  <2>4. QED
    BY <1>5, <1>7, <2>2, <2>3
<1>10. AcyclicIn(v)
  <2> SUFFICES ASSUME NEW S \in SUBSET {i \in Ids : v[i].exists}, S # {},
                      \A i \in S : v[i].parent \in S
               PROVE  FALSE
    BY DEF AcyclicIn
  <2>1. S \in SUBSET Ids /\ S \in SUBSET AllIds
    BY IdFacts
  <2>2. \A i \in S : objects[i].exists
    BY <1>5, <2>1
  <2>3. CASE id \notin S \/ p = objects[id].parent
    <3>1. \A i \in S : objects[i].parent \in S
      BY <1>5, <1>8, <2>1, <2>3
    <3>2. S \in SUBSET {i \in Ids : objects[i].exists}
      BY <2>1, <2>2
    <3>3. QED
      BY <3>1, <3>2 DEF IsTree, AcyclicIn
  <2>4. CASE id \in S /\ p # objects[id].parent /\ objects[id].kind = "file"
    <3> DEFINE L == S \ {id}
    <3>1. p \in L /\ LiveRow(objects, p)
      BY <1>7, <1>8, <2>4
    <3>2. ASSUME NEW i \in L, LiveRow(objects, i) PROVE objects[i].parent \in L
      <4>1. objects[i].parent \in S
        BY <1>5, <2>1
      <4>2. objects[objects[i].parent].kind = "folder"
        BY <2>1, <3>2 DEF IsTree, NoOrphanIn
      <4>3. QED
        BY <2>4, <4>1, <4>2
    <3>3. L \in SUBSET Ids
      BY <2>1
    <3> HIDE DEF L
    <3>4. QED
      BY <3>1, <3>2, <3>3, NoLiveCycle
  <2>5. CASE id \in S /\ p # objects[id].parent /\ objects[id].kind = "folder"
    <3> DEFINE A == SelfAndAncestors(v, p)
    <3>1. p \in S /\ id \notin A
      BY <1>7, <1>8, <2>5
    <3>2. A \in SUBSET AllIds /\ p \in A /\ A \subseteq S
      BY <1>7, <2>1, <3>1, AncestorFacts
    <3>3. \A k \in A : v[k].parent \in AllIds => v[k].parent \in A
      BY <1>7, <2>5, AncestorFacts
    <3> HIDE DEF A
    <3>4. \A k \in A : v[k].parent \in A /\ objects[k].parent = v[k].parent
      BY <1>5, <2>1, <3>1, <3>2, <3>3
    <3>5. A \in SUBSET {i \in Ids : objects[i].exists} /\ A # {} /\ \A k \in A : objects[k].parent \in A
      BY <2>1, <2>2, <3>2, <3>4
    <3>6. QED
      BY <3>5 DEF IsTree, AcyclicIn
  <2>6. objects[id].kind \in {"file", "folder"}
    BY <1>1, RowFacts DEF Shape, TypeOK
  <2>7. QED
    BY <2>3, <2>4, <2>5, <2>6
<1>11. IsTree(v)
  BY <1>9, <1>10 DEF IsTree
<1>12. QED
  BY <1>11 DEF v, id

\* A delete cut short anywhere leaves no child of what is gone.
LEMMA DeleteKeepsTree ==
    ASSUME Shape, Locks, RowsReady, IsTree(objects), NEW t \in Tx,
           pc[t] = "commit", req[t].op = "delete", NEW D \in SUBSET dirty[t],
           \A j \in Ids : LiveRow(objects, j) /\ objects[j].parent \in D => j \in D
    PROVE  IsTree(Overlay(D, t))
<1> DEFINE v == Overlay(D, t)
<1>1. D \in SUBSET AllIds
  BY DEF Shape, TypeOK
<1>2. \A i \in D : IsTombstoneOf(buf[t][i], objects[i]) /\ LiveRow(objects, i)
  BY DEF RowsReady, Ready, WrittenBy, TargetsHeldBy
<1>3. \A i \in AllIds : v[i] = IF i \in D THEN buf[t][i] ELSE objects[i]
  BY DEF Overlay
<1>4. \A i \in AllIds : /\ LiveRow(v, i) <=> (i \notin D /\ LiveRow(objects, i))
                        /\ v[i].kind = objects[i].kind /\ v[i].parent = objects[i].parent
                        /\ v[i].exists => objects[i].exists
  BY <1>2, <1>3 DEF IsTombstoneOf, LiveRow
<1> HIDE DEF v
<1>5. NoOrphanIn(v)
  <2> SUFFICES ASSUME NEW i \in Ids, LiveRow(v, i)
               PROVE  /\ v[i].parent \in AllIds /\ LiveRow(v, v[i].parent)
                      /\ v[v[i].parent].kind = "folder"
    BY DEF NoOrphanIn
  <2>1. LiveRow(objects, i) /\ i \in AllIds /\ i \notin D
    BY <1>4, IdFacts
  <2>2. /\ objects[i].parent \in AllIds /\ LiveRow(objects, objects[i].parent)
        /\ objects[objects[i].parent].kind = "folder"
    BY <2>1 DEF IsTree, NoOrphanIn
  <2>3. QED
    BY <1>4, <2>1, <2>2
<1>6. AcyclicIn(v)
  <2> SUFFICES ASSUME NEW S \in SUBSET {i \in Ids : v[i].exists}, S # {},
                      \A i \in S : v[i].parent \in S
               PROVE  FALSE
    BY DEF AcyclicIn
  <2>1. S \in SUBSET {i \in Ids : objects[i].exists} /\ \A i \in S : objects[i].parent \in S
    BY <1>4, IdFacts
  <2>2. QED
    BY <2>1 DEF IsTree, AcyclicIn
<1>7. QED
  BY <1>5, <1>6 DEF IsTree, v

-----------------------------------------------------------------------------
(* Every prefix of the Changes is a tree *)

LEMMA InitTree == Init => TreeSound
<1> SUFFICES ASSUME Init PROVE TreeSound
  OBVIOUS
<1>1. IsTree(InitialRows) /\ InitialRows \in [AllIds -> Rows]
  BY TreeAssumption DEF IsTree
<1>2. ASSUME NEW n \in Nat PROVE IsTree(ReplayTo(n))
  <2>1. ReplayTo(n) = [i \in AllIds |-> InitialRows[i]]
    BY DEF Init, ReplayTo
  <2>2. ReplayTo(n) = InitialRows
    BY <1>1, <2>1
  <2>3. QED
    BY <1>1, <2>2
<1>3. ASSUME NEW t \in Tx PROVE TreeSafe(t)
  BY DEF Init, TreeSafe, MoveCheckedBy, TargetsClosedBy, TargetsOrderedBy, ChildrenFirstBy
<1>4. QED
  BY <1>2, <1>3 DEF TreeSound, EveryReplayIsATree

\* As long as the rows it holds stay, a transaction stays safe; a folder that
\* moves needs all rows to stay.
LEMMA OthersTree ==
    ASSUME Shape, Locks, RowsReady, Published, TreeSound, NEW u \in Tx, SameFor(u),
           \A i \in excl[u] : objects'[i] = objects[i],
           orderLock = u => objects' = objects /\ orderLock' = u,
           \A j \in AllIds : LiveRow(objects, j)' /\ objects'[j] # objects[j]
             => objects'[j].parent \notin excl[u]
                \/ (LiveRow(objects, j) /\ objects'[j].parent = objects[j].parent)
    PROVE  TreeSafe(u)'
<1>1. TreeSafe(u) /\ Ready(u)
  BY DEF TreeSound, RowsReady
<1>2. TargetIds(u)' = TargetIds(u) /\ Targets(u)' = Targets(u)
  BY DEF TargetIds, Targets, SameFor
<1>3. MoveCheckedBy(u)'
  <2> SUFFICES ASSUME pc[u] \in {"append", "commit"}, req[u].op = "patch", dirty[u] # {},
                      objects'[req[u].id].kind = "folder",
                      Wants(u)' # objects'[req[u].id].parent
               PROVE  orderLock' = u /\ req[u].id \notin SelfAndAncestors(View(u), Wants(u))'
    BY DEF MoveCheckedBy, SameFor
  <2>1. objects'[req[u].id] = objects[req[u].id]
    BY DEF Locks, TargetHeld, Working
  <2>2. Wants(u)' = Wants(u)
    BY <2>1 DEF Wants, SameFor
  <2>3. orderLock = u /\ req[u].id \notin SelfAndAncestors(View(u), Wants(u))
    BY <1>1, <2>1, <2>2 DEF TreeSafe, MoveCheckedBy
  <2>4. View(u)' = View(u)
    BY <2>3 DEF View, SameFor
  <2>5. QED
    BY <2>2, <2>3, <2>4 DEF SelfAndAncestors
<1>4. TargetsClosedBy(u)'
  <2> SUFFICES ASSUME pc[u] \in {"write", "append", "commit"}, req[u].op = "delete",
                      NEW j \in Ids, LiveRow(objects, j)', objects'[j].parent \in TargetIds(u)
               PROVE  j \in TargetIds(u)
    BY <1>2 DEF TargetsClosedBy, SameFor
  <2>1. TargetIds(u) \subseteq excl[u] /\ j \in AllIds
    BY <1>1, IdFacts DEF Ready, TargetsHeldBy
  <2>2. LiveRow(objects, j) /\ objects[j].parent \in TargetIds(u)
    BY <2>1 DEF LiveRow
  <2>3. QED
    BY <1>1, <2>2 DEF TreeSafe, TargetsClosedBy
<1>5. TargetsOrderedBy(u)'
  <2> SUFFICES ASSUME pc[u] \in {"write", "append", "commit"}, req[u].op = "delete"
               PROVE  \A k, l \in DOMAIN Targets(u) :
                         Targets(u)[k] \in Ids /\ objects'[Targets(u)[k]].parent = Targets(u)[l]
                           => k < l
    BY <1>2 DEF TargetsOrderedBy, SameFor
  <2>1. \A k \in DOMAIN Targets(u) : objects'[Targets(u)[k]] = objects[Targets(u)[k]]
    BY <1>1 DEF Ready, TargetsHeldBy, TargetIds
  <2>2. QED
    BY <1>1, <2>1 DEF TreeSafe, TargetsOrderedBy
<1>6. ChildrenFirstBy(u)'
  <2> SUFFICES ASSUME pc[u] = "commit", req[u].op = "delete",
                      NEW c \in pending[u], NEW d \in pending[u],
                      c.id \in Ids, objects'[c.id].parent = d.id
               PROVE  c.seq < d.seq
    BY DEF ChildrenFirstBy, SameFor
  <2>1. c.id \in excl[u]
    BY <1>1 DEF Published, PendingBy, Ready, TargetsHeldBy, WrittenBy
  <2>2. objects'[c.id] = objects[c.id]
    BY <2>1
  <2>3. QED
    BY <1>1, <2>2 DEF TreeSafe, ChildrenFirstBy
<1>7. QED
  BY <1>3, <1>4, <1>5, <1>6 DEF TreeSafe

\* A commit: each of the new prefixes is a tree.
LEMMA CommitTree ==
    ASSUME Shape, Locks, RowsReady, Published, TreeSound, NEW t \in Tx, Commit(t)
    PROVE  TreeSound'
<1>1. /\ pc[t] = "commit" /\ Over(t) /\ \A u \in Tx \ {t} : SameFor(u)
      /\ \A i \in dirty[t] : \E c \in pending[t] : c.id = i
      /\ \A c \in pending[t] :
           /\ c.id \in dirty[t] /\ c.id \in AllIds
           /\ \A d \in feed : d.seq < c.seq
      /\ feed \in SUBSET Changes /\ pending[t] \in SUBSET Changes
  BY CommitFacts
<1>2. IsTree(objects)
  BY ObjectsTree
<1>3. /\ req[t] \in Requests /\ req[t].op \in {"create", "patch", "delete"} /\ Ready(t)
      /\ TreeSafe(t)
  BY <1>1, AtWork, RequestFacts DEF Shape, RowsReady, TreeSound
<1>4. ASSUME NEW n \in Nat PROVE IsTree(ReplayTo(n)')
  <2> DEFINE D == {c.id : c \in {d \in pending[t] : d.seq <= n}}
  <2>1. \A i \in AllIds : ReplayTo(n)'[i] = IF i \in D THEN buf[t][i] ELSE ReplayTo(n)[i]
    BY CommitFacts
  <2>2. /\ ReplayTo(n)' = [i \in AllIds |-> ReplayTo(n)'[i]]
        /\ ReplayTo(n) = [i \in AllIds |-> ReplayTo(n)[i]]
    BY DEF ReplayTo
  <2>3. CASE D = {}
    <3>1. ReplayTo(n)' = ReplayTo(n)
      BY <2>1, <2>2, <2>3
    <3>2. QED
      BY <3>1 DEF TreeSound, EveryReplayIsATree
  <2>4. CASE D # {}
    <3>1. PICK c \in pending[t] : c.seq <= n
      BY <2>4
    <3>2. \A d \in feed : d.seq <= n
      <4> SUFFICES ASSUME NEW d \in feed PROVE d.seq <= n
        OBVIOUS
      <4>1. d.seq < c.seq /\ d.seq \in Nat /\ c.seq \in Nat
        BY <1>1, ChangeFacts
      <4>2. QED
        BY <3>1, <4>1
    <3>3. ReplayTo(n) = objects
      BY <3>2 DEF Published, ReplaysToObjects
    <3>4. ReplayTo(n)' = Overlay(D, t)
      BY <2>1, <2>2, <3>3 DEF Overlay
    <3>5. D \in SUBSET dirty[t]
      BY <1>1
    <3>6. CASE req[t].op = "create"
      <4>1. dirty[t] = {req[t].id}
        BY <1>1, <1>3, <3>6 DEF Ready, WrittenBy
      <4>2. D = {req[t].id}
        BY <2>4, <3>5, <4>1
      <4>3. QED
        BY <1>1, <1>2, <3>4, <3>6, <4>2, CreateKeepsTree
    <3>7. CASE req[t].op = "patch"
      <4>1. dirty[t] = {req[t].id}
        BY <1>1, <1>3, <2>4, <3>5, <3>7 DEF Ready, WrittenBy
      <4>2. D = {req[t].id}
        BY <2>4, <3>5, <4>1
      <4>3. QED
        BY <1>1, <1>2, <1>3, <3>4, <3>7, <4>1, <4>2, PatchKeepsTree DEF TreeSafe
    <3>8. CASE req[t].op = "delete"
      <4>1. ASSUME NEW j \in Ids, LiveRow(objects, j), objects[j].parent \in D
            PROVE  j \in D
        <5>1. PICK d \in pending[t] : d.id = objects[j].parent /\ d.seq <= n
          BY <4>1
        <5>2. dirty[t] = TargetIds(t)
          BY <1>1, <1>3, <3>8 DEF Ready, WrittenBy
        <5>3. j \in dirty[t]
          BY <1>1, <1>3, <3>5, <3>8, <4>1, <5>2 DEF TreeSafe, TargetsClosedBy
        <5>4. PICK e \in pending[t] : e.id = j
          BY <1>1, <5>3
        <5>5. e.seq < d.seq
          BY <1>1, <1>3, <3>8, <5>1, <5>4 DEF TreeSafe, ChildrenFirstBy
        <5>6. e.seq \in Nat /\ d.seq \in Nat
          BY <1>1, ChangeFacts
        <5>7. e.seq <= n
          BY <5>1, <5>5, <5>6
        <5>8. QED
          BY <5>4, <5>7
      <4> HIDE DEF D
      <4>2. QED
        BY <1>1, <1>2, <3>4, <3>5, <3>8, <4>1, DeleteKeepsTree
    <3>9. QED
      BY <1>3, <3>6, <3>7, <3>8
  <2>5. QED
    BY <2>3, <2>4
<1>5. TreeSafe(t)'
  BY <1>1 DEF Over, TreeSafe, MoveCheckedBy, TargetsClosedBy, TargetsOrderedBy, ChildrenFirstBy
<1>6. ASSUME NEW u \in Tx \ {t} PROVE TreeSafe(u)'
  <2>1. \A i \in excl[u] : objects'[i] = objects[i]
    BY HeldStill
  <2>2. ASSUME orderLock = u PROVE objects' = objects /\ orderLock' = u
    <3>1. pending[t] = {}
      BY <2>2 DEF Published, PendingBy
    <3>2. dirty[t] = {}
      BY <1>1, <3>1
    <3>3. objects \in [AllIds -> Rows] /\ objects' = View(t)
      BY DEF Shape, TypeOK, Commit
    <3>4. objects' = objects
      BY <3>2, <3>3 DEF View
    <3>5. QED
      BY <2>2, <3>4 DEF Commit, End
  <2>3. ASSUME NEW j \in AllIds, LiveRow(objects, j)', objects'[j] # objects[j]
        PROVE  objects'[j].parent \notin excl[u]
               \/ (LiveRow(objects, j) /\ objects'[j].parent = objects[j].parent)
    <3>1. j \in dirty[t] /\ objects'[j] = buf[t][j] /\ ~buf[t][j].deleted
      BY <2>3, CommitEffect DEF LiveRow
    <3>2. \A i \in share[t] : i \notin excl[u]
      BY DEF Locks, Exclusive
    <3>3. CASE req[t].op = "create"
      <4>1. j = req[t].id /\ buf[t][j] = CreatedRow(t) /\ req[t].parent \in share[t]
        BY <1>1, <1>3, <3>1, <3>3 DEF Ready, WrittenBy, ParentHeldBy
      <4>2. QED
        BY <3>1, <3>2, <4>1 DEF CreatedRow
    <3>4. CASE req[t].op = "patch"
      <4>1. j = req[t].id /\ buf[t][j].parent = Wants(t) /\ LiveRow(objects, j)
        BY <1>1, <1>3, <3>1, <3>4 DEF Ready, WrittenBy, IsPatchOf, Locks, TargetHeld, Working
      <4>2. Wants(t) # objects[j].parent => Wants(t) \in share[t]
        BY <1>1, <1>3, <3>4, <4>1 DEF Ready, ParentHeldBy
      <4>3. QED
        BY <3>1, <3>2, <4>1, <4>2
    <3>5. CASE req[t].op = "delete"
      BY <1>1, <1>3, <3>1, <3>5 DEF Ready, WrittenBy, IsTombstoneOf
    <3>6. QED
      BY <1>3, <3>3, <3>4, <3>5
  <2>4. SameFor(u)
    BY <1>1
  <2>5. QED
    BY <2>1, <2>2, <2>3, <2>4, OthersTree
<1>7. QED
  BY <1>4, <1>5, <1>6 DEF TreeSound, EveryReplayIsATree

\* Statements other than a commit keep the prefixes, so only what the
\* transaction itself is about to commit needs a proof.
LEMMA StatementTree ==
    ASSUME Shape, Locks, RowsReady, Published, TreeSound, NEW t \in Tx,
           Begin(t) \/ Step(t) \/ Fail(t), UNCHANGED <<objects, feed>>,
           \A u \in Tx \ {t} : orderLock = u => orderLock' = u, TreeSafe(t)'
    PROVE  TreeSound'
<1>1. EveryReplayIsATree'
  <2>1. \A n : ReplayTo(n)' = ReplayTo(n)
    BY DEF ReplayTo
  <2>2. QED
    BY <2>1 DEF TreeSound, EveryReplayIsATree
<1>2. ASSUME NEW u \in Tx \ {t} PROVE TreeSafe(u)'
  <2>1. SameFor(u)
    BY Frame
  <2>2. QED
    BY <2>1, OthersTree
<1>3. QED
  BY <1>1, <1>2 DEF TreeSound

\* The only target of a delete is no parent of itself.
LEMMA OneTargetOrdered ==
    ASSUME IsTree(objects), Rooted, NEW t \in Tx, walk[t] = << >>,
           LiveRow(objects, req[t].id)
    PROVE  \A k, l \in DOMAIN Targets(t) :
              Targets(t)[k] \in Ids /\ objects[Targets(t)[k]].parent = Targets(t)[l] => k < l
<1>1. Targets(t) = << req[t].id >>
  BY OneTarget
<1>2. \A k \in DOMAIN Targets(t) : Targets(t)[k] = req[t].id
  BY <1>1
<1>3. req[t].id \in Ids => objects[req[t].id].parent # req[t].id
  BY ChildDeeper DEF Rooted
<1>4. QED
  BY <1>2, <1>3

\* The settled walk of a delete has every live descendant, deepest first.
LEMMA WalkSafe ==
    ASSUME Shape, Locks, RowsReady, IsTree(objects), NEW t \in Tx, pc[t] = "walk",
           walk[t] = WalkOrder(View(t), SubtreeOf(View(t), req[t].id))
    PROVE  /\ \A j \in Ids : LiveRow(objects, j) /\ objects[j].parent \in TargetIds(t)
                => j \in TargetIds(t)
           /\ \A k, l \in DOMAIN Targets(t) :
                Targets(t)[k] \in Ids /\ objects[Targets(t)[k]].parent = Targets(t)[l] => k < l
<1> DEFINE S == SubtreeOf(View(t), req[t].id)
<1>1. /\ req[t] \in Requests /\ req[t].id \in AllIds /\ dirty[t] = {}
  BY AtWork, RequestFacts DEF Shape, Requested, Phased
<1>2. View(t) = objects
  <2>1. View(t) = [i \in AllIds |-> View(t)[i]] /\ objects = [i \in AllIds |-> objects[i]]
    BY DEF View, Shape, TypeOK
  <2>2. \A i \in AllIds : View(t)[i] = objects[i]
    BY <1>1, CurrentFacts
  <2>3. QED
    BY <2>1, <2>2
<1>3. /\ Targets(t) = walk[t] /\ TargetIds(t) = S
      /\ \A i \in TargetIds(t) : LiveRow(objects, i)
  BY WalkSettled
<1>4. S \in SUBSET AllIds
  BY DEF SubtreeOf
<1>5. \A k \in AllIds : LiveRow(objects, k) /\ objects[k].parent \in S => k \in S
  BY <1>1, <1>2, SubtreeFacts
<1>6. \A k, l \in DOMAIN walk[t] : Depth(objects, walk[t][k]) > Depth(objects, walk[t][l]) => k < l
  <2>1. walk[t] = WalkOrder(objects, S)
    BY <1>2
  <2> HIDE DEF S
  <2>2. QED
    BY <1>4, <2>1, WalkLists
<1>7. ASSUME NEW k \in DOMAIN Targets(t), NEW l \in DOMAIN Targets(t),
             Targets(t)[k] \in Ids, objects[Targets(t)[k]].parent = Targets(t)[l]
      PROVE  k < l
  <2>1. LiveRow(objects, Targets(t)[k])
    BY <1>3 DEF TargetIds
  <2>2. objects[Root].parent = NoParent
    BY DEF RowsReady, Rooted
  <2>3. Depth(objects, Targets(t)[k]) > Depth(objects, Targets(t)[l])
    BY <1>7, <2>1, <2>2, ChildDeeper
  <2>4. QED
    BY <1>3, <1>6, <2>3
<1>8. QED
  BY <1>3, <1>5, <1>7, IdFacts

\* Every statement keeps the tree layer.
LEMMA StepTree ==
    ASSUME Shape, Locks, RowsReady, Published, TreeSound, NEW t \in Tx, Step(t)
    PROVE  TreeSound'
<1>1. TypeOK /\ Requested /\ Phased
  BY DEF Shape
<1>2. pc[t] \in Working
  BY DEF Step, LockTarget, LockParent, CheckMove, CheckEmpty, WalkDescendants, LockRow,
     RowsLocked, WriteNamed, WriteDeleted, RecheckMove, AppendChanges, Commit, Working
<1>3. /\ req[t] \in Requests /\ req[t].op \in {"create", "patch", "delete"}
      /\ req[t].id \in AllIds /\ req[t] # None /\ Ready(t) /\ TreeSafe(t)
  BY <1>1, <1>2, AtWork, RequestFacts DEF Working, RowsReady, TreeSound
<1>4. IsTree(objects) /\ Rooted
  BY ObjectsTree DEF RowsReady
<1>5. pc \in [Tx -> Working \cup {"idle", "done"}] /\ dirty \in [Tx -> SUBSET AllIds]
      /\ buf \in [Tx -> [AllIds -> Rows]]
  BY <1>1 DEF TypeOK
<1> USE DEF TreeSafe
<1>6. CASE Fail(t)
  <2>1. /\ UNCHANGED <<objects, feed>> /\ Over(t)
        /\ \A u \in Tx \ {t} : orderLock = u => orderLock' = u
    BY <1>6, EndFacts DEF Fail, End
  <2>2. TreeSafe(t)'
    BY <2>1 DEF Over, MoveCheckedBy, TargetsClosedBy, TargetsOrderedBy, ChildrenFirstBy
  <2>3. QED
    BY <1>6, <2>1, <2>2, StatementTree
<1>7. CASE LockTarget(t) /\ ~Fail(t)
  <2>1. /\ ~TargetRefused(t) /\ pc[t] = "lockTarget" /\ Goto(t, AfterLock(t))
        /\ UNCHANGED <<objects, feed, orderLock, req, share, dirty, buf, walk, pending>>
    BY <1>7 DEF LockTarget
  <2>2. /\ req[t].op \in {"patch", "delete"} /\ dirty[t] = {} /\ walk[t] = << >>
        /\ pc'[t] = AfterLock(t) /\ LiveRow(objects, req[t].id)
    BY <1>1, <1>3, <1>5, <2>1 DEF Requested, Phased, Goto, TargetRefused
  <2>3. pc'[t] \in {"commit", "lockParent", "write", "walk", "checkEmpty"}
    BY <2>2, AfterLockFacts
  <2>4. /\ TargetIds(t)' = TargetIds(t) /\ Targets(t)' = Targets(t)
        /\ TargetIds(t) = {req[t].id}
    BY <2>1, <2>2, OneTarget DEF TargetIds, Targets
  <2>5. ASSUME req[t].op = "delete", pc'[t] \in {"write", "append", "commit"}
        PROVE  pc'[t] = "write" /\ objects[req[t].id].kind = "file"
    <3>1. Current(t) = objects[req[t].id]
      BY <1>3, <2>2, CurrentFacts
    <3>2. QED
      BY <2>2, <2>5, <3>1 DEF AfterLock
  <2>6. MoveCheckedBy(t)'
    BY <2>1, <2>2 DEF MoveCheckedBy
  <2>7. TargetsClosedBy(t)'
    BY <1>4, <2>1, <2>4, <2>5 DEF TargetsClosedBy, LiveRow, IsTree, NoOrphanIn
  <2>8. TargetsOrderedBy(t)'
    BY <1>4, <2>1, <2>2, <2>4, OneTargetOrdered DEF TargetsOrderedBy
  <2>9. ChildrenFirstBy(t)'
    BY <2>1, <2>5 DEF ChildrenFirstBy
  <2>10. QED
    BY <2>1, <2>6, <2>7, <2>8, <2>9, StatementTree
<1>8. CASE (LockParent(t) \/ CheckMove(t)) /\ ~Fail(t)
  <2>1. /\ pc[t] \in {"lockParent", "checkMove"} /\ UNCHANGED <<objects, feed, orderLock, req>>
        /\ Goto(t, "checkMove") \/ Goto(t, "write")
    BY <1>8 DEF LockParent, CheckMove
  <2>2. pc'[t] \in {"checkMove", "write"} /\ req[t].op # "delete"
    BY <1>1, <1>5, <2>1 DEF Goto, Requested
  <2>3. TreeSafe(t)'
    BY <2>1, <2>2 DEF MoveCheckedBy, TargetsClosedBy, TargetsOrderedBy, ChildrenFirstBy
  <2>4. QED
    BY <2>1, <2>3, StatementTree
<1>9. CASE (LockRow(t) \/ RowsLocked(t)) /\ ~Fail(t)
  <2>1. UNCHANGED <<objects, feed, orderLock>> /\ pc'[t] \in {"lockRows", "walk"}
    BY <1>5, <1>9 DEF LockRow, RowsLocked, Goto
  <2>2. TreeSafe(t)'
    BY <2>1 DEF MoveCheckedBy, TargetsClosedBy, TargetsOrderedBy, ChildrenFirstBy
  <2>3. QED
    BY <2>1, <2>2, StatementTree
<1>10. CASE CheckEmpty(t) /\ ~Fail(t)
  <2>1. /\ pc[t] = "checkEmpty" /\ pc'[t] = "write"
        /\ UNCHANGED <<objects, feed, orderLock, req, walk>>
        /\ ~\E j \in Ids : LiveRow(objects, j) /\ objects[j].parent = req[t].id
    BY <1>5, <1>10 DEF CheckEmpty, Goto
  <2>2. walk[t] = << >> /\ req[t].op = "delete" /\ LiveRow(objects, req[t].id)
    BY <1>1, <2>1 DEF Phased, Requested, Locks, TargetHeld, Working
  <2>3. /\ TargetIds(t)' = TargetIds(t) /\ Targets(t)' = Targets(t)
        /\ TargetIds(t) = {req[t].id}
    BY <2>1, <2>2, OneTarget DEF TargetIds, Targets
  <2>4. TargetsClosedBy(t)'
    BY <2>1, <2>3 DEF TargetsClosedBy, LiveRow
  <2>5. TargetsOrderedBy(t)'
    BY <1>4, <2>1, <2>2, <2>3, OneTargetOrdered DEF TargetsOrderedBy
  <2>6. MoveCheckedBy(t)' /\ ChildrenFirstBy(t)'
    BY <2>1 DEF MoveCheckedBy, ChildrenFirstBy
  <2>7. QED
    BY <2>1, <2>4, <2>5, <2>6, StatementTree
<1>11. CASE WalkDescendants(t)
  <2>1. /\ pc[t] = "walk" /\ UNCHANGED <<objects, feed, orderLock, req>>
        /\ \/ /\ walk[t] = WalkOrder(View(t), SubtreeOf(View(t), req[t].id))
              /\ UNCHANGED walk /\ pc'[t] = "write"
           \/ pc'[t] = "lockRows"
    BY <1>5, <1>11 DEF WalkDescendants, Goto
  <2>2. CASE pc'[t] = "lockRows"
    <3>1. TreeSafe(t)'
      BY <2>2 DEF MoveCheckedBy, TargetsClosedBy, TargetsOrderedBy, ChildrenFirstBy
    <3>2. QED
      BY <2>1, <3>1, StatementTree
  <2>3. CASE pc'[t] = "write"
    <3>1. walk[t] = WalkOrder(View(t), SubtreeOf(View(t), req[t].id)) /\ UNCHANGED walk
      BY <2>1, <2>3
    <3>2. TargetIds(t)' = TargetIds(t) /\ Targets(t)' = Targets(t)
      BY <2>1, <3>1 DEF TargetIds, Targets
    <3>3. /\ \A j \in Ids : LiveRow(objects, j) /\ objects[j].parent \in TargetIds(t)
               => j \in TargetIds(t)
          /\ \A k, l \in DOMAIN Targets(t) :
               Targets(t)[k] \in Ids /\ objects[Targets(t)[k]].parent = Targets(t)[l] => k < l
      BY <1>4, <2>1, <3>1, WalkSafe
    <3>4. TargetsClosedBy(t)' /\ TargetsOrderedBy(t)'
      BY <2>1, <3>2, <3>3 DEF TargetsClosedBy, TargetsOrderedBy, LiveRow
    <3>5. MoveCheckedBy(t)' /\ ChildrenFirstBy(t)'
      BY <2>3 DEF MoveCheckedBy, ChildrenFirstBy
    <3>6. QED
      BY <2>1, <3>4, <3>5, StatementTree
  <2>4. QED
    BY <2>1, <2>2, <2>3
<1>12. CASE WriteNamed(t) /\ ~Fail(t)
  <2> DEFINE row == IF req[t].op = "create" THEN CreatedRow(t) ELSE PatchedRow(t)
  <2>1. /\ pc[t] = "write" /\ req[t].op \in {"create", "patch"}
        /\ UNCHANGED <<objects, feed, orderLock, req>> /\ pc'[t] \in {"recheck", "append"}
        /\ req[t].op = "patch" /\ ParentChanged(t) /\ row.kind = "folder" => pc'[t] = "recheck"
    BY <1>5, <1>12 DEF WriteNamed, Goto
  <2>2. MoveCheckedBy(t)'
    <3> SUFFICES ASSUME req[t].op = "patch", objects[req[t].id].kind = "folder",
                        Wants(t) # objects[req[t].id].parent
                 PROVE  pc'[t] = "recheck"
      BY <2>1 DEF MoveCheckedBy, Wants
    <3>1. dirty[t] = {}
      BY <1>1, <2>1 DEF Phased
    <3>2. Current(t) = objects[req[t].id] /\ ParentChanged(t)
      BY <1>3, <3>1, CurrentFacts DEF ParentChanged
    <3>3. row.kind = "folder"
      BY <1>1, <1>3, <3>2, WrittenRowTypes
    <3>4. QED
      BY <2>1, <3>2, <3>3
  <2>3. TargetsClosedBy(t)' /\ TargetsOrderedBy(t)' /\ ChildrenFirstBy(t)'
    BY <2>1 DEF TargetsClosedBy, TargetsOrderedBy, ChildrenFirstBy
  <2>4. QED
    BY <2>1, <2>2, <2>3, StatementTree
<1>13. CASE WriteDeleted(t)
  <2>1. /\ pc[t] = "write" /\ req[t].op = "delete" /\ pc'[t] = "append"
        /\ UNCHANGED <<objects, feed, orderLock, req, walk>>
    BY <1>5, <1>13 DEF WriteDeleted, Goto
  <2>2. TargetIds(t)' = TargetIds(t) /\ Targets(t)' = Targets(t)
    BY <2>1 DEF TargetIds, Targets
  <2>3. TargetsClosedBy(t)' /\ TargetsOrderedBy(t)'
    BY <1>3, <2>1, <2>2 DEF TargetsClosedBy, TargetsOrderedBy, LiveRow
  <2>4. MoveCheckedBy(t)' /\ ChildrenFirstBy(t)'
    BY <2>1 DEF MoveCheckedBy, ChildrenFirstBy
  <2>5. QED
    BY <2>1, <2>3, <2>4, StatementTree
<1>14. CASE RecheckMove(t) /\ ~Fail(t)
  <2>1. /\ pc[t] = "recheck" /\ pc'[t] = "append" /\ orderLock' = t /\ orderLock \in {None, t}
        /\ ~IsSelfOrDescendant(View(t), Current(t).parent, req[t].id)
        /\ UNCHANGED <<objects, feed, req, dirty, buf>>
    BY <1>5, <1>14 DEF RecheckMove, Goto, OrderLockFree
  <2>2. req[t].op = "patch"
    BY <1>1, <2>1 DEF Requested
  <2>3. dirty[t] = {req[t].id} /\ IsPatchOf(buf[t][req[t].id], t)
    BY <1>3, <2>1, <2>2 DEF Ready, WrittenBy
  <2>4. Current(t).parent = Wants(t)
    BY <1>1, <1>3, <2>3, ViewType DEF Current, IsPatchOf
  <2>5. View(t)' = View(t) /\ Wants(t)' = Wants(t)
    BY <2>1 DEF View, Wants
  <2>6. req[t].id \notin SelfAndAncestors(View(t), Wants(t))
    BY <2>1, <2>4 DEF IsSelfOrDescendant
  <2>7. MoveCheckedBy(t)'
    BY <2>1, <2>5, <2>6 DEF MoveCheckedBy, SelfAndAncestors
  <2>8. TargetsClosedBy(t)' /\ TargetsOrderedBy(t)' /\ ChildrenFirstBy(t)'
    BY <2>1, <2>2 DEF TargetsClosedBy, TargetsOrderedBy, ChildrenFirstBy
  <2>9. \A u \in Tx \ {t} : orderLock = u => orderLock' = u
    BY <2>1, TreeAssumption
  <2>10. QED
    BY <2>1, <2>7, <2>8, <2>9, StatementTree
<1>15. CASE AppendChanges(t)
  <2>1. /\ pending'[t] = {ChangeOf(t, e) : e \in Emitted(t)}
        /\ pc[t] = "append" /\ pc'[t] = "commit" /\ orderLock' = t /\ orderLock \in {None, t}
        /\ UNCHANGED <<objects, feed, req, share, excl, dirty, buf, walk, tries>>
    BY <1>15, AppendFacts
  <2>2. /\ TargetIds(t)' = TargetIds(t) /\ Targets(t)' = Targets(t)
        /\ View(t)' = View(t) /\ Wants(t)' = Wants(t)
    BY <2>1 DEF TargetIds, Targets, View, Wants
  <2>3. MoveCheckedBy(t)'
    BY <1>3, <2>1, <2>2 DEF MoveCheckedBy, SelfAndAncestors
  <2>4. TargetsClosedBy(t)' /\ TargetsOrderedBy(t)'
    BY <1>3, <2>1, <2>2 DEF TargetsClosedBy, TargetsOrderedBy, LiveRow
  <2>5. ChildrenFirstBy(t)'
    <3> SUFFICES ASSUME req[t].op = "delete", NEW c \in pending'[t], NEW d \in pending'[t],
                        c.id \in Ids, objects[c.id].parent = d.id
                 PROVE  c.seq < d.seq
      BY <2>1 DEF ChildrenFirstBy
    <3>1. PICK e \in Emitted(t), f \in Emitted(t) : c = ChangeOf(t, e) /\ d = ChangeOf(t, f)
      BY <2>1
    <3>2. /\ c.id = e[1] /\ c.seq = nextSeq + EmissionRank(t, e)
          /\ d.id = f[1] /\ d.seq = nextSeq + EmissionRank(t, f)
      BY <3>1 DEF ChangeOf
    <3>3. e[1] \in TargetIds(t) /\ f[1] \in TargetIds(t)
      BY <1>3, <2>1, EmittedAboutWritten DEF Ready, WrittenBy
    <3>4. PICK k \in DOMAIN Targets(t), l \in DOMAIN Targets(t) :
             Targets(t)[k] = e[1] /\ Targets(t)[l] = f[1]
      BY <3>3 DEF TargetIds
    <3>5. k < l
      BY <1>3, <2>1, <3>2, <3>4 DEF TargetsOrderedBy
    <3>6. EmittedBefore(t, e, f)
      BY <3>4, <3>5 DEF EmittedBefore
    <3>7. EmissionRank(t, e) < EmissionRank(t, f)
      BY <2>1, <3>6, EmissionRanks
    <3>8. /\ EmissionRank(t, e) \in Int /\ EmissionRank(t, f) \in Int /\ nextSeq \in Int
      BY <1>1, <2>1, EmissionRanks DEF TypeOK
    <3>9. QED
      BY <3>2, <3>7, <3>8
  <2>6. \A u \in Tx \ {t} : orderLock = u => orderLock' = u
    BY <2>1, TreeAssumption
  <2>7. QED
    BY <2>1, <2>3, <2>4, <2>5, <2>6, StatementTree
<1>16. CASE Commit(t)
  BY <1>16, CommitTree
<1>17. QED
  BY <1>6, <1>7, <1>8, <1>9, <1>10, <1>11, <1>12, <1>13, <1>14, <1>15, <1>16 DEF Step

LEMMA BeginTree ==
    ASSUME Shape, Locks, RowsReady, Published, TreeSound, NEW t \in Tx, Begin(t)
    PROVE  TreeSound'
<1>1. pc'[t] \in {"lockParent", "lockTarget"} /\ UNCHANGED <<objects, feed, orderLock>>
  <2>1. PICK q \in Requests :
          pc' = [pc EXCEPT ![t] = IF q.op = "create" THEN "lockParent" ELSE "lockTarget"]
    BY DEF Begin, Goto
  <2>2. QED
    BY <2>1 DEF Begin, Shape, TypeOK
<1>2. TreeSafe(t)'
  BY <1>1 DEF TreeSafe, MoveCheckedBy, TargetsClosedBy, TargetsOrderedBy, ChildrenFirstBy
<1>3. QED
  BY <1>1, <1>2, StatementTree

-----------------------------------------------------------------------------
(* The whole invariant *)

LEMMA FailPublished ==
    ASSUME Shape, Published, NEW t \in Tx, pc[t] \in Working, Fail(t) PROVE Published'
<1>1. /\ UNCHANGED <<objects, feed, nextSeq>> /\ Over(t)
      /\ \A u \in Tx \ {t} : SameFor(u) /\ (orderLock = u => orderLock' = u)
  BY EndFacts DEF Fail, End
<1>2. pc[t] # "done"
  BY DEF Working
<1>3. QED
  BY <1>1, <1>2, StatementPublished DEF Over

LEMMA FailTree ==
    ASSUME Shape, Locks, RowsReady, Published, TreeSound, NEW t \in Tx, Fail(t)
    PROVE  TreeSound'
<1>1. /\ UNCHANGED <<objects, feed>> /\ Over(t)
      /\ \A u \in Tx \ {t} : orderLock = u => orderLock' = u
  BY EndFacts DEF Fail, End
<1>2. TreeSafe(t)'
  BY <1>1 DEF Over, TreeSafe, MoveCheckedBy, TargetsClosedBy, TargetsOrderedBy, ChildrenFirstBy
<1>3. QED
  BY <1>1, <1>2, StatementTree

Inv == Shape /\ Locks /\ RowsReady /\ Published /\ TreeSound

\* A step that changes nothing.
LEMMA InvStutters == Inv /\ UNCHANGED vars => Inv'
<1> SUFFICES ASSUME Inv, UNCHANGED vars PROVE Inv'
  OBVIOUS
<1>1. \A n : ReplayTo(n)' = ReplayTo(n)
  BY DEF vars, ReplayTo
<1>2. \A t : View(t)' = View(t) /\ Targets(t)' = Targets(t) /\ TargetIds(t)' = TargetIds(t)
  BY DEF vars, View, Targets, TargetIds
<1>3. Shape'
  BY ShapeStep DEF Inv
<1>4. Locks'
  BY DEF vars, Inv, Locks, Exclusive, Shared, KnownRows, TargetHeld, FreshIds, Undrawn, Drawn,
     WalkedIds, LiveRow
<1>5. RowsReady'
  <2>1. Rooted'
    BY DEF vars, Inv, RowsReady, Rooted
  <2>2. ASSUME NEW t \in Tx PROVE ParentHeldBy(t)' /\ TargetsHeldBy(t)'
    BY <1>2 DEF vars, Inv, RowsReady, Ready, ParentHeldBy, TargetsHeldBy, Wants, NewName, NewMeta,
       Differs, ListedOnce, LiveRow
  <2>3. ASSUME NEW t \in Tx PROVE WrittenBy(t)'
    BY <1>2 DEF vars, Inv, RowsReady, Ready, WrittenBy, Wants, NewName, NewMeta, IsPatchOf,
       IsTombstoneOf, CreatedRow
  <2>4. QED
    BY <2>1, <2>2, <2>3 DEF RowsReady, Ready
<1>6. Published'
  BY <1>1 DEF vars, Inv, Published, PendingBy, Numbered, ReplaysToObjects, Revised, RevisionsOf,
     IfMatchHonoured
<1>7. TreeSound'
  BY <1>1, <1>2 DEF vars, Inv, TreeSound, EveryReplayIsATree, TreeSafe, MoveCheckedBy,
     TargetsClosedBy, TargetsOrderedBy, ChildrenFirstBy, Wants, SelfAndAncestors, LiveRow
<1>8. QED
  BY <1>3, <1>4, <1>5, <1>6, <1>7 DEF Inv

LEMMA InitInv == Init => Inv
BY InitShape, InitLocks, InitReady, InitPublished, InitTree DEF Inv

\* Every step keeps the five layers.
LEMMA InvStep == Inv /\ [Next]_vars => Inv'
<1> USE DEF Inv
<1>1. ASSUME Inv, NEW t \in Tx, Begin(t) PROVE Inv'
  BY <1>1, BeginShape, BeginLocks, BeginReady, BeginPublished, BeginTree
<1>2. ASSUME Inv, NEW t \in Tx, Step(t) PROVE Inv'
  BY <1>2, StepShape, StepLocks, StepReady, StepPublished, StepTree
<1>3. ASSUME Inv, NEW t \in Tx, pc[t] \in Working, Fail(t) PROVE Inv'
  <2>1. RowsReady'
    BY <1>3, EndReady DEF Fail
  <2>2. QED
    BY <1>3, <2>1, FailShape, FailLocks, FailPublished, FailTree
<1>4. ASSUME Inv, NEW t \in Tx, LockTimeout(t) PROVE Inv'
  <2>1. pc[t] \in Working /\ Fail(t)
    BY <1>4 DEF LockTimeout, Blocked, Working
  <2>2. QED
    BY <1>3, <1>4, <2>1
<1> QED
  BY <1>1, <1>2, <1>3, <1>4, InvStutters DEF Next, Rollback

\* However transactions interleave, wait, time out and roll back, each keeps its
\* shape, its row locks hold still what it has read, the rows it is about to
\* commit and the Changes it has numbered are the ones its request asks for, and
\* the feed replays to a tree.
THEOREM Invariance == Spec => []Inv
BY InitInv, InvStep, PTL DEF Spec

\* Rows, locks, walks and Changes keep their types: no statement of
\* create_object, patch_object or delete_object writes a row that the schema
\* does not admit.
THEOREM TypeCorrect == Spec => []TypeOK
<1>1. Inv => TypeOK
  BY DEF Inv, Shape
<1>2. QED
  BY <1>1, Invariance, PTL

\* Between taking the Change-order lock and COMMIT a transaction has no statement
\* that another transaction's locks could stop, so the lock that orders all
\* mutations never waits for a row lock.
THEOREM HolderNeverWaits == Spec => []OrderLockHolderRuns
<1>1. Inv => OrderLockHolderRuns
  BY DEF Inv, Shape, Phased, OrderLockHolderRuns, Blocked, OrderLockFree
<1>2. QED
  BY <1>1, Invariance, PTL

\* The feed that append_changes and COMMIT leave replays to exactly the committed
\* rows, carries every revision of every object once, and gives no sequence
\* number twice.
THEOREM HistoryTold == Spec => []FeedTellsHistory
<1>1. ASSUME Inv PROVE FeedTellsHistory
  <2>1. nextSeq \in Nat /\ \A c \in feed : c.seq \in Nat /\ c.seq < nextSeq
    BY <1>1, ChangeFacts DEF Inv, Shape, TypeOK, Published, Numbered
  <2>2. ReplayTo(nextSeq) = objects
    BY <1>1, <2>1 DEF Inv, Published, ReplaysToObjects
  <2>3. \A i \in AllIds :
          {c.revision : c \in {d \in feed : d.id = i}}
            = (InitialRows[i].revision + 1)..objects[i].revision
    BY <1>1 DEF Inv, Published, Revised, RevisionsOf
  <2>4. \A c, d \in feed :
          /\ c.seq = d.seq => c = d
          /\ c.id = d.id /\ c.revision = d.revision => c.tx = d.tx
    BY <1>1 DEF Inv, Published, Numbered, Revised
  <2>5. QED
    BY <2>2, <2>3, <2>4 DEF FeedTellsHistory
<1>2. QED
  BY <1>1, Invariance, PTL

\* A mutation sent with If-Match is applied to exactly that revision or not at
\* all: the row locked FOR UPDATE when lock_object compared the revisions is the
\* row the transaction commits over.
THEOREM IfMatchSafe == Spec => []IfMatchHonoured
<1>1. Inv => IfMatchHonoured
  BY DEF Inv, Published
<1>2. QED
  BY <1>1, Invariance, PTL

\* A follower that has applied any prefix of the feed holds a proper tree: no
\* live object below a missing, deleted or non-folder parent, and no cycle, even
\* when recursive deletes, creates below them and crossing folder moves overlap.
THEOREM PrefixesAreTrees == Spec => []EveryPrefixIsATree
<1>1. ASSUME Inv PROVE EveryPrefixIsATree
  <2>1. \A n \in 0..(nextSeq - 1) : n \in Nat
    BY <1>1 DEF Inv, Shape, TypeOK
  <2>2. QED
    BY <1>1, <2>1 DEF Inv, TreeSound, EveryReplayIsATree, IsTree, EveryPrefixIsATree
<1>2. QED
  BY <1>1, Invariance, PTL

-----------------------------------------------------------------------------
(* The documents a patch writes: what a metadata PATCH promises a client   *)
(* that retries it, or that edits other keys than another client, for any  *)
(* documents and patches.                                                  *)

\* The keys a patch says something about.
Touched(p) == DOMAIN p.set \cup p.remove

\* A patch that is applied again, after an answer was lost, changes nothing: the
\* second PATCH is the no-op that emits no Change.
THEOREM PatchIsIdempotent ==
    ASSUME NEW d, NEW p
    PROVE  apply_metadata_patch(apply_metadata_patch(d, p), p) = apply_metadata_patch(d, p)
<1> DEFINE once == apply_metadata_patch(d, p)
           keys == (DOMAIN d \cup DOMAIN p.set) \ p.remove
<1>1. once = [k \in keys |-> IF k \in DOMAIN p.set THEN p.set[k] ELSE d[k]]
  BY DEF apply_metadata_patch
<1>2. DOMAIN once = keys
  BY <1>1
<1>3. (DOMAIN once \cup DOMAIN p.set) \ p.remove = keys
  BY <1>2
<1>4. \A k \in keys : once[k] = IF k \in DOMAIN p.set THEN p.set[k] ELSE d[k]
  BY <1>1
<1> HIDE DEF once
<1>5. apply_metadata_patch(once, p) =
        [k \in keys |-> IF k \in DOMAIN p.set THEN p.set[k] ELSE once[k]]
  BY <1>3 DEF apply_metadata_patch
<1> HIDE DEF keys
<1>6. [k \in keys |-> IF k \in DOMAIN p.set THEN p.set[k] ELSE once[k]]
        = [k \in keys |-> IF k \in DOMAIN p.set THEN p.set[k] ELSE d[k]]
  BY <1>4
<1>7. apply_metadata_patch(once, p) = once
  BY <1>1, <1>5, <1>6
<1>8. QED
  BY <1>7 DEF once

\* The document after a and then b.
AfterBoth(d, a, b) ==
    [k \in (DOMAIN d \cup DOMAIN a.set \cup DOMAIN b.set) \ (a.remove \cup b.remove) |->
        IF k \in DOMAIN b.set THEN b.set[k]
        ELSE IF k \in DOMAIN a.set THEN a.set[k] ELSE d[k]]

\* Applying patches of different keys one after the other applies both.
LEMMA TwoPatches ==
    ASSUME NEW d, NEW a, NEW b, Touched(a) \cap Touched(b) = {}
    PROVE  apply_metadata_patch(apply_metadata_patch(d, a), b) = AfterBoth(d, a, b)
<1> DEFINE ka == (DOMAIN d \cup DOMAIN a.set) \ a.remove
           kb == (DOMAIN d \cup DOMAIN a.set \cup DOMAIN b.set) \ (a.remove \cup b.remove)
           first == [k \in ka |-> IF k \in DOMAIN a.set THEN a.set[k] ELSE d[k]]
<1>1. apply_metadata_patch(d, a) = first
  BY DEF apply_metadata_patch
<1>2. DOMAIN first = ka
  OBVIOUS
<1>3. (ka \cup DOMAIN b.set) \ b.remove = kb
  BY DEF Touched
<1>4. \A k \in ka : first[k] = IF k \in DOMAIN a.set THEN a.set[k] ELSE d[k]
  OBVIOUS
<1>5. \A k \in kb : k \notin DOMAIN b.set => k \in ka
  BY <1>3
<1> HIDE DEF first
<1>6. apply_metadata_patch(first, b) =
        [k \in kb |-> IF k \in DOMAIN b.set THEN b.set[k] ELSE first[k]]
  BY <1>2, <1>3 DEF apply_metadata_patch
<1> HIDE DEF ka, kb
<1>7. [k \in kb |-> IF k \in DOMAIN b.set THEN b.set[k] ELSE first[k]] =
        [k \in kb |-> IF k \in DOMAIN b.set THEN b.set[k]
                      ELSE IF k \in DOMAIN a.set THEN a.set[k] ELSE d[k]]
  BY <1>4, <1>5
<1>8. QED
  BY <1>1, <1>6, <1>7 DEF kb, AfterBoth

\* Patches of different keys, sent without If-Match by two clients, leave the
\* same document in whichever order they are applied: no edit is lost.
THEOREM DisjointPatchesCommute ==
    ASSUME NEW d, NEW p, NEW q, Touched(p) \cap Touched(q) = {}
    PROVE  apply_metadata_patch(apply_metadata_patch(d, p), q)
             = apply_metadata_patch(apply_metadata_patch(d, q), p)
<1> DEFINE keys == (DOMAIN d \cup DOMAIN p.set \cup DOMAIN q.set) \ (p.remove \cup q.remove)
<1>1. AfterBoth(d, p, q) =
        [k \in keys |-> IF k \in DOMAIN q.set THEN q.set[k]
                        ELSE IF k \in DOMAIN p.set THEN p.set[k] ELSE d[k]]
  BY DEF AfterBoth
<1>2. AfterBoth(d, q, p) =
        [k \in keys |-> IF k \in DOMAIN p.set THEN p.set[k]
                        ELSE IF k \in DOMAIN q.set THEN q.set[k] ELSE d[k]]
  <2>1. keys = (DOMAIN d \cup DOMAIN q.set \cup DOMAIN p.set) \ (q.remove \cup p.remove)
    OBVIOUS
  <2>2. QED
    BY <2>1 DEF AfterBoth
<1>3. \A k : ~(k \in DOMAIN p.set /\ k \in DOMAIN q.set)
  BY DEF Touched
<1> HIDE DEF keys
<1>4. AfterBoth(d, p, q) = AfterBoth(d, q, p)
  BY <1>1, <1>2, <1>3
<1>5. Touched(q) \cap Touched(p) = {}
  OBVIOUS
<1>6. QED
  BY <1>4, <1>5, TwoPatches
=============================================================================
