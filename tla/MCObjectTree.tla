---------------------------- MODULE MCObjectTree ----------------------------
(* Instances of ObjectTree: folders 1 and 2 below the root, folder 3 in 1,  *)
(* folder 4 in 2, and the fresh id 5.                                       *)
EXTENDS ObjectTree, TLC

CONSTANTS t1, t2, t3

MCIds == 1..5
MCNames == {"a", "b", "c", "n"}
\* Documents over the keys k and l with one value each, and patches of them.
MCMetas == UNION {[K -> {1}] : K \in SUBSET {"k", "l"}}
SetOf(K) == [k \in K |-> 1]
SetK == [set |-> SetOf({"k"}), remove |-> {}]
SetL == [set |-> SetOf({"l"}), remove |-> {}]
DropK == [set |-> SetOf({}), remove |-> {"k"}]
MCPatches == {SetK, SetL, DropK}

Folder(p, n) == [exists |-> TRUE, kind |-> "folder", parent |-> p, name |-> n,
                 meta |-> SetOf({}), deleted |-> FALSE, revision |-> 1]
Absent == [Folder(0, "n") EXCEPT !.exists = FALSE, !.revision = 0]

MCInitialRows ==
    [i \in 0..5 |-> CASE i = 0 -> Folder(-1, "n")
                      [] i = 1 -> Folder(0, "a")
                      [] i = 2 -> Folder(0, "b")
                      [] i = 3 -> Folder(1, "c")
                      [] i = 4 -> Folder(2, "c")
                      [] OTHER -> Absent]

Create(i, p, k) == [op |-> "create", id |-> i, parent |-> p, name |-> "n",
                    meta |-> SetOf({}), kind |-> k, recursive |-> FALSE, if_match |-> None]
Patch(i, p, n, m, r) == [op |-> "patch", id |-> i, parent |-> p, name |-> n,
                         meta |-> m, kind |-> "folder", recursive |-> FALSE,
                         if_match |-> r]
Delete(i, rec, r) == [op |-> "delete", id |-> i, parent |-> Keep, name |-> Keep,
                      meta |-> Keep, kind |-> "folder", recursive |-> rec,
                      if_match |-> r]

\* Crossing moves, creates below a folder being deleted, both deletes, the
\* same name claimed twice, an update behind If-Match, a no-op, the root.
MCRequests ==
    { Create(5, 3, "file"), Create(5, 2, "file"),
      Patch(1, 4, Keep, Keep, None), Patch(2, 3, Keep, Keep, None),
      Patch(3, 2, "n", SetK, None), Patch(3, Keep, "b", SetL, 1),
      Patch(5, Keep, Keep, DropK, None), Patch(0, Keep, Keep, SetK, 1),
      Delete(1, TRUE, None), Delete(3, FALSE, 1), Delete(0, TRUE, None) }

\* The requests that lock several rows, in crossing orders.
CrossingRequests ==
    { Create(5, 3, "file"), Patch(1, 2, Keep, Keep, None),
      Patch(2, 1, Keep, Keep, None), Delete(1, TRUE, None),
      Patch(3, 2, "n", Keep, None) }

MCSymmetry == Permutations(Tx)
=============================================================================
