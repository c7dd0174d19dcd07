--------------------------- MODULE MCKeysetPages ---------------------------
(* Instance of KeysetPages: folder 1 with the folder 2 and the files 3, 4,  *)
(* and the fresh id 5; names are numbers, which gives them an order.        *)
EXTENDS KeysetPages, TLC

CONSTANTS c1, c2, c3

SetOf(K) == [k \in K |-> 1]
Row(k, p, n, m) == [exists |-> TRUE, kind |-> k, parent |-> p, name |-> n,
                    meta |-> m, deleted |-> FALSE, revision |-> 1]

MCIds == 1..5

MCInitialRows ==
    << Row("folder", 0, 1, SetOf({})), Row("folder", 1, 4, SetOf({"k"})),
       Row("file", 1, 2, SetOf({"k"})), Row("file", 1, 6, SetOf({"l"})),
       [Row("file", 1, 1, SetOf({})) EXCEPT !.exists = FALSE, !.revision = 0] >>
    @@ (0 :> Row("folder", -1, 9, SetOf({})))

Create(i, p, n) == [op |-> "create", id |-> i, parent |-> p, name |-> n,
                    meta |-> SetOf({"k"}), kind |-> "file", recursive |-> FALSE, if_match |-> None]
Patch(i, p, n, m) == [op |-> "patch", id |-> i, parent |-> p, name |-> n, meta |-> m,
                      kind |-> "file", recursive |-> FALSE, if_match |-> None]
Delete(i, rec) == [op |-> "delete", id |-> i, parent |-> Keep, name |-> Keep,
                   meta |-> Keep, kind |-> "file", recursive |-> rec, if_match |-> None]

\* New rows before and behind the cursor, renames across it, moves out and in,
\* the cursor's own row deleted, a metadata change, the folder itself deleted.
MCRequests ==
    { Create(5, 1, 1), Create(5, 1, 5), Patch(3, Keep, 7, Keep), Patch(4, Keep, 3, Keep),
      Patch(3, 2, Keep, Keep), Patch(2, 0, Keep, Keep),
      Patch(4, Keep, Keep, [set |-> SetOf({"k"}), remove |-> {"l"}]),
      Delete(3, FALSE), Delete(2, TRUE), Delete(1, TRUE) }

Children(p, by, order, limit) ==
    [what |-> "children", parent |-> p, by |-> by, order |-> order, limit |-> limit]
Query(kind, name, parent, conditions, limit) ==
    [what |-> "query", kind |-> kind, name |-> name, parent |-> parent,
     conditions |-> conditions, limit |-> limit]
Eq(k, v) == [op |-> "eq", key |-> k, value |-> v]
Exists(k, v) == [op |-> "exists", key |-> k, value |-> v]

MCQueries ==
    { Children(1, "name", "asc", 1), Children(1, "name", "desc", 0),
      Children(1, "updated_at", "asc", 1), Children(1, "created_at", "desc", 2),
      Children(1, "size", "asc", 1), Children(3, "name", "asc", None),
      Query(None, None, None, {Exists("k", TRUE)}, 9),
      Query("file", None, 1, {Eq("k", 1), Exists("l", FALSE)}, 1),
      Query(None, 4, None, {}, 1),
      [what |-> "resolve", path |-> <<1, 0, 4>>], [what |-> "resolve", path |-> <<1, 2>>],
      [what |-> "resolve", path |-> <<1, -1>>], [what |-> "resolve", path |-> << >>] }

MCSymmetry == Permutations(Clients)
=============================================================================
