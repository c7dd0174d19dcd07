---------------------------- MODULE KeysetPages ----------------------------
(***************************************************************************)
(* Reading a tree that changes meanwhile: a client follows a folder        *)
(* listing or a metadata query page by page, or resolves a path, while     *)
(* other clients mutate the tree.                                          *)
(*                                                                         *)
(* The mutations are those of TreeStore.  A page is one HTTP request: the  *)
(* folder check (listings only), the SELECT of the rows and the SELECT of  *)
(* their paths are separate statements, each seeing the tree of its time.  *)
(***************************************************************************)
EXTENDS Integers, Sequences, FiniteSets, Metadata

CONSTANTS
    Ids, Clients, Requests, InitialRows, Keep, None,   \* as in TreeStore
    Queries,                  \* what the reader may ask for
    DefaultLimit, MaxLimit    \* list_default_limit, list_max_limit

VARIABLES
    objects, changes,   \* the tree, see TreeStore
    query,              \* the reader's request, kept for the whole chain
    stage,              \* its next statement, or how the chain ended
    cursor,             \* KeysetCursor of the next page: key and id
    rows,               \* rows read, whose paths are still to be fetched
    more,               \* a row was left behind the page
    delivered,          \* history: the items of all pages so far
    steady              \* history: ids in the result, in place, ever since

tree == <<objects, changes>>
vars == <<objects, changes, query, stage, cursor, rows, more, delivered, steady>>

Store == INSTANCE TreeStore

Root == Store!Root
AllIds == Store!AllIds

\* How a chain of requests may end.
Outcomes == {"done", "not_found", "not_a_folder", "invalid_request"}

\* What a request may say: a folder and an order, conditions, or a path.
IsQuery(q) ==
    \/ /\ q.what = "children" /\ q.parent \in AllIds /\ q.limit \in Nat \cup {None}
       /\ q.by \in {"name", "created_at", "updated_at", "size", "id"}
       /\ q.order \in {"asc", "desc"}
    \/ q.what = "query" /\ q.limit \in Nat \cup {None}
    \/ q.what = "resolve" /\ q.path \in Seq(Int)

RowFields == {"exists", "kind", "parent", "name", "meta", "deleted", "revision"}

\* A row of the tree; names stand in their sort order, as numbers.
IsRow(r) ==
    /\ r = [f \in RowFields |-> r[f]]
    /\ r.name \in Int /\ r.revision \in Nat
    /\ r.exists \in BOOLEAN /\ r.deleted \in BOOLEAN

\* objects_live_parent_name_uq: live siblings have different names.
SiblingsDiffer(rows_) ==
    \A i, j \in Ids :
        /\ rows_[i].exists /\ ~rows_[i].deleted /\ rows_[j].exists /\ ~rows_[j].deleted
        /\ rows_[i].parent = rows_[j].parent /\ rows_[i].name = rows_[j].name
        => i = j

ASSUME PageAssumption ==
    /\ DefaultLimit \in Nat \ {0} /\ MaxLimit \in Nat \ {0}
    /\ None \notin Nat \cup Queries \cup (Int \X Int)
    /\ \A q \in Queries : IsQuery(q)

ASSUME TreeAssumption ==
    /\ Ids \subseteq Nat \ {0} /\ IsFiniteSet(Ids)
    /\ InitialRows = [i \in AllIds |-> InitialRows[i]]
    /\ \A i \in AllIds : IsRow(InitialRows[i])
    /\ \A i \in Ids : InitialRows[i].parent \in AllIds
    /\ InitialRows[Root].exists /\ ~InitialRows[Root].deleted
    /\ SiblingsDiffer(InitialRows)
    /\ \A q \in Requests :
          /\ q.op = "create" => q.id \in Ids /\ q.name \in Int
          /\ q.op # "create" => q.id \in AllIds /\ q.name \in Int \cup {Keep}

-----------------------------------------------------------------------------
(* Listings, queries and paths *)

\* The time of the last Change of i, and of its creation, as a position.
LastChange(i) ==
    Cardinality({n \in DOMAIN changes : \E m \in DOMAIN changes : m >= n /\ changes[m].id = i})

CreatedAt(i) ==
    Cardinality({n \in DOMAIN changes : \E m \in DOMAIN changes :
                    m >= n /\ changes[m].id = i /\ changes[m].action = "created"})

\* order_expression; no object here has content, hence the size -1 for all.
SortKey(by, i) ==
    CASE by = "name" -> objects[i].name
      [] by = "created_at" -> CreatedAt(i)
      [] by = "updated_at" -> LastChange(i)
      [] by = "size" -> -1
      [] by = "id" -> 0

\* The order of the result; a query is ordered by id alone.
OrderBy(q) == IF q.what = "children" THEN q.by ELSE "id"
Descending(q) == q.what = "children" /\ q.order = "desc"

Less(a, b) == a[1] < b[1] \/ (a[1] = b[1] /\ a[2] < b[2])
Behind(q, a, b) == IF Descending(q) THEN Less(b, a) ELSE Less(a, b)

\* sort_key_of and id: what the keyset compares.
Place(q, i) == <<SortKey(OrderBy(q), i), i>>

\* WHERE of list_children and of query_objects.
Selected(q, i) ==
    /\ Store!is_live(i)
    /\ \/ q.what = "children" /\ objects[i].parent = q.parent
       \/ /\ q.what = "query"
          /\ q.kind \in {None, objects[i].kind}
          /\ q.name \in {None, objects[i].name}
          /\ q.parent \in {None, objects[i].parent}
          /\ MatchesAll(q.conditions, objects[i].meta)

\* ORDER BY: the members of S by their places.
Ordered(q, S) ==
    LET places == {Place(q, i) : i \in S} IN
    [n \in 1..Cardinality(S) |->
        (CHOOSE a \in places : Cardinality({b \in places : Behind(q, b, a)}) = n - 1)[2]]

\* Variant: a limit of zero is passed on.
clamp_limit_open(limit) ==
    IF limit = None THEN DefaultLimit ELSE IF limit > MaxLimit THEN MaxLimit ELSE limit

clamp_limit(limit) ==
    IF limit = None THEN DefaultLimit
    ELSE IF limit > MaxLimit THEN MaxLimit ELSE IF limit < 1 THEN 1 ELSE limit

\* Variant: the names from the object up.
render_path_leaf_first(i) ==
    LET walk[n \in Nat] ==
            LET j == IF n = 0 THEN i ELSE walk[n - 1] IN
            IF n = 0 \/ j = Root THEN j ELSE objects[j].parent
        depth == Cardinality({n \in 0..Cardinality(Ids) : walk[n] # Root}) IN
    [n \in 1..depth |-> objects[walk[n - 1]].name]

\* The chain of names from the root; the root's own name is empty.
render_path(i) ==
    LET walk[n \in Nat] ==
            LET j == IF n = 0 THEN i ELSE walk[n - 1] IN
            IF n = 0 \/ j = Root THEN j ELSE objects[j].parent
        depth == Cardinality({n \in 0..Cardinality(Ids) : walk[n] # Root}) IN
    [n \in 1..depth |-> objects[walk[depth - n]].name]

\* split_path: empty segments collapse, an invalid name refuses the path.
Blank == 0
Invalid == -1
split_path(path) ==
    LET kept == Store!InOrder({n \in DOMAIN path : path[n] # Blank}, LAMBDA m, n : m < n) IN
    [n \in DOMAIN kept |-> path[kept[n]]]
ValidPath(path) == \A n \in DOMAIN path : path[n] # Invalid

\* RESOLVE_QUERY: one child by name per segment, starting at the root.
Resolve(path) ==
    LET names == split_path(path)
        walk[n \in Nat] ==
            IF n = 0 THEN {Root}
            ELSE LET above == walk[n - 1] IN
                 {j \in Ids : objects[j].name = names[n] /\ \E p \in above : Store!Child(j, p)} IN
    walk[Len(names)]

\* What the reader's request is about: the answer it would get right now.
Wanted(q) == IF q.what = "resolve" THEN Resolve(q.path) ELSE {i \in AllIds : Selected(q, i)}

\* The members of S that are still in the result, at the same place.
Staying(S) ==
    LET wanted == Wanted(query)' IN
    {i \in S : i \in wanted /\ Place(query, i)' = Place(query, i)}

-----------------------------------------------------------------------------
(* Actions *)

Init ==
    /\ Store!Init
    /\ query = None
    /\ stage = "idle"
    /\ cursor = None
    /\ rows = << >>
    /\ more = FALSE
    /\ delivered = << >>
    /\ steady = {}

\* Some other client's mutation.
Mutate ==
    /\ Store!Next
    /\ UNCHANGED <<query, stage, cursor, rows, more, delivered>>
    /\ steady' = Staying(steady)

Start(q) ==
    CASE q.what = "children" -> "folder"
      [] q.what = "query" -> "rows"
      [] q.what = "resolve" -> "resolve"

Begin ==
    /\ stage = "idle"
    /\ \E q \in Queries :
          /\ query' = q
          /\ stage' = Start(q)
          /\ steady' = Wanted(q)
    /\ UNCHANGED <<tree, cursor, rows, more, delivered>>

\* ObjectService::list_children looks the folder up before every page.
CheckFolder ==
    /\ stage = "folder"
    /\ stage' = IF ~Store!is_live(query.parent) THEN "not_found"
                ELSE IF objects[query.parent].kind # "folder" THEN "not_a_folder" ELSE "rows"
    /\ UNCHANGED <<tree, query, cursor, rows, more, delivered, steady>>

\* Variant: the page starts after the cursor's key, ties included.
AfterCursorKeyOnly ==
    {i \in AllIds : Selected(query, i) /\
        (cursor = None \/ IF Descending(query) THEN Place(query, i)[1] < cursor[1]
                          ELSE Place(query, i)[1] > cursor[1])}

\* Variant: the cursor's row is read again.
AfterCursorInclusive ==
    {i \in AllIds : Selected(query, i) /\ (cursor = None \/ ~Behind(query, Place(query, i), cursor))}

\* Variant: > also in descending order.
AfterCursorAscending ==
    {i \in AllIds : Selected(query, i) /\ (cursor = None \/ Less(cursor, Place(query, i)))}

\* The row comparison (key, id) > (k, i); for a query, id > i.
AfterCursor ==
    {i \in AllIds : Selected(query, i) /\ (cursor = None \/ Behind(query, cursor, Place(query, i)))}

Item(i) == [id |-> i, place |-> Place(query, i)]

\* SELECT ... LIMIT n + 1; the look-ahead row decides has_more and is dropped,
\* and the continuation cursor is the last row that is kept.
finish_page ==
    LET found == Ordered(query, AfterCursor)
        limit == clamp_limit(query.limit)
        kept == SubSeq(found, 1, IF Len(found) > limit THEN limit ELSE Len(found)) IN
    [items |-> [n \in DOMAIN kept |-> Item(kept[n])],
     more |-> Len(found) > limit,
     next |-> IF Len(found) > limit /\ kept # << >> THEN Place(query, kept[Len(kept)]) ELSE None]

WithPaths(items) ==
    [n \in DOMAIN items |->
        [id |-> items[n].id, place |-> items[n].place, path |-> render_path(items[n].id)]]

ReadRows ==
    /\ stage = "rows"
    /\ LET page == finish_page IN
       rows' = page.items /\ more' = page.more /\ cursor' = page.next
    /\ stage' = "paths"
    /\ UNCHANGED <<tree, query, delivered, steady>>

\* The client follows next_cursor as long as there is more.
AfterPage(has_more) == IF has_more THEN Start(query) ELSE "done"

\* attach_paths: the page is answered.
AttachPaths ==
    /\ stage = "paths"
    /\ delivered' = delivered \o WithPaths(rows)
    /\ rows' = << >>
    /\ stage' = AfterPage(more)
    /\ UNCHANGED <<tree, query, cursor, more, steady>>

\* The same page from an instance that reads through PostgREST: one call, rows
\* and paths of one tree.  The cursors are interchangeable.
OneCall ==
    /\ stage = "rows"
    /\ LET page == finish_page IN
       /\ delivered' = delivered \o WithPaths(page.items)
       /\ more' = page.more
       /\ cursor' = page.next
       /\ stage' = AfterPage(page.more)
    /\ UNCHANGED <<tree, query, rows, steady>>

RpcPage == query # None /\ query.what = "children" /\ OneCall

RpcQuery == query # None /\ query.what = "query" /\ OneCall

\* resolve_path, first statement: the id at the path.
ResolvePath ==
    /\ stage = "resolve"
    /\ \/ ~ValidPath(query.path) /\ stage' = "invalid_request" /\ UNCHANGED rows
       \/ /\ ValidPath(query.path)
          /\ \/ Resolve(query.path) = {} /\ stage' = "not_found" /\ UNCHANGED rows
             \/ \E i \in Resolve(query.path) : rows' = << Item(i) >> /\ stage' = "load"
    /\ UNCHANGED <<tree, query, cursor, more, delivered, steady>>

\* resolve_path, second statement: get_object reads the row that has the id now.
LoadObject ==
    /\ stage = "load"
    /\ \/ ~Store!is_live(rows[1].id) /\ stage' = "not_found" /\ rows' = << >>
       \/ /\ Store!is_live(rows[1].id)
          /\ rows' = << Item(rows[1].id) >>
          /\ stage' = "paths"
    /\ UNCHANGED <<tree, query, cursor, more, delivered, steady>>

\* The lookup through PostgREST is one call.
RpcResolve ==
    /\ stage = "resolve"
    /\ ValidPath(query.path)
    /\ \/ Resolve(query.path) = {} /\ stage' = "not_found" /\ UNCHANGED delivered
       \/ \E i \in Resolve(query.path) :
             delivered' = WithPaths(<< Item(i) >>) /\ stage' = "done"
    /\ UNCHANGED <<tree, query, cursor, rows, more, steady>>

ReaderStep ==
    \/ CheckFolder \/ ReadRows \/ AttachPaths \/ RpcPage \/ RpcQuery
    \/ ResolvePath \/ LoadObject \/ RpcResolve

Next == Mutate \/ Begin \/ ReaderStep

Spec == Init /\ [][Next]_vars

-----------------------------------------------------------------------------
(* Properties *)

\* A row that stays in the result at its place while a listing or a query is
\* followed to its end is delivered by exactly one page, whatever happens to
\* the rows around it, the cursor's own row included.
SteadyRowsOnce ==
    stage = "done" =>
        \A i \in steady : Cardinality({n \in DOMAIN delivered : delivered[n].id = i}) = 1

\* The pages of one chain, taken together, are in order and no place occurs
\* twice, though each page is read from a different tree, by either adapter.
PagesInOrder ==
    \A m, n \in DOMAIN delivered :
        m < n => Behind(query, delivered[m].place, delivered[n].place)

\* A path that leads to the same object throughout the request is answered
\* with that object and that path, though row and path are read separately.
ResolvedWhereAsked ==
    query # None /\ query.what = "resolve" /\ steady # {} =>
        /\ stage \notin {"not_found", "not_a_folder"}
        /\ stage = "done" =>
              /\ {delivered[n].id : n \in DOMAIN delivered} = steady
              /\ delivered[1].path = split_path(query.path)

\* The in-memory store: sort everything, skip to behind the cursor's item,
\* take a page.
MemoryPage(limit) ==
    LET items == Ordered(query, Wanted(query))
        skip == IF cursor = None THEN 0 ELSE CHOOSE n \in DOMAIN items : items[n] = cursor[2] IN
    SubSeq(items, skip + 1, IF Len(items) > skip + limit THEN skip + limit ELSE Len(items))

\* While the cursor's item is still where it was, the keyset page is the page
\* the in-memory store computes by position.
AgreesWithMemoryStore ==
    [][stage = "rows" /\ stage' = "paths" /\ (cursor = None \/ (Selected(query, cursor[2]) /\ Place(query, cursor[2]) = cursor))
        => /\ [n \in DOMAIN rows' |-> rows'[n].id] = MemoryPage(clamp_limit(query.limit))
           /\ more' = (Len(MemoryPage(clamp_limit(query.limit) + 1)) > Len(rows'))]_vars

\* A page that leaves something behind moves the cursor forward, so a client
\* that follows the chain gets to the end of a tree that stops growing.
EveryPageAdvances ==
    [][stage = "rows" /\ objects' = objects /\ more'
        => cursor' # None /\ (cursor = None \/ Behind(query, cursor, cursor'))]_vars

=============================================================================
