----------------------------- MODULE TreeStore -----------------------------
(***************************************************************************)
(* The object tree as its clients may think of it: one mutation at a time. *)
(* It is the in-memory metadata store, whose every operation runs under    *)
(* one mutex; ObjectTree, the PostgreSQL transactions, implements it.      *)
(* A refused request changes nothing and is a stuttering step.             *)
(***************************************************************************)
EXTENDS Integers, Sequences, FiniteSets, Metadata

CONSTANTS
    Ids,          \* object ids other than the root
    Clients,      \* request ids, each served at most once
    Requests,     \* what a request may ask for
    InitialRows,  \* the rows at the start
    Keep, None    \* a PATCH field that is absent, no If-Match

VARIABLES
    objects,      \* the rows
    changes       \* the Changes, in order; seq is the position

vars == <<objects, changes>>

Root == 0
AllIds == Ids \cup {Root}

Init == objects = InitialRows /\ changes = << >>

-----------------------------------------------------------------------------
(* Helpers *)

is_live(i) == objects[i].exists /\ ~objects[i].deleted

Child(i, p) == is_live(i) /\ objects[i].parent = p

name_taken(p, n, except) ==
    \E j \in AllIds \ {except} : Child(j, p) /\ objects[j].name = n

\* The chain of parents from candidate to the root contains subject.
is_self_or_descendant(candidate, subject) ==
    LET walk[n \in Nat] ==
            LET i == IF n = 0 THEN candidate ELSE walk[n - 1] IN
            IF n = 0 \/ i = Root THEN i ELSE objects[i].parent IN
    \E n \in 0..Cardinality(Ids) : walk[n] = subject

\* The live subtree of i as <<depth, id>>, collected level by level.
Below(i) ==
    LET level[n \in Nat] ==
            IF n = 0 THEN {i}
            ELSE LET above == level[n - 1] IN {j \in Ids : \E p \in above : Child(j, p)} IN
    UNION {{n} \X level[n] : n \in 0..Cardinality(Ids)}

InOrder(S, Before(_, _)) ==
    [n \in 1..Cardinality(S) |->
        CHOOSE a \in S : Cardinality({b \in S : Before(b, a)}) = n - 1]

\* Children before parents, then by id.
Deeper(a, b) == a[1] > b[1] \/ (a[1] = b[1] /\ a[2] < b[2])

descendants(i) == LET nodes == InOrder(Below(i), Deeper) IN [n \in DOMAIN nodes |-> nodes[n][2]]

check_if_match(i, if_match) == if_match = None \/ if_match = objects[i].revision

ParentFolder(p) == p \in AllIds /\ is_live(p) /\ objects[p].kind = "folder"

Given(field, current) == IF field = Keep THEN current ELSE field
Patched(patch, current) == IF patch = Keep THEN current ELSE apply_metadata_patch(current, patch)

\* append_changes: the rows in after, one Change per <<object, action>> of es.
append_changes(c, after, es) ==
    /\ objects' = after
    /\ changes' = changes \o [n \in DOMAIN es |->
          [id |-> es[n][1], revision |-> after[es[n][1]].revision,
           action |-> es[n][2], tx |-> c]]

\* A request is served once.
Unserved(c) == \A n \in DOMAIN changes : changes[n].tx # c

-----------------------------------------------------------------------------
(* Operations *)

create_object(c, q) ==
    LET row == [exists |-> TRUE, kind |-> q.kind, parent |-> q.parent, name |-> q.name,
                meta |-> q.meta, deleted |-> FALSE, revision |-> 1] IN
    /\ q.op = "create"
    /\ ~objects[q.id].exists
    /\ ParentFolder(q.parent)
    /\ ~name_taken(q.parent, q.name, q.id)
    /\ append_changes(c, [objects EXCEPT ![q.id] = row], << <<q.id, "created">> >>)

\* One Change per kind of difference, in emission order; a PATCH without a
\* difference changes nothing.
PatchEmits(old, new, i) ==
    LET actions == <<"renamed", "moved", "metadata_updated">>
        differs == <<new.name # old.name, new.parent # old.parent, new.meta # old.meta>>
        emitted == InOrder({n \in 1..3 : differs[n]}, LAMBDA m, n : m < n) IN
    [n \in DOMAIN emitted |-> <<i, actions[emitted[n]]>>]

patch_object(c, q) ==
    LET old == objects[q.id]
        new == [old EXCEPT !.name = Given(q.name, @), !.parent = Given(q.parent, @),
                           !.meta = Patched(q.meta, @)]
        row == [new EXCEPT !.revision = @ + 1] IN
    /\ q.op = "patch"
    /\ is_live(q.id)
    /\ check_if_match(q.id, q.if_match)
    /\ q.id = Root => q.parent = Keep /\ q.name = Keep
    /\ new # old
    /\ new.parent # old.parent =>
          /\ ParentFolder(new.parent)
          /\ old.kind = "folder" => ~is_self_or_descendant(new.parent, q.id)
    /\ ~name_taken(new.parent, new.name, q.id)
    /\ append_changes(c, [objects EXCEPT ![q.id] = row], PatchEmits(old, new, q.id))

delete_object(c, q) ==
    LET recursive == objects[q.id].kind = "folder" /\ q.recursive
        targets == IF recursive THEN descendants(q.id) ELSE << q.id >> IN
    /\ q.op = "delete"
    /\ is_live(q.id)
    /\ check_if_match(q.id, q.if_match)
    /\ q.id # Root
    /\ recursive \/ objects[q.id].kind = "file" \/ ~\E j \in Ids : Child(j, q.id)
    /\ append_changes(c,
          [i \in AllIds |-> IF \E n \in DOMAIN targets : targets[n] = i
                            THEN [objects[i] EXCEPT !.deleted = TRUE, !.revision = @ + 1]
                            ELSE objects[i]],
          [n \in DOMAIN targets |-> <<targets[n], "deleted">>])

Mutation(c, q) == create_object(c, q) \/ patch_object(c, q) \/ delete_object(c, q)

Next == \E c \in Clients : Unserved(c) /\ \E q \in Requests : Mutation(c, q)

Spec == Init /\ [][Next]_vars
=============================================================================
