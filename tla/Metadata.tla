------------------------------ MODULE Metadata ------------------------------
(***************************************************************************)
(* Metadata documents and the conditions a query puts on them.  A document *)
(* is a function from keys to JSON values; a missing document is the empty *)
(* one.                                                                    *)
(***************************************************************************)

Empty == [k \in {} |-> {}]

\* remove is applied after set: a key in both ends up removed.
apply_metadata_patch(current, patch) ==
    [k \in (DOMAIN current \cup DOMAIN patch.set) \ patch.remove |->
        IF k \in DOMAIN patch.set THEN patch.set[k] ELSE current[k]]

\* MetadataCondition::Eq and MetadataCondition::Exists on a top-level key.
Holds(c, document) ==
    \/ c.op = "eq" /\ c.key \in DOMAIN document /\ document[c.key] = c.value
    \/ c.op = "exists" /\ c.value = (c.key \in DOMAIN document)

\* All conditions are ANDed.
MatchesAll(conditions, document) == \A c \in conditions : Holds(c, document)
=============================================================================
