------------------------------ MODULE IndexMap ------------------------------
(***************************************************************************)
(* What an index promises its callers: a set of entries, each a key and    *)
(* the identifier of a record, at most PerKey of them with the same key.   *)
(* An insertion that is refused may leave the index unsound; from then on  *)
(* it only promises that each call touches no entry but its own.           *)
(***************************************************************************)
EXTENDS Naturals, FiniteSets, Sequences

CONSTANTS
    Keys,     \* attribute values
    Rids,     \* identifiers of records
    PerKey,   \* entries that can have the same key
    Fillings  \* what the index may have been filled with when it was made

VARIABLES
    entries,  \* the entries in the index
    sound,    \* the index has kept all it promised so far
    rc        \* what the last call returned

vars == <<entries, sound, rc>>

WithKey(k) == {e \in entries : e[1] = k}

Init ==
    /\ \E f \in Fillings : entries = {f[i] : i \in DOMAIN f}
    /\ sound = TRUE /\ rc = "OK"

Insert(e) ==
    /\ e \notin entries /\ Cardinality(WithKey(e[1])) < PerKey
    /\ entries' = entries \cup {e} /\ rc' = "OK"
    /\ UNCHANGED sound

(* The bucket is looked at for room before it is searched.                 *)
RefuseInsert(e) ==
    /\ \/ /\ Cardinality(WithKey(e[1])) = PerKey /\ rc' = "IX_BUCKET_FULL"
       \/ /\ e \in entries /\ Cardinality(WithKey(e[1])) < PerKey
          /\ rc' = "IX_ENTRY_EXISTS"
    /\ UNCHANGED entries
    /\ sound' \in {sound, FALSE}

Delete(e) ==
    /\ e \in entries
    /\ entries' = entries \ {e} /\ rc' = "OK"
    /\ UNCHANGED sound

(* The deletion of what is not there succeeds when the key is above every  *)
(* key it is compared with.                                                *)
RefuseDelete(e) ==
    /\ e \notin entries
    /\ rc' \in {"OK", "IX_ENTRY_DOES_NOT_EXIST"}
    /\ UNCHANGED <<entries, sound>>

(* A call on an unsound index.                                             *)
Unsound(e) ==
    /\ ~sound
    /\ entries' \in {entries, entries \cup {e}, entries \ {e}}
    /\ rc' \in {"OK", "IX_BUCKET_FULL", "IX_ENTRY_EXISTS", "IX_ENTRY_DOES_NOT_EXIST"}
    /\ UNCHANGED sound

(* Opening, closing and scanning.                                          *)
Look == /\ UNCHANGED <<entries, sound>>
        /\ rc' \in {"OK", "IX_EOF", "IX_SCAN_NOT_CLOSED"}

Next ==
    \/ \E e \in Keys \X Rids :
        \/ Insert(e) \/ RefuseInsert(e)
        \/ Delete(e) \/ RefuseDelete(e) \/ Unsound(e)
    \/ Look

Spec == Init /\ [][Next]_vars
=============================================================================
