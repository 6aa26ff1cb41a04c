----------------------------- MODULE RecordSet -----------------------------
(***************************************************************************)
(* What a record file promises its clients: a set of records, each under   *)
(* an identifier of its own that does not change while the record exists,  *)
(* kept across closing and reopening.  Where a new record goes is the      *)
(* file's business; reading and scanning change nothing.                   *)
(***************************************************************************)
CONSTANTS
    Vals,      \* what a record can hold
    Rids,      \* record identifiers
    NoRecord,  \* no record has the identifier
    none       \* the last call inserted nothing

VARIABLES
    exists,    \* the file has been created
    open,      \* a handle on it is open
    recs,      \* the records by identifier
    new        \* the identifier the last call reported to have inserted

vars == <<exists, open, recs, new>>

Init == /\ exists = FALSE /\ open = FALSE
        /\ recs = [r \in Rids |-> NoRecord] /\ new = none

Create ==
    /\ ~exists /\ exists' = TRUE /\ new' = none
    /\ UNCHANGED <<open, recs>>

Destroy ==
    /\ exists /\ ~open
    /\ exists' = FALSE /\ recs' = [r \in Rids |-> NoRecord] /\ new' = none
    /\ UNCHANGED open

Open ==
    /\ exists /\ ~open /\ open' = TRUE /\ new' = none
    /\ UNCHANGED <<exists, recs>>

Close ==
    /\ open /\ open' = FALSE /\ new' = none
    /\ UNCHANGED <<exists, recs>>

Put(r, v) ==
    /\ open
    /\ recs' = [recs EXCEPT ![r] = v]
    /\ UNCHANGED <<exists, open>>

Insert(r, v) == recs[r] = NoRecord /\ Put(r, v) /\ new' = r
Update(r, v) == recs[r] # NoRecord /\ Put(r, v) /\ new' = none
Delete(r) == recs[r] # NoRecord /\ Put(r, NoRecord) /\ new' = none

(* A call that reads, or that fails.                                       *)
Read == new' = none /\ UNCHANGED <<exists, open, recs>>

Next ==
    \/ Create \/ Destroy \/ Open \/ Close \/ Read
    \/ \E r \in Rids :
        \/ Delete(r)
        \/ \E v \in Vals : Insert(r, v) \/ Update(r, v)

Spec == Init /\ [][Next]_vars
=============================================================================
