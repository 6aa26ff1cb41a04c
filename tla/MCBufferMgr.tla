---------------------------- MODULE MCBufferMgr ----------------------------
(* Three pages of two files over two slots, for TLC.                       *)
EXTENDS BufferMgr

CONSTANTS f1, f2

MCKeys == {<<f1, 0>>, <<f1, 1>>, <<f2, 0>>}

(* Bound: the file f2 has its page from the start; the pages of f1 come    *)
(* into being one by one.                                                  *)
SecondFileWhole == disk[<<f2, 0>>] # NoPage

(* Kept selects as SelectSeq of the Sequences module does.                 *)
ASSUME KeptAssumption ==
    \A q \in UNION {[1 .. n -> 0 .. 2] : n \in 0 .. 4}, S \in SUBSET (0 .. 2) :
        Kept(q, S) = SelectSeq(q, LAMBDA x : x \in S)
=============================================================================
