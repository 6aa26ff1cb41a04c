------------------------------ MODULE SlotSeqs ------------------------------
(***************************************************************************)
(* Lists of buffer slots as sequences.  Nothing here is recursive, so that *)
(* module Lists_proofs can prove what these operators return.              *)
(***************************************************************************)
EXTENDS Integers, Sequences, FiniteSets, Functions

(* Kept(q, S): the elements of q that are in S, in the order of q.         *)
(* Position n holds the n-th element of q that is in S.                    *)
CountKept(q, S, i) == Cardinality({j \in 1 .. i : q[j] \in S})

Kept(q, S) ==
    [n \in 1 .. CountKept(q, S, Len(q)) |->
        q[CHOOSE i \in DOMAIN q : q[i] \in S /\ CountKept(q, S, i) = n]]

(* PF_BufferMgr::Unlink, LinkHead, and the two in a row.                   *)
Unlink(q, s) == Kept(q, Range(q) \ {s})
LinkHead(q, s) == <<s>> \o q
MoveToHead(q, s) == LinkHead(Unlink(q, s), s)

ReverseOf(q) == [i \in DOMAIN q |-> q[Len(q) + 1 - i]]
=============================================================================
