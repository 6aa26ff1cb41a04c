------------------------------- MODULE Chains -------------------------------
(***************************************************************************)
(* Lists that run through the things they list, as PF chains its disposed  *)
(* pages and RM its deleted records and the pages that have some.  Nothing *)
(* here is recursive, so that Lists_proofs can prove what they keep.       *)
(***************************************************************************)
EXTENDS Integers, FiniteSets, Functions

(* A list that starts at head and follows next ends at the end mark after  *)
(* each of the members once: the members can be numbered in the order of   *)
(* the list.                                                               *)
Chained(head, next, end, members) ==
    \E n \in [1 .. Cardinality(members) -> members] :
        LET len == Cardinality(members)
        IN  /\ IsInjective(n)
            /\ head = IF len = 0 THEN end ELSE n[1]
            /\ \A i \in 1 .. len : next[n[i]] = IF i = len THEN end ELSE n[i + 1]
=============================================================================
