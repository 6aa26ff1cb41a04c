---------------------------- MODULE MCIndexTree ----------------------------
(* An index that is empty, one with a full root over four leaves, and one  *)
(* of three levels whose rightmost nodes are full, for TLC.                *)
EXTENDS IndexTree

MCKeys == 1 .. 17
Fill(keys) == [i \in DOMAIN keys |-> <<keys[i], 1>>]
MCFillings ==
    {<<>>, Fill(<<2, 4, 6, 8, 10, 12, 14, 16, 7, 15>>),
     Fill(<<2, 3, 4, 5, 6, 7, 8, 9, 10, 11, 12, 14, 16>>)}
MCInserted == ({7, 13, 17} \X {1}) \cup {<<7, 2>>}
MCDeleted == {<<7, 1>>, <<11, 1>>}
MCConditions == {<<"NE", 8>>, <<"LE", 7>>, <<"GT", 7>>}
=============================================================================
