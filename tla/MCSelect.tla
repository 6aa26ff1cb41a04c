------------------------------ MODULE MCSelect ------------------------------
(* Three small relations and queries over them, for TLC.                   *)
EXTENDS Select

CONSTANTS a, b, c

MCColumns == [r \in {a, b, c} |-> IF r = c THEN 1 ELSE 2]
ax == <<a, 1>>
ay == <<a, 2>>
bx == <<b, 1>>
by == <<b, 2>>
cx == <<c, 1>>

MCIndexed == {ax, by}
MCNullable == {ay, by}

MCDatabases ==
    {[r \in {a, b, c} |-> CASE r = a -> da [] r = b -> d_b [] r = c -> dc] :
        da \in {<<>>, <<<<0, 1>>>>, <<<<0, 1>>, <<1, Null>>, <<2, 1>>>>},
        d_b \in {<<>>, <<<<1, 0>>, <<0, 1>>>>, <<<<1, 1>>, <<1, Null>>, <<2, 2>>>>},
        dc \in {<<>>, <<<<1>>, <<2>>>>}}

Is(l, op, v) == [lhs |-> l, op |-> op, bRhsIsAttr |-> FALSE, rhs |-> v]
On(l, op, r) == [lhs |-> l, op |-> op, bRhsIsAttr |-> TRUE, rhs |-> r]
Query(rels, attrs, conds) == [relations |-> rels, selAttrs |-> attrs, conditions |-> conds]

MCQueries ==
    {Query(<<a>>, <<ay>>, conds) :
        conds \in {<<>>, <<Is(ax, "GT", 0)>>, <<Is(ax, "NE", 1), Is(ax, "EQ", 2)>>,
                   <<Is(ay, "NOTNULL", Null)>>, <<Is(ax, "EQ", Null)>>, <<On(ax, "LT", ay)>>}}
    \cup {Query(<<b>>, <<>>, conds) :
        conds \in {<<Is(by, "LE", 0)>>, <<Is(by, "ISNULL", Null)>>, <<Is(by, "EQ", Null)>>}}
    \cup {Query(<<a, b>>, attrs, conds) : attrs \in {<<>>, <<by, ax>>},
        conds \in {<<>>, <<On(ax, "EQ", bx)>>, <<On(bx, "EQ", ax), Is(bx, "LT", 2)>>,
                   <<On(ax, "LT", bx)>>, <<On(bx, "GE", ax)>>, <<On(ax, "GE", bx)>>,
                   <<On(by, "EQ", ay), On(ax, "NE", bx)>>, <<On(ay, "EQ", bx)>>,
                   <<Is(ax, "EQ", 2)>>, <<On(ax, "EQ", by), On(bx, "LE", ay)>>}}
    \cup {Query(<<c, a, b>>, attrs, conds) : attrs \in {<<>>, <<by, cx>>},
        conds \in {<<On(ax, "EQ", cx)>>, <<On(ax, "EQ", cx), On(by, "EQ", ay)>>,
                   <<On(ax, "EQ", cx), On(cx, "EQ", by), On(ax, "LE", bx)>>,
                   <<On(cx, "EQ", ax), On(cx, "EQ", bx)>>, <<On(bx, "EQ", cx)>>}}

(* A join of two attributes without an index.                              *)
MCJoinQueries == {Query(<<a, b>>, <<>>, <<On(ay, "EQ", bx)>>)}
=============================================================================
