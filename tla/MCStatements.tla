---------------------------- MODULE MCStatements ----------------------------
(* One relation of a key and two attributes that may be NULL, for TLC.  The*)
(* string lies between the key and the other one, which has an index.      *)
EXTENDS Statements

CONSTANTS k, x, y

MCAttributes == <<k, y, x>>
MCNullableIndex == [a \in {x, y} |-> IF a = y THEN 1 ELSE 2]
MCIndexOrder == <<k, x>>
MCUnlike == {<<y, k>>, <<y, x>>, <<k, y>>, <<x, y>>}

Row(vk, vx, vy) == [a \in {k, x, y} |-> CASE a = k -> vk [] a = x -> vx [] a = y -> vy]
Insert(rows) == [kind |-> "insert", todo |-> rows]
Delete(conds) == [kind |-> "delete", conds |-> conds, at |-> 1, cnt |-> 0]
Update(lhs, rhs, conds) ==
    [kind |-> "update", lhs |-> lhs, rhs |-> rhs, conds |-> conds, at |-> 1]
Load(rows) == [kind |-> "load", todo |-> rows, cnt |-> 0]
If(lhs, op, rhs) == [lhs |-> lhs, op |-> op, rhs |-> rhs]

MCJunk == {[data |-> Row(1, 2, 0), isnull |-> <<TRUE, FALSE>>]}

MCStatements ==
    {Insert(<<Row(0, 0, Null)>>), Insert(<<Row(1, Null, 0)>>),
     Insert(<<Row(2, 0, 0), Row(1, 0, TooLong)>>), Insert(<<Row(Null, 0, 0)>>),
     Delete({If(x, "LT", k)}), Delete({If(y, "ISNULL", Null), If(k, "LT", 2)}),
     Delete({If(x, "EQ", Null)}), Delete({If(k, "ISNULL", Null)}),
     Update(x, Null, {If(k, "LT", 1)}), Update(x, 0, {If(x, "LT", k)}),
     Update(x, k, {}), Update(k, 1, {If(x, "EQ", 0)}), Update(k, Null, {}),
     Update(y, TooLong, {If(k, "EQ", 2)}), Update(y, x, {If(k, "EQ", 0)}),
     Update(x, Unknown, {If(k, "EQ", 2)}),
     Update(Unknown, 0, {If(k, "EQ", 2)}), Update(Unknown, Null, {If(k, "EQ", 2)}),
     Load(<<Row(1, 0, Null), Row(1, Null, 0)>>), Load(<<Row(0, 1, 0), Row(Null, 0, 0)>>)}
=============================================================================
