----------------------------- MODULE Conditions -----------------------------
(* What a condition of a statement asks of two values (the comparing       *)
(* checkSatisfy, src/QL/ql_manager.cc).                                    *)
EXTENDS Integers

CONSTANT Null   \* no value

Operators == {"EQ", "NE", "LT", "LE", "GT", "GE", "ISNULL", "NOTNULL"}

Compare(op, l, r) ==
    CASE op = "EQ" -> l = r [] op = "NE" -> l # r
      [] op = "LT" -> l < r [] op = "LE" -> l <= r
      [] op = "GT" -> l > r [] op = "GE" -> l >= r

BrokenSatisfy(op, l, r) ==
    CASE op = "ISNULL" -> l = Null
      [] op = "NOTNULL" -> l # Null
      [] OTHER -> IF l = Null THEN op \in {"NE", "LT", "LE"} ELSE r # Null /\ Compare(op, l, r)
checkSatisfy(op, l, r) ==
    CASE op = "ISNULL" -> l = Null
      [] op = "NOTNULL" -> l # Null
      [] OTHER -> Null \notin {l, r} /\ Compare(op, l, r)
=============================================================================
