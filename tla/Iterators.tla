----------------------------- MODULE Iterators ------------------------------
(***************************************************************************)
(* The iterators a query is planned with (src/QL/ql_*iter.cc).  They are   *)
(* kept in a sequence, in which an iterator names its inputs by their      *)
(* places; an operator that moves them returns the sequence as it is then. *)
(*                                                                         *)
(* An attribute is a pair of a relation and a column, and all columns are  *)
(* of one width, so the offset of an attribute in a record is its place in *)
(* the list of the record's attributes.                                    *)
(***************************************************************************)
EXTENDS Conditions, Sequences, FiniteSets, SequencesExt

CONSTANTS
    Columns,   \* how many columns each relation has
    Zero,      \* what a NULL has in its place, and is indexed by
    NoValue    \* the value of a search whose pointer points nowhere

VARIABLE db    \* the records of each relation

AttrsOf(r) == [i \in 1 .. Columns[r] |-> <<r, i>>]

FileScan(r) == [kind |-> "scan", rel |-> r, pos |-> 1]
IndexSearch(cond, value) ==
    [kind |-> "search", cond |-> cond, value |-> value, rest |-> <<>>]
Selection(input, conds) == [kind |-> "selection", input |-> input, conds |-> conds]
Projection(input, from, to) ==
    [kind |-> "projection", input |-> input, from |-> from, to |-> to]
NestedLoopJoin(left, right) ==
    [kind |-> "loop", left |-> left, right |-> right, rec |-> <<>>]
IndexedJoin(left, column, search, right) ==
    [kind |-> "indexed", left |-> left, column |-> column, search |-> search,
     right |-> right, rec |-> <<>>]

(* The attributes of the records an iterator gives.                        *)
Gives(iters, top) ==
    LET List[i \in DOMAIN iters] ==
            CASE iters[i].kind = "scan" -> AttrsOf(iters[i].rel)
              [] iters[i].kind = "search" -> AttrsOf(iters[i].cond.lhs[1])
              [] iters[i].kind = "selection" -> List[iters[i].input]
              [] iters[i].kind = "projection" -> iters[i].to
              [] OTHER -> List[iters[i].left] \o List[iters[i].right]
    IN  List[top]

(* An iterator and those it gets its records from.                         *)
Below(iters, top) ==
    LET Ids[i \in DOMAIN iters] ==
            {i} \cup CASE iters[i].kind \in {"scan", "search"} -> {}
                       [] iters[i].kind \in {"selection", "projection"} -> Ids[iters[i].input]
                       [] OTHER -> Ids[iters[i].left] \cup Ids[iters[i].right]
    IN  Ids[top]

----------------------------------------------------------------------------
(* What a place of a record holds; one past its end is read as zeroes.     *)
Value(rec, place) == IF place \in DOMAIN rec THEN rec[place] ELSE Zero
Raw(v) == IF v = Null THEN Zero ELSE v

Holds(rec, cond) ==
    checkSatisfy(cond.op, Value(rec, cond.lhsAt),
                 IF cond.bRhsIsAttr THEN Value(rec, cond.rhsAt) ELSE cond.rhs)

Got(iters, rc, rec) == [iters |-> iters, rc |-> rc, rec |-> rec]

(* A search goes through the index by the value it was opened with.  Where *)
(* there is no value, it is only looked at once there are entries.         *)
Astray(node) == node.value = NoValue /\ db[node.cond.lhs[1]] # <<>>

Key(node, i) == Raw(db[node.cond.lhs[1]][i][node.cond.lhs[2]])
Hits(node) ==
    SetToSortSeq({i \in DOMAIN db[node.cond.lhs[1]] : Compare(node.cond.op, Key(node, i), node.value)},
                 LAMBDA i, j : Key(node, i) < Key(node, j) \/ (Key(node, i) = Key(node, j) /\ i < j))

OpenSearch(iters, i) ==
    IF iters[i].cond.op \in {"ISNULL", "NOTNULL"} THEN Got(iters, "CRASH", <<>>)
    ELSE IF ~Astray(iters[i])
    THEN Got([iters EXCEPT ![i].rest = IF iters[i].value = NoValue THEN <<>> ELSE Hits(iters[i])],
             "OK", <<>>)
    ELSE Got(iters, IF iters[i].cond.op \in {"GT", "GE"} THEN "CRASH" ELSE "OK", <<>>)

(* A join goes on to the record rec of its left side; the search of an     *)
(* indexed join is to be for what that has in the column.                  *)
BrokenAdvance(iters, i, rec) ==
    LET before == IF iters[i].rec = <<>> THEN rec ELSE iters[i].rec
    IN  IF iters[i].kind = "loop" THEN [iters EXCEPT ![i].rec = rec]
        ELSE [iters EXCEPT ![i].rec = rec,
                           ![iters[i].search].value = Raw(Value(before, iters[i].column))]
Advance(iters, i, rec) ==
    IF iters[i].kind = "loop" THEN [iters EXCEPT ![i].rec = rec]
    ELSE [iters EXCEPT ![i].rec = rec,
                       ![iters[i].search].value = Raw(Value(rec, iters[i].column))]

RECURSIVE GetNextRec(_, _), Reset(_, _)

(* The next record of iterator i, EOF if there is none.  A join whose left *)
(* side has given none copies from nowhere.                                *)
GetNextRec(iters, i) ==
    LET node == iters[i]
        Through(Do(_)) ==
            LET got == GetNextRec(iters, node.input)
            IN  IF got.rc # "OK" THEN got ELSE Do(got)
        records == db[node.rel]
    IN  CASE node.kind = "scan" ->
                IF node.pos > Len(records) THEN Got(iters, "EOF", <<>>)
                ELSE Got([iters EXCEPT ![i].pos = @ + 1], "OK", records[node.pos])
          [] node.kind = "search" ->
                IF Astray(node) THEN Got(iters, "CRASH", <<>>)
                ELSE IF node.rest = <<>> THEN Got(iters, "EOF", <<>>)
                ELSE Got([iters EXCEPT ![i].rest = Tail(@)], "OK",
                         db[node.cond.lhs[1]][Head(node.rest)])
          [] node.kind = "selection" ->
                Through(LAMBDA got :
                    IF \A c \in ToSet(node.conds) : Holds(got.rec, c) THEN got
                    ELSE GetNextRec(got.iters, i))
          [] node.kind = "projection" ->
                Through(LAMBDA got :
                    [got EXCEPT !.rec = [j \in DOMAIN node.to |-> Value(got.rec, node.from[j])]])
          [] OTHER ->
                LET inner == GetNextRec(iters, node.right)
                    outer == GetNextRec(inner.iters, node.left)
                    again == Reset(Advance(outer.iters, i, outer.rec), node.right)
                IN  IF inner.rc = "OK" /\ node.rec = <<>> THEN Got(inner.iters, "CRASH", <<>>)
                    ELSE IF inner.rc = "OK" THEN [inner EXCEPT !.rec = node.rec \o @]
                    ELSE IF inner.rc # "EOF" THEN inner
                    ELSE IF outer.rc # "OK" THEN outer
                    ELSE IF again.rc # "OK" THEN again ELSE GetNextRec(again.iters, i)

(* Back to the first record.  An indexed join resets its search before it  *)
(* has the record to search for; that the search then follows a pointer    *)
(* to what was freed is modelled by the value that was there.              *)
Reset(iters, i) ==
    LET node == iters[i]
        left == Reset(iters, node.left)
        right == Reset(left.iters, node.right)
        first == GetNextRec(right.iters, node.left)
    IN  CASE node.kind = "scan" -> Got([iters EXCEPT ![i].pos = 1], "OK", <<>>)
          [] node.kind = "search" -> OpenSearch(iters, i)
          [] node.kind \in {"selection", "projection"} -> Reset(iters, node.input)
          [] OTHER -> IF left.rc # "OK" THEN left ELSE IF right.rc # "OK" THEN right
                      ELSE IF first.rc # "OK" THEN first
                      ELSE Got(Advance(first.iters, i, first.rec), "OK", <<>>)

(* A new join, last in iters, has the first record of its left side, if    *)
(* there is one; an indexed one opens its search for it.                   *)
BrokenConstructed(iters) ==
    LET opened == Reset(iters, iters[Len(iters)].right)
    IN  IF iters[Len(iters)].kind = "loop" THEN Got(iters, "OK", <<>>)
        ELSE Got(opened.iters, IF opened.rc = "CRASH" THEN "CRASH" ELSE "OK", <<>>)
Constructed(iters) ==
    LET i == Len(iters)
        first == GetNextRec(iters, iters[i].left)
        moved == IF first.rc = "OK" THEN Advance(first.iters, i, first.rec) ELSE first.iters
        opened == Reset(moved, iters[i].right)
    IN  IF first.rc = "CRASH" THEN first
        ELSE IF iters[i].kind = "loop" THEN Got(moved, "OK", <<>>)
        ELSE Got(opened.iters, IF opened.rc = "CRASH" THEN "CRASH" ELSE "OK", <<>>)
=============================================================================
