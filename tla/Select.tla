------------------------------- MODULE Select -------------------------------
(***************************************************************************)
(* QL_Manager::Select (src/QL/ql_manager.cc): a query over some relations  *)
(* is planned step by step into a tree of iterators, which then gives one  *)
(* record after the other.  A plan holds the variables of the function:    *)
(*   simple, complex  conditions about one relation and about two, not yet *)
(*                    part of the plan                                     *)
(*   filtered         relations that have been planned by an index         *)
(*   iters            the iterators, with their state                      *)
(*   top, attrInfo    the topmost iterator over each relation, and the     *)
(*                    attributes of the records it gives                   *)
(*   find             the relation that stands for those joined with it    *)
(*   doubts           history: how the result may have gone wrong          *)
(* Relations and attributes go by their places in the query; names have    *)
(* been resolved, and no relation is there twice.                          *)
(***************************************************************************)
EXTENDS Iterators

CONSTANTS
    Indexed,    \* the attributes that have an index
    Nullable,   \* those that may be NULL
    Databases,  \* what the relations may hold
    Queries     \* the queries: relations, attributes to show (none for all), conditions

ASSUME SelectAssumption ==
    \A d \in Databases : \A r \in DOMAIN Columns : \A rec \in ToSet(d[r]) : Len(rec) = Columns[r]

VARIABLES
    query,
    at,     \* what Select is about to do
    next,   \* the relation it is about to do it with
    plan,
    out     \* the records printed

vars == <<db, query, at, next, plan, out>>

Nothing == 0
Relations == DOMAIN query.relations

(* relNumMap: the place of an attribute's relation in the query.           *)
RelNum(a) == CHOOSE r \in Relations : query.relations[r] = a[1]
Place(list, a) == IF a \in ToSet(list) THEN CHOOSE j \in DOMAIN list : list[j] = a ELSE Nothing

(* A condition, with the places it reads its attributes from.              *)
QL_Condition(c, lhsAt, rhsAt) ==
    [lhs |-> c.lhs, op |-> c.op, bRhsIsAttr |-> c.bRhsIsAttr, rhs |-> c.rhs,
     lhsAt |-> lhsAt, rhsAt |-> rhsAt]
AsGiven(c) == QL_Condition(c, c.lhs[2], IF c.bRhsIsAttr THEN c.rhs[2] ELSE Nothing)

Conds == [j \in DOMAIN query.conditions |-> AsGiven(query.conditions[j])]
IsSimple(c) == c.bRhsIsAttr => c.rhs[1] = c.lhs[1]

(* The attributes of a relation the query needs, in their order, unless    *)
(* these are all of them or none.                                          *)
Needed(r) ==
    LET used == ToSet(query.selAttrs) \cup {c.lhs : c \in ToSet(Conds)}
                  \cup {c.rhs : c \in {d \in ToSet(Conds) : d.bRhsIsAttr}}
        list == SelectSeq(AttrsOf(query.relations[r]), LAMBDA a : a \in used)
    IN  IF query.selAttrs = <<>> \/ Len(list) = Columns[query.relations[r]] THEN <<>> ELSE list

AllAttrs == FlattenSeq([r \in Relations |-> AttrsOf(query.relations[r])])
Shown == IF query.selAttrs = <<>> THEN AllAttrs ELSE query.selAttrs

Init ==
    /\ db \in Databases /\ query \in Queries
    /\ at = "gather" /\ next = 1 /\ plan = Nothing /\ out = <<>>

----------------------------------------------------------------------------
(* Every condition is about attributes of the relations, and compares with *)
(* NULL, or asks for it, only where there may be one.                      *)
Valid ==
    /\ ToSet(query.selAttrs) \subseteq ToSet(AllAttrs)
    /\ \A c \in ToSet(Conds) :
        /\ c.lhs \in ToSet(AllAttrs)
        /\ IF c.bRhsIsAttr THEN c.rhs \in ToSet(AllAttrs) ELSE c.rhs = Null => c.lhs \in Nullable

Gather ==
    /\ at = "gather" /\ at' = IF Valid THEN "index" ELSE "refused"
    /\ plan' = [simple |-> [r \in Relations |->
                    SelectSeq(Conds, LAMBDA c : IsSimple(c) /\ RelNum(c.lhs) = r)],
                complex |-> SelectSeq(Conds, LAMBDA c : ~IsSimple(c)),
                filtered |-> [r \in Relations |-> FALSE],
                iters |-> <<>>, top |-> [r \in Relations |-> Nothing],
                attrInfo |-> [r \in Relations |-> AttrsOf(query.relations[r])],
                find |-> [r \in Relations |-> r], doubts |-> {}]
    /\ UNCHANGED <<db, query, next, out>>

----------------------------------------------------------------------------
Add(p, node) == [p EXCEPT !.iters = Append(@, node)]
Doubt(p, kind, when) == IF when THEN [p EXCEPT !.doubts = @ \cup {kind}] ELSE p
NullsIn(a) == \E rec \in ToSet(db[a[1]]) : rec[a[2]] = Null

Select(p, conds) ==
    IF conds = <<>> THEN p ELSE Add(p, Selection(Len(p.iters), conds))

BrokenProjected(p, r, to) ==
    LET from == [j \in DOMAIN to |-> Place(p.attrInfo[r], to[j])]
    IN  IF to = <<>> THEN p ELSE Add(p, Projection(Len(p.iters), from, to))
Projected(p, r, to) ==
    LET from == [j \in DOMAIN to |-> Place(p.attrInfo[r], to[j])]
    IN  IF to = <<>> THEN p
        ELSE [Add(p, Projection(Len(p.iters), from, to)) EXCEPT !.attrInfo[r] = to]

OnTop(p, r) == [p EXCEPT !.top[r] = Len(p.iters)]

performSimpleOperations(p, node, r) ==
    OnTop(Projected(Select(Add(p, node), p.simple[r]), r, Needed(r)), r)

(* The condition to search an index by: the first equality, or else the    *)
(* last of any kind; Nothing if no index serves.                           *)
findIndexedCondition(p, r) ==
    LET served == {j \in DOMAIN p.simple[r] :
                     ~p.simple[r][j].bRhsIsAttr /\ p.simple[r][j].lhs \in Indexed}
        equal == {j \in served : p.simple[r][j].op = "EQ"}
    IN  IF equal # {} THEN Min(equal) ELSE IF served # {} THEN Max(served) ELSE Nothing

(* A plan, and whether building it has crashed the program.               *)
Built(p, crash) == [plan |-> p, crash |-> crash]

OpenedFor(cond) ==
    OpenSearch(<<IndexSearch(cond, IF cond.rhs = Null THEN NoValue ELSE cond.rhs)>>, 1)

(* The condition the index is searched by is not looked at again.          *)
BrokenServed(p, r, found) ==
    [p EXCEPT !.simple[r] = SelectSeq(@, LAMBDA c : c.lhs \notin Indexed)]
Served(p, r, found) == [p EXCEPT !.simple[r] = RemoveAt(@, found)]

Searched(p, r, found, opened) ==
    Built(Doubt(performSimpleOperations(Served(p, r, found), opened.iters[1], r),
                "null", NullsIn(p.simple[r][found].lhs)),
          opened.rc = "CRASH")

performSimpleOperationsWithIndex(p, r) ==
    LET found == findIndexedCondition(p, r)
    IN  IF found = Nothing
        THEN Built(performSimpleOperations(p, FileScan(query.relations[r]), r), FALSE)
        ELSE Searched(p, r, found, OpenedFor(p.simple[r][found]))

updateCondition(p, c) ==
    QL_Condition(c, Place(p.attrInfo[p.find[RelNum(c.lhs)]], c.lhs),
                    Place(p.attrInfo[p.find[RelNum(c.rhs)]], c.rhs))

(* The conditions whose relations have been joined, and the plan without.  *)
Joined(p, c) == p.find[RelNum(c.lhs)] = p.find[RelNum(c.rhs)]
findBatchConditions(p) ==
    LET ready == SelectSeq(p.complex, LAMBDA c : Joined(p, c))
    IN  [j \in DOMAIN ready |-> updateCondition(p, ready[j])]
Unbatched(p) == [p EXCEPT !.complex = SelectSeq(@, LAMBDA c : ~Joined(p, c))]

(* Two iterators joined by the last one of iters: what root stands for     *)
(* from now on.                                                            *)
joinRelations(p, left, right, root, iters) ==
    [p EXCEPT !.iters = iters, !.top[root] = Len(iters),
              !.find = [r \in Relations |-> IF @[r] \in {left, right} THEN root ELSE @[r]],
              !.attrInfo[root] = p.attrInfo[left] \o p.attrInfo[right]]

(* Conditions to select by after a join: those it has made ready, and more.*)
SelectReady(p, more) == Select(Unbatched(p), findBatchConditions(p) \o more)

(* The plan is what has been built, unless that has crashed.               *)
Go(to, built) == plan' = built.plan /\ at' = IF built.crash THEN "crashed" ELSE to

----------------------------------------------------------------------------
(* The condition to join by an index next, turned round if the index is on *)
(* its right side: the first equality, or else the last of any kind.       *)
Usable(a) == a \in Indexed /\ ~plan.filtered[RelNum(a)]
TurnedRound(c) == [c EXCEPT !.lhs = c.rhs, !.rhs = c.lhs, !.lhsAt = c.rhsAt, !.rhsAt = c.lhsAt]

NextIndexed ==
    LET Choice(c, turned) == [found |-> TRUE, stop |-> c.op = "EQ", turned |-> turned,
                              cond |-> IF turned THEN TurnedRound(c) ELSE c]
        Look(s, c) ==
            IF s.stop THEN s
            ELSE IF Usable(c.lhs) /\ (c.op = "EQ" \/ ~Usable(c.rhs)) THEN Choice(c, FALSE)
            ELSE IF Usable(c.rhs) THEN Choice(c, TRUE) ELSE s
    IN  FoldLeft(Look, [found |-> FALSE, stop |-> FALSE], plan.complex)

(* The relation of the search is planned, then the other one, unless an    *)
(* index has served it before.                                             *)
WithOther(p, r) ==
    IF p.filtered[r] THEN Built(p, FALSE)
    ELSE performSimpleOperationsWithIndex([p EXCEPT !.filtered[r] = TRUE], r)

(* The search, at the place id, gets its value from the records of the     *)
(* other relation, or of those that has been joined with.                  *)
IndexedJoinOf(p, cond, id, root) ==
    Constructed(Append(p.iters, IndexedJoin(p.top[root], Place(p.attrInfo[root], cond.rhs),
                                            id, p.top[RelNum(cond.lhs)])))

(* The plan p.plan with that join, whose iterators are built.              *)
WithIndexed(p, cond, root, built) ==
    Built(OnTop(SelectReady(joinRelations(p.plan, root, RelNum(cond.lhs), root, built.iters), <<>>),
                root),
          p.crash \/ built.rc = "CRASH")

IndexJoined(p, cond, id) ==
    LET root == p.plan.find[RelNum(cond.rhs)]
    IN  WithIndexed(p, cond, root, IndexedJoinOf(p.plan, cond, id, root))

Doubted(built, cond, turned) ==
    [built EXCEPT !.plan =
        Doubt(Doubt(@, "turned", turned /\ cond.op \notin {"EQ", "NE"}),
              "null", ~turned /\ (NullsIn(cond.lhs) \/ NullsIn(cond.rhs)))]

(* What the search was made with is not initialized, and looked at at once *)
(* for some operators.                                                     *)
JoinBy(cond, turned) ==
    LET l == RelNum(cond.lhs)
        less == [plan EXCEPT !.complex = SelectSeq(@, LAMBDA c : c # cond), !.filtered[l] = TRUE]
        searched == performSimpleOperations(less, IndexSearch(cond, NoValue), l)
        joined == IndexJoined(WithOther(searched, RelNum(cond.rhs)), cond, Len(plan.iters) + 1)
    IN  \E astray \in BOOLEAN :
            /\ astray => cond.op \in {"GT", "GE"} /\ db[cond.lhs[1]] # <<>>
            /\ Go("index", Doubted([joined EXCEPT !.crash = @ \/ astray], cond, turned))

JoinIndexed ==
    /\ at = "index" /\ NextIndexed.found
    /\ JoinBy(NextIndexed.cond, NextIndexed.turned)
    /\ UNCHANGED <<db, query, next, out>>

IndexedDone ==
    /\ at = "index" /\ ~NextIndexed.found
    /\ at' = "rest" /\ UNCHANGED <<db, query, next, plan, out>>

BrokenPlanRest ==
    /\ at = "rest"
    /\ LET last == next = Len(query.relations)
       IN  /\ IF plan.filtered[next] THEN UNCHANGED <<plan, at>>
              ELSE Go(IF last THEN "loop" ELSE "rest", performSimpleOperationsWithIndex(plan, next))
           /\ next' = IF last THEN 1 ELSE next + 1
    /\ UNCHANGED <<db, query, out>>
PlanRest ==
    /\ at = "rest"
    /\ LET last == next = Len(query.relations)
       IN  /\ Go(IF last THEN "loop" ELSE "rest",
                 IF plan.filtered[next] THEN Built(plan, FALSE)
                 ELSE performSimpleOperationsWithIndex(plan, next))
           /\ next' = IF last THEN 1 ELSE next + 1
    /\ UNCHANGED <<db, query, out>>

HasIndexed(p, id) == \E j \in Below(p.iters, id) : p.iters[j].kind = "indexed"

(* A nested loop of two of the relations that stand for others.            *)
WithLoop(left, right, built) ==
    Built(Doubt(joinRelations(plan, left, right, right, built.iters),
                "reset", HasIndexed(plan, plan.top[right])),
          built.rc = "CRASH")
Looped(left, right) ==
    WithLoop(left, right,
             Constructed(Append(plan.iters, NestedLoopJoin(plan.top[left], plan.top[right]))))

(* The condition the loop is for is selected by, from the places it had    *)
(* when it was read; only those that come with it are brought up to date.  *)
SelectLoop(p, cond) ==
    Doubt(OnTop(SelectReady(p, <<cond>>), p.find[RelNum(cond.lhs)]),
          "stale", cond # updateCondition(p, cond))

JoinLoop ==
    /\ at = "loop" /\ plan.complex # <<>>
    /\ LET cond == Head(plan.complex)
           looped == Looped(plan.find[RelNum(cond.lhs)], plan.find[RelNum(cond.rhs)])
       IN  Go("loop", [looped EXCEPT !.plan = SelectLoop([@ EXCEPT !.complex = Tail(@)], cond)])
    /\ UNCHANGED <<db, query, next, out>>

LoopDone ==
    /\ at = "loop" /\ plan.complex = <<>>
    /\ at' = "join" /\ UNCHANGED <<db, query, next, plan, out>>

(* The relations no condition has joined with the first.                   *)
JoinRest ==
    /\ at = "join" /\ next < Len(query.relations) /\ next' = next + 1
    /\ Go("join", IF plan.find[1] = plan.find[next + 1] THEN Built(plan, FALSE)
                  ELSE Looped(plan.find[1], plan.find[next + 1]))
    /\ UNCHANGED <<db, query, out>>

(* The attributes to show, unless these are what the plan gives.           *)
ProjectFinally ==
    /\ at = "join" /\ next = Len(query.relations) /\ at' = "run"
    /\ LET root == plan.find[1]
           from == [j \in DOMAIN Shown |-> Place(plan.attrInfo[root], Shown[j])]
           projected == Add(plan, Projection(plan.top[root], from, Shown))
       IN  plan' = IF Shown = plan.attrInfo[root] THEN plan
                   ELSE [projected EXCEPT !.top[root] = Len(projected.iters)]
    /\ UNCHANGED <<db, query, next, out>>

PrintNext ==
    /\ at = "run"
    /\ LET got == GetNextRec(plan.iters, plan.top[plan.find[1]])
       IN  /\ plan' = [plan EXCEPT !.iters = got.iters]
           /\ out' = IF got.rc = "OK" THEN Append(out, got.rec) ELSE out
           /\ at' = CASE got.rc = "OK" -> "run" [] got.rc = "EOF" -> "done" [] OTHER -> "crashed"
    /\ UNCHANGED <<db, query, next>>

Next ==
    \/ Gather \/ JoinIndexed \/ IndexedDone \/ PlanRest
    \/ JoinLoop \/ LoopDone \/ JoinRest \/ ProjectFinally \/ PrintNext

(* Nothing waits for anything: a statement goes on to its end.  This is   *)
(* WF_vars(Next), where Next is enabled until the end.                     *)
Ended == at \in {"refused", "done", "crashed"}
Fairness == []<>Ended \/ []<><<Next>>_vars
Spec == Init /\ [][Next]_vars /\ Fairness

----------------------------------------------------------------------------
Planning == at \notin {"gather", "refused"}
Roots == {r \in Relations : plan.find[r] = r /\ plan.top[r] # Nothing}

(* The plan's variables keep their types: what stands for a relation stands *)
(* for itself, and every record printed has the attributes shown.          *)
TypeOK ==
    /\ at \in {"gather", "refused", "index", "rest", "loop", "join", "run", "done", "crashed"}
    /\ next \in Relations
    /\ Planning =>
        /\ \A r \in Relations : /\ plan.find[plan.find[r]] = plan.find[r]
                               /\ plan.top[r] \in 0 .. Len(plan.iters)
                               /\ ToSet(plan.attrInfo[r]) \subseteq ToSet(AllAttrs)
        /\ ToSet(plan.complex) \subseteq ToSet(Conds) /\ plan.doubts \subseteq
                {"turned", "null", "stale", "reset"}
    /\ \A rec \in ToSet(out) : Len(rec) = Len(Shown)

(* The attributes the planner takes an iterator to give, where it looks    *)
(* for those of a condition, are those it gives, through joins in either   *)
(* order and projections below them.                                       *)
LayoutKnown ==
    Planning /\ at # "crashed" =>
        \A r \in Roots : at \notin {"run", "done"} =>
            Gives(plan.iters, plan.top[r]) = plan.attrInfo[r]

(* Every relation is read by one iterator of the plan, no more and no less *)
(* (joins by index and by loop, in any order).                             *)
RelationsReadOnce ==
    at = "run" =>
        \A r \in Relations :
            Cardinality({j \in Below(plan.iters, plan.top[plan.find[1]]) :
                /\ plan.iters[j].kind \in {"scan", "search"}
                /\ Gives(plan.iters, j)[1][1] = query.relations[r]}) = 1

(* The invariant of a plan: what it knows of its records, and where they   *)
(* are from.                                                               *)
PlanInv == TypeOK /\ LayoutKnown /\ RelationsReadOnce

(* No condition gets lost: it selects records, or an index is searched by  *)
(* it, as it is or turned round.                                           *)
Same(c, d) ==
    /\ c.op = d.op /\ c.bRhsIsAttr = d.bRhsIsAttr
    /\ \/ c.lhs = d.lhs /\ c.rhs = d.rhs
       \/ c.bRhsIsAttr /\ c.lhs = d.rhs /\ c.rhs = d.lhs
NoConditionLost ==
    at = "run" =>
        \A c \in ToSet(Conds) : \E j \in Below(plan.iters, plan.top[plan.find[1]]) :
            \/ plan.iters[j].kind = "search" /\ Same(c, plan.iters[j].cond)
            \/ plan.iters[j].kind = "selection" /\ \E d \in ToSet(plan.iters[j].conds) : Same(c, d)

(* The result by definition: the combinations of one record of each        *)
(* relation for which the conditions hold, with what they show.            *)
Combinations == {pick \in [Relations -> 1 .. 3] :
                    \A r \in Relations : pick[r] \in DOMAIN db[query.relations[r]]}
At(pick, a) == db[a[1]][pick[RelNum(a)]][a[2]]
Meant(pick) ==
    \A c \in ToSet(Conds) :
        LET l == At(pick, c.lhs)
            m == IF c.bRhsIsAttr THEN At(pick, c.rhs) ELSE c.rhs
        IN  CASE c.op = "ISNULL" -> l = Null [] c.op = "NOTNULL" -> l # Null
              [] OTHER -> l # Null /\ m # Null /\ Compare(c.op, l, m)
Result(pick) == [j \in DOMAIN Shown |-> At(pick, Shown[j])]
Times(rec) == Cardinality({pick \in Combinations : Meant(pick) /\ Result(pick) = rec})
Printed(rec) == Cardinality({j \in DOMAIN out : out[j] = rec})

Exact ==
    /\ \A rec \in ToSet(out) : Printed(rec) = Times(rec)
    /\ \A pick \in Combinations : Meant(pick) => Result(pick) \in ToSet(out)

(* The records printed are those meant, each as often as it is meant,      *)
(* unless one of the four things has happened that go wrong: a condition   *)
(* turned round without its operator, a NULL found by an index, a loop's   *)
(* condition that reads from the wrong places, an indexed join that is     *)
(* reset.                                                                  *)
ResultExact == at = "done" /\ plan.doubts = {} => Exact

(* The program crashes on queries whose result is empty, unless they look  *)
(* for NULL by an index, or an index is searched upwards for a join.       *)
CrashesOnNothing ==
    at = "crashed" /\ plan.doubts = {} =>
        \/ \A pick \in Combinations : ~Meant(pick)
        \/ \E c \in ToSet(Conds) :
            \/ ~c.bRhsIsAttr /\ c.lhs \in Indexed /\ (c.rhs = Null \/ c.op \in {"ISNULL", "NOTNULL"})
            \/ c.bRhsIsAttr /\ ~IsSimple(c) /\ c.op \in {"GT", "GE"} /\ {c.lhs, c.rhs} \cap Indexed # {}

(* Planning and running come to an end.                                    *)
Ends == <>Ended

(* A query gives the combinations for which its conditions hold: the       *)
(* conditions on two relations that no index serves are dealt with as      *)
(* well, by a loop (the comment over it, ql_manager.cc:411).               *)
JoinExact == at = "done" => Exact
=============================================================================
