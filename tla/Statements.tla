----------------------------- MODULE Statements -----------------------------
(***************************************************************************)
(* The statements that change the records of one relation: INSERT, DELETE  *)
(* and UPDATE (src/QL/ql_manager.cc) and LOAD (SM_Manager::Load).  They    *)
(* work on the file of the records and the files of the indexes, which are *)
(* written to the disk when they are closed: INSERT opens and closes them  *)
(* for every record, the others keep them open to the end.  A statement    *)
(* that fails leaves open what it had opened, and what it had changed in   *)
(* the buffer pool, where the next one, which opens the files anew, does   *)
(* not see it; it may be written to the disk at any later moment.          *)
(*                                                                         *)
(* The relation stays as its description was made; module Session has the  *)
(* statements about that.  An index is the set of its entries (IndexMap).  *)
(***************************************************************************)
EXTENDS Conditions, Sequences, FiniteSets, SequencesExt

CONSTANTS
    attributes,      \* the attributes, by their offsets
    Nullable,        \* those that may be NULL
    nullableIndex,   \* the NULL flag of each of these, for conditions, UPDATE and LOAD
    IndexOrder,      \* the attributes that have an index, in the same order
    Pk,              \* the primary key, if it is an attribute
    Strings,         \* those that are strings
    Unlike,          \* <<a, b>>: what b has may be no value of a, by type or length
    Vals,            \* values, as they lie in a record, in their order
    Zero,            \* the value of zeroed bytes
    TooLong, WrongType,  \* what else may be written in a statement, as may Null
    Unknown,         \* a name that no attribute has
    Junk,            \* bound: what UPDATE of an unknown attribute makes of a record
    MaxRid,          \* bound: places for records
    PerKey,          \* ridsPerBucket: entries of an index with the same value
    Statements,      \* the statements clients make
    MaxLeaked        \* bound: images failed statements have left

Attrs == ToSet(attributes)
Indexed == ToSet(IndexOrder)
Tuples == [data : [Attrs -> Vals], isnull : [1 .. Cardinality(Nullable) -> BOOLEAN]]

ASSUME StatementsAssumption ==
    /\ attributes \in Seq(Attrs) /\ IsInjective(attributes) /\ Nullable \subseteq Attrs \ {Pk}
    /\ Indexed \subseteq Attrs /\ Strings \subseteq Attrs /\ Unlike \subseteq Attrs \X Attrs
    /\ nullableIndex \in [Nullable -> 1 .. Cardinality(Nullable)] /\ IsInjective(nullableIndex)
    /\ Vals \subseteq Int /\ Zero \in Vals /\ Junk \subseteq Tuples
    /\ {Null, TooLong, WrongType, Unknown} \cap (Vals \cup Attrs) = {}
    /\ Null \notin {TooLong, Unknown} /\ WrongType \notin {Null, TooLong}
    /\ MaxRid \in Nat

ASSUME IndexOrderAssumption ==
    IndexOrder = SelectSeq(attributes, LAMBDA a : a \in ToSet(IndexOrder))

VARIABLES
    disk,         \* the files: the records, and the entries of each index
    recordCount,  \* of the relation, in relcat
    work,         \* the files as the statement has them
    stmt,         \* the statement, with what it has still to do
    leaked,       \* files as failed statements have left them in the buffer pool
    happened      \* history: what the properties make exception for

vars == <<disk, recordCount, work, stmt, leaked, happened>>

NoStatement == [kind |-> "none"]

(* What the statements say, and what fields they begin with.  A field of a *)
(* LOAD is read as its attribute's type.                                   *)
Lines(values) == Seq([Attrs -> Vals \cup values])

StatementOf(s) ==
    CASE s.kind = "insert" -> [kind |-> "insert", todo |-> s.todo]
      [] s.kind = "delete" -> [kind |-> "delete", conds |-> s.conds, at |-> 1, cnt |-> 0]
      [] s.kind = "update" -> [kind |-> "update", lhs |-> s.lhs, rhs |-> s.rhs,
                               conds |-> s.conds, at |-> 1]
      [] s.kind = "load"   -> [kind |-> "load", todo |-> s.todo, cnt |-> 0]

ASSUME StatementsShape ==
    \A s \in Statements :
        /\ s.kind \in {"insert", "delete", "update", "load"} /\ s = StatementOf(s)
        /\ s.kind = "insert" => s.todo \in Lines({Null, TooLong, WrongType})
        /\ s.kind = "load" => s.todo \in Lines({Null, TooLong})
        /\ s.kind = "update" =>
            /\ s.lhs \in Attrs \cup {Unknown}
            /\ s.rhs \in Attrs \cup Vals \cup {Null, TooLong, WrongType, Unknown}
        /\ s.kind \in {"delete", "update"} => \A cond \in s.conds :
            cond.op \in Operators /\ cond.rhs \in Attrs \cup Vals \cup {Null, WrongType}

Records(files) == DOMAIN files.records

(* INSERT, and the printer, find the NULL flag of an attribute by counting *)
(* those before it; the others have its number from the catalog.           *)
Counted(a) ==
    Cardinality({i \in DOMAIN attributes :
        attributes[i] \in Nullable /\ \E j \in DOMAIN attributes : i <= j /\ attributes[j] = a})

Empty == [records |-> <<>>, index |-> [a \in Indexed |-> {}]]

Init ==
    /\ disk = Empty
    /\ recordCount = 0 /\ work = disk /\ stmt = NoStatement
    /\ leaked = {} /\ happened = {}

----------------------------------------------------------------------------
can_assign_to(a, v) == v # WrongType /\ (v = Null => a \in Nullable)

(* The operand of a condition: an attribute's value in the record, or the  *)
(* value of the statement, Null if it has none.                            *)
Operand(rec, x) ==
    IF x \notin Attrs THEN x
    ELSE IF x \in Nullable /\ rec.isnull[nullableIndex[x]] THEN Null ELSE rec.data[x]

Satisfies(rec, conds) ==
    \A cond \in conds : checkSatisfy(cond.op, Operand(rec, cond.lhs), Operand(rec, cond.rhs))

CheckConditionsValid(conds) ==
    \A cond \in conds : /\ cond.lhs \in Attrs
                        /\ cond.rhs \in Attrs \/ can_assign_to(cond.lhs, cond.rhs)

----------------------------------------------------------------------------
(* Entries of one index, as IX_IndexHandle refuses or takes them.          *)
InsertRefused(entries, v, rid) ==
    Cardinality({e \in entries : e[1] = v}) = PerKey \/ <<v, rid>> \in entries

(* A record and its entries in the indexes, one after the other up to the  *)
(* one that refuses: done tells whether none does.                         *)
UpTo(refusing) ==
    {a \in Indexed : \A i, j \in DOMAIN IndexOrder :
        i <= j /\ IndexOrder[j] = a => IndexOrder[i] \notin refusing}

AddEntries(index, data, rid) ==
    LET refusing == {a \in Indexed : InsertRefused(index[a], data[a], rid)}
    IN  [index |-> [a \in Indexed |->
                        IF a \in UpTo(refusing) THEN index[a] \cup {<<data[a], rid>>} ELSE index[a]],
         done |-> refusing = {}]

RemoveEntries(index, data, rid) ==
    LET refusing == {a \in Indexed : <<data[a], rid>> \notin index[a]}
    IN  [index |-> [a \in Indexed |->
                        IF a \in UpTo(refusing) THEN index[a] \ {<<data[a], rid>>} ELSE index[a]],
         done |-> refusing = {}]

With(f, x, y) == [z \in DOMAIN f \cup {x} |-> IF z = x THEN y ELSE f[z]]

(* The files that are not as the disk has them.                            *)
Part(files, p) == IF p = "records" THEN files.records ELSE files.index[p]
Dirty(files, kept) ==
    {<<p, Part(files, p)>> :
        p \in {q \in {"records"} \cup Indexed : Part(files, q) # Part(kept, q)}}

(* The statement ends; what it holds in files is lost, or left behind.     *)
Fail(files, kept) ==
    /\ stmt' = NoStatement /\ disk' = kept /\ work' = kept
    /\ leaked' = leaked \cup Dirty(files, kept)

----------------------------------------------------------------------------
(* What is checked before the first record is touched.                     *)
Valid(s) ==
    CASE s.kind = "insert" ->
            \A i \in DOMAIN s.todo : \A a \in Attrs : can_assign_to(a, s.todo[i][a])
      [] s.kind = "delete" -> CheckConditionsValid(s.conds)
      [] s.kind = "update" -> CheckConditionsValid(s.conds)
                              /\ (s.rhs = Null => s.lhs \in Nullable \cup {Unknown})
      [] s.kind = "load" -> TRUE

Room(s) == s.kind \in {"insert", "load"} => Cardinality(Records(disk)) + Len(s.todo) <= MaxRid

(* Nothing is said of what follows when the indexes are no longer those of *)
(* the records.                                                            *)
Begin(s) ==
    /\ stmt = NoStatement /\ {"written", "overrun"} \cap happened = {}
    /\ Cardinality(leaked) <= MaxLeaked
    /\ Room(s)
    /\ Valid(s) /\ stmt' = s
    /\ UNCHANGED <<disk, recordCount, work, leaked, happened>>

(* INSERT, one record.  The duplicate is looked for in the index of the    *)
(* key; if that has been dropped, opening it fails.  NULL is a flag, with  *)
(* the zeroes of the new tuple.                                            *)
BrokenDuplicate(given) == FALSE
Duplicate(given) == Pk \in Indexed /\ \E e \in work.index[Pk] : e[1] = given[Pk]

Bytes(given) == [a \in Attrs |-> IF given[a] = Null THEN Zero ELSE given[a]]

BrokenFlags(given) == [i \in 1 .. Cardinality(Nullable) |-> FALSE]
Flags(given) == [i \in 1 .. Cardinality(Nullable) |->
                    \E a \in Nullable : Counted(a) = i /\ given[a] = Null]

Refused(given) ==
    \/ Pk \in Attrs /\ (Pk \notin Indexed \/ Duplicate(given))
    \/ \E a \in Attrs : given[a] = TooLong

BrokenStore(records, added) ==
    /\ disk' = [records |-> records, index |-> added.index] /\ work' = disk'
    /\ recordCount' = recordCount + 1 /\ stmt' = [stmt EXCEPT !.todo = Tail(@)]
    /\ UNCHANGED <<leaked, happened>>
Store(records, added) ==
    IF added.done
    THEN /\ disk' = [records |-> records, index |-> added.index] /\ work' = disk'
         /\ recordCount' = recordCount + 1 /\ stmt' = [stmt EXCEPT !.todo = Tail(@)]
         /\ UNCHANGED <<leaked, happened>>
    ELSE /\ Fail([records |-> records, index |-> added.index],
                 [records |-> disk.records, index |-> added.index])
         /\ happened' = happened \cup {"torn"}
         /\ UNCHANGED recordCount

InsertRecord ==
    /\ stmt.kind = "insert" /\ stmt.todo # <<>>
    /\ LET given == Head(stmt.todo)
       IN  IF Refused(given) THEN Fail(disk, disk) /\ UNCHANGED <<recordCount, happened>>
           ELSE \E rid \in (1 .. MaxRid) \ Records(disk) :
                Store(With(disk.records, rid, [data |-> Bytes(given), isnull |-> Flags(given)]),
                      AddEntries(disk.index, Bytes(given), rid))

EndInsert ==
    /\ stmt.kind = "insert" /\ stmt.todo = <<>> /\ stmt' = NoStatement
    /\ UNCHANGED <<disk, recordCount, work, leaked, happened>>

----------------------------------------------------------------------------
(* DELETE and UPDATE scan the records in the order of their places, from   *)
(* stmt.at on.                                                             *)
Ahead == {rid \in Records(work) : rid >= stmt.at}
IsNext(rid) == rid \in Ahead /\ \A r \in Ahead : rid <= r

DeleteRecord ==
    /\ stmt.kind = "delete"
    /\ \E rid \in Ahead : IsNext(rid) /\
       LET rec == work.records[rid]
           left == [r \in Records(work) \ {rid} |-> work.records[r]]
           removed == RemoveEntries(work.index, rec.data, rid)
       IN  IF ~Satisfies(rec, stmt.conds)
           THEN stmt' = [stmt EXCEPT !.at = rid + 1] /\ UNCHANGED <<disk, work, leaked>>
           ELSE IF removed.done
           THEN /\ work' = [records |-> left, index |-> removed.index]
                /\ stmt' = [stmt EXCEPT !.at = rid + 1, !.cnt = @ + 1]
                /\ UNCHANGED <<disk, leaked>>
           ELSE Fail([records |-> left, index |-> removed.index], disk)
    /\ UNCHANGED <<recordCount, happened>>

(* The files are closed, and the count written to the catalog.             *)
BrokenEndDelete ==
    /\ stmt.kind = "delete" /\ Ahead = {}
    /\ disk' = work /\ stmt' = NoStatement
    /\ UNCHANGED <<recordCount, work, leaked, happened>>
EndDelete ==
    /\ stmt.kind = "delete" /\ Ahead = {}
    /\ disk' = work /\ recordCount' = recordCount - stmt.cnt /\ stmt' = NoStatement
    /\ UNCHANGED <<work, leaked, happened>>

(* UPDATE sets one attribute, to a value or to what another one has.  It   *)
(* asks neither whether the value is one of the attribute's type and length*)
(* nor, of the attributes, whether there are such: the bytes are taken for *)
(* what they are not, and those of a string are copied up to a zero byte,  *)
(* wherever that is, over the attributes that lie behind.  Of an attribute *)
(* that is not there the place, the type and the index are whatever the    *)
(* memory had (ql_manager.cc:824).                                         *)
Unfit == stmt.rhs \in {TooLong, WrongType, Unknown} \/ <<stmt.lhs, stmt.rhs>> \in Unlike

Behind(a) == {attributes[j] : j \in {j \in DOMAIN attributes :
                                        \E i \in DOMAIN attributes : attributes[i] = a /\ i < j}}

Reached ==
    IF stmt.lhs = Unknown THEN Attrs
    ELSE {stmt.lhs} \cup (IF Unfit /\ stmt.lhs \in Strings THEN Behind(stmt.lhs) ELSE {})

Written(data) ==
    IF Unfit THEN {new \in [Attrs -> Vals] : \A a \in Attrs \ Reached : new[a] = data[a]}
    ELSE {[data EXCEPT ![stmt.lhs] = IF stmt.rhs \in Attrs THEN data[stmt.rhs] ELSE stmt.rhs]}

(* Set to NULL the bytes stay, and with them the entry of the index.       *)
Flagged(isnull) == [isnull EXCEPT ![nullableIndex[stmt.lhs]] = TRUE]
Unflagged(isnull) ==
    [i \in DOMAIN isnull |->
        isnull[i] /\ ~(stmt.lhs \in Nullable /\ i = nullableIndex[stmt.lhs])]

BrokenUpdated(rec) ==
    IF stmt.lhs = Unknown THEN {rec} \cup Junk
    ELSE IF stmt.rhs = Null THEN {[rec EXCEPT !.isnull = Flagged(@)]}
    ELSE {[rec EXCEPT !.data = data] : data \in Written(rec.data)}
Updated(rec) ==
    IF stmt.lhs = Unknown THEN {rec} \cup Junk
    ELSE IF stmt.rhs = Null THEN {[rec EXCEPT !.isnull = Flagged(@)]}
    ELSE {[data |-> data, isnull |-> Unflagged(rec.isnull)] : data \in Written(rec.data)}

(* The entry of the updated attribute is deleted and inserted anew: in its *)
(* index, or in any for an attribute that is not there, under any values.  *)
MovedIn(b, old, new, rid) ==
    LET without == work.index[b] \ {<<old, rid>>}
        refused == <<old, rid>> \notin work.index[b] \/ InsertRefused(without, new, rid)
    IN  [index |-> [work.index EXCEPT ![b] = IF refused THEN without
                                             ELSE without \cup {<<new, rid>>}],
         done |-> ~refused]
NotMoved == [index |-> work.index, done |-> TRUE]

BrokenMoved(old, new, rid) ==
    {[index |-> [b \in Indexed |-> IF b # stmt.lhs THEN work.index[b]
                                   ELSE work.index[b] \cup {<<new.data[b], rid>>}],
      done |-> TRUE]}
Moved(old, new, rid) ==
    IF stmt.rhs = Null THEN {NotMoved}
    ELSE IF stmt.lhs = Unknown
    THEN {NotMoved} \cup {MovedIn(b, v, w, rid) : b \in Indexed, v \in Vals, w \in Vals}
    ELSE IF stmt.lhs \in Indexed
    THEN {MovedIn(stmt.lhs, old.data[stmt.lhs], new.data[stmt.lhs], rid)}
    ELSE {NotMoved}

UpdateRecord ==
    /\ stmt.kind = "update"
    /\ \E rid \in Ahead : IsNext(rid) /\
       LET old == work.records[rid]
       IN  IF ~Satisfies(old, stmt.conds)
           THEN stmt' = [stmt EXCEPT !.at = rid + 1] /\ UNCHANGED <<disk, work, leaked>>
           ELSE \E new \in Updated(old) : \E moved \in Moved(old, new, rid) :
                IF moved.done
                THEN /\ work' = [records |-> With(work.records, rid, new), index |-> moved.index]
                     /\ stmt' = [stmt EXCEPT !.at = rid + 1]
                     /\ UNCHANGED <<disk, leaked>>
                ELSE Fail([work EXCEPT !.index = moved.index], disk)
    /\ UNCHANGED <<recordCount, happened>>

EndUpdate ==
    /\ stmt.kind = "update" /\ Ahead = {}
    /\ disk' = work /\ stmt' = NoStatement
    /\ happened' = happened \cup (IF Pk \in Reached THEN {"unchecked"} ELSE {})
                            \cup (IF Reached = {stmt.lhs} THEN {} ELSE {"overrun"})
    /\ UNCHANGED <<recordCount, work, leaked>>

----------------------------------------------------------------------------
(* LOAD, one line of the file.  It finds too long strings and empty fields *)
(* where no NULL may be, the number of fields, and no duplicate keys.      *)
Malformed(line) == \E a \in Attrs : line[a] = TooLong \/ (line[a] = Null /\ a \notin Nullable)

LoadLine ==
    /\ stmt.kind = "load" /\ stmt.todo # <<>>
    /\ LET line == Head(stmt.todo)
           data == Bytes(line)
           isnull == [i \in 1 .. Cardinality(Nullable) |->
                        \E a \in Nullable : nullableIndex[a] = i /\ line[a] = Null]
       IN  IF Malformed(line) THEN Fail(work, disk)
           ELSE \E rid \in (1 .. MaxRid) \ Records(work) :
                LET files == [records |-> With(work.records, rid, [data |-> data, isnull |-> isnull]),
                              index |-> AddEntries(work.index, data, rid).index]
                IN  IF AddEntries(work.index, data, rid).done
                    THEN /\ work' = files
                         /\ stmt' = [stmt EXCEPT !.todo = Tail(@), !.cnt = @ + 1]
                         /\ UNCHANGED <<disk, leaked>>
                    ELSE Fail(files, disk)
    /\ UNCHANGED <<recordCount, happened>>

(* The count of the relation is that of the lines, whatever it was.        *)
EndLoad ==
    /\ stmt.kind = "load" /\ stmt.todo = <<>>
    /\ disk' = work /\ recordCount' = stmt.cnt /\ stmt' = NoStatement
    /\ happened' = happened \cup {"unchecked"}
                     \cup (IF recordCount = 0 THEN {} ELSE {"overwritten"})
    /\ UNCHANGED <<work, leaked>>

(* The buffer pool needs the place of a page a failed statement has left.  *)
WriteBack ==
    /\ stmt = NoStatement /\ "written" \notin happened
    /\ \E image \in leaked :
        /\ disk' = IF image[1] = "records" THEN [disk EXCEPT !.records = image[2]]
                   ELSE [disk EXCEPT !.index[image[1]] = image[2]]
        /\ leaked' = leaked \ {image}
    /\ work' = disk' /\ happened' = happened \cup {"written"}
    /\ UNCHANGED <<recordCount, stmt>>

(* DROP TABLE and CREATE TABLE: the images left are of files that are gone.*)
Recreate ==
    /\ stmt = NoStatement
    /\ disk' = Empty /\ work' = Empty /\ recordCount' = 0
    /\ leaked' = {} /\ happened' = {} /\ UNCHANGED stmt

Next ==
    \/ Recreate
    \/ \E s \in Statements : Begin(s)
    \/ InsertRecord \/ EndInsert \/ DeleteRecord \/ EndDelete
    \/ UpdateRecord \/ EndUpdate \/ LoadLine \/ EndLoad \/ WriteBack

Spec == Init /\ [][Next]_vars

----------------------------------------------------------------------------
TypeOK ==
    /\ \A files \in {disk, work} :
        /\ Records(files) \subseteq 1 .. MaxRid
        /\ \A rid \in Records(files) : files.records[rid] \in Tuples
        /\ files.index \in [Indexed -> SUBSET (Vals \X (1 .. MaxRid))]
    /\ recordCount \in Int
    /\ stmt.kind \in {"none", "insert", "delete", "update", "load"}
    /\ happened \subseteq {"torn", "written", "unchecked", "overwritten", "overrun"}

EntriesOf(records, a) == {<<records[rid].data[a], rid>> : rid \in DOMAIN records}

(* On the disk the indexes have an entry for every record and no others,   *)
(* through updates that move entries and statements that fail half way,    *)
(* unless an index refused a record when others already had it             *)
(* (ql_manager.cc:642-650), or UPDATE wrote over more than its attribute   *)
(* (ql_manager.cc:881), whose indexes it does not know of.                 *)
IndexesExact ==
    {"torn", "written", "overrun"} \cap happened = {} =>
        \A a \in Indexed : disk.index[a] = EntriesOf(disk.records, a)

(* The invariant of a relation: types, and its indexes.                    *)
RelationInv == TypeOK /\ IndexesExact

(* Even after a refusal no record is missing from an index, so that a      *)
(* search by one returns all a scan of the records would.                  *)
IndexesCover ==
    {"written", "overrun"} \cap happened = {} =>
        \A a \in Indexed : EntriesOf(disk.records, a) \subseteq disk.index[a]

(* INSERT alone keeps the key unique, whatever became of the index: the    *)
(* search for a duplicate is in the index, not in the records.             *)
KeyUnique ==
    Pk \in Attrs /\ {"unchecked", "written"} \cap happened = {} =>
        \A r, q \in Records(disk) :
            disk.records[r].data[Pk] = disk.records[q].data[Pk] => r = q

(* relcat counts the records, except for those that were there before a    *)
(* LOAD (sm_manager.cc:807).                                               *)
CountExact ==
    {"overwritten", "written"} \cap happened = {} => recordCount = Cardinality(Records(disk))

(* What a statement means: a value is NULL if the printer shows it as      *)
(* NULL, and a comparison with NULL does not hold.                         *)
Shown(rec, x) ==
    IF x \notin Attrs THEN x
    ELSE IF x \in Nullable /\ rec.isnull[Counted(x)] THEN Null ELSE rec.data[x]

Holds(rec, cond) ==
    LET l == Shown(rec, cond.lhs)
        r == Shown(rec, cond.rhs)
    IN  \/ cond.op = "ISNULL" /\ l = Null
        \/ cond.op = "NOTNULL" /\ l # Null
        \/ /\ Null \notin {l, r}
           /\ \/ cond.op \in {"EQ", "LE", "GE"} /\ l = r
              \/ cond.op \in {"LT", "LE", "NE"} /\ l < r
              \/ cond.op \in {"GT", "GE", "NE"} /\ l > r

Selected(rec) == \A cond \in stmt.conds : Holds(rec, cond)

(* A record inserted is there with the values of the statement, NULL where *)
(* the statement had it, for whoever prints it and for conditions.         *)
InsertSeen ==
    [][stmt.kind = "insert" /\ recordCount' # recordCount =>
        \E rid \in Records(disk') \ Records(disk) : \A a \in Attrs :
            Head(stmt.todo)[a] \in
                {Shown(disk'.records[rid], a)} \cap {Operand(disk'.records[rid], a)}]_vars

(* DELETE leaves the records its condition did not hold for when it began, *)
(* as they were: the scan meets every record once though the records it    *)
(* has deleted are gone from under it.                                     *)
DeleteEffect ==
    [][stmt.kind = "delete" /\ Ahead = {} =>
        disk'.records = [rid \in {r \in Records(disk) : ~Selected(disk.records[r])}
                            |-> disk.records[rid]]]_vars

(* UPDATE changes only records its condition held for when it began, and   *)
(* in them the attribute, to the value, or to what the other attribute is  *)
(* if that is not NULL.  It spares the other attributes if the value is    *)
(* one of the attribute's; a value that is not changes, of a string, what  *)
(* lies behind as well, but makes nothing NULL and nothing not NULL.  If   *)
(* there is no such attribute, any of the record may change.               *)
Fits(lhs, rhs) == rhs \in Attrs \cup Vals \cup {Null} /\ <<lhs, rhs>> \notin Unlike

Before(a, b) == \E i, j \in DOMAIN attributes : attributes[i] = a /\ attributes[j] = b /\ i < j

UpdateEffect ==
    [][stmt.kind = "update" /\ Ahead = {} =>
        /\ Records(disk') = Records(disk)
        /\ \A rid \in Records(disk) :
            LET old == disk.records[rid]
                new == disk'.records[rid]
                lhs == stmt.lhs
                rhs == stmt.rhs
            IN  /\ ~Selected(old) => new = old
                /\ Selected(old) /\ lhs \in Attrs =>
                    /\ \A a \in Attrs \ {lhs} :
                        /\ Shown(new, a) = Null <=> Shown(old, a) = Null
                        /\ Fits(lhs, rhs) \/ lhs \notin Strings \/ Before(a, lhs) =>
                            Shown(new, a) = Shown(old, a)
                    /\ Shown(new, lhs) = Null <=> rhs = Null
                    /\ \/ Shown(new, lhs) = Shown(old, rhs)
                       \/ ~Fits(lhs, rhs)
                       \/ rhs \in Attrs /\ Shown(old, rhs) = Null]_vars
=============================================================================
