------------------------- MODULE Statements_proofs -------------------------
(***************************************************************************)
(* The relation that INSERT, DELETE, UPDATE and LOAD leave behind, for any *)
(* attributes, any indexes on them and any statements: its indexes have    *)
(* the records, its key is unique and its count right, and the statements  *)
(* do what they say.                                                       *)
(*                                                                         *)
(* The files on the disk say nothing of what a statement in the middle of  *)
(* its work will write there, so the invariant is stated of the files it   *)
(* works on as well, and relates these to those on the disk: DELETE and    *)
(* UPDATE are done with the places before the one they have come to, and   *)
(* have not touched those after it.                                        *)
(***************************************************************************)
EXTENDS Statements, FiniteSetTheorems, TLAPS

Entries == Vals \X (1 .. MaxRid)

RecordsOK(records) ==
    DOMAIN records \subseteq 1 .. MaxRid /\ records \in [DOMAIN records -> Tuples]

FilesOK(files) ==
    /\ files = [records |-> files.records, index |-> files.index]
    /\ RecordsOK(files.records) /\ files.index \in [Indexed -> SUBSET Entries]

ImageOK(image) ==
    IF image[1] = "records" THEN RecordsOK(image[2])
    ELSE image[1] \in Indexed /\ image[2] \in SUBSET Entries

Assignable ==
    {line \in [Attrs -> Vals \cup {Null, TooLong, WrongType}] :
        \A a \in Attrs : can_assign_to(a, line[a])}

ConditionsOK(conds) ==
    \A cond \in conds :
        cond.op \in Operators /\ cond.lhs \in Attrs /\ cond.rhs \in Attrs \cup Vals \cup {Null}

InsertOK ==
    /\ stmt.kind = "insert" /\ stmt = [kind |-> "insert", todo |-> stmt.todo]
    /\ stmt.todo \in Seq(Assignable)

DeleteOK ==
    /\ stmt.kind = "delete" /\ stmt = [kind |-> "delete", conds |-> stmt.conds,
                                        at |-> stmt.at, cnt |-> stmt.cnt]
    /\ stmt.at \in Int /\ stmt.cnt \in Int /\ ConditionsOK(stmt.conds)

UpdateOK ==
    /\ stmt.kind = "update" /\ stmt = [kind |-> "update", lhs |-> stmt.lhs, rhs |-> stmt.rhs,
                                        conds |-> stmt.conds, at |-> stmt.at]
    /\ stmt.at \in Int /\ ConditionsOK(stmt.conds)
    /\ stmt.lhs \in Attrs \cup {Unknown}
    /\ stmt.rhs \in Attrs \cup Vals \cup {Null, TooLong, WrongType, Unknown}
    /\ stmt.rhs = Null => stmt.lhs \in Nullable \cup {Unknown}

LoadOK ==
    /\ stmt.kind = "load" /\ stmt = [kind |-> "load", todo |-> stmt.todo, cnt |-> stmt.cnt]
    /\ stmt.cnt \in Int /\ stmt.todo \in Lines({Null, TooLong})

StmtOK == stmt = NoStatement \/ InsertOK \/ DeleteOK \/ UpdateOK \/ LoadOK

Typed ==
    /\ FilesOK(disk) /\ FilesOK(work) /\ StmtOK
    /\ \A image \in leaked : ImageOK(image)
    /\ recordCount \in Int
    /\ happened \subseteq {"torn", "written", "unchecked", "overwritten", "overrun"}

(* How far a statement has come.                                           *)
Deleted ==
    /\ Records(work) \subseteq Records(disk)
    /\ \A r \in Records(work) : work.records[r] = disk.records[r]
    /\ \A r \in Records(disk) :
        r \in Records(work) <=> r >= stmt.at \/ ~Satisfies(disk.records[r], stmt.conds)
    /\ Cardinality(Records(work)) + stmt.cnt = Cardinality(Records(disk))

Changed(rec) == IF Satisfies(rec, stmt.conds) THEN Updated(rec) ELSE {rec}

Modified ==
    /\ Records(work) = Records(disk)
    /\ \A r \in Records(work) :
        work.records[r] \in IF r < stmt.at THEN Changed(disk.records[r]) ELSE {disk.records[r]}

Loaded == Cardinality(Records(work)) = Cardinality(Records(disk)) + stmt.cnt

Progress ==
    /\ stmt.kind # "none" => {"written", "overrun"} \cap happened = {}
    /\ stmt.kind \in {"none", "insert"} => work = disk
    /\ stmt.kind = "delete" => Deleted
    /\ stmt.kind = "update" => Modified
    /\ stmt.kind = "load" => Loaded

Exact(files) == \A a \in Indexed : files.index[a] = EntriesOf(files.records, a)
Covered(files) == \A a \in Indexed : EntriesOf(files.records, a) \subseteq files.index[a]

(* An UPDATE at work that changes more than its attribute, in the files it *)
(* works on.                                                               *)
Overruns == stmt.kind = "update" /\ Reached # {stmt.lhs}

AllExact ==
    {"torn", "written", "overrun"} \cap happened = {} =>
        Exact(disk) /\ (~Overruns => Exact(work))
AllCovered ==
    {"written", "overrun"} \cap happened = {} =>
        Covered(disk) /\ (~Overruns => Covered(work))

IInv == Typed /\ Progress /\ AllExact /\ AllCovered /\ KeyUnique /\ CountExact

----------------------------------------------------------------------------
LEMMA IndexedIsAttrs == Indexed \subseteq Attrs
  BY StatementsAssumption DEF Indexed, Attrs

(* A record more, a record less, a record changed: the places, the types   *)
(* and the entries an index should have.                                   *)
LEMMA WithRecord ==
  ASSUME NEW records, RecordsOK(records), NEW rid \in 1 .. MaxRid, NEW rec \in Tuples
  PROVE  /\ DOMAIN With(records, rid, rec) = DOMAIN records \cup {rid}
         /\ With(records, rid, rec)[rid] = rec
         /\ \A r \in DOMAIN records : r # rid => With(records, rid, rec)[r] = records[r]
         /\ RecordsOK(With(records, rid, rec))
  BY DEF With, RecordsOK

LEMMA WithoutRecord ==
  ASSUME NEW records, RecordsOK(records), NEW rid
  PROVE  RecordsOK([r \in DOMAIN records \ {rid} |-> records[r]])
  BY DEF RecordsOK

LEMMA EntriesWith ==
  ASSUME NEW records, RecordsOK(records), NEW rid \in 1 .. MaxRid, NEW rec \in Tuples,
         NEW a \in Attrs, rid \notin DOMAIN records
  PROVE  EntriesOf(With(records, rid, rec), a) = EntriesOf(records, a) \cup {<<rec.data[a], rid>>}
<1> DEFINE new == With(records, rid, rec)
<1>1. /\ DOMAIN new = DOMAIN records \cup {rid}
      /\ new[rid] = rec
      /\ \A r \in DOMAIN records : r # rid => new[r] = records[r]
  BY WithRecord
<1> HIDE DEF new
<1> QED  BY <1>1 DEF EntriesOf, new

LEMMA EntriesWithout ==
  ASSUME NEW records, RecordsOK(records), NEW rid \in DOMAIN records, NEW a \in Attrs
  PROVE  EntriesOf([r \in DOMAIN records \ {rid} |-> records[r]], a)
            = EntriesOf(records, a) \ {<<records[rid].data[a], rid>>}
<1> DEFINE left == [r \in DOMAIN records \ {rid} |-> records[r]]
<1>1. /\ DOMAIN left = DOMAIN records \ {rid}
      /\ \A r \in DOMAIN records \ {rid} : left[r] = records[r]
  OBVIOUS
<1> HIDE DEF left
<1> QED  BY <1>1 DEF EntriesOf

LEMMA EntriesChanged ==
  ASSUME NEW records, RecordsOK(records), NEW rid \in DOMAIN records, NEW rec \in Tuples,
         NEW a \in Attrs
  PROVE  EntriesOf(With(records, rid, rec), a)
            = (EntriesOf(records, a) \ {<<records[rid].data[a], rid>>}) \cup {<<rec.data[a], rid>>}
<1> DEFINE new == With(records, rid, rec)
<1>1. rid \in 1 .. MaxRid  BY DEF RecordsOK
<1>2. /\ DOMAIN new = DOMAIN records \cup {rid}
      /\ new[rid] = rec
      /\ \A r \in DOMAIN records : r # rid => new[r] = records[r]
  BY <1>1, WithRecord
<1> HIDE DEF new
<1> QED  BY <1>2 DEF EntriesOf, new

(* The number of records is one more, or one less.                         *)
LEMMA CountPlaces ==
  ASSUME NEW S \in SUBSET (1 .. MaxRid)
  PROVE  /\ Cardinality(S) \in Nat
         /\ S = {} <=> Cardinality(S) = 0
         /\ \A rid \in (1 .. MaxRid) \ S : Cardinality(S \cup {rid}) = Cardinality(S) + 1
         /\ \A rid \in S : Cardinality(S \ {rid}) = Cardinality(S) - 1
<1>1. IsFiniteSet(S)
  <2>1. MaxRid \in Nat  BY StatementsAssumption
  <2>2. IsFiniteSet(1 .. MaxRid)  BY <2>1, FS_Interval
  <2> QED  BY <2>2, FS_Subset
<1>2. Cardinality(S) \in Nat  BY <1>1, FS_CardinalityType
<1>3. S = {} <=> Cardinality(S) = 0  BY <1>1, FS_EmptySet
<1>4. \A rid \in (1 .. MaxRid) \ S : Cardinality(S \cup {rid}) = Cardinality(S) + 1
  BY <1>1, FS_AddElement
<1>5. \A rid \in S : Cardinality(S \ {rid}) = Cardinality(S) - 1
  BY <1>1, FS_RemoveElement
<1> QED  BY <1>2, <1>3, <1>4, <1>5

(* What the indexes have after a record's entries have been added, or      *)
(* taken away: where none refuses all of them, else some.                  *)
LEMMA EntriesAdded ==
  ASSUME NEW index \in [Indexed -> SUBSET Entries], NEW data \in [Attrs -> Vals],
         NEW rid \in 1 .. MaxRid
  PROVE  LET added == AddEntries(index, data, rid)
         IN  /\ added.index \in [Indexed -> SUBSET Entries]
             /\ \A a \in Indexed : index[a] \subseteq added.index[a]
             /\ added.done =>
                    \A a \in Indexed : added.index[a] = index[a] \cup {<<data[a], rid>>}
<1>1. \A a \in Indexed : <<data[a], rid>> \in Entries  BY IndexedIsAttrs DEF Entries
<1>2. UpTo({}) = Indexed  BY DEF UpTo
<1> QED  BY <1>1, <1>2 DEF AddEntries

LEMMA EntriesRemoved ==
  ASSUME NEW index \in [Indexed -> SUBSET Entries], NEW data \in [Attrs -> Vals],
         NEW rid \in 1 .. MaxRid
  PROVE  LET removed == RemoveEntries(index, data, rid)
         IN  /\ removed.index \in [Indexed -> SUBSET Entries]
             /\ removed.done =>
                    \A a \in Indexed : removed.index[a] = index[a] \ {<<data[a], rid>>}
<1>1. UpTo({}) = Indexed  BY DEF UpTo
<1> QED  BY <1>1 DEF RemoveEntries

LEMMA LeftBehind ==
  ASSUME NEW files, NEW kept, FilesOK(files)
  PROVE  \A image \in Dirty(files, kept) : ImageOK(image)
  BY DEF Dirty, Part, ImageOK, FilesOK

LEMMA BytesAreValues ==
  ASSUME NEW line \in [Attrs -> Vals \cup {Null, TooLong, WrongType}],
         \A a \in Attrs : line[a] \notin {TooLong, WrongType}
  PROVE  Bytes(line) \in [Attrs -> Vals]
  BY StatementsAssumption DEF Bytes

LEMMA TypeOfValues ==
  ASSUME NEW line \in [Attrs -> Vals \cup {Null, TooLong, WrongType}],
         \A a \in Attrs : line[a] \notin {TooLong, WrongType},
         NEW isnull \in [1 .. Cardinality(Nullable) -> BOOLEAN]
  PROVE  [data |-> Bytes(line), isnull |-> isnull] \in Tuples
  BY BytesAreValues DEF Tuples

----------------------------------------------------------------------------
(* Steps that leave the disk as it is: a statement that fails, one that    *)
(* begins.                                                                 *)
LEMMA FailKeeps ==
  ASSUME IInv, NEW files, FilesOK(files), Fail(files, disk), UNCHANGED <<recordCount, happened>>
  PROVE  IInv'
<1>1. /\ stmt' = NoStatement /\ disk' = disk /\ work' = disk
      /\ leaked' = leaked \cup Dirty(files, disk)
      /\ recordCount' = recordCount /\ happened' = happened
  BY DEF Fail
<1>2. Typed'  BY <1>1, LeftBehind DEF IInv, Typed, StmtOK
<1>3. Progress'  BY <1>1 DEF Progress, NoStatement
<1>4. AllExact' /\ AllCovered'  BY <1>1 DEF IInv, AllExact, AllCovered
<1>5. KeyUnique' /\ CountExact'  BY <1>1 DEF IInv, KeyUnique, CountExact, Records
<1> QED  BY <1>2, <1>3, <1>4, <1>5 DEF IInv

LEMMA SameDisk ==
  ASSUME IInv, UNCHANGED <<disk, recordCount, happened>>
  PROVE  KeyUnique' /\ CountExact'
  BY DEF IInv, KeyUnique, CountExact, Records

LEMMA BeginKeeps ==
  ASSUME IInv, NEW s \in Statements, Begin(s)
  PROVE  IInv'
<1>1. /\ stmt = NoStatement /\ stmt' = s /\ Valid(s)
      /\ UNCHANGED <<disk, recordCount, work, leaked, happened>>
  BY DEF Begin
<1>2. work = disk /\ {"written", "overrun"} \cap happened' = {}
  BY <1>1 DEF IInv, Progress, NoStatement, Begin
<1>3. /\ s.kind \in {"insert", "delete", "update", "load"} /\ s = StatementOf(s)
      /\ s.kind = "insert" => s.todo \in Lines({Null, TooLong, WrongType})
      /\ s.kind = "load" => s.todo \in Lines({Null, TooLong})
      /\ s.kind = "update" =>
            /\ s.lhs \in Attrs \cup {Unknown}
            /\ s.rhs \in Attrs \cup Vals \cup {Null, TooLong, WrongType, Unknown}
      /\ s.kind \in {"delete", "update"} => \A cond \in s.conds :
            cond.op \in Operators /\ cond.rhs \in Attrs \cup Vals \cup {Null, WrongType}
  BY StatementsShape
<1>4. s.kind \in {"delete", "update"} => ConditionsOK(s.conds)
  BY <1>1, <1>3 DEF Valid, CheckConditionsValid, ConditionsOK, can_assign_to
<1>5. ASSUME s.kind = "insert"  PROVE (InsertOK /\ Progress)'
  <2>1. s = [kind |-> "insert", todo |-> s.todo]  BY <1>3, <1>5 DEF StatementOf
  <2>2. s.todo \in Seq(Assignable)
    BY <1>1, <1>3, <1>5 DEF Valid, Lines, Assignable
  <2> QED  BY <1>1, <1>2, <1>5, <2>1, <2>2 DEF InsertOK, Progress
<1>6. ASSUME s.kind = "delete"  PROVE (DeleteOK /\ Progress)'
  <2>1. s = [kind |-> "delete", conds |-> s.conds, at |-> 1, cnt |-> 0]
    BY <1>3, <1>6 DEF StatementOf
  <2>2. s.at = 1 /\ s.cnt = 0  BY <2>1
  <2>3. DeleteOK'  BY <1>1, <1>4, <1>6, <2>1, <2>2 DEF DeleteOK
  <2>4. Records(disk) \in SUBSET (1 .. MaxRid)
    BY DEF IInv, Typed, FilesOK, RecordsOK, Records
  <2>5. Deleted'
    <3>1. Cardinality(Records(disk)) \in Nat  BY <2>4, CountPlaces
    <3> QED  BY <1>1, <1>2, <2>2, <2>4, <3>1 DEF Deleted, Records
  <2> QED  BY <1>1, <1>2, <1>6, <2>3, <2>5 DEF Progress
<1>7. ASSUME s.kind = "update"  PROVE (UpdateOK /\ Progress)'
  <2>1. s = [kind |-> "update", lhs |-> s.lhs, rhs |-> s.rhs, conds |-> s.conds, at |-> 1]
    BY <1>3, <1>7 DEF StatementOf
  <2>2. s.at = 1  BY <2>1
  <2>3. s.rhs = Null => s.lhs \in Nullable \cup {Unknown}  BY <1>1, <1>7 DEF Valid
  <2>4. UpdateOK'  BY <1>1, <1>3, <1>4, <1>7, <2>1, <2>2, <2>3 DEF UpdateOK
  <2>5. Records(disk) \in SUBSET (1 .. MaxRid)
    BY DEF IInv, Typed, FilesOK, RecordsOK, Records
  <2>6. Modified'  BY <1>1, <1>2, <2>2, <2>5 DEF Modified, Records
  <2> QED  BY <1>1, <1>2, <1>7, <2>4, <2>6 DEF Progress
<1>8. ASSUME s.kind = "load"  PROVE (LoadOK /\ Progress)'
  <2>1. s = [kind |-> "load", todo |-> s.todo, cnt |-> 0]  BY <1>3, <1>8 DEF StatementOf
  <2>2. s.cnt = 0  BY <2>1
  <2>3. LoadOK'  BY <1>1, <1>3, <1>8, <2>1, <2>2 DEF LoadOK
  <2>4. Records(disk) \in SUBSET (1 .. MaxRid)
    BY DEF IInv, Typed, FilesOK, RecordsOK, Records
  <2>5. Loaded'
    <3>1. Cardinality(Records(disk)) \in Nat  BY <2>4, CountPlaces
    <3> QED  BY <1>1, <1>2, <2>2, <3>1 DEF Loaded, Records
  <2> QED  BY <1>1, <1>2, <1>8, <2>3, <2>5 DEF Progress
<1>9. StmtOK' /\ Progress'  BY <1>3, <1>5, <1>6, <1>7, <1>8 DEF StmtOK
<1>10. Typed'  BY <1>1, <1>9 DEF IInv, Typed
<1>11. AllExact' /\ AllCovered'  BY <1>1, <1>2 DEF IInv, AllExact, AllCovered
<1>12. KeyUnique' /\ CountExact'  BY <1>1, SameDisk
<1> QED  BY <1>9, <1>10, <1>11, <1>12 DEF IInv

----------------------------------------------------------------------------
(* INSERT.  A record goes to the disk with all its entries, or some of its *)
(* entries go without it.                                                  *)
LEMMA InsertShape ==
  ASSUME IInv, stmt.kind = "insert", stmt.todo # <<>>
  PROVE  /\ work = disk /\ InsertOK
         /\ Head(stmt.todo) \in Assignable
         /\ ([stmt EXCEPT !.todo = Tail(@)]).kind = "insert"
         /\ [stmt EXCEPT !.todo = Tail(@)]
                = [kind |-> "insert", todo |-> [stmt EXCEPT !.todo = Tail(@)].todo]
         /\ [stmt EXCEPT !.todo = Tail(@)].todo \in Seq(Assignable)
<1>1. InsertOK
  BY DEF IInv, Typed, StmtOK, NoStatement, DeleteOK, UpdateOK, LoadOK
<1>2. work = disk  BY DEF IInv, Progress
<1>3. stmt = [kind |-> "insert", todo |-> stmt.todo] /\ stmt.todo \in Seq(Assignable)
  BY <1>1 DEF InsertOK
<1>4. Head(stmt.todo) \in Assignable /\ Tail(stmt.todo) \in Seq(Assignable)  BY <1>3
<1> QED  BY <1>1, <1>2, <1>3, <1>4

LEMMA FlagsType ==
  ASSUME NEW given
  PROVE  Flags(given) \in [1 .. Cardinality(Nullable) -> BOOLEAN]
<1>1. \A i : (\E a \in Nullable : Counted(a) = i /\ given[a] = Null) \in BOOLEAN  OBVIOUS
<1> QED  BY <1>1 DEF Flags

LEMMA InsertKeeps ==
  ASSUME IInv, InsertRecord
  PROVE  IInv'
<1> DEFINE given == Head(stmt.todo)
           rec == [data |-> Bytes(given), isnull |-> Flags(given)]
<1>1. stmt.kind = "insert" /\ stmt.todo # <<>>  BY DEF InsertRecord
<1>2. work = disk /\ given \in Assignable  BY <1>1, InsertShape
<1>3. given \in [Attrs -> Vals \cup {Null, TooLong, WrongType}]
      /\ \A a \in Attrs : given[a] # WrongType /\ (given[a] = Null => a \in Nullable)
  BY <1>2 DEF Assignable, can_assign_to
<1>4. FilesOK(disk) /\ RecordsOK(disk.records) /\ disk.index \in [Indexed -> SUBSET Entries]
  BY DEF IInv, Typed, FilesOK
<1>5. CASE Refused(given)
  <2>1. Fail(disk, disk) /\ UNCHANGED <<recordCount, happened>>  BY <1>5 DEF InsertRecord
  <2> QED  BY <1>4, <2>1, FailKeeps
<1>6. CASE ~Refused(given)
  <2> DEFINE grown(rid) == With(disk.records, rid, rec)
             more(rid) == AddEntries(disk.index, Bytes(given), rid)
  <2>1. PICK rid \in (1 .. MaxRid) \ Records(disk) : Store(grown(rid), more(rid))
    BY <1>6 DEF InsertRecord
  <2> DEFINE records == grown(rid)
             added == more(rid)
             files == [records |-> records, index |-> added.index]
  <2>2. \A a \in Attrs : given[a] \notin {TooLong, WrongType}  BY <1>3, <1>6 DEF Refused
  <2>3. rec \in Tuples /\ Bytes(given) \in [Attrs -> Vals]
    BY <1>3, <2>2, FlagsType, TypeOfValues, BytesAreValues
  <2>4. /\ DOMAIN records = Records(disk) \cup {rid} /\ records[rid] = rec
        /\ \A r \in Records(disk) : r # rid => records[r] = disk.records[r]
        /\ RecordsOK(records)
    BY <1>4, <2>3, WithRecord, SMTT(30) DEF Records
  <2>5. /\ added.index \in [Indexed -> SUBSET Entries]
        /\ \A a \in Indexed : disk.index[a] \subseteq added.index[a]
        /\ added.done => \A a \in Indexed :
               added.index[a] = disk.index[a] \cup {<<rec.data[a], rid>>}
    BY <1>4, <2>3, EntriesAdded
  <2>6. \A a \in Indexed :
            EntriesOf(records, a) = EntriesOf(disk.records, a) \cup {<<rec.data[a], rid>>}
    BY <1>4, <2>3, EntriesWith, IndexedIsAttrs DEF Records
  <2>7. FilesOK(files)  BY <2>4, <2>5 DEF FilesOK
  <2>8. Store(records, added)  BY <2>1
  <2> HIDE DEF given, rec, grown, more, added, records
  <2>9. CASE added.done
    <3>1. /\ disk' = files /\ work' = files /\ recordCount' = recordCount + 1
          /\ stmt' = [stmt EXCEPT !.todo = Tail(@)] /\ UNCHANGED <<leaked, happened>>
      BY <2>8, <2>9 DEF Store
    <3>2. InsertOK'  BY <1>1, <3>1, InsertShape DEF InsertOK
    <3>3. Typed'  BY <2>7, <3>1, <3>2 DEF IInv, Typed, StmtOK
    <3>4. stmt'.kind = "insert"  BY <3>2 DEF InsertOK
    <3>5. Progress'  BY <1>1, <3>1, <3>4 DEF IInv, Progress
    <3>6. AllExact'  BY <2>5, <2>6, <2>9, <3>1, ZenonT(60) DEF IInv, AllExact, Exact
    <3>7. AllCovered'  BY <2>5, <2>6, <2>9, <3>1 DEF IInv, AllCovered, Covered
    <3>8. KeyUnique'
      <4> SUFFICES ASSUME Pk \in Attrs, {"unchecked", "written"} \cap happened = {},
                          NEW r \in DOMAIN records, NEW q \in DOMAIN records,
                          records[r].data[Pk] = records[q].data[Pk]
                   PROVE  r = q
        BY <3>1 DEF KeyUnique, Records
      <4>1. Pk \in Indexed /\ ~\E e \in disk.index[Pk] : e[1] = given[Pk]
        BY <1>2, <1>6 DEF Refused, Duplicate
      <4>2. EntriesOf(disk.records, Pk) \subseteq disk.index[Pk]
        BY <1>1, <4>1 DEF IInv, Progress, AllCovered, Covered
      <4>3. rec.data[Pk] = given[Pk]
        <5>1. Pk \notin Nullable  BY StatementsAssumption
        <5> QED  BY <1>3, <5>1 DEF rec, Bytes
      <4>4. \A s \in Records(disk) : disk.records[s].data[Pk] # rec.data[Pk]
        <5> TAKE s \in Records(disk)
        <5> DEFINE e == <<disk.records[s].data[Pk], s>>
        <5>1. e \in EntriesOf(disk.records, Pk)  BY DEF EntriesOf, Records
        <5>2. e[1] # given[Pk]  BY <4>1, <4>2, <5>1
        <5> QED  BY <4>3, <5>2
      <4>5. \A s, u \in Records(disk) :
                disk.records[s].data[Pk] = disk.records[u].data[Pk] => s = u
        BY DEF IInv, KeyUnique
      <4> QED  BY <2>4, <4>4, <4>5
    <3>9. CountExact'
      <4>1. Records(disk) \in SUBSET (1 .. MaxRid)  BY <1>4 DEF RecordsOK, Records
      <4>2. Cardinality(Records(disk) \cup {rid}) = Cardinality(Records(disk)) + 1
        BY <4>1, CountPlaces
      <4> QED  BY <2>4, <3>1, <4>2 DEF IInv, CountExact, Records
    <3> QED  BY <3>3, <3>5, <3>6, <3>7, <3>8, <3>9 DEF IInv
  <2>10. CASE ~added.done
    <3> DEFINE kept == [records |-> disk.records, index |-> added.index]
    <3>1. /\ stmt' = NoStatement /\ disk' = kept /\ work' = kept
          /\ leaked' = leaked \cup Dirty(files, kept)
          /\ recordCount' = recordCount /\ happened' = happened \cup {"torn"}
      BY <2>8, <2>10 DEF Store, Fail
    <3>2. FilesOK(kept)  BY <1>4, <2>5 DEF FilesOK
    <3>3. \A image \in Dirty(files, kept) : ImageOK(image)  BY <2>7, LeftBehind
    <3> HIDE DEF files
    <3>4. Typed'
      <4>1. \A image \in leaked' : ImageOK(image)  BY <3>1, <3>3 DEF IInv, Typed
      <4> QED  BY <3>1, <3>2, <4>1 DEF IInv, Typed, StmtOK
    <3>5. Progress'  BY <3>1 DEF Progress, NoStatement
    <3>6. AllExact'  BY <3>1 DEF AllExact
    <3>7. AllCovered'  BY <2>5, <3>1 DEF IInv, AllCovered, Covered
    <3>8. KeyUnique' /\ CountExact'  BY <3>1 DEF IInv, KeyUnique, CountExact, Records
    <3> QED  BY <3>4, <3>5, <3>6, <3>7, <3>8 DEF IInv
  <2> QED  BY <2>9, <2>10
<1> QED  BY <1>5, <1>6

LEMMA EndInsertKeeps ==
  ASSUME IInv, EndInsert
  PROVE  IInv'
<1>1. /\ stmt.kind = "insert" /\ stmt' = NoStatement
      /\ UNCHANGED <<disk, recordCount, work, leaked, happened>>
  BY DEF EndInsert
<1>2. Typed'  BY <1>1 DEF IInv, Typed, StmtOK
<1>3. Progress'  BY <1>1 DEF IInv, Progress, NoStatement
<1>4. AllExact' /\ AllCovered'  BY <1>1 DEF IInv, AllExact, AllCovered, Overruns
<1>5. KeyUnique' /\ CountExact'  BY <1>1, SameDisk
<1> QED  BY <1>2, <1>3, <1>4, <1>5 DEF IInv

----------------------------------------------------------------------------
(* DELETE and UPDATE.  The statement's own part of the invariant, and the  *)
(* place they have come to.                                                *)
LEMMA DeleteShape ==
  ASSUME IInv, stmt.kind = "delete"
  PROVE  DeleteOK /\ Deleted
<1>1. DeleteOK  BY DEF IInv, Typed, StmtOK, NoStatement, InsertOK, UpdateOK, LoadOK
<1> QED  BY <1>1 DEF IInv, Progress

LEMMA UpdateShape ==
  ASSUME IInv, stmt.kind = "update"
  PROVE  UpdateOK /\ Modified
<1>1. UpdateOK  BY DEF IInv, Typed, StmtOK, NoStatement, InsertOK, DeleteOK, LoadOK
<1> QED  BY <1>1 DEF IInv, Progress

LEMMA NextPlace ==
  ASSUME IInv, NEW rid \in Ahead, IsNext(rid), stmt.at \in Int
  PROVE  /\ rid \in Records(work) /\ rid \in 1 .. MaxRid /\ stmt.at <= rid
         /\ \A r \in Records(work) : (r >= rid + 1 <=> r >= stmt.at /\ r # rid)
<1>1. Records(work) \subseteq 1 .. MaxRid  BY DEF IInv, Typed, FilesOK, RecordsOK, Records
<1>2. \A r \in Records(work) : r \in Int  BY <1>1
<1>3. rid \in Records(work) /\ rid >= stmt.at  BY DEF Ahead
<1>4. \A r \in Records(work) : r >= stmt.at => rid <= r  BY DEF IsNext, Ahead
<1> QED  BY <1>1, <1>2, <1>3, <1>4

LEMMA DeleteKeeps ==
  ASSUME IInv, DeleteRecord
  PROVE  IInv'
<1>1. stmt.kind = "delete" /\ UNCHANGED <<recordCount, happened>>  BY DEF DeleteRecord
<1>2. DeleteOK /\ Deleted  BY <1>1, DeleteShape
<1>3. /\ stmt = [kind |-> "delete", conds |-> stmt.conds, at |-> stmt.at, cnt |-> stmt.cnt]
      /\ stmt.at \in Int /\ stmt.cnt \in Int /\ ConditionsOK(stmt.conds)
  BY <1>2 DEF DeleteOK
<1> DEFINE rec(r) == work.records[r]
           left(r) == [q \in Records(work) \ {r} |-> work.records[q]]
           removed(r) == RemoveEntries(work.index, rec(r).data, r)
<1>4. PICK rid \in Ahead :
        /\ IsNext(rid)
        /\ \/ /\ ~Satisfies(rec(rid), stmt.conds)
              /\ stmt' = [stmt EXCEPT !.at = rid + 1] /\ UNCHANGED <<disk, work, leaked>>
           \/ /\ Satisfies(rec(rid), stmt.conds) /\ removed(rid).done
              /\ work' = [records |-> left(rid), index |-> removed(rid).index]
              /\ stmt' = [stmt EXCEPT !.at = rid + 1, !.cnt = @ + 1]
              /\ UNCHANGED <<disk, leaked>>
           \/ Fail([records |-> left(rid), index |-> removed(rid).index], disk)
  BY DEF DeleteRecord
<1>5. /\ rid \in Records(work) /\ rid \in 1 .. MaxRid /\ stmt.at <= rid
      /\ \A r \in Records(work) : (r >= rid + 1 <=> r >= stmt.at /\ r # rid)
  BY <1>3, <1>4, NextPlace
<1>6. RecordsOK(work.records) /\ work.index \in [Indexed -> SUBSET Entries]
  BY DEF IInv, Typed, FilesOK
<1>7. rec(rid) \in Tuples /\ rec(rid).data \in [Attrs -> Vals]
  BY <1>5, <1>6 DEF RecordsOK, Records, Tuples
<1>8. /\ removed(rid).index \in [Indexed -> SUBSET Entries]
      /\ removed(rid).done => \A a \in Indexed :
             removed(rid).index[a] = work.index[a] \ {<<rec(rid).data[a], rid>>}
  BY <1>5, <1>6, <1>7, EntriesRemoved
<1>9. RecordsOK(left(rid))  BY <1>6, WithoutRecord DEF Records
<1> DEFINE files == [records |-> left(rid), index |-> removed(rid).index]
<1>10. FilesOK(files)  BY <1>8, <1>9 DEF FilesOK
<1>11. Records(work) \subseteq 1 .. MaxRid /\ Records(disk) \subseteq 1 .. MaxRid
  BY DEF IInv, Typed, FilesOK, RecordsOK, Records
<1>12. /\ Records(work) \subseteq Records(disk)
       /\ \A r \in Records(work) : work.records[r] = disk.records[r]
       /\ \A r \in Records(disk) :
            r \in Records(work) <=> r >= stmt.at \/ ~Satisfies(disk.records[r], stmt.conds)
       /\ Cardinality(Records(work)) + stmt.cnt = Cardinality(Records(disk))
  BY <1>2 DEF Deleted
<1>13. \A r \in Records(disk) : r \in Int  BY <1>11
<1>14. \A r \in Records(disk) : r >= rid + 1 => r >= stmt.at /\ r # rid
  BY <1>3, <1>5, <1>13
<1>15. \A r \in Records(disk) : r >= stmt.at => r \in Records(work)  BY <1>12
<1>16. \A r \in Records(disk) : (r >= rid + 1 <=> r >= stmt.at /\ r # rid)
  BY <1>5, <1>14, <1>15
<1>17. ASSUME ~Satisfies(rec(rid), stmt.conds),
              stmt' = [stmt EXCEPT !.at = rid + 1], UNCHANGED <<disk, work, leaked>>
       PROVE  IInv'
  <2>1. /\ stmt'.kind = "delete" /\ stmt'.conds = stmt.conds /\ stmt'.at = rid + 1
        /\ stmt'.cnt = stmt.cnt
        /\ stmt' = [kind |-> "delete", conds |-> stmt'.conds, at |-> stmt'.at, cnt |-> stmt'.cnt]
    BY <1>3, <1>17
  <2>2. DeleteOK'  BY <1>3, <1>5, <2>1 DEF DeleteOK
  <2>3. Deleted'
    <3>1. \A r \in Records(disk) :
            r \in Records(work) <=> r >= rid + 1 \/ ~Satisfies(disk.records[r], stmt.conds)
      BY <1>5, <1>12, <1>16, <1>17
    <3> QED  BY <1>12, <1>17, <2>1, <3>1 DEF Deleted, Records
  <2>4. Typed'  BY <1>1, <1>17, <2>2 DEF IInv, Typed, StmtOK
  <2>5. Progress'  BY <1>1, <2>1, <2>3 DEF IInv, Progress
  <2>6. AllExact' /\ AllCovered'  BY <1>1, <1>17 DEF IInv, AllExact, AllCovered, Overruns
  <2>7. KeyUnique' /\ CountExact'  BY <1>1, <1>17, SameDisk
  <2> QED  BY <2>4, <2>5, <2>6, <2>7 DEF IInv
<1>18. ASSUME Satisfies(rec(rid), stmt.conds), removed(rid).done,
              work' = files, stmt' = [stmt EXCEPT !.at = rid + 1, !.cnt = @ + 1],
              UNCHANGED <<disk, leaked>>
       PROVE  IInv'
  <2>1. /\ stmt'.kind = "delete" /\ stmt'.conds = stmt.conds /\ stmt'.at = rid + 1
        /\ stmt'.cnt = stmt.cnt + 1
        /\ stmt' = [kind |-> "delete", conds |-> stmt'.conds, at |-> stmt'.at, cnt |-> stmt'.cnt]
    <3> DEFINE at == rid + 1
               cnt == stmt.cnt + 1
    <3>1. PICK c, p, n : stmt = [kind |-> "delete", conds |-> c, at |-> p, cnt |-> n]
      BY <1>3
    <3>2. stmt' = [stmt EXCEPT !.at = at, !.cnt = cnt]  BY <1>18
    <3> HIDE DEF at, cnt
    <3>3. stmt' = [kind |-> "delete", conds |-> c, at |-> at, cnt |-> cnt]
      BY <3>1, <3>2
    <3>4. stmt.conds = c  BY <3>1
    <3> QED  BY <3>3, <3>4 DEF at, cnt
  <2>2. DeleteOK'  BY <1>3, <1>5, <2>1 DEF DeleteOK
  <2>3. /\ Records(work') = Records(work) \ {rid}
        /\ \A r \in Records(work) \ {rid} : work'.records[r] = work.records[r]
    BY <1>18 DEF Records
  <2>4. Deleted'
    <3>1. \A r \in Records(disk) : r \in Records(work) \ {rid}
            <=> r >= rid + 1 \/ ~Satisfies(disk.records[r], stmt.conds)
      BY <1>5, <1>12, <1>16, <1>18
    <3>2. Cardinality(Records(work) \ {rid}) = Cardinality(Records(work)) - 1
      BY <1>5, <1>11, CountPlaces
    <3>3. Cardinality(Records(work)) \in Nat /\ Cardinality(Records(disk)) \in Nat
      BY <1>11, CountPlaces
    <3>4. Cardinality(Records(work) \ {rid}) + (stmt.cnt + 1) = Cardinality(Records(disk))
      BY <1>3, <1>12, <3>2, <3>3
    <3>5. disk' = disk  BY <1>18
    <3> QED  BY <1>12, <2>1, <2>3, <3>1, <3>4, <3>5 DEF Deleted
  <2>5. Typed'  BY <1>1, <1>10, <1>18, <2>2 DEF IInv, Typed, StmtOK
  <2>6. Progress'  BY <1>1, <2>1, <2>4 DEF IInv, Progress
  <2>7. \A a \in Indexed :
            EntriesOf(left(rid), a) = EntriesOf(work.records, a) \ {<<rec(rid).data[a], rid>>}
    BY <1>5, <1>6, EntriesWithout, IndexedIsAttrs DEF Records
  <2>8. \A a \in Indexed :
            removed(rid).index[a] = work.index[a] \ {<<rec(rid).data[a], rid>>}
    BY <1>8, <1>18
  <2> HIDE DEF rec, left, removed
  <2>9. AllExact'  BY <1>1, <1>18, <2>7, <2>8, ZenonT(30) DEF IInv, AllExact, Exact, Overruns
  <2>10. AllCovered'
    <3>1. Covered(work) => Covered(files)  BY <2>7, <2>8 DEF Covered
    <3> QED  BY <1>1, <1>18, <3>1 DEF IInv, AllCovered, Overruns
  <2>11. KeyUnique' /\ CountExact'  BY <1>1, <1>18, SameDisk
  <2> QED  BY <2>5, <2>6, <2>9, <2>10, <2>11 DEF IInv
<1>19. ASSUME Fail(files, disk)  PROVE IInv'  BY <1>1, <1>10, <1>19, FailKeeps
<1> QED  BY <1>4, <1>17, <1>18, <1>19

(* The NULL flags after an UPDATE are flags, and of another attribute they *)
(* are as they were.                                                       *)
LEMMA FlagsChanged ==
  ASSUME stmt.lhs \in Attrs, NEW isnull \in [1 .. Cardinality(Nullable) -> BOOLEAN]
  PROVE  /\ Unflagged(isnull) \in [1 .. Cardinality(Nullable) -> BOOLEAN]
         /\ Flagged(isnull) \in [1 .. Cardinality(Nullable) -> BOOLEAN]
         /\ \A a \in Nullable \ {stmt.lhs} :
                Unflagged(isnull)[nullableIndex[a]] = isnull[nullableIndex[a]]
         /\ stmt.lhs \in Nullable =>
                /\ Unflagged(isnull)[nullableIndex[stmt.lhs]] = FALSE
                /\ Flagged(isnull)[nullableIndex[stmt.lhs]] = TRUE
                /\ \A a \in Nullable \ {stmt.lhs} :
                        Flagged(isnull)[nullableIndex[a]] = isnull[nullableIndex[a]]
<1> DEFINE kept(i) == isnull[i] /\ ~(stmt.lhs \in Nullable /\ i = nullableIndex[stmt.lhs])
<1>1. \A a \in Nullable : nullableIndex[a] \in 1 .. Cardinality(Nullable)
  BY StatementsAssumption
<1>2. \A a, b \in Nullable : nullableIndex[b] = nullableIndex[a] => b = a
  BY StatementsAssumption DEF IsInjective
<1>3. \A i : kept(i) \in BOOLEAN  OBVIOUS
<1>4. Unflagged(isnull) = [i \in 1 .. Cardinality(Nullable) |-> kept(i)]  BY DEF Unflagged
<1>5. \A i \in 1 .. Cardinality(Nullable) : Unflagged(isnull)[i] = kept(i)  BY <1>4
<1>6. Unflagged(isnull) \in [1 .. Cardinality(Nullable) -> BOOLEAN]
  <2> HIDE DEF kept
  <2> QED  BY <1>3, <1>4
<1>7. \A a \in Nullable \ {stmt.lhs} :
        Unflagged(isnull)[nullableIndex[a]] = isnull[nullableIndex[a]]
  <2> TAKE a \in Nullable \ {stmt.lhs}
  <2>1. nullableIndex[a] \in 1 .. Cardinality(Nullable)  BY <1>1
  <2>2. stmt.lhs \in Nullable => nullableIndex[a] # nullableIndex[stmt.lhs]  BY <1>2
  <2>3. isnull[nullableIndex[a]] \in BOOLEAN  BY <2>1
  <2>4. Unflagged(isnull)[nullableIndex[a]] = kept(nullableIndex[a])  BY <1>5, <2>1
  <2> QED  BY <2>2, <2>3, <2>4
<1>8. stmt.lhs \in Nullable => Unflagged(isnull)[nullableIndex[stmt.lhs]] = FALSE
  <2> SUFFICES ASSUME stmt.lhs \in Nullable
               PROVE  Unflagged(isnull)[nullableIndex[stmt.lhs]] = FALSE
    OBVIOUS
  <2>1. Unflagged(isnull)[nullableIndex[stmt.lhs]] = kept(nullableIndex[stmt.lhs])
    BY <1>1, <1>5
  <2> QED  BY <2>1
<1> HIDE DEF kept
<1>9. Flagged(isnull) \in [1 .. Cardinality(Nullable) -> BOOLEAN]  BY DEF Flagged
<1>10. ASSUME stmt.lhs \in Nullable
       PROVE  /\ Flagged(isnull)[nullableIndex[stmt.lhs]] = TRUE
              /\ \A a \in Nullable \ {stmt.lhs} :
                    Flagged(isnull)[nullableIndex[a]] = isnull[nullableIndex[a]]
  BY <1>1, <1>2, <1>10 DEF Flagged
<1> QED  BY <1>6, <1>7, <1>8, <1>9, <1>10

(* What UPDATE makes of a record: a record, by its data and by its flags.  *)
LEMMA UpdatedRecord ==
  ASSUME UpdateOK, NEW old \in Tuples, NEW new \in Updated(old)
  PROVE  /\ new \in Tuples
         /\ \A a \in Attrs \ Reached : new.data[a] = old.data[a]
         /\ stmt.rhs = Null /\ stmt.lhs # Unknown =>
                new.data = old.data /\ new.isnull = Flagged(old.isnull)
         /\ stmt.rhs # Null /\ stmt.lhs # Unknown => new.isnull = Unflagged(old.isnull)
         /\ stmt.rhs # Null /\ stmt.lhs # Unknown /\ ~Unfit =>
                new.data[stmt.lhs] = IF stmt.rhs \in Attrs THEN old.data[stmt.rhs] ELSE stmt.rhs
<1>1. /\ stmt.lhs \in Attrs \cup {Unknown}
      /\ stmt.rhs \in Attrs \cup Vals \cup {Null, TooLong, WrongType, Unknown}
      /\ stmt.rhs = Null => stmt.lhs \in Nullable \cup {Unknown}
  BY DEF UpdateOK
<1>2. /\ old = [data |-> old.data, isnull |-> old.isnull] /\ old.data \in [Attrs -> Vals]
      /\ old.isnull \in [1 .. Cardinality(Nullable) -> BOOLEAN]
  BY DEF Tuples
<1>3. CASE stmt.lhs = Unknown
  <2>1. new \in {old} \cup Junk  BY <1>3 DEF Updated
  <2>2. new \in Tuples  BY <2>1, StatementsAssumption
  <2>3. Attrs \ Reached = {}  BY <1>3 DEF Reached
  <2> QED  BY <1>3, <2>2, <2>3
<1>4. CASE stmt.lhs # Unknown /\ stmt.rhs = Null
  <2>1. new = [old EXCEPT !.isnull = Flagged(@)]  BY <1>4 DEF Updated
  <2>2. new = [data |-> old.data, isnull |-> Flagged(old.isnull)]  BY <1>2, <2>1
  <2>3. Flagged(old.isnull) \in [1 .. Cardinality(Nullable) -> BOOLEAN]
    BY <1>1, <1>2, <1>4, FlagsChanged
  <2> QED  BY <1>2, <1>4, <2>2, <2>3 DEF Tuples
<1>5. CASE stmt.lhs # Unknown /\ stmt.rhs # Null
  <2>1. PICK data \in Written(old.data) : new = [data |-> data, isnull |-> Unflagged(old.isnull)]
    BY <1>5 DEF Updated
  <2>2. Unflagged(old.isnull) \in [1 .. Cardinality(Nullable) -> BOOLEAN]
    BY <1>1, <1>2, <1>5, FlagsChanged
  <2>3. new.data = data /\ new.isnull = Unflagged(old.isnull)  BY <2>1
  <2>4. stmt.lhs \in Reached  BY <1>5 DEF Reached
  <2>5. CASE Unfit
    <3>1. data \in [Attrs -> Vals] /\ \A a \in Attrs \ Reached : data[a] = old.data[a]
      BY <2>5 DEF Written
    <3> QED  BY <1>5, <2>1, <2>2, <2>3, <2>5, <3>1 DEF Tuples
  <2>6. CASE ~Unfit
    <3> DEFINE v == IF stmt.rhs \in Attrs THEN old.data[stmt.rhs] ELSE stmt.rhs
    <3>1. stmt.rhs \in Attrs \cup Vals  BY <1>1, <1>5, <2>6 DEF Unfit
    <3>2. v \in Vals  BY <1>2, <3>1
    <3>3. data = [old.data EXCEPT ![stmt.lhs] = v]  BY <2>6 DEF Written
    <3> HIDE DEF v
    <3>4. data \in [Attrs -> Vals] /\ \A a \in Attrs \ Reached : data[a] = old.data[a]
      BY <1>2, <2>4, <3>2, <3>3
    <3>5. data[stmt.lhs] = v  BY <1>1, <1>2, <1>5, <3>3
    <3> QED  BY <1>5, <2>1, <2>2, <2>3, <3>4, <3>5 DEF Tuples, v
  <2> QED  BY <2>5, <2>6
<1> QED  BY <1>3, <1>4, <1>5

(* The entry of one index moves, or is lost.                               *)
LEMMA EntryMoved ==
  ASSUME NEW b \in Indexed, NEW v \in Vals, NEW w \in Vals, NEW rid \in 1 .. MaxRid,
         work.index \in [Indexed -> SUBSET Entries],
         NEW moved, moved = MovedIn(b, v, w, rid)
  PROVE  /\ moved.index \in [Indexed -> SUBSET Entries]
         /\ \A a \in Indexed \ {b} : moved.index[a] = work.index[a]
         /\ moved.done => moved.index[b] = (work.index[b] \ {<<v, rid>>}) \cup {<<w, rid>>}
<1>1. <<w, rid>> \in Entries  BY DEF Entries
<1> DEFINE without == work.index[b] \ {<<v, rid>>}
           refused == <<v, rid>> \notin work.index[b] \/ InsertRefused(without, w, rid)
           entries == IF refused THEN without ELSE without \cup {<<w, rid>>}
<1>2. MovedIn(b, v, w, rid) = [index |-> [work.index EXCEPT ![b] = entries], done |-> ~refused]
  BY DEF MovedIn
<1>3. entries \in SUBSET Entries
  <2>1. without \in SUBSET Entries  OBVIOUS
  <2> HIDE DEF refused, without
  <2> QED  BY <1>1, <2>1
<1>4. ~refused => entries = without \cup {<<w, rid>>}  OBVIOUS
<1> DEFINE index == [work.index EXCEPT ![b] = entries]
<1> HIDE DEF refused, entries
<1>5. /\ index \in [Indexed -> SUBSET Entries] /\ index[b] = entries
      /\ \A a \in Indexed \ {b} : index[a] = work.index[a]
  BY <1>3
<1> HIDE DEF index
<1>6. moved.index = index /\ moved.done = ~refused  BY <1>2 DEF index
<1> QED  BY <1>4, <1>5, <1>6

(* Those of the attribute UPDATE names do, if there is such an attribute.  *)
LEMMA EntriesMoved ==
  ASSUME UpdateOK, NEW old \in Tuples, NEW new \in Tuples, NEW rid \in 1 .. MaxRid,
         work.index \in [Indexed -> SUBSET Entries], NEW moved \in Moved(old, new, rid)
  PROVE  /\ moved.index \in [Indexed -> SUBSET Entries]
         /\ stmt.lhs # Unknown =>
                /\ \A a \in Indexed \ {stmt.lhs} : moved.index[a] = work.index[a]
                /\ stmt.rhs = Null => moved.index = work.index
                /\ moved.done /\ stmt.rhs # Null /\ stmt.lhs \in Indexed =>
                    moved.index[stmt.lhs] = (work.index[stmt.lhs] \ {<<old.data[stmt.lhs], rid>>})
                                            \cup {<<new.data[stmt.lhs], rid>>}
<1>1. CASE moved = NotMoved /\ (stmt.rhs = Null \/ stmt.lhs = Unknown \/ stmt.lhs \notin Indexed)
  BY <1>1 DEF NotMoved
<1>2. CASE stmt.lhs \in Indexed /\ stmt.rhs # Null /\ stmt.lhs # Unknown
  <2> DEFINE v == old.data[stmt.lhs]
             w == new.data[stmt.lhs]
  <2>1. moved = MovedIn(stmt.lhs, v, w, rid)  BY <1>2 DEF Moved
  <2>2. v \in Vals /\ w \in Vals  BY <1>2, IndexedIsAttrs DEF Tuples
  <2> HIDE DEF v, w
  <2>3. /\ moved.index \in [Indexed -> SUBSET Entries]
        /\ \A a \in Indexed \ {stmt.lhs} : moved.index[a] = work.index[a]
        /\ moved.done =>
              moved.index[stmt.lhs] = (work.index[stmt.lhs] \ {<<v, rid>>}) \cup {<<w, rid>>}
    BY <1>2, <2>1, <2>2, EntryMoved
  <2> QED  BY <1>2, <2>3 DEF v, w
<1>3. CASE stmt.lhs = Unknown /\ \E b \in Indexed, v \in Vals, w \in Vals :
                                    moved = MovedIn(b, v, w, rid)
  <2>1. PICK b \in Indexed, v \in Vals, w \in Vals : moved = MovedIn(b, v, w, rid)
    BY <1>3
  <2>2. moved.index \in [Indexed -> SUBSET Entries]  BY <2>1, EntryMoved
  <2> QED  BY <1>3, <2>2
<1>4. \/ moved = NotMoved /\ (stmt.rhs = Null \/ stmt.lhs = Unknown \/ stmt.lhs \notin Indexed)
      \/ stmt.lhs \in Indexed /\ stmt.rhs # Null /\ stmt.lhs # Unknown
      \/ stmt.lhs = Unknown /\ \E b \in Indexed, v \in Vals, w \in Vals :
                                    moved = MovedIn(b, v, w, rid)
  BY DEF Moved
<1> QED  BY <1>1, <1>2, <1>3, <1>4

LEMMA SameChange ==
  ASSUME stmt'.lhs = stmt.lhs, stmt'.rhs = stmt.rhs, stmt'.conds = stmt.conds
  PROVE  \A rec : Changed(rec)' = Changed(rec)
<1>1. Reached' = Reached /\ (Unfit <=> Unfit')  BY DEF Reached, Unfit
<1>2. \A data : Written(data)' = Written(data)  BY <1>1 DEF Written
<1>3. \A isnull : Flagged(isnull)' = Flagged(isnull) /\ Unflagged(isnull)' = Unflagged(isnull)
  BY DEF Flagged, Unflagged
<1>4. \A rec : Updated(rec)' = Updated(rec)  BY <1>2, <1>3 DEF Updated
<1> QED  BY <1>4 DEF Changed

LEMMA UpdateKeeps ==
  ASSUME IInv, UpdateRecord
  PROVE  IInv'
<1>1. stmt.kind = "update" /\ UNCHANGED <<recordCount, happened>>  BY DEF UpdateRecord
<1>2. UpdateOK /\ Modified  BY <1>1, UpdateShape
<1>3. /\ stmt = [kind |-> "update", lhs |-> stmt.lhs, rhs |-> stmt.rhs,
                 conds |-> stmt.conds, at |-> stmt.at]
      /\ stmt.at \in Int
  BY <1>2 DEF UpdateOK
<1> DEFINE old(r) == work.records[r]
           grown(r, new) == With(work.records, r, new)
<1>4. PICK rid \in Ahead :
        /\ IsNext(rid)
        /\ \/ /\ ~Satisfies(old(rid), stmt.conds)
              /\ stmt' = [stmt EXCEPT !.at = rid + 1] /\ UNCHANGED <<disk, work, leaked>>
           \/ /\ Satisfies(old(rid), stmt.conds)
              /\ \E new \in Updated(old(rid)) : \E moved \in Moved(old(rid), new, rid) :
                    \/ /\ moved.done
                       /\ work' = [records |-> grown(rid, new), index |-> moved.index]
                       /\ stmt' = [stmt EXCEPT !.at = rid + 1]
                       /\ UNCHANGED <<disk, leaked>>
                    \/ Fail([work EXCEPT !.index = moved.index], disk)
  BY DEF UpdateRecord
<1>5. /\ rid \in Records(work) /\ rid \in 1 .. MaxRid /\ stmt.at <= rid
      /\ \A r \in Records(work) : (r >= rid + 1 <=> r >= stmt.at /\ r # rid)
  BY <1>3, <1>4, NextPlace
<1>6. /\ work = [records |-> work.records, index |-> work.index]
      /\ RecordsOK(work.records) /\ work.index \in [Indexed -> SUBSET Entries]
  BY DEF IInv, Typed, FilesOK
<1>7. old(rid) \in Tuples  BY <1>5, <1>6 DEF RecordsOK, Records
<1>8. \A r \in Records(work) : r \in Int
  BY DEF IInv, Typed, FilesOK, RecordsOK, Records
<1>9. \A r \in Records(work) : r < rid + 1 <=> r < stmt.at \/ r = rid
  BY <1>3, <1>5, <1>8
<1>10. /\ Records(work) = Records(disk)
       /\ \A r \in Records(work) : work.records[r] \in
            IF r < stmt.at THEN Changed(disk.records[r]) ELSE {disk.records[r]}
  BY <1>2 DEF Modified
<1>11. old(rid) = disk.records[rid]
  <2>1. ~(rid < stmt.at)  BY <1>3, <1>5
  <2> QED  BY <1>5, <1>10, <2>1
<1>12. ASSUME stmt' = [stmt EXCEPT !.at = rid + 1]
       PROVE  /\ UpdateOK' /\ stmt'.at = rid + 1 /\ stmt'.lhs = stmt.lhs
              /\ Overruns' = Overruns /\ \A rec : Changed(rec)' = Changed(rec)
  <2>1. PICK x, y, c, p : stmt = [kind |-> "update", lhs |-> x, rhs |-> y, conds |-> c, at |-> p]
    BY <1>3
  <2>2. stmt' = [kind |-> "update", lhs |-> x, rhs |-> y, conds |-> c, at |-> rid + 1]
    BY <1>12, <2>1
  <2>3. /\ stmt'.kind = "update" /\ stmt'.lhs = stmt.lhs /\ stmt'.rhs = stmt.rhs
        /\ stmt'.conds = stmt.conds /\ stmt'.at = rid + 1
        /\ stmt' = [kind |-> "update", lhs |-> stmt'.lhs, rhs |-> stmt'.rhs,
                    conds |-> stmt'.conds, at |-> stmt'.at]
    BY <2>1, <2>2
  <2>4. UpdateOK'  BY <1>2, <1>5, <2>3 DEF UpdateOK
  <2>5. \A rec : Changed(rec)' = Changed(rec)  BY <2>3, SameChange
  <2>6. Overruns' = Overruns  BY <1>1, <2>3 DEF Overruns, Reached, Unfit
  <2> QED  BY <2>3, <2>4, <2>5, <2>6
<1>13. ASSUME ~Satisfies(old(rid), stmt.conds),
              stmt' = [stmt EXCEPT !.at = rid + 1], UNCHANGED <<disk, work, leaked>>
       PROVE  IInv'
  <2>1. /\ UpdateOK' /\ stmt'.at = rid + 1 /\ Overruns' = Overruns
        /\ \A rec : Changed(rec)' = Changed(rec)
    BY <1>12, <1>13
  <2>2. Changed(disk.records[rid]) = {disk.records[rid]}  BY <1>11, <1>13 DEF Changed
  <2>3. Modified'
    <3>1. \A r \in Records(work) : work.records[r] \in
            IF r < rid + 1 THEN Changed(disk.records[r]) ELSE {disk.records[r]}
      BY <1>9, <1>10, <1>11, <2>2
    <3> QED  BY <1>10, <1>13, <2>1, <3>1 DEF Modified, Records
  <2>4. stmt'.kind = "update"  BY <2>1 DEF UpdateOK
  <2>5. Typed'  BY <1>1, <1>13, <2>1 DEF IInv, Typed, StmtOK
  <2>6. Progress'  BY <1>1, <2>3, <2>4 DEF IInv, Progress
  <2>7. AllExact' /\ AllCovered'  BY <1>1, <1>13, <2>1 DEF IInv, AllExact, AllCovered
  <2>8. KeyUnique' /\ CountExact'  BY <1>1, <1>13, SameDisk
  <2> QED  BY <2>5, <2>6, <2>7, <2>8 DEF IInv
<1>14. ASSUME Satisfies(old(rid), stmt.conds),
              NEW new \in Updated(old(rid)), NEW moved \in Moved(old(rid), new, rid),
              \/ /\ moved.done /\ work' = [records |-> grown(rid, new), index |-> moved.index]
                 /\ stmt' = [stmt EXCEPT !.at = rid + 1] /\ UNCHANGED <<disk, leaked>>
              \/ Fail([work EXCEPT !.index = moved.index], disk)
       PROVE  IInv'
  <2>1. /\ new \in Tuples
        /\ \A a \in Attrs \ Reached : new.data[a] = old(rid).data[a]
        /\ stmt.rhs = Null /\ stmt.lhs # Unknown => new.data = old(rid).data
    BY <1>2, <1>7, UpdatedRecord
  <2>2. /\ moved.index \in [Indexed -> SUBSET Entries]
        /\ stmt.lhs # Unknown =>
            /\ \A a \in Indexed \ {stmt.lhs} : moved.index[a] = work.index[a]
            /\ stmt.rhs = Null => moved.index = work.index
            /\ moved.done /\ stmt.rhs # Null /\ stmt.lhs \in Indexed =>
                moved.index[stmt.lhs]
                    = (work.index[stmt.lhs] \ {<<old(rid).data[stmt.lhs], rid>>})
                      \cup {<<new.data[stmt.lhs], rid>>}
    BY <1>2, <1>5, <1>6, <1>7, <2>1, EntriesMoved
  <2> DEFINE records == grown(rid, new)
             files == [records |-> records, index |-> moved.index]
  <2>3. /\ DOMAIN records = Records(work) /\ records[rid] = new
        /\ \A r \in Records(work) : r # rid => records[r] = work.records[r]
        /\ RecordsOK(records)
    <3>1. /\ DOMAIN records = Records(work) \cup {rid} /\ records[rid] = new
          /\ \A r \in Records(work) : r # rid => records[r] = work.records[r]
          /\ RecordsOK(records)
      BY <1>5, <1>6, <2>1, WithRecord DEF Records
    <3> QED  BY <1>5, <3>1
  <2>4. ASSUME Fail([work EXCEPT !.index = moved.index], disk)  PROVE IInv'
    <3>1. [work EXCEPT !.index = moved.index]
              = [records |-> work.records, index |-> moved.index]
      BY <1>6
    <3>2. FilesOK([records |-> work.records, index |-> moved.index])
      BY <1>6, <2>2 DEF FilesOK
    <3> QED  BY <1>1, <2>4, <3>1, <3>2, FailKeeps
  <2>5. ASSUME moved.done, work' = files, stmt' = [stmt EXCEPT !.at = rid + 1],
               UNCHANGED <<disk, leaked>>
        PROVE  IInv'
    <3>1. /\ UpdateOK' /\ stmt'.at = rid + 1 /\ Overruns' = Overruns
          /\ \A rec : Changed(rec)' = Changed(rec)
      BY <1>12, <2>5
    <3>2. new \in Changed(disk.records[rid])  BY <1>11, <1>14 DEF Changed
    <3>3. Modified'
      <4>1. \A r \in Records(work) : records[r] \in
              IF r < rid + 1 THEN Changed(disk.records[r]) ELSE {disk.records[r]}
        BY <1>9, <1>10, <2>3, <3>2
      <4>2. work'.records = records /\ disk' = disk  BY <2>5
      <4> HIDE DEF records
      <4> QED  BY <1>10, <2>3, <3>1, <4>1, <4>2 DEF Modified, Records
    <3>4. stmt'.kind = "update"  BY <3>1 DEF UpdateOK
    <3>5. FilesOK(files)  BY <2>2, <2>3 DEF FilesOK
    <3>6. Typed'  BY <1>1, <2>5, <3>1, <3>5 DEF IInv, Typed, StmtOK
    <3>7. Progress'  BY <1>1, <3>3, <3>4 DEF IInv, Progress
    <3>8. \A a \in Indexed :
              EntriesOf(records, a) = (EntriesOf(work.records, a) \ {<<old(rid).data[a], rid>>})
                                      \cup {<<new.data[a], rid>>}
      BY <1>5, <1>6, <2>1, EntriesChanged, IndexedIsAttrs DEF Records
    <3>9. \A a \in Indexed : <<old(rid).data[a], rid>> \in EntriesOf(work.records, a)
      BY <1>5 DEF EntriesOf, Records
    <3> HIDE DEF old, grown, records
    <3>10. ASSUME ~Overruns
           PROVE  \A a \in Indexed :
              \/ /\ EntriesOf(records, a) = EntriesOf(work.records, a)
                 /\ moved.index[a] = work.index[a]
              \/ /\ EntriesOf(records, a)
                        = (EntriesOf(work.records, a) \ {<<old(rid).data[a], rid>>})
                          \cup {<<new.data[a], rid>>}
                 /\ moved.index[a] = (work.index[a] \ {<<old(rid).data[a], rid>>})
                                     \cup {<<new.data[a], rid>>}
      <4>1. Reached = {stmt.lhs}  BY <1>1, <3>10 DEF Overruns
      <4> TAKE a \in Indexed
      <4>2. a \in Attrs  BY IndexedIsAttrs
      <4>3. stmt.lhs # Unknown
        <5>1. Unknown \notin Attrs  BY StatementsAssumption DEF Attrs
        <5> QED  BY <4>1, <4>2, <5>1 DEF Reached
      <4>4. CASE a # stmt.lhs \/ stmt.rhs = Null
        <5>1. new.data[a] = old(rid).data[a]  BY <2>1, <4>1, <4>2, <4>3, <4>4
        <5>2. EntriesOf(records, a) = EntriesOf(work.records, a)  BY <3>8, <3>9, <5>1
        <5>3. moved.index[a] = work.index[a]  BY <2>2, <4>3, <4>4
        <5> QED  BY <5>2, <5>3
      <4>5. CASE a = stmt.lhs /\ stmt.rhs # Null
        BY <2>2, <2>5, <3>8, <4>3, <4>5
      <4> QED  BY <4>4, <4>5
    <3>11. ~Overruns => (Exact(work) => Exact(files)) /\ (Covered(work) => Covered(files))
      <4>1. files.records = records /\ files.index = moved.index  OBVIOUS
      <4> HIDE DEF files
      <4> QED  BY <3>10, <4>1 DEF Exact, Covered
    <3> HIDE DEF files
    <3>12. AllExact' /\ AllCovered'
      BY <1>1, <2>5, <3>1, <3>11 DEF IInv, AllExact, AllCovered
    <3>13. KeyUnique' /\ CountExact'  BY <1>1, <2>5, SameDisk
    <3> QED  BY <3>6, <3>7, <3>12, <3>13 DEF IInv
  <2> QED  BY <1>14, <2>4, <2>5
<1> QED  BY <1>4, <1>13, <1>14

LEMMA EndDeleteKeeps ==
  ASSUME IInv, EndDelete
  PROVE  IInv'
<1>1. /\ stmt.kind = "delete" /\ disk' = work /\ recordCount' = recordCount - stmt.cnt
      /\ stmt' = NoStatement /\ UNCHANGED <<work, leaked, happened>>
  BY DEF EndDelete
<1>2. DeleteOK /\ Deleted  BY <1>1, DeleteShape
<1>3. stmt.cnt \in Int /\ recordCount \in Int  BY <1>2 DEF DeleteOK, IInv, Typed
<1>4. Typed'  BY <1>1, <1>3 DEF IInv, Typed, StmtOK
<1>5. Progress'  BY <1>1 DEF Progress, NoStatement
<1>6. AllExact' /\ AllCovered'  BY <1>1 DEF IInv, AllExact, AllCovered, Overruns
<1>7. /\ Records(work) \subseteq Records(disk)
      /\ \A r \in Records(work) : work.records[r] = disk.records[r]
      /\ Cardinality(Records(work)) + stmt.cnt = Cardinality(Records(disk))
  BY <1>2 DEF Deleted
<1>8. KeyUnique'
  <2> SUFFICES ASSUME Pk \in Attrs, {"unchecked", "written"} \cap happened = {},
                      NEW r \in Records(work), NEW q \in Records(work),
                      work.records[r].data[Pk] = work.records[q].data[Pk]
               PROVE  r = q
    BY <1>1 DEF KeyUnique, Records
  <2> QED  BY <1>7 DEF IInv, KeyUnique
<1>9. CountExact'
  <2>1. Records(work) \in SUBSET (1 .. MaxRid)
    BY DEF IInv, Typed, FilesOK, RecordsOK, Records
  <2>2. Cardinality(Records(work)) \in Nat  BY <2>1, CountPlaces
  <2>3. Records(disk)' = Records(work)  BY <1>1 DEF Records
  <2> QED  BY <1>1, <1>3, <1>7, <2>2, <2>3 DEF IInv, CountExact
<1> QED  BY <1>4, <1>5, <1>6, <1>8, <1>9 DEF IInv

LEMMA EndUpdateKeeps ==
  ASSUME IInv, EndUpdate
  PROVE  IInv'
<1>1. /\ stmt.kind = "update" /\ disk' = work /\ stmt' = NoStatement
      /\ happened' = happened \cup (IF Pk \in Reached THEN {"unchecked"} ELSE {})
                              \cup (IF Reached = {stmt.lhs} THEN {} ELSE {"overrun"})
      /\ UNCHANGED <<recordCount, work, leaked>>
  BY DEF EndUpdate
<1>2. UpdateOK /\ Modified  BY <1>1, UpdateShape
<1>3. /\ happened \subseteq happened' /\ happened' \subseteq happened \cup {"unchecked", "overrun"}
      /\ "overrun" \notin happened' => ~Overruns
  BY <1>1 DEF Overruns
<1>4. Typed'  BY <1>1, <1>3 DEF IInv, Typed, StmtOK
<1>5. Progress'  BY <1>1 DEF Progress, NoStatement
<1>6. AllExact' /\ AllCovered'  BY <1>1, <1>3 DEF IInv, AllExact, AllCovered
<1>7. /\ Records(work) = Records(disk)
      /\ \A r \in Records(work) : work.records[r] \in
            IF r < stmt.at THEN Changed(disk.records[r]) ELSE {disk.records[r]}
  BY <1>2 DEF Modified
<1>8. KeyUnique'
  <2> SUFFICES ASSUME Pk \in Attrs, {"unchecked", "written"} \cap happened' = {},
                      NEW r \in Records(work), NEW q \in Records(work),
                      work.records[r].data[Pk] = work.records[q].data[Pk]
               PROVE  r = q
    BY <1>1 DEF KeyUnique, Records
  <2>1. Pk \notin Reached /\ {"unchecked", "written"} \cap happened = {}  BY <1>1
  <2>2. \A s \in Records(disk) : disk.records[s] \in Tuples
    BY DEF IInv, Typed, FilesOK, RecordsOK, Records
  <2>3. \A s \in Records(disk) : \A new \in Changed(disk.records[s]) :
            new.data[Pk] = disk.records[s].data[Pk]
    BY <1>2, <2>1, <2>2, UpdatedRecord DEF Changed
  <2>4. \A s \in Records(disk) : work.records[s].data[Pk] = disk.records[s].data[Pk]
    BY <1>7, <2>3
  <2> QED  BY <1>7, <2>1, <2>4 DEF IInv, KeyUnique
<1>9. CountExact'
  <2>1. Records(disk)' = Records(disk)  BY <1>1, <1>7 DEF Records
  <2> QED  BY <1>1, <1>3, <2>1 DEF IInv, CountExact
<1> QED  BY <1>4, <1>5, <1>6, <1>8, <1>9 DEF IInv

----------------------------------------------------------------------------
(* LOAD, a line and the end of the file.                                   *)
LEMMA LoadShape ==
  ASSUME IInv, stmt.kind = "load"
  PROVE  LoadOK /\ Loaded
<1>1. LoadOK  BY DEF IInv, Typed, StmtOK, NoStatement, InsertOK, DeleteOK, UpdateOK
<1> QED  BY <1>1 DEF IInv, Progress

LEMMA LoadKeeps ==
  ASSUME IInv, LoadLine
  PROVE  IInv'
<1>1. stmt.kind = "load" /\ stmt.todo # <<>> /\ UNCHANGED <<recordCount, happened>>
  BY DEF LoadLine
<1>2. LoadOK /\ Loaded  BY <1>1, LoadShape
<1>3. /\ stmt = [kind |-> "load", todo |-> stmt.todo, cnt |-> stmt.cnt]
      /\ stmt.cnt \in Int /\ stmt.todo \in Seq([Attrs -> Vals \cup {Null, TooLong}])
  BY <1>2 DEF LoadOK, Lines
<1> DEFINE line == Head(stmt.todo)
           isnull == [i \in 1 .. Cardinality(Nullable) |->
                        \E a \in Nullable : nullableIndex[a] = i /\ line[a] = Null]
           rec == [data |-> Bytes(line), isnull |-> isnull]
           grown(r) == With(work.records, r, rec)
           more(r) == AddEntries(work.index, Bytes(line), r)
           after(r) == [records |-> grown(r), index |-> more(r).index]
<1>4. line \in [Attrs -> Vals \cup {Null, TooLong}]
      /\ Tail(stmt.todo) \in Seq([Attrs -> Vals \cup {Null, TooLong}])
  BY <1>1, <1>3
<1>5. FilesOK(work) /\ RecordsOK(work.records) /\ work.index \in [Indexed -> SUBSET Entries]
  BY DEF IInv, Typed, FilesOK
<1>6. CASE Malformed(line)
  <2>1. Fail(work, disk)  BY <1>6 DEF LoadLine
  <2> QED  BY <1>1, <1>5, <2>1, FailKeeps
<1>7. CASE ~Malformed(line)
  <2>1. PICK rid \in (1 .. MaxRid) \ Records(work) :
          \/ /\ more(rid).done /\ work' = after(rid)
             /\ stmt' = [stmt EXCEPT !.todo = Tail(@), !.cnt = @ + 1]
             /\ UNCHANGED <<disk, leaked>>
          \/ Fail(after(rid), disk)
    BY <1>7 DEF LoadLine
  <2>2. \A a \in Attrs : line[a] \notin {TooLong, WrongType}
    <3>1. WrongType \notin Vals \cup {Null, TooLong}
      BY StatementsAssumption
    <3> QED  BY <1>4, <1>7, <3>1 DEF Malformed
  <2> DEFINE null(i) == \E a \in Nullable : nullableIndex[a] = i /\ line[a] = Null
  <2>3. isnull \in [1 .. Cardinality(Nullable) -> BOOLEAN]
    <3>1. \A i : null(i) \in BOOLEAN  OBVIOUS
    <3>2. isnull = [i \in 1 .. Cardinality(Nullable) |-> null(i)]  OBVIOUS
    <3> HIDE DEF null, isnull
    <3> QED  BY <3>1, <3>2
  <2>4. line \in [Attrs -> Vals \cup {Null, TooLong, WrongType}]  BY <1>4
  <2> HIDE DEF line, isnull
  <2>5. rec \in Tuples /\ Bytes(line) \in [Attrs -> Vals]
    BY <2>2, <2>3, <2>4, TypeOfValues, BytesAreValues
  <2> DEFINE records == grown(rid)
             added == more(rid)
             files == [records |-> records, index |-> added.index]
  <2>6. DOMAIN records = Records(work) \cup {rid} /\ RecordsOK(records)
    BY <1>5, <2>5, WithRecord DEF Records
  <2>7. /\ added.index \in [Indexed -> SUBSET Entries]
        /\ added.done => \A a \in Indexed :
               added.index[a] = work.index[a] \cup {<<rec.data[a], rid>>}
    BY <1>5, <2>5, EntriesAdded
  <2>8. \A a \in Indexed :
            EntriesOf(records, a) = EntriesOf(work.records, a) \cup {<<rec.data[a], rid>>}
    BY <1>5, <2>5, EntriesWith, IndexedIsAttrs DEF Records
  <2>9. FilesOK(files)  BY <2>6, <2>7 DEF FilesOK
  <2>10. \/ /\ added.done /\ work' = files
            /\ stmt' = [stmt EXCEPT !.todo = Tail(@), !.cnt = @ + 1]
            /\ UNCHANGED <<disk, leaked>>
         \/ Fail(files, disk)
    BY <2>1
  <2> HIDE DEF rec, grown, more, after, records, added
  <2>11. ASSUME added.done, work' = files,
                stmt' = [stmt EXCEPT !.todo = Tail(@), !.cnt = @ + 1], UNCHANGED <<disk, leaked>>
         PROVE  IInv'
    <3>1. LoadOK' /\ stmt'.cnt = stmt.cnt + 1
      <4> DEFINE todo == Tail(stmt.todo)
                 cnt == stmt.cnt + 1
      <4>1. PICK l, n : stmt = [kind |-> "load", todo |-> l, cnt |-> n]  BY <1>3
      <4>2. stmt' = [stmt EXCEPT !.todo = todo, !.cnt = cnt]  BY <2>11
      <4>3. cnt \in Int /\ todo \in Seq([Attrs -> Vals \cup {Null, TooLong}])  BY <1>3, <1>4
      <4> HIDE DEF todo, cnt
      <4>4. stmt' = [kind |-> "load", todo |-> todo, cnt |-> cnt]  BY <4>1, <4>2
      <4>5. stmt'.kind = "load" /\ stmt'.todo = todo /\ stmt'.cnt = cnt  BY <4>4
      <4>6. LoadOK'  BY <4>3, <4>4, <4>5 DEF LoadOK, Lines
      <4> QED  BY <4>5, <4>6 DEF cnt
    <3>2. Loaded'
      <4>1. Records(work) \in SUBSET (1 .. MaxRid) /\ Records(disk) \in SUBSET (1 .. MaxRid)
        BY DEF IInv, Typed, FilesOK, RecordsOK, Records
      <4>2. Cardinality(Records(work) \cup {rid}) = Cardinality(Records(work)) + 1
        BY <4>1, CountPlaces
      <4>3. Cardinality(Records(disk)) \in Nat  BY <4>1, CountPlaces
      <4>4. Records(work)' = Records(work) \cup {rid} /\ Records(disk)' = Records(disk)
        BY <2>6, <2>11 DEF Records
      <4>5. Cardinality(Records(work)) = Cardinality(Records(disk)) + stmt.cnt
        BY <1>2 DEF Loaded
      <4> QED  BY <1>3, <3>1, <4>2, <4>3, <4>4, <4>5 DEF Loaded
    <3>3. Typed'  BY <1>1, <2>9, <2>11, <3>1 DEF IInv, Typed, StmtOK
    <3>4. Progress'  BY <1>1, <3>1, <3>2 DEF IInv, Progress, LoadOK
    <3>5. (Exact(work) => Exact(files)) /\ (Covered(work) => Covered(files))
      <4>1. files.records = records /\ files.index = added.index  OBVIOUS
      <4> HIDE DEF files
      <4> QED  BY <2>7, <2>8, <2>11, <4>1, ZenonT(30) DEF Exact, Covered
    <3> HIDE DEF files
    <3>6. AllExact' /\ AllCovered'  BY <1>1, <2>11, <3>5 DEF IInv, AllExact, AllCovered, Overruns
    <3>7. KeyUnique' /\ CountExact'  BY <1>1, <2>11, SameDisk
    <3> QED  BY <3>3, <3>4, <3>6, <3>7 DEF IInv
  <2>12. ASSUME Fail(files, disk)  PROVE IInv'  BY <1>1, <2>9, <2>12, FailKeeps
  <2> QED  BY <2>10, <2>11, <2>12
<1> QED  BY <1>6, <1>7

LEMMA EndLoadKeeps ==
  ASSUME IInv, EndLoad
  PROVE  IInv'
<1>1. /\ stmt.kind = "load" /\ disk' = work /\ recordCount' = stmt.cnt /\ stmt' = NoStatement
      /\ happened' = happened \cup {"unchecked"}
                     \cup (IF recordCount = 0 THEN {} ELSE {"overwritten"})
      /\ UNCHANGED <<work, leaked>>
  BY DEF EndLoad
<1>2. LoadOK /\ Loaded  BY <1>1, LoadShape
<1>3. stmt.cnt \in Int  BY <1>2 DEF LoadOK
<1>4. /\ happened \subseteq happened' /\ "unchecked" \in happened'
      /\ happened' \subseteq happened \cup {"unchecked", "overwritten"}
      /\ "overwritten" \notin happened' => recordCount = 0
  BY <1>1
<1>5. Typed'  BY <1>1, <1>3, <1>4 DEF IInv, Typed, StmtOK
<1>6. Progress'  BY <1>1 DEF Progress, NoStatement
<1>7. AllExact' /\ AllCovered'  BY <1>1, <1>4 DEF IInv, AllExact, AllCovered, Overruns
<1>8. KeyUnique'  BY <1>4 DEF KeyUnique
<1>9. CountExact'
  <2> SUFFICES ASSUME {"overwritten", "written"} \cap happened' = {}
               PROVE  recordCount' = Cardinality(Records(work))
    BY <1>1 DEF CountExact, Records
  <2>1. recordCount = 0 /\ {"overwritten", "written"} \cap happened = {}  BY <1>4
  <2>2. Cardinality(Records(disk)) = 0  BY <2>1 DEF IInv, CountExact
  <2>3. Cardinality(Records(work)) = Cardinality(Records(disk)) + stmt.cnt
    BY <1>2 DEF Loaded
  <2> QED  BY <1>1, <1>3, <2>2, <2>3
<1> QED  BY <1>5, <1>6, <1>7, <1>8, <1>9 DEF IInv

----------------------------------------------------------------------------
(* What a failed statement left reaches the disk; and a new relation.      *)
LEMMA WriteBackKeeps ==
  ASSUME IInv, WriteBack
  PROVE  IInv'
<1>1. PICK image \in leaked :
        /\ disk' = IF image[1] = "records" THEN [disk EXCEPT !.records = image[2]]
                   ELSE [disk EXCEPT !.index[image[1]] = image[2]]
        /\ leaked' = leaked \ {image}
  BY DEF WriteBack
<1>2. /\ stmt = NoStatement /\ stmt' = stmt /\ work' = disk' /\ recordCount' = recordCount
      /\ happened' = happened \cup {"written"}
  BY DEF WriteBack
<1>3. ImageOK(image)  BY DEF IInv, Typed
<1>4. /\ disk = [records |-> disk.records, index |-> disk.index]
      /\ RecordsOK(disk.records) /\ disk.index \in [Indexed -> SUBSET Entries]
  BY DEF IInv, Typed, FilesOK
<1>5. FilesOK(disk')
  <2>1. CASE image[1] = "records"
    <3>1. disk' = [records |-> image[2], index |-> disk.index]  BY <1>1, <1>4, <2>1
    <3> QED  BY <1>3, <1>4, <2>1, <3>1 DEF FilesOK, ImageOK
  <2>2. CASE image[1] # "records"
    <3> DEFINE index == [disk.index EXCEPT ![image[1]] = image[2]]
    <3>1. disk' = [records |-> disk.records, index |-> index]  BY <1>1, <1>4, <2>2
    <3>2. index \in [Indexed -> SUBSET Entries]  BY <1>3, <1>4, <2>2 DEF ImageOK
    <3> HIDE DEF index
    <3> QED  BY <1>4, <3>1, <3>2 DEF FilesOK
  <2> QED  BY <2>1, <2>2
<1>6. Typed'  BY <1>1, <1>2, <1>5 DEF IInv, Typed, StmtOK
<1>7. Progress'  BY <1>2 DEF Progress, NoStatement
<1>8. AllExact' /\ AllCovered' /\ KeyUnique' /\ CountExact'
  BY <1>2 DEF AllExact, AllCovered, KeyUnique, CountExact
<1> QED  BY <1>6, <1>7, <1>8 DEF IInv

LEMMA NothingThere ==
  /\ FilesOK(Empty) /\ Exact(Empty) /\ Covered(Empty) /\ Records(Empty) = {}
<1>1. DOMAIN <<>> = {} /\ <<>> \in [{} -> Tuples]  OBVIOUS
<1>2. RecordsOK(Empty.records) /\ Records(Empty) = {}
  BY <1>1 DEF Empty, RecordsOK, Records
<1>3. \A a \in Indexed : Empty.index[a] = {} /\ EntriesOf(Empty.records, a) = {}
  BY <1>2 DEF Empty, EntriesOf, Records
<1>4. FilesOK(Empty)  BY <1>2 DEF FilesOK, Empty
<1> QED  BY <1>2, <1>3, <1>4 DEF Exact, Covered

LEMMA EmptyRelation ==
  ASSUME disk = Empty, work = Empty, recordCount = 0, leaked = {}, happened = {},
         stmt = NoStatement
  PROVE  IInv
<1>1. Typed  BY NothingThere DEF Typed, StmtOK
<1>2. Progress  BY DEF Progress, NoStatement
<1>3. AllExact /\ AllCovered  BY NothingThere DEF AllExact, AllCovered
<1>4. KeyUnique  BY NothingThere DEF KeyUnique
<1>5. CountExact  BY NothingThere, FS_EmptySet DEF CountExact
<1> QED  BY <1>1, <1>2, <1>3, <1>4, <1>5 DEF IInv

LEMMA RecreateKeeps ==
  ASSUME IInv, Recreate
  PROVE  IInv'
<1>1. /\ stmt' = NoStatement /\ disk' = Empty /\ work' = Empty /\ recordCount' = 0
      /\ leaked' = {} /\ happened' = {}
  BY DEF Recreate
<1>2. Typed'  BY <1>1, NothingThere DEF Typed, StmtOK
<1>3. Progress'  BY <1>1 DEF Progress, NoStatement
<1>4. AllExact' /\ AllCovered'  BY <1>1, NothingThere DEF AllExact, AllCovered
<1>5. KeyUnique'  BY <1>1, NothingThere DEF KeyUnique
<1>6. CountExact'  BY <1>1, NothingThere, FS_EmptySet DEF CountExact
<1> QED  BY <1>2, <1>3, <1>4, <1>5, <1>6 DEF IInv

----------------------------------------------------------------------------
LEMMA StepKeepsInv == IInv /\ [Next]_vars => IInv'
<1> SUFFICES ASSUME IInv, [Next]_vars  PROVE IInv'
  OBVIOUS
<1>1. CASE UNCHANGED vars
  <2>1. Typed'
    <3>1. StmtOK'
      BY <1>1 DEF IInv, Typed, StmtOK, InsertOK, DeleteOK, UpdateOK, LoadOK, vars
    <3> QED  BY <1>1, <3>1 DEF IInv, Typed, vars
  <2>2. Progress'
    <3>1. disk' = disk /\ work' = work /\ stmt' = stmt  BY <1>1 DEF vars
    <3>2. \A rec : Changed(rec)' = Changed(rec)  BY <3>1, SameChange
    <3>3. (Deleted => Deleted') /\ (Loaded => Loaded')  BY <3>1 DEF Deleted, Loaded, Records
    <3>4. Modified => Modified'  BY <3>1, <3>2 DEF Modified, Records
    <3>5. happened' = happened  BY <1>1 DEF vars
    <3> QED  BY <3>1, <3>3, <3>4, <3>5 DEF IInv, Progress
  <2>3. AllExact' /\ AllCovered'
    BY <1>1 DEF IInv, AllExact, AllCovered, Overruns, Reached, Unfit, vars
  <2>4. KeyUnique' /\ CountExact'  BY <1>1, SameDisk DEF vars
  <2> QED  BY <2>1, <2>2, <2>3, <2>4 DEF IInv
<1>2. CASE \E s \in Statements : Begin(s)  BY <1>2, BeginKeeps
<1>3. CASE InsertRecord  BY <1>3, InsertKeeps
<1>4. CASE EndInsert  BY <1>4, EndInsertKeeps
<1>5. CASE DeleteRecord  BY <1>5, DeleteKeeps
<1>6. CASE EndDelete  BY <1>6, EndDeleteKeeps
<1>7. CASE UpdateRecord  BY <1>7, UpdateKeeps
<1>8. CASE EndUpdate  BY <1>8, EndUpdateKeeps
<1>9. CASE LoadLine  BY <1>9, LoadKeeps
<1>10. CASE EndLoad  BY <1>10, EndLoadKeeps
<1>11. CASE WriteBack  BY <1>11, WriteBackKeeps
<1>12. CASE Recreate  BY <1>12, RecreateKeeps
<1> QED
  BY <1>1, <1>2, <1>3, <1>4, <1>5, <1>6, <1>7, <1>8, <1>9, <1>10, <1>11, <1>12 DEF Next

(* The inductive invariant: besides what the theorems below say of the     *)
(* disk, that the files of a statement at work are as good, and how they   *)
(* differ from those on the disk.                                          *)
THEOREM IInvHolds == Spec => []IInv
<1>1. Init => IInv  BY EmptyRelation DEF Init
<1> QED  BY <1>1, StepKeepsInv, PTL DEF Spec

(* The files keep their types, and on the disk the indexes have just the   *)
(* entries of the records, except after an index has refused a record that *)
(* others had taken (ql_manager.cc:642-650) or the buffer pool has written *)
(* what a failed statement left.                                           *)
THEOREM IndexesAreExact == Spec => []RelationInv
<1>1. IInv => RelationInv
  <2> SUFFICES ASSUME IInv PROVE RelationInv  OBVIOUS
  <2>1. \A files \in {disk, work} : FilesOK(files)  BY DEF IInv, Typed
  <2>2. TypeOK
    <3>1. \A files \in {disk, work} :
            /\ Records(files) \subseteq 1 .. MaxRid
            /\ \A rid \in Records(files) : files.records[rid] \in Tuples
            /\ files.index \in [Indexed -> SUBSET (Vals \X (1 .. MaxRid))]
      BY <2>1 DEF FilesOK, RecordsOK, Records, Entries
    <3>2. stmt.kind \in {"none", "insert", "delete", "update", "load"}
      BY DEF IInv, Typed, StmtOK, NoStatement, InsertOK, DeleteOK, UpdateOK, LoadOK
    <3> QED  BY <3>1, <3>2 DEF TypeOK, IInv, Typed
  <2>3. IndexesExact  BY DEF IInv, AllExact, Exact, IndexesExact
  <2> QED  BY <2>2, <2>3 DEF RelationInv
<1> QED  BY <1>1, IInvHolds, PTL

(* Even after a record has been refused by one of its indexes no record on *)
(* the disk is missing from an index, whichever statements fail where.     *)
THEOREM NoRecordUnindexed == Spec => []IndexesCover
<1>1. IInv => IndexesCover  BY DEF IInv, AllCovered, Covered, IndexesCover
<1> QED  BY <1>1, IInvHolds, PTL

(* No two records have the same key, although the duplicate is looked for  *)
(* in the index of the key alone (ql_manager.cc:582-599).                  *)
THEOREM KeysStayUnique == Spec => []KeyUnique
<1>1. IInv => KeyUnique  BY DEF IInv
<1> QED  BY <1>1, IInvHolds, PTL

(* relcat's recordCount is the number of records, through all failures,    *)
(* unless LOAD has overwritten it (sm_manager.cc:807).                     *)
THEOREM CountStaysExact == Spec => []CountExact
<1>1. IInv => CountExact  BY DEF IInv
<1> QED  BY <1>1, IInvHolds, PTL

----------------------------------------------------------------------------
(* What the statements do, where the numbers of the NULL flags in the      *)
(* catalog are those INSERT and the printer count.  GetDataAttrInfo gives  *)
(* others after a table has been dropped (NullFlagsAgree in Session).      *)
NumbersAgree == \A a \in Nullable : nullableIndex[a] = Counted(a)

LEMMA ShownIsOperand ==
  ASSUME NumbersAgree, NEW rec, NEW x
  PROVE  Shown(rec, x) = Operand(rec, x)
  BY DEF NumbersAgree, Shown, Operand

LEMMA OperandType ==
  ASSUME NEW rec \in Tuples, NEW x \in Attrs \cup Vals \cup {Null}
  PROVE  Operand(rec, x) \in Vals \cup {Null}
  BY DEF Operand, Tuples

LEMMA ComparisonsAgree ==
  ASSUME NEW op \in Operators, NEW l \in Vals \cup {Null}, NEW r \in Vals \cup {Null}
  PROVE  checkSatisfy(op, l, r) <=>
            \/ op = "ISNULL" /\ l = Null
            \/ op = "NOTNULL" /\ l # Null
            \/ /\ Null \notin {l, r}
               /\ \/ op \in {"EQ", "LE", "GE"} /\ l = r
                  \/ op \in {"LT", "LE", "NE"} /\ l < r
                  \/ op \in {"GT", "GE", "NE"} /\ l > r
<1>1. Vals \subseteq Int  BY StatementsAssumption
<1>2. CASE Null \in {l, r}
  BY <1>2 DEF Operators, checkSatisfy
<1>3. CASE Null \notin {l, r}
  <2>1. l \in Int /\ r \in Int  BY <1>1, <1>3
  <2>2. CASE op \in {"ISNULL", "NOTNULL"}  BY <1>3, <2>2 DEF checkSatisfy
  <2>3. CASE op \in {"EQ", "NE"}
    <3>1. checkSatisfy(op, l, r) <=> IF op = "EQ" THEN l = r ELSE l # r
      BY <1>3, <2>3 DEF checkSatisfy, Compare
    <3> QED  BY <1>3, <2>1, <2>3, <3>1
  <2>4. CASE op \in {"LT", "LE"}
    <3>1. checkSatisfy(op, l, r) <=> IF op = "LT" THEN l < r ELSE l <= r
      BY <1>3, <2>4 DEF checkSatisfy, Compare
    <3> QED  BY <1>3, <2>1, <2>4, <3>1
  <2>5. CASE op \in {"GT", "GE"}
    <3>1. checkSatisfy(op, l, r) <=> IF op = "GT" THEN l > r ELSE l >= r
      BY <1>3, <2>5 DEF checkSatisfy, Compare
    <3> QED  BY <1>3, <2>1, <2>5, <3>1
  <2> QED  BY <2>2, <2>3, <2>4, <2>5 DEF Operators
<1> QED  BY <1>2, <1>3

LEMMA SatisfiesIsSelected ==
  ASSUME NumbersAgree, ConditionsOK(stmt.conds), NEW rec \in Tuples
  PROVE  Satisfies(rec, stmt.conds) <=> Selected(rec)
<1>1. ASSUME NEW cond \in stmt.conds
      PROVE  checkSatisfy(cond.op, Operand(rec, cond.lhs), Operand(rec, cond.rhs))
                <=> Holds(rec, cond)
  <2>1. cond.op \in Operators /\ cond.lhs \in Attrs /\ cond.rhs \in Attrs \cup Vals \cup {Null}
    BY DEF ConditionsOK
  <2> DEFINE l == Operand(rec, cond.lhs)
             r == Operand(rec, cond.rhs)
  <2>2. l \in Vals \cup {Null} /\ r \in Vals \cup {Null}  BY <2>1, OperandType
  <2>3. Shown(rec, cond.lhs) = l /\ Shown(rec, cond.rhs) = r  BY ShownIsOperand
  <2> HIDE DEF l, r
  <2>4. checkSatisfy(cond.op, l, r) <=>
            \/ cond.op = "ISNULL" /\ l = Null
            \/ cond.op = "NOTNULL" /\ l # Null
            \/ /\ Null \notin {l, r}
               /\ \/ cond.op \in {"EQ", "LE", "GE"} /\ l = r
                  \/ cond.op \in {"LT", "LE", "NE"} /\ l < r
                  \/ cond.op \in {"GT", "GE", "NE"} /\ l > r
    BY <2>1, <2>2, ComparisonsAgree
  <2>5. checkSatisfy(cond.op, l, r) <=> Holds(rec, cond)  BY <2>3, <2>4 DEF Holds
  <2> QED  BY <2>5 DEF l, r
<1> QED  BY <1>1 DEF Satisfies, Selected

(* INSERT keeps a record with the values of the statement, NULL where the  *)
(* statement has it, both for the printer, which counts the NULL flags,    *)
(* and for conditions, which go by the catalog.                            *)
THEOREM InsertedAsGiven == ASSUME NumbersAgree PROVE Spec => InsertSeen
<1> DEFINE Seen ==
      stmt.kind = "insert" /\ recordCount' # recordCount =>
        \E rid \in Records(disk') \ Records(disk) : \A a \in Attrs :
            Head(stmt.todo)[a] \in
                {Shown(disk'.records[rid], a)} \cap {Operand(disk'.records[rid], a)}
<1>1. IInv /\ [Next]_vars => [Seen]_vars
  <2> SUFFICES ASSUME IInv, Next, stmt.kind = "insert", recordCount' # recordCount
               PROVE  \E rid \in Records(disk') \ Records(disk) : \A a \in Attrs :
                        Head(stmt.todo)[a] \in
                          {Shown(disk'.records[rid], a)} \cap {Operand(disk'.records[rid], a)}
    OBVIOUS
  <2> DEFINE given == Head(stmt.todo)
             rec == [data |-> Bytes(given), isnull |-> Flags(given)]
  <2>1. InsertRecord
    <3>1. stmt # NoStatement  BY DEF NoStatement
    <3> QED
      BY <3>1 DEF Next, Begin, EndInsert, DeleteRecord, EndDelete, UpdateRecord, EndUpdate,
                  LoadLine, EndLoad, WriteBack, Recreate
  <2>2. stmt.todo # <<>>  BY <2>1 DEF InsertRecord
  <2>3. given \in Assignable  BY <2>2, InsertShape
  <2>4. PICK rid \in (1 .. MaxRid) \ Records(disk) :
            disk'.records = With(disk.records, rid, rec)
    <3>1. ~Refused(given)  BY <2>1 DEF InsertRecord
    <3>2. PICK rid \in (1 .. MaxRid) \ Records(disk) :
            Store(With(disk.records, rid, rec), AddEntries(disk.index, Bytes(given), rid))
      BY <2>1, <3>1 DEF InsertRecord
    <3>3. disk'.records = With(disk.records, rid, rec)  BY <3>2 DEF Store
    <3> QED  BY <3>3
  <2>5. rid \in Records(disk') \ Records(disk) /\ disk'.records[rid] = rec
    BY <2>4 DEF With, Records
  <2> SUFFICES ASSUME NEW a \in Attrs
               PROVE  given[a] = Shown(rec, a) /\ given[a] = Operand(rec, a)
    BY <2>5
  <2>6. given[a] = Null => a \in Nullable  BY <2>3 DEF Assignable, can_assign_to
  <2>7. rec.data[a] = IF given[a] = Null THEN Zero ELSE given[a]  BY DEF Bytes
  <2>8. ASSUME a \in Nullable
        PROVE  rec.isnull[nullableIndex[a]] <=> given[a] = Null
    <3>1. nullableIndex[a] \in 1 .. Cardinality(Nullable)  BY <2>8, StatementsAssumption
    <3>2. rec.isnull[nullableIndex[a]] <=>
            \E b \in Nullable : Counted(b) = nullableIndex[a] /\ given[b] = Null
      BY <3>1 DEF Flags
    <3>3. \A b \in Nullable : nullableIndex[b] = nullableIndex[a] => b = a
      BY <2>8, StatementsAssumption DEF IsInjective
    <3> QED  BY <2>8, <3>2, <3>3 DEF NumbersAgree
  <2> HIDE DEF rec
  <2>9. given[a] = Operand(rec, a)  BY <2>6, <2>7, <2>8 DEF Operand
  <2> QED  BY <2>9, ShownIsOperand
<1> QED  BY <1>1, IInvHolds, PTL DEF Spec, InsertSeen

(* DELETE leaves just the records its condition did not hold for when it   *)
(* began, as they were, though it deletes under its own scan.              *)
THEOREM DeletedAsMeant == ASSUME NumbersAgree PROVE Spec => DeleteEffect
<1> DEFINE Effect ==
      stmt.kind = "delete" /\ Ahead = {} =>
        disk'.records = [rid \in {r \in Records(disk) : ~Selected(disk.records[r])}
                            |-> disk.records[rid]]
<1>1. IInv /\ [Next]_vars => [Effect]_vars
  <2> SUFFICES ASSUME IInv, Next, stmt.kind = "delete", Ahead = {}
               PROVE  disk'.records = [rid \in {r \in Records(disk) : ~Selected(disk.records[r])}
                                         |-> disk.records[rid]]
    OBVIOUS
  <2>1. disk' = work
    <3>1. stmt # NoStatement  BY DEF NoStatement
    <3> QED
      BY <3>1 DEF Next, Begin, InsertRecord, EndInsert, DeleteRecord, EndDelete, UpdateRecord,
                  EndUpdate, LoadLine, EndLoad, WriteBack, Recreate
  <2>2. DeleteOK /\ Deleted  BY DeleteShape
  <2>3. \A r \in Records(disk) : disk.records[r] \in Tuples
    BY DEF IInv, Typed, FilesOK, RecordsOK, Records
  <2>4. \A r \in Records(disk) :
            Satisfies(disk.records[r], stmt.conds) <=> Selected(disk.records[r])
    BY <2>2, <2>3, SatisfiesIsSelected DEF DeleteOK
  <2>5. \A r \in Records(work) : ~(r >= stmt.at)  BY DEF Ahead
  <2>6. Records(work) = {r \in Records(disk) : ~Selected(disk.records[r])}
    BY <2>2, <2>4, <2>5 DEF Deleted
  <2>7. \A r \in Records(work) : work.records[r] = disk.records[r]  BY <2>2 DEF Deleted
  <2>8. work.records = [r \in Records(work) |-> work.records[r]]
    BY DEF IInv, Typed, FilesOK, RecordsOK, Records
  <2> QED  BY <2>1, <2>6, <2>7, <2>8
<1> QED  BY <1>1, IInvHolds, PTL DEF Spec, DeleteEffect

(* What lies before the attribute, or behind one that is no string, is     *)
(* spared.                                                                 *)
LEMMA SparedAttributes ==
  ASSUME UpdateOK, stmt.lhs \in Attrs, NEW a \in Attrs \ {stmt.lhs},
         Fits(stmt.lhs, stmt.rhs) \/ stmt.lhs \notin Strings \/ Before(a, stmt.lhs)
  PROVE  a \notin Reached
<1>1. stmt.lhs # Unknown  BY StatementsAssumption DEF Attrs
<1>2. ASSUME Fits(stmt.lhs, stmt.rhs)  PROVE ~Unfit
  BY <1>2, StatementsAssumption DEF Fits, Unfit, Attrs
<1>3. ASSUME Before(a, stmt.lhs)  PROVE a \notin Behind(stmt.lhs)
  <2>1. PICK i, j \in DOMAIN attributes : attributes[i] = a /\ attributes[j] = stmt.lhs /\ i < j
    BY <1>3 DEF Before
  <2>2. SUFFICES ASSUME a \in Behind(stmt.lhs)  PROVE FALSE
    OBVIOUS
  <2>3. PICK p, q \in DOMAIN attributes : attributes[p] = stmt.lhs /\ attributes[q] = a /\ p < q
    BY <2>2 DEF Behind
  <2>4. p = j /\ q = i  BY <2>1, <2>3, StatementsAssumption DEF IsInjective
  <2>5. i \in Int /\ j \in Int  BY StatementsAssumption
  <2> QED  BY <2>1, <2>3, <2>4, <2>5
<1> QED  BY <1>1, <1>2, <1>3 DEF Reached

(* What an UPDATE of an attribute there is does to a record it changes.    *)
LEMMA UpdateMeans ==
  ASSUME NumbersAgree, UpdateOK, stmt.lhs \in Attrs,
         NEW old \in Tuples, NEW new \in Updated(old)
  PROVE  /\ \A a \in Attrs \ {stmt.lhs} :
                /\ Shown(new, a) = Null <=> Shown(old, a) = Null
                /\ Fits(stmt.lhs, stmt.rhs) \/ stmt.lhs \notin Strings \/ Before(a, stmt.lhs) =>
                        Shown(new, a) = Shown(old, a)
         /\ Shown(new, stmt.lhs) = Null <=> stmt.rhs = Null
         /\ \/ Shown(new, stmt.lhs) = Shown(old, stmt.rhs)
            \/ ~Fits(stmt.lhs, stmt.rhs)
            \/ stmt.rhs \in Attrs /\ Shown(old, stmt.rhs) = Null
<1>1. stmt.lhs # Unknown /\ (stmt.rhs = Null => stmt.lhs \in Nullable)
  BY StatementsAssumption DEF UpdateOK, Attrs
<1>2. /\ old.data \in [Attrs -> Vals] /\ new.data \in [Attrs -> Vals]
      /\ old.isnull \in [1 .. Cardinality(Nullable) -> BOOLEAN]
  BY UpdatedRecord DEF Tuples
<1>3. Null \notin Attrs /\ Null \notin Vals /\ Unknown \notin Vals /\ Unknown \notin Attrs
  BY StatementsAssumption DEF Attrs
<1>4. /\ \A a \in Nullable \ {stmt.lhs} :
            new.isnull[nullableIndex[a]] = old.isnull[nullableIndex[a]]
      /\ stmt.lhs \in Nullable /\ stmt.rhs = Null => new.isnull[nullableIndex[stmt.lhs]] = TRUE
      /\ stmt.lhs \in Nullable /\ stmt.rhs # Null => new.isnull[nullableIndex[stmt.lhs]] = FALSE
  <2>1. CASE stmt.rhs = Null
    <3>1. new.isnull = Flagged(old.isnull)  BY <1>1, <2>1, UpdatedRecord
    <3>2. /\ Flagged(old.isnull)[nullableIndex[stmt.lhs]] = TRUE
          /\ \A a \in Nullable \ {stmt.lhs} :
                Flagged(old.isnull)[nullableIndex[a]] = old.isnull[nullableIndex[a]]
      BY <1>1, <1>2, <2>1, FlagsChanged
    <3> QED  BY <2>1, <3>1, <3>2
  <2>2. CASE stmt.rhs # Null
    <3>1. new.isnull = Unflagged(old.isnull)  BY <1>1, <2>2, UpdatedRecord
    <3>2. /\ stmt.lhs \in Nullable => Unflagged(old.isnull)[nullableIndex[stmt.lhs]] = FALSE
          /\ \A a \in Nullable \ {stmt.lhs} :
                Unflagged(old.isnull)[nullableIndex[a]] = old.isnull[nullableIndex[a]]
      BY <1>2, FlagsChanged
    <3> QED  BY <2>2, <3>1, <3>2
  <2> QED  BY <2>1, <2>2
<1>5. \A a \in Attrs \ {stmt.lhs} : Operand(new, a) = Null <=> Operand(old, a) = Null
  BY <1>2, <1>3, <1>4 DEF Operand
<1>6. \A a \in Attrs \ {stmt.lhs} :
        Fits(stmt.lhs, stmt.rhs) \/ stmt.lhs \notin Strings \/ Before(a, stmt.lhs) =>
            Operand(new, a) = Operand(old, a)
  <2> SUFFICES ASSUME NEW a \in Attrs \ {stmt.lhs},
                      Fits(stmt.lhs, stmt.rhs) \/ stmt.lhs \notin Strings \/ Before(a, stmt.lhs)
               PROVE  Operand(new, a) = Operand(old, a)
    OBVIOUS
  <2>1. a \notin Reached  BY SparedAttributes
  <2>2. new.data[a] = old.data[a]  BY <2>1, UpdatedRecord
  <2> QED  BY <1>4, <2>2 DEF Operand
<1>7. Operand(new, stmt.lhs) = Null <=> stmt.rhs = Null
  <2>1. new.data[stmt.lhs] # Null  BY <1>2, <1>3
  <2>2. CASE stmt.lhs \in Nullable /\ stmt.rhs = Null
    BY <1>4, <2>2 DEF Operand
  <2>3. CASE stmt.lhs \in Nullable /\ stmt.rhs # Null
    BY <1>4, <2>1, <2>3 DEF Operand
  <2>4. CASE stmt.lhs \notin Nullable
    BY <1>1, <2>1, <2>4 DEF Operand
  <2> QED  BY <2>2, <2>3, <2>4
<1>8. \/ Operand(new, stmt.lhs) = Operand(old, stmt.rhs)
      \/ ~Fits(stmt.lhs, stmt.rhs)
      \/ stmt.rhs \in Attrs /\ Operand(old, stmt.rhs) = Null
  <2>1. CASE stmt.rhs = Null
    BY <1>3, <1>7, <2>1 DEF Operand
  <2>2. CASE stmt.rhs # Null /\ Fits(stmt.lhs, stmt.rhs)
    <3> DEFINE v == IF stmt.rhs \in Attrs THEN old.data[stmt.rhs] ELSE stmt.rhs
    <3>1. ~Unfit
      BY <2>2, StatementsAssumption DEF Fits, Unfit, Attrs
    <3>2. new.data[stmt.lhs] = v  BY <1>1, <2>2, <3>1, UpdatedRecord
    <3> HIDE DEF v
    <3>3. Operand(new, stmt.lhs) = v
      <4>1. stmt.lhs \in Nullable => ~new.isnull[nullableIndex[stmt.lhs]]  BY <1>4, <2>2
      <4> QED  BY <3>2, <4>1 DEF Operand
    <3>4. Operand(old, stmt.rhs) = v \/ (stmt.rhs \in Attrs /\ Operand(old, stmt.rhs) = Null)
      BY DEF Operand, v
    <3> QED  BY <3>3, <3>4
  <2> QED  BY <2>1, <2>2
<1> QED  BY <1>5, <1>6, <1>7, <1>8, ShownIsOperand

(* UPDATE changes only records its condition held for when it began, though*)
(* it changes them under its own scan; in them the attribute, and what     *)
(* lies behind a string it has no room for.                                *)
THEOREM UpdatedAsMeant == ASSUME NumbersAgree PROVE Spec => UpdateEffect
<1> DEFINE Meant(old, new) ==
      /\ ~Selected(old) => new = old
      /\ Selected(old) /\ stmt.lhs \in Attrs =>
            /\ \A a \in Attrs \ {stmt.lhs} :
                /\ Shown(new, a) = Null <=> Shown(old, a) = Null
                /\ Fits(stmt.lhs, stmt.rhs) \/ stmt.lhs \notin Strings \/ Before(a, stmt.lhs) =>
                        Shown(new, a) = Shown(old, a)
            /\ Shown(new, stmt.lhs) = Null <=> stmt.rhs = Null
            /\ \/ Shown(new, stmt.lhs) = Shown(old, stmt.rhs)
               \/ ~Fits(stmt.lhs, stmt.rhs)
               \/ stmt.rhs \in Attrs /\ Shown(old, stmt.rhs) = Null
<1> DEFINE Effect ==
      stmt.kind = "update" /\ Ahead = {} =>
        /\ Records(disk') = Records(disk)
        /\ \A rid \in Records(disk) : Meant(disk.records[rid], disk'.records[rid])
<1>1. IInv /\ [Next]_vars => [Effect]_vars
  <2> SUFFICES ASSUME IInv, Next, stmt.kind = "update", Ahead = {}
               PROVE  Effect
    OBVIOUS
  <2>1. disk' = work
    <3>1. stmt # NoStatement  BY DEF NoStatement
    <3> QED
      BY <3>1 DEF Next, Begin, InsertRecord, EndInsert, DeleteRecord, EndDelete, UpdateRecord,
                  EndUpdate, LoadLine, EndLoad, WriteBack, Recreate
  <2>2. UpdateOK /\ Modified  BY UpdateShape
  <2>3. Records(work) = Records(disk)  BY <2>2 DEF Modified
  <2>4. \A r \in Records(disk) : disk.records[r] \in Tuples /\ r \in Int
    BY DEF IInv, Typed, FilesOK, RecordsOK, Records
  <2>5. \A r \in Records(disk) :
            Satisfies(disk.records[r], stmt.conds) <=> Selected(disk.records[r])
    BY <2>2, <2>4, SatisfiesIsSelected DEF UpdateOK
  <2>6. \A r \in Records(disk) : r < stmt.at
    BY <2>2, <2>3, <2>4 DEF Ahead, UpdateOK
  <2>7. \A r \in Records(disk) : work.records[r] \in
            IF Selected(disk.records[r]) THEN Updated(disk.records[r]) ELSE {disk.records[r]}
    BY <2>2, <2>3, <2>5, <2>6 DEF Modified, Changed
  <2>8. \A r \in Records(disk) : Meant(disk.records[r], work.records[r])
    <3> TAKE r \in Records(disk)
    <3>1. CASE ~Selected(disk.records[r])  BY <2>7, <3>1
    <3>2. CASE Selected(disk.records[r])
      <4>1. work.records[r] \in Updated(disk.records[r])  BY <2>7, <3>2
      <4> QED  BY <2>2, <2>4, <3>2, <4>1, UpdateMeans
    <3> QED  BY <3>1, <3>2
  <2>9. Records(disk') = Records(disk)  BY <2>1, <2>3
  <2> QED  BY <2>1, <2>8, <2>9
<1> QED  BY <1>1, IInvHolds, PTL DEF Spec, UpdateEffect
=============================================================================
