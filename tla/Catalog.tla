------------------------------ MODULE Catalog ------------------------------
(***************************************************************************)
(* The catalogs of one database and the statements that change them        *)
(* (SM_Manager, src/SM/sm_manager.cc).  A catalog is a record:             *)
(*   rel    the rows of relcat, by name of the relation                    *)
(*   rows   the slots of attrcat, NoRow where one is free                  *)
(*   free   the free slots of attrcat, that to be taken next first         *)
(*   files  the files of the directory but for the two catalogs: <<t>> for *)
(*          the records of relation t, <<t, n>> for its index number n,    *)
(*          which is given by the attribute it was built on                *)
(*   botched  history: relations whose creation or removal ended half way  *)
(*   torn     those for which a CREATE INDEX or DROP INDEX did             *)
(*   scrambled  those one of whose indexes was dropped when the numbers    *)
(*            above it did not ascend along attrcat                        *)
(* What a statement does takes the catalog as its first argument; it is    *)
(* the set of what it may come to: a catalog, and the code the function    *)
(* returns.  A page of a catalog that cannot be read or written ends the   *)
(* function where it stands with what it has done so far, and its code     *)
(* ends the session, which closes the catalogs; their closing is not       *)
(* modelled to fail.  attrcat is modelled as one page.  Loops are          *)
(* functions of the number of turns they have made.                        *)
(***************************************************************************)
EXTENDS SlotSeqs

CONSTANT NoRow   \* a free slot

Done(cat, rc) == [cat |-> cat, rc |-> rc]

Fresh == [rel |-> <<>>, rows |-> <<>>, free |-> <<>>, files |-> <<>>,
          botched |-> {}, torn |-> {}, scrambled |-> {}]

(* A function that ends half way.                                          *)
Botched(c, t) == [c EXCEPT !.botched = @ \cup {t}]
Torn(c, t) == [c EXCEPT !.torn = @ \cup {t}]
Failed(cats) == {Done(cat, "PF_UNIX") : cat \in cats}

With(f, key, value) == [x \in DOMAIN f \cup {key} |-> IF x = key THEN value ELSE f[x]]
Without(f, keys) == [x \in DOMAIN f \ keys |-> f[x]]

(* The attributes of t, in the order scans of attrcat meet them.           *)
RowsOf(c, t) == {i \in DOMAIN c.rows : c.rows[i] # NoRow /\ c.rows[i].relName = t}
RowOf(c, t, a) ==
    LET found == {i \in RowsOf(c, t) : c.rows[i].attrName = a}
    IN  IF found = {} THEN 0 ELSE CHOOSE i \in found : \A j \in found : i <= j

(* RM_FileHandle::InsertRec and DeleteRec on attrcat: the slot deleted     *)
(* last is taken first.                                                    *)
InsertRow(c, row) ==
    IF c.free = <<>> THEN [c EXCEPT !.rows = Append(@, row)]
    ELSE [c EXCEPT !.rows[Head(c.free)] = row, !.free = Tail(@)]
DeleteRow(c, i) == [c EXCEPT !.rows[i] = NoRow, !.free = <<i>> \o @]

----------------------------------------------------------------------------
(* The columns of CREATE TABLE, in the order of the statement: attributes, *)
(* and a clause that names the primary key.                                *)
Column(a) == [attrName |-> a, pk |-> FALSE]
PrimaryKey(a) == [attrName |-> a, pk |-> TRUE]

BrokenAttrInfos(list) ==
    LET attrs == Kept(list, {e \in Range(list) : ~e.pk})
        keys == Kept(list, {e \in Range(list) : e.pk})
    IN  Done([i \in DOMAIN attrs |->
                [attrs[i] EXCEPT !.pk = keys # <<>> /\ attrs[i].attrName = keys[1].attrName]],
             "OK")
mk_attr_infos(list) ==
    LET attrs == Kept(list, {e \in Range(list) : ~e.pk})
        keys == Kept(list, {e \in Range(list) : e.pk})
        IsKey(a) == keys # <<>> /\ a = keys[1].attrName
    IN  CASE Len(keys) > 1 -> Done(<<>>, "E_MULTIPLEPRIMARYKEY")
          [] \E i, j \in DOMAIN attrs : i < j /\ attrs[i].attrName = attrs[j].attrName ->
                Done(<<>>, "E_DUPLICATEATTR")
          [] keys # <<>> /\ \A i \in DOMAIN attrs : ~IsKey(attrs[i].attrName) ->
                Done(<<>>, "E_PRIMARYKEYNOTFOUND")
          [] OTHER ->
                Done([i \in DOMAIN attrs |-> [attrs[i] EXCEPT !.pk = IsKey(attrs[i].attrName)]],
                     "OK")

(* CreateTable puts the attributes into attrcat before it knows whether    *)
(* there can be a file for their tuples, and the relation into relcat      *)
(* last.  An index file of that name may be left of an earlier relation.   *)
NewRow(t, attrs, i) ==
    [relName |-> t, attrName |-> attrs[i].attrName, offset |-> i,
     nullable |-> ~attrs[i].pk, indexNo |-> IF attrs[i].pk THEN 0 ELSE -1]
InsertRows(c, t, attrs) ==
    LET inserted[n \in 0 .. Len(attrs)] ==
            IF n = 0 THEN c ELSE InsertRow(inserted[n - 1], NewRow(t, attrs, n))
    IN  inserted

(* A relcat that cannot be read passes for one that has the relation.      *)
CreateTable(c, t, attrs, tooLarge) ==
    LET described == InsertRows(c, t, attrs)
        all == described[Len(attrs)]
        keys == {i \in DOMAIN attrs : attrs[i].pk}
        withFile == [all EXCEPT !.files = With(@, <<t>>, "records")]
        taken == keys # {} /\ <<t, 0>> \in DOMAIN c.files
        indexed == IF keys = {} THEN withFile
                   ELSE [withFile EXCEPT !.files =
                            With(@, <<t, 0>>, attrs[CHOOSE i \in keys : TRUE].attrName)]
        created == [indexed EXCEPT !.rel = With(@, t, [attrCount |-> Len(attrs),
                                                       indexCount |-> Cardinality(keys)])]
        halves == {described[n] : n \in 1 .. Len(attrs)}
                    \cup (IF tooLarge THEN {} ELSE {withFile})
                    \cup (IF tooLarge \/ taken THEN {} ELSE {indexed})
    IN  {Done(c, "SM_REL_EXISTS")} \cup
        IF t \in DOMAIN c.rel THEN {}
        ELSE Failed({c} \cup {Botched(half, t) : half \in halves}) \cup
             (IF tooLarge THEN {Done(Botched(all, t), "RM_RECORDSIZE_TOO_LARGE")}
              ELSE IF taken THEN {}
              ELSE Failed({created}) \cup {Done(created, "OK")})

(* DropTable deletes the file first, then with each attribute its index;   *)
(* a file it does not find ends it there.                                  *)
WithoutIndex(c, t, i) == [c EXCEPT !.files = Without(@, {<<t, c.rows[i].indexNo>>})]
DropIndexFile(d, t, i) ==
    IF d.rc # "OK" \/ d.cat.rows[i].indexNo = -1 THEN d
    ELSE IF <<t, d.cat.rows[i].indexNo>> \notin DOMAIN d.cat.files THEN Done(d.cat, "PF_UNIX")
    ELSE Done(WithoutIndex(d.cat, t, i), "OK")
DropRow(d, t, i) ==
    LET bare == DropIndexFile(d, t, i)
    IN  IF bare.rc # "OK" THEN bare ELSE Done(DeleteRow(bare.cat, i), "OK")
DropRows(c, t) ==
    LET scanned[i \in 0 .. Len(c.rows)] ==
            IF i = 0 THEN Done(c, "OK")
            ELSE IF i \in RowsOf(c, t) THEN DropRow(scanned[i - 1], t, i)
            ELSE scanned[i - 1]
    IN  scanned

DropTable(c, t) ==
    LET dropped == DropRows([c EXCEPT !.files = Without(@, {<<t>>})], t)
        last == dropped[Len(c.rows)]
        halves == {dropped[i].cat : i \in 0 .. Len(c.rows)}
                    \cup {DropIndexFile(dropped[i - 1], t, i).cat : i \in RowsOf(c, t)}
        gone == [last.cat EXCEPT !.botched = @ \ {t}]
        clean == [gone EXCEPT !.rel = Without(@, {t}), !.torn = @ \ {t}, !.scrambled = @ \ {t}]
    IN  IF <<t>> \notin DOMAIN c.files THEN Failed({c})
        ELSE Failed({c} \cup {Botched(half, t) : half \in halves}) \cup
             (IF last.rc # "OK" THEN {}
              ELSE IF t \notin DOMAIN c.rel THEN {Done(gone, "RM_EOF")}
              ELSE Failed({clean}) \cup {Done(clean, "OK")})

(* The relation and the attribute are looked up before anything is done.   *)
Missing(c, t, a) == IF t \notin DOMAIN c.rel THEN "SM_REL_NOTEXIST"
                    ELSE IF RowOf(c, t, a) = 0 THEN "SM_ATTR_NOTEXIST" ELSE "OK"

(* The index file stays behind when the records cannot be read or, full,   *)
(* one of them finds no room in the bucket of its value; so does the index *)
(* in relcat when attrcat cannot have it.                                  *)
CreateIndex(c, t, a, full) ==
    LET row == RowOf(c, t, a)
        file == <<t, c.rel[t].indexCount>>
        built == [c EXCEPT !.files = With(@, file, a)]
        counted == [built EXCEPT !.rel[t].indexCount = @ + 1]
        created == [counted EXCEPT !.rows[row].indexNo = file[2]]
    IN  Failed({c}) \cup
        IF Missing(c, t, a) # "OK" THEN {Done(c, Missing(c, t, a))}
        ELSE IF c.rows[row].indexNo # -1 THEN {Done(c, "SM_INDEX_EXISTS")}
        ELSE IF file \in DOMAIN c.files THEN {}
        ELSE IF <<t>> \notin DOMAIN c.files THEN Failed({built})
        ELSE IF full THEN Failed({built}) \cup {Done(built, "IX_BUCKET_FULL")}
        ELSE Failed({built, Torn(counted, t), created}) \cup {Done(created, "OK")}

(* An index gets the number below its own, and its file the name before    *)
(* that: a file that has the name already is replaced, one that is missing *)
(* ignored.                                                                *)
RenameFile(c, t, i) ==
    LET old == <<t, c.rows[i].indexNo>>
        new == <<t, old[2] - 1>>
    IN  [c EXCEPT !.files = IF old \in DOMAIN @ THEN With(Without(@, {old}), new, @[old])
                            ELSE @]
BrokenRenumber(c, t, i) == [c EXCEPT !.rows[i].indexNo = @ - 1]
BrokenRenumberFile(c, t, i) ==
    LET old == <<t, c.rows[i].indexNo>>
    IN  [c EXCEPT !.files = With(Without(@, {old}), <<t, old[2] - 1>>, c.rows[i].attrName)]
Renumber(c, t, i) == [RenameFile(c, t, i) EXCEPT !.rows[i].indexNo = @ - 1]
RenumberRows(c, t, above) ==
    LET scanned[i \in 0 .. Len(c.rows)] ==
            IF i = 0 THEN c
            ELSE IF i \in above THEN Renumber(scanned[i - 1], t, i)
            ELSE scanned[i - 1]
    IN  scanned

(* The file goes first, then the index from relcat and from attrcat, then  *)
(* those above it move one by one.                                         *)
DropIndex(c, t, a) ==
    LET row == RowOf(c, t, a)
        no == c.rows[row].indexNo
        above == {i \in RowsOf(c, t) : c.rows[i].indexNo > no}
        ascend == \A i, j \in above : i < j => c.rows[i].indexNo < c.rows[j].indexNo
        destroyed == WithoutIndex(c, t, row)
        counted == [destroyed EXCEPT !.rel[t].indexCount = @ - 1]
        removed == [counted EXCEPT !.rows[row].indexNo = -1,
                                   !.scrambled = IF ascend THEN @ ELSE @ \cup {t}]
        renumbered == RenumberRows(removed, t, above)
        dropped == renumbered[Len(c.rows)]
        halves == {destroyed, counted} \cup {renumbered[i - 1] : i \in above}
                    \cup {RenameFile(renumbered[i - 1], t, i) : i \in above}
    IN  Failed({c}) \cup
        IF Missing(c, t, a) # "OK" THEN {Done(c, Missing(c, t, a))}
        ELSE IF no = -1 THEN {Done(c, "SM_INDEX_NOTEXIST")}
        ELSE IF <<t, no>> \notin DOMAIN c.files THEN {}
        ELSE Failed({Torn(half, t) : half \in halves} \cup {dropped}) \cup {Done(dropped, "OK")}

(* What every statement about the records of t does first.                 *)
GetDataAttrInfo(c, t) ==
    IF t \notin DOMAIN c.rel THEN "SM_REL_NOTEXIST"
    ELSE IF Cardinality(RowsOf(c, t)) # c.rel[t].attrCount THEN "SM_CATALOG_CORRUPT" ELSE "OK"

(* Which of the NULL flags of a record is that of the attribute in row i:  *)
(* it gets its number in the order of the scan, before the attributes are  *)
(* sorted; INSERT and the printer count those before it in the record.     *)
nullableIndex(c, t, i) == Cardinality({j \in RowsOf(c, t) : j < i /\ c.rows[j].nullable})
Counted(c, t, i) ==
    Cardinality({j \in RowsOf(c, t) : c.rows[j].offset < c.rows[i].offset /\ c.rows[j].nullable})
=============================================================================
