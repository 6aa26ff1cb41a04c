------------------------------ MODULE Session ------------------------------
(***************************************************************************)
(* The loop that reads statements (RBparse, src/PARSER/parse.y), the       *)
(* interpreter (src/PARSER/interp.cc) and what SM_Manager does about       *)
(* databases: which of them is open, what happens to its catalogs, and how *)
(* a session ends.  A database is a directory; statements see the          *)
(* directory they are made in, the root of all when none is open.          *)
(*                                                                         *)
(* Statements about the records of a relation appear by the first thing    *)
(* they do, reading its description; module Statements has the rest.       *)
(***************************************************************************)
EXTENDS Catalog

CONSTANTS
    Names,        \* names of databases
    NoName,       \* no database
    Tables, Attrs,
    Creations,    \* what CREATE TABLE is given: a name, columns, and whether
                  \* their tuples would be too large for a page
    Nested,       \* bound: databases created while another is open
    Worked,       \* bound: databases whose relations are changed
    MaxRows       \* bound: slots of attrcat

Rows == [relName : Tables, attrName : Attrs, offset : Nat, nullable : BOOLEAN,
         indexNo : Int]

ASSUME NamesAssumption == NoName \notin Names
ASSUME RowsAssumption == NoRow \notin Rows /\ MaxRows \in Nat
ASSUME CreationsAssumption ==
    \A new \in Creations :
        /\ new.relName \in Tables
        /\ new.columns \in Seq([attrName : Attrs, pk : BOOLEAN])

VARIABLES
    dirs,        \* the directories in the root, by name
    running,     \* the program runs
    db_opened,   \* a database is in use, for the interpreter
    current_db,  \* its name
    opened       \* the database whose catalogs SM_Manager has open

session == <<running, db_opened, current_db, opened>>
vars == <<dirs, session>>

(* sound: the catalogs are there, once.  A directory that a database could *)
(* not be dropped from has lost them; creating one where there is one puts *)
(* everything into them again.                                             *)
Directory(state, cat, nested) == [state |-> state, cat |-> cat, nested |-> nested]

Init ==
    /\ dirs = <<>> /\ running = TRUE
    /\ db_opened = FALSE /\ current_db = NoName /\ opened = NoName

----------------------------------------------------------------------------
(* RBparse ends the session when a statement fails with a negative code:   *)
(* errors of the operating system and those that cannot be put right.      *)
Ends(rc) == rc \in {"PF_UNIX", "RM_RECORDSIZE_TOO_LARGE", "SM_CATALOG_CORRUPT"}

Finish == running' = FALSE /\ db_opened' = FALSE /\ current_db' = NoName /\ opened' = NoName

(* A statement that comes to rc, with the database that is in use from now *)
(* on for the interpreter (NoName for none) and for SM_Manager.            *)
Return(rc, inUse, name) ==
    IF Ends(rc) THEN Finish
    ELSE /\ running' = TRUE /\ db_opened' = (inUse # NoName)
         /\ current_db' = inUse /\ opened' = name

(* The end of the input: the database is closed.                           *)
Exit == running /\ Finish /\ UNCHANGED dirs
Start == ~running /\ running' = TRUE /\ UNCHANGED <<dirs, db_opened, current_db, opened>>

----------------------------------------------------------------------------
(* SM_Manager::CloseDb fails on catalogs that are not open.                *)
CloseDb == IF opened = NoName THEN "PF_CLOSEDFILE" ELSE "OK"

OpenDb(name) ==
    IF name \notin DOMAIN dirs THEN "SM_CHDIR_FAILED"
    ELSE IF dirs[name].state = "bare" THEN "PF_UNIX" ELSE "OK"

(* Every directory is opened and closed in turn, then the one in use; on   *)
(* catalogs that are not open it fails.  Either way nothing has changed.   *)
SHOWDBS ==
    /\ running
    /\ Return(IF db_opened THEN CloseDb ELSE "OK", current_db, opened)
    /\ UNCHANGED dirs

(* CreateDb: in the directory of the open database, if there is one.       *)
(* mkdir fails on a directory that is there, which the rest ignores.  A    *)
(* folder of that name in the author's build directory has it do nothing.  *)
CREATEDB(name) ==
    LET again == IF dirs[name].state = "bare" THEN "sound" ELSE "doubled"
        cat == IF dirs[name].state = "bare" THEN Fresh ELSE dirs[name].cat
    IN  /\ running /\ (opened # NoName => name \in Nested)
        /\ \/ UNCHANGED dirs
           \/ dirs' = IF opened # NoName THEN [dirs EXCEPT ![opened].nested = @ \cup {name}]
                      ELSE IF name \notin DOMAIN dirs
                      THEN With(dirs, name, Directory("sound", Fresh, {}))
                      ELSE [dirs EXCEPT ![name] = Directory(again, cat, @.nested)]
        /\ UNCHANGED session

(* What DropDb leaves of a directory: nothing, or the databases made in it.*)
Dropped(name) ==
    IF name \notin DOMAIN dirs THEN dirs
    ELSE IF dirs[name].nested = {} THEN Without(dirs, {name})
    ELSE [dirs EXCEPT ![name] = Directory("bare", Fresh, @.nested)]

(* DropDb closes the open database, whichever it is; only if it is the one *)
(* to be dropped does the interpreter know.                                *)
DROPDB(name) ==
    /\ running
    /\ IF current_db = name /\ CloseDb # "OK"
       THEN Return(CloseDb, current_db, opened) /\ UNCHANGED dirs
       ELSE /\ Return("OK", IF current_db = name THEN NoName ELSE current_db, NoName)
            /\ dirs' = Dropped(name)

(* USE closes the database in use before it looks for the other.           *)
BrokenUSEDB(name) ==
    /\ running
    /\ IF current_db = name THEN Return("OK", current_db, opened)
       ELSE IF OpenDb(name) = "SM_CHDIR_FAILED" THEN Return("OK", current_db, NoName)
       ELSE Return(OpenDb(name), name, name)
    /\ UNCHANGED dirs
BrokenUSEDBName(name) ==
    /\ running
    /\ IF current_db = name THEN Return("OK", current_db, opened)
       ELSE IF db_opened /\ CloseDb # "OK" THEN Return(CloseDb, current_db, opened)
       ELSE IF OpenDb(name) = "SM_CHDIR_FAILED" THEN Return("OK", current_db, NoName)
       ELSE Return(OpenDb(name), IF db_opened THEN current_db ELSE name, name)
    /\ UNCHANGED dirs
USEDB(name) ==
    /\ running
    /\ IF current_db = name THEN Return("OK", current_db, opened)
       ELSE IF db_opened /\ CloseDb # "OK" THEN Return(CloseDb, current_db, opened)
       ELSE IF OpenDb(name) = "SM_CHDIR_FAILED" THEN Return("OK", current_db, NoName)
       ELSE Return(OpenDb(name), name, name)
    /\ UNCHANGED dirs

----------------------------------------------------------------------------
(* The other statements need a database in use.  done is what SM_Manager   *)
(* may make of its catalogs, closed what it returns when they are not open.*)
Statement(done(_), closed) ==
    /\ running
    /\ IF ~db_opened THEN UNCHANGED vars
       ELSE IF opened = NoName THEN Return(closed, current_db, NoName) /\ UNCHANGED dirs
       ELSE \E result \in done(dirs[opened].cat) :
                /\ opened \in Worked /\ dirs[opened].state = "sound"
                /\ Len(result.cat.rows) <= MaxRows
                /\ dirs' = [dirs EXCEPT ![opened].cat = result.cat]
                /\ Return(result.rc, current_db, opened)

CREATETABLE(new) ==
    LET infos == mk_attr_infos(new.columns)
    IN  Statement(LAMBDA c : IF infos.rc # "OK" THEN {Done(c, "OK")}
                             ELSE CreateTable(c, new.relName, infos.cat, new.tooLarge),
              "PF_CLOSEDFILE")

(* DropTable begins with a file of the directory it is in, the root.       *)
DROPTABLE(t) == Statement(LAMBDA c : DropTable(c, t), "PF_UNIX")
CREATEINDEX(t, a, full) == Statement(LAMBDA c : CreateIndex(c, t, a, full), "PF_CLOSEDFILE")
DROPINDEX(t, a) == Statement(LAMBDA c : DropIndex(c, t, a), "PF_CLOSEDFILE")
QUERY(t) ==
    Statement(LAMBDA c : {Done(c, "PF_UNIX"), Done(c, GetDataAttrInfo(c, t))}, "PF_CLOSEDFILE")

Next ==
    \/ Start \/ Exit \/ SHOWDBS
    \/ \E name \in Names : CREATEDB(name) \/ DROPDB(name) \/ USEDB(name)
    \/ \E new \in Creations : CREATETABLE(new)
    \/ \E t \in Tables :
        \/ DROPTABLE(t) \/ QUERY(t)
        \/ \E a \in Attrs :
            \/ \E full \in BOOLEAN : CREATEINDEX(t, a, full)
            \/ DROPINDEX(t, a)

Spec == Init /\ [][Next]_vars

----------------------------------------------------------------------------
Catalogs == {dirs[d].cat : d \in DOMAIN dirs}
IndexNosOf(c, t) == {c.rows[i].indexNo : i \in RowsOf(c, t)} \ {-1}
Indexed(c, t) == {i \in RowsOf(c, t) : c.rows[i].indexNo # -1}

TypeOK ==
    /\ DOMAIN dirs \subseteq Names
    /\ \A d \in DOMAIN dirs :
        /\ dirs[d].state \in {"sound", "doubled", "bare"} /\ dirs[d].nested \subseteq Names
        /\ DOMAIN dirs[d].cat.rel \subseteq Tables
        /\ Len(dirs[d].cat.rows) <= MaxRows
        /\ Range(dirs[d].cat.free)
             = {i \in DOMAIN dirs[d].cat.rows : dirs[d].cat.rows[i] = NoRow}
        /\ IsInjective(dirs[d].cat.free)
    /\ {running, db_opened} \subseteq BOOLEAN
    /\ {current_db, opened} \subseteq Names \cup {NoName}

(* Statements meet the database last used: its catalogs are open or none   *)
(* are, which happens after a USE that finds nothing and after the drop of *)
(* another database (interp.cc:148-167, 177-196).                          *)
OpenedIsCurrent == opened # NoName => db_opened /\ opened = current_db /\ opened \in DOMAIN dirs

(* The invariant of a session: types, and which database is open.          *)
SessionInv == TypeOK /\ OpenedIsCurrent

(* And once none are, no statement gets the session out of it: USE and     *)
(* DROP DATABASE begin by closing them, which fails.                       *)
StuckTillEnd == [][running /\ db_opened /\ opened = NoName
                     => ~running' \/ (db_opened' /\ opened' = NoName)]_vars

(* A relation is described by as many attributes as relcat says, with      *)
(* different names, unless an earlier CREATE TABLE of its name ended when  *)
(* attributes were in attrcat (sm_manager.cc:315-334), or a DROP TABLE     *)
(* before the relation was out of relcat (sm_manager.cc:352-379), be it at *)
(* a page or at an index file that is gone.  That an index was created or  *)
(* dropped half way changes nothing in it.                                 *)
DescriptionWhole ==
    \A c \in Catalogs : \A t \in DOMAIN c.rel \ c.botched :
        /\ GetDataAttrInfo(c, t) = "OK"
        /\ Cardinality({c.rows[i].attrName : i \in RowsOf(c, t)}) = c.rel[t].attrCount

(* The indexes of a relation are numbered without gaps, as many as relcat  *)
(* says: CreateIndex takes that number for the next one.  But once a       *)
(* CREATE INDEX has ended between relcat and attrcat (sm_manager.cc:       *)
(* 438-439), or a DROP INDEX after the index was out of relcat             *)
(* (sm_manager.cc:480-508), relcat counts another number of them.          *)
IndexesNumbered ==
    \A c \in Catalogs : \A t \in DOMAIN c.rel \ (c.botched \cup c.torn) :
        /\ IndexNosOf(c, t) = 0 .. c.rel[t].indexCount - 1
        /\ Cardinality(Indexed(c, t)) = c.rel[t].indexCount

OwnIndexFiles(c, t) ==
    \A i \in Indexed(c, t) :
        /\ <<t, c.rows[i].indexNo>> \in DOMAIN c.files
        /\ c.files[<<t, c.rows[i].indexNo>>] = c.rows[i].attrName

(* The file an attribute's index is looked for in is there and is the      *)
(* index of that attribute, as long as no index was dropped when those     *)
(* above it did not ascend along attrcat: the files are renamed in that    *)
(* order (sm_manager.cc:491-507).  A DROP INDEX that ends between its file *)
(* and its row, or between a file it renames and the row of that one       *)
(* (sm_manager.cc:475-481, 505-508), leaves rows whose file is not there.  *)
IndexFilesOwn ==
    \A c \in Catalogs :
        \A t \in DOMAIN c.rel \ (c.botched \cup c.torn \cup c.scrambled) : OwnIndexFiles(c, t)

(* The same whatever was dropped before to the end: what the comment at    *)
(* sm_manager.cc:483-484 has the renaming do.                              *)
DropIndexKeepsOthers ==
    \A c \in Catalogs : \A t \in DOMAIN c.rel \ (c.botched \cup c.torn) : OwnIndexFiles(c, t)

(* The flag a condition takes for that of its left operand                 *)
(* (ql_manager.cc:909) is the one INSERT has set for that attribute.       *)
NullFlagsAgree ==
    \A c \in Catalogs : \A t \in DOMAIN c.rel \ c.botched : \A i \in RowsOf(c, t) :
        c.rows[i].nullable => nullableIndex(c, t, i) = Counted(c, t, i)
=============================================================================
