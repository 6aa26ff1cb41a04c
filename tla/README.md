# miniDBMS in TLA+

miniDBMS is a single-user relational database in C++ after the RedBase course
system.  This directory holds TLA+ models of it, from the buffer pool to the
planner of queries, TLC configurations that check them on small instances, and
proofs checked by TLAPS.
Paths below are relative to the repository (`src/...`).

## The system

One process, one thread.  A statement typed at the prompt runs to its end before
the next is read; there is no log, no recovery and no locking.  What makes the
code hard is therefore not parallelism but *interleaving of clients through
shared state* (a scan and the deletions made during it, pointers into pages while
other pages are fetched), *calls that fail half way* (a full buffer pool, a
failing read or write, an error from an index after the record is in), and *long
sequences of legal calls* over structures kept in the pages themselves.

    PARSER (interp)  ->  QL (statements, planner, iterators)
                     \-> SM (catalogs, indexes, load)
    QL, SM  ->  RM (records, scans),  IX (B+ tree, scans)
    RM, IX  ->  PF (paged files)  ->  PF buffer pool  ->  Unix files

| Component | State | Operations | What is hard | What makes it correct | Module |
|---|---|---|---|---|---|
| PF buffer pool `pf_buffermgr.cc` | slot table, used list (MRU first), free list, hash table, pin counts, dirty bits | GetPage, AllocatePage, MarkDirty, UnpinPage, FlushPages, ForcePages, ClearBuffer, ResizeBuffer | failing reads and writes in the middle of an eviction or a flush; clients holding pointers | no slot lost, no page twice, pinned pages stay, nothing dirty is dropped | `BufferMgr`, `BufferLinks`, abstract `PageStore`, `SlotLists` |
| PF paged file `pf_filehandle.cc`, `pf_manager.cc` | header (first free page, number of pages), a flag that it has changed, the list of free pages through the pages | create, destroy, open, close, allocate, dispose, get, walk, flush, force | header and pages written apart; failed flushes; disposing twice | the free list is exact in memory and on disk; contents survive | `PagedFile`, abstract `PageSet` |
| RM record file `rm_filehandle.cc`, `rm_manager.cc` | per page: bitmap, chain of free records, count; per file: chain of pages with free records, whose head is cached in the handle | create, destroy, open, close, get, insert, delete, update | two chains kept consistent over pages and reopening | chains exact; an insertion never lands on a record | `RecordFile`, abstract `RecordSet` |
| RM scan `rm_filescan.cc` | page and slot position, condition | OpenScan, GetNextRec, CloseScan | the client changes the file between two calls; failures between pages | nothing missed, nothing twice | `RecordFile` |
| IX index `ix_indexhandle.cc`, `ix_manager.cc` | nodes with keys and children or buckets of rids, chain of leaves, root cached in the handle | open, close, insert with splits, delete | splits on several levels, an entry refused after a split | every key found from the root and along the chain; a multimap | `IndexTree`, abstract `IndexMap` |
| IX scan `ix_indexscan.cc` | leaf, entry and position in the bucket | OpenScan, GetNextEntry, CloseScan | the client deletes under it | nothing missed, nothing twice, an end | `IndexTree` |
| SM catalogs `sm_manager.cc` | relcat and attrcat records, table and index files | create/drop database, table and index, load | many files and records changed one after the other with an error exit after each | catalogs and files agree; index numbers dense | `Catalog` |
| PARSER session `interp.cc` | open database, flag, catalogs open in SM | use, create, drop, show, the statements on tables | failing half way; codes that end the session | statements meet the database in use | `Session` |
| QL statements `ql_manager.cc` | record file, index files, record count, files left open | insert, delete, update, load | errors after the record is in; scans under the statement's own changes; NULLs in indexes | every record in every index; key unique; count right | `Statements` |
| QL planner and iterators `ql_manager.cc`, `ql_*iter.cc` | conditions left, the tree of iterators, offsets of attributes, positions of inputs | select; scans, selections, projections, joins by index and by loop | offsets that change with every join; empty inputs; reset | the result is the one defined by the combinations of records | `Select`, `Iterators` |
| OP, statistics, printer, grammar, error texts | paths, counters, output | | | | not modelled, see below |

PROJECT.json lists every component with what is left out, and the hazards of the
code line by line with the properties that would catch them.

## Modules

**`BufferMgr`** is `PF_BufferMgr`, one action per method: the two lists are
sequences of slots (`used` with the most recently used first), the hash table a
function, a page a value.  `GetPage` is split into the hit and the miss.
Reads and writes fail nondeterministically (`IOErrors`), at every place the code
tests the return code: an eviction that cannot write, a read that fails after the
eviction, a flush or force that stops at some page.  `InternalAlloc` is not an
action but part of the two that call it (`Chosen`, `WrittenBack`, `Install`,
`GiveBack`).  Clients write through pointers (`WriteData`) and mark later; they give up their last pin only
once they have marked what they wrote, as every caller in PF, RM and IX does.  The
parser's `reset buffer` and `resize buffer` are actions too (`Resets`).

**`BufferLinks`** is the lower half of the same class: the lists as the `next` and
`prev` fields of the slots, with `LinkHead`, `Unlink` and `InsertFree` field by field.
It and `BufferMgr` both implement **`SlotLists`**, two lists that partition the
table, a victim that is the last unpinned slot; a slot gets another page only when it
is the one chosen, so that a search that picks the wrong slot is seen.

**`PageStore`** is what the pool promises its callers: a memory of pages whose
contents change only by a client's writes, with a durable copy behind it.

**`PagedFile`** is `PF_FileHandle` and `PF_Manager` for one file, over what
`PageStore` promises: pages in memory and on disk, the header in the handle and on
disk.  A failed flush leaves some pages written.  It implements **`PageSet`**.

**`RecordFile`** is the RM layer over what `PageSet` promises: the record pages with
bitmap, chains and header, the handle with the cached head of the chain, a scan.
Every call may fail where the code fetches or allocates a page (`BufferFails`), and
`GetNextRec` also between two pages.  `due` and `returned` are history variables
that say what the scan owes and has given.  It implements **`RecordSet`**, in which
an insertion is told from an update by the identifier it reports (`rid`).

**`IndexTree`** is `IX_IndexHandle`, `IX_Manager` and `IX_IndexScan` for one index: nodes
are numbered pages, a bucket belongs to its entry.  `InsertEntry` is one action, as in
the code one call: the way down (`Path`), the split of every full node on it, and the
refusals, which come after the splits.  A refusal after the
root has been split leaves the new half without parent; `lost` notes it, and the
properties about searching are stated for trees in which it has not happened.  One round
of the loop of `GetNextEntry` is an action, so that a scan has intermediate states in
which nothing else happens (`busy`).
`due` and `disturbed` are history: what the scan owes, and the keys that have been deleted
from.  An index begins as CREATE INDEX has filled it (`Filled`): the insertions of its
records, in their order, none of them refused, since one that is ends CREATE INDEX.  The
chain of the leaves is followed link by link (`Chain`) and ends, or the properties that
speak of it fail.  It implements **`IndexMap`**, a bounded multimap whose refused insertions may leave
it unsound.

**`Catalog`** holds the operators of `SM_Manager` on one database, as functions from a
catalog to the set of what it may come to, each a catalog and a return code: the change done,
refused, or ended at any page of a catalog, or index file, that cannot be read or written,
with what was done before it.
That covers the exits before, between and after the changes of `CreateTable`
(`sm_manager.cc:315`, `334`), `DropTable` (`368`, `379`), `CreateIndex` (`438-443`) and
`DropIndex` (`480`, `481`, and in every round of the renaming loop, before and after `rename`).
The order of the rows in attrcat (slots, and the chain of free ones) is part of the catalog, since the
code depends on it.  Three fields are history: `botched` names the tables whose creation or
removal stopped half way; `torn` those for which CREATE INDEX stopped between relcat and
attrcat, or DROP INDEX after the file was destroyed; `scrambled` those whose index
files a DROP INDEX renamed in an order in which one replaces another.  The properties
except the tables these name, each only where it is false of them.  Loops over rows are
functions of the number of turns.
**`Session`** adds the databases, the interpreter's `db_opened` and
`current_db`, the catalogs `SM_Manager` has open, and the codes that end the loop of
`RBparse`.  CREATE DATABASE may do nothing: it looks for a folder of that name at a fixed path of
the author's machine (`sm_manager.cc:38`).  The two views of which database is open are kept apart, because the code keeps
them apart.  It is the composition of PARSER and SM.

**`Statements`** is INSERT, DELETE, UPDATE and LOAD for one relation, one action per record.
`disk` is what the files hold, `work` what the statement has in the buffer pool; closing
the files makes one the other.  A statement that fails leaves its files open and its
changes in the pool, where the next one, which opens them anew, does not see them
(`leaked`), and the pool may write them at any later moment (`WriteBack`).  It works on
indexes as `IndexMap` promises them and on records as `RecordSet` does.  INSERT and LOAD check
what they are given, UPDATE does not: its value may be `TooLong`, of the `WrongType`, or another attribute
that does not fit this one (`Unlike`), and either attribute may be `Unknown`.  Then the
bytes of the attribute become any (`Written`); those of a string, which are copied up to a zero byte
(`ql_manager.cc:881`), also replace the attributes `Behind` it.  Of an unknown attribute the
description is uninitialised memory (`:824`), and anything in the record may change (`Junk`), and in any
index.  `happened` tells what the properties make exception for: `torn` (an insertion whose
entries stopped half way), `written` (a page of a failed statement written later), `unchecked`
(a key UPDATE or LOAD may have doubled), `overwritten` (the count), `overrun` (more written than
the attribute); after `written` and `overrun` the indexes are not those of the records, and
no statement is followed further until the table is made anew.  **`Conditions`**
is `checkSatisfy`, shared with the queries.

**`Iterators`** is the six iterators of QL as operators on a sequence of nodes:
constructors, `GetNextRec`, `Reset`.  **`Select`** is the planner: each of its loops and
each of their rounds is an action that adds iterators to the plan, and `PrintNext` pulls
one record.  `plan.doubts` is history: which of four known faults the plan has met.
`GetNextRec` and `Reset` are recursive as in the code, so these two modules are for TLC
only.

`SlotSeqs` holds the operators on slot sequences, `Chains` what it is for links to form a
list, which the free list of a file and both chains of a record file are; the modules whose
names begin with `MC` give TLC its instances (pages of two files, trees to start from,
statements, queries).  The proofs about a module `M` are in `M_proofs`: those of `BufferMgr`,
`BufferLinks`, `PagedFile`, `RecordFile`, `IndexTree`, `Statements`, and of `Session` with
`Catalog`; those about `SlotSeqs` and `Chains` are in `Lists_proofs`.
Operators named `Broken...` are plausible bugs (a dropped guard, a missed reset, an
off-by-one); no specification uses them.  PROJECT.json names the definition each one
replaces and the property that then fails.

The layers meet through their abstract specifications: `BufferMgr` implements `PageStore`,
which is what `PagedFile` builds on; `PagedFile` implements `PageSet`, which `RecordFile`
builds on; `RecordFile` implements `RecordSet` and `IndexTree` implements `IndexMap`, which
`Statements` builds on.

## Runs

| Run | Instance | Checks |
|---|---|---|
| `buffer_pool` (`MCBufferMgr.cfg`) | 3 pages of 2 files, one file growing, 2 slots, 1 pin, failing reads and writes, system commands | `TypeOK`, `SlotsListedOnce`, `HashMatchesUsed`, `CleanPagesMatchDisk`, `PinnedPagesStay`, implements `PageStore` and `SlotLists` |
| `buffer_links` (`MCBufferLinks.cfg`) | up to 3 slots, 2 pages, new tables | `LinksInv` (types, back pointers, the lists partition the table), implements `SlotLists` |
| `paged_file` (`MCPagedFile.cfg`) | 2 pages, 2 values, up to 2 pins, failing flushes | `PagedFileInv` (types, exact free list in memory and on disk, pinned pages in use), `ForceIsDurable`, implements `PageSet` |
| `record_scan` (`MCRecordFile.cfg`) | 2 pages of 2 records, 1 value, a scan | `ScanMissesNothing`, `ScanReturnsOnce` |
| `record_set` (`MCRecordSet.cfg`) | 2 pages of 2 records, 2 values, no scan | `RecordFileInv` (types, both chains exact), implements `RecordSet` |
| `index_tree` (`MCIndexTree.cfg`) | order 4, buckets of 2, from an empty tree, a full root over its leaves and a tree of three levels, 3 kinds of scan | `TreeInv` (types, every key found from the root, balance), `ChainVisitsEveryLeaf`, `KeysAscendAlongChain`, `ScanMissesNothing`, `ScanReturnsOnce`, `ScanEnds`, implements `IndexMap` |
| `session` (`MCSession.cfg`) | 2 databases, one inside the other, 2 tables of up to 3 attributes, 3 rows of attrcat | `SessionInv`, `StuckTillEnd`, `DescriptionWhole`, `IndexesNumbered`, `IndexFilesOwn` |
| `statements` (`MCStatements.cfg`) | a key, a string and an attribute with an index, 3 records, 20 statements | `RelationInv`, `IndexesCover`, `KeyUnique`, `CountExact`, `InsertSeen`, `DeleteEffect`, `UpdateEffect` |
| `select` (`MCSelect.cfg`) | 3 relations of up to 3 records, queries over 1, 2 and 3 of them | `PlanInv`, `NoConditionLost`, `ResultExact`, `CrashesOnNothing`, `Ends` |
| `select_join`, `drop_index`, `null_flags` | the smallest that shows it | each finds one disagreement between a comment and the code |

No run takes more than three minutes with two workers; they visit from 921
(`buffer_links`) to 1,569,256 (`statements`) distinct states.

The bounds, and why they are enough.  Two slots under three pages force evictions; two
files are needed for flushes that pass over pages.  One of the files has none, one
or both of its pages when it is opened and grows; the other has its page from the start
(`SecondFileWhole`, a constraint of the run).  One pin tells pinned from not pinned,
which is what `InternalAlloc` and the flushes ask; more pins are covered by the proofs,
which hold for every bound.  Three slots give `BufferLinks`
every shape of unlinking (head, tail, middle, only one).  The free list of a file,
the chain of free records and the chain of pages are all changed at their heads
only, so that two pages and two records show every change of a head: to and from
the empty list, and on a list that goes on.  A second page is also what a scan needs
to cross a page boundary, in the run of the scan one value and the choice between
a condition that accepts it and one that does not; two values are in the run
of `RecordSet`, where an update must be seen.

The order of an index, 4, is the code's.  One tree to start from has a full root over
leaves of which two are full, so that one insertion splits a leaf and the root, or splits
them and is then refused; the other has three levels, and an insertion splits a leaf and
the inner node above it, which hangs its new half on the root.  The insertions and deletions
are of keys in the middle, at the end and at a separator, of keys that are not there, and
of a second entry for a key, which fills a bucket; later insertions meet the trees these
have made.  Twelve nodes are as many as they make.  In `session` a table of three attributes with the
key in the middle has indexes whose numbers do not ascend along attrcat, so that DROP INDEX
makes one file replace another and DROP TABLE then stops at the missing one with rows
deleted; one of two attributes leaves a row for the other table, so that both are there.
What CREATE TABLE refuses (a column twice, a key that is no column, two keys) is tried too.
One database inside another is all that nesting can do.  With every statement failing everywhere the
catalogs of a few tables have many states, most of them of no interest: the constraint `Small`
keeps those in which one directory alone has tables, only `t` is botched or torn, not both
at once and then with at most two rows, relcat counts no more indexes than there are attributes, and at
most one index file is left of a table that is gone.  The proofs do without it.  In
`statements` three records let two share a value and a third differ; buckets of two
refuse the third entry, which is how a statement fails half way.  The string lies between the
key and the attribute with the index, so that a value too long for it changes the one, whose
index does not follow, and not the other.  At most one image is
left over when a statement begins, which may leave more.  In `select` each
relation is empty or has one to three records, with or without NULLs; three relations are
needed for a join whose left side is a join, and for conditions that become ready only then.
`MaxPins`, `MaxSlots`, `MaxPages`, `MaxNodes`, `MaxRows`, `MaxRid` and `MaxLeaked` bound the
models only.

Deadlock is checked in every run but those of `Select`, where a statement comes to its end
and nothing follows.

## Fairness

`IndexTree` assumes `WF_vars(GetNextEntry)`: the loop in `GetNextEntry` does not stop by
itself, and the iterators above it call until they get the end.  `ScanEnds` then says that
the deletions of the client cannot keep a scan from its end.  `Select` assumes that a
statement goes on as long as it can (`Fairness`, which is `WF_vars(Next)` written with the
states in which `Next` is not enabled): one thread, and nothing it could wait for.  `Ends`
then says that the planner's loops and the joins terminate.  No other liveness is claimed:
every call of the lower layers returns, and nothing in the code obliges a client to make
the next one.

## What is proved

Everything below holds for every value of the constants that satisfies the assumptions the
modules declare; the bounds (`MaxPins`, `MaxPages`, ...) are arbitrary numbers there.  Each
proof module has one inductive invariant, `IInv`, and a theorem `IInvHolds`; the listed
properties follow from it.

**`BufferMgr_proofs`**: for every set of pages and values, every table size and bound on
pins, with failures and system commands,

- `TypeCorrect`: the variables keep their types;
- `ListsPartitionTheTable`: every slot is on one list, once (`SlotsListedOnce`);
- `HashIsExact`: hash table and descriptors agree (`HashMatchesUsed`);
- `NothingToLoseInCleanPages`: a clean page equals its copy on disk
  (`CleanPagesMatchDisk`);
- `PinnedPagesKeepTheirSlot`: no step moves or drops a pinned page
  (`PinnedPagesStay`);
- `ImplementsSlotLists`: every call moves slots between the two lists as `SlotLists` allows
  (`ListsSpec`);
- `ImplementsPageStore`: the pool is the memory of pages `PageStore` promises (`StoreSpec`).

`IInv` is the conjunction of the four state predicates and `UnmarkedPagesPinned`.  None is
inductive alone: a flush keeps the lists disjoint only if the
types and the injectivity of both lists are known; the hash table stays exact only
if a victim taken from the used list is on it once; and a clean page matches its
copy after an unpin or a flush only because what a client has written and not marked
is pinned (`UnmarkedPagesPinned`).  The proof goes action by action; the facts
about sequences (`KeptProperties`, `UnlinkProperties`, `MoveToHeadProperties`,
`ReverseProperties`, ...) are lemmas of `Lists_proofs`.  `Kept` is a selection by
counting positions, not a recursive one, so that it can be proved about; TLC compares
it with `SelectSeq` (`KeptAssumption`).  The refinements ask two things more.  The store
says that a call which finds no page must have met a full pool: pinned pages are in
different slots, so that when every slot is pinned there are as many of them as slots
(`PinnedFit`).  And a flush that stops half way cleans some pages and not others; which ones
is read off the order of the list (`CleanedPages`).

**`BufferLinks_proofs`**: `LinksAreWhole` (`LinksInv`) and `ImplementsSlotLists`
(`ListsSpec`), for every size of the table.  The invariant says that the fields hold two
sequences (`Holds`), the used list in both directions, that share the table (`Share`).
`LinkHead`, `Unlink` and `InsertFree` are shown to change these sequences as the list
operations of `SlotLists` do, whatever the fields of slots off the lists contain; the walk
for a victim from the tail along `prev` meets the reverse of the list, so that the slot it
stops at is the last unpinned one.  The loop that releases slots while it walks the list
is handled by what it has met so far (`Met`).

**`PagedFile_proofs`**: `FreeListIsKept` (`PagedFileInv`), `ForceMakesDurable`
(`ForceIsDurable`), `ImplementsPageSet` (`PageSetSpec`).  The free list can be shown
exact only together with the fact that the header counts just the pages that have contents,
in memory and, once closed, on disk; what `ForcePages` makes durable rests on the flag
`bHdrChanged` being set whenever the header of the handle is not the one on disk (`Settled`).
What a page put in front of a chain or taken from it makes of the chain are lemmas of
`Lists_proofs` (`ChainPush`, `ChainPop`), which `RecordFile_proofs` uses for both of its own.

**`RecordFile_proofs`**: `ChainsAreKept` (`RecordFileInv`), `NothingMissed`
(`ScanMissesNothing`), `NothingReturnedTwice` (`ScanReturnsOnce`), `ImplementsRecordSet`
(`RecordSetSpec`).  The chains need that the live pages are the first ones, that every record
lies below `allocatedRecords`, and that a handle whose header is not dirty has that of the
file (`Settled`); the scan needs that its position lies in the file, that what it has
returned is behind it and what it owes returned or ahead (`Cursor`).  The run `record_set`
checks `FileSpec`, which leaves the scan out; `NoScanIsSpec` shows it to be `Spec` without
the scan's steps, so that what is proved of `Spec` holds of it.

**`IndexTree_proofs`**, for every order of at least 4, buckets of any size, any keys, any depth
of the tree, any fillings, insertions, deletions and scans, and any number of nodes:
`TreeStaysInOrder` (`TreeInv`), `EveryLeafIsOnTheChain` (`ChainVisitsEveryLeaf`),
`ChainAscendsAlways` (`KeysAscendAlongChain`), `ScanIsComplete` (`ScanMissesNothing`),
`ScanIsExact` (`ScanReturnsOnce`), `ImplementsIndexMap` (`MapSpec`).

None of the properties is inductive, and no property of the keys in the nodes alone would be:
one insertion may change a separator on every level.  The invariant says that the
tree can be seen in one way (`WellRooted`): every node has a height `h` and a *span* `s`, the
values that lead to it, and the leaves have an order `c`, such that the keys of an inner node part
its span among its children, which are one lower; nodes of one height have spans apart;
the keys of a leaf lie in its span; the links of the leaves are `c`, along which the spans ascend;
and the span of the root is everything, unless a half has been lost.  The values of `h`, `s`
and `c` are not in the state, so the invariant is an existential, and each step gives
the new ones.  The argument for an insertion follows the code:

- down: the recursion of `insert_internal` ends, since heights fall, at a leaf whose span has the
  key (`PathsExist`, `PathLeads`);
- at the leaf: it either keeps its span, or is divided at the key that goes up into two
  leaves, the new one behind it on the chain (`InsertLeafRoom`, `InsertLeafFull`); the bucket answers
  for all entries with the key, since no other leaf has one (`KeyElsewhere`, `PartAnswers`);
- up: once a child has been dealt with, its parent takes the new separator, or is itself divided
  with the one in the middle in neither half (`InternalKept`, `InternalRoom`, `InternalFull`); what
  has been reached after each level is `Grown`;
- at the root: a new one over both halves, or, after a refusal, a half that hangs
  nowhere (`Finished`, `InsertionIs`).

The recursion down and up is over functions of the model, whose values are shown to exist by
induction on the height (`UpExists`, `DownExists`; `LeastNat` is the induction the provers can
do).  The scan has a place in the order of all entries (`ScanAt`): what it owes is what
satisfies its condition and lies ahead, but for keys in `disturbed`.  A deletion moves only what shares
the bucket (`DeletedBeside`); GT and GE need that all that is ahead satisfies, LT and LE that
nothing behind the first key that is too great does (`StaysTooGreat`).  Proving it
changed the model in one place: `Filled` went on after a refused insertion, which the
code does not.

**`Statements_proofs`**, for any attributes, any indexes on them and any statements of the
shape `StatementsShape`: `IndexesAreExact` (`RelationInv`), `NoRecordUnindexed`
(`IndexesCover`), `KeysStayUnique` (`KeyUnique`), `CountStaysExact` (`CountExact`), and what the
statements do: `InsertedAsGiven` (`InsertSeen`), `DeletedAsMeant` (`DeleteEffect`),
`UpdatedAsMeant` (`UpdateEffect`).  `StatementsShape` asks of UPDATE nothing the code does not:
any attribute, existing or not, any value, fitting or not.  `UpdateEffect` says what of the record
is spared in each case: the records not selected always; of the others every attribute but
the updated one when the value fits it, or it is no string; when it is a string and the value does
not fit, the attributes before it, and which attributes behind it are NULL.  The files a statement works on are as good as those on the
disk, which it will replace, so `IInv` says everything of both, and relates them
(`Progress`): DELETE and UPDATE are done with the places before the one they have come to and have
not touched the others.  The last three theorems assume `NumbersAgree`: that the catalog numbers
the NULL flags as INSERT counts them.  In a database in which no table has been dropped they
do, and in the run `statements`; the finding `null_flags` shows where they do not, and
there what the three say is false.

**`Session_proofs`**, for any databases, tables, attributes and CREATE TABLE statements:
`SessionInvHolds`, `DescriptionWholeHolds`, `IndexesNumberedHolds`, `IndexFilesOwnHolds` and
`StuckTillEndHolds`.  For each catalog, `IInv` says that the free slots of attrcat are those
of its list (`WellFormed`), and for each table what its rows, its row in relcat and its index files
say of each other (`TableInv`): the properties, and that a table which is not there and not
`botched` has no rows, without which a new table would inherit some.  The loops of
`CreateTable`, `DropTable` and `DropIndex` (`InsertRows`, `DropRows`, `RenumberRows`) are functions
of the turn; what they have done after each is an invariant of the turn, proved by its
least counterexample.  Each statement touches the rows and files of one table only
(`OtherTables`).  `IndexesNumberedHolds` and `IndexFilesOwnHolds` are
for tables that are not `botched` or `torn`: a torn one may have an index counted that no row
has, a row whose file is gone, or a file under the number its row will never get; that it is
still described by all its attributes is part of `DescriptionWhole`, which does not except it.
The attempt showed that `DescriptionWhole` was false as first stated: DROP
TABLE after a DROP INDEX that lost an index file stops there with some rows deleted, and
leaves the row in relcat.  `botched` now covers the removal as well as the creation, and the
run `session` has the three attributes it takes.

Only model-checked:

- `Select` and `Iterators`: `GetNextRec` and `Reset` are recursive over the tree of iterators as
  in the code, and modules with recursive operators are out of the prover's reach.
- All liveness (`ScanEnds`, `Ends`) and whatever needs ENABLED, which the prover does not have.

## Where the code departs from its comments

Three runs expect a violation and show one:

- `select_join`: the condition of a nested loop is used with the offsets it was read with
  (`ql_manager.cc:425`), so that a join on attributes without an index gives wrong records.
- `drop_index`: index files are renamed in the order of their rows (`sm_manager.cc:505`),
  so that one may replace another.
- `null_flags`: the number of a NULL flag is given before the attributes are sorted
  (`sm_manager.cc:691`), so that conditions ask for the flag of another attribute after
  rows have been reused.

What else the models had to have as the code does it:

- `reset buffer` discards pages marked dirty (`pf_buffermgr.cc:576`), which the comment of
  `MarkDirty` excludes; `resize buffer` neither copies pinned pages nor keeps their slots
  (`pf_buffermgr.cc:673`); `DeleteRec` of a record that is not there leaves the page pinned
  (`rm_filehandle.cc:162`).
- An index entry is refused after the split that made room for it
  (`ix_indexhandle.cc:64`), and the deletion of an entry that is not there may report
  success (`:139`).
- USE of a database that does not exist, and DROP DATABASE of another one, leave the
  session without open catalogs; no statement gets it out of that (`StuckTillEnd`), and DROP
  TABLE ends the session then.  CREATE DATABASE on an existing one enters everything
  twice; while a database is open it creates the new one inside it.
- DROP TABLE of a table that is not there ends the session: a failing system call has a
  negative code.  A CREATE TABLE that fails leaves its attributes' rows, which DROP TABLE
  cannot remove without the file.
- DROP TABLE that does not find an index file (`sm_manager.cc:363-372`) stops with the table's file
  and some of its attributes' rows gone and its row in relcat left; every statement on the
  table's records ends the session from then on, as DROP TABLE itself does.  A CREATE INDEX that fails leaves its file, which
  the next one on that table finds in its way; if it fails between the two catalogs, relcat counts an
  index that there is not (`sm_manager.cc:438`).  A DROP INDEX that fails after its first
  step leaves rows whose file is gone or has another name (`:475-508`).
- After DROP INDEX on the primary key, INSERT fails on every record.  UPDATE and LOAD look
  for no duplicate (`unchecked` in `Statements`); LOAD overwrites the count.  UPDATE compares
  its value with the attribute neither in type nor in length, so that a string may run over the
  attributes behind, and of an attribute that does not exist it uses whatever description
  the memory holds.
- NULLs are indexed under zeroed bytes, and an UPDATE to NULL leaves the old entry, so that
  a search by the index finds them; a join condition turned round keeps its operator
  (`ql_manager.cc:369`); an indexed join inside a loop is reset with a stale value
  (`ql_indexjoiniter.cc:68`).  These three and the fault of `select_join` are the `doubts` of `Select`.
- A join whose left input is empty copies from a record it has not read
  (`ql_joiniter.cc:20`); IS NULL and `= NULL` by an index end the program;
  a search for a join is opened with an uninitialised value (`ql_indexsearchiter.cc:7`).

## Not modelled

- Raw memory blocks of the pool (no caller), its log and statistics, parsing and building
  trees, printing, HELP and SET, error texts: no state the rest depends on.
- The optimizer in `src/OP` compares costs in floating point and is called by no other part.
- Crashes: the code has no recovery, so that all that can be stated is what `ForcePages`
  makes durable (`ForceIsDurable`).
- A failure when a session that ends closes the catalogs; attrcat on a second page.  The code for an
  attribute too long for an index (`IX_ATTR_TOO_LARGE`) is not reached: CREATE TABLE limits strings to less.
- What an UPDATE does outside the record: a string written past its end, into the heap, or
  a crash on the description of an unknown attribute, which ends the program.  The uninitialised
  description is taken anew for each record, which allows more than the code does.
- Partial writes: `PF_INCOMPLETEWRITE` (`pf_buffermgr.cc:891`) leaves part of a page on
  disk, where the model leaves the disk as it was.  Failing system calls in `pf_manager.cc`; the
  calls on a closed file, which only return a code, are guards.  A second `CloseFile` after one
  that failed on a pinned page, which frees `nullableOffsets` twice (`rm_manager.cc:164`).
- What comes after a half of an index was lost (`lost`), or a deletion of an entry that is not there
  in `Statements`: it always refuses there, though `DeleteEntry` may report success
  (`ix_indexhandle.cc:139`); while `IndexesCover` holds, no statement makes one.
- Opening a file twice, which `pf_manager.cc:118-124` declares unsafe, except for what it
  does to the files of a failed statement (`Statements`).
- The byte layout of records and pages, types other than integers, attributes of different
  widths.  An INT literal in a FLOAT attribute is stored bit for bit (`ql_manager.cc:36`, `624`): values
  are compared here as they lie in the record, not as they were written.  Whether an index has
  anything to search for is asked of the relation (`Astray` in `Iterators`), not of the keys
  whose buckets have been emptied, which stay in it.  Reading the lines of a file in LOAD: text that is no number is taken for one, and
  an empty file reads an uninitialised buffer.
- Relations that a query reads twice, and errors of the file system in IX and QL.
- Iterators and handles that are never closed: memory and buffers are not counted.

## What could follow

- Proofs about `Select` would need the iterators without recursion: the tree of iterators as a
  sequence in which inputs come before what reads them, `GetNextRec` as a fold over it.
- The hazards without a property in PROJECT.json wait for something the code could promise:
  a crash between two files that are forced, a pool that is resized under pinned pages.
