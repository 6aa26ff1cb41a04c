----------------------------- MODULE RecordFile -----------------------------
(***************************************************************************)
(* RM_FileHandle, RM_Manager and RM_FileScan (src/RM): a table's records   *)
(* in the pages of a file.  Page 0 holds the table's header, every later   *)
(* page up to RecordsPerPage records.  Deleted records are chained through *)
(* their own bytes within a page, pages with deleted records are chained   *)
(* through their headers, and the head of that second chain lives in the   *)
(* handle; CloseFile writes it to page 0.                                  *)
(*                                                                         *)
(* The file below is used through what module PageSet promises: its pages  *)
(* survive flushing and closing.  Fetching or allocating a page may fail   *)
(* when the buffer pool is full.  A record's bytes and its null bits are   *)
(* one value.                                                              *)
(***************************************************************************)
EXTENDS Chains

CONSTANTS
    Vals,            \* what a record can hold; no integer is one of them
    RecordsPerPage,  \* recordsPerPage of the table
    MaxPages,        \* bound: record pages of the table
    NoPage,          \* the file does not have the page
    NoRecord         \* the slot holds no record

kLastFreePage == -1
kLastFreeRecord == -2
NoRid == <<-1, -1>>

PageNums == 1 .. MaxPages
Slots == 0 .. RecordsPerPage - 1
Rids == PageNums \X Slots
PageLinks == PageNums \cup {kLastFreePage}
SlotLinks == Slots \cup {kLastFreeRecord}

Page == [firstFreeRecord : SlotLinks, allocatedRecords : 0 .. RecordsPerPage,
         nextFreePage : PageLinks, bitmap : SUBSET Slots,
         cell : [Slots -> Vals \cup SlotLinks]]

ASSUME RecordFileAssumption ==
    /\ RecordsPerPage \in Nat \ {0} /\ MaxPages \in Nat \ {0}
    /\ NoRecord \notin Vals /\ Vals \cap Int = {}
    /\ NoPage \notin Page

VARIABLES
    file,        \* "absent", "partial" (CreateFile failed halfway) or "whole"
    diskHeader,  \* firstFreePage in page 0
    pages,       \* the record pages
    handle,      \* the client's handle: [state, firstFreePage, isHeaderDirty]
    pinned,      \* pages somebody forgot to unpin
    scan,        \* the client's scan: [opened, ready, page, slot, wanted]
    due,         \* records a scan still has to return
    returned,    \* records it has returned
    rc,          \* what the last call returned
    rid          \* and the rid it reported, if it was an insertion

fileVars == <<file, diskHeader, pages>>
scanVars == <<scan, due, returned>>
vars == <<fileVars, handle, pinned, scanVars, rc, rid>>

ReturnCodes == {"OK", "PF_BUFFER", "PF_UNIX", "PF_EOF", "PF_CLOSEDFILE", "PF_INVALIDPAGE",
                "PF_PAGEPINNED", "RM_FILE_NOT_OPENED", "RM_RECORD_DELETED", "RM_EOF",
                "RM_SCAN_NOT_OPENED", "RM_SCAN_NOT_CLOSED"}

NewHandle == [state |-> "new", firstFreePage |-> kLastFreePage, isHeaderDirty |-> FALSE]
EmptyPage == [firstFreeRecord |-> kLastFreeRecord, allocatedRecords |-> 0,
              nextFreePage |-> kLastFreePage, bitmap |-> {}, cell |-> [s \in Slots |-> 0]]

IsOpen == handle.state = "open"
LivePages == {p \in PageNums : pages[p] # NoPage}
LastPage == CHOOSE p \in LivePages : \A q \in LivePages : q <= p
Live(p, s) == p \in LivePages /\ s \in pages[p].bitmap
Records == {r \in Rids : Live(r[1], r[2])}

Init ==
    /\ file = "absent" /\ diskHeader = kLastFreePage
    /\ pages = [p \in PageNums |-> NoPage]
    /\ handle = NewHandle
    /\ pinned = {}
    /\ scan = [opened |-> FALSE, ready |-> FALSE, page |-> 1, slot |-> 0, wanted |-> {}]
    /\ due = {} /\ returned = {}
    /\ rc = "OK" /\ rid = NoRid

Answer(code) == rc' = code /\ rid' = NoRid
Returns(code) == Answer(code) /\ UNCHANGED <<fileVars, handle, pinned, scanVars>>

(* The pool is full, and the page is not in it.                            *)
BufferFails == Returns("PF_BUFFER")

(* What a call on a handle that is not open returns: only a handle that    *)
(* was never opened has recordSize 0.                                      *)
NotOpen == IF handle.state = "new" THEN "RM_FILE_NOT_OPENED" ELSE "PF_CLOSEDFILE"

----------------------------------------------------------------------------
(* RM_Manager.  SM creates the file of a relation it does not have yet;    *)
(* a failure leaves a file without pages.                                  *)
CreateFile ==
    /\ file # "whole"
    /\ \/ /\ file' = "whole" /\ diskHeader' = kLastFreePage
          /\ pages' = [p \in PageNums |-> IF p = 1 THEN EmptyPage ELSE NoPage]
          /\ Answer("OK")
       \/ file' = "partial" /\ Answer("PF_BUFFER") /\ UNCHANGED <<diskHeader, pages>>
    /\ UNCHANGED <<handle, pinned, scanVars>>

DestroyFile ==
    /\ ~IsOpen
    /\ IF file = "absent"
       THEN Returns("PF_UNIX")
       ELSE /\ file' = "absent" /\ pages' = [p \in PageNums |-> NoPage]
            /\ Answer("OK")
            /\ UNCHANGED <<diskHeader, handle, pinned, scanVars>>

(* A client drops the handle it could not open.                            *)
OpenFile ==
    /\ ~IsOpen
    /\ \/ file = "absent" /\ Returns("PF_UNIX")
       \/ \E code \in {"PF_EOF", "PF_BUFFER"} :
           /\ (code = "PF_EOF") = (file = "partial") /\ file # "absent"
           /\ handle' = NewHandle /\ Answer(code)
           /\ UNCHANGED <<fileVars, pinned, scanVars>>
       \/ /\ file = "whole"
          /\ handle' = [state |-> "open", firstFreePage |-> diskHeader,
                        isHeaderDirty |-> FALSE]
          /\ Answer("OK")
          /\ UNCHANGED <<fileVars, pinned, scanVars>>

SavedHeader == IF handle.isHeaderDirty THEN handle.firstFreePage ELSE diskHeader

(* The header goes to page 0 when it has changed; the file stays open when *)
(* a page of it is still pinned.                                           *)
CloseFile ==
    /\ handle.state # "new"
    /\ \/ ~IsOpen /\ Returns("PF_CLOSEDFILE")
       \/ IsOpen /\ handle.isHeaderDirty /\ BufferFails
       \/ /\ IsOpen
          /\ diskHeader' = SavedHeader
          /\ IF pinned = {}
             THEN handle' = [handle EXCEPT !.state = "closed"] /\ Answer("OK")
             ELSE Answer("PF_PAGEPINNED") /\ UNCHANGED handle
          /\ UNCHANGED <<file, pages, pinned, scanVars>>

----------------------------------------------------------------------------
(* RM_FileHandle                                                           *)
Store(p, page) == pages' = [pages EXCEPT ![p] = page]

(* A record that is deleted or changed is no longer due to the scan.       *)
NotDue(p, s) == due' = due \ {<<p, s>>} /\ UNCHANGED <<scan, returned>>

GetRec(p, s) ==
    \/ ~IsOpen /\ Returns(NotOpen)
    \/ IsOpen /\ p \notin LivePages /\ Returns("PF_INVALIDPAGE")
    \/ IsOpen /\ p \in LivePages /\ (BufferFails \/ Returns("OK"))

(* Into the first deleted record of the first page that has one.           *)
ReuseSlot(v) ==
    LET p == handle.firstFreePage
        page == pages[p]
        s == page.firstFreeRecord
        next == page.cell[s]
    IN  /\ p # kLastFreePage
        /\ Store(p, [page EXCEPT !.firstFreeRecord = next,
                                 !.bitmap = @ \cup {s}, !.cell[s] = v])
        /\ rid' = <<p, s>>
        /\ handle' = IF next = kLastFreeRecord
                     THEN [handle EXCEPT !.firstFreePage = page.nextFreePage,
                                         !.isHeaderDirty = TRUE]
                     ELSE handle

(* Behind the records of the last page, or on a new page.                  *)
IsFull(page) == page.allocatedRecords = RecordsPerPage

BrokenAppended(page, v) ==
    LET s == page.allocatedRecords
    IN  [page EXCEPT !.bitmap = @ \cup {s}, !.cell[s] = v]

Appended(page, v) ==
    LET s == page.allocatedRecords
    IN  [page EXCEPT !.allocatedRecords = @ + 1, !.bitmap = @ \cup {s}, !.cell[s] = v]

ExtendFile(v) ==
    LET full == IsFull(pages[LastPage])
        p == IF full THEN LastPage + 1 ELSE LastPage
        page == IF full THEN EmptyPage ELSE pages[p]
    IN  /\ handle.firstFreePage = kLastFreePage
        /\ p \in PageNums
        /\ Store(p, Appended(page, v))
        /\ rid' = <<p, page.allocatedRecords>>
        /\ UNCHANGED handle

InsertRec(v) ==
    \/ ~IsOpen /\ Returns(NotOpen)
    \/ IsOpen /\ BufferFails
    \/ /\ IsOpen
       /\ ReuseSlot(v) \/ ExtendFile(v)
       /\ rc' = "OK"
       /\ UNCHANGED <<file, diskHeader, pinned, scanVars>>

(* The deleted record becomes the first free one of its page, and a page   *)
(* that had none the first free page of the file.                          *)
WasFull(page) == page.firstFreeRecord = kLastFreeRecord

BrokenFreed(page, s) ==
    [page EXCEPT !.bitmap = @ \ {s}, !.firstFreeRecord = s, !.cell[s] = s,
                 !.nextFreePage = IF WasFull(page) THEN handle.firstFreePage ELSE @]

Freed(page, s) ==
    [page EXCEPT !.bitmap = @ \ {s}, !.firstFreeRecord = s, !.cell[s] = page.firstFreeRecord,
                 !.nextFreePage = IF WasFull(page) THEN handle.firstFreePage ELSE @]

(* Deleting a record that is not there leaves its page pinned.             *)
DeleteRec(p, s) ==
    \/ ~IsOpen /\ Returns(NotOpen)
    \/ IsOpen /\ p \notin LivePages /\ Returns("PF_INVALIDPAGE")
    \/ IsOpen /\ p \in LivePages /\ BufferFails
    \/ /\ IsOpen /\ p \in LivePages /\ ~Live(p, s)
       /\ pinned' = pinned \cup {p}
       /\ Answer("RM_RECORD_DELETED")
       /\ UNCHANGED <<fileVars, handle, scanVars>>
    \/ /\ IsOpen /\ Live(p, s)
       /\ Store(p, Freed(pages[p], s))
       /\ handle' = IF WasFull(pages[p])
                    THEN [handle EXCEPT !.firstFreePage = p, !.isHeaderDirty = TRUE]
                    ELSE handle
       /\ NotDue(p, s)
       /\ Answer("OK")
       /\ UNCHANGED <<file, diskHeader, pinned>>

(* No test that the record is still there.                                 *)
UpdateRec(p, s, v) ==
    \/ ~IsOpen /\ Returns(NotOpen)
    \/ IsOpen /\ p \notin LivePages /\ Returns("PF_INVALIDPAGE")
    \/ IsOpen /\ p \in LivePages /\ BufferFails
    \/ /\ IsOpen /\ p \in LivePages
       /\ Store(p, [pages[p] EXCEPT !.cell[s] = v])
       /\ NotDue(p, s)
       /\ Answer("OK")
       /\ UNCHANGED <<file, diskHeader, handle, pinned>>

----------------------------------------------------------------------------
(* RM_FileScan.  The condition of a scan is the set of values it accepts.  *)
Matches(p, s) == Live(p, s) /\ pages[p].cell[s] \in scan.wanted

(* OpenScan is marked open before the header is read: if that fails, the   *)
(* scan is open and has no position.                                       *)
OpenScan(W) ==
    IF scan.opened THEN Returns("RM_SCAN_NOT_CLOSED")
    ELSE /\ IsOpen
         /\ \/ scan' = [scan EXCEPT !.opened = TRUE, !.ready = FALSE, !.wanted = W]
               /\ Answer("PF_BUFFER")
               /\ due' = {}
            \/ scan' = [opened |-> TRUE, ready |-> TRUE, page |-> 1, slot |-> 0, wanted |-> W]
               /\ Answer("OK")
               /\ due' = {r \in Records : pages[r[1]].cell[r[2]] \in W}
         /\ returned' = {}
         /\ UNCHANGED <<fileVars, handle, pinned>>

MoveTo(p, s, code) ==
    /\ scan' = [scan EXCEPT !.page = p, !.slot = s]
    /\ Answer(code)
    /\ UNCHANGED <<fileVars, handle, pinned, due>>

(* The records from the scan's position on, and how the walk to the next   *)
(* one that matches may end.                                               *)
BrokenAhead == {r \in Rids : r[1] >= scan.page /\ r[2] >= scan.slot /\ Matches(r[1], r[2])}
Ahead == {r \in Rids : /\ r[1] > scan.page \/ (r[1] = scan.page /\ r[2] >= scan.slot)
                       /\ Matches(r[1], r[2])}
IsNextRec(r) ==
    /\ r \in Ahead
    /\ \A q \in Ahead : r[1] < q[1] \/ (r[1] = q[1] /\ r[2] <= q[2])

BrokenSlotAfter(r) == r[2]
SlotAfter(r) == r[2] + 1

GetNextRec ==
    IF ~scan.opened THEN Returns("RM_SCAN_NOT_OPENED")
    ELSE /\ IsOpen /\ scan.ready
         /\ \/ BufferFails
            \* a page on the way cannot be fetched
            \/ \E p \in LivePages :
                /\ p >= scan.page /\ p + 1 \in LivePages
                /\ \A r \in Ahead : r[1] > p
                /\ MoveTo(p, pages[p].allocatedRecords, "PF_BUFFER") /\ UNCHANGED returned
            \/ Ahead = {} /\ MoveTo(LastPage, pages[LastPage].allocatedRecords, "RM_EOF")
               /\ UNCHANGED returned
            \/ \E r \in Ahead : IsNextRec(r) /\ MoveTo(r[1], SlotAfter(r), "OK")
               /\ returned' = returned \cup {r}

CloseScan ==
    IF ~scan.opened THEN Returns("RM_SCAN_NOT_OPENED")
    ELSE /\ scan' = [scan EXCEPT !.opened = FALSE, !.ready = FALSE]
         /\ due' = {} /\ returned' = {}
         /\ Answer("OK")
         /\ UNCHANGED <<fileVars, handle, pinned>>

(* A scan does not outlive the handle it reads through.                    *)
Close == ~scan.opened /\ CloseFile

(* Clients update records they have just read.                             *)
FileNext ==
    \/ CreateFile \/ DestroyFile \/ OpenFile \/ Close
    \/ \E v \in Vals : InsertRec(v)
    \/ \E p \in PageNums, s \in Slots :
        \/ GetRec(p, s) \/ DeleteRec(p, s)
        \/ \E v \in Vals : (p \in LivePages => Live(p, s)) /\ UpdateRec(p, s, v)

ScanNext == (\E W \in SUBSET Vals : OpenScan(W)) \/ GetNextRec \/ CloseScan

Next == FileNext \/ ScanNext

Spec == Init /\ [][Next]_vars

(* Clients that never scan, for runs with more values or more pages.       *)
FileSpec == Init /\ [][FileNext]_vars

----------------------------------------------------------------------------
(* The variables range over what the code's types and states allow.        *)
TypeOK ==
    /\ file \in {"absent", "partial", "whole"}
    /\ diskHeader \in PageLinks
    /\ pages \in [PageNums -> Page \cup {NoPage}]
    /\ handle \in [state : {"new", "open", "closed"}, firstFreePage : PageLinks,
                   isHeaderDirty : BOOLEAN]
    /\ pinned \subseteq PageNums
    /\ scan \in [opened : BOOLEAN, ready : BOOLEAN, page : PageNums,
                 slot : 0 .. RecordsPerPage, wanted : SUBSET Vals]
    /\ due \subseteq Rids /\ returned \subseteq Rids
    /\ rc \in ReturnCodes /\ rid \in Rids \cup {NoRid}

Deleted(p) == {s \in Slots : s < pages[p].allocatedRecords /\ ~Live(p, s)}

(* The chain of free records of a page, kept in the records' own bytes,    *)
(* holds every deleted record of the page once and nothing else.           *)
FreeSlotsChained ==
    \A p \in LivePages :
        Chained(pages[p].firstFreeRecord, pages[p].cell, kLastFreeRecord, Deleted(p))

(* The chain of pages with free records, from the header in the handle or, *)
(* when no handle is open, from page 0, holds every page with a deleted    *)
(* record once and no other: InsertRec wastes none and is sent to no full  *)
(* page.                                                                   *)
FreePagesChained ==
    file = "whole" =>
        Chained(IF IsOpen THEN handle.firstFreePage ELSE diskHeader,
                [p \in LivePages |-> pages[p].nextFreePage], kLastFreePage,
                {p \in LivePages : Deleted(p) # {}})

(* The invariant of a record file: types and both chains.                  *)
RecordFileInv == TypeOK /\ FreeSlotsChained /\ FreePagesChained

(* Between two calls of GetNextRec records are inserted, deleted and       *)
(* changed: those that matched when the scan was opened and were left      *)
(* alone have been returned or are still ahead of the scan, so when        *)
(* GetNextRec says RM_EOF none has been missed.                            *)
ScanMissesNothing == scan.ready => due \subseteq returned \cup Ahead

(* A scan returns no record a second time, though the record may be        *)
(* deleted, inserted again or changed in the meantime.                     *)
ScanReturnsOnce == [][GetNextRec /\ rc' = "OK" => returned' # returned]_vars

(* The file is a set of records: no insertion lands on a record that is    *)
(* there, none is lost, and all are there again when the file is reopened. *)
RecordOf(r) == IF Live(r[1], r[2]) THEN pages[r[1]].cell[r[2]] ELSE NoRecord
Set == INSTANCE RecordSet WITH exists <- file = "whole", open <- IsOpen,
                               recs <- [r \in Rids |-> RecordOf(r)],
                               new <- rid, none <- NoRid
RecordSetSpec == Set!Spec
=============================================================================
