----------------------------- MODULE PagedFile -----------------------------
(***************************************************************************)
(* PF_FileHandle and PF_Manager (src/PF/pf_filehandle.cc, pf_manager.cc):  *)
(* a file of pages with a header.  Disposed pages form a list that starts  *)
(* in the header and runs through the pages themselves; the header lives   *)
(* in the handle and reaches the disk when pages are flushed or forced.    *)
(*                                                                         *)
(* The buffer pool below is used through what module PageStore promises:   *)
(* mem and durable are its two views of a page, a page may be written back *)
(* at any time (WriteBack), and a call that has to read a page may fail.   *)
(* One handle is opened on the file at a time.                             *)
(***************************************************************************)
EXTENDS Chains

CONSTANTS
    Vals,        \* what the data part of a page can hold
    Zero,        \* the data of a page of zero bytes
    NoPage,      \* the page is beyond the end of the Unix file
    MaxPages,    \* bound: pages in the file
    MaxPins      \* bound: pins of a page

ASSUME PagedFileAssumption ==
    /\ Zero \in Vals
    /\ MaxPages \in Nat /\ MaxPins \in Nat \ {0}
    /\ NoPage \notin [next : Int, val : Vals] /\ NoPage \notin Vals

PF_PAGE_LIST_END == -1
PF_PAGE_USED == -2

PageNums == 0 .. MaxPages - 1
Links == PageNums \cup {PF_PAGE_LIST_END}
Page == [next : Links \cup {PF_PAGE_USED}, val : Vals]
Hdr == [firstFree : Links, numPages : 0 .. MaxPages]

ReturnCodes == {"OK", "PF_CLOSEDFILE", "PF_FILEOPEN", "PF_INVALIDPAGE", "PF_PAGEFREE",
                "PF_PAGEPINNED", "PF_PAGEUNPINNED", "PF_EOF", "PF_BUFFER", "PF_UNIX"}

VARIABLES
    exists,      \* the Unix file exists
    bFileOpen,   \* the handle is open
    hdr,         \* the handle's copy of the header
    bHdrChanged, \* it differs from the one on disk
    diskHdr,     \* the header in the Unix file
    mem,         \* the pages as the buffer pool shows them
    durable,     \* the pages in the Unix file
    pins,        \* pins of the pages
    rc           \* what the last call returned

disk == <<exists, diskHdr, durable>>
vars == <<exists, bFileOpen, hdr, bHdrChanged, diskHdr, mem, durable, pins, rc>>

IsValidPageNum(p) == bFileOpen /\ p \in 0 .. hdr.numPages - 1
IsUsed(p) == mem[p] # NoPage /\ mem[p].next = PF_PAGE_USED
Pinned == {p \in PageNums : pins[p] > 0}

NoPages == [p \in PageNums |-> NoPage]
NewHdr == [firstFree |-> PF_PAGE_LIST_END, numPages |-> 0]

(* The Unix file once the pages in W are written.                          *)
WrittenOut(W) ==
    [p \in PageNums |->
        IF p \in W THEN mem[p]
        ELSE IF durable[p] = NoPage /\ \E w \in W : p < w
             THEN [next |-> 0, val |-> Zero] ELSE durable[p]]

Init ==
    /\ exists = FALSE /\ bFileOpen = FALSE
    /\ hdr = NewHdr /\ bHdrChanged = FALSE /\ diskHdr = NewHdr
    /\ mem = NoPages /\ durable = NoPages
    /\ pins = [p \in PageNums |-> 0]
    /\ rc = "OK"

Returns(code) ==
    rc' = code /\ UNCHANGED <<disk, bFileOpen, hdr, bHdrChanged, mem, pins>>

----------------------------------------------------------------------------
(* PF_Manager                                                              *)
CreateFile ==
    IF exists
    THEN Returns("PF_UNIX")
    ELSE /\ exists' = TRUE /\ diskHdr' = NewHdr /\ durable' = NoPages
         /\ rc' = "OK"
         /\ UNCHANGED <<bFileOpen, hdr, bHdrChanged, mem, pins>>

(* Callers destroy a file they have closed.                                *)
DestroyFile ==
    /\ ~bFileOpen
    /\ IF exists
       THEN /\ exists' = FALSE /\ rc' = "OK"
            /\ UNCHANGED <<diskHdr, durable, bFileOpen, hdr, bHdrChanged, mem, pins>>
       ELSE Returns("PF_UNIX")

OpenFile ==
    IF bFileOpen THEN Returns("PF_FILEOPEN")
    ELSE IF ~exists THEN Returns("PF_UNIX")
    ELSE /\ bFileOpen' = TRUE
         /\ hdr' = diskHdr /\ bHdrChanged' = FALSE
         /\ mem' = durable
         /\ rc' = "OK"
         /\ UNCHANGED <<disk, pins>>

(* Broken: the pages are written and the header is not.                    *)
BrokenFlushOutcome(code) ==
    /\ bHdrChanged' = FALSE
    /\ durable' = WrittenOut({p \in PageNums : mem[p] # durable[p] /\ pins[p] = 0})
    /\ rc' = code
    /\ UNCHANGED <<exists, diskHdr, hdr, pins>>

(* FlushPages: the header, then every page that is not pinned.             *)
FlushOutcome(code) ==
    /\ diskHdr' = IF bHdrChanged THEN hdr ELSE diskHdr
    /\ bHdrChanged' = FALSE
    /\ durable' = WrittenOut({p \in PageNums : mem[p] # durable[p] /\ pins[p] = 0})
    /\ rc' = code
    /\ UNCHANGED <<exists, hdr, pins>>

FlushPages ==
    /\ bFileOpen
    /\ FlushOutcome(IF Pinned = {} THEN "OK" ELSE "PF_PAGEPINNED")
    /\ UNCHANGED <<bFileOpen, mem>>

(* CloseFile keeps the file open when a page is still pinned.              *)
CloseFile ==
    /\ bFileOpen
    /\ IF Pinned = {}
       THEN FlushOutcome("OK") /\ bFileOpen' = FALSE /\ mem' = NoPages
       ELSE FlushOutcome("PF_PAGEPINNED") /\ UNCHANGED <<bFileOpen, mem>>

(* Broken: a forced file keeps its pinned pages in memory, as a flushed    *)
(* one does.                                                               *)
BrokenForcePages(P) ==
    /\ bFileOpen
    /\ diskHdr' = IF bHdrChanged THEN hdr ELSE diskHdr
    /\ bHdrChanged' = FALSE
    /\ durable' = WrittenOut({p \in P : mem[p] # durable[p] /\ pins[p] = 0})
    /\ rc' = "OK"
    /\ UNCHANGED <<exists, bFileOpen, hdr, mem, pins>>

ForcePages(P) ==
    /\ bFileOpen
    /\ diskHdr' = IF bHdrChanged THEN hdr ELSE diskHdr
    /\ bHdrChanged' = FALSE
    /\ durable' = WrittenOut({p \in P : mem[p] # durable[p]})
    /\ rc' = "OK"
    /\ UNCHANGED <<exists, bFileOpen, hdr, mem, pins>>

(* A write fails on the way: the header may have been written and, of the  *)
(* pages, any part.  CloseFile leaves the file open.                       *)
FlushFails ==
    /\ bFileOpen
    /\ \/ Returns("PF_UNIX")
       \/ /\ diskHdr' = IF bHdrChanged THEN hdr ELSE diskHdr
          /\ bHdrChanged' = FALSE
          /\ \E W \in SUBSET {p \in PageNums : mem[p] # durable[p]} :
                durable' = WrittenOut(W)
          /\ rc' = "PF_UNIX"
          /\ UNCHANGED <<exists, bFileOpen, hdr, mem, pins>>

----------------------------------------------------------------------------
(* PF_FileHandle.  GetPage of the pool fails with an error of its own when *)
(* it cannot bring the page in.                                            *)
BufferFails(p) == pins[p] = 0 /\ Returns("PF_BUFFER")

Pin(p) == /\ pins[p] < MaxPins
          /\ pins' = [pins EXCEPT ![p] = @ + 1]
          /\ rc' = "OK"
          /\ UNCHANGED <<disk, bFileOpen, hdr, bHdrChanged, mem>>

GetThisPage(p) ==
    IF ~bFileOpen THEN Returns("PF_CLOSEDFILE")
    ELSE IF ~IsValidPageNum(p) THEN Returns("PF_INVALIDPAGE")
    ELSE \/ BufferFails(p)
         \/ IF IsUsed(p) THEN Pin(p) ELSE Returns("PF_INVALIDPAGE")

(* GetNextPage (step 1) and GetPrevPage (step -1) pass over the pages that *)
(* are not in use.                                                         *)
ScanTo(here, step) ==
    LET inUse == {p \in here : IsUsed(p)}
        reached == {p \in here : \A q \in inUse \ {p} : step * p < step * q}
    IN  \/ \E p \in reached : BufferFails(p)
        \/ inUse = {} /\ Returns("PF_EOF")
        \/ \E p \in reached \cap inUse : Pin(p)

GetNextPage(current) ==
    IF ~bFileOpen THEN Returns("PF_CLOSEDFILE")
    ELSE IF current # -1 /\ ~IsValidPageNum(current) THEN Returns("PF_INVALIDPAGE")
    ELSE ScanTo(current + 1 .. hdr.numPages - 1, 1)

GetPrevPage(current) ==
    IF ~bFileOpen THEN Returns("PF_CLOSEDFILE")
    ELSE IF current # hdr.numPages /\ ~IsValidPageNum(current) THEN Returns("PF_INVALIDPAGE")
    ELSE ScanTo(0 .. current - 1, -1)

(* AllocatePage takes the first free page or extends the file, and leaves  *)
(* the page pinned.                                                        *)
TakePage(p, newHdr) ==
    /\ hdr' = newHdr
    /\ bHdrChanged' = TRUE
    /\ mem' = [mem EXCEPT ![p] = [next |-> PF_PAGE_USED, val |-> Zero]]
    /\ pins' = [pins EXCEPT ![p] = @ + 1]
    /\ rc' = "OK"
    /\ UNCHANGED <<disk, bFileOpen>>

AllocatePage ==
    IF ~bFileOpen THEN Returns("PF_CLOSEDFILE")
    ELSE IF hdr.firstFree # PF_PAGE_LIST_END
    THEN \/ BufferFails(hdr.firstFree)
         \/ TakePage(hdr.firstFree, [hdr EXCEPT !.firstFree = mem[hdr.firstFree].next])
    ELSE /\ hdr.numPages < MaxPages
         /\ \/ BufferFails(hdr.numPages)
            \/ TakePage(hdr.numPages, [hdr EXCEPT !.numPages = @ + 1])

(* Broken: the page is fetched whether or not somebody holds a pin on it.  *)
BrokenDisposePinned(p) ==
    IF ~bFileOpen THEN Returns("PF_CLOSEDFILE")
    ELSE IF ~IsValidPageNum(p) THEN Returns("PF_INVALIDPAGE")
    ELSE \/ BufferFails(p)
         \/ ~IsUsed(p) /\ Returns("PF_PAGEFREE")
         \/ /\ IsUsed(p)
            /\ mem' = [mem EXCEPT ![p].next = hdr.firstFree]
            /\ hdr' = [hdr EXCEPT !.firstFree = p]
            /\ bHdrChanged' = TRUE
            /\ rc' = "OK"
            /\ UNCHANGED <<disk, bFileOpen, pins>>

DisposePage(p) ==
    IF ~bFileOpen THEN Returns("PF_CLOSEDFILE")
    ELSE IF ~IsValidPageNum(p) THEN Returns("PF_INVALIDPAGE")
    ELSE IF pins[p] > 0 THEN Returns("PF_PAGEPINNED")
    ELSE \/ BufferFails(p)
         \/ ~IsUsed(p) /\ Returns("PF_PAGEFREE")
         \/ /\ IsUsed(p)
            /\ mem' = [mem EXCEPT ![p].next = hdr.firstFree]
            /\ hdr' = [hdr EXCEPT !.firstFree = p]
            /\ bHdrChanged' = TRUE
            /\ rc' = "OK"
            /\ UNCHANGED <<disk, bFileOpen, pins>>

UnpinPage(p) ==
    IF ~bFileOpen THEN Returns("PF_CLOSEDFILE")
    ELSE IF ~IsValidPageNum(p) THEN Returns("PF_INVALIDPAGE")
    ELSE IF pins[p] = 0 THEN Returns("PF_PAGEUNPINNED")
    ELSE /\ pins' = [pins EXCEPT ![p] = @ - 1]
         /\ rc' = "OK"
         /\ UNCHANGED <<disk, bFileOpen, hdr, bHdrChanged, mem>>

(* A client writes the data part of a page it has pinned, and marks it.    *)
WriteData(p, v) ==
    /\ pins[p] > 0
    /\ mem' = [mem EXCEPT ![p].val = v]
    /\ rc' = "OK"
    /\ UNCHANGED <<disk, bFileOpen, hdr, bHdrChanged, pins>>

(* The pool writes a page back, to make room for another.                  *)
WriteBack(p) ==
    /\ bFileOpen /\ pins[p] = 0 /\ mem[p] # durable[p]
    /\ durable' = WrittenOut({p})
    /\ UNCHANGED <<exists, diskHdr, bFileOpen, hdr, bHdrChanged, mem, pins, rc>>

Next ==
    \/ CreateFile \/ DestroyFile \/ OpenFile \/ CloseFile \/ FlushPages \/ FlushFails
    \/ AllocatePage \/ ForcePages(PageNums)
    \/ \E p \in PageNums :
        \/ GetThisPage(p) \/ GetNextPage(p - 1) \/ GetPrevPage(p + 1)
        \/ DisposePage(p) \/ UnpinPage(p) \/ WriteBack(p) \/ ForcePages({p})
        \/ \E v \in Vals : WriteData(p, v)

Spec == Init /\ [][Next]_vars
----------------------------------------------------------------------------
TypeOK ==
    /\ exists \in BOOLEAN /\ bFileOpen \in BOOLEAN /\ bHdrChanged \in BOOLEAN
    /\ hdr \in Hdr /\ diskHdr \in Hdr
    /\ mem \in [PageNums -> Page \cup {NoPage}]
    /\ durable \in [PageNums -> Page \cup {NoPage}]
    /\ pins \in [PageNums -> 0 .. MaxPins]
    /\ rc \in ReturnCodes

Disposed(h, m) ==
    {p \in PageNums : p < h.numPages /\ ~(m[p] # NoPage /\ m[p].next = PF_PAGE_USED)}

(* The free list ends, holds every disposed page once and no page in use;  *)
(* of a file that is closed this is true of what is on disk.               *)
FreeListIsExact(h, m) ==
    LET U == Disposed(h, m)
    IN  /\ \A p \in U : m[p] # NoPage
        /\ Chained(h.firstFree, [p \in U |-> m[p].next], PF_PAGE_LIST_END, U)

FreeListExact ==
    /\ bFileOpen => FreeListIsExact(hdr, mem)
    /\ exists /\ ~bFileOpen => FreeListIsExact(diskHdr, durable)

(* A page that is pinned is in use: a client never holds a pointer into a  *)
(* page on the free list, and AllocatePage never hands out a page twice.   *)
PinnedPagesUsed == \A p \in Pinned : IsValidPageNum(p) /\ IsUsed(p)

(* The invariant of a file: types, its free list, its pinned pages.        *)
PagedFileInv == TypeOK /\ FreeListExact /\ PinnedPagesUsed

(* What a program that opens the file would find in its pages.             *)
Contents(h, m) ==
    [p \in PageNums |->
        IF p < h.numPages /\ m[p] # NoPage /\ m[p].next = PF_PAGE_USED
        THEN m[p].val ELSE NoPage]

(* ForcePages with no page number puts the whole file on disk, the header  *)
(* with it, while pages stay pinned: SM_Manager calls it on the catalogs   *)
(* after every change to the schema.                                       *)
ForceIsDurable ==
    [][ForcePages(PageNums) => /\ Contents(diskHdr', durable') = Contents(hdr, mem)
                               /\ FreeListIsExact(diskHdr', durable')]_vars

(* What a file promises: module PageSet.                                   *)
Set == INSTANCE PageSet WITH
    Unused <- NoPage,
    open <- bFileOpen,
    pages <- IF bFileOpen THEN Contents(hdr, mem)
             ELSE IF exists THEN Contents(diskHdr, durable) ELSE NoPages
PageSetSpec == Set!Spec
=============================================================================
