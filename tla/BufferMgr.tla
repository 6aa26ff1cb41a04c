----------------------------- MODULE BufferMgr -----------------------------
(***************************************************************************)
(* PF_BufferMgr (src/PF/pf_buffermgr.cc): the buffer pool every layer of   *)
(* the DBMS reads and writes its pages through.                            *)
(*                                                                         *)
(* A slot of bufTable is on exactly one of two lists: the used list, kept  *)
(* from the most to the least recently used page, and the free list, a     *)
(* stack.  A sequence of slots stands for each; module BufferLinks checks  *)
(* that the next/prev pointers of the code implement these sequences.      *)
(* The hash table is a function from pages to slots.  The operating system *)
(* file is external: a page is absent until a write reaches it, a write    *)
(* past the end leaves zeros in the gap, and a call to it may fail.        *)
(*                                                                         *)
(* The code is single-threaded, so every member function is one atomic     *)
(* action, whichever of its paths is taken.                                *)
(***************************************************************************)
EXTENDS SlotSeqs

CONSTANTS
    Keys,        \* the pages, <<fd, page number>>
    Vals,        \* what a page can hold
    Zero,        \* the contents of a page of zero bytes
    NoPage,      \* "the page is beyond the end of the file"
    NoKey,       \* page and file of a descriptor that was never initialised
    MaxSlots,    \* bound: slots of the largest table ResizeBuffer may ask for
    BufSize,     \* PF_BUFFER_SIZE
    MaxPins,     \* bound: pins a page may have (pinCount is a short)
    IOErrors,    \* TRUE when reads and writes of the file may fail
    Resets       \* TRUE when "reset buffer" and "resize buffer" are given

INVALID_SLOT == -1
AllSlots == 0 .. MaxSlots - 1
fd(k) == k[1]
pageNum(k) == k[2]

ASSUME KeysAssumption == \A k \in Keys : k = <<fd(k), pageNum(k)>> /\ pageNum(k) \in Nat
ASSUME ValsAssumption == Zero \in Vals /\ NoPage \notin Vals /\ NoKey \notin Keys
ASSUME SizesAssumption ==
    /\ MaxSlots \in Nat /\ BufSize \in 1 .. MaxSlots
    /\ MaxPins \in Nat \ {0}
    /\ IOErrors \in BOOLEAN /\ Resets \in BOOLEAN

ReturnCodes == {"OK", "PF_PAGEPINNED", "PF_PAGENOTINBUF", "PF_PAGEUNPINNED",
                "PF_NOBUF", "PF_INCOMPLETEREAD", "PF_PAGEINBUF", "PF_UNIX"}

VARIABLES
    numPages,    \* slots in the table
    used,        \* the used list, first (most recently used) to last
    free,        \* the free list, head first
    hash,        \* hash[k]: the slot of page k, or INVALID_SLOT
    key,         \* bufTable[s].fd and .pageNum
    dirty,       \* bufTable[s].bDirty
    pinCount,    \* bufTable[s].pinCount
    data,        \* the bytes at bufTable[s].pData
    disk,        \* the files
    unmarked,    \* pages a client has written and not yet marked dirty
    rc           \* what the last call returned

lists == <<numPages, used, free>>
descs == <<key, dirty, pinCount>>
vars == <<numPages, used, free, hash, key, dirty, pinCount, data, disk, unmarked, rc>>
----------------------------------------------------------------------------
InUse == Range(used)
Buffered(k) == hash[k] # INVALID_SLOT
Pins(k) == IF Buffered(k) THEN pinCount[hash[k]] ELSE 0
Content(k) == IF Buffered(k) THEN data[hash[k]] ELSE disk[k]
IsDirty(k) == Buffered(k) /\ dirty[hash[k]]

(* WritePage: the files once the pages in W are written from their slots.  *)
Written(W) ==
    [k \in Keys |->
        IF k \in W THEN data[hash[k]]
        ELSE IF disk[k] = NoPage
                /\ \E w \in W : fd(w) = fd(k) /\ pageNum(k) < pageNum(w)
             THEN Zero
             ELSE disk[k]]

----------------------------------------------------------------------------
(* The constructor: an empty pool, every slot free.                        *)
EmptyPool(n) ==
    /\ numPages = n
    /\ used = <<>>
    /\ free = [i \in 1 .. n |-> i - 1]
    /\ hash = [k \in Keys |-> INVALID_SLOT]
    /\ key = [s \in AllSlots |-> NoKey]
    /\ dirty = [s \in AllSlots |-> FALSE]
    /\ pinCount = [s \in AllSlots |-> 0]
    /\ data = [s \in AllSlots |-> Zero]
    /\ unmarked = {}

(* A file may have any length when it is opened.                           *)
IsFileImage(d) ==
    \A k, l \in Keys : fd(k) = fd(l) /\ pageNum(k) < pageNum(l) /\ d[k] = NoPage
                        => d[l] = NoPage

Init ==
    /\ EmptyPool(BufSize)
    /\ disk \in {d \in [Keys -> {Zero, NoPage}] : IsFileImage(d)}
    /\ rc = "OK"

Fails(code) == rc' = code /\ UNCHANGED <<lists, hash, descs, data, disk, unmarked>>

(* Broken: the victim is the last slot of the used list, pinned or not.    *)
BrokenIsVictim(s) == used # <<>> /\ s = used[Len(used)]

(* Broken: the search for the victim starts at the other end of the list.  *)
BrokenSearch(s) ==
    \E i \in DOMAIN used :
        /\ used[i] = s /\ pinCount[s] = 0
        /\ \A j \in 1 .. i - 1 : pinCount[used[j]] > 0

(***************************************************************************)
(* InternalAlloc.  The slot it chooses: the head of the free list, or else *)
(* the least recently used slot that is not pinned.  The victim is written *)
(* if it is dirty, and leaves the hash table.                              *)
(***************************************************************************)
IsVictim(s) ==
    \E i \in DOMAIN used :
        /\ used[i] = s /\ pinCount[s] = 0
        /\ \A j \in DOMAIN used : i < j => pinCount[used[j]] > 0

Chosen(s) == IF free # <<>> THEN s = Head(free) ELSE IsVictim(s)
NoneToChoose == free = <<>> /\ \A s \in InUse : pinCount[s] > 0

Evicted(s) == IF free = <<>> THEN {key[s]} ELSE {}
(* Broken: the victim is dropped without being written.                    *)
BrokenWrittenBack(s) == {}
WrittenBack(s) == {k \in Evicted(s) : dirty[s]}

(* Broken: the victim is marked clean before it is written.                *)
BrokenEvictionFails ==
    /\ IOErrors
    /\ \E s \in AllSlots : /\ Chosen(s) /\ WrittenBack(s) # {}
                           /\ dirty' = [dirty EXCEPT ![s] = FALSE]
    /\ rc' = "PF_UNIX"
    /\ UNCHANGED <<lists, hash, key, pinCount, data, disk, unmarked>>

(* The write of the victim fails: nothing has been changed yet.            *)
EvictionFails == /\ IOErrors
                 /\ \E s \in AllSlots : Chosen(s) /\ WrittenBack(s) # {}
                 /\ Fails("PF_UNIX")

(* Broken: the victim stays in the hash table.                             *)
BrokenInstall(k, s, v) ==
    /\ disk' = Written(WrittenBack(s))
    /\ used' = MoveToHead(used, s)
    /\ free' = Unlink(free, s)
    /\ hash' = [hash EXCEPT ![k] = s]
    /\ key' = [key EXCEPT ![s] = k]
    /\ dirty' = [dirty EXCEPT ![s] = FALSE]
    /\ pinCount' = [pinCount EXCEPT ![s] = 1]
    /\ data' = [data EXCEPT ![s] = v]
    /\ rc' = "OK"
    /\ UNCHANGED numPages

(* The chosen slot s gets page k, pinned once, with contents v.            *)
Install(k, s, v) ==
    /\ disk' = Written(WrittenBack(s))
    /\ used' = MoveToHead(used, s)
    /\ free' = Unlink(free, s)
    /\ hash' = [j \in Keys |-> IF j = k THEN s
                              ELSE IF j \in Evicted(s) THEN INVALID_SLOT ELSE hash[j]]
    /\ key' = [key EXCEPT ![s] = k]
    /\ dirty' = [dirty EXCEPT ![s] = FALSE]
    /\ pinCount' = [pinCount EXCEPT ![s] = 1]
    /\ data' = [data EXCEPT ![s] = v]
    /\ rc' = "OK"
    /\ UNCHANGED numPages

(* Broken: the slot is put on the free list and left on the used list.     *)
BrokenGiveBack(s, code) ==
    /\ disk' = Written(WrittenBack(s))
    /\ used' = MoveToHead(used, s)
    /\ free' = MoveToHead(free, s)
    /\ hash' = [j \in Keys |-> IF j \in Evicted(s) THEN INVALID_SLOT ELSE hash[j]]
    /\ dirty' = [dirty EXCEPT ![s] = IF free = <<>> THEN FALSE ELSE @]
    /\ rc' = code
    /\ UNCHANGED <<numPages, key, pinCount, data, unmarked>>

(* The read fails: the chosen slot goes to the free list, its descriptor   *)
(* still naming the page that was evicted from it.                         *)
GiveBack(s, code) ==
    /\ disk' = Written(WrittenBack(s))
    /\ used' = Unlink(used, s)
    /\ free' = MoveToHead(free, s)
    /\ hash' = [j \in Keys |-> IF j \in Evicted(s) THEN INVALID_SLOT ELSE hash[j]]
    /\ dirty' = [dirty EXCEPT ![s] = IF free = <<>> THEN FALSE ELSE @]
    /\ rc' = code
    /\ UNCHANGED <<numPages, key, pinCount, data, unmarked>>

----------------------------------------------------------------------------
(* GetPage of a page in the buffer.                                        *)
GetPageHit(k, bMultiplePins) ==
    /\ Buffered(k)
    /\ IF ~bMultiplePins /\ Pins(k) > 0
       THEN Fails("PF_PAGEPINNED")
       ELSE /\ Pins(k) < MaxPins
            /\ pinCount' = [pinCount EXCEPT ![hash[k]] = @ + 1]
            /\ used' = MoveToHead(used, hash[k])
            /\ rc' = "OK"
            /\ UNCHANGED <<numPages, free, hash, key, dirty, data, disk, unmarked>>

(* GetPage of a page that has to be read.                                  *)
GetPageMiss(k) ==
    /\ ~Buffered(k)
    /\ \/ NoneToChoose /\ Fails("PF_NOBUF")
       \/ EvictionFails
       \/ \E s \in AllSlots :
            /\ Chosen(s)
            /\ LET image == Written(WrittenBack(s))
               IN  \/ /\ image[k] # NoPage
                      /\ Install(k, s, image[k]) /\ UNCHANGED unmarked
                   \/ image[k] = NoPage /\ GiveBack(s, "PF_INCOMPLETEREAD")
                   \/ IOErrors /\ GiveBack(s, "PF_UNIX")

(* AllocatePage: the new page has whatever the slot held; the caller is    *)
(* to write it and mark it dirty.                                          *)
AllocatePage(k) ==
    IF Buffered(k)
    THEN Fails("PF_PAGEINBUF")
    ELSE \/ NoneToChoose /\ Fails("PF_NOBUF")
         \/ EvictionFails
         \/ \E s \in AllSlots : /\ Chosen(s)
                                /\ Install(k, s, data[s])
                                /\ unmarked' = unmarked \cup {k}

(* A client writes through the pointer it got with its pin.                *)
WriteData(k, v) ==
    /\ Pins(k) > 0
    /\ data' = [data EXCEPT ![hash[k]] = v]
    /\ unmarked' = unmarked \cup {k}
    /\ UNCHANGED <<lists, hash, descs, disk, rc>>

MarkDirty(k) ==
    IF ~Buffered(k) THEN Fails("PF_PAGENOTINBUF")
    ELSE IF Pins(k) = 0 THEN Fails("PF_PAGEUNPINNED")
    ELSE /\ dirty' = [dirty EXCEPT ![hash[k]] = TRUE]
         /\ used' = MoveToHead(used, hash[k])
         /\ unmarked' = unmarked \ {k}
         /\ rc' = "OK"
         /\ UNCHANGED <<numPages, free, hash, key, pinCount, data, disk>>

(* Broken: no test that the page is pinned.                                *)
BrokenUnpinPage(k) ==
    /\ Buffered(k)
    /\ Pins(k) = 1 => k \notin unmarked
    /\ pinCount' = [pinCount EXCEPT ![hash[k]] = @ - 1]
    /\ used' = IF Pins(k) = 1 THEN MoveToHead(used, hash[k]) ELSE used
    /\ rc' = "OK"
    /\ UNCHANGED <<numPages, free, hash, key, dirty, data, disk, unmarked>>

(* A client gives up its last pin only once it has marked what it wrote:   *)
(* every caller in PF, RM and IX pairs the two.                            *)
UnpinPage(k) ==
    IF ~Buffered(k) THEN Fails("PF_PAGENOTINBUF")
    ELSE IF Pins(k) = 0 THEN Fails("PF_PAGEUNPINNED")
    ELSE /\ Pins(k) = 1 => k \notin unmarked
         /\ pinCount' = [pinCount EXCEPT ![hash[k]] = @ - 1]
         /\ used' = IF Pins(k) = 1 THEN MoveToHead(used, hash[k]) ELSE used
         /\ rc' = "OK"
         /\ UNCHANGED <<numPages, free, hash, key, dirty, data, disk, unmarked>>

----------------------------------------------------------------------------
(***************************************************************************)
(* FlushPages walks the used list from its head.  A write that fails stops *)
(* it there: the slots before that one have been released, the others not. *)
(***************************************************************************)
Release(S) ==
    /\ used' = Kept(used, InUse \ S)
    /\ free' = ReverseOf(Kept(used, S)) \o free
    /\ hash' = [k \in Keys |-> IF hash[k] \in S THEN INVALID_SLOT ELSE hash[k]]

(* The slots FlushPages writes and releases as far as it gets: the file's  *)
(* unpinned pages among the first n of the used list.                      *)
Flushable(f, n) ==
    {used[i] : i \in {j \in 1 .. n : fd(key[used[j]]) = f /\ pinCount[used[j]] = 0}}
DirtyPages(S) == {key[s] : s \in {t \in S : dirty[t]}}

FlushUpTo(f, n, code) ==
    /\ Release(Flushable(f, n))
    /\ disk' = Written(DirtyPages(Flushable(f, n)))
    /\ dirty' = [s \in AllSlots |-> dirty[s] /\ s \notin Flushable(f, n)]
    /\ rc' = code
    /\ UNCHANGED <<numPages, key, pinCount, data, unmarked>>

FlushPages(f) ==
    \/ LET pinned == \E s \in InUse : fd(key[s]) = f /\ pinCount[s] > 0
       IN  FlushUpTo(f, Len(used), IF pinned THEN "PF_PAGEPINNED" ELSE "OK")
    \/ /\ IOErrors
       /\ \E n \in DOMAIN used : /\ used[n] \in Flushable(f, n) /\ dirty[used[n]]
                                 /\ FlushUpTo(f, n - 1, "PF_UNIX")

(* ForcePages writes dirty pages, pinned or not, and keeps them buffered;  *)
(* P is one page or, for ALL_PAGES, all those of a file.                   *)
ForceUpTo(P, n, code) ==
    LET S == {used[i] : i \in {j \in 1 .. n : key[used[j]] \in P}}
    IN  /\ disk' = Written(DirtyPages(S))
        /\ dirty' = [s \in AllSlots |-> dirty[s] /\ s \notin S]
        /\ rc' = code
        /\ UNCHANGED <<lists, hash, key, pinCount, data, unmarked>>

ForcePages(P) ==
    \/ ForceUpTo(P, Len(used), "OK")
    \/ /\ IOErrors
       /\ \E n \in DOMAIN used : /\ key[used[n]] \in P /\ dirty[used[n]]
                                 /\ ForceUpTo(P, n - 1, "PF_UNIX")

(* ClearBuffer ("reset buffer") drops every page that is not pinned and    *)
(* writes none of them.  It always returns 0.                              *)
ClearBuffer ==
    /\ Resets
    /\ Release({s \in InUse : pinCount[s] = 0})
    /\ rc' = "OK"
    /\ UNCHANGED <<numPages, descs, data, disk, unmarked>>

(***************************************************************************)
(* ResizeBuffer ("resize buffer n").  It drops the pages that are not      *)
(* pinned, takes a new table, and for each pinned page claims a slot,      *)
(* enters it in the hash table and then puts the slot back on the free     *)
(* list, so that the next page gets the same slot; contents are not        *)
(* copied.  n = 0 indexes the new table out of bounds and is left out.     *)
(***************************************************************************)
ResizeBuffer(n) ==
    LET pinned == Kept(used, {s \in InUse : pinCount[s] > 0})
    IN  /\ Resets
        /\ numPages' = n
        /\ used' = <<>>
        /\ free' = [i \in 1 .. n |-> i - 1]
        /\ hash' = [k \in Keys |-> IF hash[k] \in Range(pinned) THEN 0 ELSE INVALID_SLOT]
        /\ key' = [s \in AllSlots |-> IF s = 0 /\ pinned # <<>>
                                      THEN key[pinned[Len(pinned)]] ELSE NoKey]
        /\ dirty' = [s \in AllSlots |-> FALSE]
        /\ pinCount' = [s \in AllSlots |-> IF s = 0 /\ pinned # <<>> THEN 1 ELSE 0]
        /\ data' = [s \in AllSlots |-> Zero]
        /\ rc' = "OK"
        /\ UNCHANGED <<disk, unmarked>>

Files == {fd(k) : k \in Keys}
PagesOf(f) == {k \in Keys : fd(k) = f}
NoPins == \A s \in InUse : pinCount[s] = 0

Next ==
    \/ \E k \in Keys :
        \/ \E b \in BOOLEAN : GetPageHit(k, b)
        \/ GetPageMiss(k)
        \/ AllocatePage(k)
        \/ \E v \in Vals : WriteData(k, v)
        \/ MarkDirty(k)
        \/ UnpinPage(k)
        \/ ForcePages({k})
    \/ \E f \in Files : FlushPages(f) \/ ForcePages(PagesOf(f))
    \/ ClearBuffer
    \* the parser runs the system commands between statements
    \/ \E n \in 1 .. MaxSlots : NoPins /\ ResizeBuffer(n)

Spec == Init /\ [][Next]_vars

----------------------------------------------------------------------------
TypeOK ==
    /\ numPages \in 1 .. MaxSlots
    /\ used \in Seq(AllSlots)
    /\ free \in Seq(AllSlots)
    /\ hash \in [Keys -> AllSlots \cup {INVALID_SLOT}]
    /\ key \in [AllSlots -> Keys \cup {NoKey}]
    /\ dirty \in [AllSlots -> BOOLEAN]
    /\ pinCount \in [AllSlots -> 0 .. MaxPins]
    /\ data \in [AllSlots -> Vals]
    /\ disk \in [Keys -> Vals \cup {NoPage}]
    /\ unmarked \in SUBSET Keys
    /\ rc \in ReturnCodes

(* Every slot of the table is on exactly one list, once: no path through   *)
(* an allocation, an error or a flush loses a slot or lists it twice.      *)
SlotsListedOnce ==
    /\ IsInjective(used) /\ IsInjective(free)
    /\ InUse \cap Range(free) = {}
    /\ InUse \cup Range(free) = 0 .. numPages - 1

(* The hash table and the descriptors of the used list agree: a page is in *)
(* one slot at most and a used slot is found under the page it holds.      *)
HashMatchesUsed ==
    /\ \A k \in Keys : Buffered(k) => hash[k] \in InUse /\ key[hash[k]] = k
    /\ \A s \in InUse : key[s] \in Keys /\ hash[key[s]] = s

(* A page that is neither dirty nor being written equals its copy on disk, *)
(* so that dropping it loses nothing.                                      *)
CleanPagesMatchDisk ==
    \A k \in Keys : Buffered(k) /\ ~IsDirty(k) /\ k \notin unmarked
                    => disk[k] = data[hash[k]]

(* What a client has written but not marked is still pinned.               *)
UnmarkedPagesPinned == \A k \in unmarked : Pins(k) > 0

(* While a page is pinned the pointer its clients hold stays good: the     *)
(* page keeps its slot whatever is read, flushed, forced or dropped.       *)
PinnedPagesStay == [][\A k \in Keys : Pins(k) > 0 => hash'[k] = hash[k]]_vars

----------------------------------------------------------------------------
(* What the pool promises: module PageStore.                               *)
Store == INSTANCE PageStore WITH
            mem <- [k \in Keys |-> Content(k)],
            durable <- disk,
            pins <- [k \in Keys |-> Pins(k)],
            capacity <- numPages
StoreSpec == Store!Spec

(* How it uses its two lists: module SlotLists.                            *)
Lists == INSTANCE SlotLists WITH pinned <- {s \in InUse : pinCount[s] > 0}
ListsSpec == Lists!Spec
=============================================================================
