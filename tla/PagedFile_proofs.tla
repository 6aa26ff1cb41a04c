-------------------------- MODULE PagedFile_proofs --------------------------
(***************************************************************************)
(* Theorems about a paged file, for any pages and any number of them.      *)
(* IInv is the inductive invariant: the free list is exact because the     *)
(* header names just the pages that have contents, in memory and, once the *)
(* file is closed, on disk, and because the flag bHdrChanged is set        *)
(* whenever the header in the handle is not the one on disk.               *)
(***************************************************************************)
EXTENDS PagedFile, Lists_proofs

PagesFilled(h, m) == \A p \in PageNums : m[p] # NoPage <=> p < h.numPages

Settled ==
    /\ bFileOpen => /\ exists /\ PagesFilled(hdr, mem)
                    /\ \A p \in PageNums : durable[p] # NoPage => p < hdr.numPages
                    /\ ~bHdrChanged => diskHdr = hdr
    /\ ~bFileOpen => \A p \in PageNums : pins[p] = 0
    /\ exists /\ ~bFileOpen => PagesFilled(diskHdr, durable)

IInv == PagedFileInv /\ Settled

USE PagedFileAssumption

(* Page numbers and end marks.                                             *)
LEMMA Numbers ==
    /\ PageNums \subseteq Nat /\ IsFiniteSet(PageNums)
    /\ PF_PAGE_LIST_END \notin PageNums /\ PF_PAGE_USED \notin Links
    /\ \A q : q \in Page => q # NoPage /\ q.val # NoPage
    /\ [next |-> PF_PAGE_USED, val |-> Zero] \in Page
    /\ MaxPages # 0 => [next |-> 0, val |-> Zero] \in Page
<1>1. IsFiniteSet(PageNums)
  <2>1. 0 \in Int /\ MaxPages - 1 \in Int
    OBVIOUS
  <2> QED BY <2>1, FS_Interval DEF PageNums
<1>2. PF_PAGE_USED \notin Links
  BY DEF PF_PAGE_USED, Links, PageNums, PF_PAGE_LIST_END
<1>3. \A q : q \in Page => q # NoPage /\ q.val # NoPage
  <2>1. ASSUME NEW q \in Page PROVE q \in [next : Int, val : Vals]
    <3>1. Links \cup {PF_PAGE_USED} \subseteq Int
      BY DEF Links, PageNums, PF_PAGE_LIST_END, PF_PAGE_USED
    <3> QED BY <3>1 DEF Page
  <2> QED BY <2>1 DEF Page
<1> QED BY <1>1, <1>2, <1>3 DEF Page, Links, PageNums, PF_PAGE_LIST_END, PF_PAGE_USED

LEMMA DisposedPages ==
    ASSUME NEW h, NEW m
    PROVE  /\ Disposed(h, m) \subseteq PageNums /\ IsFiniteSet(Disposed(h, m))
           /\ PF_PAGE_LIST_END \notin Disposed(h, m)
<1>1. Disposed(h, m) \subseteq PageNums
  BY DEF Disposed
<1> QED BY <1>1, Numbers, FS_Subset

----------------------------------------------------------------------------
(* The free list does not depend on what is in the pages' data.            *)
LEMMA ListKept ==
    ASSUME NEW h, NEW m, NEW o, FreeListIsExact(h, m),
           \A p \in PageNums : p < h.numPages =>
               /\ m[p] = NoPage <=> o[p] = NoPage
               /\ m[p] # NoPage => o[p].next = m[p].next
    PROVE  FreeListIsExact(h, o)
<1> DEFINE U == Disposed(h, m)
<1>1. Disposed(h, o) = U
  BY DEF Disposed
<1>2. \A p \in U : m[p] # NoPage /\ p \in PageNums /\ p < h.numPages
  BY DEF FreeListIsExact, Disposed
<1>3. \A p \in U : [q \in U |-> o[q].next][p] = [q \in U |-> m[q].next][p]
  BY <1>2
<1>4. Chained(h.firstFree, [q \in U |-> m[q].next], PF_PAGE_LIST_END, U)
  BY DEF FreeListIsExact
<1>5. Chained(h.firstFree, [q \in U |-> o[q].next], PF_PAGE_LIST_END, U)
  <2> HIDE DEF U
  <2>1. IsFiniteSet(U)
    BY DisposedPages DEF U
  <2> QED BY <1>3, <1>4, <2>1, ChainSame
<1>6. \A p \in U : o[p] # NoPage
  BY <1>2
<1> QED BY <1>1, <1>5, <1>6 DEF FreeListIsExact

(* The first free page is disposed; taken into use, it leaves the list.    *)
LEMMA ListTaken ==
    ASSUME NEW h \in Hdr, NEW m, FreeListIsExact(h, m),
           h.firstFree # PF_PAGE_LIST_END, m \in [PageNums -> Page \cup {NoPage}]
    PROVE  /\ h.firstFree \in Disposed(h, m) /\ m[h.firstFree] # NoPage
           /\ m[h.firstFree].next \in Links
           /\ FreeListIsExact([h EXCEPT !.firstFree = m[h.firstFree].next],
                              [m EXCEPT ![h.firstFree] = [next |-> PF_PAGE_USED, val |-> Zero]])
<1> DEFINE U == Disposed(h, m)
           f == h.firstFree
           next == [q \in U |-> m[q].next]
           o == [m EXCEPT ![f] = [next |-> PF_PAGE_USED, val |-> Zero]]
           g == [h EXCEPT !.firstFree = m[f].next]
<1>1. Chained(f, next, PF_PAGE_LIST_END, U) /\ \A p \in U : m[p] # NoPage
  BY DEF FreeListIsExact
<1>2. f \in U
  <2> HIDE DEF U, next
  <2>1. IsFiniteSet(U) /\ PF_PAGE_LIST_END \notin U
    BY DisposedPages DEF U
  <2>2. f = PF_PAGE_LIST_END <=> U = {}
    BY <1>1, <2>1, ChainEmpty
  <2> QED BY <1>1, <2>1, <2>2, ChainEmpty
<1>3. m[f] # NoPage /\ m[f] \in Page /\ f \in PageNums /\ m[f].next # PF_PAGE_USED
  BY <1>1, <1>2, DisposedPages DEF Disposed
<1>4. m[f].next \in Links
  BY <1>3 DEF Page
<1>5. Disposed(g, o) = U \ {f}
  <2>1. g.numPages = h.numPages
    BY DEF Hdr
  <2>2. \A p \in PageNums : p # f => o[p] = m[p]
    OBVIOUS
  <2>3. o[f] = [next |-> PF_PAGE_USED, val |-> Zero] /\ o[f].next = PF_PAGE_USED
    BY <1>3
  <2>4. o[f] # NoPage
    BY <2>3, Numbers
  <2> QED BY <2>1, <2>2, <2>3, <2>4, <1>3 DEF Disposed
<1>6. \A p \in U \ {f} : /\ o[p] = m[p] /\ p \in U /\ o[p] # NoPage
                          /\ [q \in U \ {f} |-> o[q].next][p] = next[p]
  BY <1>1
<1>7. Chained(m[f].next, [q \in U \ {f} |-> o[q].next], PF_PAGE_LIST_END, U \ {f})
  <2>1. IsFiniteSet(U) /\ next[f] = m[f].next
    BY <1>2, DisposedPages
  <2> HIDE DEF U, next, o, f
  <2> QED BY <1>1, <1>2, <1>6, <2>1, ChainPop
<1>8. g.firstFree = m[f].next
  BY DEF Hdr
<1>9. FreeListIsExact(g, o)
  <2> HIDE DEF U, next, o, g, f
  <2> QED BY <1>5, <1>6, <1>7, <1>8 DEF FreeListIsExact
<1> QED BY <1>2, <1>3, <1>4, <1>9

(* A page added at the end of the file, in use.                            *)
LEMMA ListExtended ==
    ASSUME NEW h \in Hdr, NEW m, FreeListIsExact(h, m),
           h.numPages < MaxPages, m \in [PageNums -> Page \cup {NoPage}]
    PROVE  FreeListIsExact([h EXCEPT !.numPages = @ + 1],
                           [m EXCEPT ![h.numPages] = [next |-> PF_PAGE_USED, val |-> Zero]])
<1> DEFINE U == Disposed(h, m)
           o == [m EXCEPT ![h.numPages] = [next |-> PF_PAGE_USED, val |-> Zero]]
           g == [h EXCEPT !.numPages = @ + 1]
<1>1. /\ h.numPages \in PageNums /\ h.numPages \in Nat
      /\ g.numPages = h.numPages + 1 /\ g.firstFree = h.firstFree
  BY DEF Hdr, PageNums
<1>2. /\ o[h.numPages].next = PF_PAGE_USED /\ o[h.numPages] # NoPage
      /\ \A p \in PageNums : p # h.numPages => o[p] = m[p]
  BY <1>1, Numbers
<1>3. Disposed(g, o) = U
  <2>1. \A p \in PageNums : p < g.numPages <=> p < h.numPages \/ p = h.numPages
    BY <1>1, Numbers
  <2> HIDE DEF o, g
  <2> QED BY <1>1, <1>2, <2>1 DEF Disposed
<1>4. \A p \in U : o[p] = m[p] /\ p \in PageNums
  BY <1>1, <1>2 DEF Disposed
<1>5. [q \in U |-> o[q].next] = [q \in U |-> m[q].next]
  BY <1>4
<1>6. Chained(h.firstFree, [q \in U |-> m[q].next], PF_PAGE_LIST_END, U)
  BY DEF FreeListIsExact
<1>7. \A p \in U : o[p] # NoPage
  BY <1>4 DEF FreeListIsExact
<1>8. FreeListIsExact(g, o)
  <2> HIDE DEF U, o, g
  <2> QED BY <1>1, <1>3, <1>5, <1>6, <1>7 DEF FreeListIsExact
<1> QED BY <1>8

(* A page disposed of: it is put in front of the list.                     *)
LEMMA ListGrown ==
    ASSUME NEW h \in Hdr, NEW m, NEW p \in PageNums, FreeListIsExact(h, m),
           p < h.numPages, m[p] # NoPage, m[p].next = PF_PAGE_USED,
           m \in [PageNums -> Page \cup {NoPage}]
    PROVE  FreeListIsExact([h EXCEPT !.firstFree = p], [m EXCEPT ![p].next = h.firstFree])
<1> DEFINE U == Disposed(h, m)
           next == [q \in U |-> m[q].next]
           o == [m EXCEPT ![p].next = h.firstFree]
           g == [h EXCEPT !.firstFree = p]
<1>1. Chained(h.firstFree, next, PF_PAGE_LIST_END, U) /\ \A q \in U : m[q] # NoPage
  BY DEF FreeListIsExact
<1>2. /\ o[p].next = h.firstFree /\ o[p] # NoPage
      /\ \A q \in PageNums : q # p => o[q] = m[q]
  <2>1. m[p] \in Page /\ h.firstFree \in Links
    BY DEF Hdr
  <2>2. o[p] = [m[p] EXCEPT !.next = h.firstFree]
    OBVIOUS
  <2>3. o[p] \in Page /\ o[p].next = h.firstFree
    BY <2>1, <2>2 DEF Page
  <2> QED BY <2>3, Numbers
<1>3. h.firstFree # PF_PAGE_USED /\ g.numPages = h.numPages /\ g.firstFree = p
  BY Numbers DEF Hdr
<1>4. p \notin U
  BY DEF Disposed
<1>5. Disposed(g, o) = U \cup {p}
  <2> HIDE DEF o, g
  <2> QED BY <1>2, <1>3 DEF Disposed
<1>6. \A q \in U : o[q] = m[q] /\ o[q] # NoPage
  BY <1>1, <1>2, <1>4 DEF Disposed
<1> DEFINE link == [q \in U \cup {p} |-> o[q].next]
<1>7. link[p] = h.firstFree /\ \A q \in U : link[q] = next[q]
  <2> HIDE DEF U, o
  <2> QED BY <1>2, <1>6
<1>8. Chained(p, link, PF_PAGE_LIST_END, U \cup {p})
  <2>1. IsFiniteSet(U)
    BY DisposedPages DEF U
  <2> HIDE DEF U, next, link, o
  <2> QED BY <1>1, <1>4, <1>7, <2>1, ChainPush
<1>9. \A q \in U \cup {p} : o[q] # NoPage
  BY <1>2, <1>6
<1>10. FreeListIsExact(g, o)
  <2> HIDE DEF U, o, g
  <2> QED BY <1>3, <1>5, <1>8, <1>9 DEF FreeListIsExact
<1> QED BY <1>10

----------------------------------------------------------------------------
(* Writing pages of the open file: what is written are pages the header    *)
(* has, gaps that are filled are below them, and when every page that      *)
(* differs is written the disk has what memory has.                        *)
LEMMA FileWritten ==
    ASSUME IInv, bFileOpen, NEW W, \A p \in W : p \in PageNums /\ mem[p] # durable[p]
    PROVE  /\ WrittenOut(W) \in [PageNums -> Page \cup {NoPage}]
           /\ \A p \in PageNums : WrittenOut(W)[p] # NoPage => p < hdr.numPages
           /\ (\A p \in PageNums : mem[p] # durable[p] => p \in W) => WrittenOut(W) = mem
<1>1. /\ mem \in [PageNums -> Page \cup {NoPage}] /\ durable \in [PageNums -> Page \cup {NoPage}]
      /\ PageNums \subseteq Nat /\ hdr.numPages \in Nat
  BY Numbers DEF IInv, PagedFileInv, TypeOK, Hdr
<1>2. \A p \in PageNums : /\ mem[p] # NoPage <=> p < hdr.numPages
                          /\ durable[p] # NoPage => p < hdr.numPages
  BY DEF IInv, Settled, PagesFilled
<1>3. \A p \in W : mem[p] # NoPage /\ p < hdr.numPages
  BY <1>2
<1>4. ASSUME NEW p \in PageNums, durable[p] = NoPage, \E w \in W : p < w
      PROVE  p < hdr.numPages /\ mem[p] # durable[p] /\ [next |-> 0, val |-> Zero] \in Page
  <2>1. p < hdr.numPages
    BY <1>1, <1>3, <1>4
  <2>2. MaxPages # 0
    BY <1>4 DEF PageNums
  <2> QED BY <1>2, <1>4, <2>1, <2>2, Numbers
<1>5. ASSUME NEW p \in PageNums
      PROVE  /\ WrittenOut(W)[p] \in Page \cup {NoPage}
             /\ WrittenOut(W)[p] # NoPage => p < hdr.numPages
             /\ (\A q \in PageNums : mem[q] # durable[q] => q \in W) => WrittenOut(W)[p] = mem[p]
  <2>1. CASE p \in W
    BY <2>1, <1>1, <1>3 DEF WrittenOut
  <2>2. CASE p \notin W /\ durable[p] = NoPage /\ \E w \in W : p < w
    <3>1. WrittenOut(W)[p] = [next |-> 0, val |-> Zero]
      BY <2>2 DEF WrittenOut
    <3> QED BY <3>1, <2>2, <1>4
  <2>3. CASE p \notin W /\ ~(durable[p] = NoPage /\ \E w \in W : p < w)
    <3>1. WrittenOut(W)[p] = durable[p]
      BY <2>3 DEF WrittenOut
    <3> QED BY <3>1, <2>3, <1>1, <1>2
  <2> QED BY <2>1, <2>2, <2>3
<1>6. WrittenOut(W) = [p \in PageNums |-> WrittenOut(W)[p]]
  BY DEF WrittenOut
<1>7. WrittenOut(W) \in [PageNums -> Page \cup {NoPage}]
  BY <1>5, <1>6
<1> QED BY <1>1, <1>5, <1>7

(* The header goes to disk with the pages, so the two headers agree.       *)
LEMMA HeaderWritten ==
    ASSUME IInv, bFileOpen PROVE (IF bHdrChanged THEN hdr ELSE diskHdr) = hdr
<1>1. bHdrChanged \in BOOLEAN /\ (~bHdrChanged => diskHdr = hdr)
  BY DEF IInv, Settled, PagedFileInv, TypeOK
<1> QED BY <1>1

----------------------------------------------------------------------------
(* A file that is not there and a handle that is not open.                 *)
LEMMA InitIInv == Init => IInv
<1> SUFFICES ASSUME Init PROVE IInv
  OBVIOUS
<1>1. NewHdr \in Hdr
  BY DEF NewHdr, Hdr, Links
<1>2. TypeOK
  <2>1. exists \in BOOLEAN /\ bFileOpen \in BOOLEAN /\ bHdrChanged \in BOOLEAN
    BY DEF Init
  <2>2. pins \in [PageNums -> 0 .. MaxPins]
    BY DEF Init
  <2>3. hdr \in Hdr /\ diskHdr \in Hdr /\ rc \in ReturnCodes
    BY <1>1 DEF Init, ReturnCodes
  <2>4. mem \in [PageNums -> Page \cup {NoPage}] /\ durable \in [PageNums -> Page \cup {NoPage}]
    BY DEF Init, NoPages
  <2> QED BY <2>1, <2>2, <2>3, <2>4 DEF TypeOK
<1>3. FreeListExact /\ Settled
  BY DEF Init, FreeListExact, Settled
<1>4. PinnedPagesUsed
  BY DEF Init, PinnedPagesUsed, Pinned
<1> QED BY <1>2, <1>3, <1>4 DEF IInv, PagedFileInv

(* A call that returns a code and does nothing else, or nothing at all.    *)
LEMMA NothingChanged ==
    ASSUME IInv, UNCHANGED <<disk, bFileOpen, hdr, bHdrChanged, mem, pins>>,
           rc' \in ReturnCodes
    PROVE  IInv'
<1>1. TypeOK'
  BY DEF IInv, PagedFileInv, TypeOK, disk
<1>2. FreeListExact'
  BY DEF IInv, PagedFileInv, FreeListExact, disk
<1>3. PinnedPagesUsed'
  BY DEF IInv, PagedFileInv, PinnedPagesUsed, Pinned, IsValidPageNum, IsUsed, disk
<1>4. Settled'
  BY DEF IInv, Settled, PagesFilled, disk
<1> QED BY <1>1, <1>2, <1>3, <1>4 DEF IInv, PagedFileInv

LEMMA ReturnsIInv == ASSUME IInv, NEW code \in ReturnCodes, Returns(code) PROVE IInv'
BY NothingChanged DEF Returns

LEMMA CreateFileIInv == ASSUME IInv, CreateFile PROVE IInv'
<1>1. CASE exists
  BY <1>1, ReturnsIInv DEF CreateFile, ReturnCodes
<1>2. CASE ~exists
  <2>1. /\ ~bFileOpen /\ ~bFileOpen' /\ exists' /\ diskHdr' = NewHdr /\ durable' = NoPages
        /\ rc' = "OK" /\ UNCHANGED <<hdr, bHdrChanged, mem, pins, bFileOpen>>
    BY <1>2 DEF CreateFile, IInv, Settled
  <2>2. NewHdr \in Hdr /\ NewHdr.numPages = 0 /\ NewHdr.firstFree = PF_PAGE_LIST_END
    BY DEF NewHdr, Hdr, Links
  <2>3. TypeOK'
    BY <2>1, <2>2 DEF IInv, PagedFileInv, TypeOK, NoPages, ReturnCodes
  <2>4. FreeListIsExact(NewHdr, NoPages)
    <3>1. Disposed(NewHdr, NoPages) = {}
      BY <2>2, Numbers DEF Disposed
    <3> QED BY <2>2, <3>1, FS_EmptySet, ChainEmpty DEF FreeListIsExact
  <2>5. FreeListExact' /\ Settled'
    <3>1. \A p \in PageNums : NoPages[p] = NoPage /\ ~(p < 0)
      BY Numbers DEF NoPages
    <3> QED BY <2>1, <2>2, <2>4, <3>1
            DEF FreeListExact, Settled, PagesFilled, IInv
  <2>6. PinnedPagesUsed'
    BY <2>1 DEF PinnedPagesUsed, Pinned, IInv, PagedFileInv, TypeOK, Settled
  <2> QED BY <2>3, <2>5, <2>6 DEF IInv, PagedFileInv
<1> QED BY <1>1, <1>2

LEMMA DestroyFileIInv == ASSUME IInv, DestroyFile PROVE IInv'
<1>1. CASE exists
  <2>1. /\ ~bFileOpen /\ exists' = FALSE /\ rc' = "OK"
        /\ UNCHANGED <<diskHdr, durable, bFileOpen, hdr, bHdrChanged, mem, pins>>
    BY <1>1 DEF DestroyFile
  <2>2. TypeOK'
    BY <2>1 DEF DestroyFile, IInv, PagedFileInv, TypeOK, ReturnCodes
  <2>3. FreeListExact' /\ Settled'
    BY <2>1 DEF IInv, FreeListExact, Settled
  <2>4. PinnedPagesUsed'
    BY <2>1 DEF IInv, PagedFileInv, TypeOK, Settled, PinnedPagesUsed, Pinned
  <2> QED BY <2>2, <2>3, <2>4 DEF IInv, PagedFileInv
<1>2. CASE ~exists
  BY <1>2, ReturnsIInv DEF DestroyFile, ReturnCodes
<1> QED BY <1>1, <1>2

LEMMA OpenFileIInv == ASSUME IInv, OpenFile PROVE IInv'
<1>1. CASE bFileOpen \/ ~exists
  BY <1>1, ReturnsIInv DEF OpenFile, ReturnCodes
<1>2. CASE ~bFileOpen /\ exists
  <2>1. /\ bFileOpen' /\ hdr' = diskHdr /\ ~bHdrChanged' /\ bHdrChanged' = FALSE
        /\ mem' = durable /\ rc' = "OK"
        /\ UNCHANGED <<exists, diskHdr, durable, pins>>
    BY <1>2 DEF OpenFile, disk
  <2>2. TypeOK'
    BY <1>2, <2>1 DEF OpenFile, IInv, PagedFileInv, TypeOK, ReturnCodes
  <2>3. FreeListExact' /\ Settled'
    BY <1>2, <2>1 DEF IInv, PagedFileInv, FreeListExact, Settled, PagesFilled
  <2>4. PinnedPagesUsed'
    BY <1>2, <2>1 DEF PinnedPagesUsed, Pinned, IInv, PagedFileInv, TypeOK, Settled
  <2> QED BY <2>2, <2>3, <2>4 DEF IInv, PagedFileInv
<1> QED BY <1>1, <1>2

(* Pages go to disk while the file is open, with the header or without it. *)
LEMMA WritingIInv ==
    ASSUME IInv, bFileOpen, NEW W, \A p \in W : p \in PageNums /\ mem[p] # durable[p],
           durable' = WrittenOut(W), rc' \in ReturnCodes,
           UNCHANGED <<exists, bFileOpen, hdr, mem, pins>>,
           \/ diskHdr' = hdr /\ bHdrChanged' = FALSE
           \/ UNCHANGED <<diskHdr, bHdrChanged>>
    PROVE  IInv'
<1>1. /\ durable' \in [PageNums -> Page \cup {NoPage}]
      /\ \A p \in PageNums : durable'[p] # NoPage => p < hdr.numPages
  BY FileWritten
<1>2. TypeOK'
  BY <1>1 DEF IInv, PagedFileInv, TypeOK
<1>3. FreeListExact'
  BY DEF IInv, PagedFileInv, FreeListExact
<1>4. PinnedPagesUsed'
  BY DEF IInv, PagedFileInv, PinnedPagesUsed, Pinned, IsValidPageNum, IsUsed
<1>5. Settled'
  BY <1>1 DEF IInv, Settled, PagesFilled
<1> QED BY <1>2, <1>3, <1>4, <1>5 DEF IInv, PagedFileInv

LEMMA FlushPagesIInv == ASSUME IInv, FlushPages PROVE IInv'
<1> DEFINE W == {p \in PageNums : mem[p] # durable[p] /\ pins[p] = 0}
<1>1. /\ bFileOpen /\ durable' = WrittenOut(W) /\ diskHdr' = hdr /\ bHdrChanged' = FALSE
      /\ UNCHANGED <<exists, bFileOpen, hdr, mem, pins>>
  BY HeaderWritten DEF FlushPages, FlushOutcome
<1>2. rc' \in ReturnCodes
  BY DEF FlushPages, FlushOutcome, ReturnCodes
<1>3. \A p \in W : p \in PageNums /\ mem[p] # durable[p]
  OBVIOUS
<1> HIDE DEF W
<1> QED BY <1>1, <1>2, <1>3, WritingIInv

(* A file that is closed has on disk what it had in memory.                *)
LEMMA CloseFileIInv == ASSUME IInv, CloseFile PROVE IInv'
<1> DEFINE W == {p \in PageNums : mem[p] # durable[p] /\ pins[p] = 0}
<1>1. /\ bFileOpen /\ durable' = WrittenOut(W) /\ diskHdr' = hdr /\ bHdrChanged' = FALSE
      /\ UNCHANGED <<exists, hdr, pins>> /\ rc' \in ReturnCodes
  BY HeaderWritten DEF CloseFile, FlushOutcome, ReturnCodes
<1>2. \A p \in W : p \in PageNums /\ mem[p] # durable[p]
  OBVIOUS
<1>3. CASE Pinned # {}
  <2>1. UNCHANGED <<bFileOpen, mem>>
    BY <1>3 DEF CloseFile
  <2> HIDE DEF W
  <2> QED BY <1>1, <1>2, <2>1, WritingIInv
<1>4. CASE Pinned = {}
  <2>1. bFileOpen' = FALSE /\ mem' = NoPages
    BY <1>4 DEF CloseFile
  <2>2. \A p \in PageNums : pins[p] = 0
    BY <1>4 DEF Pinned, IInv, PagedFileInv, TypeOK
  <2>3. durable' = mem
    <3>1. \A p \in PageNums : mem[p] # durable[p] => p \in W
      BY <2>2
    <3> HIDE DEF W
    <3> QED BY <1>1, <1>2, <3>1, FileWritten
  <2>4. TypeOK'
    BY <1>1, <2>1, <2>3 DEF IInv, PagedFileInv, TypeOK, NoPages
  <2>5. FreeListExact' /\ Settled'
    BY <1>1, <2>1, <2>2, <2>3 DEF IInv, PagedFileInv, FreeListExact, Settled, PagesFilled
  <2>6. PinnedPagesUsed'
    BY <1>1, <2>2 DEF PinnedPagesUsed, Pinned
  <2> QED BY <2>4, <2>5, <2>6 DEF IInv, PagedFileInv
<1> QED BY <1>3, <1>4

LEMMA ForcePagesIInv == ASSUME IInv, NEW P \in SUBSET PageNums, ForcePages(P) PROVE IInv'
<1> DEFINE W == {p \in P : mem[p] # durable[p]}
<1>1. /\ bFileOpen /\ durable' = WrittenOut(W) /\ diskHdr' = hdr /\ bHdrChanged' = FALSE
      /\ UNCHANGED <<exists, bFileOpen, hdr, mem, pins>> /\ rc' \in ReturnCodes
  BY HeaderWritten DEF ForcePages, ReturnCodes
<1>2. \A p \in W : p \in PageNums /\ mem[p] # durable[p]
  OBVIOUS
<1> HIDE DEF W
<1> QED BY <1>1, <1>2, WritingIInv

LEMMA FlushFailsIInv == ASSUME IInv, FlushFails PROVE IInv'
<1>1. CASE Returns("PF_UNIX")
  BY <1>1, ReturnsIInv DEF ReturnCodes
<1>2. CASE ~Returns("PF_UNIX")
  <2>1. PICK W \in SUBSET {p \in PageNums : mem[p] # durable[p]} : durable' = WrittenOut(W)
    BY <1>2 DEF FlushFails
  <2>2. /\ bFileOpen /\ diskHdr' = hdr /\ bHdrChanged' = FALSE
        /\ UNCHANGED <<exists, bFileOpen, hdr, mem, pins>> /\ rc' \in ReturnCodes
    BY <1>2, HeaderWritten DEF FlushFails, ReturnCodes
  <2> QED BY <2>1, <2>2, WritingIInv
<1> QED BY <1>1, <1>2

LEMMA WriteBackIInv == ASSUME IInv, NEW p \in PageNums, WriteBack(p) PROVE IInv'
<1>1. rc' \in ReturnCodes
  BY DEF WriteBack, IInv, PagedFileInv, TypeOK
<1>2. /\ bFileOpen /\ durable' = WrittenOut({p}) /\ mem[p] # durable[p]
      /\ UNCHANGED <<exists, diskHdr, bFileOpen, hdr, bHdrChanged, mem, pins>>
  BY DEF WriteBack
<1>3. \A q \in {p} : q \in PageNums /\ mem[q] # durable[q]
  BY <1>2
<1> QED BY <1>1, <1>2, <1>3, WritingIInv

----------------------------------------------------------------------------
(* A page in use may be pinned once more.                                  *)
LEMMA PinIInv ==
    ASSUME IInv, NEW p \in PageNums, IsValidPageNum(p), IsUsed(p), Pin(p) PROVE IInv'
<1>1. /\ pins' = [pins EXCEPT ![p] = @ + 1] /\ pins[p] < MaxPins /\ rc' = "OK" /\ bFileOpen
      /\ UNCHANGED <<exists, diskHdr, durable, bFileOpen, hdr, bHdrChanged, mem>>
  BY DEF Pin, disk, IsValidPageNum
<1>2. pins \in [PageNums -> 0 .. MaxPins]
  BY DEF IInv, PagedFileInv, TypeOK
<1>3. pins' \in [PageNums -> 0 .. MaxPins]
  BY <1>1, <1>2
<1>4. TypeOK'
  BY <1>1, <1>3 DEF IInv, PagedFileInv, TypeOK, ReturnCodes
<1>5. FreeListExact'
  BY <1>1 DEF IInv, PagedFileInv, FreeListExact
<1>6. PinnedPagesUsed'
  <2>1. \A q \in PageNums : q # p => pins'[q] = pins[q]
    BY <1>1, <1>2
  <2> QED BY <1>1, <2>1 DEF IInv, PagedFileInv, PinnedPagesUsed, Pinned, IsValidPageNum, IsUsed
<1>7. Settled'
  BY <1>1 DEF IInv, Settled, PagesFilled
<1> QED BY <1>4, <1>5, <1>6, <1>7 DEF IInv, PagedFileInv

LEMMA GetThisPageIInv == ASSUME IInv, NEW p \in PageNums, GetThisPage(p) PROVE IInv'
<1>1. CASE \E code \in ReturnCodes : Returns(code)
  BY <1>1, ReturnsIInv
<1>2. CASE ~\E code \in ReturnCodes : Returns(code)
  <2>1. IsValidPageNum(p) /\ IsUsed(p) /\ Pin(p)
    BY <1>2 DEF GetThisPage, BufferFails, ReturnCodes
  <2> QED BY <2>1, PinIInv
<1> QED BY <1>1, <1>2

(* A scan pins a page in use, of those the file has.                       *)
LEMMA ScanToIInv ==
    ASSUME IInv, bFileOpen, NEW here, \A q \in here : q \in 0 .. hdr.numPages - 1,
           NEW step, ScanTo(here, step)
    PROVE  IInv'
<1>1. CASE \E code \in ReturnCodes : Returns(code)
  BY <1>1, ReturnsIInv
<1>2. CASE ~\E code \in ReturnCodes : Returns(code)
  <2>1. PICK p \in here : IsUsed(p) /\ Pin(p)
    BY <1>2 DEF ScanTo, BufferFails, ReturnCodes
  <2>2. p \in PageNums /\ IsValidPageNum(p)
    BY DEF IsValidPageNum, PageNums, IInv, PagedFileInv, TypeOK, Hdr
  <2> QED BY <2>1, <2>2, PinIInv
<1> QED BY <1>1, <1>2

LEMMA GetNextPageIInv == ASSUME IInv, NEW p \in PageNums, GetNextPage(p - 1) PROVE IInv'
<1>1. CASE \E code \in ReturnCodes : Returns(code)
  BY <1>1, ReturnsIInv
<1>2. CASE ~\E code \in ReturnCodes : Returns(code)
  <2>1. bFileOpen /\ ScanTo((p - 1) + 1 .. hdr.numPages - 1, 1)
    BY <1>2 DEF GetNextPage, ReturnCodes
  <2>2. \A q \in (p - 1) + 1 .. hdr.numPages - 1 : q \in 0 .. hdr.numPages - 1
    BY Numbers DEF IInv, PagedFileInv, TypeOK, Hdr
  <2> QED BY <2>1, <2>2, ScanToIInv
<1> QED BY <1>1, <1>2

LEMMA GetPrevPageIInv == ASSUME IInv, NEW p \in PageNums, GetPrevPage(p + 1) PROVE IInv'
<1>1. CASE \E code \in ReturnCodes : Returns(code)
  BY <1>1, ReturnsIInv
<1>2. CASE ~\E code \in ReturnCodes : Returns(code)
  <2>1. /\ bFileOpen /\ ScanTo(0 .. (p + 1) - 1, -1)
        /\ p + 1 = hdr.numPages \/ p + 1 \in 0 .. hdr.numPages - 1
    BY <1>2 DEF GetPrevPage, ReturnCodes, IsValidPageNum
  <2>2. \A q \in 0 .. (p + 1) - 1 : q \in 0 .. hdr.numPages - 1
    BY <2>1, Numbers DEF IInv, PagedFileInv, TypeOK, Hdr
  <2> QED BY <2>1, <2>2, ScanToIInv
<1> QED BY <1>1, <1>2

LEMMA UnpinPageIInv == ASSUME IInv, NEW p \in PageNums, UnpinPage(p) PROVE IInv'
<1>1. CASE \E code \in ReturnCodes : Returns(code)
  BY <1>1, ReturnsIInv
<1>2. CASE ~\E code \in ReturnCodes : Returns(code)
  <2>1. /\ pins[p] # 0 /\ pins' = [pins EXCEPT ![p] = @ - 1] /\ rc' = "OK" /\ bFileOpen
        /\ UNCHANGED <<exists, diskHdr, durable, bFileOpen, hdr, bHdrChanged, mem>>
    BY <1>2 DEF UnpinPage, ReturnCodes, disk
  <2>2. pins \in [PageNums -> 0 .. MaxPins]
    BY DEF IInv, PagedFileInv, TypeOK
  <2>3. pins' \in [PageNums -> 0 .. MaxPins]
    BY <2>1, <2>2
  <2>4. TypeOK'
    BY <2>1, <2>3 DEF IInv, PagedFileInv, TypeOK, ReturnCodes
  <2>5. FreeListExact'
    BY <2>1 DEF IInv, PagedFileInv, FreeListExact
  <2>6. PinnedPagesUsed'
    <3>1. \A q \in PageNums : q # p => pins'[q] = pins[q]
      BY <2>1, <2>2
    <3>2. p \in Pinned
      BY <2>1, <2>2 DEF Pinned
    <3> QED BY <2>1, <3>1, <3>2
            DEF IInv, PagedFileInv, PinnedPagesUsed, Pinned, IsValidPageNum, IsUsed
  <2>7. Settled'
    BY <2>1 DEF IInv, Settled, PagesFilled
  <2> QED BY <2>4, <2>5, <2>6, <2>7 DEF IInv, PagedFileInv
<1> QED BY <1>1, <1>2

(* Clients write to the data of a page they have pinned, which is in use.  *)
LEMMA WriteDataIInv ==
    ASSUME IInv, NEW p \in PageNums, NEW v \in Vals, WriteData(p, v) PROVE IInv'
<1>1. /\ pins[p] > 0 /\ mem' = [mem EXCEPT ![p].val = v] /\ rc' = "OK"
      /\ UNCHANGED <<exists, diskHdr, durable, bFileOpen, hdr, bHdrChanged, pins>>
  BY DEF WriteData, disk
<1>2. IsValidPageNum(p) /\ IsUsed(p)
  BY <1>1 DEF IInv, PagedFileInv, PinnedPagesUsed, Pinned
<1>3. /\ mem[p] \in Page /\ mem'[p] = [mem[p] EXCEPT !.val = v]
      /\ \A q \in PageNums : q # p => mem'[q] = mem[q]
  BY <1>1, <1>2 DEF IInv, PagedFileInv, TypeOK, IsUsed
<1>4. mem'[p] \in Page /\ mem'[p].next = mem[p].next /\ mem'[p] # NoPage
  <2>1. mem'[p] \in Page /\ mem'[p].next = mem[p].next
    BY <1>3 DEF Page
  <2> QED BY <2>1, Numbers
<1>5. \A q \in PageNums : /\ mem'[q] = NoPage <=> mem[q] = NoPage
                          /\ mem[q] # NoPage => mem'[q].next = mem[q].next
  BY <1>2, <1>3, <1>4 DEF IsUsed
<1>6. TypeOK'
  BY <1>1, <1>3, <1>4 DEF IInv, PagedFileInv, TypeOK, ReturnCodes
<1>7. FreeListExact'
  <2>1. bFileOpen /\ bFileOpen'
    BY <1>1, <1>2 DEF IsValidPageNum
  <2>2. FreeListIsExact(hdr, mem)
    BY <2>1 DEF IInv, PagedFileInv, FreeListExact
  <2>3. FreeListIsExact(hdr, mem')
    BY <1>5, <2>2, ListKept
  <2> QED BY <1>1, <2>1, <2>3 DEF FreeListExact
<1>8. PinnedPagesUsed'
  BY <1>1, <1>5 DEF IInv, PagedFileInv, PinnedPagesUsed, Pinned, IsValidPageNum, IsUsed
<1>9. Settled'
  BY <1>1, <1>5 DEF IInv, Settled, PagesFilled
<1> QED BY <1>6, <1>7, <1>8, <1>9 DEF IInv, PagedFileInv

----------------------------------------------------------------------------
(* A page nobody has pinned is taken into use.                             *)
LEMMA TakePageIInv ==
    ASSUME IInv, bFileOpen, NEW p \in PageNums, NEW newHdr \in Hdr, TakePage(p, newHdr),
           pins[p] = 0, p < newHdr.numPages, FreeListIsExact(newHdr, mem'),
           \A q \in PageNums : q < newHdr.numPages <=> q < hdr.numPages \/ q = p
    PROVE  IInv'
<1>1. /\ hdr' = newHdr /\ bHdrChanged' = TRUE /\ bFileOpen' /\ rc' = "OK"
      /\ mem' = [mem EXCEPT ![p] = [next |-> PF_PAGE_USED, val |-> Zero]]
      /\ pins' = [pins EXCEPT ![p] = @ + 1]
      /\ UNCHANGED <<exists, diskHdr, durable, bFileOpen>>
  BY DEF TakePage, disk
<1>2. /\ mem \in [PageNums -> Page \cup {NoPage}] /\ pins \in [PageNums -> 0 .. MaxPins]
  BY DEF IInv, PagedFileInv, TypeOK
<1>3. /\ mem'[p] = [next |-> PF_PAGE_USED, val |-> Zero] /\ mem'[p] # NoPage
      /\ mem'[p].next = PF_PAGE_USED /\ mem' \in [PageNums -> Page \cup {NoPage}]
      /\ \A q \in PageNums : q # p => mem'[q] = mem[q] /\ pins'[q] = pins[q]
  BY <1>1, <1>2, Numbers
<1>4. pins' \in [PageNums -> 0 .. MaxPins]
  <2>1. pins[p] + 1 \in 0 .. MaxPins
    OBVIOUS
  <2> QED BY <1>1, <1>2, <2>1
<1>5. TypeOK'
  BY <1>1, <1>3, <1>4 DEF IInv, PagedFileInv, TypeOK, ReturnCodes
<1>6. FreeListExact'
  BY <1>1 DEF FreeListExact
<1>7. PinnedPagesUsed'
  <2>1. ASSUME NEW q \in Pinned' PROVE IsValidPageNum(q)' /\ IsUsed(q)'
    <3>0. q \in PageNums /\ newHdr.numPages \in Int /\ PageNums \subseteq Nat
      BY <2>1, Numbers DEF Pinned, Hdr
    <3>1. CASE q = p
      BY <3>0, <3>1, <1>1, <1>3 DEF IsValidPageNum, IsUsed
    <3>2. CASE q # p
      <4>1. IsValidPageNum(q) /\ IsUsed(q)
        BY <3>0, <3>2, <1>3 DEF IInv, PagedFileInv, PinnedPagesUsed, Pinned
      <4>2. q < hdr.numPages
        BY <4>1 DEF IsValidPageNum, IInv, PagedFileInv, TypeOK, Hdr
      <4> QED BY <3>0, <3>2, <4>1, <4>2, <1>1, <1>3 DEF IsValidPageNum, IsUsed
    <3> QED BY <3>1, <3>2
  <2> QED BY <2>1 DEF PinnedPagesUsed
<1>8. Settled'
  <2>1. PagesFilled(newHdr, mem')
    BY <1>3 DEF IInv, Settled, PagesFilled
  <2>2. \A q \in PageNums : durable[q] # NoPage => q < newHdr.numPages
    BY DEF IInv, Settled
  <2> QED BY <1>1, <2>1, <2>2 DEF IInv, Settled
<1> QED BY <1>5, <1>6, <1>7, <1>8 DEF IInv, PagedFileInv

LEMMA AllocatePageIInv == ASSUME IInv, AllocatePage PROVE IInv'
<1>1. CASE \E code \in ReturnCodes : Returns(code)
  BY <1>1, ReturnsIInv
<1>2. CASE ~\E code \in ReturnCodes : Returns(code)
  <2>1. /\ bFileOpen /\ hdr \in Hdr /\ mem \in [PageNums -> Page \cup {NoPage}]
        /\ FreeListIsExact(hdr, mem) /\ hdr.numPages \in Nat /\ PageNums \subseteq Nat
    BY <1>2, Numbers
       DEF AllocatePage, ReturnCodes, IInv, PagedFileInv, TypeOK, FreeListExact, Hdr
  <2>2. ASSUME NEW q \in PageNums, pins[q] # 0 PROVE IsValidPageNum(q) /\ IsUsed(q)
    BY <2>2 DEF IInv, PagedFileInv, TypeOK, PinnedPagesUsed, Pinned
  <2>3. CASE hdr.firstFree # PF_PAGE_LIST_END
    <3> DEFINE p == hdr.firstFree
               newHdr == [hdr EXCEPT !.firstFree = mem[hdr.firstFree].next]
    <3>1. /\ p \in Disposed(hdr, mem) /\ mem[p] # NoPage /\ mem[p].next \in Links
          /\ FreeListIsExact(newHdr,
                             [mem EXCEPT ![p] = [next |-> PF_PAGE_USED, val |-> Zero]])
      BY <2>1, <2>3, ListTaken
    <3>2. p \in PageNums /\ p < hdr.numPages /\ ~IsUsed(p) /\ pins[p] = 0
      BY <3>1, <2>2 DEF Disposed, IsUsed
    <3>3. newHdr \in Hdr /\ newHdr.numPages = hdr.numPages
      BY <2>1, <3>1 DEF Hdr
    <3>4. TakePage(p, newHdr)
      BY <1>2, <2>1, <2>3 DEF AllocatePage, BufferFails, ReturnCodes
    <3>5. FreeListIsExact(newHdr, mem')
      BY <3>1, <3>4 DEF TakePage
    <3> HIDE DEF p, newHdr
    <3> QED BY <2>1, <3>2, <3>3, <3>4, <3>5, TakePageIInv
  <2>4. CASE hdr.firstFree = PF_PAGE_LIST_END
    <3> DEFINE p == hdr.numPages
               newHdr == [hdr EXCEPT !.numPages = @ + 1]
    <3>1. hdr.numPages < MaxPages /\ TakePage(p, newHdr)
      BY <1>2, <2>1, <2>4 DEF AllocatePage, BufferFails, ReturnCodes
    <3>2. p \in PageNums /\ pins[p] = 0
      <4>1. p \in PageNums /\ ~IsValidPageNum(p)
        BY <2>1, <3>1 DEF PageNums, IsValidPageNum
      <4> QED BY <4>1, <2>2
    <3>3. newHdr \in Hdr /\ newHdr.numPages = hdr.numPages + 1
      BY <2>1, <3>1 DEF Hdr
    <3>4. FreeListIsExact(newHdr, mem')
      BY <2>1, <3>1, ListExtended DEF TakePage
    <3>5. \A q \in PageNums : q < newHdr.numPages <=> q < hdr.numPages \/ q = p
      BY <2>1, <3>3
    <3>6. p < newHdr.numPages
      BY <2>1, <3>3
    <3> HIDE DEF p, newHdr
    <3> QED BY <2>1, <3>1, <3>2, <3>3, <3>4, <3>5, <3>6, TakePageIInv
  <2> QED BY <2>3, <2>4
<1> QED BY <1>1, <1>2

(* Only pages nobody has pinned are disposed of.                           *)
LEMMA DisposePageIInv == ASSUME IInv, NEW p \in PageNums, DisposePage(p) PROVE IInv'
<1>1. CASE \E code \in ReturnCodes : Returns(code)
  BY <1>1, ReturnsIInv
<1>2. CASE ~\E code \in ReturnCodes : Returns(code)
  <2>1. /\ bFileOpen /\ IsValidPageNum(p) /\ IsUsed(p) /\ ~(pins[p] > 0)
        /\ mem' = [mem EXCEPT ![p].next = hdr.firstFree]
        /\ hdr' = [hdr EXCEPT !.firstFree = p]
        /\ bHdrChanged' = TRUE /\ rc' = "OK" /\ bFileOpen'
        /\ UNCHANGED <<exists, diskHdr, durable, bFileOpen, pins>>
    BY <1>2 DEF DisposePage, BufferFails, ReturnCodes, disk
  <2>2. /\ hdr \in Hdr /\ mem \in [PageNums -> Page \cup {NoPage}]
        /\ FreeListIsExact(hdr, mem) /\ mem[p] \in Page
    BY <2>1 DEF IInv, PagedFileInv, TypeOK, FreeListExact, IsUsed
  <2>3. hdr' \in Hdr /\ hdr'.numPages = hdr.numPages
    BY <2>1, <2>2 DEF Hdr, Links
  <2>4. mem'[p] \in Page /\ mem'[p] # NoPage
    <3>1. hdr.firstFree \in Links /\ mem'[p] = [mem[p] EXCEPT !.next = hdr.firstFree]
      BY <2>1, <2>2 DEF Hdr
    <3>2. mem'[p] \in Page
      BY <2>2, <3>1 DEF Page
    <3> QED BY <3>2, Numbers
  <2>5. \A q \in PageNums : q # p => mem'[q] = mem[q]
    BY <2>1, <2>2
  <2>6. TypeOK'
    <3>1. mem' \in [PageNums -> Page \cup {NoPage}]
      BY <2>1, <2>2, <2>4, <2>5
    <3> QED BY <2>1, <2>3, <3>1 DEF IInv, PagedFileInv, TypeOK, ReturnCodes
  <2>7. FreeListExact'
    <3>1. p < hdr.numPages /\ mem[p] # NoPage /\ mem[p].next = PF_PAGE_USED
      BY <2>1, <2>2 DEF IsValidPageNum, IsUsed, Hdr
    <3>2. FreeListIsExact(hdr', mem')
      BY <2>1, <2>2, <3>1, ListGrown
    <3> QED BY <2>1, <3>2 DEF FreeListExact
  <2>8. PinnedPagesUsed'
    <3>1. p \notin Pinned' /\ Pinned' = Pinned
      BY <2>1 DEF Pinned
    <3> QED BY <2>1, <2>3, <2>5, <3>1
            DEF IInv, PagedFileInv, PinnedPagesUsed, IsValidPageNum, IsUsed, Pinned
  <2>9. Settled'
    <3>1. PagesFilled(hdr', mem')
      BY <2>1, <2>3, <2>4, <2>5 DEF IInv, Settled, PagesFilled, IsUsed
    <3>2. \A q \in PageNums : durable[q] # NoPage => q < hdr'.numPages
      BY <2>1, <2>3 DEF IInv, Settled
    <3> QED BY <2>1, <3>1, <3>2 DEF IInv, Settled
  <2> QED BY <2>6, <2>7, <2>8, <2>9 DEF IInv, PagedFileInv
<1> QED BY <1>1, <1>2

----------------------------------------------------------------------------
LEMMA NextIInv == IInv /\ [Next]_vars => IInv'
<1> SUFFICES ASSUME IInv, [Next]_vars PROVE IInv'
  OBVIOUS
<1>1. CASE UNCHANGED vars
  BY <1>1, NothingChanged DEF vars, disk, IInv, PagedFileInv, TypeOK
<1>2. CASE CreateFile \/ DestroyFile \/ OpenFile \/ CloseFile
  BY <1>2, CreateFileIInv, DestroyFileIInv, OpenFileIInv, CloseFileIInv
<1>3. CASE FlushPages \/ FlushFails \/ AllocatePage \/ ForcePages(PageNums)
  BY <1>3, FlushPagesIInv, FlushFailsIInv, AllocatePageIInv, ForcePagesIInv
<1>4. ASSUME NEW p \in PageNums,
             \/ GetThisPage(p) \/ GetNextPage(p - 1) \/ GetPrevPage(p + 1)
             \/ DisposePage(p) \/ UnpinPage(p) \/ WriteBack(p) \/ ForcePages({p})
      PROVE  IInv'
  BY <1>4, GetThisPageIInv, GetNextPageIInv, GetPrevPageIInv, DisposePageIInv,
     UnpinPageIInv, WriteBackIInv, ForcePagesIInv
<1>5. ASSUME NEW p \in PageNums, NEW v \in Vals, WriteData(p, v) PROVE IInv'
  BY <1>5, WriteDataIInv
<1> QED BY <1>1, <1>2, <1>3, <1>4, <1>5 DEF Next

(* Every reachable state satisfies the inductive invariant.                *)
THEOREM IInvHolds == Spec => []IInv
<1> QED BY InitIInv, NextIInv, PTL DEF Spec

(* Through allocations, disposals, flushes, write-backs, failing writes    *)
(* and reopening, the free list of a file holds every disposed page once   *)
(* and no page in use, and no pinned page is on it.                        *)
THEOREM FreeListIsKept == Spec => []PagedFileInv
<1>1. IInv => PagedFileInv
  BY DEF IInv
<1> QED BY <1>1, IInvHolds, PTL

(* What ForcePages puts on disk while pages are pinned is the whole file.  *)
LEMMA ForceStep ==
    ASSUME IInv, ForcePages(PageNums)
    PROVE  /\ Contents(diskHdr', durable') = Contents(hdr, mem)
           /\ FreeListIsExact(diskHdr', durable')
<1> DEFINE W == {p \in PageNums : mem[p] # durable[p]}
<1>1. bFileOpen /\ durable' = WrittenOut(W) /\ diskHdr' = hdr
  BY HeaderWritten DEF ForcePages
<1>2. durable' = mem
  <2>1. \A p \in PageNums : mem[p] # durable[p] <=> p \in W
    OBVIOUS
  <2>2. \A p \in W : p \in PageNums
    OBVIOUS
  <2> HIDE DEF W
  <2> QED BY <1>1, <2>1, <2>2, FileWritten
<1>3. FreeListIsExact(hdr, mem)
  BY <1>1 DEF IInv, PagedFileInv, FreeListExact
<1> QED BY <1>1, <1>2, <1>3

(* ForcePages with no page number is a checkpoint: the file on disk has    *)
(* the contents clients see, and a free list that is exact.                *)
THEOREM ForceMakesDurable == Spec => ForceIsDurable
<1>1. IInv /\ [Next]_vars
        => [ForcePages(PageNums) => /\ Contents(diskHdr', durable') = Contents(hdr, mem)
                                    /\ FreeListIsExact(diskHdr', durable')]_vars
  BY ForceStep
<1> QED BY <1>1, IInvHolds, PTL DEF Spec, ForceIsDurable
----------------------------------------------------------------------------
(* The refinement of PageSet.  pages is what a program finds in the file.  *)
pages == IF bFileOpen THEN Contents(hdr, mem)
         ELSE IF exists THEN Contents(diskHdr, durable) ELSE NoPages

LEMMA PagesOfUsed ==
    ASSUME IInv, bFileOpen, NEW p \in PageNums
    PROVE  /\ IsUsed(p) => pages[p] = mem[p].val /\ pages[p] # NoPage
           /\ ~IsUsed(p) => pages[p] = NoPage
<1>1. pages = Contents(hdr, mem)
  BY DEF pages
<1>2. CASE IsUsed(p)
  <2>1. mem[p] \in Page /\ p < hdr.numPages
    BY <1>2 DEF IInv, PagedFileInv, TypeOK, Settled, PagesFilled, IsUsed
  <2> QED BY <1>1, <1>2, <2>1, Numbers DEF Contents, IsUsed
<1>3. CASE ~IsUsed(p)
  BY <1>1, <1>3 DEF Contents, IsUsed
<1> QED BY <1>2, <1>3

(* A step that changes one page in memory changes one page of the set.     *)
LEMMA PagesUpdated ==
    ASSUME IInv, IInv', bFileOpen, bFileOpen', NEW p \in PageNums, NEW v,
           \A q \in PageNums : q # p => mem'[q] = mem[q],
           IF IsUsed(p)' THEN mem'[p].val = v ELSE v = NoPage
    PROVE  pages' = [pages EXCEPT ![p] = v]
<1>1. /\ pages = [q \in PageNums |-> pages[q]]
      /\ pages' = [q \in PageNums |-> pages'[q]]
  BY DEF pages, Contents
<1>2. ASSUME NEW q \in PageNums PROVE pages'[q] = IF q = p THEN v ELSE pages[q]
  <2>1. /\ IsUsed(q) => pages[q] = mem[q].val
        /\ ~IsUsed(q) => pages[q] = NoPage
    BY PagesOfUsed
  <2>2. /\ IsUsed(q)' => pages'[q] = mem'[q].val
        /\ ~IsUsed(q)' => pages'[q] = NoPage
    <3>1. /\ q < hdr'.numPages /\ mem'[q] # NoPage /\ mem'[q].next = PF_PAGE_USED
                => pages'[q] = mem'[q].val
          /\ ~(q < hdr'.numPages /\ mem'[q] # NoPage /\ mem'[q].next = PF_PAGE_USED)
                => pages'[q] = NoPage
      BY DEF pages, Contents
    <3>2. mem'[q] # NoPage => q < hdr'.numPages
      BY DEF IInv, Settled, PagesFilled
    <3> QED BY <3>1, <3>2 DEF IsUsed
  <2>3. CASE q = p
    BY <2>2, <2>3
  <2>4. CASE q # p
    BY <2>1, <2>2, <2>4 DEF IsUsed
  <2> QED BY <2>3, <2>4
<1> QED BY <1>1, <1>2

(* A step of the file after which the open file holds the same pages.      *)
LEMMA PagesKept ==
    ASSUME bFileOpen, UNCHANGED <<exists, bFileOpen, hdr, mem, pins>>
    PROVE  UNCHANGED Set!vars
BY DEF Set!vars

(* A call that returns an error, or reads, leaves the set as it was.       *)
LEMMA ReturnsSet ==
    ASSUME NEW code, Returns(code) PROVE UNCHANGED Set!vars
BY DEF Returns, disk, Contents, Set!vars

LEMMA PinSet ==
    ASSUME IInv, NEW p \in PageNums, IsValidPageNum(p), IsUsed(p), Pin(p) PROVE Set!Pin(p)
<1>1. bFileOpen /\ pages[p] # NoPage
  BY PagesOfUsed DEF IsValidPageNum
<1>2. UNCHANGED pages
  BY DEF Pin, disk, pages, Contents
<1> QED BY <1>1, <1>2 DEF Pin, disk, pages, Set!Pin

LEMMA ScanSet ==
    ASSUME IInv, bFileOpen, NEW here, \A q \in here : q \in 0 .. hdr.numPages - 1,
           NEW step, ScanTo(here, step)
    PROVE  (\E p \in PageNums : Set!Pin(p)) \/ UNCHANGED Set!vars
<1>1. CASE \E code \in ReturnCodes : Returns(code)
  BY <1>1, ReturnsSet
<1>2. CASE ~\E code \in ReturnCodes : Returns(code)
  <2>1. PICK p \in here : IsUsed(p) /\ Pin(p)
    BY <1>2 DEF ScanTo, BufferFails, ReturnCodes
  <2>2. p \in PageNums /\ IsValidPageNum(p)
    BY DEF IsValidPageNum, PageNums, IInv, PagedFileInv, TypeOK, Hdr
  <2> QED BY <2>1, <2>2, PinSet
<1> QED BY <1>1, <1>2

LEMMA GetPageSet ==
    ASSUME IInv, NEW p \in PageNums,
           GetThisPage(p) \/ GetNextPage(p - 1) \/ GetPrevPage(p + 1)
    PROVE  (\E q \in PageNums : Set!Pin(q)) \/ UNCHANGED Set!vars
<1>1. CASE \E code \in ReturnCodes : Returns(code)
  BY <1>1, ReturnsSet
<1>2. CASE ~\E code \in ReturnCodes : Returns(code)
  <2>1. CASE GetThisPage(p)
    <3>1. IsValidPageNum(p) /\ IsUsed(p) /\ Pin(p)
      BY <1>2, <2>1 DEF GetThisPage, BufferFails, ReturnCodes
    <3> QED BY <3>1, PinSet
  <2>2. CASE GetNextPage(p - 1)
    <3>1. bFileOpen /\ ScanTo((p - 1) + 1 .. hdr.numPages - 1, 1)
      BY <1>2, <2>2 DEF GetNextPage, ReturnCodes
    <3>2. \A q \in (p - 1) + 1 .. hdr.numPages - 1 : q \in 0 .. hdr.numPages - 1
      BY Numbers DEF IInv, PagedFileInv, TypeOK, Hdr
    <3> QED BY <3>1, <3>2, ScanSet
  <2>3. CASE GetPrevPage(p + 1)
    <3>1. /\ bFileOpen /\ ScanTo(0 .. (p + 1) - 1, -1)
          /\ p + 1 = hdr.numPages \/ p + 1 \in 0 .. hdr.numPages - 1
      BY <1>2, <2>3 DEF GetPrevPage, ReturnCodes, IsValidPageNum
    <3>2. \A q \in 0 .. (p + 1) - 1 : q \in 0 .. hdr.numPages - 1
      BY <3>1, Numbers DEF IInv, PagedFileInv, TypeOK, Hdr
    <3> QED BY <3>1, <3>2, ScanSet
  <2> QED BY <2>1, <2>2, <2>3
<1> QED BY <1>1, <1>2

LEMMA UnpinSet ==
    ASSUME IInv, NEW p \in PageNums, UnpinPage(p) PROVE Set!Unpin(p) \/ UNCHANGED Set!vars
<1>1. CASE \E code \in ReturnCodes : Returns(code)
  BY <1>1, ReturnsSet
<1>2. CASE ~\E code \in ReturnCodes : Returns(code)
  <2>1. /\ pins[p] # 0 /\ pins' = [pins EXCEPT ![p] = @ - 1]
        /\ UNCHANGED <<exists, diskHdr, durable, bFileOpen, hdr, mem>>
    BY <1>2 DEF UnpinPage, ReturnCodes, disk
  <2>2. pins[p] \in 0 .. MaxPins
    BY DEF IInv, PagedFileInv, TypeOK
  <2>3. UNCHANGED pages
    BY <2>1 DEF pages, Contents
  <2> QED BY <2>1, <2>2, <2>3 DEF pages, Set!Unpin
<1> QED BY <1>1, <1>2

LEMMA WriteDataSet ==
    ASSUME IInv, IInv', NEW p \in PageNums, NEW v \in Vals, WriteData(p, v)
    PROVE  Set!Write(p, v)
<1>1. /\ pins[p] > 0 /\ mem' = [mem EXCEPT ![p].val = v]
      /\ UNCHANGED <<exists, diskHdr, durable, bFileOpen, hdr, pins>>
  BY DEF WriteData, disk
<1>2. bFileOpen /\ IsUsed(p)
  BY <1>1 DEF IInv, PagedFileInv, PinnedPagesUsed, Pinned, IsValidPageNum
<1>3. /\ mem'[p] = [mem[p] EXCEPT !.val = v]
      /\ \A q \in PageNums : q # p => mem'[q] = mem[q]
  BY <1>1 DEF IInv, PagedFileInv, TypeOK
<1>4. mem[p] \in Page
  BY <1>2 DEF IInv, PagedFileInv, TypeOK, IsUsed
<1>5. mem'[p].val = v /\ IsUsed(p)'
  <2>1. mem'[p].val = v /\ mem'[p].next = PF_PAGE_USED /\ mem'[p] \in Page
    BY <1>2, <1>3, <1>4 DEF Page, IsUsed
  <2> QED BY <2>1, Numbers DEF IsUsed
<1>6. pages' = [pages EXCEPT ![p] = v]
  BY <1>1, <1>2, <1>3, <1>5, PagesUpdated
<1> QED BY <1>1, <1>6 DEF pages, Set!Write

LEMMA TakePageSet ==
    ASSUME IInv, IInv', bFileOpen, NEW p \in PageNums, NEW newHdr, TakePage(p, newHdr),
           ~IsUsed(p)
    PROVE  Set!Allocate(p)
<1>1. /\ mem' = [mem EXCEPT ![p] = [next |-> PF_PAGE_USED, val |-> Zero]]
      /\ pins' = [pins EXCEPT ![p] = @ + 1] /\ UNCHANGED <<exists, bFileOpen>>
  BY DEF TakePage, disk
<1>2. pins[p] = 0 /\ pins' = [pins EXCEPT ![p] = 1]
  <2>1. pins[p] = 0
    BY DEF IInv, PagedFileInv, TypeOK, PinnedPagesUsed, Pinned
  <2> QED BY <1>1, <2>1
<1>3. /\ mem'[p] = [next |-> PF_PAGE_USED, val |-> Zero]
      /\ \A q \in PageNums : q # p => mem'[q] = mem[q]
  BY <1>1 DEF IInv, PagedFileInv, TypeOK
<1>4. mem'[p].val = Zero /\ IsUsed(p)'
  BY <1>3, Numbers DEF IsUsed
<1>5. pages' = [pages EXCEPT ![p] = Zero]
  BY <1>1, <1>3, <1>4, PagesUpdated
<1>6. pages[p] = NoPage
  BY PagesOfUsed
<1> QED BY <1>1, <1>2, <1>5, <1>6 DEF pages, Set!Allocate

LEMMA AllocateSet ==
    ASSUME IInv, IInv', AllocatePage
    PROVE  (\E p \in PageNums : Set!Allocate(p)) \/ UNCHANGED Set!vars
<1>1. CASE \E code \in ReturnCodes : Returns(code)
  BY <1>1, ReturnsSet
<1>2. CASE ~\E code \in ReturnCodes : Returns(code)
  <2>1. /\ bFileOpen /\ hdr \in Hdr /\ mem \in [PageNums -> Page \cup {NoPage}]
        /\ FreeListIsExact(hdr, mem)
    BY <1>2 DEF AllocatePage, ReturnCodes, IInv, PagedFileInv, TypeOK, FreeListExact
  <2>2. CASE hdr.firstFree # PF_PAGE_LIST_END
    <3>1. hdr.firstFree \in Disposed(hdr, mem)
      BY <2>1, <2>2, ListTaken
    <3>2. hdr.firstFree \in PageNums /\ ~IsUsed(hdr.firstFree)
      BY <3>1 DEF Disposed, IsUsed
    <3>3. \E newHdr : TakePage(hdr.firstFree, newHdr)
      BY <1>2, <2>1, <2>2 DEF AllocatePage, BufferFails, ReturnCodes
    <3> QED BY <2>1, <3>2, <3>3, TakePageSet
  <2>3. CASE hdr.firstFree = PF_PAGE_LIST_END
    <3>1. hdr.numPages < MaxPages /\ \E newHdr : TakePage(hdr.numPages, newHdr)
      BY <1>2, <2>1, <2>3 DEF AllocatePage, BufferFails, ReturnCodes
    <3>2. hdr.numPages \in PageNums /\ mem[hdr.numPages] = NoPage
      BY <2>1, <3>1 DEF Hdr, PageNums, IInv, Settled, PagesFilled
    <3> QED BY <2>1, <3>1, <3>2, TakePageSet DEF IsUsed
  <2> QED BY <2>2, <2>3
<1> QED BY <1>1, <1>2

LEMMA DisposeSet ==
    ASSUME IInv, IInv', NEW p \in PageNums, DisposePage(p)
    PROVE  Set!Dispose(p) \/ UNCHANGED Set!vars
<1>1. CASE \E code \in ReturnCodes : Returns(code)
  BY <1>1, ReturnsSet
<1>2. CASE ~\E code \in ReturnCodes : Returns(code)
  <2>1. /\ bFileOpen /\ bFileOpen' /\ IsUsed(p) /\ ~(pins[p] > 0)
        /\ mem' = [mem EXCEPT ![p].next = hdr.firstFree]
        /\ UNCHANGED <<exists, bFileOpen, pins>>
    BY <1>2 DEF DisposePage, BufferFails, ReturnCodes, disk
  <2>2. /\ hdr.firstFree \in Links /\ mem[p] \in Page /\ pins[p] \in 0 .. MaxPins
        /\ mem'[p] = [mem[p] EXCEPT !.next = hdr.firstFree]
        /\ \A q \in PageNums : q # p => mem'[q] = mem[q]
    BY <2>1 DEF IInv, PagedFileInv, TypeOK, Hdr, IsUsed
  <2>3. ~IsUsed(p)'
    <3>1. mem'[p].next = hdr.firstFree
      BY <2>2 DEF Page
    <3> QED BY <2>2, <3>1, Numbers DEF IsUsed
  <2>4. pages' = [pages EXCEPT ![p] = NoPage]
    BY <2>1, <2>2, <2>3, PagesUpdated
  <2>5. pages[p] # NoPage /\ pins[p] = 0
    BY <2>1, <2>2, PagesOfUsed
  <2> QED BY <2>1, <2>4, <2>5 DEF pages, Set!Dispose
<1> QED BY <1>1, <1>2

(* What a file closes with is what a program then finds in it.             *)
LEMMA CloseSet ==
    ASSUME IInv, CloseFile PROVE Set!Close \/ UNCHANGED Set!vars
<1>1. CASE Pinned # {}
  BY <1>1 DEF CloseFile, FlushOutcome, Contents, Set!vars
<1>2. CASE Pinned = {}
  <2> DEFINE W == {p \in PageNums : mem[p] # durable[p] /\ pins[p] = 0}
  <2>1. /\ bFileOpen /\ bFileOpen' = FALSE /\ durable' = WrittenOut(W) /\ diskHdr' = hdr
        /\ UNCHANGED <<exists, pins>>
    BY <1>2, HeaderWritten DEF CloseFile, FlushOutcome
  <2>2. \A p \in PageNums : pins[p] = 0
    BY <1>2 DEF Pinned, IInv, PagedFileInv, TypeOK
  <2>3. durable' = mem
    <3>1. \A p \in PageNums : mem[p] # durable[p] <=> p \in W
      BY <2>2
    <3>2. \A p \in W : p \in PageNums
      OBVIOUS
    <3> HIDE DEF W
    <3> QED BY <2>1, <3>1, <3>2, FileWritten
  <2>4. exists
    BY <2>1 DEF IInv, Settled
  <2>5. UNCHANGED pages
    BY <2>1, <2>3, <2>4 DEF pages
  <2>6. Set!PageNums = PageNums
    BY DEF Set!PageNums, PageNums
  <2> QED BY <2>1, <2>2, <2>5, <2>6 DEF pages, Set!Close
<1> QED BY <1>1, <1>2

LEMMA ManagerSet ==
    ASSUME IInv, CreateFile \/ DestroyFile \/ OpenFile
    PROVE  Set!Create \/ Set!Destroy \/ Set!Open \/ UNCHANGED Set!vars
<1>1. CASE \E code \in ReturnCodes : Returns(code)
  BY <1>1, ReturnsSet
<1>2. CASE ~\E code \in ReturnCodes : Returns(code)
  <2>0. NoPages = [p \in Set!PageNums |-> NoPage] /\ (bFileOpen => exists)
    BY DEF NoPages, Set!PageNums, PageNums, IInv, Settled
  <2>1. CASE CreateFile
    <3>1. /\ ~exists /\ ~bFileOpen /\ exists' = TRUE /\ durable' = NoPages
          /\ UNCHANGED <<bFileOpen, pins>>
      BY <1>2, <2>0, <2>1 DEF CreateFile, ReturnCodes
    <3>2. pages' = NoPages
      BY <3>1 DEF pages, Contents, NoPages
    <3> QED BY <2>0, <3>1, <3>2 DEF pages, Set!Create
  <2>2. CASE DestroyFile
    <3>1. exists /\ ~bFileOpen /\ exists' = FALSE /\ UNCHANGED <<bFileOpen, pins>>
      BY <1>2, <2>2 DEF DestroyFile, ReturnCodes
    <3>2. pages' = NoPages
      BY <3>1 DEF pages
    <3> QED BY <2>0, <3>1, <3>2 DEF pages, Set!Destroy
  <2>3. CASE OpenFile
    <3>1. /\ exists /\ ~bFileOpen /\ bFileOpen' = TRUE
          /\ hdr' = diskHdr /\ mem' = durable /\ UNCHANGED <<exists, pins>>
      BY <1>2, <2>3 DEF OpenFile, ReturnCodes, disk
    <3>2. UNCHANGED pages
      BY <3>1 DEF pages
    <3> QED BY <3>1, <3>2 DEF pages, Set!Open
  <2> QED BY <2>1, <2>2, <2>3
<1> QED BY <1>1, <1>2

(* Writing pages out, all of them or any, changes nothing a client sees.   *)
LEMMA WritingSet ==
    ASSUME IInv, FlushPages \/ FlushFails
                 \/ \E P \in SUBSET PageNums : ForcePages(P)
                 \/ \E p \in PageNums : WriteBack(p)
    PROVE  UNCHANGED Set!vars
<1>1. CASE \E code \in ReturnCodes : Returns(code)
  BY <1>1, ReturnsSet
<1>2. CASE ~\E code \in ReturnCodes : Returns(code)
  <2>1. bFileOpen /\ UNCHANGED <<exists, bFileOpen, hdr, mem, pins>>
    BY <1>2 DEF FlushPages, FlushOutcome, FlushFails, ForcePages, WriteBack, ReturnCodes
  <2> QED BY <2>1, PagesKept
<1> QED BY <1>1, <1>2

LEMMA StepSet == IInv /\ IInv' /\ [Next]_vars => [Set!Next]_Set!vars
<1> SUFFICES ASSUME IInv, IInv', [Next]_vars PROVE Set!Next \/ UNCHANGED Set!vars
  OBVIOUS
<1>0. Set!PageNums = PageNums
  BY DEF Set!PageNums, PageNums
<1>1. CASE UNCHANGED vars
  BY <1>1 DEF vars, disk, Contents, Set!vars
<1>2. CASE CreateFile \/ DestroyFile \/ OpenFile \/ CloseFile
  BY <1>2, ManagerSet, CloseSet DEF Set!Next
<1>3. CASE FlushPages \/ FlushFails \/ ForcePages(PageNums)
  BY <1>3, WritingSet
<1>4. CASE AllocatePage
  BY <1>0, <1>4, AllocateSet DEF Set!Next
<1>5. ASSUME NEW p \in PageNums,
             \/ GetThisPage(p) \/ GetNextPage(p - 1) \/ GetPrevPage(p + 1)
             \/ DisposePage(p) \/ UnpinPage(p)
      PROVE  Set!Next \/ UNCHANGED Set!vars
  BY <1>0, <1>5, GetPageSet, DisposeSet, UnpinSet DEF Set!Next
<1>6. ASSUME NEW p \in PageNums, WriteBack(p) \/ ForcePages({p})
      PROVE  UNCHANGED Set!vars
  <2>1. {p} \in SUBSET PageNums
    OBVIOUS
  <2> QED BY <1>6, <2>1, WritingSet
<1>7. ASSUME NEW p \in PageNums, NEW v \in Vals, WriteData(p, v)
      PROVE  Set!Next
  <2>1. Set!Write(p, v)
    BY <1>7, WriteDataSet
  <2> QED BY <1>0, <2>1 DEF Set!Next
<1> QED BY <1>1, <1>2, <1>3, <1>4, <1>5, <1>6, <1>7 DEF Next

(* A paged file is a set of pages: its contents survive closing, opening,  *)
(* flushing, forcing, write-backs and writes that fail, and a page handed  *)
(* out is one nobody uses.                                                 *)
THEOREM ImplementsPageSet == Spec => PageSetSpec
<1>1. Init => Set!Init
  <2>1. Set!PageNums = PageNums
    BY DEF Set!PageNums, PageNums
  <2> QED BY <2>1 DEF Init, NoPages, Set!Init
<1>2. IInv /\ IInv' /\ [Next]_vars => [Set!Next]_Set!vars
  BY StepSet
<1> QED BY <1>1, <1>2, IInvHolds, PTL DEF Spec, PageSetSpec, Set!Spec
=============================================================================
