-------------------------- MODULE RecordFile_proofs --------------------------
(***************************************************************************)
(* Theorems about a record file and a scan over it, for any number of      *)
(* pages and of records to a page.  IInv is the inductive invariant.  The  *)
(* chains need that the live pages are the first ones, that every record   *)
(* lies below allocatedRecords and that an open handle whose header is not *)
(* dirty has the header of the file; the scan needs that its position lies *)
(* within the file, and what it returned behind it.                        *)
(***************************************************************************)
EXTENDS RecordFile, Lists_proofs

Settled ==
    /\ \E n \in 0 .. MaxPages : LivePages = 1 .. n /\ (n = 0 <=> file # "whole")
    /\ \A p \in LivePages : \A s \in pages[p].bitmap :
          s < pages[p].allocatedRecords /\ pages[p].cell[s] \in Vals
    /\ IsOpen => file = "whole"
    /\ IsOpen /\ ~handle.isHeaderDirty => handle.firstFreePage = diskHeader

Behind(r) == r[1] < scan.page \/ (r[1] = scan.page /\ r[2] < scan.slot)

Positioned ==
    /\ scan.page \in LivePages /\ scan.slot <= pages[scan.page].allocatedRecords
    /\ due \subseteq returned \cup Ahead
    /\ \A r \in returned : Behind(r)

Cursor ==
    /\ scan.opened => IsOpen
    /\ scan.ready => scan.opened /\ Positioned

IInv == RecordFileInv /\ Settled /\ Cursor
USE RecordFileAssumption

(* Numbers and end marks.                                                  *)
LEMMA Numbers ==
    /\ PageNums \subseteq Nat /\ IsFiniteSet(PageNums) /\ kLastFreePage \notin PageNums
    /\ Slots \subseteq Nat /\ IsFiniteSet(Slots) /\ kLastFreeRecord \notin Slots
    /\ Vals \cap SlotLinks = {} /\ NoRid \notin Rids
<1>1. IsFiniteSet(PageNums)
  <2>1. 1 \in Int /\ MaxPages \in Int
    OBVIOUS
  <2> QED BY <2>1, FS_Interval DEF PageNums
<1>2. IsFiniteSet(Slots)
  <2>1. 0 \in Int /\ RecordsPerPage - 1 \in Int
    OBVIOUS
  <2> QED BY <2>1, FS_Interval DEF Slots
<1>3. SlotLinks \subseteq Int
  BY DEF SlotLinks, Slots, kLastFreeRecord
<1>4. NoRid \notin Rids
  <2>1. \A r \in Rids : r[1] \in PageNums
    BY DEF Rids
  <2>2. NoRid[1] = -1
    BY DEF NoRid
  <2>3. -1 \notin PageNums
    BY DEF PageNums
  <2> QED BY <2>1, <2>2, <2>3
<1>5. Vals \cap SlotLinks = {}
  BY <1>3
<1>6. /\ PageNums \subseteq Nat /\ kLastFreePage \notin PageNums
      /\ Slots \subseteq Nat /\ kLastFreeRecord \notin Slots
  BY DEF PageNums, Slots, kLastFreePage, kLastFreeRecord
<1> QED BY <1>1, <1>2, <1>4, <1>5, <1>6

----------------------------------------------------------------------------
(* A page by itself: what is deleted in it is chained, its records are     *)
(* records.                                                                *)
Gone(q) == {s \in Slots : s < q.allocatedRecords /\ s \notin q.bitmap}

PageOK(q) ==
    /\ q \in Page
    /\ \A s \in q.bitmap : s < q.allocatedRecords /\ q.cell[s] \in Vals
    /\ Chained(q.firstFreeRecord, q.cell, kLastFreeRecord, Gone(q))

LEMMA GoneSlots == ASSUME NEW q PROVE Gone(q) \subseteq Slots /\ IsFiniteSet(Gone(q))
<1>1. Gone(q) \subseteq Slots
  BY DEF Gone
<1> QED BY <1>1, Numbers, FS_Subset

LEMMA PageFields ==
    ASSUME NEW q \in Page
    PROVE  /\ q.firstFreeRecord \in SlotLinks /\ q.allocatedRecords \in 0 .. RecordsPerPage
           /\ q.nextFreePage \in PageLinks /\ q.bitmap \subseteq Slots
           /\ q.cell \in [Slots -> Vals \cup SlotLinks] /\ q # NoPage
BY DEF Page

(* The first free record of a page is a deleted one, if it has one.        *)
LEMMA FirstFree ==
    ASSUME NEW q, PageOK(q)
    PROVE  /\ WasFull(q) <=> Gone(q) = {}
           /\ ~WasFull(q) => q.firstFreeRecord \in Gone(q)
<1>1. IsFiniteSet(Gone(q)) /\ kLastFreeRecord \notin Gone(q)
  BY GoneSlots, Numbers
<1>2. Chained(q.firstFreeRecord, q.cell, kLastFreeRecord, Gone(q))
  BY DEF PageOK
<1> QED BY <1>1, <1>2, ChainEmpty DEF WasFull

LEMMA EmptyPageOK == PageOK(EmptyPage) /\ Gone(EmptyPage) = {} /\ ~IsFull(EmptyPage)
<1>1. EmptyPage \in Page
  BY DEF EmptyPage, Page, SlotLinks, PageLinks, Slots
<1>2. Gone(EmptyPage) = {}
  BY DEF EmptyPage, Gone, Slots
<1>3. Chained(EmptyPage.firstFreeRecord, EmptyPage.cell, kLastFreeRecord, Gone(EmptyPage))
  <2>1. IsFiniteSet({}) /\ kLastFreeRecord \notin {} /\ EmptyPage.firstFreeRecord = kLastFreeRecord
    BY FS_EmptySet DEF EmptyPage
  <2> QED BY <1>2, <2>1, ChainEmpty
<1> QED BY <1>1, <1>2, <1>3 DEF PageOK, EmptyPage, IsFull

(* A record behind the last one.                                           *)
LEMMA AppendedPage ==
    ASSUME NEW q, PageOK(q), ~IsFull(q), NEW v \in Vals
    PROVE  LET s == q.allocatedRecords
               new == Appended(q, v)
           IN  /\ PageOK(new) /\ Gone(new) = Gone(q)
               /\ s \in Slots /\ s \notin q.bitmap /\ new.bitmap = q.bitmap \cup {s}
               /\ new.cell = [q.cell EXCEPT ![s] = v] /\ new.cell[s] = v
               /\ new.nextFreePage = q.nextFreePage
               /\ new.allocatedRecords = s + 1 /\ s \in Nat
<1> DEFINE s == q.allocatedRecords
           new == Appended(q, v)
<1>1. q \in Page /\ s \in Nat /\ s < RecordsPerPage /\ s \in Slots /\ s \notin q.bitmap
  BY PageFields DEF PageOK, IsFull, Slots
<1>2. /\ new.bitmap = q.bitmap \cup {s} /\ new.cell = [q.cell EXCEPT ![s] = v]
      /\ new.allocatedRecords = s + 1 /\ new.nextFreePage = q.nextFreePage
      /\ new.firstFreeRecord = q.firstFreeRecord
      /\ new \in Page
  <2>1. q.bitmap \cup {s} \subseteq Slots /\ s + 1 \in 0 .. RecordsPerPage
    BY <1>1, PageFields
  <2>2. [q.cell EXCEPT ![s] = v] \in [Slots -> Vals \cup SlotLinks]
    BY <1>1, PageFields
  <2> QED BY <1>1, <2>1, <2>2 DEF Appended, Page
<1>3. /\ new.cell[s] = v
      /\ \A t \in Slots : t # s => new.cell[t] = q.cell[t]
  BY <1>1, <1>2, PageFields
<1>4. Gone(new) = Gone(q)
  <2>1. \A t \in Slots : t < s + 1 <=> t < s \/ t = s
    BY <1>1, Numbers
  <2>2. new.bitmap = q.bitmap \cup {s} /\ new.allocatedRecords = s + 1
    BY <1>2
  <2> HIDE DEF new
  <2> QED BY <1>1, <2>2, <2>1 DEF Gone
<1>5. Chained(new.firstFreeRecord, new.cell, kLastFreeRecord, Gone(new))
  <2> HIDE DEF new
  <2>1. \A t \in Gone(q) : new.cell[t] = q.cell[t]
    BY <1>1, <1>3 DEF Gone
  <2> QED BY <1>2, <1>4, <2>1, GoneSlots, ChainSame DEF PageOK
<1>6. \A t \in new.bitmap : t < new.allocatedRecords /\ new.cell[t] \in Vals
  <2> HIDE DEF new
  <2>1. \A t \in q.bitmap : t \in Slots /\ t \in Nat /\ t # s
    BY <1>1, PageFields, Numbers
  <2> QED BY <1>1, <1>2, <1>3, <2>1 DEF PageOK
<1>7. PageOK(new)
  BY <1>2, <1>5, <1>6 DEF PageOK
<1> HIDE DEF new
<1>8. /\ PageOK(new) /\ Gone(new) = Gone(q)
      /\ s \in Slots /\ s \notin q.bitmap /\ new.bitmap = q.bitmap \cup {s}
      /\ new.cell = [q.cell EXCEPT ![s] = v] /\ new.cell[s] = v
      /\ new.nextFreePage = q.nextFreePage
      /\ new.allocatedRecords = s + 1 /\ s \in Nat
  BY <1>1, <1>2, <1>3, <1>4, <1>7
<1> QED BY <1>8 DEF new

(* A deleted record becomes the first free one.                            *)
LEMMA FreedPage ==
    ASSUME NEW q, PageOK(q), NEW s \in q.bitmap, handle.firstFreePage \in PageLinks
    PROVE  LET new == Freed(q, s)
           IN  /\ PageOK(new) /\ Gone(new) = Gone(q) \cup {s}
               /\ s \in Slots /\ new.bitmap = q.bitmap \ {s}
               /\ \A t \in Slots : t # s => new.cell[t] = q.cell[t]
               /\ new.nextFreePage = IF WasFull(q) THEN handle.firstFreePage
                                     ELSE q.nextFreePage
               /\ new.allocatedRecords = q.allocatedRecords
<1> DEFINE new == Freed(q, s)
<1>1. /\ q \in Page /\ s \in Slots /\ s < q.allocatedRecords
      /\ q.firstFreeRecord \in SlotLinks /\ q.nextFreePage \in PageLinks
  BY PageFields DEF PageOK
<1>2. /\ new.bitmap = q.bitmap \ {s} /\ new.cell = [q.cell EXCEPT ![s] = q.firstFreeRecord]
      /\ new.allocatedRecords = q.allocatedRecords /\ new.firstFreeRecord = s
      /\ new.nextFreePage = IF WasFull(q) THEN handle.firstFreePage ELSE q.nextFreePage
      /\ new \in Page
  BY <1>1, PageFields DEF Freed, Page, SlotLinks
<1>3. /\ new.cell[s] = q.firstFreeRecord
      /\ \A t \in Slots : t # s => new.cell[t] = q.cell[t]
  BY <1>1, <1>2, PageFields
<1>4. Gone(new) = Gone(q) \cup {s} /\ s \notin Gone(q)
  <2> HIDE DEF new
  <2> QED BY <1>1, <1>2 DEF Gone
<1>5. Chained(new.firstFreeRecord, new.cell, kLastFreeRecord, Gone(new))
  <2> HIDE DEF new
  <2>1. \A t \in Gone(q) : new.cell[t] = q.cell[t]
    BY <1>3, <1>4 DEF Gone
  <2>2. Chained(s, new.cell, kLastFreeRecord, Gone(q) \cup {s})
    BY <1>3, <1>4, <2>1, GoneSlots, ChainPush DEF PageOK
  <2> QED BY <1>2, <1>4, <2>2
<1>6. \A t \in new.bitmap : t < new.allocatedRecords /\ new.cell[t] \in Vals
  <2> HIDE DEF new
  <2>1. \A t \in q.bitmap : t \in Slots
    BY PageFields, <1>1
  <2> QED BY <1>2, <1>3, <2>1 DEF PageOK
<1>7. PageOK(new)
  BY <1>2, <1>5, <1>6 DEF PageOK
<1> HIDE DEF new
<1>8. /\ PageOK(new) /\ Gone(new) = Gone(q) \cup {s}
      /\ s \in Slots /\ new.bitmap = q.bitmap \ {s}
      /\ \A t \in Slots : t # s => new.cell[t] = q.cell[t]
      /\ new.nextFreePage = IF WasFull(q) THEN handle.firstFreePage ELSE q.nextFreePage
      /\ new.allocatedRecords = q.allocatedRecords
  BY <1>1, <1>2, <1>3, <1>4, <1>7
<1> QED BY <1>8 DEF new

(* A record takes the place of the first deleted one.                      *)
Reused(q, v) ==
    [q EXCEPT !.firstFreeRecord = q.cell[q.firstFreeRecord],
              !.bitmap = @ \cup {q.firstFreeRecord}, !.cell[q.firstFreeRecord] = v]

LEMMA ReusedPage ==
    ASSUME NEW q, PageOK(q), Gone(q) # {}, NEW v \in Vals
    PROVE  LET s == q.firstFreeRecord
               new == Reused(q, v)
           IN  /\ PageOK(new) /\ Gone(new) = Gone(q) \ {s} /\ s \in Gone(q)
               /\ q.cell[s] = kLastFreeRecord <=> Gone(new) = {}
               /\ new.bitmap = q.bitmap \cup {s}
               /\ new.cell = [q.cell EXCEPT ![s] = v] /\ new.cell[s] = v
               /\ new.nextFreePage = q.nextFreePage
               /\ new.allocatedRecords = q.allocatedRecords
<1> DEFINE s == q.firstFreeRecord
           new == Reused(q, v)
<1>1. q \in Page /\ s \in Gone(q) /\ s \in Slots /\ s \notin q.bitmap
  BY FirstFree DEF PageOK, Gone
<1>2. Chained(s, q.cell, kLastFreeRecord, Gone(q))
  BY DEF PageOK
<1>3. Chained(q.cell[s], [q.cell EXCEPT ![s] = v], kLastFreeRecord, Gone(q) \ {s})
  <2> DEFINE cell == [q.cell EXCEPT ![s] = v]
  <2>1. \A t \in Gone(q) \ {s} : cell[t] = q.cell[t]
    BY <1>1, PageFields, GoneSlots
  <2> HIDE DEF s, cell
  <2>2. Chained(q.cell[s], cell, kLastFreeRecord, Gone(q) \ {s})
    BY <1>1, <1>2, <2>1, GoneSlots, ChainPop
  <2> QED BY <2>2 DEF cell
<1>4. /\ q.cell[s] \in SlotLinks
      /\ q.cell[s] = kLastFreeRecord <=> Gone(q) \ {s} = {}
  <2>1. IsFiniteSet(Gone(q) \ {s}) /\ kLastFreeRecord \notin Gone(q) \ {s}
    BY GoneSlots, Numbers, FS_Subset
  <2>2. /\ q.cell[s] = kLastFreeRecord <=> Gone(q) \ {s} = {}
        /\ Gone(q) \ {s} # {} => q.cell[s] \in Gone(q) \ {s}
    <3> HIDE DEF s
    <3> QED BY <1>3, <2>1, ChainEmpty
  <2> QED BY <2>2, GoneSlots DEF SlotLinks
<1>5. /\ new.bitmap = q.bitmap \cup {s} /\ new.cell = [q.cell EXCEPT ![s] = v]
      /\ new.allocatedRecords = q.allocatedRecords /\ new.firstFreeRecord = q.cell[s]
      /\ new.nextFreePage = q.nextFreePage
      /\ new \in Page
  BY <1>1, <1>4 DEF Reused, Page
<1>6. /\ new.cell[s] = v
      /\ \A t \in Slots : t # s => new.cell[t] = q.cell[t]
  BY <1>1, <1>5, PageFields
<1>7. Gone(new) = Gone(q) \ {s}
  <2> HIDE DEF new
  <2> QED BY <1>1, <1>5 DEF Gone
<1>8. \A t \in new.bitmap : t < new.allocatedRecords /\ new.cell[t] \in Vals
  <2> HIDE DEF new
  <2>1. \A t \in q.bitmap : t \in Slots
    BY PageFields, <1>1
  <2>2. s < q.allocatedRecords
    BY <1>1 DEF Gone
  <2> QED BY <1>1, <1>5, <1>6, <2>1, <2>2 DEF PageOK
<1>9. PageOK(new)
  <2> HIDE DEF new
  <2> QED BY <1>3, <1>5, <1>7, <1>8 DEF PageOK
<1> HIDE DEF new
<1>10. /\ PageOK(new) /\ Gone(new) = Gone(q) \ {s} /\ s \in Gone(q)
       /\ q.cell[s] = kLastFreeRecord <=> Gone(new) = {}
       /\ new.bitmap = q.bitmap \cup {s}
       /\ new.cell = [q.cell EXCEPT ![s] = v] /\ new.cell[s] = v
       /\ new.nextFreePage = q.nextFreePage
       /\ new.allocatedRecords = q.allocatedRecords
  BY <1>1, <1>4, <1>5, <1>6, <1>7, <1>9
<1> QED BY <1>10 DEF new

(* A record is overwritten.                                                *)
LEMMA WrittenPage ==
    ASSUME NEW q, PageOK(q), NEW s \in q.bitmap, NEW v \in Vals
    PROVE  LET new == [q EXCEPT !.cell[s] = v]
           IN  /\ PageOK(new) /\ Gone(new) = Gone(q) /\ s \in Slots
               /\ new.bitmap = q.bitmap
               /\ new.cell = [q.cell EXCEPT ![s] = v] /\ new.cell[s] = v
               /\ new.nextFreePage = q.nextFreePage
               /\ new.allocatedRecords = q.allocatedRecords
<1> DEFINE new == [q EXCEPT !.cell[s] = v]
<1>1. q \in Page /\ s \in Slots
  BY PageFields DEF PageOK
<1>2. /\ new.bitmap = q.bitmap /\ new.cell = [q.cell EXCEPT ![s] = v]
      /\ new.allocatedRecords = q.allocatedRecords /\ new.nextFreePage = q.nextFreePage
      /\ new.firstFreeRecord = q.firstFreeRecord /\ new \in Page
  BY <1>1 DEF Page
<1>3. /\ new.cell[s] = v
      /\ \A t \in Slots : t # s => new.cell[t] = q.cell[t]
  BY <1>1, <1>2, PageFields
<1>4. Gone(new) = Gone(q) /\ s \notin Gone(q)
  <2> HIDE DEF new
  <2> QED BY <1>2 DEF Gone
<1>5. Chained(new.firstFreeRecord, new.cell, kLastFreeRecord, Gone(new))
  <2> HIDE DEF new
  <2>1. \A t \in Gone(q) : new.cell[t] = q.cell[t]
    BY <1>3, <1>4 DEF Gone
  <2> QED BY <1>2, <1>4, <2>1, GoneSlots, ChainSame DEF PageOK
<1>6. \A t \in new.bitmap : t < new.allocatedRecords /\ new.cell[t] \in Vals
  <2> HIDE DEF new
  <2>1. \A t \in q.bitmap : t \in Slots
    BY PageFields, <1>1
  <2> QED BY <1>2, <1>3, <2>1 DEF PageOK
<1>7. PageOK(new)
  BY <1>2, <1>5, <1>6 DEF PageOK
<1> HIDE DEF new
<1>8. /\ PageOK(new) /\ Gone(new) = Gone(q) /\ s \in Slots
      /\ new.bitmap = q.bitmap
      /\ new.cell = [q.cell EXCEPT ![s] = v] /\ new.cell[s] = v
      /\ new.nextFreePage = q.nextFreePage
      /\ new.allocatedRecords = q.allocatedRecords
  BY <1>1, <1>2, <1>3, <1>4, <1>7
<1> QED BY <1>8 DEF new
----------------------------------------------------------------------------
(* The chain of the pages with deleted records, of any pages.              *)
Holey(m) == {p \in PageNums : m[p] # NoPage /\ Gone(m[p]) # {}}
NextPages(m) == [p \in {q \in PageNums : m[q] # NoPage} |-> m[p].nextFreePage]
PagesChained(head, m) == Chained(head, NextPages(m), kLastFreePage, Holey(m))

LEMMA HoleyPages ==
    ASSUME NEW m
    PROVE  /\ Holey(m) \subseteq PageNums /\ IsFiniteSet(Holey(m))
           /\ kLastFreePage \notin Holey(m)
           /\ \A p \in Holey(m) : NextPages(m)[p] = m[p].nextFreePage
<1>1. Holey(m) \subseteq PageNums
  BY DEF Holey
<1> QED BY <1>1, Numbers, FS_Subset DEF Holey, NextPages

LEMMA ChainOfPages ==
    /\ FreePagesChained <=>
          (file = "whole" => PagesChained(IF IsOpen THEN handle.firstFreePage ELSE diskHeader,
                                          pages))
    /\ FreePagesChained' <=>
          (file' = "whole" => PagesChained(IF IsOpen' THEN handle'.firstFreePage
                                           ELSE diskHeader', pages'))
<1>1. \A p \in LivePages : Deleted(p) = Gone(pages[p])
  BY DEF LivePages, Deleted, Gone, Live
<1>2. {p \in LivePages : Deleted(p) # {}} = Holey(pages)
  BY <1>1 DEF LivePages, Holey
<1>3. [p \in LivePages |-> pages[p].nextFreePage] = NextPages(pages)
  BY DEF LivePages, NextPages
<1>4. \A p \in LivePages' : Deleted(p)' = Gone(pages'[p])
  BY DEF LivePages, Deleted, Gone, Live
<1>5. {p \in LivePages : Deleted(p) # {}}' = Holey(pages')
  BY <1>4 DEF LivePages, Holey
<1>6. [p \in LivePages |-> pages[p].nextFreePage]' = NextPages(pages')
  BY DEF LivePages, NextPages
<1> QED BY <1>2, <1>3, <1>5, <1>6 DEF FreePagesChained, PagesChained

(* One page changes: the chain is what it was when the page has deleted    *)
(* records as before ...                                                   *)
LEMMA ChainKept ==
    ASSUME NEW m \in [PageNums -> Page \cup {NoPage}], NEW p \in PageNums, NEW q \in Page,
           NEW head, PagesChained(head, m),
           m[p] # NoPage => q.nextFreePage = m[p].nextFreePage,
           Gone(q) # {} <=> m[p] # NoPage /\ Gone(m[p]) # {}
    PROVE  PagesChained(head, [m EXCEPT ![p] = q])
<1> DEFINE o == [m EXCEPT ![p] = q]
<1>1. o[p] = q /\ q # NoPage /\ \A r \in PageNums : r # p => o[r] = m[r]
  OBVIOUS
<1> HIDE DEF o
<1>2. Holey(o) = Holey(m)
  BY <1>1 DEF Holey
<1>3. \A r \in Holey(m) : NextPages(o)[r] = NextPages(m)[r]
  <2>1. \A r \in Holey(m) : o[r].nextFreePage = m[r].nextFreePage
    BY <1>1 DEF Holey
  <2>2. \A r \in Holey(m) : NextPages(o)[r] = o[r].nextFreePage
    BY <1>2, HoleyPages
  <2> QED BY <2>1, <2>2, HoleyPages
<1>4. Chained(head, NextPages(o), kLastFreePage, Holey(m))
  BY <1>3, HoleyPages, ChainSame DEF PagesChained
<1> QED BY <1>2, <1>4 DEF PagesChained, o

(* ... gets a page in front when it had none and has now ...               *)
LEMMA ChainLonger ==
    ASSUME NEW m \in [PageNums -> Page \cup {NoPage}], NEW p \in PageNums, NEW q \in Page,
           NEW head, PagesChained(head, m), m[p] # NoPage,
           q.nextFreePage = head, Gone(m[p]) = {}, Gone(q) # {}
    PROVE  PagesChained(p, [m EXCEPT ![p] = q])
<1> DEFINE o == [m EXCEPT ![p] = q]
<1>1. o[p] = q /\ q # NoPage /\ \A r \in PageNums : r # p => o[r] = m[r]
  OBVIOUS
<1> HIDE DEF o
<1>2. Holey(o) = Holey(m) \cup {p} /\ p \notin Holey(m)
  BY <1>1 DEF Holey
<1>3. \A r \in Holey(m) : NextPages(o)[r] = NextPages(m)[r]
  <2>1. \A r \in Holey(m) : o[r].nextFreePage = m[r].nextFreePage
    BY <1>1, <1>2 DEF Holey
  <2>2. \A r \in Holey(m) : NextPages(o)[r] = o[r].nextFreePage
    BY <1>2, HoleyPages
  <2> QED BY <2>1, <2>2, HoleyPages
<1>4. NextPages(o)[p] = head
  BY <1>1, <1>2, HoleyPages
<1>5. Chained(p, NextPages(o), kLastFreePage, Holey(m) \cup {p})
  BY <1>2, <1>3, <1>4, HoleyPages, ChainPush DEF PagesChained
<1> QED BY <1>2, <1>5 DEF PagesChained, o

(* ... and loses the first when that has none left.                        *)
LEMMA ChainShorter ==
    ASSUME NEW m \in [PageNums -> Page \cup {NoPage}], NEW p \in PageNums, NEW q \in Page,
           PagesChained(p, m), Gone(q) = {}
    PROVE  PagesChained(m[p].nextFreePage, [m EXCEPT ![p] = q])
<1> DEFINE o == [m EXCEPT ![p] = q]
<1>1. o[p] = q /\ q # NoPage /\ \A r \in PageNums : r # p => o[r] = m[r]
  OBVIOUS
<1> HIDE DEF o
<1>0. p \in Holey(m)
  <2>1. p # kLastFreePage
    BY Numbers
  <2> QED BY <2>1, HoleyPages, ChainEmpty DEF PagesChained
<1>2. Holey(o) = Holey(m) \ {p}
  BY <1>1 DEF Holey
<1>3. \A r \in Holey(m) \ {p} : NextPages(o)[r] = NextPages(m)[r]
  <2>1. \A r \in Holey(m) \ {p} : o[r].nextFreePage = m[r].nextFreePage
    BY <1>1 DEF Holey
  <2>2. \A r \in Holey(m) \ {p} : NextPages(o)[r] = o[r].nextFreePage
    BY <1>2, HoleyPages
  <2> QED BY <2>1, <2>2, HoleyPages
<1>4. Chained(NextPages(m)[p], NextPages(o), kLastFreePage, Holey(m) \ {p})
  BY <1>0, <1>3, HoleyPages, ChainPop DEF PagesChained
<1> QED BY <1>0, <1>2, <1>4, HoleyPages DEF PagesChained, o

LEMMA LivePageOK ==
    ASSUME IInv, NEW p \in LivePages
    PROVE  p \in PageNums /\ PageOK(pages[p]) /\ Deleted(p) = Gone(pages[p])
<1>1. p \in PageNums /\ Deleted(p) = Gone(pages[p])
  BY DEF LivePages, Deleted, Gone, Live
<1>2. pages[p] \in Page
  BY <1>1 DEF IInv, RecordFileInv, TypeOK, LivePages
<1> QED BY <1>1, <1>2 DEF IInv, RecordFileInv, FreeSlotsChained, Settled, PageOK

(* The head of the chain is the end mark or a page with deleted records.   *)
LEMMA FirstFreePage ==
    ASSUME IInv, IsOpen
    PROVE  /\ PagesChained(handle.firstFreePage, pages)
           /\ handle.firstFreePage \in PageLinks
           /\ handle.firstFreePage # kLastFreePage
                => /\ handle.firstFreePage \in LivePages
                   /\ Gone(pages[handle.firstFreePage]) # {}
<1>1. PagesChained(handle.firstFreePage, pages)
  <2>1. file = "whole"
    BY DEF IInv, Settled
  <2> QED BY <2>1, ChainOfPages DEF IInv, RecordFileInv
<1>2. handle.firstFreePage = kLastFreePage \/ handle.firstFreePage \in Holey(pages)
  BY <1>1, HoleyPages, ChainEmpty DEF PagesChained
<1> QED BY <1>1, <1>2 DEF Holey, LivePages, IInv, RecordFileInv, TypeOK

(* The pages of the file are the first ones.                               *)
LEMMA LastOfPages ==
    ASSUME IInv, file = "whole"
    PROVE  /\ LastPage \in LivePages /\ LivePages = 1 .. LastPage /\ LastPage \in PageNums
           /\ 1 \in LivePages
<1>1. PICK n \in 0 .. MaxPages : LivePages = 1 .. n /\ n # 0
  BY DEF IInv, Settled
<1>2. n \in LivePages /\ \A q \in LivePages : q <= n
  BY <1>1
<1>3. LastPage \in LivePages /\ \A q \in LivePages : q <= LastPage
  BY <1>2 DEF LastPage
<1>4. LastPage = n
  BY <1>1, <1>2, <1>3
<1> QED BY <1>1, <1>4 DEF PageNums
----------------------------------------------------------------------------
(* The invariant at the start, and through steps that leave the pages      *)
(* alone.                                                                  *)
LEMMA InitIInv == Init => IInv
<1> SUFFICES ASSUME Init PROVE IInv
  OBVIOUS
<1>1. LivePages = {} /\ ~IsOpen /\ file # "whole"
  BY DEF Init, LivePages, IsOpen, NewHandle
<1>2. TypeOK
  BY DEF Init, TypeOK, NewHandle, PageLinks, PageNums, ReturnCodes
<1>3. Settled
  <2>1. 0 \in 0 .. MaxPages /\ LivePages = 1 .. 0
    BY <1>1
  <2> QED BY <1>1, <2>1 DEF Settled
<1>4. Cursor
  BY DEF Init, Cursor
<1> QED BY <1>1, <1>2, <1>3, <1>4
        DEF IInv, RecordFileInv, FreeSlotsChained, FreePagesChained

(* What Ahead, LivePages and the chains say depends on pages and scan.     *)
LEMMA ReturnsIInv == ASSUME IInv, NEW code \in ReturnCodes, Returns(code) PROVE IInv'
<1>1. /\ rc' = code /\ rid' = NoRid
      /\ UNCHANGED <<file, diskHeader, pages, handle, pinned, scan, due, returned>>
  BY DEF Returns, Answer, fileVars, scanVars
<1>2. TypeOK'
  BY <1>1 DEF IInv, RecordFileInv, TypeOK
<1>3. FreeSlotsChained' /\ FreePagesChained'
  BY <1>1 DEF IInv, RecordFileInv, FreeSlotsChained, FreePagesChained, LivePages, Deleted,
              Live, IsOpen
<1>4. Settled'
  BY <1>1 DEF IInv, Settled, LivePages, IsOpen
<1>5. Cursor'
  BY <1>1 DEF IInv, Cursor, Positioned, Ahead, Behind, LivePages, Matches, Live, IsOpen
<1> QED BY <1>2, <1>3, <1>4, <1>5 DEF IInv, RecordFileInv

LEMMA StutterIInv == ASSUME IInv, UNCHANGED vars PROVE IInv'
<1>1. UNCHANGED <<file, diskHeader, pages, handle, pinned, scan, due, returned, rc, rid>>
  BY DEF vars, fileVars, scanVars
<1>2. TypeOK'
  BY <1>1 DEF IInv, RecordFileInv, TypeOK
<1>3. FreeSlotsChained' /\ FreePagesChained'
  BY <1>1 DEF IInv, RecordFileInv, FreeSlotsChained, FreePagesChained, LivePages, Deleted,
              Live, IsOpen
<1>4. Settled'
  BY <1>1 DEF IInv, Settled, LivePages, IsOpen
<1>5. Cursor'
  BY <1>1 DEF IInv, Cursor, Positioned, Ahead, Behind, LivePages, Matches, Live, IsOpen
<1> QED BY <1>2, <1>3, <1>4, <1>5 DEF IInv, RecordFileInv

----------------------------------------------------------------------------
(* A page is stored: what the invariant asks of it, of the handle and of   *)
(* the records a scan still has to return.                                 *)
LEMMA PageStored ==
    ASSUME IInv, IsOpen, NEW p \in PageNums, NEW q, PageOK(q), Store(p, q),
           p \notin LivePages => p = LastPage + 1,
           p \in LivePages => pages[p].allocatedRecords <= q.allocatedRecords,
           \A s \in Slots : Live(p, s) /\ <<p, s>> \in due'
                                => s \in q.bitmap /\ q.cell[s] = pages[p].cell[s],
           handle' = handle \/ handle' = [handle EXCEPT !.firstFreePage = handle'.firstFreePage,
                                                        !.isHeaderDirty = TRUE],
           handle'.firstFreePage \in PageLinks,
           PagesChained(handle'.firstFreePage, pages'),
           UNCHANGED <<file, diskHeader, pinned, scan, returned>>,
           due' \subseteq due, rc' \in ReturnCodes, rid' \in Rids \cup {NoRid}
    PROVE  IInv'
<1>1. /\ pages' = [pages EXCEPT ![p] = q]
      /\ pages \in [PageNums -> Page \cup {NoPage}] /\ q \in Page /\ q # NoPage
      /\ file = "whole"
  BY DEF Store, IInv, RecordFileInv, TypeOK, Settled, PageOK
<1>2. pages'[p] = q /\ \A r \in PageNums : r # p => pages'[r] = pages[r]
  BY <1>1
<1>3. LivePages' = LivePages \cup {p}
  BY <1>1, <1>2 DEF LivePages
<1>4. handle' \in [state : {"new", "open", "closed"}, firstFreePage : PageLinks,
                   isHeaderDirty : BOOLEAN] /\ IsOpen'
  BY DEF IInv, RecordFileInv, TypeOK, IsOpen
<1>5. ASSUME NEW r \in LivePages' PROVE r \in PageNums /\ PageOK(pages'[r])
                                        /\ Deleted(r)' = Gone(pages'[r])
  <2>1. r \in PageNums
    BY <1>5 DEF LivePages
  <2>2. PageOK(pages'[r])
    BY <1>2, <1>3, <1>5, <2>1, LivePageOK
  <2>3. Deleted(r)' = Gone(pages'[r])
    BY <1>5 DEF Deleted, Gone, Live
  <2> QED BY <2>1, <2>2, <2>3
<1>6. TypeOK'
  <2>1. pages' \in [PageNums -> Page \cup {NoPage}]
    BY <1>1
  <2> QED BY <1>4, <2>1 DEF IInv, RecordFileInv, TypeOK
<1>7. FreeSlotsChained'
  BY <1>5 DEF FreeSlotsChained, PageOK
<1>8. FreePagesChained'
  BY <1>4, ChainOfPages
<1>9. Settled'
  <2>1. \E n \in 0 .. MaxPages : LivePages' = 1 .. n /\ (n = 0 <=> file' # "whole")
    <3>1. /\ LastPage \in LivePages /\ LivePages = 1 .. LastPage /\ LastPage \in PageNums
      BY <1>1, LastOfPages
    <3>2. CASE p \in LivePages
      BY <1>1, <1>3, <3>1, <3>2 DEF PageNums
    <3>3. CASE p \notin LivePages
      <4>1. p = LastPage + 1 /\ p \in 1 .. MaxPages /\ LastPage \in Nat
        BY <3>1, <3>3 DEF PageNums
      <4>2. LivePages' = 1 .. p
        <5> HIDE DEF LivePages
        <5> QED BY <1>3, <3>1, <4>1
      <4> QED BY <1>1, <4>1, <4>2
    <3> QED BY <3>2, <3>3
  <2>2. \A r \in LivePages' : \A s \in pages'[r].bitmap :
            s < pages'[r].allocatedRecords /\ pages'[r].cell[s] \in Vals
    BY <1>5 DEF PageOK
  <2>3. IsOpen' /\ ~handle'.isHeaderDirty => handle'.firstFreePage = diskHeader'
    BY DEF IInv, RecordFileInv, TypeOK, Settled, IsOpen
  <2> QED BY <1>1, <2>1, <2>2, <2>3 DEF Settled
<1>10. Cursor'
  <2>1. scan'.opened => IsOpen'
    BY <1>4
  <2>2. ASSUME scan.ready PROVE scan.opened /\ Positioned'
    <3>1. scan.opened /\ Positioned
      BY <2>2 DEF IInv, Cursor
    <3>2. scan.page \in LivePages /\ scan.page \in PageNums /\ scan.slot \in 0 .. RecordsPerPage
      BY <3>1 DEF Positioned, LivePages, IInv, RecordFileInv, TypeOK
    <3>3. scan.slot <= pages'[scan.page].allocatedRecords
      <4>1. CASE scan.page # p
        BY <4>1, <3>1, <3>2, <1>2 DEF Positioned
      <4>2. CASE scan.page = p
        <5>1. pages[p].allocatedRecords \in Nat /\ q.allocatedRecords \in Nat
          BY <1>1, <3>2, <4>2, PageFields, LivePageOK DEF PageOK
        <5> QED BY <4>2, <3>1, <3>2, <1>2, <5>1 DEF Positioned
      <4> QED BY <4>1, <4>2
    <3>4. ASSUME NEW r \in due', r \notin returned PROVE r \in Ahead'
      <4>1. r \in Ahead /\ r \in Rids
        BY <3>1, <3>4 DEF Positioned, Ahead
      <4>2. r[1] \in PageNums /\ r[2] \in Slots /\ r = <<r[1], r[2]>>
        BY <4>1 DEF Rids
      <4>3. Live(r[1], r[2]) /\ pages[r[1]].cell[r[2]] \in scan.wanted
        BY <4>1 DEF Ahead, Matches
      <4>4. Matches(r[1], r[2])'
        <5>1. CASE r[1] = p
          <6>1. r[2] \in q.bitmap /\ q.cell[r[2]] = pages[p].cell[r[2]]
            BY <3>4, <4>2, <4>3, <5>1
          <6> QED BY <1>2, <1>3, <4>2, <4>3, <5>1, <6>1 DEF Matches, Live
        <5>2. CASE r[1] # p
          BY <1>2, <1>3, <4>2, <4>3, <5>2 DEF Matches, Live
        <5> QED BY <5>1, <5>2
      <4> QED BY <4>1, <4>4 DEF Ahead
    <3>5. due' \subseteq returned' \cup Ahead'
      BY <3>4
    <3>6. \A r \in returned' : Behind(r)'
      BY <3>1 DEF Positioned, Behind
    <3>7. scan'.page \in LivePages'
      BY <3>2, <1>3
    <3> QED BY <3>1, <3>3, <3>5, <3>6, <3>7 DEF Positioned
  <2> QED BY <2>1, <2>2 DEF Cursor
<1> QED BY <1>6, <1>7, <1>8, <1>9, <1>10 DEF IInv, RecordFileInv
----------------------------------------------------------------------------
(* RM_FileHandle.                                                          *)
LEMMA ReuseSlotIInv ==
    ASSUME IInv, IsOpen, NEW v \in Vals, ReuseSlot(v), rc' = "OK",
           UNCHANGED <<file, diskHeader, pinned, scan, due, returned>>
    PROVE  IInv'
<1> DEFINE p == handle.firstFreePage
           page == pages[p]
           s == page.firstFreeRecord
           q == Reused(page, v)
<1>1. /\ p \in LivePages /\ p \in PageNums /\ PageOK(page) /\ Gone(page) # {}
      /\ PagesChained(p, pages)
  <2>1. p # kLastFreePage
    BY DEF ReuseSlot
  <2> QED BY <2>1, FirstFreePage, LivePageOK
<1>2. /\ Store(p, q) /\ rid' = <<p, s>>
      /\ handle' = IF page.cell[s] = kLastFreeRecord
                   THEN [handle EXCEPT !.firstFreePage = page.nextFreePage,
                                       !.isHeaderDirty = TRUE]
                   ELSE handle
  BY DEF ReuseSlot, Reused
<1>3. /\ PageOK(q) /\ Gone(q) = Gone(page) \ {s} /\ s \in Gone(page)
      /\ page.cell[s] = kLastFreeRecord <=> Gone(q) = {}
      /\ q.bitmap = page.bitmap \cup {s} /\ q.cell = [page.cell EXCEPT ![s] = v]
      /\ q.nextFreePage = page.nextFreePage
      /\ q.allocatedRecords = page.allocatedRecords
  BY <1>1, ReusedPage
<1>4. /\ pages \in [PageNums -> Page \cup {NoPage}] /\ q \in Page /\ page \in Page
      /\ page # NoPage /\ pages' = [pages EXCEPT ![p] = q]
      /\ handle.firstFreePage \in PageLinks /\ page.nextFreePage \in PageLinks
      /\ page.allocatedRecords \in Nat
      /\ handle \in [state : {"new", "open", "closed"}, firstFreePage : PageLinks,
                     isHeaderDirty : BOOLEAN]
  BY <1>1, <1>2, <1>3, PageFields
     DEF IInv, RecordFileInv, TypeOK, Store, PageOK, LivePages
<1>5. rid' \in Rids
  BY <1>1, <1>2, <1>3, GoneSlots DEF Rids
<1>6. ASSUME NEW t \in Slots, Live(p, t)
      PROVE  t \in q.bitmap /\ q.cell[t] = page.cell[t]
  <2>1. t \in page.bitmap /\ t # s
    BY <1>3, <1>6 DEF Live, Gone
  <2>2. page.cell \in [Slots -> Vals \cup SlotLinks]
    BY <1>4, PageFields
  <2> QED BY <1>3, <2>1, <2>2
<1>7. /\ Store(p, q) /\ PageOK(q) /\ p \in PageNums /\ p \in LivePages
      /\ pages[p].allocatedRecords <= q.allocatedRecords
      /\ \A t \in Slots : Live(p, t) /\ <<p, t>> \in due'
              => t \in q.bitmap /\ q.cell[t] = pages[p].cell[t]
      /\ UNCHANGED <<file, diskHeader, pinned, scan, returned>>
      /\ due' \subseteq due /\ rc' \in ReturnCodes /\ rid' \in Rids \cup {NoRid}
  <2> HIDE DEF q
  <2>1. page.allocatedRecords <= page.allocatedRecords
    BY <1>4
  <2> QED BY <1>1, <1>2, <1>3, <1>5, <1>6, <2>1 DEF ReturnCodes
<1> HIDE DEF q, page
<1>8. CASE Gone(q) = {}
  <2>1. handle' = [handle EXCEPT !.firstFreePage = page.nextFreePage, !.isHeaderDirty = TRUE]
    BY <1>2, <1>3, <1>8
  <2>2. handle'.firstFreePage = page.nextFreePage
    BY <1>4, <2>1
  <2>3. PagesChained(page.nextFreePage, pages')
    BY <1>1, <1>4, <1>8, ChainShorter DEF page
  <2> HIDE DEF p
  <2> QED BY <1>4, <1>7, <2>1, <2>2, <2>3, PageStored
<1>9. CASE Gone(q) # {}
  <2>1. handle' = handle
    BY <1>2, <1>3, <1>9
  <2>2. PagesChained(p, pages')
    BY <1>1, <1>3, <1>4, <1>9, ChainKept DEF page
  <2>3. handle'.firstFreePage = p
    BY <2>1
  <2>4. p \in PageLinks
    BY <1>4
  <2> HIDE DEF p
  <2> QED BY <1>7, <2>1, <2>2, <2>3, <2>4, PageStored
<1> QED BY <1>8, <1>9

LEMMA ExtendFileIInv ==
    ASSUME IInv, IsOpen, NEW v \in Vals, ExtendFile(v), rc' = "OK",
           UNCHANGED <<file, diskHeader, pinned, scan, due, returned>>
    PROVE  IInv'
<1> DEFINE full == IsFull(pages[LastPage])
           p == IF full THEN LastPage + 1 ELSE LastPage
           page == IF full THEN EmptyPage ELSE pages[p]
           q == Appended(page, v)
<1>1. /\ p \in PageNums /\ Store(p, q) /\ rid' = <<p, page.allocatedRecords>>
      /\ handle' = handle
  BY DEF ExtendFile
<1>2. /\ LastPage \in LivePages /\ LivePages = 1 .. LastPage /\ LastPage \in PageNums
  BY LastOfPages DEF IInv, Settled
<1>3. /\ full => p \notin LivePages /\ p = LastPage + 1 /\ page = EmptyPage
      /\ ~full => p \in LivePages /\ page = pages[p] /\ pages[p] # NoPage
  <2>1. LastPage \in Nat
    BY <1>2, Numbers
  <2>2. full => p \notin LivePages
    <3> HIDE DEF LivePages
    <3> QED BY <1>2, <2>1
  <2> QED BY <1>2, <2>2 DEF LivePages
<1>4. PageOK(page) /\ ~IsFull(page)
  BY <1>3, EmptyPageOK, LivePageOK
<1> HIDE DEF p, page, full
<1>5. /\ PageOK(q) /\ Gone(q) = Gone(page)
      /\ page.allocatedRecords \in Slots /\ page.allocatedRecords \notin page.bitmap
      /\ q.bitmap = page.bitmap \cup {page.allocatedRecords}
      /\ q.cell = [page.cell EXCEPT ![page.allocatedRecords] = v]
      /\ q.nextFreePage = page.nextFreePage
      /\ q.allocatedRecords = page.allocatedRecords + 1 /\ page.allocatedRecords \in Nat
  BY <1>4, AppendedPage
<1> HIDE DEF q
<1>6. /\ pages \in [PageNums -> Page \cup {NoPage}] /\ q \in Page /\ page \in Page
      /\ pages' = [pages EXCEPT ![p] = q]
  BY <1>1, <1>4, <1>5 DEF IInv, RecordFileInv, TypeOK, Store, PageOK
<1>7. handle.firstFreePage \in PageLinks /\ PagesChained(handle.firstFreePage, pages)
  BY FirstFreePage
<1>8. PagesChained(handle.firstFreePage, pages')
  <2>1. pages[p] # NoPage => p \in LivePages /\ page = pages[p]
    BY <1>1, <1>3 DEF LivePages
  <2>2. Gone(page) # {} => pages[p] # NoPage
    BY <1>3, EmptyPageOK
  <2> QED BY <1>1, <1>5, <1>6, <1>7, <2>1, <2>2, ChainKept
<1>9. rid' \in Rids
  BY <1>1, <1>5 DEF Rids
<1>10. ASSUME NEW t \in Slots, Live(p, t)
       PROVE  t \in q.bitmap /\ q.cell[t] = pages[p].cell[t]
  <2>1. page = pages[p] /\ t \in page.bitmap /\ t # page.allocatedRecords
    BY <1>3, <1>5, <1>10 DEF Live
  <2>2. page.cell \in [Slots -> Vals \cup SlotLinks]
    BY <1>6, PageFields
  <2> QED BY <1>5, <2>1, <2>2
<1>11. /\ p \notin LivePages => p = LastPage + 1
       /\ p \in LivePages => pages[p].allocatedRecords <= q.allocatedRecords
  BY <1>3, <1>5
<1> QED BY <1>1, <1>5, <1>7, <1>8, <1>9, <1>10, <1>11, PageStored, ZenonT(60) DEF ReturnCodes

LEMMA InsertRecIInv == ASSUME IInv, NEW v \in Vals, InsertRec(v) PROVE IInv'
<1>1. CASE \E code \in ReturnCodes : Returns(code)
  BY <1>1, ReturnsIInv
<1>2. CASE ~\E code \in ReturnCodes : Returns(code)
  <2>1. /\ IsOpen /\ (ReuseSlot(v) \/ ExtendFile(v)) /\ rc' = "OK"
        /\ UNCHANGED <<file, diskHeader, pinned, scan, due, returned>>
    BY <1>2 DEF InsertRec, NotOpen, BufferFails, ReturnCodes, scanVars
  <2> QED BY <2>1, ReuseSlotIInv, ExtendFileIInv
<1> QED BY <1>1, <1>2

LEMMA GetRecIInv == ASSUME IInv, NEW p, NEW s, GetRec(p, s) PROVE IInv'
<1>1. \E code \in ReturnCodes : Returns(code)
  BY DEF GetRec, NotOpen, BufferFails, ReturnCodes
<1> QED BY <1>1, ReturnsIInv

(* Deleting a record that is not there forgets the pin on its page.        *)
LEMMA PinForgotten ==
    ASSUME IInv, NEW p \in PageNums, pinned' = pinned \cup {p}, Answer("RM_RECORD_DELETED"),
           UNCHANGED <<fileVars, handle, scanVars>>
    PROVE  IInv'
<1>1. /\ rc' = "RM_RECORD_DELETED" /\ rid' = NoRid
      /\ UNCHANGED <<file, diskHeader, pages, handle, scan, due, returned>>
  BY DEF Answer, fileVars, scanVars
<1>2. TypeOK'
  BY <1>1 DEF IInv, RecordFileInv, TypeOK, ReturnCodes
<1>3. FreeSlotsChained' /\ FreePagesChained'
  BY <1>1 DEF IInv, RecordFileInv, FreeSlotsChained, FreePagesChained, LivePages, Deleted,
              Live, IsOpen
<1>4. Settled'
  BY <1>1 DEF IInv, Settled, LivePages, IsOpen
<1>5. Cursor'
  BY <1>1 DEF IInv, Cursor, Positioned, Ahead, Behind, LivePages, Matches, Live, IsOpen
<1> QED BY <1>2, <1>3, <1>4, <1>5 DEF IInv, RecordFileInv

LEMMA DeleteRecIInv ==
    ASSUME IInv, NEW p \in PageNums, NEW s \in Slots, DeleteRec(p, s) PROVE IInv'
<1>1. CASE \E code \in ReturnCodes : Returns(code)
  BY <1>1, ReturnsIInv
<1>2. CASE /\ pinned' = pinned \cup {p} /\ Answer("RM_RECORD_DELETED")
           /\ UNCHANGED <<fileVars, handle, scanVars>>
  BY <1>2, PinForgotten
<1>3. CASE IsOpen /\ Live(p, s) /\ Store(p, Freed(pages[p], s))
           /\ handle' = (IF WasFull(pages[p])
                         THEN [handle EXCEPT !.firstFreePage = p, !.isHeaderDirty = TRUE]
                         ELSE handle)
           /\ NotDue(p, s) /\ Answer("OK") /\ UNCHANGED <<file, diskHeader, pinned>>
  <2> DEFINE page == pages[p]
             q == Freed(page, s)
  <2>1. /\ p \in LivePages /\ s \in page.bitmap /\ PageOK(page) /\ page # NoPage
        /\ handle.firstFreePage \in PageLinks /\ PagesChained(handle.firstFreePage, pages)
    BY <1>3, LivePageOK, FirstFreePage DEF Live, LivePages
  <2>2. /\ PageOK(q) /\ Gone(q) = Gone(page) \cup {s}
        /\ q.bitmap = page.bitmap \ {s}
        /\ \A t \in Slots : t # s => q.cell[t] = page.cell[t]
        /\ q.nextFreePage = IF WasFull(page) THEN handle.firstFreePage ELSE page.nextFreePage
        /\ q.allocatedRecords = page.allocatedRecords
    BY <2>1, FreedPage
  <2>3. /\ Store(p, q) /\ due' = due \ {<<p, s>>} /\ rc' = "OK" /\ rid' = NoRid
        /\ UNCHANGED <<file, diskHeader, pinned, scan, returned>>
    BY <1>3 DEF NotDue, Answer
  <2> HIDE DEF q
  <2>4. /\ pages \in [PageNums -> Page \cup {NoPage}] /\ q \in Page
        /\ pages' = [pages EXCEPT ![p] = q] /\ page.allocatedRecords \in Nat
        /\ handle \in [state : {"new", "open", "closed"}, firstFreePage : PageLinks,
                       isHeaderDirty : BOOLEAN]
    BY <2>1, <2>2, <2>3, PageFields DEF IInv, RecordFileInv, TypeOK, Store, PageOK
  <2>5. ASSUME NEW t \in Slots, Live(p, t), <<p, t>> \in due'
        PROVE  t \in q.bitmap /\ q.cell[t] = page.cell[t]
    <3>1. t # s
      BY <2>3, <2>5
    <3> QED BY <2>2, <2>5, <3>1 DEF Live
  <2>6. /\ Store(p, q) /\ PageOK(q) /\ p \in PageNums /\ p \in LivePages
        /\ pages[p].allocatedRecords <= q.allocatedRecords
        /\ \A t \in Slots : Live(p, t) /\ <<p, t>> \in due'
                => t \in q.bitmap /\ q.cell[t] = pages[p].cell[t]
        /\ UNCHANGED <<file, diskHeader, pinned, scan, returned>>
        /\ due' \subseteq due /\ rc' \in ReturnCodes /\ rid' \in Rids \cup {NoRid}
    <3>1. page.allocatedRecords <= page.allocatedRecords
      BY <2>4
    <3> QED BY <2>1, <2>2, <2>3, <2>5, <3>1 DEF ReturnCodes
  <2>7. CASE WasFull(page)
    <3>1. handle' = [handle EXCEPT !.firstFreePage = p, !.isHeaderDirty = TRUE]
      BY <1>3, <2>7
    <3>2. handle'.firstFreePage = p /\ p \in PageLinks
      BY <2>4, <3>1 DEF PageLinks
    <3>3. PagesChained(p, pages')
      <4>1. Gone(page) = {} /\ Gone(q) # {}
        BY <2>1, <2>2, <2>7, FirstFree
      <4> QED BY <2>1, <2>2, <2>4, <2>7, <4>1, ChainLonger
    <3> QED BY <1>3, <2>6, <3>1, <3>2, <3>3, PageStored
  <2>8. CASE ~WasFull(page)
    <3>1. handle' = handle
      BY <1>3, <2>8
    <3>2. PagesChained(handle.firstFreePage, pages')
      <4>1. Gone(page) # {} /\ Gone(q) # {}
        BY <2>1, <2>2, <2>8, FirstFree
      <4> QED BY <2>1, <2>2, <2>4, <2>8, <4>1, ChainKept
    <3> QED BY <1>3, <2>1, <2>6, <3>1, <3>2, PageStored
  <2> QED BY <2>7, <2>8
<1> QED BY <1>1, <1>2, <1>3 DEF DeleteRec, NotOpen, BufferFails, ReturnCodes

LEMMA UpdateRecIInv ==
    ASSUME IInv, NEW p \in PageNums, NEW s \in Slots, NEW v \in Vals, UpdateRec(p, s, v),
           p \in LivePages => Live(p, s)
    PROVE  IInv'
<1>1. CASE \E code \in ReturnCodes : Returns(code)
  BY <1>1, ReturnsIInv
<1>2. CASE ~\E code \in ReturnCodes : Returns(code)
  <2> DEFINE page == pages[p]
             q == [page EXCEPT !.cell[s] = v]
  <2>1. /\ IsOpen /\ p \in LivePages /\ Store(p, q) /\ due' = due \ {<<p, s>>}
        /\ rc' = "OK" /\ rid' = NoRid
        /\ UNCHANGED <<file, diskHeader, handle, pinned, scan, returned>>
    BY <1>2 DEF UpdateRec, NotOpen, BufferFails, ReturnCodes, NotDue, Answer
  <2>2. /\ s \in page.bitmap /\ PageOK(page)
        /\ handle.firstFreePage \in PageLinks /\ PagesChained(handle.firstFreePage, pages)
    BY <2>1, LivePageOK, FirstFreePage DEF Live
  <2>3. /\ PageOK(q) /\ Gone(q) = Gone(page) /\ q.bitmap = page.bitmap
        /\ q.cell = [page.cell EXCEPT ![s] = v]
        /\ q.nextFreePage = page.nextFreePage
        /\ q.allocatedRecords = page.allocatedRecords
    BY <2>2, WrittenPage
  <2> HIDE DEF q
  <2>4. /\ pages \in [PageNums -> Page \cup {NoPage}] /\ q \in Page /\ page # NoPage
        /\ pages' = [pages EXCEPT ![p] = q] /\ page.allocatedRecords \in Nat
        /\ page.cell \in [Slots -> Vals \cup SlotLinks]
    BY <2>1, <2>2, <2>3, PageFields DEF IInv, RecordFileInv, TypeOK, Store, PageOK
  <2>5. ASSUME NEW t \in Slots, Live(p, t), <<p, t>> \in due'
        PROVE  t \in q.bitmap /\ q.cell[t] = page.cell[t]
    <3>1. t # s
      BY <2>1, <2>5
    <3> QED BY <2>3, <2>4, <2>5, <3>1 DEF Live
  <2>6. PagesChained(handle.firstFreePage, pages')
    BY <2>2, <2>3, <2>4, ChainKept
  <2>7. /\ Store(p, q) /\ PageOK(q) /\ p \in PageNums /\ p \in LivePages
        /\ pages[p].allocatedRecords <= q.allocatedRecords
        /\ \A t \in Slots : Live(p, t) /\ <<p, t>> \in due'
                => t \in q.bitmap /\ q.cell[t] = pages[p].cell[t]
        /\ UNCHANGED <<file, diskHeader, pinned, scan, returned>>
        /\ due' \subseteq due /\ rc' \in ReturnCodes /\ rid' \in Rids \cup {NoRid}
    <3>1. page.allocatedRecords <= page.allocatedRecords
      BY <2>4
    <3> QED BY <2>1, <2>3, <2>5, <3>1 DEF ReturnCodes
  <2> QED BY <2>1, <2>2, <2>6, <2>7, PageStored
<1> QED BY <1>1, <1>2
----------------------------------------------------------------------------
(* RM_Manager.                                                             *)
LEMMA CreateFileIInv == ASSUME IInv, CreateFile PROVE IInv'
<1>0. /\ file # "whole" /\ ~IsOpen /\ LivePages = {} /\ rid' = NoRid
      /\ UNCHANGED <<handle, pinned, scan, due, returned>>
  <2>1. PICK n \in 0 .. MaxPages : LivePages = 1 .. n /\ n = 0
    BY DEF CreateFile, IInv, Settled
  <2>2. 1 .. 0 = {}
    OBVIOUS
  <2> QED BY <2>1, <2>2 DEF CreateFile, IInv, Settled, scanVars, Answer
<1>1. CASE file' = "partial" /\ Answer("PF_BUFFER") /\ UNCHANGED <<diskHeader, pages>>
  <2>1. TypeOK'
    BY <1>0, <1>1 DEF IInv, RecordFileInv, TypeOK, ReturnCodes, Answer
  <2>2. LivePages' = {} /\ ~IsOpen'
    BY <1>0, <1>1 DEF LivePages, IsOpen
  <2>3. FreeSlotsChained' /\ FreePagesChained'
    BY <1>1, <2>2 DEF FreeSlotsChained, FreePagesChained
  <2>4. Settled'
    <3>1. 0 \in 0 .. MaxPages /\ LivePages' = 1 .. 0
      BY <2>2
    <3> QED BY <1>1, <2>2, <3>1 DEF Settled
  <2>5. Cursor'
    BY <1>0, <2>2 DEF IInv, Cursor
  <2> QED BY <2>1, <2>3, <2>4, <2>5 DEF IInv, RecordFileInv
<1>2. CASE /\ file' = "whole" /\ diskHeader' = kLastFreePage
           /\ pages' = [p \in PageNums |-> IF p = 1 THEN EmptyPage ELSE NoPage]
           /\ Answer("OK")
  <2>1. 1 \in PageNums /\ PageOK(EmptyPage) /\ EmptyPage \in Page /\ EmptyPage # NoPage
    BY EmptyPageOK DEF PageNums, PageOK
  <2>2. pages'[1] = EmptyPage /\ LivePages' = {1} /\ ~IsOpen'
    BY <1>0, <1>2, <2>1 DEF LivePages, IsOpen
  <2>3. TypeOK'
    BY <1>0, <1>2, <2>1 DEF IInv, RecordFileInv, TypeOK, ReturnCodes, Answer, PageLinks
  <2>4. Deleted(1)' = {} /\ EmptyPage.bitmap = {}
    <3>1. Deleted(1)' = Gone(EmptyPage)
      BY <2>2 DEF Deleted, Gone, Live
    <3> QED BY <3>1, EmptyPageOK DEF EmptyPage
  <2>5. FreeSlotsChained'
    BY <2>1, <2>2, <2>4, EmptyPageOK DEF FreeSlotsChained, PageOK
  <2>6. FreePagesChained'
    <3>1. Holey(pages') = {}
      BY <1>2, EmptyPageOK DEF Holey
    <3>2. PagesChained(kLastFreePage, pages')
      BY <3>1, HoleyPages, ChainEmpty DEF PagesChained
    <3> QED BY <1>2, <2>2, <3>2, ChainOfPages
  <2>7. Settled'
    <3>1. 1 \in 0 .. MaxPages /\ LivePages' = 1 .. 1
      BY <2>2
    <3>2. \A p \in LivePages' : pages'[p].bitmap = {}
      BY <2>2, <2>4
    <3> QED BY <1>2, <2>2, <3>1, <3>2 DEF Settled
  <2>8. Cursor'
    BY <1>0, <2>2 DEF IInv, Cursor
  <2> QED BY <2>3, <2>5, <2>6, <2>7, <2>8 DEF IInv, RecordFileInv
<1> QED BY <1>1, <1>2 DEF CreateFile

LEMMA DestroyFileIInv == ASSUME IInv, DestroyFile PROVE IInv'
<1>1. CASE \E code \in ReturnCodes : Returns(code)
  BY <1>1, ReturnsIInv
<1>2. CASE ~\E code \in ReturnCodes : Returns(code)
  <2>1. /\ ~IsOpen /\ file' = "absent" /\ pages' = [p \in PageNums |-> NoPage]
        /\ rc' = "OK" /\ rid' = NoRid
        /\ UNCHANGED <<diskHeader, handle, pinned, scan, due, returned>>
    BY <1>2 DEF DestroyFile, ReturnCodes, Answer, scanVars
  <2>2. LivePages' = {} /\ ~IsOpen'
    BY <2>1 DEF LivePages, IsOpen
  <2>3. TypeOK'
    BY <2>1 DEF IInv, RecordFileInv, TypeOK, ReturnCodes
  <2>4. FreeSlotsChained' /\ FreePagesChained'
    BY <2>1, <2>2 DEF FreeSlotsChained, FreePagesChained
  <2>5. Settled'
    <3>1. 0 \in 0 .. MaxPages /\ LivePages' = 1 .. 0
      BY <2>2
    <3> QED BY <2>1, <2>2, <3>1 DEF Settled
  <2>6. Cursor'
    BY <2>1, <2>2 DEF IInv, Cursor
  <2> QED BY <2>3, <2>4, <2>5, <2>6 DEF IInv, RecordFileInv
<1> QED BY <1>1, <1>2

(* Opening and closing hand the head of the chain over.                    *)
LEMMA HandleIInv ==
    ASSUME IInv, UNCHANGED <<file, pages, pinned, scan, due, returned>>,
           rc' \in ReturnCodes, rid' = NoRid, diskHeader' \in PageLinks,
           handle' \in [state : {"new", "open", "closed"}, firstFreePage : PageLinks,
                        isHeaderDirty : BOOLEAN],
           file = "whole" => (IF IsOpen' THEN handle'.firstFreePage ELSE diskHeader')
                                = (IF IsOpen THEN handle.firstFreePage ELSE diskHeader),
           IsOpen' => /\ file = "whole"
                      /\ handle'.isHeaderDirty \/ handle'.firstFreePage = diskHeader',
           scan.opened => IsOpen'
    PROVE  IInv'
<1>1. LivePages' = LivePages /\ \A p \in PageNums : Deleted(p)' = Deleted(p)
  BY DEF LivePages, Deleted, Live
<1>2. TypeOK'
  BY DEF IInv, RecordFileInv, TypeOK
<1>3. FreeSlotsChained'
  BY <1>1 DEF IInv, RecordFileInv, FreeSlotsChained, LivePages
<1>4. FreePagesChained'
  BY ChainOfPages DEF IInv, RecordFileInv
<1>5. Settled'
  BY <1>1 DEF IInv, Settled
<1>6. Cursor'
  BY <1>1 DEF IInv, Cursor, Positioned, Ahead, Behind, Matches, Live
<1> QED BY <1>2, <1>3, <1>4, <1>5, <1>6 DEF IInv, RecordFileInv

LEMMA OpenFileIInv == ASSUME IInv, OpenFile PROVE IInv'
<1>1. CASE \E code \in ReturnCodes : Returns(code)
  BY <1>1, ReturnsIInv
<1>2. CASE ~\E code \in ReturnCodes : Returns(code)
  <2>1. /\ ~IsOpen /\ rc' \in ReturnCodes /\ rid' = NoRid
        /\ UNCHANGED <<file, diskHeader, pages, pinned, scan, due, returned>>
        /\ \/ handle' = NewHandle
           \/ /\ file = "whole"
              /\ handle' = [state |-> "open", firstFreePage |-> diskHeader,
                            isHeaderDirty |-> FALSE]
    BY <1>2 DEF OpenFile, ReturnCodes, Answer, fileVars, scanVars
  <2>2. diskHeader \in PageLinks /\ ~scan.opened
    BY <2>1 DEF IInv, RecordFileInv, TypeOK, Cursor
  <2>3. CASE handle' = NewHandle
    BY <2>1, <2>2, <2>3, HandleIInv DEF NewHandle, IsOpen, PageLinks
  <2>4. CASE /\ file = "whole"
             /\ handle' = [state |-> "open", firstFreePage |-> diskHeader,
                           isHeaderDirty |-> FALSE]
    BY <2>1, <2>2, <2>4, HandleIInv DEF IsOpen
  <2> QED BY <2>1, <2>3, <2>4
<1> QED BY <1>1, <1>2

LEMMA CloseIInv == ASSUME IInv, Close PROVE IInv'
<1>1. CASE \E code \in ReturnCodes : Returns(code)
  BY <1>1, ReturnsIInv
<1>2. CASE ~\E code \in ReturnCodes : Returns(code)
  <2>1. /\ ~scan.opened /\ IsOpen /\ diskHeader' = SavedHeader /\ rid' = NoRid
        /\ rc' \in ReturnCodes
        /\ handle' = [handle EXCEPT !.state = "closed"] \/ handle' = handle
        /\ UNCHANGED <<file, pages, pinned, scan, due, returned>>
    BY <1>2 DEF Close, CloseFile, BufferFails, ReturnCodes, Answer, scanVars
  <2>2. /\ handle \in [state : {"new", "open", "closed"}, firstFreePage : PageLinks,
                       isHeaderDirty : BOOLEAN]
        /\ diskHeader' = handle.firstFreePage /\ file = "whole"
    BY <2>1 DEF IInv, RecordFileInv, TypeOK, Settled, SavedHeader
  <2>3. CASE handle' = [handle EXCEPT !.state = "closed"]
    <3>1. /\ handle' \in [state : {"new", "open", "closed"}, firstFreePage : PageLinks,
                          isHeaderDirty : BOOLEAN]
          /\ ~IsOpen' /\ diskHeader' \in PageLinks
      BY <2>2, <2>3 DEF IsOpen
    <3> QED BY <2>1, <2>2, <3>1, HandleIInv
  <2>4. CASE handle' = handle
    BY <2>1, <2>2, <2>4, HandleIInv DEF IsOpen
  <2> QED BY <2>1, <2>3, <2>4
<1> QED BY <1>1, <1>2
----------------------------------------------------------------------------
(* RM_FileScan.                                                            *)
LEMMA RidNumbers ==
    ASSUME NEW r \in Rids
    PROVE  r[1] \in PageNums /\ r[2] \in Slots /\ r[1] \in Nat /\ r[2] \in Nat
<1>1. r[1] \in PageNums /\ r[2] \in Slots
  BY DEF Rids
<1> QED BY <1>1, Numbers

LEMMA ScanPosition ==
    ASSUME IInv
    PROVE  /\ scan.page \in PageNums /\ scan.page \in Nat
           /\ scan.slot \in 0 .. RecordsPerPage /\ scan.slot \in Nat
<1>1. scan.page \in PageNums /\ scan.slot \in 0 .. RecordsPerPage
  BY DEF IInv, RecordFileInv, TypeOK
<1>2. scan.page \in Nat
  BY <1>1, Numbers
<1>3. scan.slot \in Nat
  BY <1>1
<1> QED BY <1>1, <1>2, <1>3

LEMMA ScanIInv ==
    ASSUME IInv, UNCHANGED <<fileVars, handle, pinned>>, Cursor',
           rc' \in ReturnCodes, rid' = NoRid, due' \subseteq Rids, returned' \subseteq Rids,
           scan' \in [opened : BOOLEAN, ready : BOOLEAN, page : PageNums,
                      slot : 0 .. RecordsPerPage, wanted : SUBSET Vals]
    PROVE  IInv'
<1>1. UNCHANGED <<file, diskHeader, pages, handle, pinned>>
  BY DEF fileVars
<1>2. TypeOK'
  BY <1>1 DEF IInv, RecordFileInv, TypeOK
<1>3. FreeSlotsChained' /\ FreePagesChained'
  BY <1>1 DEF IInv, RecordFileInv, FreeSlotsChained, FreePagesChained, LivePages, Deleted,
              Live, IsOpen
<1>4. Settled'
  BY <1>1 DEF IInv, Settled, LivePages, IsOpen
<1> QED BY <1>2, <1>3, <1>4 DEF IInv, RecordFileInv

LEMMA OpenScanIInv == ASSUME IInv, NEW W \in SUBSET Vals, OpenScan(W) PROVE IInv'
<1>1. CASE \E code \in ReturnCodes : Returns(code)
  BY <1>1, ReturnsIInv
<1>2. CASE ~\E code \in ReturnCodes : Returns(code)
  <2>0. IsOpen /\ returned' = {} /\ UNCHANGED <<fileVars, handle, pinned>>
    BY <1>2 DEF OpenScan, ReturnCodes
  <2>1. UNCHANGED <<file, diskHeader, pages, handle, pinned>> /\ IsOpen'
    BY <2>0 DEF fileVars, IsOpen
  <2>2. CASE /\ scan' = [scan EXCEPT !.opened = TRUE, !.ready = FALSE, !.wanted = W]
             /\ Answer("PF_BUFFER") /\ due' = {}
    <3>1. scan' \in [opened : BOOLEAN, ready : BOOLEAN, page : PageNums,
                     slot : 0 .. RecordsPerPage, wanted : SUBSET Vals]
          /\ scan'.ready = FALSE
      BY <2>2 DEF IInv, RecordFileInv, TypeOK
    <3>2. Cursor'
      BY <2>1, <3>1 DEF Cursor
    <3> QED BY <2>0, <2>2, <3>1, <3>2, ScanIInv DEF Answer, ReturnCodes
  <2>3. CASE /\ scan' = [opened |-> TRUE, ready |-> TRUE, page |-> 1, slot |-> 0, wanted |-> W]
             /\ Answer("OK")
             /\ due' = {r \in Records : pages[r[1]].cell[r[2]] \in W}
    <3>1. 1 \in LivePages /\ 1 \in PageNums
      BY <2>0, LastOfPages DEF IInv, Settled, PageNums
    <3>2. scan' \in [opened : BOOLEAN, ready : BOOLEAN, page : PageNums,
                     slot : 0 .. RecordsPerPage, wanted : SUBSET Vals]
      BY <2>3, <3>1
    <3>3. due' \subseteq Rids
      BY <2>3 DEF Records
    <3>4. ASSUME NEW r \in due' PROVE r \in Ahead'
      <4>1. /\ r \in Rids /\ Live(r[1], r[2]) /\ pages[r[1]].cell[r[2]] \in W
        BY <2>3, <3>4 DEF Records
      <4>2. r[1] \in PageNums /\ r[2] \in Slots
        BY <4>1 DEF Rids
      <4>3. Matches(r[1], r[2])'
        BY <2>1, <2>3, <4>1 DEF Matches, Live, LivePages
      <4>4. r[1] > 1 \/ (r[1] = 1 /\ r[2] >= 0)
        BY <4>2 DEF PageNums, Slots
      <4> QED BY <2>3, <4>1, <4>3, <4>4 DEF Ahead
    <3>5. scan'.slot <= pages'[scan'.page].allocatedRecords
      <4>1. pages[1].allocatedRecords \in Nat
        BY <3>1, LivePageOK, PageFields DEF PageOK
      <4> QED BY <2>1, <2>3, <4>1
    <3>6. scan'.page \in LivePages'
      BY <2>1, <2>3, <3>1 DEF LivePages
    <3>7. Cursor'
      BY <2>0, <2>1, <2>3, <3>4, <3>5, <3>6 DEF Cursor, Positioned
    <3> QED BY <2>0, <2>3, <3>2, <3>3, <3>7, ScanIInv DEF Answer, ReturnCodes
  <2> QED BY <1>2, <2>2, <2>3 DEF OpenScan, ReturnCodes
<1> QED BY <1>1, <1>2

LEMMA CloseScanIInv == ASSUME IInv, CloseScan PROVE IInv'
<1>1. CASE \E code \in ReturnCodes : Returns(code)
  BY <1>1, ReturnsIInv
<1>2. CASE ~\E code \in ReturnCodes : Returns(code)
  <2>1. /\ scan' = [scan EXCEPT !.opened = FALSE, !.ready = FALSE]
        /\ due' = {} /\ returned' = {} /\ Answer("OK")
        /\ UNCHANGED <<fileVars, handle, pinned>>
    BY <1>2 DEF CloseScan, ReturnCodes
  <2>2. scan' \in [opened : BOOLEAN, ready : BOOLEAN, page : PageNums,
                   slot : 0 .. RecordsPerPage, wanted : SUBSET Vals]
        /\ scan'.ready = FALSE /\ scan'.opened = FALSE
    BY <2>1 DEF IInv, RecordFileInv, TypeOK
  <2>3. Cursor'
    BY <2>2 DEF Cursor
  <2> QED BY <2>1, <2>2, <2>3, ScanIInv DEF Answer, ReturnCodes
<1> QED BY <1>1, <1>2

(* The scan moves on: to where every record still ahead is ahead of, and   *)
(* everything it has returned behind.                                      *)
LEMMA MoveIInv ==
    ASSUME IInv, IsOpen, scan.ready, NEW p \in LivePages, NEW s \in 0 .. RecordsPerPage,
           NEW code \in ReturnCodes, MoveTo(p, s, code),
           s <= pages[p].allocatedRecords, p > scan.page \/ (p = scan.page /\ s >= scan.slot),
           \A r \in Ahead : r \in returned' \/ r[1] > p \/ (r[1] = p /\ r[2] >= s),
           returned \subseteq returned', returned' \subseteq Rids,
           \A r \in returned' \ returned : r[1] < p \/ (r[1] = p /\ r[2] < s)
    PROVE  IInv'
<1>1. /\ scan' = [scan EXCEPT !.page = p, !.slot = s] /\ rc' = code /\ rid' = NoRid
      /\ UNCHANGED <<fileVars, handle, pinned, due>>
  BY DEF MoveTo, Answer
<1>2. p \in PageNums /\ scan \in [opened : BOOLEAN, ready : BOOLEAN, page : PageNums,
                                  slot : 0 .. RecordsPerPage, wanted : SUBSET Vals]
  BY LivePageOK DEF IInv, RecordFileInv, TypeOK
<1>3. /\ scan' \in [opened : BOOLEAN, ready : BOOLEAN, page : PageNums,
                    slot : 0 .. RecordsPerPage, wanted : SUBSET Vals]
      /\ scan'.page = p /\ scan'.slot = s /\ scan'.wanted = scan.wanted
      /\ scan'.opened = scan.opened
  BY <1>1, <1>2
<1>4. scan.opened /\ Positioned /\ IsOpen'
  BY <1>1 DEF IInv, Cursor, IsOpen
<1>5. ASSUME NEW r \in due PROVE r \in returned' \cup Ahead'
  <2>1. r \in returned \/ r \in Ahead
    BY <1>4 DEF Positioned
  <2>2. ASSUME r \in Ahead, r[1] > p \/ (r[1] = p /\ r[2] >= s) PROVE r \in Ahead'
    <3>1. r \in Rids /\ Matches(r[1], r[2])
      BY <2>2 DEF Ahead
    <3>2. Matches(r[1], r[2])'
      BY <1>1, <1>3, <3>1 DEF Matches, Live, LivePages, fileVars
    <3> QED BY <1>3, <2>2, <3>1, <3>2 DEF Ahead
  <2> QED BY <2>1, <2>2
<1>6. ASSUME NEW r \in returned' PROVE Behind(r)'
  <2>1. CASE r \in returned
    <3>1. Behind(r) /\ r \in Rids
      BY <1>4, <2>1 DEF Positioned
    <3>2. /\ r[1] \in Nat /\ r[2] \in Nat /\ p \in Nat /\ s \in Nat
          /\ scan.page \in Nat /\ scan.slot \in Nat
      BY <1>2, <3>1, RidNumbers, ScanPosition, Numbers
    <3>3. r[1] < scan.page \/ (r[1] = scan.page /\ r[2] < scan.slot)
      BY <3>1 DEF Behind
    <3>4. r[1] < p \/ (r[1] = p /\ r[2] < s)
      BY <3>2, <3>3
    <3> QED BY <1>3, <3>4 DEF Behind
  <2>2. CASE r \notin returned
    BY <1>3, <2>2 DEF Behind
  <2> QED BY <2>1, <2>2
<1>7. Cursor'
  <2>1. scan'.page \in LivePages' /\ scan'.slot <= pages'[scan'.page].allocatedRecords
    BY <1>1, <1>3 DEF LivePages, fileVars
  <2>2. due' \subseteq returned' \cup Ahead'
    BY <1>1, <1>5
  <2> QED BY <1>3, <1>4, <1>6, <2>1, <2>2 DEF Cursor, Positioned
<1>8. due' \subseteq Rids
  BY <1>1 DEF IInv, RecordFileInv, TypeOK
<1> QED BY <1>1, <1>3, <1>7, <1>8, ScanIInv

LEMMA AheadOf ==
    ASSUME IInv, NEW r \in Ahead
    PROVE  /\ r \in Rids /\ r[1] \in LivePages /\ r[1] \in PageNums /\ r[2] \in Slots
           /\ r[2] < pages[r[1]].allocatedRecords
           /\ r[1] > scan.page \/ (r[1] = scan.page /\ r[2] >= scan.slot)
<1>1. r \in Rids /\ Live(r[1], r[2])
  BY DEF Ahead, Matches
<1> QED BY <1>1 DEF Rids, Live, IInv, Settled, Ahead

LEMMA GetNextRecIInv == ASSUME IInv, GetNextRec PROVE IInv'
<1>1. CASE \E code \in ReturnCodes : Returns(code)
  BY <1>1, ReturnsIInv
<1>2. CASE ~\E code \in ReturnCodes : Returns(code)
  <2>1. IsOpen /\ scan.ready /\ file = "whole" /\ returned \subseteq Rids
    BY <1>2 DEF GetNextRec, ReturnCodes, IInv, Settled, RecordFileInv, TypeOK
  <2>2. /\ scan.page \in LivePages /\ scan.page \in Nat /\ scan.slot \in Nat
        /\ scan.slot <= pages[scan.page].allocatedRecords
    <3>1. scan.page \in LivePages /\ scan.slot <= pages[scan.page].allocatedRecords
      BY <2>1 DEF IInv, Cursor, Positioned
    <3> QED BY <3>1, ScanPosition
  <2>3. \A p \in LivePages : /\ pages[p].allocatedRecords \in 0 .. RecordsPerPage
                             /\ pages[p].allocatedRecords \in Nat /\ p \in Nat
    <3>1. \A p \in LivePages : pages[p].allocatedRecords \in 0 .. RecordsPerPage
      BY LivePageOK, PageFields DEF PageOK
    <3>2. \A p \in LivePages : pages[p].allocatedRecords \in Nat
      BY <3>1
    <3>3. \A p \in LivePages : p \in Nat
      BY LivePageOK, Numbers
    <3> QED BY <3>1, <3>2, <3>3
  <2>4. ASSUME NEW p \in LivePages, p >= scan.page, \A r \in Ahead : r[1] > p,
               MoveTo(p, pages[p].allocatedRecords, "PF_BUFFER"), UNCHANGED returned
        PROVE  IInv'
    <3>1. /\ p > scan.page \/ (p = scan.page /\ pages[p].allocatedRecords >= scan.slot)
          /\ pages[p].allocatedRecords <= pages[p].allocatedRecords
      BY <2>2, <2>3, <2>4
    <3>2. /\ \A r \in Ahead : r \in returned' \/ r[1] > p
                              \/ (r[1] = p /\ r[2] >= pages[p].allocatedRecords)
          /\ \A r \in returned' \ returned :
                r[1] < p \/ (r[1] = p /\ r[2] < pages[p].allocatedRecords)
          /\ returned \subseteq returned' /\ returned' \subseteq Rids
      BY <2>1, <2>4
    <3>3. "PF_BUFFER" \in ReturnCodes /\ pages[p].allocatedRecords \in 0 .. RecordsPerPage
      BY <2>3 DEF ReturnCodes
    <3> QED BY <2>1, <2>4, <3>1, <3>2, <3>3, MoveIInv
  <2>5. ASSUME Ahead = {}, UNCHANGED returned,
               MoveTo(LastPage, pages[LastPage].allocatedRecords, "RM_EOF")
        PROVE  IInv'
    <3>1. LastPage \in LivePages /\ LastPage \in Nat /\ LastPage >= scan.page
      BY <2>1, <2>2, <2>3, LastOfPages
    <3>2. /\ LastPage > scan.page
             \/ (LastPage = scan.page /\ pages[LastPage].allocatedRecords >= scan.slot)
          /\ pages[LastPage].allocatedRecords <= pages[LastPage].allocatedRecords
      BY <2>2, <2>3, <3>1
    <3>3. /\ \A r \in Ahead : r \in returned' \/ r[1] > LastPage
                    \/ (r[1] = LastPage /\ r[2] >= pages[LastPage].allocatedRecords)
          /\ \A r \in returned' \ returned : r[1] < LastPage
                    \/ (r[1] = LastPage /\ r[2] < pages[LastPage].allocatedRecords)
          /\ returned \subseteq returned' /\ returned' \subseteq Rids
      BY <2>1, <2>5
    <3>4. /\ "RM_EOF" \in ReturnCodes
          /\ pages[LastPage].allocatedRecords \in 0 .. RecordsPerPage
      BY <2>3, <3>1 DEF ReturnCodes
    <3> QED BY <2>1, <2>5, <3>1, <3>2, <3>3, <3>4, MoveIInv
  <2>6. ASSUME NEW r \in Ahead, IsNextRec(r), MoveTo(r[1], SlotAfter(r), "OK"),
               returned' = returned \cup {r}
        PROVE  IInv'
    <3>1. /\ r \in Rids /\ r[1] \in LivePages /\ r[1] \in Nat /\ r[2] \in Nat
          /\ r[2] < pages[r[1]].allocatedRecords
          /\ r[1] > scan.page \/ (r[1] = scan.page /\ r[2] >= scan.slot)
      BY AheadOf, RidNumbers
    <3>2. /\ SlotAfter(r) \in 0 .. RecordsPerPage /\ SlotAfter(r) = r[2] + 1
          /\ SlotAfter(r) <= pages[r[1]].allocatedRecords
          /\ r[1] > scan.page \/ (r[1] = scan.page /\ SlotAfter(r) >= scan.slot)
      BY <2>2, <2>3, <3>1 DEF SlotAfter
    <3>3. ASSUME NEW q \in Ahead
          PROVE  q \in returned' \/ q[1] > r[1] \/ (q[1] = r[1] /\ q[2] >= SlotAfter(r))
      <4>1. /\ q \in Rids /\ q[1] \in Nat /\ q[2] \in Nat
            /\ r[1] < q[1] \/ (r[1] = q[1] /\ r[2] <= q[2])
        BY <2>6, AheadOf, RidNumbers DEF IsNextRec
      <4>2. CASE q[1] = r[1] /\ q[2] = r[2]
        <5>1. q = r
          BY <3>1, <4>1, <4>2 DEF Rids
        <5> QED BY <2>6, <5>1
      <4>3. CASE ~(q[1] = r[1] /\ q[2] = r[2])
        BY <2>2, <3>1, <3>2, <4>1, <4>3
      <4> QED BY <4>2, <4>3
    <3>4. \A q \in returned' \ returned : q[1] < r[1] \/ (q[1] = r[1] /\ q[2] < SlotAfter(r))
      <4>1. r[2] \in Nat /\ r[2] < SlotAfter(r)
        BY <2>2, <3>1, <3>2
      <4>2. \A q \in returned' \ returned : q = r
        BY <2>6
      <4> QED BY <4>1, <4>2
    <3>5. returned \subseteq returned' /\ returned' \subseteq Rids
      BY <2>1, <2>6, <3>1
    <3> QED BY <2>1, <2>6, <3>1, <3>2, <3>3, <3>4, <3>5, MoveIInv DEF ReturnCodes
  <2> QED BY <1>2, <2>4, <2>5, <2>6 DEF GetNextRec, BufferFails, ReturnCodes
<1> QED BY <1>1, <1>2

----------------------------------------------------------------------------
LEMMA NextIInv == IInv /\ [Next]_vars => IInv'
<1> SUFFICES ASSUME IInv, [Next]_vars PROVE IInv'
  OBVIOUS
<1>1. CASE UNCHANGED vars
  BY <1>1, StutterIInv
<1>2. CASE CreateFile \/ DestroyFile \/ OpenFile \/ Close
  BY <1>2, CreateFileIInv, DestroyFileIInv, OpenFileIInv, CloseIInv
<1>3. ASSUME NEW v \in Vals, InsertRec(v) PROVE IInv'
  BY <1>3, InsertRecIInv
<1>4. ASSUME NEW p \in PageNums, NEW s \in Slots, GetRec(p, s) \/ DeleteRec(p, s)
      PROVE  IInv'
  BY <1>4, GetRecIInv, DeleteRecIInv
<1>5. ASSUME NEW p \in PageNums, NEW s \in Slots, NEW v \in Vals,
             p \in LivePages => Live(p, s), UpdateRec(p, s, v)
      PROVE  IInv'
  BY <1>5, UpdateRecIInv
<1>6. CASE ScanNext
  BY <1>6, OpenScanIInv, GetNextRecIInv, CloseScanIInv DEF ScanNext
<1> QED BY <1>1, <1>2, <1>3, <1>4, <1>5, <1>6 DEF Next, FileNext

(* Every reachable state satisfies the inductive invariant.                *)
THEOREM IInvHolds == Spec => []IInv
<1> QED BY InitIInv, NextIInv, PTL DEF Spec

(* A client that never scans is a client, so what holds of Spec holds of   *)
(* FileSpec.                                                               *)
THEOREM NoScanIsSpec == FileSpec => Spec
<1>1. [FileNext]_vars => [Next]_vars
  BY DEF Next
<1> QED BY <1>1, PTL DEF Spec, FileSpec

(* Every deleted record of a page and every page that has one is on its    *)
(* chain once, whatever is inserted, deleted and updated, and whether the  *)
(* chain of pages starts in the handle or on disk.                         *)
THEOREM ChainsAreKept == Spec => []RecordFileInv
<1>1. IInv => RecordFileInv
  BY DEF IInv
<1> QED BY <1>1, IInvHolds, PTL

(* A scan misses none of the records that were there when it was opened    *)
(* and were left alone.                                                    *)
THEOREM NothingMissed == Spec => []ScanMissesNothing
<1>1. IInv => ScanMissesNothing
  BY DEF IInv, Cursor, Positioned, ScanMissesNothing
<1> QED BY <1>1, IInvHolds, PTL

(* What a scan returns it has not returned before: that lies behind it.    *)
LEMMA ReturnedIsNew == ASSUME IInv, GetNextRec, rc' = "OK" PROVE returned' # returned
<1>1. scan.ready /\ ~BufferFails
  BY DEF GetNextRec, BufferFails, Returns, Answer
<1>2. PICK r \in Ahead : returned' = returned \cup {r}
  BY <1>1 DEF GetNextRec, MoveTo, Answer, Returns
<1>3. /\ r[1] \in Nat /\ r[2] \in Nat /\ scan.page \in Nat /\ scan.slot \in Nat
      /\ r[1] > scan.page \/ (r[1] = scan.page /\ r[2] >= scan.slot)
  BY AheadOf, RidNumbers, ScanPosition
<1>4. ~Behind(r)
  BY <1>3 DEF Behind
<1>5. r \notin returned
  BY <1>1, <1>4 DEF IInv, Cursor, Positioned
<1> QED BY <1>2, <1>5

(* A scan returns no record a second time.                                 *)
THEOREM NothingReturnedTwice == Spec => ScanReturnsOnce
<1>1. IInv /\ [Next]_vars => [GetNextRec /\ rc' = "OK" => returned' # returned]_vars
  BY ReturnedIsNew
<1> QED BY <1>1, IInvHolds, PTL DEF Spec, ScanReturnsOnce
----------------------------------------------------------------------------
(* The refinement of RecordSet.                                            *)
recs == [r \in Rids |-> RecordOf(r)]

LEMMA RecordThere ==
    ASSUME IInv, NEW p \in PageNums, NEW s \in Slots
    PROVE  /\ <<p, s>> \in Rids /\ recs[<<p, s>>] = RecordOf(<<p, s>>)
           /\ Live(p, s) => recs[<<p, s>>] # NoRecord
           /\ ~Live(p, s) => recs[<<p, s>>] = NoRecord
<1>1. <<p, s>> \in Rids /\ recs[<<p, s>>] = RecordOf(<<p, s>>)
  BY DEF recs, Rids
<1>2. Live(p, s) => pages[p].cell[s] \in Vals
  BY DEF Live, IInv, Settled
<1> QED BY <1>1, <1>2 DEF RecordOf

(* Storing a page that differs in one record changes one record.           *)
LEMMA RecordChanged ==
    ASSUME IInv, NEW p \in PageNums, NEW s \in Slots, NEW q, Store(p, q), q # NoPage, NEW v,
           IF s \in q.bitmap THEN q.cell[s] = v ELSE v = NoRecord,
           \A t \in Slots \ {s} : /\ Live(p, t) <=> t \in q.bitmap
                                  /\ Live(p, t) => q.cell[t] = pages[p].cell[t]
    PROVE  recs' = [recs EXCEPT ![<<p, s>>] = v]
<1>1. pages'[p] = q /\ \A r \in PageNums : r # p => pages'[r] = pages[r]
  BY DEF Store, IInv, RecordFileInv, TypeOK
<1>2. ASSUME NEW r \in Rids
      PROVE  RecordOf(r)' = IF r = <<p, s>> THEN v ELSE RecordOf(r)
  <2>1. r[1] \in PageNums /\ r[2] \in Slots /\ r = <<r[1], r[2]>>
    BY DEF Rids
  <2>2. CASE r[1] # p
    BY <1>1, <2>1, <2>2 DEF RecordOf, Live, LivePages
  <2>3. CASE r[1] = p /\ r[2] = s
    BY <1>1, <2>1, <2>3 DEF RecordOf, Live, LivePages
  <2>4. CASE r[1] = p /\ r[2] # s
    <3>1. r[2] \in Slots \ {s} /\ r # <<p, s>>
      BY <2>1, <2>4
    <3>2. Live(p, r[2])' <=> r[2] \in q.bitmap
      BY <1>1 DEF Live, LivePages
    <3> QED BY <1>1, <2>4, <3>1, <3>2 DEF RecordOf
  <2> QED BY <2>2, <2>3, <2>4
<1>3. recs = [r \in Rids |-> recs[r]] /\ recs' = [r \in Rids |-> RecordOf(r)']
  BY DEF recs
<1>4. \A r \in Rids : recs[r] = RecordOf(r)
  BY DEF recs
<1>5. recs' = [r \in Rids |-> IF r = <<p, s>> THEN v ELSE recs[r]]
  BY <1>2, <1>3, <1>4
<1>6. [recs EXCEPT ![<<p, s>>] = v] = [r \in Rids |-> IF r = <<p, s>> THEN v ELSE recs[r]]
  BY <1>3
<1> QED BY <1>5, <1>6

(* Calls that read or fail, and whatever leaves the pages alone.           *)
LEMMA NothingRead ==
    ASSUME UNCHANGED <<pages, file>>, IsOpen' <=> IsOpen, rid' = NoRid PROVE Set!Read
<1>1. UNCHANGED recs
  BY DEF recs, RecordOf, Live, LivePages
<1>2. UNCHANGED IsOpen
  BY DEF IsOpen
<1> QED BY <1>1, <1>2 DEF recs, Set!Read

LEMMA ReturnsRead == ASSUME NEW code, Returns(code) PROVE Set!Read
BY NothingRead DEF Returns, Answer, fileVars, IsOpen

LEMMA InsertSet ==
    ASSUME IInv, NEW v \in Vals, InsertRec(v)
    PROVE  Set!Read \/ \E r \in Rids : Set!Insert(r, v)
<1>1. CASE \E code \in ReturnCodes : Returns(code)
  BY <1>1, ReturnsRead
<1>2. CASE ~\E code \in ReturnCodes : Returns(code)
  <2>1. IsOpen /\ (ReuseSlot(v) \/ ExtendFile(v)) /\ UNCHANGED file
    BY <1>2 DEF InsertRec, NotOpen, BufferFails, ReturnCodes
  <2>2. v # NoRecord
    OBVIOUS
  <2>3. ASSUME NEW p \in PageNums, NEW s \in Slots, NEW q, Store(p, q), q # NoPage,
               s \in q.bitmap, q.cell[s] = v, ~Live(p, s), rid' = <<p, s>>, IsOpen',
               \A t \in Slots \ {s} : /\ Live(p, t) <=> t \in q.bitmap
                                      /\ Live(p, t) => q.cell[t] = pages[p].cell[t]
        PROVE  \E r \in Rids : Set!Insert(r, v)
    <3>1. recs' = [recs EXCEPT ![<<p, s>>] = v]
      BY <2>3, RecordChanged
    <3>2. <<p, s>> \in Rids /\ recs[<<p, s>>] = NoRecord
      BY <2>3, RecordThere
    <3> QED BY <2>1, <2>3, <3>1, <3>2 DEF recs, Set!Insert, Set!Put, IsOpen
  <2>4. CASE ReuseSlot(v)
    <3> DEFINE p == handle.firstFreePage
               page == pages[p]
               s == page.firstFreeRecord
               q == Reused(page, v)
    <3>1. p \in LivePages /\ p \in PageNums /\ PageOK(page) /\ Gone(page) # {}
      <4>1. p # kLastFreePage
        BY <2>4 DEF ReuseSlot
      <4> QED BY <2>1, <4>1, FirstFreePage, LivePageOK
    <3>2. Store(p, q) /\ rid' = <<p, s>> /\ IsOpen'
      BY <2>1, <2>4 DEF ReuseSlot, Reused, IsOpen, IInv, RecordFileInv, TypeOK
    <3>3. /\ PageOK(q) /\ s \in Gone(page) /\ q.bitmap = page.bitmap \cup {s}
          /\ q.cell = [page.cell EXCEPT ![s] = v] /\ q.cell[s] = v
      BY <3>1, ReusedPage
    <3> HIDE DEF q, page
    <3>4. s \in Slots /\ s \notin page.bitmap /\ q # NoPage /\ ~Live(p, s)
      BY <3>3, PageFields DEF Gone, PageOK, Live, page
    <3>5. page.cell \in [Slots -> Vals \cup SlotLinks]
      BY <3>1, PageFields DEF PageOK
    <3>6. \A t \in Slots \ {s} : /\ Live(p, t) <=> t \in q.bitmap
                                 /\ Live(p, t) => q.cell[t] = pages[p].cell[t]
      BY <3>1, <3>3, <3>5 DEF Live, page
    <3> HIDE DEF s, p
    <3> QED BY <2>3, <3>1, <3>2, <3>3, <3>4, <3>6
  <2>5. CASE ExtendFile(v)
    <3> DEFINE full == IsFull(pages[LastPage])
               p == IF full THEN LastPage + 1 ELSE LastPage
               page == IF full THEN EmptyPage ELSE pages[p]
               s == page.allocatedRecords
               q == Appended(page, v)
    <3>1. p \in PageNums /\ Store(p, q) /\ rid' = <<p, s>> /\ IsOpen'
      BY <2>1, <2>5 DEF ExtendFile, IsOpen
    <3>2. /\ full => p \notin LivePages /\ page = EmptyPage
          /\ ~full => p \in LivePages /\ page = pages[p]
      <4>1. LastPage \in LivePages /\ LivePages = 1 .. LastPage /\ LastPage \in PageNums
        BY <2>1, LastOfPages DEF IInv, Settled
      <4>2. LastPage \in Nat
        BY <4>1, Numbers
      <4>3. full => p \notin LivePages
        <5> HIDE DEF LivePages
        <5> QED BY <4>1, <4>2
      <4> QED BY <4>1, <4>3
    <3>3. PageOK(page) /\ ~IsFull(page)
      BY <3>2, EmptyPageOK, LivePageOK
    <3> HIDE DEF p, page, full
    <3>4. /\ PageOK(q) /\ s \in Slots /\ s \notin page.bitmap
          /\ q.bitmap = page.bitmap \cup {s}
          /\ q.cell = [page.cell EXCEPT ![s] = v] /\ q.cell[s] = v
      BY <3>3, AppendedPage
    <3> HIDE DEF q, s
    <3>5. page.cell \in [Slots -> Vals \cup SlotLinks] /\ q # NoPage
      BY <3>3, <3>4, PageFields DEF PageOK
    <3>6. \A t \in Slots : Live(p, t) <=> t \in page.bitmap
      BY <3>2 DEF Live, EmptyPage
    <3>7. \A t \in Slots \ {s} : /\ Live(p, t) <=> t \in q.bitmap
                                 /\ Live(p, t) => q.cell[t] = pages[p].cell[t]
      <4>1. \A t \in Slots : Live(p, t) => page = pages[p]
        BY <3>2 DEF Live
      <4> QED BY <3>4, <3>5, <3>6, <4>1
    <3> QED BY <2>3, <3>1, <3>4, <3>5, <3>6, <3>7
  <2> QED BY <2>1, <2>4, <2>5
<1> QED BY <1>1, <1>2

LEMMA DeleteSet ==
    ASSUME IInv, NEW p \in PageNums, NEW s \in Slots, DeleteRec(p, s)
    PROVE  Set!Read \/ Set!Delete(<<p, s>>)
<1>1. CASE \E code \in ReturnCodes : Returns(code)
  BY <1>1, ReturnsRead
<1>2. CASE Answer("RM_RECORD_DELETED") /\ UNCHANGED <<fileVars, handle, scanVars>>
  BY <1>2, NothingRead DEF Answer, fileVars, IsOpen
<1>3. CASE IsOpen /\ Live(p, s) /\ Store(p, Freed(pages[p], s)) /\ Answer("OK") /\ IsOpen'
           /\ UNCHANGED file
  <2> DEFINE q == Freed(pages[p], s)
  <2>1. /\ p \in LivePages /\ s \in pages[p].bitmap /\ PageOK(pages[p])
        /\ handle.firstFreePage \in PageLinks
    BY <1>3, LivePageOK, FirstFreePage DEF Live
  <2>2. /\ PageOK(q) /\ q.bitmap = pages[p].bitmap \ {s} /\ q # NoPage
        /\ \A t \in Slots : t # s => q.cell[t] = pages[p].cell[t]
    BY <2>1, FreedPage DEF PageOK
  <2>3. Store(p, q)
    BY <1>3
  <2> HIDE DEF q
  <2>4. recs' = [recs EXCEPT ![<<p, s>>] = NoRecord]
    BY <2>1, <2>2, <2>3, RecordChanged DEF Live
  <2>5. <<p, s>> \in Rids /\ recs[<<p, s>>] # NoRecord
    BY <1>3, RecordThere
  <2> QED BY <1>3, <2>4, <2>5 DEF recs, Answer, Set!Delete, Set!Put, IsOpen
<1>4. DeleteRec(p, s) =>
        \/ \E code \in ReturnCodes : Returns(code)
        \/ Answer("RM_RECORD_DELETED") /\ UNCHANGED <<fileVars, handle, scanVars>>
        \/ IsOpen /\ Live(p, s) /\ Store(p, Freed(pages[p], s)) /\ Answer("OK") /\ IsOpen'
           /\ UNCHANGED file
  <2>1. handle \in [state : {"new", "open", "closed"}, firstFreePage : PageLinks,
                    isHeaderDirty : BOOLEAN]
    BY DEF IInv, RecordFileInv, TypeOK
  <2> QED BY <2>1 DEF DeleteRec, NotOpen, BufferFails, ReturnCodes, IsOpen
<1> QED BY <1>1, <1>2, <1>3, <1>4

LEMMA UpdateSet ==
    ASSUME IInv, NEW p \in PageNums, NEW s \in Slots, NEW v \in Vals, UpdateRec(p, s, v),
           p \in LivePages => Live(p, s)
    PROVE  Set!Read \/ Set!Update(<<p, s>>, v)
<1>1. CASE \E code \in ReturnCodes : Returns(code)
  BY <1>1, ReturnsRead
<1>2. CASE ~\E code \in ReturnCodes : Returns(code)
  <2> DEFINE q == [pages[p] EXCEPT !.cell[s] = v]
  <2>1. /\ IsOpen /\ p \in LivePages /\ Store(p, q) /\ rid' = NoRid /\ IsOpen'
        /\ UNCHANGED file
    BY <1>2 DEF UpdateRec, NotOpen, BufferFails, ReturnCodes, Answer, IsOpen
  <2>2. s \in pages[p].bitmap /\ PageOK(pages[p])
    BY <2>1, LivePageOK DEF Live
  <2>3. /\ PageOK(q) /\ q.bitmap = pages[p].bitmap /\ q # NoPage
        /\ q.cell = [pages[p].cell EXCEPT ![s] = v] /\ q.cell[s] = v
    BY <2>2, WrittenPage DEF PageOK
  <2> HIDE DEF q
  <2>4. pages[p].cell \in [Slots -> Vals \cup SlotLinks]
    BY <2>2, PageFields DEF PageOK
  <2>5. \A t \in Slots \ {s} : /\ Live(p, t) <=> t \in q.bitmap
                               /\ Live(p, t) => q.cell[t] = pages[p].cell[t]
    BY <2>1, <2>3, <2>4 DEF Live
  <2>6. recs' = [recs EXCEPT ![<<p, s>>] = v]
    <3>1. /\ Store(p, q) /\ q # NoPage
          /\ IF s \in q.bitmap THEN q.cell[s] = v ELSE v = NoRecord
      BY <2>1, <2>2, <2>3
    <3> QED BY <2>5, <3>1, RecordChanged
  <2>7. <<p, s>> \in Rids /\ recs[<<p, s>>] # NoRecord
    BY <2>1, RecordThere
  <2> QED BY <2>1, <2>6, <2>7 DEF recs, Set!Update, Set!Put, IsOpen
<1> QED BY <1>1, <1>2

LEMMA ManagerSet ==
    ASSUME IInv, CreateFile \/ DestroyFile \/ OpenFile \/ Close
    PROVE  Set!Create \/ Set!Destroy \/ Set!Open \/ Set!Close \/ Set!Read
<1>1. CASE \E code \in ReturnCodes : Returns(code)
  BY <1>1, ReturnsRead
<1>2. CASE ~\E code \in ReturnCodes : Returns(code)
  <2>0. LivePages = {} => recs = [r \in Rids |-> NoRecord]
    BY DEF recs, RecordOf, Live
  <2>1. CASE CreateFile
    <3>1. file # "whole" /\ rid' = NoRid /\ UNCHANGED handle /\ LivePages = {}
      <4>1. PICK n \in 0 .. MaxPages : LivePages = 1 .. n /\ n = 0
        BY <2>1 DEF CreateFile, IInv, Settled
      <4>2. 1 .. 0 = {}
        OBVIOUS
      <4> QED BY <2>1, <4>1, <4>2 DEF CreateFile, Answer
    <3>2. CASE file' = "partial" /\ UNCHANGED pages
      <4>1. recs' = recs
        BY <3>2 DEF recs, RecordOf, Live, LivePages
      <4> QED BY <3>1, <3>2, <4>1 DEF recs, IsOpen, Set!Read
    <3>3. CASE /\ file' = "whole"
               /\ pages' = [p \in PageNums |-> IF p = 1 THEN EmptyPage ELSE NoPage]
      <4>1. \A p \in PageNums, s \in Slots : ~Live(p, s)'
        BY <3>3 DEF Live, LivePages, EmptyPage
      <4>2. recs' = [r \in Rids |-> NoRecord]
        BY <4>1 DEF recs, RecordOf, Rids
      <4>3. recs' = recs /\ (file = "whole") = FALSE /\ (file' = "whole") = TRUE
        BY <2>0, <3>1, <3>3, <4>2
      <4>4. UNCHANGED IsOpen
        BY <3>1 DEF IsOpen
      <4> QED BY <3>1, <4>3, <4>4 DEF recs, Set!Create
    <3> QED BY <2>1, <3>2, <3>3 DEF CreateFile
  <2>2. CASE DestroyFile
    <3>1. /\ ~IsOpen /\ file # "absent" /\ file' = "absent" /\ rid' = NoRid
          /\ pages' = [p \in PageNums |-> NoPage] /\ UNCHANGED handle
      BY <1>2, <2>2 DEF DestroyFile, ReturnCodes, Answer
    <3>2. recs' = [r \in Rids |-> NoRecord]
      BY <3>1 DEF recs, RecordOf, Live, LivePages
    <3>3. CASE file = "whole"
      BY <3>1, <3>2, <3>3 DEF recs, IsOpen, Set!Destroy
    <3>4. CASE file # "whole"
      <4>1. PICK n \in 0 .. MaxPages : LivePages = 1 .. n /\ n = 0
        BY <3>4 DEF IInv, Settled
      <4>2. 1 .. 0 = {}
        OBVIOUS
      <4>3. recs' = recs
        BY <2>0, <3>2, <4>1, <4>2
      <4> QED BY <3>1, <3>4, <4>3 DEF recs, IsOpen, Set!Read
    <3> QED BY <3>3, <3>4
  <2>3. CASE OpenFile
    <3>1. /\ ~IsOpen /\ rid' = NoRid /\ UNCHANGED <<file, pages>>
          /\ \/ ~IsOpen'
             \/ file = "whole" /\ IsOpen'
      BY <1>2, <2>3 DEF OpenFile, ReturnCodes, Answer, fileVars, IsOpen, NewHandle
    <3>2. recs' = recs
      BY <3>1 DEF recs, RecordOf, Live, LivePages
    <3>3. CASE ~IsOpen'
      BY <3>1, <3>3, NothingRead
    <3>4. CASE file = "whole" /\ IsOpen'
      BY <3>1, <3>2, <3>4 DEF recs, IsOpen, Set!Open
    <3> QED BY <3>1, <3>3, <3>4
  <2>4. CASE Close
    <3>1. IsOpen /\ rid' = NoRid /\ UNCHANGED <<file, pages>>
      BY <1>2, <2>4 DEF Close, CloseFile, BufferFails, ReturnCodes, Answer
    <3>2. recs' = recs
      BY <3>1 DEF recs, RecordOf, Live, LivePages
    <3>3. CASE IsOpen'
      BY <3>1, <3>3, NothingRead
    <3>4. CASE ~IsOpen'
      BY <3>1, <3>2, <3>4 DEF recs, IsOpen, Set!Close
    <3> QED BY <3>3, <3>4
  <2> QED BY <2>1, <2>2, <2>3, <2>4
<1> QED BY <1>1, <1>2

LEMMA ScanRead == ASSUME ScanNext PROVE Set!Read
<1>1. rid' = NoRid /\ UNCHANGED <<fileVars, handle>>
  BY DEF ScanNext, OpenScan, GetNextRec, BufferFails, MoveTo, CloseScan, Returns, Answer
<1> QED BY <1>1, NothingRead DEF fileVars, IsOpen

LEMMA StepSet == IInv /\ [Next]_vars => [Set!Next]_Set!vars
<1> SUFFICES ASSUME IInv, [Next]_vars PROVE Set!Next \/ UNCHANGED Set!vars
  OBVIOUS
<1>1. CASE UNCHANGED vars
  <2>1. UNCHANGED <<file, pages, handle, rid>>
    BY <1>1 DEF vars, fileVars
  <2>2. UNCHANGED recs
    BY <2>1 DEF recs, RecordOf, Live, LivePages
  <2> QED BY <2>1, <2>2 DEF recs, IsOpen, Set!vars
<1>2. CASE CreateFile \/ DestroyFile \/ OpenFile \/ Close
  BY <1>2, ManagerSet DEF Set!Next
<1>3. ASSUME NEW v \in Vals, InsertRec(v) PROVE Set!Next
  BY <1>3, InsertSet DEF Set!Next
<1>4. ASSUME NEW p \in PageNums, NEW s \in Slots,
             \/ GetRec(p, s) \/ DeleteRec(p, s)
             \/ \E v \in Vals : (p \in LivePages => Live(p, s)) /\ UpdateRec(p, s, v)
      PROVE  Set!Next
  <2>0. <<p, s>> \in Rids
    BY DEF Rids
  <2>1. CASE GetRec(p, s)
    <3>1. \E code \in ReturnCodes : Returns(code)
      BY <2>1 DEF GetRec, NotOpen, BufferFails, ReturnCodes
    <3> QED BY <3>1, ReturnsRead DEF Set!Next
  <2>2. CASE DeleteRec(p, s)
    BY <2>0, <2>2, DeleteSet DEF Set!Next
  <2>3. CASE \E v \in Vals : (p \in LivePages => Live(p, s)) /\ UpdateRec(p, s, v)
    BY <2>0, <2>3, UpdateSet DEF Set!Next
  <2> QED BY <1>4, <2>1, <2>2, <2>3
<1>5. CASE ScanNext
  BY <1>5, ScanRead DEF Set!Next
<1> QED BY <1>1, <1>2, <1>3, <1>4, <1>5 DEF Next, FileNext

(* A record file is a set of records: an insertion lands on no record that *)
(* is there, an update or a deletion touches no other, none is lost when   *)
(* the file is closed, and scanning changes nothing.                       *)
THEOREM ImplementsRecordSet == Spec => RecordSetSpec
<1>1. Init => Set!Init
  <2>1. Init => recs = [r \in Rids |-> NoRecord]
    BY DEF Init, recs, RecordOf, Live, LivePages
  <2>2. Init => ~IsOpen /\ file # "whole" /\ rid = NoRid
    BY DEF Init, IsOpen, NewHandle
  <2> QED BY <2>1, <2>2 DEF recs, Set!Init
<1> QED BY <1>1, StepSet, IInvHolds, PTL DEF Spec, RecordSetSpec, Set!Spec
=============================================================================
