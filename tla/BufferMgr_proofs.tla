-------------------------- MODULE BufferMgr_proofs --------------------------
(***************************************************************************)
(* Theorems about the buffer pool, for any pages, any table size and any   *)
(* number of pins.  IInv is the inductive invariant: to choose and evict a *)
(* slot safely the pool relies on the two lists being a partition of the   *)
(* table and on the hash table naming exactly the slots of the used list.  *)
(* On it rest the two refinements at the end: the pool uses its lists by   *)
(* recency (SlotLists) and is the memory of pages its callers are promised *)
(* (PageStore).                                                            *)
(***************************************************************************)
EXTENDS BufferMgr, Lists_proofs

IInv ==
    /\ TypeOK /\ SlotsListedOnce /\ HashMatchesUsed
    /\ UnmarkedPagesPinned /\ CleanPagesMatchDisk

USE KeysAssumption, ValsAssumption, SizesAssumption

(* The slots the pool works on, as the invariant describes them.           *)
LEMMA Slots ==
    ASSUME IInv
    PROVE  /\ AllSlots \subseteq Nat /\ INVALID_SLOT \notin AllSlots
           /\ InUse \subseteq AllSlots /\ Range(free) \subseteq AllSlots
           /\ \A k \in Keys : Buffered(k) => hash[k] \in AllSlots
<1>1. AllSlots \subseteq Nat /\ INVALID_SLOT \notin AllSlots
  BY DEF AllSlots, INVALID_SLOT
<1>2. InUse \subseteq AllSlots /\ Range(free) \subseteq AllSlots
  BY DEF IInv, TypeOK, InUse, Range
<1> QED BY <1>1, <1>2 DEF IInv, HashMatchesUsed

(* InternalAlloc takes a free slot, or one that holds an unpinned page.    *)
LEMMA ChosenSlot ==
    ASSUME IInv, NEW s \in AllSlots, Chosen(s)
    PROVE  \/ /\ s \in Range(free) /\ s \notin InUse
              /\ Evicted(s) = {}
           \/ /\ free = <<>> /\ s \in InUse /\ pinCount[s] = 0
              /\ Evicted(s) = {key[s]}
              /\ key[s] \in Keys /\ hash[key[s]] = s
<1>1. CASE free # <<>>
  <2>1. s = Head(free) /\ free \in Seq(AllSlots)
    BY <1>1 DEF Chosen, IInv, TypeOK
  <2>2. 1 \in DOMAIN free /\ s = free[1]
    BY <2>1, <1>1
  <2>3. s \in Range(free)
    BY <2>2 DEF Range
  <2> QED BY <2>3, <1>1 DEF IInv, SlotsListedOnce, Evicted
<1>2. CASE free = <<>>
  <2>1. s \in InUse /\ pinCount[s] = 0
    BY <1>2 DEF Chosen, IsVictim, InUse, Range
  <2> QED BY <2>1, <1>2 DEF IInv, HashMatchesUsed, Evicted
<1> QED BY <1>1, <1>2

(* What InternalAlloc writes is buffered, and not pinned.                  *)
LEMMA EvictedPages ==
    ASSUME IInv, NEW s \in AllSlots, Chosen(s)
    PROVE  /\ Evicted(s) \subseteq Keys
           /\ \A k \in Evicted(s) : hash[k] = s /\ Buffered(k) /\ Pins(k) = 0
           /\ WrittenBack(s) \subseteq Evicted(s)
           /\ s \in InUse => Evicted(s) = {key[s]}
           /\ s \in 0 .. numPages - 1
<1>1. s # INVALID_SLOT
  BY Slots
<1>2. s \in 0 .. numPages - 1
  BY ChosenSlot DEF IInv, SlotsListedOnce
<1> QED BY ChosenSlot, <1>1, <1>2 DEF WrittenBack, Buffered, Pins

(* The files after buffered pages have been written.                       *)
LEMMA WrittenFiles ==
    ASSUME IInv, NEW W \in SUBSET Keys, \A k \in W : Buffered(k)
    PROVE  /\ Written(W) \in [Keys -> Vals \cup {NoPage}]
           /\ \A k \in W : Written(W)[k] = data[hash[k]]
           /\ \A k \in Keys \ W : disk[k] # NoPage => Written(W)[k] = disk[k]
<1>1. \A k \in W : data[hash[k]] \in Vals
  BY Slots DEF IInv, TypeOK
<1>2. \A k \in Keys : disk[k] \in Vals \cup {NoPage}
  BY DEF IInv, TypeOK
<1> QED BY <1>1, <1>2 DEF Written

----------------------------------------------------------------------------
(* An empty pool satisfies the invariant.                                  *)
LEMMA InitIInv == Init => IInv
<1> SUFFICES ASSUME Init PROVE IInv
  OBVIOUS
<1> USE DEF Init, EmptyPool
<1>1. used \in Seq(AllSlots) /\ InUse = {} /\ IsInjective(used)
  BY DEF InUse, Range, IsInjective
<1>2. free \in Seq(AllSlots)
  <2>1. free \in [1 .. BufSize -> AllSlots]
    BY DEF AllSlots
  <2> QED BY <2>1, IsASeq
<1>3. IsInjective(free)
  <2>1. \A i, j \in 1 .. BufSize : i - 1 = j - 1 => i = j
    OBVIOUS
  <2> QED BY <2>1 DEF IsInjective
<1>4. Range(free) = 0 .. numPages - 1
  <2>1. ASSUME NEW s \in 0 .. BufSize - 1 PROVE s \in Range(free)
    <3>1. s + 1 \in 1 .. BufSize /\ (s + 1) - 1 = s
      OBVIOUS
    <3> QED BY <3>1 DEF Range
  <2>2. ASSUME NEW s \in Range(free) PROVE s \in 0 .. BufSize - 1
    BY <2>2 DEF Range
  <2> QED BY <2>1, <2>2
<1>5. SlotsListedOnce
  BY <1>1, <1>3, <1>4 DEF SlotsListedOnce
<1>6. /\ TypeOK /\ HashMatchesUsed /\ UnmarkedPagesPinned /\ CleanPagesMatchDisk
  BY <1>1, <1>2 DEF TypeOK, HashMatchesUsed, UnmarkedPagesPinned, CleanPagesMatchDisk,
                    Buffered, ReturnCodes, INVALID_SLOT
<1> QED BY <1>5, <1>6 DEF IInv

(* A call that fails before it changes anything.                           *)
LEMMA FailsIInv == ASSUME IInv, NEW code \in ReturnCodes, Fails(code) PROVE IInv'
BY DEF IInv, Fails, lists, descs, TypeOK, SlotsListedOnce, HashMatchesUsed,
       UnmarkedPagesPinned, CleanPagesMatchDisk, InUse, Buffered, Pins, IsDirty

(* Moving a used slot to the head of the used list keeps the lists right.  *)
LEMMA HeadOfUsed ==
    ASSUME IInv, NEW s \in InUse,
           used' = MoveToHead(used, s) \/ used' = used,
           free' = free, numPages' = numPages
    PROVE  used' \in Seq(AllSlots) /\ InUse' = InUse /\ SlotsListedOnce'
<1>1. s \in AllSlots /\ used \in Seq(AllSlots) /\ IsInjective(used)
  BY Slots DEF IInv, TypeOK, SlotsListedOnce
<1>2. /\ MoveToHead(used, s) \in Seq(AllSlots) /\ IsInjective(MoveToHead(used, s))
      /\ Range(MoveToHead(used, s)) = Range(used) \cup {s}
  BY <1>1, MoveToHeadProperties
<1>3. used' \in Seq(AllSlots) /\ IsInjective(used') /\ InUse' = InUse
  BY <1>1, <1>2 DEF InUse
<1> QED BY <1>3 DEF IInv, SlotsListedOnce, InUse

(* The pool after InternalAlloc and InitPageDesc.                          *)
LEMMA InstallIInv ==
    ASSUME IInv, NEW k \in Keys, ~Buffered(k), NEW s \in AllSlots, Chosen(s),
           NEW v \in Vals, Install(k, s, v),
           \/ unmarked' = unmarked \cup {k}
           \/ unmarked' = unmarked /\ v = Written(WrittenBack(s))[k]
    PROVE  IInv'
<1>1. /\ used \in Seq(AllSlots) /\ IsInjective(used)
      /\ free \in Seq(AllSlots) /\ IsInjective(free)
      /\ InUse \cap Range(free) = {} /\ InUse \cup Range(free) = 0 .. numPages - 1
      /\ s \in 0 .. numPages - 1
  BY EvictedPages DEF IInv, TypeOK, SlotsListedOnce
<1>2. /\ used' \in Seq(AllSlots) /\ IsInjective(used') /\ InUse' = InUse \cup {s}
  <2>1. /\ MoveToHead(used, s) \in Seq(AllSlots) /\ IsInjective(MoveToHead(used, s))
        /\ Range(MoveToHead(used, s)) = Range(used) \cup {s}
    BY <1>1, MoveToHeadProperties
  <2> QED BY <2>1 DEF Install, InUse
<1>3. /\ free' \in Seq(AllSlots) /\ IsInjective(free') /\ Range(free') = Range(free) \ {s}
  <2>1. /\ Unlink(free, s) \in Seq(AllSlots) /\ IsInjective(Unlink(free, s))
        /\ Range(Unlink(free, s)) = Range(free) \ {s}
    BY <1>1, UnlinkProperties
  <2> QED BY <2>1 DEF Install
<1>4. SlotsListedOnce'
  BY <1>1, <1>2, <1>3 DEF SlotsListedOnce, Install
<1>5. /\ Evicted(s) \subseteq Keys /\ WrittenBack(s) \subseteq Evicted(s)
      /\ \A j \in Evicted(s) : hash[j] = s /\ Buffered(j) /\ Pins(j) = 0
      /\ s \in InUse => Evicted(s) = {key[s]}
  BY EvictedPages
<1>6. /\ disk' \in [Keys -> Vals \cup {NoPage}]
      /\ \A j \in Keys \ Evicted(s) : disk[j] # NoPage => disk'[j] = disk[j]
      /\ disk' = Written(WrittenBack(s))
  <2>1. WrittenBack(s) \in SUBSET Keys /\ \A j \in WrittenBack(s) : Buffered(j)
    BY <1>5
  <2>2. /\ Written(WrittenBack(s)) \in [Keys -> Vals \cup {NoPage}]
        /\ \A j \in Keys \ WrittenBack(s) :
             disk[j] # NoPage => Written(WrittenBack(s))[j] = disk[j]
    BY <2>1, WrittenFiles
  <2> QED BY <2>2, <1>5 DEF Install
<1>7. TypeOK'
  <2>1. 1 \in 0 .. MaxPins
    OBVIOUS
  <2> QED BY <1>2, <1>3, <1>6, <2>1 DEF IInv, TypeOK, Install, ReturnCodes
(* Which pages are where: k in s, the evicted page gone, the others kept.  *)
<1>8. s # INVALID_SLOT /\ k \notin Evicted(s)
  BY Slots, <1>5
<1>9. ASSUME NEW j \in Keys, j # k
      PROVE  /\ j \in Evicted(s) => ~Buffered(j)'
             /\ j \notin Evicted(s) /\ Buffered(j)
                  => hash'[j] = hash[j] /\ hash[j] # s /\ hash[j] \in InUse
             /\ ~Buffered(j) => ~Buffered(j)'
  <2>1. j \notin Evicted(s) /\ Buffered(j) => hash[j] # s /\ hash[j] \in InUse
    BY <1>5 DEF IInv, HashMatchesUsed
  <2> QED BY <2>1, <1>9 DEF Install, Buffered
<1>10. hash'[k] = s /\ key'[s] = k /\ pinCount'[s] = 1 /\ data'[s] = v /\ dirty'[s] = FALSE
  BY DEF Install, IInv, TypeOK
<1>11. ASSUME NEW t \in AllSlots, t # s
       PROVE  /\ key'[t] = key[t] /\ pinCount'[t] = pinCount[t]
              /\ data'[t] = data[t] /\ dirty'[t] = dirty[t]
  BY <1>11 DEF Install, IInv, TypeOK
<1>12. HashMatchesUsed'
  <2>1. ASSUME NEW j \in Keys, Buffered(j)'
        PROVE  hash'[j] \in InUse' /\ key'[hash'[j]] = j
    <3>1. CASE j = k
      BY <3>1, <1>10, <1>2
    <3>2. CASE j # k
      <4>1. Buffered(j) /\ hash'[j] = hash[j] /\ hash[j] # s /\ hash[j] \in InUse
        BY <2>1, <3>2, <1>9
      <4>2. hash[j] \in AllSlots /\ key[hash[j]] = j
        BY <4>1, Slots DEF IInv, HashMatchesUsed
      <4> QED BY <4>1, <4>2, <1>11, <1>2
    <3> QED BY <3>1, <3>2
  <2>2. ASSUME NEW t \in InUse'
        PROVE  key'[t] \in Keys /\ hash'[key'[t]] = t
    <3>1. CASE t = s
      BY <3>1, <1>10
    <3>2. CASE t # s
      <4>1. t \in InUse /\ t \in AllSlots
        BY <3>2, <2>2, <1>2, Slots
      <4>2. key'[t] = key[t] /\ key[t] \in Keys /\ hash[key[t]] = t
        BY <4>1, <3>2, <1>11 DEF IInv, HashMatchesUsed
      <4>3. t # INVALID_SLOT /\ Buffered(key[t])
        BY <4>1, <4>2, Slots DEF Buffered
      <4>4. key[t] # k /\ key[t] \notin Evicted(s)
        BY <4>2, <4>3, <3>2, <1>5
      <4> QED BY <4>2, <4>3, <4>4, <1>9
    <3> QED BY <3>1, <3>2
  <2> QED BY <2>1, <2>2 DEF HashMatchesUsed, Buffered
<1>13. UnmarkedPagesPinned'
  <2> SUFFICES ASSUME NEW j \in unmarked' PROVE (Pins(j) > 0)'
    BY DEF UnmarkedPagesPinned
  <2>1. CASE j = k
    BY <2>1, <1>10, <1>8 DEF Pins, Buffered
  <2>2. CASE j # k
    <3>1. j \in unmarked /\ j \in Keys /\ Pins(j) > 0
      BY <2>2 DEF IInv, TypeOK, UnmarkedPagesPinned
    <3>2. Buffered(j) /\ j \notin Evicted(s)
      BY <3>1, <1>5 DEF Pins
    <3>3. hash'[j] = hash[j] /\ hash[j] # s /\ hash[j] \in AllSlots
      BY <3>1, <3>2, <2>2, <1>9, Slots
    <3> QED BY <3>1, <3>2, <3>3, <1>11 DEF Pins, Buffered
  <2> QED BY <2>1, <2>2
<1>14. CleanPagesMatchDisk'
  <2> SUFFICES ASSUME NEW j \in Keys, Buffered(j)', ~IsDirty(j)', j \notin unmarked'
               PROVE  disk'[j] = data'[hash'[j]]
    BY DEF CleanPagesMatchDisk
  <2>1. CASE j = k
    BY <2>1, <1>10, <1>6
  <2>2. CASE j # k
    <3>1. /\ Buffered(j) /\ j \notin Evicted(s)
          /\ hash'[j] = hash[j] /\ hash[j] # s /\ hash[j] \in AllSlots
      BY <2>2, <1>9, Slots
    <3>2. ~IsDirty(j) /\ j \notin unmarked
      BY <3>1, <1>11 DEF IsDirty, Buffered
    <3>3. disk[j] = data[hash[j]] /\ data[hash[j]] \in Vals
      BY <3>1, <3>2 DEF IInv, CleanPagesMatchDisk, TypeOK
    <3> QED BY <3>1, <3>3, <1>6, <1>11
  <2> QED BY <2>1, <2>2
<1> QED BY <1>4, <1>7, <1>12, <1>13, <1>14 DEF IInv

(* The pool after the slots in S, none of them pinned, went from the used  *)
(* list to the free list, and perhaps to disk.                             *)
LEMMA DropIInv ==
    ASSUME IInv, NEW S \in SUBSET InUse, \A s \in S : pinCount[s] = 0,
           used' \in Seq(AllSlots), IsInjective(used'), InUse' = InUse \ S,
           free' \in Seq(AllSlots), IsInjective(free'), Range(free') = Range(free) \cup S,
           hash' = [k \in Keys |-> IF hash[k] \in S THEN INVALID_SLOT ELSE hash[k]],
           dirty' \in [AllSlots -> BOOLEAN], \A t \in InUse' : dirty'[t] = dirty[t],
           disk' \in [Keys -> Vals \cup {NoPage}],
           \A k \in Keys : disk[k] # NoPage /\ hash[k] \notin S => disk'[k] = disk[k],
           rc' \in ReturnCodes, UNCHANGED <<numPages, key, pinCount, data, unmarked>>
    PROVE  IInv'
<1>1. SlotsListedOnce'
  BY DEF IInv, SlotsListedOnce
<1>2. TypeOK'
  BY DEF IInv, TypeOK
<1>3. ASSUME NEW k \in Keys, Buffered(k)'
      PROVE  /\ hash[k] \notin S /\ hash'[k] = hash[k] /\ Buffered(k)
             /\ hash[k] \in InUse' /\ hash[k] \in AllSlots /\ key[hash[k]] = k
  <2>1. hash[k] \notin S /\ hash'[k] = hash[k] /\ Buffered(k)
    BY <1>3 DEF Buffered
  <2> QED BY <2>1, Slots DEF IInv, HashMatchesUsed
<1>4. HashMatchesUsed'
  <2>1. ASSUME NEW t \in InUse' PROVE key[t] \in Keys /\ hash'[key[t]] = t
    <3>1. t \in InUse /\ t \notin S /\ key[t] \in Keys /\ hash[key[t]] = t
      BY <2>1 DEF IInv, HashMatchesUsed
    <3> QED BY <3>1
  <2> QED BY <2>1, <1>3 DEF HashMatchesUsed
<1>5. UnmarkedPagesPinned'
  <2> SUFFICES ASSUME NEW k \in unmarked PROVE (Pins(k) > 0)'
    BY DEF UnmarkedPagesPinned
  <2>1. k \in Keys /\ Pins(k) > 0 /\ Buffered(k) /\ pinCount[hash[k]] > 0
    BY DEF IInv, TypeOK, UnmarkedPagesPinned, Pins
  <2>2. hash[k] \notin S /\ hash'[k] = hash[k]
    BY <2>1
  <2> QED BY <2>1, <2>2 DEF Pins, Buffered
<1>6. CleanPagesMatchDisk'
  <2> SUFFICES ASSUME NEW k \in Keys, Buffered(k)', ~IsDirty(k)', k \notin unmarked
               PROVE  disk'[k] = data[hash'[k]]
    BY DEF CleanPagesMatchDisk
  <2>1. ~IsDirty(k) /\ hash[k] \notin S /\ hash'[k] = hash[k] /\ Buffered(k)
    BY <1>3 DEF IsDirty
  <2>2. disk[k] = data[hash[k]] /\ data[hash[k]] \in Vals
    BY <2>1, <1>3 DEF IInv, CleanPagesMatchDisk, TypeOK
  <2> QED BY <2>1, <2>2
<1> QED BY <1>1, <1>2, <1>4, <1>5, <1>6 DEF IInv

(* A miss whose read fails after the eviction.                             *)
LEMMA GiveBackIInv ==
    ASSUME IInv, NEW s \in AllSlots, Chosen(s), NEW code \in ReturnCodes, GiveBack(s, code)
    PROVE  IInv'
<1> DEFINE S == IF free = <<>> THEN {s} ELSE {}
<1>1. /\ used \in Seq(AllSlots) /\ IsInjective(used)
      /\ free \in Seq(AllSlots) /\ IsInjective(free)
  BY DEF IInv, TypeOK, SlotsListedOnce
<1>2. /\ S \in SUBSET InUse /\ \A t \in S : pinCount[t] = 0
      /\ InUse \ {s} = InUse \ S /\ Range(free) \cup {s} = Range(free) \cup S
  <2>1. CASE s \in Range(free) /\ s \notin InUse
    <3>1. free # <<>>
      BY <2>1 DEF Range
    <3> QED BY <2>1, <3>1
  <2>2. CASE free = <<>> /\ s \in InUse /\ pinCount[s] = 0
    BY <2>2
  <2> QED BY <2>1, <2>2, ChosenSlot
<1>3. /\ Unlink(used, s) \in Seq(AllSlots) /\ IsInjective(Unlink(used, s))
      /\ Range(Unlink(used, s)) = Range(used) \ {s}
  BY <1>1, UnlinkProperties
<1>4. /\ MoveToHead(free, s) \in Seq(AllSlots) /\ IsInjective(MoveToHead(free, s))
      /\ Range(MoveToHead(free, s)) = Range(free) \cup {s}
  BY <1>1, MoveToHeadProperties
<1>5. /\ used' \in Seq(AllSlots) /\ IsInjective(used') /\ InUse' = InUse \ S
      /\ free' \in Seq(AllSlots) /\ IsInjective(free') /\ Range(free') = Range(free) \cup S
  BY <1>2, <1>3, <1>4 DEF GiveBack, InUse
<1>6. \A j \in Keys : j \in Evicted(s) <=> hash[j] \in S
  <2>1. CASE s \in Range(free) /\ Evicted(s) = {}
    <3>1. free # <<>>
      BY <2>1 DEF Range
    <3> QED BY <2>1, <3>1
  <2>2. CASE free = <<>> /\ Evicted(s) = {key[s]} /\ hash[key[s]] = s
    <3>1. \A j \in Keys : hash[j] = s => key[s] = j
      BY Slots DEF IInv, HashMatchesUsed, Buffered
    <3> QED BY <2>2, <3>1
  <2> QED BY <2>1, <2>2, ChosenSlot
<1>7. hash' = [k \in Keys |-> IF hash[k] \in S THEN INVALID_SLOT ELSE hash[k]]
  BY <1>6 DEF GiveBack
<1>8. dirty' \in [AllSlots -> BOOLEAN] /\ \A t \in InUse' : dirty'[t] = dirty[t]
  <2>1. InUse' \subseteq AllSlots /\ s \notin InUse'
    BY <1>5, <1>2, Slots
  <2> QED BY <2>1 DEF GiveBack, IInv, TypeOK
<1>9. /\ disk' \in [Keys -> Vals \cup {NoPage}]
      /\ \A k \in Keys : disk[k] # NoPage /\ hash[k] \notin S => disk'[k] = disk[k]
  <2>1. WrittenBack(s) \in SUBSET Keys /\ \A j \in WrittenBack(s) : Buffered(j)
    BY EvictedPages
  <2>2. /\ Written(WrittenBack(s)) \in [Keys -> Vals \cup {NoPage}]
        /\ \A j \in Keys \ WrittenBack(s) :
             disk[j] # NoPage => Written(WrittenBack(s))[j] = disk[j]
    BY <2>1, WrittenFiles
  <2>3. \A k \in Keys : hash[k] \notin S => k \notin WrittenBack(s)
    BY <1>6 DEF WrittenBack
  <2> QED BY <2>2, <2>3 DEF GiveBack
<1> HIDE DEF S
<1> QED BY <1>2, <1>5, <1>7, <1>8, <1>9, DropIInv DEF GiveBack

(* The lists and the hash table after Release.                             *)
LEMMA ReleasedLists ==
    ASSUME IInv, NEW S \in SUBSET InUse, Release(S)
    PROVE  /\ used' \in Seq(AllSlots) /\ IsInjective(used') /\ InUse' = InUse \ S
           /\ free' \in Seq(AllSlots) /\ IsInjective(free')
           /\ Range(free') = Range(free) \cup S
<1> DEFINE q == Kept(used, S)
           r == ReverseOf(q)
<1>1. /\ used \in Seq(AllSlots) /\ IsInjective(used)
      /\ free \in Seq(AllSlots) /\ IsInjective(free) /\ InUse \cap Range(free) = {}
  BY DEF IInv, TypeOK, SlotsListedOnce
<1>2. used' \in Seq(AllSlots) /\ IsInjective(used') /\ InUse' = InUse \ S
  <2> DEFINE U == InUse \ S
  <2>1. U \subseteq Range(used)
    BY DEF InUse
  <2> HIDE DEF U
  <2>2. /\ Kept(used, U) \in Seq(AllSlots) /\ IsInjective(Kept(used, U))
        /\ Range(Kept(used, U)) = Range(used) \cap U
    BY <1>1, KeptProperties
  <2> QED BY <2>1, <2>2 DEF Release, InUse, U
<1>3. q \in Seq(AllSlots) /\ IsInjective(q) /\ Range(q) = S
  <2>1. /\ Kept(used, S) \in Seq(AllSlots) /\ IsInjective(Kept(used, S))
        /\ Range(Kept(used, S)) = Range(used) \cap S
    BY <1>1, KeptProperties
  <2> QED BY <2>1 DEF InUse
<1> HIDE DEF q
<1>4. r \in Seq(AllSlots) /\ IsInjective(r) /\ Range(r) = S
  BY <1>3, ReverseProperties
<1> HIDE DEF r
<1>5. Range(r) \cap Range(free) = {}
  BY <1>1, <1>4
<1>6. /\ r \o free \in Seq(AllSlots) /\ IsInjective(r \o free)
      /\ Range(r \o free) = Range(r) \cup Range(free)
  BY <1>1, <1>4, <1>5, JoinProperties
<1>7. free' = r \o free
  BY DEF Release, q, r
<1> QED BY <1>2, <1>4, <1>6, <1>7

(* Pages of used slots, which FlushPages and ForcePages write.             *)
LEMMA DirtyFiles ==
    ASSUME IInv, NEW S \in SUBSET InUse
    PROVE  /\ Written(DirtyPages(S)) \in [Keys -> Vals \cup {NoPage}]
           /\ \A k \in DirtyPages(S) :
                /\ Written(DirtyPages(S))[k] = data[hash[k]]
                /\ k \in Keys /\ hash[k] \in S
           /\ \A k \in Keys \ DirtyPages(S) :
                disk[k] # NoPage => Written(DirtyPages(S))[k] = disk[k]
<1>1. ASSUME NEW k \in DirtyPages(S)
      PROVE  k \in Keys /\ hash[k] \in S /\ Buffered(k)
  <2>1. PICK s \in S : k = key[s]
    BY DEF DirtyPages
  <2>2. s \in InUse /\ s \in AllSlots /\ s # INVALID_SLOT
    BY Slots
  <2> QED BY <2>1, <2>2 DEF IInv, HashMatchesUsed, Buffered
<1>2. DirtyPages(S) \in SUBSET Keys /\ \A k \in DirtyPages(S) : Buffered(k)
  BY <1>1
<1> HIDE DEF DirtyPages
<1> QED BY <1>1, <1>2, WrittenFiles

LEMMA FlushUpToIInv ==
    ASSUME IInv, NEW f, NEW n \in Nat, n <= Len(used),
           NEW code \in ReturnCodes, FlushUpTo(f, n, code)
    PROVE  IInv'
<1> DEFINE S == Flushable(f, n)
<1>1. S \in SUBSET InUse /\ \A s \in S : pinCount[s] = 0
  <2>1. used \in Seq(AllSlots)
    BY DEF IInv, TypeOK
  <2>2. \A j \in 1 .. n : j \in DOMAIN used
    BY <2>1
  <2> QED BY <2>2 DEF Flushable, InUse, Range
<1> HIDE DEF S
<1>2. Release(S) /\ disk' = Written(DirtyPages(S))
  BY DEF FlushUpTo, S
<1>3. /\ used' \in Seq(AllSlots) /\ IsInjective(used') /\ InUse' = InUse \ S
      /\ free' \in Seq(AllSlots) /\ IsInjective(free') /\ Range(free') = Range(free) \cup S
  BY <1>1, <1>2, ReleasedLists
<1>4. /\ disk' \in [Keys -> Vals \cup {NoPage}]
      /\ \A k \in Keys : disk[k] # NoPage /\ hash[k] \notin S => disk'[k] = disk[k]
  BY <1>1, <1>2, DirtyFiles
<1>5. dirty' \in [AllSlots -> BOOLEAN] /\ \A t \in InUse' : dirty'[t] = dirty[t]
  <2>1. InUse' \subseteq AllSlots
    BY <1>3, Slots
  <2> QED BY <2>1, <1>3 DEF FlushUpTo, S, IInv, TypeOK
<1>6. hash' = [k \in Keys |-> IF hash[k] \in S THEN INVALID_SLOT ELSE hash[k]]
  BY <1>2 DEF Release
<1> QED BY <1>1, <1>3, <1>4, <1>5, <1>6, DropIInv DEF FlushUpTo

LEMMA FlushPagesIInv == ASSUME IInv, NEW f, FlushPages(f) PROVE IInv'
<1>0. used \in Seq(AllSlots) /\ Len(used) \in Nat
  BY DEF IInv, TypeOK
<1>1. {"OK", "PF_PAGEPINNED", "PF_UNIX"} \subseteq ReturnCodes
  BY DEF ReturnCodes
<1>2. PICK n \in Nat, code \in ReturnCodes : n <= Len(used) /\ FlushUpTo(f, n, code)
  <2>1. CASE \E n \in DOMAIN used : FlushUpTo(f, n - 1, "PF_UNIX")
    <3>1. PICK n \in DOMAIN used : FlushUpTo(f, n - 1, "PF_UNIX")
      BY <2>1
    <3>2. n - 1 \in Nat /\ n - 1 <= Len(used)
      BY <1>0
    <3> QED BY <3>1, <3>2, <1>1
  <2>2. CASE \E code \in {"OK", "PF_PAGEPINNED"} : FlushUpTo(f, Len(used), code)
    BY <2>2, <1>0, <1>1
  <2>3. \/ \E code \in {"OK", "PF_PAGEPINNED"} : FlushUpTo(f, Len(used), code)
        \/ \E n \in DOMAIN used : FlushUpTo(f, n - 1, "PF_UNIX")
    BY DEF FlushPages
  <2> QED BY <2>1, <2>2, <2>3
<1> QED BY <1>2, FlushUpToIInv

LEMMA ClearBufferIInv == ASSUME IInv, ClearBuffer PROVE IInv'
<1> DEFINE S == {s \in InUse : pinCount[s] = 0}
<1>1. S \in SUBSET InUse /\ \A s \in S : pinCount[s] = 0
  OBVIOUS
<1>2. Release(S)
  BY DEF ClearBuffer
<1> HIDE DEF S
<1>3. /\ used' \in Seq(AllSlots) /\ IsInjective(used') /\ InUse' = InUse \ S
      /\ free' \in Seq(AllSlots) /\ IsInjective(free') /\ Range(free') = Range(free) \cup S
  BY <1>1, <1>2, ReleasedLists
<1>4. hash' = [k \in Keys |-> IF hash[k] \in S THEN INVALID_SLOT ELSE hash[k]]
  BY <1>2 DEF Release
<1>5. /\ UNCHANGED <<numPages, key, pinCount, data, unmarked>>
      /\ rc' \in ReturnCodes /\ dirty' = dirty /\ disk' = disk
      /\ dirty \in [AllSlots -> BOOLEAN] /\ disk \in [Keys -> Vals \cup {NoPage}]
  BY DEF ClearBuffer, descs, ReturnCodes, IInv, TypeOK
<1> QED BY <1>1, <1>3, <1>4, <1>5, DropIInv

LEMMA ForceUpToIInv ==
    ASSUME IInv, NEW P, NEW n \in Nat, n <= Len(used),
           NEW code \in ReturnCodes, ForceUpTo(P, n, code)
    PROVE  IInv'
<1> DEFINE S == {used[i] : i \in {j \in 1 .. n : key[used[j]] \in P}}
<1>1. S \in SUBSET InUse
  <2>1. used \in Seq(AllSlots)
    BY DEF IInv, TypeOK
  <2>2. \A j \in 1 .. n : j \in DOMAIN used
    BY <2>1
  <2> QED BY <2>2 DEF InUse, Range
<1>2. /\ disk' = Written(DirtyPages(S))
      /\ dirty' = [s \in AllSlots |-> dirty[s] /\ s \notin S]
      /\ rc' = code
      /\ UNCHANGED <<numPages, used, free, hash, key, pinCount, data, unmarked>>
  BY DEF ForceUpTo, lists
<1> HIDE DEF S
<1>3. /\ disk' \in [Keys -> Vals \cup {NoPage}]
      /\ \A k \in DirtyPages(S) : disk'[k] = data[hash[k]]
      /\ \A k \in Keys \ DirtyPages(S) : disk[k] # NoPage => disk'[k] = disk[k]
  BY <1>1, <1>2, DirtyFiles
<1>4. TypeOK' /\ SlotsListedOnce' /\ HashMatchesUsed' /\ UnmarkedPagesPinned'
  BY <1>2, <1>3 DEF IInv, TypeOK, SlotsListedOnce, HashMatchesUsed, UnmarkedPagesPinned,
                    InUse, Buffered, Pins
<1>5. CleanPagesMatchDisk'
  <2> SUFFICES ASSUME NEW k \in Keys, Buffered(k), ~dirty'[hash[k]], k \notin unmarked
               PROVE  disk'[k] = data[hash[k]]
    BY <1>2 DEF CleanPagesMatchDisk, Buffered, IsDirty
  <2>1. hash[k] \in InUse /\ hash[k] \in AllSlots /\ key[hash[k]] = k
    BY Slots DEF IInv, HashMatchesUsed
  <2>2. CASE k \in DirtyPages(S)
    BY <2>2, <1>3
  <2>3. CASE k \notin DirtyPages(S)
    <3>1. ~(dirty[hash[k]] /\ hash[k] \in S)
      BY <2>1, <2>3 DEF DirtyPages
    <3>2. ~IsDirty(k)
      BY <3>1, <2>1, <1>2 DEF IsDirty
    <3>3. disk[k] = data[hash[k]] /\ data[hash[k]] \in Vals
      BY <3>2, <2>1 DEF IInv, CleanPagesMatchDisk, TypeOK
    <3> QED BY <3>3, <2>3, <1>3
  <2> QED BY <2>2, <2>3
<1> QED BY <1>4, <1>5 DEF IInv

LEMMA ForcePagesIInv == ASSUME IInv, NEW P, ForcePages(P) PROVE IInv'
<1>0. used \in Seq(AllSlots) /\ Len(used) \in Nat
  BY DEF IInv, TypeOK
<1>1. {"OK", "PF_UNIX"} \subseteq ReturnCodes
  BY DEF ReturnCodes
<1>2. PICK n \in Nat, code \in ReturnCodes : n <= Len(used) /\ ForceUpTo(P, n, code)
  <2>1. CASE \E n \in DOMAIN used : ForceUpTo(P, n - 1, "PF_UNIX")
    <3>1. PICK n \in DOMAIN used : ForceUpTo(P, n - 1, "PF_UNIX")
      BY <2>1
    <3>2. n - 1 \in Nat /\ n - 1 <= Len(used)
      BY <1>0
    <3> QED BY <3>1, <3>2, <1>1
  <2>2. CASE ForceUpTo(P, Len(used), "OK")
    BY <2>2, <1>0, <1>1
  <2> QED BY <2>1, <2>2 DEF ForcePages
<1> QED BY <1>2, ForceUpToIInv

(* Calls that leave every page in its slot, and may move it to the head of *)
(* the used list: GetPage of a buffered page, MarkDirty, UnpinPage and the *)
(* client's writes.                                                        *)
LEMMA InPlaceIInv ==
    ASSUME IInv, NEW k \in Keys, Buffered(k),
           used' = MoveToHead(used, hash[k]) \/ used' = used,
           UNCHANGED <<numPages, free, hash, key, disk>>,
           pinCount' \in [AllSlots -> 0 .. MaxPins], dirty' \in [AllSlots -> BOOLEAN],
           data' \in [AllSlots -> Vals], unmarked' \in SUBSET Keys, rc' \in ReturnCodes,
           \A s \in AllSlots : s # hash[k] => UNCHANGED <<pinCount[s], dirty[s], data[s]>>,
           \A j \in Keys : j # k => (j \in unmarked' <=> j \in unmarked),
           k \in unmarked' => pinCount'[hash[k]] > 0,
           \/ dirty'[hash[k]] \/ k \in unmarked'
           \/ UNCHANGED <<dirty[hash[k]], data[hash[k]], unmarked>>
    PROVE  IInv'
<1>1. hash[k] \in InUse /\ hash[k] \in AllSlots /\ key[hash[k]] = k
  BY Slots DEF IInv, HashMatchesUsed
<1>2. used' \in Seq(AllSlots) /\ InUse' = InUse /\ SlotsListedOnce'
  BY <1>1, HeadOfUsed
<1>3. TypeOK' /\ HashMatchesUsed'
  BY <1>2 DEF IInv, TypeOK, HashMatchesUsed, Buffered
<1>4. ASSUME NEW j \in Keys, j # k, Buffered(j)
      PROVE  hash[j] \in AllSlots /\ hash[j] # hash[k]
  BY <1>4, <1>1, Slots DEF IInv, HashMatchesUsed
<1>5. UnmarkedPagesPinned'
  <2> SUFFICES ASSUME NEW j \in unmarked' PROVE (Pins(j) > 0)'
    BY DEF UnmarkedPagesPinned
  <2>1. CASE j = k
    BY <2>1 DEF Pins, Buffered
  <2>2. CASE j # k
    <3>1. j \in Keys /\ j \in unmarked /\ Pins(j) > 0 /\ Buffered(j)
      BY <2>2 DEF IInv, UnmarkedPagesPinned, Pins
    <3> QED BY <3>1, <2>2, <1>4 DEF Pins, Buffered
  <2> QED BY <2>1, <2>2
<1>6. CleanPagesMatchDisk'
  <2> SUFFICES ASSUME NEW j \in Keys, Buffered(j), ~dirty'[hash[j]], j \notin unmarked'
               PROVE  disk[j] = data'[hash[j]]
    BY DEF CleanPagesMatchDisk, Buffered, IsDirty
  <2>1. ~dirty[hash[j]] /\ j \notin unmarked /\ data'[hash[j]] = data[hash[j]]
    BY <1>4
  <2> QED BY <2>1 DEF IInv, CleanPagesMatchDisk, IsDirty
<1> QED BY <1>2, <1>3, <1>5, <1>6 DEF IInv

LEMMA GetPageHitIInv ==
    ASSUME IInv, NEW k \in Keys, NEW b \in BOOLEAN, GetPageHit(k, b) PROVE IInv'
<1>0. "PF_PAGEPINNED" \in ReturnCodes /\ "OK" \in ReturnCodes /\ Buffered(k)
  BY DEF ReturnCodes, GetPageHit
<1>1. CASE Fails("PF_PAGEPINNED")
  BY <1>0, <1>1, FailsIInv
<1>2. CASE ~Fails("PF_PAGEPINNED")
  <2>1. /\ Pins(k) < MaxPins /\ rc' = "OK"
        /\ pinCount' = [pinCount EXCEPT ![hash[k]] = @ + 1]
        /\ used' = MoveToHead(used, hash[k])
        /\ UNCHANGED <<numPages, free, hash, key, dirty, data, disk, unmarked>>
    BY <1>2 DEF GetPageHit
  <2>2. /\ hash[k] \in AllSlots /\ pinCount[hash[k]] < MaxPins
        /\ pinCount \in [AllSlots -> 0 .. MaxPins] /\ dirty \in [AllSlots -> BOOLEAN]
        /\ data \in [AllSlots -> Vals] /\ unmarked \in SUBSET Keys
    BY <2>1, <1>0, Slots DEF Pins, IInv, TypeOK
  <2>3. /\ pinCount' \in [AllSlots -> 0 .. MaxPins] /\ pinCount'[hash[k]] > 0
        /\ \A s \in AllSlots : s # hash[k] => pinCount'[s] = pinCount[s]
    BY <2>1, <2>2
  <2> QED BY <1>0, <2>1, <2>2, <2>3, InPlaceIInv
<1> QED BY <1>1, <1>2

LEMMA WriteDataIInv ==
    ASSUME IInv, NEW k \in Keys, NEW v \in Vals, WriteData(k, v) PROVE IInv'
<1>1. /\ Buffered(k) /\ pinCount[hash[k]] > 0
      /\ data' = [data EXCEPT ![hash[k]] = v]
      /\ unmarked' = unmarked \cup {k}
      /\ UNCHANGED <<numPages, used, free, hash, key, dirty, pinCount, disk, rc>>
  BY DEF WriteData, Pins, lists, descs
<1>2. /\ hash[k] \in AllSlots
      /\ pinCount \in [AllSlots -> 0 .. MaxPins] /\ dirty \in [AllSlots -> BOOLEAN]
      /\ data \in [AllSlots -> Vals] /\ unmarked \in SUBSET Keys /\ rc \in ReturnCodes
  BY <1>1, Slots DEF IInv, TypeOK
<1>3. /\ data' \in [AllSlots -> Vals]
      /\ \A s \in AllSlots : s # hash[k] => data'[s] = data[s]
  BY <1>1, <1>2
<1> QED BY <1>1, <1>2, <1>3, InPlaceIInv

LEMMA MarkDirtyIInv == ASSUME IInv, NEW k \in Keys, MarkDirty(k) PROVE IInv'
<1>0. {"PF_PAGENOTINBUF", "PF_PAGEUNPINNED", "OK"} \subseteq ReturnCodes
  BY DEF ReturnCodes
<1>1. CASE Fails("PF_PAGENOTINBUF") \/ Fails("PF_PAGEUNPINNED")
  BY <1>0, <1>1, FailsIInv
<1>2. CASE ~(Fails("PF_PAGENOTINBUF") \/ Fails("PF_PAGEUNPINNED"))
  <2>1. /\ Buffered(k) /\ rc' = "OK"
        /\ dirty' = [dirty EXCEPT ![hash[k]] = TRUE]
        /\ used' = MoveToHead(used, hash[k])
        /\ unmarked' = unmarked \ {k}
        /\ UNCHANGED <<numPages, free, hash, key, pinCount, data, disk>>
    BY <1>2 DEF MarkDirty
  <2>2. /\ hash[k] \in AllSlots
        /\ pinCount \in [AllSlots -> 0 .. MaxPins] /\ dirty \in [AllSlots -> BOOLEAN]
        /\ data \in [AllSlots -> Vals] /\ unmarked \in SUBSET Keys
    BY <2>1, Slots DEF IInv, TypeOK
  <2>3. /\ dirty' \in [AllSlots -> BOOLEAN] /\ dirty'[hash[k]]
        /\ \A s \in AllSlots : s # hash[k] => dirty'[s] = dirty[s]
    BY <2>1, <2>2
  <2>4. \A j \in Keys : j # k => (j \in unmarked' <=> j \in unmarked)
    BY <2>1
  <2> QED BY <1>0, <2>1, <2>2, <2>3, <2>4, InPlaceIInv
<1> QED BY <1>1, <1>2

LEMMA UnpinPageIInv == ASSUME IInv, NEW k \in Keys, UnpinPage(k) PROVE IInv'
<1>0. {"PF_PAGENOTINBUF", "PF_PAGEUNPINNED", "OK"} \subseteq ReturnCodes
  BY DEF ReturnCodes
<1>1. CASE Fails("PF_PAGENOTINBUF") \/ Fails("PF_PAGEUNPINNED")
  BY <1>0, <1>1, FailsIInv
<1>2. CASE ~(Fails("PF_PAGENOTINBUF") \/ Fails("PF_PAGEUNPINNED"))
  <2>1. /\ Buffered(k) /\ Pins(k) # 0 /\ rc' = "OK"
        /\ Pins(k) = 1 => k \notin unmarked
        /\ pinCount' = [pinCount EXCEPT ![hash[k]] = @ - 1]
        /\ used' = MoveToHead(used, hash[k]) \/ used' = used
        /\ UNCHANGED <<numPages, free, hash, key, dirty, data, disk, unmarked>>
    BY <1>2 DEF UnpinPage
  <2>2. /\ hash[k] \in AllSlots /\ pinCount[hash[k]] # 0
        /\ pinCount[hash[k]] = 1 => k \notin unmarked
        /\ pinCount \in [AllSlots -> 0 .. MaxPins] /\ dirty \in [AllSlots -> BOOLEAN]
        /\ data \in [AllSlots -> Vals] /\ unmarked \in SUBSET Keys
    BY <2>1, Slots DEF Pins, IInv, TypeOK
  <2>3. /\ pinCount' \in [AllSlots -> 0 .. MaxPins]
        /\ k \in unmarked => pinCount'[hash[k]] > 0
        /\ \A s \in AllSlots : s # hash[k] => pinCount'[s] = pinCount[s]
    BY <2>1, <2>2
  <2> QED BY <1>0, <2>1, <2>2, <2>3, InPlaceIInv
<1> QED BY <1>1, <1>2

(* A page that has to be read, and one that is allocated.                  *)
LEMMA GetPageMissIInv == ASSUME IInv, NEW k \in Keys, GetPageMiss(k) PROVE IInv'
<1>0. {"PF_NOBUF", "PF_UNIX", "PF_INCOMPLETEREAD"} \subseteq ReturnCodes
  BY DEF ReturnCodes
<1>1. CASE Fails("PF_NOBUF") \/ Fails("PF_UNIX")
  BY <1>0, <1>1, FailsIInv
<1>2. ASSUME NEW s \in AllSlots, Chosen(s),
             \/ GiveBack(s, "PF_INCOMPLETEREAD") \/ GiveBack(s, "PF_UNIX")
      PROVE  IInv'
  BY <1>0, <1>2, GiveBackIInv
<1>3. ASSUME NEW s \in AllSlots, Chosen(s), Written(WrittenBack(s))[k] # NoPage,
             Install(k, s, Written(WrittenBack(s))[k]), UNCHANGED unmarked
      PROVE  IInv'
  <2>1. WrittenBack(s) \in SUBSET Keys /\ \A j \in WrittenBack(s) : Buffered(j)
    BY <1>3, EvictedPages
  <2>2. Written(WrittenBack(s)) \in [Keys -> Vals \cup {NoPage}]
    BY <2>1, WrittenFiles
  <2>3. Written(WrittenBack(s))[k] \in Vals /\ ~Buffered(k)
    BY <2>2, <1>3 DEF GetPageMiss
  <2> QED BY <2>3, <1>3, InstallIInv
<1> QED BY <1>1, <1>2, <1>3 DEF GetPageMiss, EvictionFails

LEMMA AllocatePageIInv == ASSUME IInv, NEW k \in Keys, AllocatePage(k) PROVE IInv'
<1>0. {"PF_NOBUF", "PF_UNIX", "PF_PAGEINBUF"} \subseteq ReturnCodes
  BY DEF ReturnCodes
<1>1. CASE Fails("PF_NOBUF") \/ Fails("PF_UNIX") \/ Fails("PF_PAGEINBUF")
  BY <1>0, <1>1, FailsIInv
<1>2. ASSUME NEW s \in AllSlots, Chosen(s), ~Buffered(k),
             Install(k, s, data[s]), unmarked' = unmarked \cup {k}
      PROVE  IInv'
  <2>1. data[s] \in Vals
    BY DEF IInv, TypeOK
  <2> QED BY <2>1, <1>2, InstallIInv
<1> QED BY <1>1, <1>2 DEF AllocatePage, EvictionFails

(* A resize between statements, when no page is pinned.                    *)
LEMMA ResizeIInv ==
    ASSUME IInv, NEW n \in 1 .. MaxSlots, NoPins, ResizeBuffer(n) PROVE IInv'
<1> DEFINE pinned == Kept(used, {s \in InUse : pinCount[s] > 0})
<1>1. pinned \in Seq(AllSlots) /\ Range(pinned) = {}
  <2>1. {s \in InUse : pinCount[s] > 0} = {}
    BY DEF NoPins
  <2>2. used \in Seq(AllSlots) /\ IsInjective(used)
    BY DEF IInv, TypeOK, SlotsListedOnce
  <2>3. Kept(used, {}) \in Seq(AllSlots) /\ Range(Kept(used, {})) = Range(used) \cap {}
    BY <2>2, KeptProperties
  <2> QED BY <2>1, <2>3
<1>2. /\ numPages' = n
      /\ used' = <<>>
      /\ free' = [i \in 1 .. n |-> i - 1]
      /\ hash' = [k \in Keys |-> IF hash[k] \in Range(pinned) THEN 0 ELSE INVALID_SLOT]
      /\ key' = [s \in AllSlots |-> IF s = 0 /\ pinned # <<>>
                                    THEN key[pinned[Len(pinned)]] ELSE NoKey]
      /\ dirty' = [s \in AllSlots |-> FALSE]
      /\ pinCount' = [s \in AllSlots |-> IF s = 0 /\ pinned # <<>> THEN 1 ELSE 0]
      /\ data' = [s \in AllSlots |-> Zero]
      /\ rc' = "OK"
      /\ UNCHANGED <<disk, unmarked>>
  BY DEF ResizeBuffer
<1>3. pinned = <<>>
  <2> HIDE DEF pinned
  <2> SUFFICES ASSUME pinned # <<>> PROVE FALSE
    OBVIOUS
  <2>1. 1 \in DOMAIN pinned
    BY <1>1
  <2> QED BY <2>1, <1>1 DEF Range
<1> HIDE DEF pinned
<1>4. /\ hash' = [k \in Keys |-> INVALID_SLOT] /\ key' = [s \in AllSlots |-> NoKey]
      /\ pinCount' = [s \in AllSlots |-> 0]
  BY <1>1, <1>2, <1>3
<1>5. used' \in Seq(AllSlots) /\ InUse' = {} /\ IsInjective(used')
  BY <1>2 DEF InUse, Range, IsInjective
<1>6. free' \in Seq(AllSlots)
  <2>1. free' \in [1 .. n -> AllSlots]
    BY <1>2 DEF AllSlots
  <2> QED BY <2>1, IsASeq
<1>7. IsInjective(free')
  <2>1. \A i, j \in 1 .. n : i - 1 = j - 1 => i = j
    OBVIOUS
  <2> QED BY <2>1, <1>2 DEF IsInjective
<1>8. Range(free') = 0 .. n - 1
  <2>1. ASSUME NEW s \in 0 .. n - 1 PROVE s \in Range(free')
    <3>1. s + 1 \in 1 .. n /\ (s + 1) - 1 = s
      OBVIOUS
    <3> QED BY <3>1, <1>2 DEF Range
  <2>2. ASSUME NEW s \in Range(free') PROVE s \in 0 .. n - 1
    BY <2>2, <1>2 DEF Range
  <2> QED BY <2>1, <2>2
<1>9. SlotsListedOnce'
  BY <1>2, <1>5, <1>7, <1>8 DEF SlotsListedOnce
<1>10. unmarked = {}
  <2>1. \A k \in Keys : Buffered(k) => pinCount[hash[k]] = 0
    BY DEF NoPins, IInv, HashMatchesUsed
  <2>2. ASSUME NEW k \in unmarked PROVE FALSE
    <3>1. k \in Keys /\ Pins(k) > 0
      BY DEF IInv, UnmarkedPagesPinned, TypeOK
    <3>2. Pins(k) = 0
      BY <3>1, <2>1 DEF Pins
    <3> QED BY <3>1, <3>2
  <2> QED BY <2>2
<1>11. TypeOK'
  BY <1>2, <1>4, <1>5, <1>6 DEF IInv, TypeOK, ReturnCodes
<1>12. HashMatchesUsed' /\ UnmarkedPagesPinned' /\ CleanPagesMatchDisk'
  BY <1>2, <1>4, <1>5, <1>10 DEF HashMatchesUsed, UnmarkedPagesPinned,
                                 CleanPagesMatchDisk, Buffered
<1> QED BY <1>9, <1>11, <1>12 DEF IInv

----------------------------------------------------------------------------
(* Every call keeps the invariant.                                         *)
LEMMA NextIInv == IInv /\ [Next]_vars => IInv'
<1> SUFFICES ASSUME IInv, [Next]_vars PROVE IInv'
  OBVIOUS
<1>1. CASE UNCHANGED vars
  BY <1>1 DEF vars, IInv, TypeOK, SlotsListedOnce, HashMatchesUsed, UnmarkedPagesPinned,
              CleanPagesMatchDisk, InUse, Buffered, Pins, IsDirty
<1>2. ASSUME NEW k \in Keys, NEW b \in BOOLEAN, GetPageHit(k, b) PROVE IInv'
  BY <1>2, GetPageHitIInv
<1>3. ASSUME NEW k \in Keys, GetPageMiss(k) PROVE IInv'
  BY <1>3, GetPageMissIInv
<1>4. ASSUME NEW k \in Keys, AllocatePage(k) PROVE IInv'
  BY <1>4, AllocatePageIInv
<1>5. ASSUME NEW k \in Keys, NEW v \in Vals, WriteData(k, v) PROVE IInv'
  BY <1>5, WriteDataIInv
<1>6. ASSUME NEW k \in Keys, MarkDirty(k) PROVE IInv'
  BY <1>6, MarkDirtyIInv
<1>7. ASSUME NEW k \in Keys, UnpinPage(k) PROVE IInv'
  BY <1>7, UnpinPageIInv
<1>8. ASSUME NEW P, ForcePages(P) PROVE IInv'
  BY <1>8, ForcePagesIInv
<1>9. ASSUME NEW f \in Files, FlushPages(f) PROVE IInv'
  BY <1>9, FlushPagesIInv
<1>10. ASSUME ClearBuffer PROVE IInv'
  BY <1>10, ClearBufferIInv
<1>11. ASSUME NEW n \in 1 .. MaxSlots, NoPins, ResizeBuffer(n) PROVE IInv'
  BY <1>11, ResizeIInv
<1> QED BY <1>1, <1>2, <1>3, <1>4, <1>5, <1>6, <1>7, <1>8, <1>9, <1>10, <1>11 DEF Next

(* The invariant holds of every state of the pool.                         *)
THEOREM IInvHolds == Spec => []IInv
<1> QED BY InitIInv, NextIInv, PTL DEF Spec

(* The pool's state is well formed: every table index a call uses is a     *)
(* slot, every pin count a count.                                          *)
THEOREM TypeCorrect == Spec => []TypeOK
<1>1. IInv => TypeOK
  BY DEF IInv
<1> QED BY <1>1, IInvHolds, PTL

(* No allocation, error path, flush or reset of InternalAlloc, Unlink,     *)
(* LinkHead and InsertFree loses a slot or lists one twice.                *)
THEOREM ListsPartitionTheTable == Spec => []SlotsListedOnce
<1>1. IInv => SlotsListedOnce
  BY DEF IInv
<1> QED BY <1>1, IInvHolds, PTL

(* The hash table (pf_hashtable.cc) and the descriptors never disagree, so *)
(* that no page is ever in two slots.                                      *)
THEOREM HashIsExact == Spec => []HashMatchesUsed
<1>1. IInv => HashMatchesUsed
  BY DEF IInv
<1> QED BY <1>1, IInvHolds, PTL

(* A page the pool may drop without writing it is the same on disk, also   *)
(* after the failures of reads and writes.                                 *)
THEOREM NothingToLoseInCleanPages == Spec => []CleanPagesMatchDisk
<1>1. IInv => CleanPagesMatchDisk
  BY DEF IInv
<1> QED BY <1>1, IInvHolds, PTL

(***************************************************************************)
(* A pinned page keeps its slot: the pointer GetPage gave out stays good   *)
(* until the page is unpinned, whichever calls on other pages come between.*)
(***************************************************************************)
LEMMA StepKeepsPinned ==
    ASSUME IInv, [Next]_vars, NEW k \in Keys, Pins(k) > 0
    PROVE  hash'[k] = hash[k]
<1>0. Buffered(k) /\ pinCount[hash[k]] > 0 /\ hash[k] \in AllSlots
  BY Slots DEF Pins
<1>1. ASSUME UNCHANGED hash PROVE hash'[k] = hash[k]
  BY <1>1
<1>2. ASSUME NEW S, Release(S), hash[k] \notin S PROVE hash'[k] = hash[k]
  BY <1>2 DEF Release
<1>3. ASSUME NEW s \in AllSlots, Chosen(s) PROVE k \notin Evicted(s)
  BY <1>3, EvictedPages
<1>4. ASSUME NEW j \in Keys, ~Buffered(j), NEW s \in AllSlots, Chosen(s), NEW v,
             Install(j, s, v)
      PROVE  hash'[k] = hash[k]
  BY <1>0, <1>3, <1>4 DEF Install
<1>5. ASSUME NEW s \in AllSlots, Chosen(s), NEW code, GiveBack(s, code)
      PROVE  hash'[k] = hash[k]
  BY <1>3, <1>5 DEF GiveBack
<1>6. ASSUME NEW j \in Keys, GetPageMiss(j) PROVE hash'[k] = hash[k]
  BY <1>1, <1>4, <1>5, <1>6 DEF GetPageMiss, EvictionFails, Fails
<1>7. ASSUME NEW j \in Keys, AllocatePage(j) PROVE hash'[k] = hash[k]
  BY <1>1, <1>4, <1>7 DEF AllocatePage, EvictionFails, Fails
<1>8. ASSUME NEW f, FlushPages(f) PROVE hash'[k] = hash[k]
  <2>1. ASSUME NEW n, NEW code, FlushUpTo(f, n, code) PROVE hash'[k] = hash[k]
    <3>1. hash[k] \notin Flushable(f, n)
      BY <1>0 DEF Flushable
    <3> QED BY <2>1, <3>1, <1>2 DEF FlushUpTo
  <2> QED BY <1>8, <2>1 DEF FlushPages
<1>9. ASSUME ClearBuffer PROVE hash'[k] = hash[k]
  <2>1. hash[k] \notin {s \in InUse : pinCount[s] = 0}
    BY <1>0
  <2> QED BY <1>9, <2>1, <1>2 DEF ClearBuffer
<1>10. ~NoPins
  <2>1. hash[k] \in InUse
    BY <1>0 DEF IInv, HashMatchesUsed
  <2> QED BY <2>1, <1>0 DEF NoPins
<1>11. ASSUME NEW j \in Keys,
              \/ \E b \in BOOLEAN : GetPageHit(j, b)
              \/ \E v \in Vals : WriteData(j, v)
              \/ MarkDirty(j) \/ UnpinPage(j)
       PROVE  UNCHANGED hash
  BY <1>11 DEF GetPageHit, WriteData, MarkDirty, UnpinPage, Fails
<1>12. ASSUME NEW P, ForcePages(P) PROVE UNCHANGED hash
  BY <1>12 DEF ForcePages, ForceUpTo
<1> QED BY <1>1, <1>6, <1>7, <1>8, <1>9, <1>10, <1>11, <1>12 DEF Next, vars

(* The pointer GetPage has given a client stays good while the page is     *)
(* pinned: InternalAlloc takes no pinned slot, the flushes pass them over. *)
THEOREM PinnedPagesKeepTheirSlot == Spec => PinnedPagesStay
<1>1. IInv /\ [Next]_vars => [\A k \in Keys : Pins(k) > 0 => hash'[k] = hash[k]]_vars
  BY StepKeepsPinned
<1> QED BY <1>1, IInvHolds, PTL DEF Spec, PinnedPagesStay

----------------------------------------------------------------------------
PinnedSlots == {s \in InUse : pinCount[s] > 0}

(* The operators on lists are the same in both modules.                    *)
LEMMA SameOperators ==
    ASSUME NEW q
    PROVE  /\ Lists!Range(q) = Range(q)
           /\ \A S : Lists!Kept(q, S) = Kept(q, S)
           /\ \A s : Lists!Unlink(q, s) = Unlink(q, s)
           /\ \A s : Lists!MoveToHead(q, s) = MoveToHead(q, s)
           /\ Lists!ReverseOf(q) = ReverseOf(q)
<1>1. Lists!Range(q) = Range(q)
  BY DEF Lists!Range, Range
<1>2. \A S : Lists!Kept(q, S) = Kept(q, S)
  <2> TAKE S
  <2> QED
    BY DEF Lists!Kept, Lists!CountKept, Lists!Cardinality, Kept, CountKept, Cardinality
<1>3. \A s : Lists!Unlink(q, s) = Unlink(q, s)
  BY <1>1, <1>2 DEF Lists!Unlink, Unlink
<1>4. \A s : Lists!MoveToHead(q, s) = MoveToHead(q, s)
  BY <1>3 DEF Lists!MoveToHead, Lists!LinkHead, MoveToHead, LinkHead
<1>5. Lists!ReverseOf(q) = ReverseOf(q)
  BY DEF Lists!ReverseOf, ReverseOf
<1> QED BY <1>1, <1>2, <1>3, <1>4, <1>5

(* The steps of the two lists.                                             *)
LEMMA ListsIdle ==
    ASSUME UNCHANGED <<numPages, used, free, key>>, UNCHANGED PinnedSlots
    PROVE  UNCHANGED Lists!vars
  BY DEF PinnedSlots, Lists!vars

LEMMA ListsTouch ==
    ASSUME IInv, NEW s \in InUse, used' = MoveToHead(used, s),
           UNCHANGED <<numPages, free, key>>, pinCount' \in [AllSlots -> 0 .. MaxPins],
           \A t \in AllSlots : t # s => pinCount'[t] = pinCount[t]
    PROVE  Lists!Next
<1>1. InUse' = InUse  BY HeadOfUsed
<1>2. InUse \subseteq AllSlots  BY Slots
<1>3. PinnedSlots' \in {PinnedSlots, PinnedSlots \cup {s}, PinnedSlots \ {s}}
  <2>1. \A t \in InUse \ {s} : t \in PinnedSlots' <=> t \in PinnedSlots
    BY <1>1, <1>2 DEF PinnedSlots
  <2>2. PinnedSlots' \subseteq InUse /\ PinnedSlots \subseteq InUse
    BY <1>1 DEF PinnedSlots
  <2> QED BY <2>1, <2>2
<1>4. s \in Lists!Range(used) /\ used' = Lists!MoveToHead(used, s)
  BY SameOperators DEF InUse
<1>5. Lists!Touch(s)
  BY <1>3, <1>4 DEF Lists!Touch, PinnedSlots
<1>6. s \in 0 .. MaxSlots - 1  BY <1>2 DEF AllSlots
<1> QED BY <1>5, <1>6 DEF Lists!Next

LEMMA ListsChosen ==
    ASSUME IInv, NEW s \in AllSlots, Chosen(s)
    PROVE  Lists!Chosen(s)
<1>1. CASE free # <<>>
  BY <1>1 DEF Chosen, Lists!Chosen
<1>2. CASE free = <<>>
  <2>1. PICK i \in DOMAIN used : /\ used[i] = s /\ pinCount[s] = 0
                                 /\ \A j \in DOMAIN used : i < j => pinCount[used[j]] > 0
    BY <1>2 DEF Chosen, IsVictim
  <2>2. \A h \in DOMAIN used : used[h] = s => h = i
    BY <2>1 DEF IInv, SlotsListedOnce, IsInjective
  <2>3. \A j \in DOMAIN used : used[j] \in InUse
    BY DEF InUse, Range
  <2>4. s \in Lists!Range(used) \ PinnedSlots
    BY <2>1, <2>3, SameOperators DEF PinnedSlots, InUse
  <2>5. \A h, j \in DOMAIN used : used[h] = s /\ h < j => used[j] \in PinnedSlots
    BY <2>1, <2>2, <2>3 DEF PinnedSlots
  <2> QED BY <1>2, <2>4, <2>5 DEF Lists!Chosen, PinnedSlots
<1> QED BY <1>1, <1>2

LEMMA ListsClaim ==
    ASSUME IInv, NEW k \in Keys, NEW s \in AllSlots, Chosen(s), NEW v, Install(k, s, v)
    PROVE  Lists!Next
<1>1. Lists!Chosen(s)  BY ListsChosen
<1>2. /\ used' = MoveToHead(used, s) /\ free' = Unlink(free, s)
      /\ key' = [key EXCEPT ![s] = k] /\ pinCount' = [pinCount EXCEPT ![s] = 1]
      /\ UNCHANGED numPages
  BY DEF Install
<1>3. InUse' = InUse \cup {s}
  BY <1>2, MoveToHeadProperties DEF IInv, TypeOK, SlotsListedOnce, InUse
<1>4. PinnedSlots' = PinnedSlots \cup {s}
  BY <1>2, <1>3, Slots DEF PinnedSlots, IInv, TypeOK
<1>5. /\ free' = Lists!Unlink(free, s) /\ used' = Lists!MoveToHead(used, s)
  BY <1>2, SameOperators
<1>6. Lists!Claim(s, k)
  BY <1>1, <1>2, <1>4, <1>5 DEF Lists!Claim, PinnedSlots
<1> QED BY <1>6 DEF Lists!Next, AllSlots

LEMMA ListsGiveBack ==
    ASSUME IInv, NEW s \in AllSlots, Chosen(s), NEW code, GiveBack(s, code)
    PROVE  Lists!Next
<1>1. Lists!Chosen(s)  BY ListsChosen
<1>2. /\ used' = Unlink(used, s) /\ free' = MoveToHead(free, s)
      /\ UNCHANGED <<numPages, key, pinCount>>
  BY DEF GiveBack
<1>3. InUse' = InUse \ {s}
  BY <1>2, UnlinkProperties DEF IInv, TypeOK, SlotsListedOnce, InUse
<1>4. s \notin PinnedSlots
  BY ChosenSlot DEF PinnedSlots
<1>5. PinnedSlots' = PinnedSlots
  BY <1>2, <1>3, <1>4 DEF PinnedSlots
<1>6. /\ free' = Lists!MoveToHead(free, s) /\ used' = Lists!Unlink(used, s)
  BY <1>2, SameOperators
<1>7. Lists!GiveBack(s)
  BY <1>1, <1>2, <1>5, <1>6 DEF Lists!GiveBack, PinnedSlots
<1> QED BY <1>7 DEF Lists!Next, AllSlots

LEMMA ListsRelease ==
    ASSUME IInv, NEW S \in SUBSET InUse, \A s \in S : pinCount[s] = 0, Release(S),
           UNCHANGED <<numPages, key, pinCount>>
    PROVE  Lists!Next
<1>1. InUse' = InUse \ S  BY ReleasedLists
<1>2. PinnedSlots' = PinnedSlots
  BY <1>1 DEF PinnedSlots
<1>3. S \in SUBSET (Lists!Range(used) \ PinnedSlots)
  BY SameOperators DEF PinnedSlots, InUse
<1>4. /\ used' = Lists!Kept(used, Lists!Range(used) \ S)
      /\ free' = Lists!ReverseOf(Lists!Kept(used, S)) \o free
  BY SameOperators DEF Release, InUse
<1>5. Lists!Release(S)
  BY <1>2, <1>3, <1>4 DEF Lists!Release, PinnedSlots
<1>6. S \in SUBSET (0 .. MaxSlots - 1)  BY Slots DEF AllSlots
<1> QED BY <1>5, <1>6 DEF Lists!Next

(* The slots a flush releases, however far it gets.                        *)
LEMMA FlushableSlots ==
    ASSUME IInv, NEW f, NEW n \in Nat, n <= Len(used)
    PROVE  /\ Flushable(f, n) \in SUBSET InUse
           /\ \A s \in Flushable(f, n) : pinCount[s] = 0 /\ fd(key[s]) = f
<1>1. used \in Seq(AllSlots)
  BY DEF IInv, TypeOK
<1>2. \A j \in 1 .. n : j \in DOMAIN used
  BY <1>1
<1>3. \A j \in 1 .. n : used[j] \in InUse
  BY <1>2 DEF InUse, Range
<1> QED BY <1>3 DEF Flushable

LEMMA FlushedUpTo ==
    ASSUME IInv, NEW f, FlushPages(f)
    PROVE  \E n \in Nat : n <= Len(used) /\ \E code \in ReturnCodes : FlushUpTo(f, n, code)
<1>1. Len(used) \in Nat /\ \A n \in DOMAIN used : n - 1 \in Nat /\ n - 1 <= Len(used)
  BY DEF IInv, TypeOK
<1>2. {"OK", "PF_PAGEPINNED", "PF_UNIX"} \subseteq ReturnCodes
  BY DEF ReturnCodes
<1>3. CASE \E code \in {"OK", "PF_PAGEPINNED"} : FlushUpTo(f, Len(used), code)
  BY <1>1, <1>2, <1>3
<1>4. CASE \E n \in DOMAIN used : FlushUpTo(f, n - 1, "PF_UNIX")
  BY <1>1, <1>2, <1>4
<1> QED BY <1>3, <1>4 DEF FlushPages

LEMMA ListsStep ==
    ASSUME IInv, [Next]_vars
    PROVE  [Lists!Next]_Lists!vars
<1> USE DEF lists, descs
<1>0. \A k \in Keys : Buffered(k) => hash[k] \in InUse /\ hash[k] \in AllSlots
  BY Slots DEF IInv, HashMatchesUsed
<1>1. ASSUME UNCHANGED <<numPages, used, free, key, pinCount>>
      PROVE  UNCHANGED Lists!vars
  BY <1>1, ListsIdle DEF PinnedSlots, InUse
<1>2. ASSUME NEW code, Fails(code)
      PROVE  UNCHANGED Lists!vars
  BY <1>1, <1>2 DEF Fails
<1>3. ASSUME NEW k \in Keys, NEW b \in BOOLEAN, GetPageHit(k, b)
      PROVE  [Lists!Next]_Lists!vars
  <2>1. CASE Fails("PF_PAGEPINNED")  BY <1>2, <2>1
  <2>2. CASE ~Fails("PF_PAGEPINNED")
    <3>1. /\ Buffered(k) /\ Pins(k) < MaxPins
          /\ pinCount' = [pinCount EXCEPT ![hash[k]] = @ + 1]
          /\ used' = MoveToHead(used, hash[k]) /\ UNCHANGED <<numPages, free, key>>
      BY <1>3, <2>2 DEF GetPageHit
    <3>2. /\ hash[k] \in AllSlots /\ pinCount \in [AllSlots -> 0 .. MaxPins]
          /\ pinCount[hash[k]] < MaxPins
      BY <1>0, <3>1 DEF IInv, TypeOK, Pins
    <3>3. pinCount[hash[k]] + 1 \in 0 .. MaxPins
      BY <3>2, SizesAssumption
    <3>4. pinCount' \in [AllSlots -> 0 .. MaxPins]
      BY <3>1, <3>2, <3>3
    <3>5. \A t \in AllSlots : t # hash[k] => pinCount'[t] = pinCount[t]
      BY <3>1, <3>2
    <3> QED BY <1>0, <3>1, <3>4, <3>5, ListsTouch
  <2> QED BY <2>1, <2>2
<1>4. ASSUME NEW k \in Keys, GetPageMiss(k) \/ AllocatePage(k)
      PROVE  [Lists!Next]_Lists!vars
  BY <1>2, <1>4, ListsClaim, ListsGiveBack DEF GetPageMiss, AllocatePage, EvictionFails
<1>5. ASSUME NEW k \in Keys, MarkDirty(k)
      PROVE  [Lists!Next]_Lists!vars
  <2>1. CASE Fails("PF_PAGENOTINBUF") \/ Fails("PF_PAGEUNPINNED")  BY <1>2, <2>1
  <2>2. CASE ~(Fails("PF_PAGENOTINBUF") \/ Fails("PF_PAGEUNPINNED"))
    <3>1. /\ Buffered(k) /\ used' = MoveToHead(used, hash[k])
          /\ UNCHANGED <<numPages, free, key, pinCount>>
      BY <1>5, <2>2 DEF MarkDirty
    <3>2. pinCount' \in [AllSlots -> 0 .. MaxPins]  BY <3>1 DEF IInv, TypeOK
    <3> QED BY <1>0, <3>1, <3>2, ListsTouch
  <2> QED BY <2>1, <2>2
<1>6. ASSUME NEW k \in Keys, UnpinPage(k)
      PROVE  [Lists!Next]_Lists!vars
  <2>1. CASE Fails("PF_PAGENOTINBUF") \/ Fails("PF_PAGEUNPINNED")  BY <1>2, <2>1
  <2>2. CASE ~(Fails("PF_PAGENOTINBUF") \/ Fails("PF_PAGEUNPINNED"))
    <3>1. /\ Buffered(k) /\ Pins(k) # 0
          /\ pinCount' = [pinCount EXCEPT ![hash[k]] = @ - 1]
          /\ used' = IF Pins(k) = 1 THEN MoveToHead(used, hash[k]) ELSE used
          /\ UNCHANGED <<numPages, free, key>>
      BY <1>6, <2>2 DEF UnpinPage
    <3>0. /\ hash[k] \in AllSlots /\ pinCount \in [AllSlots -> 0 .. MaxPins]
          /\ Pins(k) = pinCount[hash[k]] /\ pinCount[hash[k]] \in 1 .. MaxPins
      BY <1>0, <3>1 DEF IInv, TypeOK, Pins
    <3>2. pinCount' \in [AllSlots -> 0 .. MaxPins]
      <4>1. pinCount[hash[k]] - 1 \in 0 .. MaxPins  BY <3>0, SizesAssumption
      <4> QED BY <3>0, <3>1, <4>1
    <3>3. \A t \in AllSlots : t # hash[k] => pinCount'[t] = pinCount[t]
      BY <3>0, <3>1
    <3>4. CASE Pins(k) = 1
      BY <1>0, <3>1, <3>2, <3>3, <3>4, ListsTouch
    <3>5. CASE Pins(k) # 1
      <4>1. pinCount[hash[k]] > 0 /\ pinCount'[hash[k]] > 0
        BY <3>0, <3>1, <3>5
      <4>2. used' = used /\ InUse' = InUse  BY <3>1, <3>5 DEF InUse
      <4>3. \A t \in InUse : pinCount'[t] > 0 <=> pinCount[t] > 0
        <5> TAKE t \in InUse
        <5>1. t \in AllSlots  BY Slots
        <5>2. CASE t = hash[k]  BY <4>1, <5>2
        <5>3. CASE t # hash[k]  BY <3>3, <5>1, <5>3
        <5> QED BY <5>2, <5>3
      <4>4. PinnedSlots' = PinnedSlots  BY <4>2, <4>3 DEF PinnedSlots
      <4> QED BY <3>1, <4>2, <4>4, ListsIdle
    <3> QED BY <3>4, <3>5
  <2> QED BY <2>1, <2>2
<1>7. ASSUME NEW f, FlushPages(f)
      PROVE  [Lists!Next]_Lists!vars
  <2>1. PICK n \in Nat, code \in ReturnCodes : n <= Len(used) /\ FlushUpTo(f, n, code)
    BY <1>7, FlushedUpTo
  <2>2. Release(Flushable(f, n)) /\ UNCHANGED <<numPages, key, pinCount>>
    BY <2>1 DEF FlushUpTo
  <2> QED BY <2>1, <2>2, FlushableSlots, ListsRelease
<1>8. ASSUME ClearBuffer
      PROVE  [Lists!Next]_Lists!vars
  <2> DEFINE S == {s \in InUse : pinCount[s] = 0}
  <2>1. Release(S) /\ UNCHANGED <<numPages, key, pinCount>>
    BY <1>8 DEF ClearBuffer
  <2>2. S \in SUBSET InUse /\ \A s \in S : pinCount[s] = 0  OBVIOUS
  <2> HIDE DEF S
  <2> QED BY <2>1, <2>2, ListsRelease
<1>9. ASSUME NEW n \in 1 .. MaxSlots, NoPins, ResizeBuffer(n)
      PROVE  [Lists!Next]_Lists!vars
  <2>1. PinnedSlots = {}  BY <1>9, Slots DEF PinnedSlots, NoPins
  <2>2. Kept(used, PinnedSlots) = <<>>
    <3>1. used \in Seq(AllSlots) /\ IsInjective(used)
      BY DEF IInv, TypeOK, SlotsListedOnce
    <3>2. Kept(used, PinnedSlots) \in Seq(AllSlots) /\ Range(Kept(used, PinnedSlots)) = {}
      BY <2>1, <3>1, KeptProperties
    <3>3. ASSUME NEW q \in Seq(AllSlots), Range(q) = {}
          PROVE  q = <<>>
      <4>1. DOMAIN q = {}  BY <3>3 DEF Range
      <4> QED BY <3>3, <4>1
    <3> HIDE DEF PinnedSlots
    <3> QED BY <3>2, <3>3
  <2>3. /\ numPages' = n /\ used' = <<>> /\ free' = [i \in 1 .. n |-> i - 1]
        /\ key' = [s \in AllSlots |-> NoKey] /\ Resets
    BY <1>9, <2>2 DEF ResizeBuffer, PinnedSlots
  <2>4. PinnedSlots' = {}  BY <2>3 DEF PinnedSlots, InUse, Range
  <2>5. Lists!Resize(n)
    BY <2>1, <2>3, <2>4 DEF Lists!Resize, Lists!EmptyTable, PinnedSlots, AllSlots
  <2> QED BY <2>5 DEF Lists!Next
<1>10. ASSUME NEW k \in Keys, NEW v \in Vals, WriteData(k, v)
       PROVE  UNCHANGED Lists!vars
  BY <1>1, <1>10 DEF WriteData
<1>11. ASSUME NEW P, ForcePages(P)
       PROVE  UNCHANGED Lists!vars
  BY <1>1, <1>11 DEF ForcePages, ForceUpTo
<1>12. CASE UNCHANGED vars  BY <1>1, <1>12 DEF vars
<1> QED
  BY <1>3, <1>4, <1>5, <1>6, <1>7, <1>8, <1>9, <1>10, <1>11, <1>12 DEF Next

(* InternalAlloc takes the slot released last or, if there is none, the    *)
(* least recently used page that is not pinned: the pool's lists behave as *)
(* SlotLists has them, through every error, flush, reset and resize.       *)
THEOREM ImplementsSlotLists == Spec => ListsSpec
<1>1. Init => Lists!Init
  <2> SUFFICES ASSUME Init PROVE Lists!Init  OBVIOUS
  <2>1. /\ numPages = BufSize /\ used = <<>> /\ free = [i \in 1 .. BufSize |-> i - 1]
        /\ key = [s \in AllSlots |-> NoKey]
    BY DEF Init, EmptyPool
  <2>2. PinnedSlots = {}  BY <2>1 DEF PinnedSlots, InUse, Range
  <2> QED BY <2>1, <2>2 DEF Lists!Init, Lists!EmptyTable, PinnedSlots, AllSlots
<1>2. IInv /\ [Next]_vars => [Lists!Next]_Lists!vars
  BY ListsStep
<1> QED BY <1>1, <1>2, IInvHolds, PTL DEF Spec, ListsSpec, Lists!Spec
----------------------------------------------------------------------------
(* The state of PageStore as the pool represents it.                       *)
Mem == [k \in Keys |-> Content(k)]
PinsOf == [k \in Keys |-> Pins(k)]
PinnedPages == {k \in Keys : Pins(k) > 0}

LEMMA StoreState ==
    /\ Store!Pinned = PinnedPages
    /\ \A S : Store!Cardinality(S) = Cardinality(S)
    /\ \A k : Store!file(k) = fd(k) /\ Store!number(k) = pageNum(k)
<1>1. \A S : Store!Cardinality(S) = Cardinality(S)
  BY DEF Store!Cardinality, Cardinality
<1>2. Store!Pinned = PinnedPages
  BY DEF Store!Pinned, PinnedPages
<1> QED BY <1>1, <1>2 DEF Store!file, Store!number, fd, pageNum

(* What the used slots hold.                                               *)
LEMMA BufferedPages ==
    ASSUME IInv, NEW k \in Keys, Buffered(k)
    PROVE  /\ hash[k] \in InUse /\ hash[k] \in AllSlots /\ key[hash[k]] = k
           /\ data[hash[k]] \in Vals /\ Content(k) = data[hash[k]] /\ Content(k) # NoPage
           /\ Pins(k) = pinCount[hash[k]] /\ Pins(k) \in 0 .. MaxPins
           /\ \A j \in Keys : hash[j] = hash[k] => j = k
<1>1. hash[k] \in InUse /\ hash[k] \in AllSlots /\ key[hash[k]] = k
  BY Slots DEF IInv, HashMatchesUsed
<1>2. data[hash[k]] \in Vals /\ pinCount[hash[k]] \in 0 .. MaxPins
  BY <1>1 DEF IInv, TypeOK
<1>3. ASSUME NEW j \in Keys, hash[j] = hash[k] PROVE j = k
  <2>1. Buffered(j)  BY <1>3 DEF Buffered
  <2> QED BY <1>1, <1>3, <2>1 DEF IInv, HashMatchesUsed
<1>4. Content(k) = data[hash[k]] /\ Pins(k) = pinCount[hash[k]]
  BY DEF Content, Pins
<1> QED BY <1>1, <1>2, <1>3, <1>4, ValsAssumption

(* Pinned pages take a slot each: there is room for one more page while    *)
(* some slot holds none of them, and for none when every slot does.        *)
LEMMA PinnedFit ==
    ASSUME IInv
    PROVE  /\ \A s \in 0 .. numPages - 1 :
                (\A k \in PinnedPages : hash[k] # s) => Cardinality(PinnedPages) < numPages
           /\ NoneToChoose => Cardinality(PinnedPages) = numPages
<1> DEFINE T == 0 .. numPages - 1
           f == [k \in PinnedPages |-> hash[k]]
<1>1. numPages \in Nat /\ numPages > 0
  BY DEF IInv, TypeOK
<1>2. IsFiniteSet(T) /\ Cardinality(T) = numPages
  BY <1>1, FS_Interval
<1>3. \A k \in PinnedPages : k \in Keys /\ Buffered(k)
  BY DEF PinnedPages, Pins
<1>4. f \in Injection(PinnedPages, T)
  <2>1. \A k \in PinnedPages : hash[k] \in T
    BY <1>3, BufferedPages DEF IInv, SlotsListedOnce
  <2>2. \A j, k \in PinnedPages : hash[j] = hash[k] => j = k
    BY <1>3, BufferedPages
  <2> QED BY <2>1, <2>2 DEF Injection, IsInjective
<1> HIDE DEF T
<1>5. /\ IsFiniteSet(PinnedPages) /\ Cardinality(PinnedPages) <= Cardinality(T)
      /\ Cardinality(PinnedPages) = Cardinality(T) <=> f \in Surjection(PinnedPages, T)
  BY <1>2, <1>4, FS_Injection
<1>6. Cardinality(PinnedPages) \in Nat
  BY <1>5, FS_CardinalityType
<1>7. ASSUME NEW s \in T, \A k \in PinnedPages : hash[k] # s
      PROVE  Cardinality(PinnedPages) < numPages
  <2>1. f \notin Surjection(PinnedPages, T)
    BY <1>7 DEF Surjection
  <2> QED BY <2>1, <1>1, <1>2, <1>5, <1>6
<1>8. ASSUME NoneToChoose
      PROVE  Cardinality(PinnedPages) = numPages
  <2>1. \A s \in T : s \in InUse /\ pinCount[s] > 0
    BY <1>8 DEF T, NoneToChoose, IInv, SlotsListedOnce, Range
  <2>2. \A s \in T : key[s] \in PinnedPages /\ hash[key[s]] = s
    BY <2>1, Slots DEF IInv, HashMatchesUsed, PinnedPages, Pins, Buffered
  <2>3. f \in Surjection(PinnedPages, T)
    BY <2>2, <1>4 DEF Surjection, Injection
  <2> QED BY <2>3, <1>2, <1>5
<1> QED BY <1>7, <1>8 DEF T

----------------------------------------------------------------------------
(* Writing slots back: what reaches the disk, and what clients then see.   *)
LEMMA WritesBack ==
    ASSUME IInv, NEW W \in SUBSET Keys, \A k \in W : Buffered(k), disk' = Written(W)
    PROVE  Store!WriteBack(W)
<1>1. \A k \in W : Mem[k] = data[hash[k]] /\ Mem[k] # NoPage
  BY BufferedPages DEF Mem
<1>2. \A k \in Keys : Written(W)[k] = IF k \in W THEN Mem[k] ELSE Store!Grown(disk, W)[k]
  BY <1>1 DEF Written, Store!Grown, Store!file, Store!number, fd, pageNum
<1>3. Written(W) = [k \in Keys |-> IF k \in W THEN Mem[k] ELSE Store!Grown(disk, W)[k]]
  BY <1>2 DEF Written
<1> QED BY <1>1, <1>3 DEF Store!WriteBack, Mem

LEMMA SeenPages ==
    ASSUME IInv, NEW W \in SUBSET Keys, \A k \in W : Buffered(k)
    PROVE  Store!Seen(W) = [k \in Keys |-> IF Buffered(k) THEN data[hash[k]] ELSE Written(W)[k]]
<1>1. ASSUME NEW k \in Keys
      PROVE  (IF Mem[k] = NoPage THEN Store!Grown(Mem, W)[k] ELSE Mem[k])
               = IF Buffered(k) THEN data[hash[k]] ELSE Written(W)[k]
  <2>1. CASE Buffered(k)
    BY <2>1, BufferedPages DEF Mem
  <2>2. CASE ~Buffered(k)
    <3>1. k \notin W /\ Mem[k] = disk[k]  BY <2>2 DEF Mem, Content
    <3> QED
      BY <2>2, <3>1 DEF Written, Store!Grown, Store!file, Store!number, fd, pageNum
  <2> QED BY <2>1, <2>2
<1> QED BY <1>1 DEF Store!Seen, Mem

LEMMA NothingWritten ==
    ASSUME IInv
    PROVE  Written({}) = disk /\ Store!Seen({}) = Mem
<1>1. Written({}) = disk
  BY DEF Written, IInv, TypeOK
<1>2. Store!Seen({}) = [k \in Keys |-> IF Buffered(k) THEN data[hash[k]] ELSE disk[k]]
  BY <1>1, SeenPages
<1> QED BY <1>1, <1>2 DEF Mem, Content

(* A page that is written if it is dirty has on disk what it had in its    *)
(* slot, unless a client is writing it.                                    *)
LEMMA CleanedPages ==
    ASSUME IInv, NEW W \in SUBSET Keys, \A j \in W : Buffered(j),
           NEW k \in Keys, Buffered(k), dirty[hash[k]] => k \in W, k \notin unmarked
    PROVE  Written(W)[k] = data[hash[k]]
<1>1. CASE k \in W  BY <1>1, WrittenFiles
<1>2. CASE k \notin W
  <2>1. disk[k] = data[hash[k]]
    BY <1>2 DEF IInv, CleanPagesMatchDisk, IsDirty
  <2>2. disk[k] # NoPage  BY <2>1, BufferedPages
  <2> QED BY <1>2, <2>1, <2>2, WrittenFiles
<1> QED BY <1>1, <1>2

LEMMA UnpinnedUnmarked ==
    ASSUME IInv, NEW k \in Keys, Pins(k) = 0
    PROVE  k \notin unmarked
  BY DEF IInv, UnmarkedPagesPinned

LEMMA StoreRefuses ==
    ASSUME NEW code, Fails(code)
    PROVE  Store!Refuse(code)
<1>1. UNCHANGED <<numPages, hash, pinCount, data, disk, unmarked>> /\ rc' = code
  BY DEF Fails, lists, descs
<1>2. \A k \in Keys : Content(k)' = Content(k) /\ Pins(k)' = Pins(k)
  BY <1>1 DEF Content, Pins, Buffered
<1> QED BY <1>1, <1>2 DEF Store!Refuse
----------------------------------------------------------------------------
(* InternalAlloc writes no page that is pinned, and the one it evicts had  *)
(* nothing the disk does not get.                                          *)
LEMMA EvictedSeen ==
    ASSUME IInv, NEW s \in AllSlots, Chosen(s)
    PROVE  /\ WrittenBack(s) \in SUBSET (Keys \ PinnedPages)
           /\ \A j \in WrittenBack(s) : Buffered(j)
           /\ \A j \in Evicted(s) : /\ j \in Keys /\ Buffered(j) /\ Pins(j) = 0
                                    /\ Written(WrittenBack(s))[j] = data[hash[j]]
           /\ \A j \in Keys : Buffered(j) /\ j \notin Evicted(s) => hash[j] # s
<1>1. /\ WrittenBack(s) \in SUBSET Keys /\ \A j \in WrittenBack(s) : Buffered(j)
      /\ WrittenBack(s) \in SUBSET (Keys \ PinnedPages)
  BY EvictedPages DEF PinnedPages
<1>2. ASSUME NEW j \in Evicted(s)
      PROVE  Written(WrittenBack(s))[j] = data[hash[j]]
  <2>1. j \in Keys /\ Buffered(j) /\ Pins(j) = 0 /\ hash[j] = s
    BY EvictedPages
  <2>2. j \notin unmarked  BY <2>1, UnpinnedUnmarked
  <2>3. dirty[hash[j]] => j \in WrittenBack(s)  BY <2>1 DEF WrittenBack
  <2> HIDE DEF WrittenBack
  <2> QED BY <1>1, <2>1, <2>2, <2>3, CleanedPages
<1>3. ASSUME NEW j \in Keys, Buffered(j), hash[j] = s
      PROVE  j \in Evicted(s)
  <2>1. s \in InUse /\ key[s] = j  BY <1>3, BufferedPages
  <2> QED BY <2>1, EvictedPages
<1> QED BY <1>1, <1>2, <1>3, EvictedPages

(* Everyone sees what was there before, but in the page that came in.      *)
LEMMA InstallSeen ==
    ASSUME IInv, NEW k \in Keys, ~Buffered(k), NEW s \in AllSlots, Chosen(s),
           NEW v, Install(k, s, v)
    PROVE  /\ Store!WriteBack(WrittenBack(s)) /\ k \notin WrittenBack(s)
           /\ WrittenBack(s) \in SUBSET (Keys \ PinnedPages)
           /\ Mem' = [Store!Seen(WrittenBack(s)) EXCEPT ![k] = v]
           /\ Store!Seen(WrittenBack(s))[k] = Written(WrittenBack(s))[k]
           /\ PinsOf' = [PinsOf EXCEPT ![k] = 1] /\ Pins(k) = 0
           /\ Cardinality(PinnedPages) < numPages
           /\ UNCHANGED numPages /\ rc' = "OK"
<1> DEFINE W == WrittenBack(s)
<1>1. /\ disk' = Written(W) /\ rc' = "OK" /\ UNCHANGED numPages
      /\ \A j \in Keys : hash'[j] = IF j = k THEN s
                                    ELSE IF j \in Evicted(s) THEN INVALID_SLOT ELSE hash[j]
      /\ \A t \in AllSlots : /\ pinCount'[t] = IF t = s THEN 1 ELSE pinCount[t]
                             /\ data'[t] = IF t = s THEN v ELSE data[t]
  BY DEF Install, IInv, TypeOK
<1>2. /\ W \in SUBSET (Keys \ PinnedPages) /\ \A j \in W : Buffered(j)
      /\ \A j \in Evicted(s) : /\ j \in Keys /\ Buffered(j) /\ Pins(j) = 0
                               /\ Written(W)[j] = data[hash[j]]
      /\ \A j \in Keys : Buffered(j) /\ j \notin Evicted(s) => hash[j] # s
  BY EvictedSeen
<1>3. k \notin W /\ k \notin Evicted(s) /\ Pins(k) = 0
  BY <1>2 DEF Pins
<1>4. s # INVALID_SLOT  BY Slots
<1> HIDE DEF W
<1>5. Store!WriteBack(W)  BY <1>1, <1>2, WritesBack
<1>6. Store!Seen(W) = [j \in Keys |-> IF Buffered(j) THEN data[hash[j]] ELSE Written(W)[j]]
  BY <1>2, SeenPages
<1>7. Content(k)' = v /\ Pins(k)' = 1
  BY <1>1, <1>4 DEF Content, Pins, Buffered
<1>8. ASSUME NEW j \in Keys, j # k
      PROVE  /\ Content(j)' = IF Buffered(j) THEN data[hash[j]] ELSE Written(W)[j]
             /\ Pins(j)' = Pins(j)
  <2>1. CASE j \in Evicted(s)
    <3>1. hash'[j] = INVALID_SLOT  BY <1>1, <1>8, <2>1
    <3> QED BY <3>1, <2>1, <1>1, <1>2 DEF Content, Pins, Buffered
  <2>2. CASE j \notin Evicted(s)
    <3>1. hash'[j] = hash[j]  BY <1>1, <1>8, <2>2
    <3>2. CASE Buffered(j)
      <4>1. hash[j] \in AllSlots /\ hash[j] # s  BY <3>2, <2>2, <1>2, Slots
      <4> QED BY <4>1, <3>1, <3>2, <1>1 DEF Content, Pins, Buffered
    <3>3. CASE ~Buffered(j)
      BY <3>1, <3>3, <1>1 DEF Content, Pins, Buffered
    <3> QED BY <3>2, <3>3
  <2> QED BY <2>1, <2>2
<1>9. Mem' = [Store!Seen(W) EXCEPT ![k] = v]
  BY <1>6, <1>7, <1>8 DEF Mem
<1>10. PinsOf' = [PinsOf EXCEPT ![k] = 1]
  BY <1>7, <1>8 DEF PinsOf
<1>11. Cardinality(PinnedPages) < numPages
  <2>1. s \in 0 .. numPages - 1  BY EvictedPages
  <2>2. \A j \in PinnedPages : hash[j] # s
    BY <1>2 DEF PinnedPages, Pins
  <2> QED BY <2>1, <2>2, PinnedFit
<1> QED BY <1>1, <1>2, <1>3, <1>5, <1>6, <1>9, <1>10, <1>11 DEF W

LEMMA GiveBackSeen ==
    ASSUME IInv, NEW s \in AllSlots, Chosen(s), NEW code, GiveBack(s, code)
    PROVE  /\ Store!WriteBack(WrittenBack(s))
           /\ WrittenBack(s) \in SUBSET (Keys \ PinnedPages)
           /\ Mem' = Store!Seen(WrittenBack(s)) /\ PinsOf' = PinsOf
           /\ \A k \in Keys : ~Buffered(k) => Mem'[k] = Written(WrittenBack(s))[k]
           /\ UNCHANGED <<numPages, unmarked>> /\ rc' = code
<1> DEFINE W == WrittenBack(s)
<1>1. /\ disk' = Written(W) /\ rc' = code /\ UNCHANGED <<numPages, data, pinCount, unmarked>>
      /\ \A j \in Keys : hash'[j] = IF j \in Evicted(s) THEN INVALID_SLOT ELSE hash[j]
  BY DEF GiveBack
<1>2. /\ W \in SUBSET (Keys \ PinnedPages) /\ \A j \in W : Buffered(j)
      /\ \A j \in Evicted(s) : /\ j \in Keys /\ Buffered(j) /\ Pins(j) = 0
                               /\ Written(W)[j] = data[hash[j]]
  BY EvictedSeen
<1> HIDE DEF W
<1>3. Store!WriteBack(W)  BY <1>1, <1>2, WritesBack
<1>4. Store!Seen(W) = [j \in Keys |-> IF Buffered(j) THEN data[hash[j]] ELSE Written(W)[j]]
  BY <1>2, SeenPages
<1>5. ASSUME NEW j \in Keys
      PROVE  /\ Content(j)' = IF Buffered(j) THEN data[hash[j]] ELSE Written(W)[j]
             /\ Pins(j)' = Pins(j)
  <2>1. CASE j \in Evicted(s)
    BY <2>1, <1>1, <1>2 DEF Content, Pins, Buffered
  <2>2. CASE j \notin Evicted(s)
    BY <2>2, <1>1 DEF Content, Pins, Buffered
  <2> QED BY <2>1, <2>2
<1>6. Mem' = Store!Seen(W) /\ PinsOf' = PinsOf
  BY <1>4, <1>5 DEF Mem, PinsOf
<1> QED BY <1>1, <1>2, <1>3, <1>4, <1>6 DEF W
----------------------------------------------------------------------------
(* The steps of PageStore.                                                 *)
LEMMA StoreGets ==
    ASSUME IInv, NEW k \in Keys, (\E b \in BOOLEAN : GetPageHit(k, b)) \/ GetPageMiss(k)
    PROVE  Store!Get(k)
<1>1. CASE \E b \in BOOLEAN : GetPageHit(k, b)
  <2>0. PICK b \in BOOLEAN : GetPageHit(k, b)
    BY <1>1
  <2>1. Buffered(k) /\ Mem[k] # NoPage
    BY <2>0, BufferedPages DEF GetPageHit, Mem
  <2>2. CASE Fails("PF_PAGEPINNED") /\ Pins(k) > 0
    BY <2>2, StoreRefuses DEF Store!Get
  <2>3. CASE ~(Fails("PF_PAGEPINNED") /\ Pins(k) > 0)
    <3>1. /\ Pins(k) < MaxPins /\ rc' = "OK"
          /\ pinCount' = [pinCount EXCEPT ![hash[k]] = @ + 1]
          /\ UNCHANGED <<numPages, hash, data, disk, unmarked>>
      BY <2>0, <2>3, <2>1, BufferedPages DEF GetPageHit
    <3>2. /\ hash[k] \in AllSlots /\ pinCount \in [AllSlots -> 0 .. MaxPins]
          /\ Pins(k) = pinCount[hash[k]]
          /\ \A j \in Keys : hash[j] = hash[k] => j = k
      BY <2>1, BufferedPages DEF IInv, TypeOK
    <3>3. Mem' = Mem
      BY <3>1 DEF Mem, Content, Buffered
    <3>4. Pins(k)' = Pins(k) + 1
      BY <3>1, <3>2, <2>1 DEF Pins, Buffered
    <3>5. \A j \in Keys \ {k} : Pins(j)' = Pins(j)
      BY <3>1, <3>2, Slots DEF Pins, Buffered
    <3>6. PinsOf' = [PinsOf EXCEPT ![k] = @ + 1]
      BY <3>4, <3>5 DEF PinsOf
    <3>7. Pins(k) = 0 => Cardinality(PinnedPages) < numPages
      <4>1. hash[k] \in 0 .. numPages - 1
        BY <2>1, BufferedPages DEF IInv, SlotsListedOnce
      <4>2. Pins(k) = 0 => \A j \in PinnedPages : hash[j] # hash[k]
        BY <3>2 DEF PinnedPages
      <4> QED BY <4>1, <4>2, PinnedFit
    <3>8. Store!WriteBack({}) /\ Store!Seen({}) = Mem
      BY <3>1, NothingWritten, WritesBack
    <3> QED
      BY <2>1, <3>1, <3>3, <3>6, <3>7, <3>8, StoreState
      DEF Store!Get, Store!MakeRoom, Mem, PinsOf
  <2> QED BY <2>2, <2>3
<1>2. ASSUME NoneToChoose, Fails("PF_NOBUF"), ~Buffered(k)
      PROVE  Store!Get(k)
  <2>1. Pins(k) = 0 /\ Cardinality(PinnedPages) = numPages
    BY <1>2, PinnedFit DEF Pins
  <2> QED BY <1>2, <2>1, StoreRefuses, StoreState DEF Store!Get
<1>3. ASSUME EvictionFails
      PROVE  Store!Get(k)
  <2>1. IOErrors /\ Store!Refuse("PF_UNIX") /\ UNCHANGED disk
    BY <1>3, StoreRefuses DEF EvictionFails, Fails
  <2>2. Store!WriteBack({}) /\ Store!Seen({}) = Mem
    BY <2>1, NothingWritten, WritesBack
  <2> QED BY <2>1, <2>2 DEF Store!Get, Store!Refuse, Store!MakeRoom, Mem, PinsOf
<1>4. ASSUME ~Buffered(k), NEW s \in AllSlots, Chosen(s),
             Written(WrittenBack(s))[k] # NoPage,
             Install(k, s, Written(WrittenBack(s))[k]), UNCHANGED unmarked
      PROVE  Store!Get(k)
  <2> DEFINE W == WrittenBack(s)
             v == Written(W)[k]
  <2>1. /\ Store!WriteBack(W) /\ W \in SUBSET (Keys \ PinnedPages)
        /\ Mem' = [Store!Seen(W) EXCEPT ![k] = v] /\ Store!Seen(W)[k] = v
        /\ PinsOf' = [PinsOf EXCEPT ![k] = 1] /\ Pins(k) = 0
        /\ Cardinality(PinnedPages) < numPages
        /\ UNCHANGED numPages /\ rc' = "OK"
    BY <1>4, InstallSeen
  <2>2. v # NoPage  BY <1>4
  <2> HIDE DEF W, v
  <2>3. Mem' = Store!Seen(W) /\ Mem'[k] # NoPage
    BY <2>1, <2>2 DEF Store!Seen
  <2>4. PinsOf' = [PinsOf EXCEPT ![k] = @ + 1] /\ PinsOf[k] = 0
    BY <2>1 DEF PinsOf
  <2>5. PinsOf[k] < MaxPins  BY <2>4, SizesAssumption
  <2> QED
    BY <1>4, <2>1, <2>3, <2>4, <2>5, StoreState
    DEF Store!Get, Store!MakeRoom, Mem, PinsOf
<1>5. ASSUME ~Buffered(k), NEW s \in AllSlots, Chosen(s),
             \/ Written(WrittenBack(s))[k] = NoPage /\ GiveBack(s, "PF_INCOMPLETEREAD")
             \/ IOErrors /\ GiveBack(s, "PF_UNIX")
      PROVE  Store!Get(k)
  <2> DEFINE W == WrittenBack(s)
  <2>1. /\ Store!WriteBack(W) /\ W \in SUBSET (Keys \ PinnedPages)
        /\ Mem' = Store!Seen(W) /\ PinsOf' = PinsOf
        /\ Mem'[k] = Written(W)[k] /\ UNCHANGED <<numPages, unmarked>>
    BY <1>5, GiveBackSeen
  <2>2. \/ rc' = "PF_INCOMPLETEREAD" /\ Mem'[k] = NoPage
        \/ rc' = "PF_UNIX" /\ IOErrors
    BY <1>5, <2>1 DEF GiveBack
  <2> HIDE DEF W
  <2> QED
    BY <2>1, <2>2, StoreState DEF Store!Get, Store!MakeRoom, Mem, PinsOf
<1>6. CASE GetPageMiss(k)
  BY <1>2, <1>3, <1>4, <1>5, <1>6 DEF GetPageMiss
<1> QED BY <1>1, <1>6

LEMMA StoreAllocates ==
    ASSUME IInv, NEW k \in Keys, AllocatePage(k)
    PROVE  Store!Allocate(k)
<1>1. CASE Fails("PF_PAGEINBUF") /\ Buffered(k)
  <2>1. Mem[k] # NoPage  BY <1>1, BufferedPages DEF Mem
  <2> QED BY <1>1, <2>1, StoreRefuses DEF Store!Allocate, Mem
<1>2. CASE NoneToChoose /\ Fails("PF_NOBUF") /\ ~Buffered(k)
  <2>1. Pins(k) = 0 /\ Cardinality(PinnedPages) = numPages
    BY <1>2, PinnedFit DEF Pins
  <2> QED BY <1>2, <2>1, StoreRefuses, StoreState DEF Store!Allocate
<1>3. CASE EvictionFails
  BY <1>3, StoreRefuses DEF EvictionFails, Store!Allocate
<1>4. ASSUME ~Buffered(k), NEW s \in AllSlots, Chosen(s),
             Install(k, s, data[s]), unmarked' = unmarked \cup {k}
      PROVE  Store!Allocate(k)
  <2> DEFINE W == WrittenBack(s)
             v == data[s]
  <2>1. /\ Store!WriteBack(W) /\ W \in SUBSET (Keys \ PinnedPages) /\ k \notin W
        /\ Mem' = [Store!Seen(W) EXCEPT ![k] = v]
        /\ PinsOf' = [PinsOf EXCEPT ![k] = 1] /\ Pins(k) = 0
        /\ Cardinality(PinnedPages) < numPages
        /\ UNCHANGED numPages /\ rc' = "OK"
    BY <1>4, InstallSeen
  <2>2. v \in Vals  BY DEF IInv, TypeOK
  <2> HIDE DEF W, v
  <2>3. W \in SUBSET (Keys \ (PinnedPages \cup {k}))  BY <2>1
  <2> QED
    BY <1>4, <2>1, <2>2, <2>3, StoreState
    DEF Store!Allocate, Store!MakeRoom, Mem, PinsOf
<1> QED BY <1>1, <1>2, <1>3, <1>4 DEF AllocatePage
LEMMA StoreWrites ==
    ASSUME IInv, NEW k \in Keys, NEW v \in Vals, WriteData(k, v)
    PROVE  Store!Write(k, v)
<1>1. /\ Pins(k) > 0 /\ Buffered(k) /\ data' = [data EXCEPT ![hash[k]] = v]
      /\ UNCHANGED <<numPages, hash, pinCount, disk, rc>>
      /\ unmarked' = unmarked \cup {k}
  BY DEF WriteData, Pins, lists, descs
<1>2. hash[k] \in AllSlots /\ data \in [AllSlots -> Vals]
  BY <1>1, Slots DEF IInv, TypeOK
<1>3. Content(k)' = v
  BY <1>1, <1>2 DEF Content, Buffered
<1>4. ASSUME NEW j \in Keys, j # k
      PROVE  Content(j)' = Content(j)
  <2>1. hash[j] # hash[k]  BY <1>1, <1>4, BufferedPages
  <2>2. CASE Buffered(j)
    <3>1. hash[j] \in AllSlots  BY <2>2, Slots
    <3> QED BY <2>1, <2>2, <3>1, <1>1, <1>2 DEF Content, Buffered
  <2>3. CASE ~Buffered(j)  BY <2>3, <1>1 DEF Content, Buffered
  <2> QED BY <2>2, <2>3
<1>5. Mem' = [Mem EXCEPT ![k] = v]
  BY <1>3, <1>4 DEF Mem
<1>6. PinsOf' = PinsOf
  BY <1>1 DEF PinsOf, Pins, Buffered
<1> QED BY <1>1, <1>5, <1>6 DEF Store!Write, Mem, PinsOf

LEMMA StoreMarks ==
    ASSUME IInv, NEW k \in Keys, MarkDirty(k)
    PROVE  Store!Mark(k)
<1>1. CASE ~Buffered(k)
  <2>1. Fails("PF_PAGENOTINBUF") /\ Pins(k) = 0
    BY <1>1 DEF MarkDirty, Pins
  <2> QED BY <2>1, StoreRefuses DEF Store!Mark
<1>2. CASE Buffered(k) /\ Pins(k) = 0
  <2>1. Fails("PF_PAGEUNPINNED")  BY <1>2 DEF MarkDirty
  <2> QED BY <1>2, <2>1, StoreRefuses DEF Store!Mark
<1>3. CASE Buffered(k) /\ Pins(k) # 0
  <2>1. /\ unmarked' = unmarked \ {k} /\ rc' = "OK"
        /\ UNCHANGED <<numPages, hash, pinCount, data, disk>>
    BY <1>3 DEF MarkDirty
  <2>2. Pins(k) > 0  BY <1>3, BufferedPages
  <2>3. Mem' = Mem /\ PinsOf' = PinsOf
    BY <2>1 DEF Mem, PinsOf, Content, Pins, Buffered
  <2> QED BY <2>1, <2>2, <2>3 DEF Store!Mark, Mem, PinsOf
<1> QED BY <1>1, <1>2, <1>3

LEMMA StoreUnpins ==
    ASSUME IInv, NEW k \in Keys, UnpinPage(k)
    PROVE  Store!Unpin(k)
<1>1. CASE ~Buffered(k)
  <2>1. Fails("PF_PAGENOTINBUF") /\ Pins(k) = 0
    BY <1>1 DEF UnpinPage, Pins
  <2> QED BY <2>1, StoreRefuses DEF Store!Unpin
<1>2. CASE Buffered(k) /\ Pins(k) = 0
  <2>1. Fails("PF_PAGEUNPINNED")  BY <1>2 DEF UnpinPage
  <2> QED BY <1>2, <2>1, StoreRefuses DEF Store!Unpin
<1>3. CASE Buffered(k) /\ Pins(k) # 0
  <2>1. /\ pinCount' = [pinCount EXCEPT ![hash[k]] = @ - 1] /\ rc' = "OK"
        /\ UNCHANGED <<numPages, hash, data, disk, unmarked>>
        /\ Pins(k) = 1 => k \notin unmarked
    BY <1>3 DEF UnpinPage
  <2>2. /\ Pins(k) > 0 /\ Pins(k) = pinCount[hash[k]] /\ hash[k] \in AllSlots
        /\ pinCount \in [AllSlots -> 0 .. MaxPins]
        /\ \A j \in Keys : hash[j] = hash[k] => j = k
    BY <1>3, BufferedPages DEF IInv, TypeOK
  <2>3. Mem' = Mem
    BY <2>1 DEF Mem, Content, Buffered
  <2>4. Pins(k)' = Pins(k) - 1
    BY <2>1, <2>2, <1>3 DEF Pins, Buffered
  <2>5. \A j \in Keys \ {k} : Pins(j)' = Pins(j)
    BY <2>1, <2>2, Slots DEF Pins, Buffered
  <2>6. PinsOf' = [PinsOf EXCEPT ![k] = @ - 1]
    BY <2>4, <2>5 DEF PinsOf
  <2> QED BY <2>1, <2>2, <2>3, <2>6 DEF Store!Unpin, Mem, PinsOf
<1> QED BY <1>1, <1>2, <1>3

(* A flush drops what it writes; every page looks as it did before.        *)
LEMMA FlushSeen ==
    ASSUME IInv, NEW f, NEW n \in Nat, n <= Len(used), NEW code, FlushUpTo(f, n, code)
    PROVE  /\ \E W \in SUBSET {k \in Keys : fd(k) = f /\ Pins(k) = 0} :
                Store!WriteBack(W) /\ Mem' = Store!Seen(W)
           /\ PinsOf' = PinsOf /\ UNCHANGED <<numPages, unmarked>> /\ rc' = code
           /\ \A k \in Keys : hash[k] \in Flushable(f, n) \/ ~Buffered(k) => Mem'[k] = disk'[k]
<1> DEFINE S == Flushable(f, n)
           W == DirtyPages(S)
<1>1. S \in SUBSET InUse /\ \A s \in S : pinCount[s] = 0 /\ fd(key[s]) = f
  BY FlushableSlots
<1>2. /\ disk' = Written(W) /\ rc' = code /\ UNCHANGED <<numPages, pinCount, data, unmarked>>
      /\ \A k \in Keys : hash'[k] = IF hash[k] \in S THEN INVALID_SLOT ELSE hash[k]
  BY DEF FlushUpTo, Release
<1> HIDE DEF S
<1>3. \A k \in W : k \in Keys /\ hash[k] \in S
  BY <1>1, DirtyFiles
<1>4. \A k \in Keys : hash[k] \in S => Buffered(k)
  BY <1>1, Slots DEF Buffered
<1>5. \A k \in Keys : hash[k] \in S => Pins(k) = 0 /\ fd(k) = f
  BY <1>1, <1>4, BufferedPages
<1>6. \A k \in Keys : hash[k] \in S /\ dirty[hash[k]] => k \in W
  BY <1>4, BufferedPages DEF DirtyPages
<1> HIDE DEF W
<1>7. W \in SUBSET {k \in Keys : fd(k) = f /\ Pins(k) = 0} /\ \A k \in W : Buffered(k)
  BY <1>3, <1>4, <1>5
<1>8. Store!WriteBack(W)  BY <1>2, <1>7, WritesBack
<1>9. Store!Seen(W) = [k \in Keys |-> IF Buffered(k) THEN data[hash[k]] ELSE Written(W)[k]]
  BY <1>7, SeenPages
<1>10. ASSUME NEW k \in Keys
       PROVE  /\ Content(k)' = IF Buffered(k) THEN data[hash[k]] ELSE Written(W)[k]
              /\ Pins(k)' = Pins(k)
  <2>1. CASE hash[k] \in S
    <3>1. Written(W)[k] = data[hash[k]]
      BY <2>1, <1>4, <1>5, <1>6, <1>7, UnpinnedUnmarked, CleanedPages
    <3> QED BY <2>1, <3>1, <1>2, <1>4, <1>5 DEF Content, Pins, Buffered
  <2>2. CASE hash[k] \notin S
    BY <2>2, <1>2 DEF Content, Pins, Buffered
  <2> QED BY <2>1, <2>2
<1>11. Mem' = Store!Seen(W) /\ PinsOf' = PinsOf
  BY <1>9, <1>10 DEF Mem, PinsOf
<1>12. ASSUME NEW k \in Keys, hash[k] \in S \/ ~Buffered(k)
       PROVE  Mem'[k] = disk'[k]
  <2>1. ~Buffered(k)'
    BY <1>2, <1>12 DEF Buffered
  <2> QED BY <2>1 DEF Mem, Content
<1> QED BY <1>2, <1>7, <1>8, <1>11, <1>12 DEF S

LEMMA StoreFlushes ==
    ASSUME IInv, NEW f, FlushPages(f)
    PROVE  Store!Flush(f)
<1> DEFINE here == {k \in Keys : fd(k) = f}
           loose == here \ PinnedPages
           pinned == \E s \in InUse : fd(key[s]) = f /\ pinCount[s] > 0
<1>0. used \in Seq(AllSlots) /\ Len(used) \in Nat
  BY DEF IInv, TypeOK
<1>1. \A k \in Keys : Pins(k) \in Nat
  BY BufferedPages DEF Pins
<1>2. loose = {k \in Keys : fd(k) = f /\ Pins(k) = 0}
  BY <1>1 DEF PinnedPages
<1>3. pinned <=> loose # here
  <2>1. ASSUME NEW s \in InUse, fd(key[s]) = f, pinCount[s] > 0
        PROVE  key[s] \in here \ loose
    <3>1. key[s] \in Keys /\ hash[key[s]] = s /\ Buffered(key[s])
      BY Slots DEF IInv, HashMatchesUsed, Buffered
    <3>2. Pins(key[s]) > 0  BY <2>1, <3>1 DEF Pins
    <3> QED BY <2>1, <3>1, <3>2 DEF PinnedPages
  <2>2. ASSUME NEW k \in here, Pins(k) > 0
        PROVE  pinned
    <3>1. Buffered(k)  BY <2>2 DEF Pins
    <3>2. hash[k] \in InUse /\ fd(key[hash[k]]) = f /\ pinCount[hash[k]] > 0
      BY <2>2, <3>1, BufferedPages
    <3> QED BY <3>2
  <2> QED BY <2>1, <2>2 DEF PinnedPages
<1>4. /\ Store!Pinned = PinnedPages
      /\ {k \in Keys : Store!file(k) = f} = here
  BY StoreState
<1> HIDE DEF pinned
<1>5. ASSUME NEW n \in Nat, n <= Len(used), NEW code, FlushUpTo(f, n, code),
             \/ /\ n = Len(used)
                /\ code = IF pinned THEN "PF_PAGEPINNED" ELSE "OK"
             \/ code = "PF_UNIX" /\ IOErrors
      PROVE  Store!Flush(f)
  <2>1. /\ \E W \in SUBSET loose : Store!WriteBack(W) /\ Mem' = Store!Seen(W)
        /\ PinsOf' = PinsOf /\ UNCHANGED <<numPages, unmarked>> /\ rc' = code
        /\ \A k \in Keys : hash[k] \in Flushable(f, n) \/ ~Buffered(k) => Mem'[k] = disk'[k]
    BY <1>2, <1>5, FlushSeen
  <2>2. ASSUME n = Len(used), NEW k \in loose
        PROVE  Mem'[k] = disk'[k]
    <3>1. CASE Buffered(k)
      <4>1. hash[k] \in InUse /\ pinCount[hash[k]] = 0 /\ fd(key[hash[k]]) = f
        BY <3>1, <1>2, BufferedPages
      <4>2. PICK i \in 1 .. Len(used) : used[i] = hash[k]
        BY <4>1, <1>0 DEF InUse, Range
      <4>3. hash[k] \in Flushable(f, n)
        BY <2>2, <4>1, <4>2 DEF Flushable
      <4> QED BY <4>3, <2>1
    <3>2. CASE ~Buffered(k)  BY <3>2, <2>1
    <3> QED BY <3>1, <3>2
  <2>3. \/ rc' = "OK" /\ loose = here /\ (\A k \in here : Mem'[k] = disk'[k])
        \/ rc' = "PF_PAGEPINNED" /\ loose # here /\ (\A k \in loose : Mem'[k] = disk'[k])
        \/ rc' = "PF_UNIX" /\ IOErrors
    <3>1. CASE code = "PF_UNIX" /\ IOErrors  BY <3>1, <2>1
    <3>2. CASE n = Len(used) /\ pinned /\ code = "PF_PAGEPINNED"
      BY <3>2, <2>1, <2>2, <1>3
    <3>3. CASE n = Len(used) /\ ~pinned /\ code = "OK"
      BY <3>3, <2>1, <2>2, <1>3
    <3> QED BY <1>5, <3>1, <3>2, <3>3
  <2> HIDE DEF loose, here
  <2> QED
    BY <2>1, <2>3, <1>4 DEF Store!Flush, Mem, PinsOf, loose
<1>6. \A n \in DOMAIN used : n - 1 \in Nat /\ n - 1 <= Len(used)
  BY <1>0
<1>7. CASE FlushUpTo(f, Len(used), IF pinned THEN "PF_PAGEPINNED" ELSE "OK")
  BY <1>7, <1>5, <1>0
<1>8. CASE IOErrors /\ \E n \in DOMAIN used : FlushUpTo(f, n - 1, "PF_UNIX")
  BY <1>8, <1>5, <1>6
<1> QED BY <1>7, <1>8 DEF FlushPages, pinned
LEMMA StoreForces ==
    ASSUME IInv, NEW P \in SUBSET Keys, ForcePages(P)
    PROVE  Store!Force(P)
<1>0. used \in Seq(AllSlots) /\ Len(used) \in Nat
  BY DEF IInv, TypeOK
<1>1. ASSUME NEW n \in Nat, n <= Len(used), NEW code, ForceUpTo(P, n, code),
             \/ n = Len(used) /\ code = "OK"
             \/ code = "PF_UNIX" /\ IOErrors
      PROVE  Store!Force(P)
  <2> DEFINE S == {used[i] : i \in {j \in 1 .. n : key[used[j]] \in P}}
             W == DirtyPages(S)
  <2>1. /\ disk' = Written(W) /\ rc' = code
        /\ UNCHANGED <<numPages, hash, pinCount, data, unmarked>>
    BY <1>1 DEF ForceUpTo, lists
  <2>2. S \in SUBSET InUse /\ \A s \in S : key[s] \in P
    <3>1. \A j \in 1 .. n : j \in DOMAIN used  BY <1>0, <1>1
    <3> QED BY <3>1 DEF InUse, Range
  <2>3. n = Len(used) => \A k \in P : Buffered(k) => hash[k] \in S
    <3> SUFFICES ASSUME n = Len(used), NEW k \in P, Buffered(k)
                 PROVE  hash[k] \in S
      OBVIOUS
    <3>1. hash[k] \in InUse /\ key[hash[k]] = k  BY BufferedPages
    <3>2. PICK i \in 1 .. Len(used) : used[i] = hash[k]
      BY <3>1, <1>0 DEF InUse, Range
    <3> QED BY <3>1, <3>2
  <2> HIDE DEF S
  <2>4. \A k \in W : k \in P
    BY <2>2 DEF DirtyPages
  <2>5. \A k \in W : Buffered(k)
    BY <2>2, DirtyFiles, Slots DEF Buffered
  <2>6. \A k \in Keys : Buffered(k) /\ hash[k] \in S /\ dirty[hash[k]] => k \in W
    BY BufferedPages DEF DirtyPages
  <2> HIDE DEF W
  <2>7. W \in SUBSET P /\ W \in SUBSET Keys  BY <2>4
  <2>8. Store!WriteBack(W)  BY <2>1, <2>5, <2>7, WritesBack
  <2>9. Store!Seen(W) = [k \in Keys |-> IF Buffered(k) THEN data[hash[k]] ELSE Written(W)[k]]
    BY <2>5, <2>7, SeenPages
  <2>10. Mem' = Store!Seen(W) /\ PinsOf' = PinsOf
    <3>1. \A k \in Keys : /\ Pins(k)' = Pins(k)
                          /\ Content(k)' = IF Buffered(k) THEN data[hash[k]] ELSE Written(W)[k]
      BY <2>1 DEF Content, Pins, Buffered
    <3> QED BY <3>1, <2>9 DEF Mem, PinsOf
  <2>11. ASSUME n = Len(used), NEW k \in P \ unmarked
         PROVE  Mem'[k] = disk'[k]
    <3>1. CASE Buffered(k)
      <4>1. Written(W)[k] = data[hash[k]]
        BY <2>3, <2>5, <2>6, <2>7, <2>11, <3>1, CleanedPages
      <4> QED BY <4>1, <3>1, <2>1, <2>9, <2>10
    <3>2. CASE ~Buffered(k)
      BY <3>2, <2>1, <2>9, <2>10
    <3> QED BY <3>1, <3>2
  <2>12. \/ rc' = "OK" /\ \A k \in P \ unmarked : Mem'[k] = disk'[k]
         \/ rc' = "PF_UNIX" /\ IOErrors
    BY <1>1, <2>1, <2>11
  <2> QED BY <2>1, <2>7, <2>8, <2>10, <2>12 DEF Store!Force, Mem, PinsOf
<1>2. CASE ForceUpTo(P, Len(used), "OK")
  BY <1>0, <1>1, <1>2
<1>3. CASE IOErrors /\ \E n \in DOMAIN used : ForceUpTo(P, n - 1, "PF_UNIX")
  <2>1. \A n \in DOMAIN used : n - 1 \in Nat /\ n - 1 <= Len(used)
    BY <1>0
  <2> QED BY <1>1, <1>3, <2>1
<1> QED BY <1>2, <1>3 DEF ForcePages

LEMMA StoreResets ==
    ASSUME IInv, \/ ClearBuffer
                 \/ \E n \in 1 .. MaxSlots : NoPins /\ ResizeBuffer(n)
    PROVE  Store!Reset
<1>0. numPages \in 1 .. MaxSlots
  BY DEF IInv, TypeOK
<1>1. CASE ClearBuffer
  <2> DEFINE S == {s \in InUse : pinCount[s] = 0}
  <2>1. /\ Resets /\ rc' = "OK" /\ UNCHANGED <<numPages, pinCount, data, disk, unmarked>>
        /\ \A k \in Keys : hash'[k] = IF hash[k] \in S THEN INVALID_SLOT ELSE hash[k]
    BY <1>1 DEF ClearBuffer, Release, descs
  <2>2. \A k \in Keys : hash[k] \in S <=> Buffered(k) /\ Pins(k) = 0
    <3> TAKE k \in Keys
    <3>1. CASE Buffered(k)  BY <3>1, BufferedPages
    <3>2. CASE ~Buffered(k)  BY <3>2, Slots DEF Buffered
    <3> QED BY <3>1, <3>2
  <2> HIDE DEF S
  <2>3. ASSUME NEW k \in Keys
        PROVE  /\ Pins(k)' = Pins(k)
               /\ Content(k)' = IF Pins(k) > 0 THEN Content(k) ELSE disk[k]
    <3>1. CASE hash[k] \in S
      <4>1. Pins(k) = 0 /\ ~(Pins(k) > 0)  BY <2>2, <3>1
      <4>2. ~Buffered(k)'  BY <2>1, <3>1 DEF Buffered
      <4>3. Pins(k)' = 0 /\ Content(k)' = disk[k]
        BY <4>2, <2>1 DEF Content, Pins
      <4> QED BY <4>1, <4>3
    <3>2. CASE hash[k] \notin S /\ Buffered(k)
      <4>1. Pins(k) > 0  BY <2>2, <3>2, BufferedPages
      <4>2. hash'[k] = hash[k]  BY <2>1, <3>2
      <4> QED BY <4>1, <4>2, <3>2, <2>1 DEF Content, Pins, Buffered
    <3>3. CASE ~Buffered(k)
      <4>1. hash'[k] = hash[k]  BY <2>1, <2>2, <3>3
      <4> QED BY <4>1, <3>3, <2>1 DEF Content, Pins, Buffered
    <3> QED BY <3>1, <3>2, <3>3
  <2>4. /\ PinsOf' = PinsOf
        /\ Mem' = [k \in Keys |-> IF PinsOf[k] > 0 THEN Mem[k] ELSE disk[k]]
    BY <2>3 DEF Mem, PinsOf
  <2> QED BY <1>0, <2>1, <2>4 DEF Store!Reset, Mem, PinsOf
<1>2. ASSUME NEW n \in 1 .. MaxSlots, NoPins, ResizeBuffer(n)
      PROVE  Store!Reset
  <2>1. /\ used \in Seq(AllSlots) /\ {s \in InUse : pinCount[s] > 0} = {}
    BY <1>2, Slots DEF NoPins, IInv, TypeOK
  <2>2. Range(Kept(used, {})) = {}
    BY <2>1, KeptProperties DEF IInv, SlotsListedOnce
  <2>3. /\ Resets /\ rc' = "OK" /\ numPages' = n /\ UNCHANGED <<disk, unmarked>>
        /\ hash' = [k \in Keys |-> INVALID_SLOT]
    BY <1>2, <2>1, <2>2 DEF ResizeBuffer
  <2>4. \A k \in Keys : Pins(k) = 0
    BY <1>2, BufferedPages DEF NoPins, Pins
  <2>5. \A k \in Keys : Pins(k)' = 0 /\ Content(k)' = disk[k]
    BY <2>3 DEF Pins, Content, Buffered
  <2>6. PinsOf' = PinsOf /\ Mem' = [k \in Keys |-> IF PinsOf[k] > 0 THEN Mem[k] ELSE disk[k]]
    BY <2>4, <2>5 DEF PinsOf, Mem
  <2>7. Store!Pinned = {}
    BY <2>4, StoreState DEF PinnedPages
  <2> QED BY <2>3, <2>6, <2>7 DEF Store!Reset, Mem, PinsOf
<1> QED BY <1>1, <1>2

LEMMA StoreStep ==
    ASSUME IInv, [Next]_vars
    PROVE  [Store!Next]_Store!vars
<1>1. ASSUME NEW k \in Keys, (\E b \in BOOLEAN : GetPageHit(k, b)) \/ GetPageMiss(k)
      PROVE  Store!Next
  BY <1>1, StoreGets DEF Store!Next
<1>2. ASSUME NEW k \in Keys, AllocatePage(k)
      PROVE  Store!Next
  BY <1>2, StoreAllocates DEF Store!Next
<1>3. ASSUME NEW k \in Keys, NEW v \in Vals, WriteData(k, v)
      PROVE  Store!Next
  BY <1>3, StoreWrites DEF Store!Next
<1>4. ASSUME NEW k \in Keys, MarkDirty(k)
      PROVE  Store!Next
  BY <1>4, StoreMarks DEF Store!Next
<1>5. ASSUME NEW k \in Keys, UnpinPage(k)
      PROVE  Store!Next
  BY <1>5, StoreUnpins DEF Store!Next
<1>6. ASSUME NEW k \in Keys, ForcePages({k})
      PROVE  Store!Next
  BY <1>6, StoreForces DEF Store!Next
<1>7. ASSUME NEW f \in Files, FlushPages(f) \/ ForcePages(PagesOf(f))
      PROVE  Store!Next
  <2>1. f \in {Store!file(k) : k \in Keys} /\ {k \in Keys : Store!file(k) = f} = PagesOf(f)
    BY StoreState DEF Files, PagesOf
  <2>2. PagesOf(f) \in SUBSET Keys  BY DEF PagesOf
  <2>3. Store!Flush(f) \/ Store!Force({k \in Keys : Store!file(k) = f})
    BY <1>7, <2>1, <2>2, StoreFlushes, StoreForces
  <2> QED BY <2>1, <2>3 DEF Store!Next
<1>8. CASE ClearBuffer \/ \E n \in 1 .. MaxSlots : NoPins /\ ResizeBuffer(n)
  BY <1>8, StoreResets DEF Store!Next
<1>9. CASE UNCHANGED vars
  <2>1. UNCHANGED <<numPages, hash, pinCount, data, disk, unmarked, rc>>
    BY <1>9 DEF vars
  <2> QED BY <2>1 DEF Store!vars, Content, Pins, Buffered
<1> QED
  BY <1>1, <1>2, <1>3, <1>4, <1>5, <1>6, <1>7, <1>8, <1>9 DEF Next

(* What the layers above rely on: a page holds what its clients wrote,     *)
(* whatever is read, evicted, flushed or forced around it; a flush or a    *)
(* force that returns 0 has put it on disk; and the pool runs out of       *)
(* slots only when as many pages are pinned as the table has.              *)
THEOREM ImplementsPageStore == Spec => StoreSpec
<1>1. Init => Store!Init
  <2> SUFFICES ASSUME Init PROVE Store!Init  OBVIOUS
  <2>1. /\ numPages = BufSize /\ hash = [k \in Keys |-> INVALID_SLOT]
        /\ disk \in [Keys -> {Zero, NoPage}] /\ unmarked = {} /\ rc = "OK"
    BY DEF Init, EmptyPool
  <2>2. \A k \in Keys : Content(k) = disk[k] /\ Pins(k) = 0
    BY <2>1 DEF Content, Pins, Buffered
  <2>3. Mem = disk /\ PinsOf = [k \in Keys |-> 0]
    BY <2>1, <2>2 DEF Mem, PinsOf
  <2>4. disk \in [Keys -> Vals \cup {NoPage}] /\ BufSize \in 1 .. MaxSlots
    BY <2>1, ValsAssumption, SizesAssumption
  <2> QED BY <2>1, <2>3, <2>4 DEF Store!Init, Mem, PinsOf
<1>2. IInv /\ [Next]_vars => [Store!Next]_Store!vars
  BY StoreStep
<1> QED BY <1>1, <1>2, IInvHolds, PTL DEF Spec, StoreSpec, Store!Spec
=============================================================================
