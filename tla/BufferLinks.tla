---------------------------- MODULE BufferLinks ----------------------------
(***************************************************************************)
(* The lists of PF_BufferMgr down to the pointers: next and prev of every  *)
(* descriptor and the three heads first, last and free.  The free list     *)
(* uses next only, and prev keeps whatever it held.  The pointers are one  *)
(* record, and each member function of the code maps a record to the next. *)
(***************************************************************************)
EXTENDS SlotSeqs

CONSTANTS MaxSlots, BufSize, Keys, NoKey, Resets

ASSUME SizesAssumption == MaxSlots \in Nat /\ BufSize \in 1 .. MaxSlots

VARIABLES
    numPages,
    links,       \* [next, prev, first, last, free]
    key,         \* the page of every slot
    pinned       \* the slots whose pinCount is positive

vars == <<numPages, links, key, pinned>>

INVALID_SLOT == -1
AllSlots == 0 .. MaxSlots - 1

(* The constructor, and the new table of ResizeBuffer.                     *)
FreshLinks(n) ==
    [next  |-> [s \in AllSlots |-> IF s < n - 1 THEN s + 1 ELSE INVALID_SLOT],
     prev  |-> [s \in AllSlots |-> IF s < n THEN s - 1 ELSE INVALID_SLOT],
     first |-> INVALID_SLOT,
     last  |-> INVALID_SLOT,
     free  |-> 0]

(* A slot becomes the head of the free list.                               *)
InsertFree(L, s) == [L EXCEPT !.next[s] = L.free, !.free = s]

(* Broken: the old head of the list does not point back to the new one.    *)
BrokenLinkSlot(L, s) ==
    [L EXCEPT !.next[s] = L.first, !.prev[s] = INVALID_SLOT, !.first = s,
              !.last = IF L.last = INVALID_SLOT THEN s ELSE L.last]

LinkSlot(L, s) ==
    [L EXCEPT
        !.next[s] = L.first,
        !.prev = [t \in AllSlots |-> IF t = s THEN INVALID_SLOT
                                     ELSE IF t = L.first THEN s ELSE L.prev[t]],
        !.first = s,
        !.last = IF L.last = INVALID_SLOT THEN s ELSE L.last]

UnlinkSlot(L, s) ==
    [next |-> [t \in AllSlots |-> IF t = s THEN INVALID_SLOT
                                  ELSE IF t = L.prev[s] THEN L.next[s] ELSE L.next[t]],
     prev |-> [t \in AllSlots |-> IF t = s THEN INVALID_SLOT
                                  ELSE IF t = L.next[s] THEN L.prev[s] ELSE L.prev[t]],
     first |-> IF L.first = s THEN L.next[s] ELSE L.first,
     last  |-> IF L.last = s THEN L.prev[s] ELSE L.last,
     free  |-> L.free]

PopFree(L) == [L EXCEPT !.free = L.next[L.free]]

(* The slots met from h along the pointers p; one more than the table has  *)
(* when they run in a cycle.                                               *)
Chain(p, h) ==
    LET walk[n \in 0 .. numPages + 1] ==
            IF n = 0 THEN <<>>
            ELSE LET q == walk[n - 1]
                     t == IF q = <<>> THEN h ELSE p[q[Len(q)]]
                 IN  IF t = INVALID_SLOT THEN q ELSE Append(q, t)
    IN  walk[numPages + 1]

UsedChain == Chain(links.next, links.first)
BackChain == Chain(links.prev, links.last)
FreeChain == Chain(links.next, links.free)
----------------------------------------------------------------------------
NoKeys == [s \in AllSlots |-> NoKey]

Init == /\ numPages = BufSize /\ links = FreshLinks(BufSize)
        /\ key = NoKeys /\ pinned = {}

(* Broken: the search for the victim starts from first, along next.        *)
BrokenVictims ==
    {UsedChain[i] : i \in {j \in DOMAIN UsedChain :
        UsedChain[j] \notin pinned /\ \A l \in 1 .. j - 1 : UsedChain[l] \in pinned}}

(* InternalAlloc looks for its victim from last, along prev.               *)
Victims ==
    {BackChain[i] : i \in {j \in DOMAIN BackChain :
        BackChain[j] \notin pinned /\ \A l \in 1 .. j - 1 : BackChain[l] \in pinned}}

Taken(s) ==
    IF links.free # INVALID_SLOT
    THEN s = links.free
    ELSE s \in Victims
Detached(s) ==
    IF links.free # INVALID_SLOT THEN PopFree(links) ELSE UnlinkSlot(links, s)

Claim(s, k) == /\ Taken(s)
               /\ links' = LinkSlot(Detached(s), s)
               /\ key' = [key EXCEPT ![s] = k]
               /\ pinned' = pinned \cup {s}
               /\ UNCHANGED numPages

(* The read into the claimed slot fails.                                   *)
GiveBack(s) == /\ Taken(s)
               /\ links' = InsertFree(UnlinkSlot(LinkSlot(Detached(s), s), s), s)
               /\ UNCHANGED <<numPages, key, pinned>>

Touch(s) == /\ s \in Range(UsedChain)
            /\ links' = LinkSlot(UnlinkSlot(links, s), s)
            /\ pinned' \in {pinned, pinned \cup {s}, pinned \ {s}}
            /\ UNCHANGED <<numPages, key>>

(* The loop of FlushPages and ClearBuffer: next is read before the slot is *)
(* unlinked, so the walk survives the release of the slot it stands on.    *)
ReleaseLoop(S) ==
    LET step[n \in 0 .. numPages] ==
            IF n = 0 THEN [L |-> links, at |-> links.first]
            ELSE LET L == step[n - 1].L
                     s == step[n - 1].at
                 IN  IF s = INVALID_SLOT THEN step[n - 1]
                     ELSE [L  |-> IF s \in S THEN InsertFree(UnlinkSlot(L, s), s) ELSE L,
                           at |-> L.next[s]]
    IN  step[numPages].L

Release(S) == /\ S \in SUBSET (Range(UsedChain) \ pinned)
              /\ links' = ReleaseLoop(S)
              /\ UNCHANGED <<numPages, key, pinned>>

Resize(n) == /\ Resets /\ pinned = {}
             /\ numPages' = n /\ links' = FreshLinks(n) /\ key' = NoKeys
             /\ UNCHANGED pinned

Next == \/ \E s \in AllSlots :
            \/ \E k \in Keys : Claim(s, k)
            \/ GiveBack(s) \/ Touch(s)
        \/ \E S \in SUBSET AllSlots : Release(S)
        \/ \E n \in 1 .. MaxSlots : Resize(n)

Spec == Init /\ [][Next]_vars
----------------------------------------------------------------------------
TypeOK ==
    /\ numPages \in 1 .. MaxSlots
    /\ links \in [next : [AllSlots -> AllSlots \cup {INVALID_SLOT}],
                  prev : [AllSlots -> AllSlots \cup {INVALID_SLOT}],
                  first : AllSlots \cup {INVALID_SLOT},
                  last : AllSlots \cup {INVALID_SLOT},
                  free : AllSlots \cup {INVALID_SLOT}]
    /\ key \in [AllSlots -> Keys \cup {NoKey}]
    /\ pinned \in SUBSET AllSlots

(* The used list reads the same in both directions, so that the search for *)
(* a victim, which follows prev, meets the slots in reverse order of use.  *)
BackIsReverse == BackChain = ReverseOf(UsedChain)

(* A walk along next ends: no slot is reachable twice, on a list or across *)
(* the two, and none of the table is out of reach.                         *)
ListsPartition ==
    /\ Len(UsedChain) + Len(FreeChain) = numPages
    /\ Range(UsedChain) \cup Range(FreeChain) = 0 .. numPages - 1

(* The links are whole: they have the types of the fields, the used list   *)
(* reads the same in both directions, and the two lists are the table.     *)
LinksInv == TypeOK /\ BackIsReverse /\ ListsPartition

Lists == INSTANCE SlotLists WITH used <- UsedChain, free <- FreeChain
ListsSpec == Lists!Spec
=============================================================================
