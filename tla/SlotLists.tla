----------------------------- MODULE SlotLists -----------------------------
(***************************************************************************)
(* The two lists of PF_BufferMgr as its callers see them: the used list by *)
(* recency and the free list, a stack.  BufferMgr drives them this way,    *)
(* and BufferLinks shows that the pointers of the code implement it.       *)
(***************************************************************************)
EXTENDS SlotSeqs

CONSTANTS MaxSlots,    \* bound: slots of the largest table
          BufSize,     \* slots of the first table
          Keys,        \* the pages
          NoKey,       \* the slot has never held a page
          Resets       \* TRUE when the table may be replaced

VARIABLES numPages, used, free,
          key,         \* the page a slot holds, or held last
          pinned       \* the used slots that are pinned

vars == <<numPages, used, free, key, pinned>>

EmptyTable(n) == /\ numPages = n
                 /\ used = <<>>
                 /\ free = [i \in 1 .. n |-> i - 1]
                 /\ key = [s \in 0 .. MaxSlots - 1 |-> NoKey]
                 /\ pinned = {}

Init == EmptyTable(BufSize)

(* The free slot released last or, when there is none, the used slot that  *)
(* comes last among those not pinned.                                      *)
Chosen(s) ==
    \/ free # <<>> /\ s = Head(free)
    \/ /\ free = <<>> /\ s \in Range(used) \ pinned
       /\ \A i, j \in DOMAIN used : used[i] = s /\ i < j => used[j] \in pinned

(* InternalAlloc; the caller puts its page into the slot and pins it or,   *)
(* if its read fails, gives the slot back.                                 *)
Claim(s, k) ==
    /\ Chosen(s)
    /\ key' = [key EXCEPT ![s] = k]
    /\ free' = Unlink(free, s)
    /\ used' = MoveToHead(used, s)
    /\ pinned' = pinned \cup {s}
    /\ UNCHANGED numPages

GiveBack(s) ==
    /\ Chosen(s)
    /\ free' = MoveToHead(free, s)
    /\ used' = Unlink(used, s)
    /\ UNCHANGED <<numPages, key, pinned>>

(* GetPage of a buffered page, MarkDirty and the last UnpinPage make the   *)
(* slot the most recently used one; it keeps its page.                     *)
Touch(s) ==
    /\ s \in Range(used)
    /\ used' = MoveToHead(used, s)
    /\ pinned' \in {pinned, pinned \cup {s}, pinned \ {s}}
    /\ UNCHANGED <<numPages, free, key>>

(* FlushPages and ClearBuffer release slots in the order of the used list. *)
Release(S) ==
    /\ S \in SUBSET (Range(used) \ pinned)
    /\ used' = Kept(used, Range(used) \ S)
    /\ free' = ReverseOf(Kept(used, S)) \o free
    /\ UNCHANGED <<numPages, key, pinned>>

Resize(n) == Resets /\ pinned = {} /\ EmptyTable(n)'

Next == \/ \E s \in 0 .. MaxSlots - 1 : Touch(s)
        \/ \E s \in 0 .. MaxSlots - 1 : GiveBack(s) \/ \E k \in Keys : Claim(s, k)
        \/ \E S \in SUBSET (0 .. MaxSlots - 1) : Release(S)
        \/ \E n \in 1 .. MaxSlots : Resize(n)

Spec == Init /\ [][Next]_vars
=============================================================================
