----------------------------- MODULE PageStore -----------------------------
(***************************************************************************)
(* What PF_BufferMgr promises to the layers above it, without slots, lists *)
(* or a hash table: a page has contents that only its clients change, a    *)
(* copy on disk that may lag behind, and pins that keep it in memory.      *)
(* Pages reach the disk at any time; a read, a flush or an eviction never  *)
(* changes what a page holds.  The layers above are modelled on this.      *)
(***************************************************************************)
EXTENDS Integers, FiniteSets

CONSTANTS Keys, Vals, Zero, NoPage, MaxPins, MaxSlots, IOErrors, Resets

VARIABLES
    mem,         \* what a client finds in the page, NoPage if it has none
    durable,     \* what the file holds
    pins,        \* how many times the page is pinned
    unmarked,    \* pages written and not yet marked dirty
    capacity,    \* how many pages may be pinned at once
    rc           \* what the last call returned

vars == <<mem, durable, pins, unmarked, capacity, rc>>

file(k) == k[1]
number(k) == k[2]
Pinned == {k \in Keys : pins[k] > 0}

(* A write past the end of a file fills the gap with zeros.                *)
Grown(f, W) ==
    [k \in Keys |->
        IF f[k] = NoPage /\ \E w \in W : file(w) = file(k) /\ number(k) < number(w)
        THEN Zero ELSE f[k]]

(* The pages in W reach the disk; nothing a client sees changes, but for   *)
(* pages that had no contents at all.                                      *)
WriteBack(W) ==
    /\ \A k \in W : mem[k] # NoPage
    /\ durable' = [k \in Keys |-> IF k \in W THEN mem[k] ELSE Grown(durable, W)[k]]
Seen(W) == [k \in Keys |-> IF mem[k] = NoPage THEN Grown(mem, W)[k] ELSE mem[k]]

Init ==
    /\ durable \in [Keys -> Vals \cup {NoPage}]
    /\ mem = durable
    /\ pins = [k \in Keys |-> 0]
    /\ unmarked = {}
    /\ capacity \in 1 .. MaxSlots
    /\ rc = "OK"

Refuse(code) == rc' = code /\ UNCHANGED <<mem, durable, pins, unmarked, capacity>>

(* Making room may write other pages back, if they are not pinned.         *)
MakeRoom(W) == WriteBack(W) /\ UNCHANGED capacity

Get(k) ==
    \/ /\ rc' = "OK"
       /\ pins[k] < MaxPins /\ pins' = [pins EXCEPT ![k] = @ + 1]
       /\ pins[k] = 0 => Cardinality(Pinned) < capacity
       /\ UNCHANGED unmarked
       /\ \E W \in SUBSET (Keys \ Pinned) : MakeRoom(W) /\ mem' = Seen(W)
       /\ mem'[k] # NoPage
    \/ /\ \/ rc' = "PF_INCOMPLETEREAD" /\ mem'[k] = NoPage
          \/ rc' = "PF_UNIX" /\ IOErrors
       /\ UNCHANGED <<pins, unmarked>>
       /\ \E W \in SUBSET (Keys \ Pinned) : MakeRoom(W) /\ mem' = Seen(W)
    \/ Refuse("PF_NOBUF") /\ pins[k] = 0 /\ Cardinality(Pinned) = capacity
    \/ Refuse("PF_PAGEPINNED") /\ pins[k] > 0

(* A new page has arbitrary contents until it is written.                  *)
Allocate(k) ==
    \/ /\ rc' = "OK"
       /\ pins[k] = 0 /\ Cardinality(Pinned) < capacity
       /\ pins' = [pins EXCEPT ![k] = 1]
       /\ unmarked' = unmarked \cup {k}
       /\ \E W \in SUBSET (Keys \ (Pinned \cup {k})), v \in Vals :
            MakeRoom(W) /\ mem' = [Seen(W) EXCEPT ![k] = v]
    \/ Refuse("PF_NOBUF") /\ pins[k] = 0 /\ Cardinality(Pinned) = capacity
    \/ Refuse("PF_UNIX") /\ IOErrors
    \/ Refuse("PF_PAGEINBUF") /\ mem[k] # NoPage

Write(k, v) ==
    /\ pins[k] > 0
    /\ mem' = [mem EXCEPT ![k] = v]
    /\ unmarked' = unmarked \cup {k}
    /\ UNCHANGED <<durable, pins, capacity, rc>>

Mark(k) ==
    \/ /\ pins[k] > 0 /\ unmarked' = unmarked \ {k} /\ rc' = "OK"
       /\ UNCHANGED <<mem, durable, pins, capacity>>
    \/ /\ pins[k] = 0
       /\ \E code \in {"PF_PAGENOTINBUF", "PF_PAGEUNPINNED"} : Refuse(code)

Unpin(k) ==
    \/ /\ pins[k] > 0 /\ (pins[k] = 1 => k \notin unmarked)
       /\ pins' = [pins EXCEPT ![k] = @ - 1] /\ rc' = "OK"
       /\ UNCHANGED <<mem, durable, unmarked, capacity>>
    \/ /\ pins[k] = 0
       /\ \E code \in {"PF_PAGENOTINBUF", "PF_PAGEUNPINNED"} : Refuse(code)

(* After a flush that returns 0 every page of the file is on disk; a       *)
(* warning says that a page of the file is pinned and was left.            *)
Flush(f) ==
    LET here == {k \in Keys : file(k) = f}
        loose == here \ Pinned
    IN  /\ UNCHANGED <<pins, unmarked, capacity>>
        /\ \/ rc' = "OK" /\ loose = here /\ (\A k \in here : mem'[k] = durable'[k])
           \/ /\ rc' = "PF_PAGEPINNED" /\ loose # here
              /\ \A k \in loose : mem'[k] = durable'[k]
           \/ rc' = "PF_UNIX" /\ IOErrors
        /\ \E W \in SUBSET loose : WriteBack(W) /\ mem' = Seen(W)

(* After a force that returns 0 the pages that were marked are on disk.    *)
Force(P) ==
    /\ UNCHANGED <<pins, unmarked, capacity>>
    /\ \/ rc' = "OK" /\ (\A k \in P \ unmarked : mem'[k] = durable'[k])
       \/ rc' = "PF_UNIX" /\ IOErrors
    /\ \E W \in SUBSET P : WriteBack(W) /\ mem' = Seen(W)

(* "reset buffer" and "resize buffer": pages that are not pinned go back   *)
(* to what is on disk.                                                     *)
Reset ==
    /\ Resets
    /\ mem' = [k \in Keys |-> IF pins[k] > 0 THEN mem[k] ELSE durable[k]]
    /\ capacity' \in 1 .. MaxSlots
    /\ capacity' # capacity => Pinned = {}
    /\ rc' = "OK"
    /\ UNCHANGED <<durable, pins, unmarked>>

Next ==
    \/ \E k \in Keys : \/ Get(k) \/ Allocate(k) \/ Mark(k) \/ Unpin(k) \/ Force({k})
                       \/ \E v \in Vals : Write(k, v)
    \/ \E f \in {file(k) : k \in Keys} : Flush(f) \/ Force({k \in Keys : file(k) = f})
    \/ Reset

Spec == Init /\ [][Next]_vars
=============================================================================
