------------------------------ MODULE PageSet ------------------------------
(***************************************************************************)
(* What PF promises of a file: a set of pages in use, each with contents,  *)
(* that survive closing and opening it, whatever the buffer pool does.  A  *)
(* page handed out is one nobody uses, and zeroed.                         *)
(***************************************************************************)
EXTENDS Integers

CONSTANTS MaxPages, Vals, Zero, Unused

VARIABLES exists,    \* there is a file
          open,      \* it is open
          pages,     \* the contents of the pages in use, Unused for others
          pins       \* how often each is pinned

vars == <<exists, open, pages, pins>>
PageNums == 0 .. MaxPages - 1

Init == /\ exists = FALSE /\ open = FALSE
        /\ pages = [p \in PageNums |-> Unused]
        /\ pins = [p \in PageNums |-> 0]

Create == /\ ~exists /\ exists' = TRUE
          /\ pages' = [p \in PageNums |-> Unused]
          /\ UNCHANGED <<open, pins>>
Destroy == /\ exists /\ ~open /\ exists' = FALSE
           /\ pages' = [p \in PageNums |-> Unused]
           /\ UNCHANGED <<open, pins>>
Open == exists /\ ~open /\ open' = TRUE /\ UNCHANGED <<exists, pages, pins>>
Close == /\ open /\ (\A p \in PageNums : pins[p] = 0) /\ open' = FALSE
         /\ UNCHANGED <<exists, pages, pins>>

Allocate(p) == /\ open /\ pages[p] = Unused
               /\ pages' = [pages EXCEPT ![p] = Zero]
               /\ pins' = [pins EXCEPT ![p] = 1]
               /\ UNCHANGED <<exists, open>>
Dispose(p) == /\ open /\ pages[p] # Unused /\ pins[p] = 0
              /\ pages' = [pages EXCEPT ![p] = Unused]
              /\ UNCHANGED <<exists, open, pins>>
Write(p, v) == /\ pins[p] > 0
               /\ pages' = [pages EXCEPT ![p] = v]
               /\ UNCHANGED <<exists, open, pins>>
Pin(p) == /\ open /\ pages[p] # Unused
          /\ pins' = [pins EXCEPT ![p] = @ + 1]
          /\ UNCHANGED <<exists, open, pages>>
Unpin(p) == /\ pins[p] > 0
            /\ pins' = [pins EXCEPT ![p] = @ - 1]
            /\ UNCHANGED <<exists, open, pages>>

Next == \/ Create \/ Destroy \/ Open \/ Close
        \/ \E p \in PageNums : \/ Allocate(p) \/ Dispose(p) \/ Pin(p) \/ Unpin(p)
                               \/ \E v \in Vals : Write(p, v)

Spec == Init /\ [][Next]_vars
=============================================================================
