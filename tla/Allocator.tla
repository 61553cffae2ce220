----------------------------- MODULE Allocator -----------------------------
(***************************************************************************)
(* What malloc and realloc promise, without majors, minors, page requests  *)
(* or a lock: a block is given out at an aligned address, where no other   *)
(* block is, as long as was asked for; it never moves, and may only become *)
(* shorter.  Nothing is given back, as the kernel has no free.  Heap.tla   *)
(* implements it.                                                          *)
(***************************************************************************)
EXTENDS Integers

CONSTANTS Addresses,    \* where a block may start
          Requests,     \* the lengths that may be asked for
          ALIGNMENT     \* every block starts at a multiple of it

VARIABLE blocks         \* what has been given out: [p, size]

Apart(a, b) == a.p + a.size <= b.p \/ b.p + b.size <= a.p

Init == blocks = {}

Allocate ==
    \E p \in Addresses, n \in Requests :
        LET new == [p |-> p, size |-> n]
        IN  /\ p % ALIGNMENT = 0
            /\ \A b \in blocks : b.p # p /\ Apart(new, b)
            /\ blocks' = blocks \cup {new}

Shrink ==
    \E b \in blocks, n \in Requests :
        /\ n < b.size
        /\ blocks' = (blocks \ {b}) \cup {[b EXCEPT !.size = n]}

Next == Allocate \/ Shrink

Spec == Init /\ [][Next]_blocks
=============================================================================
