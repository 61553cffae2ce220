----------------------------- MODULE RoundRobin -----------------------------
(***************************************************************************)
(* What a round-robin scheduler promises, without lists, slices or an      *)
(* interrupt handler: the threads form a ring, the CPU goes from the       *)
(* running thread to the next one in the ring that is not blocked, a new   *)
(* thread takes a place in the ring without disturbing the others, and     *)
(* nobody ever leaves the ring.  Scheduler.tla implements it.              *)
(***************************************************************************)
EXTENDS SequencesExt, Naturals

CONSTANTS Threads,  \* every thread there may ever be
          Boot      \* what runs before the first thread does

VARIABLES ring,     \* the threads in the order they are served
          blocked,  \* the threads that do not want the CPU
          running   \* the thread that has it

vars == <<ring, blocked, running>>

\* The position k places after position i in a ring of n.
Around(i, k, n) == ((i - 1 + k) % n) + 1

\* The first thread after running, in ring order, that is not blocked:
\* running itself if there is no other.
Successor ==
    LET n == Len(ring)
        i == CHOOSE j \in 1..n : ring[j] = running
        k == CHOOSE k \in 1..n :
                 /\ ring[Around(i, k, n)] \notin blocked
                 /\ \A m \in 1..(k - 1) : ring[Around(i, m, n)] \in blocked
    IN  ring[Around(i, k, n)]

Init ==
    /\ ring \in SetToAllKPermutations(Threads)
    /\ blocked = {}
    /\ running = Boot

\* The boot code gives way to some thread that wants the CPU.
Start ==
    /\ running = Boot
    /\ running' \in ToSet(ring) \ blocked
    /\ UNCHANGED <<ring, blocked>>

Dispatch ==
    /\ running # Boot
    /\ ToSet(ring) \ blocked # {}
    /\ running' = Successor
    /\ UNCHANGED <<ring, blocked>>

Block ==
    /\ \E t \in ToSet(ring) : blocked' = blocked \cup {t}
    /\ UNCHANGED <<ring, running>>

\* Only the thread that has the CPU is unblocked.
Unblock ==
    /\ running \in blocked
    /\ blocked' = blocked \ {running}
    /\ UNCHANGED <<ring, running>>

Insert ==
    /\ \E t \in Threads \ ToSet(ring), i \in 1..(Len(ring) + 1) :
           ring' = InsertAt(ring, i, t)
    /\ UNCHANGED <<blocked, running>>

Next == Start \/ Dispatch \/ Block \/ Unblock \/ Insert

Spec == Init /\ [][Next]_vars
=============================================================================
