---------------------------- MODULE MCScheduler ----------------------------
(***************************************************************************)
(* A small kernel for TLC: the process and the two threads SchedInit       *)
(* makes, one thread and one process to be created later; and the mapping  *)
(* under which the scheduler implements RoundRobin.                        *)
(***************************************************************************)
EXTENDS Scheduler, SequencesExt

CONSTANTS Worker, User

\* The elements reached from e through the Next pointers.
RECURSIVE Chain(_)
Chain(e) == IF e = NULL THEN <<>> ELSE <<e>> \o Chain(next[e])

\* The order in which PickNextThread visits the threads.
Ring ==
    LET procs == Chain(Kernel)
    IN  FlattenSeq([i \in DOMAIN procs |-> Chain(first[procs[i]])])

Abstract == INSTANCE RoundRobin WITH
                ring <- Ring,
                blocked <- { t \in Threads : State[t] = SLEEPING },
                running <- cpu.owner

\* The pointers, the slices and the search loop of SchedIrqHandler amount to a
\* round-robin scheduler: the CPU always goes to the next thread in list order
\* that does not sleep, and LListPushBack never costs a thread its place.
ImplementsRoundRobin == Abstract!Spec
=============================================================================
