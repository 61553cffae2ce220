--------------------------- MODULE SchedulerProofs ---------------------------
(***************************************************************************)
(* Proofs about the scheduler for every number of threads and processes,   *)
(* every time slice and every width of RemainingCpuTime.                   *)
(*                                                                         *)
(* The argument goes in three layers.  Shape says that the pointers lead   *)
(* from threads to threads of the same process and from processes to       *)
(* processes, none of them to an unallocated record, and that the          *)
(* scheduler's two cursors agree; with TypeOK it is inductive.  On top of  *)
(* it, Ownership relates the context the CPU executes, the saved frames    *)
(* and the cursors.  Linking, which needs a single creator, says where     *)
(* LListPushBack stands in the list it extends.                            *)
(***************************************************************************)
EXTENDS Scheduler, TLAPS

------------------------------------------------------------------------------
\* Pointers stay within their kind, within one process, and on records that
\* exist.
ListShape ==
    /\ \A t \in Threads : next[t] # NULL =>
           /\ next[t] \in Threads
           /\ status[next[t]] # "free"
           /\ ParentProcess[next[t]] = ParentProcess[t]
    /\ \A p \in Procs : next[p] # NULL =>
           /\ next[p] \in Procs
           /\ status[next[p]] # "free"
    /\ \A p \in Procs : first[p] # NULL =>
           /\ status[first[p]] # "free"
           /\ ParentProcess[first[p]] = p
    /\ \A t \in Threads : status[t] # "free" =>
           /\ ParentProcess[t] \in Procs
           /\ status[ParentProcess[t]] # "free"
    /\ status[Kernel] # "free"

\* What the locals of a context point to, at each point of the code.
ContextShape(c) ==
    /\ c.at = "setTime" => c.elem \in Threads
    /\ c.at \in {"attach", "walk", "link"} =>
           /\ c.elem \in Elements
           /\ status[c.elem] # "free"
           /\ c.elem \in Procs => c.ptr \in Procs /\ status[c.ptr] # "free"
           /\ (c.elem \in Threads /\ c.ptr # NULL) =>
                  /\ c.ptr \in Threads
                  /\ status[c.ptr] # "free"
                  /\ ParentProcess[c.ptr] = ParentProcess[c.elem]
    /\ c.at \in {"walk", "link"} => c.ptr # NULL

\* The scheduler's cursors: no current thread exactly while the search is
\* between two processes, and a current thread belongs to the current process.
CursorShape ==
    /\ status[CurrIteratedProc] # "free"
    /\ handler = "scan" <=> CurrIteratedThread = NULL
    /\ CurrIteratedThread # NULL =>
           /\ status[CurrIteratedThread] # "free"
           /\ ParentProcess[CurrIteratedThread] = CurrIteratedProc

Shape ==
    /\ ListShape
    /\ ContextShape(cpu)
    /\ \A t \in Threads : ContextShape(CPUFrame[t])
    /\ CursorShape

Inv1 == TypeOK /\ Shape

\* Who executes, with what state, and what the handler already knows.
Ownership ==
    /\ FrameOwnership
    /\ SleeperHoldsCpuOnlyInSleep
    /\ cpu.owner # Boot => cpu.owner \in Threads
    /\ handler # "none" => initialized
    /\ initialized /\ handler = "none" => cpu.owner # Boot
    /\ handler = "load" => State[CurrIteratedThread] = RUNNING
    /\ (handler # "none" /\ cpu.owner # Boot) =>
           \/ handler = "load" /\ CurrIteratedThread = cpu.owner
           \/ State[cpu.owner] = SLEEPING
           \/ RemainingCpuTime[cpu.owner] = 0

\* Inside LListPushBack the new record is not linked, and once the walk has
\* ended the record it ended at is the last one.
ContextLinking(c) ==
    /\ c.at \in {"attach", "walk", "link"} =>
           /\ c.owner \in Creators
           /\ status[c.elem] = "building"
           /\ c.ptr # NULL => status[c.ptr] = "listed"
           /\ c.ptr = NULL => first[ParentProcess[c.elem]] = NULL
    /\ c.at = "link" => next[c.ptr] = NULL

Linking ==
    /\ NothingUnlinked
    /\ \A e \in Elements : status[e] = "free" => next[e] = NULL
    /\ \A p \in Procs : status[p] = "free" => first[p] = NULL
    /\ \A p \in Procs : first[p] # NULL => status[first[p]] = "listed"
    /\ \A e \in Elements : next[e] # NULL => status[next[e]] = "listed"
    /\ status[Kernel] = "listed"
    /\ handler = "none" => ContextLinking(cpu)
    /\ \A t \in Threads : (handler # "none" \/ t # cpu.owner) =>
           ContextLinking(CPUFrame[t])

------------------------------------------------------------------------------
(* First layer: types and shapes *)

LEMMA RunningIsContext ==
    \A t \in Threads \cup {Boot} :
        Running(t) \in Contexts /\ ContextShape(Running(t))
BY DEF Running, Contexts, Points, ContextShape

LEMMA InitInv1 == Init => Inv1
<1> SUFFICES ASSUME Init PROVE Inv1
    OBVIOUS
<1> USE ConstantsAssumption DEF Init
<1>1. TypeOK
    <2>1. /\ status \in [Elements -> {"free", "building", "listed"}]
          /\ next \in [Elements -> Elements \cup {NULL}]
          /\ first \in [Procs -> Threads \cup {NULL}]
          /\ ParentProcess \in [Threads -> Procs \cup {NULL}]
          /\ PageDirectory \in [Procs -> Procs \cup {NULL}]
        BY DEF Elements
    <2>2. /\ State \in [Threads -> {RUNNING, SLEEPING}]
          /\ RemainingCpuTime \in [Threads -> 0..UINT32_MAX]
        OBVIOUS
    <2>3. CPUFrame \in [Threads -> Contexts] /\ cpu \in Contexts
        BY RunningIsContext
    <2> QED
        BY <2>1, <2>2, <2>3 DEF TypeOK
<1>2. ListShape
    BY DEF ListShape, Elements
<1>3. ContextShape(cpu) /\ \A t \in Threads : ContextShape(CPUFrame[t])
    BY RunningIsContext
<1>4. CursorShape
    BY DEF CursorShape, Elements
<1> QED
    BY <1>1, <1>2, <1>3, <1>4 DEF Inv1, Shape

\* Nothing in Inv1 depends on variables that are unchanged.
LEMMA IrqInv1 ==
    ASSUME Inv1, NEW ctx \in Contexts, ContextShape(ctx),
           handler = "none", SchedIrqHandler(ctx)
    PROVE  Inv1'
<1> USE ConstantsAssumption DEF Inv1, Shape
<1>1. CurrIteratedThread \in Threads
    BY DEF TypeOK, CursorShape
<1>2. /\ RemainingCpuTime' \in [Threads -> 0..UINT32_MAX]
      /\ State' \in [Threads -> {RUNNING, SLEEPING}]
      /\ handler' \in {"pick", "load"}
    BY <1>1 DEF TypeOK, SchedIrqHandler, TickRunning, TickSleeping, Decremented
<1>3. /\ CPUFrame' \in [Threads -> Contexts]
      /\ \A t \in Threads : CPUFrame'[t] = CPUFrame[t] \/ CPUFrame'[t] = ctx
    BY <1>1 DEF TypeOK, SchedIrqHandler, SchedSaveFrame
<1>4. UNCHANGED <<status, next, first, ParentProcess, PageDirectory, cpu,
                  CurrIteratedProc, CurrIteratedThread, CurrentPageDirectory>>
    BY DEF SchedIrqHandler, listVars
<1>5. TypeOK'
    BY <1>2, <1>3, <1>4 DEF TypeOK, SchedIrqHandler
<1>6. ListShape'
    BY <1>4 DEF ListShape
<1>7. ContextShape(cpu)' /\ \A t \in Threads : ContextShape(CPUFrame[t])'
    BY <1>3, <1>4 DEF ContextShape
<1>8. CursorShape'
    BY <1>1, <1>2, <1>4 DEF CursorShape
<1> QED
    BY <1>5, <1>6, <1>7, <1>8

\* Examine moves the thread cursor to any thread of the current process.
LEMMA ExamineInv1 ==
    ASSUME Inv1, NEW t \in Threads, Examine(t),
           CurrIteratedProc' \in Procs, status[CurrIteratedProc'] # "free",
           status[t] # "free", ParentProcess[t] = CurrIteratedProc',
           UNCHANGED scanFrame
    PROVE  Inv1'
<1> USE ConstantsAssumption DEF Inv1, Shape
<1>1. /\ RemainingCpuTime' \in [Threads -> 0..UINT32_MAX]
      /\ CurrIteratedThread' = t
      /\ handler' \in {"pick", "load"}
    BY DEF TypeOK, Examine, Decremented
<1>2. UNCHANGED <<status, next, first, ParentProcess, PageDirectory, cpu,
                  State, CPUFrame, CurrentPageDirectory, initialized>>
    BY DEF scanFrame, listVars
<1>3. TypeOK'
    BY <1>1, <1>2 DEF TypeOK
<1>4. ListShape'
    BY <1>2 DEF ListShape
<1>5. ContextShape(cpu)' /\ \A u \in Threads : ContextShape(CPUFrame[u])'
    BY <1>2 DEF ContextShape
<1>6. CursorShape'
    BY <1>1, <1>2 DEF CursorShape, Elements
<1> QED
    BY <1>3, <1>4, <1>5, <1>6

LEMMA PickNextThreadInv1 == Inv1 /\ PickNextThread => Inv1'
<1> SUFFICES ASSUME Inv1, PickNextThread PROVE Inv1'
    OBVIOUS
<1> USE ConstantsAssumption DEF Inv1, Shape
<1>1. CurrIteratedThread \in Threads
    BY DEF TypeOK, CursorShape, PickNextThread
<1>2. CASE next[CurrIteratedThread] # NULL
    <2> DEFINE t == next[CurrIteratedThread]
    <2>1. /\ t \in Threads
          /\ status[t] # "free"
          /\ ParentProcess[t] = CurrIteratedProc
        BY <1>1, <1>2 DEF ListShape, CursorShape, Elements
    <2>2. Examine(t) /\ UNCHANGED CurrIteratedProc /\ UNCHANGED scanFrame
        BY <1>2 DEF PickNextThread
    <2>3. CurrIteratedProc' \in Procs /\ status[CurrIteratedProc'] # "free"
        BY <2>2 DEF TypeOK, CursorShape
    <2> QED
        BY <2>1, <2>2, <2>3, ExamineInv1
<1>3. CASE next[CurrIteratedThread] = NULL
    <2>1. /\ CurrIteratedThread' = NULL /\ handler' = "scan"
          /\ UNCHANGED <<status, next, first, ParentProcess, PageDirectory,
                         cpu, State, RemainingCpuTime, CPUFrame, initialized,
                         CurrentPageDirectory, CurrIteratedProc>>
        BY <1>3 DEF PickNextThread, scanFrame, listVars
    <2>2. TypeOK'
        BY <2>1 DEF TypeOK
    <2>3. ListShape'
        BY <2>1 DEF ListShape
    <2>4. ContextShape(cpu)' /\ \A u \in Threads : ContextShape(CPUFrame[u])'
        BY <2>1 DEF ContextShape
    <2>5. CursorShape'
        BY <2>1 DEF CursorShape
    <2> QED
        BY <2>2, <2>3, <2>4, <2>5
<1> QED
    BY <1>2, <1>3

LEMMA PickNextProcessInv1 == Inv1 /\ PickNextProcess => Inv1'
<1> SUFFICES ASSUME Inv1, PickNextProcess PROVE Inv1'
    OBVIOUS
<1> USE ConstantsAssumption DEF Inv1, Shape
<1> DEFINE p == CurrIteratedProc'
<1>1. /\ p \in Procs /\ status[p] # "free"
      /\ UNCHANGED scanFrame /\ handler = "scan"
    BY DEF PickNextProcess, ListShape, TypeOK
<1>2. CASE first[p] # NULL
    <2>1. /\ first[p] \in Threads
          /\ status[first[p]] # "free"
          /\ ParentProcess[first[p]] = p
        BY <1>1, <1>2 DEF ListShape, TypeOK
    <2>2. Examine(first[p])
        BY <1>2 DEF PickNextProcess
    <2> QED
        BY <1>1, <2>1, <2>2, ExamineInv1
<1>3. CASE first[p] = NULL
    <2>1. UNCHANGED <<status, next, first, ParentProcess, PageDirectory,
                      cpu, State, RemainingCpuTime, CPUFrame, initialized,
                      CurrentPageDirectory, CurrIteratedThread, handler>>
        BY <1>3 DEF PickNextProcess, scanFrame, listVars
    <2>2. TypeOK'
        BY <1>1, <2>1 DEF TypeOK
    <2>3. ListShape'
        BY <2>1 DEF ListShape
    <2>4. ContextShape(cpu)' /\ \A u \in Threads : ContextShape(CPUFrame[u])'
        BY <2>1 DEF ContextShape
    <2>5. CursorShape'
        BY <1>1, <2>1 DEF CursorShape
    <2> QED
        BY <2>2, <2>3, <2>4, <2>5
<1> QED
    BY <1>2, <1>3

LEMMA SchedLoadFrameInv1 == Inv1 /\ SchedLoadFrame => Inv1'
<1> SUFFICES ASSUME Inv1, SchedLoadFrame PROVE Inv1'
    OBVIOUS
<1> USE ConstantsAssumption DEF Inv1, Shape
<1>1. CurrIteratedThread \in Threads
    BY DEF TypeOK, CursorShape, SchedLoadFrame
<1>2. /\ UNCHANGED <<status, next, first, ParentProcess, PageDirectory, State,
                     RemainingCpuTime, CPUFrame, initialized,
                     CurrIteratedProc, CurrIteratedThread>>
      /\ cpu' = CPUFrame[CurrIteratedThread]
      /\ handler' = "none"
    BY DEF SchedLoadFrame, listVars
<1>3. CurrentPageDirectory' \in Procs \cup {BootDirectory}
    BY DEF SchedLoadFrame, SwitchTo, TypeOK
<1>4. TypeOK'
    BY <1>1, <1>2, <1>3 DEF TypeOK
<1>5. ListShape'
    BY <1>2 DEF ListShape
<1>6. ContextShape(cpu)' /\ \A u \in Threads : ContextShape(CPUFrame[u])'
    BY <1>1, <1>2 DEF ContextShape
<1>7. CursorShape'
    BY <1>1, <1>2 DEF CursorShape, Elements
<1> QED
    BY <1>4, <1>5, <1>6, <1>7

LEMMA SleepInv1 == Inv1 /\ Sleep => Inv1'
<1> SUFFICES ASSUME Inv1, Sleep PROVE Inv1'
    OBVIOUS
<1> USE ConstantsAssumption DEF Inv1, Shape
<1>1. ASSUME NEW t \in Threads, NEW m \in Millis, SleepSetState(t, m)
      PROVE  Inv1'
    <2>1. /\ UNCHANGED <<status, next, first, ParentProcess, PageDirectory,
                         RemainingCpuTime, CPUFrame, initialized, handler,
                         CurrIteratedProc, CurrIteratedThread,
                         CurrentPageDirectory>>
          /\ cpu' = [cpu EXCEPT !.at = "setTime", !.elem = t, !.millis = m]
          /\ State' = [State EXCEPT ![t] = SLEEPING]
        BY <1>1 DEF SleepSetState, Goto, listVars, schedVars, TypeOK, Contexts
    <2>2. cpu' \in Contexts /\ cpu'.at = "setTime" /\ cpu'.elem = t
        BY <2>1 DEF TypeOK, Contexts, Points, Elements
    <2>3. TypeOK'
        BY <2>1, <2>2 DEF TypeOK
    <2>4. ListShape'
        BY <2>1 DEF ListShape
    <2>5. ContextShape(cpu)' /\ \A u \in Threads : ContextShape(CPUFrame[u])'
        BY <2>1, <2>2 DEF ContextShape
    <2>6. CursorShape'
        BY <2>1 DEF CursorShape
    <2> QED
        BY <2>3, <2>4, <2>5, <2>6
<1>2. ASSUME SleepSetTime PROVE Inv1'
    <2>1. /\ UNCHANGED <<status, next, first, ParentProcess, PageDirectory,
                         State, CPUFrame, initialized, handler,
                         CurrIteratedProc, CurrIteratedThread,
                         CurrentPageDirectory>>
          /\ cpu' = [cpu EXCEPT !.at = "softTick"]
        BY <1>2 DEF SleepSetTime, Goto, listVars, schedVars
    <2>2. cpu' \in Contexts /\ cpu'.at = "softTick"
        BY <2>1 DEF TypeOK, Contexts, Points
    <2>3. cpu.millis \in 0..UINT32_MAX
        <3>1. cpu \in Contexts
            BY DEF TypeOK
        <3>2. cpu.millis \in Millis \cup {0}
            BY <3>1 DEF Contexts
        <3>3. 0 \in 0..UINT32_MAX /\ Millis \subseteq 0..UINT32_MAX
            OBVIOUS
        <3> QED
            BY ONLY <3>2, <3>3, Zenon
    <2>4. RemainingCpuTime' \in [Threads -> 0..UINT32_MAX]
        BY <1>2, <2>3 DEF SleepSetTime, TypeOK
    <2>5. TypeOK'
        BY <2>1, <2>2, <2>4 DEF TypeOK
    <2>6. ListShape'
        BY <2>1 DEF ListShape
    <2>7. ContextShape(cpu)' /\ \A u \in Threads : ContextShape(CPUFrame[u])'
        BY <2>1, <2>2 DEF ContextShape
    <2>8. CursorShape'
        BY <2>1 DEF CursorShape
    <2> QED
        BY <2>5, <2>6, <2>7, <2>8
<1>3. ASSUME SchedTick PROVE Inv1'
    <2>1. cpu.owner \in Threads \cup {Boot}
        BY DEF TypeOK, Contexts
    <2> QED
        BY <1>3, <2>1, IrqInv1, RunningIsContext DEF SchedTick
<1> QED
    BY <1>1, <1>2, <1>3 DEF Sleep

LEMMA SchedCreateProcessInv1 ==
    ASSUME Inv1, NEW p \in Procs, NEW b \in BOOLEAN, SchedCreateProcess(p, b)
    PROVE  Inv1'
<1> USE ConstantsAssumption DEF Inv1, Shape
<1>1. /\ UNCHANGED <<ParentProcess, State, RemainingCpuTime, CPUFrame,
                     initialized, handler, CurrIteratedProc,
                     CurrIteratedThread, CurrentPageDirectory>>
      /\ status[p] = "free"
      /\ status' = [status EXCEPT ![p] = "building"]
      /\ first' = [first EXCEPT ![p] = NULL]
      /\ next' = [next EXCEPT ![p] = NULL]
      /\ cpu' = [cpu EXCEPT !.at = "attach", !.elem = p, !.ptr = Kernel]
    BY DEF SchedCreateProcess, creating, schedVars, Goto, TypeOK, Contexts
<1>2. /\ cpu' \in Contexts
      /\ cpu'.at = "attach" /\ cpu'.elem = p /\ cpu'.ptr = Kernel
    BY <1>1 DEF TypeOK, Contexts, Points, Elements
<1>3. PageDirectory' \in [Procs -> Procs \cup {NULL}]
    BY DEF SchedCreateProcess, TypeOK
<1>4. TypeOK'
    BY <1>1, <1>2, <1>3 DEF TypeOK, Elements
<1>5. \A e \in Elements : status[e] # "free" => status'[e] # "free"
    BY <1>1 DEF TypeOK
<1>6. ListShape'
    BY <1>1, <1>5 DEF ListShape, TypeOK, Elements
<1>7. ContextShape(cpu)'
    BY <1>1, <1>2 DEF ContextShape, TypeOK, ListShape, Elements
<1>8. ASSUME NEW u \in Threads PROVE ContextShape(CPUFrame[u])'
    BY <1>1, <1>5 DEF ContextShape, TypeOK, Contexts, Elements
<1>9. CursorShape'
    BY <1>1, <1>5 DEF CursorShape, TypeOK, Elements
<1> QED
    BY <1>4, <1>6, <1>7, <1>8, <1>9

LEMMA SchedCreateThreadInv1 ==
    ASSUME Inv1, NEW t \in Threads, NEW p \in Procs, SchedCreateThread(t, p)
    PROVE  Inv1'
<1> USE ConstantsAssumption DEF Inv1, Shape
<1>1. /\ UNCHANGED <<first, PageDirectory, initialized, handler,
                     CurrIteratedProc, CurrIteratedThread,
                     CurrentPageDirectory>>
      /\ status[t] = "free" /\ status[p] = "listed"
      /\ status' = [status EXCEPT ![t] = "building"]
      /\ ParentProcess' = [ParentProcess EXCEPT ![t] = p]
      /\ next' = [next EXCEPT ![t] = NULL]
      /\ CPUFrame' = [CPUFrame EXCEPT ![t] = Running(t)]
      /\ cpu' = [cpu EXCEPT !.at = "attach", !.elem = t, !.ptr = first[p]]
    BY DEF SchedCreateThread, creating, schedVars, Goto, TypeOK, Contexts
<1>2. /\ cpu' \in Contexts
      /\ cpu'.at = "attach" /\ cpu'.elem = t /\ cpu'.ptr = first[p]
    BY <1>1 DEF TypeOK, Contexts, Points, Elements
<1>3. /\ State' \in [Threads -> {RUNNING, SLEEPING}]
      /\ RemainingCpuTime' \in [Threads -> 0..UINT32_MAX]
    BY DEF SchedCreateThread, TypeOK
<1>4. CPUFrame' \in [Threads -> Contexts]
    BY <1>1, RunningIsContext DEF TypeOK
<1>5. TypeOK'
    BY <1>1, <1>2, <1>3, <1>4 DEF TypeOK, Elements
<1>6. /\ \A e \in Elements : status[e] # "free" =>
             status'[e] # "free" /\ e # t
      /\ status'[t] # "free" /\ ParentProcess'[t] = p
      /\ \A u \in Threads : u # t => ParentProcess'[u] = ParentProcess[u]
    BY <1>1 DEF TypeOK, Elements
<1>7. ListShape'
    BY <1>1, <1>6 DEF ListShape, TypeOK, Elements
<1>8. ContextShape(cpu)'
    BY <1>1, <1>2, <1>6 DEF ContextShape, TypeOK, ListShape, Elements
<1>9. ASSUME NEW u \in Threads PROVE ContextShape(CPUFrame[u])'
    <2>1. CASE u = t
        BY <1>1, <2>1 DEF ContextShape, Running, TypeOK
    <2>2. CASE u # t
        <3>1. CPUFrame'[u] = CPUFrame[u] /\ CPUFrame[u] \in Contexts
            BY <1>1, <2>2 DEF TypeOK
        <3> QED
            BY <3>1, <1>6 DEF ContextShape, Contexts, Elements
    <2> QED
        BY <2>1, <2>2
<1>10. CursorShape'
    BY <1>1, <1>6 DEF CursorShape, TypeOK, Elements
<1> QED
    BY <1>5, <1>7, <1>8, <1>9, <1>10

LEMMA LinkInv1 == Inv1 /\ (AttachOrWalk \/ LListGetLast \/ LListPushBack) => Inv1'
<1> SUFFICES ASSUME Inv1, AttachOrWalk \/ LListGetLast \/ LListPushBack
             PROVE  Inv1'
    OBVIOUS
<1> USE ConstantsAssumption DEF Inv1, Shape
<1>1. UNCHANGED <<ParentProcess, PageDirectory, State, RemainingCpuTime,
                  CPUFrame, initialized, handler, CurrIteratedProc,
                  CurrIteratedThread, CurrentPageDirectory>>
    BY DEF AttachOrWalk, LListGetLast, LListPushBack, linking, creating,
           schedVars
<1>2. SUFFICES /\ status' \in [Elements -> {"free", "building", "listed"}]
               /\ \A e \in Elements : status[e] # "free" => status'[e] # "free"
               /\ next' \in [Elements -> Elements \cup {NULL}]
               /\ first' \in [Procs -> Threads \cup {NULL}]
               /\ cpu' \in Contexts
               /\ ContextShape(cpu)'
               /\ ListShape'
    <2>1. TypeOK'
        BY <1>1, <1>2 DEF TypeOK
    <2>2. ASSUME NEW u \in Threads PROVE ContextShape(CPUFrame[u])'
        BY <1>1, <1>2 DEF ContextShape, TypeOK, Contexts, Elements
    <2>3. CursorShape'
        BY <1>1, <1>2 DEF CursorShape, TypeOK, Elements
    <2> QED
        BY <1>2, <2>1, <2>2, <2>3
<1>3. cpu.owner \in Threads \cup {Boot}
    BY DEF TypeOK, Contexts
<1>4. CASE cpu.at = "attach" /\ cpu.ptr = NULL /\ AttachOrWalk
    <2> DEFINE t == cpu.elem  p == ParentProcess[t]
    <2>1. t \in Threads /\ status[t] # "free" /\ p \in Procs
        BY <1>4 DEF ContextShape, Elements, ListShape
    <2>2. /\ first' = [first EXCEPT ![p] = t]
          /\ status' = [status EXCEPT ![t] = "listed"]
          /\ cpu' = Running(cpu.owner)
          /\ UNCHANGED next
        BY <1>4 DEF AttachOrWalk
    <2>3. \A e \in Elements : status[e] # "free" => status'[e] # "free"
        BY <2>2 DEF TypeOK
    <2>4. ListShape'
        BY <1>1, <2>1, <2>2, <2>3 DEF ListShape, TypeOK, Elements
    <2>5. cpu' \in Contexts /\ ContextShape(cpu)'
        BY <1>3, <2>2, RunningIsContext DEF ContextShape, Running
    <2> QED
        BY <2>1, <2>2, <2>3, <2>4, <2>5 DEF TypeOK, Elements
<1>5. CASE cpu.at = "attach" /\ cpu.ptr # NULL /\ AttachOrWalk
    <2>1. /\ UNCHANGED <<first, status, next>>
          /\ cpu' = [cpu EXCEPT !.at = "walk"]
        BY <1>5 DEF AttachOrWalk, Goto
    <2>2. cpu' \in Contexts /\ ContextShape(cpu)'
        BY <1>1, <1>5, <2>1 DEF TypeOK, Contexts, Points, ContextShape
    <2>3. ListShape'
        BY <1>1, <2>1 DEF ListShape
    <2> QED
        BY <2>1, <2>2, <2>3 DEF TypeOK
<1>6. CASE LListGetLast
    <2>1. UNCHANGED <<first, status, next>> /\ cpu.at = "walk"
        BY <1>6 DEF LListGetLast
    <2>2. ListShape'
        BY <1>1, <2>1 DEF ListShape
    <2>3. CASE next[cpu.ptr] # NULL
        <3>1. cpu' = [cpu EXCEPT !.ptr = next[cpu.ptr]]
            BY <1>6, <2>3 DEF LListGetLast
        <3>2. cpu.ptr \in Elements /\ next[cpu.ptr] \in Elements
            BY <2>1, <2>3 DEF TypeOK, ContextShape, Elements
        <3>3. cpu' \in Contexts
            BY <3>1, <3>2 DEF TypeOK, Contexts
        <3>4. ContextShape(cpu)'
            BY <1>1, <2>1, <2>3, <3>1, <3>2
            DEF ContextShape, ListShape, TypeOK, Contexts, Elements
        <3> QED
            BY <2>1, <2>2, <3>3, <3>4 DEF TypeOK
    <2>4. CASE next[cpu.ptr] = NULL
        <3>1. cpu' = [cpu EXCEPT !.at = "link"]
            BY <1>6, <2>4 DEF LListGetLast, Goto
        <3>2. cpu' \in Contexts /\ ContextShape(cpu)'
            BY <1>1, <2>1, <3>1 DEF TypeOK, Contexts, Points, ContextShape
        <3> QED
            BY <2>1, <2>2, <3>2 DEF TypeOK
    <2> QED
        BY <2>3, <2>4
<1>7. CASE LListPushBack
    <2>1. /\ cpu.at = "link"
          /\ next' = [next EXCEPT ![cpu.ptr] = cpu.elem]
          /\ status' = [status EXCEPT ![cpu.elem] = "listed"]
          /\ cpu' = Running(cpu.owner)
          /\ UNCHANGED first
        BY <1>7 DEF LListPushBack
    <2>2. /\ cpu.elem \in Elements /\ status[cpu.elem] # "free"
          /\ cpu.elem \in Procs => cpu.ptr \in Procs
          /\ cpu.elem \in Threads =>
                 cpu.ptr \in Threads
                 /\ ParentProcess[cpu.ptr] = ParentProcess[cpu.elem]
        BY <2>1 DEF ContextShape
    <2>3. \A e \in Elements : status[e] # "free" => status'[e] # "free"
        BY <2>1 DEF TypeOK
    <2>4. ListShape'
        BY <1>1, <2>1, <2>2, <2>3 DEF ListShape, TypeOK, Elements
    <2>5. cpu' \in Contexts /\ ContextShape(cpu)'
        BY <1>3, <2>1, RunningIsContext DEF ContextShape, Running
    <2> QED
        BY <2>1, <2>2, <2>3, <2>4, <2>5 DEF TypeOK, Elements
<1> QED
    BY <1>4, <1>5, <1>6, <1>7 DEF AttachOrWalk

LEMMA StutterInv1 == Inv1 /\ UNCHANGED vars => Inv1'
BY DEF Inv1, Shape, TypeOK, ListShape, ContextShape, CursorShape, vars,
       listVars, schedVars

LEMMA NextInv1 == Inv1 /\ [Next]_vars => Inv1'
<1> SUFFICES ASSUME Inv1, [Next]_vars PROVE Inv1'
    OBVIOUS
<1>1. CASE TimerIrq
    BY <1>1, IrqInv1 DEF TimerIrq, Inv1, Shape, TypeOK
<1>2. CASE Handler
    BY <1>2, PickNextThreadInv1, PickNextProcessInv1, SchedLoadFrameInv1
    DEF Handler
<1>3. CASE Sleep
    BY <1>3, SleepInv1
<1>4. CASE Create
    BY <1>4, SchedCreateProcessInv1, SchedCreateThreadInv1, LinkInv1
    DEF Create
<1>5. CASE UNCHANGED vars
    BY <1>5, StutterInv1
<1> QED
    BY <1>1, <1>2, <1>3, <1>4, <1>5 DEF Next

\* The types of the state hold in every behaviour: in particular the handler
\* never follows a pointer from one list into the other, and the current
\* thread is NULL only inside PickNextThread's loop.
THEOREM TypeCorrect == Spec => []TypeOK
<1>1. Spec => []Inv1
    BY InitInv1, NextInv1, PTL DEF Spec
<1>2. Inv1 => TypeOK
    BY DEF Inv1
<1> QED
    BY <1>1, <1>2, PTL

------------------------------------------------------------------------------
(* Second layer: who executes, and under which page directory *)

Inv2 == Inv1 /\ Ownership /\ RightAddressSpace

LEMMA InitInv2 == Init => Inv2
<1> SUFFICES ASSUME Init PROVE Inv2
    OBVIOUS
<1> USE ConstantsAssumption
<1>1. Ownership /\ RightAddressSpace
    BY DEF Init, Ownership, FrameOwnership, SleeperHoldsCpuOnlyInSleep,
           RightAddressSpace, Running
<1> QED
    BY <1>1, InitInv1 DEF Inv2

LEMMA IrqOwnership ==
    ASSUME Inv2, NEW ctx \in Contexts, ctx.owner = cpu.owner,
           handler = "none", SchedIrqHandler(ctx)
    PROVE  Ownership' /\ RightAddressSpace'
<1> USE ConstantsAssumption DEF Inv2, Ownership
<1>1. CurrIteratedThread \in Threads
    BY DEF Inv1, Shape, TypeOK, CursorShape
<1>2. /\ UNCHANGED <<cpu, CurrIteratedThread>>
      /\ initialized' = TRUE
      /\ handler' \in {"pick", "load"}
    BY DEF SchedIrqHandler, TickRunning, TickSleeping
<1>3. FrameOwnership'
    <2>1. CASE initialized
        BY <1>1, <1>2, <2>1
        DEF FrameOwnership, SchedIrqHandler, SchedSaveFrame, Inv1, TypeOK
    <2>2. CASE ~initialized
        BY <1>2, <2>2 DEF FrameOwnership, SchedIrqHandler, SchedSaveFrame
    <2> QED
        BY <2>1, <2>2
<1>4. handler' = "load" => State'[CurrIteratedThread] = RUNNING
    BY <1>1 DEF SchedIrqHandler, TickRunning, TickSleeping, Inv1, TypeOK
<1>5. cpu.owner # Boot => cpu.owner = CurrIteratedThread
    BY DEF FrameOwnership
<1>6. \/ handler' = "load"
      \/ State'[CurrIteratedThread] = SLEEPING
      \/ RemainingCpuTime'[CurrIteratedThread] = 0
    BY <1>1 DEF SchedIrqHandler, TickRunning, TickSleeping, Inv1, TypeOK
<1> QED
    BY <1>2, <1>3, <1>4, <1>5, <1>6
    DEF SleeperHoldsCpuOnlyInSleep, RightAddressSpace

LEMMA ExamineOwnership ==
    ASSUME Inv2, NEW t \in Threads, Examine(t), handler \in {"pick", "scan"},
           UNCHANGED scanFrame
    PROVE  Ownership' /\ RightAddressSpace'
<1> USE ConstantsAssumption DEF Inv2, Ownership
<1>1. UNCHANGED <<cpu, CPUFrame, State, initialized>>
    BY DEF scanFrame
<1>2. /\ CurrIteratedThread' = t
      /\ handler' \in {"pick", "load"}
      /\ handler' = "load" <=> State[t] # SLEEPING
      /\ \A u \in Threads \ {t} : RemainingCpuTime'[u] = RemainingCpuTime[u]
    BY DEF Examine, Inv1, TypeOK
<1>3. State[t] \in {RUNNING, SLEEPING}
    BY DEF Inv1, TypeOK
<1> QED
    BY <1>1, <1>2, <1>3
    DEF FrameOwnership, SleeperHoldsCpuOnlyInSleep, RightAddressSpace

LEMMA HandlerOwnership == Inv2 /\ Handler => Ownership' /\ RightAddressSpace'
<1> SUFFICES ASSUME Inv2, Handler PROVE Ownership' /\ RightAddressSpace'
    OBVIOUS
<1> USE ConstantsAssumption DEF Inv2, Inv1, Shape
<1>1. CASE PickNextThread /\ next[CurrIteratedThread] # NULL
    <2>1. next[CurrIteratedThread] \in Threads
        BY <1>1 DEF PickNextThread, TypeOK, CursorShape, ListShape
    <2> QED
        BY <1>1, <2>1, ExamineOwnership DEF PickNextThread
<1>2. CASE PickNextThread /\ next[CurrIteratedThread] = NULL
    BY <1>2 DEF PickNextThread, scanFrame, Ownership, FrameOwnership,
                SleeperHoldsCpuOnlyInSleep, RightAddressSpace
<1>3. CASE PickNextProcess /\ first[CurrIteratedProc'] # NULL
    <2>1. first[CurrIteratedProc'] \in Threads
        BY <1>3 DEF PickNextProcess, TypeOK, ListShape
    <2> QED
        BY <1>3, <2>1, ExamineOwnership DEF PickNextProcess
<1>4. CASE PickNextProcess /\ first[CurrIteratedProc'] = NULL
    BY <1>4 DEF PickNextProcess, scanFrame, Ownership, FrameOwnership,
                SleeperHoldsCpuOnlyInSleep, RightAddressSpace
<1>5. CASE SchedLoadFrame
    <2>1. CurrIteratedThread \in Threads
        BY <1>5 DEF SchedLoadFrame, TypeOK, CursorShape
    <2>2. /\ cpu' = CPUFrame[CurrIteratedThread]
          /\ cpu'.owner = CurrIteratedThread
          /\ initialized' /\ initialized
          /\ State'[CurrIteratedThread] # SLEEPING
          /\ UNCHANGED <<CPUFrame, State, CurrIteratedThread>>
          /\ handler' = "none"
        BY <1>5, <2>1 DEF SchedLoadFrame, Ownership, FrameOwnership, RUNNING,
                          SLEEPING
    <2>3. Ownership'
        BY <2>1, <2>2 DEF Ownership, FrameOwnership, SleeperHoldsCpuOnlyInSleep
    <2>4. ParentProcess'[CurrIteratedThread] = CurrIteratedProc
        BY <1>5, <2>1 DEF SchedLoadFrame, listVars, CursorShape, Elements
    <2>5. PageDirectory'[CurrIteratedProc] \in {NULL, CurrentPageDirectory'}
        BY <1>5 DEF SchedLoadFrame, SwitchTo, listVars
    <2>6. RightAddressSpace'
        BY <2>2, <2>4, <2>5 DEF RightAddressSpace
    <2> QED
        BY <2>3, <2>6
<1> QED
    BY <1>1, <1>2, <1>3, <1>4, <1>5 DEF Handler

LEMMA SleepOwnership == Inv2 /\ Sleep => Ownership' /\ RightAddressSpace'
<1> SUFFICES ASSUME Inv2, Sleep PROVE Ownership' /\ RightAddressSpace'
    OBVIOUS
<1> USE ConstantsAssumption DEF Inv2
<1>1. cpu \in Contexts /\ State \in [Threads -> {RUNNING, SLEEPING}]
    BY DEF Inv1, TypeOK
<1>2. cpu.owner \in Threads \cup {Boot}
    BY <1>1 DEF Contexts
<1>3. ASSUME NEW t \in Threads, NEW m \in Millis, SleepSetState(t, m)
      PROVE  Ownership' /\ RightAddressSpace'
    <2>1. /\ UNCHANGED <<CPUFrame, initialized, handler, CurrIteratedThread,
                         PageDirectory, ParentProcess, CurrentPageDirectory>>
          /\ cpu'.owner = cpu.owner
          /\ cpu'.at = "setTime" /\ cpu'.elem = t
          /\ State' = [State EXCEPT ![t] = SLEEPING]
          /\ handler = "none" /\ cpu.at = "run" /\ cpu.owner # Boot
        BY <1>1, <1>3
        DEF SleepSetState, Goto, listVars, schedVars, Contexts
    <2>2. FrameOwnership' /\ RightAddressSpace'
        BY <2>1 DEF Ownership, FrameOwnership, RightAddressSpace
    <2>3. SleeperHoldsCpuOnlyInSleep'
        BY <1>1, <1>2, <2>1 DEF Ownership, SleeperHoldsCpuOnlyInSleep
    <2> QED
        BY <2>1, <2>2, <2>3 DEF Ownership
<1>4. ASSUME SleepSetTime PROVE Ownership' /\ RightAddressSpace'
    <2>1. /\ UNCHANGED <<CPUFrame, initialized, handler, CurrIteratedThread,
                         PageDirectory, ParentProcess, CurrentPageDirectory,
                         State>>
          /\ cpu'.owner = cpu.owner
          /\ cpu'.at = "softTick" /\ cpu'.elem = cpu.elem
          /\ handler = "none" /\ cpu.at = "setTime"
        BY <1>1, <1>4 DEF SleepSetTime, Goto, listVars, schedVars, Contexts
    <2> QED
        BY <2>1 DEF Ownership, FrameOwnership, RightAddressSpace,
                    SleeperHoldsCpuOnlyInSleep
<1>5. ASSUME SchedTick PROVE Ownership' /\ RightAddressSpace'
    BY <1>2, <1>5, IrqOwnership, RunningIsContext DEF SchedTick, Running
<1> QED
    BY <1>3, <1>4, <1>5 DEF Sleep

\* A step of a creator: records that exist keep their process and directory,
\* threads that exist keep their state and frame, and the scheduler stands
\* still.
LEMMA CreateFrame ==
    ASSUME Inv2, Create
    PROVE  /\ UNCHANGED <<schedVars, CurrentPageDirectory>>
           /\ handler = "none"
           /\ cpu'.owner = cpu.owner
           /\ cpu.at = "run" => cpu'.at # "setTime"
           /\ cpu.at \notin {"setTime", "softTick"}
           /\ \A t \in Threads : CPUFrame'[t].owner = t
           /\ \A t \in Threads : status[t] # "free" =>
                  State'[t] = State[t] /\ ParentProcess'[t] = ParentProcess[t]
           /\ \A p \in Procs : status[p] # "free" =>
                  PageDirectory'[p] = PageDirectory[p]
<1> USE ConstantsAssumption DEF Inv2, Ownership, FrameOwnership
<1>1. cpu \in Contexts
    BY DEF Inv1, TypeOK
<1>2. ASSUME NEW p \in Procs, NEW b \in BOOLEAN, SchedCreateProcess(p, b)
      PROVE  /\ cpu'.owner = cpu.owner /\ cpu'.at = "attach"
             /\ UNCHANGED <<ParentProcess, State, CPUFrame>>
             /\ \A q \in Procs : status[q] # "free" =>
                    PageDirectory'[q] = PageDirectory[q]
    BY <1>1, <1>2
    DEF SchedCreateProcess, Goto, creating, Inv1, TypeOK, Contexts
<1>3. ASSUME NEW t \in Threads, NEW p \in Procs, SchedCreateThread(t, p)
      PROVE  /\ cpu'.owner = cpu.owner /\ cpu'.at = "attach"
             /\ UNCHANGED PageDirectory
             /\ \A u \in Threads : status[u] # "free" =>
                    State'[u] = State[u] /\ ParentProcess'[u] = ParentProcess[u]
             /\ \A u \in Threads : CPUFrame'[u].owner = u
    BY <1>1, <1>3
    DEF SchedCreateThread, Goto, creating, Inv1, TypeOK, Contexts, Running
<1>4. ASSUME AttachOrWalk \/ LListGetLast \/ LListPushBack
      PROVE  /\ UNCHANGED <<PageDirectory, ParentProcess, State, CPUFrame>>
             /\ cpu'.owner = cpu.owner
             /\ cpu.at \in {"attach", "walk", "link"}
    BY <1>1, <1>4 DEF AttachOrWalk, LListGetLast, LListPushBack, linking, Goto,
                      Running, Contexts
<1>5. /\ UNCHANGED <<schedVars, CurrentPageDirectory>>
      /\ handler = "none"
      /\ cpu.at \in {"run", "attach", "walk", "link"}
    BY DEF Create, SchedCreateProcess, SchedCreateThread, MayCreate, creating,
           AttachOrWalk, LListGetLast, LListPushBack, linking
<1>6. cpu'.owner = cpu.owner /\ (cpu.at = "run" => cpu'.at # "setTime")
    BY <1>2, <1>3, <1>4 DEF Create
<1>7. \A t \in Threads : CPUFrame'[t].owner = t
    BY <1>2, <1>3, <1>4 DEF Create
<1>8. /\ \A t \in Threads : status[t] # "free" =>
             State'[t] = State[t] /\ ParentProcess'[t] = ParentProcess[t]
      /\ \A p \in Procs : status[p] # "free" =>
             PageDirectory'[p] = PageDirectory[p]
    BY <1>2, <1>3, <1>4 DEF Create
<1> QED
    BY <1>5, <1>6, <1>7, <1>8

LEMMA CreateOwnership == Inv2 /\ Create => Ownership' /\ RightAddressSpace'
<1> SUFFICES ASSUME Inv2, Create PROVE Ownership' /\ RightAddressSpace'
    OBVIOUS
<1> USE ConstantsAssumption
<1>1. /\ UNCHANGED <<initialized, handler, CurrIteratedThread,
                     CurrentPageDirectory>>
      /\ handler = "none"
      /\ cpu'.owner = cpu.owner
      /\ cpu.at \notin {"setTime", "softTick"}
    BY CreateFrame DEF schedVars
<1>2. initialized =>
          /\ cpu.owner \in Threads
          /\ cpu.owner = CurrIteratedThread
          /\ status[cpu.owner] # "free"
          /\ ParentProcess[cpu.owner] \in Procs
          /\ status[ParentProcess[cpu.owner]] # "free"
    BY <1>1 DEF Inv2, Inv1, Shape, Ownership, FrameOwnership, CursorShape,
                ListShape, Elements
<1>3. FrameOwnership'
    BY <1>1, CreateFrame DEF FrameOwnership, Inv2, Ownership
<1>4. initialized => State'[cpu.owner] # SLEEPING
    <2>1. initialized => State[cpu.owner] # SLEEPING
        BY <1>1 DEF Inv2, Ownership, SleeperHoldsCpuOnlyInSleep
    <2> QED
        BY <1>2, <2>1, CreateFrame
<1>5. SleeperHoldsCpuOnlyInSleep'
    BY <1>1, <1>4 DEF SleeperHoldsCpuOnlyInSleep
<1>6. RightAddressSpace'
    BY <1>1, <1>2, CreateFrame DEF RightAddressSpace, Inv2
<1> QED
    BY <1>1, <1>3, <1>5, <1>6 DEF Inv2, Ownership

LEMMA NextInv2 == Inv2 /\ [Next]_vars => Inv2'
<1> SUFFICES ASSUME Inv2, [Next]_vars PROVE Ownership' /\ RightAddressSpace'
    BY NextInv1 DEF Inv2
<1>1. CASE TimerIrq
    BY <1>1, IrqOwnership DEF TimerIrq, Inv2, Inv1, TypeOK
<1>2. CASE Handler
    BY <1>2, HandlerOwnership
<1>3. CASE Sleep
    BY <1>3, SleepOwnership
<1>4. CASE Create
    BY <1>4, CreateOwnership
<1>5. CASE UNCHANGED vars
    BY <1>5 DEF Inv2, Ownership, FrameOwnership, SleeperHoldsCpuOnlyInSleep,
                RightAddressSpace, vars, listVars, schedVars
<1> QED
    BY <1>1, <1>2, <1>3, <1>4, <1>5 DEF Next

LEMMA SpecInv2 == Spec => []Inv2
BY InitInv2, NextInv2, PTL DEF Spec

\* SchedSaveFrame never writes one thread's registers into another's frame,
\* and the CPU executes what the scheduler takes to be the current thread.
THEOREM FramesAreOwned == Spec => []FrameOwnership
<1>1. Inv2 => FrameOwnership
    BY DEF Inv2, Ownership
<1> QED
    BY <1>1, SpecInv2, PTL

\* Skipping SwitchPageDirectory for processes without a directory never leaves
\* a thread that has one under another's.
THEOREM AddressSpaces == Spec => []RightAddressSpace
<1>1. Inv2 => RightAddressSpace
    BY DEF Inv2
<1> QED
    BY <1>1, SpecInv2, PTL

\* The search loop hands the CPU to no sleeper, wherever the tick fell between
\* the two stores of SchedSleep.
THEOREM SleepersStayOff == Spec => []SleeperHoldsCpuOnlyInSleep
<1>1. Inv2 => SleeperHoldsCpuOnlyInSleep
    BY DEF Inv2, Ownership
<1> QED
    BY <1>1, SpecInv2, PTL

\* Only a spent slice or a sleep takes the CPU from a thread.
THEOREM Preemption == Spec => NoEarlyPreemption
<1> DEFINE Kept ==
        (cpu.owner # Boot /\ cpu'.owner # cpu.owner) =>
            State[cpu.owner] = SLEEPING \/ RemainingCpuTime[cpu.owner] = 0
<1>1. ASSUME Inv2, [Next]_vars PROVE [Kept]_vars
    <2>1. CASE SchedLoadFrame
        BY <1>1, <2>1, ConstantsAssumption
        DEF SchedLoadFrame, Inv2, Inv1, Shape, CursorShape, TypeOK, Ownership,
            FrameOwnership
    <2>2. CASE TimerIrq \/ PickNextThread \/ PickNextProcess \/ SchedTick
        BY <2>2 DEF TimerIrq, SchedTick, SchedIrqHandler, PickNextThread,
                    PickNextProcess, scanFrame
    <2>3. CASE \E t \in Threads, m \in Millis : SleepSetState(t, m)
        <3>1. cpu'.owner = cpu.owner
            BY <2>3 DEF SleepSetState, Goto, Inv2, Inv1, TypeOK, Contexts
        <3> QED
            BY <3>1
    <2>4. CASE SleepSetTime
        <3>1. cpu'.owner = cpu.owner
            BY <2>4 DEF SleepSetTime, Goto, Inv2, Inv1, TypeOK, Contexts
        <3> QED
            BY <3>1
    <2>5. CASE Create
        BY <1>1, <2>5, CreateFrame
    <2>6. CASE UNCHANGED vars
        BY <2>6
    <2> QED
        BY <1>1, <2>1, <2>2, <2>3, <2>4, <2>5, <2>6 DEF Next, Handler, Sleep
<1>2. Inv2 /\ [Next]_vars => [Kept]_vars
    BY <1>1
<1> QED
    BY <1>2, SpecInv2, PTL DEF Spec, NoEarlyPreemption

\* Of all that stores a state or a slice, only the second store of SchedSleep
\* gives a thread that is awake more than one slice, and only the thread a timer
\* interrupt has made RUNNING since the first.
THEOREM LongSlices == Spec => LongSlicesFromSleep
<1> DEFINE OnlyBySleep == \A t \in Threads :
          (State'[t] = RUNNING /\ RemainingCpuTime'[t] > SchedTimePerThread) =>
              /\ State[t] = RUNNING
              /\ \/ RemainingCpuTime[t] > SchedTimePerThread
                 \/ handler = "none" /\ cpu.at = "setTime" /\ cpu.elem = t
<1>1. ASSUME Inv1, [Next]_vars PROVE [OnlyBySleep]_vars
    <2> SUFFICES ASSUME NEW t \in Threads, State'[t] = RUNNING,
                        RemainingCpuTime'[t] > SchedTimePerThread
                 PROVE  /\ State[t] = RUNNING
                        /\ \/ RemainingCpuTime[t] > SchedTimePerThread
                           \/ /\ handler = "none" /\ cpu.at = "setTime"
                              /\ cpu.elem = t
        OBVIOUS
    <2> DEFINE Long == State[t] = RUNNING /\ RemainingCpuTime[t] > SchedTimePerThread
    <2> USE ConstantsAssumption DEF RUNNING, SLEEPING
    <2>1. /\ State \in [Threads -> {RUNNING, SLEEPING}]
          /\ RemainingCpuTime \in [Threads -> 0..UINT32_MAX]
          /\ SchedTimePerThread \in Nat /\ SchedTimePerThread > 0
        BY <1>1 DEF Inv1, TypeOK
    <2>2. ASSUME NEW c, SchedIrqHandler(c) PROVE Long
        <3>1. CASE TickRunning
            BY <2>1, <3>1 DEF TickRunning
        <3>2. CASE TickSleeping
            BY <2>1, <3>2 DEF TickSleeping
        <3> QED
            BY <2>2, <3>1, <3>2 DEF SchedIrqHandler
    <2>3. ASSUME NEW u, Examine(u), UNCHANGED State PROVE Long
        BY <2>1, <2>3 DEF Examine
    <2>4. CASE Handler
        BY <2>1, <2>3, <2>4
        DEF Handler, PickNextThread, PickNextProcess, SchedLoadFrame, scanFrame
    <2>5. CASE \E u \in Threads, m \in Millis : SleepSetState(u, m)
        BY <2>1, <2>5 DEF SleepSetState
    <2>6. CASE SleepSetTime
        BY <2>1, <2>6 DEF SleepSetTime
    <2>7. CASE \E u \in Threads, p \in Procs : SchedCreateThread(u, p)
        BY <2>1, <2>7 DEF SchedCreateThread
    <2>8. CASE \/ \E p \in Procs, b \in BOOLEAN : SchedCreateProcess(p, b)
               \/ AttachOrWalk \/ LListGetLast \/ LListPushBack
        BY <2>8 DEF SchedCreateProcess, AttachOrWalk, LListGetLast,
                    LListPushBack, linking
    <2>9. CASE UNCHANGED vars
        BY <2>9 DEF vars
    <2> QED
        BY <1>1, <2>2, <2>4, <2>5, <2>6, <2>7, <2>8, <2>9
        DEF Next, TimerIrq, Sleep, SchedTick, Create
<1>2. Inv1 /\ [Next]_vars => [OnlyBySleep]_vars
    BY <1>1
<1>3. Spec => []Inv1
    BY InitInv1, NextInv1, PTL DEF Spec
<1> QED
    BY <1>2, <1>3, PTL DEF Spec, LongSlicesFromSleep

------------------------------------------------------------------------------
(* Third layer: LListPushBack against the timer, with a single creator *)

SingleCreator == \A a, b \in Creators : a = b

Inv3 == Inv2 /\ Linking

\* The part of Linking that is about the lists alone.
Linked ==
    /\ NothingUnlinked
    /\ \A e \in Elements : status[e] = "free" => next[e] = NULL
    /\ \A p \in Procs : status[p] = "free" => first[p] = NULL
    /\ \A p \in Procs : first[p] # NULL => status[first[p]] = "listed"
    /\ \A e \in Elements : next[e] # NULL => status[next[e]] = "listed"
    /\ status[Kernel] = "listed"

LEMMA InitInv3 == Init => Inv3
<1> SUFFICES ASSUME Init PROVE Linking
    BY InitInv2 DEF Inv3
<1> USE ConstantsAssumption
<1>1. ContextLinking(cpu) /\ \A t \in Threads : ContextLinking(CPUFrame[t])
    BY DEF Init, ContextLinking, Running
<1>2. Linked
    BY DEF Linked, NothingUnlinked, Init, Elements
<1> QED
    BY <1>1, <1>2 DEF Linking, Linked

LEMMA LinkedStable ==
    ASSUME Linked, UNCHANGED <<status, next, first>> PROVE Linked'
BY DEF Linked, NothingUnlinked

LEMMA IrqLinking ==
    ASSUME Inv3, NEW ctx \in Contexts, ContextLinking(ctx),
           handler = "none", SchedIrqHandler(ctx)
    PROVE  Linking'
<1> USE ConstantsAssumption DEF Inv3, Linking
<1>1. /\ UNCHANGED <<status, next, first, ParentProcess>>
      /\ handler' # "none"
    BY DEF SchedIrqHandler, TickRunning, TickSleeping, listVars
<1>2. ASSUME NEW t \in Threads PROVE ContextLinking(CPUFrame[t])'
    <2>1. CPUFrame'[t] = ctx \/ (CPUFrame'[t] = CPUFrame[t] /\ t # cpu.owner)
        BY DEF SchedIrqHandler, SchedSaveFrame, Inv2, Inv1, TypeOK, Ownership,
               FrameOwnership
    <2> QED
        BY <1>1, <2>1 DEF ContextLinking
<1>3. Linked'
    BY <1>1, LinkedStable DEF Linked
<1> QED
    BY <1>1, <1>2, <1>3 DEF Linked

LEMMA HandlerLinking == Inv3 /\ Handler => Linking'
<1> SUFFICES ASSUME Inv3, Handler PROVE Linking'
    OBVIOUS
<1> USE ConstantsAssumption DEF Inv3, Linking
<1>1. /\ UNCHANGED <<status, next, first, ParentProcess, CPUFrame>>
      /\ handler # "none"
    BY DEF Handler, PickNextThread, PickNextProcess, SchedLoadFrame,
           scanFrame, listVars
<1>2. Linked'
    BY <1>1, LinkedStable DEF Linked
<1>3. \A t \in Threads : ContextLinking(CPUFrame[t])'
    BY <1>1 DEF ContextLinking
<1>4. handler' = "none" => ContextLinking(cpu)'
    <2> SUFFICES ASSUME handler' = "none" PROVE ContextLinking(cpu)'
        OBVIOUS
    <2>1. SchedLoadFrame
        BY DEF Handler, PickNextThread, PickNextProcess, Examine
    <2>2. cpu' = CPUFrame[CurrIteratedThread] /\ CurrIteratedThread \in Threads
        BY <2>1 DEF SchedLoadFrame, Inv2, Inv1, Shape, TypeOK, CursorShape
    <2> QED
        BY <1>1, <2>2 DEF ContextLinking
<1> QED
    BY <1>2, <1>3, <1>4 DEF Linked

LEMMA SleepLinking == Inv3 /\ Sleep => Linking'
<1> SUFFICES ASSUME Inv3, Sleep PROVE Linking'
    OBVIOUS
<1> USE ConstantsAssumption DEF Inv3, Linking
<1>1. cpu \in Contexts
    BY DEF Inv2, Inv1, TypeOK
<1>2. CASE SchedTick
    <2>1. cpu.owner \in Threads \cup {Boot}
        BY <1>1 DEF Contexts
    <2>2. ContextLinking(Running(cpu.owner))
        BY DEF ContextLinking, Running
    <2> QED
        BY <1>2, <2>1, <2>2, IrqLinking, RunningIsContext DEF SchedTick
<1>3. CASE (\E t \in Threads, m \in Millis : SleepSetState(t, m))
           \/ SleepSetTime
    <2>1. /\ UNCHANGED <<status, next, first, ParentProcess, CPUFrame, handler>>
          /\ cpu'.owner = cpu.owner
          /\ cpu'.at \in {"setTime", "softTick"}
          /\ handler = "none"
        <3>1. \A point : Goto(point).owner = cpu.owner /\ Goto(point).at = point
            BY <1>1 DEF Goto, Contexts
        <3>2. CASE \E t \in Threads, m \in Millis : SleepSetState(t, m)
            <4>1. PICK t \in Threads, m \in Millis : SleepSetState(t, m)
                BY <3>2
            <4>2. cpu' = [Goto("setTime") EXCEPT !.elem = t, !.millis = m]
                BY ONLY <4>1 DEF SleepSetState
            <4>3. cpu'.owner = cpu.owner /\ cpu'.at = "setTime"
                BY <1>1, <4>2 DEF Goto, Contexts
            <4> QED
                BY ONLY <4>1, <4>3 DEF SleepSetState, listVars, schedVars
        <3>3. CASE SleepSetTime
            BY ONLY <3>1, <3>3 DEF SleepSetTime, listVars, schedVars
        <3> QED
            BY ONLY <1>3, <3>2, <3>3
    <2>2. Linked'
        BY <2>1, LinkedStable DEF Linked
    <2>3. ContextLinking(cpu)'
        BY <2>1 DEF ContextLinking
    <2>4. \A t \in Threads : t # cpu'.owner => ContextLinking(CPUFrame[t])'
        BY <2>1 DEF ContextLinking
    <2> QED
        BY <2>1, <2>2, <2>3, <2>4 DEF Linked
<1> QED
    BY <1>2, <1>3 DEF Sleep

\* While one creator executes, no other thread is inside LListPushBack.
LEMMA OthersOutside ==
    ASSUME SingleCreator, Inv3, handler = "none", cpu.owner \in Creators,
           NEW t \in Threads, t # cpu.owner
    PROVE  CPUFrame[t].at \notin {"attach", "walk", "link"}
BY DEF SingleCreator, Inv3, Linking, ContextLinking, Inv2, Ownership,
       FrameOwnership

LEMMA CreateProcessLinking ==
    ASSUME SingleCreator, Inv3, NEW p \in Procs, NEW b \in BOOLEAN,
           SchedCreateProcess(p, b)
    PROVE  Linking'
<1> USE ConstantsAssumption DEF Inv3, Linking
<1>1. cpu \in Contexts /\ status \in [Elements -> {"free", "building", "listed"}]
      /\ next \in [Elements -> Elements \cup {NULL}]
      /\ first \in [Procs -> Threads \cup {NULL}]
    BY DEF Inv2, Inv1, TypeOK
<1>2. /\ UNCHANGED <<handler, CPUFrame, ParentProcess>>
      /\ handler = "none" /\ cpu.owner \in Creators
      /\ status[p] = "free"
      /\ status' = [status EXCEPT ![p] = "building"]
      /\ first' = [first EXCEPT ![p] = NULL]
      /\ next' = [next EXCEPT ![p] = NULL]
      /\ cpu'.owner = cpu.owner
      /\ cpu'.at = "attach" /\ cpu'.elem = p /\ cpu'.ptr = Kernel
    BY <1>1 DEF SchedCreateProcess, MayCreate, Goto, creating, schedVars,
                Contexts
<1>3. p \in Elements /\ Kernel \in Elements /\ Kernel # p
    BY <1>2 DEF Elements
<1>4. \A e \in Elements :
          /\ e # p => status'[e] = status[e] /\ next'[e] = next[e]
          /\ status[e] = "listed" <=> status'[e] = "listed"
    BY <1>1, <1>2
<1>5. \A q \in Procs : first'[q] = first[q]
    BY <1>1, <1>2
<1>6. NothingUnlinked'
    BY <1>2, <1>3, <1>4, <1>5 DEF NothingUnlinked
<1>7. /\ \A e \in Elements : status'[e] = "free" => next'[e] = NULL
      /\ \A e \in Elements : next'[e] # NULL => status'[next'[e]] = "listed"
    BY <1>1, <1>2, <1>3, <1>4
<1>8. /\ \A q \in Procs : status'[q] = "free" => first'[q] = NULL
      /\ \A q \in Procs : first'[q] # NULL => status'[first'[q]] = "listed"
      /\ status'[Kernel] = "listed"
    BY <1>1, <1>2, <1>3, <1>4, <1>5 DEF Elements
<1>9. ContextLinking(cpu)'
    BY <1>1, <1>2, <1>3, <1>8 DEF ContextLinking, Elements
<1>10. \A t \in Threads : t # cpu'.owner => ContextLinking(CPUFrame[t])'
    BY <1>2, OthersOutside DEF ContextLinking
<1> QED
    BY <1>2, <1>6, <1>7, <1>8, <1>9, <1>10

LEMMA CreateThreadLinking ==
    ASSUME SingleCreator, Inv3, NEW t \in Threads, NEW p \in Procs,
           SchedCreateThread(t, p)
    PROVE  Linking'
<1> USE ConstantsAssumption DEF Inv3, Linking
<1>1. cpu \in Contexts /\ status \in [Elements -> {"free", "building", "listed"}]
      /\ next \in [Elements -> Elements \cup {NULL}]
      /\ first \in [Procs -> Threads \cup {NULL}]
      /\ ParentProcess \in [Threads -> Procs \cup {NULL}]
      /\ CPUFrame \in [Threads -> Contexts]
    BY DEF Inv2, Inv1, TypeOK
<1>2. /\ UNCHANGED <<handler, first>>
      /\ handler = "none" /\ cpu.owner \in Creators
      /\ status[t] = "free" /\ status[p] = "listed"
      /\ status' = [status EXCEPT ![t] = "building"]
      /\ next' = [next EXCEPT ![t] = NULL]
      /\ ParentProcess' = [ParentProcess EXCEPT ![t] = p]
      /\ CPUFrame' = [CPUFrame EXCEPT ![t] = Running(t)]
      /\ cpu'.owner = cpu.owner
      /\ cpu'.at = "attach" /\ cpu'.elem = t /\ cpu'.ptr = first[p]
    BY <1>1 DEF SchedCreateThread, MayCreate, Goto, creating, schedVars,
                Contexts
<1>3. t \in Elements /\ Kernel \in Elements /\ Kernel # t
    BY DEF Elements
<1>4. \A e \in Elements :
          /\ e # t => status'[e] = status[e] /\ next'[e] = next[e]
          /\ status[e] = "listed" <=> status'[e] = "listed"
    BY <1>1, <1>2
<1>5. NothingUnlinked'
    BY <1>2, <1>3, <1>4 DEF NothingUnlinked
<1>6. /\ \A e \in Elements : status'[e] = "free" => next'[e] = NULL
      /\ \A e \in Elements : next'[e] # NULL => status'[next'[e]] = "listed"
    BY <1>1, <1>2, <1>3, <1>4
<1>7. /\ \A q \in Procs : status'[q] = "free" => first'[q] = NULL
      /\ \A q \in Procs : first'[q] # NULL => status'[first'[q]] = "listed"
      /\ status'[Kernel] = "listed"
    BY <1>1, <1>2, <1>3, <1>4 DEF Elements
<1>8. ContextLinking(cpu)'
    BY <1>1, <1>2, <1>3, <1>7 DEF ContextLinking, Elements
<1>9. ASSUME NEW u \in Threads, u # cpu'.owner
      PROVE  ContextLinking(CPUFrame[u])'
    <2>1. CPUFrame'[u].at \notin {"attach", "walk", "link"}
        BY <1>1, <1>2, <1>9, OthersOutside DEF Running
    <2> QED
        BY <2>1 DEF ContextLinking
<1> QED
    BY <1>2, <1>5, <1>6, <1>7, <1>8, <1>9

LEMMA PushBackLinking ==
    ASSUME SingleCreator, Inv3, AttachOrWalk \/ LListGetLast \/ LListPushBack
    PROVE  Linking'
<1> USE ConstantsAssumption DEF Inv3, Linking
<1>1. /\ cpu \in Contexts
      /\ status \in [Elements -> {"free", "building", "listed"}]
      /\ next \in [Elements -> Elements \cup {NULL}]
      /\ first \in [Procs -> Threads \cup {NULL}]
    BY DEF Inv2, Inv1, TypeOK
<1>2. /\ UNCHANGED <<ParentProcess, CPUFrame, handler>>
      /\ handler = "none"
      /\ cpu.at \in {"attach", "walk", "link"}
      /\ cpu'.owner = cpu.owner
    BY <1>1 DEF AttachOrWalk, LListGetLast, LListPushBack, linking, creating,
                schedVars, Goto, Running, Contexts
<1>3. /\ cpu.owner \in Creators
      /\ cpu.elem \in Elements /\ status[cpu.elem] = "building"
      /\ cpu.ptr # NULL => status[cpu.ptr] = "listed"
      /\ cpu.ptr = NULL => first[ParentProcess[cpu.elem]] = NULL
      /\ Kernel \in Elements
    BY <1>2 DEF ContextLinking, Inv2, Inv1, Shape, ContextShape, Elements
<1>4. SUFFICES Linked' /\ ContextLinking(cpu)'
    <2>1. ASSUME NEW t \in Threads, t # cpu'.owner
          PROVE  ContextLinking(CPUFrame[t])'
        BY <1>2, <1>3, <2>1, OthersOutside DEF ContextLinking
    <2> QED
        BY <1>2, <1>4, <2>1 DEF Linked
<1>5. ASSUME status' = [status EXCEPT ![cpu.elem] = "listed"]
      PROVE  /\ status'[cpu.elem] = "listed"
             /\ \A e \in Elements \ {cpu.elem} : status'[e] = status[e]
             /\ \A e \in Elements : status[e] = "listed" => status'[e] = "listed"
             /\ \A e \in Elements : status'[e] = "free" => status[e] = "free"
    BY <1>1, <1>3, <1>5
<1>6. CASE AttachOrWalk /\ cpu.ptr = NULL
    <2> DEFINE t == cpu.elem  p == ParentProcess[t]
    <2>1. /\ t \in Threads /\ p \in Procs /\ status[p] # "free"
          /\ first' = [first EXCEPT ![p] = t] /\ UNCHANGED next
          /\ status' = [status EXCEPT ![t] = "listed"]
          /\ cpu' = Running(cpu.owner)
        BY <1>2, <1>3, <1>6
        DEF AttachOrWalk, Inv2, Inv1, Shape, ContextShape, ListShape, Elements
    <2>2. first'[p] = t /\ \A q \in Procs \ {p} : first'[q] = first[q]
        BY <1>1, <2>1
    <2>3. NothingUnlinked'
        <3> SUFFICES ASSUME NEW e \in Elements, status'[e] = "listed"
                     PROVE  \/ e = Kernel
                            \/ \E q \in Procs : first'[q] = e
                            \/ \E x \in Elements :
                                   status'[x] = "listed" /\ next'[x] = e
            BY DEF NothingUnlinked
        <3>1. CASE e = t
            BY <2>1, <2>2, <3>1
        <3>2. CASE e # t
            <4>1. /\ first[p] # e
                  /\ status[e] = "listed"
                BY <1>3, <1>5, <1>6, <2>1, <3>2 DEF Elements
            <4> QED
                BY <1>5, <2>1, <2>2, <4>1 DEF NothingUnlinked
        <3> QED
            BY <3>1, <3>2
    <2>4. Linked'
        BY <1>1, <1>3, <1>5, <2>1, <2>2, <2>3 DEF Linked, Elements
    <2>5. ContextLinking(cpu)'
        BY <2>1 DEF ContextLinking, Running
    <2> QED
        BY <2>4, <2>5
<1>7. CASE AttachOrWalk /\ cpu.ptr # NULL
    <2>1. /\ UNCHANGED <<status, next, first>>
          /\ cpu' = [cpu EXCEPT !.at = "walk"]
        BY <1>7 DEF AttachOrWalk, Goto
    <2>2. cpu'.at = "walk" /\ cpu'.elem = cpu.elem /\ cpu'.ptr = cpu.ptr
        BY <1>1, <2>1 DEF Contexts
    <2>3. ContextLinking(cpu)'
        BY <1>2, <1>3, <2>1, <2>2 DEF ContextLinking
    <2> QED
        BY <2>1, <2>3, LinkedStable DEF Linked
<1>8. CASE LListGetLast
    <2>1. UNCHANGED <<status, next, first>> /\ cpu.ptr # NULL
        BY <1>8 DEF LListGetLast, Inv2, Inv1, Shape, ContextShape
    <2>2. cpu.ptr \in Elements
        BY <1>1, <2>1 DEF Contexts
    <2>3. CASE next[cpu.ptr] # NULL
        <3>1. /\ cpu'.at = "walk" /\ cpu'.elem = cpu.elem
              /\ cpu'.ptr = next[cpu.ptr]
            BY <1>1, <1>8, <2>3 DEF LListGetLast, Contexts
        <3>2. ContextLinking(cpu)'
            BY <1>2, <1>3, <2>1, <2>2, <2>3, <3>1 DEF ContextLinking
        <3> QED
            BY <2>1, <3>2, LinkedStable DEF Linked
    <2>4. CASE next[cpu.ptr] = NULL
        <3>1. /\ cpu'.at = "link" /\ cpu'.elem = cpu.elem
              /\ cpu'.ptr = cpu.ptr
            BY <1>1, <1>8, <2>4 DEF LListGetLast, Goto, Contexts
        <3>2. ContextLinking(cpu)'
            BY <1>2, <1>3, <2>1, <2>4, <3>1 DEF ContextLinking
        <3> QED
            BY <2>1, <3>2, LinkedStable DEF Linked
    <2> QED
        BY <2>3, <2>4
<1>9. CASE LListPushBack
    <2>1. /\ cpu.at = "link" /\ cpu.ptr \in Elements /\ cpu.ptr # NULL
          /\ next' = [next EXCEPT ![cpu.ptr] = cpu.elem] /\ UNCHANGED first
          /\ status' = [status EXCEPT ![cpu.elem] = "listed"]
          /\ cpu' = Running(cpu.owner)
        BY <1>1, <1>9 DEF LListPushBack, Inv2, Inv1, Shape, ContextShape,
                          Contexts
    <2>2. /\ next[cpu.ptr] = NULL /\ status[cpu.ptr] = "listed"
          /\ next'[cpu.ptr] = cpu.elem
          /\ \A e \in Elements \ {cpu.ptr} : next'[e] = next[e]
        BY <1>1, <1>2, <1>3, <2>1 DEF ContextLinking
    <2>3. NothingUnlinked'
        <3> SUFFICES ASSUME NEW e \in Elements, status'[e] = "listed"
                     PROVE  \/ e = Kernel
                            \/ \E q \in Procs : first'[q] = e
                            \/ \E x \in Elements :
                                   status'[x] = "listed" /\ next'[x] = e
            BY DEF NothingUnlinked
        <3>1. CASE e = cpu.elem
            BY <1>5, <2>1, <2>2, <3>1
        <3>2. CASE e # cpu.elem
            <4>1. status[e] = "listed" /\ e # NULL
                BY <1>5, <2>1, <3>2
            <4> QED
                BY <1>5, <2>1, <2>2, <4>1 DEF NothingUnlinked
        <3> QED
            BY <3>1, <3>2
    <2>4. Linked'
        BY <1>1, <1>3, <1>5, <2>1, <2>2, <2>3 DEF Linked, Elements
    <2>5. ContextLinking(cpu)'
        BY <2>1 DEF ContextLinking, Running
    <2> QED
        BY <2>4, <2>5
<1> QED
    BY <1>6, <1>7, <1>8, <1>9

LEMMA NextInv3 == SingleCreator /\ Inv3 /\ [Next]_vars => Inv3'
<1> SUFFICES ASSUME SingleCreator, Inv3, [Next]_vars PROVE Linking'
    BY NextInv2 DEF Inv3
<1>1. CASE TimerIrq
    BY <1>1, IrqLinking DEF TimerIrq, Inv3, Linking, Inv2, Inv1, TypeOK
<1>2. CASE Handler
    BY <1>2, HandlerLinking
<1>3. CASE Sleep
    BY <1>3, SleepLinking
<1>4. CASE Create
    BY <1>4, CreateProcessLinking, CreateThreadLinking, PushBackLinking
    DEF Create
<1>5. CASE UNCHANGED vars
    BY <1>5, LinkedStable
    DEF Inv3, Linking, Linked, ContextLinking, vars, listVars, schedVars
<1> QED
    BY <1>1, <1>2, <1>3, <1>4, <1>5 DEF Next

\* If one thread at most calls the SchedCreate functions, preempting it between
\* any two steps of LListPushBack costs no process and no thread its place.
THEOREM ListsStayWhole ==
    ASSUME SingleCreator PROVE Spec => []NothingUnlinked
<1>1. Inv3 => NothingUnlinked
    BY DEF Inv3, Linking
<1>2. Inv3 /\ [Next]_vars => Inv3'
    BY SingleCreator, NextInv3
<1> QED
    BY <1>1, <1>2, InitInv3, PTL DEF Spec
=============================================================================
