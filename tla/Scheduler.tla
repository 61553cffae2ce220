------------------------------ MODULE Scheduler ------------------------------
(***************************************************************************)
(* The thread scheduler of kernel/src/Scheduler/Scheduler.c on one CPU.    *)
(*                                                                         *)
(* Code outside an interrupt handler runs with interrupts enabled, so a    *)
(* timer IRQ may fall between any two of its stores: SchedSleep and the    *)
(* two SchedCreate functions are split into one action per visible store.  *)
(* SchedIrqHandler runs behind an interrupt gate, so nothing else happens  *)
(* until it returns; each turn of its search loop is an action of its own, *)
(* which makes "the handler returns" something that can be checked.        *)
(*                                                                         *)
(* A context stands for the registers SchedSaveFrame copies: whose they    *)
(* are, the point reached in the code, and the locals live there.  The     *)
(* stack pointer is no part of it, as a same-ring interrupt pushes none.   *)
(***************************************************************************)
EXTENDS Integers

CONSTANTS
    Threads,            \* thread records, the ones still to be allocated too
    Procs,              \* process records, likewise
    Kernel,             \* the process SchedInit creates
    Idle, Tester,       \* its two threads, "KIdle" and "Test"
    Boot,               \* owner of the context KMain is executing
    BootDirectory,      \* TemporaryPageDirectory, loaded by _start
    NULL,
    SchedTimePerThread, \* time slice, in ticks
    UINT32_MAX,         \* largest RemainingCpuTime, scaled down for TLC
    Millis,             \* arguments given to SchedSleep
    Creators            \* threads that call the SchedCreate functions

Elements == Threads \cup Procs

ASSUME ConstantsAssumption ==
    /\ Threads \cap Procs = {}
    /\ Kernel \in Procs
    /\ Idle \in Threads /\ Tester \in Threads /\ Idle # Tester
    /\ Boot \notin Threads
    /\ BootDirectory \notin Procs
    /\ NULL \notin Elements /\ NULL # BootDirectory
    /\ UINT32_MAX \in Nat
    /\ SchedTimePerThread \in 1..UINT32_MAX
    /\ Millis \subseteq 0..UINT32_MAX
    /\ Creators \subseteq Threads \ {Idle}

RUNNING  == "TASK_STATE_RUNNING"
SLEEPING == "TASK_STATE_SLEEPING"

VARIABLES
    status,                 \* is the record allocated, and in its list yet?
    next,                   \* ListElement.Next of each list element
    first,                  \* Process.Threads
    ParentProcess, State, RemainingCpuTime, CPUFrame,   \* SchedThread
    PageDirectory,          \* Process.PageDirectory, named by its process
    CurrentPageDirectory,
    CurrIteratedProc, CurrIteratedThread,
    initialized,            \* SchedIrqHandler's static flag
    handler,                \* where SchedIrqHandler is; "none" outside it
    cpu                     \* the context the CPU was executing

listVars  == <<status, next, first, ParentProcess, PageDirectory>>
schedVars == <<CurrIteratedProc, CurrIteratedThread, initialized, handler>>
vars == <<listVars, schedVars, State, RemainingCpuTime, CPUFrame,
          CurrentPageDirectory, cpu>>

Points == {"run", "setTime", "softTick", "attach", "walk", "link"}

Contexts == [owner : Threads \cup {Boot}, at : Points,
             elem : Elements \cup {NULL}, ptr : Elements \cup {NULL},
             millis : Millis \cup {0}]

\* A thread (or KMain) between calls into the scheduler.
Running(t) ==
    [owner |-> t, at |-> "run", elem |-> NULL, ptr |-> NULL, millis |-> 0]

------------------------------------------------------------------------------
\* The state SchedInit leaves, with KMain halted and interrupts enabled.
Init ==
    /\ status = [e \in Elements |->
                    IF e \in {Kernel, Idle, Tester} THEN "listed" ELSE "free"]
    /\ next = [e \in Elements |-> IF e = Idle THEN Tester ELSE NULL]
    /\ first = [p \in Procs |-> IF p = Kernel THEN Idle ELSE NULL]
    /\ ParentProcess =
           [t \in Threads |-> IF t \in {Idle, Tester} THEN Kernel ELSE NULL]
    /\ State = [t \in Threads |-> RUNNING]
    /\ RemainingCpuTime = [t \in Threads |-> SchedTimePerThread]
    /\ CPUFrame = [t \in Threads |-> Running(t)]
    /\ PageDirectory = [p \in Procs |-> NULL]
    /\ CurrentPageDirectory = BootDirectory
    /\ CurrIteratedProc = Kernel
    /\ CurrIteratedThread = Idle
    /\ initialized = FALSE
    /\ handler = "none"
    /\ cpu = Running(Boot)

------------------------------------------------------------------------------
(* SchedIrqHandler *)

\* Faulty variant of Decremented: an unbounded counter.
DecrementedUnbounded(n) == n - 1

\* RemainingCpuTime-- on a uint32_t.
Decremented(n) == IF n = 0 THEN UINT32_MAX ELSE n - 1

\* Faulty variant of SchedSaveFrame: no test of the static flag.
SaveFrameAlways(ctx) ==
    CPUFrame' = [CPUFrame EXCEPT ![CurrIteratedThread] = ctx]

\* The interrupted context ctx goes to the current thread's frame, except on
\* the first tick, which interrupts KMain.
SchedSaveFrame(ctx) ==
    CPUFrame' = IF initialized
                THEN [CPUFrame EXCEPT ![CurrIteratedThread] = ctx]
                ELSE CPUFrame

\* Faulty variant of TickRunning: the slice ends one tick early.
TickRunningEarly ==
    LET left == RemainingCpuTime[CurrIteratedThread]
        now  == IF left > 0 THEN left - 1 ELSE left
    IN  /\ State[CurrIteratedThread] = RUNNING
        /\ RemainingCpuTime' =
               [RemainingCpuTime EXCEPT ![CurrIteratedThread] = now]
        /\ handler' = IF now <= 1 THEN "pick" ELSE "load"
        /\ UNCHANGED State

TickRunning ==
    LET left == RemainingCpuTime[CurrIteratedThread]
        now  == IF left > 0 THEN left - 1 ELSE left
    IN  /\ State[CurrIteratedThread] = RUNNING
        /\ RemainingCpuTime' =
               [RemainingCpuTime EXCEPT ![CurrIteratedThread] = now]
        /\ handler' = IF now = 0 THEN "pick" ELSE "load"
        /\ UNCHANGED State

\* Faulty variant of TickSleeping: post-decrement in the test, no reset.
TickSleepingPostDecrement ==
    LET left == RemainingCpuTime[CurrIteratedThread]
    IN  /\ State[CurrIteratedThread] = SLEEPING
        /\ RemainingCpuTime' =
               [RemainingCpuTime EXCEPT ![CurrIteratedThread] = Decremented(left)]
        /\ IF left = 0
           THEN /\ State' = [State EXCEPT ![CurrIteratedThread] = RUNNING]
                /\ handler' = "load"
           ELSE /\ handler' = "pick"
                /\ UNCHANGED State

TickSleeping ==
    LET now == Decremented(RemainingCpuTime[CurrIteratedThread])
    IN  /\ State[CurrIteratedThread] = SLEEPING
        /\ IF now = 0
           THEN /\ State' = [State EXCEPT ![CurrIteratedThread] = RUNNING]
                /\ RemainingCpuTime' = [RemainingCpuTime EXCEPT
                                ![CurrIteratedThread] = SchedTimePerThread]
                /\ handler' = "load"
           ELSE /\ RemainingCpuTime' =
                       [RemainingCpuTime EXCEPT ![CurrIteratedThread] = now]
                /\ handler' = "pick"
                /\ UNCHANGED State

\* Interrupt 0x20 taken while ctx was executing, up to the search loop.
SchedIrqHandler(ctx) ==
    /\ initialized' = TRUE
    /\ SchedSaveFrame(ctx)
    /\ TickRunning \/ TickSleeping
    /\ UNCHANGED <<listVars, CurrIteratedProc, CurrIteratedThread,
                   CurrentPageDirectory, cpu>>

\* Faulty variant of Examine: sleepers are not passed over.
ExamineAny(t) ==
    /\ CurrIteratedThread' = t
    /\ RemainingCpuTime' = [RemainingCpuTime EXCEPT ![t] = SchedTimePerThread]
    /\ handler' = "load"

\* The body of the do-while once PickNextThread has settled on thread t: a
\* sleeper loses one unit and the search goes on; the first running thread
\* ends it and gets a whole slice.
Examine(t) ==
    /\ CurrIteratedThread' = t
    /\ IF State[t] = SLEEPING
       THEN /\ RemainingCpuTime' =
                   [RemainingCpuTime EXCEPT ![t] = Decremented(@)]
            /\ handler' = "pick"
       ELSE /\ RemainingCpuTime' =
                   [RemainingCpuTime EXCEPT ![t] = SchedTimePerThread]
            /\ handler' = "load"

scanFrame == <<listVars, State, CPUFrame, CurrentPageDirectory, initialized,
               cpu>>

\* Faulty variant of PickNextThread: back to the head of the same process.
PickInSameProcess ==
    /\ handler = "pick"
    /\ Examine(IF next[CurrIteratedThread] # NULL
               THEN next[CurrIteratedThread]
               ELSE first[CurrIteratedProc])
    /\ UNCHANGED <<CurrIteratedProc, scanFrame>>

\* PickNextThread: the next thread of the same process, if there is one.
PickNextThread ==
    /\ handler = "pick"
    /\ IF next[CurrIteratedThread] # NULL
       THEN Examine(next[CurrIteratedThread])
       ELSE /\ CurrIteratedThread' = NULL
            /\ handler' = "scan"
            /\ UNCHANGED RemainingCpuTime
    /\ UNCHANGED <<CurrIteratedProc, scanFrame>>

\* Faulty variant of PickNextProcess: the process list does not wrap around.
PickNextProcessNoWrap ==
    LET p == IF next[CurrIteratedProc] = NULL
             THEN CurrIteratedProc
             ELSE next[CurrIteratedProc]
    IN  /\ handler = "scan"
        /\ CurrIteratedProc' = p
        /\ IF first[p] # NULL
           THEN Examine(first[p])
           ELSE UNCHANGED <<CurrIteratedThread, handler, RemainingCpuTime>>
        /\ UNCHANGED scanFrame

\* One turn of PickNextThread's loop over processes; the list wraps around,
\* and a process with no thread is passed over.
PickNextProcess ==
    LET p == IF next[CurrIteratedProc] = NULL
             THEN Kernel        \* SchedProcessList
             ELSE next[CurrIteratedProc]
    IN  /\ handler = "scan"
        /\ CurrIteratedProc' = p
        /\ IF first[p] # NULL
           THEN Examine(first[p])
           ELSE UNCHANGED <<CurrIteratedThread, handler, RemainingCpuTime>>
        /\ UNCHANGED scanFrame

\* Faulty variant of SwitchTo: it is decided before the search, for the
\* process of the interrupted thread.
SwitchToInterrupted(p) ==
    LET q == IF cpu.owner = Boot THEN p ELSE ParentProcess[cpu.owner]
    IN  CurrentPageDirectory' = IF PageDirectory[q] # NULL
                                THEN PageDirectory[q]
                                ELSE CurrentPageDirectory

\* SwitchPageDirectory, when the process has a directory of its own.
SwitchTo(p) ==
    CurrentPageDirectory' = IF PageDirectory[p] # NULL
                            THEN PageDirectory[p]
                            ELSE CurrentPageDirectory

\* The tail of the handler: SchedLoadFrame, end of interrupt and iret.
SchedLoadFrame ==
    /\ handler = "load"
    /\ SwitchTo(CurrIteratedProc)
    /\ cpu' = CPUFrame[CurrIteratedThread]
    /\ handler' = "none"
    /\ UNCHANGED <<listVars, CurrIteratedProc, CurrIteratedThread, initialized,
                   State, RemainingCpuTime, CPUFrame>>

\* The PIT raises IRQ 0; it is delivered whenever interrupts are enabled.
TimerIrq == handler = "none" /\ SchedIrqHandler(cpu)

------------------------------------------------------------------------------
(* SchedSleep: two stores, then int $0x20 *)

\* The context that goes on from point `at` of the code.
Goto(at) == [cpu EXCEPT !.at = at]

SleepSetState(t, millis) ==
    /\ handler = "none" /\ cpu.at = "run" /\ cpu.owner \notin {Boot, Idle}
    /\ t # Idle /\ status[t] = "listed"
    /\ State' = [State EXCEPT ![t] = SLEEPING]
    /\ cpu' = [Goto("setTime") EXCEPT !.elem = t, !.millis = millis]
    /\ UNCHANGED <<listVars, schedVars, RemainingCpuTime, CPUFrame,
                   CurrentPageDirectory>>

SleepSetTime ==
    /\ handler = "none" /\ cpu.at = "setTime"
    /\ RemainingCpuTime' = [RemainingCpuTime EXCEPT ![cpu.elem] = cpu.millis]
    /\ cpu' = Goto("softTick")
    /\ UNCHANGED <<listVars, schedVars, State, CPUFrame, CurrentPageDirectory>>

\* The frame SchedTick saves is that of a caller back from SchedSleep.
SchedTick ==
    /\ handler = "none" /\ cpu.at = "softTick"
    /\ SchedIrqHandler(Running(cpu.owner))

------------------------------------------------------------------------------
(* SchedCreateProcess, SchedCreateThread and LListPushBack *)

creating == <<schedVars, CurrentPageDirectory>>

MayCreate == handler = "none" /\ cpu.at = "run" /\ cpu.owner \in Creators

\* A new process record, not yet in SchedProcessList.
SchedCreateProcess(p, allocPageDir) ==
    /\ MayCreate
    /\ status[p] = "free"
    /\ status' = [status EXCEPT ![p] = "building"]
    /\ PageDirectory' =
           [PageDirectory EXCEPT ![p] = IF allocPageDir THEN p ELSE NULL]
    /\ first' = [first EXCEPT ![p] = NULL]
    /\ next' = [next EXCEPT ![p] = NULL]
    /\ cpu' = [Goto("attach") EXCEPT !.elem = p, !.ptr = Kernel]
    /\ UNCHANGED <<creating, ParentProcess, State, RemainingCpuTime, CPUFrame>>

\* A new thread record of process p, not yet in p's list.
SchedCreateThread(t, p) ==
    /\ MayCreate
    /\ status[t] = "free" /\ status[p] = "listed"
    /\ status' = [status EXCEPT ![t] = "building"]
    /\ ParentProcess' = [ParentProcess EXCEPT ![t] = p]
    /\ State' = [State EXCEPT ![t] = RUNNING]
    /\ RemainingCpuTime' = [RemainingCpuTime EXCEPT ![t] = SchedTimePerThread]
    /\ CPUFrame' = [CPUFrame EXCEPT ![t] = Running(t)]
    /\ next' = [next EXCEPT ![t] = NULL]
    /\ cpu' = [Goto("attach") EXCEPT !.elem = t, !.ptr = first[p]]
    /\ UNCHANGED <<creating, first, PageDirectory>>

linking == <<creating, ParentProcess, PageDirectory, State, RemainingCpuTime,
             CPUFrame>>

\* An empty thread list gets its head; any other list is walked to its end.
AttachOrWalk ==
    /\ handler = "none" /\ cpu.at = "attach"
    /\ IF cpu.ptr = NULL
       THEN /\ first' = [first EXCEPT ![ParentProcess[cpu.elem]] = cpu.elem]
            /\ status' = [status EXCEPT ![cpu.elem] = "listed"]
            /\ cpu' = Running(cpu.owner)
       ELSE /\ cpu' = Goto("walk")
            /\ UNCHANGED <<first, status>>
    /\ UNCHANGED <<linking, next>>

\* Faulty variant of LListGetLast: links after the head.
LinkAfterHead ==
    /\ handler = "none" /\ cpu.at = "walk"
    /\ cpu' = Goto("link")
    /\ UNCHANGED <<linking, first, status, next>>

\* One turn of LListGetLast.
LListGetLast ==
    /\ handler = "none" /\ cpu.at = "walk"
    /\ cpu' = IF next[cpu.ptr] # NULL
              THEN [cpu EXCEPT !.ptr = next[cpu.ptr]]
              ELSE Goto("link")
    /\ UNCHANGED <<linking, first, status, next>>

LListPushBack ==
    /\ handler = "none" /\ cpu.at = "link"
    /\ next' = [next EXCEPT ![cpu.ptr] = cpu.elem]
    /\ status' = [status EXCEPT ![cpu.elem] = "listed"]
    /\ cpu' = Running(cpu.owner)
    /\ UNCHANGED <<linking, first>>

------------------------------------------------------------------------------
Handler == PickNextThread \/ PickNextProcess \/ SchedLoadFrame

Sleep ==
    \/ \E t \in Threads, m \in Millis : SleepSetState(t, m)
    \/ SleepSetTime
    \/ SchedTick

Create ==
    \/ \E p \in Procs, b \in BOOLEAN : SchedCreateProcess(p, b)
    \/ \E t \in Threads, p \in Procs : SchedCreateThread(t, p)
    \/ AttachOrWalk
    \/ LListGetLast
    \/ LListPushBack

Next == TimerIrq \/ Handler \/ Sleep \/ Create

Spec == Init /\ [][Next]_vars

\* The PIT never stops, and the CPU goes on executing the handler.
FairSpec == Spec /\ WF_vars(TimerIrq) /\ WF_vars(Handler)

------------------------------------------------------------------------------
(* Properties *)

TypeOK ==
    /\ status \in [Elements -> {"free", "building", "listed"}]
    /\ next \in [Elements -> Elements \cup {NULL}]
    /\ first \in [Procs -> Threads \cup {NULL}]
    /\ ParentProcess \in [Threads -> Procs \cup {NULL}]
    /\ State \in [Threads -> {RUNNING, SLEEPING}]
    /\ RemainingCpuTime \in [Threads -> 0..UINT32_MAX]
    /\ CPUFrame \in [Threads -> Contexts]
    /\ PageDirectory \in [Procs -> Procs \cup {NULL}]
    /\ CurrentPageDirectory \in Procs \cup {BootDirectory}
    /\ CurrIteratedProc \in Procs
    /\ CurrIteratedThread \in Threads \cup {NULL}
    /\ initialized \in BOOLEAN
    /\ handler \in {"none", "pick", "scan", "load"}
    /\ cpu \in Contexts

\* Outside the handler the registers are those of the thread the scheduler
\* takes to be current, and no frame ever holds another thread's registers:
\* KMain's last context, in particular, ends up in nobody's frame.
FrameOwnership ==
    /\ \A t \in Threads : CPUFrame[t].owner = t
    /\ handler = "none" =>
           cpu.owner = IF initialized THEN CurrIteratedThread ELSE Boot

\* A thread whose process has a page directory executes under that directory,
\* although the switch is skipped for processes that have none.
RightAddressSpace ==
    (handler = "none" /\ initialized) =>
        PageDirectory[ParentProcess[cpu.owner]]
            \in {NULL, CurrentPageDirectory}

\* A thread marked as sleeping has the CPU only while it is itself inside
\* SchedSleep, between the store to State and its int $0x20.
SleeperHoldsCpuOnlyInSleep ==
    (handler = "none" /\ initialized /\ State[cpu.owner] = SLEEPING) =>
        cpu.at \in {"setTime", "softTick"} /\ cpu.elem = cpu.owner

\* While a creator is preempted anywhere inside LListPushBack, every record
\* that was ever added to its list is still linked from a listed record.
NothingUnlinked ==
    \A e \in Elements : status[e] = "listed" =>
        \/ e = Kernel
        \/ \E p \in Procs : first[p] = e
        \/ \E x \in Elements : status[x] = "listed" /\ next[x] = e

\* A thread loses the CPU only with its slice spent, or asleep.
NoEarlyPreemption ==
    [][(cpu.owner # Boot /\ cpu'.owner # cpu.owner) =>
           State[cpu.owner] = SLEEPING \/ RemainingCpuTime[cpu.owner] = 0]_vars

\* SchedIrqHandler, which runs with interrupts disabled, always returns.
HandlerReturns == handler # "none" ~> handler = "none"

\* Once nobody executes SchedSleep any more (a thread that calls it for one
\* millisecond in a loop never leaves the CPU), every thread gets the CPU again
\* and again, or is asleep for good.
NoStarvation ==
    <>[](cpu.at \notin {"setTime", "softTick"}) =>
        \A t \in Threads :
            <>(status[t] = "listed") =>
                []<>(cpu.owner = t) \/ <>[](State[t] = SLEEPING)

\* A thread that is awake has more than one slice to run only if a timer
\* interrupt came between the two stores of its SchedSleep and made it RUNNING
\* again: then the second store hands it the sleeping time. No wake-up, search,
\* creation or wrap of the counter of a sleeper does that.
LongSlicesFromSleep ==
    [][\A t \in Threads :
          (State'[t] = RUNNING /\ RemainingCpuTime'[t] > SchedTimePerThread) =>
              /\ State[t] = RUNNING
              /\ \/ RemainingCpuTime[t] > SchedTimePerThread
                 \/ handler = "none" /\ cpu.at = "setTime" /\ cpu.elem = t]_vars

\* SchedSleepTest returns from SchedSleep: a sleeper is woken sooner or later.
SleeperWakes ==
    \A t \in Threads : State[t] = SLEEPING ~> State[t] = RUNNING
==============================================================================
