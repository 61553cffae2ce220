----------------------------- MODULE Interrupts -----------------------------
(***************************************************************************)
(* What happens between an interrupt and its iret: the gates of IDT.c, the *)
(* stubs of IDTAsm.asm, IdtGlobalIntHandler and the handlers it calls, the *)
(* two PICs as PicInit and PicEOI leave them, and the stack words of the   *)
(* frames SchedSaveFrame and SchedLoadFrame copy.                          *)
(*                                                                         *)
(* There is one kernel stack, the one _start gave to KMain: GdtInit puts   *)
(* its top into the TSS, and ring-0 code is never moved to another, since  *)
(* an iret to ring 0 loads no ESP.  Every gate is an interrupt gate, so a  *)
(* handler runs to its iret undisturbed while lines go on being raised.    *)
(* The choice of a thread is the Scheduler module's; here it is any.       *)
(***************************************************************************)
EXTENDS Integers, SequencesExt

CONSTANTS
    KernelThreads, UserThreads,
    StackThreads,           \* kernel threads that use the stack; others halt
    KMain,                  \* the code that enables interrupts
    KMainWords,             \* words KMain has on the stack by then
    MaxPushed,              \* bound: words a kernel thread has pushed
    Lines,                  \* interrupt lines that devices raise
    Values,                 \* of Eax, of the user's Esp and of pushed words
    SYSCALL_HANDLER_AMOUNT

Threads == KernelThreads \cup UserThreads

ASSUME InterruptsAssumption ==
    /\ KernelThreads # {} /\ KernelThreads \cap UserThreads = {}
    /\ StackThreads \subseteq KernelThreads
    /\ KMain \notin Threads
    /\ KMainWords \in Nat /\ KMainWords >= 2
    /\ MaxPushed \in Nat
    /\ Lines \subseteq (0..15) \ {2}
    /\ Values \subseteq Nat /\ 0 \in Values
    /\ SYSCALL_HANDLER_AMOUNT \in Nat

VARIABLES
    cpu,                \* registers, in the CPU or in the frame
    Esp, Ss,            \* those of ring 3; 0 in ring 0
    kstack,             \* words on the kernel stack above any frame, top last
    int,                \* the interrupt that is being handled, and how far
    CPUFrame,           \* the saved frame of each thread that exists
    CurrIteratedThread, initialized,    \* Scheduler.c
    IdtIntHandlers,     \* vectors that have a handler
    pic1, pic2,         \* lines requested and in service
    own                 \* history: what each thread takes for its own state

sched == <<CPUFrame, CurrIteratedThread, initialized>>
pics  == <<pic1, pic2>>
vars  == <<cpu, Esp, Ss, kstack, int, sched, IdtIntHandlers, pics, own>>

\* Selectors, with the RPL of ring 3.
KernelCode == 8
KernelData == 16
UserCode   == 24 + 3
UserData   == 32 + 3

\* Where a ring-3 interrupt starts on the kernel stack: TSS.esp is StackTop.
StackTop == <<>>

\* Handlers set by SchedInit and SyscallInit.
InitialHandlers == {32, 131}

NoInterrupt == [at |-> "none", n |-> 0]

\* A context by the code it belongs to, which stands for Eip and what else
\* only that code changes.
Registers(owner, eax, cs) == [Owner |-> owner, Eax |-> eax, Cs |-> cs]

\* SchedCreateThread: Esp is the stack that the caller has provided.
NewFrame(t) ==
    [Owner |-> t, Eax |-> 0, Esp |-> 0,
     Cs |-> IF t \in KernelThreads THEN KernelCode ELSE UserCode,
     Ss |-> IF t \in KernelThreads THEN KernelData ELSE UserData]

Existing == { t \in Threads : CPUFrame[t].Owner # KMain }
NoFrame  == [Owner |-> KMain, Eax |-> 0, Esp |-> 0, Cs |-> 0, Ss |-> 0]

\* KMain after its last call, about to enable interrupts.
Init ==
    /\ cpu = Registers(KMain, 0, KernelCode)
    /\ Esp = 0 /\ Ss = 0
    /\ kstack = [i \in 1..KMainWords |-> 0]
    /\ int = NoInterrupt
    /\ CPUFrame = [t \in Threads |->
                      IF t \in KernelThreads THEN NewFrame(t) ELSE NoFrame]
    /\ CurrIteratedThread \in KernelThreads
    /\ initialized = FALSE
    /\ IdtIntHandlers = InitialHandlers
    /\ pic1 = [irr |-> {}, isr |-> {}]
    /\ pic2 = [irr |-> {}, isr |-> {}]
    /\ own = [t \in Threads |-> [Eax |-> 0, Esp |-> 0, pushed |-> <<>>]]

Ring3 == cpu.Cs = UserCode

------------------------------------------------------------------------------
(* The interrupt controllers *)

PicIrqOffset == 32

\* An 8259 takes the upper five bits of the offset it is given.
VectorBase(offset) == (offset \div 8) * 8

Lowest(lines) == CHOOSE l \in lines : \A m \in lines : l <= m

\* Lines that are served next: no line as urgent is in service.
Requests(p) == { l \in p.irr : \A s \in p.isr : l < s }

\* The second PIC asks on line 2 of the first.
Request1 == IF Requests(pic2) = {} THEN pic1
            ELSE [pic1 EXCEPT !.irr = @ \cup {2}]

InService(p, l) == [irr |-> p.irr \ {l}, isr |-> p.isr \cup {l}]

\* The end-of-interrupt command that names no line.
Acknowledged(p) ==
    IF p.isr = {} THEN p ELSE [p EXCEPT !.isr = @ \ {Lowest(@)}]

PicEOI(irq) ==
    /\ pic2' = IF irq > 7 THEN Acknowledged(pic2) ELSE pic2
    /\ pic1' = Acknowledged(pic1)

RaiseLine(l) ==
    /\ IF l < 8
       THEN pic1' = [pic1 EXCEPT !.irr = @ \cup {l}] /\ UNCHANGED pic2
       ELSE pic2' = [pic2 EXCEPT !.irr = @ \cup {l - 8}] /\ UNCHANGED pic1
    /\ UNCHANGED <<cpu, Esp, Ss, kstack, int, sched, IdtIntHandlers, own>>

------------------------------------------------------------------------------
(* Entry *)

\* The CPU, then the stub: from ring 3 the stack is the TSS's, from the top,
\* and SS and ESP are the first words on it; from ring 0 it is the current
\* one, and the words above the frame are those of the code interrupted.
Enter(n) ==
    /\ int' = [at |-> "dispatch", n |-> n]
    /\ kstack' = IF Ring3 THEN StackTop \o <<Ss, Esp>> ELSE kstack
    /\ Esp' = 0 /\ Ss' = 0
    /\ UNCHANGED <<cpu, sched, IdtIntHandlers, own>>

HardwareInterrupt ==
    /\ int.at = "none"
    /\ Requests(Request1) # {}
    /\ LET l == Lowest(Requests(Request1))
           s == Lowest(Requests(pic2))
       IN  /\ pic1' = InService(pic1, l)
           /\ IF l = 2
              THEN /\ pic2' = InService(pic2, s)
                   /\ Enter(VectorBase(PicIrqOffset + 7) + s)
              ELSE Enter(VectorBase(PicIrqOffset) + l) /\ UNCHANGED pic2

\* Ring 3 may use a gate of DPL 3 only, else there is a #GP.  The remaining
\* vectors lead to _IntDefault, whose iret undoes the entry at once.
MinDpl(n) == IF n = 131 THEN 3 ELSE 0

SoftwareInterrupt(n) ==
    /\ int.at = "none"
    /\ Enter(IF Ring3 /\ MinDpl(n) < 3 THEN 13 ELSE n)
    /\ UNCHANGED pics

\* A kernel thread in SchedSleep.
SchedTick == ~Ring3 /\ cpu.Owner # KMain /\ SoftwareInterrupt(32)

Syscall == Ring3 /\ SoftwareInterrupt(131)

\* A user thread that tries what SchedSleep does, or a page fault anywhere.
Exception ==
    \/ Ring3 /\ SoftwareInterrupt(32)
    \/ int.at = "none" /\ Enter(14) /\ UNCHANGED pics

------------------------------------------------------------------------------
(* Handlers *)

\* The two words above the frame, whatever was interrupted.
UserEspWord == kstack[Len(kstack)]
SsWord      == kstack[Len(kstack) - 1]

\* Faulty variant of SchedSaveFrame: ESP is what pushad has pushed.
SaveFramePushad ==
    [Owner |-> cpu.Owner, Eax |-> cpu.Eax, Cs |-> cpu.Cs,
     Esp |-> Len(kstack), Ss |-> SsWord]

\* Faulty variant of SchedSaveFrame: ESP and SS only where the CPU pushed them.
SaveFrameByRing ==
    [Owner |-> cpu.Owner, Eax |-> cpu.Eax, Cs |-> cpu.Cs,
     Esp |-> IF Ring3 THEN UserEspWord ELSE 0,
     Ss  |-> IF Ring3 THEN SsWord ELSE KernelData]

SchedSaveFrame ==
    [Owner |-> cpu.Owner, Eax |-> cpu.Eax, Cs |-> cpu.Cs,
     Esp |-> UserEspWord, Ss |-> SsWord]

SchedLoadFrame(f) ==
    /\ cpu' = Registers(f.Owner, f.Eax, f.Cs)
    /\ kstack' = [kstack EXCEPT ![Len(kstack)] = f.Esp,
                                ![Len(kstack) - 1] = f.Ss]

\* The first time there is nothing to save: KMain does not go on.
SchedIrqHandler ==
    /\ CPUFrame' = IF initialized
                   THEN [CPUFrame EXCEPT ![CurrIteratedThread] = SchedSaveFrame]
                   ELSE CPUFrame
    /\ initialized' = TRUE
    /\ CurrIteratedThread' \in Existing
    /\ SchedLoadFrame(CPUFrame'[CurrIteratedThread'])
    /\ UNCHANGED own

\* The number of the call is in Eax, and so is the result.
SyscallIntHandler ==
    /\ IF cpu.Eax >= SYSCALL_HANDLER_AMOUNT
       THEN UNCHANGED <<cpu, own>>
       ELSE \E result \in Values :
               /\ cpu' = [cpu EXCEPT !.Eax = result]
               /\ own' = [own EXCEPT ![CurrIteratedThread].Eax = result]
    /\ UNCHANGED <<kstack, sched>>

\* The handler of the keyboard returns the frame, like having none.
Handle(n) ==
    CASE n = 32 /\ n \in IdtIntHandlers  -> SchedIrqHandler
      [] n = 131 /\ n \in IdtIntHandlers -> SyscallIntHandler
      [] OTHER -> UNCHANGED <<cpu, kstack, sched, own>>

\* Faulty variant of EndOfInterrupt: only what was handled is acknowledged.
EndOfHandledInterrupt(n) ==
    IF n \in 32..47 /\ n \in IdtIntHandlers THEN PicEOI(n - 32)
    ELSE UNCHANGED pics

\* Faulty variant of EndOfInterrupt: the first vector is forgotten.
EndOfInterruptOffByOne(n) ==
    IF n > 32 /\ n <= 47 THEN PicEOI(n - 32) ELSE UNCHANGED pics

\* Interrupts by software are acknowledged as well.
EndOfInterrupt(n) ==
    IF n \in 32..47 THEN PicEOI(n - 32) ELSE UNCHANGED pics

\* Exceptions stop the machine.
IdtGlobalIntHandler ==
    /\ int.at = "dispatch"
    /\ IF int.n <= 30
       THEN /\ int' = [int EXCEPT !.at = "hung"]
            /\ UNCHANGED <<cpu, kstack, sched, own, pics>>
       ELSE /\ int' = [int EXCEPT !.at = "return"]
            /\ Handle(int.n)
            /\ EndOfInterrupt(int.n)
    /\ UNCHANGED <<Esp, Ss, IdtIntHandlers>>

\* Faulty variant of Iret: five words are popped, as if always from ring 3.
IretPopsFive ==
    /\ int.at = "return"
    /\ int' = NoInterrupt
    /\ IF Ring3 THEN Esp' = UserEspWord /\ Ss' = SsWord ELSE UNCHANGED <<Esp, Ss>>
    /\ kstack' = SubSeq(kstack, 1, Len(kstack) - 2)
    /\ UNCHANGED <<cpu, sched, IdtIntHandlers, pics, own>>

\* The end of IntCommon: ESP and SS are loaded on the way to ring 3 only.
Iret ==
    /\ int.at = "return"
    /\ int' = NoInterrupt
    /\ IF Ring3
       THEN Esp' = UserEspWord /\ Ss' = SsWord /\ kstack' = StackTop
       ELSE UNCHANGED <<Esp, Ss, kstack>>
    /\ UNCHANGED <<cpu, sched, IdtIntHandlers, pics, own>>

------------------------------------------------------------------------------
(* What the threads do *)

\* A user thread goes on, on its own stack.
Compute ==
    /\ int.at = "none" /\ Ring3
    /\ \E eax \in Values, esp \in Values :
          /\ cpu' = [cpu EXCEPT !.Eax = eax]
          /\ Esp' = esp
          /\ own' = [own EXCEPT ![cpu.Owner].Eax = eax,
                                ![cpu.Owner].Esp = esp]
    /\ UNCHANGED <<Ss, kstack, int, sched, IdtIntHandlers, pics>>

\* A kernel thread that finds other words than its own goes wrong; it is left
\* where it is.
UsesStack ==
    /\ int.at = "none" /\ cpu.Owner \in StackThreads
    /\ IsSuffix(own[cpu.Owner].pushed, kstack)
    /\ UNCHANGED <<cpu, Esp, Ss, int, sched, IdtIntHandlers, pics>>

Push ==
    /\ UsesStack
    /\ Len(own[cpu.Owner].pushed) < MaxPushed
    /\ \E w \in Values :
          /\ kstack' = Append(kstack, w)
          /\ own' = [own EXCEPT ![cpu.Owner].pushed = Append(@, w)]

\* Once a user thread has run, the stack of a kernel thread may begin too near
\* the top; memory above the top is not modelled.
Pop ==
    /\ UsesStack
    /\ own[cpu.Owner].pushed # <<>> /\ Len(kstack) > 2
    /\ kstack' = Front(kstack)
    /\ own' = [own EXCEPT ![cpu.Owner].pushed = Front(@)]

\* SchedCreateThread by a kernel thread, for a process in user mode.
CreateUserThread(t) ==
    /\ int.at = "none" /\ cpu.Owner \in KernelThreads /\ t \notin Existing
    /\ CPUFrame' = [CPUFrame EXCEPT ![t] = NewFrame(t)]
    /\ UNCHANGED <<cpu, Esp, Ss, kstack, int, CurrIteratedThread, initialized,
                   IdtIntHandlers, pics, own>>

PS2KbdInit ==
    /\ int.at = "none" /\ ~Ring3
    /\ IdtIntHandlers' = IdtIntHandlers \cup {33}
    /\ UNCHANGED <<cpu, Esp, Ss, kstack, int, sched, pics, own>>

Next ==
    \/ \E l \in Lines : RaiseLine(l)
    \/ HardwareInterrupt \/ SchedTick \/ Syscall \/ Exception
    \/ IdtGlobalIntHandler \/ Iret
    \/ Compute \/ Push \/ Pop
    \/ \E t \in UserThreads : CreateUserThread(t)
    \/ PS2KbdInit

\* The CPU goes on in a handler, and looks for a request before every
\* instruction it executes with interrupts enabled, however often code
\* interrupts itself in between.
Fairness ==
    /\ SF_vars(HardwareInterrupt)
    /\ WF_vars(IdtGlobalIntHandler) /\ WF_vars(Iret)

Spec     == Init /\ [][Next]_vars
FairSpec == Spec /\ Fairness

------------------------------------------------------------------------------
(* Properties *)

Selectors == {0, KernelCode, KernelData, UserCode, UserData}
Words == Values \cup Selectors
Pics  == [irr : SUBSET (0..7), isr : SUBSET (0..7)]

\* Every interrupt finds two words above its frame.
TypeOK ==
    /\ cpu \in [Owner : Threads \cup {KMain}, Eax : Values, Cs : Selectors]
    /\ Esp \in Words /\ Ss \in Words
    /\ kstack \in Seq(Words)
    /\ int \in [at : {"none", "dispatch", "return", "hung"}, n : 0..255]
    /\ int.at # "none" => Len(kstack) >= 2
    /\ CPUFrame \in [Threads -> [Owner : Threads \cup {KMain}, Eax : Values,
                                 Cs : Selectors, Esp : Words, Ss : Words]]
    /\ CurrIteratedThread \in Threads /\ initialized \in BOOLEAN
    /\ IdtIntHandlers \subseteq 0..255
    /\ pic1 \in Pics /\ pic2 \in Pics
    /\ own \in [Threads -> [Eax : Values, Esp : Values, pushed : Seq(Values)]]

\* A user thread goes on with its own registers, stack pointer and segments,
\* although its frames are saved and loaded by the same code that copies words
\* of the interrupted stack when kernel threads are switched.
UserThreadWhole ==
    (int.at = "none" /\ Ring3) =>
        /\ cpu.Owner = CurrIteratedThread
        /\ cpu.Owner \in UserThreads
        /\ cpu.Eax = own[cpu.Owner].Eax
        /\ Esp = own[cpu.Owner].Esp
        /\ Ss = UserData

\* Kernel threads share one stack, and each switch overwrites its top two
\* words.  As long as only one of them uses it and none runs in ring 3, the
\* words it has pushed are all there, in order, when it goes on.
KernelWordsKept ==
    \A t \in KernelThreads :
        (StackThreads = {t} /\ Existing = KernelThreads /\ int.at = "none"
         /\ cpu.Owner = t)
            => IsSuffix(own[t].pushed, kstack)

\* When code runs with interrupts enabled, nothing is in service in the first
\* PIC: neither an interrupt without a handler, nor one of the second PIC, which
\* arrives under a vector of the first, nor SchedTick, which no PIC sent,
\* leaves a line blocked there.
MasterAcknowledged == int.at = "none" => pic1.isr = {}

\* The timer is served for as long as the machine runs, whatever the other
\* lines do and however it is left in service elsewhere.
TimerServed == (0 \in pic1.irr) ~> (0 \notin pic1.irr \/ int.at = "hung")
=============================================================================
