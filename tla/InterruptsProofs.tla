-------------------------- MODULE InterruptsProofs --------------------------
(***************************************************************************)
(* Proofs about interrupts for any threads, any words on the stack and any *)
(* lines that devices raise.                                               *)
(*                                                                         *)
(* A user thread is whole when it goes on because its state is always in   *)
(* one of three places: in the CPU, in the frame saved for it, or, while   *)
(* an interrupt of it is handled, partly in the two words above the frame. *)
(* The words of the kernel thread that uses the stack are on it, but for   *)
(* the two on top, which are in the thread's frame while it does not run.  *)
(***************************************************************************)
EXTENDS Interrupts, Suffixes

\* The code that is executed or interrupted is the current thread's, or
\* KMain's before the first switch.
Execution ==
    /\ IF initialized
       THEN cpu.Owner = CurrIteratedThread
       ELSE cpu.Owner = KMain /\ CurrIteratedThread \in KernelThreads
    /\ CurrIteratedThread \in Existing
    /\ cpu.Cs = IF cpu.Owner \in UserThreads THEN UserCode ELSE KernelCode
    /\ ~Ring3 => Len(kstack) >= 2

\* A frame is its thread's, and has the ring of that thread.
Frames ==
    \A t \in Existing :
        /\ CPUFrame[t].Owner = t
        /\ CPUFrame[t].Cs = IF t \in UserThreads THEN UserCode ELSE KernelCode

Suspended(t) == ~(initialized /\ t = CurrIteratedThread)

\* A user thread that does not run is whole in its frame.
SavedInFrame ==
    \A t \in UserThreads :
        /\ t \notin Existing => own[t].Eax = 0 /\ own[t].Esp = 0
        /\ t \in Existing /\ Suspended(t) =>
               /\ CPUFrame[t].Eax = own[t].Eax
               /\ CPUFrame[t].Esp = own[t].Esp
               /\ CPUFrame[t].Ss = UserData

\* One that runs is in the registers and, while it is interrupted, in the two
\* words that the CPU has pushed.
InProcessor ==
    Ring3 =>
        /\ cpu.Eax = own[cpu.Owner].Eax
        /\ int.at = "none" => Esp = own[cpu.Owner].Esp /\ Ss = UserData
        /\ int.at # "none" =>
               UserEspWord = own[cpu.Owner].Esp /\ SsWord = UserData

\* At most the line being handled is in service in the first PIC, and only
\* under a vector that is acknowledged; line 2 never waits there by itself.
Controllers ==
    /\ 2 \notin pic1.irr
    /\ int.at \in {"none", "return"} => pic1.isr = {}
    /\ int.at = "dispatch" /\ int.n \notin 32..47 => pic1.isr = {}
    /\ int.at = "dispatch" => \E l \in 0..7 : pic1.isr \subseteq {l}

Inv ==
    /\ TypeOK
    /\ Execution
    /\ Frames
    /\ SavedInFrame
    /\ InProcessor
    /\ Controllers

------------------------------------------------------------------------------
(* Helpers *)

LEMMA LowestIsIn ==
    ASSUME NEW S, S \subseteq 0..7, S # {}
    PROVE  Lowest(S) \in S
<1>1. \E l \in S : \A m \in S : l <= m
    <2>0. PICK x \in S : TRUE
        OBVIOUS
    <2>1. CASE 0 \in S
        BY <2>1
    <2>2. CASE 0 \notin S /\ 1 \in S
        BY <2>2
    <2>3. CASE 0 \notin S /\ 1 \notin S /\ 2 \in S
        BY <2>3
    <2>4. CASE S \subseteq 3..7 /\ 3 \in S
        BY <2>4
    <2>5. CASE S \subseteq 4..7 /\ 4 \in S
        BY <2>5
    <2>6. CASE S \subseteq 5..7 /\ 5 \in S
        BY <2>6
    <2>7. CASE S \subseteq 6..7
        <3>1. CASE 6 \in S
            BY <2>7, <3>1
        <3>2. CASE 6 \notin S
            <4>1. \A m \in S : m = 7
                BY <2>7, <3>2
            <4> QED
                BY <4>1, <2>0
        <3> QED
            BY <3>1, <3>2
    <2> QED
        BY <2>1, <2>2, <2>3, <2>4, <2>5, <2>6, <2>7
<1> QED
    BY <1>1 DEF Lowest

LEMMA VectorBases == VectorBase(PicIrqOffset) = 32 /\ VectorBase(PicIrqOffset + 7) = 32
    BY DEF VectorBase, PicIrqOffset

LEMMA WordsHold == Values \subseteq Words /\ Selectors \subseteq Words
    BY DEF Words

\* What an interrupt finds in the two words above its frame is a word.
LEMMA TopWords ==
    ASSUME NEW s \in Seq(Words), Len(s) >= 2
    PROVE  s[Len(s)] \in Words /\ s[Len(s) - 1] \in Words
    OBVIOUS

LEMMA InitInv == Init => Inv
<1> SUFFICES ASSUME Init PROVE Inv
    OBVIOUS
<1> USE InterruptsAssumption DEF Init
<1>1. TypeOK
    <2>1. cpu \in [Owner : Threads \cup {KMain}, Eax : Values, Cs : Selectors]
        BY DEF Registers, Selectors
    <2>2. kstack \in Seq(Words) /\ Len(kstack) >= 2
        <3>1. kstack \in [1..KMainWords -> Words]
            BY WordsHold
        <3> QED
            BY <3>1
    <2>3. CPUFrame \in [Threads -> [Owner : Threads \cup {KMain}, Eax : Values,
                                 Cs : Selectors, Esp : Words, Ss : Words]]
        BY WordsHold DEF NewFrame, NoFrame, Selectors
    <2>4. own \in [Threads -> [Eax : Values, Esp : Values, pushed : Seq(Values)]]
        BY DEF Threads
    <2>5. IdtIntHandlers \subseteq 0..255
        BY DEF InitialHandlers
    <2>6. CurrIteratedThread \in Threads
        BY DEF Threads
    <2>7. int \in [at : {"none", "dispatch", "return", "hung"}, n : 0..255]
        BY DEF NoInterrupt
    <2>8. pic1 \in Pics /\ pic2 \in Pics
        BY DEF Pics
    <2>9. Esp \in Words /\ Ss \in Words /\ initialized \in BOOLEAN
        BY WordsHold
    <2> QED
        BY ONLY <2>1, <2>2, <2>3, <2>4, <2>5, <2>6, <2>7, <2>8, <2>9
        DEF TypeOK
<1>2. Existing = KernelThreads
    BY DEF Existing, NewFrame, NoFrame, Threads
<1>3. Execution
    <2>1. KMain \notin UserThreads
        BY DEF Threads
    <2>2. Len(kstack) >= 2
        BY <1>1 DEF TypeOK
    <2> QED
        BY <1>2, <2>1, <2>2 DEF Execution, Registers, Ring3
<1>4. Frames
    BY <1>2 DEF Frames, NewFrame, Threads
<1>5. SavedInFrame
    BY <1>2 DEF SavedInFrame, Threads
<1>6. InProcessor
    BY DEF InProcessor, Ring3, Registers, KernelCode, UserCode
<1>7. Controllers
    BY DEF Controllers, NoInterrupt
<1> QED
    BY <1>1, <1>3, <1>4, <1>5, <1>6, <1>7 DEF Inv

------------------------------------------------------------------------------
(* Entry *)

\* Everything but the controllers, for a vector that exists.
NonPic ==
    /\ TypeOK /\ Execution /\ Frames /\ SavedInFrame /\ InProcessor

LEMMA EnterKeeps ==
    ASSUME NonPic, int.at = "none", NEW n \in 0..255, Enter(n),
           pic1' \in Pics, pic2' \in Pics
    PROVE  NonPic'
<1> USE DEF NonPic, Enter
<1>1. kstack' \in Seq(Words) /\ Len(kstack') >= 2
    <2>1. CASE Ring3
        BY <2>1 DEF TypeOK, StackTop
    <2>2. CASE ~Ring3
        BY <2>2 DEF TypeOK, Execution
    <2> QED
        BY <2>1, <2>2
<1>2. TypeOK'
    <2>1. Esp' \in Words /\ Ss' \in Words
        BY WordsHold DEF Selectors
    <2> QED
        BY <1>1, <2>1 DEF TypeOK, sched
<1>3. Execution'
    BY <1>1 DEF Execution, Ring3, Existing, sched
<1>4. Frames' /\ SavedInFrame'
    BY DEF Frames, SavedInFrame, Existing, Suspended, sched
<1>5. InProcessor'
    <2> SUFFICES ASSUME Ring3'
                 PROVE  /\ cpu.Eax = own[cpu.Owner].Eax
                        /\ UserEspWord' = own[cpu.Owner].Esp
                        /\ SsWord' = UserData
        BY DEF InProcessor
    <2>1. Ring3
        BY DEF Ring3
    <2>2. kstack' = <<Ss, Esp>>
        BY <2>1 DEF StackTop, TypeOK
    <2> QED
        BY <2>1, <2>2 DEF InProcessor, UserEspWord, SsWord
<1> QED
    BY <1>2, <1>3, <1>4, <1>5

LEMMA RequestTypes ==
    ASSUME TypeOK, Controllers
    PROVE  /\ Requests(pic2) \subseteq 0..7
           /\ Requests(Request1) \subseteq 0..7
           /\ 2 \in Requests(Request1) => Requests(pic2) # {}
<1>1. pic1.irr \subseteq 0..7 /\ pic2.irr \subseteq 0..7
    BY DEF TypeOK, Pics
<1>2. Request1.irr \subseteq 0..7
    BY <1>1 DEF Request1, TypeOK, Pics
<1>3. Requests(pic2) = {} => 2 \notin Request1.irr
    BY DEF Request1, Controllers
<1> QED
    BY <1>1, <1>2, <1>3 DEF Requests

LEMMA HardwareKeeps ==
    ASSUME Inv, HardwareInterrupt
    PROVE  Inv'
<1> DEFINE l == Lowest(Requests(Request1))
           s == Lowest(Requests(pic2))
<1>1. l \in Requests(Request1) /\ l \in 0..7
    BY RequestTypes, LowestIsIn DEF Inv, HardwareInterrupt
<1>2. l = 2 => s \in 0..7
    BY <1>1, RequestTypes, LowestIsIn DEF Inv
<1>3. int.at = "none" /\ pic1.isr = {}
    BY DEF HardwareInterrupt, Inv, Controllers
<1>4. pic1' = [irr |-> pic1.irr \ {l}, isr |-> {l}]
    BY <1>3 DEF HardwareInterrupt, InService
<1>5. PICK n \in 32..47 : Enter(n) /\ pic2' \in Pics
    <2>1. CASE l = 2
        <3>1. Enter(32 + s) /\ pic2' = InService(pic2, s)
            BY <2>1, VectorBases DEF HardwareInterrupt
        <3>2. pic2' \in Pics
            BY <1>2, <2>1, <3>1 DEF Inv, TypeOK, Pics, InService
        <3> QED
            BY <1>2, <2>1, <3>1, <3>2
    <2>2. CASE l # 2
        <3>1. Enter(32 + l) /\ pic2' = pic2
            BY <2>2, VectorBases DEF HardwareInterrupt
        <3>2. 32 + l \in 32..47
            BY ONLY <1>1
        <3>3. pic2 \in Pics
            BY DEF Inv, TypeOK
        <3> QED
            BY ONLY <3>1, <3>2, <3>3
    <2> QED
        BY <2>1, <2>2
<1>6. pic1' \in Pics
    BY <1>1, <1>4 DEF Inv, TypeOK, Pics
<1>7. NonPic'
    BY <1>3, <1>5, <1>6, EnterKeeps DEF Inv, NonPic
<1>8. Controllers'
    <2>1. int' = [at |-> "dispatch", n |-> n]
        BY <1>5 DEF Enter
    <2>2. 2 \notin pic1'.irr
        BY <1>4 DEF Inv, Controllers
    <2> QED
        BY <1>1, <1>4, <1>5, <2>1, <2>2 DEF Controllers
<1> QED
    BY <1>7, <1>8 DEF Inv, NonPic

\* Interrupts that no controller sent find nothing in service in the first.
LEMMA UnsentKeeps ==
    ASSUME Inv, int.at = "none", NEW n \in 0..255, Enter(n), UNCHANGED pics
    PROVE  Inv'
<1>1. NonPic'
    BY EnterKeeps DEF Inv, NonPic, pics, TypeOK
<1>2. Controllers'
    BY DEF Inv, Controllers, Enter, pics
<1> QED
    BY <1>1, <1>2 DEF Inv, NonPic

LEMMA SoftwareKeeps ==
    ASSUME Inv, SchedTick \/ Syscall \/ Exception
    PROVE  Inv'
<1>1. int.at = "none" /\ UNCHANGED pics /\ \E n \in 0..255 : Enter(n)
    BY DEF SchedTick, Syscall, Exception, SoftwareInterrupt
<1> QED
    BY <1>1, UnsentKeeps

------------------------------------------------------------------------------
(* Handlers *)

\* The frame that SchedSaveFrame builds is the whole of a user thread.
LEMMA SavedWhole ==
    ASSUME NonPic, int.at = "dispatch", initialized
    PROVE  /\ SchedSaveFrame \in [Owner : Threads \cup {KMain}, Eax : Values,
                                  Cs : Selectors, Esp : Words, Ss : Words]
           /\ SchedSaveFrame.Owner = CurrIteratedThread
           /\ SchedSaveFrame.Cs = IF CurrIteratedThread \in UserThreads
                                  THEN UserCode ELSE KernelCode
           /\ CurrIteratedThread \in UserThreads =>
                 /\ SchedSaveFrame.Eax = own[CurrIteratedThread].Eax
                 /\ SchedSaveFrame.Esp = own[CurrIteratedThread].Esp
                 /\ SchedSaveFrame.Ss = UserData
<1>1. UserEspWord \in Words /\ SsWord \in Words
    BY TopWords DEF NonPic, TypeOK, UserEspWord, SsWord
<1>2. cpu.Owner = CurrIteratedThread
    BY DEF NonPic, Execution
<1>3. cpu.Cs = IF CurrIteratedThread \in UserThreads THEN UserCode ELSE KernelCode
    BY <1>2 DEF NonPic, Execution
<1>4. cpu.Owner \in Threads \cup {KMain} /\ cpu.Eax \in Values /\ cpu.Cs \in Selectors
    BY DEF NonPic, TypeOK
<1>5. CurrIteratedThread \in UserThreads =>
          /\ cpu.Eax = own[CurrIteratedThread].Eax
          /\ UserEspWord = own[CurrIteratedThread].Esp
          /\ SsWord = UserData
    BY <1>2, <1>3 DEF NonPic, InProcessor, Ring3
<1> QED
    BY <1>1, <1>2, <1>3, <1>4, <1>5 DEF SchedSaveFrame

LEMMA SwitchKeeps ==
    ASSUME NonPic, int.at = "dispatch", SchedIrqHandler,
           int' = [int EXCEPT !.at = "return"],
           UNCHANGED <<Esp, Ss, IdtIntHandlers>>,
           pic1' \in Pics, pic2' \in Pics
    PROVE  NonPic'
<1> DEFINE next == CurrIteratedThread'
           f    == CPUFrame'[next]
<1>1. initialized' = TRUE /\ next \in Existing /\ own' = own
    BY DEF SchedIrqHandler
<1>2. CurrIteratedThread \in Threads /\ Existing \subseteq Threads
    BY DEF NonPic, TypeOK, Existing
<1>3. CPUFrame' \in [Threads -> [Owner : Threads \cup {KMain}, Eax : Values,
                                 Cs : Selectors, Esp : Words, Ss : Words]]
    <2>1. CASE initialized
        BY <2>1, <1>2, SavedWhole DEF SchedIrqHandler, NonPic, TypeOK
    <2>2. CASE ~initialized
        BY <2>2 DEF SchedIrqHandler, NonPic, TypeOK
    <2> QED
        BY <2>1, <2>2
<1>4. \A t \in Threads : (t # CurrIteratedThread \/ ~initialized)
                             => CPUFrame'[t] = CPUFrame[t]
    BY DEF SchedIrqHandler, NonPic, TypeOK
<1>5. initialized => CPUFrame'[CurrIteratedThread] = SchedSaveFrame
    BY <1>2 DEF SchedIrqHandler, NonPic, TypeOK
<1>6. Existing' = Existing
    <2>1. \A t \in Threads : CPUFrame'[t].Owner = CPUFrame[t].Owner
        <3> SUFFICES ASSUME NEW t \in Threads
                     PROVE  CPUFrame'[t].Owner = CPUFrame[t].Owner
            OBVIOUS
        <3>1. CASE initialized /\ t = CurrIteratedThread
            BY <3>1, <1>5, SavedWhole DEF NonPic, Execution, Frames
        <3>2. CASE ~(initialized /\ t = CurrIteratedThread)
            BY <3>2, <1>4
        <3> QED
            BY <3>1, <3>2
    <2> QED
        BY <2>1 DEF Existing
<1>7. Frames'
    <2> SUFFICES ASSUME NEW t \in Existing
                 PROVE  /\ CPUFrame'[t].Owner = t
                        /\ CPUFrame'[t].Cs = IF t \in UserThreads
                                             THEN UserCode ELSE KernelCode
        BY <1>6 DEF Frames
    <2>1. CASE initialized /\ t = CurrIteratedThread
        BY <2>1, <1>5, SavedWhole
    <2>2. CASE ~(initialized /\ t = CurrIteratedThread)
        BY <2>2, <1>2, <1>4 DEF NonPic, Frames
    <2> QED
        BY <2>1, <2>2
\* Whole in its frame, the thread that is left as well.
<1>8. \A t \in UserThreads \cap Existing :
          /\ CPUFrame'[t].Eax = own[t].Eax
          /\ CPUFrame'[t].Esp = own[t].Esp
          /\ CPUFrame'[t].Ss = UserData
    <2> SUFFICES ASSUME NEW t \in UserThreads, t \in Existing
                 PROVE  /\ CPUFrame'[t].Eax = own[t].Eax
                        /\ CPUFrame'[t].Esp = own[t].Esp
                        /\ CPUFrame'[t].Ss = UserData
        OBVIOUS
    <2>1. CASE initialized /\ t = CurrIteratedThread
        BY <2>1, <1>5, SavedWhole
    <2>2. CASE ~(initialized /\ t = CurrIteratedThread)
        BY <2>2, <1>2, <1>4 DEF NonPic, SavedInFrame, Suspended
    <2> QED
        BY <2>1, <2>2
<1>9. SavedInFrame'
    BY <1>1, <1>6, <1>8 DEF NonPic, SavedInFrame, Suspended
<1>10. f.Owner = next /\ f.Cs = IF next \in UserThreads THEN UserCode ELSE KernelCode
    BY <1>1, <1>6, <1>7 DEF Frames
<1>11. /\ kstack' \in Seq(Words) /\ Len(kstack') = Len(kstack)
       /\ kstack'[Len(kstack')] = f.Esp /\ kstack'[Len(kstack') - 1] = f.Ss
    <2>1. f.Esp \in Words /\ f.Ss \in Words
        BY <1>1, <1>2, <1>3
    <2>2. kstack \in Seq(Words) /\ Len(kstack) >= 2
        BY DEF NonPic, TypeOK
    <2>3. kstack' = [kstack EXCEPT ![Len(kstack)] = f.Esp,
                                   ![Len(kstack) - 1] = f.Ss]
        BY DEF SchedIrqHandler, SchedLoadFrame
    <2> QED
        BY ONLY <2>1, <2>2, <2>3
<1>12. cpu' = [Owner |-> next, Eax |-> f.Eax, Cs |-> f.Cs]
    BY <1>10 DEF SchedIrqHandler, SchedLoadFrame, Registers
<1>13. TypeOK'
    <2>1. cpu' \in [Owner : Threads \cup {KMain}, Eax : Values, Cs : Selectors]
        BY <1>1, <1>2, <1>3, <1>12
    <2>2. int' \in [at : {"none", "dispatch", "return", "hung"}, n : 0..255]
        BY DEF NonPic, TypeOK
    <2>3. Len(kstack') >= 2
        BY <1>11 DEF NonPic, TypeOK
    <2> QED
        BY <1>1, <1>2, <1>3, <1>11, <2>1, <2>2, <2>3 DEF NonPic, TypeOK
<1>14. Execution'
    <2>1. Len(kstack') >= 2
        BY <1>11 DEF NonPic, TypeOK
    <2> QED
        BY <1>1, <1>6, <1>10, <1>12, <2>1 DEF Execution
<1>15. InProcessor'
    <2> SUFFICES ASSUME Ring3'
                 PROVE  /\ f.Eax = own[next].Eax
                        /\ f.Esp = own[next].Esp /\ f.Ss = UserData
        <3>1. int'.at = "return"
            BY DEF NonPic, TypeOK
        <3> QED
            BY <3>1, <1>1, <1>11, <1>12 DEF InProcessor, UserEspWord, SsWord
    <2>1. next \in UserThreads
        BY <1>10, <1>12 DEF Ring3, UserCode, KernelCode
    <2> QED
        BY <2>1, <1>1, <1>8
<1> QED
    BY <1>7, <1>9, <1>13, <1>14, <1>15 DEF NonPic

\* The handlers that switch nothing leave the frames and the stack alone.
LEMMA StaysKeeps ==
    ASSUME NonPic, int.at = "dispatch",
           NEW at \in {"return", "hung"}, int' = [int EXCEPT !.at = at],
           UNCHANGED <<Esp, Ss, IdtIntHandlers, kstack, sched>>,
           SyscallIntHandler \/ UNCHANGED <<cpu, own>>,
           pic1' \in Pics, pic2' \in Pics
    PROVE  NonPic'
<1>1. UNCHANGED <<Esp, Ss, IdtIntHandlers, kstack, CPUFrame,
                  CurrIteratedThread, initialized>>
    BY DEF sched
<1>2. int' \in [at : {"none", "dispatch", "return", "hung"}, n : 0..255]
      /\ int'.at # "none"
    BY DEF NonPic, TypeOK
<1>3. CASE UNCHANGED <<cpu, own>>
    <2>1. TypeOK'
        BY <1>1, <1>2, <1>3 DEF NonPic, TypeOK
    <2>2. Execution' /\ Frames'
        BY <1>1, <1>2, <1>3 DEF NonPic, Execution, Frames, Existing, Ring3
    <2>3. SavedInFrame'
        BY <1>1, <1>3 DEF NonPic, SavedInFrame, Existing, Suspended
    <2>4. InProcessor'
        BY <1>1, <1>3 DEF NonPic, InProcessor, Ring3, UserEspWord, SsWord
    <2> QED
        BY <2>1, <2>2, <2>3, <2>4 DEF NonPic
<1>4. ASSUME NEW result \in Values,
             cpu' = [cpu EXCEPT !.Eax = result],
             own' = [own EXCEPT ![CurrIteratedThread].Eax = result]
      PROVE  NonPic'
    <2>1. CurrIteratedThread \in Threads
        BY DEF NonPic, TypeOK
    <2>2. cpu' \in [Owner : Threads \cup {KMain}, Eax : Values, Cs : Selectors]
          /\ cpu'.Owner = cpu.Owner /\ cpu'.Cs = cpu.Cs /\ cpu'.Eax = result
        BY <1>4 DEF NonPic, TypeOK
    <2>3. own' \in [Threads -> [Eax : Values, Esp : Values, pushed : Seq(Values)]]
        <3>1. own \in [Threads -> [Eax : Values, Esp : Values, pushed : Seq(Values)]]
            BY DEF NonPic, TypeOK
        <3> DEFINE mine == [own[CurrIteratedThread] EXCEPT !.Eax = result]
        <3>2. mine \in [Eax : Values, Esp : Values, pushed : Seq(Values)]
            BY <2>1, <3>1
        <3>3. own' = [own EXCEPT ![CurrIteratedThread] = mine]
            BY <1>4
        <3> HIDE DEF mine
        <3> QED
            BY ONLY <2>1, <3>1, <3>2, <3>3
    <2>4. /\ own'[CurrIteratedThread].Eax = result
          /\ \A t \in Threads : /\ own'[t].Esp = own[t].Esp
                                /\ t # CurrIteratedThread => own'[t] = own[t]
        BY <1>4, <2>1 DEF NonPic, TypeOK
    <2>5. TypeOK'
        BY <1>1, <1>2, <2>2, <2>3 DEF NonPic, TypeOK
    <2>6. Execution' /\ Frames'
        BY <1>1, <2>2 DEF NonPic, Execution, Frames, Existing, Ring3
    <2>7. SavedInFrame'
        <3>1. CurrIteratedThread \in Existing
            BY DEF NonPic, Execution
        <3>2. CurrIteratedThread \in UserThreads => ~Suspended(CurrIteratedThread)
            BY InterruptsAssumption DEF NonPic, Execution, Suspended
        <3> QED
            BY <1>1, <2>4, <3>1, <3>2
            DEF NonPic, SavedInFrame, Existing, Suspended, Threads
    <2>8. InProcessor'
        <3> SUFFICES ASSUME Ring3
                     PROVE  /\ result = own'[cpu.Owner].Eax
                            /\ UserEspWord = own'[cpu.Owner].Esp
                            /\ SsWord = UserData
            BY <1>1, <1>2, <2>2 DEF InProcessor, Ring3, UserEspWord, SsWord
        <3>1. cpu.Owner = CurrIteratedThread
            BY InterruptsAssumption
            DEF NonPic, Execution, Ring3, UserCode, KernelCode, Threads
        <3> QED
            BY <2>1, <2>4, <3>1 DEF NonPic, InProcessor
    <2> QED
        BY <2>5, <2>6, <2>7, <2>8 DEF NonPic
<1> QED
    BY <1>3, <1>4 DEF SyscallIntHandler

LEMMA AcknowledgedTypes ==
    ASSUME NEW p \in Pics
    PROVE  Acknowledged(p) \in Pics
    BY DEF Acknowledged, Pics

LEMMA AcknowledgedOnly ==
    ASSUME NEW p \in Pics, NEW l \in 0..7, p.isr \subseteq {l}
    PROVE  Acknowledged(p).isr = {} /\ Acknowledged(p).irr = p.irr
<1>1. CASE p.isr = {}
    BY <1>1 DEF Acknowledged
<1>2. CASE p.isr = {l}
    <2>1. Lowest(p.isr) \in p.isr
        BY <1>2, LowestIsIn
    <2> QED
        BY <1>2, <2>1 DEF Acknowledged, Pics
<1> QED
    BY <1>1, <1>2

LEMMA EndOfInterruptKeeps ==
    ASSUME Inv, int.at = "dispatch", EndOfInterrupt(int.n)
    PROVE  /\ pic1' \in Pics /\ pic2' \in Pics
           /\ pic1'.isr = {} /\ pic1'.irr = pic1.irr
<1>1. pic1 \in Pics /\ pic2 \in Pics
    BY DEF Inv, TypeOK
<1>2. CASE int.n \in 32..47
    <2>1. PICK l \in 0..7 : pic1.isr \subseteq {l}
        BY DEF Inv, Controllers
    <2>2. pic1' = Acknowledged(pic1) /\ pic2' \in {pic2, Acknowledged(pic2)}
        BY <1>2 DEF EndOfInterrupt, PicEOI
    <2> QED
        BY <1>1, <2>1, <2>2, AcknowledgedTypes, AcknowledgedOnly
<1>3. CASE int.n \notin 32..47
    BY <1>1, <1>3 DEF EndOfInterrupt, Inv, Controllers, pics
<1> QED
    BY <1>2, <1>3

LEMMA HandlerKeeps ==
    ASSUME Inv, IdtGlobalIntHandler
    PROVE  Inv'
<1> USE DEF IdtGlobalIntHandler
<1>1. CASE int.n <= 30
    <2>1. int' = [int EXCEPT !.at = "hung"] /\ int'.at = "hung"
        BY <1>1 DEF Inv, TypeOK
    <2>2. UNCHANGED <<Esp, Ss, IdtIntHandlers, kstack, sched, cpu, own, pic1, pic2>>
        BY <1>1 DEF pics
    <2>3. NonPic'
        BY <2>1, <2>2, StaysKeeps DEF Inv, NonPic, TypeOK
    <2>4. Controllers'
        BY <2>1, <2>2 DEF Inv, Controllers
    <2> QED
        BY <2>3, <2>4 DEF Inv, NonPic
<1>2. CASE ~(int.n <= 30)
    <2>1. int' = [int EXCEPT !.at = "return"] /\ int'.at = "return"
        BY <1>2 DEF Inv, TypeOK
    <2>2. Handle(int.n)
        BY <1>2
    <2>3. /\ pic1' \in Pics /\ pic2' \in Pics
          /\ pic1'.isr = {} /\ pic1'.irr = pic1.irr
        BY <1>2, EndOfInterruptKeeps
    <2>4. NonPic'
        <3>1. CASE SchedIrqHandler
            BY <2>1, <2>3, <3>1, SwitchKeeps DEF Inv, NonPic
        <3>2. CASE SyscallIntHandler
            BY <2>1, <2>3, <3>2, StaysKeeps DEF Inv, NonPic, SyscallIntHandler
        <3>3. CASE UNCHANGED <<cpu, kstack, sched, own>>
            BY <2>1, <2>3, <3>3, StaysKeeps DEF Inv, NonPic
        <3>4. SchedIrqHandler \/ SyscallIntHandler
              \/ UNCHANGED <<cpu, kstack, sched, own>>
            BY <2>2, Zenon DEF Handle
        <3> QED
            BY <3>1, <3>2, <3>3, <3>4
    <2>5. Controllers'
        BY <2>1, <2>3 DEF Inv, Controllers
    <2> QED
        BY <2>4, <2>5 DEF Inv, NonPic
<1> QED
    BY <1>1, <1>2

LEMMA IretKeeps ==
    ASSUME Inv, Iret
    PROVE  Inv'
<1> USE DEF Inv, Iret
<1>1. int' = NoInterrupt /\ int'.at = "none" /\ int.at = "return"
    BY DEF NoInterrupt
<1>2. UNCHANGED <<cpu, CPUFrame, CurrIteratedThread, initialized,
                  IdtIntHandlers, pic1, pic2, own>>
    BY DEF sched, pics
<1>3. CASE Ring3
    <2>1. kstack' = <<>> /\ Esp' = UserEspWord /\ Ss' = SsWord
        BY <1>3 DEF StackTop
    <2>2. UserEspWord \in Words /\ SsWord \in Words
        BY <1>1, TopWords DEF TypeOK, UserEspWord, SsWord
    <2>3. TypeOK'
        BY <1>1, <1>2, <2>1, <2>2 DEF TypeOK, NoInterrupt
    <2>4. Execution' /\ Frames' /\ SavedInFrame' /\ Controllers'
        BY <1>1, <1>2, <1>3 DEF Execution, Frames, SavedInFrame, Controllers,
           Existing, Suspended, Ring3
    <2>5. InProcessor'
        BY <1>1, <1>2, <1>3, <2>1 DEF InProcessor
    <2> QED
        BY <2>3, <2>4, <2>5
<1>4. CASE ~Ring3
    <2>1. UNCHANGED <<Esp, Ss, kstack>>
        BY <1>4
    <2>2. TypeOK'
        BY <1>1, <1>2, <2>1 DEF TypeOK, NoInterrupt
    <2>3. Execution' /\ Frames' /\ SavedInFrame' /\ Controllers' /\ InProcessor'
        BY <1>1, <1>2, <1>4, <2>1 DEF Execution, Frames, SavedInFrame,
           Controllers, InProcessor, Existing, Suspended, Ring3
    <2> QED
        BY <2>2, <2>3
<1> QED
    BY <1>3, <1>4

------------------------------------------------------------------------------
(* What the devices and the threads do *)

LEMMA RaiseLineKeeps ==
    ASSUME Inv, NEW l \in Lines, RaiseLine(l)
    PROVE  Inv'
<1> USE DEF Inv
<1>1. l \in 0..15 /\ l # 2
    BY InterruptsAssumption
<1>2. UNCHANGED <<cpu, Esp, Ss, kstack, int, CPUFrame, CurrIteratedThread,
                  initialized, IdtIntHandlers, own>>
    BY DEF RaiseLine, sched
<1>3. /\ pic1' \in Pics /\ pic2' \in Pics
      /\ pic1'.isr = pic1.isr /\ 2 \notin pic1'.irr
    <2>0. pic1 \in Pics /\ pic2 \in Pics /\ 2 \notin pic1.irr
        BY DEF TypeOK, Controllers
    <2>1. CASE l < 8
        <3>1. l \in 0..7
            BY <1>1, <2>1
        <3>2. pic1' = [pic1 EXCEPT !.irr = pic1.irr \cup {l}] /\ pic2' = pic2
            BY <2>1 DEF RaiseLine
        <3> QED
            BY ONLY <1>1, <2>0, <3>1, <3>2 DEF Pics
    <2>2. CASE ~(l < 8)
        <3>1. l - 8 \in 0..7
            BY <1>1, <2>2
        <3>2. pic2' = [pic2 EXCEPT !.irr = pic2.irr \cup {l - 8}] /\ pic1' = pic1
            BY <2>2 DEF RaiseLine
        <3> QED
            BY ONLY <2>0, <3>1, <3>2 DEF Pics
    <2> QED
        BY <2>1, <2>2
<1>4. TypeOK'
    BY <1>2, <1>3 DEF TypeOK
<1>5. Execution' /\ Frames' /\ SavedInFrame' /\ InProcessor'
    BY <1>2 DEF Execution, Frames, SavedInFrame, InProcessor, Existing,
       Suspended, Ring3, UserEspWord, SsWord
<1>6. Controllers'
    BY <1>2, <1>3 DEF Controllers
<1> QED
    BY <1>4, <1>5, <1>6

LEMMA ComputeKeeps ==
    ASSUME Inv, Compute
    PROVE  Inv'
<1> USE DEF Inv
<1>1. PICK eax \in Values, esp \in Values :
          /\ cpu' = [cpu EXCEPT !.Eax = eax]
          /\ Esp' = esp
          /\ own' = [own EXCEPT ![cpu.Owner].Eax = eax,
                                ![cpu.Owner].Esp = esp]
    BY DEF Compute
<1>2. int.at = "none" /\ Ring3
      /\ UNCHANGED <<Ss, kstack, int, CPUFrame, CurrIteratedThread, initialized,
                     IdtIntHandlers, pic1, pic2>>
    BY DEF Compute, sched, pics
<1>3. initialized /\ cpu.Owner = CurrIteratedThread /\ cpu.Owner \in UserThreads
    BY <1>2, InterruptsAssumption
    DEF Execution, Ring3, UserCode, KernelCode, Threads
<1>4. cpu.Owner \in Threads
    BY <1>3 DEF Threads
<1>5. /\ cpu' \in [Owner : Threads \cup {KMain}, Eax : Values, Cs : Selectors]
      /\ cpu'.Owner = cpu.Owner /\ cpu'.Cs = cpu.Cs /\ cpu'.Eax = eax
    BY <1>1 DEF TypeOK
<1>6. own' \in [Threads -> [Eax : Values, Esp : Values, pushed : Seq(Values)]]
    <2>1. own[cpu.Owner] \in [Eax : Values, Esp : Values, pushed : Seq(Values)]
        BY <1>4 DEF TypeOK
    <2>2. own' = [own EXCEPT ![cpu.Owner] = [own[cpu.Owner] EXCEPT !.Eax = eax,
                                                                   !.Esp = esp]]
        BY <1>1
    <2>3. [own[cpu.Owner] EXCEPT !.Eax = eax, !.Esp = esp]
              \in [Eax : Values, Esp : Values, pushed : Seq(Values)]
        BY <2>1
    <2> QED
        BY <2>2, <2>3 DEF TypeOK
<1>7. /\ own'[cpu.Owner].Eax = eax /\ own'[cpu.Owner].Esp = esp
      /\ \A t \in Threads : t # cpu.Owner => own'[t] = own[t]
    BY <1>1, <1>4 DEF TypeOK
<1>8. TypeOK'
    BY <1>1, <1>2, <1>5, <1>6, WordsHold DEF TypeOK
<1>9. Execution' /\ Frames' /\ Controllers'
    BY <1>2, <1>5 DEF Execution, Frames, Controllers, Existing, Ring3
<1>10. SavedInFrame'
    <2>1. cpu.Owner \in Existing /\ ~Suspended(cpu.Owner)
        BY <1>3 DEF Execution, Suspended
    <2> QED
        BY <1>2, <1>7, <2>1 DEF SavedInFrame, Existing, Suspended, Threads
<1>11. InProcessor'
    BY <1>1, <1>2, <1>5, <1>7 DEF InProcessor, Ring3
<1> QED
    BY <1>8, <1>9, <1>10, <1>11

\* A thread that uses the stack is in ring 0, and what it pushes or pops is its
\* own affair.
LEMMA StackKeeps ==
    ASSUME Inv, Push \/ Pop
    PROVE  Inv'
<1> USE DEF Inv
<1> DEFINE me == cpu.Owner
<1>1. /\ int.at = "none" /\ me \in StackThreads
      /\ UNCHANGED <<cpu, Esp, Ss, int, CPUFrame, CurrIteratedThread, initialized,
                     IdtIntHandlers, pic1, pic2>>
    BY DEF Push, Pop, UsesStack, sched, pics
<1>2. me \in KernelThreads /\ me \in Threads /\ me \notin UserThreads
    BY <1>1, InterruptsAssumption DEF Threads
<1>3. ~Ring3 /\ Len(kstack) >= 2 /\ kstack \in Seq(Words)
    BY <1>2 DEF Execution, Ring3, UserCode, KernelCode, TypeOK
<1>4. PICK pushed \in Seq(Values) :
          /\ kstack' \in Seq(Words) /\ Len(kstack') >= 2
          /\ own' = [own EXCEPT ![me].pushed = pushed]
    <2>1. own[me].pushed \in Seq(Values)
        BY <1>2 DEF TypeOK
    <2>2. CASE Push
        <3>1. PICK w \in Values :
                  /\ kstack' = Append(kstack, w)
                  /\ own' = [own EXCEPT ![me].pushed = Append(@, w)]
            BY <2>2 DEF Push
        <3>2. own' = [own EXCEPT ![me].pushed = Append(own[me].pushed, w)]
            BY <3>1
        <3>3. w \in Words
            BY WordsHold
        <3>4. kstack' \in Seq(Words) /\ Len(kstack') >= 2
            BY <1>3, <3>1, <3>3
        <3>5. Append(own[me].pushed, w) \in Seq(Values)
            BY <2>1
        <3> QED
            BY <3>2, <3>4, <3>5
    <2>3. CASE Pop
        <3>1. /\ kstack' = SubSeq(kstack, 1, Len(kstack) - 1) /\ Len(kstack) > 2
              /\ own[me].pushed # <<>>
              /\ own' = [own EXCEPT ![me].pushed =
                            SubSeq(own[me].pushed, 1, Len(own[me].pushed) - 1)]
            BY <2>3 DEF Pop, Front
        <3>2. kstack' \in Seq(Words) /\ Len(kstack') >= 2
            BY <1>3, <3>1
        <3>3. SubSeq(own[me].pushed, 1, Len(own[me].pushed) - 1) \in Seq(Values)
            BY <2>1, <3>1
        <3> QED
            BY <3>1, <3>2, <3>3
    <2> QED
        BY <2>2, <2>3
<1>5. own' \in [Threads -> [Eax : Values, Esp : Values, pushed : Seq(Values)]]
    <2>1. own \in [Threads -> [Eax : Values, Esp : Values, pushed : Seq(Values)]]
        BY DEF TypeOK
    <2> DEFINE mine == [own[me] EXCEPT !.pushed = pushed]
    <2>2. mine \in [Eax : Values, Esp : Values, pushed : Seq(Values)]
        BY <1>2, <2>1
    <2>3. own' = [own EXCEPT ![me] = mine]
        BY <1>4
    <2> HIDE DEF mine
    <2> QED
        BY ONLY <1>2, <2>1, <2>2, <2>3
<1>6. \A t \in UserThreads : own'[t] = own[t]
    BY <1>2, <1>4 DEF TypeOK, Threads
<1>7. TypeOK'
    BY <1>1, <1>4, <1>5 DEF TypeOK
<1>8. Execution' /\ Frames' /\ Controllers' /\ SavedInFrame' /\ InProcessor'
    BY <1>1, <1>3, <1>4, <1>6 DEF Execution, Frames, Controllers, SavedInFrame,
       InProcessor, Existing, Suspended, Ring3
<1> QED
    BY <1>7, <1>8

LEMMA CreateKeeps ==
    ASSUME Inv, NEW u \in UserThreads, CreateUserThread(u)
    PROVE  Inv'
<1> USE DEF Inv
<1>1. /\ int.at = "none" /\ cpu.Owner \in KernelThreads /\ u \notin Existing
      /\ CPUFrame' = [CPUFrame EXCEPT ![u] = NewFrame(u)]
      /\ UNCHANGED <<cpu, Esp, Ss, kstack, int, CurrIteratedThread, initialized,
                     IdtIntHandlers, pic1, pic2, own>>
    BY DEF CreateUserThread, pics
<1>2. NewFrame(u) = [Owner |-> u, Eax |-> 0, Esp |-> 0, Cs |-> UserCode,
                     Ss |-> UserData]
    BY InterruptsAssumption DEF NewFrame
<1>3. u \in Threads /\ u # KMain
    BY InterruptsAssumption DEF Threads
<1>4. CPUFrame' \in [Threads -> [Owner : Threads \cup {KMain}, Eax : Values,
                                 Cs : Selectors, Esp : Words, Ss : Words]]
    <2>1. NewFrame(u) \in [Owner : Threads \cup {KMain}, Eax : Values,
                           Cs : Selectors, Esp : Words, Ss : Words]
        BY <1>2, <1>3, WordsHold, InterruptsAssumption DEF Selectors
    <2> QED
        BY <1>1, <2>1 DEF TypeOK
<1>5. /\ CPUFrame'[u] = NewFrame(u)
      /\ \A t \in Threads : t # u => CPUFrame'[t] = CPUFrame[t]
    BY <1>1, <1>3 DEF TypeOK
<1>6. Existing' = Existing \cup {u}
    BY <1>2, <1>3, <1>5 DEF Existing
<1>7. TypeOK'
    BY <1>1, <1>4 DEF TypeOK
<1>8. Existing \subseteq Threads
    BY DEF Existing
<1>9. Execution' /\ Controllers' /\ InProcessor'
    BY <1>1, <1>6 DEF Execution, Controllers, InProcessor, Ring3
<1>10. Frames'
    BY <1>2, <1>5, <1>6, <1>8 DEF Frames
<1>11. SavedInFrame'
    <2> SUFFICES ASSUME NEW t \in UserThreads
                 PROVE  /\ t \notin Existing' => own[t].Eax = 0 /\ own[t].Esp = 0
                        /\ t \in Existing' /\ Suspended(t) =>
                               /\ CPUFrame'[t].Eax = own[t].Eax
                               /\ CPUFrame'[t].Esp = own[t].Esp
                               /\ CPUFrame'[t].Ss = UserData
        BY <1>1 DEF SavedInFrame, Suspended
    <2>1. CASE t = u
        BY <1>1, <1>2, <1>5, <1>6, <2>1 DEF SavedInFrame
    <2>2. CASE t # u
        BY <1>5, <1>6, <2>2 DEF SavedInFrame, Threads
    <2> QED
        BY <2>1, <2>2
<1> QED
    BY <1>7, <1>9, <1>10, <1>11

LEMMA PS2KbdInitKeeps ==
    ASSUME Inv, PS2KbdInit
    PROVE  Inv'
<1>1. UNCHANGED <<cpu, Esp, Ss, kstack, int, CPUFrame, CurrIteratedThread,
                  initialized, pic1, pic2, own>>
    BY DEF PS2KbdInit, sched, pics
<1>2. TypeOK'
    BY <1>1 DEF PS2KbdInit, Inv, TypeOK
<1>3. Execution' /\ Frames' /\ SavedInFrame' /\ InProcessor' /\ Controllers'
    BY <1>1 DEF Inv, Execution, Frames, SavedInFrame, InProcessor, Controllers,
       Existing, Suspended, Ring3, UserEspWord, SsWord
<1> QED
    BY <1>2, <1>3 DEF Inv

LEMMA StutterKeeps ==
    ASSUME Inv, UNCHANGED vars
    PROVE  Inv'
<1>1. UNCHANGED <<cpu, Esp, Ss, kstack, int, CPUFrame, CurrIteratedThread,
                  initialized, pic1, pic2, own, IdtIntHandlers>>
    BY DEF vars, sched, pics
<1>2. TypeOK'
    BY <1>1 DEF Inv, TypeOK
<1>3. Execution' /\ Controllers'
    BY <1>1 DEF Inv, Execution, Controllers, Existing, Ring3
<1>4. Frames'
    BY <1>1 DEF Inv, Frames, Existing
<1>5. SavedInFrame'
    BY <1>1 DEF Inv, SavedInFrame, Existing, Suspended
<1>6. InProcessor'
    BY <1>1 DEF Inv, InProcessor, Ring3, UserEspWord, SsWord
<1> QED
    BY <1>2, <1>3, <1>4, <1>5, <1>6 DEF Inv

LEMMA NextInv == Inv /\ [Next]_vars => Inv'
<1> SUFFICES ASSUME Inv, [Next]_vars PROVE Inv'
    OBVIOUS
<1>1. ASSUME NEW l \in Lines, RaiseLine(l) PROVE Inv'
    BY <1>1, RaiseLineKeeps
<1>2. CASE HardwareInterrupt
    BY <1>2, HardwareKeeps
<1>3. CASE SchedTick \/ Syscall \/ Exception
    BY <1>3, SoftwareKeeps
<1>4. CASE IdtGlobalIntHandler
    BY <1>4, HandlerKeeps
<1>5. CASE Iret
    BY <1>5, IretKeeps
<1>6. CASE Compute
    BY <1>6, ComputeKeeps
<1>7. CASE Push \/ Pop
    BY <1>7, StackKeeps
<1>8. ASSUME NEW t \in UserThreads, CreateUserThread(t) PROVE Inv'
    BY <1>8, CreateKeeps
<1>9. CASE PS2KbdInit
    BY <1>9, PS2KbdInitKeeps
<1>10. CASE UNCHANGED vars
    BY <1>10, StutterKeeps
<1> QED
    BY <1>1, <1>2, <1>3, <1>4, <1>5, <1>6, <1>7, <1>8, <1>9, <1>10 DEF Next

LEMMA SpecInv == Spec => []Inv
<1> QED
    BY InitInv, NextInv, PTL DEF Spec

------------------------------------------------------------------------------
\* Every variable keeps its type, and an interrupt finds two words above its
\* frame, whatever it interrupted: SchedSaveFrame and SchedLoadFrame stay on
\* the stack.
THEOREM TypeCorrect == Spec => []TypeOK
<1>1. Inv => TypeOK
    BY DEF Inv
<1> QED
    BY <1>1, SpecInv, PTL

\* A user thread always goes on with its own EAX, ESP and SS, however many
\* threads there are, whatever kernel threads do with the stack.
THEOREM UserThreadsWhole == Spec => []UserThreadWhole
<1>1. Inv => UserThreadWhole
    BY InterruptsAssumption
    DEF Inv, UserThreadWhole, Execution, InProcessor, Ring3, UserCode,
        KernelCode, Threads
<1> QED
    BY <1>1, SpecInv, PTL

\* No line stays in service in the first PIC once its handler has returned,
\* for any set of lines.
THEOREM MasterFree == Spec => []MasterAcknowledged
<1>1. Inv => MasterAcknowledged
    BY DEF Inv, MasterAcknowledged, Controllers
<1> QED
    BY <1>1, SpecInv, PTL

------------------------------------------------------------------------------
(* The words of a kernel thread, while it alone uses the stack and no thread
   is in ring 3.  When it does not run, its top two words are in its frame, as
   another thread's have been written over them. *)

WithTop(k, f) ==
    [k EXCEPT ![Len(k)] = f.Esp, ![Len(k) - 1] = f.Ss]

Undisturbed(t) == StackThreads = {t} /\ Existing = KernelThreads

WordsOf(t) ==
    /\ ~initialized => own[t].pushed = <<>>
    /\ own[t].pushed # <<>> /\ cpu.Owner = t => AtEnd(own[t].pushed, kstack)
    /\ own[t].pushed # <<>> /\ cpu.Owner # t =>
           AtEnd(own[t].pushed, WithTop(kstack, CPUFrame[t]))

StackWords ==
    \A t \in KernelThreads : Undisturbed(t) => WordsOf(t)

LEMMA WithTopWords ==
    ASSUME NEW k \in Seq(Words), Len(k) >= 2, NEW f, f.Esp \in Words, f.Ss \in Words
    PROVE  /\ WithTop(k, f) \in Seq(Words) /\ Len(WithTop(k, f)) = Len(k)
           /\ WithTop(k, f)[Len(k)] = f.Esp /\ WithTop(k, f)[Len(k) - 1] = f.Ss
           /\ \A i \in 1..(Len(k) - 2) : WithTop(k, f)[i] = k[i]
    BY DEF WithTop

\* Only the frame that was loaded last shows.
LEMMA WithTopTwice ==
    ASSUME NEW k \in Seq(Words), Len(k) >= 2,
           NEW f, f.Esp \in Words, f.Ss \in Words,
           NEW g, g.Esp \in Words, g.Ss \in Words
    PROVE  WithTop(WithTop(k, g), f) = WithTop(k, f)
<1> DEFINE h == WithTop(k, g)
<1>1. h \in Seq(Words) /\ Len(h) = Len(k) /\ \A i \in 1..(Len(k) - 2) : h[i] = k[i]
    BY WithTopWords
<1> HIDE DEF h
<1> DEFINE a == WithTop(h, f)
           b == WithTop(k, f)
<1>2. /\ a \in Seq(Words) /\ Len(a) = Len(k)
      /\ a[Len(k)] = f.Esp /\ a[Len(k) - 1] = f.Ss
      /\ \A i \in 1..(Len(k) - 2) : a[i] = k[i]
    <2>1. /\ a \in Seq(Words) /\ Len(a) = Len(h)
          /\ a[Len(h)] = f.Esp /\ a[Len(h) - 1] = f.Ss
          /\ \A i \in 1..(Len(h) - 2) : a[i] = h[i]
        BY <1>1, WithTopWords
    <2> HIDE DEF a
    <2> QED
        BY <1>1, <2>1
<1>3. /\ b \in Seq(Words) /\ Len(b) = Len(k)
      /\ b[Len(k)] = f.Esp /\ b[Len(k) - 1] = f.Ss
      /\ \A i \in 1..(Len(k) - 2) : b[i] = k[i]
    BY WithTopWords
<1> HIDE DEF a, b
<1>4. \A i \in 1..Len(k) : a[i] = b[i]
    <2> TAKE i \in 1..Len(k)
    <2>1. CASE i \in 1..(Len(k) - 2)
        BY ONLY <1>2, <1>3, <2>1
    <2>2. CASE i = Len(k) \/ i = Len(k) - 1
        BY ONLY <1>2, <1>3, <2>2
    <2>3. i \in 1..(Len(k) - 2) \/ i = Len(k) \/ i = Len(k) - 1
        BY ONLY k \in Seq(Words), i \in 1..Len(k)
    <2> QED
        BY ONLY <2>1, <2>2, <2>3
<1>5. a = b
    BY <1>2, <1>3, <1>4
<1> QED
    BY <1>5 DEF a, b, h

LEMMA WithTopSame ==
    ASSUME NEW k \in Seq(Words), Len(k) >= 2,
           NEW f, f.Esp = k[Len(k)], f.Ss = k[Len(k) - 1]
    PROVE  WithTop(k, f) = k
    BY DEF WithTop

LEMMA StackWordsInit == Init => StackWords
<1> SUFFICES ASSUME Init, NEW t \in KernelThreads PROVE WordsOf(t)
    BY DEF StackWords
<1>1. own[t].pushed = <<>>
    BY DEF Init, Threads
<1> QED
    BY <1>1 DEF WordsOf

LEMMA StackWordsNext ==
    ASSUME Inv, Inv', StackWords, [Next]_vars
    PROVE  StackWords'
<1> SUFFICES ASSUME NEW t \in KernelThreads, Undisturbed(t)'
             PROVE  WordsOf(t)'
    BY DEF StackWords
<1>0. t \in Threads /\ TypeOK
    BY DEF Inv, Threads
\* Steps that neither switch nor use the stack, without a new thread.
<1>1. ASSUME UNCHANGED <<kstack, CPUFrame, initialized>>,
             cpu'.Owner = cpu.Owner, own'[t].pushed = own[t].pushed
      PROVE  WordsOf(t)'
    <2>1. Undisturbed(t)
        BY <1>1 DEF Undisturbed, Existing
    <2> QED
        BY <1>1, <2>1 DEF StackWords, WordsOf
\* No code is in ring 3, now or after the step.
<1>2. Existing = KernelThreads => cpu.Owner \notin UserThreads /\ ~Ring3
    <2>1. cpu.Owner \in UserThreads => cpu.Owner \in Existing
        BY InterruptsAssumption DEF Inv, Execution, Threads
    <2> QED
        BY <2>1, InterruptsAssumption
        DEF Inv, Execution, Ring3, UserCode, KernelCode
<1>3. ASSUME NEW n, Enter(n) PROVE WordsOf(t)'
    <2>1. UNCHANGED <<CPUFrame, initialized, cpu, own>>
        BY <1>3 DEF Enter, sched
    <2>2. ~Ring3
        BY <1>2, <2>1 DEF Undisturbed, Existing
    <2> QED
        BY <1>1, <1>3, <2>1, <2>2 DEF Enter
<1>4. ASSUME NEW l \in Lines, RaiseLine(l) PROVE WordsOf(t)'
    BY <1>1, <1>4 DEF RaiseLine, sched
<1>5. CASE HardwareInterrupt
    BY <1>3, <1>5, Zenon DEF HardwareInterrupt
<1>6. CASE SchedTick \/ Syscall \/ Exception
    BY <1>3, <1>6, Zenon DEF SchedTick, Syscall, Exception, SoftwareInterrupt
<1>7. CASE IdtGlobalIntHandler
    <2>1. CASE SchedIrqHandler
        <3> DEFINE next == CurrIteratedThread'
                   fs   == own[t].pushed
        <3>1. /\ initialized' /\ next \in Existing /\ own' = own
              /\ kstack' = WithTop(kstack, CPUFrame'[next])
              /\ cpu'.Owner = CPUFrame'[next].Owner
            BY <2>1 DEF SchedIrqHandler, SchedLoadFrame, WithTop, Registers
        <3>2. int.at = "dispatch" /\ kstack \in Seq(Words) /\ Len(kstack) >= 2
            BY <1>0, <1>7 DEF IdtGlobalIntHandler, TypeOK
        <3>3. cpu'.Owner = next /\ next \in Threads
            BY <3>1, InterruptsAssumption DEF Inv, Execution, TypeOK
        <3>4. \A k \in Threads : CPUFrame'[k].Esp \in Words /\ CPUFrame'[k].Ss \in Words
            BY DEF Inv, TypeOK
        <3>5. \A k \in Threads : CPUFrame[k].Esp \in Words /\ CPUFrame[k].Ss \in Words
            BY DEF Inv, TypeOK
        <3>6. WithTop(kstack', CPUFrame'[t]) = WithTop(kstack, CPUFrame'[t])
            BY <1>0, <3>1, <3>2, <3>3, <3>4, WithTopTwice
        \* So either way it is the frame of t that tells.
        <3>7. WordsOf(t)' <=> (fs # <<>> => AtEnd(fs, WithTop(kstack, CPUFrame'[t])))
            BY <3>1, <3>3, <3>6 DEF WordsOf
        <3>8. CASE initialized /\ CurrIteratedThread = t
            <4>1. CPUFrame'[t] = SchedSaveFrame
                BY <1>0, <2>1, <3>8 DEF SchedIrqHandler, TypeOK
            <4>2. SchedSaveFrame.Esp = kstack[Len(kstack)]
                  /\ SchedSaveFrame.Ss = kstack[Len(kstack) - 1]
                BY DEF SchedSaveFrame, UserEspWord, SsWord
            <4>3. WithTop(kstack, CPUFrame'[t]) = kstack
                BY <3>2, <4>1, <4>2, WithTopSame
            <4>4. cpu.Owner = t
                BY <3>8 DEF Inv, Execution
            <4>5. Undisturbed(t)
                <5>1. \A k \in Threads : CPUFrame'[k].Owner = CPUFrame[k].Owner
                    BY <1>0, <2>1, <3>8, <4>4 DEF SchedIrqHandler, SchedSaveFrame,
                       TypeOK, Inv, Frames, Execution
                <5> QED
                    BY <5>1 DEF Undisturbed, Existing
            <4> QED
                BY <3>7, <4>3, <4>4, <4>5 DEF StackWords, WordsOf
        <3>9. CASE initialized /\ CurrIteratedThread # t
            <4>1. CPUFrame'[t] = CPUFrame[t]
                BY <1>0, <2>1, <3>9 DEF SchedIrqHandler, TypeOK
            <4>2. cpu.Owner # t
                BY <3>9 DEF Inv, Execution
            <4>3. Undisturbed(t)
                <5>1. SchedSaveFrame.Owner = CPUFrame[CurrIteratedThread].Owner
                    BY <3>9 DEF SchedSaveFrame, Inv, Frames, Execution
                <5>2. \A k \in Threads : CPUFrame'[k].Owner = CPUFrame[k].Owner
                    BY <1>0, <2>1, <3>9, <5>1 DEF SchedIrqHandler, TypeOK
                <5> QED
                    BY <5>2 DEF Undisturbed, Existing
            <4> QED
                BY <3>7, <4>1, <4>2, <4>3 DEF StackWords, WordsOf
        <3>10. CASE ~initialized
            <4>1. CPUFrame' = CPUFrame
                BY <2>1, <3>10 DEF SchedIrqHandler
            <4>2. Undisturbed(t)
                BY <4>1 DEF Undisturbed, Existing
            <4>3. own[t].pushed = <<>>
                BY <3>10, <4>2 DEF StackWords, WordsOf
            <4> QED
                BY <3>7, <4>3
        <3> QED
            BY <3>8, <3>9, <3>10
    <2>2. CASE SyscallIntHandler
        <3>1. own'[t].pushed = own[t].pushed /\ cpu'.Owner = cpu.Owner
            <4>1. CASE UNCHANGED <<cpu, own>>
                BY <4>1
            <4>2. ASSUME NEW result \in Values,
                         cpu' = [cpu EXCEPT !.Eax = result],
                         own' = [own EXCEPT ![CurrIteratedThread].Eax = result]
                  PROVE  own'[t].pushed = own[t].pushed /\ cpu'.Owner = cpu.Owner
                <5>1. CurrIteratedThread \in Threads
                    BY <1>0 DEF TypeOK
                <5> QED
                    BY <1>0, <4>2, <5>1 DEF TypeOK
            <4> QED
                BY <2>2, <4>1, <4>2 DEF SyscallIntHandler
        <3> QED
            BY <1>1, <2>2, <3>1 DEF SyscallIntHandler, sched
    <2>3. CASE UNCHANGED <<cpu, kstack, sched, own>>
        BY <1>1, <2>3 DEF sched
    <2>4. SchedIrqHandler \/ SyscallIntHandler \/ UNCHANGED <<cpu, kstack, sched, own>>
        BY <1>7, Zenon DEF IdtGlobalIntHandler, Handle
    <2> QED
        BY <2>1, <2>2, <2>3, <2>4
<1>8. CASE Iret
    <2>1. UNCHANGED <<CPUFrame, initialized, cpu, own>>
        BY <1>8 DEF Iret, sched
    <2>2. ~Ring3
        BY <1>2, <2>1 DEF Undisturbed, Existing
    <2> QED
        BY <1>1, <1>8, <2>1, <2>2 DEF Iret
<1>9. CASE Compute
    BY <1>2, <1>9 DEF Compute, Undisturbed, Existing, sched
<1>10. CASE Push \/ Pop
    <2> DEFINE s == own[t].pushed
    <2>1. /\ cpu.Owner \in StackThreads /\ Len(kstack) >= 2
          /\ UNCHANGED <<cpu, CPUFrame, initialized>>
        BY <1>10, InterruptsAssumption
        DEF Push, Pop, UsesStack, sched, Inv, Execution, Ring3, UserCode, KernelCode
    <2>2. cpu.Owner = t /\ Undisturbed(t)
        BY <2>1 DEF Undisturbed, Existing
    <2>3. s \in Seq(Values) /\ kstack \in Seq(Words)
        BY <1>0 DEF TypeOK
    <2>4. initialized
        BY <1>0, <2>2, InterruptsAssumption DEF Inv, Execution
    <2>5. s # <<>> => AtEnd(s, kstack)
        BY <2>2 DEF StackWords, WordsOf
    <2>6. CASE Push
        <3>1. PICK w \in Values :
                  /\ kstack' = Append(kstack, w)
                  /\ own' = [own EXCEPT ![t].pushed = Append(@, w)]
            BY <2>2, <2>6 DEF Push
        <3>2. own'[t].pushed = Append(s, w)
            BY <1>0, <3>1 DEF TypeOK
        <3>3. w \in Words
            BY WordsHold
        <3>4. AtEnd(Append(s, w), Append(kstack, w))
            <4>1. s \in Seq(Words)
                BY <2>3, WordsHold
            <4>2. AtEnd(<<>>, kstack)
                BY <2>3 DEF AtEnd
            <4>3. AtEnd(s, kstack)
                BY <2>5, <4>2
            <4> QED
                BY <2>3, <3>3, <4>1, <4>3, AtEndAppend
        <3> QED
            BY <2>1, <2>2, <2>4, <3>1, <3>2, <3>4 DEF WordsOf
    <2>7. CASE Pop
        <3>1. /\ kstack' = SubSeq(kstack, 1, Len(kstack) - 1) /\ s # <<>>
              /\ own' = [own EXCEPT ![t].pushed = SubSeq(s, 1, Len(s) - 1)]
            BY <2>2, <2>7 DEF Pop, Front
        <3>2. own'[t].pushed = SubSeq(s, 1, Len(s) - 1)
            BY <1>0, <3>1 DEF TypeOK
        <3>3. AtEnd(SubSeq(s, 1, Len(s) - 1), SubSeq(kstack, 1, Len(kstack) - 1))
            <4>1. s \in Seq(Words)
                BY <2>3, WordsHold
            <4> QED
                BY <2>3, <2>5, <3>1, <4>1, AtEndFront
        <3> QED
            BY <2>1, <2>2, <2>4, <3>1, <3>2, <3>3 DEF WordsOf
    <2> QED
        BY <1>10, <2>6, <2>7
\* A user thread in the making disturbs, and never ceases to.
<1>11. ASSUME NEW u \in UserThreads, CreateUserThread(u) PROVE WordsOf(t)'
    <2>1. u \in Existing'
        BY <1>11, InterruptsAssumption
        DEF CreateUserThread, Existing, NewFrame, Threads, Inv, TypeOK
    <2> QED
        BY <2>1, InterruptsAssumption DEF Undisturbed
<1>12. CASE PS2KbdInit
    BY <1>1, <1>12 DEF PS2KbdInit, sched
<1>13. CASE UNCHANGED vars
    BY <1>1, <1>13 DEF vars, sched
<1> QED
    BY <1>4, <1>5, <1>6, <1>7, <1>8, <1>9, <1>10, <1>11, <1>12, <1>13 DEF Next

\* The one kernel thread that uses the stack finds its words there in order,
\* however often it was switched away from and whatever the switches wrote over
\* the top of the stack meanwhile.
THEOREM WordsKept == Spec => []KernelWordsKept
<1>1. Inv /\ StackWords => KernelWordsKept
    <2> SUFFICES ASSUME Inv, StackWords, NEW t \in KernelThreads,
                        Undisturbed(t), cpu.Owner = t
                 PROVE  IsSuffix(own[t].pushed, kstack)
        BY DEF KernelWordsKept, Undisturbed
    <2>1. own[t].pushed \in Seq(Words) /\ kstack \in Seq(Words)
        BY WordsHold DEF Inv, TypeOK, Threads
    <2>2. own[t].pushed # <<>> => AtEnd(own[t].pushed, kstack)
        BY DEF StackWords, WordsOf
    <2>3. AtEnd(<<>>, kstack)
        BY <2>1 DEF AtEnd
    <2> QED
        BY <2>1, <2>2, <2>3, AtEndIsSuffix
<1>2. Inv /\ StackWords /\ [Next]_vars => StackWords'
    BY NextInv, StackWordsNext
<1> QED
    BY <1>1, <1>2, SpecInv, StackWordsInit, PTL DEF Spec
=============================================================================
