------------------------------- MODULE Paging -------------------------------
(***************************************************************************)
(* Page directories and page tables, kernel/src/MM/Paging.c, over the      *)
(* tables _start.asm prepares.  Tables lie in page frames; what an address *)
(* means is what the MMU makes of it under the directory that is loaded,   *)
(* and that is true of the kernel's own pointers to tables too.  The CPU   *)
(* may keep any translation it has found since a directory was loaded; the *)
(* kernel has no instruction that drops a single one.                      *)
(*                                                                         *)
(* One thread maps and unmaps pages, one step per pointer it follows and   *)
(* per field it stores; the timer handler may load another directory       *)
(* between two steps, as it does for threads of a process that has no      *)
(* directory of its own.                                                   *)
(*                                                                         *)
(* An address is a virtual page number; the offset in the page never       *)
(* matters.  A malloc of 4096 bytes is aligned to 4096 (Heap.tla): it is a *)
(* kernel page of its own on a page frame of its own, and which ones they  *)
(* are is not told apart, so they are the next.                            *)
(***************************************************************************)
EXTENDS Integers

CONSTANTS
    TableSize,      \* entries of a page table: 1024
    UserTables,     \* directory entries below kernel space, but for the first
    HeapFrames,     \* page frames malloc can get
    DataFrame,      \* the frame that is mapped by MmMap
    UserPages,      \* the pages it is mapped at
    WatchedPages,   \* those of them that are followed in the TLB
    AskedRights,    \* the rights it is mapped with
    PmFrames,       \* bound: page frames MmMmap can get
    Nowhere         \* what the MMU finds when it finds nothing: a page fault

Kernel == UserTables + 1        \* directory index of kernel space

\* Where _start puts its tables: ZeroIdentityPage, TemporaryPageDirectory and
\* KernelPageTables are the first pages of the image, from frame 1 on.
ZeroIdentityPage       == 1
TemporaryPageDirectory == 2
KernelPageTables       == 3
ImageFrames == 1..3

Indices == 0..(TableSize - 1)
Pages   == 0..((Kernel + 1) * TableSize - 1)
Frames  == Indices \cup 0..DataFrame

ASSUME ConstantsAssumption ==
    /\ TableSize \in Nat /\ UserTables \in Nat \ {0}
    /\ TableSize > 3 /\ Kernel < TableSize
    /\ HeapFrames \in Nat /\ 3 + HeapFrames <= TableSize
    /\ DataFrame \in Nat /\ DataFrame > 3 + HeapFrames
    /\ DataFrame < Kernel * TableSize
    /\ UserPages \subseteq TableSize..(Kernel * TableSize - 1)
    /\ WatchedPages \subseteq UserPages
    /\ AskedRights \subseteq SUBSET {"User", "Writable"} /\ PmFrames \in Nat
    /\ Nowhere \notin Nat
    /\ Nowhere \notin [frame : Frames, rights : SUBSET {"User", "Writable"}]

VARIABLES
    leftover,       \* what a page frame holds until the kernel writes to it
    mem,            \* the entries in each page frame
    heapTop,        \* pages malloc has handed out
    directories,    \* pages of the page directories
    CurrentPageDirectory, CurrentPageDirectoryPhys,     \* the latter in cr3
    call,           \* the MmMap, MmUnmap or MmMmap that is going on
    framesTaken,    \* page frames MmMmap has got
    tlb,            \* what the CPU may have kept for each watched page
    rewritten       \* history: watched pages that were present and have been
                    \* given another entry since the load

mmu  == <<tlb, rewritten>>
vars == <<leftover, mem, heapTop, directories, CurrentPageDirectory,
          CurrentPageDirectoryPhys, call, framesTaken, mmu>>

\* The pointer; page 0 is mapped like the rest of the first 4 MiB.
NULL == 0

Entry(f, rights) == [Present |-> TRUE, PhysAddress |-> f, Rights |-> rights]
Absent == [Present |-> FALSE, PhysAddress |-> 0, Rights |-> {}]

\* What the kernel needs for itself.
To(f)  == Entry(f, {"Writable"})

NoCall == [at |-> "idle", op |-> "map", pde |-> 0, virt |-> 0, pte |-> 0,
           table |-> 0, rights |-> {}, i |-> 0, was |-> FALSE]

KernelPage(i) == Kernel * TableSize + i

\* Neither malloc nor its callers clear the memory for a table, so what the
\* machine left there counts: zeroes, or something that looks present.
Leftovers == {Absent, Entry(DataFrame, {"User", "Writable"})}

\* The entries every directory has: the first 4 MiB, identity mapped, and
\* kernel space.
WithBasicEntries(d) == [d EXCEPT ![0] = To(ZeroIdentityPage),
                                 ![Kernel] = To(KernelPageTables)]

Init ==
    /\ leftover \in Leftovers
    /\ mem = [f \in Frames |->
           IF f = TemporaryPageDirectory
                THEN WithBasicEntries([i \in Indices |-> Absent])
           ELSE IF f = ZeroIdentityPage THEN [i \in Indices |-> To(i)]
           ELSE IF f = KernelPageTables
                THEN [i \in Indices |-> IF i < 3 THEN To(i + 1) ELSE Absent]
           ELSE [i \in Indices |-> leftover]]
    /\ heapTop = 0
    /\ directories = {KernelPage(TemporaryPageDirectory - 1)}
    /\ CurrentPageDirectory = KernelPage(TemporaryPageDirectory - 1)
    /\ CurrentPageDirectoryPhys = TemporaryPageDirectory
    /\ call = NoCall
    /\ framesTaken = 0
    /\ tlb = [v \in WatchedPages |-> {}] /\ rewritten = {}

------------------------------------------------------------------------------
(* Following pointers *)

\* What the MMU finds for page v under the directory in frame d: a frame, and
\* the rights that both entries grant.
Walk(d, v) ==
    LET pde == mem[d][v \div TableSize]
        pte == mem[pde.PhysAddress][v % TableSize]
    IN  IF pde.Present /\ pte.Present
        THEN [frame |-> pte.PhysAddress, rights |-> pde.Rights \cap pte.Rights]
        ELSE Nowhere

Translate(d, v) == IF Walk(d, v) = Nowhere THEN Nowhere ELSE Walk(d, v).frame

\* What the kernel reaches through a pointer to page v.
Deref(v) == Translate(CurrentPageDirectoryPhys, v)

\* Faulty variant of MmKernelPhysToVirt: it does not look for the frame.
PhysToVirtUnchecked(f) == f

\* MmKernelPhysToVirt looks for the frame in the kernel's page tables and
\* returns what it has found there: the frame's number again.
MmKernelPhysToVirt(f) ==
    IF \E i \in Indices : mem[KernelPageTables][i].PhysAddress = f
    THEN f ELSE NULL

\* MmGetTable of the directory at page pde: a pointer to the table for v.
MmGetTable(pde, v) ==
    LET entry == mem[Deref(pde)][v \div TableSize]
    IN  IF entry.Present THEN MmKernelPhysToVirt(entry.PhysAddress) ELSE NULL

\* Faulty variant of MmVirtToPhys: the table is indexed like the directory.
MmVirtToPhysByTable(pde, v) ==
    LET pte == MmGetTable(pde, v)
    IN  IF pte = NULL THEN 0
        ELSE mem[Deref(pte)][v \div TableSize].PhysAddress

\* MmVirtToPhys reads the entry whether it is present or not.
MmVirtToPhys(pde, v) ==
    LET pte == MmGetTable(pde, v)
    IN  IF pte = NULL THEN 0 ELSE mem[Deref(pte)][v % TableSize].PhysAddress

------------------------------------------------------------------------------
(* malloc, as far as the callers here see it *)

Available == heapTop < HeapFrames
HeapPage  == KernelPage(3 + heapTop)
HeapFrame == 4 + heapTop

\* The entry malloc leaves in the kernel's page table.  HeapPage is the page of
\* that entry: the shift between the two (Return, KernelMemory.tla) is left out.
Grown == [mem EXCEPT ![KernelPageTables][3 + heapTop] = To(HeapFrame)]

------------------------------------------------------------------------------
(* Directories *)

\* Faulty variant of MmAllocPageDirectory: it copies the current directory.
AllocPageDirectoryByCopy ==
    /\ call.at = "idle" /\ Available
    /\ heapTop' = heapTop + 1
    /\ mem' = [Grown EXCEPT ![HeapFrame] = mem[CurrentPageDirectoryPhys]]
    /\ directories' = directories \cup {HeapPage}
    /\ UNCHANGED <<leftover, CurrentPageDirectory, CurrentPageDirectoryPhys,
                   call, framesTaken, mmu>>

MmAllocPageDirectory ==
    /\ call.at = "idle" /\ Available
    /\ heapTop' = heapTop + 1
    /\ mem' = [Grown EXCEPT ![HeapFrame] = WithBasicEntries(@)]
    /\ directories' = directories \cup {HeapPage}
    /\ UNCHANGED <<leftover, CurrentPageDirectory, CurrentPageDirectoryPhys,
                   call, framesTaken, mmu>>

\* Translations the MMU finds now.
Found == [v \in WatchedPages |-> {Walk(CurrentPageDirectoryPhys, v)} \ {Nowhere}]

\* Faulty variant of SwitchPageDirectory: cr3 is not stored to.
SwitchPageDirectoryUnflushed(pd) ==
    /\ pd # CurrentPageDirectory
    /\ CurrentPageDirectoryPhys' = MmVirtToPhys(CurrentPageDirectory, pd)
    /\ CurrentPageDirectory' = pd
    /\ UNCHANGED <<leftover, mem, heapTop, directories, call, framesTaken, mmu>>

\* Called by the timer handler, between any two steps of a thread.
SwitchPageDirectory(pd) ==
    /\ pd # CurrentPageDirectory
    /\ CurrentPageDirectoryPhys' = MmVirtToPhys(CurrentPageDirectory, pd)
    /\ CurrentPageDirectory' = pd
    /\ UNCHANGED <<leftover, mem, heapTop, directories, call, framesTaken>>
    /\ tlb' = Found' /\ rewritten' = {}

------------------------------------------------------------------------------
(* MmMap and MmUnmap *)

loaded == <<leftover, directories, CurrentPageDirectory,
            CurrentPageDirectoryPhys>>

\* A step that follows pointers, and one that stores an entry.
Looking == UNCHANGED <<mem, heapTop, loaded, framesTaken, mmu>>
Storing ==
    /\ UNCHANGED <<heapTop, loaded, framesTaken>>
    /\ tlb' = [v \in WatchedPages |-> tlb[v] \cup Found'[v]]

\* MmMap of DataFrame at v, or MmUnmap of v, in the directory loaded now.
Begin(op, v, rights) ==
    /\ call.at = "idle"
    /\ call' = [NoCall EXCEPT !.at = "entry", !.op = op, !.virt = v,
                              !.rights = rights, !.pde = CurrentPageDirectory]
    /\ Looking

\* MmGetTableEntry; without a table, MmMap makes one and MmUnmap gives up.
MmGetTableEntry ==
    LET pte == MmGetTable(call.pde, call.virt)
    IN  /\ call.at = "entry"
        /\ call' = IF pte # NULL
                   THEN [call EXCEPT !.at = "PhysAddress", !.pte = pte]
                   ELSE [call EXCEPT !.at = IF call.op = "unmap" THEN "done"
                                            ELSE "malloc"]
        /\ Looking

MallocTable ==
    /\ call.at = "malloc" /\ Available
    /\ heapTop' = heapTop + 1
    /\ mem' = Grown
    /\ call' = [call EXCEPT !.at = "enter", !.table = HeapPage]
    /\ UNCHANGED <<loaded, framesTaken, mmu>>

\* Faulty variant of EnterTable: it takes the directory that is loaded now.
EnterTableInCurrent ==
    /\ call.at = "enter"
    /\ mem' = [mem EXCEPT
           ![CurrentPageDirectoryPhys][call.virt \div TableSize] =
               Entry(MmVirtToPhys(CurrentPageDirectory, call.table),
                     call.rights)]
    /\ call' = [call EXCEPT !.at = "entered"]
    /\ Storing /\ UNCHANGED rewritten

\* The table goes into the directory noted when the call began, with the
\* rights of the page that is the first to need it.  Four stores make the
\* entry: the first takes its Present bit away and the last one sets it, so
\* that nobody meets it half done.
EnterTable ==
    /\ call.at = "enter"
    /\ mem' = [mem EXCEPT ![Deref(call.pde)][call.virt \div TableSize] =
                  Entry(MmVirtToPhys(CurrentPageDirectory, call.table),
                        call.rights)]
    /\ call' = [call EXCEPT !.at = "entered"]
    /\ Storing /\ UNCHANGED rewritten

\* The entry is looked for again, and this time it is taken to be there.
GetTableEntryAgain ==
    /\ call.at = "entered"
    /\ call' = [call EXCEPT !.at = "PhysAddress",
                            !.pte = MmGetTable(call.pde, call.virt)]
    /\ Looking

\* The fields of an entry in the order in which they are stored.  Present
\* comes before the rights.
Fields == {"PhysAddress", "Present", "User", "Writable"}

Following(field) ==
    CASE field = "PhysAddress" -> "Present"
      [] field = "Present" -> "User"
      [] field = "User" -> "Writable"
      [] field = "Writable" -> IF call.op = "mmap" THEN "frame" ELSE "done"

\* Faulty variant of Stored: rights the page had before are left to it.
StoredOver(old) ==
    CASE call.at = "PhysAddress" ->
             [old EXCEPT !.PhysAddress = IF call.op = "unmap" THEN 0
                                         ELSE DataFrame]
      [] call.at = "Present" -> [old EXCEPT !.Present = call.op # "unmap"]
      [] OTHER -> [old EXCEPT !.Rights = @ \cup (call.rights \cap {call.at})]

\* The entry after the store of the field the call has come to.
Stored(old) ==
    CASE call.at = "PhysAddress" ->
             [old EXCEPT !.PhysAddress = IF call.op = "unmap" THEN 0
                                         ELSE DataFrame]
      [] call.at = "Present" -> [old EXCEPT !.Present = call.op # "unmap"]
      [] OTHER -> [old EXCEPT !.Rights = IF call.at \in call.rights
                                         THEN @ \cup {call.at}
                                         ELSE @ \ {call.at}]

\* One of the four stores through the pointer; a page fault hangs the kernel.
Store ==
    LET table == Deref(call.pte)
        i   == call.virt % TableSize
        was == IF call.at = "PhysAddress" THEN mem[table][i].Present
               ELSE call.was
    IN  /\ call.at \in Fields
        /\ IF table # Nowhere
           THEN /\ mem' = [mem EXCEPT ![table][i] = Stored(@)]
                /\ rewritten' = IF was /\ call.pde = CurrentPageDirectory
                                THEN rewritten \cup ({call.virt} \cap WatchedPages)
                                ELSE rewritten
                /\ call' = [call EXCEPT !.at = Following(@), !.was = was]
           ELSE /\ call' = [call EXCEPT !.at = "fault"]
                /\ UNCHANGED <<mem, rewritten>>
        /\ Storing

Return ==
    /\ call.at = "done"
    /\ call' = NoCall
    /\ Looking

------------------------------------------------------------------------------
(* MmMmap of one page *)

\* MmIsPresent looks into the directory that is loaded now; a table out of
\* reach is a page fault.
Table(v) == MmGetTable(CurrentPageDirectory, v)
OutOfReach(v)  == Table(v) # NULL /\ Deref(Table(v)) = Nowhere

MmIsPresent(v) == Table(v) # NULL /\ mem[Deref(Table(v))][v % TableSize].Present

\* The call after a look at page i: it faults, or goes on by what it has seen.
After(present, absent) ==
    IF OutOfReach(call.i) THEN [call EXCEPT !.at = "fault"]
    ELSE IF MmIsPresent(call.i) THEN present ELSE absent

MmMmap(ptr, rights) ==
    /\ call.at = "idle"
    /\ call' = [NoCall EXCEPT !.op = "mmap", !.virt = ptr, !.rights = rights,
                   !.at = IF ptr = NULL THEN "search" ELSE "check",
                   !.i = IF ptr = NULL THEN TableSize ELSE ptr]
    /\ Looking

\* A turn of the search of user space, for MmMmap without an address.
SearchTurn ==
    /\ call.at = "search"
    /\ call' = IF call.i = Kernel * TableSize
               THEN [call EXCEPT !.at = "done", !.virt = NULL]
               ELSE After([call EXCEPT !.i = @ + 1],
                          [call EXCEPT !.at = "frame", !.virt = call.i, !.i = 0])
    /\ Looking

\* A turn of the check of the block at an address.  Its condition tests ptrPage
\* alone and is always true, so only a present page ends the loop.
CheckTurn ==
    /\ call.at = "check"
    /\ call' = After([call EXCEPT !.at = "done", !.virt = NULL],
                     [call EXCEPT !.i = @ + 1])
    /\ Looking

\* Faulty variant of FrameTurn: nobody notices that there is no frame left.
FrameTurnUnchecked ==
    /\ call.at = "frame"
    /\ framesTaken' = framesTaken + 1
    /\ call' = [call EXCEPT !.at = "entry", !.i = @ + 1,
                            !.pde = CurrentPageDirectory]
    /\ UNCHANGED <<mem, heapTop, loaded, mmu>>

\* A turn of the loop that maps, which does not end either: each turn maps a
\* new frame at the same address, until MmPmAllocate panics.  i counts them.
FrameTurn ==
    /\ call.at = "frame"
    /\ IF framesTaken < PmFrames
       THEN /\ framesTaken' = framesTaken + 1
            /\ call' = [call EXCEPT !.at = "entry", !.i = @ + 1,
                                    !.pde = CurrentPageDirectory]
       ELSE /\ call' = [call EXCEPT !.at = "panic"]
            /\ UNCHANGED framesTaken
    /\ UNCHANGED <<mem, heapTop, loaded, mmu>>

Next ==
    /\ call.at \notin {"fault", "panic"}
    /\ \/ MmAllocPageDirectory
       \/ \E pd \in directories : SwitchPageDirectory(pd)
       \/ \E v \in UserPages, rights \in AskedRights : Begin("map", v, rights)
       \/ \E v \in UserPages : Begin("unmap", v, {})
       \/ MmGetTableEntry \/ MallocTable \/ EnterTable \/ GetTableEntryAgain
       \/ Store \/ Return
       \/ \E ptr \in UserPages \cup {NULL}, rights \in AskedRights :
             MmMmap(ptr, rights)
       \/ SearchTurn \/ CheckTurn \/ FrameTurn

Spec == Init /\ [][Next]_vars

------------------------------------------------------------------------------
(* Properties *)

TypeOK ==
    /\ leftover \in Leftovers
    /\ mem \in [Frames -> [Indices ->
           [Present : BOOLEAN, PhysAddress : Frames,
            Rights : SUBSET {"User", "Writable"}]]]
    /\ heapTop \in 0..HeapFrames
    /\ directories \subseteq { KernelPage(i) : i \in Indices }
    /\ CurrentPageDirectory \in directories
    /\ CurrentPageDirectoryPhys \in Frames
    /\ call \in [at : {"idle", "entry", "malloc", "enter", "entered", "done",
                       "fault", "search", "check", "frame", "panic"}
                      \cup Fields,
                 op : {"map", "unmap", "mmap"}, pde : directories \cup {0},
                 virt : Pages, pte : Frames, table : Pages,
                 rights : AskedRights \cup {{}}, i : Nat, was : BOOLEAN]
    /\ framesTaken \in 0..PmFrames
    /\ tlb \in [WatchedPages ->
           SUBSET [frame : Frames, rights : SUBSET {"User", "Writable"}]]
    /\ rewritten \subseteq WatchedPages

\* The frame a directory lies in.
FrameOf(pd) == mem[KernelPageTables][pd % TableSize].PhysAddress

\* cr3 holds the frame of the directory the kernel takes to be loaded, and
\* every directory shows the kernel itself and the first 4 MiB alike: a
\* switch in the middle of a call cannot pull a table or a pointer away.
DirectoryLoaded ==
    /\ CurrentPageDirectoryPhys = FrameOf(CurrentPageDirectory)
    /\ \A pd \in directories, v \in Pages :
          v \div TableSize \in {0, Kernel} =>
              Walk(FrameOf(pd), v) = Walk(CurrentPageDirectoryPhys, v)

\* All tables lie in the first 4 MiB, which are identity mapped, and nothing
\* that was left in the memory of a directory looks like one.
TablesLow ==
    \A pd \in directories, i \in 1..UserTables :
        LET table == mem[FrameOf(pd)][i].PhysAddress
        IN  table < TableSize /\ table # DataFrame

\* When MmMap returns, the page is mapped in the directory that was loaded
\* when it was called; when MmUnmap returns it is not.
MappedWhereAsked ==
    (call.at = "done" /\ call.op # "mmap" /\ TablesLow) =>
        Translate(FrameOf(call.pde), call.virt) =
            IF call.op = "map" THEN DataFrame ELSE Nowhere

\* If new memory is zero, no step changes the meaning of an address other than
\* the one the call in progress is about, in the directory it is about.
OnlyThatPage ==
    [][leftover = Absent =>
           \A pd \in directories, v \in UserPages :
               \/ Walk(FrameOf(pd), v)' = Walk(FrameOf(pd), v)
               \/ pd = call.pde /\ v = call.virt]_vars

\* A page never has more rights than it was mapped with, whatever it and its
\* table were used for before; it may have fewer, because those of its table
\* are never raised.
RightsAsked ==
    (call.at = "done" /\ call.op = "map" /\ TablesLow) =>
        Walk(FrameOf(call.pde), call.virt).rights \subseteq call.rights

\* No instruction drops a translation, so MmUnmap and a second MmMap leave the
\* old one in use.  Nothing else lets the CPU do what the tables forbid: making
\* tables and directories and switching between directories is seen by it at
\* once, and of a page that was not present it may keep fewer rights than
\* MmMap has given by the end, as Present is stored first, but never more, and
\* never another frame.
OnlyRewrittenStale ==
    leftover = Absent =>
        \A v \in WatchedPages \ rewritten : \A kept \in tlb[v] :
            LET found == Walk(CurrentPageDirectoryPhys, v)
            IN  /\ found # Nowhere /\ kept.frame = found.frame
                /\ kept.rights \subseteq found.rights

\* A pointer to a table is its physical address.  The kernel faults on it only
\* after a directory entry has been given a table beyond the first 4 MiB, be
\* the directories switched between finding the pointer and using it or not.
FaultsOnlyBeyond ==
    call.at = "fault" =>
        \E pd \in directories, i \in 1..UserTables :
            LET entry == mem[FrameOf(pd)][i]
            IN  /\ entry.Present /\ entry.PhysAddress >= TableSize
                /\ entry.PhysAddress # DataFrame

\* Paging.h: MmMmap "maps a specified amount of pages starting at ptr"; here
\* that is one page, so it takes one frame.
MmapMapsOnePage ==
    (call.op = "mmap" /\ call.at = "frame") => call.i <= 1
=============================================================================
