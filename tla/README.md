# A TLA+ model of the McpgOS kernel

McpgOS is a small 32-bit x86 kernel written in C and assembly. This directory
holds TLA+ modules translated from its source, the TLC configurations that
check them on small instances, and TLAPS proofs of what holds for every
instance. Paths below are relative to the repository.

## Inventory

| Component | State it keeps | Operations | What makes it correct |
|---|---|---|---|
| Scheduler (`kernel/src/Scheduler`) | list of processes, each with a list of threads; state, counter and saved frame of each thread; two cursors; a static flag | timer handler, `SchedSleep`, `SchedCreateProcess`, `SchedCreateThread` | every thread gets its own registers and address space back, slices are kept, nobody starves, the handler returns |
| Linked list (`Utils`) | `Next`/`Prev` of intrusive elements | get, push, pop, size | an element that was added stays reachable while others look |
| Page frames (`MM/PhysicalMemory.c`) | two bits a frame, and a top | init, allocate, free (unused) | no frame has two users |
| Kernel pages (`MM/VirtualMemory.c`) | `KernelPageTables` | allocate, free | blocks do not overlap each other or the image |
| Heap (`MM/LibAlloc*.c`) | list of majors, each with minors; best bet; a lock | malloc, calloc, realloc | blocks are apart, the lock excludes, calls return |
| Page directories (`MM/Paging.c`) | the directories, the one that is loaded | allocate, switch, map, unmap, mmap, translate | a translation is what was mapped |
| Boot (`_start.asm`, `KMain.c`) | initial page tables | a fixed sequence of initialisers | each initialiser runs after those it needs |
| Interrupts (`CPU/IDT*`, `PIC.c`, `Pit.c`, `GDT.asm`) | vector table, handlers, lines in the PICs, the kernel stack | entry, dispatch, end of interrupt, return | the interrupted code goes on with its own registers and stack, the timer is always served |
| System calls (`Syscalls`) | a table | dispatch on EAX | only registered calls are made, and only EAX changes |
| VFS and devfs (`Vfs`) | list of file systems, list of devices, `/dev` | register, look up, add device | names are unique, `/dev` shows every device |
| Drivers (`Drivers`) | driver table, TTY cells and cursor, RAM disks with cursors | register, write, seek, read, add disk | indices stay inside their tables, the line being written is shown |
| Kprintf, KPanic, libc | nothing | output through the TTY, halt, byte loops | |

How they interact. The timer (PIT, through the PIC and the IDT) calls the
scheduler's handler at any point of any thread, and `SchedSleep` calls it by a
software interrupt. Threads call the creation functions, which allocate from
the heap and append to lists the handler walks. The heap asks for pages from
the kernel page allocator, which asks for page frames; all three are entered
only under the heap's lock. The handler loads page directories that
`Paging.c` builds from heap memory. Drivers register with the driver manager
and with devfs, and devfs grows its table of children with `realloc`.

What is hard. The kernel has one CPU, so concurrency is preemption: every
handler runs behind an interrupt gate and is atomic towards threads, while a
thread may be interrupted between any two stores. Nothing survives a reboot
and nothing is sent anywhere, so there are no crashes to recover from or
messages to lose. Failure is a panic, which stops everything. The rest of the
difficulty is boundary arithmetic: bit masks, pages against bytes, narrow
integers, loops that search. `PROJECT.json` lists each hazard at its line.

## Modules

### Scheduler.tla

`Scheduler.c`, with the two list functions it uses. The correspondence:

| Module | Code |
|---|---|
| `next`, `first`, `status` | `ListElement.Next`, `Process.Threads`, and whether a record is allocated and in its list |
| `State`, `RemainingCpuTime`, `CPUFrame`, `ParentProcess` | fields of `SchedThread`; thread and list element are one record |
| `CurrIteratedProc`, `CurrIteratedThread`, `initialized` | the same statics |
| `handler` | where `SchedIrqHandler` is; `"none"` outside it |
| `cpu` | the context being executed: owner, point reached, locals |
| `TimerIrq`, `SchedTick` | entry of the handler, by hardware or by `int $0x20` |
| `PickNextThread`, `PickNextProcess` | one turn of the two loops of the search |
| `SchedLoadFrame` | switch of the directory, load of the frame, `iret` |
| `SleepSetState`, `SleepSetTime` | the two stores of `SchedSleep` |
| `SchedCreateProcess`, `SchedCreateThread` | up to the test of the list's head |
| `AttachOrWalk`, `LListGetLast`, `LListPushBack` | the rest of creation, one pointer hop at a time |

`RoundRobin.tla` says what a round-robin scheduler promises, on an abstract
ring of threads. `MCScheduler.tla` is the instance for TLC and holds the
refinement mapping: the ring is the concatenation of the thread lists in the
order of the process list.

Three things are assumed. `KIdle` never sleeps and is never put to sleep; if
it did and all others slept, the search would not end. Creation is done by one
thread at a time (`Creators` has one element): two creators can lose each
other's element, which is listed as a hazard. And a context is saved and
restored whole: the code also copies the two words a ring-changing interrupt
pushes, whatever interrupt it was, and what that does to the stacks is what
`Interrupts` is about.

### Interrupts.tla

Everything between an interrupt and its `iret`: the gates of `IDT.c` with their
privilege levels, the stubs of `IDTAsm.asm` (`Enter`, `Iret`),
`IdtGlobalIntHandler`, and the handlers it calls, which are `SchedIrqHandler`
and `SyscallIntHandler`. The handlers run to the end with interrupts disabled,
so `int` has three points: dispatch, return, and none. The PICs are two 8259s
as `PicInit` leaves them; `EndOfInterrupt` is `PicEOI` for the vectors the
dispatcher takes for theirs. The offset 0x27 given to the second PIC counts as
0x20, since the chip takes five bits of it.

The point of the module is the stack. `kstack` is the one kernel stack there
is: ring-0 code has no other, since an `iret` to ring 0 loads no ESP, and an
interrupt of ring 3 starts at its top. A frame ends below two words that belong
to the frame when ring 3 was interrupted and to the interrupted code when ring 0
was; `SchedSaveFrame` and `SchedLoadFrame` copy them either way, and so does
the model. Which thread comes next is any that exists, of which the scheduler's
choice is one. `own` is history: what each thread believes of its own
registers and pushed words.

### KernelMemory.tla

`PhysicalMemory.c` and `VirtualMemory.c` on the kernel page tables
`_start.asm` prepares. `MmVmAllocate` is one action per turn of its search loop
(`SearchTurn`) and of its fill loop (`FillTurn`), then `Return`; `MmVmFree` is
one action. The bitmap helpers are modelled by what they do to the four frames
of a byte, with the mask as it is in the code, and initialisation with bytes
and pages confused as they are. `VariablePage` is the page of the image that
holds the variable `VirtualAddress`, whose address the code uses where its
value is meant.

### Heap.tla

`LibAlloc.c` as configured, with the hooks of `LibAllocStubs.c`. A major is an
element of `majors`, named by its index; its `next` is the code's, so the list
is not assumed to be the order of allocation. One turn of malloc's loop is
`Hop`, `Restart`, `Grow` or `Take`; `Root` is the part before the loop. The
lock is two actions, `TestLock` and `TakeLock`. `realloc` is `Realloc`, then
`Reject`, `Cut` or `Regrow`, the last of which goes on as a malloc. CASE 3 of
the code needs room in front of a major's block and CASE 4 is compiled out, so
neither has an action. `offset` is where in a page `MmVmAllocate`'s blocks
start; the linker decides, so every value is an initial state.

`Allocator.tla` says what malloc and realloc promise: aligned blocks that do
not overlap, never move and may only become shorter. `Heap!Blocks` maps the
majors to it.

### Paging.tla

`Paging.c`. `mem` is the entries in each page frame; what an
address means is what `Translate`, the MMU, finds in the tables under the
directory in `cr3`, and the kernel's own pointers to tables are followed the
same way (`Deref`). `MmMap` and `MmUnmap` are a call in steps: `Begin` notes the
directory, `MmGetTableEntry` looks for the entry, `MallocTable`, `EnterTable`
and `GetTableEntryAgain` make a missing table, and `Store` is one of the four stores
that make an entry: `Following` is their order, `Stored` what each of them
leaves. Present comes before User and Writable, so the MMU may meet an entry
half done. The stores that enter a table begin by taking Present away and end by
setting it, so they are one step. `SwitchPageDirectory` may come between any
two steps, as the timer handler calls it.
`MmMmap` is `SearchTurn`, `CheckTurn` and `FrameTurn`, one turn of each of its
loops, for a request of one page. The User and Writable bits are `Rights`: what
a page allows is what both its entries allow. `tlb` is what the CPU may have
kept of the pages that are followed (`WatchedPages`): any translation found
since the directory was loaded, for the kernel has no `invlpg`. A pointer that
leads nowhere is a page fault, which hangs (`fault`). The offset in a page is
left out. A page
from malloc is a kernel page of its own on a frame of its own, as the alignment
of 4096 in `Heap` and `FramesNotShared` in `KernelMemory` make it; the next ones
stand for any. It is taken to be the page whose entry was set: the distance
`MmVmAllocate` adds to its result, which `KernelMemory` has (`VariablePage`), is
left out here. Nothing clears that
page: `leftover` is what it holds, zeroes or an entry that looks present.

### Devices.tla, RamDisk.tla, Console.tla

`Devices` is `DriverManager.c`, `Vfs.c` and `Devfs.c` with the order in which
`KMain.c` calls the initialisers that register something (`boot`), and then any
sequence of calls. The two lists are sequences, since calls come one at a time
and append. `DevfsAddDevice` takes which of its three allocations is refused.
`RamDisk` is `RamDisk.c` behind `IOStream.h`: a disk is its size and its
cursor; read and write differ only in the direction in which bytes are copied,
which is left out. A disk added after the refused one is written behind the
table, `overrun`, and the model stops there. Kernel code calls these functions
only in `KMain` so far.

`Console` is `TTY.c`: cells, cursor, scrolling and the comparison of the row
with the width at a newline, so that the cursor may run below the screen. The
registrations of `Devices` print a line through it, as the code does, which
changes nothing before `TTYInit` has given the stream its callbacks; `TTYInit`
takes over whatever cursor it finds. A step types one character, a turn of
`TTYWrite`'s loop, and a text is any number of steps. A line printed by the
kernel is one character and a newline, since only its newline matters. What a
panic prints is left out.

`Suffixes.tla` has four lemmas about the end of a sequence, on which the proofs
about stacks and lists rest.

## What is checked

| Run | Shows |
|---|---|
| `scheduler` | type correctness and seven safety properties, among them that the scheduler implements `RoundRobin` and that a slice is too long only after one race in `SchedSleep`; the handler returns; no thread that is awake starves |
| `interrupts` | a user thread goes on with its own EAX, ESP and SS; the only kernel thread that uses the stack finds its words there; no line of the first PIC stays in service, and the timer is always served |
| `kernel_memory` | no frame is mapped twice, the image stays mapped, the search is a first fit, a block is returned with a frame for each page |
| `heap` | blocks lie in their majors, usage is exact and never above size, every major is in use and linked when the lock is free, `Allocator` is implemented, every call returns |
| `paging` | every directory shows the kernel alike and `cr3` follows the variable; a page is mapped in the directory the call began with, with no more rights than asked for; no other page changes its meaning; the TLB allows too much only for pages that were rewritten; the kernel faults only on tables beyond the first 4 MiB |
| `devices` | names of file systems are unique, no cursor of a RAM disk leaves its buffer, the line being written is shown where the cursor is |

Six more runs end in a violation of something the repository says:

| Run | Disagreement |
|---|---|
| `scheduler_wake` | `SchedSleepTest` expects to wake: a sleeper that is not current is never woken |
| `kernel_memory_image` | "a free physical page": frames of the kernel image are handed out |
| `heap_lock` | "supposed to lock": test and store of the flag are separate |
| `heap_realloc` | devfs asserts that its `realloc` succeeds: the header is not found, as its distance was stored in a byte |
| `paging_mmap` | "Maps a specified amount of pages": for one page `MmMmap` takes one frame after the other and never returns |
| `devices_listed` | "Registered device /dev/tty": `DevfsInit` comes later and empties `/dev` |

Four more disagreements are part of what a passing run shows, which says exactly
how far they go:

| Run | Disagreement |
|---|---|
| `scheduler`, `LongSlicesFromSleep` | "2 ms of CPU time per thread": an interrupt between the two stores of `SchedSleep` turns the sleeping time into a slice, and nothing else makes one longer |
| `paging`, `FaultsOnlyBeyond` | "Converts a physical address to a virtual one": `MmKernelPhysToVirt` returns the physical address, so the kernel faults once a table lies above the first 4 MiB, and at no other time |
| `kernel_memory`, `BlockMapped` | "0 is returned on failure": `MmPmAllocate` panics, and only therefore does `MmVmAllocate`, which does not test the result, return no block with a hole |
| `kernel_memory`, `FirstFit` | "If the block cannot be found, 0 is returned": `MmVmAllocate` panics, though only when there is no such block |

Bounds. `scheduler`: three threads and two processes, of which one thread and
one process are created while the others run, so both lists are empty, of one
and of more elements at some time; a slice of 2 ticks as in the code; a counter
of 0..4, enough to wrap and to exceed the slice; sleeps of 0, 1 and 3.
`kernel_memory`: 10 kernel pages, 4 of them image, 14 frames, requests of 1 to 3
pages, so both kinds of memory run out, and blocks are freed in any order. `heap`: three majors, requests of one
byte (after which the major has room for more, so that the best bet and CASE 5
are used), of exactly one minimal major and of a little more; pages and
alignment of 8 and a byte of 4 values, so that the note of the distance wraps at
some offsets and not at others. Deadlock is allowed in the memory, paging
and heap runs, because a panic halts, in `interrupts`, because an exception
does, and in `devices`, because a disk behind the table and the last of the
calls end the run. `paging`: tables of 6 entries, so that kernel space and
two user tables fit in a directory and the identity-mapped part in one table;
three pages from malloc, enough for two directories and a table or one
directory and two tables, the last of them on a frame above the identity-mapped
part. `MappedWhereAsked` and `RightsAsked` are stated while all tables lie
below that and nothing that was left in the memory of a directory looks like a
table (`TablesLow`); beyond it the kernel faults, which is `FaultsOnlyBeyond`.
`DirectoryLoaded` is about the kernel and the first 4 MiB, the only parts a new
directory is given. `OnlyThatPage` and `OnlyRewrittenStale` need new memory to
be zero. Two
pages of the same table are mapped, with the User right and with both, so that
a table's rights are fixed by one page and meet another. The TLB follows one of
the two, and any stands for all, as an entry of the TLB depends on no other. The
page whose number is that of the frame beyond the first 4 MiB is not among
those that are mapped, which would let a pointer lead to it by chance; the theorem
has it. One frame for
`MmMmap` is enough for a turn of its last loop and for its panic, two for
`paging_mmap`.
`interrupts`: two kernel threads, one of which uses the stack, two words deep,
and two user threads, so that each kind is switched to the other and to its own;
two words of `KMain` under them; the timer, a line of the first PIC and
one of the second; two values of each register, enough to tell the right one
from another. A kernel thread pops only while two words lie below: what is
above the stack's top is other memory, which is not modelled. `devices`: a
screen of two rows of four and rows counted up to 6, so that lines wrap, the
screen scrolls, the cursor leaves it, and the row number wraps around; seven
calls after `KMain`, of which four fill the table of two usable RAM disks, are
refused and overrun it, and seven characters fill a row and begin the next; a
64-bit cursor is 0..7, so that seeks wrap around.

Fairness. `Scheduler!FairSpec` has weak fairness of the timer, as the PIT is
never stopped and every thread has interrupts enabled, and of the handler's own
steps, as the CPU goes on executing. There is none on what threads do.
`NoStarvation` assumes that from some time on nobody is inside `SchedSleep`: a
thread that sleeps for one millisecond again and again is woken by its own
software interrupt and keeps the CPU. `Heap!FairSpec` has weak fairness of the
steps of a thread that is in a call, which `NoStarvation` justifies.
`Interrupts!FairSpec` has weak fairness of the handler and of `iret`, as the CPU
goes on executing, and strong fairness of `HardwareInterrupt`: software
interrupts disable it again and again, but the CPU looks for a request after
each instruction it executes with interrupts enabled.

## What is proved

For every value of the constants that satisfies the named assumptions.

`SchedulerProofs.tla` proves the type invariant and six of the safety
properties of the run `scheduler`. The properties are not inductive: that a
frame belongs to its thread depends on the cursors pointing to listed threads,
and that on the shape of the lists. So there are three layers. `Inv1` adds to
`TypeOK` the shape of the lists, of the locals of each context and of the
cursors. `Inv2` adds who executes, in what state, and what the handler knows at
each of its points (for instance: when it loads a frame, that thread is
running). `Inv3` adds where a preempted `LListPushBack` stands; it alone needs
`SingleCreator`, which `ListsStayWhole` states as its assumption.
`Preemption` is an action property that follows from `Inv2`, `LongSlices` one
that needs only the types.

`KernelMemoryProofs.tla` proves the five invariants of `kernel_memory`.
`FramesDistinct` cannot rest on the bitmap, whose mask wipes the neighbours of
the frame it marks; the strengthening is that every frame in use outside the
image lies below `MmPmBitmapTop`. `ImageSafe` and `SearchIsFirstFit` rest on a
loop invariant for each loop of `MmVmAllocate`, and so does `BlocksWhole`, which
also needs that frame 0 is never handed out: `MmPmBitmapTop` begins above the
pages of the image and only grows.

`HeapProofs.tla` proves the four invariants of `heap` and the refinement of
`Allocator`. `MajorsInv` says of the list of majors that they lie one behind the
other below what `MmVmAllocate` has handed out, that new ones are linked behind
the last, and of each that its usage is exact and its block inside; `CallsInv`
says of each call that the majors it refers to exist and that those it may
return or cut are in use. The arithmetic is in a few lemmas: the padding is
enough however far `ALIGN` moves a block (`CarveFits`), and the pages asked for
hold it (`NewMajorFits`). Blocks of different majors are then apart, so that
`Take` and one case of `Grow` are `Allocator!Allocate`, `Cut` is `Shrink` or
nothing, and everything else is nothing (`Simulation`). `Implements` is stated
for one caller: a step is a turn of malloc's loop, and since the lock does not
exclude (`heap_lock`), the turns of two callers may mix in the code where they
do not in the module. The invariants are true of the module with any
number of callers, but say as little of callers that meet. `NothingInVain` is
about one caller too: a major is empty only while the search that made it is
about to use it (`UsedInv`).

`InterruptsProofs.tla` proves the four invariants of `interrupts`. The
invariant has one conjunct per concern: who executes and what he may find
(`Execution`), what the saved frames hold (`Frames`), and what the frame of the
interrupt being handled holds in the meantime (`SavedInFrame`, `InProcessor`),
which is where the copied words matter; `Controllers` is about the PICs.
`WordsKept` adds `StackWords`: the words of the one kernel thread that uses the
stack are at its end, or will be once the two in the thread's frame are put
back over those another thread's frame has left there.

`PagingProofs.tla` proves the seven properties of `paging`, for tables of any
size. `Inv` rests on what each frame is: the kernel's, a directory, a table
that at most one entry of one directory leads to (`TablesNotShared`), memory
nothing was stored in, or data. The kernel's own table only grows at its end
(`KernelTables`), so a page of kernel space lies in the frame behind its number
whatever directory is loaded, which is `DirectoryLoaded`. `CallInv` says what
each point of a call knows: that the entry for its page is still unused while
malloc works, that its table is nowhere in use before it is entered, and that
`Store` writes to the table its own page belongs to. Of that `OnlyThatPage` is
what one step does to a walk. `StoresInv` follows a call through its four
stores: what the entry of its page holds by now, as long as the table is within
reach (`Progress`), and that, where new memory is zero, an entry that is not
present grants no rights but on the way there, and a page that was not present
gains its rights one by one (`Clean`), so that the TLB can keep fewer of them
and never more. `MappedWhereAsked` and `RightsAsked` are proved together, as
`AskedWhenDone`, which `Progress` gives at the last store of a call.
`OnlyRewrittenStale` is inductive with `Clean`: a translation that is kept was
found by a walk, and only the stores to a page that was present take anything
away from one. `NoFaultInReach` is about the step that faults: it follows a
pointer to a table that is entered somewhere, and one in the first 4 MiB is
found. That data lies behind the pages of the kernel (`ConstantsAssumption`) is
how a frame given to a user is told from a table; that no frame has two users
is `FramesNotShared` of `KernelMemory`.

`DevicesProofs.tla` proves the four invariants of `devices`: names stay apart;
no cursor of a RAM disk leaves its buffer, for a cursor of any width; and on
every screen wider than high the line being written is shown where the cursor
is. For the last, `ConsoleOK` (the type and the property together) is kept by
each part of a write: the cell at the cursor exists in every row a cursor can
count to and is no other cell of the line, and a new row begins with an empty
line, scrolled or not. `ConsoleInv` adds that the cells are blank
until `TTYInit`, so that the line up to the cursor it takes over is blank too.

Model-checked only: liveness (the prover has neither fairness nor ENABLED) and
the refinement of `RoundRobin` (its mapping follows pointers recursively, and
what that computes for every list needs induction over data). The six runs that
end in a violation have no theorem, of course: each shows a trace.

## What is not modelled

Components without a module are listed in `PROJECT.json` with the reason. Left
out of modelled components:

- registers other than EAX, ESP and the selectors; the size in bytes of a kernel
  stack, so what an interrupt frame overwrites below a small stack; spurious
  requests of the PICs and the rate of the PIT;
- the arguments of system calls, which only print; the digits and strings
  `Kprintf` formats; the screen of `KPanic`;
- `SchedTickCounter` and process ids (written, never read), the `Prev` pointers
  of lists, and the list operations nobody calls;
- `MmPmFree` (no caller; it shifts by 10 where frames are numbered by 12 bits)
  and `liballoc_free` (no caller); the commented-out `free`, liballoc's
  counters, and requests so near 4 GiB that adding the overheads wraps;
- the contents of blocks and of RAM disks, the attributes of the console's cells
  and its blinking cursor;
- the Multiboot header and the copy of its tags, which nothing reads;
- `MmMmap` of more than one page.

## Plan

1. A mapping of `Scheduler` to `RoundRobin` without recursion, so that the
   refinement can be proved.
2. `Scheduler` composed with `Interrupts`, so that the thread that is switched
   to is the scheduler's choice and its context is words on a stack; `Paging`
   composed with `KernelMemory`, whose frames it takes for granted.
3. The turn of malloc's loop in single loads and stores, for callers that meet
   there, to see what the lock's gap can do to the list of majors.
