-------------------------------- MODULE Heap --------------------------------
(***************************************************************************)
(* The kernel heap: liballoc (kernel/src/MM/LibAlloc.c) as this kernel     *)
(* configures it, over the hooks of LibAllocStubs.c.                       *)
(*                                                                         *)
(* free is commented out and CASE 4, which would put a second block into a *)
(* major, is disabled; so CASE 3, which wants room in front of a major's   *)
(* first block, has none, and a major holds one block at most.  free(p) is *)
(* an empty macro: the old block of a realloc stays where it is.           *)
(*                                                                         *)
(* A malloc is one action per turn of its loop, and the two steps of       *)
(* liballoc_lock are actions of their own, since a timer interrupt may     *)
(* switch threads between them.  calloc is malloc, as far as the heap goes.*)
(* l_allocated, l_inuse and the warning counters are only ever written.    *)
(*                                                                         *)
(* MmVmAllocate (KernelMemory.tla) appears as what it is to a caller that  *)
(* frees nothing: it hands out consecutive pages.                          *)
(***************************************************************************)
EXTENDS Integers, Sequences

CONSTANTS
    Callers,        \* threads that allocate
    Requests,       \* sizes they ask for
    ALIGNMENT,      \* 4096
    ALIGN_INFO,     \* 16
    ByteRange,      \* 256: values of the uint8_t in front of each block
    MajorSize,      \* 24: sizeof(struct liballoc_major)
    MinorSize,      \* 24: sizeof(struct liballoc_minor)
    l_pageSize,     \* 4096
    l_pageCount,    \* 16
    HeapPages       \* pages MmVmAllocate has before it panics

\* Sizes are unsigned ints in the code; no request is so large that adding
\* the overheads to it wraps, and no other limit is put on the requests here.
ASSUME ConstantsAssumption ==
    /\ Requests \subseteq Nat
    /\ ALIGNMENT \in Nat \ {0} /\ ALIGN_INFO \in Nat \ {0}
    /\ ByteRange \in Nat \ {0}
    /\ MajorSize \in Nat \ {0} /\ MinorSize \in Nat \ {0}
    /\ l_pageSize \in Nat \ {0} /\ l_pageCount \in Nat \ {0}
    /\ HeapPages \in Nat

VARIABLES
    offset,         \* &VirtualAddress modulo the page size: the linker's choice
    brk,            \* pages MmVmAllocate has handed out
    majors,         \* the majors in the order they were allocated
    l_memRoot, l_bestBet,   \* indices of majors, 0 for NULL
    LibAllocLock,
    call,           \* of each caller: the call it is in
    held            \* of each caller: the blocks it may pass to realloc

vars == <<offset, brk, majors, l_memRoot, l_bestBet, LibAllocLock, call, held>>

NoMinor == [size |-> 0, req_size |-> 0, p |-> 0, info |-> 0]

\* at: the point reached; then: where to go once the lock is taken; m: the
\* major of the block concerned; the rest are malloc's and realloc's locals.
NoCall == [at |-> "idle", then |-> "root", req_size |-> 0, maj |-> 0,
           startedBet |-> FALSE, bestSize |-> 0, m |-> 0, old |-> 0]

Init ==
    /\ offset \in 0..(l_pageSize - 1)
    /\ brk = 0
    /\ majors = << >>
    /\ l_memRoot = 0 /\ l_bestBet = 0
    /\ LibAllocLock = FALSE
    /\ call = [c \in Callers |-> NoCall]
    /\ held = [c \in Callers |-> {}]

Goto(c, point) == call' = [call EXCEPT ![c].at = point]

------------------------------------------------------------------------------
(* Sizes and addresses *)

\* Faulty variant of Padded: no room for the note.
PaddedWithoutNote(n) == n + ALIGNMENT

\* malloc's size: room to align the block and to note by how much it moved.
Padded(n) == n + ALIGNMENT + ALIGN_INFO

\* What a request takes from its major.
Need(n) == Padded(n) + MinorSize

Free(m) == majors[m].size - majors[m].usage

RoundUp(n, unit) == ((n + unit - 1) \div unit) * unit

\* ALIGN: how far the pointer moves up from the end of the minor.
Moved(p) == RoundUp(p + ALIGN_INFO, ALIGNMENT) - p

MinorEnd(major) == major.base + MajorSize + MinorSize

\* The block carved out of an empty major; the note of the distance is cut to
\* one byte.
Carve(major, n) ==
    LET end == MinorEnd(major)
    IN  [major EXCEPT
            !.usage = @ + Need(n),
            !.first = TRUE,
            !.minor = [size |-> Padded(n), req_size |-> n,
                       p |-> end + Moved(end),
                       info |-> Moved(end) % ByteRange]]

\* UNALIGN, from the note the block carries; a note that is too large to have
\* been written by ALIGN is taken for somebody else's data.
Unaligned(m) ==
    LET block == majors[m].minor
    IN  IF block.info < ALIGNMENT + ALIGN_INFO
        THEN block.p - block.info
        ELSE block.p

\* The magic number is where realloc looks for it.
HeaderFound(m) == Unaligned(m) = MinorEnd(majors[m])

\* Faulty variant of PagesFor: the minor's header is forgotten.
PagesForBlockOnly(n) ==
    LET st == RoundUp(Padded(n) + MajorSize, l_pageSize) \div l_pageSize
    IN  IF st < l_pageCount THEN l_pageCount ELSE st

\* Pages allocate_new_page asks for.
PagesFor(n) ==
    LET st == RoundUp(Padded(n) + MajorSize + MinorSize, l_pageSize)
                  \div l_pageSize
    IN  IF st < l_pageCount THEN l_pageCount ELSE st

\* The major allocate_new_page prepares for a request of n.
NewMajor(n) ==
    [base |-> offset + brk * l_pageSize, size |-> PagesFor(n) * l_pageSize,
     usage |-> MajorSize, next |-> 0, first |-> FALSE, minor |-> NoMinor]

------------------------------------------------------------------------------
(* liballoc_lock and liballoc_unlock *)

\* The flag is tested ...
TestLock(c) ==
    /\ call[c].at = "lock" /\ ~LibAllocLock
    /\ Goto(c, "take")
    /\ UNCHANGED <<offset, brk, majors, l_memRoot, l_bestBet, LibAllocLock,
                   held>>

\* ... and set, without having been tested again.
TakeLock(c) ==
    /\ call[c].at = "take"
    /\ LibAllocLock' = TRUE
    /\ Goto(c, call[c].then)
    /\ UNCHANGED <<offset, brk, majors, l_memRoot, l_bestBet, held>>

------------------------------------------------------------------------------
(* malloc *)

Malloc(c, n) ==
    /\ call[c].at = "idle"
    /\ call' = [call EXCEPT ![c] = [NoCall EXCEPT !.at = "lock",
                                                  !.req_size = n]]
    /\ UNCHANGED <<offset, brk, majors, l_memRoot, l_bestBet, LibAllocLock,
                   held>>

\* Faulty variant of Available: one page is taken to be enough.
AvailableOnePage(n) == brk < HeapPages

\* MmVmAllocate finds the pages, or panics.
Available(n) == brk + PagesFor(n) <= HeapPages

\* The first call makes the root; the search starts at the major that had
\* most room when last looked at, if it would do, and else at the root.
Root(c) ==
    /\ call[c].at = "root"
    /\ LET n == call[c].req_size
           fits == l_bestBet # 0 /\ Free(l_bestBet) > Need(n)
       IN  IF l_memRoot = 0 /\ ~Available(n)
           THEN Goto(c, "panic") /\ UNCHANGED <<brk, majors, l_memRoot>>
           ELSE /\ IF l_memRoot = 0
                   THEN /\ majors' = Append(majors, NewMajor(n))
                        /\ brk' = brk + PagesFor(n)
                        /\ l_memRoot' = Len(majors) + 1
                   ELSE UNCHANGED <<brk, majors, l_memRoot>>
                /\ call' = [call EXCEPT ![c] =
                       [@ EXCEPT !.at = "loop",
                            !.maj = IF fits THEN l_bestBet ELSE l_memRoot',
                            !.startedBet = fits,
                            !.bestSize = IF l_bestBet = 0 THEN 0
                                         ELSE Free(l_bestBet)]]
    /\ UNCHANGED <<offset, l_bestBet, LibAllocLock, held>>

\* The head of a turn of the loop: a major with more room than any before
\* becomes the best bet.  The other locals are left to the case.
Remembered(c) ==
    IF call[c].bestSize < Free(call[c].maj)
    THEN [call[c] EXCEPT !.bestSize = Free(call[c].maj)]
    ELSE call[c]

Remember(c) ==
    l_bestBet' = IF call[c].bestSize < Free(call[c].maj)
                 THEN call[c].maj ELSE l_bestBet

\* Faulty variant of Case1: a major that would just do is not enough.
Case1TooStrict(c) == Free(call[c].maj) <= Need(call[c].req_size)

\* CASE 1: not enough room in this major.
Case1(c) == Free(call[c].maj) < Need(call[c].req_size)

\* CASE 2: a brand new major.
Case2(c) == ~Case1(c) /\ ~majors[call[c].maj].first

\* No major follows this one.
Last(c) == majors[call[c].maj].next = 0

\* CASES 1 and 5 with a major to go on to: the next one, or the root if the
\* search began at the best bet.
Hop(c) ==
    /\ call[c].at = "loop" /\ ~Case2(c) /\ ~Last(c)
    /\ Remember(c)
    /\ call' = [call EXCEPT ![c] =
                   [Remembered(c) EXCEPT !.maj = majors[@].next]]
    /\ UNCHANGED <<offset, brk, majors, l_memRoot, LibAllocLock, held>>

\* Faulty variant of Restart: startedBet is not reset.
RestartForever(c) ==
    /\ call[c].at = "loop" /\ ~Case2(c) /\ Last(c) /\ call[c].startedBet
    /\ Remember(c)
    /\ call' = [call EXCEPT ![c] = [Remembered(c) EXCEPT !.maj = l_memRoot]]
    /\ UNCHANGED <<offset, brk, majors, l_memRoot, LibAllocLock, held>>

Restart(c) ==
    /\ call[c].at = "loop" /\ ~Case2(c) /\ Last(c) /\ call[c].startedBet
    /\ Remember(c)
    /\ call' = [call EXCEPT ![c] =
                   [Remembered(c) EXCEPT !.maj = l_memRoot,
                                         !.startedBet = FALSE]]
    /\ UNCHANGED <<offset, brk, majors, l_memRoot, LibAllocLock, held>>

\* CASES 1 and 5 with none: a new major is linked behind this one.  CASE 1
\* falls through to CASE 2 there, CASE 5 goes round the loop again.
Grow(c) ==
    /\ call[c].at = "loop" /\ ~Case2(c) /\ Last(c) /\ ~call[c].startedBet
    /\ Remember(c)
    /\ LET n      == call[c].req_size
           new    == Len(majors) + 1
           linked == [majors EXCEPT ![call[c].maj].next = new]
       IN  IF Available(n)
           THEN /\ brk' = brk + PagesFor(n)
                /\ IF Case1(c)
                   THEN /\ majors' = Append(linked, Carve(NewMajor(n), n))
                        /\ call' = [call EXCEPT ![c] =
                               [Remembered(c) EXCEPT !.at = "unlock",
                                                     !.maj = new, !.m = new]]
                   ELSE /\ majors' = Append(linked, NewMajor(n))
                        /\ call' = [call EXCEPT ![c] =
                               [Remembered(c) EXCEPT !.maj = new]]
           ELSE Goto(c, "panic") /\ UNCHANGED <<brk, majors>>
    /\ UNCHANGED <<offset, l_memRoot, LibAllocLock, held>>

\* CASE 2 on a major met in the loop.
Take(c) ==
    /\ call[c].at = "loop" /\ Case2(c)
    /\ Remember(c)
    /\ majors' = [majors EXCEPT ![call[c].maj] = Carve(@, call[c].req_size)]
    /\ call' = [call EXCEPT ![c] =
                   [Remembered(c) EXCEPT !.at = "unlock", !.m = call[c].maj]]
    /\ UNCHANGED <<offset, brk, l_memRoot, LibAllocLock, held>>

\* The lock is released; the block is the caller's, and the one a realloc
\* replaces is no longer its.  Without a block (m = 0) NULL is returned.
Unlock(c) ==
    /\ call[c].at = "unlock"
    /\ LibAllocLock' = FALSE
    /\ held' = IF call[c].m = 0 THEN held
               ELSE [held EXCEPT ![c] = (@ \ {call[c].old}) \cup {call[c].m}]
    /\ call' = [call EXCEPT ![c] = NoCall]
    /\ UNCHANGED <<offset, brk, majors, l_memRoot, l_bestBet>>

------------------------------------------------------------------------------
(* realloc of a block, to a size other than 0 *)

Realloc(c, m, n) ==
    /\ call[c].at = "idle"
    /\ call' = [call EXCEPT ![c] =
                   [NoCall EXCEPT !.at = "lock", !.then = "check",
                                  !.req_size = n, !.old = m]]
    /\ UNCHANGED <<offset, brk, majors, l_memRoot, l_bestBet, LibAllocLock,
                   held>>

\* No magic number: the call is "being lied to" and returns NULL.
Reject(c) ==
    /\ call[c].at = "check" /\ ~HeaderFound(call[c].old)
    /\ Goto(c, "unlock")
    /\ UNCHANGED <<offset, brk, majors, l_memRoot, l_bestBet, LibAllocLock,
                   held>>

\* Faulty variant of Cut: the padding counts as part of the block.
CutWithinPadding(c) ==
    /\ call[c].at = "check" /\ HeaderFound(call[c].old)
    /\ majors[call[c].old].minor.size >= call[c].req_size
    /\ majors' = [majors EXCEPT ![call[c].old].minor.req_size =
                                                       call[c].req_size]
    /\ call' = [call EXCEPT ![c].at = "unlock", ![c].m = call[c].old]
    /\ UNCHANGED <<offset, brk, l_memRoot, l_bestBet, LibAllocLock, held>>

\* The block is long enough and is cut in place.
Cut(c) ==
    /\ call[c].at = "check" /\ HeaderFound(call[c].old)
    /\ majors[call[c].old].minor.req_size >= call[c].req_size
    /\ majors' = [majors EXCEPT ![call[c].old].minor.req_size =
                                                       call[c].req_size]
    /\ call' = [call EXCEPT ![c].at = "unlock", ![c].m = call[c].old]
    /\ UNCHANGED <<offset, brk, l_memRoot, l_bestBet, LibAllocLock, held>>

\* It is too short: the lock is released and malloc called.
Regrow(c) ==
    /\ call[c].at = "check" /\ HeaderFound(call[c].old)
    /\ majors[call[c].old].minor.req_size < call[c].req_size
    /\ LibAllocLock' = FALSE
    /\ call' = [call EXCEPT ![c].at = "lock", ![c].then = "root"]
    /\ UNCHANGED <<offset, brk, majors, l_memRoot, l_bestBet, held>>

------------------------------------------------------------------------------
Step(c) ==
    \/ TestLock(c) \/ TakeLock(c)
    \/ Root(c) \/ Hop(c) \/ Restart(c) \/ Grow(c) \/ Take(c) \/ Unlock(c)
    \/ Reject(c) \/ Cut(c) \/ Regrow(c)

\* A panic stops every thread.
Running == \A c \in Callers : call[c].at # "panic"

Next ==
    /\ Running
    /\ \E c \in Callers :
           \/ \E n \in Requests : Malloc(c, n)
           \/ \E m \in held[c], n \in Requests \ {0} : Realloc(c, m, n)
           \/ Step(c)

Spec == Init /\ [][Next]_vars

\* A thread that is in a call gets the CPU again (NoStarvation, Scheduler.tla).
FairSpec == Spec /\ \A c \in Callers : WF_vars(Running /\ Step(c))

------------------------------------------------------------------------------
(* Properties *)

Points == {"idle", "lock", "take", "root", "loop", "check", "unlock", "panic"}

Minors == [size : Nat, req_size : Nat, p : Nat, info : Nat]

Indices == 0..Len(majors)

TypeOK ==
    /\ offset \in 0..(l_pageSize - 1)
    /\ brk \in 0..HeapPages
    /\ majors \in Seq([base : Nat, size : Nat, usage : Nat, next : Nat,
                       first : BOOLEAN, minor : Minors])
    /\ l_memRoot \in Indices /\ l_bestBet \in Indices
    /\ LibAllocLock \in BOOLEAN
    /\ call \in [Callers -> [at : Points, then : {"root", "check"},
                             req_size : Requests \cup {0}, maj : Indices,
                             startedBet : BOOLEAN, bestSize : Nat,
                             m : Indices, old : Indices]]
    /\ held \in [Callers -> SUBSET (1..Len(majors))]

Majors == 1..Len(majors)

\* A block starts aligned, behind its minor and the note ALIGN writes in
\* front of it, and ends before its major does, whatever the page offset at
\* which MmVmAllocate's blocks start: nothing malloc keeps for itself is
\* given to a caller.
BlockInItsMajor ==
    \A i \in Majors : majors[i].first =>
        LET major == majors[i]
            block == major.minor
        IN  /\ block.p % ALIGNMENT = 0
            /\ MinorEnd(major) + ALIGN_INFO <= block.p
            /\ block.p + block.req_size <= major.base + major.size

\* usage counts the headers and the one block a major may hold, and never
\* exceeds size: the unsigned size - usage that steers malloc cannot wrap.
UsageAccounted ==
    \A i \in Majors :
        /\ majors[i].usage = MajorSize + (IF majors[i].first
                                         THEN MinorSize + majors[i].minor.size
                                         ELSE 0)
        /\ majors[i].usage <= majors[i].size

\* Whenever the lock is free every major is in use and can be reached from
\* the root: no page request was made in vain, and none is forgotten.
EveryMajorUsed ==
    ~LibAllocLock =>
        /\ l_memRoot = IF majors = << >> THEN 0 ELSE 1
        /\ \A i \in Majors :
              /\ majors[i].first
              /\ majors[i].next = IF i = Len(majors) THEN 0 ELSE i + 1

Blocks == { [p |-> majors[i].minor.p, size |-> majors[i].minor.req_size] :
            i \in { j \in Majors : majors[j].first } }

Promise == INSTANCE Allocator
    WITH Addresses <- 0..((HeapPages + 1) * l_pageSize), blocks <- Blocks

\* malloc and realloc only give out aligned blocks that no other block
\* overlaps, and leave those given out before alone but for cutting them.
ImplementsAllocator == Promise!Spec

\* Every malloc and realloc returns or panics: the loop, which starts at the
\* best bet and may begin again at the root, ends.
MallocReturns == \A c \in Callers :
    (call[c].at = "lock") ~> (call[c].at \in {"idle", "panic"})

\* LibAlloc.h: liballoc_lock is "supposed to lock the memory data structures",
\* so no two threads are at work on them.
LockExcludes == \A c, d \in Callers :
    c # d => ~ { call[c].at, call[d].at } \subseteq
                   {"root", "loop", "check", "unlock"}

\* Devfs.c asserts that the realloc of its Children, a block malloc returned,
\* is not NULL: the header of such a block is found.
ReallocFindsHeader == \A c \in Callers :
    call[c].at = "check" => HeaderFound(call[c].old)
=============================================================================
