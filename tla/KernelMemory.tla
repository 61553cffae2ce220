---------------------------- MODULE KernelMemory ----------------------------
(***************************************************************************)
(* The physical and the virtual page allocator of the kernel,              *)
(* kernel/src/MM/PhysicalMemory.c and VirtualMemory.c, on top of the page  *)
(* tables _start.asm prepares.  Nothing else runs meanwhile: MmVmAllocate  *)
(* is called by liballoc only, under its lock (see Heap.tla).              *)
(*                                                                         *)
(* Page frames, kernel pages and bytes of the bitmap are numbers.  Each    *)
(* turn of MmVmAllocate's two loops is an action of its own.               *)
(***************************************************************************)
EXTENDS Integers

CONSTANTS
    MM_BITMAP_SIZE,     \* page frames the bitmap describes, 2 bits each
    LowBytes,           \* 64: bitmap bytes set aside for low memory
    FirstImageFrame,    \* 256: the kernel is loaded at 1 MiB
    KernelSizePages,    \* pages of the kernel image
    KernelPages,        \* 131072: entries of KernelPageTables
    VariablePage,       \* page of the image that holds VirtualAddress
    Requests            \* numbers of pages asked for

Frames == 0..(MM_BITMAP_SIZE - 1)
Pages  == 0..(KernelPages - 1)

ASSUME ConstantsAssumption ==
    /\ MM_BITMAP_SIZE \in Nat /\ KernelPages \in Nat
    /\ LowBytes \in Nat /\ KernelSizePages \in Nat \ {0}
    /\ FirstImageFrame \in Nat \ {0}
    /\ FirstImageFrame + KernelSizePages <= MM_BITMAP_SIZE
    /\ LowBytes + KernelSizePages <= MM_BITMAP_SIZE
    /\ KernelSizePages < KernelPages
    /\ VariablePage \in 0..(KernelSizePages - 1)
    /\ Requests \subseteq Nat

MmPmPageFree     == 0
MmPmPageUsed     == 1
MmPmPageUnusable == 2

VARIABLES
    MmPmBitmap,         \* the two bits of each page frame
    MmPmBitmapTop,      \* where MmPmAllocate starts looking
    Present, PhysAddress,   \* fields of the entries of KernelPageTables
    call,               \* the MmVmAllocate call that is going on
    blocks              \* what MmVmAllocate has returned and not got back

vars == <<MmPmBitmap, MmPmBitmapTop, Present, PhysAddress, call, blocks>>

\* The locals of MmVmAllocate; KPanic never returns.
NoCall == [at |-> "idle", pages |-> 0, i |-> 0, startingPage |-> 0,
           pageCounter |-> 0]

------------------------------------------------------------------------------
\* MmPmInitAllocator calls memset with numbers of pages where the bitmap has
\* four pages to a byte, and fills each byte with the value of one page.
Bit(f) ==
    IF f % 4 # 0 THEN MmPmPageFree
    ELSE IF f \div 4 < LowBytes THEN MmPmPageUnusable
    ELSE IF f \div 4 < LowBytes + KernelSizePages THEN MmPmPageUsed
    ELSE MmPmPageFree

Init ==
    /\ MmPmBitmap = [f \in Frames |-> Bit(f)]
    /\ MmPmBitmapTop = LowBytes + KernelSizePages
    /\ Present = [p \in Pages |-> p < KernelSizePages]
    /\ PhysAddress = [p \in Pages |->
                         IF p < KernelSizePages THEN FirstImageFrame + p ELSE 0]
    /\ call = NoCall
    /\ blocks = {}

------------------------------------------------------------------------------
(* MmPmAllocate *)

\* MmPmSetBitmapValue on a free frame: the mask that should clear the frame's
\* own two bits clears those of the other three frames in the byte instead.
MmPmSetBitmapValue(f, value) ==
    MmPmBitmap' = [g \in Frames |->
        IF g \div 4 # f \div 4 THEN MmPmBitmap[g]
        ELSE IF g = f THEN value ELSE MmPmPageFree]

Candidates == { f \in Frames :
                   f >= MmPmBitmapTop /\ MmPmBitmap[f] = MmPmPageFree }

\* Faulty variant of MmPmAllocate: it relies on the bitmap alone.
MmPmAllocateByBitmap(f) ==
    /\ f \in Candidates
    /\ \A g \in Candidates : f <= g
    /\ UNCHANGED MmPmBitmapTop
    /\ MmPmSetBitmapValue(f, MmPmPageUsed)

\* The lowest candidate is taken, and the top moves past it.
MmPmAllocate(f) ==
    /\ f \in Candidates
    /\ \A g \in Candidates : f <= g
    /\ MmPmBitmapTop' = f + 1
    /\ MmPmSetBitmapValue(f, MmPmPageUsed)

------------------------------------------------------------------------------
(* MmVmAllocate *)

MmVmAllocate(n) ==
    /\ call.at = "idle"
    /\ call' = [NoCall EXCEPT !.at = "search", !.pages = n]
    /\ UNCHANGED <<MmPmBitmap, MmPmBitmapTop, Present, PhysAddress, blocks>>

\* Faulty variant of Counted: a present page does not end the run.
CountedThrough ==
    IF Present[call.i]
    THEN call
    ELSE IF call.startingPage = 0
         THEN [call EXCEPT !.startingPage = call.i, !.pageCounter = 1]
         ELSE [call EXCEPT !.pageCounter = @ + 1]

\* startingPage and pageCounter after page i has been looked at; a
\* startingPage of 0 stands for "no run yet".
Counted ==
    IF Present[call.i]
    THEN [call EXCEPT !.startingPage = 0, !.pageCounter = 0]
    ELSE IF call.startingPage = 0
         THEN [call EXCEPT !.startingPage = call.i, !.pageCounter = 1]
         ELSE [call EXCEPT !.pageCounter = @ + 1]

SearchTurn ==
    /\ call.at = "search"
    /\ call' = IF call.i = KernelPages
               THEN [call EXCEPT !.at = "panic"]
               ELSE IF /\ Counted.startingPage # 0
                       /\ Counted.pageCounter = call.pages
                    THEN [Counted EXCEPT !.at = "fill",
                                         !.i = Counted.startingPage]
                    ELSE [Counted EXCEPT !.i = @ + 1]
    /\ UNCHANGED <<MmPmBitmap, MmPmBitmapTop, Present, PhysAddress, blocks>>

\* Faulty variant of FillTurn: one page too many.
FillTurnPastEnd ==
    /\ call.at = "fill" /\ call.i <= call.startingPage + call.pages
    /\ Present' = [Present EXCEPT ![call.i] = TRUE]
    /\ \/ \E f \in Candidates :
              /\ MmPmAllocate(f)
              /\ PhysAddress' = [PhysAddress EXCEPT ![call.i] = f]
              /\ call' = [call EXCEPT !.i = @ + 1]
       \/ /\ Candidates = {}
          /\ call' = [call EXCEPT !.at = "panic"]
          /\ UNCHANGED <<MmPmBitmap, MmPmBitmapTop, PhysAddress>>
    /\ UNCHANGED blocks

\* Faulty variant of FillTurn: each frame goes to the first page of the run.
FillTurnAtStart ==
    /\ call.at = "fill" /\ call.i < call.startingPage + call.pages
    /\ Present' = [Present EXCEPT ![call.i] = TRUE]
    /\ \/ \E f \in Candidates :
              /\ MmPmAllocate(f)
              /\ PhysAddress' = [PhysAddress EXCEPT ![call.startingPage] = f]
              /\ call' = [call EXCEPT !.i = @ + 1]
       \/ /\ Candidates = {}
          /\ call' = [call EXCEPT !.at = "panic"]
          /\ UNCHANGED <<MmPmBitmap, MmPmBitmapTop, PhysAddress>>
    /\ UNCHANGED blocks

\* The page is marked present before MmPmAllocate is called, and stays so when
\* MmPmAllocate panics, which its header says it does not do.
FillTurn ==
    /\ call.at = "fill" /\ call.i < call.startingPage + call.pages
    /\ Present' = [Present EXCEPT ![call.i] = TRUE]
    /\ \/ \E f \in Candidates :
              /\ MmPmAllocate(f)
              /\ PhysAddress' = [PhysAddress EXCEPT ![call.i] = f]
              /\ call' = [call EXCEPT !.i = @ + 1]
       \/ /\ Candidates = {}
          /\ call' = [call EXCEPT !.at = "panic"]
          /\ UNCHANGED <<MmPmBitmap, MmPmBitmapTop, PhysAddress>>
    /\ UNCHANGED blocks

\* The address is &VirtualAddress + startingPage * 4096, where VirtualAddress
\* would be the start of kernel space: the page the caller is told is
\* VariablePage pages above the one that was mapped.
Return ==
    /\ call.at = "fill" /\ call.i = call.startingPage + call.pages
    /\ blocks' = blocks \cup
           {[page |-> call.startingPage + VariablePage, pages |-> call.pages]}
    /\ call' = NoCall
    /\ UNCHANGED <<MmPmBitmap, MmPmBitmapTop, Present, PhysAddress>>

\* Faulty variant of MmVmFree: a page too low, as if the variable's page had
\* been taken off the address twice.
MmVmFreeLow(b) ==
    /\ call.at = "idle"
    /\ blocks' = blocks \ {b}
    /\ LET low == b.page - 2 * VariablePage
           freed == low..(low + b.pages - 1)
       IN  /\ Present' = [p \in Pages |-> Present[p] /\ p \notin freed]
           /\ PhysAddress' =
                  [p \in Pages |-> IF p \in freed THEN 0 ELSE PhysAddress[p]]
    /\ UNCHANGED <<MmPmBitmap, MmPmBitmapTop, call>>

\* MmVmFree computes the page from the value of VirtualAddress, does not give
\* the page frames back, and writes past the tables if they end before the
\* block does (not modelled: the guard).
MmVmFree(b) ==
    /\ call.at = "idle"
    /\ b.page + b.pages <= KernelPages
    /\ blocks' = blocks \ {b}
    /\ LET freed == b.page..(b.page + b.pages - 1)
       IN  /\ Present' = [p \in Pages |-> Present[p] /\ p \notin freed]
           /\ PhysAddress' =
                  [p \in Pages |-> IF p \in freed THEN 0 ELSE PhysAddress[p]]
    /\ UNCHANGED <<MmPmBitmap, MmPmBitmapTop, call>>

Next ==
    \/ \E n \in Requests : MmVmAllocate(n)
    \/ SearchTurn
    \/ FillTurn
    \/ Return
    \/ \E b \in blocks : MmVmFree(b)

Spec == Init /\ [][Next]_vars

------------------------------------------------------------------------------
(* Properties *)

ImagePages == 0..(KernelSizePages - 1)

TypeOK ==
    /\ MmPmBitmap \in [Frames -> 0..3]
    /\ MmPmBitmapTop \in 0..MM_BITMAP_SIZE
    /\ Present \in [Pages -> BOOLEAN]
    /\ PhysAddress \in [Pages -> Frames]
    /\ call \in [at : {"idle", "search", "fill", "panic"},
                  pages : Requests \cup {0}, i : 0..KernelPages,
                  startingPage : 0..KernelPages, pageCounter : 0..KernelPages]
    /\ blocks \subseteq [page : Nat, pages : Requests \cup {0}]

\* No page frame is mapped at two pages by MmVmAllocate.  The bitmap does not
\* ensure it, for MmPmSetBitmapValue wipes the neighbours' bits; the top does.
FramesNotShared ==
    \A p, q \in Pages \ ImagePages :
        p # q /\ PhysAddress[p] = PhysAddress[q] => PhysAddress[p] = 0

\* Neither MmVmAllocate nor MmVmFree, whose page arithmetic disagree, touches
\* the entries that map the kernel image itself.
ImageStaysMapped ==
    \A p \in ImagePages :
        Present[p] /\ PhysAddress[p] = FirstImageFrame + p

\* The n pages from s on, s > 0, could be allocated.
Fits(s, n) == \A p \in s..(s + n - 1) : p \in Pages /\ ~Present[p]

\* The search ends at the lowest run that is long enough, in spite of using
\* page 0 as "none"; and it gives up only if there is no such run.
FirstFit ==
    /\ (call.at = "fill" /\ call.i = call.startingPage) =>
           /\ Fits(call.startingPage, call.pages)
           /\ \A s \in 1..(call.startingPage - 1) : ~Fits(s, call.pages)
    /\ (call.at = "panic" /\ call.i = KernelPages /\ call.pages > 0) =>
           \A s \in 1..KernelPages : ~Fits(s, call.pages)

\* A run of pages MmVmAllocate is about to return lies within the tables, and
\* each of its pages is present and leads to a page frame: no request at the
\* end of the frames or of the tables gets a block with a hole.
BlockMapped ==
    (call.at = "fill" /\ call.i = call.startingPage + call.pages) =>
        \A p \in call.startingPage..(call.i - 1) :
            p \in Pages /\ Present[p] /\ PhysAddress[p] # 0

\* PhysicalMemory.h: MmPmAllocate "finds a free physical page", so no frame of
\* the kernel image.
ImageFramesKept ==
    \A p \in Pages \ ImagePages :
        PhysAddress[p] \notin FirstImageFrame..(FirstImageFrame
                                               + KernelSizePages - 1)
=============================================================================
