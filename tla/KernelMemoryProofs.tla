------------------------- MODULE KernelMemoryProofs -------------------------
(***************************************************************************)
(* Proofs about the page allocators for every size of the memory, of the   *)
(* kernel image and of the requests.                                       *)
(*                                                                         *)
(* FramesNotShared rests on MmPmBitmapTop alone: every page frame in use   *)
(* outside the image lies below it.  ImageStaysMapped and FirstFit rest on *)
(* what the two loops of MmVmAllocate know of the pages behind and ahead,  *)
(* and so does BlockMapped, with the fact that frame 0 is never handed out.*)
(***************************************************************************)
EXTENDS KernelMemory, TLAPS

\* Frames are handed out upwards, each once.
FramesBelowTop ==
    \A p \in Pages \ ImagePages : PhysAddress[p] < MmPmBitmapTop

\* Some page of the n pages from s on is taken, or lies outside the tables.
NoFit(s, n) == \E p \in s..(s + n - 1) : p \notin Pages \/ Present[p]

\* The run being counted consists of absent pages and is too short so far;
\* below it nothing fits.
SearchState ==
    call.at = "search" =>
        /\ call.startingPage # 0 =>
               /\ call.startingPage >= KernelSizePages
               /\ call.startingPage + call.pageCounter = call.i
               /\ call.pageCounter \in Nat \ {0}
               /\ \A p \in call.startingPage..(call.i - 1) : ~Present[p]
               /\ call.pages # 0 => call.pageCounter < call.pages
        /\ call.pages # 0 =>
               /\ call.startingPage = 0 =>
                      \A s \in 1..(call.i - 1) : NoFit(s, call.pages)
               /\ \A s \in 1..(call.startingPage - 1) : NoFit(s, call.pages)

\* The pages still to be filled are absent and outside the image.
FillState ==
    call.at = "fill" =>
        /\ call.startingPage >= KernelSizePages
        /\ call.i \in call.startingPage..(call.startingPage + call.pages)
        /\ call.startingPage + call.pages <= KernelPages
        /\ \A p \in call.i..(call.startingPage + call.pages - 1) : ~Present[p]

BlocksAboveImage ==
    \A b \in blocks : b.page >= KernelSizePages

Inv ==
    /\ TypeOK
    /\ FramesNotShared
    /\ FramesBelowTop
    /\ ImageStaysMapped
    /\ SearchState
    /\ FillState
    /\ BlocksAboveImage
    /\ FirstFit

------------------------------------------------------------------------------
LEMMA RequestsAreNumbers == \A n \in Requests \cup {0} : n \in Nat
<1>1. Requests \subseteq Nat /\ 0 \in Nat
    BY ConstantsAssumption
<1> QED
    BY ONLY <1>1, Zenon

LEMMA InitInv == Init => Inv
<1> SUFFICES ASSUME Init PROVE Inv
    OBVIOUS
<1> USE ConstantsAssumption DEF Init
<1>1. /\ 0 \in Frames
      /\ \A p \in ImagePages : p \in Pages /\ FirstImageFrame + p \in Frames
      /\ \A p \in Pages : p < KernelSizePages => p \in ImagePages
      /\ \A p \in Pages \ ImagePages : ~(p < KernelSizePages)
    BY DEF Frames, Pages, ImagePages
<1>2. TypeOK
    <2>1. MmPmBitmap \in [Frames -> 0..3]
        BY DEF Bit, MmPmPageFree, MmPmPageUsed, MmPmPageUnusable
    <2>2. /\ MmPmBitmapTop \in 0..MM_BITMAP_SIZE
          /\ Present \in [Pages -> BOOLEAN]
          /\ PhysAddress \in [Pages -> Frames]
        BY <1>1
    <2> QED
        BY <2>1, <2>2 DEF TypeOK, NoCall
<1>3. FramesNotShared /\ FramesBelowTop /\ ImageStaysMapped
    <2>1. \A p \in Pages \ ImagePages : PhysAddress[p] = 0
        BY <1>1
    <2>2. 0 < MmPmBitmapTop
        OBVIOUS
    <2>3. FramesNotShared
        BY <2>1 DEF FramesNotShared
    <2>4. FramesBelowTop
        BY <2>1, <2>2 DEF FramesBelowTop
    <2>5. ASSUME NEW p \in ImagePages
          PROVE  Present[p] /\ PhysAddress[p] = FirstImageFrame + p
        <3>1. p \in Pages /\ p < KernelSizePages
            BY <1>1 DEF ImagePages
        <3>2. Present[p]
            BY <3>1, Zenon
        <3> QED
            BY <3>1, <3>2
    <2>6. ImageStaysMapped
        BY <2>5 DEF ImageStaysMapped
    <2> QED
        BY <2>3, <2>4, <2>6
<1>4. SearchState /\ FillState /\ BlocksAboveImage /\ FirstFit
    BY DEF SearchState, FillState, BlocksAboveImage, FirstFit, NoCall
<1> QED
    BY <1>2, <1>3, <1>4 DEF Inv

LEMMA AllocateInv == ASSUME Inv, NEW n \in Requests, MmVmAllocate(n) PROVE Inv'
<1> USE ConstantsAssumption DEF Inv, MmVmAllocate, NoCall
<1>1. TypeOK'
    <2>1. call' = [at |-> "search", pages |-> n, i |-> 0, startingPage |-> 0,
                   pageCounter |-> 0]
        OBVIOUS
    <2>2. 0 \in 0..KernelPages
        OBVIOUS
    <2> QED
        BY <2>1, <2>2 DEF TypeOK
<1>2. FramesNotShared' /\ FramesBelowTop' /\ ImageStaysMapped'
    BY DEF FramesNotShared, FramesBelowTop, ImageStaysMapped
<1>3. SearchState' /\ FillState' /\ BlocksAboveImage' /\ FirstFit'
    BY DEF SearchState, FillState, BlocksAboveImage, FirstFit
<1> QED
    BY <1>1, <1>2, <1>3

LEMMA NoFitMeansNoFit ==
    ASSUME NEW s \in Nat, NEW n \in Nat PROVE NoFit(s, n) <=> ~Fits(s, n)
BY DEF NoFit, Fits

\* What Counted keeps true of a search that goes on.
LEMMA CountedRun ==
    ASSUME Inv, call.at = "search", call.i < KernelPages
    PROVE  /\ Counted \in [at : {"search"}, pages : Requests \cup {0},
                           i : 0..KernelPages, startingPage : 0..KernelPages,
                           pageCounter : 0..KernelPages]
           /\ Counted.pages = call.pages /\ Counted.i = call.i
           /\ Counted.startingPage # 0 =>
                  /\ Counted.startingPage >= KernelSizePages
                  /\ Counted.startingPage + Counted.pageCounter = call.i + 1
                  /\ Counted.pageCounter \in Nat \ {0}
                  /\ \A p \in Counted.startingPage..call.i : ~Present[p]
                  /\ call.pages # 0 => Counted.pageCounter <= call.pages
           /\ call.pages # 0 =>
                  /\ Counted.startingPage = 0 =>
                         \A s \in 1..call.i : NoFit(s, call.pages)
                  /\ \A s \in 1..(Counted.startingPage - 1) :
                         NoFit(s, call.pages)
<1> USE ConstantsAssumption DEF Inv
<1>1. /\ call.i \in Pages /\ call.pages \in Nat
      /\ call.startingPage \in 0..KernelPages
      /\ call.pageCounter \in 0..KernelPages
      /\ call \in [at : {"search"}, pages : Requests \cup {0},
                   i : 0..KernelPages, startingPage : 0..KernelPages,
                   pageCounter : 0..KernelPages]
      /\ 0 \in 0..KernelPages
    <2>1. call \in [at : {"search"}, pages : Requests \cup {0},
                    i : 0..KernelPages, startingPage : 0..KernelPages,
                    pageCounter : 0..KernelPages]
        BY DEF TypeOK
    <2>2. call.pages \in Requests \cup {0}
        BY <2>1
    <2>3. call.pages \in Nat
        BY <2>2, RequestsAreNumbers
    <2> QED
        BY <2>1, <2>3 DEF Pages
<1>2. call.i < KernelSizePages => Present[call.i]
    BY <1>1 DEF ImageStaysMapped, ImagePages
<1>3. CASE Present[call.i]
    <2>1. /\ Counted = [call EXCEPT !.startingPage = 0, !.pageCounter = 0]
          /\ Counted.startingPage = 0 /\ Counted.pages = call.pages
          /\ Counted.i = call.i
        BY <1>1, <1>3 DEF Counted
    <2>2. ASSUME call.pages # 0, NEW s \in 1..call.i PROVE NoFit(s, call.pages)
        <3>1. CASE s < call.startingPage
            BY <2>2, <3>1, <1>1 DEF SearchState
        <3>2. CASE call.startingPage = 0 /\ s < call.i
            BY <2>2, <3>2, <1>1 DEF SearchState, Pages
        <3>3. CASE s = call.i \/ (call.startingPage # 0
                                  /\ call.startingPage <= s)
            <4>1. call.i \in s..(s + call.pages - 1)
                BY <2>2, <3>3, <1>1 DEF SearchState, Pages
            <4> QED
                BY <4>1, <1>3 DEF NoFit
        <3> QED
            BY <3>1, <3>2, <3>3, <1>1 DEF Pages
    <2>3. Counted \in [at : {"search"}, pages : Requests \cup {0},
                       i : 0..KernelPages, startingPage : 0..KernelPages,
                       pageCounter : 0..KernelPages]
        BY <1>1, <2>1
    <2> QED
        BY <1>1, <2>1, <2>2, <2>3
<1>4. CASE ~Present[call.i] /\ call.startingPage = 0
    <2>1. /\ Counted = [call EXCEPT !.startingPage = call.i, !.pageCounter = 1]
          /\ Counted.startingPage = call.i /\ Counted.pages = call.pages
          /\ Counted.i = call.i /\ Counted.pageCounter = 1
        BY <1>1, <1>4 DEF Counted
    <2>2. call.pages # 0 =>
              \A s \in 1..(call.i - 1) : NoFit(s, call.pages)
        BY <1>4 DEF SearchState
    <2>3. call.i >= KernelSizePages
        BY <1>1, <1>2, <1>4 DEF Pages
    <2>4. 1 \in 0..KernelPages
        OBVIOUS
    <2>5. Counted \in [at : {"search"}, pages : Requests \cup {0},
                       i : 0..KernelPages, startingPage : 0..KernelPages,
                       pageCounter : 0..KernelPages]
        BY <1>1, <2>1, <2>4
    <2>6. call.i # 0 /\ call.i + 1 = Counted.startingPage + Counted.pageCounter
        BY <1>1, <2>1, <2>3 DEF Pages
    <2> QED
        BY <1>1, <1>4, <2>1, <2>2, <2>3, <2>5, <2>6 DEF Pages
<1>5. CASE ~Present[call.i] /\ call.startingPage # 0
    <2>1. /\ Counted = [call EXCEPT !.pageCounter = call.pageCounter + 1]
          /\ Counted.startingPage = call.startingPage
          /\ Counted.pages = call.pages
          /\ Counted.i = call.i /\ Counted.pageCounter = call.pageCounter + 1
        BY <1>1, <1>5 DEF Counted
    <2>2. call.startingPage + call.pageCounter + 1 = call.i + 1
        BY <1>1, <1>5 DEF SearchState, Pages
    <2> QED
        BY <1>1, <1>5, <2>1, <2>2 DEF SearchState, Pages
<1> QED
    BY <1>3, <1>4, <1>5

LEMMA SearchInv == Inv /\ SearchTurn => Inv'
<1> SUFFICES ASSUME Inv, SearchTurn PROVE Inv'
    OBVIOUS
<1> USE ConstantsAssumption
<1>1. /\ call.at = "search"
      /\ UNCHANGED <<MmPmBitmap, MmPmBitmapTop, Present, PhysAddress, blocks>>
      /\ call \in [at : {"idle", "search", "fill", "panic"},
                   pages : Requests \cup {0}, i : 0..KernelPages,
                   startingPage : 0..KernelPages, pageCounter : 0..KernelPages]
    BY DEF SearchTurn, Inv, TypeOK
<1>2. SUFFICES /\ call' \in [at : {"idle", "search", "fill", "panic"},
                             pages : Requests \cup {0}, i : 0..KernelPages,
                             startingPage : 0..KernelPages,
                             pageCounter : 0..KernelPages]
               /\ SearchState' /\ FillState' /\ FirstFit'
    <2>1. TypeOK'
        BY <1>1, <1>2 DEF Inv, TypeOK
    <2>2. FramesNotShared' /\ FramesBelowTop' /\ ImageStaysMapped'
          /\ BlocksAboveImage'
        BY <1>1 DEF Inv, FramesNotShared, FramesBelowTop, ImageStaysMapped,
                    BlocksAboveImage
    <2> QED
        BY <1>2, <2>1, <2>2 DEF Inv
<1>3. CASE call.i = KernelPages
    <2>1. /\ call' = [call EXCEPT !.at = "panic"]
          /\ call'.at = "panic" /\ call'.i = KernelPages
          /\ call'.pages = call.pages
        BY <1>1, <1>3 DEF SearchTurn
    <2>2. ASSUME call.pages > 0, NEW s \in 1..KernelPages
          PROVE  ~Fits(s, call.pages)
        <3>1. call.pages \in Nat /\ s \in Nat
            <4>1. call.pages \in Requests \cup {0}
                BY <1>1
            <4>2. call.pages \in Nat
                BY <4>1, RequestsAreNumbers
            <4> QED
                BY <4>2
        <3>2. CASE s < KernelPages
                   /\ (call.startingPage = 0 \/ s < call.startingPage)
            <4>1. NoFit(s, call.pages)
                BY <1>1, <1>3, <2>2, <3>2, <3>1 DEF Inv, SearchState
            <4> QED
                BY <3>1, <4>1, NoFitMeansNoFit
        <3>3. CASE s = KernelPages \/ (call.startingPage # 0
                                       /\ call.startingPage <= s)
            <4>1. KernelPages \in s..(s + call.pages - 1)
                BY <1>1, <1>3, <2>2, <3>1, <3>3 DEF Inv, SearchState
            <4>2. KernelPages \notin Pages
                BY DEF Pages
            <4> QED
                BY <4>1, <4>2 DEF Fits
        <3> QED
            BY <1>1, <3>1, <3>2, <3>3
    <2>3. FirstFit'
        BY <1>1, <2>1, <2>2 DEF FirstFit, Fits
    <2> QED
        BY <1>1, <2>1, <2>3 DEF SearchState, FillState
<1>4. CASE call.i # KernelPages /\ Counted.startingPage # 0
           /\ Counted.pageCounter = call.pages
    <2> DEFINE c == Counted
    <2>1. call.i < KernelPages
        BY <1>1, <1>4
    <2>2. /\ c \in [at : {"search"}, pages : Requests \cup {0},
                    i : 0..KernelPages, startingPage : 0..KernelPages,
                    pageCounter : 0..KernelPages]
          /\ c.pages = call.pages /\ c.i = call.i
          /\ c.startingPage # 0 /\ c.startingPage >= KernelSizePages
          /\ c.startingPage + call.pages = call.i + 1
          /\ call.pages \in Nat \ {0}
          /\ \A p \in c.startingPage..call.i : ~Present[p]
          /\ \A s \in 1..(c.startingPage - 1) : NoFit(s, call.pages)
        BY <1>1, <1>4, <2>1, CountedRun
    <2> HIDE DEF c
    <2>3. call' = [c EXCEPT !.at = "fill", !.i = c.startingPage]
        BY <1>4, <2>2 DEF SearchTurn, c
    <2>4. /\ call'.at = "fill" /\ call'.i = c.startingPage
          /\ call'.startingPage = c.startingPage /\ call'.pages = call.pages
          /\ call' \in [at : {"fill"}, pages : Requests \cup {0},
                        i : 0..KernelPages, startingPage : 0..KernelPages,
                        pageCounter : 0..KernelPages]
        BY <2>2, <2>3
    <2>5. c.startingPage \in Nat /\ call.i \in Nat
          /\ c.startingPage + call.pages - 1 = call.i
        BY <1>1, <2>2
    <2>6. Fits(c.startingPage, call.pages)
        BY <2>1, <2>2, <2>5 DEF Fits, Pages
    <2>7. \A s \in 1..(c.startingPage - 1) : ~Fits(s, call.pages)
        BY <2>2, <2>5, NoFitMeansNoFit
    <2>8. FirstFit'
        BY <1>1, <2>4, <2>6, <2>7 DEF FirstFit, Fits
    <2>9. FillState'
        BY <1>1, <2>1, <2>2, <2>4, <2>5 DEF FillState
    <2> QED
        BY <2>4, <2>8, <2>9 DEF SearchState
<1>5. CASE call.i # KernelPages /\ ~(Counted.startingPage # 0
                                     /\ Counted.pageCounter = call.pages)
    <2> DEFINE c == Counted
    <2>1. call.i < KernelPages
        BY <1>1, <1>5
    <2>2. /\ c \in [at : {"search"}, pages : Requests \cup {0},
                    i : 0..KernelPages, startingPage : 0..KernelPages,
                    pageCounter : 0..KernelPages]
          /\ c.pages = call.pages /\ c.i = call.i
          /\ c.startingPage # 0 =>
                 /\ c.startingPage >= KernelSizePages
                 /\ c.startingPage + c.pageCounter = call.i + 1
                 /\ c.pageCounter \in Nat \ {0}
                 /\ \A p \in c.startingPage..call.i : ~Present[p]
                 /\ call.pages # 0 => c.pageCounter < call.pages
          /\ call.pages # 0 =>
                 /\ c.startingPage = 0 =>
                        \A s \in 1..call.i : NoFit(s, call.pages)
                 /\ \A s \in 1..(c.startingPage - 1) : NoFit(s, call.pages)
        <3>1. call.pages \in Nat
            <4>1. call.pages \in Requests \cup {0}
                BY <1>1
            <4> QED
                BY <4>1, RequestsAreNumbers
        <3> QED
            BY <1>1, <1>5, <2>1, <3>1, CountedRun
    <2>3. call' = [c EXCEPT !.i = c.i + 1]
        BY <1>5 DEF SearchTurn
    <2> HIDE DEF c
    <2>4. /\ call'.at = "search" /\ call'.i = call.i + 1
          /\ call'.startingPage = c.startingPage
          /\ call'.pageCounter = c.pageCounter /\ call'.pages = call.pages
          /\ call' \in [at : {"search"}, pages : Requests \cup {0},
                        i : 0..KernelPages, startingPage : 0..KernelPages,
                        pageCounter : 0..KernelPages]
        BY <1>1, <2>1, <2>2, <2>3
    <2>5. call.i \in Nat /\ (call.i + 1) - 1 = call.i
        BY <1>1
    <2>6. SearchState'
        BY <1>1, <2>2, <2>4, <2>5 DEF SearchState, NoFit
    <2> QED
        BY <2>4, <2>6 DEF FillState, FirstFit
<1> QED
    BY <1>3, <1>4, <1>5

LEMMA FillInv == Inv /\ FillTurn => Inv'
<1> SUFFICES ASSUME Inv, FillTurn PROVE Inv'
    OBVIOUS
<1> USE ConstantsAssumption
<1>1. /\ call.at = "fill" /\ UNCHANGED blocks
      /\ call.startingPage \in Nat /\ call.i \in Nat /\ call.pages \in Nat
      /\ call.startingPage >= KernelSizePages
      /\ call.startingPage <= call.i
      /\ call.i < call.startingPage + call.pages
      /\ call.startingPage + call.pages <= KernelPages
      /\ \A p \in call.i..(call.startingPage + call.pages - 1) : ~Present[p]
    <2>1. call.pages \in Requests \cup {0}
        BY DEF Inv, TypeOK
    <2>2. call.pages \in Nat
        BY <2>1, RequestsAreNumbers
    <2> QED
        BY <2>2 DEF FillTurn, Inv, FillState, TypeOK
<1>2. /\ call.i \in Pages /\ call.i \notin ImagePages
      /\ Present' = [Present EXCEPT ![call.i] = TRUE]
      /\ Present' \in [Pages -> BOOLEAN]
    <2>1. call.i \in Pages /\ call.i \notin ImagePages
        BY <1>1 DEF Pages, ImagePages
    <2> QED
        BY <2>1 DEF FillTurn, Inv, TypeOK
<1>3. BlocksAboveImage'
    BY <1>1 DEF Inv, BlocksAboveImage
<1>4. ASSUME NEW f \in Candidates, MmPmAllocate(f),
             PhysAddress' = [PhysAddress EXCEPT ![call.i] = f],
             call' = [call EXCEPT !.i = call.i + 1]
      PROVE  Inv'
    <2>1. /\ f \in Frames /\ f >= MmPmBitmapTop /\ MmPmBitmapTop' = f + 1
          /\ MmPmBitmapTop \in Nat /\ f \in Nat
          /\ MmPmBitmapTop' \in 0..MM_BITMAP_SIZE
          /\ MmPmBitmap' \in [Frames -> 0..3]
        <3>1. MmPmBitmapTop \in Nat /\ MmPmBitmap \in [Frames -> 0..3]
            BY DEF Inv, TypeOK
        <3>2. f \in Frames /\ f >= MmPmBitmapTop
            BY DEF Candidates
        <3>3. MmPmBitmapTop' = f + 1 /\ MmPmSetBitmapValue(f, MmPmPageUsed)
            BY ONLY <1>4 DEF MmPmAllocate
        <3>4. f + 1 \in 0..MM_BITMAP_SIZE /\ f \in Nat
            BY <3>2 DEF Frames
        <3>5. MmPmBitmap' \in [Frames -> 0..3]
            <4>1. MmPmBitmap' = [g \in Frames |->
                      IF g \div 4 # f \div 4 THEN MmPmBitmap[g]
                      ELSE IF g = f THEN MmPmPageUsed ELSE MmPmPageFree]
                BY ONLY <3>3 DEF MmPmSetBitmapValue
            <4>2. \A g \in Frames : \/ MmPmBitmap'[g] = MmPmBitmap[g]
                                    \/ MmPmBitmap'[g] \in {MmPmPageUsed, MmPmPageFree}
                BY ONLY <4>1
            <4>3. MmPmPageUsed \in 0..3 /\ MmPmPageFree \in 0..3
                BY DEF MmPmPageUsed, MmPmPageFree
            <4>4. \A g \in Frames : MmPmBitmap'[g] \in 0..3
                BY ONLY <3>1, <4>2, <4>3
            <4> QED
                BY ONLY <4>1, <4>4
        <3> QED
            BY ONLY <3>1, <3>2, <3>3, <3>4, <3>5
    <2>2. /\ call'.at = "fill" /\ call'.i = call.i + 1
          /\ call'.startingPage = call.startingPage /\ call'.pages = call.pages
          /\ call' \in [at : {"idle", "search", "fill", "panic"},
                        pages : Requests \cup {0}, i : 0..KernelPages,
                        startingPage : 0..KernelPages,
                        pageCounter : 0..KernelPages]
        <3>1. call.i + 1 \in 0..KernelPages
            BY <1>1
        <3> QED
            BY <1>1, <1>4, <3>1 DEF Inv, TypeOK
    <2>3. TypeOK'
        BY <1>1, <1>2, <1>4, <2>1, <2>2 DEF Inv, TypeOK
    <2>4. \A p \in Pages :
              /\ PhysAddress[p] \in Frames
              /\ PhysAddress'[p] = IF p = call.i THEN f ELSE PhysAddress[p]
        BY <1>2, <1>4 DEF Inv, TypeOK
    <2>5. FramesBelowTop'
        BY <1>2, <2>1, <2>4 DEF Inv, FramesBelowTop, Frames
    <2>6. FramesNotShared'
        <3>1. \A p \in Pages \ ImagePages : PhysAddress[p] # f
            BY <2>1, <2>4 DEF Inv, FramesBelowTop, Frames
        <3> QED
            BY <1>2, <2>4, <3>1 DEF Inv, FramesNotShared
    <2>7. ImageStaysMapped'
        <3>1. \A p \in ImagePages : p \in Pages /\ p # call.i
            BY <1>2 DEF ImagePages, Pages
        <3>2. \A p \in ImagePages : Present'[p] = Present[p]
            BY <1>2, <3>1 DEF Inv, TypeOK
        <3> QED
            BY <2>4, <3>1, <3>2 DEF Inv, ImageStaysMapped
    <2>8. FillState'
        <3>1. \A p \in (call.i + 1)..(call.startingPage + call.pages - 1) :
                  p \in Pages /\ p # call.i /\ ~Present[p]
            BY <1>1 DEF Pages
        <3>2. \A p \in (call.i + 1)..(call.startingPage + call.pages - 1) :
                  ~Present'[p]
            BY <1>2, <3>1 DEF Inv, TypeOK
        <3> QED
            BY <1>1, <2>2, <3>2 DEF FillState
    <2>9. SearchState' /\ FirstFit'
        BY <1>1, <2>2 DEF SearchState, FirstFit
    <2> QED
        BY <1>3, <2>3, <2>5, <2>6, <2>7, <2>8, <2>9 DEF Inv
<1>5. ASSUME call' = [call EXCEPT !.at = "panic"],
             UNCHANGED <<MmPmBitmap, MmPmBitmapTop, PhysAddress>>
      PROVE  Inv'
    <2>1. /\ call'.at = "panic" /\ call'.i = call.i /\ call'.i # KernelPages
          /\ call' \in [at : {"idle", "search", "fill", "panic"},
                        pages : Requests \cup {0}, i : 0..KernelPages,
                        startingPage : 0..KernelPages,
                        pageCounter : 0..KernelPages]
        BY <1>1, <1>5 DEF Inv, TypeOK
    <2>2. TypeOK'
        BY <1>1, <1>2, <1>5, <2>1 DEF Inv, TypeOK
    <2>3. FramesNotShared' /\ FramesBelowTop'
        BY <1>5 DEF Inv, FramesNotShared, FramesBelowTop
    <2>4. ImageStaysMapped'
        <3>1. \A p \in ImagePages : p \in Pages /\ p # call.i
            BY <1>2 DEF ImagePages, Pages
        <3>2. \A p \in ImagePages : Present'[p] = Present[p]
            BY <1>2, <3>1 DEF Inv, TypeOK
        <3> QED
            BY <1>5, <3>2 DEF Inv, ImageStaysMapped
    <2>5. SearchState' /\ FillState' /\ FirstFit'
        BY <2>1 DEF SearchState, FillState, FirstFit
    <2> QED
        BY <1>3, <2>2, <2>3, <2>4, <2>5 DEF Inv
<1> QED
    BY <1>4, <1>5 DEF FillTurn

LEMMA ReturnInv == Inv /\ Return => Inv'
<1> SUFFICES ASSUME Inv, Return PROVE Inv'
    OBVIOUS
<1> USE ConstantsAssumption
<1>1. /\ UNCHANGED <<MmPmBitmap, MmPmBitmapTop, Present, PhysAddress>>
      /\ call' = [at |-> "idle", pages |-> 0, i |-> 0, startingPage |-> 0,
                  pageCounter |-> 0]
      /\ call.startingPage \in Nat
      /\ call.startingPage >= KernelSizePages
      /\ call.at = "fill" /\ call.i = call.startingPage + call.pages
    BY DEF Return, NoCall, Inv, TypeOK, FillState
<1>2. call.pages \in Requests \cup {0}
    BY DEF Inv, TypeOK
<1>3. TypeOK' /\ BlocksAboveImage'
    <2> DEFINE b == [page |-> call.startingPage + VariablePage,
                     pages |-> call.pages]
    <2>1. blocks' = blocks \cup {b} /\ b \in [page : Nat, pages : Requests \cup {0}]
        BY <1>1, <1>2 DEF Return
    <2>2. b.page >= KernelSizePages
        BY <1>1
    <2>3. 0 \in 0..KernelPages
        OBVIOUS
    <2>4. TypeOK'
        BY <1>1, <2>1, <2>3 DEF Inv, TypeOK
    <2>5. BlocksAboveImage'
        BY <2>1, <2>2 DEF Inv, BlocksAboveImage
    <2> QED
        BY <2>4, <2>5
<1>4. FramesNotShared' /\ FramesBelowTop' /\ ImageStaysMapped'
    BY <1>1 DEF Inv, FramesNotShared, FramesBelowTop, ImageStaysMapped
<1>5. SearchState' /\ FillState' /\ FirstFit'
    BY <1>1 DEF SearchState, FillState, FirstFit
<1> QED
    BY <1>3, <1>4, <1>5 DEF Inv

LEMMA FreeInv == ASSUME Inv, NEW b \in blocks, MmVmFree(b) PROVE Inv'
<1> USE ConstantsAssumption
<1> DEFINE freed == b.page..(b.page + b.pages - 1)
<1>1. /\ call.at = "idle" /\ UNCHANGED <<MmPmBitmap, MmPmBitmapTop, call>>
      /\ blocks' \subseteq blocks
      /\ Present' = [p \in Pages |-> Present[p] /\ p \notin freed]
      /\ PhysAddress' = [p \in Pages |->
                            IF p \in freed THEN 0 ELSE PhysAddress[p]]
    BY DEF MmVmFree
<1>2. \A p \in ImagePages : p \in Pages /\ p \notin freed
    <2>1. b.page >= KernelSizePages /\ b.page \in Nat
        BY DEF Inv, BlocksAboveImage, TypeOK
    <2>2. ASSUME NEW p \in ImagePages PROVE p \in Pages /\ p < b.page /\ p \in Nat
        BY <2>1 DEF ImagePages, Pages
    <2>3. ASSUME NEW p \in freed PROVE b.page <= p
        OBVIOUS
    <2> QED
        BY <2>1, <2>2, <2>3
<1> HIDE DEF freed
<1>3. TypeOK'
    <2>1. Present' \in [Pages -> BOOLEAN]
        BY <1>1
    <2>2. ASSUME NEW p \in Pages PROVE PhysAddress'[p] \in Frames
        <3>1. 0 \in Frames /\ PhysAddress[p] \in Frames
            BY DEF Inv, TypeOK, Frames
        <3> QED
            BY <1>1, <3>1
    <2>3. PhysAddress' \in [Pages -> Frames]
        BY <1>1, <2>2
    <2> QED
        BY <1>1, <2>1, <2>3 DEF Inv, TypeOK
<1>4. FramesNotShared'
    BY <1>1 DEF Inv, FramesNotShared
<1>5. FramesBelowTop'
    <2>1. \A p \in Pages : PhysAddress[p] \in Nat /\ MmPmBitmapTop \in Nat
        BY DEF Inv, TypeOK, Frames
    <2>2. ASSUME NEW p \in Pages \ ImagePages
          PROVE  PhysAddress'[p] < MmPmBitmapTop'
        <3>1. PhysAddress[p] < MmPmBitmapTop
            BY DEF Inv, FramesBelowTop
        <3>2. 0 < MmPmBitmapTop
            BY <2>1, <3>1
        <3> QED
            BY <1>1, <3>1, <3>2
    <2> QED
        BY <2>2 DEF FramesBelowTop
<1>6. ImageStaysMapped'
    <2>1. ASSUME NEW p \in ImagePages
          PROVE  Present'[p] /\ PhysAddress'[p] = FirstImageFrame + p
        <3>1. Present[p] /\ PhysAddress[p] = FirstImageFrame + p
            BY DEF Inv, ImageStaysMapped
        <3>2. p \in Pages /\ p \notin freed
            BY <1>2
        <3>3. Present'[p]
            BY <1>1, <3>1, <3>2, Zenon
        <3>4. PhysAddress'[p] = PhysAddress[p]
            BY <1>1, <3>2
        <3> QED
            BY <3>1, <3>3, <3>4
    <2> QED
        BY <2>1 DEF ImageStaysMapped
<1>7. SearchState' /\ FillState' /\ FirstFit'
    BY <1>1 DEF SearchState, FillState, FirstFit
<1>8. BlocksAboveImage'
    BY <1>1 DEF Inv, BlocksAboveImage
<1> QED
    BY <1>3, <1>4, <1>5, <1>6, <1>7, <1>8 DEF Inv

LEMMA SpecInv == Spec => []Inv
<1>1. Inv /\ [Next]_vars => Inv'
    <2> SUFFICES ASSUME Inv, [Next]_vars PROVE Inv'
        OBVIOUS
    <2>1. CASE UNCHANGED vars
        BY <2>1 DEF vars, Inv, TypeOK, FramesNotShared, FramesBelowTop,
                    ImageStaysMapped, SearchState, FillState, BlocksAboveImage,
                    FirstFit, NoFit, Fits
    <2> QED
        BY <2>1, AllocateInv, SearchInv, FillInv, ReturnInv, FreeInv DEF Next
<1> QED
    BY <1>1, InitInv, PTL DEF Spec

\* The state of the allocators is always of its types: in particular every
\* page number stays inside KernelPageTables.
THEOREM TypeCorrect == Spec => []TypeOK
<1>1. Inv => TypeOK
    BY DEF Inv
<1> QED
    BY <1>1, SpecInv, PTL

\* However MmPmSetBitmapValue spoils the bitmap, MmVmAllocate never maps a page
\* frame it has mapped before.
THEOREM FramesDistinct == Spec => []FramesNotShared
<1>1. Inv => FramesNotShared
    BY DEF Inv
<1> QED
    BY <1>1, SpecInv, PTL

\* No sequence of MmVmAllocate and MmVmFree unmaps or remaps the kernel image.
THEOREM ImageSafe == Spec => []ImageStaysMapped
<1>1. Inv => ImageStaysMapped
    BY DEF Inv
<1> QED
    BY <1>1, SpecInv, PTL

\* The loop of MmVmAllocate computes first fit above page 0, and panics only if
\* nothing fits.
THEOREM SearchIsFirstFit == Spec => []FirstFit
<1>1. Inv => FirstFit
    BY DEF Inv
<1> QED
    BY <1>1, SpecInv, PTL

\* Frame 0 is never handed out, and the fill loop leaves no page behind it
\* without a frame.
Filled ==
    /\ MmPmBitmapTop > 0
    /\ call.at = "fill" => \A p \in call.startingPage..(call.i - 1) :
                              Present[p] /\ PhysAddress[p] # 0

LEMMA FilledFill ==
    ASSUME Inv, Filled, FillTurn
    PROVE  Filled'
<1> USE DEF Inv, TypeOK
<1>1. /\ call.at = "fill" /\ call.i \in Nat /\ call.startingPage \in Nat
      /\ call.i < call.startingPage + call.pages
      /\ call.startingPage + call.pages <= KernelPages
      /\ call.i < KernelPages
      /\ Present' = [Present EXCEPT ![call.i] = TRUE]
    BY RequestsAreNumbers, ConstantsAssumption DEF FillTurn, FillState
<1>2. call.i \in Pages
    BY <1>1, ConstantsAssumption DEF Pages
<1>3. ASSUME NEW f \in Candidates, MmPmAllocate(f),
             PhysAddress' = [PhysAddress EXCEPT ![call.i] = f],
             call' = [call EXCEPT !.i = @ + 1]
      PROVE  Filled'
    <2>1. f \in Nat /\ f > 0 /\ MmPmBitmapTop' = f + 1
        BY <1>3 DEF MmPmAllocate, Candidates, Frames, Filled
    <2>2. call'.startingPage = call.startingPage /\ call'.i = call.i + 1
        BY <1>3
    <2>3. ASSUME NEW p \in call.startingPage..call.i
          PROVE  Present'[p] /\ PhysAddress'[p] # 0
        <3>1. CASE p = call.i
            BY <1>1, <1>2, <1>3, <2>1, <3>1
        <3>2. CASE p # call.i
            <4>1. p \in call.startingPage..(call.i - 1)
                BY <1>1, <3>2
            <4>2. Present[p] /\ PhysAddress[p] # 0
                BY <1>1, <4>1 DEF Filled
            <4>3. Present'[p] = Present[p] /\ PhysAddress'[p] = PhysAddress[p]
                BY <1>1, <1>3, <3>2
            <4> QED
                BY <4>2, <4>3
        <3> QED
            BY <3>1, <3>2
    <2> QED
        BY <1>1, <2>1, <2>2, <2>3 DEF Filled
<1>4. ASSUME call' = [call EXCEPT !.at = "panic"],
             UNCHANGED <<MmPmBitmap, MmPmBitmapTop, PhysAddress>>
      PROVE  Filled'
    BY <1>4 DEF Filled
<1> QED
    BY <1>3, <1>4 DEF FillTurn

LEMMA FilledSearch ==
    ASSUME Inv, Filled, SearchTurn
    PROVE  Filled'
<1> USE DEF Inv, TypeOK
<1>1. ASSUME call'.at = "fill" PROVE call'.i = call'.startingPage
    BY <1>1 DEF SearchTurn, Counted
<1>2. call'.startingPage \in Nat
    BY RequestsAreNumbers, ConstantsAssumption DEF SearchTurn, Counted
<1>3. MmPmBitmapTop' > 0
    BY DEF SearchTurn, Filled
<1> QED
    BY <1>1, <1>2, <1>3 DEF Filled

LEMMA SpecFilled == Spec => []Filled
<1>1. Init => Filled
    BY ConstantsAssumption DEF Init, NoCall, Filled
<1>2. ASSUME Inv, Filled, [Next]_vars PROVE Filled'
    <2>1. CASE UNCHANGED vars
        BY <1>2, <2>1 DEF vars, Filled
    <2>2. ASSUME NEW n \in Requests, MmVmAllocate(n) PROVE Filled'
        BY <1>2, <2>2 DEF MmVmAllocate, NoCall, Filled
    <2>3. CASE SearchTurn
        BY <1>2, <2>3, FilledSearch
    <2>4. CASE FillTurn
        BY <1>2, <2>4, FilledFill
    <2>5. CASE Return
        BY <1>2, <2>5 DEF Return, NoCall, Filled
    <2>6. ASSUME NEW b \in blocks, MmVmFree(b) PROVE Filled'
        BY <1>2, <2>6 DEF MmVmFree, Filled
    <2> QED
        BY <1>2, <2>1, <2>2, <2>3, <2>4, <2>5, <2>6 DEF Next
<1> QED
    BY <1>1, <1>2, SpecInv, PTL DEF Spec

\* MmVmAllocate never returns a block with a hole: either each page has got a
\* frame, or MmPmAllocate has panicked, whatever is requested and freed.
THEOREM BlocksWhole == Spec => []BlockMapped
<1>1. ASSUME Inv, Filled PROVE BlockMapped
    <2> SUFFICES ASSUME call.at = "fill", call.i = call.startingPage + call.pages,
                        NEW p \in call.startingPage..(call.i - 1)
                 PROVE  p \in Pages /\ Present[p] /\ PhysAddress[p] # 0
        BY DEF BlockMapped
    <2>1. /\ call.startingPage \in Nat /\ call.i \in Nat
          /\ call.i <= KernelPages
        BY <1>1 DEF Inv, TypeOK, FillState
    <2> QED
        BY <1>1, <2>1, ConstantsAssumption DEF Filled, Pages
<1> QED
    BY <1>1, SpecInv, SpecFilled, PTL
=============================================================================
