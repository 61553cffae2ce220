---------------------------- MODULE PagingProofs ----------------------------
(***************************************************************************)
(* Proofs about page directories for every number and size of tables,      *)
(* every set of pages and rights, and whatever new memory holds.           *)
(*                                                                         *)
(* The kernel's own table never changes but at its end, where malloc grows *)
(* it: a page of kernel space lies in the frame behind its number, under   *)
(* every directory.  Each frame is the kernel's, a directory, a table that *)
(* at most one directory entry leads to, or data; only the four stores at  *)
(* the end of a call go into a table, the one its page belongs to.         *)
(***************************************************************************)
EXTENDS Paging, TLAPS

Rights  == SUBSET {"User", "Writable"}
Entries == [Present : BOOLEAN, PhysAddress : Frames, Rights : Rights]

UserSpace == TableSize..(Kernel * TableSize - 1)

\* The frame that a page of kernel space lies in.
FrameAt(page) == (page % TableSize) + 1

IsDirectory(f) == KernelPage(f - 1) \in directories

\* Frames of the pages malloc has handed out for tables.
TableFrames == { f \in 4..(3 + heapTop) : ~IsDirectory(f) }

\* The directory entry for the page of the call.
CallEntry == mem[FrameAt(call.pde)][call.virt \div TableSize]

KernelTables ==
    /\ \A i \in Indices : mem[ZeroIdentityPage][i] = To(i)
    /\ \A i \in Indices : mem[KernelPageTables][i] =
                              IF i < 3 + heapTop THEN To(i + 1) ELSE Absent

Directories ==
    /\ KernelPage(1) \in directories
    /\ \A pd \in directories : \E f \in {2} \cup 4..(3 + heapTop) :
           pd = KernelPage(f - 1)
    /\ CurrentPageDirectory \in directories
    /\ CurrentPageDirectoryPhys = FrameAt(CurrentPageDirectory)

\* Nothing has been made of the entry yet, or it leads to a table.
Unused(entry) == entry \in {Absent, leftover}
Linked(entry) == entry.Present /\ entry.PhysAddress \in TableFrames

BasicEntries ==
    \A pd \in directories :
        /\ mem[FrameAt(pd)][0] = To(ZeroIdentityPage)
        /\ mem[FrameAt(pd)][Kernel] = To(KernelPageTables)

UserEntries ==
    \A pd \in directories, i \in 1..UserTables :
        \/ Unused(mem[FrameAt(pd)][i])
        \/ Linked(mem[FrameAt(pd)][i])

\* Tables, and whatever may be taken for one, lead to data at most.
TableEntries ==
    \A f \in Frames, i \in Indices :
        f \in {1, 3} \/ IsDirectory(f)
            \/ mem[f][i].PhysAddress \in {0, DataFrame}

TablesNotShared ==
    \A pd, qd \in directories, i, j \in 1..UserTables :
        /\ Linked(mem[FrameAt(pd)][i])
        /\ mem[FrameAt(pd)][i].PhysAddress = mem[FrameAt(qd)][j].PhysAddress
        => pd = qd /\ i = j

\* Memory that nothing has been stored in.
Fresh(f) == \A i \in Indices : mem[f][i] = leftover

HeapFresh == \A f \in (4 + heapTop)..(3 + HeapFrames) : Fresh(f)

\* The new table of a call is nowhere in use yet.
NewTable ==
    /\ FrameAt(call.table) \in TableFrames
    /\ call.table = KernelPage(FrameAt(call.table) - 1)
    /\ Fresh(FrameAt(call.table))
    /\ \A pd \in directories, i \in 1..UserTables :
           mem[FrameAt(pd)][i].PhysAddress # FrameAt(call.table)

CallInv ==
    /\ call.at \in {"entry", "malloc", "enter", "entered"} \cup Fields
           \/ (call.at = "done" /\ call.op # "mmap")
       => call.pde \in directories /\ call.virt \in UserSpace
    /\ call.at \in {"malloc", "enter"} => Unused(CallEntry)
    /\ call.at = "enter" => NewTable
    /\ call.at \in {"entered"} \cup Fields => Linked(CallEntry)
    /\ call.at \in Fields => call.pte = CallEntry.PhysAddress
    /\ call.at \in {"malloc", "enter", "entered"} => call.op # "unmap"
    /\ call.at \in {"search", "check", "frame"} => call.op = "mmap"
    /\ call.at \in {"search", "check"} => call.i \in TableSize..(Kernel * TableSize)
    /\ call.at = "frame" => call.virt \in UserSpace
    /\ call.at = "done" /\ call.op = "mmap" => call.virt = NULL

Inv ==
    /\ TypeOK /\ KernelTables /\ Directories
    /\ BasicEntries /\ UserEntries /\ TableEntries /\ TablesNotShared
    /\ HeapFresh /\ CallInv

------------------------------------------------------------------------------
(* Numbers of pages and frames *)

LEMMA Sizes ==
    /\ TableSize \in Nat /\ TableSize > 3 /\ Kernel \in Nat /\ UserTables \in Nat
    /\ Kernel = UserTables + 1 /\ 2 <= Kernel /\ Kernel < TableSize
    /\ HeapFrames \in Nat /\ 3 + HeapFrames <= TableSize
    /\ DataFrame \in Nat /\ DataFrame > 3 + HeapFrames
BY ConstantsAssumption DEF Kernel

LEMMA FramesAreNumbers == Frames \subseteq Nat
BY Sizes DEF Frames, Indices

LEMMA PagesAreNumbers == Pages \subseteq Nat
BY DEF Pages

LEMMA DivMod ==
    ASSUME NEW v \in Nat, NEW t \in Nat \ {0}
    PROVE  /\ v \div t \in Nat /\ v % t \in 0..(t - 1)
           /\ v = t * (v \div t) + (v % t)
    OBVIOUS

LEMMA Quotient ==
    ASSUME NEW q \in Nat, NEW t \in Nat \ {0}, NEW r \in 0..(t - 1)
    PROVE  /\ q * t + r \in Nat
           /\ (q * t + r) \div t = q /\ (q * t + r) % t = r
    OBVIOUS

LEMMA QuotientBounds ==
    ASSUME NEW v \in Nat, NEW t \in Nat \ {0}, NEW q \in Nat
    PROVE  /\ v >= t => v \div t >= 1
           /\ v < q * t => v \div t < q
    OBVIOUS

LEMMA KernelPageParts ==
    ASSUME NEW i \in Indices
    PROVE  /\ KernelPage(i) \in Pages
           /\ KernelPage(i) \div TableSize = Kernel /\ KernelPage(i) % TableSize = i
           /\ FrameAt(KernelPage(i)) = i + 1
<1>1. Kernel \in Nat /\ TableSize \in Nat \ {0} /\ i \in 0..(TableSize - 1)
    BY Sizes DEF Indices
<1>2. /\ KernelPage(i) \in Nat
      /\ KernelPage(i) \div TableSize = Kernel /\ KernelPage(i) % TableSize = i
    BY <1>1, Quotient DEF KernelPage
<1>3. KernelPage(i) <= (Kernel + 1) * TableSize - 1
    BY <1>1 DEF KernelPage
<1> QED
    BY <1>1, <1>2, <1>3 DEF Pages, FrameAt

LEMMA PageParts ==
    ASSUME NEW v \in Pages
    PROVE  v \in Nat /\ v \div TableSize \in 0..Kernel /\ v % TableSize \in Indices
<1>1. v \in Nat /\ TableSize \in Nat \ {0} /\ v < (Kernel + 1) * TableSize
      /\ Kernel \in Nat
    BY Sizes DEF Pages
<1>2. v \div TableSize \in Nat /\ v % TableSize \in 0..(TableSize - 1)
    BY <1>1, DivMod
<1>3. v \div TableSize < Kernel + 1
    BY <1>1, QuotientBounds
<1> QED
    BY <1>1, <1>2, <1>3 DEF Indices

LEMMA UserPageParts ==
    ASSUME NEW v \in UserSpace
    PROVE  /\ v \in Pages /\ v \in Nat /\ v # NULL
           /\ v \div TableSize \in 1..UserTables /\ v \div TableSize \in Indices
           /\ v % TableSize \in Indices
<1>1. v \in Nat /\ TableSize \in Nat \ {0} /\ v < Kernel * TableSize
      /\ v >= TableSize /\ Kernel \in Nat
    BY Sizes DEF UserSpace
<1>2. v \div TableSize \in Nat /\ v % TableSize \in 0..(TableSize - 1)
    BY <1>1, DivMod
<1>3. v \div TableSize < Kernel /\ v \div TableSize >= 1
    BY <1>1, QuotientBounds
<1>4. v < (Kernel + 1) * TableSize
    BY <1>1
<1> QED
    BY <1>1, <1>2, <1>3, <1>4, Sizes DEF Indices, Pages, NULL

LEMMA UserPagesInSpace == UserPages \subseteq UserSpace
BY ConstantsAssumption DEF UserSpace

LEMMA WatchedInSpace == WatchedPages \subseteq UserPages /\ WatchedPages \subseteq UserSpace
BY UserPagesInSpace, ConstantsAssumption

LEMMA SamePage ==
    ASSUME NEW v \in Nat, NEW w \in Nat,
           v \div TableSize = w \div TableSize, v % TableSize = w % TableSize
    PROVE  v = w
<1>1. TableSize \in Nat \ {0}
    BY Sizes
<1>2. /\ v = TableSize * (v \div TableSize) + (v % TableSize)
      /\ w = TableSize * (w \div TableSize) + (w % TableSize)
    BY <1>1, DivMod
<1> QED
    BY <1>2

LEMMA LowPage ==
    ASSUME NEW f \in Indices
    PROVE  f \div TableSize = 0 /\ f % TableSize = f
<1>1. TableSize \in Nat \ {0} /\ f \in 0..(TableSize - 1)
    BY Sizes DEF Indices
<1> QED
    BY <1>1

LEMMA TableEnds ==
    /\ Kernel * TableSize \in Pages /\ TableSize \in UserSpace
    /\ Kernel * TableSize = KernelPage(0)
    /\ TableSize \div TableSize = 1 /\ TableSize % TableSize = 0
<1>1. 0 \in Indices
    BY Sizes DEF Indices
<1>2. Kernel * TableSize = KernelPage(0)
    BY Sizes DEF KernelPage
<1>3. TableSize <= Kernel * TableSize - 1
    BY Sizes
<1>4. TableSize \div TableSize = 1 /\ TableSize % TableSize = 0
    BY Sizes
<1> QED
    BY <1>1, <1>2, <1>3, <1>4, KernelPageParts, Sizes DEF UserSpace

------------------------------------------------------------------------------
(* What pointers lead to *)

\* The part of the invariant that the lemmas below need.
MemoryTyped ==
    /\ leftover \in Leftovers
    /\ mem \in [Frames -> [Indices -> Entries]]
    /\ heapTop \in 0..HeapFrames

Tables ==
    /\ MemoryTyped /\ KernelTables /\ Directories
    /\ BasicEntries /\ UserEntries /\ TableEntries

LEMMA KernelFrame ==
    ASSUME NEW f \in 1..(3 + heapTop), heapTop \in 0..HeapFrames
    PROVE  /\ f \in Frames /\ f # DataFrame
           /\ f - 1 \in Indices /\ f - 1 < 3 + heapTop
           /\ KernelPage(f - 1) \in Pages
           /\ KernelPage(f - 1) \div TableSize = Kernel
           /\ KernelPage(f - 1) % TableSize = f - 1
           /\ FrameAt(KernelPage(f - 1)) = f
<1>1. f - 1 \in Indices /\ f \in Frames /\ f # DataFrame /\ f - 1 + 1 = f
      /\ f - 1 < 3 + heapTop
    BY Sizes DEF Indices, Frames
<1> QED
    BY <1>1, KernelPageParts

\* A directory lies where its page number tells.
LEMMA DirectoryFrame ==
    ASSUME Tables, NEW pd \in directories
    PROVE  /\ FrameAt(pd) \in {2} \cup 4..(3 + heapTop)
           /\ FrameAt(pd) \in 1..(3 + heapTop)
           /\ FrameAt(pd) \in Frames /\ FrameAt(pd) # DataFrame
           /\ pd = KernelPage(FrameAt(pd) - 1) /\ pd \in Pages
           /\ pd \div TableSize = Kernel /\ pd % TableSize = FrameAt(pd) - 1
           /\ IsDirectory(FrameAt(pd))
           /\ FrameOf(pd) = FrameAt(pd)
<1>1. PICK f \in {2} \cup 4..(3 + heapTop) : pd = KernelPage(f - 1)
    BY DEF Tables, Directories
<1>2. heapTop \in 0..HeapFrames
    BY DEF Tables, MemoryTyped
<1>3. f \in 1..(3 + heapTop)
    BY <1>2, Sizes
<1>4. /\ f \in Frames /\ f # DataFrame /\ f - 1 \in Indices /\ f - 1 < 3 + heapTop
      /\ pd \in Pages /\ pd \div TableSize = Kernel /\ pd % TableSize = f - 1
      /\ FrameAt(pd) = f
    BY <1>1, <1>2, <1>3, KernelFrame
<1>5. mem[KernelPageTables][f - 1] = To(f - 1 + 1)
    BY <1>4 DEF Tables, KernelTables
<1>6. FrameOf(pd) = f
    BY <1>3, <1>4, <1>5 DEF FrameOf, To, Entry
<1> QED
    BY <1>1, <1>3, <1>4, <1>6 DEF IsDirectory

LEMMA Loaded ==
    ASSUME Tables
    PROVE  /\ CurrentPageDirectory \in directories
           /\ CurrentPageDirectoryPhys = FrameAt(CurrentPageDirectory)
           /\ CurrentPageDirectoryPhys \in Frames
BY DirectoryFrame DEF Tables, Directories

LEMMA KernelTableFrames == {1, 2, 3} \subseteq Frames /\ 0 \in Indices /\ 3 \in Indices
                           /\ Kernel \in Indices /\ 0 \in Frames /\ DataFrame \in Frames
BY Sizes DEF Frames, Indices

\* Two entries that grant Writable alone.
LEMMA WalkThrough ==
    ASSUME NEW d, NEW v, NEW f, NEW g,
           mem[d][v \div TableSize] = To(g), mem[g][v % TableSize] = To(f)
    PROVE  Walk(d, v) = [frame |-> f, rights |-> {"Writable"}]
<1>1. /\ mem[d][v \div TableSize].Present
      /\ mem[d][v \div TableSize].PhysAddress = g
      /\ mem[d][v \div TableSize].Rights = {"Writable"}
    BY DEF To, Entry
<1>2. /\ mem[g][v % TableSize].Present
      /\ mem[g][v % TableSize].PhysAddress = f
      /\ mem[g][v % TableSize].Rights = {"Writable"}
    BY DEF To, Entry
<1> QED
    BY <1>1, <1>2 DEF Walk

\* A pointer into kernel space leads to the frame behind its number.
LEMMA KernelWalk ==
    ASSUME Tables, NEW pd \in directories, NEW f \in 1..(3 + heapTop)
    PROVE  Walk(FrameAt(pd), KernelPage(f - 1)) = [frame |-> f, rights |-> {"Writable"}]
<1>1. heapTop \in 0..HeapFrames
    BY DEF Tables, MemoryTyped
<1>2. mem[FrameAt(pd)][Kernel] = To(3)
    BY DEF Tables, BasicEntries, KernelPageTables
<1>3. mem[3][f - 1] = To(f)
    <2>1. f - 1 \in Indices /\ f - 1 < 3 + heapTop /\ f - 1 + 1 = f
        BY <1>1, KernelFrame
    <2> QED
        BY <2>1 DEF Tables, KernelTables, KernelPageTables
<1> QED
    <2>1. /\ mem[FrameAt(pd)][KernelPage(f - 1) \div TableSize] = To(3)
          /\ mem[3][KernelPage(f - 1) % TableSize] = To(f)
        BY <1>1, <1>2, <1>3, KernelFrame
    <2> QED
        BY ONLY <2>1, WalkThrough

\* One into the first 4 MiB leads to the frame of the same number.
LEMMA LowWalk ==
    ASSUME Tables, NEW pd \in directories, NEW f \in Indices
    PROVE  Walk(FrameAt(pd), f) = [frame |-> f, rights |-> {"Writable"}]
<1>1. mem[FrameAt(pd)][0] = To(1)
    BY DEF Tables, BasicEntries, ZeroIdentityPage
<1>2. mem[1][f] = To(f)
    BY DEF Tables, KernelTables, ZeroIdentityPage
<1> QED
    <2>1. mem[FrameAt(pd)][f \div TableSize] = To(1) /\ mem[1][f % TableSize] = To(f)
        BY <1>1, <1>2, LowPage
    <2> QED
        BY ONLY <2>1, WalkThrough

LEMMA FrameIsNotNowhere ==
    ASSUME NEW f \in Frames, NEW r \in Rights
    PROVE  [frame |-> f, rights |-> r] # Nowhere /\ f # Nowhere
<1>1. [frame |-> f, rights |-> r] \in [frame : Frames, rights : Rights]
    OBVIOUS
<1>2. Nowhere \notin [frame : Frames, rights : Rights] /\ Nowhere \notin Nat
    BY ConstantsAssumption DEF Rights
<1>3. f \in Nat
    BY FramesAreNumbers
<1> QED
    BY ONLY <1>1, <1>2, <1>3

LEMMA PointersLead ==
    ASSUME Tables
    PROVE  /\ \A f \in 1..(3 + heapTop) : Deref(KernelPage(f - 1)) = f
           /\ \A f \in Indices \cap Frames : Deref(f) = f
           /\ \A pd \in directories : Deref(pd) = FrameAt(pd)
<1>1. ASSUME NEW f \in 1..(3 + heapTop)
      PROVE  Deref(KernelPage(f - 1)) = f
    <2>1. f \in Frames
        BY KernelFrame DEF Tables, MemoryTyped
    <2>2. Walk(CurrentPageDirectoryPhys, KernelPage(f - 1))
              = [frame |-> f, rights |-> {"Writable"}]
        BY Loaded, KernelWalk
    <2> QED
        BY <2>1, <2>2, FrameIsNotNowhere DEF Deref, Translate, Rights
<1>2. ASSUME NEW f \in Indices \cap Frames
      PROVE  Deref(f) = f
    <2>1. Walk(CurrentPageDirectoryPhys, f) = [frame |-> f, rights |-> {"Writable"}]
        BY Loaded, LowWalk
    <2> QED
        BY <2>1, FrameIsNotNowhere DEF Deref, Translate, Rights
<1>3. ASSUME NEW pd \in directories
      PROVE  Deref(pd) = FrameAt(pd)
    BY <1>1, DirectoryFrame
<1> QED
    BY <1>1, <1>2, <1>3

\* MmKernelPhysToVirt knows the kernel's frames and no others.
LEMMA PhysToVirt ==
    ASSUME Tables, NEW f \in Frames
    PROVE  MmKernelPhysToVirt(f) = IF f \in 1..(3 + heapTop) THEN f ELSE NULL
<1>1. heapTop \in 0..HeapFrames /\ f \in Nat
    BY FramesAreNumbers DEF Tables, MemoryTyped
<1>2. CASE f \in 1..(3 + heapTop)
    <2>1. f - 1 \in Indices /\ f - 1 < 3 + heapTop /\ f - 1 + 1 = f
        BY <1>1, <1>2, KernelFrame
    <2>2. mem[KernelPageTables][f - 1] = To(f)
        BY <2>1 DEF Tables, KernelTables
    <2>3. mem[KernelPageTables][f - 1].PhysAddress = f
        BY <2>2 DEF To, Entry
    <2> QED
        BY <1>2, <2>1, <2>3 DEF MmKernelPhysToVirt
<1>3. CASE f = 0
    BY <1>3 DEF MmKernelPhysToVirt, NULL
<1>4. CASE f # 0 /\ f \notin 1..(3 + heapTop)
    <2>1. ASSUME NEW i \in Indices
          PROVE  mem[KernelPageTables][i].PhysAddress # f
        <3>1. mem[KernelPageTables][i] = IF i < 3 + heapTop THEN To(i + 1) ELSE Absent
            BY DEF Tables, KernelTables
        <3>2. CASE i < 3 + heapTop
            <4>1. mem[KernelPageTables][i].PhysAddress = i + 1
                BY <3>1, <3>2 DEF To, Entry
            <4>2. i + 1 \in 1..(3 + heapTop)
                BY <1>1, <3>2 DEF Indices
            <4> QED
                BY <1>4, <4>1, <4>2
        <3>3. CASE ~(i < 3 + heapTop)
            BY <1>4, <3>1, <3>3 DEF Absent
        <3> QED
            BY <3>2, <3>3
    <2> QED
        BY <1>4, <2>1 DEF MmKernelPhysToVirt
<1> QED
    BY <1>1, <1>2, <1>3, <1>4

LEMMA MemTyped ==
    ASSUME Tables
    PROVE  /\ mem \in [Frames -> [Indices -> Entries]]
           /\ \A f \in Frames, i \in Indices : mem[f][i] \in Entries
<1>1. mem \in [Frames -> [Indices -> Entries]]
    BY DEF Tables, MemoryTyped
<1> QED
    BY <1>1

LEMMA GetTable ==
    ASSUME Tables, NEW pd \in directories, NEW v \in UserSpace,
           NEW entry, entry = mem[FrameAt(pd)][v \div TableSize]
    PROVE  /\ entry \in Entries /\ (Unused(entry) \/ Linked(entry))
           /\ Linked(entry) => /\ MmGetTable(pd, v) = entry.PhysAddress
                               /\ entry.PhysAddress # NULL
           /\ ~Linked(entry) => MmGetTable(pd, v) = NULL
<1>1. Deref(pd) = FrameAt(pd) /\ FrameAt(pd) \in Frames
    BY PointersLead, DirectoryFrame
<1>2. v \div TableSize \in 1..UserTables /\ v \div TableSize \in Indices
    BY UserPageParts
<1>3. entry \in Entries
    BY <1>1, <1>2, MemTyped
<1>4. Unused(entry) \/ Linked(entry)
    BY <1>2 DEF Tables, UserEntries
<1>5. MmGetTable(pd, v) = IF entry.Present
                          THEN MmKernelPhysToVirt(entry.PhysAddress) ELSE NULL
    BY <1>1 DEF MmGetTable
<1>6. heapTop \in 0..HeapFrames
    BY DEF Tables, MemoryTyped
<1>7. ASSUME Linked(entry)
      PROVE  MmGetTable(pd, v) = entry.PhysAddress /\ entry.PhysAddress # NULL
    <2>1. entry.Present /\ entry.PhysAddress \in 1..(3 + heapTop)
        BY <1>6, <1>7 DEF Linked, TableFrames
    <2>2. entry.PhysAddress \in Frames
        BY <1>3 DEF Entries
    <2> QED
        BY <1>5, <2>1, <2>2, PhysToVirt DEF NULL
<1>8. ASSUME ~Linked(entry)
      PROVE  MmGetTable(pd, v) = NULL
    <2>1. entry = Absent \/ entry = Entry(DataFrame, {"User", "Writable"})
        BY <1>4, <1>8 DEF Unused, Tables, MemoryTyped, Leftovers
    <2>2. CASE entry = Absent
        BY <1>5, <2>2 DEF Absent
    <2>3. CASE entry = Entry(DataFrame, {"User", "Writable"})
        <3>1. entry.PhysAddress = DataFrame
            BY <2>3 DEF Entry
        <3>2. DataFrame \in Frames /\ DataFrame \notin 1..(3 + heapTop)
            BY <1>6, Sizes DEF Frames
        <3> QED
            BY <1>5, <3>1, <3>2, PhysToVirt
    <2> QED
        BY <2>1, <2>2, <2>3
<1> QED
    BY <1>3, <1>4, <1>7, <1>8

LEMMA GetKernelTable ==
    ASSUME Tables, NEW pd \in directories, NEW v, v \div TableSize = Kernel
    PROVE  MmGetTable(pd, v) = 3 /\ Deref(3) = 3
<1>1. mem[Deref(pd)][v \div TableSize] = To(3)
    BY PointersLead DEF Tables, BasicEntries, KernelPageTables
<1>2. MmGetTable(pd, v) = MmKernelPhysToVirt(3)
    BY <1>1 DEF MmGetTable, To, Entry
<1>3. 3 \in Frames /\ 3 \in Indices /\ 3 \in 1..(3 + heapTop)
    BY KernelTableFrames DEF Tables, MemoryTyped
<1> QED
    BY <1>2, <1>3, PhysToVirt, PointersLead

LEMMA VirtToPhys ==
    ASSUME Tables, NEW f \in 1..(3 + heapTop)
    PROVE  MmVirtToPhys(CurrentPageDirectory, KernelPage(f - 1)) = f
<1> DEFINE v == KernelPage(f - 1)
<1>a. heapTop \in 0..HeapFrames
    BY DEF Tables, MemoryTyped
<1>1. /\ v \div TableSize = Kernel /\ v % TableSize = f - 1
      /\ f - 1 \in Indices /\ f - 1 < 3 + heapTop /\ f - 1 + 1 = f
    BY <1>a, KernelFrame
<1>2. MmGetTable(CurrentPageDirectory, v) = 3 /\ Deref(3) = 3
    BY <1>1, Loaded, GetKernelTable
<1>3. mem[3][f - 1] = To(f)
    BY <1>1 DEF Tables, KernelTables, KernelPageTables
<1> HIDE DEF v
<1>4. MmVirtToPhys(CurrentPageDirectory, v) = mem[3][v % TableSize].PhysAddress
    BY <1>2 DEF MmVirtToPhys, NULL
<1> QED
    BY <1>1, <1>3, <1>4 DEF To, Entry, v

LEMMA DirectoryToPhys ==
    ASSUME Tables, NEW pd \in directories
    PROVE  MmVirtToPhys(CurrentPageDirectory, pd) = FrameAt(pd)
BY DirectoryFrame, VirtToPhys

\* What the MMU makes of an entry of each level.
LEMMA WalkOf ==
    ASSUME NEW d, NEW v, NEW pde, pde = mem[d][v \div TableSize],
           NEW pte, pte = mem[pde.PhysAddress][v % TableSize]
    PROVE  Walk(d, v) = IF pde.Present /\ pte.Present
                        THEN [frame |-> pte.PhysAddress,
                              rights |-> pde.Rights \cap pte.Rights]
                        ELSE Nowhere
BY DEF Walk

LEMMA WalkTyped ==
    ASSUME Tables, NEW d \in Frames, NEW v \in Pages
    PROVE  /\ Walk(d, v) \in [frame : Frames, rights : Rights] \cup {Nowhere}
           /\ Translate(d, v) \in Frames \cup {Nowhere}
<1>1. mem \in [Frames -> [Indices -> Entries]]
    BY MemTyped
<1>2. v \div TableSize \in Indices /\ v % TableSize \in Indices
    BY PageParts, Sizes DEF Indices
<1> DEFINE pde == mem[d][v \div TableSize]
           pte == mem[pde.PhysAddress][v % TableSize]
<1>3. pde \in Entries
    BY <1>1, <1>2
<1>4. pde.PhysAddress \in Frames /\ pde.Rights \in Rights
    BY <1>3 DEF Entries
<1>5. pte \in Entries
    BY <1>1, <1>2, <1>4
<1>6. pte.PhysAddress \in Frames /\ pte.Rights \in Rights
    BY <1>5 DEF Entries
<1>7. Walk(d, v) = IF pde.Present /\ pte.Present
                   THEN [frame |-> pte.PhysAddress,
                         rights |-> pde.Rights \cap pte.Rights]
                   ELSE Nowhere
    BY DEF Walk
<1> HIDE DEF pde, pte
<1>8. pde.Rights \cap pte.Rights \in Rights
    BY <1>4, <1>6 DEF Rights
<1>9. Walk(d, v) \in [frame : Frames, rights : Rights] \cup {Nowhere}
    BY <1>6, <1>7, <1>8
<1> QED
    BY <1>9 DEF Translate

\* If new memory is empty, an entry that leads to no table leads nowhere.
LEMMA WalkUnused ==
    ASSUME Tables, leftover = Absent, NEW d, NEW v,
           Unused(mem[d][v \div TableSize])
    PROVE  Walk(d, v) = Nowhere
<1>1. mem[d][v \div TableSize].Present = FALSE
    BY DEF Unused, Absent
<1> QED
    BY <1>1 DEF Walk

------------------------------------------------------------------------------
(* Steps that store nothing *)

CallType ==
    [at : {"idle", "entry", "malloc", "enter", "entered", "done",
           "fault", "search", "check", "frame", "panic"} \cup Fields,
     op : {"map", "unmap", "mmap"}, pde : directories \cup {0},
     virt : Pages, pte : Frames, table : Pages,
     rights : AskedRights \cup {{}}, i : Nat, was : BOOLEAN]

LEMMA InvTables == Inv => Tables
BY DEF Inv, Tables, TypeOK, MemoryTyped, Entries, Rights

LEMMA TablesKept ==
    ASSUME Inv, UNCHANGED <<leftover, mem, heapTop, directories>>, Directories'
    PROVE  /\ KernelTables' /\ BasicEntries' /\ UserEntries' /\ TableEntries'
           /\ TablesNotShared' /\ HeapFresh'
<1>1. TableFrames' = TableFrames
    BY DEF TableFrames, IsDirectory
<1>2. KernelTables' /\ BasicEntries' /\ HeapFresh'
    BY DEF Inv, KernelTables, BasicEntries, HeapFresh, Fresh
<1>3. UserEntries' /\ TablesNotShared'
    BY <1>1 DEF Inv, UserEntries, TablesNotShared, Unused, Linked
<1>4. TableEntries'
    BY DEF Inv, TableEntries, IsDirectory
<1> QED
    BY <1>2, <1>3, <1>4

LEMMA LookingKeeps ==
    ASSUME Inv, Looking, call' \in CallType, CallInv'
    PROVE  Inv'
<1>1. UNCHANGED <<leftover, mem, heapTop, directories, CurrentPageDirectory,
                  CurrentPageDirectoryPhys, framesTaken, tlb, rewritten>>
    BY DEF Looking, loaded, mmu
<1>2. Directories'
    BY <1>1 DEF Inv, Directories
<1>3. TypeOK'
    BY <1>1 DEF Inv, TypeOK, CallType
<1> QED
    BY <1>1, <1>2, <1>3, TablesKept DEF Inv

\* A call that is entered.
LEMMA BeginKeeps ==
    ASSUME Inv, NEW op \in {"map", "unmap"}, NEW v \in UserPages,
           NEW rights \in AskedRights \cup {{}}, Begin(op, v, rights)
    PROVE  Inv'
<1>1. v \in UserSpace /\ v \in Pages /\ 0 \in Frames /\ 0 \in Pages
    BY UserPagesInSpace, UserPageParts, TableEnds, Sizes DEF Frames, Pages
<1>2. CurrentPageDirectory \in directories
    BY DEF Inv, Directories
<1>3. call' = [NoCall EXCEPT !.at = "entry", !.op = op, !.virt = v,
                             !.rights = rights, !.pde = CurrentPageDirectory]
    BY DEF Begin
<1>4. /\ call' \in CallType /\ call'.at = "entry"
      /\ call'.pde = CurrentPageDirectory /\ call'.virt = v
    BY <1>1, <1>2, <1>3 DEF NoCall, CallType
<1>5. Looking /\ directories' = directories
    BY DEF Begin, Looking, loaded
<1>6. CallInv'
    BY <1>1, <1>2, <1>4, <1>5 DEF CallInv, Fields
<1> QED
    BY <1>4, <1>5, <1>6, LookingKeeps

LEMMA MmGetTableEntryKeeps ==
    ASSUME Inv, MmGetTableEntry
    PROVE  Inv'
<1> DEFINE pte == MmGetTable(call.pde, call.virt)
<1>1. call.at = "entry" /\ call.pde \in directories /\ call.virt \in UserSpace
    BY DEF Inv, CallInv, MmGetTableEntry
<1>2. call' = IF pte # NULL
              THEN [call EXCEPT !.at = "PhysAddress", !.pte = pte]
              ELSE [call EXCEPT !.at = IF call.op = "unmap" THEN "done"
                                       ELSE "malloc"]
    BY DEF MmGetTableEntry
<1>3. /\ CallEntry \in Entries /\ (Unused(CallEntry) \/ Linked(CallEntry))
      /\ Linked(CallEntry) => pte = CallEntry.PhysAddress /\ pte # NULL
      /\ ~Linked(CallEntry) => pte = NULL
    BY <1>1, InvTables, GetTable DEF CallEntry
<1>4. Looking /\ UNCHANGED <<leftover, mem, heapTop, directories>>
    BY DEF MmGetTableEntry, Looking, loaded
<1>5. TableFrames' = TableFrames
    BY <1>4 DEF TableFrames, IsDirectory
<1>6. call \in CallType
    BY DEF Inv, TypeOK, CallType
<1>7. CASE Linked(CallEntry)
    <2>1. pte \in Frames
        BY <1>3, <1>7 DEF Entries
    <2>2. call' = [call EXCEPT !.at = "PhysAddress", !.pte = pte]
        BY <1>2, <1>3, <1>7
    <2> HIDE DEF pte
    <2>3. /\ call' \in CallType /\ call'.at = "PhysAddress" /\ call'.pte = pte
          /\ call'.pde = call.pde /\ call'.virt = call.virt
        BY <1>6, <2>1, <2>2 DEF CallType, Fields
    <2>4. CallEntry' = CallEntry
        BY <1>4, <2>3 DEF CallEntry
    <2>5. Linked(CallEntry)'
        BY <1>5, <1>7, <2>4 DEF Linked
    <2>6. CallInv'
        BY <1>1, <1>3, <1>4, <1>7, <2>3, <2>4, <2>5 DEF CallInv
    <2> QED
        BY <1>4, <2>3, <2>6, LookingKeeps
<1>8. CASE ~Linked(CallEntry)
    <2>1. call' = [call EXCEPT !.at = IF call.op = "unmap" THEN "done"
                                      ELSE "malloc"]
        BY <1>2, <1>3, <1>8
    <2>2. /\ call' \in CallType
          /\ call'.at = IF call.op = "unmap" THEN "done" ELSE "malloc"
          /\ call'.pde = call.pde /\ call'.virt = call.virt /\ call'.op = call.op
        BY <1>6, <2>1 DEF CallType
    <2>3. CallEntry' = CallEntry
        BY <1>4, <2>2 DEF CallEntry
    <2>4. Unused(CallEntry)'
        BY <1>3, <1>4, <1>8, <2>3 DEF Unused
    <2>5. CallInv'
        BY <1>1, <1>4, <2>2, <2>4 DEF CallInv, Fields
    <2> QED
        BY <1>4, <2>2, <2>5, LookingKeeps
<1> QED
    BY <1>7, <1>8

LEMMA GetTableEntryAgainKeeps ==
    ASSUME Inv, GetTableEntryAgain
    PROVE  Inv'
<1> DEFINE pte == MmGetTable(call.pde, call.virt)
<1>1. call.at = "entered" /\ call.pde \in directories /\ call.virt \in UserSpace
      /\ Linked(CallEntry)
    BY DEF Inv, CallInv, GetTableEntryAgain
<1>2. call' = [call EXCEPT !.at = "PhysAddress", !.pte = pte]
    BY DEF GetTableEntryAgain
<1>3. CallEntry \in Entries /\ pte = CallEntry.PhysAddress
    BY <1>1, InvTables, GetTable DEF CallEntry
<1>4. Looking /\ UNCHANGED <<leftover, mem, heapTop, directories>>
    BY DEF GetTableEntryAgain, Looking, loaded
<1>5. TableFrames' = TableFrames
    BY <1>4 DEF TableFrames, IsDirectory
<1>6. call \in CallType /\ pte \in Frames
    BY <1>3 DEF Inv, TypeOK, CallType, Entries
<1> HIDE DEF pte
<1>7. /\ call' \in CallType /\ call'.at = "PhysAddress" /\ call'.pte = pte
      /\ call'.pde = call.pde /\ call'.virt = call.virt
    BY <1>2, <1>6 DEF CallType, Fields
<1>8. CallEntry' = CallEntry
    BY <1>4, <1>7 DEF CallEntry
<1>9. Linked(CallEntry)'
    BY <1>1, <1>5, <1>8 DEF Linked
<1>10. CallInv'
    BY <1>1, <1>3, <1>4, <1>7, <1>8, <1>9 DEF CallInv
<1> QED
    BY <1>4, <1>7, <1>10, LookingKeeps

LEMMA ReturnKeeps ==
    ASSUME Inv, Return
    PROVE  Inv'
<1>1. 0 \in Frames /\ 0 \in Pages
    BY Sizes, TableEnds DEF Frames, Pages
<1>2. call' \in CallType /\ call'.at = "idle"
    BY <1>1 DEF Return, NoCall, CallType
<1>3. Looking /\ CallInv'
    BY <1>2 DEF Return, CallInv, Fields
<1> QED
    BY <1>2, <1>3, LookingKeeps

\* The first page of kernel space is present under every directory.
LEMMA KernelPresent ==
    ASSUME Tables, NEW v, v = Kernel * TableSize
    PROVE  ~OutOfReach(v) /\ MmIsPresent(v)
<1>1. 0 \in Indices /\ v \div TableSize = Kernel /\ v % TableSize = 0
    BY TableEnds, KernelTableFrames, KernelPageParts
<1>2. Table(v) = 3 /\ Deref(3) = 3
    BY <1>1, Loaded, GetKernelTable DEF Table
<1>3. 3 # Nowhere
    BY ConstantsAssumption
<1>4. mem[3][0].Present
    <2>1. heapTop \in Nat
        BY DEF Tables, MemoryTyped
    <2>2. mem[3][0] = To(1)
        BY <1>1, <2>1 DEF Tables, KernelTables, KernelPageTables
    <2> QED
        BY <2>2 DEF To, Entry
<1> QED
    BY <1>1, <1>2, <1>3, <1>4 DEF OutOfReach, MmIsPresent, NULL

\* A page number of user space, or the first behind it.
LEMMA UserEnd ==
    ASSUME NEW i \in TableSize..(Kernel * TableSize)
    PROVE  /\ i \in Pages /\ i # NULL
           /\ i # Kernel * TableSize =>
                  i \in UserSpace /\ i + 1 \in TableSize..(Kernel * TableSize)
<1> DEFINE e == Kernel * TableSize
<1>1. e \in Pages /\ e \in Nat /\ TableSize \in Nat /\ TableSize > 3
    BY TableEnds, Sizes DEF Pages
<1>2. i \in TableSize..e
    OBVIOUS
<1>3. \A j \in 0..e : j \in Pages
    <2> DEFINE m == (Kernel + 1) * TableSize - 1
    <2>1. e \in 0..m /\ m \in Int
        BY <1>1, Sizes DEF Pages
    <2> HIDE DEF e, m
    <2>2. \A j \in 0..e : j \in 0..m
        BY <2>1
    <2> QED
        BY <2>2 DEF m, Pages
<1> HIDE DEF e
<1>4. i \in 0..e /\ i # 0 /\ (i # e => i \in TableSize..(e - 1) /\ i + 1 \in TableSize..e)
    BY <1>1, <1>2
<1> QED
    BY <1>3, <1>4 DEF e, UserSpace, NULL

LEMMA MmMmapKeeps ==
    ASSUME Inv, NEW ptr \in UserPages \cup {NULL}, NEW rights \in AskedRights,
           MmMmap(ptr, rights)
    PROVE  Inv'
<1> DEFINE start == IF ptr = NULL THEN TableSize ELSE ptr
<1>1. start \in TableSize..(Kernel * TableSize) /\ start \in Pages /\ ptr \in Pages
      /\ 0 \in Frames /\ 0 \in Pages
    <2>1. 0 \in Frames /\ 0 \in Pages /\ TableSize \in UserSpace
        BY TableEnds, Sizes DEF Frames, Pages
    <2>2. \A v \in UserSpace : v \in TableSize..(Kernel * TableSize)
        BY Sizes DEF UserSpace
    <2>3. start \in UserSpace /\ ptr \in Pages
        BY <2>1, UserPagesInSpace, UserPageParts DEF NULL
    <2> QED
        BY <2>1, <2>2, <2>3, UserPageParts
<1>2. call' = [NoCall EXCEPT !.op = "mmap", !.virt = ptr, !.rights = rights,
                   !.at = IF ptr = NULL THEN "search" ELSE "check", !.i = start]
    BY DEF MmMmap
<1> HIDE DEF start
<1>3. /\ call' \in CallType /\ call'.at \in {"search", "check"}
      /\ call'.op = "mmap" /\ call'.i = start
    BY <1>1, <1>2, PagesAreNumbers DEF NoCall, CallType, Fields
<1>4. Looking /\ CallInv'
    BY <1>1, <1>3 DEF MmMmap, CallInv, Fields
<1> QED
    BY <1>3, <1>4, LookingKeeps

LEMMA SearchTurnKeeps ==
    ASSUME Inv, SearchTurn
    PROVE  Inv'
<1>1. /\ call \in CallType /\ call.at = "search" /\ call.op = "mmap"
      /\ call.i \in TableSize..(Kernel * TableSize)
    BY DEF SearchTurn, Inv, TypeOK, CallType, CallInv
<1>2. Looking
    BY DEF SearchTurn
<1>3. CASE call' = [call EXCEPT !.at = "done", !.virt = NULL]
           \/ call' = [call EXCEPT !.at = "fault"]
    <2>1. 0 \in Pages
        BY Sizes, TableEnds DEF Pages
    <2>2. /\ call' \in CallType /\ call'.op = "mmap"
          /\ call'.at = "fault" \/ (call'.at = "done" /\ call'.virt = NULL)
        BY <1>1, <1>3, <2>1 DEF CallType, NULL
    <2>3. CallInv'
        BY <2>2 DEF CallInv, Fields
    <2> QED
        BY <1>2, <2>2, <2>3, LookingKeeps
<1>4. ASSUME call.i # Kernel * TableSize,
             \/ call' = [call EXCEPT !.i = @ + 1]
             \/ call' = [call EXCEPT !.at = "frame", !.virt = call.i, !.i = 0]
      PROVE  Inv'
    <2>1. /\ call.i \in UserSpace /\ call.i \in Pages /\ 0 \in Pages
          /\ call.i + 1 \in TableSize..(Kernel * TableSize) /\ call.i + 1 \in Pages
        BY <1>1, <1>4, UserEnd, Sizes, TableEnds DEF Pages
    <2> DEFINE next == call.i + 1
    <2>2. next \in Nat
        BY <2>1, PagesAreNumbers
    <2> HIDE DEF next
    <2>3. CASE call' = [call EXCEPT !.i = next]
        <3>1. /\ call' \in CallType /\ call'.op = "mmap"
              /\ call'.at = "search" /\ call'.i = next
            BY <1>1, <2>2, <2>3 DEF CallType
        <3>2. CallInv'
            BY <2>1, <3>1 DEF CallInv, Fields, next
        <3> QED
            BY <1>2, <3>1, <3>2, LookingKeeps
    <2>4. CASE call' = [call EXCEPT !.at = "frame", !.virt = call.i, !.i = 0]
        <3>1. /\ call' \in CallType /\ call'.op = "mmap"
              /\ call'.at = "frame" /\ call'.virt = call.i
            BY <1>1, <2>1, <2>4 DEF CallType
        <3>2. CallInv'
            BY <2>1, <3>1 DEF CallInv, Fields
        <3> QED
            BY <1>2, <3>1, <3>2, LookingKeeps
    <2> QED
        BY <1>4, <2>3, <2>4 DEF next
<1> QED
    BY <1>3, <1>4 DEF SearchTurn, After

LEMMA CheckTurnKeeps ==
    ASSUME Inv, CheckTurn
    PROVE  Inv'
<1>1. /\ call \in CallType /\ call.at = "check" /\ call.op = "mmap"
      /\ call.i \in TableSize..(Kernel * TableSize)
    BY DEF CheckTurn, Inv, TypeOK, CallType, CallInv
<1>2. Looking
    BY DEF CheckTurn
<1>3. CASE call' = [call EXCEPT !.at = "done", !.virt = NULL]
           \/ call' = [call EXCEPT !.at = "fault"]
    <2>1. 0 \in Pages
        BY Sizes, TableEnds DEF Pages
    <2>2. /\ call' \in CallType /\ call'.op = "mmap"
          /\ call'.at = "fault" \/ (call'.at = "done" /\ call'.virt = NULL)
        BY <1>1, <1>3, <2>1 DEF CallType, NULL
    <2>3. CallInv'
        BY <2>2 DEF CallInv, Fields
    <2> QED
        BY <1>2, <2>2, <2>3, LookingKeeps
<1>4. ASSUME ~MmIsPresent(call.i), call' = [call EXCEPT !.i = @ + 1]
      PROVE  Inv'
    <2>1. call.i # Kernel * TableSize
        BY <1>4, InvTables, KernelPresent
    <2>2. call.i + 1 \in TableSize..(Kernel * TableSize) /\ call.i + 1 \in Pages
        BY <1>1, <2>1, UserEnd
    <2>3. /\ call' \in CallType /\ call'.op = "mmap" /\ call'.at = "check"
          /\ call'.i = call.i + 1
        BY <1>1, <1>4, <2>2 DEF CallType
    <2>4. CallInv'
        BY <2>2, <2>3 DEF CallInv, Fields
    <2> QED
        BY <1>2, <2>3, <2>4, LookingKeeps
<1> QED
    BY <1>3, <1>4 DEF CheckTurn, After

LEMMA FrameTurnKeeps ==
    ASSUME Inv, FrameTurn
    PROVE  Inv'
<1>1. /\ call \in CallType /\ call.at = "frame" /\ call.op = "mmap"
      /\ call.virt \in UserSpace /\ CurrentPageDirectory \in directories
    BY DEF FrameTurn, Inv, TypeOK, CallType, CallInv, Directories
<1>2. UNCHANGED <<leftover, mem, heapTop, directories, CurrentPageDirectory,
                  CurrentPageDirectoryPhys, tlb, rewritten>>
    BY DEF FrameTurn, loaded, mmu
<1>3. framesTaken' \in 0..PmFrames
    BY ConstantsAssumption DEF FrameTurn, Inv, TypeOK
<1> DEFINE next == call.i + 1
<1>4. \/ call' = [call EXCEPT !.at = "entry", !.i = next,
                              !.pde = CurrentPageDirectory]
      \/ call' = [call EXCEPT !.at = "panic"]
    BY DEF FrameTurn
<1>a. next \in Nat
    BY <1>1 DEF CallType
<1> HIDE DEF next
<1>5. /\ call' \in CallType
      /\ \/ /\ call'.at = "entry" /\ call'.virt = call.virt
            /\ call'.pde = CurrentPageDirectory
         \/ call'.at = "panic"
    <2>1. CASE call' = [call EXCEPT !.at = "entry", !.i = next,
                                    !.pde = CurrentPageDirectory]
        BY <1>1, <1>a, <2>1 DEF CallType
    <2>2. CASE call' = [call EXCEPT !.at = "panic"]
        BY <1>1, <2>2 DEF CallType
    <2> QED
        BY <1>4, <2>1, <2>2
<1>6. CallInv'
    BY <1>1, <1>2, <1>5 DEF CallInv, Fields
<1>7. Directories'
    BY <1>2 DEF Inv, Directories
<1>8. TypeOK'
    BY <1>2, <1>3, <1>5 DEF Inv, TypeOK, CallType
<1> QED
    BY <1>2, <1>6, <1>7, <1>8, TablesKept DEF Inv

FoundOK == Found \in [WatchedPages -> SUBSET [frame : Frames, rights : Rights]]

\* What the MMU finds may be kept.
LEMMA FoundTyped ==
    Tables => Found \in [WatchedPages -> SUBSET [frame : Frames, rights : Rights]]
<1> SUFFICES ASSUME Tables
             PROVE  Found \in [WatchedPages -> SUBSET [frame : Frames, rights : Rights]]
    OBVIOUS
<1>1. ASSUME NEW v \in WatchedPages
      PROVE  {Walk(CurrentPageDirectoryPhys, v)} \ {Nowhere}
                 \in SUBSET [frame : Frames, rights : Rights]
    BY Loaded, WalkTyped, WatchedInSpace, UserPageParts
<1> QED
    BY <1>1 DEF Found

LEMMA SwitchKeeps ==
    ASSUME Inv, NEW pd \in directories, SwitchPageDirectory(pd)
    PROVE  Inv'
<1>1. UNCHANGED <<leftover, mem, heapTop, directories, call, framesTaken>>
    BY DEF SwitchPageDirectory
<1>2. CurrentPageDirectory' = pd /\ CurrentPageDirectoryPhys' = FrameAt(pd)
    BY InvTables, DirectoryToPhys DEF SwitchPageDirectory
<1>3. Directories'
    BY <1>1, <1>2 DEF Inv, Directories
<1>4. KernelTables' /\ BasicEntries' /\ UserEntries' /\ TableEntries'
      /\ TablesNotShared' /\ HeapFresh'
    BY <1>1, <1>3, TablesKept
<1>5. CallInv'
    <2>1. TableFrames' = TableFrames
        BY <1>1 DEF TableFrames, IsDirectory
    <2>2. CallEntry' = CallEntry
        BY <1>1 DEF CallEntry
    <2>3. /\ NewTable => NewTable'
          /\ Unused(CallEntry) => Unused(CallEntry)'
          /\ Linked(CallEntry) => Linked(CallEntry)'
        BY <1>1, <2>1, <2>2 DEF NewTable, Fresh, Unused, Linked
    <2> QED
        BY <1>1, <2>2, <2>3 DEF Inv, CallInv
<1>6. FrameAt(pd) \in Frames
    BY InvTables, DirectoryFrame
<1>7. tlb' = Found' /\ rewritten' = {}
    BY DEF SwitchPageDirectory
<1>8. Found' \in [WatchedPages -> SUBSET [frame : Frames, rights : Rights]]
    <2>1. ASSUME NEW v \in WatchedPages
          PROVE  {Walk(FrameAt(pd), v)} \ {Nowhere}
                     \in SUBSET [frame : Frames, rights : Rights]
        BY <1>6, InvTables, WalkTyped, WatchedInSpace, UserPageParts
    <2>2. Found' = [v \in WatchedPages |-> {Walk(FrameAt(pd), v)} \ {Nowhere}]
        BY <1>1, <1>2 DEF Found, Walk
    <2> QED
        BY <2>1, <2>2
<1>9. TypeOK'
    BY <1>1, <1>2, <1>6, <1>7, <1>8 DEF Inv, TypeOK, Rights
<1> QED
    BY <1>3, <1>4, <1>5, <1>9 DEF Inv

LEMMA StutterKeeps ==
    ASSUME Inv, UNCHANGED vars
    PROVE  Inv'
<1>1. Looking /\ UNCHANGED <<leftover, mem, heapTop, directories, call>>
    BY DEF vars, Looking, loaded
<1>2. call' \in CallType
    BY <1>1 DEF Inv, TypeOK, CallType
<1>3. CallInv'
    BY <1>1 DEF Inv, CallInv, CallEntry, NewTable, Fresh, Unused, Linked,
                TableFrames, IsDirectory
<1> QED
    BY <1>1, <1>2, <1>3, LookingKeeps

------------------------------------------------------------------------------
(* Steps that allocate *)

LEMMA KernelPagesApart ==
    ASSUME NEW f \in Int, NEW g \in Int, KernelPage(f - 1) = KernelPage(g - 1)
    PROVE  f = g
<1> DEFINE k == Kernel * TableSize
<1>1. k \in Int /\ k + (f - 1) = k + (g - 1)
    BY Sizes DEF KernelPage
<1> HIDE DEF k
<1> QED
    BY <1>1

LEMMA EntriesTyped ==
    /\ \A f \in Frames : To(f) \in Entries
    /\ \A r \in Rights : Entry(DataFrame, r) \in Entries
    /\ Absent \in Entries
<1>1. 0 \in Frames /\ DataFrame \in Frames
    BY KernelTableFrames
<1>2. {"Writable"} \in Rights /\ {} \in Rights
    BY DEF Rights
<1> QED
    BY <1>1, <1>2 DEF To, Entry, Absent, Entries

\* The frame malloc hands out next.
LEMMA NextFrame ==
    ASSUME Tables, Available, NEW n, n = HeapFrame
    PROVE  /\ n \in 4..(3 + HeapFrames) /\ n \in Frames /\ n # DataFrame
           /\ 3 + heapTop \in Indices /\ n = 4 + heapTop /\ heapTop \in Nat
           /\ HeapPage = KernelPage(n - 1) /\ HeapPage \in Pages
           /\ HeapPage \in { KernelPage(i) : i \in Indices }
           /\ FrameAt(HeapPage) = n
           /\ HeapPage \notin directories /\ n \notin TableFrames
           /\ \A pd \in directories : FrameAt(pd) \notin {1, 3, n}
<1>1. heapTop \in 0..HeapFrames /\ heapTop < HeapFrames
    BY DEF Tables, MemoryTyped, Available
<1>2. /\ n \in 4..(3 + HeapFrames) /\ n \in Frames /\ n # DataFrame
      /\ 3 + heapTop \in Indices /\ n = 4 + heapTop /\ heapTop \in Nat
      /\ n - 1 = 3 + heapTop
    BY <1>1, Sizes DEF Frames, Indices, HeapFrame
<1>3. HeapPage = KernelPage(n - 1)
    BY <1>2 DEF HeapPage
<1>4. HeapPage \in Pages /\ FrameAt(HeapPage) = n
    BY <1>2, <1>3, KernelPageParts
<1>5. \A pd \in directories : FrameAt(pd) \notin {1, 3, n}
    <2> TAKE pd \in directories
    <2>1. FrameAt(pd) \in {2} \cup 4..(3 + heapTop)
        BY DirectoryFrame
    <2> QED
        BY <1>2, <2>1
<1>6. HeapPage \notin directories
    BY <1>4, <1>5
<1>7. n \notin TableFrames
    BY <1>2 DEF TableFrames
<1> QED
    BY <1>2, <1>3, <1>4, <1>5, <1>6, <1>7

\* No directory entry leads to a frame that malloc has not handed out.
LEMMA NextFrameUnlinked ==
    ASSUME Tables, Available, NEW pd \in directories, NEW i \in 1..UserTables
    PROVE  mem[FrameAt(pd)][i].PhysAddress # HeapFrame
<1> DEFINE entry == mem[FrameAt(pd)][i]
<1>1. HeapFrame \notin TableFrames /\ HeapFrame # DataFrame /\ HeapFrame # 0
    BY NextFrame
<1>2. CASE entry = Absent
    BY <1>1, <1>2 DEF Absent
<1>3. CASE entry = leftover
    BY <1>1, <1>3 DEF Tables, MemoryTyped, Leftovers, Absent, Entry
<1>4. CASE Linked(entry)
    BY <1>1, <1>4 DEF Linked
<1> QED
    BY <1>2, <1>3, <1>4 DEF Tables, UserEntries, Unused

\* malloc's entry in the kernel's table.
LEMMA GrownTables ==
    ASSUME Inv, Available, NEW n, n = HeapFrame
    PROVE  /\ Grown \in [Frames -> [Indices -> Entries]]
           /\ \A f \in Frames \ {3} : Grown[f] = mem[f]
           /\ \A i \in Indices : Grown[3][i] = IF i < 4 + heapTop THEN To(i + 1)
                                                                ELSE Absent
<1>1. Tables
    BY InvTables
<1>2. /\ n \in Frames /\ 3 + heapTop \in Indices /\ n = 4 + heapTop
      /\ 3 \in Frames /\ heapTop \in Nat
    BY <1>1, NextFrame, KernelTableFrames
<1>3. mem \in [Frames -> [Indices -> Entries]] /\ To(n) \in Entries
    BY <1>1, <1>2, MemTyped, EntriesTyped
<1>4. Grown = [mem EXCEPT ![3] = [mem[3] EXCEPT ![3 + heapTop] = To(n)]]
    BY DEF Grown, KernelPageTables
<1>5. [mem[3] EXCEPT ![3 + heapTop] = To(n)] \in [Indices -> Entries]
    BY <1>2, <1>3
<1>6. Grown \in [Frames -> [Indices -> Entries]] /\ \A f \in Frames \ {3} : Grown[f] = mem[f]
    BY <1>2, <1>3, <1>4, <1>5
<1>7. Grown[3] = [mem[3] EXCEPT ![3 + heapTop] = To(n)]
    BY <1>2, <1>3, <1>4
<1>8. ASSUME NEW i \in Indices
      PROVE  Grown[3][i] = IF i < 4 + heapTop THEN To(i + 1) ELSE Absent
    <2>1. mem[3][i] = IF i < 3 + heapTop THEN To(i + 1) ELSE Absent
        BY DEF Inv, KernelTables, KernelPageTables
    <2>2. mem[3] \in [Indices -> Entries] /\ i \in Nat
        BY <1>2, <1>3 DEF Indices
    <2>3. CASE i = 3 + heapTop
        <3>1. Grown[3][i] = To(n) /\ i < 4 + heapTop /\ i + 1 = n
            BY <1>2, <1>7, <2>2, <2>3
        <3> QED
            BY <3>1
    <2>4. CASE i # 3 + heapTop
        <3>1. Grown[3][i] = mem[3][i] /\ (i < 4 + heapTop <=> i < 3 + heapTop)
            BY <1>2, <1>7, <2>2, <2>4
        <3> QED
            BY <2>1, <3>1
    <2> QED
        BY <2>3, <2>4
<1> QED
    BY <1>6, <1>8

LEMMA MallocTableKeeps ==
    ASSUME Inv, MallocTable
    PROVE  Inv'
<1> DEFINE n == HeapFrame
<1>1. /\ Available /\ Tables /\ call.at = "malloc" /\ call.op # "unmap"
      /\ call.pde \in directories /\ call.virt \in UserSpace /\ Unused(CallEntry)
      /\ call \in CallType
    BY InvTables DEF MallocTable, Inv, TypeOK, CallType, CallInv
<1>2. /\ n \in 4..(3 + HeapFrames) /\ n \in Frames /\ n # DataFrame
      /\ 3 + heapTop \in Indices /\ n = 4 + heapTop /\ heapTop \in Nat
      /\ HeapPage = KernelPage(n - 1) /\ HeapPage \in Pages
      /\ FrameAt(HeapPage) = n
      /\ HeapPage \notin directories /\ n \notin TableFrames
      /\ \A pd \in directories : FrameAt(pd) \notin {1, 3, n}
    BY <1>1, NextFrame
<1>3. /\ UNCHANGED <<leftover, directories, CurrentPageDirectory,
                     CurrentPageDirectoryPhys, framesTaken, tlb, rewritten>>
      /\ heapTop' = heapTop + 1 /\ mem' = Grown
      /\ call' = [call EXCEPT !.at = "enter", !.table = HeapPage]
    BY DEF MallocTable, loaded, mmu
<1>4. /\ mem' \in [Frames -> [Indices -> Entries]]
      /\ \A f \in Frames \ {3} : mem'[f] = mem[f]
      /\ \A i \in Indices : mem'[3][i] = IF i < 3 + heapTop' THEN To(i + 1) ELSE Absent
    BY <1>1, <1>2, <1>3, GrownTables
<1> HIDE DEF n
<1>5. /\ call' \in CallType /\ call'.at = "enter" /\ call'.table = HeapPage
      /\ call'.pde = call.pde /\ call'.virt = call.virt /\ call'.op = call.op
    BY <1>1, <1>2, <1>3 DEF CallType
<1>6. heapTop' \in 0..HeapFrames
    BY <1>2, <1>3, Sizes
<1>7. \A f \in Frames : IsDirectory(f)' <=> IsDirectory(f)
    BY <1>3 DEF IsDirectory
<1>8. TableFrames' = TableFrames \cup {n}
    <2>1. \A f : f \in 4..(3 + heapTop') <=> f \in 4..(3 + heapTop) \/ f = n
        BY <1>2, <1>3
    <2>2. ~IsDirectory(n)
        BY <1>2 DEF IsDirectory
    <2> QED
        BY <1>3, <2>1, <2>2 DEF TableFrames, IsDirectory
<1>9. \A pd \in directories : /\ FrameAt(pd) \in Frames
                              /\ mem'[FrameAt(pd)] = mem[FrameAt(pd)]
    <2> TAKE pd \in directories
    <2>1. FrameAt(pd) \in Frames /\ FrameAt(pd) # 3
        BY <1>1, <1>2, DirectoryFrame
    <2> QED
        BY <1>4, <2>1
<1>10. TypeOK'
    BY <1>3, <1>4, <1>5, <1>6 DEF Inv, TypeOK, CallType, Entries, Rights
<1>11. KernelTables'
    <2>1. mem'[1] = mem[1]
        BY <1>4, KernelTableFrames
    <2> QED
        BY <1>4, <2>1 DEF Inv, KernelTables, ZeroIdentityPage, KernelPageTables
<1>12. Directories'
    <2>1. \A f \in {2} \cup 4..(3 + heapTop) : f \in {2} \cup 4..(3 + heapTop')
        BY <1>2, <1>3
    <2> QED
        BY <1>3, <2>1 DEF Inv, Directories
<1>13. BasicEntries'
    BY <1>3, <1>9 DEF Inv, BasicEntries
<1>14. UserEntries'
    BY <1>3, <1>8, <1>9 DEF Inv, UserEntries, Unused, Linked
<1>15. TableEntries'
    <2>1. \A f \in Frames : f # 3 => mem'[f] = mem[f]
        BY <1>4
    <2> QED
        BY <1>7, <2>1 DEF Inv, TableEntries
<1>16. \A pd \in directories, i \in 1..UserTables :
           mem[FrameAt(pd)][i].PhysAddress # n
    BY <1>1, NextFrameUnlinked DEF n
<1>17. TablesNotShared'
    BY <1>3, <1>8, <1>9, <1>16 DEF Inv, TablesNotShared, Linked
<1>18. HeapFresh'
    <2> SUFFICES ASSUME NEW f \in (4 + heapTop')..(3 + HeapFrames)
                 PROVE  Fresh(f)'
        BY DEF HeapFresh
    <2>1. f \in (4 + heapTop)..(3 + HeapFrames) /\ f \in Frames /\ f # 3
        BY <1>2, <1>3, Sizes DEF Frames
    <2>2. mem'[f] = mem[f] /\ Fresh(f)
        BY <1>4, <2>1 DEF Inv, HeapFresh
    <2> QED
        BY <1>3, <2>2 DEF Fresh
<1>19. CallInv'
    <2>1. CallEntry' = CallEntry
        BY <1>1, <1>5, <1>9 DEF CallEntry
    <2>2. Unused(CallEntry)'
        BY <1>1, <1>3, <2>1 DEF Unused
    <2>3. Fresh(n) /\ mem'[n] = mem[n]
        BY <1>2, <1>4 DEF Inv, HeapFresh
    <2>4. \A i \in Indices : mem'[n][i] = leftover'
        BY <1>3, <2>3 DEF Fresh
    <2>5. FrameAt(call'.table) = n /\ call'.table = KernelPage(n - 1)
        BY <1>2, <1>5
    <2>6. NewTable'
        BY <1>3, <1>8, <1>9, <1>16, <2>4, <2>5 DEF NewTable, Fresh
    <2> QED
        BY <1>1, <1>3, <1>5, <2>2, <2>6 DEF CallInv, Fields
<1> QED
    BY <1>10, <1>11, <1>12, <1>13, <1>14, <1>15, <1>17, <1>18, <1>19 DEF Inv

LEMMA FoundNext ==
    Tables' => FoundOK'
<1>1. Tables => FoundOK
    BY FoundTyped DEF FoundOK
<1> QED
    BY <1>1, PTL

LEMMA MmAllocPageDirectoryKeeps ==
    ASSUME Inv, MmAllocPageDirectory
    PROVE  Inv'
<1> DEFINE n == HeapFrame
<1>1. Available /\ Tables /\ call.at = "idle" /\ call \in CallType
    BY InvTables DEF MmAllocPageDirectory, Inv, TypeOK, CallType
<1>2. /\ n \in 4..(3 + HeapFrames) /\ n \in Frames /\ n # DataFrame
      /\ 3 + heapTop \in Indices /\ n = 4 + heapTop /\ heapTop \in Nat
      /\ HeapPage = KernelPage(n - 1)
      /\ HeapPage \in { KernelPage(i) : i \in Indices }
      /\ FrameAt(HeapPage) = n
      /\ HeapPage \notin directories /\ n \notin TableFrames
      /\ \A pd \in directories : FrameAt(pd) \notin {1, 3, n}
    BY <1>1, NextFrame
<1>3. /\ UNCHANGED <<leftover, CurrentPageDirectory, CurrentPageDirectoryPhys,
                     call, framesTaken, tlb, rewritten>>
      /\ heapTop' = heapTop + 1
      /\ mem' = [Grown EXCEPT ![n] = WithBasicEntries(Grown[n])]
      /\ directories' = directories \cup {HeapPage}
    BY DEF MmAllocPageDirectory, mmu
<1>4. /\ Grown \in [Frames -> [Indices -> Entries]]
      /\ \A f \in Frames \ {3} : Grown[f] = mem[f]
      /\ \A i \in Indices : Grown[3][i] = IF i < 4 + heapTop THEN To(i + 1)
                                                            ELSE Absent
    BY <1>1, GrownTables
<1> HIDE DEF n
<1>5. /\ Grown[n] \in [Indices -> Entries]
      /\ \A i \in Indices : Grown[n][i] = leftover
    <2>1. Grown[n] = mem[n] /\ Fresh(n)
        BY <1>2, <1>4 DEF Inv, HeapFresh
    <2> QED
        BY <1>2, <1>4, <2>1 DEF Fresh
<1> DEFINE new == WithBasicEntries(Grown[n])
<1>6. /\ new \in [Indices -> Entries] /\ new[0] = To(1) /\ new[Kernel] = To(3)
      /\ \A i \in 1..UserTables : new[i] = leftover
    <2>1. To(1) \in Entries /\ To(3) \in Entries /\ 0 \in Indices /\ Kernel \in Indices
        BY KernelTableFrames, EntriesTyped
    <2>2. new = [Grown[n] EXCEPT ![0] = To(1), ![Kernel] = To(3)]
        BY DEF WithBasicEntries, ZeroIdentityPage, KernelPageTables
    <2>3. \A i \in 1..UserTables : i \in Indices /\ i # 0 /\ i # Kernel
        BY Sizes DEF Indices
    <2>4. 0 # Kernel
        BY Sizes
    <2> QED
        BY <1>5, <2>1, <2>2, <2>3, <2>4
<1> HIDE DEF new
<1>7. /\ mem' \in [Frames -> [Indices -> Entries]] /\ mem'[n] = new
      /\ \A f \in Frames \ {3, n} : mem'[f] = mem[f]
      /\ \A i \in Indices : mem'[3][i] = IF i < 3 + heapTop' THEN To(i + 1)
                                                            ELSE Absent
    <2>1. mem' = [Grown EXCEPT ![n] = new]
        BY <1>3 DEF new
    <2>2. /\ mem' \in [Frames -> [Indices -> Entries]] /\ mem'[n] = new
          /\ \A f \in Frames \ {3, n} : mem'[f] = mem[f]
        BY <1>2, <1>4, <1>6, <2>1
    <2>3. mem'[3] = Grown[3]
        BY <1>2, <1>4, <2>1, KernelTableFrames
    <2>4. 3 + heapTop' = 4 + heapTop
        BY <1>2, <1>3
    <2> QED
        BY <1>4, <2>2, <2>3, <2>4
<1>8. heapTop' \in 0..HeapFrames
    BY <1>2, <1>3, Sizes
<1>9. \A f \in Frames : IsDirectory(f)' <=> IsDirectory(f) \/ f = n
    <2> TAKE f \in Frames
    <2>1. KernelPage(f - 1) = KernelPage(n - 1) => f = n
        BY <1>2, FramesAreNumbers, KernelPagesApart
    <2> QED
        BY <1>2, <1>3, <2>1 DEF IsDirectory
<1>10. TableFrames' = TableFrames
    <2>1. \A f : f \in 4..(3 + heapTop') <=> f \in 4..(3 + heapTop) \/ f = n
        BY <1>2, <1>3
    <2>2. \A f \in 4..(3 + heapTop') : f \in Frames
        BY <1>2, <1>3, Sizes DEF Frames
    <2> QED
        BY <1>2, <1>9, <2>1, <2>2 DEF TableFrames
<1>11. \A pd \in directories : /\ FrameAt(pd) \in Frames
                               /\ mem'[FrameAt(pd)] = mem[FrameAt(pd)]
    <2> TAKE pd \in directories
    <2>1. FrameAt(pd) \in Frames /\ FrameAt(pd) \notin {3, n}
        BY <1>1, <1>2, DirectoryFrame
    <2> QED
        BY <1>7, <2>1
<1>12. TypeOK'
    <2>1. directories' \subseteq { KernelPage(i) : i \in Indices }
        BY <1>2, <1>3 DEF Inv, TypeOK
    <2> QED
        BY <1>3, <1>7, <1>8, <2>1 DEF Inv, TypeOK, Entries, Rights
<1>13. KernelTables'
    <2>1. mem'[1] = mem[1]
        BY <1>2, <1>7, KernelTableFrames
    <2> QED
        BY <1>7, <2>1 DEF Inv, KernelTables, ZeroIdentityPage, KernelPageTables
<1>14. Directories'
    <2>1. \A f \in {2} \cup 4..(3 + heapTop) : f \in {2} \cup 4..(3 + heapTop')
        BY <1>2, <1>3
    <2>2. n \in 4..(3 + heapTop')
        BY <1>2, <1>3
    <2> QED
        BY <1>2, <1>3, <2>1, <2>2 DEF Inv, Directories
<1>15. BasicEntries'
    BY <1>2, <1>3, <1>6, <1>7, <1>11
    DEF Inv, BasicEntries, ZeroIdentityPage, KernelPageTables
<1>16. UserEntries'
    <2> SUFFICES ASSUME NEW pd \in directories', NEW i \in 1..UserTables
                 PROVE  \/ Unused(mem[FrameAt(pd)][i])'
                        \/ Linked(mem[FrameAt(pd)][i])'
        BY DEF UserEntries
    <2>1. CASE pd \in directories
        BY <1>3, <1>10, <1>11, <2>1 DEF Inv, UserEntries, Unused, Linked
    <2>2. CASE pd = HeapPage
        BY <1>2, <1>3, <1>6, <1>7, <2>2 DEF Unused
    <2> QED
        BY <1>3, <2>1, <2>2
<1>17. TableEntries'
    <2> SUFFICES ASSUME NEW f \in Frames, NEW i \in Indices,
                        f \notin {1, 3}, ~IsDirectory(f)'
                 PROVE  mem'[f][i].PhysAddress \in {0, DataFrame}
        BY DEF TableEntries
    <2>1. ~IsDirectory(f) /\ f # n /\ mem'[f] = mem[f]
        BY <1>7, <1>9
    <2> QED
        BY <2>1 DEF Inv, TableEntries
<1>18. TablesNotShared'
    <2> SUFFICES ASSUME NEW pd \in directories', NEW qd \in directories',
                        NEW i \in 1..UserTables, NEW j \in 1..UserTables,
                        Linked(mem[FrameAt(pd)][i])',
                        mem'[FrameAt(pd)][i].PhysAddress = mem'[FrameAt(qd)][j].PhysAddress
                 PROVE  pd = qd /\ i = j
        BY DEF TablesNotShared
    <2>1. mem'[FrameAt(pd)][i].Present /\ mem'[FrameAt(pd)][i].PhysAddress \in TableFrames
        BY <1>10 DEF Linked
    <2>2. leftover.PhysAddress \notin TableFrames
        <3>1. leftover.PhysAddress \in {0, DataFrame}
            BY DEF Inv, TypeOK, Leftovers, Absent, Entry
        <3>2. 0 \notin TableFrames /\ DataFrame \notin TableFrames
            BY <1>2, Sizes DEF TableFrames, Available
        <3> QED
            BY <3>1, <3>2
    <2>3. pd \in directories /\ qd \in directories
        BY <1>2, <1>3, <1>6, <1>7, <2>1, <2>2
    <2> QED
        BY <1>11, <2>1, <2>3 DEF Inv, TablesNotShared, Linked
<1>19. HeapFresh'
    <2> SUFFICES ASSUME NEW f \in (4 + heapTop')..(3 + HeapFrames)
                 PROVE  Fresh(f)'
        BY DEF HeapFresh
    <2>1. f \in (4 + heapTop)..(3 + HeapFrames) /\ f \in Frames /\ f \notin {3, n}
        BY <1>2, <1>3, Sizes DEF Frames
    <2>2. mem'[f] = mem[f] /\ Fresh(f)
        BY <1>7, <2>1 DEF Inv, HeapFresh
    <2> QED
        BY <1>3, <2>2 DEF Fresh
<1>20. CallInv'
    BY <1>1, <1>3 DEF CallInv, Fields
<1> QED
    BY <1>12, <1>13, <1>14, <1>15, <1>16, <1>17, <1>18, <1>19, <1>20 DEF Inv

------------------------------------------------------------------------------
(* Steps that store an entry *)

LEMMA DirectoriesApart ==
    ASSUME Tables, NEW pd \in directories, NEW qd \in directories,
           FrameAt(pd) = FrameAt(qd)
    PROVE  pd = qd
BY DirectoryFrame

LEMMA TableFramesApart ==
    ASSUME Tables
    PROVE  /\ TableFrames \subseteq Frames /\ DataFrame \notin TableFrames
           /\ 0 \notin TableFrames
           /\ \A f \in TableFrames \cup {0, DataFrame} :
                  /\ f \notin {1, 3} /\ ~IsDirectory(f) /\ f \in Frames
                  /\ f \notin (4 + heapTop)..(3 + HeapFrames)
<1>1. heapTop \in 0..HeapFrames
    BY DEF Tables, MemoryTyped
<1>2. \A f \in TableFrames : /\ f \in 4..(3 + heapTop) /\ f \in Frames
                             /\ f \notin {0, 1, 3} /\ f # DataFrame /\ ~IsDirectory(f)
                             /\ f \notin (4 + heapTop)..(3 + HeapFrames)
    BY <1>1, Sizes DEF TableFrames, Frames
<1>3. \A f \in {0, DataFrame} : ~IsDirectory(f)
    <2> SUFFICES ASSUME NEW f \in {0, DataFrame}, KernelPage(f - 1) \in directories
                 PROVE  FALSE
        BY DEF IsDirectory
    <2>1. PICK g \in {2} \cup 4..(3 + heapTop) : KernelPage(f - 1) = KernelPage(g - 1)
        BY DEF Tables, Directories
    <2>2. f = g
        BY <1>1, <2>1, Sizes, KernelPagesApart
    <2> QED
        BY <1>1, <2>1, <2>2, Sizes
<1>4. \A f \in {0, DataFrame} :
          f \notin {1, 3} /\ f \notin (4 + heapTop)..(3 + HeapFrames) /\ f \in Frames
    BY <1>1, Sizes DEF Frames
<1> QED
    BY <1>2, <1>3, <1>4

LEMMA UnusedUnlinked ==
    ASSUME Tables, NEW e, Unused(e)
    PROVE  ~Linked(e) /\ e.PhysAddress \in {0, DataFrame}
<1>1. e = Absent \/ e = Entry(DataFrame, {"User", "Writable"})
    BY DEF Tables, MemoryTyped, Unused, Leftovers
<1>2. e.PhysAddress \in {0, DataFrame}
    BY <1>1 DEF Absent, Entry
<1> QED
    BY <1>2, TableFramesApart DEF Linked

LEMMA EnterTableStores ==
    ASSUME Inv, EnterTable,
           NEW d, d = FrameAt(call.pde), NEW i, i = call.virt \div TableSize,
           NEW g, g = FrameAt(call.table)
    PROVE  /\ call.pde \in directories /\ call.virt \in UserSpace
           /\ Unused(CallEntry) /\ NewTable /\ call.op # "unmap"
           /\ d \in Frames /\ i \in Indices /\ i \in 1..UserTables
           /\ g \in TableFrames
           /\ mem' = [mem EXCEPT ![d][i] = Entry(g, call.rights)]
           /\ call.at = "enter" /\ call' = [call EXCEPT !.at = "entered"]
           /\ UNCHANGED <<leftover, heapTop, directories, CurrentPageDirectory,
                          CurrentPageDirectoryPhys, framesTaken, rewritten>>
           /\ tlb' = [v \in WatchedPages |-> tlb[v] \cup Found'[v]]
<1>1. /\ call.at = "enter" /\ call.pde \in directories /\ call.virt \in UserSpace
      /\ Unused(CallEntry) /\ NewTable /\ call.op # "unmap"
    BY DEF EnterTable, Inv, CallInv
<1>2. Tables
    BY InvTables
<1>3. d \in Frames /\ i \in Indices /\ i \in 1..UserTables
    BY <1>1, <1>2, DirectoryFrame, UserPageParts
<1>4. g \in TableFrames /\ call.table = KernelPage(g - 1)
    BY <1>1 DEF NewTable
<1>5. g \in 1..(3 + heapTop)
    BY <1>4 DEF TableFrames
<1>6. MmVirtToPhys(CurrentPageDirectory, call.table) = g
    BY <1>2, <1>4, <1>5, VirtToPhys
<1>7. Deref(call.pde) = d
    BY <1>1, <1>2, PointersLead
<1>8. mem' = [mem EXCEPT ![d][i] = Entry(g, call.rights)]
    BY <1>6, <1>7 DEF EnterTable
<1>9. /\ UNCHANGED <<leftover, heapTop, directories, CurrentPageDirectory,
                     CurrentPageDirectoryPhys, framesTaken, rewritten>>
      /\ tlb' = [v \in WatchedPages |-> tlb[v] \cup Found'[v]]
      /\ call' = [call EXCEPT !.at = "entered"]
    BY DEF EnterTable, Storing, loaded
<1> QED
    BY <1>1, <1>3, <1>4, <1>8, <1>9

\* The entry stored into one frame; the others keep theirs.
LEMMA OneEntry ==
    ASSUME mem \in [Frames -> [Indices -> Entries]], NEW d \in Frames,
           NEW i \in Indices, NEW e \in Entries, mem' = [mem EXCEPT ![d][i] = e]
    PROVE  /\ mem' \in [Frames -> [Indices -> Entries]]
           /\ mem'[d][i] = e
           /\ \A f \in Frames \ {d} : mem'[f] = mem[f]
           /\ \A f \in Frames, j \in Indices : f # d \/ j # i => mem'[f][j] = mem[f][j]
<1>1. mem[d] \in [Indices -> Entries]
    OBVIOUS
<1>2. mem' = [mem EXCEPT ![d] = [mem[d] EXCEPT ![i] = e]]
    OBVIOUS
<1> DEFINE table == [mem[d] EXCEPT ![i] = e]
<1>3. /\ table \in [Indices -> Entries] /\ table[i] = e
      /\ \A j \in Indices \ {i} : table[j] = mem[d][j]
    BY <1>1
<1>4. mem' = [mem EXCEPT ![d] = table]
    BY <1>2
<1> HIDE DEF table
<1>5. /\ mem' \in [Frames -> [Indices -> Entries]] /\ mem'[d] = table
      /\ \A f \in Frames \ {d} : mem'[f] = mem[f]
    BY <1>3, <1>4
<1> QED
    BY <1>3, <1>5

\* What CPU has found and what it finds after a store.
LEMMA KeptTyped ==
    ASSUME Inv, Tables', tlb' = [v \in WatchedPages |-> tlb[v] \cup Found'[v]]
    PROVE  tlb' \in [WatchedPages -> SUBSET [frame : Frames, rights : Rights]]
<1>1. tlb \in [WatchedPages -> SUBSET [frame : Frames, rights : Rights]]
    BY DEF Inv, TypeOK, Rights
<1>2. Found' \in [WatchedPages -> SUBSET [frame : Frames, rights : Rights]]
    BY FoundNext DEF FoundOK
<1>3. \A v \in WatchedPages : tlb[v] \cup Found'[v] \in SUBSET [frame : Frames, rights : Rights]
    BY <1>1, <1>2
<1> QED
    BY <1>3

LEMMA EnterTableKeeps ==
    ASSUME Inv, EnterTable
    PROVE  Inv'
<1> DEFINE d == FrameAt(call.pde)
           i == call.virt \div TableSize
           g == FrameAt(call.table)
           e == Entry(g, call.rights)
<1>1. /\ call.pde \in directories /\ call.virt \in UserSpace
      /\ Unused(CallEntry) /\ NewTable /\ call.op # "unmap"
      /\ d \in Frames /\ i \in Indices /\ i \in 1..UserTables /\ g \in TableFrames
      /\ mem' = [mem EXCEPT ![d][i] = e]
      /\ call.at = "enter" /\ call' = [call EXCEPT !.at = "entered"]
      /\ UNCHANGED <<leftover, heapTop, directories, CurrentPageDirectory,
                     CurrentPageDirectoryPhys, framesTaken, rewritten>>
      /\ tlb' = [v \in WatchedPages |-> tlb[v] \cup Found'[v]]
    BY EnterTableStores
<1>2. Tables /\ call \in CallType
    BY InvTables DEF Inv, TypeOK, CallType
<1>3. /\ e \in Entries /\ e.Present /\ e.PhysAddress = g
    <2>1. call.rights \in Rights /\ g \in Frames
        BY <1>1, <1>2, ConstantsAssumption, TableFramesApart DEF CallType, Rights
    <2> QED
        BY <2>1 DEF Entry, Entries
<1>4. \A pd \in directories : /\ FrameAt(pd) \in Frames
                              /\ FrameAt(pd) = d => pd = call.pde
                              /\ FrameAt(pd) \notin {1, 3}
                              /\ IsDirectory(FrameAt(pd))
    BY <1>1, <1>2, DirectoryFrame, DirectoriesApart
<1>5. /\ \A pd \in directories : \A j \in 1..UserTables :
             pd # call.pde \/ j # i => g # mem[FrameAt(pd)][j].PhysAddress
      /\ CallEntry = mem[d][i] /\ ~Linked(CallEntry)
    <2>1. ~Linked(CallEntry)
        BY <1>1, <1>2, UnusedUnlinked
    <2> QED
        BY <1>1, <2>1 DEF NewTable, CallEntry
<1> HIDE DEF d, i, g, e
<1>6. /\ mem' \in [Frames -> [Indices -> Entries]] /\ mem'[d][i] = e
      /\ \A f \in Frames \ {d} : mem'[f] = mem[f]
      /\ \A f \in Frames, j \in Indices : f # d \/ j # i => mem'[f][j] = mem[f][j]
    BY <1>1, <1>2, <1>3, MemTyped, OneEntry
<1>7. TableFrames' = TableFrames /\ \A f \in Frames : IsDirectory(f)' <=> IsDirectory(f)
    BY <1>1 DEF TableFrames, IsDirectory
<1>8. KernelTables'
    <2>1. d \notin {1, 3}
        BY <1>1, <1>4 DEF d
    <2>2. mem'[1] = mem[1] /\ mem'[3] = mem[3]
        BY <1>6, <2>1, KernelTableFrames
    <2> QED
        BY <1>1, <2>2 DEF Inv, KernelTables, ZeroIdentityPage, KernelPageTables
<1>9. Directories'
    BY <1>1 DEF Inv, Directories
<1>10. BasicEntries'
    <2>1. i # 0 /\ i # Kernel /\ 0 \in Indices /\ Kernel \in Indices
        BY <1>1, KernelTableFrames, Sizes
    <2> QED
        BY <1>1, <1>4, <1>6, <2>1 DEF Inv, BasicEntries
<1>11. UserEntries'
    <2> SUFFICES ASSUME NEW pd \in directories, NEW j \in 1..UserTables
                 PROVE  \/ Unused(mem[FrameAt(pd)][j])'
                        \/ Linked(mem[FrameAt(pd)][j])'
        BY <1>1 DEF UserEntries
    <2>1. CASE FrameAt(pd) = d /\ j = i
        BY <1>1, <1>3, <1>6, <1>7, <2>1 DEF Linked
    <2>2. CASE FrameAt(pd) # d \/ j # i
        <3>1. j \in Indices
            BY Sizes DEF Indices
        <3>2. mem'[FrameAt(pd)][j] = mem[FrameAt(pd)][j]
            BY <1>4, <1>6, <2>2, <3>1
        <3> QED
            BY <1>1, <1>7, <3>2 DEF Inv, UserEntries, Unused, Linked
    <2> QED
        BY <2>1, <2>2
<1>12. TableEntries'
    <2> SUFFICES ASSUME NEW f \in Frames, NEW j \in Indices,
                        f \notin {1, 3}, ~IsDirectory(f)'
                 PROVE  mem'[f][j].PhysAddress \in {0, DataFrame}
        BY DEF TableEntries
    <2>1. ~IsDirectory(f) /\ f # d
        BY <1>1, <1>4, <1>7 DEF d
    <2> QED
        BY <1>6, <2>1 DEF Inv, TableEntries
<1>13. TablesNotShared'
    <2> SUFFICES ASSUME NEW pd \in directories, NEW qd \in directories,
                        NEW j \in 1..UserTables, NEW k \in 1..UserTables,
                        Linked(mem[FrameAt(pd)][j])',
                        mem'[FrameAt(pd)][j].PhysAddress = mem'[FrameAt(qd)][k].PhysAddress
                 PROVE  pd = qd /\ j = k
        BY <1>1 DEF TablesNotShared
    <2>1. j \in Indices /\ k \in Indices
        BY Sizes DEF Indices
    <2>2. mem'[FrameAt(pd)][j] = IF pd = call.pde /\ j = i THEN e
                                 ELSE mem[FrameAt(pd)][j]
        BY <1>4, <1>6, <2>1 DEF d
    <2>3. mem'[FrameAt(qd)][k] = IF qd = call.pde /\ k = i THEN e
                                 ELSE mem[FrameAt(qd)][k]
        BY <1>4, <1>6, <2>1 DEF d
    <2>4. CASE (pd = call.pde /\ j = i) \/ (qd = call.pde /\ k = i)
        BY <1>3, <1>5, <2>2, <2>3, <2>4
    <2>5. CASE ~(pd = call.pde /\ j = i) /\ ~(qd = call.pde /\ k = i)
        <3>1. Linked(mem[FrameAt(pd)][j])
            BY <1>7, <2>2, <2>5 DEF Linked
        <3> QED
            BY <2>2, <2>3, <2>5, <3>1 DEF Inv, TablesNotShared
    <2> QED
        BY <2>4, <2>5
<1>14. HeapFresh'
    <2> SUFFICES ASSUME NEW f \in (4 + heapTop)..(3 + HeapFrames)
                 PROVE  Fresh(f)'
        BY <1>1 DEF HeapFresh
    <2>1. heapTop \in Nat
        BY DEF Inv, TypeOK
    <2>2. d \in {2} \cup 4..(3 + heapTop)
        BY <1>1, <1>2, DirectoryFrame DEF d
    <2>3. f \in Frames /\ f # d
        BY <2>1, <2>2, Sizes DEF Frames
    <2>4. mem'[f] = mem[f] /\ Fresh(f)
        BY <1>6, <2>3 DEF Inv, HeapFresh
    <2> QED
        BY <1>1, <2>4 DEF Fresh
<1>15. call' \in CallType /\ call'.at = "entered" /\ call'.op = call.op
       /\ call'.pde = call.pde /\ call'.virt = call.virt
    BY <1>1, <1>2 DEF CallType
<1>16. CallInv'
    <2>1. CallEntry' = e
        BY <1>6, <1>15 DEF CallEntry, d, i
    <2>2. Linked(CallEntry)'
        BY <1>1, <1>3, <1>7, <2>1 DEF Linked
    <2> QED
        BY <1>1, <1>15, <2>2 DEF CallInv, Fields
<1>17. TypeOK'
    <2>1. Tables'
        BY <1>1, <1>6, <1>8, <1>9, <1>10, <1>11, <1>12
        DEF Tables, MemoryTyped, Inv, TypeOK
    <2>2. tlb' \in [WatchedPages -> SUBSET [frame : Frames, rights : Rights]]
        BY <1>1, <2>1, KeptTyped
    <2> QED
        BY <1>1, <1>6, <1>15, <2>2 DEF Inv, TypeOK, CallType, Entries, Rights
<1> QED
    BY <1>8, <1>9, <1>10, <1>11, <1>12, <1>13, <1>14, <1>16, <1>17 DEF Inv

\* What the pointer of a store leads to: the table it was taken from, or data
\* mapped at the same number if the table is not in the first 4 MiB.
LEMMA StoreTarget ==
    ASSUME Inv, call.at \in Fields, NEW table, table = Deref(call.pte)
    PROVE  /\ call.pde \in directories /\ call.virt \in UserSpace
           /\ Linked(CallEntry) /\ call.pte = CallEntry.PhysAddress
           /\ call.pte \in TableFrames
           /\ call.pte < TableSize => table = call.pte
           /\ ~(call.pte < TableSize) =>
                  call.pte = TableSize /\ table \in {0, DataFrame, Nowhere}
           /\ table \in {call.pte, 0, DataFrame, Nowhere}
<1>1. /\ call.pde \in directories /\ call.virt \in UserSpace
      /\ Linked(CallEntry) /\ call.pte = CallEntry.PhysAddress
    BY DEF Inv, CallInv
<1>2. Tables /\ heapTop \in 0..HeapFrames
    BY InvTables DEF Inv, TypeOK
<1>3. call.pte \in TableFrames
    BY <1>1 DEF Linked
<1>4. call.pte \in 4..(3 + heapTop) /\ call.pte \in Frames
    BY <1>2, <1>3, TableFramesApart DEF TableFrames
<1>5. CASE call.pte < TableSize
    <2>1. call.pte \in Indices \cap Frames
        BY <1>4, <1>5, Sizes DEF Indices
    <2>2. table = call.pte
        BY <1>2, <2>1, PointersLead
    <2> QED
        BY <1>1, <1>3, <1>5, <2>2
<1>6. CASE ~(call.pte < TableSize)
    <2>1. call.pte = TableSize
        BY <1>2, <1>4, <1>6, Sizes
    <2> DEFINE e == mem[CurrentPageDirectoryPhys][1]
               f == e.PhysAddress
               p == mem[f][0]
    <2>2. TableSize \in UserSpace /\ TableSize \div TableSize = 1
          /\ TableSize % TableSize = 0
        BY TableEnds
    <2>3. CurrentPageDirectory \in directories
          /\ CurrentPageDirectoryPhys = FrameAt(CurrentPageDirectory)
        BY <1>2, Loaded
    <2>4. Unused(e) \/ Linked(e)
        <3>1. 1 \in 1..UserTables
            BY Sizes
        <3> QED
            BY <2>3, <3>1 DEF Inv, UserEntries
    <2>5. Walk(CurrentPageDirectoryPhys, TableSize) =
              IF e.Present /\ p.Present
              THEN [frame |-> p.PhysAddress, rights |-> e.Rights \cap p.Rights]
              ELSE Nowhere
        BY <2>2, WalkOf
    <2>6. e.Present => f \in TableFrames \cup {DataFrame}
        <3>1. CASE Linked(e)
            BY <3>1 DEF Linked
        <3>2. CASE e = Absent
            BY <3>2 DEF Absent
        <3>3. CASE e = Entry(DataFrame, {"User", "Writable"})
            BY <3>3 DEF Entry
        <3> QED
            BY <1>2, <2>4, <3>1, <3>2, <3>3 DEF Tables, MemoryTyped, Unused, Leftovers
    <2>7. e.Present => p.PhysAddress \in {0, DataFrame}
        BY <1>2, <2>6, TableFramesApart, KernelTableFrames DEF Inv, TableEntries
    <2> HIDE DEF e, f, p
    <2>8. Walk(CurrentPageDirectoryPhys, TableSize) = Nowhere
          \/ Walk(CurrentPageDirectoryPhys, TableSize).frame \in {0, DataFrame}
        BY <2>5, <2>7
    <2>9. table \in {0, DataFrame, Nowhere}
        BY <2>1, <2>8 DEF Deref, Translate
    <2> QED
        BY <1>1, <1>3, <1>6, <2>1, <2>9
<1> QED
    BY <1>5, <1>6

\* What a store leaves and what it changes of an entry.
LEMMA StoredEntry ==
    ASSUME call.at \in Fields, NEW old \in Entries, NEW e, e = Stored(old)
    PROVE  /\ e \in Entries
           /\ e.PhysAddress = IF call.at # "PhysAddress" THEN old.PhysAddress
                              ELSE IF call.op = "unmap" THEN 0 ELSE DataFrame
           /\ e.Present = IF call.at # "Present" THEN old.Present
                          ELSE call.op # "unmap"
           /\ e.Rights = IF call.at \notin {"User", "Writable"} THEN old.Rights
                         ELSE IF call.at \in call.rights
                         THEN old.Rights \cup {call.at} ELSE old.Rights \ {call.at}
<1>1. CASE call.at = "PhysAddress"
    BY <1>1, KernelTableFrames DEF Stored, Entries
<1>2. CASE call.at = "Present"
    BY <1>2 DEF Stored, Entries
<1>3. CASE call.at \in {"User", "Writable"}
    <2> DEFINE new == IF call.at \in call.rights THEN old.Rights \cup {call.at}
                      ELSE old.Rights \ {call.at}
    <2>1. new \in Rights
        BY <1>3 DEF Entries, Rights
    <2>2. e = [old EXCEPT !.Rights = new]
        BY <1>3 DEF Stored
    <2> HIDE DEF new
    <2>3. /\ e \in Entries /\ e.Rights = new
          /\ e.PhysAddress = old.PhysAddress /\ e.Present = old.Present
        BY <2>1, <2>2 DEF Entries
    <2> QED
        BY <1>3, <2>3 DEF new
<1> QED
    BY <1>1, <1>2, <1>3 DEF Fields

LEMMA FollowingField ==
    ASSUME call.at \in Fields
    PROVE  /\ Following(call.at) \in Fields \cup {"frame", "done"}
           /\ Following(call.at) # "PhysAddress"
           /\ Following(call.at) = "Present" => call.at = "PhysAddress"
           /\ Following(call.at) = "User" => call.at = "Present"
           /\ Following(call.at) = "Writable" => call.at = "User"
           /\ Following(call.at) \notin Fields => call.at = "Writable"
           /\ Following(call.at) = "frame" => call.op = "mmap"
           /\ Following(call.at) = "done" => call.op # "mmap"
<1>1. CASE call.at = "PhysAddress"
    BY <1>1 DEF Following, Fields
<1>2. CASE call.at = "Present"
    BY <1>2 DEF Following, Fields
<1>3. CASE call.at = "User"
    BY <1>3 DEF Following, Fields
<1>4. CASE call.at = "Writable"
    BY <1>4 DEF Following, Fields
<1> QED
    BY <1>1, <1>2, <1>3, <1>4 DEF Fields

\* The step that stores a field, when its pointer leads somewhere.
LEMMA StoreStores ==
    ASSUME Inv, Store, NEW table, table = Deref(call.pte), table # Nowhere,
           NEW i, i = call.virt % TableSize
    PROVE  /\ i \in Indices /\ mem \in [Frames -> [Indices -> Entries]]
           /\ table \in Frames /\ table \in TableFrames \cup {0, DataFrame}
           /\ mem[table][i] \in Entries /\ Stored(mem[table][i]) \in Entries
           /\ mem' = [mem EXCEPT ![table][i] = Stored(mem[table][i])]
           /\ mem'[table][i] = Stored(mem[table][i])
           /\ \A f \in Frames \ {table} : mem'[f] = mem[f]
           /\ \A f \in Frames, j \in Indices :
                  f # table \/ j # i => mem'[f][j] = mem[f][j]
           /\ call' \in CallType /\ call'.at = Following(call.at)
           /\ call'.pde = call.pde /\ call'.virt = call.virt /\ call'.op = call.op
           /\ call'.pte = call.pte /\ call'.rights = call.rights
           /\ call'.was = IF call.at = "PhysAddress" THEN mem[table][i].Present
                          ELSE call.was
           /\ rewritten' = IF call'.was /\ call.pde = CurrentPageDirectory
                           THEN rewritten \cup ({call.virt} \cap WatchedPages)
                           ELSE rewritten
<1>1. call.at \in Fields /\ Tables /\ call \in CallType
    BY InvTables DEF Store, Inv, TypeOK, CallType
<1>2. i \in Indices /\ mem \in [Frames -> [Indices -> Entries]]
    BY <1>1, StoreTarget, UserPageParts, MemTyped
<1>3. table \in Frames /\ table \in TableFrames \cup {0, DataFrame}
    BY <1>1, StoreTarget, TableFramesApart
<1>4. mem[table][i] \in Entries
    BY <1>2, <1>3
<1>5. Stored(mem[table][i]) \in Entries
    BY <1>1, <1>4, StoredEntry
<1> DEFINE was == IF call.at = "PhysAddress" THEN mem[table][i].Present ELSE call.was
<1>6. /\ mem' = [mem EXCEPT ![table][i] = Stored(mem[table][i])]
      /\ rewritten' = IF was /\ call.pde = CurrentPageDirectory
                      THEN rewritten \cup ({call.virt} \cap WatchedPages)
                      ELSE rewritten
      /\ call' = [call EXCEPT !.at = Following(call.at), !.was = was]
    BY DEF Store
<1>7. was \in BOOLEAN
    BY <1>1, <1>4 DEF Entries, CallType
<1>8. /\ mem'[table][i] = Stored(mem[table][i])
      /\ \A f \in Frames \ {table} : mem'[f] = mem[f]
      /\ \A f \in Frames, j \in Indices : f # table \/ j # i => mem'[f][j] = mem[f][j]
    <2> DEFINE e == Stored(mem[table][i])
    <2>1. e \in Entries /\ mem' = [mem EXCEPT ![table][i] = e]
        BY <1>5, <1>6
    <2> HIDE DEF e
    <2>2. /\ mem'[table][i] = e
          /\ \A f \in Frames \ {table} : mem'[f] = mem[f]
          /\ \A f \in Frames, j \in Indices :
                 f # table \/ j # i => mem'[f][j] = mem[f][j]
        BY <1>2, <1>3, <2>1, OneEntry
    <2> QED
        BY <2>2 DEF e
<1> HIDE DEF was
<1>9. /\ call' \in CallType /\ call'.at = Following(call.at)
      /\ call'.pde = call.pde /\ call'.virt = call.virt /\ call'.op = call.op
      /\ call'.pte = call.pte /\ call'.rights = call.rights /\ call'.was = was
    BY <1>1, <1>6, <1>7, FollowingField DEF CallType
<1> QED
    BY <1>2, <1>3, <1>4, <1>5, <1>6, <1>8, <1>9 DEF was

LEMMA StoreKeeps ==
    ASSUME Inv, Store
    PROVE  Inv'
<1> DEFINE table == Deref(call.pte)
           i == call.virt % TableSize
<1>1. /\ call.at \in Fields /\ call.pde \in directories /\ call.virt \in UserSpace
      /\ Linked(CallEntry) /\ call.pte \in TableFrames
      /\ call.pte = CallEntry.PhysAddress
    BY StoreTarget DEF Store
<1>2. Tables /\ call \in CallType
    BY InvTables DEF Inv, TypeOK, CallType
<1>3. /\ UNCHANGED <<leftover, heapTop, directories, CurrentPageDirectory,
                     CurrentPageDirectoryPhys, framesTaken>>
      /\ tlb' = [v \in WatchedPages |-> tlb[v] \cup Found'[v]]
    BY DEF Store, Storing, loaded
<1>4. TableFrames' = TableFrames /\ \A f \in Frames : IsDirectory(f)' <=> IsDirectory(f)
    BY <1>3 DEF TableFrames, IsDirectory
<1>5. Directories'
    BY <1>3 DEF Inv, Directories
<1>6. i \in Indices /\ call.virt \in Pages
    BY <1>1, UserPageParts
<1>8. ASSUME table = Nowhere
      PROVE  mem' = mem /\ rewritten' = rewritten
             /\ call' = [call EXCEPT !.at = "fault"]
    BY <1>8 DEF Store
<1> HIDE DEF table, i
<1>9. CASE table = Nowhere
    <2>1. call' \in CallType /\ call'.at = "fault"
        BY <1>2, <1>8, <1>9 DEF CallType
    <2>2. CallInv'
        BY <2>1 DEF CallInv, Fields
    <2>3. /\ KernelTables' /\ BasicEntries' /\ UserEntries' /\ TableEntries'
          /\ TablesNotShared' /\ HeapFresh'
        BY <1>3, <1>5, <1>8, <1>9, TablesKept
    <2>4. Tables'
        BY <1>2, <1>3, <1>5, <1>8, <1>9, <2>3 DEF Tables, MemoryTyped
    <2>5. tlb' \in [WatchedPages -> SUBSET [frame : Frames, rights : Rights]]
        BY <1>3, <2>4, KeptTyped
    <2>6. TypeOK'
        BY <1>3, <1>8, <1>9, <2>1, <2>5 DEF Inv, TypeOK, CallType, Rights
    <2> QED
        BY <1>5, <2>2, <2>3, <2>6 DEF Inv
<1>10. CASE table # Nowhere
    <2> DEFINE e == Stored(mem[table][i])
    <2>1. /\ table \in Frames /\ table \in TableFrames \cup {0, DataFrame}
          /\ mem[table][i] \in Entries /\ e \in Entries
          /\ mem' = [mem EXCEPT ![table][i] = e]
          /\ mem'[table][i] = e
          /\ \A f \in Frames \ {table} : mem'[f] = mem[f]
          /\ \A f \in Frames, j \in Indices :
                 f # table \/ j # i => mem'[f][j] = mem[f][j]
          /\ call' \in CallType /\ call'.at = Following(call.at)
          /\ call'.pde = call.pde /\ call'.virt = call.virt /\ call'.op = call.op
          /\ call'.pte = call.pte
          /\ rewritten' \subseteq rewritten \cup WatchedPages
        BY <1>10, StoreStores DEF table, i
    <2>2. /\ table \notin {1, 3} /\ ~IsDirectory(table)
          /\ table \notin (4 + heapTop)..(3 + HeapFrames)
        BY <1>2, <2>1, TableFramesApart
    <2>3. e.PhysAddress \in {0, DataFrame}
        <3>1. mem[table][i].PhysAddress \in {0, DataFrame}
            BY <1>6, <2>1, <2>2 DEF Inv, TableEntries
        <3> QED
            BY <1>1, <2>1, <3>1, StoredEntry
    <2> HIDE DEF e
    <2>6. mem' \in [Frames -> [Indices -> Entries]]
        BY <1>2, <1>6, <2>1, MemTyped, OneEntry
    <2>7. \A pd \in directories : /\ FrameAt(pd) \in Frames
                                  /\ mem'[FrameAt(pd)] = mem[FrameAt(pd)]
        BY <1>2, <2>1, <2>2, DirectoryFrame
    <2>8. KernelTables'
        <3>1. mem'[1] = mem[1] /\ mem'[3] = mem[3]
            BY <2>1, <2>2, KernelTableFrames
        <3> QED
            BY <1>3, <3>1 DEF Inv, KernelTables, ZeroIdentityPage, KernelPageTables
    <2>9. BasicEntries'
        BY <1>3, <2>7 DEF Inv, BasicEntries
    <2>10. UserEntries' /\ TablesNotShared'
        BY <1>3, <1>4, <2>7 DEF Inv, UserEntries, TablesNotShared, Unused, Linked
    <2>11. TableEntries'
        <3> SUFFICES ASSUME NEW f \in Frames, NEW j \in Indices,
                            f \notin {1, 3}, ~IsDirectory(f)'
                     PROVE  mem'[f][j].PhysAddress \in {0, DataFrame}
            BY DEF TableEntries
        <3>1. CASE f = table /\ j = i
            BY <2>1, <2>3, <3>1
        <3>2. CASE f # table \/ j # i
            BY <1>4, <2>1, <3>2 DEF Inv, TableEntries
        <3> QED
            BY <3>1, <3>2
    <2>12. HeapFresh'
        <3> SUFFICES ASSUME NEW f \in (4 + heapTop)..(3 + HeapFrames)
                     PROVE  Fresh(f)'
            BY <1>3 DEF HeapFresh
        <3>1. heapTop \in Nat
            BY DEF Inv, TypeOK
        <3>2. f \in Frames /\ f # table
            BY <2>2, <3>1, Sizes DEF Frames
        <3>3. mem'[f] = mem[f] /\ Fresh(f)
            BY <2>1, <3>2 DEF Inv, HeapFresh
        <3> QED
            BY <1>3, <3>3 DEF Fresh
    <2>14. CallInv'
        <3>1. CallEntry' = CallEntry
            BY <1>1, <2>1, <2>7 DEF CallEntry
        <3>2. Linked(CallEntry)'
            BY <1>1, <1>4, <3>1 DEF Linked
        <3> QED
            BY <1>1, <1>3, <2>1, <3>1, <3>2, FollowingField DEF CallInv, Fields
    <2>15. Tables'
        BY <1>2, <1>3, <1>5, <2>6, <2>8, <2>9, <2>10, <2>11 DEF Tables, MemoryTyped
    <2>16. tlb' \in [WatchedPages -> SUBSET [frame : Frames, rights : Rights]]
        BY <1>3, <2>15, KeptTyped
    <2>17. rewritten' \subseteq WatchedPages
        BY <2>1 DEF Inv, TypeOK
    <2>18. TypeOK'
        BY <1>3, <2>1, <2>6, <2>16, <2>17 DEF Inv, TypeOK, CallType, Entries, Rights
    <2> QED
        BY <1>5, <2>8, <2>9, <2>10, <2>11, <2>12, <2>14, <2>18 DEF Inv
<1> QED
    BY <1>9, <1>10

------------------------------------------------------------------------------
(* The invariant *)

LEMMA InitInv == Init => Inv
<1> SUFFICES ASSUME Init PROVE Inv
    OBVIOUS
<1>1. /\ heapTop = 0 /\ call = NoCall /\ directories = {KernelPage(1)}
      /\ CurrentPageDirectory = KernelPage(1) /\ CurrentPageDirectoryPhys = 2
      /\ leftover \in Leftovers /\ framesTaken = 0
      /\ tlb = [v \in WatchedPages |-> {}] /\ rewritten = {}
    BY DEF Init, TemporaryPageDirectory
<1>2. /\ 0 \in Frames /\ DataFrame \in Frames /\ {1, 2, 3} \subseteq Frames
      /\ 0 \in Indices /\ 1 \in Indices /\ Kernel \in Indices
      /\ \A i \in 1..UserTables : i \in Indices /\ i # 0 /\ i # Kernel
      /\ 0 # Kernel
    BY KernelTableFrames, Sizes DEF Indices
<1>3. 1 + 1 = 2 /\ FrameAt(KernelPage(1)) = 2
    BY <1>2, KernelPageParts
<1>4. To(1) \in Entries /\ To(3) \in Entries /\ Absent \in Entries
      /\ leftover \in Entries
    <2>1. {"User", "Writable"} \in Rights
        BY DEF Rights
    <2> QED
        BY <1>1, <1>2, <2>1, EntriesTyped DEF Leftovers
<1> DEFINE first == WithBasicEntries([i \in Indices |-> Absent])
           low   == [i \in Indices |-> To(i)]
           own   == [i \in Indices |-> IF i < 3 THEN To(i + 1) ELSE Absent]
           rest  == [i \in Indices |-> leftover]
<1>5. /\ first \in [Indices -> Entries]
      /\ first[0] = To(1) /\ first[Kernel] = To(3)
      /\ \A i \in 1..UserTables : first[i] = Absent
    <2>1. first = [[i \in Indices |-> Absent] EXCEPT ![0] = To(1), ![Kernel] = To(3)]
        BY DEF WithBasicEntries, ZeroIdentityPage, KernelPageTables
    <2> QED
        BY <1>2, <1>4, <2>1
<1>6. /\ low \in [Indices -> Entries] /\ own \in [Indices -> Entries]
      /\ rest \in [Indices -> Entries]
    <2>1. \A i \in Indices : i \in Frames
        BY DEF Frames
    <2>2. \A i \in Indices : i < 3 => i + 1 \in Frames
        BY <1>2 DEF Indices
    <2> QED
        BY <1>4, <2>1, <2>2, EntriesTyped
<1>7. mem = [f \in Frames |-> IF f = 2 THEN first ELSE IF f = 1 THEN low
                              ELSE IF f = 3 THEN own ELSE rest]
    BY DEF Init, TemporaryPageDirectory, ZeroIdentityPage, KernelPageTables
<1>8. /\ mem[2] = first /\ mem[1] = low /\ mem[3] = own
      /\ \A f \in Frames \ {1, 2, 3} : mem[f] = rest
    BY <1>2, <1>7
<1>9. mem \in [Frames -> [Indices -> Entries]]
    <2> HIDE DEF first, low, own, rest
    <2> QED
        BY <1>5, <1>6, <1>7
<1>10. \A i \in Indices : /\ mem[1][i] = To(i)
                          /\ mem[3][i] = IF i < 3 THEN To(i + 1) ELSE Absent
    BY <1>8
<1>11. \A f \in Frames \ {1, 2, 3}, i \in Indices : mem[f][i] = leftover
    BY <1>8
<1> HIDE DEF first, low, own, rest
<1>12. KernelTables
    BY <1>1, <1>10 DEF KernelTables, ZeroIdentityPage, KernelPageTables
<1>13. Directories
    BY <1>1, <1>3 DEF Directories
<1>14. BasicEntries
    BY <1>1, <1>3, <1>5, <1>8
    DEF BasicEntries, ZeroIdentityPage, KernelPageTables
<1>15. UserEntries
    BY <1>1, <1>3, <1>5, <1>8 DEF UserEntries, Unused
<1>16. TableFrames = {}
    BY <1>1 DEF TableFrames
<1>17. TablesNotShared
    BY <1>16 DEF TablesNotShared, Linked
<1>18. TableEntries
    <2> SUFFICES ASSUME NEW f \in Frames, NEW i \in Indices,
                        f \notin {1, 3}, ~IsDirectory(f)
                 PROVE  mem[f][i].PhysAddress \in {0, DataFrame}
        BY DEF TableEntries
    <2>1. f # 2
        <3>1. 2 - 1 = 1
            OBVIOUS
        <3> QED
            BY <1>1, <3>1 DEF IsDirectory
    <2>2. mem[f][i] = leftover
        BY <1>11, <2>1
    <2> QED
        BY <1>1, <2>2 DEF Leftovers, Absent, Entry
<1>19. HeapFresh
    <2> SUFFICES ASSUME NEW f \in (4 + heapTop)..(3 + HeapFrames)
                 PROVE  Fresh(f)
        BY DEF HeapFresh
    <2>1. f \in Frames \ {1, 2, 3}
        BY <1>1, Sizes DEF Frames
    <2> QED
        BY <1>11, <2>1 DEF Fresh
<1>20. CallInv
    BY <1>1 DEF CallInv, NoCall, Fields
<1>21. TypeOK
    <2>1. call \in CallType
        <3>1. 0 \in Pages
            BY TableEnds, Sizes DEF Pages
        <3> QED
            BY <1>1, <1>2, <3>1 DEF NoCall, CallType
    <2>2. heapTop \in 0..HeapFrames /\ framesTaken \in 0..PmFrames
        BY <1>1, ConstantsAssumption
    <2>3. directories \subseteq { KernelPage(i) : i \in Indices }
        BY <1>1, <1>2
    <2> QED
        BY <1>1, <1>2, <1>9, <2>1, <2>2, <2>3 DEF TypeOK, CallType, Entries, Rights
<1> QED
    BY <1>12, <1>13, <1>14, <1>15, <1>17, <1>18, <1>19, <1>20, <1>21 DEF Inv

LEMMA NextInv == Inv /\ [Next]_vars => Inv'
<1> SUFFICES ASSUME Inv, [Next]_vars PROVE Inv'
    OBVIOUS
<1>1. CASE UNCHANGED vars
    BY <1>1, StutterKeeps
<1>2. CASE \E pd \in directories : SwitchPageDirectory(pd)
    BY <1>2, SwitchKeeps
<1>3. CASE \/ \E v \in UserPages, rights \in AskedRights : Begin("map", v, rights)
           \/ \E v \in UserPages : Begin("unmap", v, {})
    BY <1>3, BeginKeeps
<1>4. CASE \E ptr \in UserPages \cup {NULL}, rights \in AskedRights :
               MmMmap(ptr, rights)
    BY <1>4, MmMmapKeeps
<1> QED
    BY <1>1, <1>2, <1>3, <1>4, MmAllocPageDirectoryKeeps, MmGetTableEntryKeeps,
       MallocTableKeeps, EnterTableKeeps, GetTableEntryAgainKeeps, StoreKeeps,
       ReturnKeeps, SearchTurnKeeps, CheckTurnKeeps, FrameTurnKeeps DEF Next

\* Every reachable state is well typed: every pointer the code notes and every
\* entry it stores names a frame or a page there is.
THEOREM TypeCorrect == Spec => []TypeOK
<1>1. Inv => TypeOK
    BY DEF Inv
<1> QED
    BY <1>1, InitInv, NextInv, PTL DEF Spec

LEMMA LoadedInv == Inv => DirectoryLoaded
<1> SUFFICES ASSUME Inv PROVE DirectoryLoaded
    OBVIOUS
<1>1. Tables
    BY InvTables
<1>2. /\ CurrentPageDirectory \in directories
      /\ CurrentPageDirectoryPhys = FrameAt(CurrentPageDirectory)
    BY <1>1, Loaded
<1>3. \A pd \in directories : FrameOf(pd) = FrameAt(pd)
    BY <1>1, DirectoryFrame
<1>4. ASSUME NEW pd \in directories, NEW v \in Pages, v \div TableSize \in {0, Kernel}
      PROVE  Walk(FrameOf(pd), v) = Walk(CurrentPageDirectoryPhys, v)
    <2>1. mem[FrameOf(pd)][v \div TableSize]
              = mem[CurrentPageDirectoryPhys][v \div TableSize]
        BY <1>2, <1>3, <1>4 DEF Inv, BasicEntries
    <2> QED
        BY <2>1 DEF Walk
<1> QED
    BY <1>2, <1>3, <1>4 DEF DirectoryLoaded

\* cr3 always holds the frame of the directory the kernel takes to be loaded,
\* and the kernel and the first 4 MiB look the same under every directory: the
\* timer handler may switch between any two steps of a call.
THEOREM SwitchingIsSafe == Spec => []DirectoryLoaded
BY InitInv, NextInv, LoadedInv, PTL DEF Spec

------------------------------------------------------------------------------
(* What steps make of addresses *)

AtTheirFrames == \A pd \in directories : FrameOf(pd) = FrameAt(pd)

LEMMA InvFrames == Inv => AtTheirFrames
BY InvTables, DirectoryFrame DEF AtTheirFrames

LEMMA InvFramesNext == Inv' => AtTheirFrames'
BY InvFrames, PTL

LEMMA FrameOfNext ==
    ASSUME Inv, Inv', NEW pd \in directories, directories \subseteq directories'
    PROVE  FrameOf(pd) = FrameAt(pd) /\ FrameOf(pd)' = FrameAt(pd)
BY InvFrames, InvFramesNext DEF AtTheirFrames

\* Stored entries decide; nothing else does.
LEMMA SameWalk ==
    ASSUME NEW d, NEW v,
           mem'[d][v \div TableSize] = mem[d][v \div TableSize],
           NEW f, f = mem[d][v \div TableSize].PhysAddress,
           mem[d][v \div TableSize].Present =>
               mem'[f][v % TableSize] = mem[f][v % TableSize]
    PROVE  Walk(d, v)' = Walk(d, v)
<1> DEFINE pde == mem[d][v \div TableSize]
           pte == mem[f][v % TableSize]
<1>1. Walk(d, v) = IF pde.Present /\ pte.Present
                   THEN [frame |-> pte.PhysAddress,
                         rights |-> pde.Rights \cap pte.Rights]
                   ELSE Nowhere
    BY DEF Walk
<1>2. Walk(d, v)' = IF pde.Present /\ mem'[f][v % TableSize].Present
                    THEN [frame |-> mem'[f][v % TableSize].PhysAddress,
                          rights |-> pde.Rights \cap mem'[f][v % TableSize].Rights]
                    ELSE Nowhere
    BY DEF Walk
<1> QED
    BY <1>1, <1>2

\* Where a directory entry for user space leads.
LEMMA EntryLeads ==
    ASSUME Inv, NEW pd \in directories, NEW i \in 1..UserTables,
           mem[FrameAt(pd)][i].Present
    PROVE  /\ mem[FrameAt(pd)][i].PhysAddress \in TableFrames \cup {DataFrame}
           /\ leftover = Absent \/ mem[FrameAt(pd)][i].PhysAddress # DataFrame
                  => Linked(mem[FrameAt(pd)][i])
<1> DEFINE e == mem[FrameAt(pd)][i]
<1>1. Unused(e) \/ Linked(e)
    BY DEF Inv, UserEntries
<1>2. CASE Linked(e)
    BY <1>2 DEF Linked
<1>3. CASE e = Absent
    BY <1>3 DEF Absent
<1>4. CASE e = leftover /\ leftover # Absent
    <2>1. e = Entry(DataFrame, {"User", "Writable"})
        BY <1>4 DEF Inv, TypeOK, Leftovers
    <2>2. e.PhysAddress = DataFrame
        BY <2>1 DEF Entry
    <2> QED
        BY <1>4, <2>2
<1> QED
    BY <1>1, <1>2, <1>3, <1>4 DEF Unused

LEMMA AllocWalk ==
    ASSUME Inv, MallocTable \/ MmAllocPageDirectory,
           NEW pd \in directories, NEW v \in UserSpace
    PROVE  Walk(FrameAt(pd), v)' = Walk(FrameAt(pd), v)
<1> DEFINE n == HeapFrame
           i == v \div TableSize
           f == mem[FrameAt(pd)][i].PhysAddress
<1>1. Tables /\ Available
    BY InvTables DEF MallocTable, MmAllocPageDirectory
<1>2. /\ \A g \in Frames \ {3} : Grown[g] = mem[g]
      /\ Grown \in [Frames -> [Indices -> Entries]]
    BY <1>1, GrownTables
<1>3. n \in Frames /\ n # DataFrame /\ n \notin TableFrames
      /\ \A qd \in directories : FrameAt(qd) \notin {1, 3, n}
    BY <1>1, NextFrame
<1>4. mem' = Grown \/ mem' = [Grown EXCEPT ![n] = WithBasicEntries(Grown[n])]
    BY DEF MallocTable, MmAllocPageDirectory
<1> HIDE DEF n
<1>5. \A g \in Frames \ {3, n} : mem'[g] = mem[g]
    BY <1>2, <1>3, <1>4
<1>6. mem'[FrameAt(pd)] = mem[FrameAt(pd)]
    BY <1>1, <1>3, <1>5, DirectoryFrame
<1>7. i \in 1..UserTables
    BY UserPageParts
<1>8. mem[FrameAt(pd)][i].Present => mem'[f] = mem[f]
    <2> SUFFICES ASSUME mem[FrameAt(pd)][i].Present PROVE mem'[f] = mem[f]
        OBVIOUS
    <2>1. f \in TableFrames \cup {DataFrame}
        BY <1>7, EntryLeads
    <2>2. f \in Frames /\ f # 3 /\ f # n
        BY <1>1, <1>3, <2>1, TableFramesApart
    <2> QED
        BY <1>5, <2>2
<1> QED
    BY <1>6, <1>8, SameWalk

LEMMA EnterWalk ==
    ASSUME Inv, EnterTable, leftover = Absent,
           NEW pd \in directories, NEW v \in UserSpace
    PROVE  Walk(FrameAt(pd), v)' = Walk(FrameAt(pd), v)
<1> DEFINE d == FrameAt(call.pde)
           i == call.virt \div TableSize
           g == FrameAt(call.table)
           e == Entry(g, call.rights)
           k == v \div TableSize
           f == mem[FrameAt(pd)][k].PhysAddress
<1>1. /\ call.pde \in directories /\ Unused(CallEntry) /\ NewTable
      /\ d \in Frames /\ i \in Indices /\ g \in TableFrames
      /\ mem' = [mem EXCEPT ![d][i] = e]
    BY EnterTableStores
<1>2. Tables /\ mem \in [Frames -> [Indices -> Entries]]
    BY InvTables, MemTyped
<1>3. e.Present /\ e.PhysAddress = g /\ CallEntry = mem[d][i]
    BY DEF Entry, CallEntry
<1>4. Fresh(g) /\ g \in Frames /\ IsDirectory(d) /\ FrameAt(pd) \in Frames
      /\ (FrameAt(pd) = d => pd = call.pde)
    BY <1>1, <1>2, TableFramesApart, DirectoryFrame, DirectoriesApart DEF NewTable
<1>5. k \in 1..UserTables /\ k \in Indices /\ v % TableSize \in Indices
    BY UserPageParts
<1>6. \A h \in Frames \ {d} : mem'[h] = mem[h]
    BY <1>1, <1>2
<1>7. mem'[d][i] = e /\ \A j \in Indices \ {i} : mem'[d][j] = mem[d][j]
    BY <1>1, <1>2
<1>8. CASE FrameAt(pd) = d /\ k = i
    <2>1. Walk(FrameAt(pd), v) = Nowhere
        BY <1>1, <1>2, <1>3, <1>8, WalkUnused
    <2>2. g # d
        BY <1>1, <1>2, <1>4, TableFramesApart
    <2>3. mem'[g][v % TableSize] = Absent
        BY <1>4, <1>5, <1>6, <2>2 DEF Fresh
    <2>4. mem'[FrameAt(pd)][v \div TableSize] = e
        BY <1>7, <1>8
    <2> HIDE DEF e, g, d
    <2>5. Walk(FrameAt(pd), v)' = Nowhere
        BY <1>3, <2>3, <2>4 DEF Walk, Absent
    <2> QED
        BY <2>1, <2>5
<1>9. CASE ~(FrameAt(pd) = d /\ k = i)
    <2>1. mem'[FrameAt(pd)][k] = mem[FrameAt(pd)][k]
        BY <1>4, <1>5, <1>6, <1>7, <1>9
    <2>2. mem[FrameAt(pd)][k].Present => mem'[f] = mem[f]
        <3> SUFFICES ASSUME mem[FrameAt(pd)][k].Present PROVE mem'[f] = mem[f]
            OBVIOUS
        <3>1. f \in TableFrames \cup {DataFrame}
            BY <1>5, EntryLeads
        <3>2. f \in Frames /\ f # d
            BY <1>2, <1>4, <3>1, TableFramesApart
        <3> QED
            BY <1>6, <3>2
    <2> QED
        BY <2>1, <2>2, SameWalk
<1> QED
    BY <1>8, <1>9

\* No store goes to a directory.
LEMMA StoreSparesDirectories ==
    ASSUME Inv, Store, NEW pd \in directories
    PROVE  mem'[FrameAt(pd)] = mem[FrameAt(pd)]
<1> DEFINE table == Deref(call.pte)
<1>1. CASE table = Nowhere
    BY <1>1 DEF Store
<1>2. CASE table # Nowhere
    <2>1. /\ table \in TableFrames \cup {0, DataFrame}
          /\ \A f \in Frames \ {table} : mem'[f] = mem[f]
        BY <1>2, StoreStores
    <2>2. table # FrameAt(pd) /\ FrameAt(pd) \in Frames
        BY <2>1, InvTables, TableFramesApart, DirectoryFrame
    <2> QED
        BY <2>1, <2>2
<1> QED
    BY <1>1, <1>2

\* A store changes the meaning of the call's page, in the call's directory.
LEMMA StoreWalk ==
    ASSUME Inv, Store, leftover = Absent,
           NEW pd \in directories, NEW v \in UserSpace
    PROVE  \/ Walk(FrameAt(pd), v)' = Walk(FrameAt(pd), v)
           \/ pd = call.pde /\ v = call.virt /\ call.pte < TableSize
<1> DEFINE table == Deref(call.pte)
           i == call.virt % TableSize
           k == v \div TableSize
           f == mem[FrameAt(pd)][k].PhysAddress
<1>1. /\ call.at \in Fields /\ call.pde \in directories /\ call.virt \in UserSpace
      /\ Linked(CallEntry) /\ call.pte = CallEntry.PhysAddress
      /\ call.pte \in TableFrames /\ table \in {call.pte, 0, DataFrame, Nowhere}
      /\ ~(call.pte < TableSize) => table \in {0, DataFrame, Nowhere}
    BY StoreTarget DEF Store
<1>2. Tables /\ mem \in [Frames -> [Indices -> Entries]]
    BY InvTables, MemTyped
<1>3. i \in Indices /\ v % TableSize \in Indices /\ k \in 1..UserTables
      /\ call.virt \div TableSize \in 1..UserTables
    BY <1>1, UserPageParts
<1>5. table = Nowhere => mem' = mem
    BY DEF Store
<1> HIDE DEF table, i
<1>6. CASE table = Nowhere
    BY <1>5, <1>6, SameWalk
<1>7. CASE table # Nowhere
    <2>1. /\ table \in TableFrames \cup {0, DataFrame} /\ table \in Frames
          /\ \A h \in Frames \ {table} : mem'[h] = mem[h]
          /\ \A h \in Frames, j \in Indices :
                 h # table \/ j # i => mem'[h][j] = mem[h][j]
        BY <1>7, StoreStores DEF table, i
    <2>2. ~IsDirectory(table)
        BY <1>2, <2>1, TableFramesApart
    <2>3. mem'[FrameAt(pd)] = mem[FrameAt(pd)]
        BY <1>2, <2>1, <2>2, DirectoryFrame
    <2>4. CASE ~mem[FrameAt(pd)][k].Present
        BY <2>3, <2>4, SameWalk
    <2>5. CASE mem[FrameAt(pd)][k].Present
        <3>1. Linked(mem[FrameAt(pd)][k])
            BY <1>3, <2>5, EntryLeads
        <3>2. f \in TableFrames /\ f \in Frames /\ f \notin {0, DataFrame}
            BY <1>2, <3>1, TableFramesApart DEF Linked
        <3>3. CASE f # table
            BY <2>1, <2>3, <3>2, <3>3, SameWalk
        <3>4. CASE f = table
            <4>1. table = call.pte /\ call.pte < TableSize
                BY <1>1, <1>7, <3>2, <3>4
            <4>2. pd = call.pde /\ k = call.virt \div TableSize
                BY <1>1, <1>3, <3>1, <3>4, <4>1
                DEF Inv, TablesNotShared, CallEntry
            <4>3. CASE v = call.virt
                BY <4>1, <4>2, <4>3
            <4>4. CASE v # call.virt
                <5>1. v % TableSize # i
                    BY <1>1, <4>2, <4>4, UserPageParts, SamePage DEF i
                <5>2. mem'[f][v % TableSize] = mem[f][v % TableSize]
                    BY <1>3, <2>1, <3>4, <5>1
                <5> QED
                    BY <2>3, <5>2, SameWalk
            <4> QED
                BY <4>3, <4>4
        <3> QED
            BY <3>3, <3>4
    <2> QED
        BY <2>4, <2>5
<1> QED
    BY <1>6, <1>7

\* Steps that leave memory alone leave addresses alone.
LEMMA MemoryChanges ==
    ASSUME [Next]_vars
    PROVE  /\ mem' = mem \/ MallocTable \/ MmAllocPageDirectory
                  \/ EnterTable \/ Store
           /\ leftover' = leftover /\ directories \subseteq directories'
<1>1. CASE UNCHANGED vars
    BY <1>1 DEF vars
<1>2. CASE \E pd \in directories : SwitchPageDirectory(pd)
    BY <1>2 DEF SwitchPageDirectory
<1>3. CASE \/ \E v \in UserPages, rights \in AskedRights : Begin("map", v, rights)
           \/ \E v \in UserPages : Begin("unmap", v, {})
           \/ \E ptr \in UserPages \cup {NULL}, rights \in AskedRights :
                 MmMmap(ptr, rights)
           \/ MmGetTableEntry \/ GetTableEntryAgain \/ Return
           \/ SearchTurn \/ CheckTurn
    <2>1. Looking
        BY <1>3 DEF Begin, MmMmap, MmGetTableEntry, GetTableEntryAgain, Return,
                    SearchTurn, CheckTurn
    <2> QED
        BY <2>1 DEF Looking, loaded
<1>4. CASE FrameTurn
    BY <1>4 DEF FrameTurn, loaded
<1>5. CASE MallocTable
    BY <1>5 DEF MallocTable, loaded
<1>6. CASE MmAllocPageDirectory
    BY <1>6 DEF MmAllocPageDirectory
<1>7. CASE EnterTable \/ Store
    BY <1>7 DEF EnterTable, Store, Storing, loaded
<1> QED
    BY <1>1, <1>2, <1>3, <1>4, <1>5, <1>6, <1>7 DEF Next

\* If new memory is zero, only the stores at the end of a call change what an
\* address means, and only that of the call's page in the call's directory.
LEMMA NextWalk ==
    ASSUME Inv, [Next]_vars, leftover = Absent,
           NEW pd \in directories, NEW v \in UserSpace
    PROVE  \/ Walk(FrameAt(pd), v)' = Walk(FrameAt(pd), v)
           \/ Store /\ pd = call.pde /\ v = call.virt /\ call.pte < TableSize
<1>1. CASE mem' = mem
    BY <1>1, SameWalk
<1>2. CASE MallocTable \/ MmAllocPageDirectory
    BY <1>2, AllocWalk
<1>3. CASE EnterTable
    BY <1>3, EnterWalk
<1>4. CASE Store
    BY <1>4, StoreWalk
<1> QED
    BY <1>1, <1>2, <1>3, <1>4, MemoryChanges

OnlyThatPageStep ==
    leftover = Absent =>
        \A pd \in directories, v \in UserPages :
            \/ Walk(FrameOf(pd), v)' = Walk(FrameOf(pd), v)
            \/ pd = call.pde /\ v = call.virt

\* A call changes the page it is about, in the directory it is about, and
\* nothing else of any address space: not the pages that share its table, nor
\* those of a directory that the timer handler has loaded meanwhile.
THEOREM OtherPagesKept == Spec => OnlyThatPage
<1>1. Inv /\ Inv' /\ [Next]_vars => OnlyThatPageStep
    <2> SUFFICES ASSUME Inv, Inv', [Next]_vars, leftover = Absent,
                        NEW pd \in directories, NEW v \in UserPages
                 PROVE  \/ Walk(FrameOf(pd), v)' = Walk(FrameOf(pd), v)
                        \/ pd = call.pde /\ v = call.virt
        BY DEF OnlyThatPageStep
    <2>1. FrameOf(pd) = FrameAt(pd) /\ FrameOf(pd)' = FrameAt(pd)
        BY MemoryChanges, FrameOfNext
    <2>2. \/ Walk(FrameAt(pd), v)' = Walk(FrameAt(pd), v)
          \/ pd = call.pde /\ v = call.virt
        BY UserPagesInSpace, NextWalk
    <2>3. Walk(FrameOf(pd), v)' = Walk(FrameAt(pd), v)'
        BY <2>1 DEF Walk
    <2> QED
        BY <2>1, <2>2, <2>3
<1>2. Inv /\ Inv' /\ [Next]_vars => [OnlyThatPageStep]_vars
    BY <1>1
<1>3. Spec => [][OnlyThatPageStep]_vars
    BY <1>2, InitInv, NextInv, PTL DEF Spec
<1> QED
    BY <1>3 DEF OnlyThatPage, OnlyThatPageStep

------------------------------------------------------------------------------
(* What the stores of a call leave in the entry, one by one *)

CallRights == call.op = "unmap" => call.rights = {}

Under == call.at \in Fields \ {"PhysAddress"} /\ call.pte < TableSize

\* The fields stored so far, as long as the table lies in the first 4 MiB.
Progress ==
    Under => LET e == mem[call.pte][call.virt % TableSize]
             IN  /\ e.PhysAddress = IF call.op = "unmap" THEN 0 ELSE DataFrame
                 /\ call.at # "Present" => e.Present = (call.op # "unmap")
                 /\ call.at = "Writable" =>
                        ("User" \in e.Rights => "User" \in call.rights)

\* The entry that has lost its Present bit and not yet all of its rights.
Leaving(f, i) ==
    /\ call.at \in {"User", "Writable"} /\ call.pte < TableSize
    /\ f = call.pte /\ i = call.virt % TableSize

\* If new memory is zero, an entry that is not present grants no rights but
\* on the way there, and one that was not present gains them one by one.
Clean ==
    leftover = Absent =>
        /\ \A f \in TableFrames, i \in Indices :
               mem[f][i].Present \/ mem[f][i].Rights = {} \/ Leaving(f, i)
        /\ Under /\ ~call.was =>
               LET e == mem[call.pte][call.virt % TableSize]
               IN  /\ call.at = "Present" => ~e.Present
                   /\ call.at \in {"Present", "User"} => e.Rights = {}
                   /\ call.at = "Writable" => "Writable" \notin e.Rights

StoresInv == CallRights /\ Progress /\ Clean

\* Steps that do not store a field leave the call alone or are before or after
\* its stores.
LEMMA OtherSteps ==
    ASSUME Inv, CallRights, [Next]_vars, ~Store
    PROVE  /\ \/ UNCHANGED <<call, mem, heapTop, directories>>
              \/ call.at \notin Fields /\ call'.at \notin Fields \ {"PhysAddress"}
           /\ CallRights'
<1>1. call \in CallType
    BY DEF Inv, TypeOK, CallType
<1>2. CASE UNCHANGED vars \/ \E pd \in directories : SwitchPageDirectory(pd)
    BY <1>2 DEF vars, SwitchPageDirectory, CallRights
<1>3. CASE \E v \in UserPages, rights \in AskedRights : Begin("map", v, rights)
    BY <1>3 DEF Begin, NoCall, Fields, CallRights
<1>4. CASE \E v \in UserPages : Begin("unmap", v, {})
    BY <1>4 DEF Begin, NoCall, Fields, CallRights
<1>5. CASE MmAllocPageDirectory
    BY <1>5 DEF MmAllocPageDirectory, Fields, CallRights
<1>6. CASE \E ptr \in UserPages \cup {NULL}, rights \in AskedRights :
               MmMmap(ptr, rights)
    BY <1>6 DEF MmMmap, NoCall, Fields, CallRights
<1>7. CASE Return
    BY <1>7 DEF Return, NoCall, Fields, CallRights
<1>8. CASE MmGetTableEntry
    BY <1>1, <1>8 DEF MmGetTableEntry, CallType, Fields, CallRights
<1>9. CASE MallocTable \/ EnterTable \/ GetTableEntryAgain
    BY <1>1, <1>9 DEF MallocTable, EnterTable, GetTableEntryAgain, CallType,
                      Fields, CallRights
<1>10. CASE SearchTurn
    BY <1>1, <1>10 DEF SearchTurn, After, CallType, Fields, CallRights
<1>11. CASE CheckTurn
    BY <1>1, <1>11 DEF CheckTurn, After, CallType, Fields, CallRights
<1>12. CASE FrameTurn
    BY <1>1, <1>12 DEF FrameTurn, CallType, Fields, CallRights
<1> QED
    BY <1>2, <1>3, <1>4, <1>5, <1>6, <1>7, <1>8, <1>9, <1>10, <1>11, <1>12 DEF Next

\* Steps that do not store a field leave tables alone; a new one is as malloc
\* has got it.
LEMMA OtherTables ==
    ASSUME Inv, Inv', [Next]_vars, ~Store, NEW f \in TableFrames'
    PROVE  f \in Frames /\ mem'[f] = mem[f] /\ (f \in TableFrames \/ Fresh(f))
<1>1. Tables /\ heapTop \in Nat
    BY InvTables DEF Tables, MemoryTyped
<1>2. /\ f \in 4..(3 + heapTop') /\ KernelPage(f - 1) \notin directories'
      /\ heapTop' \in 0..HeapFrames
    <2>1. f \in 4..(3 + heapTop') /\ KernelPage(f - 1) \notin directories'
        BY DEF TableFrames, IsDirectory
    <2>2. TypeOK'
        BY DEF Inv
    <2>3. heapTop' \in 0..HeapFrames
        BY <2>2 DEF TypeOK
    <2> QED
        BY <2>1, <2>3
<1>3. f \in Frames /\ f \in Nat
    <2>1. PICK top \in 0..HeapFrames : top = heapTop'
        BY <1>2
    <2>2. f \in 4..(3 + top)
        BY <1>2, <2>1
    <2>3. f \in 0..DataFrame
        BY ONLY <2>2, Sizes
    <2> QED
        BY <2>3, Sizes DEF Frames
<1>4. ~IsDirectory(f)
    BY <1>2, MemoryChanges DEF IsDirectory
<1>5. CASE mem' = mem /\ heapTop' = heapTop
    BY <1>2, <1>3, <1>4, <1>5 DEF TableFrames
<1>6. CASE EnterTable
    <2>1. heapTop' = heapTop
        BY <1>6 DEF EnterTable, Storing
    <2>2. f \in TableFrames
        BY <1>2, <1>4, <2>1 DEF TableFrames
    <2> DEFINE d == FrameAt(call.pde)
               i == call.virt \div TableSize
               e == Entry(FrameAt(call.table), call.rights)
    <2>3. d \in Frames /\ call.pde \in directories /\ mem' = [mem EXCEPT ![d][i] = e]
        BY <1>6, EnterTableStores
    <2>4. f # d
        BY <1>1, <1>4, <2>3, DirectoryFrame
    <2> HIDE DEF d, i, e
    <2>5. mem \in [Frames -> [Indices -> Entries]]
        BY <1>1, MemTyped
    <2> QED
        BY <1>3, <2>2, <2>3, <2>4, <2>5
<1>7. CASE MallocTable \/ MmAllocPageDirectory
    <2> DEFINE n == HeapFrame
    <2>1. Available /\ heapTop' = heapTop + 1
        BY <1>7 DEF MallocTable, MmAllocPageDirectory
    <2>2. n \in Frames /\ n = 4 + heapTop /\ HeapPage = KernelPage(n - 1)
          /\ n \in 4..(3 + HeapFrames)
        BY <1>1, <2>1, NextFrame
    <2>3. /\ Grown \in [Frames -> [Indices -> Entries]]
          /\ \A g \in Frames \ {3} : Grown[g] = mem[g]
        BY <2>1, GrownTables
    <2>4. \/ mem' = Grown
          \/ /\ mem' = [Grown EXCEPT ![n] = WithBasicEntries(Grown[n])]
             /\ directories' = directories \cup {HeapPage}
        BY <1>7 DEF MallocTable, MmAllocPageDirectory
    <2> HIDE DEF n
    <2>5. directories' = directories \cup {HeapPage} => f # n
        BY <1>2, <2>2 DEF IsDirectory
    <2>6. f # 3
        BY <1>2
    <2>7. mem'[f] = mem[f]
        BY <1>3, <2>2, <2>3, <2>4, <2>5, <2>6
    <2>8. CASE f = n
        <3>1. n \in (4 + heapTop)..(3 + HeapFrames)
            BY <1>1, <2>2, Sizes
        <3>2. Fresh(f)
            BY <2>8, <3>1 DEF Inv, HeapFresh
        <3> QED
            BY <1>3, <2>7, <3>2
    <2>9. CASE f # n
        <3>1. f \in 4..(3 + heapTop)
            BY <1>1, <1>2, <2>1, <2>2, <2>9
        <3> QED
            BY <1>3, <1>4, <2>7, <3>1 DEF TableFrames
    <2> QED
        BY <2>8, <2>9
<1>8. \/ UNCHANGED <<mem, heapTop>>
      \/ MallocTable \/ MmAllocPageDirectory \/ EnterTable
    <2>1. CASE UNCHANGED vars \/ \E pd \in directories : SwitchPageDirectory(pd)
        BY <2>1 DEF vars, SwitchPageDirectory
    <2>2. CASE \/ \E v \in UserPages, rights \in AskedRights : Begin("map", v, rights)
               \/ \E v \in UserPages : Begin("unmap", v, {})
               \/ \E ptr \in UserPages \cup {NULL}, rights \in AskedRights :
                     MmMmap(ptr, rights)
               \/ MmGetTableEntry \/ GetTableEntryAgain \/ Return
               \/ SearchTurn \/ CheckTurn
        <3>1. Looking
            BY <2>2 DEF Begin, MmMmap, MmGetTableEntry, GetTableEntryAgain, Return,
                        SearchTurn, CheckTurn
        <3> QED
            BY <3>1 DEF Looking
    <2>3. CASE FrameTurn
        BY <2>3 DEF FrameTurn
    <2> QED
        BY <2>1, <2>2, <2>3 DEF Next
<1> QED
    BY <1>5, <1>6, <1>7, <1>8

LEMMA OtherStores ==
    ASSUME Inv, Inv', StoresInv, [Next]_vars, ~Store
    PROVE  StoresInv'
<1>1. /\ \/ UNCHANGED <<call, mem, heapTop, directories>>
         \/ call.at \notin Fields /\ call'.at \notin Fields \ {"PhysAddress"}
      /\ CallRights' /\ leftover' = leftover
    BY OtherSteps, MemoryChanges DEF StoresInv
<1>2. CASE UNCHANGED <<call, mem, heapTop, directories>>
    <2>1. TableFrames' = TableFrames
        BY <1>2 DEF TableFrames, IsDirectory
    <2> QED
        BY <1>1, <1>2, <2>1 DEF StoresInv, Progress, Clean, Under, Leaving
<1>3. CASE call.at \notin Fields /\ call'.at \notin Fields \ {"PhysAddress"}
    <2>1. ~Under'
        BY <1>3 DEF Under
    <2>2. ASSUME leftover = Absent, NEW f \in TableFrames', NEW i \in Indices
          PROVE  mem'[f][i].Present \/ mem'[f][i].Rights = {}
        <3>1. mem'[f] = mem[f] /\ (f \in TableFrames \/ Fresh(f))
            BY OtherTables
        <3>2. ~Leaving(f, i)
            BY <1>3 DEF Leaving, Fields
        <3> QED
            BY <2>2, <3>1, <3>2 DEF StoresInv, Clean, Fresh, Absent
    <2> QED
        BY <1>1, <2>1, <2>2 DEF StoresInv, Progress, Clean
<1> QED
    BY <1>1, <1>2, <1>3

\* A store through a pointer that leads elsewhere, or nowhere.
LEMMA StoreMissesTables ==
    ASSUME Inv, StoresInv, Store, ~(call.pte < TableSize)
    PROVE  StoresInv'
<1> DEFINE table == Deref(call.pte)
           i == call.virt % TableSize
<1>1. /\ leftover' = leftover /\ TableFrames' = TableFrames /\ Tables
      /\ call.at \in Fields /\ call \in CallType
    BY InvTables
    DEF Store, Storing, loaded, TableFrames, IsDirectory, Inv, TypeOK, CallType
<1>2. table \in {0, DataFrame, Nowhere}
    BY <1>1, StoreTarget
<1>3. /\ call'.op = call.op /\ call'.rights = call.rights /\ call'.pte = call.pte
      /\ \A f \in TableFrames : mem'[f] = mem[f]
    <2>1. CASE table = Nowhere
        BY <1>1, <2>1 DEF Store, CallType
    <2>2. CASE table # Nowhere
        BY <1>1, <1>2, <2>2, StoreStores, TableFramesApart
    <2> QED
        BY <2>1, <2>2
<1>4. ~Under'
    BY <1>3 DEF Under
<1>5. ASSUME leftover = Absent, NEW f \in TableFrames, NEW j \in Indices
      PROVE  mem'[f][j].Present \/ mem'[f][j].Rights = {}
    BY <1>3, <1>5 DEF StoresInv, Clean, Leaving
<1> QED
    BY <1>1, <1>3, <1>4, <1>5 DEF StoresInv, CallRights, Progress, Clean

\* A store into the table of the page.
LEMMA StoreReaches ==
    ASSUME Inv, Store, call.pte < TableSize
    PROVE  /\ call.at \in Fields /\ call \in CallType
           /\ Deref(call.pte) = call.pte /\ call.pte # Nowhere
           /\ call.pte \in TableFrames /\ call.pte \in Frames
<1>1. call.at \in Fields /\ call \in CallType /\ Tables
    BY InvTables DEF Store, Inv, TypeOK, CallType
<1>2. Deref(call.pte) = call.pte /\ call.pte \in TableFrames
    BY <1>1, StoreTarget
<1>3. call.pte \in Frames /\ {} \in Rights
    BY <1>1, <1>2, TableFramesApart DEF Rights
<1> QED
    BY <1>1, <1>2, <1>3, FrameIsNotNowhere

LEMMA StoreHits ==
    ASSUME Inv, Store, call.pte < TableSize,
           NEW i, i = call.virt % TableSize,
           NEW old, old = mem[call.pte][i], NEW e, e = mem'[call.pte][i]
    PROVE  i \in Indices /\ old \in Entries /\ e \in Entries /\ e = Stored(old)
BY StoreReaches, StoreStores

LEMMA StoreProgress ==
    ASSUME Inv, StoresInv, Store, call.pte < TableSize
    PROVE  CallRights' /\ Progress' /\ TableFrames' = TableFrames
<1> DEFINE i == call.virt % TableSize
           old == mem[call.pte][i]
           e == mem'[call.pte][i]
<1>1. /\ call.at \in Fields /\ Deref(call.pte) = call.pte /\ call.pte # Nowhere
      /\ old \in Entries /\ e = Stored(old)
    BY StoreReaches, StoreHits
<1>2. /\ call'.at = Following(call.at) /\ call'.virt = call.virt
      /\ call'.op = call.op /\ call'.pte = call.pte /\ call'.rights = call.rights
    BY <1>1, StoreStores
<1>3. CallRights' /\ TableFrames' = TableFrames
    BY <1>2 DEF StoresInv, CallRights, TableFrames, IsDirectory, Store, Storing, loaded
<1>4. mem'[call'.pte][call'.virt % TableSize] = e
    BY <1>2
<1>5. /\ call.at \in Fields \ {"PhysAddress"} =>
             old.PhysAddress = IF call.op = "unmap" THEN 0 ELSE DataFrame
      /\ call.at \in {"User", "Writable"} => old.Present = (call.op # "unmap")
    BY <1>1 DEF StoresInv, Progress, Under, Fields
<1> HIDE DEF i, old, e
<1>6. e.PhysAddress = IF call.op = "unmap" THEN 0 ELSE DataFrame
    BY <1>1, <1>5, StoredEntry
<1>7. call'.at \in {"User", "Writable"} => e.Present = (call.op # "unmap")
    BY <1>1, <1>2, <1>5, StoredEntry, FollowingField
<1>8. call'.at = "Writable" => ("User" \in e.Rights => "User" \in call.rights)
    BY <1>1, <1>2, StoredEntry, FollowingField
<1>9. Progress'
    BY <1>2, <1>4, <1>6, <1>7, <1>8 DEF Progress, Under, Fields
<1> QED
    BY <1>3, <1>9

LEMMA StoreClean ==
    ASSUME Inv, StoresInv, Store, call.pte < TableSize
    PROVE  Clean'
<1> DEFINE i == call.virt % TableSize
           old == mem[call.pte][i]
           e == mem'[call.pte][i]
<1>1. /\ call.at \in Fields /\ Deref(call.pte) = call.pte /\ call.pte # Nowhere
      /\ call.pte \in TableFrames /\ i \in Indices
      /\ old \in Entries /\ e = Stored(old)
    BY StoreReaches, StoreHits
<1>2. /\ call'.at = Following(call.at) /\ call'.virt = call.virt
      /\ call'.op = call.op /\ call'.pte = call.pte /\ call'.rights = call.rights
      /\ call'.was = IF call.at = "PhysAddress" THEN old.Present ELSE call.was
      /\ \A f \in Frames, j \in Indices :
             f # call.pte \/ j # i => mem'[f][j] = mem[f][j]
    BY <1>1, StoreStores
<1>3. TableFrames' = TableFrames /\ TableFrames \subseteq Frames
    BY StoreProgress, InvTables, TableFramesApart
<1>4. mem'[call'.pte][call'.virt % TableSize] = e
    BY <1>2
<1> SUFFICES ASSUME leftover = Absent PROVE Clean'
    BY DEF Clean, Store, Storing, loaded
<1>5. old.Present \/ old.Rights = {} \/ call.at \in {"User", "Writable"}
    BY <1>1 DEF StoresInv, Clean, Leaving
<1>6. call.at \in Fields \ {"PhysAddress"} /\ ~call.was =>
          /\ call.at = "Present" => ~old.Present
          /\ call.at \in {"Present", "User"} => old.Rights = {}
          /\ call.at = "Writable" => "Writable" \notin old.Rights
    BY DEF StoresInv, Clean, Under
<1>7. call.at = "Writable" =>
          /\ old.Present = (call.op # "unmap")
          /\ "User" \in old.Rights => "User" \in call.rights
          /\ call.op = "unmap" => call.rights = {}
    BY DEF StoresInv, Progress, CallRights, Under, Fields
<1>8. /\ e.Present = IF call.at # "Present" THEN old.Present ELSE call.op # "unmap"
      /\ e.Rights = IF call.at \notin {"User", "Writable"} THEN old.Rights
                    ELSE IF call.at \in call.rights
                    THEN old.Rights \cup {call.at} ELSE old.Rights \ {call.at}
      /\ old.Rights \subseteq {"User", "Writable"}
    <2>1. old.Rights \subseteq {"User", "Writable"}
        BY <1>1 DEF Entries, Rights
    <2> QED
        BY <1>1, <2>1, StoredEntry
<1> HIDE DEF i, old, e
<1>9. e.Present \/ e.Rights = {} \/ call'.at \in {"User", "Writable"}
    <2>1. CASE call.at = "PhysAddress"
        BY <1>5, <1>8, <2>1
    <2>2. CASE call.at = "Present"
        BY <1>2, <2>2 DEF Following
    <2>3. CASE call.at = "User"
        BY <1>2, <2>3 DEF Following
    <2>4. CASE call.at = "Writable"
        BY <1>7, <1>8, <2>4
    <2> QED
        BY <1>1, <2>1, <2>2, <2>3, <2>4 DEF Fields
<1>10. ASSUME NEW f \in TableFrames, NEW j \in Indices
       PROVE  mem'[f][j].Present \/ mem'[f][j].Rights = {} \/ Leaving(f, j)'
    <2>1. CASE f = call.pte /\ j = i
        BY <1>2, <1>9, <2>1 DEF e, i, Leaving
    <2>2. CASE ~(f = call.pte /\ j = i)
        <3>1. mem'[f][j] = mem[f][j]
            BY <1>2, <1>3, <2>2
        <3>2. ~Leaving(f, j)
            BY <2>2 DEF Leaving, i
        <3> QED
            BY <3>1, <3>2 DEF StoresInv, Clean
    <2> QED
        BY <2>1, <2>2
<1>11. call'.at \in Fields \ {"PhysAddress"} /\ ~call'.was =>
           /\ call'.at = "Present" => ~e.Present
           /\ call'.at \in {"Present", "User"} => e.Rights = {}
           /\ call'.at = "Writable" => "Writable" \notin e.Rights
    <2>1. CASE call.at = "PhysAddress"
        <3>1. call'.at = "Present"
            BY <1>2, <2>1 DEF Following
        <3> QED
            BY <1>2, <1>5, <1>8, <2>1, <3>1
    <2>2. CASE call.at = "Present"
        <3>1. call'.at = "User"
            BY <1>2, <2>2 DEF Following
        <3> QED
            BY <1>2, <1>6, <1>8, <2>2, <3>1 DEF Fields
    <2>3. CASE call.at = "User"
        <3>1. call'.at = "Writable"
            BY <1>2, <2>3 DEF Following
        <3> QED
            BY <1>2, <1>6, <1>8, <2>3, <3>1 DEF Fields
    <2>4. CASE call.at = "Writable"
        BY <1>2, <2>4 DEF Following, Fields
    <2> QED
        BY <1>1, <2>1, <2>2, <2>3, <2>4 DEF Fields
<1> QED
    BY <1>3, <1>4, <1>10, <1>11 DEF Clean, Under

LEMMA StoresNext ==
    ASSUME Inv, Inv', StoresInv, [Next]_vars
    PROVE  StoresInv'
BY OtherStores, StoreMissesTables, StoreProgress, StoreClean DEF StoresInv

LEMMA StoresInit == Init => StoresInv
<1> SUFFICES ASSUME Init PROVE StoresInv
    OBVIOUS
<1>1. TableFrames = {}
    BY DEF Init, TableFrames
<1>2. call = NoCall
    BY DEF Init
<1> QED
    BY <1>1, <1>2
    DEF StoresInv, CallRights, Progress, Clean, Under, NoCall, Fields

------------------------------------------------------------------------------
(* What the CPU may keep *)

\* A switch starts afresh; any other step may keep what the MMU finds after it.
LEMMA MmuChanges ==
    ASSUME Inv, [Next]_vars
    PROVE  \/ \E pd \in directories : SwitchPageDirectory(pd)
           \/ /\ UNCHANGED <<CurrentPageDirectory, CurrentPageDirectoryPhys>>
              /\ rewritten \subseteq rewritten'
              /\ \A v \in WatchedPages : tlb'[v] \subseteq tlb[v] \cup Found'[v]
<1>1. CASE UNCHANGED vars
    BY <1>1 DEF vars, mmu
<1>2. CASE \/ \E v \in UserPages, rights \in AskedRights : Begin("map", v, rights)
           \/ \E v \in UserPages : Begin("unmap", v, {})
           \/ \E ptr \in UserPages \cup {NULL}, rights \in AskedRights :
                 MmMmap(ptr, rights)
           \/ MmGetTableEntry \/ GetTableEntryAgain \/ Return
           \/ SearchTurn \/ CheckTurn
    <2>1. Looking
        BY <1>2 DEF Begin, MmMmap, MmGetTableEntry, GetTableEntryAgain, Return,
                    SearchTurn, CheckTurn
    <2> QED
        BY <2>1 DEF Looking, loaded, mmu
<1>3. CASE FrameTurn
    BY <1>3 DEF FrameTurn, loaded, mmu
<1>4. CASE MallocTable
    BY <1>4 DEF MallocTable, loaded, mmu
<1>5. CASE MmAllocPageDirectory
    BY <1>5 DEF MmAllocPageDirectory, mmu
<1>6. CASE EnterTable
    BY <1>6 DEF EnterTable, Storing, loaded
<1>7. CASE Store
    <2> DEFINE table == Deref(call.pte)
    <2>1. CASE table = Nowhere
        BY <1>7, <2>1 DEF Store, Storing, loaded
    <2>2. CASE table # Nowhere
        <3>1. rewritten \subseteq rewritten'
            BY <1>7, <2>2, StoreStores
        <3> QED
            BY <1>7, <3>1 DEF Store, Storing, loaded
    <2> QED
        BY <2>1, <2>2
<1> QED
    BY <1>1, <1>2, <1>3, <1>4, <1>5, <1>6, <1>7 DEF Next

\* What the MMU finds for page v under the directory in frame d, before and
\* after a store that makes e of the entry old.
StoreFound(d, v, pde, old, e) ==
    /\ old = mem[call.pte][v % TableSize] /\ e = Stored(old)
    /\ Walk(d, v) = IF old.Present
                    THEN [frame |-> old.PhysAddress,
                          rights |-> pde.Rights \cap old.Rights]
                    ELSE Nowhere
    /\ Walk(d, v)' = IF e.Present
                     THEN [frame |-> e.PhysAddress,
                           rights |-> pde.Rights \cap e.Rights]
                     ELSE Nowhere
    /\ [frame |-> e.PhysAddress, rights |-> pde.Rights \cap e.Rights] # Nowhere

\* The page of a call whose table is in the first 4 MiB.
LEMMA WalkOfCall ==
    ASSUME Inv, StoresInv, Store, call.pte < TableSize,
           NEW d, d = FrameAt(call.pde), NEW v, v = call.virt
    PROVE  \E pde, old, e \in Entries : StoreFound(d, v, pde, old, e)
<1>0. PICK pde, old, e : /\ pde = CallEntry /\ old = mem[call.pte][v % TableSize]
                         /\ e = mem'[call.pte][v % TableSize]
    OBVIOUS
<1>1. /\ call.pde \in directories /\ call.virt \in UserSpace /\ Linked(pde)
      /\ call.pte = pde.PhysAddress /\ Tables
    BY <1>0, StoreTarget, InvTables DEF Store
<1>2. old \in Entries /\ e \in Entries /\ e = Stored(old)
    BY <1>0, StoreHits
<1>3. mem'[d] = mem[d] /\ d \in Frames
    BY <1>1, StoreSparesDirectories, DirectoryFrame
<1>4. pde = mem[d][v \div TableSize] /\ pde = mem'[d][v \div TableSize]
    BY <1>0, <1>3 DEF CallEntry
<1>5. pde \in Entries
    BY <1>1, <1>3, <1>4, MemTyped, UserPageParts
<1>6. pde.Present
    BY <1>1 DEF Linked
<1>7. pde.Rights \cap e.Rights \in Rights /\ e.PhysAddress \in Frames
    BY <1>2, <1>5 DEF Entries, Rights
<1>8. Walk(d, v) = IF old.Present
                   THEN [frame |-> old.PhysAddress,
                         rights |-> pde.Rights \cap old.Rights]
                   ELSE Nowhere
    BY <1>0, <1>1, <1>4, <1>6 DEF Walk
<1>9. Walk(d, v)' = IF e.Present
                    THEN [frame |-> e.PhysAddress,
                          rights |-> pde.Rights \cap e.Rights]
                    ELSE Nowhere
    BY <1>0, <1>1, <1>4, <1>6 DEF Walk
<1>10. [frame |-> e.PhysAddress, rights |-> pde.Rights \cap e.Rights] # Nowhere
    BY <1>7, FrameIsNotNowhere
<1> QED
    BY <1>0, <1>2, <1>5, <1>8, <1>9, <1>10 DEF StoreFound

\* A store into the entry of a page that was not present when the call came to
\* it does not take away what the MMU may have found meanwhile.
LEMMA StoreOnlyAdds ==
    ASSUME Inv, StoresInv, Store, leftover = Absent, call.pte < TableSize,
           NEW d, d = FrameAt(call.pde), NEW v, v = call.virt,
           ~call'.was, Walk(d, v) # Nowhere
    PROVE  /\ Walk(d, v)' # Nowhere /\ Walk(d, v)'.frame = Walk(d, v).frame
           /\ Walk(d, v).rights \subseteq Walk(d, v)'.rights
<1>0. PICK pde \in Entries, old \in Entries, e \in Entries :
          StoreFound(d, v, pde, old, e)
    BY WalkOfCall
<1>1. /\ old = mem[call.pte][v % TableSize] /\ e = Stored(old)
      /\ Walk(d, v) = IF old.Present
                      THEN [frame |-> old.PhysAddress,
                            rights |-> pde.Rights \cap old.Rights]
                      ELSE Nowhere
      /\ Walk(d, v)' = IF e.Present
                       THEN [frame |-> e.PhysAddress,
                             rights |-> pde.Rights \cap e.Rights]
                       ELSE Nowhere
      /\ [frame |-> e.PhysAddress, rights |-> pde.Rights \cap e.Rights] # Nowhere
    BY <1>0 DEF StoreFound
<1>2. /\ call.at \in Fields
      /\ call'.was = IF call.at = "PhysAddress" THEN old.Present ELSE call.was
    <2>1. PICK table, i : table = Deref(call.pte) /\ i = call.virt % TableSize
        OBVIOUS
    <2>2. call.at \in Fields /\ table = call.pte /\ table # Nowhere
        BY <2>1, StoreReaches
    <2>3. call'.was = IF call.at = "PhysAddress" THEN mem[table][i].Present
                      ELSE call.was
        BY <2>1, <2>2, StoreStores
    <2> QED
        BY <1>1, <2>1, <2>2, <2>3
<1>3. old.Present
    BY <1>1
<1>4. call.at # "PhysAddress" /\ ~call.was
    BY <1>2, <1>3
<1>5. /\ call.at = "Present" => ~old.Present
      /\ call.at = "User" => old.Rights = {}
      /\ call.at = "Writable" => "Writable" \notin old.Rights
    BY <1>1, <1>2, <1>4 DEF StoresInv, Clean, Under
<1>6. call.at \in {"User", "Writable"}
    BY <1>2, <1>3, <1>4, <1>5 DEF Fields
<1>7. /\ e.Present /\ e.PhysAddress = old.PhysAddress
      /\ e.Rights = IF call.at \in call.rights
                    THEN old.Rights \cup {call.at} ELSE old.Rights \ {call.at}
    BY <1>1, <1>2, <1>3, <1>6, StoredEntry
<1>8. old.Rights \subseteq e.Rights
    BY <1>5, <1>6, <1>7
<1>9. /\ Walk(d, v) = [frame |-> old.PhysAddress, rights |-> pde.Rights \cap old.Rights]
      /\ Walk(d, v)' = [frame |-> e.PhysAddress, rights |-> pde.Rights \cap e.Rights]
    BY <1>1, <1>3, <1>7
<1>10. Walk(d, v)' # Nowhere
    BY <1>1, <1>9
<1> QED
    BY <1>7, <1>8, <1>9, <1>10

LEMMA StaleNext ==
    ASSUME Inv, Inv', StoresInv, OnlyRewrittenStale, [Next]_vars
    PROVE  OnlyRewrittenStale'
<1> DEFINE walk(v) == Walk(CurrentPageDirectoryPhys, v)
           Right(kept, found) == /\ found # Nowhere /\ kept.frame = found.frame
                                 /\ kept.rights \subseteq found.rights
<1> SUFFICES ASSUME leftover = Absent, NEW v \in WatchedPages, v \notin rewritten',
                    NEW kept \in tlb'[v]
             PROVE  Right(kept, walk(v)')
    BY MemoryChanges DEF OnlyRewrittenStale
<1>1. Found'[v] = {walk(v)'} \ {Nowhere}
    BY DEF Found
<1>2. CASE kept \in Found'[v]
    BY <1>1, <1>2
<1>3. CASE \E pd \in directories : SwitchPageDirectory(pd)
    <2>1. tlb' = Found'
        BY <1>3 DEF SwitchPageDirectory
    <2>2. tlb'[v] = Found'[v]
        BY <2>1
    <2> QED
        BY <1>2, <2>2
<1>4. CASE /\ UNCHANGED <<CurrentPageDirectory, CurrentPageDirectoryPhys>>
           /\ rewritten \subseteq rewritten' /\ kept \in tlb[v]
    <2>1. PICK pd \in directories : CurrentPageDirectory = pd
        BY DEF Inv, Directories
    <2> DEFINE d == FrameAt(pd)
    <2>2. CurrentPageDirectoryPhys = d /\ CurrentPageDirectoryPhys' = d
        BY <1>4, <2>1 DEF Inv, Directories
    <2>3. Right(kept, Walk(d, v))
        BY <1>4, <2>2 DEF OnlyRewrittenStale
    <2>4. walk(v)' = Walk(d, v)'
        BY <2>2 DEF Walk
    <2>5. CASE Walk(d, v)' = Walk(d, v)
        BY <2>3, <2>4, <2>5
    <2>6. CASE Store /\ pd = call.pde /\ v = call.virt /\ call.pte < TableSize
        <3>1. ~call'.was
            <4>1. Deref(call.pte) # Nowhere
                BY <2>6, StoreReaches
            <4>2. rewritten' = IF call'.was /\ call.pde = CurrentPageDirectory
                               THEN rewritten \cup ({call.virt} \cap WatchedPages)
                               ELSE rewritten
                BY <2>6, <4>1, StoreStores
            <4> QED
                BY <2>1, <2>6, <4>2
        <3>2. /\ Walk(d, v)' # Nowhere /\ Walk(d, v)'.frame = Walk(d, v).frame
              /\ Walk(d, v).rights \subseteq Walk(d, v)'.rights
            BY <2>3, <2>6, <3>1, StoreOnlyAdds
        <3> QED
            BY <2>3, <2>4, <3>2
    <2> QED
        BY <2>5, <2>6, WatchedInSpace, NextWalk
<1> QED
    BY <1>2, <1>3, <1>4, MmuChanges

\* While new memory is zero, the CPU may grant too much or find a wrong frame
\* for a page only after MmUnmap or a second MmMap of it, and only until the
\* next switch.  The four stores of an entry, between any two of which it may
\* be found, leave it at most with fewer rights for a page that was not present.
THEOREM StaleOnlyIfRewritten == Spec => []OnlyRewrittenStale
<1>1. Init => OnlyRewrittenStale
    BY DEF Init, OnlyRewrittenStale
<1>2. Inv /\ Inv' /\ StoresInv /\ OnlyRewrittenStale /\ [Next]_vars
          => OnlyRewrittenStale'
    BY StaleNext
<1>3. Inv /\ Inv' /\ StoresInv /\ [Next]_vars => StoresInv'
    BY StoresNext
<1> QED
    BY <1>1, <1>2, <1>3, InitInv, NextInv, StoresInit, PTL DEF Spec

------------------------------------------------------------------------------
(* When the kernel faults *)

\* A linked entry leads beyond the first 4 MiB.
Beyond == \E pd \in directories, i \in 1..UserTables :
              /\ Linked(mem[FrameAt(pd)][i])
              /\ mem[FrameAt(pd)][i].PhysAddress >= TableSize

LEMMA FaultSteps ==
    ASSUME Inv, [Next]_vars, call'.at = "fault"
    PROVE  \/ UNCHANGED vars
           \/ /\ UNCHANGED <<leftover, mem, heapTop, directories>>
              /\ \/ Store /\ Deref(call.pte) = Nowhere
                 \/ (SearchTurn \/ CheckTurn) /\ OutOfReach(call.i)
<1>1. call \in CallType
    BY DEF Inv, TypeOK, CallType
<1>2. CASE UNCHANGED vars
    BY <1>2
<1>3. CASE Store
    <2>1. Deref(call.pte) = Nowhere
        <3> SUFFICES ASSUME Deref(call.pte) # Nowhere PROVE FALSE
            OBVIOUS
        <3>1. call.at \in Fields /\ call'.at = Following(call.at)
            BY <1>3, StoreStores DEF Store
        <3> QED
            BY <3>1, FollowingField DEF Fields
    <2> QED
        BY <1>3, <2>1 DEF Store, Storing, loaded
<1>4. CASE SearchTurn \/ CheckTurn
    <2>1. OutOfReach(call.i)
        BY <1>1, <1>4 DEF SearchTurn, CheckTurn, After, CallType
    <2> QED
        BY <1>4, <2>1 DEF SearchTurn, CheckTurn, Looking, loaded
<1>5. ~(\E pd \in directories : call.at # "fault" /\ SwitchPageDirectory(pd))
    BY DEF SwitchPageDirectory
<1>6. ~(\/ \E v \in UserPages, rights \in AskedRights : Begin("map", v, rights)
        \/ \E v \in UserPages : Begin("unmap", v, {}))
    BY DEF Begin, NoCall
<1>7. ~(\E ptr \in UserPages \cup {NULL}, rights \in AskedRights : MmMmap(ptr, rights))
    BY DEF MmMmap, NoCall
<1>8. ~(MmAllocPageDirectory \/ Return)
    BY DEF MmAllocPageDirectory, Return, NoCall
<1>9. ~(MmGetTableEntry \/ MallocTable \/ EnterTable \/ GetTableEntryAgain)
    BY <1>1 DEF MmGetTableEntry, MallocTable, EnterTable, GetTableEntryAgain, CallType
<1>10. ~FrameTurn
    BY <1>1 DEF FrameTurn, CallType
<1> QED
    BY <1>2, <1>3, <1>4, <1>5, <1>6, <1>7, <1>8, <1>9, <1>10 DEF Next

\* A page whose table is out of reach.
LEMMA OutOfReachBeyond ==
    ASSUME Inv, NEW v \in UserSpace, OutOfReach(v)
    PROVE  Beyond
<1> DEFINE entry == mem[FrameAt(CurrentPageDirectory)][v \div TableSize]
           table == MmGetTable(CurrentPageDirectory, v)
<1>1. Tables /\ CurrentPageDirectory \in directories
    BY InvTables, Loaded
<1>2. v \div TableSize \in 1..UserTables
    BY UserPageParts
<1>3. Linked(entry) /\ table = entry.PhysAddress
    BY <1>1, GetTable DEF OutOfReach, Table
<1>4. Deref(table) = Nowhere
    BY DEF OutOfReach, Table
<1> HIDE DEF table
<1>5. table \in TableFrames /\ table \in Frames /\ table \in Nat
    BY <1>1, <1>3, TableFramesApart, FramesAreNumbers DEF Linked
<1>6. ~(table < TableSize)
    <2> SUFFICES ASSUME table < TableSize PROVE FALSE
        OBVIOUS
    <2>1. table \in Indices \cap Frames
        BY <1>5, Sizes DEF Indices
    <2>2. Deref(table) = table
        BY <1>1, <2>1, PointersLead
    <2> QED
        BY <1>4, <1>5, <2>2, ConstantsAssumption
<1>7. entry.PhysAddress >= TableSize
    BY <1>3, <1>5, <1>6, Sizes
<1> QED
    BY <1>1, <1>2, <1>3, <1>7 DEF Beyond

LEMMA FaultBeyond ==
    ASSUME Inv, \/ Store /\ Deref(call.pte) = Nowhere
                \/ (SearchTurn \/ CheckTurn) /\ OutOfReach(call.i)
    PROVE  Beyond
<1>1. CASE Store /\ Deref(call.pte) = Nowhere
    <2>1. /\ call.pde \in directories /\ call.virt \in UserSpace
          /\ Linked(CallEntry) /\ call.pte = CallEntry.PhysAddress
          /\ ~(call.pte < TableSize) => call.pte = TableSize
        BY <1>1, StoreTarget DEF Store
    <2>2. ~(call.pte < TableSize)
        BY <1>1, StoreReaches
    <2>3. CallEntry.PhysAddress >= TableSize
        BY <2>1, <2>2, Sizes
    <2> QED
        BY <2>1, <2>3, UserPageParts DEF Beyond, CallEntry
<1>2. CASE (SearchTurn \/ CheckTurn) /\ OutOfReach(call.i)
    <2>1. call.i \in TableSize..(Kernel * TableSize)
        BY <1>2 DEF SearchTurn, CheckTurn, Inv, CallInv
    <2>2. call.i # Kernel * TableSize
        BY <1>2, InvTables, KernelPresent
    <2>3. call.i \in UserSpace
        BY <2>1, <2>2, UserEnd
    <2> QED
        BY <1>2, <2>3, OutOfReachBeyond
<1> QED
    BY <1>1, <1>2

LEMMA FaultsNext ==
    ASSUME Inv, Inv', FaultsOnlyBeyond, [Next]_vars
    PROVE  FaultsOnlyBeyond'
<1> SUFFICES ASSUME call'.at = "fault" PROVE FaultsOnlyBeyond'
    BY DEF FaultsOnlyBeyond
<1>1. CASE UNCHANGED vars
    BY <1>1 DEF vars, FaultsOnlyBeyond, FrameOf
<1>2. CASE /\ UNCHANGED <<leftover, mem, heapTop, directories>>
           /\ \/ Store /\ Deref(call.pte) = Nowhere
              \/ (SearchTurn \/ CheckTurn) /\ OutOfReach(call.i)
    <2>1. PICK pd \in directories, i \in 1..UserTables :
              /\ Linked(mem[FrameAt(pd)][i])
              /\ mem[FrameAt(pd)][i].PhysAddress >= TableSize
        BY <1>2, FaultBeyond DEF Beyond
    <2>2. FrameOf(pd)' = FrameAt(pd) /\ pd \in directories'
        BY <1>2, FrameOfNext
    <2>3. mem[FrameAt(pd)][i].Present /\ mem[FrameAt(pd)][i].PhysAddress # DataFrame
        BY <2>1, InvTables, TableFramesApart DEF Linked
    <2>4. mem'[FrameOf(pd)'][i] = mem[FrameAt(pd)][i]
        BY <1>2, <2>2
    <2> QED
        BY <2>1, <2>2, <2>3, <2>4 DEF FaultsOnlyBeyond
<1> QED
    BY <1>1, <1>2, FaultSteps

\* The kernel's pointers to tables fault only once a table lies beyond the
\* first 4 MiB, however often the directories are switched between finding a
\* pointer and using it.
THEOREM NoFaultInReach == Spec => []FaultsOnlyBeyond
<1>1. Init => FaultsOnlyBeyond
    BY DEF Init, NoCall, FaultsOnlyBeyond
<1>2. Inv /\ Inv' /\ FaultsOnlyBeyond /\ [Next]_vars => FaultsOnlyBeyond'
    BY FaultsNext
<1> QED
    BY <1>1, <1>2, InitInv, NextInv, PTL DEF Spec

------------------------------------------------------------------------------
(* What a call has done when it returns *)

\* Only the last steps of a call end it.
LEMMA DoneSteps ==
    ASSUME Inv, [Next]_vars, call'.at = "done", call'.op # "mmap"
    PROVE  MmGetTableEntry \/ Store \/ UNCHANGED <<call, mem, directories>>
<1>1. call \in CallType
    BY DEF Inv, TypeOK, CallType
<1>2. CASE UNCHANGED vars
    BY <1>2 DEF vars
<1>3. CASE \E pd \in directories : SwitchPageDirectory(pd)
    BY <1>3 DEF SwitchPageDirectory
<1>4. ~(\/ \E v \in UserPages, rights \in AskedRights : Begin("map", v, rights)
        \/ \E v \in UserPages : Begin("unmap", v, {}))
    BY DEF Begin, NoCall
<1>5. ~MmAllocPageDirectory
    BY DEF MmAllocPageDirectory
<1>6. ~(\E ptr \in UserPages \cup {NULL}, rights \in AskedRights : MmMmap(ptr, rights))
    BY DEF MmMmap, NoCall
<1>7. ~(MallocTable \/ EnterTable \/ GetTableEntryAgain)
    BY <1>1 DEF MallocTable, EnterTable, GetTableEntryAgain, CallType
<1>8. ~Return
    BY DEF Return, NoCall
<1>9. ~FrameTurn
    BY <1>1 DEF FrameTurn, CallType
<1>10. ~SearchTurn
    BY <1>1 DEF SearchTurn, After, CallType, Inv, CallInv
<1>11. ~CheckTurn
    BY <1>1 DEF CheckTurn, After, CallType, Inv, CallInv
<1> QED
    BY <1>2, <1>3, <1>4, <1>5, <1>6, <1>7, <1>8, <1>9, <1>10, <1>11 DEF Next

\* What the two properties of a call that is done say, in terms of the walk.
Asked(walk) ==
    IF call.op = "map"
    THEN walk # Nowhere /\ walk.frame = DataFrame /\ walk.rights \subseteq call.rights
    ELSE walk = Nowhere

AskedWhenDone ==
    (call.at = "done" /\ call.op # "mmap" /\ TablesLow) =>
        Asked(Walk(FrameOf(call.pde), call.virt))

\* MmUnmap has found no table.
LEMMA UnmapFindsNothing ==
    ASSUME Inv, MmGetTableEntry, call'.at = "done", TablesLow
    PROVE  /\ call.pde \in directories /\ call'.op = "unmap"
           /\ call'.pde = call.pde /\ call'.virt = call.virt
           /\ Walk(FrameAt(call.pde), call.virt) = Nowhere
<1>1. call \in CallType
    BY DEF Inv, TypeOK, CallType
<1>2. call.at = "entry" /\ call.pde \in directories /\ call.virt \in UserSpace
    BY DEF MmGetTableEntry, Inv, CallInv
<1>3. /\ MmGetTable(call.pde, call.virt) = NULL
      /\ call'.op = "unmap" /\ call'.pde = call.pde /\ call'.virt = call.virt
    BY <1>1 DEF MmGetTableEntry, CallType
<1>4. Unused(CallEntry)
    BY <1>2, <1>3, InvTables, GetTable DEF CallEntry
<1>5. CallEntry.PhysAddress # DataFrame
    <2>1. call.virt \div TableSize \in 1..UserTables
        BY <1>2, UserPageParts
    <2> QED
        BY <1>2, <2>1, InvFrames DEF TablesLow, AtTheirFrames, CallEntry
<1>6. CallEntry = Absent
    BY <1>4, <1>5 DEF Unused, Inv, TypeOK, Leftovers, Entry
<1>7. Walk(FrameAt(call.pde), call.virt) = Nowhere
    BY <1>6 DEF Walk, CallEntry, Absent
<1> QED
    BY <1>2, <1>3, <1>7

\* The last store to the table of the page completes what the call was for.
LEMMA StoreDone ==
    ASSUME Inv, StoresInv, Store, call'.at = "done", call.pte < TableSize,
           NEW pd, pd = call.pde, NEW v, v = call.virt,
           NEW walk, walk = Walk(FrameAt(pd), v)'
    PROVE  /\ call'.pde = pd /\ call'.virt = v /\ call'.op = call.op
           /\ call'.rights = call.rights /\ Asked(walk)
<1>0. PICK pde \in Entries, old \in Entries, e \in Entries :
          StoreFound(FrameAt(pd), v, pde, old, e)
    BY WalkOfCall
<1>1. /\ old = mem[call.pte][v % TableSize] /\ e = Stored(old)
      /\ walk = IF e.Present
                THEN [frame |-> e.PhysAddress,
                      rights |-> pde.Rights \cap e.Rights]
                ELSE Nowhere
      /\ [frame |-> e.PhysAddress, rights |-> pde.Rights \cap e.Rights] # Nowhere
    BY <1>0 DEF StoreFound
<1>2. /\ call.at \in Fields /\ call'.at = Following(call.at) /\ call \in CallType
      /\ call'.pde = pd /\ call'.virt = v /\ call'.op = call.op
      /\ call'.rights = call.rights
    BY StoreReaches, StoreStores
<1>3. call.at = "Writable" /\ call.op # "mmap"
    BY <1>2, FollowingField DEF Fields
<1>4. /\ old.PhysAddress = IF call.op = "unmap" THEN 0 ELSE DataFrame
      /\ old.Present = (call.op # "unmap")
      /\ "User" \in old.Rights => "User" \in call.rights
    BY <1>1, <1>3 DEF StoresInv, Progress, Under, Fields
<1>5. /\ e.PhysAddress = old.PhysAddress /\ e.Present = old.Present
      /\ e.Rights = IF "Writable" \in call.rights
                    THEN old.Rights \cup {"Writable"} ELSE old.Rights \ {"Writable"}
    <2>1. /\ e.PhysAddress = old.PhysAddress /\ e.Present = old.Present
          /\ e.Rights = IF call.at \in call.rights
                        THEN old.Rights \cup {call.at} ELSE old.Rights \ {call.at}
        BY <1>1, <1>2, <1>3, StoredEntry
    <2> QED
        BY <1>3, <2>1
<1>6. CASE call.op = "map"
    <2>1. walk = [frame |-> DataFrame, rights |-> pde.Rights \cap e.Rights]
        BY <1>1, <1>4, <1>5, <1>6
    <2>2. e.PhysAddress = DataFrame
        BY <1>4, <1>5, <1>6
    <2>3. walk # Nowhere
        BY <1>1, <2>1, <2>2
    <2>4. e.Rights \subseteq call.rights
        <3>1. old.Rights \subseteq {"User", "Writable"}
            BY <1>1 DEF Entries, Rights
        <3> QED
            BY <1>4, <1>5, <3>1
    <2> QED
        BY <1>2, <1>6, <2>1, <2>3, <2>4 DEF Asked
<1>7. CASE call.op # "map"
    <2>1. call.op = "unmap"
        BY <1>2, <1>3, <1>7 DEF CallType
    <2> QED
        BY <1>1, <1>2, <1>4, <1>5, <2>1 DEF Asked
<1> QED
    BY <1>6, <1>7

LEMMA AskedNext ==
    ASSUME Inv, Inv', StoresInv, AskedWhenDone, [Next]_vars
    PROVE  AskedWhenDone'
<1> SUFFICES ASSUME call'.at = "done", call'.op # "mmap", TablesLow'
             PROVE  Asked(Walk(FrameOf(call.pde), call.virt))'
    BY DEF AskedWhenDone
<1>1. CASE UNCHANGED <<call, mem, directories>>
    BY <1>1 DEF AskedWhenDone, TablesLow, Asked, FrameOf, Walk
<1>2. CASE MmGetTableEntry
    <2>1. UNCHANGED <<mem, directories>>
        BY <1>2 DEF MmGetTableEntry, Looking, loaded
    <2>2. TablesLow
        BY <2>1 DEF TablesLow, FrameOf
    <2>3. PICK pd \in directories, v \in {call.virt} : pd = call.pde /\ v = call.virt
        BY <1>2, <2>2, UnmapFindsNothing
    <2>4. /\ call'.op = "unmap" /\ call'.pde = pd /\ call'.virt = v
          /\ Walk(FrameAt(pd), v) = Nowhere
        BY <1>2, <2>2, <2>3, UnmapFindsNothing
    <2>5. FrameOf(pd)' = FrameAt(pd)
        BY FrameOfNext, MemoryChanges
    <2>6. Walk(FrameOf(call.pde), call.virt)' = Nowhere
        BY <2>1, <2>4, <2>5 DEF FrameOf, Walk
    <2> QED
        BY <2>4, <2>6 DEF Asked
<1>3. CASE Store
    <2>1. PICK pd \in directories, v \in UserSpace : pd = call.pde /\ v = call.virt
        BY <1>3, StoreTarget DEF Store
    <2>2. call.pte < TableSize
        <3> DEFINE i == v \div TableSize
        <3>1. directories' = directories /\ i \in 1..UserTables
            BY <1>3, UserPageParts DEF Store, Storing, loaded
        <3>2. mem'[FrameOf(pd)'][i].PhysAddress < TableSize
            BY <3>1 DEF TablesLow
        <3>3. mem'[FrameOf(pd)'][i] = mem[FrameAt(pd)][i]
            BY <1>3, FrameOfNext, MemoryChanges, StoreSparesDirectories
        <3>4. call.pte = mem[FrameAt(pd)][i].PhysAddress
            BY <1>3, <2>1, StoreTarget DEF Store, CallEntry
        <3> QED
            BY <3>2, <3>3, <3>4
    <2>3. PICK walk : walk = Walk(FrameAt(pd), v)'
        OBVIOUS
    <2>4. /\ call'.pde = pd /\ call'.virt = v /\ call'.op = call.op
          /\ call'.rights = call.rights /\ Asked(walk)
        BY <1>3, <2>1, <2>2, <2>3, StoreDone
    <2>5. FrameOf(pd)' = FrameAt(pd)
        BY FrameOfNext, MemoryChanges
    <2>6. Walk(FrameOf(call.pde), call.virt)' = walk
        BY <2>3, <2>4, <2>5 DEF FrameOf, Walk
    <2> QED
        BY <2>4, <2>6 DEF Asked
<1> QED
    BY <1>1, <1>2, <1>3, DoneSteps

LEMMA AskedAlways == Spec => []AskedWhenDone
<1>1. Init => AskedWhenDone
    BY DEF Init, NoCall, AskedWhenDone
<1>2. Inv /\ Inv' /\ StoresInv /\ AskedWhenDone /\ [Next]_vars => AskedWhenDone'
    BY AskedNext
<1>3. Inv /\ Inv' /\ StoresInv /\ [Next]_vars => StoresInv'
    BY StoresNext
<1> QED
    BY <1>1, <1>2, <1>3, InitInv, NextInv, StoresInit, PTL DEF Spec

\* As long as tables lie in the first 4 MiB, a call does what it was asked for
\* in the directory that was loaded when it began, whichever is loaded by then.
THEOREM CallsTakeEffect == Spec => []MappedWhereAsked
<1>1. Inv /\ AskedWhenDone => MappedWhereAsked
    <2> SUFFICES ASSUME Inv, AskedWhenDone,
                        call.at = "done", call.op # "mmap", TablesLow
                 PROVE  Translate(FrameOf(call.pde), call.virt) =
                            IF call.op = "map" THEN DataFrame ELSE Nowhere
        BY DEF MappedWhereAsked
    <2> QED
        BY DEF AskedWhenDone, Asked, Translate
<1> QED
    BY <1>1, AskedAlways, InitInv, NextInv, PTL DEF Spec

\* The rights a table was made with never add to those a page is mapped with.
THEOREM NoMoreRightsThanAsked == Spec => []RightsAsked
<1>1. AskedWhenDone => RightsAsked
    BY DEF AskedWhenDone, Asked, RightsAsked
<1> QED
    BY <1>1, AskedAlways, PTL

=============================================================================
