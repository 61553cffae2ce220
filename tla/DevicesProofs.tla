--------------------------- MODULE DevicesProofs ---------------------------
(***************************************************************************)
(* Proofs about the registries, the RAM disks and the console for any      *)
(* number of calls of any kind.  What KMain has still to call tells what   *)
(* the console may hold.                                                   *)
(***************************************************************************)
EXTENDS Devices, Suffixes

Names == OtherFilesystems \cup {Devfs}

NamesInv == VfsFsList \in Seq(Names) /\ NamesUnique

DiskTable ==
    [0..(RAMDISK_MAX_DISKS - 1) ->
        [BufferSize : BufferSizes \cup {0}, StreamCursor : 0..UINT64_MAX,
         Stream : BOOLEAN]]

DisksInv ==
    /\ RamDiskCount \in Nat /\ RamDiskEntries \in DiskTable
    /\ overrun \in BOOLEAN /\ CursorInBuffer

AllEntries == AllDevices \cup {NULL}

\* The initialisers in their order, from any of them on.
Boots == { <<"DmInit", "TTYInit", "RamDiskInit", "DevfsInit">>,
           <<"TTYInit", "RamDiskInit", "DevfsInit">>,
           <<"RamDiskInit", "DevfsInit">>, <<"DevfsInit">>, <<>> }

------------------------------------------------------------------------------
(* Names of file systems *)

LEMMA RegisterKeepsNames ==
    ASSUME NamesInv, NEW name \in Names, NEW memory \in BOOLEAN,
           VfsRegisterFilesystem(name, memory)
    PROVE  NamesInv'
<1> DEFINE ok == ~VfsIsFsRegistered(name) /\ memory
<1>1. CASE ~ok
    <2>1. VfsFsList' = VfsFsList
        BY <1>1 DEF VfsRegisterFilesystem
    <2> QED
        BY <2>1 DEF NamesInv, NamesUnique
<1>2. CASE ok
    <2>1. VfsFsList' = Append(VfsFsList, name) /\ name \notin Range(VfsFsList)
        BY <1>2 DEF VfsRegisterFilesystem, VfsIsFsRegistered
    <2>2. \A i \in 1..Len(VfsFsList) : VfsFsList[i] # name
        BY <2>1 DEF Range, NamesInv
    <2>3. \A i, j \in 1..Len(VfsFsList) :
              VfsFsList[i] = VfsFsList[j] => i = j
        BY DEF NamesInv, NamesUnique, IsInjective
    <2>4. /\ VfsFsList' \in Seq(Names) /\ Len(VfsFsList') = Len(VfsFsList) + 1
          /\ VfsFsList'[Len(VfsFsList) + 1] = name
          /\ \A i \in 1..Len(VfsFsList) : VfsFsList'[i] = VfsFsList[i]
        BY <2>1 DEF NamesInv
    <2>5. \A i, j \in 1..(Len(VfsFsList) + 1) :
              VfsFsList'[i] = VfsFsList'[j] => i = j
        <3>1. Len(VfsFsList) \in Nat
            BY DEF NamesInv
        <3> SUFFICES ASSUME NEW i \in 1..(Len(VfsFsList) + 1),
                            NEW j \in 1..(Len(VfsFsList) + 1),
                            VfsFsList'[i] = VfsFsList'[j]
                     PROVE  i = j
            OBVIOUS
        <3>2. CASE i \in 1..Len(VfsFsList) /\ j \in 1..Len(VfsFsList)
            BY <2>3, <2>4, <3>2
        <3>3. CASE i = Len(VfsFsList) + 1 /\ j \in 1..Len(VfsFsList)
            BY <2>2, <2>4, <3>3
        <3>4. CASE j = Len(VfsFsList) + 1 /\ i \in 1..Len(VfsFsList)
            BY <2>2, <2>4, <3>4
        <3> QED
            BY <3>1, <3>2, <3>3, <3>4
    <2>6. DOMAIN VfsFsList' = 1..(Len(VfsFsList) + 1)
        BY <2>4
    <2> QED
        BY <2>4, <2>5, <2>6 DEF NamesInv, NamesUnique, IsInjective
<1> QED
    BY <1>1, <1>2

LEMMA NextNames ==
    ASSUME NamesInv, [Next]_vars
    PROVE  NamesInv'
<1>1. ASSUME VfsFsList' = VfsFsList PROVE NamesInv'
    BY <1>1 DEF NamesInv, NamesUnique
<1>2. CASE DevfsInit \/ RegisterFilesystem
    BY <1>2, RegisterKeepsNames DEF DevfsInit, RegisterFilesystem, Names
<1> QED
    BY <1>1, <1>2 DEF Next, DmInit, TTYInit, RamDiskInit, CreateInstance, AddDevice,
       RegisterDriver, UseRamDisk, WriteText, registries, vars

LEMMA InitNames == Init => NamesInv
BY DEF Init, NamesInv, NamesUnique, IsInjective

\* The names of registered file systems stay apart however many registrations
\* are tried, whichever are refused.
THEOREM NamesApart == Spec => []NamesUnique
<1>1. NamesInv => NamesUnique
    BY DEF NamesInv
<1> QED
    BY InitNames, <1>1, NextNames, PTL DEF Spec

------------------------------------------------------------------------------
(* RAM disks *)

\* Sizes and cursors are numbers the cursor's type can hold.
LEMMA DisksTyped ==
    ASSUME DisksInv
    PROVE  /\ UINT64_MAX \in Nat /\ 0 \in 0..UINT64_MAX
           /\ \A b \in BufferSizes \cup {0} : b \in Nat /\ b <= UINT64_MAX
           /\ Disks = { d \in 0..(RAMDISK_MAX_DISKS - 1) : RamDiskEntries[d].Stream }
           /\ \A d \in Disks : /\ RamDiskEntries[d].StreamCursor \in Nat
                               /\ RamDiskEntries[d].BufferSize \in Nat
                               /\ RamDiskEntries[d].BufferSize <= UINT64_MAX
<1>1. /\ UINT64_MAX \in Nat /\ 0 \in 0..UINT64_MAX
      /\ \A b \in BufferSizes \cup {0} : b \in Nat /\ b <= UINT64_MAX
    BY RamDiskAssumption
<1>2. Disks = { d \in 0..(RAMDISK_MAX_DISKS - 1) : RamDiskEntries[d].Stream }
    BY DEF Disks, DisksInv, DiskTable
<1>3. \A d \in Disks : /\ RamDiskEntries[d].StreamCursor \in 0..UINT64_MAX
                       /\ RamDiskEntries[d].BufferSize \in BufferSizes \cup {0}
    BY <1>2 DEF DisksInv, DiskTable
<1> QED
    BY <1>1, <1>2, <1>3

LEMMA MoveKeepsDisks ==
    ASSUME DisksInv, NEW d \in Disks, NEW cursor \in Nat,
           cursor <= RamDiskEntries[d].BufferSize, MoveTo(d, cursor)
    PROVE  DisksInv'
<1>1. d \in 0..(RAMDISK_MAX_DISKS - 1)
    BY DEF Disks, DisksInv, DiskTable
<1>2. RamDiskEntries' = [RamDiskEntries EXCEPT ![d].StreamCursor = cursor]
      /\ RamDiskCount' = RamDiskCount
    BY DEF MoveTo
<1>3. RamDiskEntries' \in DiskTable
    <2>1. cursor \in 0..UINT64_MAX
        BY DisksTyped
    <2> QED
        BY <1>1, <1>2, <2>1 DEF DisksInv, DiskTable
<1>4. /\ RamDiskEntries'[d].StreamCursor = cursor
      /\ RamDiskEntries'[d].BufferSize = RamDiskEntries[d].BufferSize
      /\ \A e \in 0..(RAMDISK_MAX_DISKS - 1) :
            e # d => RamDiskEntries'[e] = RamDiskEntries[e]
    BY <1>1, <1>2 DEF DisksInv, DiskTable
<1>5. CursorInBuffer'
    <2> SUFFICES ASSUME NEW e \in Disks'
                 PROVE  RamDiskEntries'[e].StreamCursor <= RamDiskEntries'[e].BufferSize
        BY DEF CursorInBuffer
    <2>1. e \in 0..(RAMDISK_MAX_DISKS - 1) /\ RamDiskEntries'[e].Stream
        BY <1>3 DEF Disks, DiskTable
    <2>2. CASE e = d
        BY <1>4, <2>2
    <2>3. CASE e # d
        <3>1. e \in Disks
            BY <1>4, <2>1, <2>3 DEF Disks, DisksInv, DiskTable
        <3> QED
            BY <1>4, <2>1, <2>3, <3>1 DEF DisksInv, DiskTable, CursorInBuffer
    <2> QED
        BY <2>2, <2>3
<1> QED
    BY <1>2, <1>3, <1>5 DEF DisksInv, MoveTo

LEMMA TransferKeepsDisks ==
    ASSUME DisksInv, NEW d \in Disks, NEW size \in Amounts, Transfer(d, size)
    PROVE  DisksInv'
<1> DEFINE e   == RamDiskEntries[d]
           cut == IF e.StreamCursor + size >= e.BufferSize
                  THEN e.BufferSize - e.StreamCursor ELSE size
<1>1. e.StreamCursor \in Nat /\ e.BufferSize \in Nat
    BY DisksTyped
<1>2. e.StreamCursor <= e.BufferSize
    BY DEF DisksInv, DiskTable, CursorInBuffer
<1>3. size \in Nat
    BY RamDiskAssumption
<1>4. e.StreamCursor + cut \in Nat /\ e.StreamCursor + cut <= e.BufferSize
    BY <1>1, <1>2, <1>3
<1>5. MoveTo(d, e.StreamCursor + cut)
    BY DEF Transfer
<1> QED
    BY <1>4, <1>5, MoveKeepsDisks

LEMMA SeekKeepsDisks ==
    ASSUME DisksInv, NEW d \in Disks, NEW pos \in 0..UINT64_MAX,
           NEW mode \in {"SEEK_SET", "SEEK_CUR", "SEEK_END"},
           RamDiskSeek(d, pos, mode)
    PROVE  DisksInv'
<1> DEFINE e == RamDiskEntries[d]
<1>1. e.StreamCursor \in Nat /\ e.BufferSize \in Nat /\ pos \in Nat
    BY DisksTyped
<1>2. CASE UNCHANGED ramDiskVars
    BY <1>2 DEF DisksInv, DiskTable, ramDiskVars, CursorInBuffer, Disks
<1>3. CASE mode \in {"SEEK_SET", "SEEK_END"} /\ pos < e.BufferSize
           /\ MoveTo(d, Target(d, pos, mode))
    <2>1. Target(d, pos, mode) \in {pos, e.BufferSize - pos}
        BY <1>3 DEF Target
    <2> QED
        BY <1>1, <1>3, <2>1, MoveKeepsDisks
<1>4. CASE mode = "SEEK_CUR" /\ Target(d, pos, mode) < e.BufferSize
           /\ MoveTo(d, Target(d, pos, mode))
    <2>1. Target(d, pos, mode) = (e.StreamCursor + pos) % (UINT64_MAX + 1)
        BY <1>4 DEF Target
    <2>2. Target(d, pos, mode) \in Nat
        BY <1>1, <2>1, RamDiskAssumption
    <2> QED
        BY <1>1, <1>4, <2>2, MoveKeepsDisks
<1>5. mode # "SEEK_CUR" => (UNCHANGED ramDiskVars \/ (pos < e.BufferSize
                                /\ MoveTo(d, Target(d, pos, mode))))
    BY <1>1 DEF RamDiskSeek
<1>6. mode = "SEEK_CUR" => (UNCHANGED ramDiskVars
          \/ (Target(d, pos, mode) < e.BufferSize /\ MoveTo(d, Target(d, pos, mode))))
    <2> SUFFICES ASSUME mode = "SEEK_CUR"
                 PROVE  UNCHANGED ramDiskVars
                        \/ (Target(d, pos, mode) < e.BufferSize
                            /\ MoveTo(d, Target(d, pos, mode)))
        OBVIOUS
    <2>1. Target(d, pos, mode) \in Nat
        BY <1>1, RamDiskAssumption DEF Target
    <2> QED
        BY <1>1, <2>1 DEF RamDiskSeek
<1> QED
    BY <1>2, <1>3, <1>4, <1>5, <1>6

LEMMA AddKeepsDisks ==
    ASSUME DisksInv, NEW b \in BufferSizes, NEW memory \in BOOLEAN,
           RamDiskAddDisk(b, memory)
    PROVE  DisksInv'
<1> DEFINE id == RamDiskCount + 1
<1>1. RamDiskCount' \in Nat /\ id \in Nat /\ b \in Nat /\ overrun' \in BOOLEAN
    <2>1. RamDiskCount \in Nat /\ RamDiskCount' = id
        BY DEF RamDiskAddDisk, DisksInv
    <2>2. overrun' \in BOOLEAN
        BY DEF RamDiskAddDisk, DisksInv
    <2> QED
        BY <2>1, <2>2, DisksTyped
<1>2. CASE RamDiskEntries' = RamDiskEntries
    BY <1>1, <1>2 DEF DisksInv, DiskTable, CursorInBuffer, Disks
<1>3. CASE id < RAMDISK_MAX_DISKS
           /\ RamDiskEntries' = [RamDiskEntries EXCEPT
                  ![id] = [BufferSize |-> b, StreamCursor |-> 0, Stream |-> TRUE]]
    <2>1. RamDiskEntries' \in DiskTable
        <3>1. [BufferSize |-> b, StreamCursor |-> 0, Stream |-> TRUE] \in
                  [BufferSize : BufferSizes \cup {0}, StreamCursor : 0..UINT64_MAX,
                   Stream : BOOLEAN]
            BY DisksTyped
        <3> QED
            BY <1>3, <3>1 DEF DisksInv, DiskTable
    <2>2. id \in 0..(RAMDISK_MAX_DISKS - 1)
        BY <1>1, <1>3, RamDiskAssumption
    <2>3. /\ RamDiskEntries'[id] = [BufferSize |-> b, StreamCursor |-> 0,
                                    Stream |-> TRUE]
          /\ \A d \in 0..(RAMDISK_MAX_DISKS - 1) :
                d # id => RamDiskEntries'[d] = RamDiskEntries[d]
        BY <1>3, <2>2 DEF DisksInv, DiskTable
    <2>4. CursorInBuffer'
        <3> SUFFICES ASSUME NEW d \in Disks'
                     PROVE  RamDiskEntries'[d].StreamCursor
                                <= RamDiskEntries'[d].BufferSize
            BY DEF CursorInBuffer
        <3>1. d \in 0..(RAMDISK_MAX_DISKS - 1) /\ RamDiskEntries'[d].Stream
            BY <2>1 DEF Disks, DiskTable
        <3>2. CASE d = id
            BY <1>1, <2>3, <3>2
        <3>3. CASE d # id
            <4>1. d \in Disks
                BY <2>3, <3>1, <3>3 DEF Disks, DisksInv, DiskTable
            <4> QED
                BY <2>3, <3>1, <3>3, <4>1 DEF DisksInv, DiskTable, CursorInBuffer
        <3> QED
            BY <3>2, <3>3
    <2> QED
        BY <1>1, <2>1, <2>4 DEF DisksInv, DiskTable
<1> QED
    BY <1>2, <1>3 DEF RamDiskAddDisk

LEMMA NextDisks ==
    ASSUME DisksInv, [Next]_vars
    PROVE  DisksInv'
<1>1. CASE RamDiskCall
    BY <1>1, AddKeepsDisks, TransferKeepsDisks, SeekKeepsDisks DEF RamDiskCall
<1>2. CASE UNCHANGED ramDiskVars
    BY <1>2 DEF DisksInv, ramDiskVars, CursorInBuffer, Disks
<1> QED
    BY <1>1, <1>2 DEF Next, DmInit, TTYInit, RamDiskInit, DevfsInit, KMain,
       RegisterFilesystem, CreateInstance, AddDevice, RegisterDriver, UseRamDisk,
       WriteText, vars

LEMMA InitDisks == Init => DisksInv
<1> SUFFICES ASSUME Init PROVE DisksInv
    OBVIOUS
<1>1. RamDiskEntries \in DiskTable
    BY RamDiskAssumption DEF Init, RamDiskInitial, Unused, DiskTable
<1>2. Disks = {}
    BY DEF Init, RamDiskInitial, Unused, Disks
<1> QED
    BY <1>1, <1>2 DEF DisksInv, CursorInBuffer, Init, RamDiskInitial

\* No sequence of calls leaves the cursor of a RAM disk behind its buffer, for
\* any width of the cursor, any sizes and any positions.
THEOREM CursorsInside == Spec => []CursorInBuffer
<1>1. DisksInv => CursorInBuffer
    BY DEF DisksInv
<1> QED
    BY InitDisks, <1>1, NextDisks, PTL DEF Spec

------------------------------------------------------------------------------
(* The console *)

TTYType ==
    [CursorX : 0..UINT8_MAX, CursorY : 0..UINT8_MAX,
     TextBuffer : [Cells -> Characters \cup {Blank}],
     WriteCallback : BOOLEAN, line : Seq(Characters \cup {Blank})]

CellOf(y, x) == y * TTYWidth + x

\* What LineShown says of tty, of a console t.
RowShown(t) ==
    /\ t.CursorX < TTYWidth
    /\ t.CursorX = Len(t.line)
    /\ \A x \in 1..Len(t.line) :
          t.TextBuffer[CellOf(t.CursorY, x - 1)] = t.line[x]

ConsoleOK(t) == t \in TTYType /\ RowShown(t)

LEMMA TTYSizes ==
    /\ TTYWidth \in Nat /\ TTYHeight \in Nat /\ UINT8_MAX \in Nat
    /\ 1 < TTYHeight /\ TTYHeight < TTYWidth /\ TTYWidth <= UINT8_MAX
BY ConsoleAssumption

\* Every cell a cursor can point to exists, and no two places share one.
LEMMA CellExists ==
    ASSUME NEW y \in 0..UINT8_MAX, NEW x \in 0..(TTYWidth - 1)
    PROVE  CellOf(y, x) \in Cells
<1>1. y \in Nat /\ x \in Nat /\ TTYWidth \in Nat /\ UINT8_MAX \in Nat
      /\ y + 1 <= UINT8_MAX + 1 /\ x <= TTYWidth - 1
    BY TTYSizes
<1>2. (y + 1) * TTYWidth <= (UINT8_MAX + 1) * TTYWidth
    BY <1>1
<1>3. (y + 1) * TTYWidth = y * TTYWidth + TTYWidth /\ y * TTYWidth \in Nat
    BY <1>1
<1>4. (UINT8_MAX + 1) * TTYWidth \in Nat
    BY <1>1
<1> DEFINE a == y * TTYWidth
           b == (UINT8_MAX + 1) * TTYWidth
           c == (y + 1) * TTYWidth
<1>5. a + x \in 0..(b - 1)
    <2> HIDE DEF a, b, c
    <2> QED
        BY <1>1, <1>2, <1>3, <1>4 DEF a, b, c
<1> QED
    BY <1>5 DEF CellOf, Cells

\* A cell that is moved up comes from below.
LEMMA CellBelow ==
    ASSUME NEW i \in Cells, i < (TTYHeight - 1) * TTYWidth
    PROVE  i + TTYWidth \in Cells
<1>1. TTYHeight * TTYWidth <= (UINT8_MAX + 1) * TTYWidth
    BY TTYSizes
<1>2. (TTYHeight - 1) * TTYWidth = TTYHeight * TTYWidth - TTYWidth
      /\ TTYHeight * TTYWidth \in Nat
    BY TTYSizes
<1> DEFINE a == (TTYHeight - 1) * TTYWidth
           b == (UINT8_MAX + 1) * TTYWidth
           c == TTYHeight * TTYWidth
<1>3. i \in 0..(b - 1) /\ TTYWidth \in Nat /\ b \in Nat
    BY TTYSizes DEF Cells
<1>4. i + TTYWidth \in 0..(b - 1)
    BY <1>1, <1>2, <1>3 DEF a, b, c
<1> QED
    BY <1>4 DEF Cells

\* At the start of a line there is nothing to show.
LEMMA LineStartTyped ==
    ASSUME NEW t \in TTYType
    PROVE  /\ LineStart(t) \in TTYType /\ LineStart(t).CursorX = 0
           /\ LineStart(t).line = <<>> /\ LineStart(t).CursorY = t.CursorY
<1>1. 0 \in 0..UINT8_MAX /\ <<>> \in Seq(Characters \cup {Blank})
    BY TTYSizes
<1> QED
    BY <1>1 DEF LineStart, TTYType

LEMMA EmptyLineShown ==
    ASSUME NEW t \in TTYType, t.CursorX = 0, t.line = <<>>
    PROVE  ConsoleOK(t)
BY TTYSizes DEF ConsoleOK, RowShown

LEMMA RowDownTyped ==
    ASSUME NEW t \in TTYType
    PROVE  /\ RowDown(t) \in TTYType
           /\ RowDown(t).CursorX = t.CursorX /\ RowDown(t).line = t.line
<1>1. (t.CursorY + 1) % (UINT8_MAX + 1) \in 0..UINT8_MAX
    BY TTYSizes DEF TTYType
<1> QED
    BY <1>1 DEF RowDown, TTYType

LEMMA ScrollTyped ==
    ASSUME NEW t \in TTYType
    PROVE  /\ TTYScroll(t) \in TTYType
           /\ TTYScroll(t).CursorX = t.CursorX /\ TTYScroll(t).line = t.line
<1> DEFINE buffer == [i \in Cells |->
                         IF i < (TTYHeight - 1) * TTYWidth
                         THEN t.TextBuffer[i + TTYWidth] ELSE t.TextBuffer[i]]
           row == IF t.CursorY > 0 THEN t.CursorY - 1 ELSE t.CursorY
<1>1. t.TextBuffer \in [Cells -> Characters \cup {Blank}]
      /\ t.CursorY \in 0..UINT8_MAX
    BY DEF TTYType
<1>2. buffer \in [Cells -> Characters \cup {Blank}]
    BY <1>1, CellBelow
<1>3. row \in 0..UINT8_MAX
    BY <1>1, TTYSizes
<1>4. TTYScroll(t) = [t EXCEPT !.TextBuffer = buffer, !.CursorY = row]
    BY DEF TTYScroll
<1> HIDE DEF buffer, row
<1> QED
    BY <1>2, <1>3, <1>4 DEF TTYType

LEMMA NewLinesShown ==
    ASSUME NEW t \in TTYType
    PROVE  ConsoleOK(TTYNewLine(t)) /\ ConsoleOK(NewlineTyped(t))
<1>1. /\ LineStart(t) \in TTYType /\ LineStart(t).CursorX = 0
      /\ LineStart(t).line = <<>>
    BY LineStartTyped
<1>2. ConsoleOK(TTYScroll(LineStart(t))) /\ ConsoleOK(RowDown(LineStart(t)))
    BY <1>1, ScrollTyped, RowDownTyped, EmptyLineShown
<1> QED
    BY <1>2 DEF TTYNewLine, NewlineTyped

LEMMA ShownKeeps ==
    ASSUME NEW t, ConsoleOK(t), NEW c \in Characters
    PROVE  ConsoleOK(Shown(t, c))
<1> DEFINE p == CellOf(t.CursorY, t.CursorX)
           w == [t EXCEPT !.TextBuffer[t.CursorY * TTYWidth + t.CursorX] = c,
                          !.CursorX = @ + 1, !.line = Append(@, c)]
<1>1. /\ t \in TTYType /\ t.CursorX \in 0..(TTYWidth - 1)
      /\ t.CursorY \in 0..UINT8_MAX /\ t.CursorX + 1 \in 0..UINT8_MAX
      /\ t.TextBuffer \in [Cells -> Characters \cup {Blank}]
      /\ t.line \in Seq(Characters \cup {Blank}) /\ t.CursorX = Len(t.line)
    BY TTYSizes DEF ConsoleOK, RowShown, TTYType
<1>2. p \in Cells /\ p = t.CursorY * TTYWidth + t.CursorX
    BY <1>1, CellExists DEF CellOf
<1>3. /\ w.TextBuffer = [t.TextBuffer EXCEPT ![p] = c]
      /\ w.CursorX = t.CursorX + 1 /\ w.CursorY = t.CursorY
      /\ w.line = Append(t.line, c)
    BY <1>1, <1>2 DEF TTYType
<1>4. w = [t EXCEPT !.TextBuffer = [t.TextBuffer EXCEPT ![p] = c],
                    !.CursorX = t.CursorX + 1, !.line = Append(t.line, c)]
    BY <1>2
<1>5. w.TextBuffer \in [Cells -> Characters \cup {Blank}]
      /\ w.TextBuffer[p] = c
      /\ \A i \in Cells \ {p} : w.TextBuffer[i] = t.TextBuffer[i]
    BY <1>1, <1>2, <1>3
<1>6. /\ w.line \in Seq(Characters \cup {Blank}) /\ Len(w.line) = Len(t.line) + 1
      /\ w.line[Len(t.line) + 1] = c
      /\ \A x \in 1..Len(t.line) : w.line[x] = t.line[x]
    BY <1>1, <1>3
<1>7. Shown(t, c) = IF w.CursorX = TTYWidth THEN TTYNewLine(w) ELSE w
    BY DEF Shown
<1> HIDE DEF w, p
<1>8. w \in TTYType
    BY <1>1, <1>3, <1>4, <1>5, <1>6 DEF TTYType
<1>9. CASE w.CursorX = TTYWidth
    BY <1>7, <1>8, <1>9, NewLinesShown
<1>10. CASE w.CursorX # TTYWidth
    <2>1. ASSUME NEW x \in 1..(Len(t.line) + 1)
          PROVE  w.TextBuffer[CellOf(w.CursorY, x - 1)] = w.line[x]
        <3>1. CASE x = Len(t.line) + 1
            BY <1>1, <1>3, <1>5, <1>6, <3>1 DEF p
        <3>2. CASE x # Len(t.line) + 1
            <4>1. x \in 1..Len(t.line) /\ x - 1 \in 0..(TTYWidth - 1)
                  /\ x - 1 # t.CursorX
                BY <1>1, <3>2, TTYSizes
            <4>2. CellOf(t.CursorY, x - 1) \in Cells
                BY <1>1, <4>1, CellExists
            <4>3. CellOf(t.CursorY, x - 1) # p
                BY <1>1, <1>2, <4>1, TTYSizes DEF CellOf
            <4>4. t.TextBuffer[CellOf(t.CursorY, x - 1)] = t.line[x]
                BY <4>1 DEF ConsoleOK, RowShown
            <4> QED
                BY <1>3, <1>5, <1>6, <4>1, <4>2, <4>3, <4>4
        <3> QED
            BY <3>1, <3>2
    <2>2. w.CursorX < TTYWidth /\ w.CursorX = Len(w.line)
        BY <1>1, <1>3, <1>6, <1>10, TTYSizes
    <2>3. ConsoleOK(w)
        BY <1>6, <1>8, <2>1, <2>2 DEF ConsoleOK, RowShown
    <2> QED
        BY <1>7, <1>10, <2>3
<1> QED
    BY <1>9, <1>10

LEMMA BackspaceKeeps ==
    ASSUME NEW t, ConsoleOK(t), t.CursorX # 0
    PROVE  ConsoleOK([t EXCEPT !.CursorX = @ - 1, !.line = Front(@)])
<1> DEFINE n == Len(t.line) - 1
           w == [t EXCEPT !.CursorX = @ - 1, !.line = Front(@)]
<1>1. /\ t \in TTYType /\ t.CursorX \in 1..(TTYWidth - 1)
      /\ t.CursorX - 1 \in 0..UINT8_MAX
      /\ t.line \in Seq(Characters \cup {Blank}) /\ t.CursorX = Len(t.line)
    BY TTYSizes DEF ConsoleOK, RowShown, TTYType
<1>2. n \in 0..Len(t.line) /\ n = t.CursorX - 1 /\ n < TTYWidth
    BY <1>1, TTYSizes
<1>3. /\ Front(t.line) \in Seq(Characters \cup {Blank}) /\ Len(Front(t.line)) = n
      /\ \A x \in 1..n : Front(t.line)[x] = t.line[x]
    BY <1>1, <1>2, FrontElements DEF Front
<1>4. /\ w \in TTYType /\ w.CursorX = n /\ w.line = Front(t.line)
      /\ w.CursorY = t.CursorY /\ w.TextBuffer = t.TextBuffer
    BY <1>1, <1>2, <1>3 DEF TTYType
<1> HIDE DEF w
<1>5. ASSUME NEW x \in 1..n
      PROVE  w.TextBuffer[CellOf(w.CursorY, x - 1)] = w.line[x]
    <2>1. x \in 1..Len(t.line)
        BY <1>1, <1>2
    <2>2. t.TextBuffer[CellOf(t.CursorY, x - 1)] = t.line[x]
        BY <2>1 DEF ConsoleOK, RowShown
    <2> QED
        BY <1>3, <1>4, <2>2
<1>6. ConsoleOK(w)
    BY <1>2, <1>3, <1>4, <1>5 DEF ConsoleOK, RowShown
<1> QED
    BY <1>6 DEF w

LEMMA TypedKeeps ==
    ASSUME NEW t, ConsoleOK(t), NEW c \in Characters
    PROVE  ConsoleOK(Typed(t, c))
<1>1. t \in TTYType
    BY DEF ConsoleOK
<1>2. ConsoleOK(LineStart(t))
    BY <1>1, LineStartTyped, EmptyLineShown
<1> QED
    BY <1>1, <1>2, BackspaceKeeps, NewLinesShown, ShownKeeps DEF Typed

\* Output is either lost or typed.
LEMMA OutputKeeps ==
    ASSUME NEW t, ConsoleOK(t)
    PROVE  /\ \A c \in Characters : ConsoleOK(IoWrite(t, c))
           /\ ConsoleOK(Kprintf(t))
           /\ \A refused \in Refusals : ConsoleOK(Announced(refused, t))
<1>1. ASSUME NEW u, ConsoleOK(u), NEW c \in Characters
      PROVE  ConsoleOK(IoWrite(u, c))
    BY <1>1, TypedKeeps DEF IoWrite
<1>2. Message \in Characters /\ Newline \in Characters
    BY DEF Characters
<1>3. ConsoleOK(Kprintf(t))
    BY <1>1, <1>2 DEF Kprintf
<1> QED
    BY <1>1, <1>3 DEF Announced

\* Until TTYInit nothing has been typed.
ConsoleInv ==
    /\ ConsoleOK(tty)
    /\ boot \in Boots
    /\ Len(boot) >= 3 => tty.TextBuffer = [i \in Cells |-> Blank]

LEMMA OpenedOK ==
    ASSUME ConsoleOK(tty), tty.TextBuffer = [i \in Cells |-> Blank],
           NEW pos \in 0..(TTYWidth * TTYHeight - 1)
    PROVE  ConsoleOK(TTYOpened(pos))
<1> DEFINE x == pos % TTYWidth
           y == pos \div TTYWidth
           line == [i \in 1..x |-> Blank]
           t == [tty EXCEPT !.CursorX = x, !.CursorY = y,
                            !.WriteCallback = TRUE, !.line = line]
<1>1. x \in 0..(TTYWidth - 1) /\ y \in 0..UINT8_MAX
    <2>1. TTYWidth \in Nat \ {0} /\ pos \in Nat /\ TTYHeight \in Nat
          /\ pos < TTYHeight * TTYWidth /\ TTYHeight <= UINT8_MAX
        BY TTYSizes
    <2>2. x \in 0..(TTYWidth - 1) /\ y \in Nat /\ pos = TTYWidth * y + x
        BY <2>1
    <2>3. y < TTYHeight
        BY <2>1
    <2> HIDE DEF x, y
    <2> QED
        BY <2>1, <2>2, <2>3, TTYSizes
<1>2. TTYOpened(pos) = t
    BY DEF TTYOpened
<1> HIDE DEF x, y
<1>3. x \in Nat /\ x \in 0..UINT8_MAX
    BY <1>1, TTYSizes
<1>4. line \in Seq(Characters \cup {Blank}) /\ Len(line) = x
      /\ \A i \in 1..x : line[i] = Blank
    BY <1>3
<1> HIDE DEF line
<1>5. /\ t \in TTYType /\ t.CursorX = x /\ t.CursorY = y /\ t.line = line
      /\ t.TextBuffer = [i \in Cells |-> Blank]
    BY <1>1, <1>3, <1>4 DEF ConsoleOK, TTYType
<1> HIDE DEF t
<1>6. ASSUME NEW i \in 1..x
      PROVE  t.TextBuffer[CellOf(t.CursorY, i - 1)] = t.line[i]
    <2>1. i - 1 \in 0..(TTYWidth - 1)
        BY <1>1, TTYSizes
    <2> QED
        BY <1>1, <1>4, <1>5, <2>1, CellExists
<1> QED
    <2>1. t.CursorX < TTYWidth /\ t.CursorX = Len(t.line) /\ Len(t.line) = x
        BY <1>1, <1>4, <1>5, TTYSizes
    <2> QED
        BY ONLY <1>2, <1>5, <1>6, <2>1 DEF ConsoleOK, RowShown

\* A driver that is registered is announced, unless the table is full.
LEMMA RegisterOutput ==
    ASSUME NEW def, NEW t, ConsoleOK(t), DmRegisterDriver(def, t)
    PROVE  ConsoleOK(tty')
BY OutputKeeps DEF DmRegisterDriver

LEMMA NextBoot ==
    ASSUME boot \in Boots, NEW name, KMain(name)
    PROVE  /\ boot' \in Boots /\ name \in {"DmInit", "TTYInit", "RamDiskInit", "DevfsInit"}
           /\ Len(boot') >= 3 => name = "DmInit"
           /\ name \in {"DmInit", "TTYInit"} => Len(boot) >= 3
<1>1. boot # <<>> /\ Head(boot) = name /\ boot' = Tail(boot)
    BY DEF KMain
<1>2. CASE boot = <<"DmInit", "TTYInit", "RamDiskInit", "DevfsInit">>
    BY <1>1, <1>2 DEF Boots
<1>3. CASE boot = <<"TTYInit", "RamDiskInit", "DevfsInit">>
    BY <1>1, <1>3 DEF Boots
<1>4. CASE boot = <<"RamDiskInit", "DevfsInit">>
    BY <1>1, <1>4 DEF Boots
<1>5. CASE boot = <<"DevfsInit">>
    BY <1>1, <1>5 DEF Boots
<1> QED
    BY <1>1, <1>2, <1>3, <1>4, <1>5 DEF Boots

LEMMA NextConsole ==
    ASSUME ConsoleInv, [Next]_vars
    PROVE  ConsoleInv'
<1>1. ConsoleOK(tty)' <=> ConsoleOK(tty')
    BY DEF ConsoleOK, RowShown, TTYType
<1>2. CASE UNCHANGED vars
    BY <1>2 DEF vars, ConsoleInv, ConsoleOK, RowShown
<1>3. ASSUME Called, ConsoleOK(tty')
      PROVE  ConsoleInv'
    <2>1. boot' = <<>> /\ boot' \in Boots /\ ~(Len(boot') >= 3)
        BY <1>3 DEF Called, Boots
    <2> QED
        BY <1>1, <1>3, <2>1 DEF ConsoleInv
<1>4. ASSUME NEW name, KMain(name), ConsoleOK(tty'), name = "DmInit" => tty' = tty
      PROVE  ConsoleInv'
    BY <1>1, <1>4, NextBoot DEF ConsoleInv
<1>5. ConsoleOK(tty)
    BY DEF ConsoleInv
<1>6. CASE DmInit
    BY <1>4, <1>5, <1>6 DEF DmInit
<1>7. CASE TTYInit
    <2>1. PICK pos \in 0..(TTYWidth * TTYHeight - 1), refused \in Refusals :
              LET t == Announced(refused, TTYOpened(pos))
              IN  /\ DevfsAddDevice(TTYDevice, refused)
                  /\ IF panicked' THEN UNCHANGED DmDriverList /\ tty' = t
                     ELSE DmRegisterDriver("TTY", t)
        BY <1>7 DEF TTYInit
    <2> DEFINE t == Announced(refused, TTYOpened(pos))
    <2>2. KMain("TTYInit")
        BY <1>7 DEF TTYInit
    <2>3. tty.TextBuffer = [i \in Cells |-> Blank]
        BY <2>2, NextBoot DEF ConsoleInv
    <2>4. ConsoleOK(t)
        BY <1>5, <2>3, OpenedOK, OutputKeeps
    <2>5. tty' = t \/ DmRegisterDriver("TTY", t)
        BY <2>1
    <2> HIDE DEF t
    <2>6. ConsoleOK(tty')
        BY <2>4, <2>5, RegisterOutput
    <2> QED
        BY <1>4, <2>2, <2>6
<1>8. CASE RamDiskInit
    BY <1>4, <1>5, <1>8, RegisterOutput DEF RamDiskInit
<1>9. CASE DevfsInit
    <2>1. tty' = tty \/ tty' = Kprintf(tty)
        BY <1>9 DEF DevfsInit, VfsRegisterFilesystem
    <2> QED
        BY <1>4, <1>5, <1>9, <2>1, OutputKeeps DEF DevfsInit
<1>10. CASE RegisterFilesystem
    <2>1. tty' = tty \/ tty' = Kprintf(tty)
        BY <1>10 DEF RegisterFilesystem, VfsRegisterFilesystem
    <2> QED
        BY <1>3, <1>5, <1>10, <2>1, OutputKeeps DEF RegisterFilesystem
<1>11. CASE CreateInstance \/ UseRamDisk
    BY <1>3, <1>5, <1>11 DEF CreateInstance, UseRamDisk
<1>12. CASE AddDevice
    <2>1. PICK refused \in Refusals : tty' = Announced(refused, tty)
        BY <1>12 DEF AddDevice
    <2> QED
        BY <1>3, <1>5, <1>12, <2>1, OutputKeeps DEF AddDevice
<1>13. CASE RegisterDriver
    BY <1>3, <1>5, <1>13, RegisterOutput DEF RegisterDriver
<1>14. CASE WriteText
    <2>1. PICK c \in Characters : tty' = IoWrite(tty, c)
        BY <1>14 DEF WriteText, TTYWrite
    <2> QED
        BY <1>3, <1>5, <1>14, <2>1, OutputKeeps DEF WriteText
<1> QED
    BY <1>2, <1>6, <1>7, <1>8, <1>9, <1>10, <1>11, <1>12, <1>13, <1>14 DEF Next

LEMMA InitConsole == Init => ConsoleInv
<1> SUFFICES ASSUME Init PROVE ConsoleInv
    OBVIOUS
<1>1. /\ tty.CursorX = 0 /\ tty.line = <<>> /\ boot \in Boots
      /\ tty.TextBuffer = [i \in Cells |-> Blank]
    BY DEF Init, TTYInitial, Boots
<1>2. tty \in TTYType
    <2>1. 0 \in 0..UINT8_MAX /\ <<>> \in Seq(Characters \cup {Blank})
          /\ [i \in Cells |-> Blank] \in [Cells -> Characters \cup {Blank}]
        BY TTYSizes
    <2> QED
        BY <2>1 DEF Init, TTYInitial, TTYType
<1> QED
    BY <1>1, <1>2, EmptyLineShown DEF ConsoleInv

\* The line of the cursor shows what has been typed in it, for every size of
\* the screen and every text, wherever the boot loader has left the cursor and
\* however far below the screen it has got.
THEOREM TypedIsShown == Spec => []LineShown
<1>1. ConsoleInv => LineShown
    BY DEF ConsoleInv, ConsoleOK, RowShown, LineShown, CellOf
<1> QED
    BY InitConsole, <1>1, NextConsole, PTL DEF Spec

------------------------------------------------------------------------------
(* Types *)

Drivers == {"TTY", "RamDisk", "PS2Kbd"}

RegistriesInv ==
    /\ calls \in 0..MaxCalls /\ panicked \in BOOLEAN
    /\ DmDriverList \in Seq(Drivers)
    /\ Len(DmDriverList) <= DM_MAX_REGISTERED_DRIVERS
    /\ DevfsDeviceList \in Seq(AllDevices)
    /\ DevfsRootDir \in [ChildrenAmount : Nat, Children : Seq(AllEntries)]

LEMMA DriversTyped ==
    ASSUME RegistriesInv, NEW def \in Drivers, NEW t, DmRegisterDriver(def, t)
    PROVE  /\ DmDriverList' \in Seq(Drivers)
           /\ Len(DmDriverList') <= DM_MAX_REGISTERED_DRIVERS
<1>1. /\ DmDriverList \in Seq(Drivers)
      /\ Len(DmDriverList) <= DM_MAX_REGISTERED_DRIVERS
      /\ DM_MAX_REGISTERED_DRIVERS \in Nat
    BY DevicesAssumption DEF RegistriesInv
<1>2. CASE DmDriverList' = DmDriverList
    BY <1>1, <1>2
<1>3. CASE Len(DmDriverList) # DM_MAX_REGISTERED_DRIVERS
           /\ DmDriverList' = Append(DmDriverList, def)
    BY <1>1, <1>3
<1> QED
    BY <1>2, <1>3 DEF DmRegisterDriver

LEMMA DevicesTyped ==
    ASSUME RegistriesInv, NEW device \in AllDevices, NEW refused \in Refusals,
           DevfsAddDevice(device, refused)
    PROVE  /\ DevfsDeviceList' \in Seq(AllDevices) /\ panicked' \in BOOLEAN
           /\ DevfsRootDir' \in [ChildrenAmount : Nat, Children : Seq(AllEntries)]
<1>1. /\ device \in AllEntries /\ NULL \in AllEntries
      /\ DevfsDeviceList \in Seq(AllDevices)
      /\ DevfsRootDir.ChildrenAmount + 1 \in Nat
      /\ DevfsRootDir.Children \in Seq(AllEntries)
      /\ DevfsRootDir \in [ChildrenAmount : Nat, Children : Seq(AllEntries)]
    BY DEF RegistriesInv, AllEntries
<1>2. DevfsDeviceList' \in Seq(AllDevices) /\ panicked' \in BOOLEAN
    BY <1>1 DEF DevfsAddDevice
<1>3. \/ DevfsRootDir' = DevfsRootDir
      \/ DevfsRootDir' = [DevfsRootDir EXCEPT !.ChildrenAmount = @ + 1]
      \/ \E entry \in {device, NULL} :
            DevfsRootDir' = [ChildrenAmount |-> DevfsRootDir.ChildrenAmount + 1,
                             Children |-> Append(DevfsRootDir.Children, entry)]
    BY DEF DevfsAddDevice
<1>4. DevfsRootDir' \in [ChildrenAmount : Nat, Children : Seq(AllEntries)]
    <2>1. CASE DevfsRootDir' = DevfsRootDir
        BY <1>1, <2>1
    <2>2. CASE DevfsRootDir' = [DevfsRootDir EXCEPT !.ChildrenAmount = @ + 1]
        BY <1>1, <2>2
    <2>3. ASSUME NEW entry \in {device, NULL},
                 DevfsRootDir' = [ChildrenAmount |-> DevfsRootDir.ChildrenAmount + 1,
                                  Children |-> Append(DevfsRootDir.Children, entry)]
          PROVE  DevfsRootDir' \in [ChildrenAmount : Nat, Children : Seq(AllEntries)]
        <3>1. entry \in AllEntries
            BY <1>1
        <3>2. Append(DevfsRootDir.Children, entry) \in Seq(AllEntries)
            BY <1>1, <3>1
        <3> QED
            BY <1>1, <2>3, <3>2
    <2> QED
        BY <1>3, <2>1, <2>2, <2>3
<1> QED
    BY <1>2, <1>4

LEMMA NextRegistries ==
    ASSUME RegistriesInv, [Next]_vars
    PROVE  RegistriesInv'
<1>1. ASSUME UNCHANGED <<DevfsDeviceList, DevfsRootDir>>
      PROVE  /\ DevfsDeviceList' \in Seq(AllDevices)
             /\ DevfsRootDir' \in [ChildrenAmount : Nat, Children : Seq(AllEntries)]
    BY <1>1 DEF RegistriesInv
<1>2. ASSUME UNCHANGED DmDriverList
      PROVE  /\ DmDriverList' \in Seq(Drivers)
             /\ Len(DmDriverList') <= DM_MAX_REGISTERED_DRIVERS
    BY <1>2 DEF RegistriesInv
<1>3. ASSUME Called
      PROVE  calls' \in 0..MaxCalls
    BY <1>3, DevicesAssumption DEF Called, RegistriesInv
<1>4. ASSUME NEW name, KMain(name)
      PROVE  calls' \in 0..MaxCalls
    BY <1>4 DEF KMain, RegistriesInv
<1>5. panicked \in BOOLEAN /\ {"TTY", "RamDisk", "PS2Kbd"} \subseteq Drivers
    BY DEF RegistriesInv, Drivers
<1>6. CASE UNCHANGED vars
    BY <1>6 DEF vars, registries, RegistriesInv
<1>7. CASE DmInit
    <2>1. DmDriverList' = <<>>
        BY <1>7 DEF DmInit
    <2>2. DmDriverList' \in Seq(Drivers) /\ Len(DmDriverList') = 0
        BY <2>1
    <2> QED
        BY <1>1, <1>4, <1>5, <1>7, <2>2, DevicesAssumption DEF DmInit, RegistriesInv
<1>8. CASE TTYInit
    <2>1. PICK pos \in 0..(TTYWidth * TTYHeight - 1), refused \in Refusals :
              /\ DevfsAddDevice(TTYDevice, refused)
              /\ UNCHANGED DmDriverList \/ DmRegisterDriver("TTY",
                     Announced(refused, TTYOpened(pos)))
        BY <1>8 DEF TTYInit
    <2>2. TTYDevice \in AllDevices
        BY DEF AllDevices
    <2>3. /\ DmDriverList' \in Seq(Drivers)
          /\ Len(DmDriverList') <= DM_MAX_REGISTERED_DRIVERS
        BY <1>2, <1>5, <2>1, DriversTyped
    <2> QED
        BY <1>4, <1>8, <2>1, <2>2, <2>3, DevicesTyped DEF TTYInit, RegistriesInv
<1>9. CASE RamDiskInit
    BY <1>1, <1>4, <1>5, <1>9, DriversTyped DEF RamDiskInit, RegistriesInv
<1>10. CASE DevfsInit
    <2>1. DevfsRootDir' \in [ChildrenAmount : Nat, Children : Seq(AllEntries)]
          /\ panicked' \in BOOLEAN
        BY <1>10 DEF DevfsInit, EmptyDirectory, VfsRegisterFilesystem
    <2> QED
        BY <1>2, <1>4, <1>10, <2>1 DEF DevfsInit, RegistriesInv
<1>11. CASE RegisterFilesystem
    <2>1. panicked' \in BOOLEAN
        BY <1>11 DEF RegisterFilesystem, VfsRegisterFilesystem
    <2> QED
        BY <1>1, <1>2, <1>3, <1>11, <2>1 DEF RegisterFilesystem, RegistriesInv
<1>12. CASE CreateInstance \/ UseRamDisk \/ WriteText
    <2>1. panicked' \in BOOLEAN
        BY <1>5, <1>12 DEF CreateInstance, UseRamDisk, WriteText, VfsCreateInstance
    <2> QED
        BY <1>1, <1>2, <1>3, <1>12, <2>1
        DEF CreateInstance, UseRamDisk, WriteText, registries, RegistriesInv
<1>13. CASE AddDevice
    <2>1. PICK device \in AllDevices, refused \in Refusals :
              DevfsAddDevice(device, refused)
        BY <1>13 DEF AddDevice, AllDevices
    <2> QED
        BY <1>2, <1>3, <1>13, <2>1, DevicesTyped DEF AddDevice, RegistriesInv
<1>14. CASE RegisterDriver
    BY <1>1, <1>3, <1>5, <1>14, DriversTyped DEF RegisterDriver, RegistriesInv
<1> QED
    BY <1>6, <1>7, <1>8, <1>9, <1>10, <1>11, <1>12, <1>13, <1>14 DEF Next

LEMMA InitRegistries == Init => RegistriesInv
<1> SUFFICES ASSUME Init PROVE RegistriesInv
    OBVIOUS
<1>1. /\ DmDriverList = <<>> /\ DevfsDeviceList = <<>> /\ calls = 0
      /\ DevfsRootDir = EmptyDirectory /\ panicked = FALSE
    BY DEF Init
<1>2. <<>> \in Seq(Drivers) /\ <<>> \in Seq(AllDevices) /\ <<>> \in Seq(AllEntries)
      /\ Len(<<>>) = 0
    OBVIOUS
<1>3. DevfsRootDir \in [ChildrenAmount : Nat, Children : Seq(AllEntries)]
    BY <1>1, <1>2 DEF EmptyDirectory
<1>4. 0 \in 0..MaxCalls /\ 0 <= DM_MAX_REGISTERED_DRIVERS
    BY DevicesAssumption
<1> QED
    BY <1>1, <1>2, <1>3, <1>4 DEF RegistriesInv

\* Every list and table keeps its type, the list of drivers its limit, and the
\* console stays inside the cells a cursor can reach, for every size of each
\* and whatever memory is refused.
THEOREM TypeCorrect == Spec => []TypeOK
<1>1. RegistriesInv /\ DisksInv /\ NamesInv /\ ConsoleInv => TypeOK
    <2> SUFFICES ASSUME RegistriesInv, DisksInv, NamesInv, ConsoleInv
                 PROVE  TypeOK
        OBVIOUS
    <2>1. RamDiskTypeOK
        BY DEF DisksInv, DiskTable, RamDiskTypeOK
    <2>2. TTYTypeOK
        BY DEF ConsoleInv, ConsoleOK, TTYType, TTYTypeOK
    <2> QED
        BY <2>1, <2>2 DEF TypeOK, RegistriesInv, Drivers, AllEntries, NamesInv, Names
<1> QED
    BY <1>1, InitRegistries, NextRegistries, InitDisks, NextDisks, InitNames,
       NextNames, InitConsole, NextConsole, PTL DEF Spec
=============================================================================
