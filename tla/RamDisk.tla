------------------------------ MODULE RamDisk ------------------------------
(***************************************************************************)
(* RAM disks and their streams, kernel/src/Drivers/RamDisk.c, as called    *)
(* through kernel/include/IOStream.h.  The bytes on a disk are left out:   *)
(* a transfer is the range of the buffer it touches, and that range ends   *)
(* where the cursor comes to stand.                                        *)
(***************************************************************************)
EXTENDS Integers

CONSTANTS
    RAMDISK_MAX_DISKS,
    UINT64_MAX,         \* largest cursor
    BufferSizes,        \* sizes disks are added with
    Amounts             \* sizes of transfers, a uint32_t in the code

ASSUME RamDiskAssumption ==
    /\ RAMDISK_MAX_DISKS \in Nat \ {0} /\ UINT64_MAX \in Nat
    /\ BufferSizes \subseteq 0..UINT64_MAX /\ Amounts \subseteq Nat
    /\ \A b \in BufferSizes, a \in Amounts : b + a <= UINT64_MAX

VARIABLES
    RamDiskCount,
    RamDiskEntries,     \* BufferSize and StreamCursor by disk, if it has any
    overrun             \* an entry past the table has been written

ramDiskVars == <<RamDiskCount, RamDiskEntries, overrun>>

Unused == [BufferSize |-> 0, StreamCursor |-> 0, Stream |-> FALSE]

RamDiskInitial ==
    /\ RamDiskCount = 0
    /\ RamDiskEntries = [d \in 0..(RAMDISK_MAX_DISKS - 1) |-> Unused]
    /\ overrun = FALSE

Disks == { d \in DOMAIN RamDiskEntries : RamDiskEntries[d].Stream }

\* The number goes up first, the limit is tested for equality, and the number
\* stays up whether or not there is memory for the stream.
RamDiskAddDisk(bufferSize, memory) ==
    LET id == RamDiskCount + 1
    IN  /\ RamDiskCount' = id
        /\ IF id = RAMDISK_MAX_DISKS \/ ~memory
           THEN UNCHANGED <<RamDiskEntries, overrun>>
           ELSE IF id < RAMDISK_MAX_DISKS
           THEN /\ RamDiskEntries' = [RamDiskEntries EXCEPT
                       ![id] = [BufferSize |-> bufferSize, StreamCursor |-> 0,
                                Stream |-> TRUE]]
                /\ UNCHANGED overrun
           ELSE overrun' = TRUE /\ UNCHANGED RamDiskEntries

MoveTo(d, cursor) ==
    /\ RamDiskEntries' = [RamDiskEntries EXCEPT ![d].StreamCursor = cursor]
    /\ UNCHANGED <<RamDiskCount, overrun>>

\* Faulty variant of Transfer: the amount is not cut at the end of the buffer.
TransferUncut(d, size) ==
    MoveTo(d, RamDiskEntries[d].StreamCursor + size)

\* RamDiskRead and RamDiskWrite move the cursor alike.
Transfer(d, size) ==
    LET e   == RamDiskEntries[d]
        cut == IF e.StreamCursor + size >= e.BufferSize
               THEN e.BufferSize - e.StreamCursor ELSE size
    IN  MoveTo(d, e.StreamCursor + cut)

\* Where RamDiskSeek goes, by mode; it tests the sum of SEEK_CUR after it has
\* wrapped around, and the position of SEEK_END before it is subtracted.
Target(d, pos, mode) ==
    LET e == RamDiskEntries[d]
    IN  CASE mode = "SEEK_SET" -> pos
          [] mode = "SEEK_CUR" -> (e.StreamCursor + pos) % (UINT64_MAX + 1)
          [] mode = "SEEK_END" -> e.BufferSize - pos

RamDiskSeek(d, pos, mode) ==
    LET tested == IF mode = "SEEK_CUR" THEN Target(d, pos, mode) ELSE pos
    IN  IF tested >= RamDiskEntries[d].BufferSize
        THEN UNCHANGED ramDiskVars
        ELSE MoveTo(d, Target(d, pos, mode))

RamDiskCall ==
    \/ \E b \in BufferSizes, memory \in BOOLEAN : RamDiskAddDisk(b, memory)
    \/ \E d \in Disks, size \in Amounts : Transfer(d, size)
    \/ \E d \in Disks, pos \in 0..UINT64_MAX,
          mode \in {"SEEK_SET", "SEEK_CUR", "SEEK_END"} :
              RamDiskSeek(d, pos, mode)

------------------------------------------------------------------------------
(* Properties *)

RamDiskTypeOK ==
    /\ RamDiskCount \in Nat
    /\ RamDiskEntries \in [0..(RAMDISK_MAX_DISKS - 1) ->
           [BufferSize : BufferSizes \cup {0}, StreamCursor : 0..UINT64_MAX,
            Stream : BOOLEAN]]
    /\ overrun \in BOOLEAN

\* No sequence of transfers and seeks leaves a cursor behind the end of its
\* buffer, so that no transfer touches bytes outside the buffer: neither the
\* wrap-around of a seek nor one to the end itself escapes the tests.
CursorInBuffer ==
    \A d \in Disks :
        RamDiskEntries[d].StreamCursor <= RamDiskEntries[d].BufferSize
=============================================================================
