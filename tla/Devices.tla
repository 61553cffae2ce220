------------------------------ MODULE Devices ------------------------------
(***************************************************************************)
(* What drivers and file systems register with: DriverManager.c, Vfs.c,    *)
(* Devfs.c, and the order in which KMain.c initialises them, with the RAM  *)
(* disks of RamDisk.tla and the console of Console.tla, to which every     *)
(* registration prints a line.                                             *)
(*                                                                         *)
(* KMain's calls come first, with interrupts off.  The kernel makes no     *)
(* further ones yet, so what comes after is any sequence of calls, one at  *)
(* a time.  Memory may be refused at any call; a failed KAssert halts,     *)
(* and what it prints is left out.                                         *)
(***************************************************************************)
EXTENDS RamDisk, Console

CONSTANTS
    DM_MAX_REGISTERED_DRIVERS,
    MaxCalls,           \* bound: calls after KMain
    OtherDevices,       \* devices besides the TTY
    OtherFilesystems,   \* file systems besides devfs
    NULL

TTYDevice == "tty"
Devfs     == "devfs"

ASSUME DevicesAssumption ==
    /\ DM_MAX_REGISTERED_DRIVERS \in Nat \ {0} /\ MaxCalls \in Nat
    /\ TTYDevice \notin OtherDevices

VARIABLES
    boot,               \* the initialisers KMain has still to call
    calls,              \* calls made after that
    DmDriverList,       \* its first DmDriverCount elements
    VfsFsList,          \* names, in the order of the list
    DevfsDeviceList,    \* devices, likewise
    DevfsRootDir,       \* ChildrenAmount and the devices of Children
    panicked

registries == <<DmDriverList, VfsFsList, DevfsDeviceList, DevfsRootDir>>
vars == <<ramDiskVars, tty, boot, calls, registries, panicked>>

EmptyDirectory == [ChildrenAmount |-> 0, Children |-> <<>>]

Init ==
    /\ RamDiskInitial /\ TTYInitial
    /\ boot = <<"DmInit", "TTYInit", "RamDiskInit", "DevfsInit">>
    /\ calls = 0
    /\ DmDriverList = <<>> /\ VfsFsList = <<>> /\ DevfsDeviceList = <<>>
    /\ DevfsRootDir = EmptyDirectory
    /\ panicked = FALSE

------------------------------------------------------------------------------
(* Drivers *)

\* Faulty variant of DmRegisterDriver: one driver too many.
DmRegisterDriverOneMore(def, t) ==
    IF Len(DmDriverList) > DM_MAX_REGISTERED_DRIVERS
    THEN DmDriverList' = DmDriverList /\ tty' = t
    ELSE DmDriverList' = Append(DmDriverList, def) /\ tty' = Kprintf(t)

\* With the console at t.
DmRegisterDriver(def, t) ==
    IF Len(DmDriverList) = DM_MAX_REGISTERED_DRIVERS
    THEN DmDriverList' = DmDriverList /\ tty' = t
    ELSE DmDriverList' = Append(DmDriverList, def) /\ tty' = Kprintf(t)

------------------------------------------------------------------------------
(* File systems *)

VfsIsFsRegistered(name) == name \in Range(VfsFsList)

\* Faulty variant of VfsRegisterFilesystem: a name may come again.
RegisterAnyFilesystem(name, memory) ==
    /\ panicked' = ~memory
    /\ VfsFsList' = IF memory THEN Append(VfsFsList, name) ELSE VfsFsList
    /\ tty' = IF memory THEN Kprintf(tty) ELSE tty

VfsRegisterFilesystem(name, memory) ==
    LET ok == ~VfsIsFsRegistered(name) /\ memory
    IN  /\ panicked' = ~ok
        /\ VfsFsList' = IF ok THEN Append(VfsFsList, name) ELSE VfsFsList
        /\ tty' = IF ok THEN Kprintf(tty) ELSE tty

\* The callback of the only file system there is returns its only instance.
VfsCreateInstance(name) == panicked' = ~VfsIsFsRegistered(name)

------------------------------------------------------------------------------
(* devfs *)

\* The list grows first, then the number of children, then their table, which
\* realloc may refuse; last comes the inode.
DevfsAddDevice(device, refused) ==
    LET dir == DevfsRootDir
    IN  /\ panicked' = (refused # "nothing")
        /\ DevfsDeviceList' = IF refused = "entry" THEN DevfsDeviceList
                              ELSE Append(DevfsDeviceList, device)
        /\ DevfsRootDir' =
               CASE refused = "entry" -> dir
                 [] refused = "table" -> [dir EXCEPT !.ChildrenAmount = @ + 1]
                 [] refused = "inode" ->
                        [ChildrenAmount |-> dir.ChildrenAmount + 1,
                         Children |-> Append(dir.Children, NULL)]
                 [] OTHER ->
                        [ChildrenAmount |-> dir.ChildrenAmount + 1,
                         Children |-> Append(dir.Children, device)]

Refusals == {"nothing", "entry", "table", "inode"}

\* The console after it.
Announced(refused, t) == IF refused = "nothing" THEN Kprintf(t) ELSE t

------------------------------------------------------------------------------
(* KMain *)

\* KMain calls the initialiser called name next.
KMain(name) ==
    /\ ~panicked /\ boot # <<>> /\ Head(boot) = name
    /\ boot' = Tail(boot)
    /\ UNCHANGED <<ramDiskVars, calls>>

DmInit ==
    /\ KMain("DmInit")
    /\ DmDriverList' = <<>>
    /\ UNCHANGED <<tty, VfsFsList, DevfsDeviceList, DevfsRootDir, panicked>>

\* The cursor is wherever the boot loader has left it.
TTYInit ==
    /\ KMain("TTYInit")
    /\ \E pos \in 0..(TTYWidth * TTYHeight - 1), refused \in Refusals :
          LET t == Announced(refused, TTYOpened(pos))
          IN  /\ DevfsAddDevice(TTYDevice, refused)
              /\ IF panicked' THEN UNCHANGED DmDriverList /\ tty' = t
                 ELSE DmRegisterDriver("TTY", t)
    /\ UNCHANGED VfsFsList

RamDiskInit ==
    /\ KMain("RamDiskInit")
    /\ DmRegisterDriver("RamDisk", tty)
    /\ UNCHANGED <<VfsFsList, DevfsDeviceList, DevfsRootDir, panicked>>

\* The root directory is emptied, whatever it holds by now.
DevfsInit ==
    /\ KMain("DevfsInit")
    /\ DevfsRootDir' = EmptyDirectory
    /\ \E memory \in BOOLEAN : VfsRegisterFilesystem(Devfs, memory)
    /\ UNCHANGED <<DmDriverList, DevfsDeviceList>>

------------------------------------------------------------------------------
(* Calls after KMain *)

Called ==
    /\ boot = <<>> /\ ~panicked /\ ~overrun /\ calls < MaxCalls
    /\ calls' = calls + 1
    /\ UNCHANGED boot

RegisterFilesystem ==
    /\ Called
    /\ \E name \in OtherFilesystems \cup {Devfs}, memory \in BOOLEAN :
          VfsRegisterFilesystem(name, memory)
    /\ UNCHANGED <<ramDiskVars, DmDriverList, DevfsDeviceList, DevfsRootDir>>

CreateInstance ==
    /\ Called
    /\ \E name \in OtherFilesystems \cup {Devfs} : VfsCreateInstance(name)
    /\ UNCHANGED <<ramDiskVars, tty, registries>>

AddDevice ==
    /\ Called
    /\ \E device \in OtherDevices, refused \in Refusals :
          /\ DevfsAddDevice(device, refused)
          /\ tty' = Announced(refused, tty)
    /\ UNCHANGED <<ramDiskVars, DmDriverList, VfsFsList>>

RegisterDriver ==
    /\ Called
    /\ DmRegisterDriver("PS2Kbd", tty)
    /\ UNCHANGED <<ramDiskVars, VfsFsList, DevfsDeviceList, DevfsRootDir,
                   panicked>>

UseRamDisk ==
    /\ Called
    /\ RamDiskCall
    /\ UNCHANGED <<tty, registries, panicked>>

WriteText ==
    /\ Called
    /\ TTYWrite
    /\ UNCHANGED <<ramDiskVars, registries, panicked>>

Next == \/ DmInit \/ TTYInit \/ RamDiskInit \/ DevfsInit
        \/ RegisterFilesystem \/ CreateInstance \/ AddDevice
        \/ RegisterDriver \/ UseRamDisk \/ WriteText

Spec == Init /\ [][Next]_vars

------------------------------------------------------------------------------
(* Properties *)

AllDevices == OtherDevices \cup {TTYDevice}

TypeOK ==
    /\ RamDiskTypeOK /\ TTYTypeOK
    /\ calls \in 0..MaxCalls
    /\ DmDriverList \in Seq({"TTY", "RamDisk", "PS2Kbd"})
    /\ Len(DmDriverList) <= DM_MAX_REGISTERED_DRIVERS
    /\ VfsFsList \in Seq(OtherFilesystems \cup {Devfs})
    /\ DevfsDeviceList \in Seq(AllDevices)
    /\ DevfsRootDir.ChildrenAmount \in Nat
    /\ DevfsRootDir.Children \in Seq(AllDevices \cup {NULL})
    /\ panicked \in BOOLEAN

\* The assertion of VfsRegisterFilesystem keeps names apart, devfs included,
\* whatever is registered in which order.
NamesUnique == IsInjective(VfsFsList)

\* Devfs.c: "Registered device /dev/%s", printed for each device that is added:
\* while the kernel runs, /dev has an inode for every device in the list.
EveryDeviceShown ==
    ~panicked => Range(DevfsDeviceList) \subseteq Range(DevfsRootDir.Children)
=============================================================================
