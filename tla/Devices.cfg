SPECIFICATION Spec
CONSTANTS
    RAMDISK_MAX_DISKS = 3
    UINT64_MAX = 7
    BufferSizes = {0, 2, 3}
    Amounts = {1, 2, 4}
    DM_MAX_REGISTERED_DRIVERS = 3
    MaxCalls = 7
    OtherDevices = {ram0, ram1}
    OtherFilesystems = {fat}
    NULL = NULL
    TTYWidth = 4
    TTYHeight = 2
    UINT8_MAX = 6
    Letters = {"a"}
CHECK_DEADLOCK FALSE
INVARIANTS
    TypeOK
    CursorInBuffer
    NamesUnique
    LineShown
