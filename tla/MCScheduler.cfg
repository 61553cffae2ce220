SPECIFICATION FairSpec
CONSTANTS
    Idle = Idle
    Tester = Tester
    Worker = Worker
    Kernel = Kernel
    User = User
    Boot = Boot
    BootDirectory = BootDirectory
    NULL = NULL
    Threads = {Idle, Tester, Worker}
    Procs = {Kernel, User}
    SchedTimePerThread = 2
    UINT32_MAX = 4
    Millis = {0, 1, 3}
    Creators = {Tester}
INVARIANTS
    TypeOK
    FrameOwnership
    RightAddressSpace
    SleeperHoldsCpuOnlyInSleep
    NothingUnlinked
PROPERTIES
    NoEarlyPreemption
    LongSlicesFromSleep
    ImplementsRoundRobin
    HandlerReturns
    NoStarvation
