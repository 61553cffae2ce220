SPECIFICATION FairSpec
CONSTANTS
    KernelThreads = {idle, test}
    UserThreads = {u1, u2}
    StackThreads = {test}
    KMain = KMain
    KMainWords = 2
    MaxPushed = 2
    Lines = {0, 1, 9}
    Values = {0, 1}
    SYSCALL_HANDLER_AMOUNT = 1
CHECK_DEADLOCK FALSE
INVARIANTS
    TypeOK
    UserThreadWhole
    KernelWordsKept
    MasterAcknowledged
PROPERTY TimerServed
