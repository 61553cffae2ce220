SPECIFICATION Spec
CONSTANTS
    MM_BITMAP_SIZE = 14
    LowBytes = 1
    FirstImageFrame = 4
    KernelSizePages = 4
    KernelPages = 10
    VariablePage = 1
    Requests = {1, 2, 3}
CHECK_DEADLOCK FALSE
INVARIANT ImageFramesKept
