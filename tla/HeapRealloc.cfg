SPECIFICATION Spec
CONSTANTS
    Callers = {1}
    Requests = {1, 20, 21, 22}
    ALIGNMENT = 8
    ALIGN_INFO = 2
    ByteRange = 4
    MajorSize = 1
    MinorSize = 1
    l_pageSize = 8
    l_pageCount = 4
    HeapPages = 8
CHECK_DEADLOCK FALSE
INVARIANT ReallocFindsHeader
