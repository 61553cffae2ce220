SPECIFICATION Spec
CONSTANTS
    TableSize = 6
    UserTables = 2
    HeapFrames = 3
    DataFrame = 7
    UserPages = {7, 8}
    WatchedPages = {7}
    AskedRights = {{"User"}, {"User", "Writable"}}
    PmFrames = 2
    Nowhere = Nowhere
CHECK_DEADLOCK FALSE
INVARIANT MmapMapsOnePage
