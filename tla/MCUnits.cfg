SPECIFICATION UnitsSpec
CONSTANTS
    NPROC = 3
    WordBits = 6
    TicketValues = {1, 2, 3, 5, 10, 20, 31}
    INPUT_BUF = 3
    Wrap = 6
    Letters = {"a", "b"}
    Readers = {1, 2}
    ReadSize = 2
    Slots = {1, 2}
    RamPages = 2
    DiscPages = 2
    Dirs = {1, 2, 3}
    MaxPages = 3
    MaxPid = 4
    MaxCalls = 5
    MAX_PYSC_PAGES = 3
    MAX_TOTAL_PAGES = 5
    Algos = {1, 2, 3}
    MaxSize = 6
    AgeTop = 2
    MaxTimer = 10
    GrowArgs = {1, 2}
    ShrinkArgs = {1}
CHECK_DEADLOCK FALSE
INVARIANTS DrawIsFair InputGoesOn NoStuckModifier HeapExact MemoryExact SwapPrivate ToolsAgree BytesFound TablesAgree FatalOnlyIfFull
PROPERTIES ConsoleIsLineEditor
