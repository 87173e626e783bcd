SPECIFICATION Spec
CONSTANTS
    NPROC = 3
    NCPU = 2
    WordBits = 6
    TickMod = 3
    DefaultTicket = 1
    TicketArgs <- MCTicketArgs
    SleepArgs = {1}
    KillArgs = {2, 3}
    MaxPid = 3
CONSTRAINT TicksBelowWrap
INVARIANTS TypeOK OneCpuPerProc NoLostExit ParentIsLive EmbryoOwned PidsUnique NoLostTick TicksCharged
PROPERTIES LifeCycle
