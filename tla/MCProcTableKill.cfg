SPECIFICATION Spec
CONSTANTS
    NPROC = 3
    NCPU = 2
    WordBits = 6
    TickMod = 1
    DefaultTicket = 1
    TicketArgs <- MCTicketArgs
    SleepArgs = {0}
    KillArgs = {3}
    MaxPid = 4
INVARIANT KilledOnlyByPid
