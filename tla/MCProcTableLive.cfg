SPECIFICATION FairSpec
CONSTANTS
    NPROC = 3
    NCPU = 1
    WordBits = 6
    TickMod = 1
    DefaultTicket = 1
    TicketArgs = {1}
    SleepArgs = {1}
    KillArgs = {2}
    MaxPid = 3
PROPERTIES KilledExits OrphansReaped
