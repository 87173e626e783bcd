SPECIFICATION FairSpec
CONSTANTS
    NINODES = 15
    NBLOCKS = 22
    BSIZE = 4
    NDIRECT = 2
    NINDIRECT = 4
    NINODE = 6
    LongNames <- MCLongNames
    Procs = {1, 2, 3}
    NFILE = 4
    NOFILE = 3
    MaxWrite = 8
    Scenarios <- MCScenarios
    Image <- MCImage
INVARIANTS CountsExact DiskConsistent ResultsAsTested
PROPERTIES TestsEnd
