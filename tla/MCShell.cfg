SPECIFICATION Spec
CONSTANTS
    PIPESIZE = 2
    WRAP = 6
    MAXARGS = 3
    Procs = {1, 2, 3, 4, 5, 6}
    Pipes = {1, 2}
    Scenarios <- MCScenarios
CHECK_DEADLOCK FALSE
INVARIANTS PipesExact SleepersHaveReason OutputAsMeant
PROPERTIES ShellReturns
