SPECIFICATION Spec
CONSTANTS
    CPU = {boot, ap}
    Boot = boot
    MAXPROCS = 3
    MaxPid = 3
    MAXBROKE = 1
    MAXWATCH = 1
    First <- Three
    Expendable <- Victim
    Menu <- Parked
    NoCpu = NoCpu
CHECK_DEADLOCK FALSE
INVARIANT NoFreedRun
