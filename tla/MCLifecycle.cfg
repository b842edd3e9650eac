SPECIFICATION Spec
CONSTANTS
    CPU = {boot, ap}
    Boot = boot
    MAXPROCS = 3
    MaxPid = 3
    MAXBROKE = 1
    MAXWATCH = 1
    First <- Family
    Expendable <- NoVictim
    Menu <- Workers
    NoCpu = NoCpu
CHECK_DEADLOCK FALSE
INVARIANTS NoFreedRun OneDeath 
