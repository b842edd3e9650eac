SPECIFICATION HoldsSpec
CONSTANTS
    CPU = {c1, c2}
    NIPCLOCK = 2
    TicketMod = 3
    MaxNest = 2
    NoCpu = NoCpu
    Lines = {1}
    MaxLvl = 2
    Sessions <- Debugging
INVARIANTS LockSound LinesArmed
PROPERTIES ServedInTurn StopLands NoStranding
CHECK_DEADLOCK FALSE
