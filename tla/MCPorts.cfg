\* Two procs, three ports, two messages: rights that travel, waits, timers.
SPECIFICATION Spec
CONSTANTS
    a = a
    b = b
    Proc = {a, b}
    MAXPORTS = 3
    MAXRIGHTS = 2
    MAXMSGRIGHTS = 1
    MAXQUEUE = 1
    MAXTIMERS = 1
    PortLimit = 2
    MsgId = {m1, m2}
    Boot <- Parent
    Menus <- Scenes
    Kernel = Kernel
    NoProc = NoProc
    NoRight = NoRight
    NoPort = NoPort
    NoMsg = NoMsg
SYMMETRY Messages
INVARIANTS CountsExact NoDangling NoLostWakeup
PROPERTY RegionShrinks
CHECK_DEADLOCK FALSE
