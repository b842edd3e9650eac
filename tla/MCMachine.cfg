SPECIFICATION Spec
CONSTANTS
    Source = {"f", "g"}
    Line = {1}
    RingSizes = {0, 2}
    TRACESRC = 3
    Spent = {1, 2}
    MaxRan = 4
    NCPU = 4
    Present = {0, 1, 2, 3, 4, 5}
    Late = FALSE
    Cpu = {"a", "b"}
    BootCpu = "a"
    RXRING = 3
    Fifo = 2
    Bytes = 4
    Key = {"a", "up", "wide", "other"}
    KBDBATCH = 4
    MAXQUEUE = 1
    Presses = 5
    LOGEARLY = 3
    LOGRING = 5
    LOGCHUNK = 2
    Lines = {1, 2, 3}
    EarlyMax = 3
    LogMax = 12
    Asked <- AskedBudgets
    Child <- Kids
    MAXRIGHTS = 20
    NewPorts = 2
    Shapes <- SmallHeaps
    Coroutines = {"main", "c1", "c2"}
    IntKeys = {"i"}
    Stacks <- SmallStacks
    Wanted <- Questions
    MAXCOROS = 4
    MAXSEEN = 3
    MAXDEPTH = 3
    MAXLOCALS = 2
    MAXSCAN = 2
    READFRAMES = 1
    DBGKEYS = 2
    DBGPATH = 2
    c1 = c1
    c2 = c2
    Caller = {c1, c2}
    SlotsOf <- SlotCounts
    QueueMax = {2, 4}
    Lba = {0, 1}
    IdxMod = 4
    LCD_W = 2
    LCD_H = 3
    BAND_ROWS = 2
    NBAND = 2
    CURSOR_R = 1
    Rects <- Drawn
    Places <- Near
    MaxDraws = 2
    LcdFaults = {"refuse", "stall", "probe"}
    NXFER = 1
    RingSize = 2
    CtrMod = 4
    Samples = 3
    Sessions = 2
    Patience = 1
    NSLOT = 3
    MaxFrames = 3
    MaxCalls = 4
    Breaks = 1
    Cells2 <- TwoCells
    KeySlots = 3
    ReleaseScans = 3
    panw = 2
    panh = 3
    scrw = 3
    scrh = 2
    Hands <- Hand
    Dirs <- TwoWays
    TB_THRESHOLD = 2
    MousePackets <- Mice
    MaxPackets = 3
    FbW = 2
    FbH = 2
    MaxStray = 1
INVARIANTS    Confined StackRead
           RequestsApart GlassIsCopy   
CHECK_DEADLOCK FALSE
