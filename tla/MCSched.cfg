\* Two cpus, three procs, two ports: wakes, pumps, readers and the sweep.
SPECIFICATION Spec
CONSTANTS
    CPU = {boot, ap}
    Boot = boot
    Proc = {p1, p2, p3}
    Port = {q1, q2}
    Calls <- Readers
    Machine <- Both
    Weight = 2
    LAPSPILL = 2
    MaxMsgs = 1
    NoCpu = NoCpu
    NoProc = NoProc
    NoPort = NoPort
SYMMETRY Symmetry
INVARIANTS OnePlace HeldStill
