\* One server and one client that sends to it, waits, and reads it.
SPECIFICATION FairSpec
CONSTANTS
    CPU = {boot, ap}
    Boot = boot
    Proc = {p1, p2}
    Port = {q1}
    Calls <- Clients
    Machine <- Quiet
    Weight = 1
    LAPSPILL = 2
    MaxMsgs = 2
    NoCpu = NoCpu
    NoProc = NoProc
    NoPort = NoPort
PROPERTIES WorkReached 
