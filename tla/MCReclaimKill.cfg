\* Two procs and two cpus: one gives chunks back while memory stays short.
SPECIFICATION ReclaimSpec
CONSTANTS
    IdxMod = 4
    NRX = 2
    NTX = 2
    CardMax = {2, 1}
    Kind = {"fits", "long"}
    Messages = {"none", "takes"}
    Loads <- Traffic
    Fd = {1, 2}
    MAXTOKENS = 2
    MaxTok = 2
    MaxSock = 2
    MaxIn = 2
    Room = 1
    SendLen = 2
    CloseBusy = FALSE
    Menus <- Together
    Procs = {1, 2}
    Cores = {"boot", "ap"}
    Boot = "boot"
    Units = 1
    OwedMax = 1
    GCSTEP_MIN = 1
    GCIDLE_MIN = 1
    Expendable = {1}
    Reclaimers = {2}
    MaxCalls = 1
INVARIANT KillCarried
CHECK_DEADLOCK FALSE
