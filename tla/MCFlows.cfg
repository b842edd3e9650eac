SPECIFICATION Spec
CONSTANTS
    IdxMod = 4
    NRX = 2
    NTX = 2
    CardMax = {2, 1}
    Kind = {"fits", "long"}
    Messages = {"none", "takes"}
    Loads <- Traffic
    Fd = {1, 2}
    MAXTOKENS = 2
    MaxTok = 2
    MaxSock = 2
    MaxIn = 2
    Room = 1
    SendLen = 2
    CloseBusy = FALSE
    Menus <- Together
    Procs = {1}
    Cores = {"boot", "ap"}
    Boot = "boot"
    Units = 2
    OwedMax = 2
    GCSTEP_MIN = 1
    GCIDLE_MIN = 2
    Expendable = {1}
    Reclaimers = {1}
    MaxCalls = 1
INVARIANT FramesInOrder
PROPERTIES FramesHanded  
CHECK_DEADLOCK FALSE
