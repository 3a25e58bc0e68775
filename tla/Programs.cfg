\* User memory of 64 cells: images of up to 10, argument blocks of 8 to 16.
CONSTANTS
    USRMEM_START = 16
    USER_SP = 80
    StackMargin = 8
    DefaultGap = 24
    GP_SPACE = 2
    MAXARGS = 3
    Align = 4
    Files <- MCFiles
    Flashes <- MCFlashes
    Lines <- MCLines
    Warm <- MCWarm
    Cold <- MCCold
    Depths = {0, 4, 20}
    Increments <- MCIncrements
    MinPool = 4
    MixHeaps = FALSE
    MaxSteps = 4
    StarArgs = 2
    BufSize = 14
    Requests <- MCRequests
    MaxRequests = 4
    FrameAddrs = {a1, a2}
    NoAddress = none
    CountMod = 4
    MaxFrames = 7
SPECIFICATION AllSpec
INVARIANTS StartsAsAsked HeapOwned RepliesAnswer CountsRepeats
PROPERTY FailedRunSpares
\* A program stops after MaxSteps calls only in the model.
CHECK_DEADLOCK FALSE
