\* Four FIFO slots and four keys, so that the FIFO fills up and wraps; 16-bit
\* integers and 4-bit bytes, so that words fit TLC's integers.
CONSTANTS
    FIFO_SIZE = 4
    Keys = {97, 8, 13}
    Counts = {0, 2}
    Timeouts <- MCTimeouts
    PollLists <- MCPollLists
    Stale = {"POLLIN"}
    TimeMod = 16
    MaxKeys = 4
    MaxTime = 2
    MaxCalls = 3
    CharBits = 4
    ShortBits = 8
    LongBits = 16
    RamSize = 8
    LineBytes = 4
    Glyph <- MCGlyph
    Commands <- MCCommands
    Messages <- MCMessages
SPECIFICATION Spec
INVARIANTS NothingLost LineAgrees PollHonest PrintsRight
PROPERTY PollReturns
\* The program and the terminal may stop.
CHECK_DEADLOCK FALSE
