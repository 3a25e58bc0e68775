\* Two packets, from the beginning and from where the number wraps, a disc with
\* room for one of them or for both; two faults; a packet that arrives promptly takes as many rounds as the
\* timeout.  A script with a program in it, five typed lines.
CONSTANTS
    Blocks <- MCBlocks
    ShortSize = 1
    LongSize = 2
    FirstNums = {0, 254}
    Noise = {1, 4}
    START_TIMEOUT = 2
    PACKET_TIMEOUT = 7
    MAX_ERRORS = 3
    Rooms = {1, 2}
    MaxFaults = 2
    MaxLine = 5
    MaxBack = 2
    Script <- MCScript
    Typed <- MCTyped
    Hashes = {"#", "#configure"}
    ProgramNames = {"prog"}
    atoi <- MCatoi
    MAX_FILE_DESCRIPTORS = 6
    MaxTyped = 5
SPECIFICATION Spec
INVARIANTS FileIsPrefix ReceivedIsWritten SettingsAgree ScriptRunsOnce
PROPERTY TransferEnds
\* The sender may stop.
CHECK_DEADLOCK FALSE
