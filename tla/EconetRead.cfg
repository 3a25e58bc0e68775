\* Reads whole and in parts, on two ports, while the other stations wait.
CONSTANTS
    Frames <- ReadFrames
    Fds = {3, 4}
    Ports = {0, 1, 2}
    RxPorts = {1, 2}
    Stations = {}
    ReadCounts = {4}
    WriteCounts = {}
    MonitorModes = {FALSE}
    MaxMonitor = 0
    WordSize = 65536
    Polite = TRUE
SPECIFICATION Spec
INVARIANTS ReadHonest UnreadIsReady
\* A program may wait for a port the others have nothing for.
CHECK_DEADLOCK FALSE
