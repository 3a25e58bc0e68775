\* Monitor mode switched on and off, with reads in parts and frames at any time.
CONSTANTS
    Frames <- ReadFrames
    Fds = {3}
    Ports = {0, 1}
    RxPorts = {1}
    Stations = {}
    ReadCounts = {4}
    WriteCounts = {}
    MonitorModes = {TRUE, FALSE}
    MaxMonitor = 2
    WordSize = 65536
    Polite = FALSE
SPECIFICATION Spec
INVARIANT MonitorReadHasFrame
\* Beyond the bound on monitored frames a monitor read waits for ever.
CHECK_DEADLOCK FALSE
