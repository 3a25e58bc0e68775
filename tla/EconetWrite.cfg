CONSTANTS
    Frames <- MCFrames
    Fds = {3}
    Ports = {0, 1}
    RxPorts = {1}
    Stations = {7}
    ReadCounts = {}
    WriteCounts = {4, 2037}
    MonitorModes = {FALSE}
    MaxMonitor = 0
    WordSize = 65536
    Polite = FALSE
SPECIFICATION Spec
INVARIANTS TypeOK HandshakeTimed WriteHonest TransmitOwned
