\* Liveness of the handshakes, program and network unconstrained.
CONSTANTS
    Frames <- LiveFrames
    Fds = {3}
    Ports = {0, 1}
    RxPorts = {1}
    Stations = {7}
    ReadCounts = {}
    WriteCounts = {4}
    MonitorModes = {FALSE}
    MaxMonitor = 0
    WordSize = 65536
    Polite = FALSE
SPECIFICATION FairSpec
PROPERTIES WriteReturns WaitDataEnds
