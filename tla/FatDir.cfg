\* Two clusters of two sectors of two entries, and a root directory of eight: a long name
\* of fourteen characters takes three entries, so the first file already makes a
\* directory's table grow and four names fill the root.  The FAT entry of the second
\* cluster is in two sectors.  A behaviour ends after MaxCalls calls.
CONSTANTS
    n_fatent = 4
    Digit = 3
    FatSs = 5
    Ss = 2
    csize = 2
    nrsv = 1
    n_rootdir = 8
    BlockSects = 4
    Paths <- MCPaths
    CreatePaths <- MCCreate
    MkdirPaths <- MCMkdir
    UnlinkPaths <- MCUnlink
    ChdirPaths <- MCChdir
    OpendirPaths <- MCOpendir
    StatPaths <- MCStat
    UsedFiles <- MCUsed
    MaxCalls = 5
    MaxFaults = 1
    FaultCalls = 3
CHECK_DEADLOCK FALSE
SPECIFICATION Spec
INVARIANTS DirectoriesIntact NamesSaved PathsAgree ScanComplete
