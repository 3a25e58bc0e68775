\* Four clusters of two sectors and a root directory of two entries; the FAT entry of
\* the last cluster is in two sectors, and two clusters lie across erase blocks.  A
\* behaviour ends after MaxCalls calls.
CONSTANTS
    n_fatent = 6
    Digit = 3
    FatSs = 8
    Ss = 2
    csize = 2
    nrsv = 2
    n_rootdir = 2
    BlockSects = 4
    fileA = fileA
    fileB = fileB
    dirA = dirA
    Names = {fileA, fileB}
    DirNames = {dirA}
    Handles = {1, 2}
    WriteLens = {1, 5}
    ReadLens = {3}
    Seeks = {1, 5}
    MaxSize = 6
    MaxCalls = 5
    MaxFaults = 1
CHECK_DEADLOCK FALSE
SYMMETRY Symmetry
SPECIFICATION Spec
INVARIANTS DiskConsistent SavedIsOnDisk CallsAgree ClustersAccounted
