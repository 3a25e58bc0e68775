\* Two descriptors on two sectors of two pages.
CONSTANTS
    Fds = {3, 4}
    MAX_FLASH_FDS = 2
    Sectors = 2
    Pages = 2
    PageSize = 1
    WordBytes = 2
    Bits = {0}
    ReadCounts = {1, 2, 3}
    WriteCounts = {0, 1, 3}
    Offsets = {0, 2}
SPECIFICATION FairSpec
PROPERTIES ImplementsStore CallReturns
