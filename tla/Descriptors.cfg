\* Two flash slots, four descriptors beside standard input and output, and two
\* directory handles: each table can be full while the others are not.
CONSTANTS
    MAX_FILE_DESCRIPTORS = 7
    MAX_FLASH_FDS = 2
    MAX_DHND = 2
    BootImages = {TRUE, FALSE}
    Careful = TRUE
SPECIFICATION Spec
INVARIANTS TablesAgree Accounted
PROPERTY OwnKept
