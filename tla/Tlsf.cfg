\* A pool of 96 bytes.  Sizes below 16 share the first row; above, four lists a row,
\* so that from 32 bytes on a list holds two sizes.  Of the requests, 120 is larger
\* than the pool, 128 than any block, and 1023 wraps.
CONSTANTS
    PoolBytes = 96
    SL_INDEX_COUNT_LOG2 = 2
    FL_INDEX_MAX = 7
    SizeMod = 1024
    Requests = {0, 1, 20, 34, 120, 128, 1023}
    Aligns = {16}
    MaxLive = 3
SPECIFICATION Spec
INVARIANTS HeapIntact HoldersSafe FailsOnlyWhenFull
