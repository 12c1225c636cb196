\* A build without _MSC_VER: one thread calls ++ on an atomic_ref<uint8_t>
\* whose location holds 255.
CONSTANTS
    t1 = t1
    y = y
    Threads <- MCThreadsOne
    Locs <- MCLocsY
    Size <- MCSizeY
    MSVC = FALSE
    Uses <- MCUsesY
    Ops <- MCOpsIncDec
    Values <- MCValues
    Deltas <- MCDeltas
    Expected <- MCExpected
    InitVal <- MCInitTop
    MaxOps = 2
SPECIFICATION Spec
INVARIANT ReturnsAsContract
