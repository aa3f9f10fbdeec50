\* The system stops after panic().
CONSTANTS
    f = f
    g = g
    Nlfl = 2
    Names = {f, g}
    Buffers <- MCBuffers
    ReadCounts = {2}
    LF_BLKSIZ = 2
    LF_IBLEN = 1
    NumIB = 2
    NumDB = 2
    LF_NUM_DIR_ENT = 2
    MaxSize = 3
    OpenTwice = FALSE
    p1 = p1
    p2 = p2
    RdUsers = {p1, p2}
    RD_BUFFS = 2
    RdBlocks = {0, b1, b2}
    RdSharings <- MCSharings
    RdData = {"0", "1"}
    RD_RETRIES = 2
    RdCap = 1
    MaxRdSeq = 3
SYMMETRY Sym
VIEW StorageView
SPECIFICATION StorageSpec
INVARIANTS BlocksOnce SavedOnClose RdBuffersOnce CacheTrue
PROPERTIES FilesPromise
CHECK_DEADLOCK FALSE
