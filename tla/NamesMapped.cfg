\* The name space, while the others are where they started.
CONSTANTS
    NPROC = 5
    SqWidth = 4
    SleepDelays = {1, 2, 3, 4, 5, 6, 7}
    RecvWaits = {1, 2}
    Width = 7
    minheap = 16
    maxheap = 56
    Requests = {0, 3, 16, 17}
    RfUsers = {p1, p2}
    Nrfl = 1
    RfNames = {"f"}
    RfModes <- MCModes
    RfBuffers <- MCBuffers
    RfCount = 1
    RF_RETRIES = 2
    LinkCap = 2
    MaxSeq = 3
    MaxSize = 1
    Reorders = FALSE
    NmDevices <- MCDevices
    NmMounts <- MCMounts
    NmNames <- MCNames
    NM_PRELEN = 4
    NM_REPLLEN = 3
    NM_MAXLEN = 4
    NNAMES = 9
    CharMax = 5
    FirstLines <- MCFirstLines
    ShLines <- MCLines
    Commands <- MCCommands
    Builtins <- MCBuiltins
    SHELL_MAXTOK = 4
    ShSlots = 2
    ShFirst = TRUE
    EthReaders = {r1, r2}
    EthWriters = {w}
    ETH_RX_RING_ENTRIES = 2
    ETH_TX_RING_ENTRIES = 2
    ETH_IBUFSIZ = 2
    EthPreempts = FALSE
    Typed <- MCTyped
    Dat <- MCDat
    LeftOvers <- MCLeftOvers
    Instants <- MCInstants
    Daylights = {"off", "auto"}
    PrBits = 12
    PrString = 8
    MAXSTR = 20
    PrSpecs <- MCSpecs
    PrValues <- MCPrinted
SPECIFICATION NamesSpec
INVARIANTS MapsThrough
CHECK_DEADLOCK FALSE
