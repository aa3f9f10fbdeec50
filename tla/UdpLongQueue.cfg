\* UDP queues that are longer than the table of ends, as in the code.
CONSTANTS
    PortUsers = {x1, x2, x3}
    BufUsers = {x1, x2, x3}
    NPORTS = 2
    PtMsgs = 4
    PortCounts = {1, 2}
    MaxChanges = 3
    NBPOOLS = 3
    HeapBufs = 4
    NSEM = 2
    Preempt = FALSE
    ArpUsers = {y1, y2}
    ArpHosts = {x1, x2, x3}
    ARP_SIZ = 2
    ARP_RETRY = 2
    None = None
    Hosts = {y1, y2}
    Locals = {"l1"}
    Shapes <- MCLongQueue
    MaxPings = 2
    NetPreempts = FALSE
    TmUsers = {t1}
    DhcpServers = {"s1", "s2"}
    TmSlots = 2
    TmQueue = 2
    DhcpTries = 2
    MaxTmCalls = 2
SPECIFICATION ExchangeSpec
INVARIANTS HeadIsNext
CHECK_DEADLOCK FALSE
