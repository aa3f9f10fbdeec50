\* Every call but chprio(), three process slots, one semaphore.
CONSTANTS
    NPROC = 3
    NSEM = 1
    QUANTUM = 2
    INITPRIO = 2
    Prios = {1, 2}
    ChPrios = {}
    Delays = {1, 2}
    MaxWaits = {1, 2}
    Counts = {0, 1}
    MaxCount = 1
    MaxNest = 2
    Calls = {"create", "getstk fails", "resume", "suspend", "yield", "sleepms", "send",
             "receive", "recvtime", "recvclr", "exit", "kill", "semcreate", "wait",
             "signal", "signaln", "semdelete", "semreset"}
SPECIFICATION Spec
INVARIANTS TypeOK StateQueueAgreement MessagesHeld HighestPriorityRuns
PROPERTIES SleepListUse
VIEW LiveView
