\* A process that polls with recvtime(0) while another sleeps.
CONSTANTS
    NPROC = 3
    NSEM = 1
    QUANTUM = 1
    INITPRIO = 2
    Prios = {2}
    ChPrios = {}
    Delays = {2}
    MaxWaits = {0}
    Counts = {0}
    MaxCount = 1
    MaxNest = 2
    Calls = {"create", "resume", "sleepms", "recvtime"}
SPECIFICATION FairSpec
PROPERTIES SleepersWake
