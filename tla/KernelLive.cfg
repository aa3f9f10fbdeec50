\* Equal priorities, four process slots, with fairness.
CONSTANTS
    NPROC = 4
    NSEM = 1
    QUANTUM = 2
    INITPRIO = 2
    Prios = {2}
    ChPrios = {}
    Delays = {1}
    MaxWaits = {1}
    Counts = {0}
    MaxCount = 1
    MaxNest = 2
    Calls = {"create", "resume", "sleepms", "send", "receive"}
SPECIFICATION FairSpec
PROPERTIES SleepersWake EqualsTakeTurns
