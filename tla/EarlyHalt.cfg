\* A parent woken by the death of its child kills the child.
CONSTANTS
    NPROC = 3
    NSEM = 1
    QUANTUM = 1
    INITPRIO = 2
    Prios = {1, 2}
    ChPrios = {}
    Delays = {1}
    MaxWaits = {0}
    Counts = {0}
    MaxCount = 1
    MaxNest = 2
    Calls = {"create", "resume", "receive", "exit", "kill"}
SPECIFICATION Spec
INVARIANTS HaltOnlyWhenDone

