\* Semaphore calls, kill() and chprio(), four process slots.
CONSTANTS
    NPROC = 4
    NSEM = 1
    QUANTUM = 1
    INITPRIO = 2
    Prios = {2}
    ChPrios = {1}
    Delays = {1}
    MaxWaits = {1}
    Counts = {0, 2}
    MaxCount = 2
    MaxNest = 2
    Calls = {"create", "getstk fails", "resume", "suspend", "chprio", "wait", "signal",
             "signaln", "semcreate", "semdelete", "semreset", "exit", "kill"}
SPECIFICATION Spec
INVARIANTS SemCountQueue PrcountLive
PROPERTIES SemaphorePromise
VIEW LiveView
