---------------------------- MODULE KernelPromises ----------------------------
(***************************************************************************)
(* XinuKernel implements two abstract specifications: Semaphore, what the  *)
(* semaphores promise their users, and SleepList, what the kernel relies   *)
(* on of the sleep queue (which SleepQueue, the delta list, implements).   *)
(***************************************************************************)
EXTENDS XinuKernel

(* A negative scount stands for no tokens.  semdelete() and semreset()     *)
(* take effect when they are called: the processes their loops have still  *)
(* to release no longer wait on the semaphore, and a semaphore that is     *)
(* being reset has its new count already.                                  *)
Resetting(s) == At("semreset") /\ Top.arg = s

semLive == {s \in Sem : sstate[s] = "USED"}

semTokens ==
    [s \in Sem |-> IF Resetting(s) THEN Top.cnt
                   ELSE IF s \in semLive /\ scount[s] > 0 THEN scount[s] ELSE 0]

semWaiting ==
    [s \in Sem |-> IF s \notin semLive \/ Resetting(s) THEN <<>> ELSE squeue[s]]

Semaphores == INSTANCE Semaphore WITH
    Sem <- Sem, Process <- Pid,
    live <- semLive, tokens <- semTokens, waiting <- semWaiting

Sleepers == INSTANCE SleepList WITH
    Process <- Pid, queue <- sleepq,
    left <- [p \in ToSet(sleepq) |-> qkey[p]],
    waking <- At("wakeup")

\* wait(), signal(), signaln(), semcreate(), semdelete(), semreset() and the
\* kill() of a waiting process keep the promise of Semaphore: tokens or waiting
\* processes, first come first served.  Nothing else touches a semaphore.
SemaphorePromise == Semaphores!Spec

\* sleepms(), recvtime(), send(), kill() and the clock handler use the sleep
\* queue as SleepList allows: one operation at a time, never while wakeup() is
\* taking sleepers off, and every tick is charged to every sleeper.
SleepListUse == Sleepers!Spec
=============================================================================
