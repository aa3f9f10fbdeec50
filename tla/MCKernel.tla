------------------------------- MODULE MCKernel -------------------------------
(***************************************************************************)
(* XinuKernel for TLC.  The entry of a free process slot is never read     *)
(* before create() has filled it again, so states that differ only there   *)
(* are one state (LiveView); so are keys and semaphores of processes on no *)
(* list.                                                                   *)
(***************************************************************************)
EXTENDS KernelPromises

Normal(f, live, default) == [p \in Pid |-> IF p \in live THEN f[p] ELSE default]

LiveView ==
    LET live == {p \in Pid : prstate[p] # "FREE"}
        queued == {p \in Pid : prstate[p] \in {"READY", "SLEEP", "RECTIM"}}
        waiting == {p \in Pid : prstate[p] = "WAIT"}
        children == live \ {NULLPROC}
    IN  <<prstate, Normal(prprio, live, 0), Normal(prhasmsg, live, FALSE),
          Normal(prparent, live, 0), Normal(qkey, queued, 0),
          Normal(prsem, waiting, 0), readylist, sleepq, squeue, sstate, scount,
          nextsem, nextpid, prcount, currpid, preempt, kstack, ie, halted>>
=============================================================================
