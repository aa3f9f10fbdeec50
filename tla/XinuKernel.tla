------------------------------ MODULE XinuKernel ------------------------------
(***************************************************************************)
(* The process manager of Xinu on cMIPS: the scheduler, semaphores,        *)
(* one-word messages, sleeping and the clock interrupt (src/xinu/system).  *)
(*                                                                         *)
(* One processor: only currpid acts.  A system call that finishes without  *)
(* giving up the processor, or has nothing left to do once it is given     *)
(* back, is one action.  A call with work left after a reschedule, and a   *)
(* loop run with interrupts disabled, leaves a frame on the kernel stack   *)
(* of its process; the action named after the frame goes on from there.    *)
(* resched() itself is atomic here.                                        *)
(*                                                                         *)
(* ie is "an interrupt can be taken" (STATUS.IE set, STATUS.EXL clear).    *)
(* ctxsw.S:76-83 sets it on EVERY switch, so a call that comes back from   *)
(* a blocking resched finishes with interrupts enabled.                    *)
(***************************************************************************)
EXTENDS Integers, FiniteSets, SequencesExt

CONSTANTS
    NPROC,      \* slots of proctab; 0 is the null process
    NSEM,       \* entries of semtab
    QUANTUM,    \* ticks of a time slice
    INITPRIO,   \* the priority of main()
    Prios,      \* priorities user processes call create() with
    ChPrios,    \* priorities chprio() is called with
    Delays,     \* ticks sleepms() is called with
    MaxWaits,   \* ticks recvtime() is called with
    Counts,     \* counts semcreate(), semreset() and signaln() are called with
    MaxCount,   \* bound: no call raises a semaphore above it
    MaxNest,    \* bound: a tick is not taken above this many frames
    Calls       \* the system calls user processes make

ASSUME SizeAssumption ==
    /\ NPROC \in Nat /\ NPROC >= 2
    /\ NSEM \in Nat \ {0}
    /\ QUANTUM \in Nat \ {0}
    /\ MaxCount \in Nat /\ MaxNest \in Nat

ASSUME ArgumentAssumption ==
    /\ INITPRIO \in Nat \ {0}
    /\ Prios \subseteq Nat \ {0}
    /\ ChPrios \subseteq Int
    /\ Delays \subseteq Nat \ {0}
    /\ MaxWaits \subseteq Nat
    /\ Counts \subseteq Nat

VARIABLES
    prstate,    \* proctab[p].prstate
    prprio,     \* proctab[p].prprio
    prsem,      \* proctab[p].prsem
    prhasmsg,   \* proctab[p].prhasmsg
    prparent,   \* proctab[p].prparent
    qkey,       \* queuetab[p].qkey; on sleepq the sum of the deltas up to p
    readylist,  \* the ready list, first process first
    sleepq,     \* the delta list of sleepers, first process first
    squeue,     \* semtab[s].squeue, first process first
    sstate,     \* semtab[s].sstate
    scount,     \* semtab[s].scount
    nextsem,    \* next semaphore index to try
    nextpid,    \* next process slot to try
    prcount,    \* number of live processes
    currpid,    \* the process that has the processor
    preempt,    \* ticks left in its time slice
    kstack,     \* frames of calls each process is still inside, top first
    ie,         \* an interrupt can be taken
    halted      \* xdone() has stopped the machine

semVars  == <<squeue, sstate, scount, nextsem>>
idVars   == <<prprio, prparent, nextpid, prcount, halted>>
schedVars == <<prstate, qkey, readylist, currpid, preempt>>
vars == <<schedVars, idVars, semVars, prsem, prhasmsg, sleepq, kstack, ie>>

NULLPROC == 0
Pid == 0 .. NPROC - 1
Sem == 0 .. NSEM - 1

States == {"FREE", "CURR", "READY", "RECV", "SLEEP", "SUSP", "WAIT", "RECTIM"}
Frame ==    \* arg: the process or semaphore the call is about
    [at : {"create", "receive", "recvtime", "wakeup", "preempt"}, arg : {0}, cnt : {0}]
    \cup [at : {"resume"}, arg : Pid, cnt : {0}]
    \cup [at : {"kill"}, arg : Pid \ {NULLPROC}, cnt : {0}]
    \cup [at : {"signaln", "semdelete", "semreset"}, arg : Sem, cnt : Nat]
NewFrame(at, arg, cnt) == [at |-> at, arg |-> arg, cnt |-> cnt]

-----------------------------------------------------------------------------
(* Queues.  A linked list of queuetab is the sequence of its processes.     *)

\* Mutant of Insert: a process goes before those of equal key.
InsertBeforeEquals(q, keys, p, key) ==
    InsertAt(q, Cardinality({j \in DOMAIN q : \A k \in 1 .. j : keys[q[k]] > key}) + 1, p)

\* insert(): after every leading entry whose key is >= key.
Insert(q, keys, p, key) ==
    LET passed == {j \in DOMAIN q : \A k \in 1 .. j : keys[q[k]] >= key}
    IN  InsertAt(q, Cardinality(passed) + 1, p)

\* Mutant of Insertd: at the tail.
InsertdAtTail(q, keys, p, delay) == Append(q, p)

\* insertd(): after every leading sleeper whose delay has run out by then.
Insertd(q, keys, p, delay) ==
    LET passed == {j \in DOMAIN q : \A k \in 1 .. j : keys[q[k]] <= delay}
    IN  InsertAt(q, Cardinality(passed) + 1, p)

\* enqueue(): at the tail.
Enqueue(q, p) == Append(q, p)

\* getitem(): unlink p from wherever it stands in q.
GetItem(q, p) == RemoveAt(q, CHOOSE i \in DOMAIN q : q[i] = p)

-----------------------------------------------------------------------------
(* resched(), with the states, ready list and keys its caller leaves it,    *)
(* and the slice the current process is left with if it keeps running.      *)
ReschedSlice(st, rl, keys, slice) ==
    LET runs == st[currpid] = "CURR"
        keep == runs /\ (rl # <<>> => prprio[currpid] > keys[Head(rl)])
        queue == IF runs THEN Insert(rl, keys, currpid, prprio[currpid]) ELSE rl
    IN  \/ /\ keep
           /\ prstate' = st /\ readylist' = rl /\ qkey' = keys
           /\ preempt' = slice
           /\ UNCHANGED currpid
        \/ /\ ~keep
           /\ currpid' = Head(queue)
           /\ readylist' = Tail(queue)
           /\ prstate' = [st EXCEPT ![currpid] = IF runs THEN "READY" ELSE @,
                                    ![Head(queue)] = "CURR"]
           /\ qkey' = IF runs THEN [keys EXCEPT ![currpid] = prprio[currpid]]
                              ELSE keys
           /\ preempt' = QUANTUM

Resched(st, rl, keys) == ReschedSlice(st, rl, keys, preempt)

\* The current process gives up the processor in state s.
Block(s) == Resched([prstate EXCEPT ![currpid] = s], readylist, qkey)

\* ready(p, RESCHED_YES)
ReadyYes(p) ==
    Resched([prstate EXCEPT ![p] = "READY"],
            Insert(readylist, qkey, p, prprio[p]),
            [qkey EXCEPT ![p] = prprio[p]])

\* ready(p, RESCHED_NO), with the keys the caller leaves
ReadyNo(p, keys) ==
    /\ prstate' = [prstate EXCEPT ![p] = "READY"]
    /\ readylist' = Insert(readylist, qkey, p, prprio[p])
    /\ qkey' = [keys EXCEPT ![p] = prprio[p]]
    /\ UNCHANGED <<currpid, preempt>>

\* ctxsw() comes back with interrupts enabled, whatever the process that is
\* switched to had done about them; without a switch they stay disabled.
EnabledBySwitch == ie' = (currpid' # currpid)

-----------------------------------------------------------------------------
(* Kernel stacks and the guards of calls.                                   *)

Push(f) == kstack' = [kstack EXCEPT ![currpid] = <<f>> \o @]
Pop     == kstack' = [kstack EXCEPT ![currpid] = Tail(@)]
Replace(f) == kstack' = [kstack EXCEPT ![currpid] = <<f>> \o Tail(@)]
Top     == Head(kstack[currpid])

\* The current process goes on with the call it is inside.
At(name) == ~halted /\ kstack[currpid] # <<>> /\ Top.at = name

\* A user process runs and makes this system call.
User(call) ==
    /\ call \in Calls
    /\ ~halted /\ ie
    /\ currpid # NULLPROC
    /\ kstack[currpid] = <<>>

-----------------------------------------------------------------------------
(* The state sysinit() leaves: the null process alone, in nulluser(),       *)
(* with interrupts just enabled.                                            *)
Init ==
    /\ prstate = [p \in Pid |-> IF p = NULLPROC THEN "CURR" ELSE "FREE"]
    /\ prprio = [p \in Pid |-> 0]
    /\ prsem = [p \in Pid |-> 0]
    /\ prhasmsg = [p \in Pid |-> FALSE]
    /\ prparent = [p \in Pid |-> NULLPROC]
    /\ qkey = [p \in Pid |-> 0]
    /\ readylist = <<>>
    /\ sleepq = <<>>
    /\ squeue = [s \in Sem |-> <<>>]
    /\ sstate = [s \in Sem |-> "FREE"]
    /\ scount = [s \in Sem |-> 0]
    /\ nextsem = 0
    /\ nextpid = 1
    /\ prcount = 1
    /\ currpid = NULLPROC
    /\ preempt = QUANTUM + 1     \* clkinit()
    /\ kstack = [p \in Pid |-> IF p = NULLPROC THEN <<NewFrame("create", 0, 0)>>
                                               ELSE <<>>]
    /\ ie = TRUE
    /\ halted = FALSE

-----------------------------------------------------------------------------
(* Creating, ending and scheduling processes.                               *)

\* newpid(): the first free slot from i on, and nextpid after taking it.
FreeFrom(i) == {k \in 0 .. NPROC - 1 : prstate[(i + k) % NPROC] = "FREE"}
NewPid(i) ==
    (i + CHOOSE k \in FreeFrom(i) : \A m \in FreeFrom(i) : k <= m) % NPROC

\* create(), the table entry it fills
MakeProcess(pid, priority) ==
    /\ nextpid' = pid + 1
    /\ prcount' = prcount + 1
    /\ prstate' = [prstate EXCEPT ![pid] = "SUSP"]
    /\ prprio' = [prprio EXCEPT ![pid] = priority]
    /\ prparent' = [prparent EXCEPT ![pid] = currpid]
    /\ prhasmsg' = [prhasmsg EXCEPT ![pid] = FALSE]

\* nulluser() creates main() ...
NullCreate ==
    /\ At("create") /\ ie
    /\ FreeFrom(nextpid) # {}
    /\ MakeProcess(NewPid(nextpid), INITPRIO)
    /\ Replace(NewFrame("resume", NewPid(nextpid), 0))
    /\ UNCHANGED <<prsem, qkey, readylist, sleepq, currpid, preempt, semVars,
                   ie, halted>>

\* ... and resumes it.
NullResume ==
    /\ At("resume") /\ ie
    /\ prstate[Top.arg] = "SUSP"
    /\ ReadyYes(Top.arg)
    /\ Pop
    /\ UNCHANGED <<prsem, prhasmsg, sleepq, idVars, semVars, ie>>

Create(priority) ==
    /\ User("create")
    /\ FreeFrom(nextpid) # {}
    /\ MakeProcess(NewPid(nextpid), priority)
    /\ UNCHANGED <<prsem, qkey, readylist, sleepq, currpid, preempt, semVars,
                   kstack, ie, halted>>

\* Mutant of CreateNoStack: the process is counted before getstk() fails.
CreateNoStackCounted ==
    /\ User("create") /\ "getstk fails" \in Calls
    /\ FreeFrom(nextpid) # {}
    /\ nextpid' = NewPid(nextpid) + 1
    /\ prcount' = prcount + 1
    /\ UNCHANGED <<schedVars, prprio, prparent, halted, prsem,
                   prhasmsg, sleepq, semVars, kstack, ie>>

\* getstk() finds no room for the stack: newpid() has moved nextpid already.
CreateNoStack ==
    /\ User("create") /\ "getstk fails" \in Calls
    /\ FreeFrom(nextpid) # {}
    /\ nextpid' = NewPid(nextpid) + 1
    /\ UNCHANGED <<schedVars, prprio, prparent, prcount, halted, prsem,
                   prhasmsg, sleepq, semVars, kstack, ie>>

\* Mutant of Resume: a process blocked in receive() is resumed as well.
ResumeReceiver(pid) ==
    /\ User("resume")
    /\ prstate[pid] \in {"SUSP", "RECV"}
    /\ ReadyYes(pid)
    /\ UNCHANGED <<prsem, prhasmsg, sleepq, idVars, semVars, kstack, ie>>

Resume(pid) ==
    /\ User("resume")
    /\ prstate[pid] = "SUSP"
    /\ ReadyYes(pid)
    /\ UNCHANGED <<prsem, prhasmsg, sleepq, idVars, semVars, kstack, ie>>

\* suspend() of another process, which is ready; the null process is refused.
SuspendReady(pid) ==
    /\ User("suspend")
    /\ pid # NULLPROC /\ prstate[pid] = "READY"
    /\ readylist' = GetItem(readylist, pid)
    /\ prstate' = [prstate EXCEPT ![pid] = "SUSP"]
    /\ UNCHANGED <<qkey, currpid, preempt, prsem, prhasmsg, sleepq, idVars,
                   semVars, kstack, ie>>

SuspendSelf ==
    /\ User("suspend")
    /\ Block("SUSP")
    /\ UNCHANGED <<prsem, prhasmsg, sleepq, idVars, semVars, kstack, ie>>

\* chprio() changes the table entry only: no requeue, no reschedule.
Chprio(pid, newprio) ==
    /\ User("chprio")
    /\ prstate[pid] # "FREE"
    /\ prprio' = [prprio EXCEPT ![pid] = newprio]
    /\ UNCHANGED <<schedVars, prsem, prhasmsg, prparent, nextpid, prcount,
                   halted, sleepq, semVars, kstack, ie>>

Yield ==
    /\ User("yield")
    /\ Resched(prstate, readylist, qkey)
    /\ UNCHANGED <<prsem, prhasmsg, sleepq, idVars, semVars, kstack, ie>>

-----------------------------------------------------------------------------
(* Messages.                                                                *)

\* Mutant of SendTo: no unsleep() of a receiver with a timeout.
SendToNoUnsleep(pid) ==
    IF prstate[pid] = "FREE" \/ prhasmsg[pid]
    THEN UNCHANGED <<schedVars, prhasmsg, sleepq>>
    ELSE /\ prhasmsg' = [prhasmsg EXCEPT ![pid] = TRUE]
         /\ UNCHANGED sleepq
         /\ IF prstate[pid] \in {"RECV", "RECTIM"}
            THEN ReadyYes(pid)
            ELSE UNCHANGED schedVars

\* send(): refused, stored, or stored and the waiting receiver made ready.
SendTo(pid) ==
    IF prstate[pid] = "FREE" \/ prhasmsg[pid]
    THEN UNCHANGED <<schedVars, prhasmsg, sleepq>>
    ELSE /\ prhasmsg' = [prhasmsg EXCEPT ![pid] = TRUE]
         /\ sleepq' = IF prstate[pid] = "RECTIM" THEN GetItem(sleepq, pid)
                                                 ELSE sleepq
         /\ IF prstate[pid] \in {"RECV", "RECTIM"}
            THEN ReadyYes(pid)
            ELSE UNCHANGED schedVars

Send(pid) ==
    /\ User("send")
    /\ SendTo(pid)
    /\ UNCHANGED <<prsem, idVars, semVars, kstack, ie>>

\* receive() and recvtime() with a message waiting, recvclr()
TakeMessage ==
    /\ User("receive") \/ User("recvtime") \/ User("recvclr")
    /\ prhasmsg[currpid]
    /\ prhasmsg' = [prhasmsg EXCEPT ![currpid] = FALSE]
    /\ UNCHANGED <<schedVars, prsem, sleepq, idVars, semVars, kstack, ie>>

ReceiveBlock ==
    /\ User("receive")
    /\ ~prhasmsg[currpid]
    /\ Block("RECV")
    /\ Push(NewFrame("receive", 0, 0))
    /\ UNCHANGED <<prsem, prhasmsg, sleepq, idVars, semVars, ie>>

\* After the switch back: prmsg is taken without looking at prhasmsg.
ReceiveReturn ==
    /\ At("receive")
    /\ prhasmsg' = [prhasmsg EXCEPT ![currpid] = FALSE]
    /\ Pop
    /\ UNCHANGED <<schedVars, prsem, sleepq, idVars, semVars, ie>>

\* Mutant of SleepIn: the process is not put on the sleep queue.
SleepInUnqueued(state, delay) ==
    /\ UNCHANGED sleepq
    /\ Block(state)

\* insertd(currpid, sleepq, delay), then give up the processor
SleepIn(state, delay) ==
    /\ sleepq' = Insertd(sleepq, qkey, currpid, delay)
    /\ Resched([prstate EXCEPT ![currpid] = state], readylist,
               [qkey EXCEPT ![currpid] = delay])

RecvtimeBlock(maxwait) ==
    /\ User("recvtime")
    /\ ~prhasmsg[currpid]
    /\ SleepIn("RECTIM", maxwait)
    /\ Push(NewFrame("recvtime", 0, 0))
    /\ UNCHANGED <<prsem, prhasmsg, idVars, semVars, ie>>

\* A message (taken) or the timeout
RecvtimeReturn ==
    /\ At("recvtime")
    /\ prhasmsg' = [prhasmsg EXCEPT ![currpid] = FALSE]
    /\ Pop
    /\ UNCHANGED <<schedVars, prsem, sleepq, idVars, semVars, ie>>

Sleepms(delay) ==
    /\ User("sleepms")
    /\ SleepIn("SLEEP", delay)
    /\ UNCHANGED <<prsem, prhasmsg, idVars, semVars, kstack, ie>>

-----------------------------------------------------------------------------
(* kill(), of itself (also by returning: userret()) or of a child.          *)

\* The last user process completes: xdone() halts the machine.
KillLast(pid) ==
    /\ User(IF pid = currpid THEN "exit" ELSE "kill")
    /\ pid # NULLPROC /\ prstate[pid] # "FREE"
    /\ pid = currpid \/ prparent[pid] = currpid
    /\ prcount' = prcount - 1
    /\ prcount' <= 1
    /\ halted' = TRUE
    /\ ie' = FALSE
    /\ UNCHANGED <<schedVars, prprio, prparent, nextpid, semVars, prsem,
                   prhasmsg, sleepq, kstack>>

\* The parent is told first, which may switch to it.
Kill(pid) ==
    /\ User(IF pid = currpid THEN "exit" ELSE "kill")
    /\ pid # NULLPROC /\ prstate[pid] # "FREE"
    /\ pid = currpid \/ prparent[pid] = currpid
    /\ prcount' = prcount - 1
    /\ prcount' > 1
    /\ SendTo(prparent[pid])
    /\ Push(NewFrame("kill", pid, 0))
    /\ EnabledBySwitch
    /\ UNCHANGED <<prprio, prparent, nextpid, halted, prsem, semVars>>

\* The rest of a suicide
KillSelf ==
    /\ At("kill") /\ Top.arg = currpid
    /\ Block("FREE")
    /\ kstack' = [kstack EXCEPT ![currpid] = <<>>]
    /\ ie' = TRUE
    /\ UNCHANGED <<idVars, prsem, prhasmsg, sleepq, semVars>>

\* The rest of killing another process: off its queue, then FREE.
KillOther ==
    /\ At("kill") /\ Top.arg # currpid
    /\ LET pid == Top.arg
           state == prstate[pid]
           sem == prsem[pid]
       IN  /\ sleepq' = IF state \in {"SLEEP", "RECTIM"}
                        THEN GetItem(sleepq, pid) ELSE sleepq
           /\ readylist' = IF state = "READY" THEN GetItem(readylist, pid)
                                              ELSE readylist
           /\ scount' = IF state = "WAIT" THEN [scount EXCEPT ![sem] = @ + 1]
                                          ELSE scount
           /\ squeue' = IF state = "WAIT"
                        THEN [squeue EXCEPT ![sem] = GetItem(@, pid)]
                        ELSE squeue
           /\ prstate' = [prstate EXCEPT ![pid] = "FREE"]
           /\ kstack' = [kstack EXCEPT ![pid] = <<>>, ![currpid] = Tail(@)]
    /\ ie' = TRUE
    /\ UNCHANGED <<qkey, currpid, preempt, idVars, prsem, prhasmsg, sstate,
                   nextsem>>

-----------------------------------------------------------------------------
(* Semaphores.                                                              *)

\* newsem(): the first free entry from i on
FreeSemFrom(i) == {k \in 0 .. NSEM - 1 : sstate[(i + k) % NSEM] = "FREE"}
NewSem(i) ==
    (i + CHOOSE k \in FreeSemFrom(i) : \A m \in FreeSemFrom(i) : k <= m) % NSEM

Semcreate(count) ==
    /\ User("semcreate")
    /\ FreeSemFrom(nextsem) # {}
    /\ LET sem == NewSem(nextsem)
       IN  /\ nextsem' = (sem + 1) % NSEM
           /\ sstate' = [sstate EXCEPT ![sem] = "USED"]
           /\ scount' = [scount EXCEPT ![sem] = count]
    /\ UNCHANGED <<schedVars, idVars, prsem, prhasmsg, sleepq, squeue, kstack,
                   ie>>

\* wait() on a positive count
WaitTake(sem) ==
    /\ User("wait")
    /\ sstate[sem] = "USED" /\ scount[sem] > 0
    /\ scount' = [scount EXCEPT ![sem] = @ - 1]
    /\ UNCHANGED <<schedVars, idVars, prsem, prhasmsg, sleepq, squeue, sstate,
                   nextsem, kstack, ie>>

\* Mutant of WaitBlock: the caller goes to the head of the queue.
WaitBlockFirst(sem) ==
    /\ User("wait")
    /\ sstate[sem] = "USED" /\ scount[sem] <= 0
    /\ scount' = [scount EXCEPT ![sem] = @ - 1]
    /\ prsem' = [prsem EXCEPT ![currpid] = sem]
    /\ squeue' = [squeue EXCEPT ![sem] = <<currpid>> \o @]
    /\ Block("WAIT")
    /\ UNCHANGED <<idVars, prhasmsg, sleepq, sstate, nextsem, kstack, ie>>

WaitBlock(sem) ==
    /\ User("wait")
    /\ sstate[sem] = "USED" /\ scount[sem] <= 0
    /\ scount' = [scount EXCEPT ![sem] = @ - 1]
    /\ prsem' = [prsem EXCEPT ![currpid] = sem]
    /\ squeue' = [squeue EXCEPT ![sem] = Enqueue(@, currpid)]
    /\ Block("WAIT")
    /\ UNCHANGED <<idVars, prhasmsg, sleepq, sstate, nextsem, kstack, ie>>

\* Mutant of Releases: an off-by-one in the test of the count.
ReleasesLate(sem) == scount[sem] < -1 /\ squeue[sem] # <<>>

\* Whether raising the count of sem by one releases a waiting process
\* (ready() refuses the EMPTY of an empty queue).
Releases(sem) == scount[sem] < 0 /\ squeue[sem] # <<>>
DequeueWaiter(sem) == squeue' = [squeue EXCEPT ![sem] = Tail(@)]

Signal(sem) ==
    /\ User("signal")
    /\ sstate[sem] = "USED" /\ scount[sem] < MaxCount
    /\ scount' = [scount EXCEPT ![sem] = @ + 1]
    /\ IF Releases(sem)
       THEN DequeueWaiter(sem) /\ ReadyYes(Head(squeue[sem]))
       ELSE UNCHANGED <<squeue, schedVars>>
    /\ UNCHANGED <<idVars, prsem, prhasmsg, sleepq, sstate, nextsem, kstack, ie>>

\* signaln(), semdelete() and semreset() loop with interrupts disabled.
LoopCall(call, sem, count) ==
    /\ User(call)
    /\ sstate[sem] = "USED"
    /\ Push(NewFrame(call, sem, count))
    /\ ie' = FALSE
    /\ UNCHANGED <<schedVars, idVars, prsem, prhasmsg, sleepq, squeue, scount,
                   nextsem>>

\* Mutant of LoopEnd: return without resched().
LoopEndNoResched ==
    /\ Pop
    /\ ie' = TRUE
    /\ UNCHANGED <<schedVars, idVars, prsem, prhasmsg, sleepq, squeue, sstate,
                   nextsem>>

\* resched() at the end of the loop, and return
LoopEnd ==
    /\ Resched(prstate, readylist, qkey)
    /\ Pop
    /\ ie' = TRUE
    /\ UNCHANGED <<idVars, prsem, prhasmsg, sleepq, squeue, sstate, nextsem>>

Signaln(sem, count) ==
    /\ scount[sem] + count <= MaxCount
    /\ LoopCall("signaln", sem, count)
    /\ UNCHANGED sstate

SignalnStep ==
    /\ At("signaln") /\ Top.cnt > 0
    /\ LET sem == Top.arg
       IN  /\ scount' = [scount EXCEPT ![sem] = @ + 1]
           /\ IF Releases(sem)
              THEN DequeueWaiter(sem) /\ ReadyNo(Head(squeue[sem]), qkey)
              ELSE UNCHANGED <<squeue, schedVars>>
           /\ Replace(NewFrame("signaln", sem, Top.cnt - 1))
    /\ UNCHANGED <<idVars, prsem, prhasmsg, sleepq, sstate, nextsem, ie>>

SignalnEnd ==
    /\ At("signaln") /\ Top.cnt = 0
    /\ LoopEnd
    /\ UNCHANGED scount

Semdelete(sem) ==
    /\ LoopCall("semdelete", sem, 0)
    /\ sstate' = [sstate EXCEPT ![sem] = "FREE"]

SemdeleteStep ==
    /\ At("semdelete") /\ scount[Top.arg] < 0
    /\ LET sem == Top.arg
       IN  /\ scount' = [scount EXCEPT ![sem] = @ + 1]
           /\ IF Releases(sem)
              THEN DequeueWaiter(sem) /\ ReadyNo(Head(squeue[sem]), qkey)
              ELSE UNCHANGED <<squeue, schedVars>>
    /\ UNCHANGED <<idVars, prsem, prhasmsg, sleepq, sstate, nextsem, kstack, ie>>

\* The test that ends the loop raises the count as well.
SemdeleteEnd ==
    /\ At("semdelete") /\ scount[Top.arg] >= 0
    /\ scount' = [scount EXCEPT ![Top.arg] = @ + 1]
    /\ LoopEnd

Semreset(sem, count) ==
    /\ LoopCall("semreset", sem, count)
    /\ UNCHANGED sstate

SemresetStep ==
    /\ At("semreset") /\ squeue[Top.arg] # <<>>
    /\ DequeueWaiter(Top.arg)
    /\ ReadyNo(Head(squeue[Top.arg]), qkey)
    /\ UNCHANGED <<idVars, prsem, prhasmsg, sleepq, scount, sstate, nextsem,
                   kstack, ie>>

SemresetEnd ==
    /\ At("semreset") /\ squeue[Top.arg] = <<>>
    /\ scount' = [scount EXCEPT ![Top.arg] = Top.cnt]
    /\ LoopEnd

-----------------------------------------------------------------------------
(* The clock interrupt.                                                     *)

\* clkhandler() up to the call of wakeup(), if the first sleeper is due
Tick ==
    /\ ~halted /\ ie
    /\ Len(kstack[currpid]) < MaxNest
    /\ qkey' = [p \in Pid |-> IF p \in ToSet(sleepq) THEN qkey[p] - 1 ELSE qkey[p]]
    /\ Push(NewFrame(IF sleepq # <<>> /\ qkey'[Head(sleepq)] <= 0
                     THEN "wakeup" ELSE "preempt", 0, 0))
    /\ ie' = FALSE
    /\ UNCHANGED <<prstate, readylist, currpid, preempt, idVars, semVars, prsem,
                   prhasmsg, sleepq>>

\* wakeup() takes the first sleeper off the list as it is: its key, when
\* negative, is not charged to those behind it.
WakeupStep ==
    /\ At("wakeup") /\ sleepq # <<>> /\ qkey[Head(sleepq)] <= 0
    /\ LET first == Head(sleepq)
           later == ToSet(Tail(sleepq))
       IN  /\ sleepq' = Tail(sleepq)
           /\ ReadyNo(first, [p \in Pid |-> IF p \in later THEN qkey[p] - qkey[first]
                                                           ELSE qkey[p]])
    /\ UNCHANGED <<idVars, semVars, prsem, prhasmsg, kstack, ie>>

\* resched() at the end of wakeup(); clkhandler() has its slice check left.
WakeupEnd ==
    /\ At("wakeup") /\ ~(sleepq # <<>> /\ qkey[Head(sleepq)] <= 0)
    /\ Resched(prstate, readylist, qkey)
    /\ Replace(NewFrame("preempt", 0, 0))
    /\ EnabledBySwitch
    /\ UNCHANGED <<idVars, semVars, prsem, prhasmsg, sleepq>>

\* Mutant of PreemptCheck: preempt is not set to QUANTUM again.
PreemptCheckNoReset ==
    /\ At("preempt")
    /\ IF preempt - 1 <= 0
       THEN ReschedSlice(prstate, readylist, qkey, preempt - 1)
       ELSE /\ preempt' = preempt - 1
            /\ UNCHANGED <<prstate, qkey, readylist, currpid>>
    /\ Pop
    /\ ie' = TRUE
    /\ UNCHANGED <<idVars, semVars, prsem, prhasmsg, sleepq>>

\* The slice check of clkhandler(), and the return from the interrupt
PreemptCheck ==
    /\ At("preempt")
    /\ IF preempt - 1 <= 0
       THEN ReschedSlice(prstate, readylist, qkey, QUANTUM)
       ELSE /\ preempt' = preempt - 1
            /\ UNCHANGED <<prstate, qkey, readylist, currpid>>
    /\ Pop
    /\ ie' = TRUE
    /\ UNCHANGED <<idVars, semVars, prsem, prhasmsg, sleepq>>

-----------------------------------------------------------------------------
Halted == halted /\ UNCHANGED vars

\* The processor goes on with a call or interrupt it is inside.
KernelStep ==
    \/ NullCreate \/ NullResume
    \/ ReceiveReturn \/ RecvtimeReturn
    \/ KillSelf \/ KillOther
    \/ SignalnStep \/ SignalnEnd
    \/ SemdeleteStep \/ SemdeleteEnd
    \/ SemresetStep \/ SemresetEnd
    \/ WakeupStep \/ WakeupEnd \/ PreemptCheck

\* The current user process makes a system call.
SystemCall ==
    \/ \E n \in Prios : Create(n)
    \/ CreateNoStack
    \/ \E p \in Pid :
         Resume(p) \/ SuspendReady(p) \/ Send(p) \/ Kill(p) \/ KillLast(p)
    \/ \E p \in Pid, n \in ChPrios : Chprio(p, n)
    \/ SuspendSelf \/ Yield \/ TakeMessage \/ ReceiveBlock
    \/ \E d \in MaxWaits : RecvtimeBlock(d)
    \/ \E d \in Delays : Sleepms(d)
    \/ \E n \in Counts : Semcreate(n)
    \/ \E s \in Sem : WaitTake(s) \/ WaitBlock(s) \/ Signal(s) \/ Semdelete(s)
    \/ \E s \in Sem, n \in Counts : Signaln(s, n) \/ Semreset(s, n)

Next == KernelStep \/ SystemCall \/ Tick \/ Halted

Spec == Init /\ [][Next]_vars

\* A clock interrupt stays pending until it is taken, so it is taken when it
\* can be time and again; the processor goes on executing kernel code.  A user
\* process may compute for ever without a call.
FairSpec == Spec /\ SF_vars(Tick) /\ WF_vars(KernelStep)

-----------------------------------------------------------------------------
(* Properties.                                                              *)

\* Every variable has the type its C declaration and its use give it.
TypeOK ==
    /\ prstate \in [Pid -> States]
    /\ prprio \in [Pid -> Int]
    /\ prsem \in [Pid -> Sem]
    /\ prhasmsg \in [Pid -> BOOLEAN]
    /\ prparent \in [Pid -> Pid]
    /\ qkey \in [Pid -> Int]
    /\ readylist \in Seq(Pid)
    /\ sleepq \in Seq(Pid)
    /\ squeue \in [Sem -> Seq(Pid)]
    /\ sstate \in [Sem -> {"FREE", "USED"}]
    /\ scount \in [Sem -> Int]
    /\ nextsem \in Sem
    /\ nextpid \in 1 .. NPROC
    /\ prcount \in Int
    /\ currpid \in Pid
    /\ preempt \in 1 .. QUANTUM + 1
    /\ kstack \in [Pid -> Seq(Frame)]
    /\ ie \in BOOLEAN
    /\ halted \in BOOLEAN

\* No queue holds a process twice.
Unique(q) == \A i, j \in DOMAIN q : q[i] = q[j] => i = j
On(q, p) == \E i \in DOMAIN q : q[i] = p

\* A process is on exactly the queue its prstate (and prsem) names, once, and
\* PR_CURR is the state of currpid alone: every ready(), insertd(), enqueue(),
\* getitem() and unsleep() goes together with the prstate its caller writes,
\* also when a kill() is switched away in its middle.
StateQueueAgreement ==
    /\ Unique(readylist) /\ Unique(sleepq)
    /\ \A s \in Sem : Unique(squeue[s])
    /\ \A p \in Pid :
         /\ prstate[p] = "CURR" <=> p = currpid
         /\ On(readylist, p) <=> prstate[p] = "READY"
         /\ On(sleepq, p) <=> prstate[p] \in {"SLEEP", "RECTIM"}
         /\ \A s \in Sem : On(squeue[s], p) <=> prstate[p] = "WAIT" /\ prsem[p] = s

\* dequeue(readylist) in resched() never returns EMPTY: the null process is
\* always current or ready (initialize.c:56-60).
NullEligible == prstate[NULLPROC] \in {"CURR", "READY"}

\* Whenever an interrupt can be taken, a negative count is minus the number
\* of waiting processes and a free entry has none: wait(), signal(), the
\* three loops and kill() of a waiting process keep the two in step.
SemCountQueue ==
    ie => \A s \in Sem :
            Len(squeue[s]) = IF sstate[s] = "FREE" \/ scount[s] >= 0 THEN 0
                             ELSE -scount[s]

\* A process blocked for a message has none, and one that is to come back from
\* receive()'s resched() has one: send() never leaves its receiver blocked, nobody
\* blocks with a message waiting, and nothing but send() ends PR_RECV, suspend() and
\* resume() included (receive.c:19-26, send.c:27-34).
MessagesHeld ==
    \A p \in Pid :
        /\ prstate[p] \in {"RECV", "RECTIM"} => ~prhasmsg[p]
        /\ On(kstack[p], NewFrame("receive", 0, 0)) => prstate[p] = "RECV" \/ prhasmsg[p]

\* insert() keeps the ready list in descending order of keys and insertd()
\* the sleepers in order of waking, whatever was unlinked in between.
QueuesSorted ==
    /\ \A i, j \in DOMAIN readylist :
         i < j => qkey[readylist[i]] >= qkey[readylist[j]]
    /\ \A i, j \in DOMAIN sleepq : i < j => qkey[sleepq[i]] <= qkey[sleepq[j]]

\* The queues are in order and, whenever an interrupt can be taken, no ready process
\* has a higher priority than the current one (resched.c:6): every call that makes a
\* process ready or takes the processor away has rescheduled by then.
HighestPriorityRuns ==
    /\ QueuesSorted
    /\ ie => \A p \in Pid : prstate[p] = "READY" => prprio[p] <= prprio[currpid]

\* prcount is the number of live processes (initialize.c:27), counting out
\* those whose kill() is under way.
Dying(p) ==
    \E q \in Pid : \E i \in DOMAIN kstack[q] :
        kstack[q][i].at = "kill" /\ kstack[q][i].arg = p
PrcountLive ==
    ~halted => prcount = Cardinality({p \in Pid : prstate[p] # "FREE" /\ ~Dying(p)})

\* xdone() runs "as last thread exits" (xdone.c:6): when the machine halts, no
\* user process is alive beside the one that is exiting.
HaltOnlyWhenDone ==
    halted => Cardinality({p \in Pid \ {NULLPROC} : prstate[p] # "FREE"}) <= 1

\* Among processes of one priority nobody is passed over for ever: a ready
\* process gets the processor, by the time slice if by nothing else.
EqualsTakeTurns ==
    \A p \in Pid \ {NULLPROC} : prstate[p] = "READY" ~> currpid = p \/ halted

\* Every sleeper is woken (sleep.c:28, recvtime.c:10): its delay runs out
\* whatever the others do.
Sleeping(p) == prstate[p] \in {"SLEEP", "RECTIM"}
SleepersWake == \A p \in Pid : Sleeping(p) ~> ~Sleeping(p) \/ halted

=============================================================================
