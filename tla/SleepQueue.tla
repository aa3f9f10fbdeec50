------------------------------ MODULE SleepQueue ------------------------------
(***************************************************************************)
(* The delta list behind sleepq (insertd.c, unsleep.c, wakeup.c, and the   *)
(* part of clkhandler.c that counts it down): the key of a sleeper is the  *)
(* number of ticks between the waking of its predecessor and its own, in   *)
(* the signed machine arithmetic of queuetab[p].qkey.                      *)
(*                                                                         *)
(* Every operation runs with interrupts disabled, so each is one action;   *)
(* wakeup() is one action for each process it takes off.                   *)
(***************************************************************************)
EXTENDS Integers, FiniteSets, SequencesExt

CONSTANTS
    NPROC,          \* slots of proctab; the null process 0 never sleeps
    SqWidth,        \* bits of an int32
    SleepDelays,    \* delays sleepms() is called with, as uint32
    RecvWaits       \* waits recvtime() is called with, as int32

SqWord == 2 ^ SqWidth
ASSUME WidthAssumption == SqWidth \in Nat \ {0, 1} /\ NPROC \in Nat \ {0}
ASSUME DelayAssumption ==
    SleepDelays \subseteq 1 .. SqWord - 1 /\ RecvWaits \subseteq 0 .. (SqWord \div 2) - 1

VARIABLES
    sleepq,     \* the processes on the list, first to wake first
    qkey,       \* queuetab[p].qkey of the processes on the list
    waking,     \* clkhandler() is inside wakeup()
    due         \* history: ticks until each sleeper is to wake, as it asked

sqVars == <<sleepq, qkey, waking, due>>

Sleepers == 1 .. NPROC - 1

\* The int32 a result comes out as
Int32(x) == ((x + SqWord \div 2) % SqWord) - SqWord \div 2

SqInit == sleepq = <<>> /\ qkey = <<>> /\ waking = FALSE /\ due = <<>>

\* What is left of delay after the first i processes of sleepq are passed.
RestOf(delay) ==
    LET rest[i \in 0 .. Len(sleepq)] ==
            IF i = 0 THEN delay ELSE Int32(rest[i - 1] - qkey[sleepq[i]])
    IN  rest

\* insertd(): pass processes while their key is <= what is left of delay, put
\* p there, and take its key off that of the next one.
Insertd(p, delay) ==
    LET rest == RestOf(delay)
        passed == Cardinality({j \in DOMAIN sleepq :
                                 \A k \in 1 .. j : qkey[sleepq[k]] <= rest[k - 1]})
        key == rest[passed]
        charged == IF passed < Len(sleepq) THEN {sleepq[passed + 1]} ELSE {}
    IN  /\ sleepq' = InsertAt(sleepq, passed + 1, p)
        /\ qkey' = [q \in ToSet(sleepq') |->
                      IF q = p THEN key
                      ELSE IF q \in charged THEN Int32(qkey[q] - key) ELSE qkey[q]]

\* sleepms(delay) or recvtime(delay): the uint32 is passed as an int32.
Sleep(p, delay) ==
    /\ ~waking /\ p \notin ToSet(sleepq)
    /\ Insertd(p, Int32(delay))
    /\ due' = [q \in ToSet(sleepq') |-> IF q = p THEN delay ELSE due[q]]
    /\ UNCHANGED waking

\* Mutant of Unsleep: the next process keeps its key.
UnsleepUncharged(p) ==
    /\ ~waking
    /\ \E i \in DOMAIN sleepq :
         /\ sleepq[i] = p
         /\ sleepq' = RemoveAt(sleepq, i)
         /\ qkey' = [q \in ToSet(sleepq') |-> qkey[q]]
    /\ due' = [q \in ToSet(sleepq') |-> due[q]]
    /\ UNCHANGED waking

\* unsleep(): the next process waits the ticks of p as well.
Unsleep(p) ==
    /\ ~waking
    /\ \E i \in DOMAIN sleepq :
         /\ sleepq[i] = p
         /\ sleepq' = RemoveAt(sleepq, i)
         /\ qkey' = [q \in ToSet(sleepq') |->
                       IF i < Len(sleepq) /\ q = sleepq[i + 1]
                       THEN Int32(qkey[q] + qkey[p]) ELSE qkey[q]]
    /\ due' = [q \in ToSet(sleepq') |-> due[q]]
    /\ UNCHANGED waking

\* Mutant of Tick: due sleepers are looked for before the key is lowered.
TickLate ==
    /\ ~waking
    /\ qkey' = [q \in ToSet(sleepq) |-> IF q = Head(sleepq) THEN Int32(qkey[q] - 1) ELSE qkey[q]]
    /\ waking' = (sleepq # <<>> /\ qkey[Head(sleepq)] <= 0)
    /\ due' = [q \in ToSet(sleepq) |-> due[q] - 1]
    /\ UNCHANGED sleepq

\* clkhandler(): --firstkey(sleepq), and wakeup() if it is not positive.
Tick ==
    /\ ~waking
    /\ qkey' = [q \in ToSet(sleepq) |-> IF q = Head(sleepq) THEN Int32(qkey[q] - 1) ELSE qkey[q]]
    /\ waking' = (sleepq # <<>> /\ qkey'[Head(sleepq)] <= 0)
    /\ due' = [q \in ToSet(sleepq) |-> due[q] - 1]
    /\ UNCHANGED sleepq

WakeupStep ==
    /\ waking /\ sleepq # <<>> /\ qkey[Head(sleepq)] <= 0
    /\ sleepq' = Tail(sleepq)
    /\ qkey' = [q \in ToSet(sleepq') |-> qkey[q]]
    /\ due' = [q \in ToSet(sleepq') |-> due[q]]
    /\ UNCHANGED waking

WakeupEnd ==
    /\ waking /\ ~(sleepq # <<>> /\ qkey[Head(sleepq)] <= 0)
    /\ waking' = FALSE
    /\ UNCHANGED <<sleepq, qkey, due>>

SqNext ==
    \/ Tick \/ WakeupStep \/ WakeupEnd
    \/ \E p \in Sleepers : Unsleep(p)
    \/ \E p \in Sleepers, delay \in SleepDelays \cup RecvWaits : Sleep(p, delay)

SqSpec == SqInit /\ [][SqNext]_sqVars

-----------------------------------------------------------------------------
\* The ticks a sleeper has left: the sum of the keys up to its own.
Left ==
    LET sum[i \in 0 .. Len(sleepq)] ==
            IF i = 0 THEN 0 ELSE sum[i - 1] + qkey[sleepq[i]]
    IN  [p \in ToSet(sleepq) |-> sum[CHOOSE i \in DOMAIN sleepq : sleepq[i] = p]]

List == INSTANCE SleepList WITH
    Process <- Sleepers, queue <- sleepq, left <- Left, waking <- waking

\* The delta list is the sleep queue the kernel relies on: no insertion or
\* removal moves the waking of another process.
SleepListPromise == List!Spec

\* A process is woken on the tick it asked for and not on another: "delay the
\* calling process n milliseconds" (sleep.c:24), whoever else comes and goes.
WakesOnTime ==
    [][\A p \in Sleepers : WakeupStep /\ p \in ToSet(sleepq) /\ p \notin ToSet(sleepq')
                        => due[p] = 0]_sqVars
=============================================================================
