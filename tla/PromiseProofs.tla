----------------------------- MODULE PromiseProofs -----------------------------
(***************************************************************************)
(* Proofs of what the kernel promises its callers, for every number of     *)
(* processes and semaphores, all counts and any set of calls: semaphores   *)
(* are those of Semaphore; the queues are in order, the process with the   *)
(* highest priority has the processor, and the sleep queue is used as      *)
(* SleepList allows.                                                       *)
(***************************************************************************)
EXTENDS KernelPromises, XinuKernelProofs

-----------------------------------------------------------------------------
(* The invariant.  Between calls counts and queues agree.  They do not      *)
(* while a loop releases processes, but then nobody else acts: the loop's   *)
(* frame is on top of the current process' stack, alone of its kind, and    *)
(* interrupts stay disabled until it ends.                                  *)

Loops == {"signaln", "semdelete", "semreset"}

Loopless(stack) == Without(stack, Loops)

\* No process is inside a loop.
SemSettled == \A p \in Pid : Loopless(kstack[p])

LoopAlone ==
    \A p \in Pid : ~Loopless(kstack[p]) =>
        p = currpid /\ Loopless(Tail(kstack[p])) /\ ~ie /\ ~halted

\* The semaphore a loop works on is as the call has left it.
LoopSem ==
    /\ At("signaln") \/ At("semreset") => sstate[Top.arg] = "USED"
    /\ At("semdelete") => sstate[Top.arg] = "FREE"

Deleting(s) == At("semdelete") /\ Top.arg = s

Waiters(s) == IF scount[s] >= 0 THEN 0 ELSE -scount[s]

CountsOK ==
    \A s \in Sem :
        \/ Resetting(s)
        \/ Len(squeue[s]) = IF sstate[s] = "USED" \/ Deleting(s) THEN Waiters(s) ELSE 0

SemInv == LoopAlone /\ LoopSem /\ CountsOK

\* What is to be shown of a step: it keeps the invariant, and it is a step of the promise.
Promised == SemInv' /\ [Semaphores!Next]_(Semaphores!vars)

-----------------------------------------------------------------------------
(* Queues and stacks.                                                       *)

\* How long the queue operations leave a queue.
LEMMA QueueLengths ==
    ASSUME NEW q \in Seq(Pid)
    PROVE  /\ Len(q) \in Nat /\ (Len(q) = 0 <=> q = <<>>)
           /\ \A p \in Pid : Len(Enqueue(q, p)) = Len(q) + 1
           /\ q # <<>> => Len(Tail(q)) = Len(q) - 1
           /\ \A p \in Pid : On(q, p) =>
                /\ \E i \in DOMAIN q : GetItem(q, p) = RemoveAt(q, i)
                /\ Len(GetItem(q, p)) = Len(q) - 1
<1>1. Len(q) \in Nat /\ (Len(q) = 0 <=> q = <<>>)
  BY LenProperties, EmptySeq
<1>2. ASSUME NEW p \in Pid PROVE Len(Enqueue(q, p)) = Len(q) + 1
  BY AppendProperties DEF Enqueue
<1>3. ASSUME q # <<>> PROVE Len(Tail(q)) = Len(q) - 1
  BY <1>3, HeadTailProperties
<1>4. ASSUME NEW p \in Pid, On(q, p)
      PROVE  /\ \E i \in DOMAIN q : GetItem(q, p) = RemoveAt(q, i)
             /\ Len(GetItem(q, p)) = Len(q) - 1
  BY <1>4, GetItemEntries, LenProperties
<1> QED
  BY <1>1, <1>2, <1>3, <1>4

\* A stack is its top frame and the rest.
LEMMA LooplessStacks ==
    ASSUME NEW s \in Seq(Frame)
    PROVE  /\ Loopless(<<>>)
           /\ s # <<>> =>
                /\ Head(s) \in Frame /\ Tail(s) \in Seq(Frame)
                /\ Loopless(s) <=> Head(s).at \notin Loops /\ Loopless(Tail(s))
           /\ \A f \in Frame :
                /\ <<f>> \o s \in Seq(Frame) /\ <<f>> \o s # <<>>
                /\ Head(<<f>> \o s) = f /\ Tail(<<f>> \o s) = s
  BY StackTops DEF Loopless

-----------------------------------------------------------------------------
(* Inside and outside of loops.                                             *)

\* The semaphores as they are when no call of semreset() is in its loop.
TokensNow ==
    [s \in Sem |-> IF sstate[s] = "USED" /\ scount[s] > 0 THEN scount[s] ELSE 0]
WaitingNow == [s \in Sem |-> IF sstate[s] = "USED" THEN squeue[s] ELSE <<>>]

Counted(s) == Len(squeue[s]) = IF sstate[s] = "USED" THEN Waiters(s) ELSE 0

\* Nothing is abstracted then but negative counts and free entries.
LEMMA PlainView ==
    ASSUME ~At("semreset")
    PROVE  semTokens = TokensNow /\ semWaiting = WaitingNow
  BY DEF semTokens, semWaiting, semLive, Resetting, TokensNow, WaitingNow

\* The same after a step
LEMMA PlainViewAfter ==
    ASSUME ~At("semreset")'
    PROVE  semTokens' = TokensNow' /\ semWaiting' = WaitingNow'
  BY DEF semTokens, semWaiting, semLive, Resetting, TokensNow, WaitingNow

\* Where no stack has a loop's frame the current process is in none.
LEMMA NoLoop ==
    ASSUME IInv, SemSettled
    PROVE  ~At("signaln") /\ ~At("semdelete") /\ ~At("semreset")
<1>1. kstack[currpid] \in Seq(Frame) /\ Loopless(kstack[currpid])
  BY DEF IInv, SchedOK, RestOK, SemSettled
<1>2. kstack[currpid] # <<>> => Top.at \notin Loops
  BY <1>1, LooplessStacks DEF Top
<1> QED
  BY <1>2 DEF At, Loops

\* The same after a step
LEMMA NoLoopAfter ==
    ASSUME IInv', SemSettled'
    PROVE  ~At("signaln")' /\ ~At("semdelete")' /\ ~At("semreset")'
<1>1. kstack'[currpid'] \in Seq(Frame) /\ Loopless(kstack'[currpid'])
  BY DEF IInv, SchedOK, RestOK, SemSettled
<1>2. kstack'[currpid'] # <<>> => Head(kstack'[currpid']).at \notin Loops
  BY <1>1, LooplessStacks
<1> QED
  BY <1>2 DEF At, Top, Loops

\* A user process, a tick and the rest of other calls find no loop, and the counts right.
LEMMA BetweenLoops ==
    ASSUME IInv, SemInv, ie \/ (kstack[currpid] # <<>> /\ Top.at \notin Loops)
    PROVE  SemSettled /\ \A s \in Sem : Counted(s)
<1>1. kstack[currpid] \in Seq(Frame)
  BY DEF IInv, SchedOK, RestOK
<1>2. SemSettled
  <2> SUFFICES ASSUME NEW p \in Pid, ~Loopless(kstack[p]) PROVE FALSE
    BY DEF SemSettled
  <2>1. p = currpid /\ Loopless(Tail(kstack[currpid])) /\ ~ie
    BY DEF SemInv, LoopAlone
  <2>2. Loopless(kstack[currpid])
    BY <1>1, <2>1, LooplessStacks DEF Top
  <2> QED
    BY <2>1, <2>2 DEF SemInv
<1>3. \A s \in Sem : Counted(s)
  BY <1>2, NoLoop DEF SemInv, CountsOK, Counted, Resetting, Deleting
<1> QED
  BY <1>2, <1>3

\* A step that leaves no loop has to leave the counts right.
LEMMA SettledInv ==
    ASSUME IInv', SemSettled', \A s \in Sem : Counted(s)'
    PROVE  SemInv'
<1>1. LoopAlone'
  BY DEF LoopAlone, SemSettled
<1>2. LoopSem'
  BY NoLoopAfter DEF LoopSem
<1>3. CountsOK'
  BY NoLoopAfter DEF CountsOK, Counted, Deleting
<1> QED
  BY <1>1, <1>2, <1>3 DEF SemInv

\* Nothing is promised of a step that leaves the semaphores alone.
LEMMA Unmoved ==
    ASSUME IInv, SemInv, IInv', SemSettled, SemSettled', \A s \in Sem : Counted(s),
           UNCHANGED <<squeue, sstate, scount>>
    PROVE  Promised
<1>1. SemInv'
  <2>1. \A s \in Sem : Counted(s)'
    BY DEF Counted, Waiters
  <2> QED
    BY <2>1, SettledInv
<1>2. UNCHANGED <<semLive, semTokens, semWaiting>>
  <2>1. TokensNow' = TokensNow /\ WaitingNow' = WaitingNow
    BY DEF TokensNow, WaitingNow
  <2>2. semLive' = semLive
    BY DEF semLive
  <2> QED
    BY <2>1, <2>2, NoLoop, NoLoopAfter, PlainView, PlainViewAfter
<1> QED
  BY <1>1, <1>2 DEF Promised, Semaphores!vars

\* Frames of other calls come and go.
LEMMA SettledStacks ==
    ASSUME IInv, SemSettled
    PROVE  /\ UNCHANGED kstack => SemSettled'
           /\ \A f \in Frame : f.at \notin Loops /\ Push(f) => SemSettled'
           /\ kstack[currpid] # <<>> /\ Pop => SemSettled'
           /\ \A f \in Frame :
                f.at \notin Loops /\ kstack[currpid] # <<>> /\ Replace(f) => SemSettled'
<1>1. SemSettled = Nowhere(Loops)
  BY DEF SemSettled, Loopless, Nowhere
<1>2. SemSettled' = Nowhere(Loops)'
  BY DEF SemSettled, Loopless, Nowhere
<1> QED
  BY <1>1, <1>2, StacksWithout DEF IInv

-----------------------------------------------------------------------------
(* The calls that have nothing to do with semaphores.                       *)

\* A step of such a call is no step of the promise.
LEMMA OtherCall ==
    ASSUME IInv, SemInv, IInv', ie \/ (kstack[currpid] # <<>> /\ Top.at \notin Loops),
           UNCHANGED semVars,
           \/ UNCHANGED kstack
           \/ \E f \in Frame : /\ f.at \notin Loops
                               /\ Push(f) \/ (kstack[currpid] # <<>> /\ Replace(f))
           \/ kstack[currpid] # <<>> /\ Pop
    PROVE  Promised
<1>1. SemSettled /\ \A s \in Sem : Counted(s)
  BY BetweenLoops
<1>2. SemSettled'
  BY <1>1, SettledStacks
<1> QED
  BY <1>1, <1>2, Unmoved DEF semVars

\* Frames of calls without a loop.
LEMMA PlainFrames ==
    /\ \A at \in {"create", "receive", "recvtime", "wakeup", "preempt"} :
         NewFrame(at, 0, 0) \in Frame /\ NewFrame(at, 0, 0).at \notin Loops
    /\ \A p \in Pid : NewFrame("resume", p, 0) \in Frame
                      /\ NewFrame("resume", p, 0).at \notin Loops
    /\ \A p \in Pid \ {NULLPROC} : NewFrame("kill", p, 0) \in Frame
                                   /\ NewFrame("kill", p, 0).at \notin Loops
  BY Frames DEF NewFrame, Loops

\* Calls that end in their step, and those that go on later
LEMMA UserCalls ==
    ASSUME IInv, SemInv, IInv',
           \/ \E n \in Prios : Create(n)
           \/ CreateNoStack
           \/ \E p \in Pid : Resume(p) \/ SuspendReady(p) \/ Send(p) \/ Kill(p) \/ KillLast(p)
           \/ \E p \in Pid, n \in ChPrios : Chprio(p, n)
           \/ SuspendSelf \/ Yield \/ TakeMessage \/ ReceiveBlock
           \/ \E d \in MaxWaits : RecvtimeBlock(d)
           \/ \E d \in Delays : Sleepms(d)
    PROVE  Promised
<1>1. ASSUME (\E n \in Prios : Create(n)) \/ CreateNoStack
      PROVE  ie /\ UNCHANGED kstack /\ UNCHANGED semVars
  BY <1>1 DEF Create, CreateNoStack, User
<1>2. ASSUME NEW p \in Pid, Resume(p) \/ SuspendReady(p) \/ Send(p) \/ KillLast(p)
      PROVE  ie /\ UNCHANGED kstack /\ UNCHANGED semVars
  BY <1>2 DEF Resume, SuspendReady, Send, KillLast, User
<1>3. ASSUME NEW p \in Pid, NEW n \in ChPrios, Chprio(p, n)
      PROVE  ie /\ UNCHANGED kstack /\ UNCHANGED semVars
  BY <1>3 DEF Chprio, User
<1>4. ASSUME SuspendSelf \/ Yield \/ TakeMessage \/ \E d \in Delays : Sleepms(d)
      PROVE  ie /\ UNCHANGED kstack /\ UNCHANGED semVars
  BY <1>4 DEF SuspendSelf, Yield, TakeMessage, Sleepms, User
<1>5. ASSUME ReceiveBlock \/ \E d \in MaxWaits : RecvtimeBlock(d)
      PROVE  /\ ie /\ UNCHANGED semVars
             /\ \E f \in Frame : f.at \notin Loops /\ Push(f)
  BY <1>5, PlainFrames DEF ReceiveBlock, RecvtimeBlock, User
<1>6. ASSUME NEW p \in Pid, Kill(p)
      PROVE  /\ ie /\ UNCHANGED semVars
             /\ \E f \in Frame : f.at \notin Loops /\ Push(f)
  BY <1>6, PlainFrames DEF Kill, User
<1> QED
  BY <1>1, <1>2, <1>3, <1>4, <1>5, <1>6, OtherCall

\* nulluser(), the rest of calls that wait for messages, and the clock
LEMMA OtherSteps ==
    ASSUME IInv, SemInv, IInv',
           \/ NullCreate \/ NullResume \/ ReceiveReturn \/ RecvtimeReturn
           \/ Tick \/ WakeupStep \/ WakeupEnd \/ PreemptCheck
    PROVE  Promised
<1>1. ASSUME NEW name \in {"create", "resume", "receive", "recvtime", "wakeup", "preempt"},
             At(name)
      PROVE  kstack[currpid] # <<>> /\ Top.at \notin Loops
  BY <1>1 DEF At, Loops
<1>2. CASE NullCreate
  <2>1. NewPid(nextpid) \in Pid
    BY <1>2, NewPidFree DEF NullCreate, IInv, RestOK
  <2>2. \E f \in Frame : f.at \notin Loops /\ Replace(f)
    BY <1>2, <2>1, PlainFrames DEF NullCreate
  <2> QED
    BY <1>1, <1>2, <2>2, OtherCall DEF NullCreate
<1>3. CASE NullResume \/ ReceiveReturn \/ RecvtimeReturn \/ PreemptCheck
  <2>1. Pop /\ UNCHANGED semVars
    BY <1>3 DEF NullResume, ReceiveReturn, RecvtimeReturn, PreemptCheck
  <2>2. kstack[currpid] # <<>> /\ Top.at \notin Loops
    BY <1>1, <1>3 DEF NullResume, ReceiveReturn, RecvtimeReturn, PreemptCheck
  <2> QED
    BY <2>1, <2>2, OtherCall
<1>4. CASE Tick
  <2>1. \E at \in {"wakeup", "preempt"} : Push(NewFrame(at, 0, 0))
    BY <1>4 DEF Tick
  <2>2. \E f \in Frame : f.at \notin Loops /\ Push(f)
    BY <2>1, PlainFrames
  <2>3. ie /\ UNCHANGED semVars
    BY <1>4 DEF Tick
  <2> QED
    BY <2>2, <2>3, OtherCall
<1>5. CASE WakeupStep
  BY <1>1, <1>5, OtherCall DEF WakeupStep
<1>6. CASE WakeupEnd
  <2>1. \E f \in Frame : f.at \notin Loops /\ Replace(f)
    BY <1>6, PlainFrames DEF WakeupEnd
  <2> QED
    BY <1>1, <1>6, <2>1, OtherCall DEF WakeupEnd
<1> QED
  BY <1>2, <1>3, <1>4, <1>5, <1>6

\* A suicide was in the call of kill() only.
LEMMA SuicideStep ==
    ASSUME IInv, SemInv, IInv', KillSelf
    PROVE  Promised
<1>1. SemSettled /\ \A s \in Sem : Counted(s)
  BY BetweenLoops DEF KillSelf, At, Loops
<1>2. SemSettled'
  BY <1>1 DEF KillSelf, SemSettled, IInv, SchedOK, RestOK, Loopless, Without
<1> QED
  BY <1>1, <1>2, Unmoved DEF KillSelf, semVars

-----------------------------------------------------------------------------
(* The calls that act at once.                                              *)

\* Such a call changes one semaphore, starts no loop and is a step of the promise.
LEMMA OneSemaphore ==
    ASSUME IInv, SemInv, IInv', SemSettled, SemSettled', NEW s \in Sem, Counted(s)',
           \A t \in Sem \ {s} : /\ sstate'[t] = sstate[t]
                                /\ scount'[t] = scount[t]
                                /\ squeue'[t] = squeue[t]
    PROVE  /\ SemInv'
           /\ semTokens = TokensNow /\ semWaiting = WaitingNow
           /\ semTokens' = TokensNow' /\ semWaiting' = WaitingNow'
<1>1. \A t \in Sem : Counted(t)
  BY NoLoop DEF SemInv, CountsOK, Counted, Resetting, Deleting
<1>2. \A t \in Sem : Counted(t)'
  BY <1>1 DEF Counted, Waiters
<1> QED
  BY <1>2, SettledInv, NoLoop, NoLoopAfter, PlainView, PlainViewAfter

\* What the first invariant says of semaphores
LEMMA SemTypes ==
    ASSUME IInv
    PROVE  /\ scount \in [Sem -> Int] /\ sstate \in [Sem -> {"FREE", "USED"}]
           /\ squeue \in [Sem -> Seq(Pid)]
           /\ \A s \in Sem : Len(squeue[s]) \in Nat /\ (Len(squeue[s]) = 0 <=> squeue[s] = <<>>)
  BY QueueLengths DEF IInv, SemOK, RestOK

\* A count that is not negative is the number of tokens.
LEMMA TokensCounted ==
    ASSUME NEW s \in Sem, sstate'[s] = "USED", scount'[s] \in Nat,
           \A t \in Sem \ {s} : sstate'[t] = sstate[t] /\ scount'[t] = scount[t]
    PROVE  TokensNow' = [TokensNow EXCEPT ![s] = scount'[s]]
<1> DEFINE now(t) == IF sstate[t] = "USED" /\ scount[t] > 0 THEN scount[t] ELSE 0
           later(t) == IF sstate'[t] = "USED" /\ scount'[t] > 0 THEN scount'[t] ELSE 0
<1>1. later(s) = scount'[s]
  OBVIOUS
<1>2. \A t \in Sem \ {s} : later(t) = now(t)
  OBVIOUS
<1>3. TokensNow = [t \in Sem |-> now(t)] /\ TokensNow' = [t \in Sem |-> later(t)]
  BY DEF TokensNow
<1> HIDE DEF now, later
<1> QED
  BY <1>1, <1>2, <1>3

\* semcreate()
LEMMA CreateSem ==
    ASSUME IInv, SemInv, IInv', NEW n \in Counts, Semcreate(n)
    PROVE  Promised
<1>1. SemSettled /\ \A t \in Sem : Counted(t)
  BY BetweenLoops DEF Semcreate, User
<1>2. SemSettled'
  BY <1>1, SettledStacks DEF Semcreate
<1>3. NewSem(nextsem) \in Sem /\ sstate[NewSem(nextsem)] = "FREE"
  <2>1. FreeSemFrom(nextsem) # {} /\ nextsem \in Nat
    BY DEF Semcreate, IInv, RestOK, Sem
  <2> QED
    BY <2>1, NewSemFree
<1>4. PICK s \in Sem : /\ sstate[s] = "FREE" /\ squeue' = squeue
                      /\ sstate' = [sstate EXCEPT ![s] = "USED"]
                      /\ scount' = [scount EXCEPT ![s] = n]
  BY <1>3, Zenon DEF Semcreate
<1>5. n \in Nat
  BY ArgumentAssumption
<1>6. squeue[s] = <<>>
  BY <1>1, <1>4, SemTypes DEF Counted
<1>7. Counted(s)'
  <2>1. sstate'[s] = "USED" /\ scount'[s] = n /\ Len(squeue'[s]) = 0
    BY <1>4, <1>6, SemTypes
  <2> QED
    BY <1>5, <2>1 DEF Counted, Waiters
<1>8. \A t \in Sem \ {s} :
        sstate'[t] = sstate[t] /\ scount'[t] = scount[t] /\ squeue'[t] = squeue[t]
  BY <1>4, SemTypes
<1>9. /\ SemInv' /\ semTokens = TokensNow /\ semWaiting = WaitingNow
      /\ semTokens' = TokensNow' /\ semWaiting' = WaitingNow'
  BY <1>1, <1>2, <1>7, <1>8, OneSemaphore
<1>10. Semaphores!Create(s)
  <2>1. s \notin semLive /\ semLive' = semLive \cup {s}
    BY <1>4, SemTypes DEF semLive
  <2>2. WaitingNow[s] = <<>> /\ WaitingNow' = WaitingNow
    BY <1>4, <1>6, SemTypes DEF WaitingNow
  <2>3. TokensNow'[s] = n /\ TokensNow' = [TokensNow EXCEPT ![s] = n]
    <3>1. sstate'[s] = "USED" /\ scount'[s] = n
      BY <1>4, SemTypes
    <3>2. TokensNow' = [TokensNow EXCEPT ![s] = n]
      BY <1>5, <1>8, <3>1, TokensCounted
    <3> QED
      BY <3>2 DEF TokensNow
  <2> QED
    BY <1>5, <1>9, <2>1, <2>2, <2>3 DEF Semaphores!Create, Semaphores!SetTokens
<1> QED
  BY <1>9, <1>10 DEF Promised, Semaphores!Next

\* wait() that takes a token
LEMMA WaitTakes ==
    ASSUME IInv, SemInv, IInv', NEW s \in Sem, WaitTake(s)
    PROVE  Promised
<1>1. SemSettled /\ \A t \in Sem : Counted(t)
  BY BetweenLoops DEF WaitTake, User
<1>2. SemSettled'
  BY <1>1, SettledStacks DEF WaitTake
<1>3. /\ sstate[s] = "USED" /\ scount[s] > 0
      /\ scount' = [scount EXCEPT ![s] = scount[s] - 1]
      /\ squeue' = squeue /\ sstate' = sstate
  BY DEF WaitTake
<1>4. Counted(s)'
  BY <1>1, <1>3, SemTypes DEF Counted, Waiters
<1>5. \A t \in Sem \ {s} :
        sstate'[t] = sstate[t] /\ scount'[t] = scount[t] /\ squeue'[t] = squeue[t]
  BY <1>3, SemTypes
<1>6. /\ SemInv' /\ semTokens = TokensNow /\ semWaiting = WaitingNow
      /\ semTokens' = TokensNow' /\ semWaiting' = WaitingNow'
  BY <1>1, <1>2, <1>4, <1>5, OneSemaphore
<1>7. Semaphores!Take(s)
  <2>1. s \in semLive /\ semLive' = semLive
    BY <1>3 DEF semLive
  <2>2. WaitingNow' = WaitingNow
    BY <1>3 DEF WaitingNow
  <2>3. TokensNow[s] = scount[s] /\ TokensNow' = [TokensNow EXCEPT ![s] = scount[s] - 1]
    <3>1. sstate'[s] = "USED" /\ scount'[s] = scount[s] - 1 /\ scount'[s] \in Nat
      BY <1>3, SemTypes
    <3>2. TokensNow' = [TokensNow EXCEPT ![s] = scount[s] - 1]
      BY <1>5, <3>1, TokensCounted
    <3> QED
      BY <1>3, <3>2 DEF TokensNow
  <2> QED
    BY <1>3, <1>6, <2>1, <2>2, <2>3 DEF Semaphores!Take
<1> QED
  BY <1>6, <1>7 DEF Promised, Semaphores!Next

\* wait() that waits: the caller is on no queue, being the current process.
LEMMA WaitWaits ==
    ASSUME IInv, SemInv, IInv', NEW s \in Sem, WaitBlock(s)
    PROVE  Promised
<1>1. SemSettled /\ \A t \in Sem : Counted(t)
  BY BetweenLoops DEF WaitBlock, User
<1>2. SemSettled'
  BY <1>1, SettledStacks DEF WaitBlock
<1>3. /\ sstate[s] = "USED" /\ scount[s] <= 0
      /\ scount' = [scount EXCEPT ![s] = scount[s] - 1]
      /\ squeue' = [squeue EXCEPT ![s] = Enqueue(squeue[s], currpid)] /\ sstate' = sstate
  BY DEF WaitBlock
<1>4. currpid \in Pid /\ Len(Enqueue(squeue[s], currpid)) = Len(squeue[s]) + 1
  BY SemTypes, QueueLengths DEF IInv, SchedOK
<1>5. Counted(s)'
  BY <1>1, <1>3, <1>4, SemTypes DEF Counted, Waiters
<1>6. \A t \in Sem \ {s} :
        sstate'[t] = sstate[t] /\ scount'[t] = scount[t] /\ squeue'[t] = squeue[t]
  BY <1>3, SemTypes
<1>7. /\ SemInv' /\ semTokens = TokensNow /\ semWaiting = WaitingNow
      /\ semTokens' = TokensNow' /\ semWaiting' = WaitingNow'
  BY <1>1, <1>2, <1>5, <1>6, OneSemaphore
<1>8. \A t \in Sem : ~Contains(WaitingNow[t], currpid)
  <2>1. \A t \in Sem : ~On(squeue[t], currpid)
    BY DEF IInv, SchedOK, SemOK
  <2> SUFFICES ASSUME NEW t \in Sem PROVE ~Contains(WaitingNow[t], currpid)
    OBVIOUS
  <2>2. DOMAIN squeue[t] = 1 .. Len(squeue[t])
    BY SemTypes, LenProperties
  <2>3. ~Contains(squeue[t], currpid)
    BY <2>1, <2>2 DEF Contains, On
  <2>4. ~Contains(<<>>, currpid)
    BY DEF Contains
  <2> QED
    BY <2>3, <2>4 DEF WaitingNow
<1>9. Semaphores!Wait(s, currpid)
  <2>1. s \in semLive /\ semLive' = semLive
    BY <1>3 DEF semLive
  <2>2. TokensNow[s] = 0 /\ TokensNow' = TokensNow
    BY <1>3, SemTypes DEF TokensNow
  <2>3. WaitingNow' = [WaitingNow EXCEPT ![s] = Append(WaitingNow[s], currpid)]
    BY <1>3, SemTypes DEF WaitingNow, Enqueue
  <2> QED
    BY <1>7, <1>8, <2>1, <2>2, <2>3
       DEF Semaphores!Wait, Semaphores!Contains, Contains
<1> QED
  BY <1>4, <1>7, <1>9 DEF Promised, Semaphores!Next

\* Raising a count by one gives the semaphore a token or takes the first process off.
LEMMA SignalPromised ==
    ASSUME IInv, NEW s \in Sem, Counted(s), sstate[s] = "USED", sstate' = sstate,
           scount' = [scount EXCEPT ![s] = scount[s] + 1],
           squeue' = IF Releases(s) THEN [squeue EXCEPT ![s] = Tail(squeue[s])] ELSE squeue,
           Releases(s) <=> scount[s] < 0,
           \A t \in Sem \ {s} : scount'[t] = scount[t],
           semTokens = TokensNow, semWaiting = WaitingNow,
           semTokens' = TokensNow', semWaiting' = WaitingNow'
    PROVE  Semaphores!Signal(s)
<1>1. s \in semLive /\ semLive' = semLive
  BY DEF semLive
<1>2. CASE Releases(s)
  <2>1. WaitingNow[s] # <<>> /\ WaitingNow' = [WaitingNow EXCEPT ![s] = Tail(WaitingNow[s])]
    BY <1>2, SemTypes DEF WaitingNow, Releases
  <2>2. TokensNow' = TokensNow
    BY <1>2, SemTypes DEF TokensNow
  <2> QED
    BY <1>1, <2>1, <2>2 DEF Semaphores!Signal
<1>3. CASE ~Releases(s)
  <2>1. WaitingNow[s] = <<>> /\ WaitingNow' = WaitingNow
    BY <1>3, SemTypes DEF WaitingNow, Counted, Waiters
  <2>2. scount[s] \in Nat
    BY <1>3, SemTypes
  <2>3. sstate'[s] = "USED" /\ scount'[s] = scount[s] + 1 /\ scount'[s] \in Nat
    BY <2>2, SemTypes
  <2>4. TokensNow' = [TokensNow EXCEPT ![s] = scount[s] + 1]
    BY <2>3, TokensCounted
  <2>5. TokensNow[s] = scount[s]
    BY <2>2 DEF TokensNow
  <2> QED
    BY <1>1, <2>1, <2>4, <2>5 DEF Semaphores!Signal
<1> QED
  BY <1>2, <1>3

\* signal()
LEMMA Signals ==
    ASSUME IInv, SemInv, IInv', NEW s \in Sem, Signal(s)
    PROVE  Promised
<1>1. SemSettled /\ \A t \in Sem : Counted(t)
  BY BetweenLoops DEF Signal, User
<1>2. SemSettled'
  BY <1>1, SettledStacks DEF Signal
<1>3. /\ sstate[s] = "USED" /\ sstate' = sstate
      /\ scount' = [scount EXCEPT ![s] = scount[s] + 1]
      /\ squeue' = IF Releases(s) THEN [squeue EXCEPT ![s] = Tail(squeue[s])] ELSE squeue
  BY DEF Signal, DequeueWaiter
<1>4. Releases(s) <=> scount[s] < 0
  BY <1>1, <1>3, SemTypes DEF Releases, Counted, Waiters
<1>5. Releases(s) => Len(Tail(squeue[s])) = Len(squeue[s]) - 1
  BY SemTypes, QueueLengths DEF Releases
<1>6. Counted(s)'
  BY <1>1, <1>3, <1>4, <1>5, SemTypes DEF Counted, Waiters
<1>7. \A t \in Sem \ {s} :
        sstate'[t] = sstate[t] /\ scount'[t] = scount[t] /\ squeue'[t] = squeue[t]
  BY <1>3, SemTypes
<1>8. /\ SemInv' /\ semTokens = TokensNow /\ semWaiting = WaitingNow
      /\ semTokens' = TokensNow' /\ semWaiting' = WaitingNow'
  BY <1>1, <1>2, <1>6, <1>7, OneSemaphore
<1>9. Semaphores!Signal(s)
  BY <1>1, <1>3, <1>4, <1>7, <1>8, SignalPromised
<1> QED
  BY <1>8, <1>9 DEF Promised, Semaphores!Next

\* kill() of another process: if it waits on a semaphore it leaves the queue, and the count
\* is raised.
LEMMA KillsWaiting ==
    ASSUME IInv, SemInv, IInv', KillOther
    PROVE  Promised
<1> DEFINE victim == Top.arg
<1>1. SemSettled /\ \A t \in Sem : Counted(t)
  BY BetweenLoops DEF KillOther, At, Loops
<1>2. victim \in Pid /\ victim # currpid /\ kstack[currpid] # <<>>
  BY Stacks, Frames DEF KillOther, At, IInv
<1>3. /\ scount' = IF prstate[victim] = "WAIT" THEN [scount EXCEPT ![prsem[victim]] = @ + 1]
                                               ELSE scount
      /\ squeue' = IF prstate[victim] = "WAIT"
                   THEN [squeue EXCEPT ![prsem[victim]] = GetItem(@, victim)]
                   ELSE squeue
      /\ kstack' = [kstack EXCEPT ![victim] = <<>>, ![currpid] = Tail(@)]
      /\ sstate' = sstate
  BY Zenon DEF KillOther
<1> HIDE DEF victim
<1>4. SemSettled'
  <2>1. /\ currpid \in Pid /\ kstack \in [Pid -> Seq(Frame)]
        /\ \A p \in Pid : Loopless(kstack[p])
    BY <1>1 DEF IInv, SchedOK, RestOK, SemSettled
  <2>2. Loopless(<<>>) /\ Loopless(Tail(kstack[currpid]))
    BY <1>2, <2>1, LooplessStacks
  <2> QED
    BY <1>2, <1>3, <2>1, <2>2 DEF SemSettled
<1>5. CASE prstate[victim] # "WAIT"
  BY <1>1, <1>3, <1>4, <1>5, Unmoved
<1>6. CASE prstate[victim] = "WAIT"
  <2>1. PICK s \in Sem : s = prsem[victim] /\ On(squeue[s], victim)
    BY <1>2, <1>6 DEF IInv, SemOK
  <2>2. PICK i \in DOMAIN squeue[s] :
          /\ GetItem(squeue[s], victim) = RemoveAt(squeue[s], i)
          /\ Len(GetItem(squeue[s], victim)) = Len(squeue[s]) - 1
    BY <1>2, <2>1, SemTypes, QueueLengths
  <2>3. Len(squeue[s]) \in Nat /\ Len(squeue[s]) > 0
    BY <2>1, SemTypes, LenProperties DEF On
  <2>4. sstate[s] = "USED" /\ scount[s] < 0
    BY <1>1, <2>3, SemTypes DEF Counted, Waiters
  <2>5. /\ scount' = [scount EXCEPT ![s] = scount[s] + 1] /\ sstate' = sstate
        /\ squeue' = [squeue EXCEPT ![s] = RemoveAt(squeue[s], i)]
    BY <1>3, <1>6, <2>1, <2>2
  <2>6. Counted(s)'
    BY <1>1, <2>2, <2>4, <2>5, SemTypes DEF Counted, Waiters
  <2>7. \A t \in Sem \ {s} :
          sstate'[t] = sstate[t] /\ scount'[t] = scount[t] /\ squeue'[t] = squeue[t]
    BY <2>5, SemTypes
  <2>8. /\ SemInv' /\ semTokens = TokensNow /\ semWaiting = WaitingNow
        /\ semTokens' = TokensNow' /\ semWaiting' = WaitingNow'
    BY <1>1, <1>4, <2>6, <2>7, OneSemaphore
  <2>9. Semaphores!Leave(s)
    <3>1. semLive' = semLive
      BY <2>5 DEF semLive
    <3>2. TokensNow' = TokensNow
      BY <2>4, <2>5, SemTypes DEF TokensNow
    <3>3. i \in DOMAIN WaitingNow[s] /\ WaitingNow[s] = squeue[s]
      BY <2>4 DEF WaitingNow
    <3>4. WaitingNow' = [WaitingNow EXCEPT ![s] = RemoveAt(squeue[s], i)]
      BY <2>4, <2>5, SemTypes DEF WaitingNow
    <3>5. WaitingNow' = [WaitingNow EXCEPT ![s] = Semaphores!RemoveAt(WaitingNow[s], i)]
      BY <3>3, <3>4 DEF RemoveAt, Semaphores!RemoveAt
    <3> QED
      BY <2>8, <3>1, <3>2, <3>3, <3>5 DEF Semaphores!Leave
  <2> QED
    BY <2>8, <2>9 DEF Promised, Semaphores!Next
<1> QED
  BY <1>5, <1>6

-----------------------------------------------------------------------------
(* Loops.                                                                   *)

\* A step that leaves a loop's frame on top of stacks without others
LEMMA LoopFrame ==
    ASSUME IInv, NEW f \in Frame, f.at \in Loops, NEW below \in Seq(Frame), Loopless(below),
           \A p \in Pid \ {currpid} : Loopless(kstack[p]),
           kstack' = [kstack EXCEPT ![currpid] = <<f>> \o below],
           UNCHANGED <<currpid, halted>>, ~halted, ~ie'
    PROVE  /\ LoopAlone' /\ Top' = f
           /\ At("signaln")' <=> f.at = "signaln"
           /\ At("semdelete")' <=> f.at = "semdelete"
           /\ At("semreset")' <=> f.at = "semreset"
<1>1. currpid \in Pid /\ kstack \in [Pid -> Seq(Frame)]
  BY DEF IInv, SchedOK, RestOK
<1> DEFINE s == <<f>> \o below
<1>2. s # <<>> /\ Head(s) = f /\ Tail(s) = below
  BY LooplessStacks
<1> HIDE DEF s
<1>3. \A p \in Pid : kstack'[p] = IF p = currpid THEN s ELSE kstack[p]
  BY <1>1 DEF s
<1>4. LoopAlone'
  BY <1>1, <1>2, <1>3 DEF LoopAlone
<1>5. kstack'[currpid'] = s
  BY <1>1, <1>3
<1>6. Top' = f
  BY <1>2, <1>5 DEF Top
<1> QED
  BY <1>2, <1>4, <1>5, <1>6 DEF At

\* What a loop that is under way finds
LEMMA InLoop ==
    ASSUME IInv, SemInv, At("signaln") \/ At("semdelete") \/ At("semreset")
    PROVE  /\ Top.arg \in Sem /\ Top.cnt \in Nat
           /\ kstack[currpid] # <<>> /\ ~ie /\ ~halted
           /\ Tail(kstack[currpid]) \in Seq(Frame) /\ Loopless(Tail(kstack[currpid]))
           /\ \A p \in Pid \ {currpid} : Loopless(kstack[p])
           /\ Pop => SemSettled'
<1>1. currpid \in Pid /\ kstack \in [Pid -> Seq(Frame)]
  BY DEF IInv, SchedOK, RestOK
<1>2. kstack[currpid] # <<>> /\ Top.at \in Loops /\ ~halted
  BY DEF At, Loops
<1>3. ~Loopless(kstack[currpid]) /\ Tail(kstack[currpid]) \in Seq(Frame)
  BY <1>1, <1>2, LooplessStacks DEF Top
<1>4. /\ ~ie /\ Loopless(Tail(kstack[currpid]))
      /\ \A p \in Pid \ {currpid} : Loopless(kstack[p])
  BY <1>1, <1>3 DEF SemInv, LoopAlone
<1>5. Top.arg \in Sem /\ Top.cnt \in Nat
  BY <1>2, Stacks, Frames DEF IInv, Loops
<1>6. Pop => SemSettled'
  BY <1>1, <1>4 DEF Pop, SemSettled
<1> QED
  BY <1>2, <1>3, <1>4, <1>5, <1>6

\* The call of a loop
LEMMA LoopStarts ==
    ASSUME IInv, SemInv, NEW call \in Loops, NEW s \in Sem, NEW n \in Nat, LoopCall(call, s, n)
    PROVE  /\ LoopAlone' /\ Top' = NewFrame(call, s, n)
           /\ At("signaln")' <=> call = "signaln"
           /\ At("semdelete")' <=> call = "semdelete"
           /\ At("semreset")' <=> call = "semreset"
           /\ SemSettled /\ \A t \in Sem : Counted(t)
           /\ sstate[s] = "USED" /\ UNCHANGED <<squeue, scount>>
<1> DEFINE f == NewFrame(call, s, n)
<1>1. /\ ie /\ ~halted /\ ~ie' /\ sstate[s] = "USED"
      /\ UNCHANGED <<currpid, halted, squeue, scount>> /\ Push(f)
  BY DEF LoopCall, User, schedVars, idVars
<1>2. SemSettled /\ \A t \in Sem : Counted(t)
  BY <1>1, BetweenLoops
<1>3. f \in Frame /\ f.at = call
  BY Frames DEF NewFrame, Loops
<1>4. kstack[currpid] \in Seq(Frame) /\ \A p \in Pid : Loopless(kstack[p])
  BY <1>2 DEF SemSettled, IInv, SchedOK, RestOK
<1> HIDE DEF f
<1>5. Loopless(kstack[currpid])
  BY <1>4 DEF IInv, SchedOK
<1>6. kstack' = [kstack EXCEPT ![currpid] = <<f>> \o kstack[currpid]]
  BY <1>1 DEF Push
<1>7. /\ LoopAlone' /\ Top' = f
      /\ At("signaln")' <=> f.at = "signaln"
      /\ At("semdelete")' <=> f.at = "semdelete"
      /\ At("semreset")' <=> f.at = "semreset"
  BY <1>1, <1>3, <1>4, <1>5, <1>6, LoopFrame
<1> QED
  BY <1>1, <1>2, <1>3, <1>7 DEF f

\* signaln(), semdelete() and semreset() up to their loops: deleting and resetting take
\* effect here.
LEMMA LoopCalls ==
    ASSUME IInv, SemInv, IInv', NEW s \in Sem,
           \/ \E n \in Counts : Signaln(s, n) \/ Semreset(s, n)
           \/ Semdelete(s)
    PROVE  Promised
<1>1. ~At("semreset")
  <2>1. SemSettled
    BY BetweenLoops DEF Signaln, Semreset, Semdelete, LoopCall, User
  <2> QED
    BY <2>1, NoLoop
<1>2. semTokens = TokensNow /\ semWaiting = WaitingNow
  BY <1>1, PlainView
<1>3. ASSUME NEW n \in Counts, Signaln(s, n) PROVE Promised
  <2>1. n \in Nat /\ LoopCall("signaln", s, n) /\ sstate' = sstate
    BY <1>3, ArgumentAssumption DEF Signaln
  <2>2. /\ LoopAlone' /\ Top' = NewFrame("signaln", s, n)
        /\ At("signaln")' /\ ~At("semdelete")' /\ ~At("semreset")'
        /\ \A t \in Sem : Counted(t)
        /\ sstate[s] = "USED" /\ UNCHANGED <<squeue, scount>>
    BY <2>1, LoopStarts DEF Loops
  <2>3. LoopSem'
    BY <2>1, <2>2 DEF LoopSem, NewFrame
  <2>4. CountsOK'
    BY <2>1, <2>2 DEF CountsOK, Counted, Waiters, Deleting
  <2>5. UNCHANGED <<semLive, semTokens, semWaiting>>
    BY <1>2, <2>1, <2>2, PlainViewAfter DEF semLive, TokensNow, WaitingNow
  <2> QED
    BY <2>2, <2>3, <2>4, <2>5 DEF Promised, SemInv, Semaphores!vars
<1>4. ASSUME Semdelete(s) PROVE Promised
  <2>1. LoopCall("semdelete", s, 0) /\ sstate' = [sstate EXCEPT ![s] = "FREE"]
    BY <1>4 DEF Semdelete
  <2>2. /\ LoopAlone' /\ Top' = NewFrame("semdelete", s, 0)
        /\ ~At("signaln")' /\ At("semdelete")' /\ ~At("semreset")'
        /\ \A t \in Sem : Counted(t)
        /\ sstate[s] = "USED" /\ UNCHANGED <<squeue, scount>>
    BY <2>1, LoopStarts DEF Loops
  <2>3. Top'.arg = s /\ \A t \in Sem : Deleting(t)' <=> t = s
    BY <2>2 DEF Deleting, NewFrame
  <2>4. \A t \in Sem : sstate'[t] = IF t = s THEN "FREE" ELSE sstate[t]
    BY <2>1, SemTypes
  <2>5. LoopSem'
    BY <2>2, <2>3, <2>4 DEF LoopSem
  <2>6. CountsOK'
    BY <2>2, <2>3, <2>4 DEF CountsOK, Counted, Waiters
  <2>7. Semaphores!Delete(s)
    <3>1. semTokens' = TokensNow' /\ semWaiting' = WaitingNow'
      BY <2>2, PlainViewAfter
    <3>2. s \in semLive /\ semLive' = semLive \ {s}
      BY <2>2, <2>4 DEF semLive
    <3>3. TokensNow' = [TokensNow EXCEPT ![s] = 0] /\ WaitingNow' = [WaitingNow EXCEPT ![s] = <<>>]
      BY <2>2, <2>4 DEF TokensNow, WaitingNow
    <3> QED
      BY <1>2, <3>1, <3>2, <3>3 DEF Semaphores!Delete
  <2> QED
    BY <2>2, <2>5, <2>6, <2>7 DEF Promised, SemInv, Semaphores!Next
<1>5. ASSUME NEW n \in Counts, Semreset(s, n) PROVE Promised
  <2>1. n \in Nat /\ LoopCall("semreset", s, n) /\ sstate' = sstate
    BY <1>5, ArgumentAssumption DEF Semreset
  <2>2. /\ LoopAlone' /\ Top' = NewFrame("semreset", s, n)
        /\ ~At("signaln")' /\ ~At("semdelete")' /\ At("semreset")'
        /\ \A t \in Sem : Counted(t)
        /\ sstate[s] = "USED" /\ UNCHANGED <<squeue, scount>>
    BY <2>1, LoopStarts DEF Loops
  <2>3. /\ Top'.arg = s /\ Top'.cnt = n
        /\ \A t \in Sem : ~Deleting(t)' /\ (Resetting(t)' <=> t = s)
    BY <2>2 DEF Deleting, Resetting, NewFrame
  <2>4. LoopSem'
    BY <2>1, <2>2, <2>3 DEF LoopSem
  <2>5. CountsOK'
    BY <2>1, <2>2, <2>3 DEF CountsOK, Counted, Waiters
  <2>6. Semaphores!Reset(s)
    <3>1. s \in semLive /\ semLive' = semLive
      BY <2>1, <2>2 DEF semLive
    <3>2. semTokens' = [TokensNow EXCEPT ![s] = n]
      BY <2>1, <2>2, <2>3 DEF semTokens, semLive, TokensNow
    <3>3. semWaiting' = [WaitingNow EXCEPT ![s] = <<>>]
      BY <2>1, <2>2, <2>3 DEF semWaiting, semLive, WaitingNow
    <3>4. semTokens'[s] = n
      BY <3>2 DEF TokensNow
    <3> QED
      BY <1>2, <2>1, <3>1, <3>2, <3>3, <3>4 DEF Semaphores!Reset, Semaphores!SetTokens
  <2> QED
    BY <2>2, <2>4, <2>5, <2>6 DEF Promised, SemInv, Semaphores!Next
<1> QED
  BY <1>3, <1>4, <1>5

\* A turn of signaln() is a signal.
LEMMA SignalnTurn ==
    ASSUME IInv, SemInv, IInv', SignalnStep
    PROVE  Promised
<1>1. PICK s \in Sem, n \in Nat : Top.arg = s /\ Top.cnt = n /\ n > 0
  BY InLoop DEF SignalnStep
<1>2. /\ At("signaln") /\ ~At("semdelete") /\ ~At("semreset") /\ sstate[s] = "USED"
      /\ \A t \in Sem : Counted(t)
  BY <1>1 DEF SignalnStep, At, SemInv, LoopSem, CountsOK, Counted, Resetting, Deleting
<1>3. /\ scount' = [scount EXCEPT ![s] = scount[s] + 1] /\ sstate' = sstate
      /\ squeue' = IF Releases(s) THEN [squeue EXCEPT ![s] = Tail(squeue[s])] ELSE squeue
      /\ Replace(NewFrame("signaln", s, n - 1))
      /\ UNCHANGED <<currpid, halted, ie>>
  BY <1>1 DEF SignalnStep, DequeueWaiter, ReadyNo, schedVars, idVars
<1>4. LoopAlone' /\ At("signaln")' /\ ~At("semdelete")' /\ ~At("semreset")' /\ Top'.arg = s
  <2> DEFINE f == NewFrame("signaln", s, n - 1)
  <2>1. f \in Frame /\ f.at = "signaln" /\ f.arg = s
    BY <1>1, Frames DEF NewFrame
  <2>2. /\ ~ie /\ ~halted
        /\ Tail(kstack[currpid]) \in Seq(Frame) /\ Loopless(Tail(kstack[currpid]))
        /\ \A p \in Pid \ {currpid} : Loopless(kstack[p])
    BY <1>2, InLoop
  <2>3. kstack' = [kstack EXCEPT ![currpid] = <<f>> \o Tail(kstack[currpid])]
    BY <1>3 DEF Replace
  <2> HIDE DEF f
  <2>4. /\ LoopAlone' /\ Top' = f
        /\ At("signaln")' <=> f.at = "signaln"
        /\ At("semdelete")' <=> f.at = "semdelete"
        /\ At("semreset")' <=> f.at = "semreset"
    BY <1>3, <2>1, <2>2, <2>3, LoopFrame DEF Loops
  <2> QED
    BY <2>1, <2>4
<1>5. Releases(s) <=> scount[s] < 0
  BY <1>2, SemTypes DEF Releases, Counted, Waiters
<1>6. Releases(s) => Len(Tail(squeue[s])) = Len(squeue[s]) - 1
  BY SemTypes, QueueLengths DEF Releases
<1>7. \A t \in Sem \ {s} :
        sstate'[t] = sstate[t] /\ scount'[t] = scount[t] /\ squeue'[t] = squeue[t]
  BY <1>3, SemTypes
<1>8. Counted(s)'
  BY <1>2, <1>3, <1>5, <1>6, SemTypes DEF Counted, Waiters
<1>9. SemInv'
  <2>1. \A t \in Sem : Counted(t)'
    BY <1>2, <1>7, <1>8 DEF Counted, Waiters
  <2>2. CountsOK'
    BY <1>4, <2>1 DEF CountsOK, Counted, Deleting
  <2> QED
    BY <1>2, <1>3, <1>4, <2>2 DEF SemInv, LoopSem
<1>10. /\ semTokens = TokensNow /\ semWaiting = WaitingNow
       /\ semTokens' = TokensNow' /\ semWaiting' = WaitingNow'
  BY <1>2, <1>4, PlainView, PlainViewAfter
<1>11. Semaphores!Signal(s)
  BY <1>2, <1>3, <1>5, <1>7, <1>10, SignalPromised
<1> QED
  BY <1>9, <1>11 DEF Promised, Semaphores!Next

\* A turn of semdelete() is no step of the promise.
LEMMA DeleteTurn ==
    ASSUME IInv, SemInv, IInv', SemdeleteStep
    PROVE  Promised
<1>1. PICK s \in Sem : Top.arg = s
  BY InLoop DEF SemdeleteStep
<1>2. /\ ~At("signaln") /\ At("semdelete") /\ ~At("semreset")
      /\ sstate[s] = "FREE" /\ scount[s] < 0
      /\ \A t \in Sem : Deleting(t) <=> t = s
      /\ Len(squeue[s]) = Waiters(s)
      /\ \A t \in Sem \ {s} : Counted(t)
  BY <1>1 DEF SemdeleteStep, At, SemInv, LoopSem, CountsOK, Counted, Resetting, Deleting
<1>3. /\ scount' = [scount EXCEPT ![s] = scount[s] + 1] /\ sstate' = sstate
      /\ squeue' = IF Releases(s) THEN [squeue EXCEPT ![s] = Tail(squeue[s])] ELSE squeue
      /\ UNCHANGED <<kstack, currpid, halted, ie>>
  BY <1>1 DEF SemdeleteStep, DequeueWaiter, ReadyNo, schedVars, idVars
<1>4. /\ LoopAlone' /\ ~At("signaln")' /\ At("semdelete")' /\ ~At("semreset")'
      /\ Top'.arg = s /\ \A t \in Sem : Deleting(t)' <=> t = s
  BY <1>1, <1>2, <1>3 DEF SemInv, LoopAlone, At, Top, Deleting
<1>5. Releases(s)
  BY <1>2, SemTypes DEF Releases, Waiters
<1>6. Len(Tail(squeue[s])) = Len(squeue[s]) - 1
  BY <1>5, SemTypes, QueueLengths DEF Releases
<1>7. squeue'[s] = Tail(squeue[s]) /\ scount'[s] = scount[s] + 1
  BY <1>3, <1>5, SemTypes
<1>8. Len(squeue'[s]) = Waiters(s)'
  BY <1>2, <1>6, <1>7, SemTypes DEF Waiters
<1>9. \A t \in Sem \ {s} : Counted(t)'
  BY <1>2, <1>3, SemTypes DEF Counted, Waiters
<1>10. SemInv'
  <2>1. CountsOK'
    BY <1>4, <1>8, <1>9 DEF CountsOK, Counted
  <2> QED
    BY <1>2, <1>3, <1>4, <2>1 DEF SemInv, LoopSem
<1>11. UNCHANGED <<semLive, semTokens, semWaiting>>
  <2>1. TokensNow' = TokensNow
    BY <1>2, <1>3, SemTypes DEF TokensNow
  <2>2. WaitingNow' = WaitingNow
    BY <1>2, <1>3, SemTypes DEF WaitingNow
  <2> QED
    BY <1>2, <1>3, <1>4, <2>1, <2>2, PlainView, PlainViewAfter DEF semLive
<1> QED
  BY <1>10, <1>11 DEF Promised, Semaphores!vars

\* Nor is a turn of semreset().
LEMMA ResetTurn ==
    ASSUME IInv, SemInv, IInv', SemresetStep
    PROVE  Promised
<1>1. PICK s \in Sem : Top.arg = s
  BY InLoop DEF SemresetStep
<1>2. /\ ~At("signaln") /\ ~At("semdelete") /\ At("semreset") /\ sstate[s] = "USED"
      /\ \A t \in Sem : Resetting(t) <=> t = s
      /\ \A t \in Sem \ {s} : Counted(t)
  BY <1>1 DEF SemresetStep, At, SemInv, LoopSem, CountsOK, Counted, Resetting, Deleting
<1>3. /\ squeue' = [squeue EXCEPT ![s] = Tail(squeue[s])]
      /\ UNCHANGED <<sstate, scount, kstack, currpid, halted, ie>>
  BY <1>1 DEF SemresetStep, DequeueWaiter, ReadyNo, idVars
<1>4. /\ LoopAlone' /\ ~At("signaln")' /\ ~At("semdelete")' /\ At("semreset")'
      /\ Top' = Top /\ \A t \in Sem : Resetting(t)' <=> t = s
  BY <1>1, <1>2, <1>3 DEF SemInv, LoopAlone, At, Top, Resetting
<1>5. SemInv'
  <2>1. \A t \in Sem \ {s} : Counted(t)'
    BY <1>2, <1>3, SemTypes DEF Counted, Waiters
  <2>2. CountsOK'
    BY <1>4, <2>1 DEF CountsOK, Counted, Deleting
  <2> QED
    BY <1>1, <1>2, <1>3, <1>4, <2>2 DEF SemInv, LoopSem
<1>6. UNCHANGED <<semLive, semTokens, semWaiting>>
  <2>1. semLive' = semLive
    BY <1>3 DEF semLive
  <2>2. semTokens' = semTokens
    BY <1>2, <1>3, <1>4, <2>1 DEF semTokens
  <2>3. semWaiting' = semWaiting
    BY <1>2, <1>3, <1>4, <2>1, SemTypes DEF semWaiting
  <2> QED
    BY <2>1, <2>2, <2>3
<1> QED
  BY <1>5, <1>6 DEF Promised, Semaphores!vars

\* A loop ends with counts and queues in agreement again.
LEMMA LoopsEnd ==
    ASSUME IInv, SemInv, IInv', SignalnEnd \/ SemdeleteEnd \/ SemresetEnd
    PROVE  Promised
<1>1. PICK s \in Sem, n \in Nat : Top.arg = s /\ Top.cnt = n
  BY InLoop DEF SignalnEnd, SemdeleteEnd, SemresetEnd
<1>2. LoopEnd /\ squeue' = squeue /\ sstate' = sstate
  BY DEF SignalnEnd, SemdeleteEnd, SemresetEnd, LoopEnd
<1>3. SemSettled'
  BY <1>2, InLoop DEF SignalnEnd, SemdeleteEnd, SemresetEnd, LoopEnd
<1>4. semTokens' = TokensNow' /\ semWaiting' = WaitingNow'
  BY <1>3, NoLoopAfter, PlainViewAfter
<1>5. semLive' = semLive
  BY <1>2 DEF semLive
<1>6. ASSUME \A t \in Sem : Counted(t)', TokensNow' = semTokens, WaitingNow' = semWaiting
      PROVE  Promised
  <2>1. SemInv'
    BY <1>3, <1>6, SettledInv
  <2>2. UNCHANGED <<semLive, semTokens, semWaiting>>
    BY <1>4, <1>5, <1>6
  <2> QED
    BY <2>1, <2>2 DEF Promised, Semaphores!vars
<1>7. CASE SignalnEnd
  <2>1. scount' = scount /\ ~At("semdelete") /\ ~At("semreset")
    BY <1>7 DEF SignalnEnd, At
  <2>2. \A t \in Sem : Counted(t)
    BY <2>1 DEF SemInv, CountsOK, Counted, Resetting, Deleting
  <2>3. \A t \in Sem : Counted(t)'
    BY <1>2, <2>1, <2>2 DEF Counted, Waiters
  <2>4. TokensNow' = semTokens /\ WaitingNow' = semWaiting
    BY <1>2, <2>1, PlainView DEF TokensNow, WaitingNow
  <2> QED
    BY <1>6, <2>3, <2>4
<1>8. CASE SemdeleteEnd
  <2>1. /\ scount[s] >= 0 /\ scount' = [scount EXCEPT ![s] = scount[s] + 1]
        /\ At("semdelete") /\ ~At("semreset") /\ sstate[s] = "FREE"
    BY <1>1, <1>8 DEF SemdeleteEnd, At, SemInv, LoopSem
  <2>2. Len(squeue[s]) = 0 /\ \A t \in Sem \ {s} : Counted(t)
    BY <1>1, <2>1 DEF SemInv, CountsOK, Counted, Resetting, Deleting, Waiters
  <2>3. \A t \in Sem : Counted(t)'
    BY <1>2, <2>1, <2>2, SemTypes DEF Counted, Waiters
  <2>4. TokensNow' = semTokens
    <3>1. TokensNow' = TokensNow
      BY <1>2, <2>1, SemTypes DEF TokensNow
    <3> QED
      BY <2>1, <3>1, PlainView
  <2>5. WaitingNow' = semWaiting
    BY <1>2, <2>1, PlainView DEF WaitingNow
  <2> QED
    BY <1>6, <2>3, <2>4, <2>5
<1>9. CASE SemresetEnd
  <2>1. /\ squeue[s] = <<>> /\ scount' = [scount EXCEPT ![s] = n]
        /\ At("semreset") /\ ~At("semdelete") /\ sstate[s] = "USED"
        /\ \A t \in Sem : Resetting(t) <=> t = s
    BY <1>1, <1>9 DEF SemresetEnd, At, SemInv, LoopSem, Resetting
  <2>2. Len(squeue[s]) = 0 /\ \A t \in Sem \ {s} : Counted(t)
    BY <2>1, SemTypes DEF SemInv, CountsOK, Counted, Deleting
  <2>3. scount'[s] = n /\ \A t \in Sem \ {s} : scount'[t] = scount[t]
    BY <2>1, SemTypes
  <2>4. \A t \in Sem : Counted(t)'
    BY <1>2, <2>2, <2>3 DEF Counted, Waiters
  <2>5. TokensNow' = semTokens
    BY <1>1, <1>2, <2>1, <2>3 DEF TokensNow, semTokens, semLive
  <2>6. WaitingNow' = semWaiting
    BY <1>2, <2>1 DEF WaitingNow, semWaiting, semLive
  <2> QED
    BY <1>6, <2>4, <2>5, <2>6
<1> QED
  BY <1>7, <1>8, <1>9

-----------------------------------------------------------------------------
(* The invariant and what it implies.                                       *)

\* There is no semaphore at first.
LEMMA InitSem == Init => SemInv /\ Semaphores!Init
<1> SUFFICES ASSUME Init PROVE SemInv /\ Semaphores!Init
  OBVIOUS
<1>1. IInv
  BY InitIInv
<1>2. SemSettled
  <2> DEFINE f == NewFrame("create", 0, 0)
  <2>1. f \in Frame /\ f.at \notin Loops
    BY PlainFrames
  <2> HIDE DEF f
  <2>2. <<f>> \in Seq(Frame) /\ <<f>> # <<>> /\ Head(<<f>>) = f /\ Tail(<<f>>) = <<>>
    BY <2>1
  <2>3. Loopless(<<f>>) /\ Loopless(<<>>)
    <3>1. PICK s \in Seq(Frame) : s = <<f>> /\ s # <<>> /\ Head(s) = f /\ Tail(s) = <<>>
      BY <2>2
    <3>2. Loopless(<<>>) /\ (Loopless(s) <=> Head(s).at \notin Loops /\ Loopless(Tail(s)))
      BY <3>1, LooplessStacks
    <3> QED
      BY <2>1, <3>1, <3>2
  <2> QED
    BY <2>3 DEF Init, SemSettled, f
<1>3. /\ squeue = [s \in Sem |-> <<>>] /\ sstate = [s \in Sem |-> "FREE"]
      /\ scount = [s \in Sem |-> 0]
  BY DEF Init
<1>4. SemInv
  <2>1. CountsOK
    BY <1>1, <1>2, <1>3, NoLoop, SemTypes DEF CountsOK, Deleting, Waiters
  <2> QED
    BY <1>1, <1>2, <2>1, NoLoop DEF SemInv, LoopAlone, LoopSem, SemSettled
<1>5. Semaphores!Init
  <2>1. semLive = {}
    BY <1>3 DEF semLive
  <2>2. semTokens = [s \in Sem |-> 0] /\ semWaiting = [s \in Sem |-> <<>>]
    BY <1>1, <1>2, <1>3, NoLoop, PlainView DEF TokensNow, WaitingNow
  <2> QED
    BY <2>1, <2>2 DEF Semaphores!Init
<1> QED
  BY <1>4, <1>5

\* Every step keeps it, and is a step of the promise or none.
LEMMA NextSem == IInv /\ SemInv /\ [Next]_vars => Promised
<1> SUFFICES ASSUME IInv, SemInv, [Next]_vars PROVE Promised
  OBVIOUS
<1>1. IInv'
  BY NextIInv
<1>2. CASE KernelStep
  BY <1>1, <1>2, OtherSteps, SuicideStep, KillsWaiting, SignalnTurn, DeleteTurn, ResetTurn,
     LoopsEnd DEF KernelStep
<1>3. CASE SystemCall
  BY <1>1, <1>3, UserCalls, CreateSem, WaitTakes, WaitWaits, Signals, LoopCalls
     DEF SystemCall
<1>4. CASE Tick
  BY <1>1, <1>4, OtherSteps
<1>5. CASE Halted \/ UNCHANGED vars
  <2>1. UNCHANGED vars
    BY <1>5 DEF Halted
  <2>2. UNCHANGED <<squeue, sstate, scount, kstack, currpid, halted, ie>>
    BY <2>1 DEF vars, semVars, schedVars, idVars
  <2>3. SemInv'
    BY <2>2 DEF SemInv, LoopAlone, LoopSem, CountsOK, At, Top, Resetting, Deleting, Waiters
  <2>4. UNCHANGED <<semLive, semTokens, semWaiting>>
    BY <2>2 DEF semLive, semTokens, semWaiting, Resetting, At, Top
  <2> QED
    BY <2>3, <2>4 DEF Promised, Semaphores!vars
<1> QED
  BY <1>2, <1>3, <1>4, <1>5 DEF Next

\* The invariant holds in every state the kernel can be in.
THEOREM SemInvariance == Spec => []SemInv
<1>1. IInv /\ SemInv /\ [Next]_vars => SemInv'
  BY NextSem DEF Promised
<1> QED
  BY <1>1, InitSem, Invariance, PTL DEF Spec

\* Whenever an interrupt can be taken, a negative count is minus the number of waiting
\* processes and a free entry has none, whatever wait(), signal(), the three loops and
\* kill() of a waiting process have done before (wait.c:24, signal.c:21, kill.c:49).
THEOREM CountsAgree == Spec => []SemCountQueue
<1>1. IInv /\ SemInv => SemCountQueue
  <2> SUFFICES ASSUME IInv, SemInv, ie, NEW s \in Sem
               PROVE  Len(squeue[s]) = IF sstate[s] = "FREE" \/ scount[s] >= 0 THEN 0
                                       ELSE -scount[s]
    BY DEF SemCountQueue
  <2>1. Counted(s)
    BY BetweenLoops
  <2> QED
    BY <2>1, SemTypes DEF Counted, Waiters
<1> QED
  BY <1>1, Invariance, SemInvariance, PTL

\* The semaphores of the kernel are what Semaphore describes: tokens or waiting processes,
\* first come first served, and nothing but the seven calls and kill() touches them
\* (wait.c, signal.c, signaln.c, semcreate.c, semdelete.c, semreset.c, kill.c:48).
THEOREM SemaphoresImplemented == Spec => SemaphorePromise
<1>1. IInv /\ SemInv /\ [Next]_vars => [Semaphores!Next]_(Semaphores!vars)
  BY NextSem DEF Promised
<1> QED
  BY <1>1, InitSem, Invariance, SemInvariance, PTL DEF Spec, SemaphorePromise, Semaphores!Spec

-----------------------------------------------------------------------------
(* Queues in order of keys.                                                 *)

Ascending(q, keys) == \A i, j \in DOMAIN q : i < j => keys[q[i]] <= keys[q[j]]
Descending(q, keys) == \A i, j \in DOMAIN q : i < j => keys[q[i]] >= keys[q[j]]

Negated(keys) == [p \in Pid |-> -keys[p]]

\* What holds of one order holds of the other.
LEMMA Mirrored ==
    ASSUME NEW q \in Seq(Pid), NEW keys \in [Pid -> Int]
    PROVE  /\ Negated(keys) \in [Pid -> Int]
           /\ Descending(q, keys) <=> Ascending(q, Negated(keys))
<1>1. \A i \in DOMAIN q : q[i] \in Pid
  BY ElementOfSeq, LenProperties
<1>2. \A i \in DOMAIN q : Negated(keys)[q[i]] = -keys[q[i]] /\ keys[q[i]] \in Int
  BY <1>1 DEF Negated
<1>3. Negated(keys) \in [Pid -> Int]
  BY DEF Negated
<1> QED
  BY <1>2, <1>3 DEF Descending, Ascending

\* A process linked in where its key belongs
LEMMA InsertAtAscending ==
    ASSUME NEW q \in Seq(Pid), NEW keys \in [Pid -> Int], Ascending(q, keys),
           NEW i \in 1 .. Len(q) + 1, NEW p \in Pid
    PROVE  (\A k \in 1 .. Len(q) : /\ k < i => keys[q[k]] <= keys[p]
                                   /\ k >= i => keys[p] <= keys[q[k]])
             => Ascending(InsertAt(q, i, p), keys)
<1> DEFINE s == InsertAt(q, i, p)
<1>1. /\ s \in Seq(Pid) /\ Len(s) = Len(q) + 1
      /\ \A j \in 1 .. Len(q) + 1 : s[j] = IF j < i THEN q[j] ELSE IF j = i THEN p ELSE q[j - 1]
  BY InsertAtEntries
<1> HIDE DEF s
<1> SUFFICES ASSUME \A k \in 1 .. Len(q) : /\ k < i => keys[q[k]] <= keys[p]
                                           /\ k >= i => keys[p] <= keys[q[k]]
             PROVE  Ascending(s, keys)
  BY DEF s
<1>2. /\ Len(q) \in Nat /\ DOMAIN q = 1 .. Len(q) /\ DOMAIN s = 1 .. Len(q) + 1
      /\ \A k \in 1 .. Len(q) : q[k] \in Pid
  BY <1>1, LenProperties, ElementOfSeq
<1>3. \A j, k \in 1 .. Len(q) : j < k => keys[q[j]] <= keys[q[k]]
  BY <1>2 DEF Ascending
<1>4. ASSUME NEW j \in 1 .. Len(q) + 1, NEW k \in 1 .. Len(q) + 1, j < k
      PROVE  keys[s[j]] <= keys[s[k]]
  <2>1. CASE k < i
    BY <1>1, <1>2, <1>3, <1>4, <2>1
  <2>2. CASE k = i
    BY <1>1, <1>2, <1>4, <2>2
  <2>3. CASE j = i
    <3>1. k - 1 \in 1 .. Len(q) /\ k - 1 >= i /\ s[k] = q[k - 1] /\ s[j] = p
      BY <1>1, <1>2, <1>4, <2>3
    <3> QED
      BY <3>1
  <2>4. CASE j < i /\ i < k
    <3>1. /\ k - 1 \in 1 .. Len(q) /\ k - 1 >= i /\ s[k] = q[k - 1]
          /\ j \in 1 .. Len(q) /\ s[j] = q[j]
      BY <1>1, <1>2, <1>4, <2>4
    <3>2. keys[q[j]] <= keys[p] /\ keys[p] <= keys[q[k - 1]]
      BY <2>4, <3>1
    <3> QED
      BY <1>2, <3>1, <3>2
  <2>5. CASE i < j
    <3>1. /\ j - 1 \in 1 .. Len(q) /\ k - 1 \in 1 .. Len(q) /\ j - 1 < k - 1
          /\ s[j] = q[j - 1] /\ s[k] = q[k - 1]
      BY <1>1, <1>2, <1>4, <2>5
    <3> QED
      BY <1>3, <3>1
  <2> QED
    BY <1>2, <2>1, <2>2, <2>3, <2>4, <2>5
<1> QED
  BY <1>2, <1>4 DEF Ascending, s

\* Keys that stay or move together
LEMMA MovedKeys ==
    ASSUME NEW q \in Seq(Pid), NEW old \in [Pid -> Int], NEW new \in [Pid -> Int],
           NEW c \in Int, \A p \in Pid : On(q, p) => new[p] = old[p] - c
    PROVE  /\ Ascending(q, old) => Ascending(q, new)
           /\ Descending(q, old) => Descending(q, new)
<1>1. \A i \in DOMAIN q : q[i] \in Pid /\ On(q, q[i])
  BY ElementOfSeq, LenProperties DEF On
<1>2. \A i \in DOMAIN q : new[q[i]] = old[q[i]] - c /\ old[q[i]] \in Int
  BY <1>1
<1>3. \A i, j \in DOMAIN q : /\ old[q[i]] <= old[q[j]] <=> new[q[i]] <= new[q[j]]
                             /\ old[q[i]] >= old[q[j]] <=> new[q[i]] >= new[q[j]]
  BY <1>2
<1> QED
  BY <1>3, Zenon DEF Ascending, Descending

\* Keys of a queue that do not move, whatever others do
LEMMA SameKeys ==
    ASSUME NEW q \in Seq(Pid), NEW old \in [Pid -> Int], NEW new \in [Pid -> Int],
           \A p \in Pid : On(q, p) => new[p] = old[p]
    PROVE  /\ Ascending(q, old) => Ascending(q, new)
           /\ Descending(q, old) => Descending(q, new)
<1>1. \A i \in DOMAIN q : q[i] \in Pid /\ On(q, q[i])
  BY ElementOfSeq, LenProperties DEF On
<1>2. \A i \in DOMAIN q : new[q[i]] = old[q[i]]
  BY <1>1
<1> QED
  BY <1>2 DEF Ascending, Descending

\* insertd() keeps the order.
LEMMA InsertdAscending ==
    ASSUME NEW q \in Seq(Pid), NEW keys \in [Pid -> Int], NEW p \in Pid, NEW delay \in Int,
           ~On(q, p), Ascending(q, keys)
    PROVE  Ascending(Insertd(q, keys, p, delay), [keys EXCEPT ![p] = delay])
<1> DEFINE passed == {j \in DOMAIN q : \A k \in 1 .. j : keys[q[k]] <= delay}
           n == Cardinality(passed)
           new == [keys EXCEPT ![p] = delay]
           early == {k \in 1 .. Len(q) : keys[q[k]] <= delay}
<1>1. /\ Len(q) \in Nat /\ DOMAIN q = 1 .. Len(q)
      /\ \A k \in 1 .. Len(q) : q[k] \in Pid
  BY LenProperties, ElementOfSeq
<1>2. /\ passed \in SUBSET (1 .. Len(q))
      /\ \A j \in 1 .. Len(q) : j \in passed <=> \A k \in 1 .. j : k \in early
  <2>1. \A j \in 1 .. Len(q) : \A k \in 1 .. j : k \in 1 .. Len(q)
    BY <1>1
  <2> QED
    BY <1>1, <2>1
<1>3. Insertd(q, keys, p, delay) = InsertAt(q, n + 1, p)
  BY DEF Insertd
<1> HIDE DEF passed
<1>4. n \in 0 .. Len(q) /\ (\A k \in 1 .. n : k \in early) /\ (n < Len(q) => n + 1 \notin early)
  <2> HIDE DEF early
  <2> QED
    BY <1>1, <1>2, LeadingNumbers
<1> HIDE DEF n
<1>5. new \in [Pid -> Int] /\ new[p] = delay
  OBVIOUS
<1>6. \A k \in 1 .. Len(q) : On(q, q[k]) /\ new[q[k]] = keys[q[k]]
  BY <1>1 DEF On
<1>7. Ascending(q, new)
  BY <1>1, <1>6 DEF Ascending
<1>8. ASSUME NEW k \in 1 .. Len(q)
      PROVE  /\ k < n + 1 => new[q[k]] <= new[p]
             /\ k >= n + 1 => new[p] <= new[q[k]]
  <2>1. ASSUME k < n + 1 PROVE new[q[k]] <= new[p]
    BY <1>4, <1>5, <1>6, <2>1
  <2>2. ASSUME k >= n + 1 PROVE new[p] <= new[q[k]]
    <3>1. n + 1 \in 1 .. Len(q) /\ ~(keys[q[n + 1]] <= delay)
      BY <1>1, <1>4, <2>2
    <3>2. keys[q[n + 1]] <= keys[q[k]]
      <4>1. k = n + 1 \/ n + 1 < k
        BY <1>1, <2>2, <3>1
      <4>2. keys[q[k]] \in Int
        BY <1>1
      <4> QED
        BY <1>1, <3>1, <4>1, <4>2 DEF Ascending
    <3> QED
      BY <1>1, <1>5, <1>6, <3>1, <3>2
  <2> QED
    BY <2>1, <2>2
<1> HIDE DEF new
<1>9. Ascending(InsertAt(q, n + 1, p), new)
  <2>1. n + 1 \in 1 .. Len(q) + 1
    BY <1>1, <1>4
  <2> QED
    BY <1>5, <1>7, <1>8, <2>1, InsertAtAscending
<1> QED
  BY <1>3, <1>9 DEF new

\* insert() keeps the order.
LEMMA InsertDescending ==
    ASSUME NEW q \in Seq(Pid), NEW keys \in [Pid -> Int], NEW p \in Pid, NEW key \in Int,
           ~On(q, p), Descending(q, keys)
    PROVE  Descending(Insert(q, keys, p, key), [keys EXCEPT ![p] = key])
<1> DEFINE turned == Negated(keys)
           new == [keys EXCEPT ![p] = key]
<1>1. turned \in [Pid -> Int] /\ Ascending(q, turned) /\ new \in [Pid -> Int]
  BY Mirrored
<1>2. Insert(q, keys, p, key) = Insertd(q, turned, p, -key)
  <2>1. \A k \in DOMAIN q : keys[q[k]] \in Int /\ turned[q[k]] = -keys[q[k]]
    BY ElementOfSeq, LenProperties DEF Negated
  <2>2. \A k \in DOMAIN q : keys[q[k]] >= key <=> turned[q[k]] <= -key
    BY <2>1
  <2>3. \A j \in DOMAIN q : \A k \in 1 .. j : k \in DOMAIN q
    BY LenProperties
  <2>4. {j \in DOMAIN q : \A k \in 1 .. j : keys[q[k]] >= key}
          = {j \in DOMAIN q : \A k \in 1 .. j : turned[q[k]] <= -key}
    BY <2>2, <2>3
  <2> QED
    BY <2>4 DEF Insert, Insertd
<1>3. Negated(new) = [turned EXCEPT ![p] = -key]
  BY DEF Negated
<1> HIDE DEF turned
<1>4. Ascending(Insertd(q, turned, p, -key), [turned EXCEPT ![p] = -key])
  <2>1. -key \in Int
    OBVIOUS
  <2> QED
    BY <1>1, <2>1, InsertdAscending
<1> HIDE DEF new
<1>5. Insert(q, keys, p, key) \in Seq(Pid)
  BY InsertQueue
<1> QED
  BY <1>1, <1>2, <1>3, <1>4, <1>5, Mirrored DEF new

\* dequeue() and getitem() keep any order.
LEMMA TailOrdered ==
    ASSUME NEW q \in Seq(Pid), q # <<>>, NEW keys
    PROVE  /\ Ascending(q, keys) => Ascending(Tail(q), keys)
           /\ Descending(q, keys) => Descending(Tail(q), keys)
<1> DEFINE t == Tail(q)
<1>1. /\ Len(q) \in Nat /\ t \in Seq(Pid) /\ Len(t) = Len(q) - 1
      /\ \A j \in 1 .. Len(q) - 1 : t[j] = q[j + 1]
  BY HeadTailProperties, EmptySeq, LenProperties
<1>2. DOMAIN q = 1 .. Len(q) /\ DOMAIN t = 1 .. Len(q) - 1
  BY <1>1, LenProperties
<1> HIDE DEF t
<1>3. \A i, j \in DOMAIN t : i < j =>
        /\ i + 1 \in DOMAIN q /\ j + 1 \in DOMAIN q /\ i + 1 < j + 1
        /\ t[i] = q[i + 1] /\ t[j] = q[j + 1]
  BY <1>1, <1>2
<1> QED
  BY <1>3 DEF Ascending, Descending, t

\* The same of a process unlinked from the middle
LEMMA GetItemOrdered ==
    ASSUME NEW q \in Seq(Pid), NEW p \in Pid, On(q, p), NEW keys
    PROVE  /\ Ascending(q, keys) => Ascending(GetItem(q, p), keys)
           /\ Descending(q, keys) => Descending(GetItem(q, p), keys)
<1> DEFINE s == GetItem(q, p)
<1>1. PICK i \in 1 .. Len(q) :
        /\ s \in Seq(Pid) /\ Len(s) = Len(q) - 1
        /\ \A j \in 1 .. Len(q) - 1 : s[j] = IF j < i THEN q[j] ELSE q[j + 1]
  BY GetItemEntries
<1> HIDE DEF s
<1>2. /\ Len(q) \in Nat /\ DOMAIN q = 1 .. Len(q) /\ DOMAIN s = 1 .. Len(q) - 1
  BY <1>1, LenProperties
<1> DEFINE old(j) == IF j < i THEN j ELSE j + 1
<1>3. \A j, k \in DOMAIN s : j < k =>
        /\ old(j) \in DOMAIN q /\ old(k) \in DOMAIN q /\ old(j) < old(k)
        /\ s[j] = q[old(j)] /\ s[k] = q[old(k)]
  BY <1>1, <1>2
<1> HIDE DEF old
<1> QED
  BY <1>3 DEF Ascending, Descending, s

\* The first process of the ready list has the greatest key, that of the sleepers the least.
LEMMA FirstIsExtreme ==
    ASSUME NEW q \in Seq(Pid), q # <<>>, NEW keys \in [Pid -> Int], NEW p \in Pid, On(q, p)
    PROVE  /\ Ascending(q, keys) => keys[Head(q)] <= keys[p]
           /\ Descending(q, keys) => keys[Head(q)] >= keys[p]
<1>1. /\ Head(q) = q[1] /\ Head(q) \in Pid /\ DOMAIN q = 1 .. Len(q) /\ Len(q) \in Nat
      /\ Len(q) # 0
  BY HeadTailProperties, EmptySeq, LenProperties
<1>2. PICK j \in 1 .. Len(q) : q[j] = p
  BY <1>1 DEF On
<1>3. CASE j = 1
  BY <1>1, <1>2, <1>3
<1>4. CASE j # 1
  <2>1. 1 \in DOMAIN q /\ j \in DOMAIN q /\ 1 < j
    BY <1>1, <1>2, <1>4
  <2> QED
    BY <1>1, <1>2, <2>1 DEF Ascending, Descending
<1> QED
  BY <1>3, <1>4

-----------------------------------------------------------------------------
(* What resched() and ready() do to the order.                              *)

Prioritised(st, keys) == \A p \in Pid : st[p] = "READY" => keys[p] = prprio[p]

\* The ready list stays in order; nobody else's key is touched; and, if keys are
\* priorities, the processor is with the highest.
Settled(st, keys) ==
    /\ Descending(readylist', qkey')
    /\ \A p \in Pid : st[p] \notin Eligible => qkey'[p] = keys[p]
    /\ Prioritised(st, keys) =>
         \A p \in Pid : prstate'[p] = "READY" =>
            qkey'[p] = prprio[p] /\ prprio[p] <= prprio[currpid']

\* resched(), from any caller, with a ready list in order
LEMMA ReschedSliceOrder ==
    ASSUME currpid \in Pid, prprio \in [Pid -> Int],
           NEW st, NEW rl, NEW keys, NEW slice \in 1 .. QUANTUM + 1,
           Handed(st, rl, keys), Descending(rl, keys), ReschedSlice(st, rl, keys, slice)
    PROVE  Settled(st, keys)
<1> DEFINE runs == st[currpid] = "CURR"
           keep == runs /\ (rl # <<>> => prprio[currpid] > keys[Head(rl)])
           queue == IF runs THEN Insert(rl, keys, currpid, prprio[currpid]) ELSE rl
           new == IF runs THEN [keys EXCEPT ![currpid] = prprio[currpid]] ELSE keys
<1>1. /\ rl \in Seq(Pid) /\ keys \in [Pid -> Int] /\ st \in [Pid -> States]
      /\ Unique(rl) /\ \A p \in Pid : On(rl, p) <=> st[p] = "READY"
  BY DEF Handed
<1>2. SchedOK'
  BY ReschedSliceStep
<1>3. \A p \in Pid : prstate'[p] = "READY" <=> On(readylist', p)
  BY <1>2 DEF SchedOK
<1>4. CASE keep /\ prstate' = st /\ readylist' = rl /\ qkey' = keys /\ currpid' = currpid
  <2>1. ASSUME Prioritised(st, keys), NEW p \in Pid, prstate'[p] = "READY"
        PROVE  qkey'[p] = prprio[p] /\ prprio[p] <= prprio[currpid']
    <3>1. On(rl, p) /\ keys[p] = prprio[p]
      BY <1>1, <1>4, <2>1 DEF Prioritised
    <3>2. rl # <<>>
      BY <3>1 DEF On
    <3>3. keys[Head(rl)] >= keys[p] /\ Head(rl) \in Pid
      BY <1>1, <3>1, <3>2, FirstIsExtreme, HeadTailProperties
    <3> QED
      BY <1>1, <1>4, <3>1, <3>2, <3>3
  <2> QED
    BY <1>4, <2>1 DEF Settled
<1>5. CASE /\ currpid' = Head(queue) /\ readylist' = Tail(queue) /\ qkey' = new
  <2>1. /\ queue \in Seq(Pid) /\ queue # <<>> /\ Unique(queue) /\ Descending(queue, new)
        /\ \A p \in Pid : On(queue, p) <=> On(rl, p) \/ (runs /\ p = currpid)
    <3>1. CASE runs
      <4>1. ~On(rl, currpid)
        BY <1>1, <3>1
      <4>2. prprio[currpid] \in Int
        OBVIOUS
      <4> QED
        BY <1>1, <3>1, <4>1, <4>2, InsertQueue, InsertDescending
    <3>2. CASE ~runs
      BY <1>1, <3>2, SomebodyReady
    <3> QED
      BY <3>1, <3>2
  <2>2. new \in [Pid -> Int] /\ \A p \in Pid : new[p] = IF runs /\ p = currpid
                                                         THEN prprio[currpid] ELSE keys[p]
    BY <1>1
  <2> HIDE DEF queue, new
  <2>3. /\ Head(queue) \in Pid /\ On(queue, Head(queue))
        /\ Tail(queue) \in Seq(Pid) /\ \A p \in Pid : On(Tail(queue), p) => On(queue, p)
    BY <2>1, TailQueue
  <2>4. Descending(readylist', qkey')
    BY <1>5, <2>1, TailOrdered
  <2>5. \A p \in Pid : st[p] \notin Eligible => qkey'[p] = keys[p]
    BY <1>5, <2>2 DEF Eligible
  <2>6. ASSUME Prioritised(st, keys), NEW p \in Pid, On(queue, p) PROVE new[p] = prprio[p]
    BY <1>1, <2>1, <2>2, <2>6 DEF Prioritised
  <2>7. ASSUME Prioritised(st, keys), NEW p \in Pid, prstate'[p] = "READY"
        PROVE  qkey'[p] = prprio[p] /\ prprio[p] <= prprio[currpid']
    <3>1. On(queue, p)
      BY <1>5, <1>3, <2>3, <2>7
    <3>2. new[Head(queue)] >= new[p]
      BY <2>1, <2>2, <3>1, FirstIsExtreme
    <3>3. new[p] = prprio[p] /\ new[Head(queue)] = prprio[Head(queue)]
      BY <2>3, <2>6, <2>7, <3>1
    <3> QED
      BY <1>5, <2>2, <2>3, <3>2, <3>3
  <2> QED
    BY <2>4, <2>5, <2>7 DEF Settled
<1> QED
  BY <1>4, <1>5 DEF ReschedSlice

\* resched() with the slice the current process has left
LEMMA ReschedOrder ==
    ASSUME SchedOK, RestOK, NEW st, NEW rl, NEW keys,
           Handed(st, rl, keys), Descending(rl, keys), Resched(st, rl, keys)
    PROVE  Settled(st, keys)
  BY ReschedSliceOrder DEF Resched, SchedOK, RestOK

\* ready(p, RESCHED_YES)
LEMMA ReadyYesOrder ==
    ASSUME SchedOK, RestOK, NEW p \in Pid, prstate[p] \notin Eligible,
           Descending(readylist, qkey), ReadyYes(p)
    PROVE  /\ Descending(readylist', qkey')
           /\ \A r \in Pid : prstate[r] \notin Eligible /\ r # p => qkey'[r] = qkey[r]
           /\ Prioritised(prstate, qkey) =>
                \A r \in Pid : prstate'[r] = "READY" =>
                    qkey'[r] = prprio[r] /\ prprio[r] <= prprio[currpid']
<1> DEFINE st == [prstate EXCEPT ![p] = "READY"]
           rl == Insert(readylist, qkey, p, prprio[p])
           keys == [qkey EXCEPT ![p] = prprio[p]]
<1>1. ~On(readylist, p) /\ prprio[p] \in Int /\ readylist \in Seq(Pid) /\ qkey \in [Pid -> Int]
  BY DEF SchedOK, RestOK, Eligible
<1>2. /\ rl \in Seq(Pid) /\ Unique(rl) /\ Descending(rl, keys)
      /\ \A r \in Pid : On(rl, r) <=> On(readylist, r) \/ r = p
  BY <1>1, InsertQueue, InsertDescending DEF SchedOK
<1>3. st \in [Pid -> States] /\ keys \in [Pid -> Int]
  BY DEF SchedOK, RestOK, States
<1>4. \A r \in Pid : /\ st[r] = IF r = p THEN "READY" ELSE prstate[r]
                     /\ keys[r] = IF r = p THEN prprio[p] ELSE qkey[r]
  BY DEF SchedOK
<1> HIDE DEF rl, keys
<1>5. Handed(st, rl, keys)
  BY <1>2, <1>3, Processes DEF Handed, SchedOK, Eligible
<1>6. Resched(st, rl, keys)
  BY DEF ReadyYes, rl, keys
<1> HIDE DEF st
<1>7. Settled(st, keys)
  BY <1>2, <1>5, <1>6, ReschedOrder
<1>8. Prioritised(prstate, qkey) => Prioritised(st, keys)
  BY <1>4 DEF Prioritised
<1> QED
  BY <1>4, <1>7, <1>8 DEF Settled

\* A user process blocks.
LEMMA BlockOrder ==
    ASSUME SchedOK, RestOK, currpid # NULLPROC,
           NEW s \in States \ Eligible, NEW keys \in [Pid -> Int],
           \A r \in Pid : r # currpid => keys[r] = qkey[r],
           Descending(readylist, qkey),
           Resched([prstate EXCEPT ![currpid] = s], readylist, keys)
    PROVE  /\ Descending(readylist', qkey')
           /\ \A r \in Pid : prstate[r] \notin Eligible \/ r = currpid => qkey'[r] = keys[r]
           /\ Prioritised(prstate, qkey) =>
                \A r \in Pid : prstate'[r] = "READY" =>
                    qkey'[r] = prprio[r] /\ prprio[r] <= prprio[currpid']
<1> DEFINE st == [prstate EXCEPT ![currpid] = s]
<1>1. st \in [Pid -> States]
  BY DEF SchedOK
<1>2. \A r \in Pid : st[r] = IF r = currpid THEN s ELSE prstate[r]
  BY DEF SchedOK
<1> HIDE DEF st
<1>3. Handed(st, readylist, keys)
  BY <1>1, <1>2, Processes DEF Handed, SchedOK, Eligible
<1>4. Descending(readylist, keys)
  <2>1. \A r \in Pid : On(readylist, r) => r # currpid
    BY DEF SchedOK
  <2> QED
    BY <2>1, SameKeys DEF SchedOK
<1>5. Settled(st, keys)
  BY <1>3, <1>4, ReschedOrder DEF st
<1>6. Prioritised(prstate, qkey) => Prioritised(st, keys)
  BY <1>2 DEF Prioritised, Eligible
<1> QED
  BY <1>2, <1>5, <1>6 DEF Settled

\* ready(p, RESCHED_NO), with keys that are those of the ready list
LEMMA ReadyNoOrder ==
    ASSUME SchedOK, RestOK, NEW p \in Pid, prstate[p] \notin Eligible,
           NEW keys \in [Pid -> Int], \A r \in Pid : prstate[r] = "READY" => keys[r] = qkey[r],
           Descending(readylist, qkey), ReadyNo(p, keys)
    PROVE  /\ Descending(readylist', qkey')
           /\ \A r \in Pid : r # p => qkey'[r] = keys[r]
           /\ Prioritised(prstate, qkey) =>
                \A r \in Pid : prstate'[r] = "READY" => qkey'[r] = prprio[r]
<1>1. ~On(readylist, p) /\ prprio[p] \in Int /\ readylist \in Seq(Pid) /\ qkey \in [Pid -> Int]
  BY DEF SchedOK, RestOK, Eligible
<1> DEFINE mid == [qkey EXCEPT ![p] = prprio[p]]
<1>2. /\ readylist' \in Seq(Pid) /\ Descending(readylist', mid)
      /\ \A r \in Pid : On(readylist', r) <=> On(readylist, r) \/ r = p
  BY <1>1, InsertQueue, InsertDescending DEF ReadyNo
<1>3. \A r \in Pid : /\ prstate'[r] = IF r = p THEN "READY" ELSE prstate[r]
                     /\ qkey'[r] = IF r = p THEN prprio[p] ELSE keys[r]
                     /\ mid[r] = IF r = p THEN prprio[p] ELSE qkey[r]
  BY <1>1 DEF ReadyNo, SchedOK
<1>4. mid \in [Pid -> Int] /\ qkey' \in [Pid -> Int]
  BY <1>1 DEF ReadyNo
<1> HIDE DEF mid
<1>5. \A r \in Pid : On(readylist', r) => qkey'[r] = mid[r]
  BY <1>2, <1>3 DEF SchedOK
<1>6. Descending(readylist', qkey')
  BY <1>2, <1>4, <1>5, SameKeys
<1> QED
  BY <1>3, <1>6 DEF Prioritised

-----------------------------------------------------------------------------
(* Where the order of priorities may be out: inside the loops that make     *)
(* processes ready, signaln(), semdelete(), semreset() and wakeup().  Their *)
(* frame is on top of the current process' stack, alone of its kind, with   *)
(* interrupts disabled.                                                     *)

Masked == {"signaln", "semdelete", "semreset", "wakeup"}

\* No process is inside such a loop.
Calm == Nowhere(Masked)

MaskedAlone ==
    \A p \in Pid : ~Without(kstack[p], Masked) =>
        p = currpid /\ Without(Tail(kstack[p]), Masked) /\ ~ie /\ ~halted

\* The current process is in none of the loops then.
LEMMA CalmTop ==
    ASSUME IInv, Calm
    PROVE  \A name \in Masked : ~At(name)
<1>1. kstack[currpid] \in Seq(Frame) /\ Without(kstack[currpid], Masked)
  BY DEF IInv, SchedOK, RestOK, Calm, Nowhere
<1>2. kstack[currpid] # <<>> => Top.at \notin Masked
  BY <1>1, StackTops DEF Top
<1> QED
  BY <1>2 DEF At

\* The same after a step
LEMMA CalmTopAfter ==
    ASSUME IInv', Calm'
    PROVE  ~At("wakeup")'
<1>1. kstack'[currpid'] \in Seq(Frame) /\ Without(kstack'[currpid'], Masked)
  BY DEF IInv, SchedOK, RestOK, Calm, Nowhere
<1>2. kstack'[currpid'] # <<>> => Head(kstack'[currpid']).at \notin Masked
  BY <1>1, StackTops
<1> QED
  BY <1>2 DEF At, Top, Masked

\* With no loop under way there is none out of place.
LEMMA CalmAlone ==
    ASSUME Calm' PROVE MaskedAlone'
  BY DEF Calm, Nowhere, MaskedAlone

\* User processes, ticks and the rest of other calls find no loop under way.
LEMMA OutsideLoops ==
    ASSUME IInv, MaskedAlone, ie \/ (kstack[currpid] # <<>> /\ Top.at \notin Masked)
    PROVE  Calm
<1>1. kstack[currpid] \in Seq(Frame)
  BY DEF IInv, SchedOK, RestOK
<1> SUFFICES ASSUME NEW p \in Pid, ~Without(kstack[p], Masked) PROVE FALSE
  BY DEF Calm, Nowhere
<1>2. p = currpid /\ Without(Tail(kstack[currpid]), Masked) /\ ~ie
  BY DEF MaskedAlone
<1>3. Without(kstack[currpid], Masked)
  BY <1>1, <1>2, StackTops DEF Top
<1> QED
  BY <1>2, <1>3

\* Frames that are not of such a loop
LEMMA CalmFrames ==
    /\ \A at \in {"create", "receive", "recvtime", "preempt"} :
         NewFrame(at, 0, 0) \in Frame /\ NewFrame(at, 0, 0).at \notin Masked
    /\ \A p \in Pid : NewFrame("resume", p, 0) \in Frame
                      /\ NewFrame("resume", p, 0).at \notin Masked
    /\ \A p \in Pid \ {NULLPROC} : NewFrame("kill", p, 0) \in Frame
                                   /\ NewFrame("kill", p, 0).at \notin Masked
    /\ NewFrame("wakeup", 0, 0) \in Frame
    /\ \A at \in {"signaln", "semdelete", "semreset"}, s \in Sem, n \in Nat :
         NewFrame(at, s, n) \in Frame
  BY Frames DEF NewFrame, Masked

\* Calls that return or switch in their step, and those that go on later
Calls1 ==
    \/ \E n \in Prios : Create(n)
    \/ CreateNoStack
    \/ \E p \in Pid : Resume(p) \/ SuspendReady(p) \/ Send(p) \/ Kill(p) \/ KillLast(p)
    \/ \E p \in Pid, n \in ChPrios : Chprio(p, n)
    \/ SuspendSelf \/ Yield \/ TakeMessage \/ ReceiveBlock
    \/ \E d \in MaxWaits : RecvtimeBlock(d)
    \/ \E d \in Delays : Sleepms(d)
    \/ \E n \in Counts : Semcreate(n)
    \/ \E s \in Sem : WaitTake(s) \/ WaitBlock(s) \/ Signal(s)

\* The rest of calls without a loop
Returns ==
    \/ NullCreate \/ NullResume \/ ReceiveReturn \/ RecvtimeReturn
    \/ KillSelf \/ KillOther \/ PreemptCheck

LoopCallStep ==
    \/ \E s \in Sem : Semdelete(s)
    \/ \E s \in Sem, n \in Counts : Signaln(s, n) \/ Semreset(s, n)

Turns == SignalnStep \/ SemdeleteStep \/ SemresetStep \/ WakeupStep
Ends == SignalnEnd \/ SemdeleteEnd \/ SemresetEnd \/ WakeupEnd

\* Every step is of one of these kinds.
LEMMA KindsOfSteps == Next => Calls1 \/ Returns \/ LoopCallStep \/ Turns \/ Ends \/ Tick \/ Halted
  BY DEF Next, KernelStep, SystemCall, Calls1, Returns, LoopCallStep, Turns, Ends

\* Calls start and leave no loop.
LEMMA CallsCalm ==
    ASSUME IInv, MaskedAlone, Calls1
    PROVE  Calm /\ Calm' /\ ie /\ ~halted
<1>1. ASSUME (\E n \in Prios : Create(n)) \/ CreateNoStack
      PROVE  ie /\ ~halted /\ UNCHANGED kstack
  BY <1>1 DEF Create, CreateNoStack, User
<1>2. ASSUME NEW p \in Pid, Resume(p) \/ SuspendReady(p) \/ Send(p) \/ KillLast(p)
      PROVE  ie /\ ~halted /\ UNCHANGED kstack
  BY <1>2 DEF Resume, SuspendReady, Send, KillLast, User
<1>3. ASSUME NEW p \in Pid, NEW n \in ChPrios, Chprio(p, n)
      PROVE  ie /\ ~halted /\ UNCHANGED kstack
  BY <1>3 DEF Chprio, User
<1>4. ASSUME SuspendSelf \/ Yield \/ TakeMessage \/ \E d \in Delays : Sleepms(d)
      PROVE  ie /\ ~halted /\ UNCHANGED kstack
  BY <1>4 DEF SuspendSelf, Yield, TakeMessage, Sleepms, User
<1>5. ASSUME ReceiveBlock \/ \E d \in MaxWaits : RecvtimeBlock(d)
      PROVE  ie /\ ~halted /\ \E f \in Frame : f.at \notin Masked /\ Push(f)
  BY <1>5, CalmFrames DEF ReceiveBlock, RecvtimeBlock, User
<1>6. ASSUME NEW p \in Pid, Kill(p)
      PROVE  ie /\ ~halted /\ \E f \in Frame : f.at \notin Masked /\ Push(f)
  BY <1>6, CalmFrames DEF Kill, User
<1>7. ASSUME \/ \E n \in Counts : Semcreate(n)
             \/ \E s \in Sem : WaitTake(s) \/ WaitBlock(s) \/ Signal(s)
      PROVE  ie /\ ~halted /\ UNCHANGED kstack
  BY <1>7 DEF Semcreate, WaitTake, WaitBlock, Signal, User
<1>8. /\ ie /\ ~halted
      /\ UNCHANGED kstack \/ \E f \in Frame : f.at \notin Masked /\ Push(f)
  BY <1>1, <1>2, <1>3, <1>4, <1>5, <1>6, <1>7 DEF Calls1
<1>9. Calm
  BY <1>8, OutsideLoops
<1> QED
  BY <1>8, <1>9, StacksWithout DEF Calm, IInv

\* So do the rest of calls and the slice check.
LEMMA ReturnsCalm ==
    ASSUME IInv, MaskedAlone, Returns
    PROVE  Calm /\ Calm'
<1>1. kstack[currpid] # <<>> /\ Top.at \notin Masked
  BY DEF Returns, NullCreate, NullResume, ReceiveReturn, RecvtimeReturn, KillSelf, KillOther,
         PreemptCheck, At, Masked
<1>2. Calm
  BY <1>1, OutsideLoops
<1>3. CASE NullCreate
  <2>1. NewPid(nextpid) \in Pid
    BY <1>3, NewPidFree DEF NullCreate, IInv, RestOK
  <2>2. \E f \in Frame : f.at \notin Masked /\ Replace(f)
    BY <1>3, <2>1, CalmFrames DEF NullCreate
  <2> QED
    BY <1>1, <1>2, <2>2, StacksWithout DEF Calm, IInv
<1>4. CASE NullResume \/ ReceiveReturn \/ RecvtimeReturn \/ PreemptCheck
  <2>1. Pop
    BY <1>4 DEF NullResume, ReceiveReturn, RecvtimeReturn, PreemptCheck
  <2> QED
    BY <1>1, <1>2, <2>1, StacksWithout DEF Calm, IInv
<1>5. /\ kstack \in [Pid -> Seq(Frame)] /\ currpid \in Pid
      /\ \A p \in Pid : Without(kstack[p], Masked)
      /\ Without(<<>>, Masked) /\ Without(Tail(kstack[currpid]), Masked)
  BY <1>1, <1>2, StackTops DEF IInv, SchedOK, RestOK, Calm, Nowhere
<1>6. CASE KillSelf
  <2>1. kstack' = [kstack EXCEPT ![currpid] = <<>>]
    BY <1>6 DEF KillSelf
  <2> QED
    BY <1>2, <1>5, <2>1 DEF Calm, Nowhere
<1>7. CASE KillOther
  <2>1. \A p \in Pid : kstack'[p] \in {<<>>, kstack[p], Tail(kstack[currpid])}
    <3>1. Top.arg \in Pid /\ Top.arg # currpid
      BY <1>1, <1>7, Stacks, Frames DEF KillOther, At, IInv
    <3>2. kstack' = [kstack EXCEPT ![Top.arg] = <<>>, ![currpid] = Tail(kstack[currpid])]
      BY <1>7, <3>1 DEF KillOther
    <3> QED
      BY <1>5, <3>1, <3>2
  <2> QED
    BY <1>2, <1>5, <2>1 DEF Calm, Nowhere
<1> QED
  BY <1>2, <1>3, <1>4, <1>6, <1>7 DEF Returns

\* A frame that comes on a calm stack, or takes the place of a loop's
LEMMA FrameAlone ==
    ASSUME IInv, NEW f \in Frame, NEW below \in Seq(Frame), Without(below, Masked),
           \A p \in Pid \ {currpid} : Without(kstack[p], Masked),
           kstack' = [kstack EXCEPT ![currpid] = <<f>> \o below],
           UNCHANGED <<currpid, halted>>, ~halted, ~ie'
    PROVE  /\ MaskedAlone' /\ (f.at \in Masked => ~Calm')
           /\ At("wakeup")' <=> f.at = "wakeup"
<1> DEFINE s == <<f>> \o below
<1>1. currpid \in Pid /\ kstack \in [Pid -> Seq(Frame)]
  BY DEF IInv, SchedOK, RestOK
<1>2. s \in Seq(Frame) /\ s # <<>> /\ Head(s) = f /\ Tail(s) = below
  BY StackTops
<1>3. \A p \in Pid : kstack'[p] = IF p = currpid THEN s ELSE kstack[p]
  BY <1>1
<1> HIDE DEF s
<1>4. MaskedAlone'
  BY <1>1, <1>2, <1>3 DEF MaskedAlone
<1>5. kstack'[currpid'] = s
  BY <1>1, <1>3
<1>6. f.at \in Masked => ~Without(s, Masked)
  BY <1>2, StackTops
<1>7. f.at \in Masked => ~Calm'
  BY <1>1, <1>3, <1>6 DEF Calm, Nowhere
<1>8. At("wakeup")' <=> f.at = "wakeup"
  BY <1>2, <1>5 DEF At, Top
<1> QED
  BY <1>4, <1>7, <1>8

\* The calls of loops
LEMMA LoopCallsMask ==
    ASSUME IInv, MaskedAlone, LoopCallStep
    PROVE  /\ Calm /\ MaskedAlone' /\ ~At("wakeup")'
           /\ UNCHANGED <<schedVars, idVars, sleepq>>
<1>1. PICK call \in {"signaln", "semdelete", "semreset"}, s \in Sem, n \in Nat :
        LoopCall(call, s, n)
  BY ArgumentAssumption DEF LoopCallStep, Semdelete, Signaln, Semreset
<1>2. /\ ie /\ ~halted /\ ~ie' /\ UNCHANGED <<schedVars, idVars, sleepq>>
      /\ Push(NewFrame(call, s, n))
  BY <1>1 DEF LoopCall, User
<1>3. Calm
  BY <1>2, OutsideLoops
<1> DEFINE f == NewFrame(call, s, n)
<1>4. f \in Frame /\ f.at # "wakeup"
  BY CalmFrames DEF NewFrame
<1>5. /\ kstack[currpid] \in Seq(Frame)
      /\ \A p \in Pid : Without(kstack[p], Masked)
      /\ Without(kstack[currpid], Masked)
  BY <1>3 DEF IInv, SchedOK, RestOK, Calm, Nowhere
<1>6. kstack' = [kstack EXCEPT ![currpid] = <<f>> \o kstack[currpid]]
  BY <1>2 DEF Push
<1> HIDE DEF f
<1>7. UNCHANGED <<currpid, halted>>
  BY <1>2 DEF schedVars, idVars
<1>8. MaskedAlone' /\ ~At("wakeup")'
  BY <1>2, <1>4, <1>5, <1>6, <1>7, FrameAlone
<1> QED
  BY <1>2, <1>3, <1>8

\* A tick
LEMMA TickMasks ==
    ASSUME IInv, MaskedAlone, Tick
    PROVE  /\ Calm /\ MaskedAlone'
           /\ At("wakeup")' <=> sleepq # <<>> /\ qkey'[Head(sleepq)] <= 0
<1> DEFINE due == sleepq # <<>> /\ qkey'[Head(sleepq)] <= 0
           f == NewFrame(IF due THEN "wakeup" ELSE "preempt", 0, 0)
<1>1. ie /\ ~halted /\ ~ie' /\ UNCHANGED <<currpid, halted>> /\ Push(f)
  BY DEF Tick, idVars
<1>2. Calm
  BY <1>1, OutsideLoops
<1>3. f \in Frame /\ (f.at = "wakeup" <=> due)
  BY CalmFrames DEF NewFrame
<1> HIDE DEF f, due
<1>4. /\ kstack[currpid] \in Seq(Frame)
      /\ \A p \in Pid : Without(kstack[p], Masked)
      /\ Without(kstack[currpid], Masked)
  BY <1>2 DEF IInv, SchedOK, RestOK, Calm, Nowhere
<1>5. kstack' = [kstack EXCEPT ![currpid] = <<f>> \o kstack[currpid]]
  BY <1>1 DEF Push
<1>6. MaskedAlone' /\ (At("wakeup")' <=> f.at = "wakeup")
  BY <1>1, <1>3, <1>4, <1>5, FrameAlone
<1> QED
  BY <1>2, <1>3, <1>6 DEF due

\* What a loop under way finds
LEMMA InsideLoop ==
    ASSUME IInv, MaskedAlone, NEW name \in Masked, At(name)
    PROVE  /\ kstack[currpid] # <<>> /\ ~ie /\ ~halted /\ ~Calm
           /\ Tail(kstack[currpid]) \in Seq(Frame) /\ Without(Tail(kstack[currpid]), Masked)
           /\ \A p \in Pid \ {currpid} : Without(kstack[p], Masked)
<1>1. currpid \in Pid /\ kstack \in [Pid -> Seq(Frame)]
  BY DEF IInv, SchedOK, RestOK
<1>2. kstack[currpid] # <<>> /\ Top.at \in Masked /\ ~halted
  BY DEF At
<1>3. ~Without(kstack[currpid], Masked) /\ Tail(kstack[currpid]) \in Seq(Frame)
  BY <1>1, <1>2, StackTops DEF Top
<1> QED
  BY <1>1, <1>2, <1>3 DEF MaskedAlone, Calm, Nowhere

\* Turns go on with the loop.
LEMMA TurnsMask ==
    ASSUME IInv, MaskedAlone, Turns
    PROVE  /\ MaskedAlone' /\ ~Calm'
           /\ At("wakeup")' <=> At("wakeup")
<1>1. CASE SignalnStep
  <2>1. /\ At("signaln") /\ Top.arg \in Sem /\ Top.cnt - 1 \in Nat
    BY <1>1, Stacks, Frames DEF SignalnStep, At, IInv
  <2> DEFINE f == NewFrame("signaln", Top.arg, Top.cnt - 1)
  <2>2. f \in Frame /\ f.at = "signaln"
    BY <2>1, CalmFrames DEF NewFrame
  <2>3. kstack' = [kstack EXCEPT ![currpid] = <<f>> \o Tail(kstack[currpid])] /\ UNCHANGED <<ie, halted>>
    BY <1>1 DEF SignalnStep, Replace, idVars
  <2>4. UNCHANGED currpid
    BY <1>1 DEF SignalnStep, ReadyNo, schedVars
  <2> HIDE DEF f
  <2>5. MaskedAlone' /\ ~Calm' /\ ~At("wakeup")'
    BY <2>1, <2>2, <2>3, <2>4, InsideLoop, FrameAlone DEF Masked
  <2> QED
    BY <2>1, <2>5 DEF At
<1>2. CASE SemdeleteStep \/ SemresetStep \/ WakeupStep
  <2>1. UNCHANGED <<kstack, ie, halted>>
    BY <1>2 DEF SemdeleteStep, SemresetStep, WakeupStep, idVars
  <2>2. UNCHANGED currpid
    BY <1>2 DEF SemdeleteStep, SemresetStep, WakeupStep, ReadyNo, schedVars
  <2>3. MaskedAlone' /\ (At("wakeup")' <=> At("wakeup"))
    BY <2>1, <2>2 DEF MaskedAlone, At, Top
  <2>4. ~Calm
    BY <1>2, InsideLoop DEF SemdeleteStep, SemresetStep, WakeupStep, Masked
  <2> QED
    BY <2>1, <2>3, <2>4 DEF Calm, Nowhere
<1> QED
  BY <1>1, <1>2 DEF Turns

\* And their ends leave none.
LEMMA EndsCalm ==
    ASSUME IInv, MaskedAlone, Ends
    PROVE  Calm'
<1>1. \E name \in Masked : At(name)
  BY DEF Ends, SignalnEnd, SemdeleteEnd, SemresetEnd, WakeupEnd, Masked
<1>2. /\ kstack[currpid] # <<>> /\ currpid \in Pid /\ kstack \in [Pid -> Seq(Frame)]
      /\ Tail(kstack[currpid]) \in Seq(Frame) /\ Without(Tail(kstack[currpid]), Masked)
      /\ \A p \in Pid \ {currpid} : Without(kstack[p], Masked)
  BY <1>1, InsideLoop DEF IInv, SchedOK, RestOK
<1>3. CASE SignalnEnd \/ SemdeleteEnd \/ SemresetEnd
  <2>1. kstack' = [kstack EXCEPT ![currpid] = Tail(kstack[currpid])]
    BY <1>3 DEF SignalnEnd, SemdeleteEnd, SemresetEnd, LoopEnd, Pop
  <2> QED
    BY <1>2, <2>1 DEF Calm, Nowhere
<1>4. CASE WakeupEnd
  <2> DEFINE f == NewFrame("preempt", 0, 0)
             s == <<f>> \o Tail(kstack[currpid])
  <2>1. kstack' = [kstack EXCEPT ![currpid] = s]
    BY <1>4 DEF WakeupEnd, Replace
  <2>2. f \in Frame /\ f.at \notin Masked
    BY CalmFrames
  <2> HIDE DEF f
  <2>3. s \in Seq(Frame) /\ s # <<>> /\ Head(s) = f /\ Tail(s) = Tail(kstack[currpid])
    BY <1>2, <2>2, StackTops
  <2> HIDE DEF s
  <2>4. Without(s, Masked)
    BY <1>2, <2>2, <2>3, StackTops
  <2> QED
    BY <1>2, <2>1, <2>4 DEF Calm, Nowhere
<1> QED
  BY <1>3, <1>4 DEF Ends

-----------------------------------------------------------------------------
(* The queues are in order in every state.  Keys are priorities only while  *)
(* nobody calls chprio(), and then the highest priority runs outside loops. *)

NoChprio == "chprio" \notin Calls

CurrentHighest == \A p \in Pid : prstate[p] = "READY" => prprio[p] <= prprio[currpid]

OrderOK ==
    /\ Descending(readylist, qkey)
    /\ Ascending(sleepq, qkey)
    /\ NoChprio => Prioritised(prstate, qkey) /\ (Calm => CurrentHighest)

\* Nobody goes to sleep, at most one sleeper is taken off, and nobody's waking moves.
SleepersUntouched ==
    /\ \/ UNCHANGED sleepq
       \/ \E p \in Pid : On(sleepq, p) /\ sleepq' = GetItem(sleepq, p)
    /\ \A p \in Pid : On(sleepq', p) => qkey'[p] = qkey[p]

Orderly == OrderOK' /\ SleepersUntouched

\* What the first invariant says of the queues
LEMMA QueueTypes ==
    ASSUME IInv
    PROVE  /\ readylist \in Seq(Pid) /\ sleepq \in Seq(Pid) /\ qkey \in [Pid -> Int]
           /\ Unique(sleepq) /\ currpid \in Pid /\ prprio \in [Pid -> Int]
           /\ \A p \in Pid : On(readylist, p) <=> prstate[p] = "READY"
           /\ \A p \in Pid : On(sleepq, p) <=> prstate[p] \in {"SLEEP", "RECTIM"}
           /\ \A p \in Pid : On(sleepq, p) => prstate[p] \notin Eligible
           /\ prstate[currpid] = "CURR"
  BY DEF IInv, SchedOK, SleepOK, RestOK, Eligible

\* The sleepers that stay are in order as they were.
LEMMA SleepersAscending ==
    ASSUME IInv, IInv', Ascending(sleepq, qkey), SleepersUntouched
    PROVE  Ascending(sleepq', qkey')
<1>1. Ascending(sleepq', qkey)
  BY QueueTypes, GetItemOrdered DEF SleepersUntouched
<1>2. qkey \in [Pid -> Int] /\ qkey' \in [Pid -> Int] /\ sleepq' \in Seq(Pid)
  BY DEF IInv, SchedOK, SleepOK
<1> QED
  BY <1>1, <1>2, SameKeys DEF SleepersUntouched

\* A step that makes nobody ready and leaves the processor where it is
LEMMA QuietOrder ==
    ASSUME IInv, IInv', OrderOK, Calm, UNCHANGED <<qkey, currpid>>,
           \/ UNCHANGED readylist
           \/ \E p \in Pid : On(readylist, p) /\ readylist' = GetItem(readylist, p),
           \/ UNCHANGED sleepq
           \/ \E p \in Pid : On(sleepq, p) /\ sleepq' = GetItem(sleepq, p),
           \A p \in Pid : prstate'[p] = "READY" => prstate[p] = "READY",
           NoChprio => \A p \in Pid : prstate[p] \in Eligible => prprio'[p] = prprio[p]
    PROVE  Orderly
<1>1. SleepersUntouched
  BY DEF SleepersUntouched
<1>2. Ascending(sleepq', qkey')
  BY <1>1, SleepersAscending DEF OrderOK
<1>3. Descending(readylist', qkey')
  BY QueueTypes, GetItemOrdered DEF OrderOK
<1>4. ASSUME NoChprio PROVE Prioritised(prstate, qkey)' /\ CurrentHighest'
  BY <1>4, QueueTypes DEF OrderOK, Prioritised, CurrentHighest, Eligible
<1> QED
  BY <1>1, <1>2, <1>3, <1>4 DEF Orderly, OrderOK

\* A step that ends in a reschedule
LEMMA RunsOrder ==
    ASSUME IInv, IInv', OrderOK, UNCHANGED prprio, Descending(readylist', qkey'),
           Prioritised(prstate, qkey) =>
             \A r \in Pid : prstate'[r] = "READY" =>
                qkey'[r] = prprio[r] /\ prprio[r] <= prprio[currpid'],
           SleepersUntouched
    PROVE  Orderly
<1>1. Ascending(sleepq', qkey')
  BY SleepersAscending DEF OrderOK
<1>2. ASSUME NoChprio PROVE Prioritised(prstate, qkey)' /\ CurrentHighest'
  BY <1>2 DEF OrderOK, Prioritised, CurrentHighest
<1> QED
  BY <1>1, <1>2 DEF Orderly, OrderOK

\* A turn of a loop that makes a process ready
LEMMA TurnOrder ==
    ASSUME IInv, IInv', OrderOK, UNCHANGED prprio, ~Calm', Descending(readylist', qkey'),
           Prioritised(prstate, qkey) =>
             \A r \in Pid : prstate'[r] = "READY" => qkey'[r] = prprio[r],
           SleepersUntouched
    PROVE  Orderly
<1>1. Ascending(sleepq', qkey')
  BY SleepersAscending DEF OrderOK
<1>2. ASSUME NoChprio PROVE Prioritised(prstate, qkey)'
  BY <1>2 DEF OrderOK, Prioritised
<1> QED
  BY <1>1, <1>2 DEF Orderly, OrderOK

-----------------------------------------------------------------------------
(* What calls and returns are made of.                                      *)

\* ready(p, RESCHED_YES) of a process that is taken off the sleep queue if it is there
LEMMA ReadyYesOrderly ==
    ASSUME IInv, IInv', OrderOK, UNCHANGED prprio, NEW p \in Pid,
           prstate[p] \notin Eligible, ReadyYes(p),
           IF On(sleepq, p) THEN sleepq' = GetItem(sleepq, p) ELSE UNCHANGED sleepq
    PROVE  Orderly
<1>1. /\ Descending(readylist', qkey')
      /\ \A r \in Pid : prstate[r] \notin Eligible /\ r # p => qkey'[r] = qkey[r]
      /\ Prioritised(prstate, qkey) =>
           \A r \in Pid : prstate'[r] = "READY" =>
               qkey'[r] = prprio[r] /\ prprio[r] <= prprio[currpid']
  BY ReadyYesOrder DEF IInv, OrderOK
<1>2. \A r \in Pid : On(sleepq', r) => On(sleepq, r) /\ r # p
  BY QueueTypes, GetItemQueue
<1>3. SleepersUntouched
  BY <1>1, <1>2, QueueTypes DEF SleepersUntouched
<1> QED
  BY <1>1, <1>3, RunsOrder

\* A user process blocks, but not to sleep.
LEMMA BlockOrderly ==
    ASSUME IInv, IInv', OrderOK, UNCHANGED <<prprio, sleepq>>, currpid # NULLPROC,
           NEW s \in States \ Eligible, Block(s)
    PROVE  Orderly
<1>1. /\ Descending(readylist', qkey')
      /\ \A r \in Pid : prstate[r] \notin Eligible \/ r = currpid => qkey'[r] = qkey[r]
      /\ Prioritised(prstate, qkey) =>
           \A r \in Pid : prstate'[r] = "READY" =>
               qkey'[r] = prprio[r] /\ prprio[r] <= prprio[currpid']
  BY QueueTypes, BlockOrder DEF Block, IInv, OrderOK
<1>2. SleepersUntouched
  BY <1>1, QueueTypes DEF SleepersUntouched
<1> QED
  BY <1>1, <1>2, RunsOrder

\* resched() with everything as it is
LEMMA ReschedOrderly ==
    ASSUME IInv, IInv', OrderOK, UNCHANGED <<prprio, sleepq>>,
           NEW slice \in 1 .. QUANTUM + 1, ReschedSlice(prstate, readylist, qkey, slice)
    PROVE  Orderly
<1>1. Settled(prstate, qkey)
  BY HandedAsIs, QueueTypes, ReschedSliceOrder DEF IInv, OrderOK
<1>2. SleepersUntouched
  BY <1>1, QueueTypes DEF SleepersUntouched, Settled
<1> QED
  BY <1>1, <1>2, RunsOrder DEF Settled

\* send()
LEMMA SendToOrderly ==
    ASSUME IInv, IInv', OrderOK, Calm, UNCHANGED prprio, NEW pid \in Pid, SendTo(pid)
    PROVE  Orderly
<1>1. CASE prstate[pid] = "FREE" \/ prhasmsg[pid]
  <2>1. UNCHANGED <<schedVars, sleepq>>
    BY <1>1 DEF SendTo
  <2> QED
    BY <2>1, QuietOrder DEF schedVars
<1>2. CASE ~(prstate[pid] = "FREE" \/ prhasmsg[pid]) /\ prstate[pid] \in {"RECV", "RECTIM"}
  <2>1. ReadyYes(pid) /\ sleepq' = IF prstate[pid] = "RECTIM" THEN GetItem(sleepq, pid)
                                                              ELSE sleepq
    BY <1>2 DEF SendTo
  <2>2. IF On(sleepq, pid) THEN sleepq' = GetItem(sleepq, pid) ELSE UNCHANGED sleepq
    BY <1>2, <2>1, QueueTypes
  <2> QED
    BY <1>2, <2>1, <2>2, ReadyYesOrderly DEF Eligible
<1>3. CASE ~(prstate[pid] = "FREE" \/ prhasmsg[pid]) /\ prstate[pid] \notin {"RECV", "RECTIM"}
  <2>1. UNCHANGED <<schedVars, sleepq>>
    BY <1>3 DEF SendTo
  <2> QED
    BY <2>1, QuietOrder DEF schedVars
<1> QED
  BY <1>1, <1>2, <1>3

-----------------------------------------------------------------------------
(* Every step keeps the order.                                              *)

\* create(), in which only the entry of a free slot changes
LEMMA CreateOrder ==
    ASSUME IInv, IInv', OrderOK, Calm, FreeFrom(nextpid) # {}, NEW priority \in Int,
           MakeProcess(NewPid(nextpid), priority), UNCHANGED <<qkey, readylist, sleepq, currpid>>
    PROVE  Orderly
<1> DEFINE pid == NewPid(nextpid)
<1>1. pid \in Pid /\ prstate[pid] = "FREE"
  BY NewPidFree DEF IInv, RestOK
<1> HIDE DEF pid
<1>2. /\ prstate' = [prstate EXCEPT ![pid] = "SUSP"]
      /\ prprio' = [prprio EXCEPT ![pid] = priority]
  BY DEF MakeProcess, pid
<1>3. \A p \in Pid : prstate'[p] = "READY" => prstate[p] = "READY"
  BY <1>1, <1>2 DEF IInv, SchedOK
<1>4. \A p \in Pid : prstate[p] \in Eligible => prprio'[p] = prprio[p]
  BY <1>1, <1>2, QueueTypes DEF Eligible
<1> QED
  BY <1>3, <1>4, QuietOrder

\* Steps that leave processes, queues and priorities as they are
LEMMA NothingMoves ==
    ASSUME IInv, IInv', OrderOK, Calm, UNCHANGED <<schedVars, sleepq, prprio>>
    PROVE  Orderly
  BY QuietOrder DEF schedVars

\* Calls, but those that go to sleep
LEMMA CallsOrder ==
    ASSUME IInv, IInv', MaskedAlone, OrderOK, Calls1
    PROVE  Orderly \/ (\E d \in MaxWaits : RecvtimeBlock(d)) \/ (\E d \in Delays : Sleepms(d))
<1>0. Calm
  BY CallsCalm
<1>1. ASSUME NEW n \in Prios, Create(n) PROVE Orderly
  BY <1>0, <1>1, CreateOrder, ArgumentAssumption DEF Create
<1>2. CASE \/ CreateNoStack \/ TakeMessage
           \/ \E p \in Pid : KillLast(p)
           \/ \E n \in Counts : Semcreate(n)
           \/ \E s \in Sem : WaitTake(s)
  <2>1. UNCHANGED <<schedVars, sleepq, prprio>>
    BY <1>2 DEF CreateNoStack, TakeMessage, KillLast, Semcreate, WaitTake, idVars
  <2> QED
    BY <1>0, <2>1, NothingMoves
<1>3. ASSUME NEW p \in Pid, Resume(p) PROVE Orderly
  <2>1. ReadyYes(p) /\ prstate[p] = "SUSP" /\ UNCHANGED <<prprio, sleepq>>
    BY <1>3 DEF Resume, idVars
  <2>2. ~On(sleepq, p)
    BY <2>1, QueueTypes
  <2> QED
    BY <2>1, <2>2, ReadyYesOrderly DEF Eligible
<1>4. ASSUME NEW p \in Pid, SuspendReady(p) PROVE Orderly
  <2>1. /\ On(readylist, p) /\ readylist' = GetItem(readylist, p)
        /\ prstate' = [prstate EXCEPT ![p] = "SUSP"]
        /\ UNCHANGED <<qkey, currpid, sleepq, prprio>>
    BY <1>4, QueueTypes DEF SuspendReady, idVars
  <2>2. \A r \in Pid : prstate'[r] = "READY" => prstate[r] = "READY"
    BY <2>1 DEF IInv, SchedOK
  <2> QED
    BY <1>0, <2>1, <2>2, QuietOrder
<1>5. ASSUME NEW p \in Pid, Send(p) PROVE Orderly
  BY <1>0, <1>5, SendToOrderly DEF Send, idVars
<1>6. ASSUME NEW p \in Pid, Kill(p) PROVE Orderly
  <2>1. prparent[p] \in Pid
    BY DEF IInv, RestOK
  <2> QED
    BY <1>0, <1>6, <2>1, SendToOrderly DEF Kill
<1>7. ASSUME NEW p \in Pid, NEW n \in ChPrios, Chprio(p, n) PROVE Orderly
  <2>1. UNCHANGED <<schedVars, sleepq>> /\ ~NoChprio
    BY <1>7 DEF Chprio, User, NoChprio
  <2> QED
    BY <1>0, <2>1, QuietOrder DEF schedVars
<1>8. CASE SuspendSelf \/ ReceiveBlock \/ \E s \in Sem : WaitBlock(s)
  <2>1. /\ \E s \in States \ Eligible : Block(s)
        /\ currpid # NULLPROC /\ UNCHANGED <<prprio, sleepq>>
    BY <1>8 DEF SuspendSelf, ReceiveBlock, WaitBlock, User, idVars, States, Eligible
  <2> QED
    BY <2>1, BlockOrderly
<1>9. CASE Yield
  <2>1. ReschedSlice(prstate, readylist, qkey, preempt) /\ UNCHANGED <<prprio, sleepq>>
    BY <1>9 DEF Yield, Resched, idVars
  <2> QED
    BY <2>1, ReschedOrderly DEF IInv, SchedOK
<1>10. ASSUME NEW s \in Sem, Signal(s) PROVE Orderly
  <2>1. UNCHANGED <<prprio, sleepq>>
    BY <1>10 DEF Signal, idVars
  <2>2. CASE Releases(s)
    <3>1. ReadyYes(Head(squeue[s])) /\ squeue[s] # <<>>
      BY <1>10, <2>2 DEF Signal, Releases
    <3>2. /\ Head(squeue[s]) \in Pid /\ prstate[Head(squeue[s])] \notin Eligible
          /\ prstate[Head(squeue[s])] = "WAIT"
      BY <3>1, FirstWaits, TailQueue DEF IInv, SemOK
    <3>3. ~On(sleepq, Head(squeue[s]))
      BY <3>2, QueueTypes
    <3> QED
      BY <2>1, <3>1, <3>2, <3>3, ReadyYesOrderly
  <2>3. CASE ~Releases(s)
    BY <1>0, <1>10, <2>1, <2>3, NothingMoves DEF Signal
  <2> QED
    BY <2>2, <2>3
<1> QED
  BY <1>1, <1>2, <1>3, <1>4, <1>5, <1>6, <1>7, <1>8, <1>9, <1>10 DEF Calls1

\* The rest of calls, and the slice check
LEMMA ReturnsOrder ==
    ASSUME IInv, IInv', MaskedAlone, OrderOK, Returns
    PROVE  Orderly
<1>0. Calm
  BY ReturnsCalm
<1>1. CASE NullCreate
  <2>1. INITPRIO \in Int
    BY ArgumentAssumption
  <2> QED
    BY <1>0, <1>1, <2>1, CreateOrder DEF NullCreate
<1>2. CASE NullResume
  <2>1. /\ ReadyYes(Top.arg) /\ prstate[Top.arg] = "SUSP" /\ UNCHANGED <<prprio, sleepq>>
        /\ Top.arg \in Pid
    BY <1>2, Stacks, Frames DEF NullResume, At, IInv, idVars
  <2>2. ~On(sleepq, Top.arg)
    BY <2>1, QueueTypes
  <2> QED
    BY <2>1, <2>2, ReadyYesOrderly DEF Eligible
<1>3. CASE ReceiveReturn \/ RecvtimeReturn
  <2>1. UNCHANGED <<schedVars, sleepq, prprio>>
    BY <1>3 DEF ReceiveReturn, RecvtimeReturn, idVars
  <2> QED
    BY <1>0, <2>1, NothingMoves
<1>4. CASE KillSelf
  <2>1. currpid # NULLPROC
    BY <1>4, Stacks, Frames DEF KillSelf, At, IInv
  <2>2. "FREE" \in States \ Eligible
    BY DEF States, Eligible
  <2>3. Block("FREE") /\ UNCHANGED <<prprio, sleepq>>
    BY <1>4 DEF KillSelf, idVars
  <2> QED
    BY <2>1, <2>2, <2>3, BlockOrderly
<1>5. CASE KillOther
  <2> DEFINE pid == Top.arg
  <2>1. pid \in Pid
    BY <1>5, Stacks, Frames DEF KillOther, At, IInv
  <2>2. /\ sleepq' = IF prstate[pid] \in {"SLEEP", "RECTIM"}
                     THEN GetItem(sleepq, pid) ELSE sleepq
        /\ readylist' = IF prstate[pid] = "READY" THEN GetItem(readylist, pid)
                                                  ELSE readylist
        /\ prstate' = [prstate EXCEPT ![pid] = "FREE"]
        /\ UNCHANGED <<qkey, currpid, prprio>>
    BY <1>5, Zenon DEF KillOther, idVars
  <2> HIDE DEF pid
  <2>3. \A r \in Pid : prstate'[r] = "READY" => prstate[r] = "READY"
    BY <2>1, <2>2 DEF IInv, SchedOK
  <2>4. UNCHANGED sleepq \/ (On(sleepq, pid) /\ sleepq' = GetItem(sleepq, pid))
    BY <2>1, <2>2, QueueTypes
  <2>5. UNCHANGED readylist \/ (On(readylist, pid) /\ readylist' = GetItem(readylist, pid))
    BY <2>1, <2>2, QueueTypes
  <2> QED
    BY <1>0, <2>1, <2>2, <2>3, <2>4, <2>5, QuietOrder
<1>6. CASE PreemptCheck
  <2>1. CASE preempt - 1 <= 0
    <3>1. ReschedSlice(prstate, readylist, qkey, QUANTUM) /\ UNCHANGED <<prprio, sleepq>>
      BY <1>6, <2>1 DEF PreemptCheck, idVars
    <3>2. QUANTUM \in 1 .. QUANTUM + 1
      BY SizeAssumption
    <3> QED
      BY <3>1, <3>2, ReschedOrderly
  <2>2. CASE ~(preempt - 1 <= 0)
    <3>1. UNCHANGED <<prstate, qkey, readylist, currpid, prprio, sleepq>>
      BY <1>6, <2>2 DEF PreemptCheck, idVars
    <3> QED
      BY <1>0, <3>1, QuietOrder
  <2> QED
    BY <2>1, <2>2
<1> QED
  BY <1>1, <1>2, <1>3, <1>4, <1>5, <1>6 DEF Returns

\* The loops of signaln(), semdelete() and semreset(), their calls and their ends
LEMMA LoopsOrder ==
    ASSUME IInv, IInv', MaskedAlone, OrderOK,
           LoopCallStep \/ SignalnStep \/ SemdeleteStep \/ SemresetStep \/ Ends
    PROVE  Orderly
<1>1. CASE LoopCallStep
  BY <1>1, LoopCallsMask, NothingMoves DEF idVars
<1>2. CASE Ends
  <2>1. Resched(prstate, readylist, qkey) /\ UNCHANGED <<prprio, sleepq>>
    BY <1>2 DEF Ends, SignalnEnd, SemdeleteEnd, SemresetEnd, WakeupEnd, LoopEnd, idVars
  <2> QED
    BY <2>1, ReschedOrderly DEF Resched, IInv, SchedOK
<1>3. CASE SignalnStep \/ SemdeleteStep \/ SemresetStep
  <2>1. PICK s \in Sem :
          /\ \/ squeue[s] # <<>> /\ ReadyNo(Head(squeue[s]), qkey)
             \/ UNCHANGED schedVars
          /\ UNCHANGED <<prprio, sleepq>>
    <3>1. Top.arg \in Sem
      BY <1>3, Stacks, Frames DEF SignalnStep, SemdeleteStep, SemresetStep, At, IInv
    <3>2. /\ \/ squeue[Top.arg] # <<>> /\ ReadyNo(Head(squeue[Top.arg]), qkey)
             \/ UNCHANGED schedVars
          /\ UNCHANGED <<prprio, sleepq>>
      BY <1>3 DEF SignalnStep, SemdeleteStep, SemresetStep, Releases, idVars
    <3> QED
      BY <3>1, <3>2
  <2>2. ~Calm'
    BY <1>3, TurnsMask DEF Turns
  <2>3. CASE squeue[s] # <<>> /\ ReadyNo(Head(squeue[s]), qkey)
    <3> DEFINE first == Head(squeue[s])
    <3>1. first \in Pid /\ prstate[first] \notin Eligible /\ prstate[first] = "WAIT"
      BY <2>3, FirstWaits, TailQueue DEF IInv, SemOK
    <3>2. ReadyNo(first, qkey)
      BY <2>3
    <3> HIDE DEF first
    <3>3. /\ Descending(readylist', qkey')
          /\ \A r \in Pid : r # first => qkey'[r] = qkey[r]
          /\ Prioritised(prstate, qkey) =>
               \A r \in Pid : prstate'[r] = "READY" => qkey'[r] = prprio[r]
      BY <3>1, <3>2, QueueTypes, ReadyNoOrder DEF IInv, OrderOK
    <3>4. SleepersUntouched
      BY <2>1, <3>1, <3>3, QueueTypes DEF SleepersUntouched
    <3> QED
      BY <2>1, <2>2, <3>3, <3>4, TurnOrder
  <2>4. CASE UNCHANGED schedVars
    <3>1. SleepersUntouched
      BY <2>1, <2>4 DEF SleepersUntouched, schedVars
    <3>2. Descending(readylist', qkey')
      BY <2>4 DEF OrderOK, schedVars
    <3>3. Prioritised(prstate, qkey) =>
            \A r \in Pid : prstate'[r] = "READY" => qkey'[r] = prprio[r]
      BY <2>4 DEF Prioritised, schedVars
    <3> QED
      BY <2>1, <2>2, <3>1, <3>2, <3>3, TurnOrder
  <2> QED
    BY <2>1, <2>3, <2>4
<1> QED
  BY <1>1, <1>2, <1>3

-----------------------------------------------------------------------------
(* The steps that move sleepers: going to sleep, the tick and wakeup().     *)

\* sleepms() and recvtime()
LEMMA SleepInOrder ==
    ASSUME IInv, IInv', OrderOK, UNCHANGED prprio, currpid # NULLPROC,
           NEW state \in {"SLEEP", "RECTIM"}, NEW delay \in Int, SleepIn(state, delay)
    PROVE  /\ OrderOK' /\ ~On(sleepq, currpid)
           /\ sleepq' = Insertd(sleepq, qkey, currpid, delay)
           /\ \A p \in Pid : On(sleepq', p) =>
                /\ On(sleepq, p) \/ p = currpid
                /\ qkey'[p] = IF p = currpid THEN delay ELSE qkey[p]
<1> DEFINE keys == [qkey EXCEPT ![currpid] = delay]
<1>1. /\ sleepq' = Insertd(sleepq, qkey, currpid, delay)
      /\ Resched([prstate EXCEPT ![currpid] = state], readylist, keys)
  BY DEF SleepIn
<1>2. /\ keys \in [Pid -> Int]
      /\ \A p \in Pid : keys[p] = IF p = currpid THEN delay ELSE qkey[p]
  BY QueueTypes
<1>3. ~On(sleepq, currpid) /\ state \in States \ Eligible
  BY QueueTypes DEF States, Eligible
<1>4. Ascending(sleepq', keys)
  BY <1>1, <1>3, QueueTypes, InsertdAscending DEF OrderOK
<1> HIDE DEF keys
<1>5. /\ Descending(readylist', qkey')
      /\ \A r \in Pid : prstate[r] \notin Eligible \/ r = currpid => qkey'[r] = keys[r]
      /\ Prioritised(prstate, qkey) =>
           \A r \in Pid : prstate'[r] = "READY" =>
               qkey'[r] = prprio[r] /\ prprio[r] <= prprio[currpid']
  BY <1>1, <1>2, <1>3, BlockOrder DEF IInv, OrderOK
<1>6. \A p \in Pid : On(sleepq', p) <=> On(sleepq, p) \/ p = currpid
  BY <1>1, QueueTypes, InsertdQueue
<1>7. \A p \in Pid : On(sleepq', p) => qkey'[p] = keys[p]
  BY <1>5, <1>6, QueueTypes
<1>8. Ascending(sleepq', qkey')
  <2>1. qkey' \in [Pid -> Int] /\ sleepq' \in Seq(Pid)
    BY DEF IInv, SchedOK, SleepOK
  <2> QED
    BY <1>2, <1>4, <1>7, <2>1, SameKeys
<1>9. ASSUME NoChprio PROVE Prioritised(prstate, qkey)' /\ CurrentHighest'
  BY <1>5, <1>9 DEF OrderOK, Prioritised, CurrentHighest
<1>10. OrderOK'
  BY <1>5, <1>8, <1>9 DEF OrderOK
<1> QED
  BY <1>1, <1>2, <1>3, <1>6, <1>7, <1>10

\* Who is on a queue, as the steps of the clock say it
LEMMA Members ==
    ASSUME NEW q \in Seq(Pid), NEW p \in Pid
    PROVE  p \in ToSet(q) <=> On(q, p)
  BY DEF ToSet, On

\* Every sleeper is a tick nearer its waking, and nobody else's key moves.
LEMMA TickOrder ==
    ASSUME IInv, IInv', MaskedAlone, OrderOK, Tick
    PROVE  /\ OrderOK' /\ UNCHANGED sleepq
           /\ \A p \in Pid : qkey'[p] = IF On(sleepq, p) THEN qkey[p] - 1 ELSE qkey[p]
<1>1. /\ UNCHANGED <<prstate, readylist, currpid, sleepq, prprio>>
      /\ \A p \in Pid : qkey'[p] = IF On(sleepq, p) THEN qkey[p] - 1 ELSE qkey[p]
  BY QueueTypes, Members DEF Tick, idVars
<1>2. qkey \in [Pid -> Int] /\ qkey' \in [Pid -> Int] /\ 1 \in Int
  BY DEF IInv, SchedOK
<1>3. \A p \in Pid : prstate[p] = "READY" => qkey'[p] = qkey[p]
  BY <1>1, QueueTypes
<1>4. Descending(readylist', qkey')
  BY <1>1, <1>2, <1>3, QueueTypes, SameKeys DEF OrderOK
<1>5. Ascending(sleepq', qkey')
  BY <1>1, <1>2, QueueTypes, MovedKeys DEF OrderOK
<1>6. Calm
  BY TickMasks
<1>7. ASSUME NoChprio PROVE Prioritised(prstate, qkey)' /\ CurrentHighest'
  BY <1>1, <1>3, <1>6, <1>7 DEF OrderOK, Prioritised, CurrentHighest
<1> QED
  BY <1>1, <1>4, <1>5, <1>7 DEF OrderOK

\* wakeup() makes the first sleeper ready; what it had left is taken from the others.
LEMMA WakeupOrder ==
    ASSUME IInv, IInv', MaskedAlone, OrderOK, WakeupStep
    PROVE  /\ OrderOK' /\ sleepq # <<>> /\ sleepq' = Tail(sleepq)
           /\ qkey[Head(sleepq)] \in Int /\ qkey[Head(sleepq)] <= 0
           /\ \A p \in Pid : On(sleepq', p) =>
                On(sleepq, p) /\ qkey'[p] = qkey[p] - qkey[Head(sleepq)]
<1> DEFINE first == Head(sleepq)
           c == qkey[first]
           keys == [p \in Pid |-> IF p \in ToSet(Tail(sleepq)) THEN qkey[p] - c ELSE qkey[p]]
<1>1. /\ sleepq # <<>> /\ c <= 0 /\ sleepq' = Tail(sleepq) /\ ReadyNo(first, keys)
      /\ UNCHANGED prprio
  BY DEF WakeupStep, idVars
<1>2. /\ first \in Pid /\ On(sleepq, first) /\ Tail(sleepq) \in Seq(Pid)
      /\ \A p \in Pid : On(Tail(sleepq), p) <=> On(sleepq, p) /\ p # first
  BY <1>1, QueueTypes, TailQueue
<1>3. c \in Int
  BY <1>2, QueueTypes
<1> HIDE DEF c
<1>4. keys \in [Pid -> Int]
  BY <1>3, QueueTypes
<1>5. \A p \in Pid : keys[p] = IF On(Tail(sleepq), p) THEN qkey[p] - c ELSE qkey[p]
  BY <1>2, Members
<1> HIDE DEF keys, first
<1>6. \A p \in Pid : prstate[p] = "READY" => keys[p] = qkey[p]
  BY <1>2, <1>5, QueueTypes DEF Eligible
<1>7. prstate[first] \notin Eligible
  BY <1>2, QueueTypes
<1>8. /\ Descending(readylist', qkey')
      /\ \A p \in Pid : p # first => qkey'[p] = keys[p]
      /\ Prioritised(prstate, qkey) =>
           \A p \in Pid : prstate'[p] = "READY" => qkey'[p] = prprio[p]
  BY <1>1, <1>2, <1>4, <1>6, <1>7, ReadyNoOrder DEF IInv, OrderOK
<1>9. \A p \in Pid : On(Tail(sleepq), p) => qkey'[p] = qkey[p] - c
  BY <1>2, <1>5, <1>8
<1>10. Ascending(sleepq', qkey')
  <2>1. Ascending(Tail(sleepq), qkey)
    BY <1>1, QueueTypes, TailOrdered DEF OrderOK
  <2>2. qkey' \in [Pid -> Int] /\ qkey \in [Pid -> Int]
    BY DEF IInv, SchedOK
  <2> QED
    BY <1>1, <1>2, <1>3, <1>9, <2>1, <2>2, MovedKeys
<1>11. ~Calm'
  BY TurnsMask DEF Turns
<1>12. ASSUME NoChprio PROVE Prioritised(prstate, qkey)'
  BY <1>1, <1>8, <1>12 DEF OrderOK, Prioritised
<1>13. OrderOK'
  BY <1>8, <1>10, <1>11, <1>12 DEF OrderOK
<1> QED
  BY <1>1, <1>2, <1>3, <1>9, <1>13 DEF c, first

-----------------------------------------------------------------------------
(* The order is inductive.                                                  *)

\* A user process that goes to sleep
LEMMA GoesToSleep ==
    ASSUME (\E d \in MaxWaits : RecvtimeBlock(d)) \/ (\E d \in Delays : Sleepms(d))
    PROVE  /\ currpid # NULLPROC /\ UNCHANGED prprio
           /\ \E state \in {"SLEEP", "RECTIM"}, d \in MaxWaits \cup (Nat \ {0}) :
                SleepIn(state, d)
  BY ArgumentAssumption DEF RecvtimeBlock, Sleepms, User, idVars

\* sysinit() leaves empty queues.
LEMMA InitOrder == Init => MaskedAlone /\ OrderOK
<1> SUFFICES ASSUME Init PROVE MaskedAlone /\ OrderOK
  OBVIOUS
<1>1. \A p \in Pid : Without(kstack[p], Masked)
  BY DEF Init, Without, Masked, NewFrame
<1>2. MaskedAlone
  BY <1>1 DEF MaskedAlone
<1>3. /\ Descending(readylist, qkey) /\ Ascending(sleepq, qkey)
      /\ Prioritised(prstate, qkey) /\ CurrentHighest
  BY DEF Init, Descending, Ascending, Prioritised, CurrentHighest
<1> QED
  BY <1>2, <1>3 DEF OrderOK

\* Every step keeps the order.
LEMMA NextOrder == IInv /\ MaskedAlone /\ OrderOK /\ [Next]_vars => MaskedAlone' /\ OrderOK'
<1> SUFFICES ASSUME IInv, MaskedAlone, OrderOK, [Next]_vars PROVE MaskedAlone' /\ OrderOK'
  OBVIOUS
<1>1. IInv'
  BY NextIInv
<1>2. CASE Calls1
  <2>1. MaskedAlone'
    BY <1>2, CallsCalm, CalmAlone
  <2>2. CASE Orderly
    BY <2>1, <2>2 DEF Orderly
  <2>3. CASE (\E d \in MaxWaits : RecvtimeBlock(d)) \/ (\E d \in Delays : Sleepms(d))
    <3>1. PICK state \in {"SLEEP", "RECTIM"}, d \in MaxWaits \cup (Nat \ {0}) :
            SleepIn(state, d) /\ currpid # NULLPROC /\ UNCHANGED prprio
      BY <2>3, GoesToSleep
    <3>2. d \in Int
      BY ArgumentAssumption
    <3> QED
      BY <1>1, <2>1, <3>1, <3>2, SleepInOrder
  <2> QED
    BY <1>1, <1>2, <2>2, <2>3, CallsOrder
<1>3. CASE Returns
  BY <1>1, <1>3, ReturnsCalm, CalmAlone, ReturnsOrder DEF Orderly
<1>4. CASE LoopCallStep
  BY <1>1, <1>4, LoopCallsMask, LoopsOrder DEF Orderly
<1>5. CASE Turns
  BY <1>1, <1>5, TurnsMask, LoopsOrder, WakeupOrder DEF Turns, Orderly
<1>6. CASE Ends
  BY <1>1, <1>6, EndsCalm, CalmAlone, LoopsOrder DEF Orderly
<1>7. CASE Tick
  BY <1>1, <1>7, TickMasks, TickOrder
<1>8. CASE UNCHANGED vars
  BY <1>8 DEF vars, schedVars, idVars, MaskedAlone, OrderOK, Prioritised, CurrentHighest,
              Calm, Nowhere
<1>9. Halted => UNCHANGED vars
  BY DEF Halted
<1> QED
  BY <1>2, <1>3, <1>4, <1>5, <1>6, <1>7, <1>8, <1>9, KindsOfSteps

\* Both hold in every state the kernel can be in.
THEOREM OrderInvariance == Spec => [](MaskedAlone /\ OrderOK)
  BY InitOrder, NextOrder, Invariance, PTL DEF Spec

\* The ready list stays in descending order of keys and the sleepers in the order they
\* wake, whatever insert() and insertd() link in, getitem() unlinks from the middle and
\* the clock handler counts down (insert.c:23, insertd.c:24, clkhandler.c:28).
THEOREM QueuesInOrder == Spec => []QueuesSorted
<1>1. OrderOK => QueuesSorted
  BY DEF OrderOK, QueuesSorted, Descending, Ascending
<1> QED
  BY <1>1, OrderInvariance, PTL

\* As long as no process calls chprio(), which leaves the ready list as it is
\* (chprio.c:25), a ready process never has a higher priority than the current one
\* when an interrupt can be taken (resched.c:6): every call that makes a process ready
\* or gives up the processor has rescheduled by then, on whatever path it returns.
THEOREM HighestRuns == "chprio" \notin Calls => (Spec => []HighestPriorityRuns)
<1>1. ASSUME NoChprio PROVE IInv /\ MaskedAlone /\ OrderOK => HighestPriorityRuns
  BY <1>1, OutsideLoops DEF OrderOK, HighestPriorityRuns, CurrentHighest, QueuesSorted,
                            Descending, Ascending
<1>2. NoChprio => (Spec => []HighestPriorityRuns)
  <2> SUFFICES ASSUME NoChprio PROVE Spec => []HighestPriorityRuns
    OBVIOUS
  <2>1. IInv /\ MaskedAlone /\ OrderOK => HighestPriorityRuns
    BY <1>1
  <2> QED
    BY <2>1, OrderInvariance, Invariance, PTL
<1> QED
  BY <1>2 DEF NoChprio

-----------------------------------------------------------------------------
(* The kernel uses the sleep queue as SleepList allows.                     *)

leftNow == [p \in ToSet(sleepq) |-> qkey[p]]

\* Every sleeper has ticks left, at least until the clock handler wakes those
\* with none.
LeftOK == \A p \in Pid : On(sleepq, p) => IF At("wakeup") THEN qkey[p] >= 0 ELSE qkey[p] > 0

\* A step of SleepList or none, and the invariant again
SleepAllowed == LeftOK' /\ [Sleepers!Next]_(Sleepers!vars)

\* That sleepers are being woken is true or false.
LEMMA WakingOrNot ==
    /\ At("wakeup") \in BOOLEAN
    /\ At("wakeup")' \in BOOLEAN
  BY DEF At

\* What leftNow is before and after a step
LEMMA LeftValues ==
    ASSUME IInv, IInv'
    PROVE  /\ \A p \in Pid : On(sleepq, p) => p \in ToSet(sleepq) /\ leftNow[p] = qkey[p]
           /\ \A p \in ToSet(sleepq) : p \in Pid /\ On(sleepq, p)
           /\ \A p \in Pid : On(sleepq', p) => p \in ToSet(sleepq') /\ leftNow'[p] = qkey'[p]
           /\ \A p \in ToSet(sleepq') : p \in Pid /\ On(sleepq', p)
           /\ DOMAIN leftNow = ToSet(sleepq) /\ DOMAIN leftNow' = ToSet(sleepq')
<1>1. sleepq \in Seq(Pid) /\ sleepq' \in Seq(Pid)
  BY DEF IInv, SleepOK
<1>2. \A q \in Seq(Pid) : /\ \A p \in Pid : p \in ToSet(q) <=> On(q, p)
                          /\ \A p \in ToSet(q) : p \in Pid
  <2> SUFFICES ASSUME NEW q \in Seq(Pid)
               PROVE  /\ \A p \in Pid : p \in ToSet(q) <=> On(q, p)
                      /\ \A p \in ToSet(q) : p \in Pid
    OBVIOUS
  <2>1. \A i \in DOMAIN q : q[i] \in Pid
    BY ElementOfSeq, LenProperties
  <2> QED
    BY <2>1, Members DEF ToSet
<1> QED
  BY <1>1, <1>2 DEF leftNow

\* Outside wakeup(): nobody moves, or one sleeper is taken off early.
LEMMA TakenOffEarly ==
    ASSUME IInv, IInv', LeftOK, SleepersUntouched, ~At("wakeup"), ~At("wakeup")'
    PROVE  SleepAllowed
<1>1. CASE UNCHANGED sleepq
  <2>1. LeftOK'
    BY <1>1 DEF LeftOK, SleepersUntouched
  <2>2. leftNow' = leftNow
    <3>1. \A p \in ToSet(sleepq) : qkey'[p] = qkey[p]
      BY <1>1, LeftValues DEF SleepersUntouched
    <3> QED
      BY <1>1, <3>1 DEF leftNow
  <2> QED
    BY <1>1, <2>1, <2>2, WakingOrNot DEF SleepAllowed, Sleepers!vars, leftNow
<1>2. ASSUME NEW p \in Pid, On(sleepq, p), sleepq' = GetItem(sleepq, p)
      PROVE  SleepAllowed
  <2>1. \A r \in Pid : On(sleepq', r) => On(sleepq, r)
    BY <1>2, QueueTypes, GetItemQueue
  <2>2. LeftOK'
    BY <2>1 DEF LeftOK, SleepersUntouched
  <2>3. leftNow' = [r \in ToSet(sleepq') |-> leftNow[r]]
    <3>1. \A r \in ToSet(sleepq') : leftNow[r] = qkey'[r]
      BY <2>1, LeftValues DEF SleepersUntouched
    <3> QED
      BY <3>1 DEF leftNow
  <2>4. PICK i \in DOMAIN sleepq : sleepq[i] = p /\ sleepq' = RemoveAt(sleepq, i)
    <3>1. sleepq \in Seq(Pid) /\ DOMAIN sleepq = 1 .. Len(sleepq)
      BY QueueTypes, LenProperties
    <3>2. \E i \in 1 .. Len(sleepq) : sleepq[i] = p /\ GetItem(sleepq, p) = RemoveAt(sleepq, i)
      BY <1>2, <3>1, GetItemEntries
    <3> QED
      BY <1>2, <3>1, <3>2
  <2>5. Sleepers!Unsleep(p)
    <3>1. Sleepers!RemoveAt(sleepq, i) = RemoveAt(sleepq, i)
      BY DEF RemoveAt, Sleepers!RemoveAt
    <3>2. Sleepers!Restricted(leftNow, sleepq') = leftNow'
      BY <2>3 DEF Sleepers!Restricted, Sleepers!ToSet, ToSet
    <3>3. /\ ~At("wakeup") /\ UNCHANGED At("wakeup")
          /\ \E k \in DOMAIN sleepq : sleepq[k] = p /\ sleepq' = Sleepers!RemoveAt(sleepq, k)
          /\ leftNow' = Sleepers!Restricted(leftNow, sleepq')
      BY <2>3, <2>4, <3>1, <3>2, WakingOrNot
    <3> QED
      BY <3>3 DEF Sleepers!Unsleep, leftNow
  <2> QED
    BY <2>2, <2>5 DEF SleepAllowed, Sleepers!Next
<1> QED
  BY <1>1, <1>2 DEF SleepersUntouched

\* sleepms() and recvtime(), with a positive delay
LEMMA SleepAllows ==
    ASSUME IInv, IInv', OrderOK, LeftOK, UNCHANGED prprio, currpid # NULLPROC,
           ~At("wakeup"), ~At("wakeup")',
           NEW state \in {"SLEEP", "RECTIM"}, NEW delay \in Nat \ {0}, SleepIn(state, delay)
    PROVE  SleepAllowed
<1>1. /\ ~On(sleepq, currpid) /\ sleepq' = Insertd(sleepq, qkey, currpid, delay)
      /\ \A p \in Pid : On(sleepq', p) =>
           /\ On(sleepq, p) \/ p = currpid
           /\ qkey'[p] = IF p = currpid THEN delay ELSE qkey[p]
  BY SleepInOrder
<1>2. LeftOK'
  BY <1>1 DEF LeftOK
<1>3. currpid \in Pid /\ sleepq \in Seq(Pid) /\ On(sleepq', currpid)
  BY <1>1, QueueTypes, InsertdQueue
<1>4. leftNow' = [q \in ToSet(sleepq') |-> IF q = currpid THEN delay ELSE leftNow[q]]
  <2>1. \A q \in ToSet(sleepq') : qkey'[q] = IF q = currpid THEN delay ELSE leftNow[q]
    BY <1>1, LeftValues
  <2> QED
    BY <2>1 DEF leftNow
<1>5. currpid \in ToSet(sleepq') /\ leftNow'[currpid] = delay
  BY <1>1, <1>3, LeftValues
<1> DEFINE passed == {j \in DOMAIN sleepq : \A k \in 1 .. j : qkey[sleepq[k]] <= delay}
           earlier == {j \in DOMAIN sleepq : \A k \in 1 .. j : leftNow[sleepq[k]] <= delay}
<1>6. passed = earlier
  <2>1. \A j \in DOMAIN sleepq : \A k \in 1 .. j : k \in DOMAIN sleepq
    BY <1>3, LenProperties
  <2>2. \A k \in DOMAIN sleepq : leftNow[sleepq[k]] = qkey[sleepq[k]]
    BY DEF leftNow, ToSet
  <2> QED
    BY <2>1, <2>2
<1>7. sleepq' = InsertAt(sleepq, Cardinality(earlier) + 1, currpid)
  BY <1>1, <1>6 DEF Insertd
<1> HIDE DEF passed
<1>8. PICK p \in Pid : p = currpid
  BY <1>3
<1>9. Sleepers!SleepAny(p)
  <2>1. ~Sleepers!Contains(sleepq, p)
    BY <1>1, <1>8 DEF Sleepers!Contains, On
  <2>2. sleepq' = Sleepers!InsertAt(sleepq, Cardinality(earlier) + 1, p)
    BY <1>7, <1>8 DEF Sleepers!InsertAt, InsertAt
  <2>3. /\ ~At("wakeup") /\ UNCHANGED At("wakeup")
        /\ ~Sleepers!Contains(sleepq, p)
        /\ sleepq' = Sleepers!InsertAt(sleepq,
             Cardinality({j \in DOMAIN sleepq : \A k \in 1 .. j : leftNow[sleepq[k]] <= delay}) + 1,
             p)
        /\ leftNow' = [q \in Sleepers!ToSet(sleepq') |-> IF q = p THEN delay ELSE leftNow[q]]
    BY <1>4, <1>8, <2>1, <2>2, WakingOrNot DEF Sleepers!ToSet, ToSet
  <2> HIDE DEF earlier
  <2>4. delay = leftNow'[p]
    BY <1>5, <1>8
  <2>5. p \in DOMAIN leftNow' /\ leftNow'[p] \in Nat
    BY <1>5, <1>8, LeftValues
  <2>6. /\ ~At("wakeup") /\ UNCHANGED At("wakeup")
        /\ ~Sleepers!Contains(sleepq, p)
        /\ sleepq' = Sleepers!InsertAt(sleepq,
             Cardinality({j \in DOMAIN sleepq : \A k \in 1 .. j : leftNow[sleepq[k]] <= leftNow'[p]}) + 1,
             p)
        /\ leftNow' = [q \in Sleepers!ToSet(sleepq') |-> IF q = p THEN leftNow'[p] ELSE leftNow[q]]
    BY <2>3, <2>4, Zenon
  <2> QED
    BY <2>5, <2>6 DEF Sleepers!SleepAny, Sleepers!Sleep, leftNow, Cardinality, Sleepers!Cardinality
<1>10. Sleepers!Next
  BY <1>9 DEF Sleepers!Next
<1> QED
  BY <1>2, <1>10 DEF SleepAllowed

\* A tick
LEMMA TickAllowed ==
    ASSUME IInv, IInv', MaskedAlone, OrderOK, LeftOK, Tick
    PROVE  SleepAllowed
<1>1. /\ OrderOK' /\ UNCHANGED sleepq
      /\ \A p \in Pid : qkey'[p] = IF On(sleepq, p) THEN qkey[p] - 1 ELSE qkey[p]
  BY TickOrder
<1>2. /\ ~At("wakeup")
      /\ At("wakeup")' <=> sleepq # <<>> /\ qkey'[Head(sleepq)] <= 0
  BY TickMasks, CalmTop DEF Masked
<1>3. sleepq \in Seq(Pid) /\ qkey \in [Pid -> Int] /\ qkey' \in [Pid -> Int]
  BY DEF IInv, SchedOK, SleepOK
<1>4. ASSUME NEW p \in Pid, On(sleepq', p)
      PROVE  IF At("wakeup")' THEN qkey'[p] >= 0 ELSE qkey'[p] > 0
  <2>1. On(sleepq, p) /\ sleepq # <<>> /\ qkey[p] > 0 /\ qkey'[p] = qkey[p] - 1
    BY <1>1, <1>2, <1>4 DEF LeftOK, On
  <2>2. CASE At("wakeup")'
    BY <1>3, <2>1, <2>2
  <2>3. CASE ~At("wakeup")'
    <3>1. Head(sleepq) \in Pid /\ ~(qkey'[Head(sleepq)] <= 0)
      BY <1>2, <1>3, <2>1, <2>3, TailQueue
    <3>2. qkey'[Head(sleepq)] <= qkey'[p]
      BY <1>1, <1>3, <2>1, FirstIsExtreme DEF OrderOK
    <3> QED
      BY <1>3, <2>3, <3>1, <3>2
  <2> QED
    BY <2>2, <2>3
<1>5. LeftOK'
  BY <1>4 DEF LeftOK
<1>6. leftNow' = [p \in ToSet(sleepq) |-> leftNow[p] - 1]
  <2>1. \A p \in ToSet(sleepq) : qkey'[p] = leftNow[p] - 1
    BY <1>1, LeftValues
  <2> QED
    BY <1>1, <2>1 DEF leftNow
<1>7. sleepq # <<>> => leftNow'[Head(sleepq)] = qkey'[Head(sleepq)]
  BY <1>1, <1>3, TailQueue, LeftValues
<1>8. Sleepers!Tick
  <2>1. /\ ~At("wakeup") /\ UNCHANGED sleepq
        /\ leftNow' = [p \in Sleepers!ToSet(sleepq) |-> leftNow[p] - 1]
        /\ At("wakeup")' = (sleepq # <<>> /\ leftNow'[Head(sleepq)] <= 0)
    BY <1>1, <1>2, <1>6, <1>7, WakingOrNot DEF ToSet, Sleepers!ToSet
  <2> QED
    BY <2>1 DEF Sleepers!Tick, leftNow
<1> QED
  BY <1>5, <1>8 DEF SleepAllowed, Sleepers!Next

\* A sleeper is woken: it has no tick left, so nobody behind it is charged any.
LEMMA WakeAllowed ==
    ASSUME IInv, IInv', MaskedAlone, OrderOK, LeftOK, WakeupStep
    PROVE  SleepAllowed
<1> DEFINE first == Head(sleepq)
<1>1. /\ sleepq # <<>> /\ sleepq' = Tail(sleepq)
      /\ qkey[first] \in Int /\ qkey[first] <= 0
      /\ \A p \in Pid : On(sleepq', p) => On(sleepq, p) /\ qkey'[p] = qkey[p] - qkey[first]
  BY WakeupOrder
<1>2. first \in Pid /\ On(sleepq, first)
  BY <1>1, QueueTypes, TailQueue
<1> HIDE DEF first
<1>3. At("wakeup") /\ At("wakeup")'
  BY TurnsMask DEF WakeupStep, Turns
<1>4. qkey[first] = 0
  BY <1>1, <1>2, <1>3 DEF LeftOK
<1>5. \A p \in Pid : On(sleepq', p) => On(sleepq, p) /\ qkey'[p] = qkey[p]
  BY <1>1, <1>4, QueueTypes
<1>6. LeftOK'
  BY <1>3, <1>5 DEF LeftOK
<1>7. leftNow' = [p \in ToSet(sleepq') |-> leftNow[p]]
  <2>1. \A p \in ToSet(sleepq') : leftNow[p] = qkey'[p]
    BY <1>5, LeftValues
  <2> QED
    BY <2>1 DEF leftNow
<1>8. leftNow[first] = 0
  BY <1>2, <1>4, LeftValues
<1>9. Sleepers!Wake
  <2>1. /\ At("wakeup") /\ UNCHANGED At("wakeup")
        /\ sleepq # <<>> /\ leftNow[Head(sleepq)] = 0 /\ sleepq' = Tail(sleepq)
        /\ leftNow' = Sleepers!Restricted(leftNow, sleepq')
    BY <1>1, <1>3, <1>7, <1>8, WakingOrNot DEF first, Sleepers!Restricted, Sleepers!ToSet, ToSet
  <2> QED
    BY <2>1 DEF Sleepers!Wake, leftNow
<1> QED
  BY <1>6, <1>9 DEF SleepAllowed, Sleepers!Next

\* The end of wakeup(): everybody left has ticks left.
LEMMA WakeEndAllowed ==
    ASSUME IInv, IInv', MaskedAlone, OrderOK, LeftOK, WakeupEnd
    PROVE  SleepAllowed
<1>1. At("wakeup") /\ ~(sleepq # <<>> /\ qkey[Head(sleepq)] <= 0) /\ UNCHANGED sleepq
  BY DEF WakeupEnd
<1>2. ~At("wakeup")'
  BY EndsCalm, CalmTopAfter DEF Ends
<1>3. \A p \in Pid : On(sleepq, p) => qkey'[p] = qkey[p]
  BY <1>1, LoopsOrder DEF Ends, Orderly, SleepersUntouched
<1>4. \A p \in Pid : On(sleepq, p) => qkey[p] > 0
  <2> SUFFICES ASSUME NEW p \in Pid, On(sleepq, p) PROVE qkey[p] > 0
    OBVIOUS
  <2>1. sleepq # <<>> /\ sleepq \in Seq(Pid) /\ qkey \in [Pid -> Int]
    BY QueueTypes DEF On
  <2>2. Head(sleepq) \in Pid /\ qkey[Head(sleepq)] <= qkey[p]
    BY <2>1, TailQueue, FirstIsExtreme DEF OrderOK
  <2> QED
    BY <1>1, <2>1, <2>2
<1>5. LeftOK'
  BY <1>1, <1>2, <1>3, <1>4 DEF LeftOK
<1>6. leftNow' = leftNow /\ \A p \in ToSet(sleepq) : leftNow[p] > 0
  <2>1. \A p \in ToSet(sleepq) : qkey'[p] = qkey[p] /\ leftNow[p] > 0
    BY <1>3, <1>4, LeftValues
  <2> QED
    BY <1>1, <2>1 DEF leftNow
<1>7. Sleepers!WakeEnd
  <2>1. /\ At("wakeup") /\ At("wakeup")' = FALSE /\ UNCHANGED <<sleepq, leftNow>>
        /\ \A p \in Sleepers!ToSet(sleepq) : leftNow[p] > 0
    BY <1>1, <1>2, <1>6, WakingOrNot DEF Sleepers!ToSet, ToSet
  <2> QED
    BY <2>1 DEF Sleepers!WakeEnd, leftNow
<1> QED
  BY <1>5, <1>7 DEF SleepAllowed, Sleepers!Next

\* Nobody sleeps and nobody is being woken at first.
LEMMA InitLeft == Init => LeftOK /\ Sleepers!Init
<1> SUFFICES ASSUME Init PROVE LeftOK /\ Sleepers!Init
  OBVIOUS
<1>1. sleepq = <<>> /\ \A p \in Pid : ~On(<<>>, p)
  BY DEF Init, On
<1>2. LeftOK
  BY <1>1 DEF LeftOK
<1>3. ~At("wakeup")
  <2>1. kstack[currpid] = <<NewFrame("create", 0, 0)>>
    BY Processes DEF Init
  <2>2. Top.at = "create"
    BY <2>1 DEF Top, NewFrame
  <2> QED
    BY <2>2 DEF At
<1>4. leftNow = <<>>
  <2>1. ToSet(sleepq) = {}
    BY <1>1 DEF ToSet
  <2> QED
    BY <2>1 DEF leftNow
<1>5. Sleepers!Init
  <2>1. sleepq = <<>> /\ leftNow = <<>> /\ At("wakeup") = FALSE
    BY <1>1, <1>3, <1>4, WakingOrNot
  <2> QED
    BY <2>1 DEF Sleepers!Init, leftNow
<1> QED
  BY <1>2, <1>5

\* Every step, when nobody calls recvtime(0)
LEMMA NextSleep ==
    0 \notin MaxWaits =>
        (IInv /\ MaskedAlone /\ OrderOK /\ LeftOK /\ [Next]_vars => SleepAllowed)
<1> SUFFICES ASSUME 0 \notin MaxWaits, IInv, MaskedAlone, OrderOK, LeftOK, [Next]_vars
             PROVE  SleepAllowed
  OBVIOUS
<1>1. IInv'
  BY NextIInv
<1>2. CASE Calls1
  <2>1. ~At("wakeup") /\ ~At("wakeup")'
    BY <1>1, <1>2, CallsCalm, CalmTop, CalmTopAfter DEF Masked
  <2>2. CASE Orderly
    BY <1>1, <2>1, <2>2, TakenOffEarly DEF Orderly
  <2>3. CASE (\E d \in MaxWaits : RecvtimeBlock(d)) \/ (\E d \in Delays : Sleepms(d))
    <3>1. PICK state \in {"SLEEP", "RECTIM"}, d \in MaxWaits \cup (Nat \ {0}) :
            SleepIn(state, d) /\ currpid # NULLPROC /\ UNCHANGED prprio
      BY <2>3, GoesToSleep
    <3>2. d \in Nat \ {0}
      BY ArgumentAssumption
    <3> QED
      BY <1>1, <2>1, <3>1, <3>2, SleepAllows
  <2> QED
    BY <1>1, <1>2, <2>2, <2>3, CallsOrder
<1>3. CASE Returns
  <2>1. ~At("wakeup") /\ ~At("wakeup")'
    BY <1>1, <1>3, ReturnsCalm, CalmTop, CalmTopAfter DEF Masked
  <2> QED
    BY <1>1, <1>3, <2>1, ReturnsOrder, TakenOffEarly DEF Orderly
<1>4. CASE LoopCallStep
  <2>1. ~At("wakeup") /\ ~At("wakeup")'
    BY <1>4, LoopCallsMask, CalmTop DEF Masked
  <2> QED
    BY <1>1, <1>4, <2>1, LoopsOrder, TakenOffEarly DEF Orderly
<1>5. CASE SignalnStep \/ SemdeleteStep \/ SemresetStep
  <2>1. ~At("wakeup")
    BY <1>5 DEF SignalnStep, SemdeleteStep, SemresetStep, At
  <2>2. ~At("wakeup")'
    BY <1>5, <2>1, TurnsMask DEF Turns
  <2> QED
    BY <1>1, <1>5, <2>1, <2>2, LoopsOrder, TakenOffEarly DEF Orderly
<1>6. CASE WakeupStep
  BY <1>1, <1>6, WakeAllowed
<1>7. CASE SignalnEnd \/ SemdeleteEnd \/ SemresetEnd
  <2>1. ~At("wakeup")
    BY <1>7 DEF SignalnEnd, SemdeleteEnd, SemresetEnd, At
  <2>2. ~At("wakeup")'
    BY <1>1, <1>7, EndsCalm, CalmTopAfter DEF Ends
  <2> QED
    BY <1>1, <1>7, <2>1, <2>2, LoopsOrder, TakenOffEarly DEF Ends, Orderly
<1>8. CASE WakeupEnd
  BY <1>1, <1>8, WakeEndAllowed
<1>9. CASE Tick
  BY <1>1, <1>9, TickAllowed
<1>10. CASE UNCHANGED vars
  <2>1. UNCHANGED <<sleepq, qkey, kstack, currpid, halted>>
    BY <1>10 DEF vars, schedVars, idVars
  <2>2. UNCHANGED At("wakeup")
    BY <2>1 DEF At, Top
  <2> QED
    BY <2>1, <2>2, WakingOrNot DEF SleepAllowed, LeftOK, Sleepers!vars
<1>11. Halted => UNCHANGED vars
  BY DEF Halted
<1> QED
  BY <1>2, <1>3, <1>4, <1>5, <1>6, <1>7, <1>8, <1>9, <1>10, <1>11, KindsOfSteps DEF Turns, Ends

\* Unless a process calls recvtime(0), which sleeps with no tick left and has a negative
\* key when it wakes (recvtime.c:26), the kernel uses the sleep queue as SleepList allows:
\* one operation at a time, none of them while wakeup() takes sleepers off, every tick
\* charged to every sleeper, and nobody's waking moved by another's
\* (clkhandler.c:28, wakeup.c:13, insertd.c:24, unsleep.c:38).
THEOREM SleepersImplemented == 0 \notin MaxWaits => (Spec => SleepListUse)
<1>1. 0 \notin MaxWaits =>
        /\ IInv /\ MaskedAlone /\ OrderOK /\ LeftOK /\ [Next]_vars => LeftOK'
        /\ IInv /\ MaskedAlone /\ OrderOK /\ LeftOK /\ [Next]_vars
             => [Sleepers!Next]_(Sleepers!vars)
  BY NextSleep DEF SleepAllowed
<1> SUFFICES ASSUME 0 \notin MaxWaits PROVE Spec => SleepListUse
  OBVIOUS
<1>2. /\ IInv /\ MaskedAlone /\ OrderOK /\ LeftOK /\ [Next]_vars => LeftOK'
      /\ IInv /\ MaskedAlone /\ OrderOK /\ LeftOK /\ [Next]_vars
           => [Sleepers!Next]_(Sleepers!vars)
  BY <1>1
<1> QED
  BY <1>2, InitLeft, Invariance, OrderInvariance, PTL DEF Spec, SleepListUse, Sleepers!Spec
=================================================================================
