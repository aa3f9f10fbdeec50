------------------------------- MODULE SleepList -------------------------------
(***************************************************************************)
(* The sleep queue as the rest of the kernel sees it: processes in the     *)
(* order they wake, each with the ticks it has left.  A tick is one tick   *)
(* less for every sleeper, and a sleeper leaves with no tick left or       *)
(* because it is taken off early.                                          *)
(***************************************************************************)
EXTENDS Integers, FiniteSets, SequencesExt

CONSTANT Process

VARIABLES
    queue,      \* a sequence of processes, first to wake first
    left,       \* [ToSet(queue) -> Int]
    waking      \* the clock handler is taking sleepers off the queue

vars == <<queue, left, waking>>

Init == queue = <<>> /\ left = <<>> /\ waking = FALSE

Restricted(f, q) == [p \in ToSet(q) |-> f[p]]

\* Behind everybody with no more ticks left than p.
Sleep(p, ticks) ==
    /\ ~waking /\ ~Contains(queue, p)
    /\ LET earlier == {j \in DOMAIN queue : \A k \in 1 .. j : left[queue[k]] <= ticks}
       IN  queue' = InsertAt(queue, Cardinality(earlier) + 1, p)
    /\ left' = [q \in ToSet(queue') |-> IF q = p THEN ticks ELSE left[q]]
    /\ UNCHANGED waking

\* The ticks of a new sleeper are whatever it asks for.
SleepAny(p) == p \in DOMAIN left' /\ left'[p] \in Nat /\ Sleep(p, left'[p])

\* Nobody else's waking changes.
Unsleep(p) ==
    /\ ~waking
    /\ \E i \in DOMAIN queue : queue[i] = p /\ queue' = RemoveAt(queue, i)
    /\ left' = Restricted(left, queue')
    /\ UNCHANGED waking

Tick ==
    /\ ~waking
    /\ left' = [p \in ToSet(queue) |-> left[p] - 1]
    /\ waking' = (queue # <<>> /\ left'[Head(queue)] <= 0)
    /\ UNCHANGED queue

Wake ==
    /\ waking /\ queue # <<>> /\ left[Head(queue)] = 0
    /\ queue' = Tail(queue)
    /\ left' = Restricted(left, queue')
    /\ UNCHANGED waking

WakeEnd ==
    /\ waking /\ \A p \in ToSet(queue) : left[p] > 0
    /\ waking' = FALSE
    /\ UNCHANGED <<queue, left>>

Next == Tick \/ Wake \/ WakeEnd \/ \E p \in Process : SleepAny(p) \/ Unsleep(p)

Spec == Init /\ [][Next]_vars
=============================================================================
