---------------------------------- MODULE Ports ----------------------------------
(***************************************************************************)
(* Ports: bounded queues of messages between processes (system/pt*.c).     *)
(*                                                                         *)
(* A call runs with interrupts disabled up to a wait() that blocks, or up  *)
(* to the resched() inside semreset() and semdelete(); these are where     *)
(* others run, and where the steps below are cut.  Bound: a call that      *)
(* comes back from wait() finishes before the next switch, although        *)
(* interrupts are enabled from then on (BufferPool has the other case).    *)
(***************************************************************************)
EXTENDS Integers, FiniteSets, SequencesExt

CONSTANTS
    PortUsers,      \* processes; bound: each sends its own name as a message
    NPORTS,         \* entries of porttab
    PtMsgs,         \* PT_MSGS, nodes for messages
    PortCounts,     \* counts that ports are created with
    MaxChanges      \* bound: creations, resets and deletions in all

\* No port is created for more messages than leave as many for each of the others.
ASSUME PortsFit ==
    /\ IsFiniteSet(PortUsers) /\ NPORTS \in Nat \ {0} /\ PtMsgs \in Nat
    /\ \E m \in 0 .. PtMsgs : PortCounts \subseteq 0 .. m /\ NPORTS * m <= PtMsgs

VARIABLES
    porttab,        \* struct ptentry, its semaphores as [count, queue]
    ptnodes,        \* length of the list ptfree
    ptnextid,
    ptcall,         \* a process's call: [op, port, seq, msg]
    ptgot,          \* history: the receive on each port that ends in this step: [msg, epoch]
    ptpanic         \* ptsend() has called panic()

portVars == <<porttab, ptnodes, ptnextid, ptcall, ptgot, ptpanic>>

PortId == 0 .. NPORTS - 1
Idle == [op |-> "idle"]
NothingGot == [q \in PortId |-> [msg |-> "none", epoch |-> 0]]

PortInit ==
    /\ porttab = [q \in PortId |-> [state |-> "free", seq |-> 0, maxcnt |-> 0, list |-> <<>>,
                                    ssem |-> [count |-> 0, queue |-> <<>>],
                                    rsem |-> [count |-> 0, queue |-> <<>>]]]
    /\ ptnodes = PtMsgs /\ ptnextid = 0
    /\ ptcall = [p \in PortUsers |-> Idle]
    /\ ptgot = NothingGot
    /\ ptpanic = FALSE

\* wait() on a semaphore: who finds nothing joins the queue.
PtWait(sem, p) ==
    [count |-> sem.count - 1,
     queue |-> IF sem.count > 0 THEN sem.queue ELSE Append(sem.queue, p)]

PtSignal(sem) ==
    [count |-> sem.count + 1,
     queue |-> IF sem.count < 0 THEN Tail(sem.queue) ELSE sem.queue]

Queued(p) == \E q \in PortId : Contains(porttab[q].ssem.queue \o porttab[q].rsem.queue, p)

Changes == FoldFunction(+, 0, [q \in PortId |-> porttab[q].seq])

-----------------------------------------------------------------------------
\* ptcreate(): the first free entry from ptnextid on.
PortCreate(n) ==
    \E k \in 0 .. NPORTS - 1 :
      LET q == (ptnextid + k) % NPORTS
      IN  /\ porttab[q].state = "free" /\ Changes < MaxChanges
          /\ \A j \in 0 .. k - 1 : porttab[(ptnextid + j) % NPORTS].state # "free"
          /\ porttab' = [porttab EXCEPT ![q] =
                [state |-> "alloc", seq |-> @.seq + 1, maxcnt |-> n, list |-> <<>>,
                 ssem |-> [count |-> n, queue |-> <<>>], rsem |-> [count |-> 0, queue |-> <<>>]]]
          /\ ptnextid' = (q + 1) % NPORTS
          /\ UNCHANGED <<ptnodes, ptcall, ptpanic>> /\ ptgot' = NothingGot

\* The call p has made is about a port that lives and was not reset since.
Fresh(p) == LET c == ptcall[p]
            IN porttab[c.port].state = "alloc" /\ porttab[c.port].seq = c.seq

\* ptsend() from the wait() on, in table t.
Deliver(t, c) ==
    IF ptnodes = 0 THEN ptpanic' = TRUE /\ UNCHANGED <<porttab, ptnodes>>
    ELSE /\ porttab' = [t EXCEPT ![c.port].list = Append(@, [msg |-> c.msg, epoch |-> c.seq]),
                                 ![c.port].rsem = PtSignal(@)]
         /\ ptnodes' = ptnodes - 1
         /\ UNCHANGED ptpanic

PortSend(p, q) ==
    LET c == [op |-> "send", port |-> q, seq |-> porttab[q].seq, msg |-> p]
        t == [porttab EXCEPT ![q].ssem = PtWait(@, p)]
    IN  /\ ptcall[p] = Idle /\ porttab[q].state = "alloc"
        /\ IF porttab[q].ssem.count > 0
           THEN Deliver(t, c) /\ UNCHANGED ptcall
           ELSE porttab' = t /\ ptcall' = [ptcall EXCEPT ![p] = c] /\ UNCHANGED <<ptnodes, ptpanic>>
        /\ UNCHANGED ptnextid /\ ptgot' = NothingGot

\* Mutant of PortSendAgain: the sequence number is not compared.
PortSendStale(p) ==
    /\ ptcall[p].op = "send" /\ ~Queued(p)
    /\ IF porttab[ptcall[p].port].state = "alloc" THEN Deliver(porttab, ptcall[p])
       ELSE UNCHANGED <<porttab, ptnodes, ptpanic>>
    /\ ptcall' = [ptcall EXCEPT ![p] = Idle]
    /\ UNCHANGED ptnextid /\ ptgot' = NothingGot

PortSendAgain(p) ==
    /\ ptcall[p].op = "send" /\ ~Queued(p)
    /\ IF Fresh(p) THEN Deliver(porttab, ptcall[p]) ELSE UNCHANGED <<porttab, ptnodes, ptpanic>>
    /\ ptcall' = [ptcall EXCEPT ![p] = Idle]
    /\ UNCHANGED ptnextid /\ ptgot' = NothingGot

\* ptrecv() from the wait() on.
Take(t, c) ==
    LET port == t[c.port]
    IN  /\ porttab' = [t EXCEPT ![c.port].list = Tail(@), ![c.port].ssem = PtSignal(@)]
        /\ ptgot' = [NothingGot EXCEPT ![c.port] = [Head(port.list) EXCEPT !.epoch = c.seq]]
        /\ ptnodes' = ptnodes + 1

PortReceive(p, q) ==
    LET c == [op |-> "recv", port |-> q, seq |-> porttab[q].seq]
        t == [porttab EXCEPT ![q].rsem = PtWait(@, p)]
    IN  /\ ptcall[p] = Idle /\ porttab[q].state = "alloc"
        /\ IF porttab[q].rsem.count > 0
           THEN Take(t, c) /\ UNCHANGED ptcall
           ELSE porttab' = t /\ ptcall' = [ptcall EXCEPT ![p] = c] /\ UNCHANGED ptnodes /\ ptgot' = NothingGot
        /\ UNCHANGED <<ptnextid, ptpanic>>

PortReceiveAgain(p) ==
    /\ ptcall[p].op = "recv" /\ ~Queued(p)
    /\ IF Fresh(p) THEN Take(porttab, ptcall[p]) ELSE UNCHANGED <<porttab, ptnodes>> /\ ptgot' = NothingGot
    /\ ptcall' = [ptcall EXCEPT ![p] = Idle]
    /\ UNCHANGED <<ptnextid, ptpanic>>

-----------------------------------------------------------------------------
\* ptreset() and ptdelete() as far as the first resched(): the messages are disposed of,
\* the senders released.  A deleted port keeps its pointers to the freed nodes.
PortClear(p, q, op) ==
    /\ ptcall[p] = Idle /\ porttab[q].state = "alloc" /\ Changes < MaxChanges
    /\ porttab' = [porttab EXCEPT ![q].state = "limbo", ![q].seq = @ + 1,
                                  ![q].list = IF op = "reset" THEN <<>> ELSE @,
                                  ![q].ssem = [count |-> IF op = "reset" THEN porttab[q].maxcnt ELSE 0,
                                               queue |-> <<>>]]
    /\ ptnodes' = ptnodes + Len(porttab[q].list)
    /\ ptcall' = [ptcall EXCEPT ![p] = [op |-> op, port |-> q]]
    /\ UNCHANGED <<ptnextid, ptpanic>> /\ ptgot' = NothingGot

\* Mutant of PortClearReceivers: only the count is reset.
PortClearForgetting(p) ==
    /\ ptcall[p].op \in {"reset", "delete"}
    /\ porttab' = [porttab EXCEPT ![ptcall[p].port].rsem = [@ EXCEPT !.count = 0]]
    /\ ptcall' = [ptcall EXCEPT ![p].op = IF @ = "reset" THEN "resetEnd" ELSE "deleteEnd"]
    /\ UNCHANGED <<ptnodes, ptnextid, ptpanic>> /\ ptgot' = NothingGot

\* The second semreset() or semdelete(): the receivers are released.
PortClearReceivers(p) ==
    /\ ptcall[p].op \in {"reset", "delete"}
    /\ porttab' = [porttab EXCEPT ![ptcall[p].port].rsem = [count |-> 0, queue |-> <<>>]]
    /\ ptcall' = [ptcall EXCEPT ![p].op = IF @ = "reset" THEN "resetEnd" ELSE "deleteEnd"]
    /\ UNCHANGED <<ptnodes, ptnextid, ptpanic>> /\ ptgot' = NothingGot

PortClearEnd(p) ==
    /\ ptcall[p].op \in {"resetEnd", "deleteEnd"}
    /\ porttab' = [porttab EXCEPT ![ptcall[p].port].state =
                                      IF ptcall[p].op = "resetEnd" THEN "alloc" ELSE "free"]
    /\ ptnextid' = IF ptcall[p].op = "resetEnd" THEN ptnextid ELSE ptcall[p].port
    /\ ptcall' = [ptcall EXCEPT ![p] = Idle]
    /\ UNCHANGED <<ptnodes, ptpanic>> /\ ptgot' = NothingGot

PortNext ==
    \/ \E n \in PortCounts : PortCreate(n)
    \/ \E p \in PortUsers, q \in PortId :
         \/ PortSend(p, q)
         \/ PortReceive(p, q)
         \/ \E op \in {"reset", "delete"} : PortClear(p, q, op)
    \/ \E p \in PortUsers :
         \/ PortSendAgain(p) \/ PortReceiveAgain(p) \/ PortClearReceivers(p) \/ PortClearEnd(p)

PortSpec == PortInit /\ [][PortNext]_portVars

-----------------------------------------------------------------------------
\* Processes that were released, with a message or a slot, and have not run yet.
Released(q, op) == {p \in PortUsers : ptcall[p].op = op /\ ~Queued(p) /\ ptcall[p].port = q /\ Fresh(p)}

\* The nodes in a port that may be used.
Kept(port) == IF port.state = "alloc" THEN Len(port.list) ELSE 0

\* A port that may be used has as many messages and free slots as its semaphores
\* say, whatever releases, resets and late calls came before (ptclear.c:40-48); every node
\* for a message is free or in one port, and ptsend.c:36-38 never panics, since the ports
\* were not promised more messages than there are nodes.
PortCounted ==
    /\ ~ptpanic
    /\ ptnodes + SumFunction([q \in PortId |-> Kept(porttab[q])]) = PtMsgs
    /\ \A q \in PortId : porttab[q].state = "alloc" =>
         LET port == porttab[q] IN
         /\ Len(port.list) = Max({port.rsem.count, 0}) + Cardinality(Released(q, "recv"))
         /\ port.maxcnt = Max({port.ssem.count, 0}) + Len(port.list)
                            + Cardinality(Released(q, "send"))

\* Nobody is left waiting for a port that was reset or deleted: who is in a queue
\* of a port asked in its present life.
NobodyForgotten ==
    \A q \in PortId, p \in PortUsers :
        /\ porttab[q].state # "limbo"
        /\ Contains(porttab[q].ssem.queue \o porttab[q].rsem.queue, p)
        => ptcall[p].seq = porttab[q].seq

\* What ports, their semaphores and the nodes they share keep between calls, through resets
\* and deletions that meet waiting processes.
PortSound == PortCounted /\ NobodyForgotten

Box(q) == INSTANCE Mailbox WITH
    Message <- PortUsers, epoch <- porttab[q].seq, got <- ptgot[q],
    queue <- IF porttab[q].state = "alloc" THEN porttab[q].list ELSE <<>>

\* Each port is a queue, and no call made before a reset, a deletion or a reuse of
\* the table entry takes effect after it (ptsend.c:29-35, ptrecv.c:28-33).
PortPromise ==
    /\ \A q \in PortId : Box(q)!Init
    /\ [][\A q \in PortId : Box(q)!Next \/ UNCHANGED Box(q)!vars]_portVars
==================================================================================
