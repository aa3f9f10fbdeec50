--------------------------------- MODULE Ethernet --------------------------------
(***************************************************************************)
(* The Ethernet driver (device/eth) with its controller.  Each direction   *)
(* has a ring of descriptors that both walk around, the controller filling *)
(* or sending what the driver has marked; it raises an interrupt as long   *)
(* as it has packets to tell of.                                           *)
(*                                                                         *)
(* Packets and buffers are not told apart.  A call is cut where it waits,  *)
(* after which it runs with interrupts enabled (ctxsw.S:76): of that only  *)
(* the load and the store of icount in ethRead() are apart.  The           *)
(* controller is external: it is what the driver takes it for.             *)
(***************************************************************************)
EXTENDS Integers, FiniteSets, SequencesExt

CONSTANTS
    EthReaders, EthWriters, \* processes
    ETH_RX_RING_ENTRIES, ETH_TX_RING_ENTRIES, ETH_IBUFSIZ,
    EthPreempts     \* interrupts and other processes come in after a wait()

ASSUME EthAssumption ==
    /\ IsFiniteSet(EthReaders) /\ IsFiniteSet(EthWriters)
    /\ {ETH_RX_RING_ENTRIES, ETH_TX_RING_ENTRIES, ETH_IBUFSIZ} \subseteq Nat \ {0}

VARIABLES
    rx,             \* receive ring: [full, head, at, count, run, over]: descriptors that are
                    \* not empty, the driver's and the controller's place, packets told of
    ethin,          \* the input buffer: [start, count, held]: held is which places are not NULL
    isema,          \* [count, queue]
    inPool,         \* free buffers
    tx,             \* transmit ring: [full, bufs, head, n, at, count, run, under]; n is
                    \* txTail - txHead
    outPool,        \* [count, queue]
    ethcall,        \* where a process is in its call, and what it holds: [at, holds]
    ethstate        \* "down" at first, "up", "closed"

ethVars == <<rx, ethin, isema, inPool, tx, outPool, ethcall, ethstate>>

EthIdle == [at |-> "idle", holds |-> 0]
EthCallers == EthReaders \cup EthWriters
RxSlot(k) == (rx.head + k) % ETH_RX_RING_ENTRIES
TxSlot(k) == (tx.head + k) % ETH_TX_RING_ENTRIES
TxTail == TxSlot(tx.n)

\* ethInit(): there are no buffers, and no descriptor is empty.
EthInit ==
    /\ ethstate = "down"
    /\ rx = [full |-> 0 .. ETH_RX_RING_ENTRIES - 1, head |-> 0, at |-> 0, count |-> 0,
             run |-> FALSE, over |-> FALSE]
    /\ ethin = [start |-> 0, count |-> 0, held |-> {}]
    /\ isema = [count |-> 0, queue |-> <<>>]
    /\ inPool = 0
    /\ tx = [full |-> 0 .. ETH_TX_RING_ENTRIES - 1, bufs |-> {}, head |-> 0, n |-> 0, at |-> 0,
             count |-> 0, run |-> FALSE, under |-> FALSE]
    /\ outPool = [count |-> 0, queue |-> <<>>]
    /\ ethcall = [p \in EthCallers |-> EthIdle]

\* ethOpen(), once: the pools are made, and the receive ring gets its buffers.
EthOpen ==
    /\ ethstate = "down" /\ ethstate' = "up"
    /\ rx' = [rx EXCEPT !.full = {}, !.run = TRUE]
    /\ tx' = [tx EXCEPT !.full = {}]
    /\ inPool' = ETH_IBUFSIZ
    /\ outPool' = [count |-> ETH_TX_RING_ENTRIES, queue |-> <<>>]
    /\ UNCHANGED <<ethin, isema, ethcall>>

\* ethClose(): the controller goes on, but no longer interrupts.
EthClose ==
    /\ ethstate = "up" /\ ethstate' = "closed"
    /\ UNCHANGED <<rx, ethin, isema, inPool, tx, outPool, ethcall>>

-----------------------------------------------------------------------------
(* The controller.                                                         *)

\* A packet comes in; without a descriptor for it, it is lost and the receiver stops.
PacketComes ==
    /\ rx.run
    /\ rx' = IF rx.at \in rx.full THEN [rx EXCEPT !.run = FALSE, !.over = TRUE]
             ELSE [rx EXCEPT !.full = @ \cup {rx.at}, !.count = @ + 1,
                             !.at = (@ + 1) % ETH_RX_RING_ENTRIES]
    /\ UNCHANGED <<ethin, isema, inPool, tx, outPool, ethcall, ethstate>>

\* A packet is sent, or there is none and the transmitter stops.
PacketGoes ==
    /\ tx.run
    /\ tx' = IF tx.at \in tx.full
             THEN [tx EXCEPT !.full = @ \ {tx.at}, !.count = @ + 1,
                             !.at = (@ + 1) % ETH_TX_RING_ENTRIES]
             ELSE [tx EXCEPT !.run = FALSE, !.under = TRUE]
    /\ UNCHANGED <<rx, ethin, isema, inPool, outPool, ethcall, ethstate>>

-----------------------------------------------------------------------------
(* The interrupt handler.                                                  *)

EthWait(sem, p) == [count |-> sem.count - 1,
                    queue |-> IF sem.count > 0 THEN sem.queue ELSE Append(sem.queue, p)]
EthSignal(sem, n) == [count |-> sem.count + n,
                      queue |-> SubSeq(sem.queue, Min({n, Len(sem.queue)}) + 1, Len(sem.queue))]

\* After the packet at the head of the receive ring; told: the controller knows of it.
RxPassed(r, told) == [r EXCEPT !.count = @ - told, !.head = (@ + 1) % ETH_RX_RING_ENTRIES]

\* rxPackets(): one packet, with a new buffer for its descriptor (allocRxBuffer()).  When the
\* input buffer is full the packet is passed over, and its descriptor not marked empty.
RxPackets(r) ==
    IF r.head \notin r.full
    THEN rx' = [r EXCEPT !.count = @ - 1] /\ UNCHANGED <<ethin, isema, inPool>>
    ELSE IF ethin.count < ETH_IBUFSIZ
    THEN /\ rx' = [RxPassed(r, 1) EXCEPT !.full = @ \ {r.head}]
         /\ inPool' = inPool - 1
         /\ ethin' = [ethin EXCEPT !.held = @ \cup {(ethin.start + ethin.count) % ETH_IBUFSIZ},
                                   !.count = @ + 1]
         /\ isema' = EthSignal(isema, 1)
    ELSE rx' = RxPassed(r, 1) /\ UNCHANGED <<ethin, isema, inPool>>

\* txPackets(): the packets at the head of the ring that have been sent give their buffers up.
TxPackets ==
    LET sent == Max({k \in 0 .. tx.n : \A j \in 0 .. k - 1 : TxSlot(j) \notin tx.full})
        gone == {TxSlot(k) : k \in 0 .. sent - 1}
        told == IF tx.n = 0 THEN 1 ELSE sent
    IN  /\ tx' = [tx EXCEPT !.head = TxSlot(sent), !.n = @ - sent,
                            !.bufs = @ \ gone, !.count = Max({0, @ - told})]
        /\ outPool' = EthSignal(outPool, Cardinality(gone \cap tx.bufs))

\* Nobody is between two instructions that must go together.
Settled == EthPreempts \/ \A p \in EthCallers : ethcall[p].at # "taken"

\* ethInterrupt(): one packet received and all that were sent; after an overflow the receiver
\* is started again.  What it wakes runs later (sched_cntl()).
EthInterrupt ==
    /\ Settled /\ ethstate = "up"
    /\ rx.count > 0 \/ tx.count > 0 \/ rx.over
    /\ LET r == IF rx.over THEN [rx EXCEPT !.over = FALSE, !.run = TRUE] ELSE rx
       IN  IF rx.count > 0 THEN RxPackets(r) ELSE rx' = r /\ UNCHANGED <<ethin, isema, inPool>>
    /\ IF tx.count > 0 THEN TxPackets ELSE UNCHANGED <<tx, outPool>>
    /\ UNCHANGED <<ethcall, ethstate>>

-----------------------------------------------------------------------------
(* The calls.                                                              *)

\* The packet at istart is picked up; icount becomes one less than n.
PickUp(n) == ethin' = [start |-> (ethin.start + 1) % ETH_IBUFSIZ, count |-> n - 1,
                       held |-> ethin.held \ {ethin.start}]

\* ethRead() that does not wait, or does.
EthRead(p) ==
    /\ Settled /\ ethstate = "up" /\ ethcall[p].at = "idle"
    /\ isema' = EthWait(isema, p)
    /\ IF isema.count > 0
       THEN /\ PickUp(ethin.count) /\ UNCHANGED ethcall
            /\ inPool' = inPool + Cardinality({ethin.start} \cap ethin.held)
       ELSE /\ ethcall' = [ethcall EXCEPT ![p].at = "read"]
            /\ UNCHANGED <<ethin, inPool>>
    /\ UNCHANGED <<rx, tx, outPool, ethstate>>

\* After the wait, up to the load of icount ...
EthReadResumes(p) ==
    /\ Settled /\ ethcall[p].at = "read" /\ ~Contains(isema.queue, p)
    /\ ethcall' = [ethcall EXCEPT ![p] = [at |-> "taken", holds |-> ethin.count]]
    /\ UNCHANGED <<rx, ethin, isema, inPool, tx, outPool, ethstate>>

\* ... and from its store to the end.
EthReadEnds(p) ==
    /\ ethcall[p].at = "taken"
    /\ PickUp(ethcall[p].holds)
    /\ inPool' = inPool + Cardinality({ethin.start} \cap ethin.held)
    /\ ethcall' = [ethcall EXCEPT ![p] = EthIdle]
    /\ UNCHANGED <<rx, isema, tx, outPool, ethstate>>

\* Mutant of EthTransmit: a transmitter that has stopped is not started again.
EthTransmitStopped(slot) ==
    tx' = [tx EXCEPT !.full = @ \cup {slot}, !.bufs = @ \cup {slot}, !.n = @ + 1]

\* A packet is put into the ring at slot, and the transmitter started.
EthTransmit(slot) ==
    tx' = [tx EXCEPT !.full = @ \cup {slot}, !.bufs = @ \cup {slot}, !.n = @ + 1,
                     !.at = IF tx.under THEN slot ELSE @, !.under = FALSE, !.run = TRUE]

\* ethWrite(): SYSERR (nothing changes) while the descriptor at the tail is in use; it is
\* chosen before getbuf() waits.
EthWrite(p) ==
    /\ Settled /\ ethstate = "up" /\ ethcall[p].at = "idle" /\ TxTail \notin tx.full
    /\ outPool' = EthWait(outPool, p)
    /\ IF outPool.count > 0 THEN EthTransmit(TxTail) /\ UNCHANGED ethcall
       ELSE ethcall' = [ethcall EXCEPT ![p] = [at |-> "write", holds |-> TxTail]] /\ UNCHANGED tx
    /\ UNCHANGED <<rx, ethin, isema, inPool, ethstate>>

EthWriteEnds(p) ==
    /\ Settled /\ ethcall[p].at = "write" /\ ~Contains(outPool.queue, p)
    /\ EthTransmit(ethcall[p].holds)
    /\ ethcall' = [ethcall EXCEPT ![p] = EthIdle]
    /\ UNCHANGED <<rx, ethin, isema, inPool, outPool, ethstate>>

EthNext ==
    \/ EthOpen \/ EthClose \/ PacketComes \/ PacketGoes \/ EthInterrupt
    \/ \E p \in EthReaders : EthRead(p) \/ EthReadResumes(p) \/ EthReadEnds(p)
    \/ \E p \in EthWriters : EthWrite(p) \/ EthWriteEnds(p)

EthSpec == EthInit /\ [][EthNext]_ethVars

-----------------------------------------------------------------------------
EthResumed(at, sem) == {p \in EthCallers : ethcall[p].at = at /\ ~Contains(sem.queue, p)}

\* Every buffer is in its pool or in use, through interrupts that come while readers and the
\* writer wait or have been woken, overruns and underruns: the handler never waits for one,
\* the semaphore counts the packets, and no packet is laid over another
\* (ethInterrupt.c:33-38, ethRead.c:33-55, ethWrite.c:33-60).
EthBuffers == ethstate # "down" =>
    LET woken   == EthResumed("read", isema) \cup EthResumed("taken", isema)
        writing == EthResumed("write", outPool)
    IN  /\ inPool >= 0 /\ inPool + Cardinality(ethin.held) = ETH_IBUFSIZ
        /\ ethin.held = {(ethin.start + k) % ETH_IBUFSIZ : k \in 0 .. ethin.count - 1}
        /\ ethin.count = Max({0, isema.count}) + Cardinality(woken)
        /\ Max({0, outPool.count}) + Cardinality(writing) + Cardinality(tx.bufs) = ETH_TX_RING_ENTRIES
        /\ tx.bufs = {TxSlot(k) : k \in 0 .. tx.n - 1}

\* Driver and controller stay in step: each has the place in the ring that the other takes it
\* to have, and nothing stays in the ring unsent when the transmitter has stopped
\* (ethInterrupt.c:22-45, ethWrite.c:66-78).
EthInStep == ethstate # "down" =>
    /\ rx.at = RxSlot(rx.count) /\ \A k \in 0 .. rx.count - 1 : RxSlot(k) \in rx.full
    /\ \E k \in 0 .. tx.n :
          /\ tx.full = {TxSlot(j) : j \in k .. tx.n - 1}
          /\ tx.full # {} => tx.run /\ tx.at = TxSlot(k)

\* The driver's buffers, semaphores and rings agree with one another and the controller.
EthSound == EthBuffers /\ EthInStep
==================================================================================
