-------------------------------- MODULE Endpoints --------------------------------
(***************************************************************************)
(* The ends of communication of the network code: UDP end points           *)
(* (net/udp.c), ping slots (net/icmp.c), and the packet buffers that the   *)
(* process netin moves between the Ethernet and them (net/netin.c).        *)
(*                                                                         *)
(* netin runs before the programs that read what it puts in the queues:    *)
(* what it does with a packet is one step, up to a getbuf() that finds the *)
(* pool empty.  A program's call is cut where it waits, and where netin    *)
(* may come in between.  Addresses are resolved by module Arp.             *)
(*                                                                         *)
(* An end is used by the process that has registered it, and a process has *)
(* one end: process i is who has registered end i.                         *)
(*                                                                         *)
(* Buffers are not told apart: a place in a queue holds the packet of a    *)
(* host, which is a buffer, or None, and the pool is the number it has.    *)
(***************************************************************************)
EXTENDS Integers, FiniteSets, SequencesExt

CONSTANTS
    Hosts, Locals,  \* remote addresses, and local ports
    Shapes,         \* sizes of the tables: [udp, udpq, icmp, icmpq, outq]
    MaxPings,       \* bound: echo requests of a process whose answers it has not read
    None,           \* no packet
    NetPreempts     \* netin runs in the middle of udp_register() and icmp_register(), and
                    \* of the statement that lowers the count of a reader that has waited

\* The head of a queue wraps at the number of ends (udp.c:172, icmp.c:175).
ASSUME HeadsStayInside == \A s \in Shapes : s.udp <= s.udpq /\ s.icmp <= s.icmpq

ASSUME ShapesAreSizes ==
    Shapes \subseteq [udp : Nat, udpq : Nat, icmp : Nat, icmpq : Nat, outq : Nat]
ASSUME PacketsDiffer ==
    /\ IsFiniteSet(Hosts) /\ MaxPings \in Nat
    /\ None \notin Hosts /\ None \notin [end : Nat, rem : Hosts \cup {"none"}]

VARIABLES
    shape,          \* the sizes the system is built with
    ends,           \* udptab, then icmptab: [state, key, head, tail, count, pid, queue]
    netfree,        \* how many buffers netbufpool has
    netwait,        \* who waits for one, 0 for netin
    netin,          \* where netin is: [op, end]; it has no buffer when op is "refill"
    icmpout,        \* Icmpout, icosem being count: [head, tail, count, queue]; a packet is
                    \* [end, rem], end being 0 in an answer
    outpkt,         \* what icmp_out() has taken from it
    netcall,        \* the call of the process of end i, "idle" when nobody has the end
    netmsg,         \* prmsg of the process of end i
    netload,        \* udcount or iccount, as a reader that has waited lowers it
    echoes,         \* answers of host h on the way to slot i
    netgot          \* history: [end, ret] of the read that ends in this step

netVars == <<shape, ends, netfree, netwait, netin, icmpout, outpkt, netcall, netmsg,
             netload, echoes, netgot>>

UDP_SLOTS == shape.udp
UDP_QSIZ == shape.udpq
ICMP_SLOTS == shape.icmp
ICMP_QSIZ == shape.icmpq
ICMP_OQSIZ == shape.outq

AnyHost == "any"
UdpEnds == 1 .. UDP_SLOTS
IcmpEnds == UDP_SLOTS + 1 .. UDP_SLOTS + ICMP_SLOTS
Ends == UdpEnds \cup IcmpEnds
Size(i) == IF i \in UdpEnds THEN UDP_QSIZ ELSE ICMP_QSIZ
Wrap(i) == IF i \in UdpEnds THEN UDP_SLOTS ELSE ICMP_SLOTS

\* netin.c:22-23
NetBufs == UDP_SLOTS * UDP_QSIZ + ICMP_SLOTS * ICMP_QSIZ + ICMP_OQSIZ + 1

NoKey == [rem |-> "none", loc |-> "none"]
UdpKeys == [rem : Hosts \cup {AnyHost}, loc : Locals]
IcmpKeys == [rem : Hosts, loc : {"ping"}]
Reading == [op |-> "read", end |-> 0]
NoEnd == [end |-> 0, rem |-> "none"]
NoRead == [end |-> 0, ret |-> "none"]
Empty(n) == [k \in 0 .. n - 1 |-> None]

\* udp_init(), icmp_init()
FreeEnds == [i \in Ends |-> [state |-> "free", key |-> NoKey, head |-> 0, tail |-> 0,
                            count |-> 0, pid |-> 0, queue |-> Empty(Size(i))]]

\* netin up to its loop.
NetInit ==
    /\ shape \in Shapes
    /\ ends = FreeEnds
    /\ netfree = NetBufs - 1 /\ netwait = <<>>
    /\ netin = Reading
    /\ icmpout = [head |-> 0, tail |-> 0, count |-> 0,
                  queue |-> Empty(ICMP_OQSIZ)]
    /\ outpkt = None
    /\ netcall = [i \in Ends |-> "idle"]
    /\ netmsg = [i \in Ends |-> "none"]
    /\ netload = [i \in Ends |-> 0]
    /\ echoes = [i \in IcmpEnds |-> [h \in Hosts |-> 0]]
    /\ netgot = NoRead

-----------------------------------------------------------------------------
(* Queues and buffers.                                                     *)

\* The entry with packet m at its tail.
Enqueue(e, size, m) ==
    [e EXCEPT !.count = @ + 1, !.queue[e.tail] = m,
              !.tail = IF @ + 1 >= size THEN 0 ELSE @ + 1]

\* The entry without the packet at its head; the place it had counts as empty.
Dequeue(e, wrap) ==
    [e EXCEPT !.count = @ - 1, !.queue[e.head] = None,
              !.head = IF @ + 1 >= wrap THEN 0 ELSE @ + 1]

\* What a reader finds in the queue of end i.
Queue(i) == [k \in 1 .. ends[i].count |-> ends[i].queue[(ends[i].head + k - 1) % Wrap(i)]]

\* getbuf() does not block.
MayGet == netwait = <<>> /\ netfree > 0

\* w has waited longest for a buffer, and there is one.
Granted(w) == netwait # <<>> /\ Head(netwait) = w /\ netfree > 0

\* netin runs as soon as it can.
NetinIdle == ~Granted(0) /\ UNCHANGED shape

\* send() of OK to p; a message to who waits no more is cleared by its next recvclr().
NotifyEnd(p) ==
    netmsg' = [netmsg EXCEPT ![p] = IF netcall[p] = "wait" THEN "OK" ELSE @]

NetinRuns ==
    /\ NetinIdle /\ netin = Reading
    /\ NetPreempts \/ \A i \in Ends : netcall[i] \notin {"fill", "take"}

-----------------------------------------------------------------------------
(* netin.                                                                  *)

\* Mutant of Told: the reader is not sent a message.
ToldNot(i, e) ==
    /\ ends' = [ends EXCEPT ![i] = [e EXCEPT !.state = IF @ = "recv" THEN "used" ELSE @]]
    /\ UNCHANGED netmsg

\* The last lines of udp_in() and icmp_in(): who waits at end i is told; e is its entry.
Told(i, e) ==
    /\ ends' = [ends EXCEPT ![i] = [e EXCEPT !.state = IF @ = "recv" THEN "used" ELSE @]]
    /\ IF e.state = "recv" THEN NotifyEnd(e.pid) ELSE UNCHANGED netmsg

\* The packet in currpkt is put in the queue of end i, and netin gets a new buffer.
Accept(i, h) ==
    LET e == Enqueue(ends[i], Size(i), h)
    IN  IF MayGet
        THEN netfree' = netfree - 1 /\ Told(i, e) /\ UNCHANGED <<netwait, netin>>
        ELSE /\ netwait' = Append(netwait, 0)
             /\ netin' = [op |-> "refill", end |-> i]
             /\ ends' = [ends EXCEPT ![i] = e] /\ UNCHANGED <<netfree, netmsg>>

\* Mutant of Matching: a full queue is not passed over.
MatchingFull(h, loc) ==
    {i \in UdpEnds : /\ ends[i].state # "free" /\ ends[i].key.loc = loc
                     /\ ends[i].key.rem \in {AnyHost, h}}

\* The end points for a packet from host h to port loc that have room.
Matching(h, loc) ==
    {i \in UdpEnds : /\ ends[i].state # "free" /\ ends[i].key.loc = loc
                     /\ ends[i].key.rem \in {AnyHost, h}
                     /\ ends[i].count < UDP_QSIZ}

\* udp_in(); a packet no end takes is dropped.
UdpIn(h, loc) ==
    /\ NetinRuns /\ Matching(h, loc) # {}
    /\ Accept(Min(Matching(h, loc)), h)
    /\ netgot' = NoRead /\ UNCHANGED <<icmpout, outpkt, netcall, netload, echoes>>

\* icmp_in() of an answer of host h to slot i.
EchoReply(i, h) ==
    /\ NetinRuns /\ echoes[i][h] > 0
    /\ echoes' = [echoes EXCEPT ![i][h] = @ - 1]
    /\ IF ends[i].state # "free" /\ ends[i].key.rem = h THEN Accept(i, h)
       ELSE UNCHANGED <<ends, netfree, netwait, netin, netmsg>>
    /\ netgot' = NoRead /\ UNCHANGED <<icmpout, outpkt, netcall, netload>>

\* getbuf() returns to udp_in() or icmp_in().
Refill ==
    /\ netin.op = "refill" /\ Granted(0) /\ UNCHANGED shape
    /\ netfree' = netfree - 1 /\ netwait' = Tail(netwait)
    /\ Told(netin.end, ends[netin.end])
    /\ netin' = Reading
    /\ netgot' = NoRead /\ UNCHANGED <<icmpout, outpkt, netcall, netload, echoes>>

-----------------------------------------------------------------------------
(* Sending ICMP packets.                                                   *)

\* icmp_send() from getbuf() on.
PutOut(m) == icmpout' = Enqueue(icmpout, ICMP_OQSIZ, m) /\ netfree' = netfree - 1

\* The packets of end i that icmp_out has or will have.
Unsent(i) == LET of(m) == m # None /\ m.end = i
             IN  Cardinality({k \in DOMAIN icmpout.queue : of(icmpout.queue[k])})
                   + IF of(outpkt) THEN 1 ELSE 0

\* Bound: icmp_send() is not called when there is no room in the output queue; it does
\* not look.
OutRoom ==
    LET senders == {k \in DOMAIN netwait : netwait[k] # 0 \/ netin.op = "reply"}
    IN  icmpout.count + Cardinality(senders) < ICMP_OQSIZ

\* icmp_in() of an echo request: icmp_send() of the answer.
EchoRequest ==
    /\ NetinRuns /\ OutRoom
    /\ IF MayGet THEN PutOut(NoEnd) /\ UNCHANGED <<netwait, netin>>
       ELSE /\ netwait' = Append(netwait, 0) /\ netin' = [op |-> "reply", end |-> 0]
            /\ UNCHANGED <<icmpout, netfree>>
    /\ netgot' = NoRead /\ UNCHANGED <<ends, outpkt, netcall, netmsg, netload, echoes>>

EchoAnswered ==
    /\ netin.op = "reply" /\ Granted(0) /\ UNCHANGED shape
    /\ PutOut(NoEnd) /\ netwait' = Tail(netwait) /\ netin' = Reading
    /\ netgot' = NoRead /\ UNCHANGED <<ends, outpkt, netcall, netmsg, netload, echoes>>

\* icmp_send() of a request by the process that has slot i.
Ping(i) ==
    /\ NetinIdle /\ netcall[i] = "open" /\ OutRoom
    /\ Unsent(i) + FoldFunction(+, 0, echoes[i]) + ends[i].count < MaxPings
    /\ IF MayGet THEN PutOut([end |-> i, rem |-> ends[i].key.rem]) /\ UNCHANGED <<netwait, netcall>>
       ELSE /\ netwait' = Append(netwait, i) /\ netcall' = [netcall EXCEPT ![i] = "send"]
            /\ UNCHANGED <<icmpout, netfree>>
    /\ netgot' = NoRead /\ UNCHANGED <<ends, netin, outpkt, netmsg, netload, echoes>>

Pinged(i) ==
    /\ NetinIdle /\ netcall[i] = "send" /\ Granted(i)
    /\ PutOut([end |-> i, rem |-> ends[i].key.rem]) /\ netwait' = Tail(netwait)
    /\ netcall' = [netcall EXCEPT ![i] = "open"]
    /\ netgot' = NoRead /\ UNCHANGED <<ends, netin, outpkt, netmsg, netload, echoes>>

\* icmp_out() takes a packet.
OutTake ==
    /\ NetinIdle /\ outpkt = None /\ icmpout.count > 0
    /\ outpkt' = icmpout.queue[icmpout.head]
    /\ icmpout' = Dequeue(icmpout, ICMP_OQSIZ)
    /\ netgot' = NoRead
    /\ UNCHANGED <<ends, netfree, netwait, netin, netcall, netmsg, netload, echoes>>

\* It sends the packet, unless its host is not found, and frees the buffer.  A host
\* answers a request or not.
OutSend ==
    /\ NetinIdle /\ outpkt # None /\ outpkt' = None /\ netfree' = netfree + 1
    /\ \/ UNCHANGED echoes
       \/ /\ outpkt.end # 0
          /\ echoes' = [echoes EXCEPT ![outpkt.end][outpkt.rem] = @ + 1]
    /\ netgot' = NoRead
    /\ UNCHANGED <<ends, netwait, netin, icmpout, netcall, netmsg, netload>>

-----------------------------------------------------------------------------
(* The calls of programs.                                                  *)

\* The first free entry of S is marked for key k, which no end has, and filled in.
Register(S, k) ==
    LET free == {i \in S : ends[i].state = "free"}
        i    == Min(free)
    IN  /\ NetinIdle /\ free # {}
        /\ \A j \in S \ free : ends[j].key # k
        /\ ends' = [ends EXCEPT ![i].state = "used", ![i].key = k]
        /\ netcall' = [netcall EXCEPT ![i] = "fill"]
        /\ netgot' = NoRead
        /\ UNCHANGED <<netfree, netwait, netin, icmpout, outpkt, netmsg, netload, echoes>>

UdpRegister(k) == Register(UdpEnds, k)
IcmpRegister(k) == Register(IcmpEnds, k)

\* Their last assignments (udp.c:105-107, icmp.c:121-123).
Fill(i) ==
    /\ NetinIdle /\ netcall[i] = "fill"
    /\ ends' = [ends EXCEPT ![i].count = 0, ![i].head = 0, ![i].tail = 0, ![i].pid = 0,
                            ![i].queue = Empty(Size(i))]
    /\ netcall' = [netcall EXCEPT ![i] = "open"]
    /\ netgot' = NoRead
    /\ UNCHANGED <<netfree, netwait, netin, icmpout, outpkt, netmsg, netload, echoes>>

\* udp_recv(), udp_recvaddr() and icmp_recv() from the dequeuing on; n is what they read
\* the count to be.
TakePacket(i, n) ==
    /\ ends' = [ends EXCEPT ![i] = [Dequeue(@, Wrap(i)) EXCEPT !.state = "used", !.count = n - 1]]
    /\ netfree' = netfree + 1
    /\ netgot' = [end |-> i, ret |-> ends[i].queue[ends[i].head]]

\* They start.  What a process finds in its queue it takes with interrupts disabled.
Receive(i) ==
    /\ NetinIdle /\ netcall[i] = "open"
    /\ IF ends[i].count > 0 THEN TakePacket(i, ends[i].count) /\ UNCHANGED <<netcall, netmsg>>
       ELSE /\ ends' = [ends EXCEPT ![i].state = "recv", ![i].pid = i]
            /\ netmsg' = [netmsg EXCEPT ![i] = "none"]
            /\ netcall' = [netcall EXCEPT ![i] = "wait"]
            /\ netgot' = NoRead /\ UNCHANGED netfree
    /\ UNCHANGED <<netwait, netin, icmpout, outpkt, netload, echoes>>

\* recvtime() returns OK, or else TIMEOUT or another message.  It has switched processes,
\* and interrupts are enabled from now on; a process told OK goes on to lower the count.
Received(i) ==
    /\ NetinIdle /\ netcall[i] = "wait"
    /\ LET ok == netmsg[i] = "OK"
       IN  /\ netcall' = [netcall EXCEPT ![i] = IF ok THEN "take" ELSE "late"]
           /\ netload' = [netload EXCEPT ![i] = IF ok THEN ends[i].count ELSE 0]
    /\ netmsg' = [netmsg EXCEPT ![i] = "none"]
    /\ netgot' = NoRead
    /\ UNCHANGED <<ends, netfree, netwait, netin, icmpout, outpkt, echoes>>

\* The count, as it was read, less one is written back, and the packet is delivered.
Took(i) ==
    /\ NetinIdle /\ netcall[i] = "take"
    /\ TakePacket(i, netload[i])
    /\ netcall' = [netcall EXCEPT ![i] = "open"]
    /\ netload' = [netload EXCEPT ![i] = 0]
    /\ UNCHANGED <<netwait, netin, icmpout, outpkt, netmsg, echoes>>

\* No packet came in time; one may have come since.
Late(i) ==
    /\ NetinIdle /\ netcall[i] = "late"
    /\ ends' = [ends EXCEPT ![i].state = "used"]
    /\ netgot' = [end |-> i, ret |-> "timeout"]
    /\ netcall' = [netcall EXCEPT ![i] = "open"]
    /\ UNCHANGED <<netfree, netwait, netin, icmpout, outpkt, netmsg, netload, echoes>>

UdpRecv(i) == i \in UdpEnds /\ Receive(i)
\* It reads an end that takes packets of any host, and says whose the packet was.
UdpRecvaddr(i) == i \in UdpEnds /\ ends[i].key.rem = AnyHost /\ Receive(i)
IcmpRecv(i) == i \in IcmpEnds /\ Receive(i)

\* Mutant of Release: the packets in the queue are forgotten.
ReleaseFull(i) ==
    /\ NetinIdle /\ netcall[i] = "open" /\ ends[i].state = "used"
    /\ ends' = [ends EXCEPT ![i].state = "free", ![i].count = 0,
                            ![i].queue = Empty(Size(i))]
    /\ netcall' = [netcall EXCEPT ![i] = "idle"]
    /\ netgot' = NoRead
    /\ UNCHANGED <<netfree, netwait, netin, icmpout, outpkt, netmsg, netload, echoes>>

\* The packets in the queue are freed, then the entry.
Release(i) ==
    /\ NetinIdle /\ netcall[i] = "open" /\ ends[i].state = "used"
    /\ netfree' = netfree + ends[i].count
    /\ ends' = [ends EXCEPT ![i].state = "free", ![i].count = 0,
                            ![i].head = (@ + ends[i].count) % Wrap(i),
                            ![i].queue = Empty(Size(i))]
    /\ netcall' = [netcall EXCEPT ![i] = "idle"]
    /\ netgot' = NoRead
    /\ UNCHANGED <<netwait, netin, icmpout, outpkt, netmsg, netload, echoes>>

UdpRelease(i) == i \in UdpEnds /\ Release(i)
IcmpRelease(i) == i \in IcmpEnds /\ Release(i)

NetNext ==
    \/ \E h \in Hosts :
         \/ \E loc \in Locals : UdpIn(h, loc)
         \/ \E i \in IcmpEnds : EchoReply(i, h)
    \/ Refill \/ EchoRequest \/ EchoAnswered \/ OutTake \/ OutSend
    \/ \E i \in Ends : \/ Fill(i) \/ Received(i) \/ Took(i) \/ Late(i)
                       \/ UdpRecv(i) \/ UdpRecvaddr(i) \/ IcmpRecv(i)
                       \/ UdpRelease(i) \/ IcmpRelease(i)
    \/ \E i \in IcmpEnds : Ping(i) \/ Pinged(i)
    \/ \E k \in UdpKeys : UdpRegister(k)
    \/ \E k \in IcmpKeys : IcmpRegister(k)

NetSpec == NetInit /\ [][NetNext]_netVars

-----------------------------------------------------------------------------
\* Every packet buffer is in the pool, in a queue or in the hands of netin or icmp_out,
\* and in one place only: none leaks and none is freed twice, through reads, drops,
\* releases with packets in the queue, and answers to who is gone (udp.c, icmp.c).
BuffersOnce ==
    LET queued(e) == Cardinality({k \in DOMAIN e.queue : e.queue[k] # None})
        holders   == {x \in {"netin"} : netin.op # "refill"} \cup {x \in {"icmp_out"} : outpkt # None}
    IN  /\ \A i \in Ends : queued(ends[i]) = ends[i].count /\ ~Contains(Queue(i), None)
        /\ queued(icmpout) = icmpout.count
        /\ netfree + icmpout.count + Cardinality(holders)
             + FoldFunction(+, 0, [i \in Ends |-> ends[i].count]) = NetBufs

PQ(i) == INSTANCE PacketQueue WITH
    Packet <- Hosts, queue <- Queue(i),
    reading <- CASE netcall[i] \in {"wait", "take"} -> "yes" [] netcall[i] = "late" -> "over"
                 [] OTHER -> "no",
    result <- IF netgot.end = i THEN netgot.ret ELSE "none"

\* Packets are read in the order they came in, and a read times out only if none had come
\* when its wait ended (udp.c:154-187, icmp.c:157-190): a late packet against the timeout,
\* which stays in the queue and is the next one read.
PacketPromise ==
    /\ \A i \in Ends : PQ(i)!Init
    /\ [][\A i \in Ends : PQ(i)!Next \/ UNCHANGED PQ(i)!vars]_netVars

\* The pool is sized so that netin never waits for programs to read what they are sent:
\* it only waits for the one packet in the hands of icmp_out, which the size of the pool
\* does not count (netin.c:22-23).
NetinGetsBuffer == netin # Reading => outpkt # None \/ netfree > 0

\* "udhead: index of next packet to read" (udp.h:25), "circular packet queue" (udp.h:29):
\* where packets wait, the head is at the first of them.
HeadIsNext == \A i \in Ends : ends[i].count > 0 => ends[i].queue[ends[i].head] # None
==================================================================================
