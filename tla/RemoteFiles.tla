------------------------------- MODULE RemoteFiles -------------------------------
(***************************************************************************)
(* The remote file system (device/rfs): calls that are exchanges of a      *)
(* request and a reply with a server, over UDP, one at a time.             *)
(*                                                                         *)
(* A call is cut where it waits: for the mutex, and for a packet.  The     *)
(* network loses packets and delays them past any timeout; a reply that    *)
(* comes too late is read by a later exchange.                             *)
(***************************************************************************)
EXTENDS FileServer, Links, FiniteSets

CONSTANTS
    RfUsers,        \* processes
    Nrfl,           \* file pseudo-devices
    RfNames,        \* of files
    RfModes,        \* modes of open(): [rights, new], new being "o", "n" or ""
    RfBuffers,      \* what write() writes
    RfCount,        \* bytes that read() asks for
    RF_RETRIES,
    LinkCap,        \* bound: packets under way in each direction
    MaxSeq,         \* bound: exchanges of which packets may be under way
    MaxSize,        \* bound: size a file is written up to
    Reorders        \* a packet may overtake another

VARIABLES
    rfltab,         \* [state, name, pos, mode]
    rfseq,          \* Rf_data.rf_seq
    rfmutex,        \* Rf_data.rf_mutex: [count, queue]
    rfcall,         \* a process's call: where it is, its request, entry, and attempts
    toServer, toClient,     \* packets under way, the ones queued at the UDP end included
    rffiles,        \* the files of the server
    rfgot           \* history: what the call that ends in this step returns

rfVars == <<rfltab, rfseq, rfmutex, rfcall, toServer, toClient, rffiles, rfgot>>

RfDevices == 0 .. Nrfl - 1
RfIdle == [at |-> "idle"]
RfFree == [state |-> "free", name |-> "", pos |-> 0, mode |-> {}]

\* rfsInit(), rflInit().
RfInit ==
    /\ rfltab = [d \in RfDevices |-> RfFree]
    /\ rfseq = 1 /\ rfmutex = [count |-> 1, queue |-> <<>>]
    /\ rfcall = [p \in RfUsers |-> RfIdle]
    /\ toServer = <<>> /\ toClient = <<>>
    /\ rffiles = [n \in {} |-> <<>>]
    /\ rfgot = NoReturn

-----------------------------------------------------------------------------
(* The calls.                                                              *)

\* rfsControl() asks for the size of the file in entry 0, the minor number of the master
\* device.
DeviceCalls == [op : {"close", "read"}, dev : RfDevices] \cup {[op |-> "size", dev |-> 0]}
                 \cup [op : {"seek"}, dev : RfDevices, pos : {0, 1}]
                 \cup [op : {"write"}, dev : RfDevices, data : RfBuffers]
NameCalls == [op : {"open"}, name : RfNames, mode : RfModes]
                 \cup [op : {"trunc", "del"}, name : RfNames]

\* A call comes to wait(rf_mutex); what it asks is not looked at before.  Sequence numbers
\* are only compared: they start again when none is in use.
RfCall(p) ==
    /\ rfcall[p] = RfIdle
    /\ LET quiet == toServer = <<>> /\ toClient = <<>> /\ \A u \in RfUsers : rfcall[u] = RfIdle
       IN  rfseq' = IF quiet THEN 1 ELSE rfseq
    /\ rfseq' + Cardinality({u \in RfUsers : rfcall[u].at = "enter"}) < MaxSeq
    /\ rfcall' = [rfcall EXCEPT ![p] = [at |-> "enter"]]
    /\ rfmutex' = [count |-> rfmutex.count - 1,
                   queue |-> IF rfmutex.count > 0 THEN <<>> ELSE Append(rfmutex.queue, p)]
    /\ rfgot' = NoReturn
    /\ UNCHANGED <<rfltab, toServer, toClient, rffiles>>

\* p returns r and signals rf_mutex.
RfReturn(p, r) ==
    /\ rfgot' = r
    /\ rfcall' = [rfcall EXCEPT ![p] = RfIdle]
    /\ rfmutex' = [count |-> rfmutex.count + 1,
                   queue |-> IF rfmutex.count < 0 THEN Tail(rfmutex.queue) ELSE <<>>]

\* p has the mutex, for call c.
Entering(p, c, ops) == rfcall[p].at = "enter" /\ ~Contains(rfmutex.queue, p) /\ c.op \in ops

\* A call on a device that its state or mode does not allow.
Forbidden(c) ==
    CASE c.op = "open"  -> \A d \in RfDevices : rfltab[d].state = "used"
      [] c.op = "read"  -> rfltab[c.dev].state = "free" \/ "r" \notin rfltab[c.dev].mode
      [] c.op = "write" -> rfltab[c.dev].state = "free" \/ "w" \notin rfltab[c.dev].mode
      [] c.op \in {"seek", "close"} -> rfltab[c.dev].state = "free"
      [] OTHER -> FALSE

AllCalls == {"open", "close", "seek", "read", "write", "size", "trunc", "del"}

\* Mutant of RfRefuse: rf_mutex is not signalled.
RfRefuseKept(p, c) ==
    /\ Entering(p, c, AllCalls) /\ Forbidden(c)
    /\ rfgot' = SYSERR /\ rfcall' = [rfcall EXCEPT ![p] = RfIdle]
    /\ UNCHANGED <<rfltab, rfseq, rfmutex, toServer, toClient, rffiles>>

\* A way out before the server is asked.
RfRefuse(p, c) ==
    /\ Entering(p, c, AllCalls) /\ Forbidden(c)
    /\ RfReturn(p, SYSERR)
    /\ UNCHANGED <<rfltab, rfseq, toServer, toClient, rffiles>>

\* rflClose(), which tells the server nothing, and rflSeek().
RfLocal(p, c) ==
    /\ Entering(p, c, {"close", "seek"}) /\ ~Forbidden(c)
    /\ rfltab' = IF c.op = "close" THEN [rfltab EXCEPT ![c.dev] = [RfFree EXCEPT !.name = rfltab[c.dev].name]]
                 ELSE [rfltab EXCEPT ![c.dev].pos = c.pos]
    /\ RfReturn(p, <<>>)
    /\ UNCHANGED <<rfseq, toServer, toClient, rffiles>>

\* The entry that open() takes.
FirstFree == Min({d \in RfDevices : rfltab[d].state = "free"})

\* A request; what its kind does not use is zero.
Request(op, n) == [op |-> op, name |-> n, new |-> "", pos |-> 0, count |-> 0, data |-> <<>>]

OpenRequest(c) == [Request("open", c.name) EXCEPT !.new = c.mode.new]

\* Of the device with entry e.
ReadRequest(e) == [Request("read", e.name) EXCEPT !.pos = e.pos, !.count = RfCount]
WriteRequest(e, b) == [Request("write", e.name) EXCEPT !.pos = e.pos, !.data = b]

\* The request of call c.
RequestOf(c) ==
    CASE c.op = "open"  -> OpenRequest(c)
      [] c.op = "read"  -> ReadRequest(rfltab[c.dev])
      [] c.op = "write" -> WriteRequest(rfltab[c.dev], c.data)
      [] c.op = "size"  -> Request("size", rfltab[c.dev].name)
      [] OTHER          -> Request(c.op, c.name)

\* The name is in the entry before the server is asked; what else a free entry keeps is
\* not looked at.
Named(c) == IF c.op = "open" THEN [rfltab EXCEPT ![FirstFree].name = c.name] ELSE rfltab

\* udp_send()
SendRequest(c) == toServer' \in Transmit(toServer, LinkCap, [seq |-> c.seq, req |-> c.req])

\* The request is formed, and rfscomm() sends it first.
RfRequest(p, c) ==
    LET d == IF c.op = "open" THEN FirstFree ELSE IF c.op \in {"trunc", "del"} THEN 0 ELSE c.dev
        x == [at |-> "recv", req |-> RequestOf(c), dev |-> d, seq |-> rfseq, i |-> 0,
              mode |-> IF c.op = "open" THEN c.mode.rights ELSE {}]
    IN  /\ Entering(p, c, AllCalls \ {"close", "seek"}) /\ ~Forbidden(c)
        /\ c.op = "write" => rfltab[d].pos + Len(c.data) <= MaxSize
        /\ rfltab' = Named(c)
        /\ rfcall' = [rfcall EXCEPT ![p] = x]
        /\ rfseq' = rfseq + 1
        /\ SendRequest(x) /\ rfgot' = NoReturn
        /\ UNCHANGED <<rfmutex, toClient, rffiles>>

\* udp_send() fails: the server's Ethernet address is not found.
RfSendFails(p, c) ==
    /\ Entering(p, c, AllCalls \ {"close", "seek"}) /\ ~Forbidden(c)
    /\ rfltab' = Named(c) /\ rfseq' = rfseq + 1
    /\ RfReturn(p, SYSERR)
    /\ UNCHANGED <<toServer, toClient, rffiles>>

-----------------------------------------------------------------------------
(* The exchange.                                                           *)

\* The next attempt, or the end of them: none is left, or udp_send() fails.
RfRetry(p) ==
    \/ /\ rfcall[p].i + 1 < RF_RETRIES
       /\ rfcall' = [rfcall EXCEPT ![p].i = @ + 1]
       /\ SendRequest(rfcall[p]) /\ rfgot' = NoReturn
       /\ UNCHANGED rfmutex
    \/ RfReturn(p, SYSERR) /\ UNCHANGED toServer

\* udp_recv() returns TIMEOUT; what is under way is late.
RfTimeout(p) ==
    /\ rfcall[p].at = "recv"
    /\ RfRetry(p)
    /\ UNCHANGED <<rfltab, rfseq, toClient, rffiles>>

\* The ends of the calls of p whose reply r has come.
RfOpened(p, r) ==
    /\ rfcall[p].req.op = "open" /\ r.ok
    /\ rfltab' = [rfltab EXCEPT ![rfcall[p].dev] =
                    [state |-> "used", name |-> rfcall[p].req.name, pos |-> 0, mode |-> rfcall[p].mode]]
    /\ RfReturn(p, r.data)

RfRead(p, r) ==
    /\ rfcall[p].req.op = "read" /\ r.ok
    /\ rfltab' = [rfltab EXCEPT ![rfcall[p].dev].pos = @ + Len(r.data)]
    /\ RfReturn(p, r.data)

RfWritten(p, r) ==
    /\ rfcall[p].req.op = "write" /\ r.ok
    /\ rfltab' = [rfltab EXCEPT ![rfcall[p].dev].pos = @ + Len(r.data)]
    /\ RfReturn(p, r.data)

\* rfsControl() does not look at the status of a size.
RfControlled(p, r) ==
    /\ rfcall[p].req.op \in {"size", "trunc", "del"}
    /\ r.ok \/ rfcall[p].req.op = "size"
    /\ RfReturn(p, r.data) /\ UNCHANGED rfltab

\* The server has not done it.
RfDeclined(p, r) ==
    /\ rfcall[p].req.op # "size" /\ ~r.ok
    /\ RfReturn(p, SYSERR) /\ UNCHANGED rfltab

RfAnswered(p, r) ==
    /\ RfOpened(p, r) \/ RfRead(p, r) \/ RfWritten(p, r) \/ RfControlled(p, r) \/ RfDeclined(p, r)
    /\ UNCHANGED toServer

\* Mutant of RfReply: the sequence number is not compared.
RfReplyUnchecked(p) ==
    /\ rfcall[p].at = "recv"
    /\ \E k \in Arriving(toClient, Reorders) :
         LET r == toClient[k]
         IN  /\ toClient' = RemoveAt(toClient, k)
             /\ IF r.op = rfcall[p].req.op THEN RfAnswered(p, r)
                ELSE RfRetry(p) /\ UNCHANGED rfltab
    /\ UNCHANGED <<rfseq, rffiles>>

\* udp_recv() returns a reply: it is the one to this request, or an attempt is used up.
RfReply(p) ==
    /\ rfcall[p].at = "recv"
    /\ \E k \in Arriving(toClient, Reorders) :
         LET r == toClient[k]
         IN  /\ toClient' = RemoveAt(toClient, k)
             /\ IF r.seq = rfcall[p].seq /\ r.op = rfcall[p].req.op THEN RfAnswered(p, r)
                ELSE RfRetry(p) /\ UNCHANGED rfltab
    /\ UNCHANGED <<rfseq, rffiles>>

\* The server serves a request.
RfServe ==
    /\ \E k \in Arriving(toServer, Reorders) :
         LET m == toServer[k]
             a == Serve(rffiles, m.req)
         IN  /\ toServer' = RemoveAt(toServer, k) /\ rfgot' = NoReturn
             /\ rffiles' = a.files
             /\ toClient' \in Transmit(toClient, LinkCap, [seq |-> m.seq, op |-> m.req.op, ok |-> a.ok,
                                                  data |-> a.data])
    /\ UNCHANGED <<rfltab, rfseq, rfmutex, rfcall>>

RfStep(p) ==
    \/ \E c \in DeviceCalls \cup NameCalls : RfRefuse(p, c) \/ RfLocal(p, c)
                                            \/ RfRequest(p, c) \/ RfSendFails(p, c)
    \/ RfTimeout(p) \/ RfReply(p)

RfNext ==
    \/ \E p \in RfUsers : RfCall(p) \/ RfStep(p)
    \/ RfServe

\* Who can run does, and udp_recv() ends.
RfFairness == \A p \in RfUsers : WF_rfVars(RfStep(p))

RfSpec == RfInit /\ [][RfNext]_rfVars /\ RfFairness

-----------------------------------------------------------------------------
Store == INSTANCE RemoteStore WITH
    Device <- RfDevices, content <- rffiles, got <- rfgot,
    asked <- {toServer[k].req : k \in DOMAIN toServer} \cup
             {rfcall[p].req : p \in {u \in RfUsers : rfcall[u].at = "recv"}},
    at <- [d \in RfDevices |-> IF rfltab[d].state = "free" THEN [name |-> "", pos |-> 0]
                               ELSE [name |-> rfltab[d].name, pos |-> rfltab[d].pos]]

\* A call that succeeds did what it says, to the file as it is then, and nothing that was
\* asked for before takes effect any more: neither a copy of a request that was sent
\* again, nor the reply to an earlier one, nor a position that was moved for a call that
\* failed (rfscomm.c:39-76, rflRead.c:78-99, rflWrite.c:77-96).
StorePromise == Store!Spec

\* Every call returns, and lets the next one in: each of the ways out signals rf_mutex.
CallsReturn == \A p \in RfUsers : rfcall[p] # RfIdle ~> rfcall[p] = RfIdle
==================================================================================
