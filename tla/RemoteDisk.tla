-------------------------------- MODULE RemoteDisk -------------------------------
(***************************************************************************)
(* The remote disk driver (device/rds).  Calls put requests into a queue;  *)
(* the process rdsprocess takes them out, exchanges messages with the      *)
(* server and keeps the blocks it has seen in a cache.  A buffer is on the *)
(* free list, in the queue or in the cache.                                *)
(*                                                                         *)
(* rdsprocess runs before the processes that make calls.  It is cut where  *)
(* it waits for a request and for a packet, a call after each wait().      *)
(* Bound: packets and ticks come at these cuts, although interrupts are    *)
(* enabled everywhere.                                                     *)
(***************************************************************************)
EXTENDS Links, FiniteSets

CONSTANTS
    RdUsers,        \* processes
    RD_BUFFS,       \* buffers
    RdBlocks,       \* block numbers
    RdSharings,     \* which blocks each process reads and writes, in all the ways to look at
    RdData,         \* contents of blocks
    RD_RETRIES,
    RdCap,          \* bound: packets under way in each direction
    MaxRdSeq        \* bound: exchanges of which packets may be under way

ASSUME RdAssumption ==
    /\ RD_BUFFS \in Nat /\ "rds" \notin RdUsers
    /\ RdSharings \subseteq [RdUsers -> SUBSET RdBlocks]

VARIABLES
    rdstate,        \* rd_state: "free", "open" or "pend"
    rdbuf,          \* the buffers: [op, refcnt, blk, valid, pid, data]
    rdfree,         \* the free list
    rdcache,        \* the cache, from its head
    rdreq,          \* the request queue
    rdavail,        \* rd_availsem: [count, queue]
    rdreqsem,       \* count of rd_reqsem
    rdseq,          \* rd_seq
    rdblk,          \* rd_blk in the message of rdsprocess, which a read does not set
    rdcomm,         \* the exchange of each process: [req, seq, i], NoComm without one
    rdcall,         \* a process's call
    rduses,         \* the blocks that each process reads and writes
    rdOut, rdIn,    \* packets under way to and from the server
    rddisk,         \* the blocks of the server
    rdlast,         \* history: what was written to each block last
    rdgot,          \* history: the read that ends in this step: [hit, blk, data]
    rdshared,       \* history: blocks that two calls used at a time, or whose buffer rdsClose()
                    \* took back before the reader had it
    rdstop          \* "no", "panic", or "lists": a list runs into another one

rdLists == <<rdbuf, rdfree, rdcache, rdreq, rdavail, rdreqsem>>
rdNet == <<rdOut, rdIn, rddisk>>
rdVars == <<rdstate, rdLists, rdseq, rdblk, rdcomm, rdcall, rduses, rdNet, rdlast, rdgot, rdshared, rdstop>>

RdBuffers == 1 .. RD_BUFFS
RdIdle == [at |-> "idle"]
NoComm == [req |-> [op |-> "none"]]
NoGot == [hit |-> "none"]
NoBuf == [op |-> "none", refcnt |-> 0, blk |-> 0, valid |-> FALSE, pid |-> "none", data |-> "0"]

\* rdsInit(); what the message of rdsprocess holds at first is arbitrary.
RdInit ==
    /\ rdstate = "free"
    /\ rdbuf = [b \in RdBuffers |-> NoBuf]
    /\ rdfree = [k \in RdBuffers |-> k] /\ rdcache = <<>> /\ rdreq = <<>>
    /\ rdavail = [count |-> RD_BUFFS, queue |-> <<>>] /\ rdreqsem = 0
    /\ rdseq = 1 /\ rdblk \in RdBlocks
    /\ rdcomm = [w \in RdUsers \cup {"rds"} |-> NoComm]
    /\ rdcall = [p \in RdUsers |-> RdIdle] /\ rduses \in RdSharings
    /\ rdOut = <<>> /\ rdIn = <<>>
    /\ rddisk = [k \in RdBlocks |-> "0"] /\ rdlast = rddisk
    /\ rdgot = NoGot /\ rdshared = {} /\ rdstop = "no"

-----------------------------------------------------------------------------
(* Exchanges (rdscomm.c).                                                  *)

\* Sequence numbers are only compared: they start again when none is in use.
FirstSeq == IF rdOut = <<>> /\ rdIn = <<>> /\ \A w \in DOMAIN rdcomm : rdcomm[w] = NoComm
            THEN 1 ELSE rdseq

\* w sends request q the first time.
RdExchange(w, q) ==
    /\ FirstSeq < MaxRdSeq
    /\ rdseq' = FirstSeq + 1
    /\ rdcomm' = [rdcomm EXCEPT ![w] = [req |-> q, seq |-> FirstSeq, i |-> 0]]
    /\ rdOut' \in Transmit(rdOut, RdCap, [seq |-> FirstSeq, req |-> q])

RdNoExchange == UNCHANGED <<rdseq, rdcomm, rdOut>>

\* The next attempt, in which the request is sent again or not.
RdRetry(w, xmit) ==
    /\ rdcomm[w].i + 1 < RD_RETRIES
    /\ rdcomm' = [rdcomm EXCEPT ![w].i = @ + 1]
    /\ rdOut' \in IF xmit THEN Transmit(rdOut, RdCap, [seq |-> rdcomm[w].seq, req |-> rdcomm[w].req])
                 ELSE {rdOut}
    /\ UNCHANGED <<rdstate, rdLists, rdcall, rdshared, rdstop>>

\* The server's answer to a request, and its disk after it.
RdServe ==
    /\ rdOut # <<>> /\ rdstop # "panic"
    /\ LET m == Head(rdOut)
           q == m.req
       IN  /\ rdOut' = Tail(rdOut)
           /\ rddisk' = CASE q.op = "write" -> [rddisk EXCEPT ![q.blk] = q.data]
                          [] q.op = "del"   -> [k \in RdBlocks |-> "0"]
                          [] OTHER -> rddisk
           /\ rdIn' \in Transmit(rdIn, RdCap, [seq |-> m.seq, op |-> q.op,
                                 data |-> IF q.op = "read" THEN rddisk[q.blk] ELSE "0"])
    /\ rdgot' = NoGot
    /\ UNCHANGED <<rdstate, rdLists, rdseq, rdblk, rdcomm, rdcall, rdlast, rdshared, rdstop>>

-----------------------------------------------------------------------------
(* Calls.                                                                  *)

\* rdsprocess has work to do, and does it before a call goes on.
RdBusy == rdreqsem > 0 /\ rdcomm["rds"] = NoComm
CanCall(p, at) == rdcall[p].at = at /\ rdstop = "no" /\ ~RdBusy

\* The first buffer of the cache that holds block k, 0 if none does.
Cached(k) == SelectInSeq(rdcache, LAMBDA b : rdbuf[b].blk = k)
Queued(k) == SelectLastInSeq(rdreq, LAMBDA b : rdbuf[b].blk = k)

Calls(p, x) == rdcall' = [rdcall EXCEPT ![p] = x]

\* p begins to use block k, which another process may be using.
Uses(p, k) ==
    rdshared' = IF \E q \in RdUsers \ {p} :
                      rdcall[q].at \in {"alloc", "recv", "got", "loop"} /\ rdcall[q].blk = k
                THEN rdshared \cup {k} ELSE rdshared

\* wait(rd_availsem) for a request of p.
WaitAvail(p, op, k, d) ==
    /\ Calls(p, [at |-> "alloc", op |-> op, blk |-> k, data |-> d])
    /\ rdavail' = [count |-> rdavail.count - 1,
                   queue |-> IF rdavail.count > 0 THEN <<>> ELSE Append(rdavail.queue, p)]

\* A block that is in memory: the buffer it is read from, 0 if it is in none.
InMemory(k) ==
    LET c == Cached(k)
        q == Queued(k)
    IN  IF c # 0 /\ rdbuf[rdcache[c]].valid THEN rdcache[c]
        ELSE IF q # 0 /\ rdbuf[rdreq[q]].op = "write" THEN rdreq[q]
        ELSE 0

\* rdsRead()
RdRead(p, k) ==
    /\ CanCall(p, "idle") /\ rdstate = "open"
    /\ IF InMemory(k) # 0
       THEN /\ rdgot' = [hit |-> "memory", blk |-> k, data |-> rdbuf[InMemory(k)].data]
            /\ UNCHANGED <<rdcall, rdavail>>
       ELSE WaitAvail(p, "read", k, "0") /\ rdgot' = NoGot
    /\ Uses(p, k) /\ RdNoExchange
    /\ UNCHANGED <<rdstate, rdbuf, rdfree, rdcache, rdreq, rdreqsem, rdblk, rdIn, rddisk, rdlast, rdstop>>

\* The buffers v, and b among them in the queue, with rdsprocess told of it.
Enqueue(b, v) ==
    /\ rdbuf' = [rdbuf EXCEPT ![b] = v]
    /\ rdreq' = Append(rdreq, b) /\ rdreqsem' = rdreqsem + 1

WriteOf(p, k, d) == [op |-> "write", refcnt |-> 0, blk |-> k, valid |-> TRUE, pid |-> p, data |-> d]

\* The write of block k that is queued, 0 if there is none.
QueuedWrite(k) == SelectInSeq(rdreq, LAMBDA b : rdbuf[b].blk = k /\ rdbuf[b].op = "write")

\* semreset() of rd_availsem to one less, which fails when that is negative.
AvailTaken == IF rdavail.count > 0 THEN [count |-> rdavail.count - 1, queue |-> <<>>] ELSE rdavail

\* Mutant of ReuseCached: the buffer is not unlinked from the cache.
ReuseCachedKept(p, k, d) ==
    LET c == Cached(k)
    IN  /\ c # 0 /\ rdbuf[rdcache[c]].refcnt <= 0
        /\ rdavail' = AvailTaken
        /\ Enqueue(rdcache[c], WriteOf(p, k, d))
        /\ UNCHANGED <<rdcall, rdfree, rdcache>>

\* A write takes over the cached copy.
ReuseCached(p, k, d) ==
    LET c == Cached(k)
    IN  /\ c # 0 /\ rdbuf[rdcache[c]].refcnt <= 0
        /\ rdcache' = RemoveAt(rdcache, c) /\ rdavail' = AvailTaken
        /\ Enqueue(rdcache[c], WriteOf(p, k, d))
        /\ UNCHANGED <<rdcall, rdfree>>

\* A write is changed while it is still queued.
ReplaceQueued(p, k, d) ==
    /\ QueuedWrite(k) # 0
    /\ rdbuf' = [rdbuf EXCEPT ![rdreq[QueuedWrite(k)]].data = d]
    /\ UNCHANGED <<rdcall, rdavail, rdfree, rdcache, rdreq, rdreqsem>>

\* Mutant of NewWrite: the cached copy is never looked for.
NewWriteBeside(p, k, d) ==
    /\ WaitAvail(p, "write", k, d)
    /\ UNCHANGED <<rdbuf, rdfree, rdcache, rdreq, rdreqsem>>

\* A write waits for a buffer of its own.
NewWrite(p, k, d) ==
    /\ Cached(k) # 0 => rdbuf[rdcache[Cached(k)]].refcnt > 0
    /\ WaitAvail(p, "write", k, d)
    /\ UNCHANGED <<rdbuf, rdfree, rdcache, rdreq, rdreqsem>>

\* rdsWrite()
RdWrite(p, k, d) ==
    /\ CanCall(p, "idle") /\ rdstate = "open"
    /\ \/ ReplaceQueued(p, k, d)
       \/ QueuedWrite(k) = 0 /\ (ReuseCached(p, k, d) \/ NewWrite(p, k, d))
    /\ rdlast' = IF rdcall' = rdcall THEN [rdlast EXCEPT ![k] = d] ELSE rdlast
    /\ Uses(p, k) /\ RdNoExchange /\ rdgot' = NoGot
    /\ UNCHANGED <<rdstate, rdblk, rdIn, rddisk, rdstop>>

\* RDS_CTL_SYNC waits for a buffer, to which it gives the block number 0.
RdSync(p) ==
    /\ CanCall(p, "idle") /\ rdstate = "open"
    /\ WaitAvail(p, "sync", 0, "0") /\ Uses(p, 0)
    /\ RdNoExchange /\ rdgot' = NoGot
    /\ UNCHANGED <<rdstate, rdbuf, rdfree, rdcache, rdreq, rdreqsem, rdblk, rdIn, rddisk, rdlast, rdstop>>

\* The cached buffers that nobody reads.
Unread == {c \in DOMAIN rdcache : rdbuf[rdcache[c]].refcnt <= 0}

\* rdsbufalloc() returns buffer b, and the request is queued.  resume() does not wake
\* rdsprocess for a SYNC: only signal(rd_reqsem) does.
Queue(p, b) ==
    LET c == rdcall[p]
        v == IF c.op = "write" THEN WriteOf(p, c.blk, c.data)
             ELSE [op |-> c.op, refcnt |-> 1, blk |-> c.blk, valid |-> FALSE, pid |-> p, data |-> "0"]
    IN  /\ rdbuf' = [rdbuf EXCEPT ![b] = v]
        /\ rdreq' = Append(rdreq, b)
        /\ rdreqsem' = IF c.op = "sync" THEN rdreqsem ELSE rdreqsem + 1
        /\ Calls(p, IF c.op = "write" THEN RdIdle ELSE [at |-> "recv", blk |-> c.blk])
        /\ rdlast' = IF c.op = "write" THEN [rdlast EXCEPT ![c.blk] = c.data] ELSE rdlast
        /\ UNCHANGED rdstop

RdAlloc(p) ==
    /\ CanCall(p, "alloc") /\ ~Contains(rdavail.queue, p)
    /\ \/ /\ rdfree # <<>>
          /\ rdfree' = Tail(rdfree) /\ UNCHANGED rdcache
          /\ Queue(p, Head(rdfree))
       \/ /\ rdfree = <<>> /\ Unread # {}
          /\ rdcache' = RemoveAt(rdcache, Max(Unread)) /\ UNCHANGED rdfree
          /\ Queue(p, rdcache[Max(Unread)])
       \/ /\ rdfree = <<>> /\ Unread = {}
          /\ rdstop' = "panic"
          /\ UNCHANGED <<rdbuf, rdfree, rdcache, rdreq, rdreqsem, rdcall, rdlast>>
    /\ RdNoExchange /\ rdgot' = NoGot
    /\ UNCHANGED <<rdstate, rdavail, rdblk, rdIn, rddisk, rdshared>>

\* rdsRead() after receive() returned buffer b: unless b is still first in the cache, the
\* search for another copy never ends, and unlinks b again and again if the first in the
\* cache has the block, or if the cache is empty and rd_availsem, which stands where the end
\* of the cache would have its block number, is the number of the block.
RdReceived(p) ==
    /\ CanCall(p, "got")
    /\ LET b == rdcall[p].buf
           k == rdcall[p].blk
           first == rdcache # <<>> /\ Head(rdcache) = b
       IN  /\ rdbuf' = [rdbuf EXCEPT ![b].refcnt = @ - 1]
           /\ IF rdbuf[b].refcnt <= 1 /\ ~first
              THEN /\ Calls(p, [at |-> "loop", blk |-> k])
                   /\ rdstop' \in IF Cached(k) = 1 THEN {"lists"}
                                 ELSE IF rdcache = <<>> THEN {"no", "lists"} ELSE {"no"}
                   /\ rdgot' = NoGot
              ELSE /\ Calls(p, RdIdle) /\ UNCHANGED rdstop
                   /\ rdgot' = [hit |-> "disk", blk |-> k, data |-> rdbuf[b].data]
    /\ RdNoExchange
    /\ UNCHANGED <<rdstate, rdfree, rdcache, rdreq, rdavail, rdreqsem, rdblk, rdIn, rddisk, rdlast, rdshared>>

\* RDS_CTL_SYNC after receive().
RdSynced(p) ==
    /\ CanCall(p, "synced") /\ Calls(p, RdIdle)
    /\ RdNoExchange /\ rdgot' = NoGot
    /\ UNCHANGED <<rdstate, rdLists, rdblk, rdIn, rddisk, rdlast, rdshared, rdstop>>

\* rdsOpen(): a name that is too long, or a server that does not answer, leaves the device
\* pending.
RdOpen(p) ==
    /\ CanCall(p, "idle") /\ rdstate = "free"
    /\ rdstate' = "pend"
    /\ \/ RdExchange(p, [op |-> "open"]) /\ Calls(p, [at |-> "comm"])
       \/ RdNoExchange /\ UNCHANGED rdcall
    /\ rdgot' = NoGot
    /\ UNCHANGED <<rdLists, rdblk, rdIn, rddisk, rdlast, rdshared, rdstop>>

\* The lists when rdsClose() moved the cache to the free list, one buffer after the other,
\* those too that a process was told of and has not read.
Emptied ==
    /\ rdfree' = Reverse(rdcache) \o rdfree /\ rdcache' = <<>>
    /\ rdbuf' = [b \in RdBuffers |-> IF Contains(rdcache, b) THEN [rdbuf[b] EXCEPT !.valid = FALSE]
                                   ELSE rdbuf[b]]
    /\ rdstate' = "free"
    /\ rdshared' = rdshared \cup {rdcall[q].blk : q \in {q \in RdUsers : rdcall[q].at = "got"}}

RdClose(p) ==
    /\ CanCall(p, "idle") /\ rdstate = "open" /\ rdreq = <<>>
    /\ Emptied
    /\ RdNoExchange /\ rdgot' = NoGot
    /\ UNCHANGED <<rdcall, rdreq, rdavail, rdreqsem, rdblk, rdIn, rddisk, rdlast, rdstop>>

\* RDS_CTL_DEL
RdDelete(p) ==
    /\ CanCall(p, "idle") /\ rdstate = "open"
    /\ RdExchange(p, [op |-> "del"]) /\ Calls(p, [at |-> "comm"])
    /\ rdgot' = NoGot
    /\ UNCHANGED <<rdstate, rdLists, rdblk, rdIn, rddisk, rdlast, rdshared, rdstop>>

-----------------------------------------------------------------------------
(* rdsprocess.                                                             *)

\* signal(rd_availsem)
SignalAvail == rdavail' = [count |-> rdavail.count + 1,
                           queue |-> IF rdavail.count < 0 THEN Tail(rdavail.queue) ELSE <<>>]

\* A read stays first in the queue until the answer comes.
TakeRead(b) ==
    /\ RdExchange("rds", [op |-> "read", blk |-> rdblk])
    /\ UNCHANGED <<rdbuf, rdfree, rdcache, rdreq, rdavail, rdcall, rdblk>>

\* A write is in the cache, and its buffer may be used again, before it is sent.
TakeWrite(b) ==
    /\ rdblk' = rdbuf[b].blk
    /\ RdExchange("rds", [op |-> "write", blk |-> rdbuf[b].blk, data |-> rdbuf[b].data])
    /\ rdreq' = Tail(rdreq) /\ rdcache' = <<b>> \o rdcache
    /\ rdbuf' = [rdbuf EXCEPT ![b].refcnt = 0]
    /\ SignalAvail
    /\ UNCHANGED <<rdfree, rdcall>>

TakeSync(b) ==
    /\ Calls(rdbuf[b].pid, [at |-> "synced"])
    /\ rdreq' = Tail(rdreq) /\ rdfree' = <<b>> \o rdfree
    /\ SignalAvail /\ RdNoExchange
    /\ UNCHANGED <<rdbuf, rdcache, rdblk>>

\* rdsprocess takes the request that is first in the queue.
RdTake ==
    /\ RdBusy /\ rdstop = "no" /\ rdreq # <<>>
    /\ rdreqsem' = rdreqsem - 1
    /\ LET b == Head(rdreq)
       IN  CASE rdbuf[b].op = "read"  -> TakeRead(b)
             [] rdbuf[b].op = "write" -> TakeWrite(b)
             [] rdbuf[b].op = "sync"  -> TakeSync(b)
    /\ rdgot' = NoGot
    /\ UNCHANGED <<rdstate, rdIn, rddisk, rdlast, rdshared, rdstop>>

\* What rdsprocess does with the block d that it asked for.  If another process waits to
\* read the block, its request is unlinked with the neighbours of this one, which is in the
\* cache already.
ReadDone(d) ==
    LET b == Head(rdreq)
        p == rdbuf[b].pid
        again == \E k \in 2 .. Len(rdreq) : rdbuf[rdreq[k]].blk = rdbuf[b].blk
    IN  /\ rdreq' = Tail(rdreq) /\ rdcache' = <<b>> \o rdcache
        /\ rdbuf' = [rdbuf EXCEPT ![b].data = d, ![b].refcnt = 1]
        /\ Calls(p, [at |-> "got", buf |-> b, blk |-> rdcall[p].blk])
        /\ rdstop' = IF again THEN "lists" ELSE rdstop
        /\ SignalAvail /\ UNCHANGED <<rdstate, rdfree, rdreqsem, rdshared>>

\* The end of an exchange of w, with answer d.
RdDone(w, d) ==
    /\ rdcomm' = [rdcomm EXCEPT ![w] = NoComm] /\ UNCHANGED rdOut
    /\ CASE rdcomm[w].req.op = "read"  -> ReadDone(d)
         [] rdcomm[w].req.op = "write" -> UNCHANGED <<rdstate, rdLists, rdcall, rdshared, rdstop>>
         [] rdcomm[w].req.op = "open"  ->
                rdstate' = "open" /\ Calls(w, RdIdle) /\ UNCHANGED <<rdLists, rdshared, rdstop>>
         [] rdcomm[w].req.op = "del"   ->
                /\ Calls(w, RdIdle) /\ UNCHANGED <<rdreq, rdavail, rdreqsem, rdstop>>
                /\ IF rdstate = "open" /\ rdreq = <<>> THEN Emptied
                   ELSE UNCHANGED <<rdstate, rdbuf, rdfree, rdcache, rdshared>>

\* The exchange of w fails: rdsprocess panics.
RdFailed(w) ==
    /\ rdcomm' = [rdcomm EXCEPT ![w] = NoComm] /\ UNCHANGED rdOut
    /\ IF w = "rds" THEN rdstop' = "panic" /\ UNCHANGED rdcall
       ELSE Calls(w, RdIdle) /\ UNCHANGED rdstop
    /\ UNCHANGED <<rdstate, rdLists, rdshared>>

Exchanging(w) == rdcomm[w] # NoComm /\ rdstop # "panic"

LastTry(w) == rdcomm[w].i + 1 = RD_RETRIES

\* udp_recv() returns TIMEOUT.
RdTimeout(w) ==
    /\ Exchanging(w)
    /\ RdRetry(w, TRUE) \/ (LastTry(w) /\ RdFailed(w))
    /\ rdgot' = NoGot
    /\ UNCHANGED <<rdseq, rdblk, rdIn, rddisk, rdlast>>

\* udp_recv() returns a packet.  An answer to an earlier request is taken for the one to
\* this if it is of the same type.
RdReply(w) ==
    /\ Exchanging(w) /\ rdIn # <<>>
    /\ rdIn' = Tail(rdIn)
    /\ LET r == Head(rdIn)
           old == r.seq < rdcomm[w].seq
           mine == (old \/ r.seq = rdcomm[w].seq) /\ r.op = rdcomm[w].req.op
       IN  \/ mine /\ RdDone(w, r.data)
           \/ ~mine /\ (RdRetry(w, ~old) \/ (LastTry(w) /\ RdFailed(w)))
    /\ rdgot' = NoGot
    /\ UNCHANGED <<rdseq, rdblk, rddisk, rdlast>>

RdUser(p) ==
    \/ \E k \in rduses[p] : RdRead(p, k) \/ \E d \in RdData : RdWrite(p, k, d)
    \/ RdSync(p) \/ RdAlloc(p) \/ RdReceived(p) \/ RdSynced(p)
    \/ RdOpen(p) \/ RdClose(p) \/ RdDelete(p)

RdNext ==
    /\ \/ \E p \in RdUsers : RdUser(p)
       \/ RdTake \/ RdServe
       \/ \E w \in DOMAIN rdcomm : RdTimeout(w) \/ RdReply(w)
    /\ UNCHANGED rduses

RdSpec == RdInit /\ [][RdNext]_rdVars

-----------------------------------------------------------------------------
(* Properties.                                                             *)

\* Every buffer is in one list, whichever call or exchange moved it last, and a request
\* that is not answered is in the queue; the lists run into one another only when two calls
\* use a block at a time, or when the device is closed under a reader (rdsWrite.c:49-58,
\* rdsprocess.c:68-128, 145-161, rdsRead.c:96-118, rdsClose.c).
RdBuffersOnce ==
    IF rdstop = "lists" THEN rdshared # {}
    ELSE /\ IsInjective(rdfree \o rdcache \o rdreq)
         /\ Len(rdfree \o rdcache \o rdreq) = RD_BUFFS
         /\ \A p \in RdUsers : rdcall[p].at = "recv" => \E k \in DOMAIN rdreq : rdbuf[rdreq[k]].pid = p

\* A block that is read from memory, and that no two calls ever used at the same time, is as
\* it was written last: no older copy in the cache or the queue is found first
\* (rdsRead.c:33-63, rdsWrite.c:29-70).
CacheTrue ==
    rdgot.hit = "memory" /\ rdgot.blk \notin rdshared => rdgot.data = rdlast[rdgot.blk]

\* "rd_blk: block number to read" (rdisksys.h:162), "block number that was read"
\* (rdisksys.h:169): a block that comes from the server is the one that was asked for.
DiskTrue ==
    rdgot.hit = "disk" /\ rdgot.blk \notin rdshared => rdgot.data = rdlast[rdgot.blk]
==================================================================================
