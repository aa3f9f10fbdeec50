------------------------------- MODULE BufferPool --------------------------------
(***************************************************************************)
(* Pools of fixed-size buffers (system/mkbufpool.c, getbuf.c, freebuf.c).  *)
(* A free buffer holds the link to the next one in its first word, a       *)
(* buffer in use the number of its pool.                                   *)
(*                                                                         *)
(* getbuf() runs with interrupts disabled unless its wait() blocks: the    *)
(* switch enables them, and a clock tick may then come between the read    *)
(* and the write of the head of the free list.  Preempt says whether who   *)
(* runs meanwhile may move the head of the same list.                      *)
(***************************************************************************)
EXTENDS Integers, FiniteSets, SequencesExt

CONSTANTS
    BufUsers,       \* processes
    NBPOOLS,        \* entries of buftab
    HeapBufs,       \* bound: buffers the heap has memory for
    NSEM,           \* semaphores
    Preempt         \* a list may change while a process has read its head

ASSUME PoolsFit ==
    /\ IsFiniteSet(BufUsers)
    /\ NBPOOLS \in Nat /\ HeapBufs \in Nat

VARIABLES
    buftab,         \* pools made so far: [next, sem], sem as [count, queue]
    heapBufs,       \* memory left, in buffers
    link,           \* first word of each buffer
    bufcall,        \* a process's getbuf(): [op, pool, buf]
    held            \* the buffers each process got and did not free

bufVars == <<buftab, heapBufs, link, bufcall, held>>

Null == -1
BUnused == [op |-> "idle"]

\* Pools are numbered from 1, buffers after them, so that no link looks like a pool.
Bufs == NBPOOLS + 1 .. NBPOOLS + HeapBufs

BufInit ==
    /\ buftab = <<>> /\ heapBufs = HeapBufs
    /\ link = [b \in Bufs |-> Null]
    /\ bufcall = [p \in BufUsers |-> BUnused]
    /\ held = [p \in BufUsers |-> {}]

Pools == DOMAIN buftab

\* mkbufpool(): the memory is lost when there is no semaphore left.
MakePool(n) ==
    LET first == NBPOOLS + 1 + HeapBufs - heapBufs
    IN  /\ Len(buftab) < NBPOOLS /\ n \in 1 .. heapBufs
        /\ heapBufs' = heapBufs - n
        /\ IF Len(buftab) = NSEM THEN UNCHANGED <<buftab, link>>
           ELSE /\ buftab' = Append(buftab, [next |-> first, sem |-> [count |-> n, queue |-> <<>>]])
                /\ link' = [b \in Bufs |-> IF b \in first .. first + n - 2 THEN b + 1
                                           ELSE IF b = first + n - 1 THEN Null ELSE link[b]]
        /\ UNCHANGED <<bufcall, held>>

\* The list of pool i may be changed.
MayMove(i) == Preempt \/ ~\E p \in BufUsers : bufcall[p].op = "load" /\ bufcall[p].pool = i

\* The head b of the list is unlinked; its link is read now.
Unlink(p, i, b, tab) ==
    /\ buftab' = [tab EXCEPT ![i].next = link[b]]
    /\ link' = [link EXCEPT ![b] = i]
    /\ held' = [held EXCEPT ![p] = @ \cup {b}]

\* getbuf(), up to its end or to a wait() that blocks.
GetBuf(p, i) ==
    LET tab == [buftab EXCEPT ![i].sem.count = @ - 1]
    IN  /\ bufcall[p] = BUnused
        /\ IF buftab[i].sem.count > 0
           THEN MayMove(i) /\ Unlink(p, i, buftab[i].next, tab) /\ UNCHANGED bufcall
           ELSE /\ buftab' = [tab EXCEPT ![i].sem.queue = Append(@, p)]
                /\ bufcall' = [bufcall EXCEPT ![p] = [op |-> "wait", pool |-> i]]
                /\ UNCHANGED <<link, held>>
        /\ UNCHANGED heapBufs

Woken(p) == bufcall[p].op = "wait" /\ ~Contains(buftab[bufcall[p].pool].sem.queue, p)

\* The rest of getbuf() after a wait() that has blocked: the head is read, and updated.
GetBufLoad(p) ==
    /\ Woken(p) /\ MayMove(bufcall[p].pool)
    /\ bufcall' = [bufcall EXCEPT ![p] = [op |-> "load", pool |-> @.pool,
                                          buf |-> buftab[@.pool].next]]
    /\ UNCHANGED <<buftab, heapBufs, link, held>>

GetBufStore(p) ==
    /\ bufcall[p].op = "load"
    /\ Unlink(p, bufcall[p].pool, bufcall[p].buf, buftab)
    /\ bufcall' = [bufcall EXCEPT ![p] = BUnused]
    /\ UNCHANGED heapBufs

\* Mutant of FreeBuf: the semaphore is not signalled when somebody waits for it.
FreeBufUnsignalled(p, b) ==
    LET i == link[b] IN
    /\ bufcall[p] = BUnused /\ b \in held[p]
    /\ i \in Pools /\ MayMove(i)
    /\ link' = [link EXCEPT ![b] = buftab[i].next]
    /\ buftab' = [buftab EXCEPT ![i].next = b,
                                ![i].sem.count = IF @ < 0 THEN @ ELSE @ + 1]
    /\ held' = [held EXCEPT ![p] = @ \ {b}]
    /\ UNCHANGED <<heapBufs, bufcall>>

\* freebuf(): the buffer says which pool it is from.
FreeBuf(p, b) ==
    LET i == link[b] IN
    /\ bufcall[p] = BUnused /\ b \in held[p]
    /\ i \in Pools /\ MayMove(i)
    /\ link' = [link EXCEPT ![b] = buftab[i].next]
    /\ buftab' = [buftab EXCEPT ![i] =
          [next |-> b, sem |-> [count |-> @.sem.count + 1,
                                queue |-> IF @.sem.count < 0 THEN Tail(@.sem.queue) ELSE @.sem.queue]]]
    /\ held' = [held EXCEPT ![p] = @ \ {b}]
    /\ UNCHANGED <<heapBufs, bufcall>>

BufNext ==
    \/ \E n \in 1 .. HeapBufs : MakePool(n)
    \/ \E p \in BufUsers :
         \/ \E i \in Pools : GetBuf(p, i)
         \/ GetBufLoad(p) \/ GetBufStore(p)
         \/ \E b \in held[p] : FreeBuf(p, b)

BufSpec == BufInit /\ [][BufNext]_bufVars

-----------------------------------------------------------------------------
\* The free list of pool i is s: each buffer holds the link to the next one.
IsFreeList(s, i) ==
    LET at(k) == IF k > Len(s) THEN Null ELSE s[k]
    IN  buftab[i].next = at(1) /\ \A k \in 1 .. Len(s) : link[s[k]] = at(k + 1)

Going(i) == {p \in BufUsers : /\ bufcall[p].op # "idle" /\ bufcall[p].pool = i
                              /\ Woken(p) \/ bufcall[p].op = "load"}

\* The semaphore of a pool "counts buffers currently available in the pool"
\* (bufpool.h:21-22): with those promised to released processes, it is the length of a
\* list that ends.  A buffer is in one place: no two processes have it and no pool lends
\* it again before it is freed (getbuf.c:31-35, freebuf.c:34-35).
PoolSound ==
    /\ \A i \in Pools :
         LET n == Max({buftab[i].sem.count, 0}) + Cardinality(Going(i))
         IN  \E list \in [1 .. n -> Bufs] :
               IsFreeList(list, i) /\ \A p \in BufUsers : Range(list) \cap held[p] = {}
    /\ \A p, q \in BufUsers : p # q => held[p] \cap held[q] = {}
==================================================================================
