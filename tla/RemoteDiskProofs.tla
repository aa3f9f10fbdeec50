---------------------------- MODULE RemoteDiskProofs -----------------------------
(***************************************************************************)
(* Proofs about the remote disk, for any processes, blocks and number of   *)
(* buffers, and whatever blocks the processes share: every buffer is in    *)
(* one list, unless two calls used a block at the same time, or the device *)
(* was closed under a reader, and what rdsRead() finds in memory of a      *)
(* block that calls never shared is what was written last.                 *)
(*                                                                         *)
(* The first part is about the lists alone: a buffer moves from one to     *)
(* another, and who waits for an answer has one request in the queue.  It  *)
(* holds until a list runs into another one, where the module stops.  The  *)
(* second part says when that may come, and is about the copies of one     *)
(* block at a time: if calls never shared it, there is one valid copy at   *)
(* most, which the searches of rdsRead() and rdsWrite() find first, and    *)
(* none while a call that missed it waits; a reader that is told of its    *)
(* buffer finds it first of its block in the cache, from where the search  *)
(* for other copies ends at once.                                          *)
(***************************************************************************)
EXTENDS RemoteDisk, Counting, SequenceTheorems

-----------------------------------------------------------------------------
(* The invariant of the lists.                                             *)

RdProcs == RdUsers \cup {"rds"}
RdContents == RdData \cup {"0"}

RdBuf == [op : {"none", "read", "sync"}, refcnt : Int, blk : RdBlocks \cup {0},
          valid : BOOLEAN, pid : RdUsers \cup {"none"}, data : RdContents]
         \cup [op : {"write"}, refcnt : Int, blk : RdBlocks,
               valid : BOOLEAN, pid : RdUsers \cup {"none"}, data : RdContents]
RdRequest == [op : {"read"}, blk : RdBlocks] \cup [op : {"write"}, blk : RdBlocks, data : RdContents]
             \cup [op : {"open", "del"}]
RdPacket == [seq : Int, req : RdRequest]
RdAnswer == [seq : Int, op : {"read", "write", "open", "del"}, data : RdContents]
RdComm == {NoComm} \cup [req : RdRequest, seq : Int, i : Int]

RdCall == [at : {"idle", "comm", "synced"}] \cup [at : {"loop"}, blk : RdBlocks \cup {0}]
          \cup [at : {"alloc"}, op : {"read", "write"}, blk : RdBlocks, data : RdContents]
          \cup [at : {"alloc"}, op : {"sync"}, blk : {0}, data : RdContents]
          \cup [at : {"recv"}, blk : RdBlocks \cup {0}]
          \cup [at : {"got"}, blk : RdBlocks \cup {0}, buf : RdBuffers]

RdTypes ==
    /\ rdbuf \in [RdBuffers -> RdBuf] /\ rdcall \in [RdUsers -> RdCall]
    /\ rdseq \in Int /\ rdblk \in RdBlocks /\ rdcomm \in [RdProcs -> RdComm]
    /\ rdOut \in Seq(RdPacket) /\ rdIn \in Seq(RdAnswer)
    /\ rddisk \in [RdBlocks -> RdContents] /\ rdlast \in [RdBlocks -> RdContents]

\* The buffers on a list, none of them twice.
On(s) == {s[i] : i \in 1 .. Len(s)}
Once(s) == \A i, j \in 1 .. Len(s) : s[i] = s[j] => i = j

\* Every buffer is on one of three lists.
OnLists(f, c, q) ==
    /\ f \in Seq(RdBuffers) /\ c \in Seq(RdBuffers) /\ q \in Seq(RdBuffers)
    /\ Once(f) /\ Once(c) /\ Once(q)
    /\ On(f) \cap On(c) = {} /\ On(f) \cap On(q) = {} /\ On(c) \cap On(q) = {}
    /\ Len(f) + Len(c) + Len(q) = RD_BUFFS

\* Who waits for an answer has one request in the queue, and others have none but writes.
Asked(buf, q, call) ==
    /\ \A i \in 1 .. Len(q) :
         /\ buf[q[i]].op # "none"
         /\ buf[q[i]].op # "write" => buf[q[i]].pid \in RdUsers /\ call[buf[q[i]].pid].at = "recv"
    /\ \A i, j \in 1 .. Len(q) :
         buf[q[i]].op # "write" /\ buf[q[j]].op # "write" /\ buf[q[i]].pid = buf[q[j]].pid => i = j
    /\ \A p \in RdUsers : call[p].at = "recv" =>
         \E i \in 1 .. Len(q) : buf[q[i]].op # "write" /\ buf[q[i]].pid = p

\* An exchange for a read is for the first request; users open and delete only.
CommOK(comm, buf, q, call) ==
    /\ comm["rds"].req.op \in {"none", "read", "write"}
    /\ comm["rds"].req.op = "read" => Len(q) > 0 /\ buf[q[1]].op = "read"
    /\ \A p \in RdUsers : comm[p] # NoComm => call[p].at = "comm" /\ comm[p].req.op \in {"open", "del"}

RdListsInv ==
    /\ RdTypes /\ OnLists(rdfree, rdcache, rdreq)
    /\ Asked(rdbuf, rdreq, rdcall) /\ CommOK(rdcomm, rdbuf, rdreq, rdcall)

-----------------------------------------------------------------------------
(* Sequences.                                                              *)

\* A sequence with x put first.
LEMMA Pushed ==
    ASSUME NEW S, NEW s \in Seq(S), NEW x \in S
    PROVE  /\ <<x>> \o s \in Seq(S) /\ Len(<<x>> \o s) = Len(s) + 1
           /\ \A i \in 1 .. Len(s) + 1 : (<<x>> \o s)[i] = IF i = 1 THEN x ELSE s[i - 1]
  OBVIOUS

\* A sequence without its first element.
LEMMA Dropped ==
    ASSUME NEW S, NEW s \in Seq(S), Len(s) > 0
    PROVE  /\ Tail(s) \in Seq(S) /\ Len(Tail(s)) = Len(s) - 1
           /\ \A i \in 1 .. Len(s) - 1 : Tail(s)[i] = s[i + 1]
           /\ Head(s) = s[1] /\ s[1] \in S
  OBVIOUS

\* A sequence with x put last.
LEMMA Appended ==
    ASSUME NEW S, NEW s \in Seq(S), NEW x \in S
    PROVE  /\ Append(s, x) \in Seq(S) /\ Len(Append(s, x)) = Len(s) + 1
           /\ \A i \in 1 .. Len(s) + 1 : Append(s, x)[i] = IF i <= Len(s) THEN s[i] ELSE x
  OBVIOUS

\* A sequence without its k-th element.
LEMMA Removed ==
    ASSUME NEW S, NEW s \in Seq(S), NEW k \in 1 .. Len(s)
    PROVE  /\ RemoveAt(s, k) \in Seq(S) /\ Len(RemoveAt(s, k)) = Len(s) - 1
           /\ \A i \in 1 .. Len(s) - 1 : RemoveAt(s, k)[i] = IF i < k THEN s[i] ELSE s[i + 1]
<1> DEFINE a == SubSeq(s, 1, k - 1)
           b == SubSeq(s, k + 1, Len(s))
<1>1. Len(s) \in Nat /\ k \in Int /\ 1 <= k /\ k <= Len(s)
  BY LenProperties
<1>2. a \in Seq(S) /\ Len(a) = k - 1 /\ \A i \in 1 .. k - 1 : a[i] = s[i]
  BY <1>1, SubSeqProperties, ElementOfSeq, SMT
<1>3. b \in Seq(S) /\ Len(b) = Len(s) - k /\ \A i \in 1 .. Len(s) - k : b[i] = s[k + i]
  BY <1>1, SubSeqProperties, ElementOfSeq, SMT
<1>4. RemoveAt(s, k) = a \o b
  BY DEF RemoveAt
<1> HIDE DEF a, b
<1>5. a \o b \in Seq(S) /\ Len(a \o b) = Len(a) + Len(b)
      /\ \A i \in 1 .. Len(a) + Len(b) : (a \o b)[i] = IF i <= Len(a) THEN a[i] ELSE b[i - Len(a)]
  BY <1>2, <1>3, ConcatProperties
<1>6. ASSUME NEW i \in 1 .. Len(s) - 1
      PROVE  (a \o b)[i] = IF i < k THEN s[i] ELSE s[i + 1]
  <2>1. (a \o b)[i] = IF i <= k - 1 THEN a[i] ELSE b[i - (k - 1)]
    <3>1. Len(a) = k - 1 /\ Len(a) + Len(b) = Len(s) - 1
      BY <1>1, <1>2, <1>3
    <3>2. i \in 1 .. Len(a) + Len(b)
      BY <3>1
    <3>3. (a \o b)[i] = IF i <= Len(a) THEN a[i] ELSE b[i - Len(a)]
      BY ONLY <1>5, <3>2
    <3> QED
      BY ONLY <3>1, <3>3
  <2>2. CASE i < k
    BY <1>1, <1>2, <2>1, <2>2
  <2>3. CASE i >= k
    <3>1. PICK j \in 1 .. Len(s) - k : j = i - (k - 1) /\ k + j = i + 1
      BY <1>1, <2>3
    <3>2. b[j] = s[k + j]
      BY ONLY <1>3, <3>1
    <3>3. ~(i <= k - 1) /\ ~(i < k)
      BY ONLY <1>1, <2>3, i \in 1 .. Len(s) - 1
    <3> QED
      BY ONLY <2>1, <3>1, <3>2, <3>3
  <2>4. i \in Int /\ k \in Int
    BY <1>1
  <2>5. i < k \/ i >= k
    BY <2>4
  <2> QED
    BY <2>2, <2>3, <2>5
<1> QED
  BY <1>1, <1>2, <1>3, <1>4, <1>5, <1>6, SMTT(20)

\* A sequence turned round, and another one after it.
LEMMA Reversed ==
    ASSUME NEW S, NEW s \in Seq(S), NEW t \in Seq(S)
    PROVE  LET r == Reverse(s) \o t
           IN  /\ r \in Seq(S) /\ Len(r) = Len(s) + Len(t)
               /\ \A i \in 1 .. Len(s) + Len(t) :
                    r[i] = IF i <= Len(s) THEN s[Len(s) - i + 1] ELSE t[i - Len(s)]
<1>1. Len(s) \in Nat /\ Len(t) \in Nat
  BY LenProperties
<1>2. Reverse(s) = [i \in 1 .. Len(s) |-> s[Len(s) - i + 1]]
  BY <1>1 DEF Reverse
<1>3. /\ Reverse(s) \in Seq(S) /\ Len(Reverse(s)) = Len(s)
      /\ \A i \in 1 .. Len(s) : Reverse(s)[i] = s[Len(s) - i + 1]
  BY <1>1, <1>2
<1> DEFINE u == Reverse(s)
<1> HIDE DEF u
<1>4. u \in Seq(S) /\ Len(u) = Len(s) /\ \A i \in 1 .. Len(s) : u[i] = s[Len(s) - i + 1]
  BY <1>3 DEF u
<1>5. u \o t \in Seq(S) /\ Len(u \o t) = Len(u) + Len(t)
      /\ \A i \in 1 .. Len(u) + Len(t) : (u \o t)[i] = IF i <= Len(u) THEN u[i] ELSE t[i - Len(u)]
  BY <1>4, ConcatProperties, ZenonT(40)
<1>6. ASSUME NEW i \in 1 .. Len(s) + Len(t)
      PROVE  (u \o t)[i] = IF i <= Len(s) THEN s[Len(s) - i + 1] ELSE t[i - Len(s)]
  <2>1. (u \o t)[i] = IF i <= Len(s) THEN u[i] ELSE t[i - Len(s)]
    BY <1>4, <1>5
  <2>2. i <= Len(s) => i \in 1 .. Len(s)
    BY <1>1
  <2> QED
    BY <1>4, <2>1, <2>2
<1> QED
  BY <1>4, <1>5, <1>6 DEF u


\* What is on a list after it has changed.
LEMMA OnPushed ==
    ASSUME NEW S, NEW s \in Seq(S), NEW x \in S, Once(s), x \notin On(s)
    PROVE  Once(<<x>> \o s) /\ On(<<x>> \o s) = On(s) \cup {x}
<1> DEFINE d == <<x>> \o s
<1>1. Len(s) \in Nat /\ Len(d) = Len(s) + 1
      /\ \A i \in 1 .. Len(s) + 1 : d[i] = IF i = 1 THEN x ELSE s[i - 1]
  BY LenProperties, Pushed
<1> HIDE DEF d
<1>2. ASSUME NEW i \in 1 .. Len(d), i # 1
      PROVE  d[i] = s[i - 1] /\ i - 1 \in 1 .. Len(s) /\ d[i] \in On(s)
  BY <1>1, <1>2 DEF On
<1>3. d[1] = x /\ 1 \in 1 .. Len(d)
  BY <1>1
<1>4. ASSUME NEW i \in 1 .. Len(d), NEW j \in 1 .. Len(d), d[i] = d[j] PROVE i = j
  <2>1. CASE i = 1 \/ j = 1
    BY <1>2, <1>3, <1>4, <2>1
  <2>2. CASE i # 1 /\ j # 1
    BY <1>2, <1>4, <2>2 DEF Once
  <2> QED
    BY <2>1, <2>2
<1>5. ASSUME NEW i \in 1 .. Len(s) PROVE s[i] \in On(d)
  <2>1. PICK j \in 1 .. Len(d) : j = i + 1 /\ d[j] = s[i]
    BY <1>1
  <2> QED
    BY <2>1 DEF On
<1>6. On(d) = On(s) \cup {x}
  <2>1. ASSUME NEW y \in On(d) PROVE y \in On(s) \cup {x}
    BY <1>2, <1>3 DEF On
  <2>2. ASSUME NEW y \in On(s) \cup {x} PROVE y \in On(d)
    BY <1>3, <1>5 DEF On
  <2> QED
    BY <2>1, <2>2
<1>7. Once(d)
  BY <1>4 DEF Once
<1> QED
  BY <1>6, <1>7 DEF d

\* The list loses its first buffer.
LEMMA OnDropped ==
    ASSUME NEW S, NEW s \in Seq(S), Once(s), Len(s) > 0
    PROVE  Once(Tail(s)) /\ On(Tail(s)) = On(s) \ {Head(s)} /\ Head(s) \in On(s)
<1> DEFINE d == Tail(s)
<1>1. /\ Len(s) \in Nat /\ Len(d) = Len(s) - 1 /\ Head(s) = s[1]
      /\ \A i \in 1 .. Len(s) - 1 : d[i] = s[i + 1]
  BY LenProperties, Dropped
<1> HIDE DEF d
<1>2. ASSUME NEW i \in 1 .. Len(d)
      PROVE  d[i] = s[i + 1] /\ i + 1 \in 1 .. Len(s) /\ i + 1 # 1
  BY <1>1
<1>3. Once(d)
  BY <1>1, <1>2 DEF Once
<1>4. 1 \in 1 .. Len(s)
  BY <1>1
<1>5. ASSUME NEW i \in 1 .. Len(d) PROVE d[i] \in On(s) \ {s[1]}
  BY <1>2, <1>4 DEF On, Once
<1>6. ASSUME NEW i \in 1 .. Len(s), s[i] # s[1] PROVE s[i] \in On(d)
  <2>1. PICK j \in 1 .. Len(d) : j + 1 = i
    BY <1>1, <1>6
  <2> QED
    BY <1>2, <2>1 DEF On
<1> QED
  BY <1>1, <1>3, <1>4, <1>5, <1>6 DEF On, d

\* A buffer is put last.
LEMMA OnAppended ==
    ASSUME NEW S, NEW s \in Seq(S), NEW x \in S, Once(s), x \notin On(s)
    PROVE  Once(Append(s, x)) /\ On(Append(s, x)) = On(s) \cup {x}
<1> DEFINE d == Append(s, x)
<1>1. Len(s) \in Nat /\ Len(d) = Len(s) + 1
      /\ \A i \in 1 .. Len(s) + 1 : d[i] = IF i <= Len(s) THEN s[i] ELSE x
  BY LenProperties, Appended
<1> HIDE DEF d
<1>2. ASSUME NEW i \in 1 .. Len(s) PROVE d[i] = s[i] /\ i \in 1 .. Len(d)
  BY <1>1
<1>3. PICK n \in 1 .. Len(d) : d[n] = x /\ \A i \in 1 .. Len(d) : i # n => i \in 1 .. Len(s)
  BY <1>1
<1>4. ASSUME NEW i \in 1 .. Len(d), i # n PROVE d[i] = s[i] /\ d[i] \in On(s)
  BY <1>2, <1>3, <1>4 DEF On
<1>5. Once(d)
  BY <1>3, <1>4 DEF Once
<1> QED
  BY <1>2, <1>3, <1>4, <1>5 DEF On, d

\* The list loses its k-th buffer.
LEMMA OnRemoved ==
    ASSUME NEW S, NEW s \in Seq(S), NEW k \in 1 .. Len(s), Once(s)
    PROVE  Once(RemoveAt(s, k)) /\ On(RemoveAt(s, k)) = On(s) \ {s[k]} /\ s[k] \in On(s)
<1> DEFINE d == RemoveAt(s, k)
<1>1. Len(s) \in Nat /\ Len(d) = Len(s) - 1
      /\ \A i \in 1 .. Len(s) - 1 : d[i] = IF i < k THEN s[i] ELSE s[i + 1]
  BY LenProperties, Removed
<1> HIDE DEF d
<1>2. ASSUME NEW i \in 1 .. Len(d)
      PROVE  \E j \in 1 .. Len(s) : j # k /\ d[i] = s[j] /\ j = IF i < k THEN i ELSE i + 1
  BY <1>1
<1>3. ASSUME NEW i \in 1 .. Len(d), NEW j \in 1 .. Len(d), d[i] = d[j] PROVE i = j
  BY <1>2, <1>3 DEF Once
<1>4. ASSUME NEW i \in 1 .. Len(d) PROVE d[i] \in On(s) \ {s[k]}
  BY <1>2 DEF On, Once
<1>5. ASSUME NEW i \in 1 .. Len(s), s[i] # s[k] PROVE s[i] \in On(d)
  <2>1. PICK j \in 1 .. Len(d) : i = IF j < k THEN j ELSE j + 1
    <3>1. Len(s) \in Nat /\ Len(d) = Len(s) - 1 /\ i \in Int /\ k \in Int /\ i # k
      BY <1>1, <1>5
    <3>2. i < k => i \in 1 .. Len(d)
      BY <3>1
    <3>3. i > k => i - 1 \in 1 .. Len(d) /\ ~(i - 1 < k) /\ i = (i - 1) + 1
      BY <3>1
    <3> QED
      BY <3>1, <3>2, <3>3
  <2> QED
    BY <1>2, <2>1 DEF On
<1>6. Once(d)
  BY <1>3 DEF Once
<1>7. On(d) = On(s) \ {s[k]}
  BY <1>4, <1>5 DEF On
<1> QED
  BY <1>6, <1>7 DEF On, d

\* The list is turned round, and another one put after it.
LEMMA OnReversed ==
    ASSUME NEW S, NEW s \in Seq(S), NEW t \in Seq(S), Once(s), Once(t), On(s) \cap On(t) = {}
    PROVE  Once(Reverse(s) \o t) /\ On(Reverse(s) \o t) = On(s) \cup On(t)
<1> DEFINE d == Reverse(s) \o t
<1>1. Len(s) \in Nat /\ Len(t) \in Nat /\ Len(d) = Len(s) + Len(t)
      /\ \A i \in 1 .. Len(s) + Len(t) :
           d[i] = IF i <= Len(s) THEN s[Len(s) - i + 1] ELSE t[i - Len(s)]
  BY LenProperties, Reversed
<1> HIDE DEF d
<1>2. ASSUME NEW i \in 1 .. Len(d), i <= Len(s)
      PROVE  \E k \in 1 .. Len(s) : k = Len(s) - i + 1 /\ d[i] = s[k]
  BY <1>1, <1>2
<1>3. ASSUME NEW i \in 1 .. Len(d), ~(i <= Len(s))
      PROVE  \E k \in 1 .. Len(t) : k = i - Len(s) /\ d[i] = t[k]
  BY <1>1, <1>3
<1>4. ASSUME NEW i \in 1 .. Len(d), NEW j \in 1 .. Len(d), d[i] = d[j] PROVE i = j
  <2> i \in Int /\ j \in Int /\ Len(s) \in Int
    BY <1>1
  <2>1. CASE i <= Len(s) /\ j <= Len(s)
    <3>1. PICK k \in 1 .. Len(s) : k = Len(s) - i + 1 /\ d[i] = s[k]
      BY <1>2, <2>1
    <3>2. PICK l \in 1 .. Len(s) : l = Len(s) - j + 1 /\ d[j] = s[l]
      BY <1>2, <2>1
    <3>3. k = l
      BY <1>4, <3>1, <3>2 DEF Once
    <3> QED
      BY <3>1, <3>2, <3>3
  <2>2. CASE ~(i <= Len(s)) /\ ~(j <= Len(s))
    <3>1. PICK k \in 1 .. Len(t) : k = i - Len(s) /\ d[i] = t[k]
      BY <1>3, <2>2
    <3>2. PICK l \in 1 .. Len(t) : l = j - Len(s) /\ d[j] = t[l]
      BY <1>3, <2>2
    <3>3. k = l
      BY <1>4, <3>1, <3>2 DEF Once
    <3> QED
      BY <3>1, <3>2, <3>3
  <2>3. ASSUME NEW k \in 1 .. Len(d), NEW l \in 1 .. Len(d), k <= Len(s), ~(l <= Len(s))
        PROVE  d[k] # d[l]
    <3>1. d[k] \in On(s)
      BY <1>2, <2>3 DEF On
    <3>2. d[l] \in On(t)
      BY <1>3, <2>3 DEF On
    <3> QED
      BY <3>1, <3>2
  <2> QED
    BY <1>4, <2>1, <2>2, <2>3
<1>5. ASSUME NEW k \in 1 .. Len(s) PROVE s[k] \in On(d)
  <2>1. PICK i \in 1 .. Len(d) : i <= Len(s) /\ k = Len(s) - i + 1
    <3>1. Len(s) \in Nat /\ Len(t) \in Nat /\ Len(d) = Len(s) + Len(t)
      BY <1>1
    <3>2. Len(s) - k + 1 \in 1 .. Len(d) /\ Len(s) - k + 1 <= Len(s)
          /\ k = Len(s) - (Len(s) - k + 1) + 1
      BY <3>1
    <3> QED
      BY <3>2
  <2> QED
    BY <1>2, <2>1 DEF On
<1>6. ASSUME NEW k \in 1 .. Len(t) PROVE t[k] \in On(d)
  <2>1. PICK i \in 1 .. Len(d) : ~(i <= Len(s)) /\ k = i - Len(s)
    <3>1. Len(s) \in Nat /\ Len(t) \in Nat /\ Len(d) = Len(s) + Len(t)
      BY <1>1
    <3>2. k + Len(s) \in 1 .. Len(d) /\ ~(k + Len(s) <= Len(s)) /\ k = (k + Len(s)) - Len(s)
      BY <3>1
    <3> QED
      BY <3>2
  <2> QED
    BY <1>3, <2>1 DEF On
<1>7. Once(d)
  BY <1>4 DEF Once
<1>8. On(d) = On(s) \cup On(t)
  <2>1. ASSUME NEW i \in 1 .. Len(d) PROVE d[i] \in On(s) \cup On(t)
    <3>1. CASE i <= Len(s)
      BY <1>2, <3>1 DEF On
    <3>2. CASE ~(i <= Len(s))
      BY <1>3, <3>2 DEF On
    <3> QED
      BY <3>1, <3>2
  <2>2. ASSUME NEW y \in On(d) PROVE y \in On(s) \cup On(t)
    BY <2>1 DEF On
  <2>3. ASSUME NEW y \in On(s) \cup On(t) PROVE y \in On(d)
    BY <1>5, <1>6 DEF On
  <2> QED
    BY <2>2, <2>3
<1> QED
  BY <1>7, <1>8 DEF d

-----------------------------------------------------------------------------
(* A buffer goes from one list to another.                                 *)

\* What being on the lists says of their types.
LEMMA ListTypes ==
    ASSUME NEW f, NEW c, NEW q, OnLists(f, c, q)
    PROVE  /\ f \in Seq(RdBuffers) /\ c \in Seq(RdBuffers) /\ q \in Seq(RdBuffers)
           /\ Len(f) \in Nat /\ Len(c) \in Nat /\ Len(q) \in Nat
           /\ \A i \in 1 .. Len(c) : c[i] \in RdBuffers
           /\ \A i \in 1 .. Len(q) : q[i] \in RdBuffers
           /\ \A i \in 1 .. Len(c), j \in 1 .. Len(q) : c[i] # q[j]
<1>1. f \in Seq(RdBuffers) /\ c \in Seq(RdBuffers) /\ q \in Seq(RdBuffers) /\ On(c) \cap On(q) = {}
  BY DEF OnLists
<1>2. Len(f) \in Nat /\ Len(c) \in Nat /\ Len(q) \in Nat
  BY <1>1, LenProperties
<1>3. /\ \A i \in 1 .. Len(c) : c[i] \in RdBuffers
      /\ \A i \in 1 .. Len(q) : q[i] \in RdBuffers
  BY <1>1, ElementOfSeq
<1>4. ASSUME NEW i \in 1 .. Len(c), NEW j \in 1 .. Len(q) PROVE c[i] # q[j]
  <2>1. c[i] \in On(c) /\ q[j] \in On(q)
    BY DEF On
  <2> QED
    BY <1>1, <2>1
<1> QED
  BY <1>1, <1>2, <1>3, <1>4

\* rdsprocess puts the first request into the cache.
LEMMA QueueToCache ==
    ASSUME NEW f, NEW c, NEW q, OnLists(f, c, q), Len(q) > 0
    PROVE  OnLists(f, <<Head(q)>> \o c, Tail(q))
<1>1. /\ Tail(q) \in Seq(RdBuffers) /\ Len(Tail(q)) = Len(q) - 1 /\ Head(q) \in RdBuffers
      /\ Once(Tail(q)) /\ On(Tail(q)) = On(q) \ {Head(q)} /\ Head(q) \in On(q)
  BY Dropped, OnDropped DEF OnLists
<1>2. /\ <<Head(q)>> \o c \in Seq(RdBuffers) /\ Len(<<Head(q)>> \o c) = Len(c) + 1
      /\ Once(<<Head(q)>> \o c) /\ On(<<Head(q)>> \o c) = On(c) \cup {Head(q)}
  BY <1>1, Pushed, OnPushed DEF OnLists
<1> QED
  BY <1>1, <1>2, ListTypes DEF OnLists

\* rdsprocess frees the buffer of the first request.
LEMMA QueueToFree ==
    ASSUME NEW f, NEW c, NEW q, OnLists(f, c, q), Len(q) > 0
    PROVE  OnLists(<<Head(q)>> \o f, c, Tail(q))
<1>1. /\ Tail(q) \in Seq(RdBuffers) /\ Len(Tail(q)) = Len(q) - 1 /\ Head(q) \in RdBuffers
      /\ Once(Tail(q)) /\ On(Tail(q)) = On(q) \ {Head(q)} /\ Head(q) \in On(q)
  BY Dropped, OnDropped DEF OnLists
<1>2. /\ <<Head(q)>> \o f \in Seq(RdBuffers) /\ Len(<<Head(q)>> \o f) = Len(f) + 1
      /\ Once(<<Head(q)>> \o f) /\ On(<<Head(q)>> \o f) = On(f) \cup {Head(q)}
  BY <1>1, Pushed, OnPushed DEF OnLists
<1> QED
  BY <1>1, <1>2, ListTypes DEF OnLists

\* rdsbufalloc() from the free list.
LEMMA FreeToQueue ==
    ASSUME NEW f, NEW c, NEW q, OnLists(f, c, q), Len(f) > 0
    PROVE  OnLists(Tail(f), c, Append(q, Head(f))) /\ Head(f) \in RdBuffers
           /\ Head(f) \notin On(c) \cup On(q)
<1>1. /\ Tail(f) \in Seq(RdBuffers) /\ Len(Tail(f)) = Len(f) - 1 /\ Head(f) \in RdBuffers
      /\ Once(Tail(f)) /\ On(Tail(f)) = On(f) \ {Head(f)} /\ Head(f) \in On(f)
  BY Dropped, OnDropped DEF OnLists
<1>2. /\ Append(q, Head(f)) \in Seq(RdBuffers) /\ Len(Append(q, Head(f))) = Len(q) + 1
      /\ Once(Append(q, Head(f))) /\ On(Append(q, Head(f))) = On(q) \cup {Head(f)}
  BY <1>1, Appended, OnAppended DEF OnLists
<1> QED
  BY <1>1, <1>2, ListTypes DEF OnLists

\* A cached buffer is used for a request.
LEMMA CacheToQueue ==
    ASSUME NEW f, NEW c, NEW q, NEW k \in 1 .. Len(c), OnLists(f, c, q)
    PROVE  OnLists(f, RemoveAt(c, k), Append(q, c[k]))
<1>1. /\ RemoveAt(c, k) \in Seq(RdBuffers) /\ Len(RemoveAt(c, k)) = Len(c) - 1 /\ c[k] \in RdBuffers
      /\ Once(RemoveAt(c, k)) /\ On(RemoveAt(c, k)) = On(c) \ {c[k]} /\ c[k] \in On(c)
  BY Removed, OnRemoved, ListTypes DEF OnLists
<1>2. /\ Append(q, c[k]) \in Seq(RdBuffers) /\ Len(Append(q, c[k])) = Len(q) + 1
      /\ Once(Append(q, c[k])) /\ On(Append(q, c[k])) = On(q) \cup {c[k]}
  BY <1>1, Appended, OnAppended DEF OnLists
<1> QED
  BY <1>1, <1>2, ListTypes DEF OnLists

\* rdsClose() frees the cache.
LEMMA CacheToFree ==
    ASSUME NEW f, NEW c, NEW q, OnLists(f, c, q)
    PROVE  OnLists(Reverse(c) \o f, <<>>, q)
<1>1. /\ Reverse(c) \o f \in Seq(RdBuffers) /\ Len(Reverse(c) \o f) = Len(c) + Len(f)
      /\ Once(Reverse(c) \o f) /\ On(Reverse(c) \o f) = On(c) \cup On(f)
  BY Reversed, OnReversed DEF OnLists
<1>2. <<>> \in Seq(RdBuffers) /\ Len(<<>>) = 0 /\ Once(<<>>) /\ On(<<>>) = {}
  BY DEF Once, On
<1> QED
  BY <1>1, <1>2, ListTypes DEF OnLists

-----------------------------------------------------------------------------
(* What the lists and the calls have to do with each other.                *)

\* A set of positions has a first and a last one.
LEMMA FirstAndLast ==
    ASSUME NEW n \in Nat, NEW I \in SUBSET (1 .. n), I # {}
    PROVE  /\ Min(I) \in I /\ \A y \in I : Min(I) <= y
           /\ Max(I) \in I /\ \A y \in I : Max(I) >= y
<1>1. \E k \in I : \A m \in I : k <= m
  <2>1. I \subseteq Nat
    OBVIOUS
  <2> QED
    BY <2>1, LeastNumber
<1>2. Min(I) \in I /\ \A y \in I : Min(I) <= y
  BY <1>1, Zenon DEF Min
<1>3. \E k \in I : \A m \in I : k >= m
  <2> DEFINE J == {j \in 0 .. n : n - j \in I}
  <2>1. J \subseteq Nat
    OBVIOUS
  <2>2. PICK y \in I : TRUE
    OBVIOUS
  <2>3. y \in Int /\ 1 <= y /\ y <= n
    OBVIOUS
  <2>4. n - y \in 0 .. n /\ n - (n - y) = y
    BY <2>3
  <2>5. n - y \in J
    BY <2>4
  <2>6. PICK k \in J : \A m \in J : k <= m
    BY <2>1, <2>5, LeastNumber
  <2>7. k \in Int /\ n - k \in I
    BY <2>6
  <2>8. ASSUME NEW m \in I PROVE n - k >= m
    <3>1. m \in Int /\ 1 <= m /\ m <= n
      OBVIOUS
    <3>2. n - m \in 0 .. n /\ n - (n - m) = m
      BY <3>1
    <3>3. n - m \in J
      BY <3>2
    <3>4. k <= n - m
      BY <2>6, <3>3
    <3> QED
      BY <2>7, <3>1, <3>4
  <2> QED
    BY <2>7, <2>8
<1>4. Max(I) \in I /\ \A y \in I : Max(I) >= y
  BY <1>3, Zenon DEF Max
<1> QED
  BY <1>2, <1>4

\* The searches through the lists (rdsRead.c:33-63, rdsWrite.c:29-62).
LEMMA CachedFirst ==
    ASSUME NEW k, Len(rdcache) \in Nat
    PROVE  /\ Cached(k) \in 0 .. Len(rdcache)
           /\ Cached(k) # 0 => rdbuf[rdcache[Cached(k)]].blk = k
           /\ \A i \in 1 .. Len(rdcache) :
                rdbuf[rdcache[i]].blk = k => Cached(k) # 0 /\ Cached(k) <= i
<1> DEFINE I == {i \in 1 .. Len(rdcache) : rdbuf[rdcache[i]].blk = k}
<1>1. Cached(k) = IF I # {} THEN Min(I) ELSE 0
  BY DEF Cached, SelectInSeq
<1>2. CASE I = {}
  BY <1>1, <1>2
<1>3. CASE I # {}
  <2>1. Min(I) \in I /\ \A y \in I : Min(I) <= y
    BY <1>3, FirstAndLast
  <2>2. PICK m \in I : m = Min(I)
    BY <2>1
  <2>3. Cached(k) = m /\ m # 0 /\ m \in 1 .. Len(rdcache) /\ rdbuf[rdcache[m]].blk = k
    BY <1>1, <1>3, <2>2
  <2>4. \A y \in 1 .. Len(rdcache) : rdbuf[rdcache[y]].blk = k => m <= y
    BY <2>1, <2>2
  <2> QED
    BY <2>3, <2>4
<1> QED
  BY <1>2, <1>3

\* Queued() finds the last request for a block.
LEMMA QueuedLast ==
    ASSUME NEW k, Len(rdreq) \in Nat
    PROVE  /\ Queued(k) \in 0 .. Len(rdreq)
           /\ Queued(k) # 0 => rdbuf[rdreq[Queued(k)]].blk = k
           /\ \A i \in 1 .. Len(rdreq) :
                rdbuf[rdreq[i]].blk = k => Queued(k) # 0 /\ i <= Queued(k)
<1> DEFINE I == {i \in 1 .. Len(rdreq) : rdbuf[rdreq[i]].blk = k}
<1>1. Queued(k) = IF I # {} THEN Max(I) ELSE 0
  BY DEF Queued, SelectLastInSeq
<1>2. CASE I = {}
  BY <1>1, <1>2
<1>3. CASE I # {}
  <2>1. Max(I) \in I /\ \A y \in I : Max(I) >= y
    BY <1>3, FirstAndLast
  <2>2. PICK m \in I : m = Max(I)
    BY <2>1
  <2>3. Queued(k) = m /\ m # 0 /\ m \in 1 .. Len(rdreq) /\ rdbuf[rdreq[m]].blk = k
    BY <1>1, <1>3, <2>2
  <2>4. \A y \in 1 .. Len(rdreq) : rdbuf[rdreq[y]].blk = k => y <= m
    BY <2>1, <2>2
  <2> QED
    BY <2>3, <2>4
<1> QED
  BY <1>2, <1>3

\* QueuedWrite() finds a queued write of a block if there is one.
LEMMA QueuedWriteFound ==
    ASSUME NEW k, Len(rdreq) \in Nat
    PROVE  /\ QueuedWrite(k) \in 0 .. Len(rdreq)
           /\ LET b == rdreq[QueuedWrite(k)]
              IN  QueuedWrite(k) # 0 => rdbuf[b].blk = k /\ rdbuf[b].op = "write"
           /\ QueuedWrite(k) = 0 => \A i \in 1 .. Len(rdreq) :
                ~(rdbuf[rdreq[i]].blk = k /\ rdbuf[rdreq[i]].op = "write")
<1> DEFINE I == {i \in 1 .. Len(rdreq) : rdbuf[rdreq[i]].blk = k /\ rdbuf[rdreq[i]].op = "write"}
<1>1. QueuedWrite(k) = IF I # {} THEN Min(I) ELSE 0
  BY DEF QueuedWrite, SelectInSeq
<1>2. CASE I = {}
  <2>1. QueuedWrite(k) = 0
    <3> HIDE DEF I
    <3> QED
      BY <1>1, <1>2
  <2>2. \A i \in 1 .. Len(rdreq) : ~(rdbuf[rdreq[i]].blk = k /\ rdbuf[rdreq[i]].op = "write")
    BY <1>2
  <2>3. QueuedWrite(k) \in 0 .. Len(rdreq)
    BY <2>1
  <2> QED
    BY <2>1, <2>2, <2>3
<1>3. CASE I # {}
  <2>1. Min(I) \in I
    BY <1>3, FirstAndLast
  <2>2. PICK m \in I : m = Min(I)
    BY <2>1
  <2>3. QueuedWrite(k) = m /\ m # 0
    BY <1>1, <1>3, <2>2
  <2> QED
    BY <2>3
<1> QED
  BY <1>2, <1>3

\* The cached buffer that rdsbufalloc() takes.
LEMMA UnreadLast ==
    ASSUME Len(rdcache) \in Nat, Unread # {}, DOMAIN rdcache = 1 .. Len(rdcache)
    PROVE  Max(Unread) \in 1 .. Len(rdcache)
<1>1. Unread \in SUBSET (1 .. Len(rdcache))
  BY DEF Unread
<1> QED
  BY <1>1, FirstAndLast

\* The same requests, from the same processes.
LEMMA AskedKept ==
    ASSUME NEW buf, NEW q, NEW call, NEW buf2, NEW call2, Asked(buf, q, call),
           \A i \in 1 .. Len(q) : buf2[q[i]].op = buf[q[i]].op /\ buf2[q[i]].pid = buf[q[i]].pid,
           \A p \in RdUsers : call2[p].at = "recv" <=> call[p].at = "recv"
    PROVE  Asked(buf2, q, call2)
  BY DEF Asked

\* A write is queued.
LEMMA AskedWrite ==
    ASSUME NEW buf, NEW q \in Seq(RdBuffers), NEW call, NEW buf2, NEW call2, NEW b \in RdBuffers,
           Asked(buf, q, call),
           \A i \in 1 .. Len(q) : buf2[q[i]] = buf[q[i]],
           \A p \in RdUsers : call2[p].at = "recv" <=> call[p].at = "recv",
           buf2[b].op = "write"
    PROVE  Asked(buf2, Append(q, b), call2)
<1> DEFINE r == Append(q, b)
<1>1. Len(q) \in Nat /\ Len(r) = Len(q) + 1
      /\ \A i \in 1 .. Len(q) + 1 : r[i] = IF i <= Len(q) THEN q[i] ELSE b
  BY LenProperties, Appended
<1> HIDE DEF r
<1>2. ASSUME NEW i \in 1 .. Len(r), buf2[r[i]].op # "write"
      PROVE  i \in 1 .. Len(q) /\ buf2[r[i]] = buf[q[i]]
  BY <1>1, <1>2
<1>3. ASSUME NEW i \in 1 .. Len(q) PROVE i \in 1 .. Len(r) /\ buf2[r[i]] = buf[q[i]]
  BY <1>1
<1>4. ASSUME NEW i \in 1 .. Len(r)
      PROVE  /\ buf2[r[i]].op # "none"
             /\ buf2[r[i]].op # "write" => buf2[r[i]].pid \in RdUsers /\ call2[buf2[r[i]].pid].at = "recv"
  <2>1. CASE buf2[r[i]].op = "write"
    BY <2>1
  <2>2. CASE buf2[r[i]].op # "write"
    BY <1>2, <2>2 DEF Asked
  <2> QED
    BY <2>1, <2>2
<1>5. ASSUME NEW i \in 1 .. Len(r), NEW j \in 1 .. Len(r),
             buf2[r[i]].op # "write", buf2[r[j]].op # "write", buf2[r[i]].pid = buf2[r[j]].pid
      PROVE  i = j
  BY <1>2, <1>5 DEF Asked
<1>6. ASSUME NEW p \in RdUsers, call2[p].at = "recv"
      PROVE  \E i \in 1 .. Len(r) : buf2[r[i]].op # "write" /\ buf2[r[i]].pid = p
  <2>1. PICK i \in 1 .. Len(q) : buf[q[i]].op # "write" /\ buf[q[i]].pid = p
    BY <1>6 DEF Asked
  <2> QED
    BY <1>3, <2>1
<1>7. Asked(buf2, r, call2)
  BY <1>4, <1>5, <1>6 DEF Asked
<1> QED
  BY <1>7 DEF r

\* A request is queued whose process will wait for an answer.
LEMMA AskedMore ==
    ASSUME NEW buf, NEW q \in Seq(RdBuffers), NEW call, NEW buf2, NEW call2, NEW b \in RdBuffers,
           NEW u \in RdUsers, Asked(buf, q, call),
           \A i \in 1 .. Len(q) : buf2[q[i]] = buf[q[i]],
           \A p \in RdUsers : p # u => call2[p] = call[p],
           call[u].at # "recv", call2[u].at = "recv",
           buf2[b].op \in {"read", "sync"}, buf2[b].pid = u
    PROVE  Asked(buf2, Append(q, b), call2)
<1> DEFINE r == Append(q, b)
<1>1. Len(q) \in Nat /\ Len(r) = Len(q) + 1
      /\ \A i \in 1 .. Len(q) + 1 : r[i] = IF i <= Len(q) THEN q[i] ELSE b
  BY LenProperties, Appended
<1> HIDE DEF r
<1>2. PICK n \in 1 .. Len(r) : r[n] = b /\ \A i \in 1 .. Len(r) : i # n => i \in 1 .. Len(q)
  BY <1>1
<1>3. ASSUME NEW i \in 1 .. Len(q) PROVE i \in 1 .. Len(r) /\ buf2[r[i]] = buf[q[i]]
  BY <1>1
<1>4. ASSUME NEW i \in 1 .. Len(r), i # n, buf2[r[i]].op # "write"
      PROVE  /\ i \in 1 .. Len(q) /\ buf2[r[i]] = buf[q[i]] /\ buf[q[i]].pid # u
             /\ buf[q[i]].pid \in RdUsers /\ call[buf[q[i]].pid].at = "recv"
  BY <1>2, <1>3, <1>4 DEF Asked
<1>5. ASSUME NEW i \in 1 .. Len(r)
      PROVE  /\ buf2[r[i]].op # "none"
             /\ buf2[r[i]].op # "write" => buf2[r[i]].pid \in RdUsers /\ call2[buf2[r[i]].pid].at = "recv"
  <2>1. CASE i = n
    BY <1>2, <2>1
  <2>2. CASE i # n /\ buf2[r[i]].op # "write"
    BY <1>2, <1>3, <1>4, <2>2 DEF Asked
  <2> QED
    BY <2>1, <2>2
<1>6. ASSUME NEW i \in 1 .. Len(r), NEW j \in 1 .. Len(r),
             buf2[r[i]].op # "write", buf2[r[j]].op # "write", buf2[r[i]].pid = buf2[r[j]].pid
      PROVE  i = j
  <2>1. CASE i = n \/ j = n
    BY <1>2, <1>4, <1>6, <2>1
  <2>2. CASE i # n /\ j # n
    BY <1>4, <1>6, <2>2 DEF Asked
  <2> QED
    BY <2>1, <2>2
<1>7. ASSUME NEW p \in RdUsers, call2[p].at = "recv"
      PROVE  \E i \in 1 .. Len(r) : buf2[r[i]].op # "write" /\ buf2[r[i]].pid = p
  <2>1. CASE p = u
    BY <1>2, <2>1
  <2>2. CASE p # u
    <3>1. PICK i \in 1 .. Len(q) : buf[q[i]].op # "write" /\ buf[q[i]].pid = p
      BY <1>7, <2>2 DEF Asked
    <3> QED
      BY <1>3, <3>1
  <2> QED
    BY <2>1, <2>2
<1>8. Asked(buf2, r, call2)
  BY <1>5, <1>6, <1>7 DEF Asked
<1> QED
  BY <1>8 DEF r

\* The first request, a write, is taken out.
LEMMA AskedWritten ==
    ASSUME NEW buf, NEW q \in Seq(RdBuffers), NEW call, NEW buf2,
           Asked(buf, q, call), Len(q) > 0, buf[Head(q)].op = "write",
           \A i \in 1 .. Len(q) : buf2[q[i]].op = buf[q[i]].op /\ buf2[q[i]].pid = buf[q[i]].pid
    PROVE  Asked(buf2, Tail(q), call)
<1> DEFINE r == Tail(q)
<1>1. /\ Len(q) \in Nat /\ Len(r) = Len(q) - 1 /\ Head(q) = q[1]
      /\ \A i \in 1 .. Len(q) - 1 : r[i] = q[i + 1]
  BY LenProperties, Dropped
<1> HIDE DEF r
<1>2. ASSUME NEW i \in 1 .. Len(r)
      PROVE  i + 1 \in 1 .. Len(q) /\ buf2[r[i]].op = buf[q[i + 1]].op /\ buf2[r[i]].pid = buf[q[i + 1]].pid
  BY <1>1
<1>3. ASSUME NEW i \in 1 .. Len(r)
      PROVE  /\ buf2[r[i]].op # "none"
             /\ buf2[r[i]].op # "write" => buf2[r[i]].pid \in RdUsers /\ call[buf2[r[i]].pid].at = "recv"
  <2>1. PICK j \in 1 .. Len(q) : buf2[r[i]].op = buf[q[j]].op /\ buf2[r[i]].pid = buf[q[j]].pid
    BY <1>2
  <2> QED
    BY <2>1 DEF Asked
<1>4. ASSUME NEW i \in 1 .. Len(r), NEW j \in 1 .. Len(r),
             buf2[r[i]].op # "write", buf2[r[j]].op # "write", buf2[r[i]].pid = buf2[r[j]].pid
      PROVE  i = j
  <2>1. PICK k \in 1 .. Len(q) : k = i + 1 /\ buf2[r[i]].op = buf[q[k]].op /\ buf2[r[i]].pid = buf[q[k]].pid
    BY <1>2
  <2>2. PICK l \in 1 .. Len(q) : l = j + 1 /\ buf2[r[j]].op = buf[q[l]].op /\ buf2[r[j]].pid = buf[q[l]].pid
    BY <1>2
  <2>3. buf[q[k]].op # "write" /\ buf[q[l]].op # "write" /\ buf[q[k]].pid = buf[q[l]].pid
    BY <1>4, <2>1, <2>2
  <2>4. k = l
    BY <2>3 DEF Asked
  <2> QED
    BY <1>1, <2>1, <2>2, <2>4
<1>5. ASSUME NEW p \in RdUsers, call[p].at = "recv"
      PROVE  \E i \in 1 .. Len(r) : buf2[r[i]].op # "write" /\ buf2[r[i]].pid = p
  <2>1. PICK i \in 1 .. Len(q) : buf[q[i]].op # "write" /\ buf[q[i]].pid = p
    BY <1>5 DEF Asked
  <2>2. PICK j \in 1 .. Len(r) : j + 1 = i
    <3>1. i # 1
      BY <1>1, <2>1
    <3>2. i - 1 \in 1 .. Len(r) /\ (i - 1) + 1 = i
      BY <1>1, <3>1
    <3> QED
      BY <3>2
  <2> QED
    BY <1>2, <2>1, <2>2
<1>6. Asked(buf2, r, call)
  BY <1>3, <1>4, <1>5 DEF Asked
<1> QED
  BY <1>6 DEF r

\* The first request, not a write, is answered.
LEMMA AskedLess ==
    ASSUME NEW buf, NEW q \in Seq(RdBuffers), NEW call, NEW buf2, NEW call2,
           Asked(buf, q, call), Len(q) > 0, buf[Head(q)].op # "write",
           \A i \in 1 .. Len(q) : buf2[q[i]].op = buf[q[i]].op /\ buf2[q[i]].pid = buf[q[i]].pid,
           \A p \in RdUsers : p # buf[Head(q)].pid => call2[p] = call[p],
           call2[buf[Head(q)].pid].at # "recv"
    PROVE  Asked(buf2, Tail(q), call2)
<1> DEFINE r == Tail(q)
<1>1. /\ Len(q) \in Nat /\ Len(r) = Len(q) - 1 /\ Head(q) = q[1]
      /\ \A i \in 1 .. Len(q) - 1 : r[i] = q[i + 1]
  BY LenProperties, Dropped
<1> HIDE DEF r
<1>2. ASSUME NEW i \in 1 .. Len(r)
      PROVE  /\ i + 1 \in 1 .. Len(q) /\ i + 1 # 1
             /\ buf2[r[i]].op = buf[q[i + 1]].op /\ buf2[r[i]].pid = buf[q[i + 1]].pid
  BY <1>1
<1>3. 1 \in 1 .. Len(q) /\ buf[q[1]].op # "write"
  BY <1>1
<1>4. ASSUME NEW i \in 1 .. Len(r), buf2[r[i]].op # "write" PROVE buf2[r[i]].pid # buf[q[1]].pid
  BY <1>2, <1>3, <1>4 DEF Asked
<1>5. ASSUME NEW i \in 1 .. Len(r)
      PROVE  /\ buf2[r[i]].op # "none"
             /\ buf2[r[i]].op # "write" => buf2[r[i]].pid \in RdUsers /\ call2[buf2[r[i]].pid].at = "recv"
  BY <1>1, <1>2, <1>4 DEF Asked
<1>6. ASSUME NEW i \in 1 .. Len(r), NEW j \in 1 .. Len(r),
             buf2[r[i]].op # "write", buf2[r[j]].op # "write", buf2[r[i]].pid = buf2[r[j]].pid
      PROVE  i = j
  <2>1. PICK k \in 1 .. Len(q) : k = i + 1 /\ buf2[r[i]].op = buf[q[k]].op /\ buf2[r[i]].pid = buf[q[k]].pid
    BY <1>2
  <2>2. PICK l \in 1 .. Len(q) : l = j + 1 /\ buf2[r[j]].op = buf[q[l]].op /\ buf2[r[j]].pid = buf[q[l]].pid
    BY <1>2
  <2>3. buf[q[k]].op # "write" /\ buf[q[l]].op # "write" /\ buf[q[k]].pid = buf[q[l]].pid
    BY <1>6, <2>1, <2>2
  <2>4. k = l
    BY <2>3 DEF Asked
  <2> QED
    BY <1>1, <2>1, <2>2, <2>4
<1>7. ASSUME NEW p \in RdUsers, call2[p].at = "recv"
      PROVE  \E i \in 1 .. Len(r) : buf2[r[i]].op # "write" /\ buf2[r[i]].pid = p
  <2>1. p # buf[q[1]].pid
    BY <1>1, <1>7
  <2>2. PICK i \in 1 .. Len(q) : buf[q[i]].op # "write" /\ buf[q[i]].pid = p
    BY <1>1, <1>7, <2>1 DEF Asked
  <2>3. PICK j \in 1 .. Len(r) : j + 1 = i
    <3>1. i # 1
      BY <2>1, <2>2
    <3>2. i - 1 \in 1 .. Len(r) /\ (i - 1) + 1 = i
      BY <1>1, <3>1
    <3> QED
      BY <3>2
  <2> QED
    BY <1>2, <2>2, <2>3
<1>8. Asked(buf2, r, call2)
  BY <1>5, <1>6, <1>7 DEF Asked
<1> QED
  BY <1>8 DEF r

-----------------------------------------------------------------------------
(* Steps keep the lists and what waits for them.                           *)

\* What the invariant of the lists says, one by one.
LEMMA RdFacts ==
    ASSUME RdListsInv
    PROVE  /\ RdTypes /\ OnLists(rdfree, rdcache, rdreq)
           /\ rdfree \in Seq(RdBuffers) /\ rdcache \in Seq(RdBuffers) /\ rdreq \in Seq(RdBuffers)
           /\ Len(rdfree) \in Nat /\ Len(rdcache) \in Nat /\ Len(rdreq) \in Nat
           /\ \A i \in 1 .. Len(rdcache) : rdcache[i] \in RdBuffers
           /\ \A i \in 1 .. Len(rdreq) : rdreq[i] \in RdBuffers
           /\ DOMAIN rdcache = 1 .. Len(rdcache) /\ DOMAIN rdreq = 1 .. Len(rdreq)
           /\ rdreq # <<>> <=> Len(rdreq) > 0
           /\ rdreq # <<>> => Head(rdreq) = rdreq[1] /\ rdreq[1] \in RdBuffers
           /\ Asked(rdbuf, rdreq, rdcall) /\ CommOK(rdcomm, rdbuf, rdreq, rdcall)
<1>1. OnLists(rdfree, rdcache, rdreq) /\ RdTypes
      /\ Asked(rdbuf, rdreq, rdcall) /\ CommOK(rdcomm, rdbuf, rdreq, rdcall)
  BY DEF RdListsInv
<1>2. /\ rdfree \in Seq(RdBuffers) /\ rdcache \in Seq(RdBuffers) /\ rdreq \in Seq(RdBuffers)
      /\ Len(rdfree) \in Nat /\ Len(rdcache) \in Nat /\ Len(rdreq) \in Nat
      /\ \A i \in 1 .. Len(rdcache) : rdcache[i] \in RdBuffers
      /\ \A i \in 1 .. Len(rdreq) : rdreq[i] \in RdBuffers
  BY <1>1, ListTypes
<1>3. rdreq # <<>> <=> Len(rdreq) > 0
  BY <1>2, EmptySeq
<1> QED
  BY <1>1, <1>2, <1>3, LenProperties

\* A packet is put on the way or lost.
LEMMA LinkType ==
    ASSUME NEW S, NEW link \in Seq(S), NEW cap, NEW m \in S, NEW out, out \in Transmit(link, cap, m)
    PROVE  out \in Seq(S)
<1>1. Append(link, m) \in Seq(S)
  BY Appended
<1>2. out = link \/ out = Append(link, m)
  BY DEF Transmit
<1> QED
  BY <1>1, <1>2

\* The call of p becomes x, and the lists stay as they are.
LEMMA CallMoves ==
    ASSUME RdListsInv, NEW p \in RdUsers, NEW x \in RdCall,
           rdcall' = [rdcall EXCEPT ![p] = x],
           x.at # "recv", rdcall[p].at # "recv"
    PROVE  /\ rdcall' \in [RdUsers -> RdCall] /\ rdcall'[p] = x
           /\ \A q \in RdUsers : q # p => rdcall'[q] = rdcall[q]
           /\ \A q \in RdUsers : rdcall'[q].at = "recv" <=> rdcall[q].at = "recv"
<1>1. rdcall \in [RdUsers -> RdCall]
  BY RdFacts DEF RdTypes
<1> QED
  BY <1>1

\* An exchange by w begins, for a request r.
LEMMA ExchangeBegins ==
    ASSUME RdListsInv, NEW w \in RdProcs, NEW r \in RdRequest, RdExchange(w, r)
    PROVE  /\ rdseq' \in Int /\ rdcomm' \in [RdProcs -> RdComm] /\ rdOut' \in Seq(RdPacket)
           /\ rdcomm'[w] # NoComm /\ rdcomm'[w].req = r
           /\ \A v \in RdProcs : v # w => rdcomm'[v] = rdcomm[v]
<1>1. rdseq \in Int /\ rdcomm \in [RdProcs -> RdComm] /\ rdOut \in Seq(RdPacket)
  BY RdFacts DEF RdTypes
<1>2. PICK n \in Int : n = FirstSeq
  BY <1>1 DEF FirstSeq
<1>3. /\ rdseq' = n + 1 /\ rdOut' \in Transmit(rdOut, RdCap, [seq |-> n, req |-> r])
      /\ rdcomm' = [rdcomm EXCEPT ![w] = [req |-> r, seq |-> n, i |-> 0]]
  BY <1>2 DEF RdExchange
<1>4. [seq |-> n, req |-> r] \in RdPacket
  BY DEF RdPacket
<1>5. [req |-> r, seq |-> n, i |-> 0] \in RdComm
  BY DEF RdComm
<1>6. rdOut' \in Seq(RdPacket)
  BY <1>1, <1>3, <1>4, LinkType
<1>7. r.op # "none"
  BY DEF RdRequest
<1>8. [req |-> r, seq |-> n, i |-> 0] # NoComm
  <2>1. NoComm.req.op = "none"
    BY DEF NoComm
  <2> QED
    BY <1>7, <2>1
<1> QED
  BY <1>1, <1>3, <1>5, <1>6, <1>8

\* Exchanges are for the same requests, and their users still wait for them.
LEMMA CommKept ==
    ASSUME NEW comm, NEW buf, NEW q, NEW call, NEW buf2, NEW q2, NEW call2, CommOK(comm, buf, q, call),
           Len(q) > 0 /\ buf[q[1]].op = "read" => Len(q2) > 0 /\ buf2[q2[1]].op = "read",
           \A p \in RdUsers : call[p].at = "comm" => call2[p].at = "comm"
    PROVE  CommOK(comm, buf2, q2, call2)
  BY DEF CommOK

\* In all the variables that the parts of the invariant are about.
RdListVars == <<rdbuf, rdfree, rdcache, rdreq, rdcall, rdcomm>>
RdTypeVars == <<rdseq, rdblk, rdOut, rdIn, rddisk, rdlast>>

\* p waits for a buffer, or goes on when it has none to wait for.
LEMMA WaitingOK ==
    ASSUME RdListsInv, NEW p \in RdUsers, NEW x \in RdCall,
           rdcall' = [rdcall EXCEPT ![p] = x],
           x.at \notin {"recv"}, rdcall[p].at \notin {"recv", "comm"},
           UNCHANGED <<rdbuf, rdfree, rdcache, rdreq, rdcomm, RdTypeVars>>
    PROVE  RdListsInv'
<1>1. /\ rdcall' \in [RdUsers -> RdCall]
      /\ \A q \in RdUsers : q # p => rdcall'[q] = rdcall[q]
      /\ \A q \in RdUsers : rdcall'[q].at = "recv" <=> rdcall[q].at = "recv"
  BY CallMoves
<1>2. RdTypes'
  BY <1>1, RdFacts DEF RdTypes, RdTypeVars
<1>3. Asked(rdbuf, rdreq, rdcall')
  BY <1>1, AskedKept, RdFacts
<1>4. CommOK(rdcomm, rdbuf, rdreq, rdcall')
  <2>1. PICK call : call = rdcall'
    OBVIOUS
  <2>2. \A q \in RdUsers : rdcall[q].at = "comm" => call[q].at = "comm"
    BY <1>1, <2>1
  <2>3. CommOK(rdcomm, rdbuf, rdreq, rdcall)
    BY RdFacts
  <2>4. CommOK(rdcomm, rdbuf, rdreq, call)
    BY <2>2, <2>3, CommKept
  <2> QED
    BY <2>1, <2>4
<1>5. OnLists(rdfree, rdcache, rdreq)
  BY RdFacts
<1> QED
  BY <1>2, <1>3, <1>4, <1>5 DEF RdListsInv

\* A step that leaves these variables as they are.
LEMMA RdListsStutter ==
    ASSUME RdListsInv, UNCHANGED <<RdListVars, RdTypeVars>> PROVE RdListsInv'
<1>1. RdTypes'
  BY RdFacts DEF RdTypes, RdListVars, RdTypeVars
<1> QED
  BY <1>1, RdFacts DEF RdListsInv, RdListVars

\* The call that WaitAvail() leaves is of its type.
LEMMA AllocCall ==
    ASSUME NEW op \in {"read", "write", "sync"}, NEW k, NEW d \in RdContents,
           op # "sync" => k \in RdBlocks, op = "sync" => k = 0
    PROVE  /\ [at |-> "alloc", op |-> op, blk |-> k, data |-> d] \in RdCall
           /\ [at |-> "alloc", op |-> op, blk |-> k, data |-> d].at = "alloc"
  BY DEF RdCall

\* rdsRead() (rdsRead.c).
LEMMA ReadKeepsLists ==
    ASSUME RdListsInv, NEW p \in RdUsers, NEW k \in RdBlocks, RdRead(p, k)
    PROVE  RdListsInv'
<1>1. /\ rdcall[p].at = "idle" /\ UNCHANGED <<rdbuf, rdfree, rdcache, rdreq, rdcomm, RdTypeVars>>
      /\ UNCHANGED rdcall \/ WaitAvail(p, "read", k, "0")
  BY DEF RdRead, CanCall, RdNoExchange, RdTypeVars
<1>2. CASE UNCHANGED rdcall
  BY <1>1, <1>2, RdListsStutter DEF RdListVars
<1>3. CASE WaitAvail(p, "read", k, "0")
  <2>1. PICK x : x = [at |-> "alloc", op |-> "read", blk |-> k, data |-> "0"]
    OBVIOUS
  <2>2. "0" \in RdContents
    BY DEF RdContents
  <2>3. x \in RdCall /\ x.at = "alloc" /\ rdcall' = [rdcall EXCEPT ![p] = x]
    BY <1>3, <2>1, <2>2, AllocCall DEF WaitAvail, Calls
  <2> QED
    BY <1>1, <2>3, WaitingOK
<1> QED
  BY <1>1, <1>2, <1>3

\* RDS_CTL_SYNC (rdsControl.c).
LEMMA SyncKeepsLists ==
    ASSUME RdListsInv, NEW p \in RdUsers, RdSync(p)
    PROVE  RdListsInv'
<1>1. /\ rdcall[p].at = "idle" /\ UNCHANGED <<rdbuf, rdfree, rdcache, rdreq, rdcomm, RdTypeVars>>
      /\ WaitAvail(p, "sync", 0, "0")
  BY DEF RdSync, CanCall, RdNoExchange, RdTypeVars
<1>2. PICK x : x = [at |-> "alloc", op |-> "sync", blk |-> 0, data |-> "0"]
  OBVIOUS
<1>3. "0" \in RdContents
  BY DEF RdContents
<1>4. x \in RdCall /\ x.at = "alloc" /\ rdcall' = [rdcall EXCEPT ![p] = x]
  BY <1>1, <1>2, <1>3, AllocCall DEF WaitAvail, Calls
<1> QED
  BY <1>1, <1>4, WaitingOK

\* RDS_CTL_SYNC after receive() (rdsControl.c).
LEMMA SyncedKeepsLists ==
    ASSUME RdListsInv, NEW p \in RdUsers, RdSynced(p)
    PROVE  RdListsInv'
<1>1. /\ rdcall[p].at = "synced" /\ UNCHANGED <<rdbuf, rdfree, rdcache, rdreq, rdcomm, RdTypeVars>>
      /\ rdcall' = [rdcall EXCEPT ![p] = RdIdle]
  BY DEF RdSynced, CanCall, RdNoExchange, RdTypeVars, Calls, rdLists
<1>2. PICK x : x = RdIdle
  OBVIOUS
<1>3. x \in RdCall /\ x.at = "idle"
  BY <1>2 DEF RdCall, RdIdle
<1> QED
  BY <1>1, <1>2, <1>3, WaitingOK

\* The buffer of a write is of its type.
LEMMA WriteType ==
    ASSUME NEW p \in RdUsers, NEW k \in RdBlocks, NEW d \in RdContents
    PROVE  /\ WriteOf(p, k, d) \in RdBuf /\ WriteOf(p, k, d).op = "write" /\ WriteOf(p, k, d).valid
           /\ WriteOf(p, k, d).refcnt = 0 /\ WriteOf(p, k, d).blk = k /\ WriteOf(p, k, d).data = d
  BY DEF WriteOf, RdBuf

\* rdsWrite() changes a write that is queued (rdsWrite.c).
LEMMA ReplaceKeepsLists ==
    ASSUME RdListsInv, NEW p \in RdUsers, NEW k \in RdBlocks, NEW d \in RdContents,
           ReplaceQueued(p, k, d), UNCHANGED <<rdcomm, rdseq, rdblk, rdOut, rdIn, rddisk>>,
           rdlast' \in [RdBlocks -> RdContents]
    PROVE  RdListsInv'
<1>1. PICK b : b = rdreq[QueuedWrite(k)]
  OBVIOUS
<1>2. b \in RdBuffers /\ rdbuf[b].op = "write"
  BY <1>1, RdFacts, QueuedWriteFound DEF ReplaceQueued
<1>3. rdbuf \in [RdBuffers -> RdBuf] /\ rdbuf[b] \in RdBuf
  BY <1>2, RdFacts DEF RdTypes
<1>4. PICK v : v = [rdbuf[b] EXCEPT !.data = d]
  OBVIOUS
<1>5. v \in RdBuf /\ v.op = rdbuf[b].op /\ v.pid = rdbuf[b].pid
  BY <1>3, <1>4 DEF RdBuf
<1>6. rdbuf' = [rdbuf EXCEPT ![b] = v]
  BY <1>1, <1>2, <1>3, <1>4 DEF ReplaceQueued
<1>7. rdbuf' \in [RdBuffers -> RdBuf] /\ \A a \in RdBuffers : rdbuf'[a].op = rdbuf[a].op /\ rdbuf'[a].pid = rdbuf[a].pid
  BY <1>2, <1>3, <1>5, <1>6
<1>8. UNCHANGED <<rdcall, rdfree, rdcache, rdreq>>
  BY DEF ReplaceQueued
<1>9. RdTypes'
  BY <1>7, <1>8, RdFacts DEF RdTypes
<1>10. Asked(rdbuf', rdreq, rdcall)
  BY <1>7, AskedKept, RdFacts
<1>11. CommOK(rdcomm, rdbuf', rdreq, rdcall)
  BY <1>7, CommKept, RdFacts
<1> QED
  BY <1>8, <1>9, <1>10, <1>11, RdFacts DEF RdListsInv

\* A write goes into the queue, in a buffer that was cached or free.
LEMMA WriteQueued ==
    ASSUME RdListsInv, NEW b \in RdBuffers, NEW v \in RdBuf, v.op = "write",
           b \notin On(rdreq), OnLists(rdfree', rdcache', Append(rdreq, b)),
           rdbuf' = [rdbuf EXCEPT ![b] = v], rdreq' = Append(rdreq, b),
           rdcall' \in [RdUsers -> RdCall],
           \A q \in RdUsers : rdcall'[q].at = "recv" <=> rdcall[q].at = "recv",
           \A q \in RdUsers : rdcall[q].at = "comm" => rdcall'[q].at = "comm",
           UNCHANGED <<rdcomm, rdseq, rdblk, rdOut, rdIn, rddisk>>,
           rdlast' \in [RdBlocks -> RdContents]
    PROVE  RdListsInv'
<1>1. PICK buf : buf = rdbuf'
  OBVIOUS
<1>2. PICK call : call = rdcall'
  OBVIOUS
<1>3. buf \in [RdBuffers -> RdBuf] /\ buf[b] = v /\ \A a \in RdBuffers : a # b => buf[a] = rdbuf[a]
  <2>1. rdbuf \in [RdBuffers -> RdBuf] /\ buf = [rdbuf EXCEPT ![b] = v]
    BY <1>1, RdFacts DEF RdTypes
  <2> QED
    BY <2>1
<1>4. RdTypes'
  BY <1>1, <1>3, RdFacts DEF RdTypes
<1>5. \A i \in 1 .. Len(rdreq) : buf[rdreq[i]] = rdbuf[rdreq[i]]
  BY <1>3, RdFacts DEF On
<1>6. /\ \A q \in RdUsers : call[q].at = "recv" <=> rdcall[q].at = "recv"
      /\ \A q \in RdUsers : rdcall[q].at = "comm" => call[q].at = "comm"
  BY <1>2
<1>7. rdreq \in Seq(RdBuffers) /\ Asked(rdbuf, rdreq, rdcall) /\ CommOK(rdcomm, rdbuf, rdreq, rdcall)
  BY RdFacts
<1>8. Asked(buf, Append(rdreq, b), call)
  BY <1>3, <1>5, <1>6, <1>7, AskedWrite
<1>9. PICK q : q = Append(rdreq, b)
  OBVIOUS
<1>10. Len(rdreq) > 0 => Len(q) > 0 /\ 1 \in 1 .. Len(rdreq) /\ q[1] = rdreq[1]
  BY <1>9, RdFacts, Appended
<1>11. Len(rdreq) > 0 /\ rdbuf[rdreq[1]].op = "read" => Len(q) > 0 /\ buf[q[1]].op = "read"
  BY <1>5, <1>10
<1>12. CommOK(rdcomm, buf, q, call)
  BY <1>6, <1>7, <1>11, CommKept
<1> QED
  BY <1>1, <1>2, <1>4, <1>8, <1>9, <1>12 DEF RdListsInv

\* rdsWrite() takes over the cached copy (rdsWrite.c).
LEMMA ReuseKeepsLists ==
    ASSUME RdListsInv, NEW p \in RdUsers, NEW k \in RdBlocks, NEW d \in RdContents,
           ReuseCached(p, k, d), UNCHANGED <<rdcomm, rdseq, rdblk, rdOut, rdIn, rddisk>>,
           rdlast' \in [RdBlocks -> RdContents]
    PROVE  RdListsInv'
<1>1. PICK c : c = Cached(k)
  OBVIOUS
<1>2. c \in 1 .. Len(rdcache)
  BY <1>1, RdFacts, CachedFirst DEF ReuseCached
<1>3. PICK b : b = rdcache[c]
  OBVIOUS
<1>4. b \in RdBuffers /\ b \notin On(rdreq)
  BY <1>2, <1>3, RdFacts, ListTypes DEF On
<1>5. PICK v : v = WriteOf(p, k, d)
  OBVIOUS
<1>6. v \in RdBuf /\ v.op = "write"
  BY <1>5, WriteType
<1>7. /\ rdcache' = RemoveAt(rdcache, c) /\ rdbuf' = [rdbuf EXCEPT ![b] = v] /\ rdreq' = Append(rdreq, b)
      /\ UNCHANGED <<rdcall, rdfree>>
  BY <1>1, <1>3, <1>5 DEF ReuseCached, Enqueue
<1>8. OnLists(rdfree', rdcache', Append(rdreq, b))
  BY <1>2, <1>3, <1>7, RdFacts, CacheToQueue
<1>9. rdcall' \in [RdUsers -> RdCall]
  BY <1>7, RdFacts DEF RdTypes
<1> QED
  BY <1>4, <1>6, <1>7, <1>8, <1>9, WriteQueued

\* A write that waits for a buffer is not done.
LEMMA NewWriteWaits ==
    ASSUME RdListsInv, NEW p \in RdUsers, NEW k, NEW d, WaitAvail(p, "write", k, d), rdcall[p].at = "idle"
    PROVE  rdcall' # rdcall
<1>1. rdcall \in [RdUsers -> RdCall]
  BY RdFacts DEF RdTypes
<1>2. rdcall'[p].at = "alloc"
  BY <1>1 DEF WaitAvail, Calls
<1> QED
  BY <1>2

\* rdsWrite() (rdsWrite.c).
LEMMA WriteKeepsLists ==
    ASSUME RdListsInv, NEW p \in RdUsers, NEW k \in RdBlocks, NEW d \in RdData, RdWrite(p, k, d)
    PROVE  RdListsInv'
<1>1. d \in RdContents /\ rdcall[p].at = "idle"
  BY DEF RdContents, RdWrite, CanCall
<1>2. UNCHANGED <<rdcomm, rdseq, rdblk, rdOut, rdIn, rddisk>>
  BY DEF RdWrite, RdNoExchange
<1>3. rdlast' = IF rdcall' = rdcall THEN [rdlast EXCEPT ![k] = d] ELSE rdlast
  BY DEF RdWrite
<1>4. rdlast' \in [RdBlocks -> RdContents]
  BY <1>1, <1>3, RdFacts DEF RdTypes
<1>5. ReplaceQueued(p, k, d) \/ ReuseCached(p, k, d) \/ NewWrite(p, k, d)
  BY DEF RdWrite
<1>6. CASE NewWrite(p, k, d)
  <2>1. PICK x : x = [at |-> "alloc", op |-> "write", blk |-> k, data |-> d]
    OBVIOUS
  <2>2. x \in RdCall /\ x.at = "alloc" /\ rdcall' = [rdcall EXCEPT ![p] = x]
    BY <1>1, <1>6, <2>1, AllocCall DEF NewWrite, WaitAvail, Calls
  <2>3. rdcall' # rdcall
    BY <1>1, <1>6, NewWriteWaits DEF NewWrite
  <2>4. UNCHANGED <<rdbuf, rdfree, rdcache, rdreq, rdcomm, RdTypeVars>>
    BY <1>2, <1>3, <1>6, <2>3 DEF NewWrite, RdTypeVars
  <2> QED
    BY <1>1, <2>2, <2>4, WaitingOK
<1> QED
  BY <1>1, <1>2, <1>4, <1>5, <1>6, ReplaceKeepsLists, ReuseKeepsLists

\* A request is queued, and its process waits for the answer.
LEMMA AskQueued ==
    ASSUME RdListsInv, NEW p \in RdUsers, NEW x \in RdCall, NEW b \in RdBuffers, NEW v \in RdBuf,
           x.at = "recv", v.op \in {"read", "sync"}, v.pid = p, rdcall[p].at = "alloc",
           b \notin On(rdreq), OnLists(rdfree', rdcache', Append(rdreq, b)),
           rdbuf' = [rdbuf EXCEPT ![b] = v], rdreq' = Append(rdreq, b),
           rdcall' = [rdcall EXCEPT ![p] = x], UNCHANGED <<rdcomm, RdTypeVars>>
    PROVE  RdListsInv'
<1>1. PICK buf : buf = rdbuf'
  OBVIOUS
<1>2. PICK call : call = rdcall'
  OBVIOUS
<1>3. buf \in [RdBuffers -> RdBuf] /\ buf[b] = v /\ \A a \in RdBuffers : a # b => buf[a] = rdbuf[a]
  <2>1. rdbuf \in [RdBuffers -> RdBuf] /\ buf = [rdbuf EXCEPT ![b] = v]
    BY <1>1, RdFacts DEF RdTypes
  <2> QED
    BY <2>1
<1>4. /\ call \in [RdUsers -> RdCall] /\ call[p].at = "recv"
      /\ \A q \in RdUsers : q # p => call[q] = rdcall[q]
  <2>1. rdcall \in [RdUsers -> RdCall] /\ call = [rdcall EXCEPT ![p] = x]
    BY <1>2, RdFacts DEF RdTypes
  <2> QED
    BY <2>1
<1>5. RdTypes'
  BY <1>1, <1>2, <1>3, <1>4, RdFacts DEF RdTypes, RdTypeVars
<1>6. \A i \in 1 .. Len(rdreq) : buf[rdreq[i]] = rdbuf[rdreq[i]]
  BY <1>3, RdFacts DEF On
<1>7. rdreq \in Seq(RdBuffers) /\ Asked(rdbuf, rdreq, rdcall) /\ CommOK(rdcomm, rdbuf, rdreq, rdcall)
  BY RdFacts
<1>8. Asked(buf, Append(rdreq, b), call)
  BY <1>3, <1>4, <1>6, <1>7, AskedMore
<1>9. PICK q : q = Append(rdreq, b)
  OBVIOUS
<1>10. Len(rdreq) > 0 => Len(q) > 0 /\ 1 \in 1 .. Len(rdreq) /\ q[1] = rdreq[1]
  BY <1>9, RdFacts, Appended
<1>11. Len(rdreq) > 0 /\ rdbuf[rdreq[1]].op = "read" => Len(q) > 0 /\ buf[q[1]].op = "read"
  BY <1>6, <1>10
<1>12. \A u \in RdUsers : rdcall[u].at = "comm" => call[u].at = "comm"
  BY <1>4
<1>13. CommOK(rdcomm, buf, q, call)
  BY <1>7, <1>11, <1>12, CommKept
<1> QED
  BY <1>1, <1>2, <1>5, <1>8, <1>9, <1>13 DEF RdListsInv, RdTypeVars

\* What a process that waits for a buffer is waiting with.
LEMMA AllocFields ==
    ASSUME NEW c \in RdCall, c.at = "alloc"
    PROVE  /\ c.op \in {"read", "write", "sync"} /\ c.blk \in RdBlocks \cup {0} /\ c.data \in RdContents
           /\ c.op # "sync" => c.blk \in RdBlocks
           /\ c.op = "sync" => c.blk = 0
  BY DEF RdCall

\* The buffer of a read or of a SYNC is of its type.
LEMMA AskType ==
    ASSUME NEW p \in RdUsers, NEW k \in RdBlocks \cup {0}, NEW op \in {"read", "sync"}
    PROVE  LET v == [op |-> op, refcnt |-> 1, blk |-> k, valid |-> FALSE, pid |-> p, data |-> "0"]
           IN  v \in RdBuf /\ v.op = op /\ v.pid = p /\ ~v.valid /\ v.blk = k
  BY DEF RdBuf, RdContents

\* The request of p is queued (rdsRead.c, rdsWrite.c, rdsControl.c).
LEMMA QueueKeepsLists ==
    ASSUME RdListsInv, NEW p \in RdUsers, NEW b \in RdBuffers, rdcall[p].at = "alloc",
           b \notin On(rdreq), OnLists(rdfree', rdcache', Append(rdreq, b)),
           Queue(p, b), UNCHANGED <<rdcomm, rdseq, rdblk, rdOut, rdIn, rddisk>>
    PROVE  RdListsInv'
<1>1. PICK c \in RdCall : c = rdcall[p]
  BY RdFacts DEF RdTypes
<1>2. /\ c.op \in {"read", "write", "sync"} /\ c.blk \in RdBlocks \cup {0} /\ c.data \in RdContents
      /\ c.op # "sync" => c.blk \in RdBlocks
  BY <1>1, AllocFields
<1>3. rdcall \in [RdUsers -> RdCall] /\ rdlast \in [RdBlocks -> RdContents]
  BY RdFacts DEF RdTypes
<1>4. rdreq' = Append(rdreq, b)
  BY DEF Queue
<1>5. CASE c.op = "write"
  <2>1. PICK v : v = WriteOf(p, c.blk, c.data)
    OBVIOUS
  <2>2. v \in RdBuf /\ v.op = "write"
    BY <1>2, <1>5, <2>1, WriteType
  <2>3. rdbuf' = [rdbuf EXCEPT ![b] = v] /\ rdcall' = [rdcall EXCEPT ![p] = RdIdle]
        /\ rdlast' = [rdlast EXCEPT ![c.blk] = c.data]
    BY <1>1, <1>5, <2>1 DEF Queue, Calls
  <2>4. rdlast' \in [RdBlocks -> RdContents]
    BY <1>2, <1>3, <2>3
  <2>5. RdIdle \in RdCall /\ RdIdle.at = "idle"
    BY DEF RdIdle, RdCall
  <2>6. /\ rdcall' \in [RdUsers -> RdCall]
        /\ \A q \in RdUsers : rdcall'[q].at = "recv" <=> rdcall[q].at = "recv"
        /\ \A q \in RdUsers : rdcall[q].at = "comm" => rdcall'[q].at = "comm"
    BY <1>3, <2>3, <2>5
  <2> QED
    BY <1>4, <2>2, <2>3, <2>4, <2>6, WriteQueued
<1>6. CASE c.op # "write"
  <2>1. PICK v : v = [op |-> c.op, refcnt |-> 1, blk |-> c.blk, valid |-> FALSE, pid |-> p, data |-> "0"]
    OBVIOUS
  <2>2. v \in RdBuf /\ v.op \in {"read", "sync"} /\ v.pid = p
    BY <1>2, <1>6, <2>1, AskType
  <2>3. PICK x : x = [at |-> "recv", blk |-> c.blk]
    OBVIOUS
  <2>4. x \in RdCall /\ x.at = "recv"
    BY <1>2, <2>3 DEF RdCall
  <2>5. rdbuf' = [rdbuf EXCEPT ![b] = v] /\ rdcall' = [rdcall EXCEPT ![p] = x] /\ UNCHANGED rdlast
    BY <1>1, <1>6, <2>1, <2>3 DEF Queue, Calls
  <2>6. UNCHANGED <<rdcomm, RdTypeVars>>
    BY <2>5 DEF RdTypeVars
  <2> QED
    BY <1>4, <2>2, <2>4, <2>5, <2>6, AskQueued
<1> QED
  BY <1>5, <1>6

\* rdsbufalloc() (rdsbufalloc.c).
LEMMA AllocKeepsLists ==
    ASSUME RdListsInv, NEW p \in RdUsers, RdAlloc(p)
    PROVE  RdListsInv'
<1>1. /\ rdcall[p].at = "alloc" /\ UNCHANGED <<rdcomm, rdseq, rdblk, rdOut, rdIn, rddisk>>
  BY DEF RdAlloc, CanCall, RdNoExchange
<1>2. CASE rdfree # <<>> /\ rdfree' = Tail(rdfree) /\ UNCHANGED rdcache /\ Queue(p, Head(rdfree))
  <2>1. PICK b : b = Head(rdfree)
    OBVIOUS
  <2>2. Len(rdfree) > 0
    BY <1>2, RdFacts, EmptySeq
  <2>3. b \in RdBuffers /\ b \notin On(rdreq) /\ OnLists(Tail(rdfree), rdcache, Append(rdreq, b))
    BY <2>1, <2>2, RdFacts, FreeToQueue
  <2>4. OnLists(rdfree', rdcache', Append(rdreq, b)) /\ Queue(p, b)
    BY <1>2, <2>1, <2>3
  <2> QED
    BY <1>1, <2>3, <2>4, QueueKeepsLists
<1>3. CASE /\ rdfree = <<>> /\ Unread # {} /\ rdcache' = RemoveAt(rdcache, Max(Unread)) /\ UNCHANGED rdfree
           /\ Queue(p, rdcache[Max(Unread)])
  <2>1. PICK m : m = Max(Unread)
    OBVIOUS
  <2>2. m \in 1 .. Len(rdcache)
    BY <1>3, <2>1, RdFacts, UnreadLast
  <2>3. PICK b : b = rdcache[m]
    OBVIOUS
  <2>4. b \in RdBuffers /\ b \notin On(rdreq) /\ OnLists(rdfree, RemoveAt(rdcache, m), Append(rdreq, b))
    <3>1. OnLists(rdfree, RemoveAt(rdcache, m), Append(rdreq, b))
      BY <2>2, <2>3, RdFacts, CacheToQueue
    <3>2. b \in RdBuffers /\ b \notin On(rdreq)
      BY <2>2, <2>3, RdFacts, ListTypes DEF On
    <3> QED
      BY <3>1, <3>2
  <2>5. OnLists(rdfree', rdcache', Append(rdreq, b)) /\ Queue(p, b)
    BY <1>3, <2>1, <2>3, <2>4
  <2> QED
    BY <1>1, <2>4, <2>5, QueueKeepsLists
<1>4. CASE UNCHANGED <<rdbuf, rdfree, rdcache, rdreq, rdreqsem, rdcall, rdlast>>
  BY <1>1, <1>4, RdListsStutter DEF RdListVars, RdTypeVars
<1> QED
  BY <1>2, <1>3, <1>4 DEF RdAlloc

\* The same requests in the queue, whatever becomes of the other lists and of the calls.
LEMMA SameRequests ==
    ASSUME RdListsInv, rdbuf' \in [RdBuffers -> RdBuf], rdcall' \in [RdUsers -> RdCall],
           rdcomm' \in [RdProcs -> RdComm], rdOut' \in Seq(RdPacket), rdIn' \in Seq(RdAnswer),
           rdseq' \in Int,
           \A a \in RdBuffers : rdbuf'[a].op = rdbuf[a].op /\ rdbuf'[a].pid = rdbuf[a].pid,
           \A q \in RdUsers : rdcall'[q].at = "recv" <=> rdcall[q].at = "recv",
           CommOK(rdcomm', rdbuf', rdreq, rdcall'),
           OnLists(rdfree', rdcache', rdreq), UNCHANGED <<rdreq, rdblk, rddisk, rdlast>>
    PROVE  RdListsInv'
<1>1. PICK buf : buf = rdbuf'
  OBVIOUS
<1>2. PICK call : call = rdcall'
  OBVIOUS
<1>3. Asked(rdbuf, rdreq, rdcall) /\ \A i \in 1 .. Len(rdreq) : rdreq[i] \in RdBuffers
  BY RdFacts
<1>4. \A i \in 1 .. Len(rdreq) : buf[rdreq[i]].op = rdbuf[rdreq[i]].op /\ buf[rdreq[i]].pid = rdbuf[rdreq[i]].pid
  BY <1>1, <1>3
<1>5. \A q \in RdUsers : call[q].at = "recv" <=> rdcall[q].at = "recv"
  BY <1>2
<1>6. Asked(buf, rdreq, call)
  BY <1>3, <1>4, <1>5, AskedKept
<1>7. RdTypes'
  BY RdFacts DEF RdTypes
<1> QED
  BY <1>1, <1>2, <1>6, <1>7 DEF RdListsInv

\* Exchanges are the same, or end.
LEMMA CommFewer ==
    ASSUME RdListsInv, NEW comm \in [RdProcs -> RdComm], NEW buf, NEW call,
           \A w \in RdProcs : comm[w] = rdcomm[w] \/ comm[w] = NoComm,
           \A i \in 1 .. Len(rdreq) : buf[rdreq[i]].op = rdbuf[rdreq[i]].op,
           \A p \in RdUsers : comm[p] # NoComm /\ rdcall[p].at = "comm" => call[p].at = "comm"
    PROVE  CommOK(comm, buf, rdreq, call)
<1>1. CommOK(rdcomm, rdbuf, rdreq, rdcall) /\ Len(rdreq) \in Nat
  BY RdFacts
<1>2. "rds" \in RdProcs /\ RdUsers \subseteq RdProcs
  BY DEF RdProcs
<1>3. NoComm.req.op = "none"
  BY DEF NoComm
<1>4. comm["rds"].req.op \in {"none", "read", "write"}
  BY <1>1, <1>2, <1>3 DEF CommOK
<1>5. comm["rds"].req.op = "read" => Len(rdreq) > 0 /\ buf[rdreq[1]].op = "read"
  <2> SUFFICES ASSUME comm["rds"].req.op = "read" PROVE Len(rdreq) > 0 /\ buf[rdreq[1]].op = "read"
    OBVIOUS
  <2>1. rdcomm["rds"].req.op = "read"
    BY <1>2, <1>3
  <2>2. Len(rdreq) > 0 /\ rdbuf[rdreq[1]].op = "read"
    BY <1>1, <2>1 DEF CommOK
  <2>3. 1 \in 1 .. Len(rdreq)
    BY <1>1, <2>2
  <2> QED
    BY <2>2, <2>3
<1>6. \A p \in RdUsers : comm[p] # NoComm => call[p].at = "comm" /\ comm[p].req.op \in {"open", "del"}
  BY <1>1, <1>2 DEF CommOK
<1> QED
  BY <1>4, <1>5, <1>6 DEF CommOK

\* rdsRead() after receive() (rdsRead.c).
LEMMA ReceivedKeepsLists ==
    ASSUME RdListsInv, NEW p \in RdUsers, RdReceived(p)
    PROVE  RdListsInv'
<1>1. /\ rdcall[p].at = "got" /\ UNCHANGED <<rdfree, rdcache, rdreq, rdcomm, RdTypeVars>>
  BY DEF RdReceived, CanCall, RdNoExchange, RdTypeVars
<1>2. rdbuf \in [RdBuffers -> RdBuf] /\ rdcall \in [RdUsers -> RdCall] /\ rdcomm \in [RdProcs -> RdComm]
      /\ rdOut \in Seq(RdPacket) /\ rdIn \in Seq(RdAnswer) /\ rdseq \in Int
  BY RdFacts DEF RdTypes
<1>3. PICK b : b = rdcall[p].buf
  OBVIOUS
<1>4. b \in RdBuffers
  BY <1>1, <1>2, <1>3 DEF RdCall
<1>5. PICK v : v = [rdbuf[b] EXCEPT !.refcnt = @ - 1]
  OBVIOUS
<1>6. rdbuf[b] \in RdBuf /\ rdbuf' = [rdbuf EXCEPT ![b] = v]
  BY <1>2, <1>3, <1>4, <1>5 DEF RdReceived
<1>7. v \in RdBuf /\ v.op = rdbuf[b].op /\ v.pid = rdbuf[b].pid
  BY <1>5, <1>6 DEF RdBuf
<1>8. rdbuf' \in [RdBuffers -> RdBuf]
      /\ \A a \in RdBuffers : rdbuf'[a].op = rdbuf[a].op /\ rdbuf'[a].pid = rdbuf[a].pid
  BY <1>2, <1>4, <1>6, <1>7
<1>9. PICK x \in RdCall : x.at \in {"loop", "idle"} /\ rdcall' = [rdcall EXCEPT ![p] = x]
  <2>1. RdIdle \in RdCall /\ RdIdle.at = "idle" /\ [at |-> "loop", blk |-> rdcall[p].blk] \in RdCall
    <3>1. rdcall[p].blk \in RdBlocks \cup {0}
      BY <1>1, <1>2, <1>3 DEF RdCall
    <3> QED
      BY <3>1 DEF RdIdle, RdCall
  <2>2. Calls(p, [at |-> "loop", blk |-> rdcall[p].blk]) \/ Calls(p, RdIdle)
    BY DEF RdReceived
  <2> QED
    BY <2>1, <2>2 DEF Calls
<1>10. /\ rdcall' \in [RdUsers -> RdCall]
       /\ \A q \in RdUsers : rdcall'[q].at = "recv" <=> rdcall[q].at = "recv"
       /\ \A q \in RdUsers : rdcall[q].at = "comm" => rdcall'[q].at = "comm"
  BY <1>1, <1>2, <1>9
<1>11. CommOK(rdcomm', rdbuf', rdreq, rdcall')
  <2>1. PICK buf, call : buf = rdbuf' /\ call = rdcall'
    OBVIOUS
  <2>2. \A i \in 1 .. Len(rdreq) : buf[rdreq[i]].op = rdbuf[rdreq[i]].op
    BY <1>8, <2>1, RdFacts
  <2>3. \A q \in RdUsers : rdcomm[q] # NoComm /\ rdcall[q].at = "comm" => call[q].at = "comm"
    BY <1>10, <2>1
  <2>4. CommOK(rdcomm, buf, rdreq, call)
    BY <1>2, <2>2, <2>3, CommFewer
  <2> QED
    BY <1>1, <2>1, <2>4
<1>12. OnLists(rdfree', rdcache', rdreq)
  BY <1>1, RdFacts
<1> QED
  BY <1>1, <1>2, <1>8, <1>10, <1>11, <1>12, SameRequests DEF RdTypeVars

\* rdsClose() as a step of the lists.
LEMMA EmptiedLists ==
    ASSUME RdListsInv, Emptied
    PROVE  /\ rdbuf' \in [RdBuffers -> RdBuf] /\ OnLists(rdfree', rdcache', rdreq)
           /\ \A a \in RdBuffers : rdbuf'[a].op = rdbuf[a].op /\ rdbuf'[a].pid = rdbuf[a].pid
<1>1. rdbuf \in [RdBuffers -> RdBuf]
  BY RdFacts DEF RdTypes
<1>2. ASSUME NEW b \in RdBuffers
      PROVE  rdbuf'[b] \in RdBuf /\ rdbuf'[b].op = rdbuf[b].op /\ rdbuf'[b].pid = rdbuf[b].pid
  <2>1. rdbuf[b] \in RdBuf
    BY <1>1
  <2>2. rdbuf'[b] = rdbuf[b] \/ rdbuf'[b] = [rdbuf[b] EXCEPT !.valid = FALSE]
    BY DEF Emptied
  <2> QED
    BY <2>1, <2>2 DEF RdBuf
<1>3. rdbuf' \in [RdBuffers -> RdBuf]
  BY <1>2 DEF Emptied
<1>4. OnLists(rdfree', rdcache', rdreq)
  BY RdFacts, CacheToFree DEF Emptied
<1> QED
  BY <1>2, <1>3, <1>4

\* rdsClose() (rdsClose.c).
LEMMA CloseKeepsLists ==
    ASSUME RdListsInv, NEW p \in RdUsers, RdClose(p)
    PROVE  RdListsInv'
<1>1. UNCHANGED <<rdcall, rdreq, rdcomm, RdTypeVars>> /\ Emptied
  BY DEF RdClose, RdNoExchange, RdTypeVars
<1>2. rdcall \in [RdUsers -> RdCall] /\ rdcomm \in [RdProcs -> RdComm]
      /\ rdOut \in Seq(RdPacket) /\ rdIn \in Seq(RdAnswer) /\ rdseq \in Int
  BY RdFacts DEF RdTypes
<1>3. /\ rdbuf' \in [RdBuffers -> RdBuf] /\ OnLists(rdfree', rdcache', rdreq)
      /\ \A a \in RdBuffers : rdbuf'[a].op = rdbuf[a].op /\ rdbuf'[a].pid = rdbuf[a].pid
  BY <1>1, EmptiedLists
<1>4. CommOK(rdcomm, rdbuf', rdreq, rdcall)
  <2>1. PICK buf : buf = rdbuf'
    OBVIOUS
  <2>2. \A i \in 1 .. Len(rdreq) : buf[rdreq[i]].op = rdbuf[rdreq[i]].op
    BY <1>3, <2>1, RdFacts
  <2>3. CommOK(rdcomm, buf, rdreq, rdcall)
    BY <1>2, <2>2, CommFewer
  <2> QED
    BY <2>1, <2>3
<1> QED
  BY <1>1, <1>2, <1>3, <1>4, SameRequests DEF RdTypeVars

\* A user begins an exchange, and waits for its end.
LEMMA UserExchange ==
    ASSUME RdListsInv, NEW p \in RdUsers, NEW r \in RdRequest, r.op \in {"open", "del"},
           rdcall[p].at = "idle", RdExchange(p, r), Calls(p, [at |-> "comm"]),
           UNCHANGED <<rdbuf, rdfree, rdcache, rdreq, rdblk, rdIn, rddisk, rdlast>>
    PROVE  RdListsInv'
<1>1. p \in RdProcs /\ "rds" \in RdProcs /\ p # "rds"
  BY RdAssumption DEF RdProcs
<1>2. /\ rdseq' \in Int /\ rdcomm' \in [RdProcs -> RdComm] /\ rdOut' \in Seq(RdPacket)
      /\ rdcomm'[p] # NoComm /\ rdcomm'[p].req = r
      /\ \A v \in RdProcs : v # p => rdcomm'[v] = rdcomm[v]
  BY <1>1, ExchangeBegins
<1>3. PICK x : x = [at |-> "comm"]
  OBVIOUS
<1>4. x \in RdCall /\ x.at = "comm" /\ rdcall' = [rdcall EXCEPT ![p] = x]
  BY <1>3 DEF RdCall, Calls
<1>5. /\ rdcall' \in [RdUsers -> RdCall] /\ rdcall'[p] = x
      /\ \A q \in RdUsers : q # p => rdcall'[q] = rdcall[q]
      /\ \A q \in RdUsers : rdcall'[q].at = "recv" <=> rdcall[q].at = "recv"
  <2>1. x.at # "recv" /\ rdcall[p].at # "recv"
    BY <1>4
  <2> QED
    BY <1>4, <2>1, CallMoves
<1>6. rdbuf \in [RdBuffers -> RdBuf] /\ rdIn \in Seq(RdAnswer)
  BY RdFacts DEF RdTypes
<1>7. CommOK(rdcomm, rdbuf, rdreq, rdcall) /\ OnLists(rdfree, rdcache, rdreq)
  BY RdFacts
<1>8. CommOK(rdcomm', rdbuf, rdreq, rdcall')
  <2>1. rdcomm'["rds"] = rdcomm["rds"]
    BY <1>1, <1>2
  <2>2. ASSUME NEW q \in RdUsers, rdcomm'[q] # NoComm
        PROVE  rdcall'[q].at = "comm" /\ rdcomm'[q].req.op \in {"open", "del"}
    <3>1. CASE q = p
      BY <1>2, <1>4, <1>5, <3>1
    <3>2. CASE q # p
      <4>1. q \in RdProcs
        BY DEF RdProcs
      <4>2. rdcomm'[q] = rdcomm[q] /\ rdcall'[q] = rdcall[q]
        BY <1>2, <1>5, <3>2, <4>1
      <4> QED
        BY <1>7, <2>2, <4>2 DEF CommOK
    <3> QED
      BY <3>1, <3>2
  <2> QED
    BY <1>7, <2>1, <2>2 DEF CommOK
<1>9. \A a \in RdBuffers : rdbuf'[a].op = rdbuf[a].op /\ rdbuf'[a].pid = rdbuf[a].pid
  OBVIOUS
<1> QED
  BY <1>2, <1>5, <1>6, <1>7, <1>8, <1>9, SameRequests

\* rdsOpen() (rdsOpen.c).
LEMMA OpenKeepsLists ==
    ASSUME RdListsInv, NEW p \in RdUsers, RdOpen(p)
    PROVE  RdListsInv'
<1>1. UNCHANGED <<rdbuf, rdfree, rdcache, rdreq, rdblk, rdIn, rddisk, rdlast>> /\ rdcall[p].at = "idle"
  BY DEF RdOpen, CanCall, rdLists
<1>2. CASE RdExchange(p, [op |-> "open"]) /\ Calls(p, [at |-> "comm"])
  <2>1. PICK r : r = [op |-> "open"]
    OBVIOUS
  <2>2. r \in RdRequest /\ r.op \in {"open", "del"} /\ RdExchange(p, r)
    BY <1>2, <2>1 DEF RdRequest
  <2> QED
    BY <1>1, <1>2, <2>2, UserExchange
<1>3. CASE RdNoExchange /\ UNCHANGED rdcall
  BY <1>1, <1>3, RdListsStutter DEF RdNoExchange, RdListVars, RdTypeVars
<1> QED
  BY <1>2, <1>3 DEF RdOpen

\* RDS_CTL_DEL (rdsControl.c).
LEMMA DeleteKeepsLists ==
    ASSUME RdListsInv, NEW p \in RdUsers, RdDelete(p)
    PROVE  RdListsInv'
<1>1. /\ UNCHANGED <<rdbuf, rdfree, rdcache, rdreq, rdblk, rdIn, rddisk, rdlast>> /\ rdcall[p].at = "idle"
      /\ RdExchange(p, [op |-> "del"]) /\ Calls(p, [at |-> "comm"])
  BY DEF RdDelete, CanCall, rdLists
<1>2. PICK r : r = [op |-> "del"]
  OBVIOUS
<1>3. r \in RdRequest /\ r.op \in {"open", "del"} /\ RdExchange(p, r)
  BY <1>1, <1>2 DEF RdRequest
<1> QED
  BY <1>1, <1>3, UserExchange

\* The request that is first in the queue.
LEMMA FirstRequest ==
    ASSUME RdListsInv, rdreq # <<>>, NEW b, b = Head(rdreq)
    PROVE  /\ b \in RdBuffers /\ b = rdreq[1] /\ Len(rdreq) > 0 /\ 1 \in 1 .. Len(rdreq)
           /\ rdbuf[b] \in RdBuf /\ rdbuf[b].op \in {"read", "write", "sync"}
           /\ rdbuf[b].op # "write" => rdbuf[b].pid \in RdUsers /\ rdcall[rdbuf[b].pid].at = "recv"
<1>1. b \in RdBuffers /\ b = rdreq[1] /\ Len(rdreq) > 0 /\ Len(rdreq) \in Nat
  BY RdFacts
<1>2. 1 \in 1 .. Len(rdreq)
  BY <1>1
<1>3. Asked(rdbuf, rdreq, rdcall)
  BY RdFacts
<1>4. rdbuf[b] \in RdBuf
  BY <1>1, RdFacts DEF RdTypes
<1>5. rdbuf[b].op \in {"none", "read", "write", "sync"}
  BY <1>4 DEF RdBuf
<1>6. /\ rdbuf[b].op # "none"
      /\ rdbuf[b].op # "write" => rdbuf[b].pid \in RdUsers /\ rdcall[rdbuf[b].pid].at = "recv"
  BY <1>1, <1>2, <1>3 DEF Asked
<1> QED
  BY <1>1, <1>2, <1>4, <1>5, <1>6

\* The exchange of rdsprocess begins: those of users are not disturbed.
LEMMA RdsExchange ==
    ASSUME RdListsInv, NEW r \in RdRequest, RdExchange("rds", r),
           r.op \in {"read", "write"}, NEW q, NEW buf,
           r.op = "read" => Len(q) > 0 /\ buf[q[1]].op = "read"
    PROVE  /\ rdseq' \in Int /\ rdcomm' \in [RdProcs -> RdComm] /\ rdOut' \in Seq(RdPacket)
           /\ CommOK(rdcomm', buf, q, rdcall)
<1>1. "rds" \in RdProcs /\ RdUsers \subseteq RdProcs /\ "rds" \notin RdUsers
  BY RdAssumption DEF RdProcs
<1>2. /\ rdseq' \in Int /\ rdcomm' \in [RdProcs -> RdComm] /\ rdOut' \in Seq(RdPacket)
      /\ rdcomm'["rds"].req = r
      /\ \A v \in RdProcs : v # "rds" => rdcomm'[v] = rdcomm[v]
  BY <1>1, ExchangeBegins
<1>3. CommOK(rdcomm, rdbuf, rdreq, rdcall)
  BY RdFacts
<1>4. ASSUME NEW p \in RdUsers, rdcomm'[p] # NoComm
      PROVE  rdcall[p].at = "comm" /\ rdcomm'[p].req.op \in {"open", "del"}
  <2>1. rdcomm'[p] = rdcomm[p]
    BY <1>1, <1>2
  <2> QED
    BY <1>3, <1>4, <2>1 DEF CommOK
<1>5. CommOK(rdcomm', buf, q, rdcall)
  BY <1>2, <1>4 DEF CommOK
<1> QED
  BY <1>2, <1>5

\* rdsprocess takes a read (rdsprocess.c).
LEMMA TakeReadKeepsLists ==
    ASSUME RdListsInv, NEW b, TakeRead(b), rdreq # <<>>, b = Head(rdreq), rdbuf[b].op = "read",
           UNCHANGED <<rdIn, rddisk, rdlast>>
    PROVE  RdListsInv'
<1>1. Len(rdreq) > 0 /\ rdbuf[rdreq[1]].op = "read"
  BY FirstRequest
<1>2. PICK r : r = [op |-> "read", blk |-> rdblk]
  OBVIOUS
<1>3. rdblk \in RdBlocks
  BY RdFacts DEF RdTypes
<1>4. r \in RdRequest /\ r.op = "read" /\ RdExchange("rds", r)
  BY <1>2, <1>3 DEF RdRequest, TakeRead
<1>5. /\ rdseq' \in Int /\ rdcomm' \in [RdProcs -> RdComm] /\ rdOut' \in Seq(RdPacket)
      /\ CommOK(rdcomm', rdbuf, rdreq, rdcall)
  BY <1>1, <1>4, RdsExchange
<1>6. UNCHANGED <<rdbuf, rdfree, rdcache, rdreq, rdcall, rdblk>>
  BY DEF TakeRead
<1>7. RdTypes'
  BY <1>5, <1>6, RdFacts DEF RdTypes
<1> QED
  BY <1>5, <1>6, <1>7, RdFacts DEF RdListsInv

\* rdsprocess takes a write (rdsprocess.c).
LEMMA TakeWriteKeepsLists ==
    ASSUME RdListsInv, NEW b, TakeWrite(b), rdreq # <<>>, b = Head(rdreq), rdbuf[b].op = "write",
           UNCHANGED <<rdIn, rddisk, rdlast>>
    PROVE  RdListsInv'
<1>1. Len(rdreq) > 0 /\ b \in RdBuffers /\ rdbuf[b] \in RdBuf
  BY FirstRequest
<1>2. rdbuf[b].data \in RdContents /\ rdbuf[b].blk \in RdBlocks /\ rdbuf[b].op = "write"
  BY <1>1 DEF RdBuf
<1>3. PICK r : r = [op |-> "write", blk |-> rdbuf[b].blk, data |-> rdbuf[b].data]
  OBVIOUS
<1>4. r \in RdRequest /\ r.op = "write" /\ RdExchange("rds", r)
  BY <1>2, <1>3 DEF RdRequest, TakeWrite
<1>5. PICK q : q = Tail(rdreq)
  OBVIOUS
<1>6. PICK buf : buf = rdbuf'
  OBVIOUS
<1>7. PICK v : v = [rdbuf[b] EXCEPT !.refcnt = 0]
  OBVIOUS
<1>8. v \in RdBuf /\ v.op = rdbuf[b].op /\ v.pid = rdbuf[b].pid
  BY <1>1, <1>7 DEF RdBuf
<1>9. rdbuf \in [RdBuffers -> RdBuf]
  BY RdFacts DEF RdTypes
<1>10. buf = [rdbuf EXCEPT ![b] = v]
  BY <1>1, <1>6, <1>7, <1>9 DEF TakeWrite
<1>11. buf \in [RdBuffers -> RdBuf] /\ \A a \in RdBuffers : buf[a].op = rdbuf[a].op /\ buf[a].pid = rdbuf[a].pid
  BY <1>1, <1>8, <1>9, <1>10
<1>12. /\ rdseq' \in Int /\ rdcomm' \in [RdProcs -> RdComm] /\ rdOut' \in Seq(RdPacket)
       /\ CommOK(rdcomm', buf, q, rdcall)
  BY <1>4, RdsExchange
<1>13. rdreq' = q /\ rdblk' \in RdBlocks /\ UNCHANGED <<rdfree, rdcall>>
  BY <1>2, <1>5 DEF TakeWrite
<1>14. RdTypes'
  BY <1>6, <1>11, <1>12, <1>13, RdFacts DEF RdTypes
<1>15. OnLists(rdfree', rdcache', q)
  <2>1. OnLists(rdfree, <<Head(rdreq)>> \o rdcache, Tail(rdreq))
    BY <1>1, RdFacts, QueueToCache
  <2>2. rdcache' = <<Head(rdreq)>> \o rdcache
    BY DEF TakeWrite
  <2> QED
    BY <1>5, <1>13, <2>1, <2>2
<1>16. Asked(buf, q, rdcall)
  <2>1. Asked(rdbuf, rdreq, rdcall) /\ rdreq \in Seq(RdBuffers)
    BY RdFacts
  <2>2. \A i \in 1 .. Len(rdreq) : buf[rdreq[i]].op = rdbuf[rdreq[i]].op /\ buf[rdreq[i]].pid = rdbuf[rdreq[i]].pid
    BY <1>11, RdFacts
  <2>3. rdbuf[Head(rdreq)].op = "write"
    OBVIOUS
  <2>4. Asked(buf, Tail(rdreq), rdcall)
    BY <1>1, <2>1, <2>2, <2>3, AskedWritten
  <2> QED
    BY <1>5, <2>4
<1> QED
  BY <1>6, <1>12, <1>13, <1>14, <1>15, <1>16 DEF RdListsInv

\* A request that is not a write is answered, and its process goes on with x.
LEMMA RequestAnswered ==
    ASSUME RdListsInv, NEW b, rdreq # <<>>, b = Head(rdreq), rdbuf[b].op # "write",
           NEW x \in RdCall, x.at \notin {"recv", "comm"}, Calls(rdbuf[b].pid, x), NEW buf, buf = rdbuf',
           buf \in [RdBuffers -> RdBuf],
           \A a \in RdBuffers : buf[a].op = rdbuf[a].op /\ buf[a].pid = rdbuf[a].pid
    PROVE  /\ rdcall' \in [RdUsers -> RdCall] /\ Asked(buf, Tail(rdreq), rdcall')
           /\ \A p \in RdUsers : rdcall[p].at = "comm" <=> rdcall'[p].at = "comm"
           /\ \A p \in RdUsers : p # rdbuf[b].pid => rdcall'[p] = rdcall[p]
<1>1. PICK u : u = rdbuf[b].pid
  OBVIOUS
<1>2. u \in RdUsers /\ rdcall[u].at = "recv" /\ Len(rdreq) > 0
  BY <1>1, FirstRequest
<1>3. rdcall \in [RdUsers -> RdCall]
  BY RdFacts DEF RdTypes
<1>4. PICK call : call = rdcall'
  OBVIOUS
<1>5. call = [rdcall EXCEPT ![u] = x]
  BY <1>1, <1>4 DEF Calls
<1>6. /\ call \in [RdUsers -> RdCall] /\ call[u].at # "recv"
      /\ \A p \in RdUsers : p # u => call[p] = rdcall[p]
      /\ \A p \in RdUsers : rdcall[p].at = "comm" <=> call[p].at = "comm"
  BY <1>2, <1>3, <1>5
<1>7. Asked(rdbuf, rdreq, rdcall) /\ rdreq \in Seq(RdBuffers)
  BY RdFacts
<1>8. \A i \in 1 .. Len(rdreq) : buf[rdreq[i]].op = rdbuf[rdreq[i]].op /\ buf[rdreq[i]].pid = rdbuf[rdreq[i]].pid
  BY RdFacts
<1>9. /\ rdbuf[Head(rdreq)].op # "write" /\ call[rdbuf[Head(rdreq)].pid].at # "recv"
      /\ \A p \in RdUsers : p # rdbuf[Head(rdreq)].pid => call[p] = rdcall[p]
  BY <1>1, <1>6
<1>10. Asked(buf, Tail(rdreq), call)
  BY <1>2, <1>7, <1>8, <1>9, AskedLess
<1> QED
  BY <1>1, <1>4, <1>6, <1>10

\* rdsprocess takes a SYNC (rdsprocess.c).
LEMMA TakeSyncKeepsLists ==
    ASSUME RdListsInv, NEW b, TakeSync(b), rdreq # <<>>, b = Head(rdreq), rdbuf[b].op = "sync",
           rdcomm["rds"] = NoComm, UNCHANGED <<rdIn, rddisk, rdlast>>
    PROVE  RdListsInv'
<1>1. Len(rdreq) > 0 /\ b \in RdBuffers
  BY FirstRequest
<1>2. PICK x : x = [at |-> "synced"]
  OBVIOUS
<1>3. x \in RdCall /\ x.at \notin {"recv", "comm"} /\ Calls(rdbuf[b].pid, x)
  BY <1>2 DEF RdCall, TakeSync
<1>4. PICK buf : buf = rdbuf'
  OBVIOUS
<1>5. UNCHANGED <<rdbuf, rdcache, rdblk, rdseq, rdcomm, rdOut>>
  BY DEF TakeSync, RdNoExchange
<1>6. buf \in [RdBuffers -> RdBuf] /\ \A a \in RdBuffers : buf[a].op = rdbuf[a].op /\ buf[a].pid = rdbuf[a].pid
  BY <1>4, <1>5, RdFacts DEF RdTypes
<1>7. /\ rdcall' \in [RdUsers -> RdCall] /\ Asked(buf, Tail(rdreq), rdcall')
      /\ \A p \in RdUsers : rdcall[p].at = "comm" <=> rdcall'[p].at = "comm"
  BY <1>3, <1>4, <1>6, RequestAnswered
<1>8. RdTypes'
  BY <1>5, <1>7, RdFacts DEF RdTypes
<1>9. CommOK(rdcomm, rdbuf, Tail(rdreq), rdcall')
  <2>1. NoComm.req.op = "none"
    BY DEF NoComm
  <2> QED
    BY <1>7, <2>1, RdFacts DEF CommOK
<1>10. OnLists(<<Head(rdreq)>> \o rdfree, rdcache, Tail(rdreq))
  BY <1>1, RdFacts, QueueToFree
<1>11. rdreq' = Tail(rdreq) /\ rdfree' = <<Head(rdreq)>> \o rdfree
  BY DEF TakeSync
<1> QED
  BY <1>4, <1>5, <1>7, <1>8, <1>9, <1>10, <1>11 DEF RdListsInv

\* rdsprocess takes a request (rdsprocess.c).
LEMMA TakeKeepsLists ==
    ASSUME RdListsInv, RdTake
    PROVE  RdListsInv'
<1>1. PICK b : b = Head(rdreq)
  OBVIOUS
<1>2. rdreq # <<>> /\ rdcomm["rds"] = NoComm /\ UNCHANGED <<rdIn, rddisk, rdlast>>
  BY DEF RdTake, RdBusy
<1>3. rdbuf[b].op \in {"read", "write", "sync"}
  BY <1>1, <1>2, FirstRequest
<1>4. CASE rdbuf[b].op = "read"
  BY <1>1, <1>2, <1>4, TakeReadKeepsLists DEF RdTake
<1>5. CASE rdbuf[b].op = "write"
  BY <1>1, <1>2, <1>5, TakeWriteKeepsLists DEF RdTake
<1>6. CASE rdbuf[b].op = "sync"
  BY <1>1, <1>2, <1>6, TakeSyncKeepsLists DEF RdTake
<1> QED
  BY <1>3, <1>4, <1>5, <1>6

\* The server answers.
LEMMA ServeKeepsLists ==
    ASSUME RdListsInv, RdServe
    PROVE  RdListsInv'
<1>1. rdOut \in Seq(RdPacket) /\ rdIn \in Seq(RdAnswer) /\ rddisk \in [RdBlocks -> RdContents]
  BY RdFacts DEF RdTypes
<1>2. Len(rdOut) > 0
  BY <1>1, EmptySeq DEF RdServe
<1>3. PICK m : m = Head(rdOut)
  OBVIOUS
<1>4. m \in RdPacket /\ rdOut' \in Seq(RdPacket)
  BY <1>1, <1>2, <1>3, Dropped DEF RdServe
<1>5. PICK r : r = m.req
  OBVIOUS
<1>6. m.seq \in Int /\ r \in RdRequest
  BY <1>4, <1>5 DEF RdPacket
<1>7. "0" \in RdContents
  BY DEF RdContents
<1>8. rddisk' \in [RdBlocks -> RdContents]
  <2>1. rddisk' = CASE r.op = "write" -> [rddisk EXCEPT ![r.blk] = r.data]
                    [] r.op = "del"   -> [k \in RdBlocks |-> "0"]
                    [] OTHER -> rddisk
    BY <1>3, <1>5 DEF RdServe
  <2>2. r.op = "write" => r.data \in RdContents
    BY <1>6 DEF RdRequest
  <2>3. CASE r.op = "write"
    BY <1>1, <2>1, <2>2, <2>3
  <2>4. CASE r.op = "del"
    BY <1>7, <2>1, <2>4
  <2>5. CASE r.op # "write" /\ r.op # "del"
    BY <1>1, <2>1, <2>5
  <2> QED
    BY <2>3, <2>4, <2>5
<1>9. PICK a : a = [seq |-> m.seq, op |-> r.op, data |-> IF r.op = "read" THEN rddisk[r.blk] ELSE "0"]
  OBVIOUS
<1>10. a \in RdAnswer
  <2>1. r.op \in {"read", "write", "open", "del"} /\ (r.op = "read" => r.blk \in RdBlocks)
    BY <1>6 DEF RdRequest
  <2>2. (IF r.op = "read" THEN rddisk[r.blk] ELSE "0") \in RdContents
    BY <1>1, <1>7, <2>1
  <2> QED
    BY <1>6, <1>9, <2>1, <2>2 DEF RdAnswer
<1>11. rdIn' \in Seq(RdAnswer)
  <2>1. rdIn' \in Transmit(rdIn, RdCap, a)
    BY <1>3, <1>5, <1>9 DEF RdServe
  <2> QED
    BY <1>1, <1>10, <2>1, LinkType
<1>12. UNCHANGED <<RdListVars, rdseq, rdblk, rdlast>>
  BY DEF RdServe, RdListVars, rdLists
<1>13. RdTypes'
  BY <1>4, <1>8, <1>11, <1>12, RdFacts DEF RdTypes, RdListVars
<1> QED
  BY <1>12, <1>13, RdFacts DEF RdListsInv, RdListVars

\* The next attempt.
LEMMA RetryKeepsLists ==
    ASSUME RdListsInv, NEW w \in RdProcs, NEW xmit, RdRetry(w, xmit), rdcomm[w] # NoComm,
           rdIn' \in Seq(RdAnswer), UNCHANGED <<rdseq, rdblk, rddisk, rdlast>>
    PROVE  RdListsInv'
<1>1. rdcomm \in [RdProcs -> RdComm] /\ rdOut \in Seq(RdPacket) /\ rdbuf \in [RdBuffers -> RdBuf]
      /\ rdcall \in [RdUsers -> RdCall]
  BY RdFacts DEF RdTypes
<1>2. PICK e : e = rdcomm[w]
  OBVIOUS
<1>3. e \in [req : RdRequest, seq : Int, i : Int]
  BY <1>1, <1>2 DEF RdComm
<1>4. PICK n : n = [e EXCEPT !.i = @ + 1]
  OBVIOUS
<1>5. n \in [req : RdRequest, seq : Int, i : Int] /\ n.req = e.req
  BY <1>3, <1>4
<1>6. n \in RdComm
  BY <1>5 DEF RdComm
<1>7. rdcomm' = [rdcomm EXCEPT ![w] = n]
  BY <1>1, <1>2, <1>4 DEF RdRetry
<1>8. /\ rdcomm' \in [RdProcs -> RdComm]
      /\ \A v \in RdProcs : rdcomm'[v].req = rdcomm[v].req
      /\ \A v \in RdProcs : rdcomm[v] = NoComm => rdcomm'[v] = NoComm
  BY <1>1, <1>2, <1>5, <1>6, <1>7
<1>9. rdOut' \in Seq(RdPacket)
  <2>1. PICK m : m = [seq |-> e.seq, req |-> e.req]
    OBVIOUS
  <2>2. m \in RdPacket
    BY <1>3, <2>1 DEF RdPacket
  <2>3. rdOut' = rdOut \/ rdOut' \in Transmit(rdOut, RdCap, m)
    BY <1>2, <2>1 DEF RdRetry
  <2> QED
    BY <1>1, <2>2, <2>3, LinkType
<1>10. UNCHANGED <<rdbuf, rdfree, rdcache, rdreq, rdcall>>
  BY DEF RdRetry, rdLists
<1>11. RdTypes'
  BY <1>8, <1>9, <1>10, RdFacts DEF RdTypes
<1>12. CommOK(rdcomm', rdbuf, rdreq, rdcall)
  <2>1. CommOK(rdcomm, rdbuf, rdreq, rdcall) /\ "rds" \in RdProcs /\ RdUsers \subseteq RdProcs
    BY RdFacts DEF RdProcs
  <2>2. rdcomm'["rds"].req = rdcomm["rds"].req
    BY <1>8, <2>1
  <2>3. \A p \in RdUsers : rdcomm'[p].req = rdcomm[p].req /\ (rdcomm'[p] # NoComm => rdcomm[p] # NoComm)
    BY <1>8, <2>1
  <2> QED
    BY <2>1, <2>2, <2>3 DEF CommOK
<1> QED
  BY <1>10, <1>11, <1>12, RdFacts DEF RdListsInv

\* An exchange is over.
LEMMA CommEnds ==
    ASSUME RdListsInv, NEW w \in RdProcs, NEW comm, comm = [rdcomm EXCEPT ![w] = NoComm]
    PROVE  /\ comm \in [RdProcs -> RdComm] /\ comm[w] = NoComm
           /\ \A v \in RdProcs : v # w => comm[v] = rdcomm[v]
<1>1. rdcomm \in [RdProcs -> RdComm] /\ NoComm \in RdComm
  BY RdFacts DEF RdTypes, RdComm
<1> QED
  BY <1>1

\* A user's exchange is over: its call ends, and the lists are the same or rdsClose() moved
\* the cache.
LEMMA UserEnds ==
    ASSUME RdListsInv, NEW w \in RdUsers, rdcomm[w] # NoComm, rdcomm' = [rdcomm EXCEPT ![w] = NoComm],
           Calls(w, RdIdle), rdbuf' \in [RdBuffers -> RdBuf],
           \A a \in RdBuffers : rdbuf'[a].op = rdbuf[a].op /\ rdbuf'[a].pid = rdbuf[a].pid,
           OnLists(rdfree', rdcache', rdreq), rdIn' \in Seq(RdAnswer),
           UNCHANGED <<rdreq, rdOut, rdseq, rdblk, rddisk, rdlast>>
    PROVE  RdListsInv'
<1>1. w \in RdProcs /\ RdUsers \subseteq RdProcs
  BY DEF RdProcs
<1>2. PICK comm : comm = rdcomm'
  OBVIOUS
<1>3. /\ comm \in [RdProcs -> RdComm] /\ comm[w] = NoComm
      /\ \A v \in RdProcs : v # w => comm[v] = rdcomm[v]
  BY <1>1, <1>2, CommEnds
<1>4. rdcall[w].at = "comm"
  BY RdFacts DEF CommOK
<1>5. PICK x : x = RdIdle
  OBVIOUS
<1>6. x \in RdCall /\ x.at = "idle" /\ rdcall' = [rdcall EXCEPT ![w] = x]
  BY <1>5 DEF RdIdle, RdCall, Calls
<1>7. /\ rdcall' \in [RdUsers -> RdCall]
      /\ \A q \in RdUsers : q # w => rdcall'[q] = rdcall[q]
      /\ \A q \in RdUsers : rdcall'[q].at = "recv" <=> rdcall[q].at = "recv"
  <2>1. x.at # "recv" /\ rdcall[w].at # "recv"
    BY <1>4, <1>6
  <2> QED
    BY <1>6, <2>1, CallMoves
<1>8. PICK buf, call : buf = rdbuf' /\ call = rdcall'
  OBVIOUS
<1>9. CommOK(comm, buf, rdreq, call)
  <2>1. \A v \in RdProcs : comm[v] = rdcomm[v] \/ comm[v] = NoComm
    BY <1>3
  <2>2. \A i \in 1 .. Len(rdreq) : buf[rdreq[i]].op = rdbuf[rdreq[i]].op
    BY <1>8, RdFacts
  <2>3. \A p \in RdUsers : comm[p] # NoComm /\ rdcall[p].at = "comm" => call[p].at = "comm"
    BY <1>3, <1>7, <1>8
  <2> QED
    BY <1>3, <2>1, <2>2, <2>3, CommFewer
<1>10. rdseq' \in Int /\ rdOut' \in Seq(RdPacket)
  BY RdFacts DEF RdTypes
<1> QED
  BY <1>2, <1>3, <1>7, <1>8, <1>9, <1>10, SameRequests

\* rdsprocess has the block that it asked for (rdsprocess.c).
LEMMA ReadDoneKeepsLists ==
    ASSUME RdListsInv, NEW d \in RdContents, ReadDone(d), rdcomm["rds"].req.op = "read",
           rdcomm' = [rdcomm EXCEPT !["rds"] = NoComm], rdIn' \in Seq(RdAnswer),
           UNCHANGED <<rdOut, rdseq, rdblk, rddisk, rdlast>>
    PROVE  RdListsInv'
<1>1. PICK b : b = Head(rdreq)
  OBVIOUS
<1>2. Len(rdreq) > 0 /\ rdbuf[rdreq[1]].op = "read" /\ rdreq # <<>>
  BY RdFacts DEF CommOK
<1>3. /\ b \in RdBuffers /\ b = rdreq[1] /\ rdbuf[b] \in RdBuf /\ rdbuf[b].op = "read"
      /\ rdbuf[b].pid \in RdUsers /\ rdcall[rdbuf[b].pid].at = "recv"
  BY <1>1, <1>2, FirstRequest
<1>4. PICK x : x = [at |-> "got", buf |-> b, blk |-> rdcall[rdbuf[b].pid].blk]
  OBVIOUS
<1>5. x \in RdCall /\ x.at \notin {"recv", "comm"} /\ Calls(rdbuf[b].pid, x)
  <2>1. rdcall[rdbuf[b].pid] \in RdCall
    BY <1>3, RdFacts DEF RdTypes
  <2>2. rdcall[rdbuf[b].pid].blk \in RdBlocks \cup {0}
    BY <1>3, <2>1 DEF RdCall
  <2>3. Calls(rdbuf[b].pid, x)
    BY <1>1, <1>4 DEF ReadDone
  <2> QED
    BY <1>3, <1>4, <2>2, <2>3 DEF RdCall
<1>6. PICK buf : buf = rdbuf'
  OBVIOUS
<1>7. PICK v : v = [rdbuf[b] EXCEPT !.data = d, !.refcnt = 1]
  OBVIOUS
<1>8. v \in RdBuf /\ v.op = rdbuf[b].op /\ v.pid = rdbuf[b].pid
  <2>1. PICK z \in Int : z = 1
    OBVIOUS
  <2>2. PICK u : u = [rdbuf[b] EXCEPT !.data = d]
    OBVIOUS
  <2>3. u \in RdBuf /\ u.op = rdbuf[b].op /\ u.pid = rdbuf[b].pid
    BY <1>3, <2>2 DEF RdBuf
  <2>4. v = [u EXCEPT !.refcnt = z]
    BY <1>7, <2>1, <2>2
  <2>5. v \in RdBuf /\ v.op = u.op /\ v.pid = u.pid
    BY <2>1, <2>3, <2>4 DEF RdBuf
  <2> QED
    BY <2>3, <2>5
<1>9. rdbuf \in [RdBuffers -> RdBuf]
  BY RdFacts DEF RdTypes
<1>10. buf = [rdbuf EXCEPT ![b] = v]
  BY <1>1, <1>3, <1>6, <1>7, <1>9 DEF ReadDone
<1>11. buf \in [RdBuffers -> RdBuf] /\ \A a \in RdBuffers : buf[a].op = rdbuf[a].op /\ buf[a].pid = rdbuf[a].pid
  BY <1>3, <1>8, <1>9, <1>10
<1>12. /\ rdcall' \in [RdUsers -> RdCall] /\ Asked(buf, Tail(rdreq), rdcall')
       /\ \A p \in RdUsers : rdcall[p].at = "comm" <=> rdcall'[p].at = "comm"
  BY <1>1, <1>2, <1>3, <1>5, <1>6, <1>11, RequestAnswered
<1>13. rdreq' = Tail(rdreq) /\ rdcache' = <<Head(rdreq)>> \o rdcache /\ UNCHANGED rdfree
  BY DEF ReadDone
<1>14. OnLists(rdfree', rdcache', rdreq')
  BY <1>2, <1>13, RdFacts, QueueToCache
<1>15. "rds" \in RdProcs /\ RdUsers \subseteq RdProcs /\ "rds" \notin RdUsers
  BY RdAssumption DEF RdProcs
<1>16. PICK comm : comm = rdcomm'
  OBVIOUS
<1>17. /\ comm \in [RdProcs -> RdComm] /\ comm["rds"] = NoComm
       /\ \A p \in RdUsers : comm[p] = rdcomm[p]
  BY <1>15, <1>16, CommEnds
<1>18. CommOK(comm, buf, Tail(rdreq), rdcall')
  <2>1. NoComm.req.op = "none"
    BY DEF NoComm
  <2>2. CommOK(rdcomm, rdbuf, rdreq, rdcall)
    BY RdFacts
  <2> QED
    BY <1>12, <1>17, <2>1, <2>2 DEF CommOK
<1>19. RdTypes'
  BY <1>6, <1>11, <1>12, <1>16, <1>17, RdFacts DEF RdTypes
<1> QED
  BY <1>6, <1>12, <1>13, <1>14, <1>16, <1>18, <1>19 DEF RdListsInv

\* The exchange of rdsprocess is over, and the lists are the same.
LEMMA RdsEnds ==
    ASSUME RdListsInv, rdcomm' = [rdcomm EXCEPT !["rds"] = NoComm], rdIn' \in Seq(RdAnswer),
           UNCHANGED <<rdLists, rdcall, rdOut, rdseq, rdblk, rddisk, rdlast>>
    PROVE  RdListsInv'
<1>1. PICK comm : comm = rdcomm'
  OBVIOUS
<1>2. "rds" \in RdProcs /\ UNCHANGED <<rdbuf, rdfree, rdcache, rdreq>>
  BY DEF RdProcs, rdLists
<1>3. /\ comm \in [RdProcs -> RdComm] /\ comm["rds"] = NoComm
      /\ \A v \in RdProcs : v # "rds" => comm[v] = rdcomm[v]
  BY <1>1, <1>2, CommEnds
<1>4. CommOK(comm, rdbuf, rdreq, rdcall)
  <2>1. \A v \in RdProcs : comm[v] = rdcomm[v] \/ comm[v] = NoComm
    BY <1>3
  <2> QED
    BY <1>3, <2>1, CommFewer
<1>5. RdTypes'
  BY <1>1, <1>2, <1>3, RdFacts DEF RdTypes
<1> QED
  BY <1>1, <1>2, <1>4, <1>5, RdFacts DEF RdListsInv

\* Who has which exchange.
LEMMA WhoExchanges ==
    ASSUME RdListsInv, NEW w \in RdProcs, rdcomm[w] # NoComm
    PROVE  \/ w = "rds" /\ rdcomm[w].req.op \in {"read", "write"}
           \/ w \in RdUsers /\ rdcomm[w].req.op \in {"open", "del"}
<1>1. CommOK(rdcomm, rdbuf, rdreq, rdcall) /\ rdcomm[w] \in RdComm
  BY RdFacts DEF RdTypes
<1>2. CASE w = "rds"
  <2>1. rdcomm[w] \in [req : RdRequest, seq : Int, i : Int]
    BY <1>1 DEF RdComm
  <2>2. rdcomm[w].req.op # "none"
    BY <2>1 DEF RdRequest
  <2> QED
    BY <1>1, <1>2, <2>2 DEF CommOK
<1>3. CASE w # "rds"
  <2>1. w \in RdUsers
    BY <1>3 DEF RdProcs
  <2> QED
    BY <1>1, <2>1 DEF CommOK
<1> QED
  BY <1>2, <1>3

\* An exchange ends (rdscomm.c).
LEMMA DoneKeepsLists ==
    ASSUME RdListsInv, NEW w \in RdProcs, NEW d \in RdContents, RdDone(w, d), rdcomm[w] # NoComm,
           rdIn' \in Seq(RdAnswer), UNCHANGED <<rdseq, rdblk, rddisk, rdlast>>
    PROVE  RdListsInv'
<1>1. rdcomm' = [rdcomm EXCEPT ![w] = NoComm] /\ UNCHANGED rdOut
  BY DEF RdDone
<1>2. CASE w = "rds" /\ rdcomm[w].req.op = "read"
  <2>1. ReadDone(d)
    BY <1>2 DEF RdDone
  <2> QED
    BY <1>1, <1>2, <2>1, ReadDoneKeepsLists
<1>3. CASE w = "rds" /\ rdcomm[w].req.op = "write"
  <2>1. UNCHANGED <<rdLists, rdcall>>
    BY <1>3 DEF RdDone
  <2> QED
    BY <1>1, <1>3, <2>1, RdsEnds
<1>4. CASE w \in RdUsers /\ rdcomm[w].req.op = "open"
  <2>1. UNCHANGED <<rdbuf, rdfree, rdcache, rdreq>> /\ Calls(w, RdIdle)
    BY <1>4 DEF RdDone, rdLists
  <2>2. rdbuf \in [RdBuffers -> RdBuf] /\ OnLists(rdfree, rdcache, rdreq)
    BY RdFacts DEF RdTypes
  <2> QED
    BY <1>1, <1>4, <2>1, <2>2, UserEnds
<1>5. CASE w \in RdUsers /\ rdcomm[w].req.op = "del"
  <2>1. UNCHANGED rdreq /\ Calls(w, RdIdle) /\ (Emptied \/ UNCHANGED <<rdbuf, rdfree, rdcache>>)
    BY <1>5 DEF RdDone
  <2>2. rdbuf \in [RdBuffers -> RdBuf] /\ OnLists(rdfree, rdcache, rdreq)
    BY RdFacts DEF RdTypes
  <2>3. /\ rdbuf' \in [RdBuffers -> RdBuf] /\ OnLists(rdfree', rdcache', rdreq)
        /\ \A a \in RdBuffers : rdbuf'[a].op = rdbuf[a].op /\ rdbuf'[a].pid = rdbuf[a].pid
    BY <2>1, <2>2, EmptiedLists
  <2> QED
    BY <1>1, <1>5, <2>1, <2>3, UserEnds
<1> QED
  BY <1>2, <1>3, <1>4, <1>5, WhoExchanges

\* An exchange fails (rdscomm.c).
LEMMA FailedKeepsLists ==
    ASSUME RdListsInv, NEW w \in RdProcs, RdFailed(w), rdcomm[w] # NoComm,
           rdIn' \in Seq(RdAnswer), UNCHANGED <<rdseq, rdblk, rddisk, rdlast>>
    PROVE  RdListsInv'
<1>1. rdcomm' = [rdcomm EXCEPT ![w] = NoComm] /\ UNCHANGED <<rdOut, rdLists>>
  BY DEF RdFailed
<1>2. CASE w = "rds"
  BY <1>1, <1>2, RdsEnds DEF RdFailed
<1>3. CASE w # "rds"
  <2>1. w \in RdUsers /\ Calls(w, RdIdle) /\ UNCHANGED <<rdbuf, rdfree, rdcache, rdreq>>
    BY <1>3 DEF RdFailed, RdProcs, rdLists
  <2>2. rdbuf \in [RdBuffers -> RdBuf] /\ OnLists(rdfree, rdcache, rdreq)
    BY RdFacts DEF RdTypes
  <2> QED
    BY <1>1, <2>1, <2>2, UserEnds
<1> QED
  BY <1>2, <1>3

\* udp_recv() returns TIMEOUT (rdscomm.c).
LEMMA TimeoutKeepsLists ==
    ASSUME RdListsInv, NEW w \in RdProcs, RdTimeout(w)
    PROVE  RdListsInv'
<1>1. rdcomm[w] # NoComm /\ UNCHANGED <<rdseq, rdblk, rdIn, rddisk, rdlast>>
  BY DEF RdTimeout, Exchanging
<1>2. rdIn' \in Seq(RdAnswer)
  BY <1>1, RdFacts DEF RdTypes
<1> QED
  BY <1>1, <1>2, RetryKeepsLists, FailedKeepsLists DEF RdTimeout

\* udp_recv() returns a packet (rdscomm.c).
LEMMA ReplyKeepsLists ==
    ASSUME RdListsInv, NEW w \in RdProcs, RdReply(w)
    PROVE  RdListsInv'
<1>1. rdcomm[w] # NoComm /\ UNCHANGED <<rdseq, rdblk, rddisk, rdlast>>
  BY DEF RdReply, Exchanging
<1>2. rdIn \in Seq(RdAnswer)
  BY RdFacts DEF RdTypes
<1>3. Len(rdIn) > 0
  BY <1>2, EmptySeq DEF RdReply
<1>4. PICK r : r = Head(rdIn)
  OBVIOUS
<1>5. r \in RdAnswer /\ rdIn' \in Seq(RdAnswer)
  BY <1>2, <1>3, <1>4, Dropped DEF RdReply
<1>6. r.data \in RdContents
  BY <1>5 DEF RdAnswer
<1>7. RdDone(w, r.data) \/ RdFailed(w) \/ \E xmit : RdRetry(w, xmit)
  BY <1>4, Zenon DEF RdReply
<1> QED
  BY <1>1, <1>5, <1>6, <1>7, DoneKeepsLists, RetryKeepsLists, FailedKeepsLists

\* Every step keeps the invariant of the lists.
LEMMA RdListsStep ==
    ASSUME RdListsInv, rduses \in RdSharings, [RdNext]_rdVars
    PROVE  RdListsInv'
<1>1. DOMAIN rdcomm = RdProcs
  BY RdFacts DEF RdTypes
<1>2. \A p \in RdUsers : rduses[p] \subseteq RdBlocks
  BY RdAssumption
<1>3. ASSUME NEW p \in RdUsers, RdUser(p) PROVE RdListsInv'
  <2>1. ASSUME NEW k \in rduses[p], RdRead(p, k) PROVE RdListsInv'
    BY <1>2, <2>1, ReadKeepsLists
  <2>2. ASSUME NEW k \in rduses[p], NEW d \in RdData, RdWrite(p, k, d) PROVE RdListsInv'
    BY <1>2, <2>2, WriteKeepsLists
  <2> QED
    BY <1>3, <2>1, <2>2, SyncKeepsLists, AllocKeepsLists, ReceivedKeepsLists, SyncedKeepsLists,
       OpenKeepsLists, CloseKeepsLists, DeleteKeepsLists DEF RdUser
<1>4. CASE RdTake
  BY <1>4, TakeKeepsLists
<1>5. CASE RdServe
  BY <1>5, ServeKeepsLists
<1>6. ASSUME NEW w \in RdProcs, RdTimeout(w) \/ RdReply(w) PROVE RdListsInv'
  BY <1>6, TimeoutKeepsLists, ReplyKeepsLists
<1>7. CASE UNCHANGED rdVars
  BY <1>7, RdListsStutter DEF rdVars, rdLists, rdNet, RdListVars, RdTypeVars
<1> QED
  BY <1>1, <1>3, <1>4, <1>5, <1>6, <1>7 DEF RdNext

\* rdsInit() establishes it (rdsInit.c).
LEMMA RdListsStart ==
    ASSUME RdInit PROVE RdListsInv /\ rduses \in RdSharings
<1>1. RD_BUFFS \in Nat /\ rdfree = [k \in RdBuffers |-> k] /\ rdcache = <<>> /\ rdreq = <<>>
  BY RdAssumption DEF RdInit
<1>2. rdfree \in Seq(RdBuffers) /\ Len(rdfree) = RD_BUFFS /\ \A i \in 1 .. Len(rdfree) : rdfree[i] = i
  BY <1>1 DEF RdBuffers
<1>3. <<>> \in Seq(RdBuffers) /\ Len(<<>>) = 0 /\ Once(<<>>) /\ On(<<>>) = {}
  BY DEF Once, On
<1>4. Once(rdfree)
  BY <1>2 DEF Once
<1>5. OnLists(rdfree, rdcache, rdreq)
  BY <1>1, <1>2, <1>3, <1>4 DEF OnLists
<1>6. RdTypes
  <2>1. NoBuf \in RdBuf /\ RdIdle \in RdCall /\ NoComm \in RdComm /\ "0" \in RdContents
    BY DEF NoBuf, RdBuf, RdIdle, RdCall, RdComm, RdContents
  <2>2. rdOut \in Seq(RdPacket) /\ rdIn \in Seq(RdAnswer)
    BY DEF RdInit
  <2> QED
    BY <2>1, <2>2 DEF RdInit, RdTypes, RdProcs
<1>7. Asked(rdbuf, rdreq, rdcall)
  BY <1>1, <1>3 DEF Asked, RdInit, RdIdle
<1>8. CommOK(rdcomm, rdbuf, rdreq, rdcall)
  BY DEF RdInit, CommOK, NoComm, RdProcs
<1> QED
  BY <1>5, <1>6, <1>7, <1>8 DEF RdListsInv, RdInit

\* One sequence after another.
LEMMA Joined ==
    ASSUME NEW s \in Seq(RdBuffers), NEW t \in Seq(RdBuffers)
    PROVE  /\ s \o t \in Seq(RdBuffers) /\ Len(s \o t) = Len(s) + Len(t)
           /\ \A i \in 1 .. Len(s) + Len(t) : (s \o t)[i] = IF i <= Len(s) THEN s[i] ELSE t[i - Len(s)]
  BY ConcatProperties

\* Two lists without a buffer in common, one after the other.
LEMMA OnceJoined ==
    ASSUME NEW s \in Seq(RdBuffers), NEW t \in Seq(RdBuffers), Once(s), Once(t), On(s) \cap On(t) = {}
    PROVE  Once(s \o t) /\ On(s \o t) \subseteq On(s) \cup On(t)
<1> DEFINE h == s \o t
<1>1. Len(s) \in Nat /\ Len(t) \in Nat /\ Len(h) = Len(s) + Len(t)
      /\ \A i \in 1 .. Len(s) + Len(t) : h[i] = IF i <= Len(s) THEN s[i] ELSE t[i - Len(s)]
  BY Joined, LenProperties
<1> HIDE DEF h
<1>2. ASSUME NEW i \in 1 .. Len(h), i <= Len(s)
      PROVE  i \in 1 .. Len(s) /\ h[i] = s[i]
  BY <1>1, <1>2
<1>3. ASSUME NEW i \in 1 .. Len(h), ~(i <= Len(s))
      PROVE  \E k \in 1 .. Len(t) : k = i - Len(s) /\ h[i] = t[k]
  BY <1>1, <1>3
<1>4. ASSUME NEW i \in 1 .. Len(s), NEW j \in 1 .. Len(t) PROVE s[i] # t[j]
  <2>1. s[i] \in On(s) /\ t[j] \in On(t)
    BY DEF On
  <2> QED
    BY <2>1
<1>5. ASSUME NEW i \in 1 .. Len(h), NEW j \in 1 .. Len(h), h[i] = h[j], i <= Len(s)
      PROVE  i = j
  <2>1. i \in 1 .. Len(s) /\ h[i] = s[i]
    BY <1>2, <1>5
  <2>2. CASE j <= Len(s)
    <3>1. j \in 1 .. Len(s) /\ h[j] = s[j]
      BY <1>2, <2>2
    <3> QED
      BY <1>5, <2>1, <3>1 DEF Once
  <2>3. CASE ~(j <= Len(s))
    <3>1. PICK k \in 1 .. Len(t) : h[j] = t[k]
      BY <1>3, <2>3
    <3> QED
      BY <1>4, <1>5, <2>1, <3>1
  <2> QED
    BY <2>2, <2>3
<1>6. ASSUME NEW i \in 1 .. Len(h), NEW j \in 1 .. Len(h), h[i] = h[j] PROVE i = j
  <2>1. CASE i <= Len(s)
    BY <1>5, <1>6, <2>1
  <2>2. CASE j <= Len(s)
    BY <1>5, <1>6, <2>2
  <2>3. CASE ~(i <= Len(s)) /\ ~(j <= Len(s))
    <3>1. PICK k \in 1 .. Len(t) : k = i - Len(s) /\ h[i] = t[k]
      BY <1>3, <2>3
    <3>2. PICK l \in 1 .. Len(t) : l = j - Len(s) /\ h[j] = t[l]
      BY <1>3, <2>3
    <3>3. k = l
      BY <1>6, <3>1, <3>2 DEF Once
    <3>4. i \in Int /\ j \in Int /\ Len(s) \in Int
      BY <1>1
    <3> QED
      BY <3>1, <3>2, <3>3, <3>4
  <2> QED
    BY <2>1, <2>2, <2>3
<1>7. ASSUME NEW i \in 1 .. Len(h) PROVE h[i] \in On(s) \cup On(t)
  <2>1. CASE i <= Len(s)
    BY <1>2, <2>1 DEF On
  <2>2. CASE ~(i <= Len(s))
    BY <1>3, <2>2 DEF On
  <2> QED
    BY <2>1, <2>2
<1>8. Once(h) /\ On(h) \subseteq On(s) \cup On(t)
  BY <1>6, <1>7 DEF Once, On
<1> QED
  BY <1>8 DEF h

\* The three lists, one after the other, hold every buffer once.
LEMMA ListsJoined ==
    ASSUME NEW f, NEW c, NEW q, OnLists(f, c, q)
    PROVE  IsInjective(f \o c \o q) /\ Len(f \o c \o q) = RD_BUFFS
<1>1. /\ f \in Seq(RdBuffers) /\ c \in Seq(RdBuffers) /\ q \in Seq(RdBuffers)
      /\ Once(f) /\ Once(c) /\ Once(q)
      /\ On(f) \cap On(c) = {} /\ On(f) \cap On(q) = {} /\ On(c) \cap On(q) = {}
      /\ Len(f) + Len(c) + Len(q) = RD_BUFFS
  BY DEF OnLists
<1> DEFINE g == f \o c
           h == g \o q
<1>2. g \in Seq(RdBuffers) /\ Len(g) = Len(f) + Len(c) /\ Once(g) /\ On(g) \subseteq On(f) \cup On(c)
  BY <1>1, Joined, OnceJoined
<1> HIDE DEF g
<1>3. On(g) \cap On(q) = {}
  BY <1>1, <1>2
<1>4. h \in Seq(RdBuffers) /\ Len(h) = Len(g) + Len(q) /\ Once(h)
  BY <1>1, <1>2, <1>3, Joined, OnceJoined
<1> HIDE DEF h
<1>5. Len(h) = RD_BUFFS /\ DOMAIN h = 1 .. Len(h)
  BY <1>1, <1>2, <1>4, LenProperties
<1>6. IsInjective(h)
  BY <1>4, <1>5 DEF IsInjective, Once
<1> QED
  BY <1>5, <1>6 DEF g, h
-----------------------------------------------------------------------------
(* The copies of a block that the lists hold.                              *)

\* The i-th buffer of list s holds block k as it was written.
Valid(buf, s, i, k) == buf[s[i]].valid /\ buf[s[i]].blk = k

NoCopy(buf, c, q, k) ==
    /\ \A i \in 1 .. Len(c) : ~Valid(buf, c, i, k)
    /\ \A i \in 1 .. Len(q) : ~Valid(buf, q, i, k)

\* Block k was written last with d: a copy in the cache c is not read and is found first, one
\* in the queue q is found from its end, and there are none in both.
Copies(buf, c, q, k, d) ==
    /\ \A i \in 1 .. Len(c) : Valid(buf, c, i, k) =>
         /\ buf[c[i]].refcnt <= 0 /\ buf[c[i]].data = d
         /\ \A j \in 1 .. Len(c) : buf[c[j]].blk = k => i <= j
    /\ \A i \in 1 .. Len(q) : Valid(buf, q, i, k) =>
         /\ buf[q[i]].data = d
         /\ \A j \in 1 .. Len(q) : buf[q[j]].blk = k /\ buf[q[j]].op # "sync" => j <= i
    /\ \A i \in 1 .. Len(c), j \in 1 .. Len(q) : ~(Valid(buf, c, i, k) /\ Valid(buf, q, j, k))

\* A call of p uses block k.
Using(call, p, k) == call[p].at \in {"alloc", "recv", "got", "loop"} /\ call[p].blk = k

Alone(call, k) == \A p, u \in RdUsers : Using(call, p, k) /\ Using(call, u, k) => p = u

\* A call that found no copy of block k in memory waits for a buffer, for the server or to
\* be told of its answer.
Missed(buf, q, call, k) ==
    \/ \E p \in RdUsers : call[p].at = "alloc" /\ call[p].op # "sync" /\ call[p].blk = k
    \/ \E p \in RdUsers : call[p].at = "got" /\ call[p].blk = k
    \/ \E i \in 1 .. Len(q) : buf[q[i]].op = "read" /\ buf[q[i]].blk = k

BlockOK(buf, c, q, call, k, d) ==
    /\ Alone(call, k) /\ Copies(buf, c, q, k, d)
    /\ Missed(buf, q, call, k) => NoCopy(buf, c, q, k)

\* Writes have what they write, and others are for the block of the call that waits for them.
Requests(buf, q, call) ==
    \A i \in 1 .. Len(q) :
      /\ buf[q[i]].op = "write" <=> buf[q[i]].valid
      /\ buf[q[i]].op # "write" => call[buf[q[i]].pid].blk = buf[q[i]].blk
      /\ buf[q[i]].op = "read" => buf[q[i]].blk \in RdBlocks

\* The buffer that p is told of is the first of its block in the cache.
Told(buf, c, call, p) ==
    /\ call[p].blk \in RdBlocks
    /\ \E i \in 1 .. Len(c) :
         /\ c[i] = call[p].buf /\ buf[c[i]].refcnt > 0 /\ buf[c[i]].blk = call[p].blk
         /\ \A j \in 1 .. Len(c) : buf[c[j]].blk = call[p].blk => i <= j

Reading(buf, c, call) == \A p \in RdUsers : call[p].at = "got" => Told(buf, c, call, p)

RdCacheInv ==
    /\ Requests(rdbuf, rdreq, rdcall)
    /\ \A k \in RdBlocks \ rdshared : BlockOK(rdbuf, rdcache, rdreq, rdcall, k, rdlast[k])
    /\ rdshared = {} => rdstop # "lists" /\ Reading(rdbuf, rdcache, rdcall)

\* The buffers of list s, in the order in which they are in t.
Within(s, t) ==
    \E e \in [1 .. Len(s) -> 1 .. Len(t)] :
      \A i, j \in 1 .. Len(s) : s[i] = t[e[i]] /\ (i <= j <=> e[i] <= e[j])

\* The buffers of list s are as they were, and nobody reads them who did not.
Same(buf, buf2, s) ==
    \A i \in 1 .. Len(s) :
      /\ buf2[s[i]].valid = buf[s[i]].valid /\ buf2[s[i]].blk = buf[s[i]].blk
      /\ buf2[s[i]].op = buf[s[i]].op /\ buf2[s[i]].pid = buf[s[i]].pid
      /\ buf2[s[i]].data = buf[s[i]].data
      /\ buf[s[i]].refcnt <= 0 => buf2[s[i]].refcnt <= 0

\* A list is within itself.
LEMMA WithinSame ==
    ASSUME NEW s PROVE Within(s, s)
<1> DEFINE e == [i \in 1 .. Len(s) |-> i]
<1>1. e \in [1 .. Len(s) -> 1 .. Len(s)]
      /\ \A i, j \in 1 .. Len(s) : s[i] = s[e[i]] /\ (i <= j <=> e[i] <= e[j])
  OBVIOUS
<1> QED
  BY <1>1 DEF Within

\* A list without its first buffer is within it.
LEMMA WithinTail ==
    ASSUME NEW s \in Seq(RdBuffers), Len(s) > 0
    PROVE  Within(Tail(s), s)
<1> DEFINE t == Tail(s)
           e == [i \in 1 .. Len(t) |-> i + 1]
<1>1. Len(s) \in Nat /\ Len(t) = Len(s) - 1 /\ \A i \in 1 .. Len(s) - 1 : t[i] = s[i + 1]
  BY LenProperties, Dropped
<1> HIDE DEF t
<1>2. e \in [1 .. Len(t) -> 1 .. Len(s)]
  BY <1>1
<1>3. \A i, j \in 1 .. Len(t) : t[i] = s[e[i]] /\ (i <= j <=> e[i] <= e[j])
  BY <1>1
<1>4. Within(t, s)
  BY <1>2, <1>3 DEF Within
<1> QED
  BY <1>4 DEF t

\* A list without its k-th buffer is within it.
LEMMA WithinRemoved ==
    ASSUME NEW s \in Seq(RdBuffers), NEW k \in 1 .. Len(s)
    PROVE  Within(RemoveAt(s, k), s)
<1> DEFINE t == RemoveAt(s, k)
           e == [i \in 1 .. Len(t) |-> IF i < k THEN i ELSE i + 1]
<1>1. Len(s) \in Nat /\ Len(t) = Len(s) - 1 /\ k \in Int
      /\ \A i \in 1 .. Len(s) - 1 : t[i] = IF i < k THEN s[i] ELSE s[i + 1]
  BY LenProperties, Removed
<1> HIDE DEF t
<1>2. e \in [1 .. Len(t) -> 1 .. Len(s)]
  BY <1>1
<1>3. ASSUME NEW i \in 1 .. Len(t), NEW j \in 1 .. Len(t)
      PROVE  t[i] = s[e[i]] /\ (i <= j <=> e[i] <= e[j])
  <2>1. i \in Int /\ j \in Int /\ (i <= j <=> e[i] <= e[j])
    BY <1>1
  <2>2. i \in 1 .. Len(s) - 1 /\ e[i] = IF i < k THEN i ELSE i + 1
    BY <1>1
  <2>3. t[i] = s[e[i]]
    BY <1>1, <2>2
  <2> QED
    BY <2>1, <2>3
<1>4. Within(t, s)
  BY <1>2, <1>3 DEF Within
<1> QED
  BY <1>4 DEF t

\* What a list holds that has lost some buffers.
LEMMA WithinMembers ==
    ASSUME NEW s, NEW t, Within(s, t), NEW i \in 1 .. Len(s)
    PROVE  \E x \in 1 .. Len(t) : s[i] = t[x]
  BY DEF Within

\* Buffers that are not changed.
LEMMA SameBuffers ==
    ASSUME NEW buf, NEW buf2, NEW s, \A i \in 1 .. Len(s) : buf2[s[i]] = buf[s[i]]
    PROVE  Same(buf, buf2, s)
  BY DEF Same

\* Lists that lose buffers get no copy.
LEMMA NoCopyLess ==
    ASSUME NEW buf, NEW c, NEW q, NEW k, NoCopy(buf, c, q, k), NEW buf2, NEW c2, NEW q2,
           Within(c2, c), Within(q2, q), Same(buf, buf2, c2), Same(buf, buf2, q2)
    PROVE  NoCopy(buf2, c2, q2, k)
<1>1. ASSUME NEW i \in 1 .. Len(c2) PROVE ~Valid(buf2, c2, i, k)
  <2>1. PICK x \in 1 .. Len(c) : c2[i] = c[x]
    BY WithinMembers
  <2> QED
    BY <2>1 DEF NoCopy, Valid, Same
<1>2. ASSUME NEW i \in 1 .. Len(q2) PROVE ~Valid(buf2, q2, i, k)
  <2>1. PICK x \in 1 .. Len(q) : q2[i] = q[x]
    BY WithinMembers
  <2> QED
    BY <2>1 DEF NoCopy, Valid, Same
<1> QED
  BY <1>1, <1>2 DEF NoCopy

\* Copies stay the last write, and the ones found, in lists that lose buffers.
LEMMA CopiesLess ==
    ASSUME NEW buf, NEW c, NEW q, NEW k, NEW d, Copies(buf, c, q, k, d), NEW buf2, NEW c2, NEW q2,
           Within(c2, c), Within(q2, q), Same(buf, buf2, c2), Same(buf, buf2, q2)
    PROVE  Copies(buf2, c2, q2, k, d)
<1>1. PICK e \in [1 .. Len(c2) -> 1 .. Len(c)] :
        \A i, j \in 1 .. Len(c2) : c2[i] = c[e[i]] /\ (i <= j <=> e[i] <= e[j])
  BY DEF Within
<1>2. PICK f \in [1 .. Len(q2) -> 1 .. Len(q)] :
        \A i, j \in 1 .. Len(q2) : q2[i] = q[f[i]] /\ (i <= j <=> f[i] <= f[j])
  BY DEF Within
<1>3. ASSUME NEW i \in 1 .. Len(c2), Valid(buf2, c2, i, k)
      PROVE  /\ Valid(buf, c, e[i], k) /\ buf2[c2[i]].refcnt <= 0 /\ buf2[c2[i]].data = d
             /\ \A j \in 1 .. Len(c2) : buf2[c2[j]].blk = k => i <= j
  <2>1. e[i] \in 1 .. Len(c) /\ c2[i] = c[e[i]]
    BY <1>1
  <2>2. Valid(buf, c, e[i], k)
    BY <1>3, <2>1 DEF Valid, Same
  <2>3. buf[c2[i]].refcnt <= 0 /\ buf[c2[i]].data = d
    BY <2>1, <2>2 DEF Copies
  <2>4. buf2[c2[i]].refcnt <= 0 /\ buf2[c2[i]].data = d
    BY <2>3 DEF Same
  <2>5. ASSUME NEW j \in 1 .. Len(c2), buf2[c2[j]].blk = k PROVE i <= j
    <3>1. e[j] \in 1 .. Len(c) /\ c2[j] = c[e[j]] /\ buf[c2[j]].blk = k
      BY <1>1, <2>5 DEF Same
    <3>2. e[i] <= e[j]
      BY <2>1, <2>2, <3>1 DEF Copies
    <3> QED
      BY <1>1, <3>2
  <2> QED
    BY <2>2, <2>4, <2>5
<1>4. ASSUME NEW i \in 1 .. Len(q2), Valid(buf2, q2, i, k)
      PROVE  /\ Valid(buf, q, f[i], k) /\ buf2[q2[i]].data = d
             /\ \A j \in 1 .. Len(q2) : buf2[q2[j]].blk = k /\ buf2[q2[j]].op # "sync" => j <= i
  <2>1. f[i] \in 1 .. Len(q) /\ q2[i] = q[f[i]]
    BY <1>2
  <2>2. Valid(buf, q, f[i], k)
    BY <1>4, <2>1 DEF Valid, Same
  <2>3. buf2[q2[i]].data = d
    BY <2>1, <2>2 DEF Copies, Same
  <2>4. ASSUME NEW j \in 1 .. Len(q2), buf2[q2[j]].blk = k, buf2[q2[j]].op # "sync" PROVE j <= i
    <3>1. f[j] \in 1 .. Len(q) /\ q2[j] = q[f[j]] /\ buf[q2[j]].blk = k /\ buf[q2[j]].op # "sync"
      BY <1>2, <2>4 DEF Same
    <3>2. f[j] <= f[i]
      BY <2>1, <2>2, <3>1 DEF Copies
    <3> QED
      BY <1>2, <3>2
  <2> QED
    BY <2>2, <2>3, <2>4
<1>5. ASSUME NEW i \in 1 .. Len(c2), NEW j \in 1 .. Len(q2), Valid(buf2, c2, i, k), Valid(buf2, q2, j, k)
      PROVE  FALSE
  <2>1. /\ e[i] \in 1 .. Len(c) /\ f[j] \in 1 .. Len(q)
        /\ Valid(buf, c, e[i], k) /\ Valid(buf, q, f[j], k)
    BY <1>1, <1>2, <1>3, <1>4, <1>5
  <2> QED
    BY <2>1 DEF Copies
<1> QED
  BY <1>3, <1>4, <1>5 DEF Copies

\* A block without copies may have been written in any way.
LEMMA CopiesNone ==
    ASSUME NEW buf, NEW c, NEW q, NEW k, NEW d, NoCopy(buf, c, q, k)
    PROVE  Copies(buf, c, q, k, d)
  BY DEF NoCopy, Copies

\* Buffer b is put last in the queue.
LEMMA NoCopyAppended ==
    ASSUME NEW buf, NEW c, NEW q \in Seq(RdBuffers), NEW k, NEW b \in RdBuffers,
           NoCopy(buf, c, q, k), buf[b].blk = k => ~buf[b].valid
    PROVE  NoCopy(buf, c, Append(q, b), k)
<1> DEFINE r == Append(q, b)
<1>1. Len(q) \in Nat /\ Len(r) = Len(q) + 1
      /\ \A i \in 1 .. Len(q) + 1 : r[i] = IF i <= Len(q) THEN q[i] ELSE b
  BY LenProperties, Appended
<1> HIDE DEF r
<1>2. ASSUME NEW i \in 1 .. Len(r) PROVE r[i] = b \/ (i \in 1 .. Len(q) /\ r[i] = q[i])
  BY <1>1
<1>3. ASSUME NEW i \in 1 .. Len(r) PROVE ~Valid(buf, r, i, k)
  BY <1>2 DEF NoCopy, Valid
<1>4. NoCopy(buf, c, r, k)
  BY <1>3 DEF NoCopy
<1> QED
  BY <1>4 DEF r

\* A buffer is put into the queue: of the block k only if it had no copy.
LEMMA CopiesAppended ==
    ASSUME NEW buf, NEW c, NEW q \in Seq(RdBuffers), NEW k, NEW d, NEW b \in RdBuffers,
           Copies(buf, c, q, k, d), buf[b].valid => buf[b].op # "sync",
           buf[b].blk = k /\ buf[b].op # "sync" => NoCopy(buf, c, q, k),
           buf[b].blk = k /\ buf[b].valid => buf[b].data = d
    PROVE  Copies(buf, c, Append(q, b), k, d)
<1> DEFINE r == Append(q, b)
<1>1. Len(q) \in Nat /\ Len(r) = Len(q) + 1
      /\ \A i \in 1 .. Len(q) + 1 : r[i] = IF i <= Len(q) THEN q[i] ELSE b
  BY LenProperties, Appended
<1> HIDE DEF r
<1>2. PICK n \in 1 .. Len(r) : n = Len(r) /\ r[n] = b
  BY <1>1
<1>3. ASSUME NEW i \in 1 .. Len(r)
      PROVE  i <= n /\ (i # n => i \in 1 .. Len(q) /\ r[i] = q[i])
  BY <1>1, <1>2
<1>4. ASSUME NEW i \in 1 .. Len(r), Valid(buf, r, i, k), i = n
      PROVE  /\ buf[r[i]].data = d
             /\ \A j \in 1 .. Len(r) : buf[r[j]].blk = k /\ buf[r[j]].op # "sync" => j <= i
  BY <1>2, <1>3, <1>4 DEF Valid
<1>5. ASSUME NEW i \in 1 .. Len(r), Valid(buf, r, i, k), i # n
      PROVE  /\ buf[r[i]].data = d
             /\ \A j \in 1 .. Len(r) : buf[r[j]].blk = k /\ buf[r[j]].op # "sync" => j <= i
  <2>1. i \in 1 .. Len(q) /\ r[i] = q[i] /\ Valid(buf, q, i, k)
    BY <1>3, <1>5 DEF Valid
  <2>2. ~(buf[b].blk = k /\ buf[b].op # "sync")
    BY <2>1 DEF NoCopy
  <2>3. ASSUME NEW j \in 1 .. Len(r), buf[r[j]].blk = k, buf[r[j]].op # "sync" PROVE j <= i
    <3>1. j \in 1 .. Len(q) /\ r[j] = q[j]
      BY <1>2, <1>3, <2>2, <2>3
    <3> QED
      BY <2>1, <2>3, <3>1 DEF Copies
  <2> QED
    BY <2>1, <2>3 DEF Copies
<1>6. ASSUME NEW i \in 1 .. Len(c), NEW j \in 1 .. Len(r), Valid(buf, c, i, k), Valid(buf, r, j, k)
      PROVE  FALSE
  <2>1. CASE j = n
    BY <1>2, <1>6, <2>1 DEF NoCopy, Valid
  <2>2. CASE j # n
    <3>1. j \in 1 .. Len(q) /\ Valid(buf, q, j, k)
      BY <1>3, <1>6, <2>2 DEF Valid
    <3> QED
      BY <1>6, <3>1 DEF Copies
  <2> QED
    BY <2>1, <2>2
<1>7. Copies(buf, c, r, k, d)
  BY <1>4, <1>5, <1>6 DEF Copies
<1> QED
  BY <1>7 DEF r

\* Buffer b is put first in the cache.
LEMMA NoCopyPushed ==
    ASSUME NEW buf, NEW c \in Seq(RdBuffers), NEW q, NEW k, NEW b \in RdBuffers,
           NoCopy(buf, c, q, k), buf[b].blk = k => ~buf[b].valid
    PROVE  NoCopy(buf, <<b>> \o c, q, k)
<1> DEFINE r == <<b>> \o c
<1>1. Len(c) \in Nat /\ Len(r) = Len(c) + 1
      /\ \A i \in 1 .. Len(c) + 1 : r[i] = IF i = 1 THEN b ELSE c[i - 1]
  BY LenProperties, Pushed
<1> HIDE DEF r
<1>2. ASSUME NEW i \in 1 .. Len(r) PROVE r[i] = b \/ \E x \in 1 .. Len(c) : x = i - 1 /\ r[i] = c[x]
  BY <1>1
<1>3. ASSUME NEW i \in 1 .. Len(r) PROVE ~Valid(buf, r, i, k)
  BY <1>2 DEF NoCopy, Valid
<1>4. NoCopy(buf, r, q, k)
  BY <1>3 DEF NoCopy
<1> QED
  BY <1>4 DEF r

\* A buffer is put first in the cache: of the block k only if it had no copy.
LEMMA CopiesPushed ==
    ASSUME NEW buf, NEW c \in Seq(RdBuffers), NEW q, NEW k, NEW d, NEW b \in RdBuffers,
           Copies(buf, c, q, k, d), buf[b].blk = k => NoCopy(buf, c, q, k),
           buf[b].blk = k /\ buf[b].valid => buf[b].data = d /\ buf[b].refcnt <= 0
    PROVE  Copies(buf, <<b>> \o c, q, k, d)
<1> DEFINE r == <<b>> \o c
<1>1. Len(c) \in Nat /\ Len(r) = Len(c) + 1
      /\ \A i \in 1 .. Len(c) + 1 : r[i] = IF i = 1 THEN b ELSE c[i - 1]
  BY LenProperties, Pushed
<1> HIDE DEF r
<1>2. PICK n \in 1 .. Len(r) : n = 1 /\ r[n] = b
  BY <1>1
<1>3. ASSUME NEW i \in 1 .. Len(r)
      PROVE  n <= i /\ (i # n => \E x \in 1 .. Len(c) : x = i - 1 /\ r[i] = c[x])
  BY <1>1, <1>2
<1>4. ASSUME NEW i \in 1 .. Len(r), Valid(buf, r, i, k), i = n
      PROVE  /\ buf[r[i]].refcnt <= 0 /\ buf[r[i]].data = d
             /\ \A j \in 1 .. Len(r) : buf[r[j]].blk = k => i <= j
  BY <1>2, <1>3, <1>4 DEF Valid
<1>5. ASSUME NEW i \in 1 .. Len(r), Valid(buf, r, i, k), i # n
      PROVE  /\ buf[r[i]].refcnt <= 0 /\ buf[r[i]].data = d
             /\ \A j \in 1 .. Len(r) : buf[r[j]].blk = k => i <= j
  <2>1. PICK x \in 1 .. Len(c) : x = i - 1 /\ r[i] = c[x]
    BY <1>3, <1>5
  <2>2. Valid(buf, c, x, k)
    BY <1>5, <2>1 DEF Valid
  <2>3. buf[b].blk # k
    BY <2>2 DEF NoCopy
  <2>4. ASSUME NEW j \in 1 .. Len(r), buf[r[j]].blk = k PROVE i <= j
    <3>1. PICK y \in 1 .. Len(c) : y = j - 1 /\ r[j] = c[y]
      BY <1>2, <1>3, <2>3, <2>4
    <3>2. x <= y
      BY <2>2, <2>4, <3>1 DEF Copies
    <3> QED
      BY <1>1, <2>1, <3>1, <3>2
  <2> QED
    BY <2>1, <2>2, <2>4 DEF Copies
<1>6. ASSUME NEW i \in 1 .. Len(r), NEW j \in 1 .. Len(q), Valid(buf, r, i, k), Valid(buf, q, j, k)
      PROVE  FALSE
  <2>1. CASE i = n
    BY <1>2, <1>6, <2>1 DEF NoCopy, Valid
  <2>2. CASE i # n
    <3>1. PICK x \in 1 .. Len(c) : x = i - 1 /\ r[i] = c[x]
      BY <1>3, <2>2
    <3>2. Valid(buf, c, x, k)
      BY <1>6, <3>1 DEF Valid
    <3> QED
      BY <1>6, <3>2 DEF Copies
  <2> QED
    BY <2>1, <2>2
<1>7. \A i \in 1 .. Len(q) : Valid(buf, q, i, k) =>
        /\ buf[q[i]].data = d
        /\ \A j \in 1 .. Len(q) : buf[q[j]].blk = k /\ buf[q[j]].op # "sync" => j <= i
  BY DEF Copies
<1>8. Copies(buf, r, q, k, d)
  BY <1>4, <1>5, <1>6, <1>7 DEF Copies
<1> QED
  BY <1>8 DEF r

-----------------------------------------------------------------------------
(* The calls that use a block.                                             *)

\* The call of p changes.  It uses block k when it did, or when nobody else does.
LEMMA AloneMoves ==
    ASSUME NEW call, NEW call2, NEW k, NEW p, Alone(call, k),
           \A u \in RdUsers : u # p => call2[u] = call[u],
           p \in RdUsers /\ Using(call2, p, k) =>
             Using(call, p, k) \/ \A u \in RdUsers : u # p => ~Using(call, u, k)
    PROVE  Alone(call2, k)
<1>1. ASSUME NEW u \in RdUsers, u # p, Using(call2, u, k)
      PROVE  Using(call, u, k) /\ ~(p \in RdUsers /\ Using(call2, p, k))
  <2>1. Using(call, u, k)
    BY <1>1 DEF Using
  <2> QED
    BY <1>1, <2>1 DEF Alone
<1>2. ASSUME NEW u \in RdUsers, NEW v \in RdUsers, Using(call2, u, k), Using(call2, v, k)
      PROVE  u = v
  <2>1. CASE u = p \/ v = p
    BY <1>1, <1>2, <2>1
  <2>2. CASE u # p /\ v # p
    <3>1. Using(call, u, k) /\ Using(call, v, k)
      BY <1>1, <1>2, <2>2
    <3> QED
      BY <3>1 DEF Alone
  <2> QED
    BY <2>1, <2>2
<1> QED
  BY <1>2 DEF Alone

\* Nobody else than p misses the block when only the call of p changes.
LEMMA MissedLess ==
    ASSUME NEW buf, NEW q, NEW call, NEW buf2, NEW q2, NEW call2, NEW k, NEW p,
           Within(q2, q), Same(buf, buf2, q2), \A u \in RdUsers : u # p => call2[u] = call[u],
           Missed(buf2, q2, call2, k)
    PROVE  \/ Missed(buf, q, call, k)
           \/ p \in RdUsers /\ call2[p].at = "alloc" /\ call2[p].op # "sync" /\ call2[p].blk = k
           \/ p \in RdUsers /\ call2[p].at = "got" /\ call2[p].blk = k
<1>1. CASE \E u \in RdUsers : call2[u].at = "alloc" /\ call2[u].op # "sync" /\ call2[u].blk = k
  BY <1>1 DEF Missed
<1>2. CASE \E u \in RdUsers : call2[u].at = "got" /\ call2[u].blk = k
  BY <1>2 DEF Missed
<1>3. CASE \E i \in 1 .. Len(q2) : buf2[q2[i]].op = "read" /\ buf2[q2[i]].blk = k
  <2>1. PICK i \in 1 .. Len(q2) : buf2[q2[i]].op = "read" /\ buf2[q2[i]].blk = k
    BY <1>3
  <2>2. PICK x \in 1 .. Len(q) : q2[i] = q[x]
    BY ONLY Within(q2, q), i \in 1 .. Len(q2), WithinMembers
  <2>3. buf[q[x]].op = "read" /\ buf[q[x]].blk = k
    BY <2>1, <2>2 DEF Same
  <2> QED
    BY <2>3 DEF Missed
<1> QED
  BY <1>1, <1>2, <1>3 DEF Missed

\* A buffer is put into the queue.
LEMMA MissedAppended ==
    ASSUME NEW buf, NEW q \in Seq(RdBuffers), NEW call, NEW k, NEW b \in RdBuffers,
           Missed(buf, Append(q, b), call, k)
    PROVE  Missed(buf, q, call, k) \/ (buf[b].op = "read" /\ buf[b].blk = k)
<1> DEFINE r == Append(q, b)
<1>1. Len(q) \in Nat /\ Len(r) = Len(q) + 1
      /\ \A i \in 1 .. Len(q) + 1 : r[i] = IF i <= Len(q) THEN q[i] ELSE b
  BY LenProperties, Appended
<1>2. Missed(buf, r, call, k)
  OBVIOUS
<1> HIDE DEF r
<1>3. ASSUME NEW i \in 1 .. Len(r) PROVE r[i] = b \/ (i \in 1 .. Len(q) /\ r[i] = q[i])
  BY <1>1
<1> QED
  BY <1>2, <1>3 DEF Missed

\* Requests leave the queue.
LEMMA RequestsLess ==
    ASSUME NEW buf, NEW q, NEW call, NEW buf2, NEW q2, NEW call2, Requests(buf, q, call),
           Within(q2, q), Same(buf, buf2, q2),
           \A i \in 1 .. Len(q2) : buf[q2[i]].op # "write" =>
             call2[buf[q2[i]].pid].blk = call[buf[q2[i]].pid].blk
    PROVE  Requests(buf2, q2, call2)
<1>1. ASSUME NEW i \in 1 .. Len(q2)
      PROVE  /\ buf2[q2[i]].op = "write" <=> buf2[q2[i]].valid
             /\ buf2[q2[i]].op # "write" => call2[buf2[q2[i]].pid].blk = buf2[q2[i]].blk
             /\ buf2[q2[i]].op = "read" => buf2[q2[i]].blk \in RdBlocks
  <2>1. PICK x \in 1 .. Len(q) : q2[i] = q[x]
    BY WithinMembers
  <2>2. /\ buf[q2[i]].op = "write" <=> buf[q2[i]].valid
        /\ buf[q2[i]].op # "write" => call[buf[q2[i]].pid].blk = buf[q2[i]].blk
        /\ buf[q2[i]].op = "read" => buf[q2[i]].blk \in RdBlocks
    BY <2>1 DEF Requests
  <2>3. /\ buf2[q2[i]].valid = buf[q2[i]].valid /\ buf2[q2[i]].blk = buf[q2[i]].blk
        /\ buf2[q2[i]].op = buf[q2[i]].op /\ buf2[q2[i]].pid = buf[q2[i]].pid
    BY DEF Same
  <2> QED
    BY <2>2, <2>3
<1> QED
  BY <1>1 DEF Requests

\* A request is put into the queue.
LEMMA RequestsAppended ==
    ASSUME NEW buf, NEW q \in Seq(RdBuffers), NEW call, NEW b \in RdBuffers, Requests(buf, q, call),
           buf[b].op = "write" <=> buf[b].valid,
           buf[b].op # "write" => call[buf[b].pid].blk = buf[b].blk,
           buf[b].op = "read" => buf[b].blk \in RdBlocks
    PROVE  Requests(buf, Append(q, b), call)
<1> DEFINE r == Append(q, b)
<1>1. Len(q) \in Nat /\ Len(r) = Len(q) + 1
      /\ \A i \in 1 .. Len(q) + 1 : r[i] = IF i <= Len(q) THEN q[i] ELSE b
  BY LenProperties, Appended
<1> HIDE DEF r
<1>2. ASSUME NEW i \in 1 .. Len(r) PROVE r[i] = b \/ (i \in 1 .. Len(q) /\ r[i] = q[i])
  BY <1>1
<1>3. Requests(buf, r, call)
  BY <1>2 DEF Requests
<1> QED
  BY <1>3 DEF r

\* Cached buffers that are read stay where they are.
LEMMA ToldLess ==
    ASSUME NEW buf, NEW c, NEW call, NEW p, NEW buf2, NEW c2, NEW call2, Told(buf, c, call, p),
           Once(c), Within(c2, c), Same(buf, buf2, c2), call2[p] = call[p],
           \A x \in 1 .. Len(c) : c[x] = call[p].buf /\ buf[c[x]].refcnt > 0 =>
             \E i \in 1 .. Len(c2) : c2[i] = c[x] /\ buf2[c[x]].refcnt > 0
    PROVE  Told(buf2, c2, call2, p)
<1>1. PICK x \in 1 .. Len(c) :
        /\ c[x] = call[p].buf /\ buf[c[x]].refcnt > 0 /\ buf[c[x]].blk = call[p].blk
        /\ \A j \in 1 .. Len(c) : buf[c[j]].blk = call[p].blk => x <= j
  BY DEF Told
<1>2. PICK i \in 1 .. Len(c2) : c2[i] = c[x] /\ buf2[c[x]].refcnt > 0
  BY <1>1
<1>3. PICK e \in [1 .. Len(c2) -> 1 .. Len(c)] :
        \A n, m \in 1 .. Len(c2) : c2[n] = c[e[n]] /\ (n <= m <=> e[n] <= e[m])
  BY DEF Within
<1>4. e[i] = x
  <2>1. e[i] \in 1 .. Len(c) /\ c[e[i]] = c[x]
    BY <1>2, <1>3
  <2> QED
    BY <2>1 DEF Once
<1>5. ASSUME NEW j \in 1 .. Len(c2), buf2[c2[j]].blk = call[p].blk PROVE i <= j
  <2>1. e[j] \in 1 .. Len(c) /\ c2[j] = c[e[j]] /\ buf[c2[j]].blk = call[p].blk
    BY <1>3, <1>5 DEF Same
  <2>2. x <= e[j]
    BY <1>1, <2>1
  <2> QED
    BY <1>3, <1>4, <2>2
<1>6. buf2[c2[i]].blk = call[p].blk
  BY <1>1, <1>2 DEF Same
<1>7. call[p].blk \in RdBlocks
  BY DEF Told
<1> QED
  BY <1>1, <1>2, <1>5, <1>6, <1>7 DEF Told

\* A buffer of another block is put in front of the cache.
LEMMA ToldPushed ==
    ASSUME NEW buf, NEW c \in Seq(RdBuffers), NEW call, NEW p, NEW buf2, NEW call2, NEW b \in RdBuffers,
           Told(buf, c, call, p), call2[p] = call[p], buf2[b].blk # call[p].blk,
           \A x \in 1 .. Len(c) : buf2[c[x]] = buf[c[x]]
    PROVE  Told(buf2, <<b>> \o c, call2, p)
<1> DEFINE r == <<b>> \o c
<1>1. Len(c) \in Nat /\ Len(r) = Len(c) + 1
      /\ \A i \in 1 .. Len(c) + 1 : r[i] = IF i = 1 THEN b ELSE c[i - 1]
  BY LenProperties, Pushed
<1> HIDE DEF r
<1>2. PICK x \in 1 .. Len(c) :
        /\ c[x] = call[p].buf /\ buf[c[x]].refcnt > 0 /\ buf[c[x]].blk = call[p].blk
        /\ \A j \in 1 .. Len(c) : buf[c[j]].blk = call[p].blk => x <= j
  BY DEF Told
<1>3. PICK i \in 1 .. Len(r) : i = x + 1 /\ r[i] = c[x]
  BY <1>1
<1>4. ASSUME NEW j \in 1 .. Len(r), buf2[r[j]].blk = call[p].blk PROVE i <= j
  <2>1. j # 1
    BY <1>1, <1>4
  <2>2. PICK y \in 1 .. Len(c) : j = y + 1 /\ r[j] = c[y]
    <3>1. j - 1 \in 1 .. Len(c) /\ r[j] = c[j - 1] /\ j = (j - 1) + 1
      BY <1>1, <2>1
    <3> QED
      BY <3>1
  <2>3. x <= y
    BY <1>2, <1>4, <2>2
  <2> QED
    BY <1>1, <1>3, <2>2, <2>3
<1>5. call[p].blk \in RdBlocks /\ buf2[r[i]].refcnt > 0 /\ buf2[r[i]].blk = call[p].blk /\ r[i] = call[p].buf
  BY <1>2, <1>3 DEF Told
<1>6. Told(buf2, r, call2, p)
  BY <1>4, <1>5 DEF Told
<1> QED
  BY <1>6 DEF r

-----------------------------------------------------------------------------
(* What a call finds.                                                      *)

\* What the invariant says of a block that calls never shared.
LEMMA BlockFacts ==
    ASSUME RdCacheInv, NEW k \in RdBlocks, k \notin rdshared
    PROVE  /\ Alone(rdcall, k) /\ Copies(rdbuf, rdcache, rdreq, k, rdlast[k])
           /\ Missed(rdbuf, rdreq, rdcall, k) => NoCopy(rdbuf, rdcache, rdreq, k)
           /\ Requests(rdbuf, rdreq, rdcall)
  BY DEF RdCacheInv, BlockOK

\* Who waits for a request that is not a write.
LEMMA RequestUser ==
    ASSUME RdListsInv, RdCacheInv, NEW i \in 1 .. Len(rdreq), rdbuf[rdreq[i]].op # "write"
    PROVE  /\ rdbuf[rdreq[i]].pid \in RdUsers /\ rdcall[rdbuf[rdreq[i]].pid].at = "recv"
           /\ Using(rdcall, rdbuf[rdreq[i]].pid, rdbuf[rdreq[i]].blk)
<1>1. Asked(rdbuf, rdreq, rdcall) /\ Requests(rdbuf, rdreq, rdcall)
  BY RdFacts DEF RdCacheInv
<1> QED
  BY <1>1 DEF Asked, Requests, Using

\* No other process uses block k when p, which waits for nothing, begins to or does.
Lone(p, k) == /\ rdcall[p].at # "recv" /\ rdcall[p].at # "got"
              /\ \A u \in RdUsers : u # p => ~Using(rdcall, u, k)

\* Requests for a block that no other process uses are writes.
LEMMA LoneRequests ==
    ASSUME RdListsInv, RdCacheInv, NEW p \in RdUsers, NEW k, Lone(p, k), NEW i \in 1 .. Len(rdreq),
           rdbuf[rdreq[i]].blk = k
    PROVE  rdbuf[rdreq[i]].op = "write" /\ rdbuf[rdreq[i]].valid
<1>1. rdbuf[rdreq[i]].op = "write"
  <2> SUFFICES ASSUME rdbuf[rdreq[i]].op # "write" PROVE FALSE
    OBVIOUS
  <2> QED
    BY RequestUser DEF Lone
<1> QED
  BY <1>1 DEF RdCacheInv, Requests

\* A copy is the first buffer of its block in the cache.
LEMMA CachedCopy ==
    ASSUME RdListsInv, RdCacheInv, NEW k \in RdBlocks, k \notin rdshared,
           NEW i \in 1 .. Len(rdcache), Valid(rdbuf, rdcache, i, k)
    PROVE  Cached(k) = i /\ rdbuf[rdcache[i]].refcnt <= 0
<1>1. /\ Cached(k) \in 0 .. Len(rdcache) /\ Cached(k) # 0 /\ Cached(k) <= i
      /\ rdbuf[rdcache[Cached(k)]].blk = k /\ Len(rdcache) \in Nat
  BY RdFacts, CachedFirst DEF Valid
<1>2. PICK c : c = Cached(k)
  OBVIOUS
<1>3. c \in 1 .. Len(rdcache) /\ c <= i /\ rdbuf[rdcache[c]].blk = k
  BY <1>1, <1>2
<1>4. Copies(rdbuf, rdcache, rdreq, k, rdlast[k])
  BY BlockFacts
<1>5. i <= c /\ rdbuf[rdcache[i]].refcnt <= 0
  BY <1>3, <1>4 DEF Copies
<1> QED
  BY <1>2, <1>3, <1>5

\* A block that rdsRead() does not find has no copy.
LEMMA NotInMemory ==
    ASSUME RdListsInv, RdCacheInv, NEW k \in RdBlocks, k \notin rdshared, NEW p \in RdUsers,
           Lone(p, k), InMemory(k) = 0
    PROVE  NoCopy(rdbuf, rdcache, rdreq, k)
<1>1. /\ \A i \in 1 .. Len(rdcache) : rdcache[i] \in RdBuffers
      /\ \A i \in 1 .. Len(rdreq) : rdreq[i] \in RdBuffers
  BY RdFacts
<1>2. 0 \notin RdBuffers
  BY RdAssumption DEF RdBuffers
<1>3. ASSUME NEW i \in 1 .. Len(rdcache), Valid(rdbuf, rdcache, i, k) PROVE FALSE
  <2>1. Cached(k) = i /\ i # 0 /\ rdcache[i] # 0 /\ rdbuf[rdcache[i]].valid
    BY <1>1, <1>2, <1>3, CachedCopy DEF Valid
  <2> QED
    BY <2>1 DEF InMemory
<1>4. ASSUME NEW i \in 1 .. Len(rdreq), Valid(rdbuf, rdreq, i, k) PROVE FALSE
  <2>1. PICK q : q = Queued(k)
    OBVIOUS
  <2>2. q \in 1 .. Len(rdreq) /\ rdbuf[rdreq[q]].blk = k
    <3>1. /\ Queued(k) \in 0 .. Len(rdreq) /\ Queued(k) # 0
          /\ rdbuf[rdreq[Queued(k)]].blk = k /\ Len(rdreq) \in Nat
      BY <1>4, RdFacts, QueuedLast DEF Valid
    <3> QED
      BY <2>1, <3>1
  <2>3. rdbuf[rdreq[q]].op = "write" /\ rdreq[q] # 0 /\ q # 0
    BY <1>1, <1>2, <2>2, LoneRequests
  <2>4. PICK c : c = Cached(k)
    OBVIOUS
  <2>5. c \in 0 .. Len(rdcache)
    BY <2>4, RdFacts, CachedFirst
  <2>6. c # 0 => rdcache[c] # 0
    BY <1>1, <1>2, <2>5
  <2> QED
    BY <2>1, <2>3, <2>4, <2>6 DEF InMemory
<1> QED
  BY <1>3, <1>4 DEF NoCopy

\* Neither has one that rdsWrite() finds no copy of to replace.
LEMMA NotReplaced ==
    ASSUME RdListsInv, RdCacheInv, NEW k \in RdBlocks, k \notin rdshared, NEW p \in RdUsers,
           Lone(p, k), QueuedWrite(k) = 0
    PROVE  /\ \A i \in 1 .. Len(rdreq) : ~Valid(rdbuf, rdreq, i, k)
           /\ (Cached(k) # 0 => rdbuf[rdcache[Cached(k)]].refcnt > 0) => NoCopy(rdbuf, rdcache, rdreq, k)
<1>1. ASSUME NEW i \in 1 .. Len(rdreq), Valid(rdbuf, rdreq, i, k) PROVE FALSE
  <2>1. rdbuf[rdreq[i]].op = "write" /\ rdbuf[rdreq[i]].blk = k
    BY <1>1, LoneRequests DEF Valid
  <2> QED
    BY <2>1, RdFacts, QueuedWriteFound
<1>2. ASSUME NEW i \in 1 .. Len(rdcache), Valid(rdbuf, rdcache, i, k),
             Cached(k) # 0 => rdbuf[rdcache[Cached(k)]].refcnt > 0
      PROVE  FALSE
  <2>1. Cached(k) = i /\ i # 0 /\ rdbuf[rdcache[i]].refcnt <= 0
    BY <1>2, CachedCopy
  <2>2. rdcache[i] \in RdBuffers /\ rdbuf \in [RdBuffers -> RdBuf]
    BY RdFacts DEF RdTypes
  <2>3. rdbuf[rdcache[i]].refcnt \in Int
    BY <2>2 DEF RdBuf
  <2> QED
    BY <1>2, <2>1, <2>3
<1> QED
  BY <1>1, <1>2 DEF NoCopy

-----------------------------------------------------------------------------
(* Steps keep the copies.                                                  *)

\* A block that calls do not share after the step, when p begins to use block j.
LEMMA UsesLone ==
    ASSUME NEW p \in RdUsers, NEW j, Uses(p, j), rdcall[p].at = "idle", NEW k, k \notin rdshared'
    PROVE  k \notin rdshared /\ (k = j => Lone(p, k))
<1>1. rdshared \subseteq rdshared'
  BY DEF Uses
<1>2. ASSUME k = j PROVE Lone(p, k)
  <2>1. ~\E q \in RdUsers \ {p} : Using(rdcall, q, k)
    BY <1>2 DEF Uses, Using
  <2> QED
    BY <2>1 DEF Lone
<1> QED
  BY <1>1, <1>2

\* A block that calls shared stays one.
LEMMA UsesMore ==
    ASSUME NEW p, NEW j, Uses(p, j) PROVE rdshared \subseteq rdshared'
  BY DEF Uses

\* The call of p becomes x.
LEMMA CallBecomes ==
    ASSUME RdListsInv, NEW p, NEW x, Calls(p, x)
    PROVE  /\ p \in RdUsers => rdcall'[p] = x
           /\ \A u \in RdUsers : u # p => rdcall'[u] = rdcall[u]
<1>1. rdcall \in [RdUsers -> RdCall] /\ rdcall' = [rdcall EXCEPT ![p] = x]
  BY RdFacts DEF RdTypes, Calls
<1> QED
  BY <1>1

\* What stays told of its buffers.
LEMMA ReadingLess ==
    ASSUME RdListsInv, Reading(rdbuf, rdcache, rdcall), NEW p,
           Within(rdcache', rdcache), Same(rdbuf, rdbuf', rdcache'),
           \A u \in RdUsers : u # p => rdcall'[u] = rdcall[u],
           p \in RdUsers => rdcall'[p].at # "got",
           \A u \in RdUsers, x \in 1 .. Len(rdcache) :
             u # p /\ rdcall[u].at = "got" /\ rdcache[x] = rdcall[u].buf /\ rdbuf[rdcache[x]].refcnt > 0 =>
               \E i \in 1 .. Len(rdcache') : rdcache'[i] = rdcache[x] /\ rdbuf'[rdcache[x]].refcnt > 0
    PROVE  Reading(rdbuf', rdcache', rdcall')
<1>1. ASSUME NEW u \in RdUsers, rdcall'[u].at = "got" PROVE Told(rdbuf', rdcache', rdcall', u)
  <2>1. u # p /\ rdcall'[u] = rdcall[u] /\ rdcall[u].at = "got"
    BY <1>1
  <2>2. Told(rdbuf, rdcache, rdcall, u)
    BY <2>1 DEF Reading
  <2>3. Once(rdcache)
    BY RdFacts DEF OnLists
  <2>4. \A x \in 1 .. Len(rdcache) : rdcache[x] = rdcall[u].buf /\ rdbuf[rdcache[x]].refcnt > 0 =>
          \E i \in 1 .. Len(rdcache') : rdcache'[i] = rdcache[x] /\ rdbuf'[rdcache[x]].refcnt > 0
    BY <2>1
  <2> QED
    BY <2>1, <2>2, <2>3, <2>4, ToldLess
<1> QED
  BY <1>1 DEF Reading

\* Buffers leave the lists or stay as they are.
LEMMA LessKeepsCopies ==
    ASSUME RdListsInv, RdCacheInv, NEW p,
           Within(rdcache', rdcache), Within(rdreq', rdreq),
           Same(rdbuf, rdbuf', rdcache'), Same(rdbuf, rdbuf', rdreq'),
           UNCHANGED rdlast, rdshared \subseteq rdshared',
           \A u \in RdUsers : u # p => rdcall'[u] = rdcall[u],
           p \in RdUsers => rdcall'[p].at # "got",
           \A k \in RdBlocks : k \notin rdshared' /\ p \in RdUsers /\ Using(rdcall', p, k) =>
             Using(rdcall, p, k) \/ Lone(p, k),
           \A k \in RdBlocks :
             k \notin rdshared' /\ p \in RdUsers /\ rdcall'[p].at = "alloc" /\ rdcall'[p].op # "sync"
               /\ rdcall'[p].blk = k => NoCopy(rdbuf, rdcache, rdreq, k),
           \A i \in 1 .. Len(rdreq') : rdbuf[rdreq'[i]].op # "write" =>
             rdcall'[rdbuf[rdreq'[i]].pid].blk = rdcall[rdbuf[rdreq'[i]].pid].blk,
           rdshared' = {} => rdstop' # "lists",
           rdshared' = {} => \A u \in RdUsers, x \in 1 .. Len(rdcache) :
             u # p /\ rdcall[u].at = "got" /\ rdcache[x] = rdcall[u].buf /\ rdbuf[rdcache[x]].refcnt > 0 =>
               \E i \in 1 .. Len(rdcache') : rdcache'[i] = rdcache[x] /\ rdbuf'[rdcache[x]].refcnt > 0
    PROVE  RdCacheInv'
<1>1. ASSUME NEW k \in RdBlocks, k \notin rdshared'
      PROVE  BlockOK(rdbuf', rdcache', rdreq', rdcall', k, rdlast'[k])
  <2>1. /\ Alone(rdcall, k) /\ Copies(rdbuf, rdcache, rdreq, k, rdlast[k])
        /\ Missed(rdbuf, rdreq, rdcall, k) => NoCopy(rdbuf, rdcache, rdreq, k)
    BY <1>1, BlockFacts
  <2>2. Copies(rdbuf', rdcache', rdreq', k, rdlast'[k])
    BY <2>1, CopiesLess
  <2>3. Alone(rdcall', k)
    <3>1. p \in RdUsers /\ Using(rdcall', p, k) =>
            Using(rdcall, p, k) \/ \A u \in RdUsers : u # p => ~Using(rdcall, u, k)
      BY <1>1 DEF Lone
    <3>2. Alone(rdcall, k) /\ \A u \in RdUsers : u # p => rdcall'[u] = rdcall[u]
      BY <2>1
    <3> QED
      BY ONLY <3>1, <3>2, AloneMoves
  <2>4. ASSUME Missed(rdbuf', rdreq', rdcall', k) PROVE NoCopy(rdbuf', rdcache', rdreq', k)
    <3>1. \/ Missed(rdbuf, rdreq, rdcall, k)
          \/ p \in RdUsers /\ rdcall'[p].at = "alloc" /\ rdcall'[p].op # "sync" /\ rdcall'[p].blk = k
          \/ p \in RdUsers /\ rdcall'[p].at = "got" /\ rdcall'[p].blk = k
      BY <2>4, MissedLess
    <3>2. NoCopy(rdbuf, rdcache, rdreq, k)
      BY <1>1, <2>1, <3>1
    <3> QED
      BY <3>2, NoCopyLess
  <2> QED
    BY <2>2, <2>3, <2>4 DEF BlockOK
<1>2. Requests(rdbuf', rdreq', rdcall')
  <2>1. Requests(rdbuf, rdreq, rdcall)
    BY DEF RdCacheInv
  <2> QED
    BY <2>1, RequestsLess
<1>3. rdshared' = {} => Reading(rdbuf', rdcache', rdcall')
  <2>1. rdshared' = {} => Reading(rdbuf, rdcache, rdcall)
    BY DEF RdCacheInv
  <2> QED
    BY <2>1, ReadingLess
<1> QED
  BY <1>1, <1>2, <1>3 DEF RdCacheInv

\* Only the call of p changes, which waits for no request.
LEMMA CallKeepsCopies ==
    ASSUME RdListsInv, RdCacheInv, NEW p, NEW x, UNCHANGED <<rdbuf, rdcache, rdreq, rdlast>>,
           UNCHANGED rdcall \/ (p \in RdUsers /\ rdcall[p].at # "recv" /\ Calls(p, x) /\ x.at # "got"),
           rdshared \subseteq rdshared', rdshared' = {} => rdstop' # "lists",
           UNCHANGED rdcall
             \/ x.at \notin {"alloc", "recv", "got", "loop"}
             \/ \A k \in RdBlocks : k \notin rdshared' /\ x.blk = k =>
                  /\ Lone(p, k)
                  /\ x.at = "alloc" /\ x.op # "sync" => NoCopy(rdbuf, rdcache, rdreq, k)
    PROVE  RdCacheInv'
<1>1. Within(rdcache', rdcache) /\ Within(rdreq', rdreq)
  BY WithinSame
<1>2. Same(rdbuf, rdbuf', rdcache') /\ Same(rdbuf, rdbuf', rdreq')
  BY SameBuffers
<1>3. /\ Len(rdcache') = Len(rdcache)
      /\ \A x2 \in 1 .. Len(rdcache) : rdcache'[x2] = rdcache[x2] /\ rdbuf'[rdcache[x2]] = rdbuf[rdcache[x2]]
  OBVIOUS
<1>4. CASE UNCHANGED rdcall
  <2>1. PICK w : w = "rds" /\ w \notin RdUsers
    BY RdAssumption
  <2> QED
    BY <1>1, <1>2, <1>3, <1>4, <2>1, LessKeepsCopies
<1>5. CASE ~UNCHANGED rdcall
  <2>1. p \in RdUsers /\ rdcall[p].at # "recv" /\ Calls(p, x) /\ x.at # "got"
    BY <1>5
  <2>2. rdcall'[p] = x /\ \A u \in RdUsers : u # p => rdcall'[u] = rdcall[u]
    BY <2>1, CallBecomes
  <2>3. ASSUME NEW i \in 1 .. Len(rdreq'), rdbuf[rdreq'[i]].op # "write"
        PROVE  rdcall'[rdbuf[rdreq'[i]].pid].blk = rdcall[rdbuf[rdreq'[i]].pid].blk
    <3>1. rdbuf[rdreq[i]].pid \in RdUsers /\ rdbuf[rdreq[i]].pid # p
      BY <2>1, <2>3, RequestUser
    <3> QED
      BY <2>2, <3>1
  <2>4. ASSUME NEW k \in RdBlocks, k \notin rdshared', Using(rdcall', p, k) PROVE Lone(p, k)
    BY <1>5, <2>2, <2>4 DEF Using
  <2>5. ASSUME NEW k \in RdBlocks, k \notin rdshared', rdcall'[p].at = "alloc", rdcall'[p].op # "sync",
               rdcall'[p].blk = k
        PROVE  NoCopy(rdbuf, rdcache, rdreq, k)
    BY <1>5, <2>2, <2>5
  <2>6. rdcall'[p].at # "got"
    BY <2>1, <2>2
  <2> QED
    BY <1>1, <1>2, <1>3, <2>2, <2>3, <2>4, <2>5, <2>6, LessKeepsCopies
<1> QED
  BY <1>4, <1>5

\* rdsRead() (rdsRead.c).
LEMMA ReadKeepsCopies ==
    ASSUME RdListsInv, RdCacheInv, NEW p \in RdUsers, NEW k \in RdBlocks, RdRead(p, k)
    PROVE  RdCacheInv'
<1>1. /\ UNCHANGED <<rdbuf, rdcache, rdreq, rdlast>> /\ Uses(p, k)
      /\ rdcall[p].at = "idle" /\ rdstop' # "lists"
  BY DEF RdRead, CanCall
<1>2. rdshared \subseteq rdshared' /\ (k \notin rdshared' => Lone(p, k) /\ k \notin rdshared)
  BY <1>1, UsesMore, UsesLone
<1>3. CASE InMemory(k) # 0
  <2>1. UNCHANGED rdcall
    BY <1>3 DEF RdRead
  <2> QED
    BY <1>1, <1>2, <2>1, CallKeepsCopies
<1>4. CASE InMemory(k) = 0
  <2>1. PICK x : x = [at |-> "alloc", op |-> "read", blk |-> k, data |-> "0"]
    OBVIOUS
  <2>2. Calls(p, x) /\ x.at = "alloc" /\ x.blk = k
    BY <1>4, <2>1 DEF RdRead, WaitAvail
  <2>3. k \notin rdshared' => NoCopy(rdbuf, rdcache, rdreq, k)
    BY <1>2, <1>4, NotInMemory
  <2> QED
    BY <1>1, <1>2, <2>2, <2>3, CallKeepsCopies
<1> QED
  BY <1>3, <1>4

\* What rdsRead() finds is what was written last.
LEMMA ReadIsTrue ==
    ASSUME RdListsInv, RdCacheInv, NEW p \in RdUsers, NEW k \in RdBlocks, RdRead(p, k)
    PROVE  CacheTrue'
<1>1. UNCHANGED rdlast /\ Uses(p, k) /\ rdcall[p].at = "idle"
  BY DEF RdRead, CanCall
<1>2. CASE InMemory(k) = 0
  BY <1>2 DEF RdRead, CacheTrue, NoGot
<1>3. CASE InMemory(k) # 0
  <2>1. PICK c, q : c = Cached(k) /\ q = Queued(k)
    OBVIOUS
  <2>2. PICK b : b = InMemory(k)
    OBVIOUS
  <2>3. rdgot' = [hit |-> "memory", blk |-> k, data |-> rdbuf[b].data]
    BY <1>3, <2>2 DEF RdRead
  <2>4. ASSUME k \notin rdshared' PROVE rdbuf[b].data = rdlast[k]
    <3>1. k \notin rdshared /\ Copies(rdbuf, rdcache, rdreq, k, rdlast[k]) /\ Requests(rdbuf, rdreq, rdcall)
      BY <1>1, <2>4, UsesLone, BlockFacts
    <3>2. CASE c # 0 /\ rdbuf[rdcache[c]].valid
      <4>1. b = rdcache[c]
        BY <2>1, <2>2, <3>2 DEF InMemory
      <4>2. c \in 1 .. Len(rdcache) /\ rdbuf[rdcache[c]].blk = k
        BY <2>1, <3>2, RdFacts, CachedFirst
      <4> QED
        BY <3>1, <3>2, <4>1, <4>2 DEF Copies, Valid
    <3>3. CASE ~(c # 0 /\ rdbuf[rdcache[c]].valid)
      <4>1. b = rdreq[q] /\ q # 0 /\ rdbuf[rdreq[q]].op = "write"
        BY <1>3, <2>1, <2>2, <3>3 DEF InMemory
      <4>2. q \in 1 .. Len(rdreq) /\ rdbuf[rdreq[q]].blk = k
        BY <2>1, <4>1, RdFacts, QueuedLast
      <4>3. Valid(rdbuf, rdreq, q, k)
        BY <3>1, <4>1, <4>2 DEF Requests, Valid
      <4> QED
        BY <3>1, <4>1, <4>2, <4>3 DEF Copies
    <3> QED
      BY <3>2, <3>3
  <2>5. rdgot'.blk = k /\ rdgot'.data = rdbuf[b].data
    BY <2>3
  <2> QED
    BY <1>1, <2>4, <2>5 DEF CacheTrue
<1> QED
  BY <1>2, <1>3

\* RDS_CTL_SYNC (rdsControl.c).
LEMMA SyncKeepsCopies ==
    ASSUME RdListsInv, RdCacheInv, NEW p \in RdUsers, RdSync(p)
    PROVE  RdCacheInv'
<1>1. /\ UNCHANGED <<rdbuf, rdcache, rdreq, rdlast>> /\ Uses(p, 0)
      /\ rdcall[p].at = "idle" /\ rdstop' # "lists"
  BY DEF RdSync, CanCall
<1>2. PICK x : x = [at |-> "alloc", op |-> "sync", blk |-> 0, data |-> "0"]
  OBVIOUS
<1>3. Calls(p, x) /\ x.at = "alloc" /\ x.blk = 0 /\ x.op = "sync"
  BY <1>2 DEF RdSync, WaitAvail
<1>4. rdshared \subseteq rdshared' /\ \A k \in RdBlocks : k \notin rdshared' /\ x.blk = k => Lone(p, k)
  BY <1>1, <1>3, UsesMore, UsesLone
<1> QED
  BY <1>1, <1>3, <1>4, CallKeepsCopies

\* Buffer b becomes v and goes into the queue for p, and c2 is what is left of the cache.
LEMMA QueuedKeepsCopies ==
    ASSUME RdListsInv, RdCacheInv, NEW p \in RdUsers, NEW f2, NEW c2, NEW b \in RdBuffers, NEW v,
           Within(c2, rdcache), OnLists(f2, c2, Append(rdreq, b)), b \notin On(rdreq),
           rdcache' = c2, rdreq' = Append(rdreq, b), rdbuf' = [rdbuf EXCEPT ![b] = v],
           \A u \in RdUsers : u # p => rdcall'[u] = rdcall[u],
           rdcall[p].at # "recv", rdcall'[p].at \notin {"alloc", "got"},
           v.op \in {"read", "write", "sync"}, v.op = "write" <=> v.valid,
           v.op # "write" => v.pid = p /\ rdcall'[p].blk = v.blk,
           v.op = "read" => v.blk \in RdBlocks,
           rdshared \subseteq rdshared', rdstop' # "lists",
           \A k \in RdBlocks : k \notin rdshared' /\ Using(rdcall', p, k) => Using(rdcall, p, k),
           \A k \in RdBlocks : k \notin rdshared' /\ (k # v.blk \/ v.op # "write") => rdlast'[k] = rdlast[k],
           \A k \in RdBlocks : k \notin rdshared' /\ k = v.blk /\ v.op # "sync" =>
             /\ Lone(p, k) /\ NoCopy(rdbuf, c2, rdreq, k)
             /\ v.op = "write" => v.data = rdlast'[k],
           \A x \in 1 .. Len(rdcache) : rdbuf[rdcache[x]].refcnt > 0 =>
             \E i \in 1 .. Len(c2) : c2[i] = rdcache[x]
    PROVE  RdCacheInv'
<1>1. PICK buf, call : buf = rdbuf' /\ call = rdcall'
  OBVIOUS
<1>2. /\ rdreq \in Seq(RdBuffers) /\ Within(rdreq, rdreq)
      /\ buf[b] = v /\ \A a \in RdBuffers : a # b => buf[a] = rdbuf[a]
  <2>1. rdbuf \in [RdBuffers -> RdBuf] /\ rdreq \in Seq(RdBuffers)
    BY RdFacts DEF RdTypes
  <2> QED
    BY <1>1, <2>1, WithinSame
<1>3. \A i \in 1 .. Len(rdreq) : buf[rdreq[i]] = rdbuf[rdreq[i]]
  <2>1. ASSUME NEW i \in 1 .. Len(rdreq) PROVE rdreq[i] \in RdBuffers /\ rdreq[i] # b
    BY RdFacts DEF On
  <2> QED
    BY <1>2, <2>1
<1>4. \A i \in 1 .. Len(c2) : c2[i] # b /\ buf[c2[i]] = rdbuf[c2[i]]
  <2>1. PICK q : q = Append(rdreq, b)
    OBVIOUS
  <2>2. /\ \A i \in 1 .. Len(c2) : c2[i] \in RdBuffers
        /\ \A i \in 1 .. Len(c2), j \in 1 .. Len(q) : c2[i] # q[j]
    <3>1. OnLists(f2, c2, q)
      BY <2>1
    <3> QED
      BY <3>1, ListTypes
  <2>3. Len(rdreq) + 1 \in 1 .. Len(q) /\ q[Len(rdreq) + 1] = b
    BY <1>2, <2>1, Appended, RdFacts
  <2>4. ASSUME NEW i \in 1 .. Len(c2) PROVE c2[i] \in RdBuffers /\ c2[i] # b
    BY <2>2, <2>3
  <2> QED
    BY <1>2, <2>4
<1>5. Same(rdbuf, buf, c2) /\ Same(rdbuf, buf, rdreq)
  BY <1>3, <1>4, SameBuffers
<1>6. ASSUME NEW k \in RdBlocks, k \notin rdshared'
      PROVE  BlockOK(buf, c2, Append(rdreq, b), call, k, rdlast'[k])
  <2>1. /\ Alone(rdcall, k) /\ Copies(rdbuf, rdcache, rdreq, k, rdlast[k])
        /\ Missed(rdbuf, rdreq, rdcall, k) => NoCopy(rdbuf, rdcache, rdreq, k)
    BY <1>6, BlockFacts
  <2>2. ASSUME NoCopy(rdbuf, rdcache, rdreq, k) PROVE NoCopy(buf, c2, rdreq, k)
    BY ONLY <1>2, <1>5, <2>2, Within(c2, rdcache), NoCopyLess
  <2>3. Copies(buf, c2, rdreq, k, rdlast[k])
    BY ONLY <1>2, <1>5, <2>1, Within(c2, rdcache), CopiesLess
  <2>4. k = v.blk /\ v.op # "sync" => NoCopy(buf, c2, rdreq, k)
    <3>1. ASSUME NoCopy(rdbuf, c2, rdreq, k) PROVE NoCopy(buf, c2, rdreq, k)
      BY ONLY <1>2, <1>5, <3>1, WithinSame, NoCopyLess
    <3> QED
      BY <1>6, <3>1
  <2>5. Copies(buf, c2, rdreq, k, rdlast'[k])
    <3>1. CASE k # v.blk \/ v.op # "write"
      BY <1>6, <2>3, <3>1
    <3>2. CASE k = v.blk /\ v.op = "write"
      BY <2>4, <3>2, CopiesNone
    <3> QED
      BY <3>1, <3>2
  <2>6. Copies(buf, c2, Append(rdreq, b), k, rdlast'[k])
    <3>1. /\ buf[b].valid => buf[b].op # "sync"
          /\ buf[b].blk = k /\ buf[b].op # "sync" => NoCopy(buf, c2, rdreq, k)
          /\ buf[b].blk = k /\ buf[b].valid => buf[b].data = rdlast'[k]
      BY <1>2, <1>6, <2>4
    <3> QED
      BY ONLY <1>2, <2>5, <3>1, b \in RdBuffers, CopiesAppended
  <2>7. Alone(call, k)
    <3>1. Using(call, p, k) => Using(rdcall, p, k)
      BY <1>1, <1>6
    <3>2. \A u \in RdUsers : u # p => call[u] = rdcall[u]
      BY <1>1
    <3> QED
      BY ONLY <2>1, <3>1, <3>2, AloneMoves
  <2>8. ASSUME Missed(buf, Append(rdreq, b), call, k) PROVE NoCopy(buf, c2, Append(rdreq, b), k)
    <3>1. Missed(buf, rdreq, call, k) \/ (buf[b].op = "read" /\ buf[b].blk = k)
      BY ONLY <1>2, <2>8, b \in RdBuffers, MissedAppended
    <3>2. ASSUME Missed(buf, rdreq, call, k) PROVE Missed(rdbuf, rdreq, rdcall, k)
      <4>1. call[p].at # "alloc" /\ call[p].at # "got" /\ \A u \in RdUsers : u # p => call[u] = rdcall[u]
        BY <1>1
      <4>2. \/ Missed(rdbuf, rdreq, rdcall, k)
            \/ p \in RdUsers /\ call[p].at = "alloc" /\ call[p].op # "sync" /\ call[p].blk = k
            \/ p \in RdUsers /\ call[p].at = "got" /\ call[p].blk = k
        BY ONLY <1>2, <1>5, <3>2, <4>1, MissedLess
      <4> QED
        BY <4>1, <4>2
    <3>3. CASE k = v.blk /\ v.op # "sync"
      <4>1. NoCopy(buf, c2, rdreq, k) /\ Lone(p, k)
        BY <1>6, <2>4, <3>3
      <4>2. CASE v.op = "read"
        <5>1. ~buf[b].valid
          BY <1>2, <4>2
        <5> QED
          BY ONLY <1>2, <4>1, <5>1, b \in RdBuffers, NoCopyAppended
      <4>3. CASE v.op = "write"
        <5>1. Missed(buf, rdreq, call, k)
          BY <1>2, <3>1, <4>3
        <5>2. ASSUME NEW u \in RdUsers, call[u].at \in {"alloc", "got"}, call[u].blk = k
              PROVE  FALSE
          <6>1. u # p /\ call[u] = rdcall[u]
            BY <1>1, <5>2
          <6> QED
            BY <4>1, <5>2, <6>1 DEF Lone, Using
        <5>3. ASSUME NEW i \in 1 .. Len(rdreq), buf[rdreq[i]].op = "read", buf[rdreq[i]].blk = k
              PROVE  FALSE
          <6>1. rdbuf[rdreq[i]].op = "read" /\ rdbuf[rdreq[i]].blk = k
            BY <1>3, <5>3
          <6> QED
            BY <4>1, <6>1, LoneRequests
        <5> QED
          BY <5>1, <5>2, <5>3 DEF Missed
      <4>4. v.op = "read" \/ v.op = "write"
        BY <3>3
      <4> QED
        BY <4>2, <4>3, <4>4
    <3>4. CASE ~(k = v.blk /\ v.op # "sync")
      <4>1. buf[b].blk = k => ~buf[b].valid
        BY <1>2, <3>4
      <4>2. NoCopy(buf, c2, rdreq, k)
        BY <1>2, <2>1, <2>2, <3>1, <3>2, <3>4
      <4> QED
        BY ONLY <1>2, <4>1, <4>2, b \in RdBuffers, NoCopyAppended
    <3> QED
      BY <3>3, <3>4
  <2> QED
    BY <2>6, <2>7, <2>8 DEF BlockOK
<1>7. Requests(buf, Append(rdreq, b), call)
  <2>1. Requests(rdbuf, rdreq, rdcall)
    BY DEF RdCacheInv
  <2>2. ASSUME NEW i \in 1 .. Len(rdreq), rdbuf[rdreq[i]].op # "write"
        PROVE  call[rdbuf[rdreq[i]].pid].blk = rdcall[rdbuf[rdreq[i]].pid].blk
    <3>1. rdbuf[rdreq[i]].pid \in RdUsers /\ rdbuf[rdreq[i]].pid # p
      BY <2>2, RequestUser
    <3> QED
      BY <1>1, <3>1
  <2>3. Requests(buf, rdreq, call)
    BY ONLY <1>2, <1>5, <2>1, <2>2, RequestsLess
  <2>4. /\ buf[b].op = "write" <=> buf[b].valid
        /\ buf[b].op # "write" => call[buf[b].pid].blk = buf[b].blk
        /\ buf[b].op = "read" => buf[b].blk \in RdBlocks
    BY <1>1, <1>2
  <2> QED
    BY ONLY <1>2, <2>3, <2>4, b \in RdBuffers, RequestsAppended
<1>8. rdshared' = {} => Reading(rdbuf', rdcache', rdcall')
  <2>1. rdshared' = {} => Reading(rdbuf, rdcache, rdcall)
    BY DEF RdCacheInv
  <2>2. Within(rdcache', rdcache) /\ Same(rdbuf, rdbuf', rdcache')
    BY <1>1, <1>5
  <2>3. ASSUME NEW x \in 1 .. Len(rdcache), rdbuf[rdcache[x]].refcnt > 0
        PROVE  \E i \in 1 .. Len(rdcache') : rdcache'[i] = rdcache[x] /\ rdbuf'[rdcache[x]].refcnt > 0
    <3>1. PICK i \in 1 .. Len(c2) : c2[i] = rdcache[x]
      BY <2>3
    <3>2. rdbuf'[rdcache[x]] = rdbuf[rdcache[x]]
      BY <1>1, <1>4, <3>1
    <3> QED
      BY <2>3, <3>1, <3>2
  <2>4. /\ \A u \in RdUsers : u # p => rdcall'[u] = rdcall[u]
        /\ rdcall'[p].at # "got"
        /\ \A u \in RdUsers, x \in 1 .. Len(rdcache) :
             u # p /\ rdcall[u].at = "got" /\ rdcache[x] = rdcall[u].buf /\ rdbuf[rdcache[x]].refcnt > 0 =>
               \E i \in 1 .. Len(rdcache') : rdcache'[i] = rdcache[x] /\ rdbuf'[rdcache[x]].refcnt > 0
    BY <2>3
  <2> QED
    BY ONLY RdListsInv, <2>1, <2>2, <2>4, ReadingLess
<1> QED
  BY <1>1, <1>6, <1>7, <1>8 DEF RdCacheInv

\* A buffer that nobody reads leaves the cache.
LEMMA UnreadRemoved ==
    ASSUME RdListsInv, NEW m \in 1 .. Len(rdcache), rdbuf[rdcache[m]].refcnt <= 0
    PROVE  /\ Within(RemoveAt(rdcache, m), rdcache)
           /\ \A i \in 1 .. Len(RemoveAt(rdcache, m)) :
                \E x \in 1 .. Len(rdcache) : x # m /\ RemoveAt(rdcache, m)[i] = rdcache[x]
           /\ \A x \in 1 .. Len(rdcache) : rdbuf[rdcache[x]].refcnt > 0 =>
                \E i \in 1 .. Len(RemoveAt(rdcache, m)) : RemoveAt(rdcache, m)[i] = rdcache[x]
<1>1. rdcache \in Seq(RdBuffers) /\ Once(rdcache) /\ Len(rdcache) \in Nat
      /\ \A i \in 1 .. Len(rdcache) : rdbuf[rdcache[i]].refcnt \in Int
  <2>1. rdcache \in Seq(RdBuffers) /\ Once(rdcache) /\ Len(rdcache) \in Nat
        /\ rdbuf \in [RdBuffers -> RdBuf] /\ \A i \in 1 .. Len(rdcache) : rdcache[i] \in RdBuffers
    BY RdFacts DEF OnLists, RdTypes
  <2>2. ASSUME NEW i \in 1 .. Len(rdcache) PROVE rdbuf[rdcache[i]].refcnt \in Int
    <3>1. rdbuf[rdcache[i]] \in RdBuf
      BY <2>1
    <3> QED
      BY <3>1 DEF RdBuf
  <2> QED
    BY <2>1, <2>2
<1> DEFINE c == RemoveAt(rdcache, m)
<1>2. Within(c, rdcache) /\ On(c) = On(rdcache) \ {rdcache[m]}
  BY <1>1, WithinRemoved, OnRemoved
<1> HIDE DEF c
<1>3. ASSUME NEW i \in 1 .. Len(c) PROVE \E x \in 1 .. Len(rdcache) : x # m /\ c[i] = rdcache[x]
  <2>1. c[i] \in On(rdcache) \ {rdcache[m]}
    BY <1>2 DEF On
  <2> QED
    BY <2>1 DEF On
<1>4. ASSUME NEW x \in 1 .. Len(rdcache), rdbuf[rdcache[x]].refcnt > 0
      PROVE  \E i \in 1 .. Len(c) : c[i] = rdcache[x]
  <2>1. rdcache[x] # rdcache[m]
    BY <1>1, <1>4
  <2>2. rdcache[x] \in On(c)
    BY <1>2, <2>1 DEF On
  <2> QED
    BY <2>2 DEF On
<1> QED
  BY <1>2, <1>3, <1>4 DEF c

\* Writes.
LEMMA ReuseKeepsCopies ==
    ASSUME RdListsInv, RdCacheInv, NEW p \in RdUsers, NEW k \in RdBlocks, NEW d \in RdContents,
           ReuseCached(p, k, d), QueuedWrite(k) = 0, rdcall[p].at = "idle", Uses(p, k),
           rdlast' = [rdlast EXCEPT ![k] = d], rdstop' # "lists"
    PROVE  RdCacheInv'
<1>1. PICK m : m = Cached(k)
  OBVIOUS
<1>2. m \in 1 .. Len(rdcache) /\ rdbuf[rdcache[m]].refcnt <= 0
  BY <1>1, RdFacts, CachedFirst DEF ReuseCached
<1>3. PICK b, c, v : b = rdcache[m] /\ c = RemoveAt(rdcache, m) /\ v = WriteOf(p, k, d)
  OBVIOUS
<1>4. b \in RdBuffers /\ b \notin On(rdreq)
  BY <1>2, <1>3, RdFacts, ListTypes DEF On
<1>5. /\ rdcache' = c /\ rdbuf' = [rdbuf EXCEPT ![b] = v] /\ rdreq' = Append(rdreq, b)
      /\ UNCHANGED rdcall
  BY <1>1, <1>3 DEF ReuseCached, Enqueue
<1>6. OnLists(rdfree, c, Append(rdreq, b))
  BY <1>2, <1>3, RdFacts, CacheToQueue
<1>7. /\ Within(c, rdcache)
      /\ \A i \in 1 .. Len(c) : \E x \in 1 .. Len(rdcache) : x # m /\ c[i] = rdcache[x]
      /\ \A x \in 1 .. Len(rdcache) : rdbuf[rdcache[x]].refcnt > 0 =>
           \E i \in 1 .. Len(c) : c[i] = rdcache[x]
  BY <1>2, <1>3, UnreadRemoved
<1>8. v.op = "write" /\ v.valid /\ v.blk = k /\ v.data = d
  BY <1>3, WriteType
<1>9. ASSUME NEW j \in RdBlocks, j \notin rdshared', j = k
      PROVE  Lone(p, j) /\ NoCopy(rdbuf, c, rdreq, j)
  <2>1. Lone(p, k) /\ k \notin rdshared
    BY <1>9, UsesLone
  <2>2. \A i \in 1 .. Len(rdreq) : ~Valid(rdbuf, rdreq, i, k)
    BY <2>1, NotReplaced
  <2>3. ASSUME NEW i \in 1 .. Len(c), Valid(rdbuf, c, i, k) PROVE FALSE
    <3>1. PICK x \in 1 .. Len(rdcache) : x # m /\ c[i] = rdcache[x]
      BY <1>7
    <3>2. Valid(rdbuf, rdcache, x, k)
      BY <2>3, <3>1 DEF Valid
    <3> QED
      BY <1>1, <2>1, <3>1, <3>2, CachedCopy
  <2> QED
    BY <1>9, <2>1, <2>2, <2>3 DEF NoCopy
<1>10. rdlast'[k] = d /\ \A j \in RdBlocks : j # k => rdlast'[j] = rdlast[j]
  BY RdFacts DEF RdTypes
<1>11. /\ rdcall[p].at # "recv" /\ rdcall'[p].at \notin {"alloc", "got"}
       /\ \A u \in RdUsers : u # p => rdcall'[u] = rdcall[u]
       /\ \A j \in RdBlocks : Using(rdcall', p, j) => Using(rdcall, p, j)
       /\ rdshared \subseteq rdshared'
  BY <1>5, UsesMore DEF Using
<1>12. /\ \A j \in RdBlocks : j \notin rdshared' /\ (j # v.blk \/ v.op # "write") => rdlast'[j] = rdlast[j]
       /\ \A j \in RdBlocks : j \notin rdshared' /\ j = v.blk /\ v.op # "sync" =>
            /\ Lone(p, j) /\ NoCopy(rdbuf, c, rdreq, j)
            /\ v.op = "write" => v.data = rdlast'[j]
       /\ v.op \in {"read", "write", "sync"} /\ (v.op = "write" <=> v.valid)
       /\ (v.op # "write" => v.pid = p /\ rdcall'[p].blk = v.blk)
       /\ (v.op = "read" => v.blk \in RdBlocks)
  BY <1>8, <1>9, <1>10
<1> QED
  BY <1>4, <1>5, <1>6, <1>7, <1>11, <1>12, QueuedKeepsCopies, ZenonT(40)

\* rdsWrite() changes a write that is queued (rdsWrite.c).
LEMMA ReplaceKeepsCopies ==
    ASSUME RdListsInv, RdCacheInv, NEW p \in RdUsers, NEW k \in RdBlocks, NEW d \in RdContents,
           ReplaceQueued(p, k, d), rdcall[p].at = "idle", Uses(p, k),
           rdlast' = [rdlast EXCEPT ![k] = d], rdstop' # "lists"
    PROVE  RdCacheInv'
<1>1. PICK m : m = QueuedWrite(k)
  OBVIOUS
<1>2. m \in 1 .. Len(rdreq) /\ rdbuf[rdreq[m]].blk = k /\ rdbuf[rdreq[m]].op = "write"
  BY <1>1, RdFacts, QueuedWriteFound DEF ReplaceQueued
<1>3. PICK b : b = rdreq[m]
  OBVIOUS
<1>4. b \in RdBuffers /\ rdbuf[b] \in RdBuf
  BY <1>2, <1>3, RdFacts DEF RdTypes
<1>5. PICK v : v = [rdbuf[b] EXCEPT !.data = d]
  OBVIOUS
<1>6. /\ v.op = rdbuf[b].op /\ v.pid = rdbuf[b].pid /\ v.valid = rdbuf[b].valid /\ v.blk = rdbuf[b].blk
      /\ v.refcnt = rdbuf[b].refcnt /\ v.data = d
  BY <1>4, <1>5 DEF RdBuf
<1>7. UNCHANGED <<rdcall, rdcache, rdreq>>
  BY DEF ReplaceQueued
<1>8. PICK buf : buf = rdbuf'
  OBVIOUS
<1>9. buf[b] = v /\ \A a \in RdBuffers : a # b => buf[a] = rdbuf[a]
  <2>1. rdbuf \in [RdBuffers -> RdBuf]
    BY RdFacts DEF RdTypes
  <2>2. buf = [rdbuf EXCEPT ![b] = v]
    BY <1>1, <1>3, <1>4, <1>5, <1>8, <2>1 DEF ReplaceQueued
  <2> QED
    BY <1>4, <2>1, <2>2
<1>10. rdlast'[k] = d /\ \A j \in RdBlocks : j # k => rdlast'[j] = rdlast[j]
  BY RdFacts DEF RdTypes
<1>11. ASSUME NEW a \in RdBuffers
       PROVE  /\ buf[a].valid = rdbuf[a].valid /\ buf[a].blk = rdbuf[a].blk /\ buf[a].op = rdbuf[a].op
              /\ buf[a].pid = rdbuf[a].pid /\ buf[a].refcnt = rdbuf[a].refcnt
              /\ buf[a].data = IF a = b THEN d ELSE rdbuf[a].data
  BY <1>6, <1>9
<1>12. /\ \A i \in 1 .. Len(rdcache) : rdcache[i] \in RdBuffers
       /\ \A i \in 1 .. Len(rdreq) : rdreq[i] \in RdBuffers
       /\ \A i \in 1 .. Len(rdcache) : rdcache[i] # b
       /\ Requests(rdbuf, rdreq, rdcall)
  <2>1. OnLists(rdfree, rdcache, rdreq)
    BY RdFacts
  <2> QED
    BY <1>2, <1>3, <2>1, ListTypes DEF RdCacheInv
<1>13. ASSUME NEW j \in RdBlocks, j \notin rdshared'
       PROVE  BlockOK(buf, rdcache, rdreq, rdcall, j, rdlast'[j])
  <2>1. j \notin rdshared
    BY <1>13, UsesLone
  <2>2. /\ Alone(rdcall, j) /\ Copies(rdbuf, rdcache, rdreq, j, rdlast[j])
        /\ Missed(rdbuf, rdreq, rdcall, j) => NoCopy(rdbuf, rdcache, rdreq, j)
    BY <2>1, BlockFacts
  <2>3. Missed(buf, rdreq, rdcall, j) => Missed(rdbuf, rdreq, rdcall, j)
    BY <1>11, <1>12 DEF Missed
  <2>4. NoCopy(rdbuf, rdcache, rdreq, j) => NoCopy(buf, rdcache, rdreq, j)
    BY <1>11, <1>12 DEF NoCopy, Valid
  <2>5. ASSUME NEW i \in 1 .. Len(rdcache), Valid(buf, rdcache, i, j)
        PROVE  /\ Valid(rdbuf, rdcache, i, j)
               /\ buf[rdcache[i]].refcnt <= 0 /\ buf[rdcache[i]].data = rdlast'[j]
               /\ \A n \in 1 .. Len(rdcache) : buf[rdcache[n]].blk = j => i <= n
    <3>1. Valid(rdbuf, rdcache, i, j) /\ buf[rdcache[i]].data = rdbuf[rdcache[i]].data
      BY <1>11, <1>12, <2>5 DEF Valid
    <3>2. j # k
      <4> SUFFICES ASSUME j = k PROVE FALSE
        OBVIOUS
      <4>1. Valid(rdbuf, rdreq, m, j)
        BY <1>2, <1>12 DEF Valid, Requests
      <4> QED
        BY <1>2, <2>2, <3>1, <4>1 DEF Copies
    <3>3. rdbuf[rdcache[i]].refcnt <= 0 /\ rdbuf[rdcache[i]].data = rdlast[j]
          /\ \A n \in 1 .. Len(rdcache) : rdbuf[rdcache[n]].blk = j => i <= n
      BY <2>2, <3>1 DEF Copies
    <3> QED
      BY <1>10, <1>11, <1>12, <3>1, <3>2, <3>3
  <2>6. ASSUME NEW i \in 1 .. Len(rdreq), Valid(buf, rdreq, i, j)
        PROVE  /\ Valid(rdbuf, rdreq, i, j) /\ buf[rdreq[i]].data = rdlast'[j]
               /\ \A n \in 1 .. Len(rdreq) : buf[rdreq[n]].blk = j /\ buf[rdreq[n]].op # "sync" => n <= i
    <3>1. Valid(rdbuf, rdreq, i, j)
      BY <1>11, <1>12, <2>6 DEF Valid
    <3>2. rdbuf[rdreq[i]].data = rdlast[j]
          /\ \A n \in 1 .. Len(rdreq) : rdbuf[rdreq[n]].blk = j /\ rdbuf[rdreq[n]].op # "sync" => n <= i
      BY <2>2, <3>1 DEF Copies
    <3>3. CASE j = k
      <4>1. Valid(rdbuf, rdreq, m, j) /\ rdbuf[rdreq[i]].op = "write"
        BY <1>2, <1>12, <3>1, <3>3 DEF Valid, Requests
      <4>2. m <= i /\ i <= m
        BY <1>2, <2>2, <3>1, <3>2, <3>3, <4>1 DEF Copies, Valid
      <4>3. i = m
        BY <1>2, <4>2
      <4> QED
        BY <1>3, <1>10, <1>11, <1>12, <3>1, <3>2, <3>3, <4>3
    <3>4. CASE j # k
      <4>1. rdreq[i] # b
        BY <1>2, <1>3, <3>1, <3>4 DEF Valid
      <4> QED
        BY <1>10, <1>11, <1>12, <3>1, <3>2, <3>4, <4>1
    <3> QED
      BY <3>3, <3>4
  <2>7. \A i \in 1 .. Len(rdcache), n \in 1 .. Len(rdreq) : ~(Valid(buf, rdcache, i, j) /\ Valid(buf, rdreq, n, j))
    BY <2>2, <2>5, <2>6 DEF Copies
  <2>8. Copies(buf, rdcache, rdreq, j, rdlast'[j])
    BY <2>5, <2>6, <2>7 DEF Copies
  <2> QED
    BY <2>2, <2>3, <2>4, <2>8 DEF BlockOK
<1>14. Requests(buf, rdreq, rdcall)
  BY <1>11, <1>12 DEF Requests
<1>15. rdshared' = {} => Reading(buf, rdcache, rdcall)
  <2>1. rdshared' = {} => Reading(rdbuf, rdcache, rdcall)
    BY UsesMore DEF RdCacheInv
  <2>2. \A i \in 1 .. Len(rdcache) : buf[rdcache[i]] = rdbuf[rdcache[i]]
    BY <1>9, <1>12
  <2> QED
    BY <2>1, <2>2 DEF Reading, Told
<1> QED
  BY <1>7, <1>8, <1>13, <1>14, <1>15 DEF RdCacheInv

\* rdsWrite() (rdsWrite.c).
LEMMA WriteKeepsCopies ==
    ASSUME RdListsInv, RdCacheInv, NEW p \in RdUsers, NEW k \in RdBlocks, NEW d \in RdData, RdWrite(p, k, d)
    PROVE  RdCacheInv'
<1>1. d \in RdContents /\ rdcall[p].at = "idle" /\ Uses(p, k) /\ rdstop' # "lists"
  BY DEF RdContents, RdWrite, CanCall
<1>2. rdlast' = IF rdcall' = rdcall THEN [rdlast EXCEPT ![k] = d] ELSE rdlast
  BY DEF RdWrite
<1>3. CASE ReplaceQueued(p, k, d)
  <2>1. rdlast' = [rdlast EXCEPT ![k] = d]
    BY <1>2, <1>3 DEF ReplaceQueued
  <2> QED
    BY <1>1, <1>3, <2>1, ReplaceKeepsCopies
<1>4. CASE QueuedWrite(k) = 0 /\ ReuseCached(p, k, d)
  <2>1. rdlast' = [rdlast EXCEPT ![k] = d]
    BY <1>2, <1>4 DEF ReuseCached
  <2> QED
    BY <1>1, <1>4, <2>1, ReuseKeepsCopies
<1>5. CASE QueuedWrite(k) = 0 /\ NewWrite(p, k, d)
  <2>1. UNCHANGED <<rdlast, rdbuf, rdcache, rdreq>>
    BY <1>1, <1>2, <1>5, NewWriteWaits DEF NewWrite
  <2>2. PICK x : x = [at |-> "alloc", op |-> "write", blk |-> k, data |-> d]
    OBVIOUS
  <2>3. Calls(p, x) /\ x.at = "alloc" /\ x.blk = k
    BY <1>5, <2>2 DEF NewWrite, WaitAvail
  <2>4. rdshared \subseteq rdshared' /\ (k \notin rdshared' => Lone(p, k) /\ k \notin rdshared)
    BY <1>1, UsesMore, UsesLone
  <2>5. k \notin rdshared' => NoCopy(rdbuf, rdcache, rdreq, k)
    BY <1>5, <2>4, NotReplaced DEF NewWrite
  <2> QED
    BY <1>1, <2>1, <2>3, <2>4, <2>5, CallKeepsCopies
<1> QED
  BY <1>3, <1>4, <1>5 DEF RdWrite


\* The buffer b goes to the request of p, and c2 is what is left of the cache.
LEMMA QueueKeepsCopies ==
    ASSUME RdListsInv, RdCacheInv, NEW p \in RdUsers, NEW b \in RdBuffers, NEW f2, NEW c2,
           CanCall(p, "alloc"), Within(c2, rdcache), OnLists(f2, c2, Append(rdreq, b)),
           b \notin On(rdreq), rdcache' = c2, Queue(p, b), UNCHANGED rdshared,
           \A x \in 1 .. Len(rdcache) : rdbuf[rdcache[x]].refcnt > 0 =>
             \E i \in 1 .. Len(c2) : c2[i] = rdcache[x]
    PROVE  RdCacheInv'
<1>1. PICK c \in RdCall : c = rdcall[p]
  BY RdFacts DEF RdTypes
<1>2. /\ c.op \in {"read", "write", "sync"} /\ c.data \in RdContents /\ c.at = "alloc"
      /\ c.op # "sync" => c.blk \in RdBlocks
  BY <1>1, AllocFields DEF CanCall
<1>3. /\ rdreq' = Append(rdreq, b) /\ rdcall[p].at # "recv" /\ rdcall[p].at # "got"
      /\ rdstop' # "lists" /\ rdshared \subseteq rdshared'
  BY <1>1, <1>2 DEF Queue, CanCall
<1>4. PICK y : y = IF c.op = "write" THEN RdIdle ELSE [at |-> "recv", blk |-> c.blk]
  OBVIOUS
<1>5. /\ y.at \notin {"alloc", "got", "loop"} /\ Calls(p, y)
      /\ c.op = "write" => y.at \notin {"alloc", "recv", "got", "loop"}
      /\ c.op # "write" => y.blk = c.blk
  BY <1>1, <1>4 DEF Queue, RdIdle
<1>6. rdcall'[p] = y /\ \A u \in RdUsers : u # p => rdcall'[u] = rdcall[u]
  BY <1>5, CallBecomes
<1>7. ASSUME NEW k \in RdBlocks, k \notin rdshared', k = c.blk, c.op # "sync"
      PROVE  Lone(p, k) /\ NoCopy(rdbuf, c2, rdreq, k)
  <2>1. /\ Alone(rdcall, k)
        /\ Missed(rdbuf, rdreq, rdcall, k) => NoCopy(rdbuf, rdcache, rdreq, k)
    BY <1>7, BlockFacts
  <2>2. Using(rdcall, p, k) /\ Missed(rdbuf, rdreq, rdcall, k)
    BY <1>1, <1>2, <1>7 DEF Using, Missed
  <2>3. Lone(p, k)
    BY <1>3, <2>1, <2>2 DEF Lone, Alone
  <2>4. Within(rdreq, rdreq) /\ Same(rdbuf, rdbuf, c2) /\ Same(rdbuf, rdbuf, rdreq)
    BY WithinSame, SameBuffers
  <2> QED
    BY <2>1, <2>2, <2>3, <2>4, NoCopyLess
<1>8. ASSUME NEW k \in RdBlocks, Using(rdcall', p, k) PROVE Using(rdcall, p, k)
  BY <1>1, <1>2, <1>5, <1>6, <1>8 DEF Using
<1>9. PICK v : v = IF c.op = "write" THEN WriteOf(p, c.blk, c.data)
                   ELSE [op |-> c.op, refcnt |-> 1, blk |-> c.blk, valid |-> FALSE, pid |-> p, data |-> "0"]
  OBVIOUS
<1>10. rdbuf' = [rdbuf EXCEPT ![b] = v]
  BY <1>1, <1>9 DEF Queue
<1>11. v.op = c.op /\ v.blk = c.blk /\ v.pid = p /\ (v.valid <=> c.op = "write")
       /\ (c.op = "write" => v.data = c.data)
  <2>1. CASE c.op = "write"
    BY <1>9, <2>1 DEF WriteOf
  <2>2. CASE c.op # "write"
    BY <1>9, <2>2
  <2> QED
    BY <2>1, <2>2
<1>12. ASSUME NEW k \in RdBlocks, k # v.blk \/ v.op # "write" PROVE rdlast'[k] = rdlast[k]
  <2>1. rdlast' = IF c.op = "write" THEN [rdlast EXCEPT ![c.blk] = c.data] ELSE rdlast
    BY <1>1 DEF Queue
  <2>2. rdlast \in [RdBlocks -> RdContents]
    BY RdFacts DEF RdTypes
  <2> QED
    BY <1>11, <1>12, <2>1, <2>2
<1>13. ASSUME NEW k \in RdBlocks, k = v.blk, v.op = "write" PROVE rdlast'[k] = v.data
  <2>1. rdlast' = [rdlast EXCEPT ![k] = v.data]
    BY <1>1, <1>11, <1>13 DEF Queue
  <2>2. rdlast \in [RdBlocks -> RdContents]
    BY RdFacts DEF RdTypes
  <2> QED
    BY <2>1, <2>2
<1>14. ASSUME NEW k \in RdBlocks, k \notin rdshared', k = v.blk, v.op # "sync"
       PROVE  Lone(p, k) /\ NoCopy(rdbuf, c2, rdreq, k) /\ (v.op = "write" => v.data = rdlast'[k])
  BY <1>7, <1>11, <1>13, <1>14
<1>15. v.op # "write" => v.pid = p /\ rdcall'[p].blk = v.blk
  BY <1>5, <1>6, <1>11
<1>16. v.op \in {"read", "write", "sync"} /\ (v.op = "write" <=> v.valid)
       /\ (v.op = "read" => v.blk \in RdBlocks) /\ rdcall'[p].at \notin {"alloc", "got"}
  BY <1>2, <1>5, <1>6, <1>11
<1>17. /\ \A u \in RdUsers : u # p => rdcall'[u] = rdcall[u]
       /\ \A k \in RdBlocks : k \notin rdshared' /\ Using(rdcall', p, k) => Using(rdcall, p, k)
       /\ \A k \in RdBlocks : k \notin rdshared' /\ (k # v.blk \/ v.op # "write") => rdlast'[k] = rdlast[k]
       /\ \A k \in RdBlocks : k \notin rdshared' /\ k = v.blk /\ v.op # "sync" =>
            /\ Lone(p, k) /\ NoCopy(rdbuf, c2, rdreq, k)
            /\ v.op = "write" => v.data = rdlast'[k]
  BY <1>6, <1>8, <1>12, <1>14
<1>18. /\ Within(c2, rdcache) /\ OnLists(f2, c2, Append(rdreq, b)) /\ b \notin On(rdreq) /\ rdcache' = c2
       /\ \A x \in 1 .. Len(rdcache) : rdbuf[rdcache[x]].refcnt > 0 =>
            \E i \in 1 .. Len(c2) : c2[i] = rdcache[x]
  OBVIOUS
<1> QED
  BY ONLY RdListsInv, RdCacheInv, p \in RdUsers, b \in RdBuffers, <1>3, <1>10, <1>15, <1>16, <1>17, <1>18,
     QueuedKeepsCopies

\* rdsbufalloc() (rdsbufalloc.c).
LEMMA AllocKeepsCopies ==
    ASSUME RdListsInv, RdCacheInv, NEW p \in RdUsers, RdAlloc(p)
    PROVE  RdCacheInv'
<1>1. CanCall(p, "alloc") /\ rdcache \in Seq(RdBuffers) /\ UNCHANGED rdshared
  BY RdFacts DEF RdAlloc
<1>2. CASE rdfree # <<>> /\ rdfree' = Tail(rdfree) /\ UNCHANGED rdcache /\ Queue(p, Head(rdfree))
  <2>1. PICK b : b = Head(rdfree)
    OBVIOUS
  <2>2. Len(rdfree) > 0
    BY <1>2, RdFacts, EmptySeq
  <2>3. b \in RdBuffers /\ b \notin On(rdreq) /\ OnLists(Tail(rdfree), rdcache, Append(rdreq, b))
    BY <2>1, <2>2, RdFacts, FreeToQueue
  <2>4. Within(rdcache, rdcache) /\ rdcache' = rdcache /\ Queue(p, b)
    BY <1>2, <2>1, WithinSame
  <2>5. \A x \in 1 .. Len(rdcache) : rdbuf[rdcache[x]].refcnt > 0 =>
          \E i \in 1 .. Len(rdcache) : rdcache[i] = rdcache[x]
    OBVIOUS
  <2> QED
    BY <1>1, <2>3, <2>4, <2>5, QueueKeepsCopies
<1>3. CASE /\ rdfree = <<>> /\ Unread # {} /\ rdcache' = RemoveAt(rdcache, Max(Unread)) /\ UNCHANGED rdfree
           /\ Queue(p, rdcache[Max(Unread)])
  <2>1. PICK m : m = Max(Unread)
    OBVIOUS
  <2>2. m \in 1 .. Len(rdcache) /\ m \in Unread
    <3>1. m \in 1 .. Len(rdcache)
      BY <1>3, <2>1, RdFacts, UnreadLast
    <3>2. Unread \in SUBSET (1 .. Len(rdcache)) /\ Len(rdcache) \in Nat
      BY RdFacts DEF Unread
    <3>3. m \in Unread
      BY <1>3, <2>1, <3>2, FirstAndLast
    <3> QED
      BY <3>1, <3>3
  <2>3. PICK b : b = rdcache[m]
    OBVIOUS
  <2>4. b \in RdBuffers /\ b \notin On(rdreq)
    BY <2>2, <2>3, RdFacts, ListTypes DEF On
  <2>5. PICK c : c = RemoveAt(rdcache, m)
    OBVIOUS
  <2>6. OnLists(rdfree, c, Append(rdreq, b))
    BY <2>2, <2>3, <2>5, RdFacts, CacheToQueue
  <2>7. rdbuf[rdcache[m]].refcnt <= 0
    BY <2>2 DEF Unread
  <2>8. Within(c, rdcache) /\ \A x \in 1 .. Len(rdcache) : rdbuf[rdcache[x]].refcnt > 0 =>
          \E i \in 1 .. Len(c) : c[i] = rdcache[x]
    BY <2>2, <2>5, <2>7, UnreadRemoved
  <2>9. rdcache' = c /\ Queue(p, b)
    BY <1>3, <2>1, <2>3, <2>5
  <2> QED
    BY <1>1, <2>4, <2>6, <2>8, <2>9, QueueKeepsCopies
<1>4. CASE UNCHANGED <<rdbuf, rdfree, rdcache, rdreq, rdreqsem, rdcall, rdlast>> /\ rdstop' = "panic"
  <2>1. /\ rdshared \subseteq rdshared' /\ rdstop' # "lists"
        /\ UNCHANGED <<rdbuf, rdcache, rdreq, rdlast>> /\ UNCHANGED rdcall
    BY <1>1, <1>4
  <2> QED
    BY <2>1, CallKeepsCopies
<1> QED
  BY <1>2, <1>3, <1>4 DEF RdAlloc

\* The only one that is told of a block that is not shared finds its buffer first.
LEMMA ToldFirst ==
    ASSUME RdListsInv, NEW p \in RdUsers, Told(rdbuf, rdcache, rdcall, p)
    PROVE  /\ rdcache # <<>>
           /\ Cached(rdcall[p].blk) = 1 => Head(rdcache) = rdcall[p].buf
<1>1. PICK i \in 1 .. Len(rdcache) :
         /\ rdcache[i] = rdcall[p].buf /\ rdbuf[rdcache[i]].blk = rdcall[p].blk
         /\ \A j \in 1 .. Len(rdcache) : rdbuf[rdcache[j]].blk = rdcall[p].blk => i <= j
  BY DEF Told
<1>2. Len(rdcache) \in Nat /\ rdcache \in Seq(RdBuffers)
  BY RdFacts
<1>3. Len(rdcache) > 0
  BY <1>1, <1>2
<1>4. rdcache # <<>> /\ Head(rdcache) = rdcache[1]
  BY <1>2, <1>3, EmptySeq, Dropped
<1>5. ASSUME Cached(rdcall[p].blk) = 1 PROVE Head(rdcache) = rdcall[p].buf
  <2>1. PICK k : k = rdcall[p].blk
    OBVIOUS
  <2>2. PICK c : c = Cached(k)
    OBVIOUS
  <2>3. c # 0 => rdbuf[rdcache[c]].blk = k
    BY <1>2, <2>2, CachedFirst
  <2>4. c = 1 /\ 1 \in 1 .. Len(rdcache)
    BY <1>2, <1>3, <1>5, <2>1, <2>2
  <2>5. i <= 1
    BY <1>1, <2>1, <2>3, <2>4
  <2>6. i = 1
    BY <1>2, <2>5
  <2> QED
    BY <1>1, <1>4, <2>6
<1> QED
  BY <1>4, <1>5

\* rdsRead() after receive() (rdsRead.c).
LEMMA ReceivedKeepsCopies ==
    ASSUME RdListsInv, RdCacheInv, NEW p \in RdUsers, RdReceived(p)
    PROVE  RdCacheInv'
<1>1. /\ rdcall[p].at = "got" /\ UNCHANGED <<rdcache, rdreq, rdlast, rdshared>> /\ rdstop = "no"
  BY DEF RdReceived, CanCall
<1>2. rdbuf \in [RdBuffers -> RdBuf] /\ rdcall \in [RdUsers -> RdCall]
  BY RdFacts DEF RdTypes
<1>3. PICK b : b = rdcall[p].buf
  OBVIOUS
<1>4. b \in RdBuffers
  BY <1>1, <1>2, <1>3 DEF RdCall
<1>5. PICK v : v = [rdbuf[b] EXCEPT !.refcnt = @ - 1]
  OBVIOUS
<1>6. PICK buf : buf = rdbuf'
  OBVIOUS
<1>7. rdbuf[b] \in RdBuf /\ buf = [rdbuf EXCEPT ![b] = v]
  BY <1>2, <1>3, <1>4, <1>5, <1>6 DEF RdReceived
<1>8. /\ v.op = rdbuf[b].op /\ v.pid = rdbuf[b].pid /\ v.valid = rdbuf[b].valid
      /\ v.blk = rdbuf[b].blk /\ v.data = rdbuf[b].data
      /\ rdbuf[b].refcnt <= 0 => v.refcnt <= 0
  BY <1>5, <1>7 DEF RdBuf
<1>9. ASSUME NEW a \in RdBuffers
      PROVE  /\ buf[a].op = rdbuf[a].op /\ buf[a].pid = rdbuf[a].pid /\ buf[a].valid = rdbuf[a].valid
             /\ buf[a].blk = rdbuf[a].blk /\ buf[a].data = rdbuf[a].data
             /\ rdbuf[a].refcnt <= 0 => buf[a].refcnt <= 0
             /\ a # b => buf[a] = rdbuf[a]
  BY <1>2, <1>4, <1>7, <1>8
<1>10. Same(rdbuf, rdbuf', rdcache') /\ Same(rdbuf, rdbuf', rdreq')
  <2>1. /\ \A i \in 1 .. Len(rdcache) : rdcache[i] \in RdBuffers
        /\ \A i \in 1 .. Len(rdreq) : rdreq[i] \in RdBuffers
    BY RdFacts
  <2> QED
    BY <1>1, <1>6, <1>9, <2>1 DEF Same
<1>11. Within(rdcache', rdcache) /\ Within(rdreq', rdreq)
  BY <1>1, WithinSame
<1>12. PICK x : /\ Calls(p, x) /\ x.at \notin {"got", "alloc"}
                /\ x.at = "loop" => x.blk = rdcall[p].blk
                /\ x.at \in {"loop", "idle"}
  <2>1. PICK y : y = [at |-> "loop", blk |-> rdcall[p].blk]
    OBVIOUS
  <2>2. y.at = "loop" /\ y.blk = rdcall[p].blk /\ RdIdle.at = "idle"
    BY <2>1 DEF RdIdle
  <2>3. Calls(p, y) \/ Calls(p, RdIdle)
    BY <2>1 DEF RdReceived
  <2> QED
    BY <2>2, <2>3
<1>13. rdcall'[p] = x /\ \A u \in RdUsers : u # p => rdcall'[u] = rdcall[u]
  BY <1>12, CallBecomes
<1>14. \A k \in RdBlocks : Using(rdcall', p, k) => Using(rdcall, p, k)
  BY <1>1, <1>12, <1>13 DEF Using
<1>15. ASSUME NEW i \in 1 .. Len(rdreq'), rdbuf[rdreq'[i]].op # "write"
       PROVE  rdcall'[rdbuf[rdreq'[i]].pid].blk = rdcall[rdbuf[rdreq'[i]].pid].blk
  <2>1. i \in 1 .. Len(rdreq) /\ rdbuf[rdreq[i]].op # "write" /\ rdreq' = rdreq
    BY <1>1, <1>15
  <2>2. rdbuf[rdreq[i]].pid \in RdUsers /\ rdcall[rdbuf[rdreq[i]].pid].at = "recv"
    BY <2>1, RequestUser
  <2>3. rdbuf[rdreq[i]].pid # p
    BY <1>1, <2>2
  <2> QED
    BY <1>13, <2>1, <2>2, <2>3
<1>16. ASSUME rdshared' = {} PROVE Told(rdbuf, rdcache, rdcall, p) /\ Reading(rdbuf, rdcache, rdcall)
  BY <1>1, <1>16 DEF RdCacheInv, Reading
<1>17. rdshared' = {} => rdstop' # "lists"
  <2> SUFFICES ASSUME rdshared' = {} PROVE rdstop' # "lists"
    OBVIOUS
  <2>1. rdcache # <<>> /\ (Cached(rdcall[p].blk) = 1 => Head(rdcache) = b)
    BY <1>3, <1>16, ToldFirst
  <2> QED
    BY <1>1, <1>3, <2>1 DEF RdReceived
<1>18. ASSUME rdshared' = {}, NEW u \in RdUsers, NEW n \in 1 .. Len(rdcache), u # p,
             rdcall[u].at = "got", rdcache[n] = rdcall[u].buf, rdbuf[rdcache[n]].refcnt > 0
       PROVE  \E i \in 1 .. Len(rdcache') : rdcache'[i] = rdcache[n] /\ rdbuf'[rdcache[n]].refcnt > 0
  <2>1. Told(rdbuf, rdcache, rdcall, p) /\ Told(rdbuf, rdcache, rdcall, u)
    BY <1>16, <1>18 DEF Reading
  <2>2. rdbuf[rdcall[u].buf].blk = rdcall[u].blk /\ rdbuf[b].blk = rdcall[p].blk /\ rdcall[p].blk \in RdBlocks
    BY <1>3, <2>1 DEF Told
  <2>3. rdcall[u].blk # rdcall[p].blk
    <3> SUFFICES ASSUME rdcall[u].blk = rdcall[p].blk PROVE FALSE
      OBVIOUS
    <3>1. PICK k \in RdBlocks : k = rdcall[p].blk
      BY <2>2
    <3>2. Alone(rdcall, k)
      BY <1>1, <1>18, BlockFacts
    <3> QED
      BY <1>1, <1>18, <3>1, <3>2 DEF Alone, Using
  <2>4. rdcache[n] # b /\ rdcache[n] \in RdBuffers
    BY <1>18, <2>2, <2>3, RdFacts
  <2>5. rdbuf'[rdcache[n]] = rdbuf[rdcache[n]] /\ rdcache' = rdcache
    BY <1>1, <1>6, <1>9, <2>4
  <2> QED
    BY <1>18, <2>5
<1>19. rdcall'[p].at # "got" /\ rdcall'[p].at # "alloc" /\ UNCHANGED rdlast /\ rdshared \subseteq rdshared'
  BY <1>1, <1>12, <1>13
<1> QED
  BY <1>10, <1>11, <1>13, <1>14, <1>15, <1>17, <1>18, <1>19, LessKeepsCopies

\* rdsClose() leaves no buffers in the lists.
LEMMA EmptiedKeepsCopies ==
    ASSUME RdListsInv, RdCacheInv, NEW p, Emptied, rdreq = <<>>, UNCHANGED <<rdreq, rdlast, rdstop>>,
           \A u \in RdUsers : u # p => rdcall'[u] = rdcall[u],
           p \in RdUsers => rdcall'[p].at = "idle"
    PROVE  RdCacheInv'
<1>1. PICK c : c = <<>>
  OBVIOUS
<1>2. rdcache' = c /\ rdreq' = c /\ Len(c) = 0 /\ rdshared \subseteq rdshared'
  BY <1>1 DEF Emptied
<1>3. ASSUME NEW k \in RdBlocks, k \notin rdshared'
      PROVE  BlockOK(rdbuf', c, c, rdcall', k, rdlast'[k])
  <2>1. Copies(rdbuf', c, c, k, rdlast'[k]) /\ NoCopy(rdbuf', c, c, k)
    BY <1>2 DEF Copies, NoCopy
  <2>2. Alone(rdcall, k)
    BY <1>2, <1>3, BlockFacts
  <2>3. p \in RdUsers => ~Using(rdcall', p, k)
    BY DEF Using
  <2>4. Alone(rdcall', k)
    <3>1. \A u \in RdUsers : u # p => rdcall'[u] = rdcall[u]
      OBVIOUS
    <3>2. p \in RdUsers /\ Using(rdcall', p, k) =>
            Using(rdcall, p, k) \/ \A u \in RdUsers : u # p => ~Using(rdcall, u, k)
      BY <2>3
    <3> QED
      BY ONLY <2>2, <3>1, <3>2, AloneMoves
  <2> QED
    BY <2>1, <2>4 DEF BlockOK
<1>4. Requests(rdbuf', c, rdcall')
  BY <1>2 DEF Requests
<1>5. ASSUME rdshared' = {} PROVE rdstop' # "lists" /\ Reading(rdbuf', c, rdcall')
  <2>1. rdshared = {} /\ rdstop # "lists"
    BY <1>2, <1>5 DEF RdCacheInv
  <2>2. ASSUME NEW u \in RdUsers, rdcall'[u].at = "got" PROVE FALSE
    <3>1. rdcall[u].at = "got"
      BY <2>2
    <3>2. rdcall[u].blk \in rdshared'
      BY <3>1 DEF Emptied
    <3> QED
      BY <1>5, <3>2
  <2> QED
    BY <2>1, <2>2 DEF Reading
<1> QED
  BY <1>2, <1>3, <1>4, <1>5 DEF RdCacheInv

\* The buffer b of the first request, changed to v, goes into the cache: of a read, for which p
\* is told of it, or of a write.
LEMMA CachedKeepsCopies ==
    ASSUME RdListsInv, RdCacheInv, NEW p, NEW b, NEW v, rdreq # <<>>, b = Head(rdreq),
           rdcache' = <<b>> \o rdcache, rdreq' = Tail(rdreq), rdbuf' = [rdbuf EXCEPT ![b] = v],
           v.op = rdbuf[b].op, v.blk = rdbuf[b].blk, v.valid = rdbuf[b].valid,
           v.valid => v.data = rdbuf[b].data /\ v.refcnt <= 0,
           UNCHANGED <<rdlast, rdshared>>,
           \A u \in RdUsers : u # p => rdcall'[u] = rdcall[u],
           \/ v.op = "write" /\ p \notin RdUsers
           \/ /\ v.op = "read" /\ v.refcnt > 0 /\ p = rdbuf[b].pid
              /\ rdcall'[p].at = "got" /\ rdcall'[p].buf = b /\ rdcall'[p].blk = rdcall[p].blk,
           rdshared = {} => rdstop' # "lists"
    PROVE  RdCacheInv'
<1>1. PICK buf, call, q : buf = rdbuf' /\ call = rdcall' /\ q = Tail(rdreq)
  OBVIOUS
<1>2. /\ b \in RdBuffers /\ b = rdreq[1] /\ Len(rdreq) > 0 /\ 1 \in 1 .. Len(rdreq)
      /\ rdreq \in Seq(RdBuffers) /\ rdcache \in Seq(RdBuffers) /\ rdbuf \in [RdBuffers -> RdBuf]
  BY RdFacts, FirstRequest DEF RdTypes
<1>3. buf[b] = v /\ \A a \in RdBuffers : a # b => buf[a] = rdbuf[a]
  BY <1>1, <1>2
<1>4. \A i \in 1 .. Len(rdcache) : buf[rdcache[i]] = rdbuf[rdcache[i]]
  <2>1. OnLists(rdfree, rdcache, rdreq)
    BY RdFacts
  <2>2. \A i \in 1 .. Len(rdcache) : rdcache[i] \in RdBuffers /\ rdcache[i] # b
    BY <1>2, <2>1, ListTypes
  <2> QED
    BY <1>3, <2>2
<1>5. /\ Len(q) = Len(rdreq) - 1 /\ q \in Seq(RdBuffers) /\ Len(rdreq) \in Nat
      /\ \A i \in 1 .. Len(rdreq) - 1 : q[i] = rdreq[i + 1]
  BY <1>1, <1>2, RdFacts, Dropped
<1>6. \A i \in 1 .. Len(q) : i + 1 \in 1 .. Len(rdreq) /\ i + 1 # 1 /\ q[i] = rdreq[i + 1]
  BY <1>5
<1>7. \A i \in 1 .. Len(q) : buf[q[i]] = rdbuf[q[i]]
  <2>1. Once(rdreq)
    BY RdFacts DEF OnLists
  <2>2. ASSUME NEW i \in 1 .. Len(q) PROVE q[i] \in RdBuffers /\ q[i] # b
    <3>1. PICK n \in 1 .. Len(rdreq) : n # 1 /\ q[i] = rdreq[n]
      BY <1>6
    <3> QED
      BY <1>2, <2>1, <3>1, RdFacts DEF Once
  <2> QED
    BY <1>3, <2>2
<1>8. Within(q, rdreq) /\ Within(rdcache, rdcache) /\ Same(rdbuf, buf, rdcache) /\ Same(rdbuf, buf, q)
  <2>1. Within(q, rdreq)
    BY ONLY <1>1, <1>2, WithinTail
  <2>2. Same(rdbuf, buf, rdcache)
    BY ONLY <1>4, SameBuffers
  <2>3. Same(rdbuf, buf, q)
    BY ONLY <1>7, SameBuffers
  <2> QED
    BY ONLY <2>1, <2>2, <2>3, WithinSame
<1>9. Requests(rdbuf, rdreq, rdcall)
  BY DEF RdCacheInv
<1>10. v.valid <=> v.op = "write"
  BY <1>2, <1>9 DEF Requests
<1>11. ASSUME v.op # "write"
       PROVE  /\ v.op = "read" /\ v.refcnt > 0 /\ p = rdbuf[b].pid /\ p \in RdUsers
              /\ call[p].at = "got" /\ call[p].buf = b /\ call[p].blk = v.blk /\ rdcall[p].blk = v.blk
              /\ v.blk \in RdBlocks /\ rdcall[p].at = "recv"
  <2>1. rdbuf[b].pid \in RdUsers /\ rdcall[rdbuf[b].pid].at = "recv"
    BY <1>11, FirstRequest
  <2>2. rdcall[rdbuf[b].pid].blk = rdbuf[b].blk /\ (rdbuf[b].op = "read" => rdbuf[b].blk \in RdBlocks)
    BY <1>2, <1>9, <1>11 DEF Requests
  <2> QED
    BY <1>1, <1>11, <2>1, <2>2
<1>12. ASSUME NEW k \in RdBlocks, k \notin rdshared, k = v.blk
       PROVE  NoCopy(rdbuf, rdcache, q, k) /\ (v.op = "write" => ~Missed(rdbuf, rdreq, rdcall, k))
  <2>1. /\ Copies(rdbuf, rdcache, rdreq, k, rdlast[k])
        /\ Missed(rdbuf, rdreq, rdcall, k) => NoCopy(rdbuf, rdcache, rdreq, k)
    BY <1>12, BlockFacts
  <2>2. CASE v.op = "write"
    <3>1. Valid(rdbuf, rdreq, 1, k)
      BY <1>2, <1>10, <1>12, <2>2 DEF Valid
    <3>2. \A i \in 1 .. Len(rdcache) : ~Valid(rdbuf, rdcache, i, k)
      BY <1>2, <2>1, <3>1 DEF Copies
    <3>3. ASSUME NEW i \in 1 .. Len(q), Valid(rdbuf, q, i, k) PROVE FALSE
      <4>1. PICK n \in 1 .. Len(rdreq) : n # 1 /\ q[i] = rdreq[n]
        BY <1>6
      <4>2. rdbuf[rdreq[n]].op = "write" /\ rdbuf[rdreq[n]].blk = k
        BY <1>9, <3>3, <4>1 DEF Valid, Requests
      <4>3. n <= 1
        BY <1>2, <2>1, <3>1, <4>2 DEF Copies
      <4> QED
        BY <1>5, <4>1, <4>3
    <3>4. ~Missed(rdbuf, rdreq, rdcall, k)
      BY <1>2, <2>1, <3>1 DEF NoCopy
    <3> QED
      BY <3>2, <3>3, <3>4 DEF NoCopy
  <2>3. CASE v.op # "write"
    <3>1. Missed(rdbuf, rdreq, rdcall, k)
      BY <1>2, <1>11, <1>12, <2>3 DEF Missed
    <3>2. Same(rdbuf, rdbuf, rdcache) /\ Same(rdbuf, rdbuf, q)
      BY SameBuffers
    <3> QED
      BY <1>8, <2>1, <2>3, <3>1, <3>2, NoCopyLess
  <2> QED
    BY <2>2, <2>3
<1>13. ASSUME NEW k \in RdBlocks, k \notin rdshared
       PROVE  BlockOK(buf, <<b>> \o rdcache, q, call, k, rdlast[k])
  <2>1. /\ Alone(rdcall, k) /\ Copies(rdbuf, rdcache, rdreq, k, rdlast[k])
        /\ Missed(rdbuf, rdreq, rdcall, k) => NoCopy(rdbuf, rdcache, rdreq, k)
    BY <1>13, BlockFacts
  <2>2. Copies(buf, rdcache, q, k, rdlast[k])
    BY ONLY <1>8, <2>1, CopiesLess
  <2>3. buf[b].blk = k => NoCopy(buf, rdcache, q, k)
    <3>1. ASSUME NoCopy(rdbuf, rdcache, q, k) PROVE NoCopy(buf, rdcache, q, k)
      BY ONLY <1>8, <3>1, WithinSame, NoCopyLess
    <3> QED
      BY <1>3, <1>12, <1>13, <3>1
  <2>4. ASSUME buf[b].blk = k, buf[b].valid PROVE buf[b].data = rdlast[k] /\ buf[b].refcnt <= 0
    <3>1. Valid(rdbuf, rdreq, 1, k) /\ buf[b].data = rdbuf[rdreq[1]].data /\ buf[b].refcnt <= 0
      BY <1>2, <1>3, <2>4 DEF Valid
    <3> QED
      BY <1>2, <2>1, <3>1 DEF Copies
  <2>5. Copies(buf, <<b>> \o rdcache, q, k, rdlast[k])
    BY ONLY <1>2, <2>2, <2>3, <2>4, CopiesPushed
  <2>6. Alone(call, k)
    <3>1. p \in RdUsers /\ Using(call, p, k) => Using(rdcall, p, k)
      BY <1>11 DEF Using
    <3>2. \A u \in RdUsers : u # p => call[u] = rdcall[u]
      BY <1>1
    <3> QED
      BY ONLY <2>1, <3>1, <3>2, AloneMoves
  <2>7. ASSUME Missed(buf, q, call, k) PROVE NoCopy(buf, <<b>> \o rdcache, q, k)
    <3>1. \/ Missed(rdbuf, rdreq, rdcall, k)
          \/ p \in RdUsers /\ call[p].at = "alloc" /\ call[p].op # "sync" /\ call[p].blk = k
          \/ p \in RdUsers /\ call[p].at = "got" /\ call[p].blk = k
      <4>1. \A u \in RdUsers : u # p => call[u] = rdcall[u]
        BY <1>1
      <4> QED
        BY ONLY <1>8, <2>7, <4>1, MissedLess
    <3>2. p \in RdUsers => call[p].at = "got" /\ call[p].blk = v.blk /\ v.op = "read"
      BY <1>11
    <3>3. NoCopy(buf, rdcache, q, k)
      <4>1. CASE k = v.blk
        BY <1>3, <2>3, <4>1
      <4>2. CASE k # v.blk
        <5>1. NoCopy(rdbuf, rdcache, rdreq, k)
          BY <2>1, <3>1, <3>2, <4>2
        <5> QED
          BY ONLY <1>8, <5>1, NoCopyLess
      <4> QED
        BY <4>1, <4>2
    <3>4. buf[b].blk = k => ~buf[b].valid
      <4> SUFFICES ASSUME buf[b].blk = k, buf[b].valid PROVE FALSE
        OBVIOUS
      <4>1. v.op = "write" /\ k = v.blk
        BY <1>3, <1>10
      <4>2. ~Missed(rdbuf, rdreq, rdcall, k)
        BY <1>12, <1>13, <4>1
      <4> QED
        BY <3>1, <3>2, <4>1, <4>2
    <3> QED
      BY ONLY <1>2, <3>3, <3>4, NoCopyPushed
  <2> QED
    BY <2>5, <2>6, <2>7 DEF BlockOK
<1>14. Requests(buf, q, call)
  <2>1. ASSUME NEW i \in 1 .. Len(q), rdbuf[q[i]].op # "write"
        PROVE  call[rdbuf[q[i]].pid].blk = rdcall[rdbuf[q[i]].pid].blk
    <3>1. PICK n \in 1 .. Len(rdreq) : q[i] = rdreq[n]
      BY <1>6
    <3>2. PICK u \in RdUsers : u = rdbuf[q[i]].pid
      BY <2>1, <3>1, RequestUser
    <3>3. CASE u = p
      BY <1>1, <1>11, <3>2, <3>3
    <3>4. CASE u # p
      BY <1>1, <3>2, <3>4
    <3> QED
      BY <3>3, <3>4
  <2> QED
    BY ONLY <1>8, <1>9, <2>1, RequestsLess
<1>15. ASSUME rdshared = {} PROVE Reading(buf, <<b>> \o rdcache, call)
  <2>1. Reading(rdbuf, rdcache, rdcall)
    BY <1>15 DEF RdCacheInv
  <2>2. ASSUME NEW u \in RdUsers, u # p, call[u].at = "got" PROVE Told(buf, <<b>> \o rdcache, call, u)
    <3>1. call[u] = rdcall[u] /\ Told(rdbuf, rdcache, rdcall, u)
      BY <1>1, <2>1, <2>2 DEF Reading
    <3>2. PICK k \in RdBlocks : k = rdcall[u].blk
      BY <3>1 DEF Told
    <3>3. Alone(rdcall, k)
      BY <1>15, BlockFacts
    <3>4. Missed(rdbuf, rdreq, rdcall, k) /\ Using(rdcall, u, k)
      BY <2>2, <3>1, <3>2 DEF Missed, Using
    <3>5. v.blk # k
      <4> SUFFICES ASSUME v.blk = k PROVE FALSE
        OBVIOUS
      <4>1. CASE v.op = "write"
        BY <1>12, <1>15, <3>4, <4>1
      <4>2. CASE v.op # "write"
        BY <1>11, <2>2, <3>3, <3>4, <4>2 DEF Alone, Using
      <4> QED
        BY <4>1, <4>2
    <3>6. Told(rdbuf, rdcache, rdcall, u) /\ call[u] = rdcall[u] /\ buf[b].blk # rdcall[u].blk
      BY <1>3, <3>1, <3>2, <3>5
    <3> QED
      BY ONLY <1>2, <1>4, <3>6, ToldPushed
  <2>3. ASSUME p \in RdUsers, call[p].at = "got" PROVE Told(buf, <<b>> \o rdcache, call, p)
    <3>1. v.op = "read" /\ v.refcnt > 0 /\ call[p].buf = b /\ call[p].blk = v.blk /\ v.blk \in RdBlocks
      BY <1>11, <2>3
    <3>2. PICK c : c = <<b>> \o rdcache
      OBVIOUS
    <3>3. 1 \in 1 .. Len(c) /\ c[1] = b /\ \A j \in 1 .. Len(c) : 1 <= j
      BY <1>2, <3>2, Pushed, RdFacts
    <3> QED
      BY <1>3, <3>1, <3>2, <3>3 DEF Told
  <2> QED
    BY <2>2, <2>3 DEF Reading
<1> QED
  BY <1>1, <1>13, <1>14, <1>15 DEF RdCacheInv

\* Another request than the first is not of the same process.
LEMMA OtherRequests ==
    ASSUME RdListsInv, rdreq # <<>>, NEW b, b = Head(rdreq), rdbuf[b].op # "write",
           NEW i \in 1 .. Len(rdreq), i # 1, rdbuf[rdreq[i]].op # "write"
    PROVE  rdbuf[rdreq[i]].pid # rdbuf[b].pid
<1>1. b = rdreq[1] /\ 1 \in 1 .. Len(rdreq)
  BY FirstRequest
<1>2. Asked(rdbuf, rdreq, rdcall)
  BY RdFacts
<1> QED
  BY <1>1, <1>2 DEF Asked

\* rdsprocess takes a write (rdsprocess.c).
LEMMA TakeWriteKeepsCopies ==
    ASSUME RdListsInv, RdCacheInv, NEW b, TakeWrite(b), rdreq # <<>>, b = Head(rdreq),
           rdbuf[b].op = "write", UNCHANGED <<rdlast, rdshared, rdstop>>
    PROVE  RdCacheInv'
<1>1. /\ b \in RdBuffers /\ b = rdreq[1] /\ 1 \in 1 .. Len(rdreq) /\ rdbuf[b] \in RdBuf
  BY FirstRequest
<1>2. PICK v : v = [rdbuf[b] EXCEPT !.refcnt = 0]
  OBVIOUS
<1>3. /\ v.op = rdbuf[b].op /\ v.valid = rdbuf[b].valid /\ v.blk = rdbuf[b].blk
      /\ v.data = rdbuf[b].data /\ v.refcnt = 0
  BY <1>1, <1>2 DEF RdBuf
<1>4. rdbuf' = [rdbuf EXCEPT ![b] = v]
  <2>1. rdbuf \in [RdBuffers -> RdBuf]
    BY RdFacts DEF RdTypes
  <2> QED
    BY <1>1, <1>2, <2>1 DEF TakeWrite
<1>5. rdreq' = Tail(rdreq) /\ rdcache' = <<b>> \o rdcache /\ UNCHANGED rdcall
  BY DEF TakeWrite
<1>6. PICK w : w = "rds" /\ w \notin RdUsers
  BY RdAssumption
<1>7. rdshared = {} => rdstop' # "lists"
  BY DEF RdCacheInv
<1>8. v.op = "write" /\ (v.valid => v.data = rdbuf[b].data /\ v.refcnt <= 0)
  BY <1>3
<1>9. \A u \in RdUsers : u # w => rdcall'[u] = rdcall[u]
  BY <1>5
<1> QED
  BY ONLY RdListsInv, RdCacheInv, rdreq # <<>>, b = Head(rdreq), UNCHANGED <<rdlast, rdshared>>,
     <1>3, <1>4, <1>5, <1>6, <1>7, <1>8, <1>9, CachedKeepsCopies

\* rdsprocess takes a SYNC (rdsprocess.c).
LEMMA TakeSyncKeepsCopies ==
    ASSUME RdListsInv, RdCacheInv, NEW b, TakeSync(b), rdreq # <<>>, b = Head(rdreq),
           rdbuf[b].op = "sync", UNCHANGED <<rdlast, rdshared, rdstop>>
    PROVE  RdCacheInv'
<1>1. PICK p \in RdUsers : p = rdbuf[b].pid
  BY FirstRequest
<1>2. PICK x : x = [at |-> "synced"]
  OBVIOUS
<1>3. Calls(p, x) /\ x.at = "synced"
  BY <1>1, <1>2 DEF TakeSync
<1>4. rdcall'[p] = x /\ \A u \in RdUsers : u # p => rdcall'[u] = rdcall[u]
  BY <1>3, CallBecomes
<1>5. UNCHANGED <<rdbuf, rdcache>> /\ rdreq' = Tail(rdreq) /\ Len(rdreq) > 0 /\ rdreq \in Seq(RdBuffers)
  BY RdFacts DEF TakeSync
<1>6. /\ Within(rdcache', rdcache) /\ Within(rdreq', rdreq)
      /\ Same(rdbuf, rdbuf', rdcache') /\ Same(rdbuf, rdbuf', rdreq')
  BY <1>5, WithinSame, WithinTail, SameBuffers
<1>7. ASSUME NEW i \in 1 .. Len(rdreq'), rdbuf[rdreq'[i]].op # "write"
      PROVE  rdcall'[rdbuf[rdreq'[i]].pid].blk = rdcall[rdbuf[rdreq'[i]].pid].blk
  <2>1. PICK q : q = Tail(rdreq)
    OBVIOUS
  <2>2. Len(q) = Len(rdreq) - 1 /\ Len(rdreq) \in Nat /\ \A j \in 1 .. Len(rdreq) - 1 : q[j] = rdreq[j + 1]
    BY <1>5, <2>1, Dropped, RdFacts
  <2>3. PICK n \in 1 .. Len(rdreq) : n # 1 /\ q[i] = rdreq[n]
    <3>1. i \in 1 .. Len(q)
      BY <1>5, <1>7, <2>1
    <3>2. i + 1 \in 1 .. Len(rdreq) /\ i + 1 # 1 /\ q[i] = rdreq[i + 1]
      BY <2>2, <3>1
    <3> QED
      BY <3>2
  <2>4. rdbuf[rdreq[n]].op # "write" /\ rdreq'[i] = rdreq[n]
    BY <1>5, <1>7, <2>1, <2>3
  <2>5. rdbuf[rdreq[n]].pid \in RdUsers /\ rdbuf[rdreq[n]].pid # p
    BY <1>1, <2>3, <2>4, RequestUser, OtherRequests
  <2> QED
    BY <1>4, <2>4, <2>5
<1>8. rdshared' = {} => rdstop' # "lists"
  BY DEF RdCacheInv
<1>9. \A k \in RdBlocks : ~Using(rdcall', p, k)
  BY <1>3, <1>4 DEF Using
<1>10. rdcall'[p].at # "got" /\ rdcall'[p].at # "alloc" /\ UNCHANGED rdlast /\ rdshared \subseteq rdshared'
  BY <1>3, <1>4
<1>11. \A u \in RdUsers, n \in 1 .. Len(rdcache) :
         u # p /\ rdcall[u].at = "got" /\ rdcache[n] = rdcall[u].buf /\ rdbuf[rdcache[n]].refcnt > 0 =>
           \E i \in 1 .. Len(rdcache') : rdcache'[i] = rdcache[n] /\ rdbuf'[rdcache[n]].refcnt > 0
  BY <1>5
<1> QED
  BY <1>4, <1>6, <1>7, <1>8, <1>9, <1>10, <1>11, LessKeepsCopies

\* rdsprocess takes a request (rdsprocess.c).
LEMMA TakeKeepsCopies ==
    ASSUME RdListsInv, RdCacheInv, RdTake
    PROVE  RdCacheInv'
<1>1. PICK b : b = Head(rdreq)
  OBVIOUS
<1>2. rdreq # <<>> /\ UNCHANGED <<rdlast, rdshared, rdstop>> /\ rdstop = "no"
  BY DEF RdTake
<1>3. rdbuf[b].op \in {"read", "write", "sync"}
  BY <1>1, <1>2, FirstRequest
<1>4. CASE rdbuf[b].op = "read"
  <2>1. UNCHANGED <<rdbuf, rdcache, rdreq, rdcall>>
    BY <1>1, <1>4 DEF RdTake, TakeRead
  <2>2. rdshared \subseteq rdshared' /\ rdstop' # "lists"
    BY <1>2
  <2> QED
    BY <1>2, <2>1, <2>2, CallKeepsCopies
<1>5. CASE rdbuf[b].op = "write"
  BY <1>1, <1>2, <1>5, TakeWriteKeepsCopies DEF RdTake
<1>6. CASE rdbuf[b].op = "sync"
  BY <1>1, <1>2, <1>6, TakeSyncKeepsCopies DEF RdTake
<1> QED
  BY <1>3, <1>4, <1>5, <1>6

\* No second request is for the block that rdsprocess has read, if calls never shared a block.
LEMMA NotAgain ==
    ASSUME RdListsInv, RdCacheInv, rdshared = {}, rdreq # <<>>, NEW b, b = Head(rdreq), rdbuf[b].op = "read",
           NEW n \in 2 .. Len(rdreq), rdbuf[rdreq[n]].blk = rdbuf[b].blk
    PROVE  FALSE
<1>1. b = rdreq[1] /\ 1 \in 1 .. Len(rdreq)
  BY FirstRequest
<1>2. n \in 1 .. Len(rdreq) /\ n # 1
  BY RdFacts
<1>3. PICK k \in RdBlocks : k = rdbuf[b].blk
  BY <1>1 DEF RdCacheInv, Requests
<1>4. /\ Alone(rdcall, k) /\ Requests(rdbuf, rdreq, rdcall)
      /\ Missed(rdbuf, rdreq, rdcall, k) => NoCopy(rdbuf, rdcache, rdreq, k)
  BY BlockFacts
<1>5. Missed(rdbuf, rdreq, rdcall, k)
  BY <1>1, <1>3 DEF Missed
<1>6. CASE rdbuf[rdreq[n]].op = "write"
  BY <1>2, <1>3, <1>4, <1>5, <1>6 DEF Requests, NoCopy, Valid
<1>7. CASE rdbuf[rdreq[n]].op # "write"
  <2>1. rdbuf[rdreq[n]].pid \in RdUsers /\ Using(rdcall, rdbuf[rdreq[n]].pid, k)
    BY <1>2, <1>3, <1>7, RequestUser
  <2>2. rdbuf[b].pid \in RdUsers /\ Using(rdcall, rdbuf[b].pid, k)
    <3>1. rdbuf[rdreq[1]].op # "write"
      BY <1>1
    <3> QED
      BY <1>1, <1>3, <3>1, RequestUser
  <2>3. rdbuf[rdreq[n]].pid # rdbuf[b].pid
    BY <1>2, <1>7, OtherRequests
  <2> QED
    BY <1>4, <2>1, <2>2, <2>3 DEF Alone
<1> QED
  BY <1>6, <1>7

\* rdsprocess has the block that it asked for (rdsprocess.c).
LEMMA ReadDoneKeepsCopies ==
    ASSUME RdListsInv, RdCacheInv, NEW d, ReadDone(d), rdcomm["rds"].req.op = "read", UNCHANGED rdlast
    PROVE  RdCacheInv'
<1>1. PICK b : b = Head(rdreq)
  OBVIOUS
<1>2. Len(rdreq) > 0 /\ rdbuf[rdreq[1]].op = "read" /\ rdreq # <<>>
  BY RdFacts DEF CommOK
<1>3. /\ b \in RdBuffers /\ b = rdreq[1] /\ rdbuf[b] \in RdBuf /\ rdbuf[b].op = "read"
      /\ 1 \in 1 .. Len(rdreq)
  BY <1>1, <1>2, FirstRequest
<1>4. ~rdbuf[b].valid
  BY <1>3 DEF RdCacheInv, Requests
<1>5. PICK u : u = [rdbuf[b] EXCEPT !.data = d]
  OBVIOUS
<1>6. PICK v : v = [u EXCEPT !.refcnt = 1]
  OBVIOUS
<1>7. v.op = "read" /\ ~v.valid /\ v.blk = rdbuf[b].blk /\ v.valid = rdbuf[b].valid /\ v.refcnt = 1
  BY <1>3, <1>4, <1>5, <1>6 DEF RdBuf
<1>8. rdbuf' = [rdbuf EXCEPT ![b] = v]
  <2>1. rdbuf \in [RdBuffers -> RdBuf]
    BY RdFacts DEF RdTypes
  <2> QED
    BY <1>1, <1>3, <1>5, <1>6, <2>1 DEF ReadDone
<1>9. rdreq' = Tail(rdreq) /\ rdcache' = <<b>> \o rdcache /\ UNCHANGED rdshared
  BY <1>1 DEF ReadDone
<1>10. PICK p \in RdUsers : p = rdbuf[b].pid
  <2>1. rdbuf[b].op # "write"
    BY <1>3
  <2> QED
    BY <1>1, <1>2, <2>1, FirstRequest
<1>11. PICK x : x = [at |-> "got", buf |-> b, blk |-> rdcall[p].blk]
  OBVIOUS
<1>12. Calls(p, x) /\ x.at = "got" /\ x.buf = b /\ x.blk = rdcall[p].blk
  BY <1>1, <1>10, <1>11 DEF ReadDone
<1>13. rdcall'[p] = x /\ \A q \in RdUsers : q # p => rdcall'[q] = rdcall[q]
  BY <1>12, CallBecomes
<1>14. rdshared = {} => rdstop' # "lists"
  <2> SUFFICES ASSUME rdshared = {} PROVE rdstop' # "lists"
    OBVIOUS
  <2>1. ~\E k \in 2 .. Len(rdreq) : rdbuf[rdreq[k]].blk = rdbuf[b].blk
    BY <1>1, <1>2, <1>3, NotAgain
  <2>2. rdstop # "lists"
    BY DEF RdCacheInv
  <2> QED
    BY <1>1, <2>1, <2>2 DEF ReadDone
<1>15. /\ v.op = rdbuf[b].op /\ v.op = "read" /\ v.refcnt > 0 /\ p = rdbuf[b].pid
       /\ v.valid => v.data = rdbuf[b].data /\ v.refcnt <= 0
       /\ rdcall'[p].at = "got" /\ rdcall'[p].buf = b /\ rdcall'[p].blk = rdcall[p].blk
  BY <1>3, <1>7, <1>10, <1>12, <1>13
<1> QED
  BY ONLY RdListsInv, RdCacheInv, UNCHANGED rdlast, <1>1, <1>2, <1>7, <1>8, <1>9, <1>13, <1>14, <1>15,
     CachedKeepsCopies

\* A user's or rdsprocess's exchange ends or is tried again: only the end of a read and a
\* deletion have to do with the lists.
LEMMA EndKeepsCopies ==
    ASSUME RdListsInv, RdCacheInv, NEW w \in RdProcs, rdcomm[w] # NoComm, UNCHANGED rdlast,
           NEW d, NEW xmit, RdDone(w, d) \/ RdFailed(w) \/ RdRetry(w, xmit)
    PROVE  RdCacheInv'
<1>1. RdIdle.at = "idle"
  BY DEF RdIdle
<1>2. w \in RdUsers => rdcall[w].at = "comm"
  BY RdFacts DEF CommOK
<1>3. rdshared = {} => rdstop # "lists"
  BY DEF RdCacheInv
<1>4. ASSUME UNCHANGED <<rdbuf, rdcache, rdreq, rdshared>>, rdstop' = rdstop \/ rdstop' = "panic",
             UNCHANGED rdcall \/ (w \in RdUsers /\ Calls(w, RdIdle))
      PROVE  RdCacheInv'
  <2>1. rdshared \subseteq rdshared' /\ (rdshared' = {} => rdstop' # "lists")
    BY <1>3, <1>4
  <2>2. PICK x : x = RdIdle
    OBVIOUS
  <2>3. UNCHANGED rdcall \/ (w \in RdUsers /\ rdcall[w].at # "recv" /\ Calls(w, x) /\ x.at # "got")
    BY <1>1, <1>2, <1>4, <2>2
  <2>4. x.at \notin {"alloc", "recv", "got", "loop"}
    BY <1>1, <2>2
  <2> QED
    BY <1>4, <2>1, <2>3, <2>4, CallKeepsCopies
<1>5. CASE RdFailed(w) \/ RdRetry(w, xmit)
  <2>1. w = "rds" \/ w \in RdUsers
    BY DEF RdProcs
  <2>2. /\ UNCHANGED <<rdbuf, rdcache, rdreq, rdshared>> /\ (rdstop' = rdstop \/ rdstop' = "panic")
        /\ UNCHANGED rdcall \/ (w \in RdUsers /\ Calls(w, RdIdle))
    BY <1>5, <2>1 DEF RdFailed, RdRetry, rdLists
  <2> QED
    BY <1>4, <2>2
<1>6. CASE RdDone(w, d)
  <2>1. CASE w = "rds" /\ rdcomm[w].req.op = "read"
    <3>1. ReadDone(d)
      BY <1>6, <2>1 DEF RdDone
    <3> QED
      BY <2>1, <3>1, ReadDoneKeepsCopies
  <2>2. CASE w = "rds" /\ rdcomm[w].req.op = "write"
    <3>1. UNCHANGED <<rdLists, rdcall, rdshared, rdstop>>
      BY <1>6, <2>2 DEF RdDone
    <3> QED
      BY <1>4, <3>1 DEF rdLists
  <2>3. CASE w \in RdUsers /\ rdcomm[w].req.op = "open"
    <3>1. UNCHANGED <<rdLists, rdshared, rdstop>> /\ Calls(w, RdIdle)
      BY <1>6, <2>3 DEF RdDone
    <3> QED
      BY <1>4, <2>3, <3>1 DEF rdLists
  <2>4. CASE w \in RdUsers /\ rdcomm[w].req.op = "del"
    <3>1. /\ Calls(w, RdIdle) /\ UNCHANGED <<rdreq, rdstop>>
          /\ (rdreq = <<>> /\ Emptied) \/ UNCHANGED <<rdbuf, rdcache, rdshared>>
      BY <1>6, <2>4 DEF RdDone
    <3>2. CASE rdreq = <<>> /\ Emptied
      <4>1. rdcall'[w] = RdIdle /\ \A u \in RdUsers : u # w => rdcall'[u] = rdcall[u]
        BY <2>4, <3>1, CallBecomes
      <4> QED
        BY <1>1, <3>1, <3>2, <4>1, EmptiedKeepsCopies
    <3>3. CASE UNCHANGED <<rdbuf, rdcache, rdshared>>
      BY <1>4, <2>4, <3>1, <3>3
    <3> QED
      BY <3>1, <3>2, <3>3
  <2> QED
    BY <2>1, <2>2, <2>3, <2>4, WhoExchanges
<1> QED
  BY <1>5, <1>6

\* What the other calls leave as it is.
LEMMA IdleKeepsCopies ==
    ASSUME RdListsInv, RdCacheInv, NEW p \in RdUsers, RdSynced(p) \/ RdOpen(p) \/ RdDelete(p)
    PROVE  RdCacheInv'
<1>1. UNCHANGED <<rdbuf, rdcache, rdreq, rdlast, rdshared, rdstop>> /\ rdstop = "no"
      /\ rdcall[p].at \in {"idle", "synced"}
  BY DEF RdSynced, RdOpen, RdDelete, rdLists, CanCall
<1>2. PICK x : /\ UNCHANGED rdcall \/ Calls(p, x)
               /\ x.at \in {"idle", "comm"}
  <2>1. PICK y : y = [at |-> "comm"]
    OBVIOUS
  <2>2. y.at = "comm" /\ RdIdle.at = "idle"
    BY <2>1 DEF RdIdle
  <2>3. UNCHANGED rdcall \/ Calls(p, RdIdle) \/ Calls(p, y)
    BY <2>1 DEF RdSynced, RdOpen, RdDelete
  <2> QED
    BY <2>2, <2>3
<1>3. /\ rdshared \subseteq rdshared' /\ rdstop' # "lists"
      /\ UNCHANGED rdcall \/ (p \in RdUsers /\ rdcall[p].at # "recv" /\ Calls(p, x) /\ x.at # "got")
      /\ x.at \notin {"alloc", "recv", "got", "loop"}
  BY <1>1, <1>2
<1> QED
  BY <1>1, <1>3, CallKeepsCopies

\* Processes read and write blocks of the disk.
LEMMA SharingBlocks ==
    ASSUME rduses \in RdSharings, NEW p \in RdUsers PROVE rduses[p] \subseteq RdBlocks
  BY RdAssumption

\* Every step keeps the copies.
LEMMA RdCacheStep ==
    ASSUME RdListsInv, rduses \in RdSharings, RdCacheInv, CacheTrue, [RdNext]_rdVars
    PROVE  RdCacheInv' /\ CacheTrue'
<1>1. DOMAIN rdcomm = RdProcs
  BY RdFacts DEF RdTypes
<1>2. ASSUME NoGot.hit # "memory", rdgot' = NoGot PROVE CacheTrue'
  BY <1>2 DEF CacheTrue
<1>3. NoGot.hit # "memory"
  BY DEF NoGot
<1>4. ASSUME NEW p \in RdUsers, RdUser(p) PROVE RdCacheInv' /\ CacheTrue'
  <2>1. ASSUME NEW k \in rduses[p], RdRead(p, k) PROVE RdCacheInv' /\ CacheTrue'
    BY <2>1, SharingBlocks, ReadKeepsCopies, ReadIsTrue
  <2>2. ASSUME NEW k \in rduses[p], NEW d \in RdData, RdWrite(p, k, d) PROVE RdCacheInv' /\ CacheTrue'
    <3>1. rdgot' = NoGot
      BY <2>2 DEF RdWrite
    <3> QED
      BY <1>2, <1>3, <2>2, <3>1, SharingBlocks, WriteKeepsCopies
  <2>3. CASE RdSync(p)
    <3>1. rdgot' = NoGot
      BY <2>3 DEF RdSync
    <3> QED
      BY <1>2, <1>3, <2>3, <3>1, SyncKeepsCopies
  <2>4. CASE RdAlloc(p)
    <3>1. rdgot' = NoGot
      BY <2>4 DEF RdAlloc
    <3> QED
      BY <1>2, <1>3, <2>4, <3>1, AllocKeepsCopies
  <2>5. CASE RdReceived(p)
    <3>1. rdgot'.hit # "memory"
      BY <2>5 DEF RdReceived, NoGot
    <3> QED
      BY <2>5, <3>1, ReceivedKeepsCopies DEF CacheTrue
  <2>6. CASE RdSynced(p) \/ RdOpen(p) \/ RdDelete(p)
    <3>1. rdgot' = NoGot
      BY <2>6 DEF RdSynced, RdOpen, RdDelete
    <3> QED
      BY <1>2, <1>3, <2>6, <3>1, IdleKeepsCopies
  <2>7. CASE RdClose(p)
    <3>1. /\ rdgot' = NoGot /\ rdreq = <<>> /\ Emptied /\ UNCHANGED <<rdcall, rdreq, rdlast, rdstop>>
          /\ rdcall[p].at = "idle"
      BY <2>7 DEF RdClose, CanCall
    <3> QED
      BY <1>2, <1>3, <3>1, EmptiedKeepsCopies
  <2> QED
    BY <1>4, <2>1, <2>2, <2>3, <2>4, <2>5, <2>6, <2>7 DEF RdUser
<1>5. CASE RdTake
  <2>1. rdgot' = NoGot
    BY <1>5 DEF RdTake
  <2> QED
    BY <1>2, <1>3, <1>5, <2>1, TakeKeepsCopies
<1>6. CASE RdServe
  <2>1. rdgot' = NoGot
    BY <1>6 DEF RdServe
  <2>2. UNCHANGED <<rdbuf, rdcache, rdreq, rdlast, rdcall, rdshared, rdstop>>
    BY <1>6 DEF RdServe, rdLists
  <2>3. rdshared \subseteq rdshared' /\ (rdshared' = {} => rdstop' # "lists")
    BY <2>2 DEF RdCacheInv
  <2> QED
    BY <1>2, <1>3, <2>1, <2>2, <2>3, CallKeepsCopies
<1>7. ASSUME NEW w \in RdProcs, RdTimeout(w) \/ RdReply(w) PROVE RdCacheInv' /\ CacheTrue'
  <2>1. rdgot' = NoGot /\ UNCHANGED rdlast /\ rdcomm[w] # NoComm
    BY <1>7 DEF RdTimeout, RdReply, Exchanging
  <2>2. \E d, xmit : RdDone(w, d) \/ RdFailed(w) \/ RdRetry(w, xmit)
    <3>1. CASE RdTimeout(w)
      BY <3>1 DEF RdTimeout
    <3>2. CASE RdReply(w)
      BY <3>2, Zenon DEF RdReply
    <3> QED
      BY <1>7, <3>1, <3>2
  <2> QED
    BY <1>2, <1>3, <2>1, <2>2, EndKeepsCopies
<1>8. CASE UNCHANGED rdVars
  <2>1. UNCHANGED <<rdbuf, rdcache, rdreq, rdlast, rdcall, rdgot, rdshared, rdstop>>
    BY <1>8 DEF rdVars, rdLists
  <2>2. rdshared \subseteq rdshared' /\ (rdshared' = {} => rdstop' # "lists")
    BY <2>1 DEF RdCacheInv
  <2>3. CacheTrue'
    BY <2>1 DEF CacheTrue
  <2> QED
    BY <2>1, <2>2, <2>3, CallKeepsCopies
<1> QED
  BY <1>1, <1>4, <1>5, <1>6, <1>7, <1>8 DEF RdNext

\* rdsInit() establishes the invariant of the copies (rdsInit.c).
LEMMA RdCacheStart ==
    ASSUME RdInit PROVE RdCacheInv /\ CacheTrue
<1>1. PICK c : c = <<>>
  OBVIOUS
<1>2. rdcache = c /\ rdreq = c /\ Len(c) = 0 /\ rdstop = "no"
  BY <1>1 DEF RdInit
<1>3. \A p \in RdUsers : rdcall[p].at = "idle"
  BY DEF RdInit, RdIdle
<1>4. ASSUME NEW k \in RdBlocks PROVE BlockOK(rdbuf, c, c, rdcall, k, rdlast[k])
  <2>1. Copies(rdbuf, c, c, k, rdlast[k]) /\ NoCopy(rdbuf, c, c, k)
    BY <1>2 DEF Copies, NoCopy
  <2>2. Alone(rdcall, k)
    BY <1>3 DEF Alone, Using
  <2> QED
    BY <2>1, <2>2 DEF BlockOK
<1>5. Requests(rdbuf, c, rdcall) /\ Reading(rdbuf, c, rdcall)
  BY <1>2, <1>3 DEF Requests, Reading
<1>6. CacheTrue
  BY DEF CacheTrue, RdInit, NoGot
<1> QED
  BY <1>2, <1>4, <1>5, <1>6 DEF RdCacheInv

RdInv == RdListsInv /\ rduses \in RdSharings /\ RdCacheInv /\ CacheTrue

\* The lists and the copies in them stay as they are found, whatever blocks the processes
\* share (rdsRead.c, rdsWrite.c, rdsControl.c, rdsprocess.c, rdsClose.c).
THEOREM RdInvariance == RdSpec => []RdInv
<1>1. RdInit => RdInv
  BY RdListsStart, RdCacheStart DEF RdInv
<1>2. RdInv /\ [RdNext]_rdVars => RdInv'
  <2> SUFFICES ASSUME RdInv, [RdNext]_rdVars PROVE RdInv'
    OBVIOUS
  <2>1. rduses' = rduses
    BY DEF RdNext, rdVars
  <2> QED
    BY <2>1, RdListsStep, RdCacheStep DEF RdInv
<1> QED
  BY <1>1, <1>2, PTL DEF RdSpec

\* Every buffer is in one list and once, and who waits for an answer has its request in the
\* queue, for any number of processes, buffers and blocks and whatever blocks they share; the
\* lists run into one another only when two calls used a block at the same time, or when the
\* device was closed under a reader (rdsWrite.c:49-58, rdsprocess.c:68-128, 145-161,
\* rdsRead.c:96-118, rdsClose.c).
THEOREM RdBuffersKept == RdSpec => []RdBuffersOnce
<1>1. RdInv => RdBuffersOnce
  <2> SUFFICES ASSUME RdInv PROVE RdBuffersOnce
    OBVIOUS
  <2>1. rdstop = "lists" => rdshared # {}
    BY DEF RdInv, RdCacheInv
  <2>2. OnLists(rdfree, rdcache, rdreq) /\ Asked(rdbuf, rdreq, rdcall) /\ DOMAIN rdreq = 1 .. Len(rdreq)
    BY RdFacts DEF RdInv
  <2>3. IsInjective(rdfree \o rdcache \o rdreq) /\ Len(rdfree \o rdcache \o rdreq) = RD_BUFFS
    BY <2>2, ListsJoined
  <2>4. \A p \in RdUsers : rdcall[p].at = "recv" => \E k \in DOMAIN rdreq : rdbuf[rdreq[k]].pid = p
    BY <2>2 DEF Asked
  <2> QED
    BY <2>1, <2>3, <2>4 DEF RdBuffersOnce
<1> QED
  BY <1>1, RdInvariance, PTL

\* A block that rdsRead() finds in the cache or in the queue, and that no two calls ever used
\* at the same time, is as it was written last, for any number of buffers, processes and
\* blocks and whatever blocks they share (rdsRead.c:33-63, rdsWrite.c:29-70).
THEOREM CacheIsTrue == RdSpec => []CacheTrue
<1>1. RdInv => CacheTrue
  BY DEF RdInv
<1> QED
  BY <1>1, RdInvariance, PTL
====
