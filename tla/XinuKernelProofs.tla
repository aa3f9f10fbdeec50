--------------------------- MODULE XinuKernelProofs ---------------------------
(***************************************************************************)
(* Proofs about XinuKernel, for every number of processes and semaphores,  *)
(* every time slice, all arguments and any set of calls: types, states and *)
(* queues agree, the null process is always eligible; no message is missed *)
(* or made up, whatever the calls; and prcount is the number of live       *)
(* processes, where it is.                                                 *)
(***************************************************************************)
EXTENDS XinuKernel, SequenceTheorems, Counting

-----------------------------------------------------------------------------
(* The queue operations: who is on the result, and that nobody is twice.    *)

\* Where the entries of a queue stand when a process is linked into it
LEMMA InsertAtEntries ==
    ASSUME NEW q \in Seq(Pid), NEW i \in 1 .. Len(q) + 1, NEW p \in Pid
    PROVE  /\ InsertAt(q, i, p) \in Seq(Pid)
           /\ Len(InsertAt(q, i, p)) = Len(q) + 1
           /\ \A j \in 1 .. Len(q) + 1 :
                InsertAt(q, i, p)[j] = IF j < i THEN q[j] ELSE IF j = i THEN p ELSE q[j - 1]
<1> DEFINE front == SubSeq(q, 1, i - 1)
           back == SubSeq(q, i, Len(q))
           s == InsertAt(q, i, p)
<1>1. Len(q) \in Nat /\ DOMAIN q = 1 .. Len(q) /\ i \in Nat /\ 1 <= i /\ i <= Len(q) + 1
  BY LenProperties
<1>2. front \in Seq(Pid) /\ Len(front) = i - 1 /\ \A j \in 1 .. i - 1 : front[j] = q[j]
  BY SubSeqProperties, ElementOfSeq, SMT
<1>3. back \in Seq(Pid) /\ Len(back) = Len(q) - i + 1
      /\ \A j \in 1 .. Len(q) - i + 1 : back[j] = q[j + i - 1]
  BY SubSeqProperties, ElementOfSeq, SMT
<1>4. s = front \o <<p>> \o back
  BY DEF InsertAt
<1> HIDE DEF front, back, s
<1>5. <<p>> \in Seq(Pid) /\ Len(<<p>>) = 1 /\ <<p>>[1] = p
  OBVIOUS
<1>6. /\ front \o <<p>> \in Seq(Pid)
      /\ Len(front \o <<p>>) = i
      /\ \A j \in 1 .. i : (front \o <<p>>)[j] = IF j < i THEN q[j] ELSE p
  <2>1. Len(front) + Len(<<p>>) = i
    BY <1>2, <1>5
  <2>2. /\ front \o <<p>> \in Seq(Pid)
        /\ Len(front \o <<p>>) = Len(front) + Len(<<p>>)
        /\ \A j \in 1 .. Len(front) + Len(<<p>>) :
             (front \o <<p>>)[j] = IF j <= Len(front) THEN front[j] ELSE <<p>>[j - Len(front)]
    BY <1>2, <1>5, ConcatProperties
  <2> QED
    BY <1>1, <1>2, <1>5, <2>1, <2>2
<1>7. s \in Seq(Pid) /\ Len(s) = Len(q) + 1
  <2>1. s \in Seq(Pid) /\ Len(s) = i + Len(back)
    BY <1>3, <1>4, <1>6, ConcatProperties
  <2> QED
    BY <1>1, <1>3, <2>1
<1>8. \A j \in 1 .. Len(q) + 1 :
        s[j] = IF j < i THEN q[j] ELSE IF j = i THEN p ELSE q[j - 1]
  <2>1. \A j \in 1 .. Len(q) + 1 :
          s[j] = IF j <= i THEN (front \o <<p>>)[j] ELSE back[j - i]
    <3>1. i + Len(back) = Len(q) + 1
      BY <1>1, <1>3
    <3> QED
      <4>1. \A j \in 1 .. Len(front \o <<p>>) + Len(back) :
              s[j] = IF j <= Len(front \o <<p>>) THEN (front \o <<p>>)[j]
                     ELSE back[j - Len(front \o <<p>>)]
        BY <1>3, <1>4, <1>6, ConcatProperties
      <4> QED
        BY <1>6, <3>1, <4>1
  <2> QED
    BY <1>1, <1>3, <1>6, <2>1
<1> QED
  BY <1>7, <1>8 DEF s

\* Linking a process into a queue at any place adds it and nobody else.
LEMMA InsertAtQueue ==
    ASSUME NEW q \in Seq(Pid), NEW i \in 1 .. Len(q) + 1, NEW p \in Pid
    PROVE  /\ InsertAt(q, i, p) \in Seq(Pid)
           /\ InsertAt(q, i, p) # <<>>
           /\ \A r \in Pid : On(InsertAt(q, i, p), r) <=> On(q, r) \/ r = p
           /\ Unique(q) /\ ~On(q, p) => Unique(InsertAt(q, i, p))
<1> DEFINE s == InsertAt(q, i, p)
<1>1. Len(q) \in Nat /\ DOMAIN q = 1 .. Len(q) /\ i \in Nat /\ 1 <= i /\ i <= Len(q) + 1
  BY LenProperties
<1>2. s \in Seq(Pid) /\ Len(s) = Len(q) + 1
  BY InsertAtEntries
<1>3. \A j \in 1 .. Len(q) + 1 :
        s[j] = IF j < i THEN q[j] ELSE IF j = i THEN p ELSE q[j - 1]
  BY InsertAtEntries
<1> HIDE DEF s
<1>4. \A j \in 1 .. Len(q) : s[IF j < i THEN j ELSE j + 1] = q[j]
  BY <1>1, <1>3
<1>5. DOMAIN s = 1 .. Len(q) + 1
  BY <1>2, LenProperties
<1>6. \A r \in Pid : On(s, r) <=> On(q, r) \/ r = p
  <2>1. ASSUME NEW r \in Pid, On(s, r) PROVE On(q, r) \/ r = p
    BY <1>1, <1>3, <1>5, <2>1 DEF On
  <2>2. ASSUME NEW r \in Pid, On(q, r) PROVE On(s, r)
    <3>1. PICK j \in 1 .. Len(q) : q[j] = r
      BY <1>1, <2>2 DEF On
    <3>2. (IF j < i THEN j ELSE j + 1) \in DOMAIN s
      BY <1>1, <1>5
    <3> QED
      BY <1>4, <3>1, <3>2 DEF On
  <2>3. On(s, p)
    BY <1>1, <1>3, <1>5 DEF On
  <2> QED
    BY <2>1, <2>2, <2>3
<1>7. ASSUME Unique(q), ~On(q, p) PROVE Unique(s)
  <2>1. \A j \in 1 .. Len(q) : q[j] # p
    BY <1>1, <1>7 DEF On
  <2>2. \A j, k \in 1 .. Len(q) : j < k => q[j] # q[k]
    BY <1>1, <1>7 DEF Unique
  <2>3. ASSUME NEW j \in 1 .. Len(q) + 1, NEW k \in 1 .. Len(q) + 1, j < k
        PROVE  s[j] # s[k]
    <3>1. CASE k < i
      BY <1>1, <1>3, <2>2, <2>3, <3>1
    <3>2. CASE k = i
      BY <1>1, <1>3, <2>1, <2>3, <3>2
    <3>3. CASE j = i
      BY <1>1, <1>3, <2>1, <2>3, <3>3
    <3>4. CASE j < i /\ i < k
      BY <1>1, <1>3, <2>2, <2>3, <3>4
    <3>5. CASE i < j
      BY <1>1, <1>3, <2>2, <2>3, <3>5
    <3> QED
      BY <1>1, <3>1, <3>2, <3>3, <3>4, <3>5
  <2> QED
    BY <1>1, <1>5, <2>3 DEF Unique
<1> QED
  BY <1>2, <1>6, <1>7 DEF s

\* The number of leading entries that are passed over is a place in the queue.
LEMMA PassedBound ==
    ASSUME NEW q \in Seq(Pid), NEW passed \in SUBSET DOMAIN q
    PROVE  Cardinality(passed) + 1 \in 1 .. Len(q) + 1
<1>1. DOMAIN q = 1 .. Len(q) /\ Len(q) \in Nat
  BY LenProperties
<1>2. IsFiniteSet(1 .. Len(q)) /\ Cardinality(1 .. Len(q)) = Len(q)
  <2>1. 1 \in Int /\ Len(q) \in Int /\ (1 > Len(q) => Len(q) = 0)
    BY <1>1
  <2> HIDE <1>1
  <2> QED
    BY <2>1, FS_Interval
<1>3. IsFiniteSet(passed) /\ Cardinality(passed) <= Len(q)
  BY <1>1, <1>2, FS_Subset
<1> QED
  BY <1>1, <1>3, FS_CardinalityType

\* insert() adds the process and nobody else.
LEMMA InsertQueue ==
    ASSUME NEW q \in Seq(Pid), NEW keys, NEW p \in Pid, NEW key
    PROVE  /\ Insert(q, keys, p, key) \in Seq(Pid)
           /\ Insert(q, keys, p, key) # <<>>
           /\ \A r \in Pid : On(Insert(q, keys, p, key), r) <=> On(q, r) \/ r = p
           /\ Unique(q) /\ ~On(q, p) => Unique(Insert(q, keys, p, key))
<1> DEFINE passed == {j \in DOMAIN q : \A k \in 1 .. j : keys[q[k]] >= key}
<1>1. Cardinality(passed) + 1 \in 1 .. Len(q) + 1
  BY PassedBound
<1>2. Insert(q, keys, p, key) = InsertAt(q, Cardinality(passed) + 1, p)
  BY DEF Insert
<1> HIDE DEF passed
<1> QED
  BY <1>1, <1>2, InsertAtQueue

\* insertd() adds the process and nobody else.
LEMMA InsertdQueue ==
    ASSUME NEW q \in Seq(Pid), NEW keys, NEW p \in Pid, NEW delay
    PROVE  /\ Insertd(q, keys, p, delay) \in Seq(Pid)
           /\ \A r \in Pid : On(Insertd(q, keys, p, delay), r) <=> On(q, r) \/ r = p
           /\ Unique(q) /\ ~On(q, p) => Unique(Insertd(q, keys, p, delay))
<1> DEFINE passed == {j \in DOMAIN q : \A k \in 1 .. j : keys[q[k]] <= delay}
<1>1. Cardinality(passed) + 1 \in 1 .. Len(q) + 1
  BY PassedBound
<1>2. Insertd(q, keys, p, delay) = InsertAt(q, Cardinality(passed) + 1, p)
  BY DEF Insertd
<1> HIDE DEF passed
<1> QED
  BY <1>1, <1>2, InsertAtQueue

\* enqueue() adds the process and nobody else.
LEMMA EnqueueQueue ==
    ASSUME NEW q \in Seq(Pid), NEW p \in Pid
    PROVE  /\ Enqueue(q, p) \in Seq(Pid)
           /\ \A r \in Pid : On(Enqueue(q, p), r) <=> On(q, r) \/ r = p
           /\ Unique(q) /\ ~On(q, p) => Unique(Enqueue(q, p))
<1> DEFINE s == Enqueue(q, p)
<1>1. s \in Seq(Pid) /\ Len(s) = Len(q) + 1
      /\ (\A j \in 1 .. Len(q) : s[j] = q[j]) /\ s[Len(q) + 1] = p
  BY AppendProperties DEF Enqueue
<1> HIDE DEF s
<1>2. \A r \in Pid : On(s, r) <=> On(q, r) \/ r = p
  BY <1>1 DEF On
<1>3. ASSUME Unique(q), ~On(q, p) PROVE Unique(s)
  BY <1>1, <1>3 DEF Unique, On
<1> QED
  BY <1>1, <1>2, <1>3 DEF s

\* dequeue() takes the first process off.
LEMMA TailQueue ==
    ASSUME NEW q \in Seq(Pid), q # <<>>
    PROVE  /\ Head(q) \in Pid /\ On(q, Head(q))
           /\ Tail(q) \in Seq(Pid)
           /\ Unique(q) =>
                /\ Unique(Tail(q))
                /\ \A r \in Pid : On(Tail(q), r) <=> On(q, r) /\ r # Head(q)
<1> DEFINE t == Tail(q)
<1>1. t \in Seq(Pid) /\ Len(q) \in Nat \ {0} /\ Len(t) = Len(q) - 1
      /\ (\A j \in 1 .. Len(q) - 1 : t[j] = q[j + 1])
  BY HeadTailProperties, EmptySeq
<1>2. Head(q) = q[1] /\ Head(q) \in Pid
  BY HeadTailProperties
<1>3. DOMAIN q = 1 .. Len(q) /\ DOMAIN t = 1 .. Len(q) - 1
  BY <1>1, LenProperties
<1> HIDE DEF t
<1>4. On(q, Head(q))
  BY <1>1, <1>2 DEF On
<1>5. ASSUME Unique(q) PROVE Unique(t)
  <2>1. \A j, k \in 1 .. Len(q) : q[j] = q[k] => j = k
    BY <1>3, <1>5 DEF Unique
  <2>2. ASSUME NEW j \in 1 .. Len(q) - 1, NEW k \in 1 .. Len(q) - 1, t[j] = t[k]
        PROVE  j = k
    <3>1. j + 1 \in 1 .. Len(q) /\ k + 1 \in 1 .. Len(q) /\ q[j + 1] = q[k + 1]
      BY <1>1, <2>2
    <3> QED
      BY <2>1, <3>1
  <2> QED
    BY <1>3, <2>2 DEF Unique
<1>6. ASSUME Unique(q), NEW r \in Pid PROVE On(t, r) <=> On(q, r) /\ r # Head(q)
  <2>1. ASSUME On(t, r) PROVE On(q, r) /\ r # Head(q)
    <3>1. PICK j \in 1 .. Len(q) - 1 : q[j + 1] = r
      BY <1>1, <1>3, <2>1 DEF On
    <3>2. j + 1 \in 1 .. Len(q) /\ 1 \in 1 .. Len(q) /\ j + 1 # 1
      BY <1>1
    <3> QED
      BY <1>2, <1>3, <1>6, <3>1, <3>2 DEF On, Unique
  <2>2. ASSUME On(q, r), r # Head(q) PROVE On(t, r)
    <3>1. PICK j \in 1 .. Len(q) : q[j] = r
      BY <1>1, <2>2 DEF On
    <3>2. j # 1 /\ t[j - 1] = r /\ j - 1 \in DOMAIN t
      BY <1>1, <1>2, <2>2, <3>1
    <3> QED
      BY <3>2 DEF On
  <2> QED
    BY <2>1, <2>2
<1> QED
  BY <1>1, <1>2, <1>4, <1>5, <1>6 DEF t

\* Where the entries of a queue stand when getitem() has unlinked a process
LEMMA GetItemEntries ==
    ASSUME NEW q \in Seq(Pid), NEW p \in Pid, On(q, p)
    PROVE  \E i \in 1 .. Len(q) :
             /\ q[i] = p /\ GetItem(q, p) = RemoveAt(q, i)
             /\ GetItem(q, p) \in Seq(Pid) /\ Len(GetItem(q, p)) = Len(q) - 1
             /\ \A j \in 1 .. Len(q) - 1 :
                  GetItem(q, p)[j] = IF j < i THEN q[j] ELSE q[j + 1]
<1> DEFINE i == CHOOSE k \in DOMAIN q : q[k] = p
           s == GetItem(q, p)
           front == SubSeq(q, 1, i - 1)
           back == SubSeq(q, i + 1, Len(q))
<1>1. i \in 1 .. Len(q) /\ q[i] = p
  BY DEF On
<1>2. s = RemoveAt(q, i)
  BY DEF GetItem
<1>3. s = front \o back
  BY DEF GetItem, RemoveAt
<1> HIDE DEF i
<1>4. front \in Seq(Pid) /\ Len(front) = i - 1 /\ \A j \in 1 .. i - 1 : front[j] = q[j]
  BY <1>1, SubSeqProperties, ElementOfSeq, SMT
<1>5. back \in Seq(Pid) /\ Len(back) = Len(q) - i
      /\ \A j \in 1 .. Len(q) - i : back[j] = q[j + i]
  BY <1>1, SubSeqProperties, ElementOfSeq, SMT
<1> HIDE DEF front, back, s
<1>6. Len(q) \in Nat /\ DOMAIN q = 1 .. Len(q) /\ i \in Nat /\ 1 <= i /\ i <= Len(q)
  BY <1>1, LenProperties
<1>7. Len(front) + Len(back) = Len(q) - 1
  BY <1>6, <1>4, <1>5
<1>8. /\ s \in Seq(Pid)
      /\ Len(s) = Len(front) + Len(back)
      /\ \A j \in 1 .. Len(front) + Len(back) :
           s[j] = IF j <= Len(front) THEN front[j] ELSE back[j - Len(front)]
  BY <1>3, <1>4, <1>5, ConcatProperties
<1>9. s \in Seq(Pid) /\ Len(s) = Len(q) - 1 /\ DOMAIN s = 1 .. Len(q) - 1
  BY <1>7, <1>8, LenProperties
<1>10. \A j \in 1 .. Len(q) - 1 : s[j] = IF j < i THEN q[j] ELSE q[j + 1]
  <2>1. \A j \in 1 .. Len(q) - 1 :
          s[j] = IF j <= i - 1 THEN front[j] ELSE back[j - (i - 1)]
    BY <1>7, <1>8, <1>4
  <2>2. ASSUME NEW j \in 1 .. Len(q) - 1 PROVE s[j] = IF j < i THEN q[j] ELSE q[j + 1]
    <3>1. CASE j < i
      BY <1>6, <1>4, <2>1, <2>2, <3>1
    <3>2. CASE ~(j < i)
      <4>1. j - (i - 1) \in 1 .. Len(q) - i /\ (j - (i - 1)) + i = j + 1
        BY <1>6, <2>2, <3>2
      <4>2. s[j] = back[j - (i - 1)]
        BY <1>6, <2>1, <2>2, <3>2
      <4> QED
        BY <1>5, <3>2, <4>1, <4>2
    <3> QED
      BY <3>1, <3>2
  <2> QED
    BY <2>2
<1> QED
  BY <1>1, <1>2, <1>9, <1>10 DEF s

\* getitem() takes the process off and nobody else.
LEMMA GetItemQueue ==
    ASSUME NEW q \in Seq(Pid), NEW p \in Pid, On(q, p), Unique(q)
    PROVE  /\ GetItem(q, p) \in Seq(Pid)
           /\ Unique(GetItem(q, p))
           /\ \A r \in Pid : On(GetItem(q, p), r) <=> On(q, r) /\ r # p
<1> DEFINE s == GetItem(q, p)
<1>1. PICK i \in 1 .. Len(q) :
        /\ q[i] = p
        /\ s \in Seq(Pid) /\ Len(s) = Len(q) - 1
        /\ \A j \in 1 .. Len(q) - 1 : s[j] = IF j < i THEN q[j] ELSE q[j + 1]
  BY GetItemEntries
<1> HIDE DEF s
<1>2. Len(q) \in Nat /\ DOMAIN q = 1 .. Len(q) /\ i \in Nat /\ 1 <= i /\ i <= Len(q)
  BY LenProperties
<1>3. s \in Seq(Pid) /\ DOMAIN s = 1 .. Len(q) - 1
  BY <1>1, LenProperties
<1>4. \A j \in 1 .. Len(q) - 1 : s[j] = IF j < i THEN q[j] ELSE q[j + 1]
  BY <1>1
<1>5. Unique(s)
  <2>1. \A j, k \in 1 .. Len(q) : q[j] = q[k] => j = k
    BY <1>2 DEF Unique
  <2>2. ASSUME NEW j \in 1 .. Len(q) - 1, NEW k \in 1 .. Len(q) - 1, s[j] = s[k]
        PROVE  j = k
    <3> DEFINE old(n) == IF n < i THEN n ELSE n + 1
    <3>1. old(j) \in 1 .. Len(q) /\ old(k) \in 1 .. Len(q) /\ q[old(j)] = q[old(k)]
      BY <1>2, <1>4, <2>2
    <3>2. old(j) = old(k)
      BY <2>1, <3>1
    <3> QED
      BY <1>2, <3>2
  <2> QED
    BY <1>3, <2>2 DEF Unique
<1>6. ASSUME NEW r \in Pid, On(s, r) PROVE On(q, r) /\ r # p
  <2>1. PICK j \in 1 .. Len(q) - 1 : s[j] = r
    BY <1>3, <1>6 DEF On
  <2>2. PICK k \in 1 .. Len(q) : q[k] = r /\ k # i
    BY <1>2, <1>4, <2>1
  <2> QED
    BY <1>1, <1>2, <2>2 DEF On, Unique
<1>7. ASSUME NEW r \in Pid, On(q, r), r # p PROVE On(s, r)
  <2>1. PICK j \in 1 .. Len(q) : q[j] = r
    BY <1>7 DEF On
  <2>2. CASE j < i
    <3>1. j \in DOMAIN s /\ s[j] = r
      BY <1>2, <1>3, <1>4, <2>1, <2>2
    <3> QED
      BY <3>1 DEF On
  <2>3. CASE j > i
    <3>1. j - 1 \in DOMAIN s /\ s[j - 1] = r
      BY <1>2, <1>3, <1>4, <2>1, <2>3
    <3> QED
      BY <3>1 DEF On
  <2> QED
    BY <1>1, <1>7, <2>1, <2>2, <2>3
<1> QED
  BY <1>3, <1>5, <1>6, <1>7 DEF s

-----------------------------------------------------------------------------
(* The inductive invariant, in four parts: what resched() relies on and     *)
(* leaves, the sleep queue, the semaphore queues, and the types of the rest.*)

Eligible == {"CURR", "READY"}

SchedOK ==
    /\ prstate \in [Pid -> States]
    /\ readylist \in Seq(Pid)
    /\ qkey \in [Pid -> Int]
    /\ currpid \in Pid
    /\ preempt \in 1 .. QUANTUM + 1
    /\ Unique(readylist)
    /\ \A p \in Pid : prstate[p] = "CURR" <=> p = currpid
    /\ \A p \in Pid : On(readylist, p) <=> prstate[p] = "READY"
    /\ prstate[NULLPROC] \in Eligible

SleepOK ==
    /\ sleepq \in Seq(Pid)
    /\ Unique(sleepq)
    /\ \A p \in Pid : On(sleepq, p) <=> prstate[p] \in {"SLEEP", "RECTIM"}

SemOK ==
    /\ prsem \in [Pid -> Sem]
    /\ squeue \in [Sem -> Seq(Pid)]
    /\ \A s \in Sem : Unique(squeue[s])
    /\ \A p \in Pid, s \in Sem : On(squeue[s], p) <=> prstate[p] = "WAIT" /\ prsem[p] = s

RestOK ==
    /\ prprio \in [Pid -> Int]
    /\ prhasmsg \in [Pid -> BOOLEAN]
    /\ prparent \in [Pid -> Pid]
    /\ sstate \in [Sem -> {"FREE", "USED"}]
    /\ scount \in [Sem -> Int]
    /\ nextsem \in Sem
    /\ nextpid \in 1 .. NPROC
    /\ prcount \in Int
    /\ kstack \in [Pid -> Seq(Frame)]
    /\ ie \in BOOLEAN
    /\ halted \in BOOLEAN

IInv == SchedOK /\ SleepOK /\ SemOK /\ RestOK

-----------------------------------------------------------------------------
(* Giving the processor to the right process.                               *)

\* The states, ready list and keys resched() may be handed.
Handed(st, rl, keys) ==
    /\ st \in [Pid -> States] /\ rl \in Seq(Pid) /\ keys \in [Pid -> Int]
    /\ Unique(rl)
    /\ \A p \in Pid : st[p] = "CURR" => p = currpid
    /\ \A p \in Pid : On(rl, p) <=> st[p] = "READY"
    /\ st[NULLPROC] \in Eligible

\* A reschedule moves processes between CURR and READY only.
Kept(st) ==
    \A p \in Pid : prstate'[p] = st[p] \/ (st[p] \in Eligible /\ prstate'[p] \in Eligible)

\* The null process has a slot, and there is a semaphore (initialize.c:31).
LEMMA Processes == NULLPROC \in Pid /\ Sem # {}
  BY SizeAssumption DEF NULLPROC, Pid, Sem

\* resched() finds a process to run: its queue holds the null process, if
\* that is not the one that gives up the processor.
LEMMA SomebodyReady ==
    ASSUME currpid \in Pid, NEW st, NEW rl, NEW keys, Handed(st, rl, keys),
           st[currpid] # "CURR"
    PROVE  rl # <<>>
<1>1. st[NULLPROC] = "READY"
  BY Processes DEF Handed, Eligible
<1>2. On(rl, NULLPROC)
  BY <1>1, Processes DEF Handed
<1> QED
  BY <1>2 DEF On

\* resched() leaves exactly one current process and a ready list that agrees
\* with the states, from any caller.
LEMMA ReschedSliceStep ==
    ASSUME currpid \in Pid, prprio \in [Pid -> Int],
           NEW st, NEW rl, NEW keys, NEW slice \in 1 .. QUANTUM + 1,
           Handed(st, rl, keys), ReschedSlice(st, rl, keys, slice)
    PROVE  SchedOK' /\ Kept(st)
<1> DEFINE runs == st[currpid] = "CURR"
           keep == runs /\ (rl # <<>> => prprio[currpid] > keys[Head(rl)])
           queue == IF runs THEN Insert(rl, keys, currpid, prprio[currpid]) ELSE rl
           next == Head(queue)
<1>1. CASE /\ keep
           /\ prstate' = st /\ readylist' = rl /\ qkey' = keys
           /\ preempt' = slice
           /\ UNCHANGED currpid
  BY <1>1 DEF SchedOK, Handed, Kept
<1>2. CASE /\ ~keep
           /\ currpid' = next
           /\ readylist' = Tail(queue)
           /\ prstate' = [st EXCEPT ![currpid] = IF runs THEN "READY" ELSE @,
                                    ![next] = "CURR"]
           /\ qkey' = IF runs THEN [keys EXCEPT ![currpid] = prprio[currpid]]
                              ELSE keys
           /\ preempt' = QUANTUM
  <2> DEFINE mid == [st EXCEPT ![currpid] = IF runs THEN "READY" ELSE @]
  <2>1. mid \in [Pid -> States] /\ \A p \in Pid : mid[p] # "CURR"
    BY DEF Handed, States
  <2>2. /\ queue \in Seq(Pid) /\ queue # <<>> /\ Unique(queue)
        /\ \A p \in Pid : On(queue, p) <=> mid[p] = "READY"
    <3>1. CASE runs
      <4>1. ~On(rl, currpid)
        BY <3>1 DEF Handed
      <4> QED
        BY <3>1, <4>1, InsertQueue DEF Handed
    <3>2. CASE ~runs
      BY <3>2, SomebodyReady DEF Handed
    <3> QED
      BY <3>1, <3>2
  <2> HIDE DEF queue
  <2>3. /\ next \in Pid /\ mid[next] = "READY"
        /\ Tail(queue) \in Seq(Pid) /\ Unique(Tail(queue))
        /\ \A p \in Pid : On(Tail(queue), p) <=> mid[p] = "READY" /\ p # next
    BY <2>2, TailQueue
  <2>4. prstate' = [mid EXCEPT ![next] = "CURR"]
    BY <1>2
  <2>5. \A p \in Pid : mid[p] = st[p] \/ (st[p] \in Eligible /\ mid[p] \in Eligible)
    BY DEF Handed, Eligible
  <2>6. qkey' \in [Pid -> Int] /\ preempt' \in 1 .. QUANTUM + 1
    BY <1>2, SizeAssumption DEF Handed
  <2> HIDE DEF mid, next
  <2>7. /\ prstate' \in [Pid -> States]
        /\ \A p \in Pid : prstate'[p] = IF p = next THEN "CURR" ELSE mid[p]
    BY <2>1, <2>3, <2>4 DEF States
  <2>8. /\ \A p \in Pid : prstate'[p] = "CURR" <=> p = currpid'
        /\ \A p \in Pid : On(Tail(queue), p) <=> prstate'[p] = "READY"
    BY <1>2, <2>1, <2>3, <2>7
  <2>9. Kept(st)
    BY <2>3, <2>5, <2>7 DEF Kept, Eligible
  <2>10. prstate'[NULLPROC] \in Eligible
    BY <2>9, Processes DEF Kept, Handed
  <2> QED
    BY <1>2, <2>3, <2>6, <2>7, <2>8, <2>9, <2>10 DEF SchedOK
<1> QED
  BY <1>1, <1>2 DEF ReschedSlice

\* resched() with the slice the current process has left.
LEMMA ReschedStep ==
    ASSUME SchedOK, RestOK, NEW st, NEW rl, NEW keys,
           Handed(st, rl, keys), Resched(st, rl, keys)
    PROVE  SchedOK' /\ Kept(st)
  BY ReschedSliceStep DEF Resched, SchedOK, RestOK

\* What the system leaves between calls may be handed to resched().
LEMMA HandedAsIs ==
    ASSUME SchedOK PROVE Handed(prstate, readylist, qkey)
  BY DEF SchedOK, Handed

\* A process that is not eligible is made ready; the processor may go to it.
LEMMA ReadyYesStep ==
    ASSUME SchedOK, RestOK, NEW p \in Pid, prstate[p] \notin Eligible, ReadyYes(p)
    PROVE  SchedOK' /\ Kept([prstate EXCEPT ![p] = "READY"])
<1> DEFINE st == [prstate EXCEPT ![p] = "READY"]
           rl == Insert(readylist, qkey, p, prprio[p])
           keys == [qkey EXCEPT ![p] = prprio[p]]
<1>1. ~On(readylist, p)
  BY DEF SchedOK, Eligible
<1>2. /\ rl \in Seq(Pid) /\ Unique(rl)
      /\ \A r \in Pid : On(rl, r) <=> On(readylist, r) \/ r = p
  BY <1>1, InsertQueue DEF SchedOK
<1>3. st \in [Pid -> States] /\ keys \in [Pid -> Int]
  BY DEF SchedOK, RestOK, States
<1> HIDE DEF rl, keys
<1>4. Handed(st, rl, keys)
  BY <1>2, <1>3, Processes DEF Handed, SchedOK, Eligible
<1>5. Resched(st, rl, keys)
  BY DEF ReadyYes, rl, keys
<1> HIDE DEF st
<1>6. SchedOK' /\ Kept(st)
  BY <1>4, <1>5, ReschedStep
<1> QED
  BY <1>6 DEF st

\* A process that is not eligible is made ready while loops go on.
LEMMA ReadyNoStep ==
    ASSUME SchedOK, RestOK, NEW p \in Pid, prstate[p] \notin Eligible,
           NEW keys \in [Pid -> Int], ReadyNo(p, keys)
    PROVE  SchedOK' /\ Kept([prstate EXCEPT ![p] = "READY"])
<1>1. ~On(readylist, p)
  BY DEF SchedOK, Eligible
<1>2. /\ readylist' \in Seq(Pid) /\ Unique(readylist')
      /\ \A r \in Pid : On(readylist', r) <=> On(readylist, r) \/ r = p
  BY <1>1, InsertQueue DEF SchedOK, ReadyNo
<1>3. prstate' \in [Pid -> States] /\ qkey' \in [Pid -> Int]
  BY DEF SchedOK, RestOK, States, ReadyNo
<1>4. \A r \in Pid : prstate'[r] = IF r = p THEN "READY" ELSE prstate[r]
  BY DEF ReadyNo, SchedOK
<1>5. currpid' = currpid /\ preempt' = preempt
  BY DEF ReadyNo
<1>6. SchedOK'
  BY <1>2, <1>3, <1>4, <1>5, Processes DEF SchedOK, Eligible
<1>7. Kept([prstate EXCEPT ![p] = "READY"])
  BY DEF Kept, ReadyNo
<1> QED
  BY <1>6, <1>7

\* A user process blocks: the processor goes to the first ready process.
LEMMA BlockStep ==
    ASSUME SchedOK, RestOK, currpid # NULLPROC,
           NEW s \in States \ Eligible, NEW keys \in [Pid -> Int],
           Resched([prstate EXCEPT ![currpid] = s], readylist, keys)
    PROVE  SchedOK' /\ Kept([prstate EXCEPT ![currpid] = s])
<1> DEFINE st == [prstate EXCEPT ![currpid] = s]
<1>1. st \in [Pid -> States]
  BY DEF SchedOK
<1>2. \A p \in Pid : st[p] = IF p = currpid THEN s ELSE prstate[p]
  BY DEF SchedOK
<1> HIDE DEF st
<1>3. Handed(st, readylist, keys)
  BY <1>1, <1>2, Processes DEF Handed, SchedOK, Eligible
<1>4. SchedOK' /\ Kept(st)
  BY <1>3, ReschedStep DEF st
<1> QED
  BY <1>4 DEF st

-----------------------------------------------------------------------------
(* Small facts every action uses.                                           *)

Queued == {"SLEEP", "RECTIM", "WAIT"}

\* A step that moves no process into or out of a wait leaves the sleep queue
\* and the semaphore queues in agreement with the states.
LEMMA QueuesSame ==
    ASSUME SleepOK, SemOK, NEW st, Kept(st),
           \A p \in Pid : \/ st[p] = prstate[p]
                          \/ st[p] \notin Queued /\ prstate[p] \notin Queued,
           UNCHANGED <<sleepq, squeue, prsem>>
    PROVE  SleepOK' /\ SemOK'
<1>1. \A p \in Pid : \A q \in Queued : prstate'[p] = q <=> prstate[p] = q
  BY DEF Kept, Eligible, Queued
<1> QED
  BY <1>1 DEF SleepOK, SemOK, Queued

\* A step that touches no state of a process and no queue keeps the agreement.
LEMMA SchedSame ==
    ASSUME SchedOK, SleepOK, SemOK, UNCHANGED <<schedVars, sleepq, squeue, prsem>>
    PROVE  SchedOK' /\ SleepOK' /\ SemOK'
  BY DEF SchedOK, SleepOK, SemOK, schedVars

\* The frame on top of a stack, and the stacks push, pop and replace leave.
LEMMA Stacks ==
    ASSUME SchedOK, RestOK
    PROVE  /\ \A f \in Frame : Push(f) => kstack' \in [Pid -> Seq(Frame)]
           /\ kstack[currpid] # <<>> =>
                /\ Top \in Frame
                /\ Pop => kstack' \in [Pid -> Seq(Frame)]
                /\ \A f \in Frame : Replace(f) => kstack' \in [Pid -> Seq(Frame)]
<1>1. kstack[currpid] \in Seq(Frame) /\ currpid \in Pid /\ kstack \in [Pid -> Seq(Frame)]
  BY DEF SchedOK, RestOK
<1>2. \A f \in Frame, s \in Seq(Frame) : <<f>> \o s \in Seq(Frame)
  BY ConcatProperties
<1>3. kstack[currpid] # <<>> => Top \in Frame /\ Tail(kstack[currpid]) \in Seq(Frame)
  BY <1>1, HeadTailProperties DEF Top
<1> QED
  BY <1>1, <1>2, <1>3 DEF Push, Pop, Replace

\* No frame of a stack, or of any stack, is of one of these calls.
Without(stack, names) == \A i \in DOMAIN stack : stack[i].at \notin names
Nowhere(names) == \A p \in Pid : Without(kstack[p], names)

\* A stack is its top frame and the rest.
LEMMA StackTops ==
    ASSUME NEW s \in Seq(Frame), NEW names
    PROVE  /\ Without(<<>>, names)
           /\ s # <<>> =>
                /\ Head(s) \in Frame /\ Tail(s) \in Seq(Frame)
                /\ Without(s, names) <=> Head(s).at \notin names /\ Without(Tail(s), names)
           /\ \A f \in Frame :
                /\ <<f>> \o s \in Seq(Frame) /\ <<f>> \o s # <<>>
                /\ Head(<<f>> \o s) = f /\ Tail(<<f>> \o s) = s
<1>1. Without(<<>>, names)
  BY DEF Without
<1>2. ASSUME s # <<>>
      PROVE  /\ Head(s) \in Frame /\ Tail(s) \in Seq(Frame)
             /\ Without(s, names) <=> Head(s).at \notin names /\ Without(Tail(s), names)
  <2> DEFINE t == Tail(s)
  <2>1. /\ Len(s) \in Nat /\ Len(s) >= 1 /\ DOMAIN s = 1 .. Len(s)
        /\ Head(s) = s[1] /\ Head(s) \in Frame
        /\ t \in Seq(Frame) /\ Len(t) = Len(s) - 1
        /\ \A i \in 1 .. Len(t) : t[i] = s[i + 1]
    <3>1. Len(s) \in Nat /\ DOMAIN s = 1 .. Len(s) /\ (Len(s) = 0 => s = <<>>)
      BY LenProperties, EmptySeq
    <3> QED
      BY <1>2, <3>1, HeadTailProperties
  <2>2. DOMAIN t = 1 .. Len(s) - 1
    BY <2>1, LenProperties
  <2> HIDE DEF t
  <2>3. ASSUME Without(s, names) PROVE Head(s).at \notin names /\ Without(t, names)
    BY <2>1, <2>2, <2>3 DEF Without
  <2>4. ASSUME Head(s).at \notin names, Without(t, names) PROVE Without(s, names)
    <3> SUFFICES ASSUME NEW i \in 1 .. Len(s) PROVE s[i].at \notin names
      BY <2>1 DEF Without
    <3>1. CASE i = 1
      BY <2>1, <2>4, <3>1
    <3>2. CASE i # 1
      <4>1. i - 1 \in DOMAIN t /\ t[i - 1] = s[i]
        BY <2>1, <2>2, <3>2
      <4> QED
        BY <2>4, <4>1 DEF Without
    <3> QED
      BY <3>1, <3>2
  <2> QED
    BY <2>1, <2>3, <2>4 DEF t
<1>3. ASSUME NEW f \in Frame
      PROVE  /\ <<f>> \o s \in Seq(Frame) /\ <<f>> \o s # <<>>
             /\ Head(<<f>> \o s) = f /\ Tail(<<f>> \o s) = s
  <2> DEFINE t == <<f>> \o s
  <2>1. <<f>> \in Seq(Frame) /\ Len(<<f>>) = 1 /\ <<f>>[1] = f
    OBVIOUS
  <2>2. Len(s) \in Nat /\ DOMAIN s = 1 .. Len(s)
    BY LenProperties
  <2>3. /\ t \in Seq(Frame) /\ Len(t) = Len(s) + 1
        /\ t[1] = f
        /\ \A i \in 1 .. Len(s) : t[i + 1] = s[i]
    <3>1. /\ t \in Seq(Frame) /\ Len(t) = Len(<<f>>) + Len(s)
          /\ \A i \in 1 .. Len(<<f>>) + Len(s) :
               t[i] = IF i <= Len(<<f>>) THEN <<f>>[i] ELSE s[i - Len(<<f>>)]
      BY <2>1, ConcatProperties
    <3> HIDE DEF t
    <3> QED
      BY <2>1, <2>2, <3>1
  <2> HIDE DEF t
  <2>4. t # <<>>
    BY <2>2, <2>3, EmptySeq
  <2>5. /\ Head(t) = t[1] /\ Tail(t) \in Seq(Frame) /\ Len(Tail(t)) = Len(t) - 1
        /\ \A i \in 1 .. Len(Tail(t)) : Tail(t)[i] = t[i + 1]
    BY <2>3, <2>4, HeadTailProperties
  <2>6. Len(Tail(t)) = Len(s) /\ \A i \in 1 .. Len(s) : Tail(t)[i] = s[i]
    BY <2>2, <2>3, <2>5
  <2>7. Tail(t) = s
    BY <2>5, <2>6, SeqEqual, SMT
  <2> QED
    BY <2>3, <2>4, <2>5, <2>7 DEF t
<1> QED
  BY <1>1, <1>2, <1>3

\* Frames of other names come and go.
LEMMA StacksWithout ==
    ASSUME SchedOK, RestOK, NEW names, Nowhere(names)
    PROVE  /\ UNCHANGED kstack => Nowhere(names)'
           /\ \A f \in Frame : f.at \notin names /\ Push(f) => Nowhere(names)'
           /\ kstack[currpid] # <<>> /\ Pop => Nowhere(names)'
           /\ \A f \in Frame :
                f.at \notin names /\ kstack[currpid] # <<>> /\ Replace(f) => Nowhere(names)'
<1> DEFINE s == kstack[currpid]
<1>1. /\ currpid \in Pid /\ kstack \in [Pid -> Seq(Frame)]
      /\ \A p \in Pid : Without(kstack[p], names)
      /\ s \in Seq(Frame) /\ Without(s, names)
  BY DEF SchedOK, RestOK, Nowhere
<1> HIDE DEF s
<1>2. ASSUME NEW t, Without(t, names), kstack' = [kstack EXCEPT ![currpid] = t]
      PROVE  Nowhere(names)'
  BY <1>1, <1>2 DEF Nowhere
<1>3. ASSUME UNCHANGED kstack PROVE Nowhere(names)'
  BY <1>1, <1>3 DEF Nowhere
<1>4. ASSUME NEW f \in Frame, f.at \notin names, NEW t \in Seq(Frame), Without(t, names)
      PROVE  Without(<<f>> \o t, names)
  <2> DEFINE u == <<f>> \o t
  <2>1. u \in Seq(Frame) /\ u # <<>> /\ Head(u) = f /\ Tail(u) = t
    BY StackTops
  <2> HIDE DEF u
  <2>2. Without(u, names) <=> Head(u).at \notin names /\ Without(Tail(u), names)
    BY <2>1, StackTops
  <2> QED
    BY <1>4, <2>1, <2>2 DEF u
<1>5. s # <<>> => Tail(s) \in Seq(Frame) /\ Without(Tail(s), names)
  BY <1>1, StackTops
<1>6. ASSUME NEW f \in Frame, f.at \notin names, Push(f) PROVE Nowhere(names)'
  <2>1. kstack' = [kstack EXCEPT ![currpid] = <<f>> \o s]
    BY <1>6 DEF Push, s
  <2> QED
    BY <1>1, <1>2, <1>4, <1>6, <2>1
<1>7. ASSUME s # <<>>, Pop PROVE Nowhere(names)'
  <2>1. kstack' = [kstack EXCEPT ![currpid] = Tail(s)]
    BY <1>7 DEF Pop, s
  <2> QED
    BY <1>2, <1>5, <1>7, <2>1
<1>8. ASSUME NEW f \in Frame, f.at \notin names, s # <<>>, Replace(f) PROVE Nowhere(names)'
  <2>1. kstack' = [kstack EXCEPT ![currpid] = <<f>> \o Tail(s)]
    BY <1>8 DEF Replace, s
  <2> QED
    BY <1>2, <1>4, <1>5, <1>8, <2>1
<1> QED
  BY <1>3, <1>6, <1>7, <1>8 DEF s

\* What the frame of each call says.
LEMMA Frames ==
    /\ \A at \in {"create", "receive", "recvtime", "wakeup", "preempt"} :
         NewFrame(at, 0, 0) \in Frame
    /\ \A p \in Pid : NewFrame("resume", p, 0) \in Frame
    /\ \A p \in Pid \ {NULLPROC} : NewFrame("kill", p, 0) \in Frame
    /\ \A at \in {"signaln", "semdelete", "semreset"}, s \in Sem, n \in Nat :
         NewFrame(at, s, n) \in Frame
    /\ \A f \in Frame :
         /\ f.at = "resume" => f.arg \in Pid
         /\ f.at = "kill" => f.arg \in Pid \ {NULLPROC}
         /\ f.at \in {"signaln", "semdelete", "semreset"} => f.arg \in Sem /\ f.cnt \in Nat
  BY DEF Frame, NewFrame

\* newpid() returns a free slot if there is one.
LEMMA NewPidFree ==
    ASSUME NEW i \in Nat, FreeFrom(i) # {}
    PROVE  NewPid(i) \in Pid /\ prstate[NewPid(i)] = "FREE"
<1> DEFINE free == FreeFrom(i)
           first == CHOOSE k \in free : \A m \in free : k <= m
<1>1. free \subseteq Nat
  BY SizeAssumption DEF FreeFrom
<1> HIDE DEF free
<1>4. first \in free
  BY <1>1, LeastNumber DEF free
<1> HIDE DEF first
<1>5. first \in 0 .. NPROC - 1 /\ prstate[(i + first) % NPROC] = "FREE"
  BY <1>4 DEF free, FreeFrom
<1>6. NewPid(i) = (i + first) % NPROC
  BY DEF NewPid, first, free
<1>7. i + first \in Nat /\ NPROC \in Nat \ {0}
  BY <1>5, SizeAssumption
<1>8. (i + first) % NPROC \in 0 .. NPROC - 1
  BY <1>7
<1> QED
  BY <1>5, <1>6, <1>8 DEF Pid

\* newsem() returns a semaphore if there is a free one.
LEMMA NewSemFree ==
    ASSUME NEW i \in Nat, FreeSemFrom(i) # {}
    PROVE  NewSem(i) \in Sem /\ sstate[NewSem(i)] = "FREE"
<1> DEFINE free == FreeSemFrom(i)
           first == CHOOSE k \in free : \A m \in free : k <= m
<1>1. free \subseteq Nat
  BY SizeAssumption DEF FreeSemFrom
<1> HIDE DEF free
<1>4. first \in free
  BY <1>1, LeastNumber DEF free
<1> HIDE DEF first
<1>5. first \in 0 .. NSEM - 1 /\ sstate[(i + first) % NSEM] = "FREE"
  BY <1>4 DEF free, FreeSemFrom
<1>6. NewSem(i) = (i + first) % NSEM
  BY DEF NewSem, first, free
<1>7. i + first \in Nat /\ NSEM \in Nat \ {0}
  BY <1>5, SizeAssumption
<1>8. (i + first) % NSEM \in 0 .. NSEM - 1
  BY <1>7
<1> QED
  BY <1>5, <1>6, <1>8 DEF Sem

-----------------------------------------------------------------------------
(* Every operation keeps the invariant.  Each lemma is about the whole      *)
(* operation, with the reschedule it ends in.                               *)

\* create() and its failure: a free slot becomes a suspended process, on no
\* queue.
LEMMA MakeProcessStep ==
    ASSUME IInv, FreeFrom(nextpid) # {}, NEW priority \in Int,
           MakeProcess(NewPid(nextpid), priority),
           UNCHANGED <<prsem, qkey, readylist, sleepq, currpid, preempt, semVars,
                       ie, halted>>,
           kstack' \in [Pid -> Seq(Frame)]
    PROVE  IInv'
<1> DEFINE pid == NewPid(nextpid)
<1>1. pid \in Pid /\ prstate[pid] = "FREE"
  BY NewPidFree DEF IInv, RestOK
<1> HIDE DEF pid
<1>2. prstate' = [prstate EXCEPT ![pid] = "SUSP"]
  BY DEF MakeProcess, pid
<1>3. /\ prstate' \in [Pid -> States]
      /\ \A p \in Pid : prstate'[p] = IF p = pid THEN "SUSP" ELSE prstate[p]
  BY <1>1, <1>2 DEF IInv, SchedOK, States
<1>4. SchedOK'
  BY <1>1, <1>3, Processes DEF IInv, SchedOK, Eligible
<1>5. SleepOK' /\ SemOK'
  BY <1>1, <1>3 DEF IInv, SleepOK, SemOK, semVars
<1>6. nextpid' \in 1 .. NPROC /\ prcount' \in Int
  <2>1. nextpid' = pid + 1 /\ prcount' = prcount + 1
    BY Zenon DEF MakeProcess, pid
  <2> QED
    BY <1>1, <2>1, SizeAssumption DEF IInv, RestOK, Pid
<1>7. /\ prprio' \in [Pid -> Int] /\ prparent' \in [Pid -> Pid]
      /\ prhasmsg' \in [Pid -> BOOLEAN]
  BY <1>1 DEF MakeProcess, IInv, RestOK, SchedOK, pid
<1>8. RestOK'
  BY <1>6, <1>7 DEF IInv, RestOK, semVars
<1> QED
  BY <1>4, <1>5, <1>8 DEF IInv

\* nulluser(), create() and the getstk() failure of create()
LEMMA CreateSteps ==
    ASSUME IInv, NullCreate \/ (\E n \in Prios : Create(n)) \/ CreateNoStack
    PROVE  IInv'
<1>1. CASE NullCreate
  <2>1. NewPid(nextpid) \in Pid
    BY <1>1, NewPidFree DEF NullCreate, IInv, RestOK
  <2>2. kstack' \in [Pid -> Seq(Frame)]
    BY <1>1, <2>1, Stacks, Frames DEF NullCreate, IInv, At
  <2>3. INITPRIO \in Int
    BY ArgumentAssumption
  <2> QED
    BY <1>1, <2>2, <2>3, MakeProcessStep DEF NullCreate
<1>2. ASSUME NEW n \in Prios, Create(n) PROVE IInv'
  <2>1. n \in Int /\ kstack' \in [Pid -> Seq(Frame)]
    BY <1>2, ArgumentAssumption DEF Create, IInv, RestOK
  <2> QED
    BY <1>2, <2>1, MakeProcessStep DEF Create
<1>3. CASE CreateNoStack
  <2> DEFINE pid == NewPid(nextpid)
  <2>1. FreeFrom(nextpid) # {} /\ nextpid' = pid + 1
    BY <1>3, Zenon DEF CreateNoStack
  <2>2. pid \in Pid
    BY <2>1, NewPidFree DEF IInv, RestOK
  <2> HIDE DEF pid
  <2>3. nextpid' \in 1 .. NPROC
    BY <2>1, <2>2, SizeAssumption DEF Pid
  <2>4. SchedOK' /\ SleepOK' /\ SemOK'
    BY <1>3, SchedSame DEF CreateNoStack, IInv, semVars
  <2> QED
    BY <1>3, <2>3, <2>4 DEF CreateNoStack, IInv, RestOK, semVars
<1> QED
  BY <1>1, <1>2, <1>3

\* resume(), of main() by nulluser() as well
LEMMA ResumeSteps ==
    ASSUME IInv, NullResume \/ \E p \in Pid : Resume(p)
    PROVE  IInv'
<1>1. ASSUME NEW p \in Pid, prstate[p] = "SUSP", ReadyYes(p),
             UNCHANGED <<prsem, prhasmsg, sleepq, idVars, semVars, ie>>,
             kstack' \in [Pid -> Seq(Frame)]
      PROVE  IInv'
  <2>1. SchedOK' /\ Kept([prstate EXCEPT ![p] = "READY"])
    BY <1>1, ReadyYesStep DEF IInv, Eligible
  <2>2. SleepOK' /\ SemOK'
    BY <1>1, <2>1, QueuesSame DEF IInv, SchedOK, Queued, semVars
  <2> QED
    BY <1>1, <2>1, <2>2 DEF IInv, RestOK, idVars, semVars
<1>2. CASE NullResume
  <2>1. Top.arg \in Pid /\ kstack' \in [Pid -> Seq(Frame)]
    BY <1>2, Stacks, Frames DEF NullResume, IInv, At
  <2> QED
    BY <1>1, <1>2, <2>1 DEF NullResume
<1>3. ASSUME NEW p \in Pid, Resume(p) PROVE IInv'
  BY <1>1, <1>3 DEF Resume, IInv, RestOK
<1> QED
  BY <1>2, <1>3

\* suspend() of a ready process takes it off the ready list.
LEMMA SuspendReadyStep ==
    ASSUME IInv, NEW pid \in Pid, SuspendReady(pid)
    PROVE  IInv'
<1>1. On(readylist, pid) /\ pid # NULLPROC /\ prstate[pid] = "READY"
  BY DEF IInv, SchedOK, SuspendReady
<1>2. /\ readylist' \in Seq(Pid) /\ Unique(readylist')
      /\ \A p \in Pid : On(readylist', p) <=> On(readylist, p) /\ p # pid
  BY <1>1, GetItemQueue DEF IInv, SchedOK, SuspendReady
<1>3. /\ prstate' \in [Pid -> States]
      /\ \A p \in Pid : prstate'[p] = IF p = pid THEN "SUSP" ELSE prstate[p]
  BY DEF IInv, SchedOK, SuspendReady, States
<1>4. SchedOK'
  BY <1>1, <1>2, <1>3, Processes DEF IInv, SchedOK, SuspendReady, Eligible
<1>5. SleepOK' /\ SemOK'
  BY <1>1, <1>3 DEF IInv, SleepOK, SemOK, SuspendReady, semVars
<1> QED
  BY <1>4, <1>5 DEF IInv, RestOK, SuspendReady, idVars, semVars

\* suspend() of the caller, yield() and chprio()
LEMMA SchedulingSteps ==
    ASSUME IInv, SuspendSelf \/ Yield \/ \E p \in Pid, n \in ChPrios : Chprio(p, n)
    PROVE  IInv'
<1>1. CASE SuspendSelf
  <2>1. SchedOK' /\ Kept([prstate EXCEPT ![currpid] = "SUSP"])
    BY <1>1, BlockStep DEF SuspendSelf, Block, User, IInv, SchedOK, States, Eligible
  <2>2. SleepOK' /\ SemOK'
    BY <1>1, <2>1, QueuesSame DEF SuspendSelf, IInv, SchedOK, Queued, semVars
  <2> QED
    BY <1>1, <2>1, <2>2 DEF SuspendSelf, IInv, RestOK, idVars, semVars
<1>2. CASE Yield
  <2>1. SchedOK' /\ Kept(prstate)
    BY <1>2, ReschedStep, HandedAsIs DEF Yield, IInv
  <2>2. SleepOK' /\ SemOK'
    BY <1>2, <2>1, QueuesSame DEF Yield, IInv, semVars
  <2> QED
    BY <1>2, <2>1, <2>2 DEF Yield, IInv, RestOK, idVars, semVars
<1>3. ASSUME NEW p \in Pid, NEW n \in ChPrios, Chprio(p, n) PROVE IInv'
  <2>1. SchedOK' /\ SleepOK' /\ SemOK'
    BY <1>3, SchedSame DEF Chprio, IInv, semVars
  <2>2. prprio' \in [Pid -> Int]
    BY <1>3, ArgumentAssumption DEF Chprio, IInv, RestOK
  <2> QED
    BY <1>3, <2>1, <2>2 DEF Chprio, IInv, RestOK, semVars
<1> QED
  BY <1>1, <1>2, <1>3

\* send(): a receiver with a timeout leaves the sleep queue as it is made ready.
LEMMA SendToStep ==
    ASSUME IInv, NEW pid \in Pid, SendTo(pid), UNCHANGED <<squeue, prsem>>
    PROVE  SchedOK' /\ SleepOK' /\ SemOK' /\ prhasmsg' \in [Pid -> BOOLEAN]
<1>1. CASE prstate[pid] = "FREE" \/ prhasmsg[pid]
  <2>1. UNCHANGED <<schedVars, sleepq, squeue, prsem, prhasmsg>>
    BY <1>1 DEF SendTo
  <2> QED
    BY <2>1, SchedSame DEF IInv, RestOK
<1>2. CASE ~(prstate[pid] = "FREE" \/ prhasmsg[pid])
  <2>1. prhasmsg' \in [Pid -> BOOLEAN]
    BY <1>2 DEF SendTo, IInv, RestOK
  <2>2. CASE prstate[pid] \notin {"RECV", "RECTIM"}
    <3>1. UNCHANGED <<schedVars, sleepq, squeue, prsem>>
      BY <1>2, <2>2 DEF SendTo
    <3> QED
      BY <2>1, <3>1, SchedSame DEF IInv
  <2>3. CASE prstate[pid] = "RECV"
    <3>1. ReadyYes(pid) /\ sleepq' = sleepq
      BY <1>2, <2>3 DEF SendTo
    <3>2. SchedOK' /\ Kept([prstate EXCEPT ![pid] = "READY"])
      BY <2>3, <3>1, ReadyYesStep DEF IInv, Eligible
    <3> QED
      BY <2>1, <2>3, <3>1, <3>2, QueuesSame DEF IInv, SchedOK, Queued
  <2>4. CASE prstate[pid] = "RECTIM"
    <3>1. ReadyYes(pid) /\ sleepq' = GetItem(sleepq, pid)
      BY <1>2, <2>4 DEF SendTo
    <3>2. SchedOK' /\ Kept([prstate EXCEPT ![pid] = "READY"])
      BY <2>4, <3>1, ReadyYesStep DEF IInv, Eligible
    <3>3. \A p \in Pid : \A q \in Queued :
            prstate'[p] = q <=> prstate[p] = q /\ p # pid
      BY <3>2 DEF Kept, Eligible, Queued, IInv, SchedOK
    <3>4. /\ sleepq' \in Seq(Pid) /\ Unique(sleepq')
          /\ \A p \in Pid : On(sleepq', p) <=> On(sleepq, p) /\ p # pid
      BY <2>4, <3>1, GetItemQueue DEF IInv, SleepOK
    <3>5. SleepOK'
      BY <3>3, <3>4 DEF IInv, SleepOK, Queued
    <3>6. SemOK'
      BY <2>4, <3>3 DEF IInv, SemOK, Queued
    <3> QED
      BY <2>1, <3>2, <3>5, <3>6
  <2> QED
    BY <2>2, <2>3, <2>4
<1> QED
  BY <1>1, <1>2

\* The calls about messages that do not block, and the returns of those that do
LEMMA MessageSteps ==
    ASSUME IInv,
           (\E p \in Pid : Send(p)) \/ TakeMessage \/ ReceiveReturn \/ RecvtimeReturn
    PROVE  IInv'
<1>1. ASSUME NEW p \in Pid, Send(p) PROVE IInv'
  <2>1. SchedOK' /\ SleepOK' /\ SemOK' /\ prhasmsg' \in [Pid -> BOOLEAN]
    BY <1>1, SendToStep DEF Send, semVars
  <2> QED
    BY <1>1, <2>1 DEF Send, IInv, RestOK, idVars, semVars
<1>2. ASSUME UNCHANGED <<schedVars, prsem, sleepq, idVars, semVars, ie>>,
             prhasmsg' = [prhasmsg EXCEPT ![currpid] = FALSE],
             kstack' \in [Pid -> Seq(Frame)]
      PROVE  IInv'
  <2>1. SchedOK' /\ SleepOK' /\ SemOK'
    BY <1>2, SchedSame DEF IInv, semVars
  <2>2. prhasmsg' \in [Pid -> BOOLEAN]
    BY <1>2 DEF IInv, RestOK, SchedOK
  <2> QED
    BY <1>2, <2>1, <2>2 DEF IInv, RestOK, idVars, semVars
<1>3. CASE TakeMessage
  BY <1>2, <1>3 DEF TakeMessage, IInv, RestOK
<1>4. CASE ReceiveReturn \/ RecvtimeReturn
  <2>1. kstack' \in [Pid -> Seq(Frame)]
    BY <1>4, Stacks DEF ReceiveReturn, RecvtimeReturn, At, IInv
  <2> QED
    BY <1>2, <1>4, <2>1 DEF ReceiveReturn, RecvtimeReturn
<1> QED
  BY <1>1, <1>3, <1>4

\* A caller that goes to sleep is put on the sleep queue, once.
LEMMA SleepInStep ==
    ASSUME IInv, currpid # NULLPROC, NEW state \in {"SLEEP", "RECTIM"},
           NEW delay \in Int, SleepIn(state, delay), UNCHANGED <<squeue, prsem>>
    PROVE  SchedOK' /\ SleepOK' /\ SemOK'
<1>1. currpid \in Pid /\ prstate[currpid] = "CURR"
  BY DEF IInv, SchedOK
<1>2. [qkey EXCEPT ![currpid] = delay] \in [Pid -> Int] /\ state \in States \ Eligible
  BY DEF IInv, SchedOK, States, Eligible
<1>3. SchedOK' /\ Kept([prstate EXCEPT ![currpid] = state])
  BY <1>2, BlockStep DEF SleepIn, IInv
<1>4. \A p \in Pid : \A q \in Queued :
        prstate'[p] = q <=> IF p = currpid THEN q = state ELSE prstate[p] = q
  BY <1>1, <1>3 DEF Kept, Eligible, Queued, IInv, SchedOK
<1>5. /\ sleepq' \in Seq(Pid) /\ Unique(sleepq')
      /\ \A p \in Pid : On(sleepq', p) <=> On(sleepq, p) \/ p = currpid
  BY <1>1, InsertdQueue DEF SleepIn, IInv, SleepOK
<1>6. SleepOK'
  BY <1>4, <1>5 DEF IInv, SleepOK, Queued
<1>7. SemOK'
  BY <1>1, <1>4 DEF IInv, SemOK, Queued
<1> QED
  BY <1>3, <1>6, <1>7

\* receive(), recvtime() and sleepms() give up the processor.
LEMMA BlockingSteps ==
    ASSUME IInv,
           \/ ReceiveBlock
           \/ \E d \in MaxWaits : RecvtimeBlock(d)
           \/ \E d \in Delays : Sleepms(d)
    PROVE  IInv'
<1>1. CASE ReceiveBlock
  <2>1. SchedOK' /\ Kept([prstate EXCEPT ![currpid] = "RECV"])
    BY <1>1, BlockStep DEF ReceiveBlock, Block, User, IInv, SchedOK, States, Eligible
  <2>2. SleepOK' /\ SemOK'
    BY <1>1, <2>1, QueuesSame DEF ReceiveBlock, IInv, SchedOK, Queued, semVars
  <2>3. kstack' \in [Pid -> Seq(Frame)]
    BY <1>1, Stacks, Frames DEF ReceiveBlock, IInv
  <2> QED
    BY <1>1, <2>1, <2>2, <2>3 DEF ReceiveBlock, IInv, RestOK, idVars, semVars
<1>2. ASSUME NEW d \in MaxWaits, RecvtimeBlock(d) PROVE IInv'
  <2>1. SchedOK' /\ SleepOK' /\ SemOK'
    BY <1>2, SleepInStep, ArgumentAssumption DEF RecvtimeBlock, User, semVars
  <2>2. kstack' \in [Pid -> Seq(Frame)]
    BY <1>2, Stacks, Frames DEF RecvtimeBlock, IInv
  <2> QED
    BY <1>2, <2>1, <2>2 DEF RecvtimeBlock, IInv, RestOK, idVars, semVars
<1>3. ASSUME NEW d \in Delays, Sleepms(d) PROVE IInv'
  <2>1. SchedOK' /\ SleepOK' /\ SemOK'
    BY <1>3, SleepInStep, ArgumentAssumption DEF Sleepms, User, semVars
  <2> QED
    BY <1>3, <2>1 DEF Sleepms, IInv, RestOK, idVars, semVars
<1> QED
  BY <1>1, <1>2, <1>3

\* kill(): the announcement to the parent, the halt, and the rest of a suicide
LEMMA ExitSteps ==
    ASSUME IInv, (\E p \in Pid : Kill(p) \/ KillLast(p)) \/ KillSelf
    PROVE  IInv'
<1>1. ASSUME NEW p \in Pid, KillLast(p) PROVE IInv'
  <2>1. SchedOK' /\ SleepOK' /\ SemOK'
    BY <1>1, SchedSame DEF KillLast, IInv, semVars
  <2> QED
    <3>1. prcount' \in Int
      BY <1>1 DEF KillLast, IInv, RestOK
    <3>2. halted' \in BOOLEAN /\ ie' \in BOOLEAN
      BY <1>1, Zenon DEF KillLast
    <3>3. UNCHANGED <<prprio, prhasmsg, prparent, sstate, scount, nextsem, nextpid, kstack>>
      BY <1>1 DEF KillLast, semVars
    <3> QED
      BY <2>1, <3>1, <3>2, <3>3 DEF IInv, RestOK
<1>2. ASSUME NEW p \in Pid, Kill(p) PROVE IInv'
  <2>1. prparent[p] \in Pid
    BY DEF IInv, RestOK
  <2>2. SchedOK' /\ SleepOK' /\ SemOK' /\ prhasmsg' \in [Pid -> BOOLEAN]
    BY <1>2, <2>1, SendToStep DEF Kill, semVars
  <2>3. kstack' \in [Pid -> Seq(Frame)]
    BY <1>2, Stacks, Frames DEF Kill, IInv
  <2> QED
    BY <1>2, <2>2, <2>3 DEF Kill, EnabledBySwitch, IInv, RestOK, semVars
<1>3. CASE KillSelf
  <2>1. currpid # NULLPROC
    BY <1>3, Stacks, Frames DEF KillSelf, At, IInv
  <2>2. SchedOK' /\ Kept([prstate EXCEPT ![currpid] = "FREE"])
    BY <1>3, <2>1, BlockStep DEF KillSelf, Block, IInv, SchedOK, States, Eligible
  <2>3. SleepOK' /\ SemOK'
    BY <1>3, <2>2, QueuesSame DEF KillSelf, IInv, SchedOK, Queued, semVars
  <2>4. kstack' \in [Pid -> Seq(Frame)]
    BY <1>3, EmptySeq DEF KillSelf, IInv, RestOK
  <2> QED
    BY <1>3, <2>2, <2>3, <2>4 DEF KillSelf, IInv, RestOK, idVars, semVars
<1> QED
  BY <1>1, <1>2, <1>3

\* kill() of another process takes it off the queue its state names.
LEMMA KillOtherStep ==
    ASSUME IInv, KillOther
    PROVE  IInv'
<1> DEFINE pid == Top.arg
           gone(q, q2) == /\ q2 \in Seq(Pid) /\ Unique(q2)
                          /\ \A p \in Pid : On(q2, p) <=> On(q, p) /\ p # pid
<1>1. pid \in Pid \ {NULLPROC} /\ pid # currpid /\ kstack[currpid] # <<>>
  BY Stacks, Frames DEF KillOther, At, IInv
<1>2. /\ sleepq' = IF prstate[pid] \in {"SLEEP", "RECTIM"}
                   THEN GetItem(sleepq, pid) ELSE sleepq
      /\ readylist' = IF prstate[pid] = "READY" THEN GetItem(readylist, pid)
                                                ELSE readylist
      /\ scount' = IF prstate[pid] = "WAIT" THEN [scount EXCEPT ![prsem[pid]] = @ + 1]
                                            ELSE scount
      /\ squeue' = IF prstate[pid] = "WAIT"
                   THEN [squeue EXCEPT ![prsem[pid]] = GetItem(@, pid)]
                   ELSE squeue
      /\ prstate' = [prstate EXCEPT ![pid] = "FREE"]
      /\ kstack' = [kstack EXCEPT ![pid] = <<>>, ![currpid] = Tail(@)]
      /\ ie' = TRUE
      /\ UNCHANGED <<qkey, currpid, preempt, idVars, prsem, prhasmsg, sstate, nextsem>>
  BY Zenon DEF KillOther
<1> HIDE DEF pid
<1>3. /\ prstate' \in [Pid -> States]
      /\ \A p \in Pid : prstate'[p] = IF p = pid THEN "FREE" ELSE prstate[p]
  BY <1>1, <1>2 DEF IInv, SchedOK, States
<1>4. gone(readylist, readylist')
  BY <1>1, <1>2, GetItemQueue DEF IInv, SchedOK
<1>5. gone(sleepq, sleepq')
  BY <1>1, <1>2, GetItemQueue DEF IInv, SleepOK
<1>6. squeue' \in [Sem -> Seq(Pid)] /\ \A s \in Sem : gone(squeue[s], squeue'[s])
  <2>1. CASE prstate[pid] = "WAIT"
    <3>1. prsem[pid] \in Sem /\ On(squeue[prsem[pid]], pid)
      BY <1>1, <2>1 DEF IInv, SemOK
    <3>2. gone(squeue[prsem[pid]], GetItem(squeue[prsem[pid]], pid))
      BY <1>1, <3>1, GetItemQueue DEF IInv, SemOK
    <3>3. ASSUME NEW s \in Sem, s # prsem[pid] PROVE gone(squeue[s], squeue[s])
      BY <1>1, <2>1, <3>3 DEF IInv, SemOK
    <3>4. squeue' = [squeue EXCEPT ![prsem[pid]] = GetItem(squeue[prsem[pid]], pid)]
      BY <1>2, <2>1
    <3> QED
      BY <3>1, <3>2, <3>3, <3>4 DEF IInv, SemOK
  <2>2. CASE prstate[pid] # "WAIT"
    BY <1>1, <1>2, <2>2 DEF IInv, SemOK
  <2> QED
    BY <2>1, <2>2
<1>7. SchedOK'
  BY <1>1, <1>2, <1>3, <1>4, Processes DEF IInv, SchedOK, Eligible
<1>8. SleepOK'
  BY <1>3, <1>5 DEF IInv, SleepOK
<1>9. SemOK'
  BY <1>2, <1>3, <1>6 DEF IInv, SemOK
<1>10. kstack' \in [Pid -> Seq(Frame)]
  <2>1. Tail(kstack[currpid]) \in Seq(Frame) /\ <<>> \in Seq(Frame)
    BY <1>1, HeadTailProperties, EmptySeq DEF IInv, SchedOK, RestOK
  <2> QED
    BY <1>1, <1>2, <2>1 DEF IInv, SchedOK, RestOK
<1>11. scount' \in [Sem -> Int]
  BY <1>1, <1>2 DEF IInv, SemOK, RestOK
<1> QED
  BY <1>2, <1>7, <1>8, <1>9, <1>10, <1>11 DEF IInv, RestOK, idVars

-----------------------------------------------------------------------------
(* Semaphores.                                                              *)

\* The first waiting process leaves the queue of its semaphore.
LEMMA ReleaseStep ==
    ASSUME IInv, NEW s \in Sem, squeue[s] # <<>>, DequeueWaiter(s),
           SchedOK', Kept([prstate EXCEPT ![Head(squeue[s])] = "READY"]),
           UNCHANGED <<sleepq, prsem>>
    PROVE  SleepOK' /\ SemOK'
<1> DEFINE first == Head(squeue[s])
<1>1. /\ first \in Pid /\ On(squeue[s], first)
      /\ Tail(squeue[s]) \in Seq(Pid) /\ Unique(Tail(squeue[s]))
      /\ \A p \in Pid : On(Tail(squeue[s]), p) <=> On(squeue[s], p) /\ p # first
  BY TailQueue DEF IInv, SemOK
<1>2. prstate[first] = "WAIT" /\ prsem[first] = s
  BY <1>1 DEF IInv, SemOK
<1> HIDE DEF first
<1>3. \A p \in Pid : \A q \in Queued : prstate'[p] = q <=> prstate[p] = q /\ p # first
  BY <1>1 DEF Kept, Eligible, Queued, IInv, SchedOK, first
<1>4. SleepOK'
  BY <1>2, <1>3 DEF IInv, SleepOK, Queued
<1>5. squeue' = [squeue EXCEPT ![s] = Tail(squeue[s])]
  BY DEF DequeueWaiter
<1>6. SemOK'
  BY <1>1, <1>2, <1>3, <1>5 DEF IInv, SemOK, Queued
<1> QED
  BY <1>4, <1>6

\* The process signal() and the loops release waits, and is not eligible.
LEMMA FirstWaits ==
    ASSUME IInv, NEW s \in Sem, squeue[s] # <<>>
    PROVE  Head(squeue[s]) \in Pid /\ prstate[Head(squeue[s])] \notin Eligible
  BY TailQueue DEF IInv, SemOK, Eligible

\* One turn of the loop in signaln(), semdelete() or semreset()
LEMMA LoopTurn ==
    ASSUME IInv, NEW s \in Sem, squeue[s] # <<>>, DequeueWaiter(s),
           ReadyNo(Head(squeue[s]), qkey), UNCHANGED <<sleepq, prsem>>
    PROVE  SchedOK' /\ SleepOK' /\ SemOK'
<1>1. SchedOK' /\ Kept([prstate EXCEPT ![Head(squeue[s])] = "READY"])
  BY FirstWaits, ReadyNoStep DEF IInv, SchedOK
<1> QED
  BY <1>1, ReleaseStep

\* The turn of a loop that signals: it may find nobody waiting.
LEMMA SignalTurn ==
    ASSUME IInv, NEW s \in Sem, UNCHANGED <<sleepq, prsem>>,
           IF Releases(s) THEN DequeueWaiter(s) /\ ReadyNo(Head(squeue[s]), qkey)
                          ELSE UNCHANGED <<squeue, schedVars>>
    PROVE  SchedOK' /\ SleepOK' /\ SemOK'
<1>1. CASE Releases(s)
  BY <1>1, LoopTurn DEF Releases
<1>2. CASE ~Releases(s)
  BY <1>2, SchedSame DEF IInv
<1> QED
  BY <1>1, <1>2

\* The calls on a semaphore up to their loop, and those without one
LEMMA SemaphoreCalls ==
    ASSUME IInv,
           \/ \E n \in Counts : Semcreate(n)
           \/ \E s \in Sem : WaitTake(s) \/ WaitBlock(s) \/ Signal(s) \/ Semdelete(s)
           \/ \E s \in Sem, n \in Counts : Signaln(s, n) \/ Semreset(s, n)
    PROVE  IInv'
<1>1. ASSUME NEW n \in Counts, Semcreate(n) PROVE IInv'
  <2> DEFINE sem == NewSem(nextsem)
  <2>1. FreeSemFrom(nextsem) # {} /\ nextsem \in Nat
    BY <1>1 DEF Semcreate, IInv, RestOK, Sem
  <2>2. sem \in Sem
    BY <2>1, NewSemFree
  <2>3. /\ nextsem' = (sem + 1) % NSEM
        /\ sstate' = [sstate EXCEPT ![sem] = "USED"]
        /\ scount' = [scount EXCEPT ![sem] = n]
        /\ UNCHANGED <<schedVars, idVars, prsem, prhasmsg, sleepq, squeue, kstack, ie>>
    BY <1>1, Zenon DEF Semcreate
  <2> HIDE DEF sem
  <2>4. SchedOK' /\ SleepOK' /\ SemOK'
    BY <2>3, SchedSame DEF IInv
  <2>5. nextsem' \in Sem
    BY <2>2, <2>3, SizeAssumption DEF Sem
  <2>6. sstate' \in [Sem -> {"FREE", "USED"}]
    BY <2>2, <2>3 DEF IInv, RestOK
  <2>7. scount' \in [Sem -> Int]
    BY <2>2, <2>3, ArgumentAssumption DEF IInv, RestOK
  <2> QED
    BY <2>3, <2>4, <2>5, <2>6, <2>7 DEF IInv, RestOK, idVars
<1>2. ASSUME NEW s \in Sem, WaitTake(s) PROVE IInv'
  <2>1. SchedOK' /\ SleepOK' /\ SemOK'
    BY <1>2, SchedSame DEF WaitTake, IInv
  <2>2. scount' \in [Sem -> Int]
    BY <1>2 DEF WaitTake, IInv, RestOK
  <2> QED
    BY <1>2, <2>1, <2>2 DEF WaitTake, IInv, RestOK, idVars
<1>3. ASSUME NEW s \in Sem, WaitBlock(s) PROVE IInv'
  <2>1. currpid \in Pid /\ prstate[currpid] = "CURR" /\ currpid # NULLPROC
    BY <1>3 DEF WaitBlock, User, IInv, SchedOK
  <2>2. SchedOK' /\ Kept([prstate EXCEPT ![currpid] = "WAIT"])
    BY <1>3, <2>1, BlockStep DEF WaitBlock, Block, IInv, SchedOK, States, Eligible
  <2>3. \A p \in Pid : \A q \in Queued :
          prstate'[p] = q <=> IF p = currpid THEN q = "WAIT" ELSE prstate[p] = q
    BY <2>1, <2>2 DEF Kept, Eligible, Queued, IInv, SchedOK
  <2>4. SleepOK'
    BY <1>3, <2>1, <2>3 DEF WaitBlock, IInv, SleepOK, Queued
  <2>5. /\ Enqueue(squeue[s], currpid) \in Seq(Pid)
        /\ Unique(Enqueue(squeue[s], currpid))
        /\ \A p \in Pid : On(Enqueue(squeue[s], currpid), p) <=>
                            On(squeue[s], p) \/ p = currpid
    BY <2>1, EnqueueQueue DEF IInv, SemOK
  <2>6. /\ squeue' = [squeue EXCEPT ![s] = Enqueue(squeue[s], currpid)]
        /\ prsem' = [prsem EXCEPT ![currpid] = s]
        /\ scount' = [scount EXCEPT ![s] = scount[s] - 1]
        /\ UNCHANGED <<idVars, prhasmsg, sleepq, sstate, nextsem, kstack, ie>>
    BY <1>3 DEF WaitBlock
  <2>7. SemOK'
    BY <2>1, <2>3, <2>5, <2>6 DEF IInv, SemOK, Queued
  <2>8. scount' \in [Sem -> Int]
    BY <2>6 DEF IInv, RestOK
  <2> QED
    BY <2>2, <2>4, <2>6, <2>7, <2>8 DEF IInv, RestOK, idVars
<1>4. ASSUME NEW s \in Sem, Signal(s) PROVE IInv'
  <2>1. ASSUME Releases(s) PROVE SchedOK' /\ SleepOK' /\ SemOK'
    <3>1. /\ squeue[s] # <<>> /\ DequeueWaiter(s) /\ ReadyYes(Head(squeue[s]))
          /\ UNCHANGED <<sleepq, prsem>>
      BY <1>4, <2>1 DEF Signal, Releases
    <3>2. SchedOK' /\ Kept([prstate EXCEPT ![Head(squeue[s])] = "READY"])
      BY <3>1, FirstWaits, ReadyYesStep DEF IInv
    <3> QED
      BY <3>1, <3>2, ReleaseStep
  <2>2. ASSUME ~Releases(s) PROVE SchedOK' /\ SleepOK' /\ SemOK'
    BY <1>4, <2>2, SchedSame DEF Signal, IInv
  <2>3. SchedOK' /\ SleepOK' /\ SemOK'
    BY <2>1, <2>2
  <2>4. scount' \in [Sem -> Int]
    BY <1>4 DEF Signal, IInv, RestOK
  <2> QED
    BY <1>4, <2>3, <2>4 DEF Signal, IInv, RestOK, idVars
<1>5. ASSUME NEW call \in {"signaln", "semdelete", "semreset"}, NEW s \in Sem,
             NEW n \in Nat, LoopCall(call, s, n),
             sstate' \in [Sem -> {"FREE", "USED"}]
      PROVE  IInv'
  <2>1. SchedOK' /\ SleepOK' /\ SemOK'
    BY <1>5, SchedSame DEF LoopCall, IInv
  <2>2. kstack' \in [Pid -> Seq(Frame)]
    BY <1>5, Stacks, Frames DEF LoopCall, IInv
  <2>3. ie' \in BOOLEAN
    BY <1>5, Zenon DEF LoopCall
  <2> QED
    BY <1>5, <2>1, <2>2, <2>3 DEF LoopCall, IInv, RestOK, idVars
<1>6. ASSUME NEW s \in Sem, Semdelete(s) PROVE IInv'
  BY <1>5, <1>6 DEF Semdelete, IInv, RestOK
<1>7. ASSUME NEW s \in Sem, NEW n \in Counts, Signaln(s, n) \/ Semreset(s, n) PROVE IInv'
  BY <1>5, <1>7, ArgumentAssumption DEF Signaln, Semreset, IInv, RestOK
<1> QED
  BY <1>1, <1>2, <1>3, <1>4, <1>6, <1>7

\* The loops of signaln(), semdelete() and semreset(), one turn
LEMMA LoopSteps ==
    ASSUME IInv, SignalnStep \/ SemdeleteStep \/ SemresetStep
    PROVE  IInv'
<1>1. CASE SignalnStep
  <2>1. Top.arg \in Sem /\ Top.cnt \in Nat /\ Top.cnt > 0
    BY <1>1, Stacks, Frames DEF SignalnStep, At, IInv
  <2>2. NewFrame("signaln", Top.arg, Top.cnt - 1) \in Frame
    BY <2>1, Frames
  <2>3. kstack' \in [Pid -> Seq(Frame)]
    BY <1>1, <2>2, Stacks DEF SignalnStep, At, IInv
  <2>4. SchedOK' /\ SleepOK' /\ SemOK'
    BY <1>1, <2>1, SignalTurn DEF SignalnStep
  <2>5. scount' \in [Sem -> Int]
    BY <1>1, <2>1 DEF SignalnStep, IInv, RestOK
  <2> QED
    BY <1>1, <2>3, <2>4, <2>5 DEF SignalnStep, IInv, RestOK, idVars
<1>2. CASE SemdeleteStep
  <2>1. Top.arg \in Sem
    BY <1>2, Stacks, Frames DEF SemdeleteStep, At, IInv
  <2>2. SchedOK' /\ SleepOK' /\ SemOK'
    BY <1>2, <2>1, SignalTurn DEF SemdeleteStep
  <2>3. scount' \in [Sem -> Int]
    BY <1>2, <2>1 DEF SemdeleteStep, IInv, RestOK
  <2> QED
    BY <1>2, <2>2, <2>3 DEF SemdeleteStep, IInv, RestOK, idVars
<1>3. CASE SemresetStep
  <2>1. Top.arg \in Sem
    BY <1>3, Stacks, Frames DEF SemresetStep, At, IInv
  <2>2. SchedOK' /\ SleepOK' /\ SemOK'
    BY <1>3, <2>1, LoopTurn DEF SemresetStep
  <2> QED
    BY <1>3, <2>2 DEF SemresetStep, IInv, RestOK, idVars
<1> QED
  BY <1>1, <1>2, <1>3

\* The ends of those loops: resched() and return
LEMMA LoopEnds ==
    ASSUME IInv, SignalnEnd \/ SemdeleteEnd \/ SemresetEnd
    PROVE  IInv'
<1>1. LoopEnd /\ kstack[currpid] # <<>>
  BY DEF SignalnEnd, SemdeleteEnd, SemresetEnd, At
<1>2. SchedOK' /\ Kept(prstate)
  BY <1>1, ReschedStep, HandedAsIs DEF LoopEnd, IInv
<1>3. SleepOK' /\ SemOK'
  BY <1>1, <1>2, QueuesSame DEF LoopEnd, IInv
<1>4. kstack' \in [Pid -> Seq(Frame)]
  BY <1>1, Stacks DEF LoopEnd, IInv
<1>5. scount' \in [Sem -> Int]
  <2>1. CASE SignalnEnd
    BY <2>1 DEF SignalnEnd, IInv, RestOK
  <2>2. CASE SemdeleteEnd
    <3>1. Top.arg \in Sem
      BY <2>2, Stacks, Frames DEF SemdeleteEnd, At, IInv
    <3> QED
      BY <2>2, <3>1 DEF SemdeleteEnd, IInv, RestOK
  <2>3. CASE SemresetEnd
    <3>1. Top.arg \in Sem /\ Top.cnt \in Nat
      BY <2>3, Stacks, Frames DEF SemresetEnd, At, IInv
    <3> QED
      BY <2>3, <3>1 DEF SemresetEnd, IInv, RestOK
  <2> QED
    BY <2>1, <2>2, <2>3
<1> QED
  BY <1>1, <1>2, <1>3, <1>4, <1>5 DEF LoopEnd, IInv, RestOK, idVars

-----------------------------------------------------------------------------
(* The clock interrupt.                                                     *)

\* A tick charges the sleepers; no process changes its state.
LEMMA TickStep ==
    ASSUME IInv, Tick
    PROVE  IInv'
<1>1. qkey' \in [Pid -> Int]
  BY DEF Tick, IInv, SchedOK
<1>2. SchedOK' /\ SleepOK' /\ SemOK'
  BY <1>1 DEF Tick, IInv, SchedOK, SleepOK, SemOK, semVars
<1>3. kstack' \in [Pid -> Seq(Frame)]
  BY Stacks, Frames DEF Tick, IInv
<1>4. ie' \in BOOLEAN
  BY Zenon DEF Tick
<1> QED
  BY <1>2, <1>3, <1>4 DEF Tick, IInv, RestOK, idVars, semVars

\* wakeup() makes the first sleeper ready.
LEMMA WakeupSteps ==
    ASSUME IInv, WakeupStep
    PROVE  IInv'
<1> DEFINE first == Head(sleepq)
           later == ToSet(Tail(sleepq))
           keys == [p \in Pid |-> IF p \in later THEN qkey[p] - qkey[first] ELSE qkey[p]]
<1>1. /\ first \in Pid /\ On(sleepq, first)
      /\ Tail(sleepq) \in Seq(Pid) /\ Unique(Tail(sleepq))
      /\ \A p \in Pid : On(Tail(sleepq), p) <=> On(sleepq, p) /\ p # first
  BY TailQueue DEF WakeupStep, IInv, SleepOK
<1>2. prstate[first] \in {"SLEEP", "RECTIM"}
  BY <1>1 DEF IInv, SleepOK
<1>3. /\ sleepq' = Tail(sleepq) /\ ReadyNo(first, keys)
      /\ UNCHANGED <<idVars, semVars, prsem, prhasmsg, kstack, ie>>
  BY Zenon DEF WakeupStep
<1> HIDE DEF first
<1>4. keys \in [Pid -> Int]
  BY <1>1 DEF IInv, SchedOK
<1> HIDE DEF keys
<1>5. SchedOK' /\ Kept([prstate EXCEPT ![first] = "READY"])
  BY <1>1, <1>2, <1>3, <1>4, ReadyNoStep DEF IInv, Eligible
<1>6. \A p \in Pid : \A q \in Queued : prstate'[p] = q <=> prstate[p] = q /\ p # first
  BY <1>1, <1>5 DEF Kept, Eligible, Queued, IInv, SchedOK
<1>7. SleepOK'
  BY <1>1, <1>3, <1>6 DEF IInv, SleepOK, Queued
<1>8. SemOK'
  BY <1>2, <1>3, <1>6 DEF IInv, SemOK, Queued, semVars
<1> QED
  BY <1>3, <1>5, <1>7, <1>8 DEF IInv, RestOK, idVars, semVars

\* The end of wakeup() and the slice check of clkhandler()
LEMMA ClockEnds ==
    ASSUME IInv, WakeupEnd \/ PreemptCheck
    PROVE  IInv'
<1>1. CASE WakeupEnd
  <2>1. SchedOK' /\ Kept(prstate)
    BY <1>1, ReschedStep, HandedAsIs DEF WakeupEnd, IInv
  <2>2. SleepOK' /\ SemOK'
    BY <1>1, <2>1, QueuesSame DEF WakeupEnd, IInv, semVars
  <2>3. kstack' \in [Pid -> Seq(Frame)]
    BY <1>1, Stacks, Frames DEF WakeupEnd, At, IInv
  <2> QED
    BY <1>1, <2>1, <2>2, <2>3 DEF WakeupEnd, EnabledBySwitch, IInv, RestOK, idVars, semVars
<1>2. CASE PreemptCheck
  <2>1. SchedOK' /\ Kept(prstate)
    <3>1. CASE preempt - 1 <= 0
      <4>1. ReschedSlice(prstate, readylist, qkey, QUANTUM)
        BY <1>2, <3>1 DEF PreemptCheck
      <4>2. QUANTUM \in 1 .. QUANTUM + 1
        BY SizeAssumption
      <4> QED
        BY <4>1, <4>2, ReschedSliceStep, HandedAsIs DEF IInv, SchedOK, RestOK
    <3>2. CASE ~(preempt - 1 <= 0)
      <4>1. preempt' = preempt - 1 /\ UNCHANGED <<prstate, qkey, readylist, currpid>>
        BY <1>2, <3>2 DEF PreemptCheck
      <4>2. preempt' \in 1 .. QUANTUM + 1
        BY <3>2, <4>1, SizeAssumption DEF IInv, SchedOK
      <4> QED
        BY <4>1, <4>2 DEF IInv, SchedOK, Kept
    <3> QED
      BY <3>1, <3>2
  <2>2. SleepOK' /\ SemOK'
    BY <1>2, <2>1, QueuesSame DEF PreemptCheck, IInv, semVars
  <2>3. kstack' \in [Pid -> Seq(Frame)]
    BY <1>2, Stacks DEF PreemptCheck, At, IInv
  <2> QED
    BY <1>2, <2>1, <2>2, <2>3 DEF PreemptCheck, IInv, RestOK, idVars, semVars
<1> QED
  BY <1>1, <1>2

-----------------------------------------------------------------------------
(* The invariant and what it implies.                                       *)

\* sysinit() leaves the null process alone, current and on no queue.
LEMMA InitIInv == Init => IInv
<1> SUFFICES ASSUME Init PROVE IInv
  OBVIOUS
<1>1. NULLPROC \in Pid /\ 0 \in Sem /\ <<>> \in Seq(Pid) /\ <<>> \in Seq(Frame)
  BY SizeAssumption, EmptySeq DEF NULLPROC, Pid, Sem
<1>2. Unique(<<>>) /\ \A p \in Pid : ~On(<<>>, p)
  BY DEF Unique, On
<1>3. SchedOK
  BY <1>1, <1>2, SizeAssumption DEF Init, SchedOK, States, Eligible
<1>4. SleepOK
  BY <1>1, <1>2 DEF Init, SleepOK
<1>5. SemOK
  BY <1>1, <1>2 DEF Init, SemOK
<1>6. kstack \in [Pid -> Seq(Frame)]
  <2>1. <<NewFrame("create", 0, 0)>> \in Seq(Frame)
    BY Frames
  <2> QED
    BY <1>1, <2>1 DEF Init
<1>7. nextpid \in 1 .. NPROC /\ nextsem \in Sem /\ prcount \in Int
  BY <1>1, SizeAssumption DEF Init
<1>8. RestOK
  <2>1. /\ prprio \in [Pid -> Int] /\ prparent \in [Pid -> Pid]
        /\ sstate \in [Sem -> {"FREE", "USED"}] /\ scount \in [Sem -> Int]
    BY <1>1 DEF Init
  <2>2. prhasmsg \in [Pid -> BOOLEAN]
    BY DEF Init
  <2>3. ie \in BOOLEAN /\ halted \in BOOLEAN
    BY Zenon DEF Init
  <2> QED
    BY <1>6, <1>7, <2>1, <2>2, <2>3 DEF RestOK
<1> QED
  BY <1>3, <1>4, <1>5, <1>8 DEF IInv

\* Every step keeps the invariant.
LEMMA NextIInv == IInv /\ [Next]_vars => IInv'
<1> SUFFICES ASSUME IInv, [Next]_vars PROVE IInv'
  OBVIOUS
<1>1. CASE KernelStep
  BY <1>1, CreateSteps, ResumeSteps, MessageSteps, ExitSteps, KillOtherStep,
     LoopSteps, LoopEnds, WakeupSteps, ClockEnds DEF KernelStep
<1>2. CASE SystemCall
  BY <1>2, CreateSteps, ResumeSteps, SuspendReadyStep, SchedulingSteps,
     MessageSteps, BlockingSteps, ExitSteps, SemaphoreCalls DEF SystemCall
<1>3. CASE Tick
  BY <1>3, TickStep
<1>4. CASE Halted \/ UNCHANGED vars
  <2>1. UNCHANGED vars
    BY <1>4 DEF Halted
  <2>2. SchedOK' /\ SleepOK' /\ SemOK'
    BY <2>1, SchedSame DEF vars, semVars, IInv
  <2> QED
    BY <2>1, <2>2 DEF vars, idVars, semVars, IInv, RestOK
<1> QED
  BY <1>1, <1>2, <1>3, <1>4 DEF Next

\* The four parts hold in every state the kernel can be in.
THEOREM Invariance == Spec => []IInv
  BY InitIInv, NextIInv, PTL DEF Spec

\* Every variable keeps the type of its C declaration; in particular resched()
\* never takes a process from an empty ready list, and the slots and indices
\* newpid() and newsem() return are in range.
THEOREM TypeCorrect == Spec => []TypeOK
<1>1. IInv => TypeOK
  BY DEF IInv, SchedOK, SleepOK, SemOK, RestOK, TypeOK
<1> QED
  BY <1>1, Invariance, PTL

\* Whatever the calls and the clock do and wherever they are switched away, a
\* process is on exactly the queue its state names, once, and one process runs.
THEOREM StatesAgreeWithQueues == Spec => []StateQueueAgreement
<1>1. IInv => StateQueueAgreement
  BY DEF IInv, SchedOK, SleepOK, SemOK, StateQueueAgreement
<1> QED
  BY <1>1, Invariance, PTL

\* The null process is always current or ready: there is always a process to
\* switch to.
THEOREM NullProcessEligible == Spec => []NullEligible
<1>1. IInv => NullEligible
  BY DEF IInv, SchedOK, NullEligible, Eligible
<1> QED
  BY <1>1, Invariance, PTL

-----------------------------------------------------------------------------
(* The invariant.  A call that waits for a message is made outside of any   *)
(* other, so its frame is the lowest of its stack, and a free slot has no   *)
(* frames: what is taken away with a message is a call that waited for it.  *)

Receiving == NewFrame("receive", 0, 0)
Blocked == {"RECV", "RECTIM"}

\* Calls that wait for a message are at the bottom of a stack.
Lowest(stack) ==
    \A i \in DOMAIN stack : stack[i].at \in {"receive", "recvtime"} => i = Len(stack)

MessagesOK ==
    /\ \A p \in Pid : prstate[p] \in Blocked => ~prhasmsg[p]
    /\ \A p \in Pid : On(kstack[p], Receiving) => prstate[p] = "RECV" \/ prhasmsg[p]
    /\ \A p \in Pid : prstate[p] = "FREE" => kstack[p] = <<>>
    /\ \A p \in Pid : Lowest(kstack[p])

-----------------------------------------------------------------------------
(* Stacks.                                                                  *)

\* A frame that is pushed is on the stack with those below it.
LEMMA PushedFrame ==
    ASSUME NEW s \in Seq(Frame), NEW f \in Frame
    PROVE  /\ \A g : On(<<f>> \o s, g) <=> g = f \/ On(s, g)
           /\ Lowest(s) /\ (s = <<>> \/ f.at \notin {"receive", "recvtime"})
                => Lowest(<<f>> \o s)
<1> DEFINE t == <<f>> \o s
<1>1. /\ Len(s) \in Nat /\ DOMAIN s = 1 .. Len(s)
      /\ t \in Seq(Frame) /\ Len(t) = Len(s) + 1 /\ DOMAIN t = 1 .. Len(s) + 1
      /\ \A i \in 1 .. Len(s) + 1 : t[i] = IF i = 1 THEN f ELSE s[i - 1]
  <2>1. <<f>> \in Seq(Frame) /\ Len(<<f>>) = 1 /\ <<f>>[1] = f
    OBVIOUS
  <2>2. Len(s) \in Nat /\ DOMAIN s = 1 .. Len(s)
    BY LenProperties
  <2>3. /\ t \in Seq(Frame) /\ Len(t) = Len(<<f>>) + Len(s)
        /\ \A i \in 1 .. Len(<<f>>) + Len(s) :
             t[i] = IF i <= Len(<<f>>) THEN <<f>>[i] ELSE s[i - Len(<<f>>)]
    BY <2>1, ConcatProperties
  <2>4. DOMAIN t = 1 .. Len(t)
    BY <2>3, LenProperties
  <2> HIDE DEF t
  <2> QED
    BY <2>1, <2>2, <2>3, <2>4
<1> HIDE DEF t
<1>2. ASSUME NEW g PROVE On(t, g) <=> g = f \/ On(s, g)
  <2>1. ASSUME On(t, g) PROVE g = f \/ On(s, g)
    BY <1>1, <2>1 DEF On
  <2>2. ASSUME g = f PROVE On(t, g)
    BY <1>1, <2>2 DEF On
  <2>3. ASSUME On(s, g) PROVE On(t, g)
    <3>1. PICK i \in 1 .. Len(s) : s[i] = g
      BY <1>1, <2>3 DEF On
    <3>2. i + 1 \in 1 .. Len(s) + 1 /\ t[i + 1] = g
      BY <1>1, <3>1
    <3> QED
      BY <1>1, <3>2 DEF On
  <2> QED
    BY <2>1, <2>2, <2>3
<1>3. ASSUME Lowest(s), s = <<>> \/ f.at \notin {"receive", "recvtime"}
      PROVE  Lowest(t)
  <2> SUFFICES ASSUME NEW i \in 1 .. Len(s) + 1, t[i].at \in {"receive", "recvtime"}
               PROVE  i = Len(s) + 1
    BY <1>1 DEF Lowest
  <2>1. CASE i = 1
    <3>1. s = <<>>
      BY <1>1, <1>3, <2>1
    <3> QED
      BY <1>1, <2>1, <3>1, EmptySeq
  <2>2. CASE i # 1
    <3>1. i - 1 \in 1 .. Len(s) /\ s[i - 1].at \in {"receive", "recvtime"}
      BY <1>1, <2>2
    <3>2. i - 1 = Len(s)
      BY <1>1, <1>3, <3>1 DEF Lowest
    <3> QED
      BY <1>1, <3>2
  <2> QED
    BY <2>1, <2>2
<1> QED
  BY <1>2, <1>3 DEF t

\* A frame that is popped leaves those below it, and none below a call that
\* waited for a message.
LEMMA PoppedFrame ==
    ASSUME NEW s \in Seq(Frame), s # <<>>, Lowest(s)
    PROVE  /\ Tail(s) \in Seq(Frame) /\ Lowest(Tail(s))
           /\ \A g : On(Tail(s), g) => On(s, g)
           /\ Head(s).at \in {"receive", "recvtime"} => Tail(s) = <<>>
<1> DEFINE t == Tail(s)
<1>1. /\ Len(s) \in Nat /\ Len(s) >= 1 /\ DOMAIN s = 1 .. Len(s) /\ Head(s) = s[1]
      /\ t \in Seq(Frame) /\ Len(t) = Len(s) - 1 /\ DOMAIN t = 1 .. Len(s) - 1
      /\ \A i \in 1 .. Len(s) - 1 : t[i] = s[i + 1]
  <2>1. Len(s) \in Nat /\ DOMAIN s = 1 .. Len(s) /\ (Len(s) = 0 => s = <<>>)
    BY LenProperties, EmptySeq
  <2>2. /\ t \in Seq(Frame) /\ Len(t) = Len(s) - 1 /\ Head(s) = s[1]
        /\ \A i \in 1 .. Len(t) : t[i] = s[i + 1]
    BY HeadTailProperties
  <2>3. DOMAIN t = 1 .. Len(t)
    BY <2>2, LenProperties
  <2> HIDE DEF t
  <2> QED
    BY <2>1, <2>2, <2>3
<1>2. Len(t) = 0 => t = <<>>
  BY <1>1, EmptySeq
<1> HIDE DEF t
<1>3. Lowest(t)
  BY <1>1 DEF Lowest
<1>4. \A g : On(t, g) => On(s, g)
  BY <1>1 DEF On
<1>5. Head(s).at \in {"receive", "recvtime"} => t = <<>>
  BY <1>1, <1>2 DEF Lowest
<1> QED
  BY <1>1, <1>3, <1>4, <1>5 DEF t

\* What a step does to the stacks when no new call of receive() starts: only the
\* current process' stack moves, others at most vanish.
Quiet ==
    \A p \in Pid :
      /\ Lowest(kstack'[p])
      /\ On(kstack'[p], Receiving) => On(kstack[p], Receiving)
      /\ p # currpid => kstack'[p] \in {kstack[p], <<>>}

\* Frames of other calls come and go.
LEMMA QuietStacks ==
    ASSUME IInv, MessagesOK
    PROVE  /\ UNCHANGED kstack => Quiet
           /\ \A f \in Frame : f.at \notin {"receive", "recvtime"} /\ Push(f) => Quiet
           /\ kstack[currpid] # <<>> /\ Pop => Quiet
           /\ \A f \in Frame : /\ f.at \notin {"receive", "recvtime"}
                               /\ kstack[currpid] # <<>> /\ Replace(f)
                               => Quiet
<1>1. currpid \in Pid /\ kstack \in [Pid -> Seq(Frame)] /\ \A p \in Pid : Lowest(kstack[p])
  BY DEF IInv, SchedOK, RestOK, MessagesOK
<1> DEFINE s == kstack[currpid]
<1>2. s \in Seq(Frame) /\ Lowest(s)
  BY <1>1
<1>3. ASSUME NEW t, Lowest(t), On(t, Receiving) => On(s, Receiving),
             kstack' = [kstack EXCEPT ![currpid] = t]
      PROVE  Quiet
  BY <1>1, <1>3 DEF Quiet
<1>4. ASSUME UNCHANGED kstack PROVE Quiet
  BY <1>1, <1>4 DEF Quiet
<1>5. ASSUME NEW f \in Frame, f.at \notin {"receive", "recvtime"} PROVE f # Receiving
  BY <1>5 DEF Receiving, NewFrame
<1>6. ASSUME NEW f \in Frame, f.at \notin {"receive", "recvtime"}, Push(f) PROVE Quiet
  <2>1. Lowest(<<f>> \o s) /\ (On(<<f>> \o s, Receiving) => On(s, Receiving))
    BY <1>2, <1>5, <1>6, PushedFrame
  <2>2. kstack' = [kstack EXCEPT ![currpid] = <<f>> \o s]
    BY <1>6 DEF Push
  <2> QED
    BY <1>3, <2>1, <2>2
<1>7. ASSUME s # <<>>
      PROVE  /\ Tail(s) \in Seq(Frame) /\ Lowest(Tail(s))
             /\ On(Tail(s), Receiving) => On(s, Receiving)
  BY <1>2, <1>7, PoppedFrame
<1>8. ASSUME s # <<>>, Pop PROVE Quiet
  <2>1. kstack' = [kstack EXCEPT ![currpid] = Tail(s)]
    BY <1>8 DEF Pop
  <2> QED
    BY <1>3, <1>7, <1>8, <2>1
<1>9. ASSUME NEW f \in Frame, f.at \notin {"receive", "recvtime"}, s # <<>>, Replace(f)
      PROVE  Quiet
  <2>1. /\ Lowest(<<f>> \o Tail(s))
        /\ On(<<f>> \o Tail(s), Receiving) => On(s, Receiving)
    BY <1>5, <1>7, <1>9, PushedFrame
  <2>2. kstack' = [kstack EXCEPT ![currpid] = <<f>> \o Tail(s)]
    BY <1>9 DEF Replace
  <2> QED
    BY <1>3, <2>1, <2>2
<1> QED
  BY <1>4, <1>6, <1>8, <1>9

-----------------------------------------------------------------------------
(* What a step may do to a process.  st are the states the step sets up     *)
(* before the reschedule it may end in.                                     *)

\* Its message stays, and it is left alone or goes where it waits for none.
Passes(st, p) ==
    /\ prhasmsg'[p] = prhasmsg[p]
    /\ \/ st[p] = prstate[p]
       \/ prstate[p] # "RECV" /\ st[p] \notin Blocked \cup {"FREE"}

\* It is sent a message, and does not wait any more.
IsSent(st, p) == prhasmsg'[p] /\ st[p] \notin Blocked \cup {"FREE"}

\* It is in no call of the kernel.
IsOutside(st, p) == kstack'[p] = <<>> /\ st[p] \notin Blocked

\* It starts to wait for a message that it does not have.
Starts(st, p) ==
    /\ ~prhasmsg'[p]
    /\ st[p] = "RECV" \/ (st[p] = "RECTIM" /\ ~On(kstack'[p], Receiving))

\* A step that does one of these to every process keeps the invariant.
LEMMA MovesKeep ==
    ASSUME IInv, MessagesOK, NEW st, Kept(st),
           \A p \in Pid :
             /\ Lowest(kstack'[p])
             /\ \/ Passes(st, p) /\ (On(kstack'[p], Receiving) => On(kstack[p], Receiving))
                \/ IsSent(st, p) \/ IsOutside(st, p) \/ Starts(st, p),
           \A p \in Pid \ {currpid} : kstack'[p] \in {kstack[p], <<>>},
           st[currpid] = "FREE" => kstack'[currpid] = <<>>
    PROVE  MessagesOK'
<1>1. \A p \in Pid : prstate'[p] = st[p] \/ (st[p] \in Eligible /\ prstate'[p] \in Eligible)
  BY DEF Kept
<1>2. ~On(<<>>, Receiving)
  BY DEF On
<1>3. ASSUME NEW p \in Pid, prstate'[p] \in Blocked PROVE ~prhasmsg'[p]
  BY <1>1, <1>3 DEF Passes, IsSent, IsOutside, Starts, Blocked, Eligible, MessagesOK
<1>4. ASSUME NEW p \in Pid, On(kstack'[p], Receiving)
      PROVE  prstate'[p] = "RECV" \/ prhasmsg'[p]
  <2>1. CASE Passes(st, p) /\ (On(kstack'[p], Receiving) => On(kstack[p], Receiving))
    BY <1>1, <1>4, <2>1 DEF Passes, Blocked, Eligible, MessagesOK
  <2>2. CASE IsSent(st, p) \/ IsOutside(st, p) \/ Starts(st, p)
    BY <1>1, <1>2, <1>4, <2>2 DEF IsSent, IsOutside, Starts, Eligible
  <2> QED
    BY <2>1, <2>2
<1>5. ASSUME NEW p \in Pid, prstate'[p] = "FREE" PROVE kstack'[p] = <<>>
  <2>1. st[p] = "FREE"
    BY <1>1, <1>5 DEF Eligible
  <2>2. CASE p = currpid
    BY <2>1, <2>2
  <2>3. CASE p # currpid /\ Passes(st, p)
    <3>1. prstate[p] = "FREE"
      BY <2>1, <2>3 DEF Passes
    <3> QED
      BY <2>3, <3>1 DEF MessagesOK
  <2>4. CASE IsSent(st, p) \/ IsOutside(st, p) \/ Starts(st, p)
    BY <2>1, <2>4 DEF IsSent, IsOutside, Starts, Blocked
  <2> QED
    BY <2>2, <2>3, <2>4
<1> QED
  BY <1>3, <1>4, <1>5 DEF MessagesOK

\* A step without a message: nobody starts to wait for one, or stops.
LEMMA PassingStep ==
    ASSUME IInv, MessagesOK, NEW st, Kept(st), Quiet, UNCHANGED prhasmsg,
           \A p \in Pid : Passes(st, p),
           st[currpid] # "FREE"
    PROVE  MessagesOK'
  BY MovesKeep DEF Quiet

\* A process that does not wait for a message is made ready.
LEMMA ReadyPasses ==
    ASSUME IInv, MessagesOK, NEW p \in Pid, Kept([prstate EXCEPT ![p] = "READY"]),
           prstate[p] \notin {"RECV", "FREE"}, Quiet, UNCHANGED prhasmsg
    PROVE  MessagesOK'
<1> DEFINE st == [prstate EXCEPT ![p] = "READY"]
<1>1. \A q \in Pid : st[q] = IF q = p THEN "READY" ELSE prstate[q]
  BY DEF IInv, SchedOK
<1>2. currpid \in Pid /\ prstate[currpid] = "CURR"
  BY DEF IInv, SchedOK
<1> HIDE DEF st
<1>3. (\A q \in Pid : Passes(st, q)) /\ st[currpid] # "FREE"
  BY <1>1, <1>2 DEF Passes, Blocked
<1> QED
  BY <1>3, PassingStep DEF st

\* The caller blocks, but not for a message.
LEMMA BlockPasses ==
    ASSUME IInv, MessagesOK, NEW s \in {"SUSP", "WAIT", "SLEEP"},
           Kept([prstate EXCEPT ![currpid] = s]), Quiet, UNCHANGED prhasmsg
    PROVE  MessagesOK'
<1> DEFINE st == [prstate EXCEPT ![currpid] = s]
<1>1. \A q \in Pid : st[q] = IF q = currpid THEN s ELSE prstate[q]
  BY DEF IInv, SchedOK
<1>2. currpid \in Pid /\ prstate[currpid] = "CURR"
  BY DEF IInv, SchedOK
<1> HIDE DEF st
<1>3. (\A q \in Pid : Passes(st, q)) /\ st[currpid] # "FREE"
  BY <1>1, <1>2 DEF Passes, Blocked
<1> QED
  BY <1>3, PassingStep DEF st

\* No process changes its state but for a reschedule.
LEMMA SameStates ==
    ASSUME IInv, MessagesOK, Kept(prstate), Quiet, UNCHANGED prhasmsg
    PROVE  MessagesOK'
<1>1. currpid \in Pid /\ prstate[currpid] # "FREE"
  BY DEF IInv, SchedOK
<1> QED
  BY <1>1, PassingStep DEF Passes

\* A step that leaves the states alone
LEMMA StillStates == ASSUME UNCHANGED prstate PROVE Kept(prstate)
  BY DEF Kept

-----------------------------------------------------------------------------
(* Every operation keeps the invariant.                                     *)

\* Frames of calls that wait for no message
LEMMA OtherFrames ==
    /\ \A at \in {"create", "wakeup", "preempt"} :
         NewFrame(at, 0, 0) \in Frame /\ NewFrame(at, 0, 0).at \notin {"receive", "recvtime"}
    /\ \A p \in Pid : /\ NewFrame("resume", p, 0) \in Frame
                      /\ NewFrame("resume", p, 0).at \notin {"receive", "recvtime"}
    /\ \A p \in Pid \ {NULLPROC} : /\ NewFrame("kill", p, 0) \in Frame
                                   /\ NewFrame("kill", p, 0).at \notin {"receive", "recvtime"}
    /\ \A at \in {"signaln", "semdelete", "semreset"}, s \in Sem, n \in Nat :
         /\ NewFrame(at, s, n) \in Frame
         /\ NewFrame(at, s, n).at \notin {"receive", "recvtime"}
  BY Frames DEF NewFrame

\* create(): the slot was free, so it has no frames.
LEMMA MakeProcessMessages ==
    ASSUME IInv, MessagesOK, FreeFrom(nextpid) # {}, NEW priority,
           MakeProcess(NewPid(nextpid), priority), Quiet
    PROVE  MessagesOK'
<1> DEFINE pid == NewPid(nextpid)
<1>1. pid \in Pid /\ prstate[pid] = "FREE"
  BY NewPidFree DEF IInv, RestOK
<1> HIDE DEF pid
<1>2. prstate' = [prstate EXCEPT ![pid] = "SUSP"] /\ prhasmsg' = [prhasmsg EXCEPT ![pid] = FALSE]
  BY DEF MakeProcess, pid
<1>3. \A p \in Pid : /\ prstate'[p] = IF p = pid THEN "SUSP" ELSE prstate[p]
                     /\ prhasmsg'[p] = IF p = pid THEN FALSE ELSE prhasmsg[p]
  BY <1>2 DEF IInv, SchedOK, RestOK
<1>4. currpid \in Pid /\ prstate[currpid] = "CURR" /\ pid # currpid
  BY <1>1 DEF IInv, SchedOK
<1>5. kstack'[pid] = <<>>
  BY <1>1, <1>4 DEF Quiet, MessagesOK
<1>6. IsOutside(prstate', pid)
  BY <1>1, <1>3, <1>5 DEF IsOutside, Blocked
<1>7. \A p \in Pid \ {pid} : Passes(prstate', p)
  BY <1>3 DEF Passes
<1>8. prstate'[currpid] # "FREE"
  BY <1>3, <1>4
<1> QED
  BY <1>6, <1>7, <1>8, MovesKeep DEF Quiet, Kept

LEMMA CreateMessages ==
    ASSUME IInv, MessagesOK, NullCreate \/ (\E n \in Prios : Create(n)) \/ CreateNoStack
    PROVE  MessagesOK'
<1>1. CASE NullCreate
  <2>1. NewPid(nextpid) \in Pid
    BY <1>1, NewPidFree DEF NullCreate, IInv, RestOK
  <2>2. Quiet
    BY <1>1, <2>1, QuietStacks, OtherFrames DEF NullCreate, At
  <2> QED
    BY <1>1, <2>2, MakeProcessMessages DEF NullCreate
<1>2. ASSUME NEW n \in Prios, Create(n) PROVE MessagesOK'
  BY <1>2, QuietStacks, MakeProcessMessages DEF Create
<1>3. CASE CreateNoStack
  BY <1>3, QuietStacks, SameStates, StillStates DEF CreateNoStack, schedVars
<1> QED
  BY <1>1, <1>2, <1>3

\* resume(), suspend(), yield() and chprio()
LEMMA SchedulingMessages ==
    ASSUME IInv, MessagesOK,
           \/ NullResume \/ SuspendSelf \/ Yield
           \/ \E p \in Pid : Resume(p) \/ SuspendReady(p)
           \/ \E p \in Pid, n \in ChPrios : Chprio(p, n)
    PROVE  MessagesOK'
<1>1. ASSUME NEW p \in Pid, prstate[p] = "SUSP", ReadyYes(p), Quiet, UNCHANGED prhasmsg
      PROVE  MessagesOK'
  BY <1>1, ReadyYesStep, ReadyPasses DEF IInv, Eligible
<1>2. CASE NullResume
  <2>1. Top.arg \in Pid /\ Quiet
    BY <1>2, Stacks, Frames, QuietStacks DEF NullResume, At, IInv
  <2> QED
    BY <1>1, <1>2, <2>1 DEF NullResume
<1>3. ASSUME NEW p \in Pid, Resume(p) PROVE MessagesOK'
  BY <1>1, <1>3, QuietStacks DEF Resume
<1>4. ASSUME NEW p \in Pid, SuspendReady(p) PROVE MessagesOK'
  <2>1. /\ \A q \in Pid : prstate'[q] = IF q = p THEN "SUSP" ELSE prstate[q]
        /\ prstate[p] = "READY" /\ UNCHANGED <<prhasmsg, kstack>>
    BY <1>4 DEF SuspendReady, IInv, SchedOK
  <2>2. \A q \in Pid : Passes(prstate', q)
    BY <2>1 DEF Passes, Blocked
  <2>3. prstate'[currpid] # "FREE"
    BY <2>1 DEF IInv, SchedOK
  <2> QED
    BY <2>1, <2>2, <2>3, QuietStacks, PassingStep DEF Kept
<1>5. CASE SuspendSelf
  <2>1. Kept([prstate EXCEPT ![currpid] = "SUSP"])
    BY <1>5, BlockStep DEF SuspendSelf, Block, User, IInv, SchedOK, States, Eligible
  <2> QED
    BY <1>5, <2>1, QuietStacks, BlockPasses DEF SuspendSelf
<1>6. CASE Yield
  BY <1>6, ReschedStep, HandedAsIs, QuietStacks, SameStates DEF Yield, IInv
<1>7. ASSUME NEW p \in Pid, NEW n \in ChPrios, Chprio(p, n) PROVE MessagesOK'
  BY <1>7, QuietStacks, SameStates, StillStates DEF Chprio, schedVars
<1> QED
  BY <1>2, <1>3, <1>4, <1>5, <1>6, <1>7

\* send(): the receiver has its message as it is made ready.
LEMMA SendToMessages ==
    ASSUME IInv, MessagesOK, NEW pid \in Pid, SendTo(pid), Quiet
    PROVE  MessagesOK'
<1>1. CASE prstate[pid] = "FREE" \/ prhasmsg[pid]
  BY <1>1, SameStates, StillStates DEF SendTo, schedVars
<1>2. CASE ~(prstate[pid] = "FREE" \/ prhasmsg[pid])
  <2> DEFINE wakes == prstate[pid] \in {"RECV", "RECTIM"}
             st == IF wakes THEN [prstate EXCEPT ![pid] = "READY"] ELSE prstate
  <2>1. \A p \in Pid : prhasmsg'[p] = IF p = pid THEN TRUE ELSE prhasmsg[p]
    BY <1>2 DEF SendTo, IInv, RestOK
  <2>2. Kept(st)
    <3>1. CASE wakes
      BY <1>2, <3>1, ReadyYesStep DEF SendTo, IInv, Eligible
    <3>2. CASE ~wakes
      BY <1>2, <3>2, StillStates DEF SendTo, schedVars
    <3> QED
      BY <3>1, <3>2
  <2>3. \A p \in Pid : st[p] = IF p = pid /\ wakes THEN "READY" ELSE prstate[p]
    BY DEF IInv, SchedOK
  <2> HIDE DEF st
  <2>4. IsSent(st, pid)
    BY <1>2, <2>1, <2>3 DEF IsSent, Blocked
  <2>5. \A p \in Pid \ {pid} : Passes(st, p)
    BY <2>1, <2>3 DEF Passes
  <2>6. st[currpid] # "FREE"
    BY <2>3 DEF IInv, SchedOK
  <2> QED
    BY <2>2, <2>4, <2>5, <2>6, MovesKeep DEF Quiet
<1> QED
  BY <1>1, <1>2

\* The calls about messages, and the returns of those that waited
LEMMA MessageCalls ==
    ASSUME IInv, MessagesOK,
           (\E p \in Pid : Send(p)) \/ TakeMessage \/ ReceiveReturn \/ RecvtimeReturn
    PROVE  MessagesOK'
<1>1. ASSUME NEW p \in Pid, Send(p) PROVE MessagesOK'
  BY <1>1, SendToMessages, QuietStacks DEF Send
<1>2. ASSUME prhasmsg' = [prhasmsg EXCEPT ![currpid] = FALSE], UNCHANGED schedVars,
             Quiet, kstack'[currpid] = <<>>
      PROVE  MessagesOK'
  <2>1. UNCHANGED prstate /\ Kept(prstate)
    BY <1>2, StillStates DEF schedVars
  <2>2. prstate[currpid] = "CURR" /\ currpid \in Pid
    BY DEF IInv, SchedOK
  <2>3. IsOutside(prstate, currpid)
    BY <1>2, <2>2 DEF IsOutside, Blocked
  <2>4. \A p \in Pid \ {currpid} : Passes(prstate, p)
    BY <1>2 DEF Passes, IInv, RestOK
  <2> QED
    BY <1>2, <2>1, <2>2, <2>3, <2>4, MovesKeep DEF Quiet
<1>3. CASE TakeMessage
  BY <1>2, <1>3, QuietStacks DEF TakeMessage, User
<1>4. CASE ReceiveReturn \/ RecvtimeReturn
  <2>1. kstack[currpid] # <<>> /\ Pop /\ Head(kstack[currpid]).at \in {"receive", "recvtime"}
    BY <1>4 DEF ReceiveReturn, RecvtimeReturn, At, Top
  <2>2. Tail(kstack[currpid]) = <<>>
    BY <2>1, PoppedFrame DEF IInv, SchedOK, RestOK, MessagesOK
  <2>3. kstack'[currpid] = <<>>
    BY <2>1, <2>2 DEF Pop, IInv, SchedOK, RestOK
  <2> QED
    BY <1>2, <1>4, <2>1, <2>3, QuietStacks DEF ReceiveReturn, RecvtimeReturn
<1> QED
  BY <1>1, <1>3, <1>4

\* A call that waits for a message is made outside of any other.
LEMMA BlockingMessages ==
    ASSUME IInv, MessagesOK,
           \/ ReceiveBlock
           \/ \E d \in MaxWaits : RecvtimeBlock(d)
           \/ \E d \in Delays : Sleepms(d)
    PROVE  MessagesOK'
<1>1. currpid \in Pid /\ prstate[currpid] = "CURR"
  BY DEF IInv, SchedOK
<1>2. ASSUME NEW s \in {"RECV", "RECTIM"}, NEW f \in Frame, Push(f), s = "RECTIM" => f # Receiving,
             Kept([prstate EXCEPT ![currpid] = s]), UNCHANGED prhasmsg,
             kstack[currpid] = <<>>, ~prhasmsg[currpid]
      PROVE  MessagesOK'
  <2> DEFINE st == [prstate EXCEPT ![currpid] = s]
  <2>1. \A p \in Pid : st[p] = IF p = currpid THEN s ELSE prstate[p]
    BY DEF IInv, SchedOK
  <2>2. \A p \in Pid : kstack'[p] = IF p = currpid THEN <<f>> \o <<>> ELSE kstack[p]
    BY <1>1, <1>2 DEF Push, IInv, RestOK
  <2>3. <<>> \in Seq(Frame) /\ Lowest(<<>>) /\ ~On(<<>>, Receiving)
    BY EmptySeq DEF Lowest, On
  <2>4. Lowest(<<f>> \o <<>>) /\ (On(<<f>> \o <<>>, Receiving) <=> f = Receiving)
    BY <1>2, <2>3, PushedFrame
  <2> HIDE DEF st
  <2>5. Starts(st, currpid)
    BY <1>1, <1>2, <2>1, <2>2, <2>4 DEF Starts
  <2>6. \A p \in Pid \ {currpid} : Passes(st, p) /\ kstack'[p] = kstack[p]
    BY <1>2, <2>1, <2>2 DEF Passes
  <2>7. \A p \in Pid : Lowest(kstack'[p])
    BY <2>2, <2>4 DEF MessagesOK
  <2>8. st[currpid] # "FREE"
    BY <1>1, <1>2, <2>1
  <2> QED
    BY <1>2, <2>5, <2>6, <2>7, <2>8, MovesKeep DEF st
<1>3. ASSUME NEW s \in {"RECTIM", "SLEEP"}, NEW d \in Int, currpid # NULLPROC, SleepIn(s, d)
      PROVE  Kept([prstate EXCEPT ![currpid] = s])
  <2>1. [qkey EXCEPT ![currpid] = d] \in [Pid -> Int]
    BY DEF IInv, SchedOK
  <2> QED
    BY <1>3, <2>1, BlockStep DEF SleepIn, IInv, States, Eligible
<1>4. CASE ReceiveBlock
  <2>1. Kept([prstate EXCEPT ![currpid] = "RECV"])
    BY <1>4, BlockStep DEF ReceiveBlock, Block, User, IInv, SchedOK, States, Eligible
  <2>2. Receiving \in Frame /\ Push(Receiving)
    BY <1>4, Frames DEF ReceiveBlock, Receiving
  <2> QED
    BY <1>2, <1>4, <2>1, <2>2 DEF ReceiveBlock, User
<1>5. ASSUME NEW d \in MaxWaits, RecvtimeBlock(d) PROVE MessagesOK'
  <2>1. Kept([prstate EXCEPT ![currpid] = "RECTIM"])
    <3>1. d \in Int
      BY <1>5, ArgumentAssumption
    <3>2. currpid # NULLPROC /\ SleepIn("RECTIM", d)
      BY <1>5 DEF RecvtimeBlock, User
    <3> QED
      BY <1>3, <3>1, <3>2
  <2>2. NewFrame("recvtime", 0, 0) \in Frame /\ NewFrame("recvtime", 0, 0) # Receiving
    BY Frames DEF Receiving, NewFrame
  <2> QED
    BY <1>2, <1>5, <2>1, <2>2 DEF RecvtimeBlock, User
<1>6. ASSUME NEW d \in Delays, Sleepms(d) PROVE MessagesOK'
  <2>1. Kept([prstate EXCEPT ![currpid] = "SLEEP"])
    <3>1. d \in Int
      BY <1>6, ArgumentAssumption
    <3>2. currpid # NULLPROC /\ SleepIn("SLEEP", d)
      BY <1>6 DEF Sleepms, User
    <3> QED
      BY <1>3, <3>1, <3>2
  <2> QED
    BY <1>6, <2>1, BlockPasses, QuietStacks DEF Sleepms
<1> QED
  BY <1>4, <1>5, <1>6

\* kill(): who ends is in no call any more, whatever it waited for.
LEMMA ExitMessages ==
    ASSUME IInv, MessagesOK,
           (\E p \in Pid : Kill(p) \/ KillLast(p)) \/ KillSelf \/ KillOther
    PROVE  MessagesOK'
<1>1. currpid \in Pid /\ prstate[currpid] = "CURR"
  BY DEF IInv, SchedOK
<1>2. ASSUME NEW pid \in Pid, NEW st, Kept(st), UNCHANGED prhasmsg,
             \A p \in Pid : st[p] = IF p = pid THEN "FREE" ELSE prstate[p],
             kstack'[pid] = <<>>,
             \A p \in Pid \ {pid, currpid} : kstack'[p] = kstack[p],
             /\ Lowest(kstack'[currpid])
             /\ On(kstack'[currpid], Receiving) => On(kstack[currpid], Receiving)
      PROVE  MessagesOK'
  <2>1. Lowest(<<>>)
    BY EmptySeq DEF Lowest
  <2>2. IsOutside(st, pid)
    BY <1>2 DEF IsOutside, Blocked
  <2>3. \A p \in Pid \ {pid} : Passes(st, p)
    BY <1>2 DEF Passes
  <2>4. st[currpid] = "FREE" => kstack'[currpid] = <<>>
    BY <1>1, <1>2
  <2>5. \A p \in Pid : /\ Lowest(kstack'[p])
                       /\ p # pid /\ On(kstack'[p], Receiving) => On(kstack[p], Receiving)
    BY <1>2, <2>1 DEF MessagesOK
  <2>6. \A p \in Pid \ {currpid} : kstack'[p] \in {kstack[p], <<>>}
    BY <1>2
  <2> QED
    BY <1>2, <2>2, <2>3, <2>4, <2>5, <2>6, MovesKeep
<1>3. ASSUME NEW p \in Pid, Kill(p) PROVE MessagesOK'
  <2>1. NewFrame("kill", p, 0) \in Frame /\ NewFrame("kill", p, 0).at \notin {"receive", "recvtime"}
    BY <1>3, OtherFrames DEF Kill
  <2>2. Quiet
    BY <1>3, <2>1, QuietStacks DEF Kill
  <2>3. prparent[p] \in Pid
    BY DEF IInv, RestOK
  <2> QED
    BY <1>3, <2>2, <2>3, SendToMessages DEF Kill
<1>4. ASSUME NEW p \in Pid, KillLast(p) PROVE MessagesOK'
  BY <1>4, QuietStacks, SameStates, StillStates DEF KillLast, schedVars
<1>5. CASE KillSelf
  <2> DEFINE st == [prstate EXCEPT ![currpid] = "FREE"]
  <2>1. currpid # NULLPROC
    BY <1>5, Stacks, Frames DEF KillSelf, At, IInv
  <2>2. Kept(st)
    BY <1>5, <2>1, BlockStep DEF KillSelf, Block, IInv, SchedOK, States, Eligible
  <2>3. \A p \in Pid : st[p] = IF p = currpid THEN "FREE" ELSE prstate[p]
    BY DEF IInv, SchedOK
  <2>4. \A p \in Pid : kstack'[p] = IF p = currpid THEN <<>> ELSE kstack[p]
    BY <1>5 DEF KillSelf, IInv, RestOK
  <2>5. Lowest(<<>>) /\ ~On(<<>>, Receiving)
    BY EmptySeq DEF Lowest, On
  <2> HIDE DEF st
  <2>6. UNCHANGED prhasmsg
    BY <1>5 DEF KillSelf
  <2> QED
    BY <1>1, <1>2, <2>2, <2>3, <2>4, <2>5, <2>6
<1>6. CASE KillOther
  <2> DEFINE pid == Top.arg
  <2>1. pid \in Pid /\ pid # currpid /\ kstack[currpid] # <<>>
    BY <1>6, Stacks, Frames DEF KillOther, At, IInv
  <2>2. /\ prstate' = [prstate EXCEPT ![pid] = "FREE"]
        /\ kstack' = [kstack EXCEPT ![pid] = <<>>, ![currpid] = Tail(@)]
        /\ UNCHANGED prhasmsg
    BY <1>6 DEF KillOther
  <2> HIDE DEF pid
  <2>3. \A p \in Pid : prstate'[p] = IF p = pid THEN "FREE" ELSE prstate[p]
    BY <2>2 DEF IInv, SchedOK
  <2>4. \A p \in Pid : kstack'[p] = IF p = currpid THEN Tail(kstack[p])
                                     ELSE IF p = pid THEN <<>> ELSE kstack[p]
    BY <1>1, <2>1, <2>2 DEF IInv, RestOK
  <2>5. /\ Lowest(Tail(kstack[currpid]))
        /\ On(Tail(kstack[currpid]), Receiving) => On(kstack[currpid], Receiving)
    BY <1>1, <2>1, PoppedFrame DEF MessagesOK, IInv, RestOK
  <2>6. PICK st : st = prstate'
    OBVIOUS
  <2>7. Kept(st) /\ \A p \in Pid : st[p] = IF p = pid THEN "FREE" ELSE prstate[p]
    BY <2>3, <2>6 DEF Kept
  <2>8. /\ kstack'[pid] = <<>> /\ kstack'[currpid] = Tail(kstack[currpid])
        /\ \A p \in Pid \ {pid, currpid} : kstack'[p] = kstack[p]
    BY <1>1, <2>1, <2>4
  <2>9. /\ Lowest(kstack'[currpid])
        /\ On(kstack'[currpid], Receiving) => On(kstack[currpid], Receiving)
    BY <2>5, <2>8
  <2> QED
    BY <1>2, <2>1, <2>2, <2>7, <2>8, <2>9
<1> QED
  BY <1>3, <1>4, <1>5, <1>6

\* A process that waits for a semaphore is released: it waits for no message.
LEMMA ReleaseMessages ==
    ASSUME IInv, MessagesOK, Quiet, UNCHANGED prhasmsg, NEW s \in Sem,
           \/ squeue[s] # <<>> /\ (ReadyYes(Head(squeue[s])) \/ ReadyNo(Head(squeue[s]), qkey))
           \/ UNCHANGED schedVars
    PROVE  MessagesOK'
<1>1. CASE squeue[s] # <<>> /\ (ReadyYes(Head(squeue[s])) \/ ReadyNo(Head(squeue[s]), qkey))
  <2>1. squeue[s] \in Seq(Pid) /\ Head(squeue[s]) \in Pid /\ On(squeue[s], Head(squeue[s]))
    BY <1>1, TailQueue DEF IInv, SemOK
  <2>2. prstate[Head(squeue[s])] = "WAIT"
    BY <2>1 DEF IInv, SemOK
  <2>3. Kept([prstate EXCEPT ![Head(squeue[s])] = "READY"])
    BY <1>1, <2>1, <2>2, ReadyYesStep, ReadyNoStep DEF IInv, SchedOK, Eligible
  <2> QED
    BY <2>1, <2>2, <2>3, ReadyPasses
<1>2. CASE UNCHANGED schedVars
  BY <1>2, SameStates, StillStates DEF schedVars
<1> QED
  BY <1>1, <1>2

\* The semaphore calls
LEMMA SemaphoreMessages ==
    ASSUME IInv, MessagesOK,
           \/ \E n \in Counts : Semcreate(n)
           \/ \E s \in Sem : WaitTake(s) \/ WaitBlock(s) \/ Signal(s) \/ Semdelete(s)
           \/ \E s \in Sem, n \in Counts : Signaln(s, n) \/ Semreset(s, n)
    PROVE  MessagesOK'
<1>1. ASSUME UNCHANGED <<schedVars, prhasmsg>>, Quiet PROVE MessagesOK'
  BY <1>1, SameStates, StillStates DEF schedVars
<1>2. ASSUME NEW n \in Counts, Semcreate(n) PROVE MessagesOK'
  BY <1>1, <1>2, QuietStacks, Zenon DEF Semcreate
<1>3. ASSUME NEW s \in Sem, WaitTake(s) PROVE MessagesOK'
  BY <1>1, <1>3, QuietStacks DEF WaitTake
<1>4. ASSUME NEW s \in Sem, WaitBlock(s) PROVE MessagesOK'
  <2>1. Kept([prstate EXCEPT ![currpid] = "WAIT"])
    BY <1>4, BlockStep DEF WaitBlock, Block, User, IInv, SchedOK, States, Eligible
  <2> QED
    BY <1>4, <2>1, BlockPasses, QuietStacks DEF WaitBlock
<1>5. ASSUME NEW s \in Sem, Signal(s) PROVE MessagesOK'
  BY <1>5, QuietStacks, ReleaseMessages DEF Signal, Releases
<1>6. ASSUME NEW call \in {"signaln", "semdelete", "semreset"}, NEW s \in Sem, NEW n \in Nat,
             LoopCall(call, s, n)
      PROVE  MessagesOK'
  BY <1>1, <1>6, QuietStacks, OtherFrames DEF LoopCall
<1>7. ASSUME NEW s \in Sem, Semdelete(s) PROVE MessagesOK'
  BY <1>6, <1>7 DEF Semdelete
<1>8. ASSUME NEW s \in Sem, NEW n \in Counts, Signaln(s, n) \/ Semreset(s, n) PROVE MessagesOK'
  BY <1>6, <1>8, ArgumentAssumption DEF Signaln, Semreset
<1> QED
  BY <1>2, <1>3, <1>4, <1>5, <1>7, <1>8

\* The loops of signaln(), semdelete() and semreset(), and their ends
LEMMA LoopMessages ==
    ASSUME IInv, MessagesOK,
           \/ SignalnStep \/ SemdeleteStep \/ SemresetStep
           \/ SignalnEnd \/ SemdeleteEnd \/ SemresetEnd
    PROVE  MessagesOK'
<1>1. CASE SignalnStep
  <2>1. Top.arg \in Sem /\ Top.cnt \in Nat /\ Top.cnt > 0
    BY <1>1, Stacks, Frames DEF SignalnStep, At, IInv
  <2>2. /\ NewFrame("signaln", Top.arg, Top.cnt - 1) \in Frame
        /\ NewFrame("signaln", Top.arg, Top.cnt - 1).at \notin {"receive", "recvtime"}
    BY <2>1, OtherFrames
  <2>3. Quiet
    BY <1>1, <2>2, QuietStacks DEF SignalnStep, At
  <2> QED
    BY <1>1, <2>1, <2>3, ReleaseMessages DEF SignalnStep, Releases
<1>2. CASE SemdeleteStep
  <2>1. Top.arg \in Sem
    BY <1>2, Stacks, Frames DEF SemdeleteStep, At, IInv
  <2> QED
    BY <1>2, <2>1, QuietStacks, ReleaseMessages DEF SemdeleteStep, Releases
<1>3. CASE SemresetStep
  <2>1. Top.arg \in Sem
    BY <1>3, Stacks, Frames DEF SemresetStep, At, IInv
  <2> QED
    BY <1>3, <2>1, QuietStacks, ReleaseMessages DEF SemresetStep
<1>4. CASE SignalnEnd \/ SemdeleteEnd \/ SemresetEnd
  <2>1. LoopEnd /\ kstack[currpid] # <<>>
    BY <1>4 DEF SignalnEnd, SemdeleteEnd, SemresetEnd, At
  <2>2. Kept(prstate)
    BY <2>1, ReschedStep, HandedAsIs DEF LoopEnd, IInv
  <2> QED
    BY <2>1, <2>2, QuietStacks, SameStates DEF LoopEnd
<1> QED
  BY <1>1, <1>2, <1>3, <1>4

\* The clock: a sleeper that is woken waits for no message, unless it has waited too long.
LEMMA ClockMessages ==
    ASSUME IInv, MessagesOK, Tick \/ WakeupStep \/ WakeupEnd \/ PreemptCheck
    PROVE  MessagesOK'
<1>1. CASE Tick
  <2>1. \E at \in {"wakeup", "preempt"} : Push(NewFrame(at, 0, 0))
    BY <1>1 DEF Tick
  <2>2. Quiet
    BY <2>1, QuietStacks, OtherFrames
  <2> QED
    BY <1>1, <2>2, SameStates, StillStates DEF Tick
<1>2. CASE WakeupStep
  <2> DEFINE first == Head(sleepq)
             later == ToSet(Tail(sleepq))
             keys == [p \in Pid |-> IF p \in later THEN qkey[p] - qkey[first] ELSE qkey[p]]
  <2>1. first \in Pid /\ On(sleepq, first)
    BY <1>2, TailQueue DEF WakeupStep, IInv, SleepOK
  <2>2. prstate[first] \in {"SLEEP", "RECTIM"}
    BY <2>1 DEF IInv, SleepOK
  <2>3. ReadyNo(first, keys) /\ UNCHANGED <<prhasmsg, kstack>>
    BY <1>2, Zenon DEF WakeupStep
  <2> HIDE DEF first
  <2>4. keys \in [Pid -> Int]
    BY <2>1 DEF IInv, SchedOK
  <2> HIDE DEF keys
  <2>5. Kept([prstate EXCEPT ![first] = "READY"])
    BY <2>1, <2>2, <2>3, <2>4, ReadyNoStep DEF IInv, Eligible
  <2> QED
    BY <2>1, <2>2, <2>3, <2>5, QuietStacks, ReadyPasses
<1>3. CASE WakeupEnd
  <2>1. Kept(prstate)
    BY <1>3, ReschedStep, HandedAsIs DEF WakeupEnd, IInv
  <2>2. Quiet
    BY <1>3, QuietStacks, OtherFrames DEF WakeupEnd, At
  <2> QED
    BY <1>3, <2>1, <2>2, SameStates DEF WakeupEnd
<1>4. CASE PreemptCheck
  <2>1. Kept(prstate)
    <3>1. CASE preempt - 1 <= 0
      <4>1. ReschedSlice(prstate, readylist, qkey, QUANTUM)
        BY <1>4, <3>1 DEF PreemptCheck
      <4>2. QUANTUM \in 1 .. QUANTUM + 1
        BY SizeAssumption
      <4> QED
        BY <4>1, <4>2, ReschedSliceStep, HandedAsIs DEF IInv, SchedOK, RestOK
    <3>2. CASE ~(preempt - 1 <= 0)
      BY <1>4, <3>2, StillStates DEF PreemptCheck
    <3> QED
      BY <3>1, <3>2
  <2>2. Quiet
    BY <1>4, QuietStacks DEF PreemptCheck, At
  <2> QED
    BY <1>4, <2>1, <2>2, SameStates DEF PreemptCheck
<1> QED
  BY <1>1, <1>2, <1>3, <1>4

-----------------------------------------------------------------------------
(* The invariant and what it implies.                                       *)

\* The null process is in nulluser(), the others are nowhere.
LEMMA InitMessages == Init => MessagesOK
<1> SUFFICES ASSUME Init PROVE MessagesOK
  OBVIOUS
<1> DEFINE f == NewFrame("create", 0, 0)
<1>1. f \in Frame /\ f.at \notin {"receive", "recvtime"} /\ f # Receiving
  BY OtherFrames DEF Receiving, NewFrame
<1>2. <<>> \in Seq(Frame) /\ Lowest(<<>>) /\ ~On(<<>>, Receiving)
  BY EmptySeq DEF Lowest, On
<1> HIDE DEF f
<1>3. <<f>> \o <<>> = <<f>>
  BY <1>1
<1>4. Lowest(<<f>>) /\ ~On(<<f>>, Receiving)
  <2>1. PICK s \in Seq(Frame) : s = <<>>
    BY <1>2
  <2>2. /\ On(<<f>> \o s, Receiving) <=> Receiving = f \/ On(s, Receiving)
        /\ Lowest(s) /\ s = <<>> => Lowest(<<f>> \o s)
    BY <1>1, PushedFrame
  <2> QED
    BY <1>1, <1>2, <1>3, <2>1, <2>2
<1>5. \A p \in Pid : kstack[p] = IF p = NULLPROC THEN <<f>> ELSE <<>>
  BY DEF Init, f
<1>6. \A p \in Pid : prstate[p] = IF p = NULLPROC THEN "CURR" ELSE "FREE"
  BY DEF Init
<1> QED
  BY <1>2, <1>4, <1>5, <1>6 DEF MessagesOK, Blocked

\* Every step keeps it.
LEMMA NextMessages == IInv /\ MessagesOK /\ [Next]_vars => MessagesOK'
<1> SUFFICES ASSUME IInv, MessagesOK, [Next]_vars PROVE MessagesOK'
  OBVIOUS
<1>1. CASE KernelStep
  BY <1>1, CreateMessages, SchedulingMessages, MessageCalls, ExitMessages, LoopMessages,
     ClockMessages DEF KernelStep
<1>2. CASE SystemCall
  BY <1>2, CreateMessages, SchedulingMessages, MessageCalls, BlockingMessages, ExitMessages,
     SemaphoreMessages DEF SystemCall
<1>3. CASE Tick
  BY <1>3, ClockMessages
<1>4. CASE Halted \/ UNCHANGED vars
  BY <1>4 DEF Halted, vars, schedVars, MessagesOK
<1> QED
  BY <1>1, <1>2, <1>3, <1>4 DEF Next

\* The invariant holds in every state the kernel can be in.
THEOREM MessagesInvariance == Spec => []MessagesOK
  BY InitMessages, NextMessages, Invariance, PTL DEF Spec

\* No process waits for a message that it has, and none comes back from receive() without
\* one, whatever the calls and the clock do and wherever they are switched away
\* (receive.c:19-26, send.c:27-34).
THEOREM NoMessageMissed == Spec => []MessagesHeld
<1>1. MessagesOK => MessagesHeld
  BY DEF MessagesOK, MessagesHeld, Blocked, Receiving
<1> QED
  BY <1>1, MessagesInvariance, PTL

-----------------------------------------------------------------------------
(* Counting processes.  prcount goes down when a kill() begins and a slot   *)
(* becomes free when it ends, which may be long after: send() to the parent *)
(* may give the processor to it.  A process is then counted out twice if a  *)
(* second kill() finds it, so the count is right in a system whose          *)
(* processes only kill themselves, and in one where nobody waits for a      *)
(* message, where no kill() is switched away.                               *)

ExitsOnly   == "kill" \notin Calls
NobodyWaits == Calls \cap {"receive", "recvtime"} = {}

\* The processes whose kill() is on a stack, always as its lowest frame
Victims(stack) == {stack[i].arg : i \in {j \in DOMAIN stack : stack[j].at = "kill"}}
KillLowest(stack) == \A i \in DOMAIN stack : stack[i].at = "kill" => i = Len(stack)

Live == {p \in Pid : prstate[p] # "FREE" /\ ~Dying(p)}

\* No kill() is ever left: what one begins it ends with interrupts disabled.
AtOnce ==
    /\ \A p \in Pid : prstate[p] \notin Blocked
    /\ \A q \in Pid : Victims(kstack[q]) # {} =>
         /\ q = currpid /\ ~ie /\ Top.at = "kill"
         /\ \A v \in Victims(kstack[q]) : prstate[v] # "FREE"

CountOK ==
    /\ \A q \in Pid : KillLowest(kstack[q])
    /\ ExitsOnly => \A q \in Pid : Victims(kstack[q]) \subseteq {q}
    /\ NobodyWaits => AtOnce
    /\ ExitsOnly \/ NobodyWaits => PrcountLive
    /\ NobodyWaits => HaltOnlyWhenDone

\* Who is dying is on the stack of the one that kills it.
LEMMA DyingVictims ==
    /\ \A p \in Pid : Dying(p) <=> \E q \in Pid : p \in Victims(kstack[q])
    /\ \A p \in Pid : Dying(p)' <=> \E q \in Pid : p \in Victims(kstack'[q])
  BY DEF Dying, Victims

-----------------------------------------------------------------------------
(* Stacks.                                                                  *)

\* An empty stack kills nobody.
LEMMA NoVictims == Victims(<<>>) = {} /\ KillLowest(<<>>)
  BY EmptySeq DEF Victims, KillLowest

\* A frame that is pushed
LEMMA PushedVictims ==
    ASSUME NEW s \in Seq(Frame), NEW f \in Frame
    PROVE  /\ KillLowest(s) /\ (s = <<>> \/ f.at # "kill") => KillLowest(<<f>> \o s)
           /\ Victims(<<f>> \o s) = IF f.at = "kill" THEN {f.arg} \cup Victims(s) ELSE Victims(s)
<1> DEFINE t == <<f>> \o s
<1>1. /\ Len(s) \in Nat /\ DOMAIN s = 1 .. Len(s)
      /\ Len(t) = Len(s) + 1 /\ DOMAIN t = 1 .. Len(s) + 1
      /\ \A i \in 1 .. Len(s) + 1 : t[i] = IF i = 1 THEN f ELSE s[i - 1]
  BY LenProperties, ConcatProperties
<1>2. s = <<>> => Len(s) = 0
  BY EmptySeq
<1> HIDE DEF t
<1>3. ASSUME KillLowest(s), s = <<>> \/ f.at # "kill" PROVE KillLowest(t)
  <2> SUFFICES ASSUME NEW i \in 1 .. Len(s) + 1, t[i].at = "kill" PROVE i = Len(s) + 1
    BY <1>1 DEF KillLowest
  <2>1. CASE i = 1
    BY <1>1, <1>2, <1>3, <2>1
  <2>2. CASE i # 1
    <3>1. i - 1 \in 1 .. Len(s) /\ s[i - 1].at = "kill"
      BY <1>1, <2>2
    <3> QED
      BY <1>1, <1>3, <3>1 DEF KillLowest
  <2> QED
    BY <2>1, <2>2
<1>4. ASSUME NEW v PROVE v \in Victims(t) <=> v \in Victims(s) \/ (f.at = "kill" /\ v = f.arg)
  <2>1. ASSUME v \in Victims(t) PROVE v \in Victims(s) \/ (f.at = "kill" /\ v = f.arg)
    <3>1. PICK i \in 1 .. Len(s) + 1 : t[i].at = "kill" /\ v = t[i].arg
      BY <1>1, <2>1 DEF Victims
    <3>2. CASE i = 1
      BY <1>1, <3>1, <3>2
    <3>3. CASE i # 1
      <4>1. i - 1 \in 1 .. Len(s) /\ s[i - 1].at = "kill" /\ v = s[i - 1].arg
        BY <1>1, <3>1, <3>3
      <4> QED
        BY <1>1, <4>1 DEF Victims
    <3> QED
      BY <3>2, <3>3
  <2>2. ASSUME v \in Victims(s) PROVE v \in Victims(t)
    <3>1. PICK i \in 1 .. Len(s) : s[i].at = "kill" /\ v = s[i].arg
      BY <1>1, <2>2 DEF Victims
    <3>2. i + 1 \in 1 .. Len(s) + 1 /\ t[i + 1] = s[i]
      BY <1>1, <3>1
    <3> QED
      BY <1>1, <3>1, <3>2 DEF Victims
  <2>3. ASSUME f.at = "kill", v = f.arg PROVE v \in Victims(t)
    <3>1. 1 \in 1 .. Len(s) + 1 /\ t[1] = f
      BY <1>1
    <3> QED
      BY <1>1, <2>3, <3>1 DEF Victims
  <2> QED
    BY <2>1, <2>2, <2>3
<1> QED
  BY <1>3, <1>4 DEF t

\* A frame that is popped: a kill() was all there was.
LEMMA PoppedVictims ==
    ASSUME NEW s \in Seq(Frame), s # <<>>, KillLowest(s)
    PROVE  /\ Tail(s) \in Seq(Frame) /\ KillLowest(Tail(s))
           /\ Head(s).at # "kill" => Victims(Tail(s)) = Victims(s)
           /\ Head(s).at = "kill" => Tail(s) = <<>> /\ Victims(s) = {Head(s).arg}
<1> DEFINE t == Tail(s)
<1>1. /\ Len(s) \in Nat /\ Len(s) >= 1 /\ DOMAIN s = 1 .. Len(s) /\ Head(s) = s[1]
      /\ t \in Seq(Frame) /\ Len(t) = Len(s) - 1 /\ DOMAIN t = 1 .. Len(s) - 1
      /\ \A i \in 1 .. Len(s) - 1 : t[i] = s[i + 1]
  <2>1. Len(s) \in Nat /\ DOMAIN s = 1 .. Len(s) /\ (Len(s) = 0 => s = <<>>)
    BY LenProperties, EmptySeq
  <2>2. /\ t \in Seq(Frame) /\ Len(t) = Len(s) - 1 /\ Head(s) = s[1]
        /\ \A i \in 1 .. Len(t) : t[i] = s[i + 1]
    BY HeadTailProperties
  <2>3. DOMAIN t = 1 .. Len(t)
    BY <2>2, LenProperties
  <2> HIDE DEF t
  <2> QED
    BY <2>1, <2>2, <2>3
<1>2. Len(t) = 0 => t = <<>>
  BY <1>1, EmptySeq
<1> HIDE DEF t
<1>3. KillLowest(t)
  BY <1>1 DEF KillLowest
<1>4. ASSUME s[1].at # "kill", NEW v PROVE v \in Victims(t) <=> v \in Victims(s)
  <2>1. ASSUME v \in Victims(t) PROVE v \in Victims(s)
    <3>1. PICK i \in 1 .. Len(s) - 1 : t[i].at = "kill" /\ v = t[i].arg
      BY <1>1, <2>1 DEF Victims
    <3>2. i + 1 \in 1 .. Len(s) /\ s[i + 1] = t[i]
      BY <1>1, <3>1
    <3> QED
      BY <1>1, <3>1, <3>2 DEF Victims
  <2>2. ASSUME v \in Victims(s) PROVE v \in Victims(t)
    <3>1. PICK i \in 1 .. Len(s) : s[i].at = "kill" /\ v = s[i].arg
      BY <1>1, <2>2 DEF Victims
    <3>2. i - 1 \in 1 .. Len(s) - 1 /\ t[i - 1] = s[i]
      BY <1>1, <1>4, <3>1
    <3> QED
      BY <1>1, <3>1, <3>2 DEF Victims
  <2> QED
    BY <2>1, <2>2
<1>5. ASSUME s[1].at = "kill" PROVE t = <<>> /\ Victims(s) = {s[1].arg}
  <2>1. Len(s) = 1
    BY <1>1, <1>5 DEF KillLowest
  <2> QED
    BY <1>1, <1>2, <1>5, <2>1 DEF Victims
<1>6. s[1].at # "kill" => Victims(t) = Victims(s)
  BY <1>4
<1> QED
  BY <1>1, <1>3, <1>5, <1>6 DEF t

\* What a step does to the stacks when no kill() begins or ends.
NoKills == \A p \in Pid : KillLowest(kstack'[p]) /\ Victims(kstack'[p]) = Victims(kstack[p])

LEMMA NoKillStacks ==
    ASSUME IInv, CountOK
    PROVE  /\ UNCHANGED kstack => NoKills
           /\ \A f \in Frame : f.at # "kill" /\ Push(f) => NoKills
           /\ kstack[currpid] # <<>> /\ Top.at # "kill" /\ Pop => NoKills
           /\ \A f \in Frame : /\ f.at # "kill" /\ kstack[currpid] # <<>>
                               /\ Top.at # "kill" /\ Replace(f)
                               => NoKills
<1> DEFINE s == kstack[currpid]
<1>1. /\ currpid \in Pid /\ kstack \in [Pid -> Seq(Frame)] /\ s \in Seq(Frame)
      /\ \A p \in Pid : KillLowest(kstack[p])
  BY DEF IInv, SchedOK, RestOK, CountOK
<1>2. ASSUME NEW t, KillLowest(t), Victims(t) = Victims(s),
             kstack' = [kstack EXCEPT ![currpid] = t]
      PROVE  NoKills
  BY <1>1, <1>2 DEF NoKills
<1>3. ASSUME UNCHANGED kstack PROVE NoKills
  BY <1>1, <1>3 DEF NoKills
<1>4. ASSUME NEW f \in Frame, f.at # "kill", Push(f) PROVE NoKills
  <2>1. KillLowest(<<f>> \o s) /\ Victims(<<f>> \o s) = Victims(s)
    BY <1>1, <1>4, PushedVictims
  <2>2. kstack' = [kstack EXCEPT ![currpid] = <<f>> \o s]
    BY <1>4 DEF Push
  <2> QED
    BY <1>2, <2>1, <2>2
<1>5. ASSUME s # <<>>, Top.at # "kill"
      PROVE  Tail(s) \in Seq(Frame) /\ KillLowest(Tail(s)) /\ Victims(Tail(s)) = Victims(s)
  BY <1>1, <1>5, PoppedVictims DEF Top
<1>6. ASSUME s # <<>>, Top.at # "kill", Pop PROVE NoKills
  <2>1. kstack' = [kstack EXCEPT ![currpid] = Tail(s)]
    BY <1>6 DEF Pop
  <2> QED
    BY <1>2, <1>5, <1>6, <2>1
<1>7. ASSUME NEW f \in Frame, f.at # "kill", s # <<>>, Top.at # "kill", Replace(f)
      PROVE  NoKills
  <2>1. KillLowest(<<f>> \o Tail(s)) /\ Victims(<<f>> \o Tail(s)) = Victims(s)
    BY <1>5, <1>7, PushedVictims
  <2>2. kstack' = [kstack EXCEPT ![currpid] = <<f>> \o Tail(s)]
    BY <1>7 DEF Replace
  <2> QED
    BY <1>2, <2>1, <2>2
<1> QED
  BY <1>3, <1>4, <1>6, <1>7

-----------------------------------------------------------------------------
(* What a step does to the count.                                           *)

\* No slot is taken or freed, and nobody waits who would have a message to wait for.
Stays(st) ==
    \A p \in Pid : /\ st[p] = "FREE" <=> prstate[p] = "FREE"
                   /\ st[p] \in Blocked => prstate[p] \in Blocked \/ ~NobodyWaits

\* The same slots are in use after the step.
Lives ==
    \A p \in Pid : /\ prstate'[p] = "FREE" <=> prstate[p] = "FREE"
                   /\ prstate'[p] \in Blocked => prstate[p] \in Blocked \/ ~NobodyWaits

LEMMA KeptLives == ASSUME NEW st, Kept(st), Stays(st) PROVE Lives
  BY DEF Kept, Stays, Lives, Eligible, Blocked

\* A process is made ready.
LEMMA ReadyLives ==
    ASSUME IInv, NEW p \in Pid, prstate[p] # "FREE", Kept([prstate EXCEPT ![p] = "READY"])
    PROVE  Lives
<1> DEFINE st == [prstate EXCEPT ![p] = "READY"]
<1>1. \A q \in Pid : st[q] = IF q = p THEN "READY" ELSE prstate[q]
  BY DEF IInv, SchedOK
<1> HIDE DEF st
<1>2. Stays(st)
  BY <1>1 DEF Stays, Blocked
<1> QED
  BY <1>2, KeptLives DEF st

\* The caller blocks, for a message if that is one of the calls.
LEMMA BlockLives ==
    ASSUME IInv, NEW s \in States \ {"FREE"}, s \in Blocked => ~NobodyWaits,
           Kept([prstate EXCEPT ![currpid] = s])
    PROVE  Lives
<1> DEFINE st == [prstate EXCEPT ![currpid] = s]
<1>1. \A q \in Pid : st[q] = IF q = currpid THEN s ELSE prstate[q]
  BY DEF IInv, SchedOK
<1>2. currpid \in Pid /\ prstate[currpid] = "CURR"
  BY DEF IInv, SchedOK
<1> HIDE DEF st
<1>3. Stays(st)
  BY <1>1, <1>2 DEF Stays
<1> QED
  BY <1>3, KeptLives DEF st

\* No process changes its state but for a reschedule.
LEMMA SameLives == ASSUME Kept(prstate) PROVE Lives
  BY KeptLives DEF Stays

\* send() makes a process ready at most.
LEMMA SendToLives ==
    ASSUME IInv, NEW pid \in Pid, SendTo(pid)
    PROVE  Lives
<1>1. CASE prstate[pid] \in {"RECV", "RECTIM"} /\ ReadyYes(pid)
  BY <1>1, ReadyYesStep, ReadyLives DEF IInv, Eligible
<1>2. CASE UNCHANGED schedVars
  BY <1>2, SameLives, StillStates DEF schedVars
<1> QED
  BY <1>1, <1>2 DEF SendTo

\* While an interrupt can be taken, or the call to go on with is no kill(), none
\* is under way in a system where none is left.
LEMMA NoneDying ==
    ASSUME CountOK, NobodyWaits, ie \/ Top.at # "kill"
    PROVE  /\ \A q \in Pid : Victims(kstack[q]) = {}
           /\ \A p \in Pid : ~Dying(p)
  BY DyingVictims DEF CountOK, AtOnce

\* A step that begins and ends no kill(), and creates nothing
LEMMA SteadyStep ==
    ASSUME IInv, CountOK, NoKills, Lives, UNCHANGED <<prcount, halted>>, ~halted,
           ie \/ Top.at # "kill"
    PROVE  CountOK'
<1>1. \A p \in Pid : Dying(p)' <=> Dying(p)
  BY DyingVictims DEF NoKills
<1>2. Live' = Live
  BY <1>1 DEF Live, Lives
<1>3. PrcountLive => PrcountLive'
  BY <1>2 DEF PrcountLive, Live
<1>4. NobodyWaits => AtOnce'
  BY NoneDying DEF AtOnce, NoKills, Lives, CountOK
<1>5. HaltOnlyWhenDone'
  BY DEF HaltOnlyWhenDone
<1> QED
  BY <1>3, <1>4, <1>5 DEF CountOK, NoKills, ExitsOnly, NobodyWaits

-----------------------------------------------------------------------------
(* Every operation keeps the count.                                         *)

\* Frames other than that of kill()
LEMMA FramesOfCalls ==
    /\ \A at \in {"create", "receive", "recvtime", "wakeup", "preempt"} :
         NewFrame(at, 0, 0) \in Frame /\ NewFrame(at, 0, 0).at # "kill"
    /\ \A p \in Pid : NewFrame("resume", p, 0) \in Frame /\ NewFrame("resume", p, 0).at # "kill"
    /\ \A at \in {"signaln", "semdelete", "semreset"}, s \in Sem, n \in Nat :
         NewFrame(at, s, n) \in Frame /\ NewFrame(at, s, n).at # "kill"
  BY Frames DEF NewFrame

\* A process that is free is nobody's victim.
LEMMA FreeNotDying ==
    ASSUME IInv, MessagesOK, CountOK, ExitsOnly \/ NobodyWaits,
           NEW p \in Pid, prstate[p] = "FREE"
    PROVE  ~Dying(p)
<1> SUFFICES ASSUME NEW q \in Pid, p \in Victims(kstack[q]) PROVE FALSE
  BY DyingVictims
<1>1. CASE ExitsOnly
  <2>1. q = p /\ kstack[q] = <<>>
    BY <1>1 DEF CountOK, MessagesOK
  <2> QED
    BY <2>1, NoVictims
<1>2. CASE NobodyWaits
  BY <1>2 DEF CountOK, AtOnce
<1> QED
  BY <1>1, <1>2

LEMMA PidsFinite == IsFiniteSet(Pid)
  BY SizeAssumption, FS_Interval DEF Pid

\* create(): one slot more is in use.
LEMMA MakeProcessCount ==
    ASSUME IInv, MessagesOK, CountOK, FreeFrom(nextpid) # {}, NEW priority,
           MakeProcess(NewPid(nextpid), priority), NoKills, UNCHANGED halted, ~halted,
           ie \/ Top.at # "kill"
    PROVE  CountOK'
<1> DEFINE pid == NewPid(nextpid)
<1>1. pid \in Pid /\ prstate[pid] = "FREE"
  BY NewPidFree DEF IInv, RestOK
<1>2. prstate' = [prstate EXCEPT ![pid] = "SUSP"] /\ prcount' = prcount + 1
  BY DEF MakeProcess
<1> HIDE DEF pid
<1>3. \A p \in Pid : prstate'[p] = IF p = pid THEN "SUSP" ELSE prstate[p]
  BY <1>2 DEF IInv, SchedOK
<1>4. \A p \in Pid : Dying(p)' <=> Dying(p)
  BY DyingVictims DEF NoKills
<1>5. ASSUME ExitsOnly \/ NobodyWaits PROVE PrcountLive'
  <2>1. ~Dying(pid)
    BY <1>1, <1>5, FreeNotDying
  <2>2. Live' = Live \cup {pid} /\ pid \notin Live
    BY <1>1, <1>3, <1>4, <2>1 DEF Live
  <2>3. IsFiniteSet(Live)
    BY PidsFinite, FS_Subset DEF Live
  <2>4. Cardinality(Live') = Cardinality(Live) + 1
    BY <2>2, <2>3, FS_AddElement
  <2>5. prcount = Cardinality(Live)
    BY <1>5 DEF CountOK, PrcountLive, Live
  <2> QED
    BY <1>2, <2>4, <2>5 DEF PrcountLive, Live
<1>6. NobodyWaits => AtOnce'
  BY <1>3, NoneDying DEF AtOnce, NoKills, CountOK, Blocked
<1>7. HaltOnlyWhenDone'
  BY DEF HaltOnlyWhenDone
<1> QED
  BY <1>5, <1>6, <1>7 DEF CountOK, NoKills, ExitsOnly, NobodyWaits

LEMMA CreateCount ==
    ASSUME IInv, MessagesOK, CountOK, NullCreate \/ (\E n \in Prios : Create(n)) \/ CreateNoStack
    PROVE  CountOK'
<1>1. CASE NullCreate
  <2>1. NewPid(nextpid) \in Pid
    BY <1>1, NewPidFree DEF NullCreate, IInv, RestOK
  <2>2. NoKills
    BY <1>1, <2>1, NoKillStacks, FramesOfCalls DEF NullCreate, At
  <2> QED
    BY <1>1, <2>2, MakeProcessCount DEF NullCreate, At
<1>2. ASSUME NEW n \in Prios, Create(n) PROVE CountOK'
  BY <1>2, NoKillStacks, MakeProcessCount DEF Create, User
<1>3. CASE CreateNoStack
  BY <1>3, NoKillStacks, SameLives, StillStates, SteadyStep DEF CreateNoStack, schedVars, User
<1> QED
  BY <1>1, <1>2, <1>3

\* resume(), suspend(), yield() and chprio()
LEMMA SchedulingCount ==
    ASSUME IInv, CountOK,
           \/ NullResume \/ SuspendSelf \/ Yield
           \/ \E p \in Pid : Resume(p) \/ SuspendReady(p)
           \/ \E p \in Pid, n \in ChPrios : Chprio(p, n)
    PROVE  CountOK'
<1>1. ASSUME NEW p \in Pid, prstate[p] = "SUSP", ReadyYes(p) PROVE Lives
  BY <1>1, ReadyYesStep, ReadyLives DEF IInv, Eligible
<1>2. CASE NullResume
  <2>1. Top.arg \in Pid /\ NoKills
    BY <1>2, Stacks, Frames, NoKillStacks DEF NullResume, At, IInv
  <2>2. Lives
    BY <1>1, <1>2, <2>1 DEF NullResume
  <2> QED
    BY <1>2, <2>1, <2>2, SteadyStep DEF NullResume, At, idVars
<1>3. ASSUME NEW p \in Pid, Resume(p) PROVE CountOK'
  BY <1>1, <1>3, NoKillStacks, SteadyStep DEF Resume, User, idVars
<1>4. ASSUME NEW p \in Pid, SuspendReady(p) PROVE CountOK'
  <2>1. \A q \in Pid : prstate'[q] = IF q = p THEN "SUSP" ELSE prstate[q]
    BY <1>4 DEF SuspendReady, IInv, SchedOK
  <2>2. Lives
    BY <1>4, <2>1 DEF Lives, SuspendReady, Blocked
  <2> QED
    BY <1>4, <2>2, NoKillStacks, SteadyStep DEF SuspendReady, User, idVars
<1>5. CASE SuspendSelf
  <2>1. Kept([prstate EXCEPT ![currpid] = "SUSP"])
    BY <1>5, BlockStep DEF SuspendSelf, Block, User, IInv, SchedOK, States, Eligible
  <2>2. Lives
    BY <2>1, BlockLives DEF States, Blocked
  <2> QED
    BY <1>5, <2>2, NoKillStacks, SteadyStep DEF SuspendSelf, User, idVars
<1>6. CASE Yield
  <2>1. Lives
    BY <1>6, ReschedStep, HandedAsIs, SameLives DEF Yield, IInv
  <2> QED
    BY <1>6, <2>1, NoKillStacks, SteadyStep DEF Yield, User, idVars
<1>7. ASSUME NEW p \in Pid, NEW n \in ChPrios, Chprio(p, n) PROVE CountOK'
  BY <1>7, NoKillStacks, SameLives, StillStates, SteadyStep DEF Chprio, schedVars, User
<1> QED
  BY <1>2, <1>3, <1>4, <1>5, <1>6, <1>7

\* The calls about messages, the returns of those that waited, and sleepms()
LEMMA WaitingCount ==
    ASSUME IInv, CountOK,
           \/ \E p \in Pid : Send(p)
           \/ TakeMessage \/ ReceiveReturn \/ RecvtimeReturn \/ ReceiveBlock
           \/ \E d \in MaxWaits : RecvtimeBlock(d)
           \/ \E d \in Delays : Sleepms(d)
    PROVE  CountOK'
<1>1. ASSUME NEW p \in Pid, Send(p) PROVE CountOK'
  <2>1. Lives
    BY <1>1, SendToLives DEF Send
  <2> QED
    BY <1>1, <2>1, NoKillStacks, SteadyStep DEF Send, User, idVars
<1>2. CASE TakeMessage
  BY <1>2, NoKillStacks, SameLives, StillStates, SteadyStep
  DEF TakeMessage, User, schedVars, idVars
<1>3. CASE ReceiveReturn \/ RecvtimeReturn
  <2>1. NoKills
    BY <1>3, NoKillStacks DEF ReceiveReturn, RecvtimeReturn, At
  <2> QED
    BY <1>3, <2>1, SameLives, StillStates, SteadyStep
    DEF ReceiveReturn, RecvtimeReturn, At, schedVars, idVars
<1>4. CASE ReceiveBlock
  <2>1. Kept([prstate EXCEPT ![currpid] = "RECV"])
    BY <1>4, BlockStep DEF ReceiveBlock, Block, User, IInv, SchedOK, States, Eligible
  <2>2. ~NobodyWaits
    BY <1>4 DEF ReceiveBlock, User, NobodyWaits
  <2>3. Lives
    BY <2>1, <2>2, BlockLives DEF States
  <2>4. NoKills
    BY <1>4, NoKillStacks, FramesOfCalls DEF ReceiveBlock
  <2> QED
    BY <1>4, <2>3, <2>4, SteadyStep DEF ReceiveBlock, User, idVars
<1>5. ASSUME NEW s \in {"RECTIM", "SLEEP"}, NEW d \in Int, currpid # NULLPROC, SleepIn(s, d),
             s = "RECTIM" => ~NobodyWaits
      PROVE  Lives
  <2>1. [qkey EXCEPT ![currpid] = d] \in [Pid -> Int]
    BY DEF IInv, SchedOK
  <2>2. Kept([prstate EXCEPT ![currpid] = s])
    BY <1>5, <2>1, BlockStep DEF SleepIn, IInv, States, Eligible
  <2> QED
    BY <1>5, <2>2, BlockLives DEF States, Blocked
<1>6. ASSUME NEW d \in MaxWaits, RecvtimeBlock(d) PROVE CountOK'
  <2>1. d \in Int /\ ~NobodyWaits /\ currpid # NULLPROC /\ SleepIn("RECTIM", d)
    BY <1>6, ArgumentAssumption DEF RecvtimeBlock, User, NobodyWaits
  <2>2. Lives
    BY <1>5, <2>1
  <2>3. NoKills
    BY <1>6, NoKillStacks, FramesOfCalls DEF RecvtimeBlock
  <2> QED
    BY <1>6, <2>2, <2>3, SteadyStep DEF RecvtimeBlock, User, idVars
<1>7. ASSUME NEW d \in Delays, Sleepms(d) PROVE CountOK'
  <2>1. d \in Int /\ currpid # NULLPROC /\ SleepIn("SLEEP", d)
    BY <1>7, ArgumentAssumption DEF Sleepms, User
  <2>2. Lives
    BY <1>5, <2>1
  <2> QED
    BY <1>7, <2>2, NoKillStacks, SteadyStep DEF Sleepms, User, idVars
<1> QED
  BY <1>1, <1>2, <1>3, <1>4, <1>6, <1>7

\* A process that waits for a semaphore is released.
LEMMA ReleaseLives ==
    ASSUME IInv, NEW s \in Sem,
           \/ squeue[s] # <<>> /\ (ReadyYes(Head(squeue[s])) \/ ReadyNo(Head(squeue[s]), qkey))
           \/ UNCHANGED schedVars
    PROVE  Lives
<1>1. CASE squeue[s] # <<>> /\ (ReadyYes(Head(squeue[s])) \/ ReadyNo(Head(squeue[s]), qkey))
  <2>1. squeue[s] \in Seq(Pid) /\ Head(squeue[s]) \in Pid /\ On(squeue[s], Head(squeue[s]))
    BY <1>1, TailQueue DEF IInv, SemOK
  <2>2. prstate[Head(squeue[s])] = "WAIT"
    BY <2>1 DEF IInv, SemOK
  <2>3. Kept([prstate EXCEPT ![Head(squeue[s])] = "READY"])
    BY <1>1, <2>1, <2>2, ReadyYesStep, ReadyNoStep DEF IInv, SchedOK, Eligible
  <2> QED
    BY <2>1, <2>2, <2>3, ReadyLives
<1>2. CASE UNCHANGED schedVars
  BY <1>2, SameLives, StillStates DEF schedVars
<1> QED
  BY <1>1, <1>2

\* The semaphore calls
LEMMA SemaphoreCount ==
    ASSUME IInv, CountOK,
           \/ \E n \in Counts : Semcreate(n)
           \/ \E s \in Sem : WaitTake(s) \/ WaitBlock(s) \/ Signal(s) \/ Semdelete(s)
           \/ \E s \in Sem, n \in Counts : Signaln(s, n) \/ Semreset(s, n)
    PROVE  CountOK'
<1>1. UNCHANGED schedVars => Lives
  BY SameLives, StillStates DEF schedVars
<1>2. ASSUME NEW n \in Counts, Semcreate(n) PROVE CountOK'
  <2>1. UNCHANGED <<schedVars, prcount, halted, kstack>> /\ ~halted /\ ie
    BY <1>2, Zenon DEF Semcreate, User, idVars
  <2> QED
    BY <1>1, <2>1, NoKillStacks, SteadyStep
<1>3. ASSUME NEW s \in Sem, WaitTake(s) PROVE CountOK'
  BY <1>1, <1>3, NoKillStacks, SteadyStep DEF WaitTake, User, idVars
<1>4. ASSUME NEW s \in Sem, WaitBlock(s) PROVE CountOK'
  <2>1. Kept([prstate EXCEPT ![currpid] = "WAIT"])
    BY <1>4, BlockStep DEF WaitBlock, Block, User, IInv, SchedOK, States, Eligible
  <2>2. Lives
    BY <2>1, BlockLives DEF States, Blocked
  <2> QED
    BY <1>4, <2>2, NoKillStacks, SteadyStep DEF WaitBlock, User, idVars
<1>5. ASSUME NEW s \in Sem, Signal(s) PROVE CountOK'
  <2>1. Lives
    BY <1>5, ReleaseLives DEF Signal, Releases
  <2> QED
    BY <1>5, <2>1, NoKillStacks, SteadyStep DEF Signal, User, idVars
<1>6. ASSUME NEW call \in {"signaln", "semdelete", "semreset"}, NEW s \in Sem, NEW n \in Nat,
             LoopCall(call, s, n)
      PROVE  CountOK'
  <2>1. NoKills
    BY <1>6, NoKillStacks, FramesOfCalls DEF LoopCall
  <2> QED
    BY <1>1, <1>6, <2>1, SteadyStep DEF LoopCall, User, idVars
<1>7. ASSUME NEW s \in Sem, Semdelete(s) PROVE CountOK'
  BY <1>6, <1>7 DEF Semdelete
<1>8. ASSUME NEW s \in Sem, NEW n \in Counts, Signaln(s, n) \/ Semreset(s, n) PROVE CountOK'
  BY <1>6, <1>8, ArgumentAssumption DEF Signaln, Semreset
<1> QED
  BY <1>2, <1>3, <1>4, <1>5, <1>7, <1>8

\* The loops of signaln(), semdelete() and semreset(), and their ends
LEMMA LoopCount ==
    ASSUME IInv, CountOK,
           \/ SignalnStep \/ SemdeleteStep \/ SemresetStep
           \/ SignalnEnd \/ SemdeleteEnd \/ SemresetEnd
    PROVE  CountOK'
<1>1. CASE SignalnStep
  <2>1. Top.arg \in Sem /\ Top.cnt \in Nat /\ Top.cnt > 0
    BY <1>1, Stacks, Frames DEF SignalnStep, At, IInv
  <2>2. /\ NewFrame("signaln", Top.arg, Top.cnt - 1) \in Frame
        /\ NewFrame("signaln", Top.arg, Top.cnt - 1).at # "kill"
    BY <2>1, FramesOfCalls
  <2>3. NoKills
    BY <1>1, <2>2, NoKillStacks DEF SignalnStep, At
  <2>4. Lives
    BY <1>1, <2>1, ReleaseLives DEF SignalnStep, Releases
  <2> QED
    BY <1>1, <2>3, <2>4, SteadyStep DEF SignalnStep, At, idVars
<1>2. CASE SemdeleteStep
  <2>1. Top.arg \in Sem
    BY <1>2, Stacks, Frames DEF SemdeleteStep, At, IInv
  <2>2. Lives
    BY <1>2, <2>1, ReleaseLives DEF SemdeleteStep, Releases
  <2> QED
    BY <1>2, <2>2, NoKillStacks, SteadyStep DEF SemdeleteStep, At, idVars
<1>3. CASE SemresetStep
  <2>1. Top.arg \in Sem
    BY <1>3, Stacks, Frames DEF SemresetStep, At, IInv
  <2>2. Lives
    BY <1>3, <2>1, ReleaseLives DEF SemresetStep
  <2> QED
    BY <1>3, <2>2, NoKillStacks, SteadyStep DEF SemresetStep, At, idVars
<1>4. CASE SignalnEnd \/ SemdeleteEnd \/ SemresetEnd
  <2>1. LoopEnd /\ kstack[currpid] # <<>> /\ ~halted /\ Top.at # "kill"
    BY <1>4 DEF SignalnEnd, SemdeleteEnd, SemresetEnd, At
  <2>2. Lives
    BY <2>1, ReschedStep, HandedAsIs, SameLives DEF LoopEnd, IInv
  <2> QED
    BY <2>1, <2>2, NoKillStacks, SteadyStep DEF LoopEnd, idVars
<1> QED
  BY <1>1, <1>2, <1>3, <1>4

\* The clock
LEMMA ClockCount ==
    ASSUME IInv, CountOK, Tick \/ WakeupStep \/ WakeupEnd \/ PreemptCheck
    PROVE  CountOK'
<1>1. CASE Tick
  <2>1. \E at \in {"wakeup", "preempt"} : Push(NewFrame(at, 0, 0))
    BY <1>1 DEF Tick
  <2>2. NoKills
    BY <2>1, NoKillStacks, FramesOfCalls
  <2> QED
    BY <1>1, <2>2, SameLives, StillStates, SteadyStep DEF Tick, idVars
<1>2. CASE WakeupStep
  <2> DEFINE first == Head(sleepq)
             later == ToSet(Tail(sleepq))
             keys == [p \in Pid |-> IF p \in later THEN qkey[p] - qkey[first] ELSE qkey[p]]
  <2>1. first \in Pid /\ On(sleepq, first)
    BY <1>2, TailQueue DEF WakeupStep, IInv, SleepOK
  <2>2. prstate[first] \in {"SLEEP", "RECTIM"}
    BY <2>1 DEF IInv, SleepOK
  <2>3. ReadyNo(first, keys) /\ UNCHANGED <<idVars, kstack>> /\ At("wakeup")
    BY <1>2, Zenon DEF WakeupStep
  <2> HIDE DEF first
  <2>4. keys \in [Pid -> Int]
    BY <2>1 DEF IInv, SchedOK
  <2> HIDE DEF keys
  <2>5. Kept([prstate EXCEPT ![first] = "READY"])
    BY <2>1, <2>2, <2>3, <2>4, ReadyNoStep DEF IInv, Eligible
  <2>6. Lives
    BY <2>1, <2>2, <2>5, ReadyLives
  <2> QED
    BY <2>3, <2>6, NoKillStacks, SteadyStep DEF At, idVars
<1>3. CASE WakeupEnd
  <2>1. Lives
    BY <1>3, ReschedStep, HandedAsIs, SameLives DEF WakeupEnd, IInv
  <2>2. NoKills
    BY <1>3, NoKillStacks, FramesOfCalls DEF WakeupEnd, At
  <2> QED
    BY <1>3, <2>1, <2>2, SteadyStep DEF WakeupEnd, At, idVars
<1>4. CASE PreemptCheck
  <2>1. Kept(prstate)
    <3>1. CASE preempt - 1 <= 0
      <4>1. ReschedSlice(prstate, readylist, qkey, QUANTUM)
        BY <1>4, <3>1 DEF PreemptCheck
      <4>2. QUANTUM \in 1 .. QUANTUM + 1
        BY SizeAssumption
      <4> QED
        BY <4>1, <4>2, ReschedSliceStep, HandedAsIs DEF IInv, SchedOK, RestOK
    <3>2. CASE ~(preempt - 1 <= 0)
      BY <1>4, <3>2, StillStates DEF PreemptCheck
    <3> QED
      BY <3>1, <3>2
  <2>2. NoKills
    BY <1>4, NoKillStacks DEF PreemptCheck, At
  <2> QED
    BY <1>4, <2>1, <2>2, SameLives, SteadyStep DEF PreemptCheck, At, idVars
<1> QED
  BY <1>1, <1>2, <1>3, <1>4

\* kill() begins: the process is counted out, whoever runs next.
LEMMA KillCount ==
    ASSUME IInv, CountOK, NEW pid \in Pid, Kill(pid)
    PROVE  CountOK'
<1> DEFINE f == NewFrame("kill", pid, 0)
<1>1. /\ ~halted /\ ie /\ kstack[currpid] = <<>> /\ currpid \in Pid
      /\ pid # NULLPROC /\ prstate[pid] # "FREE" /\ (ExitsOnly => pid = currpid)
      /\ prcount' = prcount - 1 /\ SendTo(prparent[pid]) /\ EnabledBySwitch
      /\ Push(f) /\ halted' = halted
  BY DEF Kill, User, ExitsOnly, IInv, SchedOK
<1>2. f \in Frame /\ f.at = "kill" /\ f.arg = pid
  BY <1>1, Frames DEF NewFrame
<1> HIDE DEF f
<1>3. Lives
  BY <1>1, SendToLives DEF IInv, RestOK
<1>4. KillLowest(<<f>> \o <<>>) /\ Victims(<<f>> \o <<>>) = {pid} /\ Head(<<f>> \o <<>>).at = "kill"
  <2>1. <<>> \in Seq(Frame)
    OBVIOUS
  <2>2. KillLowest(<<f>> \o <<>>) /\ Victims(<<f>> \o <<>>) = {pid}
    BY <1>2, <2>1, NoVictims, PushedVictims
  <2> QED
    BY <1>2, <2>2
<1>5. \A q \in Pid : kstack'[q] = IF q = currpid THEN <<f>> \o <<>> ELSE kstack[q]
  BY <1>1 DEF Push, IInv, RestOK
<1>6. \A q \in Pid : /\ KillLowest(kstack'[q])
                     /\ Victims(kstack'[q]) = IF q = currpid THEN {pid} ELSE Victims(kstack[q])
  BY <1>4, <1>5 DEF CountOK
<1>7. Victims(kstack[currpid]) = {}
  BY <1>1, NoVictims
<1>8. \A p \in Pid : Dying(p)' <=> Dying(p) \/ p = pid
  BY <1>1, <1>6, <1>7, DyingVictims
<1>9. ASSUME ExitsOnly \/ NobodyWaits PROVE PrcountLive'
  <2>1. ~Dying(pid)
    <3>1. CASE ExitsOnly
      BY <1>1, <1>7, <3>1, DyingVictims DEF CountOK
    <3>2. CASE NobodyWaits
      BY <1>1, <3>2, NoneDying
    <3> QED
      BY <1>9, <3>1, <3>2
  <2>2. Live' = Live \ {pid} /\ pid \in Live
    BY <1>1, <1>3, <1>8, <2>1 DEF Live, Lives
  <2>3. IsFiniteSet(Live)
    BY PidsFinite, FS_Subset DEF Live
  <2>4. Cardinality(Live') = Cardinality(Live) - 1
    BY <2>2, <2>3, FS_RemoveElement
  <2>5. prcount = Cardinality(Live)
    BY <1>1, <1>9 DEF CountOK, PrcountLive, Live
  <2> QED
    BY <1>1, <2>4, <2>5 DEF PrcountLive, Live
<1>10. ASSUME NobodyWaits PROVE AtOnce'
  <2>1. UNCHANGED schedVars
    BY <1>1, <1>10 DEF SendTo, CountOK, AtOnce, Blocked, IInv, RestOK
  <2>2. currpid' = currpid /\ prstate' = prstate /\ ie' = FALSE
    BY <1>1, <2>1 DEF schedVars, EnabledBySwitch
  <2>3. \A q \in Pid : Victims(kstack[q]) = {}
    BY <1>1, <1>10, NoneDying
  <2>4. Top'.at = "kill"
    BY <1>1, <1>4, <1>5, <2>2 DEF Top
  <2> QED
    BY <1>1, <1>6, <1>10, <2>2, <2>3, <2>4 DEF AtOnce, CountOK
<1>11. HaltOnlyWhenDone'
  BY <1>1 DEF HaltOnlyWhenDone
<1>12. ASSUME ExitsOnly, NEW q \in Pid PROVE Victims(kstack'[q]) \subseteq {q}
  BY <1>1, <1>6, <1>12 DEF CountOK
<1> QED
  BY <1>6, <1>9, <1>10, <1>11, <1>12 DEF CountOK, ExitsOnly, NobodyWaits

\* The last process: nobody else is left, and the machine halts.
LEMMA KillLastCount ==
    ASSUME IInv, CountOK, NEW pid \in Pid, KillLast(pid)
    PROVE  CountOK'
<1>1. /\ ~halted /\ ie /\ halted' /\ UNCHANGED <<schedVars, kstack>>
      /\ prcount' = prcount - 1 /\ prcount' <= 1
  BY DEF KillLast, User
<1>2. NoKills
  BY <1>1, NoKillStacks
<1>3. NobodyWaits => AtOnce'
  BY <1>1, <1>2, NoneDying DEF AtOnce, NoKills, CountOK, schedVars
<1>4. PrcountLive'
  BY <1>1 DEF PrcountLive
<1>5. ASSUME NobodyWaits PROVE HaltOnlyWhenDone'
  <2> DEFINE users == {p \in Pid \ {NULLPROC} : prstate[p] # "FREE"}
  <2>1. \A p \in Pid : ~Dying(p)
    BY <1>1, <1>5, NoneDying
  <2>2. users = Live \ {NULLPROC} /\ NULLPROC \in Live
    BY <2>1, Processes DEF Live, IInv, SchedOK, Eligible
  <2>3. IsFiniteSet(Live)
    BY PidsFinite, FS_Subset DEF Live
  <2>4. Cardinality(users) = Cardinality(Live) - 1
    BY <2>2, <2>3, FS_RemoveElement
  <2>5. prcount = Cardinality(Live)
    BY <1>1, <1>5 DEF CountOK, PrcountLive, Live
  <2>6. Cardinality(users) <= 1
    BY <1>1, <2>4, <2>5 DEF IInv, RestOK
  <2> QED
    BY <1>1, <2>6 DEF HaltOnlyWhenDone, schedVars
<1> QED
  BY <1>2, <1>3, <1>4, <1>5 DEF CountOK, NoKills, ExitsOnly, NobodyWaits

\* The end of a suicide: the slot that was counted out is freed.
LEMMA KillSelfCount ==
    ASSUME IInv, CountOK, KillSelf
    PROVE  CountOK'
<1>1. /\ ~halted /\ kstack[currpid] # <<>> /\ Top.at = "kill" /\ Top.arg = currpid
      /\ currpid \in Pid /\ currpid # NULLPROC
      /\ kstack' = [kstack EXCEPT ![currpid] = <<>>]
      /\ Block("FREE") /\ UNCHANGED <<prcount, halted>>
  BY Stacks, Frames DEF KillSelf, At, IInv, SchedOK, idVars
<1>2. Victims(kstack[currpid]) = {currpid}
  BY <1>1, PoppedVictims DEF Top, IInv, RestOK, CountOK
<1>3. \A q \in Pid : /\ KillLowest(kstack'[q])
                     /\ Victims(kstack'[q]) = IF q = currpid THEN {} ELSE Victims(kstack[q])
  BY <1>1, NoVictims DEF CountOK, IInv, RestOK
<1>4. \A p \in Pid : /\ prstate'[p] = "FREE" <=> prstate[p] = "FREE" \/ p = currpid
                     /\ prstate'[p] \in Blocked => prstate[p] \in Blocked
  <2> DEFINE st == [prstate EXCEPT ![currpid] = "FREE"]
  <2>1. Kept(st)
    BY <1>1, BlockStep DEF Block, IInv, SchedOK, States, Eligible
  <2>2. \A p \in Pid : st[p] = IF p = currpid THEN "FREE" ELSE prstate[p]
    BY DEF IInv, SchedOK
  <2> HIDE DEF st
  <2> QED
    BY <2>1, <2>2 DEF Kept, Eligible, Blocked
<1>5. \A p \in Pid : p # currpid => (Dying(p)' <=> Dying(p))
  BY <1>1, <1>2, <1>3, DyingVictims
<1>6. Dying(currpid)
  BY <1>1, <1>2, DyingVictims
<1>7. Live' = Live
  BY <1>1, <1>4, <1>5, <1>6 DEF Live
<1>8. PrcountLive => PrcountLive'
  BY <1>1, <1>7 DEF PrcountLive, Live
<1>9. NobodyWaits => AtOnce'
  BY <1>3, <1>4 DEF CountOK, AtOnce
<1>10. HaltOnlyWhenDone'
  BY <1>1 DEF HaltOnlyWhenDone
<1> QED
  BY <1>3, <1>8, <1>9, <1>10 DEF CountOK, ExitsOnly, NobodyWaits

\* The end of killing another: kill() was not left since it began.
LEMMA KillOtherCount ==
    ASSUME IInv, CountOK, KillOther
    PROVE  CountOK'
<1> DEFINE pid == Top.arg
<1>1. /\ ~halted /\ kstack[currpid] # <<>> /\ Top.at = "kill" /\ pid # currpid
      /\ currpid \in Pid /\ pid \in Pid
      /\ prstate' = [prstate EXCEPT ![pid] = "FREE"]
      /\ kstack' = [kstack EXCEPT ![pid] = <<>>, ![currpid] = Tail(@)]
      /\ UNCHANGED <<prcount, halted>>
  BY Stacks, Frames DEF KillOther, At, IInv, SchedOK, idVars
<1>2. Victims(kstack[currpid]) = {pid} /\ Tail(kstack[currpid]) = <<>>
  BY <1>1, PoppedVictims DEF Top, IInv, RestOK, CountOK
<1> HIDE DEF pid
<1>3. ~ExitsOnly
  BY <1>1, <1>2 DEF CountOK
<1>4. \A p \in Pid : prstate'[p] = IF p = pid THEN "FREE" ELSE prstate[p]
  BY <1>1 DEF IInv, SchedOK
<1>5. \A q \in Pid : kstack'[q] = IF q \in {currpid, pid} THEN <<>> ELSE kstack[q]
  BY <1>1, <1>2 DEF IInv, RestOK
<1>6. \A q \in Pid : KillLowest(kstack'[q])
  BY <1>5, NoVictims DEF CountOK
<1>7. ASSUME NobodyWaits PROVE AtOnce' /\ PrcountLive'
  <2>1. \A q \in Pid : Victims(kstack'[q]) = {} /\ (q # currpid => Victims(kstack[q]) = {})
    BY <1>5, <1>7, NoVictims DEF CountOK, AtOnce
  <2>2. \A p \in Pid : ~Dying(p)' /\ (Dying(p) <=> p = pid)
    BY <1>1, <1>2, <2>1, DyingVictims
  <2>3. Live' = Live
    BY <1>4, <2>2 DEF Live
  <2>4. PrcountLive'
    BY <1>1, <1>7, <2>3 DEF CountOK, PrcountLive, Live
  <2> QED
    BY <1>4, <1>7, <2>1, <2>4 DEF AtOnce, CountOK, Blocked
<1>8. HaltOnlyWhenDone'
  BY <1>1 DEF HaltOnlyWhenDone
<1> QED
  BY <1>3, <1>6, <1>7, <1>8 DEF CountOK, ExitsOnly, NobodyWaits

-----------------------------------------------------------------------------
(* The count, and what it implies.                                          *)

\* The null process is alive and counted.
LEMMA InitCount == Init => CountOK
<1> SUFFICES ASSUME Init PROVE CountOK
  OBVIOUS
<1> DEFINE f == NewFrame("create", 0, 0)
<1>1. f \in Frame /\ f.at # "kill"
  BY FramesOfCalls
<1>2. <<>> \in Seq(Frame) /\ KillLowest(<<>>) /\ Victims(<<>>) = {}
  BY NoVictims
<1> HIDE DEF f
<1>3. <<f>> \o <<>> = <<f>>
  BY <1>1
<1>4. KillLowest(<<f>>) /\ Victims(<<f>>) = {}
  BY <1>1, <1>2, <1>3, PushedVictims
<1>5. \A p \in Pid : kstack[p] = IF p = NULLPROC THEN <<f>> ELSE <<>>
  BY DEF Init, f
<1>6. \A p \in Pid : KillLowest(kstack[p]) /\ Victims(kstack[p]) = {}
  BY <1>2, <1>4, <1>5
<1>7. \A p \in Pid : prstate[p] = IF p = NULLPROC THEN "CURR" ELSE "FREE"
  BY DEF Init
<1>8. Live = {NULLPROC}
  BY <1>6, <1>7, DyingVictims, Processes DEF Live
<1>9. PrcountLive
  BY <1>8, FS_Singleton DEF PrcountLive, Live, Init
<1> QED
  BY <1>6, <1>7, <1>9 DEF CountOK, AtOnce, HaltOnlyWhenDone, Blocked, Init

\* Every step keeps it.
LEMMA NextCount == IInv /\ MessagesOK /\ CountOK /\ [Next]_vars => CountOK'
<1> SUFFICES ASSUME IInv, MessagesOK, CountOK, [Next]_vars PROVE CountOK'
  OBVIOUS
<1>1. CASE KernelStep
  BY <1>1, CreateCount, SchedulingCount, WaitingCount, KillSelfCount, KillOtherCount, LoopCount,
     ClockCount DEF KernelStep
<1>2. CASE SystemCall
  BY <1>2, CreateCount, SchedulingCount, WaitingCount, KillCount, KillLastCount, SemaphoreCount
  DEF SystemCall
<1>3. CASE Tick
  BY <1>3, ClockCount
<1>4. CASE Halted \/ UNCHANGED vars
  <2>1. UNCHANGED vars
    BY <1>4 DEF Halted
  <2> QED
    BY <2>1 DEF vars, schedVars, idVars, CountOK, AtOnce, PrcountLive, HaltOnlyWhenDone, Dying,
       ExitsOnly, NobodyWaits, Top
<1> QED
  BY <1>1, <1>2, <1>3, <1>4 DEF Next

\* The invariant holds in every state the kernel can be in.
THEOREM CountInvariance == Spec => []CountOK
  BY InitCount, NextCount, Invariance, MessagesInvariance, PTL DEF Spec

\* prcount is the number of live processes when processes only exit and when nobody waits
\* for a message; when a parent can wait for the message of a child that exits, and then
\* kills it, the child is counted out twice (kill.c:24-28, EarlyHalt.cfg).
THEOREM LiveCounted == "kill" \notin Calls \/ Calls \cap {"receive", "recvtime"} = {}
                       => (Spec => []PrcountLive)
<1> SUFFICES ASSUME "kill" \notin Calls \/ Calls \cap {"receive", "recvtime"} = {}
             PROVE  Spec => []PrcountLive
  OBVIOUS
<1>1. CountOK => PrcountLive
  BY DEF CountOK, ExitsOnly, NobodyWaits
<1> QED
  BY <1>1, CountInvariance, PTL

\* Without calls that wait for a message the machine halts as the last process ends, as
\* xdone.c:6 says; EarlyHalt.cfg shows what becomes of it with them.
THEOREM HaltsWhenDone == Calls \cap {"receive", "recvtime"} = {} => (Spec => []HaltOnlyWhenDone)
<1> SUFFICES ASSUME Calls \cap {"receive", "recvtime"} = {}
             PROVE  Spec => []HaltOnlyWhenDone
  OBVIOUS
<1>1. CountOK => HaltOnlyWhenDone
  BY DEF CountOK, NobodyWaits
<1> QED
  BY <1>1, CountInvariance, PTL
=============================================================================
