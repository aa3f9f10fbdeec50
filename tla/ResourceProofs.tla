----------------------------- MODULE ResourceProofs -----------------------------
(***************************************************************************)
(* Proofs about what the kernel lends: memory and ports.                   *)
(*                                                                         *)
(* Memory, for every heap, every set of requests and every order of the    *)
(* calls: the free list keeps its order and its length, and the allocator  *)
(* does what the set of available bytes of Heap would.                     *)
(*                                                                         *)
(* Ports, for any number of processes, ports and nodes: what a port's      *)
(* semaphores count agrees with its messages through every reset, deletion *)
(* and late call, ptsend() does not run out of nodes, and each port is the *)
(* queue of Mailbox.                                                       *)
(***************************************************************************)
EXTENDS Memory, Ports, Counting, SequenceTheorems

Block == [at : Int, mlength : Int]

-----------------------------------------------------------------------------
(* Lists of blocks.                                                         *)

\* A block that can be on the list
Fits(b) ==
    /\ minheap <= b.at /\ Above(b) <= maxheap
    /\ b.mlength >= Unit
    /\ b.at % Unit = 0 /\ b.mlength % Unit = 0

InOrder(s) == \A i, j \in 1 .. Len(s) : i < j => Above(s[i]) < s[j].at

Sizes(s) == [i \in DOMAIN s |-> s[i].mlength]
Total(s) == SumFunctionOnSet(Sizes(s), 1 .. Len(s))

\* t is s with the blocks between lo and hi replaced by b.
Spliced(s, lo, b, hi, t) ==
    /\ t \in Seq(Block) /\ Len(t) = lo + 1 + (Len(s) - hi + 1)
    /\ \A i \in 1 .. Len(t) :
         t[i] = IF i <= lo THEN s[i] ELSE IF i = lo + 1 THEN b ELSE s[i - (lo + 1) + (hi - 1)]

\* t is s without its i-th block.
Dropped(s, i, t) ==
    /\ t \in Seq(Block) /\ Len(t) = Len(s) - 1
    /\ \A j \in 1 .. Len(t) : t[j] = IF j < i THEN s[j] ELSE s[j + 1]

LEMMA BlockFields ==
    ASSUME NEW s \in Seq(Block)
    PROVE  /\ Len(s) \in Nat /\ DOMAIN s = 1 .. Len(s)
           /\ \A i \in 1 .. Len(s) : s[i] \in Block /\ s[i].at \in Int /\ s[i].mlength \in Int
<1>1. Len(s) \in Nat /\ DOMAIN s = 1 .. Len(s)
  BY LenProperties
<1>2. \A i \in 1 .. Len(s) : s[i] \in Block
  BY ElementOfSeq
<1>3. \A b \in Block : b.at \in Int /\ b.mlength \in Int
  BY DEF Block
<1> QED
  BY <1>1, <1>2, <1>3

LEMMA SplicedList ==
    ASSUME NEW s \in Seq(Block), NEW lo \in 0 .. Len(s), NEW hi \in lo + 1 .. Len(s) + 1,
           NEW b \in Block
    PROVE  Spliced(s, lo, b, hi, SubSeq(s, 1, lo) \o <<b>> \o SubSeq(s, hi, Len(s)))
<1> DEFINE front == SubSeq(s, 1, lo)
           back == SubSeq(s, hi, Len(s))
           t == front \o <<b>> \o back
<1>1. Len(s) \in Nat /\ lo \in Nat /\ hi \in Nat /\ lo < hi /\ hi <= Len(s) + 1 /\ lo <= Len(s)
  BY LenProperties
<1>2. front \in Seq(Block) /\ Len(front) = lo /\ \A j \in 1 .. lo : front[j] = s[j]
  BY <1>1, SubSeqProperties, ElementOfSeq, SMT
<1>3. back \in Seq(Block) /\ Len(back) = Len(s) - hi + 1
      /\ \A j \in 1 .. Len(s) - hi + 1 : back[j] = s[hi + j - 1]
  BY <1>1, SubSeqProperties, ElementOfSeq, SMT
<1>4. t = (front \o <<b>>) \o back
  OBVIOUS
<1> HIDE DEF front, back, t
<1>5. <<b>> \in Seq(Block) /\ Len(<<b>>) = 1 /\ <<b>>[1] = b
  OBVIOUS
<1>6. /\ front \o <<b>> \in Seq(Block)
      /\ Len(front \o <<b>>) = lo + 1
      /\ \A j \in 1 .. lo + 1 : (front \o <<b>>)[j] = IF j <= lo THEN s[j] ELSE b
  <2>1. Len(front) + Len(<<b>>) = lo + 1
    BY <1>2, <1>5
  <2>2. /\ front \o <<b>> \in Seq(Block)
        /\ Len(front \o <<b>>) = Len(front) + Len(<<b>>)
        /\ \A j \in 1 .. Len(front) + Len(<<b>>) :
             (front \o <<b>>)[j] = IF j <= Len(front) THEN front[j] ELSE <<b>>[j - Len(front)]
    BY <1>2, <1>5, ConcatProperties
  <2> QED
    BY <1>1, <1>2, <1>5, <2>1, <2>2
<1> DEFINE start == front \o <<b>>
<1>7. /\ t \in Seq(Block) /\ Len(t) = Len(start) + Len(back)
      /\ \A j \in 1 .. Len(start) + Len(back) :
           t[j] = IF j <= Len(start) THEN start[j] ELSE back[j - Len(start)]
  <2>1. start \in Seq(Block) /\ t = start \o back
    BY <1>4, <1>6
  <2> HIDE DEF start
  <2> QED
    BY <1>3, <2>1, ConcatProperties
<1> HIDE DEF start
<1>8. Len(start) = lo + 1 /\ \A j \in 1 .. lo + 1 : start[j] = IF j <= lo THEN s[j] ELSE b
  BY <1>6 DEF start
<1>9. Len(t) = lo + 1 + (Len(s) - hi + 1)
  BY <1>3, <1>7, <1>8
<1>10. ASSUME NEW i \in 1 .. Len(t)
      PROVE  t[i] = IF i <= lo THEN s[i] ELSE IF i = lo + 1 THEN b
                    ELSE s[i - (lo + 1) + (hi - 1)]
  <2>1. CASE i <= lo + 1
    BY <1>1, <1>3, <1>7, <1>8, <1>10, <2>1
  <2>2. CASE i > lo + 1
    <3>1. i - (lo + 1) \in 1 .. Len(s) - hi + 1
      BY <1>1, <1>9, <1>10, <2>2
    <3>2. t[i] = back[i - (lo + 1)]
      BY <1>1, <1>7, <1>8, <1>9, <1>10, <2>2, <1>3
    <3>3. back[i - (lo + 1)] = s[hi + (i - (lo + 1)) - 1]
      BY <1>3, <3>1
    <3>4. hi + (i - (lo + 1)) - 1 = i - (lo + 1) + (hi - 1)
      BY <1>1, <1>9, <1>10
    <3> QED
      BY <1>1, <1>9, <1>10, <2>2, <3>2, <3>3, <3>4
  <2> QED
    BY <1>1, <1>9, <1>10, <2>1, <2>2
<1> QED
  BY <1>7, <1>9, <1>10 DEF Spliced, t, front, back

LEMMA ReplacedList ==
    ASSUME NEW s \in Seq(Block), NEW i \in 1 .. Len(s), NEW b \in Block
    PROVE  Spliced(s, i - 1, b, i + 1, ReplaceAt(s, i, b))
<1> DEFINE t == ReplaceAt(s, i, b)
<1>1. /\ t \in Seq(Block) /\ Len(t) = Len(s)
      /\ \A j \in 1 .. Len(s) : t[j] = IF j = i THEN b ELSE s[j]
  BY ExceptSeq DEF ReplaceAt
<1>2. Len(s) \in Nat
  BY LenProperties
<1> HIDE DEF t
<1>3. Len(t) = (i - 1) + 1 + (Len(s) - (i + 1) + 1)
  BY <1>1, <1>2
<1>4. ASSUME NEW j \in 1 .. Len(t)
      PROVE  t[j] = IF j <= i - 1 THEN s[j] ELSE IF j = (i - 1) + 1 THEN b
                    ELSE s[j - ((i - 1) + 1) + ((i + 1) - 1)]
  <2>1. j - ((i - 1) + 1) + ((i + 1) - 1) = j
    BY <1>1, <1>2
  <2> QED
    BY <1>1, <1>2, <2>1
<1> QED
  BY <1>1, <1>3, <1>4 DEF Spliced, t

LEMMA DroppedList ==
    ASSUME NEW s \in Seq(Block), NEW i \in 1 .. Len(s)
    PROVE  Dropped(s, i, RemoveAt(s, i))
<1> DEFINE front == SubSeq(s, 1, i - 1)
           back == SubSeq(s, i + 1, Len(s))
           t == RemoveAt(s, i)
<1>0. Len(s) \in Nat /\ i \in Nat /\ 1 <= i /\ i <= Len(s)
  BY LenProperties
<1>1. front \in Seq(Block) /\ Len(front) = i - 1 /\ \A j \in 1 .. i - 1 : front[j] = s[j]
  BY <1>0, SubSeqProperties, ElementOfSeq, SMT
<1>2. back \in Seq(Block) /\ Len(back) = Len(s) - i
      /\ \A j \in 1 .. Len(s) - i : back[j] = s[i + 1 + j - 1]
  BY <1>0, SubSeqProperties, ElementOfSeq, SMT
<1>3. t = front \o back
  BY DEF RemoveAt
<1> HIDE DEF front, back, t
<1>4. /\ t \in Seq(Block) /\ Len(t) = Len(front) + Len(back)
      /\ \A j \in 1 .. Len(front) + Len(back) :
           t[j] = IF j <= Len(front) THEN front[j] ELSE back[j - Len(front)]
  BY <1>1, <1>2, <1>3, ConcatProperties
<1>5. Len(t) = Len(s) - 1
  BY <1>0, <1>1, <1>2, <1>4
<1>6. ASSUME NEW j \in 1 .. Len(t) PROVE t[j] = IF j < i THEN s[j] ELSE s[j + 1]
  <2>1. CASE j < i
    BY <1>0, <1>1, <1>2, <1>4, <1>5, <1>6, <2>1
  <2>2. CASE j >= i
    <3>1. j - (i - 1) \in 1 .. Len(s) - i /\ i + 1 + (j - (i - 1)) - 1 = j + 1
      BY <1>0, <1>5, <1>6, <2>2
    <3>2. t[j] = back[j - (i - 1)]
      BY <1>0, <1>1, <1>2, <1>4, <1>5, <1>6, <2>2
    <3>3. back[j - (i - 1)] = s[i + 1 + (j - (i - 1)) - 1]
      BY <1>2, <3>1
    <3> QED
      BY <1>0, <1>5, <2>2, <3>1, <3>2, <3>3
  <2> QED
    BY <1>0, <1>5, <2>1, <2>2
<1> QED
  BY <1>4, <1>5, <1>6 DEF Dropped, t

\* The byte x lies in b, or in a block of s.
InBlock(b, x) == b.at <= x /\ x < Above(b)
InList(s, x) == \E i \in 1 .. Len(s) : InBlock(s[i], x)

\* What keeps the order of a list
ListOK(s) == (\A i \in 1 .. Len(s) : Fits(s[i])) /\ InOrder(s)

\* Where the blocks of a spliced list come from
LEMMA SplicedFrom ==
    ASSUME NEW s \in Seq(Block), NEW lo \in 0 .. Len(s), NEW hi \in lo + 1 .. Len(s) + 1,
           NEW b \in Block, NEW t, Spliced(s, lo, b, hi, t)
    PROVE  /\ t \in Seq(Block) /\ Len(t) \in Nat
           /\ lo + 1 \in 1 .. Len(t) /\ t[lo + 1] = b
           /\ \A i \in 1 .. lo : i \in 1 .. Len(t) /\ t[i] = s[i]
           /\ \A i \in hi .. Len(s) : i - hi + lo + 2 \in 1 .. Len(t) /\ t[i - hi + lo + 2] = s[i]
           /\ \A i \in 1 .. Len(t) :
                \/ i \in 1 .. lo
                \/ i = lo + 1
                \/ i > lo + 1 /\ i - lo - 2 + hi \in hi .. Len(s) /\ t[i] = s[i - lo - 2 + hi]
<1>0. Len(s) \in Nat /\ lo \in Nat /\ hi \in Nat /\ lo < hi /\ hi <= Len(s) + 1 /\ lo <= Len(s)
  BY LenProperties
<1>1. /\ t \in Seq(Block) /\ Len(t) = lo + 1 + (Len(s) - hi + 1)
      /\ \A i \in 1 .. Len(t) :
           t[i] = IF i <= lo THEN s[i] ELSE IF i = lo + 1 THEN b ELSE s[i - (lo + 1) + (hi - 1)]
  BY DEF Spliced
<1>2. Len(t) \in Nat /\ lo + 1 \in 1 .. Len(t)
  BY <1>0, <1>1
<1>3. t[lo + 1] = b
  BY <1>0, <1>1, <1>2
<1>4. \A i \in 1 .. lo : i \in 1 .. Len(t) /\ t[i] = s[i]
  BY <1>0, <1>1, <1>2
<1>5. ASSUME NEW i \in hi .. Len(s)
      PROVE  i - hi + lo + 2 \in 1 .. Len(t) /\ t[i - hi + lo + 2] = s[i]
  <2> DEFINE j == i - hi + lo + 2
  <2>1. j \in 1 .. Len(t) /\ j > lo + 1 /\ j - (lo + 1) + (hi - 1) = i
    BY <1>0, <1>1, <1>5
  <2> HIDE DEF j
  <2>2. t[j] = s[j - (lo + 1) + (hi - 1)]
    BY <1>0, <1>1, <2>1
  <2> QED
    BY <2>1, <2>2 DEF j
<1>6. ASSUME NEW i \in 1 .. Len(t), i > lo + 1
      PROVE  i - lo - 2 + hi \in hi .. Len(s) /\ t[i] = s[i - lo - 2 + hi]
  <2>1. i - (lo + 1) + (hi - 1) = i - lo - 2 + hi /\ i - lo - 2 + hi \in hi .. Len(s)
    BY <1>0, <1>1, <1>6
  <2>2. t[i] = s[i - (lo + 1) + (hi - 1)]
    BY <1>0, <1>1, <1>6
  <2> QED
    BY <2>1, <2>2
<1>7. \A i \in 1 .. Len(t) : i \in 1 .. lo \/ i = lo + 1 \/ i > lo + 1
  BY <1>0, <1>2
<1> QED
  BY <1>1, <1>2, <1>3, <1>4, <1>5, <1>6, <1>7

\* A block put where its neighbours do not touch it keeps the list in order.
LEMMA SplicedOK ==
    ASSUME NEW s \in Seq(Block), NEW lo \in 0 .. Len(s), NEW hi \in lo + 1 .. Len(s) + 1,
           NEW b \in Block, NEW t, Spliced(s, lo, b, hi, t),
           ListOK(s), Fits(b),
           lo > 0 => Above(s[lo]) < b.at,
           hi <= Len(s) => Above(b) < s[hi].at
    PROVE  ListOK(t)
<1>0. /\ Len(s) \in Nat /\ lo \in Nat /\ hi \in Nat /\ lo < hi /\ hi <= Len(s) + 1 /\ lo <= Len(s)
      /\ \A i \in 1 .. Len(s) : s[i].at \in Int /\ s[i].mlength \in Int
      /\ b.at \in Int /\ b.mlength \in Int
  BY BlockFields, SMTT(20) DEF Block
<1>1. \A i \in 1 .. Len(s) : Fits(s[i])
  BY DEF ListOK
<1>2. \A i, j \in 1 .. Len(s) : i < j => Above(s[i]) < s[j].at
  BY DEF ListOK, InOrder
<1>3. ASSUME NEW i \in 1 .. Len(s) PROVE s[i].at < Above(s[i])
  <2>1. PICK a \in Int, l \in Int : a = s[i].at /\ l = s[i].mlength
    BY <1>0
  <2>2. l >= 8 /\ Above(s[i]) = a + l
    BY <1>1, <2>1 DEF Fits, Above, Unit
  <2> QED
    BY <2>1, <2>2
<1>4. \A i \in 1 .. lo : i \in 1 .. Len(s) /\ Above(s[i]) < b.at
  <2>1. \A i \in 1 .. lo : i \in 1 .. Len(s) /\ (i # lo => i < lo) /\ lo \in 1 .. Len(s)
    BY <1>0
  <2>2. \A i \in 1 .. lo : i # lo => Above(s[i]) < s[lo].at /\ s[lo].at < Above(s[lo])
    BY <1>2, <1>3, <2>1
  <2>3. ASSUME NEW i \in 1 .. lo PROVE Above(s[i]) < b.at
    <3>1. Above(s[lo]) < b.at
      BY <1>0, <2>1
    <3>2. Above(s[i]) \in Int /\ Above(s[lo]) \in Int
      BY <1>0, <2>1, SMTT(20) DEF Above
    <3> QED
      BY <1>0, <2>1, <2>2, <3>1, <3>2, SMTT(20)
  <2> QED
    BY <2>1, <2>3
<1>5. \A i \in hi .. Len(s) : i \in 1 .. Len(s) /\ Above(b) < s[i].at
  <2>1. \A i \in hi .. Len(s) : i \in 1 .. Len(s) /\ (i # hi => hi < i) /\ hi \in 1 .. Len(s)
    BY <1>0
  <2>2. \A i \in hi .. Len(s) : i # hi => Above(s[hi]) < s[i].at /\ s[hi].at < Above(s[hi])
    BY <1>2, <1>3, <2>1
  <2>3. ASSUME NEW i \in hi .. Len(s) PROVE Above(b) < s[i].at
    <3>1. Above(b) < s[hi].at
      BY <1>0, <2>1
    <3>2. Above(b) \in Int /\ Above(s[hi]) \in Int
      BY <1>0, <2>1 DEF Above
    <3> QED
      BY <1>0, <2>1, <2>2, <3>1, <3>2
  <2> QED
    BY <2>1, <2>3
<1>6. /\ Len(t) \in Nat
      /\ t[lo + 1] = b
      /\ \A i \in 1 .. lo : t[i] = s[i]
      /\ \A i \in 1 .. Len(t) :
           \/ i \in 1 .. lo
           \/ i = lo + 1
           \/ i > lo + 1 /\ i - lo - 2 + hi \in hi .. Len(s) /\ t[i] = s[i - lo - 2 + hi]
  BY SplicedFrom
<1>7. ASSUME NEW i \in 1 .. Len(t) PROVE Fits(t[i])
  BY <1>1, <1>4, <1>5, <1>6
<1>8. ASSUME NEW i \in 1 .. Len(t), NEW j \in 1 .. Len(t), i < j
      PROVE  Above(t[i]) < t[j].at
  <2> DEFINE oi == i - lo - 2 + hi
             oj == j - lo - 2 + hi
  <2>0. i \in Int /\ j \in Int
    BY <1>6
  <2>1. CASE i \in 1 .. lo /\ j \in 1 .. lo
    BY <1>2, <1>4, <1>6, <1>8, <2>1
  <2>2. CASE i \in 1 .. lo /\ j = lo + 1
    BY <1>4, <1>6, <2>2
  <2>3. CASE i \in 1 .. lo /\ j > lo + 1
    <3>1. oj \in hi .. Len(s) /\ t[j] = s[oj]
      BY <1>0, <1>6, <2>0, <2>3
    <3> HIDE DEF oj
    <3>2. i \in 1 .. Len(s) /\ oj \in 1 .. Len(s) /\ i < oj
      BY <1>0, <2>3, <3>1
    <3> QED
      BY <1>2, <1>6, <2>3, <3>1, <3>2
  <2>4. CASE i = lo + 1 /\ j > lo + 1
    <3>1. oj \in hi .. Len(s) /\ t[j] = s[oj]
      BY <1>0, <1>6, <2>0, <2>4
    <3> HIDE DEF oj
    <3> QED
      BY <1>5, <1>6, <2>4, <3>1
  <2>5. CASE i > lo + 1 /\ j > lo + 1
    <3>1. /\ oi \in hi .. Len(s) /\ t[i] = s[oi]
          /\ oj \in hi .. Len(s) /\ t[j] = s[oj]
      BY <1>0, <1>6, <2>0, <2>5
    <3>2. oi < oj
      BY <1>0, <1>8, <2>0
    <3> HIDE DEF oi, oj
    <3> QED
      BY <1>2, <1>5, <3>1, <3>2
  <2> QED
    BY <1>0, <1>6, <1>8, <2>0, <2>1, <2>2, <2>3, <2>4, <2>5
<1> QED
  BY <1>7, <1>8 DEF ListOK, InOrder

LEMMA SplicedBytes ==
    ASSUME NEW s \in Seq(Block), NEW lo \in 0 .. Len(s), NEW hi \in lo + 1 .. Len(s) + 1,
           NEW b \in Block, NEW t, Spliced(s, lo, b, hi, t), NEW x
    PROVE  InList(t, x) <=> \/ \E i \in 1 .. lo : InBlock(s[i], x)
                            \/ InBlock(b, x)
                            \/ \E i \in hi .. Len(s) : InBlock(s[i], x)
<1>0. Len(s) \in Nat /\ lo \in Nat /\ hi \in Nat
  BY LenProperties
<1>1. /\ lo + 1 \in 1 .. Len(t) /\ t[lo + 1] = b
      /\ \A i \in 1 .. lo : i \in 1 .. Len(t) /\ t[i] = s[i]
      /\ \A i \in hi .. Len(s) : i - hi + lo + 2 \in 1 .. Len(t) /\ t[i - hi + lo + 2] = s[i]
      /\ \A i \in 1 .. Len(t) :
           \/ i \in 1 .. lo
           \/ i = lo + 1
           \/ i > lo + 1 /\ i - lo - 2 + hi \in hi .. Len(s) /\ t[i] = s[i - lo - 2 + hi]
  BY SplicedFrom
<1>2. ASSUME NEW i \in 1 .. Len(t), InBlock(t[i], x)
      PROVE  \/ \E j \in 1 .. lo : InBlock(s[j], x)
             \/ InBlock(b, x)
             \/ \E j \in hi .. Len(s) : InBlock(s[j], x)
  <2> HIDE DEF InBlock
  <2> QED
    BY <1>1, <1>2
<1>3. ASSUME NEW i \in hi .. Len(s), InBlock(s[i], x)
      PROVE  \E j \in 1 .. Len(t) : InBlock(t[j], x)
  <2> DEFINE j == i - hi + lo + 2
  <2>1. j \in 1 .. Len(t) /\ t[j] = s[i]
    BY <1>1
  <2> HIDE DEF j
  <2> QED
    BY <1>3, <2>1
<1> QED
  BY <1>1, <1>2, <1>3 DEF InList

\* The length of the list changes by what was put in and what was taken out.
LEMMA SplicedTotal ==
    ASSUME NEW s \in Seq(Block), NEW lo \in 0 .. Len(s), NEW hi \in lo + 1 .. Len(s) + 1,
           NEW b \in Block, NEW t, Spliced(s, lo, b, hi, t)
    PROVE  /\ Total(s) \in Int /\ Total(t) \in Int
           /\ Total(t) = Total(s) + b.mlength
                - (SumFunctionOnSet(Sizes(s), 1 .. hi - 1) - SumFunctionOnSet(Sizes(s), 1 .. lo))
<1> DEFINE f == Sizes(s)
           g == Sizes(t)
           n == Len(s) - hi + 1
           d == lo + 1
           e == hi - 1
<1>0. /\ Len(s) \in Nat /\ lo \in Nat /\ hi \in Nat /\ lo < hi /\ hi <= Len(s) + 1 /\ lo <= Len(s)
      /\ \A i \in 1 .. Len(s) : s[i].at \in Int /\ s[i].mlength \in Int
      /\ DOMAIN s = 1 .. Len(s)
      /\ b.at \in Int /\ b.mlength \in Int
  BY BlockFields DEF Block
<1>1. /\ t \in Seq(Block) /\ Len(t) = lo + 1 + (Len(s) - hi + 1)
      /\ \A i \in 1 .. Len(t) :
           t[i] = IF i <= lo THEN s[i] ELSE IF i = lo + 1 THEN b ELSE s[i - (lo + 1) + (hi - 1)]
  BY DEF Spliced
<1>2. DOMAIN t = 1 .. Len(t) /\ \A i \in 1 .. Len(t) : t[i].mlength \in Int
  BY <1>1, BlockFields
<1>3. \A i \in 1 .. Len(s) : f[i] = s[i].mlength /\ f[i] \in Int
  BY <1>0 DEF Sizes
<1>4. \A i \in 1 .. Len(t) : g[i] = t[i].mlength /\ g[i] \in Int
  BY <1>2 DEF Sizes
<1>5. d \in Nat /\ e \in Nat /\ n \in Nat /\ d + n = Len(t) /\ e + n = Len(s)
  BY <1>0, <1>1
<1>6. ASSUME NEW j \in d + 1 .. Len(t) PROVE g[j] = f[e + (j - d)]
  <2>1. /\ j \in 1 .. Len(t) /\ j > lo + 1
        /\ j - (lo + 1) + (hi - 1) = e + (j - d) /\ e + (j - d) \in 1 .. Len(s)
    BY <1>0, <1>1, SMTT(20)
  <2>2. t[j] = s[j - (lo + 1) + (hi - 1)]
    BY <1>0, <1>1, <2>1
  <2> QED
    BY <1>3, <1>4, <2>1, <2>2
<1> HIDE DEF f, g
<1>7. SumFunctionOnSet(g, 1 .. Len(t)) - SumFunctionOnSet(g, 1 .. d)
        = SumFunctionOnSet(f, 1 .. Len(s)) - SumFunctionOnSet(f, 1 .. e)
  <2> DEFINE dn == Len(t)
             en == Len(s)
  <2>1. SameRun(f, e, en, g, d, dn)
    BY <1>0, <1>3, <1>4, <1>5, <1>6 DEF SameRun
  <2> HIDE DEF d, e, n, dn, en
  <2>2. SumFunctionOnSet(g, 1 .. dn) - SumFunctionOnSet(g, 1 .. d)
          = SumFunctionOnSet(f, 1 .. en) - SumFunctionOnSet(f, 1 .. e)
    BY <2>1, SumShifted
  <2> QED
    BY <2>2 DEF dn, en
<1>8. /\ SumFunctionOnSet(g, 1 .. lo + 1) = SumFunctionOnSet(g, 1 .. lo) + g[lo + 1]
      /\ SumFunctionOnSet(g, 1 .. lo) \in Int
  <2>1. \A j \in 1 .. lo + 1 : g[j] \in Int
    BY <1>0, <1>1, <1>4
  <2> QED
    BY <1>0, <2>1, SumUpTo
<1>9. SumFunctionOnSet(g, 1 .. lo) = SumFunctionOnSet(f, 1 .. lo)
  <2>1. \A j \in 1 .. lo : g[j] = f[j]
    BY <1>0, <1>1, <1>3, <1>4, SMTT(20)
  <2> QED
    BY <1>0, <2>1, CardinalityUpTo, SumsEqual
<1>10. g[lo + 1] = b.mlength
  <2>1. lo + 1 \in 1 .. Len(t) /\ ~(lo + 1 <= lo)
    BY <1>0, <1>1
  <2>2. t[lo + 1] = b
    BY <1>1, <2>1
  <2> QED
    BY <1>4, <2>1, <2>2
<1>11. /\ SumFunctionOnSet(g, 1 .. Len(t)) \in Int
       /\ SumFunctionOnSet(f, 1 .. Len(s)) \in Int
       /\ SumFunctionOnSet(f, 1 .. hi - 1) \in Int
  <2>1. hi - 1 \in Nat /\ Len(t) \in Nat /\ \A j \in 1 .. hi - 1 : j \in 1 .. Len(s)
    BY <1>0, <1>1
  <2>2. IsFiniteSet(1 .. Len(t)) /\ IsFiniteSet(1 .. Len(s)) /\ IsFiniteSet(1 .. hi - 1)
    BY <1>0, <2>1, CardinalityUpTo
  <2> QED
    BY <1>3, <1>4, <2>1, <2>2, SumType
<1>12. Total(s) = SumFunctionOnSet(f, 1 .. Len(s)) /\ Total(t) = SumFunctionOnSet(g, 1 .. Len(t))
  BY DEF Total, f, g
<1>13. SumFunctionOnSet(g, 1 .. Len(t))
         = SumFunctionOnSet(f, 1 .. Len(s)) + b.mlength
             - (SumFunctionOnSet(f, 1 .. hi - 1) - SumFunctionOnSet(f, 1 .. lo))
  <2> DEFINE G == SumFunctionOnSet(g, 1 .. Len(t))
             Gd == SumFunctionOnSet(g, 1 .. d)
             F == SumFunctionOnSet(f, 1 .. Len(s))
             Fe == SumFunctionOnSet(f, 1 .. e)
             Fo == SumFunctionOnSet(f, 1 .. lo)
  <2>1. G - Gd = F - Fe /\ Gd = Fo + b.mlength
    BY <1>7, <1>8, <1>9, <1>10, Zenon
  <2>2. G \in Int /\ F \in Int /\ Fe \in Int /\ Fo \in Int
    BY <1>8, <1>9, <1>11
  <2>3. Gd \in Int
    <3> HIDE DEF G, Gd, F, Fe, Fo
    <3>1. PICK x \in Int, y \in Int : x = Fo /\ y = b.mlength
      BY <1>0, <2>2
    <3> QED
      BY <2>1, <3>1
  <2> HIDE DEF G, Gd, F, Fe, Fo
  <2>4. b.mlength \in Int
    BY <1>0
  <2>5. G = F + b.mlength - (Fe - Fo)
    <3>1. PICK u \in Int, v \in Int, w \in Int, x \in Int, y \in Int, z \in Int :
            u = G /\ v = Gd /\ w = F /\ x = Fe /\ y = Fo /\ z = b.mlength
      BY <2>2, <2>3, <2>4
    <3>2. u - v = w - x /\ v = y + z
      BY <2>1, <3>1
    <3>3. u = w + z - (x - y)
      BY <3>2
    <3> QED
      BY <3>1, <3>3
  <2> QED
    BY <2>5 DEF G, F, Fe, Fo
<1> QED
  BY <1>11, <1>12, <1>13 DEF f

\* Taking a block off the list
LEMMA DroppedOK ==
    ASSUME NEW s \in Seq(Block), NEW i \in 1 .. Len(s), NEW t, Dropped(s, i, t)
    PROVE  /\ ListOK(s) => ListOK(t)
           /\ \A x : InList(t, x) <=> \E j \in 1 .. Len(s) : j # i /\ InBlock(s[j], x)
           /\ Total(s) \in Int /\ Total(t) = Total(s) - s[i].mlength
<1>0. /\ Len(s) \in Nat /\ i \in Nat /\ 1 <= i /\ i <= Len(s) /\ DOMAIN s = 1 .. Len(s)
      /\ \A j \in 1 .. Len(s) : s[j].at \in Int /\ s[j].mlength \in Int
  BY BlockFields
<1>1. /\ t \in Seq(Block) /\ Len(t) = Len(s) - 1
      /\ \A j \in 1 .. Len(t) : t[j] = IF j < i THEN s[j] ELSE s[j + 1]
  BY DEF Dropped
<1> DEFINE from(j) == IF j < i THEN j ELSE j + 1
<1>2. \A j \in 1 .. Len(t) : from(j) \in 1 .. Len(s) /\ from(j) # i /\ t[j] = s[from(j)]
  BY <1>0, <1>1
<1>3. \A j, k \in 1 .. Len(t) : j < k => from(j) < from(k)
  BY <1>0, <1>1
<1>4. \A j \in 1 .. Len(s) : j # i => \E k \in 1 .. Len(t) : j = from(k)
  <2>1. ASSUME NEW j \in 1 .. Len(s), j < i PROVE \E k \in 1 .. Len(t) : j = from(k)
    <3>1. j \in 1 .. Len(t) /\ j = from(j)
      BY <1>0, <1>1, <2>1
    <3> QED
      BY <3>1
  <2>2. ASSUME NEW j \in 1 .. Len(s), j > i PROVE \E k \in 1 .. Len(t) : j = from(k)
    <3>1. j - 1 \in 1 .. Len(t) /\ j = from(j - 1)
      BY <1>0, <1>1, <2>2
    <3> QED
      BY <3>1
  <2>3. \A j \in 1 .. Len(s) : j # i => j < i \/ j > i
    BY <1>0
  <2> HIDE DEF from
  <2> QED
    BY <2>1, <2>2, <2>3
<1> HIDE DEF from
<1>5. ListOK(s) => ListOK(t)
  BY <1>2, <1>3 DEF ListOK, InOrder
<1>6. \A x : InList(t, x) <=> \E j \in 1 .. Len(s) : j # i /\ InBlock(s[j], x)
  BY <1>2, <1>4 DEF InList
<1> DEFINE f == Sizes(s)
           g == Sizes(t)
<1>7. /\ \A j \in 1 .. Len(s) : f[j] = s[j].mlength /\ f[j] \in Int
      /\ DOMAIN t = 1 .. Len(t) /\ Len(t) \in Nat
  BY <1>0, <1>1, BlockFields DEF Sizes
<1>8. \A j \in 1 .. Len(t) : g[j] = t[j].mlength /\ g[j] \in Int
  BY <1>1, <1>7, BlockFields DEF Sizes
<1> HIDE DEF f, g
<1> DEFINE before == i - 1
<1>9. before \in Nat /\ before + 1 = i
  BY <1>0
<1>10. SameRun(f, i, Len(s), g, before, Len(t))
  <2>1. ASSUME NEW j \in before + 1 .. Len(t) PROVE g[j] = f[i + (j - before)]
    <3>1. j \in 1 .. Len(t) /\ ~(j < i) /\ i + (j - before) = j + 1 /\ j + 1 \in 1 .. Len(s)
      BY <1>0, <1>1, <2>1
    <3>2. t[j] = s[j + 1]
      BY <1>1, <3>1
    <3> QED
      BY <1>7, <1>8, <3>1, <3>2
  <2> QED
    BY <1>0, <1>1, <1>7, <1>8, <2>1 DEF SameRun
<1>11. SumFunctionOnSet(g, 1 .. before) = SumFunctionOnSet(f, 1 .. before)
  <2>1. \A j \in 1 .. before : j \in 1 .. Len(t) /\ j \in 1 .. Len(s) /\ j < i
    BY <1>0, <1>1
  <2>2. \A j \in 1 .. before : g[j] = f[j]
    BY <1>1, <1>7, <1>8, <2>1
  <2> QED
    BY <1>9, <2>2, CardinalityUpTo, SumsEqual
<1>12. /\ SumFunctionOnSet(f, 1 .. i) = SumFunctionOnSet(f, 1 .. before) + f[i]
       /\ SumFunctionOnSet(f, 1 .. before) \in Int
  <2>1. \A j \in 1 .. before + 1 : f[j] \in Int
    BY <1>0, <1>7
  <2>2. /\ SumFunctionOnSet(f, 1 .. before + 1) = SumFunctionOnSet(f, 1 .. before) + f[before + 1]
        /\ SumFunctionOnSet(f, 1 .. before) \in Int
    BY <1>9, <2>1, SumUpTo
  <2> QED
    BY <1>9, <2>2
<1>13. SumFunctionOnSet(g, 1 .. Len(t)) - SumFunctionOnSet(g, 1 .. before)
         = SumFunctionOnSet(f, 1 .. Len(s)) - SumFunctionOnSet(f, 1 .. i)
  <2> HIDE DEF before
  <2> QED
    BY <1>10, SumShifted
<1>14. Total(s) \in Int /\ Total(t) = Total(s) - s[i].mlength
  <2> DEFINE G == SumFunctionOnSet(g, 1 .. Len(t))
             Gi == SumFunctionOnSet(g, 1 .. before)
             F == SumFunctionOnSet(f, 1 .. Len(s))
             Fi == SumFunctionOnSet(f, 1 .. i)
  <2>1. G - Gi = F - Fi /\ Fi = Gi + f[i]
    BY <1>11, <1>12, <1>13, Zenon
  <2>2. Gi \in Int
    BY <1>11, <1>12
  <2>3. F \in Int /\ G \in Int
    <3>1. IsFiniteSet(1 .. Len(t)) /\ IsFiniteSet(1 .. Len(s))
      BY <1>0, <1>7, CardinalityUpTo
    <3> QED
      BY <1>7, <1>8, <3>1, SumType
  <2>4. f[i] \in Int /\ f[i] = s[i].mlength
    BY <1>0, <1>7
  <2>5. Total(s) = F /\ Total(t) = G
    BY DEF Total, f, g
  <2> HIDE DEF G, Gi, F, Fi
  <2>6. G = F - f[i]
    BY <2>1, <2>2, <2>3, <2>4
  <2> QED
    BY <2>3, <2>4, <2>5, <2>6
<1> QED
  BY <1>5, <1>6, <1>14

-----------------------------------------------------------------------------
(* Numbers of bytes.                                                        *)

\* n bytes are less than what the widest number can be rounded up to.
Small(n) == n \in Nat /\ n + Unit <= Word

\* roundmb() gives the next multiple of a block's header, but nothing of what is within
\* seven of the largest number.
LEMMA Rounding ==
    ASSUME NEW n \in 0 .. Word - 1
    PROVE  /\ Roundmb(n) \in Nat /\ Roundmb(n) % Unit = 0
           /\ n # 0 /\ Roundmb(n) # 0 => Unit <= Roundmb(n)
           /\ Roundmb(n) # 0 => n <= Roundmb(n) /\ Roundmb(n) <= n + 7 /\ n + 7 < Word
           /\ Small(n) => Roundmb(n) = ((n + 7) \div Unit) * Unit /\ n <= Roundmb(n)
           /\ Small(n) /\ n % Unit = 0 => Roundmb(n) = n
<1> USE HeapAssumption
<1> DEFINE m == (n + 7) % Word
<1>1. Word \in Nat /\ Word > 8 /\ n \in Nat /\ n < Word
  BY DEF HeapAssumption, Unit
<1>2. m \in Nat /\ (n + 7 < Word => m = n + 7) /\ (n + 7 >= Word => m = n + 7 - Word)
  <2> HIDE DEF HeapAssumption
  <2>1. PICK w \in Nat : w = Word
    BY <1>1
  <2> QED
    BY <1>1, <2>1
<1>3. Roundmb(n) = (m \div 8) * 8
  BY DEF Roundmb, Unit
<1> HIDE DEF m
<1>4. (m \div 8) * 8 \in Nat /\ ((m \div 8) * 8) % 8 = 0
      /\ (m \div 8) * 8 <= m /\ m < (m \div 8) * 8 + 8
  BY <1>2
<1>5. Roundmb(n) \in Nat /\ Roundmb(n) % 8 = 0 /\ Roundmb(n) <= m /\ m < Roundmb(n) + 8
  BY <1>3, <1>4
<1>6. n + 7 >= Word => Roundmb(n) = 0
  BY <1>1, <1>2, <1>3
<1>7. n + 7 < Word => Roundmb(n) = ((n + 7) \div 8) * 8
  BY <1>2, <1>3
<1>8. Small(n) <=> n + 7 < Word
  BY <1>1 DEF Small, Unit
<1>9. n + 7 < Word => n <= Roundmb(n) /\ Roundmb(n) <= n + 7
  BY <1>1, <1>2, <1>5
<1>10. Roundmb(n) # 0 => 8 <= Roundmb(n)
  BY <1>5
<1>11. n + 7 < Word /\ n % 8 = 0 => Roundmb(n) = n
  BY <1>1, <1>5, <1>9
<1> QED
  BY <1>1, <1>5, <1>6, <1>7, <1>8, <1>9, <1>10, <1>11 DEF Unit

-----------------------------------------------------------------------------
(* The invariant.                                                           *)

\* The first byte of a block somebody holds
First(h) == IF h.by = "getstk" THEN h.at + Top - Roundmb(h.n) ELSE h.at
Holds(h, x) == First(h) <= x /\ x < First(h) + Roundmb(h.n)

\* The free list, its order and its length
FreeOK == free \in Seq(Block) /\ ListOK(free) /\ mlength = Total(free)

\* Whoever holds a block got it from the heap (what is rounded to nothing is no block).
HeldOK(h) ==
    /\ h.at \in Int /\ h.n \in Requests /\ h.by \in {"getmem", "getstk"}
    /\ h = [at |-> h.at, n |-> h.n, by |-> h.by]
    /\ Roundmb(h.n) # 0 => /\ First(h) % Unit = 0
                           /\ minheap <= First(h) /\ First(h) + Roundmb(h.n) <= maxheap
LentOK == \A h \in lent : HeldOK(h)

\* No byte is free and held, or held twice.
ApartOK ==
    \A h \in lent : \A x \in Int :
        Holds(h, x) => ~InList(free, x) /\ \A k \in lent : Holds(k, x) => k = h

MemInv == FreeOK /\ LentOK /\ ApartOK

LEMMA ListFacts ==
    ASSUME FreeOK
    PROVE  /\ free \in Seq(Block) /\ Len(free) \in Nat /\ DOMAIN free = 1 .. Len(free)
           /\ \A i \in 1 .. Len(free) :
                /\ free[i] \in Block /\ free[i].at \in Int /\ free[i].mlength \in Int
                /\ free[i] = [at |-> free[i].at, mlength |-> free[i].mlength]
                /\ minheap <= free[i].at /\ free[i].at + free[i].mlength <= maxheap
                /\ free[i].mlength >= 8 /\ free[i].at % 8 = 0 /\ free[i].mlength % 8 = 0
           /\ \A i, j \in 1 .. Len(free) : i < j => free[i].at + free[i].mlength < free[j].at
<1>1. free \in Seq(Block) /\ ListOK(free)
  BY DEF FreeOK
<1>2. /\ Len(free) \in Nat /\ DOMAIN free = 1 .. Len(free)
      /\ \A i \in 1 .. Len(free) : free[i] \in Block /\ free[i].at \in Int /\ free[i].mlength \in Int
  BY <1>1, BlockFields
<1>3. \A b \in Block : b = [at |-> b.at, mlength |-> b.mlength]
  BY DEF Block
<1>4. \A i \in 1 .. Len(free) :
        /\ minheap <= free[i].at /\ free[i].at + free[i].mlength <= maxheap
        /\ free[i].mlength >= 8 /\ free[i].at % 8 = 0 /\ free[i].mlength % 8 = 0
  BY <1>1 DEF ListOK, Fits, Above, Unit
<1>5. \A i, j \in 1 .. Len(free) : i < j => free[i].at + free[i].mlength < free[j].at
  BY <1>1 DEF ListOK, InOrder, Above
<1> QED
  BY <1>1, <1>2, <1>3, <1>4, <1>5

LEMMA HeapFacts ==
    /\ Word \in Nat /\ minheap \in Nat /\ maxheap \in Nat /\ minheap < maxheap
    /\ minheap % 8 = 0 /\ maxheap % 8 = 0 /\ 8 <= minheap /\ minheap + 8 <= maxheap
    /\ maxheap + 16 <= Word
    /\ Requests \subseteq 0 .. Word - 1
  BY HeapAssumption, RequestAssumption DEF HeapAssumption, RequestAssumption, Unit

\* What freemem() finds when it has walked past the blocks below an address
LEMMA WalkedPast ==
    ASSUME FreeOK, NEW addr \in Int
    PROVE  /\ Passed(addr) \in 0 .. Len(free)
           /\ \A i \in 1 .. Len(free) : free[i].at < addr <=> i <= Passed(addr)
<1> DEFINE n == Len(free)
           B == {i \in 1 .. n : free[i].at < addr}
           passed == {i \in DOMAIN free : \A j \in 1 .. i : free[j].at < addr}
           c == Cardinality(passed)
<1>1. /\ n \in Nat /\ DOMAIN free = 1 .. n
      /\ \A i \in 1 .. n : free[i].at \in Int /\ free[i].mlength \in Int /\ free[i].mlength >= 8
      /\ \A i, j \in 1 .. n : i < j => free[i].at + free[i].mlength < free[j].at
  BY ListFacts
<1>2. \A j \in 1 .. n : j \in passed <=> \A k \in 1 .. j : k \in B
  BY <1>1
<1>3. passed \in SUBSET (1 .. n)
  BY <1>1
<1>4. \A i \in 1 .. n : i \in B <=> free[i].at < addr
  OBVIOUS
<1>5. Passed(addr) = c
  BY DEF Passed
<1> HIDE DEF B, passed
<1>6. /\ c \in 0 .. n
      /\ \A k \in 1 .. c : k \in B
      /\ c < n => c + 1 \notin B
  BY <1>1, <1>2, <1>3, LeadingNumbers
<1> HIDE DEF c
<1>7. ASSUME NEW i \in 1 .. n, i <= c PROVE free[i].at < addr
  BY <1>1, <1>4, <1>6, <1>7
<1>8. ASSUME NEW i \in 1 .. n, i > c PROVE ~(free[i].at < addr)
  <2>1. c + 1 \in 1 .. n /\ c + 1 \notin B
    BY <1>1, <1>6, <1>8
  <2>2. ~(free[c + 1].at < addr)
    BY <1>4, <2>1
  <2>3. i # c + 1 => free[c + 1].at < free[i].at
    <3>1. SUFFICES ASSUME i # c + 1 PROVE free[c + 1].at < free[i].at
      OBVIOUS
    <3>2. c + 1 < i
      BY <1>1, <1>6, <1>8, <3>1
    <3>3. free[c + 1].at + free[c + 1].mlength < free[i].at
      BY <1>1, <2>1, <3>2
    <3> QED
      BY <1>1, <2>1, <3>3
  <2> QED
    BY <1>1, <2>1, <2>2, <2>3
<1> QED
  BY <1>1, <1>5, <1>6, <1>7, <1>8

-----------------------------------------------------------------------------
(* What the calls do to the list.                                           *)

\* The bytes of a free block; no two blocks share one.
LEMMA BlocksApart ==
    ASSUME FreeOK, NEW i \in 1 .. Len(free), NEW j \in 1 .. Len(free), NEW x \in Int,
           InBlock(free[i], x), InBlock(free[j], x)
    PROVE  i = j
<1>1. \A k \in 1 .. Len(free) : free[k].at \in Int /\ free[k].mlength \in Int
  BY ListFacts
<1>2. \A k, l \in 1 .. Len(free) : k < l => free[k].at + free[k].mlength < free[l].at
  BY ListFacts
<1>3. i \in Int /\ j \in Int
  BY ListFacts
<1> QED
  BY <1>1, <1>2, <1>3, SMTT(20) DEF InBlock, Above

\* A block given back that does not overlap its neighbours
LEMMA MergedIn ==
    ASSUME FreeOK, NEW addr \in Int, NEW nbytes \in Nat,
           addr % 8 = 0, nbytes % 8 = 0, 8 <= nbytes,
           minheap <= addr, addr + nbytes <= maxheap,
           ~Overlaps(addr, nbytes)
    PROVE  LET t == Merged(addr, nbytes)
           IN  /\ t \in Seq(Block) /\ ListOK(t) /\ Total(t) = Total(free) + nbytes
               /\ \A x \in Int : InList(t, x) <=> InList(free, x)
                                                  \/ (addr <= x /\ x < addr + nbytes)
<1> DEFINE i == Passed(addr)
           n == Len(free)
           below == i > 0 /\ Above(free[i]) = addr
           above == i < n /\ addr + nbytes = free[i + 1].at
           b == [at |-> IF below THEN free[i].at ELSE addr,
                 mlength |-> (IF below THEN free[i].mlength ELSE 0) + nbytes
                               + (IF above THEN free[i + 1].mlength ELSE 0)]
           lo == IF below THEN i - 1 ELSE i
           hi == IF above THEN i + 2 ELSE i + 1
           t == Merged(addr, nbytes)
           f == Sizes(free)
<1>1. /\ free \in Seq(Block) /\ n \in Nat /\ DOMAIN free = 1 .. n
      /\ \A k \in 1 .. n :
           /\ free[k].at \in Int /\ free[k].mlength \in Int
           /\ minheap <= free[k].at /\ free[k].at + free[k].mlength <= maxheap
           /\ free[k].mlength >= 8 /\ free[k].at % 8 = 0 /\ free[k].mlength % 8 = 0
      /\ \A k, l \in 1 .. n : k < l => free[k].at + free[k].mlength < free[l].at
  BY ListFacts
<1>2. i \in 0 .. n /\ \A k \in 1 .. n : free[k].at < addr <=> k <= i
  BY WalkedPast
<1>3. t = SubSeq(free, 1, lo) \o <<b>> \o SubSeq(free, hi, n)
  BY DEF Merged
<1>4. /\ i > 0 => i \in 1 .. n /\ free[i].at + free[i].mlength <= addr
      /\ i < n => i + 1 \in 1 .. n /\ addr + nbytes <= free[i + 1].at
  <2>1. i > 0 => i \in 1 .. n
    BY <1>1, <1>2
  <2>2. i > 0 => ~(addr < free[i].at + free[i].mlength)
    BY DEF Overlaps, Above
  <2>3. i < n => i + 1 \in 1 .. n
    BY <1>1, <1>2
  <2>4. (addr + nbytes) % Word = addr + nbytes
    <3>1. PICK w \in Nat : w = Word
      BY HeapFacts
    <3>2. 0 <= addr + nbytes /\ addr + nbytes < w
      BY <3>1, HeapFacts
    <3>3. PICK m \in Nat : m = addr + nbytes
      BY <3>2
    <3>4. m % w = m
      BY <3>2, <3>3
    <3> QED
      BY <3>1, <3>3, <3>4
  <2>5. i < n => ~(addr + nbytes > free[i + 1].at)
    BY <2>4 DEF Overlaps
  <2> HIDE DEF i, n
  <2>6. ASSUME i > 0 PROVE free[i].at + free[i].mlength <= addr
    <3>1. free[i].at \in Int /\ free[i].mlength \in Int
      BY <1>1, <2>1, <2>6
    <3>2. ~(addr < free[i].at + free[i].mlength)
      BY <2>2, <2>6
    <3> QED
      BY <3>1, <3>2
  <2>7. ASSUME i < n PROVE addr + nbytes <= free[i + 1].at
    <3>1. free[i + 1].at \in Int
      BY <1>1, <2>3, <2>7
    <3>2. ~(addr + nbytes > free[i + 1].at)
      BY <2>5, <2>7
    <3> QED
      BY <3>1, <3>2
  <2> QED
    BY <2>1, <2>3, <2>6, <2>7
<1> HIDE DEF i, n, t, f
<1>5. lo \in 0 .. n /\ hi \in lo + 1 .. n + 1
  BY <1>1, <1>2
<1>6. /\ below => i \in 1 .. n /\ free[i].at + free[i].mlength = addr
      /\ above => i + 1 \in 1 .. n /\ addr + nbytes = free[i + 1].at
  BY <1>4 DEF Above
<1>15. /\ i > 0 /\ ~below => free[i].at + free[i].mlength # addr
       /\ i < n /\ ~above => addr + nbytes # free[i + 1].at
  BY DEF Above
<1> HIDE DEF below, above
<1> DEFINE at == IF below THEN free[i].at ELSE addr
           down == IF below THEN free[i].mlength ELSE 0
           up == IF above THEN free[i + 1].mlength ELSE 0
           more == down + nbytes + up
           end == addr + nbytes + up
<1>16. down \in Nat /\ down % 8 = 0 /\ at \in Int /\ at + down = addr /\ at % 8 = 0 /\ minheap <= at
  BY <1>1, <1>6
<1>17. up \in Nat /\ up % 8 = 0 /\ addr + nbytes + up <= maxheap
       /\ (above => end = free[i + 1].at + free[i + 1].mlength)
  BY <1>1, <1>6
<1>7. /\ at \in Int /\ more \in Int /\ end \in Int /\ at + more = end
      /\ minheap <= at /\ end <= maxheap /\ more >= 8
      /\ at % 8 = 0 /\ more % 8 = 0
  <2> HIDE DEF at, down, up
  <2> QED
    BY <1>16, <1>17
<1>8. b \in Block /\ b.at = at /\ b.mlength = more /\ Fits(b) /\ Above(b) = end
  <2>1. b = [at |-> at, mlength |-> more]
    OBVIOUS
  <2> HIDE DEF b, at, more, end
  <2> QED
    BY <1>7, <2>1 DEF Block, Fits, Above, Unit
<1>9. Spliced(free, lo, b, hi, t)
  <2> HIDE DEF lo, hi, b
  <2> QED
    BY <1>1, <1>3, <1>5, <1>8, SplicedList DEF n
<1>10. lo > 0 => Above(free[lo]) < at
  <2>1. SUFFICES ASSUME lo > 0 PROVE free[lo].at + free[lo].mlength < at
    BY DEF Above
  <2>2. CASE below
    <3>1. i - 1 \in 1 .. n /\ i \in 1 .. n /\ i - 1 < i /\ lo = i - 1
      BY <1>1, <1>2, <2>1, <2>2
    <3> QED
      BY <1>1, <2>2, <3>1
  <2>3. CASE ~below
    <3>1. i > 0 /\ i \in 1 .. n /\ lo = i
      BY <1>1, <1>2, <2>1, <2>3
    <3>2. free[i].at + free[i].mlength <= addr /\ free[i].at + free[i].mlength # addr
      BY <1>4, <1>15, <2>3, <3>1
    <3>3. free[i].at + free[i].mlength \in Int /\ at = addr /\ free[lo] = free[i]
      BY <1>1, <2>3, <3>1
    <3> HIDE DEF at, lo
    <3> QED
      BY <3>2, <3>3
  <2> QED
    BY <2>2, <2>3
<1>11. hi <= n => end < free[hi].at
  <2>1. SUFFICES ASSUME hi <= n PROVE end < free[hi].at
    OBVIOUS
  <2>2. CASE above
    <3>1. i + 2 \in 1 .. n /\ i + 1 \in 1 .. n /\ i + 1 < i + 2 /\ hi = i + 2
      BY <1>1, <1>2, <2>1, <2>2
    <3> QED
      BY <1>1, <1>17, <2>2, <3>1
  <2>3. CASE ~above
    <3>1. i < n /\ i + 1 \in 1 .. n /\ hi = i + 1
      BY <1>1, <1>2, <2>1, <2>3
    <3>2. addr + nbytes <= free[i + 1].at /\ addr + nbytes # free[i + 1].at
      BY <1>4, <1>15, <2>3, <3>1
    <3>3. end = addr + nbytes
      BY <2>3
    <3> QED
      BY <1>1, <2>3, <3>1, <3>2, <3>3
  <2> QED
    BY <2>2, <2>3
<1>12. t \in Seq(Block) /\ ListOK(t)
  <2>1. ListOK(free)
    BY DEF FreeOK
  <2> HIDE DEF lo, hi, b, at, end
  <2>2. t \in Seq(Block)
    BY <1>1, <1>5, <1>8, <1>9, SplicedFrom DEF n
  <2>3. (lo > 0 => Above(free[lo]) < b.at) /\ (hi <= Len(free) => Above(b) < free[hi].at)
    BY <1>8, <1>10, <1>11 DEF n
  <2> QED
    BY <1>1, <1>5, <1>8, <1>9, <2>1, <2>2, <2>3, SplicedOK DEF n
<1>13. \A x \in Int : InList(t, x) <=> InList(free, x) \/ (addr <= x /\ x < addr + nbytes)
  <2> TAKE x \in Int
  <2>1. InList(t, x) <=> \/ \E k \in 1 .. lo : InBlock(free[k], x)
                         \/ InBlock(b, x)
                         \/ \E k \in hi .. n : InBlock(free[k], x)
    <3> HIDE DEF lo, hi, b
    <3> QED
      BY <1>1, <1>5, <1>8, <1>9, SplicedBytes DEF n
  <2>2. InBlock(b, x) <=> at <= x /\ x < end
    BY <1>8 DEF InBlock
  <2>3. at <= x /\ x < end <=> \/ addr <= x /\ x < addr + nbytes
                               \/ below /\ InBlock(free[i], x)
                               \/ above /\ InBlock(free[i + 1], x)
    <3>1. /\ below => (InBlock(free[i], x) <=> at <= x /\ x < addr)
          /\ above => (InBlock(free[i + 1], x) <=> addr + nbytes <= x /\ x < end)
      BY <1>1, <1>6, <1>17 DEF InBlock, Above
    <3>2. (~below => at = addr) /\ (~above => end = addr + nbytes)
      BY <1>1
    <3>3. at <= addr /\ addr + nbytes <= end /\ at \in Int /\ end \in Int
      <4> HIDE DEF at, down, up
      <4> QED
        BY <1>7, <1>16, <1>17
    <3> HIDE DEF at, end, InBlock
    <3> QED
      BY <3>1, <3>2, <3>3
  <2>4. \A k \in 1 .. n : k \in 1 .. lo \/ k \in hi .. n \/ (below /\ k = i) \/ (above /\ k = i + 1)
    BY <1>1, <1>2
  <2>5. \A k : k \in 1 .. lo \/ k \in hi .. n => k \in 1 .. n
    BY <1>1, <1>5
  <2>6. InList(free, x) <=> \E k \in 1 .. n : InBlock(free[k], x)
    BY DEF InList, n
  <2>7. (below => i \in 1 .. n) /\ (above => i + 1 \in 1 .. n)
    BY <1>6
  <2> HIDE DEF lo, hi, b, at, end
  <2> QED
    BY <2>1, <2>2, <2>3, <2>4, <2>5, <2>6, <2>7
<1>14. Total(t) = Total(free) + nbytes
  <2>1. /\ Total(free) \in Int /\ Total(t) \in Int
        /\ Total(t) = Total(free) + b.mlength
             - (SumFunctionOnSet(f, 1 .. hi - 1) - SumFunctionOnSet(f, 1 .. lo))
    <3> HIDE DEF lo, hi, b
    <3> QED
      BY <1>1, <1>5, <1>8, <1>9, SplicedTotal DEF n, f
  <2>2. \A k \in 1 .. n : f[k] = free[k].mlength /\ f[k] \in Int
    BY <1>1 DEF f, Sizes
  <2>3. ASSUME NEW k \in 0 .. n - 1
        PROVE  /\ SumFunctionOnSet(f, 1 .. k + 1) = SumFunctionOnSet(f, 1 .. k) + f[k + 1]
               /\ SumFunctionOnSet(f, 1 .. k) \in Int
    <3>1. k \in Nat /\ \A l \in 1 .. k + 1 : f[l] \in Int
      BY <1>1, <2>2
    <3> QED
      BY <3>1, SumUpTo
  <2>4. below => SumFunctionOnSet(f, 1 .. i) = SumFunctionOnSet(f, 1 .. i - 1) + free[i].mlength
    <3>1. SUFFICES ASSUME below
          PROVE SumFunctionOnSet(f, 1 .. i) = SumFunctionOnSet(f, 1 .. i - 1) + free[i].mlength
      OBVIOUS
    <3> DEFINE k == i - 1
    <3>2. k \in 0 .. n - 1 /\ k + 1 = i /\ i \in 1 .. n
      BY <1>1, <1>6, <3>1
    <3> HIDE DEF k
    <3>3. SumFunctionOnSet(f, 1 .. k + 1) = SumFunctionOnSet(f, 1 .. k) + f[k + 1]
      BY <2>3, <3>2
    <3> QED
      BY <2>2, <3>2, <3>3 DEF k
  <2>5. above => SumFunctionOnSet(f, 1 .. i + 1) = SumFunctionOnSet(f, 1 .. i) + free[i + 1].mlength
    <3>1. SUFFICES ASSUME above
          PROVE SumFunctionOnSet(f, 1 .. i + 1) = SumFunctionOnSet(f, 1 .. i) + free[i + 1].mlength
      OBVIOUS
    <3>2. i \in 0 .. n - 1 /\ i + 1 \in 1 .. n
      BY <1>1, <1>2, <1>6, <3>1
    <3> QED
      BY <2>2, <2>3, <3>2
  <2>6. /\ SumFunctionOnSet(f, 1 .. i) \in Int
        /\ below => SumFunctionOnSet(f, 1 .. i - 1) \in Int
        /\ above => SumFunctionOnSet(f, 1 .. i + 1) \in Int
    <3>1. \A k \in 0 .. n : SumFunctionOnSet(f, 1 .. k) \in Int
      <4>1. ASSUME NEW k \in 0 .. n PROVE SumFunctionOnSet(f, 1 .. k) \in Int
        <5>1. \A l \in 1 .. k : f[l] \in Int
          BY <1>1, <2>2
        <5>2. IsFiniteSet(1 .. k)
          BY <1>1, CardinalityUpTo
        <5> QED
          BY <5>1, <5>2, SumType
      <4> QED
        BY <4>1
    <3> QED
      BY <1>1, <1>2, <1>6, <3>1
  <2> DEFINE S == SumFunctionOnSet(f, 1 .. i)
             Sb == SumFunctionOnSet(f, 1 .. i - 1)
             Sa == SumFunctionOnSet(f, 1 .. i + 1)
  <2>7. /\ SumFunctionOnSet(f, 1 .. hi - 1) = IF above THEN Sa ELSE S
        /\ SumFunctionOnSet(f, 1 .. lo) = IF below THEN Sb ELSE S
    <3>1. above => hi - 1 = i + 1
      BY <1>1, <1>2
    <3>2. ~above => hi - 1 = i
      BY <1>1, <1>2
    <3>3. (below => lo = i - 1) /\ (~below => lo = i)
      OBVIOUS
    <3> HIDE DEF lo, hi
    <3> QED
      BY <3>1, <3>2, <3>3
  <2> DEFINE Hi == SumFunctionOnSet(f, 1 .. hi - 1)
             Lo == SumFunctionOnSet(f, 1 .. lo)
  <2>8. /\ below => S = Sb + free[i].mlength /\ free[i].mlength \in Int /\ Sb \in Int
        /\ above => Sa = S + free[i + 1].mlength /\ free[i + 1].mlength \in Int /\ Sa \in Int
        /\ S \in Int
    BY <1>1, <1>6, <2>4, <2>5, <2>6
  <2>9. Hi - Lo = more - nbytes
    <3>1. Hi = (IF above THEN Sa ELSE S) /\ Lo = (IF below THEN Sb ELSE S)
      BY <2>7
    <3>2. (IF below THEN Sb ELSE S) = S - down
      <4> HIDE DEF S, Sb
      <4> QED
        BY <2>8
    <3>3. (IF above THEN Sa ELSE S) = S + up
      <4> HIDE DEF S, Sa
      <4> QED
        BY <2>8
    <3> HIDE DEF Hi, Lo, S, Sa, Sb, up, down
    <3> QED
      BY <1>16, <1>17, <2>8, <3>1, <3>2, <3>3
  <2>10. Hi \in Int /\ Lo \in Int /\ more \in Int /\ b.mlength = more
    <3> HIDE DEF S, Sa, Sb, more, b
    <3> QED
      BY <1>7, <1>8, <2>7, <2>8
  <2>11. Total(t) = Total(free) + b.mlength - (Hi - Lo)
    BY <2>1
  <2> HIDE DEF Hi, Lo, more, b
  <2> QED
    BY <2>1, <2>9, <2>10, <2>11
<1> QED
  BY <1>12, <1>13, <1>14 DEF t

\* The list after the bottom, or the top, of a block is taken
TakenLow(i, nbytes) ==
    IF free[i].mlength = nbytes THEN RemoveAt(free, i)
    ELSE ReplaceAt(free, i, [at |-> free[i].at + nbytes, mlength |-> free[i].mlength - nbytes])
TakenHigh(i, nbytes) ==
    IF free[i].mlength = nbytes THEN RemoveAt(free, i)
    ELSE ReplaceAt(free, i, [free[i] EXCEPT !.mlength = @ - nbytes])

\* t is the free list without nbytes bytes from address at on.
Without(t, at, nbytes) ==
    /\ t \in Seq(Block) /\ ListOK(t) /\ Total(t) = Total(free) - nbytes
    /\ \A x \in Int : InList(t, x) <=> InList(free, x) /\ ~(at <= x /\ x < at + nbytes)

\* All of a block is taken.
LEMMA TakenWhole ==
    ASSUME FreeOK, NEW i \in 1 .. Len(free)
    PROVE  Without(RemoveAt(free, i), free[i].at, free[i].mlength)
<1> DEFINE t == RemoveAt(free, i)
<1>1. free \in Seq(Block) /\ ListOK(free)
  BY DEF FreeOK
<1>2. Dropped(free, i, t)
  BY <1>1, DroppedList
<1> HIDE DEF t
<1>3. t \in Seq(Block)
  BY <1>2 DEF Dropped
<1>4. /\ ListOK(t) /\ Total(t) = Total(free) - free[i].mlength
      /\ \A x : InList(t, x) <=> \E j \in 1 .. Len(free) : j # i /\ InBlock(free[j], x)
  BY <1>1, <1>2, DroppedOK
<1>5. ASSUME NEW x \in Int
      PROVE  InList(t, x) <=> InList(free, x) /\ ~InBlock(free[i], x)
  BY <1>4, BlocksApart DEF InList
<1> QED
  BY <1>3, <1>4, <1>5 DEF Without, InBlock, Above, t

\* What is left of a block takes its place.
LEMMA TakenPart ==
    ASSUME FreeOK, NEW i \in 1 .. Len(free), NEW nbytes \in Nat, NEW b \in Block,
           NEW from \in Int,
           b.mlength = free[i].mlength - nbytes, Fits(b),
           \/ b.at = free[i].at + nbytes /\ from = free[i].at
           \/ b.at = free[i].at /\ from = free[i].at + free[i].mlength - nbytes
    PROVE  Without(ReplaceAt(free, i, b), from, nbytes)
<1> DEFINE t == ReplaceAt(free, i, b)
           lo == i - 1
           hi == i + 1
           f == Sizes(free)
           n == Len(free)
<1>1. free \in Seq(Block) /\ ListOK(free)
  BY DEF FreeOK
<1>2. /\ n \in Nat /\ DOMAIN free = 1 .. n
      /\ \A k \in 1 .. n : free[k].at \in Int /\ free[k].mlength \in Int
      /\ \A k, l \in 1 .. n : k < l => free[k].at + free[k].mlength < free[l].at
  BY ListFacts
<1>3. lo \in 0 .. n /\ hi \in lo + 1 .. n + 1 /\ lo + 1 = i /\ hi - 1 = i /\ i \in 1 .. n
  BY <1>2
<1>4. Spliced(free, lo, b, hi, t)
  BY <1>1, ReplacedList
<1>5. b.at \in Int /\ b.mlength \in Int /\ b.mlength >= 8
  BY DEF Block, Fits, Unit
<1> DEFINE at == free[i].at
           size == free[i].mlength
<1>6. at \in Int /\ size \in Int
  BY <1>2, <1>3
<1>7. /\ b.mlength = size - nbytes
      /\ \/ b.at = at /\ from = at + b.mlength
         \/ b.at = at + nbytes /\ from = at
  <2>1. at + size - nbytes = at + (size - nbytes)
    BY <1>6
  <2> QED
    BY <2>1
<1> HIDE DEF at, size
<1>8. (lo > 0 => Above(free[lo]) < b.at) /\ (hi <= n => Above(b) < free[hi].at)
  <2>1. ASSUME lo > 0 PROVE free[lo].at + free[lo].mlength < b.at
    <3>1. lo \in 1 .. n /\ lo < i
      BY <1>2, <1>3, <2>1
    <3> HIDE DEF lo
    <3>2. free[lo].at + free[lo].mlength < at /\ free[lo].at + free[lo].mlength \in Int
      BY <1>2, <1>3, <3>1 DEF at
    <3> QED
      BY <1>5, <1>6, <1>7, <3>2
  <2>2. ASSUME hi <= n PROVE b.at + b.mlength < free[hi].at
    <3>1. hi \in 1 .. n /\ i < hi
      BY <1>2, <1>3, <2>2
    <3> HIDE DEF hi
    <3>2. at + size < free[hi].at /\ free[hi].at \in Int
      BY <1>2, <1>3, <3>1 DEF at, size
    <3>3. b.at + b.mlength <= at + size
      BY <1>5, <1>6, <1>7
    <3>4. b.at + b.mlength \in Int /\ at + size \in Int
      BY <1>5, <1>6
    <3> QED
      BY <3>2, <3>3, <3>4
  <2> QED
    BY <2>1, <2>2 DEF Above
<1> HIDE DEF lo, hi, t
<1>9. t \in Seq(Block) /\ ListOK(t)
  BY <1>1, <1>3, <1>4, <1>8, SplicedFrom, SplicedOK
<1>10. ASSUME NEW x \in Int
      PROVE  InList(t, x) <=> InList(free, x) /\ ~(from <= x /\ x < from + nbytes)
  <2>1. InList(t, x) <=> \/ \E k \in 1 .. lo : InBlock(free[k], x)
                         \/ InBlock(b, x)
                         \/ \E k \in hi .. n : InBlock(free[k], x)
    BY <1>1, <1>3, <1>4, SplicedBytes
  <2>0. /\ InBlock(b, x) <=> b.at <= x /\ x < b.at + b.mlength
        /\ InBlock(free[i], x) <=> at <= x /\ x < at + size
    BY DEF InBlock, Above, at, size
  <2>2. InBlock(b, x) <=> InBlock(free[i], x) /\ ~(from <= x /\ x < from + nbytes)
    BY <1>5, <1>6, <1>7, <2>0, SMTT(20)
  <2>3. \A k \in 1 .. n : k \in 1 .. lo \/ k = i \/ k \in hi .. n
    BY <1>2, <1>3
  <2>4. \A k : k \in 1 .. lo \/ k \in hi .. n => k \in 1 .. n /\ k # i
    BY <1>2, <1>3
  <2>5. from <= x /\ x < from + nbytes => InBlock(free[i], x)
    BY <1>5, <1>6, <1>7, <2>0
  <2>6. \A k \in 1 .. n : InBlock(free[k], x) /\ InBlock(free[i], x) => k = i
    BY <1>3, BlocksApart
  <2>7. InList(free, x) <=> \E k \in 1 .. n : InBlock(free[k], x)
    BY DEF InList
  <2> HIDE DEF n, InBlock
  <2> QED
    BY <1>3, <2>1, <2>2, <2>3, <2>4, <2>5, <2>6, <2>7
<1>11. Total(t) = Total(free) - nbytes
  <2>1. /\ Total(free) \in Int /\ Total(t) \in Int
        /\ Total(t) = Total(free) + b.mlength
             - (SumFunctionOnSet(f, 1 .. hi - 1) - SumFunctionOnSet(f, 1 .. lo))
    BY <1>1, <1>3, <1>4, SplicedTotal
  <2>2. \A k \in 1 .. n : f[k] = free[k].mlength /\ f[k] \in Int
    BY <1>2 DEF Sizes
  <2> HIDE DEF f
  <2>3. /\ SumFunctionOnSet(f, 1 .. lo + 1) = SumFunctionOnSet(f, 1 .. lo) + f[lo + 1]
        /\ SumFunctionOnSet(f, 1 .. lo) \in Int
    <3>1. lo \in Nat /\ \A k \in 1 .. lo + 1 : f[k] \in Int
      BY <1>2, <1>3, <2>2
    <3> QED
      BY <3>1, SumUpTo
  <2> DEFINE Hi == SumFunctionOnSet(f, 1 .. hi - 1)
             Lo == SumFunctionOnSet(f, 1 .. lo)
  <2>4. Hi = Lo + f[i] /\ f[i] = free[i].mlength /\ free[i].mlength \in Int /\ Lo \in Int
    BY <1>2, <1>3, <2>2, <2>3
  <2>5. Total(t) = Total(free) + b.mlength - (Hi - Lo)
    BY <2>1
  <2> HIDE DEF Hi, Lo
  <2> QED
    BY <2>1, <2>4, <2>5, SMTT(20)
<1> QED
  BY <1>9, <1>10, <1>11 DEF Without, t

\* getmem() takes the bottom of a block, getstk() the top.
LEMMA TakenFromBlock ==
    ASSUME FreeOK, NEW i \in 1 .. Len(free), NEW nbytes \in Nat, nbytes % 8 = 0,
           nbytes <= free[i].mlength
    PROVE  /\ Without(TakenLow(i, nbytes), free[i].at, nbytes)
           /\ Without(TakenHigh(i, nbytes), free[i].at + free[i].mlength - nbytes, nbytes)
<1> DEFINE low == [at |-> free[i].at + nbytes, mlength |-> free[i].mlength - nbytes]
           high == [at |-> free[i].at, mlength |-> free[i].mlength - nbytes]
<1>1. /\ free[i].at \in Int /\ free[i].mlength \in Int
      /\ free[i] = [at |-> free[i].at, mlength |-> free[i].mlength]
      /\ minheap <= free[i].at /\ free[i].at + free[i].mlength <= maxheap
      /\ free[i].mlength >= 8 /\ free[i].at % 8 = 0 /\ free[i].mlength % 8 = 0
  BY ListFacts
<1>2. [free[i] EXCEPT !.mlength = @ - nbytes] = high
  <2>1. \A a \in Int, m \in Int, n \in Int :
          [[at |-> a, mlength |-> m] EXCEPT !.mlength = m - n] = [at |-> a, mlength |-> m - n]
    OBVIOUS
  <2>2. [[at |-> free[i].at, mlength |-> free[i].mlength]
            EXCEPT !.mlength = free[i].mlength - nbytes] = high
    BY <1>1, <2>1
  <2> QED
    BY <1>1, <2>2, Zenon
<1>3. CASE free[i].mlength = nbytes
  <2>1. TakenLow(i, nbytes) = RemoveAt(free, i) /\ TakenHigh(i, nbytes) = RemoveAt(free, i)
    BY <1>3 DEF TakenLow, TakenHigh
  <2>2. free[i].at + free[i].mlength - nbytes = free[i].at
    BY <1>1, <1>3
  <2>3. Without(RemoveAt(free, i), free[i].at, nbytes)
    BY <1>3, TakenWhole
  <2> QED
    BY <2>1, <2>2, <2>3
<1>4. CASE free[i].mlength # nbytes
  <2>1. /\ TakenLow(i, nbytes) = ReplaceAt(free, i, low)
        /\ TakenHigh(i, nbytes) = ReplaceAt(free, i, high)
    BY <1>2, <1>4 DEF TakenLow, TakenHigh
  <2>2. /\ low \in Block /\ high \in Block /\ low.at = free[i].at + nbytes /\ high.at = free[i].at
        /\ low.mlength = free[i].mlength - nbytes /\ high.mlength = free[i].mlength - nbytes
    BY <1>1 DEF Block
  <2>3. /\ free[i].mlength - nbytes >= 8 /\ (free[i].mlength - nbytes) % 8 = 0
        /\ (free[i].at + nbytes) % 8 = 0
    <3> DEFINE a == free[i].at
               m == free[i].mlength
    <3>1. /\ a \in Int /\ m \in Int /\ a % 8 = 0 /\ m % 8 = 0 /\ m # nbytes /\ nbytes <= m
      BY <1>1, <1>4
    <3> HIDE DEF a, m, low, high
    <3>2. (m - nbytes) % 8 = 0 /\ (a + nbytes) % 8 = 0 /\ m - nbytes > 0
      BY <3>1
    <3>3. m - nbytes >= 8
      BY <3>1, <3>2
    <3> QED
      BY <3>2, <3>3 DEF a, m
  <2> HIDE DEF low, high
  <2> DEFINE at == free[i].at
             size == free[i].mlength
  <2>8. /\ at \in Int /\ size \in Int /\ minheap <= at /\ at + size <= maxheap /\ at % 8 = 0
        /\ size - nbytes >= 8 /\ (size - nbytes) % 8 = 0 /\ (at + nbytes) % 8 = 0
        /\ low.at = at + nbytes /\ high.at = at
        /\ low.mlength = size - nbytes /\ high.mlength = size - nbytes
    BY <1>1, <2>2, <2>3
  <2> HIDE DEF at, size
  <2>9. PICK small \in Int, big \in Int : small = minheap /\ big = maxheap
    BY HeapFacts
  <2>10. /\ at + nbytes + (size - nbytes) = at + size /\ small <= at + nbytes
         /\ at + (size - nbytes) <= big
    BY <2>8, <2>9
  <2>4. Fits(low) /\ Fits(high)
    BY <2>8, <2>9, <2>10 DEF Fits, Above, Unit
  <2>5. free[i].at + free[i].mlength - nbytes \in Int
    BY <1>1
  <2>6. Without(ReplaceAt(free, i, low), free[i].at, nbytes)
    BY <1>1, <2>2, <2>4, TakenPart DEF at, size
  <2>7. Without(ReplaceAt(free, i, high), free[i].at + free[i].mlength - nbytes, nbytes)
    BY <1>1, <2>2, <2>4, <2>5, TakenPart
  <2> QED
    BY <2>1, <2>6, <2>7
<1> QED
  BY <1>3, <1>4

\* The first block that fits, and the last one
LEMMA FirstAndLast ==
    ASSUME FreeOK, NEW nbytes \in Nat, Fitting(nbytes) # {}
    PROVE  /\ Min(Fitting(nbytes)) \in Fitting(nbytes)
           /\ Max(Fitting(nbytes)) \in Fitting(nbytes)
           /\ \A j \in Fitting(nbytes) : Min(Fitting(nbytes)) <= j /\ j <= Max(Fitting(nbytes))
<1> DEFINE S == Fitting(nbytes)
           n == Len(free)
           R == {n - j : j \in S}
<1>1. n \in Nat /\ S \subseteq 1 .. n
  BY ListFacts DEF Fitting
<1> HIDE DEF S, n
<1>2. S # {}
  BY DEF S
<1>3. \E k \in S : \A m \in S : k <= m
  <2>1. S \subseteq Nat
    BY <1>1
  <2> QED
    BY <1>2, <2>1, LeastNumber
<1>4. R \subseteq Nat /\ R # {}
  <2>1. \A j \in S : n - j \in Nat
    BY <1>1
  <2>2. PICK j \in S : TRUE
    BY <1>2
  <2>3. n - j \in R
    OBVIOUS
  <2> QED
    BY <2>1, <2>3
<1> HIDE DEF R
<1>5. PICK r \in R : \A m \in R : r <= m
  BY <1>4, LeastNumber
<1> USE DEF R
<1>6. PICK k \in S : r = n - k
  BY <1>5
<1>7. \A m \in S : k >= m
  <2>1. ASSUME NEW m \in S PROVE k >= m
    <3>1. n - m \in R
      BY <2>1
    <3>2. n - k <= n - m
      BY <1>5, <1>6, <3>1
    <3> QED
      BY <1>1, <3>2
  <2> QED
    BY <2>1
<1>8. Min(S) \in S /\ \A m \in S : Min(S) <= m
  BY <1>3, Zenon DEF Min
<1>9. Max(S) \in S /\ \A m \in S : Max(S) >= m
  BY <1>6, <1>7, Zenon DEF Max
<1>10. \A m \in S : m <= Max(S)
  BY <1>1, <1>9
<1> QED
  BY <1>8, <1>9, <1>10 DEF S

-----------------------------------------------------------------------------
(* Steps of the invariant.                                                  *)

LEMMA EmptyFacts ==
    ASSUME NEW b \in Block, Fits(b)
    PROVE  /\ <<b>> \in Seq(Block) /\ ListOK(<<b>>) /\ Total(<<b>>) = b.mlength
           /\ \A x : InList(<<b>>, x) <=> InBlock(b, x)
<1> DEFINE s == <<b>>
           f == Sizes(s)
<1>1. s \in Seq(Block) /\ Len(s) = 1 /\ DOMAIN s = 1 .. 1 /\ s[1] = b
  OBVIOUS
<1>2. f[1] = b.mlength /\ b.mlength \in Int
  BY <1>1 DEF Sizes, Block
<1>3. ListOK(s)
  BY <1>1 DEF ListOK, InOrder
<1>4. \A x : InList(s, x) <=> InBlock(b, x)
  BY <1>1 DEF InList
<1>5. Total(s) = SumFunctionOnSet(f, 1 .. 1)
  BY <1>1 DEF Total
<1> HIDE DEF f, s
<1>6. SumFunctionOnSet(f, 1 .. 1) = b.mlength
  <2> DEFINE z == 0
  <2>1. z \in Nat /\ (\A j \in 1 .. z + 1 : f[j] \in Int) /\ 1 .. z = {} /\ z + 1 = 1
    BY <1>2
  <2> HIDE DEF z
  <2>2. SumFunctionOnSet(f, 1 .. z + 1) = SumFunctionOnSet(f, 1 .. z) + f[z + 1]
    BY <2>1, SumUpTo
  <2>3. SumFunctionOnSet(f, 1 .. z) = 0
    BY <2>1, SumOfNothing
  <2>4. SumFunctionOnSet(f, 1 .. 1) = 0 + f[1]
    BY <2>1, <2>2, <2>3, Zenon
  <2> QED
    BY <1>2, <2>4
<1> QED
  BY <1>1, <1>3, <1>4, <1>5, <1>6 DEF s

LEMMA InitOK == MemInit => MemInv
<1> DEFINE b == [at |-> minheap, mlength |-> maxheap - minheap]
<1>1. SUFFICES ASSUME MemInit PROVE MemInv
  OBVIOUS
<1>2. b \in Block /\ Fits(b) /\ b.mlength = maxheap - minheap
  <2>1. PICK lo \in Nat, hi \in Nat : lo = minheap /\ hi = maxheap
    BY HeapFacts
  <2>2. hi - lo >= 8 /\ (hi - lo) % 8 = 0 /\ lo + (hi - lo) = hi
    BY <2>1, HeapFacts
  <2> QED
    BY <2>1, <2>2, HeapFacts DEF Block, Fits, Above, Unit
<1> HIDE DEF b
<1>3. free = <<b>> /\ mlength = b.mlength /\ lent = {}
  BY <1>1, <1>2 DEF MemInit, b
<1>4. FreeOK
  BY <1>2, <1>3, EmptyFacts DEF FreeOK
<1> QED
  BY <1>3, <1>4 DEF MemInv, LentOK, ApartOK

\* A call takes Roundmb(n) free bytes from base on and returns value.
Took(call, n, base, value) ==
    /\ Without(free', base, Roundmb(n))
    /\ mlength' = mlength - Roundmb(n)
    /\ lent' = lent \cup {[at |-> value, n |-> n, by |-> call]}
    /\ First([at |-> value, n |-> n, by |-> call]) = base
    /\ \A x \in Int : base <= x /\ x < base + Roundmb(n) => InList(free, x)
    /\ base % Unit = 0 /\ minheap <= base /\ base + Roundmb(n) <= maxheap

LEMMA TookOK ==
    ASSUME MemInv, NEW call \in {"getmem", "getstk"}, NEW n \in Requests, NEW base \in Int,
           NEW value \in Int, Took(call, n, base, value)
    PROVE  MemInv'
<1> DEFINE new == [at |-> value, n |-> n, by |-> call]
<1>1. /\ FreeOK /\ LentOK /\ ApartOK
      /\ new.at = value /\ new.n = n /\ new.by = call
  BY DEF MemInv
<1>2. n \in 0 .. Word - 1 /\ Roundmb(n) \in Nat
  BY HeapFacts, Rounding
<1>3. /\ Without(free', base, Roundmb(n)) /\ mlength' = mlength - Roundmb(n)
      /\ lent' = lent \cup {new} /\ First(new) = base
      /\ \A x \in Int : base <= x /\ x < base + Roundmb(n) => InList(free, x)
      /\ base % Unit = 0 /\ minheap <= base /\ base + Roundmb(n) <= maxheap
  BY DEF Took
<1>4. FreeOK'
  BY <1>1, <1>3 DEF FreeOK, Without
<1>5. HeldOK(new)
  BY <1>1, <1>3 DEF HeldOK
<1> HIDE DEF new
<1>6. LentOK'
  BY <1>1, <1>3, <1>5 DEF LentOK
<1>7. \A x \in Int : Holds(new, x) <=> base <= x /\ x < base + Roundmb(n)
  BY <1>1, <1>3 DEF Holds
<1>8. \A x \in Int : InList(free', x) <=> InList(free, x) /\ ~Holds(new, x)
  BY <1>3, <1>7 DEF Without
<1>9. \A x \in Int : Holds(new, x) => InList(free, x)
  BY <1>3, <1>7
<1>10. ASSUME NEW h \in lent', NEW x \in Int, Holds(h, x)
       PROVE  ~InList(free', x) /\ \A k \in lent' : Holds(k, x) => k = h
  <2>1. CASE h = new
    <3>1. \A k \in lent : ~Holds(k, x)
      BY <1>1, <1>9, <1>10, <2>1 DEF ApartOK
    <3> QED
      BY <1>3, <1>8, <1>10, <2>1, <3>1
  <2>2. CASE h # new
    <3>1. h \in lent
      BY <1>3, <2>2
    <3>2. ~InList(free, x) /\ \A k \in lent : Holds(k, x) => k = h
      BY <1>1, <1>10, <3>1 DEF ApartOK
    <3> QED
      BY <1>3, <1>8, <1>9, <3>2
  <2> QED
    BY <2>1, <2>2
<1>11. ApartOK'
  BY <1>10 DEF ApartOK
<1> QED
  BY <1>4, <1>6, <1>11 DEF MemInv

\* What getmem() takes is the bottom of the first block that fits.
LEMMA GetmemTakes ==
    ASSUME FreeOK, NEW n \in Requests, Getmem(n)
    PROVE  LET i == Min(Fitting(Roundmb(n)))
           IN  /\ i \in 1 .. Len(free) /\ Roundmb(n) <= free[i].mlength
               /\ free[i].at \in Int /\ Took("getmem", n, free[i].at, free[i].at)
<1> DEFINE z == Roundmb(n)
           i == Min(Fitting(z))
           h == [at |-> free[i].at, n |-> n, by |-> "getmem"]
<1>1. n \in 0 .. Word - 1 /\ z \in Nat /\ z % 8 = 0
  BY HeapFacts, Rounding DEF Unit
<1>2. /\ free' = TakenLow(i, z) /\ mlength' = mlength - z /\ lent' = lent \cup {h}
      /\ Fitting(z) # {}
  BY DEF Getmem, Lend, TakenLow
<1>3. First(h) = free[i].at
  BY DEF First
<1> HIDE DEF z
<1>4. i \in Fitting(z)
  BY <1>1, <1>2, FirstAndLast
<1> HIDE DEF i
<1>5. i \in 1 .. Len(free) /\ z <= free[i].mlength
  BY <1>1, <1>4, ListFacts DEF Fitting
<1>6. /\ free[i].at \in Int /\ free[i].mlength \in Int
      /\ minheap <= free[i].at /\ free[i].at + free[i].mlength <= maxheap /\ free[i].at % 8 = 0
  BY <1>5, ListFacts
<1>7. Without(TakenLow(i, z), free[i].at, z)
  BY <1>1, <1>5, TakenFromBlock
<1>8. free[i].at + z <= maxheap
  <2> DEFINE a == free[i].at
             m == free[i].mlength
  <2>1. PICK big \in Int : big = maxheap
    BY HeapFacts
  <2>2. a \in Int /\ m \in Int /\ a + m <= big /\ z <= m /\ z \in Int
    BY <1>1, <1>5, <1>6, <2>1
  <2> HIDE DEF a, m
  <2>3. a + z <= big
    BY <2>2
  <2> QED
    BY <2>1, <2>3 DEF a
<1>9. ASSUME NEW x \in Int, free[i].at <= x, x < free[i].at + z PROVE InList(free, x)
  <2>1. x < free[i].at + free[i].mlength
    BY <1>1, <1>5, <1>6, <1>9
  <2> QED
    BY <1>5, <1>9, <2>1 DEF InList, InBlock, Above
<1>10. Took("getmem", n, free[i].at, free[i].at)
  BY <1>2, <1>3, <1>6, <1>7, <1>8, <1>9 DEF Took, Unit, z
<1> QED
  BY <1>5, <1>6, <1>10 DEF z, i

\* What getstk() takes is the top of the last block that fits.
LEMMA GetstkTakes ==
    ASSUME FreeOK, NEW n \in Requests, Getstk(n)
    PROVE  LET k == Max(Fitting(Roundmb(n)))
               base == free[k].at + free[k].mlength - Roundmb(n)
           IN  /\ k \in 1 .. Len(free) /\ Roundmb(n) <= free[k].mlength
               /\ base \in Int /\ base + Roundmb(n) - Top \in Int
               /\ base + Roundmb(n) - Top = free[k].at + free[k].mlength - Top
               /\ Took("getstk", n, base, base + Roundmb(n) - Top)
<1> DEFINE z == Roundmb(n)
           k == Max(Fitting(z))
           base == free[k].at + free[k].mlength - z
           value == base + z - Top
           h == [at |-> value, n |-> n, by |-> "getstk"]
<1>1. n \in 0 .. Word - 1 /\ z \in Nat /\ z % 8 = 0
  BY HeapFacts, Rounding DEF Unit
<1>2. /\ free' = TakenHigh(k, z) /\ mlength' = mlength - z
      /\ lent' = lent \cup {[at |-> free[k].at + free[k].mlength - Top, n |-> n, by |-> "getstk"]}
      /\ Fitting(z) # {}
  BY DEF Getstk, Lend, TakenHigh
<1>3. First(h) = value + Top - z
  BY DEF First
<1> HIDE DEF z
<1>4. k \in Fitting(z)
  BY <1>1, <1>2, FirstAndLast
<1> HIDE DEF k
<1>5. k \in 1 .. Len(free) /\ z <= free[k].mlength
  BY <1>1, <1>4, ListFacts DEF Fitting
<1>6. /\ free[k].at \in Int /\ free[k].mlength \in Int
      /\ minheap <= free[k].at /\ free[k].at + free[k].mlength <= maxheap
      /\ free[k].at % 8 = 0 /\ free[k].mlength % 8 = 0
  BY <1>5, ListFacts
<1>7. Without(TakenHigh(k, z), base, z)
  BY <1>1, <1>5, TakenFromBlock
<1>8. /\ base \in Int /\ base % 8 = 0 /\ minheap <= base /\ base + z <= maxheap
      /\ base + z = free[k].at + free[k].mlength /\ free[k].at <= base
      /\ base + z \in Int
  <2> DEFINE a == free[k].at
             m == free[k].mlength
  <2>1. PICK low \in Int, big \in Int : low = minheap /\ big = maxheap
    BY HeapFacts
  <2>2. /\ a \in Int /\ m \in Int /\ low <= a /\ a + m <= big /\ a % 8 = 0 /\ m % 8 = 0
        /\ z \in Int /\ z % 8 = 0 /\ z <= m /\ base = a + m - z
    BY <1>1, <1>5, <1>6, <2>1
  <2> HIDE DEF a, m, base
  <2>3. base \in Int /\ low <= base /\ base + z = a + m /\ a <= base
    BY <2>2
  <2>4. base % 8 = 0
    BY <2>2
  <2> QED
    BY <2>1, <2>2, <2>3, <2>4 DEF a, m
<1>9. ASSUME NEW x \in Int, base <= x, x < base + z PROVE InList(free, x)
  <2>1. free[k].at <= x /\ x < free[k].at + free[k].mlength
    <3> HIDE DEF base
    <3> QED
      BY <1>1, <1>6, <1>8, <1>9
  <2> QED
    BY <1>5, <2>1 DEF InList, InBlock, Above
<1>10. value \in Int /\ value = free[k].at + free[k].mlength - Top /\ value + Top - z = base
  <2>1. PICK e \in Int : e = base + z
    BY <1>8
  <2>2. value = base + z - 4
    BY DEF Top
  <2>3. e = free[k].at + free[k].mlength
    BY <1>8, <2>1
  <2> HIDE DEF base, value
  <2>4. value = e - 4 /\ e - z = base
    BY <1>1, <1>8, <2>1, <2>2
  <2>5. value + 4 - z = base
    BY <1>1, <2>4
  <2> QED
    BY <1>6, <2>3, <2>4, <2>5 DEF Top
<1>11. Took("getstk", n, base, value)
  <2>1. lent' = lent \cup {h}
    BY <1>2, <1>10
  <2>2. First(h) = base
    BY <1>3, <1>10
  <2> HIDE DEF base, value
  <2> QED
    BY <1>2, <1>7, <1>8, <1>9, <2>1, <2>2 DEF Took, Unit, z
<1> QED
  BY <1>5, <1>8, <1>10, <1>11 DEF z, k

\* What somebody holds is not rounded when it is given back, and freemem() takes it.
LEMMA HeldFacts ==
    ASSUME MemInv, NEW h \in lent, Roundmb(h.n) # 0
    PROVE  /\ h.n \in 0 .. Word - 1 /\ Small(h.n) /\ h.at \in Int
           /\ Roundmb(h.n) \in Nat /\ Roundmb(h.n) % 8 = 0 /\ 8 <= Roundmb(h.n)
           /\ Roundmb(Roundmb(h.n)) = Roundmb(h.n)
           /\ First(h) \in Int /\ First(h) % 8 = 0
           /\ minheap <= First(h) /\ First(h) + Roundmb(h.n) <= maxheap
           /\ ~Overlaps(First(h), Roundmb(h.n)) /\ ~Refused(First(h), Roundmb(h.n))
<1> DEFINE z == Roundmb(h.n)
           at == First(h)
<1>1. FreeOK /\ HeldOK(h)
  BY DEF MemInv, LentOK
<1>2. h.n \in Requests /\ h.at \in Int /\ at % 8 = 0 /\ minheap <= at /\ at + z <= maxheap
  BY <1>1 DEF HeldOK, Unit
<1>3. h.n \in 0 .. Word - 1
  BY <1>2, HeapFacts
<1>4. z \in Nat /\ z % 8 = 0 /\ 8 <= z /\ h.n + 7 < Word
  <2>1. h.n # 0
    BY <1>3, HeapFacts, Rounding DEF Small, Unit
  <2> QED
    BY <1>3, <2>1, Rounding DEF Unit
<1>5. at \in Int
  BY <1>2, <1>4 DEF First, Top
<1> HIDE DEF z, at
<1>6. PICK low \in Nat, big \in Nat, w \in Nat : low = minheap /\ big = maxheap /\ w = Word
  BY HeapFacts
<1>7. 1 <= low /\ low <= at /\ at + z <= big /\ big + 16 <= w
  BY <1>2, <1>6, HeapFacts
<1>8. z \in 0 .. Word - 1 /\ Small(z) /\ Small(h.n)
  BY <1>3, <1>4, <1>5, <1>6, <1>7 DEF Small, Unit
<1>9. Roundmb(z) = z
  BY <1>4, <1>8, Rounding DEF Unit
<1>10. (at + z) % Word = at + z
  <2>1. PICK m \in Nat : m = at + z
    BY <1>4, <1>5, <1>7
  <2>2. m % w = m
    BY <1>6, <1>7, <2>1
  <2> QED
    BY <1>6, <2>1, <2>2
<1>11. \A x \in Int : at <= x /\ x < at + z => ~InList(free, x)
  BY DEF MemInv, ApartOK, Holds, z, at
<1>12. ~Overlaps(at, z)
  <2> DEFINE i == Passed(at)
             n == Len(free)
  <2>1. /\ n \in Nat /\ i \in 0 .. n
        /\ \A k \in 1 .. n : free[k].at < at <=> k <= i
        /\ \A k \in 1 .. n : free[k].at \in Int /\ free[k].mlength \in Int /\ 8 <= free[k].mlength
    BY <1>1, <1>5, WalkedPast, ListFacts
  <2> HIDE DEF i
  <2>2. ASSUME i > 0, at < Above(free[i]) PROVE FALSE
    <3>1. i \in 1 .. n /\ free[i].at < at
      BY <2>1, <2>2
    <3>2. InBlock(free[i], at)
      BY <1>5, <2>1, <2>2, <3>1 DEF InBlock
    <3>3. InList(free, at)
      BY <3>1, <3>2 DEF InList
    <3> QED
      BY <1>4, <1>5, <1>11, <3>3
  <2>3. ASSUME i < n, (at + z) % Word > free[i + 1].at PROVE FALSE
    <3> DEFINE k == i + 1
    <3>1. k \in 1 .. n /\ ~(k <= i)
      BY <2>1, <2>3
    <3>2. at + z > free[k].at
      BY <1>10, <2>3
    <3> HIDE DEF k
    <3>3. free[k].at >= at /\ free[k].at \in Int /\ 8 <= free[k].mlength /\ free[k].mlength \in Int
      BY <1>5, <2>1, <3>1
    <3>4. InBlock(free[k], free[k].at)
      BY <3>3 DEF InBlock, Above
    <3>5. InList(free, free[k].at)
      BY <3>1, <3>4 DEF InList
    <3>6. free[k].at < at + z
      BY <1>4, <1>5, <3>3, <3>2
    <3> QED
      BY <1>11, <3>3, <3>5, <3>6
  <2> QED
    BY <2>2, <2>3 DEF Overlaps, i
<1>13. ~Refused(at, z)
  <2>1. ~(at < minheap) /\ ~(at > maxheap) /\ z # 0
    BY <1>4, <1>5, <1>6, <1>7
  <2> QED
    BY <1>9, <1>12, <2>1 DEF Refused
<1> QED
  BY <1>2, <1>3, <1>4, <1>5, <1>8, <1>9, <1>12, <1>13 DEF z, at

\* What giving back does: freemem() of the block, whichever call lent it
LEMMA GivenBack ==
    ASSUME MemInv, NEW h \in lent, GiveBack(h)
    PROVE  /\ Roundmb(h.n) # 0 /\ lent' = lent \ {h}
           /\ free' = Merged(First(h), Roundmb(h.n)) /\ mlength' = mlength + Roundmb(h.n)
           /\ memlast' = [call |-> "freemem", at |-> First(h), value |-> MEM_OK,
                          n |-> IF h.by = "getstk" THEN Roundmb(h.n) ELSE h.n]
<1> DEFINE z == Roundmb(h.n)
<1>1. z # 0 /\ lent' = lent \ {h}
  BY DEF GiveBack
<1>2. Roundmb(z) = z /\ z \in Nat /\ h.at \in Int
  BY <1>1, HeldFacts
<1>3. CASE h.by = "getstk"
  <2>1. h.at - z + Top = First(h)
    BY <1>2, <1>3 DEF First, Top
  <2>2. Freemem(h.at - z + Top, z)
    BY <1>3 DEF GiveBack, Freestk
  <2> QED
    BY <1>1, <1>2, <1>3, <2>1, <2>2 DEF Freemem
<1>4. CASE h.by # "getstk"
  <2>1. h.at = First(h) /\ Freemem(h.at, h.n)
    BY <1>4 DEF GiveBack, First
  <2> QED
    BY <1>1, <1>4, <2>1 DEF Freemem
<1> QED
  BY <1>3, <1>4

LEMMA GiveBackOK ==
    ASSUME MemInv, NEW h \in lent, GiveBack(h)
    PROVE  /\ MemInv'
           /\ \A x \in Int : InList(free', x) <=> InList(free, x) \/ Holds(h, x)
<1> DEFINE z == Roundmb(h.n)
           at == First(h)
<1>1. /\ z # 0 /\ lent' = lent \ {h} /\ free' = Merged(at, z) /\ mlength' = mlength + z
      /\ FreeOK /\ LentOK /\ ApartOK
  BY GivenBack DEF MemInv
<1>2. /\ z \in Nat /\ z % 8 = 0 /\ 8 <= z /\ at \in Int /\ at % 8 = 0
      /\ minheap <= at /\ at + z <= maxheap /\ ~Overlaps(at, z)
  BY <1>1, HeldFacts
<1>3. \A x \in Int : Holds(h, x) <=> at <= x /\ x < at + z
  BY DEF Holds
<1> HIDE DEF z, at
<1>4. LET t == Merged(at, z)
      IN  /\ t \in Seq(Block) /\ ListOK(t) /\ Total(t) = Total(free) + z
          /\ \A x \in Int : InList(t, x) <=> InList(free, x) \/ (at <= x /\ x < at + z)
  BY <1>1, <1>2, MergedIn
<1>5. /\ free' \in Seq(Block) /\ ListOK(free') /\ Total(free') = Total(free) + z
      /\ \A x \in Int : InList(free', x) <=> InList(free, x) \/ Holds(h, x)
  BY <1>1, <1>3, <1>4
<1>6. FreeOK'
  BY <1>1, <1>5 DEF FreeOK
<1>7. LentOK'
  BY <1>1 DEF LentOK
<1>8. ASSUME NEW k \in lent', NEW x \in Int, Holds(k, x)
      PROVE  ~InList(free', x) /\ \A l \in lent' : Holds(l, x) => l = k
  <2>1. k \in lent /\ k # h
    BY <1>1
  <2>2. ~InList(free, x) /\ \A l \in lent : Holds(l, x) => l = k
    BY <1>1, <1>8, <2>1 DEF ApartOK
  <2> QED
    BY <1>1, <1>5, <2>1, <2>2
<1>9. ApartOK'
  BY <1>8 DEF ApartOK
<1> QED
  BY <1>5, <1>6, <1>7, <1>9 DEF MemInv

\* The bytes of the list
LEMMA BytesOfList ==
    ASSUME FreeOK
    PROVE  FreeBytes = {x \in Int : InList(free, x)}
<1>1. /\ DOMAIN free = 1 .. Len(free)
      /\ \A i \in 1 .. Len(free) : free[i].at \in Int /\ free[i].mlength \in Int
  BY ListFacts
<1>2. \A i \in 1 .. Len(free) : \A x :
        x \in free[i].at .. Above(free[i]) - 1 <=> x \in Int /\ InBlock(free[i], x)
  BY <1>1 DEF InBlock, Above
<1>3. \A x : x \in FreeBytes <=> \E i \in 1 .. Len(free) : x \in free[i].at .. Above(free[i]) - 1
  BY <1>1 DEF FreeBytes, ToSet
<1> QED
  BY <1>2, <1>3, Zenon DEF InList

\* Nothing that is free, not of the heap or of no size is taken.
LEMMA MistakeRefused ==
    ASSUME FreeOK, NEW addr \in Int, NEW n \in {0, 2 * Unit}, n = 0 => addr = minheap,
           Mistake(addr, n)
    PROVE  Refused(addr, n)
<1>1. CASE n = 0 \/ addr \notin minheap .. maxheap
  BY <1>1, HeapFacts DEF Refused
<1>2. CASE n = 2 * Unit /\ addr \in minheap .. maxheap
  <2>1. PICK w \in Nat, big \in Nat : w = Word /\ big = maxheap
    BY HeapFacts
  <2>2. addr >= 0 /\ addr <= big /\ big + 16 <= w
    BY <1>2, <2>1, HeapFacts
  <2>3. Roundmb(n) = 16
    <3>1. 16 \in 0 .. Word - 1 /\ Small(16) /\ 16 % Unit = 0
      BY <2>1, HeapFacts DEF Small, Unit
    <3> QED
      BY <1>2, <3>1, Rounding DEF Unit
  <2>4. PICK x \in Int : addr <= x /\ x < addr + 16 /\ InList(free, x)
    <3>1. (addr .. addr + Roundmb(n) - 1) \cap FreeBytes # {}
      BY <1>2 DEF Mistake, Unit
    <3> QED
      BY <2>3, <3>1, BytesOfList
  <2> DEFINE i == Passed(addr)
             len == Len(free)
  <2>5. /\ len \in Nat /\ i \in 0 .. len
        /\ \A k \in 1 .. len : free[k].at < addr <=> k <= i
        /\ \A k \in 1 .. len : /\ free[k].at \in Int /\ free[k].mlength \in Int
                               /\ 8 <= free[k].mlength /\ free[k].at + free[k].mlength <= maxheap
        /\ \A k, l \in 1 .. len : k < l => free[k].at + free[k].mlength < free[l].at
    BY WalkedPast, ListFacts
  <2> HIDE DEF i
  <2>6. PICK j \in 1 .. len : free[j].at <= x /\ x < free[j].at + free[j].mlength
    BY <2>4 DEF InList, InBlock, Above
  <2>7. CASE j <= i
    <3>1. free[j].at < addr
      BY <2>5, <2>7
    <3>2. j = i
      <4>1. SUFFICES ASSUME j < i PROVE FALSE
        BY <2>5, <2>7
      <4>2. i \in 1 .. len /\ free[i].at < addr
        BY <2>5, <4>1
      <4>3. free[j].at + free[j].mlength < free[i].at
        BY <2>5, <4>1, <4>2
      <4> QED
        BY <2>4, <2>5, <2>6, <4>2, <4>3, SMTT(20)
    <3>3. addr < Above(free[i])
      BY <2>4, <2>5, <2>6, <3>2 DEF Above
    <3> QED
      BY <2>5, <3>2, <3>3 DEF Refused, Overlaps, i
  <2>8. CASE j > i
    <3> DEFINE k == i + 1
    <3>1. k \in 1 .. len /\ k <= j /\ i < len
      BY <2>5, <2>8
    <3>2. free[k].at <= free[j].at
      <4>1. CASE k = j
        BY <2>5, <4>1
      <4>2. CASE k < j
        <5> HIDE DEF k
        <5>1. free[k].at + free[k].mlength < free[j].at
          BY <2>5, <3>1, <4>2
        <5> QED
          BY <2>5, <3>1, <5>1, SMTT(20)
      <4> HIDE DEF k
      <4> QED
        BY <2>5, <3>1, <4>1, <4>2
    <3>3. (addr + 16) % Word = addr + 16
      <4>1. x < big
        BY <2>1, <2>5, <2>6
      <4>2. PICK m \in Nat : m = addr + 16
        BY <2>2
      <4>3. addr < big
        BY <2>4, <4>1
      <4>4. m < w
        BY <2>2, <4>2, <4>3
      <4>5. m % w = m
        BY <4>4
      <4> QED
        BY <2>1, <4>2, <4>5
    <3>4. addr + 16 > free[k].at
      <4> HIDE DEF k
      <4> QED
        BY <2>4, <2>5, <2>6, <3>1, <3>2
    <3>5. (addr + Roundmb(n)) % Word > free[i + 1].at
      BY <2>3, <3>3, <3>4
    <3> QED
      BY <3>1, <3>5 DEF Refused, Overlaps, i
  <2> QED
    BY <2>5, <2>7, <2>8
<1> QED
  BY <1>1, <1>2

LEMMA MistakeSteps ==
    ASSUME FreeOK, NEW addr \in Int, NEW n \in {0, 2 * Unit}, n = 0 => addr = minheap,
           Mistake(addr, n)
    PROVE  FreememRefused(addr, n) /\ UNCHANGED <<free, mlength, lent>>
<1>1. Refused(addr, n)
  BY MistakeRefused
<1> QED
  BY <1>1 DEF Mistake, Freemem, FreememRefused

LEMMA NextCases ==
    ASSUME FreeOK, MemNext
    PROVE  \/ \E n \in Requests : Getmem(n) \/ Getstk(n)
           \/ \E n \in Requests, call \in {"getmem", "getstk"} : NoMemory(call, n)
           \/ \E h \in lent : GiveBack(h)
           \/ \E addr \in Int, n \in {0, 2 * Unit} :
                (n = 0 => addr = minheap) /\ Mistake(addr, n) /\ UNCHANGED <<free, mlength, lent>>
<1>1. ASSUME NEW addr \in Addresses, Mistake(addr, 2 * Unit)
      PROVE  \E a \in Int, n \in {0, 2 * Unit} :
               (n = 0 => a = minheap) /\ Mistake(a, n) /\ UNCHANGED <<free, mlength, lent>>
  <2>1. addr \in Int /\ 2 * Unit # 0
    BY DEF Addresses, Unit
  <2> QED
    BY <1>1, <2>1, MistakeSteps
<1>2. ASSUME Mistake(minheap, 0)
      PROVE  \E a \in Int, n \in {0, 2 * Unit} :
               (n = 0 => a = minheap) /\ Mistake(a, n) /\ UNCHANGED <<free, mlength, lent>>
  <2>1. minheap \in Int
    BY HeapFacts
  <2> QED
    BY <1>2, <2>1, MistakeSteps
<1> QED
  BY <1>1, <1>2 DEF MemNext

LEMMA StepOK == MemInv /\ [MemNext]_memVars => MemInv'
<1> SUFFICES ASSUME MemInv, [MemNext]_memVars PROVE MemInv'
  OBVIOUS
<1>1. FreeOK
  BY DEF MemInv
<1>2. ASSUME UNCHANGED <<free, mlength, lent>> PROVE MemInv'
  BY <1>2 DEF MemInv, FreeOK, LentOK, ApartOK
<1>3. ASSUME NEW n \in Requests, Getmem(n) PROVE MemInv'
  BY <1>1, <1>3, GetmemTakes, TookOK
<1>4. ASSUME NEW n \in Requests, Getstk(n) PROVE MemInv'
  <2> DEFINE k == Max(Fitting(Roundmb(n)))
             base == free[k].at + free[k].mlength - Roundmb(n)
             value == base + Roundmb(n) - Top
  <2>1. base \in Int /\ value \in Int /\ Took("getstk", n, base, value)
    BY <1>1, <1>4, GetstkTakes
  <2> HIDE DEF base, value
  <2> QED
    BY <2>1, TookOK
<1>5. ASSUME NEW n \in Requests, NEW call \in {"getmem", "getstk"}, NoMemory(call, n) PROVE MemInv'
  BY <1>2, <1>5 DEF NoMemory
<1>6. ASSUME NEW h \in lent, GiveBack(h) PROVE MemInv'
  BY <1>6, GiveBackOK
<1>7. CASE MemNext
  BY <1>1, <1>2, <1>3, <1>4, <1>5, <1>6, <1>7, NextCases
<1>8. CASE UNCHANGED memVars
  BY <1>2, <1>8 DEF memVars
<1> QED
  BY <1>7, <1>8

\* The heap's invariant, on which the theorems below rest: the list is in order, and a byte
\* is free or one caller's.
THEOREM MemoryInvariance == MemSpec => []MemInv
<1>1. MemInit => MemInv
  BY InitOK
<1>2. MemInv /\ [MemNext]_memVars => MemInv'
  BY StepOK
<1> QED
  BY <1>1, <1>2, PTL DEF MemSpec

\* getmem.c:30, getstk.c:49 and freemem.c:49-67 keep memlist in the order of its addresses,
\* its blocks apart, aligned and inside the heap, and memlist.mlength equal to their sum.
THEOREM FreeListSound == MemSpec => []FreeListOK
<1>1. MemInv => FreeListOK
  <2> SUFFICES ASSUME MemInv PROVE FreeListOK
    OBVIOUS
  <2>1. FreeOK /\ DOMAIN free = 1 .. Len(free)
    BY ListFacts DEF MemInv
  <2>2. mlength = SumFunction([i \in DOMAIN free |-> free[i].mlength])
    BY <2>1 DEF FreeOK, Total, Sizes, SumFunction
  <2> QED
    BY <2>1, <2>2 DEF FreeOK, ListOK, Fits, InOrder, FreeListOK
<1> QED
  BY <1>1, MemoryInvariance, PTL

\* No two callers hold a byte in common, and nobody holds one that is free.
LentOnce ==
    \A h, k \in lent :
        /\ Theirs(h) \cap FreeBytes = {}
        /\ h # k => Theirs(h) \cap Theirs(k) = {}

\* Whatever somebody holds can be given back: freemem() refuses none of it (freemem.c:23,39).
HeldReturns ==
    \A h \in lent : Roundmb(h.n) # 0 => ~Refused(First(h), Roundmb(h.n))

\* freemem() refuses nothing that getmem() or getstk() lent (freemem.c:23,39).
THEOREM FreememTakesBack == MemSpec => []HeldReturns
<1>1. MemInv => HeldReturns
  BY HeldFacts DEF HeldReturns
<1> QED
  BY <1>1, MemoryInvariance, PTL

\* Unless a size is rounded to nothing (getmem.c:22), no byte is lent to two callers at a
\* time, and none that is lent is free.
THEOREM BytesLentOnce == (\A n \in Requests : Small(n)) => (MemSpec => []LentOnce)
<1>1. SUFFICES ASSUME \A n \in Requests : Small(n) PROVE MemSpec => []LentOnce
  OBVIOUS
<1>2. ASSUME MemInv PROVE LentOnce
  <2>1. ASSUME NEW h \in lent, NEW x \in Theirs(h) PROVE x \in Int /\ Holds(h, x)
    <3>1. h.n \in 0 .. Word - 1 /\ Small(h.n) /\ h.at \in Int
      BY <1>1, <1>2, HeapFacts DEF MemInv, LentOK, HeldOK
    <3>2. Roundmb(h.n) \in Nat /\ h.n <= Roundmb(h.n)
      BY <3>1, Rounding
    <3>3. h.n \in Nat
      BY <3>1, HeapFacts
    <3> QED
      BY <2>1, <3>1, <3>2, <3>3 DEF Theirs, Holds, First, Top
  <2>2. FreeBytes = {x \in Int : InList(free, x)}
    BY <1>2, BytesOfList DEF MemInv
  <2> QED
    BY <1>2, <2>1, <2>2 DEF LentOnce, MemInv, ApartOK
<1>3. MemInv => LentOnce
  BY <1>2
<1> QED
  BY <1>3, MemoryInvariance, PTL

-----------------------------------------------------------------------------
(* The implementation of the promise.                                       *)

\* Both round alike what is not within seven of the largest number.
LEMMA SameSize ==
    ASSUME NEW n \in 0 .. Word - 1, Small(n)
    PROVE  Promise!Size(n) = Roundmb(n) /\ Roundmb(n) \in Nat /\ (n # 0 => 8 <= Roundmb(n))
<1>1. n \in Nat /\ Unit = 8
  BY HeapFacts DEF Unit
<1>2. Promise!Size(n) = ((n + 7) \div Unit) * Unit
  <2>1. n + Unit - 1 = n + 7
    BY <1>1
  <2> QED
    BY <2>1 DEF Promise!Size
<1>3. Roundmb(n) \in Nat /\ Roundmb(n) = ((n + 7) \div Unit) * Unit /\ n <= Roundmb(n)
  BY Rounding
<1> QED
  BY <1>1, <1>2, <1>3, Rounding

\* A run of free bytes lies in one block, for blocks do not touch.
LEMMA RunsInBlocks ==
    ASSUME FreeOK, NEW n \in 0 .. Word - 1, Small(n), n # 0, NEW base
    PROVE  base \in Promise!Runs(n)
             <=> base \in Int /\ \E i \in 1 .. Len(free) : /\ free[i].at <= base
                                           /\ base + Roundmb(n) <= free[i].at + free[i].mlength
<1> DEFINE z == Roundmb(n)
           len == Len(free)
<1>1. Promise!Size(n) = z /\ z \in Nat /\ 8 <= z
  BY SameSize
<1>2. /\ len \in Nat
      /\ \A k \in 1 .. len : free[k].at \in Int /\ free[k].mlength \in Int /\ 8 <= free[k].mlength
      /\ \A k, l \in 1 .. len : k < l => free[k].at + free[k].mlength < free[l].at
  BY ListFacts
<1>3. FreeBytes = {x \in Int : InList(free, x)}
  BY BytesOfList
<1>4. \A x \in Int : InList(free, x) <=> \E i \in 1 .. len : free[i].at <= x /\ x < free[i].at + free[i].mlength
  BY DEF InList, InBlock, Above
<1>5. base \in Promise!Runs(n)
        <=> base \in FreeBytes /\ base .. base + z - 1 \subseteq FreeBytes
  BY <1>1 DEF Promise!Runs, Promise!Bytes
<1> HIDE DEF z
<1>6. ASSUME base \in Promise!Runs(n)
      PROVE  base \in Int /\ \E i \in 1 .. len : /\ free[i].at <= base
                                 /\ base + z <= free[i].at + free[i].mlength
  <2>1. base \in Int /\ InList(free, base)
    BY <1>3, <1>5, <1>6
  <2>2. PICK i \in 1 .. len : free[i].at <= base /\ base < free[i].at + free[i].mlength
    BY <1>4, <2>1
  <2>3. SUFFICES ASSUME free[i].at + free[i].mlength < base + z PROVE FALSE
    BY <1>1, <1>2, <2>1, <2>2
  <2> DEFINE x == free[i].at + free[i].mlength
  <2>4. x \in Int /\ x \in base .. base + z - 1
    BY <1>1, <1>2, <2>1, <2>2, <2>3
  <2>5. InList(free, x)
    BY <1>3, <1>5, <1>6, <2>4
  <2>6. PICK j \in 1 .. len : free[j].at <= x /\ x < free[j].at + free[j].mlength
    BY <1>4, <2>4, <2>5
  <2>7. ~(i < j)
    BY <1>2, <2>4, <2>6
  <2>8. j # i
    BY <2>4, <2>6
  <2>9. ~(j < i)
    <3>1. SUFFICES ASSUME j < i PROVE FALSE
      OBVIOUS
    <3>2. free[j].at + free[j].mlength < free[i].at
      BY <1>2, <3>1
    <3>3. free[i].at <= x
      BY <1>2
    <3> HIDE DEF x
    <3> QED
      BY <1>2, <2>4, <2>6, <3>2, <3>3
  <2> QED
    BY <1>2, <2>7, <2>8, <2>9
<1>7. ASSUME base \in Int, NEW i \in 1 .. len, free[i].at <= base,
             base + z <= free[i].at + free[i].mlength
      PROVE  base \in Promise!Runs(n)
  <2>1. ASSUME NEW x \in Int, base <= x, x < base + z PROVE x \in FreeBytes
    <3>1. free[i].at <= x /\ x < free[i].at + free[i].mlength
      BY <1>1, <1>2, <1>7, <2>1
    <3>2. InList(free, x)
      BY <1>4, <3>1
    <3> QED
      BY <1>3, <3>2
  <2>2. base < base + z
    BY <1>1, <1>7
  <2>3. \A x \in base .. base + z - 1 : x \in Int /\ base <= x /\ x < base + z
    BY <1>1, <1>7
  <2> QED
    BY <1>5, <1>7, <2>1, <2>2, <2>3
<1> QED
  BY <1>6, <1>7 DEF z

\* The lowest run starts the first block that fits; the highest ends the last one.
LEMMA RunEnds ==
    ASSUME FreeOK, NEW n \in 0 .. Word - 1, Small(n), n # 0
    PROVE  /\ Promise!Runs(n) = {} <=> Fitting(Roundmb(n)) = {}
           /\ Fitting(Roundmb(n)) # {} =>
                LET k == Max(Fitting(Roundmb(n)))
                IN  /\ Promise!Min(Promise!Runs(n)) = free[Min(Fitting(Roundmb(n)))].at
                    /\ Promise!Max(Promise!Runs(n)) = free[k].at + free[k].mlength - Roundmb(n)
<1> DEFINE z == Roundmb(n)
           len == Len(free)
           R == Promise!Runs(n)
           F == Fitting(z)
           i == Min(F)
           k == Max(F)
           top == free[k].at + free[k].mlength - z
<1>1. z \in Nat /\ 8 <= z
  BY SameSize
<1>2. /\ len \in Nat /\ DOMAIN free = 1 .. len
      /\ \A j \in 1 .. len : free[j].at \in Int /\ free[j].mlength \in Int /\ 8 <= free[j].mlength
      /\ \A j, l \in 1 .. len : j < l => free[j].at + free[j].mlength < free[l].at
  BY ListFacts
<1>3. \A b : b \in R <=> b \in Int /\ \E j \in 1 .. len : /\ free[j].at <= b
                                         /\ b + z <= free[j].at + free[j].mlength
  BY RunsInBlocks
<1>4. \A j : j \in F <=> j \in 1 .. len /\ z <= free[j].mlength
  BY <1>1, <1>2 DEF Fitting
<1>5. F # {} => /\ i \in F /\ k \in F
                /\ \A j \in F : i <= j /\ j <= k
  <2> HIDE DEF z
  <2> QED
    BY <1>1, FirstAndLast
<1> HIDE DEF z, R, F, i, k
<1>6. ASSUME NEW j \in F PROVE free[j].at \in R /\ free[j].at + free[j].mlength - z \in R
  <2>1. j \in 1 .. len /\ z <= free[j].mlength /\ free[j].at \in Int /\ free[j].mlength \in Int
    BY <1>2, <1>4
  <2> DEFINE a == free[j].at
             m == free[j].mlength
             b == a + m - z
  <2>2. a \in Int /\ a + z <= a + m /\ b \in Int /\ a <= b /\ b + z <= a + m
    BY <1>1, <2>1
  <2> HIDE DEF a, m, b
  <2>3. a \in R /\ b \in R
    BY <1>3, <2>1, <2>2 DEF a, m
  <2> QED
    BY <2>3 DEF a, m, b
<1>7. ASSUME NEW b \in R
      PROVE  \E j \in F : b \in Int /\ free[j].at <= b /\ b + z <= free[j].at + free[j].mlength
  <2>1. PICK j \in 1 .. len : b \in Int /\ free[j].at <= b /\ b + z <= free[j].at + free[j].mlength
    BY <1>3
  <2>2. z <= free[j].mlength
    BY <1>1, <1>2, <2>1
  <2> QED
    BY <1>4, <2>1, <2>2
<1>8. R = {} <=> F = {}
  BY <1>6, <1>7
<1>9. ASSUME F # {} PROVE Promise!Min(R) = free[i].at /\ Promise!Max(R) = top
  <2>1. /\ i \in F /\ k \in F /\ i \in 1 .. len /\ k \in 1 .. len
        /\ \A j \in F : i <= j /\ j <= k /\ j \in 1 .. len
    BY <1>4, <1>5, <1>9
  <2>2. free[i].at \in R /\ top \in R
    BY <1>6, <2>1
  <2>3. \A j \in F : free[i].at <= free[j].at /\ free[j].at + free[j].mlength <= free[k].at + free[k].mlength
    <3>1. ASSUME NEW j \in F
          PROVE free[i].at <= free[j].at /\ free[j].at + free[j].mlength <= free[k].at + free[k].mlength
      <4>1. j \in 1 .. len /\ i <= j /\ j <= k
        BY <2>1
      <4>2. i < j => free[i].at <= free[j].at
        BY <1>2, <2>1, <4>1, SMTT(20)
      <4>3. j < k => free[j].at + free[j].mlength <= free[k].at + free[k].mlength
        BY <1>2, <2>1, <4>1
      <4>4. i = j \/ i < j
        BY <2>1, <4>1
      <4>5. j = k \/ j < k
        BY <2>1, <4>1
      <4>6. free[j].at <= free[j].at /\ free[j].at + free[j].mlength <= free[j].at + free[j].mlength
        BY <1>2, <4>1
      <4> QED
        BY <4>2, <4>3, <4>4, <4>5, <4>6
    <3> QED
      BY <3>1
  <2>4. top \in Int /\ free[i].at \in Int
    BY <1>1, <1>2, <2>1
  <2>5. \A b \in R : b \in Int /\ free[i].at <= b /\ b <= top
    <3>1. ASSUME NEW b \in R PROVE b \in Int /\ free[i].at <= b /\ b <= top
      <4>1. PICK j \in F : b \in Int /\ free[j].at <= b /\ b + z <= free[j].at + free[j].mlength
        BY <1>7
      <4> DEFINE e == free[j].at + free[j].mlength
                 ek == free[k].at + free[k].mlength
      <4>2. j \in 1 .. len /\ e \in Int /\ ek \in Int /\ free[j].at \in Int /\ e <= ek
        BY <1>2, <2>1, <2>3
      <4>3. free[i].at <= free[j].at
        BY <2>3
      <4>7. b + z <= e
        BY <4>1
      <4>8. top = ek - z
        <5>1. free[k].at \in Int /\ free[k].mlength \in Int
          BY <1>2, <2>1
        <5> QED
          BY <1>1, <5>1
      <4> HIDE DEF e, ek
      <4>4. b + z <= e /\ top = ek - z
        BY <4>7, <4>8
      <4>5. b <= top
        BY <1>1, <4>1, <4>2, <4>4
      <4>6. free[i].at <= b
        BY <2>4, <4>1, <4>2, <4>3
      <4> QED
        BY <4>1, <4>5, <4>6
    <3> QED
      BY <3>1
  <2> HIDE DEF top
  <2>6. \A a \in Int, b \in Int : a <= b /\ b <= a => a = b
    OBVIOUS
  <2>7. \A b \in R : b \in Int /\ free[i].at <= b /\ top >= b
    BY <2>4, <2>5
  <2>8. Promise!Min(R) \in R /\ \A b \in R : Promise!Min(R) <= b
    BY <2>2, <2>7, Zenon DEF Promise!Min
  <2>9. Promise!Max(R) \in R /\ \A b \in R : Promise!Max(R) >= b
    BY <2>2, <2>7, Zenon DEF Promise!Max
  <2>10. Promise!Min(R) <= free[i].at /\ free[i].at <= Promise!Min(R) /\ Promise!Min(R) \in Int
    BY <2>2, <2>7, <2>8
  <2>11. Promise!Max(R) >= top /\ top >= Promise!Max(R) /\ Promise!Max(R) \in Int
    BY <2>2, <2>7, <2>9
  <2> QED
    BY <2>4, <2>6, <2>10, <2>11
<1> QED
  BY <1>8, <1>9 DEF R, F, i, k, z

LEMMA FreeBytesNext ==
    ASSUME MemInv, MemInv'
    PROVE  /\ FreeBytes = {x \in Int : InList(free, x)}
           /\ FreeBytes' = {x \in Int : InList(free', x)}
<1> DEFINE BytesIn(s) == UNION {b.at .. Above(b) - 1 : b \in ToSet(s)}
<1>1. ASSUME NEW s \in Seq(Block) PROVE BytesIn(s) = {x \in Int : InList(s, x)}
  <2>1. /\ DOMAIN s = 1 .. Len(s)
        /\ \A i \in 1 .. Len(s) : s[i].at \in Int /\ s[i].mlength \in Int
    BY BlockFields
  <2>2. \A i \in 1 .. Len(s) : \A x :
          x \in s[i].at .. Above(s[i]) - 1 <=> x \in Int /\ InBlock(s[i], x)
    BY <2>1 DEF InBlock, Above
  <2>3. \A x : x \in BytesIn(s) <=> \E i \in 1 .. Len(s) : x \in s[i].at .. Above(s[i]) - 1
    BY <2>1 DEF ToSet
  <2> QED
    BY <2>2, <2>3, Zenon DEF InList
<1>2. FreeBytes = BytesIn(free) /\ FreeBytes' = BytesIn(free')
  BY DEF FreeBytes, ToSet, Above
<1>3. free \in Seq(Block) /\ free' \in Seq(Block)
  BY DEF MemInv, FreeOK
<1> HIDE DEF BytesIn
<1> QED
  BY <1>1, <1>2, <1>3

LEMMA LendsAsPromised ==
    ASSUME MemInv, MemInv', NEW n \in Requests, Small(n), n # 0, NEW call, NEW base \in Int,
           NEW value, Took(call, n, base, value)
    PROVE  /\ FreeBytes' = FreeBytes \ Promise!Bytes(base, n)
           /\ lent' = lent \cup {[at |-> value, n |-> n, by |-> call]}
<1>1. n \in 0 .. Word - 1
  BY HeapFacts
<1>2. Promise!Size(n) = Roundmb(n) /\ Roundmb(n) \in Nat
  BY <1>1, SameSize
<1>3. \A x \in Int : InList(free', x) <=> InList(free, x) /\ ~(base <= x /\ x < base + Roundmb(n))
  BY DEF Took, Without
<1>4. \A x : x \in Promise!Bytes(base, n) <=> x \in Int /\ base <= x /\ x < base + Roundmb(n)
  BY <1>2 DEF Promise!Bytes
<1>5. FreeBytes = {x \in Int : InList(free, x)} /\ FreeBytes' = {x \in Int : InList(free', x)}
  BY FreeBytesNext
<1>6. FreeBytes' = FreeBytes \ Promise!Bytes(base, n)
  BY <1>3, <1>4, <1>5
<1> QED
  BY <1>6 DEF Took

LEMMA GetmemPromised ==
    ASSUME MemInv, MemInv', NEW n \in Requests, Small(n), Getmem(n)
    PROVE  Promise!Getmem(n) /\ memlast'.n = n
<1> DEFINE i == Min(Fitting(Roundmb(n)))
           base == free[i].at
<1>1. n \in 0 .. Word - 1 /\ n # 0 /\ FreeOK /\ Fitting(Roundmb(n)) # {}
  BY HeapFacts DEF Getmem, MemInv
<1>2. base \in Int /\ Took("getmem", n, base, base)
  BY <1>1, GetmemTakes
<1>3. memlast' = [call |-> "getmem", at |-> 0, n |-> n, value |-> base]
  BY DEF Getmem, Lend
<1>4. Promise!Runs(n) # {} /\ Promise!Min(Promise!Runs(n)) = base
  BY <1>1, RunEnds
<1> HIDE DEF base
<1>5. /\ FreeBytes' = FreeBytes \ Promise!Bytes(base, n)
      /\ lent' = lent \cup {[at |-> base, n |-> n, by |-> "getmem"]}
  BY <1>1, <1>2, LendsAsPromised
<1>6. n > 0
  BY <1>1, HeapFacts
<1> QED
  BY <1>3, <1>4, <1>5, <1>6 DEF Promise!Getmem, Promise!Lend

LEMMA GetstkPromised ==
    ASSUME MemInv, MemInv', NEW n \in Requests, Small(n), Getstk(n)
    PROVE  Promise!Getstk(n) /\ memlast'.n = n
<1> DEFINE k == Max(Fitting(Roundmb(n)))
           base == free[k].at + free[k].mlength - Roundmb(n)
           value == base + Roundmb(n) - Top
<1>1. n \in 0 .. Word - 1 /\ n # 0 /\ FreeOK /\ Fitting(Roundmb(n)) # {}
  BY HeapFacts DEF Getstk, MemInv
<1>2. base \in Int /\ Took("getstk", n, base, value) /\ value = free[k].at + free[k].mlength - Top
  BY <1>1, GetstkTakes
<1>3. memlast' = [call |-> "getstk", at |-> 0, n |-> n, value |-> value]
  <2>1. memlast' = [call |-> "getstk", at |-> 0, n |-> n, value |-> free[k].at + free[k].mlength - Top]
    BY DEF Getstk, Lend
  <2> HIDE DEF value, k
  <2> QED
    BY <1>2, <2>1
<1>4. Promise!Runs(n) # {} /\ Promise!Max(Promise!Runs(n)) = base
  BY <1>1, RunEnds
<1>7. value = base + Promise!Size(n) - Top
  BY <1>1, SameSize
<1> HIDE DEF base, value
<1>5. /\ FreeBytes' = FreeBytes \ Promise!Bytes(base, n)
      /\ lent' = lent \cup {[at |-> value, n |-> n, by |-> "getstk"]}
  BY <1>1, <1>2, LendsAsPromised
<1>6. n > 0
  BY <1>1, HeapFacts
<1> QED
  BY <1>3, <1>4, <1>5, <1>6, <1>7 DEF Promise!Getstk, Promise!Lend

LEMMA NoMemoryPromised ==
    ASSUME MemInv, NEW n \in Requests, Small(n), NEW call \in {"getmem", "getstk"},
           NoMemory(call, n)
    PROVE  Promise!NoMemory(call, n) /\ memlast'.n = n
<1>1. n \in 0 .. Word - 1 /\ FreeOK
  BY HeapFacts DEF MemInv
<1>2. /\ n = 0 \/ Fitting(Roundmb(n)) = {}
      /\ memlast' = [call |-> call, at |-> 0, n |-> n, value |-> MEM_SYSERR]
      /\ UNCHANGED <<free, mlength, lent>>
  BY DEF NoMemory
<1>3. n = 0 \/ Promise!Runs(n) = {}
  BY <1>1, <1>2, RunEnds
<1>4. FreeBytes' = FreeBytes
  BY <1>2 DEF FreeBytes
<1> QED
  BY <1>2, <1>3, <1>4 DEF Promise!NoMemory

LEMMA GiveBackPromised ==
    ASSUME MemInv, MemInv', NEW h \in lent, GiveBack(h)
    PROVE  Promise!GiveBack(h)
<1>1. /\ Roundmb(h.n) # 0 /\ lent' = lent \ {h}
      /\ memlast' = [call |-> "freemem", at |-> First(h), value |-> MEM_OK,
                     n |-> IF h.by = "getstk" THEN Roundmb(h.n) ELSE h.n]
  BY GivenBack
<1>2. /\ h.n \in 0 .. Word - 1 /\ Small(h.n) /\ First(h) \in Int /\ Roundmb(h.n) \in Nat
  BY <1>1, HeldFacts
<1>3. Promise!Size(h.n) = Roundmb(h.n)
  BY <1>2, SameSize
<1>4. Promise!Base(h) = First(h)
  BY <1>3 DEF Promise!Base, First
<1>5. \A x : x \in Promise!Bytes(First(h), h.n) <=> x \in Int /\ Holds(h, x)
  BY <1>2, <1>3 DEF Promise!Bytes, Holds
<1>6. FreeBytes = {x \in Int : InList(free, x)} /\ FreeBytes' = {x \in Int : InList(free', x)}
  BY FreeBytesNext
<1>7. \A x \in Int : InList(free', x) <=> InList(free, x) \/ Holds(h, x)
  BY GiveBackOK
<1>8. FreeBytes' = FreeBytes \cup Promise!Bytes(First(h), h.n)
  BY <1>5, <1>6, <1>7
<1> QED
  BY <1>1, <1>3, <1>4, <1>8 DEF Promise!GiveBack

LEMMA MistakePromised ==
    ASSUME MemInv, NEW addr \in Int, NEW n \in {0, 2 * Unit}, n = 0 => addr = minheap,
           Mistake(addr, n)
    PROVE  Promise!Refuse(addr, n) /\ memlast'.n = n /\ memlast'.at = addr
<1>1. /\ UNCHANGED <<free, mlength, lent>>
      /\ memlast' = [call |-> "freemem", at |-> addr, n |-> n, value |-> MEM_SYSERR]
  BY MistakeSteps DEF FreememRefused, MemInv
<1>2. FreeBytes' = FreeBytes
  BY <1>1 DEF FreeBytes
<1>3. CASE n = 0 \/ addr \notin minheap .. maxheap
  BY <1>1, <1>2, <1>3 DEF Promise!Refuse
<1>4. CASE n = 2 * Unit
  <2>1. n \in 0 .. Word - 1 /\ Small(n)
    BY <1>4, HeapFacts DEF Small, Unit
  <2>2. Promise!Size(n) = Roundmb(n)
    BY <2>1, SameSize
  <2>3. \/ n = 0 \/ addr \notin minheap .. maxheap
        \/ (addr .. addr + Roundmb(n) - 1) \cap FreeBytes # {}
    BY DEF Mistake
  <2> QED
    BY <1>1, <1>2, <2>2, <2>3 DEF Promise!Refuse, Promise!Bytes
<1> QED
  BY <1>3, <1>4

LEMMA InitPromised == MemInit => Promise!Init
<1> SUFFICES ASSUME MemInit PROVE Promise!Init
  OBVIOUS
<1>1. MemInv
  BY InitOK
<1>2. FreeBytes = {x \in Int : InList(free, x)}
  BY <1>1, BytesOfList DEF MemInv
<1> DEFINE b == [at |-> minheap, mlength |-> maxheap - minheap]
<1>3. \A x \in Int : InList(free, x) <=> InBlock(b, x)
  BY DEF MemInit, InList
<1>4. \A x \in Int : InBlock(b, x) <=> minheap <= x /\ x < maxheap
  <2>1. PICK lo \in Nat, hi \in Nat : lo = minheap /\ hi = maxheap
    BY HeapFacts
  <2>2. Above(b) = maxheap /\ b.at = minheap
    BY <2>1 DEF Above
  <2> QED
    BY <2>2 DEF InBlock
<1>5. FreeBytes = minheap .. maxheap - 1
  <2> HIDE DEF b
  <2>1. \A x : x \in minheap .. maxheap - 1 <=> x \in Int /\ minheap <= x /\ x < maxheap
    BY HeapFacts
  <2> QED
    BY <1>2, <1>3, <1>4, <2>1
<1> QED
  BY <1>5 DEF MemInit, Promise!Init, Promise!NoCallYet

LEMMA StepPromised ==
    ASSUME \A n \in Requests : Small(n), MemInv, MemInv', [MemNext]_memVars
    PROVE  [Promise!Next]_Promise!vars
<1>1. ASSUME NEW n \in Requests, Getmem(n) \/ Getstk(n) PROVE Promise!Next
  <2>1. Small(n) /\ memlast'.n = n /\ (Promise!Getmem(n) \/ Promise!Getstk(n))
    BY <1>1, GetmemPromised, GetstkPromised
  <2> QED
    BY <2>1, Zenon DEF Promise!Next
<1>2. ASSUME NEW n \in Requests, NEW call \in {"getmem", "getstk"}, NoMemory(call, n)
      PROVE  Promise!Next
  <2>1. memlast'.n = n /\ Promise!NoMemory(call, n)
    BY <1>2, NoMemoryPromised
  <2> QED
    BY <2>1, Zenon DEF Promise!Next
<1>3. ASSUME NEW h \in lent, GiveBack(h) PROVE Promise!Next
  BY <1>3, GiveBackPromised DEF Promise!Next
<1>4. ASSUME NEW addr \in Int, NEW n \in {0, 2 * Unit}, n = 0 => addr = minheap,
             Mistake(addr, n)
      PROVE  Promise!Next
  <2>1. memlast'.at = addr /\ memlast'.n = n /\ Promise!Refuse(addr, n)
    BY <1>4, MistakePromised
  <2> QED
    BY <2>1, Zenon DEF Promise!Next
<1>5. CASE MemNext
  <2>1. FreeOK
    BY DEF MemInv
  <2> QED
    BY <1>1, <1>2, <1>3, <1>4, <1>5, <2>1, NextCases
<1>6. CASE UNCHANGED memVars
  <2>1. FreeBytes' = FreeBytes
    BY <1>6 DEF memVars, FreeBytes
  <2> QED
    BY <1>6, <2>1 DEF memVars, Promise!vars
<1> QED
  BY <1>5, <1>6

\* The first fit of getmem() is the lowest run of free bytes that is long enough, the last
\* fit of getstk() the highest, they fail only when there is none, and freemem() makes
\* available what was lent and nothing else (getmem.c:22-48, getstk.c:27-56, freemem.c:23-67).
THEOREM HeapImplemented == (\A n \in Requests : Small(n)) => (MemSpec => HeapPromise)
<1>1. SUFFICES ASSUME \A n \in Requests : Small(n) PROVE MemSpec => HeapPromise
  OBVIOUS
<1>2. MemInit => Promise!Init
  BY InitPromised
<1>3. MemInv /\ MemInv' /\ [MemNext]_memVars => [Promise!Next]_Promise!vars
  BY <1>1, StepPromised
<1> QED
  BY <1>2, <1>3, MemoryInvariance, PTL DEF MemSpec, HeapPromise, Promise!Spec

-----------------------------------------------------------------------------
(* Ports: the invariant.                                                    *)

Clearing == {"reset", "resetEnd", "delete", "deleteEnd"}
Asking == {"send", "recv"}

Call ==
    {Idle} \cup [op : {"send"}, port : PortId, seq : Nat, msg : PortUsers]
           \cup [op : {"recv"}, port : PortId, seq : Nat]
           \cup [op : Clearing, port : PortId]
PortMsg == [msg : PortUsers, epoch : Nat]

\* The invariant is a property of one entry e of the table and of the calls c about the
\* port r it belongs to.
About(call, r) == call.op # "idle" /\ call.port = r
Asks(call, r, op, seq) == call.op = op /\ call.port = r /\ call.seq = seq

Pos(n) == IF n > 0 THEN n ELSE 0

\* Who is in the queue of a semaphore called it in an op about r.
SemOK(sem, c, r, op) ==
    /\ sem.count \in Int /\ sem.queue \in Seq(PortUsers)
    /\ Len(sem.queue) = Pos(-sem.count)
    /\ \A i, j \in 1 .. Len(sem.queue) : sem.queue[i] = sem.queue[j] => i = j
    /\ \A i \in 1 .. Len(sem.queue) : c[sem.queue[i]].op = op /\ c[sem.queue[i]].port = r

\* Everybody in the queue asked in the life of the port that has the number seq.
Current(sem, c, seq) == \A i \in 1 .. Len(sem.queue) : c[sem.queue[i]].seq = seq

\* Processes released from a queue in the life of the port they asked in
Out(queue, c, r, op, seq) ==
    {x \in PortUsers : Asks(c[x], r, op, seq) /\ \A i \in 1 .. Len(queue) : queue[i] # x}

\* s senders and m receivers besides have passed wait() and are not done.
Balanced(e, c, r, s, m) ==
    /\ Len(e.list) = Pos(e.rsem.count) + Cardinality(Out(e.rsem.queue, c, r, "recv", e.seq)) + m
    /\ e.maxcnt = Pos(e.ssem.count) + Len(e.list)
                    + Cardinality(Out(e.ssem.queue, c, r, "send", e.seq)) + s

AllocOK(e, c, r, s, m) ==
    /\ e.maxcnt \in PortCounts
    /\ Current(e.ssem, c, e.seq) /\ Current(e.rsem, c, e.seq)
    /\ \A i \in 1 .. Len(e.list) : e.list[i].epoch = e.seq
    /\ Balanced(e, c, r, s, m)

\* One process clears a port, and has done what comes before its step.
ClearingOK(e, c, r) ==
    \A x \in PortUsers : c[x].op \in Clearing /\ c[x].port = r =>
        /\ e.state = "limbo"
        /\ \A y \in PortUsers : c[y].op \in Clearing /\ c[y].port = r => y = x
        /\ c[x].op \in {"reset", "resetEnd"} =>
             e.list = <<>> /\ e.ssem.count = e.maxcnt /\ e.maxcnt \in PortCounts
        /\ c[x].op \in {"resetEnd", "deleteEnd"} => e.rsem.count = 0

EntryOK(e, c, r, s, m) ==
    /\ e.state \in {"free", "limbo", "alloc"}
    /\ e.seq \in Nat /\ e.maxcnt \in Nat /\ e.list \in Seq(PortMsg)
    /\ SemOK(e.ssem, c, r, "send") /\ SemOK(e.rsem, c, r, "recv")
    /\ \A x \in PortUsers : c[x].op \in Asking /\ c[x].port = r =>
         c[x].seq <= e.seq /\ (e.state # "alloc" => c[x].seq # e.seq)
    /\ e.state = "alloc" => AllocOK(e, c, r, s, m)
    /\ e.state # "alloc" => e.ssem.count >= 0
    /\ e.state = "free" => e.rsem.count >= 0
    /\ ClearingOK(e, c, r)

Entry == [state : {"free", "limbo", "alloc"}, seq : Nat, maxcnt : Nat, list : Seq(PortMsg),
          ssem : [count : Int, queue : Seq(PortUsers)], rsem : [count : Int, queue : Seq(PortUsers)]]

PortType ==
    /\ porttab \in [PortId -> Entry]
    /\ ptnodes \in Nat /\ ptnextid \in PortId
    /\ ptcall \in [PortUsers -> Call]
    /\ ptpanic = FALSE

EntriesOK == \A q \in PortId : EntryOK(porttab[q], ptcall, q, 0, 0)

\* Every node is free or in one port.
InPorts(t) == [q \in PortId |-> Kept(t[q])]
NodesOK == ptnodes + SumFunctionOnSet(InPorts(porttab), PortId) = PtMsgs

PortInv == PortType /\ EntriesOK /\ NodesOK

-----------------------------------------------------------------------------
(* Semaphores.                                                              *)

\* The calls of all processes but p are the same.
Others(c, d, p) == \A x \in PortUsers : x # p => d[x] = c[x]

OutOf(sem, p) == \A i \in 1 .. Len(sem.queue) : sem.queue[i] # p

LEMMA Sizes0 ==
    /\ IsFiniteSet(PortUsers) /\ NPORTS \in Nat \ {0} /\ PtMsgs \in Nat
    /\ IsFiniteSet(PortId)
    /\ \A q \in PortId : q \in Int
    /\ PortCounts \subseteq Nat
  BY PortsFit, FS_Interval DEF PortsFit, PortId

LEMMA OutFinite ==
    ASSUME NEW queue, NEW c, NEW r, NEW op, NEW seq
    PROVE  /\ IsFiniteSet(Out(queue, c, r, op, seq))
           /\ Cardinality(Out(queue, c, r, op, seq)) \in Nat
<1>1. Out(queue, c, r, op, seq) \in SUBSET PortUsers
  BY DEF Out
<1>2. IsFiniteSet(Out(queue, c, r, op, seq))
  BY <1>1, Sizes0, FS_Subset
<1> QED
  BY <1>2, FS_CardinalityType

LEMMA QueueFacts ==
    ASSUME NEW sem, NEW c, NEW r, NEW op, SemOK(sem, c, r, op)
    PROVE  /\ sem.count \in Int /\ sem.queue \in Seq(PortUsers) /\ Len(sem.queue) \in Nat
           /\ \A i \in 1 .. Len(sem.queue) : sem.queue[i] \in PortUsers
           /\ sem.count < 0 => Len(sem.queue) = -sem.count
           /\ sem.count >= 0 => Len(sem.queue) = 0 /\ sem.queue = <<>>
<1>1. sem.count \in Int /\ sem.queue \in Seq(PortUsers) /\ Len(sem.queue) = Pos(-sem.count)
  BY DEF SemOK
<1>2. Len(sem.queue) \in Nat /\ \A i \in 1 .. Len(sem.queue) : sem.queue[i] \in PortUsers
  BY <1>1, LenProperties, ElementOfSeq
<1>3. Len(sem.queue) = 0 => sem.queue = <<>>
  BY <1>1, EmptySeq
<1> QED
  BY <1>1, <1>2, <1>3 DEF Pos

\* signal() makes a unit available, or lets a process out.
LEMMA SignalOK ==
    ASSUME NEW sem, NEW c, NEW r, NEW op, NEW seq,
           SemOK(sem, c, r, op), Current(sem, c, seq)
    PROVE  LET s == PtSignal(sem)
           IN  /\ SemOK(s, c, r, op) /\ Current(s, c, seq)
               /\ Pos(s.count) + Cardinality(Out(s.queue, c, r, op, seq))
                    = Pos(sem.count) + Cardinality(Out(sem.queue, c, r, op, seq)) + 1
<1> DEFINE s == PtSignal(sem)
           out == Out(sem.queue, c, r, op, seq)
           outs == Out(s.queue, c, r, op, seq)
<1>1. /\ sem.count \in Int /\ sem.queue \in Seq(PortUsers) /\ Len(sem.queue) \in Nat
      /\ \A i \in 1 .. Len(sem.queue) : sem.queue[i] \in PortUsers
      /\ sem.count < 0 => Len(sem.queue) = -sem.count
      /\ sem.count >= 0 => Len(sem.queue) = 0 /\ sem.queue = <<>>
  BY QueueFacts
<1>2. /\ s.count = sem.count + 1
      /\ s.queue = IF sem.count < 0 THEN Tail(sem.queue) ELSE sem.queue
  BY DEF PtSignal
<1>3. /\ \A i, j \in 1 .. Len(sem.queue) : sem.queue[i] = sem.queue[j] => i = j
      /\ \A i \in 1 .. Len(sem.queue) : /\ c[sem.queue[i]].op = op /\ c[sem.queue[i]].port = r
                                        /\ c[sem.queue[i]].seq = seq
  BY DEF SemOK, Current
<1>4. IsFiniteSet(out) /\ Cardinality(out) \in Nat
  BY OutFinite
<1> HIDE DEF s
<1>5. CASE sem.count >= 0
  <2>1. s.queue = sem.queue /\ s.count > 0 /\ Len(sem.queue) = 0
    BY <1>1, <1>2, <1>5
  <2>2. SemOK(s, c, r, op) /\ Current(s, c, seq)
    BY <1>1, <1>2, <1>5, <2>1 DEF SemOK, Current, Pos
  <2>3. outs = out
    BY <2>1
  <2>4. Pos(s.count) = Pos(sem.count) + 1 /\ Pos(sem.count) \in Int
    BY <1>1, <1>2, <1>5 DEF Pos
  <2> HIDE DEF out, outs
  <2> QED
    BY <1>4, <2>2, <2>3, <2>4 DEF s, out, outs
<1>6. CASE sem.count < 0
  <2>1. /\ Len(sem.queue) = -sem.count /\ s.queue = Tail(sem.queue) /\ sem.queue # <<>>
    BY <1>1, <1>2, <1>6
  <2>2. /\ s.queue \in Seq(PortUsers) /\ Len(s.queue) = Len(sem.queue) - 1
        /\ \A i \in 1 .. Len(s.queue) : s.queue[i] = sem.queue[i + 1]
    BY <1>1, <2>1, HeadTailProperties
  <2> DEFINE p == sem.queue[1]
  <2>3. 1 \in 1 .. Len(sem.queue) /\ p \in PortUsers
    BY <1>1, <1>6, <2>1
  <2>4. \A i \in 1 .. Len(s.queue) : i + 1 \in 1 .. Len(sem.queue) /\ i + 1 # 1
    BY <1>1, <2>2
  <2>5. Len(s.queue) = Pos(-s.count) /\ s.count \in Int
    BY <1>1, <1>2, <1>6, <2>1, <2>2 DEF Pos
  <2>6. \A i, j \in 1 .. Len(s.queue) : s.queue[i] = s.queue[j] => i = j
    <3>1. ASSUME NEW i \in 1 .. Len(s.queue), NEW j \in 1 .. Len(s.queue), s.queue[i] = s.queue[j]
          PROVE  i = j
      <4>1. i + 1 = j + 1
        BY <1>3, <2>2, <2>4, <3>1
      <4> QED
        BY <1>1, <2>2, <4>1
    <3> QED
      BY <3>1
  <2>14. \A i \in 1 .. Len(s.queue) : /\ c[s.queue[i]].op = op /\ c[s.queue[i]].port = r
                                     /\ c[s.queue[i]].seq = seq
    BY <1>3, <2>2, <2>4
  <2>7. SemOK(s, c, r, op) /\ Current(s, c, seq)
    BY <2>2, <2>5, <2>6, <2>14 DEF SemOK, Current
  <2>8. p \notin out /\ Asks(c[p], r, op, seq)
    BY <1>3, <2>3 DEF Out, Asks
  <2>9. \A i \in 1 .. Len(s.queue) : s.queue[i] # p
    BY <1>3, <2>2, <2>3, <2>4
  <2>10. \A x : (\A i \in 1 .. Len(s.queue) : s.queue[i] # x)
                  <=> x = p \/ \A i \in 1 .. Len(sem.queue) : sem.queue[i] # x
    <3>1. ASSUME NEW x, \A i \in 1 .. Len(s.queue) : s.queue[i] # x, x # p,
                 NEW i \in 1 .. Len(sem.queue), sem.queue[i] = x
          PROVE  FALSE
      <4>1. i # 1 /\ i - 1 \in 1 .. Len(s.queue) /\ i - 1 + 1 = i
        BY <1>1, <2>2, <3>1
      <4> QED
        BY <2>2, <3>1, <4>1
    <3>2. ASSUME NEW x, \A i \in 1 .. Len(sem.queue) : sem.queue[i] # x,
                 NEW i \in 1 .. Len(s.queue), s.queue[i] = x
          PROVE  FALSE
      BY <2>2, <2>4, <3>2
    <3> QED
      BY <2>9, <3>1, <3>2
  <2> HIDE DEF p
  <2>11. outs = out \cup {p}
    BY <2>3, <2>8, <2>10, Zenon DEF Out
  <2> HIDE DEF outs, out
  <2>12. Cardinality(outs) = Cardinality(out) + 1
    BY <1>4, <2>8, <2>11, FS_AddElement
  <2>13. Pos(s.count) = 0 /\ Pos(sem.count) = 0
    BY <1>1, <1>2, <1>6 DEF Pos
  <2> QED
    BY <1>4, <2>7, <2>12, <2>13 DEF s, out, outs
<1> QED
  BY <1>1, <1>5, <1>6

\* The call of a process that is in no queue changes.
LEMMA CallChanges ==
    ASSUME NEW sem, NEW c, NEW d, NEW r, NEW op, NEW p \in PortUsers,
           SemOK(sem, c, r, op), OutOf(sem, p), Others(c, d, p)
    PROVE  /\ SemOK(sem, d, r, op)
           /\ \A seq : Current(sem, c, seq) => Current(sem, d, seq)
<1> USE DEF OutOf, Others
<1>1. \A i \in 1 .. Len(sem.queue) : sem.queue[i] \in PortUsers /\ d[sem.queue[i]] = c[sem.queue[i]]
  BY QueueFacts
<1>2. SemOK(sem, d, r, op) /\ \A seq : Current(sem, c, seq) => Current(sem, d, seq)
  BY <1>1 DEF SemOK, Current
<1> QED
  BY <1>2

LEMMA OutChanges ==
    ASSUME NEW sem, NEW c, NEW d, NEW r, NEW op, NEW p \in PortUsers, NEW seq,
           OutOf(sem, p), Others(c, d, p)
    PROVE  /\ Asks(d[p], r, op, seq) =>
                Out(sem.queue, d, r, op, seq) = Out(sem.queue, c, r, op, seq) \cup {p}
           /\ ~Asks(d[p], r, op, seq) =>
                Out(sem.queue, d, r, op, seq) = Out(sem.queue, c, r, op, seq) \ {p}
           /\ p \in Out(sem.queue, c, r, op, seq) <=> Asks(c[p], r, op, seq)
  BY DEF OutOf, Others, Out

\* wait() on a semaphore with no unit puts a process in the queue.
LEMMA WaitOK ==
    ASSUME NEW sem, NEW c, NEW d, NEW r, NEW op, NEW seq, NEW p \in PortUsers,
           SemOK(sem, c, r, op), Current(sem, c, seq), sem.count <= 0,
           ~Asks(c[p], r, op, seq), Asks(d[p], r, op, seq), OutOf(sem, p), Others(c, d, p)
    PROVE  LET s == PtWait(sem, p)
           IN  /\ SemOK(s, d, r, op) /\ Current(s, d, seq)
               /\ Pos(s.count) = Pos(sem.count)
               /\ Out(s.queue, d, r, op, seq) = Out(sem.queue, c, r, op, seq)
<1> USE DEF OutOf, Others
<1> DEFINE s == PtWait(sem, p)
           n == Len(sem.queue)
<1>1. /\ sem.count \in Int /\ sem.queue \in Seq(PortUsers) /\ n \in Nat
      /\ \A i \in 1 .. n : sem.queue[i] \in PortUsers
      /\ sem.count < 0 => n = -sem.count
      /\ sem.count >= 0 => n = 0
  BY QueueFacts
<1>2. s.count = sem.count - 1 /\ s.queue = Append(sem.queue, p)
  BY <1>1 DEF PtWait
<1>3. /\ s.queue \in Seq(PortUsers) /\ Len(s.queue) = n + 1
      /\ \A i \in 1 .. n : s.queue[i] = sem.queue[i]
      /\ s.queue[n + 1] = p
  BY <1>1, <1>2, AppendProperties
<1>4. /\ \A i, j \in 1 .. n : sem.queue[i] = sem.queue[j] => i = j
      /\ \A i \in 1 .. n : d[sem.queue[i]].op = op /\ d[sem.queue[i]].port = r /\ d[sem.queue[i]].seq = seq
  BY <1>1 DEF SemOK, Current
<1> HIDE DEF s, n
<1>5. \A i \in 1 .. n + 1 : i \in 1 .. n \/ i = n + 1
  BY <1>1
<1>6. s.count \in Int /\ Len(s.queue) = Pos(-s.count) /\ Pos(s.count) = Pos(sem.count)
  BY <1>1, <1>2, <1>3 DEF Pos
<1>7. \A i \in 1 .. n : sem.queue[i] # p
  BY DEF n
<1>8. SemOK(s, d, r, op) /\ Current(s, d, seq)
  <2>1. \A i, j \in 1 .. n + 1 : s.queue[i] = s.queue[j] => i = j
    BY <1>3, <1>4, <1>5, <1>7
  <2>2. \A i \in 1 .. n + 1 : d[s.queue[i]].op = op /\ d[s.queue[i]].port = r /\ d[s.queue[i]].seq = seq
    BY <1>3, <1>4, <1>5 DEF Asks
  <2> QED
    BY <1>3, <1>6, <2>1, <2>2 DEF SemOK, Current
<1>9. Out(s.queue, d, r, op, seq) = Out(sem.queue, c, r, op, seq)
  <2>1. \A x : (\A i \in 1 .. Len(s.queue) : s.queue[i] # x)
                 <=> x # p /\ \A i \in 1 .. Len(sem.queue) : sem.queue[i] # x
    <3>1. n + 1 \in 1 .. n + 1 /\ \A i \in 1 .. n : i \in 1 .. n + 1
      BY <1>1
    <3> QED
      BY <1>3, <1>5, <3>1, Zenon DEF n
  <2>2. \A x \in PortUsers : x # p => (Asks(d[x], r, op, seq) <=> Asks(c[x], r, op, seq))
    OBVIOUS
  <2>3. \A x \in PortUsers :
          Asks(d[x], r, op, seq) /\ (\A i \in 1 .. Len(s.queue) : s.queue[i] # x)
            <=> Asks(c[x], r, op, seq) /\ \A i \in 1 .. Len(sem.queue) : sem.queue[i] # x
    BY <2>1, <2>2, Zenon
  <2>4. \A x : x \in Out(s.queue, d, r, op, seq) <=> x \in Out(sem.queue, c, r, op, seq)
    BY <2>3, Zenon DEF Out
  <2> QED
    BY <2>4
<1> QED
  BY <1>6, <1>8, <1>9 DEF s

-----------------------------------------------------------------------------
(* One entry of the table.                                                  *)

\* e2 is e but for what the steps of ptsend() and ptrecv() change.
Alike(e, e2) == e2.state = e.state /\ e2.seq = e.seq /\ e2.maxcnt = e.maxcnt

LEMMA EntryFacts ==
    ASSUME NEW e, NEW c, NEW r, NEW s, NEW m, EntryOK(e, c, r, s, m)
    PROVE  /\ e.seq \in Nat /\ e.maxcnt \in Nat /\ e.list \in Seq(PortMsg) /\ Len(e.list) \in Nat
           /\ e.ssem.count \in Int /\ e.rsem.count \in Int
           /\ Pos(e.ssem.count) \in Nat /\ Pos(e.rsem.count) \in Nat
           /\ \A i \in 1 .. Len(e.list) : e.list[i] \in PortMsg
           /\ SemOK(e.ssem, c, r, "send") /\ SemOK(e.rsem, c, r, "recv")
  BY QueueFacts, LenProperties, ElementOfSeq DEF EntryOK, Pos

\* ptsend() past wait(): a message more, and a receiver for it or a unit (ptsend.c:39-57)
LEMMA DeliverOK ==
    ASSUME NEW e, NEW c, NEW r, NEW msg \in PortMsg, EntryOK(e, c, r, 1, 0), e.state = "alloc",
           msg.epoch = e.seq,
           NEW e2, Alike(e, e2), e2.list = Append(e.list, msg), e2.ssem = e.ssem,
           e2.rsem = PtSignal(e.rsem)
    PROVE  EntryOK(e2, c, r, 0, 0) /\ Len(e2.list) = Len(e.list) + 1
<1>1. /\ SemOK(e.ssem, c, r, "send") /\ SemOK(e.rsem, c, r, "recv") /\ AllocOK(e, c, r, 1, 0)
      /\ ClearingOK(e, c, r)
  BY DEF EntryOK
<1>2. /\ SemOK(e2.rsem, c, r, "recv") /\ Current(e2.rsem, c, e.seq)
      /\ Pos(e2.rsem.count) + Cardinality(Out(e2.rsem.queue, c, r, "recv", e.seq))
           = Pos(e.rsem.count) + Cardinality(Out(e.rsem.queue, c, r, "recv", e.seq)) + 1
  <2>1. Current(e.rsem, c, e.seq)
    BY <1>1 DEF AllocOK
  <2>2. PICK sem, seq, op : sem = e.rsem /\ seq = e.seq /\ op = "recv"
    OBVIOUS
  <2>3. SemOK(sem, c, r, op) /\ Current(sem, c, seq)
    BY <1>1, <2>1, <2>2
  <2>4. LET s == PtSignal(sem)
        IN  /\ SemOK(s, c, r, op) /\ Current(s, c, seq)
            /\ Pos(s.count) + Cardinality(Out(s.queue, c, r, op, seq))
                 = Pos(sem.count) + Cardinality(Out(sem.queue, c, r, op, seq)) + 1
    BY <2>3, SignalOK
  <2> QED
    BY <2>2, <2>4
<1>3. /\ e2.list \in Seq(PortMsg) /\ Len(e2.list) = Len(e.list) + 1 /\ Len(e.list) \in Nat
      /\ \A i \in 1 .. Len(e2.list) : e2.list[i].epoch = e.seq
  <2>1. e.list \in Seq(PortMsg) /\ Len(e.list) \in Nat
    BY EntryFacts
  <2>2. /\ e2.list \in Seq(PortMsg) /\ Len(e2.list) = Len(e.list) + 1
        /\ \A i \in 1 .. Len(e.list) : e2.list[i] = e.list[i]
        /\ e2.list[Len(e.list) + 1] = msg
    BY <2>1, AppendProperties
  <2>3. \A i \in 1 .. Len(e.list) + 1 : i \in 1 .. Len(e.list) \/ i = Len(e.list) + 1
    BY <2>1
  <2> QED
    BY <1>1, <2>1, <2>2, <2>3 DEF AllocOK
<1>4. Balanced(e2, c, r, 0, 0)
  <2> DEFINE n == Len(e.list)
             a == Pos(e.rsem.count)
             b == Cardinality(Out(e.rsem.queue, c, r, "recv", e.seq))
             a2 == Pos(e2.rsem.count)
             b2 == Cardinality(Out(e2.rsem.queue, c, r, "recv", e.seq))
             u == Pos(e.ssem.count)
             v == Cardinality(Out(e.ssem.queue, c, r, "send", e.seq))
  <2>1. n = a + b + 0 /\ e.maxcnt = u + n + v + 1 /\ a2 + b2 = a + b + 1 /\ Len(e2.list) = n + 1
    BY <1>1, <1>2, <1>3 DEF AllocOK, Balanced
  <2>2. /\ n \in Int /\ a \in Int /\ b \in Int /\ u \in Int /\ v \in Int /\ b2 \in Int
        /\ a2 \in Int /\ e2.maxcnt = e.maxcnt /\ e2.seq = e.seq
    <3>1. e2.rsem.count \in Int
      BY <1>2 DEF SemOK
    <3> QED
      BY <3>1, EntryFacts, OutFinite DEF Pos, Alike
  <2> SUFFICES Len(e2.list) = a2 + b2 + 0 /\ e2.maxcnt = u + Len(e2.list) + v + 0
    BY <2>2 DEF Balanced
  <2> HIDE DEF n, a, b, a2, b2, u, v
  <2> QED
    BY <2>1, <2>2
<1>5. AllocOK(e2, c, r, 0, 0)
  BY <1>1, <1>2, <1>3, <1>4 DEF AllocOK, Alike
<1>6. ClearingOK(e2, c, r)
  BY <1>1 DEF ClearingOK, Alike
<1> QED
  BY <1>1, <1>2, <1>3, <1>5, <1>6 DEF EntryOK, Alike

\* ptrecv() past wait(): there is a message; a sender for its place or a unit (ptrecv.c:36-45)
LEMMA TakeOK ==
    ASSUME NEW e, NEW c, NEW r, EntryOK(e, c, r, 0, 1), e.state = "alloc",
           NEW e2, Alike(e, e2), e2.list = Tail(e.list), e2.rsem = e.rsem,
           e2.ssem = PtSignal(e.ssem)
    PROVE  /\ EntryOK(e2, c, r, 0, 0)
           /\ e.list # <<>> /\ Len(e2.list) = Len(e.list) - 1 /\ Head(e.list) = e.list[1]
           /\ Head(e.list) \in PortMsg /\ Head(e.list).epoch = e.seq
<1>1. /\ SemOK(e.ssem, c, r, "send") /\ SemOK(e.rsem, c, r, "recv") /\ AllocOK(e, c, r, 0, 1)
      /\ ClearingOK(e, c, r)
  BY DEF EntryOK
<1>2. /\ SemOK(e2.ssem, c, r, "send") /\ Current(e2.ssem, c, e.seq)
      /\ Pos(e2.ssem.count) + Cardinality(Out(e2.ssem.queue, c, r, "send", e.seq))
           = Pos(e.ssem.count) + Cardinality(Out(e.ssem.queue, c, r, "send", e.seq)) + 1
  <2>1. Current(e.ssem, c, e.seq)
    BY <1>1 DEF AllocOK
  <2> QED
    BY <1>1, <2>1, SignalOK
<1> DEFINE n == Len(e.list)
           a == Pos(e.rsem.count)
           b == Cardinality(Out(e.rsem.queue, c, r, "recv", e.seq))
           u == Pos(e.ssem.count)
           v == Cardinality(Out(e.ssem.queue, c, r, "send", e.seq))
           u2 == Pos(e2.ssem.count)
           v2 == Cardinality(Out(e2.ssem.queue, c, r, "send", e.seq))
<1>3. n = a + b + 1 /\ e.maxcnt = u + n + v + 0 /\ u2 + v2 = u + v + 1
  BY <1>1, <1>2 DEF AllocOK, Balanced
<1>4. /\ n \in Int /\ a \in Nat /\ b \in Nat /\ u \in Int /\ v \in Int /\ u2 \in Int /\ v2 \in Int
      /\ e2.maxcnt = e.maxcnt /\ e2.seq = e.seq
  <2>1. e2.ssem.count \in Int
    BY <1>2 DEF SemOK
  <2> QED
    BY <2>1, EntryFacts, OutFinite DEF Pos, Alike
<1> HIDE DEF n, a, b, u, v, u2, v2
<1>5. n > 0
  BY <1>3, <1>4
<1>6. e.list # <<>> /\ e.list \in Seq(PortMsg)
  BY <1>5, EntryFacts, EmptySeq DEF n
<1>7. /\ e2.list \in Seq(PortMsg) /\ Len(e2.list) = n - 1
      /\ \A i \in 1 .. Len(e2.list) : e2.list[i] = e.list[i + 1]
  BY <1>6, HeadTailProperties DEF n
<1>8. \A i \in 1 .. Len(e2.list) : e2.list[i].epoch = e.seq
  <2>1. \A i \in 1 .. Len(e2.list) : i + 1 \in 1 .. n
    BY <1>4, <1>7
  <2> QED
    BY <1>1, <1>7, <2>1 DEF AllocOK, n
<1>9. Len(e2.list) = a + b + 0 /\ e2.maxcnt = u2 + Len(e2.list) + v2 + 0
  BY <1>3, <1>4, <1>7
<1>10. Balanced(e2, c, r, 0, 0)
  BY <1>4, <1>9 DEF Balanced, a, b, u2, v2
<1>11. AllocOK(e2, c, r, 0, 0)
  BY <1>1, <1>2, <1>8, <1>10 DEF AllocOK, Alike
<1>12. ClearingOK(e2, c, r)
  BY <1>1 DEF ClearingOK, Alike
<1>13. Head(e.list) = e.list[1] /\ 1 \in 1 .. n
  BY <1>4, <1>5, <1>6
<1>14. Head(e.list) \in PortMsg /\ Head(e.list).epoch = e.seq
  BY <1>1, <1>6, <1>13, EntryFacts DEF AllocOK, n
<1>15. EntryOK(e2, c, r, 0, 0)
  BY <1>1, <1>2, <1>7, <1>11, <1>12 DEF EntryOK, Alike
<1> QED
  BY <1>6, <1>7, <1>13, <1>14, <1>15 DEF n

\* wait() on a semaphore with a unit
LEMMA PassesSending ==
    ASSUME NEW e, NEW c, NEW r, EntryOK(e, c, r, 0, 0), e.state = "alloc", e.ssem.count > 0,
           NEW e2, Alike(e, e2), e2.list = e.list, e2.rsem = e.rsem,
           e2.ssem = [count |-> e.ssem.count - 1, queue |-> e.ssem.queue]
    PROVE  EntryOK(e2, c, r, 1, 0)
<1>1. /\ SemOK(e.ssem, c, r, "send") /\ AllocOK(e, c, r, 0, 0)
      /\ e2.ssem.count = e.ssem.count - 1 /\ e2.ssem.queue = e.ssem.queue /\ e.ssem.count \in Int
  BY EntryFacts DEF EntryOK
<1>2. Pos(-e2.ssem.count) = Pos(-e.ssem.count) /\ Pos(e.ssem.count) = Pos(e2.ssem.count) + 1
      /\ e2.ssem.count \in Int /\ Pos(e2.ssem.count) \in Int
  BY <1>1 DEF Pos
<1>3. SemOK(e2.ssem, c, r, "send") /\ Current(e2.ssem, c, e.seq)
  <2>1. SemOK(e2.ssem, c, r, "send")
    BY <1>1, <1>2 DEF SemOK
  <2> QED
    BY <1>1, <2>1 DEF AllocOK, Current
<1>4. Balanced(e2, c, r, 1, 0)
  <2> DEFINE n == Len(e.list)
             v == Cardinality(Out(e.ssem.queue, c, r, "send", e.seq))
             u == Pos(e.ssem.count)
             u2 == Pos(e2.ssem.count)
  <2>1. e.maxcnt = u + n + v + 0 /\ u = u2 + 1 /\ u2 \in Int /\ n \in Int /\ v \in Int
    BY <1>1, <1>2, EntryFacts, OutFinite DEF AllocOK, Balanced
  <2>2. SUFFICES e.maxcnt = u2 + n + v + 1
    BY <1>1, <2>1 DEF AllocOK, Balanced, Alike
  <2> HIDE DEF n, u, v, u2
  <2> QED
    BY <2>1
<1>5. AllocOK(e2, c, r, 1, 0)
  BY <1>1, <1>3, <1>4 DEF AllocOK, Alike
<1>6. ClearingOK(e2, c, r)
  BY DEF EntryOK, ClearingOK, Alike
<1> QED
  BY <1>3, <1>5, <1>6 DEF EntryOK, Alike

LEMMA PassesReceiving ==
    ASSUME NEW e, NEW c, NEW r, EntryOK(e, c, r, 0, 0), e.state = "alloc", e.rsem.count > 0,
           NEW e2, Alike(e, e2), e2.list = e.list, e2.ssem = e.ssem,
           e2.rsem = [count |-> e.rsem.count - 1, queue |-> e.rsem.queue]
    PROVE  EntryOK(e2, c, r, 0, 1)
<1>1. /\ SemOK(e.rsem, c, r, "recv") /\ AllocOK(e, c, r, 0, 0)
      /\ e2.rsem.count = e.rsem.count - 1 /\ e2.rsem.queue = e.rsem.queue /\ e.rsem.count \in Int
  BY EntryFacts DEF EntryOK
<1>2. Pos(-e2.rsem.count) = Pos(-e.rsem.count) /\ Pos(e.rsem.count) = Pos(e2.rsem.count) + 1
      /\ e2.rsem.count \in Int /\ Pos(e2.rsem.count) \in Int
  BY <1>1 DEF Pos
<1>3. SemOK(e2.rsem, c, r, "recv") /\ Current(e2.rsem, c, e.seq)
  <2>1. SemOK(e2.rsem, c, r, "recv")
    BY <1>1, <1>2 DEF SemOK
  <2> QED
    BY <1>1, <2>1 DEF AllocOK, Current
<1>4. Balanced(e2, c, r, 0, 1)
  <2> DEFINE n == Len(e.list)
             v == Cardinality(Out(e.rsem.queue, c, r, "recv", e.seq))
             u == Pos(e.rsem.count)
             u2 == Pos(e2.rsem.count)
  <2>1. n = u + v + 0 /\ u = u2 + 1 /\ u2 \in Int /\ n \in Int /\ v \in Int
    BY <1>1, <1>2, EntryFacts, OutFinite DEF AllocOK, Balanced
  <2>2. SUFFICES n = u2 + v + 1
    BY <1>1, <2>1 DEF AllocOK, Balanced, Alike
  <2> HIDE DEF n, u, v, u2
  <2> QED
    BY <2>1
<1>5. AllocOK(e2, c, r, 0, 1)
  BY <1>1, <1>3, <1>4 DEF AllocOK, Alike
<1>6. ClearingOK(e2, c, r)
  BY DEF EntryOK, ClearingOK, Alike
<1> QED
  BY <1>3, <1>5, <1>6 DEF EntryOK, Alike

\* A process in no queue changes its call: what that leaves of the parts of the invariant
\* that do not count who was released.
LEMMA CallsLeft ==
    ASSUME NEW e, NEW c, NEW d, NEW r, NEW p \in PortUsers, EntryOK(e, c, r, 0, 0),
           Others(c, d, p), OutOf(e.ssem, p), OutOf(e.rsem, p),
           d[p].op \in Clearing => d[p].port # r,
           d[p].op \in Asking /\ d[p].port = r => d[p].seq = e.seq /\ e.state = "alloc"
    PROVE  /\ SemOK(e.ssem, d, r, "send") /\ SemOK(e.rsem, d, r, "recv")
           /\ e.state = "alloc" => Current(e.ssem, d, e.seq) /\ Current(e.rsem, d, e.seq)
           /\ \A x \in PortUsers : d[x].op \in Asking /\ d[x].port = r =>
                d[x].seq <= e.seq /\ (e.state # "alloc" => d[x].seq # e.seq)
           /\ ClearingOK(e, d, r)
<1>1. /\ SemOK(e.ssem, c, r, "send") /\ SemOK(e.rsem, c, r, "recv") /\ ClearingOK(e, c, r)
      /\ e.state = "alloc" => Current(e.ssem, c, e.seq) /\ Current(e.rsem, c, e.seq)
      /\ e.seq \in Nat
      /\ \A x \in PortUsers : c[x].op \in Asking /\ c[x].port = r =>
           c[x].seq <= e.seq /\ (e.state # "alloc" => c[x].seq # e.seq)
  BY DEF EntryOK, AllocOK
<1>2. \A x \in PortUsers : x # p => d[x] = c[x]
  BY DEF Others
<1>4. /\ SemOK(e.ssem, d, r, "send")
      /\ \A seq : Current(e.ssem, c, seq) => Current(e.ssem, d, seq)
  BY <1>1, CallChanges
<1>5. /\ SemOK(e.rsem, d, r, "recv")
      /\ \A seq : Current(e.rsem, c, seq) => Current(e.rsem, d, seq)
  BY <1>1, CallChanges
<1>6. \A x \in PortUsers : d[x].op \in Asking /\ d[x].port = r =>
           d[x].seq <= e.seq /\ (e.state # "alloc" => d[x].seq # e.seq)
  <2>1. e.seq <= e.seq
    BY <1>1
  <2> QED
    BY <1>1, <1>2, <2>1
<1>7. ClearingOK(e, d, r)
  BY <1>1, <1>2 DEF ClearingOK
<1> QED
  BY <1>1, <1>4, <1>5, <1>6, <1>7

\* A call ends (ptsend.c:33, ptrecv.c:31): whoever asked in the port's present life has a
\* place, or a message, that no semaphore counts any more.
LEMMA Leaves ==
    ASSUME NEW e, NEW c, NEW d, NEW r, NEW p \in PortUsers, EntryOK(e, c, r, 0, 0),
           Others(c, d, p), OutOf(e.ssem, p), OutOf(e.rsem, p), d[p].op = "idle"
    PROVE  /\ EntryOK(e, d, r, IF Asks(c[p], r, "send", e.seq) THEN 1 ELSE 0,
                               IF Asks(c[p], r, "recv", e.seq) THEN 1 ELSE 0)
<1> DEFINE s == IF Asks(c[p], r, "send", e.seq) THEN 1 ELSE 0
           m == IF Asks(c[p], r, "recv", e.seq) THEN 1 ELSE 0
           vs == Out(e.ssem.queue, c, r, "send", e.seq)
           ws == Out(e.ssem.queue, d, r, "send", e.seq)
           vm == Out(e.rsem.queue, c, r, "recv", e.seq)
           wm == Out(e.rsem.queue, d, r, "recv", e.seq)
<1>1. /\ SemOK(e.ssem, d, r, "send") /\ SemOK(e.rsem, d, r, "recv") /\ ClearingOK(e, d, r)
      /\ e.state = "alloc" => Current(e.ssem, d, e.seq) /\ Current(e.rsem, d, e.seq)
      /\ \A x \in PortUsers : d[x].op \in Asking /\ d[x].port = r =>
           d[x].seq <= e.seq /\ (e.state # "alloc" => d[x].seq # e.seq)
  <2>1. d[p].op \notin Clearing /\ d[p].op \notin Asking
    BY DEF Clearing, Asking
  <2>2. /\ d[p].op \in Clearing => d[p].port # r
        /\ d[p].op \in Asking /\ d[p].port = r => d[p].seq = e.seq /\ e.state = "alloc"
    BY <2>1
  <2> HIDE DEF s, m, vs, ws, vm, wm
  <2> QED
    BY <2>2, CallsLeft
<1>2. \A op \in Asking : ~Asks(d[p], r, op, e.seq)
  BY DEF Asks, Asking
<1>3. SemOK(e.ssem, c, r, "send") /\ SemOK(e.rsem, c, r, "recv")
  BY DEF EntryOK
<1>4. ws = vs \ {p} /\ (p \in vs <=> s = 1)
  <2>1. ~Asks(d[p], r, "send", e.seq)
    BY <1>2 DEF Asking
  <2>2. ws = vs \ {p} /\ (p \in vs <=> Asks(c[p], r, "send", e.seq))
    BY <2>1 DEF Out, OutOf, Others
  <2> QED
    BY <2>2
<1>5. wm = vm \ {p} /\ (p \in vm <=> m = 1)
  <2>1. ~Asks(d[p], r, "recv", e.seq)
    BY <1>2 DEF Asking
  <2>2. wm = vm \ {p} /\ (p \in vm <=> Asks(c[p], r, "recv", e.seq))
    BY <2>1 DEF Out, OutOf, Others
  <2> QED
    BY <2>2
<1>6. s \in {0, 1} /\ m \in {0, 1}
  OBVIOUS
<1>7. /\ IsFiniteSet(vs) /\ IsFiniteSet(vm) /\ Cardinality(vs) \in Nat /\ Cardinality(vm) \in Nat
  BY OutFinite
<1> HIDE DEF s, m, vs, vm, ws, wm
<1>8. /\ Cardinality(vs) = Cardinality(ws) + s /\ Cardinality(ws) \in Int
      /\ Cardinality(vm) = Cardinality(wm) + m /\ Cardinality(wm) \in Int
  <2>1. Cardinality(ws) = IF s = 1 THEN Cardinality(vs) - 1 ELSE Cardinality(vs)
    BY <1>4, <1>7, FS_RemoveElement
  <2>2. Cardinality(wm) = IF m = 1 THEN Cardinality(vm) - 1 ELSE Cardinality(vm)
    BY <1>5, <1>7, FS_RemoveElement
  <2> QED
    BY <1>6, <1>7, <2>1, <2>2
<1>9. e.state = "alloc" => AllocOK(e, d, r, s, m)
  <2> SUFFICES ASSUME e.state = "alloc" PROVE AllocOK(e, d, r, s, m)
    OBVIOUS
  <2>1. AllocOK(e, c, r, 0, 0)
    BY DEF EntryOK
  <2> DEFINE n == Len(e.list)
             a == Pos(e.rsem.count)
             u == Pos(e.ssem.count)
             b == Cardinality(vm)
             v == Cardinality(vs)
             b2 == Cardinality(wm)
             v2 == Cardinality(ws)
  <2>2. n = a + b + 0 /\ e.maxcnt = u + n + v + 0
    BY <2>1 DEF AllocOK, Balanced, vs, vm
  <2>3. n \in Int /\ a \in Int /\ u \in Int
    BY EntryFacts
  <2>4. /\ b = b2 + m /\ v = v2 + s /\ b2 \in Int /\ v2 \in Int
    BY <1>8
  <2> HIDE DEF n, a, b, u, v, b2, v2
  <2>5. n = a + b2 + m /\ e.maxcnt = u + n + v2 + s
    BY <1>6, <2>2, <2>3, <2>4
  <2>6. Balanced(e, d, r, s, m)
    BY <2>5 DEF Balanced, n, a, u, b2, v2, ws, wm
  <2> QED
    BY <1>1, <2>1, <2>6 DEF AllocOK
<1>10. EntryOK(e, d, r, s, m)
  BY <1>1, <1>9 DEF EntryOK
<1> QED
  BY <1>10 DEF s, m

\* Who is in a queue has made the call that put it there.
LEMMA NotQueued ==
    ASSUME NEW sem, NEW c, NEW r, NEW op, NEW p, SemOK(sem, c, r, op),
           ~(c[p].op = op /\ c[p].port = r)
    PROVE  OutOf(sem, p)
  BY DEF SemOK, OutOf

\* The calls of p before and after are about no port, or another one.
LEMMA Elsewhere ==
    ASSUME NEW e, NEW c, NEW d, NEW r, NEW p \in PortUsers, EntryOK(e, c, r, 0, 0),
           Others(c, d, p), ~About(c[p], r), ~About(d[p], r)
    PROVE  EntryOK(e, d, r, 0, 0)
<1>1. SemOK(e.ssem, c, r, "send") /\ SemOK(e.rsem, c, r, "recv")
  BY DEF EntryOK
<1>2. OutOf(e.ssem, p) /\ OutOf(e.rsem, p)
  BY <1>1, NotQueued DEF About
<1>3. \A op \in Asking : \A seq : ~Asks(c[p], r, op, seq) /\ ~Asks(d[p], r, op, seq)
  BY DEF About, Asks, Asking
<1>4. /\ SemOK(e.ssem, d, r, "send") /\ SemOK(e.rsem, d, r, "recv") /\ ClearingOK(e, d, r)
      /\ e.state = "alloc" => Current(e.ssem, d, e.seq) /\ Current(e.rsem, d, e.seq)
      /\ \A x \in PortUsers : d[x].op \in Asking /\ d[x].port = r =>
           d[x].seq <= e.seq /\ (e.state # "alloc" => d[x].seq # e.seq)
  <2>1. ~(d[p].op \in Asking /\ d[p].port = r) /\ (d[p].op \in Clearing => d[p].port # r)
    BY DEF About, Asking, Clearing
  <2> QED
    BY <1>2, <2>1, CallsLeft
<1>5. \A op \in Asking : \A queue, seq : Out(queue, d, r, op, seq) = Out(queue, c, r, op, seq)
  <2>1. ASSUME NEW op \in Asking, NEW queue, NEW seq, NEW x \in PortUsers
        PROVE  Asks(d[x], r, op, seq) <=> Asks(c[x], r, op, seq)
    BY <1>3, <2>1 DEF Others
  <2> QED
    BY <2>1 DEF Out
<1>6. e.state = "alloc" => AllocOK(e, d, r, 0, 0)
  <2> SUFFICES ASSUME e.state = "alloc" PROVE AllocOK(e, d, r, 0, 0)
    OBVIOUS
  <2>1. AllocOK(e, c, r, 0, 0)
    BY DEF EntryOK
  <2>2. /\ Out(e.ssem.queue, d, r, "send", e.seq) = Out(e.ssem.queue, c, r, "send", e.seq)
        /\ Out(e.rsem.queue, d, r, "recv", e.seq) = Out(e.rsem.queue, c, r, "recv", e.seq)
    BY <1>5, Zenon DEF Asking
  <2>3. Balanced(e, d, r, 0, 0)
    BY <2>1, <2>2, Zenon DEF AllocOK, Balanced
  <2> QED
    BY <1>4, <2>1, <2>3 DEF AllocOK
<1> QED
  BY <1>4, <1>6 DEF EntryOK

\* wait() on a semaphore with no unit
LEMMA BlocksSending ==
    ASSUME NEW e, NEW c, NEW d, NEW r, NEW p \in PortUsers, EntryOK(e, c, r, 0, 0),
           e.state = "alloc", Others(c, d, p), c[p].op = "idle",
           Asks(d[p], r, "send", e.seq), e.ssem.count <= 0,
           NEW e2, Alike(e, e2), e2.list = e.list, e2.rsem = e.rsem, e2.ssem = PtWait(e.ssem, p)
    PROVE  EntryOK(e2, d, r, 0, 0)
<1>1. SemOK(e.ssem, c, r, "send") /\ SemOK(e.rsem, c, r, "recv") /\ AllocOK(e, c, r, 0, 0)
  BY DEF EntryOK
<1>2. OutOf(e.ssem, p) /\ OutOf(e.rsem, p)
  BY <1>1, NotQueued
<1>3. d[p].op = "send" /\ d[p].port = r /\ d[p].seq = e.seq
  BY DEF Asks
<1>4. /\ SemOK(e.rsem, d, r, "recv") /\ ClearingOK(e, d, r) /\ Current(e.rsem, d, e.seq)
      /\ \A x \in PortUsers : d[x].op \in Asking /\ d[x].port = r =>
           d[x].seq <= e.seq /\ (e.state # "alloc" => d[x].seq # e.seq)
  <2>1. d[p].op \notin Clearing
    BY <1>3 DEF Clearing
  <2> QED
    BY <1>2, <1>3, <2>1, CallsLeft
<1>5. /\ SemOK(e2.ssem, d, r, "send") /\ Current(e2.ssem, d, e.seq)
      /\ Pos(e2.ssem.count) = Pos(e.ssem.count)
      /\ Out(e2.ssem.queue, d, r, "send", e.seq) = Out(e.ssem.queue, c, r, "send", e.seq)
  <2>1. ~Asks(c[p], r, "send", e.seq) /\ Current(e.ssem, c, e.seq)
    BY <1>1 DEF Asks, AllocOK
  <2> QED
    BY <1>1, <1>2, <2>1, WaitOK
<1>6. Out(e.rsem.queue, d, r, "recv", e.seq) = Out(e.rsem.queue, c, r, "recv", e.seq)
  <2>1. ~Asks(c[p], r, "recv", e.seq) /\ ~Asks(d[p], r, "recv", e.seq)
    BY <1>3 DEF Asks
  <2> QED
    BY <2>1 DEF Out, Others
<1>7. Balanced(e2, d, r, 0, 0)
  <2>1. Balanced(e, c, r, 0, 0) /\ e2.seq = e.seq /\ e2.maxcnt = e.maxcnt
    BY <1>1 DEF AllocOK, Alike
  <2> QED
    BY <1>5, <1>6, <2>1, Zenon DEF Balanced
<1>8. AllocOK(e2, d, r, 0, 0)
  BY <1>1, <1>4, <1>5, <1>7 DEF AllocOK, Alike
<1>9. ClearingOK(e2, d, r)
  BY <1>4 DEF ClearingOK, Alike
<1> QED
  BY <1>4, <1>5, <1>8, <1>9 DEF EntryOK, Alike

LEMMA BlocksReceiving ==
    ASSUME NEW e, NEW c, NEW d, NEW r, NEW p \in PortUsers, EntryOK(e, c, r, 0, 0),
           e.state = "alloc", Others(c, d, p), c[p].op = "idle",
           Asks(d[p], r, "recv", e.seq), e.rsem.count <= 0,
           NEW e2, Alike(e, e2), e2.list = e.list, e2.ssem = e.ssem, e2.rsem = PtWait(e.rsem, p)
    PROVE  EntryOK(e2, d, r, 0, 0)
<1>1. SemOK(e.ssem, c, r, "send") /\ SemOK(e.rsem, c, r, "recv") /\ AllocOK(e, c, r, 0, 0)
  BY DEF EntryOK
<1>2. OutOf(e.ssem, p) /\ OutOf(e.rsem, p)
  BY <1>1, NotQueued
<1>3. d[p].op = "recv" /\ d[p].port = r /\ d[p].seq = e.seq
  BY DEF Asks
<1>4. /\ SemOK(e.ssem, d, r, "send") /\ ClearingOK(e, d, r) /\ Current(e.ssem, d, e.seq)
      /\ \A x \in PortUsers : d[x].op \in Asking /\ d[x].port = r =>
           d[x].seq <= e.seq /\ (e.state # "alloc" => d[x].seq # e.seq)
  <2>1. d[p].op \notin Clearing
    BY <1>3 DEF Clearing
  <2> QED
    BY <1>2, <1>3, <2>1, CallsLeft
<1>5. /\ SemOK(e2.rsem, d, r, "recv") /\ Current(e2.rsem, d, e.seq)
      /\ Pos(e2.rsem.count) = Pos(e.rsem.count)
      /\ Out(e2.rsem.queue, d, r, "recv", e.seq) = Out(e.rsem.queue, c, r, "recv", e.seq)
  <2>1. ~Asks(c[p], r, "recv", e.seq) /\ Current(e.rsem, c, e.seq)
    BY <1>1 DEF Asks, AllocOK
  <2> QED
    BY <1>1, <1>2, <2>1, WaitOK
<1>6. Out(e.ssem.queue, d, r, "send", e.seq) = Out(e.ssem.queue, c, r, "send", e.seq)
  <2>1. ~Asks(c[p], r, "send", e.seq) /\ ~Asks(d[p], r, "send", e.seq)
    BY <1>3 DEF Asks
  <2> QED
    BY <2>1 DEF Out, Others
<1>7. Balanced(e2, d, r, 0, 0)
  <2>1. Balanced(e, c, r, 0, 0) /\ e2.seq = e.seq /\ e2.maxcnt = e.maxcnt
    BY <1>1 DEF AllocOK, Alike
  <2> QED
    BY <1>5, <1>6, <2>1, Zenon DEF Balanced
<1>8. AllocOK(e2, d, r, 0, 0)
  BY <1>1, <1>4, <1>5, <1>7 DEF AllocOK, Alike
<1>9. ClearingOK(e2, d, r)
  BY <1>4 DEF ClearingOK, Alike
<1> QED
  BY <1>4, <1>5, <1>8, <1>9 DEF EntryOK, Alike

-----------------------------------------------------------------------------
(* A port is created, reset and deleted.                                    *)

LEMMA NobodyIn ==
    ASSUME NEW n \in Nat, NEW c, NEW r, NEW op
    PROVE  LET s == [count |-> n, queue |-> <<>>]
           IN  SemOK(s, c, r, op) /\ \A seq : Current(s, c, seq)
<1>1. Len(<<>>) = 0 /\ \A i \in 1 .. 0 : FALSE
  OBVIOUS
<1>2. Pos(-n) = 0 /\ <<>> \in Seq(PortUsers)
  BY DEF Pos
<1> QED
  BY <1>1, <1>2 DEF SemOK, Current

Numbered(c) == \A x \in PortUsers : c[x].op \in Asking => c[x].seq \in Nat

\* Calls made in the past of a port are not about its next life.
LEMMA OutDated ==
    ASSUME NEW e, NEW c, NEW r, EntryOK(e, c, r, 0, 0), Numbered(c)
    PROVE  /\ e.seq + 1 \in Nat
           /\ \A x \in PortUsers : c[x].op \in Asking /\ c[x].port = r =>
                c[x].seq <= e.seq + 1 /\ c[x].seq # e.seq + 1
<1>1. e.seq \in Nat
  BY EntryFacts
<1>2. \A s \in Nat : s <= e.seq => s <= e.seq + 1 /\ s # e.seq + 1
  BY <1>1
<1> QED
  BY <1>1, <1>2 DEF EntryOK, Numbered

\* ptreset() and ptdelete() up to the first release of processes (ptclear.c:30-41)
LEMMA ClearStarts ==
    ASSUME NEW e, NEW c, NEW d, NEW r, NEW p \in PortUsers, EntryOK(e, c, r, 0, 0),
           Numbered(c), e.state = "alloc", Others(c, d, p), c[p].op = "idle",
           d[p].op \in {"reset", "delete"}, d[p].port = r,
           NEW e2, e2.state = "limbo", e2.seq = e.seq + 1, e2.maxcnt = e.maxcnt,
           e2.list = IF d[p].op = "reset" THEN <<>> ELSE e.list,
           e2.ssem = [count |-> IF d[p].op = "reset" THEN e.maxcnt ELSE 0, queue |-> <<>>],
           e2.rsem = e.rsem
    PROVE  EntryOK(e2, d, r, 0, 0)
<1>1. SemOK(e.rsem, c, r, "recv") /\ AllocOK(e, c, r, 0, 0) /\ ClearingOK(e, c, r)
  BY DEF EntryOK
<1>2. OutOf(e.rsem, p)
  BY <1>1, NotQueued
<1>3. SemOK(e2.rsem, d, r, "recv")
  BY <1>1, <1>2, CallChanges
<1>4. e.maxcnt \in Nat /\ e.seq \in Nat /\ e.list \in Seq(PortMsg) /\ <<>> \in Seq(PortMsg)
  BY EntryFacts
<1>5. e2.ssem.count \in Nat /\ e2.ssem = [count |-> e2.ssem.count, queue |-> <<>>]
  BY <1>4
<1>6. SemOK(e2.ssem, d, r, "send")
  BY <1>5, NobodyIn
<1>7. d[p].op \notin Asking /\ \A x \in PortUsers : x # p => d[x] = c[x]
  BY DEF Asking, Others
<1>8. /\ e.seq + 1 \in Nat
      /\ \A x \in PortUsers : d[x].op \in Asking /\ d[x].port = r =>
           d[x].seq <= e2.seq /\ d[x].seq # e2.seq
  BY <1>7, OutDated
<1>9. \A x \in PortUsers : c[x].op \in Clearing => c[x].port # r
  BY <1>1 DEF ClearingOK
<1>10. ClearingOK(e2, d, r)
  <2>1. \A x \in PortUsers : d[x].op \in Clearing /\ d[x].port = r => x = p
    BY <1>7, <1>9
  <2>2. d[p].op \notin {"resetEnd", "deleteEnd"}
    OBVIOUS
  <2>3. d[p].op \in {"reset", "resetEnd"} =>
          e2.list = <<>> /\ e2.ssem.count = e2.maxcnt /\ e2.maxcnt \in PortCounts
    BY <1>1 DEF AllocOK
  <2> QED
    BY <2>1, <2>2, <2>3 DEF ClearingOK
<1>11. e2.ssem.count >= 0
  BY <1>5
<1> QED
  BY <1>3, <1>4, <1>6, <1>8, <1>10, <1>11 DEF EntryOK

\* The receivers are released (ptclear.c:43-48).
LEMMA ClearGoesOn ==
    ASSUME NEW e, NEW c, NEW d, NEW r, NEW p \in PortUsers, EntryOK(e, c, r, 0, 0),
           Others(c, d, p), c[p].op \in {"reset", "delete"}, c[p].port = r,
           d[p].op = (IF c[p].op = "reset" THEN "resetEnd" ELSE "deleteEnd"), d[p].port = r,
           NEW e2, Alike(e, e2), e2.list = e.list, e2.ssem = e.ssem,
           e2.rsem = [count |-> 0, queue |-> <<>>]
    PROVE  EntryOK(e2, d, r, 0, 0)
<1>1. SemOK(e.ssem, c, r, "send") /\ ClearingOK(e, c, r)
  BY DEF EntryOK
<1>2. OutOf(e.ssem, p)
  BY <1>1, NotQueued
<1>3. SemOK(e2.ssem, d, r, "send")
  BY <1>1, <1>2, CallChanges
<1>4. SemOK(e2.rsem, d, r, "recv") /\ e2.rsem.count = 0
  BY NobodyIn
<1>5. /\ c[p].op \in Clearing /\ d[p].op \in Clearing /\ d[p].op \notin Asking
      /\ d[p].op \in {"reset", "resetEnd"} <=> c[p].op \in {"reset", "resetEnd"}
      /\ \A x \in PortUsers : x # p => d[x] = c[x]
  BY DEF Asking, Clearing, Others
<1>6. /\ e.state = "limbo"
      /\ \A x \in PortUsers : c[x].op \in Clearing /\ c[x].port = r => x = p
      /\ c[p].op \in {"reset", "resetEnd"} =>
           e.list = <<>> /\ e.ssem.count = e.maxcnt /\ e.maxcnt \in PortCounts
  BY <1>1, <1>5 DEF ClearingOK
<1>7. ClearingOK(e2, d, r)
  BY <1>4, <1>5, <1>6 DEF ClearingOK, Alike
<1>8. \A x \in PortUsers : d[x].op \in Asking /\ d[x].port = r =>
        d[x].seq <= e2.seq /\ d[x].seq # e2.seq
  BY <1>5, <1>6 DEF EntryOK, Alike
<1>9. e2.ssem.count >= 0 /\ e2.state = "limbo" /\ e2.seq \in Nat /\ e2.maxcnt \in Nat
      /\ e2.list \in Seq(PortMsg)
  BY <1>6 DEF EntryOK, Alike
<1> QED
  BY <1>3, <1>4, <1>7, <1>8, <1>9 DEF EntryOK

Bygone(c, r, seq) == \A x \in PortUsers : c[x].op \in Asking /\ c[x].port = r => c[x].seq # seq

\* Nobody who was released called in the port's present life.
LEMMA NobodyOut ==
    ASSUME NEW queue, NEW c, NEW r, NEW op \in Asking, NEW seq,
           Bygone(c, r, seq)
    PROVE  Out(queue, c, r, op, seq) = {} /\ Cardinality(Out(queue, c, r, op, seq)) = 0
<1>1. Out(queue, c, r, op, seq) = {}
  BY DEF Out, Asks, Bygone
<1> QED
  BY <1>1, FS_EmptySet

\* A port as it is created, and as it comes out of a reset
LEMMA NewPort ==
    ASSUME NEW e, NEW c, NEW r, e.seq \in Nat, e.maxcnt \in PortCounts,
           e.ssem = [count |-> e.maxcnt, queue |-> <<>>],
           e.rsem = [count |-> 0, queue |-> <<>>], e.list = <<>>, e.state = "alloc",
           \A x \in PortUsers : c[x].op \in Asking /\ c[x].port = r =>
             c[x].seq <= e.seq /\ c[x].seq # e.seq,
           \A x \in PortUsers : c[x].op \in Clearing => c[x].port # r
    PROVE  EntryOK(e, c, r, 0, 0)
<1>1. e.maxcnt \in Nat
  BY Sizes0
<1>2. /\ SemOK(e.ssem, c, r, "send") /\ Current(e.ssem, c, e.seq)
      /\ SemOK(e.rsem, c, r, "recv") /\ Current(e.rsem, c, e.seq)
  BY <1>1, NobodyIn
<1>3. /\ Cardinality(Out(e.ssem.queue, c, r, "send", e.seq)) = 0
      /\ Cardinality(Out(e.rsem.queue, c, r, "recv", e.seq)) = 0
  <2>1. Bygone(c, r, e.seq) /\ "send" \in Asking /\ "recv" \in Asking
    BY DEF Bygone, Asking
  <2> QED
    BY <2>1, NobodyOut
<1>4. /\ e.rsem.count = 0 /\ e.ssem.count = e.maxcnt
      /\ Len(e.list) = 0 /\ e.list \in Seq(PortMsg) /\ \A i \in 1 .. Len(e.list) : FALSE
  OBVIOUS
<1>5. Balanced(e, c, r, 0, 0)
  BY <1>1, <1>3, <1>4 DEF Balanced, Pos
<1>6. AllocOK(e, c, r, 0, 0)
  BY <1>2, <1>4, <1>5 DEF AllocOK
<1>7. ClearingOK(e, c, r)
  BY DEF ClearingOK
<1> QED
  BY <1>1, <1>2, <1>4, <1>6, <1>7 DEF EntryOK

\* ptreset() and ptdelete() end: the port may be used again, or its entry is free.
LEMMA ClearEnds ==
    ASSUME NEW e, NEW c, NEW d, NEW r, NEW p \in PortUsers, EntryOK(e, c, r, 0, 0),
           Others(c, d, p), c[p].op \in {"resetEnd", "deleteEnd"}, c[p].port = r,
           d[p].op = "idle",
           NEW e2, e2.state = (IF c[p].op = "resetEnd" THEN "alloc" ELSE "free"),
           e2.seq = e.seq, e2.maxcnt = e.maxcnt, e2.list = e.list, e2.ssem = e.ssem,
           e2.rsem = e.rsem, e.ssem \in [count : Int, queue : Seq(PortUsers)],
           e.rsem \in [count : Int, queue : Seq(PortUsers)]
    PROVE  EntryOK(e2, d, r, 0, 0)
<1>1. SemOK(e.ssem, c, r, "send") /\ SemOK(e.rsem, c, r, "recv") /\ ClearingOK(e, c, r)
      /\ e.seq \in Nat /\ e.maxcnt \in Nat /\ e.list \in Seq(PortMsg)
  BY DEF EntryOK
<1>2. OutOf(e.ssem, p) /\ OutOf(e.rsem, p)
  BY <1>1, NotQueued
<1>3. SemOK(e.ssem, d, r, "send") /\ SemOK(e.rsem, d, r, "recv")
  BY <1>1, <1>2, CallChanges
<1>4. /\ c[p].op \in Clearing /\ d[p].op \notin Clearing /\ d[p].op \notin Asking
      /\ \A x \in PortUsers : x # p => d[x] = c[x]
  BY DEF Asking, Clearing, Others
<1>5. /\ e.state = "limbo" /\ e.rsem.count = 0
      /\ \A x \in PortUsers : c[x].op \in Clearing /\ c[x].port = r => x = p
      /\ c[p].op = "resetEnd" =>
           e.list = <<>> /\ e.ssem.count = e.maxcnt /\ e.maxcnt \in PortCounts
  BY <1>1, <1>4 DEF ClearingOK
<1>6. e.ssem.count >= 0
  BY <1>5 DEF EntryOK
<1>7. \A x \in PortUsers : d[x].op \in Clearing => d[x].port # r
  BY <1>4, <1>5
<1>8. \A x \in PortUsers : d[x].op \in Asking /\ d[x].port = r =>
        d[x].seq <= e.seq /\ d[x].seq # e.seq
  BY <1>4, <1>5 DEF EntryOK
<1>9. e.ssem.queue = <<>> /\ e.rsem.queue = <<>>
  BY <1>1, <1>5, <1>6, QueueFacts
<1>10. CASE c[p].op = "resetEnd"
  <2>1. /\ e2.ssem = [count |-> e2.maxcnt, queue |-> <<>>]
        /\ e2.rsem = [count |-> 0, queue |-> <<>>]
    BY <1>5, <1>9, <1>10
  <2> QED
    BY <1>1, <1>5, <1>7, <1>8, <1>10, <2>1, NewPort
<1>11. CASE c[p].op = "deleteEnd"
  <2>1. ClearingOK(e2, d, r)
    BY <1>7 DEF ClearingOK
  <2>2. e2.state = "free" /\ e2.rsem.count >= 0
    BY <1>5, <1>11
  <2> QED
    BY <1>1, <1>3, <1>6, <1>8, <2>1, <2>2 DEF EntryOK
<1> QED
  BY <1>10, <1>11

\* ptcreate() takes a free entry.
LEMMA CreateOK ==
    ASSUME NEW e, NEW c, NEW r, EntryOK(e, c, r, 0, 0), Numbered(c), e.state = "free",
           NEW n \in PortCounts, NEW e2, e2.state = "alloc", e2.seq = e.seq + 1, e2.maxcnt = n,
           e2.list = <<>>, e2.ssem = [count |-> n, queue |-> <<>>],
           e2.rsem = [count |-> 0, queue |-> <<>>]
    PROVE  EntryOK(e2, c, r, 0, 0)
<1>1. /\ e2.seq \in Nat
      /\ \A x \in PortUsers : c[x].op \in Asking /\ c[x].port = r =>
           c[x].seq <= e2.seq /\ c[x].seq # e2.seq
  BY OutDated
<1>2. \A x \in PortUsers : c[x].op \in Clearing => c[x].port # r
  BY DEF EntryOK, ClearingOK
<1> QED
  BY <1>1, <1>2, NewPort

-----------------------------------------------------------------------------
(* The nodes for messages.                                                  *)

LEMMA KeptIn ==
    ASSUME NEW t \in [PortId -> Entry]
    PROVE  \A r \in PortId : InPorts(t)[r] = Kept(t[r]) /\ Kept(t[r]) \in Nat
<1>1. \A r \in PortId : Len(t[r].list) \in Nat
  BY LenProperties DEF Entry
<1> QED
  BY <1>1 DEF InPorts, Kept

\* Nodes move between the list ptfree and one port.
LEMMA NodesMove ==
    ASSUME NEW t \in [PortId -> Entry], NEW t2 \in [PortId -> Entry], NEW n \in Nat, NEW n2 \in Nat,
           n + SumFunctionOnSet(InPorts(t), PortId) = PtMsgs,
           NEW q \in PortId, \A r \in PortId \ {q} : t2[r] = t[r],
           n2 + Kept(t2[q]) = n + Kept(t[q])
    PROVE  n2 + SumFunctionOnSet(InPorts(t2), PortId) = PtMsgs
<1> DEFINE f == InPorts(t)
           g == InPorts(t2)
           a == SumFunctionOnSet(f, PortId)
           b == SumFunctionOnSet(g, PortId)
<1>1. \A r \in PortId : f[r] = Kept(t[r]) /\ g[r] = Kept(t2[r]) /\ f[r] \in Int /\ g[r] \in Int
  BY KeptIn
<1>2. \A r \in PortId \ {q} : g[r] = f[r]
  BY <1>1
<1>3. IsFiniteSet(PortId)
  BY Sizes0
<1> HIDE DEF f, g
<1>4. b + f[q] = a + g[q] /\ a \in Int /\ b \in Int
  BY <1>1, <1>2, <1>3, SumChangesAt
<1>5. /\ n + a = PtMsgs /\ n2 + g[q] = n + f[q] /\ f[q] \in Int /\ g[q] \in Int
  BY <1>1 DEF f
<1> HIDE DEF a, b
<1>6. n2 + b = PtMsgs
  BY <1>4, <1>5
<1> QED
  BY <1>6 DEF b, g

\* A port has room for the messages of the senders that are past wait().
LEMMA HasRoom ==
    ASSUME NEW e, NEW c, NEW r, NEW s \in Nat, EntryOK(e, c, r, s, 0), e.state = "alloc"
    PROVE  Len(e.list) \in Nat /\ Len(e.list) + s <= e.maxcnt /\ e.maxcnt \in PortCounts
<1>1. Balanced(e, c, r, s, 0) /\ e.maxcnt \in PortCounts
  BY DEF EntryOK, AllocOK
<1> DEFINE n == Len(e.list)
           u == Pos(e.ssem.count)
           v == Cardinality(Out(e.ssem.queue, c, r, "send", e.seq))
<1>2. e.maxcnt = u + n + v + s
  BY <1>1 DEF Balanced
<1>3. n \in Nat /\ u \in Nat /\ v \in Nat /\ e.maxcnt \in Nat
  BY OutFinite, EntryFacts
<1> HIDE DEF n, u, v
<1>4. n + s <= e.maxcnt
  BY <1>2, <1>3
<1> QED
  BY <1>1, <1>3, <1>4 DEF n

LEMMA UpTo ==
    ASSUME NEW n \in Nat, NEW s \in Nat, NEW m \in Nat, NEW k \in 0 .. m, n + s <= k
    PROVE  n + s \in 0 .. m /\ n \in 0 .. m
  OBVIOUS

\* ptsend.c:36-38 does not happen: where a message may be put there is a node for it.
LEMMA NodeLeft ==
    ASSUME PortInv, NEW q \in PortId, NEW e, NEW d, EntryOK(e, d, q, 1, 0),
           e.state = "alloc", porttab[q].state = "alloc", e.list = porttab[q].list
    PROVE  ptnodes # 0
<1> DEFINE f == InPorts(porttab)
           g == [f EXCEPT ![q] = f[q] + 1]
<1>1. PICK m \in 0 .. PtMsgs : PortCounts \subseteq 0 .. m /\ NPORTS * m <= PtMsgs
  BY PortsFit DEF PortsFit
<1>2. PtMsgs \in Nat /\ NPORTS \in Nat /\ m \in Nat /\ IsFiniteSet(PortId)
  BY <1>1, Sizes0
<1>3. Cardinality(PortId) = NPORTS
  <2>1. Cardinality(0 .. NPORTS - 1) = IF 0 > NPORTS - 1 THEN 0 ELSE (NPORTS - 1) - 0 + 1
    BY <1>2, FS_Interval
  <2> QED
    BY <1>2, <2>1, Sizes0 DEF PortId
<1>4. porttab \in [PortId -> Entry]
  BY DEF PortInv, PortType
<1>5. \A r \in PortId : f[r] = Kept(porttab[r]) /\ f[r] \in Nat
  BY <1>4, KeptIn
<1>6. \A r \in PortId : f[r] \in 0 .. m
  <2>1. ASSUME NEW r \in PortId, porttab[r].state = "alloc"
        PROVE  Len(porttab[r].list) \in 0 .. m
    <3>1. EntryOK(porttab[r], ptcall, r, 0, 0)
      BY DEF PortInv, EntriesOK
    <3>2. /\ Len(porttab[r].list) \in Nat /\ Len(porttab[r].list) + 0 <= porttab[r].maxcnt
          /\ porttab[r].maxcnt \in PortCounts
      BY <2>1, <3>1, HasRoom
    <3>3. porttab[r].maxcnt \in 0 .. m
      BY <1>1, <3>2
    <3> QED
      BY <1>2, <3>2, <3>3, UpTo
  <2> QED
    BY <1>2, <1>5, <2>1 DEF Kept
<1>7. f[q] + 1 \in 0 .. m
  <2>1. Len(e.list) \in Nat /\ Len(e.list) + 1 <= e.maxcnt /\ e.maxcnt \in PortCounts
    BY HasRoom
  <2>2. f[q] = Len(e.list)
    BY <1>5 DEF Kept
  <2>3. e.maxcnt \in 0 .. m
    BY <1>1, <2>1
  <2>4. Len(e.list) + 1 \in 0 .. m
    BY <1>2, <2>1, <2>3, UpTo
  <2> QED
    BY <2>2, <2>4
<1>8. /\ \A r \in PortId \ {q} : g[r] = f[r]
      /\ g[q] = f[q] + 1
  BY DEF InPorts
<1> HIDE DEF f, g
<1>9. \A r \in PortId : g[r] \in 0 .. m /\ g[r] \in Int /\ f[r] \in Int
  BY <1>2, <1>6, <1>7, <1>8
<1> DEFINE a == SumFunctionOnSet(f, PortId)
           b == SumFunctionOnSet(g, PortId)
<1>10. b + f[q] = a + g[q] /\ a \in Int /\ b \in Int
  BY <1>2, <1>8, <1>9, SumChangesAt
<1>11. b \in 0 .. NPORTS * m
  BY <1>2, <1>3, <1>9, SumBounded
<1>12. ptnodes + a = PtMsgs /\ ptnodes \in Nat
  BY DEF PortInv, NodesOK, PortType, f
<1>13. f[q] \in Int /\ g[q] = f[q] + 1
  BY <1>8, <1>9
<1>14. PICK k \in Int : k = NPORTS * m
  BY <1>2
<1> HIDE DEF a, b
<1> QED
  BY <1>1, <1>2, <1>10, <1>11, <1>12, <1>13, <1>14

-----------------------------------------------------------------------------
(* A step is about one port.                                                *)

Contents(e) == IF e.state = "alloc" THEN e.list ELSE <<>>
Nil == [msg |-> "none", epoch |-> 0]

\* What Mailbox allows a step to do to a port
BoxStep(e, e2, g) ==
    \/ /\ Contents(e) # <<>> /\ Head(Contents(e)).epoch = e.seq
       /\ g = Head(Contents(e)) /\ Contents(e2) = Tail(Contents(e)) /\ e2.seq = e.seq
    \/ Contents(e2) = <<>> /\ e2.seq = e.seq + 1 /\ g = Nil
    \/ g = Nil /\ Contents(e2) = Contents(e) /\ e2.seq = e.seq
    \/ \E x \in PortUsers :
         Contents(e2) = Append(Contents(e), [msg |-> x, epoch |-> e.seq]) /\ g = Nil /\ e2.seq = e.seq

\* Nobody's call changes, or that of p, which is about q before or after.
OneCall(c, d, p, q) ==
    \/ d = c
    \/ /\ p \in PortUsers /\ Others(c, d, p)
       /\ \A r \in PortId \ {q} : ~About(c[p], r) /\ ~About(d[p], r)

OnePort(t, t2, c, d, q) ==
    /\ t2 \in [PortId -> Entry] /\ d \in [PortUsers -> Call]
    /\ \A r \in PortId \ {q} : t2[r] = t[r]
    /\ EntryOK(t2[q], d, q, 0, 0)

LEMMA StepKeeps ==
    ASSUME PortInv, NEW p, NEW q \in PortId, NEW t, NEW c, NEW n \in Nat, NEW g,
           OneCall(ptcall, c, p, q), OnePort(porttab, t, ptcall, c, q),
           n + Kept(t[q]) = ptnodes + Kept(porttab[q]),
           \A r \in PortId \ {q} : g[r] = Nil, BoxStep(porttab[q], t[q], g[q])
    PROVE  /\ \A r \in PortId : EntryOK(t[r], c, r, 0, 0)
           /\ n + SumFunctionOnSet(InPorts(t), PortId) = PtMsgs
           /\ \A r \in PortId : BoxStep(porttab[r], t[r], g[r])
<1>1. /\ t \in [PortId -> Entry] /\ \A r \in PortId \ {q} : t[r] = porttab[r]
      /\ EntryOK(t[q], c, q, 0, 0)
  BY DEF OnePort
<1>2. \A r \in PortId : EntryOK(porttab[r], ptcall, r, 0, 0)
  BY DEF PortInv, EntriesOK
<1>3. ASSUME NEW r \in PortId, r # q PROVE EntryOK(t[r], c, r, 0, 0)
  <2>1. EntryOK(porttab[r], ptcall, r, 0, 0) /\ t[r] = porttab[r]
    BY <1>1, <1>2, <1>3
  <2>2. CASE c = ptcall
    BY <2>1, <2>2
  <2>3. CASE /\ p \in PortUsers /\ Others(ptcall, c, p)
             /\ ~About(ptcall[p], r) /\ ~About(c[p], r)
    <3>1. EntryOK(porttab[r], c, r, 0, 0)
      BY <2>1, <2>3, Elsewhere
    <3> QED
      BY <2>1, <3>1
  <2> QED
    BY <1>3, <2>2, <2>3 DEF OneCall
<1>4. n + SumFunctionOnSet(InPorts(t), PortId) = PtMsgs
  <2>1. /\ porttab \in [PortId -> Entry] /\ ptnodes \in Nat
        /\ ptnodes + SumFunctionOnSet(InPorts(porttab), PortId) = PtMsgs
    BY DEF PortInv, PortType, NodesOK
  <2> QED
    BY <1>1, <2>1, NodesMove
<1>5. \A r \in PortId \ {q} : BoxStep(porttab[r], t[r], g[r])
  BY <1>1 DEF BoxStep
<1> QED
  BY <1>1, <1>3, <1>4, <1>5

-----------------------------------------------------------------------------
(* The steps.                                                               *)

LEMMA Step ==
    ASSUME PortInv, NEW p, NEW q \in PortId,
           OneCall(ptcall, ptcall', p, q), OnePort(porttab, porttab', ptcall, ptcall', q),
           ptnodes' \in Nat, ptnodes' + Kept(porttab'[q]) = ptnodes + Kept(porttab[q]),
           \A r \in PortId \ {q} : ptgot'[r] = Nil,
           BoxStep(porttab[q], porttab'[q], ptgot'[q]),
           ptnextid' \in PortId, ptpanic' = FALSE
    PROVE  PortInv' /\ \A r \in PortId : BoxStep(porttab[r], porttab'[r], ptgot'[r])
<1>1. /\ \A r \in PortId : EntryOK(porttab'[r], ptcall', r, 0, 0)
      /\ ptnodes' + SumFunctionOnSet(InPorts(porttab'), PortId) = PtMsgs
      /\ \A r \in PortId : BoxStep(porttab[r], porttab'[r], ptgot'[r])
  BY StepKeeps
<1>2. PortType'
  BY DEF OnePort, PortType
<1> QED
  BY <1>1, <1>2 DEF PortInv, EntriesOK, NodesOK, InPorts

\* What ptsend() does past wait(), in a table t that differs from porttab in a semaphore
LEMMA Delivered ==
    ASSUME PortInv, NEW p, NEW q \in PortId, NEW t \in [PortId -> Entry],
           \A r \in PortId \ {q} : t[r] = porttab[r],
           porttab[q].state = "alloc", Alike(porttab[q], t[q]), t[q].list = porttab[q].list,
           NEW x \in PortUsers, NEW c, c.port = q, c.msg = x, c.seq = porttab[q].seq,
           Deliver(t, c), ptcall' \in [PortUsers -> Call], OneCall(ptcall, ptcall', p, q),
           EntryOK(t[q], ptcall', q, 1, 0), ptgot' = NothingGot, UNCHANGED ptnextid
    PROVE  PortInv' /\ \A r \in PortId : BoxStep(porttab[r], porttab'[r], ptgot'[r])
<1> DEFINE e == t[q]
           e2 == porttab'[q]
           msg == [msg |-> x, epoch |-> porttab[q].seq]
<1>1. ptnodes \in Nat /\ ptnextid \in PortId /\ ptpanic = FALSE
  BY DEF PortInv, PortType
<1>2. e.state = "alloc" /\ e.seq = porttab[q].seq /\ e.seq \in Nat
  BY EntryFacts DEF Alike
<1>3. ptnodes # 0
  BY <1>2, NodeLeft
<1>4. /\ porttab' = [t EXCEPT ![q].list = Append(@, msg), ![q].rsem = PtSignal(@)]
      /\ ptnodes' = ptnodes - 1 /\ ptpanic' = FALSE
  BY <1>1, <1>3 DEF Deliver
<1>5. /\ \A r \in PortId \ {q} : porttab'[r] = porttab[r]
      /\ e \in Entry
      /\ e2 = [e EXCEPT !.list = Append(@, msg), !.rsem = PtSignal(@)]
  BY <1>4
<1>6. /\ Alike(e, e2) /\ e2.list = Append(e.list, msg) /\ e2.ssem = e.ssem
      /\ e2.rsem = PtSignal(e.rsem)
  BY <1>5 DEF Entry, Alike
<1>7. msg \in PortMsg /\ msg.epoch = e.seq
  BY <1>2 DEF PortMsg
<1>8. EntryOK(e2, ptcall', q, 0, 0) /\ Len(e2.list) = Len(e.list) + 1 /\ Len(e.list) \in Nat
  <2> HIDE DEF e2, msg, e
  <2> QED
    BY <1>2, <1>6, <1>7, DeliverOK, EntryFacts DEF e
<1>9. e2 \in Entry
  <2>1. e2.list \in Seq(PortMsg) /\ e2.rsem = [count |-> e2.rsem.count, queue |-> e2.rsem.queue]
    BY <1>6, <1>8 DEF EntryOK, PtSignal
  <2>2. e2.rsem.count \in Int /\ e2.rsem.queue \in Seq(PortUsers)
    BY <1>8 DEF EntryOK, SemOK
  <2>3. PtSignal(e.rsem) \in [count : Int, queue : Seq(PortUsers)]
    BY <1>6, <2>1, <2>2
  <2> QED
    BY <1>5, <1>6, <2>1, <2>3 DEF Entry
<1>10. OnePort(porttab, porttab', ptcall, ptcall', q)
  <2>1. porttab' \in [PortId -> Entry]
    BY <1>4, <1>5, <1>9
  <2> QED
    BY <1>5, <1>8, <2>1 DEF OnePort
<1>11. Kept(e2) = Kept(porttab[q]) + 1 /\ Kept(porttab[q]) \in Nat
  BY <1>2, <1>6, <1>8 DEF Kept, Alike
<1>12. ptnodes' \in Nat /\ ptnodes' + Kept(e2) = ptnodes + Kept(porttab[q])
  <2> HIDE DEF e2
  <2> QED
    BY <1>1, <1>3, <1>4, <1>11
<1>13. \A r \in PortId : ptgot'[r] = Nil
  BY DEF NothingGot, Nil
<1>14. BoxStep(porttab[q], e2, ptgot'[q])
  <2>1. Contents(e2) = Append(Contents(porttab[q]), msg) /\ e2.seq = porttab[q].seq
    BY <1>2, <1>6 DEF Contents, Alike
  <2> QED
    BY <1>13, <2>1 DEF BoxStep
<1> QED
  BY <1>1, <1>4, <1>10, <1>12, <1>13, <1>14, Step

\* What ptrecv() does past wait()
LEMMA Taken ==
    ASSUME PortInv, NEW p, NEW q \in PortId, NEW t \in [PortId -> Entry],
           \A r \in PortId \ {q} : t[r] = porttab[r],
           porttab[q].state = "alloc", Alike(porttab[q], t[q]), t[q].list = porttab[q].list,
           NEW c, c.port = q, c.seq = porttab[q].seq,
           Take(t, c), ptcall' \in [PortUsers -> Call], OneCall(ptcall, ptcall', p, q),
           EntryOK(t[q], ptcall', q, 0, 1), UNCHANGED <<ptnextid, ptpanic>>
    PROVE  PortInv' /\ \A r \in PortId : BoxStep(porttab[r], porttab'[r], ptgot'[r])
<1> DEFINE e == t[q]
           e2 == porttab'[q]
<1>1. ptnodes \in Nat /\ ptnextid \in PortId /\ ptpanic = FALSE
  BY DEF PortInv, PortType
<1>2. e.state = "alloc" /\ e.seq = porttab[q].seq /\ e.seq \in Nat
  BY EntryFacts DEF Alike
<1>4. /\ porttab' = [t EXCEPT ![q].list = Tail(@), ![q].ssem = PtSignal(@)]
      /\ ptnodes' = ptnodes + 1
      /\ ptgot' = [NothingGot EXCEPT ![q] = [Head(e.list) EXCEPT !.epoch = porttab[q].seq]]
  BY DEF Take
<1>5. /\ \A r \in PortId \ {q} : porttab'[r] = porttab[r]
      /\ e \in Entry
      /\ e2 = [e EXCEPT !.list = Tail(@), !.ssem = PtSignal(@)]
  BY <1>4
<1>6. /\ Alike(e, e2) /\ e2.list = Tail(e.list) /\ e2.rsem = e.rsem
      /\ e2.ssem = PtSignal(e.ssem)
  BY <1>5 DEF Entry, Alike
<1>8. /\ EntryOK(e2, ptcall', q, 0, 0) /\ Len(e2.list) = Len(e.list) - 1 /\ Len(e.list) \in Nat
      /\ e.list # <<>> /\ Head(e.list) \in PortMsg /\ Head(e.list).epoch = e.seq
  <2> HIDE DEF e2, e
  <2> QED
    BY <1>2, <1>6, TakeOK, EntryFacts DEF e
<1>9. e2 \in Entry
  <2>1. e2.list \in Seq(PortMsg) /\ e2.ssem = [count |-> e2.ssem.count, queue |-> e2.ssem.queue]
    BY <1>6, <1>8 DEF EntryOK, PtSignal
  <2>2. e2.ssem.count \in Int /\ e2.ssem.queue \in Seq(PortUsers)
    BY <1>8 DEF EntryOK, SemOK
  <2>3. PtSignal(e.ssem) \in [count : Int, queue : Seq(PortUsers)]
    BY <1>6, <2>1, <2>2
  <2> QED
    BY <1>5, <1>6, <2>1, <2>3 DEF Entry
<1>10. OnePort(porttab, porttab', ptcall, ptcall', q)
  <2>1. porttab' \in [PortId -> Entry]
    BY <1>4, <1>5, <1>9
  <2> QED
    BY <1>5, <1>8, <2>1 DEF OnePort
<1>11. Kept(porttab[q]) = Kept(e2) + 1 /\ Kept(e2) \in Int
  BY <1>2, <1>6, <1>8 DEF Kept, Alike
<1>12. ptnodes' \in Nat /\ ptnodes' + Kept(e2) = ptnodes + Kept(porttab[q])
  <2> HIDE DEF e2
  <2> QED
    BY <1>1, <1>4, <1>11
<1>13. \A r \in PortId \ {q} : ptgot'[r] = Nil
  BY <1>4 DEF NothingGot, Nil
<1>14. BoxStep(porttab[q], e2, ptgot'[q])
  <2>1. [Head(e.list) EXCEPT !.epoch = porttab[q].seq] = Head(e.list)
    BY <1>2, <1>8 DEF PortMsg
  <2>2. ptgot'[q] = Head(e.list)
    BY <1>4, <2>1 DEF NothingGot
  <2>3. /\ Contents(porttab[q]) = e.list /\ Contents(e2) = Tail(e.list)
        /\ e2.seq = porttab[q].seq
    BY <1>2, <1>6 DEF Contents, Alike
  <2> QED
    BY <1>2, <1>8, <2>2, <2>3 DEF BoxStep
<1> QED
  BY <1>1, <1>4, <1>10, <1>12, <1>13, <1>14, Step

Typed == /\ porttab \in [PortId -> Entry] /\ ptnodes \in Nat /\ ptnextid \in PortId
         /\ ptcall \in [PortUsers -> Call] /\ ptpanic = FALSE

LEMMA Invariants ==
    ASSUME PortInv
    PROVE  Typed /\ \A r \in PortId : EntryOK(porttab[r], ptcall, r, 0, 0)
  BY DEF PortInv, PortType, EntriesOK, Typed

\* Whoever is in no queue is in no queue of any port.
LEMMA Running ==
    ASSUME PortInv, NEW p, ~Queued(p), NEW q \in PortId
    PROVE  OutOf(porttab[q].ssem, p) /\ OutOf(porttab[q].rsem, p)
<1> DEFINE s == porttab[q].ssem.queue
           u == porttab[q].rsem.queue
<1>1. s \in Seq(PortUsers) /\ u \in Seq(PortUsers)
  BY Invariants, EntryFacts, QueueFacts
<1>2. ~Contains(s \o u, p)
  BY DEF Queued
<1> HIDE DEF s, u
<1>3. /\ Len(s \o u) = Len(s) + Len(u) /\ Len(s) \in Nat /\ Len(u) \in Nat
      /\ \A i \in 1 .. Len(s) : (s \o u)[i] = s[i]
      /\ \A i \in 1 .. Len(u) : (s \o u)[Len(s) + i] = u[i]
  BY <1>1
<1>4. \A i \in 1 .. Len(s) + Len(u) : (s \o u)[i] # p
  BY <1>2, <1>3 DEF Contains
<1>5. \A i \in 1 .. Len(s) : s[i] # p
  BY <1>3, <1>4
<1>6. \A i \in 1 .. Len(u) : u[i] # p
  <2> TAKE i \in 1 .. Len(u)
  <2>1. Len(s) + i \in 1 .. Len(s) + Len(u)
    BY <1>3
  <2> QED
    BY <1>3, <1>4, <2>1
<1> QED
  BY <1>5, <1>6 DEF OutOf, s, u

\* wait(ptssem) or wait(ptrsem), with a unit or without
LEMMA WaitType ==
    ASSUME NEW sem \in [count : Int, queue : Seq(PortUsers)], NEW p \in PortUsers
    PROVE  PtWait(sem, p) \in [count : Int, queue : Seq(PortUsers)]
<1>1. Append(sem.queue, p) \in Seq(PortUsers)
  BY AppendProperties
<1> QED
  BY <1>1 DEF PtWait

LEMMA OtherSemaphore ==
    ASSUME NEW e \in Entry, NEW s \in [count : Int, queue : Seq(PortUsers)]
    PROVE  [e EXCEPT !.ssem = s] \in Entry /\ [e EXCEPT !.rsem = s] \in Entry
  BY DEF Entry

LEMMA SendKeeps ==
    ASSUME PortInv, NEW p \in PortUsers, NEW q \in PortId, PortSend(p, q)
    PROVE  PortInv' /\ \A r \in PortId : BoxStep(porttab[r], porttab'[r], ptgot'[r])
<1> DEFINE c == [op |-> "send", port |-> q, seq |-> porttab[q].seq, msg |-> p]
           t == [porttab EXCEPT ![q].ssem = PtWait(@, p)]
           e == porttab[q]
           e1 == t[q]
<1>1. /\ ptcall[p] = Idle /\ e.state = "alloc" /\ ptgot' = NothingGot /\ UNCHANGED ptnextid
      /\ IF e.ssem.count > 0 THEN Deliver(t, c) /\ UNCHANGED ptcall
         ELSE porttab' = t /\ ptcall' = [ptcall EXCEPT ![p] = c] /\ UNCHANGED <<ptnodes, ptpanic>>
  BY DEF PortSend
<1>2. Typed /\ EntryOK(e, ptcall, q, 0, 0)
  BY Invariants
<1>3. /\ e \in Entry /\ e1 = [e EXCEPT !.ssem = PtWait(e.ssem, p)]
      /\ \A r \in PortId \ {q} : t[r] = porttab[r]
  BY <1>2 DEF Typed
<1>4. /\ Alike(e, e1) /\ e1.list = e.list /\ e1.rsem = e.rsem /\ e1.ssem = PtWait(e.ssem, p)
  BY <1>3 DEF Entry, Alike
<1>5. t \in [PortId -> Entry]
  <2>1. PtWait(e.ssem, p) \in [count : Int, queue : Seq(PortUsers)]
    BY <1>3, WaitType DEF Entry
  <2>2. e1 \in Entry
    BY <1>3, <2>1, OtherSemaphore
  <2> QED
    BY <1>2, <1>3, <2>2 DEF Typed
<1>6. e.seq \in Nat /\ e.ssem.count \in Int
  BY <1>2, EntryFacts
<1>7. CASE e.ssem.count > 0
  <2>1. e1.ssem = [count |-> e.ssem.count - 1, queue |-> e.ssem.queue]
    BY <1>4, <1>7 DEF PtWait
  <2>2. EntryOK(e1, ptcall, q, 1, 0)
    <3> HIDE DEF e, e1
    <3> QED
      BY <1>1, <1>2, <1>4, <1>7, <2>1, PassesSending
  <2>3. ptcall' = ptcall /\ ptcall' \in [PortUsers -> Call] /\ OneCall(ptcall, ptcall', p, q)
    BY <1>1, <1>2, <1>7 DEF Typed, OneCall
  <2>4. /\ Deliver(t, c) /\ c.port = q /\ c.msg = p /\ c.seq = porttab[q].seq
        /\ EntryOK(t[q], ptcall', q, 1, 0)
    BY <1>1, <1>7, <2>2, <2>3
  <2> HIDE DEF c, t
  <2> QED
    BY <1>1, <1>3, <1>4, <1>5, <2>3, <2>4, Delivered
<1>8. CASE ~(e.ssem.count > 0)
  <2>1. porttab' = t /\ ptcall' = [ptcall EXCEPT ![p] = c] /\ UNCHANGED <<ptnodes, ptpanic>>
    BY <1>1, <1>8
  <2>2. c \in Call
    BY <1>6 DEF Call
  <2>3. ptcall' \in [PortUsers -> Call] /\ Others(ptcall, ptcall', p) /\ ptcall'[p] = c
    BY <1>2, <2>1, <2>2 DEF Typed, Others
  <2>4. Asks(c, q, "send", e.seq)
    BY DEF Asks
  <2>5. EntryOK(e1, ptcall', q, 0, 0)
    <3>1. ptcall[p].op = "idle" /\ e.ssem.count <= 0 /\ Asks(ptcall'[p], q, "send", e.seq)
      BY <1>1, <1>6, <1>8, <2>3, <2>4 DEF Idle
    <3> HIDE DEF e, e1, c, t
    <3> QED
      BY <1>1, <1>2, <1>4, <2>3, <3>1, BlocksSending
  <2>6. OneCall(ptcall, ptcall', p, q)
    BY <1>1, <2>3 DEF OneCall, About, Idle
  <2>7. OnePort(porttab, porttab', ptcall, ptcall', q)
    BY <1>3, <1>5, <2>1, <2>3, <2>5 DEF OnePort
  <2>8. /\ Kept(porttab'[q]) = Kept(e) /\ Contents(porttab'[q]) = Contents(e)
        /\ porttab'[q].seq = e.seq
    BY <1>4, <2>1 DEF Kept, Contents, Alike
  <2>9. \A r \in PortId : ptgot'[r] = Nil
    BY <1>1 DEF NothingGot, Nil
  <2>10. BoxStep(porttab[q], porttab'[q], ptgot'[q])
    BY <2>8, <2>9 DEF BoxStep
  <2> QED
    BY <1>1, <1>2, <2>1, <2>6, <2>7, <2>8, <2>9, <2>10, Step DEF Typed
<1> QED
  BY <1>7, <1>8

LEMMA ReceiveKeeps ==
    ASSUME PortInv, NEW p \in PortUsers, NEW q \in PortId, PortReceive(p, q)
    PROVE  PortInv' /\ \A r \in PortId : BoxStep(porttab[r], porttab'[r], ptgot'[r])
<1> DEFINE c == [op |-> "recv", port |-> q, seq |-> porttab[q].seq]
           t == [porttab EXCEPT ![q].rsem = PtWait(@, p)]
           e == porttab[q]
           e1 == t[q]
<1>1. /\ ptcall[p] = Idle /\ e.state = "alloc" /\ UNCHANGED <<ptnextid, ptpanic>>
      /\ IF e.rsem.count > 0 THEN Take(t, c) /\ UNCHANGED ptcall
         ELSE porttab' = t /\ ptcall' = [ptcall EXCEPT ![p] = c] /\ UNCHANGED ptnodes
              /\ ptgot' = NothingGot
  BY DEF PortReceive
<1>2. Typed /\ EntryOK(e, ptcall, q, 0, 0)
  BY Invariants
<1>3. /\ e \in Entry /\ e1 = [e EXCEPT !.rsem = PtWait(e.rsem, p)]
      /\ \A r \in PortId \ {q} : t[r] = porttab[r]
  BY <1>2 DEF Typed
<1>4. /\ Alike(e, e1) /\ e1.list = e.list /\ e1.ssem = e.ssem /\ e1.rsem = PtWait(e.rsem, p)
  BY <1>3 DEF Entry, Alike
<1>5. t \in [PortId -> Entry]
  <2>1. PtWait(e.rsem, p) \in [count : Int, queue : Seq(PortUsers)]
    BY <1>3, WaitType DEF Entry
  <2>2. e1 \in Entry
    BY <1>3, <2>1, OtherSemaphore
  <2> QED
    BY <1>2, <1>3, <2>2 DEF Typed
<1>6. e.seq \in Nat /\ e.rsem.count \in Int
  BY <1>2, EntryFacts
<1>7. CASE e.rsem.count > 0
  <2>1. e1.rsem = [count |-> e.rsem.count - 1, queue |-> e.rsem.queue]
    BY <1>4, <1>7 DEF PtWait
  <2>2. EntryOK(e1, ptcall, q, 0, 1)
    <3> HIDE DEF e, e1
    <3> QED
      BY <1>1, <1>2, <1>4, <1>7, <2>1, PassesReceiving
  <2>3. ptcall' = ptcall /\ ptcall' \in [PortUsers -> Call] /\ OneCall(ptcall, ptcall', p, q)
    BY <1>1, <1>2, <1>7 DEF Typed, OneCall
  <2>4. /\ Take(t, c) /\ c.port = q /\ c.seq = porttab[q].seq
        /\ EntryOK(t[q], ptcall', q, 0, 1)
    BY <1>1, <1>7, <2>2, <2>3
  <2> HIDE DEF c, t
  <2> QED
    BY <1>1, <1>3, <1>4, <1>5, <2>3, <2>4, Taken
<1>8. CASE ~(e.rsem.count > 0)
  <2>1. /\ porttab' = t /\ ptcall' = [ptcall EXCEPT ![p] = c] /\ UNCHANGED ptnodes
        /\ ptgot' = NothingGot
    BY <1>1, <1>8
  <2>2. c \in Call
    BY <1>6 DEF Call
  <2>3. ptcall' \in [PortUsers -> Call] /\ Others(ptcall, ptcall', p) /\ ptcall'[p] = c
    BY <1>2, <2>1, <2>2 DEF Typed, Others
  <2>4. Asks(c, q, "recv", e.seq)
    BY DEF Asks
  <2>5. EntryOK(e1, ptcall', q, 0, 0)
    <3>1. ptcall[p].op = "idle" /\ e.rsem.count <= 0 /\ Asks(ptcall'[p], q, "recv", e.seq)
      BY <1>1, <1>6, <1>8, <2>3, <2>4 DEF Idle
    <3> HIDE DEF e, e1, c, t
    <3> QED
      BY <1>1, <1>2, <1>4, <2>3, <3>1, BlocksReceiving
  <2>6. OneCall(ptcall, ptcall', p, q)
    BY <1>1, <2>3 DEF OneCall, About, Idle
  <2>7. OnePort(porttab, porttab', ptcall, ptcall', q)
    BY <1>3, <1>5, <2>1, <2>3, <2>5 DEF OnePort
  <2>8. /\ Kept(porttab'[q]) = Kept(e) /\ Contents(porttab'[q]) = Contents(e)
        /\ porttab'[q].seq = e.seq
    BY <1>4, <2>1 DEF Kept, Contents, Alike
  <2>9. \A r \in PortId : ptgot'[r] = Nil
    BY <2>1 DEF NothingGot, Nil
  <2>10. BoxStep(porttab[q], porttab'[q], ptgot'[q])
    BY <2>8, <2>9 DEF BoxStep
  <2> QED
    BY <1>1, <1>2, <2>1, <2>6, <2>7, <2>8, <2>9, <2>10, Step DEF Typed
<1> QED
  BY <1>7, <1>8

LEMMA CallTypes ==
    ASSUME NEW c \in Call
    PROVE  /\ c.op = "idle" => c = Idle
           /\ c.op # "idle" => c.port \in PortId
           /\ c.op \in Asking => c.seq \in Nat
           /\ c.op = "send" => c.msg \in PortUsers
           /\ c.op \in {"reset", "delete", "resetEnd", "deleteEnd"} =>
                c \in [op : Clearing, port : PortId]
  BY DEF Call, Idle, Asking, Clearing

\* A call that comes back from wait() ends, whatever it does.
LEMMA CallEnds ==
    ASSUME PortInv, NEW p \in PortUsers, ptcall[p].op \in Asking, ~Queued(p),
           ptcall' = [ptcall EXCEPT ![p] = Idle]
    PROVE  LET q == ptcall[p].port
               e == porttab[q]
               called(op) == IF Fresh(p) /\ ptcall[p].op = op THEN 1 ELSE 0
           IN  /\ q \in PortId /\ ptcall' \in [PortUsers -> Call]
               /\ OneCall(ptcall, ptcall', p, q)
               /\ EntryOK(e, ptcall', q, called("send"), called("recv"))
<1> DEFINE q == ptcall[p].port
           e == porttab[q]
           c == ptcall
           d == ptcall'
           s == IF Asks(c[p], q, "send", e.seq) THEN 1 ELSE 0
           m == IF Asks(c[p], q, "recv", e.seq) THEN 1 ELSE 0
<1>1. Typed /\ ptcall[p] \in Call
  BY Invariants DEF Typed
<1>2. q \in PortId /\ ptcall[p].op # "idle"
  BY <1>1, CallTypes DEF Asking
<1>3. EntryOK(e, ptcall, q, 0, 0)
  BY <1>2, Invariants
<1>4. d \in [PortUsers -> Call] /\ Others(c, d, p) /\ d[p] = Idle /\ d[p].op = "idle"
  BY <1>1 DEF Typed, Others, Idle, Call
<1>5. OutOf(e.ssem, p) /\ OutOf(e.rsem, p)
  BY <1>2, Running
<1>6. EntryOK(e, d, q, s, m)
  <2> HIDE DEF q, e, c, d
  <2> QED
    BY <1>3, <1>4, <1>5, Leaves DEF c
<1>7. OneCall(ptcall, ptcall', p, q)
  BY <1>4 DEF OneCall, About
<1>8. c[p].seq = e.seq => e.state = "alloc"
  BY <1>3 DEF EntryOK
<1>9. Fresh(p) <=> c[p].seq = e.seq
  BY <1>8 DEF Fresh
<1>10. /\ s = IF Fresh(p) /\ ptcall[p].op = "send" THEN 1 ELSE 0
       /\ m = IF Fresh(p) /\ ptcall[p].op = "recv" THEN 1 ELSE 0
  BY <1>9 DEF Asks
<1> QED
  BY <1>2, <1>4, <1>6, <1>7, <1>10

\* A step in which a port and the nodes stay as they are
LEMMA PortRests ==
    ASSUME PortInv, NEW p, NEW q \in PortId, OneCall(ptcall, ptcall', p, q),
           ptcall' \in [PortUsers -> Call], EntryOK(porttab[q], ptcall', q, 0, 0),
           UNCHANGED <<porttab, ptnodes, ptnextid, ptpanic>>, ptgot' = NothingGot
    PROVE  PortInv' /\ \A r \in PortId : BoxStep(porttab[r], porttab'[r], ptgot'[r])
<1>1. Typed
  BY Invariants
<1>2. OnePort(porttab, porttab', ptcall, ptcall', q)
  BY <1>1 DEF Typed, OnePort
<1>3. \A r \in PortId : ptgot'[r] = Nil
  BY DEF NothingGot, Nil
<1>4. BoxStep(porttab[q], porttab'[q], ptgot'[q])
  BY <1>3 DEF BoxStep
<1> QED
  BY <1>1, <1>2, <1>3, <1>4, Step DEF Typed

LEMMA SendAgainKeeps ==
    ASSUME PortInv, NEW p \in PortUsers, PortSendAgain(p)
    PROVE  PortInv' /\ \A r \in PortId : BoxStep(porttab[r], porttab'[r], ptgot'[r])
<1> DEFINE c == ptcall[p]
           q == c.port
<1>1. /\ c.op = "send" /\ ~Queued(p) /\ ptcall' = [ptcall EXCEPT ![p] = Idle]
      /\ IF Fresh(p) THEN Deliver(porttab, c) ELSE UNCHANGED <<porttab, ptnodes, ptpanic>>
      /\ UNCHANGED ptnextid /\ ptgot' = NothingGot
  BY DEF PortSendAgain
<1>2. Typed /\ c.op \in Asking
  BY <1>1, Invariants DEF Asking
<1>3. c.msg \in PortUsers
  BY <1>1, <1>2, CallTypes DEF Typed
<1>4. /\ q \in PortId /\ ptcall' \in [PortUsers -> Call] /\ OneCall(ptcall, ptcall', p, q)
      /\ EntryOK(porttab[q], ptcall', q, IF Fresh(p) THEN 1 ELSE 0, 0)
  BY <1>1, <1>2, CallEnds
<1>5. CASE Fresh(p)
  <2>1. porttab[q].state = "alloc" /\ c.seq = porttab[q].seq /\ Deliver(porttab, c)
        /\ EntryOK(porttab[q], ptcall', q, 1, 0)
    BY <1>1, <1>4, <1>5 DEF Fresh
  <2>2. Alike(porttab[q], porttab[q]) /\ porttab \in [PortId -> Entry]
    BY <1>2 DEF Alike, Typed
  <2> HIDE DEF c
  <2>3. c.port = q /\ c.msg = c.msg
    OBVIOUS
  <2> HIDE DEF q
  <2> QED
    BY <1>1, <1>3, <1>4, <2>1, <2>2, <2>3, Delivered
<1>6. CASE ~Fresh(p)
  <2> HIDE DEF c, q
  <2> QED
    BY <1>1, <1>4, <1>6, PortRests
<1> QED
  BY <1>5, <1>6

LEMMA ReceiveAgainKeeps ==
    ASSUME PortInv, NEW p \in PortUsers, PortReceiveAgain(p)
    PROVE  PortInv' /\ \A r \in PortId : BoxStep(porttab[r], porttab'[r], ptgot'[r])
<1> DEFINE c == ptcall[p]
           q == c.port
<1>1. /\ c.op = "recv" /\ ~Queued(p) /\ ptcall' = [ptcall EXCEPT ![p] = Idle]
      /\ IF Fresh(p) THEN Take(porttab, c)
         ELSE UNCHANGED <<porttab, ptnodes>> /\ ptgot' = NothingGot
      /\ UNCHANGED <<ptnextid, ptpanic>>
  BY DEF PortReceiveAgain
<1>2. Typed /\ c.op \in Asking
  BY <1>1, Invariants DEF Asking
<1>4. /\ q \in PortId /\ ptcall' \in [PortUsers -> Call] /\ OneCall(ptcall, ptcall', p, q)
      /\ EntryOK(porttab[q], ptcall', q, 0, IF Fresh(p) THEN 1 ELSE 0)
  BY <1>1, <1>2, CallEnds
<1>5. CASE Fresh(p)
  <2>1. porttab[q].state = "alloc" /\ c.seq = porttab[q].seq /\ Take(porttab, c)
        /\ EntryOK(porttab[q], ptcall', q, 0, 1)
    BY <1>1, <1>4, <1>5 DEF Fresh
  <2>2. Alike(porttab[q], porttab[q]) /\ porttab \in [PortId -> Entry]
    BY <1>2 DEF Alike, Typed
  <2> HIDE DEF c
  <2>3. c.port = q
    OBVIOUS
  <2> HIDE DEF q
  <2> QED
    BY <1>1, <1>4, <2>1, <2>2, <2>3, Taken
<1>6. CASE ~Fresh(p)
  <2>1. UNCHANGED <<porttab, ptnodes, ptnextid, ptpanic>> /\ ptgot' = NothingGot
        /\ EntryOK(porttab[q], ptcall', q, 0, 0)
    BY <1>1, <1>4, <1>6
  <2> HIDE DEF c, q
  <2> QED
    BY <1>4, <2>1, PortRests
<1> QED
  BY <1>5, <1>6

LEMMA AllNumbered == ASSUME PortInv PROVE Numbered(ptcall)
  BY Invariants, CallTypes DEF Typed, Numbered

LEMMA ClearKeeps ==
    ASSUME PortInv, NEW p \in PortUsers, NEW q \in PortId, NEW op \in {"reset", "delete"},
           PortClear(p, q, op)
    PROVE  PortInv' /\ \A r \in PortId : BoxStep(porttab[r], porttab'[r], ptgot'[r])
<1> DEFINE e == porttab[q]
           e2 == porttab'[q]
           sem == [count |-> IF op = "reset" THEN e.maxcnt ELSE 0, queue |-> <<>>]
<1>1. /\ ptcall[p] = Idle /\ e.state = "alloc"
      /\ porttab' = [porttab EXCEPT ![q].state = "limbo", ![q].seq = @ + 1,
                                    ![q].list = IF op = "reset" THEN <<>> ELSE @,
                                    ![q].ssem = sem]
      /\ ptnodes' = ptnodes + Len(e.list)
      /\ ptcall' = [ptcall EXCEPT ![p] = [op |-> op, port |-> q]]
      /\ UNCHANGED <<ptnextid, ptpanic>> /\ ptgot' = NothingGot
  BY DEF PortClear
<1>2. Typed /\ EntryOK(e, ptcall, q, 0, 0) /\ Numbered(ptcall)
  BY Invariants, AllNumbered
<1>3. e \in Entry /\ \A r \in PortId \ {q} : porttab'[r] = porttab[r]
  BY <1>1, <1>2 DEF Typed
<1>4. e2 = [e EXCEPT !.state = "limbo", !.seq = @ + 1,
                     !.list = IF op = "reset" THEN <<>> ELSE @, !.ssem = sem]
  BY <1>1, <1>2 DEF Typed
<1>5. /\ e2.state = "limbo" /\ e2.seq = e.seq + 1 /\ e2.maxcnt = e.maxcnt
      /\ e2.list = (IF op = "reset" THEN <<>> ELSE e.list)
      /\ e2.ssem = sem /\ e2.rsem = e.rsem
  <2> HIDE DEF e2, e, sem
  <2> QED
    BY <1>3, <1>4 DEF Entry
<1>6. [op |-> op, port |-> q] \in Call
  BY DEF Call, Clearing
<1>7. /\ ptcall' \in [PortUsers -> Call] /\ Others(ptcall, ptcall', p)
      /\ ptcall'[p] = [op |-> op, port |-> q]
  BY <1>1, <1>2, <1>6 DEF Typed, Others
<1>8. EntryOK(e2, ptcall', q, 0, 0)
  <2>1. ptcall[p].op = "idle" /\ ptcall'[p].op = op /\ ptcall'[p].port = q
    BY <1>1, <1>7 DEF Idle
  <2> HIDE DEF e2, e
  <2> QED
    BY <1>1, <1>2, <1>5, <1>7, <2>1, ClearStarts DEF e
<1>9. e2 \in Entry
  <2>1. /\ e2.seq \in Nat /\ e2.maxcnt \in Nat /\ e2.list \in Seq(PortMsg)
    BY <1>8, EntryFacts
  <2>2. sem \in [count : Int, queue : Seq(PortUsers)]
    BY <1>2, EntryFacts
  <2> HIDE DEF e2, e, sem
  <2> QED
    BY <1>3, <1>4, <1>5, <2>1, <2>2 DEF Entry
<1>10. OnePort(porttab, porttab', ptcall, ptcall', q)
  <2>1. porttab' \in [PortId -> Entry]
    BY <1>1, <1>2, <1>3, <1>9 DEF Typed
  <2> QED
    BY <1>3, <1>7, <1>8, <2>1 DEF OnePort
<1>11. OneCall(ptcall, ptcall', p, q)
  BY <1>1, <1>7 DEF OneCall, About, Idle
<1>12. ptnodes' \in Nat /\ ptnodes' + Kept(e2) = ptnodes + Kept(e)
  <2>1. Kept(e2) = 0 /\ Kept(e) = Len(e.list) /\ Len(e.list) \in Nat
    BY <1>1, <1>2, <1>5, EntryFacts DEF Kept
  <2> QED
    BY <1>1, <1>2, <2>1 DEF Typed
<1>13. \A r \in PortId : ptgot'[r] = Nil
  BY <1>1 DEF NothingGot, Nil
<1>14. BoxStep(porttab[q], porttab'[q], ptgot'[q])
  BY <1>5, <1>13 DEF BoxStep, Contents
<1> QED
  BY <1>1, <1>2, <1>10, <1>11, <1>12, <1>13, <1>14, Step DEF Typed

LEMMA ClearReceiversKeeps ==
    ASSUME PortInv, NEW p \in PortUsers, PortClearReceivers(p)
    PROVE  PortInv' /\ \A r \in PortId : BoxStep(porttab[r], porttab'[r], ptgot'[r])
<1> DEFINE c == ptcall[p]
           q == c.port
           e == porttab[q]
           e2 == porttab'[q]
           sem == [count |-> 0, queue |-> <<>>]
           op == IF c.op = "reset" THEN "resetEnd" ELSE "deleteEnd"
<1>1. /\ c.op \in {"reset", "delete"}
      /\ porttab' = [porttab EXCEPT ![q].rsem = sem]
      /\ ptcall' = [ptcall EXCEPT ![p] = [c EXCEPT !.op = op]]
      /\ UNCHANGED <<ptnodes, ptnextid, ptpanic>> /\ ptgot' = NothingGot
  BY DEF PortClearReceivers
<1>2. Typed /\ c \in [op : Clearing, port : PortId] /\ q \in PortId
  <2>1. Typed /\ c \in Call
    BY Invariants DEF Typed
  <2>2. c \in [op : Clearing, port : PortId]
    BY <1>1, <2>1, CallTypes
  <2> QED
    BY <2>1, <2>2
<1>3. EntryOK(e, ptcall, q, 0, 0) /\ e \in Entry
  BY <1>2, Invariants DEF Typed
<1>4. /\ \A r \in PortId \ {q} : porttab'[r] = porttab[r]
      /\ e2 = [e EXCEPT !.rsem = sem]
  BY <1>1, <1>2 DEF Typed
<1>5. Alike(e, e2) /\ e2.list = e.list /\ e2.ssem = e.ssem /\ e2.rsem = sem
  <2> HIDE DEF e2, e, sem
  <2> QED
    BY <1>3, <1>4 DEF Entry, Alike
<1>6. [c EXCEPT !.op = op] \in Call /\ [c EXCEPT !.op = op].op = op /\ [c EXCEPT !.op = op].port = q
  <2>1. op \in Clearing
    BY DEF Clearing
  <2> HIDE DEF c, op
  <2> QED
    BY <1>2, <2>1 DEF Call
<1>7. /\ ptcall' \in [PortUsers -> Call] /\ Others(ptcall, ptcall', p)
      /\ ptcall'[p].op = op /\ ptcall'[p].port = q
  BY <1>1, <1>2, <1>6 DEF Typed, Others
<1>8. EntryOK(e2, ptcall', q, 0, 0)
  <2> HIDE DEF e2, e, q
  <2> QED
    BY <1>1, <1>3, <1>5, <1>7, ClearGoesOn DEF q
<1>9. e2 \in Entry
  <2>1. sem \in [count : Int, queue : Seq(PortUsers)]
    OBVIOUS
  <2> HIDE DEF e2, e, sem
  <2> QED
    BY <1>3, <1>4, <2>1, OtherSemaphore
<1>10. OnePort(porttab, porttab', ptcall, ptcall', q)
  <2>1. porttab' \in [PortId -> Entry]
    BY <1>1, <1>2, <1>4, <1>9 DEF Typed
  <2> QED
    BY <1>4, <1>7, <1>8, <2>1 DEF OnePort
<1>11. OneCall(ptcall, ptcall', p, q)
  BY <1>7 DEF OneCall, About
<1>12. Kept(e2) = Kept(e) /\ Contents(e2) = Contents(e) /\ e2.seq = e.seq
  BY <1>5 DEF Kept, Contents, Alike
<1>13. \A r \in PortId : ptgot'[r] = Nil
  BY <1>1 DEF NothingGot, Nil
<1>14. BoxStep(porttab[q], porttab'[q], ptgot'[q])
  BY <1>2, <1>12, <1>13 DEF BoxStep
<1> HIDE DEF q
<1> QED
  BY <1>1, <1>2, <1>10, <1>11, <1>12, <1>13, <1>14, Step DEF Typed

LEMMA ClearEndKeeps ==
    ASSUME PortInv, NEW p \in PortUsers, PortClearEnd(p)
    PROVE  PortInv' /\ \A r \in PortId : BoxStep(porttab[r], porttab'[r], ptgot'[r])
<1> DEFINE c == ptcall[p]
           q == c.port
           e == porttab[q]
           e2 == porttab'[q]
           state == IF c.op = "resetEnd" THEN "alloc" ELSE "free"
<1>1. /\ c.op \in {"resetEnd", "deleteEnd"}
      /\ porttab' = [porttab EXCEPT ![q].state = state]
      /\ ptnextid' = IF c.op = "resetEnd" THEN ptnextid ELSE q
      /\ ptcall' = [ptcall EXCEPT ![p] = Idle]
      /\ UNCHANGED <<ptnodes, ptpanic>> /\ ptgot' = NothingGot
  BY DEF PortClearEnd
<1>2. Typed /\ q \in PortId
  <2>1. Typed /\ c \in Call
    BY Invariants DEF Typed
  <2>2. c \in [op : Clearing, port : PortId]
    BY <1>1, <2>1, CallTypes
  <2> QED
    BY <2>1, <2>2
<1>3. EntryOK(e, ptcall, q, 0, 0) /\ e \in Entry
  BY <1>2, Invariants DEF Typed
<1>4. /\ \A r \in PortId \ {q} : porttab'[r] = porttab[r]
      /\ e2 = [e EXCEPT !.state = state]
  BY <1>1, <1>2 DEF Typed
<1>5. /\ e2.state = state /\ e2.seq = e.seq /\ e2.maxcnt = e.maxcnt /\ e2.list = e.list
      /\ e2.ssem = e.ssem /\ e2.rsem = e.rsem
  <2> HIDE DEF e2, e, state
  <2> QED
    BY <1>3, <1>4 DEF Entry
<1>6. Idle \in Call /\ Idle.op = "idle"
  BY DEF Call, Idle
<1>7. ptcall' \in [PortUsers -> Call] /\ Others(ptcall, ptcall', p) /\ ptcall'[p].op = "idle"
  BY <1>1, <1>2, <1>6 DEF Typed, Others
<1>8. EntryOK(e2, ptcall', q, 0, 0)
  <2>1. /\ e.ssem \in [count : Int, queue : Seq(PortUsers)]
        /\ e.rsem \in [count : Int, queue : Seq(PortUsers)]
    BY <1>3 DEF Entry
  <2> HIDE DEF e2, e, q
  <2> QED
    BY <1>1, <1>3, <1>5, <1>7, <2>1, ClearEnds DEF q
<1>9. e2 \in Entry
  <2>1. state \in {"free", "limbo", "alloc"}
    OBVIOUS
  <2> HIDE DEF e2, e, state
  <2> QED
    BY <1>3, <1>4, <2>1 DEF Entry
<1>10. OnePort(porttab, porttab', ptcall, ptcall', q)
  <2>1. porttab' \in [PortId -> Entry]
    BY <1>1, <1>2, <1>4, <1>9 DEF Typed
  <2> QED
    BY <1>4, <1>7, <1>8, <2>1 DEF OnePort
<1>11. OneCall(ptcall, ptcall', p, q)
  BY <1>7 DEF OneCall, About
\* A port comes out of a reset without messages.
<1>12. e.state = "limbo" /\ (c.op = "resetEnd" => e.list = <<>>)
  BY <1>1, <1>3 DEF EntryOK, ClearingOK, Clearing
<1>13. Kept(e2) = Kept(e) /\ Contents(e2) = Contents(e) /\ e2.seq = e.seq
  BY <1>5, <1>12 DEF Kept, Contents
<1>14. \A r \in PortId : ptgot'[r] = Nil
  BY <1>1 DEF NothingGot, Nil
<1>15. BoxStep(porttab[q], porttab'[q], ptgot'[q])
  BY <1>2, <1>13, <1>14 DEF BoxStep
<1>16. ptnextid' \in PortId
  BY <1>1, <1>2 DEF Typed
<1> HIDE DEF q
<1> QED
  BY <1>1, <1>2, <1>10, <1>11, <1>13, <1>14, <1>15, <1>16, Step DEF Typed

LEMMA InTable ==
    ASSUME NEW i \in Int
    PROVE  i % NPORTS \in PortId
<1>1. PICK k \in Nat \ {0} : k = NPORTS
  BY Sizes0
<1>2. i % k \in 0 .. k - 1
  OBVIOUS
<1> QED
  BY <1>1, <1>2 DEF PortId

LEMMA CreateKeeps ==
    ASSUME PortInv, NEW n \in PortCounts, PortCreate(n)
    PROVE  PortInv' /\ \A r \in PortId : BoxStep(porttab[r], porttab'[r], ptgot'[r])
<1>1. Typed /\ Numbered(ptcall) /\ n \in Int
  BY Invariants, AllNumbered, Sizes0
<1>2. PICK k \in 0 .. NPORTS - 1 :
         LET q == (ptnextid + k) % NPORTS
         IN  /\ porttab[q].state = "free"
             /\ porttab' = [porttab EXCEPT ![q] =
                   [state |-> "alloc", seq |-> @.seq + 1, maxcnt |-> n, list |-> <<>>,
                    ssem |-> [count |-> n, queue |-> <<>>], rsem |-> [count |-> 0, queue |-> <<>>]]]
             /\ ptnextid' = (q + 1) % NPORTS
             /\ UNCHANGED <<ptnodes, ptcall, ptpanic>> /\ ptgot' = NothingGot
  BY DEF PortCreate
<1>3. PICK q \in PortId : q = (ptnextid + k) % NPORTS
  <2>1. ptnextid \in Int /\ k \in Int
    BY <1>1, Sizes0 DEF Typed
  <2> QED
    BY <2>1, InTable
<1> DEFINE e == porttab[q]
           e2 == [state |-> "alloc", seq |-> e.seq + 1, maxcnt |-> n, list |-> <<>>,
                  ssem |-> [count |-> n, queue |-> <<>>], rsem |-> [count |-> 0, queue |-> <<>>]]
<1>4. /\ e.state = "free" /\ porttab' = [porttab EXCEPT ![q] = e2]
      /\ ptnextid' = (q + 1) % NPORTS
      /\ UNCHANGED <<ptnodes, ptcall, ptpanic>> /\ ptgot' = NothingGot
  BY <1>2, <1>3
<1>5. /\ porttab'[q] = e2 /\ \A r \in PortId \ {q} : porttab'[r] = porttab[r]
  BY <1>1, <1>4 DEF Typed
<1>6. EntryOK(e, ptcall, q, 0, 0) /\ e.seq \in Nat
  BY Invariants, EntryFacts
<1>7. EntryOK(e2, ptcall, q, 0, 0)
  BY <1>1, <1>4, <1>6, CreateOK
<1>8. e2 \in Entry
  <2>1. n \in Nat /\ <<>> \in Seq(PortMsg) /\ <<>> \in Seq(PortUsers)
    BY Sizes0
  <2> QED
    BY <1>6, <2>1 DEF Entry
<1>9. OnePort(porttab, porttab', ptcall, ptcall', q)
  <2>1. porttab' \in [PortId -> Entry]
    BY <1>1, <1>4, <1>8 DEF Typed
  <2> QED
    BY <1>1, <1>4, <1>5, <1>7, <2>1 DEF OnePort, Typed
<1>10. OneCall(ptcall, ptcall', "none", q)
  BY <1>4 DEF OneCall
<1>11. Kept(porttab'[q]) = 0 /\ Kept(e) = 0
  BY <1>4, <1>5 DEF Kept
<1>12. \A r \in PortId : ptgot'[r] = Nil
  BY <1>4 DEF NothingGot, Nil
<1>13. BoxStep(e, porttab'[q], ptgot'[q])
  BY <1>5, <1>12 DEF BoxStep, Contents
<1>14. ptnextid' \in PortId
  BY <1>4, InTable, Sizes0
<1> HIDE DEF e2
<1> QED
  BY <1>1, <1>4, <1>9, <1>10, <1>11, <1>12, <1>13, <1>14, Step DEF Typed

-----------------------------------------------------------------------------
(* The theorems.                                                            *)

LEMMA NextKeeps ==
    ASSUME PortInv, PortNext
    PROVE  PortInv' /\ \A r \in PortId : BoxStep(porttab[r], porttab'[r], ptgot'[r])
<1>1. CASE \E n \in PortCounts : PortCreate(n)
  BY <1>1, CreateKeeps
<1>2. CASE \E p \in PortUsers, q \in PortId : PortSend(p, q)
  BY <1>2, SendKeeps
<1>3. CASE \E p \in PortUsers, q \in PortId : PortReceive(p, q)
  BY <1>3, ReceiveKeeps
<1>4. CASE \E p \in PortUsers, q \in PortId, op \in {"reset", "delete"} : PortClear(p, q, op)
  BY <1>4, ClearKeeps
<1>5. CASE \E p \in PortUsers : PortSendAgain(p)
  BY <1>5, SendAgainKeeps
<1>6. CASE \E p \in PortUsers : PortReceiveAgain(p)
  BY <1>6, ReceiveAgainKeeps
<1>7. CASE \E p \in PortUsers : PortClearReceivers(p)
  BY <1>7, ClearReceiversKeeps
<1>8. CASE \E p \in PortUsers : PortClearEnd(p)
  BY <1>8, ClearEndKeeps
<1> QED
  BY <1>1, <1>2, <1>3, <1>4, <1>5, <1>6, <1>7, <1>8 DEF PortNext

LEMMA InitHolds == PortInit => PortInv
<1> SUFFICES ASSUME PortInit PROVE PortInv
  OBVIOUS
<1> DEFINE sem == [count |-> 0, queue |-> <<>>]
           e == [state |-> "free", seq |-> 0, maxcnt |-> 0, list |-> <<>>, ssem |-> sem, rsem |-> sem]
<1>1. /\ porttab = [q \in PortId |-> e]
      /\ ptnodes = PtMsgs /\ ptnextid = 0 /\ ptcall = [p \in PortUsers |-> Idle] /\ ptpanic = FALSE
  BY DEF PortInit
<1>2. <<>> \in Seq(PortMsg) /\ <<>> \in Seq(PortUsers) /\ 0 \in PortId
  BY Sizes0 DEF PortId
<1>3. e \in Entry /\ Idle \in Call
  BY <1>2 DEF Entry, Call
<1>4. PortType
  BY <1>1, <1>2, <1>3, Sizes0 DEF PortType
<1>5. ASSUME NEW q \in PortId PROVE EntryOK(porttab[q], ptcall, q, 0, 0)
  <2>1. porttab[q] = e
    BY <1>1
  <2>2. SemOK(sem, ptcall, q, "send") /\ SemOK(sem, ptcall, q, "recv")
    BY NobodyIn
  <2>3. \A x \in PortUsers : ptcall[x].op \notin Asking /\ ptcall[x].op \notin Clearing
    BY <1>1 DEF Idle, Asking, Clearing
  <2>4. ClearingOK(e, ptcall, q)
    BY <2>3 DEF ClearingOK
  <2>5. EntryOK(e, ptcall, q, 0, 0)
    BY <1>2, <2>2, <2>3, <2>4 DEF EntryOK
  <2> QED
    BY <2>1, <2>5
<1>6. NodesOK
  <2> DEFINE f == InPorts(porttab)
  <2>1. \A q \in PortId : f[q] \in 0 .. 0
    BY <1>1 DEF InPorts, Kept
  <2> HIDE DEF f
  <2>2. SumFunctionOnSet(f, PortId) \in 0 .. Cardinality(PortId) * 0
    BY <2>1, Sizes0, SumBounded
  <2>3. Cardinality(PortId) \in Nat
    BY Sizes0, FS_CardinalityType
  <2>4. SumFunctionOnSet(f, PortId) = 0
    BY <2>2, <2>3
  <2> QED
    BY <1>1, <2>4, Sizes0 DEF NodesOK, f
<1> QED
  BY <1>4, <1>5, <1>6 DEF PortInv, EntriesOK

LEMMA StutterKeeps == PortInv /\ UNCHANGED portVars => PortInv'
  BY DEF PortInv, PortType, EntriesOK, NodesOK, portVars, InPorts

\* The invariant of the ports holds for any number of processes, ports and nodes: in every
\* entry of porttab the semaphores' counts and queues, the list of messages and the calls
\* under way agree, through ptsend(), ptrecv(), ptreset() and ptdelete().
THEOREM PortInvariance == PortSpec => []PortInv
<1>1. PortInit => PortInv
  BY InitHolds
<1>2. PortInv /\ [PortNext]_portVars => PortInv'
  BY NextKeeps, StutterKeeps
<1> QED
  BY <1>1, <1>2, PTL DEF PortSpec

LEMMA MaxIsPos ==
    ASSUME NEW n \in Int
    PROVE  Max({n, 0}) = Pos(n)
<1>1. Pos(n) \in {n, 0} /\ \A y \in {n, 0} : Pos(n) >= y
  BY DEF Pos
<1>2. \A x \in {n, 0} : (\A y \in {n, 0} : x >= y) => x = Pos(n)
  BY DEF Pos
<1> QED
  BY <1>1, <1>2 DEF Max

LEMMA InQueue ==
    ASSUME NEW s \in Seq(PortUsers), NEW u \in Seq(PortUsers), NEW p
    PROVE  Contains(s \o u, p) <=> \/ \E i \in 1 .. Len(s) : s[i] = p
                                   \/ \E i \in 1 .. Len(u) : u[i] = p
<1>3. /\ Len(s \o u) = Len(s) + Len(u) /\ Len(s) \in Nat /\ Len(u) \in Nat
      /\ \A i \in 1 .. Len(s) : (s \o u)[i] = s[i]
      /\ \A i \in 1 .. Len(u) : (s \o u)[Len(s) + i] = u[i]
  OBVIOUS
<1>4. \A i \in 1 .. Len(s) + Len(u) : \/ i \in 1 .. Len(s)
                                      \/ \E j \in 1 .. Len(u) : i = Len(s) + j
  <2> TAKE i \in 1 .. Len(s) + Len(u)
  <2>1. CASE i > Len(s)
    <3>1. i - Len(s) \in 1 .. Len(u) /\ i = Len(s) + (i - Len(s))
      BY <1>3, <2>1
    <3> QED
      BY <3>1
  <2> QED
    BY <1>3, <2>1
<1>5. \A i \in 1 .. Len(s) : i \in 1 .. Len(s) + Len(u)
  BY <1>3
<1>6. \A i \in 1 .. Len(u) : Len(s) + i \in 1 .. Len(s) + Len(u)
  BY <1>3
<1>7. ASSUME Contains(s \o u, p)
      PROVE  (\E i \in 1 .. Len(s) : s[i] = p) \/ (\E i \in 1 .. Len(u) : u[i] = p)
  <2>1. PICK i \in 1 .. Len(s) + Len(u) : (s \o u)[i] = p
    BY <1>3, <1>7 DEF Contains
  <2> QED
    BY <1>3, <1>4, <2>1
<1>8. ASSUME NEW i \in 1 .. Len(s), s[i] = p PROVE Contains(s \o u, p)
  BY <1>3, <1>5, <1>8 DEF Contains
<1>9. ASSUME NEW i \in 1 .. Len(u), u[i] = p PROVE Contains(s \o u, p)
  BY <1>3, <1>6, <1>9 DEF Contains
<1> QED
  BY <1>7, <1>8, <1>9

LEMMA QueuesOf ==
    ASSUME PortInv, NEW q \in PortId
    PROVE  /\ SemOK(porttab[q].ssem, ptcall, q, "send") /\ SemOK(porttab[q].rsem, ptcall, q, "recv")
           /\ porttab[q].ssem.queue \in Seq(PortUsers) /\ porttab[q].rsem.queue \in Seq(PortUsers)
<1>1. EntryOK(porttab[q], ptcall, q, 0, 0)
  BY Invariants
<1> QED
  BY <1>1, EntryFacts, QueueFacts

\* Who was released from a queue is in no other.
LEMMA ReleasedOut ==
    ASSUME PortInv, NEW q \in PortId, porttab[q].state = "alloc"
    PROVE  /\ Released(q, "send") = Out(porttab[q].ssem.queue, ptcall, q, "send", porttab[q].seq)
           /\ Released(q, "recv") = Out(porttab[q].rsem.queue, ptcall, q, "recv", porttab[q].seq)
<1>1. ASSUME NEW p \in PortUsers, Queued(p)
      PROVE  \E r \in PortId :
               \/ ptcall[p].op = "send" /\ ptcall[p].port = r
                  /\ \E i \in 1 .. Len(porttab[r].ssem.queue) : porttab[r].ssem.queue[i] = p
               \/ ptcall[p].op = "recv" /\ ptcall[p].port = r
                  /\ \E i \in 1 .. Len(porttab[r].rsem.queue) : porttab[r].rsem.queue[i] = p
  <2>1. PICK r \in PortId : Contains(porttab[r].ssem.queue \o porttab[r].rsem.queue, p)
    BY <1>1 DEF Queued
  <2>2. \/ \E i \in 1 .. Len(porttab[r].ssem.queue) : porttab[r].ssem.queue[i] = p
        \/ \E i \in 1 .. Len(porttab[r].rsem.queue) : porttab[r].rsem.queue[i] = p
    <3>1. porttab[r].ssem.queue \in Seq(PortUsers) /\ porttab[r].rsem.queue \in Seq(PortUsers)
      BY QueuesOf
    <3> QED
      BY <2>1, <3>1, InQueue
  <2>3. SemOK(porttab[r].ssem, ptcall, r, "send") /\ SemOK(porttab[r].rsem, ptcall, r, "recv")
    BY QueuesOf
  <2> QED
    BY <2>2, <2>3 DEF SemOK
<1>2. ASSUME NEW p \in PortUsers
      PROVE  /\ (\E i \in 1 .. Len(porttab[q].ssem.queue) : porttab[q].ssem.queue[i] = p) => Queued(p)
             /\ (\E i \in 1 .. Len(porttab[q].rsem.queue) : porttab[q].rsem.queue[i] = p) => Queued(p)
  <2>1. Contains(porttab[q].ssem.queue \o porttab[q].rsem.queue, p) <=>
          \/ \E i \in 1 .. Len(porttab[q].ssem.queue) : porttab[q].ssem.queue[i] = p
          \/ \E i \in 1 .. Len(porttab[q].rsem.queue) : porttab[q].rsem.queue[i] = p
    BY QueuesOf, InQueue
  <2> QED
    BY <2>1 DEF Queued
<1>3. ASSUME NEW p \in PortUsers
      PROVE  p \in Released(q, "send") <=>
               p \in Out(porttab[q].ssem.queue, ptcall, q, "send", porttab[q].seq)
  BY <1>1, <1>2 DEF Released, Out, Asks, Fresh
<1>4. ASSUME NEW p \in PortUsers
      PROVE  p \in Released(q, "recv") <=>
               p \in Out(porttab[q].rsem.queue, ptcall, q, "recv", porttab[q].seq)
  BY <1>1, <1>2 DEF Released, Out, Asks, Fresh
<1>5. /\ Released(q, "send") \subseteq PortUsers /\ Released(q, "recv") \subseteq PortUsers
      /\ \A queue, op : Out(queue, ptcall, q, op, porttab[q].seq) \subseteq PortUsers
  BY DEF Released, Out
<1> QED
  BY <1>3, <1>4, <1>5

LEMMA InvCounts == PortInv => PortCounted
<1> SUFFICES ASSUME PortInv PROVE PortCounted
  OBVIOUS
<1>1. ~ptpanic /\ ptnodes + SumFunction([q \in PortId |-> Kept(porttab[q])]) = PtMsgs
  BY DEF PortInv, PortType, NodesOK, InPorts, SumFunction
<1>2. ASSUME NEW q \in PortId, porttab[q].state = "alloc"
      PROVE  LET port == porttab[q] IN
             /\ Len(port.list) = Max({port.rsem.count, 0}) + Cardinality(Released(q, "recv"))
             /\ port.maxcnt = Max({port.ssem.count, 0}) + Len(port.list)
                                + Cardinality(Released(q, "send"))
  <2> DEFINE e == porttab[q]
             a == Pos(e.rsem.count)
             b == Cardinality(Out(e.rsem.queue, ptcall, q, "recv", e.seq))
             u == Pos(e.ssem.count)
             v == Cardinality(Out(e.ssem.queue, ptcall, q, "send", e.seq))
             n == Len(e.list)
  <2>1. EntryOK(e, ptcall, q, 0, 0)
    BY Invariants
  <2>2. Balanced(e, ptcall, q, 0, 0)
    BY <1>2, <2>1 DEF EntryOK, AllocOK
  <2>3. n = a + b + 0 /\ e.maxcnt = u + n + v + 0
    BY <2>2 DEF Balanced
  <2>4. n \in Int /\ a \in Int /\ b \in Int /\ u \in Int /\ v \in Int
    BY <2>1, EntryFacts, OutFinite
  <2>5. /\ Max({e.rsem.count, 0}) = a /\ Max({e.ssem.count, 0}) = u
        /\ Cardinality(Released(q, "recv")) = b /\ Cardinality(Released(q, "send")) = v
    BY <1>2, <2>1, EntryFacts, MaxIsPos, ReleasedOut
  <2>6. Len(e.list) = n
    OBVIOUS
  <2> HIDE DEF e, a, b, u, v, n
  <2>7. n = a + b /\ e.maxcnt = u + n + v
    BY <2>3, <2>4
  <2>8. /\ Len(e.list) = Max({e.rsem.count, 0}) + Cardinality(Released(q, "recv"))
        /\ e.maxcnt = Max({e.ssem.count, 0}) + Len(e.list) + Cardinality(Released(q, "send"))
    BY <2>5, <2>6, <2>7
  <2> QED
    BY <2>8 DEF e
<1> QED
  BY <1>1, <1>2 DEF PortCounted

LEMMA InvForgetsNobody == PortInv => NobodyForgotten
<1> SUFFICES ASSUME PortInv, NEW q \in PortId, NEW p \in PortUsers, porttab[q].state # "limbo",
                    Contains(porttab[q].ssem.queue \o porttab[q].rsem.queue, p)
             PROVE  ptcall[p].seq = porttab[q].seq
  BY DEF NobodyForgotten
<1> DEFINE e == porttab[q]
<1>1. EntryOK(e, ptcall, q, 0, 0)
  BY Invariants
<1>2. \/ \E i \in 1 .. Len(e.ssem.queue) : e.ssem.queue[i] = p
      \/ \E i \in 1 .. Len(e.rsem.queue) : e.rsem.queue[i] = p
  BY QueuesOf, InQueue
<1>3. CASE e.state = "alloc"
  BY <1>1, <1>2, <1>3 DEF EntryOK, AllocOK, Current
<1>4. CASE e.state = "free"
  <2>1. e.ssem.count >= 0 /\ e.rsem.count >= 0
    BY <1>1, <1>4 DEF EntryOK
  <2>2. Len(e.ssem.queue) = 0 /\ Len(e.rsem.queue) = 0
    BY <2>1, QueuesOf, QueueFacts
  <2> QED
    BY <1>2, <2>2
<1> QED
  BY <1>1, <1>3, <1>4 DEF EntryOK

\* What every port and the nodes keep between calls, for any number of processes, ports and
\* nodes that are enough for the counts ports are created with: a port has the messages and the
\* free places its semaphores and the processes they released say, every node is free or in
\* one port, ptsend() never panics (ptsend.c:36-38), and a reset or a deletion leaves nobody
\* waiting (ptclear.c:40-48).
THEOREM PortsSound == PortSpec => []PortSound
<1>1. PortInv => PortSound
  BY InvCounts, InvForgetsNobody DEF PortSound
<1> QED
  BY <1>1, PortInvariance, PTL

\* Every port is the queue of Mailbox: messages leave it in the order they entered, each
\* once, and only for calls made since its last reset, deletion or creation
\* (ptsend.c:29-35, ptrecv.c:28-33).
THEOREM MailboxesImplemented == PortSpec => PortPromise
<1>1. PortInit => \A q \in PortId : Box(q)!Init
  BY DEF PortInit, NothingGot, Box!Init, Box!Nothing
<1>2. ASSUME PortInv, [PortNext]_portVars
      PROVE  [\A q \in PortId : Box(q)!Next \/ UNCHANGED Box(q)!vars]_portVars
  <2>1. CASE UNCHANGED portVars
    BY <2>1
  <2>2. CASE PortNext
    <3>1. \A q \in PortId : BoxStep(porttab[q], porttab'[q], ptgot'[q])
      BY <1>2, <2>2, NextKeeps
    <3>2. ASSUME NEW q \in PortId PROVE Box(q)!Next
      <4>1. BoxStep(porttab[q], porttab'[q], ptgot'[q])
        BY <3>1
      <4> QED
        BY <4>1 DEF BoxStep, Contents, Nil, Box!Next, Box!Receive, Box!NewEpoch, Box!Rest,
                    Box!Send, Box!Nothing
    <3> QED
      BY <3>2
  <2> QED
    BY <1>2, <2>1, <2>2
<1> QED
  BY <1>1, <1>2, PortInvariance, PTL DEF PortSpec, PortPromise
=================================================================================
