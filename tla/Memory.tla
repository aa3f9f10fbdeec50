--------------------------------- MODULE Memory ---------------------------------
(***************************************************************************)
(* The memory manager (getmem.c, getstk.c, freemem.c, initialize.c): a     *)
(* list of free blocks in the order of their addresses, from which         *)
(* getmem() takes the first block that fits and getstk() the top of the    *)
(* last one, and to which freemem() returns a block merged with its        *)
(* neighbours.  Every call runs with interrupts disabled from its start to *)
(* its end and does not block, so each is one action.                      *)
(***************************************************************************)
EXTENDS Integers, FiniteSets, SequencesExt

CONSTANTS
    Width,              \* bits of a uint32
    minheap, maxheap,   \* the heap is the bytes from minheap below maxheap
    Requests            \* the numbers of bytes callers ask for

Word == 2 ^ Width
Unit == 8               \* roundmb(): sizeof(struct memblk)
Top == 4                \* sizeof(uint32)
MEM_SYSERR == -1
MEM_OK == 1

\* start.S:82 does not align minheap (only the stack pointer): this is what the linker has to see to.
\* MAXADDR (conf.h:61, memory.h:9) is far below the largest address.
ASSUME HeapAssumption ==
    /\ Width \in Nat /\ Word \in Nat
    /\ minheap \in Nat \ {0} /\ maxheap \in Nat /\ minheap < maxheap
    /\ maxheap + 2 * Unit <= Word
    /\ minheap % Unit = 0 /\ maxheap % Unit = 0
ASSUME RequestAssumption == Requests \subseteq 0 .. Word - 1

VARIABLES
    free,       \* the blocks on memlist: [at, mlength] in list order
    mlength,    \* memlist.mlength
    lent,       \* history: what callers hold, [at, n, by] as in Heap
    memlast     \* history: the last call, [call, at, n, value] as in Heap

memVars == <<free, mlength, lent, memlast>>

Roundmb(n) == (((n + 7) % Word) \div Unit) * Unit

\* sysinit(): all of the heap is one block.
MemInit ==
    /\ free = <<[at |-> minheap, mlength |-> maxheap - minheap]>>
    /\ mlength = maxheap - minheap
    /\ lent = {}
    /\ memlast = [call |-> "none", at |-> 0, n |-> 0, value |-> 0]

Fitting(nbytes) == {i \in DOMAIN free : free[i].mlength >= nbytes}

Lend(call, n, value) ==
    /\ mlength' = mlength - Roundmb(n)
    /\ lent' = lent \cup {[at |-> value, n |-> n, by |-> call]}
    /\ memlast' = [call |-> call, at |-> 0, n |-> n, value |-> value]

\* getmem(): the first block that fits, from its bottom.
Getmem(n) ==
    /\ n # 0 /\ Fitting(Roundmb(n)) # {}
    /\ LET nbytes == Roundmb(n)
           i == Min(Fitting(nbytes))
           block == free[i]
       IN  /\ free' = IF block.mlength = nbytes THEN RemoveAt(free, i)
                      ELSE ReplaceAt(free, i, [at |-> block.at + nbytes,
                                               mlength |-> block.mlength - nbytes])
           /\ Lend("getmem", n, block.at)

\* Mutant of Getstk: the first block that fits.
GetstkFirst(n) ==
    /\ n # 0 /\ Fitting(Roundmb(n)) # {}
    /\ LET nbytes == Roundmb(n)
           i == Min(Fitting(nbytes))
           block == free[i]
       IN  /\ free' = IF block.mlength = nbytes THEN RemoveAt(free, i)
                      ELSE ReplaceAt(free, i, [block EXCEPT !.mlength = @ - nbytes])
           /\ Lend("getstk", n, block.at + block.mlength - Top)

\* getstk(): the last block that fits, from its top; the highest word of the
\* stack is returned.
Getstk(n) ==
    /\ n # 0 /\ Fitting(Roundmb(n)) # {}
    /\ LET nbytes == Roundmb(n)
           i == Max(Fitting(nbytes))
           block == free[i]
       IN  /\ free' = IF block.mlength = nbytes THEN RemoveAt(free, i)
                      ELSE ReplaceAt(free, i, [block EXCEPT !.mlength = @ - nbytes])
           /\ Lend("getstk", n, block.at + block.mlength - Top)

\* getmem() and getstk() return SYSERR.
NoMemory(call, n) ==
    /\ n = 0 \/ Fitting(Roundmb(n)) = {}
    /\ memlast' = [call |-> call, at |-> 0, n |-> n, value |-> MEM_SYSERR]
    /\ UNCHANGED <<free, mlength, lent>>

-----------------------------------------------------------------------------
Above(block) == block.at + block.mlength

\* How many blocks of the list freemem() walks past.
Passed(addr) ==
    Cardinality({i \in DOMAIN free : \A j \in 1 .. i : free[j].at < addr})

Overlaps(addr, nbytes) ==
    LET i == Passed(addr)
    IN  \/ i > 0 /\ addr < Above(free[i])
        \/ i < Len(free) /\ (addr + nbytes) % Word > free[i + 1].at

Refused(addr, n) ==
    n = 0 \/ addr < minheap \/ addr > maxheap \/ Overlaps(addr, Roundmb(n))

\* Mutant of Merged: not merged with the block above.
MergedBelow(addr, nbytes) ==
    LET i == Passed(addr)
        below == i > 0 /\ Above(free[i]) = addr
        block == [at |-> IF below THEN free[i].at ELSE addr,
                  mlength |-> (IF below THEN free[i].mlength ELSE 0) + nbytes]
    IN  SubSeq(free, 1, IF below THEN i - 1 ELSE i) \o <<block>>
          \o SubSeq(free, i + 1, Len(free))

\* The list with a block put in its place and merged with its neighbours.
Merged(addr, nbytes) ==
    LET i == Passed(addr)
        below == i > 0 /\ Above(free[i]) = addr
        above == i < Len(free) /\ addr + nbytes = free[i + 1].at
        block == [at |-> IF below THEN free[i].at ELSE addr,
                  mlength |-> (IF below THEN free[i].mlength ELSE 0) + nbytes
                                + (IF above THEN free[i + 1].mlength ELSE 0)]
    IN  SubSeq(free, 1, IF below THEN i - 1 ELSE i) \o <<block>>
          \o SubSeq(free, IF above THEN i + 2 ELSE i + 1, Len(free))

\* freemem() of a block it takes.
Freemem(addr, n) ==
    /\ ~Refused(addr, n)
    /\ free' = Merged(addr, Roundmb(n))
    /\ mlength' = mlength + Roundmb(n)
    /\ memlast' = [call |-> "freemem", at |-> addr, n |-> n, value |-> MEM_OK]

\* freemem() of a block it does not take.
FreememRefused(addr, n) ==
    /\ Refused(addr, n)
    /\ memlast' = [call |-> "freemem", at |-> addr, n |-> n, value |-> MEM_SYSERR]
    /\ UNCHANGED <<free, mlength>>

\* freestk(): kill() frees a stack by the address and the length of create().
Freestk(addr, n) == Freemem(addr - Roundmb(n) + Top, Roundmb(n))

\* Callers give back what they hold.  A block whose size was rounded to nothing
\* is kept: its header is that of a free block and would be linked to itself.
GiveBack(h) ==
    /\ Roundmb(h.n) # 0
    /\ IF h.by = "getstk" THEN Freestk(h.at, h.n) ELSE Freemem(h.at, h.n)
    /\ lent' = lent \ {h}

FreeBytes == UNION {b.at .. Above(b) - 1 : b \in ToSet(free)}

\* Callers give back twice what they held, or what was never theirs to give.  Bounds: a block
\* of two units, which may lie in a free one or reach into it from either side, and of none;
\* and no block that begins at maxheap, which freemem() takes (freemem.c:20).
Mistake(addr, n) ==
    /\ \/ n = 0 \/ addr \notin minheap .. maxheap
       \/ (addr .. addr + Roundmb(n) - 1) \cap FreeBytes # {}
    /\ Freemem(addr, n) \/ FreememRefused(addr, n)
    /\ UNCHANGED lent

Addresses == {Unit * i : i \in 0 .. (maxheap \div Unit) + 1}

MemNext ==
    \/ \E n \in Requests : Getmem(n) \/ Getstk(n)
    \/ \E n \in Requests, call \in {"getmem", "getstk"} : NoMemory(call, n)
    \/ \E h \in lent : GiveBack(h)
    \/ \E addr \in Addresses : Mistake(addr, 2 * Unit)
    \/ Mistake(minheap, 0)

MemSpec == MemInit /\ [][MemNext]_memVars

-----------------------------------------------------------------------------
\* The bytes a caller may use: as many as it asked for.
Theirs(h) ==
    IF h.by = "getstk" THEN h.at + Top - h.n .. h.at + Top - 1 ELSE h.at .. h.at + h.n - 1

\* The free list is in the order of its addresses, inside the heap, its blocks
\* do not touch (freemem.c:62-67 merges them), each has room for its own header
\* (memory.h:30) and starts where a header may; and memlist.mlength is their sum, whatever
\* was split and merged (getmem.c:30,40, getstk.c:49, freemem.c:49).
FreeListOK ==
    /\ \A i \in DOMAIN free :
         /\ minheap <= free[i].at /\ Above(free[i]) <= maxheap
         /\ free[i].mlength >= Unit
         /\ free[i].at % Unit = 0 /\ free[i].mlength % Unit = 0
    /\ \A i, j \in DOMAIN free : i < j => Above(free[i]) < free[j].at
    /\ mlength = SumFunction([i \in DOMAIN free |-> free[i].mlength])

Promise == INSTANCE Heap WITH
    SYSERR <- MEM_SYSERR, OK <- MEM_OK, avail <- FreeBytes, held <- lent, last <- memlast

\* Any order of getmem(), getstk() and freemem() does what a set of available
\* bytes would: the lowest and the highest run that fits, a refusal only if
\* there is none, and nothing freed twice.
HeapPromise == Promise!Spec
=============================================================================
