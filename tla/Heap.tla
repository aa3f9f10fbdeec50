---------------------------------- MODULE Heap ----------------------------------
(***************************************************************************)
(* What the memory manager promises, without a free list: memory is a set  *)
(* of bytes; getmem() lends the lowest run of available bytes that is long *)
(* enough and getstk() the highest, a request fails only if no run is long *)
(* enough, and what is given back is available again.                      *)
(***************************************************************************)
EXTENDS Integers, FiniteSetsExt

CONSTANTS
    SYSERR, OK,
    Unit,           \* sizes are rounded up to a multiple of this
    Top,            \* what getstk() returns lies this far below the top of a block
    minheap, maxheap

VARIABLES
    avail,      \* the bytes nobody holds
    held,       \* [at, n, by]: what was returned, for how many bytes, by which call
    last        \* [call, at, n, value]: the last call with its arguments and result

vars == <<avail, held, last>>

Size(n) == ((n + Unit - 1) \div Unit) * Unit
Bytes(base, n) == base .. base + Size(n) - 1
Runs(n) == {base \in avail : Bytes(base, n) \subseteq avail}

\* The first byte of a block somebody holds.
Base(h) == IF h.by = "getstk" THEN h.at + Top - Size(h.n) ELSE h.at

\* Before the first call.
NoCallYet == [call |-> "none", at |-> 0, n |-> 0, value |-> 0]

Init == avail = minheap .. maxheap - 1 /\ held = {} /\ last = NoCallYet

Lend(call, n, base, value) ==
    /\ avail' = avail \ Bytes(base, n)
    /\ held' = held \cup {[at |-> value, n |-> n, by |-> call]}
    /\ last' = [call |-> call, at |-> 0, n |-> n, value |-> value]

Getmem(n) == n > 0 /\ Runs(n) # {} /\ Lend("getmem", n, Min(Runs(n)), Min(Runs(n)))

Getstk(n) ==
    /\ n > 0 /\ Runs(n) # {}
    /\ Lend("getstk", n, Max(Runs(n)), Max(Runs(n)) + Size(n) - Top)

NoMemory(call, n) ==
    /\ n = 0 \/ Runs(n) = {}
    /\ last' = [call |-> call, at |-> 0, n |-> n, value |-> SYSERR]
    /\ UNCHANGED <<avail, held>>

GiveBack(h) ==
    /\ avail' = avail \cup Bytes(Base(h), h.n)
    /\ held' = held \ {h}
    /\ last' = [call |-> "freemem", at |-> Base(h), value |-> OK,
                n |-> IF h.by = "getstk" THEN Size(h.n) ELSE h.n]

\* Memory that is available already, or is none of the heap, is not taken.
Refuse(addr, n) ==
    /\ \/ n = 0
       \/ addr \notin minheap .. maxheap
       \/ Bytes(addr, n) \cap avail # {}
    /\ last' = [call |-> "freemem", at |-> addr, n |-> n, value |-> SYSERR]
    /\ UNCHANGED <<avail, held>>

\* The calls are whatever callers make.
Next ==
    \/ Getmem(last'.n) \/ Getstk(last'.n)
    \/ \E call \in {"getmem", "getstk"} : NoMemory(call, last'.n)
    \/ \E h \in held : GiveBack(h)
    \/ Refuse(last'.at, last'.n)

Spec == Init /\ [][Next]_vars
================================================================================
