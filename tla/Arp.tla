----------------------------------- MODULE Arp -----------------------------------
(***************************************************************************)
(* Resolution of IP addresses into Ethernet addresses (net/arp.c).         *)
(*                                                                         *)
(* The cache is only touched with interrupts disabled, so a section of     *)
(* arp_resolve() between disable() and restore(), and all of arp_in(), is  *)
(* one step.  The Ethernet address of host a is written a; any host may    *)
(* send an ARP packet at any time, an answer may be late or never come.    *)
(* Any process may send a message to one that waits for an answer, as      *)
(* kill() of a child does; only the values TIMEOUT and SYSERR are left out. *)
(***************************************************************************)
EXTENDS Integers, FiniteSets

CONSTANTS
    ArpUsers,       \* processes that call arp_resolve()
    ArpHosts,       \* IP addresses
    ARP_SIZ,        \* entries of the cache
    ARP_RETRY       \* times a request is sent

ASSUME ArpAssumption == ARP_SIZ \in Nat \ {0} /\ ARP_RETRY \in Nat \ {0}

VARIABLES
    arpcache,       \* [state, addr, pid, mac]; history: left, whoever made the entry took
                    \* another message for the answer while it was pending
    arpnext,        \* nextslot of arp_alloc()
    arpcall,        \* a process's call: [op, slot, addr, i]; history: good, it took no other
                    \* message for the answer, and nobody made an entry for addr in slot since
    arpmsg,         \* prmsg of a process that waits for the answer, which recvclr() has
                    \* cleared before: "OK" answers what it asks, "other" does not
    arpgot          \* history: what a call has returned OK with, in the step that ends it

arpVars == <<arpcache, arpnext, arpcall, arpmsg, arpgot>>

Nobody == "nobody"
NoCall == [op |-> "idle"]
NoAnswer == [ret |-> "none"]
ArpSlots == 0 .. ARP_SIZ - 1

ArpInit ==
    /\ arpcache = [s \in ArpSlots |-> [state |-> "free", addr |-> Nobody, pid |-> Nobody,
                                       mac |-> Nobody, left |-> FALSE]]
    /\ arpnext = 0
    /\ arpcall = [p \in ArpUsers |-> NoCall]
    /\ arpmsg = [p \in ArpUsers |-> "none"]
    /\ arpgot = NoAnswer

Entries(state) == {s \in ArpSlots : arpcache[s].state = state}

\* The entries for an address that are in use.
Known(a) == {s \in ArpSlots : arpcache[s].state # "free" /\ arpcache[s].addr = a}

\* The entry of S that a search from nextslot on meets first.
NextOf(S) ==
    LET distance(s) == (s - arpnext) % ARP_SIZ
    IN  CHOOSE s \in S : \A t \in S : distance(s) <= distance(t)

\* arp_alloc() may return s: a free entry, or else one that is resolved.
Alloc(s) ==
    LET S == IF Entries("free") # {} THEN Entries("free") ELSE Entries("resolved")
    IN  S # {} /\ s = NextOf(S) /\ arpnext' = (s + 1) % ARP_SIZ

\* The calls of all when slot s gets an entry for host a.
Renewed(s, a) ==
    [p \in ArpUsers |->
        IF arpcall[p] # NoCall /\ arpcall[p].slot = s /\ arpcall[p].addr = a
        THEN [arpcall[p] EXCEPT !.good = FALSE] ELSE arpcall[p]]

AllPending == Entries("pending") = ArpSlots

Return(p, r) ==
    /\ arpcall' = [arpcall EXCEPT ![p] = NoCall]
    /\ arpgot' = r

NoReturn == arpgot' = NoAnswer

\* It is SYSERR or TIMEOUT.
Fail(p) == Return(p, NoAnswer)

HostIs(a, mac, good) == [ret |-> "OK", addr |-> a, mac |-> mac, good |-> good]

-----------------------------------------------------------------------------
\* arp_resolve(), first section.
Resolve(p, a) ==
    /\ arpcall[p] = NoCall
    /\ \/ \E s \in Known(a) :
            /\ IF arpcache[s].state = "pending" THEN Fail(p)
               ELSE Return(p, HostIs(a, arpcache[s].mac, TRUE))
            /\ UNCHANGED <<arpcache, arpnext, arpmsg>>
       \/ /\ Known(a) = {} /\ AllPending
          /\ Fail(p) /\ UNCHANGED <<arpcache, arpnext, arpmsg>>
       \/ /\ Known(a) = {}
          /\ \E s \in ArpSlots :
               /\ Alloc(s)
               /\ arpcache' = [arpcache EXCEPT ![s].state = "pending", ![s].addr = a, ![s].pid = p]
               /\ arpcall' = [Renewed(s, a) EXCEPT ![p] = [op |-> "ask", slot |-> s, addr |-> a,
                                                           i |-> 0, good |-> TRUE]]
          /\ NoReturn /\ UNCHANGED arpmsg

\* recvclr(), the first request, and recvtime().
Ask(p) ==
    /\ arpcall[p].op = "ask"
    /\ arpcall' = [arpcall EXCEPT ![p].op = "wait"]
    /\ NoReturn /\ UNCHANGED <<arpcache, arpnext, arpmsg>>

\* recvtime() ends without a message: the request is sent again, or given up.
TimedOut(p) ==
    /\ arpcall[p].op = "wait" /\ arpmsg[p] = "none"
    /\ arpcall' = [arpcall EXCEPT ![p].i = @ + 1,
                                  ![p].op = IF arpcall[p].i + 1 < ARP_RETRY THEN "wait" ELSE "check"]
    /\ NoReturn /\ UNCHANGED <<arpcache, arpnext, arpmsg>>

\* recvtime() ends with a message, which is taken for the answer, whoever sent it.
Answered(p) ==
    LET c    == arpcall[p]
        ok   == arpmsg[p] = "OK"
        mine == arpcache[c.slot].state = "pending" /\ arpcache[c.slot].pid = p
    IN  /\ c.op = "wait" /\ arpmsg[p] # "none"
        /\ arpmsg' = [arpmsg EXCEPT ![p] = "none"]
        /\ arpcall' = [arpcall EXCEPT ![p].op = "check", ![p].good = ok /\ c.good]
        /\ arpcache' = [arpcache EXCEPT ![c.slot].left = @ \/ (mine /\ ~ok)]
        /\ NoReturn /\ UNCHANGED arpnext

Answer(c) == HostIs(c.addr, arpcache[c.slot].mac, c.good)

\* Mutant of Finish: an entry that got no answer stays pending.
FinishPending(p) ==
    LET c == arpcall[p]
    IN  /\ c.op = "check"
        /\ Return(p, IF arpcache[c.slot].addr = c.addr /\ c.i < ARP_RETRY THEN Answer(c)
                     ELSE NoAnswer)
        /\ UNCHANGED <<arpcache, arpnext, arpmsg>>

\* arp_resolve(), last section.
Finish(p) ==
    LET c == arpcall[p]
    IN  /\ c.op = "check"
        /\ \/ /\ arpcache[c.slot].addr # c.addr
              /\ Fail(p) /\ UNCHANGED arpcache
           \/ /\ arpcache[c.slot].addr = c.addr /\ c.i < ARP_RETRY
              /\ Return(p, Answer(c)) /\ UNCHANGED arpcache
           \/ /\ arpcache[c.slot].addr = c.addr /\ c.i = ARP_RETRY
              /\ Fail(p)
              /\ arpcache' = [arpcache EXCEPT ![c.slot].state = "free", ![c.slot].pid = Nobody,
                                               ![c.slot].left = FALSE]
        /\ UNCHANGED <<arpnext, arpmsg>>

\* send() of a message to p, which keeps the one it has.
Notify(p, m) ==
    arpmsg' = [arpmsg EXCEPT ![p] = IF arpcall[p].op = "wait" /\ @ = "none" THEN m ELSE @]

\* Another process sends p a message.
Stray(p) ==
    /\ arpcall[p].op = "wait" /\ arpmsg[p] = "none" /\ Notify(p, "other")
    /\ NoReturn /\ UNCHANGED <<arpcache, arpnext, arpcall>>

\* arp_in(): the sender is in the cache.  The pid of an entry is only looked at while
\* it is pending; its process may have gone on to ask for another host.
Update(s, a) ==
    LET e == arpcache[s]
    IN  /\ arpcache' = [arpcache EXCEPT ![s].state = "resolved", ![s].pid = Nobody, ![s].mac = a,
                                         ![s].left = FALSE]
        /\ IF e.state = "pending" THEN Notify(e.pid, IF e.left THEN "other" ELSE "OK")
           ELSE UNCHANGED arpmsg

\* arp_in() of a packet from host a, which asks for this machine's address or not.
\* The answer to it is not modelled.
ArpIn(a, asks) ==
    /\ \/ \E s \in Known(a) : Update(s, a) /\ UNCHANGED <<arpnext, arpcall>>
       \/ /\ Known(a) = {} /\ asks
          /\ \E s \in ArpSlots :
               /\ Alloc(s) /\ arpcall' = Renewed(s, a)
               /\ arpcache' = [arpcache EXCEPT ![s].state = "resolved", ![s].addr = a,
                                               ![s].mac = a]
          /\ UNCHANGED arpmsg
    /\ NoReturn

ArpNext ==
    \/ \E p \in ArpUsers :
         \/ \E a \in ArpHosts : Resolve(p, a)
         \/ Ask(p) \/ TimedOut(p) \/ Answered(p) \/ Finish(p) \/ Stray(p)
    \/ \E a \in ArpHosts, asks \in BOOLEAN : ArpIn(a, asks)

ArpSpec == ArpInit /\ [][ArpNext]_arpVars

-----------------------------------------------------------------------------
\* No host has two entries, whoever makes them, processes that ask for it at once or
\* arp_in() (arp.c:45-69, 172-181); and an entry that is resolved has the Ethernet address
\* of its host, also when it was another host's before (arp.c:188-198, 221-229).
HostOnce ==
    /\ \A a \in ArpHosts : Cardinality(Known(a)) <= 1
    /\ \A s \in Entries("resolved") : arpcache[s].mac = arpcache[s].addr

\* Who made a pending entry is still asking for it, unless it took another message for
\* the answer: the entry will not stay pending, and keep others from the host
\* (arp.c:64-67, 107-139).
PendingAsked ==
    \A s \in Entries("pending") :
        LET c == arpcall[arpcache[s].pid]
        IN  \/ c # NoCall /\ c.slot = s /\ c.addr = arpcache[s].addr
            \/ arpcache[s].left

\* A call returns the Ethernet address of its host, although others change the cache and
\* take its entry between the answer and the section that reads it (arp.c:107-134), unless
\* it took another message for the answer, or its entry was given to others and then to
\* somebody who asks for the same host.
AnswerRight == arpgot.ret = "OK" /\ arpgot.good => arpgot.mac = arpgot.addr

\* The cache is right, no entry keeps a host from being resolved, and what is read from
\* the cache is the address that was asked for.
ArpSound == HostOnce /\ PendingAsked /\ AnswerRight
==================================================================================
