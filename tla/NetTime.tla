--------------------------------- MODULE NetTime ---------------------------------
(***************************************************************************)
(* How the board gets its address and the time: getlocalip() (net/dhcp.c)  *)
(* and getutime() (system/getutime.c), which calls it.  Both are clients   *)
(* of UDP: they register an end, send, wait for answers and release the    *)
(* end.  Packets are lost, delayed and reordered; the servers are external.*)
(*                                                                         *)
(* A packet is [type, mine, first, ip]: whether its transaction identifier *)
(* is this board's, and whether the message type is its first option.      *)
(* Addresses are named after the servers that offer them.                  *)
(***************************************************************************)
EXTENDS Integers, SequencesExt

CONSTANTS
    TmUsers,        \* processes
    DhcpServers,
    TmSlots,        \* entries of udptab other programs leave
    TmQueue,        \* UDP_QSIZ
    DhcpTries,      \* dhcp.c:71
    MaxTmCalls      \* bound: calls that are made

ASSUME TmAssumption == TmSlots \in Nat

VARIABLES
    tmtab,          \* udptab: [state, key, pid, queue]; a free entry keeps its key
    tmcall,         \* the call of a process: [at, then, tries, end, pkt]
    tmmsg,          \* its prmsg
    netdata,        \* NetData: [ipvalid, ipaddr]
    tmboot,         \* Date.dt_bootvalid
    tmair,          \* packets on their way to the board
    tmoffered,      \* history: addresses that were offered to this board
    tmleak,         \* history: getutime() has returned because getlocalip() failed
    tmcalls         \* how many calls were made

tmVars == <<tmtab, tmcall, tmmsg, netdata, tmboot, tmair, tmoffered, tmleak, tmcalls>>

TmEntries == 1 .. TmSlots
Foreign == [type |-> "offer", mine |-> FALSE, first |-> TRUE, ip |-> "foreign"]
NoPacket == [type |-> "none", mine |-> FALSE, first |-> FALSE, ip |-> "none"]
TimeAnswer == [NoPacket EXCEPT !.type = "time"]
FromServer(type, first, s) == [type |-> type, mine |-> TRUE, first |-> first, ip |-> s]

TmCall(at, then) == [at |-> at, then |-> then, tries |-> 0, end |-> 0, pkt |-> NoPacket]
TmIdle == TmCall("idle", "none")

TmInit ==
    /\ tmtab = [e \in TmEntries |->
                   [state |-> "free", key |-> "none", pid |-> "none", queue |-> <<>>]]
    /\ tmcall = [p \in TmUsers |-> TmIdle] /\ tmmsg = [p \in TmUsers |-> "none"]
    /\ netdata = [ipvalid |-> FALSE, ipaddr |-> "none"] /\ tmboot = FALSE
    /\ tmair = {} /\ tmoffered = {} /\ tmleak = FALSE /\ tmcalls = 0

Goes(p, at) == tmcall' = [tmcall EXCEPT ![p].at = at]
At(p, at) == tmcall[p].at = at

-----------------------------------------------------------------------------
(* UDP, as module Endpoints has it, but for ends that several processes    *)
(* use.                                                                    *)

Registered(key) == {e \in TmEntries : tmtab[e].state # "free" /\ tmtab[e].key = key}
TmFree == {e \in TmEntries : tmtab[e].state = "free"}
MayRegister(key) == Registered(key) = {} /\ TmFree # {}

\* udp_register(), which fails or not.
TmRegister(key) ==
    tmtab' = IF ~MayRegister(key) THEN tmtab
             ELSE [tmtab EXCEPT ![Min(TmFree)] = [state |-> "used", key |-> key, pid |-> "none",
                                                  queue |-> <<>>]]

\* udp_release() leaves an entry alone that somebody waits for.
TmRelease(key) ==
    LET es == {e \in Registered(key) : tmtab[e].state = "used"}
    IN  tmtab' = IF es = {} THEN tmtab
                 ELSE [tmtab EXCEPT ![Min(es)].state = "free", ![Min(es)].queue = <<>>]

\* The entry udp_recv() takes, also when it is free.
Found(key) == {e \in TmEntries : tmtab[e].key = key}

KeyOf(p) == IF At(p, "time") \/ At(p, "timed") THEN "time" ELSE "dhcp"

\* udp_recv() returns with ret: getlocalip() looks at what it read, or goes on with its
\* loop after a timeout, and after an error, when its buffer holds nothing it has not
\* refused; getutime() is finished.
RecvReturns(p, ret, pkt) ==
    IF KeyOf(p) = "time"
    THEN /\ Goes(p, "timeup") /\ tmboot' = (tmboot \/ ret = "OK")
    ELSE /\ tmcall' = [tmcall EXCEPT ![p].at = IF ret = "OK" THEN "read" ELSE "again",
                                      ![p].pkt = pkt]
         /\ UNCHANGED tmboot

\* It starts, and waits if there is no packet.
TmRecv(p) ==
    /\ At(p, "dhcp") \/ At(p, "time")
    /\ LET es == Found(KeyOf(p))
           e  == Min(es)
       IN  IF es = {} THEN RecvReturns(p, "SYSERR", NoPacket) /\ UNCHANGED <<tmtab, tmmsg>>
           ELSE IF tmtab[e].queue # <<>>
           THEN /\ RecvReturns(p, "OK", Head(tmtab[e].queue))
                /\ tmtab' = [tmtab EXCEPT ![e].queue = Tail(@)] /\ UNCHANGED tmmsg
           ELSE /\ tmtab' = [tmtab EXCEPT ![e].state = "recv", ![e].pid = p]
                /\ tmmsg' = [tmmsg EXCEPT ![p] = "none"]
                /\ tmcall' = [tmcall EXCEPT ![p].at = IF @ = "time" THEN "timed" ELSE "dhcped",
                                            ![p].end = e]
                /\ UNCHANGED tmboot
    /\ UNCHANGED <<netdata, tmair, tmoffered, tmleak, tmcalls>>

\* recvtime() returns a message or TIMEOUT; the entry is the one it began with.
TmWoken(p) ==
    /\ At(p, "dhcped") \/ At(p, "timed")
    /\ LET e == tmcall[p].end
           q == tmtab[e].queue
       IN  IF tmmsg[p] = "OK" /\ q # <<>>
           THEN /\ RecvReturns(p, "OK", Head(q))
                /\ tmtab' = [tmtab EXCEPT ![e].state = "used", ![e].queue = Tail(q)]
           ELSE /\ tmtab' = [tmtab EXCEPT ![e].state = "used"]
                /\ IF tmmsg[p] = "OK" THEN Goes(p, "robbed") /\ UNCHANGED tmboot
                   ELSE RecvReturns(p, "TIMEOUT", NoPacket)
    /\ tmmsg' = [tmmsg EXCEPT ![p] = "none"]
    /\ UNCHANGED <<netdata, tmair, tmoffered, tmleak, tmcalls>>

\* udp_in() of a packet; it is dropped when no entry is for it.
TmIn(m) ==
    LET key == IF m = TimeAnswer THEN "time" ELSE "dhcp"
        es  == {e \in Registered(key) : Len(tmtab[e].queue) < TmQueue}
        e   == Min(es)
    IN  /\ m \in tmair /\ tmair' = tmair \ {m}
        /\ IF es = {} THEN UNCHANGED <<tmtab, tmmsg>>
           ELSE /\ tmtab' = [tmtab EXCEPT ![e].queue = Append(@, m), ![e].state = "used"]
                /\ tmmsg' = IF tmtab[e].state = "recv" /\ tmmsg[tmtab[e].pid] = "none"
                            THEN [tmmsg EXCEPT ![tmtab[e].pid] = "OK"] ELSE tmmsg
        /\ UNCHANGED <<tmcall, netdata, tmboot, tmoffered, tmleak, tmcalls>>

\* Another board's exchange with its server is heard, or another process sends a message.
TmForeign ==
    /\ \E p \in TmUsers : At(p, "dhcped") /\ tmair' = tmair \cup {Foreign}
    /\ UNCHANGED <<tmtab, tmcall, tmmsg, netdata, tmboot, tmoffered, tmleak, tmcalls>>

TmDisturbed(p) ==
    /\ (At(p, "dhcped") \/ At(p, "timed")) /\ tmmsg[p] = "none"
    /\ tmmsg' = [tmmsg EXCEPT ![p] = "other"]
    /\ UNCHANGED <<tmtab, tmcall, netdata, tmboot, tmair, tmoffered, tmleak, tmcalls>>

-----------------------------------------------------------------------------
(* getutime() and getlocalip().                                            *)

\* getutime() is called before the time is known; it returns when it cannot register.
Getutime(p) ==
    /\ At(p, "idle") /\ ~tmboot /\ tmcalls < MaxTmCalls /\ tmcalls' = tmcalls + 1
    /\ TmRegister("time")
    /\ tmcall' = [tmcall EXCEPT ![p] = IF MayRegister("time") THEN TmCall("ip", "time") ELSE @]
    /\ UNCHANGED <<tmmsg, netdata, tmboot, tmair, tmoffered, tmleak>>

\* getlocalip() returns to the program, or to getutime().
IpReturns(p, ok) ==
    LET then == tmcall[p].then
    IN  /\ tmcall' = [tmcall EXCEPT ![p] = IF then = "time" /\ ok THEN TmCall("ask", then)
                                           ELSE TmIdle]
        /\ tmleak' = (tmleak \/ (then = "time" /\ ~ok))

\* getlocalip() is called by a program.
Getlocalip(p) ==
    /\ At(p, "idle") /\ ~netdata.ipvalid /\ tmcalls < MaxTmCalls /\ tmcalls' = tmcalls + 1
    /\ tmcall' = [tmcall EXCEPT ![p] = TmCall("ip", "program")]
    /\ UNCHANGED <<tmtab, tmmsg, netdata, tmboot, tmair, tmoffered, tmleak>>

\* It starts; what udp_register() says is not looked at.
IpStart(p) ==
    /\ At(p, "ip")
    /\ IF netdata.ipvalid THEN IpReturns(p, TRUE) /\ UNCHANGED tmtab
       ELSE TmRegister("dhcp") /\ Goes(p, "discover") /\ UNCHANGED tmleak
    /\ UNCHANGED <<tmmsg, netdata, tmboot, tmair, tmoffered, tmcalls>>

\* The one discover message, which some servers hear.
Discover(p) ==
    /\ At(p, "discover") /\ Goes(p, "dhcp")
    /\ \E heard \in SUBSET DhcpServers, first \in BOOLEAN :
         /\ tmair' = tmair \cup {FromServer("offer", first, s) : s \in heard}
         /\ tmoffered' = tmoffered \cup heard
    /\ UNCHANGED <<tmtab, tmmsg, netdata, tmboot, tmleak, tmcalls>>

\* Mutant of Accepted: the transaction identifier is not compared.
AcceptedAnyones(m) == m.type = "offer" \/ (m.type = "ack" /\ m.first)

\* An offer, wherever its type stands among the options, or an acknowledgement that
\* starts with it.
Accepted(m) == m.mine /\ (m.type = "offer" \/ (m.type = "ack" /\ m.first))

\* A message is looked at.  An offer is answered by a request, and its address used
\* whatever the server says to that.
IpLook(p) ==
    LET m == tmcall[p].pkt
    IN  /\ At(p, "read")
        /\ IF Accepted(m) THEN Goes(p, "found") /\ netdata' = [ipvalid |-> TRUE, ipaddr |-> m.ip]
           ELSE Goes(p, "again") /\ UNCHANGED netdata
        /\ \/ UNCHANGED tmair
           \/ /\ Accepted(m) /\ m.type = "offer"
              /\ \E type \in {"ack", "nak"}, first \in BOOLEAN :
                   tmair' = tmair \cup {FromServer(type, first, m.ip)}
        /\ UNCHANGED <<tmtab, tmmsg, tmboot, tmoffered, tmleak, tmcalls>>

\* The loop goes on, or is over.
IpAgain(p) ==
    LET tries == tmcall[p].tries + 1
    IN  /\ At(p, "again")
        /\ tmcall' = [tmcall EXCEPT ![p].tries = tries, ![p].end = 0, ![p].pkt = NoPacket,
                                    ![p].at = IF tries < DhcpTries THEN "dhcp" ELSE "lost"]
        /\ UNCHANGED <<tmtab, tmmsg, netdata, tmboot, tmair, tmoffered, tmleak, tmcalls>>

\* The end is released, and getlocalip() returns an address or SYSERR.
IpEnd(p) ==
    /\ At(p, "found") \/ At(p, "lost")
    /\ TmRelease("dhcp") /\ IpReturns(p, At(p, "found"))
    /\ UNCHANGED <<tmmsg, netdata, tmboot, tmair, tmoffered, tmcalls>>

\* getutime() asks the time server, whose address may not be found.
AskTime(p) ==
    /\ At(p, "ask")
    /\ \/ Goes(p, "time") /\ (tmair' = tmair \cup {TimeAnswer} \/ UNCHANGED tmair)
       \/ Goes(p, "timeup") /\ UNCHANGED tmair
    /\ UNCHANGED <<tmtab, tmmsg, netdata, tmboot, tmoffered, tmleak, tmcalls>>

\* It releases its end and returns, with the time or without.
TimeEnd(p) ==
    /\ At(p, "timeup") /\ TmRelease("time") /\ tmcall' = [tmcall EXCEPT ![p] = TmIdle]
    /\ UNCHANGED <<tmmsg, netdata, tmboot, tmair, tmoffered, tmleak, tmcalls>>

TmNext ==
    \/ \E p \in TmUsers : \/ TmRecv(p) \/ TmWoken(p) \/ TmDisturbed(p)
                          \/ Getutime(p) \/ Getlocalip(p) \/ IpStart(p) \/ Discover(p)
                          \/ IpLook(p) \/ IpAgain(p) \/ IpEnd(p) \/ AskTime(p) \/ TimeEnd(p)
    \/ TmForeign \/ \E m \in tmair : TmIn(m)

TmSpec == TmInit /\ [][TmNext]_tmVars

-----------------------------------------------------------------------------
\* The board uses an address only that a server offered to it, whatever answers come late,
\* to an earlier call or to another board (dhcp.c:82-84).  Who is told of a packet finds
\* it.  And no end stays in the table when all calls have returned, through timeouts,
\* errors and packets that are not read, but that of a getutime() that got no address:
\* it returns without udp_release() (getutime.c:38-40).
NetTimeSound ==
    /\ netdata.ipvalid => netdata.ipaddr \in tmoffered
    /\ \A p \in TmUsers : ~At(p, "robbed")
    /\ (\A p \in TmUsers : At(p, "idle")) =>
          \A e \in TmEntries : tmtab[e].state # "free" => tmtab[e].key = "time" /\ tmleak
==================================================================================
