----------------------------- MODULE ExchangeProofs -----------------------------
(***************************************************************************)
(* Proofs about processes that ask the network for something, whoever else *)
(* does: the ARP cache is right and so are the answers read from it, also  *)
(* when other messages are taken for them (Arp), for any processes, hosts  *)
(* and sizes; the board's address is one it was offered, and one process   *)
(* that asks for it and the time releases its ends (NetTime).              *)
(***************************************************************************)
EXTENDS Arp, NetTime, Counting

-----------------------------------------------------------------------------
(* The ARP cache: the invariant.                                           *)

ArpEntry == [state : {"free", "pending", "resolved"}, addr : ArpHosts \cup {Nobody},
             pid : ArpUsers \cup {Nobody}, mac : ArpHosts \cup {Nobody}, left : BOOLEAN]
ArpAsking == [op : {"ask", "wait", "check"}, slot : ArpSlots, addr : ArpHosts,
              i : 0 .. ARP_RETRY, good : BOOLEAN]

ArpTypes ==
    /\ arpcache \in [ArpSlots -> ArpEntry]
    /\ arpcall \in [ArpUsers -> {NoCall} \cup ArpAsking]
    /\ arpmsg \in [ArpUsers -> {"none", "OK", "other"}]
    /\ \A p \in ArpUsers : arpcall[p].op \in {"ask", "wait"} => arpcall[p].i < ARP_RETRY
    /\ \A p \in ArpUsers : arpcall[p].op # "wait" => arpmsg[p] = "none"

\* An entry in use is for one host, which has no other, and its address if it is resolved.
EntriesOK ==
    /\ \A s, t \in ArpSlots : /\ arpcache[s].state # "free" /\ arpcache[t].state # "free"
                              /\ arpcache[s].addr = arpcache[t].addr
                              => s = t
    /\ \A s \in ArpSlots : arpcache[s].state = "resolved" => arpcache[s].mac = arpcache[s].addr

\* Who made a pending entry asks for it, if it took no other message for the answer.
AskersOK ==
    \A s \in ArpSlots : arpcache[s].state = "pending" =>
        LET p == arpcache[s].pid
        IN  /\ p \in ArpUsers
            /\ \/ arpcache[s].left
               \/ /\ arpcall[p] # NoCall
                  /\ arpcall[p].slot = s /\ arpcall[p].addr = arpcache[s].addr

\* The process p has made entry s and waits for it to be resolved.
Pends(s, p) == arpcache[s].state = "pending" /\ arpcache[s].pid = p /\ ~arpcache[s].left

\* Who has an answer, or had one before it ran out of attempts, has no entry that is still
\* pending: the call it is about to end leaves none behind.
Has(p) == \/ arpcall[p].op = "wait" /\ arpmsg[p] = "OK"
          \/ arpcall[p].op = "check" /\ arpcall[p].i < ARP_RETRY
AnswersOK == \A p \in ArpUsers : Has(p) => \A s \in ArpSlots : ~Pends(s, p)

\* Its entry, while it is for the host it asked for, has the address of that host, unless
\* somebody else made it.
ToldOK ==
    \A p \in ArpUsers : Has(p) /\ arpcall[p].good =>
        LET e == arpcache[arpcall[p].slot]
        IN  e.addr = arpcall[p].addr => e.mac = arpcall[p].addr

ArpInv == ArpTypes /\ EntriesOK /\ AskersOK /\ AnswersOK /\ ToldOK /\ AnswerRight

-----------------------------------------------------------------------------
(* The ARP cache: every step keeps it.                                     *)

LEMMA CallTypes ==
    ASSUME ArpTypes, NEW p \in ArpUsers, arpcall[p].op # "idle"
    PROVE  arpcall[p] \in ArpAsking /\ arpcall[p] # NoCall
  BY DEF ArpTypes, NoCall, ArpAsking

\* A step that changes one process' call and at most gives its entry up.
LEMMA CallStep ==
    ASSUME ArpInv, NEW p \in ArpUsers, NEW c \in ArpAsking, NEW l \in BOOLEAN,
           arpcall[p].op # "idle", arpcall' = [arpcall EXCEPT ![p] = c],
           arpcache' = [arpcache EXCEPT ![c.slot].left = l],
           c.slot = arpcall[p].slot, c.addr = arpcall[p].addr,
           c.op \in {"ask", "wait"} => c.i < ARP_RETRY,
           c.good => arpcall[p].good, NoReturn,
           UNCHANGED arpmsg \/ arpmsg' = [arpmsg EXCEPT ![p] = "none"],
           c.op # "wait" => arpmsg'[p] = "none", arpcache[c.slot].left => l,
           Has(p)' => (\A s \in ArpSlots : ~Pends(s, p)') /\ (c.good => Has(p))
    PROVE  ArpInv'
<1> DEFINE sl == c.slot
           e  == [arpcache[sl] EXCEPT !.left = l]
<1>1. /\ \A q \in ArpUsers : arpcall'[q] = IF q = p THEN c ELSE arpcall[q]
      /\ arpcall' \in [ArpUsers -> {NoCall} \cup ArpAsking]
  BY DEF ArpInv, ArpTypes
<1>2. /\ arpmsg' \in [ArpUsers -> {"none", "OK", "other"}]
      /\ \A q \in ArpUsers \ {p} : arpmsg'[q] = arpmsg[q]
  BY DEF ArpInv, ArpTypes
<1>3. sl \in ArpSlots /\ arpcache[sl] \in ArpEntry
  BY DEF ArpInv, ArpTypes, ArpAsking
<1>4. /\ e \in ArpEntry /\ e.state = arpcache[sl].state /\ e.addr = arpcache[sl].addr
      /\ e.pid = arpcache[sl].pid /\ e.mac = arpcache[sl].mac /\ e.left = l
  BY <1>3 DEF ArpEntry
<1>5. /\ arpcache' \in [ArpSlots -> ArpEntry]
      /\ \A s \in ArpSlots : arpcache'[s] = IF s = sl THEN e ELSE arpcache[s]
  BY <1>3, <1>4 DEF ArpInv, ArpTypes
<1> HIDE DEF e
<1>6. \A s \in ArpSlots : /\ arpcache'[s].state = arpcache[s].state
                          /\ arpcache'[s].addr = arpcache[s].addr
                          /\ arpcache'[s].pid = arpcache[s].pid
                          /\ arpcache'[s].mac = arpcache[s].mac
                          /\ arpcache[s].left => arpcache'[s].left
  BY <1>4, <1>5
<1>7. ArpTypes'
  BY <1>1, <1>2, <1>5 DEF ArpInv, ArpTypes
<1>8. EntriesOK'
  BY <1>6 DEF ArpInv, EntriesOK
<1>9. AskersOK'
  BY <1>1, <1>6 DEF ArpInv, AskersOK, ArpAsking, NoCall
<1>10. \A q \in ArpUsers \ {p} : Has(q)' => Has(q)
  BY <1>1, <1>2 DEF Has
<1>11. AnswersOK'
  <2>1. \A q \in ArpUsers \ {p}, s \in ArpSlots : Pends(s, q)' => Pends(s, q)
    BY <1>6 DEF Pends
  <2> QED
    BY <1>10, <2>1 DEF ArpInv, AnswersOK
<1>12. ToldOK'
  <2> SUFFICES ASSUME NEW q \in ArpUsers, Has(q)', arpcall'[q].good,
                      arpcache'[arpcall'[q].slot].addr = arpcall'[q].addr
               PROVE  arpcache'[arpcall'[q].slot].mac = arpcall'[q].addr
    BY DEF ToldOK
  <2>1. /\ Has(q) /\ arpcall[q].good
        /\ arpcall'[q].slot = arpcall[q].slot /\ arpcall'[q].addr = arpcall[q].addr
    BY <1>1, <1>10
  <2>2. arpcall[q].slot \in ArpSlots
    BY <2>1 DEF ArpInv, ArpTypes, ArpAsking, Has, NoCall
  <2> QED
    BY <1>6, <2>1, <2>2 DEF ArpInv, ToldOK
<1>13. AnswerRight'
  BY DEF NoReturn, NoAnswer, AnswerRight
<1> QED
  BY <1>7, <1>8, <1>9, <1>11, <1>12, <1>13 DEF ArpInv

\* Who returns has no pending entry any more.
LEMMA ReturnStep ==
    ASSUME ArpInv, NEW p \in ArpUsers, NEW r, arpcall[p].op # "wait", Return(p, r), UNCHANGED <<arpcache, arpmsg>>,
           \A s \in ArpSlots : ~Pends(s, p),
           r.ret = "OK" /\ r.good => r.mac = r.addr
    PROVE  ArpInv'
<1>1. /\ \A q \in ArpUsers : arpcall'[q] = IF q = p THEN NoCall ELSE arpcall[q]
      /\ arpcall' \in [ArpUsers -> {NoCall} \cup ArpAsking]
  BY DEF Return, ArpInv, ArpTypes
<1>2. ArpTypes'
  BY <1>1 DEF ArpInv, ArpTypes, NoCall
<1>3. EntriesOK'
  BY DEF ArpInv, EntriesOK
<1>4. AskersOK'
  BY <1>1 DEF ArpInv, AskersOK, Pends
<1>5. \A q \in ArpUsers : Has(q)' => q # p /\ Has(q)
  BY <1>1 DEF Has, NoCall
<1>6. AnswersOK'
  BY <1>5 DEF ArpInv, AnswersOK, Pends
<1>7. ToldOK'
  BY <1>1, <1>5 DEF ArpInv, ToldOK
<1>8. AnswerRight'
  BY DEF Return, AnswerRight
<1> QED
  BY <1>2, <1>3, <1>4, <1>6, <1>7, <1>8 DEF ArpInv

\* Calls when an entry is given to somebody.
LEMMA RenewedIs ==
    ASSUME ArpTypes, NEW s \in ArpSlots, NEW a \in ArpHosts
    PROVE  /\ Renewed(s, a) \in [ArpUsers -> {NoCall} \cup ArpAsking]
           /\ \A q \in ArpUsers : arpcall[q] = NoCall => Renewed(s, a)[q] = NoCall
           /\ \A q \in ArpUsers : arpcall[q] # NoCall =>
                 /\ Renewed(s, a)[q] \in ArpAsking /\ Renewed(s, a)[q] # NoCall
                 /\ Renewed(s, a)[q].op = arpcall[q].op /\ Renewed(s, a)[q].slot = arpcall[q].slot
                 /\ Renewed(s, a)[q].addr = arpcall[q].addr /\ Renewed(s, a)[q].i = arpcall[q].i
                 /\ Renewed(s, a)[q].good => arpcall[q].good /\ ~(arpcall[q].slot = s /\ arpcall[q].addr = a)
<1>1. ASSUME NEW q \in ArpUsers, arpcall[q] # NoCall
      PROVE  LET d == Renewed(s, a)[q]
             IN  /\ d \in ArpAsking /\ d # NoCall
                 /\ d.op = arpcall[q].op /\ d.slot = arpcall[q].slot
                 /\ d.addr = arpcall[q].addr /\ d.i = arpcall[q].i
                 /\ d.good => arpcall[q].good /\ ~(arpcall[q].slot = s /\ arpcall[q].addr = a)
  <2>1. arpcall[q] \in ArpAsking
    BY <1>1 DEF ArpTypes
  <2>2. CASE arpcall[q].slot = s /\ arpcall[q].addr = a
    <3>1. Renewed(s, a)[q] = [arpcall[q] EXCEPT !.good = FALSE]
      BY <1>1, <2>2 DEF Renewed
    <3> QED
      BY <2>1, <3>1 DEF ArpAsking, NoCall
  <2>3. CASE ~(arpcall[q].slot = s /\ arpcall[q].addr = a)
    <3>1. Renewed(s, a)[q] = arpcall[q]
      BY <1>1, <2>3 DEF Renewed
    <3> QED
      BY <1>1, <2>1, <2>3, <3>1
  <2> QED
    BY <2>2, <2>3
<1>2. \A q \in ArpUsers : arpcall[q] = NoCall => Renewed(s, a)[q] = NoCall
  BY DEF Renewed
<1>3. Renewed(s, a) = [q \in ArpUsers |-> Renewed(s, a)[q]]
  BY DEF Renewed
<1>4. \A q \in ArpUsers : Renewed(s, a)[q] \in {NoCall} \cup ArpAsking
  BY <1>1, <1>2
<1> QED
  BY <1>1, <1>2, <1>3, <1>4

LEMMA IdlePends ==
    ASSUME ArpInv, NEW p \in ArpUsers, arpcall[p] = NoCall
    PROVE  \A s \in ArpSlots : ~Pends(s, p)
  BY DEF ArpInv, AskersOK, Pends

LEMMA ResolveStep ==
    ASSUME ArpInv, NEW p \in ArpUsers, NEW a \in ArpHosts, Resolve(p, a)
    PROVE  ArpInv'
<1>1. arpcall[p] = NoCall /\ arpcall[p].op # "wait" /\ \A s \in ArpSlots : ~Pends(s, p)
  <2>1. arpcall[p] = NoCall
    BY DEF Resolve
  <2>2. NoCall.op # "wait"
    BY DEF NoCall
  <2>3. \A s \in ArpSlots : ~Pends(s, p)
    BY <2>1, IdlePends
  <2> QED
    BY <2>1, <2>2, <2>3
<1>2. CASE Fail(p) /\ UNCHANGED <<arpcache, arpmsg>>
  BY <1>1, <1>2, ReturnStep DEF Fail, NoAnswer
<1>3. ASSUME NEW s \in Known(a), arpcache[s].state # "pending",
             Return(p, HostIs(a, arpcache[s].mac, TRUE)), UNCHANGED <<arpcache, arpmsg>>
      PROVE  ArpInv'
  <2>1. s \in ArpSlots /\ arpcache[s].state = "resolved" /\ arpcache[s].addr = a
    BY <1>3 DEF Known, ArpInv, ArpTypes, ArpEntry
  <2>2. arpcache[s].mac = a
    BY <2>1 DEF ArpInv, EntriesOK
  <2>3. HostIs(a, arpcache[s].mac, TRUE).mac = a /\ HostIs(a, arpcache[s].mac, TRUE).addr = a
    BY <2>2 DEF HostIs
  <2> QED
    BY <1>1, <1>3, <2>3, ReturnStep
<1>4. ASSUME NEW s \in ArpSlots, Known(a) = {}, UNCHANGED arpmsg, NoReturn,
             arpcache' = [arpcache EXCEPT ![s].state = "pending", ![s].addr = a, ![s].pid = p],
             arpcall' = [Renewed(s, a) EXCEPT ![p] = [op |-> "ask", slot |-> s, addr |-> a,
                                                i |-> 0, good |-> TRUE]]
      PROVE  ArpInv'
  <2> DEFINE c == [op |-> "ask", slot |-> s, addr |-> a, i |-> 0, good |-> TRUE]
             e == [arpcache[s] EXCEPT !.state = "pending", !.addr = a, !.pid = p]
  <2>1. arpcache[s] \in ArpEntry
    BY DEF ArpInv, ArpTypes
  <2>2. e \in ArpEntry /\ e.state = "pending" /\ e.addr = a /\ e.pid = p
    BY <2>1 DEF ArpEntry
  <2>3. c \in ArpAsking /\ c # NoCall /\ c.op = "ask" /\ c.slot = s /\ c.addr = a /\ c.i < ARP_RETRY
    BY ArpAssumption DEF ArpAsking, NoCall
  <2>4. /\ \A t \in ArpSlots : arpcache'[t] = IF t = s THEN e ELSE arpcache[t]
        /\ arpcache' \in [ArpSlots -> ArpEntry]
    BY <1>4, <2>2 DEF ArpInv, ArpTypes
  <2> HIDE DEF c, e
  <2>5. /\ arpcall' \in [ArpUsers -> {NoCall} \cup ArpAsking] /\ arpcall'[p] = c
        /\ \A q \in ArpUsers \ {p} : arpcall'[q] = Renewed(s, a)[q]
    <3>1. Renewed(s, a) \in [ArpUsers -> {NoCall} \cup ArpAsking]
      BY RenewedIs DEF ArpInv
    <3>2. arpcall' = [Renewed(s, a) EXCEPT ![p] = c]
      BY <1>4 DEF c
    <3> QED
      BY <2>3, <3>1, <3>2
  <2>6. /\ \A q \in ArpUsers \ {p} : arpcall[q] = NoCall => arpcall'[q] = NoCall
        /\ \A q \in ArpUsers \ {p} : arpcall[q] # NoCall =>
              /\ arpcall'[q] # NoCall
              /\ arpcall'[q].op = arpcall[q].op /\ arpcall'[q].slot = arpcall[q].slot
              /\ arpcall'[q].addr = arpcall[q].addr /\ arpcall'[q].i = arpcall[q].i
              /\ arpcall'[q].good => arpcall[q].good /\ ~(arpcall[q].slot = s /\ arpcall[q].addr = a)
    BY <2>5, RenewedIs DEF ArpInv
  <2>7. ArpTypes'
    <3>1. arpmsg[p] = "none"
      BY <1>1 DEF ArpInv, ArpTypes
    <3> QED
      BY <1>4, <2>3, <2>4, <2>5, <2>6, <3>1 DEF ArpInv, ArpTypes, NoCall
  <2>8. EntriesOK'
    <3>1. \A t \in ArpSlots : arpcache[t].state # "free" => arpcache[t].addr # a
      BY <1>4 DEF Known
    <3> QED
      BY <2>2, <2>4, <3>1 DEF ArpInv, EntriesOK
  <2>9. AskersOK'
    <3> SUFFICES ASSUME NEW t \in ArpSlots, arpcache'[t].state = "pending"
                 PROVE  LET q == arpcache'[t].pid
                        IN  /\ q \in ArpUsers
                            /\ \/ arpcache'[t].left
                               \/ /\ arpcall'[q] # NoCall /\ arpcall'[q].slot = t
                                  /\ arpcall'[q].addr = arpcache'[t].addr
      BY <1>4 DEF AskersOK
    <3>1. CASE t = s
      BY <2>2, <2>3, <2>4, <2>5, <3>1
    <3>2. CASE t # s
      <4>1. arpcache'[t] = arpcache[t]
        BY <2>4, <3>2
      <4> DEFINE q == arpcache[t].pid
      <4>2. /\ q \in ArpUsers
            /\ \/ arpcache[t].left
               \/ /\ arpcall[q] # NoCall /\ arpcall[q].slot = t
                  /\ arpcall[q].addr = arpcache[t].addr
        BY <4>1 DEF ArpInv, AskersOK
      <4>3. q = p => arpcache[t].left
        BY <1>1, <4>1 DEF Pends
      <4> QED
        BY <2>6, <4>1, <4>2, <4>3
    <3> QED
      BY <3>1, <3>2
  <2>10. \A q \in ArpUsers : Has(q)' => q # p /\ Has(q) /\ arpcall[q] # NoCall
    <3>1. ~Has(p)'
      BY <2>3, <2>5 DEF Has
    <3>2. \A q \in ArpUsers \ {p} : Has(q)' => Has(q) /\ arpcall[q] # NoCall
      BY <1>4, <2>6 DEF Has, NoCall
    <3> QED
      BY <3>1, <3>2
  <2>11. AnswersOK'
    <3>1. \A q \in ArpUsers \ {p}, t \in ArpSlots : Pends(t, q)' => Pends(t, q)
      BY <2>2, <2>4 DEF Pends
    <3> QED
      BY <2>10, <3>1 DEF ArpInv, AnswersOK
  <2>12. ToldOK'
    <3> SUFFICES ASSUME NEW q \in ArpUsers, Has(q)', arpcall'[q].good,
                        arpcache'[arpcall'[q].slot].addr = arpcall'[q].addr
                 PROVE  arpcache'[arpcall'[q].slot].mac = arpcall'[q].addr
      BY DEF ToldOK
    <3>1. q # p /\ Has(q) /\ arpcall[q] # NoCall
      BY <2>10
    <3>2. /\ arpcall'[q].slot = arpcall[q].slot /\ arpcall'[q].addr = arpcall[q].addr
          /\ arpcall[q].good /\ ~(arpcall[q].slot = s /\ arpcall[q].addr = a)
      BY <2>6, <3>1
    <3>3. arpcall[q].slot \in ArpSlots
      BY <3>1 DEF ArpInv, ArpTypes, ArpAsking
    <3>4. arpcall[q].slot # s
      BY <2>2, <2>4, <3>2
    <3>5. arpcache'[arpcall'[q].slot] = arpcache[arpcall[q].slot]
      BY <2>4, <3>2, <3>3, <3>4
    <3> QED
      BY <3>1, <3>2, <3>5 DEF ArpInv, ToldOK
  <2>13. AnswerRight'
    BY <1>4 DEF NoReturn, NoAnswer, AnswerRight
  <2> QED
    BY <2>7, <2>8, <2>9, <2>11, <2>12, <2>13 DEF ArpInv
<1> QED
  <2>1. CASE Known(a) = {} /\ AllPending /\ Fail(p) /\ UNCHANGED <<arpcache, arpnext, arpmsg>>
    BY <1>2, <2>1
  <2> QED
    BY <1>2, <1>3, <1>4, <2>1 DEF Resolve

\* The steps of a process that waits for the answer.
LEMMA WaitSteps ==
    ASSUME ArpInv, NEW p \in ArpUsers, Ask(p) \/ TimedOut(p) \/ Answered(p)
    PROVE  ArpInv'
<1> DEFINE c == arpcall[p]
           b == arpcache[c.slot].left
<1>1. c \in ArpAsking /\ c.op \in {"ask", "wait"} /\ c.i < ARP_RETRY /\ c.i \in Nat /\ ARP_RETRY \in Nat
  BY CallTypes, ArpAssumption DEF ArpInv, ArpTypes, Ask, TimedOut, Answered, ArpAsking
<1>2. ASSUME NEW d, arpcall' = [arpcall EXCEPT ![p] = d] PROVE arpcall'[p] = d
  BY <1>2 DEF ArpInv, ArpTypes
<1>3. b \in BOOLEAN /\ arpcache = [arpcache EXCEPT ![c.slot].left = b]
  <2>1. arpcache \in [ArpSlots -> ArpEntry] /\ c.slot \in ArpSlots
    BY <1>1 DEF ArpInv, ArpTypes, ArpAsking
  <2>2. arpcache[c.slot] \in ArpEntry
    BY <2>1
  <2>3. arpcache[c.slot] = [arpcache[c.slot] EXCEPT !.left = b] /\ b \in BOOLEAN
    BY <2>2 DEF ArpEntry
  <2> QED
    BY <2>1, <2>3
<1> HIDE DEF b
<1>4. CASE Ask(p)
  <2> DEFINE d == [c EXCEPT !.op = "wait"]
  <2>1. /\ d \in ArpAsking /\ d.op = "wait" /\ d.i = c.i /\ d.slot = c.slot
        /\ d.addr = c.addr /\ d.good = c.good
    BY <1>1 DEF ArpAsking
  <2>2. arpcall' = [arpcall EXCEPT ![p] = d] /\ arpcall'[p] = d
    BY <1>2, <1>4 DEF Ask
  <2>3. UNCHANGED <<arpcache, arpmsg>> /\ NoReturn /\ arpmsg[p] # "OK"
    BY <1>4 DEF Ask, ArpInv, ArpTypes
  <2> HIDE DEF d
  <2>4. ~Has(p)'
    BY <2>1, <2>2, <2>3 DEF Has
  <2>5. arpcache' = [arpcache EXCEPT ![d.slot].left = b] /\ (arpcache[d.slot].left => b)
    BY <1>3, <2>1, <2>3 DEF b
  <2> QED
    BY <1>1, <1>3, <2>1, <2>2, <2>3, <2>4, <2>5, CallStep
<1>5. CASE TimedOut(p)
  <2> DEFINE d == [c EXCEPT !.i = @ + 1, !.op = IF c.i + 1 < ARP_RETRY THEN "wait" ELSE "check"]
  <2>1. /\ d \in ArpAsking /\ d.i = c.i + 1 /\ d.slot = c.slot /\ d.addr = c.addr /\ d.good = c.good
        /\ d.op = IF c.i + 1 < ARP_RETRY THEN "wait" ELSE "check"
    <3> DEFINE o == IF c.i + 1 < ARP_RETRY THEN "wait" ELSE "check"
    <3>1. o \in {"wait", "check"} /\ c.i + 1 \in 0 .. ARP_RETRY
      BY <1>1
    <3>2. d = [c EXCEPT !.i = c.i + 1, !.op = o]
      OBVIOUS
    <3> HIDE DEF o, d
    <3>3. /\ d \in ArpAsking /\ d.i = c.i + 1 /\ d.slot = c.slot /\ d.addr = c.addr
          /\ d.good = c.good /\ d.op = o
      BY <1>1, <3>1, <3>2 DEF ArpAsking
    <3> QED
      BY <3>3 DEF o
  <2>2. arpcall' = [arpcall EXCEPT ![p] = d] /\ arpcall'[p] = d
    <3>1. arpcall' = [arpcall EXCEPT ![p] = d]
      BY <1>5 DEF TimedOut, ArpInv, ArpTypes
    <3> QED
      BY <1>2, <3>1
  <2>3. UNCHANGED <<arpcache, arpmsg>> /\ arpmsg[p] = "none" /\ NoReturn
    BY <1>5 DEF TimedOut
  <2> HIDE DEF d
  <2>4. ~Has(p)'
    BY <1>1, <2>1, <2>2, <2>3 DEF Has
  <2>5. arpcache' = [arpcache EXCEPT ![d.slot].left = b] /\ (arpcache[d.slot].left => b)
    BY <1>3, <2>1, <2>3 DEF b
  <2> QED
    BY <1>1, <1>3, <2>1, <2>2, <2>3, <2>4, <2>5, CallStep
<1>6. CASE Answered(p)
  <2> DEFINE ok == arpmsg[p] = "OK"
             mine == arpcache[c.slot].state = "pending" /\ arpcache[c.slot].pid = p
             d == [c EXCEPT !.op = "check", !.good = ok /\ c.good]
             l == b \/ (mine /\ ~ok)
  <2>1. /\ d \in ArpAsking /\ d.op = "check" /\ d.i = c.i /\ d.slot = c.slot
        /\ d.addr = c.addr /\ d.good = (ok /\ c.good)
    <3> DEFINE g == ok /\ c.good
    <3>1. g \in BOOLEAN
      BY <1>1 DEF ArpAsking
    <3>2. d = [c EXCEPT !.op = "check", !.good = g]
      OBVIOUS
    <3> HIDE DEF g, d
    <3>3. /\ d \in ArpAsking /\ d.op = "check" /\ d.i = c.i /\ d.slot = c.slot
          /\ d.addr = c.addr /\ d.good = g
      BY <1>1, <3>1, <3>2 DEF ArpAsking
    <3> QED
      BY <3>3 DEF g
  <2>2. arpcall' = [arpcall EXCEPT ![p] = d] /\ arpcall'[p] = d
    <3>1. arpcall' = [arpcall EXCEPT ![p] = d]
      BY <1>6 DEF Answered, ArpInv, ArpTypes
    <3> QED
      BY <1>2, <3>1
  <2>3. /\ arpmsg' = [arpmsg EXCEPT ![p] = "none"] /\ NoReturn
        /\ arpcache' = [arpcache EXCEPT ![c.slot].left = l]
    BY <1>6 DEF Answered, b
  <2>4. l \in BOOLEAN /\ (arpcache[c.slot].left => l)
    BY <1>3 DEF b
  <2> HIDE DEF d, l
  <2>5. Has(p) \/ ~ok
    BY <1>6 DEF Answered, Has
  <2>6. \A s \in ArpSlots : ~Pends(s, p)'
    <3> SUFFICES ASSUME NEW s \in ArpSlots, Pends(s, p)' PROVE FALSE
      OBVIOUS
    <3>1. c.slot \in ArpSlots /\ arpcache[c.slot] \in ArpEntry
      BY <1>1 DEF ArpInv, ArpTypes, ArpAsking
    <3>2. /\ arpcache'[s].state = arpcache[s].state /\ arpcache'[s].pid = arpcache[s].pid
          /\ arpcache'[s].left = IF s = c.slot THEN l ELSE arpcache[s].left
      BY <2>3, <3>1 DEF ArpInv, ArpTypes, ArpEntry
    <3>3. Pends(s, p)
      BY <2>4, <3>2 DEF Pends
    <3>4. s = c.slot /\ ~l
      BY <3>2, <3>3 DEF ArpInv, AskersOK, Pends
    <3>5. ok
      BY <3>3, <3>4 DEF Pends, l
    <3> QED
      BY <2>5, <3>3, <3>5 DEF ArpInv, AnswersOK
  <2>7. arpmsg'[p] = "none"
    BY <2>3 DEF ArpInv, ArpTypes
  <2>8. d.good => c.good /\ Has(p)
    BY <2>1, <2>5
  <2> HIDE DEF ok, mine
  <2> QED
    BY <1>1, <2>1, <2>2, <2>3, <2>4, <2>6, <2>7, <2>8, CallStep
<1> QED
  BY <1>4, <1>5, <1>6

\* The end of the call: an entry that got no answer is given up.
LEMMA FinishStep ==
    ASSUME ArpInv, NEW p \in ArpUsers, Finish(p)
    PROVE  ArpInv'
<1> DEFINE c == arpcall[p]
<1>1. /\ c \in ArpAsking /\ c # NoCall /\ c.op = "check" /\ c.slot \in ArpSlots
      /\ UNCHANGED arpmsg
  BY CallTypes DEF ArpInv, Finish, ArpAsking
<1>2. \A s \in ArpSlots : Pends(s, p) => s = c.slot /\ arpcache[s].addr = c.addr
  BY DEF ArpInv, AskersOK, Pends
<1>3. CASE arpcache[c.slot].addr # c.addr /\ UNCHANGED arpcache /\ Fail(p)
  BY <1>1, <1>2, <1>3, ReturnStep DEF Fail, NoAnswer
<1>4. CASE arpcache[c.slot].addr = c.addr /\ c.i < ARP_RETRY /\ UNCHANGED arpcache /\ Return(p, Answer(c))
  <2>1. Has(p)
    BY <1>1, <1>4 DEF Has
  <2>2. \A s \in ArpSlots : ~Pends(s, p)
    BY <2>1 DEF ArpInv, AnswersOK
  <2>3. c.good => arpcache[c.slot].mac = c.addr
    BY <1>4, <2>1 DEF ArpInv, ToldOK
  <2>4. /\ Answer(c).good = c.good
        /\ Answer(c).mac = arpcache[c.slot].mac /\ Answer(c).addr = c.addr
    BY DEF Answer, HostIs
  <2> QED
    BY <1>1, <1>4, <2>2, <2>3, <2>4, ReturnStep
<1>5. CASE /\ Fail(p)
           /\ arpcache' = [arpcache EXCEPT ![c.slot].state = "free", ![c.slot].pid = Nobody,
                                           ![c.slot].left = FALSE]
  <2> DEFINE e == [arpcache[c.slot] EXCEPT !.state = "free", !.pid = Nobody, !.left = FALSE]
             sl == c.slot
  <2>1. /\ e \in ArpEntry /\ e.state = "free"
        /\ e.addr = arpcache[sl].addr /\ e.mac = arpcache[sl].mac
    BY <1>1 DEF ArpInv, ArpTypes, ArpEntry
  <2>2. /\ \A t \in ArpSlots : arpcache'[t] = IF t = sl THEN e ELSE arpcache[t]
        /\ arpcache' \in [ArpSlots -> ArpEntry]
    BY <1>1, <1>5, <2>1 DEF ArpInv, ArpTypes
  <2>3. /\ \A q \in ArpUsers : arpcall'[q] = IF q = p THEN NoCall ELSE arpcall[q]
        /\ arpcall' \in [ArpUsers -> {NoCall} \cup ArpAsking]
    BY <1>5 DEF Fail, Return, ArpInv, ArpTypes
  <2> HIDE DEF e
  <2>4. ArpTypes'
    BY <1>1, <2>2, <2>3 DEF ArpInv, ArpTypes, NoCall
  <2>5. EntriesOK'
    BY <2>1, <2>2 DEF ArpInv, EntriesOK
  <2>6. AskersOK'
    <3> SUFFICES ASSUME NEW t \in ArpSlots, arpcache'[t].state = "pending"
                 PROVE  LET q == arpcache'[t].pid
                        IN  /\ q \in ArpUsers
                            /\ \/ arpcache'[t].left
                               \/ /\ arpcall'[q] # NoCall /\ arpcall'[q].slot = t
                                  /\ arpcall'[q].addr = arpcache'[t].addr
      BY <1>1 DEF AskersOK
    <3> DEFINE q == arpcache[t].pid
    <3>1. t # sl /\ arpcache'[t] = arpcache[t]
      BY <2>1, <2>2
    <3>2. /\ q \in ArpUsers
          /\ \/ arpcache[t].left
             \/ /\ arpcall[q] # NoCall /\ arpcall[q].slot = t
                /\ arpcall[q].addr = arpcache[t].addr
      BY <3>1 DEF ArpInv, AskersOK
    <3>3. q = p => arpcache[t].left
      BY <1>2, <3>1 DEF Pends
    <3> QED
      BY <2>3, <3>1, <3>2, <3>3
  <2>7. \A q \in ArpUsers : Has(q)' => q # p /\ Has(q)
    BY <1>1, <2>3 DEF Has, NoCall
  <2>8. AnswersOK'
    BY <2>1, <2>2, <2>7 DEF ArpInv, AnswersOK, Pends
  <2>9. ToldOK'
    <3> SUFFICES ASSUME NEW q \in ArpUsers, Has(q)', arpcall'[q].good,
                        arpcache'[arpcall'[q].slot].addr = arpcall'[q].addr
                 PROVE  arpcache'[arpcall'[q].slot].mac = arpcall'[q].addr
      BY DEF ToldOK
    <3>1. Has(q) /\ arpcall'[q] = arpcall[q]
      BY <2>3, <2>7
    <3>2. arpcall[q].slot \in ArpSlots
      BY <3>1 DEF ArpInv, ArpTypes, ArpAsking, Has, NoCall
    <3>3. arpcache[arpcall[q].slot].addr = arpcall[q].addr
      BY <2>1, <2>2, <3>1, <3>2
    <3>4. arpcache[arpcall[q].slot].mac = arpcall[q].addr
      BY <3>1, <3>3 DEF ArpInv, ToldOK
    <3> QED
      BY <2>1, <2>2, <3>1, <3>2, <3>4
  <2>10. AnswerRight'
    BY <1>5 DEF Fail, Return, AnswerRight, NoAnswer
  <2> QED
    BY <2>4, <2>5, <2>6, <2>8, <2>9, <2>10 DEF ArpInv
<1> QED
  BY <1>3, <1>4, <1>5 DEF Finish

\* A packet resolves the entry of its sender, for whoever waits for it.
LEMMA UpdateStep ==
    ASSUME ArpInv, NEW a \in ArpHosts, NEW s \in Known(a), Update(s, a), UNCHANGED arpcall, NoReturn
    PROVE  ArpInv'
<1> DEFINE e == [arpcache[s] EXCEPT !.state = "resolved", !.pid = Nobody, !.mac = a, !.left = FALSE]
<1>1. s \in ArpSlots /\ arpcache[s].state # "free" /\ arpcache[s].addr = a
  BY DEF Known
<1>2. e \in ArpEntry /\ e.state = "resolved" /\ e.addr = a /\ e.mac = a
  BY <1>1 DEF ArpInv, ArpTypes, ArpEntry
<1>3. /\ \A t \in ArpSlots : arpcache'[t] = IF t = s THEN e ELSE arpcache[t]
      /\ arpcache' \in [ArpSlots -> ArpEntry]
  BY <1>1, <1>2 DEF Update, ArpInv, ArpTypes
<1> HIDE DEF e
<1>4. /\ arpmsg' \in [ArpUsers -> {"none", "OK", "other"}]
      /\ \A q \in ArpUsers : arpmsg'[q] = "OK" => arpmsg[q] = "OK" \/ Pends(s, q)
      /\ \A q \in ArpUsers : arpcall[q].op # "wait" => arpmsg'[q] = "none"
  <2>1. CASE arpcache[s].state = "pending"
    <3> DEFINE q == arpcache[s].pid
               m == IF arpcache[s].left THEN "other" ELSE "OK"
    <3>1. q \in ArpUsers
      BY <1>1, <2>1 DEF ArpInv, AskersOK
    <3>2. arpmsg' = [arpmsg EXCEPT ![q] = IF arpcall[q].op = "wait" /\ @ = "none" THEN m ELSE @]
      BY <2>1 DEF Update, Notify
    <3>3. m \in {"OK", "other"} /\ (m = "OK" => Pends(s, q))
      BY <2>1 DEF Pends
    <3> HIDE DEF m
    <3> QED
      BY <3>1, <3>2, <3>3 DEF ArpInv, ArpTypes
  <2>2. CASE arpcache[s].state # "pending"
    <3>1. UNCHANGED arpmsg
      BY <2>2 DEF Update
    <3> QED
      BY <3>1 DEF ArpInv, ArpTypes
  <2> QED
    BY <2>1, <2>2
<1>5. ArpTypes'
  BY <1>3, <1>4 DEF ArpInv, ArpTypes
<1>6. EntriesOK'
  BY <1>1, <1>2, <1>3 DEF ArpInv, EntriesOK
<1>7. AskersOK'
  BY <1>2, <1>3 DEF ArpInv, AskersOK
<1>8. AnswersOK'
  <2> SUFFICES ASSUME NEW q \in ArpUsers, Has(q)', NEW t \in ArpSlots, Pends(t, q)' PROVE FALSE
    BY DEF AnswersOK
  <2>1. t # s /\ Pends(t, q)
    BY <1>2, <1>3 DEF Pends
  <2>2. ~Pends(s, q)
    BY <1>1, <2>1 DEF ArpInv, AskersOK, Pends, Has
  <2>3. Has(q)
    BY <1>4, <2>2 DEF Has
  <2> QED
    BY <2>1, <2>3 DEF ArpInv, AnswersOK
<1>9. ToldOK'
  <2> SUFFICES ASSUME NEW q \in ArpUsers, Has(q)', arpcall[q].good,
                      arpcache'[arpcall[q].slot].addr = arpcall[q].addr
               PROVE  arpcache'[arpcall[q].slot].mac = arpcall[q].addr
    BY DEF ToldOK
  <2>1. arpcall[q].slot \in ArpSlots
    BY DEF ArpInv, ArpTypes, ArpAsking, Has, NoCall
  <2>2. CASE arpcall[q].slot = s
    <3>1. arpcache'[arpcall[q].slot] = e
      BY <1>1, <1>3, <2>2
    <3> QED
      BY <1>2, <3>1
  <2>3. CASE arpcall[q].slot # s
    <3>1. ~Pends(s, q)
      BY <1>1, <2>3 DEF ArpInv, AskersOK, Pends
    <3>2. Has(q)
      BY <1>4, <3>1 DEF Has
    <3>3. arpcache'[arpcall[q].slot] = arpcache[arpcall[q].slot]
      BY <1>3, <2>1, <2>3
    <3> QED
      BY <3>2, <3>3 DEF ArpInv, ToldOK
  <2> QED
    BY <2>2, <2>3
<1>10. AnswerRight'
  BY DEF NoReturn, NoAnswer, AnswerRight
<1> QED
  BY <1>5, <1>6, <1>7, <1>8, <1>9, <1>10 DEF ArpInv

\* A packet of a host that has no entry and asks for this machine makes one.
LEMMA EnterStep ==
    ASSUME ArpInv, NEW a \in ArpHosts, Known(a) = {}, NEW s \in ArpSlots,
           arpcache' = [arpcache EXCEPT ![s].state = "resolved", ![s].addr = a, ![s].mac = a],
           arpcall' = Renewed(s, a), NoReturn, UNCHANGED arpmsg
    PROVE  ArpInv'
<1> DEFINE e == [arpcache[s] EXCEPT !.state = "resolved", !.addr = a, !.mac = a]
<1>1. e \in ArpEntry /\ e.state = "resolved" /\ e.addr = a /\ e.mac = a
  BY DEF ArpInv, ArpTypes, ArpEntry
<1>2. /\ \A t \in ArpSlots : arpcache'[t] = IF t = s THEN e ELSE arpcache[t]
      /\ arpcache' \in [ArpSlots -> ArpEntry]
  BY <1>1 DEF ArpInv, ArpTypes
<1> HIDE DEF e
<1>3. /\ arpcall' \in [ArpUsers -> {NoCall} \cup ArpAsking]
      /\ \A q \in ArpUsers : arpcall[q] = NoCall => arpcall'[q] = NoCall
      /\ \A q \in ArpUsers : arpcall[q] # NoCall =>
            /\ arpcall'[q] # NoCall
            /\ arpcall'[q].op = arpcall[q].op /\ arpcall'[q].slot = arpcall[q].slot
            /\ arpcall'[q].addr = arpcall[q].addr /\ arpcall'[q].i = arpcall[q].i
            /\ arpcall'[q].good => arpcall[q].good /\ ~(arpcall[q].slot = s /\ arpcall[q].addr = a)
  BY RenewedIs DEF ArpInv
<1>4. ArpTypes'
  BY <1>2, <1>3 DEF ArpInv, ArpTypes, NoCall
<1>5. EntriesOK'
  BY <1>1, <1>2 DEF ArpInv, EntriesOK, Known
<1>6. AskersOK'
  BY <1>1, <1>2, <1>3 DEF ArpInv, AskersOK
<1>7. \A q \in ArpUsers : Has(q)' => Has(q) /\ arpcall[q] # NoCall
  BY <1>3 DEF Has, NoCall
<1>8. AnswersOK'
  BY <1>1, <1>2, <1>7 DEF ArpInv, AnswersOK, Pends
<1>9. ToldOK'
  BY <1>2, <1>3, <1>7 DEF ArpInv, ArpTypes, ArpAsking, ToldOK
<1>10. AnswerRight'
  BY DEF NoReturn, NoAnswer, AnswerRight
<1> QED
  BY <1>4, <1>5, <1>6, <1>8, <1>9, <1>10 DEF ArpInv

\* A message from another process.
LEMMA StrayStep ==
    ASSUME ArpInv, NEW p \in ArpUsers, Stray(p)
    PROVE  ArpInv'
<1>1. /\ arpmsg' \in [ArpUsers -> {"none", "OK", "other"}]
      /\ \A q \in ArpUsers : arpmsg'[q] = "OK" => arpmsg[q] = "OK"
      /\ \A q \in ArpUsers : arpcall[q].op # "wait" => arpmsg'[q] = "none"
      /\ UNCHANGED <<arpcache, arpcall>> /\ NoReturn
  BY DEF Stray, Notify, ArpInv, ArpTypes
<1>2. ArpTypes' /\ EntriesOK' /\ AskersOK'
  BY <1>1 DEF ArpInv, ArpTypes, EntriesOK, AskersOK
<1>3. \A q \in ArpUsers : Has(q)' => Has(q)
  BY <1>1 DEF Has
<1>4. AnswersOK' /\ ToldOK'
  BY <1>1, <1>3 DEF ArpInv, AnswersOK, ToldOK, Pends
<1>5. AnswerRight'
  BY <1>1 DEF NoReturn, NoAnswer, AnswerRight
<1> QED
  BY <1>2, <1>4, <1>5 DEF ArpInv

-----------------------------------------------------------------------------
(* The ARP cache: the theorems.                                            *)

LEMMA ArpInitInv == ArpInit => ArpInv
  BY DEF ArpInit, ArpInv, ArpTypes, EntriesOK, AskersOK, AnswersOK, Has, ArpEntry, NoCall,
         ToldOK, AnswerRight, NoAnswer

LEMMA ArpNextInv == ArpInv /\ [ArpNext]_arpVars => ArpInv'
<1> SUFFICES ASSUME ArpInv, [ArpNext]_arpVars PROVE ArpInv'
  OBVIOUS
<1>1. ASSUME NEW p \in ArpUsers, NEW a \in ArpHosts, Resolve(p, a) PROVE ArpInv'
  BY <1>1, ResolveStep
<1>2. ASSUME NEW p \in ArpUsers, Ask(p) \/ TimedOut(p) \/ Answered(p) PROVE ArpInv'
  BY <1>2, WaitSteps
<1>3. ASSUME NEW p \in ArpUsers, Finish(p) PROVE ArpInv'
  BY <1>3, FinishStep
<1>4. ASSUME NEW a \in ArpHosts, NEW asks \in BOOLEAN, ArpIn(a, asks) PROVE ArpInv'
  BY <1>4, UpdateStep, EnterStep DEF ArpIn
<1>5. ASSUME NEW p \in ArpUsers, Stray(p) PROVE ArpInv'
  BY <1>5, StrayStep
<1>6. CASE UNCHANGED arpVars
  BY <1>6 DEF arpVars, ArpInv, ArpTypes, EntriesOK, AskersOK, AnswersOK, Has, Pends, ToldOK, AnswerRight
<1> QED
  BY <1>1, <1>2, <1>3, <1>4, <1>5, <1>6 DEF ArpNext

\* The invariant holds in every state of the cache.
THEOREM ArpInvariance == ArpSpec => []ArpInv
  BY ArpInitInv, ArpNextInv, PTL DEF ArpSpec

\* No host has two entries, an entry that is resolved has its host's Ethernet address, and
\* no entry stays pending when nobody asks for it, unless its process took another message
\* for the answer, which any message makes it do; a call returns its host's address unless
\* it did that, or somebody else has made an entry for the host in the place of its own
\* (arp.c:45-69, 107-139, 188-198).
THEOREM CacheRight == ArpSpec => []ArpSound
<1>1. ASSUME ArpInv PROVE ArpSound
  <2>1. ASSUME NEW a \in ArpHosts PROVE Cardinality(Known(a)) <= 1
    <3>1. \A s, t \in Known(a) : s = t
      BY <1>1 DEF ArpInv, EntriesOK, Known
    <3>2. CASE Known(a) = {}
      BY <3>2, FS_EmptySet
    <3>3. ASSUME NEW s \in Known(a) PROVE Cardinality(Known(a)) <= 1
      <4>1. Known(a) = {s}
        BY <3>1
      <4>2. Cardinality({s}) = 1
        BY FS_Singleton
      <4> QED
        BY <4>1, <4>2
    <3> QED
      BY <3>2, <3>3
  <2>2. HostOnce
    BY <1>1, <2>1 DEF ArpInv, EntriesOK, HostOnce, Entries
  <2>3. PendingAsked
    BY <1>1 DEF ArpInv, AskersOK, PendingAsked, Entries
  <2> QED
    BY <1>1, <2>2, <2>3 DEF ArpSound, ArpInv
<1> QED
  BY <1>1, ArpInvariance, PTL

-----------------------------------------------------------------------------
(* Address and time: the invariant.                                        *)

\* Packets that came from a server which offered this board the address they name, and others'.
Kinds == {"none", "offer", "ack", "nak", "time"}
Genuine ==
    {m \in [type : Kinds, mine : BOOLEAN, first : BOOLEAN, ip : DhcpServers \cup {"foreign", "none"}] :
        m.mine => m.ip \in tmoffered}

IpSteps == {"discover", "dhcp", "dhcped", "read", "again", "found", "lost"}
TimeSteps == {"ask", "time", "timed", "timeup"}
TmSteps == {"idle", "ip", "robbed"} \cup IpSteps \cup TimeSteps

TmEntry == [state : {"free", "used", "recv"}, key : {"none", "dhcp", "time"},
            pid : TmUsers \cup {"none"}, queue : Seq(Genuine)]
TmCalls == [at : TmSteps, then : {"none", "program", "time"}, tries : Nat, end : Nat, pkt : Genuine]

Waits(p) == At(p, "dhcped") \/ At(p, "timed")

TmCallTypes ==
    /\ tmcall \in [TmUsers -> TmCalls]
    /\ \A p \in TmUsers : Waits(p) => tmcall[p].end \in TmEntries
    /\ \A p \in TmUsers : tmcall[p].at \in TimeSteps => tmcall[p].then = "time"
RestTypes ==
    /\ tmmsg \in [TmUsers -> {"none", "OK", "other"}]
    /\ tmair \subseteq Genuine /\ tmoffered \subseteq DhcpServers
    /\ netdata \in [ipvalid : BOOLEAN, ipaddr : DhcpServers \cup {"none"}]
    /\ netdata.ipvalid => netdata.ipaddr \in tmoffered
    /\ tmboot \in BOOLEAN /\ tmleak \in BOOLEAN
TmTypes == tmtab \in [TmEntries -> TmEntry] /\ TmCallTypes /\ RestTypes

\* A call uses the end of a key until it has released it; getutime() forgets to, once.
Uses(c, leak, key) ==
    \/ key = "dhcp" /\ c.at \in IpSteps
    \/ key = "time" /\ (leak \/ (c.at # "idle" /\ c.then = "time"))

\* The entry that udp_recv() takes for a key is the one that is registered.
FirstOfKey ==
    \A e, f \in TmEntries :
        tmtab[e].state # "free" /\ tmtab[f].key = tmtab[e].key => e <= f

TmEnds(u) ==
    /\ FirstOfKey
    /\ \A e \in TmEntries :
          /\ tmtab[e].state # "free" => Uses(tmcall[u], tmleak, tmtab[e].key)
          /\ tmtab[e].state = "recv" => tmtab[e].pid = u /\ Waits(u) /\ tmcall[u].end = e
    /\ Waits(u) => LET t == tmtab[tmcall[u].end]
                   IN  /\ t.state # "free" /\ t.key = KeyOf(u)
                       /\ tmmsg[u] = "OK" => t.queue # <<>>
    /\ ~At(u, "robbed")

-----------------------------------------------------------------------------
(* Address and time: types.                                                *)

LEMMA LeastEntry ==
    ASSUME NEW S, S \subseteq TmEntries, S # {}
    PROVE  Min(S) \in S /\ \A e \in S : Min(S) <= e
<1>1. S \subseteq Nat
  BY TmAssumption DEF TmEntries
<1>2. \E k \in S : \A m \in S : k <= m
  BY <1>1, LeastNumber
<1> QED
  BY <1>2, Zenon DEF Min

LEMMA OtherPackets ==
    ASSUME NEW type \in Kinds, NEW first \in BOOLEAN, NEW ip \in {"foreign", "none"}
    PROVE  [type |-> type, mine |-> FALSE, first |-> first, ip |-> ip] \in Genuine
<1>1. PICK m : m = [type |-> type, mine |-> FALSE, first |-> first, ip |-> ip]
  OBVIOUS
<1>2. /\ m \in [type : Kinds, mine : BOOLEAN, first : BOOLEAN,
                ip : DhcpServers \cup {"foreign", "none"}]
      /\ m.mine = FALSE
  BY <1>1
<1>3. m \in Genuine
  BY <1>2, Zenon DEF Genuine
<1> QED
  BY <1>1, <1>3

LEMMA SpecialPackets ==
    NoPacket \in Genuine /\ Foreign \in Genuine /\ TimeAnswer \in Genuine
<1>1. PICK n : n = NoPacket
  OBVIOUS
<1>2. n = [type |-> "none", mine |-> FALSE, first |-> FALSE, ip |-> "none"]
  BY <1>1 DEF NoPacket
<1>3. TimeAnswer = [n EXCEPT !.type = "time"]
  BY <1>1 DEF TimeAnswer
<1>4. TimeAnswer = [type |-> "time", mine |-> FALSE, first |-> FALSE, ip |-> "none"]
  BY <1>2, <1>3
<1>5. NoPacket \in Genuine
  BY <1>1, <1>2, OtherPackets DEF Kinds
<1>6. TimeAnswer \in Genuine
  BY <1>4, OtherPackets DEF Kinds
<1>7. Foreign \in Genuine
  BY OtherPackets DEF Foreign, Kinds
<1> QED
  BY <1>5, <1>6, <1>7

LEMMA ServerPackets ==
    ASSUME tmoffered \subseteq DhcpServers, NEW type \in Kinds, NEW first \in BOOLEAN,
           NEW s \in tmoffered
    PROVE  FromServer(type, first, s) \in Genuine
  BY DEF FromServer, Genuine

LEMMA NewCalls ==
    ASSUME NEW at \in TmSteps, NEW then \in {"none", "program", "time"}
    PROVE  TmCall(at, then) \in TmCalls
  BY SpecialPackets DEF TmCall, TmCalls

LEMMA CallChanges ==
    ASSUME TmCallTypes, tmoffered' = tmoffered, NEW p \in TmUsers, NEW c \in TmCalls,
           c.at \in {"dhcped", "timed"} => c.end \in TmEntries,
           c.at \in TimeSteps => c.then = "time",
           tmcall' = [tmcall EXCEPT ![p] = c]
    PROVE  TmCallTypes'
<1>1. TmCalls' = TmCalls
  BY DEF TmCalls, Genuine
<1>2. tmcall' \in [TmUsers -> TmCalls]
  BY DEF TmCallTypes
<1>3. \A q \in TmUsers : tmcall'[q] = IF q = p THEN c ELSE tmcall[q]
  BY DEF TmCallTypes
<1> QED
  BY <1>1, <1>2, <1>3 DEF TmCallTypes, Waits, At

LEMMA GoesOn ==
    ASSUME TmCallTypes, tmoffered' = tmoffered, NEW p \in TmUsers, NEW at \in TmSteps,
           at \notin {"dhcped", "timed"}, at \in TimeSteps => tmcall[p].then = "time", Goes(p, at)
    PROVE  TmCallTypes'
<1>1. PICK c : c = [tmcall[p] EXCEPT !.at = at]
  OBVIOUS
<1>2. c \in TmCalls /\ c.at = at /\ c.then = tmcall[p].then
  BY <1>1 DEF TmCallTypes, TmCalls
<1>3. tmcall' = [tmcall EXCEPT ![p] = c]
  BY <1>1 DEF Goes
<1> QED
  BY <1>2, <1>3, CallChanges

LEMMA RecvCallTypes ==
    ASSUME TmTypes, tmoffered' = tmoffered, NEW p \in TmUsers,
           tmcall[p].at \in {"dhcp", "time", "dhcped", "timed"},
           NEW ret, NEW pkt \in Genuine, RecvReturns(p, ret, pkt)
    PROVE  TmCallTypes' /\ tmboot' \in BOOLEAN
<1>1. CASE KeyOf(p) = "time"
  <2>1. Goes(p, "timeup") /\ tmboot' \in BOOLEAN
    BY <1>1 DEF RecvReturns, TmTypes, RestTypes
  <2>2. tmcall[p].then = "time"
    BY <1>1 DEF KeyOf, At, TmTypes, TmCallTypes, TimeSteps
  <2> QED
    BY <2>1, <2>2, GoesOn DEF TmTypes, TmSteps, TimeSteps
<1>2. CASE KeyOf(p) # "time"
  <2>1. PICK at \in {"read", "again"} : at = IF ret = "OK" THEN "read" ELSE "again"
    OBVIOUS
  <2>2. tmcall' = [tmcall EXCEPT ![p].at = at, ![p].pkt = pkt] /\ tmboot' = tmboot
    BY <1>2, <2>1 DEF RecvReturns
  <2>3. PICK c : c = [tmcall[p] EXCEPT !.at = at, !.pkt = pkt]
    OBVIOUS
  <2>4. c \in TmCalls /\ c.at = at
    <3>1. tmcall[p] \in TmCalls /\ at \in TmSteps
      BY DEF TmTypes, TmCallTypes, TmSteps, IpSteps
    <3> QED
      BY <2>3, <3>1 DEF TmCalls
  <2>5. tmcall' = [tmcall EXCEPT ![p] = c]
    BY <2>2, <2>3 DEF TmTypes, TmCallTypes
  <2> QED
    BY <2>2, <2>4, <2>5, CallChanges DEF TmTypes, RestTypes, TimeSteps
<1> QED
  BY <1>1, <1>2

LEMMA TabChanges ==
    ASSUME tmtab \in [TmEntries -> TmEntry], tmoffered' = tmoffered, NEW e \in TmEntries,
           NEW t \in TmEntry, tmtab' = [tmtab EXCEPT ![e] = t]
    PROVE  (tmtab \in [TmEntries -> TmEntry])'
<1>1. TmEntry' = TmEntry
  BY DEF TmEntry, Genuine
<1> QED
  BY <1>1

LEMMA RegisterTypes ==
    ASSUME tmtab \in [TmEntries -> TmEntry], tmoffered' = tmoffered,
           NEW key \in {"dhcp", "time"}, TmRegister(key)
    PROVE  (tmtab \in [TmEntries -> TmEntry])'
<1>1. CASE MayRegister(key)
  <2>1. PICK e : e = Min(TmFree)
    OBVIOUS
  <2>2. e \in TmEntries
    BY <1>1, <2>1, LeastEntry DEF MayRegister, TmFree
  <2>3. PICK t : t = [state |-> "used", key |-> key, pid |-> "none", queue |-> <<>>]
    OBVIOUS
  <2>4. t \in TmEntry
    BY <2>3 DEF TmEntry
  <2>5. tmtab' = [tmtab EXCEPT ![e] = t]
    BY <1>1, <2>1, <2>3 DEF TmRegister
  <2> QED
    BY <2>2, <2>4, <2>5, TabChanges
<1>2. CASE ~MayRegister(key)
  BY <1>2 DEF TmRegister, TmEntry, Genuine
<1> QED
  BY <1>1, <1>2

\* What udp_release() does: nothing, or it frees an entry that is used.
Releasable(key) == {e \in Registered(key) : tmtab[e].state = "used"}

LEMMA Releases ==
    ASSUME tmtab \in [TmEntries -> TmEntry], NEW key, TmRelease(key)
    PROVE  \/ Releasable(key) = {} /\ tmtab' = tmtab
           \/ \E e \in Releasable(key) :
                 tmtab' = [tmtab EXCEPT ![e] = [tmtab[e] EXCEPT !.state = "free", !.queue = <<>>]]
<1>1. CASE Releasable(key) = {}
  BY <1>1 DEF Releasable, TmRelease
<1>2. CASE Releasable(key) # {}
  <2>1. PICK e : e = Min(Releasable(key))
    OBVIOUS
  <2>2. e \in Releasable(key) /\ e \in TmEntries
    BY <1>2, <2>1, LeastEntry DEF Releasable, Registered
  <2>3. tmtab' = [tmtab EXCEPT ![e].state = "free", ![e].queue = <<>>]
    BY <1>2, <2>1 DEF Releasable, TmRelease
  <2>4. tmtab' = [tmtab EXCEPT ![e] = [tmtab[e] EXCEPT !.state = "free", !.queue = <<>>]]
    BY <2>2, <2>3
  <2> QED
    BY <2>2, <2>4
<1> QED
  BY <1>1, <1>2

LEMMA ReleaseTypes ==
    ASSUME tmtab \in [TmEntries -> TmEntry], tmoffered' = tmoffered, NEW key, TmRelease(key)
    PROVE  (tmtab \in [TmEntries -> TmEntry])'
<1>1. CASE tmtab' = tmtab
  BY <1>1 DEF TmEntry, Genuine
<1>2. ASSUME NEW e \in Releasable(key), NEW t,
             t = [tmtab[e] EXCEPT !.state = "free", !.queue = <<>>],
             tmtab' = [tmtab EXCEPT ![e] = t]
      PROVE  (tmtab \in [TmEntries -> TmEntry])'
  <2>1. e \in TmEntries /\ t \in TmEntry
    <3>1. e \in TmEntries /\ tmtab[e] \in TmEntry
      BY DEF Releasable, Registered
    <3>2. <<>> \in Seq(Genuine)
      OBVIOUS
    <3> QED
      BY <1>2, <3>1, <3>2 DEF TmEntry
  <2> QED
    BY <1>2, <2>1, TabChanges
<1> QED
  BY <1>1, <1>2, Releases

LEMMA SameTable ==
    ASSUME tmtab \in [TmEntries -> TmEntry], tmoffered' = tmoffered, tmtab' = tmtab
    PROVE  (tmtab \in [TmEntries -> TmEntry])'
  BY DEF TmEntry, Genuine

LEMMA IpReturnTypes ==
    ASSUME TmTypes, tmoffered' = tmoffered, NEW p \in TmUsers, NEW ok \in BOOLEAN, IpReturns(p, ok)
    PROVE  TmCallTypes' /\ tmleak' \in BOOLEAN
<1>1. PICK then : then = tmcall[p].then
  OBVIOUS
<1>2. then \in {"none", "program", "time"}
  BY <1>1 DEF TmTypes, TmCallTypes, TmCalls
<1>3. PICK c : c = IF then = "time" /\ ok THEN TmCall("ask", then) ELSE TmIdle
  OBVIOUS
<1>4. /\ c \in TmCalls /\ c.at \in {"ask", "idle"}
      /\ c.at = "ask" => c.then = "time"
  BY <1>2, <1>3, NewCalls DEF TmIdle, TmSteps, TimeSteps, TmCall
<1>5. tmcall' = [tmcall EXCEPT ![p] = c] /\ tmleak' = (tmleak \/ (then = "time" /\ ~ok))
  BY <1>1, <1>3 DEF IpReturns
<1>6. TmCallTypes'
  BY <1>4, <1>5, CallChanges DEF TmTypes, TimeSteps
<1> QED
  BY <1>5, <1>6 DEF TmTypes, RestTypes

LEMMA FoundEntry ==
    ASSUME NEW key, Found(key) # {}
    PROVE  Min(Found(key)) \in Found(key) /\ \A e \in Found(key) : Min(Found(key)) <= e
  BY LeastEntry DEF Found

LEMMA SameRest ==
    ASSUME RestTypes, tmoffered' = tmoffered, tmair' \subseteq Genuine,
           tmmsg' \in [TmUsers -> {"none", "OK", "other"}], netdata' = netdata,
           tmboot' \in BOOLEAN, tmleak' \in BOOLEAN
    PROVE  RestTypes'
  BY DEF RestTypes, Genuine

LEMMA QueueParts ==
    ASSUME NEW q \in Seq(Genuine), q # <<>>
    PROVE  Head(q) \in Genuine /\ Tail(q) \in Seq(Genuine)
  OBVIOUS

LEMMA RecvTypes ==
    ASSUME TmTypes, NEW p \in TmUsers, TmRecv(p)
    PROVE  TmTypes'
<1>1. PICK key, e : key = KeyOf(p) /\ e = Min(Found(key))
  OBVIOUS
<1>2. tmcall[p].at \in {"dhcp", "time"} /\ UNCHANGED <<netdata, tmair, tmoffered, tmleak>>
  BY DEF TmRecv, At
<1>3. CASE Found(key) = {}
  <2>1. RecvReturns(p, "SYSERR", NoPacket) /\ tmtab' = tmtab /\ tmmsg' = tmmsg
    BY <1>1, <1>3 DEF TmRecv
  <2>2. TmCallTypes' /\ tmboot' \in BOOLEAN
    BY <1>2, <2>1, SpecialPackets, RecvCallTypes
  <2> QED
    BY <1>2, <2>1, <2>2, SameTable, SameRest DEF TmTypes, RestTypes
<1>4. CASE Found(key) # {}
  <2>1. e \in TmEntries /\ tmtab[e] \in TmEntry
    BY <1>1, <1>4, FoundEntry DEF Found, TmTypes
  <2>2. PICK q \in Seq(Genuine) : q = tmtab[e].queue
    BY <2>1 DEF TmEntry
  <2>3. CASE q # <<>>
    <3>1. /\ RecvReturns(p, "OK", Head(q)) /\ tmmsg' = tmmsg
          /\ tmtab' = [tmtab EXCEPT ![e].queue = Tail(q)]
      BY <1>1, <1>4, <2>2, <2>3 DEF TmRecv
    <3>2. TmCallTypes' /\ tmboot' \in BOOLEAN
      BY <1>2, <2>2, <2>3, <3>1, QueueParts, RecvCallTypes
    <3>3. PICK t : t = [tmtab[e] EXCEPT !.queue = Tail(q)]
      OBVIOUS
    <3>4. t \in TmEntry /\ tmtab' = [tmtab EXCEPT ![e] = t]
      BY <2>1, <2>2, <2>3, <3>1, <3>3, QueueParts DEF TmEntry
    <3> QED
      BY <1>2, <2>1, <3>1, <3>2, <3>4, TabChanges, SameRest DEF TmTypes, RestTypes
  <2>4. CASE q = <<>>
    <3>1. PICK at \in {"timed", "dhcped"} : at = IF tmcall[p].at = "time" THEN "timed" ELSE "dhcped"
      OBVIOUS
    <3>2. /\ tmtab' = [tmtab EXCEPT ![e].state = "recv", ![e].pid = p]
          /\ tmmsg' = [tmmsg EXCEPT ![p] = "none"]
          /\ tmcall' = [tmcall EXCEPT ![p].at = at, ![p].end = e] /\ tmboot' = tmboot
      BY <1>1, <1>4, <2>2, <2>4, <3>1 DEF TmRecv
    <3>3. PICK t : t = [tmtab[e] EXCEPT !.state = "recv", !.pid = p]
      OBVIOUS
    <3>4. t \in TmEntry /\ tmtab' = [tmtab EXCEPT ![e] = t]
      BY <2>1, <3>2, <3>3 DEF TmEntry
    <3>5. PICK c : c = [tmcall[p] EXCEPT !.at = at, !.end = e]
      OBVIOUS
    <3>6. /\ tmcall[p] \in TmCalls /\ e \in Nat /\ at \in TmSteps
          /\ at \in TimeSteps => tmcall[p].then = "time"
      BY <1>2, <2>1, <3>1, TmAssumption
      DEF TmTypes, TmCallTypes, TmEntries, TmSteps, IpSteps, TimeSteps
    <3>7. c \in TmCalls /\ c.at = at /\ c.end = e /\ c.then = tmcall[p].then
      BY <3>5, <3>6 DEF TmCalls
    <3>8. tmcall' = [tmcall EXCEPT ![p] = c]
      BY <3>2, <3>5, <3>6
    <3>9. TmCallTypes'
      BY <1>2, <2>1, <3>6, <3>7, <3>8, CallChanges DEF TmTypes
    <3>10. tmmsg' \in [TmUsers -> {"none", "OK", "other"}]
      BY <3>2 DEF TmTypes, RestTypes
    <3>11. (tmtab \in [TmEntries -> TmEntry])'
      BY <1>2, <2>1, <3>4, TabChanges DEF TmTypes
    <3>12. RestTypes'
      BY <1>2, <3>2, <3>10, SameRest DEF TmTypes, RestTypes
    <3> QED
      BY <3>9, <3>11, <3>12 DEF TmTypes
  <2> QED
    BY <2>3, <2>4
<1> QED
  BY <1>3, <1>4

LEMMA WokenTypes ==
    ASSUME TmTypes, NEW p \in TmUsers, TmWoken(p)
    PROVE  TmTypes'
<1>1. PICK e : e = tmcall[p].end
  OBVIOUS
<1>2. /\ tmcall[p].at \in {"dhcped", "timed"} /\ UNCHANGED <<netdata, tmair, tmoffered, tmleak>>
      /\ tmmsg' = [tmmsg EXCEPT ![p] = "none"]
  BY DEF TmWoken, At
<1>3. e \in TmEntries /\ tmtab[e] \in TmEntry
  BY <1>1, <1>2 DEF TmTypes, TmCallTypes, Waits, At
<1>4. PICK q \in Seq(Genuine) : q = tmtab[e].queue
  BY <1>3 DEF TmEntry
<1>5. tmmsg' \in [TmUsers -> {"none", "OK", "other"}]
  BY <1>2 DEF TmTypes, RestTypes
<1>6. CASE tmmsg[p] = "OK" /\ q # <<>>
  <2>1. /\ RecvReturns(p, "OK", Head(q))
        /\ tmtab' = [tmtab EXCEPT ![e].state = "used", ![e].queue = Tail(q)]
    BY <1>1, <1>4, <1>6 DEF TmWoken
  <2>2. TmCallTypes' /\ tmboot' \in BOOLEAN
    BY <1>2, <1>4, <1>6, <2>1, QueueParts, RecvCallTypes
  <2>3. PICK t : t = [tmtab[e] EXCEPT !.state = "used", !.queue = Tail(q)]
    OBVIOUS
  <2>4. tmtab' = [tmtab EXCEPT ![e] = t]
    BY <1>3, <2>1, <2>3
  <2>5. Tail(q) \in Seq(Genuine)
    BY <1>6, QueueParts
  <2>6. t \in TmEntry
    BY <1>3, <2>3, <2>5 DEF TmEntry
  <2> QED
    BY <1>2, <1>3, <1>5, <2>2, <2>4, <2>6, TabChanges, SameRest DEF TmTypes, RestTypes
<1>7. CASE ~(tmmsg[p] = "OK" /\ q # <<>>)
  <2>1. /\ tmtab' = [tmtab EXCEPT ![e].state = "used"]
        /\ \/ Goes(p, "robbed") /\ tmboot' = tmboot
           \/ RecvReturns(p, "TIMEOUT", NoPacket)
    BY <1>1, <1>4, <1>7 DEF TmWoken
  <2>2. TmCallTypes' /\ tmboot' \in BOOLEAN
    <3>1. CASE Goes(p, "robbed") /\ tmboot' = tmboot
      BY <1>2, <3>1, GoesOn DEF TmTypes, RestTypes, TmSteps, TimeSteps
    <3>2. CASE RecvReturns(p, "TIMEOUT", NoPacket)
      BY <1>2, <3>2, SpecialPackets, RecvCallTypes
    <3> QED
      BY <2>1, <3>1, <3>2
  <2>3. PICK t : t = [tmtab[e] EXCEPT !.state = "used"]
    OBVIOUS
  <2>4. t \in TmEntry /\ tmtab' = [tmtab EXCEPT ![e] = t]
    BY <1>3, <2>1, <2>3 DEF TmEntry
  <2> QED
    BY <1>2, <1>3, <1>5, <2>2, <2>4, TabChanges, SameRest DEF TmTypes, RestTypes
<1> QED
  BY <1>6, <1>7

\* The entry a packet is put into, if any.
ForPacket(m) ==
    {e \in Registered(IF m = TimeAnswer THEN "time" ELSE "dhcp") : Len(tmtab[e].queue) < TmQueue}

LEMMA Puts ==
    ASSUME TmTypes, NEW m \in tmair, TmIn(m), tmtab' # tmtab \/ tmmsg' # tmmsg
    PROVE  \E e \in ForPacket(m) :
              /\ e \in TmEntries
              /\ tmtab' = [tmtab EXCEPT ![e] = [tmtab[e] EXCEPT !.queue = Append(tmtab[e].queue, m),
                                                                !.state = "used"]]
              /\ tmmsg' = IF tmtab[e].state = "recv" /\ tmmsg[tmtab[e].pid] = "none"
                          THEN [tmmsg EXCEPT ![tmtab[e].pid] = "OK"] ELSE tmmsg
<1>1. PICK e : e = Min(ForPacket(m))
  OBVIOUS
<1>2. ForPacket(m) # {}
  BY DEF TmIn, ForPacket
<1>3. e \in ForPacket(m) /\ e \in TmEntries
  BY <1>1, <1>2, LeastEntry DEF ForPacket, Registered
<1>4. /\ tmtab' = [tmtab EXCEPT ![e].queue = Append(@, m), ![e].state = "used"]
      /\ tmmsg' = IF tmtab[e].state = "recv" /\ tmmsg[tmtab[e].pid] = "none"
                  THEN [tmmsg EXCEPT ![tmtab[e].pid] = "OK"] ELSE tmmsg
  BY <1>1, <1>2 DEF TmIn, ForPacket
<1>5. tmtab' = [tmtab EXCEPT ![e] = [tmtab[e] EXCEPT !.queue = Append(tmtab[e].queue, m),
                                                     !.state = "used"]]
  BY <1>3, <1>4 DEF TmTypes
<1> QED
  BY <1>3, <1>4, <1>5

LEMMA InTypes ==
    ASSUME TmTypes, NEW m \in tmair, TmIn(m)
    PROVE  TmTypes'
<1>1. UNCHANGED <<tmcall, netdata, tmboot, tmoffered, tmleak>> /\ tmair' \subseteq Genuine
  BY DEF TmIn, TmTypes, RestTypes
<1>2. TmCallTypes'
  BY <1>1 DEF TmTypes, TmCallTypes, TmCalls, Genuine, Waits, At
<1>3. CASE tmtab' = tmtab /\ tmmsg' = tmmsg
  BY <1>1, <1>2, <1>3, SameTable, SameRest DEF TmTypes, RestTypes
<1>4. ASSUME NEW e \in TmEntries, NEW t,
             t = [tmtab[e] EXCEPT !.queue = Append(tmtab[e].queue, m), !.state = "used"],
             tmtab' = [tmtab EXCEPT ![e] = t],
             tmmsg' = IF tmtab[e].state = "recv" /\ tmmsg[tmtab[e].pid] = "none"
                      THEN [tmmsg EXCEPT ![tmtab[e].pid] = "OK"] ELSE tmmsg
      PROVE  TmTypes'
  <2>1. tmtab[e] \in TmEntry /\ m \in Genuine
    BY DEF TmTypes, RestTypes
  <2>2. Append(tmtab[e].queue, m) \in Seq(Genuine)
    BY <2>1 DEF TmEntry
  <2>3. t \in TmEntry
    BY <1>4, <2>1, <2>2 DEF TmEntry
  <2>4. tmmsg' \in [TmUsers -> {"none", "OK", "other"}]
    BY <1>4 DEF TmTypes, RestTypes
  <2> QED
    BY <1>1, <1>2, <1>4, <2>3, <2>4, TabChanges, SameRest DEF TmTypes, RestTypes
<1>5. CASE tmtab' # tmtab \/ tmmsg' # tmmsg
  <2>1. PICK e \in ForPacket(m) :
              /\ e \in TmEntries
              /\ tmtab' = [tmtab EXCEPT ![e] = [tmtab[e] EXCEPT !.queue = Append(tmtab[e].queue, m),
                                                                !.state = "used"]]
              /\ tmmsg' = IF tmtab[e].state = "recv" /\ tmmsg[tmtab[e].pid] = "none"
                          THEN [tmmsg EXCEPT ![tmtab[e].pid] = "OK"] ELSE tmmsg
    BY <1>5, Puts
  <2> QED
    BY <2>1, <1>4
<1> QED
  BY <1>3, <1>5

LEMMA IpTypes ==
    ASSUME TmTypes, NEW p \in TmUsers, IpStart(p) \/ IpEnd(p)
    PROVE  TmTypes'
<1>1. UNCHANGED <<tmmsg, netdata, tmboot, tmair, tmoffered>>
  BY DEF IpStart, IpEnd
<1>2. CASE IpReturns(p, TRUE) /\ tmtab' = tmtab
  BY <1>1, <1>2, IpReturnTypes, SameTable, SameRest DEF TmTypes, RestTypes
<1>3. CASE TmRegister("dhcp") /\ Goes(p, "discover") /\ tmleak' = tmleak
  <2>1. TmCallTypes'
    BY <1>1, <1>3, GoesOn DEF TmTypes, TmSteps, IpSteps, TimeSteps
  <2> QED
    BY <1>1, <1>3, <2>1, RegisterTypes, SameRest DEF TmTypes, RestTypes
<1>4. CASE TmRelease("dhcp") /\ IpReturns(p, At(p, "found"))
  <2>1. TmCallTypes' /\ tmleak' \in BOOLEAN
    BY <1>1, <1>4, IpReturnTypes DEF At
  <2> QED
    BY <1>1, <1>4, <2>1, ReleaseTypes, SameRest DEF TmTypes, RestTypes
<1> QED
  BY <1>2, <1>3, <1>4 DEF IpStart, IpEnd

LEMMA StartTypes ==
    ASSUME TmTypes, NEW p \in TmUsers, Getutime(p) \/ Getlocalip(p)
    PROVE  TmTypes'
<1>1. UNCHANGED <<tmmsg, netdata, tmboot, tmair, tmoffered, tmleak>>
  BY DEF Getutime, Getlocalip
<1>2. ASSUME NEW then \in {"program", "time"}, tmcall' = [tmcall EXCEPT ![p] = TmCall("ip", then)]
      PROVE  TmCallTypes'
  <2>1. PICK c : c = TmCall("ip", then)
    OBVIOUS
  <2>2. c \in TmCalls /\ c.at = "ip"
    BY <2>1, NewCalls DEF TmCall, TmSteps
  <2> QED
    BY <1>1, <1>2, <2>1, <2>2, CallChanges DEF TmTypes, TimeSteps
<1>3. CASE Getlocalip(p)
  BY <1>1, <1>2, <1>3, SameTable, SameRest DEF Getlocalip, TmTypes, RestTypes
<1>4. CASE Getutime(p)
  <2>1. TmRegister("time")
    BY <1>4 DEF Getutime
  <2>2. CASE MayRegister("time")
    <3>1. TmCallTypes'
      BY <1>2, <1>4, <2>2 DEF Getutime
    <3> QED
      BY <1>1, <2>1, <3>1, RegisterTypes, SameRest DEF TmTypes, RestTypes
  <2>3. CASE ~MayRegister("time")
    <3>1. tmcall' = tmcall
      BY <1>4, <2>3 DEF Getutime, TmTypes, TmCallTypes
    <3>2. TmCallTypes'
      BY <1>1, <3>1 DEF TmTypes, TmCallTypes, TmCalls, Genuine, Waits, At
    <3> QED
      BY <1>1, <2>1, <3>2, RegisterTypes, SameRest DEF TmTypes, RestTypes
  <2> QED
    BY <2>2, <2>3
<1> QED
  BY <1>3, <1>4

LEMMA DiscoverTypes ==
    ASSUME TmTypes, NEW p \in TmUsers, Discover(p)
    PROVE  TmTypes'
<1>1. /\ Goes(p, "dhcp") /\ UNCHANGED <<tmtab, tmmsg, netdata, tmboot, tmleak>>
      /\ \E heard \in SUBSET DhcpServers, first \in BOOLEAN :
            /\ tmair' = tmair \cup {FromServer("offer", first, s) : s \in heard}
            /\ tmoffered' = tmoffered \cup heard
  BY DEF Discover
<1>2. tmoffered \subseteq tmoffered' /\ tmoffered' \subseteq DhcpServers
  BY <1>1 DEF TmTypes, RestTypes
<1>3. Genuine \subseteq Genuine'
  BY <1>2 DEF Genuine
<1>4. Seq(Genuine) \subseteq Seq(Genuine')
  BY <1>3
<1>5. TmEntry \subseteq TmEntry'
  BY <1>4 DEF TmEntry
<1>6. TmCalls \subseteq TmCalls'
  BY <1>3 DEF TmCalls
<1>7. tmair' \subseteq Genuine'
  <2>1. PICK heard \in SUBSET DhcpServers, first \in BOOLEAN :
            /\ tmair' = tmair \cup {FromServer("offer", first, s) : s \in heard}
            /\ tmoffered' = tmoffered \cup heard
    BY <1>1
  <2>2. ASSUME NEW s \in heard PROVE FromServer("offer", first, s) \in Genuine'
    <3>1. s \in tmoffered' /\ s \in DhcpServers
      BY <2>1
    <3> QED
      BY <3>1 DEF FromServer, Genuine, Kinds
  <2> QED
    BY <1>3, <2>1, <2>2 DEF TmTypes, RestTypes
<1>8. TmCallTypes'
  <2>1. PICK c : c = [tmcall[p] EXCEPT !.at = "dhcp"]
    OBVIOUS
  <2>2. tmcall[p] \in TmCalls
    BY DEF TmTypes, TmCallTypes
  <2>3. c \in TmCalls /\ c.at = "dhcp"
    BY <2>1, <2>2 DEF TmCalls, TmSteps, IpSteps
  <2>4. tmcall' = [tmcall EXCEPT ![p] = c]
    BY <1>1, <2>1 DEF Goes
  <2>5. \A q \in TmUsers : tmcall'[q] \in TmCalls /\ tmcall'[q] = IF q = p THEN c ELSE tmcall[q]
    BY <2>3, <2>4 DEF TmTypes, TmCallTypes
  <2>6. tmcall' \in [TmUsers -> TmCalls]
    BY <2>4, <2>5 DEF TmTypes, TmCallTypes
  <2>7. (\A q \in TmUsers : Waits(q) => tmcall[q].end \in TmEntries)'
    BY <2>3, <2>5 DEF TmTypes, TmCallTypes, Waits, At
  <2>8. (\A q \in TmUsers : tmcall[q].at \in TimeSteps => tmcall[q].then = "time")'
    BY <2>3, <2>5 DEF TmTypes, TmCallTypes, TimeSteps
  <2>9. tmcall' \in [TmUsers -> TmCalls']
    BY <1>6, <2>6
  <2> QED
    BY <2>7, <2>8, <2>9 DEF TmCallTypes
<1>9. (tmtab \in [TmEntries -> TmEntry])'
  BY <1>1, <1>5 DEF TmTypes
<1>10. RestTypes'
  BY <1>1, <1>2, <1>7 DEF TmTypes, RestTypes
<1> QED
  BY <1>8, <1>9, <1>10 DEF TmTypes

LEMMA LookTypes ==
    ASSUME TmTypes, NEW p \in TmUsers, IpLook(p)
    PROVE  TmTypes'
<1>1. PICK m : m = tmcall[p].pkt
  OBVIOUS
<1>2. m \in Genuine /\ tmoffered \subseteq DhcpServers
  BY <1>1 DEF TmTypes, TmCallTypes, TmCalls, RestTypes
<1>3. Accepted(m) => m.ip \in tmoffered
  BY <1>2 DEF Accepted, Genuine
<1>4. /\ \/ Accepted(m) /\ Goes(p, "found") /\ netdata' = [ipvalid |-> TRUE, ipaddr |-> m.ip]
         \/ Goes(p, "again") /\ netdata' = netdata
      /\ UNCHANGED <<tmtab, tmmsg, tmboot, tmoffered, tmleak>>
  BY <1>1 DEF IpLook
<1>5. TmCallTypes'
  BY <1>4, GoesOn DEF TmTypes, TmSteps, IpSteps, TimeSteps
<1>6. /\ netdata' \in [ipvalid : BOOLEAN, ipaddr : DhcpServers \cup {"none"}]
      /\ netdata'.ipvalid => netdata'.ipaddr \in tmoffered
  <2>1. CASE Accepted(m) /\ netdata' = [ipvalid |-> TRUE, ipaddr |-> m.ip]
    <3>1. m.ip \in tmoffered /\ m.ip \in DhcpServers
      BY <1>2, <1>3, <2>1
    <3> QED
      BY <2>1, <3>1
  <2>2. CASE netdata' = netdata
    BY <2>2 DEF TmTypes, RestTypes
  <2> QED
    BY <1>4, <2>1, <2>2
<1>7. tmair' \subseteq Genuine
  <2>1. CASE tmair' = tmair
    BY <2>1 DEF TmTypes, RestTypes
  <2>2. ASSUME Accepted(m), NEW type \in {"ack", "nak"}, NEW first \in BOOLEAN,
               tmair' = tmair \cup {FromServer(type, first, m.ip)}
        PROVE  tmair' \subseteq Genuine
    BY <1>2, <1>3, <2>2, ServerPackets DEF TmTypes, RestTypes, Kinds
  <2> QED
    BY <1>1, <2>1, <2>2 DEF IpLook
<1>8. Genuine' = Genuine
  BY <1>4 DEF Genuine
<1>9. RestTypes'
  BY <1>4, <1>6, <1>7, <1>8 DEF TmTypes, RestTypes
<1> QED
  BY <1>4, <1>5, <1>9, SameTable DEF TmTypes

LEMMA OtherTypes ==
    ASSUME TmTypes, NEW p \in TmUsers, IpAgain(p) \/ AskTime(p) \/ TimeEnd(p) \/ TmDisturbed(p)
    PROVE  TmTypes'
<1>1. CASE IpAgain(p)
  <2>1. PICK tries, at : /\ tries = tmcall[p].tries + 1
                         /\ at = IF tries < DhcpTries THEN "dhcp" ELSE "lost"
    OBVIOUS
  <2>2. PICK c : c = [tmcall[p] EXCEPT !.tries = tries, !.end = 0, !.pkt = NoPacket, !.at = at]
    OBVIOUS
  <2>3. tmcall[p] \in TmCalls /\ tries \in Nat /\ at \in {"dhcp", "lost"}
    BY <2>1 DEF TmTypes, TmCallTypes, TmCalls
  <2>4. c \in TmCalls /\ c.at = at
    BY <2>2, <2>3, SpecialPackets DEF TmCalls, TmSteps, IpSteps
  <2>5. /\ tmcall' = [tmcall EXCEPT ![p].tries = tries, ![p].end = 0, ![p].pkt = NoPacket,
                                    ![p].at = at]
        /\ UNCHANGED <<tmtab, tmmsg, netdata, tmboot, tmair, tmoffered, tmleak>>
    BY <1>1, <2>1 DEF IpAgain
  <2>6. tmcall' = [tmcall EXCEPT ![p] = c]
    BY <2>2, <2>5 DEF TmTypes, TmCallTypes
  <2>7. TmCallTypes'
    BY <2>3, <2>4, <2>5, <2>6, CallChanges DEF TmTypes, TimeSteps
  <2> QED
    BY <2>5, <2>7, SameTable, SameRest DEF TmTypes, RestTypes
<1>2. CASE AskTime(p)
  <2>1. tmcall[p].then = "time"
    BY <1>2 DEF AskTime, At, TmTypes, TmCallTypes, TimeSteps
  <2>2. /\ Goes(p, "time") \/ Goes(p, "timeup")
        /\ tmair' \subseteq tmair \cup {TimeAnswer}
        /\ UNCHANGED <<tmtab, tmmsg, netdata, tmboot, tmoffered, tmleak>>
    BY <1>2 DEF AskTime
  <2>3. TmCallTypes'
    BY <2>1, <2>2, GoesOn DEF TmTypes, TmSteps, TimeSteps
  <2> QED
    BY <2>2, <2>3, SpecialPackets, SameTable, SameRest DEF TmTypes, RestTypes
<1>3. CASE TimeEnd(p)
  <2>1. PICK c : c = TmIdle
    OBVIOUS
  <2>2. c \in TmCalls /\ c.at = "idle"
    BY <2>1, NewCalls DEF TmIdle, TmCall, TmSteps
  <2>3. /\ tmcall' = [tmcall EXCEPT ![p] = c] /\ TmRelease("time")
        /\ UNCHANGED <<tmmsg, netdata, tmboot, tmair, tmoffered, tmleak>>
    BY <1>3, <2>1 DEF TimeEnd
  <2>4. TmCallTypes'
    BY <2>2, <2>3, CallChanges DEF TmTypes, TimeSteps
  <2> QED
    BY <2>3, <2>4, ReleaseTypes, SameRest DEF TmTypes, RestTypes
<1>4. CASE TmDisturbed(p)
  <2>1. /\ UNCHANGED <<tmtab, tmcall, netdata, tmboot, tmair, tmoffered, tmleak>>
        /\ tmmsg' \in [TmUsers -> {"none", "OK", "other"}]
    BY <1>4 DEF TmDisturbed, TmTypes, RestTypes
  <2>2. TmCallTypes'
    BY <2>1 DEF TmTypes, TmCallTypes, TmCalls, Genuine, Waits, At
  <2> QED
    BY <2>1, <2>2, SameTable, SameRest DEF TmTypes, RestTypes
<1> QED
  BY <1>1, <1>2, <1>3, <1>4

LEMMA IdleTypes ==
    ASSUME TmTypes, TmForeign \/ UNCHANGED tmVars
    PROVE  TmTypes'
<1>1. /\ UNCHANGED <<tmtab, tmcall, tmmsg, netdata, tmboot, tmoffered, tmleak>>
      /\ tmair' \subseteq tmair \cup {Foreign}
  BY DEF TmForeign, tmVars
<1>2. TmCallTypes'
  BY <1>1 DEF TmTypes, TmCallTypes, TmCalls, Genuine, Waits, At
<1> QED
  BY <1>1, <1>2, SpecialPackets, SameTable, SameRest DEF TmTypes, RestTypes

LEMMA TmTypesInductive ==
    ASSUME TmTypes, [TmNext]_tmVars
    PROVE  TmTypes'
<1>1. CASE TmForeign \/ UNCHANGED tmVars
  BY <1>1, IdleTypes
<1>2. ASSUME NEW m \in tmair, TmIn(m) PROVE TmTypes'
  BY <1>2, InTypes
<1>3. ASSUME NEW p \in TmUsers,
             \/ TmRecv(p) \/ TmWoken(p) \/ TmDisturbed(p)
             \/ Getutime(p) \/ Getlocalip(p) \/ IpStart(p) \/ Discover(p)
             \/ IpLook(p) \/ IpAgain(p) \/ IpEnd(p) \/ AskTime(p) \/ TimeEnd(p)
      PROVE  TmTypes'
  BY <1>3, RecvTypes, WokenTypes, StartTypes, IpTypes, DiscoverTypes, LookTypes, OtherTypes
<1> QED
  BY <1>1, <1>2, <1>3 DEF TmNext

LEMMA TmTypesInit == TmInit => TmTypes
<1> SUFFICES ASSUME TmInit PROVE TmTypes
  OBVIOUS
<1>1. PICK c, t : c = TmIdle /\ t = [state |-> "free", key |-> "none", pid |-> "none", queue |-> <<>>]
  OBVIOUS
<1>2. c \in TmCalls /\ c.at = "idle"
  BY <1>1, NewCalls DEF TmIdle, TmCall, TmSteps
<1>3. t \in TmEntry
  BY <1>1 DEF TmEntry
<1>4. tmcall = [p \in TmUsers |-> c] /\ tmtab = [e \in TmEntries |-> t]
  BY <1>1 DEF TmInit
<1>5. TmCallTypes
  BY <1>2, <1>4 DEF TmCallTypes, Waits, At, TimeSteps
<1>6. RestTypes
  BY DEF TmInit, RestTypes
<1> QED
  BY <1>3, <1>4, <1>5, <1>6 DEF TmTypes

\* The board's address was offered to it, whoever calls getlocalip() at the same time and
\* whatever comes late, to an earlier call or to another board (dhcp.c:82-98).
THEOREM AddressOffered == TmSpec => [](netdata.ipvalid => netdata.ipaddr \in tmoffered)
<1>1. TmTypes => (netdata.ipvalid => netdata.ipaddr \in tmoffered)
  BY DEF TmTypes, RestTypes
<1> QED
  BY <1>1, TmTypesInit, TmTypesInductive, PTL DEF TmSpec

-----------------------------------------------------------------------------
(* Address and time: one user's ends.                                      *)

LEMMA FirstKept ==
    ASSUME tmtab \in [TmEntries -> TmEntry], FirstOfKey, NEW e \in TmEntries, NEW t,
           t.key = tmtab[e].key, tmtab' = [tmtab EXCEPT ![e] = t],
           t.state # "free" => \/ tmtab[e].state # "free"
                               \/ \A f \in Found(t.key) : e <= f
    PROVE  FirstOfKey'
<1>1. \A f \in TmEntries : tmtab'[f] = IF f = e THEN t ELSE tmtab[f]
  OBVIOUS
<1>2. \A f \in TmEntries : tmtab'[f].key = tmtab[f].key
  BY <1>1
<1>3. ASSUME NEW d \in TmEntries, NEW f \in TmEntries,
             tmtab'[d].state # "free", tmtab'[f].key = tmtab'[d].key
      PROVE  d <= f
  BY <1>1, <1>2, <1>3 DEF FirstOfKey, Found
<1> QED
  BY <1>3 DEF FirstOfKey

\* A process that waits for nothing knows its ends by what it does.
LEMMA Settles ==
    ASSUME TmTypes, NEW u \in TmUsers, NEW c, tmcall' = [tmcall EXCEPT ![u] = c],
           c.at \notin {"dhcped", "timed", "robbed"}, FirstOfKey',
           \A e \in TmEntries : tmtab'[e].state # "free" =>
               tmtab'[e].state # "recv" /\ Uses(c, tmleak', tmtab'[e].key)
    PROVE  TmEnds(u)'
<1>1. tmcall'[u] = c
  BY DEF TmTypes, TmCallTypes
<1> QED
  BY <1>1 DEF TmEnds, Waits, At

LEMMA NobodyWaits ==
    ASSUME NEW u \in TmUsers, TmEnds(u), tmcall[u].at \notin {"dhcped", "timed"},
           NEW e \in TmEntries, tmtab[e].state # "free"
    PROVE  tmtab[e].state # "recv" /\ Uses(tmcall[u], tmleak, tmtab[e].key)
  BY DEF TmEnds, Waits, At

\* A step that leaves the table alone.
LEMMA Moves ==
    ASSUME TmTypes, NEW u \in TmUsers, TmEnds(u), tmcall[u].at \notin {"dhcped", "timed"},
           tmtab' = tmtab, NEW c, tmcall' = [tmcall EXCEPT ![u] = c],
           c.at \notin {"dhcped", "timed", "robbed"},
           \A key : Uses(tmcall[u], tmleak, key) => Uses(c, tmleak', key)
    PROVE  TmEnds(u)'
<1>1. \A e \in TmEntries : tmtab'[e].state # "free" =>
               tmtab'[e].state # "recv" /\ Uses(c, tmleak', tmtab'[e].key)
  BY NobodyWaits
<1>2. FirstOfKey'
  BY DEF FirstOfKey, TmEnds
<1> QED
  BY <1>1, <1>2, Settles

LEMMA GoesMoves ==
    ASSUME TmTypes, NEW u \in TmUsers, TmEnds(u), NEW at, Goes(u, at), tmtab' = tmtab, tmleak' = tmleak,
           \/ tmcall[u].at \in IpSteps \ {"dhcped"} /\ at \in IpSteps \ {"dhcped"}
           \/ tmcall[u].at \in TimeSteps \ {"timed"} /\ at \in TimeSteps \ {"timed"}
    PROVE  TmEnds(u)'
<1>1. PICK c : c = [tmcall[u] EXCEPT !.at = at]
  OBVIOUS
<1>2. c.at = at /\ c.then = tmcall[u].then /\ tmcall' = [tmcall EXCEPT ![u] = c]
  BY <1>1 DEF TmTypes, TmCallTypes, TmCalls, Goes
<1>3. at \notin {"dhcped", "timed", "robbed", "idle"} /\ tmcall[u].at \notin {"dhcped", "timed"}
  BY DEF IpSteps, TimeSteps
<1>4. \A key : Uses(tmcall[u], tmleak, key) => Uses(c, tmleak', key)
  <2>1. tmcall[u].at \in IpSteps => at \in IpSteps
    BY DEF IpSteps, TimeSteps
  <2> QED
    BY <1>2, <1>3, <2>1 DEF Uses
<1> QED
  BY <1>2, <1>3, <1>4, Moves

LEMMA RecvCall ==
    ASSUME TmTypes, NEW u \in TmUsers, tmcall[u].at \in {"dhcp", "time", "dhcped", "timed"},
           NEW ret, NEW pkt, RecvReturns(u, ret, pkt)
    PROVE  \E c : /\ tmcall' = [tmcall EXCEPT ![u] = c]
                  /\ c.at \in {"timeup", "read", "again"}
                  /\ \A leak, key : Uses(tmcall[u], leak, key) => Uses(c, leak, key)
<1>1. tmcall[u] \in TmCalls /\ (tmcall[u].at \in TimeSteps => tmcall[u].then = "time")
  BY DEF TmTypes, TmCallTypes
<1>2. CASE KeyOf(u) = "time"
  <2>1. PICK c : c = [tmcall[u] EXCEPT !.at = "timeup"]
    OBVIOUS
  <2>2. tmcall' = [tmcall EXCEPT ![u] = c]
    BY <1>2, <2>1 DEF RecvReturns, Goes
  <2>3. c.at = "timeup" /\ c.then = tmcall[u].then
    BY <1>1, <2>1 DEF TmCalls
  <2>4. tmcall[u].at \in {"time", "timed"}
    BY <1>2 DEF KeyOf, At
  <2>5. tmcall[u].at \notin IpSteps
    BY <2>4 DEF IpSteps
  <2> QED
    BY <2>2, <2>3, <2>5 DEF Uses
<1>3. CASE KeyOf(u) # "time"
  <2>1. PICK at \in {"read", "again"} : at = IF ret = "OK" THEN "read" ELSE "again"
    OBVIOUS
  <2>2. PICK c : c = [tmcall[u] EXCEPT !.at = at, !.pkt = pkt]
    OBVIOUS
  <2>3. tmcall' = [tmcall EXCEPT ![u].at = at, ![u].pkt = pkt]
    BY <1>3, <2>1 DEF RecvReturns
  <2>4. tmcall' = [tmcall EXCEPT ![u] = c]
    BY <2>2, <2>3 DEF TmTypes, TmCallTypes
  <2>5. c.at = at /\ c.then = tmcall[u].then
    BY <1>1, <2>2 DEF TmCalls
  <2>6. c.at \in IpSteps /\ c.at # "idle"
    BY <2>5 DEF IpSteps
  <2> QED
    BY <2>4, <2>5, <2>6 DEF Uses
<1> QED
  BY <1>2, <1>3

LEMMA RecvEnds ==
    ASSUME TmTypes, NEW u \in TmUsers, TmEnds(u), TmRecv(u)
    PROVE  TmEnds(u)'
<1>1. PICK key, e : key = KeyOf(u) /\ e = Min(Found(key))
  OBVIOUS
<1>2. tmcall[u].at \in {"dhcp", "time"} /\ tmleak' = tmleak
  BY DEF TmRecv, At
<1>3. ASSUME NEW f \in TmEntries, tmtab[f].state # "free"
      PROVE  tmtab[f].state # "recv" /\ Uses(tmcall[u], tmleak, tmtab[f].key)
  BY <1>2, <1>3, NobodyWaits
<1>4. CASE Found(key) = {}
  <2>1. RecvReturns(u, "SYSERR", NoPacket) /\ tmtab' = tmtab
    BY <1>1, <1>4 DEF TmRecv
  <2>2. PICK c : /\ tmcall' = [tmcall EXCEPT ![u] = c]
                 /\ c.at \in {"timeup", "read", "again"}
                 /\ \A leak, k : Uses(tmcall[u], leak, k) => Uses(c, leak, k)
    BY <1>2, <2>1, RecvCall
  <2> QED
    BY <1>2, <2>1, <2>2, Moves
<1>5. CASE Found(key) # {}
  <2>1. /\ e \in TmEntries /\ tmtab[e] \in TmEntry /\ tmtab[e].key = key
        /\ \A f \in Found(key) : e <= f
    BY <1>1, <1>5, FoundEntry DEF Found, TmTypes
  <2>2. CASE tmtab[e].queue # <<>>
    <3>1. /\ RecvReturns(u, "OK", Head(tmtab[e].queue))
          /\ tmtab' = [tmtab EXCEPT ![e].queue = Tail(tmtab[e].queue)]
      BY <1>1, <1>5, <2>2 DEF TmRecv
    <3>2. PICK c : /\ tmcall' = [tmcall EXCEPT ![u] = c]
                   /\ c.at \in {"timeup", "read", "again"}
                   /\ \A leak, k : Uses(tmcall[u], leak, k) => Uses(c, leak, k)
      BY <1>2, <3>1, RecvCall
    <3>3. PICK t : t = [tmtab[e] EXCEPT !.queue = Tail(tmtab[e].queue)]
      OBVIOUS
    <3>4. t.key = key /\ t.state = tmtab[e].state /\ tmtab' = [tmtab EXCEPT ![e] = t]
      BY <2>1, <3>1, <3>3 DEF TmEntry
    <3>5. FirstOfKey'
      BY <2>1, <3>4, FirstKept DEF TmEnds, TmTypes
    <3>6. \A f \in TmEntries : tmtab'[f].state = tmtab[f].state /\ tmtab'[f].key = tmtab[f].key
      BY <2>1, <3>4 DEF TmTypes
    <3>7. \A f \in TmEntries : tmtab'[f].state # "free" =>
              tmtab'[f].state # "recv" /\ Uses(c, tmleak', tmtab'[f].key)
      BY <1>2, <1>3, <3>2, <3>6
    <3> QED
      BY <3>2, <3>5, <3>7, Settles
  <2>3. CASE tmtab[e].queue = <<>>
    <3>1. PICK at \in {"timed", "dhcped"} : at = IF tmcall[u].at = "time" THEN "timed" ELSE "dhcped"
      OBVIOUS
    <3>2. /\ tmtab' = [tmtab EXCEPT ![e].state = "recv", ![e].pid = u]
          /\ tmmsg' = [tmmsg EXCEPT ![u] = "none"]
          /\ tmcall' = [tmcall EXCEPT ![u].at = at, ![u].end = e]
      BY <1>1, <1>5, <2>3, <3>1 DEF TmRecv
    <3>3. PICK t : t = [tmtab[e] EXCEPT !.state = "recv", !.pid = u]
      OBVIOUS
    <3>4. /\ t.key = key /\ t.state = "recv" /\ t.pid = u
          /\ tmtab' = [tmtab EXCEPT ![e] = t]
      BY <2>1, <3>2, <3>3 DEF TmEntry
    <3>5. PICK c : c = [tmcall[u] EXCEPT !.at = at, !.end = e]
      OBVIOUS
    <3>6. tmcall[u] \in TmCalls
      BY DEF TmTypes, TmCallTypes
    <3>7. c.at = at /\ c.end = e /\ c.then = tmcall[u].then
      BY <3>5, <3>6 DEF TmCalls
    <3>8. tmcall' = [tmcall EXCEPT ![u] = c] /\ tmcall'[u] = c
      BY <3>2, <3>5 DEF TmTypes, TmCallTypes
    <3>9. FirstOfKey'
      BY <2>1, <3>4, FirstKept DEF TmEnds, TmTypes
    <3>10. /\ key = "time" => at = "timed" /\ tmcall[u].then = "time"
           /\ key # "time" => at = "dhcped" /\ key = "dhcp"
      BY <1>1, <1>2, <3>1 DEF KeyOf, At, TmTypes, TmCallTypes, TimeSteps
    <3>11. ASSUME NEW k, Uses(tmcall[u], tmleak, k) \/ k = key PROVE Uses(c, tmleak', k)
      <4>1. at \in IpSteps <=> tmcall[u].at \in IpSteps
        BY <1>2, <3>1 DEF IpSteps
      <4>2. at # "idle" /\ ("dhcped" \in IpSteps)
        BY DEF IpSteps
      <4> QED
        BY <1>2, <3>7, <3>10, <3>11, <4>1, <4>2 DEF Uses
    <3>12. \A f \in TmEntries : tmtab'[f] = IF f = e THEN t ELSE tmtab[f]
      BY <2>1, <3>4 DEF TmTypes
    <3>13. ASSUME NEW f \in TmEntries
           PROVE  /\ tmtab'[f].state # "free" => Uses(c, tmleak', tmtab'[f].key)
                  /\ tmtab'[f].state = "recv" => tmtab'[f].pid = u /\ f = e
      BY <1>3, <3>4, <3>11, <3>12
    <3>14. /\ tmtab'[e].state # "free" /\ tmtab'[e].key = key /\ tmmsg'[u] = "none"
           /\ KeyOf(u)' = key /\ (c.at = "dhcped" \/ c.at = "timed")
      BY <2>1, <3>1, <3>2, <3>4, <3>7, <3>8, <3>10, <3>12 DEF KeyOf, At, TmTypes, RestTypes
    <3> QED
      BY <3>7, <3>8, <3>9, <3>13, <3>14 DEF TmEnds, Waits, At
  <2> QED
    BY <2>2, <2>3
<1> QED
  BY <1>4, <1>5

LEMMA WokenEnds ==
    ASSUME TmTypes, NEW u \in TmUsers, TmEnds(u), TmWoken(u)
    PROVE  TmEnds(u)'
<1>1. PICK e : e = tmcall[u].end
  OBVIOUS
<1>2. tmcall[u].at \in {"dhcped", "timed"} /\ tmleak' = tmleak
  BY DEF TmWoken, At
<1>3. e \in TmEntries /\ tmtab[e] \in TmEntry
  BY <1>1, <1>2 DEF TmTypes, TmCallTypes, Waits, At
<1>4. tmtab[e].state # "free" /\ (tmmsg[u] = "OK" => tmtab[e].queue # <<>>)
  BY <1>1, <1>2 DEF TmEnds, Waits, At
<1>5. \E ret, pkt, q : RecvReturns(u, ret, pkt)
                       /\ tmtab' = [tmtab EXCEPT ![e].state = "used", ![e].queue = q]
  <2>1. CASE tmmsg[u] = "OK"
    BY <1>1, <1>4, <2>1 DEF TmWoken
  <2>2. CASE tmmsg[u] # "OK"
    <3>1. /\ RecvReturns(u, "TIMEOUT", NoPacket)
          /\ tmtab' = [tmtab EXCEPT ![e].state = "used"]
      BY <1>1, <2>2 DEF TmWoken
    <3>2. [tmtab EXCEPT ![e].state = "used"]
             = [tmtab EXCEPT ![e].state = "used", ![e].queue = tmtab[e].queue]
      BY <1>3 DEF TmTypes, TmEntry
    <3> QED
      BY <3>1, <3>2
  <2> QED
    BY <2>1, <2>2
<1>6. PICK ret, pkt, q : RecvReturns(u, ret, pkt)
                       /\ tmtab' = [tmtab EXCEPT ![e].state = "used", ![e].queue = q]
  BY <1>5
<1>7. PICK t : t = [tmtab[e] EXCEPT !.state = "used", !.queue = q]
  OBVIOUS
<1>8. t.key = tmtab[e].key /\ t.state = "used"
  BY <1>3, <1>7 DEF TmEntry
<1>9. tmtab' = [tmtab EXCEPT ![e] = t]
  BY <1>3, <1>6, <1>7 DEF TmTypes
<1>10. PICK c : /\ tmcall' = [tmcall EXCEPT ![u] = c]
                /\ c.at \in {"timeup", "read", "again"}
                /\ \A leak, k : Uses(tmcall[u], leak, k) => Uses(c, leak, k)
  BY <1>2, <1>6, RecvCall
<1>11. FirstOfKey'
  BY <1>3, <1>4, <1>8, <1>9, FirstKept DEF TmEnds, TmTypes
<1>12. \A f \in TmEntries : tmtab'[f] = IF f = e THEN t ELSE tmtab[f]
  BY <1>9 DEF TmTypes
<1>13. ASSUME NEW f \in TmEntries, tmtab'[f].state # "free"
       PROVE  tmtab'[f].state # "recv" /\ Uses(c, tmleak', tmtab'[f].key)
  <2>1. tmtab[f].state # "free" /\ tmtab'[f].key = tmtab[f].key
    BY <1>4, <1>8, <1>12, <1>13
  <2>2. Uses(tmcall[u], tmleak, tmtab[f].key) /\ (tmtab[f].state = "recv" => f = e)
    BY <1>1, <2>1 DEF TmEnds
  <2>3. tmtab'[f].state # "recv"
    BY <1>8, <1>12, <2>2
  <2> QED
    BY <1>2, <1>10, <2>1, <2>2, <2>3
<1> QED
  BY <1>10, <1>11, <1>13, Settles

LEMMA RegisterEnds ==
    ASSUME TmTypes, FirstOfKey, NEW key \in {"dhcp", "time"}, TmRegister(key)
    PROVE  /\ FirstOfKey'
           /\ \A f \in TmEntries : tmtab'[f].state # "free" =>
                 \/ tmtab'[f] = tmtab[f]
                 \/ MayRegister(key) /\ tmtab'[f].state = "used" /\ tmtab'[f].key = key
<1>1. CASE ~MayRegister(key)
  <2>1. tmtab' = tmtab
    BY <1>1 DEF TmRegister
  <2> QED
    BY <2>1 DEF FirstOfKey
<1>2. CASE MayRegister(key)
  <2>1. PICK e : e = Min(TmFree)
    OBVIOUS
  <2>2. e \in TmFree /\ e \in TmEntries /\ \A f \in TmFree : e <= f
    BY <1>2, <2>1, LeastEntry DEF MayRegister, TmFree
  <2>3. PICK t : t = [state |-> "used", key |-> key, pid |-> "none", queue |-> <<>>]
    OBVIOUS
  <2>4. tmtab' = [tmtab EXCEPT ![e] = t]
    BY <1>2, <2>1, <2>3 DEF TmRegister
  <2>5. \A f \in TmEntries : tmtab'[f] = IF f = e THEN t ELSE tmtab[f]
    BY <2>4 DEF TmTypes
  <2>6. \A f \in TmEntries : tmtab[f].key = key => f \in TmFree
    BY <1>2 DEF MayRegister, Registered, TmFree
  <2>7. ASSUME NEW d \in TmEntries, NEW f \in TmEntries,
               tmtab'[d].state # "free", tmtab'[f].key = tmtab'[d].key
        PROVE  d <= f
    <3>1. CASE d = e
      <4>1. f = e \/ f \in TmFree
        BY <2>3, <2>5, <2>6, <2>7, <3>1
      <4> QED
        BY <2>2, <3>1, <4>1, TmAssumption DEF TmEntries
    <3>2. CASE d # e
      <4>1. tmtab[d].state # "free" /\ tmtab'[d].key = tmtab[d].key
        BY <2>5, <2>7, <3>2
      <4>2. d \notin TmFree
        BY <4>1 DEF TmFree
      <4>3. f # e
        BY <2>3, <2>5, <2>6, <2>7, <4>1, <4>2
      <4> QED
        BY <2>5, <2>7, <4>1, <4>3 DEF FirstOfKey
    <3> QED
      BY <3>1, <3>2
  <2>8. FirstOfKey'
    BY <2>7 DEF FirstOfKey
  <2> QED
    BY <1>2, <2>3, <2>5, <2>8
<1> QED
  BY <1>1, <1>2

LEMMA ReleaseEnds ==
    ASSUME TmTypes, NEW u \in TmUsers, TmEnds(u), tmcall[u].at \notin {"dhcped", "timed"},
           NEW key, TmRelease(key)
    PROVE  /\ FirstOfKey'
           /\ \A f \in TmEntries : tmtab'[f].state # "free" =>
                 tmtab'[f] = tmtab[f] /\ tmtab[f].key # key
<1>1. \A f \in TmEntries : tmtab[f].state # "free" /\ tmtab[f].key = key => f \in Releasable(key)
  <2>1. ASSUME NEW f \in TmEntries, tmtab[f].state # "free", tmtab[f].key = key
        PROVE  f \in Releasable(key)
    <3>1. tmtab[f] \in TmEntry /\ tmtab[f].state # "recv"
      BY <2>1, NobodyWaits DEF TmTypes
    <3> QED
      BY <2>1, <3>1 DEF TmEntry, Releasable, Registered
  <2> QED
    BY <2>1
<1>2. CASE Releasable(key) = {} /\ tmtab' = tmtab
  BY <1>1, <1>2 DEF FirstOfKey, TmEnds
<1>3. ASSUME NEW e \in Releasable(key), NEW t,
             t = [tmtab[e] EXCEPT !.state = "free", !.queue = <<>>],
             tmtab' = [tmtab EXCEPT ![e] = t]
      PROVE  /\ FirstOfKey'
             /\ \A f \in TmEntries : tmtab'[f].state # "free" =>
                   tmtab'[f] = tmtab[f] /\ tmtab[f].key # key
  <2>1. /\ e \in TmEntries /\ tmtab[e] \in TmEntry
        /\ tmtab[e].state # "free" /\ tmtab[e].key = key
    BY DEF Releasable, Registered, TmTypes
  <2>2. t.state = "free" /\ t.key = tmtab[e].key
    BY <1>3, <2>1 DEF TmEntry
  <2>3. FirstOfKey'
    BY <1>3, <2>1, <2>2, FirstKept DEF TmEnds, TmTypes
  <2>4. ASSUME NEW f \in TmEntries, tmtab'[f].state # "free"
        PROVE  tmtab'[f] = tmtab[f] /\ tmtab[f].key # key
    <3>1. f # e /\ tmtab'[f] = tmtab[f]
      BY <1>3, <2>1, <2>2, <2>4 DEF TmTypes
    <3>2. tmtab[f].key = key => e <= f /\ f <= e
      BY <2>1, <2>4, <3>1 DEF TmEnds, FirstOfKey
    <3> QED
      BY <3>1, <3>2, <2>1, TmAssumption DEF TmEntries
  <2> QED
    BY <2>3, <2>4
<1> QED
  BY <1>2, <1>3, Releases DEF TmTypes

LEMMA GetutimeEnds ==
    ASSUME TmTypes, NEW u \in TmUsers, TmEnds(u), Getutime(u)
    PROVE  TmEnds(u)'
<1>1. tmcall[u].at = "idle" /\ tmleak' = tmleak /\ TmRegister("time")
  BY DEF Getutime, At
<1>2. PICK c : c = IF MayRegister("time") THEN TmCall("ip", "time") ELSE tmcall[u]
  OBVIOUS
<1>3. tmcall' = [tmcall EXCEPT ![u] = c]
  BY <1>2 DEF Getutime
<1>4. MayRegister("time") => c.at = "ip" /\ c.then = "time"
  BY <1>2 DEF TmCall
<1>5. ~MayRegister("time") => c = tmcall[u]
  BY <1>2
<1>6. \A key : Uses(tmcall[u], tmleak, key) => Uses(c, tmleak, key)
  BY <1>1, <1>4, <1>5 DEF Uses, IpSteps
<1>7. ASSUME NEW f \in TmEntries, tmtab'[f].state # "free"
      PROVE  tmtab'[f].state # "recv" /\ Uses(c, tmleak', tmtab'[f].key)
  <2>1. CASE tmtab'[f] = tmtab[f]
    BY <1>1, <1>6, <1>7, <2>1, NobodyWaits
  <2>2. CASE MayRegister("time") /\ tmtab'[f].state = "used" /\ tmtab'[f].key = "time"
    BY <1>4, <2>2 DEF Uses
  <2> QED
    BY <1>1, <1>7, <2>1, <2>2, RegisterEnds DEF TmEnds
<1>8. FirstOfKey'
  BY <1>1, RegisterEnds DEF TmEnds
<1> QED
  BY <1>1, <1>3, <1>4, <1>5, <1>7, <1>8, Settles

LEMMA GetlocalipEnds ==
    ASSUME TmTypes, NEW u \in TmUsers, TmEnds(u), Getlocalip(u)
    PROVE  TmEnds(u)'
<1>1. PICK c : c = TmCall("ip", "program")
  OBVIOUS
<1>2. /\ tmcall[u].at = "idle" /\ tmtab' = tmtab /\ tmleak' = tmleak
      /\ tmcall' = [tmcall EXCEPT ![u] = c] /\ c.at = "ip"
  BY <1>1 DEF Getlocalip, At, TmCall
<1>3. \A key : Uses(tmcall[u], tmleak, key) => Uses(c, tmleak', key)
  BY <1>2 DEF Uses, IpSteps
<1> QED
  BY <1>2, <1>3, Moves

\* getlocalip() returns: only the end of getutime() may be left, or is not released at all.
LEMMA IpReturnUses ==
    ASSUME TmTypes, NEW u \in TmUsers, NEW ok \in BOOLEAN, IpReturns(u, ok),
           tmcall[u].at # "idle"
    PROVE  \E c : /\ tmcall' = [tmcall EXCEPT ![u] = c]
                  /\ c.at \in {"ask", "idle"}
                  /\ \A key : key # "dhcp" /\ Uses(tmcall[u], tmleak, key) => Uses(c, tmleak', key)
<1>1. PICK then : then = tmcall[u].then
  OBVIOUS
<1>2. PICK c : c = IF then = "time" /\ ok THEN TmCall("ask", then) ELSE TmIdle
  OBVIOUS
<1>3. tmcall' = [tmcall EXCEPT ![u] = c] /\ tmleak' = (tmleak \/ (then = "time" /\ ~ok))
  BY <1>1, <1>2 DEF IpReturns
<1>4. CASE then = "time" /\ ok
  <2>1. c.at = "ask" /\ c.then = "time"
    BY <1>2, <1>4 DEF TmCall
  <2> QED
    BY <1>3, <2>1 DEF Uses
<1>5. CASE ~(then = "time" /\ ok)
  <2>1. c.at = "idle"
    BY <1>2, <1>5 DEF TmIdle, TmCall
  <2>2. ASSUME NEW key, key # "dhcp", Uses(tmcall[u], tmleak, key) PROVE Uses(c, tmleak', key)
    BY <1>1, <1>3, <1>5, <2>2 DEF Uses
  <2> QED
    BY <1>3, <2>1, <2>2
<1> QED
  BY <1>4, <1>5

LEMMA IpStartEnds ==
    ASSUME TmTypes, NEW u \in TmUsers, TmEnds(u), IpStart(u)
    PROVE  TmEnds(u)'
<1>1. tmcall[u].at = "ip"
  BY DEF IpStart, At
<1>2. CASE IpReturns(u, TRUE) /\ tmtab' = tmtab
  <2>1. PICK c : /\ tmcall' = [tmcall EXCEPT ![u] = c]
                 /\ c.at \in {"ask", "idle"}
                 /\ \A key : key # "dhcp" /\ Uses(tmcall[u], tmleak, key) => Uses(c, tmleak', key)
    BY <1>1, <1>2, IpReturnUses
  <2>2. ~Uses(tmcall[u], tmleak, "dhcp")
    BY <1>1 DEF Uses, IpSteps
  <2> QED
    BY <1>1, <1>2, <2>1, <2>2, Moves
<1>3. CASE TmRegister("dhcp") /\ Goes(u, "discover") /\ tmleak' = tmleak
  <2>1. PICK c : c = [tmcall[u] EXCEPT !.at = "discover"]
    OBVIOUS
  <2>2. tmcall' = [tmcall EXCEPT ![u] = c] /\ c.at = "discover" /\ c.then = tmcall[u].then
    BY <1>3, <2>1 DEF TmTypes, TmCallTypes, TmCalls, Goes
  <2>3. \A key : key = "dhcp" \/ Uses(tmcall[u], tmleak, key) => Uses(c, tmleak', key)
    BY <1>1, <1>3, <2>2 DEF Uses, IpSteps
  <2>4. ASSUME NEW f \in TmEntries, tmtab'[f].state # "free"
        PROVE  tmtab'[f].state # "recv" /\ Uses(c, tmleak', tmtab'[f].key)
    <3>1. CASE tmtab'[f] = tmtab[f]
      BY <1>1, <2>3, <2>4, <3>1, NobodyWaits
    <3>2. CASE tmtab'[f].state = "used" /\ tmtab'[f].key = "dhcp"
      BY <2>3, <3>2
    <3> QED
      BY <1>3, <2>4, <3>1, <3>2, RegisterEnds DEF TmEnds
  <2>5. FirstOfKey'
    BY <1>3, RegisterEnds DEF TmEnds
  <2> QED
    BY <2>2, <2>4, <2>5, Settles
<1> QED
  BY <1>2, <1>3 DEF IpStart

LEMMA IpEndEnds ==
    ASSUME TmTypes, NEW u \in TmUsers, TmEnds(u), IpEnd(u)
    PROVE  TmEnds(u)'
<1>1. /\ tmcall[u].at \in {"found", "lost"} /\ TmRelease("dhcp")
      /\ IpReturns(u, At(u, "found")) /\ At(u, "found") \in BOOLEAN
  BY DEF IpEnd, At
<1>2. PICK c : /\ tmcall' = [tmcall EXCEPT ![u] = c]
               /\ c.at \in {"ask", "idle"}
               /\ \A key : key # "dhcp" /\ Uses(tmcall[u], tmleak, key) => Uses(c, tmleak', key)
  BY <1>1, IpReturnUses
<1>3. /\ FirstOfKey'
      /\ \A f \in TmEntries : tmtab'[f].state # "free" =>
            tmtab'[f] = tmtab[f] /\ tmtab[f].key # "dhcp"
  BY <1>1, ReleaseEnds
<1>4. ASSUME NEW f \in TmEntries, tmtab'[f].state # "free"
      PROVE  tmtab'[f].state # "recv" /\ Uses(c, tmleak', tmtab'[f].key)
  BY <1>1, <1>2, <1>3, <1>4, NobodyWaits
<1> QED
  BY <1>2, <1>3, <1>4, Settles

LEMMA TimeEndEnds ==
    ASSUME TmTypes, NEW u \in TmUsers, TmEnds(u), TimeEnd(u)
    PROVE  TmEnds(u)'
<1>1. PICK c : c = TmIdle
  OBVIOUS
<1>2. /\ tmcall[u].at = "timeup" /\ TmRelease("time") /\ tmleak' = tmleak
      /\ tmcall' = [tmcall EXCEPT ![u] = c] /\ c.at = "idle"
  BY <1>1 DEF TimeEnd, At, TmIdle, TmCall
<1>3. /\ FirstOfKey'
      /\ \A f \in TmEntries : tmtab'[f].state # "free" =>
            tmtab'[f] = tmtab[f] /\ tmtab[f].key # "time"
  BY <1>2, ReleaseEnds
<1>4. ASSUME NEW f \in TmEntries, tmtab'[f].state # "free" PROVE FALSE
  <2>1. Uses(tmcall[u], tmleak, tmtab[f].key) /\ tmtab[f].key # "time"
    BY <1>2, <1>3, <1>4, NobodyWaits
  <2> QED
    BY <1>2, <2>1 DEF Uses, IpSteps
<1> QED
  BY <1>2, <1>3, <1>4, Settles

LEMMA OtherEnds ==
    ASSUME TmTypes, NEW u \in TmUsers, TmEnds(u),
           Discover(u) \/ IpLook(u) \/ IpAgain(u) \/ AskTime(u)
    PROVE  TmEnds(u)'
<1>1. tmtab' = tmtab /\ tmleak' = tmleak
  BY DEF Discover, IpLook, IpAgain, AskTime
<1>2. CASE Discover(u)
  BY <1>1, <1>2, GoesMoves DEF Discover, At, IpSteps
<1>3. CASE IpLook(u)
  BY <1>1, <1>3, GoesMoves DEF IpLook, At, IpSteps
<1>4. CASE AskTime(u)
  BY <1>1, <1>4, GoesMoves DEF AskTime, At, TimeSteps
<1>5. CASE IpAgain(u)
  <2>1. PICK tries, at : /\ tries = tmcall[u].tries + 1
                         /\ at = IF tries < DhcpTries THEN "dhcp" ELSE "lost"
    OBVIOUS
  <2>2. PICK c : c = [tmcall[u] EXCEPT !.tries = tries, !.end = 0, !.pkt = NoPacket, !.at = at]
    OBVIOUS
  <2>3. tmcall[u] \in TmCalls /\ at \in {"dhcp", "lost"} /\ tmcall[u].at = "again"
    BY <1>5, <2>1 DEF TmTypes, TmCallTypes, IpAgain, At
  <2>4. c.at = at /\ c.then = tmcall[u].then
    BY <2>2, <2>3 DEF TmCalls
  <2>5. tmcall' = [tmcall EXCEPT ![u].tries = tries, ![u].end = 0, ![u].pkt = NoPacket,
                                 ![u].at = at]
    BY <1>5, <2>1 DEF IpAgain
  <2>6. tmcall' = [tmcall EXCEPT ![u] = c]
    BY <2>2, <2>5 DEF TmTypes, TmCallTypes
  <2>7. \A key : Uses(tmcall[u], tmleak, key) => Uses(c, tmleak', key)
    BY <1>1, <2>3, <2>4 DEF Uses, IpSteps
  <2> QED
    BY <1>1, <2>3, <2>4, <2>6, <2>7, Moves
<1> QED
  BY <1>2, <1>3, <1>4, <1>5

LEMMA InEnds ==
    ASSUME TmTypes, NEW u \in TmUsers, TmEnds(u), NEW m \in tmair, TmIn(m)
    PROVE  TmEnds(u)'
<1>1. tmcall' = tmcall /\ tmleak' = tmleak
  BY DEF TmIn
<1>2. CASE tmtab' = tmtab /\ tmmsg' = tmmsg
  BY <1>1, <1>2 DEF TmEnds, FirstOfKey, Waits, At, KeyOf
<1>3. ASSUME NEW e \in TmEntries, NEW t, e \in ForPacket(m),
             t = [tmtab[e] EXCEPT !.queue = Append(tmtab[e].queue, m), !.state = "used"],
             tmtab' = [tmtab EXCEPT ![e] = t],
             tmmsg' = IF tmtab[e].state = "recv" /\ tmmsg[tmtab[e].pid] = "none"
                      THEN [tmmsg EXCEPT ![tmtab[e].pid] = "OK"] ELSE tmmsg
      PROVE  TmEnds(u)'
  <2>1. tmtab[e] \in TmEntry /\ tmtab[e].state # "free" /\ m \in Genuine
    BY <1>3 DEF TmTypes, RestTypes, ForPacket, Registered
  <2>2. PICK q \in Seq(Genuine) : q = tmtab[e].queue
    BY <2>1 DEF TmEntry
  <2>3. Append(q, m) # <<>>
    BY <2>1, <2>2
  <2>4. t.state = "used" /\ t.key = tmtab[e].key /\ t.queue # <<>>
    BY <1>3, <2>1, <2>2, <2>3 DEF TmEntry
  <2>5. \A f \in TmEntries : tmtab'[f] = IF f = e THEN t ELSE tmtab[f]
    BY <1>3 DEF TmTypes
  <2>6. FirstOfKey'
    BY <1>3, <2>1, <2>4, FirstKept DEF TmEnds, TmTypes
  <2>7. ASSUME NEW f \in TmEntries
        PROVE  /\ tmtab'[f].state # "free" => tmtab[f].state # "free"
               /\ tmtab'[f].key = tmtab[f].key
               /\ tmtab'[f].state = "recv" => tmtab'[f] = tmtab[f]
    BY <2>1, <2>4, <2>5
  <2>8. \A f \in TmEntries :
            /\ tmtab'[f].state # "free" => Uses(tmcall'[u], tmleak', tmtab'[f].key)
            /\ tmtab'[f].state = "recv" =>
                  tmtab'[f].pid = u /\ Waits(u)' /\ tmcall'[u].end = f
    BY <1>1, <2>7 DEF TmEnds, Waits, At
  <2>9. ASSUME Waits(u), NEW d \in TmEntries, d = tmcall[u].end
        PROVE  /\ tmtab'[d].state # "free" /\ tmtab'[d].key = KeyOf(u)
               /\ tmmsg'[u] = "OK" => tmtab'[d].queue # <<>>
    <3>1. /\ tmtab[d].state # "free" /\ tmtab[d].key = KeyOf(u)
          /\ tmmsg[u] = "OK" => tmtab[d].queue # <<>>
      BY <2>9 DEF TmEnds
    <3>2. tmtab'[d].state # "free" /\ tmtab'[d].key = KeyOf(u)
      BY <2>4, <2>5, <3>1
    <3>3. CASE d = e
      BY <2>4, <2>5, <3>2, <3>3
    <3>4. CASE d # e
      <4>1. tmtab[e].state # "recv"
        BY <2>9, <3>4 DEF TmEnds
      <4>2. tmmsg' = tmmsg /\ tmtab'[d] = tmtab[d]
        BY <1>3, <2>5, <3>4, <4>1
      <4> QED
        BY <3>1, <3>2, <4>2
    <3> QED
      BY <3>3, <3>4
  <2>10. Waits(u) => tmcall[u].end \in TmEntries
    BY DEF TmTypes, TmCallTypes
  <2>11. Waits(u)' = Waits(u) /\ KeyOf(u)' = KeyOf(u) /\ (~At(u, "robbed"))'
    BY <1>1 DEF Waits, At, KeyOf, TmEnds
  <2>12. Waits(u)' => LET d == tmtab'[tmcall'[u].end]
                      IN  /\ d.state # "free" /\ d.key = KeyOf(u)'
                          /\ tmmsg'[u] = "OK" => d.queue # <<>>
    BY <1>1, <2>9, <2>10, <2>11
  <2> QED
    BY <2>6, <2>8, <2>11, <2>12 DEF TmEnds
<1>4. CASE tmtab' # tmtab \/ tmmsg' # tmmsg
  <2>1. PICK e \in ForPacket(m) :
              /\ e \in TmEntries
              /\ tmtab' = [tmtab EXCEPT ![e] = [tmtab[e] EXCEPT !.queue = Append(tmtab[e].queue, m),
                                                                !.state = "used"]]
              /\ tmmsg' = IF tmtab[e].state = "recv" /\ tmmsg[tmtab[e].pid] = "none"
                          THEN [tmmsg EXCEPT ![tmtab[e].pid] = "OK"] ELSE tmmsg
    BY <1>4, Puts
  <2> QED
    BY <1>3, <2>1
<1> QED
  BY <1>2, <1>4

LEMMA QuietEnds ==
    ASSUME TmTypes, NEW u \in TmUsers, TmEnds(u), TmDisturbed(u) \/ TmForeign \/ UNCHANGED tmVars
    PROVE  TmEnds(u)'
<1>1. tmtab' = tmtab /\ tmcall' = tmcall /\ tmleak' = tmleak /\ (tmmsg'[u] = "OK" => tmmsg[u] = "OK")
  BY DEF TmDisturbed, TmForeign, tmVars, TmTypes, RestTypes
<1> QED
  BY <1>1 DEF TmEnds, FirstOfKey, Waits, At, KeyOf

\* With one user every step of a call is u's.
LEMMA TmEndsInductive ==
    ASSUME NEW u, TmUsers = {u}, TmTypes, TmEnds(u), [TmNext]_tmVars
    PROVE  TmEnds(u)'
<1>1. CASE TmForeign \/ UNCHANGED tmVars
  BY <1>1, QuietEnds
<1>2. ASSUME NEW m \in tmair, TmIn(m) PROVE TmEnds(u)'
  BY <1>2, InEnds
<1>3. CASE \/ TmRecv(u) \/ TmWoken(u) \/ TmDisturbed(u)
           \/ Getutime(u) \/ Getlocalip(u) \/ IpStart(u) \/ Discover(u)
           \/ IpLook(u) \/ IpAgain(u) \/ IpEnd(u) \/ AskTime(u) \/ TimeEnd(u)
  <2>1. u \in TmUsers
    OBVIOUS
  <2>2. CASE TmRecv(u) \/ TmWoken(u) \/ TmDisturbed(u)
    BY <2>1, <2>2, RecvEnds, WokenEnds, QuietEnds
  <2>3. CASE Getutime(u) \/ Getlocalip(u) \/ IpStart(u) \/ IpEnd(u) \/ TimeEnd(u)
    BY <2>1, <2>3, GetutimeEnds, GetlocalipEnds, IpStartEnds, IpEndEnds, TimeEndEnds
  <2>4. CASE Discover(u) \/ IpLook(u) \/ IpAgain(u) \/ AskTime(u)
    BY <2>1, <2>4, OtherEnds
  <2> QED
    BY <1>3, <2>2, <2>3, <2>4
<1> QED
  BY <1>1, <1>2, <1>3 DEF TmNext

LEMMA TmEndsInit ==
    ASSUME NEW u, TmUsers = {u}, TmInit
    PROVE  TmEnds(u)
<1>1. \A e \in TmEntries : tmtab[e].state = "free"
  BY DEF TmInit
<1>2. tmcall[u] = TmIdle /\ TmIdle.at = "idle"
  BY DEF TmInit, TmIdle, TmCall
<1> QED
  BY <1>1, <1>2 DEF TmEnds, FirstOfKey, Waits, At

LEMMA EndsAreSound ==
    ASSUME NEW u, TmUsers = {u}, TmTypes, TmEnds(u)
    PROVE  NetTimeSound
<1>1. netdata.ipvalid => netdata.ipaddr \in tmoffered
  BY DEF TmTypes, RestTypes
<1>2. \A p \in TmUsers : ~At(p, "robbed")
  BY DEF TmEnds
<1>3. ASSUME At(u, "idle"), NEW e \in TmEntries, tmtab[e].state # "free"
      PROVE  tmtab[e].key = "time" /\ tmleak
  BY <1>3 DEF TmEnds, Uses, At, IpSteps
<1> QED
  BY <1>1, <1>2, <1>3 DEF NetTimeSound

\* One process that asks for the address and the time finds what it was told of, and its calls
\* release the ends they registered on every path but one (getutime.c:38-40).
THEOREM NetTimeIsSound == ASSUME NEW u, TmUsers = {u} PROVE TmSpec => []NetTimeSound
<1>1. TmInit => TmTypes /\ TmEnds(u)
  BY TmTypesInit, TmEndsInit
<1>2. TmTypes /\ TmEnds(u) /\ [TmNext]_tmVars => (TmTypes /\ TmEnds(u))'
  BY TmTypesInductive, TmEndsInductive
<1>3. TmTypes /\ TmEnds(u) => NetTimeSound
  BY EndsAreSound
<1> QED
  BY <1>1, <1>2, <1>3, PTL DEF TmSpec
=================================================================================
