------------------------------- MODULE MCExchange -------------------------------
(***************************************************************************)
(* What processes exchange messages and buffers with: ports, buffer pools, *)
(* the ARP cache, the ends of communication, and the board's address and   *)
(* the time.  They share no state: one run checks each of them with the    *)
(* others at rest.                                                         *)
(***************************************************************************)
EXTENDS Ports, BufferPool, Arp, Endpoints, NetTime

\* Tables of two ends with queues of two packets, of UDP or of ping; their users also
\* fill the pool.  The sizes are equal because a queue's head wraps at the number of ends.
MCShapes ==
    {[udp |-> 2, udpq |-> 2, icmp |-> 0, icmpq |-> 0, outq |-> 1],
     [udp |-> 0, udpq |-> 0, icmp |-> 2, icmpq |-> 2, outq |-> 1]}

\* The proportions of the code: more places in a queue than ends (udp.h:3-4).
MCLongQueue == {[udp |-> 2, udpq |-> 3, icmp |-> 0, icmpq |-> 0, outq |-> 1]}

ExchangeInit == PortInit /\ BufInit /\ ArpInit /\ NetInit /\ TmInit

\* While the others run, the tables of the ends are of the first size only.
NetRests == NetInit /\ UDP_SLOTS = 2

ExchangeNext ==
    \/ /\ BufInit /\ ArpInit /\ NetRests /\ TmInit
       /\ PortNext /\ UNCHANGED <<bufVars, arpVars, netVars, tmVars>>
    \/ /\ PortInit /\ ArpInit /\ NetRests /\ TmInit
       /\ BufNext /\ UNCHANGED <<portVars, arpVars, netVars, tmVars>>
    \/ /\ PortInit /\ BufInit /\ NetRests /\ TmInit
       /\ ArpNext /\ UNCHANGED <<portVars, bufVars, netVars, tmVars>>
    \/ /\ PortInit /\ BufInit /\ ArpInit /\ TmInit
       /\ NetNext /\ UNCHANGED <<portVars, bufVars, arpVars, tmVars>>
    \/ /\ PortInit /\ BufInit /\ ArpInit /\ NetRests
       /\ TmNext /\ UNCHANGED <<portVars, bufVars, arpVars, netVars>>

ExchangeSpec == ExchangeInit /\ [][ExchangeNext]_<<portVars, bufVars, arpVars, netVars, tmVars>>

\* Processes run the same calls; their names, and those of hosts, are only compared.  The
\* names of one component serve for the other as well, so that the same permutations do:
\* the processes of ports and pools and the hosts of Arp, the hosts of Endpoints and the
\* processes of Arp.
Sym == Permutations(PortUsers) \cup Permutations(Hosts)
==================================================================================
