------------------------------- MODULE PacketQueue -------------------------------
(***************************************************************************)
(* What an end of communication promises its reader: packets come out in   *)
(* the order they came in, each once, and a read gives up only when its    *)
(* wait has ended with nothing there.  What comes after that is kept.      *)
(***************************************************************************)
EXTENDS Sequences

CONSTANT Packet

VARIABLES
    queue,
    reading,    \* a read waits: "no", "yes", or "over" when the wait has ended in vain
    result      \* of the read that ends in this step, a packet or "timeout"; "none" if none

vars == <<queue, reading, result>>

Init == queue = <<>> /\ reading = "no" /\ result = "none"

Arrive(m) == queue' = Append(queue, m) /\ result' = "none" /\ UNCHANGED reading

Read == reading = "no" /\ reading' = "yes" /\ result' = "none" /\ UNCHANGED queue

Deliver ==
    /\ reading # "over" /\ queue # <<>> /\ result' = Head(queue) /\ queue' = Tail(queue)
    /\ reading' = "no"

WaitEnds == reading = "yes" /\ queue = <<>> /\ reading' = "over" /\ result' = "none" /\ UNCHANGED queue

GiveUp == reading = "over" /\ reading' = "no" /\ result' = "timeout" /\ UNCHANGED queue

Clear == reading = "no" /\ queue' = <<>> /\ result' = "none" /\ UNCHANGED reading

Rest == result' = "none" /\ UNCHANGED <<queue, reading>>

Next == Read \/ Deliver \/ WaitEnds \/ GiveUp \/ Clear \/ Rest \/ \E m \in Packet : Arrive(m)

Spec == Init /\ [][Next]_vars
==================================================================================
