--------------------------------- MODULE Mailbox ---------------------------------
(***************************************************************************)
(* What one port promises: messages are received in the order they were    *)
(* sent, each once.  A reset, a deletion or a creation ends an epoch, and  *)
(* nothing that was asked for in one epoch happens in another.             *)
(***************************************************************************)
EXTENDS Naturals, Sequences

CONSTANT Message

VARIABLES
    queue,      \* the messages sent and not received: [msg, epoch], epoch of the call
    epoch,
    got         \* the receive that ends in this step: [msg, epoch], epoch of the call

vars == <<queue, epoch, got>>

Nothing == [msg |-> "none", epoch |-> 0]

Init == queue = <<>> /\ epoch = 0 /\ got = Nothing

Send(m) ==
    /\ queue' = Append(queue, [msg |-> m, epoch |-> epoch])
    /\ got' = Nothing /\ UNCHANGED epoch

Receive ==
    /\ queue # <<>> /\ Head(queue).epoch = epoch
    /\ got' = Head(queue) /\ queue' = Tail(queue)
    /\ UNCHANGED epoch

NewEpoch == queue' = <<>> /\ epoch' = epoch + 1 /\ got' = Nothing

\* Others take a step.
Rest == got' = Nothing /\ UNCHANGED <<queue, epoch>>

Next == Receive \/ NewEpoch \/ Rest \/ \E m \in Message : Send(m)

Spec == Init /\ [][Next]_vars
==================================================================================
