-------------------------------- MODULE Printer ---------------------------------
(***************************************************************************)
(* What a terminal line promises to those who write to it: characters are  *)
(* sent in the order they were written, each once.                         *)
(***************************************************************************)
EXTENDS Sequences

CONSTANT Char

VARIABLES
    queue,      \* what is written and not yet sent
    wire        \* what was sent last

vars == <<queue, wire>>

Init == queue = <<>> /\ wire = "none"

Write(c) == queue' = Append(queue, c) /\ UNCHANGED wire

Send == queue # <<>> /\ wire' = Head(queue) /\ queue' = Tail(queue)

Next == Send \/ \E c \in Char : Write(c)

Spec == Init /\ [][Next]_vars
=================================================================================
