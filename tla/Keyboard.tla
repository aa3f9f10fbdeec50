-------------------------------- MODULE Keyboard --------------------------------
(***************************************************************************)
(* What a terminal line promises to those who read it: keys collect on a   *)
(* line that may still be edited, a finished line becomes readable as a    *)
(* whole, and what is read comes in the order it was typed, each once.     *)
(***************************************************************************)
EXTENDS Sequences, SequencesExt

CONSTANT Char

VARIABLES
    line,       \* the keys of the line that is being typed
    unread,     \* what may be read, in order
    got         \* what was read last

vars == <<line, unread, got>>

Init == line = <<>> /\ unread = <<>> /\ got = "none"

Type(c) == line' = Append(line, c) /\ UNCHANGED <<unread, got>>

Erase == line # <<>> /\ line' = Front(line) /\ UNCHANGED <<unread, got>>

Kill == line' = <<>> /\ UNCHANGED <<unread, got>>

\* c ends the line, or is the whole of it.
Enter(c) ==
    /\ unread' = unread \o Append(line, c)
    /\ line' = <<>>
    /\ UNCHANGED got

Read ==
    /\ unread # <<>>
    /\ got' = Head(unread) /\ unread' = Tail(unread)
    /\ UNCHANGED line

Next == Erase \/ Kill \/ Read \/ \E c \in Char : Type(c) \/ Enter(c)

Spec == Init /\ [][Next]_vars
=================================================================================
