---------------------------------- MODULE MCTty ----------------------------------
(***************************************************************************)
(* Instances of Tty for model checking.                                    *)
(***************************************************************************)
EXTENDS Tty

CONSTANTS r, w

Use(mode, echo, switching, users, keys) ==
    [mode |-> mode, echo |-> echo, switching |-> switching, users |-> users, keys |-> keys]

\* Both halves at work in raw mode; the order of keys; a line that is edited while it is
\* read, and while its echo competes with output; flow control.
MCSettings ==
    {Use(Raw, FALSE, TRUE, {r, w}, {"a"}),
     Use(Raw, FALSE, TRUE, {r}, {"a", "b"}),
     Use(Cooked, TRUE, FALSE, {r}, {"a", "nl", "erase", "kill", "eof"}),
     Use(Cooked, TRUE, FALSE, {w}, {"a", "erase"}),
     Use(CBreak, FALSE, FALSE, {w}, {"stop", "start"})}
==================================================================================
