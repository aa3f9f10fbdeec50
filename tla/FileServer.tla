-------------------------------- MODULE FileServer -------------------------------
(***************************************************************************)
(* The remote file server, as device/rfs uses it: files are sequences of   *)
(* bytes, a request is served as a whole, and served again when it comes   *)
(* again.  The server is not part of the repository.                       *)
(***************************************************************************)
EXTENDS Integers, SequencesExt

\* What a call that fails returns, and what is returned when no call ends: no file has
\* these bytes.
SYSERR == <<"SYSERR">>
NoReturn == <<"none">>

\* The files with file n holding s.
With(files, n, s) == [m \in DOMAIN files \cup {n} |-> IF m = n THEN s ELSE files[m]]

Without(files, n) == [m \in DOMAIN files \ {n} |-> files[m]]

Answer(files, ok, data) == [files |-> files, ok |-> ok, data |-> data]

Overwrite(s, pos, b) == SubSeq(s, 1, pos) \o b \o SubSeq(s, pos + Len(b) + 1, Len(s))

\* What request q makes of the files, and the answer to it: the bytes that are read, or
\* whose number is given.
Serve(files, q) ==
    LET exists == q.name \in DOMAIN files
        old    == IF exists THEN files[q.name] ELSE <<>>
    IN  CASE q.op = "open" /\ ~exists /\ q.new # "o" -> Answer(With(files, q.name, <<>>), TRUE, <<>>)
          [] q.op = "open" /\ exists /\ q.new # "n"  -> Answer(files, TRUE, <<>>)
          [] q.op = "read" /\ exists ->
                Answer(files, TRUE, SubSeq(old, q.pos + 1, Min({q.pos + q.count, Len(old)})))
          [] q.op = "write" /\ exists /\ q.pos <= Len(old) ->
                Answer(With(files, q.name, Overwrite(old, q.pos, q.data)), TRUE, q.data)
          [] q.op = "size" /\ exists  -> Answer(files, TRUE, old)
          [] q.op = "trunc" /\ exists -> Answer(With(files, q.name, <<>>), TRUE, <<>>)
          [] q.op = "del" /\ exists   -> Answer(Without(files, q.name), TRUE, <<>>)
          [] OTHER -> Answer(files, FALSE, <<>>)
==================================================================================
