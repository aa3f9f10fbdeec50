------------------------------- MODULE MainProgram -------------------------------
(***************************************************************************)
(* The program that the system runs (system/main.c): receptor() reads hex  *)
(* numbers from the console and sends them to transmissor(), which prints  *)
(* the entries of dat that they name.  Between them is the one message a   *)
(* process has room for.                                                   *)
(*                                                                         *)
(* A character is a string; a line is printed in one step.  What is typed  *)
(* are numbers of at most eight digits, for which dat has an entry.        *)
(* buffer[31] of transmissor() is never written (main.c:181-194) and       *)
(* printed: it may hold any character.                                     *)
(***************************************************************************)
EXTENDS Integers, SequencesExt, FiniteSetsExt

CONSTANTS
    Typed,          \* sequences of characters that may be typed
    Dat,            \* dat: [0 .. D_SZ - 1 -> values]
    LeftOvers       \* characters the stack may hold

VARIABLES
    keys,           \* characters that are still to be read
    receptor,       \* [at, buf, c]: c is what it is about to send
    transmissor,    \* [at, num]
    message,        \* of transmissor: prmsg, or NoMsg
    printed,        \* lines that were printed
    typed,          \* characters that were read
    left            \* what the stack holds at buffer[31]

pgVars == <<keys, receptor, transmissor, message, printed, typed, left>>

NoMsg == -1
EOT == 4
Newline == "\n"
Digits == <<"0", "1", "2", "3", "4", "5", "6", "7", "8", "9", "A", "B", "C", "D", "E", "F">>
ValueOf(c) == CHOOSE v \in 0 .. 15 : Digits[v + 1] = c

PgInit ==
    /\ keys \in Typed /\ left \in LeftOvers
    /\ receptor = [at |-> "getc", buf |-> <<>>, c |-> 0]
    /\ transmissor = [at |-> "receive", num |-> 0]
    /\ message = NoMsg /\ printed = <<>> /\ typed = <<>>

\* to_int(): from the last digit to the first.
ToInt(buf) ==
    LET sum[k \in 0 .. Len(buf)] ==
          IF k = 0 THEN 0 ELSE sum[k - 1] + ValueOf(buf[Len(buf) - k + 1]) * 16 ^ (k - 1)
    IN  sum[Len(buf)]

\* to_str(): digits without the zeros in front, a character that is never written, newline.
ToStr(num) ==
    LET digit(k) == (num \div 16 ^ k) % 16
        top == Max({k \in 0 .. 7 : digit(k) # 0})
    IN  [j \in 1 .. top + 1 |-> Digits[digit(top + 1 - j) + 1]] \o <<left, Newline>>

\* receptor() reads a character; the process that waits for one stays where it is.
Getc ==
    /\ receptor.at = "getc" /\ keys # <<>>
    /\ keys' = Tail(keys) /\ typed' = Append(typed, Head(keys))
    /\ receptor' =
         CASE Head(keys) = Newline -> [at |-> "send", buf |-> <<>>, c |-> ToInt(receptor.buf)]
           [] Head(keys) = "EOT"   -> [receptor EXCEPT !.at = "end", !.c = EOT]
           [] OTHER                -> [receptor EXCEPT !.buf = Append(@, Head(keys))]
    /\ UNCHANGED <<transmissor, message, printed, left>>

\* Mutant of SendNumber: the number is sent once (main.c:120-123).
SendNumberOnce ==
    /\ receptor.at \in {"send", "end"}
    /\ message' = IF transmissor.at = "dead" \/ message # NoMsg THEN message ELSE receptor.c
    /\ receptor' = [receptor EXCEPT !.at = IF @ = "send" THEN "getc" ELSE "dead"]
    /\ UNCHANGED <<keys, transmissor, printed, typed, left>>

\* It sends, again and again after sleep(1) until send() returns OK.
SendNumber ==
    /\ receptor.at \in {"send", "end"}
    /\ transmissor.at # "dead" /\ message = NoMsg
    /\ message' = receptor.c
    /\ receptor' = [receptor EXCEPT !.at = IF @ = "send" THEN "getc" ELSE "dead"]
    /\ UNCHANGED <<keys, transmissor, printed, typed, left>>

\* transmissor(): EOT ends it.
ReceiveNumber ==
    /\ transmissor.at = "receive" /\ message # NoMsg
    /\ message' = NoMsg
    /\ transmissor' = IF message = EOT THEN [at |-> "dead", num |-> 0]
                      ELSE [at |-> "print", num |-> Dat[message]]
    /\ UNCHANGED <<keys, receptor, printed, typed, left>>

\* It prints up to the first newline.
PrintNumber ==
    /\ transmissor.at = "print"
    /\ LET line == ToStr(transmissor.num)
       IN  printed' = Append(printed, SubSeq(line, 1, SelectInSeq(line, LAMBDA c : c = Newline)))
    /\ transmissor' = [at |-> "receive", num |-> 0]
    /\ UNCHANGED <<keys, receptor, message, typed, left>>

PgNext == Getc \/ SendNumber \/ ReceiveNumber \/ PrintNumber

PgSpec == PgInit /\ [][PgNext]_pgVars

-----------------------------------------------------------------------------
\* The numbers typed so far, up to the one that ends the program: EOT, or 4 as well.
Numbers ==
    LET digit(s, c) == [s EXCEPT !.num = @ * 16 + ValueOf(c)]
        next(s, c) == IF s.ended THEN s
                      ELSE IF c = "EOT" THEN [s EXCEPT !.ended = TRUE]
                      ELSE IF c # Newline THEN digit(s, c)
                      ELSE IF s.num = EOT THEN [s EXCEPT !.ended = TRUE]
                      ELSE [s EXCEPT !.all = Append(@, s.num), !.num = 0]
    IN  FoldLeft(next, [all |-> <<>>, num |-> 0, ended |-> FALSE], typed).all

\* The digits of a number in front of the line it was printed on: what follows them is the
\* character of buffer[31], unless that ends the line, and the newline.
DigitsOn(line) == SubSeq(line, 1, Len(line) - IF left = Newline THEN 1 ELSE 2)

\* Every number is answered once and in the order they were typed, with the digits of the
\* entry of dat it names and no zero in front, although the two processes share one message
\* and run at their own pace (main.c:105-204).  Between the digits and the newline there is
\* a character nobody wrote, which may look like one more digit (main.c:181-187).
NumbersAnswered ==
    LET value(s) == FoldLeft(LAMBDA n, c : n * 16 + ValueOf(c), 0, s)
    IN  /\ Len(printed) <= Len(Numbers)
        /\ \A i \in DOMAIN printed :
             LET s == DigitsOn(printed[i])
             IN  /\ value(s) = Dat[Numbers[i]] /\ s[1] # "0"
                 /\ printed[i] = s \o IF left = Newline THEN <<Newline>> ELSE <<left, Newline>>
        /\ message = NoMsg /\ receptor.at = "getc" /\ transmissor.at = "receive"
              => Len(printed) = Len(Numbers)
==================================================================================
