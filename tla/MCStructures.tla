------------------------------ MODULE MCStructures ------------------------------
(***************************************************************************)
(* The sleep list, the heap, the remote file system, the name space, the   *)
(* shell, the Ethernet driver, the main program, dates and formatted       *)
(* output share no state: one run checks each of them, with the others     *)
(* where they started.                                                     *)
(***************************************************************************)
EXTENDS SleepQueue, Memory, RemoteFiles, Names, Shell, Ethernet, MainProgram, Dates, Formats

VARIABLE part   \* the one that moves

MCModes == {[rights |-> {"r", "w"}, new |-> ""], [rights |-> {"r"}, new |-> "n"]}
MCBuffers == {<<"a">>, <<"b">>}

\* Two devices, and prefixes that are mounted: a longer and a shorter one, and a name that
\* comes to the name space again.
MCDevices == <<"console", "null">>
MCMounts == {[prefix |-> <<"/", "u/">>, replace |-> <<"/", "dev/">>, dev |-> "namespace"],
             [prefix |-> <<"/", "dev/">>, replace |-> <<"x">>, dev |-> "rfilesys"],
             [prefix |-> <<"/", "u/", "x">>, replace |-> <<>>, dev |-> "lfilesys"]}
NmRoots == {<<>>, <<"/">>, <<"~/">>}
MCNames == NmRoots \cup {r \o s : r \in NmRoots, s \in SeqOf({"dev/", "u/", "x"}, 2)}

\* Every line of up to five characters, and what is typed later: x, x&, k, e, x<x.
MCFirstLines == SeqOf({" ", "&", "<", ">", "'", "x"}, 5)
MCLines == {<<"x">>, <<"x", "&">>, <<"k">>, <<"e">>, <<"x", "<", "x">>}
MCCommands == {<<"x">>, <<"k">>, <<"e">>}
MCBuiltins == {<<"k">>, <<"e">>}

\* Lines with numbers of one or two digits, the number 4, and end of input.
MCLinesTyped == {<<"2", "\n">>, <<"4", "\n">>, <<"2", "D", "\n">>, <<"\n">>, <<"EOT">>}
MCTyped == {FlattenSeq(s) : s \in SeqOf(MCLinesTyped, 4)}
\* No digit, a digit, the end of the line.
MCLeftOvers == {" ", "7", "\n"}
\* dat (fib_vet.h:3-12), without the last entry, which is negative as an int.
MCValues == <<1, 1, 2, 3, 5, 8, 13, 21, 34, 55, 89, 144, 233, 377, 610, 987, 1597, 2584, 4181,
               6765, 10946, 17711, 28657, 46368, 75025, 121393, 196418, 317811, 514229, 832040,
               1346269, 2178309, 3524578, 5702887, 9227465, 14930352, 24157817, 39088169,
               63245986, 102334155, 165580141, 267914296, 433494437, 701408733, 1134903170,
               1836311903>>
MCDat == [n \in 0 .. 45 |-> MCValues[n + 1]]

\* Hours around midnight and 2:00 on days around the ends of months and years and the Sundays
\* of daylight savings time, in 28 years: the weekdays repeat after that.
MCDays == {0, 30, 31, 57, 58, 59, 60, 119, 120, 303} \cup 65 .. 74 \cup 304 .. 311 \cup {364, 365}
MCInstants ==
    {HRPERDY * (DaysTo(y, 0, 1) + d) + h :
       y \in (1995 .. 2022) \cup {1970, 2098}, d \in MCDays, h \in {0, 1, 2, 23}}

\* Conversions with every combination of flags that has a meaning, widths of one and two
\* digits, too wide, and negative as an argument.
MCSpecs ==
    {s \in [conv : {"d", "u", "o", "x", "X", "b", "c", "s"}, left : BOOLEAN, zero : BOOLEAN,
            star : BOOLEAN, min : {-2, 0, 1, 5, 12, 21}, max : {0, 1, 2, 12}] :
       /\ s.conv \notin {"c", "s"} => ~(s.left /\ s.zero)
       /\ s.conv # "s" => s.max = 0
       /\ s.min < 0 => s.star}
\* Around the powers of the bases, the thousand million, and the ends of a 12-bit int; in
\* binary what has room in string[].
MCInts == {-2047, -2000, -1001, -1000, -999, -10, -9, -8, -1,
              0, 1, 7, 8, 9, 10, 15, 16, 100, 999, 1000, 2047}
MCPrinted ==
    [f \in {"d", "u", "o", "x", "X", "b", "c", "s"} |->
       CASE f = "s" -> {<<>>, <<"a">>, <<"a", "b", "c">>}
         [] f = "c" -> {"a"}
         [] f = "b" -> (MCInts \cap 0 .. 127) \cup {64, 127}
         [] OTHER   -> MCInts]

NmRests == NmInit /\ \A e \in Range(nametab) : e.dev \notin {"rfilesys", "lfilesys"}
ShRests == ShInit /\ shline = <<"x">>
PgRests == PgInit /\ keys = <<>> /\ left = Newline
DtRests == dtnow = 0 /\ dt_daylight = "off"
PrRests ==
    /\ prspec = [conv |-> "c", left |-> FALSE, zero |-> FALSE, star |-> FALSE, min |-> 0, max |-> 0]
    /\ prvalue = "a"

AllInit ==
    /\ SqInit /\ MemInit /\ RfInit /\ EthInit
    /\ part \in {"sleep list", "heap", "remote files", "names", "shell", "ethernet",
                "program", "dates", "formats"}
    /\ IF part = "names" THEN NmInit ELSE NmRests
    /\ IF part = "shell" THEN ShInit ELSE ShRests
    /\ IF part = "program" THEN PgInit ELSE PgRests
    /\ IF part = "dates" THEN DtInit ELSE DtRests
    /\ IF part = "formats" THEN PrInit ELSE PrRests

\* Dates and formats are computed: nothing moves.
AllNext ==
    /\ UNCHANGED <<part, dtVars, prVars>>
    /\ \/ /\ part = "sleep list" /\ SqNext
          /\ UNCHANGED <<memVars, rfVars, nmVars, shVars, ethVars, pgVars>>
       \/ /\ part = "heap" /\ MemNext
          /\ UNCHANGED <<sqVars, rfVars, nmVars, shVars, ethVars, pgVars>>
       \/ /\ part = "remote files" /\ RfNext
          /\ UNCHANGED <<sqVars, memVars, nmVars, shVars, ethVars, pgVars>>
       \/ /\ part = "names" /\ NmNext
          /\ UNCHANGED <<sqVars, memVars, rfVars, shVars, ethVars, pgVars>>
       \/ /\ part = "shell" /\ ShNext
          /\ UNCHANGED <<sqVars, memVars, rfVars, nmVars, ethVars, pgVars>>
       \/ /\ part = "ethernet" /\ EthNext
          /\ UNCHANGED <<sqVars, memVars, rfVars, nmVars, shVars, pgVars>>
       \/ /\ part = "program" /\ PgNext
          /\ UNCHANGED <<sqVars, memVars, rfVars, nmVars, shVars, ethVars>>

AllVars == <<sqVars, memVars, rfVars, nmVars, shVars, ethVars, pgVars, dtVars, prVars,
             part>>

AllSpec == AllInit /\ [][AllNext]_AllVars /\ RfFairness

\* Behaviours of the name space alone.
NamesSpec == AllInit /\ part = "names" /\ [][AllNext]_AllVars
==================================================================================
