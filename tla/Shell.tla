---------------------------------- MODULE Shell ----------------------------------
(***************************************************************************)
(* The shell (shell/): it divides a line into tokens, and runs a command   *)
(* in a process of its own, the end of which it waits for unless the       *)
(* command is in the background.                                           *)
(*                                                                         *)
(* A command ends in kill(), which sends its process identifier to the     *)
(* shell; a process has room for one message, and the identifier may be    *)
(* that of a later command too.  The shell runs before the commands it     *)
(* starts, so that what it does is one step up to a receive() that waits.  *)
(***************************************************************************)
EXTENDS Integers, SequencesExt

CONSTANTS
    FirstLines,     \* lines that the shell may find when it starts
    ShLines,        \* lines that are typed later
    Commands, Builtins, \* the names in cmdtab, as texts
    SHELL_MAXTOK,
    ShSlots,        \* process slots that are left for commands
    ShFirst         \* the shell has a higher priority than its commands

VARIABLES
    shline,         \* the line that is read next
    shell,          \* [at, child, msg]: where the shell is, the command it waits for, prmsg
    shcmds,         \* what is in a slot: "free", "run", or "dying", a process inside kill()
    shnext          \* nextpid

shVars == <<shline, shell, shcmds, shnext>>

Blank == " "
Quotes == {"'", "\""}
Redirects == {"<", ">"}
Other == "other"

Slots == 1 .. ShSlots

ShInit ==
    /\ shline \in FirstLines
    /\ shell = [at |-> "read", child |-> 0, msg |-> 0]
    /\ shcmds = [s \in Slots |-> "free"] /\ shnext = 1

-----------------------------------------------------------------------------
(* lexan(), one character after the other.                                 *)

\* Where lexan() is: between tokens, in a word, or inside a quote.
Lexing(at, ok, toks, text) == [at |-> at, ok |-> ok, toks |-> toks, text |-> text]
Token(type, text) == [type |-> type, text |-> text]

\* Mutant of Between: more tokens than there is place for.
BetweenUnbounded(s, ch) ==
    IF ch = Blank THEN s
    ELSE IF ch \in Redirects \cup {"&"} THEN [s EXCEPT !.toks = Append(@, Token(ch, <<ch>>))]
    ELSE Lexing(IF ch \in Quotes THEN ch ELSE "word", TRUE, s.toks,
                IF ch \in Quotes THEN <<>> ELSE <<ch>>)

\* A character between tokens; no room for a token is found out here, even by a blank.
Between(s, ch) ==
    IF Len(s.toks) >= SHELL_MAXTOK THEN [s EXCEPT !.ok = FALSE]
    ELSE IF ch = Blank THEN s
    ELSE IF ch \in Redirects \cup {"&"} THEN [s EXCEPT !.toks = Append(@, Token(ch, <<ch>>))]
    ELSE Lexing(IF ch \in Quotes THEN ch ELSE "word", TRUE, s.toks,
                IF ch \in Quotes THEN <<>> ELSE <<ch>>)

\* The token in text is complete.
Complete(s) == Lexing("between", s.ok, Append(s.toks, Token(Other, s.text)), <<>>)

LexChar(s, ch) ==
    CASE ~s.ok            -> s
      [] s.at = "between" -> Between(s, ch)
      [] s.at = "word"    -> IF ch \in Quotes \cup Redirects THEN [s EXCEPT !.ok = FALSE]
                             ELSE IF ch \in {Blank, "&"} THEN Between(Complete(s), ch)
                             ELSE [s EXCEPT !.text = Append(@, ch)]
      [] s.at \in Quotes  -> IF ch = s.at THEN Complete(s) ELSE [s EXCEPT !.text = Append(@, ch)]

\* lexan(): the tokens of a line, and whether it is one.
Lex(line) ==
    LET s == FoldLeft(LexChar, Lexing("between", TRUE, <<>>, <<>>), line)
    IN  IF s.at = "word" THEN Complete(s) ELSE [s EXCEPT !.ok = @ /\ s.at = "between"]

-----------------------------------------------------------------------------
(* What the shell makes of the tokens.                                     *)

Types(toks) == [i \in DOMAIN toks |-> toks[i].type]

\* The last redirection is taken off: c is what was taken off before.
Redirection(c) ==
    LET n == Len(c.toks)
    IN  IF n < 3 \/ c.toks[n - 1].type \notin Redirects \/ ~c.ok THEN c
        ELSE [c EXCEPT !.ok = c.toks[n].type = Other /\ c.toks[n - 1].type \notin DOMAIN c.files,
                       !.toks = SubSeq(@, 1, n - 2),
                       !.files = [r \in DOMAIN @ \cup {c.toks[n - 1].type} |->
                                    IF r \in DOMAIN @ THEN @[r] ELSE c.toks[n].text]]

\* The command of a line of tokens: arguments, redirected files, background.
Parse(toks) ==
    LET backgnd == Last(toks).type = "&"
        start   == [ok |-> TRUE, toks |-> IF backgnd THEN Front(toks) ELSE toks,
                    files |-> [r \in {} |-> <<>>]]
        c       == Redirection(Redirection(start))
    IN  [ok |-> c.ok /\ c.toks # <<>> /\ \A i \in DOMAIN c.toks : c.toks[i].type = Other,
         args |-> c.toks, files |-> c.files, backgnd |-> backgnd]

\* The command is found in cmdtab, and may be run as it is given.
Runs(c) ==
    /\ c.ok /\ c.args[1].text \in Commands
    /\ c.args[1].text \in Builtins => DOMAIN c.files = {} /\ ~c.backgnd

-----------------------------------------------------------------------------
(* The processes.                                                          *)

\* Mutant of Launch: messages that came before are not thrown away.
LaunchUncleared(s, backgnd) ==
    /\ shcmds' = [shcmds EXCEPT ![s] = "run"] /\ shnext' = (s % ShSlots) + 1
    /\ shell' = IF backgnd THEN [shell EXCEPT !.child = 0]
                ELSE [shell EXCEPT !.at = "wait", !.child = s]

\* create(), addargs(), recvclr() and resume(): slot s runs the command.
Launch(s, backgnd) ==
    /\ shcmds' = [shcmds EXCEPT ![s] = "run"] /\ shnext' = (s % ShSlots) + 1
    /\ shell' = IF backgnd THEN [shell EXCEPT !.child = 0, !.msg = 0]
                ELSE [at |-> "wait", child |-> s, msg |-> 0]

\* newpid(): the first free slot from nextpid on.
FreeSlot == CHOOSE s \in Slots :
    /\ shcmds[s] = "free"
    /\ \A t \in Slots : shcmds[t] = "free" => (s - shnext) % ShSlots <= (t - shnext) % ShSlots

\* send() of p to the shell from kill(): the message is lost when there is one.
Told(p) == IF shell.msg # 0 \/ shell.at = "closed" THEN shell
           ELSE [shell EXCEPT !.msg = p, !.at = IF @ = "receive" THEN "wait" ELSE @]

\* The builtin kill, of a command that runs, or is inside kill() already.
Kill(s) ==
    /\ shcmds[s] # "free"
    /\ shcmds' = [shcmds EXCEPT ![s] = "free"] /\ shell' = Told(s)
    /\ UNCHANGED shnext

\* What the shell does with a line; files that cannot be opened and a table without a free
\* slot end the command, and what is opened stays open.
Obey(line) ==
    LET l == Lex(line)
        c == Parse(l.toks)
        nothing == UNCHANGED <<shell, shcmds, shnext>>
        name == c.args[1].text
    IN  IF ~l.ok \/ l.toks = <<>> THEN nothing
        ELSE IF ~Runs(c) THEN nothing
        ELSE CASE name = <<"e">> -> /\ shell' = [shell EXCEPT !.at = "closed"]
                                    /\ UNCHANGED <<shcmds, shnext>>
               [] name = <<"k">> -> (\E s \in Slots : Kill(s)) \/ nothing
               [] name \notin Builtins ->
                     \/ /\ \E s \in Slots : shcmds[s] = "free"
                        /\ Launch(FreeSlot, c.backgnd)
                     \/ /\ DOMAIN c.files # {} \/ \A s \in Slots : shcmds[s] # "free"
                        /\ nothing

ShellReads ==
    /\ shell.at = "read"
    /\ shline' \in ShLines
    /\ Obey(shline)

\* receive(): the message of another command is thrown away.
ShellReceives ==
    /\ shell.at = "wait"
    /\ shell' = IF shell.msg = 0 THEN [shell EXCEPT !.at = "receive"]
                ELSE [shell EXCEPT !.msg = 0, !.at = IF shell.msg = shell.child THEN "read" ELSE "wait"]
    /\ UNCHANGED <<shline, shcmds, shnext>>

\* A command runs when the shell does not.
CommandsRun == ~ShFirst \/ shell.at # "wait"

\* A command comes to send() in kill() (userret.c): the shell may run before it goes on.
Ends(s) ==
    /\ CommandsRun /\ shcmds[s] = "run"
    /\ shcmds' = [shcmds EXCEPT ![s] = "dying"] /\ shell' = Told(s)
    /\ UNCHANGED <<shline, shnext>>

Ended(s) ==
    /\ CommandsRun /\ shcmds[s] = "dying"
    /\ shcmds' = [shcmds EXCEPT ![s] = "free"]
    /\ UNCHANGED <<shline, shell, shnext>>

ShNext ==
    \/ ShellReads \/ ShellReceives
    \/ \E s \in Slots : Ends(s) \/ Ended(s)

ShSpec == ShInit /\ [][ShNext]_shVars

-----------------------------------------------------------------------------
\* The shell waits only for a command that has not told of its end yet, and reads on only
\* when the command in the foreground has: through commands in the background that end
\* meanwhile, messages that are lost because one is there, and slots that are used again
\* (shell.c:302-309, kill.c:28, send.c:27).
ShellWaits ==
    /\ shell.at = "receive" => shcmds[shell.child] = "run"
    /\ shell.at = "read" /\ shell.child # 0 => shcmds[shell.child] # "run"

\* The ways to divide line from p on into tokens, for every p.
Divisions(line) ==
    LET n == Len(line)
        word(p, e) == /\ \A i \in p .. e - 1 : line[i] \notin Quotes \cup Redirects \cup {Blank, "&"}
                      /\ e <= n => line[e] \in {Blank, "&"}
        quoted(p, e) == /\ line[p] \in Quotes /\ e > p + 1 /\ line[e - 1] = line[p]
                        /\ \A i \in p + 1 .. e - 2 : line[i] # line[p]
        rest[p \in 1 .. n + 1] ==
            IF p = n + 1 THEN {<<>>}
            ELSE IF line[p] = Blank THEN rest[p + 1]
            ELSE IF line[p] \in Redirects \cup {"&"}
            THEN {<<Token(line[p], <<line[p]>>)>> \o t : t \in rest[p + 1]}
            ELSE UNION {{<<Token(Other, IF line[p] \in Quotes THEN SubSeq(line, p + 1, e - 2)
                                        ELSE SubSeq(line, p, e - 1))>> \o t : t \in rest[e]} :
                        e \in {x \in p + 1 .. n + 1 : word(p, x) \/ quoted(p, x)}}
    IN  rest[1]

\* "command_name [args*] [redirection] [&]. Redirection is either or both of < input_file
\* or > output_file" (shell.c:45-53).
Syntax(types) ==
    \E words \in 1 .. Len(types), amp \in {<<>>, <<"&">>},
       redir \in {<<>>, <<"<", Other>>, <<">", Other>>, <<"<", Other, ">", Other>>,
                  <<">", Other, "<", Other>>} :
        types = [i \in 1 .. words |-> Other] \o redir \o amp

\* A line is divided into its tokens, which fit the arrays they are copied to (shell.c:64,
\* shell.h:5-9), and is a command if and only if it has the syntax that is documented.
LexRight ==
    LET l    == Lex(shline)
        size == FoldLeft(LAMBDA n, t : n + Len(t.text) + 1, 0, l.toks)
    IN  shell.at = "read" =>
        /\ l.ok => Divisions(shline) = {l.toks} /\ Len(l.toks) <= SHELL_MAXTOK
                   /\ size <= Len(shline) + SHELL_MAXTOK
        /\ ~l.ok => \A t \in Divisions(shline) : Len(t) >= SHELL_MAXTOK
        /\ l.ok /\ l.toks # <<>> => (Parse(l.toks).ok <=> Syntax(Types(l.toks)))
==================================================================================
