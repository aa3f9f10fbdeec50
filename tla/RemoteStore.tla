------------------------------- MODULE RemoteStore -------------------------------
(***************************************************************************)
(* What remote files promise over a network that loses packets: a call     *)
(* that succeeds found the files as its result says, and nothing asked for *)
(* before it takes effect after it.  A call that fails may have taken      *)
(* effect, or may still, until a later one succeeds.                       *)
(***************************************************************************)
EXTENDS FileServer

CONSTANT Device

VARIABLES
    content,    \* the files of the server
    at,         \* where each device is: [name, pos], Closed if it is not open
    asked,      \* requests that may take effect, again if they have
    got         \* what the call that ends in this step returns

vars == <<content, at, asked, got>>

Closed == [name |-> "", pos |-> 0]

Init ==
    /\ content = [n \in {} |-> <<>>] /\ at = [d \in Device |-> Closed]
    /\ asked = {} /\ got = NoReturn

\* Requests are made, or lost.
Ask == got' = NoReturn /\ UNCHANGED <<content, at>>

Effect(q) ==
    /\ content' = Serve(content, q).files
    /\ asked' \subseteq asked
    /\ got' = NoReturn /\ UNCHANGED at

\* A call succeeds: what it asked for has taken effect, what it says is so, and nothing
\* else that was asked for is left.
Succeed(q) ==
    /\ Serve(content, q).files = content
    /\ got' = IF q.op \in {"read", "size"} THEN Serve(content, q).data ELSE q.data
    /\ asked' \subseteq {q}
    /\ CASE q.op = "open" ->
              \E d \in Device : at[d] = Closed /\ at' = [at EXCEPT ![d] = [name |-> q.name, pos |-> 0]]
         [] q.op \in {"read", "write"} ->
              \E d \in Device : /\ at[d] = [name |-> q.name, pos |-> q.pos]
                                /\ at' = [at EXCEPT ![d].pos = @ + Len(got')]
         [] OTHER -> UNCHANGED at
    /\ UNCHANGED content

Fail == got' = SYSERR /\ asked' \subseteq asked /\ UNCHANGED <<content, at>>

Close(d) == at' = [at EXCEPT ![d] = Closed] /\ got' = <<>> /\ UNCHANGED <<content, asked>>

Seek(d) ==
    /\ at[d] # Closed
    /\ \A e \in Device : at'[e].name = at[e].name /\ (e # d => at'[e] = at[e])
    /\ got' = <<>> /\ UNCHANGED <<content, asked>>

Next ==
    \/ Ask \/ Fail
    \/ \E q \in asked : Effect(q) \/ Succeed(q)
    \/ \E d \in Device : Close(d) \/ Seek(d)

Spec == Init /\ [][Next]_vars
==================================================================================
