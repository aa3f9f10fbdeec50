------------------------------- MODULE Semaphore -------------------------------
(***************************************************************************)
(* What the semaphores of Xinu promise: a semaphore holds tokens or a      *)
(* queue of waiting processes, never both; signals release the waiting     *)
(* processes one by one in the order they came; deleting and resetting a   *)
(* semaphore releases all of them at once.                                 *)
(***************************************************************************)
EXTENDS Integers, SequencesExt

CONSTANTS Sem, Process

VARIABLES
    live,       \* the semaphores that exist
    tokens,     \* [Sem -> Nat]
    waiting     \* [Sem -> Seq(Process)], first come first

vars == <<live, tokens, waiting>>

Init ==
    /\ live = {}
    /\ tokens = [s \in Sem |-> 0]
    /\ waiting = [s \in Sem |-> <<>>]

\* The new count is whatever the caller asks for.
SetTokens(s) ==
    /\ tokens'[s] \in Nat
    /\ tokens' = [tokens EXCEPT ![s] = tokens'[s]]

Create(s) ==
    /\ s \notin live /\ waiting[s] = <<>>
    /\ live' = live \cup {s}
    /\ SetTokens(s)
    /\ UNCHANGED waiting

Take(s) ==
    /\ s \in live /\ tokens[s] > 0
    /\ tokens' = [tokens EXCEPT ![s] = @ - 1]
    /\ UNCHANGED <<live, waiting>>

Wait(s, p) ==
    /\ s \in live /\ tokens[s] = 0
    /\ \A t \in Sem : ~Contains(waiting[t], p)
    /\ waiting' = [waiting EXCEPT ![s] = Append(@, p)]
    /\ UNCHANGED <<live, tokens>>

Signal(s) ==
    /\ s \in live
    /\ IF waiting[s] = <<>>
       THEN tokens' = [tokens EXCEPT ![s] = @ + 1] /\ UNCHANGED waiting
       ELSE waiting' = [waiting EXCEPT ![s] = Tail(@)] /\ UNCHANGED tokens
    /\ UNCHANGED live

\* A waiting process is killed: the others keep their order.
Leave(s) ==
    /\ \E i \in DOMAIN waiting[s] : waiting' = [waiting EXCEPT ![s] = RemoveAt(@, i)]
    /\ UNCHANGED <<live, tokens>>

Delete(s) ==
    /\ s \in live
    /\ live' = live \ {s}
    /\ tokens' = [tokens EXCEPT ![s] = 0]
    /\ waiting' = [waiting EXCEPT ![s] = <<>>]

Reset(s) ==
    /\ s \in live
    /\ waiting' = [waiting EXCEPT ![s] = <<>>]
    /\ SetTokens(s)
    /\ UNCHANGED live

Next == \E s \in Sem :
    \/ Create(s) \/ Take(s) \/ Signal(s) \/ Leave(s) \/ Delete(s) \/ Reset(s)
    \/ \E p \in Process : Wait(s, p)

Spec == Init /\ [][Next]_vars
=============================================================================
