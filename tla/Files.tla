---------------------------------- MODULE Files ----------------------------------
(***************************************************************************)
(* What a file system promises: a file is a sequence of bytes, which stays *)
(* as it was written until it is written or truncated again.               *)
(***************************************************************************)
EXTENDS Integers, SequencesExt

CONSTANTS Name, Device, Buffer

VARIABLES
    content,    \* the bytes of each file; a file that does not exist has none
    at,         \* where each device is in its file: [file, pos], "closed" if in none
    result      \* the bytes the last call has read

vars == <<content, at, result>>

Closed == [file |-> "closed", pos |-> 0]

Init ==
    /\ content = [n \in Name |-> <<>>] /\ at = [d \in Device |-> Closed] /\ result = <<>>

\* s with the bytes of b from position pos on.
Overwrite(s, pos, b) ==
    SubSeq(s, 1, pos) \o b \o SubSeq(s, pos + Len(b) + 1, Len(s))

Open(d, n) ==
    /\ at[d] = Closed /\ \A e \in Device : at[e].file # n
    /\ at' = [at EXCEPT ![d] = [file |-> n, pos |-> 0]]
    /\ result' = <<>> /\ UNCHANGED content

Close(d) ==
    /\ at[d] # Closed /\ at' = [at EXCEPT ![d] = Closed]
    /\ result' = <<>> /\ UNCHANGED content

Write(d, b) ==
    /\ at[d] # Closed /\ at' = [at EXCEPT ![d].pos = @ + Len(b)]
    /\ result' = <<>>
    /\ content' = [content EXCEPT ![at[d].file] = Overwrite(@, at[d].pos, b)]

Read(d, n) ==
    /\ at[d] # Closed /\ at' = [at EXCEPT ![d].pos = @ + Len(result')]
    /\ LET bytes == content[at[d].file]
       IN result' = SubSeq(bytes, at[d].pos + 1, Min({at[d].pos + n, Len(bytes)}))
    /\ UNCHANGED content

\* To any place in the file.
Seek(d) ==
    /\ result' = <<>> /\ at[d] # Closed
    /\ LET pos == at'[d].pos
       IN  at' = [at EXCEPT ![d].pos = pos] /\ pos <= Len(content[at[d].file])
    /\ UNCHANGED content

Truncate(d) ==
    /\ at[d] # Closed /\ at' = [at EXCEPT ![d].pos = 0]
    /\ result' = <<>>
    /\ content' = [content EXCEPT ![at[d].file] = <<>>]

Next ==
    \E d \in Device :
        \/ \E n \in Name : Open(d, n)
        \/ Close(d) \/ Truncate(d) \/ Seek(d)
        \/ \E b \in Buffer : Write(d, b)
        \/ \E n \in 1 .. 2 : Read(d, n)

Spec == Init /\ [][Next]_vars
==================================================================================
