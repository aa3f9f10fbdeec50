-------------------------------- MODULE MCStorage -------------------------------
(***************************************************************************)
(* The local file system and the remote disk share no state: one run       *)
(* checks each of them with the other at rest.                             *)
(***************************************************************************)
EXTENDS LocalFiles, RemoteDisk, TLC

CONSTANTS p1, p2

MCBuffers == {<<"a", "b">>}

\* Who reads and writes which blocks, while both open, close, delete and wait for SYNC: one
\* process two blocks, one process block 0, or both processes the same block.
MCSharings ==
    LET Two(a, b) == [p \in {p1, p2} |-> IF p = p1 THEN a ELSE b]
        Others == RdBlocks \ {0}
    IN  {Two(Others, {}), Two({0}, {})} \cup {Two({k}, {k}) : k \in Others}

StorageInit == LfInit /\ RdInit

StorageNext ==
    \/ RdInit /\ LfNext /\ UNCHANGED rdVars
    \/ LfInit /\ RdNext /\ UNCHANGED lfVars

StorageSpec == StorageInit /\ [][StorageNext]_<<lfVars, rdVars>>

\* The fields of a buffer that are looked at on the list it is on.
Looked(b) ==
    LET v == rdbuf[b]
        d == IF v.valid THEN v.data ELSE "0"
    IN  IF Contains(rdreq, b) THEN <<v.op, v.blk, v.pid, d>>
        ELSE IF Contains(rdcache, b) THEN <<v.refcnt, v.blk, v.valid, d>> ELSE <<>>

\* States that differ only in what the properties of the remote disk do not depend on, the
\* blocks on the server and those that come from it, are one state.
StorageView ==
    <<lfVars, rdstate, [b \in RdBuffers |-> Looked(b)], rdfree, rdcache, rdreq, rdavail, rdreqsem,
      rdseq, rdcomm, rdcall, rduses, rdOut, [i \in DOMAIN rdIn |-> <<rdIn[i].seq, rdIn[i].op>>],
      rdlast, rdgot, rdshared, rdstop>>

\* Names and block numbers other than that of SYNC are only compared; devices are not alike,
\* lfsOpen() takes the first free one.
Sym == Permutations(Names) \cup Permutations(RdBlocks \ {0})
==================================================================================
