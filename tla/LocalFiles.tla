------------------------------- MODULE LocalFiles --------------------------------
(***************************************************************************)
(* The local file system (device/lfs) on a ram disk (device/ram).          *)
(*                                                                         *)
(* Every call starts with interrupts disabled (read.c, open.c, ...) and    *)
(* the ram disk never blocks, so no wait() on a mutex does and a call is   *)
(* one step.  A step is a function of the state s; s.f is the control      *)
(* block of the file that is worked on.                                    *)
(***************************************************************************)
EXTENDS Integers, FiniteSets, SequencesExt

CONSTANTS
    Nlfl,           \* file pseudo-devices
    Names,          \* of files
    Buffers,        \* what write() writes
    ReadCounts,     \* counts of read()
    LF_BLKSIZ,      \* bytes in a data block
    LF_IBLEN,       \* data blocks in an index block
    NumIB, NumDB,   \* index blocks and data blocks on the disk
    LF_NUM_DIR_ENT, \* entries in the directory
    MaxSize,        \* bound: size a file is written up to
    OpenTwice       \* programs open a file that is open, which the code lets them

VARIABLES
    lfDir,          \* Lf_data.lf_dir: [dfree, ifree, files]
    lfDirty,        \* Lf_data.lf_dirdirty
    lfltab,         \* control blocks of the pseudo-devices
    lfDisk,         \* the disk: [dir, ib, db]
    lfRead,         \* history: the bytes the last call has read
    lfPanic         \* lfiballoc() or lfdballoc() has called panic()

lfVars == <<lfDir, lfDirty, lfltab, lfDisk, lfRead, lfPanic>>

NIL == -1                       \* LF_INULL, LF_DNULL
LfIDATA == LF_BLKSIZ * LF_IBLEN
LfDevices == 1 .. Nlfl

\* What a closed control block keeps is never looked at.
LfFree == [state |-> "free", file |-> 0, pos |-> 0, name |-> "", byte |-> LF_BLKSIZ,
           inum |-> NIL, iblock |-> [next |-> NIL, offset |-> 0, dba |-> <<>>],
           dnum |-> NIL, dblock |-> <<>>, ibdirty |-> FALSE, dbdirty |-> FALSE]

\* A new index block, and a data block on the list of free blocks.
Ibclear(offset) == [next |-> NIL, offset |-> offset, dba |-> [i \in 1 .. LF_IBLEN |-> NIL]]
Dbfree(next) == [next |-> next, data |-> <<>>]

\* lfscreate(), lfsInit(), lflInit().
LfInit ==
    /\ lfDir = [dfree |-> 0, ifree |-> 0, files |-> <<>>]
    /\ lfDisk = [dir |-> lfDir,
                 ib |-> [n \in 0 .. NumIB - 1 |->
                           [Ibclear(0) EXCEPT !.next = IF n = NumIB - 1 THEN NIL ELSE n + 1]],
                 db |-> [n \in 0 .. NumDB - 1 |-> Dbfree(IF n = NumDB - 1 THEN NIL ELSE n + 1)]]
    /\ lfDirty = FALSE /\ lfPanic = FALSE
    /\ lfltab = [d \in LfDevices |-> LfFree]
    /\ lfRead = <<>>

-----------------------------------------------------------------------------
LfState(d) == [dir |-> lfDir, dirty |-> lfDirty, disk |-> lfDisk, f |-> lfltab[d], panic |-> FALSE]

WriteDir(s) == [s EXCEPT !.disk.dir = s.dir, !.dirty = FALSE]

\* lfflush(): directory, data block, index block.
Lfflush(s) ==
    LET s1 == IF s.dirty THEN WriteDir(s) ELSE s
        s2 == IF s1.f.dbdirty
              THEN [s1 EXCEPT !.disk.db[s1.f.dnum] = [next |-> NIL, data |-> s1.f.dblock],
                              !.f.dbdirty = FALSE]
              ELSE s1
    IN  IF s2.f.ibdirty
        THEN [s2 EXCEPT !.disk.ib[s2.f.inum] = s2.f.iblock, !.f.ibdirty = FALSE]
        ELSE s2

\* lfiballoc(): the first free index block; the directory goes to the disk.
Iballoc(s) == WriteDir([s EXCEPT !.dir.ifree = s.disk.ib[@].next])

\* lfdballoc(), into entry k of the index block; the block is filled with '+'.
Dballoc(s, k) ==
    LET d == s.dir.dfree
    IN  [WriteDir([s EXCEPT !.dir.dfree = s.disk.db[d].next])
           EXCEPT !.f.iblock.dba[k] = d, !.f.ibdirty = TRUE, !.f.dnum = d,
                  !.f.dblock = [i \in 1 .. LF_BLKSIZ |-> "+"]]

\* Mutant of LoadIndex: the index block is left as it is after a seek backwards.
LoadIndexStale(s) ==
    LET first == s.dir.files[s.f.file].ilist
    IN  IF s.f.inum = NIL /\ first = NIL
        THEN LET t == Iballoc(s)
             IN [t EXCEPT !.dir.files[s.f.file].ilist = s.dir.ifree, !.f.inum = s.dir.ifree,
                          !.f.iblock = Ibclear(0), !.f.ibdirty = TRUE]
        ELSE IF s.f.inum = NIL
        THEN [s EXCEPT !.f.inum = first, !.f.iblock = s.disk.ib[first]]
        ELSE s

\* lfsetup.c:45-72: an index block in memory, of an offset that is not too large.
LoadIndex(s) ==
    LET first == s.dir.files[s.f.file].ilist
    IN  IF s.f.inum = NIL /\ first = NIL
        THEN LET t == Iballoc(s)
             IN [t EXCEPT !.dir.files[s.f.file].ilist = s.dir.ifree, !.f.inum = s.dir.ifree,
                          !.f.iblock = Ibclear(0), !.f.ibdirty = TRUE]
        ELSE IF s.f.inum = NIL \/ s.f.pos < s.f.iblock.offset
        THEN [s EXCEPT !.f.inum = first, !.f.iblock = s.disk.ib[first]]
        ELSE s

\* lfsetup.c:82-88: a new index block after the last.
ExtendIndex(s) ==
    LET n == s.dir.ifree
    IN  [Iballoc(s) EXCEPT !.disk.ib[s.f.inum] = [s.f.iblock EXCEPT !.next = n],
                           !.f.inum = n, !.f.ibdirty = TRUE,
                           !.f.iblock = Ibclear(s.f.iblock.offset + LfIDATA)]

\* lfsetup.c:78-94: on to the index block that covers the position.
RECURSIVE SeekIndex(_)
SeekIndex(s) ==
    IF s.panic \/ (s.f.pos \div LfIDATA) * LfIDATA <= s.f.iblock.offset THEN s
    ELSE IF s.f.iblock.next # NIL
    THEN SeekIndex([s EXCEPT !.f.inum = s.f.iblock.next, !.f.iblock = s.disk.ib[s.f.iblock.next],
                             !.f.dnum = NIL])
    ELSE IF s.dir.ifree = NIL THEN [s EXCEPT !.panic = TRUE]
    ELSE SeekIndex([ExtendIndex(s) EXCEPT !.f.dnum = NIL])

\* lfsetup.c:100-114: the data block of the position.
LoadData(s) ==
    LET k == ((s.f.pos % LfIDATA) \div LF_BLKSIZ) + 1
        d == s.f.iblock.dba[k]
    IN  IF s.panic THEN s
        ELSE IF d = NIL /\ s.dir.dfree = NIL THEN [s EXCEPT !.panic = TRUE]
        ELSE IF d = NIL THEN Dballoc(s, k)
        ELSE IF d # s.f.dnum
        THEN [s EXCEPT !.f.dnum = d, !.f.dblock = s.disk.db[d].data, !.f.dbdirty = FALSE]
        ELSE s

\* lfsetup(): what changed is written, then the blocks of the position are loaded.
Lfsetup(s) ==
    LET t == IF s.f.ibdirty \/ s.f.dbdirty THEN Lfflush(s) ELSE s
        u == IF t.f.inum = NIL /\ t.dir.files[t.f.file].ilist = NIL /\ t.dir.ifree = NIL
             THEN [t EXCEPT !.panic = TRUE] ELSE LoadData(SeekIndex(LoadIndex(t)))
    IN  [u EXCEPT !.f.byte = u.f.pos % LF_BLKSIZ]

\* A byte pointer beyond the block has it set up.
Placed(s) == IF s.f.byte >= LF_BLKSIZ THEN Lfsetup(s) ELSE s

LfSize(s) == s.dir.files[s.f.file].size

\* lflPutc() of an open file.
Putc(s, ch) ==
    LET t == Placed(s)
    IN  IF s.panic \/ s.f.pos > LfSize(s) THEN s
        ELSE IF t.panic THEN t
        ELSE [t EXCEPT !.dir.files[t.f.file].size = IF t.f.pos >= @ THEN @ + 1 ELSE @,
                       !.dirty = @ \/ t.f.pos >= LfSize(t),
                       !.f.dblock[t.f.byte + 1] = ch,
                       !.f.byte = @ + 1, !.f.pos = @ + 1, !.f.dbdirty = TRUE]

\* lflGetc() of an open file that has not ended, n times at most: [s, bytes].
RECURSIVE Getc(_, _, _)
Getc(s, n, bytes) ==
    LET t == Placed(s)
    IN  IF n = 0 \/ s.f.pos >= LfSize(s) THEN [s |-> s, bytes |-> bytes]
        ELSE Getc([t EXCEPT !.f.byte = @ + 1, !.f.pos = @ + 1], n - 1,
                  Append(bytes, t.f.dblock[t.f.byte + 1]))

\* lfdbfree(): the block goes to the list, the directory to the disk.
FreeData(s, d) ==
    LET t == [s EXCEPT !.disk.db[d] = Dbfree(s.dir.dfree), !.dir.dfree = d]
    IN  [t EXCEPT !.disk.dir = t.dir]

\* lftruncate.c:54-90: the data blocks of the index blocks from n on are freed; the
\* last index block is linked to the free ones.
RECURSIVE FreeIndex(_, _)
FreeIndex(s, n) ==
    IF n = s.dir.ifree THEN s
    ELSE LET ib   == s.disk.ib[n]
             t    == FoldLeft(FreeData, s, SelectSeq(ib.dba, LAMBDA d : d # NIL))
             next == IF ib.next = NIL THEN s.dir.ifree ELSE ib.next
         IN  FreeIndex([t EXCEPT !.disk.ib[n] = [Ibclear(0) EXCEPT !.next = next]], next)

\* Mutant of Lftruncate: the index blocks are not put on the list of free ones.
LftruncateLeaking(s) ==
    LET t == IF s.f.ibdirty \/ s.f.dbdirty THEN Lfflush(s) ELSE s
        first == t.dir.files[t.f.file].ilist
        u == [t EXCEPT !.f.pos = 0, !.f.inum = NIL, !.f.dnum = NIL, !.f.byte = LF_BLKSIZ,
                       !.dir.files[t.f.file].ilist = NIL, !.dir.files[t.f.file].size = 0,
                       !.dirty = TRUE]
    IN  IF LfSize(s) = 0 THEN s ELSE FreeIndex(u, first)

Lftruncate(s) ==
    LET t == IF s.f.ibdirty \/ s.f.dbdirty THEN Lfflush(s) ELSE s
        first == t.dir.files[t.f.file].ilist
        u == [t EXCEPT !.f.pos = 0, !.f.inum = NIL, !.f.dnum = NIL, !.f.byte = LF_BLKSIZ,
                       !.dir.files[t.f.file].ilist = NIL, !.dir.files[t.f.file].size = 0,
                       !.dirty = TRUE]
    IN  IF LfSize(s) = 0 THEN s ELSE [FreeIndex(u, first) EXCEPT !.dir.ifree = first]

-----------------------------------------------------------------------------
\* A call on an open device; panic() stops the system.
InUse(d) == lfltab[d].state = "used" /\ ~lfPanic

Becomes(d, s) ==
    /\ lfDir' = s.dir /\ lfDirty' = s.dirty /\ lfDisk' = s.disk /\ lfPanic' = s.panic
    /\ lfltab' = [lfltab EXCEPT ![d] = s.f]

\* lfsOpen(), mode being "o" if the file must exist, "n" if it must not.  The name is
\* copied to where its end is stored too (lfsOpen.c:159-163), so lfname is empty and the
\* test for an open file finds none.
Open(n, mode) ==
    LET free  == {d \in LfDevices : lfltab[d].state = "free"}
        old   == {i \in DOMAIN lfDir.files : lfDir.files[i].name = n}
        entry == IF old # {} THEN Min(old) ELSE Len(lfDir.files) + 1
        d     == Min(free)
    IN  /\ ~lfPanic /\ free # {}
        /\ \A e \in LfDevices \ free : lfltab[e].name # n
        /\ OpenTwice \/ \A e \in LfDevices \ free : lfltab[e].file # entry
        /\ IF old # {} THEN mode # "n" /\ UNCHANGED lfDir
           ELSE /\ mode # "o" /\ Len(lfDir.files) < LF_NUM_DIR_ENT
                /\ lfDir' = [lfDir EXCEPT !.files =
                               Append(@, [name |-> n, size |-> 0, ilist |-> NIL])]
        /\ lfltab' = [lfltab EXCEPT ![d] = [LfFree EXCEPT !.state = "used", !.file = entry,
                                                         !.name = ""]]
        /\ lfRead' = <<>> /\ UNCHANGED <<lfDirty, lfDisk, lfPanic>>

\* Mutant of Close: nothing is flushed when only the directory has changed.
CloseUnsaved(d) ==
    LET s == LfState(d)
        t == IF s.f.ibdirty \/ s.f.dbdirty THEN Lfflush(s) ELSE s
    IN  InUse(d) /\ Becomes(d, [t EXCEPT !.f = LfFree]) /\ lfRead' = <<>>

\* lflClose()
Close(d) ==
    LET s == LfState(d)
        t == IF s.dirty \/ s.f.ibdirty \/ s.f.dbdirty THEN Lfflush(s) ELSE s
    IN  InUse(d) /\ Becomes(d, [t EXCEPT !.f = LfFree]) /\ lfRead' = <<>>

\* lflWrite(), or lflPutc() for one byte.
Write(d, buff) ==
    /\ InUse(d) /\ lfltab[d].pos + Len(buff) <= MaxSize
    /\ Becomes(d, FoldLeft(Putc, LfState(d), buff))
    /\ lfRead' = <<>>

\* lflRead(), or lflGetc() for one byte.
Read(d, n) ==
    LET r == Getc(LfState(d), n, <<>>)
    IN  InUse(d) /\ Becomes(d, r.s) /\ lfRead' = r.bytes

\* lflSeek(): the blocks are looked up when a byte is read or written.
Seek(d, offset) ==
    /\ InUse(d) /\ offset <= LfSize(LfState(d))
    /\ lfltab' = [lfltab EXCEPT ![d].pos = offset, ![d].byte = LF_BLKSIZ]
    /\ lfRead' = <<>> /\ UNCHANGED <<lfDir, lfDirty, lfDisk, lfPanic>>

\* lflControl() with LF_CTL_TRUNC.
Truncate(d) == InUse(d) /\ Becomes(d, Lftruncate(LfState(d))) /\ lfRead' = <<>>

LfNext ==
    \/ \E n \in Names, mode \in {"", "o", "n"} : Open(n, mode)
    \/ \E d \in LfDevices :
         \/ Close(d) \/ Truncate(d)
         \/ \E b \in Buffers : Write(d, b)
         \/ \E n \in ReadCounts : Read(d, n)
         \/ \E offset \in 0 .. MaxSize : Seek(d, offset)

LfSpec == LfInit /\ [][LfNext]_lfVars

-----------------------------------------------------------------------------
\* A block as the file system sees it: in memory where a device has it, or on the disk.
OpenDevices == {d \in LfDevices : lfltab[d].state = "used"}

IndexBlock(n) ==
    IF \E d \in OpenDevices : lfltab[d].inum = n
    THEN lfltab[CHOOSE d \in OpenDevices : lfltab[d].inum = n].iblock ELSE lfDisk.ib[n]

DataBlock(n) ==
    IF \E d \in OpenDevices : lfltab[d].dnum = n
    THEN lfltab[CHOOSE d \in OpenDevices : lfltab[d].dnum = n].dblock ELSE lfDisk.db[n].data

\* What items has of the blocks on the list from first on, next[n] following n; a list that
\* does not end is cut.
Along(first, next, items) ==
    LET walk[k \in Nat, n \in DOMAIN next \cup {NIL}] ==
          IF n = NIL \/ k = 0 THEN <<>> ELSE items[n] \o walk[k - 1, next[n]]
    IN  walk[Cardinality(DOMAIN next) + 1, first]

Chain(first, next) == Along(first, next, [n \in DOMAIN next |-> <<n>>])

NextIB == [n \in DOMAIN lfDisk.ib |-> IndexBlock(n).next]
IndexChain(i) == Chain(lfDir.files[i].ilist, NextIB)

\* The data blocks of file i, NIL where there is none.
DataChain(i) ==
    Along(lfDir.files[i].ilist, NextIB, [n \in DOMAIN lfDisk.ib |-> IndexBlock(n).dba])

FreeIB == Chain(lfDir.ifree, [n \in DOMAIN lfDisk.ib |-> lfDisk.ib[n].next])
FreeDB == Chain(lfDir.dfree, [n \in DOMAIN lfDisk.db |-> lfDisk.db[n].next])

\* The bytes in the data blocks of index block n; a file has no hole before its end.
BytesOf(n) ==
    FlattenSeq([k \in 1 .. LF_IBLEN |->
        IF IndexBlock(n).dba[k] = NIL THEN <<>> ELSE DataBlock(IndexBlock(n).dba[k])])

FileBytes(i) ==
    SubSeq(Along(lfDir.files[i].ilist, NextIB, [n \in DOMAIN lfDisk.ib |-> BytesOf(n)]),
           1, lfDir.files[i].size)

Content == [n \in Names |->
    IF \E i \in DOMAIN lfDir.files : lfDir.files[i].name = n
    THEN FileBytes(CHOOSE i \in DOMAIN lfDir.files : lfDir.files[i].name = n) ELSE <<>>]

Abstract == INSTANCE Files WITH
    Name <- Names, Device <- LfDevices, Buffer <- Buffers,
    content <- Content, result <- lfRead,
    at <- [d \in LfDevices |-> IF lfltab[d].state = "free" THEN [file |-> "closed", pos |-> 0]
                               ELSE [file |-> lfDir.files[lfltab[d].file].name, pos |-> lfltab[d].pos]]

\* A file holds what was written to it, through any order of seeks, extensions,
\* truncations and reuse of blocks, and of flushes of what is cached for each device
\* (lfsetup.c, lftruncate.c).  Once there are no blocks left, the system has stopped.
FilesPromise == Abstract!Init /\ [][lfPanic' \/ UNCHANGED Abstract!vars \/ Abstract!Next]_lfVars

\* Every block is on its list of free blocks or in one file, once (lfiballoc.c,
\* lfdballoc.c, lftruncate.c:54-97).
BlocksOnce ==
    LET files == [i \in DOMAIN lfDir.files |-> IndexChain(i)]
        datas == [i \in DOMAIN lfDir.files |-> SelectSeq(DataChain(i), LAMBDA d : d # NIL)]
        ibs   == FreeIB \o FlattenSeq(files)
        dbs   == FreeDB \o FlattenSeq(datas)
    IN  ~lfPanic =>
        /\ IsInjective(ibs) /\ Range(ibs) = DOMAIN lfDisk.ib
        /\ IsInjective(dbs) /\ Range(dbs) = DOMAIN lfDisk.db

\* When the last file is closed, the directory on the disk has every file with bytes
\* in it, and the lists of free blocks, as they are (lflClose.c:27-31).
SavedOnClose ==
    OpenDevices = {} =>
        /\ lfDisk.dir.dfree = lfDir.dfree /\ lfDisk.dir.ifree = lfDir.ifree
        /\ \A i \in DOMAIN lfDir.files :
              lfDir.files[i].size > 0 => /\ i \in DOMAIN lfDisk.dir.files
                                         /\ lfDisk.dir.files[i] = lfDir.files[i]
==================================================================================
