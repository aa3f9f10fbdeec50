----------------------------------- MODULE Tty -----------------------------------
(***************************************************************************)
(* The serial console (device/tty) with the UART it drives.  The upper     *)
(* half runs in the processes that read and write, the lower half in the   *)
(* interrupt handler; they share three ring buffers and two semaphores.    *)
(*                                                                         *)
(* A call starts with interrupts disabled (read.c, write.c) and keeps them *)
(* so until its first wait() that blocks: the switch enables them          *)
(* (ctxsw.S:76-83), and the rest of the call may be interrupted anywhere.  *)
(* A handler that wakes a reader may be switched away in signal() before   *)
(* it is finished; the rest of it runs with interrupts enabled too, by     *)
(* what it read from the status register at its start.                     *)
(***************************************************************************)
EXTENDS Integers, FiniteSets, SequencesExt

CONSTANTS
    IBUFLEN, OBUFLEN, EBUFLEN,  \* TY_IBUFLEN, TY_OBUFLEN, TY_EBUFLEN
    Readers, Writers,           \* processes
    Text,                       \* characters that are written
    Counts,                     \* counts of read() and write()
    Settings,                   \* [mode, echo, switching, users, keys]: uses of the console
    AnyInterrupt,               \* interrupts are taken even where Harmless does not hold, and
                                \* in the rest of a handler that was switched away
    MaxHung                     \* bound: handlers that are switched away

ASSUME TtyAssumption ==
    {IBUFLEN, OBUFLEN} \subseteq Nat \ {0} /\ Readers \cap Writers = {}

Raw == "R"
Cooked == "C"
CBreak == "K"
None == "none"
Control == {"erase", "kill", "eof", "stop", "start"}

VARIABLES
    tty,        \* struct ttycblk
    isem, osem, \* the semaphores tyisem and tyosem: [count, queue]
    uart,       \* the device: [full, data] of the transmit register, data being None when it
                \* has an echo; interrupt requests, a received key
    pc,         \* where a process is in its call
    call,       \* the rest of its call: [left, line, reg, ch]
    masked,     \* the process that runs with interrupts disabled, or None
    hung,       \* handlers switched away in signal(): [at, reset, tx, reg], see HandlerStep
    setting,    \* one of Settings; with switching, readers take the processor from
                \* what is interrupted
    got, wire   \* history: the last character read, the last one sent of those written

vars == <<tty, isem, osem, uart, pc, call, masked, hung, setting, got, wire>>

Proc == Readers \cup Writers

Wrap(i, len) == IF i >= len THEN 0 ELSE i

\* The first n processes of a semaphore's queue are released by signaln(sem, n).
Signaln(sem, n) ==
    [count |-> sem.count + n,
     queue |-> SubSeq(sem.queue, Min({n, Len(sem.queue)}) + 1, Len(sem.queue))]

Wait(sem, p) ==
    [count |-> sem.count - 1,
     queue |-> IF sem.count > 0 THEN sem.queue ELSE Append(sem.queue, p)]

\* ttyInit(), and the ttyControl() calls before anybody uses the line.
Init ==
    /\ \E s \in Settings :
         /\ tty = [ihead |-> 0, itail |-> 0, ibuff |-> [i \in 0 .. IBUFLEN - 1 |-> None],
                   ohead |-> 0, otail |-> 0, obuff |-> [i \in 0 .. OBUFLEN - 1 |-> None],
                   ehead |-> 0, etail |-> 0, imode |-> s.mode, iecho |-> s.echo,
                   icursor |-> 0, oheld |-> FALSE]
         /\ setting = s
    /\ isem = [count |-> 0, queue |-> <<>>]
    /\ osem = [count |-> OBUFLEN, queue |-> <<>>]
    /\ uart = [full |-> FALSE, data |-> None, irqTX |-> FALSE, progTX |-> FALSE, key |-> None]
    /\ pc = [p \in Proc |-> "idle"]
    /\ call = [p \in Proc |-> [left |-> 0, line |-> FALSE, reg |-> 0, ch |-> None]]
    /\ masked = None /\ hung = <<>>
    /\ got = None /\ wire = None

-----------------------------------------------------------------------------
\* The upper half.

\* A process past its wait() that has not yet moved the buffer's index.
Taking(p) == \/ pc[p] = "wait" /\ ~Contains(isem.queue \o osem.queue, p)
             \/ pc[p] = "store"

Takers == {p \in Proc : Taking(p)}

\* Characters that may be read, and that wait to be sent: a process past its wait()
\* has taken its character, or its slot, off the count already.
Readable == Max({isem.count, 0}) + Cardinality(Takers \cap Readers)
Unsent == OBUFLEN - Max({osem.count, 0}) - Cardinality(Takers \cap Writers)

\* Who may take a step: the process that runs masked, or any if none does.
MayRun(p) == masked \in {None, p}

\* read() or getc(): how many characters, and whether only up to the end of a line.
ReadCall(p) ==
    /\ pc[p] = "idle" /\ masked = None
    /\ \E n \in Counts :
         LET line == tty.imode = Cooked
             left == IF line THEN Max({n, 1}) ELSE IF n = 0 THEN isem.count ELSE n
         IN  /\ left > 0
             /\ call' = [call EXCEPT ![p].left = left, ![p].line = line]
    /\ pc' = [pc EXCEPT ![p] = "get"]
    /\ masked' = p
    /\ UNCHANGED <<tty, isem, osem, uart, hung, setting, got, wire>>

\* wait(): who blocks gives up the processor, and interrupts are enabled from then on.
Block(p, sem) == masked' = IF sem.count > 0 THEN masked ELSE None

GetcWait(p) ==
    /\ pc[p] = "get" /\ MayRun(p)
    /\ isem' = Wait(isem, p) /\ Block(p, isem)
    /\ pc' = [pc EXCEPT ![p] = "wait"]
    /\ UNCHANGED <<tty, osem, uart, call, hung, setting, got, wire>>

GetcLoad(p) ==
    /\ p \in Readers /\ pc[p] = "wait" /\ Taking(p) /\ MayRun(p)
    /\ call' = [call EXCEPT ![p].reg = tty.ihead, ![p].ch = tty.ibuff[tty.ihead]]
    /\ pc' = [pc EXCEPT ![p] = "store"]
    /\ UNCHANGED <<tty, isem, osem, uart, masked, hung, setting, got, wire>>

\* restore() at the end of a call disables nothing that a switch has enabled.
Return(p) == masked' = IF masked = p THEN None ELSE masked

\* The index moves on; read() goes on until it has its count or its line.
GetcStore(p) ==
    /\ p \in Readers /\ pc[p] = "store" /\ MayRun(p)
    /\ tty' = [tty EXCEPT !.ihead = Wrap(call[p].reg + 1, IBUFLEN)]
    /\ got' = call[p].ch
    /\ call' = [call EXCEPT ![p].left = @ - 1, ![p].ch = None, ![p].reg = 0]
    /\ IF call[p].left = 1 \/ (call[p].line /\ call[p].ch \in {"nl", "eof"})
       THEN pc' = [pc EXCEPT ![p] = "idle"] /\ Return(p)
       ELSE pc' = [pc EXCEPT ![p] = "get"] /\ UNCHANGED masked
    /\ UNCHANGED <<isem, osem, uart, hung, setting, wire>>

\* write() or putc().
WriteCall(p) ==
    /\ pc[p] = "idle" /\ masked = None
    /\ \E n \in Counts \ {0} : call' = [call EXCEPT ![p].left = n]
    /\ pc' = [pc EXCEPT ![p] = "put"]
    /\ masked' = p
    /\ UNCHANGED <<tty, isem, osem, uart, hung, setting, got, wire>>

PutcWait(p) ==
    /\ pc[p] = "put" /\ MayRun(p)
    /\ osem' = Wait(osem, p) /\ Block(p, osem)
    /\ \E c \in Text : call' = [call EXCEPT ![p].ch = c]
    /\ pc' = [pc EXCEPT ![p] = "wait"]
    /\ UNCHANGED <<tty, isem, uart, hung, setting, got, wire>>

PutcLoad(p) ==
    /\ p \in Writers /\ pc[p] = "wait" /\ Taking(p) /\ MayRun(p)
    /\ call' = [call EXCEPT ![p].reg = tty.otail]
    /\ pc' = [pc EXCEPT ![p] = "store"]
    /\ UNCHANGED <<tty, isem, osem, uart, masked, hung, setting, got, wire>>

PutcStore(p) ==
    /\ p \in Writers /\ pc[p] = "store" /\ MayRun(p)
    /\ tty' = [tty EXCEPT !.obuff[call[p].reg] = call[p].ch,
                          !.otail = Wrap(call[p].reg + 1, OBUFLEN)]
    /\ call' = [call EXCEPT ![p].ch = None, ![p].reg = 0]
    /\ pc' = [pc EXCEPT ![p] = "kick"]
    /\ UNCHANGED <<isem, osem, uart, masked, hung, setting, got, wire>>

\* ttyKickOut(): program the interrupt, and raise it if the device is idle.
KickOut(u) == [u EXCEPT !.progTX = TRUE, !.irqTX = @ \/ ~u.full]

\* Mutant of PutcKick: the device is not kicked.
PutcNoKick(p) ==
    /\ pc[p] = "kick" /\ MayRun(p)
    /\ call' = [call EXCEPT ![p].left = @ - 1]
    /\ IF call[p].left = 1 THEN pc' = [pc EXCEPT ![p] = "idle"] /\ Return(p)
       ELSE pc' = [pc EXCEPT ![p] = "put"] /\ UNCHANGED masked
    /\ UNCHANGED <<tty, isem, osem, uart, hung, setting, got, wire>>

PutcKick(p) ==
    /\ pc[p] = "kick" /\ MayRun(p)
    /\ uart' = KickOut(uart)
    /\ call' = [call EXCEPT ![p].left = @ - 1]
    /\ IF call[p].left = 1 THEN pc' = [pc EXCEPT ![p] = "idle"] /\ Return(p)
       ELSE pc' = [pc EXCEPT ![p] = "put"] /\ UNCHANGED masked
    /\ UNCHANGED <<tty, isem, osem, hung, setting, got, wire>>

-----------------------------------------------------------------------------
\* The lower half.  Each step is a function of s = [tty, uart, isem, osem].

State == [tty |-> tty, uart |-> uart, isem |-> isem, osem |-> osem]

Avail(s) == Max({s.isem.count, 0})

\* eputc() for each of n characters: the size of the echo queue is not looked at.
Echo(s, n) ==
    IF n = 0 THEN s
    ELSE [s EXCEPT !.tty.etail = (@ + n) % EBUFLEN, !.uart = KickOut(@)]

\* echoch(): a newline is echoed as two characters, a control character as ^X.
Echoed(s, ch) ==
    Echo(s, IF ~s.tty.iecho THEN 0 ELSE IF ch \in Control \cup {"nl"} THEN 2 ELSE 1)

\* A key goes into the buffer; len is the length its index is wrapped at.
Store(s, ch, len) ==
    [s EXCEPT !.tty.ibuff = [i \in DOMAIN @ \cup {s.tty.itail} |->
                               IF i = s.tty.itail THEN ch ELSE @[i]],
              !.tty.itail = IF @ + 1 >= len THEN 0 ELSE @ + 1]

RawKey(s, ch) ==
    IF Avail(s) >= IBUFLEN THEN s
    ELSE [Store(s, ch, OBUFLEN) EXCEPT !.isem = Signaln(@, 1)]

CBreakKey(s, ch) ==
    IF Avail(s) >= IBUFLEN THEN Echo(s, 1) ELSE Echoed(Store(s, ch, IBUFLEN), ch)

\* The index goes back over the line; below the buffer it is tyihead that is moved.
KillLine(s) ==
    LET back == s.tty.itail - s.tty.icursor
    IN  Echo([s EXCEPT !.tty.itail = back, !.tty.icursor = 0,
                       !.tty.ihead = IF back < 0 THEN @ + IBUFLEN ELSE @], 2)

\* Mutant of Erase1: the index is not wrapped.
Erase1Unwrapped(s) ==
    IF s.tty.icursor = 0 THEN s
    ELSE Echo([s EXCEPT !.tty.icursor = @ - 1, !.tty.itail = Max({@ - 1, 0})],
              IF s.tty.iecho THEN 3 ELSE 0)

\* erase1(): backspace, blank, backspace.
Erase1(s) ==
    IF s.tty.icursor = 0 THEN s
    ELSE Echo([s EXCEPT !.tty.icursor = @ - 1,
                        !.tty.itail = IF @ = 0 THEN IBUFLEN - 1 ELSE @ - 1],
              IF s.tty.iecho THEN 3 ELSE 0)

\* Mutant of EndLine: the line is signalled before its end is counted.
EndLineShort(s) ==
    [Store(Echoed(s, "nl"), "nl", IBUFLEN) EXCEPT !.isem = Signaln(@, s.tty.icursor)]

\* The end of a line makes it readable; tyicursor is reset after signaln().
EndLine(s) ==
    [Store(Echoed(s, "nl"), "nl", IBUFLEN) EXCEPT !.isem = Signaln(@, s.tty.icursor + 1)]

\* The end of file is stored at the start of a line only, its index not wrapped.
EndFile(s) ==
    IF s.tty.icursor # 0 THEN Echoed(s, "eof")
    ELSE [Store(Echoed(s, "eof"), "eof", IBUFLEN + 1) EXCEPT !.isem = Signaln(@, 1)]

LineKey(s, ch) ==
    IF ch = "kill" THEN KillLine(s)
    ELSE IF ch = "erase" THEN Erase1(s)
    ELSE IF ch = "nl" THEN EndLine(s)
    ELSE IF Avail(s) + s.tty.icursor >= IBUFLEN - 1 THEN Echo(s, 1)
    ELSE IF ch = "eof" THEN EndFile(s)
    ELSE [Store(Echoed(s, ch), ch, IBUFLEN) EXCEPT !.tty.icursor = @ + 1]

\* ttyInter_in(), up to the signal.
InterIn(s, ch) ==
    LET t == [s EXCEPT !.tty.oheld = FALSE]
    IN  IF s.tty.imode = Raw THEN RawKey(s, ch)
        ELSE IF ch = "start" THEN [t EXCEPT !.uart = KickOut(@)]
        ELSE IF ch = "stop" THEN [s EXCEPT !.tty.oheld = TRUE]
        ELSE IF s.tty.imode = CBreak THEN CBreakKey(t, ch)
        ELSE LineKey(t, ch)

EchoEmpty(s) == s.tty.ehead = s.tty.etail

\* There is nothing to send, or it is held.
NothingOut(s) == s.tty.oheld \/ (EchoEmpty(s) /\ s.osem.count >= OBUFLEN)

EchoOut(s) ==
    [s EXCEPT !.tty.ehead = Wrap(@ + 1, EBUFLEN), !.uart.full = TRUE, !.uart.data = None]

\* A character is written to the data register, over the one that is there (uart.vhd:227).
DataOut(s) == [s EXCEPT !.uart.full = TRUE, !.uart.data = s.tty.obuff[s.tty.ohead]]


\* ttyInter_out(): the UART takes one character (UART_FIFO_SIZE), echo first.
InterOut(s) ==
    IF NothingOut(s) THEN [s EXCEPT !.uart.progTX = FALSE]
    ELSE IF ~EchoEmpty(s) THEN EchoOut(s)
    ELSE [DataOut(s) EXCEPT !.tty.ohead = Wrap(@ + 1, OBUFLEN), !.osem = Signaln(@, 1)]

CursorReset(s, rest) == IF rest.reset THEN [s EXCEPT !.tty.icursor = 0] ELSE s

\* What is left of the handler after the signal: rest.tx is what it read from the
\* status register at its start.
Finish(s, rest) ==
    LET t == CursorReset(s, rest)
    IN  IF rest.tx THEN InterOut([t EXCEPT !.uart.irqTX = FALSE]) ELSE t

\* The same in steps, between which interrupts are taken.
HandlerStep(s, h) ==
    LET next(t, at) == [s |-> t, h |-> [h EXCEPT !.at = at]]
    IN  CASE h.at = "signal" -> next(CursorReset(s, h), IF h.tx THEN "clear" ELSE "done")
          [] h.at = "clear"  -> next([s EXCEPT !.uart.irqTX = FALSE], "out")
          [] h.at = "out"    -> IF NothingOut(s) THEN next([s EXCEPT !.uart.progTX = FALSE], "done")
                                ELSE IF ~EchoEmpty(s) THEN next(EchoOut(s), "done")
                                ELSE [s |-> DataOut(s), h |-> [h EXCEPT !.at = "store", !.reg = s.tty.ohead]]
          [] h.at = "store"  -> next([s EXCEPT !.tty.ohead = Wrap(h.reg + 1, OBUFLEN)], "count")
          [] h.at = "count"  -> next([s EXCEPT !.osem = Signaln(@, 1)], "done")

Becomes(s) ==
    /\ tty' = s.tty /\ uart' = s.uart /\ isem' = s.isem /\ osem' = s.osem
    /\ UNCHANGED <<pc, call, masked, setting, got, wire>>

\* ttyInterrupt(): a received key first, then the transmitter.
Received ==
    IF uart.key = None THEN State
    ELSE InterIn([State EXCEPT !.uart.key = None], uart.key)

Rest == [at |-> "signal", reg |-> 0, reset |-> tty.imode = Cooked /\ uart.key = "nl", tx |-> ~uart.full]

\* A process between its wait() and its use of the buffer has been counted and has
\* not moved the index (ttyGetc.c:20-21, ttyPutc.c:24-25).  That hurts a handler that finds
\* the input buffer full or the output buffer empty, and no other.
Harmless(rx, tx) ==
    /\ rx /\ Takers \cap Readers # {} => Readable + tty.icursor < IBUFLEN
    /\ tx /\ Takers \cap Writers # {} => Unsent > 0

MayInterrupt ==
    /\ masked = None
    /\ uart.irqTX \/ uart.key # None
    /\ AnyInterrupt \/ Harmless(uart.key # None, ~uart.full)

Interrupt ==
    /\ MayInterrupt
    /\ Len(Received.isem.queue) = Len(isem.queue) \/ ~setting.switching
    /\ Becomes(Finish(Received, Rest))
    /\ UNCHANGED hung

\* signal() switches to the reader it has released.
InterruptSwitched ==
    /\ MayInterrupt /\ setting.switching /\ Len(hung) < MaxHung
    /\ Len(Received.isem.queue) # Len(isem.queue)
    /\ Becomes(Received)
    /\ hung' = Append(hung, Rest)

\* It goes on; unless AnyInterrupt, to its end at once, and with the transmitter only if that
\* has become empty again in case another handler has filled it.
InterruptResumed ==
    /\ masked = None
    /\ \E i \in DOMAIN hung :
         IF AnyInterrupt
         THEN LET next == HandlerStep(State, hung[i])
              IN  /\ Becomes(next.s)
                  /\ hung' = IF next.h.at = "done" THEN RemoveAt(hung, i) ELSE ReplaceAt(hung, i, next.h)
         ELSE /\ Harmless(FALSE, hung[i].tx) /\ ~(hung[i].tx /\ uart.full)
              /\ Becomes(Finish(State, hung[i]))
              /\ hung' = RemoveAt(hung, i)

-----------------------------------------------------------------------------
\* The device (src/vhdl/uart.vhd).

\* A key arrives.  Bound: the terminal waits for its echo, because eputc() does not
\* look at the size of the echo queue; it ends no line when the buffer is full, because
\* the driver stores the end of a line without a look at the space; it sends no kill
\* or end of file where the driver would leave an index outside the buffer.
Patient(c) ==
    /\ tty.iecho => EchoEmpty(State)
    /\ c = "nl" => Readable + tty.icursor < IBUFLEN
    /\ c = "kill" => tty.itail >= tty.icursor
    /\ c = "eof" => tty.icursor # 0 \/ tty.itail < IBUFLEN - 1

KeyArrives ==
    /\ uart.key = None
    /\ \E c \in setting.keys : Patient(c) /\ uart' = [uart EXCEPT !.key = c]
    /\ UNCHANGED <<tty, isem, osem, pc, call, masked, hung, setting, got, wire>>

\* A character goes on the line.  The transmit register is free again, and raises an interrupt
\* if programmed.
Transmitted ==
    /\ uart.full
    /\ uart' = [uart EXCEPT !.full = FALSE, !.data = None, !.irqTX = @ \/ uart.progTX]
    /\ wire' = IF uart.data = None THEN wire ELSE uart.data
    /\ UNCHANGED <<tty, isem, osem, pc, call, masked, hung, setting, got>>

Upper(p) ==
    \/ GetcWait(p) \/ GetcLoad(p) \/ GetcStore(p)
    \/ PutcWait(p) \/ PutcLoad(p) \/ PutcStore(p) \/ PutcKick(p)

Handler == Interrupt \/ InterruptSwitched \/ InterruptResumed

Next ==
    \/ \E p \in Readers \cap setting.users : ReadCall(p)
    \/ \E p \in Writers \cap setting.users : WriteCall(p)
    \/ \E p \in Proc : Upper(p)
    \/ Handler \/ KeyArrives \/ Transmitted

\* The processor runs handlers and calls that can run, and the device transmits.
Fairness ==
    /\ WF_vars(Interrupt \/ InterruptSwitched) /\ WF_vars(InterruptResumed) /\ WF_vars(Transmitted)
    /\ \A p \in Proc : WF_vars(Upper(p))

Spec == Init /\ [][Next]_vars /\ Fairness

-----------------------------------------------------------------------------
\* The len characters of a ring buffer from index at on.
Ring(buff, at, len, size) == [i \in 1 .. len |-> buff[(at + i - 1) % size]]

\* tyicursor as it will be when the handlers that are switched away are done.
Cursor == IF \E i \in DOMAIN hung : hung[i].reset THEN 0 ELSE tty.icursor

Line == INSTANCE Keyboard WITH
    Char <- UNION {s.keys : s \in Settings},
    unread <- Ring(tty.ibuff, tty.ihead, Readable, IBUFLEN),
    line <- Ring(tty.ibuff, tty.ihead + Readable, Cursor, IBUFLEN)

\* Readers get the edited lines (in raw mode, the keys) in the order they were
\* typed, each once, although the buffer's indices and the semaphore that counts
\* its characters are changed by both halves of the driver.
KeyboardPromise == Line!Spec

\* What is in the transmit register, and in the buffer.
Sender == INSTANCE Printer WITH
    Char <- Text,
    queue <- (IF uart.data = None THEN <<>> ELSE <<uart.data>>)
               \o Ring(tty.obuff, tty.ohead, Unsent, OBUFLEN)


\* The indices stay inside their buffers (ttyInter_in.c:43,86,127,179), and the
\* semaphores count what lies between them.
RingsCounted ==
    /\ tty.ihead \in 0 .. IBUFLEN - 1 /\ tty.itail \in 0 .. IBUFLEN - 1
    /\ (tty.itail - tty.ihead - Readable - Cursor) % IBUFLEN = 0
    /\ (tty.otail - tty.ohead - Unsent) % OBUFLEN = 0
    /\ Readable + Cursor <= IBUFLEN /\ Unsent >= 0

\* No order of kicks, clears, interrupts and holds leaves the transmitter idle for
\* ever while characters or echoes wait for it (ttyKickOut.c, ttyInter_out.c:30-33).
OutputDrains == []<>(uart.full \/ tty.oheld \/ (Unsent = 0 /\ EchoEmpty(State)))
==================================================================================
