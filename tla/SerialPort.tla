----------------------------- MODULE SerialPort -----------------------------
(***************************************************************************)
(* The serial port, src/WaterBall/serial.c: the UART's interrupt puts bytes *)
(* in its FIFO and may report an error, at any point of the main loop; the  *)
(* main loop moves the bytes to a ring, from which the readers take them.   *)
(*                                                                          *)
(* The program itself calls serial_tasks and serial_write; the readers and  *)
(* serial_try_close are modelled for any caller in the main loop that gives *)
(* each call a cleared buffer of the ring's size, which serial_try_read_line *)
(* clears to that size.  The bytes transmitted and the code of an error are *)
(* left out.                                                                *)
(***************************************************************************)
EXTENDS Naturals, Sequences

CONSTANTS
    Byte, Newline, Nul,
    N,          \* SERIAL_RX_BUF_SIZE
    FifoSize    \* bytes the UART can hold

ASSUME SerialAssumption ==
    /\ N \in Nat \ {0, 1} /\ FifoSize \in Nat \ {0}
    /\ Newline \in Byte /\ Nul \in Byte /\ Newline # Nul

VARIABLES
    state,      \* m_serial_state
    ring,       \* m_serial_rx_buffer
    readI,      \* m_serial_rx_buffer_read_i
    writeI,     \* m_serial_rx_buffer_write_i
    main,       \* where the main loop is
    uart,       \* external: app_uart, whether it is initialised and its FIFO
    taken       \* what the call that ends in this step returns

vars == <<state, ring, readI, writeI, main, uart, taken>>
indices == <<readI, writeI>>

Index == 0 .. N - 1
\* "tasks" is the call of serial_tasks, "others" the rest of a turn of the main
\* loop; "line", "refill" and "refilled" are inside serial_try_read_line.
MainPc == {"tasks", "fetch", "others", "opening", "line", "refill", "refilled", "fault"}
NothingTaken == [line |-> FALSE, bytes |-> <<>>]

\* Types and ranges: the indices of serial.c stay inside the ring.
SerialTypeOK ==
    /\ state \in {"INIT", "CLOSED", "OPENED", "ERROR"}
    /\ ring \in [Index -> Byte] /\ readI \in Index /\ writeI \in Index
    /\ main \in MainPc
    /\ uart \in [on : BOOLEAN, fifo : Seq(Byte)] /\ Len(uart.fifo) <= FifoSize
    /\ taken \in [line : BOOLEAN, bytes : Seq(Byte)]

\* After a reset and serial_init.
Init ==
    /\ state = "INIT"
    /\ ring = [i \in Index |-> Nul] /\ readI = 0 /\ writeI = 0
    /\ main = "others"
    /\ uart = [on |-> FALSE, fifo |-> <<>>]
    /\ taken = NothingTaken

-----------------------------------------------------------------------------
(***************************************************************************)
(* The ring: the macros of serial.h and serial_copy_rx_buffer.             *)
(***************************************************************************)
AdvancedUnwrapped(i, count) == i + count \* a mutant: the index does not roll over
Advanced(i, count) == (i + count) % N
Filled == (writeI + N - readI) % N

FullAtSize == Filled = N \* a mutant: the slot that is kept free is used
Full == Filled = N - 1

Least(a, b) == IF a < b THEN a ELSE b

\* The section before the rollover, then the one after it.
Copied(size) ==
    LET before == Least(size, N - readI)
    IN  [i \in 1 .. before |-> ring[readI + i - 1]] \o
        [i \in 1 .. size - before |-> ring[i - 1]]

-----------------------------------------------------------------------------
(***************************************************************************)
(* The main loop.                                                          *)
(***************************************************************************)
At(pc) == main = pc
Goto(pc) == main' = pc
Quiet == taken' = NothingTaken

TasksLeavesFifo == \* a mutant: the bytes are left to the interrupt
    /\ At("tasks") /\ Quiet
    /\ IF state = "ERROR" THEN Goto("fault") ELSE Goto("others")
    /\ state' = IF state = "INIT" THEN "CLOSED" ELSE state
    /\ UNCHANGED <<ring, indices, uart>>

\* serial_tasks: the error handler resets the device.
Tasks ==
    /\ At("tasks") /\ Quiet
    /\ Goto(CASE state = "OPENED" -> "fetch" [] state = "ERROR" -> "fault"
              [] OTHER -> "others")
    /\ state' = IF state = "INIT" THEN "CLOSED" ELSE state
    /\ UNCHANGED <<ring, indices, uart>>

\* One turn of the loop in serial_fifo_to_rx_buffer.
GetByte ==
    /\ ~Full /\ uart.fifo # <<>>
    /\ ring' = [ring EXCEPT ![writeI] = Head(uart.fifo)]
    /\ uart' = [uart EXCEPT !.fifo = Tail(@)]
    /\ writeI' = Advanced(writeI, 1)
    /\ Quiet /\ UNCHANGED <<state, readI>>
GetNone ==
    /\ Full \/ uart.fifo = <<>>
    /\ Quiet /\ UNCHANGED <<state, ring, indices, uart>>

Fetch ==
    \/ At("fetch") /\ GetByte /\ Goto("fetch")
    \/ At("fetch") /\ GetNone /\ Goto("others")

NextTurn == At("others") /\ Goto("tasks") /\ Quiet /\ UNCHANGED <<state, ring, indices, uart>>

\* serial_write opens the port unless it is open: app_uart_init empties the FIFO, and
\* what the interrupt reports until the state is assigned is overwritten.
OpenStart ==
    /\ At("others") /\ state # "OPENED" /\ Goto("opening")
    /\ uart' = [on |-> TRUE, fifo |-> <<>>]
    /\ Quiet /\ UNCHANGED <<state, ring, indices>>
OpenEnd ==
    /\ At("opening") /\ Goto("others")
    /\ state' = "OPENED"
    /\ Quiet /\ UNCHANGED <<ring, indices, uart>>

Close ==
    /\ At("others") /\ state # "CLOSED"
    /\ state' = "CLOSED"
    /\ Quiet /\ UNCHANGED <<ring, indices, main, uart>>

ReadExisting(size) ==
    /\ At("others")
    /\ LET count == Least(Filled, size)
       IN  /\ taken' = [line |-> FALSE, bytes |-> Copied(count)]
           /\ readI' = Advanced(readI, count)
    /\ UNCHANGED <<state, ring, writeI, main, uart>>

-----------------------------------------------------------------------------
(***************************************************************************)
(* serial_try_read_line.                                                   *)
(***************************************************************************)
\* Where strpbrk finds a newline: a NUL ends the search.
LineEnds(s) ==
    {k \in DOMAIN s : s[k] = Newline /\ \A i \in 1 .. k - 1 : s[i] \notin {Newline, Nul}}

LineStart ==
    At("others") /\ Goto("line") /\ Quiet /\ UNCHANGED <<state, ring, indices, uart>>

LineFound ==
    /\ At("line") /\ Goto("others")
    /\ \E k \in LineEnds(Copied(Filled)) :
           /\ taken' = [line |-> TRUE, bytes |-> Copied(k)]
           /\ readI' = Advanced(readI, k)
    /\ UNCHANGED <<state, ring, writeI, uart>>

LineNone ==
    /\ At("line") /\ LineEnds(Copied(Filled)) = {} /\ ~Full
    /\ Goto("others") /\ Quiet /\ UNCHANGED <<state, ring, indices, uart>>

\* The oldest byte is removed to make room for another.
LineFull ==
    /\ At("line") /\ LineEnds(Copied(Filled)) = {} /\ Full
    /\ Goto("refill")
    /\ readI' = Advanced(readI, 1)
    /\ Quiet /\ UNCHANGED <<state, ring, writeI, uart>>

\* The buffer is scanned again if any byte was new.
Refill ==
    \/ (At("refill") \/ At("refilled")) /\ GetByte /\ Goto("refilled")
    \/ At("refill") /\ GetNone /\ Goto("others")
    \/ At("refilled") /\ GetNone /\ Goto("line")

-----------------------------------------------------------------------------
(***************************************************************************)
(* The interrupt, and the reset that the error handler ends in.            *)
(***************************************************************************)
\* External: flow control holds the peer while the FIFO is full.
ByteArrives(b) ==
    /\ ~At("fault") /\ uart.on /\ Len(uart.fifo) < FifoSize
    /\ uart' = [uart EXCEPT !.fifo = Append(@, b)]
    /\ Quiet /\ UNCHANGED <<state, ring, indices, main>>

\* serial_evt_handler, an error of the FIFO other than a full one.
FifoError ==
    /\ ~At("fault") /\ uart.on
    /\ state' = "ERROR"
    /\ Quiet /\ UNCHANGED <<ring, indices, main, uart>>

Restart ==
    /\ At("fault")
    /\ state' = "INIT" /\ ring' = [i \in Index |-> Nul] /\ readI' = 0 /\ writeI' = 0
    /\ Goto("others") /\ uart' = [on |-> FALSE, fifo |-> <<>>]
    /\ Quiet

MainStep ==
    \/ Tasks \/ Fetch \/ NextTurn \/ OpenStart \/ OpenEnd \/ Close
    \/ \E size \in 1 .. N : ReadExisting(size)
    \/ LineStart \/ LineFound \/ LineNone \/ LineFull \/ Refill

Next == MainStep \/ (\E b \in Byte : ByteArrives(b)) \/ FifoError \/ Restart

Spec == Init /\ [][Next]_vars

\* The main loop runs, and each of its turns ends: it makes finitely many calls.
FairSpec == Spec /\ WF_vars(MainStep) /\ SF_vars(NextTurn)
-----------------------------------------------------------------------------
(***************************************************************************)
(* Properties.                                                             *)
(***************************************************************************)
InRing == [i \in 1 .. Filled |-> ring[(readI + i - 1) % N]]

Queue == INSTANCE ByteQueue WITH
    Keep <- N - 1, Capacity <- N - 1 + FifoSize, queue <- InRing \o uart.fifo

\* Through the FIFO, the ring that rolls over, both readers and their interruptions
\* the bytes are returned in order and once, and lines are lines.
ImplementsQueue == Queue!Spec

\* Bytes that waited in the FIFO because the ring was full are moved when a reader
\* has made room, though no interrupt will come for them (the comment in serial_tasks).
NothingIsStuck == ~<>[](state = "OPENED" /\ uart.fifo # <<>> /\ ~Full)
=============================================================================
