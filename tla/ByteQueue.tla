----------------------------- MODULE ByteQueue ------------------------------
(***************************************************************************)
(* What serial.h promises of the bytes a peer sends: they are returned in   *)
(* the order they came, each once.  Bytes are given up in two cases only,   *)
(* which serial.c names: the oldest one when a reader waits for a line in a *)
(* full buffer, and what the UART holds when it is opened again.            *)
(***************************************************************************)
EXTENDS Naturals, Sequences

CONSTANTS
    Byte, Newline, Nul,
    Keep,       \* bytes the receive buffer can hold
    Capacity    \* those and the bytes the UART can hold

VARIABLES
    queue,      \* the bytes received and not yet returned
    taken       \* what the call that ends in this step returns

NothingTaken == [line |-> FALSE, bytes |-> <<>>]

\* A string of the library of C ends at a NUL.
IsLine(s) ==
    /\ s # <<>> /\ s[Len(s)] = Newline
    /\ \A i \in 1 .. Len(s) - 1 : s[i] \notin {Newline, Nul}
HasLine(s) == \E k \in 1 .. Len(s) : IsLine(SubSeq(s, 1, k))

Init == queue = <<>> /\ taken = NothingTaken

Arrives(b) ==
    /\ Len(queue) < Capacity
    /\ queue' = Append(queue, b) /\ taken' = NothingTaken

\* Returns the oldest k bytes.
Take(k, line) ==
    /\ taken' = [line |-> line, bytes |-> SubSeq(queue, 1, k)]
    /\ queue' = SubSeq(queue, k + 1, Len(queue))

TakeSome(k) == k <= Len(queue) /\ k <= Keep /\ Take(k, FALSE)
TakeLine(k) ==
    k <= Len(queue) /\ k <= Keep /\ IsLine(SubSeq(queue, 1, k)) /\ Take(k, TRUE)

DropOldest ==
    /\ Len(queue) >= Keep /\ ~HasLine(SubSeq(queue, 1, Keep))
    /\ queue' = Tail(queue) /\ taken' = NothingTaken

\* Opening the UART drops what only it has; a reset drops all.
DropNewest(k) ==
    /\ k <= Len(queue) /\ k <= Keep
    /\ queue' = SubSeq(queue, 1, k) /\ taken' = NothingTaken

Idle == taken' = NothingTaken /\ UNCHANGED queue

Next ==
    \/ \E b \in Byte : Arrives(b)
    \/ \E k \in 0 .. Keep : TakeSome(k) \/ TakeLine(k) \/ DropNewest(k)
    \/ DropOldest \/ Idle

Spec == Init /\ [][Next]_<<queue, taken>>
=============================================================================
