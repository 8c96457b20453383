------------------------------ MODULE UartEcho ------------------------------
(***************************************************************************)
(* Two writers on one transmit FIFO (chapter 8, uart_pl011.c): a task that *)
(* prints a message with uart_write, and uart_isr, which echoes what is    *)
(* received.  Both use uart_putchar.  The interrupt can come between the   *)
(* foreground's poll of TXFF and its write to DR; nothing interrupts the   *)
(* handler.  How the interrupt reaches uart_isr is the module Interrupts.  *)
(***************************************************************************)
EXTENDS Integers, SequencesExt

CONSTANTS
    TX_DEPTH,       \* characters the transmit FIFO holds (16 in the PL011)
    MESSAGE_LEN,    \* characters of the message the task prints
    Inputs,         \* characters that can be received, CR perhaps among them
    MAX_RECEIVED,   \* bound: how many characters arrive
    CR, LF          \* carriage return and line feed

ASSUME UartEchoAssumption ==
    /\ TX_DEPTH \in Nat \ {0}
    /\ {MESSAGE_LEN, MAX_RECEIVED} \subseteq Nat
    /\ LF \notin Inputs \cup {CR}

VARIABLES
    data,       \* the foreground's data pointer: index of its next character
    room,       \* the foreground has seen TXFF clear and not yet written
    rxq,        \* the receive FIFO
    ipc,        \* the next step of uart_isr; "idle" when it is not running
    c,          \* the local variable of uart_isr
    tx,         \* characters in the transmit FIFO
    accepted,   \* history: every character the FIFO has taken, in order
    lost,       \* history: foreground characters written to a full FIFO
    read        \* history: characters uart_isr has read

vars == <<data, room, rxq, ipc, c, tx, accepted, lost, read>>

NoChar == LF

Printed(n) == [src |-> "task", char |-> n]
Echo(ch) == [src |-> "isr", char |-> ch]

Init ==
    /\ data = 1
    /\ room = FALSE
    /\ rxq = <<>>
    /\ ipc = "idle"
    /\ c = NoChar
    /\ tx = 0
    /\ accepted = <<>>
    /\ lost = 0
    /\ read = <<>>

-----------------------------------------------------------------------------
(* The foreground: uart_write of the message.                              *)

\* Mutant of ForegroundRuns: the handler lets the task in before the line feed.
ForegroundRuns_between == ipc \in {"idle", "lf"}

ForegroundRuns == ipc = "idle"

\* Mutants of Advance: the data pointer is not incremented, or twice.
Advance_missing(n) == n
Advance_twice(n) == n + 2

\* *data++
Advance(n) == n + 1

\* Mutants of Polled: TXFF is not polled; the test is inverted.
Polled_missing == TRUE
Polled_inverted == tx = TX_DEPTH

\* FR_TXFF is seen clear.
Polled == tx < TX_DEPTH

uart_putchar_poll ==
    /\ ForegroundRuns
    /\ ~room
    /\ data <= MESSAGE_LEN
    /\ Polled
    /\ room' = TRUE
    /\ UNCHANGED <<data, rxq, ipc, c, tx, accepted, lost, read>>

\* DR = c: the FIFO takes the character if it has room for it.
uart_putchar_write ==
    /\ ForegroundRuns
    /\ room
    /\ room' = FALSE
    /\ data' = Advance(data)
    /\ IF tx < TX_DEPTH
         THEN tx' = tx + 1 /\ accepted' = Append(accepted, Printed(data)) /\ UNCHANGED lost
         ELSE lost' = lost + 1 /\ UNCHANGED <<tx, accepted>>
    /\ UNCHANGED <<rxq, ipc, c, read>>

-----------------------------------------------------------------------------
(* The hardware.                                                           *)

uart_receives ==
    /\ Len(read) + Len(rxq) < MAX_RECEIVED
    /\ \E ch \in Inputs : rxq' = Append(rxq, ch)
    /\ UNCHANGED <<data, room, ipc, c, tx, accepted, lost, read>>

uart_transmits ==
    /\ tx > 0
    /\ tx' = tx - 1
    /\ UNCHANGED <<data, room, rxq, ipc, c, accepted, lost, read>>

-----------------------------------------------------------------------------
(* uart_isr.                                                               *)

\* The receive interrupt is taken, and uart_isr reads DR.
uart_isr_read ==
    /\ ipc = "idle"
    /\ rxq # <<>>
    /\ c' = Head(rxq)
    /\ rxq' = Tail(rxq)
    /\ read' = Append(read, Head(rxq))
    /\ ipc' = "echo"
    /\ UNCHANGED <<data, room, tx, accepted, lost>>

\* Mutant of CanPut: the handler writes DR without looking at TXFF.
CanPut_always == TRUE

\* The handler's uart_putchar goes on when TXFF is clear.
CanPut == tx < TX_DEPTH

\* The FIFO after a write of the handler.
Put(ch) ==
    IF tx < TX_DEPTH THEN tx' = tx + 1 /\ accepted' = Append(accepted, Echo(ch))
                     ELSE UNCHANGED <<tx, accepted>>

uart_isr_echo ==
    /\ ipc = "echo"
    /\ CanPut
    /\ Put(c)
    /\ ipc' = IF c = CR THEN "lf" ELSE "idle"
    /\ UNCHANGED <<data, room, rxq, c, lost, read>>

uart_isr_newline ==
    /\ ipc = "lf"
    /\ CanPut
    /\ Put(LF)
    /\ ipc' = "idle"
    /\ UNCHANGED <<data, room, rxq, c, lost, read>>

Foreground == uart_putchar_poll \/ uart_putchar_write
Handler == uart_isr_read \/ uart_isr_echo \/ uart_isr_newline
Next == Foreground \/ Handler \/ uart_receives \/ uart_transmits

Spec == Init /\ [][Next]_vars

\* The CPU executes and the transmitter sends.
FairSpec == Spec /\ WF_vars(Foreground) /\ WF_vars(Handler) /\ WF_vars(uart_transmits)

-----------------------------------------------------------------------------
(* Properties.                                                             *)

\* The output s with the echo of ch after it.
WithEcho(s, ch) == IF ch = CR THEN Append(Append(s, CR), LF) ELSE Append(s, ch)

\* What uart_isr has to write for the characters s that it has read.
EchoOf(s) ==
    LET echo[n \in 0 .. Len(s)] == IF n = 0 THEN <<>> ELSE WithEcho(echo[n - 1], s[n])
    IN  echo[Len(s)]

\* The output s of one of the two writers with what a adds to it.
WithOutput(s, a, src) == IF a.src = src THEN Append(s, a.char) ELSE s

\* The characters in s that one of the two writers has put there.
From(src, s) ==
    LET from[n \in 0 .. Len(s)] == IF n = 0 THEN <<>> ELSE WithOutput(from[n - 1], s[n], src)
    IN  from[Len(s)]

\* Types, and the FIFO within its depth.
TypeOK ==
    /\ data \in 1 .. MESSAGE_LEN + 1
    /\ room \in BOOLEAN
    /\ rxq \in Seq(Inputs)
    /\ ipc \in {"idle", "echo", "lf"}
    /\ c \in Inputs \cup {NoChar}
    /\ tx \in 0 .. TX_DEPTH
    /\ lost \in 0 .. MESSAGE_LEN
    /\ read \in Seq(Inputs)

\* The handler's output is what it has read, with a line feed after each
\* carriage return: nothing of it is lost, doubled or reordered, however full
\* the FIFO is and wherever the task was interrupted.
EchoExact ==
    /\ IsPrefix(From("isr", accepted), EchoOf(read))
    /\ ipc = "idle" => From("isr", accepted) = EchoOf(read)

\* The carriage return and the line feed of an echo stay together on the line:
\* no character of the task's message gets between them.
EchoTogether ==
    \A i \in 1 .. Len(accepted) : accepted[i] = Echo(CR) /\ i < Len(accepted) =>
        accepted[i + 1] = Echo(LF)

\* The message comes out in order and without repetitions.
PrintedInOrder ==
    LET p == From("task", accepted) IN \A i \in 1 .. Len(p) - 1 : p[i] < p[i + 1]

\* uart_putchar loses a character of the message only to an interrupt that came
\* between its poll and its write: at most one for each character received.
LossBound == lost <= Len(read)

\* The message is printed to its end: neither a full FIFO nor the echo holds
\* uart_write for ever.
MessageEnds == <>(data > MESSAGE_LEN /\ tx = 0)

\* What doc/06_uart.md says of uart_putchar: it waits until the transmit FIFO
\* is no longer full, so that no character is lost.
NothingLost == lost = 0

=============================================================================
