----------------------------- MODULE UartConfig -----------------------------
(***************************************************************************)
(* uart_configure of uart_pl011.c, statement by statement, against a PL011 *)
(* that goes on transmitting.  The application may call it again while     *)
(* characters it has written are still on their way.                       *)
(***************************************************************************)
EXTENDS Integers

CONSTANTS
    DataBits, StopBits, Baudrates,      \* the values tried in a uart_config
    TX_DEPTH,                           \* characters the transmit FIFO holds
    NONE                                \* nothing configured yet

ASSUME UartConfigAssumption ==
    /\ DataBits \cup StopBits \subseteq 0 .. 255
    /\ Baudrates \subseteq Nat \ {0}
    /\ TX_DEPTH \in Nat \ {0}

VARIABLES
    pc,             \* the next statement of uart_configure; "idle" outside it
    config,         \* its argument
    result,         \* what the last call returned
    UARTEN,         \* CR_UARTEN
    LCRH,           \* the line control register, as a record of its fields
    IBRD, FBRD,     \* the divisor registers
    divisor,        \* the divisor in use, in 64ths; taken over when LCRH is written
    fifo,           \* characters in the transmit FIFO
    shifting,       \* a character is on the line
    accepted        \* history: the argument of the last successful call

registers == <<UARTEN, LCRH, IBRD, FBRD, divisor>>
vars == <<pc, config, result, registers, fifo, shifting, accepted>>

uart_config ==
    [data_bits : DataBits, stop_bits : StopBits, parity : BOOLEAN, baudrate : Baudrates]

\* U-Boot's driver: pl01x_generic_setbrg with a clock of 24 MHz, and
\* pl011_set_line_control.
CONFIG_BAUDRATE == 38400
divider == 24000000 \div (16 * CONFIG_BAUDRATE)
fraction ==
    LET temp == (8 * (24000000 % (16 * CONFIG_BAUDRATE))) \div CONFIG_BAUDRATE
    IN  (temp \div 2) + (temp % 2)

\* The UART as U-Boot leaves it.  pl01x_putc waits for room and for no more, so the
\* end of the last message may still be on its way.
Init ==
    /\ pc = "idle"
    /\ config = NONE
    /\ result = NONE
    /\ UARTEN = TRUE
    /\ LCRH = [WLEN |-> 8, PEN |-> FALSE, EPS |-> FALSE, SPS |-> FALSE, STP2 |-> FALSE, FEN |-> TRUE]
    /\ IBRD = divider
    /\ FBRD = fraction
    /\ divisor = 64 * IBRD + FBRD
    /\ fifo \in 0 .. TX_DEPTH
    /\ shifting \in BOOLEAN
    /\ accepted = NONE

-----------------------------------------------------------------------------
(* The PL011 (external).                                                   *)

\* BUSY is set while a character is on the line or in the FIFO, enabled or not.
BUSY == shifting \/ fifo > 0

\* A write to LCRH takes over the divisor, of which FBRD holds six bits, and
\* clearing FEN empties the FIFO.
WriteLCRH(lcrh) ==
    /\ LCRH' = lcrh
    /\ divisor' = 64 * IBRD + (FBRD % 64)
    /\ fifo' = IF lcrh.FEN THEN fifo ELSE 0

\* The next character goes out only while the UART is enabled.
transmit_begin ==
    /\ UARTEN
    /\ fifo > 0
    /\ ~shifting
    /\ fifo' = fifo - 1
    /\ shifting' = TRUE
    /\ UNCHANGED <<pc, config, result, registers, accepted>>

\* A character on the line is finished in any case.
transmit_end ==
    /\ shifting
    /\ shifting' = FALSE
    /\ UNCHANGED <<pc, config, result, registers, fifo, accepted>>

-----------------------------------------------------------------------------
(* uart_configure.                                                         *)

Validated(c) ==
    IF c.data_bits \notin 5 .. 8 THEN "UART_INVALID_ARGUMENT_WORDSIZE"
    ELSE IF c.stop_bits \notin 1 .. 2 THEN "UART_INVALID_ARGUMENT_STOP_BITS"
    ELSE IF c.baudrate \notin 110 .. 460800 THEN "UART_INVALID_ARGUMENT_BAUDRATE"
    ELSE "UART_OK"

validate ==
    /\ pc = "idle"
    /\ \E c \in uart_config :
        /\ result' = Validated(c)
        /\ IF result' = "UART_OK"
             THEN pc' = "disable" /\ config' = c
             ELSE UNCHANGED <<pc, config>>
    /\ UNCHANGED <<registers, fifo, shifting, accepted>>

disable ==
    /\ pc = "disable"
    /\ UARTEN' = FALSE
    /\ pc' = "busy"
    /\ UNCHANGED <<config, result, LCRH, IBRD, FBRD, divisor, fifo, shifting, accepted>>

\* Mutants of StillBusy: the test is inverted; it is left out.
StillBusy_inverted == ~BUSY
StillBusy_never == FALSE

\* The condition of the polling loop.
StillBusy == BUSY

wait_busy ==
    /\ pc = "busy"
    /\ ~StillBusy
    /\ pc' = "flush"
    /\ UNCHANGED <<config, result, registers, fifo, shifting, accepted>>

flush ==
    /\ pc = "flush"
    /\ WriteLCRH([LCRH EXCEPT !.FEN = FALSE])
    /\ pc' = "divisor"
    /\ UNCHANGED <<config, result, UARTEN, IBRD, FBRD, shifting, accepted>>

\* Mutant of Fraction: the half that rounds is left out.
Fraction_truncated(baud) == (64 * (1500000 % baud)) \div baud

\* The integer and the rounded fractional part, in 64ths, of the divisor
\* refclock / (16 * baudrate).
Integer(baud) == 1500000 \div baud
Fraction(baud) == (128 * (1500000 % baud) + baud) \div (2 * baud)

set_divisor ==
    /\ pc = "divisor"
    /\ IBRD' = Integer(config.baudrate)
    /\ FBRD' = Fraction(config.baudrate)
    /\ pc' = "line"
    /\ UNCHANGED <<config, result, UARTEN, LCRH, divisor, fifo, shifting, accepted>>

\* Mutant of LineControl: the old contents of LCRH are kept as the starting point.
LineControl_kept(c) ==
    [WLEN |-> c.data_bits, PEN |-> c.parity \/ LCRH.PEN, EPS |-> c.parity, SPS |-> c.parity,
     STP2 |-> c.stop_bits = 2 \/ LCRH.STP2, FEN |-> TRUE]

\* The local variable lcrh.
LineControl(c) ==
    [WLEN |-> c.data_bits, PEN |-> c.parity, EPS |-> c.parity, SPS |-> c.parity,
     STP2 |-> c.stop_bits = 2, FEN |-> TRUE]

set_line ==
    /\ pc = "line"
    /\ WriteLCRH(LineControl(config))
    /\ pc' = "enable"
    /\ UNCHANGED <<config, result, UARTEN, IBRD, FBRD, shifting, accepted>>

\* Interrupts has the receive interrupt's mask and the registration.
enable ==
    /\ pc = "enable"
    /\ UARTEN' = TRUE
    /\ accepted' = config
    /\ config' = NONE
    /\ pc' = "idle"
    /\ UNCHANGED <<result, LCRH, IBRD, FBRD, divisor, fifo, shifting>>

uart_configure == disable \/ wait_busy \/ flush \/ set_divisor \/ set_line \/ enable

\* The application writes a character.
uart_putchar ==
    /\ pc = "idle"
    /\ accepted # NONE
    /\ fifo < TX_DEPTH
    /\ fifo' = fifo + 1
    /\ UNCHANGED <<pc, config, result, registers, shifting, accepted>>

Next == validate \/ uart_configure \/ uart_putchar \/ transmit_begin \/ transmit_end

\* The processor executes and the transmitter sends.
Spec ==
    /\ Init
    /\ [][Next]_vars
    /\ WF_vars(uart_configure)
    /\ WF_vars(transmit_begin)
    /\ WF_vars(transmit_end)

-----------------------------------------------------------------------------
(* Properties.                                                             *)

\* Outside uart_configure the UART runs with the frame of the last call that was
\* accepted: a call that is rejected leaves it running, and nothing of an earlier
\* configuration remains.
FrameAsConfigured ==
    pc = "idle" /\ accepted # NONE =>
        /\ UARTEN
        /\ LCRH.FEN
        /\ LCRH.WLEN = accepted.data_bits
        /\ LCRH.STP2 <=> accepted.stop_bits = 2
        /\ LCRH.PEN <=> accepted.parity

\* Of the divisors that can be expressed in 64ths, d is one nearest to
\* refclock / (16 * baud).
Nearest(d, baud) == 2 * (baud * d - 64 * 1500000) \in -baud .. baud

\* The divisor in use is the one nearest to what the last accepted call asked for,
\* less one where the fraction rounds up to a whole: FBRD has no bit for it.  The
\* registers written only count once LCRH is written.
DivisorInUse ==
    pc = "idle" /\ accepted # NONE =>
        Nearest(IF Fraction(accepted.baudrate) = 64 THEN divisor + 64 ELSE divisor,
                accepted.baudrate)

\* uart_configure changes frame or divisor only while no character is on the line,
\* so none is sent half with the old and half with the new settings.
NoTornCharacter ==
    [][<<LCRH, divisor>>' # <<LCRH, divisor>> => ~UARTEN /\ ~shifting]_vars

\* Once the FIFO is empty uart_configure comes to its end: a character on the line
\* delays it, and does not block it.
ReturnsWhenDrained == (pc = "busy" /\ fifo = 0) ~> pc = "idle"

=============================================================================
