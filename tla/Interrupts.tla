----------------------------- MODULE Interrupts -----------------------------
(***************************************************************************)
(* The interrupt path of chapter 8, from main's initialisation on: gic.c,  *)
(* irq.c, ptimer.c, systime.c and the interrupt side of uart_pl011.c,      *)
(* together with the hardware they drive.                                  *)
(*                                                                         *)
(* The CPU has one foreground thread (main, then the tasks) and the IRQ    *)
(* handler, which the foreground cannot interrupt and which does not nest: *)
(* the I bit of the CPSR is set on entry and nothing clears it.  The       *)
(* private timer, the UART's receiver and its transmitter run beside the   *)
(* CPU.  Characters are counted here, not told apart, except that a        *)
(* carriage return costs the handler two characters of output.             *)
(***************************************************************************)
EXTENDS Integers, Sequences

CONSTANTS
    SYSTIME_MOD,    \* systime_t counts modulo this (2^32 in the code)
    TX_DEPTH,       \* characters the transmit FIFO holds (16 in the PL011)
    RX_DEPTH,       \* characters the receive FIFO holds (16 in the PL011)
    RX_TRIGGER,     \* characters in it that raise the receive interrupt
    BREAK_MESSAGE,  \* characters in "Break error detected!\n"
    MAX_EXPIRED,    \* bound: how often the timer expires
    MAX_RECEIVED,   \* bound: how many characters arrive
    NULL            \* no callback

ASSUME InterruptsAssumption ==
    /\ {SYSTIME_MOD, TX_DEPTH, RX_DEPTH, RX_TRIGGER, BREAK_MESSAGE} \subseteq Nat \ {0}
    /\ {MAX_EXPIRED, MAX_RECEIVED} \subseteq Nat
    /\ NULL \notin {"uart_isr", "ptimer_isr"}

PTIMER_INTERRUPT == 29
UART0_INTERRUPT == 37
Ids == {PTIMER_INTERRUPT, UART0_INTERRUPT}
Spurious == 1023

VARIABLES
    boot,           \* index into BootOrder of main's next step
    irqs_on,        \* the I bit of the foreground's CPSR is clear
    room,           \* the foreground is in uart_putchar and has seen TXFF clear
    hpc,            \* the next step of irq_handler; "none" when it is not running
    irq,            \* the local variable of irq_handler
    todo,           \* characters uart_isr has still to write
    callbacks,      \* irq.c: id -> the registered handler
    gic_on,         \* distributor and CPU interface are enabled
    enabled,        \* ids set in DISENABLER
    active,         \* ids acknowledged and not ended
    timer_on,       \* CTRL of the private timer has been written
    flag,           \* the private timer's event flag (its ISR register)
    systime,        \* systime.c
    rx,             \* characters in the receive FIFO
    be,             \* the raw status of the break interrupt
    IMSC,           \* the interrupts the UART does not mask
    tx,             \* characters in the transmit FIFO
    expired,        \* history: how often the timer has expired
    merged,         \* history: expiries that found the flag still set
    received        \* history: characters that have arrived

foreground == <<boot, irqs_on, room>>
handler == <<hpc, irq, todo>>
gic == <<callbacks, gic_on, enabled, active>>
timer == <<timer_on, flag, systime, expired, merged>>
uart == <<rx, be, IMSC, tx, received>>
vars == <<foreground, handler, gic, timer, uart>>

\* The state in which Reset_Handler calls main: interrupts are masked.  U-Boot's last
\* characters have been sent; UartConfig has uart_configure while they have not.
Init ==
    /\ boot = 1 /\ irqs_on = FALSE /\ room = FALSE
    /\ hpc = "none" /\ irq = 0 /\ todo = 0
    /\ callbacks = [id \in Ids |-> NULL]
    /\ gic_on = FALSE /\ enabled = {} /\ active = {}
    /\ timer_on = FALSE /\ flag = FALSE /\ systime = 0
    /\ rx = 0 /\ be = FALSE /\ IMSC = {} /\ tx = 0
    /\ expired = 0 /\ merged = 0 /\ received = 0

-----------------------------------------------------------------------------
(* main, one step per call, with ptimer_init in its two writes.            *)

\* Mutant of BootOrder: the timer is started before its handler is registered.
BootOrder_timer_first ==
    <<"uart_configure", "welcome", "gic_init", "enable_uart", "enable_timer",
      "cpsie", "ptimer_start", "ptimer_register", "tasks">>

\* The message for a failing ptimer_init is left out: 1 ms is accepted.
BootOrder ==
    <<"uart_configure", "welcome", "gic_init", "enable_uart", "enable_timer",
      "cpsie", "ptimer_register", "ptimer_start", "tasks">>

\* The foreground runs the named step only when no handler is running.
Foreground(step) == hpc = "none" /\ BootOrder[boot] = step

\* main goes on to its next step.
main(step) == Foreground(step) /\ boot' = boot + 1 /\ UNCHANGED <<room, handler>>

\* A slot is taken once: a second registration is refused.
irq_register_isr(id, isr) ==
    callbacks' = IF callbacks[id] = NULL THEN [callbacks EXCEPT ![id] = isr] ELSE callbacks

\* The UART is quiet, its FIFOs are flushed, the receive interrupt is unmasked and
\* no other.
uart_configure ==
    /\ main("uart_configure")
    /\ tx = 0
    /\ rx' = 0
    /\ IMSC' = IMSC \cup {"RX"}
    /\ irq_register_isr(UART0_INTERRUPT, "uart_isr")
    /\ UNCHANGED <<irqs_on, gic_on, enabled, active, timer, be, tx, received>>

\* uart_write has printed the welcome message.
welcome_done ==
    /\ main("welcome")
    /\ ~room
    /\ UNCHANGED <<irqs_on, gic, timer, uart>>

gic_init ==
    /\ main("gic_init")
    /\ gic_on' = TRUE
    /\ UNCHANGED <<irqs_on, callbacks, enabled, active, timer, uart>>

gic_enable_interrupt(id) ==
    /\ main(IF id = UART0_INTERRUPT THEN "enable_uart" ELSE "enable_timer")
    /\ enabled' = enabled \cup {id}
    /\ UNCHANGED <<irqs_on, callbacks, gic_on, active, timer, uart>>

\* Mutant of Unmasked: only the F bit is cleared.
Unmasked_fiq == FALSE

\* The I bit is clear after cpsie if.
Unmasked == TRUE

cpu_enable_interrupts ==
    /\ main("cpsie")
    /\ irqs_on' = Unmasked
    /\ UNCHANGED <<gic, timer, uart>>

\* The period is valid and its load value written; DriverArithmetic has both.
ptimer_init_register ==
    /\ main("ptimer_register")
    /\ irq_register_isr(PTIMER_INTERRUPT, "ptimer_isr")
    /\ UNCHANGED <<irqs_on, gic_on, enabled, active, timer, uart>>

ptimer_init_start ==
    /\ main("ptimer_start")
    /\ timer_on' = TRUE
    /\ UNCHANGED <<irqs_on, gic, flag, systime, expired, merged, uart>>

Boot ==
    \/ uart_configure
    \/ welcome_done
    \/ gic_init
    \/ \E id \in Ids : gic_enable_interrupt(id)
    \/ cpu_enable_interrupts
    \/ ptimer_init_register
    \/ ptimer_init_start

-----------------------------------------------------------------------------
(* uart_putchar in the foreground: the poll of TXFF and the write to DR     *)
(* are two accesses, and an interrupt can come between them.               *)

uart_putchar_poll ==
    /\ Foreground("welcome") \/ Foreground("tasks")
    /\ ~room
    /\ tx < TX_DEPTH
    /\ room' = TRUE
    /\ UNCHANGED <<boot, irqs_on, handler, gic, timer, uart>>

\* A write to a full FIFO is lost.
uart_putchar_write ==
    /\ hpc = "none"
    /\ room
    /\ room' = FALSE
    /\ tx' = IF tx < TX_DEPTH THEN tx + 1 ELSE tx
    /\ UNCHANGED <<boot, irqs_on, handler, gic, timer, rx, be, IMSC, received>>

-----------------------------------------------------------------------------
(* The hardware.                                                           *)

\* The masked interrupt status of the UART.
MIS == IMSC \cap ((IF rx >= RX_TRIGGER THEN {"RX"} ELSE {}) \cup (IF be THEN {"BE"} ELSE {}))

\* The interrupt lines are levels: the source holds its line until the cause
\* is removed.
Line(id) == IF id = PTIMER_INTERRUPT THEN flag ELSE MIS # {}

\* The ids the GIC has pending for the CPU.
Pending == {id \in enabled \ active : gic_on /\ Line(id)}

\* The timer reloads itself and goes on counting whether or not it is served.
timer_expires ==
    /\ timer_on
    /\ expired < MAX_EXPIRED
    /\ flag' = TRUE
    /\ expired' = expired + 1
    /\ merged' = IF flag THEN merged + 1 ELSE merged
    /\ UNCHANGED <<foreground, handler, gic, timer_on, systime, uart>>

\* A character arrives; when the FIFO is full it is overrun and lost.  A break
\* arrives as a character and sets the status of its own.
uart_receives ==
    /\ IMSC # {}
    /\ received < MAX_RECEIVED
    /\ received' = received + 1
    /\ rx' = IF rx < RX_DEPTH THEN rx + 1 ELSE rx
    /\ be' \in {be, TRUE}
    /\ UNCHANGED <<foreground, handler, gic, timer, IMSC, tx>>

uart_transmits ==
    /\ tx > 0
    /\ tx' = tx - 1
    /\ UNCHANGED <<foreground, handler, gic, timer, rx, be, IMSC, received>>

-----------------------------------------------------------------------------
(* irq_handler and the two service routines.                               *)

irq_entry ==
    /\ hpc = "none"
    /\ irqs_on
    /\ Pending # {}
    /\ hpc' = "ack"
    /\ UNCHANGED <<foreground, irq, todo, gic, timer, uart>>

\* All priorities are equal, so which pending id is acknowledged is open.  With none
\* pending any more the id read is the spurious one.
gic_acknowledge_interrupt ==
    /\ hpc = "ack"
    /\ \E id \in IF Pending = {} THEN {Spurious} ELSE Pending :
        /\ irq' = id
        /\ active' = active \cup (Ids \cap {id})
    /\ hpc' = "dispatch"
    /\ UNCHANGED <<foreground, todo, callbacks, gic_on, enabled, timer, uart>>

\* Every id is at most MAX_ISR; the slots of the others are never written.
callback(number) == IF number \in Ids THEN callbacks[number] ELSE NULL

irq_dispatch ==
    /\ hpc = "dispatch"
    /\ hpc' = IF callback(irq) # NULL THEN callback(irq) ELSE "end"
    /\ UNCHANGED <<foreground, irq, todo, gic, timer, uart>>

\* Mutant of Cleared: the event flag is left set.
Cleared_not == flag

\* The event flag after ISR_CLEAR is written.
Cleared == FALSE

ptimer_isr_clear ==
    /\ hpc = "ptimer_isr"
    /\ flag' = Cleared
    /\ hpc' = "tick"
    /\ UNCHANGED <<foreground, irq, todo, gic, timer_on, systime, expired, merged, uart>>

systime_tick ==
    /\ hpc = "tick"
    /\ systime' = (systime + 1) % SYSTIME_MOD
    /\ hpc' = "end"
    /\ UNCHANGED <<foreground, irq, todo, gic, timer_on, flag, expired, merged, uart>>

\* Mutant of AfterRead: the character is not taken out of the FIFO.
AfterRead_peek == rx

\* Reading DR takes a character out of the FIFO.
AfterRead == IF rx > 0 THEN rx - 1 ELSE 0

\* A received character is read and echoed, with a line feed after a carriage
\* return; otherwise a break is reported.
uart_isr ==
    /\ hpc = "uart_isr"
    /\ IF "RX" \in MIS THEN rx' = AfterRead /\ todo' \in {1, 2} /\ hpc' = "write"
       ELSE IF "BE" \in MIS THEN rx' = rx /\ todo' = BREAK_MESSAGE /\ hpc' = "break"
       ELSE rx' = rx /\ todo' = todo /\ hpc' = "end"
    /\ UNCHANGED <<foreground, irq, gic, timer, be, IMSC, tx, received>>

\* Mutant of Room: TXFF is not polled.
Room_assumed == TRUE

\* FR_TXFF is clear.
Room == tx < TX_DEPTH

\* uart_putchar in the handler: no other writer runs, so the poll that sees
\* room and the write are one step.  The handler waits while TXFF is set.  After
\* the report of a break its status is cleared.
uart_isr_putchar ==
    /\ hpc \in {"write", "break"}
    /\ Room
    /\ tx' = tx + 1
    /\ todo' = todo - 1
    /\ hpc' = IF todo = 1 THEN "end" ELSE hpc
    /\ be' = (be /\ ~(todo = 1 /\ hpc = "break"))
    /\ UNCHANGED <<foreground, irq, gic, timer, rx, IMSC, received>>

\* Mutant of Ended: the end of interrupt is not written.
Ended_not == active

\* What the GIC has active after CEOIR is written.
Ended == active \ {irq}

\* The end of interrupt, and the return to the foreground.
gic_end_interrupt ==
    /\ hpc = "end"
    /\ active' = Ended
    /\ hpc' = "none"
    /\ irq' = 0
    /\ UNCHANGED <<foreground, todo, callbacks, gic_on, enabled, timer, uart>>

Handler ==
    \/ irq_entry
    \/ gic_acknowledge_interrupt
    \/ irq_dispatch
    \/ ptimer_isr_clear
    \/ systime_tick
    \/ uart_isr
    \/ uart_isr_putchar
    \/ gic_end_interrupt

Cpu == Boot \/ Handler \/ uart_putchar_poll \/ uart_putchar_write

Next == Cpu \/ timer_expires \/ uart_receives \/ uart_transmits

Spec == Init /\ [][Next]_vars

\* The CPU executes, the welcome message is finite, and the transmitter sends.
\* Nothing is assumed of the timer, of the receiver, or of the tasks' printing.
Fairness ==
    /\ WF_vars(Handler)
    /\ WF_vars(Boot)
    /\ SF_vars(welcome_done)
    /\ WF_vars(uart_putchar_write)
    /\ WF_vars(uart_transmits)

FairSpec == Spec /\ Fairness

-----------------------------------------------------------------------------
(* Properties.                                                             *)

\* Types, and the FIFOs within their depth.
TypeOK ==
    /\ boot \in 1 .. Len(BootOrder)
    /\ irqs_on \in BOOLEAN /\ gic_on \in BOOLEAN /\ timer_on \in BOOLEAN
    /\ flag \in BOOLEAN /\ be \in BOOLEAN /\ room \in BOOLEAN
    /\ callbacks \in [Ids -> {NULL, "uart_isr", "ptimer_isr"}]
    /\ enabled \subseteq Ids
    /\ active \subseteq Ids
    /\ hpc \in {"none", "ack", "dispatch", "ptimer_isr", "tick", "uart_isr", "write", "break", "end"}
    /\ irq \in Ids \cup {0, Spurious}
    /\ todo \in 0 .. BREAK_MESSAGE + 2
    /\ rx \in 0 .. RX_DEPTH
    /\ tx \in 0 .. TX_DEPTH
    /\ IMSC \subseteq {"RX", "BE"}
    /\ systime \in 0 .. SYSTIME_MOD - 1
    /\ merged \in 0 .. expired
    /\ expired \in 0 .. MAX_EXPIRED
    /\ received \in 0 .. MAX_RECEIVED

\* irq_handler never acknowledges an interrupt that nobody has registered for, nor
\* one that has gone away: main and ptimer_init register each routine before its
\* source can fire, so the "isr != NULL" test of irq_handler never fails and no
\* level-triggered source is ended while it is still asserted.
NoOrphanIrq == hpc = "dispatch" => callback(irq) # NULL

\* irq_handler ends exactly the interrupt it acknowledged: the GIC holds that
\* one active while its routine runs, and none while the foreground runs.
ActiveIsHandled == active = IF hpc \in {"none", "ack"} THEN {} ELSE {irq}

Count(b) == IF b THEN 1 ELSE 0

\* Every expiry is in systime, or owed to it by the set event flag or by a
\* ptimer_isr between its two statements, or came while the flag was set.  So
\* clearing the flag before the tick loses no expiry that comes in between,
\* across the wraps of systime.
TicksOwed == systime = (expired - merged - Count(flag) - Count(hpc = "tick")) % SYSTIME_MOD

\* The handler gives the processor back: once the timer and the receiver are
\* silent, no interrupt fires again without a new cause.
Quiesces == []<>(hpc = "none" /\ Pending = {})

\* Every received character is read out of the FIFO, those that arrive before
\* main enables interrupts included.
EchoServed == rx > 0 ~> rx = 0

=============================================================================
