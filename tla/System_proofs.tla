--------------------------- MODULE System_proofs ---------------------------
(***************************************************************************)
(* Proofs about Interrupts, and about System that puts Scheduler on top of *)
(* it, for every depth of the FIFOs, trigger level, modulus of systime,    *)
(* number of slots, wait and set of periods.                               *)
(*                                                                         *)
(* What the properties of Interrupts rest on: a source can only fire once  *)
(* its routine is registered, a cause that has raised an interrupt is      *)
(* still there when the id is read, and the routine that runs is the one   *)
(* of that id.  What the two parts prove on their own holds of the whole,  *)
(* because each step of the whole is a step or a stutter of each part; and *)
(* the histories of the parts together bound how early a task can start.   *)
(***************************************************************************)
EXTENDS System, TLAPS


\* A source is silent until main has registered its routine, and a routine sits in
\* its own slot.
RegisteredFirst ==
    /\ callbacks[UART0_INTERRUPT] \in {NULL, "uart_isr"}
    /\ callbacks[PTIMER_INTERRUPT] \in {NULL, "ptimer_isr"}
    /\ IMSC # {} => callbacks[UART0_INTERRUPT] # NULL
    /\ timer_on => callbacks[PTIMER_INTERRUPT] # NULL
    /\ boot = 8 => callbacks[PTIMER_INTERRUPT] # NULL
    /\ flag => timer_on

\* Between entry and acknowledgement the cause does not go away; from then on the
\* handler serves that id, and a timer interrupt not yet cleared has its flag set.
HandlerServes ==
    /\ hpc = "ack" => Pending # {}
    /\ hpc \in {"dispatch", "ptimer_isr", "tick", "uart_isr", "write", "break", "end"} => irq \in Ids
    /\ hpc = "dispatch" => callbacks[irq] # NULL
    /\ hpc = "dispatch" /\ irq = PTIMER_INTERRUPT => flag
    /\ hpc = "ptimer_isr" => flag
    /\ hpc \in {"write", "break"} => todo >= 1

\* The inductive invariant.
IInv == TypeOK /\ RegisteredFirst /\ HandlerServes /\ ActiveIsHandled /\ TicksOwed

-----------------------------------------------------------------------------
(* Arithmetic of systime.                                                  *)

\* A product grows by at least m with each step of its other factor.
LEMMA ProductGrows ==
    ASSUME NEW m \in Nat \ {0}, NEW a \in Int, NEW b \in Int, a >= b + 1
    PROVE  m * a >= m * b + m
<1>1. PICK d \in Nat : a = b + 1 + d
  <2>1. a - b - 1 \in Nat
    OBVIOUS
  <2> QED
    BY <2>1
<1>2. m * d >= 0
  OBVIOUS
<1>3. m * a = m * b + m + m * d
  BY <1>1
<1> QED
  BY <1>2, <1>3

\* The remainder of a division is unique.
LEMMA Remainder ==
    ASSUME NEW m \in Nat \ {0}, NEW q \in Int, NEW r \in 0 .. m - 1
    PROVE  (m * q + r) % m = r
<1> DEFINE x == m * q + r
           p == x \div m
           s == x % m
<1>1. x \in Int /\ s \in 0 .. m - 1 /\ p \in Int /\ x = m * p + s
  OBVIOUS
<1>2. m * p + s = m * q + r
  BY <1>1
<1> HIDE DEF x, p, s
<1>3. CASE p >= q + 1
  <2>1. m * p >= m * q + m
    BY <1>1, <1>3, ProductGrows
  <2> QED
    BY <2>1, <1>1, <1>2
<1>4. CASE q >= p + 1
  <2>1. m * q >= m * p + m
    BY <1>1, <1>4, ProductGrows
  <2> QED
    BY <2>1, <1>1, <1>2
<1>5. CASE p = q
  <2>1. s = r
    BY <1>1, <1>2, <1>5
  <2> QED
    BY <2>1 DEF s, x
<1> QED
  BY <1>1, <1>3, <1>4, <1>5

\* A tick counts one further, modulo m.
LEMMA TickCounts ==
    ASSUME NEW m \in Nat \ {0}, NEW x \in Int
    PROVE  ((x % m) + 1) % m = (x + 1) % m
<1> DEFINE r == x % m
           q == x \div m
<1>1. r \in 0 .. m - 1 /\ q \in Int /\ x = m * q + r
  OBVIOUS
<1> HIDE DEF r, q
<1>2. CASE r + 1 < m
  <2>1. x + 1 = m * q + (r + 1) /\ r + 1 \in 0 .. m - 1
    BY <1>1, <1>2
  <2>2. (x + 1) % m = r + 1
    BY <2>1, <1>1, Remainder
  <2>3. (r + 1) % m = r + 1
    BY <1>1, <1>2
  <2> QED
    BY <2>2, <2>3 DEF r
<1>3. CASE r + 1 = m
  <2>1. x + 1 = m * (q + 1) + 0 /\ q + 1 \in Int /\ 0 \in 0 .. m - 1
    BY <1>1, <1>3
  <2>2. (x + 1) % m = 0
    BY <2>1, Remainder
  <2>3. r + 1 = m * 1 + 0
    BY <1>1, <1>3
  <2>4. (r + 1) % m = 0
    BY <2>1, <2>3, Remainder
  <2> QED
    BY <2>2, <2>4 DEF r
<1> QED
  BY <1>1, <1>2, <1>3

-----------------------------------------------------------------------------
(* The inductive step, one conjunct of the invariant after the other.      *)

\* TypeOK in two parts: the switches, and everything else.
Booleans ==
    /\ irqs_on \in BOOLEAN /\ gic_on \in BOOLEAN /\ timer_on \in BOOLEAN
    /\ flag \in BOOLEAN /\ be \in BOOLEAN /\ room \in BOOLEAN

Values ==
    /\ boot \in 1 .. Len(BootOrder)
    /\ callbacks \in [Ids -> {NULL, "uart_isr", "ptimer_isr"}]
    /\ enabled \subseteq Ids
    /\ active \subseteq Ids
    /\ hpc \in {"none", "ack", "dispatch", "ptimer_isr", "tick", "uart_isr", "write", "break", "end"}
    /\ irq \in Ids \cup {0, Spurious}
    /\ todo \in 0 .. BREAK_MESSAGE + 2
    /\ rx \in 0 .. RX_DEPTH
    /\ tx \in 0 .. TX_DEPTH
    /\ IMSC \subseteq {"RX", "BE"}
    /\ systime \in 0 .. SYSTIME_MOD - 1
    /\ merged \in 0 .. expired
    /\ expired \in 0 .. MAX_EXPIRED
    /\ received \in 0 .. MAX_RECEIVED

\* The type invariant in two parts, as the provers take flags and numbers apart.
LEMMA TypeParts == TypeOK <=> Booleans /\ Values
BY Zenon DEF TypeOK, Booleans, Values

\* Every step keeps the flags Boolean.
LEMMA BooleansStep == TypeOK /\ [Next]_vars => Booleans'
<1> SUFFICES ASSUME TypeOK, [Next]_vars PROVE Booleans'
  OBVIOUS
<1> USE DEF TypeOK, Booleans, foreground, handler, gic, timer, uart
<1>1. CASE uart_configure \/ welcome_done \/ gic_init \/ \E id \in Ids : gic_enable_interrupt(id)
  BY <1>1, Zenon DEF uart_configure, welcome_done, gic_init, gic_enable_interrupt, main
<1>2. CASE cpu_enable_interrupts \/ ptimer_init_register \/ ptimer_init_start
  BY <1>2, Zenon DEF cpu_enable_interrupts, ptimer_init_register, ptimer_init_start, Unmasked, main
<1>3. CASE uart_putchar_poll \/ uart_putchar_write
  BY <1>3, Zenon DEF uart_putchar_poll, uart_putchar_write
<1>4. CASE timer_expires
  BY <1>4, Zenon DEF timer_expires
<1>5. CASE uart_receives \/ uart_transmits
  <2>1. uart_receives => be' \in BOOLEAN
    BY Zenon DEF uart_receives
  <2> QED
    BY <1>5, <2>1, Zenon DEF uart_receives, uart_transmits
<1>6. CASE irq_entry \/ gic_acknowledge_interrupt \/ irq_dispatch
  BY <1>6, Zenon DEF irq_entry, gic_acknowledge_interrupt, irq_dispatch
<1>7. CASE ptimer_isr_clear \/ systime_tick
  BY <1>7, Zenon DEF ptimer_isr_clear, systime_tick, Cleared
<1>8. CASE uart_isr
  <2>1. be' \in BOOLEAN
    BY <1>8, Zenon DEF uart_isr
  <2> QED
    BY <1>8, <2>1, Zenon DEF uart_isr
<1>9. CASE uart_isr_putchar \/ gic_end_interrupt
  BY <1>9, Zenon DEF uart_isr_putchar, gic_end_interrupt
<1>10. CASE UNCHANGED vars
  BY <1>10, Zenon DEF vars
<1> QED
  BY <1>1, <1>2, <1>3, <1>4, <1>5, <1>6, <1>7, <1>8, <1>9, <1>10
  DEF Next, Cpu, Boot, Handler

\* A character is written only while one is to be written.
LEMMA ValuesStep == Values /\ HandlerServes /\ [Next]_vars => Values'
<1> SUFFICES ASSUME Values, HandlerServes, [Next]_vars PROVE Values'
  OBVIOUS
<1>0. /\ SYSTIME_MOD \in Nat \ {0} /\ TX_DEPTH \in Nat \ {0} /\ RX_DEPTH \in Nat \ {0}
      /\ BREAK_MESSAGE \in Nat \ {0} /\ MAX_EXPIRED \in Nat /\ MAX_RECEIVED \in Nat
  BY InterruptsAssumption
<1> USE <1>0 DEF Values,
        foreground, handler, gic, timer, uart
<1>1. CASE Boot
  <2>1. boot' \in 1 .. Len(BootOrder)
    BY <1>1 DEF Boot, BootOrder, main, Foreground, uart_configure, welcome_done, gic_init,
       gic_enable_interrupt, cpu_enable_interrupts, ptimer_init_register, ptimer_init_start
  <2>2. callbacks' \in [Ids -> {NULL, "uart_isr", "ptimer_isr"}]
    BY <1>1 DEF Boot, irq_register_isr, uart_configure, welcome_done, gic_init,
       gic_enable_interrupt, cpu_enable_interrupts, ptimer_init_register, ptimer_init_start
  <2>3. enabled' \subseteq Ids /\ IMSC' \subseteq {"RX", "BE"}
    BY <1>1 DEF Boot, uart_configure, welcome_done, gic_init,
       gic_enable_interrupt, cpu_enable_interrupts, ptimer_init_register, ptimer_init_start
  <2>4. /\ UNCHANGED <<hpc, irq, todo, active, tx, systime, merged, expired, received>>
        /\ rx' \in {rx, 0}
    BY <1>1 DEF Boot, main, uart_configure, welcome_done, gic_init,
       gic_enable_interrupt, cpu_enable_interrupts, ptimer_init_register, ptimer_init_start
  <2> QED
    BY <2>1, <2>2, <2>3, <2>4
<1>2. CASE uart_putchar_poll \/ uart_putchar_write
  <2>1. tx' \in 0 .. TX_DEPTH
    BY <1>2 DEF uart_putchar_poll, uart_putchar_write
  <2> QED
    BY <1>2, <2>1 DEF uart_putchar_poll, uart_putchar_write
<1>3. CASE timer_expires
  BY <1>3 DEF timer_expires
<1>4. CASE uart_receives
  <2>1. rx' \in 0 .. RX_DEPTH /\ received' \in 0 .. MAX_RECEIVED
    BY <1>4 DEF uart_receives
  <2>2. UNCHANGED <<boot, callbacks, enabled, active, hpc, irq, todo, IMSC, tx, systime, merged, expired>>
    BY <1>4, Zenon DEF uart_receives
  <2> QED
    BY <2>1, <2>2
<1>5. CASE irq_entry \/ gic_acknowledge_interrupt
  BY <1>5 DEF irq_entry, gic_acknowledge_interrupt, Pending
<1>6. CASE irq_dispatch
  BY <1>6 DEF irq_dispatch, callback
<1>7. CASE ptimer_isr_clear \/ systime_tick
  <2>1. systime' \in 0 .. SYSTIME_MOD - 1
    BY <1>7 DEF ptimer_isr_clear, systime_tick
  <2> QED
    BY <1>7, <2>1 DEF ptimer_isr_clear, systime_tick
<1>8. CASE uart_isr
  <2>1. rx' \in 0 .. RX_DEPTH /\ todo' \in 0 .. BREAK_MESSAGE + 2
    BY <1>8 DEF uart_isr, AfterRead
  <2> QED
    BY <1>8, <2>1 DEF uart_isr
<1>9. CASE uart_isr_putchar
  BY <1>9 DEF uart_isr_putchar, Room, HandlerServes
<1>10. CASE gic_end_interrupt
  BY <1>10 DEF gic_end_interrupt, Ended
<1>11. CASE UNCHANGED vars
  BY <1>11 DEF vars
<1>12. CASE uart_transmits
  BY <1>12 DEF uart_transmits
<1> QED
  BY <1>1, <1>2, <1>3, <1>4, <1>5, <1>6, <1>7, <1>8, <1>9, <1>10, <1>11, <1>12
  DEF Next, Cpu, Handler

\* A step leaves the routines in their slots, and starts a source only when its
\* routine is in place.
LEMMA RegisteredStep == Values /\ RegisteredFirst /\ [Next]_vars => RegisteredFirst'
<1> SUFFICES ASSUME Values, RegisteredFirst, [Next]_vars PROVE RegisteredFirst'
  OBVIOUS
<1>1. CASE Boot
  <2> USE DEF Values, RegisteredFirst, BootOrder, main, Foreground, Ids, PTIMER_INTERRUPT,
              UART0_INTERRUPT, gic, timer, uart
  <2>1. CASE uart_configure
    <3>1. /\ callbacks'[UART0_INTERRUPT] = "uart_isr"
          /\ callbacks'[PTIMER_INTERRUPT] = callbacks[PTIMER_INTERRUPT]
      BY <2>1 DEF uart_configure, irq_register_isr
    <3>2. boot' = 2 /\ UNCHANGED <<timer_on, flag>>
      BY <2>1 DEF uart_configure
    <3> QED
      BY <3>1, <3>2, InterruptsAssumption
  <2>2. CASE welcome_done \/ gic_init
    BY <2>2 DEF welcome_done, gic_init
  <2>3. CASE \E id \in Ids : gic_enable_interrupt(id)
    BY <2>3 DEF gic_enable_interrupt
  <2>4. CASE cpu_enable_interrupts
    BY <2>4 DEF cpu_enable_interrupts
  <2>5. CASE ptimer_init_register
    <3>1. /\ callbacks'[PTIMER_INTERRUPT] = "ptimer_isr"
          /\ callbacks'[UART0_INTERRUPT] = callbacks[UART0_INTERRUPT]
      BY <2>5 DEF ptimer_init_register, irq_register_isr
    <3>2. UNCHANGED <<IMSC, timer_on, flag>>
      BY <2>5 DEF ptimer_init_register
    <3> QED
      BY <3>1, <3>2, InterruptsAssumption
  <2>6. CASE ptimer_init_start
    BY <2>6 DEF ptimer_init_start
  <2> QED
    BY <1>1, <2>1, <2>2, <2>3, <2>4, <2>5, <2>6 DEF Boot
<1>2. CASE timer_expires
  BY <1>2 DEF timer_expires, RegisteredFirst, foreground, gic, uart
<1>3. CASE Handler \/ uart_putchar_poll \/ uart_putchar_write \/ uart_receives \/ uart_transmits
  <2> USE DEF foreground, gic, timer, uart
  <2>1. UNCHANGED <<boot, callbacks, IMSC, timer_on>>
    <3>1. CASE uart_receives
      BY <3>1, Zenon DEF uart_receives
    <3>2. CASE uart_isr
      BY <3>2, Zenon DEF uart_isr
    <3>3. CASE irq_entry \/ gic_acknowledge_interrupt \/ irq_dispatch \/ gic_end_interrupt
      BY <3>3 DEF irq_entry, gic_acknowledge_interrupt, irq_dispatch, gic_end_interrupt
    <3>4. CASE ptimer_isr_clear \/ systime_tick \/ uart_isr_putchar
      BY <3>4 DEF ptimer_isr_clear, systime_tick, uart_isr_putchar
    <3>5. CASE uart_putchar_poll \/ uart_putchar_write \/ uart_transmits
      BY <3>5 DEF uart_putchar_poll, uart_putchar_write, uart_transmits
    <3> QED
      BY <1>3, <3>1, <3>2, <3>3, <3>4, <3>5 DEF Handler
  <2>2. flag' => flag
    BY <1>3, Zenon DEF Handler, irq_entry, gic_acknowledge_interrupt, irq_dispatch, ptimer_isr_clear,
       systime_tick, uart_isr, uart_isr_putchar, gic_end_interrupt, uart_putchar_poll,
       uart_putchar_write, uart_receives, uart_transmits, Cleared
  <2> QED
    BY <2>1, <2>2 DEF RegisteredFirst
<1>4. CASE UNCHANGED vars
  BY <1>4 DEF RegisteredFirst, vars, foreground, gic, timer, uart
<1> QED
  BY <1>1, <1>2, <1>3, <1>4 DEF Next, Cpu

-----------------------------------------------------------------------------
(* The handler.                                                            *)

\* The hardware removes no cause of an interrupt.
LEMMA CausesStay ==
    ASSUME Values, timer_expires \/ uart_receives \/ uart_transmits
    PROVE  /\ UNCHANGED <<hpc, irq, todo, callbacks, active>>
           /\ flag => flag'
           /\ Pending \subseteq Pending'
<1>1. CASE timer_expires
  <2>1. /\ UNCHANGED <<hpc, irq, todo, callbacks, active, enabled, gic_on, rx, be, IMSC>>
        /\ flag'
    BY <1>1, Zenon DEF timer_expires, handler, gic, uart
  <2>2. MIS' = MIS
    BY <2>1, Zenon DEF MIS
  <2>3. Pending \subseteq Pending'
    BY <2>1, <2>2, Zenon DEF Pending, Line
  <2> QED
    BY <2>1, <2>3
<1>2. CASE uart_receives
  <2>1. UNCHANGED <<hpc, irq, todo, callbacks, active, enabled, gic_on, IMSC, flag>>
    BY <1>2, Zenon DEF uart_receives, handler, gic, timer
  <2>2. be => be'
    BY <1>2, Zenon DEF uart_receives
  <2>3. rx >= RX_TRIGGER => rx' >= RX_TRIGGER
    BY <1>2, InterruptsAssumption DEF uart_receives, Values
  <2>4. MIS # {} => MIS' # {}
    BY <2>1, <2>2, <2>3, Zenon DEF MIS
  <2>5. Pending \subseteq Pending'
    BY <2>1, <2>4, Zenon DEF Pending, Line
  <2> QED
    BY <2>1, <2>5
<1>3. CASE uart_transmits
  <2>1. UNCHANGED <<hpc, irq, todo, callbacks, active, enabled, gic_on, IMSC, flag, rx, be>>
    BY <1>3, Zenon DEF uart_transmits, handler, gic, timer
  <2>2. Pending' = Pending
    BY <2>1, Zenon DEF Pending, Line, MIS
  <2> QED
    BY <2>1, <2>2
<1> QED
  BY <1>1, <1>2, <1>3

\* An id is pending only for a source whose routine is registered.
LEMMA PendingRegistered ==
    ASSUME Values, RegisteredFirst, NEW id \in Pending
    PROVE  /\ id \in Ids
           /\ callbacks[id] # NULL
           /\ id = PTIMER_INTERRUPT => flag
<1>1. id \in Ids /\ Line(id)
  BY Zenon DEF Pending, Values
<1>2. CASE id = PTIMER_INTERRUPT
  BY <1>1, <1>2, Zenon DEF Line, RegisteredFirst
<1>3. CASE id = UART0_INTERRUPT
  <2>1. id # PTIMER_INTERRUPT
    BY <1>3 DEF UART0_INTERRUPT, PTIMER_INTERRUPT
  <2>2. IMSC # {}
    BY <1>1, <2>1, Zenon DEF Line, MIS
  <2> QED
    BY <1>1, <1>3, <2>1, <2>2, Zenon DEF RegisteredFirst
<1> QED
  BY <1>1, <1>2, <1>3 DEF Ids

\* The steps the foreground takes happen outside the handler, and leave it there.
LEMMA ForegroundStep ==
    ASSUME Boot \/ uart_putchar_poll \/ uart_putchar_write
    PROVE  hpc = "none" /\ UNCHANGED <<hpc, irq, todo, active, flag, systime, expired, merged>>
<1> USE DEF handler, gic, timer
<1>1. CASE Boot
  BY <1>1, Zenon DEF Boot, uart_configure, welcome_done, gic_init, gic_enable_interrupt,
     cpu_enable_interrupts, ptimer_init_register, ptimer_init_start, main, Foreground
<1>2. CASE uart_putchar_poll \/ uart_putchar_write
  BY <1>2, Zenon DEF uart_putchar_poll, uart_putchar_write, Foreground
<1> QED
  BY <1>1, <1>2

\* The handler goes on with an interrupt it has a routine and a cause for.
LEMMA ServesStep == Values /\ RegisteredFirst /\ HandlerServes /\ [Next]_vars => HandlerServes'
<1> SUFFICES ASSUME Values, RegisteredFirst, HandlerServes, [Next]_vars PROVE HandlerServes'
  OBVIOUS
<1>1. CASE Boot \/ uart_putchar_poll \/ uart_putchar_write
  BY <1>1, ForegroundStep DEF HandlerServes
<1>2. CASE timer_expires \/ uart_receives \/ uart_transmits
  BY <1>2, CausesStay, Zenon DEF HandlerServes
<1>3. CASE irq_entry
  <2>1. hpc' = "ack" /\ Pending # {} /\ UNCHANGED <<flag, rx, be, IMSC, enabled, active, gic_on>>
    BY <1>3, Zenon DEF irq_entry, gic, timer, uart
  <2>2. Pending' # {}
    BY <2>1, Zenon DEF Pending, Line, MIS
  <2> QED
    BY <2>1, <2>2 DEF HandlerServes
<1>4. CASE gic_acknowledge_interrupt
  <2>1. PICK id \in Pending : irq' = id
    BY <1>4, Zenon DEF gic_acknowledge_interrupt, HandlerServes
  <2>2. hpc' = "dispatch" /\ UNCHANGED <<callbacks, flag>>
    BY <1>4, Zenon DEF gic_acknowledge_interrupt, timer
  <2> QED
    BY <2>1, <2>2, PendingRegistered DEF HandlerServes
<1>5. CASE irq_dispatch
  <2>1. /\ hpc = "dispatch" /\ hpc' = IF callback(irq) # NULL THEN callback(irq) ELSE "end"
        /\ UNCHANGED <<irq, callbacks, flag>>
    BY <1>5, Zenon DEF irq_dispatch, gic, timer
  <2>2. irq \in Ids /\ hpc' = callbacks[irq]
    BY <2>1, Zenon DEF HandlerServes, callback
  <2>3. CASE irq = PTIMER_INTERRUPT
    <3>1. hpc' = "ptimer_isr" /\ flag
      BY <2>1, <2>2, <2>3, Zenon DEF HandlerServes, RegisteredFirst
    <3> QED
      BY <2>1, <2>2, <3>1 DEF HandlerServes
  <2>4. CASE irq = UART0_INTERRUPT
    <3>1. hpc' = "uart_isr"
      BY <2>1, <2>2, <2>4, Zenon DEF HandlerServes, RegisteredFirst
    <3> QED
      BY <2>1, <2>2, <3>1 DEF HandlerServes
  <2> QED
    BY <2>2, <2>3, <2>4 DEF Ids
<1>6. CASE ptimer_isr_clear \/ systime_tick
  BY <1>6 DEF ptimer_isr_clear, systime_tick, HandlerServes
<1>7. CASE uart_isr
  <2>1. hpc = "uart_isr" /\ irq' = irq /\ hpc' \in {"write", "break", "end"}
    BY <1>7, Zenon DEF uart_isr
  <2>2. hpc' \in {"write", "break"} => todo' >= 1
    <3>1. \/ todo' \in {1, 2}
          \/ todo' = BREAK_MESSAGE
          \/ hpc' = "end"
      BY <1>7, Zenon DEF uart_isr
    <3>2. BREAK_MESSAGE >= 1
      BY InterruptsAssumption
    <3> QED
      BY <3>1, <3>2
  <2> QED
    BY <2>1, <2>2 DEF HandlerServes
<1>8. CASE uart_isr_putchar
  BY <1>8 DEF uart_isr_putchar, HandlerServes, Values
<1>9. CASE gic_end_interrupt
  BY <1>9 DEF gic_end_interrupt, HandlerServes
<1>10. CASE UNCHANGED vars
  <2>1. UNCHANGED <<hpc, irq, todo, callbacks, flag, rx, be, IMSC, enabled, active, gic_on>>
    BY <1>10, Zenon DEF vars, handler, gic, timer, uart
  <2>2. Pending' = Pending
    BY <2>1, Zenon DEF Pending, Line, MIS
  <2> QED
    BY <2>1, <2>2 DEF HandlerServes
<1> QED
  BY <1>1, <1>2, <1>3, <1>4, <1>5, <1>6, <1>7, <1>8, <1>9, <1>10 DEF Next, Cpu, Handler

\* What the GIC holds active is what the handler serves.
LEMMA ActiveStep ==
    RegisteredFirst /\ HandlerServes /\ HandlerServes' /\ ActiveIsHandled /\ [Next]_vars => ActiveIsHandled'
<1> SUFFICES ASSUME RegisteredFirst, HandlerServes, HandlerServes', ActiveIsHandled, [Next]_vars
             PROVE  ActiveIsHandled'
  OBVIOUS
<1> USE DEF HandlerServes, ActiveIsHandled, handler, gic
<1>1. CASE Boot \/ uart_putchar_poll \/ uart_putchar_write
  BY <1>1, ForegroundStep
<1>2. CASE timer_expires \/ uart_receives \/ uart_transmits
  BY <1>2, Zenon DEF timer_expires, uart_receives, uart_transmits
<1>3. CASE irq_entry
  BY <1>3 DEF irq_entry
<1>4. CASE gic_acknowledge_interrupt
  <2>1. PICK id \in Pending : irq' = id /\ active' = active \cup (Ids \cap {id})
    BY <1>4, Zenon DEF gic_acknowledge_interrupt
  <2>2. hpc = "ack" /\ hpc' = "dispatch"
    BY <1>4 DEF gic_acknowledge_interrupt
  <2>3. irq' \in Ids
    BY <2>2
  <2> QED
    BY <2>1, <2>2, <2>3
<1>5. CASE irq_dispatch
  <2>1. hpc = "dispatch" /\ hpc' \notin {"none", "ack"} /\ UNCHANGED <<irq, active>>
    BY <1>5 DEF irq_dispatch, callback, RegisteredFirst, Ids, PTIMER_INTERRUPT, UART0_INTERRUPT
  <2> QED
    BY <2>1
<1>6. CASE ptimer_isr_clear \/ systime_tick
  BY <1>6 DEF ptimer_isr_clear, systime_tick
<1>7. CASE uart_isr \/ uart_isr_putchar
  <2>1. hpc \in {"uart_isr", "write", "break"} /\ hpc' \in {"write", "break", "end"} /\ UNCHANGED <<irq, active>>
    BY <1>7, Zenon DEF uart_isr, uart_isr_putchar
  <2> QED
    BY <2>1
<1>8. CASE gic_end_interrupt
  BY <1>8 DEF gic_end_interrupt, Ended
<1>9. CASE UNCHANGED vars
  BY <1>9 DEF vars
<1> QED
  BY <1>1, <1>2, <1>3, <1>4, <1>5, <1>6, <1>7, <1>8, <1>9 DEF Next, Cpu, Handler

\* A tick pays what an expiry owes; only an expiry that finds the flag set is merged.
LEMMA TicksStep == Values /\ HandlerServes /\ TicksOwed /\ [Next]_vars => TicksOwed'
<1> SUFFICES ASSUME Values, HandlerServes, TicksOwed, [Next]_vars PROVE TicksOwed'
  OBVIOUS
<1>0. SYSTIME_MOD \in Nat \ {0} /\ expired \in Int /\ merged \in Int
  BY InterruptsAssumption DEF Values
<1>1. CASE UNCHANGED <<systime, expired, merged, flag>> /\ (hpc = "tick" <=> hpc' = "tick")
  BY <1>1 DEF TicksOwed, Count
<1>2. CASE timer_expires
  <2>1. /\ UNCHANGED <<systime, hpc>> /\ expired' = expired + 1 /\ flag' = TRUE
        /\ flag => merged' = merged + 1
        /\ ~flag => merged' = merged
    BY <1>2, Zenon DEF timer_expires, handler
  <2>2. expired' - merged' - Count(flag') = expired - merged - Count(flag)
    BY <1>0, <2>1 DEF Count
  <2> QED
    BY <2>1, <2>2 DEF TicksOwed
<1>3. CASE ptimer_isr_clear
  <2>1. /\ UNCHANGED <<systime, expired, merged>> /\ flag /\ flag' = FALSE
        /\ hpc = "ptimer_isr" /\ hpc' = "tick"
    BY <1>3, Zenon DEF ptimer_isr_clear, Cleared, HandlerServes
  <2>2. Count(flag') + Count(hpc' = "tick") = Count(flag) + Count(hpc = "tick")
    BY <2>1 DEF Count
  <2> QED
    BY <1>0, <2>1 DEF TicksOwed, Count
<1>4. CASE systime_tick
  <2> DEFINE x == expired - merged - Count(flag) - 1
  <2>1. x \in Int
    BY <1>0 DEF Count
  <2>2. /\ systime' = (systime + 1) % SYSTIME_MOD /\ hpc = "tick" /\ hpc' = "end"
        /\ UNCHANGED <<expired, merged, flag>>
    BY <1>4, Zenon DEF systime_tick
  <2>3. systime = x % SYSTIME_MOD
    BY <2>2 DEF TicksOwed, Count
  <2>4. systime' = (x + 1) % SYSTIME_MOD
    BY <1>0, <2>1, <2>2, <2>3, TickCounts
  <2>5. x + 1 = (expired - merged - Count(flag) - Count(hpc = "tick"))'
    BY <1>0, <2>2 DEF Count
  <2> QED
    BY <2>4, <2>5 DEF TicksOwed
<1>5. CASE Boot \/ uart_putchar_poll \/ uart_putchar_write
  BY <1>1, <1>5, ForegroundStep
<1>6. CASE uart_receives \/ uart_transmits
  <2>1. UNCHANGED <<systime, expired, merged, flag, hpc>>
    BY <1>6, Zenon DEF uart_receives, uart_transmits, handler, timer
  <2> QED
    BY <1>1, <2>1
<1>7. CASE irq_entry \/ gic_acknowledge_interrupt \/ irq_dispatch \/ gic_end_interrupt
  <2>1. UNCHANGED <<systime, expired, merged, flag>>
    BY <1>7, Zenon DEF irq_entry, gic_acknowledge_interrupt, irq_dispatch, gic_end_interrupt, timer
  <2>2. hpc # "tick" /\ hpc' # "tick"
    BY <1>7 DEF irq_entry, gic_acknowledge_interrupt, irq_dispatch, gic_end_interrupt, callback,
       Values, Ids
  <2> QED
    BY <1>1, <2>1, <2>2
<1>8. CASE uart_isr \/ uart_isr_putchar
  <2>1. UNCHANGED <<systime, expired, merged, flag>>
    BY <1>8, Zenon DEF uart_isr, uart_isr_putchar, timer
  <2>2. hpc # "tick" /\ hpc' # "tick"
    BY <1>8 DEF uart_isr, uart_isr_putchar
  <2> QED
    BY <1>1, <2>1, <2>2
<1>9. CASE UNCHANGED vars
  BY <1>1, <1>9 DEF vars, handler, timer
<1> QED
  BY <1>2, <1>3, <1>4, <1>5, <1>6, <1>7, <1>8, <1>9 DEF Next, Cpu, Handler

-----------------------------------------------------------------------------
(* The theorems.                                                           *)

\* main is called with the invariant true.
LEMMA InvInit == Init => IInv
<1> SUFFICES ASSUME Init PROVE IInv
  OBVIOUS
<1> USE DEF Init
<1>1. Booleans
  BY Zenon DEF Booleans
<1>2. Values
  <2>1. Len(BootOrder) = 9
    BY DEF BootOrder
  <2> QED
    BY <2>1, InterruptsAssumption DEF Values
<1>3. RegisteredFirst
  <2>1. boot # 8
    OBVIOUS
  <2> QED
    BY <2>1, Zenon DEF RegisteredFirst, Ids
<1>4. HandlerServes /\ ActiveIsHandled
  BY DEF HandlerServes, ActiveIsHandled
<1>5. TicksOwed
  BY InterruptsAssumption DEF TicksOwed, Count
<1> QED
  BY <1>1, <1>2, <1>3, <1>4, <1>5, TypeParts DEF IInv

\* Every step of main, the handler and the hardware keeps the invariant.
LEMMA InvNext == IInv /\ [Next]_vars => IInv'
<1> SUFFICES ASSUME IInv, [Next]_vars PROVE IInv'
  OBVIOUS
<1>1. Values
  BY TypeParts DEF IInv
<1>2. Booleans' /\ Values'
  BY <1>1, BooleansStep, ValuesStep DEF IInv
<1>3. TypeOK'
  BY <1>2, Zenon DEF TypeOK, Booleans, Values
<1> QED
  BY <1>1, <1>3, RegisteredStep, ServesStep, ActiveStep, TicksStep DEF IInv

\* So the invariant always holds.
LEMMA InvAlways == Spec => []IInv
BY InvInit, InvNext, PTL DEF Spec

\* Every register, counter and local variable of the interrupt path keeps its type,
\* and no FIFO holds more than its depth: uart_isr writes only what there is room for.
THEOREM TypesTheorem == Spec => []TypeOK
<1>1. IInv => TypeOK
  BY DEF IInv
<1> QED
  BY <1>1, InvAlways, PTL

\* The handler finds a routine for every interrupt it acknowledges, whatever the
\* depths, the trigger level and the order in which the devices fire: main enables
\* the UART's interrupt after its routine is registered, and starts the timer last.
THEOREM NoOrphanTheorem == Spec => []NoOrphanIrq
<1>1. IInv => NoOrphanIrq
  BY Zenon DEF IInv, HandlerServes, NoOrphanIrq, callback
<1> QED
  BY <1>1, InvAlways, PTL

\* The GIC has active exactly the interrupt that irq_handler serves.
THEOREM ActiveTheorem == Spec => []ActiveIsHandled
<1>1. IInv => ActiveIsHandled
  BY DEF IInv
<1> QED
  BY <1>1, InvAlways, PTL

\* No expiry is counted twice, and none is lost except those that find the event flag
\* set, for any width of systime and any number of wraps.
THEOREM TicksTheorem == Spec => []TicksOwed
<1>1. IInv => TicksOwed
  BY DEF IInv
<1> QED
  BY <1>1, InvAlways, PTL

-----------------------------------------------------------------------------
(* The whole.                                                              *)

\* The proofs about Scheduler; the speed of the CPU is no part of System.
P == INSTANCE Scheduler_proofs WITH MAX_BURST <- 1, slack <- 0

\* What sched.c counts never runs ahead of the timer by more than the expiry that
\* was on its way when the slot was stamped.
NeverAhead ==
    \A s \in S!Slots : age[s] + Count(flag) + Count(hpc = "tick") <= real[s] + 1

RealType == real \in [S!Slots -> Nat]

-----------------------------------------------------------------------------
(* Scheduler and its proofs, under the assumptions of System.              *)

\* What Scheduler assumes of its constants, from what System assumes.
LEMMA Assumptions ==
    /\ SYSTIME_MOD \in Nat \ {0}
    /\ MAX_NUM_TASKS \in Nat \ {0}
    /\ WAIT \in P!SysTimes
    /\ Periods \subseteq P!SysTimes
    /\ NULL \notin BusyTasks \cup HangTasks
    /\ NULL \notin P!Slots \cup P!SysTimes
    /\ 1 \in Nat \ {0}
BY SystemAssumption, InterruptsAssumption DEF S!SysTimes, P!SysTimes, S!Slots, P!Slots

\* The theorems about Scheduler that are used here.
LEMMA SchedulerFacts == S!Spec => [](S!TypeOK /\ S!SpacedRuns)
<1>1. P!Spec => []P!TypeOK /\ []P!SpacedRuns
  BY Assumptions, P!TypeCorrect, P!SpacedTheorem, PTL
<1>2. S!Init <=> P!Init
  BY DEF S!Init, P!Init, S!Slots, P!Slots
<1>3. [S!Next]_(S!vars) <=> [P!Next]_(P!vars)
  BY DEF S!Next, P!Next, S!Cpu, P!Cpu, S!vars, P!vars, S!Slots, P!Slots, S!Entries, P!Entries,
     S!MaxAge, P!MaxAge, S!Older, P!Older, S!Due, P!Due, S!NextSlot, P!NextSlot,
     S!TimeToRun, P!TimeToRun, S!KeepWaiting, P!KeepWaiting, S!Stamped, P!Stamped,
     S!Incremented, P!Incremented, S!systime_tick, P!systime_tick,
     S!sched_add_task, P!sched_add_task, S!sched_add_task_full, P!sched_add_task_full,
     S!sched_run_enter, P!sched_run_enter, S!sched_run_skip, P!sched_run_skip,
     S!sched_run_due, P!sched_run_due, S!sched_run_stamp, P!sched_run_stamp,
     S!task_enter, P!task_enter, S!task_poll, P!task_poll,
     S!task_leave_loop, P!task_leave_loop, S!task_return, P!task_return
<1>4. P!TypeOK /\ P!SpacedRuns => S!TypeOK /\ S!SpacedRuns
  BY DEF P!TypeOK, S!TypeOK, P!SpacedRuns, S!SpacedRuns, S!Slots, P!Slots, S!Entries, P!Entries,
     S!SysTimes, P!SysTimes
<1> QED
  BY <1>1, <1>2, <1>3, <1>4, PTL DEF S!Spec, P!Spec

-----------------------------------------------------------------------------
(* The parts.                                                              *)

\* No step of the whole does anything to the interrupt path that Interrupts does not.
LEMMA StepOfInterrupts == [SystemNext]_allvars => [Next]_vars
BY Zenon DEF SystemNext, Initialise, Printing, Schedule, Handle, Tick, Expire, Serial, Next, Cpu, Handler,
   allvars

\* The tick of the whole is the only step that changes systime.
LEMMA SystimeKept ==
    ASSUME Boot \/ uart_putchar_poll \/ uart_putchar_write \/ timer_expires \/ uart_receives
             \/ uart_transmits \/ (Handler /\ hpc # "tick")
    PROVE  systime' = systime
<1> USE DEF timer
<1>1. CASE Boot \/ uart_putchar_poll \/ uart_putchar_write
  BY <1>1, ForegroundStep
<1>2. CASE timer_expires \/ uart_receives \/ uart_transmits
  BY <1>2, Zenon DEF timer_expires, uart_receives, uart_transmits
<1>3. CASE Handler /\ hpc # "tick"
  BY <1>3, Zenon DEF Handler, irq_entry, gic_acknowledge_interrupt, irq_dispatch, ptimer_isr_clear,
     systime_tick, uart_isr, uart_isr_putchar, gic_end_interrupt
<1> QED
  BY <1>1, <1>2, <1>3

\* Nor to the scheduler.
LEMMA StepOfScheduler == [SystemNext]_allvars => [S!Next]_(S!vars)
<1> SUFFICES ASSUME [SystemNext]_allvars PROVE [S!Next]_(S!vars)
  OBVIOUS
<1>1. CASE Schedule \/ Tick
  BY <1>1, Zenon DEF Schedule, Tick, S!Next
<1>2. CASE \/ Initialise \/ Printing \/ Expire \/ Serial
           \/ (Handler /\ hpc # "tick" /\ UNCHANGED <<tasks, real>>)
  <2>1. UNCHANGED tasks
    BY <1>2, Zenon DEF Initialise, Printing, Expire, Serial
  <2>2. UNCHANGED systime
    BY <1>2, SystimeKept, Zenon DEF Initialise, Printing, Expire, Serial
  <2> QED
    BY <2>1, <2>2 DEF tasks, S!vars
<1>3. CASE UNCHANGED allvars
  BY <1>3 DEF allvars, vars, timer, tasks, S!vars
<1> QED
  BY <1>1, <1>2, <1>3, Zenon DEF SystemNext, Handle

\* The composition is an interrupt path as Interrupts describes it, so that its
\* theorems hold of the whole.
THEOREM RunsInterrupts == SystemSpec => Spec
<1>1. SystemInit => Init
  BY DEF SystemInit
<1> QED
  BY <1>1, StepOfInterrupts, PTL DEF SystemSpec, Spec

\* The composition schedules as Scheduler describes it: what is proved of sched.c with a
\* tick at any moment holds with the ticks that ptimer_isr makes.
THEOREM RunsScheduler == SystemSpec => S!Spec
<1>1. SystemInit => S!Init
  BY DEF SystemInit
<1> QED
  BY <1>1, StepOfScheduler, PTL DEF SystemSpec, S!Spec

-----------------------------------------------------------------------------
(* The spacing.                                                            *)

\* The steps that change neither what is owed nor how old the slots are.
LEMMA AheadKept ==
    ASSUME age \in [S!Slots -> Nat], RealType, NeverAhead,
           UNCHANGED <<age, real>>,
           Count(flag') + Count(hpc' = "tick") <= Count(flag) + Count(hpc = "tick")
    PROVE  (RealType /\ NeverAhead)'
BY DEF RealType, NeverAhead, Count

\* No step lets the count of sched.c run ahead of the timer.
LEMMA AheadStep ==
    Values /\ HandlerServes /\ S!TypeOK /\ RealType /\ NeverAhead /\ [SystemNext]_allvars
        => (RealType /\ NeverAhead)'
<1> SUFFICES ASSUME Values, HandlerServes, S!TypeOK, RealType, NeverAhead, [SystemNext]_allvars
             PROVE  (RealType /\ NeverAhead)'
  OBVIOUS
<1>0. age \in [S!Slots -> Nat] /\ idx \in S!Slots
  BY InterruptsAssumption DEF S!TypeOK, S!SysTimes
<1>1. CASE Initialise \/ Printing
  <2>1. UNCHANGED <<age, real, flag, hpc>>
    BY <1>1, ForegroundStep, Zenon DEF Initialise, Printing, tasks
  <2> QED
    BY <2>1, <1>0, AheadKept DEF Count
<1>2. CASE Serial
  <2>1. UNCHANGED <<age, real, flag, hpc>>
    BY <1>2, Zenon DEF Serial, tasks, uart_receives, uart_transmits, handler, timer
  <2> QED
    BY <2>1, <1>0, AheadKept DEF Count
<1>3. CASE Schedule
  <2>1. hpc = "none" /\ UNCHANGED <<flag, hpc>>
    BY <1>3, Zenon DEF Schedule, Foreground, vars, handler, timer
  <2>2. CASE pc = "stamp"
    <3>1. age' = [age EXCEPT ![idx] = 0] /\ real' = [real EXCEPT ![idx] = 0]
      BY <1>3, <2>2 DEF Schedule, S!Cpu, S!sched_add_task, S!sched_add_task_full, S!sched_run_enter,
         S!sched_run_skip, S!sched_run_due, S!sched_run_stamp, S!task_enter, S!task_poll,
         S!task_leave_loop, S!task_return
    <3> QED
      BY <1>0, <2>1, <3>1 DEF RealType, NeverAhead, Count
  <2>3. CASE pc # "stamp"
    <3>1. UNCHANGED <<age, real>>
      BY <1>3, <2>3 DEF Schedule, S!Cpu, S!sched_add_task, S!sched_add_task_full, S!sched_run_enter,
         S!sched_run_skip, S!sched_run_due, S!sched_run_stamp, S!task_enter, S!task_poll,
         S!task_leave_loop, S!task_return, S!vars
    <3> QED
      BY <2>1, <3>1, <1>0, AheadKept DEF Count
  <2> QED
    BY <2>2, <2>3
<1>4. CASE Tick
  <2>1. /\ hpc = "tick" /\ hpc' = "end" /\ UNCHANGED <<flag, real>>
        /\ age' = [s \in S!Slots |-> S!Older(age[s])]
    BY <1>4, Zenon DEF Tick, systime_tick, S!systime_tick
  <2>2. \A s \in S!Slots : age'[s] <= age[s] + 1 /\ age'[s] \in Nat
    <3>1. \A a \in Nat : S!Older(a) <= a + 1 /\ S!Older(a) \in Nat
      BY InterruptsAssumption DEF S!Older, S!MaxAge
    <3> QED
      BY <1>0, <2>1, <3>1
  <2> QED
    BY <1>0, <2>1, <2>2 DEF RealType, NeverAhead, Count
<1>5. CASE Handler /\ hpc # "tick" /\ UNCHANGED <<tasks, real>>
  <2>1. UNCHANGED <<age, real>>
    BY <1>5, Zenon DEF tasks
  <2>2. CASE ptimer_isr_clear
    <3>1. flag /\ hpc # "tick" /\ flag' = FALSE
      BY <1>5, <2>2, Zenon DEF ptimer_isr_clear, HandlerServes, Cleared
    <3> QED
      BY <2>1, <3>1, <1>0, AheadKept DEF Count
  <2>3. CASE ~ptimer_isr_clear
    <3>1. flag' = flag
      BY <1>5, <2>3, Zenon DEF Handler, irq_entry, gic_acknowledge_interrupt, irq_dispatch,
         systime_tick, uart_isr, uart_isr_putchar, gic_end_interrupt, timer
    <3>2. hpc' # "tick"
      BY <1>5, <2>3 DEF Handler, irq_entry, gic_acknowledge_interrupt, irq_dispatch, callback,
         systime_tick, uart_isr, uart_isr_putchar, gic_end_interrupt, Values, Ids
    <3> QED
      BY <2>1, <3>1, <3>2, <1>0, AheadKept DEF Count
  <2> QED
    BY <2>2, <2>3
<1>6. CASE Expire
  <2>1. /\ UNCHANGED <<age, hpc>> /\ flag' = TRUE
        /\ real' = [s \in S!Slots |-> real[s] + 1]
    BY <1>6, Zenon DEF Expire, timer_expires, tasks, handler
  <2> QED
    BY <1>0, <2>1 DEF RealType, NeverAhead, Count
<1>7. CASE UNCHANGED allvars
  <2>1. UNCHANGED <<age, real, flag, hpc>>
    BY <1>7, Zenon DEF allvars, vars, tasks, handler, timer
  <2> QED
    BY <2>1, <1>0, AheadKept DEF Count
<1> QED
  BY <1>1, <1>2, <1>3, <1>4, <1>5, <1>6, <1>7, Zenon DEF SystemNext, Handle

\* By the timer's own expiries a task starts no more than one short of its period after its
\* last start, however late they are served and however many of them merge: lateness
\* delays tasks, and never brings two starts closer together.
THEOREM SpacedByTimerTheorem == SystemSpec => []SpacedByTimer
<1>1. SystemInit => RealType /\ NeverAhead
  BY DEF SystemInit, Init, S!Init, RealType, NeverAhead, Count
<1>2. IInv => Values /\ HandlerServes
  BY TypeParts DEF IInv
<1>3. S!TypeOK /\ S!SpacedRuns /\ RealType /\ NeverAhead => SpacedByTimer
  BY InterruptsAssumption DEF S!TypeOK, S!SysTimes, S!SpacedRuns, RealType, NeverAhead, SpacedByTimer, Count
<1> QED
  BY <1>1, <1>2, <1>3, AheadStep, RunsInterrupts, RunsScheduler, InvAlways, SchedulerFacts, PTL
  DEF SystemSpec

=============================================================================
