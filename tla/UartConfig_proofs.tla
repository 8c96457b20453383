------------------------- MODULE UartConfig_proofs -------------------------
(***************************************************************************)
(* Proofs about UartConfig, for any depth of the FIFO and any              *)
(* configurations tried.                                                   *)
(***************************************************************************)
EXTENDS UartConfig, TLAPS

\* uart_configure between its first write and its last.
Inside == pc \in {"busy", "flush", "divisor", "line", "enable"}

\* With the UART disabled no character begins, so that the line found silent stays
\* silent until uart_configure is done.
Silent ==
    /\ Inside => ~UARTEN
    /\ pc \in {"flush", "divisor", "line", "enable"} => ~shifting

\* What the statements have established so far.
Progress ==
    /\ pc \in {"idle", "disable"} \/ Inside
    /\ pc # "idle" => config \in uart_config
    /\ pc = "enable" => LCRH = LineControl(config)
    /\ ~Inside /\ accepted # NONE => UARTEN /\ LCRH = LineControl(accepted)

IInv == Silent /\ Progress

\* The UART as U-Boot leaves it satisfies the invariant.
LEMMA InvInit == Init => IInv
BY DEF Init, IInv, Silent, Progress, Inside

\* Every statement of uart_configure, and the transmitter, keeps it.
LEMMA InvNext == IInv /\ [Next]_vars => IInv'
<1> SUFFICES ASSUME IInv, [Next]_vars PROVE IInv'
  OBVIOUS
<1> USE DEF IInv, Silent, Progress, Inside, registers
<1>1. CASE validate
  <2>1. /\ pc = "idle" /\ UNCHANGED <<UARTEN, LCRH, shifting, accepted>>
        /\ (pc' = "disable" /\ config' \in uart_config) \/ UNCHANGED <<pc, config>>
    BY <1>1, Zenon DEF validate
  <2> QED
    BY <2>1
<1>2. CASE disable
  BY <1>2 DEF disable
<1>3. CASE wait_busy
  BY <1>3 DEF wait_busy, StillBusy, BUSY
<1>4. CASE flush
  BY <1>4 DEF flush, WriteLCRH
<1>5. CASE set_divisor
  BY <1>5 DEF set_divisor
<1>6. CASE set_line
  BY <1>6 DEF set_line, WriteLCRH, LineControl
<1>7. CASE enable
  BY <1>7 DEF enable
<1>8. CASE uart_putchar
  BY <1>8 DEF uart_putchar
<1>9. CASE transmit_begin \/ transmit_end
  BY <1>9 DEF transmit_begin, transmit_end
<1>10. CASE UNCHANGED vars
  BY <1>10 DEF vars
<1> QED
  BY <1>1, <1>2, <1>3, <1>4, <1>5, <1>6, <1>7, <1>8, <1>9, <1>10 DEF Next, uart_configure

\* So it always holds.
LEMMA InvAlways == Spec => []IInv
BY InvInit, InvNext, PTL DEF Spec

\* Whenever uart_configure is called again, and however much is still to be sent, no
\* character goes out partly with the old and partly with the new settings.
THEOREM NoTornTheorem == Spec => NoTornCharacter
<1>1. IInv /\ [Next]_vars =>
        [<<LCRH, divisor>>' # <<LCRH, divisor>> => ~UARTEN /\ ~shifting]_vars
  <2> SUFFICES ASSUME IInv, Next PROVE UNCHANGED <<LCRH, divisor>> \/ (~UARTEN /\ ~shifting)
    OBVIOUS
  <2>1. CASE flush \/ set_line
    BY <2>1 DEF flush, set_line, IInv, Silent, Inside
  <2>2. CASE ~(flush \/ set_line)
    BY <2>2 DEF Next, uart_configure, validate, disable, wait_busy, set_divisor, enable, uart_putchar,
       transmit_begin, transmit_end, registers
  <2> QED
    BY <2>1, <2>2
<1> QED
  BY <1>1, InvAlways, PTL DEF Spec, NoTornCharacter

\* Between calls the frame is the one of the last call that was accepted, for every
\* sequence of accepted and rejected calls.
THEOREM FrameTheorem == Spec => []FrameAsConfigured
<1>1. IInv => FrameAsConfigured
  <2> SUFFICES ASSUME IInv, pc = "idle", accepted # NONE
               PROVE  FrameAsConfigured
    BY DEF FrameAsConfigured
  <2>1. UARTEN /\ LCRH = LineControl(accepted)
    BY DEF IInv, Progress, Inside
  <2>2. /\ LCRH.WLEN = accepted.data_bits
        /\ LCRH.PEN = accepted.parity
        /\ LCRH.STP2 = (accepted.stop_bits = 2)
        /\ LCRH.FEN = TRUE
    BY <2>1, Zenon DEF LineControl
  <2> QED
    BY <2>1, <2>2, Zenon DEF FrameAsConfigured
<1> QED
  BY <1>1, InvAlways, PTL

-----------------------------------------------------------------------------
(* The divisor.                                                            *)

\* The divisor the PL011 takes over from the two registers.
Written(baud) == 64 * Integer(baud) + (Fraction(baud) % 64)

\* Where the divisor is on its way into use.
DivisorInv ==
    /\ pc \in {"line", "enable"} => IBRD = Integer(config.baudrate) /\ FBRD = Fraction(config.baudrate)
    /\ pc = "enable" => divisor = Written(config.baudrate)
    /\ ~Inside /\ accepted # NONE => divisor = Written(accepted.baudrate)
    /\ accepted # NONE => accepted \in uart_config

\* Every step keeps the divisor on its way.
LEMMA DivisorNext == IInv /\ DivisorInv /\ [Next]_vars => DivisorInv'
<1> SUFFICES ASSUME IInv, DivisorInv, [Next]_vars PROVE DivisorInv'
  OBVIOUS
<1> USE DEF DivisorInv, Inside, registers
<1>1. CASE validate
  <2>1. /\ pc = "idle" /\ UNCHANGED <<IBRD, FBRD, divisor, accepted>>
        /\ pc' \in {"idle", "disable"}
    BY <1>1, Zenon DEF validate
  <2> QED
    BY <2>1
<1>2. CASE disable \/ wait_busy
  BY <1>2 DEF disable, wait_busy
<1>3. CASE flush
  BY <1>3 DEF flush, WriteLCRH
<1>4. CASE set_divisor
  BY <1>4 DEF set_divisor
<1>5. CASE set_line
  BY <1>5 DEF set_line, WriteLCRH, Written
<1>6. CASE enable
  BY <1>6 DEF enable, IInv, Progress
<1>7. CASE uart_putchar \/ transmit_begin \/ transmit_end
  BY <1>7 DEF uart_putchar, transmit_begin, transmit_end
<1>8. CASE UNCHANGED vars
  BY <1>8 DEF vars
<1> QED
  BY <1>1, <1>2, <1>3, <1>4, <1>5, <1>6, <1>7, <1>8 DEF Next, uart_configure

\* A quotient lies between its dividend and one divisor less.
LEMMA Quotient ==
    ASSUME NEW n \in Nat, NEW d \in Nat \ {0}
    PROVE  /\ n \div d \in Nat /\ n % d \in 0 .. d - 1
           /\ n = d * (n \div d) + (n % d)
OBVIOUS

\* A quotient with a fraction rounded to 64ths is off by at most half of a 64th.
LEMMA Rounding ==
    ASSUME NEW clock \in Nat, NEW baud \in Nat \ {0}, NEW f,
           f = (128 * (clock % baud) + baud) \div (2 * baud)
    PROVE  /\ f \in 0 .. 64
           /\ 2 * (baud * (64 * (clock \div baud) + f) - 64 * clock) \in -baud .. baud
<1> DEFINE q == clock \div baud
           r == clock % baud
           n == 128 * r + baud
           e == n % (2 * baud)
<1>1. q \in Nat /\ r \in 0 .. baud - 1 /\ clock = baud * q + r
  BY Quotient
<1>2. n \in Nat /\ 2 * baud \in Nat \ {0}
  BY <1>1
<1>3. f \in Nat /\ e \in 0 .. 2 * baud - 1 /\ n = (2 * baud) * f + e
  <2>1. /\ n \div (2 * baud) \in Nat /\ n % (2 * baud) \in 0 .. 2 * baud - 1
        /\ n = (2 * baud) * (n \div (2 * baud)) + (n % (2 * baud))
    BY <1>2, Quotient, Zenon
  <2>2. f = n \div (2 * baud)
    OBVIOUS
  <2> QED
    BY <2>1, <2>2, Zenon
<1> HIDE DEF q, e, r
<1>5. baud * f \in Nat /\ n = 2 * (baud * f) + e /\ baud * q \in Nat
  BY <1>1, <1>3
<1>6. baud * (64 * q + f) = 64 * (baud * q) + baud * f
  <2>1. baud \in Nat /\ q \in Nat /\ f \in Nat
    BY <1>1, <1>3
  <2> QED
    BY <2>1
<1>7. 2 * (baud * (64 * q + f) - 64 * clock) = baud - e
  <2> DEFINE bq == baud * q
             bf == baud * f
  <2>1. bq \in Nat /\ bf \in Nat /\ clock = bq + r /\ 128 * r + baud = 2 * bf + e
        /\ baud * (64 * q + f) = 64 * bq + bf
    BY <1>1, <1>5, <1>6
  <2> HIDE DEF bq, bf
  <2>2. 2 * (64 * bq + bf - 64 * clock) = baud - e
    BY <1>1, <1>3, <2>1
  <2> QED
    BY <2>1, <2>2
<1>8. f <= 64
  <2>1. SUFFICES ASSUME f >= 65 PROVE FALSE
    BY <1>3
  <2>2. baud * f >= 65 * baud
    BY <1>3, <2>1
  <2> QED
    BY <1>1, <1>3, <1>5, <2>2
<1>9. baud - e \in -baud .. baud
  BY <1>3
<1> QED
  BY <1>3, <1>7, <1>8, <1>9 DEF q

\* The two registers together hold the nearest divisor, whatever the rate.
LEMMA WrittenIsNearest ==
    ASSUME NEW baud \in Nat \ {0}
    PROVE  /\ Fraction(baud) \in 0 .. 64
           /\ Nearest(64 * Integer(baud) + Fraction(baud), baud)
<1> DEFINE clock == 1500000
<1>1. Fraction(baud) = (128 * (clock % baud) + baud) \div (2 * baud) /\ clock \in Nat
  BY SMT DEF Fraction
<1> HIDE DEF clock
<1>2. /\ Fraction(baud) \in 0 .. 64
      /\ 2 * (baud * (64 * (clock \div baud) + Fraction(baud)) - 64 * clock) \in -baud .. baud
  BY <1>1, Rounding, Zenon
<1> QED
  BY <1>2, SMT DEF Integer, Nearest, clock

\* Between calls the divisor in use is the one nearest to the rate of the last call that
\* was accepted, for every rate, but for the whole that FBRD cannot hold.
THEOREM DivisorTheorem == Spec => []DivisorInUse
<1>1. Init => DivisorInv
  BY DEF Init, DivisorInv, Inside
<1>2. DivisorInv => DivisorInUse
  <2> SUFFICES ASSUME DivisorInv, pc = "idle", accepted # NONE
               PROVE  DivisorInUse
    BY DEF DivisorInUse
  <2> DEFINE baud == accepted.baudrate
             d == IF Fraction(baud) = 64 THEN divisor + 64 ELSE divisor
  <2>1. baud \in Nat \ {0} /\ divisor = Written(baud)
    BY UartConfigAssumption DEF DivisorInv, Inside, uart_config
  <2> HIDE DEF baud
  <2>2. Integer(baud) \in Nat
    BY <2>1 DEF Integer
  <2>3. Fraction(baud) \in 0 .. 64
    BY <2>1, WrittenIsNearest
  <2>4. d = 64 * Integer(baud) + Fraction(baud)
    <3>1. CASE Fraction(baud) = 64
      BY <2>1, <2>2, <3>1 DEF Written
    <3>2. CASE Fraction(baud) # 64
      BY <2>1, <2>2, <2>3, <3>2 DEF Written
    <3> QED
      BY <3>1, <3>2
  <2>5. Nearest(d, baud)
    BY <2>1, <2>4, WrittenIsNearest
  <2> QED
    BY <2>5 DEF DivisorInUse, baud
<1> QED
  BY <1>1, <1>2, DivisorNext, InvAlways, PTL DEF Spec

=============================================================================
