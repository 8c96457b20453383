-------------------------- MODULE DriverArithmetic --------------------------
(***************************************************************************)
(* The integer and register arithmetic of three driver calls: ptimer_init  *)
(* (the load value of a period), uart_write_uint (the digits of a number)  *)
(* and gic_enable_interrupt (the bits of an interrupt id).  One of them is *)
(* called, the last one repeatedly.  A register of 32 bits is the pair of  *)
(* its halves.                                                             *)
(***************************************************************************)
EXTENDS Integers, Sequences

CONSTANTS
    MIN_MS, MAX_MS, \* the periods passed to ptimer_init are MIN_MS .. MAX_MS
    Nums,           \* the numbers passed to uart_write_uint
    BUF_SIZE,       \* char buf[8]
    Numbers         \* the ids passed to gic_enable_interrupt

\* The ids a GIC has.
Ids == 0 .. 1019

ASSUME DriverAssumption ==
    /\ MIN_MS \in Nat /\ MAX_MS \in Nat
    /\ Nums \subseteq Nat
    /\ BUF_SIZE \in Nat \ {0}
    /\ Numbers \subseteq Ids

VARIABLES
    pc,             \* "idle"; the loop of uart_write_uint; the call that has returned
    arg,            \* the argument of ptimer_init or of uart_write_uint
    LR,             \* the timer's load register
    num, buf, i,    \* the local variables of uart_write_uint; buf as far as written
    sent,           \* the digits passed to uart_putchar
    bits,           \* the bits set in the distributor: pairs of a word's offset and a bit
    requested       \* history: the ids gic_enable_interrupt was called with

timer == <<LR>>
digits == <<num, buf, i, sent>>
gic == <<bits, requested>>
vars == <<pc, arg, timer, digits, gic>>

Half == 65536
Word(n) == <<n \div Half, n % Half>>

Init ==
    /\ pc = "idle"
    /\ arg = 0
    /\ LR = Word(0)
    /\ num = 0 /\ buf = <<>> /\ i = 0 /\ sent = <<>>
    /\ bits = {} /\ requested = {}

-----------------------------------------------------------------------------
(* ptimer_init.  refclock is 24 MHz: 24000 ticks to the millisecond.       *)

\* UINT32_MAX / refclock, both divided by 512.
max_period == 8388607 \div 46875

validate_config(millisecs) == millisecs < max_period * 1000

\* Mutant of Truncated: the seconds are divided out in integers.
Truncated_seconds(millisecs) ==
    IF millisecs < 1000
      THEN {<<Half - 1, Half - 1>>}
      ELSE {Word(24000000 * (millisecs \div 1000) - 1)}

\* (millisecs * 0.001 * refclock) - 1, converted to uint32_t.  The product of doubles
\* may be a little below the whole number (first for 145 ms), and the conversion drops
\* the fraction; that of a negative number is undefined.
Truncated(millisecs) ==
    IF millisecs = 0
      THEN {Word(0), <<Half - 1, Half - 1>>}
      ELSE {Word(24000 * millisecs - 1), Word(24000 * millisecs - 2)}

\* value *= 3, modulo 2^32.
Tripled(w) == <<(3 * w[1] + ((3 * w[2]) \div Half)) % Half, (3 * w[2]) % Half>>

\* Up to the write of LR; Interrupts has the registration and the start.
ptimer_init ==
    /\ pc = "idle"
    /\ \E millisecs \in MIN_MS .. MAX_MS :
        /\ arg' = millisecs
        /\ IF validate_config(millisecs)
             THEN pc' = "PTIMER_OK" /\ \E value \in Truncated(millisecs) : LR' = Tripled(value)
             ELSE pc' = "PTIMER_INVALID_PERIOD" /\ LR' = LR
    /\ UNCHANGED <<digits, gic>>

-----------------------------------------------------------------------------
(* uart_write_uint; place k of the C array is place k + 1 of buf.          *)

uart_write_uint(n) ==
    /\ pc = "idle"
    /\ pc' = "collect"
    /\ arg' = n
    /\ num' = n
    /\ UNCHANGED <<buf, i, sent, timer, gic>>

\* Mutant of FirstSent: the i-- before the second loop is left out.
FirstSent_next(k) == k + 1

\* i-- after i++.
FirstSent(k) == k

\* One round of the do loop.  A store outside buf is undefined behaviour.
collect ==
    /\ pc = "collect"
    /\ IF i < BUF_SIZE
         THEN /\ buf' = Append(buf, num % 10)
              /\ num' = num \div 10
              /\ i' = IF num' = 0 THEN FirstSent(i) ELSE i + 1
              /\ pc' = IF num' = 0 THEN "send" ELSE "collect"
         ELSE pc' = "undefined" /\ UNCHANGED <<buf, num, i>>
    /\ UNCHANGED <<arg, sent, timer, gic>>

\* One round of the for loop, or its end.
send ==
    /\ pc = "send"
    /\ IF i < 0 THEN pc' = "sent" /\ UNCHANGED <<i, sent>>
       ELSE IF i \notin 0 .. Len(buf) - 1 THEN pc' = "undefined" /\ UNCHANGED <<i, sent>>
       ELSE sent' = Append(sent, buf[i + 1]) /\ i' = i - 1 /\ UNCHANGED pc
    /\ UNCHANGED <<arg, num, buf, timer, gic>>

-----------------------------------------------------------------------------
(* gic_enable_interrupt, through the packed struct                         *)
(* gic_distributor_registers: one field and its length in words after the  *)
(* other.                                                                  *)

Layout == <<
    <<"DCTLR", 1>>, <<"DTYPER", 1>>, <<"DIIDR", 1>>, <<"_reserved0", 29>>,
    <<"DIGROUPR", 32>>, <<"DISENABLER", 32>>, <<"DICENABLER", 32>>,
    <<"DISPENDR", 32>>, <<"DICPENDR", 32>>, <<"DICDABR", 32>>, <<"_reserved1", 32>>,
    <<"DIPRIORITY", 255>>, <<"_reserved2", 1>>, <<"DITARGETSRO", 8>>,
    <<"DITARGETSR", 246>>, <<"_reserved3", 1>>, <<"DICFGR", 64>> >>

Field(name) == CHOOSE k \in DOMAIN Layout : Layout[k][1] = name

\* The words of the first k fields.
Words[k \in 0 .. Len(Layout)] == IF k = 0 THEN 0 ELSE Words[k - 1] + Layout[k][2]

\* The offset of a field: four bytes for every word before it.
Offset(name) == 4 * Words[Field(name) - 1]

\* Mutant of EnableBit: the register of the byte, not of the bit.
EnableBit_of_byte(number) == <<Offset("DISENABLER") + 4 * (number \div 4), number % 32>>

\* Bit number % 32 of DISENABLER[number / 32].
EnableBit(number) == <<Offset("DISENABLER") + 4 * (number \div 32), number % 32>>

\* Bit 0 of byte number % 4 of DITARGETSR[number / 4], the index in a uint8_t.
TargetBit(number) ==
    <<Offset("DITARGETSR") + 4 * ((number \div 4) % 256), 8 * (number % 4)>>

\* Two words are read, given one more bit and written back.
gic_enable_interrupt(number) ==
    /\ pc \in {"idle", "enabled"}
    /\ pc' = "enabled"
    /\ bits' = bits \cup {EnableBit(number), TargetBit(number)}
    /\ requested' = requested \cup {number}
    /\ UNCHANGED <<arg, timer, digits>>

Next ==
    \/ ptimer_init
    \/ \E n \in Nums : uart_write_uint(n)
    \/ collect
    \/ send
    \/ \E number \in Numbers : gic_enable_interrupt(number)

Spec == Init /\ [][Next]_vars

-----------------------------------------------------------------------------
(* The distributor's registers as the GIC reads them: GICD_ISENABLERn at   *)
(* 0x100 with a bit for each id, GICD_ICENABLERn after it, GICD_ITARGETSRn *)
(* at 0x800 with a byte for each id, whose bit 0 is CPU 0.                 *)

Enabled == {id \in Ids : <<256 + 4 * (id \div 32), id % 32>> \in bits}
Disabled == {id \in Ids : <<384 + 4 * (id \div 32), id % 32>> \in bits}
Targeted == {id \in Ids : <<2048 + 4 * (id \div 4), 8 * (id % 4)>> \in bits}

-----------------------------------------------------------------------------
(* Properties.                                                             *)

\* A register in units of 64 ticks: the factors of two in 72000 ticks, three times a
\* millisecond, leave 1125 of them.
Units(w) == 1024 * w[1] + w[2] \div 64

\* The timer expires every LR + 1 ticks, and that is three times the period asked for,
\* less the 2 ticks by which the subtraction comes before the multiplication, and 3
\* more where the conversion has dropped one.
RunsPeriod == Units(LR) = 1125 * arg - 1 /\ LR[2] % 64 \in {58, 61}

\* The milliseconds that three times over have at most 2^32 ticks.
MAX_MILLIS == 67108864 \div 1125

\* Of the periods that ptimer_init accepts, the timer runs with those from 1 to
\* MAX_MILLIS, 59652, and with no other: a period of 0 and everything from 59653 on is
\* loaded as a different one, with PTIMER_OK.  validate_config, which is there for the
\* periods that do not fit, turns away none that a uint16_t can express.
PeriodLoaded ==
    /\ pc = "PTIMER_OK" => (RunsPeriod <=> arg \in 1 .. MAX_MILLIS)
    /\ pc = "PTIMER_INVALID_PERIOD" => arg > 65535

\* The number that s is the decimal notation of.
Value(s) ==
    LET value[n \in 0 .. Len(s)] == IF n = 0 THEN 0 ELSE 10 * value[n - 1] + s[n]
    IN  value[Len(s)]

\* The powers of ten.
TenTo[n \in 0 .. BUF_SIZE] == IF n = 0 THEN 1 ELSE 10 * TenTo[n - 1]

\* uart_write_uint sends the decimal digits of its argument and no leading zero,
\* and leaves its buffer only when they are more than BUF_SIZE.
PrintsDecimal ==
    /\ pc = "sent" =>
         /\ Value(sent) = arg
         /\ Len(sent) > 1 => sent[1] # 0
    /\ pc = "undefined" => arg >= TenTo[BUF_SIZE]

\* What doc/08_scheduling.md says of uart_write_uint, "a quick way to output unsigned
\* numbers like systime": a number is printed, whatever it is, and nothing outside buf
\* is written on the way.
PrintsEveryNumber == pc # "undefined" /\ (pc = "sent" => Value(sent) = arg)

\* The enable registers hold the requested ids and no other, and no target bit has
\* fallen into them or disabled anything, in whatever order the ids are enabled.
EnabledExactly == pc = "enabled" => Enabled = requested /\ Disabled = {}

\* What the comment in gic_enable_interrupt says: an enabled interrupt is
\* forwarded to CPU interface 0.  The ids below 32 are private to each CPU and
\* need no target.
ForwardedToCpu0 == requested \ (0 .. 31) \subseteq Targeted

=============================================================================
