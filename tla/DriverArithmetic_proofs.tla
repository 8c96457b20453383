---------------------- MODULE DriverArithmetic_proofs ----------------------
(***************************************************************************)
(* Proofs about DriverArithmetic, for every period, every number, every    *)
(* size of the buffer and every set of interrupt ids.                      *)
(***************************************************************************)
EXTENDS DriverArithmetic, Recursion, TLAPS

-----------------------------------------------------------------------------
(* ptimer_init.                                                            *)

\* What is in LR once ptimer_init has succeeded, and why it has not.
LoadInv ==
    /\ pc = "PTIMER_OK" => arg \in Nat /\ \E value \in Truncated(arg) : LR = Tripled(value)
    /\ pc = "PTIMER_INVALID_PERIOD" => arg \in Nat /\ ~validate_config(arg)

\* A number that 32 bits hold.
Fits(n) == n <= 4294967295

\* The register w holds n, as so many units of 64 ticks and a rest.
Holds(w, n) ==
    /\ Units(w) \in Nat
    /\ w[2] % 64 \in Nat /\ w[2] % 64 <= 63
    /\ 64 * Units(w) + (w[2] % 64) = n

\* A register of two halves holds what they make up, and has less than 2^26 units.
LEMMA UnitsOf ==
    ASSUME NEW h \in Nat, NEW l \in Nat, h <= 65535, l <= 65535
    PROVE  Holds(<<h, l>>, 65536 * h + l) /\ Units(<<h, l>>) <= 67108863
<1> DEFINE q == l \div 64
           r == l % 64
<1>1. q \in Nat /\ r \in Nat /\ r <= 63 /\ l = 64 * q + r
  BY SMT
<1>2. Units(<<h, l>>) = 1024 * h + q
  BY SMT DEF Units
<1>3. <<h, l>>[2] % 64 = r
  BY SMT
<1> HIDE DEF q, r
<1>4. q <= 1023
  BY <1>1, SMT
<1> QED
  BY <1>1, <1>2, <1>3, <1>4, SMT DEF Holds

\* A number below a third of 2^32 is tripled in two halves without a loss.
LEMMA TripledExact ==
    ASSUME NEW v \in Nat, Fits(3 * v)
    PROVE  Holds(Tripled(Word(v)), 3 * v)
<1> DEFINE h == v \div 65536
           l == v % 65536
           carry == (3 * l) \div 65536
           low == (3 * l) % 65536
<1>1. h \in Nat /\ l \in Nat /\ l <= 65535 /\ v = 65536 * h + l
  BY SMT
<1> HIDE DEF h, l
<1>2. carry \in Nat /\ low \in Nat /\ low <= 65535 /\ 3 * l = 65536 * carry + low
  BY <1>1, SMT
<1> HIDE DEF carry, low
<1>3. carry <= 2 /\ 3 * h + carry \in Nat /\ 3 * h + carry <= 65535
  BY <1>1, <1>2, SMT DEF Fits
<1>4. (3 * h + carry) % 65536 = 3 * h + carry
  BY <1>1, <1>2, <1>3, SMT
<1>5. Word(v) = <<h, l>>
  BY SMT DEF Word, Half, h, l
<1>6. Tripled(Word(v)) = <<3 * h + carry, low>>
  BY <1>4, <1>5, SMT DEF Tripled, Half, carry, low
<1>7. Holds(<<3 * h + carry, low>>, 65536 * (3 * h + carry) + low)
  BY <1>2, <1>3, UnitsOf
<1>8. 65536 * (3 * h + carry) + low = 3 * v
  BY <1>1, <1>2, SMT
<1> QED
  BY <1>6, <1>7, <1>8

\* Whatever is tripled, the result is a register.
LEMMA TripledFits ==
    ASSUME NEW h \in Nat, NEW l \in Nat
    PROVE  Units(Tripled(<<h, l>>)) \in Nat /\ Units(Tripled(<<h, l>>)) <= 67108863
<1> DEFINE high == (3 * h + ((3 * l) \div 65536)) % 65536
           low == (3 * l) % 65536
<1>1. high \in Nat /\ high <= 65535 /\ low \in Nat /\ low <= 65535
  BY SMT
<1>2. Tripled(<<h, l>>) = <<high, low>>
  BY SMT DEF Tripled, Half
<1> HIDE DEF high, low
<1> QED
  BY <1>1, <1>2, UnitsOf, SMT DEF Holds

\* The same of whatever ptimer_init triples.
LEMMA TruncatedFits ==
    ASSUME NEW millisecs \in Nat, NEW value \in Truncated(millisecs)
    PROVE  Units(Tripled(value)) \in Nat /\ Units(Tripled(value)) <= 67108863
<1>1. \A v \in Nat : v \div 65536 \in Nat /\ v % 65536 \in Nat
  BY SMT
<1>2. CASE millisecs = 0
  <2>1. value = Word(0) \/ value = <<65535, 65535>>
    BY <1>2, SMT DEF Truncated, Half
  <2>2. CASE value = Word(0)
    BY <1>1, <2>2, TripledFits, SMT DEF Word, Half
  <2>3. CASE value = <<65535, 65535>>
    BY <2>3, TripledFits, SMT
  <2> QED
    BY <2>1, <2>2, <2>3
<1>3. CASE millisecs # 0
  <2>1. PICK v \in {24000 * millisecs - 1, 24000 * millisecs - 2} : value = Word(v)
    BY <1>3, SMT DEF Truncated
  <2>2. v \in Nat
    BY <1>3, <2>1, SMT
  <2> QED
    BY <1>1, <2>1, <2>2, TripledFits, SMT DEF Word, Half
<1> QED
  BY <1>2, <1>3

\* The timer runs with every accepted period from 1 to MAX_MILLIS and with no other, and
\* what validate_config turns away is not a uint16_t, for every range of periods.
THEOREM LoadTheorem == Spec => []PeriodLoaded
<1>1. Init => LoadInv
  BY Zenon DEF Init, LoadInv
<1>2. LoadInv /\ [Next]_vars => LoadInv'
  <2> SUFFICES ASSUME LoadInv, [Next]_vars
               PROVE  LoadInv'
    OBVIOUS
  <2>1. CASE ptimer_init
    <3>1. PICK millisecs \in MIN_MS .. MAX_MS :
            /\ arg' = millisecs
            /\ IF validate_config(millisecs)
                 THEN pc' = "PTIMER_OK" /\ \E value \in Truncated(millisecs) : LR' = Tripled(value)
                 ELSE pc' = "PTIMER_INVALID_PERIOD" /\ LR' = LR
      BY <2>1, Zenon DEF ptimer_init
    <3>2. millisecs \in Nat
      BY DriverAssumption, SMT
    <3> QED
      BY <3>1, <3>2, Zenon DEF LoadInv
  <2>2. CASE Next /\ ~ptimer_init
    BY <2>2, Zenon DEF LoadInv, Next, uart_write_uint, collect, send, gic_enable_interrupt
  <2>3. CASE UNCHANGED vars
    BY <2>3, Zenon DEF LoadInv, vars, timer
  <2> QED
    BY <2>1, <2>2, <2>3, Zenon
<1>3. MAX_MILLIS = 59652
  BY SMT DEF MAX_MILLIS
<1>4. LoadInv => PeriodLoaded
  <2> SUFFICES ASSUME LoadInv
               PROVE  /\ pc = "PTIMER_OK" => (RunsPeriod <=> arg \in 1 .. MAX_MILLIS)
                      /\ pc = "PTIMER_INVALID_PERIOD" => arg > 65535
    BY DEF PeriodLoaded
  <2>1. ASSUME pc = "PTIMER_INVALID_PERIOD"
        PROVE  arg > 65535
    <3>1. arg \in Nat /\ ~validate_config(arg)
      BY <2>1, Zenon DEF LoadInv
    <3>2. max_period = 178
      BY SMT DEF max_period
    <3> QED
      BY <3>1, <3>2, SMT DEF validate_config
  <2>2. ASSUME pc = "PTIMER_OK"
        PROVE  RunsPeriod <=> arg \in 1 .. MAX_MILLIS
    <3>1. arg \in Nat
      BY <2>2, Zenon DEF LoadInv
    <3>2. PICK value \in Truncated(arg) : LR = Tripled(value)
      BY <2>2, Zenon DEF LoadInv
    <3>3. ASSUME arg # 0, arg <= MAX_MILLIS
          PROVE  RunsPeriod
      <4>1. PICK v \in {24000 * arg - 1, 24000 * arg - 2} : value = Word(v)
        BY <3>1, <3>2, <3>3, SMT DEF Truncated
      <4>2. v \in Nat /\ Fits(3 * v)
        BY <1>3, <3>1, <3>3, <4>1, SMT DEF Fits
      <4>3. Holds(LR, 3 * v)
        BY <3>2, <4>1, <4>2, TripledExact
      <4>4. Units(LR) = 1125 * arg - 1 /\ (LR[2] % 64 = 58 \/ LR[2] % 64 = 61)
        BY <3>1, <3>3, <4>1, <4>3, SMT DEF Holds
      <4> QED
        BY <4>4, SMT DEF RunsPeriod
    <3>4. ASSUME ~(arg # 0 /\ arg <= MAX_MILLIS)
          PROVE  ~RunsPeriod
      <4>1. Units(LR) \in Nat /\ Units(LR) <= 67108863
        BY <3>1, <3>2, TruncatedFits, SMT
      <4>2. Units(LR) # 1125 * arg - 1
        BY <1>3, <3>1, <3>4, <4>1, SMT
      <4> QED
        BY <4>2, SMT DEF RunsPeriod
    <3> QED
      <4>1. \A m, n \in Nat : n \in 1 .. m <=> n # 0 /\ n <= m
        BY SMT
      <4>2. MAX_MILLIS \in Nat
        BY <1>3, SMT
      <4> QED
        BY <3>1, <3>3, <3>4, <4>1, <4>2, Zenon
  <2> QED
    BY <2>1, <2>2
<1> QED
  BY <1>1, <1>2, <1>4, PTL DEF Spec

-----------------------------------------------------------------------------
(* gic_enable_interrupt.                                                   *)

\* The fields of the distributor, and where the two that are written stand.
LEMMA Fields ==
    /\ Len(Layout) = 17
    /\ Field("DISENABLER") = 6
    /\ Field("DITARGETSR") = 15
<1>1. DOMAIN Layout = 1 .. 17 /\ Len(Layout) = 17
  BY DEF Layout
<1>2. \A k \in 1 .. 17 : Layout[k][1] = "DISENABLER" <=> k = 6
  BY DEF Layout
<1>3. \A k \in 1 .. 17 : Layout[k][1] = "DITARGETSR" <=> k = 15
  BY DEF Layout
<1> QED
  BY <1>1, <1>2, <1>3 DEF Field

\* Words is defined: its recursion has a solution.
LEMMA WordsRecursion ==
    /\ Words[0] = 0
    /\ \A k \in 1 .. 17 : Words[k] = Words[k - 1] + Layout[k][2]
<1> DEFINE Solves(f) == f = [k \in 0 .. Len(Layout) |-> IF k = 0 THEN 0 ELSE f[k - 1] + Layout[k][2]]
           G == [p \in (1 .. 17) \X Nat |-> p[2] + Layout[p[1]][2]]
<1>1. Len(Layout) = 17 /\ \A k \in 1 .. 17 : Layout[k][2] \in Nat
  BY DEF Layout
<1>2. G \in [(1 .. 17) \X Nat -> Nat]
  BY <1>1
<1>3. \A k \in 1 .. 17, v \in Nat : G[<<k, v>>] = v + Layout[k][2]
  OBVIOUS
<1> HIDE DEF G
<1>4. PICK f : Follows(f, Nat, 0, 17, G)
  BY <1>2, RecursiveFunction
<1>5. Solves(f)
  <2>1. f \in [0 .. 17 -> Nat] /\ f[0] = 0 /\ \A k \in 1 .. 17 : f[k] = G[<<k, f[k - 1]>>]
    BY <1>4 DEF Follows
  <2>2. \A k \in 1 .. 17 : f[k - 1] \in Nat
    BY <2>1
  <2>3. \A k \in 1 .. 17 : f[k] = f[k - 1] + Layout[k][2]
    BY <1>3, <2>1, <2>2, Zenon
  <2> QED
    BY <1>1, <2>1, <2>3
<1>6. Solves(Words)
  BY <1>5 DEF Words
<1> QED
  BY <1>1, <1>6

\* The offsets of the two fields: the targets are written 32 bytes past 0x800.
LEMMA Offsets ==
    /\ Offset("DISENABLER") = 256
    /\ Offset("DITARGETSR") = 2080
<1>1. Words[5] = 64
  <2>1. Words[1] = 1
    BY WordsRecursion DEF Layout
  <2>2. Words[2] = 2
    BY <2>1, WordsRecursion DEF Layout
  <2>3. Words[3] = 3
    BY <2>2, WordsRecursion DEF Layout
  <2>4. Words[4] = 32
    BY <2>3, WordsRecursion DEF Layout
  <2> QED
    BY <2>4, WordsRecursion DEF Layout
<1>2. Words[11] = 256
  <2>1. Words[6] = 96
    BY <1>1, WordsRecursion DEF Layout
  <2>2. Words[7] = 128
    BY <2>1, WordsRecursion DEF Layout
  <2>3. Words[8] = 160
    BY <2>2, WordsRecursion DEF Layout
  <2>4. Words[9] = 192
    BY <2>3, WordsRecursion DEF Layout
  <2>5. Words[10] = 224
    BY <2>4, WordsRecursion DEF Layout
  <2> QED
    BY <2>5, WordsRecursion DEF Layout
<1>3. Words[14] = 520
  <2>1. Words[12] = 511
    BY <1>2, WordsRecursion DEF Layout
  <2>2. Words[13] = 512
    BY <2>1, WordsRecursion DEF Layout
  <2> QED
    BY <2>2, WordsRecursion DEF Layout
<1> QED
  BY <1>1, <1>3, Fields DEF Offset

\* The bits of the distributor are those of the ids that were requested.
GicInv ==
    /\ requested \subseteq Ids
    /\ \A b : b \in bits <=> \E n \in requested : b = EnableBit(n) \/ b = TargetBit(n)

\* A register and a bit of it are those of one id, and a target bit is in no enable
\* register.
LEMMA OneBit ==
    ASSUME NEW id \in Ids, NEW n \in Ids
    PROVE  /\ <<256 + 4 * (id \div 32), id % 32>> = EnableBit(n) <=> id = n
           /\ <<384 + 4 * (id \div 32), id % 32>> # EnableBit(n)
           /\ <<256 + 4 * (id \div 32), id % 32>> # TargetBit(n)
           /\ <<384 + 4 * (id \div 32), id % 32>> # TargetBit(n)
<1>1. /\ id \in Nat /\ id <= 1019 /\ n \in Nat /\ n <= 1019
  BY DEF Ids
<1> DEFINE q == id \div 32
           r == id % 32
           qn == n \div 32
           rn == n % 32
           t == (n \div 4) % 256
<1>2. q \in Nat /\ r \in Nat /\ id = 32 * q + r /\ r <= 31 /\ q <= 31
  BY <1>1
<1>3. qn \in Nat /\ rn \in Nat /\ n = 32 * qn + rn /\ rn <= 31 /\ qn <= 31
  BY <1>1
<1>4. t \in Nat
  BY <1>1
<1>5. EnableBit(n) = <<256 + 4 * qn, rn>> /\ TargetBit(n) = <<2080 + 4 * t, 8 * (n % 4)>>
  BY Offsets DEF EnableBit, TargetBit
<1>6. id = n => q = qn /\ r = rn
  OBVIOUS
<1> HIDE DEF q, r, qn, rn, t
<1>7. q = qn /\ r = rn => id = n
  BY <1>2, <1>3
<1>8. 256 + 4 * q = 256 + 4 * qn => q = qn
  BY <1>2, <1>3
<1>9. 384 + 4 * q # 256 + 4 * qn
  BY <1>2, <1>3
<1>10. 256 + 4 * q # 2080 + 4 * t /\ 384 + 4 * q # 2080 + 4 * t
  BY <1>2, <1>4
<1>11. /\ <<256 + 4 * q, r>> = EnableBit(n) <=> id = n
       /\ <<384 + 4 * q, r>> # EnableBit(n)
       /\ <<256 + 4 * q, r>> # TargetBit(n)
       /\ <<384 + 4 * q, r>> # TargetBit(n)
  BY <1>5, <1>6, <1>7, <1>8, <1>9, <1>10
<1> QED
  BY <1>11 DEF q, r

\* Every call adds the two bits of its id.
LEMMA GicAlways == Spec => []GicInv
<1>1. Init => GicInv
  BY DEF Init, GicInv
<1>2. GicInv /\ [Next]_vars => GicInv'
  <2> SUFFICES ASSUME GicInv, [Next]_vars PROVE GicInv'
    OBVIOUS
  <2>1. ASSUME NEW number \in Numbers, gic_enable_interrupt(number)
        PROVE  GicInv'
    <3>1. requested' \subseteq Ids
      BY <2>1, DriverAssumption DEF GicInv, gic_enable_interrupt
    <3>2. ASSUME NEW b
          PROVE  b \in bits' <=> \E n \in requested' : b = EnableBit(n) \/ b = TargetBit(n)
      BY <2>1, Zenon DEF GicInv, gic_enable_interrupt
    <3> QED
      BY <3>1, <3>2, Zenon DEF GicInv, EnableBit, TargetBit
  <2>2. CASE UNCHANGED gic
    BY <2>2, Zenon DEF GicInv, gic, EnableBit, TargetBit
  <2> QED
    BY <2>1, <2>2, Zenon DEF Next, ptimer_init, uart_write_uint, collect, send, vars
<1> QED
  BY <1>1, <1>2, PTL DEF Spec

\* gic_enable_interrupt enables the ids it is called with and no other, and disables none,
\* for any set of ids and in any order.
THEOREM EnabledTheorem == Spec => []EnabledExactly
<1>1. GicInv => EnabledExactly
  <2> SUFFICES ASSUME GicInv PROVE Enabled = requested /\ Disabled = {}
    BY DEF EnabledExactly
  <2>1. ASSUME NEW id \in Ids
        PROVE  /\ id \in Enabled <=> id \in requested
               /\ id \notin Disabled
    <3>1. \A n \in requested : n \in Ids
      BY DEF GicInv
    <3>2. <<256 + 4 * (id \div 32), id % 32>> \in bits <=> id \in requested
      BY <3>1, OneBit DEF GicInv
    <3>3. <<384 + 4 * (id \div 32), id % 32>> \notin bits
      BY <3>1, OneBit DEF GicInv
    <3> QED
      BY <3>2, <3>3 DEF Enabled, Disabled
  <2>2. Enabled \subseteq Ids /\ Disabled \subseteq Ids /\ requested \subseteq Ids
    BY DEF Enabled, Disabled, GicInv
  <2> QED
    BY <2>1, <2>2, Zenon
<1> QED
  BY <1>1, GicAlways, PTL

\* The ids that gic_enable_interrupt has really given a target.
TargetsShifted == Targeted = {id \in Ids : id - 32 \in requested}

\* A byte of the target registers is that of the id 32 below.
LEMMA OneTarget ==
    ASSUME NEW id \in Ids, NEW n \in Ids
    PROVE  /\ <<2048 + 4 * (id \div 4), 8 * (id % 4)>> = TargetBit(n) <=> id - 32 = n
           /\ <<2048 + 4 * (id \div 4), 8 * (id % 4)>> # EnableBit(n)
<1>1. id \in Nat /\ id <= 1019 /\ n \in Nat /\ n <= 1019
  BY DEF Ids
<1> DEFINE q == id \div 4
           r == id % 4
           qn == n \div 4
           rn == n % 4
           t == n \div 32
<1>2. q \in Nat /\ r \in Nat /\ id = 4 * q + r /\ r <= 3
  BY <1>1
<1>3. qn \in Nat /\ rn \in Nat /\ n = 4 * qn + rn /\ rn <= 3 /\ qn <= 255
  BY <1>1
<1>4. t \in Nat /\ t <= 31 /\ qn % 256 = qn
  BY <1>1, <1>3
<1>5. EnableBit(n) = <<256 + 4 * t, n % 32>> /\ TargetBit(n) = <<2080 + 4 * qn, 8 * rn>>
  BY <1>4, Offsets DEF EnableBit, TargetBit
<1> HIDE DEF q, r, qn, rn, t
<1>6. (2048 + 4 * q = 2080 + 4 * qn /\ 8 * r = 8 * rn) <=> id - 32 = n
  BY <1>1, <1>2, <1>3
<1>7. 2048 + 4 * q # 256 + 4 * t
  BY <1>2, <1>4
<1>8. /\ <<2048 + 4 * q, 8 * r>> = TargetBit(n) <=> id - 32 = n
      /\ <<2048 + 4 * q, 8 * r>> # EnableBit(n)
  BY <1>5, <1>6, <1>7
<1> QED
  BY <1>8 DEF q, r

\* The target that gic_enable_interrupt sets is always that of the interrupt 32 ids on:
\* what the run gic_targets shows for one id holds for all of them.
THEOREM TargetsTheorem == Spec => []TargetsShifted
<1>1. GicInv => TargetsShifted
  <2> SUFFICES ASSUME GicInv PROVE Targeted = {id \in Ids : id - 32 \in requested}
    BY DEF TargetsShifted
  <2>1. \A n \in requested : n \in Ids
    BY DEF GicInv
  <2>2. ASSUME NEW id \in Ids
        PROVE  <<2048 + 4 * (id \div 4), 8 * (id % 4)>> \in bits <=> id - 32 \in requested
    BY <2>1, OneTarget DEF GicInv
  <2>3. ASSUME NEW id \in Ids
        PROVE  id \in Targeted <=> id - 32 \in requested
    BY <2>2 DEF Targeted
  <2>4. Targeted \subseteq Ids
    BY DEF Targeted
  <2> QED
    BY <2>3, <2>4
<1> QED
  BY <1>1, GicAlways, PTL

-----------------------------------------------------------------------------
(* uart_write_uint.                                                        *)

\* What is left of a after each division by ten.
Tenth == [p \in (1 .. BUF_SIZE) \X Nat |-> p[2] \div 10]
Quotients(a) == CHOOSE f : Follows(f, Nat, a, BUF_SIZE, Tenth)

\* Each quotient is the one before divided by ten.
LEMMA QuotientsRecursion ==
    ASSUME NEW a \in Nat
    PROVE  /\ \A k \in 0 .. BUF_SIZE : Quotients(a)[k] \in Nat
           /\ Quotients(a)[0] = a
           /\ \A k \in 1 .. BUF_SIZE : Quotients(a)[k] = Quotients(a)[k - 1] \div 10
<1>1. \A v \in Nat : v \div 10 \in Nat
  OBVIOUS
<1>2. Tenth \in [(1 .. BUF_SIZE) \X Nat -> Nat]
  BY <1>1 DEF Tenth
<1>3. \A k \in 1 .. BUF_SIZE, v \in Nat : Tenth[<<k, v>>] = v \div 10
  BY DEF Tenth
<1>4. \E f : Follows(f, Nat, a, BUF_SIZE, Tenth)
  BY <1>2, DriverAssumption, RecursiveFunction
<1>5. Follows(Quotients(a), Nat, a, BUF_SIZE, Tenth)
  BY <1>4, Zenon DEF Quotients
<1> DEFINE q == Quotients(a)
<1> HIDE DEF q
<1>6. /\ q \in [0 .. BUF_SIZE -> Nat] /\ q[0] = a
      /\ \A k \in 1 .. BUF_SIZE : q[k] = Tenth[<<k, q[k - 1]>>]
  BY <1>5, Zenon DEF Follows, q
<1>7. \A k \in 1 .. BUF_SIZE : q[k - 1] \in Nat
  BY <1>6, DriverAssumption
<1>8. \A k \in 1 .. BUF_SIZE : q[k] = q[k - 1] \div 10
  BY <1>3, <1>6, <1>7, Zenon
<1> QED
  BY <1>6, <1>8 DEF q

\* TenTo is defined: its recursion has a solution.
LEMMA TenToRecursion ==
    /\ TenTo[0] = 1
    /\ \A n \in 1 .. BUF_SIZE : TenTo[n] = 10 * TenTo[n - 1]
<1> DEFINE Solves(f) == f = [n \in 0 .. BUF_SIZE |-> IF n = 0 THEN 1 ELSE 10 * f[n - 1]]
           G == [p \in (1 .. BUF_SIZE) \X Nat |-> 10 * p[2]]
<1>1. G \in [(1 .. BUF_SIZE) \X Nat -> Nat]
  OBVIOUS
<1>2. \A n \in 1 .. BUF_SIZE, v \in Nat : G[<<n, v>>] = 10 * v
  OBVIOUS
<1> HIDE DEF G
<1>3. PICK f : Follows(f, Nat, 1, BUF_SIZE, G)
  BY <1>1, DriverAssumption, RecursiveFunction
<1>4. Solves(f)
  <2>1. f \in [0 .. BUF_SIZE -> Nat] /\ f[0] = 1 /\ \A n \in 1 .. BUF_SIZE : f[n] = G[<<n, f[n - 1]>>]
    BY <1>3 DEF Follows
  <2>2. \A n \in 1 .. BUF_SIZE : f[n - 1] \in Nat
    BY <2>1, DriverAssumption
  <2>3. \A n \in 1 .. BUF_SIZE : f[n] = 10 * f[n - 1]
    BY <1>2, <2>1, <2>2, Zenon
  <2> QED
    BY <2>1, <2>3, DriverAssumption
<1>5. Solves(TenTo)
  BY <1>4 DEF TenTo
<1> QED
  BY <1>5, DriverAssumption

\* A number that BUF_SIZE divisions by ten leave something of has more digits than that.
LEMMA QuotientDigits ==
    ASSUME NEW a \in Nat, Quotients(a)[BUF_SIZE] # 0
    PROVE  a >= TenTo[BUF_SIZE]
<1> DEFINE q == Quotients(a)
           T == {n \in Nat : n <= BUF_SIZE => TenTo[n] \in Nat /\ TenTo[n] * q[n] <= a}
<1>1. /\ q[0] = a /\ \A k \in 0 .. BUF_SIZE : q[k] \in Nat
      /\ \A k \in 1 .. BUF_SIZE : q[k] = q[k - 1] \div 10
  BY QuotientsRecursion
<1> HIDE DEF q
<1>2. 0 \in T
  BY <1>1, TenToRecursion
<1>3. ASSUME NEW n \in Nat, n \in T
      PROVE  n + 1 \in T
  <2> SUFFICES ASSUME n + 1 <= BUF_SIZE
               PROVE  TenTo[n + 1] \in Nat /\ TenTo[n + 1] * q[n + 1] <= a
    OBVIOUS
  <2>1. n \in 0 .. BUF_SIZE /\ n + 1 \in 1 .. BUF_SIZE /\ n + 1 \in 0 .. BUF_SIZE /\ (n + 1) - 1 = n
    BY DriverAssumption
  <2>2. TenTo[n] \in Nat /\ TenTo[n] * q[n] <= a
    BY <1>3, <2>1, DriverAssumption
  <2>3. TenTo[n + 1] = 10 * TenTo[n]
    BY <2>1, TenToRecursion
  <2>4. q[n] \in Nat /\ q[n + 1] \in Nat /\ q[n + 1] = q[n] \div 10
    BY <1>1, <2>1
  <2>5. \A t, x, y \in Nat : y = x \div 10 => (10 * t) * y <= t * x
    <3>1. \A x, y \in Nat : y = x \div 10 => 10 * y <= x
      OBVIOUS
    <3>2. \A t, x, z \in Nat : z <= x => t * z <= t * x
      OBVIOUS
    <3>3. \A t, y \in Nat : (10 * t) * y = t * (10 * y) /\ 10 * y \in Nat
      OBVIOUS
    <3> QED
      BY <3>1, <3>2, <3>3
  <2>6. (10 * TenTo[n]) * q[n + 1] <= TenTo[n] * q[n]
    BY <2>2, <2>4, <2>5
  <2>7. 10 * TenTo[n] \in Nat /\ (10 * TenTo[n]) * q[n + 1] \in Nat /\ TenTo[n] * q[n] \in Nat
    BY <2>2, <2>4
  <2> QED
    BY <2>2, <2>3, <2>6, <2>7
<1>4. Nat \subseteq T
  <2> HIDE DEF T
  <2> QED
    BY <1>2, <1>3, Induction
<1>5. TenTo[BUF_SIZE] \in Nat /\ TenTo[BUF_SIZE] * q[BUF_SIZE] <= a /\ q[BUF_SIZE] \in Nat /\ q[BUF_SIZE] # 0
  BY <1>1, <1>4, DriverAssumption DEF q
<1>6. \A t, x \in Nat : x # 0 /\ t * x <= a => t <= a
  <2>1. \A t, x \in Nat : x # 0 => t <= t * x /\ t * x \in Nat
    OBVIOUS
  <2> QED
    BY <2>1
<1> QED
  BY <1>5, <1>6

\* Value is defined: its recursion has a solution, over the whole sequence.
LEMMA ValueRecursion ==
    ASSUME NEW s \in Seq(Nat)
    PROVE  \E f : /\ f[0] = 0
                  /\ \A n \in 1 .. Len(s) : f[n] = 10 * f[n - 1] + s[n]
                  /\ Value(s) = f[Len(s)]
<1> DEFINE N == Len(s)
           Solves(f) == f = [n \in 0 .. N |-> IF n = 0 THEN 0 ELSE 10 * f[n - 1] + s[n]]
           G == [p \in (1 .. N) \X Nat |-> 10 * p[2] + s[p[1]]]
<1>1. N \in Nat /\ \A n \in 1 .. N : s[n] \in Nat
  OBVIOUS
<1>2. G \in [(1 .. N) \X Nat -> Nat]
  BY <1>1
<1>3. \A n \in 1 .. N, v \in Nat : G[<<n, v>>] = 10 * v + s[n]
  OBVIOUS
<1> HIDE DEF G
<1>4. PICK f : Follows(f, Nat, 0, N, G)
  BY <1>1, <1>2, RecursiveFunction
<1>5. Solves(f)
  <2>1. f \in [0 .. N -> Nat] /\ f[0] = 0 /\ \A n \in 1 .. N : f[n] = G[<<n, f[n - 1]>>]
    BY <1>4, Zenon DEF Follows
  <2>2. ASSUME NEW n \in 1 .. N
        PROVE  f[n - 1] \in Nat
    <3>1. n - 1 \in 0 .. N
      BY <1>1
    <3> QED
      BY <2>1, <3>1, Zenon
  <2>3. \A n \in 1 .. N : f[n] = 10 * f[n - 1] + s[n]
    BY <1>3, <2>1, <2>2, Zenon
  <2> QED
    BY <1>1, <2>1, <2>3
<1> DEFINE h == CHOOSE g : Solves(g)
<1>6. Solves(h)
  BY <1>5
<1>7. Value(s) = h[N]
  BY DEF Value
<1> HIDE DEF h
<1> DEFINE e(n) == IF n = 0 THEN 0 ELSE 10 * h[n - 1] + s[n]
<1>8. \A n \in 0 .. N : h[n] = e(n)
  <2>1. h = [n \in 0 .. N |-> e(n)]
    BY <1>6, Zenon
  <2> HIDE DEF e
  <2> QED
    BY <2>1, Zenon
<1>9. h[0] = 0
  BY <1>1, <1>8
<1>10. ASSUME NEW n \in 1 .. N
       PROVE  h[n] = 10 * h[n - 1] + s[n]
  <2>1. n \in 0 .. N /\ n # 0
    BY <1>1
  <2> QED
    BY <1>8, <2>1, Zenon
<1> QED
  BY <1>7, <1>9, <1>10, Zenon

\* One more digit is ten times the value and the digit.
LEMMA ValueAppend ==
    /\ \A s \in Seq(Nat) : Len(s) = 0 => Value(s) = 0
    /\ \A s \in Seq(Nat), d \in Nat : Value(Append(s, d)) = 10 * Value(s) + d
<1>1. ASSUME NEW s \in Seq(Nat), Len(s) = 0
      PROVE  Value(s) = 0
  BY <1>1, ValueRecursion
<1>2. ASSUME NEW s \in Seq(Nat), NEW d \in Nat
      PROVE  Value(Append(s, d)) = 10 * Value(s) + d
  <2> DEFINE t == Append(s, d)
  <2>1. /\ t \in Seq(Nat) /\ Len(s) \in Nat /\ Len(t) = Len(s) + 1 /\ t[Len(t)] = d
        /\ \A n \in 1 .. Len(s) : t[n] = s[n]
    OBVIOUS
  <2> HIDE DEF t
  <2>2. PICK f : /\ f[0] = 0
                 /\ \A n \in 1 .. Len(s) : f[n] = 10 * f[n - 1] + s[n]
                 /\ Value(s) = f[Len(s)]
    BY ValueRecursion
  <2>3. PICK g : /\ g[0] = 0
                 /\ \A n \in 1 .. Len(t) : g[n] = 10 * g[n - 1] + t[n]
                 /\ Value(t) = g[Len(t)]
    BY <2>1, ValueRecursion
  <2>4. \A n \in 1 .. Len(s) : f[n - 1] = g[n - 1] => f[n] = g[n]
    BY <2>1, <2>2, <2>3
  <2>5. \A n \in 0 .. Len(s) : f[n] = g[n]
    <3>1. f[0] = g[0] /\ Len(s) \in Nat
      BY <2>1, <2>2, <2>3
    <3>2. Alike(f, g, Len(s))
      BY <2>4, <3>1, Zenon DEF Alike
    <3>3. Same(f, g, Len(s))
      BY <3>1, <3>2, SameRecursion, Zenon
    <3> QED
      BY <3>3, Zenon DEF Same
  <2>6. f[Len(s)] = g[Len(s)] /\ Len(t) - 1 = Len(s) /\ Len(t) \in 1 .. Len(t)
    BY <2>1, <2>5
  <2>7. Value(t) = 10 * g[Len(s)] + d
    BY <2>1, <2>3, <2>6
  <2> QED
    BY <2>2, <2>6, <2>7 DEF t
<1> QED
  BY <1>1, <1>2

\* The digits collected so far are the last ones of arg, in reverse order.
Collected ==
    /\ arg \in Nat
    /\ buf \in Seq(Nat)
    /\ Len(buf) <= BUF_SIZE
    /\ \A k \in 1 .. Len(buf) : buf[k] = Quotients(arg)[k - 1] % 10

\* While the digits are collected, num is what is left of arg.
Collecting ==
    /\ Collected
    /\ i = Len(buf)
    /\ sent = <<>>
    /\ num = Quotients(arg)[Len(buf)]
    /\ Len(buf) > 0 => num # 0

\* While they are sent, what has been sent is the notation of what was left of arg once
\* the next one had been collected.
Sending ==
    /\ Collected
    /\ Len(buf) > 0
    /\ sent \in Seq(Nat)
    /\ i = Len(buf) - 1 - Len(sent)
    /\ i >= -1
    /\ Quotients(arg)[Len(buf)] = 0
    /\ Len(buf) > 1 => Quotients(arg)[Len(buf) - 1] # 0
    /\ Value(sent) = Quotients(arg)[i + 1]
    /\ Len(sent) > 0 => sent[1] = buf[Len(buf)]

DecimalInv ==
    /\ pc = "idle" => buf = <<>> /\ i = 0 /\ sent = <<>>
    /\ pc = "collect" => Collecting
    /\ pc = "send" => Sending
    /\ PrintsDecimal

\* Division by ten.
LEMMA TenDivides ==
    \A x \in Nat : x \div 10 \in Nat /\ x % 10 \in Nat /\ 10 * (x \div 10) + (x % 10) = x
<1> SUFFICES ASSUME NEW x \in Nat
             PROVE  x \div 10 \in Nat /\ x % 10 \in Nat /\ 10 * (x \div 10) + (x % 10) = x
  OBVIOUS
<1>1. x \div 10 \in Nat
  BY SMT
<1>2. x % 10 \in Nat
  BY SMT
<1>3. 10 * (x \div 10) + (x % 10) = x
  BY SMT
<1> QED
  BY <1>1, <1>2, <1>3

\* A round of the first loop collects one more digit.
LEMMA CollectStep ==
    ASSUME Collecting, collect, i < BUF_SIZE
    PROVE  /\ pc' = "collect" => Collecting'
           /\ pc' = "send" => Sending'
           /\ pc' \in {"collect", "send"}
<1> DEFINE q == Quotients(arg)
           L == Len(buf)
<1>1. /\ buf' = Append(buf, num % 10)
      /\ num' = num \div 10
      /\ i' = IF num' = 0 THEN i ELSE i + 1
      /\ pc' = IF num' = 0 THEN "send" ELSE "collect"
      /\ UNCHANGED <<arg, sent>>
  BY DEF collect, FirstSent
<1>2. /\ arg \in Nat /\ buf \in Seq(Nat) /\ L \in Nat /\ L < BUF_SIZE /\ i = L
      /\ num = q[L] /\ sent = <<>> /\ (L > 0 => num # 0)
      /\ \A k \in 1 .. L : buf[k] = q[k - 1] % 10
  BY DEF Collecting, Collected
<1>3. L \in 0 .. BUF_SIZE /\ L + 1 \in 1 .. BUF_SIZE /\ (L + 1) - 1 = L
  BY <1>2, DriverAssumption
<1>4. /\ \A k \in 0 .. BUF_SIZE : q[k] \in Nat
      /\ \A k \in 1 .. BUF_SIZE : q[k] = q[k - 1] \div 10
  BY <1>2, QuotientsRecursion
<1>5. num \in Nat /\ num' = q[L + 1] /\ num' \in Nat /\ num % 10 \in Nat
  <2>1. q[L] \in Nat /\ q[L + 1] = q[L] \div 10
    BY <1>3, <1>4, Zenon
  <2>2. num \in Nat /\ num' = q[L + 1]
    BY <1>1, <1>2, <2>1, Zenon
  <2> QED
    BY <1>1, <2>2, TenDivides, Zenon
<1>6. /\ buf' \in Seq(Nat) /\ Len(buf') = L + 1 /\ Len(buf') <= BUF_SIZE
      /\ buf'[L + 1] = num % 10
      /\ \A k \in 1 .. L : buf'[k] = buf[k]
  BY <1>1, <1>2, <1>3, <1>5, DriverAssumption
<1>7. q' = q
  BY <1>1, Zenon DEF Quotients, Follows, Tenth
<1> HIDE DEF q
<1>8. ASSUME NEW k \in 1 .. Len(buf')
      PROVE  buf'[k] = q[k - 1] % 10
  <2>1. CASE k = L + 1
    BY <1>2, <1>3, <1>6, <2>1
  <2>2. CASE k \in 1 .. L
    BY <1>2, <1>6, <2>2
  <2> QED
    BY <1>2, <1>6, <2>1, <2>2
<1>9. Collected'
  BY <1>1, <1>2, <1>6, <1>7, <1>8 DEF Collected, q
<1>10. CASE num' # 0
  <2>1. i' = Len(buf') /\ sent' = <<>> /\ num' = q'[Len(buf')] /\ pc' = "collect"
    BY <1>1, <1>2, <1>5, <1>6, <1>7, <1>10
  <2> QED
    BY <1>9, <1>10, <2>1 DEF Collecting, q
<1>11. CASE num' = 0
  <2>1. sent' \in Seq(Nat) /\ Len(sent') = 0
    BY <1>1, <1>2
  <2>2. Value(sent') = 0
    BY <2>1, ValueAppend, Zenon
  <2>3. i' = L /\ pc' = "send"
    BY <1>1, <1>2, <1>11, Zenon
  <2>4. Len(buf') > 0 /\ i' = Len(buf') - 1 - Len(sent') /\ i' >= -1 /\ i' + 1 = L + 1
    BY <1>2, <1>6, <2>1, <2>3
  <2>5. q'[L + 1] = 0
    BY <1>5, <1>7, <1>11, Zenon
  <2>6. Len(buf') > 1 => L > 0 /\ Len(buf') - 1 = L
    BY <1>2, <1>6
  <2>7. Len(buf') > 1 => q'[Len(buf') - 1] # 0
    BY <1>2, <1>7, <2>6, Zenon
  <2>8. Value(sent') = q'[i' + 1] /\ q'[Len(buf')] = 0
    BY <1>6, <2>2, <2>4, <2>5, Zenon
  <2> QED
    BY <1>9, <2>1, <2>3, <2>4, <2>7, <2>8 DEF Sending, q
<1> QED
  BY <1>10, <1>11

\* A round of the second loop sends the next digit.
LEMMA SendStep ==
    ASSUME Sending, send, i >= 0
    PROVE  Sending' /\ pc' = "send"
<1> DEFINE q == Quotients(arg)
<1>1. /\ arg \in Nat /\ buf \in Seq(Nat) /\ Len(buf) \in Nat /\ Len(buf) <= BUF_SIZE
      /\ sent \in Seq(Nat) /\ Len(sent) \in Nat /\ i = Len(buf) - 1 - Len(sent) /\ i \in Nat
      /\ Value(sent) = q[i + 1]
      /\ \A k \in 1 .. Len(buf) : buf[k] = q[k - 1] % 10
  BY DEF Sending, Collected
<1>2. i \in 0 .. Len(buf) - 1 /\ i + 1 \in 1 .. Len(buf) /\ i + 1 \in 1 .. BUF_SIZE
      /\ i \in 0 .. BUF_SIZE /\ (i + 1) - 1 = i /\ ~(i < 0)
  BY <1>1, DriverAssumption
<1>3. sent' = Append(sent, buf[i + 1]) /\ i' = i - 1 /\ pc' = "send" /\ UNCHANGED <<arg, buf>>
  BY <1>2, Zenon DEF send
<1>4. q[i] \in Nat /\ q[i + 1] = q[i] \div 10
  <2>1. /\ \A k \in 0 .. BUF_SIZE : q[k] \in Nat
        /\ \A k \in 1 .. BUF_SIZE : q[k] = q[k - 1] \div 10
    BY <1>1, QuotientsRecursion
  <2> QED
    BY <1>2, <2>1, Zenon
<1>5. q' = q
  BY <1>3, Zenon DEF Quotients, Follows, Tenth
<1> HIDE DEF q
<1>6. buf[i + 1] = q[i] % 10 /\ buf[i + 1] \in Nat
  <2>1. buf[i + 1] = q[i] % 10
    BY <1>1, <1>2, Zenon
  <2> QED
    BY <1>4, <2>1, TenDivides, Zenon
<1>7. /\ sent' \in Seq(Nat) /\ Len(sent') = Len(sent) + 1
      /\ Len(sent) > 0 => sent'[1] = sent[1]
      /\ Len(sent) = 0 => sent'[1] = buf[i + 1]
  BY <1>1, <1>3, <1>6
<1>8. Value(sent') = 10 * q[i + 1] + (q[i] % 10)
  <2>1. Value(Append(sent, buf[i + 1])) = 10 * Value(sent) + buf[i + 1]
    BY <1>1, <1>6, ValueAppend, Zenon
  <2> QED
    BY <1>1, <1>3, <1>6, <2>1, Zenon
<1>9. Value(sent') = q[i]
  BY <1>4, <1>8, TenDivides, Zenon
<1>10. i' = Len(buf') - 1 - Len(sent') /\ i' >= -1 /\ i' + 1 = i
  BY <1>1, <1>3, <1>7
<1>11. Value(sent') = q'[i' + 1]
  BY <1>5, <1>9, <1>10
<1>12. sent'[1] = buf'[Len(buf')]
  <2>1. Len(sent) = 0 => i + 1 = Len(buf)
    BY <1>1
  <2> QED
    BY <1>1, <1>3, <1>7, <2>1 DEF Sending
<1>13. Collected'
  BY <1>3, <1>5 DEF Sending, Collected, q
<1>14. /\ Len(buf') > 0
       /\ q'[Len(buf')] = 0
       /\ Len(buf') > 1 => q'[Len(buf') - 1] # 0
  BY <1>3, <1>5 DEF Sending, q
<1> QED
  BY <1>3, <1>7, <1>10, <1>11, <1>12, <1>13, <1>14 DEF Sending, q

\* When all digits have been sent they are the notation of arg.
LEMMA AllSent ==
    ASSUME Sending, i < 0
    PROVE  Value(sent) = arg /\ (Len(sent) > 1 => sent[1] # 0)
<1> DEFINE q == Quotients(arg)
           L == Len(buf)
<1>1. /\ arg \in Nat /\ L \in Nat /\ L > 0 /\ L <= BUF_SIZE /\ Len(sent) \in Nat
      /\ i = L - 1 - Len(sent) /\ i >= -1
      /\ Value(sent) = q[i + 1] /\ q[L] = 0 /\ (L > 1 => q[L - 1] # 0)
      /\ Len(sent) > 0 => sent[1] = buf[L]
      /\ \A k \in 1 .. L : buf[k] = q[k - 1] % 10
  BY DEF Sending, Collected
<1>2. Len(sent) = L /\ i + 1 = 0
  BY <1>1
<1>3. L \in 1 .. L /\ L \in 1 .. BUF_SIZE /\ L - 1 \in 0 .. BUF_SIZE
  BY <1>1, DriverAssumption
<1>4. q[0] = arg /\ q[L - 1] \in Nat /\ q[L] = q[L - 1] \div 10
  <2>1. /\ q[0] = arg /\ \A k \in 0 .. BUF_SIZE : q[k] \in Nat
        /\ \A k \in 1 .. BUF_SIZE : q[k] = q[k - 1] \div 10
    BY <1>1, QuotientsRecursion
  <2> QED
    BY <1>3, <2>1, Zenon
<1> HIDE DEF q
<1>5. q[L - 1] = q[L - 1] % 10
  <2>1. 10 * (q[L - 1] \div 10) + (q[L - 1] % 10) = q[L - 1] /\ q[L - 1] % 10 \in Nat
    BY <1>4, TenDivides, Zenon
  <2>2. q[L - 1] \div 10 = 0
    BY <1>1, <1>4, Zenon
  <2> QED
    BY <1>4, <2>1, <2>2
<1>6. buf[L] = q[L - 1]
  BY <1>1, <1>3, <1>5, Zenon
<1>7. Value(sent) = arg
  BY <1>1, <1>2, <1>4, Zenon
<1>8. Len(sent) > 1 => L > 1 /\ Len(sent) > 0
  BY <1>1, <1>2
<1> QED
  BY <1>1, <1>6, <1>7, <1>8, Zenon

\* Every step of the call keeps its account of the digits.
LEMMA DecimalNext == DecimalInv /\ [Next]_vars => DecimalInv'
<1> SUFFICES ASSUME DecimalInv, [Next]_vars PROVE DecimalInv'
  OBVIOUS
<1>1. ASSUME NEW n \in Nums, uart_write_uint(n)
      PROVE  DecimalInv'
  <2>1. /\ pc' = "collect" /\ arg' = n /\ num' = n /\ n \in Nat
        /\ buf' = <<>> /\ i' = 0 /\ sent' = <<>>
    BY <1>1, DriverAssumption DEF uart_write_uint, DecimalInv
  <2>2. Quotients(arg')[0] = n
    BY <2>1, QuotientsRecursion
  <2>3. buf' \in Seq(Nat) /\ Len(buf') = 0 /\ Len(buf') <= BUF_SIZE
    BY <2>1, DriverAssumption
  <2>4. Collected'
    BY <2>1, <2>3 DEF Collected
  <2>5. Collecting'
    BY <2>1, <2>2, <2>3, <2>4 DEF Collecting
  <2> QED
    BY <2>1, <2>5 DEF DecimalInv, PrintsDecimal
<1>2. CASE collect
  <2>1. pc = "collect" /\ Collecting
    BY <1>2 DEF collect, DecimalInv
  <2>2. CASE i < BUF_SIZE
    BY <1>2, <2>1, <2>2, CollectStep DEF DecimalInv, PrintsDecimal
  <2>3. CASE ~(i < BUF_SIZE)
    <3>1. pc' = "undefined" /\ arg' = arg
      BY <1>2, <2>3, Zenon DEF collect
    <3>2. arg \in Nat /\ num = Quotients(arg)[Len(buf)] /\ Len(buf) = BUF_SIZE /\ num # 0
      BY <2>1, <2>3, DriverAssumption DEF Collecting, Collected
    <3>3. arg >= TenTo[BUF_SIZE]
      BY <3>2, QuotientDigits, Zenon
    <3> QED
      BY <3>1, <3>3 DEF DecimalInv, PrintsDecimal
  <2> QED
    BY <2>2, <2>3
<1>3. CASE send
  <2>1. pc = "send" /\ Sending
    BY <1>3 DEF send, DecimalInv
  <2>2. CASE i >= 0
    BY <1>3, <2>1, <2>2, SendStep DEF DecimalInv, PrintsDecimal
  <2>3. CASE i < 0
    <3>1. pc' = "sent" /\ UNCHANGED <<arg, sent>>
      BY <1>3, <2>3, Zenon DEF send
    <3>2. Value(sent) = arg /\ (Len(sent) > 1 => sent[1] # 0)
      BY <2>1, <2>3, AllSent
    <3> QED
      BY <3>1, <3>2 DEF DecimalInv, PrintsDecimal
  <2>4. i >= 0 \/ i < 0
    BY <2>1 DEF Sending
  <2> QED
    BY <2>2, <2>3, <2>4
<1>4. CASE ptimer_init \/ \E number \in Numbers : gic_enable_interrupt(number)
  <2>1. pc' \in {"PTIMER_OK", "PTIMER_INVALID_PERIOD", "enabled"}
    BY <1>4, Zenon DEF ptimer_init, gic_enable_interrupt
  <2> QED
    BY <2>1 DEF DecimalInv, PrintsDecimal
<1>5. CASE UNCHANGED vars
  <2>1. UNCHANGED <<pc, arg, num, buf, i, sent>>
    BY <1>5 DEF vars, digits
  <2>2. Collected' = Collected /\ Quotients(arg)' = Quotients(arg)
    BY <2>1, Zenon DEF Collected, Quotients, Follows, Tenth
  <2>3. Collecting => Collecting'
    BY <2>1, <2>2, Zenon DEF Collecting
  <2>4. Sending => Sending'
    BY <2>1, <2>2, Zenon DEF Sending, Value
  <2>5. PrintsDecimal => PrintsDecimal'
    BY <2>1, Zenon DEF PrintsDecimal, Value, TenTo
  <2> QED
    BY <2>1, <2>3, <2>4, <2>5, Zenon DEF DecimalInv
<1> QED
  BY <1>1, <1>2, <1>3, <1>4, <1>5, Zenon DEF Next

\* uart_write_uint sends the decimal digits of its argument, for every argument and every
\* size of the buffer, and leaves the buffer only when they are too many.
THEOREM DecimalTheorem == Spec => []PrintsDecimal
<1>1. Init => DecimalInv
  BY DEF Init, DecimalInv, PrintsDecimal
<1>2. DecimalInv => PrintsDecimal
  BY DEF DecimalInv
<1> QED
  BY <1>1, <1>2, DecimalNext, PTL DEF Spec

=============================================================================
