--------------------------- MODULE Console_proofs ---------------------------
(***************************************************************************)
(* Proofs about Console, for any alphabet, commands, size of the buffer    *)
(* and depth of the FIFO.  The buffer is never cleared; what makes the     *)
(* comparison exact is that a line has its only carriage return at its     *)
(* end, as a command does.                                                 *)
(***************************************************************************)
EXTENDS Console, TLAPS

\* The start of the buffer is the line, as long as the line fits.
HoldsLine ==
    /\ buf \in [0 .. BUF_SIZE - 1 -> Chars \cup {NUL}]
    /\ buf_idx \in Nat
    /\ line \in Seq(Chars)
    /\ \A k \in 1 .. Len(line) : line[k] # CR
    /\ Len(line) < BUF_SIZE => buf_idx = Len(line)
    /\ Len(line) <= BUF_SIZE => \A k \in 1 .. Len(line) : buf[k - 1] = line[k]

\* The character that uart_getchar has read.
Reading ==
    /\ rxq \in Seq(Received)
    /\ pc # "poll" => c \in Received

-----------------------------------------------------------------------------
(* The line and the buffer.                                                *)

\* The index of the code's % where it does not wrap.
LEMMA SmallModulo ==
    ASSUME NEW m \in Nat \ {0}, NEW n \in 0 .. m - 1
    PROVE  n % m = n
OBVIOUS

\* Storing a character that does not end the line extends both.
LEMMA StoreExtends ==
    ASSUME HoldsLine, NEW ch \in Chars, ch # CR,
           buf' = [buf EXCEPT ![buf_idx % BUF_SIZE] = ch],
           buf_idx' = (buf_idx + 1) % IDX_MOD,
           line' = Append(line, ch)
    PROVE  HoldsLine'
<1>1. BUF_SIZE \in Nat \ {0} /\ IDX_MOD \in Nat \ {0} /\ IDX_MOD % BUF_SIZE = 0
  BY ConsoleAssumption
<1>2. IDX_MOD >= BUF_SIZE
  BY <1>1
<1>3. buf_idx % BUF_SIZE \in 0 .. BUF_SIZE - 1
  BY <1>1 DEF HoldsLine
<1>4. buf' \in [0 .. BUF_SIZE - 1 -> Chars \cup {NUL}]
  BY <1>3 DEF HoldsLine
<1>5. buf_idx' \in Nat
  BY <1>1 DEF HoldsLine
<1>6. /\ line' \in Seq(Chars)
      /\ Len(line') = Len(line) + 1
      /\ \A k \in 1 .. Len(line) : line'[k] = line[k]
      /\ line'[Len(line) + 1] = ch
  BY DEF HoldsLine
<1>7. \A k \in 1 .. Len(line') : line'[k] # CR
  BY <1>6 DEF HoldsLine
<1>8. Len(line) < BUF_SIZE => buf_idx % BUF_SIZE = Len(line)
  <2> SUFFICES ASSUME Len(line) < BUF_SIZE PROVE buf_idx % BUF_SIZE = Len(line)
    OBVIOUS
  <2>1. buf_idx = Len(line) /\ buf_idx \in 0 .. BUF_SIZE - 1
    BY <1>1 DEF HoldsLine
  <2> QED
    BY <1>1, <2>1, SmallModulo
<1>9. Len(line') < BUF_SIZE => buf_idx' = Len(line')
  <2> SUFFICES ASSUME Len(line') < BUF_SIZE PROVE buf_idx' = Len(line')
    OBVIOUS
  <2>1. buf_idx + 1 = Len(line') /\ buf_idx + 1 \in 0 .. IDX_MOD - 1
    BY <1>1, <1>2, <1>6 DEF HoldsLine
  <2> QED
    BY <1>1, <2>1, SmallModulo
<1>10. ASSUME Len(line') <= BUF_SIZE, NEW k \in 1 .. Len(line')
       PROVE  buf'[k - 1] = line'[k]
  <2>1. Len(line) < BUF_SIZE /\ Len(line) \in Nat
    BY <1>1, <1>6, <1>10 DEF HoldsLine
  <2>2. buf' = [buf EXCEPT ![Len(line)] = ch]
    BY <1>8, <2>1
  <2>3. CASE k = Len(line) + 1
    <3>1. k - 1 = Len(line) /\ Len(line) \in 0 .. BUF_SIZE - 1
      BY <1>1, <2>1, <2>3
    <3>2. buf'[Len(line)] = ch
      BY <2>2, <3>1 DEF HoldsLine
    <3> QED
      BY <1>6, <2>3, <3>1, <3>2
  <2>4. CASE k \in 1 .. Len(line)
    <3>1. buf[k - 1] = line[k] /\ line'[k] = line[k]
      BY <1>1, <1>6, <2>1, <2>4 DEF HoldsLine
    <3>2. k - 1 \in 0 .. BUF_SIZE - 1 /\ k - 1 # Len(line)
      BY <1>1, <2>1, <2>4
    <3> QED
      BY <2>2, <3>1, <3>2 DEF HoldsLine
  <2> QED
    BY <1>6, <2>1, <2>3, <2>4
<1> QED
  BY <1>4, <1>5, <1>6, <1>7, <1>9, <1>10 DEF HoldsLine

\* With a line that fits and its carriage return in the buffer, a command matches
\* exactly if it is that line: a shorter one would end inside the line, and a longer
\* one would go on after its carriage return.
LEMMA MatchesOnlyTheLine ==
    ASSUME HoldsLine, Len(line) < BUF_SIZE, NEW cmd \in Commands,
           NEW b, b = [buf EXCEPT ![Len(line)] = CR]
    PROVE  Matches(cmd, b) <=> cmd = Append(line, CR)
<1> DEFINE l == Append(line, CR)
<1>1. /\ BUF_SIZE \in Nat \ {0}
      /\ CR \in Chars
      /\ cmd \in Seq(Chars)
      /\ Len(cmd) \in 1 .. BUF_SIZE
      /\ \A k \in 1 .. Len(cmd) : cmd[k] = CR <=> k = Len(cmd)
  BY ConsoleAssumption
<1>2. /\ Len(line) \in Nat
      /\ l \in Seq(Chars)
      /\ Len(l) = Len(line) + 1
      /\ \A k \in 1 .. Len(line) : l[k] = line[k] /\ l[k] # CR
      /\ l[Len(line) + 1] = CR
  BY <1>1 DEF HoldsLine
<1>3. \A k \in 1 .. Len(line) + 1 : b[k - 1] = l[k]
  BY <1>1, <1>2 DEF HoldsLine
<1> HIDE DEF l
<1>4. ASSUME Matches(cmd, b) PROVE cmd = l
  <2>1. \A k \in 1 .. Len(cmd) : b[k - 1] = cmd[k]
    BY <1>4 DEF Matches
  <2>2. ~(Len(cmd) < Len(line) + 1)
    <3> SUFFICES ASSUME Len(cmd) < Len(line) + 1 PROVE FALSE
      OBVIOUS
    <3>1. cmd[Len(cmd)] = l[Len(cmd)]
      <4>1. Len(cmd) \in 1 .. Len(cmd) /\ Len(cmd) \in 1 .. Len(line) + 1
        BY <1>1, <1>2
      <4> QED
        BY <1>3, <2>1, <4>1
    <3> QED
      BY <1>1, <1>2, <3>1
  <2>3. ~(Len(cmd) > Len(line) + 1)
    <3> SUFFICES ASSUME Len(cmd) > Len(line) + 1 PROVE FALSE
      OBVIOUS
    <3>1. cmd[Len(line) + 1] = CR
      BY <1>1, <1>2, <1>3, <2>1
    <3> QED
      BY <1>1, <1>2, <3>1
  <2>4. Len(cmd) = Len(l)
    BY <1>1, <1>2, <2>2, <2>3
  <2>5. \A k \in 1 .. Len(l) : cmd[k] = l[k]
    BY <1>2, <1>3, <2>1, <2>4
  <2> QED
    BY <1>1, <1>2, <2>4, <2>5
<1>5. ASSUME cmd = l PROVE Matches(cmd, b)
  BY <1>2, <1>3, <1>5 DEF Matches
<1> QED
  BY <1>4, <1>5 DEF l

\* So parse_cmd gives the line the answer it deserves.
LEMMA ParsesTheLine ==
    ASSUME HoldsLine, Len(line) < BUF_SIZE,
           NEW b, b = [buf EXCEPT ![Len(line)] = CR]
    PROVE  parse_cmd(b) = Deserved(Append(line, CR))
<1>1. \A cmd \in Commands : Matches(cmd, b) <=> cmd = Append(line, CR)
  BY MatchesOnlyTheLine
<1> QED
  BY <1>1 DEF parse_cmd, Deserved

-----------------------------------------------------------------------------
(* The steps.                                                              *)

\* Every step keeps the character uart_getchar has read a received one.
LEMMA ReadingNext == Reading /\ [Next]_vars => Reading'
<1> SUFFICES ASSUME Reading, [Next]_vars PROVE Reading'
  OBVIOUS
<1>1. CASE receive
  BY <1>1 DEF Reading, receive, program
<1>2. CASE uart_getchar_read
  BY <1>2 DEF Reading, uart_getchar_read
<1>3. CASE uart_getchar_error \/ uart_getchar_ok \/ store
  BY <1>3 DEF Reading, uart_getchar_error, uart_getchar_ok, store, receiver
<1>4. CASE UNCHANGED vars
  BY <1>4 DEF Reading, vars, program, receiver
<1> QED
  BY <1>1, <1>2, <1>3, <1>4 DEF Next

\* Every step keeps the line at the start of the buffer.
LEMMA HoldsLineNext == Reading /\ HoldsLine /\ [Next]_vars => HoldsLine'
<1> SUFFICES ASSUME Reading, HoldsLine, [Next]_vars PROVE HoldsLine'
  OBVIOUS
<1>1. CASE UNCHANGED <<buf, buf_idx, line>>
  BY <1>1 DEF HoldsLine
<1>2. CASE store
  <2>1. c.char \in Chars
    BY <1>2 DEF store, Reading, Received
  <2>2. CASE c.char = CR
    <3>1. buf_idx % BUF_SIZE \in 0 .. BUF_SIZE - 1
      BY ConsoleAssumption DEF HoldsLine
    <3>2. buf' \in [0 .. BUF_SIZE - 1 -> Chars \cup {NUL}]
      BY <1>2, <2>1, <3>1 DEF store, HoldsLine
    <3>3. buf_idx' = 0 /\ line' = <<>>
      BY <1>2, <2>2 DEF store
    <3> QED
      BY <3>2, <3>3 DEF HoldsLine
  <2>3. CASE c.char # CR
    BY <1>2, <2>1, <2>3, StoreExtends DEF store
  <2> QED
    BY <2>2, <2>3
<1> QED
  BY <1>1, <1>2 DEF Next, receive, uart_getchar_read, uart_getchar_error, uart_getchar_ok,
     vars, program

\* The invariant holds of the empty buffer.
LEMMA InvInit == Init => Reading /\ HoldsLine
BY ConsoleAssumption DEF Init, Reading, HoldsLine

\* parse_cmd answers a line that fits buf exactly if it is a command, for any
\* commands and any size of buf, whatever earlier lines have left in it.
THEOREM AnswersTheorem == Spec => AnswersTheLine
<1>1. ASSUME Reading, HoldsLine, [Next]_vars, EndsLine, Len(line) < BUF_SIZE
      PROVE  answer' = Deserved(Append(line, CR))
  <2>1. store
    BY <1>1 DEF EndsLine, Next, receive, uart_getchar_read, uart_getchar_error,
       uart_getchar_ok, vars, program
  <2>2. c.char = CR
    BY <1>1 DEF EndsLine
  <2>3. buf_idx % BUF_SIZE = Len(line)
    <3>1. BUF_SIZE \in Nat \ {0} /\ buf_idx = Len(line) /\ buf_idx \in 0 .. BUF_SIZE - 1
      BY <1>1, ConsoleAssumption DEF HoldsLine
    <3> QED
      BY <3>1, SmallModulo
  <2>4. buf' = [buf EXCEPT ![Len(line)] = CR] /\ answer' = parse_cmd(buf')
    BY <2>1, <2>2, <2>3 DEF store
  <2> QED
    BY <1>1, <2>4, ParsesTheLine
<1>2. Reading /\ HoldsLine /\ [Next]_vars =>
        [EndsLine /\ Len(line) < BUF_SIZE => answer' = Deserved(Append(line, CR))]_vars
  BY <1>1
<1> QED
  BY <1>2, InvInit, ReadingNext, HoldsLineNext, PTL DEF Spec, AnswersTheLine

-----------------------------------------------------------------------------
(* The errors.                                                             *)

\* The status belongs to the character that was read last, and a character that is
\* stored has none.
StatusOfRead ==
    /\ pc \in {"poll", "status", "store"}
    /\ pc = "status" => (char_error <=> c.error)
    /\ pc = "store" => ~c.error

\* uart_getchar reads DR before the status, and main takes only what has no error.
LEMMA StatusTheorem == Spec => []StatusOfRead
<1>1. Init => StatusOfRead
  BY DEF Init, StatusOfRead
<1>2. StatusOfRead /\ [Next]_vars => StatusOfRead'
  <2> SUFFICES ASSUME StatusOfRead, [Next]_vars PROVE StatusOfRead'
    OBVIOUS
  <2>1. CASE receive
    BY <2>1 DEF StatusOfRead, receive, program
  <2>2. CASE uart_getchar_read
    BY <2>2 DEF StatusOfRead, uart_getchar_read
  <2>3. CASE uart_getchar_error \/ store
    BY <2>3 DEF StatusOfRead, uart_getchar_error, store
  <2>4. CASE uart_getchar_ok
    BY <2>4 DEF StatusOfRead, uart_getchar_ok
  <2>5. CASE UNCHANGED vars
    BY <2>5 DEF StatusOfRead, vars, program
  <2> QED
    BY <2>1, <2>2, <2>3, <2>4, <2>5 DEF Next
<1> QED
  BY <1>1, <1>2, PTL DEF Spec

\* No damaged character is stored, for any depth of the FIFO and any input.
THEOREM NoDamagedTheorem == Spec => []NoDamagedCharacter
<1>1. StatusOfRead => NoDamagedCharacter
  BY DEF StatusOfRead, NoDamagedCharacter
<1> QED
  BY <1>1, StatusTheorem, PTL

\* An overrun that RSRECR still shows has not yet cost a character.
Owed ==
    /\ dropped \in Nat
    /\ overruns \in Nat
    /\ dropped <= overruns
    /\ overrun => dropped + 1 <= overruns

\* An overrun costs at most one flawless character, however long the input.
THEOREM OneLossTheorem == Spec => []OneLossPerOverrun
<1>1. Init => StatusOfRead /\ Owed
  BY DEF Init, StatusOfRead, Owed
<1>2. StatusOfRead /\ Owed /\ [Next]_vars => Owed'
  <2> SUFFICES ASSUME StatusOfRead, Owed, [Next]_vars PROVE Owed'
    OBVIOUS
  <2>1. CASE receive
    <3>1. \/ overruns' = overruns /\ overrun' = overrun
          \/ overruns' = overruns + 1
      BY <2>1 DEF receive
    <3>2. dropped' = dropped
      BY <2>1 DEF receive, program
    <3> QED
      BY <3>1, <3>2 DEF Owed
  <2>2. CASE uart_getchar_error
    <3>1. ~overrun' /\ overruns' = overruns
      BY <2>2 DEF uart_getchar_error, Cleared, receiver
    <3>2. dropped' = dropped \/ (dropped' = dropped + 1 /\ overrun)
      BY <2>2 DEF uart_getchar_error, StatusOfRead
    <3> QED
      BY <3>1, <3>2 DEF Owed
  <2>3. CASE UNCHANGED <<dropped, overruns, overrun>>
    BY <2>3 DEF Owed
  <2> QED
    BY <2>1, <2>2, <2>3 DEF Next, uart_getchar_read, uart_getchar_ok, store, vars, program,
       receiver
<1>3. Owed => OneLossPerOverrun
  BY DEF Owed, OneLossPerOverrun
<1> QED
  BY <1>1, <1>2, <1>3, StatusTheorem, PTL DEF Spec

=============================================================================
