-------------------------- MODULE UartEcho_proofs --------------------------
(***************************************************************************)
(* Proofs about UartEcho, for any depth of the FIFO, any message and any   *)
(* input.                                                                  *)
(***************************************************************************)
EXTENDS UartEcho, Recursion, TLAPS

Numbers ==
    /\ tx \in 0 .. TX_DEPTH
    /\ lost \in Nat
    /\ read \in Seq(Inputs)
    /\ rxq \in Seq(Inputs)

\* A foreground that has seen room loses its character only after a character has
\* been read that no loss has been charged to yet.
Charged ==
    /\ LossBound
    /\ room /\ (ipc # "idle" \/ tx = TX_DEPTH) => lost + 1 <= Len(read)

Output == [src : {"task"}, char : Int] \cup [src : {"isr"}, char : Inputs \cup {LF}]

\* The last character taken is the echo of a carriage return only while the line feed is
\* the handler's next step.
Paired ==
    /\ accepted \in Seq(Output)
    /\ data \in Int
    /\ c \in Inputs \cup {LF}
    /\ EchoTogether
    /\ Len(accepted) > 0 /\ accepted[Len(accepted)] = Echo(CR) => ipc = "lf"

-----------------------------------------------------------------------------
(* The loss.                                                               *)

\* Every step keeps the account of lost characters.
LEMMA LossNext == Numbers /\ Charged /\ [Next]_vars => (Numbers /\ Charged)'
<1> SUFFICES ASSUME Numbers, Charged, [Next]_vars PROVE (Numbers /\ Charged)'
  OBVIOUS
<1> USE UartEchoAssumption DEF Numbers, Charged, LossBound
<1>1. CASE uart_putchar_poll
  BY <1>1 DEF uart_putchar_poll, Polled, ForegroundRuns
<1>2. CASE uart_putchar_write
  BY <1>2 DEF uart_putchar_write, ForegroundRuns
<1>3. CASE uart_receives
  BY <1>3 DEF uart_receives
<1>4. CASE uart_transmits
  BY <1>4 DEF uart_transmits
<1>5. CASE uart_isr_read
  <2>1. read' \in Seq(Inputs) /\ Len(read') = Len(read) + 1 /\ rxq' \in Seq(Inputs)
    BY <1>5 DEF uart_isr_read
  <2> QED
    BY <1>5, <2>1 DEF uart_isr_read
<1>6. CASE uart_isr_echo
  BY <1>6 DEF uart_isr_echo, Put
<1>7. CASE uart_isr_newline
  BY <1>7 DEF uart_isr_newline, Put
<1>8. CASE UNCHANGED vars
  BY <1>8 DEF vars
<1> QED
  BY <1>1, <1>2, <1>3, <1>4, <1>5, <1>6, <1>7, <1>8 DEF Next, Foreground, Handler

\* uart_write loses at most one character for each that is received, for every depth of the
\* FIFO: a poll that is interrupted costs no more than the character it was made for.
THEOREM LossTheorem == Spec => []LossBound
<1>1. Init => Numbers /\ Charged
  BY UartEchoAssumption DEF Init, Numbers, Charged, LossBound
<1>2. Charged => LossBound
  BY DEF Charged
<1> QED
  BY <1>1, <1>2, LossNext, PTL DEF Spec

-----------------------------------------------------------------------------
(* The echo of a carriage return.                                          *)

\* What is appended to a carriage return is its line feed.
LEMMA AppendPaired ==
    ASSUME accepted \in Seq(Output), EchoTogether, NEW x \in Output,
           accepted' = Append(accepted, x),
           Len(accepted) > 0 /\ accepted[Len(accepted)] = Echo(CR) => x = Echo(LF)
    PROVE  /\ accepted' \in Seq(Output)
           /\ EchoTogether'
           /\ Len(accepted') > 0
           /\ accepted'[Len(accepted')] = x
<1>1. /\ accepted' \in Seq(Output)
      /\ Len(accepted') = Len(accepted) + 1
      /\ accepted'[Len(accepted')] = x
      /\ \A i \in 1 .. Len(accepted) : accepted'[i] = accepted[i]
  OBVIOUS
<1>2. ASSUME NEW i \in 1 .. Len(accepted'), accepted'[i] = Echo(CR), i < Len(accepted')
      PROVE  accepted'[i + 1] = Echo(LF)
  <2>1. i \in 1 .. Len(accepted) /\ accepted[i] = Echo(CR)
    BY <1>1, <1>2
  <2>2. CASE i < Len(accepted)
    BY <1>1, <2>1, <2>2 DEF EchoTogether
  <2>3. CASE i = Len(accepted)
    BY <1>1, <2>1, <2>3
  <2> QED
    BY <2>1, <2>2, <2>3
<1>3. EchoTogether'
  BY <1>2 DEF EchoTogether, Echo
<1> QED
  BY <1>1, <1>3

\* Every step keeps carriage return and line feed together.
LEMMA PairedNext == Numbers /\ Paired /\ [Next]_vars => Paired'
<1> SUFFICES ASSUME Numbers, Paired, [Next]_vars PROVE Paired'
  OBVIOUS
<1>0. Echo(LF) # Echo(CR) /\ \A n : Printed(n) # Echo(CR)
  BY UartEchoAssumption DEF Echo, Printed
<1>1. CASE uart_putchar_write
  <2>1. ipc = "idle" /\ UNCHANGED <<ipc, c>> /\ data' \in Int
    BY <1>1 DEF uart_putchar_write, ForegroundRuns, Advance, Paired
  <2>2. CASE accepted' = Append(accepted, Printed(data))
    <3>1. Printed(data) \in Output
      BY DEF Printed, Output, Paired
    <3>2. accepted' \in Seq(Output) /\ EchoTogether' /\ accepted'[Len(accepted')] = Printed(data)
      BY <2>1, <2>2, <3>1, AppendPaired DEF Paired
    <3> QED
      BY <1>0, <2>1, <3>2 DEF Paired, Echo
  <2>3. CASE accepted' = accepted
    BY <2>1, <2>3 DEF Paired, EchoTogether, Echo
  <2> QED
    BY <1>1, <2>2, <2>3 DEF uart_putchar_write
<1>2. CASE uart_isr_echo
  <2>1. /\ ipc = "echo" /\ UNCHANGED <<c, data>>
        /\ accepted' = Append(accepted, Echo(c))
        /\ ipc' = IF c = CR THEN "lf" ELSE "idle"
    BY <1>2, UartEchoAssumption DEF uart_isr_echo, CanPut, Put, Numbers
  <2>2. Echo(c) \in Output /\ (Echo(c) = Echo(CR) => c = CR)
    BY DEF Echo, Output, Paired
  <2>3. accepted' \in Seq(Output) /\ EchoTogether' /\ accepted'[Len(accepted')] = Echo(c)
    BY <2>1, <2>2, AppendPaired DEF Paired
  <2> QED
    BY <2>1, <2>2, <2>3 DEF Paired, Echo
<1>3. CASE uart_isr_newline
  <2>1. ipc = "lf" /\ UNCHANGED <<c, data>> /\ accepted' = Append(accepted, Echo(LF))
    BY <1>3, UartEchoAssumption DEF uart_isr_newline, CanPut, Put, Numbers
  <2>2. Echo(LF) \in Output
    BY DEF Echo, Output
  <2>3. accepted' \in Seq(Output) /\ EchoTogether' /\ accepted'[Len(accepted')] = Echo(LF)
    BY <2>1, <2>2, AppendPaired DEF Paired
  <2> QED
    BY <1>0, <2>1, <2>3 DEF Paired, Echo
<1>4. CASE uart_isr_read
  <2>1. ipc = "idle" /\ UNCHANGED <<accepted, data>> /\ c' \in Inputs
    BY <1>4 DEF uart_isr_read, Numbers
  <2> QED
    BY <2>1 DEF Paired, EchoTogether, Echo
<1>5. CASE uart_putchar_poll \/ uart_receives \/ uart_transmits \/ UNCHANGED vars
  <2>1. UNCHANGED <<accepted, c, ipc, data>>
    BY <1>5 DEF uart_putchar_poll, uart_receives, uart_transmits, vars
  <2> QED
    BY <2>1 DEF Paired, EchoTogether, Echo
<1> QED
  BY <1>1, <1>2, <1>3, <1>4, <1>5 DEF Next, Foreground, Handler

\* No character of the task's message comes between the carriage return and the line feed
\* of an echo, for every message, input and depth of the FIFO.
THEOREM TogetherTheorem == Spec => []EchoTogether
<1>1. Init => Numbers /\ Charged /\ Paired
  <2>1. Init => accepted = <<>> /\ data = 1 /\ c = LF
    BY DEF Init, NoChar
  <2>2. Init => Paired
    BY <2>1 DEF Paired, EchoTogether
  <2> QED
    BY <2>2, UartEchoAssumption DEF Init, Numbers, Charged, LossBound
<1>2. Paired => EchoTogether
  BY DEF Paired
<1> QED
  BY <1>1, <1>2, LossNext, PairedNext, PTL DEF Spec

-----------------------------------------------------------------------------
(* The recursive functions EchoOf and From.                                *)

AnyChar == Int \cup Inputs \cup {CR, LF}

\* EchoOf is defined: its recursion has a solution, over the whole input.
LEMMA EchoRecursion ==
    ASSUME NEW s \in Seq(Inputs)
    PROVE  \E f \in [0 .. Len(s) -> Seq(AnyChar)] :
               /\ f[0] = <<>>
               /\ \A n \in 1 .. Len(s) : f[n] = WithEcho(f[n - 1], s[n])
               /\ EchoOf(s) = f[Len(s)]
<1> DEFINE N == Len(s)
           Solves(f) == f = [n \in 0 .. N |-> IF n = 0 THEN <<>> ELSE WithEcho(f[n - 1], s[n])]
           G == [p \in (1 .. N) \X Seq(AnyChar) |-> WithEcho(p[2], s[p[1]])]
<1>1. N \in Nat /\ \A n \in 1 .. N : s[n] \in AnyChar
  BY DEF AnyChar
<1>2. ASSUME NEW p \in (1 .. N) \X Seq(AnyChar)
      PROVE  WithEcho(p[2], s[p[1]]) \in Seq(AnyChar)
  <2>1. p[2] \in Seq(AnyChar) /\ s[p[1]] \in AnyChar /\ CR \in AnyChar /\ LF \in AnyChar
    BY <1>1 DEF AnyChar
  <2> QED
    BY <2>1 DEF WithEcho
<1>3. G \in [(1 .. N) \X Seq(AnyChar) -> Seq(AnyChar)]
  BY <1>2
<1>4. \A n \in 1 .. N, v \in Seq(AnyChar) : G[<<n, v>>] = WithEcho(v, s[n])
  OBVIOUS
<1> HIDE DEF G
<1>5. <<>> \in Seq(AnyChar)
  OBVIOUS
<1>6. PICK f \in [0 .. N -> Seq(AnyChar)] :
        f[0] = <<>> /\ \A n \in 1 .. N : f[n] = G[<<n, f[n - 1]>>]
  <2>1. \E f : Follows(f, Seq(AnyChar), <<>>, N, G)
    BY <1>1, <1>3, <1>5, RecursiveFunction
  <2> QED
    BY <2>1 DEF Follows
<1>7. \A n \in 1 .. N : f[n] = WithEcho(f[n - 1], s[n])
  <2>1. \A n \in 1 .. N : f[n - 1] \in Seq(AnyChar)
    BY <1>1
  <2> QED
    BY <1>4, <1>6, <2>1, Zenon
<1>8. Solves(f)
  BY <1>1, <1>6, <1>7
<1> DEFINE h == CHOOSE g : Solves(g)
<1>9. Solves(h)
  BY <1>8
<1>10. EchoOf(s) = h[N]
  BY DEF EchoOf
<1> HIDE DEF h
<1>11. \A n \in 0 .. N : f[n] = h[n]
  <2>1. f[0] = h[0]
    BY <1>1, <1>6, <1>9
  <2>2. \A n \in 1 .. N : f[n - 1] = h[n - 1] => f[n] = h[n]
    BY <1>1, <1>7, <1>9
  <2> QED
    <3>1. Alike(f, h, N)
      BY <2>1, <2>2, Zenon DEF Alike
    <3>2. Same(f, h, N)
      BY <1>1, <3>1, SameRecursion, Zenon
    <3> QED
      BY <3>2, Zenon DEF Same
<1> QED
  BY <1>1, <1>6, <1>7, <1>10, <1>11

\* One more character read is one more echo.
LEMMA EchoAppend ==
    /\ EchoOf(<<>>) = <<>>
    /\ \A s \in Seq(Inputs), ch \in Inputs : EchoOf(Append(s, ch)) = WithEcho(EchoOf(s), ch)
<1>1. EchoOf(<<>>) = <<>>
  <2>1. <<>> \in Seq(Inputs) /\ Len(<<>>) = 0
    OBVIOUS
  <2> QED
    BY <2>1, EchoRecursion
<1>2. ASSUME NEW s \in Seq(Inputs), NEW ch \in Inputs
      PROVE  EchoOf(Append(s, ch)) = WithEcho(EchoOf(s), ch)
  <2> DEFINE t == Append(s, ch)
  <2>1. /\ t \in Seq(Inputs) /\ Len(s) \in Nat /\ Len(t) = Len(s) + 1 /\ t[Len(t)] = ch
        /\ \A n \in 1 .. Len(s) : t[n] = s[n]
    OBVIOUS
  <2> HIDE DEF t
  <2>2. PICK f : /\ f[0] = <<>>
                 /\ \A n \in 1 .. Len(s) : f[n] = WithEcho(f[n - 1], s[n])
                 /\ EchoOf(s) = f[Len(s)]
    BY EchoRecursion
  <2>3. PICK g : /\ g[0] = <<>>
                 /\ \A n \in 1 .. Len(t) : g[n] = WithEcho(g[n - 1], t[n])
                 /\ EchoOf(t) = g[Len(t)]
    BY <2>1, EchoRecursion
  <2>4. \A n \in 1 .. Len(s) : f[n - 1] = g[n - 1] => f[n] = g[n]
    BY <2>1, <2>2, <2>3
  <2>5. \A n \in 0 .. Len(s) : f[n] = g[n]
    <3>1. f[0] = g[0] /\ Len(s) \in Nat
      BY <2>1, <2>2, <2>3
    <3>2. Alike(f, g, Len(s))
      BY <2>4, <3>1, Zenon DEF Alike
    <3>3. Same(f, g, Len(s))
      BY <3>1, <3>2, SameRecursion, Zenon
    <3> QED
      BY <3>3, Zenon DEF Same
  <2>6. f[Len(s)] = g[Len(s)] /\ Len(t) - 1 = Len(s) /\ Len(t) \in 1 .. Len(t)
    BY <2>1, <2>5
  <2>7. EchoOf(t) = WithEcho(g[Len(s)], ch)
    BY <2>1, <2>3, <2>6
  <2> QED
    BY <2>2, <2>6, <2>7 DEF t
<1> QED
  BY <1>1, <1>2

\* From is defined, in the same way.
LEMMA FromRecursion ==
    ASSUME NEW src, NEW s \in Seq(Output)
    PROVE  \E f \in [0 .. Len(s) -> Seq(AnyChar)] :
               /\ f[0] = <<>>
               /\ \A n \in 1 .. Len(s) : f[n] = WithOutput(f[n - 1], s[n], src)
               /\ From(src, s) = f[Len(s)]
<1> DEFINE N == Len(s)
           Solves(f) == f = [n \in 0 .. N |-> IF n = 0 THEN <<>> ELSE WithOutput(f[n - 1], s[n], src)]
           G == [p \in (1 .. N) \X Seq(AnyChar) |-> WithOutput(p[2], s[p[1]], src)]
<1>1. N \in Nat /\ \A n \in 1 .. N : s[n].char \in AnyChar
  <2>1. \A a \in Output : a.char \in AnyChar
    BY DEF AnyChar, Output
  <2> QED
    BY <2>1
<1>2. ASSUME NEW p \in (1 .. N) \X Seq(AnyChar)
      PROVE  WithOutput(p[2], s[p[1]], src) \in Seq(AnyChar)
  <2>1. p[2] \in Seq(AnyChar) /\ s[p[1]].char \in AnyChar
    BY <1>1
  <2> QED
    BY <2>1 DEF WithOutput
<1>3. G \in [(1 .. N) \X Seq(AnyChar) -> Seq(AnyChar)]
  BY <1>2
<1>4. \A n \in 1 .. N, v \in Seq(AnyChar) : G[<<n, v>>] = WithOutput(v, s[n], src)
  OBVIOUS
<1> HIDE DEF G
<1>5. <<>> \in Seq(AnyChar)
  OBVIOUS
<1>6. PICK f \in [0 .. N -> Seq(AnyChar)] :
        f[0] = <<>> /\ \A n \in 1 .. N : f[n] = G[<<n, f[n - 1]>>]
  <2>1. \E f : Follows(f, Seq(AnyChar), <<>>, N, G)
    BY <1>1, <1>3, <1>5, RecursiveFunction
  <2> QED
    BY <2>1 DEF Follows
<1>7. \A n \in 1 .. N : f[n] = WithOutput(f[n - 1], s[n], src)
  <2>1. \A n \in 1 .. N : f[n - 1] \in Seq(AnyChar)
    BY <1>1
  <2> QED
    BY <1>4, <1>6, <2>1, Zenon
<1>8. Solves(f)
  BY <1>1, <1>6, <1>7
<1> DEFINE h == CHOOSE g : Solves(g)
<1>9. Solves(h)
  BY <1>8
<1>10. From(src, s) = h[N]
  BY DEF From
<1> HIDE DEF h
<1>11. \A n \in 0 .. N : f[n] = h[n]
  <2>1. f[0] = h[0]
    BY <1>1, <1>6, <1>9
  <2>2. \A n \in 1 .. N : f[n - 1] = h[n - 1] => f[n] = h[n]
    BY <1>1, <1>7, <1>9
  <2> QED
    <3>1. Alike(f, h, N)
      BY <2>1, <2>2, Zenon DEF Alike
    <3>2. Same(f, h, N)
      BY <1>1, <3>1, SameRecursion, Zenon
    <3> QED
      BY <3>2, Zenon DEF Same
<1> QED
  BY <1>1, <1>6, <1>7, <1>10, <1>11

\* One more character is in the output of its writer and not in the other's.
LEMMA FromAppend ==
    ASSUME NEW src
    PROVE  /\ From(src, <<>>) = <<>>
           /\ \A s \in Seq(Output) : From(src, s) \in Seq(AnyChar)
           /\ \A s \in Seq(Output), x \in Output :
                From(src, Append(s, x)) = WithOutput(From(src, s), x, src)
<1>1. From(src, <<>>) = <<>>
  <2>1. ASSUME NEW s \in Seq(Output), Len(s) = 0
        PROVE  From(src, s) = <<>>
    <3>1. PICK f \in [0 .. Len(s) -> Seq(AnyChar)] : f[0] = <<>> /\ From(src, s) = f[Len(s)]
      BY FromRecursion
    <3> QED
      BY <2>1, <3>1
  <2>2. <<>> \in Seq(Output) /\ Len(<<>>) = 0
    OBVIOUS
  <2> QED
    BY <2>1, <2>2
<1>2. ASSUME NEW s \in Seq(Output)
      PROVE  From(src, s) \in Seq(AnyChar)
  <2>1. PICK f \in [0 .. Len(s) -> Seq(AnyChar)] : From(src, s) = f[Len(s)]
    BY FromRecursion
  <2>2. Len(s) \in 0 .. Len(s)
    OBVIOUS
  <2> QED
    BY <2>1, <2>2
<1>3. ASSUME NEW s \in Seq(Output), NEW x \in Output
      PROVE  From(src, Append(s, x)) = WithOutput(From(src, s), x, src)
  <2> DEFINE t == Append(s, x)
  <2>1. /\ t \in Seq(Output) /\ Len(s) \in Nat /\ Len(t) = Len(s) + 1 /\ t[Len(t)] = x
        /\ \A n \in 1 .. Len(s) : t[n] = s[n]
    OBVIOUS
  <2> HIDE DEF t
  <2>2. PICK f : /\ f[0] = <<>>
                 /\ \A n \in 1 .. Len(s) : f[n] = WithOutput(f[n - 1], s[n], src)
                 /\ From(src, s) = f[Len(s)]
    BY FromRecursion
  <2>3. PICK g : /\ g[0] = <<>>
                 /\ \A n \in 1 .. Len(t) : g[n] = WithOutput(g[n - 1], t[n], src)
                 /\ From(src, t) = g[Len(t)]
    BY <2>1, FromRecursion
  <2>4. \A n \in 1 .. Len(s) : f[n - 1] = g[n - 1] => f[n] = g[n]
    BY <2>1, <2>2, <2>3
  <2>5. \A n \in 0 .. Len(s) : f[n] = g[n]
    <3>1. f[0] = g[0] /\ Len(s) \in Nat
      BY <2>1, <2>2, <2>3
    <3>2. Alike(f, g, Len(s))
      BY <2>4, <3>1, Zenon DEF Alike
    <3>3. Same(f, g, Len(s))
      BY <3>1, <3>2, SameRecursion, Zenon
    <3> QED
      BY <3>3, Zenon DEF Same
  <2>6. f[Len(s)] = g[Len(s)] /\ Len(t) - 1 = Len(s) /\ Len(t) \in 1 .. Len(t)
    BY <2>1, <2>5
  <2>7. From(src, t) = WithOutput(g[Len(s)], x, src)
    BY <2>1, <2>3, <2>6
  <2> QED
    BY <2>2, <2>6, <2>7 DEF t
<1> QED
  BY <1>1, <1>2, <1>3

-----------------------------------------------------------------------------
(* What the two writers have put into the FIFO.                            *)

\* What is to be echoed is what has been echoed, and what uart_isr is about to write.
EchoInv ==
    LET sent == From("isr", accepted)
    IN  /\ ipc \in {"idle", "echo", "lf"}
        /\ ipc = "idle" => EchoOf(read) = sent
        /\ ipc = "echo" => EchoOf(read) = WithEcho(sent, c)
        /\ ipc = "lf" => EchoOf(read) = Append(sent, LF)

\* What the task has put there is in order, and before what it prints next.
PrintedInv ==
    LET p == From("task", accepted)
    IN  /\ \A i \in 1 .. Len(p) : p[i] \in Int /\ p[i] < data
        /\ PrintedInOrder

\* A step of the handler, of the task or of the hardware keeps the echo exact.
LEMMA EchoNext == Numbers /\ Paired /\ EchoInv /\ [Next]_vars => EchoInv'
<1> SUFFICES ASSUME Numbers, Paired, EchoInv, [Next]_vars PROVE EchoInv'
  OBVIOUS
<1>0. accepted \in Seq(Output) /\ c \in Inputs \cup {LF}
  BY DEF Paired
<1>1. CASE uart_putchar_write
  <2>1. UNCHANGED <<ipc, c, read>>
    BY <1>1 DEF uart_putchar_write
  <2>2. From("isr", accepted') = From("isr", accepted)
    <3>1. CASE accepted' = Append(accepted, Printed(data))
      <4>1. Printed(data) \in Output /\ Printed(data).src # "isr"
        BY DEF Printed, Output, Paired
      <4> QED
        <5>1. From("isr", Append(accepted, Printed(data))) = WithOutput(From("isr", accepted), Printed(data), "isr")
          BY <1>0, <4>1, FromAppend, Zenon
        <5> QED
          BY <3>1, <4>1, <5>1 DEF WithOutput
    <3> QED
      BY <1>1, <3>1 DEF uart_putchar_write
  <2> QED
    BY <2>1, <2>2 DEF EchoInv
<1>2. CASE uart_isr_read
  <2>1. /\ ipc = "idle" /\ ipc' = "echo" /\ UNCHANGED accepted
        /\ c' \in Inputs /\ read' = Append(read, c')
    BY <1>2 DEF uart_isr_read, Numbers
  <2>2. EchoOf(read') = WithEcho(EchoOf(read), c')
    BY <2>1, EchoAppend DEF Numbers
  <2> QED
    BY <2>1, <2>2 DEF EchoInv
<1>3. CASE uart_isr_echo
  <2>1. /\ ipc = "echo" /\ UNCHANGED <<c, read>>
        /\ accepted' = Append(accepted, Echo(c))
        /\ ipc' = IF c = CR THEN "lf" ELSE "idle"
    BY <1>3, UartEchoAssumption DEF uart_isr_echo, CanPut, Put, Numbers
  <2>2. Echo(c) \in Output /\ Echo(c).src = "isr" /\ Echo(c).char = c
    BY <1>0 DEF Echo, Output
  <2>3. From("isr", accepted') = Append(From("isr", accepted), c)
    <3>1. From("isr", Append(accepted, Echo(c))) = WithOutput(From("isr", accepted), Echo(c), "isr")
      BY <1>0, <2>2, FromAppend, Zenon
    <3> QED
      BY <2>1, <2>2, <3>1 DEF WithOutput
  <2>4. EchoOf(read) = WithEcho(From("isr", accepted), c)
    BY <2>1 DEF EchoInv
  <2> QED
    BY <2>1, <2>3, <2>4 DEF EchoInv, WithEcho
<1>4. CASE uart_isr_newline
  <2>1. ipc = "lf" /\ ipc' = "idle" /\ UNCHANGED <<c, read>> /\ accepted' = Append(accepted, Echo(LF))
    BY <1>4, UartEchoAssumption DEF uart_isr_newline, CanPut, Put, Numbers
  <2>2. Echo(LF) \in Output /\ Echo(LF).src = "isr" /\ Echo(LF).char = LF
    BY DEF Echo, Output
  <2>3. From("isr", accepted') = Append(From("isr", accepted), LF)
    <3>1. From("isr", Append(accepted, Echo(LF))) = WithOutput(From("isr", accepted), Echo(LF), "isr")
      BY <1>0, <2>2, FromAppend, Zenon
    <3> QED
      BY <2>1, <2>2, <3>1 DEF WithOutput
  <2> QED
    BY <2>1, <2>3 DEF EchoInv
<1>5. CASE uart_putchar_poll \/ uart_receives \/ uart_transmits \/ UNCHANGED vars
  <2>1. UNCHANGED <<accepted, c, ipc, read>>
    BY <1>5 DEF uart_putchar_poll, uart_receives, uart_transmits, vars
  <2> QED
    BY <2>1 DEF EchoInv
<1> QED
  BY <1>1, <1>2, <1>3, <1>4, <1>5 DEF Next, Foreground, Handler

\* Every step keeps the message in order.
LEMMA PrintedNext == Numbers /\ Paired /\ PrintedInv /\ [Next]_vars => PrintedInv'
<1> SUFFICES ASSUME Numbers, Paired, PrintedInv, [Next]_vars PROVE PrintedInv'
  OBVIOUS
<1> DEFINE p == From("task", accepted)
<1>0. accepted \in Seq(Output) /\ c \in Inputs \cup {LF} /\ data \in Int
  BY DEF Paired
<1>1. p \in Seq(AnyChar)
  BY <1>0, FromAppend
<1>2. ASSUME p' = p, data' \in Int, data' >= data
      PROVE  PrintedInv'
  BY <1>0, <1>2 DEF PrintedInv, PrintedInOrder
<1>3. CASE uart_putchar_write
  <2>1. data' = data + 1
    BY <1>3 DEF uart_putchar_write, Advance
  <2>2. CASE accepted' = Append(accepted, Printed(data))
    <3>1. Printed(data) \in Output /\ Printed(data).src = "task" /\ Printed(data).char = data
      BY <1>0 DEF Printed, Output
    <3>2. p' = Append(p, data)
      <4>1. From("task", Append(accepted, Printed(data))) = WithOutput(p, Printed(data), "task")
        BY <1>0, <3>1, FromAppend, Zenon
      <4> QED
        BY <2>2, <3>1, <4>1 DEF WithOutput
    <3>3. data \in AnyChar
      BY <1>0 DEF AnyChar
    <3>4. \A i \in 1 .. Len(p) : p[i] \in Int /\ p[i] < data
      BY DEF PrintedInv
    <3>5. \A i \in 1 .. Len(p) - 1 : p[i] < p[i + 1]
      BY DEF PrintedInv, PrintedInOrder
    <3> HIDE DEF p
    <3>6. /\ Len(p') = Len(p) + 1 /\ Len(p) \in Nat
          /\ \A i \in 1 .. Len(p) : p'[i] = p[i]
          /\ p'[Len(p) + 1] = data
      BY <1>1, <3>2, <3>3
    <3>7. \A i \in 1 .. Len(p') : p'[i] \in Int /\ p'[i] < data'
      BY <1>0, <2>1, <3>4, <3>6
    <3>8. \A i \in 1 .. Len(p') - 1 : p'[i] < p'[i + 1]
      <4> SUFFICES ASSUME NEW i \in 1 .. Len(p') - 1 PROVE p'[i] < p'[i + 1]
        OBVIOUS
      <4>1. i \in 1 .. Len(p) /\ p'[i] = p[i]
        BY <3>6
      <4>2. CASE i = Len(p)
        BY <3>4, <3>6, <4>1, <4>2
      <4>3. CASE i < Len(p)
        <5>1. i + 1 \in 1 .. Len(p) /\ i \in 1 .. Len(p) - 1
          BY <3>6, <4>1, <4>3
        <5> QED
          BY <3>5, <3>6, <4>1, <5>1
      <4> QED
        BY <3>6, <4>1, <4>2, <4>3
    <3> QED
      BY <3>7, <3>8 DEF PrintedInv, PrintedInOrder, p
  <2>3. CASE accepted' = accepted
    BY <1>0, <1>2, <2>1, <2>3
  <2> QED
    BY <1>3, <2>2, <2>3 DEF uart_putchar_write
<1>4. CASE uart_isr_echo \/ uart_isr_newline
  <2>1. UNCHANGED data /\ \E ch \in {c, LF} : accepted' = Append(accepted, Echo(ch))
    BY <1>4, UartEchoAssumption DEF uart_isr_echo, uart_isr_newline, CanPut, Put, Numbers
  <2>2. \A ch \in {c, LF} : Echo(ch) \in Output /\ Echo(ch).src # "task"
    BY <1>0 DEF Echo, Output
  <2>3. p' = p
    <3>1. PICK ch \in {c, LF} : accepted' = Append(accepted, Echo(ch))
      BY <2>1
    <3>2. From("task", accepted') = WithOutput(p, Echo(ch), "task")
      BY <1>0, <2>2, <3>1, FromAppend
    <3> QED
      BY <2>2, <3>2 DEF WithOutput
  <2> QED
    BY <1>0, <1>2, <2>1, <2>3
<1>5. CASE uart_isr_read \/ uart_putchar_poll \/ uart_receives \/ uart_transmits \/ UNCHANGED vars
  <2>1. UNCHANGED <<accepted, data>>
    BY <1>5 DEF uart_isr_read, uart_putchar_poll, uart_receives, uart_transmits, vars
  <2> QED
    BY <1>0, <1>2, <2>1
<1> QED
  BY <1>3, <1>4, <1>5 DEF Next, Foreground, Handler

\* The invariants, in the initial state.
LEMMA WritersInit == Init => Numbers /\ Charged /\ Paired /\ EchoInv /\ PrintedInv
<1> SUFFICES ASSUME Init PROVE Numbers /\ Charged /\ Paired /\ EchoInv /\ PrintedInv
  OBVIOUS
<1>1. accepted = <<>> /\ data = 1 /\ c = LF /\ read = <<>> /\ ipc = "idle"
  BY DEF Init, NoChar
<1>2. From("isr", accepted) = <<>> /\ From("task", accepted) = <<>> /\ EchoOf(read) = <<>>
  BY <1>1, FromAppend, EchoAppend
<1>3. EchoInv /\ PrintedInv
  BY <1>1, <1>2 DEF EchoInv, PrintedInv, PrintedInOrder
<1>4. Numbers /\ Charged
  BY UartEchoAssumption DEF Init, Numbers, Charged, LossBound
<1>5. Paired
  BY <1>1 DEF Paired, EchoTogether
<1> QED
  BY <1>3, <1>4, <1>5

\* The echo is exact for every input, message and depth of the FIFO.
THEOREM EchoTheorem == Spec => []EchoExact
<1>1. Paired /\ EchoInv => EchoExact
  <2> SUFFICES ASSUME Paired, EchoInv PROVE EchoExact
    OBVIOUS
  <2> DEFINE sent == From("isr", accepted)
  <2>1. sent \in Seq(AnyChar) /\ c \in AnyChar /\ LF \in AnyChar /\ CR \in AnyChar
    BY FromAppend DEF Paired, AnyChar
  <2>2. EchoOf(read) \in {sent, Append(sent, c), Append(Append(sent, CR), LF), Append(sent, LF)}
    BY DEF EchoInv, WithEcho
  <2>3. ipc = "idle" => sent = EchoOf(read)
    BY DEF EchoInv
  <2> HIDE DEF sent
  <2>4. \A x \in AnyChar : IsPrefix(sent, Append(sent, x))
    BY <2>1 DEF IsPrefix
  <2>5. IsPrefix(sent, sent) /\ IsPrefix(sent, Append(Append(sent, CR), LF))
    BY <2>1 DEF IsPrefix
  <2>6. IsPrefix(sent, EchoOf(read))
    BY <2>1, <2>2, <2>4, <2>5
  <2> QED
    BY <2>3, <2>6 DEF EchoExact, sent
<1> QED
  BY <1>1, WritersInit, LossNext, PairedNext, EchoNext, PTL DEF Spec

\* The task's message comes out in order, whatever is echoed in between.
THEOREM PrintedTheorem == Spec => []PrintedInOrder
<1>1. PrintedInv => PrintedInOrder
  BY DEF PrintedInv
<1> QED
  BY <1>1, WritersInit, LossNext, PairedNext, PrintedNext, PTL DEF Spec

-----------------------------------------------------------------------------
(* Types.                                                                  *)

\* A character of the message is polled for only inside the message, and each loss
\* has cost one.
InMessage ==
    /\ TypeOK
    /\ room => data <= MESSAGE_LEN
    /\ lost < data

\* uart_write stays inside its message, uart_isr in its steps, and the FIFO in its
\* depth.
THEOREM TypesTheorem == Spec => []TypeOK
<1>1. Init => InMessage
  <2> SUFFICES ASSUME Init PROVE InMessage
    OBVIOUS
  <2>1. room \in BOOLEAN /\ ~room
    BY Zenon DEF Init
  <2>2. /\ data \in 1 .. MESSAGE_LEN + 1 /\ lost \in 0 .. MESSAGE_LEN /\ lost < data
        /\ tx \in 0 .. TX_DEPTH /\ rxq \in Seq(Inputs) /\ read \in Seq(Inputs)
        /\ ipc \in {"idle", "echo", "lf"} /\ c \in Inputs \cup {NoChar}
    BY UartEchoAssumption DEF Init
  <2> QED
    BY <2>1, <2>2, Zenon DEF InMessage, TypeOK
<1>2. InMessage /\ [Next]_vars => InMessage'
  <2> SUFFICES ASSUME InMessage, [Next]_vars PROVE InMessage'
    OBVIOUS
  <2> USE UartEchoAssumption DEF InMessage, TypeOK, NoChar
  <2>1. CASE uart_putchar_poll
    BY <2>1 DEF uart_putchar_poll, ForegroundRuns
  <2>2. CASE uart_putchar_write
    <3>1. room' \in BOOLEAN /\ ~room'
      BY <2>2, Zenon DEF uart_putchar_write
    <3>2. data' = data + 1 /\ lost' \in {lost, lost + 1} /\ tx' \in {tx, tx + 1} /\ tx' <= TX_DEPTH
      BY <2>2 DEF uart_putchar_write, Advance
    <3>3. data <= MESSAGE_LEN /\ UNCHANGED <<rxq, read, ipc, c>>
      BY <2>2, Zenon DEF uart_putchar_write
    <3>4. /\ data' \in 1 .. MESSAGE_LEN + 1 /\ lost' \in 0 .. MESSAGE_LEN /\ lost' < data'
          /\ tx' \in 0 .. TX_DEPTH
      BY <3>2, <3>3
    <3> QED
      BY <3>1, <3>3, <3>4, Zenon
  <2>3. CASE uart_receives
    BY <2>3 DEF uart_receives
  <2>4. CASE uart_transmits
    BY <2>4 DEF uart_transmits
  <2>5. CASE uart_isr_read
    BY <2>5 DEF uart_isr_read
  <2>6. CASE uart_isr_echo
    BY <2>6 DEF uart_isr_echo, Put
  <2>7. CASE uart_isr_newline
    BY <2>7 DEF uart_isr_newline, Put
  <2>8. CASE UNCHANGED vars
    BY <2>8 DEF vars
  <2> QED
    BY <2>1, <2>2, <2>3, <2>4, <2>5, <2>6, <2>7, <2>8 DEF Next, Foreground, Handler
<1>3. InMessage => TypeOK
  BY DEF InMessage
<1> QED
  BY <1>1, <1>2, <1>3, PTL DEF Spec

=============================================================================
