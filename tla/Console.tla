------------------------------ MODULE Console ------------------------------
(***************************************************************************)
(* The console of chapter 6: main's polling loop with its line buffer and  *)
(* parse_cmd (cstart.c), and uart_getchar (uart_pl011.c) against a PL011   *)
(* whose receiver runs beside it.  Nothing there is interrupt driven, and  *)
(* uart_putchar only takes time, in which the receive FIFO may overrun.    *)
(***************************************************************************)
EXTENDS Integers, Sequences

CONSTANTS
    Chars,          \* the characters that can be typed, CR among them
    CR,             \* '\r'
    NUL,            \* what .bss holds
    Commands,       \* "help\r" and "uname\r", as sequences of characters
    BUF_SIZE,       \* char buf[64]
    IDX_MOD,        \* buf_idx is a uint8_t: 256
    RX_DEPTH,       \* characters the receive FIFO holds
    MAX_INPUT       \* bound: how many characters are typed

ASSUME ConsoleAssumption ==
    /\ CR \in Chars /\ NUL \notin Chars
    /\ {BUF_SIZE, IDX_MOD} \subseteq Nat \ {0}
    /\ IDX_MOD % BUF_SIZE = 0
    /\ \A cmd \in Commands :
         /\ cmd \in Seq(Chars)
         /\ Len(cmd) \in 1 .. BUF_SIZE
         /\ \A k \in 1 .. Len(cmd) : cmd[k] = CR <=> k = Len(cmd)

VARIABLES
    buf, buf_idx,   \* cstart.c
    pc,             \* "poll", "status" (in uart_getchar, after DR) or "store"
    c,              \* the character read from DR, with its error flag
    rxq,            \* the receive FIFO: characters and their error flags
    char_error,     \* RSRECR: framing, parity or break error of the last character read
    overrun,        \* RSRECR: OE
    answer,         \* the command parse_cmd has just answered, or NUL
    line,           \* history: the characters accepted since the last CR
    typed,          \* history: how many characters were typed
    overruns,       \* history: how often the FIFO overran
    dropped         \* history: flawless characters that uart_getchar reported as errors

program == <<buf, buf_idx, pc, c, answer, line, dropped>>
receiver == <<rxq, typed, overruns>>
vars == <<program, receiver, char_error, overrun>>

Received == [char : Chars, error : BOOLEAN]

Init ==
    /\ buf = [k \in 0 .. BUF_SIZE - 1 |-> NUL]
    /\ buf_idx = 0
    /\ pc = "poll"
    /\ c = NUL
    /\ rxq = <<>>
    /\ char_error = FALSE
    /\ overrun = FALSE
    /\ answer = NUL
    /\ line = <<>>
    /\ typed = 0
    /\ overruns = 0
    /\ dropped = 0

\* A character arrives, perhaps damaged.  A full FIFO loses it and sets OE at once.
receive ==
    /\ typed < MAX_INPUT
    /\ typed' = typed + 1
    /\ IF Len(rxq) < RX_DEPTH
         THEN /\ \E r \in Received : rxq' = Append(rxq, r)
              /\ UNCHANGED <<overrun, overruns>>
         ELSE overrun' = TRUE /\ overruns' = overruns + 1 /\ UNCHANGED rxq
    /\ UNCHANGED <<program, char_error>>

-----------------------------------------------------------------------------
(* uart_getchar.                                                           *)

\* Mutant of uart_getchar_read: the status is not that of the character read, as
\* when RSRECR is read before DR.
uart_getchar_read_late ==
    /\ pc = "poll"
    /\ rxq # <<>>
    /\ c' = Head(rxq)
    /\ rxq' = Tail(rxq)
    /\ pc' = "status"
    /\ UNCHANGED <<buf, buf_idx, answer, line, dropped, typed, overruns, char_error, overrun>>

\* RXFE is clear: DR gives the character, and RSRECR its errors.
uart_getchar_read ==
    /\ pc = "poll"
    /\ rxq # <<>>
    /\ c' = Head(rxq)
    /\ rxq' = Tail(rxq)
    /\ char_error' = c'.error
    /\ pc' = "status"
    /\ UNCHANGED <<buf, buf_idx, answer, line, dropped, typed, overruns, overrun>>

\* Mutant of Cleared: the write to RSRECR is left out.
Cleared_missing == UNCHANGED <<char_error, overrun>>

\* Any write to RSRECR clears all its errors.
Cleared == char_error' = FALSE /\ overrun' = FALSE

\* UART_RECEIVE_ERROR: the errors are cleared, and main ignores the character.
uart_getchar_error ==
    /\ pc = "status"
    /\ char_error \/ overrun
    /\ Cleared
    /\ dropped' = IF c.error THEN dropped ELSE dropped + 1
    /\ pc' = "poll"
    /\ c' = NUL
    /\ UNCHANGED <<buf, buf_idx, answer, line, receiver>>

\* UART_OK.
uart_getchar_ok ==
    /\ pc = "status"
    /\ ~(char_error \/ overrun)
    /\ pc' = "store"
    /\ UNCHANGED <<buf, buf_idx, c, answer, line, dropped, receiver, char_error, overrun>>

-----------------------------------------------------------------------------
(* main's loop and parse_cmd.                                              *)

\* Mutant of Matches: the carriage return is not compared.
Matches_prefix(cmd, b) == \A k \in 1 .. Len(cmd) - 1 : b[k - 1] = cmd[k]

\* strncmp(cmd, buf, strlen(cmd)) is 0.
Matches(cmd, b) == \A k \in 1 .. Len(cmd) : b[k - 1] = cmd[k]

\* The command parse_cmd answers; no two of them match the same buffer.
parse_cmd(b) ==
    IF \E cmd \in Commands : Matches(cmd, b)
      THEN CHOOSE cmd \in Commands : Matches(cmd, b)
      ELSE NUL

\* The character is echoed and stored, and ends the line if it is a CR.
store ==
    /\ pc = "store"
    /\ buf' = [buf EXCEPT ![buf_idx % BUF_SIZE] = c.char]
    /\ IF c.char = CR
         THEN buf_idx' = 0 /\ answer' = parse_cmd(buf') /\ line' = <<>>
         ELSE buf_idx' = (buf_idx + 1) % IDX_MOD /\ answer' = NUL /\ line' = Append(line, c.char)
    /\ pc' = "poll"
    /\ c' = NUL
    /\ UNCHANGED <<dropped, receiver, char_error, overrun>>

Next == receive \/ uart_getchar_read \/ uart_getchar_error \/ uart_getchar_ok \/ store

Spec == Init /\ [][Next]_vars
-----------------------------------------------------------------------------
(* Properties.                                                             *)

\* The answer a line deserves: its own, if it is a command.
Deserved(l) == IF l \in Commands THEN l ELSE NUL

EndsLine == pc = "store" /\ pc' = "poll" /\ c.char = CR

\* When a line that fits buf ends, parse_cmd answers it exactly if it is a command:
\* what earlier lines have left in buf is never taken for part of it.
AnswersTheLine ==
    [][EndsLine /\ Len(line) < BUF_SIZE => answer' = Deserved(Append(line, CR))]_vars

\* No character that arrived with an error is echoed or gets into the line: the
\* status uart_getchar looks at is that of the character it has read.
NoDamagedCharacter == pc = "store" => ~c.error

\* uart_getchar reports a flawless character as an error at most once for each
\* overrun: it clears RSRECR, so one error does not make later characters fail.
OneLossPerOverrun == dropped <= overruns

============================================================================
