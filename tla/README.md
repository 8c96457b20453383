# Verification of baremetal-arm

TLA+ models of the program this repository builds up chapter by chapter: a
small ARM Cortex-A9 system with a UART driver, an interrupt controller driver,
a timer, a system time and a cooperative scheduler, together with the part of
U-Boot that loads it. Chapter 8
(`src/src/08_scheduler/src`) is the complete system and the subject of the
models; paths below are relative to it unless they say otherwise.

## The system

| part | source | state | operations |
|---|---|---|---|
| U-Boot | `src/src/common_uboot` | memory at 0x60000000, the command line | countdown, `ext2load`, `bootm`, `reset` |
| startup | `startup.s`, `linkscript.ld` | stacks, `.data`, `.bss`, CPU mode and masks | `Reset_Handler`: set the vector base, fill the stacks, copy `.data`, clear `.bss`, mask interrupts, call `main` |
| main | `cstart.c` | - | configure the UART, print, set up the GIC, enable interrupts, start the timer, add the tasks, run the scheduler |
| interrupt controller | `gic.c` | GIC registers | `gic_init`, `gic_enable_interrupt`, acknowledge, end |
| interrupt dispatch | `irq.c` | `callbacks` | `irq_handler`, `irq_register_isr` |
| private timer | `ptimer.c` | timer registers | `ptimer_init`, `ptimer_isr` |
| system time | `systime.c` | `systime` (32 bits) | `systime_tick`, `systime_get` |
| UART | `uart_pl011.c` | PL011 registers and FIFOs | `uart_configure`, `uart_putchar`, `uart_write`, `uart_write_uint`, `uart_getchar`, `uart_isr` |
| scheduler | `sched.c` | `task_table`, `table_idx` | `sched_add_task`, `sched_run` |
| tasks | `tasks.c` | a local `start` | `task0`, `task1` (busy-wait and return), `task2` (hangs) |
| console | chapter 6, `cstart.c` | a line buffer of 64 | polling loop, `parse_cmd` |

U-Boot runs first, loads the program and jumps to it. From then on there is one
processor. The foreground (main, then the scheduler and the task it
has called) shares memory and the UART with the IRQ handler, which may run
between any two of its accesses. The handler does not nest. The timer, the
UART's receiver and its transmitter run beside the processor.

What is hard about this code, and hard to test:

- `systime` wraps after 49 days, and is read twice between the decision to run
  a task and the record of it (`sched.c:32-33`);
- the tasks' own deadline test overflows (`tasks.c:11`);
- a handler that waits for the UART (`uart_pl011.c:93`, called from `uart_isr`)
  delays the timer's handler, and expiries that find the flag set merge into one;
- the foreground's `uart_putchar` polls and writes in two accesses, and
  `uart_isr` writes to the same FIFO;
- U-Boot's `bootm` runs whether or not the load before it succeeded, on memory
  that survives resets, and moves the image over its own header;
- a level-triggered interrupt whose routine is missing, or does not remove the
  cause, fires for ever: the order of initialisation matters.

The full list, each at its line, is `hazards` in `PROJECT.json`.

## The modules

### Scheduler, PeriodicTasks, SchedulerTimed

`Scheduler` models `sched.c`, `systime.c` and `tasks.c`. `task_table`,
`table_idx`, `systime` and `start` are the code's variables and `idx` is the loop
variable `i`; `pc` names the next step of the thread of control:

| `pc` | code |
|---|---|
| `main` | `main` may call `sched_add_task`, then `sched_run` |
| `check` | the test on slot `idx` (`sched.c:27-32`): `sched_run_skip` or `sched_run_due` |
| `stamp` | `last_run = systime_get()`: `sched_run_stamp` |
| `call` | the task is entered and reads `start`: `task_enter` |
| `wait` | `while (start + 1000u > systime_get())`: `task_poll`, `task_leave_loop` |
| `exit` | the exit message and the return: `task_return` |
| `hang` | `task2` |

`systime_tick` may happen between any two of these steps. `main` is more liberal
than the code's: it registers any tasks, null entries among them, and goes on
when the table is full. `TimeToRun`, `KeepWaiting` and `Incremented` are the
code's unsigned expressions, modulo `SYSTIME_MOD`.

Three history variables record true time, which the code does not have: `age`
(ticks since a slot was last stamped; since boot before that), `waited` (ticks
since the running task read `start`) and `overtook` (the slots stamped while a
slot was due). Ages saturate at `SYSTIME_MOD - 1`: a period is a `systime_t`, so
no comparison with a period tells larger ages apart. That, and not a state
constraint, keeps the model finite.

`PeriodicTasks` is the promise: one task at a time runs to completion, and a task
starts only when its period of true time has passed. In the refinement mapping
a slot has a period when its entry is not null, and a task is running from its
stamp to its return.

`SchedulerTimed` adds the speed of the processor: at most one tick between two polls
of a busy-wait, which are a few instructions apart, and at most `MAX_BURST` ticks
between any two other steps, which may print a message. `slack` is what is left of
that. Nothing bounds a task's lateness without it. Its `main` makes no call that the
full table would reject.

### Interrupts

Everything from `main` to the interrupt routines, with the hardware. `BootOrder`
is the order of calls in `main`, with `ptimer_init` in two steps (register the
routine, start the timer), because interrupts are already enabled when it runs.
`hpc` is the step of `irq_handler` and the routine it has called. The interrupt
lines are levels (`Line`); the GIC (external) presents the ids that are enabled,
asserted and not active (`Pending`); which of several it returns is left open.
`uart_configure` and `gic_init` are one step each, because interrupts are masked
until `cpu_enable_interrupts`.

Characters are only counted. `expired`, `merged` and `received` are history. Nothing
is said of speeds: the timer may expire at any moment. The transmit FIFO is empty at
the start; that `uart_configure` may meet U-Boot's last characters in it is the subject
of `UartConfig`. The message `main` prints when `ptimer_init` fails (`cstart.c:26-28`) is left
out, because it never does: `PeriodLoaded` below says that no period is rejected.

### UartEcho

The two writers of the transmit FIFO, with the characters told apart: a task in
`uart_write` and `uart_isr`. The foreground's `uart_putchar` is two actions, the
handler's one, because nothing runs between the handler's poll and its write.
What a full FIFO does with a further character is the PL011's business
(external): it is lost.

### UartConfig

`uart_configure`, one action per access that the PL011 can tell apart, called
again and again with valid and invalid arguments while characters are sent. The
PL011 (external) keeps BUSY set while its FIFO is not empty, sends from the FIFO
only while it is enabled, and takes over the divisor when LCRH is written. `LCRH`
is a record of its fields. The first call finds the UART as U-Boot's
driver (`drivers/serial/serial_pl01x.c`) leaves it.

### Console

Chapter 6's `main` loop, `parse_cmd` and `uart_getchar`, with a receiver that may
deliver damaged characters and overrun its FIFO between any two accesses.
`uart_getchar` is two steps: the character from DR, then the status. `line` is the
history the buffer is compared with. Characters are model values, and the
commands are short sequences of them.

### System

`Interrupts` and `Scheduler` (by INSTANCE) on one processor. The foreground is main's
initialisation, then `sched_add_task`, `sched_run` and the tasks, which print through
`uart_putchar`; it advances only while no interrupt is handled. The two modules share
`systime`: the tick that `Scheduler` allows at any moment is here `ptimer_isr`'s, made
some time after the timer has expired. `real` is history: expiries since a slot was
stamped. Each step of `System` is a step of each of the two modules or leaves its
variables alone, which `System_proofs` proves.

### DriverArithmetic

Three driver calls whose difficulty is in the numbers: `ptimer_init` up to the write
of the load register, `uart_write_uint` with its buffer, and `gic_enable_interrupt`
at the level of register bits, through offsets computed from the fields of `gic.h`.
A 32-bit value that may exceed 2^31 is a pair of halves. A product of doubles may be
a little below the whole number it stands for, so the truncation has two outcomes;
the conversion of a negative double, for a period of 0, is undefined, and the model
tries the smallest and the largest result. A store outside `buf` leads to a state
`undefined`, in which nothing further is said of the program. `Interrupts` only has the
set of enabled ids: whether the target is set correctly makes no difference there,
because a GIC with one CPU has no targets to choose from.

### Bootloader, Startup, Boot

`Bootloader` is what U-Boot does on the way to the program: the countdown and the key
that stops it (`common/autoboot.c`), the commands of `bootcmd_bare_arm`
(`include/config_distro_bootcmd.h`) and the same commands typed at the prompt,
`ext2load` (`fs/fs.c`), `bootm` with its three checks, its move and its tags
(`common/bootm.c`, `arch/arm/lib/bootm.c`), and resets. The hush shell goes on after a
command that fails. Memory is a function of addresses in words. A word is named by
the file it comes from and its place there, so a file that is read half way over
another, or moved over itself, can be told from a whole one. A checksum is taken to
match nothing but what it was computed from; what else the header says (architecture,
type, format) is the same for every file. A reset leaves memory alone except for the
first 4 KB, any words of which U-Boot's stack may overwrite before it relocates itself
(`include/configs/vexpress_common.h`). The board (external) may be reset at
any time, and its card exchanged between commands.

`Startup` is `Reset_Handler` over the addresses of the linker script, in words. The
five loops are the rows of `Phases`; one round of a loop is one action. The sizes
of `.data` and `.bss` are chosen in the initial state.

`Boot` composes the two: the image that the data loop copies from is the memory that
U-Boot has left, and a reset may also come while `Reset_Handler` runs.

## The runs

| run | cfg | shows |
|---|---|---|
| `scheduler` | `MCScheduler.cfg` | spacing, exact clock, no missed turn, no double overtaking, the wait, and the refinement |
| `scheduler_timed` | `SchedulerTimed.cfg` | bounded lateness, every wait ends, every task runs again and again |
| `system` | `System.cfg` | every interrupt has its routine, acknowledge and end pair up, every expiry is accounted for, tasks keep their period by the timer itself, the handler quiesces, every character is read |
| `uart_echo` | `UartEcho.cfg` | the echo is exact and unbroken, the message keeps its order and ends, at most one of its characters is lost per interrupt |
| `uart_config` | `UartConfig.cfg` | the UART runs with the frame and the divisor of the last accepted call, no character is torn, the call returns once the FIFO is empty |
| `console` | `Console.cfg` | a line that fits is answered exactly if it is a command, no damaged character is stored, an overrun costs at most one good character |
| `boot` | `Boot.cfg` | the program is entered whole whatever has failed before; `main` is reached with variables, stacks, mode, masks and vectors in order, for sections of every small size |
| `driver_arithmetic` | `DriverArithmetic.cfg` | which of all periods the timer runs with, numbers are printed in decimal, the enable bits are those of the ids |
| `task_wait_overflow` | `SchedulerWait.cfg` | violation: a wait that overflows ends at once |
| `uart_lost_character` | `UartLoss.cfg` | violation: a character is lost between the poll and the write |
| `uint_buffer` | `UintBuffer.cfg` | violation: the ninth digit of a number is stored outside the buffer |
| `gic_targets` | `GicTargets.cfg` | violation: enabling interrupt 37 sets the target of interrupt 69 |

The violations are disagreements between the code and what the documentation
says of it; `findings` in `PROJECT.json` quotes both.

### Where the properties that hold stop holding

Some properties carry a condition, or a cfg leaves a value out, because the code
does not do better:

- `WaitEnds` and `BoundedLateness` need the polls to be no more than a tick apart. With
  two ticks between them, a wait whose deadline is the last value before the wrap
  misses it and polls on through the next wrap (`tasks.c:11`).
- `BoundedLateness` also needs `TimesFit`: a message is printed in less time than a task
  waits, and no period is so close to the wrap that the pass over the table after it
  would reach the wrap. The code's numbers (a wait of 1000, periods of seconds, ten
  slots, 2^32) are far inside it. Beyond it a task whose age wraps misses its turn.
- `ReturnsWhenDrained` is about an empty FIFO. With characters in it the loop at
  `uart_pl011.c:28` does not end: the disabled UART does not send them, although the
  comment at line 27 says "Finish any current transmission".
- `DivisorInUse` excepts rates whose fraction rounds up to 64 (307 baud is the lowest):
  FBRD's six bits hold 0, and the divisor is one less than the nearest.
- `FrameAsConfigured` says that parity is enabled, not which: SPS is set with EPS,
  which is a fixed bit, where the comment at `uart_pl011.c:58` says even parity.
- `AnswersTheLine` is about lines that fit the buffer. A longer line is answered
  when what wraps to the start of the buffer is a command.
- `PeriodLoaded` says where the timer's period stops being the one asked for: from
  59653 ms on `value *= 3` wraps (`ptimer.c:32`), and 0 ms is converted from a negative
  double. `validate_config` accepts both, and in fact every `uint16_t`: its limit is 178
  seconds. The program asks for 1 ms.
- `PrintsDecimal` allows `uart_write_uint` to leave `buf` for numbers of nine digits,
  and the run `uint_buffer` shows that it does. The system time has nine digits after
  27.8 hours (`tasks.c` prints it).
- `TicksOwed` counts expiries that find the flag set (`merged`) as lost to `systime`. For
  that a handler must take longer than the timer's period. At the 9600 baud of `main` the
  echo of a carriage return waits for two characters, about 2.1 ms, and the period that
  `ptimer_init(1)` loads is 3 ms of a 24 MHz clock because of the factor at `ptimer.c:32`. It
  would take a lower rate, of which `uart_configure` accepts any down to 110, or a
  period that is really 1 ms.
- `EntersWholeImage` and `MainFindsItsVariables` except words under the list of tags,
  which U-Boot writes to 0x60002000 after it has verified the checksum. An image of
  more than 8 KB does lose those words.
- `SpacedByTimer` allows one expiry less than the period: an expiry may be on its way
  to `systime` when the slot is stamped. Without the allowance TLC violates it.
- `EchoServed` depends on `RX_TRIGGER = 1`, which is how QEMU's PL011 interrupts. A PL011
  that waits for its reset level of 8 characters (`IFLS` is never written) would leave
  up to 7 unread.
- The break branch of `uart_isr` is modelled and never taken: `uart_configure` unmasks
  the receive interrupt only (`uart_pl011.c:81`).

### Bounds

- `SYSTIME_MOD` stands for 2^32. The code only adds, subtracts and compares
  system times, so what matters is their order on the circle: 6 with periods 2
  and 4 has wraps before, between and after the reads, and periods both shorter
  and longer than half the circle. The timed run uses 40, more than a period and
  a pass over the table together, as 2^32 is, and `MAX_BURST = 2`, so that other steps
  may take longer than polls.
- `UartConfig` has rates at and next to both limits, a rate whose fraction is a whole
  (307), and common ones.
- Three slots are enough for a task that overtakes, one that is overtaken and one
  in between (or an empty slot, or one that hangs); the theorems are for any number.
- One returning entry point stands for `task0` and `task1`, which differ only in
  what they print.
- FIFOs of depth 2 fill and drain; a message of 5 characters is longer than the
  FIFO, and the echo of three inputs, up to six characters, fills it as well.
- The console's buffer has 3 places and its index wraps at 6; what the code needs of
  64 and 256 is that one divides the other. Seven characters make lines longer than
  the buffer and one that wraps the index. The theorems are for any sizes.
- `System` has one slot, so that expiries, characters and the scheduler's steps can all
  interleave: a period of 2 on a circle of 4 that five expiries wrap. Two characters
  in a receive FIFO of 2, and a transmit FIFO of 2 that the foreground can fill. The
  theorems are for any number of slots and any depths. A second slot changes nothing
  on the interrupt side, and the `scheduler` run has three.
- `Boot`: a file below the tags, one across them and one larger than `BOOTM_LEN`; one
  reset, which may come at every step and overwrite any of the first three words, and
  any number of commands. Sections of 0 to 2
  words and stacks of 1 word: every loop but the stacks' runs zero, one and two times,
  and alignment adds a word or none. The theorems are for all sizes.
- `DriverArithmetic`: every `uint16_t` period; numbers up to 2^31 - 1, TLC's largest, on
  both sides of the powers of ten; ids at both ends of the 32-bit registers.

### Fairness

- `SchedulerTimed`: weak fairness of the tick (the timer reloads itself,
  `CTRL_AUTORELOAD`) and of the processor. The run has no `task2`: the scheduler is
  cooperative, and the comment at `cstart.c:33` says so.
- `System`: weak fairness of the handler (the hardware takes a pending
  interrupt), of main's steps, of the write that follows a poll, and of the
  transmitter; strong fairness of the end of the welcome message, which is
  finite. Nothing is assumed of the timer, the receiver, the scheduler or the tasks.
- `UartEcho`: weak fairness of the two writers and of the transmitter. The model
  stops when the message is printed and no input is left, so deadlock is not
  checked there.
- `UartConfig`: weak fairness of the driver's statements and of the transmitter. The
  application need not call anything. Deadlock is not checked: the polling loop
  above may really not end.
- `Boot`: weak fairness of U-Boot and of `Reset_Handler`, which execute. Nobody need press
  a key or reset the board. The model ends in `main`.

## What is proved

`Scheduler_proofs` proves, for every modulus, table size, wait and set of periods
(`SchedulerAssumption`: the modulus and the table are not empty, periods and the
wait are system times, and `NULL` is no entry, slot or time):

- `TypeCorrect`: every index and time stays in its range;
- `ClockTheorem`: `ClockExact`, by induction on the tick, with the fact that slots
  are stamped 0 at time 0 (`FreshSlots`);
- `SpacedTheorem`: from `ClockExact`, the computed difference never exceeds the
  true age, and ticks between check and stamp only increase it;
- `NoMissedTurnTheorem`: from `ClockExact`, for a slot that is due the computed
  difference is the true age, so the test passes;
- `WaitTheorem`: with `WaitClock`, the same exactness for `start`;
- `OvertakenTheorem`: with `OvertakenAhead`: after slot `j` overtakes slot `s`, the scan
  is on its way from `j` to `s` and has not passed `s`, which is still due;
- `Refinement`: `Spec => PeriodicSpec`; the start step needs `SpacedRuns`, and that
  the slot called is not empty (`CalledTheorem`).

`OvertakenOnce` alone is not inductive: it speaks of the moment of the stamp, and
says nothing of where the scan has been.

The same module proves two results about `SchedulerTimed`, for every `MAX_BURST`, under
`TimesFit`:

- `WaitEndsTheorem`: the ticks waited and those that may still come before the next poll
  are at most `WAIT`;
- `LatenessTheorem`: the bound is one pass over the table in which every other task runs.

The invariant is `TimedInv`: a slot's age, the ticks that the visit in progress can still
take (`Left`), those of the visits before the scan comes to the slot (`Ahead`), and those
of its own check and stamp together stay within the bound. A tick moves one tick from
what is left to the age; a visit that ends early gives its time back. That the scan does
not pass over a slot that is due comes from `ClockExact`, whose condition, that the age
has not reached the wrap, is what `TimesFit` is for.

`System_proofs` first proves about `Interrupts`, for every FIFO depth, trigger level and
modulus, `TypeOK`, `NoOrphanIrq`, `ActiveIsHandled` and `TicksOwed`. The last three are not
inductive. The invariant adds
`RegisteredFirst` (a source is silent until its routine is registered, and a routine
sits in its own slot) and `HandlerServes` (the cause that raised an interrupt is still
there when the id is read, and the routine that runs belongs to that id: without
it a tick could be counted that no expiry owes). `TicksOwed` needs two facts about
remainders, which are lemmas.

It then shows that the composed system is a behaviour of `Interrupts`
(`RunsInterrupts`) and of `Scheduler` (`RunsScheduler`), so that every theorem about
either holds of it, and from both that tasks keep their period by the timer
(`SpacedByTimerTheorem`). The link is `NeverAhead`: the ticks counted since a stamp and
those still owed exceed the expiries since then by at most the one on its way.

`Boot_proofs` proves `EntersWholeImage` for any files, header and tags. The move
overlaps its source, so the invariant says of each word on which side of the move
it is: below `moved` in its place, from there on where it was read to.

`UartConfig_proofs` proves `NoTornCharacter` (a line found silent with the UART disabled
stays silent), `FrameAsConfigured` and `DivisorInUse`, for any configurations and FIFO
depth. The last is an argument about rounding: IBRD is the quotient, FBRD the rounded
64ths of the remainder (`Rounding`), and their sum is off by half a 64th at most.

`UartEcho_proofs` proves `LossBound` (a foreground that has seen room can lose its
character only after an interrupt that no other loss is charged to) and
`EchoTogether` (the last character taken is an echoed carriage return only while the
handler is about to write its line feed). `EchoExact` and `PrintedInOrder` speak of what
recursive functions return: `EchoOf`, the echo of an input, and `From`, the output of one
writer. The proofs show what each returns when one character is appended (`EchoAppend`,
`FromAppend`), and the invariants `EchoInv` (the handler's output and what its next steps
will write make up the echo of what was read) and `PrintedInv` (what was printed is
increasing and behind `data`) follow step by step. `TypeOK` is proved as well.

`Recursion` is what those proofs rest on: induction over the natural numbers for a set,
that a recursive definition of a function has a solution, and that two functions with
the same recursion agree. The step of a recursion is a function there and not an
operator, so that the provers can use the lemmas.

`DriverArithmetic_proofs` proves, for every period, number, buffer and set of ids:

- `LoadTheorem`: up to 59652 ms the tripled value fits the register, which then holds it
  exactly (`TripledExact`) and, in units of 64 ticks, is the period asked for. From 59653 ms
  on the period has more units than any register (`TruncatedFits`), and 0 has none;
- `EnabledTheorem`: from the layout of `gic.h`, DISENABLER is at 0x100 and DITARGETSR at 0x820
  (`Offsets`), so the target bits stay above the enable and disable registers, and a
  word and a bit of it belong to one id (`OneBit`);
- `TargetsTheorem`: for the same reason the target set is always that of the interrupt 32
  ids further on, not only for the id of the run `gic_targets`;
- `DecimalTheorem`: `Quotients` are the values of `num`. The first loop leaves the last digit
  of each in `buf`; the second goes back through them, and what it has sent is always the
  notation of the next quotient (`Sending`). A quotient left after `BUF_SIZE` divisions means
  an argument of more digits (`QuotientDigits`).

`Console_proofs` proves `AnswersTheLine`, `NoDamagedCharacter` and `OneLossPerOverrun`, for
any buffer, index width, FIFO and set of commands that end with their only carriage
return. The first needs `HoldsLine`: while the line fits, the buffer holds it from its
start and the index is its length. What an earlier line has left behind it cannot
complete a command, because the carriage return of this line is in its way. The other
two rest on whose status is read (`StatusOfRead`), and on an overrun that the status
still shows not having cost a character yet (`Owed`).

`Boot_proofs` also proves `MainFindsItsVariables`, `MainFindsItsStacks` and
`UnmaskedWithOwnVectors` from power-up, for sections, stacks, files and tags of any size
(`BootAssumption`: the stacks are not empty, and `.data` is a part of every image). The
five loops of `Reset_Handler` write disjoint regions (`PhasesDisjoint`), so the invariant
says of every word of RAM which loop has written it, and that it is untouched if none
has (`Contents`). The data loop's source is the image of `EntersWholeImage`. That
exactly the stacks are filled also needs that nothing U-Boot loads is the pattern
(`NoFill`): words are named by where they come from, so this is true of the model, and
means "filled by a loop".

The assumptions are the ASSUMEs of the modules: depths, sizes and moduli are positive,
null values are distinct from what they are compared with, a line feed is not an
input, and the two above.

Every safety property that a passing run checks has a theorem. Only model-checked are the
liveness properties, `EveryTaskRuns`, `Quiesces`, `EchoServed`, `MessageEnds`,
`ReturnsWhenDrained`, `LoadedIsEntered` and `MainReached`: liveness under fairness and
ENABLED are outside what the prover does.

## Not modelled

- The rest of U-Boot. `src/src/common_uboot` is a copy of the whole third-party
  bootloader and makes up nearly all lines of the repository: other boards and
  processors, drivers, file systems, networking, other image types. None of it runs
  between power-up and this program. The models cover what does, and so only a very
  small share of the repository's lines, but all of the code its chapters write.
  Within that path the sub-commands of `bootm`, the environment and the blocks of
  the file system are left out.
- The earlier chapters' versions of the same files, which chapter 8 supersedes
  (except chapter 6's console).
- `Abort_Exception` and the vectors that lead to it: nothing modelled raises an abort,
  and `main` does not return.
- The break interrupt as something that happens: it is masked, see above.
- The wording of messages and the build scripts.
