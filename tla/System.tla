------------------------------- MODULE System -------------------------------
(***************************************************************************)
(* The running system: Interrupts and Scheduler on one processor.  The     *)
(* foreground is main's initialisation, then the registration of tasks,    *)
(* then sched_run and the tasks, which print; it advances only while no    *)
(* interrupt is being handled.  The two modules meet in systime: the tick  *)
(* that Scheduler lets happen at any moment is here the one ptimer_isr     *)
(* makes, some time after the timer has expired.                           *)
(***************************************************************************)
EXTENDS Interrupts

CONSTANTS MAX_NUM_TASKS, WAIT, BusyTasks, HangTasks, Periods

VARIABLES
    task_table, table_idx, idx, pc, start, age, waited, overtook,
    real            \* history: expiries since last_run of a slot was stamped

S == INSTANCE Scheduler

\* What Scheduler assumes.
ASSUME SystemAssumption ==
    /\ MAX_NUM_TASKS \in Nat \ {0}
    /\ WAIT \in S!SysTimes
    /\ Periods \subseteq S!SysTimes
    /\ NULL \notin BusyTasks \cup HangTasks
    /\ NULL \notin S!Slots \cup S!SysTimes

tasks == <<task_table, table_idx, idx, pc, start, age, waited, overtook>>
allvars == <<vars, tasks, real>>

SystemInit ==
    /\ Init
    /\ S!Init
    /\ real = [s \in S!Slots |-> 0]

\* main before it registers the first task.
Initialise == Boot /\ UNCHANGED <<tasks, real>>

\* A task prints after it has read start, and before it returns.  sched_run waits
\* until uart_putchar has returned.
Printing ==
    /\ uart_putchar_write \/ (uart_putchar_poll /\ (pc = "main" <=> BootOrder[boot] # "tasks")
                                               /\ pc \in {"main", "wait", "exit", "hang"})
    /\ UNCHANGED <<tasks, real>>

Schedule ==
    /\ Foreground("tasks")
    /\ ~room
    /\ UNCHANGED vars
    /\ S!Cpu
    /\ real' = IF pc = "stamp" THEN [real EXCEPT ![idx] = 0] ELSE real

Tick ==
    /\ systime_tick
    /\ S!systime_tick
    /\ UNCHANGED real

Handle ==
    \/ Tick
    \/ Handler /\ hpc # "tick" /\ UNCHANGED <<tasks, real>>

Expire ==
    /\ timer_expires
    /\ real' = [s \in S!Slots |-> real[s] + 1]
    /\ UNCHANGED tasks

Serial == (uart_receives \/ uart_transmits) /\ UNCHANGED <<tasks, real>>

SystemNext == Initialise \/ Printing \/ Schedule \/ Handle \/ Expire \/ Serial

\* The fairness of Interrupts; nothing is assumed of the tasks.
SystemSpec ==
    /\ SystemInit
    /\ [][SystemNext]_allvars
    /\ WF_allvars(Handle)
    /\ WF_allvars(Initialise)
    /\ SF_allvars(welcome_done /\ UNCHANGED <<tasks, real>>)
    /\ WF_allvars(uart_putchar_write /\ UNCHANGED <<tasks, real>>)
    /\ WF_allvars(uart_transmits /\ UNCHANGED <<tasks, real>>)

-----------------------------------------------------------------------------
(* Properties.                                                             *)

\* By the timer itself, not by systime, a task is started no earlier than one
\* expiry short of its period after it was last started, although expiries are
\* delivered late, merge while the handler waits for the transmitter, and are
\* counted by a systime that wraps.
SpacedByTimer == pc = "stamp" => real[idx] + 1 >= task_table[idx].period

=============================================================================
