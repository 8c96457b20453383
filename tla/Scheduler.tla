----------------------------- MODULE Scheduler -----------------------------
(***************************************************************************)
(* The cooperative scheduler of chapter 8: sched.c, the system time it     *)
(* reads (systime.c) and the tasks it calls (tasks.c).                     *)
(*                                                                         *)
(* Two actors share the variable systime.  The CPU's thread of control     *)
(* runs main, then sched_run, then the tasks; the timer interrupt may      *)
(* increment systime between any two of its steps.  There is one action    *)
(* per read of systime, because those are the points at which the          *)
(* interleaving can be observed.  What a task prints is left to the UART   *)
(* modules: here printing is time that passes between two reads.           *)
(***************************************************************************)
EXTENDS Integers, FiniteSets

CONSTANTS
    SYSTIME_MOD,    \* systime_t counts modulo this (2^32 in the code)
    MAX_NUM_TASKS,  \* slots of task_table (10u in the code)
    WAIT,           \* ticks task0 and task1 busy-wait (1000u in the code)
    BusyTasks,      \* entry points that wait and return: task0, task1
    HangTasks,      \* entry points that never return: task2
    Periods,        \* periods passed to sched_add_task
    NULL            \* the null entry pointer

Slots == 0 .. MAX_NUM_TASKS - 1
Entries == BusyTasks \cup HangTasks \cup {NULL}
SysTimes == 0 .. SYSTIME_MOD - 1

ASSUME SchedulerAssumption ==
    /\ SYSTIME_MOD \in Nat \ {0}
    /\ MAX_NUM_TASKS \in Nat \ {0}
    /\ WAIT \in SysTimes
    /\ Periods \subseteq SysTimes
    /\ NULL \notin BusyTasks \cup HangTasks
    /\ NULL \notin Slots \cup SysTimes

VARIABLES
    task_table,     \* slot -> [entry, period, last_run]
    table_idx,      \* number of slots in use
    systime,        \* milliseconds since boot, modulo SYSTIME_MOD
    idx,            \* the loop variable i of sched_run
    pc,             \* the next step of the CPU's thread of control
    start,          \* the local variable of the task that is running
    age,            \* history: ticks since last_run of a slot was stamped
    waited,         \* history: ticks since the running task read start
    overtook        \* history: slots stamped while this slot was due

vars == <<task_table, table_idx, systime, idx, pc, start, age, waited, overtook>>

\* Ages saturate at MaxAge.  A period is a systime_t, so no larger age is
\* told apart by any comparison with a period.
MaxAge == SYSTIME_MOD - 1
Older(a) == IF a < MaxAge THEN a + 1 ELSE a

Init ==
    /\ task_table = [s \in Slots |-> [entry |-> NULL, period |-> 0, last_run |-> 0]]
    /\ table_idx = 0
    /\ systime = 0
    /\ idx = 0
    /\ pc = "main"
    /\ start = 0
    /\ age = [s \in Slots |-> 0]
    /\ waited = 0
    /\ overtook = [s \in Slots |-> {}]

-----------------------------------------------------------------------------
(* The tests the code makes on the system time, in unsigned arithmetic.    *)

\* Mutants of TimeToRun: the check sched.c keeps as a comment, whose sum
\* overflows; the comparison made strict; the difference taken as a distance.
TimeToRun_sum(now, task) == (task.last_run + task.period) % SYSTIME_MOD <= now
TimeToRun_strict(now, task) == (now - task.last_run) % SYSTIME_MOD > task.period
TimeToRun_distance(now, task) ==
    \/ now - task.last_run >= task.period
    \/ task.last_run - now >= task.period

\* systime_get() - task->last_run >= task->period
TimeToRun(now, task) == (now - task.last_run) % SYSTIME_MOD >= task.period

\* Mutants of KeepWaiting: one tick short, one tick long.
KeepWaiting_short(now, from) == (from + WAIT) % SYSTIME_MOD > now + 1
KeepWaiting_long(now, from) == (from + WAIT) % SYSTIME_MOD >= now

\* start + 1000u > systime_get()
KeepWaiting(now, from) == (from + WAIT) % SYSTIME_MOD > now

\* The slot has waited its period, by true time, and its age is still one
\* that systime_t can represent without wrapping.
Due(s) ==
    /\ task_table[s].entry # NULL
    /\ age[s] >= task_table[s].period
    /\ age[s] < MaxAge

-----------------------------------------------------------------------------
(* main: tasks are registered while the timer already runs.                *)

sched_add_task(entry, period) ==
    /\ pc = "main"
    /\ table_idx < MAX_NUM_TASKS
    /\ task_table' = [task_table EXCEPT ![table_idx] =
                        [entry |-> entry, period |-> period, last_run |-> 0]]
    /\ table_idx' = table_idx + 1
    /\ UNCHANGED <<systime, idx, pc, start, age, waited, overtook>>

\* SCHED_TOO_MANY_TASKS: main ignores the result and nothing changes.
sched_add_task_full ==
    /\ pc = "main"
    /\ table_idx >= MAX_NUM_TASKS
    /\ UNCHANGED vars

sched_run_enter ==
    /\ pc = "main"
    /\ pc' = "check"
    /\ idx' = 0
    /\ UNCHANGED <<task_table, table_idx, systime, start, age, waited, overtook>>

-----------------------------------------------------------------------------
(* sched_run: one pass of the for loop after another.                      *)

\* Mutant of NextSlot: the last slot is never visited.
NextSlot_short(i) == (i + 1) % (MAX_NUM_TASKS - 1)

NextSlot(i) == (i + 1) % MAX_NUM_TASKS

\* The entry is NULL, or the time has not come: on to the next slot.
sched_run_skip ==
    /\ pc = "check"
    /\ \/ task_table[idx].entry = NULL
       \/ ~TimeToRun(systime, task_table[idx])
    /\ idx' = NextSlot(idx)
    /\ UNCHANGED <<task_table, table_idx, systime, pc, start, age, waited, overtook>>

sched_run_due ==
    /\ pc = "check"
    /\ task_table[idx].entry # NULL
    /\ TimeToRun(systime, task_table[idx])
    /\ pc' = "stamp"
    /\ UNCHANGED <<task_table, table_idx, systime, idx, start, age, waited, overtook>>

\* Mutant of Stamped: last_run follows the period instead of the clock.
Stamped_ideal(task, now) == [task EXCEPT !.last_run = (@ + task.period) % SYSTIME_MOD]

\* task->last_run = systime_get()
Stamped(task, now) == [task EXCEPT !.last_run = now]

\* The second read of the clock.
sched_run_stamp ==
    /\ pc = "stamp"
    /\ task_table' = [task_table EXCEPT ![idx] = Stamped(@, systime)]
    /\ pc' = "call"
    /\ age' = [age EXCEPT ![idx] = 0]
    /\ overtook' = [s \in Slots |->
                      IF s # idx /\ Due(s) THEN overtook[s] \cup {idx} ELSE {}]
    /\ UNCHANGED <<table_idx, systime, idx, start, waited>>

-----------------------------------------------------------------------------
(* The tasks.                                                              *)

\* start = systime_get(); task0 and task1 go on to wait, task2 loops for ever.
task_enter ==
    /\ pc = "call"
    /\ start' = systime
    /\ waited' = 0
    /\ pc' = IF task_table[idx].entry \in HangTasks THEN "hang" ELSE "wait"
    /\ UNCHANGED <<task_table, table_idx, systime, idx, age, overtook>>

task_poll ==
    /\ pc = "wait"
    /\ KeepWaiting(systime, start)
    /\ UNCHANGED vars

task_leave_loop ==
    /\ pc = "wait"
    /\ ~KeepWaiting(systime, start)
    /\ pc' = "exit"
    /\ UNCHANGED <<task_table, table_idx, systime, idx, start, age, waited, overtook>>

\* Mutant of task_return: the for loop starts again after a task has run.
task_return_restart ==
    /\ pc = "exit"
    /\ pc' = "check"
    /\ idx' = 0
    /\ start' = 0
    /\ waited' = 0
    /\ UNCHANGED <<task_table, table_idx, systime, age, overtook>>

\* The exit message is printed and the task returns into the for loop; its
\* local variable is gone.
task_return ==
    /\ pc = "exit"
    /\ pc' = "check"
    /\ idx' = NextSlot(idx)
    /\ start' = 0
    /\ waited' = 0
    /\ UNCHANGED <<task_table, table_idx, systime, age, overtook>>

-----------------------------------------------------------------------------
(* The timer interrupt: systime_tick, and one tick of true time.           *)

\* Mutant of Incremented: systime never wraps.
Incremented_wide(t) == t + 1

\* systime++ on a systime_t
Incremented(t) == (t + 1) % SYSTIME_MOD

systime_tick ==
    /\ systime' = Incremented(systime)
    /\ age' = [s \in Slots |-> Older(age[s])]
    /\ waited' = IF pc \in {"wait", "exit"} THEN Older(waited) ELSE waited
    /\ overtook' = [s \in Slots |-> IF age[s] + 1 < MaxAge THEN overtook[s] ELSE {}]
    /\ UNCHANGED <<task_table, table_idx, idx, pc, start>>

Cpu ==
    \/ \E entry \in Entries, period \in Periods : sched_add_task(entry, period)
    \/ sched_add_task_full
    \/ sched_run_enter
    \/ sched_run_skip
    \/ sched_run_due
    \/ sched_run_stamp
    \/ task_enter
    \/ task_poll
    \/ task_leave_loop
    \/ task_return

Next == Cpu \/ systime_tick

Spec == Init /\ [][Next]_vars

-----------------------------------------------------------------------------
(* Properties.                                                             *)

\* Every variable keeps the type the code declares it with.
TypeOK ==
    /\ task_table \in [Slots -> [entry : Entries, period : SysTimes, last_run : SysTimes]]
    /\ table_idx \in 0 .. MAX_NUM_TASKS
    /\ systime \in SysTimes
    /\ idx \in Slots
    /\ pc \in {"main", "check", "stamp", "call", "wait", "exit", "hang"}
    /\ start \in SysTimes
    /\ age \in [Slots -> SysTimes]
    /\ waited \in SysTimes
    /\ overtook \in [Slots -> SUBSET Slots]

\* The unsigned difference the scheduler computes is the true time since
\* last_run until that time no longer fits a systime_t, across any number of
\* wraps of systime and whatever ticks fall between the reads of sched_run.
ClockExact ==
    \A s \in Slots : age[s] < MaxAge =>
        (systime - task_table[s].last_run) % SYSTIME_MOD = age[s]

\* sched_run never stamps and calls a task before a full period of true time
\* has passed since it last did, even when systime wraps in between.
SpacedRuns == pc = "stamp" => age[idx] >= task_table[idx].period

\* sched_run never passes over a slot whose task has waited its period: a
\* wrap or a tick inside the check cannot cost the task its turn.
NoMissedTurn ==
    [][pc = "check" /\ Due(idx) => pc' \in {"check", "stamp"} /\ idx' = idx]_vars

\* While a task is due no other task is started twice: the for loop visits
\* every slot between two runs of the same one.
OvertakenOnce ==
    pc = "stamp" => \A s \in Slots : Due(s) => idx \notin overtook[s]

\* A task leaves its busy-wait early only if start + WAIT overflowed.
WaitsUnlessOverflow == pc = "exit" => waited >= WAIT \/ start + WAIT >= SYSTIME_MOD

\* What doc/08_scheduling.md says of task0 and task1: they wait for WAIT
\* ticks of the system time before they exit.
WaitsFull == pc = "exit" => waited >= WAIT

-----------------------------------------------------------------------------
(* Refinement of PeriodicTasks.                                            *)

Running == pc \in {"call", "wait", "exit", "hang"}

periodBar == [s \in Slots |-> IF task_table[s].entry # NULL THEN task_table[s].period ELSE NULL]
runningBar == IF Running THEN idx ELSE NULL

Periodic == INSTANCE PeriodicTasks
    WITH None <- NULL, period <- periodBar, running <- runningBar

\* sched.c keeps the promise of PeriodicTasks: a stamp is a start, a return is
\* a finish, and every other step of the loop and the tasks is invisible.
PeriodicSpec == Periodic!Spec

=============================================================================
