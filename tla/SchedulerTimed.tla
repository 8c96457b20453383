--------------------------- MODULE SchedulerTimed ---------------------------
(***************************************************************************)
(* Scheduler with the one thing it leaves out: how fast the CPU is.  The   *)
(* timer fires once a millisecond.  Two polls of a busy-wait are far less  *)
(* than that apart, so at most one tick falls between them.  Everything    *)
(* else the CPU does between two reads of the clock, printing included,    *)
(* takes at most MAX_BURST ticks.                                          *)
(***************************************************************************)
EXTENDS Scheduler

CONSTANT MAX_BURST  \* ticks between two steps of the CPU that are not two polls

ASSUME BurstAssumption == MAX_BURST \in Nat \ {0}

VARIABLE slack      \* ticks that can still come before the CPU's next step

tvars == <<vars, slack>>

TimedInit == Init /\ slack = MAX_BURST

TimedTick == slack > 0 /\ systime_tick /\ slack' = slack - 1

\* main makes no call that the full table rejects, so it gets to sched_run.
TimedCpu ==
    /\ Cpu
    /\ ~sched_add_task_full
    /\ slack' = IF pc = "wait" /\ pc' = "wait" THEN 1 ELSE MAX_BURST

TimedNext == TimedTick \/ TimedCpu

\* The timer never stops and the CPU never stops.
Fairness == WF_tvars(TimedTick) /\ WF_tvars(TimedCpu)

TimedSpec == TimedInit /\ [][TimedNext]_tvars /\ Fairness

-----------------------------------------------------------------------------
(* How late a task can be.                                                 *)

\* The ticks of a visit to a slot whose task runs: one burst each for the check,
\* the stamp, the call and the return, and the wait.
SlotTicks == WAIT + 4 * MAX_BURST

\* The ticks of a task's own check and stamp.
OwnTicks == 2 * MAX_BURST

\* The ticks of main, until sched_run is entered.
MainTicks == (MAX_NUM_TASKS + 1) * MAX_BURST

\* A pass over the table in which every other task runs, and the own check and stamp.
Lateness(ticks) == ticks + (MAX_NUM_TASKS - 1) * SlotTicks + OwnTicks

\* A message is printed in less time than a task waits, and no period is so close
\* to the wrap of systime that the pass after it would reach the wrap.
TimesFit ==
    /\ MAX_BURST <= WAIT
    /\ \A ticks \in Periods \cup {SlotTicks, MainTicks} : Lateness(ticks) < MaxAge

\* sched_run stamps a registered task again no later than one pass over the table
\* after its period, or after its own run or main if those are longer, unless a
\* task hangs.
BoundedLateness ==
    pc \notin {"main", "hang"} =>
        \A s \in Slots : task_table[s].entry # NULL =>
            \E ticks \in {task_table[s].period, SlotTicks, MainTicks} : age[s] <= Lateness(ticks)

\* A busy-wait ends: no task polls the clock for longer than WAIT ticks
\* (doc/08_scheduling.md: tasks "wait for 1000 system time ticks and exit"), not
\* even one whose deadline is the last value before the wrap.
WaitEnds == pc = "wait" => waited <= WAIT

\* A task that is registered runs again and again, as long as every task
\* returns: neither a wrap of systime nor the other tasks starve it.
EveryTaskRuns ==
    \A s \in Slots :
        [](task_table[s].entry \in BusyTasks => <>(pc = "call" /\ idx = s))

=============================================================================
