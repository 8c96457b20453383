-------------------------- MODULE Scheduler_proofs --------------------------
(***************************************************************************)
(* Proofs about Scheduler and SchedulerTimed, for every modulus of         *)
(* systime, number of slots, wait, set of periods and speed of the CPU.    *)
(*                                                                         *)
(* The invariants of the runs are not inductive as they stand.  The first  *)
(* definitions are what each rests on: the clock a waiting task compares   *)
(* with is exact too, unused slots are empty, a slot that runs holds a     *)
(* task, and the scan of the table is between the slot that overtook and   *)
(* the slot that was overtaken.  The times of SchedulerTimed rest on how   *)
(* many ticks can still come before each slot is stamped; they are at the  *)
(* end.                                                                    *)
(***************************************************************************)
EXTENDS SchedulerTimed, TLAPS

\* While a task waits, systime - start is the true time since start was read,
\* and the task has left its loop only as WaitsUnlessOverflow says.
WaitClock ==
    /\ pc = "wait" /\ waited < MaxAge => (systime - start) % SYSTIME_MOD = waited
    /\ WaitsUnlessOverflow

\* Slots that sched_add_task has not filled are empty, and during main no
\* slot has been stamped.
FreshSlots ==
    /\ \A s \in Slots : s >= table_idx => task_table[s].entry = NULL
    /\ pc = "main" => \A s \in Slots : overtook[s] = {} /\ task_table[s].last_run = 0

\* The scan is on its way from slot j to slot s, going upwards and starting
\* again from 0 at the end of the table.
OnTheWay(j, i, s) ==
    \/ j < s /\ j <= i /\ i <= s
    \/ s < j /\ (j <= i \/ i <= s)

\* A slot that was overtaken is still due, and the scan has not come back to
\* the slot that overtook it.
OvertakenAhead ==
    \A s \in Slots : \A j \in overtook[s] :
        /\ j # s
        /\ Due(s)
        /\ OnTheWay(j, idx, s)
        /\ idx = j => pc \notin {"check", "stamp"}
        /\ idx = s => pc \in {"check", "stamp"}

\* The slot that is about to run, or runs, holds a task.
NotNullCalled == pc \notin {"main", "check"} => task_table[idx].entry # NULL

-----------------------------------------------------------------------------
(* Arithmetic of the clock and of the loop index.                          *)

\* What the unsigned difference of two system times is, without %.
LEMMA Difference ==
    ASSUME NEW a \in SysTimes, NEW b \in SysTimes
    PROVE  /\ (a - b) % SYSTIME_MOD = IF a >= b THEN a - b ELSE a - b + SYSTIME_MOD
           /\ (a - b) % SYSTIME_MOD \in SysTimes
<1>1. CASE a >= b
  BY <1>1, SchedulerAssumption DEF SysTimes
<1>2. CASE a < b
  BY <1>2, SchedulerAssumption DEF SysTimes
<1> QED
  BY <1>1, <1>2 DEF SysTimes

\* A tick makes systime - b one larger, until it wraps to zero.
LEMMA DifferenceTick ==
    ASSUME NEW a \in SysTimes, NEW b \in SysTimes
    PROVE  /\ Incremented(a) \in SysTimes
           /\ (a - b) % SYSTIME_MOD < MaxAge =>
                (Incremented(a) - b) % SYSTIME_MOD = ((a - b) % SYSTIME_MOD) + 1
<1>1. Incremented(a) = IF a = SYSTIME_MOD - 1 THEN 0 ELSE a + 1
  BY SchedulerAssumption DEF Incremented, SysTimes
<1>2. Incremented(a) \in SysTimes
  BY <1>1, SchedulerAssumption DEF SysTimes
<1>3. (a - b) % SYSTIME_MOD = IF a >= b THEN a - b ELSE a - b + SYSTIME_MOD
  BY Difference
<1>4. (Incremented(a) - b) % SYSTIME_MOD =
        IF Incremented(a) >= b THEN Incremented(a) - b
                               ELSE Incremented(a) - b + SYSTIME_MOD
  BY <1>2, Difference
<1> QED
  BY <1>1, <1>2, <1>3, <1>4, SchedulerAssumption DEF SysTimes, MaxAge

\* The loop index goes up by one, and back to 0 after the last slot.
LEMMA NextSlotValue ==
    ASSUME NEW i \in Slots
    PROVE  /\ NextSlot(i) = IF i = MAX_NUM_TASKS - 1 THEN 0 ELSE i + 1
           /\ NextSlot(i) \in Slots
<1>1. NextSlot(i) = IF i = MAX_NUM_TASKS - 1 THEN 0 ELSE i + 1
  BY SchedulerAssumption DEF NextSlot, Slots
<1> QED
  BY <1>1, SchedulerAssumption DEF Slots

\* Ages stay system times, never shrink, and grow until they saturate.
LEMMA OlderValue ==
    ASSUME NEW a \in SysTimes
    PROVE  /\ Older(a) \in SysTimes
           /\ Older(a) >= a
           /\ a < MaxAge => Older(a) = a + 1
           /\ Older(a) < MaxAge => a < MaxAge
BY SchedulerAssumption DEF Older, MaxAge, SysTimes

\* The check of sched_run passes for a slot that is due.
LEMMA DueIsTimeToRun ==
    ASSUME TypeOK, ClockExact, NEW s \in Slots, Due(s)
    PROVE  TimeToRun(systime, task_table[s])
BY DEF ClockExact, Due, TimeToRun

\* The check of sched_run passes only for a slot that has waited its period.
LEMMA TimeToRunIsOldEnough ==
    ASSUME TypeOK, ClockExact, NEW s \in Slots, TimeToRun(systime, task_table[s])
    PROVE  age[s] >= task_table[s].period
<1>1. task_table[s].last_run \in SysTimes /\ task_table[s].period \in SysTimes
      /\ age[s] \in SysTimes /\ systime \in SysTimes
  BY DEF TypeOK
<1>2. (systime - task_table[s].last_run) % SYSTIME_MOD \in SysTimes
  BY <1>1, Difference
<1> QED
  BY <1>1, <1>2, SchedulerAssumption DEF ClockExact, TimeToRun, SysTimes, MaxAge

-----------------------------------------------------------------------------
(* Type correctness.                                                       *)

\* Every variable of sched.c, systime.c and the running task keeps its type;
\* in particular the table index and the loop index stay in the table.
THEOREM TypeCorrect == Spec => []TypeOK
<1>1. Init => TypeOK
  BY SchedulerAssumption DEF Init, TypeOK, Slots, SysTimes, Entries
<1>2. TypeOK /\ [Next]_vars => TypeOK'
  <2> SUFFICES ASSUME TypeOK, [Next]_vars
               PROVE  TypeOK'
    OBVIOUS
  <2> USE SchedulerAssumption
  <2>1. ASSUME NEW entry \in Entries, NEW period \in Periods, sched_add_task(entry, period)
        PROVE  TypeOK'
    <3>1. table_idx \in Slots /\ 0 \in SysTimes /\ period \in SysTimes
      BY <2>1 DEF sched_add_task, TypeOK, Slots, SysTimes
    <3>2. table_idx + 1 \in 0 .. MAX_NUM_TASKS
      BY <2>1 DEF sched_add_task, TypeOK
    <3> QED
      BY <2>1, <3>1, <3>2 DEF sched_add_task, TypeOK
  <2>2. CASE sched_add_task_full
    BY <2>2 DEF sched_add_task_full, TypeOK, vars
  <2>3. CASE sched_run_enter
    BY <2>3 DEF sched_run_enter, TypeOK, Slots
  <2>4. CASE sched_run_skip
    BY <2>4, NextSlotValue DEF sched_run_skip, TypeOK
  <2>5. CASE sched_run_due
    BY <2>5 DEF sched_run_due, TypeOK
  <2>6. CASE sched_run_stamp
    <3>1. task_table' \in [Slots -> [entry : Entries, period : SysTimes, last_run : SysTimes]]
      BY <2>6 DEF sched_run_stamp, TypeOK, Stamped
    <3>2. age' \in [Slots -> SysTimes]
      BY <2>6 DEF sched_run_stamp, TypeOK, SysTimes
    <3>3. overtook' \in [Slots -> SUBSET Slots]
      BY <2>6 DEF sched_run_stamp, TypeOK
    <3> QED
      BY <2>6, <3>1, <3>2, <3>3 DEF sched_run_stamp, TypeOK
  <2>7. CASE task_enter
    BY <2>7 DEF task_enter, TypeOK, SysTimes
  <2>8. CASE task_poll
    BY <2>8 DEF task_poll, TypeOK, vars
  <2>9. CASE task_leave_loop
    BY <2>9 DEF task_leave_loop, TypeOK
  <2>10. CASE task_return
    BY <2>10, NextSlotValue DEF task_return, TypeOK, SysTimes
  <2>11. CASE systime_tick
    <3>1. systime' \in SysTimes
      BY <2>11, DifferenceTick DEF systime_tick, TypeOK
    <3>2. age' \in [Slots -> SysTimes] /\ waited' \in SysTimes
      BY <2>11, OlderValue DEF systime_tick, TypeOK
    <3>3. overtook' \in [Slots -> SUBSET Slots]
      BY <2>11 DEF systime_tick, TypeOK
    <3> QED
      BY <2>11, <3>1, <3>2, <3>3 DEF systime_tick, TypeOK
  <2>12. CASE UNCHANGED vars
    BY <2>12 DEF TypeOK, vars
  <2> QED
    BY <2>1, <2>2, <2>3, <2>4, <2>5, <2>6, <2>7, <2>8, <2>9, <2>10, <2>11, <2>12
       DEF Next, Cpu
<1> QED
  BY <1>1, <1>2, PTL DEF Spec

-----------------------------------------------------------------------------
(* The clock the scheduler compares with.                                  *)

\* The unsigned difference sched_run computes is the true time since last_run
\* as long as that time fits a systime_t.
THEOREM ClockTheorem == Spec => [](ClockExact /\ FreshSlots)
<1>1. Init => ClockExact /\ FreshSlots
  BY Difference, SchedulerAssumption DEF Init, ClockExact, FreshSlots, SysTimes
<1>2. TypeOK /\ ClockExact /\ FreshSlots /\ [Next]_vars => (ClockExact /\ FreshSlots)'
  <2> SUFFICES ASSUME TypeOK, ClockExact, FreshSlots, [Next]_vars
               PROVE  ClockExact' /\ FreshSlots'
    OBVIOUS
  <2>1. ASSUME NEW entry \in Entries, NEW period \in Periods, sched_add_task(entry, period)
        PROVE  ClockExact' /\ FreshSlots'
    <3>1. table_idx \in Slots
      BY <2>1, SchedulerAssumption DEF sched_add_task, TypeOK, Slots
    <3>2. \A s \in Slots : task_table'[s].last_run = task_table[s].last_run
      BY <2>1, <3>1 DEF sched_add_task, FreshSlots, TypeOK
    <3>3. ClockExact'
      BY <2>1, <3>2 DEF sched_add_task, ClockExact
    <3>4. \A s \in Slots : s >= table_idx' => s > table_idx
      BY <2>1 DEF sched_add_task, TypeOK, Slots
    <3>5. \A s \in Slots : s >= table_idx' => task_table'[s].entry = NULL
      BY <2>1, <3>4 DEF sched_add_task, FreshSlots, TypeOK, Slots
    <3> QED
      BY <2>1, <3>2, <3>3, <3>5 DEF sched_add_task, FreshSlots
  <2>2. CASE sched_run_stamp
    <3>1. idx \in Slots /\ systime \in SysTimes
      BY DEF TypeOK
    <3>2. (systime - systime) % SYSTIME_MOD = 0
      BY <3>1, Difference DEF SysTimes
    <3>3. ASSUME NEW s \in Slots, age'[s] < MaxAge
          PROVE  (systime' - task_table'[s].last_run) % SYSTIME_MOD = age'[s]
      <4>1. CASE s = idx
        BY <2>2, <3>1, <3>2, <4>1 DEF sched_run_stamp, Stamped, TypeOK
      <4>2. CASE s # idx
        BY <2>2, <3>3, <4>2 DEF sched_run_stamp, Stamped, TypeOK, ClockExact
      <4> QED
        BY <4>1, <4>2
    <3>4. \A s \in Slots : task_table'[s].entry = task_table[s].entry
      BY <2>2 DEF sched_run_stamp, Stamped, TypeOK
    <3> QED
      BY <2>2, <3>3, <3>4 DEF sched_run_stamp, ClockExact, FreshSlots
  <2>3. CASE systime_tick
    <3>1. ASSUME NEW s \in Slots, age'[s] < MaxAge
          PROVE  (systime' - task_table'[s].last_run) % SYSTIME_MOD = age'[s]
      <4>1. age[s] \in SysTimes /\ systime \in SysTimes /\ task_table[s].last_run \in SysTimes
        BY DEF TypeOK
      <4>2. age'[s] = Older(age[s]) /\ systime' = Incremented(systime)
            /\ task_table' = task_table
        BY <2>3 DEF systime_tick
      <4>3. age[s] < MaxAge /\ age'[s] = age[s] + 1
        BY <3>1, <4>1, <4>2, OlderValue
      <4> QED
        BY <4>1, <4>2, <4>3, DifferenceTick DEF ClockExact
    <3>2. \A s \in Slots : overtook[s] = {} => overtook'[s] = {}
      BY <2>3 DEF systime_tick
    <3> QED
      BY <2>3, <3>1, <3>2 DEF systime_tick, ClockExact, FreshSlots
  <2>4. CASE \/ sched_add_task_full \/ sched_run_enter \/ sched_run_skip \/ sched_run_due
             \/ task_enter \/ task_poll \/ task_leave_loop \/ task_return
             \/ UNCHANGED vars
    <3>1. UNCHANGED <<task_table, table_idx, systime, age, overtook>>
          /\ (pc' = "main" => pc = "main")
      BY <2>4 DEF sched_add_task_full, sched_run_enter, sched_run_skip, sched_run_due,
                  task_enter, task_poll, task_leave_loop, task_return, vars
    <3> QED
      BY <3>1 DEF ClockExact, FreshSlots
  <2> QED
    BY <2>1, <2>2, <2>3, <2>4 DEF Next, Cpu
<1> QED
  BY <1>1, <1>2, TypeCorrect, PTL DEF Spec

\* sched_run runs a task only when its period of true time has passed since
\* it last did, for every modulus and every interleaving of the ticks.
THEOREM SpacedTheorem == Spec => []SpacedRuns
<1>1. Init => SpacedRuns
  BY DEF Init, SpacedRuns
<1>2. TypeOK /\ ClockExact /\ SpacedRuns /\ [Next]_vars => SpacedRuns'
  <2> SUFFICES ASSUME TypeOK, ClockExact, SpacedRuns, [Next]_vars, pc' = "stamp"
               PROVE  age'[idx'] >= task_table'[idx'].period
    BY DEF SpacedRuns
  <2>1. CASE sched_run_due
    BY <2>1, TimeToRunIsOldEnough DEF sched_run_due, TypeOK
  <2>2. CASE systime_tick
    <3>1. idx \in Slots /\ age[idx] \in SysTimes /\ task_table[idx].period \in SysTimes
      BY DEF TypeOK
    <3>2. Older(age[idx]) >= age[idx] /\ Older(age[idx]) \in SysTimes
      BY <3>1, OlderValue
    <3>3. age[idx] >= task_table[idx].period
      BY <2>2 DEF systime_tick, SpacedRuns
    <3> QED
      BY <2>2, <3>1, <3>2, <3>3 DEF systime_tick, SysTimes
  <2>3. CASE UNCHANGED vars
    BY <2>3 DEF vars, SpacedRuns
  <2> QED
    BY <2>1, <2>2, <2>3
       DEF Next, Cpu, sched_add_task, sched_add_task_full, sched_run_enter, sched_run_skip,
           sched_run_stamp, task_enter, task_poll, task_leave_loop, task_return, vars
<1> QED
  BY <1>1, <1>2, TypeCorrect, ClockTheorem, PTL DEF Spec

\* sched_run never passes over a slot that is due.
THEOREM NoMissedTurnTheorem == Spec => NoMissedTurn
<1>1. TypeOK /\ ClockExact /\ [Next]_vars =>
        [pc = "check" /\ Due(idx) => pc' \in {"check", "stamp"} /\ idx' = idx]_vars
  <2> SUFFICES ASSUME TypeOK, ClockExact, [Next]_vars, pc = "check", Due(idx)
               PROVE  pc' \in {"check", "stamp"} /\ idx' = idx
    OBVIOUS
  <2>1. idx \in Slots /\ task_table[idx].entry # NULL
    BY DEF TypeOK, Due
  <2>2. TimeToRun(systime, task_table[idx])
    BY <2>1, DueIsTimeToRun
  <2> QED
    BY <2>1, <2>2
       DEF Next, Cpu, sched_add_task, sched_add_task_full, sched_run_enter, sched_run_skip,
           sched_run_due, sched_run_stamp, task_enter, task_poll, task_leave_loop,
           task_return, systime_tick, vars
<1> QED
  BY <1>1, TypeCorrect, ClockTheorem, PTL DEF Spec, NoMissedTurn

-----------------------------------------------------------------------------
(* The busy-wait of the tasks.                                             *)

\* The clock a waiting task compares with is exact.
LEMMA WaitClockTheorem == Spec => []WaitClock
<1>1. Init => WaitClock
  BY DEF Init, WaitClock, WaitsUnlessOverflow
<1>2. TypeOK /\ WaitClock /\ [Next]_vars => WaitClock'
  <2> SUFFICES ASSUME TypeOK, WaitClock, [Next]_vars
               PROVE  WaitClock'
    OBVIOUS
  <2>1. CASE task_enter
    <3>1. (systime - systime) % SYSTIME_MOD = 0
      BY Difference DEF TypeOK, SysTimes
    <3> QED
      BY <2>1, <3>1 DEF task_enter, WaitClock, WaitsUnlessOverflow
  <2>2. CASE task_leave_loop
    <3>1. systime \in SysTimes /\ start \in SysTimes /\ waited \in SysTimes
      BY DEF TypeOK
    <3>2. waited < MaxAge => (systime - start) % SYSTIME_MOD = waited
      BY <2>2 DEF task_leave_loop, WaitClock
    <3>3. ASSUME start + WAIT < SYSTIME_MOD
          PROVE  waited >= WAIT
      <4>1. (start + WAIT) % SYSTIME_MOD = start + WAIT
        BY <3>1, <3>3, SchedulerAssumption DEF SysTimes
      <4>2. start + WAIT <= systime
        BY <2>2, <3>1, <4>1, SchedulerAssumption DEF task_leave_loop, KeepWaiting, SysTimes
      <4>3. (systime - start) % SYSTIME_MOD = systime - start
        BY <3>1, <4>2, Difference, SchedulerAssumption DEF SysTimes
      <4> QED
        BY <3>1, <3>2, <4>2, <4>3, SchedulerAssumption DEF SysTimes, MaxAge
    <3> QED
      BY <2>2, <3>1, <3>3, SchedulerAssumption
         DEF task_leave_loop, WaitClock, WaitsUnlessOverflow, SysTimes
  <2>3. CASE systime_tick
    <3>1. systime \in SysTimes /\ start \in SysTimes /\ waited \in SysTimes
          /\ WAIT \in SysTimes
      BY SchedulerAssumption DEF TypeOK
    <3>2. CASE pc = "wait"
      <4>1. waited' = Older(waited) /\ systime' = Incremented(systime) /\ UNCHANGED <<pc, start>>
        BY <2>3, <3>2 DEF systime_tick
      <4>2. waited' < MaxAge => waited < MaxAge /\ waited' = waited + 1
        BY <3>1, <4>1, OlderValue
      <4> QED
        BY <3>1, <3>2, <4>1, <4>2, DifferenceTick DEF WaitClock, WaitsUnlessOverflow
    <3>3. CASE pc = "exit"
      <4>1. waited' \in SysTimes /\ waited' >= waited /\ UNCHANGED <<pc, start>>
        BY <2>3, <3>1, <3>3, OlderValue DEF systime_tick
      <4> QED
        BY <3>1, <3>3, <4>1 DEF WaitClock, WaitsUnlessOverflow, SysTimes
    <3>4. CASE pc \notin {"wait", "exit"}
      BY <2>3, <3>4 DEF systime_tick, WaitClock, WaitsUnlessOverflow
    <3> QED
      BY <3>2, <3>3, <3>4
  <2>4. CASE task_poll \/ sched_add_task_full \/ UNCHANGED vars
    BY <2>4 DEF task_poll, sched_add_task_full, vars, WaitClock, WaitsUnlessOverflow
  <2>5. CASE \/ \E entry \in Entries, period \in Periods : sched_add_task(entry, period)
             \/ sched_run_enter \/ sched_run_skip \/ sched_run_due \/ sched_run_stamp
             \/ task_return
    <3>1. pc' \notin {"wait", "exit"}
      BY <2>5 DEF sched_add_task, sched_run_enter, sched_run_skip, sched_run_due,
                  sched_run_stamp, task_return
    <3> QED
      BY <3>1 DEF WaitClock, WaitsUnlessOverflow
  <2> QED
    BY <2>1, <2>2, <2>3, <2>4, <2>5 DEF Next, Cpu
<1> QED
  BY <1>1, <1>2, TypeCorrect, PTL DEF Spec

\* task0 and task1 leave their loop before WAIT ticks have passed only if
\* start + WAIT overflowed.
THEOREM WaitTheorem == Spec => []WaitsUnlessOverflow
<1>1. WaitClock => WaitsUnlessOverflow
  BY DEF WaitClock
<1> QED
  BY <1>1, WaitClockTheorem, PTL

-----------------------------------------------------------------------------
(* Fairness of the scan.                                                   *)

\* Moving on to the next slot keeps the scan on its way to s, past j.
LEMMA OnTheWayNext ==
    ASSUME NEW j \in Slots, NEW i \in Slots, NEW s \in Slots, j # s, i # s,
           OnTheWay(j, i, s)
    PROVE  OnTheWay(j, NextSlot(i), s) /\ NextSlot(i) # j
BY NextSlotValue, SchedulerAssumption DEF OnTheWay, Slots

\* While a task is due, sched_run starts no other task twice.
THEOREM OvertakenTheorem == Spec => []OvertakenOnce
<1>1. Init => OvertakenAhead
  BY DEF Init, OvertakenAhead
<1>2. TypeOK /\ ClockExact /\ FreshSlots /\ OvertakenAhead /\ [Next]_vars => OvertakenAhead'
  <2> SUFFICES ASSUME TypeOK, ClockExact, FreshSlots, OvertakenAhead, [Next]_vars,
                      NEW s \in Slots, NEW j \in overtook'[s]
               PROVE  /\ j # s
                      /\ Due(s)'
                      /\ OnTheWay(j, idx', s)
                      /\ idx' = j => pc' \notin {"check", "stamp"}
                      /\ idx' = s => pc' \in {"check", "stamp"}
    BY DEF OvertakenAhead
  <2> DEFINE Ahead == /\ j # s
                      /\ Due(s)
                      /\ OnTheWay(j, idx, s)
                      /\ idx = j => pc \notin {"check", "stamp"}
                      /\ idx = s => pc \in {"check", "stamp"}
  <2>0. (j \in overtook[s] => Ahead) /\ (j \in overtook[s] => j \in Slots) /\ idx \in Slots
    BY DEF OvertakenAhead, TypeOK
  <2>1. CASE pc = "main"
    <3>1. overtook' = overtook \/ systime_tick
      BY <2>1 DEF Next, Cpu, sched_add_task, sched_add_task_full, sched_run_enter,
                  sched_run_skip, sched_run_due, sched_run_stamp, task_enter, task_poll,
                  task_leave_loop, task_return, vars
    <3> QED
      BY <2>1, <3>1 DEF FreshSlots, systime_tick
  <2>2. CASE sched_run_skip
    <3>1. j \in overtook[s] /\ UNCHANGED <<task_table, age, pc>> /\ pc = "check"
          /\ idx' = NextSlot(idx)
      BY <2>2 DEF sched_run_skip
    <3>2. idx # s
      BY <2>0, <2>2, <3>1, DueIsTimeToRun DEF sched_run_skip, Due
    <3>3. OnTheWay(j, NextSlot(idx), s) /\ NextSlot(idx) # j
      BY <2>0, <3>1, <3>2, OnTheWayNext
    <3> QED
      BY <2>0, <3>1, <3>3 DEF Due
  <2>3. CASE sched_run_stamp
    <3>1. s # idx /\ Due(s) /\ j \in overtook[s] \cup {idx} /\ pc = "stamp" /\ pc' = "call"
          /\ idx' = idx
      BY <2>3 DEF sched_run_stamp
    <3>2. Due(s)'
      BY <2>0, <2>3, <3>1 DEF sched_run_stamp, Stamped, Due, TypeOK
    <3>3. j # s /\ OnTheWay(j, idx, s)
      BY <2>0, <3>1 DEF OnTheWay, Slots
    <3> QED
      BY <3>1, <3>2, <3>3
  <2>4. CASE task_return
    <3>1. j \in overtook[s] /\ UNCHANGED <<task_table, age>> /\ pc = "exit" /\ pc' = "check"
          /\ idx' = NextSlot(idx)
      BY <2>4 DEF task_return
    <3>2. idx # s
      BY <2>0, <3>1
    <3>3. OnTheWay(j, NextSlot(idx), s) /\ NextSlot(idx) # j
      BY <2>0, <3>1, <3>2, OnTheWayNext
    <3> QED
      BY <2>0, <3>1, <3>3 DEF Due
  <2>5. CASE systime_tick
    <3>1. j \in overtook[s] /\ age[s] + 1 < MaxAge /\ age'[s] = Older(age[s])
          /\ UNCHANGED <<task_table, idx, pc>>
      BY <2>5 DEF systime_tick
    <3>2. age[s] \in SysTimes /\ task_table[s].period \in SysTimes
      BY DEF TypeOK
    <3>3. Due(s)'
      BY <2>0, <3>1, <3>2, SchedulerAssumption DEF Due, Older, SysTimes, MaxAge
    <3> QED
      BY <2>0, <3>1, <3>3
  <2>6. CASE pc # "main" /\ (sched_run_due \/ task_enter \/ task_leave_loop)
    <3>1. j \in overtook[s] /\ UNCHANGED <<task_table, age, idx>>
          /\ (pc \in {"check", "stamp"} <=> pc' \in {"check", "stamp"})
      BY <2>6 DEF sched_run_due, task_enter, task_leave_loop
    <3> QED
      BY <2>0, <3>1 DEF Due
  <2>7. CASE task_poll \/ UNCHANGED vars
    BY <2>0, <2>7 DEF task_poll, vars, Due
  <2> QED
    BY <2>1, <2>2, <2>3, <2>4, <2>5, <2>6, <2>7
       DEF Next, Cpu, sched_add_task, sched_add_task_full, sched_run_enter
<1>3. OvertakenAhead => OvertakenOnce
  BY DEF OvertakenAhead, OvertakenOnce
<1> QED
  BY <1>1, <1>2, <1>3, TypeCorrect, ClockTheorem, PTL DEF Spec

-----------------------------------------------------------------------------
(* sched.c implements PeriodicTasks.                                       *)

\* sched_run calls no null entry.
LEMMA CalledTheorem == Spec => []NotNullCalled
<1>1. Init => NotNullCalled
  BY DEF Init, NotNullCalled
<1>2. TypeOK /\ NotNullCalled /\ [Next]_vars => NotNullCalled'
  <2> SUFFICES ASSUME TypeOK, NotNullCalled, [Next]_vars, pc' \notin {"main", "check"}
               PROVE  task_table'[idx'].entry # NULL
    BY DEF NotNullCalled
  <2>1. CASE sched_run_stamp
    BY <2>1 DEF sched_run_stamp, Stamped, NotNullCalled, TypeOK
  <2>2. CASE ~sched_run_stamp
    BY <2>2 DEF NotNullCalled, Next, Cpu, sched_add_task, sched_add_task_full,
                sched_run_enter, sched_run_skip, sched_run_due, task_enter, task_poll,
                task_leave_loop, task_return, systime_tick, vars
  <2> QED
    BY <2>1, <2>2
<1> QED
  BY <1>1, <1>2, TypeCorrect, PTL DEF Spec

\* Every behaviour of the scheduler, seen through periodBar and runningBar, is
\* one of PeriodicTasks: stamps are starts that keep the period, and a task
\* runs to its return before another one starts.
THEOREM Refinement == Spec => PeriodicSpec
<1>1. Init => Periodic!Init
  BY DEF Init, Periodic!Init, periodBar, runningBar, Running
<1>2. TypeOK /\ FreshSlots /\ SpacedRuns /\ NotNullCalled /\ [Next]_vars
        => [Periodic!Next]_(Periodic!pvars)
  <2> SUFFICES ASSUME TypeOK, FreshSlots, SpacedRuns, NotNullCalled, [Next]_vars
               PROVE  Periodic!Next \/ UNCHANGED <<periodBar, age, runningBar>>
    BY DEF Periodic!pvars
  <2>1. ASSUME NEW entry \in Entries, NEW period \in Periods, sched_add_task(entry, period)
        PROVE  Periodic!Next \/ UNCHANGED <<periodBar, age, runningBar>>
    <3>1. table_idx \in Slots /\ period \in 0 .. MaxAge
      BY <2>1, SchedulerAssumption DEF sched_add_task, TypeOK, Slots, SysTimes, MaxAge
    <3>2. runningBar = NULL /\ UNCHANGED <<age, runningBar>>
      BY <2>1 DEF sched_add_task, runningBar, Running
    <3>3. periodBar[table_idx] = NULL
      BY <3>1 DEF FreshSlots, periodBar, TypeOK
    <3>4. periodBar' = [periodBar EXCEPT ![table_idx] = IF entry # NULL THEN period ELSE NULL]
      BY <2>1, <3>1 DEF sched_add_task, periodBar, TypeOK
    <3>5. CASE entry = NULL
      BY <3>1, <3>2, <3>3, <3>4, <3>5 DEF periodBar
    <3>6. CASE entry # NULL
      <4>1. Periodic!Register(table_idx)
        BY <3>1, <3>2, <3>3, <3>4, <3>6 DEF Periodic!Register
      <4> QED
        BY <3>1, <4>1 DEF Periodic!Next
    <3> QED
      BY <3>5, <3>6
  <2>2. CASE sched_run_stamp
    <3>1. idx \in Slots /\ task_table[idx].entry # NULL
      BY <2>2 DEF TypeOK, NotNullCalled, sched_run_stamp
    <3>2. runningBar = NULL /\ runningBar' = idx
      BY <2>2 DEF sched_run_stamp, runningBar, Running
    <3>3. periodBar' = periodBar
      BY <2>2 DEF sched_run_stamp, Stamped, periodBar, TypeOK
    <3>4. periodBar[idx] = task_table[idx].period /\ task_table[idx].period \in SysTimes
      BY <3>1 DEF periodBar, TypeOK
    <3>5. age[idx] >= periodBar[idx] /\ periodBar[idx] # NULL
      BY <2>2, <3>4, SchedulerAssumption DEF SpacedRuns, sched_run_stamp
    <3>6. Periodic!Start(idx)
      BY <2>2, <3>2, <3>3, <3>5 DEF Periodic!Start, sched_run_stamp
    <3> QED
      BY <3>1, <3>6 DEF Periodic!Next
  <2>3. CASE task_return
    <3>1. runningBar = idx /\ idx # NULL /\ runningBar' = NULL
      BY <2>3, SchedulerAssumption DEF task_return, runningBar, Running, TypeOK
    <3>2. UNCHANGED <<periodBar, age>>
      BY <2>3 DEF task_return, periodBar
    <3> QED
      BY <3>1, <3>2 DEF Periodic!Finish, Periodic!Next
  <2>4. CASE systime_tick
    <3>1. UNCHANGED <<periodBar, runningBar>>
      BY <2>4 DEF systime_tick, periodBar, runningBar, Running
    <3> QED
      BY <2>4, <3>1 DEF systime_tick, Older, Periodic!Tick, Periodic!Next
  <2>5. CASE \/ sched_add_task_full \/ sched_run_enter \/ sched_run_skip \/ sched_run_due
             \/ task_enter \/ task_poll \/ task_leave_loop \/ UNCHANGED vars
    <3>1. UNCHANGED <<periodBar, age>>
      BY <2>5 DEF sched_add_task_full, sched_run_enter, sched_run_skip, sched_run_due,
                  task_enter, task_poll, task_leave_loop, vars, periodBar
    <3>2. UNCHANGED runningBar
      BY <2>5 DEF sched_add_task_full, sched_run_enter, sched_run_skip, sched_run_due,
                  task_enter, task_poll, task_leave_loop, vars, runningBar, Running
    <3> QED
      BY <3>1, <3>2
  <2> QED
    BY <2>1, <2>2, <2>3, <2>4, <2>5 DEF Next, Cpu
<1> QED
  BY <1>1, <1>2, TypeCorrect, ClockTheorem, SpacedTheorem, CalledTheorem, PTL
     DEF Spec, PeriodicSpec, Periodic!Spec

-----------------------------------------------------------------------------
(* The times of SchedulerTimed.                                            *)

\* The ticks of k visits.  A product of two constants is kept closed, and its
\* properties are the lemmas below.
Visits(k) == k * SlotTicks

\* The number of slots from the one being visited to slot s, both ways counted in
\* the direction of the scan; MAX_NUM_TASKS for the slot being visited.
Ahead(s) == IF s > idx THEN s - idx ELSE s - idx + MAX_NUM_TASKS

\* The ticks that can still come in the visit of slot idx, from each step on.
Left ==
    CASE pc = "check" -> slack + 3 * MAX_BURST + WAIT
      [] pc = "stamp" -> slack + 2 * MAX_BURST + WAIT
      [] pc = "call" -> slack + MAX_BURST + WAIT
      [] pc = "wait" -> (WAIT - waited) + MAX_BURST
      [] OTHER -> slack

\* The ticks that can still come before slot s is stamped.
Until(s) ==
    IF idx = s /\ pc = "check" THEN slack + MAX_BURST
    ELSE IF idx = s /\ pc = "stamp" THEN slack
    ELSE Left + Visits(Ahead(s) - 1) + OwnTicks

\* Whatever a slot's age is, there is enough time left to stamp it.
InTime(s) ==
    \E ticks \in {task_table[s].period, SlotTicks, MainTicks} :
        age[s] + Until(s) <= Lateness(ticks)

\* The inductive invariant: what is left of the wait, of main, and of the time
\* before each stamp.
TimedInv ==
    /\ slack \in 0 .. MAX_BURST
    /\ \A s \in Slots : task_table[s].entry # NULL => task_table[s].period \in Periods
    /\ pc = "wait" => waited + slack <= WAIT
    /\ pc = "main" => \A s \in Slots : age[s] + slack <= (table_idx + 1) * MAX_BURST
    /\ pc \notin {"main", "hang"} =>
         \A s \in Slots : task_table[s].entry # NULL => InTime(s)

\* The constants are natural numbers.
LEMMA Times ==
    /\ MAX_BURST \in Nat \ {0} /\ WAIT \in Nat /\ MAX_NUM_TASKS \in Nat \ {0}
    /\ SlotTicks \in Nat /\ SlotTicks = WAIT + 4 * MAX_BURST
    /\ OwnTicks \in Nat /\ OwnTicks = 2 * MAX_BURST
    /\ MainTicks \in Nat
    /\ MaxAge \in Nat /\ SYSTIME_MOD = MaxAge + 1
BY SchedulerAssumption, BurstAssumption DEF SlotTicks, OwnTicks, MainTicks, SysTimes, MaxAge

\* Visits one after the other.
LEMMA VisitsValue ==
    /\ Visits(0) = 0
    /\ \A k \in Nat : Visits(k) \in Nat /\ Visits(k + 1) = Visits(k) + SlotTicks
    /\ \A j, k \in Nat : j <= k => Visits(j) <= Visits(k)
<1>1. SlotTicks \in Nat
  BY Times
<1>2. ASSUME NEW t \in Nat
      PROVE  /\ 0 * t = 0
             /\ \A k \in Nat : k * t \in Nat /\ (k + 1) * t = k * t + t
             /\ \A j, k \in Nat : j <= k => j * t <= k * t
  OBVIOUS
<1> QED
  BY <1>1, <1>2 DEF Visits

\* The lateness, in visits.
LEMMA LatenessValue ==
    ASSUME NEW ticks \in Nat
    PROVE  /\ Visits(MAX_NUM_TASKS - 1) \in Nat
           /\ Lateness(ticks) = ticks + Visits(MAX_NUM_TASKS - 1) + OwnTicks
           /\ Lateness(ticks) \in Nat
<1>1. MAX_NUM_TASKS - 1 \in Nat
  BY Times
<1> QED
  BY <1>1, Times, VisitsValue DEF Lateness, Visits

\* There are 1 to MAX_NUM_TASKS visits up to slot s.
LEMMA AheadValue ==
    ASSUME TypeOK, NEW s \in Slots
    PROVE  /\ Ahead(s) \in 1 .. MAX_NUM_TASKS
           /\ s = idx => Ahead(s) = MAX_NUM_TASKS
           /\ Ahead(s) - 1 \in Nat
           /\ Visits(Ahead(s) - 1) \in Nat
           /\ Visits(Ahead(s) - 1) <= Visits(MAX_NUM_TASKS - 1)
<1>1. idx \in Slots /\ MAX_NUM_TASKS \in Nat \ {0}
  BY Times DEF TypeOK
<1>2. Ahead(s) \in 1 .. MAX_NUM_TASKS /\ (s = idx => Ahead(s) = MAX_NUM_TASKS)
  BY <1>1 DEF Ahead, Slots
<1>3. Ahead(s) - 1 \in Nat /\ MAX_NUM_TASKS - 1 \in Nat /\ Ahead(s) - 1 <= MAX_NUM_TASKS - 1
  BY <1>1, <1>2
<1> QED
  BY <1>2, <1>3, VisitsValue

\* Moving on to the next slot leaves the visits in between, and the own check and
\* stamp.
LEMMA NextVisit ==
    ASSUME TypeOK, NEW s \in Slots, idx' = NextSlot(idx), pc' = "check", slack' = MAX_BURST
    PROVE  Until(s)' = Visits(Ahead(s) - 1) + OwnTicks
<1>1. idx \in Slots /\ idx' \in Slots
      /\ idx' = IF idx = MAX_NUM_TASKS - 1 THEN 0 ELSE idx + 1
  BY NextSlotValue DEF TypeOK
<1>2. CASE idx' = s
  <2>1. Ahead(s) = 1
    BY <1>1, <1>2, Times DEF Ahead, Slots
  <2>2. Visits(Ahead(s) - 1) = 0
    BY <2>1, VisitsValue
  <2> QED
    BY <1>2, <2>2, Times DEF Until
<1>3. CASE idx' # s
  <2>1. Ahead(s)' = Ahead(s) - 1 /\ Ahead(s) \in Nat /\ Ahead(s) - 2 \in Nat
    BY <1>1, <1>3, Times DEF Ahead, Slots
  <2>2. Visits(Ahead(s) - 1) = Visits(Ahead(s) - 2) + SlotTicks /\ Visits(Ahead(s) - 2) \in Nat
    <3>1. (Ahead(s) - 2) + 1 = Ahead(s) - 1
      BY <2>1
    <3> QED
      BY <2>1, <3>1, VisitsValue
  <2>3. Left' = SlotTicks
    BY Times DEF Left
  <2>4. Until(s)' = Left' + Visits(Ahead(s)' - 1) + OwnTicks
    BY <1>3 DEF Until, Visits, OwnTicks
  <2>5. Ahead(s)' - 1 = Ahead(s) - 2
    BY <2>1
  <2> QED
    BY <2>2, <2>3, <2>4, <2>5, Times
<1> QED
  BY <1>2, <1>3

\* What is left is a number of ticks.
LEMMA LeftValue ==
    ASSUME TypeOK, TimedInv
    PROVE  Left \in Nat
<1>1. waited \in Nat /\ slack \in Nat
  BY DEF TypeOK, TimedInv, SysTimes
<1>2. CASE pc = "wait"
  <2>1. waited <= WAIT
    BY <1>1, <1>2, Times DEF TimedInv
  <2> QED
    BY <1>1, <1>2, <2>1, Times DEF Left
<1>3. CASE pc # "wait"
  BY <1>1, <1>3, Times DEF Left
<1> QED
  BY <1>2, <1>3

\* And so is what is left before a stamp.
LEMMA UntilValue ==
    ASSUME TypeOK, TimedInv, NEW s \in Slots
    PROVE  Until(s) \in Nat
<1>1. slack \in Nat
  BY DEF TimedInv
<1> QED
  BY <1>1, LeftValue, AheadValue, Times DEF Until

\* Only lateness below the wrap is reached.
LEMMA InTimeFits ==
    ASSUME TypeOK, TimedInv, TimesFit, NEW s \in Slots, task_table[s].entry # NULL, InTime(s)
    PROVE  age[s] < MaxAge
<1>1. task_table[s].period \in Periods /\ age[s] \in Nat /\ Until(s) \in Nat
  BY UntilValue DEF TimedInv, TypeOK, SysTimes
<1>2. PICK ticks \in Periods \cup {SlotTicks, MainTicks} : age[s] + Until(s) <= Lateness(ticks)
  BY <1>1 DEF InTime
<1>3. ticks \in Nat
  BY Times, SchedulerAssumption DEF SysTimes
<1>4. Lateness(ticks) < MaxAge /\ Lateness(ticks) \in Nat
  BY <1>3, LatenessValue DEF TimesFit
<1> QED
  BY <1>1, <1>2, <1>4, Times

\* A step that takes no more time than it was given keeps a slot in time.
LEMMA InTimeKept ==
    ASSUME TypeOK, NEW s \in Slots, InTime(s),
           task_table'[s].period = task_table[s].period,
           age[s] + Until(s) \in Nat, age'[s] + Until(s)' \in Nat,
           age'[s] + Until(s)' <= age[s] + Until(s)
    PROVE  InTime(s)'
<1>1. PICK ticks \in {task_table[s].period, SlotTicks, MainTicks} :
        age[s] + Until(s) <= Lateness(ticks)
  BY DEF InTime
<1>2. ticks \in Nat
  BY Times DEF TypeOK, SysTimes
<1>3. Lateness(ticks) \in Nat
  BY <1>2, LatenessValue
<1>4. age'[s] + Until(s)' <= Lateness(ticks)
  BY <1>1, <1>3
<1>5. ticks \in {task_table'[s].period, SlotTicks, MainTicks}
  BY <1>1
<1> QED
  BY <1>4, <1>5 DEF InTime, Lateness, SlotTicks, MainTicks, OwnTicks

\* The wait fits the clock.
LEMMA WaitFits ==
    ASSUME TimesFit
    PROVE  WAIT < MaxAge /\ MAX_BURST <= WAIT
<1>1. Lateness(SlotTicks) < MaxAge
  BY DEF TimesFit
<1>2. SlotTicks <= Lateness(SlotTicks) /\ Lateness(SlotTicks) \in Nat
  BY Times, LatenessValue
<1> QED
  BY <1>1, <1>2, Times DEF TimesFit

\* A poll that keeps waiting has not waited WAIT ticks: the clock would show
\* exactly the deadline.
LEMMA PollIsEarly ==
    ASSUME TypeOK, WaitClock, TimesFit, pc = "wait", KeepWaiting(systime, start),
           waited <= WAIT
    PROVE  waited < WAIT
<1>1. systime \in SysTimes /\ start \in SysTimes /\ waited \in SysTimes /\ WAIT \in SysTimes
  BY SchedulerAssumption DEF TypeOK
<1>2. SUFFICES ASSUME waited = WAIT PROVE FALSE
  BY <1>1 DEF SysTimes
<1>3. (systime - start) % SYSTIME_MOD = WAIT
  BY <1>2, WaitFits DEF WaitClock
<1>4. systime = IF start + WAIT < SYSTIME_MOD THEN start + WAIT ELSE start + WAIT - SYSTIME_MOD
  BY <1>1, <1>3, Difference, SchedulerAssumption DEF SysTimes
<1>5. (start + WAIT) % SYSTIME_MOD = systime
  <2>1. CASE start + WAIT < SYSTIME_MOD
    BY <1>1, <1>4, <2>1, SchedulerAssumption DEF SysTimes
  <2>2. CASE start + WAIT >= SYSTIME_MOD
    BY <1>1, <1>4, <2>2, SchedulerAssumption DEF SysTimes
  <2> QED
    BY <1>1, <2>1, <2>2, SchedulerAssumption DEF SysTimes
<1> QED
  BY <1>1, <1>5 DEF KeepWaiting, SysTimes

\* The bursts of main add up.
LEMMA BurstsValue ==
    \A k \in Nat : /\ k * MAX_BURST \in Nat
                   /\ (k + 1) * MAX_BURST = k * MAX_BURST + MAX_BURST
                   /\ k <= MAX_NUM_TASKS => (k + 1) * MAX_BURST <= MainTicks
<1>1. ASSUME NEW b \in Nat, NEW n \in Nat
      PROVE  \A k \in Nat : /\ k * b \in Nat
                            /\ (k + 1) * b = k * b + b
                            /\ k <= n => (k + 1) * b <= (n + 1) * b
  OBVIOUS
<1> QED
  BY <1>1, Times DEF MainTicks

\* A tick spends one of the ticks that were left.
LEMMA TickInTime ==
    ASSUME TypeOK, TypeOK', TimesFit, TimedInv, TimedTick
    PROVE  TimedInv'
<1>1. slack \in Nat /\ slack > 0 /\ slack' = slack - 1 /\ slack <= MAX_BURST
      /\ waited \in Nat /\ WAIT < MaxAge
  BY WaitFits, Times DEF TimedTick, TimedInv, TypeOK, SysTimes
<1>2. UNCHANGED <<task_table, table_idx, idx, pc>>
  BY DEF TimedTick, systime_tick
<1>3. pc = "wait" => waited' = waited + 1 /\ waited + slack <= WAIT
  <2>1. SUFFICES ASSUME pc = "wait" PROVE waited' = waited + 1 /\ waited + slack <= WAIT
    OBVIOUS
  <2>2. waited' = Older(waited) /\ waited + slack <= WAIT
    BY <2>1 DEF TimedTick, systime_tick, TimedInv
  <2> QED
    BY <1>1, <2>2, Times DEF Older
<1>4. \A s \in Slots : age[s] \in Nat /\ age'[s] \in Nat /\ age'[s] <= age[s] + 1
  BY DEF TimedTick, systime_tick, Older, TypeOK, SysTimes
<1>5. pc = "main" => \A s \in Slots : age'[s] + slack' <= (table_idx + 1) * MAX_BURST
  <2>1. (table_idx + 1) * MAX_BURST \in Nat
    BY BurstsValue DEF TypeOK
  <2> QED
    BY <1>1, <1>4, <2>1 DEF TimedInv
<1>6. ASSUME NEW s \in Slots, task_table[s].entry # NULL, pc \notin {"main", "hang"}
      PROVE  InTime(s)'
  <2>1. Left' = Left - 1
    <3>1. CASE pc = "wait"
      BY <1>1, <1>2, <1>3, <3>1, Times DEF Left
    <3>2. CASE pc # "wait"
      BY <1>1, <1>2, <3>2, Times DEF Left
    <3> QED
      BY <3>1, <3>2
  <2>2. Ahead(s)' = Ahead(s)
    BY <1>2 DEF Ahead
  <2>3. Until(s)' = Until(s) - 1
    <3>1. Left \in Nat /\ Visits(Ahead(s) - 1) \in Nat /\ OwnTicks \in Nat /\ MAX_BURST \in Nat
      BY LeftValue, AheadValue, Times
    <3>2. Until(s)' = IF idx = s /\ pc = "check" THEN slack' + MAX_BURST
                      ELSE IF idx = s /\ pc = "stamp" THEN slack'
                      ELSE Left' + Visits(Ahead(s) - 1) + OwnTicks
      BY <1>2, <2>2 DEF Until, Visits, OwnTicks, SlotTicks
    <3> QED
      BY <1>1, <2>1, <3>1, <3>2 DEF Until
  <2>4. Until(s) \in Nat /\ Until(s) > 0
    <3>1. Left >= 1
      BY <1>1, <1>3, Times, LeftValue DEF Left
    <3> QED
      BY <1>1, <3>1, LeftValue, AheadValue, Times DEF Until
  <2>5. InTime(s)
    BY <1>6 DEF TimedInv
  <2>6. /\ age[s] + Until(s) \in Nat /\ age'[s] + Until(s)' \in Nat
        /\ age'[s] + Until(s)' <= age[s] + Until(s)
    BY <1>4, <2>3, <2>4
  <2> QED
    BY <1>2, <2>5, <2>6, InTimeKept
<1>7. slack' \in 0 .. MAX_BURST
  BY <1>1, Times
<1>8. pc = "wait" => waited' + slack' <= WAIT
  BY <1>1, <1>3, Times
<1> QED
  BY <1>2, <1>5, <1>6, <1>7, <1>8 DEF TimedInv

\* The steps of the CPU inside a visit take no more than the visit was given.
LEMMA VisitStep ==
    ASSUME TypeOK, TypeOK', TimedInv, NEW s \in Slots, InTime(s),
           UNCHANGED idx,
           task_table'[s].period = task_table[s].period,
           age'[s] = age[s],
           Left \in Nat, Left' \in Nat, Left' <= Left,
           idx = s => pc' # "check",
           idx = s /\ pc = "stamp" => FALSE,
           idx = s /\ pc = "check" => pc' = "stamp" /\ slack' = MAX_BURST,
           pc' = "stamp" => pc = "check"
    PROVE  InTime(s)'
<1>1. Ahead(s)' = Ahead(s)
  BY DEF Ahead
<1>2. age[s] \in Nat /\ slack \in Nat /\ Visits(Ahead(s) - 1) \in Nat
  BY AheadValue DEF TypeOK, TimedInv, SysTimes
<1>3. CASE idx = s /\ pc = "check"
  <2>1. Until(s) = slack + MAX_BURST /\ Until(s)' = MAX_BURST
    BY <1>3 DEF Until
  <2>2. /\ age[s] + Until(s) \in Nat /\ age'[s] + Until(s)' \in Nat
        /\ age'[s] + Until(s)' <= age[s] + Until(s)
    BY <1>2, <2>1, Times
  <2> QED
    BY <2>2, InTimeKept
<1>4. CASE ~(idx = s /\ pc = "check")
  <2>1. Until(s) = Left + Visits(Ahead(s) - 1) + OwnTicks
    BY <1>4 DEF Until
  <2>2. Until(s)' = Left' + Visits(Ahead(s) - 1) + OwnTicks
    BY <1>1, <1>4 DEF Until, Visits, OwnTicks, SlotTicks
  <2>3. /\ age[s] + Until(s) \in Nat /\ age'[s] + Until(s)' \in Nat
        /\ age'[s] + Until(s)' <= age[s] + Until(s)
    BY <1>2, <2>1, <2>2, Times
  <2> QED
    BY <2>3, InTimeKept
<1> QED
  BY <1>3, <1>4

\* Leaving the visit of another slot takes no more than that visit was given.
LEMMA NextSlotInTime ==
    ASSUME TypeOK, TimedInv, NEW s \in Slots, InTime(s),
           ~(idx = s /\ pc \in {"check", "stamp"}),
           idx' = NextSlot(idx), pc' = "check", slack' = MAX_BURST,
           UNCHANGED <<task_table, age>>
    PROVE  InTime(s)'
<1>1. Until(s) = Left + Visits(Ahead(s) - 1) + OwnTicks
  BY DEF Until
<1>2. Until(s)' = Visits(Ahead(s) - 1) + OwnTicks
  BY NextVisit
<1>3. age[s] \in Nat /\ Left \in Nat /\ Visits(Ahead(s) - 1) \in Nat
  BY AheadValue, LeftValue DEF TypeOK, SysTimes
<1>4. /\ age[s] + Until(s) \in Nat /\ age'[s] + Until(s)' \in Nat
      /\ age'[s] + Until(s)' <= age[s] + Until(s)
  BY <1>1, <1>2, <1>3, Times
<1> QED
  BY <1>4, InTimeKept

\* A step of the CPU is on time for every task.
LEMMA CpuInTime ==
    ASSUME TypeOK, TypeOK', ClockExact, WaitClock, TimesFit, TimedInv, TimedCpu
    PROVE  TimedInv'
<1>1. slack \in Nat /\ slack <= MAX_BURST /\ waited \in Nat /\ MAX_BURST <= WAIT
  BY WaitFits, Times DEF TimedInv, TypeOK, SysTimes
<1>2. slack' \in 0 .. MAX_BURST
  BY Times DEF TimedCpu
<1>3. Left \in Nat
  BY LeftValue
<1>4. \A s \in Slots : age[s] \in Nat
  BY DEF TypeOK, SysTimes
<1>5. ASSUME NEW entry \in Entries, NEW period \in Periods, sched_add_task(entry, period)
      PROVE  TimedInv'
  <2>1. pc = "main" /\ pc' = "main" /\ age' = age /\ table_idx' = table_idx + 1
        /\ slack' = MAX_BURST
    BY <1>5 DEF sched_add_task, TimedCpu
  <2>2. table_idx \in Nat /\ table_idx \in Slots
    BY <1>5, Times DEF sched_add_task, TypeOK, Slots
  <2>3. \A s \in Slots : task_table'[s].entry # NULL => task_table'[s].period \in Periods
    BY <1>5, <2>2 DEF sched_add_task, TypeOK, TimedInv
  <2>4. (table_idx' + 1) * MAX_BURST = (table_idx + 1) * MAX_BURST + MAX_BURST
        /\ (table_idx + 1) * MAX_BURST \in Nat
    <3>1. table_idx + 1 \in Nat
      BY <2>2
    <3> QED
      BY <2>1, <3>1, BurstsValue
  <2>5. \A s \in Slots : age'[s] + slack' <= (table_idx' + 1) * MAX_BURST
    BY <1>1, <1>4, <2>1, <2>4, Times DEF TimedInv
  <2> QED
    BY <1>2, <2>1, <2>3, <2>5 DEF TimedInv
<1>6. CASE sched_run_enter
  <2>1. pc = "main" /\ pc' = "check" /\ idx' = 0 /\ slack' = MAX_BURST
        /\ UNCHANGED <<task_table, table_idx, age>>
    BY <1>6 DEF sched_run_enter, TimedCpu
  <2>2. ASSUME NEW s \in Slots
        PROVE  InTime(s)'
    <3>1. age[s] <= MainTicks
      <4>1. age[s] + slack <= (table_idx + 1) * MAX_BURST
        BY <2>1 DEF TimedInv
      <4>2. (table_idx + 1) * MAX_BURST <= MainTicks /\ (table_idx + 1) * MAX_BURST \in Nat
        <5>1. table_idx \in Nat /\ table_idx <= MAX_NUM_TASKS /\ table_idx + 1 \in Nat
          BY Times DEF TypeOK
        <5> QED
          BY <5>1, BurstsValue
      <4> QED
        BY <1>1, <1>4, <4>1, <4>2, Times
    <3>2. Until(s)' = Visits(s) + OwnTicks
      <4>1. CASE s = 0
        <5>1. Until(s)' = 2 * MAX_BURST /\ Visits(s) = 0
          BY <2>1, <4>1, Times, VisitsValue DEF Until
        <5> QED
          BY <5>1, Times
      <4>2. CASE s # 0
        <5>1. Ahead(s)' = s /\ s - 1 \in Nat /\ (s - 1) + 1 = s
          BY <2>1, <4>2, Times DEF Ahead, Slots
        <5>2. Left' = SlotTicks
          BY <2>1, Times DEF Left
        <5>3. Visits(s) = Visits(s - 1) + SlotTicks /\ Visits(s - 1) \in Nat
          BY <5>1, VisitsValue
        <5>4. Until(s)' = Left' + Visits(s - 1) + OwnTicks
          BY <2>1, <4>2, <5>1 DEF Until, Visits, OwnTicks, SlotTicks
        <5> QED
          BY <5>2, <5>3, <5>4, Times
      <4> QED
        BY <4>1, <4>2
    <3>3. Visits(s) <= Visits(MAX_NUM_TASKS - 1) /\ Visits(s) \in Nat
      <4>1. s \in Nat /\ MAX_NUM_TASKS - 1 \in Nat /\ s <= MAX_NUM_TASKS - 1
        BY Times DEF Slots
      <4> QED
        BY <4>1, VisitsValue
    <3>4. age'[s] + Until(s)' <= Lateness(MainTicks)
      BY <1>4, <2>1, <3>1, <3>2, <3>3, Times, LatenessValue
    <3> QED
      BY <3>4 DEF InTime, Lateness, MainTicks, SlotTicks, OwnTicks
  <2> QED
    BY <1>2, <2>1, <2>2 DEF TimedInv
<1>7. CASE sched_run_skip
  <2>1. pc = "check" /\ pc' = "check" /\ idx' = NextSlot(idx) /\ slack' = MAX_BURST
        /\ UNCHANGED <<task_table, age>>
    BY <1>7 DEF sched_run_skip, TimedCpu
  <2>2. ASSUME NEW s \in Slots, task_table[s].entry # NULL
        PROVE  InTime(s)'
    <3>1. InTime(s)
      BY <2>1, <2>2 DEF TimedInv
    <3>2. CASE idx = s
      <4>1. age[s] < MaxAge
        BY <2>2, <3>1, InTimeFits
      <4>2. ~Due(s)
        BY <1>7, <2>2, <3>2, DueIsTimeToRun DEF sched_run_skip
      <4>3. task_table[s].period \in Nat
        BY DEF TypeOK, SysTimes
      <4>4. age[s] < task_table[s].period
        BY <1>4, <2>2, <4>1, <4>2, <4>3 DEF Due
      <4>5. Until(s)' = Visits(MAX_NUM_TASKS - 1) + OwnTicks
        BY <2>1, <3>2, NextVisit, AheadValue
      <4>6. age'[s] + Until(s)' <= Lateness(task_table[s].period)
        BY <1>4, <2>1, <4>3, <4>4, <4>5, Times, LatenessValue
      <4>7. task_table'[s].period = task_table[s].period
        BY <2>1
      <4> QED
        BY <4>6, <4>7 DEF InTime, Lateness, MainTicks, SlotTicks, OwnTicks
    <3>3. CASE idx # s
      BY <2>1, <3>1, <3>3, NextSlotInTime
    <3> QED
      BY <3>2, <3>3
  <2> QED
    BY <1>2, <2>1, <2>2 DEF TimedInv
<1>8. CASE sched_run_due
  <2>1. pc = "check" /\ pc' = "stamp" /\ slack' = MAX_BURST /\ UNCHANGED <<task_table, age, idx>>
    BY <1>8 DEF sched_run_due, TimedCpu
  <2>2. Left' \in Nat /\ Left' <= Left
    BY <1>1, <2>1, Times DEF Left
  <2>3. ASSUME NEW s \in Slots, task_table[s].entry # NULL
        PROVE  InTime(s)'
    <3>1. InTime(s)
      BY <2>1, <2>3 DEF TimedInv
    <3> QED
      BY <1>3, <2>1, <2>2, <3>1, VisitStep
  <2> QED
    BY <1>2, <2>1, <2>3 DEF TimedInv
<1>9. CASE sched_run_stamp
  <2>1. pc = "stamp" /\ pc' = "call" /\ slack' = MAX_BURST /\ idx' = idx /\ idx \in Slots
        /\ age' = [age EXCEPT ![idx] = 0]
    BY <1>9 DEF sched_run_stamp, TimedCpu, TypeOK
  <2>2. \A s \in Slots : /\ task_table'[s].entry = task_table[s].entry
                         /\ task_table'[s].period = task_table[s].period
    BY <1>9 DEF sched_run_stamp, Stamped, TypeOK
  <2>3. Left' \in Nat /\ Left' <= Left /\ Left' <= SlotTicks
    BY <1>1, <2>1, Times DEF Left
  <2>4. ASSUME NEW s \in Slots, task_table[s].entry # NULL
        PROVE  InTime(s)'
    <3>1. InTime(s)
      BY <2>1, <2>4 DEF TimedInv
    <3>2. CASE idx = s
      <4>1. age'[s] = 0 /\ Ahead(s)' = MAX_NUM_TASKS
        BY <2>1, <3>2, Times DEF TypeOK, Ahead, Slots
      <4>2. Until(s)' = Left' + Visits(MAX_NUM_TASKS - 1) + OwnTicks
        BY <2>1, <4>1 DEF Until, Visits, OwnTicks, SlotTicks
      <4>3. age'[s] + Until(s)' <= Lateness(SlotTicks)
        BY <2>3, <4>1, <4>2, Times, LatenessValue
      <4> QED
        BY <4>3 DEF InTime, Lateness, MainTicks, SlotTicks, OwnTicks
    <3>3. CASE idx # s
      <4>1. age'[s] = age[s]
        BY <2>1, <3>3 DEF TypeOK
      <4> QED
        BY <1>3, <2>1, <2>2, <2>3, <3>1, <3>3, <4>1, VisitStep
    <3> QED
      BY <3>2, <3>3
  <2> QED
    BY <1>2, <2>1, <2>2, <2>4 DEF TimedInv
<1>10. CASE task_enter \/ task_poll \/ task_leave_loop
  <2>1. /\ pc \in {"call", "wait"} /\ pc' \in {"wait", "exit", "hang"}
        /\ UNCHANGED <<task_table, age, idx>>
    BY <1>10 DEF task_enter, task_poll, task_leave_loop, vars
  <2>2. pc' = "wait" => waited' \in Nat /\ waited' + slack' <= WAIT
    <3>1. CASE task_enter
      <4>1. waited' = 0 /\ slack' = MAX_BURST
        BY <3>1 DEF task_enter, TimedCpu
      <4> QED
        BY <1>1, <4>1, Times
    <3>2. CASE task_poll
      <4>1. waited' = waited /\ slack' = 1 /\ pc = "wait" /\ KeepWaiting(systime, start)
        BY <3>2 DEF task_poll, TimedCpu, vars
      <4>2. waited <= WAIT
        BY <1>1, <4>1, Times DEF TimedInv
      <4>3. waited < WAIT
        BY <4>1, <4>2, PollIsEarly
      <4> QED
        BY <1>1, <4>1, <4>3, Times
    <3>3. CASE task_leave_loop
      BY <3>3 DEF task_leave_loop
    <3> QED
      BY <1>10, <3>1, <3>2, <3>3
  <2>3. pc' # "hang" => Left' \in Nat /\ Left' <= Left
    <3>1. CASE task_enter /\ pc' = "wait"
      <4>1. waited' = 0 /\ pc = "call"
        BY <3>1 DEF task_enter
      <4> QED
        BY <1>1, <3>1, <4>1, Times DEF Left
    <3>2. CASE task_poll
      <4>1. waited' = waited /\ pc = "wait" /\ pc' = "wait"
        BY <3>2 DEF task_poll, vars
      <4>2. Left' = Left
        BY <4>1 DEF Left
      <4> QED
        BY <1>3, <4>2
    <3>3. CASE task_leave_loop
      <4>1. pc = "wait" /\ pc' = "exit" /\ slack' = MAX_BURST
        BY <3>3 DEF task_leave_loop, TimedCpu
      <4>2. waited <= WAIT
        BY <1>1, <4>1, Times DEF TimedInv
      <4> QED
        BY <1>1, <4>1, <4>2, Times DEF Left
    <3> QED
      BY <1>10, <3>1, <3>2, <3>3 DEF task_enter
  <2>4. ASSUME NEW s \in Slots, task_table[s].entry # NULL, pc' # "hang"
        PROVE  InTime(s)'
    <3>1. InTime(s)
      BY <2>1, <2>4 DEF TimedInv
    <3> QED
      BY <1>3, <2>1, <2>3, <2>4, <3>1, VisitStep
  <2> QED
    BY <1>2, <2>1, <2>2, <2>4 DEF TimedInv
<1>11. CASE task_return
  <2>1. pc = "exit" /\ pc' = "check" /\ idx' = NextSlot(idx) /\ slack' = MAX_BURST
        /\ UNCHANGED <<task_table, age>>
    BY <1>11 DEF task_return, TimedCpu
  <2>2. ASSUME NEW s \in Slots, task_table[s].entry # NULL
        PROVE  InTime(s)'
    <3>1. InTime(s)
      BY <2>1, <2>2 DEF TimedInv
    <3> QED
      BY <2>1, <3>1, NextSlotInTime
  <2> QED
    BY <1>2, <2>1, <2>2 DEF TimedInv
<1> QED
  BY <1>5, <1>6, <1>7, <1>8, <1>9, <1>10, <1>11 DEF TimedCpu, Cpu

\* The behaviours of SchedulerTimed are behaviours of Scheduler.
LEMMA TimedIsScheduler == TimedSpec => Spec
<1>1. [TimedNext]_tvars => [Next]_vars
  BY DEF TimedNext, TimedTick, TimedCpu, Next, tvars
<1>2. TimedInit => Init
  BY DEF TimedInit
<1> QED
  BY <1>1, <1>2, PTL DEF TimedSpec, Spec

\* The time left before each stamp is enough, at any speed of the CPU with which
\* the times fit the clock.
LEMMA TimedInductive ==
    ASSUME TimesFit
    PROVE  TimedSpec => []TimedInv
<1>1. TimedInit => TimedInv
  <2> SUFFICES ASSUME TimedInit PROVE TimedInv
    OBVIOUS
  <2>1. (table_idx + 1) * MAX_BURST = MAX_BURST
    BY Times DEF TimedInit, Init
  <2> QED
    BY <2>1, Times DEF TimedInit, Init, TimedInv
<1>2. TypeOK /\ TypeOK' /\ ClockExact /\ WaitClock /\ TimedInv /\ [TimedNext]_tvars => TimedInv'
  <2> SUFFICES ASSUME TypeOK, TypeOK', ClockExact, WaitClock, TimedInv, [TimedNext]_tvars
               PROVE  TimedInv'
    OBVIOUS
  <2>1. CASE UNCHANGED tvars
    BY <2>1 DEF tvars, vars, TimedInv, InTime, Until, Left, Ahead, Lateness, Visits,
                SlotTicks, OwnTicks, MainTicks
  <2> QED
    BY <2>1, TickInTime, CpuInTime DEF TimedNext
<1>3. Spec => []TypeOK /\ []ClockExact /\ []WaitClock
  BY TypeCorrect, ClockTheorem, WaitClockTheorem, PTL
<1> QED
  BY <1>1, <1>2, <1>3, TimedIsScheduler, PTL DEF TimedSpec

\* A busy-wait ends after WAIT ticks, wherever the wrap of systime falls, as long
\* as a tick is never missed between two polls.
THEOREM WaitEndsTheorem ==
    ASSUME TimesFit
    PROVE  TimedSpec => []WaitEnds
<1>1. TypeOK /\ TimedInv => WaitEnds
  BY Times DEF TypeOK, SysTimes, TimedInv, WaitEnds
<1> QED
  BY <1>1, TimedInductive, TimedIsScheduler, TypeCorrect, PTL

\* sched_run stamps a registered task again no later than one pass over the table
\* after its period, whatever the number of tasks and the speed of printing.
THEOREM LatenessTheorem ==
    ASSUME TimesFit
    PROVE  TimedSpec => []BoundedLateness
<1>1. TypeOK /\ TimedInv => BoundedLateness
  <2> SUFFICES ASSUME TypeOK, TimedInv, pc \notin {"main", "hang"},
                      NEW s \in Slots, task_table[s].entry # NULL
               PROVE  \E ticks \in {task_table[s].period, SlotTicks, MainTicks} :
                        age[s] <= Lateness(ticks)
    BY DEF BoundedLateness
  <2>1. PICK ticks \in {task_table[s].period, SlotTicks, MainTicks} :
          age[s] + Until(s) <= Lateness(ticks)
    BY DEF TimedInv, InTime
  <2>2. ticks \in Nat /\ age[s] \in Nat
    BY Times DEF TypeOK, SysTimes
  <2>3. age[s] <= Lateness(ticks)
    BY <2>1, <2>2, UntilValue, LatenessValue
  <2> QED
    BY <2>3
<1> QED
  BY <1>1, TimedInductive, TimedIsScheduler, TypeCorrect, PTL

=============================================================================
