--------------------------- MODULE PeriodicTasks ---------------------------
(***************************************************************************)
(* What the scheduler promises, without a clock that wraps, a table that   *)
(* is scanned, or a moment between deciding to run a task and running it:  *)
(* one task at a time runs to completion, and a task starts only when its  *)
(* period of true time has passed since it last started (since boot, for   *)
(* the first start).                                                       *)
(***************************************************************************)
EXTENDS Naturals

CONSTANTS
    Slots,      \* where a task can be registered
    MaxAge,     \* ages saturate here; no period is larger
    None        \* no task, no period

VARIABLES
    period,     \* slot -> its period, or None
    age,        \* slot -> ticks since its task last started
    running     \* the slot of the running task, or None

pvars == <<period, age, running>>

Init ==
    /\ period = [s \in Slots |-> None]
    /\ age = [s \in Slots |-> 0]
    /\ running = None

Register(s) ==
    /\ period[s] = None
    /\ running = None
    /\ \E p \in 0 .. MaxAge : period' = [period EXCEPT ![s] = p]
    /\ UNCHANGED <<age, running>>

Start(s) ==
    /\ running = None
    /\ period[s] # None
    /\ age[s] >= period[s]
    /\ running' = s
    /\ age' = [age EXCEPT ![s] = 0]
    /\ UNCHANGED period

Finish ==
    /\ running # None
    /\ running' = None
    /\ UNCHANGED <<period, age>>

Tick ==
    /\ age' = [s \in Slots |-> IF age[s] < MaxAge THEN age[s] + 1 ELSE age[s]]
    /\ UNCHANGED <<period, running>>

Next == Finish \/ Tick \/ \E s \in Slots : Register(s) \/ Start(s)

Spec == Init /\ [][Next]_pvars

=============================================================================
