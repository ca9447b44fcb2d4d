----------------------------- MODULE TaskTable -----------------------------
(***************************************************************************)
(* What the scheduler promises its clients: the task table with every      *)
(* switch taken in one step.  Timer ticks show only through their verdict, *)
(* the kill flag.  Module Sched, where a tick may land inside a switch,    *)
(* implements this one; the process table and the mutexes build on it.     *)
(***************************************************************************)
EXTENDS TaskSlots

VARIABLES
  state,          \* tasks[i].state
  current,        \* index of the RUNNING task
  kill_pending,   \* tasks[i].kill_pending
  parked          \* the last task left and idles in sched_exit

tableVars == <<state, current, kill_pending, parked>>

TableInit ==
  /\ state = [i \in Slots |-> IF i = 0 THEN "RUNNING" ELSE "UNUSED"]
  /\ current = 0
  /\ kill_pending = [i \in Slots |-> FALSE]
  /\ parked = FALSE

\* The current task gives up the CPU, keeping the state `as`.
SwitchAway(as) ==
  LET n == next_ready(state, current)
  IN  /\ n # NoSlot
      /\ state' = [state EXCEPT ![current] = as, ![n] = "RUNNING"]
      /\ current' = n
      /\ UNCHANGED <<kill_pending, parked>>

\* Nobody to switch to: a leaving task parks the machine.
Park ==
  /\ next_ready(state, current) = NoSlot
  /\ state' = [state EXCEPT ![current] = "FINISHED"]
  /\ parked' = TRUE
  /\ UNCHANGED <<current, kill_pending>>

Leave == SwitchAway("FINISHED") \/ Park

\* sched_yield past the watchdog check; a sole runner keeps going.
Yield ==
  /\ ~parked
  /\ ~kill_pending[current]
  /\ SwitchAway("READY")

\* sched_yield of a flagged task.
Kill ==
  /\ ~parked
  /\ kill_pending[current]
  /\ Leave

Exit ==
  /\ ~parked
  /\ Leave

SpawnAt(slot) ==
  /\ slot = slot_alloc(state)
  /\ state' = [state EXCEPT ![slot] = "READY"]
  /\ kill_pending' = [kill_pending EXCEPT ![slot] = FALSE]
  /\ UNCHANGED <<current, parked>>

Spawn ==
  /\ ~parked
  /\ \E slot \in Slots : SpawnAt(slot)

\* The watchdog flags a task it takes for the running one.
Flag(t) ==
  /\ ~parked
  /\ t # 0
  /\ state[t] \in {"READY", "RUNNING"}
  /\ kill_pending' = [kill_pending EXCEPT ![t] = TRUE]
  /\ UNCHANGED <<state, current, parked>>

TableNext ==
  \/ Yield
  \/ Kill
  \/ Exit
  \/ Spawn
  \/ \E t \in Slots : Flag(t)

TableSpec == TableInit /\ [][TableNext]_tableVars

(***************************************************************************)
(* Properties                                                              *)
(***************************************************************************)

TableTypeOK ==
  /\ state \in [Slots -> task_state_t]
  /\ current \in Slots
  /\ kill_pending \in [Slots -> BOOLEAN]
  /\ parked \in BOOLEAN
=============================================================================
