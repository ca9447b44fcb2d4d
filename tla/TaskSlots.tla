----------------------------- MODULE TaskSlots -----------------------------
(***************************************************************************)
(* The scheduler's task table as pure data: slot indices, task states, and *)
(* the two searches every operation of kernel/sched.c is built from.       *)
(***************************************************************************)
EXTENDS Integers

CONSTANT MAX_TASKS          \* sched.h: 16 slots, slot 0 starts as "main"

ASSUME MaxTasksAssumption == MAX_TASKS \in Nat \ {0}

Slots == 0 .. MAX_TASKS - 1

NoSlot == -1

task_state_t == {"UNUSED", "READY", "RUNNING", "FINISHED"}

ReadySlots(st) == {i \in Slots : st[i] = "READY"}

(***************************************************************************)
(* The loop counter with which next_ready(from) reaches idx: 1 for the     *)
(* slot after from, MAX_TASKS for from itself.                             *)
(***************************************************************************)
Hops(from, idx) == IF idx > from THEN idx - from ELSE idx - from + MAX_TASKS

\* A search that starts over at slot 0 instead of after the caller.
Bug_next_ready(st, from) ==
  IF ReadySlots(st) = {}
  THEN NoSlot
  ELSE CHOOSE i \in ReadySlots(st) : \A j \in ReadySlots(st) : i <= j

next_ready(st, from) ==
  IF ReadySlots(st) = {}
  THEN NoSlot
  ELSE CHOOSE i \in ReadySlots(st) :
         \A j \in ReadySlots(st) : Hops(from, i) <= Hops(from, j)

\* FINISHED slots are reusable.
FreeSlots(st) == {i \in Slots : st[i] \in {"UNUSED", "FINISHED"}}

slot_alloc(st) ==
  IF FreeSlots(st) = {}
  THEN NoSlot
  ELSE CHOOSE i \in FreeSlots(st) : \A j \in FreeSlots(st) : i <= j
=============================================================================
