------------------------------- MODULE Sched -------------------------------
(***************************************************************************)
(* kernel/sched.c, one action per stretch of code between two points at    *)
(* which the timer interrupt can make a difference.  sched_yield masks     *)
(* nothing, so a tick may land anywhere in it and charges the task that    *)
(* `current` names at that moment, while `cpu` is the task whose           *)
(* instructions the processor executes.  ticks_used, yields and uptime are *)
(* statistics that no branch reads and are left out.                       *)
(***************************************************************************)
EXTENDS TaskSlots

CONSTANTS
  STARVE_CAP,        \* starved_ticks saturates here; no limit is larger
  WATCHDOG_LIMITS    \* arguments of sched_watchdog_set, 0 disables

ASSUME StarveCapAssumption == STARVE_CAP \in Nat
ASSUME WatchdogAssumption == WATCHDOG_LIMITS \subseteq 0 .. STARVE_CAP

VARIABLES
  state,             \* tasks[i].state
  kill_pending,      \* tasks[i].kill_pending
  starved_ticks,     \* tasks[i].starved_ticks
  kind,              \* what occupies the slot; main is the boot context
  current,           \* what the scheduler takes for the running task
  watchdog_limit,
  cpu,               \* the task the processor executes
  pc,                \* where it is in sched_yield / sched_exit
  nxt,               \* sched_yield's local
  masked             \* PSTATE.DAIF: an SVC enters with interrupts masked

table == <<state, kill_pending, starved_ticks, kind>>
place == <<current, cpu, pc, nxt, masked>>
vars  == <<table, place, watchdog_limit>>

Kinds == {"none", "main", "thread", "user"}

Points == {"task", "checked", "picked", "handed", "switching", "exiting",
           "parked"}

sched_init ==
  /\ state = [i \in Slots |-> IF i = 0 THEN "RUNNING" ELSE "UNUSED"]
  /\ kill_pending = [i \in Slots |-> FALSE]
  /\ starved_ticks = [i \in Slots |-> 0]
  /\ kind = [i \in Slots |-> IF i = 0 THEN "main" ELSE "none"]
  /\ current = 0
  /\ watchdog_limit \in WATCHDOG_LIMITS
  /\ cpu = 0
  /\ pc = "task"
  /\ nxt = NoSlot
  /\ masked = FALSE

-----------------------------------------------------------------------------
(* Interrupts and what a task may call.                                    *)

\* A tick with no watchdog, or in main, moves only statistics.
sched_on_tick ==
  /\ ~masked
  /\ state[current] = "RUNNING"
  /\ watchdog_limit > 0
  /\ current # 0
  /\ starved_ticks' =
       [starved_ticks EXCEPT ![current] = IF @ < STARVE_CAP THEN @ + 1 ELSE @]
  /\ kill_pending' = IF starved_ticks'[current] >= watchdog_limit
                      THEN [kill_pending EXCEPT ![current] = TRUE]
                      ELSE kill_pending
  /\ UNCHANGED <<state, kind, place, watchdog_limit>>

\* sched_spawn and sched_spawn_user_task, with acceptable arguments.  No
\* system call spawns: the caller is kernel code.
sched_spawn(k) ==
  /\ pc = "task"
  /\ kind[cpu] # "user"
  /\ LET slot == slot_alloc(state)
     IN  /\ slot # NoSlot
         /\ state' = [state EXCEPT ![slot] = "READY"]
         /\ kill_pending' = [kill_pending EXCEPT ![slot] = FALSE]
         /\ starved_ticks' = [starved_ticks EXCEPT ![slot] = 0]
         /\ kind' = [kind EXCEPT ![slot] = k]
  /\ UNCHANGED <<place, watchdog_limit>>

sched_watchdog_set(limit) ==
  /\ pc = "task"
  /\ kind[cpu] # "user"
  /\ watchdog_limit' = limit
  /\ UNCHANGED <<table, place>>

\* EL0 code traps into the kernel: the hardware masks interrupts...
SvcEnter ==
  /\ pc = "task"
  /\ kind[cpu] = "user"
  /\ ~masked
  /\ masked' = TRUE
  /\ UNCHANGED <<table, current, cpu, pc, nxt, watchdog_limit>>

\* ... and the eret back restores the caller's PSTATE.
SvcReturn ==
  /\ pc = "task"
  /\ kind[cpu] = "user"
  /\ masked
  /\ masked' = FALSE
  /\ UNCHANGED <<table, current, cpu, pc, nxt, watchdog_limit>>

-----------------------------------------------------------------------------
(* sched_yield                                                             *)

\* A yield that does not look at the verdict.
Bug_YieldCheck ==
  /\ pc = "task"
  /\ pc' = "checked"
  /\ UNCHANGED <<table, current, cpu, nxt, masked, watchdog_limit>>

\* The watchdog verdict, read before anything else.  A user task may get
\* here unmasked: it stays so in the loop of proc_wait once it was resumed.
YieldCheck ==
  /\ pc = "task"
  /\ IF kill_pending[current]
     THEN /\ state' = [state EXCEPT ![current] = "FINISHED"]
          /\ pc' = "exiting"
     ELSE /\ pc' = "checked"
          /\ UNCHANGED state
  /\ UNCHANGED <<kill_pending, starved_ticks, kind, current, cpu, nxt, masked,
                 watchdog_limit>>

\* A sole runner keeps going.
YieldPick ==
  /\ pc = "checked"
  /\ starved_ticks' = [starved_ticks EXCEPT ![current] = 0]
  /\ nxt' = next_ready(state, current)
  /\ pc' = IF nxt' = NoSlot THEN "task" ELSE "picked"
  /\ UNCHANGED <<state, kill_pending, kind, current, cpu, masked,
                 watchdog_limit>>

\* A yield that leaves its caller RUNNING.
Bug_YieldHand ==
  /\ pc = "picked"
  /\ state' = [state EXCEPT ![nxt] = "RUNNING"]
  /\ pc' = "handed"
  /\ UNCHANGED <<kill_pending, starved_ticks, kind, current, cpu, nxt, masked,
                 watchdog_limit>>

YieldHand ==
  /\ pc = "picked"
  /\ state' = [state EXCEPT ![current] = "READY", ![nxt] = "RUNNING"]
  /\ pc' = "handed"
  /\ UNCHANGED <<kill_pending, starved_ticks, kind, current, cpu, nxt, masked,
                 watchdog_limit>>

\* The mask of an SVC leaks into the next task.
Bug_YieldCurrent ==
  /\ pc = "handed"
  /\ current' = nxt
  /\ pc' = "switching"
  /\ UNCHANGED <<table, cpu, nxt, masked, watchdog_limit>>

\* current = nxt; irq_enable().
YieldCurrent ==
  /\ pc = "handed"
  /\ current' = nxt
  /\ masked' = FALSE
  /\ pc' = "switching"
  /\ UNCHANGED <<table, cpu, nxt, watchdog_limit>>

\* switch_address_space, cpu_switch_to: shared with sched_exit.
cpu_switch_to ==
  /\ pc = "switching"
  /\ cpu' = current
  /\ pc' = "task"
  /\ UNCHANGED <<table, current, nxt, masked, watchdog_limit>>

-----------------------------------------------------------------------------
(* sched_exit, and the tail of sched_yield for a flagged task.             *)

\* A user task leaves through SYS_EXIT, hence masked.
sched_exit ==
  /\ pc = "task"
  /\ kind[cpu] = "user" => masked
  /\ state' = [state EXCEPT ![current] = "FINISHED"]
  /\ pc' = "exiting"
  /\ UNCHANGED <<kill_pending, starved_ticks, kind, current, cpu, nxt, masked,
                 watchdog_limit>>

\* With no successor the task idles for ever, interrupts live.
ExitPick ==
  LET n == next_ready(state, current)
  IN  /\ pc = "exiting"
      /\ masked' = FALSE
      /\ IF n = NoSlot
         THEN /\ pc' = "parked"
              /\ UNCHANGED <<state, current>>
         ELSE /\ state' = [state EXCEPT ![n] = "RUNNING"]
              /\ current' = n
              /\ pc' = "switching"
      /\ UNCHANGED <<kill_pending, starved_ticks, kind, cpu, nxt,
                     watchdog_limit>>

-----------------------------------------------------------------------------
GiveUp == YieldCheck \/ sched_exit

SwitchStep ==
  \/ YieldPick
  \/ YieldHand
  \/ YieldCurrent
  \/ cpu_switch_to
  \/ ExitPick

Next ==
  \/ sched_on_tick
  \/ \E k \in {"thread", "user"} : sched_spawn(k)
  \/ \E limit \in WATCHDOG_LIMITS : sched_watchdog_set(limit)
  \/ SvcEnter
  \/ SvcReturn
  \/ GiveUp
  \/ SwitchStep

Spec == sched_init /\ [][Next]_vars

(***************************************************************************)
(* Code that has entered the scheduler runs to its end; a system call      *)
(* returns; the timer keeps ticking whenever interrupts are unmasked now   *)
(* and again.                                                              *)
(***************************************************************************)
KernelFairness ==
  /\ WF_vars(SwitchStep)
  /\ WF_vars(SvcReturn)
  /\ SF_vars(sched_on_tick)

TimedSpec == Spec /\ KernelFairness

(***************************************************************************)
(* Properties                                                              *)
(***************************************************************************)

TypeOK ==
  /\ state \in [Slots -> task_state_t]
  /\ kill_pending \in [Slots -> BOOLEAN]
  /\ starved_ticks \in [Slots -> 0 .. STARVE_CAP]
  /\ kind \in [Slots -> Kinds]
  /\ current \in Slots
  /\ watchdog_limit \in WATCHDOG_LIMITS
  /\ cpu \in Slots
  /\ pc \in Points
  /\ nxt \in Slots \cup {NoSlot}
  /\ masked \in BOOLEAN

(***************************************************************************)
(* Outside the switch the three notions of "the running task" agree: the   *)
(* processor executes the task `current` names, and it is the only RUNNING *)
(* one.  A parked machine has nothing left to run.                         *)
(***************************************************************************)
RunningAgree ==
  /\ pc = "task" =>
       /\ cpu = current
       /\ \A i \in Slots : state[i] = "RUNNING" <=> i = current
  /\ pc = "parked" =>
       \A i \in Slots : state[i] \notin {"RUNNING", "READY"}

(***************************************************************************)
(* An SVC's interrupt mask never leaks into another task: whenever         *)
(* interrupts are masked, the processor executes a user task (the one that *)
(* trapped).  This is what the irq_enable() calls before the switch are    *)
(* for; kernel threads would otherwise freeze in spin_ms().                *)
(***************************************************************************)
NoMaskLeak == masked => kind[cpu] = "user"

(***************************************************************************)
(* A verdict of the watchdog is on the task that earned it: a flag is set  *)
(* only on the RUNNING task that `current` names, never main, when it has  *)
(* kept the CPU for the limit; it stands until the slot has a new          *)
(* occupant, and the new occupant does not inherit it.                     *)
(***************************************************************************)
Overdue(t) ==
  /\ t = current /\ t # 0 /\ state[t] = "RUNNING"
  /\ watchdog_limit > 0 /\ starved_ticks'[t] >= watchdog_limit

Reused(t) == state[t] \in {"UNUSED", "FINISHED"} /\ state'[t] = "READY"

VerdictStands ==
  [][\A t \in Slots :
        /\ kill_pending'[t] => kill_pending[t] \/ Overdue(t)
        /\ Reused(t) => ~kill_pending'[t]
        /\ kill_pending[t] /\ ~Reused(t) => kill_pending'[t]]_vars

(***************************************************************************)
(* The inductive strengthening behind the invariants above: at every point *)
(* of sched_yield and sched_exit, who is RUNNING, whom `nxt` names, and    *)
(* which occupants the slots can have.                                     *)
(***************************************************************************)
OnlyRunning(t) == \A i \in Slots : state[i] = "RUNNING" <=> i = t

NobodyRunning == \A i \in Slots : state[i] # "RUNNING"

SchedInv ==
  /\ pc \in {"task", "checked", "picked"} => cpu = current /\ OnlyRunning(current)
  /\ pc = "picked" => nxt = next_ready(state, current) /\ nxt # NoSlot
  /\ pc = "handed" =>
       /\ cpu = current
       /\ nxt \in Slots
       /\ OnlyRunning(nxt)
       /\ \A j \in ReadySlots(state) : Hops(current, nxt) < Hops(current, j)
  /\ pc = "switching" => OnlyRunning(current) /\ ~masked
  /\ pc \in {"exiting", "parked"} => NobodyRunning /\ state[current] = "FINISHED"
  /\ pc = "parked" => ReadySlots(state) = {}
  /\ masked => cpu = current /\ kind[cpu] = "user"
  /\ \A t \in Slots :
       /\ kind[t] = "none" <=> state[t] = "UNUSED"
       /\ kind[t] = "main" => t = 0
       /\ kill_pending[t] => t # 0 /\ kind[t] \in {"thread", "user"}

(***************************************************************************)
(* Bounded overtaking, with ticks and spawns interleaved at will: when     *)
(* `current` moves on, every task that stays READY gets strictly closer to *)
(* its turn.                                                               *)
(***************************************************************************)
RoundRobin ==
  [][\A t \in Slots :
        state[t] = "READY" /\ state'[t] = "READY" /\ current' # current
          => Hops(current', t) < Hops(current, t)]_vars

(***************************************************************************)
(* No starvation under the cooperative contract, that whoever runs yields  *)
(* or exits in the end: a READY task gets the CPU however many others are  *)
(* spawned meanwhile.                                                      *)
(***************************************************************************)
ReadyRuns ==
  WF_vars(GiveUp) =>
    \A t \in Slots : state[t] = "READY" ~> cpu = t /\ pc = "task"

(***************************************************************************)
(* A task in a slot other than 0 that keeps the CPU is flagged, even if it *)
(* spends its time in system calls with interrupts masked.                 *)
(***************************************************************************)
HogFlagged ==
  \A t \in Slots \ {0} :
    (pc = "task" /\ cpu = t /\ watchdog_limit > 0)
      ~> (kill_pending[t] \/ pc # "task" \/ watchdog_limit = 0)

(***************************************************************************)
(* "A flagged task never gets the CPU again" (sched_yield): a RUNNING task *)
(* whose kill flag is set is never put back among the READY ones.          *)
(***************************************************************************)
FlaggedNotRequeued ==
  [][\A t \in Slots :
        state[t] = "RUNNING" /\ kill_pending[t] => state'[t] # "READY"]_vars

(***************************************************************************)
(* Every interleaving of ticks with the switch looks to the clients like   *)
(* the atomic task table: a yield takes effect when it has passed the      *)
(* watchdog check, an exit when the task is FINISHED.                      *)
(***************************************************************************)
Committed == pc \in {"checked", "picked", "exiting"}
Successor == next_ready(state, current)

absState ==
  IF Committed /\ Successor # NoSlot
  THEN [state EXCEPT
          ![current] = IF pc = "exiting" THEN "FINISHED" ELSE "READY",
          ![Successor] = "RUNNING"]
  ELSE state

absCurrent ==
  IF Committed /\ Successor # NoSlot THEN Successor
  ELSE IF pc = "handed" THEN nxt
  ELSE current

absParked == pc = "parked" \/ (pc = "exiting" /\ Successor = NoSlot)

Table == INSTANCE TaskTable WITH state <- absState, current <- absCurrent,
                                 parked <- absParked

ImplementsTable == Table!TableSpec
=============================================================================
