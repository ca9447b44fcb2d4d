---------------------------- MODULE SchedProofs -----------------------------
(***************************************************************************)
(* The two schedulers.  The kernel's is safe for every table size and      *)
(* every watchdog limit, with timer ticks at any point of a switch, and    *)
(* implements TaskTable: clients see every switch as one step.  The Rust   *)
(* crate's keeps its run queues, for every number of tasks.                *)
(***************************************************************************)
EXTENDS Sched, RustSched, CommonLemmas

\* The time a leaf that names no prover may take
USE SMTT(60)

-----------------------------------------------------------------------------
(* Type correctness: it needs only that the slot searches stay in range.   *)

\* sched_init makes a table of the type.
LEMMA InitType == sched_init => TypeOK
<1> SUFFICES ASSUME sched_init
             PROVE  TypeOK
  OBVIOUS
<1>1. kill_pending \in [Slots -> BOOLEAN] /\ masked \in BOOLEAN
  BY Zenon DEF sched_init
<1> QED
  BY <1>1, MaxTasksAssumption, StarveCapAssumption
     DEF sched_init, TypeOK, Slots, task_state_t, Kinds, Points, NoSlot

\* Every step of sched.c keeps the types.
LEMMA NextType == TypeOK /\ SchedInv /\ [Next]_vars => TypeOK'
<1> SUFFICES ASSUME TypeOK, SchedInv, [Next]_vars
             PROVE  TypeOK'
  OBVIOUS
<1> USE DEF TypeOK, table, place, vars
<1>1. CASE sched_on_tick
  BY <1>1, StarveCapAssumption DEF sched_on_tick
<1>2. ASSUME NEW k \in {"thread", "user"}, sched_spawn(k)
      PROVE  TypeOK'
  BY <1>2, SlotAllocFree, StarveCapAssumption
     DEF sched_spawn, task_state_t, Kinds
<1>3. ASSUME NEW limit \in WATCHDOG_LIMITS, sched_watchdog_set(limit)
      PROVE  TypeOK'
  BY <1>3 DEF sched_watchdog_set
<1>4. CASE SvcEnter \/ SvcReturn
  BY <1>4, Zenon DEF SvcEnter, SvcReturn
<1>5. CASE YieldCheck
  BY <1>5 DEF YieldCheck, task_state_t, Points
<1>6. CASE YieldPick
  BY <1>6, NextReadyType, StarveCapAssumption DEF YieldPick, Points
<1>7. CASE YieldHand
  BY <1>7, Zenon DEF YieldHand, task_state_t, Points
<1>8. CASE YieldCurrent
  BY <1>8, Zenon DEF YieldCurrent, SchedInv, Points
<1>9. CASE cpu_switch_to
  BY <1>9 DEF cpu_switch_to, Points
<1>10. CASE sched_exit
  BY <1>10 DEF sched_exit, task_state_t, Points
<1>11. CASE ExitPick
  BY <1>11, NextReadyType, ZenonT(60) DEF ExitPick, task_state_t, Points
<1>12. CASE UNCHANGED vars
  BY <1>12
<1> QED
  BY <1>1, <1>2, <1>3, <1>4, <1>5, <1>6, <1>7, <1>8, <1>9, <1>10, <1>11, <1>12
     DEF Next, GiveUp, SwitchStep

-----------------------------------------------------------------------------
(* The invariant proper.                                                   *)

\* After sched_init main is RUNNING and no switch is under way.
LEMMA InitInv == sched_init => SchedInv
BY MaxTasksAssumption
   DEF sched_init, SchedInv, OnlyRunning, NobodyRunning, Slots, ReadySlots

\* Past its caller, the search meets the nearest READY slot and then, last
\* of all, the caller itself: handing over keeps the successor nearest.
LEMMA HandNearest ==
  ASSUME TypeOK, SchedInv, YieldHand
  PROVE  /\ nxt \in Slots
         /\ nxt # current
         /\ state[nxt] = "READY"
         /\ \A j \in ReadySlots(state') : Hops(current, nxt) < Hops(current, j)
<1> USE DEF TypeOK, YieldHand
<1>1. ReadySlots(state) # {} /\ nxt \in ReadySlots(state)
  BY NextReadyType, NextReadyNearest DEF SchedInv
<1>2. nxt \in Slots /\ nxt # current /\ state[nxt] = "READY"
  BY <1>1 DEF ReadySlots, SchedInv, OnlyRunning
<1>3. ASSUME NEW j \in ReadySlots(state')
      PROVE  Hops(current, nxt) < Hops(current, j)
  <2>1. j \in Slots /\ j # nxt
    BY <1>2, <1>3 DEF ReadySlots
  <2>2. CASE j = current
    BY <1>2, <2>2, MaxTasksAssumption DEF Hops, Slots
  <2>3. CASE j # current
    <3>1. j \in ReadySlots(state)
      BY <1>3, <2>1, <2>3, <1>2 DEF ReadySlots
    <3>2. Hops(current, nxt) <= Hops(current, j)
      BY <3>1, <1>1, NextReadyNearest DEF SchedInv
    <3>3. Hops(current, nxt) # Hops(current, j)
      BY <1>2, <2>1, HopsInjective
    <3> QED
      BY <3>2, <3>3, <1>2, <2>1, HopsRange, MaxTasksAssumption
  <2> QED
    BY <2>2, <2>3
<1> QED
  BY <1>2, <1>3, Zenon

\* Every step of a switch, and a tick in it, keeps the invariant.
LEMMA NextInv == TypeOK /\ SchedInv /\ [Next]_vars => SchedInv'
<1> SUFFICES ASSUME TypeOK, SchedInv, [Next]_vars
             PROVE  SchedInv'
  OBVIOUS
<1> USE DEF TypeOK, SchedInv, table, place, vars, OnlyRunning, NobodyRunning
<1>1. CASE sched_on_tick
  <2>1. current # 0 /\ kind[current] \in {"thread", "user"}
    BY <1>1 DEF sched_on_tick, Kinds
  <2>2. \A t \in Slots :
          kill_pending'[t] => t # 0 /\ kind[t] \in {"thread", "user"}
    BY <1>1, <2>1 DEF sched_on_tick
  <2> QED
    BY <1>1, <2>2 DEF sched_on_tick
<1>2. ASSUME NEW k \in {"thread", "user"}, sched_spawn(k)
      PROVE  SchedInv'
  BY <1>2, SlotAllocFree DEF sched_spawn
<1>3. ASSUME NEW limit \in WATCHDOG_LIMITS, sched_watchdog_set(limit)
      PROVE  SchedInv'
  BY <1>3 DEF sched_watchdog_set
<1>4. CASE SvcEnter \/ SvcReturn
  BY <1>4 DEF SvcEnter, SvcReturn
<1>5. CASE YieldCheck
  BY <1>5 DEF YieldCheck
<1>6. CASE YieldPick
  BY <1>6, NextReadyType DEF YieldPick
<1>7. CASE YieldHand
  <2>1. /\ nxt \in Slots
        /\ nxt # current
        /\ state[nxt] = "READY"
        /\ \A j \in ReadySlots(state') : Hops(current, nxt) < Hops(current, j)
    BY <1>7, HandNearest
  <2> QED
    BY <1>7, <2>1, ZenonT(60) DEF YieldHand
<1>8. CASE YieldCurrent
  BY <1>8 DEF YieldCurrent
<1>9. CASE cpu_switch_to
  BY <1>9 DEF cpu_switch_to
<1>10. CASE sched_exit
  BY <1>10 DEF sched_exit
<1>11. CASE ExitPick
  BY <1>11, NextReadyType DEF ExitPick
<1>12. CASE UNCHANGED vars
  BY <1>12
<1> QED
  BY <1>1, <1>2, <1>3, <1>4, <1>5, <1>6, <1>7, <1>8, <1>9, <1>10, <1>11, <1>12, Zenon
     DEF Next, GiveUp, SwitchStep

\* SchedInv, with the types, is invariant.
THEOREM SchedInvariant == Spec => [](TypeOK /\ SchedInv)
<1>1. sched_init => TypeOK /\ SchedInv
  BY InitType, InitInv
<1>2. TypeOK /\ SchedInv /\ [Next]_vars => TypeOK' /\ SchedInv'
  BY NextType, NextInv
<1> QED
  BY <1>1, <1>2, PTL DEF Spec

(***************************************************************************)
(* Outside the switch `current`, the RUNNING state and the processor agree *)
(* on the running task; a parked machine has no task left (RunningAgree).  *)
(***************************************************************************)
THEOREM Running == Spec => []RunningAgree
<1>1. TypeOK /\ SchedInv => RunningAgree
  BY DEF TypeOK, SchedInv, RunningAgree, OnlyRunning, NobodyRunning, ReadySlots
<1> QED
  BY <1>1, SchedInvariant, PTL

\* irq_enable() before the switch keeps an SVC's mask in the task that trapped.
THEOREM MaskContained == Spec => []NoMaskLeak
<1>1. SchedInv => NoMaskLeak
  BY DEF SchedInv, NoMaskLeak
<1> QED
  BY <1>1, SchedInvariant, PTL

(***************************************************************************)
(* The watchdog never condemns main, and a verdict is passed on the task   *)
(* that earned it, stands, and is not inherited by the next occupant of    *)
(* the slot (sched_on_tick, sched_spawn), with ticks anywhere in a switch. *)
(***************************************************************************)
THEOREM VerdictRight == Spec => [](~kill_pending[0]) /\ VerdictStands
<1> DEFINE Stands(t) ==
             /\ kill_pending'[t] => kill_pending[t] \/ Overdue(t)
             /\ Reused(t) => ~kill_pending'[t]
             /\ kill_pending[t] /\ ~Reused(t) => kill_pending'[t]
<1>1. SchedInv => ~kill_pending[0]
  BY MaxTasksAssumption DEF SchedInv, Slots
<1>2. TypeOK /\ SchedInv /\ [Next]_vars => [\A t \in Slots : Stands(t)]_vars
  <2> SUFFICES ASSUME TypeOK, SchedInv, Next, NEW t \in Slots
               PROVE  Stands(t)
    OBVIOUS
  <2> USE DEF TypeOK
  <2>1. CASE sched_on_tick
    BY <2>1 DEF sched_on_tick, Overdue, Reused
  <2>2. ASSUME NEW k \in {"thread", "user"}, sched_spawn(k)
        PROVE  Stands(t)
    <3>1. slot_alloc(state) \in Slots /\ state[slot_alloc(state)] \in {"UNUSED", "FINISHED"}
      BY <2>2, SlotAllocFree DEF sched_spawn
    <3> QED
      BY <2>2, <3>1 DEF sched_spawn, Reused
  <2>3. CASE YieldHand
    <3>1. state[current] = "RUNNING" /\ nxt \in Slots
      BY <2>3, HandNearest DEF SchedInv, OnlyRunning, YieldHand
    <3> QED
      BY <2>3, <3>1 DEF YieldHand, Reused
  <2>4. CASE YieldCheck \/ sched_exit \/ ExitPick
    <3>1. UNCHANGED kill_pending /\ (state'[t] = "READY" => state[t] = "READY")
      BY <2>4 DEF YieldCheck, sched_exit, ExitPick
    <3> QED
      BY <3>1 DEF Reused
  <2>5. CASE UNCHANGED <<kill_pending, state>>
    BY <2>5 DEF Reused
  <2> QED
    BY <2>1, <2>2, <2>3, <2>4, <2>5, Zenon DEF Next, GiveUp, SwitchStep,
       sched_watchdog_set, SvcEnter, SvcReturn, YieldPick, YieldCurrent, cpu_switch_to, table
<1>3. Spec => [][Next]_vars /\ [](TypeOK /\ SchedInv)
  BY SchedInvariant DEF Spec
<1>4. [][Next]_vars /\ [](TypeOK /\ SchedInv) => [][\A t \in Slots : Stands(t)]_vars
  BY <1>2, PTL
<1>5. Spec => [](~kill_pending[0])
  BY <1>1, <1>3, PTL
<1> QED
  BY <1>3, <1>4, <1>5, Zenon DEF VerdictStands

-----------------------------------------------------------------------------
(* Bounded overtaking.                                                     *)

\* Moving to a slot nearer than t brings the search closer to t.
LEMMA HopsCloser ==
  ASSUME NEW from \in Slots, NEW n \in Slots, NEW t \in Slots,
         Hops(from, n) < Hops(from, t)
  PROVE  Hops(n, t) < Hops(from, t)
BY MaxTasksAssumption DEF Hops, Slots

\* Every change of `current` brings every task that stays READY closer.
THEOREM BoundedOvertaking == Spec => RoundRobin
<1> DEFINE Closer == \A t \in Slots :
              state[t] = "READY" /\ state'[t] = "READY" /\ current' # current
                => Hops(current', t) < Hops(current, t)
<1>1. TypeOK /\ SchedInv /\ [Next]_vars => [Closer]_vars
  <2> SUFFICES ASSUME TypeOK, SchedInv, Next, current' # current,
                      NEW t \in Slots, state[t] = "READY", state'[t] = "READY"
               PROVE  Hops(current', t) < Hops(current, t)
    OBVIOUS
  <2>1. t \in ReadySlots(state)
    BY DEF ReadySlots
  <2>2. CASE YieldCurrent
    BY <2>1, <2>2, HopsCloser DEF YieldCurrent, SchedInv, TypeOK
  <2>3. CASE ExitPick
    <3>1. /\ current' = next_ready(state, current)
          /\ current' \in Slots
          /\ t # current'
      BY <2>3, NextReadyType DEF ExitPick, TypeOK
    <3>2. Hops(current, current') <= Hops(current, t)
      BY <2>1, <3>1, NextReadyNearest DEF TypeOK
    <3>3. Hops(current, current') # Hops(current, t)
      BY <3>1, HopsInjective DEF TypeOK
    <3>4. Hops(current, current') < Hops(current, t)
      BY <3>1, <3>2, <3>3, HopsRange, MaxTasksAssumption DEF TypeOK
    <3> QED
      BY <3>1, <3>4, HopsCloser DEF TypeOK
  <2> QED
    BY <2>2, <2>3 DEF Next, GiveUp, SwitchStep, sched_on_tick, sched_spawn,
       sched_watchdog_set, SvcEnter, SvcReturn, YieldCheck, YieldPick,
       YieldHand, cpu_switch_to, sched_exit, place
<1>2. Spec => [][Next]_vars /\ [](TypeOK /\ SchedInv)
  BY SchedInvariant DEF Spec
<1>3. [][Next]_vars /\ [](TypeOK /\ SchedInv) => [][Closer]_vars
  BY <1>1, PTL
<1> QED
  BY <1>2, <1>3, Zenon DEF RoundRobin

-----------------------------------------------------------------------------
(* The instance's searches are the module's own.                           *)

\* Both specifications search the table in the same way.
LEMMA SameSearches ==
  ASSUME NEW st, NEW from
  PROVE  /\ Table!Slots = Slots
         /\ Table!NoSlot = NoSlot
         /\ Table!next_ready(st, from) = next_ready(st, from)
         /\ Table!slot_alloc(st) = slot_alloc(st)
<1>1. Table!Slots = Slots /\ Table!NoSlot = NoSlot
  BY DEF Table!Slots, Slots, Table!NoSlot, NoSlot
<1>2. Table!next_ready(st, from) = next_ready(st, from)
  BY Zenon DEF Table!next_ready, next_ready, Table!ReadySlots, ReadySlots,
     Table!Hops, Hops, Table!Slots, Slots, Table!NoSlot, NoSlot
<1>3. Table!slot_alloc(st) = slot_alloc(st)
  BY Zenon DEF Table!slot_alloc, slot_alloc, Table!FreeSlots, FreeSlots,
     Table!Slots, Slots, Table!NoSlot, NoSlot
<1> QED
  BY <1>1, <1>2, <1>3

\* The search looks at nothing but which slots are READY.
LEMMA SameReady ==
  ASSUME NEW s1, NEW s2, NEW from, ReadySlots(s1) = ReadySlots(s2)
  PROVE  next_ready(s1, from) = next_ready(s2, from)
BY DEF next_ready

\* sched_init makes an initial abstract table.
LEMMA InitTable == sched_init => Table!TableInit
BY SameSearches
   DEF sched_init, Table!TableInit, absState, absCurrent, absParked, Committed

\* Leaving the CPU for good: sched_exit, or sched_yield of a flagged task.
LEMMA LeaveStep ==
  ASSUME TypeOK, SchedInv, pc = "task", pc' = "exiting",
         state' = [state EXCEPT ![current] = "FINISHED"],
         UNCHANGED <<current, kill_pending>>
  PROVE  Table!Leave /\ ~absParked /\ absCurrent = current
<1> USE DEF TypeOK
<1>1. state[current] = "RUNNING"
  BY DEF SchedInv, OnlyRunning
<1>2. ReadySlots(state') = ReadySlots(state)
  BY <1>1 DEF ReadySlots
<1> DEFINE n == next_ready(state, current)
<1>3. Successor' = n
  BY <1>2, SameReady DEF Successor
<1>4. absState = state /\ absCurrent = current /\ ~absParked
  BY DEF absState, absCurrent, absParked, Committed
<1>5. CASE n = NoSlot
  <2>1. absState' = state' /\ absCurrent' = current /\ absParked'
    BY <1>3, <1>5 DEF absState, absCurrent, absParked, Committed
  <2>2. Table!Park
    BY <1>4, <1>5, <2>1, SameSearches DEF Table!Park
  <2> QED
    BY <1>4, <2>2 DEF Table!Leave
<1>6. CASE n # NoSlot
  <2>1. /\ absState' = [state EXCEPT ![current] = "FINISHED", ![n] = "RUNNING"]
        /\ absCurrent' = n
        /\ absParked' = absParked
    BY <1>3, <1>6, Zenon DEF absState, absCurrent, absParked, Committed
  <2>2. Table!SwitchAway("FINISHED")
    BY <1>4, <1>6, <2>1, SameSearches, Zenon DEF Table!SwitchAway
  <2> QED
    BY <1>4, <2>2 DEF Table!Leave
<1> QED
  BY <1>5, <1>6

\* A tick is the watchdog's Flag, or invisible.
LEMMA TickStep ==
  ASSUME TypeOK, SchedInv, sched_on_tick
  PROVE  [Table!TableNext]_Table!tableVars
<1> USE DEF TypeOK, place
<1>1. UNCHANGED <<state, current, pc, nxt>> /\ current # 0
      /\ state[current] = "RUNNING"
  BY DEF sched_on_tick
<1>2. UNCHANGED <<absState, absCurrent, absParked>>
  BY <1>1 DEF absState, absCurrent, absParked, Committed, Successor
<1>3. ~absParked
  BY <1>1 DEF SchedInv, NobodyRunning, absParked
<1>4. absState[current] \in {"READY", "RUNNING"}
  <2>1. Successor # NoSlot => Successor \in Slots
    BY NextReadyType DEF Successor
  <2> QED
    BY <1>1, <2>1 DEF absState, SchedInv, NobodyRunning
<1>5. CASE kill_pending' = kill_pending
  BY <1>2, <1>5 DEF Table!tableVars
<1>6. CASE kill_pending' = [kill_pending EXCEPT ![current] = TRUE]
  <2>1. Table!Flag(current)
    BY <1>1, <1>2, <1>3, <1>4, <1>6 DEF Table!Flag
  <2> QED
    BY <2>1, SameSearches DEF Table!TableNext
<1> QED
  BY <1>5, <1>6 DEF sched_on_tick

\* A yield takes effect when it has passed the watchdog check.
LEMMA CheckStep ==
  ASSUME TypeOK, SchedInv, YieldCheck
  PROVE  [Table!TableNext]_Table!tableVars
<1> USE DEF TypeOK
<1>1. CASE kill_pending[current]
  <2>1. Table!Leave /\ ~absParked /\ absCurrent = current
    BY <1>1, LeaveStep DEF YieldCheck
  <2> QED
    BY <1>1, <2>1 DEF Table!TableNext, Table!Kill
<1>2. CASE ~kill_pending[current]
  <2>1. /\ pc = "task" /\ pc' = "checked"
        /\ UNCHANGED <<state, current, kill_pending, nxt>>
    BY <1>2 DEF YieldCheck
  <2>2. absState = state /\ absCurrent = current /\ ~absParked
        /\ absParked' = absParked
    BY <2>1 DEF absState, absCurrent, absParked, Committed
  <2>3. Successor' = next_ready(state, current)
    BY <2>1 DEF Successor
  <2>4. CASE Successor' = NoSlot
    BY <2>1, <2>2, <2>4 DEF absState, absCurrent, Committed, Table!tableVars
  <2>5. CASE Successor' # NoSlot
    <3>1. /\ absState' = [state EXCEPT ![current] = "READY",
                                       ![Successor'] = "RUNNING"]
          /\ absCurrent' = Successor'
      BY <2>1, <2>5 DEF absState, absCurrent, Committed
    <3>2. Table!SwitchAway("READY")
      BY <2>1, <2>2, <2>3, <2>5, <3>1, SameSearches, Zenon DEF Table!SwitchAway
    <3> QED
      BY <1>2, <2>2, <3>2 DEF Table!TableNext, Table!Yield
  <2> QED
    BY <2>4, <2>5
<1> QED
  BY <1>1, <1>2

\* From there on, the steps of a switch are invisible.
LEMMA SwitchStutters ==
  ASSUME TypeOK, SchedInv, SwitchStep
  PROVE  UNCHANGED Table!tableVars
<1> USE DEF TypeOK, table, Table!tableVars
<1>1. Successor # NoSlot => Successor \in Slots /\ state[Successor] = "READY"
  BY NextReadyType DEF Successor
<1>2. CASE YieldPick
  BY <1>2 DEF YieldPick, absState, absCurrent, absParked, Committed, Successor
<1>3. CASE YieldHand
  <2>1. nxt = Successor /\ Successor # NoSlot
    BY <1>3 DEF YieldHand, SchedInv, Successor
  <2> QED
    BY <1>3, <2>1 DEF YieldHand, absState, absCurrent, absParked, Committed
<1>4. CASE YieldCurrent
  BY <1>4 DEF YieldCurrent, absState, absCurrent, absParked, Committed
<1>5. CASE cpu_switch_to
  BY <1>5 DEF cpu_switch_to, absState, absCurrent, absParked, Committed
<1>6. CASE ExitPick
  <2>1. CASE Successor = NoSlot
    BY <1>6, <2>1
       DEF ExitPick, absState, absCurrent, absParked, Committed, Successor
  <2>2. CASE Successor # NoSlot
    <3>1. pc = "exiting" /\ state[current] = "FINISHED"
      BY <1>6 DEF ExitPick, SchedInv
    <3>2. /\ state' = [state EXCEPT ![Successor] = "RUNNING"]
          /\ current' = Successor /\ pc' = "switching"
          /\ UNCHANGED kill_pending
      BY <1>6, <2>2 DEF ExitPick, Successor
    <3>3. absState = state'
      BY <1>1, <2>2, <3>1, <3>2, Zenon DEF absState, Committed
    <3> QED
      BY <2>2, <3>1, <3>2, <3>3 DEF absState, absCurrent, absParked, Committed
  <2> QED
    BY <2>1, <2>2
<1> QED
  BY <1>2, <1>3, <1>4, <1>5, <1>6 DEF SwitchStep

\* Every step of the interruptible scheduler is one of the table, or none.
LEMMA NextTable ==
  TypeOK /\ SchedInv /\ [Next]_vars => [Table!TableNext]_Table!tableVars
<1> SUFFICES ASSUME TypeOK, SchedInv, [Next]_vars
             PROVE  [Table!TableNext]_Table!tableVars
  OBVIOUS
<1>1. ASSUME NEW k \in {"thread", "user"}, sched_spawn(k)
      PROVE  [Table!TableNext]_Table!tableVars
  <2>1. /\ absState = state /\ absState' = state'
        /\ absCurrent = current /\ absCurrent' = current
        /\ ~absParked /\ absParked' = absParked
    BY <1>1 DEF sched_spawn, place, absState, absCurrent, absParked, Committed
  <2>2. slot_alloc(state) \in Slots
    BY <1>1, SlotAllocFree DEF sched_spawn
  <2>3. Table!SpawnAt(slot_alloc(state))
    BY <1>1, <2>1, SameSearches DEF sched_spawn, Table!SpawnAt
  <2> QED
    BY <2>1, <2>2, <2>3, SameSearches DEF Table!Spawn, Table!TableNext
<1>2. ASSUME NEW limit \in WATCHDOG_LIMITS, sched_watchdog_set(limit)
      PROVE  UNCHANGED Table!tableVars
  BY <1>2 DEF sched_watchdog_set, table, place, Table!tableVars, absState,
     absCurrent, absParked, Committed, Successor
<1>3. CASE SvcEnter \/ SvcReturn
  BY <1>3 DEF SvcEnter, SvcReturn, table, Table!tableVars, absState,
     absCurrent, absParked, Committed, Successor
<1>4. CASE sched_exit
  <2>1. Table!Leave /\ ~absParked /\ absCurrent = current
    BY <1>4, LeaveStep DEF sched_exit
  <2> QED
    BY <2>1 DEF Table!Exit, Table!TableNext
<1>5. CASE UNCHANGED vars
  BY <1>5 DEF vars, table, place, Table!tableVars, absState, absCurrent,
     absParked, Committed, Successor
<1> QED
  BY <1>1, <1>2, <1>3, <1>4, <1>5, TickStep, CheckStep, SwitchStutters
     DEF Next, GiveUp

(***************************************************************************)
(* The interrupt-level scheduler implements the atomic task table that the *)
(* process table and the synchronisation primitives are built on.          *)
(***************************************************************************)
THEOREM Refinement == Spec => ImplementsTable
<1> QED
  BY InitTable, NextTable, SchedInvariant, PTL
     DEF Spec, ImplementsTable, Table!TableSpec

-----------------------------------------------------------------------------
(***************************************************************************)
(* The run queues of the Rust crate                                        *)
(***************************************************************************)

RsTask == [state : TaskState, priority : Priorities, time_slice : Int]

RsTypes ==
  /\ rsTasks \in [TaskIds -> RsTask]
  /\ rsQueues \in [Priorities -> Seq(TaskIds)]
  /\ rsCurrent \in TaskIds \cup {NoTaskId}

\* Who is in a queue exists and has the priority of the queue.
RsHome ==
  \A p \in Priorities : \A t \in Range(rsQueues[p]) :
    rsTasks[t].priority = p /\ rsTasks[t].state # "None"

\* There is no task before the set-up.
RsBoot == ~rsReady => \A t \in TaskIds : rsTasks[t].state = "None"

RsInv == RsTypes /\ RsHome /\ RsBoot /\ RsRunnableQueued

-----------------------------------------------------------------------------
(* Sequences                                                               *)

\* The elements of a sequence are those at its indices.
LEMMA RangeIs ==
  ASSUME NEW S, NEW q \in Seq(S)
  PROVE  Range(q) = {q[i] : i \in 1 .. Len(q)} /\ Range(q) \subseteq S
BY DEF Range

\* enqueue adds one.
LEMMA RangeAppend ==
  ASSUME NEW S, NEW q \in Seq(S), NEW e \in S
  PROVE  Append(q, e) \in Seq(S) /\ Range(Append(q, e)) = Range(q) \cup {e}
<1>1. /\ Append(q, e) \in Seq(S) /\ Len(Append(q, e)) = Len(q) + 1 /\ Len(q) \in Nat
      /\ Append(q, e)[Len(q) + 1] = e
      /\ \A i \in 1 .. Len(q) : Append(q, e)[i] = q[i]
  OBVIOUS
<1> DEFINE r == Append(q, e)
<1> HIDE DEF r
<1>2. Range(r) = {r[i] : i \in 1 .. Len(r)} /\ Range(q) = {q[i] : i \in 1 .. Len(q)}
  BY <1>1, RangeIs, Zenon DEF r
<1>3. ASSUME NEW x
      PROVE  x \in Range(r) <=> x \in Range(q) \cup {e}
  <2>1. ASSUME x \in Range(r)
        PROVE  x \in Range(q) \cup {e}
    <3>1. PICK i \in 1 .. Len(r) : x = r[i]
      BY <1>2, <2>1
    <3>2. i \in 1 .. Len(q) \/ i = Len(q) + 1
      BY <1>1 DEF r
    <3> QED
      BY <1>1, <1>2, <3>1, <3>2 DEF r
  <2>2. ASSUME x \in Range(q)
        PROVE  x \in Range(r)
    <3>1. PICK i \in 1 .. Len(q) : x = q[i]
      BY <1>2, <2>2
    <3>2. i \in 1 .. Len(r) /\ r[i] = q[i]
      BY <1>1 DEF r
    <3> QED
      BY <1>2, <3>1, <3>2
  <2>3. e \in Range(r)
    <3>1. Len(q) + 1 \in 1 .. Len(r) /\ r[Len(q) + 1] = e
      BY <1>1 DEF r
    <3> QED
      BY <1>2, <3>1
  <2> QED
    BY <2>1, <2>2, <2>3
<1> QED
  BY <1>1, <1>3 DEF r

\* A concatenation, element by element.
LEMMA ConcatIs ==
  ASSUME NEW S, NEW a \in Seq(S), NEW b \in Seq(S)
  PROVE  /\ a \o b \in Seq(S) /\ Len(a \o b) = Len(a) + Len(b)
         /\ \A i \in 1 .. Len(a) + Len(b) :
              (a \o b)[i] = IF i <= Len(a) THEN a[i] ELSE b[i - Len(a)]
<1>1. Len(a \o b) = Len(a) + Len(b)
  OBVIOUS
<1>2. \A i \in 1 .. Len(a) + Len(b) :
        (a \o b)[i] = IF i <= Len(a) THEN a[i] ELSE b[i - Len(a)]
  OBVIOUS
<1>3. a \o b \in Seq(S)
  OBVIOUS
<1> QED
  BY <1>1, <1>2, <1>3

\* remove takes out no other element than the one it is asked for.
LEMMA RangeRemove ==
  ASSUME NEW S, NEW q \in Seq(S), NEW e
  PROVE  /\ Removed(q, e) \in Seq(S)
         /\ Range(Removed(q, e)) \subseteq Range(q)
         /\ Range(q) \ {e} \subseteq Range(Removed(q, e))
<1>1. CASE ~ \E i \in 1 .. Len(q) : q[i] = e
  BY <1>1 DEF Removed, Positions
<1>2. CASE \E i \in 1 .. Len(q) : q[i] = e
  <2> DEFINE I == {i \in 1 .. Len(q) : q[i] = e}
             n == Min(I)
             a == SubSeq(q, 1, n - 1)
             b == SubSeq(q, n + 1, Len(q))
             r == a \o b
  <2>1. n \in 1 .. Len(q) /\ q[n] = e
    <3>1. I \in SUBSET Nat /\ I # {}
      BY <1>2
    <3>2. \E x \in I : \A y \in I : x <= y
      BY <3>1, LeastNat, Zenon
    <3> HIDE DEF I
    <3>3. n \in I
      BY <3>2 DEF Min
    <3> QED
      BY <3>3 DEF I
  <2>2. Removed(q, e) = r
    BY <1>2, Zenon DEF Removed, Positions
  <2> HIDE DEF n
  <2>3. /\ a \in Seq(S) /\ Len(a) = n - 1 /\ \A i \in 1 .. n - 1 : a[i] = q[i]
    BY <2>1
  <2>4. /\ b \in Seq(S) /\ Len(b) = Len(q) - n
        /\ \A i \in 1 .. Len(q) - n : b[i] = q[n + i]
    BY <2>1
  <2> HIDE DEF a, b
  <2>5. /\ r \in Seq(S) /\ Len(r) = Len(q) - 1
        /\ \A i \in 1 .. Len(r) : r[i] = IF i < n THEN q[i] ELSE q[i + 1]
    <3>1. /\ r \in Seq(S) /\ Len(r) = Len(a) + Len(b)
          /\ \A i \in 1 .. Len(a) + Len(b) :
               r[i] = IF i <= Len(a) THEN a[i] ELSE b[i - Len(a)]
      BY <2>3, <2>4, ConcatIs, Zenon DEF r
    <3> HIDE DEF r
    <3>2. Len(q) \in Nat /\ n \in Nat /\ Len(r) = Len(q) - 1
      <4>1. Len(q) \in Nat
        OBVIOUS
      <4>2. Len(a) = n - 1 /\ Len(b) = Len(q) - n /\ Len(r) = Len(a) + Len(b)
        BY <2>3, <2>4, <3>1
      <4> QED
        BY <2>1, <4>1, <4>2
    <3>3. ASSUME NEW i \in 1 .. Len(r), i < n
          PROVE  r[i] = q[i]
      <4>1. i \in 1 .. n - 1 /\ i <= Len(a) /\ i \in 1 .. Len(a) + Len(b)
        BY <2>3, <3>1, <3>2, <3>3
      <4> QED
        BY <2>3, <3>1, <4>1
    <3>4. ASSUME NEW i \in 1 .. Len(r), ~(i < n)
          PROVE  r[i] = q[i + 1]
      <4>1. /\ i - Len(a) \in 1 .. Len(q) - n /\ ~(i <= Len(a))
            /\ i \in 1 .. Len(a) + Len(b) /\ n + (i - Len(a)) = i + 1
        BY <2>3, <2>4, <3>1, <3>2, <3>4
      <4>2. r[i] = b[i - Len(a)]
        BY <3>1, <4>1
      <4>3. b[i - Len(a)] = q[n + (i - Len(a))]
        BY <2>4, <4>1
      <4> QED
        BY <4>1, <4>2, <4>3
    <3> QED
      BY <3>1, <3>2, <3>3, <3>4
  <2> HIDE DEF r
  <2>6. Range(r) = {r[i] : i \in 1 .. Len(r)} /\ Range(q) = {q[i] : i \in 1 .. Len(q)}
    BY <2>5, RangeIs
  <2>7. ASSUME NEW i \in 1 .. Len(r)
        PROVE  r[i] \in Range(q)
    <3>1. i \in 1 .. Len(q) /\ i + 1 \in 1 .. Len(q)
      BY <2>5
    <3> QED
      BY <2>5, <2>6, <3>1
  <2>8. ASSUME NEW i \in 1 .. Len(q), q[i] # e
        PROVE  q[i] \in Range(r)
    <3>1. CASE i < n
      <4>1. i \in 1 .. Len(r) /\ r[i] = q[i]
        BY <2>1, <2>5, <3>1
      <4> QED
        BY <2>6, <4>1
    <3>2. CASE i > n
      <4>1. i - 1 \in 1 .. Len(r) /\ ~(i - 1 < n) /\ (i - 1) + 1 = i
        BY <2>1, <2>5, <3>2
      <4>2. r[i - 1] = q[i]
        BY <2>5, <4>1
      <4> QED
        BY <2>6, <4>1, <4>2
    <3> QED
      BY <2>1, <2>8, <3>1, <3>2
  <2> QED
    BY <2>2, <2>5, <2>6, <2>7, <2>8
<1> QED
  BY <1>1, <1>2

-----------------------------------------------------------------------------
(* The scheduler                                                           *)

\* What peek returns is no task, or one that is queued at its priority.
LEMMA PeekQueued ==
  ASSUME RsInv, peek # NoTaskId
  PROVE  peek \in TaskIds /\ Queued(peek) /\ rsTasks[peek].state # "None"
<1>1. Occupied # {} /\ peek = Head(rsQueues[Max(Occupied)])
  BY DEF peek
<1> DEFINE m == Max(Occupied)
           T == {MAX_PRIORITY - p : p \in Occupied}
<1>2. \A p \in Occupied : p \in Priorities /\ p \in Int /\ MAX_PRIORITY - p \in Nat
  BY RustSchedAssumption DEF Occupied, Priorities
<1>3. T \in SUBSET Nat /\ T # {}
  BY <1>1, <1>2
<1>4. PICK x \in T : \A y \in T : x <= y
  BY <1>3, LeastNat, Zenon
<1>5. PICK p \in Occupied : x = MAX_PRIORITY - p
  BY <1>4
<1>6. ASSUME NEW o \in Occupied
      PROVE  p >= o
  <2>1. MAX_PRIORITY - p <= MAX_PRIORITY - o
    BY <1>4, <1>5
  <2> QED
    BY <1>2, <2>1, RustSchedAssumption
<1>7. m \in Occupied
  BY <1>6 DEF Max
<1> HIDE DEF m
<1>8. m \in Priorities /\ rsQueues[m] \in Seq(TaskIds) /\ rsQueues[m] # <<>>
  BY <1>7 DEF Occupied, RsInv, RsTypes
<1>9. 1 \in 1 .. Len(rsQueues[m]) /\ peek = rsQueues[m][1]
  BY <1>1, <1>8 DEF m
<1>10. peek \in Range(rsQueues[m]) /\ peek \in TaskIds
  BY <1>8, <1>9, RangeIs
<1>11. rsTasks[peek].priority = m /\ rsTasks[peek].state # "None"
  BY <1>8, <1>10 DEF RsInv, RsHome
<1> QED
  BY <1>10, <1>11 DEF Queued

(***************************************************************************)
(* A step that leaves priorities alone, makes no task runnable that is not *)
(* queued, and takes no runnable one out of its queue.                     *)
(***************************************************************************)
LEMMA RsStep ==
  ASSUME RsInv, RsTypes', rsReady' = rsReady,
         \A t \in TaskIds : /\ rsTasks'[t].priority = rsTasks[t].priority
                            /\ rsTasks'[t].state = "None" <=> rsTasks[t].state = "None",
         \A p \in Priorities : \A t \in Range(rsQueues'[p]) :
           t \in Range(rsQueues[p]) \/ (rsTasks[t].priority = p /\ rsTasks[t].state # "None"),
         \A t \in TaskIds : rsTasks'[t].state \in {"Ready", "Running"} =>
           t \in Range(rsQueues'[rsTasks[t].priority]),
         \A t \in TaskIds : rsTasks'[t].state = "Running" => t = rsCurrent'
  PROVE  RsInv'
<1>1. RsBoot'
  BY DEF RsInv, RsBoot
<1>2. RsRunnableQueued'
  BY DEF RsRunnableQueued, Queued
<1>3. RsHome'
  <2> SUFFICES ASSUME NEW p \in Priorities, NEW t \in Range(rsQueues'[p])
               PROVE  rsTasks'[t].priority = p /\ rsTasks'[t].state # "None"
    BY DEF RsHome
  <2>1. t \in TaskIds
    BY RangeIs, Zenon DEF RsTypes
  <2>2. rsTasks[t].priority = p /\ rsTasks[t].state # "None"
    BY DEF RsInv, RsHome
  <2> QED
    BY <2>1, <2>2
<1> QED
  BY <1>1, <1>2, <1>3 DEF RsInv
\* What enqueue and remove do to who is queued.
LEMMA RsEnqueued ==
  ASSUME RsInv, NEW t \in TaskIds, NEW q \in Priorities, rsQueues' = enqueue(rsQueues, t, q)
  PROVE  /\ rsQueues' \in [Priorities -> Seq(TaskIds)]
         /\ \A p \in Priorities :
              Range(rsQueues'[p]) = IF p = q THEN Range(rsQueues[p]) \cup {t} ELSE Range(rsQueues[p])
<1>1. rsQueues \in [Priorities -> Seq(TaskIds)]
  BY DEF RsInv, RsTypes
<1>2. Append(rsQueues[q], t) \in Seq(TaskIds)
      /\ Range(Append(rsQueues[q], t)) = Range(rsQueues[q]) \cup {t}
  BY <1>1, RangeAppend
<1>3. rsQueues' = [rsQueues EXCEPT ![q] = Append(rsQueues[q], t)]
  BY DEF enqueue
<1>4. rsQueues' \in [Priorities -> Seq(TaskIds)]
  BY <1>1, <1>2, <1>3
<1>5. \A p \in Priorities : rsQueues'[p] = IF p = q THEN Append(rsQueues[q], t) ELSE rsQueues[p]
  BY <1>1, <1>3
<1> QED
  BY <1>2, <1>4, <1>5, Zenon

\* remove adds nothing to a queue and takes nothing but the task out of it.
LEMMA RsRemoved ==
  ASSUME RsInv, NEW t \in TaskIds, rsQueues' = remove(t)
  PROVE  /\ rsQueues' \in [Priorities -> Seq(TaskIds)]
         /\ \A p \in Priorities : /\ Range(rsQueues'[p]) \subseteq Range(rsQueues[p])
                                  /\ Range(rsQueues[p]) \ {t} \subseteq Range(rsQueues'[p])
<1> DEFINE q == rsTasks[t].priority
<1>1. rsQueues \in [Priorities -> Seq(TaskIds)] /\ q \in Priorities
  BY DEF RsInv, RsTypes, RsTask
<1> HIDE DEF q
<1>2. /\ Removed(rsQueues[q], t) \in Seq(TaskIds)
      /\ Range(Removed(rsQueues[q], t)) \subseteq Range(rsQueues[q])
      /\ Range(rsQueues[q]) \ {t} \subseteq Range(Removed(rsQueues[q], t))
  BY <1>1, RangeRemove
<1>3. rsQueues' = [rsQueues EXCEPT ![q] = Removed(rsQueues[q], t)]
  BY DEF remove, q
<1>4. rsQueues' \in [Priorities -> Seq(TaskIds)]
  BY <1>1, <1>2, <1>3
<1>5. \A p \in Priorities :
        rsQueues'[p] = IF p = q THEN Removed(rsQueues[q], t) ELSE rsQueues[p]
  BY <1>1, <1>3
<1> QED
  BY <1>2, <1>4, <1>5

\* A task that leaves the runnable states leaves the queue once (exit_task,
\* block_task).
LEMMA RsStopKeeps ==
  ASSUME RsInv, NEW t \in TaskIds, NEW st \in {"Zombie", "Blocked"}, Exists(t),
         rsTasks' = [rsTasks EXCEPT ![t].state = st],
         rsQueues' = remove(t), rsReady' = rsReady, rsCurrent' = rsCurrent
  PROVE  RsInv'
<1>1. rsTasks \in [TaskIds -> RsTask] /\ rsCurrent \in TaskIds \cup {NoTaskId}
  BY DEF RsInv, RsTypes
<1>2. st \in TaskState
  BY DEF TaskState
<1>3. /\ rsTasks' \in [TaskIds -> RsTask]
      /\ rsTasks'[t].state = st /\ rsTasks'[t].priority = rsTasks[t].priority
      /\ \A u \in TaskIds \ {t} : rsTasks'[u] = rsTasks[u]
  BY <1>1, <1>2 DEF RsTask
<1>4. RsTypes'
  BY <1>1, <1>3, RsRemoved DEF RsTypes
<1>5. \A u \in TaskIds : /\ rsTasks'[u].priority = rsTasks[u].priority
                         /\ rsTasks'[u].state = "None" <=> rsTasks[u].state = "None"
  BY <1>3 DEF Exists
<1>6. ASSUME NEW u \in TaskIds, rsTasks'[u].state \in {"Ready", "Running"}
      PROVE  u \in Range(rsQueues'[rsTasks[u].priority])
  <2>1. u # t /\ rsTasks[u].state \in {"Ready", "Running"}
    BY <1>3, <1>6
  <2>2. u \in Range(rsQueues[rsTasks[u].priority]) /\ rsTasks[u].priority \in Priorities
    BY <1>1, <2>1 DEF RsInv, RsRunnableQueued, Queued, RsTask
  <2> QED
    BY <2>1, <2>2, RsRemoved, Zenon
<1>7. \A u \in TaskIds : rsTasks'[u].state = "Running" => u = rsCurrent'
  BY <1>3 DEF RsInv, RsRunnableQueued
<1>8. \A p \in Priorities : \A u \in Range(rsQueues'[p]) : u \in Range(rsQueues[p])
  BY RsRemoved, Zenon
<1> QED
  BY <1>4, <1>5, <1>6, <1>7, <1>8, RsStep

\* A task that is woken is queued (unblock_task).
LEMMA RsWakeKeeps ==
  ASSUME RsInv, NEW t \in TaskIds, unblock_task(t)
  PROVE  RsInv'
<1> DEFINE q == rsTasks[t].priority
<1>1. rsTasks \in [TaskIds -> RsTask] /\ q \in Priorities /\ rsCurrent \in TaskIds \cup {NoTaskId}
  BY DEF RsInv, RsTypes, RsTask
<1>2. /\ rsTasks[t].state = "Blocked" /\ rsTasks' = [rsTasks EXCEPT ![t].state = "Ready"]
      /\ rsQueues' = enqueue(rsQueues, t, q) /\ rsReady' = rsReady /\ rsCurrent' = rsCurrent
  BY DEF unblock_task
<1>3. /\ rsTasks' \in [TaskIds -> RsTask]
      /\ rsTasks'[t].state = "Ready" /\ rsTasks'[t].priority = rsTasks[t].priority
      /\ \A u \in TaskIds \ {t} : rsTasks'[u] = rsTasks[u]
  <2>1. "Ready" \in TaskState
    BY DEF TaskState
  <2> QED
    BY <1>1, <1>2, <2>1 DEF RsTask
<1> HIDE DEF q
<1>4. /\ rsQueues' \in [Priorities -> Seq(TaskIds)]
      /\ \A p \in Priorities :
           Range(rsQueues'[p]) = IF p = q THEN Range(rsQueues[p]) \cup {t} ELSE Range(rsQueues[p])
  BY <1>1, <1>2, RsEnqueued, Zenon
<1>5. RsTypes'
  BY <1>1, <1>2, <1>3, <1>4 DEF RsTypes
<1>6. \A u \in TaskIds : /\ rsTasks'[u].priority = rsTasks[u].priority
                         /\ rsTasks'[u].state = "None" <=> rsTasks[u].state = "None"
  BY <1>2, <1>3
<1>7. ASSUME NEW u \in TaskIds, rsTasks'[u].state \in {"Ready", "Running"}
      PROVE  u \in Range(rsQueues'[rsTasks[u].priority])
  <2>1. CASE u = t
    BY <1>1, <1>4, <2>1 DEF q
  <2>2. CASE u # t
    <3>1. rsTasks[u].state \in {"Ready", "Running"}
      BY <1>3, <1>7, <2>2
    <3>2. u \in Range(rsQueues[rsTasks[u].priority]) /\ rsTasks[u].priority \in Priorities
      BY <1>1, <3>1 DEF RsInv, RsRunnableQueued, Queued, RsTask
    <3> QED
      BY <1>4, <3>2
  <2> QED
    BY <2>1, <2>2
<1>8. \A u \in TaskIds : rsTasks'[u].state = "Running" => u = rsCurrent'
  BY <1>2, <1>3 DEF RsInv, RsRunnableQueued
<1>9. ASSUME NEW p \in Priorities, NEW u \in Range(rsQueues'[p])
      PROVE  u \in Range(rsQueues[p]) \/ (rsTasks[u].priority = p /\ rsTasks[u].state # "None")
  BY <1>2, <1>4, Zenon DEF q
<1> QED
  BY <1>2, <1>5, <1>6, <1>7, <1>8, <1>9, RsStep
\* A free slot that becomes a Ready task is queued (init, create_task).
LEMMA RsNewKeeps ==
  ASSUME RsInv, NEW t \in TaskIds, NEW q \in Priorities, NEW slice \in Int,
         rsTasks[t].state = "None", rsReady' = TRUE, rsCurrent' = rsCurrent,
         rsTasks' = [rsTasks EXCEPT ![t] = Task("Ready", q, slice)],
         rsQueues' = enqueue(rsQueues, t, q)
  PROVE  RsInv'
<1>1. rsTasks \in [TaskIds -> RsTask] /\ rsCurrent \in TaskIds \cup {NoTaskId}
  BY DEF RsInv, RsTypes
<1>2. Task("Ready", q, slice) \in RsTask
  BY DEF Task, RsTask, TaskState
<1>3. /\ rsTasks' \in [TaskIds -> RsTask]
      /\ rsTasks'[t] = Task("Ready", q, slice)
      /\ \A u \in TaskIds \ {t} : rsTasks'[u] = rsTasks[u]
  BY <1>1, <1>2
<1>4. rsTasks'[t].state = "Ready" /\ rsTasks'[t].priority = q
  BY <1>3 DEF Task
<1>5. /\ rsQueues' \in [Priorities -> Seq(TaskIds)]
      /\ \A p \in Priorities :
           Range(rsQueues'[p]) = IF p = q THEN Range(rsQueues[p]) \cup {t} ELSE Range(rsQueues[p])
  BY RsEnqueued, Zenon
<1>6. RsTypes'
  BY <1>1, <1>3, <1>5 DEF RsTypes
<1>7. ASSUME NEW p \in Priorities, NEW u \in Range(rsQueues'[p])
      PROVE  rsTasks'[u].priority = p /\ rsTasks'[u].state # "None"
  <2>1. CASE u \in Range(rsQueues[p])
    <3>1. rsTasks[u].priority = p /\ rsTasks[u].state # "None"
      BY <2>1 DEF RsInv, RsHome
    <3>2. u \in TaskIds
      BY <2>1, RangeIs DEF RsInv, RsTypes
    <3> QED
      BY <1>3, <3>1, <3>2, Zenon
  <2>2. CASE u \notin Range(rsQueues[p])
    <3>1. p = q /\ u = t
      BY <1>5, <2>2
    <3> QED
      BY <1>4, <3>1
  <2> QED
    BY <2>1, <2>2, Zenon
<1>8. ASSUME NEW u \in TaskIds, rsTasks'[u].state \in {"Ready", "Running"}
      PROVE  u \in Range(rsQueues'[rsTasks'[u].priority])
  <2>1. CASE u = t
    BY <1>4, <1>5, <2>1
  <2>2. CASE u # t
    <3>1. rsTasks[u].state \in {"Ready", "Running"} /\ rsTasks'[u] = rsTasks[u]
      BY <1>3, <1>8, <2>2
    <3>2. u \in Range(rsQueues[rsTasks[u].priority]) /\ rsTasks[u].priority \in Priorities
      BY <1>1, <3>1, Zenon DEF RsInv, RsRunnableQueued, Queued, RsTask
    <3> QED
      BY <1>5, <3>1, <3>2, Zenon
  <2> QED
    BY <2>1, <2>2
<1>9. \A u \in TaskIds : rsTasks'[u].state = "Running" => u = rsCurrent'
  BY <1>3, <1>4 DEF RsInv, RsRunnableQueued
<1>10. RsHome'
  BY <1>7 DEF RsHome
<1>11. RsRunnableQueued'
  BY <1>8, <1>9 DEF RsRunnableQueued, Queued
<1>12. RsBoot'
  BY DEF RsBoot
<1> QED
  BY <1>6, <1>10, <1>11, <1>12 DEF RsInv

\* What schedule makes of the table: the slices are refilled, the task
\* preempted is Ready if it was Running, the one dispatched is Running.
LEMMA RsTable ==
  ASSUME NEW ts \in [TaskIds -> RsTask], NEW t \in TaskIds
  PROVE  /\ Dispatched(ts, t) \in [TaskIds -> RsTask]
         /\ Preempted(ts, t) \in [TaskIds -> RsTask]
         /\ \A u \in TaskIds \ {t} : Dispatched(ts, t)[u] = ts[u] /\ Preempted(ts, t)[u] = ts[u]
         /\ Dispatched(ts, t)[t].priority = ts[t].priority
         /\ Preempted(ts, t)[t].priority = ts[t].priority
         /\ Dispatched(ts, t)[t].state = "Running"
         /\ Preempted(ts, t)[t].state = IF ts[t].state = "Running" THEN "Ready" ELSE ts[t].state
<1> DEFINE rt == Refilled(ts, t)
           k == time_slice(ts[t].priority)
<1>1. ts[t] \in RsTask
  OBVIOUS
<1>2. k \in Int
  <2>1. ts[t].priority \in Int
    BY <1>1, RustSchedAssumption DEF RsTask, Priorities
  <2> QED
    BY <2>1, RustSchedAssumption DEF time_slice
<1>3. rt = [ts EXCEPT ![t].time_slice = k]
  BY DEF Refilled
<1> HIDE DEF k
<1>4. /\ rt \in [TaskIds -> RsTask] /\ \A u \in TaskIds \ {t} : rt[u] = ts[u]
      /\ rt[t].priority = ts[t].priority /\ rt[t].state = ts[t].state
  BY <1>1, <1>2, <1>3 DEF RsTask
<1> HIDE DEF rt
<1> DEFINE st == IF rt[t].state = "Running" THEN "Ready" ELSE rt[t].state
<1>5. st \in TaskState /\ "Running" \in TaskState
  BY <1>4 DEF RsTask, TaskState
<1>6. Preempted(ts, t) = [rt EXCEPT ![t].state = st]
      /\ Dispatched(ts, t) = [rt EXCEPT ![t].state = "Running"]
  BY DEF Preempted, Dispatched, rt
<1>7. st = IF ts[t].state = "Running" THEN "Ready" ELSE ts[t].state
  BY <1>4
<1> HIDE DEF st
<1>8. ASSUME NEW x \in TaskState
      PROVE  /\ [rt EXCEPT ![t].state = x] \in [TaskIds -> RsTask]
             /\ \A u \in TaskIds \ {t} : [rt EXCEPT ![t].state = x][u] = ts[u]
             /\ [rt EXCEPT ![t].state = x][t].priority = ts[t].priority
             /\ [rt EXCEPT ![t].state = x][t].state = x
  BY <1>4 DEF RsTask
<1> QED
  BY <1>5, <1>6, <1>7, <1>8

(***************************************************************************)
(* A switch puts the task that was running back into its queue, and runs   *)
(* one that is queued (schedule).                                          *)
(***************************************************************************)
LEMMA RsScheduleKeeps ==
  ASSUME RsInv, NEW ts \in [TaskIds -> RsTask],
         \A t \in TaskIds : /\ ts[t].state = rsTasks[t].state
                            /\ ts[t].priority = rsTasks[t].priority,
         schedule(ts), rsReady' = rsReady
  PROVE  RsInv'
<1>1. /\ rsQueues \in [Priorities -> Seq(TaskIds)] /\ rsCurrent \in TaskIds \cup {NoTaskId}
      /\ \A t \in TaskIds : rsTasks[t].priority \in Priorities
  BY DEF RsInv, RsTypes, RsTask
<1>2. /\ \A t \in TaskIds : rsTasks[t].state \in {"Ready", "Running"} =>
           t \in Range(rsQueues[rsTasks[t].priority])
      /\ \A t \in TaskIds : rsTasks[t].state = "Running" => t = rsCurrent
  BY DEF RsInv, RsRunnableQueued, Queued
<1>3. CASE peek \in {NoTaskId, rsCurrent}
  <2>1. rsTasks' = ts /\ rsQueues' = rsQueues /\ rsCurrent' = rsCurrent
    BY <1>3, Zenon DEF schedule
  <2>2. RsTypes'
    BY <1>1, <2>1, Zenon DEF RsTypes
  <2> QED
    BY <1>2, <2>1, <2>2, RsStep, Zenon
<1>4. CASE peek \notin {NoTaskId, rsCurrent}
  <2>1. peek \in TaskIds /\ peek \in Range(rsQueues[rsTasks[peek].priority])
        /\ rsTasks[peek].state # "None" /\ peek # rsCurrent /\ rsCurrent' = peek
    BY <1>4, PeekQueued DEF Queued, schedule
  <2> DEFINE next == peek
  <2> HIDE DEF next
  <2>2. CASE rsCurrent = NoTaskId
    <3>1. rsTasks' = Dispatched(ts, next) /\ rsQueues' = rsQueues
      BY <1>4, <2>2 DEF schedule, next
    <3>2. /\ rsTasks' \in [TaskIds -> RsTask]
          /\ \A u \in TaskIds \ {next} : rsTasks'[u] = ts[u]
          /\ rsTasks'[next].priority = ts[next].priority /\ rsTasks'[next].state = "Running"
      BY <2>1, <3>1, RsTable, Zenon DEF next
    <3>3. RsTypes'
      BY <1>1, <2>1, <3>1, <3>2, Zenon DEF RsTypes
    <3>4. ASSUME NEW u \in TaskIds
          PROVE  /\ rsTasks'[u].priority = rsTasks[u].priority
                 /\ rsTasks'[u].state = "None" <=> rsTasks[u].state = "None"
                 /\ rsTasks'[u].state \in {"Ready", "Running"} =>
                      u \in Range(rsQueues'[rsTasks[u].priority])
                 /\ rsTasks'[u].state = "Running" => u = rsCurrent'
      <4>1. NoTaskId \notin TaskIds
        BY RustSchedAssumption DEF NoTaskId, TaskIds
      <4>2. CASE u = next
        BY <2>1, <3>1, <3>2, <4>2 DEF next
      <4>3. CASE u # next
        <5>1. rsTasks'[u].state = rsTasks[u].state /\ rsTasks'[u].priority = rsTasks[u].priority
          BY <3>2, <4>3
        <5>2. rsTasks[u].state # "Running"
          BY <1>2, <2>2, <4>1
        <5> QED
          BY <1>2, <3>1, <5>1, <5>2, Zenon
      <4> QED
        BY <4>2, <4>3
    <3> QED
      BY <3>1, <3>3, <3>4, RsStep, Zenon
  <2>3. CASE rsCurrent # NoTaskId
    <3> DEFINE cur == rsCurrent
               mid == Preempted(ts, rsCurrent)
    <3>1. cur \in TaskIds
      BY <1>1, <2>3
    <3>2. /\ rsTasks' = Dispatched(mid, next)
          /\ rsQueues' = IF ts[cur].state = "Running"
                         THEN enqueue(rsQueues, cur, ts[cur].priority) ELSE rsQueues
      BY <1>4, <2>3, Zenon DEF schedule, next
    <3>3. /\ mid \in [TaskIds -> RsTask] /\ \A u \in TaskIds \ {cur} : mid[u] = ts[u]
          /\ mid[cur].priority = ts[cur].priority
          /\ mid[cur].state = IF ts[cur].state = "Running" THEN "Ready" ELSE ts[cur].state
      BY <3>1, RsTable
    <3> HIDE DEF mid
    <3>4. /\ rsTasks' \in [TaskIds -> RsTask]
          /\ \A u \in TaskIds \ {next} : rsTasks'[u] = mid[u]
          /\ rsTasks'[next].priority = mid[next].priority /\ rsTasks'[next].state = "Running"
      BY <2>1, <3>2, <3>3, RsTable, Zenon DEF next
    <3>5. next # cur /\ next \in TaskIds /\ rsCurrent' = next
      BY <2>1, Zenon DEF next
    <3> HIDE DEF cur
    <3>6. /\ rsTasks'[cur].priority = rsTasks[cur].priority
          /\ rsTasks'[cur].state = IF rsTasks[cur].state = "Running" THEN "Ready"
                                   ELSE rsTasks[cur].state
      BY <3>1, <3>3, <3>4, <3>5, Zenon
    <3>7. rsTasks'[next].priority = rsTasks[next].priority
      BY <3>3, <3>4, <3>5
    <3>8. \A u \in TaskIds \ {cur, next} :
            rsTasks'[u].priority = rsTasks[u].priority /\ rsTasks'[u].state = rsTasks[u].state
      BY <3>3, <3>4
    <3>9. /\ rsQueues' \in [Priorities -> Seq(TaskIds)]
          /\ \A p \in Priorities : Range(rsQueues[p]) \subseteq Range(rsQueues'[p])
          /\ \A p \in Priorities : \A u \in Range(rsQueues'[p]) :
               u \in Range(rsQueues[p]) \/ (rsTasks[u].priority = p /\ rsTasks[u].state # "None")
      <4>1. CASE rsTasks[cur].state = "Running"
        <5>1. rsQueues' = enqueue(rsQueues, cur, rsTasks[cur].priority)
              /\ rsTasks[cur].priority \in Priorities
          BY <1>1, <3>1, <3>2, <4>1, Zenon
        <5> DEFINE q == rsTasks[cur].priority
        <5> HIDE DEF q
        <5>2. /\ rsQueues' \in [Priorities -> Seq(TaskIds)]
              /\ \A p \in Priorities :
                   Range(rsQueues'[p]) = IF p = q THEN Range(rsQueues[p]) \cup {cur}
                                         ELSE Range(rsQueues[p])
          BY <3>1, <5>1, RsEnqueued, Zenon DEF q
        <5>3. rsTasks[cur].priority = q /\ rsTasks[cur].state # "None"
          BY <4>1, Zenon DEF q
        <5> QED
          BY <5>2, <5>3
      <4>2. CASE rsTasks[cur].state # "Running"
        <5>1. rsQueues' = rsQueues
          BY <3>1, <3>2, <4>2, Zenon
        <5> QED
          BY <1>1, <5>1
      <4> QED
        BY <4>1, <4>2, Zenon
    <3>10. RsTypes'
      BY <3>4, <3>5, <3>9 DEF RsTypes
    <3>11. ASSUME NEW u \in TaskIds
           PROVE  /\ rsTasks'[u].priority = rsTasks[u].priority
                  /\ rsTasks'[u].state = "None" <=> rsTasks[u].state = "None"
                  /\ rsTasks'[u].state \in {"Ready", "Running"} =>
                       u \in Range(rsQueues[rsTasks[u].priority])
                  /\ rsTasks'[u].state = "Running" => u = rsCurrent'
      <4>1. CASE u = next
        BY <2>1, <3>4, <3>5, <3>7, <4>1 DEF next
      <4>2. CASE u = cur
        <5>1. CASE rsTasks[cur].state = "Running"
          BY <1>2, <3>1, <3>6, <4>2, <5>1, Zenon
        <5>2. CASE rsTasks[cur].state # "Running"
          BY <1>2, <3>1, <3>6, <4>2, <5>2, Zenon
        <5> QED
          BY <5>1, <5>2, Zenon
      <4>3. CASE u \notin {cur, next}
        <5>1. rsTasks[u].state # "Running"
          BY <1>2, <4>3, Zenon DEF cur
        <5> QED
          BY <1>2, <3>8, <4>3, <5>1
      <4> QED
        BY <4>1, <4>2, <4>3, Zenon
    <3>12. \A u \in TaskIds : rsTasks'[u].state \in {"Ready", "Running"} =>
             u \in Range(rsQueues'[rsTasks[u].priority])
      BY <1>1, <3>9, <3>11
    <3> QED
      BY <3>9, <3>10, <3>11, <3>12, RsStep, Zenon
  <2> QED
    BY <2>2, <2>3, Zenon
<1> QED
  BY <1>3, <1>4

\* The countdown changes slices only (tick).
LEMMA RsChargedTable ==
  ASSUME RsInv
  PROVE  /\ Charged \in [TaskIds -> RsTask]
         /\ \A t \in TaskIds : /\ Charged[t].state = rsTasks[t].state
                               /\ Charged[t].priority = rsTasks[t].priority
<1>1. rsTasks \in [TaskIds -> RsTask] /\ rsCurrent \in TaskIds \cup {NoTaskId}
  BY DEF RsInv, RsTypes
<1>2. CASE rsCurrent = NoTaskId
  BY <1>1, <1>2 DEF Charged
<1>3. CASE rsCurrent # NoTaskId
  <2> DEFINE k == IF rsTasks[rsCurrent].time_slice > 0
                  THEN rsTasks[rsCurrent].time_slice - 1 ELSE 0
  <2>1. rsTasks[rsCurrent] \in RsTask
    BY <1>1, <1>3
  <2>2. k \in Int
    BY <2>1 DEF RsTask
  <2>3. Charged = [rsTasks EXCEPT ![rsCurrent].time_slice = k]
    BY <1>3 DEF Charged
  <2> HIDE DEF k
  <2> QED
    BY <1>1, <2>1, <2>2, <2>3, Zenon DEF RsTask
<1> QED
  BY <1>2, <1>3

\* Every call of the scheduler keeps the invariant.
LEMMA RsNextKeeps == RsInv /\ [RsNext]_rsVars => RsInv'
<1> SUFFICES ASSUME RsInv, [RsNext]_rsVars
             PROVE  RsInv'
  OBVIOUS
<1>1. CASE RsSetUp
  <2>1. 0 \in TaskIds /\ 0 \in Priorities
    BY RustSchedAssumption DEF TaskIds, Priorities
  <2>2. UsizeMax \in Int
    BY RustSchedAssumption DEF UsizeMax, time_slice
  <2>3. rsTasks[0].state = "None"
    BY <1>1, <2>1 DEF RsSetUp, RsInv, RsBoot
  <2> QED
    BY <1>1, <2>1, <2>2, <2>3, RsNewKeeps, Zenon DEF RsSetUp
<1>2. ASSUME NEW p \in Priorities, create_task(p)
      PROVE  RsInv'
  <2>1. PICK t \in TaskIds :
          /\ ~Exists(t)
          /\ rsTasks' = [rsTasks EXCEPT ![t] = Task("Ready", p, BASE_SLICE)]
          /\ rsQueues' = enqueue(rsQueues, t, p)
    BY <1>2, Zenon DEF create_task
  <2>2. rsReady' = TRUE /\ rsCurrent' = rsCurrent /\ BASE_SLICE \in Int
    <3>1. rsReady /\ rsReady' = rsReady
      BY <1>2, Zenon DEF create_task
    <3>2. rsCurrent' = rsCurrent
      BY <1>2 DEF create_task
    <3>3. BASE_SLICE \in Int
      BY RustSchedAssumption
    <3> QED
      BY <3>1, <3>2, <3>3
  <2> QED
    BY <2>1, <2>2, RsNewKeeps, Zenon DEF Exists
<1>3. ASSUME NEW t \in TaskIds, exit_task(t)
      PROVE  RsInv'
  BY <1>3, RsStopKeeps, Zenon DEF exit_task
<1>4. ASSUME NEW t \in TaskIds, block_task(t)
      PROVE  RsInv'
  BY <1>4, RsStopKeeps, Zenon DEF block_task, Exists
<1>5. ASSUME NEW t \in TaskIds, unblock_task(t)
      PROVE  RsInv'
  BY <1>5, RsWakeKeeps
<1>6. CASE tick
  <2>1. CASE schedule(Charged)
    BY <1>6, <2>1, RsChargedTable, RsScheduleKeeps DEF tick
  <2>2. CASE rsTasks' = Charged /\ rsQueues' = rsQueues /\ rsCurrent' = rsCurrent
    <3>1. RsTypes'
      BY <2>2, RsChargedTable DEF RsInv, RsTypes
    <3>2. rsReady' = rsReady
      BY <1>6 DEF tick
    <3> QED
      BY <2>2, <3>1, <3>2, RsChargedTable, RsStep, Zenon DEF RsInv, RsRunnableQueued, Queued
  <2> QED
    BY <1>6, <2>1, <2>2 DEF tick
<1>7. CASE SysYield
  BY <1>7, RsScheduleKeeps DEF SysYield, RsInv, RsTypes
<1>8. CASE SysExit
  <2>1. rsCurrent \in TaskIds
    BY <1>8 DEF SysExit, RsInv, RsTypes
  <2> QED
    BY <1>3, <1>8, <2>1 DEF SysExit
<1>9. CASE UNCHANGED rsVars
  BY <1>9 DEF rsVars, RsInv, RsTypes, RsHome, RsBoot, RsRunnableQueued, Queued
<1> QED
  BY <1>1, <1>2, <1>3, <1>4, <1>5, <1>6, <1>7, <1>8, <1>9 DEF RsNext

(***************************************************************************)
(* For every number of tasks and priorities: the Rust scheduler loses no   *)
(* task.  Whoever can run is in the queue of its priority, and only the    *)
(* current task is Running (schedule, block_task, unblock_task, exit_task).*)
(***************************************************************************)
THEOREM RunnableTasksQueued == RsSpec => []RsRunnableQueued
<1>1. RsInit => RsInv
  <2> SUFFICES ASSUME RsInit
               PROVE  RsInv
    OBVIOUS
  <2>1. 0 \in Priorities /\ Task("None", 0, 0) \in RsTask
    BY RustSchedAssumption DEF Priorities, Task, RsTask, TaskState
  <2>2. RsTypes
    BY <2>1 DEF RsInit, RsTypes
  <2>3. \A t \in TaskIds : rsTasks[t].state = "None"
    BY DEF RsInit, Task
  <2>4. \A p \in Priorities : Range(rsQueues[p]) = {}
    BY DEF RsInit, Range
  <2> QED
    BY <2>2, <2>3, <2>4 DEF RsInv, RsHome, RsBoot, RsRunnableQueued
<1>2. RsInv => RsRunnableQueued
  BY DEF RsInv
<1> QED
  BY <1>1, <1>2, RsNextKeeps, PTL DEF RsSpec
=============================================================================
