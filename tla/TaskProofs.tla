----------------------------- MODULE TaskProofs -----------------------------
(***************************************************************************)
(* Processes, the mutex and the producer/consumer demo, for every number   *)
(* of tasks and processes. Processes: PCB, address space and kernel stack  *)
(* of every runnable one are its own, with slots reused at any time; in    *)
(* the boot order exit codes and pids are right too. Mutex and demo: what  *)
(* follows from round robin.                                               *)
(***************************************************************************)
EXTENDS Proc, LockClients, ProdCons, CommonLemmas

\* The time a leaf that names no prover may take
USE SMTT(60)

\* The lowest process block of a set is in it.
LEMMA LowestIn ==
  ASSUME NEW S \in SUBSET Procs, S # {}
  PROVE  Lowest(S) \in S
<1>1. S \in SUBSET Nat
  BY ProcAssumption DEF Procs
<1>2. \E x \in S : \A y \in S : x <= y
  BY <1>1, LeastNat
<1> QED
  BY <1>2 DEF Lowest

\* A search of the process table finds a member of the set, or nothing.
LEMMA FirstProcIn ==
  ASSUME NEW S \in SUBSET Procs
  PROVE  /\ FirstProc(S) \in Procs \cup {-1}
         /\ FirstProc(S) # -1 => FirstProc(S) \in S
BY LowestIn DEF FirstProc

\* The two lookups return PCBs in use that match.
LEMMA Lookups ==
  ASSUME NEW s, NEW pid
  PROVE  /\ find_by_task(s) # -1 =>
              /\ find_by_task(s) \in Procs
              /\ procs[find_by_task(s)].state # "NONE"
              /\ procs[find_by_task(s)].task_idx = s
         /\ find_pid(pid) # -1 =>
              /\ find_pid(pid) \in Procs
              /\ procs[find_pid(pid)].state # "NONE"
              /\ procs[find_pid(pid)].pid = pid
<1> DEFINE T == {p \in Procs : procs[p].state # "NONE" /\ procs[p].task_idx = s}
           P == {p \in Procs : procs[p].state # "NONE" /\ procs[p].pid = pid}
<1>1. FirstProc(T) # -1 => FirstProc(T) \in T
  BY FirstProcIn
<1>2. FirstProc(P) # -1 => FirstProc(P) \in P
  BY FirstProcIn
<1> QED
  BY <1>1, <1>2 DEF find_by_task, find_pid

-----------------------------------------------------------------------------
(* The steps of the task table, as the process layer needs them.           *)

\* A switch runs a task that was READY and leaves every other one as it was.
LEMMA SwitchFacts ==
  ASSUME TableTypeOK, NEW as \in task_state_t, SwitchAway(as)
  PROVE  /\ current' \in Slots /\ state[current'] = "READY"
         /\ state' = [state EXCEPT ![current] = as, ![current'] = "RUNNING"]
         /\ UNCHANGED <<kill_pending, parked>>
<1>1. next_ready(state, current) # NoSlot
  BY DEF SwitchAway
<1> QED
  BY <1>1, NextReadyType DEF SwitchAway, TableTypeOK

\* Whatever the current task does to give up the CPU, nobody else dies, only
\* slots that could run before can run afterwards, and a task that leaves
\* cannot run again.
LEMMA LeaveFacts ==
  ASSUME TableTypeOK, ~parked => state[current] = "RUNNING", Exit
  PROVE  /\ TableTypeOK'
         /\ ~parked' => state'[current'] = "RUNNING"
         /\ \A s \in Slots : Live(s)' => Live(s) /\ s # current
<1>1. CASE SwitchAway("FINISHED")
  BY <1>1, SwitchFacts DEF Exit, TableTypeOK, task_state_t, Live
<1>2. CASE Park
  BY <1>2 DEF Exit, Park, TableTypeOK, task_state_t, Live
<1> QED
  BY <1>1, <1>2 DEF Exit, Leave

\* What sched_yield does to the task table.
LEMMA YieldFacts ==
  ASSUME TableTypeOK, ~parked, state[current] = "RUNNING", SchedYield
  PROVE  /\ TableTypeOK'
         /\ ~parked' => state'[current'] = "RUNNING"
         /\ \A s \in Slots : Live(s)' => Live(s)
<1>1. CASE Yield
  BY <1>1, SwitchFacts DEF Yield, TableTypeOK, task_state_t, Live
<1>2. CASE Kill
  <2>1. Exit
    BY <1>2 DEF Kill, Exit
  <2> QED
    BY <2>1, LeaveFacts
<1>3. CASE UNCHANGED tableVars
  BY <1>3 DEF tableVars, TableTypeOK, Live
<1> QED
  BY <1>1, <1>2, <1>3 DEF SchedYield

\* After a switch TTBR0 holds the address space of the task switched to.
LEMMA HandoffActive ==
  ASSUME as_active = task_as[current], switch_address_space,
         UNCHANGED task_as
  PROVE  as_active' = task_as'[current']
BY DEF switch_address_space

\* What sched_spawn does to the task table.
LEMMA SpawnFacts ==
  ASSUME TableTypeOK, NEW s \in Slots, SpawnAt(s)
  PROVE  /\ TableTypeOK'
         /\ s = slot_alloc(state)
         /\ ~Live(s) /\ Live(s)'
         /\ \A t \in Slots \ {s} : state'[t] = state[t]
         /\ UNCHANGED <<current, parked>>
<1>1. state[s] \in {"UNUSED", "FINISHED"}
  <2>1. slot_alloc(state) # NoSlot
    BY MaxTasksAssumption DEF SpawnAt, Slots, NoSlot
  <2> QED
    BY <2>1, SlotAllocFree DEF SpawnAt
<1> QED
  BY <1>1 DEF SpawnAt, TableTypeOK, task_state_t, Live

-----------------------------------------------------------------------------
\* At boot there is no process, and main runs.
LEMMA InitInv == Init => TypeOK /\ ProcInv
<1> SUFFICES ASSUME Init
             PROVE  TypeOK /\ ProcInv
  OBVIOUS
<1>1. 0 \in Slots /\ 0 \in 0 .. MAX_PID
  BY MaxTasksAssumption, ProcAssumption DEF Slots
<1>2. TableTypeOK
  <2>1. kill_pending \in [Slots -> BOOLEAN] /\ parked \in BOOLEAN
    BY Zenon DEF Init, TableInit
  <2> QED
    BY <1>1, <2>1 DEF Init, TableInit, TableTypeOK, task_state_t
<1>3. NoProc \in proc_t
  BY <1>1 DEF NoProc, proc_t
<1>4. TypeOK
  BY <1>1, <1>2, <1>3, ProcAssumption DEF Init, TypeOK, None
<1>5. ProcInv
  BY <1>1 DEF Init, TableInit, ProcInv, NoProc, InUse, PidUnique, Live
<1> QED
  BY <1>4, <1>5

\* A step that leaves PCBs and slots alone and lets nobody new run.
LEMMA QuietStep ==
  ASSUME TypeOK, ProcInv, TableTypeOK',
         UNCHANGED <<procVars, slotVars, status>>,
         waiting' \in [Slots -> 0 .. MAX_PID], booting' \in BOOLEAN,
         \A s \in Slots : Live(s)' => Live(s),
         ~parked' => state'[current'] = "RUNNING",
         as_active' \in 0 .. MAX_PID,
         ~parked' => as_active' = task_as[current']
  PROVE  TypeOK' /\ ProcInv'
<1> USE DEF procVars, slotVars
<1>1. TypeOK'
  BY DEF TypeOK
<1>2. ProcInv'
  BY DEF ProcInv, PidUnique, InUse, Backed
<1> QED
  BY <1>1, <1>2

\* After a switch TTBR0 holds an address space, or none.
LEMMA ActiveType ==
  ASSUME TypeOK, switch_address_space, current' \in Slots
  PROVE  as_active' \in 0 .. MAX_PID
BY DEF TypeOK, switch_address_space

\* A yield keeps the invariant of the process table.
LEMMA YieldStep ==
  ASSUME TypeOK, ProcInv, ~parked, SchedYield,
         waiting' \in [Slots -> 0 .. MAX_PID],
         UNCHANGED <<procVars, slotVars, status>>
  PROVE  TypeOK' /\ ProcInv'
<1>1. /\ TableTypeOK'
      /\ ~parked' => state'[current'] = "RUNNING"
      /\ \A s \in Slots : Live(s)' => Live(s)
  BY YieldFacts, Zenon DEF TypeOK, ProcInv
<1>2. as_active' = task_as[current']
  BY HandoffActive DEF SchedYield, ProcInv, slotVars
<1>3. as_active' \in 0 .. MAX_PID
  BY <1>1, ActiveType DEF SchedYield, TableTypeOK
<1>4. booting' \in BOOLEAN
  BY Zenon DEF SchedYield
<1> QED
  BY <1>1, <1>2, <1>3, <1>4, QuietStep, Zenon

\* proc_exit: the PCB that becomes a zombie names the caller's slot, so it
\* backs no task that can run after the caller is gone.
LEMMA ExitStep ==
  ASSUME TypeOK, ProcInv, NEW code \in CODES, proc_exit(code)
  PROVE  TypeOK' /\ ProcInv'
<1> DEFINE p == find_by_task(current)
<1>1. ~parked /\ SchedExit /\ Exit
  BY Zenon DEF proc_exit, SchedExit, Acting
<1>2. /\ TableTypeOK'
      /\ ~parked' => state'[current'] = "RUNNING"
      /\ \A s \in Slots : Live(s)' => Live(s) /\ s # current
  BY <1>1, LeaveFacts DEF TypeOK, ProcInv
<1>3. UNCHANGED <<next_pid, chunks_free, as_live, task_as, task_pid, kstack,
                  owner, waiting>>
  BY Zenon DEF proc_exit, slotVars
<1>4. as_active' = task_as[current'] /\ as_active' \in 0 .. MAX_PID
  BY <1>1, <1>2, <1>3, HandoffActive, ActiveType
     DEF SchedExit, ProcInv, TableTypeOK
<1>5. booting' \in BOOLEAN
  BY <1>1, Zenon DEF SchedExit
<1>6. status' \in [Pids -> CODES \cup {None}]
  BY Zenon DEF proc_exit, TypeOK
<1>7. p # -1 => p \in Procs /\ InUse(p) /\ procs[p].task_idx = current
  BY Lookups DEF InUse
<1>8. /\ p = -1 => procs' = procs
      /\ p # -1 => procs' = [procs EXCEPT ![p] =
             [procs[p] EXCEPT !.exit_code = code, !.state = "ZOMBIE"]]
  BY Zenon DEF proc_exit, TypeOK
<1> DEFINE z == [procs[p] EXCEPT !.exit_code = code, !.state = "ZOMBIE"]
<1>r. p # -1 => /\ z \in proc_t
                /\ z.state = "ZOMBIE" /\ z.pid = procs[p].pid
                /\ z.as = procs[p].as /\ z.task_idx = procs[p].task_idx
  BY <1>7, ZenonT(60) DEF TypeOK, proc_t
<1> HIDE DEF z, p
<1>9. procs' \in [Procs -> proc_t]
  BY <1>7, <1>8, <1>r DEF TypeOK, z
<1>10. TypeOK'
  BY <1>2, <1>3, <1>4, <1>5, <1>6, <1>9 DEF TypeOK
<1>11. \A q \in Procs :
         /\ InUse(q)' <=> InUse(q)
         /\ procs'[q].pid = procs[q].pid
         /\ procs'[q].as = procs[q].as
         /\ procs'[q].task_idx = procs[q].task_idx
         /\ procs[q].task_idx # current => procs'[q].state = procs[q].state
  <2>1. CASE p = -1
    BY <1>8, <2>1 DEF InUse
  <2>2. CASE p # -1
    <3>1. procs' = [procs EXCEPT ![p] = z]
      BY <1>8, <2>2, Zenon DEF z
    <3> QED
      BY <1>7, <1>r, <2>2, <3>1 DEF InUse, TypeOK
  <2> QED
    BY <2>1, <2>2
<1>12. \A s \in Slots : Live(s)' /\ task_as[s] # 0 => Backed(s)'
  BY <1>2, <1>3, <1>11 DEF ProcInv, Backed
<1>13. PidUnique'
  BY <1>11 DEF ProcInv, PidUnique, InUse
<1>14. ProcInv'
  BY <1>2, <1>3, <1>4, <1>11, <1>12, <1>13, Zenon DEF ProcInv, InUse
<1> QED
  BY <1>10, <1>14

\* A thread's return is an exit that touches no PCB.
LEMMA ThreadExitStep ==
  ASSUME TypeOK, ProcInv, task_trampoline
  PROVE  TypeOK' /\ ProcInv'
<1>1. SchedExit /\ Exit /\ ~parked
  BY Zenon DEF task_trampoline, SchedExit, Acting
<1>2. /\ TableTypeOK'
      /\ ~parked' => state'[current'] = "RUNNING"
      /\ \A s \in Slots : Live(s)' => Live(s)
  BY <1>1, LeaveFacts, Zenon DEF TypeOK, ProcInv
<1>3. as_active' = task_as[current'] /\ as_active' \in 0 .. MAX_PID
  BY <1>1, <1>2, HandoffActive, ActiveType
     DEF SchedExit, ProcInv, TableTypeOK, task_trampoline, slotVars
<1>4. booting' \in BOOLEAN
  BY <1>1, Zenon DEF SchedExit
<1>5. waiting' \in [Slots -> 0 .. MAX_PID]
  BY DEF task_trampoline, TypeOK
<1> QED
  BY <1>2, <1>3, <1>4, <1>5, QuietStep DEF task_trampoline

\* Reaping a zombie: no task that can run uses its address space.
LEMMA ReapStep ==
  ASSUME TypeOK, ProcInv, ~parked, NEW p \in Procs,
         procs[p].state = "ZOMBIE", Reap(p)
  PROVE  TypeOK' /\ ProcInv'
<1>1. /\ InUse(p) /\ procs[p].as = procs[p].pid
      /\ procs[p].as \in Pids /\ procs[p].task_idx \in Slots
  BY DEF ProcInv, InUse, TypeOK, Pids
<1>2. \A s \in Slots : Live(s) => task_as[s] # procs[p].as
  <2> SUFFICES ASSUME NEW s \in Slots, Live(s), task_as[s] = procs[p].as
               PROVE  FALSE
    OBVIOUS
  <2>1. Backed(s)
    BY <1>1 DEF ProcInv, Pids
  <2>2. InUse(kstack[s]) /\ procs[kstack[s]].pid = procs[p].pid
    BY <1>1, <2>1 DEF Backed, ProcInv, InUse
  <2>3. kstack[s] = p
    BY <1>1, <2>1, <2>2, Zenon DEF ProcInv, PidUnique, InUse, Backed
  <2> QED
    BY <2>1, <2>3 DEF Backed
<1>3. as_active # procs[p].as
  BY <1>2, Zenon DEF ProcInv, Live, TypeOK, TableTypeOK
<1>4. /\ as_live' = as_live \ {procs[p].as}
      /\ UNCHANGED <<as_active, chunks_free>>
  BY <1>3, Zenon DEF Reap, as_destroy
<1>5. procs' = [procs EXCEPT ![p] =
                  [state |-> "NONE", pid |-> procs[p].pid, task_idx |-> -1,
                   as |-> 0, exit_code |-> procs[p].exit_code]]
  BY DEF Reap, TypeOK
<1>6. UNCHANGED <<state, current, kill_pending, parked, next_pid, task_as,
                  kstack, owner, status, booting>>
  BY DEF Reap, tableVars
<1>7. TypeOK'
  <2>1. procs' \in [Procs -> proc_t]
    <3>1. 0 \in 0 .. MAX_PID /\ procs[p] \in proc_t
      BY ProcAssumption DEF TypeOK
    <3>2. [state |-> "NONE", pid |-> procs[p].pid, task_idx |-> -1, as |-> 0,
           exit_code |-> procs[p].exit_code] \in proc_t
      BY <3>1, Zenon DEF proc_t
    <3> QED
      BY <1>5, <3>2, Zenon DEF TypeOK
  <2>2. waiting' \in [Slots -> 0 .. MAX_PID]
    BY ProcAssumption DEF Reap, TypeOK, TableTypeOK
  <2>3. task_pid' \in [Slots -> Pids \cup {-1}]
    BY <1>1, Zenon DEF Reap, TypeOK
  <2> QED
    BY <1>4, <1>6, <2>1, <2>2, <2>3, Zenon DEF TypeOK, TableTypeOK
<1>8. \A q \in Procs : q # p => procs'[q] = procs[q]
  BY <1>5, Zenon DEF TypeOK
<1>9. ~InUse(p)'
  BY <1>5, Zenon DEF InUse, TypeOK, proc_t
<1>10. PidUnique'
  BY <1>8, <1>9 DEF ProcInv, PidUnique, InUse
<1>11. \A q \in Procs : InUse(q)' =>
         /\ procs'[q].pid \in 1 .. next_pid' - 1
         /\ procs'[q].as = procs'[q].pid
         /\ procs'[q].as \in as_live'
         /\ procs'[q].task_idx \in Slots
  <2> SUFFICES ASSUME NEW q \in Procs, InUse(q)'
               PROVE  /\ procs'[q].pid \in 1 .. next_pid' - 1
                      /\ procs'[q].as = procs'[q].pid
                      /\ procs'[q].as \in as_live'
                      /\ procs'[q].task_idx \in Slots
    BY Zenon
  <2>1. q # p /\ procs'[q] = procs[q] /\ InUse(q)
    BY <1>8, <1>9, Zenon DEF InUse
  <2>2. procs[q].pid # procs[p].pid
    BY <1>1, <2>1, Zenon DEF ProcInv, PidUnique, InUse
  <2> QED
    BY <1>1, <1>4, <1>6, <2>1, <2>2, Zenon DEF ProcInv
<1>12. \A s \in Slots : Live(s)' =>
         IF task_as'[s] = 0 THEN kstack'[s] = -1 ELSE Backed(s)'
  <2> SUFFICES ASSUME NEW s \in Slots, Live(s), task_as[s] # 0
               PROVE  Backed(s)'
    BY <1>6, Zenon DEF ProcInv, Live
  <2>1. Backed(s)
    BY DEF ProcInv
  <2>2. kstack[s] # p
    BY <2>1, Zenon DEF Backed
  <2> QED
    BY <1>6, <1>8, <2>1, <2>2, Zenon DEF Backed
<1>13. ProcInv'
  BY <1>4, <1>6, <1>10, <1>11, <1>12, Zenon DEF ProcInv
<1> QED
  BY <1>7, <1>13, Zenon

\* A thread takes a slot whose last occupant is gone.
LEMMA SpawnThreadStep ==
  ASSUME TypeOK, ProcInv, SpawnThread
  PROVE  TypeOK' /\ ProcInv'
<1>1. PICK s \in Slots :
        /\ SpawnAt(s)
        /\ task_as' = [task_as EXCEPT ![s] = 0]
        /\ task_pid' = [task_pid EXCEPT ![s] = -1]
        /\ kstack' = [kstack EXCEPT ![s] = -1]
        /\ owner' = [owner EXCEPT ![s] = 0]
        /\ waiting' = [waiting EXCEPT ![s] = 0]
  BY Zenon DEF SpawnThread, Occupy
<1>2. /\ TableTypeOK' /\ ~Live(s)
      /\ \A t \in Slots \ {s} : state'[t] = state[t]
      /\ UNCHANGED <<current, parked>>
  BY <1>1, SpawnFacts DEF TypeOK
<1>3. UNCHANGED <<procs, next_pid, chunks_free, as_live, as_active, status,
                  booting>>
  BY Zenon DEF SpawnThread, procVars
<1>4. ~parked => current # s
  BY <1>2, Zenon DEF ProcInv, Live
<1>5. TypeOK'
  BY <1>1, <1>2, <1>3, ProcAssumption DEF TypeOK
<1>6. \A t \in Slots : t # s =>
        /\ Live(t)' <=> Live(t)
        /\ task_as'[t] = task_as[t]
        /\ kstack'[t] = kstack[t]
  BY <1>1, <1>2, Zenon DEF Live, TypeOK
<1>7. task_as'[s] = 0 /\ kstack'[s] = -1
  BY <1>1 DEF TypeOK
<1>8. ProcInv'
  <2>1. ~parked' => state'[current'] = "RUNNING" /\ as_active' = task_as'[current']
    BY <1>2, <1>3, <1>4, <1>6, Zenon DEF ProcInv, TypeOK, TableTypeOK
  <2>2. \A t \in Slots : Live(t)' =>
          IF task_as'[t] = 0 THEN kstack'[t] = -1 ELSE Backed(t)'
    BY <1>3, <1>6, <1>7 DEF ProcInv, Backed
  <2> QED
    BY <1>3, <2>1, <2>2, Zenon DEF ProcInv, PidUnique, InUse
<1> QED
  BY <1>5, <1>8

\* A new process takes a free PCB, a free slot and a pid never used before.
LEMMA SpawnImageStep ==
  ASSUME TypeOK, ProcInv, proc_spawn_image
  PROVE  TypeOK' /\ ProcInv'
<1> DEFINE n == Lowest(FreeProcs)
<1>1. n \in Procs /\ procs[n].state = "NONE"
  BY LowestIn DEF proc_spawn_image, FreeProcs
<1> HIDE DEF n
<1>2. PICK s \in Slots :
        /\ SpawnAt(s)
        /\ task_as' = [task_as EXCEPT ![s] = next_pid]
        /\ task_pid' = [task_pid EXCEPT ![s] = next_pid]
        /\ kstack' = [kstack EXCEPT ![s] = n]
        /\ owner' = [owner EXCEPT ![s] = next_pid]
        /\ waiting' = [waiting EXCEPT ![s] = 0]
  BY Zenon DEF proc_spawn_image, Occupy, n
<1>3. /\ TableTypeOK' /\ ~Live(s) /\ s = slot_alloc(state)
      /\ \A t \in Slots \ {s} : state'[t] = state[t]
      /\ UNCHANGED <<current, parked>>
  BY <1>2, SpawnFacts, Zenon DEF TypeOK
<1> DEFINE new == [state |-> "ALIVE", pid |-> next_pid, task_idx |-> s,
                   as |-> next_pid, exit_code |-> 0]
<1>4. /\ procs' = [procs EXCEPT ![n] = new]
      /\ next_pid \in Pids /\ next_pid' = next_pid + 1
      /\ as_live' = as_live \cup {next_pid}
      /\ chunks_free' \in 0 .. CHUNKS
      /\ UNCHANGED <<as_active, status, booting>>
  BY <1>3, ProcAssumption DEF proc_spawn_image, n, TypeOK, Pids
<1>5. new \in proc_t
  BY <1>4, ProcAssumption DEF proc_t, Pids
<1>6. /\ new.state = "ALIVE" /\ new.pid = next_pid /\ new.task_idx = s
      /\ new.as = next_pid
  OBVIOUS
<1> HIDE DEF new
<1>7. /\ procs'[n] = new
      /\ \A q \in Procs : q # n => procs'[q] = procs[q]
  BY <1>1, <1>4 DEF TypeOK
<1>8. TypeOK'
  <2>1. procs' \in [Procs -> proc_t]
    BY <1>4, <1>5, Zenon DEF TypeOK
  <2>2. next_pid' \in 1 .. MAX_PID + 1 /\ next_pid \in 0 .. MAX_PID
        /\ 0 \in 0 .. MAX_PID
    BY <1>4, ProcAssumption DEF Pids
  <2> QED
    BY <1>1, <1>2, <1>3, <1>4, <2>1, <2>2, Zenon DEF TypeOK
<1>9. ~parked => current # s
  BY <1>3, Zenon DEF ProcInv, Live
<1>10. \A t \in Slots : t # s =>
         /\ Live(t)' <=> Live(t)
         /\ task_as'[t] = task_as[t]
         /\ kstack'[t] = kstack[t]
  BY <1>2, <1>3, Zenon DEF Live, TypeOK
<1>11. task_as'[s] = next_pid /\ kstack'[s] = n
  BY <1>2 DEF TypeOK
<1>12. ~parked' => state'[current'] = "RUNNING" /\ as_active' = task_as'[current']
  BY <1>3, <1>4, <1>9, <1>10, Zenon DEF ProcInv, TypeOK, TableTypeOK
<1>13. \A q \in Procs : InUse(q)' =>
         /\ procs'[q].pid \in 1 .. next_pid' - 1
         /\ procs'[q].as = procs'[q].pid
         /\ procs'[q].as \in as_live'
         /\ procs'[q].task_idx \in Slots
         /\ q # n => InUse(q) /\ procs'[q].pid # next_pid
  <2> SUFFICES ASSUME NEW q \in Procs, InUse(q)'
               PROVE  /\ procs'[q].pid \in 1 .. next_pid' - 1
                      /\ procs'[q].as = procs'[q].pid
                      /\ procs'[q].as \in as_live'
                      /\ procs'[q].task_idx \in Slots
                      /\ q # n => InUse(q) /\ procs'[q].pid # next_pid
    BY Zenon
  <2>1. CASE q = n
    BY <1>4, <1>6, <1>7, <2>1 DEF Pids
  <2>2. CASE q # n
    <3>1. InUse(q) /\ procs'[q] = procs[q]
      BY <1>7, <2>2, Zenon DEF InUse
    <3>2. procs[q].pid \in 1 .. next_pid - 1
      BY <3>1 DEF ProcInv
    <3>3. procs[q].pid \in 1 .. next_pid' - 1 /\ procs[q].pid # next_pid
      BY <1>4, <3>2 DEF Pids
    <3> QED
      BY <1>4, <3>1, <3>3 DEF ProcInv
  <2> QED
    BY <2>1, <2>2, Zenon
<1>14. PidUnique'
  BY <1>6, <1>7, <1>13 DEF ProcInv, PidUnique, InUse
<1>15. \A t \in Slots : Live(t)' =>
         IF task_as'[t] = 0 THEN kstack'[t] = -1 ELSE Backed(t)'
  <2> SUFFICES ASSUME NEW t \in Slots, Live(t)'
               PROVE  IF task_as'[t] = 0 THEN kstack'[t] = -1 ELSE Backed(t)'
    BY Zenon
  <2>1. CASE t = s
    BY <1>1, <1>4, <1>6, <1>7, <1>11, <2>1 DEF Backed, Pids
  <2>2. CASE t # s /\ task_as[t] = 0
    BY <1>10, <2>2, Zenon DEF ProcInv
  <2>3. CASE t # s /\ task_as[t] # 0
    <3>1. Backed(t)
      BY <1>10, <2>3, Zenon DEF ProcInv
    <3>2. kstack[t] # n
      BY <1>1, <3>1, Zenon DEF Backed
    <3>3. procs'[kstack[t]] = procs[kstack[t]]
      BY <1>7, <3>1, <3>2, Zenon DEF Backed
    <3> QED
      BY <1>10, <2>3, <3>1, <3>3, Zenon DEF Backed
  <2> QED
    BY <2>1, <2>2, <2>3, Zenon
<1>16. ProcInv'
  BY <1>12, <1>13, <1>14, <1>15, Zenon DEF ProcInv
<1> QED
  BY <1>8, <1>16

\* One turn of proc_wait.
LEMMA WaitStep ==
  ASSUME TypeOK, ProcInv, NEW pid \in Pids, proc_wait(pid)
  PROVE  TypeOK' /\ ProcInv'
<1> DEFINE p == find_pid(pid)
<1>1. ~parked /\ current \in Slots /\ pid \in 0 .. MAX_PID /\ 0 \in 0 .. MAX_PID
  BY ProcAssumption DEF proc_wait, TypeOK, TableTypeOK, Pids
<1>2. CASE p # -1 /\ procs[p].state = "ZOMBIE" /\ Reap(p)
  <2>1. p \in Procs
    BY <1>2, Lookups
  <2> QED
    BY <1>1, <1>2, <2>1, ReapStep, Zenon
<1>3. CASE /\ waiting' = [waiting EXCEPT ![current] = pid]
           /\ SchedYield
           /\ UNCHANGED <<procVars, slotVars, status>>
  <2>1. waiting' \in [Slots -> 0 .. MAX_PID]
    BY <1>1, <1>3, Zenon DEF TypeOK
  <2> QED
    BY <1>1, <1>3, <2>1, YieldStep, Zenon
<1>4. CASE /\ waiting' = [waiting EXCEPT ![current] = 0]
           /\ UNCHANGED <<tableVars, procVars, slotVars, as_active, status,
                          booting>>
  <2>1. waiting' \in [Slots -> 0 .. MAX_PID]
    BY <1>1, <1>4, Zenon DEF TypeOK
  <2> QED
    BY <1>4, <2>1, QuietStep, Zenon
       DEF TypeOK, TableTypeOK, tableVars, procVars, slotVars, Live, ProcInv
<1> QED
  BY <1>2, <1>3, <1>4, Zenon DEF proc_wait

\* Every operation of proc.c and of the scheduler under it keeps the invariant.
LEMMA NextInv == TypeOK /\ ProcInv /\ [Next]_vars => TypeOK' /\ ProcInv'
<1> SUFFICES ASSUME TypeOK, ProcInv, [Next]_vars
             PROVE  TypeOK' /\ ProcInv'
  BY Zenon
<1>1. CASE TaskYield
  BY <1>1, YieldStep, Zenon DEF TaskYield, Acting, TypeOK
<1>2. CASE Watchdog
  <2>1. TableTypeOK' /\ UNCHANGED <<state, current, parked>>
    BY <1>2 DEF Watchdog, Flag, TypeOK, TableTypeOK
  <2> QED
    BY <1>2, <2>1, QuietStep, Zenon DEF Watchdog, Live, TypeOK, ProcInv, slotVars
<1>3. CASE UNCHANGED vars
  BY <1>3, QuietStep, Zenon
     DEF vars, tableVars, procVars, slotVars, TypeOK, TableTypeOK, Live, ProcInv
<1> QED
  BY <1>1, <1>2, <1>3, SpawnThreadStep, SpawnImageStep, ThreadExitStep,
     ExitStep, WaitStep, Zenon DEF Next, Progress

\* ProcInv, with the types, is invariant.
THEOREM ProcInvariant == Spec => [](TypeOK /\ ProcInv)
BY InitInv, NextInv, PTL DEF Spec

(***************************************************************************)
(* proc_wait never destroys the address space of a task that can run, and  *)
(* the space in TTBR0 is the running task's (AsSafe).                      *)
(***************************************************************************)
THEOREM AddressSpaceSafety == Spec => []AsSafe
<1>1. TypeOK /\ ProcInv => AsSafe
  BY Zenon DEF TypeOK, ProcInv, AsSafe, Backed, InUse
<1> QED
  BY <1>1, ProcInvariant, PTL

\* Processes that can run have kernel stacks of their own.
THEOREM KernelStacksPrivate == Spec => []KstackPrivate
<1>1. TypeOK /\ ProcInv => KstackPrivate
  <2> SUFFICES ASSUME ProcInv,
                      NEW s \in Slots, NEW t \in Slots,
                      Live(s), Live(t), kstack[s] # -1, kstack[s] = kstack[t]
               PROVE  s = t
    BY DEF KstackPrivate
  <2>1. Backed(s)
    <3>1. IF task_as[s] = 0 THEN kstack[s] = -1 ELSE Backed(s)
      BY Zenon DEF ProcInv
    <3> QED
      BY <3>1
  <2>2. Backed(t)
    <3>1. IF task_as[t] = 0 THEN kstack[t] = -1 ELSE Backed(t)
      BY Zenon DEF ProcInv
    <3> QED
      BY <3>1
  <2>3. procs[kstack[s]].task_idx = s /\ procs[kstack[t]].task_idx = t
    BY <2>1, <2>2 DEF Backed
  <2> QED
    BY <2>3, Zenon
<1> QED
  BY <1>1, ProcInvariant, PTL

\* proc_spawn_image never gives out a pid that is still in the table.
THEOREM PidsUnique == Spec => []PidUnique
<1>1. ProcInv => PidUnique
  BY Zenon DEF ProcInv
<1> QED
  BY <1>1, ProcInvariant, PTL

-----------------------------------------------------------------------------
(* The shipped boot.  Nothing is spawned after the first switch, so no slot *)
(* is taken over and the PCB that names a slot is its occupant's.          *)

BootInv ==
  /\ booting => \A s \in Slots : state[s] # "FINISHED"
  /\ \A s \in Slots : task_as[s] = owner[s]
  /\ \A s \in Slots : state[s] = "UNUSED" => owner[s] = 0
  /\ \A p \in Procs : InUse(p) => owner[procs[p].task_idx] = procs[p].pid
  /\ StatusKept

\* No switch empties a slot.
LEMMA SwitchKeepsSlots ==
  ASSUME TableTypeOK, SchedYield \/ SchedExit
  PROVE  /\ \A s \in Slots : state'[s] = "UNUSED" => state[s] = "UNUSED"
         /\ booting' = FALSE
<1>1. ASSUME NEW as \in {"READY", "FINISHED"}, SwitchAway(as)
      PROVE  \A s \in Slots : state'[s] = "UNUSED" => state[s] = "UNUSED"
  BY <1>1, SwitchFacts, Zenon DEF TableTypeOK, task_state_t
<1>2. ASSUME Park
      PROVE  \A s \in Slots : state'[s] = "UNUSED" => state[s] = "UNUSED"
  BY <1>2 DEF Park, TableTypeOK
<1>3. ASSUME UNCHANGED tableVars
      PROVE  \A s \in Slots : state'[s] = "UNUSED" => state[s] = "UNUSED"
  BY <1>3 DEF tableVars
<1>4. booting' = FALSE
  BY DEF SchedYield, SchedExit
<1> QED
  BY <1>1, <1>2, <1>3, <1>4 DEF SchedYield, SchedExit, Yield, Kill, Exit, Leave

\* A lookup misses only when there is nothing to find.
LEMMA FindByTaskMiss ==
  ASSUME NEW s, find_by_task(s) = -1
  PROVE  \A p \in Procs : InUse(p) => procs[p].task_idx # s
<1> DEFINE T == {p \in Procs : procs[p].state # "NONE" /\ procs[p].task_idx = s}
<1>1. T # {} => Lowest(T) \in T
  BY LowestIn
<1>2. -1 \notin Procs
  BY ProcAssumption DEF Procs
<1>3. T = {}
  BY <1>1, <1>2, Zenon DEF find_by_task, FirstProc
<1> QED
  BY <1>3 DEF InUse

\* The PCB find_by_task returns for the running task is its own.
LEMMA FindOwn ==
  ASSUME TypeOK, ProcInv, BootInv, ~parked
  PROVE  /\ find_by_task(current) = -1 => owner[current] = 0
         /\ find_by_task(current) # -1 =>
              /\ find_by_task(current) \in Procs
              /\ InUse(find_by_task(current))
              /\ procs[find_by_task(current)].pid = owner[current]
<1>1. current \in Slots /\ Live(current)
  BY Zenon DEF TypeOK, TableTypeOK, ProcInv, Live
<1>2. ASSUME find_by_task(current) = -1 PROVE owner[current] = 0
  <2>1. task_as[current] # 0 => Backed(current)
    BY <1>1, Zenon DEF ProcInv
  <2>2. ~Backed(current)
    BY <1>2, FindByTaskMiss, Zenon DEF Backed, InUse
  <2> QED
    BY <1>1, <2>1, <2>2, Zenon DEF BootInv
<1> QED
  BY <1>2, Lookups, Zenon DEF BootInv, InUse

\* Before the first spawn the invariant holds of an empty table.
LEMMA BootInitInv == Init => BootInv
BY DEF Init, TableInit, BootInv, NoProc, InUse, StatusKept

\* A spawn during boot takes a slot that nobody had.
LEMMA BootSpawn ==
  ASSUME TypeOK, ProcInv, BootInv, booting, NEW s \in Slots, SpawnAt(s)
  PROVE  /\ state[s] = "UNUSED" /\ owner[s] = 0
         /\ \A t \in Slots : state'[t] # "FINISHED"
         /\ \A t \in Slots : state'[t] = "UNUSED" => state[t] = "UNUSED" /\ t # s
         /\ \A p \in Procs : InUse(p) => procs[p].task_idx # s
<1>1. s = slot_alloc(state) /\ state' = [state EXCEPT ![s] = "READY"]
  BY DEF SpawnAt
<1>2. slot_alloc(state) # NoSlot
  BY <1>1, MaxTasksAssumption DEF Slots, NoSlot
<1>3. state[s] = "UNUSED"
  BY <1>1, <1>2, SlotAllocFree, Zenon DEF BootInv
<1>4. owner[s] = 0
  BY <1>3, Zenon DEF BootInv
<1>5. /\ \A t \in Slots : state'[t] # "FINISHED"
      /\ \A t \in Slots : state'[t] = "UNUSED" => state[t] = "UNUSED" /\ t # s
  BY <1>1, Zenon DEF BootInv, TypeOK, TableTypeOK
<1>6. \A p \in Procs : InUse(p) => procs[p].task_idx # s
  BY <1>4 DEF BootInv, ProcInv
<1> QED
  BY <1>3, <1>4, <1>5, <1>6

\* A thread spawned during the boot keeps what is known of it.
LEMMA BootThreadStep ==
  ASSUME TypeOK, ProcInv, BootInv, booting, SpawnThread
  PROVE  BootInv'
<1>1. PICK s \in Slots :
        /\ SpawnAt(s)
        /\ task_as' = [task_as EXCEPT ![s] = 0]
        /\ owner' = [owner EXCEPT ![s] = 0]
  BY Zenon DEF SpawnThread, Occupy
<1>2. UNCHANGED <<procs, status, booting>>
  BY DEF SpawnThread, procVars
<1>3. /\ \A t \in Slots : state'[t] # "FINISHED"
      /\ \A t \in Slots : state'[t] = "UNUSED" => state[t] = "UNUSED" /\ t # s
      /\ \A p \in Procs : InUse(p) => procs[p].task_idx # s
  BY <1>1, BootSpawn, Zenon
<1>4. /\ owner'[s] = 0 /\ task_as'[s] = 0
      /\ \A t \in Slots : t # s => owner'[t] = owner[t] /\ task_as'[t] = task_as[t]
  BY <1>1, Zenon DEF TypeOK
<1>5. \A p \in Procs : InUse(p) => procs[p].task_idx \in Slots
  BY DEF ProcInv
<1> QED
  BY <1>2, <1>3, <1>4, <1>5, Zenon DEF BootInv, InUse, StatusKept

\* A process spawned during the boot keeps what is known of it.
LEMMA BootImageStep ==
  ASSUME TypeOK, ProcInv, BootInv, booting, proc_spawn_image
  PROVE  BootInv'
<1> DEFINE n == Lowest(FreeProcs)
           new == [state |-> "ALIVE", pid |-> next_pid, task_idx |-> slot_alloc(state),
                   as |-> next_pid, exit_code |-> 0]
<1>1. n \in Procs
  BY LowestIn DEF proc_spawn_image, FreeProcs
<1>2. PICK s \in Slots :
        /\ SpawnAt(s)
        /\ task_as' = [task_as EXCEPT ![s] = next_pid]
        /\ owner' = [owner EXCEPT ![s] = next_pid]
  BY Zenon DEF proc_spawn_image, Occupy
<1>3. procs' = [procs EXCEPT ![n] = new] /\ UNCHANGED <<status, booting>>
  BY Zenon DEF proc_spawn_image
<1>4. new.state = "ALIVE" /\ new.pid = next_pid /\ new.task_idx = s
  BY <1>2, Zenon DEF SpawnAt
<1> HIDE DEF n, new
<1>5. procs'[n] = new /\ \A q \in Procs : q # n => procs'[q] = procs[q]
  BY <1>1, <1>3 DEF TypeOK
<1>6. /\ \A t \in Slots : state'[t] # "FINISHED"
      /\ \A t \in Slots : state'[t] = "UNUSED" => state[t] = "UNUSED" /\ t # s
      /\ \A p \in Procs : InUse(p) => procs[p].task_idx # s
  BY <1>2, BootSpawn, Zenon
<1>7. /\ owner'[s] = next_pid /\ task_as'[s] = next_pid
      /\ \A t \in Slots : t # s => owner'[t] = owner[t] /\ task_as'[t] = task_as[t]
  BY <1>2, Zenon DEF TypeOK
<1>8. \A p \in Procs : InUse(p) => procs[p].task_idx \in Slots
  BY DEF ProcInv
<1>9. \A p \in Procs : InUse(p)' => owner'[procs'[p].task_idx] = procs'[p].pid
  <2> TAKE p \in Procs
  <2>1. CASE p = n
    BY <1>4, <1>5, <1>7, <2>1, Zenon
  <2>2. CASE p # n
    BY <1>5, <1>6, <1>7, <1>8, <2>2 DEF BootInv, InUse
  <2> QED
    BY <2>1, <2>2, Zenon
<1>10. StatusKept'
  BY <1>3, <1>4, <1>5 DEF BootInv, StatusKept
<1> QED
  BY <1>3, <1>6, <1>7, <1>9, <1>10, Zenon DEF BootInv

\* The status a process passes to SYS_EXIT lands in its own PCB.
LEMMA BootExitStep ==
  ASSUME TypeOK, ProcInv, BootInv, NEW code \in CODES, proc_exit(code)
  PROVE  BootInv'
<1> DEFINE p == find_by_task(current)
           z == [procs[p] EXCEPT !.exit_code = code, !.state = "ZOMBIE"]
<1>1. ~parked /\ SchedExit /\ UNCHANGED <<task_as, owner>>
  BY Zenon DEF proc_exit, Acting, slotVars
<1>2. /\ \A s \in Slots : state'[s] = "UNUSED" => state[s] = "UNUSED"
      /\ booting' = FALSE
  BY <1>1, SwitchKeepsSlots, Zenon DEF TypeOK
<1>3. /\ p = -1 => owner[current] = 0
      /\ p # -1 => p \in Procs /\ InUse(p) /\ procs[p].pid = owner[current]
  BY <1>1, FindOwn, Zenon
<1>4. CASE p = -1
  <2>1. procs' = procs /\ status' = status
    BY <1>3, <1>4, Zenon DEF proc_exit
  <2> QED
    BY <1>1, <1>2, <2>1 DEF BootInv, InUse, StatusKept
<1>5. CASE p # -1
  <2>1. procs' = [procs EXCEPT ![p] = z]
    BY <1>5, Zenon DEF proc_exit, TypeOK
  <2>2. /\ z.state = "ZOMBIE" /\ z.pid = procs[p].pid /\ z.exit_code = code
        /\ z.task_idx = procs[p].task_idx
    BY <1>3, <1>5, ZenonT(60) DEF TypeOK, proc_t
  <2>3. owner[current] \in Pids /\ owner[current] # 0
    <3>1. procs[p].pid \in 1 .. next_pid - 1 /\ next_pid \in 1 .. MAX_PID + 1
      BY <1>3, <1>5, Zenon DEF ProcInv, TypeOK
    <3>2. MAX_PID \in Nat
      BY ProcAssumption
    <3> QED
      BY <1>3, <1>5, <3>1, <3>2 DEF Pids
  <2>4. status' = [status EXCEPT ![owner[current]] = code]
    BY <2>3, Zenon DEF proc_exit
  <2>5. status'[owner[current]] = code /\ \A i \in Pids : i # owner[current] => status'[i] = status[i]
    BY <2>3, <2>4, Zenon DEF TypeOK
  <2> HIDE DEF z, p
  <2>6. procs'[p] = z /\ \A q \in Procs : q # p => procs'[q] = procs[q]
    BY <1>3, <1>5, <2>1, Zenon DEF TypeOK
  <2>7. \A q \in Procs : InUse(q) /\ q # p => procs[q].pid # owner[current] /\ procs[q].pid \in Pids
    <3> SUFFICES ASSUME NEW q \in Procs, InUse(q), q # p
                 PROVE  procs[q].pid # owner[current] /\ procs[q].pid \in Pids
      BY Zenon
    <3>1. procs[q].pid # owner[current]
      BY <1>3, <1>5, Zenon DEF ProcInv, PidUnique, InUse
    <3>2. procs[q].pid \in 1 .. next_pid - 1 /\ next_pid \in 1 .. MAX_PID + 1 /\ MAX_PID \in Nat
      BY ProcAssumption, Zenon DEF ProcInv, TypeOK
    <3> QED
      BY <3>1, <3>2 DEF Pids
  <2>8. StatusKept'
    <3> SUFFICES ASSUME NEW q \in Procs, procs'[q].state = "ZOMBIE"
                 PROVE  status'[procs'[q].pid] = procs'[q].exit_code
      BY DEF StatusKept
    <3>1. CASE q = p
      BY <1>3, <1>5, <2>2, <2>5, <2>6, <3>1, Zenon
    <3>2. CASE q # p
      BY <2>5, <2>6, <2>7, <3>2 DEF BootInv, StatusKept, InUse
    <3> QED
      BY <3>1, <3>2, Zenon
  <2>9. \A q \in Procs : InUse(q)' => owner'[procs'[q].task_idx] = procs'[q].pid
    <3> TAKE q \in Procs
    <3>1. CASE q = p
      BY <1>1, <1>3, <1>5, <2>2, <2>6, <3>1, Zenon DEF BootInv
    <3>2. CASE q # p
      BY <1>1, <2>6, <3>2, Zenon DEF BootInv, InUse
    <3> QED
      BY <3>1, <3>2, Zenon
  <2> QED
    BY <1>1, <1>2, <2>8, <2>9 DEF BootInv
<1> QED
  BY <1>4, <1>5

\* Reaping takes a PCB away and leaves the others alone.
LEMMA BootReapStep ==
  ASSUME TypeOK, ProcInv, BootInv, NEW p \in Procs, procs[p].state = "ZOMBIE", Reap(p)
  PROVE  BootInv'
<1>1. UNCHANGED <<state, task_as, owner, status, booting>>
  BY Zenon DEF Reap, tableVars
<1>2. procs' = [procs EXCEPT ![p] =
                  [state |-> "NONE", pid |-> procs[p].pid, task_idx |-> -1,
                   as |-> 0, exit_code |-> procs[p].exit_code]]
  BY Zenon DEF Reap, TypeOK
<1>3. procs'[p].state = "NONE" /\ \A q \in Procs : q # p => procs'[q] = procs[q]
  BY <1>2 DEF TypeOK
<1> QED
  BY <1>1, <1>3 DEF BootInv, InUse, StatusKept

\* A step that changes no PCB, no slot and no status.
LEMMA BootQuietStep ==
  ASSUME BootInv, UNCHANGED <<procs, task_as, owner, status>>,
         \A s \in Slots : state'[s] = "UNUSED" => state[s] = "UNUSED",
         booting' => booting /\ UNCHANGED state
  PROVE  BootInv'
BY Zenon DEF BootInv, InUse, StatusKept

\* Every step after the boot keeps the invariant.
LEMMA BootInductive ==
  TypeOK /\ ProcInv /\ BootInv /\ [BootNext]_vars => BootInv'
<1> SUFFICES ASSUME TypeOK, ProcInv, BootInv, [BootNext]_vars PROVE BootInv'
  BY Zenon
<1>1. CASE TaskYield
  BY <1>1, BootQuietStep, SwitchKeepsSlots, Zenon DEF TaskYield, TypeOK, procVars, slotVars
<1>2. CASE task_trampoline
  BY <1>2, BootQuietStep, SwitchKeepsSlots, Zenon DEF task_trampoline, TypeOK, procVars, slotVars
<1>3. ASSUME NEW pid \in Pids, proc_wait(pid) PROVE BootInv'
  <2> DEFINE p == find_pid(pid)
  <2>1. CASE p # -1 /\ procs[p].state = "ZOMBIE" /\ Reap(p)
    BY <2>1, BootReapStep, Lookups, Zenon
  <2>2. CASE SchedYield /\ UNCHANGED <<procVars, slotVars, status>>
    BY <2>2, BootQuietStep, SwitchKeepsSlots, Zenon DEF TypeOK, procVars, slotVars
  <2>3. CASE UNCHANGED <<tableVars, procVars, slotVars, as_active, status, booting>>
    BY <2>3, BootQuietStep, Zenon DEF tableVars, procVars, slotVars
  <2> QED
    BY <1>3, <2>1, <2>2, <2>3, Zenon DEF proc_wait
<1>4. CASE Watchdog
  BY <1>4, BootQuietStep, Zenon DEF Watchdog, Flag, procVars, slotVars
<1>5. CASE UNCHANGED vars
  BY <1>5, BootQuietStep DEF vars, tableVars, procVars, slotVars
<1> QED
  BY <1>1, <1>2, <1>3, <1>4, <1>5, BootThreadStep, BootImageStep, BootExitStep, Zenon
     DEF BootNext, Progress

\* The invariant holds of every run that starts with the boot.
LEMMA BootInvariant == BootSpec => [](TypeOK /\ ProcInv /\ BootInv)
<1>1. Init => TypeOK /\ ProcInv /\ BootInv
  BY InitInv, BootInitInv
<1>2. TypeOK /\ ProcInv /\ BootInv /\ [BootNext]_vars => (TypeOK /\ ProcInv /\ BootInv)'
  <2>1. [BootNext]_vars => [Next]_vars
    BY DEF BootNext, Next
  <2> QED
    BY <2>1, NextInv, BootInductive
<1> QED
  BY <1>1, <1>2, PTL DEF BootSpec

(***************************************************************************)
(* In the shipped boot a zombie's exit code, which proc_wait hands to the  *)
(* parent, is the one its own process passed to SYS_EXIT.                  *)
(***************************************************************************)
THEOREM ExitStatusKept == BootSpec => []StatusKept
<1>1. BootInv => StatusKept
  BY DEF BootInv
<1> QED
  BY <1>1, BootInvariant, PTL

(***************************************************************************)
(* In the shipped boot proc_getpid returns the caller's pid, and 0 to      *)
(* kernel threads.                                                         *)
(***************************************************************************)
THEOREM GetpidCorrect == BootSpec => []GetpidRight
<1>1. TypeOK /\ ProcInv /\ BootInv => GetpidRight
  BY FindOwn DEF GetpidRight, proc_getpid
<1> QED
  BY <1>1, BootInvariant, PTL

-----------------------------------------------------------------------------
(***************************************************************************)
(* The mutex and the demo: mutual exclusion across yields, exits and reuse *)
(* of slots, and no item lost under round robin.                           *)
(***************************************************************************)

(***************************************************************************)
(* The table, as far as its clients rely on it: until the machine parks,   *)
(* the current task and no other is RUNNING.                               *)
(***************************************************************************)
TableInv ==
  /\ TableTypeOK
  /\ ~parked => state[current] = "RUNNING"
  /\ \A s \in Slots : s # current => state[s] # "RUNNING"

\* A switch goes to a READY task, the nearest after the one that leaves.
LEMMA SwitchStep ==
  ASSUME TableInv, NEW as \in {"READY", "FINISHED"}, ~parked, SwitchAway(as)
  PROVE  /\ TableInv' /\ ~parked'
         /\ current' # current /\ state[current'] = "READY"
         /\ \A j \in ReadySlots(state) : Hops(current, current') <= Hops(current, j)
         /\ state'[current] = as
         /\ \A s \in Slots : s \notin {current, current'} => state'[s] = state[s]
<1> USE DEF TableInv, TableTypeOK
<1> DEFINE n == next_ready(state, current)
<1>1. /\ n # NoSlot /\ current' = n
      /\ state' = [state EXCEPT ![current] = as, ![n] = "RUNNING"]
      /\ UNCHANGED <<kill_pending, parked>>
  BY Zenon DEF SwitchAway
<1>2. n \in Slots /\ state[n] = "READY" /\ ReadySlots(state) # {}
  BY <1>1, NextReadyType, Zenon
<1>3. \A j \in ReadySlots(state) : Hops(current, n) <= Hops(current, j)
  BY <1>2, NextReadyNearest
<1> HIDE DEF n
<1>4. n # current
  BY <1>2
<1>5. \A s \in Slots : state'[s] = IF s = n THEN "RUNNING"
                                   ELSE IF s = current THEN as ELSE state[s]
  BY <1>1, <1>2, Zenon
<1>6. state' \in [Slots -> task_state_t]
  BY <1>1, <1>2, Zenon DEF task_state_t
<1> QED
  BY <1>1, <1>2, <1>3, <1>4, <1>5, <1>6, Zenon

\* sched_yield switches, or keeps a sole runner going.
LEMMA TableYieldStep ==
  ASSUME TableInv, ~parked, sched_yield
  PROVE  \/ SwitchAway("READY")
         \/ UNCHANGED tableVars /\ ReadySlots(state) = {}
BY NextReadyType, Zenon DEF sched_yield, Yield, TableInv, TableTypeOK

\* Leaving switches, or parks the machine when nobody is READY.
LEMMA TableExitStep ==
  ASSUME TableInv, ~parked, Exit
  PROVE  \/ SwitchAway("FINISHED")
         \/ /\ ReadySlots(state) = {} /\ TableInv' /\ parked' /\ current' = current
            /\ \A s \in Slots : s # current => state'[s] = state[s]
<1>1. CASE SwitchAway("FINISHED")
  BY <1>1, Zenon
<1>2. CASE Park
  <2>1. /\ ReadySlots(state) = {} /\ parked' = TRUE /\ UNCHANGED <<current, kill_pending>>
        /\ state' = [state EXCEPT ![current] = "FINISHED"]
    BY <1>2, NextReadyType, Zenon DEF Park, TableInv, TableTypeOK
  <2>2. state' \in [Slots -> task_state_t]
    BY <2>1, Zenon DEF TableInv, TableTypeOK, task_state_t
  <2> QED
    BY <2>1, <2>2, Zenon DEF TableInv, TableTypeOK
<1> QED
  BY <1>1, <1>2, Zenon DEF Exit, Leave

-----------------------------------------------------------------------------
(* The mutex.                                                              *)

LockInv == LocksTypeOK /\ TableInv /\ Exclusive

\* A free mutex with no holder satisfies the invariant.
LEMMA LocksInitInv == LocksInit => LockInv
<1> SUFFICES ASSUME LocksInit PROVE LockInv
  OBVIOUS
<1>1. /\ kill_pending \in [Slots -> BOOLEAN] /\ parked \in BOOLEAN
      /\ holds \in [Slots -> BOOLEAN] /\ locking \in [Slots -> BOOLEAN]
      /\ released \in [Slots -> BOOLEAN]
  BY Zenon DEF LocksInit, TableInit
<1>2. /\ state \in [Slots -> task_state_t] /\ current \in Slots
      /\ mutex = -1 /\ sem \in Nat
      /\ state[current] = "RUNNING" /\ \A s \in Slots : s # current => state[s] # "RUNNING"
  BY MaxTasksAssumption DEF LocksInit, TableInit, mutex_init, sem_init, Slots, task_state_t
<1>3. \A s \in Slots : holds[s] = FALSE
  BY Zenon DEF LocksInit
<1> QED
  BY <1>1, <1>2, <1>3 DEF LockInv, LocksTypeOK, TableInv, TableTypeOK, Exclusive

\* Giving up the CPU leaves the holder live.
LEMMA GiveUpCpuStep ==
  ASSUME LockInv, ~parked, GiveUpCpu
  PROVE  /\ TableInv' /\ released' \in [Slots -> BOOLEAN]
         /\ \A s \in Slots : state[s] \in {"READY", "RUNNING"} => state'[s] \in {"READY", "RUNNING"}
<1> USE DEF LockInv, GiveUpCpu
<1>1. released' \in [Slots -> BOOLEAN]
  BY Zenon DEF LocksTypeOK
<1>2. CASE SwitchAway("READY")
  <2>1. /\ TableInv' /\ state'[current] = "READY" /\ current' \in Slots
        /\ state'[current'] = "RUNNING"
        /\ \A s \in Slots : s \notin {current, current'} => state'[s] = state[s]
    BY <1>2, SwitchStep, Zenon DEF TableInv, TableTypeOK
  <2> QED
    BY <1>1, <2>1, Zenon
<1>3. CASE UNCHANGED tableVars
  BY <1>1, <1>3 DEF tableVars, TableInv, TableTypeOK
<1> QED
  BY <1>2, <1>3, TableYieldStep

\* Every step of a client of the mutex, and every switch, keeps the invariant.
LEMMA LocksInductive == LockInv /\ [LocksNext]_lockVars => LockInv'
<1> SUFFICES ASSUME LockInv, [LocksNext]_lockVars PROVE LockInv'
  BY Zenon
<1> USE DEF LockInv
<1>1. current \in Slots /\ -1 \notin Slots
  BY MaxTasksAssumption DEF TableInv, TableTypeOK, Slots
<1>2. CASE mutex_lock
  <2>1. ~parked /\ ~holds[current] /\ UNCHANGED sem
    BY <1>2 DEF mutex_lock
  <2>2. CASE mutex_trylock(TRUE) /\ holds' = [holds EXCEPT ![current] = TRUE]
             /\ locking' = [locking EXCEPT ![current] = FALSE]
             /\ UNCHANGED <<tableVars, released>>
    <3>1. mutex' = current /\ mutex = -1
      BY <2>1, <2>2, Zenon DEF mutex_trylock, MutexFree, Exclusive
    <3>2. TableInv'
      BY <2>2 DEF tableVars, TableInv, TableTypeOK
    <3>3. LocksTypeOK'
      BY <1>1, <2>1, <2>2, <3>1, <3>2, Zenon DEF LocksTypeOK, TableInv
    <3>4. \A s \in Slots : holds'[s] => s = current
      BY <1>1, <2>2, <3>1, Zenon DEF Exclusive, LocksTypeOK
    <3>5. holds'[current] /\ state'[current] = "RUNNING"
      BY <1>1, <2>1, <2>2, Zenon DEF tableVars, TableInv, LocksTypeOK
    <3>6. Exclusive'
      BY <3>1, <3>4, <3>5, Zenon DEF Exclusive
    <3> QED
      BY <3>2, <3>3, <3>6, Zenon
  <2>3. CASE mutex_trylock(FALSE) /\ locking' = [locking EXCEPT ![current] = TRUE]
             /\ GiveUpCpu /\ UNCHANGED holds
    <3>1. mutex' = mutex
      BY <2>3, Zenon DEF mutex_trylock
    <3>2. /\ TableInv' /\ released' \in [Slots -> BOOLEAN]
          /\ \A s \in Slots : state[s] \in {"READY", "RUNNING"} => state'[s] \in {"READY", "RUNNING"}
      BY <2>1, <2>3, GiveUpCpuStep
    <3>3. LocksTypeOK'
      BY <1>1, <2>1, <2>3, <3>1, <3>2, Zenon DEF LocksTypeOK, TableInv
    <3>4. Exclusive'
      BY <2>3, <3>1, <3>2, Zenon DEF Exclusive, LocksTypeOK
    <3> QED
      BY <3>2, <3>3, <3>4, Zenon
  <2> QED
    BY <1>2, <2>2, <2>3, Zenon DEF mutex_lock
<1>3. CASE Unlock
  <2>1. /\ holds[current] /\ mutex = current /\ mutex' = -1
        /\ holds' = [holds EXCEPT ![current] = FALSE]
        /\ released' = [released EXCEPT ![current] = TRUE]
        /\ UNCHANGED <<tableVars, sem, locking>>
    BY <1>1, <1>3, Zenon DEF Unlock, mutex_unlock, Exclusive
  <2>2. TableInv'
    BY <2>1, Zenon DEF tableVars, TableInv, TableTypeOK
  <2>3. LocksTypeOK'
    BY <1>1, <2>1, <2>2, Zenon DEF LocksTypeOK, TableInv
  <2>4. Exclusive'
    BY <1>1, <2>1, Zenon DEF Exclusive, LocksTypeOK
  <2> QED
    BY <2>2, <2>3, <2>4
<1>4. CASE ClientYield
  <2>1. ~parked /\ GiveUpCpu /\ UNCHANGED <<mutex, sem, holds, locking>>
    BY <1>4, Zenon DEF ClientYield, Free
  <2>2. /\ TableInv' /\ released' \in [Slots -> BOOLEAN]
        /\ \A s \in Slots : state[s] \in {"READY", "RUNNING"} => state'[s] \in {"READY", "RUNNING"}
    BY <2>1, GiveUpCpuStep, Zenon
  <2>3. LocksTypeOK' /\ Exclusive'
    BY <2>1, <2>2 DEF LocksTypeOK, TableInv, Exclusive
  <2> QED
    BY <2>2, <2>3
<1>5. CASE ClientExit
  <2>1. /\ ~parked /\ ~holds[current] /\ Exit
        /\ released' = [released EXCEPT ![current] = FALSE]
        /\ UNCHANGED <<mutex, sem, holds, locking>>
    BY <1>5, Zenon DEF ClientExit, Free
  <2>2. /\ TableInv'
        /\ \A s \in Slots : s # current /\ state[s] \in {"READY", "RUNNING"}
             => state'[s] \in {"READY", "RUNNING"}
    <3>1. CASE SwitchAway("FINISHED")
      <4>1. /\ TableInv' /\ ~parked' /\ current' \in Slots /\ state'[current'] = "RUNNING"
            /\ \A s \in Slots : s \notin {current, current'} => state'[s] = state[s]
        BY <2>1, <3>1, SwitchStep, Zenon DEF TableInv, TableTypeOK
      <4> QED
        BY <4>1, Zenon
    <3>2. CASE ~SwitchAway("FINISHED")
      BY <2>1, <3>2, TableExitStep, Zenon
    <3> QED
      BY <3>1, <3>2
  <2>3. LocksTypeOK'
    BY <1>1, <2>1, <2>2 DEF LocksTypeOK, TableInv
  <2>4. mutex # current
    BY <1>1, <2>1, Zenon DEF Exclusive
  <2>5. Exclusive'
    BY <2>1, <2>2, <2>4, Zenon DEF Exclusive, LocksTypeOK
  <2> QED
    BY <2>2, <2>3, <2>5, Zenon
<1>6. CASE ClientSpawn
  <2>1. /\ ~parked /\ UNCHANGED <<mutex, sem, clientVars>>
        /\ \E slot \in Slots : SpawnAt(slot)
    BY <1>6 DEF ClientSpawn, Free, Spawn
  <2>2. PICK slot \in Slots : SpawnAt(slot)
    BY <2>1
  <2>3. /\ slot = slot_alloc(state)
        /\ state' = [state EXCEPT ![slot] = "READY"]
        /\ kill_pending' = [kill_pending EXCEPT ![slot] = FALSE]
        /\ UNCHANGED <<current, parked>>
    BY <2>2 DEF SpawnAt
  <2>4. slot # NoSlot
    BY <1>1 DEF NoSlot
  <2>5. state[slot] \in {"UNUSED", "FINISHED"}
    BY <2>3, <2>4, SlotAllocFree, Zenon
  <2>6. state' \in [Slots -> task_state_t] /\ kill_pending' \in [Slots -> BOOLEAN]
    BY <2>3, Zenon DEF TableInv, TableTypeOK, task_state_t
  <2>7. TableInv'
    BY <2>1, <2>3, <2>5, <2>6, Zenon DEF TableInv, TableTypeOK
  <2>8. LocksTypeOK'
    BY <2>1, <2>7, Zenon DEF LocksTypeOK, TableInv, clientVars
  <2>9. Exclusive'
    BY <2>1, <2>3, <2>5, Zenon DEF Exclusive, LocksTypeOK, clientVars, TableInv, TableTypeOK
  <2> QED
    BY <2>7, <2>8, <2>9, Zenon
<1>7. CASE UNCHANGED lockVars
  BY <1>7 DEF lockVars, tableVars, clientVars, LocksTypeOK, TableInv, TableTypeOK, Exclusive
<1> QED
  BY <1>2, <1>3, <1>4, <1>5, <1>6, <1>7, Zenon DEF LocksNext, Work

(***************************************************************************)
(* sync.c's mutex excludes, for any number of tasks that lock, yield       *)
(* inside and outside their critical sections, leave and are replaced.     *)
(***************************************************************************)
THEOREM MutexExcludes == LocksInit /\ [][LocksNext]_lockVars => []Exclusive
<1>1. LocksInit /\ [][LocksNext]_lockVars => []LockInv
  BY LocksInitInv, LocksInductive, PTL
<1>2. LockInv => Exclusive
  BY Zenon DEF LockInv
<1> QED
  BY <1>1, <1>2, PTL

-----------------------------------------------------------------------------
(* The demo: the cell is overwritten only after it was read.               *)

Pending == produced - Len(consumed)

(***************************************************************************)
(* While an item is in the cell the CPU is on its way from the producer to *)
(* the consumer: the search of next_ready cannot pass the consumer, which  *)
(* is READY, so the producer does not run again before.                    *)
(***************************************************************************)
OnTheWay == current # PROD /\ Hops(PROD, current) <= Hops(PROD, CONS)

DemoInv ==
  /\ TableInv /\ DemoTypeOK
  /\ shared_item = produced
  /\ Pending \in {0, 1}
  /\ Pending = IF taken THEN sem + 1 ELSE sem
  /\ taken => current = CONS
  /\ Pending = 1 => OnTheWay
  /\ Len(consumed) < ITEMS => state[CONS] \in {"READY", "RUNNING"}
  /\ NoItemLost

\* The nearest READY slot is not past the consumer.
LEMMA StillOnTheWay ==
  ASSUME NEW c \in Slots, NEW n \in Slots, c # CONS, n # c,
         c = PROD \/ Hops(PROD, c) <= Hops(PROD, CONS),
         Hops(c, n) <= Hops(c, CONS)
  PROVE  n # PROD /\ Hops(PROD, n) <= Hops(PROD, CONS)
BY DemoAssumption, MaxTasksAssumption DEF Hops, Slots

\* The empty buffer of the demo satisfies the invariant.
LEMMA DemoInitInv == DemoInit => DemoInv
<1> SUFFICES ASSUME DemoInit PROVE DemoInv
  OBVIOUS
<1>1. kill_pending \in [Slots -> BOOLEAN] /\ parked \in BOOLEAN /\ taken \in BOOLEAN
  BY Zenon DEF DemoInit
<1>2. TableInv
  BY <1>1, MaxTasksAssumption DEF DemoInit, TableInv, TableTypeOK, Slots, task_state_t
<1>3. /\ produced = 0 /\ shared_item = 0 /\ sem = 0 /\ mutex = -1
      /\ consumed = <<>> /\ taken = FALSE
  BY DEF DemoInit, mutex_init, sem_init
<1>4. consumed \in Seq(0 .. ITEMS) /\ Len(consumed) = 0
  BY <1>3
<1>5. DemoTypeOK
  BY <1>1, <1>2, <1>3, <1>4, DemoAssumption DEF DemoTypeOK, TableInv
<1>6. state[CONS] = "READY"
  BY DemoAssumption DEF DemoInit
<1>7. Pending = 0
  <2>1. produced = 0
    BY <1>3, Zenon
  <2> QED
    BY <1>4, <2>1 DEF Pending
<1> QED
  BY <1>2, <1>3, <1>4, <1>5, <1>6, <1>7 DEF DemoInv, NoItemLost

\* A step that gives up the CPU and leaves the demo's data alone.
LEMMA DemoSwitch ==
  ASSUME DemoInv, ~parked, NEW as \in {"READY", "FINISHED"},
         as = "FINISHED" => current # CONS \/ Len(consumed) = ITEMS,
         SwitchAway(as)
  PROVE  /\ TableInv'
         /\ Len(consumed) < ITEMS => state'[CONS] \in {"READY", "RUNNING"}
         /\ Len(consumed) < ITEMS /\ current # CONS
              /\ (current = PROD \/ Hops(PROD, current) <= Hops(PROD, CONS))
              => OnTheWay'
<1> USE DEF DemoInv
<1>1. /\ TableInv' /\ ~parked'
      /\ current' # current /\ state[current'] = "READY"
      /\ \A j \in ReadySlots(state) : Hops(current, current') <= Hops(current, j)
      /\ state'[current] = as
      /\ \A s \in Slots : s \notin {current, current'} => state'[s] = state[s]
  BY SwitchStep, Zenon
<1>2. /\ current \in Slots /\ current' \in Slots /\ CONS \in Slots
      /\ state'[current'] = "RUNNING"
  BY <1>1, DemoAssumption, Zenon DEF TableInv, TableTypeOK
<1>3. Len(consumed) < ITEMS => state'[CONS] \in {"READY", "RUNNING"}
  <2>1. Len(consumed) \in Nat
    BY DEF DemoTypeOK
  <2>2. CASE CONS = current
    <3>1. Len(consumed) < ITEMS => Len(consumed) # ITEMS
      BY <2>1, DemoAssumption
    <3>2. Len(consumed) < ITEMS => as = "READY"
      BY <2>2, <3>1, Zenon
    <3> QED
      BY <1>1, <2>2, <3>2, Zenon
  <2>3. CASE CONS # current
    BY <1>1, <1>2, <2>3, Zenon
  <2> QED
    BY <2>2, <2>3, Zenon
<1>4. ASSUME Len(consumed) < ITEMS, current # CONS,
             current = PROD \/ Hops(PROD, current) <= Hops(PROD, CONS)
      PROVE  OnTheWay'
  <2>1. CONS \in ReadySlots(state)
    BY <1>2, <1>4, Zenon DEF TableInv, ReadySlots
  <2>2. Hops(current, current') <= Hops(current, CONS)
    BY <1>1, <2>1, Zenon
  <2> QED
    BY <1>1, <1>2, <1>4, <2>2, StillOnTheWay, Zenon DEF OnTheWay
<1> QED
  BY <1>1, <1>3, <1>4, Zenon

\* Steps that leave the demo's data alone keep the rest of the invariant.
LEMMA DemoDataKept ==
  ASSUME DemoInv, UNCHANGED <<mutex, sem, shared_item, produced, taken, consumed>>,
         TableInv', Len(consumed) < ITEMS => state'[CONS] \in {"READY", "RUNNING"},
         taken => current' = CONS, Pending = 1 => OnTheWay'
  PROVE  DemoInv'
BY DEF DemoInv, DemoTypeOK, TableInv, Pending, NoItemLost

\* Every step of the producer and of the consumer keeps the invariant.
LEMMA DemoInductive == DemoInv /\ [DemoNext]_demoVars => DemoInv'
<1> SUFFICES ASSUME DemoInv, [DemoNext]_demoVars PROVE DemoInv'
  OBVIOUS
<1>0. /\ TableInv /\ NoItemLost /\ shared_item = produced
      /\ produced \in 0 .. ITEMS /\ sem \in 0 .. ITEMS
      /\ consumed \in Seq(0 .. ITEMS) /\ Len(consumed) \in Nat /\ Len(consumed) <= ITEMS
      /\ mutex \in Slots \cup {-1} /\ taken \in BOOLEAN
      /\ current \in Slots
  BY DEF DemoInv, DemoTypeOK, TableInv, TableTypeOK
<1>1. ITEMS \in Nat /\ PROD \in Slots /\ CONS \in Slots /\ PROD # CONS
  BY DemoAssumption, Zenon
<1>2. /\ Pending \in {0, 1} /\ Pending = produced - Len(consumed)
      /\ taken => Pending = sem + 1
      /\ ~taken => Pending = sem
      /\ taken => current = CONS
      /\ Pending = 1 => current # PROD /\ Hops(PROD, current) <= Hops(PROD, CONS)
      /\ Len(consumed) < ITEMS => state[CONS] \in {"READY", "RUNNING"}
  BY Zenon DEF DemoInv, Pending, OnTheWay
<1>3. Pending = 1 => Len(consumed) < ITEMS
  BY <1>0, <1>1, <1>2
<1>4. CASE task_producer
  <2>1. /\ current = PROD /\ ~parked /\ produced < ITEMS
        /\ produced' = produced + 1 /\ shared_item' = produced'
        /\ sem' = sem + 1 /\ sched_yield /\ UNCHANGED <<mutex, taken, consumed>>
    BY <1>4, Zenon DEF task_producer, sem_post
  <2>2. ~taken /\ Pending = 0 /\ sem = 0 /\ produced = Len(consumed)
    BY <1>0, <1>1, <1>2, <2>1
  <2>3. CONS \in ReadySlots(state)
    BY <1>0, <1>1, <1>2, <2>1, <2>2, Zenon DEF TableInv, ReadySlots
  <2>4. SwitchAway("READY")
    BY <1>0, <2>1, <2>3, TableYieldStep, Zenon
  <2>5. /\ TableInv' /\ OnTheWay'
        /\ state'[CONS] \in {"READY", "RUNNING"}
    BY <1>1, <2>1, <2>2, <2>4, DemoSwitch, Zenon
  <2>6. Pending' = 1 /\ sem' = 1 /\ produced' \in 0 .. ITEMS /\ 1 \in 0 .. ITEMS
    BY <1>0, <1>1, <2>1, <2>2 DEF Pending
  <2>7. DemoTypeOK'
    BY <1>0, <2>1, <2>5, <2>6, Zenon DEF DemoTypeOK, TableInv
  <2> QED
    BY <1>0, <2>1, <2>2, <2>5, <2>6, <2>7, Zenon DEF DemoInv, NoItemLost
<1>5. CASE ConsumerWait
  <2>1. current = CONS /\ ~parked /\ ~taken /\ Len(consumed) < ITEMS
    BY <1>5 DEF ConsumerWait
  <2>2. CASE sem_trywait(TRUE) /\ taken' = TRUE
             /\ UNCHANGED <<tableVars, mutex, shared_item, produced, consumed>>
    <3>1. sem > 0 /\ sem' = sem - 1
      BY <2>2, Zenon DEF sem_trywait
    <3>2. sem' \in 0 .. ITEMS /\ Pending = sem' + 1 /\ Pending' = Pending
      BY <1>0, <1>1, <1>2, <2>1, <2>2, <3>1 DEF Pending
    <3>3. /\ UNCHANGED <<state, current, kill_pending, parked>> /\ taken' = TRUE
          /\ UNCHANGED <<mutex, shared_item, produced, consumed>>
      BY <2>2, Zenon DEF tableVars
    <3>4. TableInv' /\ OnTheWay' = OnTheWay /\ NoItemLost'
      BY <1>0, <3>3, Zenon DEF TableInv, TableTypeOK, OnTheWay, NoItemLost
    <3>5. DemoTypeOK'
      BY <1>0, <3>2, <3>3, <3>4, Zenon DEF DemoTypeOK, TableInv
    <3> QED
      BY <1>0, <1>2, <2>1, <3>2, <3>3, <3>4, <3>5, Zenon DEF DemoInv, OnTheWay
  <2>3. CASE sem_trywait(FALSE) /\ sched_yield
             /\ UNCHANGED <<mutex, shared_item, produced, taken, consumed>>
    <3>1. sem = 0 /\ sem' = sem
      BY <1>0, <2>3 DEF sem_trywait
    <3>2. Pending = 0
      BY <1>2, <2>1, <3>1, Zenon
    <3>3. CASE SwitchAway("READY")
      <4>1. TableInv' /\ state'[CONS] \in {"READY", "RUNNING"}
        BY <2>1, <3>3, DemoSwitch, Zenon
      <4> QED
        BY <2>1, <2>3, <3>1, <3>2, <4>1, DemoDataKept
    <3>4. CASE UNCHANGED tableVars
      <4>1. TableInv' /\ state'[CONS] \in {"READY", "RUNNING"}
        BY <1>0, <1>2, <2>1, <3>4, Zenon DEF tableVars, TableInv, TableTypeOK
      <4> QED
        BY <2>1, <2>3, <3>1, <3>2, <4>1, DemoDataKept
    <3> QED
      BY <1>0, <2>1, <2>3, <3>3, <3>4, TableYieldStep, Zenon
  <2> QED
    BY <1>5, <2>2, <2>3, Zenon DEF ConsumerWait
<1>6. CASE ConsumerTake
  <2>1. /\ current = CONS /\ ~parked /\ taken
        /\ consumed' = Append(consumed, shared_item) /\ taken' = FALSE
        /\ sched_yield /\ UNCHANGED <<mutex, sem, shared_item, produced>>
    BY <1>6, Zenon DEF ConsumerTake
  <2>2. sem = 0 /\ Pending = 1 /\ produced = Len(consumed) + 1
    BY <1>0, <1>2, <2>1
  <2>3. /\ consumed' \in Seq(0 .. ITEMS) /\ Len(consumed') = Len(consumed) + 1
        /\ \A i \in 1 .. Len(consumed) : consumed'[i] = consumed[i]
        /\ consumed'[Len(consumed) + 1] = produced
    BY <1>0, <2>1
  <2>4. NoItemLost'
    BY <1>0, <2>2, <2>3 DEF NoItemLost
  <2>5. Pending' = 0 /\ Len(consumed') <= ITEMS
    BY <1>0, <1>1, <2>1, <2>2, <2>3 DEF Pending
  <2>6. TableInv' /\ state'[CONS] \in {"READY", "RUNNING"}
    <3>1. CASE SwitchAway("READY")
      BY <1>3, <2>1, <2>2, <3>1, DemoSwitch, Zenon
    <3>2. CASE UNCHANGED tableVars
      BY <1>0, <1>2, <1>3, <2>2, <3>2, Zenon DEF tableVars, TableInv, TableTypeOK
    <3> QED
      BY <1>0, <2>1, <3>1, <3>2, TableYieldStep, Zenon
  <2>7. DemoTypeOK'
    BY <1>0, <2>1, <2>3, <2>5, <2>6, Zenon DEF DemoTypeOK, TableInv
  <2> QED
    BY <1>0, <2>1, <2>2, <2>4, <2>5, <2>6, <2>7 DEF DemoInv
<1>7. CASE Done
  <2>1. /\ ~parked /\ Exit
        /\ UNCHANGED <<mutex, sem, shared_item, produced, taken, consumed>>
    BY <1>7 DEF Done
  <2>2. current = CONS => ~taken /\ Len(consumed) = ITEMS
    BY <1>1, <1>7, Zenon DEF Done
  <2>3. ~taken /\ (Pending = 1 => current # CONS)
    BY <1>0, <1>1, <1>2, <1>3, <2>2
  <2>4. CASE SwitchAway("FINISHED")
    <3>1. /\ TableInv'
          /\ Len(consumed) < ITEMS => state'[CONS] \in {"READY", "RUNNING"}
          /\ Pending = 1 => OnTheWay'
      BY <1>2, <1>3, <2>1, <2>2, <2>3, <2>4, DemoSwitch, Zenon
    <3> QED
      BY <2>1, <2>3, <3>1, DemoDataKept, Zenon
  <2>5. CASE ~SwitchAway("FINISHED")
    <3>1. ReadySlots(state) = {} /\ TableInv' /\ \A s \in Slots : s # current => state'[s] = state[s]
      BY <1>0, <2>1, <2>5, TableExitStep, Zenon
    <3>2. ~(Len(consumed) < ITEMS)
      <4>1. CASE current = CONS
        BY <1>1, <2>2, <4>1
      <4>2. CASE current # CONS
        BY <1>0, <1>1, <1>2, <3>1, <4>2, Zenon DEF TableInv, ReadySlots
      <4> QED
        BY <4>1, <4>2, Zenon
    <3> QED
      BY <1>3, <2>1, <2>3, <3>1, <3>2, DemoDataKept, Zenon
  <2> QED
    BY <2>4, <2>5, Zenon
<1>8. CASE OtherYield
  <2>1. /\ ~parked /\ current # PROD /\ current # CONS /\ sched_yield
        /\ UNCHANGED <<mutex, sem, shared_item, produced, taken, consumed>>
    BY <1>8, Zenon DEF OtherYield
  <2>2. CASE SwitchAway("READY")
    <3>1. /\ TableInv'
          /\ Len(consumed) < ITEMS => state'[CONS] \in {"READY", "RUNNING"}
          /\ Pending = 1 => OnTheWay'
      BY <1>2, <1>3, <2>1, <2>2, DemoSwitch, Zenon
    <3> QED
      BY <1>2, <2>1, <3>1, DemoDataKept, Zenon
  <2>3. CASE UNCHANGED tableVars
    <3>1. /\ TableInv' /\ (Len(consumed) < ITEMS => state'[CONS] \in {"READY", "RUNNING"})
          /\ (Pending = 1 => OnTheWay')
      BY <1>0, <1>2, <2>3, Zenon DEF tableVars, TableInv, TableTypeOK, OnTheWay
    <3> QED
      BY <1>2, <2>1, <3>1, DemoDataKept, Zenon
  <2> QED
    BY <1>0, <2>1, <2>2, <2>3, TableYieldStep, Zenon
<1>9. CASE UNCHANGED demoVars
  <2>1. /\ UNCHANGED <<mutex, sem, shared_item, produced, taken, consumed>>
        /\ UNCHANGED <<state, current, kill_pending, parked>>
    BY <1>9, Zenon DEF demoVars, tableVars
  <2>2. TableInv' /\ (Pending = 1 => OnTheWay')
    BY <1>0, <1>2, <2>1 DEF TableInv, TableTypeOK, OnTheWay
  <2> QED
    BY <1>2, <2>1, <2>2, DemoDataKept, Zenon
<1> QED
  BY <1>4, <1>5, <1>6, <1>7, <1>8, <1>9, Zenon DEF DemoNext

(***************************************************************************)
(* Whatever the other tasks do and wherever the two sit in the table, the  *)
(* consumer of kernel_main prints 1, 2, 3, ...: task_producer never        *)
(* overwrites an item that was not read.                                   *)
(***************************************************************************)
THEOREM DemoLosesNothing == DemoSpec => []NoItemLost
<1>1. DemoInit /\ [][DemoNext]_demoVars => []DemoInv
  BY DemoInitInv, DemoInductive, PTL
<1>2. DemoInv => NoItemLost
  BY DEF DemoInv
<1> QED
  BY <1>1, <1>2, PTL DEF DemoSpec
=============================================================================
