-------------------------------- MODULE Proc --------------------------------
(***************************************************************************)
(* kernel/proc.c on top of the task table: process control blocks, exit,   *)
(* the blocking wait, and the address spaces of boot/aarch64/vmm.c that a  *)
(* process owns.  The kernel is entered from one task at a time and        *)
(* switches only inside sched_yield and sched_exit, so each call runs in   *)
(* one step up to its switch.  Address spaces come from a bump heap that   *)
(* never reuses a block: they are named by the pid they are created for.   *)
(* A spawn that runs out of slots, chunks or tasks undoes itself and       *)
(* changes nothing.                                                        *)
(***************************************************************************)
EXTENDS TaskTable, FiniteSets

CONSTANTS
  MAX_PROCS,         \* proc.h: 8
  MAX_PID,           \* bound on next_pid
  CODES,             \* exit codes
  CHUNKS             \* 4MB chunks the page allocator can supply

ASSUME ProcAssumption ==
  /\ MAX_PROCS \in Nat \ {0}
  /\ MAX_PID \in Nat
  /\ CODES \subseteq Nat
  /\ CHUNKS \in Nat

VARIABLES
  procs,             \* the PCBs
  next_pid,
  task_as,           \* tasks[i].as, 0 for the kernel's
  task_pid,          \* tasks[i].pid
  kstack,            \* the kernel stack handed to the task, -1 for its own
  as_live,           \* address spaces created and not destroyed
  as_active,         \* the space loaded in TTBR0
  chunks_free,
  waiting,           \* the pid a task waits for in proc_wait, 0 for none
  owner,             \* ghost: the process a slot really runs, 0 for a thread
  status,            \* ghost: what each process passed to SYS_EXIT
  booting            \* main has not given up the CPU yet

procVars == <<procs, next_pid, chunks_free, as_live>>
slotVars == <<task_as, task_pid, kstack, owner>>
vars == <<tableVars, procVars, slotVars, as_active, waiting, status, booting>>

Procs == 0 .. MAX_PROCS - 1
Pids == 1 .. MAX_PID
None == -1

proc_t == [state : {"NONE", "ALIVE", "ZOMBIE"}, pid : 0 .. MAX_PID,
           task_idx : Slots \cup {-1}, as : 0 .. MAX_PID, exit_code : CODES \cup {0}]

NoProc == [state |-> "NONE", pid |-> 0, task_idx |-> -1, as |-> 0,
           exit_code |-> 0]

Init ==
  /\ TableInit
  /\ procs = [p \in Procs |-> NoProc]
  /\ next_pid = 1
  /\ task_as = [s \in Slots |-> 0]
  /\ task_pid = [s \in Slots |-> -1]
  /\ kstack = [s \in Slots |-> -1]
  /\ as_live = {}
  /\ as_active = 0
  /\ chunks_free = CHUNKS
  /\ waiting = [s \in Slots |-> 0]
  /\ owner = [s \in Slots |-> 0]
  /\ status = [i \in Pids |-> None]
  /\ booting = TRUE

Lowest(S) == CHOOSE p \in S : \A q \in S : p <= q

\* -1 plays the NULL of the two lookups.
FirstProc(S) == IF S = {} THEN -1 ELSE Lowest(S)

find_pid(pid) ==
  FirstProc({p \in Procs : procs[p].state # "NONE" /\ procs[p].pid = pid})

\* A lookup that takes the first PCB in use.
Bug_find_by_task(s) == FirstProc({p \in Procs : procs[p].state # "NONE"})

find_by_task(s) ==
  FirstProc({p \in Procs : procs[p].state # "NONE" /\ procs[p].task_idx = s})

proc_getpid ==
  LET p == find_by_task(current) IN IF p = -1 THEN 0 ELSE procs[p].pid

-----------------------------------------------------------------------------
(* The address-space handoff that goes with every switch of the table.     *)

\* The incoming space is loaded only if the outgoing one was the kernel's.
Bug_switch_address_space ==
  as_active' = IF task_as[current] = 0 THEN task_as[current'] ELSE as_active

switch_address_space ==
  as_active' = IF task_as[current] # task_as[current']
               THEN task_as[current'] ELSE as_active

Acting == ~parked /\ waiting[current] = 0

\* sched_yield: flagged tasks leave, a sole runner keeps going.
SchedYield ==
  /\ \/ Yield
     \/ Kill
     \/ ~kill_pending[current] /\ next_ready(state, current) = NoSlot
          /\ UNCHANGED tableVars
  /\ switch_address_space
  /\ booting' = FALSE

SchedExit ==
  /\ Exit
  /\ switch_address_space
  /\ booting' = FALSE

-----------------------------------------------------------------------------
\* The new task takes its slot over from whoever finished in it.
Occupy(as, pid, ks, own) ==
  \E s \in Slots :
    /\ SpawnAt(s)
    /\ task_as' = [task_as EXCEPT ![s] = as]
    /\ task_pid' = [task_pid EXCEPT ![s] = pid]
    /\ kstack' = [kstack EXCEPT ![s] = ks]
    /\ owner' = [owner EXCEPT ![s] = own]
    /\ waiting' = [waiting EXCEPT ![s] = 0]

\* sched_spawn and sched_spawn_user: a kernel thread, or the EL0 demo task
\* that shares the kernel's space, on a stack of its own.  Kernel code spawns.
SpawnThread ==
  /\ Acting
  /\ owner[current] = 0
  /\ Occupy(0, -1, -1, 0)
  /\ UNCHANGED <<procVars, as_active, status, booting>>

FreeProcs == {p \in Procs : procs[p].state = "NONE"}

proc_spawn_image ==
  /\ Acting
  /\ owner[current] = 0
  /\ FreeProcs # {}
  /\ chunks_free > 0
  /\ next_pid <= MAX_PID
  /\ Occupy(next_pid, next_pid, Lowest(FreeProcs), next_pid)
  /\ procs' = [procs EXCEPT ![Lowest(FreeProcs)] =
                 [state |-> "ALIVE", pid |-> next_pid,
                  task_idx |-> slot_alloc(state), as |-> next_pid,
                  exit_code |-> 0]]
  /\ next_pid' = next_pid + 1
  /\ as_live' = as_live \cup {next_pid}
  /\ chunks_free' = chunks_free - 1
  /\ UNCHANGED <<as_active, status, booting>>

\* An exit that loses the code.
Bug_proc_exit(code) ==
  LET p == find_by_task(current)
  IN  /\ Acting
      /\ procs' = IF p = -1 THEN procs ELSE [procs EXCEPT ![p].state = "ZOMBIE"]
      /\ status' = IF owner[current] = 0 THEN status
                   ELSE [status EXCEPT ![owner[current]] = code]
      /\ SchedExit
      /\ UNCHANGED <<next_pid, chunks_free, as_live, slotVars, waiting>>

\* The caller's PCB, as find_by_task sees it, becomes a zombie.
proc_exit(code) ==
  LET p == find_by_task(current)
  IN  /\ Acting
      /\ procs' = IF p = -1 THEN procs
                  ELSE [procs EXCEPT ![p].exit_code = code, ![p].state = "ZOMBIE"]
      /\ status' = IF owner[current] = 0 THEN status
                   ELSE [status EXCEPT ![owner[current]] = code]
      /\ SchedExit
      /\ UNCHANGED <<next_pid, chunks_free, as_live, slotVars, waiting>>

\* A kernel thread returns from its body.
task_trampoline ==
  /\ Acting
  /\ owner[current] = 0
  /\ SchedExit
  /\ UNCHANGED <<procVars, slotVars, waiting, status>>

\* A task yields of its own accord.
TaskYield ==
  /\ Acting
  /\ SchedYield
  /\ UNCHANGED <<procVars, slotVars, waiting, status>>

\* as_destroy: the tables go back; user_region is never set, so the chunk stays.
as_destroy(as) ==
  /\ as_live' = as_live \ {as}
  /\ as_active' = IF as_active = as THEN 0 ELSE as_active
  /\ UNCHANGED chunks_free

Reap(p) ==
  /\ as_destroy(procs[p].as)
  /\ procs' = [procs EXCEPT ![p] =
                 [state |-> "NONE", pid |-> @.pid, task_idx |-> -1, as |-> 0,
                  exit_code |-> @.exit_code]]
  /\ task_pid' = [task_pid EXCEPT ![procs[p].task_idx] = -1]
  /\ waiting' = [waiting EXCEPT ![current] = 0]
  /\ UNCHANGED <<tableVars, next_pid, task_as, kstack, owner, status, booting>>

\* A wait that reaps without looking at the state.
Bug_proc_wait(pid) ==
  LET p == find_pid(pid)
  IN  /\ ~parked
      /\ waiting[current] \in {0, pid}
      /\ p # -1
      /\ Reap(p)

\* A wait that yields for ever, whatever it sees.
Bug_proc_wait_spin(pid) ==
  /\ ~parked
  /\ waiting[current] \in {0, pid}
  /\ find_pid(pid) # -1
  /\ waiting' = [waiting EXCEPT ![current] = pid]
  /\ SchedYield
  /\ UNCHANGED <<procVars, slotVars, status>>

\* One turn of the loop: the call returns, reaps and returns, or yields.
proc_wait(pid) ==
  LET p == find_pid(pid)
  IN  /\ ~parked
      /\ waiting[current] \in {0, pid}
      /\ \/ /\ p = -1
            /\ waiting' = [waiting EXCEPT ![current] = 0]
            /\ UNCHANGED <<tableVars, procVars, slotVars, as_active, status,
                           booting>>
         \/ /\ p # -1
            /\ procs[p].state = "ZOMBIE"
            /\ Reap(p)
         \/ /\ p # -1
            /\ procs[p].state = "ALIVE"
            /\ waiting' = [waiting EXCEPT ![current] = pid]
            /\ SchedYield
            /\ UNCHANGED <<procVars, slotVars, status>>

Watchdog ==
  /\ \E t \in Slots : Flag(t)
  /\ UNCHANGED <<procVars, slotVars, as_active, waiting, status, booting>>

Progress ==
  \/ TaskYield
  \/ task_trampoline
  \/ \E code \in CODES : proc_exit(code)
  \/ \E pid \in Pids : proc_wait(pid)

Next ==
  \/ SpawnThread
  \/ proc_spawn_image
  \/ Progress
  \/ Watchdog

Spec == Init /\ [][Next]_vars

(***************************************************************************)
(* The shipped boot: kernel_main spawns everything before it first gives   *)
(* up the CPU, and nothing is spawned afterwards.                          *)
(***************************************************************************)
BootNext ==
  \/ booting /\ SpawnThread
  \/ booting /\ proc_spawn_image
  \/ Progress
  \/ Watchdog

BootSpec == Init /\ [][BootNext]_vars

\* The cooperative contract: whoever runs yields, waits or exits in the end.
FairBootSpec == BootSpec /\ WF_vars(Progress)

(***************************************************************************)
(* Properties                                                              *)
(***************************************************************************)

TypeOK ==
  /\ TableTypeOK
  /\ procs \in [Procs -> proc_t]
  /\ next_pid \in 1 .. MAX_PID + 1
  /\ task_as \in [Slots -> 0 .. MAX_PID]
  /\ task_pid \in [Slots -> Pids \cup {-1}]
  /\ kstack \in [Slots -> Procs \cup {-1}]
  /\ as_live \subseteq Pids
  /\ as_active \in 0 .. MAX_PID
  /\ chunks_free \in 0 .. CHUNKS
  /\ waiting \in [Slots -> 0 .. MAX_PID]
  /\ owner \in [Slots -> 0 .. MAX_PID]
  /\ status \in [Pids -> CODES \cup {None}]
  /\ booting \in BOOLEAN

Live(s) == state[s] \in {"READY", "RUNNING"}

(***************************************************************************)
(* A reap never pulls the page tables from under a task that can still     *)
(* run, even when the wait races the exit, the watchdog kills a process,   *)
(* or a zombie's task slot has a new occupant; and the space in TTBR0 is   *)
(* always the running task's own.                                          *)
(***************************************************************************)
AsSafe ==
  /\ \A s \in Slots : Live(s) /\ task_as[s] # 0 => task_as[s] \in as_live
  /\ ~parked => as_active = task_as[current]

(***************************************************************************)
(* No two processes that can run share a kernel stack: the stack goes with *)
(* the PCB, which must not be recycled while its task is alive.            *)
(***************************************************************************)
KstackPrivate ==
  \A s, t \in Slots :
    Live(s) /\ Live(t) /\ kstack[s] # -1 /\ kstack[s] = kstack[t] => s = t

(***************************************************************************)
(* "A unique pid": no two PCBs in use carry the same one.                  *)
(***************************************************************************)
PidUnique ==
  \A p, q \in Procs :
    /\ procs[p].state # "NONE"
    /\ procs[q].state # "NONE"
    /\ procs[p].pid = procs[q].pid
    => p = q

(***************************************************************************)
(* Why AsSafe and KstackPrivate hold: the PCB behind a task that can run   *)
(* is ALIVE and names the task's slot.  Only a task of that very slot can  *)
(* turn it into a zombie, and by then this task has left it.               *)
(***************************************************************************)
InUse(p) == procs[p].state # "NONE"

Backed(s) ==
  /\ kstack[s] \in Procs
  /\ procs[kstack[s]].state = "ALIVE"
  /\ procs[kstack[s]].as = task_as[s]
  /\ procs[kstack[s]].task_idx = s

ProcInv ==
  /\ ~parked => state[current] = "RUNNING"
  /\ ~parked => as_active = task_as[current]
  /\ \A p \in Procs : InUse(p) =>
       /\ procs[p].pid \in 1 .. next_pid - 1
       /\ procs[p].as = procs[p].pid
       /\ procs[p].as \in as_live
       /\ procs[p].task_idx \in Slots
  /\ PidUnique
  /\ \A s \in Slots : Live(s) =>
       IF task_as[s] = 0 THEN kstack[s] = -1 ELSE Backed(s)

(***************************************************************************)
(* "An exit status kept until the parent reaps it (zombie)": a zombie's    *)
(* exit code is the one its own process passed to SYS_EXIT.                *)
(***************************************************************************)
StatusKept ==
  \A p \in Procs :
    procs[p].state = "ZOMBIE" => status[procs[p].pid] = procs[p].exit_code

(***************************************************************************)
(* "Pid of the calling task; kernel threads report 0."                     *)
(***************************************************************************)
GetpidRight == ~parked => proc_getpid = owner[current]

(***************************************************************************)
(* "Release every table + mapped user page back to the PMM": the chunks in *)
(* use are those of the processes in the table.                            *)
(***************************************************************************)
ChunksAccounted ==
  chunks_free = CHUNKS
    - Cardinality({p \in Procs : procs[p].state # "NONE"})

(***************************************************************************)
(* proc_wait returns: a task waiting for a process that has called         *)
(* SYS_EXIT stops waiting (it reaps it, finds it reaped, or is killed).    *)
(***************************************************************************)
WaitReturns ==
  \A s \in Slots, pid \in Pids :
    (waiting[s] = pid /\ status[pid] # None /\ Live(s))
      ~> (waiting[s] # pid \/ ~Live(s))
=============================================================================
