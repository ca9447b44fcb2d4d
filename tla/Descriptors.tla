----------------------------- MODULE Descriptors -----------------------------
(***************************************************************************)
(* Devices (device.c) and the descriptors that tasks hold on them          *)
(* (proc.c), as the system calls use them (syscall.c).  A call finds its   *)
(* descriptors through find_by_task, which looks for a PCB that names the  *)
(* task slot of the caller: that of a process which ended there and is not *)
(* yet reaped does too.  A call runs with interrupts masked and a spawn    *)
(* gives up the CPU nowhere; each is one step.                             *)
(***************************************************************************)
EXTENDS Integers, Sequences, FiniteSets

CONSTANTS
  DEVICE_NAMES,
  DEV_MAX,                  \* 16
  OPEN_COUNTS,              \* open_count wraps here: 256
  PROC_FD_MAX,              \* 8
  PCBS,                     \* MAX_PROCS: 8
  TASK_SLOTS,               \* MAX_TASKS: 16
  MAX_OPENS                 \* bound on openings of a device

ASSUME DescriptorsAssumption ==
  /\ DEV_MAX \in Nat /\ OPEN_COUNTS \in Nat \ {0} /\ PROC_FD_MAX \in Nat
  /\ PCBS \in Nat /\ TASK_SLOTS \in Nat \ {0} /\ MAX_OPENS \in Nat

Pcbs == 1 .. PCBS
TaskSlots == 0 .. TASK_SLOTS - 1
Fds == 0 .. PROC_FD_MAX - 1
NoDev == 0

\* What runs in a task slot: nothing, a kernel thread, or the process of a PCB
Free == -1
Thread == 0
\* The index of kernel_fd_table among the tables
KernelTable == 0

VARIABLES
  dev_table,                \* devices in order of registration
  procs,                    \* the PCBs
  runs,                     \* runs[t]: what is in task slot t
  fd_table,                 \* fd_table[p][fd]: a device's place, or NoDev
  mine,                     \* ghost: mine[t]: <<fd, dev>> opened by what runs in
                            \* slot t and not closed by it
  hidden,                   \* ghost: slots whose process came behind another PCB
  openings                  \* ghost: device_open calls that found the device

devVars == <<dev_table, procs, runs, fd_table, mine, hidden, openings>>

NoFds == [fd \in Fds |-> NoDev]

\* main is in slot 0.
DevInit ==
  /\ dev_table = <<>>
  /\ procs = [p \in Pcbs |-> [state |-> "NONE", task_idx |-> -1]]
  /\ runs = [t \in TaskSlots |-> IF t = 0 THEN Thread ELSE Free]
  /\ fd_table = [p \in {KernelTable} \cup Pcbs |-> NoFds]
  /\ mine = [t \in TaskSlots |-> {}]
  /\ hidden = {}
  /\ openings = <<>>

Least(S) == CHOOSE n \in S : \A m \in S : n <= m

-----------------------------------------------------------------------------
(* Tasks and processes, as far as the lookup sees them                     *)

Naming(t) == {p \in Pcbs : procs[p].state # "NONE" /\ procs[p].task_idx = t}

\* The table of the first PCB in use that names the slot, or the kernel's
find_by_task(t) == IF Naming(t) = {} THEN KernelTable ELSE Least(Naming(t))

FreePcbs == {p \in Pcbs : procs[p].state = "NONE"}
FreeTasks == {t \in TaskSlots : runs[t] = Free}

\* sched_spawn
SpawnThread ==
  /\ FreeTasks # {}
  /\ LET t == Least(FreeTasks)
     IN  runs' = [runs EXCEPT ![t] = Thread]
  /\ UNCHANGED <<dev_table, procs, fd_table, mine, hidden, openings>>

\* The descriptors of the PCB's last process stay.
Bug_Started(p) == fd_table

Started(p) == [fd_table EXCEPT ![p] = NoFds]

proc_spawn_image ==
  /\ FreePcbs # {} /\ FreeTasks # {}
  /\ LET p == Least(FreePcbs)
         t == Least(FreeTasks)
     IN  /\ runs' = [runs EXCEPT ![t] = p]
         /\ procs' = [procs EXCEPT ![p] = [state |-> "ALIVE", task_idx |-> t]]
         /\ fd_table' = Started(p)
         /\ hidden' = IF \E q \in Naming(t) : q < p THEN hidden \cup {t} ELSE hidden
  /\ UNCHANGED <<dev_table, mine, openings>>

TaskEnds(t) ==
  /\ t # 0 /\ runs[t] # Free
  /\ runs' = [runs EXCEPT ![t] = Free]
  /\ mine' = [mine EXCEPT ![t] = {}]
  /\ hidden' = hidden \ {t}

\* A kernel thread ends, or a verdict of the watchdog ends a task: its PCB
\* stays as it is.
sched_exit(t) ==
  /\ TaskEnds(t)
  /\ UNCHANGED <<dev_table, procs, fd_table, openings>>

\* SYS_EXIT: of the PCB that the lookup finds, which need not be the caller's
proc_exit(t) ==
  /\ TaskEnds(t)
  /\ find_by_task(t) # KernelTable
  /\ procs' = [procs EXCEPT ![find_by_task(t)].state = "ZOMBIE"]
  /\ UNCHANGED <<dev_table, fd_table, openings>>

\* proc_wait of a zombie: the descriptors stay in the table.
Reap(p) ==
  /\ procs[p].state = "ZOMBIE"
  /\ procs' = [procs EXCEPT ![p] = [state |-> "NONE", task_idx |-> -1]]
  /\ UNCHANGED <<dev_table, runs, fd_table, mine, hidden, openings>>

-----------------------------------------------------------------------------
(* Devices and descriptors                                                 *)

device_register(name) ==
  /\ Len(dev_table) < DEV_MAX
  /\ dev_table' = Append(dev_table, [name |-> name, open_count |-> 0])
  /\ openings' = Append(openings, 0)
  /\ UNCHANGED <<procs, runs, fd_table, mine, hidden>>

\* The first free descriptor of the caller's table; a full table: -1.
proc_fd_alloc(t, d) ==
  LET p == find_by_task(t)
      unused == {fd \in Fds : fd_table[p][fd] = NoDev}
  IN  IF unused = {} THEN UNCHANGED <<fd_table, mine>>
      ELSE /\ fd_table' = [fd_table EXCEPT ![p][Least(unused)] = d]
           /\ mine' = [mine EXCEPT ![t] = @ \cup {<<Least(unused), d>>}]

\* SYS_OPEN: the first device of that name; device_open counts the opening
\* before proc_fd_alloc looks for a descriptor.  All bytes of the name count:
\* one that is not padded like the registered one finds no device.
sys_open(t, name) ==
  \E d \in 1 .. Len(dev_table) :
    /\ dev_table[d].name = name /\ openings[d] < MAX_OPENS
    /\ \A e \in 1 .. d - 1 : dev_table[e].name # name
    /\ dev_table' = [dev_table EXCEPT ![d].open_count = (@ + 1) % OPEN_COUNTS]
    /\ openings' = [openings EXCEPT ![d] = @ + 1]
    /\ proc_fd_alloc(t, d)
    /\ UNCHANGED <<procs, runs, hidden>>

\* SYS_CLOSE: proc_fd_close clears the entry; the device keeps its count.
sys_close(t, fd) ==
  /\ fd_table' = [fd_table EXCEPT ![find_by_task(t)][fd] = NoDev]
  /\ mine' = [mine EXCEPT ![t] = {h \in @ : h[1] # fd}]
  /\ UNCHANGED <<dev_table, procs, runs, hidden, openings>>

DevNext ==
  \/ \E name \in DEVICE_NAMES : device_register(name)
  \/ \E t \in TaskSlots :
       /\ runs[t] # Free
       /\ \/ \E name \in DEVICE_NAMES : sys_open(t, name)
          \/ \E fd \in Fds : sys_close(t, fd)
          \/ sched_exit(t)
          \/ proc_exit(t)
  \/ SpawnThread
  \/ proc_spawn_image
  \/ \E p \in Pcbs : Reap(p)

DevSpec == DevInit /\ [][DevNext]_devVars

-----------------------------------------------------------------------------
(* Properties                                                              *)

\* A process whose task slot no other PCB named when it started has its own
\* descriptors for all its life: the lookup finds its PCB, and the table
\* leads exactly to the devices it opened and did not close, never to one
\* that an earlier process of the PCB or of the slot, another task or an
\* earlier opening left there, whatever ends, is reaped or starts meanwhile
\* (find_by_task, proc_fd_alloc, proc_spawn_image).
DevOwnDescriptors ==
  \A t \in TaskSlots : runs[t] \in Pcbs /\ t \notin hidden =>
    /\ find_by_task(t) = runs[t]
    /\ mine[t] = {h \in Fds \X (1 .. Len(dev_table)) : fd_table[runs[t]][h[1]] = h[2]}

\* As long as it has not wrapped, a device's count covers the descriptors
\* that lead to it in any table: it counts too many (openings that found no
\* descriptor, closings and ended processes stay in it), never too few
\* (device_open).
DevCountCovers ==
  \A d \in 1 .. Len(dev_table) :
    openings[d] < OPEN_COUNTS =>
      dev_table[d].open_count >=
        Cardinality({h \in (DOMAIN fd_table) \X Fds : fd_table[h[1]][h[2]] = d})

\* Descriptors lead where their process opened them, and no device that one
\* leads to counts as closed (syscall.c, device.c).
DevDescriptors == DevOwnDescriptors /\ DevCountCovers

=============================================================================
