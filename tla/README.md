# AEOS: TLA+ models and proofs

AEOS is a small educational operating system: a C kernel for AArch64 (with an
x86_64 port), Rust crates that restate some of its parts, and Python tooling.
This directory holds TLA+ models of it, the TLC configurations that check them,
and TLAPS proofs of the properties that matter most.

## 1. The system

| Part | Source | State | What it does to others |
|---|---|---|---|
| Scheduler | `kernel/sched.c`, `boot/aarch64/switch.S` | `tasks[16]`, `current`, `watchdog_limit` | every blocking call ends in `sched_yield` or `sched_exit`; a timer tick calls `sched_on_tick` |
| Processes | `kernel/proc.c`, `kernel/syscall.c` | `procs[8]`, `next_pid`, descriptors | each process is a task slot plus an address space |
| Memory | `boot/aarch64/pmm.c`, `heap.c`, `vmm.c` | page bitmap, bump pointer, tables | used by `proc.c` |
| Mutex, semaphore | `kernel/sync.c` | owner slot, count | retry loops over `sched_yield` |
| IPC | `kernel/ipc.c` | 8 rings of 16 messages | reached through system calls |
| Disk | `kernel/afs.c`, `boot/aarch64/virtio.c` | directory, extents, descriptor ring | run inside the calling task |
| Network | `kernel/net.c`, `boot/aarch64/vnet.c` | gateway, receive queue | run inside the calling task |
| Secondary cores | `boot/aarch64/smp.c`, `smp_entry.S`, `psci.c` | job ring, online mask | run jobs in parallel with the boot core |
| Timer, AI engine, CMT | `boot/aarch64/timer.c`, `irq.c`, `kernel/ai_*.c`, `cmt_*.c` | rate, registry, histories, issues | run inside the tick |
| Log, devices, RAM files, shell | `kernel/log.c`, `device.c`, `ramfs.c`, `shell.c` | bounded tables, a line | called by everyone |
| Boot loader | `boot/aarch64/loader.c` | boot information | read by the kernel |
| x86_64 port | `boot/x86_64/` | preemption flag | redirects an interrupted task |
| Rust crates | `scheduler/`, `ipc/`, `memory/`, `security/` | queues, channels, frames, capabilities | sequential libraries behind locks |
| Host library | `sdk/bindings/src/aeos_kernel.c` | clock, rate, history | what the Python client talks to |

What makes the core hard: the kernel is cooperative, so a call runs undisturbed
up to its yield. The timer interrupt is the exception. It may land anywhere in
`sched_yield`, which masks nothing, and it charges the task that `current` names
at that instant. Task slots are reusable as soon as their task has finished,
while process blocks, mutexes and the watchdog's exemption of main all refer to
tasks by slot index. The disk may lose power, the devices answer late, and the
secondary cores really run in parallel.

`PROJECT.json` lists every component, every hazard with the line where it
bites, and the source lines each definition stands for.

## 2. Modules

```
TaskSlots ── TaskTable ◄──refines── Sched ─── MCSched           SchedProofs
                 ├── Proc ─────────────────── MCProc            TaskProofs
                 └── Sync ─┬─ LockClients ─┐                    TaskProofs
                           └─ ProdCons ────┤                    TaskProofs
                              Smp  Net ────┼─ MCConcurrent      RingProofs
                              RustSched ───┘                    SchedProofs
MsgQueues ◄──refines── Ipc ─────────────┐                       RingProofs
    RustIpc  Vblk                       │                       RingProofs
    Memory  RustFrames  Ramfs           ├─ MCSerial             SystemProofs
    Shell  HostKernel                   │                       SystemProofs
    Log  RustCaps  Descriptors          │                       ResourceProofs
    Engine                              │                       EngineProofs
    Afs  Loader ────────────────────────┘                       DeviceProofs
X86Preempt
```

`MCSched` and `MCProc` instantiate the scheduler and the processes.
`MCConcurrent` and `MCSerial` put parts that share no state side by side: the
initial state chooses a part, and the behaviour stays in it. The lock clients
and the demo use the same task table, each in its own behaviours. The proofs
are grouped by subject in the seven modules on the right, over the facts of
`CommonLemmas`.

### Tasks and processes

**TaskSlots** has the two searches of the scheduler, `next_ready` and
`slot_alloc`, as operators. The loop `for i = 1..MAX_TASKS` over
`(from + i) % MAX_TASKS` becomes "the READY slot with the fewest `Hops`".

**TaskTable** is what the scheduler promises: the table with each switch taken
in one step. `Yield`, `Kill` (a flagged task yields), `Exit`, `Spawn`, and
`Flag` (the watchdog's verdict).

**Sched** is `sched.c` at the grain of interrupts. `cpu` is the task whose
instructions execute, `current` what the table says. `sched_yield` is cut into
`YieldCheck`, `YieldPick`, `YieldHand`, `YieldCurrent`, `cpu_switch_to`, and
`sched_exit` into `sched_exit`, `ExitPick`, `cpu_switch_to`, at exactly the
points between which a tick can tell the difference. `SvcEnter` and `SvcReturn`
are the interrupt mask of a system call. Statistics (`ticks_used`, `yields`,
`uptime`) are left out: no branch reads them.

**Proc** adds the process table and the address spaces. A call that does not
switch is one step. `proc_wait` is one step per turn of its loop. Ghost
variables record what the code does not: the process a slot really runs
(`owner`), what each process passed to `SYS_EXIT` (`status`), and whether main
still runs its first stretch (`booting`). An address space is named by the pid
it was made for: the heap it comes from never reuses a block.

**Sync** has the operations of `sync.c`. **LockClients** are tasks that share a
mutex, come and go, and may yield while holding it. They lock only what they do
not hold and do not exit while holding, which is how the kernel uses the mutex.
**ProdCons** is the producer/consumer pair of `kernel_main` with the other tasks
as bystanders. **X86Preempt** is the timer interrupt of the x86 port up to the
thunk that yields for the interrupted task.

**MsgQueues** is a set of bounded FIFO queues, **Ipc** the rings of `ipc.c`. A
payload is a model value. What is kept of it is whether any of its bytes was copied, so that a stale cell shows. **Descriptors** has the device table and
the descriptors of processes, as the system calls use them. A call finds its
table as the code does, by the first PCB in use that names the caller's task
slot, so processes, threads, exits, kills and reaps are in the module too. The
ghost `hidden` marks a process that started in a slot which a PCB before its own
still named: the lookup serves it from that PCB.

### Devices

**Afs** is `afs.c` over a disk of sectors. The superblock, the directory sector
and the data are the disk; the bump pointer and the free list are memory and are
lost by `Reboot`, which may come between any two requests. `afs_write` is one
step up to its first request, one per data chunk and one for the directory. A
file's content is the number of the write that stored it.

**Vblk** is the block driver with its ring and a device that completes requests
when it likes, after the driver has given up included. **Net** is ARP, the
answers to echo requests and ping, over a wire that loses, delays and repeats
frames; a step is a frame taken from the driver or a look at the clock. **Smp**
is the job ring of the secondary cores at the grain of memory accesses, with
`sev` and `wfe` as a set of event registers.

### Tables, rings and allocators

**Memory** has the page bitmap, the bump heap and the identity map, with the
boundary between page allocator and heap. **Engine** is the timer tick with all
that hangs on it: registry, rate, histories, replay ring, issues and fixes. The
scores are a free choice of their outcome. **Log**, **Ramfs** and **Shell** (the
line editor) are one module each. A RAM file name comes padded with zeros, full,
or with other bytes behind its terminator; the ghost `loose` has the names that
were created the last way. **Loader** walks a device tree that is chosen token by
token, well formed or not, with `reg` properties of 0 to 5 cells.

**RustSched**, **RustIpc**, **RustFrames** and **RustCaps** are the Rust crates.
Each call holds a lock and is one step. The client of `RustFrames` mixes single
frames and ranges as it likes; the ghosts `rfStale` and `rfTwice` follow the
frames that a range took from under the stack. **HostKernel** is the C library that
stands in for the kernel on a host: a clock that moves when it is read, the
policy that runs with every so many reads or on demand, and the history of the
decisions made on demand. The network's scores may favour any action.

Operators named `Bug_...` stand before the definition they distort. Each is a
plausible slip in that code, and the property it is paired with in
`PROJECT.json` fails when it is put in place.

## 3. Runs

| Run | Configuration | Bounds | Result |
|---|---|---|---|
| `sched` | `MCSched.cfg` | 3 slots, limit 0 or 2 | holds, 71 860 states |
| `proc` | `MCProc.cfg` | 3 slots, 2 PCBs, 3 pids | holds, 492 744 states |
| `proc_boot` | `MCProcBoot.cfg` | 4 slots, 2 PCBs, 2 pids, 2 codes | holds, 75 875 states |
| `concurrent` | `MCConcurrent.cfg` | see below | holds, 54 227 states |
| `serial` | `MCSerial.cfg` | see below | holds, 448 985 states |
| `proc_status` | `MCProcStatus.cfg` | 3 slots, 2 PCBs, 3 pids | violated |
| `proc_chunks` | `MCProcChunks.cfg` | same | violated |
| `afs_mount_fault` | `AfsFault.cfg` | 2 files, 2 free extents, 6 data sectors, 5 writes | violated |
| `smp_jobs` | `Smp.cfg` | 2 cores, ring of 2 cells, 3 jobs | violated |
| `mem_heap` | `Memory.cfg` | 9 frames, heap of 3 | violated |
| `engine_cadence` | `Engine.cfg` | period 2, 3 ticks, one call | violated |
| `x86_preempt` | `X86Preempt.cfg` | 3 tasks, quantum 2, limit 4 | violated |

### What the passing runs show

* `sched`: ticks that land anywhere inside a switch do not break it
  (`RunningAgree`, `NoMaskLeak`, `SchedInv`), it looks to its clients like the
  atomic table (`ImplementsTable`), hand-overs bring every READY task closer to
  its turn (`RoundRobin`), it runs in the end (`ReadyRuns`), and the watchdog
  flags a task that keeps the CPU (`HogFlagged`).
* `proc`: exits, reaps and watchdog kills never leave a runnable task without
  its address space (`AsSafe`) or with another's kernel stack (`KstackPrivate`).
* `proc_boot`: in the shipped boot order exit codes and pids are right
  (`StatusKept`, `GetpidRight`) and a wait for a process that exits returns.
* `concurrent`: the mutex excludes across yields, exits and reuse of slots, and
  polite clients all get it (`Exclusive`, `LocksRetryFair`). The demo loses no
  item and ends (`NoItemLost`, `DemoAllConsumed`). Cores take each accepted job once and
  in order, and none sleeps while one is waiting (`SmpTakenInOrder`,
  `SmpAllTaken`). Ping counts only fresh replies and ends whatever is lost
  (`NetTrusted`, `NetPingEnds`). The Rust scheduler keeps every runnable task
  queued and comes to the one of highest priority (`RsRunnableQueued`,
  `RsTopRuns`).
* `serial`: a request the driver reports as done was carried out, if
  no earlier one that timed out was still open (`BlkCarriedOut`); files,
  descriptors, log, line, boot information, channels, capabilities, the records
  of the engine and the books of the host library stay right across wrap-around,
  reuse, refusal and exhaustion (`RamTable`, `DevDescriptors`, `LogLatest`,
  `ShellRunsShown`, `LdrFromTree`, `RiExactlyOnce`, `RcNoAmplification`,
  `RcTables`, `EngRecords`, `HostBooks`); page frames,
  heap blocks and Rust frames have one owner (`MemSound`, `RfSound`); the rings
  implement the queues (`ImplementsFifo`); an engine that has been
  switched off changes nothing but its count of errors (`EngFailSafe`); no
  sector of the disk has two uses (`NoOverlap`) and every file keeps what its
  last successful write stored (`Durable`), with power loss between any two
  requests.

Some of these have exceptions that are part of the property, because the code
has them:
* `DevDescriptors` leaves out the processes in `hidden`, `RamTable` the names in
  `loose`, `RfSound` the frames in `rfStale`. Each says that there is no other
  exception: who is not in the ghost set is served right beside those who are.
* `ShellRunsShown` says that what is executed begins with what is shown.
  Backspace does not terminate the line (`shell.c:48`), so characters that were
  rubbed out and not typed over are still executed behind it.
* `EngRecords` has the CMT history complete until it is full. The header calls
  it a "History ring buffer" (`cmt.h:134`), but `record` adds nothing to a full
  one. It has one decision for every period while the engine is registered once;
  `engine_cadence` is about the second registration.
* `HostBooks` says nothing of inferences while the policy is disabled. A read of
  the clock does not look at the flag and infers all the same, where the kernel
  is inert (`EngFailSafe`) and the mock's test expects nothing to happen
  (`sdk/tests/test_ai_integration.py:86`). And only forced inferences enter the
  history, which is said to mirror the kernel's (`aeos_kernel.c:244`), where all
  do.
* `NetTrusted` has a reply counted only if it arrived while its request was
  awaited. Requests of two pings carry the same numbers, so a late reply to the
  earlier one that arrives during the later one's wait is counted for it.
* `RsTopRuns` speaks of a task whose priority is above that of all others.

### Bounds, and why they are enough

Three slots give a caller, a successor and a bystander that must not be
overtaken, and let slots be reused. A limit of 2 separates "charged" from
"flagged", and `STARVE_CAP` only stops the counter where no comparison can tell
the difference. Two PCBs and three pids let a PCB be recycled while the other is
in use. Sizes 1 and 3 with chunks of 2 give files of one and of two requests,
growth, in-place rewriting and split extents; two free extents overflow; `DISK`
below `TOTAL` gives allocations past the end, and the name `c` is one that is
cut.

In `concurrent`, 4 slots for the lock clients leave one slot to be reused while
others hold and wait, and give the demo a bystander on the way from producer to
consumer and one on the way back; the demo has 5 items; two cores and 3 jobs
over a ring that holds one job make it wrap, fill up and be contended; two pings of two requests with 3 arrivals let a reply of the first ping come during
the second; the Rust scheduler has 3 tasks, 2 priorities and at most 4 queue
entries (the crate has no such limit).

In `serial`, every table has two or three places, so that it is full, empty and
half full, and every ring is written past its end. The block driver has 4
requests over 8 descriptors in chains of three, of which only two chains fit:
see the observations. 3 ticks with a period of 2, or of 1 once the engine is
registered twice, and two calls of the interface fill the histories of the
engine past their end and let a reset meet a disabled engine. 6 frames, 4 of
them usable, in words of 3 with a stack of 2 put frames on the stack and in the
bitmap alone, and a range takes them from under the stack. 2 PCBs over 3 task
slots let a process start behind a zombie. The tree has 5 tokens, enough for a
node that opens, carries both properties and closes, or breaks off anywhere in
it; `#address-cells` and `#size-cells` of 2 with a `reg` of 4 cells are among
them. Audit rings of 3 with 3 capabilities wrap, and two resources can be
confused. The host library infers at every second read, asks for rates below,
between and near its limits, and makes 3 entries in a history of 2. The file
system makes 4 writes; each name, size and extent of the bounds above occurs.

### What the file system takes for granted

In `serial`, its failures are those of `afs_write` and `afs_format`. It assumes that
(1) the disk was zero before its first format, as `tests/boot/smoke_aarch64.sh`
makes it: the format writes the superblock first, so on a disk with old content
power loss before the directory is written lets the next boot mount that
content, and both properties fail;
(2) the reads of `afs_mount` succeed (see `afs_mount_fault`);
(3) the flush in `afs_delete` succeeds: when it fails the file stays while its
extent is listed as free, and both properties fail;
(4) a request that failed does not reach the disk later, which the time-out of
`virtio.c` does not ensure.
No run of its own shows (1), (3) or (4); (3) is part of `FaultySpec`.

Deadlock checking is off except in `x86_preempt`: the machine really stops when
the last task has left (it idles in `sched_exit`), and bounded callers stop when
their bound is reached.

### What the violated runs show

* `proc_status`: a slot index outlives the task it was taken from. A task in
  the slot of a zombie that is not yet reaped is given the zombie's pid, and its
  exit overwrites the zombie's code. It takes a spawn after main's first yield.
  The shipped boot spawns everything before (`boot/aarch64/kernel.c`, 518 to
  560), and under that order the process properties hold (`proc_boot`).
* `proc_chunks`: `as_destroy` releases `user_region`, which no code sets, so the
  4MB chunk of every process stays allocated after its reap. The shipped boot
  reaches this when the reaper collects its first child.
* `afs_mount_fault`: a superblock that cannot be read is taken for a blank disk
  and formatted over. A directory that cannot be read is taken for an empty one,
  and the next new file overwrites the first. Either loses a stored file.
* `smp_jobs`: every secondary core is started with context id 0, so all share
  one stack. The job one core has popped is overwritten by the next that pops
  one before the first has run it.
* `mem_heap`: the page allocator reserves 18MB, the heap begins at 16MB and is
  larger than 2MB. Frames of the heap are handed out.
* `engine_cadence`: `ai_reset` runs `ai_init`, which registers the engine with
  the timer once more (`ai_api.c:64`). Every tick then counts twice, and the
  engine decides more often than "one inference every N timer ticks"
  (`ai.h:42`). Nothing in the repository calls `ai_reset` yet; the header names
  it as the way out of the fail-safe state (`ai.h:14`).
* `x86_preempt`: the timer interrupt reads the saved instruction pointer where
  it means the code segment, so a task that never yields is never preempted.

### Observations no run checks

* `sched_yield` reads the watchdog's verdict once. A tick between that read and
  the hand-over flags a task that is then READY again, which the comment at
  `sched.c:243` rules out. It is killed at its next yield. `Sched.tla` states
  the comment as `FlaggedNotRequeued`; it fails.
* The watchdog exempts slot 0 by index, so after main has exited whoever gets
  that slot is exempt too. `HogFlagged` speaks of the other slots only.
* An owner that unlocks and locks again within its turn keeps a retrying task
  out for ever. `RetryFair` holds for clients that yield after an unlock
  (`PoliteNext`), and fails for `LocksNext`.
* `alloc_frames` leaves the frames of a range on the free stack, and
  `alloc_frame` pops them without looking at the bitmap: a client that uses both
  can hold a frame twice (`rfTwice`).
* RAM file and device names are compared over the whole field, the bytes behind
  the terminator included, so a caller whose bytes differ there does not find
  the file and can make a second one of the name (`loose`).
* A process that starts in the task slot of a zombie, in a higher PCB than the
  zombie's, uses the zombie's descriptors (`hidden`): the same stale slot index
  as in `proc_status`.
* `pmm_free_page` takes frames below the first managed one. No caller frees
  such, and `Memory` does not.
* A block request that completes after its time-out writes the status byte that
  the next request polls. The descriptor index is not reduced by the size of the
  table (`virtio.c:309`). `MAX_REQUESTS` and `QNUM` keep `Vblk` where the source
  determines the outcome; a chain that leaves the table stops the device.
* `net_poll` drops echo replies, although the comment at `net.c:223` says that
  it resolves them. That is what makes ping count fresh replies only.
* `AuditLog::recent` starts at the oldest entry once the ring has wrapped, and
  its slice may leave the array (`audit.rs:84`). `delegate` looks at the first
  capability of the table only.
* `SYS_WAITPID` looks at the pointer for the exit code after the process has
  been reaped (`syscall.c:117`): the code is lost when it is refused.
* The x86 interrupt stub changes `rax` after it has restored it (`irqs.S:55`).

### Fairness

* `KernelFairness`: code inside the scheduler runs on (weak fairness of
  `SwitchStep`), a system call returns, and the timer ticks again and again as
  long as interrupts are unmasked again and again (strong fairness, since system
  calls mask them in between).
* `ReadyRuns` has a premise of its own, that whoever runs yields or exits in the
  end. This is the contract of a cooperative kernel. `HogFlagged`, in the same
  run, is about tasks that break it.
* `FairBootSpec`: whoever has the CPU yields, waits or exits in the end.
* `concurrent` joins the fairness of its parts. Lock clients: the running client
  goes on (weak), a holder unlocks in the end (strong, because a holder that
  yields is not running all the time). Demo: one CPU that runs. Cores: each
  secondary core executes its next instruction, and the primary finishes a
  submission. Network: the task runs, and a loop that looks at the clock again
  and again sees its time over (strong). Rust scheduler: the timer ticks.
* `x86_preempt`: the timer ticks, and a task that can go on does. The violated
  property is temporal, and its counterexample satisfies this.

## 4. Proofs

All proofs hold for every value of the constants that the named assumptions
beside the `CONSTANTS` allow: table sizes, capacities and periods are natural
numbers (positive where the code divides by them or always has an entry), bounds
are natural numbers, cores are numbered from 1, producer and consumer have slots
of their own that are not main's, a reserved region lies within its memory, and
the terminator is not a key. Every invariant below is shown to hold initially
and to be kept by every action, with one lemma per action where that takes more
than a line.

**CommonLemmas**: least elements, quotients and remainders of ring indices,
`next_ready` returns the nearest READY slot, `slot_alloc` a free one.

**SchedProofs**
* Kernel scheduler: `SchedInv` is inductive together with the types. It says,
  for every program point of a switch, who is RUNNING and whom `nxt` names.
  Without it `RunningAgree` is not inductive, since it says nothing of the
  points inside the switch. From it follow `RunningAgree`, `NoMaskLeak`,
  bounded overtaking (`RoundRobin`), and that the watchdog condemns only the
  task that has kept the CPU for the limit, never main, and that a verdict
  stands until the slot has a new occupant (`VerdictStands`).
* `Sched` implements `TaskTable`. A yield takes effect in the abstract table
  when it has passed the watchdog check and has a successor, an exit when the
  task is FINISHED. All later steps of the switch stutter, and ticks map to
  `Flag` or stutter.
* Rust scheduler: `RsRunnableQueued` needs `RsHome` (whoever is in a queue
  exists and has the priority of that queue) and `RsBoot` (there is no task before
  the set-up).

**TaskProofs**
* `ProcInv` is inductive. Its heart is `Backed`: the PCB whose kernel stack a
  runnable task uses is ALIVE and names that slot and that address space. A
  zombie can share its slot with a newer task, so the converse is false, and
  that is what `proc_status` exhibits. From it follow `AsSafe`, `KstackPrivate`
  and `PidUnique`.
* In the boot order the converse holds. `BootInv` adds that no slot is FINISHED
  while main boots, so that no slot is used twice before the last spawn, and
  that the PCB in use names the slot whose owner it is. From it follow
  `StatusKept` and `GetpidRight`.
* Mutex: `Exclusive` for every number of tasks, and for clients that need not be
  polite (`LocksNext`). `TableInv` says that until the machine stops `current`
  and no other slot is RUNNING; a spawn can then not take the owner's slot.
* Demo: `NoItemLost`. The semaphore alone does not protect the item: the
  producer never waits. `DemoInv` says why it works: while an item is pending
  the CPU is on its way from the producer to the consumer, counted in `Hops`, so
  round robin serves the consumer before the producer comes round again.

**RingProofs**
* Cores: mutual exclusion of the spinlock and `SmpTakenInOrder`, for any set of
  cores and any ring. The invariant says who holds the lock at each program
  point, and that the ring from `q_head` to `q_tail` holds the accepted jobs
  that are not taken, with one exception: between the copy of a job and the move
  of `q_head` the first cell holds a job already taken. Only the holder of the
  lock is ever there, which is why both parts are needed together.
* Network: `NetTrusted`, for any number of requests, arrivals and buffers. The
  invariant adds that, while ping looks for a reply, every frame in the queue of
  the driver came after its request (`net_poll` has drained the rest), and that
  an answer of the gateway in the queue means that it has spoken.
* Rings: head, tail and count agree (`RingOK`), and the rings implement the FIFO
  queues.
* Channels: `RiExactlyOnce`. Channels do not interfere, so the invariant is that
  of each one: unused, or with what was sent and not yet received in its ring.
* Block driver: `BlkCarriedOut`, for every size of the queue the ring has room
  for. `BlkInv` ties the three counters to the number of requests. Of a call
  that found nothing outstanding it says where its chain begins, that a device
  which takes the chain finds the buffer of this call behind the header
  (`ChainStands`), and that once the device has moved on it has carried this
  request out or reported an error.

**DeviceProofs**
* File system: `NoOverlap` and `Durable`, under the premises listed in section 3
  and with power loss between any two requests. `AfsInv` has four parts besides
  the types and `Durable`. `DirInv`: files are apart and names unique.
  `PhaseInv`: what is on the disk in each phase of mounting and formatting.
  `SpaceInv`: the bump pointer is above every file, and free extents are apart
  from files and from each other, which is what makes a new extent safe.
  `WriteInv`: a write in progress is either in place, on a file whose content
  counts as unknown until it ends, or elsewhere, apart from every file and free
  extent; its chunks below the offset are stored. A reboot rebuilds `SpaceInv`
  from `DirInv` alone.
* Loader: `LdrFromTree`, with an invariant that ties the parser's depth and
  flags to the nodes that are open.

**EngineProofs**
* `EngRecords`. What a tick does is a walk of the registry by a recursive
  function. That the function exists, and that each of its values has the
  invariant, is shown by a least counterexample instead of an induction. The
  invariant `EngHolds` is that of the engine's record and of what was decided
  and felt so far, so that one lemma per subscriber carries it through the walk.
* `EngFailSafe`: along the same walk a disabled engine adds as many errors as it
  is registered times among the entries seen (`Hits`), and no other part of the
  state moves.

**ResourceProofs**
* Log: `LogLatest`. The head is the total modulo the size, so each of the latest
  entries stands in the cell of its number.
* Descriptors: `DevDescriptors`. The PCB of a running process is ALIVE and names
  its slot (`OwnInv`); a process that is not hidden comes first among the PCBs
  that name it (`FirstInv`), because a later process in a lower PCB gets a free
  slot, which no running process has; so calls reach its own table, and what is
  there is what it opened (`HeldInv`). The count of a device is that of its
  openings modulo the width of the counter, and no more entries lead to it.
* Capabilities: `RcNoAmplification` and `RcTables`. `RcRooted` follows each
  capability to the grant it descends from: whatever confirms a right is such a
  capability.

**SystemProofs**
* Memory: `MemSound`. Frames: the reserved bits stay set and each holder's bits
  are set. Heap: every block ends at or before `heap_ptr`. Map: the tables are
  the identity once they exist.
* Rust frames: `RfSound` for every mix of calls, with the types its own
  strengthening. Popping a frame without looking at the bitmap is right as long
  as the stack holds free frames, each once, and it does except for frames in
  `rfStale`.
* RAM files: `RamTable`, for callers of every padding side by side.
* Shell: `ShellRunsShown`. The buffer holds what is shown, with NUL behind it
  unless the last key was a backspace, and always ends within its length.
* Host library: `HostBooks`, with the clock and the ring of the history apart.

Only model-checked:
* Everything under fairness, since the prover handles neither liveness nor
  ENABLED: `ReadyRuns`, `HogFlagged`, `WaitReturns`, `LocksRetryFair`,
  `DemoAllConsumed`, `SmpAllTaken`, `NetPingEnds`, `RsTopRuns`.
* That `Masked`, which spells out the seven bits of an index so that the prover
  can reason about it, is the `&` of the driver: an assumption of `MCSerial` that
  TLC evaluates for every index a run can form.
* The seven properties that are violated.

## 5. Not modelled

* The virtio network driver (`vnet.c`). It writes its descriptors to an array of
  its own, while the device is told of another page, so what a device does with
  its queues is not determined by the source. `Net` has what the stack sees.
* The checks of user pointers in `syscall.c`, and the calls that only pass data
  on. The registers of MMU, timer and interrupt controller, and the register
  handshake of `virtio.c`.
* The values the AI engine and the CMT pipeline compute (scores, Q-table,
  transform): `Engine` leaves their outcome free.
* The commands of the shell: they print, or call what is modelled elsewhere.
  `cmd_install` writes an image and compares checksums of different lengths
  (`shell.c:228`); it has one caller and no state of its own.
* Page tables and regions of the Rust memory crate: tables without an invariant
  of their own. The rest of the Rust kernel facade: thin calls into the crates.
* The text UI, console output, statistics and reports: they draw or print.
* BIOS stages, the copying of the kernel image, the set-up of the x86 port:
  straight-line hardware set-up. Python SDK, CLI and tools: bindings.

What could follow: `Afs` over `Vblk` as its device (premise 4 of the file
system).
