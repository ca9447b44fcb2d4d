----------------------------- MODULE RustSched -----------------------------
(***************************************************************************)
(* The Rust scheduler crate (scheduler/src) behind the calls the Rust      *)
(* kernel makes of it (kernel/src/lib.rs, kernel/src/syscall.rs).  Every   *)
(* call takes the global lock, so each is one step.  schedule() peeks at   *)
(* the queues and does not dequeue: a running task stays queued, and one   *)
(* that is preempted is queued a second time.                              *)
(***************************************************************************)
EXTENDS Integers, Sequences, FiniteSetsExt

CONSTANTS
  RS_MAX_TASKS,      \* MAX_TASKS: 64
  MAX_PRIORITY,      \* 8
  BASE_SLICE,        \* DEFAULT_TIME_SLICE: 10
  RS_QUEUED          \* bound on queue entries, which the crate has not

ASSUME RustSchedAssumption ==
  /\ RS_MAX_TASKS \in Nat \ {0}
  /\ MAX_PRIORITY \in Nat \ {0}
  /\ BASE_SLICE \in Nat \ {0}
  /\ RS_QUEUED \in Nat

TaskIds == 0 .. RS_MAX_TASKS - 1
Priorities == 0 .. MAX_PRIORITY - 1
NoTaskId == -1
TaskState == {"None", "Ready", "Running", "Blocked", "Zombie"}

VARIABLES
  rsReady,           \* initialized
  rsTasks,           \* tasks: state "None" is a free slot
  rsQueues,          \* queues
  rsCurrent          \* current

rsVars == <<rsReady, rsTasks, rsQueues, rsCurrent>>

Task(state, priority, slice) ==
  [state |-> state, priority |-> priority, time_slice |-> slice]

RsInit ==
  /\ rsReady = FALSE
  /\ rsTasks = [t \in TaskIds |-> Task("None", 0, 0)]
  /\ rsQueues = [p \in Priorities |-> <<>>]
  /\ rsCurrent = NoTaskId

time_slice(priority) == BASE_SLICE + 2 * priority

UsizeMax == time_slice(MAX_PRIORITY)     \* above every slice

-----------------------------------------------------------------------------
(* The queues                                                              *)

enqueue(qs, t, p) == [qs EXCEPT ![p] = Append(@, t)]

Positions(q, t) == {i \in 1 .. Len(q) : q[i] = t}

\* The first occurrence only.
Removed(q, t) ==
  LET pos == Min(Positions(q, t))
  IN  IF Positions(q, t) = {} THEN q ELSE SubSeq(q, 1, pos - 1) \o SubSeq(q, pos + 1, Len(q))

remove(t) == [rsQueues EXCEPT ![rsTasks[t].priority] = Removed(@, t)]

Occupied == {p \in Priorities : rsQueues[p] # <<>>}

peek == IF Occupied = {} THEN NoTaskId ELSE Head(rsQueues[Max(Occupied)])

-----------------------------------------------------------------------------
(* The scheduler                                                           *)

Exists(t) == rsTasks[t].state # "None"

RsSetUp ==
  /\ ~rsReady
  /\ rsReady' = TRUE
  /\ rsTasks' = [rsTasks EXCEPT ![0] = Task("Ready", 0, UsizeMax)]
  /\ rsQueues' = enqueue(rsQueues, 0, 0)
  /\ UNCHANGED rsCurrent

\* Room for one more entry under the bound.
Room == MapThenSumSet(LAMBDA p : Len(rsQueues[p]), Priorities) < RS_QUEUED

\* The slot of an exited task is not reused.
create_task(priority) ==
  /\ rsReady /\ Room
  /\ \E t \in TaskIds :
       /\ ~Exists(t) /\ \A u \in 0 .. t - 1 : Exists(u)
       /\ rsTasks' = [rsTasks EXCEPT ![t] = Task("Ready", priority, BASE_SLICE)]
       /\ rsQueues' = enqueue(rsQueues, t, priority)
  /\ UNCHANGED <<rsReady, rsCurrent>>

exit_task(t) ==
  /\ Exists(t)
  /\ rsTasks' = [rsTasks EXCEPT ![t].state = "Zombie"]
  /\ rsQueues' = remove(t)
  /\ UNCHANGED <<rsReady, rsCurrent>>

block_task(t) ==
  /\ rsTasks[t].state \in {"Running", "Ready"}
  /\ rsTasks' = [rsTasks EXCEPT ![t].state = "Blocked"]
  /\ rsQueues' = remove(t)
  /\ UNCHANGED <<rsReady, rsCurrent>>

\* A wake-up that does not queue the task.
Bug_unblock_task(t) ==
  /\ rsTasks[t].state = "Blocked" /\ Room
  /\ rsTasks' = [rsTasks EXCEPT ![t].state = "Ready"]
  /\ UNCHANGED <<rsReady, rsQueues, rsCurrent>>

unblock_task(t) ==
  /\ rsTasks[t].state = "Blocked" /\ Room
  /\ rsTasks' = [rsTasks EXCEPT ![t].state = "Ready"]
  /\ rsQueues' = enqueue(rsQueues, t, rsTasks[t].priority)
  /\ UNCHANGED <<rsReady, rsCurrent>>

Refilled(ts, t) == [ts EXCEPT ![t].time_slice = time_slice(ts[t].priority)]

Preempted(ts, t) ==
  [Refilled(ts, t) EXCEPT ![t].state = IF @ = "Running" THEN "Ready" ELSE @]

Dispatched(ts, t) == [Refilled(ts, t) EXCEPT ![t].state = "Running"]

\* schedule(), on a table the caller may have changed.
schedule(ts) ==
  IF peek \in {NoTaskId, rsCurrent}
  THEN rsTasks' = ts /\ UNCHANGED <<rsQueues, rsCurrent>>
  ELSE /\ rsCurrent' = peek
       /\ IF rsCurrent = NoTaskId
          THEN rsTasks' = Dispatched(ts, peek) /\ UNCHANGED rsQueues
          ELSE /\ rsTasks' = Dispatched(Preempted(ts, rsCurrent), peek)
               /\ rsQueues' = IF ts[rsCurrent].state = "Running"
                              THEN enqueue(rsQueues, rsCurrent, ts[rsCurrent].priority)
                              ELSE rsQueues

\* The countdown of the current task.
Charged ==
  IF rsCurrent = NoTaskId THEN rsTasks
  ELSE [rsTasks EXCEPT ![rsCurrent].time_slice = IF @ > 0 THEN @ - 1 ELSE 0]

\* A tick that does not preempt a task that is no longer running.
Bug_tick ==
  /\ rsReady
  /\ IF rsCurrent # NoTaskId /\ (\/ Charged[rsCurrent].time_slice > 0
                                 \/ Charged[rsCurrent].state # "Running")
     THEN rsTasks' = Charged /\ UNCHANGED <<rsQueues, rsCurrent>>
     ELSE schedule(Charged)
  /\ UNCHANGED rsReady

tick ==
  /\ rsReady
  /\ IF rsCurrent # NoTaskId /\ Charged[rsCurrent].time_slice > 0
     THEN rsTasks' = Charged /\ UNCHANGED <<rsQueues, rsCurrent>>
     ELSE schedule(Charged)
  /\ UNCHANGED rsReady

\* System calls: all but these two return without an effect.
SysYield == schedule(rsTasks) /\ UNCHANGED rsReady

SysExit == rsCurrent # NoTaskId /\ exit_task(rsCurrent)

RsNext ==
  \/ RsSetUp
  \/ \E p \in Priorities : create_task(p)
  \/ \E t \in TaskIds : exit_task(t) \/ block_task(t) \/ unblock_task(t)
  \/ tick
  \/ SysYield
  \/ SysExit

RsSpec == RsInit /\ [][RsNext]_rsVars

(***************************************************************************)
(* Properties                                                              *)
(***************************************************************************)

Queued(t) == t \in Range(rsQueues[rsTasks[t].priority])

(***************************************************************************)
(* No task is lost: whoever is Ready or Running is in the queue of its     *)
(* priority, so peek() can find it, although block_task and exit_task take *)
(* one occurrence out and schedule() puts further ones in.  And no two     *)
(* tasks are Running: only `current` can be.                               *)
(***************************************************************************)
RsRunnableQueued ==
  \A t \in TaskIds :
    /\ rsTasks[t].state \in {"Ready", "Running"} => Queued(t)
    /\ rsTasks[t].state = "Running" => t = rsCurrent

AboveAll(t) ==
  /\ rsTasks[t].state = "Ready"
  /\ \A u \in TaskIds \ {t} :
       Queued(u) => rsTasks[u].priority < rsTasks[t].priority

(***************************************************************************)
(* "Fixed-priority preemptive": as long as the timer ticks, a Ready task   *)
(* that stays above all queued ones becomes current: tick() counts down    *)
(* whoever is current, blocked and exited tasks included, and switches at  *)
(* zero.  (A current task that was blocked and woken again stays current   *)
(* and Ready: schedule() returns before it sets the state.)                *)
(***************************************************************************)
RsTopRuns == \A t \in TaskIds : AboveAll(t) ~> (rsCurrent = t \/ ~AboveAll(t))
=============================================================================
