----------------------------- MODULE X86Preempt -----------------------------
(***************************************************************************)
(* Quantum preemption of the x86 kernel: the timer interrupt               *)
(* (irq_handler_c and its stub), the thunk it redirects the interrupted    *)
(* task to, and a task that never yields (task_hog).  All tasks run in the *)
(* kernel; slot 0 is main.                                                 *)
(***************************************************************************)
EXTENDS Integers

CONSTANTS
  TASKS,                    \* how many tasks there are
  HOG,                      \* the slot of task_hog, not 0
  SCHED_QUANTUM,            \* 25 ticks
  WATCHDOG_LIMIT            \* watchdog_limit: 600 ticks, 0 for none

Slots == 0 .. TASKS - 1
KERNEL_CS == 8

\* The words above the stack pointer in irq_handler_c: nine registers, the
\* vector, the error code, then what the processor pushed.
Frame(rip) ==
  [n \in 0 .. 12 |-> CASE n = 9 -> 32 [] n = 11 -> rip [] n = 12 -> KERNEL_CS [] OTHER -> 0]

Rips == {1000, 2000}        \* addresses in the kernel image

VARIABLES
  current, ready,           \* the running slot; the others that may run
  starved_ticks, kill_pending,
  in_thunk,                 \* g_in_thunk
  where                     \* of every task: "code", "thunk", "yielding"

preemptVars == <<current, ready, starved_ticks, kill_pending, in_thunk, where>>

PreemptInit ==
  /\ current = 0
  /\ ready = Slots \ {0}
  /\ starved_ticks = [t \in Slots |-> 0]
  /\ kill_pending = [t \in Slots |-> FALSE]
  /\ in_thunk = FALSE
  /\ where = [t \in Slots |-> "code"]

next_ready ==
  LET ahead(t) == (t - current + TASKS) % TASKS
  IN CHOOSE t \in ready : \A u \in ready : ahead(t) <= ahead(u)

sched_should_preempt == starved_ticks'[current] >= SCHED_QUANTUM /\ ready # {}

\* A tick: the hook of the scheduler, the test for the quantum and, in the
\* stub, the redirection.
irq_handler_c ==
  /\ \E rip \in Rips :
       LET watched == WATCHDOG_LIMIT > 0 /\ current # 0
           frame == Frame(rip)
       IN /\ starved_ticks' = [starved_ticks EXCEPT ![current] =
                IF watched /\ @ < WATCHDOG_LIMIT THEN @ + 1 ELSE @]
          /\ kill_pending' = [kill_pending EXCEPT ![current] =
                @ \/ (watched /\ starved_ticks[current] + 1 >= WATCHDOG_LIMIT)]
          /\ where' = [where EXCEPT ![current] =
                IF frame[11] = KERNEL_CS /\ sched_should_preempt /\ ~in_thunk
                THEN "thunk" ELSE @]
  /\ UNCHANGED <<current, ready, in_thunk>>

\* A flagged task is finished; another one goes back to the queue.
sched_yield ==
  /\ where[current] = "thunk" \/ current # HOG
  /\ IF ready = {}
     THEN UNCHANGED <<current, ready>>
     ELSE /\ current' = next_ready
          /\ ready' = (ready \ {next_ready})
               \cup {t \in {current} : ~kill_pending[t]}
  /\ starved_ticks' = [starved_ticks EXCEPT ![current] = 0]
  /\ in_thunk' = (in_thunk \/ where[current] = "thunk")
  /\ where' = [where EXCEPT ![current] = IF @ = "thunk" THEN "yielding" ELSE @]
  /\ UNCHANGED kill_pending

\* The rest of the thunk, once its task runs again
ThunkReturns ==
  /\ where[current] = "yielding"
  /\ in_thunk' = FALSE
  /\ where' = [where EXCEPT ![current] = "code"]
  /\ UNCHANGED <<current, ready, starved_ticks, kill_pending>>

PreemptNext == irq_handler_c \/ sched_yield \/ ThunkReturns

\* The timer ticks and a task that can go on does.
PreemptFairness ==
  WF_preemptVars(irq_handler_c) /\ WF_preemptVars(sched_yield) /\ WF_preemptVars(ThunkReturns)

PreemptSpec == PreemptInit /\ [][PreemptNext]_preemptVars /\ PreemptFairness

-----------------------------------------------------------------------------
(* Properties                                                              *)

\* "With quantum preemption it just keeps getting time-sliced": task_hog,
\* which never yields, does not keep the processor while others are ready
\* (irq_handler_c, kernel_x86.c).
TimeSliced == []<>(current # HOG)

=============================================================================
