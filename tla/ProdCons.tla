------------------------------ MODULE ProdCons ------------------------------
(***************************************************************************)
(* The producer/consumer pair of kernel_main: ITEMS items pass through the *)
(* single cell shared_item.  The semaphore counts items, the mutex guards  *)
(* the cell, but nothing tells the producer that the cell has been read:   *)
(* whether an item is overwritten depends on the order in which the        *)
(* scheduler runs the two.  The other tasks yield and leave as they like.  *)
(* Without preemption a task runs from one yield to the next in one step;  *)
(* the mutex is never held across a yield, so that mutex_lock takes it at  *)
(* the first try and the unlock leaves it free again.                      *)
(***************************************************************************)
EXTENDS Sync, Sequences

CONSTANTS
  ITEMS,         \* 5 in the demo
  PROD, CONS     \* the slots of the two tasks, not 0

ASSUME DemoAssumption ==
  ITEMS \in Nat /\ PROD \in Slots \ {0} /\ CONS \in Slots \ {0, PROD}

VARIABLES
  shared_item,
  produced,      \* the producer's i
  taken,         \* the consumer is past sem_wait
  consumed       \* what the consumer has printed

demoVars == <<tableVars, mutex, sem, shared_item, produced, taken, consumed>>

\* kernel_main has spawned all its tasks and is about to yield.
DemoInit ==
  /\ state = [s \in Slots |-> IF s = 0 THEN "RUNNING" ELSE "READY"]
  /\ current = 0
  /\ kill_pending = [s \in Slots |-> FALSE]
  /\ parked = FALSE
  /\ mutex_init
  /\ sem_init(0)
  /\ shared_item = 0
  /\ produced = 0
  /\ taken = FALSE
  /\ consumed = <<>>

\* A producer that keeps going without the yield.
Bug_task_producer ==
  /\ current = PROD
  /\ ~parked
  /\ produced < ITEMS
  /\ MutexFree
  /\ produced' = produced + 1
  /\ shared_item' = produced'
  /\ sem_post
  /\ UNCHANGED <<tableVars, mutex, taken, consumed>>

\* One turn of the producer's loop: lock, store, unlock, post, yield.
task_producer ==
  /\ current = PROD
  /\ ~parked
  /\ produced < ITEMS
  /\ MutexFree
  /\ produced' = produced + 1
  /\ shared_item' = produced'
  /\ sem_post
  /\ sched_yield
  /\ UNCHANGED <<mutex, taken, consumed>>

\* sem_wait, up to the item it takes or the yield of a failed try.
ConsumerWait ==
  /\ current = CONS
  /\ ~parked
  /\ ~taken
  /\ Len(consumed) < ITEMS
  /\ \/ /\ sem_trywait(TRUE)
        /\ taken' = TRUE
        /\ UNCHANGED <<tableVars, mutex, shared_item, produced, consumed>>
     \/ /\ sem_trywait(FALSE)
        /\ sched_yield
        /\ UNCHANGED <<mutex, shared_item, produced, taken, consumed>>

\* lock, load, unlock, print, yield.
ConsumerTake ==
  /\ current = CONS
  /\ ~parked
  /\ taken
  /\ MutexFree
  /\ consumed' = Append(consumed, shared_item)
  /\ taken' = FALSE
  /\ sched_yield
  /\ UNCHANGED <<mutex, sem, shared_item, produced>>

Done ==
  /\ ~parked
  /\ \/ current = PROD /\ produced = ITEMS
     \/ current = CONS /\ ~taken /\ Len(consumed) = ITEMS
     \/ current \notin {PROD, CONS}
  /\ Exit
  /\ UNCHANGED <<mutex, sem, shared_item, produced, taken, consumed>>

OtherYield ==
  /\ ~parked
  /\ current \notin {PROD, CONS}
  /\ sched_yield
  /\ UNCHANGED <<mutex, sem, shared_item, produced, taken, consumed>>

DemoNext ==
  \/ task_producer
  \/ ConsumerWait
  \/ ConsumerTake
  \/ Done
  \/ OtherYield

\* Every task runs on from its last yield when it gets the CPU.
DemoSpec == DemoInit /\ [][DemoNext]_demoVars /\ WF_demoVars(DemoNext)

(***************************************************************************)
(* Properties                                                              *)
(***************************************************************************)

DemoTypeOK ==
  /\ TableTypeOK
  /\ mutex \in Slots \cup {-1}
  /\ sem \in 0 .. ITEMS
  /\ shared_item \in 0 .. ITEMS
  /\ produced \in 0 .. ITEMS
  /\ taken \in BOOLEAN
  /\ consumed \in Seq(0 .. ITEMS) /\ Len(consumed) <= ITEMS

(***************************************************************************)
(* Every item is consumed exactly once and in order, although the cell is  *)
(* never checked before it is overwritten: round robin puts a turn of the  *)
(* consumer between any two of the producer.                               *)
(***************************************************************************)
NoItemLost == \A i \in 1 .. Len(consumed) : consumed[i] = i

(***************************************************************************)
(* The demo ends: all items are consumed and both tasks leave.             *)
(***************************************************************************)
AllConsumed ==
  <>(/\ Len(consumed) = ITEMS
     /\ state[PROD] = "FINISHED"
     /\ state[CONS] = "FINISHED")
=============================================================================
