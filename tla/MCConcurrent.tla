----------------------------- MODULE MCConcurrent ---------------------------
(***************************************************************************)
(* The parts of the kernel whose operations take many steps among those of *)
(* others: tasks with a mutex, the producer and the consumer, secondary    *)
(* cores, the network, the Rust scheduler.  They share no state (the two   *)
(* clients of the task table are never run together): a behaviour          *)
(* exercises one of them.                                                  *)
(***************************************************************************)
EXTENDS LockClients, ProdCons, Smp, Net, RustSched

VARIABLE part

taskVars == <<tableVars, mutex, sem>>
cellVars == <<shared_item, produced, taken, consumed>>

Init ==
  /\ \/ /\ part = "locks" /\ LocksInit
        /\ shared_item = 0 /\ produced = 0 /\ taken = FALSE /\ consumed = <<>>
     \/ /\ part \in {"demo", "smp", "net", "rust"} /\ DemoInit
        /\ holds = [s \in Slots |-> FALSE] /\ locking = holds /\ released = holds
  /\ SmpInit /\ NetInit /\ RsInit

OnlyLocks == part = "locks" /\ UNCHANGED <<part, cellVars, smpVars, netVars, rsVars>>
OnlyDemo == part = "demo" /\ UNCHANGED <<part, clientVars, smpVars, netVars, rsVars>>
OnlyCores == part = "smp" /\ UNCHANGED <<part, taskVars, clientVars, cellVars, netVars, rsVars>>
OnlyNetwork == part = "net" /\ UNCHANGED <<part, taskVars, clientVars, cellVars, smpVars, rsVars>>
OnlyScheduler ==
  part = "rust" /\ UNCHANGED <<part, taskVars, clientVars, cellVars, smpVars, netVars>>

Locks == part = "locks" /\ PoliteNext /\ OnlyLocks
Demo == part = "demo" /\ DemoNext /\ OnlyDemo
Cores == part = "smp" /\ SmpNext /\ OnlyCores
Network == part = "net" /\ NetNext /\ OnlyNetwork
Scheduler == part = "rust" /\ RsNext /\ OnlyScheduler

Next == Locks \/ Demo \/ Cores \/ Network \/ Scheduler

vars == <<part, taskVars, clientVars, cellVars, smpVars, netVars, rsVars>>

\* The fairness of the parts.  A behaviour stays in one part, so each conjunct
\* says of it what its disjunct for that part says: a conjunct of several
\* disjuncts stands for one fairness condition per part.
Fairness ==
  /\ WF_vars(\/ part = "locks" /\ (mutex_lock \/ ClientYield \/ ClientExit) /\ OnlyLocks
             \/ Demo
             \/ part = "smp" /\ (SubmitPut \/ SubmitUnlock \/ SubmitSev) /\ OnlyCores
             \/ part = "net" /\ net_poll /\ OnlyNetwork
             \/ part = "rust" /\ tick /\ OnlyScheduler)
  /\ \A c \in APS :
       WF_vars(\/ part = "smp" /\ smp_main(c) /\ OnlyCores
               \/ part = "net" /\ Look /\ OnlyNetwork)
  /\ \A s \in Slots :
       SF_vars(\/ part = "locks" /\ UnlockBy(s) /\ OnlyLocks
               \/ part = "net" /\ s = 0 /\ Resolved /\ OnlyNetwork
               \/ part = "net" /\ s = 1 /\ RequestTimeout /\ OnlyNetwork)

Spec == Init /\ [][Next]_vars /\ Fairness

-----------------------------------------------------------------------------
(* The liveness properties that a part has only while it runs.             *)

\* A task in the retry loop of mutex_lock gets the mutex, when clients yield
\* between an unlock and the next lock (sync.h).
LocksRetryFair == part = "locks" => RetryFair

\* The demo ends: all items are consumed and both tasks have left
\* (task_producer, task_consumer).
DemoAllConsumed == part = "demo" => AllConsumed
=============================================================================
