---------------------------- MODULE LockClients ----------------------------
(***************************************************************************)
(* Kernel tasks sharing one mutex of kernel/sync.c.  A client locks,       *)
(* may yield inside its critical section, unlocks, and may come back; it   *)
(* locks only what it does not hold and does not exit while holding.       *)
(* Tasks come and go, so that slot indices, which the mutex takes for      *)
(* owners, are reused.                                                     *)
(***************************************************************************)
EXTENDS Sync

VARIABLES
  holds,       \* the occupant of the slot is in its critical section
  locking,     \* ... is in the retry loop of mutex_lock
  released     \* ... has unlocked since it last yielded

clientVars == <<holds, locking, released>>
lockVars == <<tableVars, mutex, sem, clientVars>>

LocksInit ==
  /\ TableInit
  /\ mutex_init
  /\ sem_init(0)
  /\ holds = [s \in Slots |-> FALSE]
  /\ locking = [s \in Slots |-> FALSE]
  /\ released = [s \in Slots |-> FALSE]

Free == ~parked /\ ~locking[current]

GiveUpCpu ==
  /\ sched_yield
  /\ released' = [released EXCEPT ![current] = FALSE]

\* One turn of the loop of mutex_lock: acquired, or yield and try again.
mutex_lock ==
  /\ ~parked
  /\ ~holds[current]
  /\ \/ /\ mutex_trylock(TRUE)
        /\ holds' = [holds EXCEPT ![current] = TRUE]
        /\ locking' = [locking EXCEPT ![current] = FALSE]
        /\ UNCHANGED <<tableVars, released>>
     \/ /\ mutex_trylock(FALSE)
        /\ locking' = [locking EXCEPT ![current] = TRUE]
        /\ GiveUpCpu
        /\ UNCHANGED holds
  /\ UNCHANGED sem

\* An unlock that forgets to clear the owner.
Bug_Unlock ==
  /\ Free
  /\ holds[current]
  /\ holds' = [holds EXCEPT ![current] = FALSE]
  /\ released' = [released EXCEPT ![current] = TRUE]
  /\ UNCHANGED <<tableVars, mutex, sem, locking>>

Unlock ==
  /\ Free
  /\ holds[current]
  /\ mutex_unlock
  /\ holds' = [holds EXCEPT ![current] = FALSE]
  /\ released' = [released EXCEPT ![current] = TRUE]
  /\ UNCHANGED <<tableVars, sem, locking>>

ClientYield ==
  /\ Free
  /\ GiveUpCpu
  /\ UNCHANGED <<mutex, sem, holds, locking>>

ClientExit ==
  /\ Free
  /\ ~holds[current]
  /\ Exit
  /\ released' = [released EXCEPT ![current] = FALSE]
  /\ UNCHANGED <<mutex, sem, holds, locking>>

ClientSpawn ==
  /\ Free
  /\ Spawn
  /\ UNCHANGED <<mutex, sem, clientVars>>

Work == mutex_lock \/ Unlock \/ ClientYield \/ ClientExit

LocksNext == Work \/ ClientSpawn

(***************************************************************************)
(* Whoever has the CPU goes on; a holder unlocks in the end, even if it    *)
(* yields time and again before it does (it is then disabled while others  *)
(* run, hence the strong form).                                            *)
(***************************************************************************)
UnlockBy(s) == current = s /\ Unlock

ClientFairness ==
  /\ WF_lockVars(mutex_lock \/ ClientYield \/ ClientExit)
  /\ \A s \in Slots : SF_lockVars(UnlockBy(s))

LocksSpec == LocksInit /\ [][LocksNext]_lockVars /\ ClientFairness

\* Clients that yield between an unlock and the next lock.
PoliteNext ==
  \/ mutex_lock /\ ~released[current]
  \/ Unlock
  \/ ClientYield
  \/ ClientExit
  \/ ClientSpawn

PoliteSpec == LocksInit /\ [][PoliteNext]_lockVars /\ ClientFairness

(***************************************************************************)
(* Properties                                                              *)
(***************************************************************************)

LocksTypeOK ==
  /\ TableTypeOK
  /\ mutex \in Slots \cup {-1}
  /\ sem \in Nat
  /\ holds \in [Slots -> BOOLEAN]
  /\ locking \in [Slots -> BOOLEAN]
  /\ released \in [Slots -> BOOLEAN]

(***************************************************************************)
(* Mutual exclusion across yields, exits and slot reuse: at most one task  *)
(* is in its critical section, and it is the one m->owner names.           *)
(***************************************************************************)
Exclusive ==
  /\ \A s \in Slots : holds[s] => mutex = s
  /\ mutex # -1 => holds[mutex] /\ state[mutex] \in {"READY", "RUNNING"}

(***************************************************************************)
(* "The round-robin scheduler makes retry loops fair": a task in the loop  *)
(* of mutex_lock acquires the mutex.                                       *)
(***************************************************************************)
RetryFair == \A s \in Slots : locking[s] ~> holds[s]
=============================================================================
