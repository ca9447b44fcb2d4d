-------------------------------- MODULE Sync --------------------------------
(***************************************************************************)
(* kernel/sync.c: a mutex and a counting semaphore over the cooperative    *)
(* scheduler.  Each try runs with interrupts masked, and no tick handler   *)
(* touches a lock, so a try is one step; a failed one yields and retries.  *)
(* lock_count and wakeups are diagnostics and are left out.                *)
(***************************************************************************)
EXTENDS TaskTable

VARIABLES
  mutex,     \* m->owner: the slot index of the holder, -1 when free
  sem        \* s->count

mutex_init == mutex = -1

sem_init(initial) == sem = initial

\* A try that does not look at the owner.
Bug_MutexFree == TRUE

MutexFree == mutex \in {-1, current}

\* The outcome of mutex_trylock for the current task.
mutex_trylock(got) ==
  /\ got = MutexFree
  /\ mutex' = IF got THEN current ELSE mutex

mutex_unlock == mutex' = IF mutex = current THEN -1 ELSE mutex

sem_trywait(got) ==
  /\ got = (sem > 0)
  /\ sem' = IF got THEN sem - 1 ELSE sem

\* A post that drops the count.
Bug_sem_post == sem' = 0

sem_post == sem' = sem + 1

\* sched_yield with no watchdog verdict: a sole runner keeps going.
sched_yield ==
  \/ Yield
  \/ next_ready(state, current) = NoSlot /\ UNCHANGED tableVars
=============================================================================
