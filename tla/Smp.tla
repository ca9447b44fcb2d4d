--------------------------------- MODULE Smp ---------------------------------
(***************************************************************************)
(* Secondary cores as workers (smp.c, smp_entry.S, psci.c): the primary    *)
(* core starts them and submits jobs to a ring behind a spinlock; they pop *)
(* and run them and sleep when there are none.  Steps are memory accesses  *)
(* that another core can see: taking and releasing the lock, writing and   *)
(* copying a job, moving an index, the two halves of a read-modify-write.  *)
(*                                                                         *)
(* The firmware (PSCI) hands a core that it starts the context id of the   *)
(* call, and the core finds its stack from it.  The job a core has popped  *)
(* is a local variable: it is kept on that stack.                          *)
(***************************************************************************)
EXTENDS Integers, Sequences, FiniteSets

CONSTANTS
  APS,                      \* MAX_APS cores, numbered from 1
  JOB_QUEUE,                \* 16
  MAX_JOBS                  \* bound on jobs submitted

ASSUME SmpAssumption ==
  APS \subseteq Nat \ {0} /\ JOB_QUEUE \in Nat \ {0} /\ MAX_JOBS \in Nat

Nobody == -1
Primary == 0
NoJob == 0

VARIABLES
  q_lock, jobq, q_head, q_tail,
  ap_online,
  cpu,                      \* cpu[c]: [pc, ctx, r], r being a register
  event,                    \* cores whose event register is set (sev, wfe)
  stack,                    \* stack[ctx]: the local variable j of smp_main
  submitted,                \* jobs submitted so far: job n is the n-th
  accepted, popped,         \* ghost: jobs put in the ring; pairs of core and job taken
  ran                       \* ghost: jobs run, in order

smpVars == <<q_lock, jobq, q_head, q_tail, ap_online, cpu, event, stack,
             submitted, accepted, popped, ran>>

qVars == <<jobq, q_head, q_tail>>

SmpInit ==
  /\ q_lock = Nobody
  /\ jobq = [i \in 0 .. JOB_QUEUE - 1 |-> NoJob]
  /\ q_head = 0 /\ q_tail = 0
  /\ ap_online = {}
  /\ cpu = [c \in APS \cup {Primary} |->
              [pc |-> IF c = Primary THEN "boot" ELSE "off", ctx |-> 0, r |-> {}]]
  /\ event = {}
  /\ stack = [ctx \in 0 .. 0 |-> NoJob]
  /\ submitted = 0
  /\ accepted = <<>> /\ popped = <<>> /\ ran = <<>>

Goto(c, pc) == cpu' = [cpu EXCEPT ![c].pc = pc]

-----------------------------------------------------------------------------
(* The lock                                                                *)

\* The lock is not looked at.
Bug_spin_lock(c, pc) ==
  /\ q_lock' = c
  /\ Goto(c, pc)

spin_lock(c, pc) ==
  /\ q_lock = Nobody
  /\ q_lock' = c
  /\ Goto(c, pc)

spin_unlock(c, pc) ==
  /\ q_lock' = Nobody
  /\ Goto(c, pc)

-----------------------------------------------------------------------------
(* The primary core                                                        *)

\* psci_cpu_on: the target is the core, the context id (x3) is 0.
psci_cpu_on(c) ==
  /\ cpu[Primary].pc = "boot" /\ cpu[c].pc = "off"
  /\ cpu' = [cpu EXCEPT ![c].pc = "start", ![c].ctx = 0]
  /\ UNCHANGED <<q_lock, qVars, ap_online, event, stack, submitted, accepted, popped, ran>>

\* smp_init ends after its wait, however many cores have come up; without
\* one online the kernel submits nothing.
SmpInitDone ==
  /\ cpu[Primary].pc = "boot"
  /\ ap_online # {}
  /\ Goto(Primary, "idle")
  /\ UNCHANGED <<q_lock, qVars, ap_online, event, stack, submitted, accepted, popped, ran>>

SubmitLock ==
  /\ cpu[Primary].pc = "idle" /\ submitted < MAX_JOBS
  /\ spin_lock(Primary, "put")
  /\ submitted' = submitted + 1
  /\ UNCHANGED <<qVars, ap_online, event, stack, accepted, popped, ran>>

Full == (q_tail + 1) % JOB_QUEUE = q_head

\* A full ring drops the job.
SubmitPut ==
  /\ cpu[Primary].pc = "put"
  /\ IF Full THEN Goto(Primary, "dropped") /\ UNCHANGED <<qVars, accepted>>
     ELSE /\ jobq' = [jobq EXCEPT ![q_tail] = submitted]
          /\ q_tail' = (q_tail + 1) % JOB_QUEUE
          /\ accepted' = Append(accepted, submitted)
          /\ Goto(Primary, "unlock")
          /\ UNCHANGED q_head
  /\ UNCHANGED <<q_lock, ap_online, event, stack, submitted, popped, ran>>

SubmitUnlock ==
  /\ cpu[Primary].pc \in {"unlock", "dropped"}
  /\ spin_unlock(Primary, IF cpu[Primary].pc = "unlock" THEN "sev" ELSE "idle")
  /\ UNCHANGED <<qVars, ap_online, event, stack, submitted, accepted, popped, ran>>

SubmitSev ==
  /\ cpu[Primary].pc = "sev"
  /\ event' = APS
  /\ Goto(Primary, "idle")
  /\ UNCHANGED <<q_lock, qVars, ap_online, stack, submitted, accepted, popped, ran>>

-----------------------------------------------------------------------------
(* A secondary core                                                        *)

\* ap_online |= 1u << (ctx - 1), on a machine that shifts modulo 32
OnlineRead(c) ==
  /\ cpu[c].pc = "start"
  /\ cpu' = [cpu EXCEPT ![c].pc = "online", ![c].r = ap_online]
  /\ UNCHANGED <<q_lock, qVars, ap_online, event, stack, submitted, accepted, popped, ran>>

OnlineWrite(c) ==
  /\ cpu[c].pc = "online"
  /\ ap_online' = cpu[c].r \cup {(cpu[c].ctx - 1) % 32}
  /\ Goto(c, "loop")
  /\ UNCHANGED <<q_lock, qVars, event, stack, submitted, accepted, popped, ran>>

PopLock(c) ==
  /\ cpu[c].pc = "loop"
  /\ spin_lock(c, "pop")
  /\ UNCHANGED <<qVars, ap_online, event, stack, submitted, accepted, popped, ran>>

\* *out = jobq[q_head]
PopCopy(c) ==
  /\ cpu[c].pc = "pop"
  /\ IF q_head = q_tail THEN Goto(c, "empty") /\ UNCHANGED <<stack, popped>>
     ELSE /\ stack' = [stack EXCEPT ![cpu[c].ctx] = jobq[q_head]]
          /\ popped' = Append(popped, <<c, jobq[q_head]>>)
          /\ Goto(c, "advance")
  /\ UNCHANGED <<q_lock, qVars, ap_online, event, submitted, accepted, ran>>

PopAdvance(c) ==
  /\ cpu[c].pc = "advance"
  /\ q_head' = (q_head + 1) % JOB_QUEUE
  /\ Goto(c, "popped")
  /\ UNCHANGED <<q_lock, jobq, q_tail, ap_online, event, stack, submitted, accepted, popped, ran>>

PopUnlock(c) ==
  /\ cpu[c].pc \in {"popped", "empty"}
  /\ spin_unlock(c, IF cpu[c].pc = "popped" THEN "run" ELSE "wait")
  /\ UNCHANGED <<qVars, ap_online, event, stack, submitted, accepted, popped, ran>>

\* j.fn(j.arg)
Run(c) ==
  /\ cpu[c].pc = "run"
  /\ ran' = Append(ran, <<c, stack[cpu[c].ctx]>>)
  /\ Goto(c, "loop")
  /\ UNCHANGED <<q_lock, qVars, ap_online, event, stack, submitted, accepted, popped>>

\* A wait that sets out by clearing the event: a sev before it is lost.
Bug_IdleWait(c) ==
  \/ /\ cpu[c].pc = "wait"
     /\ event' = event \ {c}
     /\ Goto(c, "asleep")
     /\ UNCHANGED <<q_lock, qVars, ap_online, stack, submitted, accepted, popped, ran>>
  \/ /\ cpu[c].pc = "asleep" /\ c \in event
     /\ event' = event \ {c}
     /\ Goto(c, "loop")
     /\ UNCHANGED <<q_lock, qVars, ap_online, stack, submitted, accepted, popped, ran>>

\* wfe: a set event register lets it through and is cleared.
IdleWait(c) ==
  /\ cpu[c].pc = "wait"
  /\ c \in event
  /\ event' = event \ {c}
  /\ Goto(c, "loop")
  /\ UNCHANGED <<q_lock, qVars, ap_online, stack, submitted, accepted, popped, ran>>

smp_main(c) ==
  \/ OnlineRead(c) \/ OnlineWrite(c) \/ PopLock(c) \/ PopCopy(c) \/ PopAdvance(c)
  \/ PopUnlock(c) \/ Run(c) \/ IdleWait(c)

smp_submit == SubmitLock \/ SubmitPut \/ SubmitUnlock \/ SubmitSev

SmpNext ==
  \/ \E c \in APS : psci_cpu_on(c) \/ smp_main(c)
  \/ SmpInitDone \/ smp_submit

\* Every core that runs keeps running; the primary finishes a submission.
SmpFairness ==
  /\ \A c \in APS : WF_smpVars(smp_main(c))
  /\ WF_smpVars(SubmitPut \/ SubmitUnlock \/ SubmitSev)

SmpSpec == SmpInit /\ [][SmpNext]_smpVars /\ SmpFairness

-----------------------------------------------------------------------------
(* Properties                                                              *)

\* Every job the ring accepted is taken by one core, once, in the order of
\* submission, whatever cores compete for it and however often the ring
\* wraps or is full (smp_submit, job_pop).
SmpTakenInOrder ==
  /\ Len(popped) <= Len(accepted)
  /\ \A i \in 1 .. Len(popped) : popped[i][2] = accepted[i]

\* No accepted job is left in the ring while all the cores sleep: the sev of
\* its submission reaches a core that has found the ring empty and has not
\* gone to sleep yet (smp_submit, AEOS_IDLE_WAIT).
SmpAllTaken ==
  \A n \in 1 .. MAX_JOBS : (Len(accepted) >= n) ~> (Len(popped) >= n)

\* A core runs the job that it popped: its local variables are on its own
\* stack (smp_entry).
SmpOwnJob ==
  \A i \in 1 .. Len(ran) : \E k \in 1 .. Len(popped) : popped[k] = ran[i]

=============================================================================
