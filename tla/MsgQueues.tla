----------------------------- MODULE MsgQueues -----------------------------
(***************************************************************************)
(* What kernel/ipc.c promises: a bounded first-in-first-out queue per      *)
(* descriptor.  A message arrives with the sender it was sent under and at *)
(* most MSG_SIZE bytes of what was sent.                                   *)
(***************************************************************************)
EXTENDS Naturals, Sequences

CONSTANTS
  QUEUES,      \* descriptors
  MAX_MSG,     \* capacity of a queue
  Message,     \* what can be stored
  Nothing      \* no message

VARIABLES
  open,        \* the descriptors in use
  fifo,        \* messages queued, oldest first
  received     \* the message the last ipc_recv delivered

qVars == <<open, fifo, received>>

QInit ==
  /\ open = [q \in QUEUES |-> FALSE]
  /\ fifo = [q \in QUEUES |-> <<>>]
  /\ received = Nothing

Create(q) ==
  /\ ~open[q]
  /\ open' = [open EXCEPT ![q] = TRUE]
  /\ fifo' = [fifo EXCEPT ![q] = <<>>]
  /\ UNCHANGED received

Destroy(q) ==
  /\ open[q]
  /\ open' = [open EXCEPT ![q] = FALSE]
  /\ fifo' = [fifo EXCEPT ![q] = <<>>]
  /\ UNCHANGED received

Send(q, m) ==
  /\ open[q]
  /\ Len(fifo[q]) < MAX_MSG
  /\ fifo' = [fifo EXCEPT ![q] = Append(@, m)]
  /\ UNCHANGED <<open, received>>

Recv(q) ==
  /\ open[q]
  /\ fifo[q] # <<>>
  /\ received' = Head(fifo[q])
  /\ fifo' = [fifo EXCEPT ![q] = Tail(@)]
  /\ UNCHANGED open

QNext ==
  \E q \in QUEUES :
    \/ Create(q)
    \/ Destroy(q)
    \/ \E m \in Message : Send(q, m)
    \/ Recv(q)

QSpec == QInit /\ [][QNext]_qVars
=============================================================================
