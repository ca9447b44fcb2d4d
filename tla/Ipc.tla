-------------------------------- MODULE Ipc --------------------------------
(***************************************************************************)
(* kernel/ipc.c: message queues as ring buffers.  A call runs to its end   *)
(* without a switch.  Rejected calls return an error and change nothing:   *)
(* they are the steps that are not there.  A message without data keeps    *)
(* the bytes of its predecessor in the ring slot and only gets len 0.      *)
(***************************************************************************)
EXTENDS Naturals, Sequences

CONSTANTS
  IPC_MAX_QUEUES,    \* 8
  IPC_MAX_MSG,       \* 16
  IPC_MSG_SIZE,      \* 64
  Payloads,          \* what callers put into their buffers
  LENS,              \* lengths they pass
  Senders,
  NULL               \* no buffer

ASSUME IpcAssumption ==
  /\ IPC_MAX_QUEUES \in Nat \ {0}
  /\ IPC_MAX_MSG \in Nat \ {0}
  /\ IPC_MSG_SIZE \in Nat \ {0}
  /\ LENS \subseteq Nat
  /\ NULL \notin Payloads

Queues == 0 .. IPC_MAX_QUEUES - 1
Cells  == 0 .. IPC_MAX_MSG - 1

ipc_msg_t == [data : Payloads \cup {NULL}, len : 0 .. IPC_MSG_SIZE,
              sender : Senders \cup {NULL}]

VARIABLES
  in_use, head, tail, count,    \* one of each per queue
  queue,                        \* the rings
  delivered                     \* what the last ipc_recv handed out

vars == <<in_use, head, tail, count, queue, delivered>>

Blank == [data |-> NULL, len |-> 0, sender |-> NULL]

\* The static array starts zeroed.
ipc_init ==
  /\ in_use = [q \in Queues |-> FALSE]
  /\ head = [q \in Queues |-> 0]
  /\ tail = [q \in Queues |-> 0]
  /\ count = [q \in Queues |-> 0]
  /\ queue = [q \in Queues |-> [c \in Cells |-> Blank]]
  /\ delivered = Blank

\* The first descriptor that is not in use.
ipc_create(q) ==
  /\ ~in_use[q]
  /\ \A p \in Queues : p < q => in_use[p]
  /\ in_use' = [in_use EXCEPT ![q] = TRUE]
  /\ head' = [head EXCEPT ![q] = 0]
  /\ tail' = [tail EXCEPT ![q] = 0]
  /\ count' = [count EXCEPT ![q] = 0]
  /\ UNCHANGED <<queue, delivered>>

CopyLen(data, len) ==
  IF data = NULL THEN 0 ELSE IF len > IPC_MSG_SIZE THEN IPC_MSG_SIZE ELSE len

\* The message as the ring stores it over what the cell held before.
Stored(old, data, len, sender) ==
  [data |-> IF CopyLen(data, len) > 0 THEN data ELSE old.data,
   len |-> CopyLen(data, len),
   sender |-> sender]

Advance(i) == (i + 1) % IPC_MAX_MSG

ipc_send(q, data, len, sender) ==
  /\ in_use[q]
  /\ count[q] < IPC_MAX_MSG
  /\ data = NULL => len = 0
  /\ queue' = [queue EXCEPT ![q][tail[q]] = Stored(@, data, len, sender)]
  /\ tail' = [tail EXCEPT ![q] = Advance(@)]
  /\ count' = [count EXCEPT ![q] = @ + 1]
  /\ UNCHANGED <<in_use, head, delivered>>

\* memcpy of len bytes: what the receiver can see of a cell.
Visible(m) == [m EXCEPT !.data = IF m.len > 0 THEN m.data ELSE NULL]

\* A receive that hands out the whole cell.
Bug_ipc_recv(q) ==
  /\ in_use[q]
  /\ count[q] > 0
  /\ delivered' = queue[q][head[q]]
  /\ head' = [head EXCEPT ![q] = Advance(@)]
  /\ count' = [count EXCEPT ![q] = @ - 1]
  /\ UNCHANGED <<in_use, tail, queue>>

ipc_recv(q) ==
  /\ in_use[q]
  /\ count[q] > 0
  /\ delivered' = Visible(queue[q][head[q]])
  /\ head' = [head EXCEPT ![q] = Advance(@)]
  /\ count' = [count EXCEPT ![q] = @ - 1]
  /\ UNCHANGED <<in_use, tail, queue>>

ipc_destroy(q) ==
  /\ in_use[q]
  /\ in_use' = [in_use EXCEPT ![q] = FALSE]
  /\ UNCHANGED <<head, tail, count, queue, delivered>>

Next ==
  \E q \in Queues :
    \/ ipc_create(q)
    \/ \E data \in Payloads \cup {NULL}, len \in LENS, sender \in Senders :
         ipc_send(q, data, len, sender)
    \/ ipc_recv(q)
    \/ ipc_destroy(q)

Spec == ipc_init /\ [][Next]_vars

(***************************************************************************)
(* Properties                                                              *)
(***************************************************************************)

TypeOK ==
  /\ in_use \in [Queues -> BOOLEAN]
  /\ head \in [Queues -> Cells]
  /\ tail \in [Queues -> Cells]
  /\ count \in [Queues -> 0 .. IPC_MAX_MSG]
  /\ queue \in [Queues -> [Cells -> ipc_msg_t]]
  /\ delivered \in ipc_msg_t

\* The ring cell k places after index i.
CellAfter(i, k) == IF i + k < IPC_MAX_MSG THEN i + k ELSE i + k - IPC_MAX_MSG

(***************************************************************************)
(* The three indices of a ring agree: tail is count places after head, so  *)
(* that a full ring and an empty one, which look alike to head and tail,   *)
(* are told apart by count alone, and a send never lands on an unread cell.*)
(***************************************************************************)
RingOK ==
  \A q \in Queues :
    in_use[q] => tail[q] = CellAfter(head[q], count[q])

(***************************************************************************)
(* The rings implement bounded FIFO queues across wrap-around, destruction *)
(* and reuse of a descriptor: every message received is the oldest one     *)
(* sent to this incarnation of the queue, cut to the message size, and no  *)
(* byte of an earlier message shows through.                               *)
(***************************************************************************)
absFifo ==
  [q \in Queues |->
     IF in_use[q]
     THEN [k \in 1 .. count[q] |-> Visible(queue[q][CellAfter(head[q], k - 1)])]
     ELSE <<>>]

Fifo == INSTANCE MsgQueues WITH
          QUEUES <- Queues, MAX_MSG <- IPC_MAX_MSG, Nothing <- Blank,
          Message <- {Stored(Blank, d, n, s) : d \in Payloads \cup {NULL},
                                               n \in LENS, s \in Senders},
          open <- in_use, fifo <- absFifo, received <- delivered

ImplementsFifo == Fifo!QSpec
=============================================================================
