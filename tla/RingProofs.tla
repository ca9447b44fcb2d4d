----------------------------- MODULE RingProofs -----------------------------
(***************************************************************************)
(* What passes through rings, for every size of them: the message queues   *)
(* of the kernel implement bounded FIFO queues, a channel of the Rust      *)
(* crate delivers every message once, the job ring of the cores gives out  *)
(* every job once and in order, ping counts only replies that came in      *)
(* time, and a request to the block device that is reported done was       *)
(* carried out.                                                            *)
(***************************************************************************)
EXTENDS Ipc, RustIpc, Smp, Net, Vblk, TLAPS

\* The time a leaf that names no prover may take
USE SMTT(60)

-----------------------------------------------------------------------------
(***************************************************************************)
(* The message queues                                                      *)
(***************************************************************************)

\* The modulo of the code is a wrap at the capacity.
LEMMA AdvanceWraps ==
  ASSUME NEW i \in Cells
  PROVE  /\ Advance(i) = CellAfter(i, 1)
         /\ Advance(i) \in Cells
BY IpcAssumption DEF Advance, CellAfter, Cells

\* The k-th cell behind the successor of a cell is the next behind the cell.
LEMMA CellAfterSucc ==
  ASSUME NEW i \in Cells, NEW k \in 0 .. IPC_MAX_MSG - 1
  PROVE  /\ CellAfter(i, k) \in Cells
         /\ CellAfter(i, k + 1) = Advance(CellAfter(i, k))
         /\ CellAfter(Advance(i), k) = CellAfter(i, k + 1)
<1>1. CellAfter(i, k) \in Cells
  BY IpcAssumption DEF CellAfter, Cells
<1>2. Advance(CellAfter(i, k)) = CellAfter(CellAfter(i, k), 1)
  BY <1>1, AdvanceWraps
<1>3. Advance(i) = CellAfter(i, 1)
  BY AdvanceWraps
<1> QED
  BY <1>1, <1>2, <1>3, IpcAssumption DEF CellAfter, Cells

\* Different distances below the capacity lead to different cells.
LEMMA CellAfterInjective ==
  ASSUME NEW i \in Cells, NEW j \in 0 .. IPC_MAX_MSG - 1,
         NEW k \in 0 .. IPC_MAX_MSG - 1, CellAfter(i, j) = CellAfter(i, k)
  PROVE  j = k
BY IpcAssumption DEF CellAfter, Cells

\* What ipc_send stores is a message.
LEMMA StoredType ==
  ASSUME NEW old \in ipc_msg_t, NEW data \in Payloads \cup {NULL},
         NEW len \in LENS, NEW sender \in Senders
  PROVE  Stored(old, data, len, sender) \in ipc_msg_t
<1>1. CopyLen(data, len) \in 0 .. IPC_MSG_SIZE
  BY IpcAssumption DEF CopyLen
<1> QED
  BY <1>1 DEF Stored, ipc_msg_t

\* What a receiver sees of a stored message does not depend on the old cell.
LEMMA StoredVisible ==
  ASSUME NEW old \in ipc_msg_t, NEW data \in Payloads \cup {NULL},
         NEW len \in LENS, NEW sender \in Senders
  PROVE  Visible(Stored(old, data, len, sender)) = Stored(Blank, data, len, sender)
BY IpcAssumption DEF Visible, Stored, Blank

\* What a receiver sees of a message is a message.
LEMMA VisibleType ==
  ASSUME NEW m \in ipc_msg_t
  PROVE  Visible(m) \in ipc_msg_t
BY DEF Visible, ipc_msg_t

-----------------------------------------------------------------------------
\* ipc_init makes rings that are empty and consistent.
LEMMA InitInv == ipc_init => TypeOK /\ RingOK
<1> SUFFICES ASSUME ipc_init
             PROVE  TypeOK /\ RingOK
  OBVIOUS
<1>1. in_use \in [Queues -> BOOLEAN]
  BY Zenon DEF ipc_init
<1>2. Blank \in ipc_msg_t
  BY IpcAssumption DEF Blank, ipc_msg_t
<1>3. 0 \in Cells /\ 0 \in 0 .. IPC_MAX_MSG
  BY IpcAssumption DEF Cells
<1>4. TypeOK
  BY <1>1, <1>2, <1>3, Zenon DEF ipc_init, TypeOK
<1>5. RingOK
  BY <1>3 DEF ipc_init, RingOK
<1> QED
  BY <1>4, <1>5

\* Every operation of ipc.c keeps head, tail and count in agreement.
LEMMA NextInv == TypeOK /\ RingOK /\ [Next]_vars => TypeOK' /\ RingOK'
<1> SUFFICES ASSUME TypeOK, RingOK, [Next]_vars
             PROVE  TypeOK' /\ RingOK'
  BY Zenon
<1> USE DEF TypeOK, RingOK
<1>1. ASSUME NEW q \in Queues, ipc_create(q)
      PROVE  TypeOK' /\ RingOK'
  BY <1>1, IpcAssumption DEF ipc_create, Cells, CellAfter
<1>2. ASSUME NEW q \in Queues, NEW data \in Payloads \cup {NULL},
             NEW len \in LENS, NEW sender \in Senders,
             ipc_send(q, data, len, sender)
      PROVE  TypeOK' /\ RingOK'
  <2>1. count[q] \in 0 .. IPC_MAX_MSG - 1 /\ count[q] + 1 \in 0 .. IPC_MAX_MSG
    BY <1>2, IpcAssumption DEF ipc_send
  <2>2. Stored(queue[q][tail[q]], data, len, sender) \in ipc_msg_t
    BY StoredType, Zenon
  <2>3. Advance(tail[q]) \in Cells
    BY AdvanceWraps, Zenon
  <2>4. Advance(tail[q]) = CellAfter(head[q], count[q] + 1)
    BY <1>2, <2>1, CellAfterSucc DEF ipc_send
  <2>5. TypeOK'
    BY <1>2, <2>1, <2>2, <2>3, Zenon DEF ipc_send
  <2>6. RingOK'
    BY <1>2, <2>4, Zenon DEF ipc_send
  <2> QED
    BY <2>5, <2>6, Zenon
<1>3. ASSUME NEW q \in Queues, ipc_recv(q)
      PROVE  TypeOK' /\ RingOK'
  <2>1. count[q] - 1 \in 0 .. IPC_MAX_MSG - 1
    BY <1>3, IpcAssumption DEF ipc_recv
  <2>2. Advance(head[q]) \in Cells
    BY AdvanceWraps, Zenon
  <2>3. CellAfter(Advance(head[q]), count[q] - 1) = CellAfter(head[q], count[q])
    BY <2>1, CellAfterSucc
  <2>4. Visible(queue[q][head[q]]) \in ipc_msg_t
    BY VisibleType, Zenon
  <2>5. TypeOK'
    BY <1>3, <2>1, <2>2, <2>4, IpcAssumption DEF ipc_recv
  <2>6. RingOK'
    BY <1>3, <2>3, Zenon DEF ipc_recv
  <2> QED
    BY <2>5, <2>6, Zenon
<1>4. ASSUME NEW q \in Queues, ipc_destroy(q)
      PROVE  TypeOK' /\ RingOK'
  BY <1>4, Zenon DEF ipc_destroy
<1>5. CASE UNCHANGED vars
  BY <1>5 DEF vars
<1> QED
  BY <1>1, <1>2, <1>3, <1>4, <1>5, Zenon DEF Next

\* Types, and the agreement of head, tail and count in every open ring.
THEOREM RingInvariant == Spec => [](TypeOK /\ RingOK)
BY InitInv, NextInv, PTL DEF Spec

-----------------------------------------------------------------------------
(* The refinement: the queue a ring stands for.                            *)

\* The queue a ring stands for has its messages from head on.
LEMMA FifoShape ==
  ASSUME TypeOK, NEW q \in Queues
  PROVE  /\ absFifo[q] \in Seq(ipc_msg_t)
         /\ in_use[q] => Len(absFifo[q]) = count[q]
         /\ in_use[q] => \A k \in 1 .. count[q] :
              absFifo[q][k] = Visible(queue[q][CellAfter(head[q], k - 1)])
<1>1. CASE in_use[q]
  <2>1. absFifo[q] = [k \in 1 .. count[q] |->
                        Visible(queue[q][CellAfter(head[q], k - 1)])]
    BY <1>1 DEF absFifo
  <2>2. \A k \in 1 .. count[q] : k - 1 \in 0 .. IPC_MAX_MSG - 1
    BY IpcAssumption DEF TypeOK
  <2>3. \A k \in 1 .. count[q] :
          Visible(queue[q][CellAfter(head[q], k - 1)]) \in ipc_msg_t
    BY <2>2, CellAfterSucc, VisibleType, Zenon DEF TypeOK
  <2>4. count[q] \in Nat
    BY DEF TypeOK
  <2> QED
    BY <1>1, <2>1, <2>3, <2>4
<1>2. CASE ~in_use[q]
  <2>1. absFifo[q] = <<>>
    BY <1>2 DEF absFifo
  <2> QED
    BY <1>2, <2>1
<1> QED
  BY <1>1, <1>2, Zenon

\* A step that leaves a queue's ring alone leaves its fifo alone.
LEMMA FifoFrame ==
  ASSUME TypeOK, NEW q \in Queues,
         in_use'[q] = in_use[q], head'[q] = head[q], count'[q] = count[q],
         queue'[q] = queue[q]
  PROVE  absFifo'[q] = absFifo[q]
BY Zenon DEF absFifo

\* A change of one ring is a change of one abstract queue.
LEMMA FifoUpdate ==
  ASSUME TypeOK, NEW q \in Queues, NEW f, absFifo'[q] = f,
         \A p \in Queues \ {q} : absFifo'[p] = absFifo[p]
  PROVE  absFifo' = [absFifo EXCEPT ![q] = f]
BY ZenonT(60) DEF absFifo

\* ipc_create is the creation of an abstract queue.
LEMMA CreateStep ==
  ASSUME TypeOK, NEW q \in Queues, ipc_create(q)
  PROVE  Fifo!Create(q)
<1> USE DEF TypeOK
<1>1. \A p \in Queues \ {q} : absFifo'[p] = absFifo[p]
  BY FifoFrame, Zenon DEF ipc_create
<1>2. absFifo'[q] = <<>>
  <2>1. in_use'[q] /\ count'[q] = 0
    BY DEF ipc_create
  <2>2. absFifo'[q] = [k \in 1 .. 0 |->
                         Visible(queue'[q][CellAfter(head'[q], k - 1)])]
    BY <2>1, Zenon DEF absFifo
  <2> QED
    BY <2>2
<1>3. absFifo' = [absFifo EXCEPT ![q] = <<>>]
  BY <1>1, <1>2, FifoUpdate, Zenon
<1> QED
  BY <1>3 DEF Fifo!Create, ipc_create

\* ipc_destroy is the destruction of an abstract queue.
LEMMA DestroyStep ==
  ASSUME TypeOK, NEW q \in Queues, ipc_destroy(q)
  PROVE  Fifo!Destroy(q)
<1> USE DEF TypeOK
<1>1. \A p \in Queues \ {q} : absFifo'[p] = absFifo[p]
  BY FifoFrame, Zenon DEF ipc_destroy
<1>2. absFifo'[q] = <<>>
  BY Zenon DEF ipc_destroy, absFifo
<1>3. absFifo' = [absFifo EXCEPT ![q] = <<>>]
  BY <1>1, <1>2, FifoUpdate
<1> QED
  BY <1>3 DEF Fifo!Destroy, ipc_destroy

\* The new message goes behind the others and overwrites none of them.
LEMMA SendStep ==
  ASSUME TypeOK, RingOK, TypeOK', NEW q \in Queues,
         NEW data \in Payloads \cup {NULL}, NEW len \in LENS,
         NEW sender \in Senders, ipc_send(q, data, len, sender)
  PROVE  Fifo!Send(q, Stored(Blank, data, len, sender))
<1> DEFINE m == Stored(Blank, data, len, sender)
<1>1. \A p \in Queues \ {q} : absFifo'[p] = absFifo[p]
  BY FifoFrame DEF ipc_send, TypeOK
<1>2. /\ in_use[q] /\ in_use'[q]
      /\ count[q] \in 0 .. IPC_MAX_MSG - 1 /\ count'[q] = count[q] + 1
      /\ head'[q] = head[q] /\ head[q] \in Cells
      /\ tail[q] = CellAfter(head[q], count[q])
  BY IpcAssumption DEF ipc_send, TypeOK, RingOK
<1>3. queue'[q] = [queue[q] EXCEPT ![tail[q]] =
                     Stored(queue[q][tail[q]], data, len, sender)]
  BY DEF ipc_send, TypeOK
<1>4. absFifo'[q] = Append(absFifo[q], m)
  <2>1. /\ absFifo[q] \in Seq(ipc_msg_t) /\ Len(absFifo[q]) = count[q]
        /\ \A k \in 1 .. count[q] :
              absFifo[q][k] = Visible(queue[q][CellAfter(head[q], k - 1)])
    BY <1>2, FifoShape, Zenon
  <2>2. absFifo'[q] = [k \in 1 .. count[q] + 1 |->
                         Visible(queue'[q][CellAfter(head[q], k - 1)])]
    BY <1>2, Zenon DEF absFifo
  <2>3. ASSUME NEW k \in 1 .. count[q]
        PROVE  Visible(queue'[q][CellAfter(head[q], k - 1)]) = absFifo[q][k]
    <3>1. k - 1 \in 0 .. IPC_MAX_MSG - 1 /\ k - 1 # count[q]
      BY <1>2, IpcAssumption
    <3>2. CellAfter(head[q], k - 1) # tail[q]
      BY <1>2, <3>1, CellAfterInjective, Zenon
    <3>3. CellAfter(head[q], k - 1) \in Cells
      BY <1>2, <3>1, CellAfterSucc, Zenon
    <3>4. queue'[q][CellAfter(head[q], k - 1)]
            = queue[q][CellAfter(head[q], k - 1)]
      BY <1>3, <3>2, <3>3, Zenon DEF TypeOK
    <3> QED
      BY <2>1, <3>4, Zenon
  <2>4. Visible(queue'[q][CellAfter(head[q], count[q])]) = m
    <3>1. tail[q] \in Cells /\ queue[q][tail[q]] \in ipc_msg_t
      BY Zenon DEF TypeOK
    <3>2. queue'[q][tail[q]] = Stored(queue[q][tail[q]], data, len, sender)
      BY <1>3, <3>1 DEF TypeOK
    <3> QED
      BY <1>2, <3>1, <3>2, StoredVisible
  <2>5. Append(absFifo[q], m) =
          [k \in 1 .. count[q] + 1 |->
             IF k \in 1 .. count[q] THEN absFifo[q][k] ELSE m]
    <3> HIDE DEF m
    <3> QED
      BY <1>2, <2>1
  <2>6. \A k \in 1 .. count[q] + 1 : k \notin 1 .. count[q] => k - 1 = count[q]
    BY <1>2
  <2> QED
    BY <2>2, <2>3, <2>4, <2>5, <2>6, Zenon
<1>5. absFifo' = [absFifo EXCEPT ![q] = Append(absFifo[q], m)]
  BY <1>1, <1>4, FifoUpdate, Zenon
<1>6. Len(absFifo[q]) < IPC_MAX_MSG
  BY <1>2, FifoShape, IpcAssumption
<1> HIDE DEF m
<1> QED
  BY <1>2, <1>5, <1>6, Zenon DEF Fifo!Send, ipc_send, m

\* The oldest message is delivered; the others move up by one.
LEMMA RecvStep ==
  ASSUME TypeOK, NEW q \in Queues, ipc_recv(q)
  PROVE  Fifo!Recv(q)
<1>1. \A p \in Queues \ {q} : absFifo'[p] = absFifo[p]
  BY FifoFrame, Zenon DEF ipc_recv, TypeOK
<1>2. /\ in_use[q] /\ in_use'[q]
      /\ count[q] \in 1 .. IPC_MAX_MSG /\ count'[q] = count[q] - 1
      /\ head[q] \in Cells /\ head'[q] = Advance(head[q])
      /\ queue' = queue
  BY IpcAssumption DEF ipc_recv, TypeOK
<1>3. /\ absFifo[q] \in Seq(ipc_msg_t) /\ Len(absFifo[q]) = count[q]
      /\ \A k \in 1 .. count[q] :
            absFifo[q][k] = Visible(queue[q][CellAfter(head[q], k - 1)])
  BY <1>2, FifoShape, Zenon
<1>4. absFifo[q] # <<>> /\ delivered' = Head(absFifo[q])
  <2>1. CellAfter(head[q], 0) = head[q]
    BY <1>2, IpcAssumption DEF CellAfter, Cells
  <2>2. absFifo[q][1] = Visible(queue[q][head[q]])
    BY <1>2, <1>3, <2>1
  <2> QED
    BY <1>2, <1>3, <2>2 DEF ipc_recv
<1>5. absFifo'[q] = Tail(absFifo[q])
  <2>1. absFifo'[q] = [k \in 1 .. count[q] - 1 |->
                         Visible(queue[q][CellAfter(Advance(head[q]), k - 1)])]
    BY <1>2, Zenon DEF absFifo
  <2>2. ASSUME NEW k \in 1 .. count[q] - 1
        PROVE  Visible(queue[q][CellAfter(Advance(head[q]), k - 1)])
                 = absFifo[q][k + 1]
    <3>1. k - 1 \in 0 .. IPC_MAX_MSG - 1 /\ k + 1 \in 1 .. count[q]
      BY <1>2, IpcAssumption
    <3>2. CellAfter(Advance(head[q]), k - 1) = CellAfter(head[q], (k - 1) + 1)
      BY <1>2, <3>1, CellAfterSucc, Zenon
    <3>3. (k - 1) + 1 = (k + 1) - 1
      OBVIOUS
    <3> QED
      BY <1>3, <3>1, <3>2, <3>3, Zenon
  <2>3. Tail(absFifo[q]) = [k \in 1 .. count[q] - 1 |-> absFifo[q][k + 1]]
    BY <1>2, <1>3
  <2> QED
    BY <2>1, <2>2, <2>3, Zenon
<1>6. absFifo' = [absFifo EXCEPT ![q] = Tail(absFifo[q])]
  BY <1>1, <1>5, FifoUpdate, Zenon
<1> QED
  BY <1>2, <1>4, <1>6, Zenon DEF Fifo!Recv, ipc_recv

\* The rings of ipc_init are initial abstract queues.
LEMMA InitFifo == ipc_init => Fifo!QInit
<1> SUFFICES ASSUME ipc_init
             PROVE  absFifo = [q \in Queues |-> <<>>]
  BY DEF ipc_init, Fifo!QInit
<1> QED
  BY Zenon DEF ipc_init, absFifo

\* Every operation of ipc.c is one of the abstract queues, or a stutter.
LEMMA NextFifo ==
  TypeOK /\ RingOK /\ TypeOK' /\ [Next]_vars => [Fifo!QNext]_Fifo!qVars
<1> SUFFICES ASSUME TypeOK, RingOK, TypeOK', [Next]_vars
             PROVE  [Fifo!QNext]_Fifo!qVars
  BY Zenon
<1>1. ASSUME NEW q \in Queues, ipc_create(q)
      PROVE  Fifo!QNext
  BY <1>1, CreateStep DEF Fifo!QNext
<1>2. ASSUME NEW q \in Queues, NEW data \in Payloads \cup {NULL},
             NEW len \in LENS, NEW sender \in Senders,
             ipc_send(q, data, len, sender)
      PROVE  Fifo!QNext
  <2>1. Fifo!Send(q, Stored(Blank, data, len, sender))
    BY <1>2, SendStep, Zenon
  <2> QED
    BY <2>1 DEF Fifo!QNext
<1>3. ASSUME NEW q \in Queues, ipc_recv(q)
      PROVE  Fifo!QNext
  BY <1>3, RecvStep DEF Fifo!QNext
<1>4. ASSUME NEW q \in Queues, ipc_destroy(q)
      PROVE  Fifo!QNext
  BY <1>4, DestroyStep DEF Fifo!QNext
<1>5. CASE UNCHANGED vars
  BY <1>5 DEF vars, Fifo!qVars, absFifo
<1> QED
  BY <1>1, <1>2, <1>3, <1>4, <1>5, Zenon DEF Next

\* The ring buffers implement bounded FIFO queues.
THEOREM FifoRefinement == Spec => ImplementsFifo
BY InitFifo, NextFifo, RingInvariant, PTL
   DEF Spec, ImplementsFifo, Fifo!QSpec

-----------------------------------------------------------------------------
(***************************************************************************)
(* Channels                                                                *)
(***************************************************************************)

\* A created channel.
RiChannel == [used : {TRUE}, config : ChannelConfig,
              queue : Seq([nr : Nat, size : Nat]),
              messages_sent : Nat, messages_received : Nat, closed : BOOLEAN]

\* What RiExactlyOnce says of one channel.
RiRight(ch) ==
  IF ch.closed THEN ch.queue = <<>>
  ELSE /\ Len(ch.queue) = ch.messages_sent - ch.messages_received
       /\ ch.config.bounded => Len(ch.queue) <= ch.config.max_messages
       /\ \A i \in 1 .. Len(ch.queue) :
            /\ ch.queue[i].nr = ch.messages_received + i
            /\ ch.queue[i].size <= ch.config.max_message_size

RiInv ==
  /\ riChannels = [c \in ChannelIds |-> riChannels[c]]
  /\ \A c \in ChannelIds :
       \/ riChannels[c] = [used |-> FALSE]
       \/ riChannels[c] \in RiChannel /\ RiRight(riChannels[c])

\* A step that gives one channel a right state keeps the invariant.
LEMMA RiOneChannel ==
  ASSUME RiInv, NEW c \in ChannelIds, NEW ch \in RiChannel, RiRight(ch),
         riChannels' = [riChannels EXCEPT ![c] = ch]
  PROVE  RiInv'
<1>1. \A d \in ChannelIds : riChannels'[d] = IF d = c THEN ch ELSE riChannels[d]
  BY DEF RiInv
<1>2. riChannels' = [d \in ChannelIds |-> riChannels'[d]]
  BY DEF RiInv
<1>3. ASSUME NEW d \in ChannelIds
      PROVE  \/ riChannels'[d] = [used |-> FALSE]
             \/ riChannels'[d] \in RiChannel /\ RiRight(riChannels'[d])
  BY <1>1, Zenon DEF RiInv
<1> QED
  BY <1>2, <1>3, Zenon DEF RiInv, RiRight

\* A new channel is empty (create_channel).
LEMMA RiCreateKeeps ==
  ASSUME RiInv, NEW config \in ChannelConfig, create_channel(config)
  PROVE  RiInv'
<1>1. PICK c \in ChannelIds : riChannels' = [riChannels EXCEPT ![c] = Channel(config)]
  BY Zenon DEF create_channel
<1>2. Channel(config) \in RiChannel
  BY DEF Channel, RiChannel
<1>3. RiRight(Channel(config))
  <2>1. config.max_messages \in Nat
    BY RustIpcAssumption, Zenon DEF ChannelConfig
  <2> QED
    BY <2>1 DEF Channel, RiRight
<1> QED
  BY <1>1, <1>2, <1>3, RiOneChannel, Zenon

\* The message that is sent is the next number, and there is room (send).
LEMMA RiSendKeeps ==
  ASSUME RiInv, NEW c \in ChannelIds, NEW size \in MessageSizes, send(c, size)
  PROVE  RiInv'
<1> DEFINE ch == riChannels[c]
           m == [nr |-> ch.messages_sent + 1, size |-> size]
           new == [ch EXCEPT !.queue = Append(@, m), !.messages_sent = @ + 1]
<1>1. ch \in RiChannel /\ RiRight(ch)
  BY DEF RiInv, send
<1>2. size \in Nat /\ m \in [nr : Nat, size : Nat]
  <2>1. size \in Nat
    BY RustIpcAssumption DEF MessageSizes
  <2>2. ch.messages_sent \in Nat
    BY <1>1, Zenon DEF RiChannel
  <2> QED
    BY <2>1, <2>2
<1>3. riChannels' = [riChannels EXCEPT ![c] = new]
  BY Zenon DEF send, RiInv
<1>4. new \in RiChannel
  <2>1. Append(ch.queue, m) \in Seq([nr : Nat, size : Nat]) /\ ch.messages_sent + 1 \in Nat
    <3>1. ch.queue \in Seq([nr : Nat, size : Nat]) /\ ch.messages_sent \in Nat
      BY <1>1, Zenon DEF RiChannel
    <3> HIDE DEF ch, m
    <3> QED
      BY <1>2, <3>1
  <2> QED
    BY <1>1, <2>1, Zenon DEF RiChannel
<1>5. /\ new.queue = Append(ch.queue, m) /\ new.messages_sent = ch.messages_sent + 1
      /\ new.messages_received = ch.messages_received
      /\ new.config = ch.config /\ new.closed = ch.closed
  BY <1>1 DEF RiChannel
<1>6. /\ ch.queue \in Seq([nr : Nat, size : Nat]) /\ ch.messages_sent \in Nat
      /\ ch.messages_received \in Nat /\ ch.config.max_messages \in Nat
      /\ ch.config.max_message_size \in Nat
  BY <1>1, RustIpcAssumption, Zenon DEF RiChannel, ChannelConfig
<1>7. ~ch.closed /\ size <= ch.config.max_message_size
      /\ (ch.config.bounded => Len(ch.queue) < ch.config.max_messages)
  BY Zenon DEF send, Accepts
<1>8. Len(ch.queue) = ch.messages_sent - ch.messages_received /\ Len(ch.queue) \in Nat
  BY <1>1, <1>6, <1>7 DEF RiRight
<1>9. Len(new.queue) = Len(ch.queue) + 1
  BY <1>2, <1>5, <1>6
<1>10. ASSUME NEW i \in 1 .. Len(new.queue)
       PROVE  /\ new.queue[i].nr = ch.messages_received + i
              /\ new.queue[i].size <= ch.config.max_message_size
  <2>1. CASE i \in 1 .. Len(ch.queue)
    <3>1. new.queue[i] = ch.queue[i]
      BY <1>2, <1>5, <1>6, <2>1
    <3> QED
      BY <1>1, <1>7, <2>1, <3>1, Zenon DEF RiRight
  <2>2. CASE i = Len(ch.queue) + 1
    <3>1. new.queue[i] = m
      BY <1>2, <1>5, <1>6, <2>2
    <3>2. m.nr = ch.messages_sent + 1 /\ m.size = size
      OBVIOUS
    <3> HIDE DEF m, ch, new
    <3> QED
      BY <1>6, <1>7, <1>8, <2>2, <3>1, <3>2
  <2> QED
    BY <1>8, <1>9, <2>1, <2>2
<1>11. RiRight(new)
  <2> HIDE DEF ch, new
  <2>1. Len(new.queue) = new.messages_sent - new.messages_received
    BY <1>5, <1>6, <1>8, <1>9
  <2>2. ASSUME ch.config.bounded
        PROVE  Len(new.queue) <= ch.config.max_messages
    <3>1. Len(ch.queue) < ch.config.max_messages
      BY <1>7, <2>2
    <3> QED
      BY <1>6, <1>8, <1>9, <3>1
  <2> QED
    BY <1>5, <1>7, <1>10, <2>1, <2>2, Zenon DEF RiRight
<1> QED
  BY <1>3, <1>4, <1>11, RiOneChannel, Zenon

\* The message received is the first, and the rest move up (receive).
LEMMA RiReceiveKeeps ==
  ASSUME RiInv, NEW c \in ChannelIds, receive(c)
  PROVE  RiInv'
<1> DEFINE ch == riChannels[c]
           new == [ch EXCEPT !.queue = Tail(@), !.messages_received = @ + 1]
<1>1. ch \in RiChannel /\ RiRight(ch)
  BY DEF RiInv, receive
<1>2. /\ ch.queue \in Seq([nr : Nat, size : Nat]) /\ ch.messages_sent \in Nat
      /\ ch.messages_received \in Nat /\ ch.config.max_messages \in Nat
      /\ ch.queue # <<>> /\ ~ch.closed
  BY <1>1, RustIpcAssumption, Zenon DEF RiChannel, ChannelConfig, receive
<1>3. riChannels' = [riChannels EXCEPT ![c] = new]
  BY Zenon DEF receive, RiInv
<1>4. new \in RiChannel
  <2>1. Tail(ch.queue) \in Seq([nr : Nat, size : Nat]) /\ ch.messages_received + 1 \in Nat
    BY <1>2
  <2> QED
    BY <1>1, <2>1, Zenon DEF RiChannel
<1>5. /\ new.queue = Tail(ch.queue) /\ new.messages_sent = ch.messages_sent
      /\ new.messages_received = ch.messages_received + 1
      /\ new.config = ch.config /\ new.closed = ch.closed
  BY <1>1 DEF RiChannel
<1>6. /\ Len(ch.queue) \in Nat \ {0} /\ Len(new.queue) = Len(ch.queue) - 1
      /\ \A i \in 1 .. Len(new.queue) : new.queue[i] = ch.queue[i + 1]
  BY <1>2, <1>5
<1>7. Len(ch.queue) = ch.messages_sent - ch.messages_received
  BY <1>1, <1>2, Zenon DEF RiRight
<1>8. RiRight(new)
  <2> HIDE DEF ch, new
  <2>1. Len(new.queue) = new.messages_sent - new.messages_received
    BY <1>2, <1>5, <1>6, <1>7
  <2>2. new.config.bounded => Len(new.queue) <= new.config.max_messages
    BY <1>1, <1>2, <1>5, <1>6 DEF RiRight
  <2>3. ASSUME NEW i \in 1 .. Len(new.queue)
        PROVE  /\ new.queue[i].nr = new.messages_received + i
               /\ new.queue[i].size <= new.config.max_message_size
    <3>1. i + 1 \in 1 .. Len(ch.queue) /\ i \in Nat /\ new.queue[i] = ch.queue[i + 1]
      BY <1>6
    <3>2. /\ ch.queue[i + 1].nr = ch.messages_received + (i + 1)
          /\ ch.queue[i + 1].size <= ch.config.max_message_size
      BY <1>1, <1>2, <3>1, Zenon DEF RiRight
    <3>3. /\ new.messages_received = ch.messages_received + 1
          /\ new.config = ch.config
      BY <1>5, Zenon
    <3>4. ch.messages_received + (i + 1) = (ch.messages_received + 1) + i
      <4>1. ch.messages_received \in Nat
        BY <1>2
      <4> QED
        BY <3>1, <4>1
    <3> QED
      BY <3>1, <3>2, <3>3, <3>4, Zenon
  <2> QED
    BY <1>2, <1>5, <2>1, <2>2, <2>3, Zenon DEF RiRight
<1> QED
  BY <1>3, <1>4, <1>8, RiOneChannel, Zenon

\* A closed channel is empty (close).
LEMMA RiCloseKeeps ==
  ASSUME RiInv, NEW c \in ChannelIds, close(c)
  PROVE  RiInv'
<1> DEFINE ch == riChannels[c]
           new == [ch EXCEPT !.closed = TRUE, !.queue = <<>>]
<1>1. ch \in RiChannel
  BY DEF RiInv, close
<1>2. riChannels' = [riChannels EXCEPT ![c] = new]
  BY Zenon DEF close, RiInv
<1>3. new.closed /\ new.queue = <<>>
  BY <1>1 DEF RiChannel
<1>4. <<>> \in Seq([nr : Nat, size : Nat])
  OBVIOUS
<1>5. new \in RiChannel
  BY <1>1, <1>4, Zenon DEF RiChannel
<1> QED
  BY <1>2, <1>3, <1>5, RiOneChannel, Zenon DEF RiRight

(***************************************************************************)
(* For every number of channels, capacity and size limit: a message sent   *)
(* to a channel of the crate is received once and in order, and a bounded  *)
(* channel never holds more than it was made for (send, receive, close).   *)
(***************************************************************************)
THEOREM ChannelsExactlyOnce == RiSpec => []RiExactlyOnce
<1>1. RiInit => RiInv
  BY DEF RiInit, RiInv
<1>2. RiInv /\ [RiNext]_riVars => RiInv'
  <2> SUFFICES ASSUME RiInv, [RiNext]_riVars
               PROVE  RiInv'
    BY Zenon
  <2>1. CASE RiSetUp \/ UNCHANGED riVars
    <3>1. riChannels' = riChannels
      BY <2>1, Zenon DEF RiSetUp, riVars
    <3> QED
      BY <3>1 DEF RiInv, RiRight
  <2> QED
    BY <2>1, RiCreateKeeps, RiSendKeeps, RiReceiveKeeps, RiCloseKeeps, Zenon DEF RiNext
<1>3. RiInv => RiExactlyOnce
  BY DEF RiInv, RiExactlyOnce, RiRight
<1> QED
  BY <1>1, <1>2, <1>3, PTL DEF RiSpec

-----------------------------------------------------------------------------
(***************************************************************************)
(* The job ring: the lock excludes, and every job that the ring accepted   *)
(* is taken once and in order.                                             *)
(***************************************************************************)

Cpus == APS \cup {Primary}
JobCells == 0 .. JOB_QUEUE - 1
Bits == 0 .. 31

PrimaryPoints == {"boot", "idle", "put", "unlock", "dropped", "sev"}
CorePoints == {"off", "start", "online", "loop", "pop", "advance", "popped", "empty",
               "run", "wait"}

\* The points between spin_lock and spin_unlock
Critical == {"put", "unlock", "dropped", "pop", "advance", "popped", "empty"}

SmpTypeOK ==
  /\ q_lock \in Cpus \cup {Nobody}
  /\ jobq \in [JobCells -> Nat]
  /\ q_head \in JobCells /\ q_tail \in JobCells
  /\ ap_online \in SUBSET Bits
  /\ cpu \in [Cpus -> [pc : PrimaryPoints \cup CorePoints, ctx : {0}, r : SUBSET Bits]]
  /\ cpu[Primary].pc \in PrimaryPoints
  /\ \A c \in APS : cpu[c].pc \in CorePoints
  /\ stack \in [0 .. 0 -> Nat]
  /\ submitted \in Nat
  /\ accepted \in Seq(Nat)
  /\ popped \in Seq(APS \X Nat)

LockHeld == \A c \in Cpus : cpu[c].pc \in Critical => q_lock = c

JobAfter(i, k) == IF i + k < JOB_QUEUE THEN i + k ELSE i + k - JOB_QUEUE

\* The ring holds the accepted jobs behind the first `done` ones.
Ring(done) ==
  /\ done <= Len(accepted) /\ Len(accepted) - done < JOB_QUEUE
  /\ q_tail = JobAfter(q_head, Len(accepted) - done)
  /\ \A k \in 1 .. Len(accepted) - done :
       jobq[JobAfter(q_head, k - 1)] = accepted[done + k]

\* A core has copied a job and not yet moved the head.
Advancing == \E c \in APS : cpu[c].pc = "advance"

RingInv ==
  /\ ~Advancing => Ring(Len(popped))
  /\ Advancing => /\ Len(popped) >= 1 /\ Len(popped) <= Len(accepted)
                  /\ Ring(Len(popped) - 1)

SmpInv == SmpTypeOK /\ LockHeld /\ RingInv /\ SmpTakenInOrder

-----------------------------------------------------------------------------
(* Cells and program points                                                *)

\* The successor of a cell of the ring is a cell.
LEMMA NextCell ==
  ASSUME NEW i \in JobCells
  PROVE  /\ (i + 1) % JOB_QUEUE = JobAfter(i, 1)
         /\ (i + 1) % JOB_QUEUE \in JobCells
BY SmpAssumption DEF JobAfter, JobCells

\* The k-th cell behind the successor of a cell is the next behind the cell.
LEMMA JobAfterSucc ==
  ASSUME NEW i \in JobCells, NEW k \in 0 .. JOB_QUEUE - 1
  PROVE  /\ JobAfter(i, k) \in JobCells
         /\ JobAfter(i, k + 1) = JobAfter(JobAfter(i, k), 1)
         /\ JobAfter(JobAfter(i, 1), k) = JobAfter(i, k + 1)
BY SmpAssumption DEF JobAfter, JobCells

\* Different distances below the size lead to different cells.
LEMMA JobAfterInjective ==
  ASSUME NEW i \in JobCells, NEW j \in 0 .. JOB_QUEUE - 1, NEW k \in 0 .. JOB_QUEUE - 1,
         JobAfter(i, j) = JobAfter(i, k)
  PROVE  j = k
BY SmpAssumption DEF JobAfter, JobCells

\* The shift of a 32-bit word is taken modulo its width.
LEMMA BitInWord == \A x \in Int : x % 32 \in Bits
BY DEF Bits

\* The primary core is none of the secondary ones, and Nobody is no core.
LEMMA CoresApart ==
  /\ Primary \in Cpus /\ Primary \notin APS
  /\ Nobody \notin Cpus /\ APS \subseteq Cpus
BY SmpAssumption DEF Primary, Nobody, Cpus

\* Processor c goes to point p; the others stay where they are.
Moves(c, p) ==
  /\ cpu' \in [Cpus -> [pc : PrimaryPoints \cup CorePoints, ctx : {0}, r : SUBSET Bits]]
  /\ cpu'[c].pc = p
  /\ \A d \in Cpus \ {c} : cpu'[d].pc = cpu[d].pc

\* A step moves the core that makes it and no other.
LEMMA GotoMoves ==
  ASSUME SmpTypeOK, NEW c \in Cpus, NEW p \in PrimaryPoints \cup CorePoints, Goto(c, p)
  PROVE  Moves(c, p)
BY Zenon DEF SmpTypeOK, Goto, Moves

-----------------------------------------------------------------------------
(* The inductive invariant                                                 *)

\* At boot the lock is free and the ring is empty.
LEMMA SmpInitInv == SmpInit => SmpInv
<1> SUFFICES ASSUME SmpInit
             PROVE  SmpInv
  OBVIOUS
<1>1. SmpTypeOK
  BY SmpAssumption, CoresApart
     DEF SmpInit, SmpTypeOK, JobCells, Cpus, NoJob, PrimaryPoints, CorePoints, Bits
<1>2. LockHeld
  BY Zenon DEF SmpInit, LockHeld, Critical, Cpus
<1>3. ~Advancing
  BY CoresApart, Zenon DEF SmpInit, Advancing
<1>4. Ring(Len(popped))
  BY SmpAssumption DEF SmpInit, Ring, JobAfter
<1>5. SmpTakenInOrder
  BY DEF SmpInit, SmpTakenInOrder
<1> QED
  BY <1>1, <1>2, <1>3, <1>4, <1>5 DEF SmpInv, RingInv

\* While a processor is between lock and unlock, no other is.
LEMMA Alone ==
  ASSUME SmpTypeOK, LockHeld, NEW c \in Cpus, cpu[c].pc \in Critical
  PROVE  \A d \in Cpus \ {c} : cpu[d].pc \notin Critical
BY DEF LockHeld

\* A step that leaves the ring alone and starts or ends no advance
LEMMA RingKept ==
  ASSUME SmpInv, UNCHANGED <<qVars, accepted, popped>>, Advancing' <=> Advancing
  PROVE  RingInv' /\ SmpTakenInOrder'
BY Zenon DEF SmpInv, RingInv, Ring, SmpTakenInOrder, qVars, JobAfter

\* Where the processors are, and who holds the lock, after a step of one of
\* them that keeps, takes or gives up the lock
LEMMA PointsKept ==
  ASSUME SmpTypeOK, LockHeld, NEW c \in Cpus, NEW p, Moves(c, p),
         p \in (IF c = Primary THEN PrimaryPoints ELSE CorePoints),
         \/ UNCHANGED q_lock /\ (p \in Critical => cpu[c].pc \in Critical)
         \/ q_lock = Nobody /\ q_lock' = c
         \/ cpu[c].pc \in Critical /\ q_lock' = Nobody /\ p \notin Critical
  PROVE  /\ cpu'[Primary].pc \in PrimaryPoints
         /\ \A d \in APS : cpu'[d].pc \in CorePoints
         /\ q_lock' \in Cpus \cup {Nobody}
         /\ LockHeld'
<1>1. /\ cpu'[Primary].pc \in PrimaryPoints
      /\ \A d \in APS : cpu'[d].pc \in CorePoints
  BY CoresApart, Zenon DEF SmpTypeOK, Cpus, Moves
<1>2. q_lock' \in Cpus \cup {Nobody}
  BY Zenon DEF SmpTypeOK
<1>3. LockHeld'
  BY CoresApart DEF LockHeld, Moves
<1> QED
  BY <1>1, <1>2, <1>3, Zenon

\* A step that neither copies a job nor moves q_head leaves Advancing alone.
LEMMA AdvancingKept ==
  ASSUME NEW c \in Cpus, NEW p, Moves(c, p), p # "advance", cpu[c].pc # "advance"
  PROVE  Advancing' <=> Advancing
BY CoresApart, Zenon DEF Moves, Advancing

\* The steps that leave the ring alone: where they lead is all there is.
LEMMA QuietStep ==
  ASSUME SmpInv, NEW c \in Cpus, NEW p, Moves(c, p),
         p \in (IF c = Primary THEN PrimaryPoints ELSE CorePoints),
         \/ UNCHANGED q_lock /\ (p \in Critical => cpu[c].pc \in Critical)
         \/ q_lock = Nobody /\ q_lock' = c
         \/ cpu[c].pc \in Critical /\ q_lock' = Nobody /\ p \notin Critical,
         p # "advance", cpu[c].pc # "advance",
         UNCHANGED <<qVars, stack, accepted, popped>>,
         ap_online' \in SUBSET Bits, submitted' \in Nat
  PROVE  SmpInv'
<1>1. /\ cpu'[Primary].pc \in PrimaryPoints
      /\ \A d \in APS : cpu'[d].pc \in CorePoints
      /\ q_lock' \in Cpus \cup {Nobody}
      /\ LockHeld'
  BY PointsKept, Zenon DEF SmpInv
<1>2. SmpTypeOK'
  BY <1>1, Zenon DEF SmpInv, SmpTypeOK, Moves, qVars
<1>3. RingInv' /\ SmpTakenInOrder'
  BY AdvancingKept, RingKept, Zenon
<1> QED
  BY <1>1, <1>2, <1>3, Zenon DEF SmpInv

-----------------------------------------------------------------------------
(* The three steps on the ring                                             *)

\* smp_submit puts a job behind those that wait, or drops it.
LEMMA PutStep == SmpInv /\ SubmitPut => SmpInv'
<1> SUFFICES ASSUME SmpInv, SubmitPut
             PROVE  SmpInv'
  BY Zenon
<1> USE DEF SmpInv
<1>1. Primary \in Cpus /\ cpu[Primary].pc = "put"
  BY CoresApart DEF SubmitPut
<1>2. CASE Full
  <2>1. Moves(Primary, "dropped")
    BY <1>1, <1>2, GotoMoves, Zenon DEF SubmitPut, PrimaryPoints
  <2>2. UNCHANGED <<q_lock, qVars, stack, accepted, popped, ap_online, submitted>>
    BY <1>2, Zenon DEF SubmitPut
  <2> QED
    BY <1>1, <2>1, <2>2, QuietStep, Zenon DEF PrimaryPoints, Critical, SmpTypeOK
<1>3. CASE ~Full
  <2>1. Moves(Primary, "unlock")
    BY <1>1, <1>3, GotoMoves, Zenon DEF SubmitPut, PrimaryPoints
  <2>2. /\ cpu'[Primary].pc \in PrimaryPoints
        /\ \A d \in APS : cpu'[d].pc \in CorePoints
        /\ q_lock' \in Cpus \cup {Nobody}
        /\ LockHeld'
    BY <1>1, <2>1, PointsKept DEF SubmitPut, PrimaryPoints, Critical
  <2>3. /\ jobq' = [jobq EXCEPT ![q_tail] = submitted]
        /\ q_tail' = JobAfter(q_tail, 1) /\ q_tail' \in JobCells
        /\ accepted' = Append(accepted, submitted)
        /\ UNCHANGED <<q_head, ap_online, stack, submitted, popped>>
    BY <1>3, NextCell, Zenon DEF SubmitPut, SmpTypeOK
  <2>4. SmpTypeOK'
    BY <2>1, <2>2, <2>3 DEF SmpTypeOK, Moves
  <2>5. ~Advancing /\ ~Advancing'
    BY <1>1, <2>1, Alone, CoresApart, Zenon DEF Advancing, Moves, Critical, SmpTypeOK
  <2>6. /\ accepted \in Seq(Nat) /\ Len(accepted') = Len(accepted) + 1
        /\ \A k \in 1 .. Len(accepted) : accepted'[k] = accepted[k]
        /\ accepted'[Len(accepted) + 1] = submitted
    BY <2>3 DEF SmpTypeOK
  <2>7. Ring(Len(popped)) /\ Len(popped) \in Nat /\ Len(accepted) \in Nat
    BY <2>5 DEF RingInv, SmpTypeOK
  <2> DEFINE n == Len(accepted) - Len(popped)
  <2>8. n \in 0 .. JOB_QUEUE - 1 /\ q_tail = JobAfter(q_head, n)
    BY <2>7, SmpAssumption DEF Ring
  <2>9. q_tail' = JobAfter(q_head, n + 1)
    BY <2>3, <2>8, JobAfterSucc, Zenon DEF SmpTypeOK
  <2>10. n + 1 < JOB_QUEUE
    <3>1. JobAfter(q_head, n + 1) # q_head
      BY <1>3, <2>9, <2>3, <2>8, NextCell, Zenon DEF Full, SmpTypeOK
    <3> HIDE DEF n
    <3>2. q_head \in JobCells
      BY DEF SmpTypeOK
    <3>3. n # JOB_QUEUE - 1
      BY <3>1, <3>2, SmpAssumption DEF JobAfter, JobCells
    <3> QED
      BY <3>3, <2>8, SmpAssumption
  <2>11. ASSUME NEW k \in 1 .. n + 1
         PROVE  jobq'[JobAfter(q_head, k - 1)] = accepted'[Len(popped) + k]
    <3> HIDE DEF n
    <3>0. k - 1 \in 0 .. JOB_QUEUE - 1 /\ (k \in 1 .. n => k - 1 # n)
      BY <2>10, <2>8, SmpAssumption
    <3>1. JobAfter(q_head, k - 1) \in JobCells
      BY <3>0, JobAfterSucc, Zenon DEF SmpTypeOK
    <3>2. CASE k = n + 1
      BY <3>2, <2>3, <2>6, <2>7, <2>8 DEF SmpTypeOK, n
    <3>3. CASE k \in 1 .. n
      <4>1. JobAfter(q_head, k - 1) # q_tail
        BY <3>0, <3>3, <2>8, JobAfterInjective, Zenon DEF SmpTypeOK
      <4>2. jobq'[JobAfter(q_head, k - 1)] = jobq[JobAfter(q_head, k - 1)]
        BY <4>1, <3>1, <2>3, Zenon DEF SmpTypeOK
      <4>3. jobq[JobAfter(q_head, k - 1)] = accepted[Len(popped) + k]
        BY <3>3, <2>7, Zenon DEF Ring, n
      <4>4. Len(popped) + k \in 1 .. Len(accepted)
        BY <3>3, <2>7 DEF n
      <4> QED
        BY <4>2, <4>3, <4>4, <2>6, Zenon
    <3> QED
      BY <3>2, <3>3, <2>8
  <2>12. Ring(Len(popped))'
    <3>1. Len(accepted') - Len(popped') = n + 1 /\ Len(popped') <= Len(accepted')
      BY <2>3, <2>6, <2>7 DEF Ring
    <3>2. UNCHANGED <<q_head, popped>>
      BY <2>3, Zenon
    <3> HIDE DEF n
    <3> QED
      BY <3>1, <3>2, <2>9, <2>10, <2>11, Zenon DEF Ring, JobAfter
  <2>13. SmpTakenInOrder'
    BY <2>3, <2>6, <2>7 DEF SmpTakenInOrder
  <2> QED
    BY <2>2, <2>4, <2>5, <2>12, <2>13, Zenon DEF RingInv
<1> QED
  BY <1>2, <1>3

\* job_pop copies the oldest job that waits.
LEMMA CopyStep ==
  ASSUME NEW c \in APS
  PROVE  SmpInv /\ PopCopy(c) => SmpInv'
<1> SUFFICES ASSUME SmpInv, PopCopy(c)
             PROVE  SmpInv'
  BY Zenon
<1> USE DEF SmpInv
<1>1. c \in Cpus /\ c # Primary /\ cpu[c].pc = "pop"
  BY CoresApart DEF PopCopy
<1>2. CASE q_head = q_tail
  <2>1. Moves(c, "empty")
    BY <1>1, <1>2, GotoMoves, Zenon DEF PopCopy, CorePoints
  <2>2. UNCHANGED <<q_lock, qVars, stack, accepted, popped, ap_online, submitted>>
    BY <1>2, Zenon DEF PopCopy
  <2> QED
    BY <1>1, <2>1, <2>2, QuietStep, Zenon DEF CorePoints, Critical, SmpTypeOK
<1>3. CASE q_head # q_tail
  <2>1. Moves(c, "advance")
    BY <1>1, <1>3, GotoMoves, Zenon DEF PopCopy, CorePoints
  <2>2. /\ cpu'[Primary].pc \in PrimaryPoints
        /\ \A d \in APS : cpu'[d].pc \in CorePoints
        /\ q_lock' \in Cpus \cup {Nobody}
        /\ LockHeld'
    BY <1>1, <2>1, PointsKept, Zenon DEF PopCopy, CorePoints, Critical
  <2>3. /\ stack' = [stack EXCEPT ![cpu[c].ctx] = jobq[q_head]]
        /\ popped' = Append(popped, <<c, jobq[q_head]>>)
        /\ UNCHANGED <<jobq, q_head, q_tail, ap_online, submitted, accepted>>
    BY <1>3, Zenon DEF PopCopy, qVars
  <2>4. SmpTypeOK'
    BY <1>1, <2>1, <2>2, <2>3 DEF SmpTypeOK, Moves
  <2>5. ~Advancing /\ Advancing'
    <3>1. ~Advancing
      BY <1>1, Alone, CoresApart, Zenon DEF Advancing, Critical
    <3>2. Advancing'
      BY <2>1, Zenon DEF Advancing, Moves
    <3> QED
      BY <3>1, <3>2, Zenon
  <2>6. /\ popped \in Seq(APS \X Nat) /\ Len(popped') = Len(popped) + 1
        /\ \A k \in 1 .. Len(popped) : popped'[k] = popped[k]
        /\ popped'[Len(popped) + 1] = <<c, jobq[q_head]>>
    BY <2>3 DEF SmpTypeOK
  <2>7. Ring(Len(popped)) /\ Len(popped) \in Nat /\ Len(accepted) \in Nat
    BY <2>5 DEF RingInv, SmpTypeOK
  <2>8. q_head = JobAfter(q_head, 0)
    BY SmpAssumption DEF JobAfter, SmpTypeOK, JobCells
  <2>9. Len(popped) < Len(accepted)
    BY <1>3, <2>7, <2>8 DEF Ring
  <2>10. jobq[q_head] = accepted[Len(popped) + 1]
    BY <2>7, <2>8, <2>9 DEF Ring
  <2>11. Ring(Len(popped) - 1)'
    BY <2>3, <2>6, <2>7 DEF Ring, JobAfter
  <2>12. SmpTakenInOrder'
    BY <2>3, <2>6, <2>7, <2>9, <2>10 DEF SmpTakenInOrder
  <2>13. RingInv'
    BY <2>3, <2>5, <2>6, <2>7, <2>9, <2>11 DEF RingInv
  <2> QED
    BY <2>2, <2>4, <2>12, <2>13, Zenon
<1> QED
  BY <1>2, <1>3

\* job_pop gives back the cell of the job it has copied.
LEMMA AdvanceStep ==
  ASSUME NEW c \in APS
  PROVE  SmpInv /\ PopAdvance(c) => SmpInv'
<1> SUFFICES ASSUME SmpInv, PopAdvance(c)
             PROVE  SmpInv'
  OBVIOUS
<1> USE DEF SmpInv
<1>1. c \in Cpus /\ c # Primary /\ cpu[c].pc = "advance"
  BY CoresApart, Zenon DEF PopAdvance
<1>2. Moves(c, "popped")
  BY <1>1, GotoMoves DEF PopAdvance, CorePoints
<1>3. /\ cpu'[Primary].pc \in PrimaryPoints
      /\ \A d \in APS : cpu'[d].pc \in CorePoints
      /\ q_lock' \in Cpus \cup {Nobody}
      /\ LockHeld'
  BY <1>1, <1>2, PointsKept, Zenon DEF PopAdvance, CorePoints, Critical
<1>4. /\ q_head' = JobAfter(q_head, 1) /\ q_head' \in JobCells
      /\ UNCHANGED <<jobq, q_tail, ap_online, stack, submitted, accepted, popped>>
  BY NextCell, Zenon DEF PopAdvance, SmpTypeOK
<1>5. SmpTypeOK'
  BY <1>2, <1>3, <1>4, Zenon DEF SmpTypeOK, Moves
<1>6. Advancing /\ ~Advancing'
  <2>1. Advancing
    BY <1>1, Zenon DEF Advancing
  <2>2. \A d \in APS \ {c} : cpu'[d].pc # "advance"
    BY <1>1, <1>2, Alone, CoresApart, Zenon DEF Moves, Critical
  <2>3. cpu'[c].pc # "advance"
    BY <1>2, Zenon DEF Moves
  <2>4. ~Advancing'
    BY <2>2, <2>3, Zenon DEF Advancing
  <2> QED
    BY <2>1, <2>4
<1>7. /\ Len(popped) \in Nat /\ Len(accepted) \in Nat
      /\ Len(popped) >= 1 /\ Len(popped) <= Len(accepted)
      /\ Ring(Len(popped) - 1)
  BY <1>6 DEF RingInv, SmpTypeOK
<1> DEFINE n == Len(accepted) - Len(popped)
<1>8. /\ n \in 0 .. JOB_QUEUE - 2 /\ Len(accepted) - (Len(popped) - 1) = n + 1
      /\ q_tail = JobAfter(q_head, n + 1)
  BY <1>7, SmpAssumption DEF Ring
<1>9. q_tail = JobAfter(q_head', n)
  <2> HIDE DEF n
  <2>1. n \in 0 .. JOB_QUEUE - 1
    BY <1>8, SmpAssumption
  <2> QED
    BY <1>4, <1>8, <2>1, JobAfterSucc, Zenon DEF SmpTypeOK
<1>10. ASSUME NEW k \in 1 .. n
       PROVE  jobq[JobAfter(q_head', k - 1)] = accepted[Len(popped) + k]
  <2>1. k + 1 \in 1 .. Len(accepted) - (Len(popped) - 1) /\ (k + 1) - 1 = (k - 1) + 1
        /\ (Len(popped) - 1) + (k + 1) = Len(popped) + k
    BY <1>7
  <2>2. k - 1 \in 0 .. JOB_QUEUE - 1
    <3> HIDE DEF n
    <3> QED
      BY <1>8, SmpAssumption
  <2>3. JobAfter(q_head', k - 1) = JobAfter(q_head, (k + 1) - 1)
    BY <1>4, <2>1, <2>2, JobAfterSucc DEF SmpTypeOK
  <2> QED
    BY <1>7, <2>1, <2>3, Zenon DEF Ring
<1>11. Ring(Len(popped))'
  <2>1. Len(accepted') - Len(popped') = n /\ Len(popped') <= Len(accepted')
    BY <1>4, <1>7, Zenon
  <2>2. UNCHANGED <<jobq, q_tail, accepted, popped>>
    BY <1>4
  <2>3. n < JOB_QUEUE
    BY <1>8, SmpAssumption
  <2> HIDE DEF n
  <2> QED
    BY <2>1, <2>2, <2>3, <1>9, <1>10, Zenon DEF Ring, JobAfter
<1>12. SmpTakenInOrder'
  BY <1>4, Zenon DEF SmpTakenInOrder
<1> QED
  BY <1>3, <1>5, <1>6, <1>11, <1>12, Zenon DEF RingInv

-----------------------------------------------------------------------------
\* Every memory access of every core keeps the invariant.
LEMMA SmpNextInv == SmpInv /\ [SmpNext]_smpVars => SmpInv'
<1> SUFFICES ASSUME SmpInv, [SmpNext]_smpVars
             PROVE  SmpInv'
  OBVIOUS
<1>1. CASE UNCHANGED smpVars
  <2>1. Advancing' <=> Advancing
    BY <1>1 DEF smpVars, Advancing
  <2>2. RingInv' /\ SmpTakenInOrder'
    BY <1>1, <2>1, RingKept, Zenon DEF smpVars, qVars
  <2>3. SmpTypeOK' /\ LockHeld'
    BY <1>1 DEF SmpInv, SmpTypeOK, LockHeld, smpVars
  <2> QED
    BY <2>2, <2>3, Zenon DEF SmpInv
<1>2. ASSUME NEW c \in APS, psci_cpu_on(c)
      PROVE  SmpInv'
  <2>1. c \in Cpus /\ c # Primary /\ cpu[c].pc = "off"
    BY <1>2, CoresApart DEF psci_cpu_on
  <2>2. Moves(c, "start")
    BY <1>2, <2>1, Zenon DEF psci_cpu_on, Moves, SmpInv, SmpTypeOK, CorePoints
  <2> QED
    BY <1>2, <2>1, <2>2, QuietStep, Zenon DEF psci_cpu_on, CorePoints, Critical, SmpInv, SmpTypeOK
<1>3. CASE SmpInitDone \/ SubmitSev
  <2>1. Moves(Primary, "idle") /\ Primary \in Cpus
    BY <1>3, GotoMoves, CoresApart, Zenon DEF SmpInitDone, SubmitSev, PrimaryPoints, SmpInv
  <2>2. /\ cpu[Primary].pc \in {"boot", "sev"}
        /\ UNCHANGED <<q_lock, qVars, stack, accepted, popped, ap_online, submitted>>
    BY <1>3 DEF SmpInitDone, SubmitSev
  <2> QED
    BY <2>1, <2>2, QuietStep, Zenon DEF PrimaryPoints, Critical, SmpInv, SmpTypeOK
<1>4. CASE SubmitLock
  <2>1. Moves(Primary, "put") /\ Primary \in Cpus
    BY <1>4, GotoMoves, CoresApart, Zenon DEF SubmitLock, spin_lock, PrimaryPoints, SmpInv
  <2>2. /\ cpu[Primary].pc = "idle" /\ q_lock = Nobody /\ q_lock' = Primary
        /\ UNCHANGED <<qVars, stack, accepted, popped, ap_online>>
        /\ submitted' \in Nat
    BY <1>4 DEF SubmitLock, spin_lock, SmpInv, SmpTypeOK
  <2> QED
    BY <2>1, <2>2, QuietStep, Zenon DEF PrimaryPoints, SmpInv, SmpTypeOK
<1>5. CASE SubmitPut
  BY <1>5, PutStep
<1>6. CASE SubmitUnlock
  <2>1. PICK p \in {"sev", "idle"} : Moves(Primary, p) /\ Primary \in Cpus
    BY <1>6, GotoMoves, CoresApart, Zenon DEF SubmitUnlock, spin_unlock, PrimaryPoints, SmpInv
  <2>2. /\ cpu[Primary].pc \in {"unlock", "dropped"} /\ q_lock' = Nobody
        /\ UNCHANGED <<qVars, stack, accepted, popped, ap_online, submitted>>
    BY <1>6, Zenon DEF SubmitUnlock, spin_unlock
  <2> QED
    BY <2>1, <2>2, QuietStep, Zenon DEF PrimaryPoints, Critical, SmpInv, SmpTypeOK
<1>7. ASSUME NEW c \in APS, smp_main(c)
      PROVE  SmpInv'
  <2>0. c \in Cpus /\ c # Primary
    BY CoresApart
  <2>1. CASE OnlineRead(c)
    <3>1. Moves(c, "online")
      BY <2>0, <2>1, Zenon DEF OnlineRead, Moves, SmpInv, SmpTypeOK, CorePoints
    <3> QED
      BY <2>0, <2>1, <3>1, QuietStep, Zenon DEF OnlineRead, CorePoints, Critical, SmpInv, SmpTypeOK
  <2>2. CASE OnlineWrite(c)
    <3>1. Moves(c, "loop")
      BY <2>0, <2>2, GotoMoves, Zenon DEF OnlineWrite, SmpInv, CorePoints
    <3>2. ap_online' \in SUBSET Bits
      <4>1. cpu[c].ctx = 0 /\ cpu[c].r \in SUBSET Bits
        BY <2>0 DEF SmpInv, SmpTypeOK
      <4>2. cpu[c].ctx - 1 \in Int
        BY <4>1
      <4>3. (cpu[c].ctx - 1) % 32 \in Bits
        BY <4>2, BitInWord
      <4> QED
        BY <2>2, <4>1, <4>3, Zenon DEF OnlineWrite
    <3> QED
      BY <2>0, <2>2, <3>1, <3>2, QuietStep, Zenon DEF OnlineWrite, CorePoints, Critical, SmpInv, SmpTypeOK
  <2>3. CASE PopLock(c)
    <3>1. Moves(c, "pop")
      BY <2>0, <2>3, GotoMoves, Zenon DEF PopLock, spin_lock, SmpInv, CorePoints
    <3> QED
      BY <2>0, <2>3, <3>1, QuietStep, Zenon DEF PopLock, spin_lock, CorePoints, SmpInv, SmpTypeOK
  <2>4. CASE PopCopy(c)
    BY <2>4, CopyStep, Zenon
  <2>5. CASE PopAdvance(c)
    BY <2>5, AdvanceStep
  <2>6. CASE PopUnlock(c)
    <3>1. PICK p \in {"run", "wait"} : Moves(c, p)
      BY <2>0, <2>6, GotoMoves, Zenon DEF PopUnlock, spin_unlock, SmpInv, CorePoints
    <3>2. /\ cpu[c].pc \in {"popped", "empty"} /\ q_lock' = Nobody
          /\ UNCHANGED <<qVars, stack, accepted, popped, ap_online, submitted>>
      BY <2>6 DEF PopUnlock, spin_unlock
    <3> QED
      BY <2>0, <3>1, <3>2, QuietStep, Zenon DEF CorePoints, Critical, SmpInv, SmpTypeOK
  <2>7. CASE Run(c)
    <3>1. Moves(c, "loop")
      BY <2>0, <2>7, GotoMoves, Zenon DEF Run, SmpInv, CorePoints
    <3> QED
      BY <2>0, <2>7, <3>1, QuietStep, Zenon DEF Run, CorePoints, Critical, SmpInv, SmpTypeOK
  <2>8. CASE IdleWait(c)
    <3>1. Moves(c, "loop")
      BY <2>0, <2>8, GotoMoves DEF IdleWait, SmpInv, CorePoints
    <3> QED
      BY <2>0, <2>8, <3>1, QuietStep, Zenon DEF IdleWait, CorePoints, Critical, SmpInv, SmpTypeOK
  <2> QED
    BY <1>7, <2>1, <2>2, <2>3, <2>4, <2>5, <2>6, <2>7, <2>8, Zenon DEF smp_main
<1> QED
  BY <1>1, <1>2, <1>3, <1>4, <1>5, <1>6, <1>7, Zenon DEF SmpNext, smp_submit

\* The lock, the ring and the positions of all processors agree in every
\* reachable state: what smp_submit and job_pop rely on between lock and
\* unlock.
THEOREM SmpInvariant == SmpSpec => []SmpInv
BY SmpInitInv, SmpNextInv, PTL DEF SmpSpec

\* At most one processor is between spin_lock and spin_unlock.
THEOREM MutualExclusion ==
  SmpSpec => [](\A c, d \in Cpus :
                  cpu[c].pc \in Critical /\ cpu[d].pc \in Critical => c = d)
<1>1. SmpInv => (\A c, d \in Cpus :
                   cpu[c].pc \in Critical /\ cpu[d].pc \in Critical => c = d)
  BY DEF SmpInv, LockHeld
<1> QED
  BY <1>1, SmpInvariant, PTL

\* Every job the ring accepted is taken by one core, once and in the order of
\* submission (smp_submit, job_pop), for any number of cores and any ring.
THEOREM JobsTakenInOrder == SmpSpec => []SmpTakenInOrder
<1>1. SmpInv => SmpTakenInOrder
  BY DEF SmpInv
<1> QED
  BY <1>1, SmpInvariant, PTL

-----------------------------------------------------------------------------
(***************************************************************************)
(* The network: a reply is counted for the request during whose wait it    *)
(* came, and the gateway is known only from its answer.                    *)
(***************************************************************************)

Kinds == {"arp_request", "echo_request", "other", "arp_reply", "echo_reply"}

Frame == [kind : Kinds, seq : Nat, came : Nat \X Nat]

NetTypeOK ==
  /\ rx \in Seq(Frame)
  /\ ping_i \in Nat /\ pings \in Nat

\* While ping looks for a reply, what waits in the driver has come since the
\* request it waits for: net_poll has drained the rest.
Drained == at = "look" => \A k \in 1 .. Len(rx) : rx[k].came = <<pings, ping_i>>

\* An answer of the gateway that is still in the driver has arrived.
Told == \A k \in 1 .. Len(rx) : rx[k].kind = "arp_reply" => told

NetInv == NetTypeOK /\ Drained /\ Told /\ NetFresh /\ NetGateway

-----------------------------------------------------------------------------
\* Before the first call nothing waits and nothing is believed.
LEMMA NetInitInv == NetInit => NetInv
<1> SUFFICES ASSUME NetInit
             PROVE  NetInv
  OBVIOUS
<1>1. NetTypeOK /\ Drained /\ Told
  BY DEF NetInit, NetTypeOK, Drained, Told
<1>2. NetFresh /\ NetGateway
  BY DEF NetInit, NetFresh, NetGateway, Sent
<1> QED
  BY <1>1, <1>2, Zenon DEF NetInv

\* The queue without its first frame
LEMMA TailOfQueue ==
  ASSUME NetTypeOK, rx # <<>>
  PROVE  /\ Head(rx) \in Frame /\ Head(rx) = rx[1] /\ Len(rx) >= 1
         /\ Tail(rx) \in Seq(Frame)
         /\ \A k \in 1 .. Len(Tail(rx)) : k + 1 \in 1 .. Len(rx) /\ Tail(rx)[k] = rx[k + 1]
BY DEF NetTypeOK

\* The head of the ping loop sends only what may be sent.
LEMMA RoundKeeps ==
  ASSUME NetInv, NEW n \in Nat, Round(n), UNCHANGED <<have_gw_mac, told>>
  PROVE  /\ ping_i' \in Nat /\ at' # "look"
         /\ NetGateway'
BY DEF NetInv, NetGateway, Round, icmp_echo_request, Sent, IpTo

\* A frame that arrives is marked with the request awaited, and only waits.
LEMMA ArriveStep == NetInv /\ Arrive => NetInv'
<1> SUFFICES ASSUME NetInv, Arrive
             PROVE  NetInv'
  OBVIOUS
<1> USE DEF NetInv
<1>1. PICK f \in OnTheWire :
        /\ rx' = Append(rx, [kind |-> f.kind, seq |-> f.seq,
                             came |-> IF Awaiting THEN <<pings, ping_i>> ELSE <<0, 0>>])
        /\ told' = (told \/ f.kind = "arp_reply")
  BY Zenon DEF Arrive
<1>2. UNCHANGED <<have_gw_mac, tx, at, ping_i, pings, counted>>
  BY DEF Arrive
<1> DEFINE g == [kind |-> f.kind, seq |-> f.seq,
                 came |-> IF Awaiting THEN <<pings, ping_i>> ELSE <<0, 0>>]
<1>3. f.kind \in Kinds /\ f.seq \in Nat
  BY NetAssumption DEF OnTheWire, Kinds
<1>4. g \in Frame
  BY <1>3, Zenon DEF Frame, NetTypeOK
<1>5. g.kind = f.kind /\ (at = "look" => g.came = <<pings, ping_i>>)
  BY Zenon DEF Awaiting
<1> HIDE DEF g
<1>6. rx' = Append(rx, g)
  BY <1>1, Zenon DEF g
<1>7. /\ rx' \in Seq(Frame) /\ Len(rx') = Len(rx) + 1 /\ rx'[Len(rx) + 1] = g
      /\ \A k \in 1 .. Len(rx) : rx'[k] = rx[k]
      /\ \A k \in 1 .. Len(rx') : k \in 1 .. Len(rx) \/ k = Len(rx) + 1
  BY <1>4, <1>6 DEF NetTypeOK
<1>8. NetTypeOK'
  BY <1>2, <1>7, Zenon DEF NetTypeOK
<1>9. Drained'
  BY <1>2, <1>5, <1>7, Zenon DEF Drained
<1>10. told => told'
  BY <1>1, Zenon
<1>11. f.kind = "arp_reply" => told'
  BY <1>1, Zenon
<1>12. Told'
  BY <1>5, <1>7, <1>10, <1>11, Zenon DEF Told
<1>13. NetFresh' /\ NetGateway'
  BY <1>2, <1>10, Zenon DEF NetFresh, NetGateway
<1> QED
  BY <1>8, <1>9, <1>12, <1>13, Zenon

\* net_poll takes the gateway for known only from its answer (handle_rx).
LEMMA PollStep == NetInv /\ net_poll => NetInv'
<1> SUFFICES ASSUME NetInv, net_poll
             PROVE  NetInv'
  OBVIOUS
<1> USE DEF NetInv
<1>0. UNCHANGED <<ping_i, pings, told, counted>> /\ at \in {"init", "resolve", "await"}
  BY DEF net_poll
<1>1. CASE rx # <<>>
  <2>1. rx' = Tail(rx) /\ handle_rx(Head(rx)) /\ UNCHANGED at
    BY <1>1, Zenon DEF net_poll
  <2>2. NetTypeOK' /\ Told'
    BY <1>0, <1>1, <2>1, TailOfQueue, Zenon DEF NetTypeOK, Told
  <2>3. Drained'
    BY <1>0, <2>1, Zenon DEF Drained
  <2>4. Head(rx).kind = "arp_reply" => told
    BY <1>1, TailOfQueue DEF Told
  <2>5. have_gw_mac' => told'
    BY <1>0, <2>1, <2>4, Zenon DEF handle_rx, NetGateway
  <2>6. \A f \in tx' : f \in tx \/ f.kind # "echo_request"
    BY <2>1 DEF handle_rx, Sent
  <2>7. NetFresh' /\ NetGateway'
    BY <1>0, <2>5, <2>6, Zenon DEF NetFresh, NetGateway
  <2> QED
    BY <2>2, <2>3, <2>7, Zenon
<1>2. CASE rx = <<>>
  <2>1. UNCHANGED <<have_gw_mac, rx, tx>>
    BY <1>2, Zenon DEF net_poll
  <2>2. NetTypeOK' /\ Told' /\ Drained'
    BY <1>0, <1>2, <2>1 DEF NetTypeOK, Told, Drained
  <2>3. NetFresh' /\ NetGateway'
    BY <1>0, <2>1, Zenon DEF NetFresh, NetGateway
  <2> QED
    BY <2>2, <2>3
<1> QED
  BY <1>1, <1>2

\* A look at the queue counts a frame for the request it came for (net_ping).
LEMMA LookStep == NetInv /\ Look => NetInv'
<1> SUFFICES ASSUME NetInv, Look
             PROVE  NetInv'
  OBVIOUS
<1> USE DEF NetInv
<1>0. UNCHANGED <<have_gw_mac, pings, told>> /\ at = "look"
  BY DEF Look
<1>1. rx' \in Seq(Frame) /\ Told'
  <2>1. CASE rx = <<>>
    BY <1>0, <2>1 DEF Look, NetTypeOK, Told
  <2>2. CASE rx # <<>>
    BY <1>0, <2>2, TailOfQueue DEF Look, Told
  <2> QED
    BY <2>1, <2>2, Zenon
<1>2. CASE rx # <<>> /\ IsReply(Head(rx))
  <2>1. /\ Round(ping_i + 1) /\ ping_i + 1 \in Nat
        /\ counted' = counted \cup {[asked |-> <<pings, ping_i>>, came |-> Head(rx).came]}
    BY <1>2 DEF Look, NetTypeOK
  <2>2. Head(rx).came = <<pings, ping_i>>
    <3>1. Head(rx) = rx[1] /\ 1 \in 1 .. Len(rx)
      BY <1>2, TailOfQueue
    <3> QED
      BY <1>0, <1>2, <3>1, Zenon DEF Drained
  <2>3. NetFresh'
    <3> DEFINE new == [asked |-> <<pings, ping_i>>, came |-> Head(rx).came]
    <3>1. new.came = new.asked
      BY <2>2
    <3> HIDE DEF new
    <3>2. \A c \in counted' : c \in counted \/ c = new
      BY <2>1, Zenon DEF new
    <3> QED
      BY <3>1, <3>2, Zenon DEF NetFresh
  <2>4. ping_i' \in Nat /\ at' # "look" /\ NetGateway'
    BY <1>0, <2>1, RoundKeeps
  <2> QED
    BY <1>0, <1>1, <2>3, <2>4, Zenon DEF NetTypeOK, Drained
<1>3. CASE ~(rx # <<>> /\ IsReply(Head(rx)))
  <2>1. at' = "clock" /\ UNCHANGED <<tx, ping_i, counted>>
    BY <1>3, Zenon DEF Look
  <2> QED
    BY <1>0, <1>1, <2>1, Zenon DEF NetTypeOK, Drained, NetFresh, NetGateway
<1> QED
  BY <1>2, <1>3, Zenon

\* Every step of the stack and of the wire keeps the invariant.
LEMMA NetNextInv == NetInv /\ [NetNext]_netVars => NetInv'
<1> SUFFICES ASSUME NetInv, [NetNext]_netVars
             PROVE  NetInv'
  OBVIOUS
<1> USE DEF NetInv
<1>1. CASE Arrive
  BY <1>1, ArriveStep, Zenon
<1>2. CASE net_poll
  BY <1>2, PollStep
<1>3. CASE Look
  BY <1>3, LookStep
<1>4. CASE net_init \/ PollAgain \/ PingReturns
  <2>1. UNCHANGED <<have_gw_mac, rx, tx, ping_i, pings, told, counted>> /\ at' # "look"
    BY <1>4 DEF net_init, PollAgain, PingReturns
  <2> QED
    BY <2>1, Zenon DEF NetTypeOK, Drained, Told, NetFresh, NetGateway
<1>5. CASE net_ping \/ RequestTimeout \/ Resolved
  <2>1. UNCHANGED <<have_gw_mac, rx, told, counted>> /\ pings' \in Nat
    BY <1>5 DEF net_ping, RequestTimeout, Resolved, NetTypeOK
  <2>2. ping_i' \in Nat /\ at' # "look" /\ NetGateway'
    <3>1. CASE net_ping
      BY <3>1, <2>1, RoundKeeps, Zenon DEF net_ping
    <3>2. ASSUME Round(ping_i + 1)
          PROVE  ping_i' \in Nat /\ at' # "look" /\ NetGateway'
      <4>1. ping_i + 1 \in Nat
        BY DEF NetTypeOK
      <4> QED
        BY <3>2, <4>1, <2>1, RoundKeeps, Zenon
    <3>3. CASE RequestTimeout
      BY <3>2, <3>3, Zenon DEF RequestTimeout
    <3>4. CASE Resolved
      <4>1. CASE have_gw_mac
        <5>1. at' = "await" /\ ping_i' = ping_i
          BY <3>4, <4>1, Zenon DEF Resolved, icmp_echo_request
        <5>2. tx' = tx \cup {[kind |-> "echo_request", seq |-> ping_i, to |-> "gateway"]}
          BY <3>4, <4>1, Zenon DEF Resolved, icmp_echo_request, IpTo, Sent
        <5>3. NetGateway'
          BY <2>1, <5>2 DEF NetGateway
        <5> QED
          BY <5>1, <5>3, Zenon DEF NetTypeOK
      <4>2. CASE ~have_gw_mac
        BY <3>2, <3>4, <4>2, Zenon DEF Resolved
      <4> QED
        BY <4>1, <4>2, Zenon
    <3> QED
      BY <1>5, <3>1, <3>3, <3>4, Zenon
  <2> QED
    BY <2>1, <2>2, Zenon DEF NetTypeOK, Drained, Told, NetFresh
<1>6. CASE UNCHANGED netVars
  BY <1>6 DEF netVars, NetTypeOK, Drained, Told, NetFresh, NetGateway
<1> QED
  BY <1>1, <1>2, <1>3, <1>4, <1>5, <1>6, Zenon DEF NetNext

\* A reply is counted for the request during whose wait it came, and the
\* gateway is known only from its own answer (net_ping, handle_rx), whatever
\* arrives and when.
THEOREM NetBelief == NetSpec => []NetTrusted
<1>1. NetSpec => []NetInv
  BY NetInitInv, NetNextInv, PTL DEF NetSpec
<1>2. NetInv => NetTrusted
  BY DEF NetInv, NetTrusted
<1> QED
  BY <1>1, <1>2, PTL

-----------------------------------------------------------------------------
(***************************************************************************)
(* The block driver.  BlkInv ties the counters to the number of requests   *)
(* and says, of a call that found nothing outstanding, where its chain     *)
(* stands and how far the device is.                                       *)
(***************************************************************************)

\* The value of a bit of a number
BitOf(x, bit) == IF (x \div bit) % 2 = 1 THEN bit ELSE 0

\* The four low bits of a number, split off one by one
LEMMA Halved ==
  ASSUME NEW x \in 0 .. 127
  PROVE  /\ x = BitOf(x, 1) + 2 * (x \div 2)
         /\ 2 * (x \div 2) = BitOf(x, 2) + 4 * (x \div 4)
         /\ 4 * (x \div 4) = BitOf(x, 4) + 8 * (x \div 8)
         /\ 8 * (x \div 8) = BitOf(x, 8) + 16 * (x \div 16)
<1>1. x = BitOf(x, 1) + 2 * (x \div 2)
  BY DEF BitOf
<1>2. 2 * (x \div 2) = BitOf(x, 2) + 4 * (x \div 4)
  BY DEF BitOf
<1>3. 4 * (x \div 4) = BitOf(x, 4) + 8 * (x \div 8)
  BY DEF BitOf
<1>4. 8 * (x \div 8) = BitOf(x, 8) + 16 * (x \div 16)
  BY DEF BitOf
<1> QED
  BY <1>1, <1>2, <1>3, <1>4, Zenon

\* The three high ones
LEMMA HalvedMore ==
  ASSUME NEW x \in 0 .. 127
  PROVE  /\ 16 * (x \div 16) = BitOf(x, 16) + 32 * (x \div 32)
         /\ 32 * (x \div 32) = BitOf(x, 32) + 64 * (x \div 64)
         /\ 64 * (x \div 64) = BitOf(x, 64)
<1>1. 16 * (x \div 16) = BitOf(x, 16) + 32 * (x \div 32)
  BY DEF BitOf
<1>2. 32 * (x \div 32) = BitOf(x, 32) + 64 * (x \div 64)
  BY DEF BitOf
<1>3. 64 * (x \div 64) = BitOf(x, 64)
  BY DEF BitOf
<1> QED
  BY <1>1, <1>2, <1>3, Zenon

\* The mask keeps a descriptor in the table, and the lowest bit: neighbours
\* stay apart.
LEMMA MaskedIn ==
  ASSUME NEW n \in Nat
  PROVE  Masked(n) \in 0 .. QNUM - 1 /\ Masked(n) % 2 = n % 2
<1> DEFINE m == QNUM - 1
           both(bit) == IF (n \div bit) % 2 = 1 /\ (m \div bit) % 2 = 1 THEN bit ELSE 0
<1>1. m \in 0 .. 127 /\ m % 2 = 1
  <2>1. QNUM \in 1 .. 127 /\ QNUM % 2 = 0
    BY BlkAssumption
  <2> QED
    BY <2>1
<1>2. Masked(n) = both(1) + both(2) + both(4) + both(8) + both(16) + both(32) + both(64)
  BY Zenon DEF Masked
<1>3. both(1) \in {0, 1} /\ both(1) = n % 2 /\ both(1) <= BitOf(m, 1)
  BY <1>1 DEF BitOf
<1>4. /\ both(2) \in {0, 2} /\ both(2) <= BitOf(m, 2)
      /\ both(4) \in {0, 4} /\ both(4) <= BitOf(m, 4)
      /\ both(8) \in {0, 8} /\ both(8) <= BitOf(m, 8)
  BY DEF BitOf
<1>5. /\ both(16) \in {0, 16} /\ both(16) <= BitOf(m, 16)
      /\ both(32) \in {0, 32} /\ both(32) <= BitOf(m, 32)
      /\ both(64) \in {0, 64} /\ both(64) <= BitOf(m, 64)
  BY DEF BitOf
<1> HIDE DEF both, m
<1>6. /\ BitOf(m, 1) \in Nat /\ BitOf(m, 2) \in Nat /\ BitOf(m, 4) \in Nat /\ BitOf(m, 8) \in Nat
      /\ BitOf(m, 16) \in Nat /\ BitOf(m, 32) \in Nat /\ BitOf(m, 64) \in Nat
  BY DEF BitOf
<1>7. /\ m = BitOf(m, 1) + 2 * (m \div 2) /\ 2 * (m \div 2) = BitOf(m, 2) + 4 * (m \div 4)
      /\ 4 * (m \div 4) = BitOf(m, 4) + 8 * (m \div 8)
      /\ 8 * (m \div 8) = BitOf(m, 8) + 16 * (m \div 16)
  BY <1>1, Halved, Zenon
<1>8. m = BitOf(m, 1) + BitOf(m, 2) + BitOf(m, 4) + BitOf(m, 8) + 16 * (m \div 16)
  BY <1>1, <1>6, <1>7
<1>9. 16 * (m \div 16) = BitOf(m, 16) + BitOf(m, 32) + BitOf(m, 64)
  <2>1. /\ 16 * (m \div 16) = BitOf(m, 16) + 32 * (m \div 32)
        /\ 32 * (m \div 32) = BitOf(m, 32) + 64 * (m \div 64)
        /\ 64 * (m \div 64) = BitOf(m, 64)
    BY <1>1, HalvedMore, Zenon
  <2> QED
    BY <1>1, <1>6, <2>1
<1>10. Masked(n) <= m
  BY <1>2, <1>3, <1>4, <1>5, <1>6, <1>8, <1>9
<1>11. Masked(n) \in Nat /\ Masked(n) % 2 = both(1)
  <2>1. PICK j \in Nat : both(2) + both(4) + both(8) = 2 * j
    <3>1. \E j \in 0 .. 7 : both(2) + both(4) + both(8) = 2 * j
      BY <1>4
    <3> QED
      BY <3>1
  <2>2. PICK k \in Nat : both(16) + both(32) + both(64) = 2 * k
    <3>1. \E k \in {0, 8, 16, 24, 32, 40, 48, 56} : both(16) + both(32) + both(64) = 2 * k
      BY <1>5
    <3> QED
      BY <3>1, Zenon
  <2>3. /\ both(1) \in Nat /\ both(2) \in Nat /\ both(4) \in Nat /\ both(8) \in Nat
        /\ both(16) \in Nat /\ both(32) \in Nat /\ both(64) \in Nat
    BY <1>3, <1>4, <1>5
  <2>4. Masked(n) = both(1) + 2 * (j + k)
    BY <1>2, <2>1, <2>2, <2>3
  <2> QED
    BY <1>3, <2>4
<1> QED
  BY <1>3, <1>10, <1>11 DEF m

\* The head of the chain of a request
HeadOf(r) == (3 * (r - 1)) % U16

Published == IF pc = "prepared" THEN req - 1 ELSE req

\* The device, if it takes the chain of the call, finds the call's buffer.
ChainStands ==
  LET d == desc[HeadOf(req)]
  IN  HeadOf(req) < QNUM /\ d.addr = "hdr" =>
        /\ d.next \in 0 .. QNUM - 1
        /\ desc[d.next].addr = "buf" /\ desc[d.next].of = req

Descriptor == [addr : {"none", "hdr", "buf", "st"}, of : Nat, next : Nat]

CountInv ==
  /\ pc \in {"idle", "prepared", "poll", "ok", "error"}
  /\ req \in Nat /\ req <= MAX_REQUESTS /\ (pc # "idle" => req >= 1)
  /\ pub_idx = Published /\ next_slot = Published % QNUM
  /\ next_desc = (3 * req) % U16
  /\ hdr = req

TableInv ==
  /\ DOMAIN dev = {"seen", "stopped"} /\ dev.seen \in Nat /\ dev.seen <= pub_idx
  /\ used_idx = dev.seen
  /\ desc \in [0 .. QNUM - 1 -> Descriptor]
  /\ avail \in [0 .. QNUM - 1 -> Nat]

\* The call that found nothing outstanding
CallInv ==
  /\ pc = "prepared" => dev.seen = req - 1 /\ last_used = req - 1 /\ ChainStands
  /\ pc = "poll" =>
       /\ last_used = req - 1
       /\ ChainStands /\ avail[(req - 1) % QNUM] = HeadOf(req)
       /\ dev.seen = req - 1 \/ (dev.seen = req /\ (st = S_OK => <<req, req>> \in carried))
  /\ pc = "ok" => <<req, req>> \in carried

BlkInv == CountInv /\ TableInv /\ (alone => CallInv)

\* The queue has a descriptor, and an error is not a success.
LEMMA PositiveQnum == QNUM \in Nat \ {0} /\ S_OK # S_IOERR
BY BlkAssumption DEF S_OK, S_IOERR

\* The driver's slot, advanced and wrapped, is that of the next request.
LEMMA SlotNext ==
  ASSUME NEW k \in Nat
  PROVE  k % QNUM \in 0 .. QNUM - 1 /\ ((k % QNUM) + 1) % QNUM = (k + 1) % QNUM
<1> DEFINE n == QNUM
           q == k \div n
           r == k % n
<1>1. n \in Nat \ {0}
  BY PositiveQnum
<1> HIDE DEF n
<1>2. q \in Nat /\ r \in 0 .. n - 1 /\ k = n * q + r
  BY <1>1
<1> HIDE DEF q, r
<1>5. ASSUME NEW c \in Nat, NEW d \in 0 .. n - 1, NEW x \in Nat, x = n * c + d
      PROVE  x % n = d
  BY <1>1, <1>5
<1>3. CASE r + 1 = n
  <2>1. /\ k + 1 = n * (q + 1) + 0 /\ q + 1 \in Nat /\ k + 1 \in Nat
        /\ r + 1 = n * 1 + 0 /\ r + 1 \in Nat /\ 0 \in 0 .. n - 1
    BY <1>1, <1>2, <1>3
  <2>2. (k + 1) % n = 0 /\ (r + 1) % n = 0
    BY <1>5, <2>1
  <2> QED
    BY <1>2, <2>2 DEF n, r
<1>4. CASE r + 1 # n
  <2>1. r + 1 \in 0 .. n - 1 /\ k + 1 = n * q + (r + 1)
    BY <1>1, <1>2, <1>4
  <2>2. (k + 1) % n = r + 1 /\ (r + 1) % n = r + 1
    BY <1>1, <1>2, <2>1
  <2> QED
    BY <1>2, <2>2 DEF n, r
<1> QED
  BY <1>3, <1>4

\* vblk_init establishes it.
LEMMA BlkStarts == BlkInit => BlkInv
<1> SUFFICES ASSUME BlkInit PROVE BlkInv
  OBVIOUS
<1>1. CountInv
  <2>1. 0 % QNUM = 0
    BY PositiveQnum
  <2> QED
    BY <2>1, BlkAssumption DEF BlkInit, CountInv, Published, None, U16
<1>2. TableInv
  <2>1. [addr |-> "none", of |-> 0, next |-> 0] \in Descriptor
    BY Zenon DEF Descriptor
  <2>2. desc \in [0 .. QNUM - 1 -> Descriptor]
    BY <2>1, Zenon DEF BlkInit, None
  <2>3. avail \in [0 .. QNUM - 1 -> Nat]
    BY ONLY BlkInit, SMT DEF BlkInit
  <2>4. /\ DOMAIN dev = {"seen", "stopped"} /\ dev.seen \in Nat /\ dev.seen <= pub_idx
        /\ used_idx = dev.seen
    BY ONLY BlkInit, SMT DEF BlkInit
  <2> QED
    BY <2>2, <2>3, <2>4, Zenon DEF TableInv
<1>3. CallInv
  BY DEF BlkInit, CallInv
<1> QED
  BY <1>1, <1>2, <1>3, Zenon DEF BlkInv

\* The call's chain stands once it is written: its middle descriptor is not
\* its last, so the buffer is where the head points.
LEMMA PrepareStep == BlkInv /\ Prepare => BlkInv'
<1> SUFFICES ASSUME BlkInv, Prepare PROVE BlkInv'
  OBVIOUS
<1> DEFINE h == HeadOf(req + 1)
           data == Masked(h + 1)
           status == Masked(h + 2)
<1>1. /\ pc = "idle" /\ pc' = "prepared" /\ req' = req + 1 /\ hdr' = req + 1
      /\ next_desc' = (next_desc + 3) % U16 /\ last_used' = used_idx
      /\ desc' = WithChain(desc, Chain(next_desc), req + 1) /\ req < MAX_REQUESTS
      /\ alone' = (dev.seen = pub_idx)
      /\ UNCHANGED <<next_slot, pub_idx, avail, used_idx, dev, carried>>
  BY Zenon DEF Prepare
<1>2. CountInv /\ TableInv
  BY Zenon DEF BlkInv
<1>3. h = next_desc /\ h \in Nat
  BY <1>1, <1>2 DEF CountInv, HeadOf, U16
<1>4. CountInv'
  <2>1. next_desc' = (3 * (req + 1)) % U16
    BY <1>1, <1>2 DEF CountInv, U16
  <2> QED
    BY <1>1, <1>2, <2>1, BlkAssumption DEF CountInv, Published
<1>5. data \in 0 .. QNUM - 1 /\ status \in 0 .. QNUM - 1 /\ data # status
  <2>1. (h + 1) % 2 # (h + 2) % 2
    BY <1>3
  <2> QED
    BY <1>3, <2>1, MaskedIn
<1>6. desc' = WithChain(desc, <<h, data, status>>, req + 1)
  BY <1>1, <1>3, Zenon DEF Chain
<1> HIDE DEF h, data, status
<1>7. TableInv'
  <2>1. desc' \in [0 .. QNUM - 1 -> Descriptor]
    BY <1>2, <1>5, <1>6 DEF TableInv, CountInv, WithChain, Descriptor
  <2> QED
    BY <1>1, <1>2, <2>1 DEF TableInv
<1>8. alone' => dev.seen = pub_idx
  BY Zenon DEF Prepare
<1>9. /\ desc'[status].addr = "st"
      /\ desc'[data].addr = "buf" /\ desc'[data].of = req + 1
      /\ h \in 0 .. QNUM - 1 /\ h # data /\ h # status => desc'[h].next = data
  <2>1. DOMAIN desc = 0 .. QNUM - 1
    BY <1>2 DEF TableInv
  <2>2. desc'[status].addr = "st"
    BY <1>5, <1>6, <2>1 DEF WithChain
  <2>3. desc'[data] = [addr |-> "buf", of |-> req + 1, next |-> status]
    BY <1>5, <1>6, <2>1 DEF WithChain
  <2>4. ASSUME h \in 0 .. QNUM - 1, h # data, h # status
        PROVE  desc'[h] = [addr |-> "hdr", of |-> req + 1, next |-> data]
    BY <1>6, <2>1, <2>4 DEF WithChain
  <2> QED
    <3>1. [addr |-> "buf", of |-> req + 1, next |-> status].addr = "buf"
          /\ [addr |-> "buf", of |-> req + 1, next |-> status].of = req + 1
          /\ [addr |-> "hdr", of |-> req + 1, next |-> data].next = data
      OBVIOUS
    <3> QED
      BY <2>2, <2>3, <2>4, <3>1, Zenon
<1>10. ASSUME alone' PROVE CallInv'
  <2>1. ChainStands'
    <3>1. ASSUME h < QNUM, desc'[h].addr = "hdr"
          PROVE  desc'[h].next = data
      BY <1>3, <1>9, <3>1, BlkAssumption
    <3> QED
      BY <1>1, <1>5, <1>9, <3>1, Zenon DEF ChainStands, h
  <2>2. dev.seen' = req' - 1 /\ last_used' = req' - 1
    BY <1>1, <1>2, <1>8, <1>10 DEF TableInv, CountInv, Published
  <2> QED
    BY <1>1, <2>1, <2>2, Zenon DEF CallInv
<1> QED
  BY <1>4, <1>7, <1>10 DEF BlkInv

\* The slot that the driver fills is the one that the device reads next.
LEMMA PublishStep == BlkInv /\ Publish => BlkInv'
<1> SUFFICES ASSUME BlkInv, Publish PROVE BlkInv'
  OBVIOUS
<1>1. /\ pc = "prepared" /\ pc' = "poll"
      /\ avail' = [avail EXCEPT ![next_slot] = (next_desc - 3) % U16]
      /\ next_slot' = (next_slot + 1) % QNUM /\ pub_idx' = (pub_idx + 1) % U16
      /\ UNCHANGED <<next_desc, hdr, st, desc, used_idx, req, last_used, dev, carried, alone>>
  BY Zenon DEF Publish
<1>2. CountInv /\ TableInv
  BY DEF BlkInv
<1>3. /\ req \in Nat /\ req >= 1 /\ req < U16 /\ pub_idx = req - 1
      /\ next_slot = (req - 1) % QNUM /\ QNUM \in Nat \ {0}
  BY <1>1, <1>2, BlkAssumption DEF CountInv, Published, U16
<1>4. pub_idx' = req /\ next_slot' = req % QNUM /\ next_slot \in 0 .. QNUM - 1
  <2>1. (((req - 1) % QNUM) + 1) % QNUM = (req - 1 + 1) % QNUM
    <3>1. req - 1 \in Nat
      BY <1>3
    <3> QED
      BY <3>1, SlotNext, Zenon
  <2>2. (req - 1) % QNUM \in 0 .. QNUM - 1
    BY <1>3, SlotNext
  <2> QED
    BY <1>1, <1>3, <2>1, <2>2 DEF U16
<1>5. (next_desc - 3) % U16 = HeadOf(req) /\ HeadOf(req) \in Nat
  BY <1>2, <1>3 DEF CountInv, HeadOf, U16
<1>6. CountInv'
  <2>1. Published' = req
    BY <1>1, Zenon DEF Published
  <2> QED
    BY <1>1, <1>2, <1>3, <1>4, <2>1, Zenon DEF CountInv
<1>7. TableInv'
  <2>1. avail \in [0 .. QNUM - 1 -> Nat] /\ dev.seen \in Nat /\ dev.seen <= pub_idx
    BY <1>2, Zenon DEF TableInv
  <2>2. avail' \in [0 .. QNUM - 1 -> Nat]
    BY <1>1, <1>4, <1>5, <2>1, Zenon
  <2>3. dev.seen <= pub_idx'
    BY ONLY <1>3, <1>4, <2>1, SMT
  <2> QED
    BY <1>1, <1>2, <2>2, <2>3, Zenon DEF TableInv
<1>8. ASSUME alone PROVE CallInv'
  <2>1. dev.seen = req - 1 /\ last_used = req - 1 /\ ChainStands
    BY <1>1, <1>8, Zenon DEF BlkInv, CallInv
  <2>2. ChainStands'
    BY <1>1, <2>1, Zenon DEF ChainStands, HeadOf
  <2>3. avail'[(req - 1) % QNUM] = HeadOf(req)
    BY <1>1, <1>2, <1>3, <1>4, <1>5 DEF TableInv
  <2> QED
    BY <1>1, <2>1, <2>2, <2>3, Zenon DEF CallInv, HeadOf
<1> QED
  BY <1>1, <1>6, <1>7, <1>8, Zenon DEF BlkInv

\* What the device takes of a call that is alone is that call.
LEMMA DeviceStep == BlkInv /\ Device => BlkInv'
<1> SUFFICES ASSUME BlkInv, Device PROVE BlkInv'
  OBVIOUS
<1> DEFINE first == avail[dev.seen % QNUM]
           taken == <<hdr, BufferOf(desc[desc[first].next])>>
<1>1. /\ dev.seen # pub_idx
      /\ UNCHANGED <<next_desc, next_slot, pub_idx, hdr, desc, avail, pc, req, last_used, alone>>
  BY Zenon DEF Device
<1>2. CountInv /\ TableInv
  BY DEF BlkInv
<1>3. \/ /\ dev' = [dev EXCEPT !.stopped = TRUE]
         /\ UNCHANGED <<st, used_idx, carried>>
      \/ /\ ~(first >= QNUM) /\ desc[first].addr = "hdr"
         /\ dev' = [dev EXCEPT !.seen = (@ + 1) % U16]
         /\ used_idx' = (used_idx + 1) % U16
         /\ carried \subseteq carried' /\ (st' = S_OK => taken \in carried')
  BY PositiveQnum, Zenon DEF Device
<1>4. CountInv'
  BY <1>1, <1>2, Zenon DEF CountInv, Published
<1> HIDE DEF first, taken
<1>5. CASE /\ dev' = [dev EXCEPT !.stopped = TRUE]
           /\ UNCHANGED <<st, used_idx, carried>>
  <2>1. dev'.seen = dev.seen /\ DOMAIN dev' = DOMAIN dev
    BY <1>2, <1>5 DEF TableInv
  <2>2. TableInv'
    BY <1>1, <1>2, <1>5, <2>1, Zenon DEF TableInv
  <2>3. ASSUME alone, CallInv PROVE CallInv'
    BY <1>1, <1>5, <2>1, <2>3, Zenon DEF CallInv, ChainStands, HeadOf
  <2> QED
    BY <1>1, <1>4, <2>2, <2>3, Zenon DEF BlkInv
<1>6. CASE /\ ~(first >= QNUM) /\ desc[first].addr = "hdr"
           /\ dev' = [dev EXCEPT !.seen = (@ + 1) % U16]
           /\ used_idx' = (used_idx + 1) % U16
           /\ carried \subseteq carried' /\ (st' = S_OK => taken \in carried')
  <2>1. pub_idx \in Nat /\ pub_idx < U16 /\ dev.seen \in Nat /\ dev.seen <= pub_idx
    BY <1>2, BlkAssumption DEF CountInv, TableInv, Published, U16
  <2>2. dev'.seen = dev.seen + 1 /\ TableInv'
    BY <1>1, <1>2, <1>6, <2>1 DEF TableInv, U16
  <2>3. ASSUME alone, CallInv PROVE CallInv'
    <3>1. pc # "prepared"
      BY <1>1, <1>2, <2>3 DEF CallInv, CountInv, Published
    <3>2. CASE pc = "poll"
      <4>1. last_used = req - 1 /\ ChainStands /\ avail[(req - 1) % QNUM] = HeadOf(req)
        BY <2>3, <3>2, Zenon DEF CallInv
      <4>2. ASSUME st' = S_OK PROVE <<req, req>> \in carried'
        <5>1. dev.seen = req - 1
          BY <1>1, <1>2, <2>3, <3>2 DEF CallInv, CountInv, Published
        <5>2. HeadOf(req) < QNUM /\ desc[HeadOf(req)].addr = "hdr" /\ first = HeadOf(req)
          <6>1. first = HeadOf(req) /\ HeadOf(req) \in Nat
            BY <1>2, <4>1, <5>1 DEF first, HeadOf, CountInv, U16
          <6> QED
            BY <1>6, <6>1, BlkAssumption
        <5>3. taken = <<req, req>>
          BY <1>2, <4>1, <5>2, Zenon DEF taken, ChainStands, BufferOf, CountInv
        <5> QED
          BY <1>6, <4>2, <5>3
      <4>3. ChainStands'
        BY <1>1, <4>1, Zenon DEF ChainStands, HeadOf
      <4>4. dev.seen + 1 = req
        BY <1>1, <1>2, <2>1, <2>3, <3>2 DEF CallInv, CountInv, Published
      <4> QED
        BY <1>1, <2>2, <3>2, <4>1, <4>2, <4>3, <4>4, Zenon DEF CallInv, HeadOf
    <3>3. CASE pc = "ok"
      <4>1. <<req, req>> \in carried'
        BY <1>6, <2>3, <3>3, Zenon DEF CallInv
      <4> QED
        BY <1>1, <3>3, <4>1 DEF CallInv
    <3> QED
      BY <1>1, <3>1, <3>2, <3>3, Zenon DEF CallInv
  <2> QED
    BY <1>1, <1>4, <2>2, <2>3, Zenon DEF BlkInv
<1> QED
  BY <1>3, <1>5, <1>6

\* A step of the call that only moves its program counter
LEMMA MoveStep ==
  ASSUME BlkInv, UNCHANGED <<next_desc, next_slot, pub_idx, hdr, st, desc, avail, used_idx,
                             req, last_used, dev, carried, alone>>,
         pc \in {"poll", "ok", "error"}, pc' \in {"idle", "ok", "error"},
         pc' = "ok" /\ alone => <<req, req>> \in carried
  PROVE  BlkInv'
<1>1. CountInv'
  BY DEF BlkInv, CountInv, Published
<1>2. TableInv'
  BY Zenon DEF BlkInv, TableInv
<1>3. alone => CallInv'
  BY Zenon DEF CallInv
<1> QED
  BY <1>1, <1>2, <1>3, Zenon DEF BlkInv

\* Every step of the driver and of the device keeps it.
LEMMA BlkInductive == BlkInv /\ [BlkNext]_blkVars => BlkInv'
<1> SUFFICES ASSUME BlkInv, [BlkNext]_blkVars PROVE BlkInv'
  OBVIOUS
<1>1. CASE Done
  <2>1. ASSUME alone, st = S_OK PROVE <<req, req>> \in carried
    <3>1. last_used = req - 1 /\ dev.seen # last_used /\ (dev.seen = req - 1 \/ <<req, req>> \in carried)
      BY <1>1, <2>1, Zenon DEF BlkInv, CallInv, TableInv, Done, Completed
    <3> QED
      BY <3>1
  <2> QED
    BY <1>1, <2>1, MoveStep, Zenon DEF Done
<1>2. CASE TimeOut \/ Return
  BY <1>2, MoveStep, Zenon DEF TimeOut, Return
<1>3. CASE UNCHANGED blkVars
  <2>1. CountInv' /\ TableInv'
    BY <1>3, Zenon DEF BlkInv, CountInv, Published, TableInv, blkVars
  <2>2. alone /\ CallInv => CallInv'
    BY <1>3, Zenon DEF CallInv, ChainStands, HeadOf, blkVars
  <2> QED
    BY <1>3, <2>1, <2>2, Zenon DEF BlkInv, blkVars
<1> QED
  BY <1>1, <1>2, <1>3, PrepareStep, PublishStep, DeviceStep, Zenon DEF BlkNext

\* A call of submit that found nothing outstanding and reports success is one
\* that the device carried out, with this call's header and this call's buffer,
\* for every even size of the queue up to 120, late devices included, as long
\* as the ring's 16-bit index does not come round.
THEOREM RequestsCarriedOut == BlkSpec => []BlkCarriedOut
<1>1. BlkInv => BlkCarriedOut
  BY Zenon DEF BlkInv, CallInv, BlkCarriedOut
<1> QED
  BY <1>1, BlkStarts, BlkInductive, PTL DEF BlkSpec
=============================================================================
