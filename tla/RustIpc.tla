------------------------------ MODULE RustIpc ------------------------------
(***************************************************************************)
(* The Rust IPC crate (ipc/src): channels with a configured capacity and   *)
(* message size.  A message is known by its place in the order of sends;   *)
(* its size is what Message::new makes of the data it is given.            *)
(***************************************************************************)
EXTENDS Integers, Sequences

CONSTANTS
  MAX_CHANNELS,      \* 32
  DATA_SIZE,         \* bytes a message holds: 64
  CAPACITIES,        \* max_messages of a configuration
  LENGTHS,           \* lengths of data, and limits on the message size
  MAX_SENT           \* bound on the sends of a channel

ASSUME RustIpcAssumption ==
  /\ MAX_CHANNELS \in Nat /\ DATA_SIZE \in Nat /\ MAX_SENT \in Nat
  /\ CAPACITIES \subseteq Nat /\ LENGTHS \subseteq Nat

ChannelIds == 0 .. MAX_CHANNELS - 1

ChannelConfig == [max_messages : CAPACITIES, max_message_size : LENGTHS,
                  bounded : BOOLEAN]

VARIABLES
  riReady,           \* initialized
  riChannels         \* channels; used = FALSE is None

riVars == <<riReady, riChannels>>

Channel(config) ==
  [used |-> TRUE, config |-> config, queue |-> <<>>,
   messages_sent |-> 0, messages_received |-> 0, closed |-> FALSE]

RiInit ==
  /\ riReady = FALSE
  /\ riChannels = [c \in ChannelIds |-> [used |-> FALSE]]

RiSetUp == ~riReady /\ riReady' = TRUE /\ UNCHANGED riChannels

create_channel(config) ==
  /\ riReady
  /\ \E c \in ChannelIds :
       /\ ~riChannels[c].used /\ \A d \in 0 .. c - 1 : riChannels[d].used
       /\ riChannels' = [riChannels EXCEPT ![c] = Channel(config)]
  /\ UNCHANGED riReady

\* What Message::new makes of data that fits.  (Longer data makes it panic:
\* copy_from_slice wants equal lengths.)
MessageSizes == {n \in LENGTHS : n <= DATA_SIZE}

\* A bound that lets one more in.
Bug_Accepts(ch, size) ==
  /\ ~ch.closed
  /\ size <= ch.config.max_message_size
  /\ ch.config.bounded => Len(ch.queue) <= ch.config.max_messages

Accepts(ch, size) ==
  /\ ~ch.closed
  /\ size <= ch.config.max_message_size
  /\ ch.config.bounded => Len(ch.queue) < ch.config.max_messages

send(c, size) ==
  /\ riChannels[c].used /\ Accepts(riChannels[c], size)
  /\ riChannels[c].messages_sent < MAX_SENT
  /\ riChannels' =
       [riChannels EXCEPT
          ![c].queue = Append(@, [nr |-> riChannels[c].messages_sent + 1, size |-> size]),
          ![c].messages_sent = @ + 1]
  /\ UNCHANGED riReady

receive(c) ==
  /\ riChannels[c].used /\ ~riChannels[c].closed
  /\ riChannels[c].queue # <<>>
  /\ riChannels' = [riChannels EXCEPT ![c].queue = Tail(@),
                                      ![c].messages_received = @ + 1]
  /\ UNCHANGED riReady

close(c) ==
  /\ riChannels[c].used
  /\ riChannels' = [riChannels EXCEPT ![c].closed = TRUE, ![c].queue = <<>>]
  /\ UNCHANGED riReady

RiNext ==
  \/ RiSetUp
  \/ \E config \in ChannelConfig : create_channel(config)
  \/ \E c \in ChannelIds :
       \/ \E size \in MessageSizes : send(c, size)
       \/ receive(c)
       \/ close(c)

RiSpec == RiInit /\ [][RiNext]_riVars

(***************************************************************************)
(* Every message is received once and in the order of the sends: what an   *)
(* open channel holds are exactly the sends behind the last receive, no    *)
(* more than its capacity and none above its size limit; a closed channel  *)
(* holds nothing.                                                          *)
(***************************************************************************)
RiExactlyOnce ==
  \A c \in {d \in ChannelIds : riChannels[d].used} :
    LET ch == riChannels[c]
    IN  IF ch.closed THEN ch.queue = <<>>
        ELSE /\ Len(ch.queue) = ch.messages_sent - ch.messages_received
             /\ ch.config.bounded => Len(ch.queue) <= ch.config.max_messages
             /\ \A i \in 1 .. Len(ch.queue) :
                  /\ ch.queue[i].nr = ch.messages_received + i
                  /\ ch.queue[i].size <= ch.config.max_message_size
=============================================================================
