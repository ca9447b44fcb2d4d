--------------------------------- MODULE Net ---------------------------------
(***************************************************************************)
(* The network stack (net.c): resolving the gateway, answering ARP and     *)
(* echo requests, and ping.  A frame is its kind and, for an echo, its     *)
(* number.  The wire and the peers (external) lose, delay and repeat       *)
(* frames, and send any at any time.  The stack runs in one task; its      *)
(* steps are the frames it takes from the driver and its looks at the      *)
(* clock.                                                                  *)
(***************************************************************************)
EXTENDS Integers, Sequences

CONSTANTS
  PING_COUNT,               \* requests of one ping: the argument count
  MAX_PINGS,                \* bound on calls of net_ping
  RX_BUFFERS,               \* frames that wait in the driver
  MAX_ARRIVALS              \* bound on frames that arrive

ASSUME NetAssumption ==
  PING_COUNT \in Nat /\ MAX_PINGS \in Nat /\ RX_BUFFERS \in Nat /\ MAX_ARRIVALS \in Nat

VARIABLES
  have_gw_mac,
  rx,                       \* frames that vnet_recv will return
  tx,                       \* [kind, seq, to] of the frames sent
  at,                       \* where the task is
  ping_i, replies, pings,   \* of net_ping; pings counts its calls
  arrivals,                 \* how many frames arrived
  told,                     \* ghost: the gateway's answer has arrived
  counted                   \* ghost: [asked, came] of the replies counted

netVars == <<have_gw_mac, rx, tx, at, ping_i, replies, pings, arrivals, told, counted>>

Sent(kind, seq, to) == [kind |-> kind, seq |-> seq, to |-> to]

\* net_init asks for the gateway's address and polls.
NetInit ==
  /\ have_gw_mac = FALSE /\ told = FALSE
  /\ rx = <<>>
  /\ tx = {Sent("arp_request", 0, "all")}
  /\ at = "init"
  /\ ping_i = 0 /\ replies = 0 /\ pings = 0 /\ arrivals = 0
  /\ counted = {}

-----------------------------------------------------------------------------
(* External: a frame arrives, or is lost when no buffer is free.  What is  *)
(* an answer follows the request.  "other" is of another protocol and has  *)
(* in its eighth byte what an echo has there.  `came` is the request that  *)
(* is awaited at that moment.                                              *)

OnTheWire ==
  [kind : {"arp_request", "echo_request", "other"}, seq : {1}]
    \cup {f \in [kind : {"arp_reply"}, seq : {0}] : Sent("arp_request", 0, "all") \in tx}
    \cup {f \in [kind : {"echo_reply"}, seq : 1 .. PING_COUNT] :
            Sent("echo_request", f.seq, "gateway") \in tx}

Awaiting == at \in {"await", "look", "clock"}

Arrive ==
  /\ arrivals < MAX_ARRIVALS /\ Len(rx) < RX_BUFFERS
  /\ arrivals' = arrivals + 1
  /\ \E f \in OnTheWire :
       /\ rx' = Append(rx, [kind |-> f.kind, seq |-> f.seq,
                            came |-> IF Awaiting THEN <<pings, ping_i>> ELSE <<0, 0>>])
       /\ told' = (told \/ f.kind = "arp_reply")
  /\ UNCHANGED <<have_gw_mac, tx, at, ping_i, replies, pings, counted>>

-----------------------------------------------------------------------------
(* Sending and receiving                                                   *)

\* ip_send: to the gateway, or to all as long as it is not known
IpTo == IF have_gw_mac THEN "gateway" ELSE "all"

\* An echo goes back with its type as it came.  Replies to our own requests
\* fall through.
handle_rx(frame) ==
  /\ have_gw_mac' = (have_gw_mac \/ frame.kind = "arp_reply")
  /\ tx' = tx \cup
       CASE frame.kind = "arp_request" -> {Sent("arp_reply", 0, "asker")}
         [] frame.kind = "echo_request" -> {Sent("echo_returned", frame.seq, IpTo)}
         [] OTHER -> {}

\* One turn of the loop of net_poll; it returns when there is no frame.
net_poll ==
  /\ at \in {"init", "resolve", "await"}
  /\ IF rx # <<>>
     THEN handle_rx(Head(rx)) /\ rx' = Tail(rx) /\ UNCHANGED at
     ELSE /\ at' = CASE at = "init" -> "init_clock"
                     [] at = "resolve" -> "resolve_clock"
                     [] at = "await" -> "look"
          /\ UNCHANGED <<have_gw_mac, rx, tx>>
  /\ UNCHANGED <<ping_i, replies, pings, arrivals, told, counted>>

\* Until the gateway is known or 50 ticks are over
net_init ==
  /\ at = "init_clock"
  /\ \/ at' = "idle"
     \/ ~have_gw_mac /\ at' = "init"
  /\ UNCHANGED <<have_gw_mac, rx, tx, ping_i, replies, pings, arrivals, told, counted>>

-----------------------------------------------------------------------------
(* net_ping                                                                *)

\* The reply is looked for before what is old has been drained.
Bug_icmp_echo_request(n) ==
  /\ at' = "look"
  /\ tx' = tx \cup {Sent("echo_request", n, IpTo)}

icmp_echo_request(n) ==
  /\ at' = "await"
  /\ tx' = tx \cup {Sent("echo_request", n, IpTo)}

\* The head of the loop
Round(n) ==
  /\ ping_i' = n
  /\ \/ n > PING_COUNT /\ at' = "done" /\ UNCHANGED tx
     \/ n <= PING_COUNT /\ have_gw_mac /\ icmp_echo_request(n)
     \/ n <= PING_COUNT /\ ~have_gw_mac /\ at' = "resolve"
          /\ tx' = tx \cup {Sent("arp_request", 0, "all")}

net_ping ==
  /\ at = "idle" /\ pings < MAX_PINGS
  /\ pings' = pings + 1
  /\ replies' = 0
  /\ Round(1)
  /\ UNCHANGED <<have_gw_mac, rx, arrivals, told, counted>>

\* The gateway is known: send.  30 ticks are over: on to the next request.
Resolved ==
  /\ at = "resolve_clock"
  /\ IF have_gw_mac THEN icmp_echo_request(ping_i) /\ UNCHANGED ping_i ELSE Round(ping_i + 1)
  /\ UNCHANGED <<have_gw_mac, rx, replies, pings, arrivals, told, counted>>

\* 100 ticks are over.
RequestTimeout ==
  /\ at = "clock"
  /\ Round(ping_i + 1)
  /\ UNCHANGED <<have_gw_mac, rx, replies, pings, arrivals, told, counted>>

\* There is time left.
PollAgain ==
  /\ \/ at = "clock" /\ at' = "await"
     \/ at = "resolve_clock" /\ ~have_gw_mac /\ at' = "resolve"
  /\ UNCHANGED <<have_gw_mac, rx, tx, ping_i, replies, pings, arrivals, told, counted>>

IsReply(frame) == frame.kind \in {"echo_reply", "other"} /\ frame.seq = ping_i

\* The clock is not looked at.
Bug_Look ==
  /\ at = "look"
  /\ at' = "await"
  /\ rx' = IF rx = <<>> THEN rx ELSE Tail(rx)
  /\ UNCHANGED <<have_gw_mac, tx, ping_i, replies, pings, arrivals, told, counted>>

\* One vnet_recv behind net_poll: a frame that is not the reply is dropped.
Look ==
  /\ at = "look"
  /\ IF rx # <<>> /\ IsReply(Head(rx))
     THEN /\ replies' = replies + 1
          /\ counted' = counted \cup {[asked |-> <<pings, ping_i>>, came |-> Head(rx).came]}
          /\ Round(ping_i + 1)
     ELSE at' = "clock" /\ UNCHANGED <<tx, ping_i, replies, counted>>
  /\ rx' = IF rx = <<>> THEN rx ELSE Tail(rx)
  /\ UNCHANGED <<have_gw_mac, pings, arrivals, told>>

PingReturns ==
  /\ at = "done"
  /\ at' = "idle"
  /\ UNCHANGED <<have_gw_mac, rx, tx, ping_i, replies, pings, arrivals, told, counted>>

NetNext ==
  \/ Arrive \/ net_poll \/ net_init \/ net_ping \/ Resolved \/ RequestTimeout \/ PollAgain
  \/ Look \/ PingReturns

\* The task keeps running; the clock goes on, so that a loop that looks at
\* it again and again sees its time over.
NetFairness ==
  /\ WF_netVars(net_poll) /\ WF_netVars(Look)
  /\ SF_netVars(Resolved) /\ SF_netVars(RequestTimeout)

NetSpec == NetInit /\ [][NetNext]_netVars /\ NetFairness

-----------------------------------------------------------------------------
(* Properties                                                              *)

\* What ping counts arrived while that request was awaited: a frame left
\* over from an earlier request or an earlier ping is never taken for the
\* reply, because net_poll drains the queue first (net_ping).
NetFresh == \A c \in counted : c.came = c.asked

\* The gateway is taken for known only when it has answered, and a ping
\* request never goes out to all (handle_rx, net_ping).
NetGateway ==
  /\ have_gw_mac => told
  /\ \A f \in tx : f.kind = "echo_request" => f.to = "gateway"

\* What the stack believes of its peers, they have said, and said in time
\* (handle_rx, net_ping).
NetTrusted == NetFresh /\ NetGateway

\* Ping ends whatever is lost: every wait in it is bounded by the clock, as
\* long as frames do not come faster than net_poll takes them (net_ping).
NetPingEnds == Awaiting \/ at \in {"resolve", "resolve_clock"} ~> at = "done"

=============================================================================
