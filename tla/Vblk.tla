-------------------------------- MODULE Vblk --------------------------------
(***************************************************************************)
(* The block driver (virtio.c): one request at a time, as a chain of three *)
(* descriptors that names the header, the data and the status byte, put in *)
(* the available ring and polled for in the used ring, until it is there   *)
(* or the driver gives up.  All requests share one header and one status   *)
(* byte.  The device (external) takes requests whenever it likes, late     *)
(* ones included, and stops for good at a chain that is not in the table.  *)
(* A request stands for its header and for its buffer.                     *)
(***************************************************************************)
EXTENDS Integers

CONSTANTS
  QNUM,                     \* descriptors: 120, or what the device offers
  MAX_REQUESTS              \* bound on requests; the 16-bit indices do not come round

U16 == 65536                \* the counters are of 16 bits

\* A device offers a power of two, so that only a queue of one is odd.
ASSUME BlkAssumption ==
  /\ QNUM \in 1 .. 120 /\ QNUM % 2 = 0
  /\ MAX_REQUESTS \in Nat /\ MAX_REQUESTS < U16

VARIABLES
  next_desc, next_slot, pub_idx,   \* the driver's counters
  hdr, st, desc, avail, used_idx,  \* memory shared with the device
  pc, req, last_used,              \* the call in progress
  dev,                             \* the device: [seen, stopped]
  carried,                         \* ghost: pairs of header and buffer it carried out
  alone                            \* ghost: nothing was outstanding when the call began

blkVars == <<next_desc, next_slot, pub_idx, hdr, st, desc, avail, used_idx,
             pc, req, last_used, dev, carried, alone>>

None == 0
UNKNOWN == 238              \* 0xEE
S_OK == 0
S_IOERR == 1

\* vblk_init
BlkInit ==
  /\ next_desc = 0 /\ next_slot = 0 /\ pub_idx = 0
  /\ hdr = None
  /\ st = S_OK
  /\ desc = [i \in 0 .. QNUM - 1 |-> [addr |-> "none", of |-> None, next |-> 0]]
  /\ avail = [i \in 0 .. QNUM - 1 |-> 0]
  /\ used_idx = 0
  /\ pc = "idle" /\ req = 0 /\ last_used = 0
  /\ dev = [seen |-> 0, stopped |-> FALSE]
  /\ carried = {}
  /\ alone = TRUE

\* n & (QNUM - 1), from the seven bits that the mask may have
Masked(n) ==
  LET Has(x, bit) == (x \div bit) % 2 = 1
      Both(bit) == IF Has(n, bit) /\ Has(QNUM - 1, bit) THEN bit ELSE 0
  IN  Both(1) + Both(2) + Both(4) + Both(8) + Both(16) + Both(32) + Both(64)

\* The data and the status have the same descriptor.
Bug_Chain(head) == <<head, Masked(head + 1), Masked(head + 1)>>

\* The head is not reduced to the size of the table.
Chain(head) == <<head, Masked(head + 1), Masked(head + 2)>>

\* wr_desc three times.  A head outside the table is written behind it.
WithChain(table, c, r) ==
  [i \in DOMAIN table |->
     CASE i = c[3] -> [addr |-> "st", of |-> r, next |-> 0]
       [] i = c[2] /\ i # c[3] -> [addr |-> "buf", of |-> r, next |-> c[3]]
       [] i = c[1] /\ i # c[2] /\ i # c[3] -> [addr |-> "hdr", of |-> r, next |-> c[2]]
       [] OTHER -> table[i]]

\* submit, up to the audit of the chain
Prepare ==
  /\ pc = "idle" /\ req < MAX_REQUESTS
  /\ pc' = "prepared"
  /\ req' = req + 1
  /\ hdr' = req + 1
  /\ st' = UNKNOWN
  /\ desc' = WithChain(desc, Chain(next_desc), req + 1)
  /\ next_desc' = (next_desc + 3) % U16
  /\ last_used' = used_idx
  /\ alone' = (dev.seen = pub_idx)
  /\ UNCHANGED <<next_slot, pub_idx, avail, used_idx, dev, carried>>

\* The ring entry, then the index, then the notification
Publish ==
  /\ pc = "prepared"
  /\ pc' = "poll"
  /\ avail' = [avail EXCEPT ![next_slot] = (next_desc - 3) % U16]
  /\ next_slot' = (next_slot + 1) % QNUM
  /\ pub_idx' = (pub_idx + 1) % U16
  /\ UNCHANGED <<next_desc, hdr, st, desc, used_idx, req, last_used, dev, carried, alone>>

BufferOf(d) == IF d.addr = "buf" THEN d.of ELSE None

\* External: the next chain in the available ring, whatever is in it now.
Device ==
  /\ dev.seen # pub_idx /\ ~dev.stopped
  /\ LET head == avail[dev.seen % QNUM]
     IN  IF head >= QNUM \/ desc[head].addr # "hdr"
         THEN /\ dev' = [dev EXCEPT !.stopped = TRUE]
              /\ UNCHANGED <<st, used_idx, carried>>
         ELSE /\ dev' = [dev EXCEPT !.seen = (@ + 1) % U16]
              /\ used_idx' = (used_idx + 1) % U16
              /\ \/ st' = S_OK /\ carried' = carried \cup {<<hdr, BufferOf(desc[desc[head].next])>>}
                 \/ st' = S_IOERR /\ UNCHANGED carried
  /\ UNCHANGED <<next_desc, next_slot, pub_idx, hdr, desc, avail, pc, req, last_used, alone>>

Completed == used_idx # last_used

\* The used index has moved: the status byte is the result.
Done ==
  /\ pc = "poll" /\ Completed
  /\ pc' = IF st = S_OK THEN "ok" ELSE "error"
  /\ UNCHANGED <<next_desc, next_slot, pub_idx, hdr, st, desc, avail, used_idx, req,
                 last_used, dev, carried, alone>>

\* 20000000 rounds: -1, with the request still in the ring
TimeOut ==
  /\ pc = "poll" /\ ~Completed
  /\ pc' = "error"
  /\ UNCHANGED <<next_desc, next_slot, pub_idx, hdr, st, desc, avail, used_idx, req,
                 last_used, dev, carried, alone>>

Return ==
  /\ pc \in {"ok", "error"}
  /\ pc' = "idle"
  /\ UNCHANGED <<next_desc, next_slot, pub_idx, hdr, st, desc, avail, used_idx, req,
                 last_used, dev, carried, alone>>

BlkNext == Prepare \/ Publish \/ Device \/ Done \/ TimeOut \/ Return

BlkSpec == BlkInit /\ [][BlkNext]_blkVars

-----------------------------------------------------------------------------
(* Properties                                                              *)

\* A call that reports success, and that found no earlier request in the
\* ring, given up and not completed, is one whose request the device carried
\* out, with this call's header and this call's buffer (submit).
BlkCarriedOut == pc = "ok" /\ alone => <<req, req>> \in carried

=============================================================================
