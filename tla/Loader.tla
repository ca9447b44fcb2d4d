------------------------------- MODULE Loader -------------------------------
(***************************************************************************)
(* The stage-2 loader (loader.c): it walks the device tree twice, for the  *)
(* console and for the memory, and fills in the boot information.  The     *)
(* blob is the sequence of its tokens, chosen as the walk goes on: any     *)
(* sequence, well formed or not, that may end at any place.  Both walks    *)
(* are deterministic and read the same blob, so they are made side by      *)
(* side.  A node has one of a few names; a property carries its number of  *)
(* cells and its first numbers.                                            *)
(***************************************************************************)
EXTENDS Integers, Sequences

CONSTANTS
  BASES, RAM_SIZES,         \* what a reg property may hold
  RAM_START, KERNEL_MIN_SIZE, RAM_LIMIT,
  UART_BASE, DEFAULT_RAM_SIZE,
  MAX_TOKENS, MAX_DEPTH     \* bounds on the blob

\* serial@, uart@, pl011@ and ns16550 are "serial".
NodeNames == {"memory", "serial", "other"}
\* What #address-cells and #size-cells may hold (1 and 2 are accepted), and
\* the cells of a reg, up to one more than any accepted pair adds up to.
CellCounts == 0 .. 3
RegCells == 0 .. 5

VARIABLES
  blob,                     \* "none", "open", "read"
  mem,                      \* dtb_memory: its variables and its result
  uart,                     \* dtb_find_uart: likewise
  tokens,                   \* how many were read
  path,                     \* ghost: names of the open nodes
  cells,                    \* ghost: cell counts declared by the root
  bi                        \* bootinfo_t: flags, ram_size and uart_base

ldrVars == <<blob, mem, uart, tokens, path, cells, bi>>

NoInfo == [ram_measured |-> FALSE, uart_valid |-> FALSE, ram_size |-> 0, uart_base |-> 0]
Missing == [found |-> FALSE, base |-> 0, size |-> 0]

\* dtb_sniff accepts the pointer or does not; the walks refuse a blob whose
\* blocks lie outside it, dtb_memory also for its strings.
LdrInit ==
  /\ blob \in {"none", "open"}
  /\ \E bad, bad_strings \in BOOLEAN :
       /\ mem = [depth |-> 0, node |-> FALSE, addr |-> 2, size |-> 1, result |-> Missing,
                 stopped |-> bad \/ bad_strings]
       /\ uart = [depth |-> 0, node |-> FALSE, addr |-> 2, result |-> Missing, stopped |-> bad]
  /\ tokens = 0
  /\ path = <<>>
  /\ cells = [addr |-> 2, size |-> 1]
  /\ bi = NoInfo

Reading == blob = "open" /\ tokens < MAX_TOKENS /\ tokens' = tokens + 1

-----------------------------------------------------------------------------
(* Tokens.  A walk that has stopped looks at nothing more.                 *)

\* A node of the right name counts wherever it stands.
Bug_IsNode(walk, names, name) == walk.depth > 0 /\ name \in names

\* Children of the root only
IsNode(walk, names, name) == walk.depth = 1 /\ name \in names

BeginNode(walk, names, name) ==
  IF walk.stopped THEN walk
  ELSE [walk EXCEPT !.depth = @ + 1, !.node = IsNode(walk, names, name)]

FDT_BEGIN_NODE(name) ==
  /\ Reading /\ Len(path) < MAX_DEPTH
  /\ mem' = BeginNode(mem, {"memory"}, name)
  /\ uart' = BeginNode(uart, {"serial"}, name)
  /\ path' = Append(path, name)
  /\ UNCHANGED <<blob, cells, bi>>

EndNode(walk) ==
  IF walk.stopped THEN walk
  ELSE [walk EXCEPT !.depth = IF @ > 0 THEN @ - 1 ELSE 0, !.node = FALSE]

FDT_END_NODE ==
  /\ Reading
  /\ mem' = EndNode(mem)
  /\ uart' = EndNode(uart)
  /\ path' = IF path = <<>> THEN path ELSE SubSeq(path, 1, Len(path) - 1)
  /\ UNCHANGED <<blob, cells, bi>>

\* #address-cells or #size-cells, of the root
CellsProp(which, n) ==
  /\ Reading
  /\ mem' = IF mem.stopped \/ mem.node \/ mem.depth # 1 THEN mem ELSE [mem EXCEPT ![which] = n]
  /\ uart' = IF uart.stopped \/ uart.node \/ uart.depth # 1 \/ which # "addr" THEN uart
             ELSE [uart EXCEPT !.addr = n]
  /\ cells' = IF Len(path) = 1 THEN [cells EXCEPT ![which] = n] ELSE cells
  /\ UNCHANGED <<blob, path, bi>>

\* The memory walk ends with the first reg, good or bad.
MemReg(n, base, size) ==
  IF mem.stopped \/ ~mem.node THEN mem
  ELSE [mem EXCEPT !.stopped = TRUE,
          !.result = IF mem.addr \in 1 .. 2 /\ mem.size \in 1 .. 2 /\ n = mem.addr + mem.size
                     THEN [found |-> TRUE, base |-> base, size |-> size] ELSE Missing]

\* A base of 0 is as good as none; a bad cell count ends the walk without.
UartReg(base) ==
  IF uart.stopped \/ ~uart.node \/ uart.result.base # 0 THEN uart
  ELSE IF uart.addr \in 1 .. 2
  THEN [uart EXCEPT !.result = [found |-> base # 0, base |-> base, size |-> 0]]
  ELSE [uart EXCEPT !.stopped = TRUE, !.result = Missing]

\* dtb_find_uart does not look at the length: with too few cells it decodes
\* what follows in the blob.
RegProp(n, base, size) ==
  /\ Reading
  /\ mem' = MemReg(n, base, size)
  /\ \E decoded \in IF n >= uart.addr THEN {base} ELSE BASES : uart' = UartReg(decoded)
  /\ UNCHANGED <<blob, path, cells, bi>>

\* A token or a length that cannot be: both walks give up.  The end of the
\* block or FDT_END: the memory walk has found nothing.
Ends(corrupt) ==
  /\ blob = "open"
  /\ blob' = "read"
  /\ mem' = [mem EXCEPT !.stopped = TRUE]
  /\ uart' = IF uart.stopped THEN uart
             ELSE [uart EXCEPT !.stopped = TRUE, !.result = IF corrupt THEN Missing ELSE @]
  /\ UNCHANGED <<tokens, path, cells, bi>>

-----------------------------------------------------------------------------

Believed ==
  /\ mem.result.found /\ mem.result.base = RAM_START
  /\ mem.result.size \in KERNEL_MIN_SIZE .. RAM_LIMIT

loader_main ==
  /\ blob \in {"none", "read"} /\ bi = NoInfo
  /\ bi' = [ram_measured |-> Believed,
            uart_valid |-> uart.result.found,
            ram_size |-> IF Believed THEN mem.result.size ELSE DEFAULT_RAM_SIZE,
            uart_base |-> IF uart.result.found THEN uart.result.base ELSE UART_BASE]
  /\ UNCHANGED <<blob, mem, uart, tokens, path, cells>>

LdrNext ==
  \/ \E name \in NodeNames : FDT_BEGIN_NODE(name)
  \/ FDT_END_NODE
  \/ \E which \in {"addr", "size"}, n \in CellCounts : CellsProp(which, n)
  \/ \E n \in RegCells, base \in BASES, size \in RAM_SIZES : RegProp(n, base, size)
  \/ \E corrupt \in BOOLEAN : Ends(corrupt)
  \/ loader_main

LdrSpec == LdrInit /\ [][LdrNext]_ldrVars

-----------------------------------------------------------------------------
(* Properties                                                              *)

\* A walk takes itself to be in the node it looks for only when it is: the
\* innermost open node is a child of the root of that name, however the
\* nodes are nested and whichever were closed too often (dtb_memory,
\* dtb_find_uart).
LdrInNode ==
  /\ ~mem.stopped /\ mem.node => Len(path) = 2 /\ path[2] = "memory"
  /\ ~uart.stopped /\ uart.node => Len(path) = 2 /\ path[2] = "serial"

\* A walk that goes on decodes with the counts of cells the root declared
\* last, not with those of another node (dtb_memory, dtb_find_uart).
LdrCells ==
  /\ ~mem.stopped => mem.addr = cells.addr /\ mem.size = cells.size
  /\ ~uart.stopped => uart.addr = cells.addr

\* The size handed to the kernel is the default, or was measured: it then
\* belongs to memory at RAM_START and lies between the limits (loader_main).
LdrRamSize ==
  bi # NoInfo =>
    IF bi.ram_measured
    THEN mem.result.base = RAM_START /\ bi.ram_size \in KERNEL_MIN_SIZE .. RAM_LIMIT
    ELSE bi.ram_size = DEFAULT_RAM_SIZE

\* What the loader passes on is what the tree says of the node meant, decoded
\* with the tree's own cell counts, or the default (dtb_memory,
\* dtb_find_uart, loader_main).
LdrFromTree == LdrInNode /\ LdrCells /\ LdrRamSize
=============================================================================
