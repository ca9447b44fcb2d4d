------------------------------ MODULE MCSerial ------------------------------
(***************************************************************************)
(* The parts of the kernel whose operations run one at a time, with        *)
(* interrupts masked, before there are tasks, or in one task alone, and    *)
(* the Rust crates that run each operation under a lock.  They share no    *)
(* variable: a behaviour exercises one of them.                            *)
(***************************************************************************)
EXTENDS Afs, Vblk, Ramfs, Descriptors, Log, Shell, Memory, Loader, Ipc, Engine,
        HostKernel, RustIpc, RustFrames, RustCaps, Bitwise

VARIABLE part

\* The block driver's mask is the bitwise one, for every descriptor of the run.
ASSUME MaskIsAnd == \A n \in 0 .. 3 * MAX_REQUESTS + 2 : Masked(n) = n & (QNUM - 1)

storageVars == <<afsVars, blkVars, ramVars, devVars>>
systemVars == <<logVars, shellVars, memVars, ldrVars>>
serviceVars == <<vars, engVars, hostVars>>
crateVars == <<riVars, rfVars, rcVars>>

serialInit ==
  /\ part \in {"afs", "vblk", "ramfs", "device", "log", "shell", "memory",
               "loader", "ipc", "engine", "host", "rust_ipc", "rust_frames", "rust_caps"}
  /\ AfsInit /\ BlkInit /\ RamInit /\ DevInit /\ LogInit /\ ShellInit /\ MemInit
  /\ LdrInit /\ ipc_init /\ EngInit /\ HostInit /\ RiInit /\ RfInit /\ RcInit
  /\ part # "loader" => blob = "none" /\ ~mem.stopped /\ ~uart.stopped

Afs == part = "afs" /\ AfsNext
  /\ UNCHANGED <<part, blkVars, ramVars, devVars, systemVars, serviceVars, crateVars>>
Vblk == part = "vblk" /\ BlkNext
  /\ UNCHANGED <<part, afsVars, ramVars, devVars, systemVars, serviceVars, crateVars>>
Ramfs == part = "ramfs" /\ RamNext
  /\ UNCHANGED <<part, afsVars, blkVars, devVars, systemVars, serviceVars, crateVars>>
Descriptors == part = "device" /\ DevNext
  /\ UNCHANGED <<part, afsVars, blkVars, ramVars, systemVars, serviceVars, crateVars>>
Log == part = "log" /\ LogNext
  /\ UNCHANGED <<part, storageVars, shellVars, memVars, ldrVars, serviceVars, crateVars>>
Shell == part = "shell" /\ ShellNext
  /\ UNCHANGED <<part, storageVars, logVars, memVars, ldrVars, serviceVars, crateVars>>
Memory == part = "memory" /\ MemNext
  /\ UNCHANGED <<part, storageVars, logVars, shellVars, ldrVars, serviceVars, crateVars>>
Loader == part = "loader" /\ LdrNext
  /\ UNCHANGED <<part, storageVars, logVars, shellVars, memVars, serviceVars, crateVars>>
Ipc == part = "ipc" /\ Next
  /\ UNCHANGED <<part, storageVars, systemVars, engVars, hostVars, crateVars>>
Engine == part = "engine" /\ EngNext
  /\ UNCHANGED <<part, storageVars, systemVars, vars, hostVars, crateVars>>
HostKernel == part = "host" /\ HostNext
  /\ UNCHANGED <<part, storageVars, systemVars, vars, engVars, crateVars>>
RustIpc == part = "rust_ipc" /\ RiNext
  /\ UNCHANGED <<part, storageVars, systemVars, serviceVars, rfVars, rcVars>>
RustFrames == part = "rust_frames" /\ RfNext
  /\ UNCHANGED <<part, storageVars, systemVars, serviceVars, riVars, rcVars>>
RustCaps == part = "rust_caps" /\ RcNext
  /\ UNCHANGED <<part, storageVars, systemVars, serviceVars, riVars, rfVars>>

serialNext ==
  \/ Afs \/ Vblk \/ Ramfs \/ Descriptors \/ Log \/ Shell \/ Memory \/ Loader \/ Ipc
  \/ Engine \/ HostKernel \/ RustIpc \/ RustFrames \/ RustCaps

serialVars == <<part, storageVars, systemVars, serviceVars, crateVars>>

serialSpec == serialInit /\ [][serialNext]_serialVars
=============================================================================
