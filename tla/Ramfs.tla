-------------------------------- MODULE Ramfs --------------------------------
(***************************************************************************)
(* The RAM file system (ramfs.c).  Its names are compared over all 16      *)
(* bytes of the field, those behind the terminator included: a caller's    *)
(* name is a string and what follows it in memory, which is the user's for *)
(* SYS_CREATE and SYS_DELETE and the compiler's for the kernel's literals. *)
(* A stored name is followed by zeros.                                     *)
(***************************************************************************)
EXTENDS Integers, FiniteSets

CONSTANTS
  RAM_NAMES,
  FULL_NAMES,               \* those of 16 characters: nothing follows them
  RAMFS_MAX_FILES,          \* 32
  RAMFS_MAX_SIZE,           \* 4096
  RAM_LENGTHS               \* lengths written, at offset 0 as all callers do

ASSUME RamfsAssumption ==
  /\ RAMFS_MAX_FILES \in Nat /\ RAMFS_MAX_SIZE \in Nat
  /\ RAM_LENGTHS \subseteq Nat

VARIABLES
  files, file_count,
  loose,                    \* ghost: names created by a caller whose name had
                            \* other bytes than zeros behind it
  written                   \* ghost: written[i]: the bytes of slot i that were
                            \* written since its file was created

ramVars == <<files, file_count, loose, written>>

FileSlots == 1 .. RAMFS_MAX_FILES

\* A name as a caller passes it
RamNames == RAM_NAMES \X {"zeros", "junk"}

Padded(name) == name[2] = "zeros" \/ name[1] \in FULL_NAMES

RamInit ==
  /\ files = [i \in FileSlots |-> [in_use |-> FALSE, name |-> "", size |-> 0]]
  /\ file_count = 0
  /\ loose = {}
  /\ written = [i \in FileSlots |-> {}]

Matches(i, name) == files[i].in_use /\ files[i].name = name[1] /\ Padded(name)

Matching(name) == {i \in FileSlots : Matches(i, name)}

\* The first of them; none is NULL.
find_file(name) == {i \in Matching(name) : \A j \in Matching(name) : i <= j}

\* A file of the name is not looked for.
Bug_ramfs_create(name) ==
  /\ \E i \in FileSlots :
       /\ ~files[i].in_use /\ \A j \in 1 .. i - 1 : files[j].in_use
       /\ files' = [files EXCEPT ![i] = [in_use |-> TRUE, name |-> name[1], size |-> 0]]
       /\ written' = [written EXCEPT ![i] = {}]
  /\ file_count' = file_count + 1
  /\ loose' = IF Padded(name) THEN loose ELSE loose \cup {name[1]}

\* The first free slot, its data as they are.  A name that is found is
\* RAMFS_OK too; a full table changes nothing.  What follows the caller's
\* name is not stored.
ramfs_create(name) ==
  /\ Matching(name) = {}
  /\ \E i \in FileSlots :
       /\ ~files[i].in_use /\ \A j \in 1 .. i - 1 : files[j].in_use
       /\ files' = [files EXCEPT ![i] = [in_use |-> TRUE, name |-> name[1], size |-> 0]]
       /\ written' = [written EXCEPT ![i] = {}]
  /\ file_count' = file_count + 1
  /\ loose' = IF Padded(name) THEN loose ELSE loose \cup {name[1]}

\* What does not fit is left out.
ramfs_write(name, len, offset) ==
  LET end == IF len > RAMFS_MAX_SIZE - offset THEN RAMFS_MAX_SIZE ELSE offset + len
  IN  /\ offset < RAMFS_MAX_SIZE
      /\ \E i \in find_file(name) :
           /\ files' = [files EXCEPT ![i].size = IF @ < end THEN end ELSE @]
           /\ written' = [written EXCEPT ![i] = @ \cup offset .. end - 1]
      /\ UNCHANGED <<file_count, loose>>

ramfs_delete(name) ==
  /\ \E i \in find_file(name) :
       files' = [files EXCEPT ![i].in_use = FALSE, ![i].size = 0]
  /\ file_count' = file_count - 1
  /\ UNCHANGED <<loose, written>>

RamNext ==
  \E name \in RamNames :
    \/ ramfs_create(name)
    \/ \E len \in RAM_LENGTHS : ramfs_write(name, len, 0)
    \/ ramfs_delete(name)

RamSpec == RamInit /\ [][RamNext]_ramVars

\* The bytes of the file that ramfs_read returns
ramfs_read(i, len, offset) ==
  {b \in offset .. offset + len - 1 : b < files[i].size}

-----------------------------------------------------------------------------
(* Properties                                                              *)

\* The count is that of the slots in use.  Two files have one name only if a
\* caller created the name with other bytes than zeros behind it, which finds
\* no file; every other caller reaches the one file of the name, whatever was
\* created and deleted in between.  What a reader gets of a file was written
\* to it since it was created, never to the deleted file whose slot and data
\* it took over (find_file, ramfs_create, ramfs_write, ramfs_read).
RamTable ==
  /\ file_count = Cardinality({i \in FileSlots : files[i].in_use})
  /\ \A i, j \in FileSlots :
       files[i].in_use /\ files[j].in_use /\ files[i].name = files[j].name =>
         i = j \/ files[i].name \in loose
  /\ \A i \in FileSlots : ramfs_read(i, 2 * RAMFS_MAX_SIZE, 0) \subseteq written[i]

=============================================================================
