--------------------------------- MODULE Log ---------------------------------
(***************************************************************************)
(* The kernel log (log.c): a ring of the latest entries, a level below     *)
(* which nothing is logged, and two totals.  An entry is known by its      *)
(* number.                                                                 *)
(***************************************************************************)
EXTENDS Integers, Sequences, FiniteSets

CONSTANTS
  LOG_MAX_ENTRIES,          \* 64
  MAX_LOGGED                \* bound on entries

ASSUME LogAssumption == LOG_MAX_ENTRIES \in Nat \ {0} /\ MAX_LOGGED \in Nat

\* LOG_TRACE, DEBUG, INFO, WARN, ERROR, FATAL, NONE; no entry has the last.
log_level_t == 0 .. 6
LogInfo == 2
LogError == 4
LogNone == 6

VARIABLES log_buffer, log_head, log_total_count, log_error_total, current_level,
          logged            \* ghost: the level of every entry, in order

logVars == <<log_buffer, log_head, log_total_count, log_error_total, current_level, logged>>

\* log_init logs its own start.
LogInit ==
  /\ log_buffer = [i \in 0 .. LOG_MAX_ENTRIES - 1 |-> IF i = 0 THEN 1 ELSE 0]
  /\ log_head = 1 % LOG_MAX_ENTRIES
  /\ log_total_count = 1
  /\ log_error_total = 0
  /\ current_level = LogInfo
  /\ logged = <<LogInfo>>

\* The head stays at the end of the buffer.
Bug_Advanced(head) == IF head + 1 < LOG_MAX_ENTRIES THEN head + 1 ELSE head

Advanced(head) == (head + 1) % LOG_MAX_ENTRIES

log_write(level) ==
  /\ level >= current_level
  /\ Len(logged) < MAX_LOGGED
  /\ log_buffer' = [log_buffer EXCEPT ![log_head] = log_total_count + 1]
  /\ log_head' = Advanced(log_head)
  /\ log_total_count' = log_total_count + 1
  /\ log_error_total' = IF level >= LogError THEN log_error_total + 1 ELSE log_error_total
  /\ logged' = Append(logged, level)
  /\ UNCHANGED current_level

log_set_level(level) ==
  /\ current_level' = level
  /\ UNCHANGED <<log_buffer, log_head, log_total_count, log_error_total, logged>>

LogNext ==
  \/ \E level \in log_level_t \ {LogNone} : log_write(level)
  \/ \E level \in log_level_t : log_set_level(level)

LogSpec == LogInit /\ [][LogNext]_logVars

\* What log_dump prints, oldest first
log_dump ==
  LET count == IF log_total_count < LOG_MAX_ENTRIES THEN log_total_count ELSE LOG_MAX_ENTRIES
      start == IF log_total_count < LOG_MAX_ENTRIES THEN 0 ELSE log_total_count - LOG_MAX_ENTRIES
  IN  [i \in 1 .. count |-> log_buffer[(start + i - 1) % LOG_MAX_ENTRIES]]

-----------------------------------------------------------------------------
(* Property                                                                *)

\* The dump is the latest entries in the order they were logged, as many as
\* fit, although it finds its start from the total and the writer finds its
\* place from the head; and the error total is that of all entries ever
\* logged (log_write, log_dump).
LogLatest ==
  /\ log_dump = [i \in 1 .. Len(log_dump) |-> Len(logged) - Len(log_dump) + i]
  /\ log_error_total = Cardinality({i \in 1 .. Len(logged) : logged[i] >= LogError})

=============================================================================
