----------------------------- MODULE HostKernel -----------------------------
(***************************************************************************)
(* The host's mirror of the kernel (sdk/bindings, aeos_kernel.c), behind   *)
(* the Python client: simulated time that moves when it is read, the       *)
(* policy that runs with it or on demand, and the history of the decisions *)
(* made on demand.  The network is a free choice of its action.  An entry  *)
(* of the history is known by its number.                                  *)
(***************************************************************************)
EXTENDS Integers

CONSTANTS
  HOST_PERIOD_TICKS,        \* AI_PERIOD_TICKS: 50
  HOST_HIST_LEN,            \* AI_HIST_LEN: 16
  FREE_PAGES,               \* k_total_pages - 4608
  RATES, PAGES,             \* what a client may ask for
  MAX_READS, MAX_FORCED     \* bounds on clock reads, inferences on demand

ASSUME HostAssumption ==
  /\ HOST_PERIOD_TICKS \in Nat \ {0} /\ HOST_HIST_LEN \in Nat \ {0} /\ FREE_PAGES \in Nat
  /\ RATES \subseteq Nat /\ PAGES \subseteq Nat

HZ_MIN == 10
HZ_MAX == 500

VARIABLES
  k_free_pages, k_ticks, k_hz, k_inferences, k_reads_since_inference, k_last_action,
  ai_history, ai_hist_count, ai_disabled_flag,
  reads, forced,            \* ghost: clock reads and inferences on demand since the reset
  read_disabled             \* ghost: one of these reads found the policy disabled

policyVars == <<k_hz, k_inferences, k_last_action>>
historyVars == <<ai_history, ai_hist_count>>
hostVars == <<k_free_pages, k_ticks, policyVars, k_reads_since_inference, historyVars,
              ai_disabled_flag, reads, forced, read_disabled>>

HostInit ==
  /\ k_free_pages = FREE_PAGES
  /\ k_ticks = 0
  /\ k_hz = 100
  /\ k_inferences = 0
  /\ k_reads_since_inference = 0
  /\ k_last_action = "SUSTAIN"
  /\ ai_history = [i \in 0 .. HOST_HIST_LEN - 1 |-> 0]
  /\ ai_hist_count = 0
  /\ ai_disabled_flag = FALSE
  /\ reads = 0
  /\ forced = 0
  /\ read_disabled = FALSE

-----------------------------------------------------------------------------
(* The policy                                                              *)

\* ai_decide: the network's scores may favour any of them.
HostDecisions == {"SUSTAIN", "BOOST", "REST"}

\* The lower limit is not looked at.
Bug_Acted(hz, action) ==
  CASE action = "BOOST" /\ hz + 25 <= HZ_MAX -> hz + 25
    [] action = "REST" /\ hz >= 25 -> hz - 25
    [] OTHER -> hz

\* ai_act
Acted(hz, action) ==
  CASE action = "BOOST" /\ hz + 25 <= HZ_MAX -> hz + 25
    [] action = "REST" /\ hz >= 25 + HZ_MIN -> hz - 25
    [] OTHER -> hz

ai_step ==
  \E action \in HostDecisions :
    /\ k_hz' = Acted(k_hz, action)
    /\ k_last_action' = action
    /\ k_inferences' = k_inferences + 1

-----------------------------------------------------------------------------
(* The client's calls                                                      *)

\* A read advances the clock; every HOST_PERIOD_TICKS-th one infers, also
\* when the policy is disabled.
aeos_timer_ticks ==
  /\ reads < MAX_READS
  /\ k_ticks' = k_ticks + k_hz
  /\ reads' = reads + 1
  /\ read_disabled' = (read_disabled \/ ai_disabled_flag)
  /\ IF k_reads_since_inference + 1 >= HOST_PERIOD_TICKS
     THEN k_reads_since_inference' = 0 /\ ai_step
     ELSE /\ k_reads_since_inference' = k_reads_since_inference + 1
          /\ UNCHANGED policyVars
  /\ UNCHANGED <<k_free_pages, historyVars, ai_disabled_flag, forced>>

aeos_set_timer_hz(hz) ==
  /\ k_hz' = IF hz < HZ_MIN THEN HZ_MIN ELSE IF hz > HZ_MAX THEN HZ_MAX ELSE hz
  /\ UNCHANGED <<k_free_pages, k_ticks, k_inferences, k_last_action, k_reads_since_inference,
                 historyVars, ai_disabled_flag, reads, forced, read_disabled>>

aeos_sim_allocate_pages(count) ==
  /\ k_free_pages' = IF count <= k_free_pages THEN k_free_pages - count ELSE k_free_pages
  /\ UNCHANGED <<k_ticks, policyVars, k_reads_since_inference, historyVars,
                 ai_disabled_flag, reads, forced, read_disabled>>

\* The history and the flag outlive the reset.
aeos_sim_reset ==
  /\ k_free_pages' = FREE_PAGES
  /\ k_ticks' = 0
  /\ k_hz' = 100
  /\ k_inferences' = 0
  /\ k_reads_since_inference' = 0
  /\ k_last_action' = "SUSTAIN"
  /\ reads' = 0
  /\ forced' = 0
  /\ read_disabled' = FALSE
  /\ UNCHANGED <<historyVars, ai_disabled_flag>>

aeos_ai_force_inference ==
  /\ ai_hist_count < MAX_FORCED
  /\ IF ai_disabled_flag
     THEN UNCHANGED <<policyVars, historyVars, forced>>
     ELSE /\ ai_step
          /\ ai_history' = [ai_history EXCEPT ![ai_hist_count % HOST_HIST_LEN] = ai_hist_count + 1]
          /\ ai_hist_count' = ai_hist_count + 1
          /\ forced' = forced + 1
  /\ UNCHANGED <<k_free_pages, k_ticks, k_reads_since_inference, ai_disabled_flag, reads,
                 read_disabled>>

\* aeos_ai_disable, aeos_ai_enable
aeos_ai_disable(flag) ==
  /\ ai_disabled_flag' = flag
  /\ UNCHANGED <<k_free_pages, k_ticks, policyVars, k_reads_since_inference, historyVars,
                 reads, forced, read_disabled>>

HostNext ==
  \/ aeos_timer_ticks
  \/ \E hz \in RATES : aeos_set_timer_hz(hz)
  \/ \E count \in PAGES : aeos_sim_allocate_pages(count)
  \/ aeos_sim_reset
  \/ aeos_ai_force_inference
  \/ \E flag \in BOOLEAN : aeos_ai_disable(flag)

HostSpec == HostInit /\ [][HostNext]_hostVars

-----------------------------------------------------------------------------
(* Reading the history                                                     *)

aeos_ai_get_history_count ==
  IF ai_hist_count < HOST_HIST_LEN THEN ai_hist_count ELSE HOST_HIST_LEN

\* Tick and action alike; an index out of range has no entry.
NoEntry == 0

aeos_ai_get_history(idx) ==
  LET start == IF ai_hist_count < HOST_HIST_LEN THEN 0 ELSE ai_hist_count - HOST_HIST_LEN
  IN  IF idx \in 0 .. aeos_ai_get_history_count - 1
      THEN ai_history[(start + idx) % HOST_HIST_LEN] ELSE NoEntry

-----------------------------------------------------------------------------
(* Property                                                                *)

\* The mirror keeps its books, whatever is read, set, forced, disabled and
\* reset in between.  The rate stays between its limits, so every read moves
\* the clock on by an amount between them.  While the policy is enabled, an
\* inference was forced or came with the last of HOST_PERIOD_TICKS reads;
\* nothing is said of a clock read with the policy disabled, which infers all
\* the same.  What is recorded in the history is found there by index, oldest
\* first, as many as fit, across the reset too; which inferences are recorded
\* is not part of it (aeos_timer_ticks, aeos_sim_reset,
\* aeos_ai_force_inference, aeos_ai_get_history_tick).
HostBooks ==
  /\ k_hz \in HZ_MIN .. HZ_MAX
  /\ k_ticks \in HZ_MIN * reads .. HZ_MAX * reads
  /\ ~read_disabled =>
       HOST_PERIOD_TICKS * (k_inferences - forced) + k_reads_since_inference = reads
  /\ \A idx \in 0 .. aeos_ai_get_history_count - 1 :
       aeos_ai_get_history(idx) = ai_hist_count - aeos_ai_get_history_count + idx + 1

=============================================================================
