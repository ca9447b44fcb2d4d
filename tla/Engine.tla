------------------------------- MODULE Engine -------------------------------
(***************************************************************************)
(* The timer interrupt and what hangs on it: the tick registry (irq.c),    *)
(* the timer rate (timer.c), the AI engine (ai_*.c) and the CMT pipeline   *)
(* it drives (cmt_*.c).  A tick runs all subscribers with interrupts       *)
(* masked, so it is one step.  The scoring (network, Q-table, CMT          *)
(* transform) is a free choice of its outcome: an action and a level.      *)
(* Histories are known by the ticks they record.                           *)
(***************************************************************************)
EXTENDS Integers, Sequences, FiniteSets

CONSTANTS
  MAX_TICK_TASKS,            \* 4
  AI_PERIOD_TICKS,           \* 50; CMT_PERIOD is the same
  AI_HIST_LEN,               \* 16
  CMT_HIST_LEN,              \* 32
  LEARN_MEMORY,              \* 32
  LEARN_EVERY, SCAN_EVERY,   \* inferences between updates, scans: 10, 20
  DEBUG_MAX_ISSUES,          \* 16
  DEBUG_MAX_FIXES,           \* 8
  ERRORS_AFTER, HUNG_AFTER,  \* inferences before these checks: 10, 20
  HEAP_PCTS,                 \* fills of the heap that a tick may see
  MAX_TICKS, MAX_CALLS       \* bounds on timer interrupts, interface calls

ASSUME EngineAssumption ==
  /\ MAX_TICK_TASKS \in Nat \ {0, 1, 2}
  /\ AI_PERIOD_TICKS \in Nat \ {0} /\ MAX_TICK_TASKS - 1 <= AI_PERIOD_TICKS
  /\ AI_HIST_LEN \in Nat \ {0} /\ CMT_HIST_LEN \in Nat /\ LEARN_MEMORY \in Nat \ {0}
  /\ LEARN_EVERY \in Nat \ {0} /\ SCAN_EVERY \in Nat \ {0}
  /\ DEBUG_MAX_ISSUES \in Nat /\ DEBUG_MAX_FIXES \in Nat \ {0}
  /\ ERRORS_AFTER \in Nat /\ HUNG_AFTER \in Nat /\ HEAP_PCTS \subseteq 0 .. 100
  /\ MAX_TICKS \in Nat /\ MAX_CALLS \in Nat

Actions == {"SUSTAIN", "BOOST", "REST"}
Levels == 0 .. 3

VARIABLES
  timer_ticks, timer_hz,
  tick_tasks,                \* the registry
  ai, cmt, learn, debug,     \* the engines' state
  decided, felt,             \* ghost: ticks of all AI and CMT inferences
  calls                      \* interface calls made, for MAX_CALLS

engVars == <<timer_ticks, timer_hz, tick_tasks, ai, cmt, learn, debug, decided, felt, calls>>

\* timer_set_hz
Clamped(hz) == IF hz < 10 THEN 10 ELSE IF hz > 500 THEN 500 ELSE hz

\* tick_subscribe: a full registry refuses.
Subscribed(tasks, fn) ==
  IF Len(tasks) >= MAX_TICK_TASKS THEN tasks ELSE Append(tasks, fn)

ai_init ==
  [ticks |-> 0, since |-> 0, inferences |-> 0, errors |-> 0, hz |-> 100,
   disabled |-> FALSE, hist |-> [i \in 0 .. AI_HIST_LEN - 1 |-> 0], hist_count |-> 0]

cmt_init == [ticks |-> 0, since |-> 0, level |-> 0, disabled |-> FALSE, history |-> <<>>]

ai_learn_init == [head |-> 0, count |-> 0, updates |-> 0, enabled |-> TRUE]

ai_debug_init == [issues |-> <<>>, fixes |-> <<>>, enabled |-> TRUE, auto_fix |-> TRUE]

\* ai_init subscribes before sched_init does.
EngInit ==
  /\ timer_ticks = 0
  /\ timer_hz = 100
  /\ tick_tasks = <<"ai_on_tick", "sched_on_tick">>
  /\ ai = ai_init
  /\ cmt = cmt_init
  /\ learn = ai_learn_init
  /\ debug = ai_debug_init
  /\ decided = <<>>
  /\ felt = <<>>
  /\ calls = 0

-----------------------------------------------------------------------------
(* Deciding: the rate moves by a step that depends on the level, within a  *)
(* band that depends on it too.                                            *)

Step(level) == IF level <= 1 THEN 12 ELSE IF level >= 3 THEN 50 ELSE 25
LowestHz(level) == IF level <= 1 THEN 80 ELSE IF level >= 3 THEN 50 ELSE 20
HighestHz(level) == IF level <= 1 THEN 120 ELSE 200

ai_act(action, level, hz) ==
  CASE action = "BOOST" /\ hz + Step(level) <= HighestHz(level) -> hz + Step(level)
    [] action = "REST" /\ hz >= LowestHz(level) + Step(level) -> hz - Step(level)
    [] OTHER -> hz

-----------------------------------------------------------------------------
(* Learning: the replay ring and the number of updates                     *)

ai_learn_store(l) ==
  [l EXCEPT !.head = (@ + 1) % LEARN_MEMORY,
            !.count = IF @ < LEARN_MEMORY THEN @ + 1 ELSE @]

ai_learn_update(l) ==
  IF ~l.enabled \/ l.count < 4 THEN l
  ELSE [l EXCEPT !.updates = @ + (IF l.count < 8 THEN l.count ELSE 8)]

-----------------------------------------------------------------------------
(* Debugging: a fixed issue leaves an empty entry that is not used again.  *)

NoIssue == [type |-> "NONE", severity |-> 0]

\* A known issue keeps its severity; a full table drops a new one.
add_issue(d, type, severity) ==
  IF \/ \E i \in 1 .. Len(d.issues) : d.issues[i].type = type
     \/ Len(d.issues) >= DEBUG_MAX_ISSUES
  THEN d
  ELSE [d EXCEPT !.issues = Append(@, [type |-> type, severity |-> severity])]

Rated(d, type, value, high, low) ==
  IF value > high THEN add_issue(d, type, 2)
  ELSE IF value > low THEN add_issue(d, type, 1) ELSE d

ai_debug_scan(d, a, level, heap_pct) ==
  LET d1 == Rated(d, "MEM_LEAK", heap_pct, 90, 75)
      d2 == IF a.inferences > ERRORS_AFTER
            THEN Rated(d1, "HIGH_ERRORS", (a.errors * 100) \div a.inferences, 20, 10)
            ELSE d1
      d3 == IF a.hz < 50 THEN add_issue(d2, "SLOW_PERF", 1) ELSE d2
  IN  IF ~d.enabled THEN d
      ELSE IF level = 0 /\ a.inferences > HUNG_AFTER
           THEN add_issue(d3, "HUNG_TASK", 1) ELSE d3

\* The first of the most severe ones.
find_issue_to_fix(d) ==
  CHOOSE i \in 1 .. Len(d.issues) :
    /\ \A j \in 1 .. Len(d.issues) : d.issues[j].severity <= d.issues[i].severity
    /\ \A j \in 1 .. i - 1 : d.issues[j].severity < d.issues[i].severity

\* determine_fix and apply_fix: the rate the fix sets, if any.
FixedHz(type, hz) ==
  CASE type \in {"HIGH_ERRORS", "HUNG_TASK"} -> Clamped(100)
    [] type = "SLOW_PERF" -> Clamped(150)
    [] OTHER -> hz

\* The oldest is shifted out.
add_fix(fixes, type) ==
  IF Len(fixes) >= DEBUG_MAX_FIXES THEN Append(Tail(fixes), type) ELSE Append(fixes, type)

CanFix(d) ==
  /\ d.enabled /\ d.auto_fix /\ d.issues # <<>>
  /\ d.issues[find_issue_to_fix(d)].type # "NONE"

ai_debug_autofix(d) ==
  LET i == find_issue_to_fix(d)
  IN  [d EXCEPT !.fixes = add_fix(@, d.issues[i].type), !.issues[i] = NoIssue]

-----------------------------------------------------------------------------
(* One call of a subscriber, on the engines' state e, with the outcome of  *)
(* the scoring in.action, in.level and the heap's fill in.heap_pct         *)

\* A full history records nothing more.
cmt_record(history, tick) ==
  IF Len(history) < CMT_HIST_LEN THEN Append(history, tick) ELSE history

cmt_on_tick(e, in) ==
  LET c == e.cmt
  IN  IF c.disabled THEN e
      ELSE IF c.since + 1 < AI_PERIOD_TICKS
      THEN [e EXCEPT !.cmt = [c EXCEPT !.ticks = @ + 1, !.since = @ + 1]]
      ELSE [e EXCEPT !.cmt = [c EXCEPT !.ticks = @ + 1, !.since = 0, !.level = in.level,
                                       !.history = cmt_record(@, c.ticks + 1)],
                     !.felt = Append(@, c.ticks + 1)]

\* Once the ring is full, its last slot is used again and again.
Bug_HistSlot(count) == IF count < AI_HIST_LEN THEN count ELSE AI_HIST_LEN - 1

HistSlot(count) == count % AI_HIST_LEN

\* The engine's own state after it decided on hz
ai_record(a, hz) ==
  [a EXCEPT !.since = 0, !.hz = hz, !.inferences = @ + 1,
            !.hist[HistSlot(a.hist_count)] = a.ticks, !.hist_count = @ + 1]

\* The inference of ai_on_tick, up to the debugger
Infer(e, in) ==
  LET hz == ai_act(in.action, e.cmt.level, e.ai.hz)
      stored == ai_learn_store(e.learn)
  IN  [e EXCEPT
         !.timer_hz = Clamped(hz),
         !.ai = ai_record(@, hz),
         !.learn = IF (e.ai.inferences + 1) % LEARN_EVERY = 0 THEN ai_learn_update(stored)
                   ELSE stored,
         !.decided = Append(@, e.ai.ticks)]

Debugged(e, in) ==
  LET d == ai_debug_scan(e.debug, e.ai, e.cmt.level, in.heap_pct)
  IN  IF e.ai.inferences % SCAN_EVERY # 0 THEN e
      ELSE IF ~CanFix(d) THEN [e EXCEPT !.debug = d]
      ELSE [e EXCEPT !.debug = ai_debug_autofix(d),
                     !.timer_hz = FixedHz(d.issues[find_issue_to_fix(d)].type, @)]

Ticked(a) == [a EXCEPT !.ticks = @ + 1, !.since = @ + 1]

\* A disabled engine that still decides.
Bug_ai_on_tick(e, in) ==
  LET e1 == cmt_on_tick([e EXCEPT !.ai = Ticked(@)], in)
  IN  IF e1.ai.since >= AI_PERIOD_TICKS THEN Debugged(Infer(e1, in), in) ELSE e1

\* A disabled engine counts an error and does nothing else.
ai_on_tick(e, in) ==
  LET e1 == cmt_on_tick([e EXCEPT !.ai = Ticked(@)], in)
  IN  IF e.ai.disabled THEN [e EXCEPT !.ai.errors = @ + 1]
      ELSE IF e1.ai.since >= AI_PERIOD_TICKS THEN Debugged(Infer(e1, in), in) ELSE e1

\* The subscribers in order; what sched_on_tick does is in Sched.
tick_dispatch(e, in) ==
  LET after[n \in 0 .. Len(tick_tasks)] ==
        IF n = 0 THEN e
        ELSE IF tick_tasks[n] = "ai_on_tick" THEN ai_on_tick(after[n - 1], in)
        ELSE after[n - 1]
  IN  after[Len(tick_tasks)]

\* What the Q-table, or a guess, and what the network answer: anything.
ai_learn_choose_action == Actions
ai_decide == Actions

\* The network has a say when learning suggests to sustain.
Decisions == {IF learned = "SUSTAIN" THEN decided_by_net ELSE learned :
                learned \in ai_learn_choose_action, decided_by_net \in ai_decide}

\* Any level may come of the transform.
cmt_transform == Levels

Inputs == [action : Decisions, level : cmt_transform, heap_pct : HEAP_PCTS]

\* irq_handler_c with timer_handler.  At most one call in a tick decides
\* (EngineAssumption), so one choice of inputs serves them all.
irq_handler_c ==
  /\ timer_ticks < MAX_TICKS
  /\ timer_ticks' = timer_ticks + 1
  /\ \E in \in Inputs :
       LET e == tick_dispatch([timer_hz |-> timer_hz, ai |-> ai, cmt |-> cmt,
                               learn |-> learn, debug |-> debug,
                               decided |-> decided, felt |-> felt], in)
       IN  /\ timer_hz' = e.timer_hz /\ ai' = e.ai /\ cmt' = e.cmt
           /\ learn' = e.learn /\ debug' = e.debug
           /\ decided' = e.decided /\ felt' = e.felt
  /\ UNCHANGED <<tick_tasks, calls>>

-----------------------------------------------------------------------------
(* The engines' interface                                                  *)

\* ai_init again: one more subscription, and the timer keeps its rate.
ai_reset ==
  /\ ai' = [ai_init EXCEPT !.hist = ai.hist]
  /\ learn' = ai_learn_init
  /\ debug' = ai_debug_init
  /\ tick_tasks' = Subscribed(tick_tasks, "ai_on_tick")
  /\ decided' = <<>>
  /\ UNCHANGED <<timer_ticks, timer_hz, cmt, felt>>

ai_disable ==
  /\ ai' = [ai EXCEPT !.disabled = TRUE]
  /\ UNCHANGED <<timer_ticks, timer_hz, tick_tasks, cmt, learn, debug, decided, felt>>

ai_enable ==
  /\ ai' = [ai EXCEPT !.disabled = FALSE]
  /\ UNCHANGED <<timer_ticks, timer_hz, tick_tasks, cmt, learn, debug, decided, felt>>

\* cmt_disable, cmt_enable, cmt_force_inference
cmt_control ==
  /\ \/ cmt' = [cmt EXCEPT !.disabled = TRUE]
     \/ cmt' = [cmt EXCEPT !.disabled = FALSE]
     \/ cmt' = [cmt EXCEPT !.since = AI_PERIOD_TICKS]
  /\ UNCHANGED <<timer_ticks, timer_hz, tick_tasks, ai, learn, debug, decided, felt>>

\* ai_learn_set_enabled, ai_debug_set_enabled, ai_debug_set_autofix
set_enabled ==
  /\ \E on \in BOOLEAN :
       \/ learn' = [learn EXCEPT !.enabled = on] /\ UNCHANGED debug
       \/ debug' = [debug EXCEPT !.enabled = on] /\ UNCHANGED learn
       \/ debug' = [debug EXCEPT !.auto_fix = on] /\ UNCHANGED learn
  /\ UNCHANGED <<timer_ticks, timer_hz, tick_tasks, ai, cmt, decided, felt>>

EngNext ==
  \/ irq_handler_c
  \/ /\ calls < MAX_CALLS
     /\ calls' = calls + 1
     /\ ai_reset \/ ai_disable \/ ai_enable \/ cmt_control \/ set_enabled

EngSpec == EngInit /\ [][EngNext]_engVars

-----------------------------------------------------------------------------
(* ai_history_count and ai_history_entry: the oldest kept entry first.     *)

HistoryCount == IF ai.hist_count < AI_HIST_LEN THEN ai.hist_count ELSE AI_HIST_LEN

HistoryTick(idx) ==
  LET start == IF ai.hist_count < AI_HIST_LEN THEN 0 ELSE ai.hist_count - AI_HIST_LEN
  IN  ai.hist[(start + idx) % AI_HIST_LEN]

-----------------------------------------------------------------------------
(* Properties                                                              *)

\* The rate the engine asks for, and the one the timer runs at, stay within
\* the policy's 20 to 200 Hz, whatever bands the changing level went through
\* (ai_act) and whatever the debugger repaired behind the engine's back
\* (apply_fix sets the timer without ai.hz).
EngHzBand == ai.hz \in 20 .. 200 /\ timer_hz \in 20 .. 200

\* The engine is registered once; a reset that finds room registers it again.
SubscribedOnce ==
  \A m, n \in DOMAIN tick_tasks :
    tick_tasks[m] = "ai_on_tick" /\ tick_tasks[n] = "ai_on_tick" => m = n

\* The history ring, read through its accessors, is exactly the latest
\* decisions since the last reset, in order.  And as long as the engine is
\* registered once, it has decided once for every full period of the timer's
\* ticks, those it met disabled left out; EngCadence is what becomes of that
\* when it is registered twice (ai_on_tick, ai_history_tick).
EngHistory ==
  /\ ai.hist_count = Len(decided)
  /\ \A idx \in 0 .. HistoryCount - 1 :
       HistoryTick(idx) = decided[Len(decided) - HistoryCount + idx + 1]
  /\ SubscribedOnce =>
       ai.inferences * AI_PERIOD_TICKS + ai.since + ai.errors = timer_ticks

\* Until it is full, the CMT history holds all inferences since boot, in
\* order.  Nothing is said of a full one, to which cmt_record adds no more
\* although the header calls it a ring (cmt_record).
EngCmtHistory == Len(felt) <= CMT_HIST_LEN => cmt.history = felt

\* The issue table lists no open issue twice, an entry is empty exactly when
\* its severity is zero, so the search for the worst issue finds an open one
\* whenever there is one, and what was fixed is a bounded list (add_issue,
\* ai_debug_autofix, add_fix).
EngIssues ==
  /\ Len(debug.issues) <= DEBUG_MAX_ISSUES /\ Len(debug.fixes) <= DEBUG_MAX_FIXES
  /\ \A i \in 1 .. Len(debug.issues) :
       /\ debug.issues[i].type = "NONE" <=> debug.issues[i].severity = 0
       /\ \A j \in 1 .. i - 1 :
            debug.issues[i].type = debug.issues[j].type => debug.issues[i].type = "NONE"

\* After any run of ticks, resets and repairs the engine's bounded tables hold
\* what was decided, felt and found, and the rate is within the policy
\* (ai_api.c, cmt_core.c, ai_debug.c).
EngRecords == EngHzBand /\ EngHistory /\ EngCmtHistory /\ EngIssues

\* The engine decides at most once in AI_PERIOD_TICKS ticks of the timer, as
\* the comment on that constant says (ai_on_tick, ai_reset).  It does not hold:
\* ai_reset registers ai_on_tick once more, and each tick counts twice.
EngCadence == ai.inferences * AI_PERIOD_TICKS <= timer_ticks

\* A latched engine is inert: a timer interrupt that finds it disabled moves
\* neither the rate nor any engine's state, CMT's included, and counts an
\* error for every subscription (ai_healthy).
EngFailSafe ==
  [][ai.disabled /\ timer_ticks' # timer_ticks =>
       /\ UNCHANGED <<timer_hz, cmt, learn, debug, decided, felt>>
       /\ ai' = [ai EXCEPT !.errors =
                    @ + Cardinality({n \in DOMAIN tick_tasks : tick_tasks[n] = "ai_on_tick"})]
    ]_engVars

=============================================================================
