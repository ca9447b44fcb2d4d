---------------------------- MODULE EngineProofs ----------------------------
(***************************************************************************)
(* The AI engine and the CMT pipeline on the timer tick, for every period, *)
(* every length of the tables and every contents of the tick registry: the *)
(* records are right, and a disabled engine does nothing.                  *)
(***************************************************************************)
EXTENDS Engine, CommonLemmas, FiniteSetTheorems

\* The time a leaf that names no prover may take
USE SMTT(60)

(***************************************************************************)
(* The engines' state as tick_dispatch passes it on                        *)
(***************************************************************************)

Shape(e) ==
  /\ DOMAIN e = {"timer_hz", "ai", "cmt", "learn", "debug", "decided", "felt"}
  /\ DOMAIN e.ai = {"ticks", "since", "inferences", "errors", "hz", "disabled", "hist",
                    "hist_count"}
  /\ DOMAIN e.cmt = {"ticks", "since", "level", "disabled", "history"}

InBand(hz) == hz \in Nat /\ 20 <= hz /\ hz <= 200

Counted(a) ==
  /\ a.ticks \in Nat /\ a.since \in Nat /\ a.inferences \in Nat /\ a.errors \in Nat
  /\ a.inferences * AI_PERIOD_TICKS + a.since = a.ticks

\* The calls of ai_on_tick since the reset
Met(a) == a.ticks + a.errors

RingHolds(hist, count, all) ==
  /\ all \in Seq(Nat) /\ count = Len(all)
  /\ hist \in [0 .. AI_HIST_LEN - 1 -> Nat]
  /\ \A p \in 1 .. Len(all) :
       Len(all) < p + AI_HIST_LEN => hist[(p - 1) % AI_HIST_LEN] = all[p]

FirstKept(history, all) ==
  /\ all \in Seq(Nat) /\ history \in Seq(Nat)
  /\ Len(history) <= CMT_HIST_LEN /\ Len(history) <= Len(all)
  /\ Len(history) = CMT_HIST_LEN \/ Len(history) = Len(all)
  /\ \A i \in 1 .. Len(history) : history[i] = all[i]

CmtHolds(c, all) ==
  c.ticks \in Nat /\ c.since \in Nat /\ c.level \in Levels /\ FirstKept(c.history, all)

IssueTypes == {"NONE", "MEM_LEAK", "HIGH_ERRORS", "SLOW_PERF", "HUNG_TASK"}

Issues == [type : IssueTypes, severity : {0, 1, 2}]

\* The issue table: EngIssues of any table
Listed(issues) ==
  /\ issues \in Seq(Issues)
  /\ Len(issues) <= DEBUG_MAX_ISSUES
  /\ \A i \in 1 .. Len(issues) :
       /\ issues[i].type = "NONE" <=> issues[i].severity = 0
       /\ \A j \in 1 .. i - 1 : issues[i].type = issues[j].type => issues[i].type = "NONE"

DebugHolds(d) ==
  /\ DOMAIN d = {"issues", "fixes", "enabled", "auto_fix"}
  /\ Listed(d.issues)
  /\ d.fixes \in Seq(IssueTypes) /\ Len(d.fixes) <= DEBUG_MAX_FIXES

\* Between two calls of subscribers the period is not full.
EngHolds(e) ==
  /\ Shape(e)
  /\ InBand(e.timer_hz) /\ InBand(e.ai.hz)
  /\ Counted(e.ai) /\ e.ai.since < AI_PERIOD_TICKS
  /\ RingHolds(e.ai.hist, e.ai.hist_count, e.decided)
  /\ CmtHolds(e.cmt, e.felt)
  /\ DebugHolds(e.debug)

\* ai_act moves the rate within the band of the policy.
LEMMA ActInBand ==
  ASSUME NEW action, NEW level \in Levels, NEW hz, InBand(hz)
  PROVE  InBand(ai_act(action, level, hz)) /\ Clamped(ai_act(action, level, hz)) = ai_act(action, level, hz)
BY DEF Levels, InBand, ai_act, Step, LowestHz, HighestHz, Clamped

\* The ring after one more decision
LEMMA RingRecords ==
  ASSUME NEW hist, NEW count, NEW all, NEW tick \in Nat, RingHolds(hist, count, all)
  PROVE  RingHolds([hist EXCEPT ![HistSlot(count)] = tick], count + 1, Append(all, tick))
<1> DEFINE n == Len(all)
           slot == n % AI_HIST_LEN
           new == Append(all, tick)
           h == [hist EXCEPT ![HistSlot(count)] = tick]
<1>1. /\ AI_HIST_LEN \in Nat \ {0} /\ n \in Nat /\ count = n
      /\ all \in Seq(Nat) /\ hist \in [0 .. AI_HIST_LEN - 1 -> Nat]
  BY EngineAssumption DEF RingHolds
<1>2. slot \in 0 .. AI_HIST_LEN - 1 /\ HistSlot(count) = slot
  BY <1>1, Quotient DEF HistSlot
<1>3. /\ new \in Seq(Nat) /\ Len(new) = n + 1
      /\ \A p \in 1 .. n : new[p] = all[p]
      /\ new[n + 1] = tick
  BY <1>1
<1>4. /\ h \in [0 .. AI_HIST_LEN - 1 -> Nat] /\ h[slot] = tick
      /\ \A s \in 0 .. AI_HIST_LEN - 1 : s # slot => h[s] = hist[s]
  BY <1>1, <1>2
<1> HIDE DEF new, h, slot
<1>5. ASSUME NEW p \in 1 .. n + 1, n + 1 < p + AI_HIST_LEN
      PROVE  h[(p - 1) % AI_HIST_LEN] = new[p]
  <2>1. CASE p = n + 1
    BY <1>1, <1>3, <1>4, <2>1 DEF slot
  <2>2. CASE p # n + 1
    <3>1. p \in 1 .. n /\ p - 1 \in Nat /\ p - 1 < n /\ n < p - 1 + AI_HIST_LEN /\ n < p + AI_HIST_LEN
      BY <1>1, <1>5, <2>2
    <3>2. (p - 1) % AI_HIST_LEN # slot
      BY <1>1, <3>1, RemaindersApart, Zenon DEF slot
    <3>3. (p - 1) % AI_HIST_LEN \in 0 .. AI_HIST_LEN - 1
      BY <1>1, <3>1, Quotient, Zenon
    <3>4. hist[(p - 1) % AI_HIST_LEN] = all[p]
      BY <3>1 DEF RingHolds
    <3> QED
      BY <1>3, <1>4, <3>1, <3>2, <3>3, <3>4
  <2> QED
    BY <2>1, <2>2
<1>6. RingHolds(h, count + 1, new)
  BY <1>1, <1>3, <1>4, <1>5 DEF RingHolds
<1> QED
  BY <1>6 DEF h, new

\* A full history of the CMT records nothing more.
LEMMA CmtRecords ==
  ASSUME NEW history, NEW all, NEW tick \in Nat, FirstKept(history, all)
  PROVE  FirstKept(cmt_record(history, tick), Append(all, tick))
<1> DEFINE new == Append(all, tick)
<1>1. /\ all \in Seq(Nat) /\ history \in Seq(Nat) /\ CMT_HIST_LEN \in Nat
      /\ Len(all) \in Nat /\ Len(history) \in Nat
  BY EngineAssumption DEF FirstKept
<1>2. new \in Seq(Nat) /\ Len(new) = Len(all) + 1 /\ \A i \in 1 .. Len(all) : new[i] = all[i]
  BY <1>1
<1>3. new[Len(all) + 1] = tick
  BY <1>1
<1> HIDE DEF new
<1>4. CASE Len(history) < CMT_HIST_LEN
  <2> DEFINE h == Append(history, tick)
  <2>1. /\ h \in Seq(Nat) /\ Len(h) = Len(history) + 1 /\ h[Len(history) + 1] = tick
        /\ \A i \in 1 .. Len(history) : h[i] = history[i]
    BY <1>1
  <2>2. cmt_record(history, tick) = h /\ Len(history) = Len(all)
    BY <1>1, <1>4 DEF cmt_record, FirstKept
  <2> HIDE DEF h
  <2> QED
    BY <1>1, <1>2, <1>3, <1>4, <2>1, <2>2 DEF FirstKept, new
<1>5. CASE ~(Len(history) < CMT_HIST_LEN)
  BY <1>1, <1>2, <1>5 DEF FirstKept, cmt_record, new
<1> QED
  BY <1>4, <1>5

\* A call of cmt_on_tick keeps the CMT's books and touches no other engine.
LEMMA CmtTick ==
  ASSUME NEW e, NEW in \in Inputs, Shape(e), CmtHolds(e.cmt, e.felt)
  PROVE  LET f == cmt_on_tick(e, in)
         IN  /\ Shape(f) /\ CmtHolds(f.cmt, f.felt)
             /\ f.ai = e.ai /\ f.timer_hz = e.timer_hz /\ f.debug = e.debug
             /\ f.decided = e.decided
<1> DEFINE c == e.cmt
           f == cmt_on_tick(e, in)
<1>1. in.level \in Levels
  BY DEF Inputs, cmt_transform
<1>2. CASE c.disabled
  BY <1>2, Zenon DEF cmt_on_tick
<1>3. CASE ~c.disabled /\ c.since + 1 < AI_PERIOD_TICKS
  <2> DEFINE d == [c EXCEPT !.ticks = @ + 1, !.since = @ + 1]
  <2>1. f = [e EXCEPT !.cmt = d]
    BY <1>3, Zenon DEF cmt_on_tick
  <2>2. DOMAIN d = DOMAIN c /\ CmtHolds(d, e.felt)
    BY DEF Shape, CmtHolds
  <2> HIDE DEF d, f
  <2>3. /\ DOMAIN f = DOMAIN e /\ f.cmt = d /\ f.felt = e.felt /\ f.ai = e.ai
        /\ f.timer_hz = e.timer_hz /\ f.debug = e.debug /\ f.decided = e.decided
    BY <2>1 DEF Shape
  <2> QED
    BY <2>2, <2>3, Zenon DEF f, Shape
<1>4. CASE ~c.disabled /\ ~(c.since + 1 < AI_PERIOD_TICKS)
  <2> DEFINE d == [c EXCEPT !.ticks = @ + 1, !.since = 0, !.level = in.level,
                            !.history = cmt_record(@, c.ticks + 1)]
             felts == Append(e.felt, c.ticks + 1)
  <2>1. f = [e EXCEPT !.cmt = d, !.felt = felts]
    BY <1>4, Zenon DEF cmt_on_tick
  <2>2. c.ticks + 1 \in Nat /\ FirstKept(c.history, e.felt)
    BY DEF CmtHolds
  <2>3. FirstKept(cmt_record(c.history, c.ticks + 1), felts)
    BY <2>2, CmtRecords, Zenon
  <2> HIDE DEF felts
  <2>4. /\ DOMAIN d = DOMAIN c /\ d.ticks = c.ticks + 1 /\ d.since = 0 /\ d.level = in.level
        /\ d.history = cmt_record(c.history, c.ticks + 1)
    BY DEF Shape
  <2> HIDE DEF d, f
  <2>5. CmtHolds(d, felts)
    BY <1>1, <2>2, <2>3, <2>4 DEF CmtHolds
  <2>6. /\ DOMAIN f = DOMAIN e /\ f.cmt = d /\ f.felt = felts /\ f.ai = e.ai
        /\ f.timer_hz = e.timer_hz /\ f.debug = e.debug /\ f.decided = e.decided
    BY <2>1 DEF Shape
  <2> QED
    BY <2>4, <2>5, <2>6, Zenon DEF f, Shape
<1> QED
  BY <1>2, <1>3, <1>4, Zenon

\* One more inference is one more period of ticks.
LEMMA NextMultiple ==
  ASSUME NEW k \in Nat, NEW n \in Nat
  PROVE  (k + 1) * n = k * n + n
OBVIOUS

\* The inference keeps the rate in its band and the ring in step with the
\* decisions, and starts a new period.
LEMMA Inferred ==
  ASSUME NEW e, NEW in \in Inputs, Shape(e), InBand(e.ai.hz), e.cmt.level \in Levels,
         Counted(e.ai), e.ai.since = AI_PERIOD_TICKS,
         RingHolds(e.ai.hist, e.ai.hist_count, e.decided)
  PROVE  LET f == Infer(e, in)
         IN  /\ Shape(f) /\ InBand(f.timer_hz) /\ InBand(f.ai.hz)
             /\ Counted(f.ai) /\ f.ai.since = 0
             /\ RingHolds(f.ai.hist, f.ai.hist_count, f.decided)
             /\ f.cmt = e.cmt /\ f.felt = e.felt /\ f.debug = e.debug
             /\ Met(f.ai) = Met(e.ai)
<1> DEFINE hz == ai_act(in.action, e.cmt.level, e.ai.hz)
           slot == HistSlot(e.ai.hist_count)
           a == ai_record(e.ai, hz)
           l == IF (e.ai.inferences + 1) % LEARN_EVERY = 0
                THEN ai_learn_update(ai_learn_store(e.learn)) ELSE ai_learn_store(e.learn)
           f == Infer(e, in)
<1>1. InBand(hz) /\ Clamped(hz) = hz
  BY ActInBand, Zenon
<1>2. /\ DOMAIN f = DOMAIN e /\ f.timer_hz = Clamped(hz) /\ f.ai = a
      /\ f.decided = Append(e.decided, e.ai.ticks)
      /\ f.cmt = e.cmt /\ f.felt = e.felt /\ f.debug = e.debug
  <2>1. f = [e EXCEPT !.timer_hz = Clamped(hz), !.ai = a, !.learn = l,
                      !.decided = Append(@, e.ai.ticks)]
    BY Zenon DEF Infer
  <2> HIDE DEF f, hz, a, l
  <2> QED
    BY <2>1 DEF Shape
<1> HIDE DEF f, hz, slot
<1>3. /\ DOMAIN a = DOMAIN e.ai /\ a.since = 0 /\ a.hz = hz
      /\ a.inferences = e.ai.inferences + 1 /\ a.ticks = e.ai.ticks
      /\ a.errors = e.ai.errors
      /\ a.hist = [e.ai.hist EXCEPT ![slot] = e.ai.ticks]
      /\ a.hist_count = e.ai.hist_count + 1
  BY DEF Shape, ai_record, slot
<1> HIDE DEF a
<1>4. Counted(a)
  BY <1>3, NextMultiple, EngineAssumption DEF Counted
<1>5. RingHolds(a.hist, a.hist_count, f.decided)
  <2>1. e.ai.ticks \in Nat
    BY Zenon DEF Counted
  <2>2. RingHolds([e.ai.hist EXCEPT ![HistSlot(e.ai.hist_count)] = e.ai.ticks],
                  e.ai.hist_count + 1, Append(e.decided, e.ai.ticks))
    BY <2>1, RingRecords
  <2> QED
    BY <1>2, <1>3, <2>2, Zenon DEF slot
<1>6. Shape(f)
  BY <1>2, <1>3, Zenon DEF Shape
<1>7. /\ InBand(f.timer_hz) /\ InBand(f.ai.hz) /\ Counted(f.ai) /\ f.ai.since = 0
      /\ RingHolds(f.ai.hist, f.ai.hist_count, f.decided)
  BY <1>1, <1>2, <1>3, <1>4, <1>5, Zenon
<1>8. Met(f.ai) = Met(e.ai)
  BY <1>2, <1>3, Zenon DEF Met
<1> QED
  BY <1>2, <1>6, <1>7, <1>8, Zenon DEF f

-----------------------------------------------------------------------------
(* The debugger *)

\* One more issue, or the table as it was
LEMMA IssueAdded ==
  ASSUME NEW d, DebugHolds(d), NEW type \in IssueTypes \ {"NONE"}, NEW severity \in {1, 2}
  PROVE  DebugHolds(add_issue(d, type, severity))
<1> DEFINE n == Len(d.issues)
           new == [type |-> type, severity |-> severity]
           t == Append(d.issues, new)
           f == [d EXCEPT !.issues = t]
<1>1. CASE (\E i \in 1 .. n : d.issues[i].type = type) \/ n >= DEBUG_MAX_ISSUES
  BY <1>1, Zenon DEF add_issue
<1>2. CASE ~((\E i \in 1 .. n : d.issues[i].type = type) \/ n >= DEBUG_MAX_ISSUES)
  <2>1. add_issue(d, type, severity) = f
    BY <1>2, Zenon DEF add_issue
  <2>2. new \in Issues
    BY DEF Issues
  <2>3. /\ n \in Nat /\ n < DEBUG_MAX_ISSUES /\ DEBUG_MAX_ISSUES \in Nat
        /\ d.issues \in Seq(Issues)
    BY <1>2, EngineAssumption DEF DebugHolds, Listed
  <2>4. new.type # "NONE" /\ new.severity # 0 /\ \A i \in 1 .. n : d.issues[i].type # new.type
    BY <1>2
  <2> HIDE DEF new
  <2>5. /\ t \in Seq(Issues) /\ Len(t) = n + 1
        /\ t[n + 1] = new /\ \A i \in 1 .. n : t[i] = d.issues[i]
    BY <2>2, <2>3
  <2> HIDE DEF t
  <2>6. ASSUME NEW i \in 1 .. n + 1
        PROVE  /\ t[i].type = "NONE" <=> t[i].severity = 0
               /\ \A j \in 1 .. i - 1 : t[i].type = t[j].type => t[i].type = "NONE"
    <3>1. CASE i \in 1 .. n
      <4>1. \A j \in 1 .. i - 1 : t[j] = d.issues[j]
        BY <2>3, <2>5, <3>1
      <4> QED
        BY <2>5, <3>1, <4>1, Zenon DEF DebugHolds, Listed
    <3>2. CASE i = n + 1
      <4>1. \A j \in 1 .. i - 1 : j \in 1 .. n
        BY <2>3, <3>2
      <4> QED
        BY <2>4, <2>5, <3>2, <4>1, Zenon
    <3> QED
      BY <2>3, <3>1, <3>2
  <2>7. Listed(t)
    BY <2>3, <2>5, <2>6 DEF Listed
  <2>8. DOMAIN f = DOMAIN d /\ f.issues = t /\ f.fixes = d.fixes
    BY DEF DebugHolds
  <2> QED
    BY <2>1, <2>7, <2>8, Zenon DEF DebugHolds
<1> QED
  BY <1>1, <1>2

LEMMA RatedHolds ==
  ASSUME NEW d, DebugHolds(d), NEW type \in IssueTypes \ {"NONE"}, NEW value, NEW high, NEW low
  PROVE  DebugHolds(Rated(d, type, value, high, low))
<1>1. DebugHolds(add_issue(d, type, 2)) /\ DebugHolds(add_issue(d, type, 1))
  BY IssueAdded
<1> QED
  BY <1>1, Zenon DEF Rated

\* A scan adds issues, whatever it measures.
LEMMA ScanHolds ==
  ASSUME NEW d, DebugHolds(d), NEW a, NEW level, NEW pct
  PROVE  DebugHolds(ai_debug_scan(d, a, level, pct))
<1> DEFINE d1 == Rated(d, "MEM_LEAK", pct, 90, 75)
           d2 == IF a.inferences > ERRORS_AFTER
                 THEN Rated(d1, "HIGH_ERRORS", (a.errors * 100) \div a.inferences, 20, 10)
                 ELSE d1
           d3 == IF a.hz < 50 THEN add_issue(d2, "SLOW_PERF", 1) ELSE d2
<1>0. {"MEM_LEAK", "HIGH_ERRORS", "SLOW_PERF", "HUNG_TASK"} \subseteq IssueTypes \ {"NONE"}
  BY DEF IssueTypes
<1>1. DebugHolds(d1)
  BY <1>0, RatedHolds
<1> HIDE DEF d1
<1>2. DebugHolds(d2)
  BY <1>0, <1>1, RatedHolds
<1> HIDE DEF d2
<1>3. DebugHolds(d3)
  BY <1>0, <1>2, IssueAdded
<1> HIDE DEF d3
<1>4. DebugHolds(add_issue(d3, "HUNG_TASK", 1))
  BY <1>0, <1>3, IssueAdded
<1> QED
  BY <1>3, <1>4, Zenon DEF ai_debug_scan, d1, d2, d3

\* The search for the worst issue ends at an entry of the table.
LEMMA WorstFound ==
  ASSUME NEW d, DebugHolds(d), d.issues # <<>>
  PROVE  find_issue_to_fix(d) \in 1 .. Len(d.issues)
<1> DEFINE n == Len(d.issues)
           sev(i) == d.issues[i].severity
           W == {i \in 1 .. n : \A j \in 1 .. n : sev(j) <= sev(i)}
<1>1. n \in Nat \ {0} /\ \A i \in 1 .. n : sev(i) \in {0, 1, 2}
  <2>1. d.issues \in Seq(Issues)
    BY Zenon DEF DebugHolds, Listed
  <2>2. n \in Nat \ {0}
    BY <2>1
  <2>3. \A i \in 1 .. n : d.issues[i] \in Issues
    BY <2>1
  <2> QED
    BY <2>2, <2>3 DEF Issues
<1> HIDE DEF sev, n
<1>2. W # {}
  <2>1. CASE \E i \in 1 .. n : sev(i) = 2
    BY <1>1, <2>1
  <2>2. CASE ~(\E i \in 1 .. n : sev(i) = 2) /\ \E i \in 1 .. n : sev(i) = 1
    BY <1>1, <2>2
  <2>3. CASE ~(\E i \in 1 .. n : sev(i) = 2) /\ ~\E i \in 1 .. n : sev(i) = 1
    <3>1. 1 \in W
      BY <1>1, <2>3
    <3> QED
      BY <3>1
  <2> QED
    BY <2>1, <2>2, <2>3
<1>3. PICK i \in W : \A j \in W : i <= j
  <2>1. W \in SUBSET Nat
    BY <1>1
  <2> QED
    BY <1>2, <2>1, LeastNat, Zenon
<1>4. ASSUME NEW j \in 1 .. i - 1 PROVE sev(j) < sev(i)
  <2>1. j \in 1 .. n /\ j \notin W
    BY <1>1, <1>3, <1>4
  <2>2. PICK k \in 1 .. n : ~(sev(k) <= sev(j))
    BY <2>1
  <2>3. sev(k) <= sev(i) /\ sev(i) \in {0, 1, 2} /\ sev(j) \in {0, 1, 2} /\ sev(k) \in {0, 1, 2}
    BY <1>1, <1>3, <2>1, <2>2
  <2> QED
    BY <2>2, <2>3
<1>5. \E x \in 1 .. n : (\A j \in 1 .. n : sev(j) <= sev(x)) /\ \A j \in 1 .. x - 1 : sev(j) < sev(x)
  BY <1>3, <1>4
<1> QED
  BY <1>5, Zenon DEF find_issue_to_fix, n, sev

\* A repair empties the entry and records its type.
LEMMA FixHolds ==
  ASSUME NEW d, DebugHolds(d), d.issues # <<>>
  PROVE  /\ DebugHolds(ai_debug_autofix(d))
         /\ d.issues[find_issue_to_fix(d)].type \in IssueTypes
<1> DEFINE i == find_issue_to_fix(d)
           n == Len(d.issues)
           t == [d.issues EXCEPT ![i] = NoIssue]
           x == add_fix(d.fixes, d.issues[i].type)
           f == ai_debug_autofix(d)
<1>1. /\ d.issues \in Seq(Issues) /\ n <= DEBUG_MAX_ISSUES
      /\ d.fixes \in Seq(IssueTypes) /\ Len(d.fixes) <= DEBUG_MAX_FIXES
      /\ DOMAIN d = {"issues", "fixes", "enabled", "auto_fix"}
  BY Zenon DEF DebugHolds, Listed
<1>2. i \in 1 .. n
  BY WorstFound, Zenon
<1> HIDE DEF i
<1>3. d.issues[i].type \in IssueTypes
  <2>1. d.issues[i] \in Issues
    BY <1>1, <1>2
  <2> QED
    BY <2>1 DEF Issues
<1>4. NoIssue \in Issues /\ NoIssue.type = "NONE" /\ NoIssue.severity = 0
  BY DEF NoIssue, IssueTypes, Issues
<1>5. /\ t \in Seq(Issues) /\ Len(t) = n
      /\ \A j \in 1 .. n : t[j] = IF j = i THEN NoIssue ELSE d.issues[j]
  BY <1>1, <1>2, <1>4
<1> HIDE DEF t
<1>6. Listed(t)
  <2>1. ASSUME NEW j \in 1 .. n
        PROVE  /\ t[j].type = "NONE" <=> t[j].severity = 0
               /\ \A k \in 1 .. j - 1 : t[j].type = t[k].type => t[j].type = "NONE"
    <3>1. /\ d.issues[j].type = "NONE" <=> d.issues[j].severity = 0
          /\ \A k \in 1 .. j - 1 : d.issues[j].type = d.issues[k].type => d.issues[j].type = "NONE"
      BY Zenon DEF DebugHolds, Listed
    <3>2. \A k \in 1 .. j - 1 : k \in 1 .. n
      BY <1>1
    <3>3. CASE j = i
      BY <1>4, <1>5, <3>3, Zenon
    <3>4. CASE j # i
      <4>1. t[j] = d.issues[j]
        BY <1>5, <3>4, Zenon
      <4>2. ASSUME NEW k \in 1 .. j - 1, t[j].type = t[k].type PROVE t[j].type = "NONE"
        <5>1. t[k] = IF k = i THEN NoIssue ELSE d.issues[k]
          BY <1>5, <3>2, Zenon
        <5> QED
          BY <1>4, <3>1, <4>1, <4>2, <5>1, Zenon
      <4> QED
        BY <3>1, <4>1, <4>2, Zenon
    <3> QED
      BY <3>3, <3>4
  <2> QED
    BY <1>1, <1>5, <2>1, Zenon DEF Listed
<1>7. x \in Seq(IssueTypes) /\ Len(x) <= DEBUG_MAX_FIXES
  <2>1. DEBUG_MAX_FIXES \in Nat \ {0}
    BY EngineAssumption
  <2> HIDE DEF i
  <2> DEFINE type == d.issues[i].type
  <2>2. type \in IssueTypes
    BY <1>3
  <2> HIDE DEF type
  <2>3. x = IF Len(d.fixes) >= DEBUG_MAX_FIXES THEN Append(Tail(d.fixes), type)
            ELSE Append(d.fixes, type)
    BY Zenon DEF add_fix, type
  <2> QED
    BY <1>1, <2>1, <2>2, <2>3
<1>8. DOMAIN f = DOMAIN d /\ f.issues = t /\ f.fixes = x
  BY <1>1 DEF ai_debug_autofix, t, i
<1> QED
  BY <1>1, <1>3, <1>6, <1>7, <1>8, Zenon DEF DebugHolds, i

\* The scan after an inference moves the timer to a rate of the band, and
\* nothing else but the debugger's tables.
LEMMA DebuggedHolds ==
  ASSUME NEW e, NEW in, Shape(e), InBand(e.timer_hz), DebugHolds(e.debug)
  PROVE  LET f == Debugged(e, in)
         IN  /\ Shape(f) /\ InBand(f.timer_hz) /\ DebugHolds(f.debug)
             /\ f.ai = e.ai /\ f.cmt = e.cmt /\ f.decided = e.decided /\ f.felt = e.felt
<1> DEFINE d == ai_debug_scan(e.debug, e.ai, e.cmt.level, in.heap_pct)
           hz == FixedHz(d.issues[find_issue_to_fix(d)].type, e.timer_hz)
           f == Debugged(e, in)
<1>1. DebugHolds(d)
  BY ScanHolds, Zenon
<1>2. CASE e.ai.inferences % SCAN_EVERY # 0
  BY <1>2, Zenon DEF Debugged
<1>3. CASE e.ai.inferences % SCAN_EVERY = 0 /\ ~CanFix(d)
  <2>1. f = [e EXCEPT !.debug = d]
    BY <1>3, Zenon DEF Debugged
  <2> HIDE DEF f, d
  <2>2. /\ DOMAIN f = DOMAIN e /\ f.debug = d /\ f.timer_hz = e.timer_hz
        /\ f.ai = e.ai /\ f.cmt = e.cmt /\ f.decided = e.decided /\ f.felt = e.felt
    BY <2>1 DEF Shape
  <2> QED
    BY <1>1, <2>2, Zenon DEF Shape, f
<1>4. CASE e.ai.inferences % SCAN_EVERY = 0 /\ CanFix(d)
  <2>1. f = [e EXCEPT !.debug = ai_debug_autofix(d), !.timer_hz = hz]
    BY <1>4, Zenon DEF Debugged
  <2> HIDE DEF d
  <2>2. DebugHolds(ai_debug_autofix(d))
    BY <1>1, <1>4, FixHolds, Zenon DEF CanFix
  <2>3. InBand(hz)
    BY DEF FixedHz, Clamped, InBand
  <2> HIDE DEF f, hz
  <2>4. /\ DOMAIN f = DOMAIN e /\ f.debug = ai_debug_autofix(d) /\ f.timer_hz = hz
        /\ f.ai = e.ai /\ f.cmt = e.cmt /\ f.decided = e.decided /\ f.felt = e.felt
    BY <2>1 DEF Shape
  <2> QED
    BY <2>2, <2>3, <2>4, Zenon DEF Shape, f
<1> QED
  BY <1>2, <1>3, <1>4, Zenon

-----------------------------------------------------------------------------
(* A call of a subscriber, and all of them in order *)

\* A call of a disabled engine moves its error counter only.
LEMMA DisabledCall ==
  ASSUME NEW e, NEW in, Shape(e), e.ai.disabled
  PROVE  LET f == ai_on_tick(e, in)
         IN  /\ f = [e EXCEPT !.ai.errors = @ + 1]
             /\ Shape(f) /\ f.ai = [e.ai EXCEPT !.errors = @ + 1]
             /\ f.timer_hz = e.timer_hz /\ f.cmt = e.cmt /\ f.learn = e.learn
             /\ f.debug = e.debug /\ f.decided = e.decided /\ f.felt = e.felt
<1> DEFINE a == [e.ai EXCEPT !.errors = @ + 1]
           f == [e EXCEPT !.ai = a]
<1>1. ai_on_tick(e, in) = [e EXCEPT !.ai.errors = @ + 1]
  BY Zenon DEF ai_on_tick
<1>2. [e EXCEPT !.ai.errors = @ + 1] = f
  BY DEF Shape
<1>3. DOMAIN a = DOMAIN e.ai
  BY DEF Shape
<1> HIDE DEF a
<1>4. /\ DOMAIN f = DOMAIN e /\ f.ai = a
      /\ f.timer_hz = e.timer_hz /\ f.cmt = e.cmt /\ f.learn = e.learn
      /\ f.debug = e.debug /\ f.decided = e.decided /\ f.felt = e.felt
  BY DEF Shape
<1> QED
  BY <1>1, <1>2, <1>3, <1>4, Zenon DEF Shape, a

\* A call of the engine keeps its books, whether it is disabled, in the middle
\* of a period or decides.
LEMMA AiTick ==
  ASSUME NEW e, NEW in \in Inputs, EngHolds(e)
  PROVE  EngHolds(ai_on_tick(e, in)) /\ Met(ai_on_tick(e, in).ai) = Met(e.ai) + 1
<1> DEFINE a == Ticked(e.ai)
           g == [e EXCEPT !.ai = a]
           e1 == cmt_on_tick(g, in)
           f == Infer(e1, in)
<1>0. /\ Shape(e) /\ Counted(e.ai) /\ InBand(e.ai.hz) /\ InBand(e.timer_hz)
      /\ e.ai.since < AI_PERIOD_TICKS /\ AI_PERIOD_TICKS \in Nat \ {0}
      /\ RingHolds(e.ai.hist, e.ai.hist_count, e.decided)
      /\ CmtHolds(e.cmt, e.felt) /\ DebugHolds(e.debug)
  BY EngineAssumption, Zenon DEF EngHolds
<1>1. CASE e.ai.disabled
  <2> DEFINE b == [e.ai EXCEPT !.errors = @ + 1]
             h == ai_on_tick(e, in)
  <2>1. /\ Shape(h) /\ h.ai = b /\ h.timer_hz = e.timer_hz /\ h.cmt = e.cmt
        /\ h.debug = e.debug /\ h.decided = e.decided /\ h.felt = e.felt
    BY <1>0, <1>1, DisabledCall, Zenon
  <2>2. /\ b.hz = e.ai.hz /\ b.since = e.ai.since /\ b.hist = e.ai.hist
        /\ b.hist_count = e.ai.hist_count /\ Counted(b) /\ Met(b) = Met(e.ai) + 1
    BY <1>0 DEF Shape, Counted, Met
  <2> HIDE DEF b, h
  <2>3. EngHolds(h)
    BY <1>0, <2>1, <2>2, Zenon DEF EngHolds
  <2> QED
    BY <2>1, <2>2, <2>3, Zenon DEF h
<1>2. CASE ~e.ai.disabled
  <2>2. ai_on_tick(e, in) = IF e1.ai.since >= AI_PERIOD_TICKS THEN Debugged(f, in) ELSE e1
    BY <1>2, Zenon DEF ai_on_tick
  <2>3. /\ DOMAIN a = DOMAIN e.ai /\ a.hz = e.ai.hz /\ a.since = e.ai.since + 1
        /\ a.ticks = e.ai.ticks + 1 /\ a.inferences = e.ai.inferences /\ a.errors = e.ai.errors
        /\ a.hist = e.ai.hist /\ a.hist_count = e.ai.hist_count
    BY <1>0 DEF Shape, Ticked
  <2> HIDE DEF a
  <2>4. /\ DOMAIN g = DOMAIN e /\ g.ai = a
        /\ g.timer_hz = e.timer_hz /\ g.cmt = e.cmt
        /\ g.debug = e.debug /\ g.decided = e.decided /\ g.felt = e.felt
    BY <1>0 DEF Shape
  <2> HIDE DEF g
  <2>5. /\ Counted(a) /\ a.since \in Nat /\ a.since <= AI_PERIOD_TICKS
        /\ Met(a) = Met(e.ai) + 1
    BY <1>0, <2>3 DEF Counted, Met
  <2>6. Shape(g)
    BY <1>0, <2>3, <2>4, Zenon DEF Shape
  <2>7. /\ Shape(e1) /\ CmtHolds(e1.cmt, e1.felt) /\ e1.ai = a
        /\ e1.timer_hz = e.timer_hz /\ e1.debug = e.debug /\ e1.decided = e.decided
    <3>1. CmtHolds(g.cmt, g.felt)
      BY <1>0, <2>4, Zenon
    <3> QED
      BY <2>4, <2>6, <3>1, CmtTick, Zenon
  <2> HIDE DEF e1
  <2>8. CASE ~(e1.ai.since >= AI_PERIOD_TICKS)
    <3>1. e1.ai.since < AI_PERIOD_TICKS
      BY <1>0, <2>5, <2>7, <2>8
    <3>2. EngHolds(e1)
      BY <1>0, <2>3, <2>5, <2>7, <3>1, Zenon DEF EngHolds
    <3> QED
      BY <2>2, <2>5, <2>7, <2>8, <3>2, Zenon
  <2>9. CASE e1.ai.since >= AI_PERIOD_TICKS
    <3>1. e1.ai.since = AI_PERIOD_TICKS
      BY <1>0, <2>5, <2>7, <2>9
    <3>2. /\ InBand(e1.ai.hz) /\ e1.cmt.level \in Levels /\ Counted(e1.ai)
          /\ RingHolds(e1.ai.hist, e1.ai.hist_count, e1.decided)
      BY <1>0, <2>3, <2>5, <2>7, Zenon DEF CmtHolds
    <3>3. /\ Shape(f) /\ InBand(f.timer_hz) /\ InBand(f.ai.hz)
          /\ Counted(f.ai) /\ f.ai.since = 0
          /\ RingHolds(f.ai.hist, f.ai.hist_count, f.decided)
          /\ f.cmt = e1.cmt /\ f.felt = e1.felt /\ f.debug = e1.debug
          /\ Met(f.ai) = Met(e1.ai)
      BY <2>7, <3>1, <3>2, Inferred, Zenon
    <3> HIDE DEF f
    <3> DEFINE h == Debugged(f, in)
    <3>4. DebugHolds(f.debug)
      BY <1>0, <2>7, <3>3, Zenon
    <3>5. /\ Shape(h) /\ InBand(h.timer_hz) /\ DebugHolds(h.debug)
          /\ h.ai = f.ai /\ h.cmt = f.cmt /\ h.decided = f.decided /\ h.felt = f.felt
      BY <3>3, <3>4, DebuggedHolds, Zenon
    <3> HIDE DEF h
    <3>6. f.ai.since < AI_PERIOD_TICKS
      BY <1>0, <3>3
    <3>7. EngHolds(h)
      BY <2>7, <3>3, <3>5, <3>6, Zenon DEF EngHolds
    <3> QED
      BY <2>2, <2>5, <2>7, <2>9, <3>3, <3>5, <3>7, Zenon DEF h
  <2> QED
    BY <2>8, <2>9, Zenon
<1> QED
  BY <1>1, <1>2, Zenon

\* What tick_dispatch does for the subscriber of entry n
Called(n, e, in) == IF tick_tasks[n] = "ai_on_tick" THEN ai_on_tick(e, in) ELSE e

\* tick_dispatch calls the subscribers one after the other: its recursive
\* function exists, built entry by entry.
LEMMA Dispatched ==
  ASSUME NEW e, NEW in, Len(tick_tasks) \in Nat
  PROVE  \E after :
           /\ after[0] = e
           /\ \A n \in 1 .. Len(tick_tasks) : after[n] = Called(n, after[n - 1], in)
           /\ tick_dispatch(e, in) = after[Len(tick_tasks)]
<1> DEFINE L == Len(tick_tasks)
           body(g, n) == IF n = 0 THEN e ELSE Called(n, g[n - 1], in)
           Built(m) == \E g : g = [n \in 0 .. m |-> body(g, n)]
           Bad == {m \in 0 .. L : ~Built(m)}
<1> HIDE DEF L
<1>0. L \in Nat
  BY DEF L
<1>1. Built(0)
  <2> DEFINE g == [n \in 0 .. 0 |-> e]
  <2>1. g = [n \in 0 .. 0 |-> body(g, n)]
    BY DEF Called
  <2> QED
    BY <2>1, Zenon
<1>2. ASSUME NEW m \in 1 .. L, Built(m - 1) PROVE Built(m)
  <2> HIDE DEF body
  <2>1. PICK g : g = [n \in 0 .. m - 1 |-> body(g, n)]
    BY <1>2, Zenon
  <2> DEFINE h == [n \in 0 .. m |-> IF n = m THEN Called(m, g[m - 1], in) ELSE g[n]]
  <2>2. ASSUME NEW n \in 0 .. m
        PROVE  h[n] = body(h, n)
    <3>1. CASE n = 0
      <4>1. 0 \in 0 .. m - 1 /\ 0 # m
        BY <1>0
      <4>2. h[0] = g[0] /\ g[0] = body(g, 0)
        BY <2>1, <3>1, <4>1, Zenon
      <4> QED
        BY <3>1, <4>2, Zenon DEF body
    <3>2. CASE n # 0
      <4>1. n - 1 \in 0 .. m - 1 /\ n - 1 \in 0 .. m /\ n - 1 # m /\ m - 1 \in 0 .. m
        BY <1>0, <3>2
      <4>2. h[n - 1] = g[n - 1]
        BY <4>1, Zenon
      <4>3. CASE n = m
        BY <3>2, <4>2, <4>3, Zenon DEF body
      <4>4. CASE n # m
        <5>1. n \in 0 .. m - 1
          BY <1>0, <4>4
        <5>2. h[n] = g[n] /\ g[n] = body(g, n)
          BY <2>1, <4>4, <5>1, Zenon
        <5> QED
          BY <3>2, <4>2, <5>2, Zenon DEF body
      <4> QED
        BY <4>3, <4>4
    <3> QED
      BY <3>1, <3>2
  <2>3. h = [n \in 0 .. m |-> h[n]]
    OBVIOUS
  <2> HIDE DEF h
  <2>4. h = [n \in 0 .. m |-> body(h, n)]
    BY <2>2, <2>3, Zenon
  <2> QED
    BY <2>4, Zenon
<1> HIDE DEF Built
<1>3. Bad = {}
  <2> SUFFICES ASSUME Bad # {} PROVE FALSE
    OBVIOUS
  <2>1. Bad \in SUBSET Nat
    BY <1>0
  <2>2. PICK m \in Bad : \A k \in Bad : m <= k
    BY <2>1, LeastNat, Zenon
  <2>3. m \in 1 .. L /\ m - 1 \in 0 .. L /\ m - 1 \notin Bad
    BY <1>0, <1>1, <2>2
  <2> QED
    BY <1>2, <2>2, <2>3, Zenon
<1>4. Built(L)
  BY <1>0, <1>3
<1> DEFINE after == CHOOSE g : g = [n \in 0 .. L |-> body(g, n)]
<1>5. after = [n \in 0 .. L |-> body(after, n)]
  BY <1>4, Zenon DEF Built
<1>6. tick_dispatch(e, in) = after[L]
  BY Zenon DEF tick_dispatch, Called, L
<1> HIDE DEF after
<1>7. ASSUME NEW n \in 0 .. L PROVE after[n] = body(after, n)
  <2> HIDE DEF body
  <2> QED
    BY <1>5, Zenon
<1>8. after[0] = e
  BY <1>0, <1>7
<1>9. ASSUME NEW n \in 1 .. L PROVE after[n] = Called(n, after[n - 1], in)
  <2>1. n \in 0 .. L /\ n # 0
    BY <1>0
  <2> QED
    BY <1>7, <2>1, Zenon
<1> QED
  BY <1>6, <1>8, <1>9, Zenon DEF L

\* All subscribers of a tick keep the books.
LEMMA DispatchHolds ==
  ASSUME NEW e, NEW in \in Inputs, EngHolds(e), Len(tick_tasks) \in Nat
  PROVE  EngHolds(tick_dispatch(e, in))
<1> DEFINE L == Len(tick_tasks)
<1>1. PICK after :
        /\ after[0] = e
        /\ \A n \in 1 .. L : after[n] = Called(n, after[n - 1], in)
        /\ tick_dispatch(e, in) = after[L]
  BY Dispatched
<1> DEFINE Bad == {n \in 0 .. L : ~EngHolds(after[n])}
<1>2. Bad = {}
  <2> SUFFICES ASSUME Bad # {} PROVE FALSE
    OBVIOUS
  <2>1. Bad \in SUBSET Nat
    OBVIOUS
  <2>2. PICK n \in Bad : \A k \in Bad : n <= k
    BY <2>1, LeastNat, Zenon
  <2>3. n \in 1 .. L /\ n - 1 \in 0 .. L /\ n - 1 \notin Bad
    BY <1>1, <2>2
  <2>4. EngHolds(after[n - 1])
    BY <2>3, Zenon
  <2>5. EngHolds(Called(n, after[n - 1], in))
    BY <2>4, AiTick, Zenon DEF Called
  <2> QED
    BY <1>1, <2>2, <2>3, <2>5, Zenon
<1>3. L \in 0 .. L
  OBVIOUS
<1> QED
  BY <1>1, <1>2, <1>3, Zenon

\* The registry as it is at boot: one call of the engine in a tick
BootTasks == <<"ai_on_tick", "sched_on_tick">>

LEMMA DispatchOnce ==
  ASSUME NEW e, NEW in, tick_tasks = BootTasks
  PROVE  tick_dispatch(e, in) = ai_on_tick(e, in)
<1>1. Len(tick_tasks) = 2 /\ tick_tasks[1] = "ai_on_tick" /\ tick_tasks[2] = "sched_on_tick"
  BY DEF BootTasks
<1>2. PICK after :
        /\ after[0] = e
        /\ \A n \in 1 .. Len(tick_tasks) : after[n] = Called(n, after[n - 1], in)
        /\ tick_dispatch(e, in) = after[Len(tick_tasks)]
  BY <1>1, Dispatched
<1>3. after[1] = Called(1, e, in) /\ after[2] = Called(2, after[1], in)
  BY <1>1, <1>2
<1>4. "sched_on_tick" # "ai_on_tick"
  OBVIOUS
<1> QED
  BY <1>1, <1>2, <1>3, <1>4, Zenon DEF Called

\* The subscriptions of the engine among the first n
Hits(n) == {i \in 1 .. n : tick_tasks[i] = "ai_on_tick"}

\* The engine's subscriptions are counted entry by entry.
LEMMA HitsCounted ==
  /\ Cardinality(Hits(0)) = 0
  /\ \A n \in Nat : IsFiniteSet(Hits(n)) /\ Cardinality(Hits(n)) \in Nat
  /\ \A n \in Nat \ {0} :
       Cardinality(Hits(n)) = IF tick_tasks[n] = "ai_on_tick" THEN Cardinality(Hits(n - 1)) + 1
                              ELSE Cardinality(Hits(n - 1))
<1>1. Hits(0) = {}
  BY DEF Hits
<1>2. ASSUME NEW n \in Nat PROVE IsFiniteSet(Hits(n)) /\ Cardinality(Hits(n)) \in Nat
  <2>1. IsFiniteSet(1 .. n)
    BY FS_Interval
  <2>2. IsFiniteSet(Hits(n))
    BY <2>1, FS_Subset, Zenon DEF Hits
  <2> QED
    BY <2>2, FS_CardinalityType
<1>3. ASSUME NEW n \in Nat \ {0}
      PROVE  Cardinality(Hits(n)) =
               IF tick_tasks[n] = "ai_on_tick" THEN Cardinality(Hits(n - 1)) + 1
               ELSE Cardinality(Hits(n - 1))
  <2>1. n - 1 \in Nat /\ n \notin Hits(n - 1)
    BY DEF Hits
  <2>2. IsFiniteSet(Hits(n - 1))
    BY <1>2, <2>1
  <2>3. CASE tick_tasks[n] = "ai_on_tick"
    <3>1. Hits(n) = Hits(n - 1) \cup {n}
      BY <2>3 DEF Hits
    <3> QED
      BY <2>1, <2>2, <2>3, <3>1, FS_AddElement, Zenon
  <2>4. CASE tick_tasks[n] # "ai_on_tick"
    <3>1. Hits(n) = Hits(n - 1)
      BY <2>4 DEF Hits
    <3> QED
      BY <2>4, <3>1, Zenon
  <2> QED
    BY <2>3, <2>4
<1> QED
  BY <1>1, <1>2, <1>3, FS_EmptySet, Zenon

\* A tick of a disabled engine counts an error for each of its subscriptions,
\* and that is all.
LEMMA DispatchInert ==
  ASSUME NEW e, NEW in, Shape(e), Counted(e.ai), e.ai.disabled,
         Len(tick_tasks) \in Nat \ {0}, tick_tasks[1] = "ai_on_tick"
  PROVE  LET f == tick_dispatch(e, in)
         IN  /\ f.ai = [e.ai EXCEPT !.errors = @ + Cardinality(Hits(Len(tick_tasks)))]
             /\ f.timer_hz = e.timer_hz /\ f.cmt = e.cmt /\ f.learn = e.learn
             /\ f.debug = e.debug /\ f.decided = e.decided /\ f.felt = e.felt
<1> DEFINE L == Len(tick_tasks)
           Erred(n) == [e.ai EXCEPT !.errors = @ + Cardinality(Hits(n))]
           Inert(f, n) ==
             /\ Shape(f) /\ f.ai = Erred(n)
             /\ f.timer_hz = e.timer_hz /\ f.cmt = e.cmt /\ f.learn = e.learn
             /\ f.debug = e.debug /\ f.decided = e.decided /\ f.felt = e.felt
<1>1. PICK after :
        /\ after[0] = e
        /\ \A n \in 1 .. L : after[n] = Called(n, after[n - 1], in)
        /\ tick_dispatch(e, in) = after[L]
  BY Dispatched
<1>2. Inert(Called(1, e, in), 1)
  <2>1. Cardinality(Hits(1)) = 1
    BY HitsCounted
  <2>2. Called(1, e, in) = ai_on_tick(e, in)
    BY Zenon DEF Called
  <2> DEFINE h == ai_on_tick(e, in)
  <2>3. /\ Shape(h) /\ h.ai = [e.ai EXCEPT !.errors = @ + 1]
        /\ h.timer_hz = e.timer_hz /\ h.cmt = e.cmt /\ h.learn = e.learn
        /\ h.debug = e.debug /\ h.decided = e.decided /\ h.felt = e.felt
    BY DisabledCall, Zenon
  <2> HIDE DEF h
  <2>4. Erred(1) = [e.ai EXCEPT !.errors = @ + 1]
    BY <2>1, Zenon
  <2> HIDE DEF Erred
  <2> QED
    BY <2>2, <2>3, <2>4, Zenon DEF h
<1>3. ASSUME NEW f, NEW n \in 2 .. L, Inert(f, n - 1) PROVE Inert(Called(n, f, in), n)
  <2>0. n - 1 \in Nat /\ n \in Nat \ {0} /\ Cardinality(Hits(n - 1)) \in Nat
    BY HitsCounted
  <2>1. CASE tick_tasks[n] # "ai_on_tick"
    <3>1. Cardinality(Hits(n)) = Cardinality(Hits(n - 1))
      BY <2>0, <2>1, HitsCounted, Zenon
    <3> QED
      BY <1>3, <2>1, <3>1, Zenon DEF Called
  <2>2. CASE tick_tasks[n] = "ai_on_tick"
    <3> DEFINE c == Cardinality(Hits(n - 1))
               h == ai_on_tick(f, in)
    <3>1. Cardinality(Hits(n)) = c + 1
      BY <2>0, <2>2, HitsCounted, Zenon
    <3>2. f.ai.disabled /\ Shape(f)
      <4> HIDE DEF c
      <4>1. [e.ai EXCEPT !.errors = @ + c].disabled = e.ai.disabled
        <5> DEFINE a == e.ai
        <5>1. c \in Nat /\ a.errors \in Nat
          BY <2>0 DEF Counted, c
        <5>2. DOMAIN a = {"ticks", "since", "inferences", "errors", "hz", "disabled", "hist",
                          "hist_count"}
          BY Zenon DEF Shape
        <5> HIDE DEF a
        <5>3. [a EXCEPT !.errors = @ + c].disabled = a.disabled
          BY <5>1, <5>2
        <5> QED
          BY <5>3, Zenon DEF a
      <4>2. f.ai = [e.ai EXCEPT !.errors = @ + c] /\ Shape(f)
        BY <1>3, Zenon DEF c
      <4> QED
        BY <4>1, <4>2, Zenon
    <3>3. /\ Shape(h) /\ h.ai = [f.ai EXCEPT !.errors = @ + 1]
          /\ h.timer_hz = f.timer_hz /\ h.cmt = f.cmt /\ h.learn = f.learn
          /\ h.debug = f.debug /\ h.decided = f.decided /\ h.felt = f.felt
      BY <3>2, DisabledCall, Zenon
    <3>4. [Erred(n - 1) EXCEPT !.errors = @ + 1] = Erred(n)
      <4> HIDE DEF c
      <4>1. Erred(n) = [e.ai EXCEPT !.errors = @ + (c + 1)]
        BY <3>1, Zenon
      <4>2. Erred(n - 1) = [e.ai EXCEPT !.errors = @ + c]
        BY Zenon DEF c
      <4>3. c \in Nat
        BY <2>0 DEF c
      <4> HIDE DEF Erred
      <4> QED
        BY <4>1, <4>2, <4>3 DEF Shape, Counted
    <3>5. Called(n, f, in) = h
      BY <2>2, Zenon DEF Called
    <3> HIDE DEF h, Erred
    <3> QED
      BY <1>3, <3>3, <3>4, <3>5, Zenon
  <2> QED
    BY <2>1, <2>2
<1> HIDE DEF Inert
<1> DEFINE Bad == {n \in 1 .. L : ~Inert(after[n], n)}
<1>4. Bad = {}
  <2> SUFFICES ASSUME Bad # {} PROVE FALSE
    OBVIOUS
  <2>1. Bad \in SUBSET Nat
    OBVIOUS
  <2>2. PICK n \in Bad : \A k \in Bad : n <= k
    BY <2>1, LeastNat, Zenon
  <2>3. n # 1
    <3>1. 1 \in 1 .. L /\ 1 - 1 = 0
      OBVIOUS
    <3>2. after[1] = Called(1, e, in)
      BY <1>1, <3>1
    <3> QED
      BY <1>2, <2>2, <3>2
  <2>5. n \in 2 .. L /\ n \in 1 .. L /\ n - 1 \in 1 .. L /\ n - 1 \notin Bad
    BY <2>2, <2>3
  <2>4. Inert(after[n - 1], n - 1)
    BY <2>5, Zenon
  <2> QED
    BY <1>1, <1>3, <2>2, <2>4, <2>5, Zenon
<1>5. Inert(after[L], L)
  BY <1>4
<1> QED
  BY <1>1, <1>5, Zenon DEF Inert

-----------------------------------------------------------------------------
(* The invariant and the theorems *)

EngState == [timer_hz |-> timer_hz, ai |-> ai, cmt |-> cmt, learn |-> learn, debug |-> debug,
             decided |-> decided, felt |-> felt]

\* Until the first reset the engine meets every tick once; from then on it is
\* registered twice.
OnceOrTwice ==
  \/ tick_tasks = BootTasks /\ Met(ai) = timer_ticks
  \/ Len(tick_tasks) >= 3 /\ tick_tasks[3] = "ai_on_tick"

\* The engine, subscribed first, stays first.
EngIInv ==
  /\ EngHolds(EngState) /\ OnceOrTwice
  /\ tick_tasks \in Seq({"ai_on_tick", "sched_on_tick"}) /\ tick_tasks # <<>>
  /\ tick_tasks[1] = "ai_on_tick"

\* The books are about the seven parts of the state, wherever they are.
LEMMA SameBooks ==
  ASSUME NEW e, NEW f, EngHolds(e), DOMAIN f = DOMAIN e,
         f.timer_hz = e.timer_hz, f.ai = e.ai, f.cmt = e.cmt, f.debug = e.debug,
         f.decided = e.decided, f.felt = e.felt
  PROVE  EngHolds(f)
BY Zenon DEF EngHolds, Shape

\* The parts of the state record
LEMMA EngParts ==
  /\ DOMAIN EngState = {"timer_hz", "ai", "cmt", "learn", "debug", "decided", "felt"}
  /\ EngState.timer_hz = timer_hz /\ EngState.ai = ai /\ EngState.cmt = cmt
  /\ EngState.learn = learn /\ EngState.debug = debug
  /\ EngState.decided = decided /\ EngState.felt = felt
BY DEF EngState

\* The same after the step
LEMMA EngPartsAfter ==
  /\ DOMAIN EngState' = {"timer_hz", "ai", "cmt", "learn", "debug", "decided", "felt"}
  /\ EngState'.timer_hz = timer_hz' /\ EngState'.ai = ai' /\ EngState'.cmt = cmt'
  /\ EngState'.learn = learn' /\ EngState'.debug = debug'
  /\ EngState'.decided = decided' /\ EngState'.felt = felt'
BY DEF EngState

\* A fresh engine, whatever its ring holds from before
LEMMA FreshAi ==
  ASSUME NEW a, a.ticks = 0, a.since = 0, a.inferences = 0, a.errors = 0, a.hz = 100,
         a.hist \in [0 .. AI_HIST_LEN - 1 -> Nat], a.hist_count = 0
  PROVE  /\ InBand(a.hz) /\ Counted(a) /\ a.since < AI_PERIOD_TICKS
         /\ RingHolds(a.hist, a.hist_count, <<>>)
<1>1. InBand(a.hz) /\ Counted(a) /\ a.since < AI_PERIOD_TICKS
  BY EngineAssumption DEF InBand, Counted
<1>2. RingHolds(a.hist, a.hist_count, <<>>)
  BY DEF RingHolds
<1> QED
  BY <1>1, <1>2, Zenon

\* A fresh debugger
LEMMA FreshDebug == DebugHolds(ai_debug_init)
<1>1. /\ DOMAIN ai_debug_init = {"issues", "fixes", "enabled", "auto_fix"}
      /\ ai_debug_init.issues = <<>> /\ ai_debug_init.fixes = <<>>
  BY DEF ai_debug_init
<1>2. Listed(<<>>)
  BY EngineAssumption DEF Listed
<1>3. <<>> \in Seq(IssueTypes) /\ Len(<<>>) <= DEBUG_MAX_FIXES
  BY EngineAssumption
<1> QED
  BY <1>1, <1>2, <1>3, Zenon DEF DebugHolds

\* The books at boot
LEMMA EngStarts == EngInit => EngIInv
<1> SUFFICES ASSUME EngInit PROVE EngIInv
  OBVIOUS
<1>1. /\ DOMAIN ai = {"ticks", "since", "inferences", "errors", "hz", "disabled", "hist",
                      "hist_count"}
      /\ ai.ticks = 0 /\ ai.since = 0 /\ ai.inferences = 0 /\ ai.errors = 0 /\ ai.hz = 100
      /\ ai.hist \in [0 .. AI_HIST_LEN - 1 -> Nat] /\ ai.hist_count = 0
  BY DEF EngInit, ai_init
<1>2. /\ InBand(ai.hz) /\ Counted(ai) /\ ai.since < AI_PERIOD_TICKS
      /\ RingHolds(ai.hist, ai.hist_count, <<>>)
  BY <1>1, FreshAi, Zenon
<1>3. /\ DOMAIN cmt = {"ticks", "since", "level", "disabled", "history"}
      /\ cmt.ticks = 0 /\ cmt.since = 0 /\ cmt.level = 0 /\ cmt.history = <<>>
  BY DEF EngInit, cmt_init
<1>4. CmtHolds(cmt, <<>>)
  BY <1>3, EngineAssumption DEF CmtHolds, Levels, FirstKept
<1>5. DebugHolds(debug) /\ decided = <<>> /\ felt = <<>>
  BY FreshDebug, Zenon DEF EngInit
<1>6. InBand(timer_hz)
  BY DEF EngInit, InBand
<1>7. EngHolds(EngState)
  BY <1>1, <1>2, <1>3, <1>4, <1>5, <1>6, EngParts, Zenon DEF EngHolds, Shape
<1>8. /\ tick_tasks \in Seq({"ai_on_tick", "sched_on_tick"}) /\ tick_tasks # <<>>
      /\ tick_tasks[1] = "ai_on_tick"
  BY DEF EngInit
<1>9. OnceOrTwice
  <2>1. timer_ticks = 0 /\ Met(ai) = 0
    BY <1>1 DEF EngInit, Met
  <2> QED
    BY <2>1, Zenon DEF EngInit, OnceOrTwice, BootTasks
<1> QED
  BY <1>7, <1>8, <1>9, Zenon DEF EngIInv

\* A timer interrupt
LEMMA EngTick ==
  ASSUME EngIInv, irq_handler_c
  PROVE  EngHolds(EngState') /\ OnceOrTwice'
<1>1. Len(tick_tasks) \in Nat
  BY DEF EngIInv
<1>2. PICK in \in Inputs :
        LET e == tick_dispatch(EngState, in)
        IN  /\ timer_hz' = e.timer_hz /\ ai' = e.ai /\ cmt' = e.cmt
            /\ learn' = e.learn /\ debug' = e.debug
            /\ decided' = e.decided /\ felt' = e.felt
  BY Zenon DEF irq_handler_c, EngState
<1> DEFINE e == tick_dispatch(EngState, in)
<1>3. EngHolds(e)
  BY <1>1, DispatchHolds, Zenon DEF EngIInv
<1> HIDE DEF e
<1>4. /\ timer_hz' = e.timer_hz /\ ai' = e.ai /\ cmt' = e.cmt
      /\ learn' = e.learn /\ debug' = e.debug
      /\ decided' = e.decided /\ felt' = e.felt
  BY <1>2, Zenon DEF e
<1>5. DOMAIN e = {"timer_hz", "ai", "cmt", "learn", "debug", "decided", "felt"}
  BY <1>3, Zenon DEF EngHolds, Shape
<1>6. EngHolds(EngState')
  BY <1>3, <1>4, <1>5, SameBooks, EngPartsAfter, Zenon
<1>7. tick_tasks' = tick_tasks /\ timer_ticks' = timer_ticks + 1
  BY Zenon DEF irq_handler_c
<1>8. CASE tick_tasks = BootTasks /\ Met(ai) = timer_ticks
  <2>1. EngHolds(EngState) /\ EngState.ai = ai
    BY EngParts, Zenon DEF EngIInv
  <2>2. Met(ai_on_tick(EngState, in).ai) = Met(ai) + 1
    BY <2>1, AiTick, Zenon
  <2>3. e = ai_on_tick(EngState, in)
    BY <1>8, DispatchOnce, Zenon DEF e
  <2> QED
    BY <1>4, <1>6, <1>7, <1>8, <2>2, <2>3, Zenon DEF OnceOrTwice, BootTasks, Met
<1>9. CASE Len(tick_tasks) >= 3 /\ tick_tasks[3] = "ai_on_tick"
  BY <1>6, <1>7, <1>9, Zenon DEF OnceOrTwice
<1> QED
  BY <1>8, <1>9, Zenon DEF EngIInv, OnceOrTwice

\* ai_init, called again, keeps what the ring holds but counts from nothing.
LEMMA EngReset ==
  ASSUME EngIInv, ai_reset
  PROVE  EngHolds(EngState')
<1>1. /\ ai.hist \in [0 .. AI_HIST_LEN - 1 -> Nat] /\ InBand(timer_hz)
      /\ CmtHolds(cmt, felt) /\ DOMAIN cmt = {"ticks", "since", "level", "disabled", "history"}
  BY EngParts, Zenon DEF EngIInv, EngHolds, Shape, RingHolds
<1> DEFINE hist == ai.hist
<1>2. /\ DOMAIN ai' = {"ticks", "since", "inferences", "errors", "hz", "disabled", "hist",
                       "hist_count"}
      /\ ai'.ticks = 0 /\ ai'.since = 0 /\ ai'.inferences = 0 /\ ai'.errors = 0 /\ ai'.hz = 100
      /\ ai'.hist = hist /\ ai'.hist_count = 0
  <2>1. ai' = [ai_init EXCEPT !.hist = hist]
    BY Zenon DEF ai_reset
  <2> HIDE DEF hist
  <2> QED
    BY <2>1 DEF ai_init
<1>3. /\ InBand(ai'.hz) /\ Counted(ai') /\ ai'.since < AI_PERIOD_TICKS
      /\ RingHolds(ai'.hist, ai'.hist_count, <<>>)
  BY <1>1, <1>2, FreshAi, Zenon
<1>4. /\ timer_hz' = timer_hz /\ cmt' = cmt /\ felt' = felt /\ decided' = <<>>
      /\ DebugHolds(debug')
  BY FreshDebug, Zenon DEF ai_reset
<1>5. Shape(EngState')
  BY <1>1, <1>2, <1>4, EngPartsAfter, Zenon DEF Shape
<1> QED
  BY <1>1, <1>3, <1>4, <1>5, EngPartsAfter, Zenon DEF EngHolds

\* A switch, or a forced inference, moves nothing the books speak of but the
\* time to the next inference of the CMT.
LEMMA EngSwitch ==
  ASSUME EngIInv, ai_disable \/ ai_enable \/ cmt_control \/ set_enabled
  PROVE  EngHolds(EngState') /\ Met(ai') = Met(ai)
<1>0. EngHolds(EngState)
  BY Zenon DEF EngIInv
<1>1. /\ Shape(EngState) /\ InBand(timer_hz) /\ InBand(ai.hz) /\ Counted(ai)
      /\ ai.since < AI_PERIOD_TICKS
      /\ RingHolds(ai.hist, ai.hist_count, decided) /\ CmtHolds(cmt, felt) /\ DebugHolds(debug)
      /\ DOMAIN ai = {"ticks", "since", "inferences", "errors", "hz", "disabled", "hist",
                      "hist_count"}
      /\ DOMAIN cmt = {"ticks", "since", "level", "disabled", "history"}
  BY <1>0, EngParts, Zenon DEF EngHolds, Shape
<1>2. ASSUME NEW on, ai' = [ai EXCEPT !.disabled = on],
             UNCHANGED <<timer_hz, cmt, debug, decided, felt>>
      PROVE  EngHolds(EngState') /\ Met(ai') = Met(ai)
  <2>1. /\ DOMAIN ai' = DOMAIN ai /\ ai'.hz = ai.hz /\ ai'.ticks = ai.ticks
        /\ ai'.since = ai.since /\ ai'.inferences = ai.inferences /\ ai'.errors = ai.errors
        /\ ai'.hist = ai.hist /\ ai'.hist_count = ai.hist_count
    BY <1>1, <1>2
  <2>2. Counted(ai')
    BY <1>1, <2>1, Zenon DEF Counted
  <2>3. Shape(EngState')
    BY <1>1, <1>2, <2>1, EngPartsAfter, Zenon DEF Shape
  <2>4. InBand(ai'.hz) /\ RingHolds(ai'.hist, ai'.hist_count, decided) /\ ai'.since < AI_PERIOD_TICKS
    BY <1>1, <2>1, Zenon
  <2> QED
    BY <1>1, <1>2, <2>1, <2>2, <2>3, <2>4, EngPartsAfter, Zenon DEF EngHolds, Met
<1>3. ASSUME DOMAIN cmt' = DOMAIN cmt, CmtHolds(cmt', felt),
             UNCHANGED <<timer_hz, ai, debug, decided, felt>>
      PROVE  EngHolds(EngState') /\ Met(ai') = Met(ai)
  BY <1>1, <1>3, EngPartsAfter, Zenon DEF EngHolds, Shape
<1>4. ASSUME DebugHolds(debug'), UNCHANGED <<timer_hz, ai, cmt, decided, felt>>
      PROVE  EngHolds(EngState') /\ Met(ai') = Met(ai)
  BY <1>1, <1>4, EngPartsAfter, Zenon DEF EngHolds, Shape
<1>5. CASE ai_disable \/ ai_enable
  BY <1>2, <1>5, Zenon DEF ai_disable, ai_enable
<1>6. CASE cmt_control
  <2>1. /\ DOMAIN cmt' = DOMAIN cmt /\ cmt'.ticks = cmt.ticks /\ cmt'.level = cmt.level
        /\ cmt'.history = cmt.history
        /\ cmt'.since = cmt.since \/ cmt'.since = AI_PERIOD_TICKS
    <3>1. CASE \E on \in BOOLEAN : cmt' = [cmt EXCEPT !.disabled = on]
      BY <1>1, <3>1
    <3>2. CASE cmt' = [cmt EXCEPT !.since = AI_PERIOD_TICKS]
      BY <1>1, <3>2
    <3> QED
      BY <1>6, <3>1, <3>2, Zenon DEF cmt_control
  <2>2. CmtHolds(cmt', felt)
    BY <1>1, <2>1, EngineAssumption DEF CmtHolds
  <2> QED
    BY <1>3, <1>6, <2>1, <2>2, Zenon DEF cmt_control
<1>7. CASE set_enabled
  <2>1. DebugHolds(debug')
    <3>1. DOMAIN debug = {"issues", "fixes", "enabled", "auto_fix"}
      BY <1>1, Zenon DEF DebugHolds
    <3>2. DOMAIN debug' = DOMAIN debug /\ debug'.issues = debug.issues /\ debug'.fixes = debug.fixes
      <4>1. CASE debug' = debug
        BY <4>1
      <4>2. CASE \E on \in BOOLEAN : debug' = [debug EXCEPT !.enabled = on]
        BY <3>1, <4>2
      <4>3. CASE \E on \in BOOLEAN : debug' = [debug EXCEPT !.auto_fix = on]
        BY <3>1, <4>3
      <4> QED
        BY <1>7, <4>1, <4>2, <4>3, Zenon DEF set_enabled
    <3> QED
      BY <1>1, <3>2, Zenon DEF DebugHolds
  <2> QED
    BY <1>4, <1>7, <2>1, Zenon DEF set_enabled
<1> QED
  BY <1>5, <1>6, <1>7, Zenon

\* Every step keeps the books.
LEMMA EngKept == EngIInv /\ [EngNext]_engVars => EngIInv'
<1> SUFFICES ASSUME EngIInv, [EngNext]_engVars PROVE EngIInv'
  OBVIOUS
<1>1. CASE UNCHANGED engVars
  <2>1. EngState' = EngState /\ tick_tasks' = tick_tasks /\ OnceOrTwice' = OnceOrTwice
    BY <1>1, Zenon DEF engVars, EngState, OnceOrTwice
  <2> QED
    BY <2>1, Zenon DEF EngIInv
<1>2. CASE irq_handler_c
  <2>1. tick_tasks' = tick_tasks
    BY <1>2, Zenon DEF irq_handler_c
  <2> QED
    BY <1>2, <2>1, EngTick, Zenon DEF EngIInv
<1>3. CASE ai_reset
  <2>1. tick_tasks' = tick_tasks \/ tick_tasks' = Append(tick_tasks, "ai_on_tick")
    BY <1>3, Zenon DEF ai_reset, Subscribed
  <2>2. /\ tick_tasks' \in Seq({"ai_on_tick", "sched_on_tick"}) /\ tick_tasks' # <<>>
        /\ tick_tasks'[1] = "ai_on_tick"
    BY <2>1 DEF EngIInv
  <2>3. OnceOrTwice'
    <3>1. CASE tick_tasks = BootTasks
      <4>1. Len(tick_tasks) = 2 /\ ~(Len(tick_tasks) >= MAX_TICK_TASKS)
        BY <3>1, EngineAssumption DEF BootTasks
      <4>2. tick_tasks' = Append(tick_tasks, "ai_on_tick")
        BY <1>3, <4>1, Zenon DEF ai_reset, Subscribed
      <4> QED
        BY <3>1, <4>2 DEF OnceOrTwice, BootTasks
    <3>2. CASE Len(tick_tasks) >= 3 /\ tick_tasks[3] = "ai_on_tick"
      BY <2>1, <3>2 DEF OnceOrTwice, EngIInv
    <3> QED
      BY <3>1, <3>2, Zenon DEF EngIInv, OnceOrTwice
  <2> QED
    BY <1>3, <2>2, <2>3, EngReset, Zenon DEF EngIInv
<1>4. CASE ai_disable \/ ai_enable \/ cmt_control \/ set_enabled
  <2>1. tick_tasks' = tick_tasks /\ timer_ticks' = timer_ticks
    BY <1>4, Zenon DEF ai_disable, ai_enable, cmt_control, set_enabled
  <2>2. EngHolds(EngState') /\ Met(ai') = Met(ai)
    BY <1>4, EngSwitch, Zenon
  <2>3. OnceOrTwice'
    BY <2>1, <2>2, Zenon DEF EngIInv, OnceOrTwice, BootTasks, Met
  <2> QED
    BY <2>1, <2>2, <2>3, Zenon DEF EngIInv
<1> QED
  BY <1>1, <1>2, <1>3, <1>4, Zenon DEF EngNext

\* The ring, read from its oldest entry on, is the latest decisions.
LEMMA RingRead ==
  ASSUME RingHolds(ai.hist, ai.hist_count, decided)
  PROVE  /\ ai.hist_count = Len(decided)
         /\ \A idx \in 0 .. HistoryCount - 1 :
              HistoryTick(idx) = decided[Len(decided) - HistoryCount + idx + 1]
<1> DEFINE n == Len(decided)
<1>1. AI_HIST_LEN \in Nat \ {0} /\ n \in Nat /\ ai.hist_count = n
  BY EngineAssumption DEF RingHolds
<1>2. ASSUME NEW idx \in 0 .. HistoryCount - 1
      PROVE  HistoryTick(idx) = decided[n - HistoryCount + idx + 1]
  <2> DEFINE start == IF ai.hist_count < AI_HIST_LEN THEN 0 ELSE ai.hist_count - AI_HIST_LEN
             p == start + idx + 1
  <2>1. HistoryTick(idx) = ai.hist[(start + idx) % AI_HIST_LEN]
    BY Zenon DEF HistoryTick
  <2>2. /\ p \in 1 .. n /\ n < p + AI_HIST_LEN /\ p - 1 = start + idx
        /\ p = n - HistoryCount + idx + 1
    BY <1>1 DEF HistoryCount
  <2> HIDE DEF start, p, n
  <2>3. ai.hist[(p - 1) % AI_HIST_LEN] = decided[p]
    BY <2>2, Zenon DEF RingHolds, n
  <2> QED
    BY <2>1, <2>2, <2>3, Zenon
<1> QED
  BY <1>1, <1>2, Zenon

\* The history of the CMT is what it felt, until it is full.
LEMMA FirstRead ==
  ASSUME NEW history, NEW all, FirstKept(history, all), Len(all) <= CMT_HIST_LEN
  PROVE  history = all
<1>1. /\ all \in Seq(Nat) /\ history \in Seq(Nat) /\ CMT_HIST_LEN \in Nat
      /\ Len(all) \in Nat /\ Len(history) \in Nat
  BY EngineAssumption DEF FirstKept
<1>2. Len(history) = Len(all)
  BY <1>1 DEF FirstKept
<1>3. \A i \in 1 .. Len(all) : history[i] = all[i]
  BY <1>2, Zenon DEF FirstKept
<1> QED
  BY <1>1, <1>2, <1>3

(***************************************************************************)
(* For every period, ring length and table size, after any run of ticks,   *)
(* resets, switches and repairs: the rate is within the policy, the ring   *)
(* holds the latest decisions, one for every full period of the timer's    *)
(* ticks while the engine is registered once, the CMT history is complete  *)
(* until it is full, and the issue table lists no open issue twice         *)
(* (ai_api.c, cmt_core.c, ai_debug.c).                                     *)
(***************************************************************************)
THEOREM EngineKeepsRecords == EngSpec => []EngRecords
<1>1. EngIInv => EngRecords
  <2> SUFFICES ASSUME EngIInv PROVE EngRecords
    OBVIOUS
  <2>1. /\ InBand(timer_hz) /\ InBand(ai.hz) /\ Counted(ai)
        /\ RingHolds(ai.hist, ai.hist_count, decided) /\ FirstKept(cmt.history, felt)
        /\ DebugHolds(debug)
    BY EngParts, Zenon DEF EngIInv, EngHolds, CmtHolds
  <2>2. EngHzBand
    BY <2>1 DEF InBand, EngHzBand
  <2>3. EngHistory
    <3>1. ASSUME SubscribedOnce
          PROVE  ai.inferences * AI_PERIOD_TICKS + ai.since + ai.errors = timer_ticks
      <4>1. ~(Len(tick_tasks) >= 3 /\ tick_tasks[3] = "ai_on_tick")
        <5> SUFFICES ASSUME Len(tick_tasks) >= 3, tick_tasks[3] = "ai_on_tick" PROVE FALSE
          OBVIOUS
        <5>1. 1 \in DOMAIN tick_tasks /\ 3 \in DOMAIN tick_tasks /\ 1 # 3
          BY DEF EngIInv
        <5> QED
          BY <3>1, <5>1, Zenon DEF EngIInv, SubscribedOnce
      <4>2. Met(ai) = timer_ticks
        BY <4>1, Zenon DEF EngIInv, OnceOrTwice
      <4> QED
        BY <2>1, <4>2 DEF Met, Counted
    <3> QED
      BY <2>1, <3>1, RingRead, Zenon DEF EngHistory
  <2>4. EngCmtHistory
    BY <2>1, FirstRead, Zenon DEF EngCmtHistory
  <2>5. EngIssues
    BY <2>1, Zenon DEF EngIssues, DebugHolds, Listed
  <2> QED
    BY <2>2, <2>3, <2>4, <2>5, Zenon DEF EngRecords
<1> QED
  BY <1>1, EngStarts, EngKept, PTL DEF EngSpec

(***************************************************************************)
(* For every number of subscriptions: a tick that finds the engine         *)
(* disabled counts an error for each of them and changes nothing else of   *)
(* any engine, nor the rate (ai_on_tick, tick_dispatch).                   *)
(***************************************************************************)
THEOREM DisabledEngineInert == EngSpec => EngFailSafe
<1> DEFINE Inert == ai.disabled /\ timer_ticks' # timer_ticks =>
       /\ UNCHANGED <<timer_hz, cmt, learn, debug, decided, felt>>
       /\ ai' = [ai EXCEPT !.errors =
                    @ + Cardinality({n \in DOMAIN tick_tasks : tick_tasks[n] = "ai_on_tick"})]
<1>1. EngIInv /\ [EngNext]_engVars => [Inert]_engVars
  <2> SUFFICES ASSUME EngIInv, EngNext, ai.disabled, timer_ticks' # timer_ticks
               PROVE  /\ UNCHANGED <<timer_hz, cmt, learn, debug, decided, felt>>
                      /\ ai' = [ai EXCEPT !.errors =
                                  @ + Cardinality({n \in DOMAIN tick_tasks :
                                                     tick_tasks[n] = "ai_on_tick"})]
    BY Zenon
  <2>1. irq_handler_c
    BY Zenon DEF EngNext, ai_reset, ai_disable, ai_enable, cmt_control, set_enabled
  <2>2. PICK in \in Inputs :
          LET e == tick_dispatch(EngState, in)
          IN  /\ timer_hz' = e.timer_hz /\ ai' = e.ai /\ cmt' = e.cmt
              /\ learn' = e.learn /\ debug' = e.debug
              /\ decided' = e.decided /\ felt' = e.felt
    BY <2>1, Zenon DEF irq_handler_c, EngState
  <2>3. /\ Shape(EngState) /\ Counted(EngState.ai) /\ EngState.ai.disabled
        /\ tick_tasks[1] = "ai_on_tick"
    BY EngParts, Zenon DEF EngIInv, EngHolds
  <2>4. Len(tick_tasks) \in Nat \ {0} /\ DOMAIN tick_tasks = 1 .. Len(tick_tasks)
    BY DEF EngIInv
  <2>5. Hits(Len(tick_tasks)) = {n \in DOMAIN tick_tasks : tick_tasks[n] = "ai_on_tick"}
    BY <2>4, Zenon DEF Hits
  <2> DEFINE e == tick_dispatch(EngState, in)
  <2>6. /\ e.ai = [EngState.ai EXCEPT !.errors = @ + Cardinality(Hits(Len(tick_tasks)))]
        /\ e.timer_hz = EngState.timer_hz /\ e.cmt = EngState.cmt /\ e.learn = EngState.learn
        /\ e.debug = EngState.debug /\ e.decided = EngState.decided /\ e.felt = EngState.felt
    BY <2>3, <2>4, DispatchInert, Zenon
  <2> HIDE DEF e
  <2>7. /\ timer_hz' = e.timer_hz /\ ai' = e.ai /\ cmt' = e.cmt
        /\ learn' = e.learn /\ debug' = e.debug
        /\ decided' = e.decided /\ felt' = e.felt
    BY <2>2, Zenon DEF e
  <2> QED
    BY <2>5, <2>6, <2>7, EngParts, Zenon
<1> QED
  BY <1>1, EngStarts, EngKept, PTL DEF EngSpec, EngFailSafe
=============================================================================
