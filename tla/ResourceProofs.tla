--------------------------- MODULE ResourceProofs ---------------------------
(***************************************************************************)
(* The log ring, the capabilities of the Rust crate with their audit ring, *)
(* and the descriptors of processes, for every number of tasks, entries,   *)
(* resources and devices.                                                  *)
(***************************************************************************)
EXTENDS Log, RustCaps, Descriptors, CommonLemmas, FiniteSetTheorems

\* The time a leaf that names no prover may take
USE SMTT(60)

-----------------------------------------------------------------------------
(***************************************************************************)
(* The log: remainders first, for the place of an entry in a ring          *)
(***************************************************************************)

Errors == {i \in 1 .. Len(logged) : logged[i] >= LogError}

\* Every one of the latest LOG_MAX_ENTRIES entries is in the cell of its
\* number, and the head is the cell of the next.
LogInv ==
  /\ logged \in Seq(Int) /\ log_total_count = Len(logged)
  /\ log_head = log_total_count % LOG_MAX_ENTRIES
  /\ log_buffer \in [0 .. LOG_MAX_ENTRIES - 1 -> Nat]
  /\ \A j \in 1 .. log_total_count :
       log_total_count < j + LOG_MAX_ENTRIES => log_buffer[(j - 1) % LOG_MAX_ENTRIES] = j
  /\ log_error_total = Cardinality(Errors)

\* An entry takes the cell of the oldest (log_write).
LEMMA LogWriteKeeps ==
  ASSUME LogInv, NEW level \in log_level_t, log_write(level)
  PROVE  LogInv'
<1> DEFINE n == log_total_count
           M == LOG_MAX_ENTRIES
<1>1. /\ logged \in Seq(Int) /\ n = Len(logged) /\ n \in Nat /\ M \in Nat \ {0}
      /\ log_head = n % M /\ n % M \in 0 .. M - 1
      /\ log_buffer \in [0 .. M - 1 -> Nat] /\ level \in Int
  BY LogAssumption, Quotient DEF LogInv, log_level_t
<1>2. /\ log_buffer' = [log_buffer EXCEPT ![n % M] = n + 1]
      /\ log_head' = ((n % M) + 1) % M /\ log_total_count' = n + 1
      /\ logged' = Append(logged, level)
  BY <1>1, Zenon DEF log_write, Advanced
<1>3. /\ logged' \in Seq(Int) /\ Len(logged') = n + 1 /\ logged'[n + 1] = level
      /\ \A i \in 1 .. n : logged'[i] = logged[i]
  BY <1>1, <1>2
<1>4. log_head' = log_total_count' % M
  BY <1>1, <1>2, RemainderNext, Zenon
<1>5. log_buffer' \in [0 .. M - 1 -> Nat]
  BY <1>1, <1>2
<1>6. ASSUME NEW j \in 1 .. n + 1, n + 1 < j + M
      PROVE  log_buffer'[(j - 1) % M] = j
  <2>1. CASE j = n + 1
    <3>1. j - 1 = n
      BY <1>1, <2>1
    <3> QED
      BY <1>1, <1>2, <2>1, <3>1, Zenon
  <2>2. CASE j # n + 1
    <3>1. j \in 1 .. n /\ n < j + M /\ j - 1 \in Nat /\ j - 1 < n /\ n < (j - 1) + M
      <4>1. n \in Nat /\ M \in Nat \ {0}
        BY <1>1
      <4> HIDE DEF n, M
      <4> QED
        BY <1>6, <2>2, <4>1
    <3>2. (j - 1) % M # n % M
      BY <1>1, <3>1, RemaindersApart, Zenon
    <3>3. log_buffer[(j - 1) % M] = j
      BY <3>1 DEF LogInv
    <3>4. (j - 1) % M \in 0 .. M - 1
      BY <1>1, <3>1, Quotient, Zenon
    <3> QED
      BY <1>1, <1>2, <3>2, <3>3, <3>4, Zenon
  <2> QED
    BY <2>1, <2>2
<1>7. IsFiniteSet(Errors) /\ Cardinality(Errors) \in Nat
  <2>1. IsFiniteSet(1 .. n)
    BY <1>1, FS_Interval
  <2> QED
    BY <1>1, <2>1, FS_Subset, FS_CardinalityType, Zenon DEF Errors
<1>8. log_error_total' = Cardinality(Errors')
  <2>1. CASE level >= LogError
    <3>1. Errors' = Errors \cup {n + 1}
      BY <1>1, <1>3, <2>1 DEF Errors
    <3>2. n + 1 \notin Errors
      BY <1>1 DEF Errors
    <3>3. Cardinality(Errors \cup {n + 1}) = Cardinality(Errors) + 1
      BY <1>7, <3>2, FS_AddElement, Zenon
    <3> QED
      BY <2>1, <3>1, <3>3, Zenon DEF LogInv, log_write
  <2>2. CASE ~(level >= LogError)
    <3>1. n \in Nat /\ 1 .. n + 1 = (1 .. n) \cup {n + 1} /\ ~(logged'[n + 1] >= LogError)
      BY <1>1, <1>3, <2>2
    <3>2. Errors' = {i \in 1 .. n + 1 : logged'[i] >= LogError}
      BY <1>3 DEF Errors
    <3>3. Errors = {i \in 1 .. n : logged'[i] >= LogError}
      BY <1>1, <1>3, Zenon DEF Errors
    <3>4. Errors' = Errors
      BY <3>1, <3>2, <3>3, Zenon
    <3> QED
      BY <2>2, <3>4, Zenon DEF LogInv, log_write
  <2> QED
    BY <2>1, <2>2, Zenon
<1> QED
  BY <1>2, <1>3, <1>4, <1>5, <1>6, <1>8, Zenon DEF LogInv

\* What log_dump prints are the latest entries.
LEMMA DumpLatest == LogInv => LogLatest
<1> SUFFICES ASSUME LogInv
             PROVE  LogLatest
  OBVIOUS
<1> DEFINE n == log_total_count
           M == LOG_MAX_ENTRIES
           kept == IF n < M THEN n ELSE M
           start == IF n < M THEN 0 ELSE n - M
           cell(i) == log_buffer[(start + i - 1) % M]
<1>1. n \in Nat /\ n = Len(logged) /\ M \in Nat \ {0} /\ kept \in Nat /\ start \in Nat
      /\ start + kept = n /\ n <= start + M
  BY LogAssumption DEF LogInv
<1>2. log_dump = [i \in 1 .. kept |-> cell(i)]
  BY DEF log_dump
<1> HIDE DEF kept, start
<1>3. ASSUME NEW i \in 1 .. kept
      PROVE  cell(i) = n - kept + i
  <2> DEFINE j == start + i
  <2>1. j \in 1 .. n /\ n < j + M /\ j = n - kept + i
    BY <1>1
  <2>2. log_buffer[(j - 1) % M] = j
    BY <2>1 DEF LogInv
  <2>3. start + i - 1 = j - 1
    BY <1>1
  <2>4. cell(i) = log_buffer[(j - 1) % M]
    BY <2>3
  <2> QED
    BY <2>1, <2>2, <2>4, Zenon
<1> HIDE DEF cell
<1>4. log_dump = [i \in 1 .. kept |-> n - kept + i]
  BY <1>2, <1>3, Zenon
<1>5. Len(log_dump) = kept
  BY <1>1, <1>4
<1>6. log_dump = [i \in 1 .. Len(log_dump) |-> Len(logged) - Len(log_dump) + i]
  BY <1>1, <1>4, <1>5, Zenon
<1> QED
  BY <1>6 DEF LogLatest, LogInv, Errors

(***************************************************************************)
(* For every size of the buffer: the dump is the latest entries in order,  *)
(* and the error total counts those of all entries (log_write, log_dump).  *)
(***************************************************************************)
THEOREM LogKeepsLatest == LogSpec => []LogLatest
<1>1. LogInit => LogInv
  <2> SUFFICES ASSUME LogInit
               PROVE  LogInv
    OBVIOUS
  <2>1. LOG_MAX_ENTRIES \in Nat \ {0} /\ (1 - 1) % LOG_MAX_ENTRIES = 0
    BY LogAssumption, RemainderIs
  <2>2. Errors = {}
    BY DEF Errors, LogInit, LogInfo, LogError
  <2>3. logged \in Seq(Int) /\ Len(logged) = 1
    BY DEF LogInit, LogInfo
  <2>4. log_buffer \in [0 .. LOG_MAX_ENTRIES - 1 -> Nat] /\ log_buffer[0] = 1
    BY <2>1 DEF LogInit
  <2>5. \A j \in 1 .. 1 : log_buffer[(j - 1) % LOG_MAX_ENTRIES] = j
    BY <2>1, <2>4
  <2> QED
    BY <2>2, <2>3, <2>4, <2>5, FS_EmptySet, Zenon DEF LogInit, LogInv
<1>2. LogInv /\ [LogNext]_logVars => LogInv'
  <2> SUFFICES ASSUME LogInv, [LogNext]_logVars
               PROVE  LogInv'
    BY Zenon
  <2>1. CASE UNCHANGED logVars \/ \E level \in log_level_t : log_set_level(level)
    <3>1. /\ log_buffer' = log_buffer /\ log_head' = log_head /\ logged' = logged
          /\ log_total_count' = log_total_count /\ log_error_total' = log_error_total
      BY <2>1, Zenon DEF logVars, log_set_level
    <3> QED
      BY <3>1, Zenon DEF LogInv, Errors
  <2> QED
    BY <2>1, LogWriteKeeps, Zenon DEF LogNext
<1> QED
  BY <1>1, <1>2, DumpLatest, PTL DEF LogSpec

-----------------------------------------------------------------------------
(***************************************************************************)
(* Capabilities                                                            *)
(***************************************************************************)

RcCap == [id : Nat, resource : RESOURCES, rights : SUBSET RIGHTS]
RcRoot == [resource : RESOURCES, rights : SUBSET RIGHTS]

RcTypes ==
  /\ rcCaps \in [CapTasks -> [CapSlots -> RcCap \cup {NoCap}]]
  /\ rcCount \in [CapTasks -> Int]
  /\ rcNextId \in Nat
  /\ rcRoots \in Seq(RcRoot) /\ Len(rcRoots) = rcNextId

\* A capability in a table has an id that was drawn, and no more than its
\* grant gave; before the set-up there is none.
RcRooted ==
  \A t \in CapTasks : \A s \in Held(t) :
    /\ rcReady
    /\ rcCaps[t][s].id < rcNextId
    /\ rcCaps[t][s].resource = rcRoots[rcCaps[t][s].id + 1].resource
    /\ rcCaps[t][s].rights \subseteq rcRoots[rcCaps[t][s].id + 1].rights

RcEventType == {"SystemStartup", "CapabilityGranted", "CapabilityRevoked"}
RcEvent == RcEventType \X Int \X Int

RcRingTypes ==
  /\ rcEvents \in Seq(RcEvent)
  /\ rcAudit.write_idx \in 0 .. AUDIT_SIZE - 1
  /\ rcAudit.entries \in [0 .. AUDIT_SIZE - 1 -> RcEvent]

RcTableInv == RcTypes /\ RcRooted /\ RcTableRight
RcRingInv == RcRingTypes /\ RcAuditLatest

-----------------------------------------------------------------------------
\* A capability is told from an empty slot by its id.
LEMMA RcCapReal ==
  ASSUME NEW cap \in RcCap
  PROVE  cap # NoCap /\ cap.id \in Nat
BY DEF RcCap, NoCap

\* What is held is a capability.
LEMMA RcHeldCap ==
  ASSUME RcTypes, NEW t \in CapTasks, NEW s \in Held(t)
  PROVE  s \in CapSlots /\ rcCaps[t][s] \in RcCap
BY DEF RcTypes, Held

\* The slots of a table in use are finitely many.
LEMMA RcHeldFinite ==
  ASSUME NEW t \in CapTasks
  PROVE  IsFiniteSet(Held(t))
<1>1. IsFiniteSet(CapSlots)
  <2>1. CAP_SLOTS - 1 \in Int
    BY RustCapsAssumption
  <2> QED
    BY <2>1, FS_Interval DEF CapSlots
<1> QED
  BY <1>1, FS_Subset DEF Held

(***************************************************************************)
(* A capability with a fresh id and no more than its grant gives, put into *)
(* a free slot, keeps the tables right (Insert).                           *)
(***************************************************************************)
LEMMA RcInsertKeeps ==
  ASSUME RcTableInv, NEW t \in CapTasks, NEW resource \in RESOURCES,
         NEW rights \in SUBSET RIGHTS, NEW root \in RcRoot,
         root.resource = resource, rights \subseteq root.rights,
         Insert(t, resource, rights, root)
  PROVE  RcTableInv'
<1> DEFINE cap == [id |-> rcNextId, resource |-> resource, rights |-> rights]
<1>1. PICK s \in CapSlots : /\ rcCaps[t][s] = NoCap
                            /\ rcCaps' = [rcCaps EXCEPT ![t][s] = cap]
  BY Zenon DEF Insert
<1>2. /\ rcReady /\ rcReady' = rcReady /\ rcNextId' = rcNextId + 1
      /\ rcRoots' = Append(rcRoots, root)
      /\ rcCount' = [rcCount EXCEPT ![t] = @ + 1]
  BY DEF Insert
<1>3. rcNextId \in Nat /\ rcRoots \in Seq(RcRoot) /\ Len(rcRoots) = rcNextId
  BY Zenon DEF RcTableInv, RcTypes
<1>4. cap \in RcCap
  BY <1>3, Zenon DEF RcCap
<1>5. /\ rcCaps' \in [CapTasks -> [CapSlots -> RcCap \cup {NoCap}]]
      /\ \A u \in CapTasks, r \in CapSlots :
           rcCaps'[u][r] = IF u = t /\ r = s THEN cap ELSE rcCaps[u][r]
  <2> HIDE DEF cap
  <2> QED
    BY <1>1, <1>4 DEF RcTableInv, RcTypes
<1>6. RcTypes'
  <2>1. rcCount' \in [CapTasks -> Int]
    BY <1>2 DEF RcTableInv, RcTypes
  <2>2. rcRoots' \in Seq(RcRoot) /\ Len(rcRoots') = rcNextId' /\ rcNextId' \in Nat
    BY <1>2, <1>3
  <2> QED
    BY <1>5, <2>1, <2>2, Zenon DEF RcTypes
<1>7. cap # NoCap /\ s \notin Held(t)
  BY <1>1, <1>4, RcCapReal, Zenon DEF Held
<1>8. \A u \in CapTasks : Held(u)' = IF u = t THEN Held(u) \cup {s} ELSE Held(u)
  <2> HIDE DEF cap
  <2> QED
    BY <1>5, <1>7 DEF Held
<1>9. \A i \in 1 .. rcNextId : rcRoots'[i] = rcRoots[i]
  BY <1>2, <1>3
<1>10. rcRoots'[rcNextId + 1] = root
  BY <1>2, <1>3
<1>11. ASSUME NEW u \in CapTasks, NEW r \in Held(u)
       PROVE  /\ rcCaps'[u][r] = rcCaps[u][r] /\ rcCaps[u][r].id \in Nat
              /\ rcCaps[u][r].id < rcNextId
              /\ rcRoots'[rcCaps[u][r].id + 1] = rcRoots[rcCaps[u][r].id + 1]
  <2>1. r \in CapSlots /\ rcCaps[u][r] \in RcCap
    BY <1>11, RcHeldCap, Zenon DEF RcTableInv
  <2>2. rcCaps[u][r].id \in Nat /\ rcCaps[u][r].id < rcNextId
    BY <1>11, <2>1, RcCapReal, Zenon DEF RcTableInv, RcRooted
  <2>3. rcCaps[u][r].id + 1 \in 1 .. rcNextId
    BY <1>3, <2>2
  <2>4. rcCaps'[u][r] = rcCaps[u][r]
    BY <1>5, <1>7, <2>1, Zenon DEF Held
  <2> QED
    BY <1>9, <2>2, <2>3, <2>4, Zenon
<1>12. RcRooted'
  <2> SUFFICES ASSUME NEW u \in CapTasks, NEW r \in Held(u)'
               PROVE  /\ rcReady'
                      /\ rcCaps'[u][r].id < rcNextId'
                      /\ rcCaps'[u][r].resource = rcRoots'[rcCaps'[u][r].id + 1].resource
                      /\ rcCaps'[u][r].rights \subseteq rcRoots'[rcCaps'[u][r].id + 1].rights
    BY DEF RcRooted
  <2>1. CASE r \in Held(u)
    <3>1. /\ rcCaps[u][r].resource = rcRoots[rcCaps[u][r].id + 1].resource
          /\ rcCaps[u][r].rights \subseteq rcRoots[rcCaps[u][r].id + 1].rights
      BY <2>1, Zenon DEF RcTableInv, RcRooted
    <3>2. rcCaps[u][r].id < rcNextId'
      <4> DEFINE id == rcCaps[u][r].id
      <4>1. id \in Nat /\ id < rcNextId
        BY <1>11, <2>1, Zenon
      <4>2. rcNextId \in Nat /\ rcNextId' = rcNextId + 1
        BY <1>2, <1>3, Zenon
      <4> HIDE DEF id
      <4>3. id < rcNextId'
        BY <4>1, <4>2
      <4> QED
        BY <4>3, Zenon DEF id
    <3> QED
      BY <1>2, <1>11, <2>1, <3>1, <3>2, Zenon
  <2>2. CASE r \notin Held(u)
    <3>1. u = t /\ r = s
      BY <1>8, <2>2, Zenon
    <3>2. rcCaps'[u][r] = cap
      BY <1>5, <3>1, Zenon
    <3>3. cap.id = rcNextId /\ cap.resource = resource /\ cap.rights = rights
      OBVIOUS
    <3> HIDE DEF cap
    <3> QED
      BY <1>2, <1>3, <1>10, <3>2, <3>3
  <2> QED
    BY <2>1, <2>2, Zenon
<1>13. ASSUME NEW u \in CapTasks
       PROVE  rcCount'[u] = Cardinality(Held(u))'
  <2>1. rcCount[u] = Cardinality(Held(u)) /\ rcCount \in [CapTasks -> Int]
    BY DEF RcTableInv, RcTableRight, RcTypes
  <2>2. CASE u = t
    <3>1. Cardinality(Held(u) \cup {s}) = Cardinality(Held(u)) + 1
      BY <1>7, <2>2, RcHeldFinite, FS_AddElement, Zenon
    <3> QED
      BY <1>2, <1>8, <2>1, <2>2, <3>1, Zenon
  <2>3. CASE u # t
    BY <1>2, <1>8, <2>1, <2>3, Zenon
  <2> QED
    BY <2>2, <2>3, Zenon
<1>14. ASSUME NEW u \in CapTasks, NEW v \in CapTasks, NEW q \in Held(u)', NEW r \in Held(v)',
              rcCaps'[u][q].id = rcCaps'[v][r].id
       PROVE  u = v /\ q = r
  <2>1. ASSUME NEW w \in CapTasks, NEW x \in Held(w)', x \notin Held(w)
        PROVE  w = t /\ x = s /\ rcCaps'[w][x].id = rcNextId
    <3>1. w = t /\ x = s
      BY <1>8, <2>1, Zenon
    <3>2. rcCaps'[w][x] = cap
      BY <1>5, <3>1, Zenon
    <3> QED
      BY <3>1, <3>2
  <2>2. CASE q \in Held(u) /\ r \in Held(v)
    <3>1. rcCaps[u][q].id = rcCaps[v][r].id
      BY <1>11, <1>14, <2>2, Zenon
    <3> QED
      BY <2>2, <3>1 DEF RcTableInv, RcTableRight
  <2>3. CASE q \notin Held(u) /\ r \notin Held(v)
    BY <2>1, <2>3, Zenon
  <2>6. ~(rcNextId < rcNextId)
    BY <1>3
  <2>4. CASE q \notin Held(u) /\ r \in Held(v)
    <3>1. rcCaps'[u][q].id = rcNextId
      BY <2>1, <2>4, Zenon
    <3>2. rcCaps'[v][r].id < rcNextId
      BY <1>11, <2>4, Zenon
    <3> QED
      BY <1>14, <2>6, <3>1, <3>2, Zenon
  <2>5. CASE q \in Held(u) /\ r \notin Held(v)
    <3>1. rcCaps'[v][r].id = rcNextId
      BY <2>1, <2>5, Zenon
    <3>2. rcCaps'[u][q].id < rcNextId
      BY <1>11, <2>5, Zenon
    <3> QED
      BY <1>14, <2>6, <3>1, <3>2, Zenon
  <2> QED
    BY <2>2, <2>3, <2>4, <2>5, Zenon
<1>15. RcTableRight'
  BY <1>13, <1>14, Zenon DEF RcTableRight
<1> QED
  BY <1>6, <1>12, <1>15, Zenon DEF RcTableInv

\* A capability granted is its own root (grant).
LEMMA RcGrantKeeps ==
  ASSUME RcTableInv, NEW t \in CapTasks, NEW resource \in RESOURCES,
         NEW rights \in SUBSET RIGHTS, grant(t, resource, rights)
  PROVE  RcTableInv'
<1> DEFINE root == [resource |-> resource, rights |-> rights]
<1>1. root \in RcRoot /\ root.resource = resource /\ rights \subseteq root.rights
  BY DEF RcRoot
<1>2. Insert(t, resource, rights, root)
  BY Zenon DEF grant
<1> HIDE DEF root
<1> QED
  BY <1>1, <1>2, RcInsertKeeps, Zenon

\* A capability passed on has the root of the giver's, whose rights cover
\* the giver's, and so what is left of them (delegate).
LEMMA RcDelegateKeeps ==
  ASSUME RcTableInv, NEW from \in CapTasks, NEW to \in CapTasks,
         NEW id \in 0 .. MAX_CAPS - 1, NEW new_rights \in SUBSET RIGHTS,
         delegate(from, to, id, new_rights)
  PROVE  RcTableInv'
<1>1. PICK s \in CapSlots :
        /\ rcCaps[from][s].id = id
        /\ Insert(to, rcCaps[from][s].resource, rcCaps[from][s].rights \cap new_rights,
                  rcRoots[id + 1])
  BY Zenon DEF delegate
<1> DEFINE cap == rcCaps[from][s]
           root == rcRoots[id + 1]
<1>2. id \in Nat
  BY RustCapsAssumption
<1>3. s \in Held(from)
  BY <1>1, <1>2 DEF Held, NoCap
<1>4. cap \in RcCap
  BY <1>3, RcHeldCap, Zenon DEF RcTableInv
<1>5. id < rcNextId /\ cap.resource = root.resource /\ cap.rights \subseteq root.rights
  BY <1>1, <1>3, Zenon DEF RcTableInv, RcRooted
<1>6. root \in RcRoot
  BY <1>2, <1>5 DEF RcTableInv, RcTypes
<1>7. cap.resource \in RESOURCES /\ cap.rights \cap new_rights \in SUBSET RIGHTS
  BY <1>4, Zenon DEF RcCap
<1> HIDE DEF cap, root
<1>8. Insert(to, cap.resource, cap.rights \cap new_rights, root)
  BY <1>1, Zenon DEF cap, root
<1>9. cap.rights \cap new_rights \subseteq root.rights
  BY <1>5
<1> QED
  BY <1>5, <1>6, <1>7, <1>8, <1>9, RcInsertKeeps, Zenon

\* A slot that is cleared is no longer counted (revoke).
LEMMA RcRevokeKeeps ==
  ASSUME RcTableInv, NEW t \in CapTasks, NEW id \in 0 .. MAX_CAPS - 1, revoke(t, id)
  PROVE  RcTableInv'
<1>1. PICK s \in CapSlots : /\ rcCaps[t][s].id = id
                            /\ rcCaps' = [rcCaps EXCEPT ![t][s] = NoCap]
  BY Zenon DEF revoke
<1>2. /\ rcReady' = rcReady /\ rcNextId' = rcNextId /\ rcRoots' = rcRoots
      /\ rcCount' = [rcCount EXCEPT ![t] = @ - 1]
  BY DEF revoke
<1>3. id \in Nat
  BY RustCapsAssumption
<1>4. s \in Held(t)
  BY <1>1, <1>3 DEF Held, NoCap
<1>5. /\ rcCaps' \in [CapTasks -> [CapSlots -> RcCap \cup {NoCap}]]
      /\ \A u \in CapTasks, r \in CapSlots :
           rcCaps'[u][r] = IF u = t /\ r = s THEN NoCap ELSE rcCaps[u][r]
  BY <1>1 DEF RcTableInv, RcTypes
<1>6. RcTypes'
  <2>1. rcCount' \in [CapTasks -> Int]
    BY <1>2 DEF RcTableInv, RcTypes
  <2> QED
    BY <1>2, <1>5, <2>1, Zenon DEF RcTableInv, RcTypes
<1>7. \A u \in CapTasks : Held(u)' = IF u = t THEN Held(u) \ {s} ELSE Held(u)
  BY <1>5 DEF Held
<1>8. \A u \in CapTasks : \A r \in Held(u)' : r \in Held(u) /\ rcCaps'[u][r] = rcCaps[u][r]
  <2> SUFFICES ASSUME NEW u \in CapTasks, NEW r \in Held(u)'
               PROVE  r \in Held(u) /\ rcCaps'[u][r] = rcCaps[u][r]
    OBVIOUS
  <2>1. r \in Held(u) /\ ~(u = t /\ r = s)
    BY <1>7
  <2>2. r \in CapSlots
    BY <2>1, Zenon DEF Held
  <2> QED
    BY <1>5, <2>1, <2>2, Zenon
<1>9. RcRooted'
  <2> SUFFICES ASSUME NEW u \in CapTasks, NEW r \in Held(u)'
               PROVE  /\ rcReady'
                      /\ rcCaps'[u][r].id < rcNextId'
                      /\ rcCaps'[u][r].resource = rcRoots'[rcCaps'[u][r].id + 1].resource
                      /\ rcCaps'[u][r].rights \subseteq rcRoots'[rcCaps'[u][r].id + 1].rights
    BY Zenon DEF RcRooted
  <2>1. r \in Held(u) /\ rcCaps'[u][r] = rcCaps[u][r]
    BY <1>8, Zenon
  <2>2. /\ rcReady /\ rcCaps[u][r].id < rcNextId
        /\ rcCaps[u][r].resource = rcRoots[rcCaps[u][r].id + 1].resource
        /\ rcCaps[u][r].rights \subseteq rcRoots[rcCaps[u][r].id + 1].rights
    BY <2>1, Zenon DEF RcTableInv, RcRooted
  <2> QED
    BY <1>2, <2>1, <2>2, Zenon
<1>10. ASSUME NEW u \in CapTasks
       PROVE  rcCount'[u] = Cardinality(Held(u))'
  <2>1. rcCount[u] = Cardinality(Held(u)) /\ rcCount \in [CapTasks -> Int]
    BY DEF RcTableInv, RcTableRight, RcTypes
  <2>2. CASE u = t
    <3>1. Cardinality(Held(u) \ {s}) = Cardinality(Held(u)) - 1
      BY <1>4, <2>2, RcHeldFinite, FS_RemoveElement, Zenon
    <3> QED
      BY <1>2, <1>7, <2>1, <2>2, <3>1, Zenon
  <2>3. CASE u # t
    BY <1>2, <1>7, <2>1, <2>3, Zenon
  <2> QED
    BY <2>2, <2>3, Zenon
<1>11. RcTableRight'
  BY <1>8, <1>10 DEF RcTableInv, RcTableRight
<1> QED
  BY <1>6, <1>9, <1>11 DEF RcTableInv

\* Before the set-up the tables are empty, and stay so in it (init).
LEMMA RcSetUpKeeps ==
  ASSUME RcTableInv, RcSetUp
  PROVE  RcTableInv'
<1>1. /\ ~rcReady /\ rcReady' = TRUE /\ rcCount' = [rcCount EXCEPT ![0] = 0]
      /\ rcCaps' = rcCaps /\ rcNextId' = rcNextId /\ rcRoots' = rcRoots
  BY Zenon DEF RcSetUp
<1>2. \A t \in CapTasks : Held(t) = {} /\ Held(t)' = {}
  BY <1>1 DEF RcTableInv, RcRooted, Held
<1>3. ASSUME NEW t \in CapTasks
      PROVE  rcCount'[t] = 0
  BY <1>1, <1>2, FS_EmptySet, Zenon DEF RcTableInv, RcTableRight, RcTypes
<1>4. RcTypes'
  <2>1. rcCount' \in [CapTasks -> Int]
    <3>1. rcCount' = [rcCount EXCEPT ![0] = 0] /\ rcCount \in [CapTasks -> Int]
      BY DEF RcSetUp, RcTableInv, RcTypes
    <3>2. \A t \in CapTasks : rcCount'[t] \in Int
      BY <1>3
    <3> QED
      BY <3>1, <3>2, Zenon
  <2> QED
    BY <1>1, <2>1 DEF RcTableInv, RcTypes
<1> QED
  BY <1>2, <1>3, <1>4, FS_EmptySet, Zenon DEF RcTableInv, RcRooted, RcTableRight

\* The tables stay right in every step of the manager.
LEMMA RcTablesKept == RcTableInv /\ [RcNext]_rcVars => RcTableInv'
<1> SUFFICES ASSUME RcTableInv, [RcNext]_rcVars
             PROVE  RcTableInv'
  OBVIOUS
<1>1. CASE UNCHANGED rcVars
  <2>1. /\ rcCaps' = rcCaps /\ rcCount' = rcCount /\ rcNextId' = rcNextId
        /\ rcRoots' = rcRoots /\ rcReady' = rcReady
    BY <1>1, Zenon DEF rcVars
  <2>2. \A t \in CapTasks : Held(t)' = Held(t)
    BY <2>1 DEF Held
  <2>3. RcTypes'
    BY <2>1, Zenon DEF RcTableInv, RcTypes
  <2>4. RcRooted'
    BY <2>1, <2>2, Zenon DEF RcTableInv, RcRooted
  <2>5. RcTableRight'
    BY <2>1, <2>2 DEF RcTableInv, RcTableRight
  <2> QED
    BY <2>3, <2>4, <2>5, Zenon DEF RcTableInv
<1> QED
  BY <1>1, RcSetUpKeeps, RcGrantKeeps, RcRevokeKeeps, RcDelegateKeeps, Zenon DEF RcNext

\* Empty capability tables satisfy the invariant.
LEMMA RcTablesInit == RcInit => RcTableInv
<1> SUFFICES ASSUME RcInit
             PROVE  RcTableInv
  BY Zenon
<1>1. \A t \in CapTasks : Held(t) = {}
  BY Zenon DEF RcInit, Held
<1>2. RcTypes
  BY DEF RcInit, RcTypes
<1>3. \A t \in CapTasks : rcCount[t] = Cardinality(Held(t))
  BY <1>1, FS_EmptySet, Zenon DEF RcInit
<1> QED
  BY <1>1, <1>2, <1>3, Zenon DEF RcTableInv, RcRooted, RcTableRight

-----------------------------------------------------------------------------
(* The audit ring                                                          *)

\* The place k behind a place of a ring of n.
LEMMA RingBack ==
  ASSUME NEW n \in Nat \ {0}, NEW w \in 0 .. n - 1, NEW k \in 1 .. n
  PROVE  /\ (w - k) % n = IF w >= k THEN w - k ELSE w - k + n
         /\ (w + 1) % n = IF w + 1 = n THEN 0 ELSE w + 1
<1>1. ASSUME NEW x \in Int, 0 <= x, x < n
      PROVE  x % n = x
  BY <1>1
<1>2. ASSUME NEW x \in Int, -n <= x, x < 0
      PROVE  x % n = x + n
  BY <1>2
<1>3. ASSUME NEW x \in Int, x = n
      PROVE  x % n = 0
  BY <1>3
<1>4. CASE w >= k
  BY <1>1, <1>3, <1>4
<1>5. CASE w < k
  BY <1>1, <1>2, <1>3, <1>5
<1> QED
  BY <1>4, <1>5

\* What is k + 1 behind the advanced index was k behind it, and the last
\* entry written is one behind.
LEMMA RingAdvance ==
  ASSUME NEW n \in Nat \ {0}, NEW w \in 0 .. n - 1
  PROVE  /\ (w + 1) % n \in 0 .. n - 1
         /\ (((w + 1) % n) - 1) % n = w
         /\ \A k \in 1 .. n - 1 : /\ (((w + 1) % n) - (k + 1)) % n = (w - k) % n
                                  /\ (w - k) % n \in 0 .. n - 1
                                  /\ (w - k) % n # w
<1> DEFINE v == IF w + 1 = n THEN 0 ELSE w + 1
<1>1. v \in 0 .. n - 1 /\ (w + 1) % n = v
  BY RingBack
<1>2. (v - 1) % n = w
  <2>1. (v - 1) % n = IF v >= 1 THEN v - 1 ELSE v - 1 + n
    BY <1>1, RingBack
  <2> QED
    BY <2>1
<1>3. ASSUME NEW k \in 1 .. n - 1
      PROVE  /\ (v - (k + 1)) % n = (w - k) % n
             /\ (w - k) % n \in 0 .. n - 1
             /\ (w - k) % n # w
  <2>1. (v - (k + 1)) % n = IF v >= k + 1 THEN v - (k + 1) ELSE v - (k + 1) + n
    BY <1>1, RingBack
  <2>2. (w - k) % n = IF w >= k THEN w - k ELSE w - k + n
    BY RingBack
  <2> QED
    BY <2>1, <2>2
<1> HIDE DEF v
<1> QED
  BY <1>1, <1>2, <1>3, Zenon

\* An event that is recorded takes the place of the oldest (record).
LEMMA RcRecordKeeps ==
  ASSUME RcRingInv, NEW type \in RcEventType, NEW t \in Int, NEW id \in Int, record(type, t, id)
  PROVE  RcRingInv'
<1> DEFINE e == <<type, t, id>>
           w == rcAudit.write_idx
           n == Len(rcEvents)
<1>1. e \in RcEvent /\ rcEvents \in Seq(RcEvent) /\ n \in Nat
      /\ w \in 0 .. AUDIT_SIZE - 1 /\ AUDIT_SIZE \in Nat \ {0}
      /\ rcAudit.entries \in [0 .. AUDIT_SIZE - 1 -> RcEvent]
  BY RustCapsAssumption DEF RcRingInv, RcRingTypes, RcEvent
<1> HIDE DEF e, w, n
<1>2. /\ rcAudit'.entries = [rcAudit.entries EXCEPT ![w] = e]
      /\ rcAudit'.write_idx = (w + 1) % AUDIT_SIZE
      /\ rcAudit'.total_entries = rcAudit.total_entries + 1
      /\ rcEvents' = Append(rcEvents, e)
  BY DEF record, e, w
<1>3. /\ (w + 1) % AUDIT_SIZE \in 0 .. AUDIT_SIZE - 1
      /\ (((w + 1) % AUDIT_SIZE) - 1) % AUDIT_SIZE = w
  BY <1>1, RingAdvance, Zenon
<1>4. /\ Len(rcEvents') = n + 1 /\ rcEvents'[n + 1] = e /\ rcEvents' \in Seq(RcEvent)
      /\ \A i \in 1 .. n : rcEvents'[i] = rcEvents[i]
  BY <1>1, <1>2 DEF n
<1>5. RcRingTypes'
  BY <1>1, <1>2, <1>3, <1>4, Zenon DEF RcRingTypes
<1>6. rcAudit'.total_entries = Len(rcEvents')
  BY <1>2, <1>4, Zenon DEF RcRingInv, RcAuditLatest, n
<1>7. ASSUME NEW k \in 1 .. AUDIT_SIZE, k <= n + 1
      PROVE  rcAudit'.entries[(rcAudit'.write_idx - k) % AUDIT_SIZE] = rcEvents'[(n + 1) + 1 - k]
  <2>1. CASE k = 1
    BY <1>1, <1>2, <1>3, <1>4, <2>1
  <2>2. CASE k # 1
    <3> DEFINE j == k - 1
               i == (w - j) % AUDIT_SIZE
    <3>1. j \in 1 .. AUDIT_SIZE - 1 /\ k = j + 1 /\ j \in 1 .. AUDIT_SIZE /\ j <= n
      BY <1>1, <1>7, <2>2
    <3>2. (((w + 1) % AUDIT_SIZE) - (j + 1)) % AUDIT_SIZE = i
          /\ i \in 0 .. AUDIT_SIZE - 1 /\ i # w
      BY <1>1, <3>1, RingAdvance, Zenon
    <3>3. rcAudit.entries[i] = rcEvents[n + 1 - j]
      BY <3>1, Zenon DEF RcRingInv, RcAuditLatest, w, n
    <3>4. n + 1 - j \in 1 .. n /\ (n + 1) + 1 - k = n + 1 - j
      BY <1>1, <3>1
    <3> HIDE DEF j, i
    <3>5. rcAudit'.entries[i] = rcAudit.entries[i]
      BY <1>1, <1>2, <3>2, Zenon
    <3> QED
      BY <1>2, <1>4, <3>1, <3>2, <3>3, <3>4, <3>5, Zenon
  <2> QED
    BY <2>1, <2>2, Zenon
<1>8. RcAuditLatest'
  BY <1>4, <1>6, <1>7, Zenon DEF RcAuditLatest
<1> QED
  BY <1>5, <1>8, Zenon DEF RcRingInv

\* Every step records at most one event.
LEMMA RcRingKept == RcTableInv /\ RcRingInv /\ [RcNext]_rcVars => RcRingInv'
<1> SUFFICES ASSUME RcTableInv, RcRingInv, [RcNext]_rcVars
             PROVE  RcRingInv'
  OBVIOUS
<1>1. CASE UNCHANGED rcVars
  BY <1>1 DEF rcVars, RcRingInv, RcRingTypes, RcAuditLatest
<1>2. \A t \in CapTasks : t \in Int
  BY RustCapsAssumption DEF CapTasks
<1>3. rcNextId \in Int /\ \A id \in 0 .. MAX_CAPS - 1 : id \in Int
  BY RustCapsAssumption DEF RcTableInv, RcTypes
<1>4. CASE RcSetUp
  BY <1>4, RcRecordKeeps DEF RcSetUp, RcEventType
<1>5. ASSUME NEW t \in CapTasks, NEW id \in 0 .. MAX_CAPS - 1, revoke(t, id)
      PROVE  RcRingInv'
  <2>1. t \in Int /\ id \in Int /\ record("CapabilityRevoked", t, id)
    BY <1>2, <1>3, <1>5, Zenon DEF revoke
  <2> QED
    BY <2>1, RcRecordKeeps, Zenon DEF RcEventType
<1>6. ASSUME NEW t \in CapTasks, record("CapabilityGranted", t, rcNextId)
      PROVE  RcRingInv'
  <2>1. t \in Int
    BY <1>2
  <2> QED
    BY <1>3, <1>6, <2>1, RcRecordKeeps, Zenon DEF RcEventType
<1> QED
  BY <1>1, <1>4, <1>5, <1>6, Zenon DEF RcNext, grant, delegate, Insert

(***************************************************************************)
(* For every number of tasks and slots and every set of rights: no chain   *)
(* of delegations gives a task a right on a resource that the grant at its *)
(* start did not (grant, delegate, revoke, has_capability).                *)
(***************************************************************************)
THEOREM CapsNeverAmplify == RcSpec => []RcNoAmplification
<1>1. RcTableInv => RcNoAmplification
  <2> SUFFICES ASSUME RcTableInv, NEW t \in CapTasks, NEW resource \in RESOURCES,
                      NEW rights \in SUBSET RIGHTS, NEW s \in Confirming(t, resource, rights)
               PROVE  /\ rcRoots[rcCaps[t][s].id + 1].resource = resource
                      /\ rights \subseteq rcRoots[rcCaps[t][s].id + 1].rights
    BY DEF RcNoAmplification
  <2>1. s \in Held(t) /\ rcCaps[t][s].resource = resource /\ rights \subseteq rcCaps[t][s].rights
    BY Zenon DEF Confirming
  <2>2. /\ rcCaps[t][s].resource = rcRoots[rcCaps[t][s].id + 1].resource
        /\ rcCaps[t][s].rights \subseteq rcRoots[rcCaps[t][s].id + 1].rights
    BY <2>1, Zenon DEF RcTableInv, RcRooted
  <2> QED
    BY <2>1, <2>2, Zenon
<1> QED
  BY <1>1, RcTablesInit, RcTablesKept, PTL DEF RcSpec

(***************************************************************************)
(* For every number of tasks and slots and every size of the ring: an id   *)
(* is held once, `count` is the number of slots in use, and the audit ring *)
(* holds the latest events in order (grant, delegate, revoke, record).     *)
(***************************************************************************)
THEOREM CapTablesRight == RcSpec => []RcTables
<1>1. RcInit => RcRingInv
  <2> SUFFICES ASSUME RcInit
               PROVE  RcRingInv
    OBVIOUS
  <2>1. Startup \in RcEvent
    BY DEF Startup, RcEvent, RcEventType
  <2>2. RcRingTypes
    BY <2>1, RustCapsAssumption DEF RcInit, RcRingTypes
  <2> QED
    BY <2>2 DEF RcRingInv, RcAuditLatest, RcInit
<1>2. RcTableInv /\ RcRingInv => RcTables
  BY DEF RcTableInv, RcRingInv, RcTables
<1> QED
  BY <1>1, <1>2, RcTablesInit, RcTablesKept, RcRingKept, PTL DEF RcSpec

-----------------------------------------------------------------------------
(***************************************************************************)
(* Devices and descriptors: which tables a task reaches follows from the   *)
(* PCBs that name its slot, and a running process is named by its own.     *)
(***************************************************************************)

Tables == {KernelTable} \cup Pcbs
DevIds == 1 .. Len(dev_table)
Entries(d) == {h \in Tables \X Fds : fd_table[h[1]][h[2]] = d}

DevTypes ==
  /\ dev_table \in Seq([name : DEVICE_NAMES, open_count : Nat])
  /\ openings \in Seq(Nat) /\ Len(openings) = Len(dev_table)
  /\ fd_table \in [Tables -> [Fds -> {NoDev} \cup DevIds]]
  /\ mine \in [TaskSlots -> SUBSET (Fds \X DevIds)]

TaskTypes ==
  /\ procs \in [Pcbs -> [state : {"NONE", "ALIVE", "ZOMBIE"}, task_idx : {-1} \cup TaskSlots]]
  /\ runs \in [TaskSlots -> {Free, Thread} \cup Pcbs]

\* The PCB of a running process is ALIVE and names its slot; a free slot has
\* nothing left of its last task.
OwnInv ==
  \A t \in TaskSlots :
    /\ runs[t] \in Pcbs => procs[runs[t]].state = "ALIVE" /\ procs[runs[t]].task_idx = t
    /\ runs[t] = Free => mine[t] = {} /\ t \notin hidden

\* A process that is not hidden comes first among the PCBs that name its slot.
FirstInv ==
  \A t \in TaskSlots : runs[t] \in Pcbs /\ t \notin hidden =>
    \A q \in Naming(t) : runs[t] <= q

\* ... and holds what is in its table.
HeldInv ==
  \A t \in TaskSlots : runs[t] \in Pcbs /\ t \notin hidden =>
    \A fd \in Fds, d \in DevIds : <<fd, d>> \in mine[t] <=> fd_table[runs[t]][fd] = d

\* A device was opened at least as often as it is held, and its count is that
\* number as far as it can hold it.
CountInv ==
  \A d \in DevIds : /\ dev_table[d].open_count = openings[d] % OPEN_COUNTS
                    /\ Cardinality(Entries(d)) <= openings[d]

DevInv == DevTypes /\ TaskTypes /\ OwnInv /\ FirstInv /\ HeldInv /\ CountInv

\* Least is the least.
LEMMA LeastIs ==
  ASSUME NEW S \in SUBSET Nat, S # {}
  PROVE  Least(S) \in S /\ \A m \in S : Least(S) <= m
<1>1. \E n \in S : \A m \in S : n <= m
  BY LeastNat, Zenon
<1> QED
  BY <1>1, Zenon DEF Least

\* What the lookup finds: the first PCB that names the slot, if any does.
LEMMA Found ==
  ASSUME NEW t \in TaskSlots
  PROVE  /\ find_by_task(t) \in Tables
         /\ find_by_task(t) # KernelTable =>
              /\ find_by_task(t) \in Naming(t)
              /\ \A q \in Naming(t) : find_by_task(t) <= q
         /\ Naming(t) # {} => find_by_task(t) # KernelTable
<1>1. Naming(t) \in SUBSET Nat /\ Naming(t) \subseteq Pcbs /\ KernelTable \notin Pcbs
  BY DescriptorsAssumption DEF Naming, Pcbs, KernelTable
<1>2. CASE Naming(t) = {}
  BY <1>2, Zenon DEF find_by_task, Tables
<1>3. CASE Naming(t) # {}
  <2>1. Least(Naming(t)) \in Naming(t) /\ \A q \in Naming(t) : Least(Naming(t)) <= q
    BY <1>1, <1>3, LeastIs, Zenon
  <2>2. find_by_task(t) = Least(Naming(t))
    BY <1>3, Zenon DEF find_by_task
  <2> QED
    BY <1>1, <2>1, <2>2, Zenon DEF Tables
<1> QED
  BY <1>2, <1>3

\* A process that is not hidden finds its own PCB.
LEMMA OwnFound ==
  ASSUME TaskTypes, OwnInv, FirstInv, NEW t \in TaskSlots, runs[t] \in Pcbs, t \notin hidden
  PROVE  find_by_task(t) = runs[t]
<1>1. runs[t] \in Naming(t)
  <2>1. procs[runs[t]].state = "ALIVE" /\ procs[runs[t]].task_idx = t
    BY Zenon DEF OwnInv
  <2> QED
    BY <2>1 DEF Naming
<1>2. /\ find_by_task(t) \in Naming(t)
      /\ find_by_task(t) <= runs[t] /\ runs[t] <= find_by_task(t)
  BY <1>1, Found, Zenon DEF FirstInv
<1>3. find_by_task(t) \in Nat /\ runs[t] \in Nat
  BY <1>2, DescriptorsAssumption DEF Naming, Pcbs
<1> QED
  BY <1>2, <1>3

\* No other task finds the PCB of a running process.
LEMMA NotFound ==
  ASSUME OwnInv, NEW t \in TaskSlots, NEW u \in TaskSlots, t # u, runs[u] \in Pcbs
  PROVE  find_by_task(t) # runs[u]
<1>1. procs[runs[u]].task_idx = u
  BY Zenon DEF OwnInv
<1>2. runs[u] \notin Naming(t) /\ runs[u] # KernelTable
  BY <1>1, DescriptorsAssumption DEF Naming, Pcbs, KernelTable
<1> QED
  BY <1>2, Found, Zenon

\* The entries of all tables are finitely many.
LEMMA EntriesFinite ==
  ASSUME NEW d
  PROVE  IsFiniteSet(Entries(d)) /\ Cardinality(Entries(d)) \in Nat
<1>1. IsFiniteSet(Pcbs) /\ IsFiniteSet(Fds)
  BY FS_Interval, DescriptorsAssumption DEF Pcbs, Fds
<1>2. IsFiniteSet(Tables)
  <2>1. Tables = Pcbs \cup {KernelTable}
    BY Zenon DEF Tables
  <2> QED
    BY <1>1, <2>1, FS_AddElement, Zenon
<1>3. IsFiniteSet(Tables \X Fds)
  BY <1>1, <1>2, FS_Product, Zenon
<1>4. Entries(d) \subseteq Tables \X Fds
  BY Zenon DEF Entries
<1> QED
  BY <1>3, <1>4, FS_Subset, FS_CardinalityType, Zenon

\* Clearing entries leaves a device held no more often.
LEMMA FewerHeld ==
  ASSUME DevTypes, CountInv, dev_table' = dev_table, openings' = openings,
         \A p \in Tables, fd \in Fds : fd_table'[p][fd] \in {NoDev, fd_table[p][fd]}
  PROVE  CountInv'
<1>1. DevIds' = DevIds /\ NoDev \notin DevIds
  BY DEF DevIds, NoDev
<1>2. ASSUME NEW d \in DevIds
      PROVE  Cardinality(Entries(d)') <= openings[d]
  <2> DEFINE S == Entries(d)'
  <2>1. S \subseteq Entries(d)
    BY <1>1 DEF Entries
  <2>2. IsFiniteSet(Entries(d)) /\ Cardinality(Entries(d)) \in Nat
    BY EntriesFinite, Zenon
  <2> HIDE DEF S
  <2>3. Cardinality(S) \in Nat /\ Cardinality(S) <= Cardinality(Entries(d))
    BY <2>1, <2>2, FS_Subset, FS_CardinalityType, Zenon
  <2>4. Cardinality(Entries(d)) <= openings[d] /\ openings[d] \in Nat
    BY DEF CountInv, DevTypes, DevIds
  <2>5. Cardinality(S) <= openings[d]
    BY <2>2, <2>3, <2>4
  <2> QED
    BY <2>5, Zenon DEF S
<1> QED
  BY <1>1, <1>2, Zenon DEF CountInv

\* A new device is not held (device_register).
LEMMA RegisterKeeps ==
  ASSUME DevInv, NEW name \in DEVICE_NAMES, device_register(name)
  PROVE  DevInv'
<1> DEFINE n == Len(dev_table)
           dev == [name |-> name, open_count |-> 0]
<1>1. /\ dev_table \in Seq([name : DEVICE_NAMES, open_count : Nat]) /\ n \in Nat
      /\ openings \in Seq(Nat) /\ Len(openings) = n
      /\ fd_table \in [Tables -> [Fds -> {NoDev} \cup (1 .. n)]]
      /\ mine \in [TaskSlots -> SUBSET (Fds \X (1 .. n))]
  BY DEF DevInv, DevTypes, DevIds
<1>2. /\ dev_table' = Append(dev_table, dev) /\ openings' = Append(openings, 0)
      /\ fd_table' = fd_table /\ mine' = mine /\ hidden' = hidden
      /\ procs' = procs /\ runs' = runs
  BY DEF device_register
<1>3. dev \in [name : DEVICE_NAMES, open_count : Nat] /\ dev.open_count = 0
  BY Zenon
<1> HIDE DEF dev
<1>4. /\ dev_table' \in Seq([name : DEVICE_NAMES, open_count : Nat])
      /\ Len(dev_table') = n + 1 /\ dev_table'[n + 1] = dev
      /\ \A d \in 1 .. n : dev_table'[d] = dev_table[d]
  BY <1>1, <1>2, <1>3
<1>5. /\ openings' \in Seq(Nat) /\ Len(openings') = n + 1 /\ openings'[n + 1] = 0
      /\ \A d \in 1 .. n : openings'[d] = openings[d]
  BY <1>1, <1>2
<1> HIDE DEF n
<1>6. DevIds = 1 .. n /\ DevIds' = 1 .. n + 1 /\ 1 .. n + 1 = (1 .. n) \cup {n + 1}
      /\ n + 1 \notin 1 .. n /\ n + 1 # NoDev
  BY <1>1, <1>4 DEF DevIds, n, NoDev
<1>7. DevTypes'
  <2>1. fd_table' \in [Tables -> [Fds -> {NoDev} \cup DevIds']]
    BY <1>1, <1>2, <1>6
  <2>2. mine' \in [TaskSlots -> SUBSET (Fds \X DevIds')]
    <3>1. \A t \in TaskSlots : mine[t] \subseteq Fds \X (1 .. n)
      BY <1>1, Zenon
    <3>2. Fds \X (1 .. n) \subseteq Fds \X DevIds'
      BY <1>6, Zenon
    <3>3. mine = [t \in TaskSlots |-> mine[t]]
      BY <1>1, Zenon
    <3> QED
      BY <1>2, <3>1, <3>2, <3>3, Zenon
  <2> QED
    BY <1>4, <1>5, <2>1, <2>2, Zenon DEF DevTypes, Tables
<1>8. TaskTypes' /\ OwnInv' /\ FirstInv'
  BY <1>2, Zenon DEF DevInv, TaskTypes, OwnInv, FirstInv, Naming
<1>9. HeldInv'
  <2>1. ASSUME NEW t \in TaskSlots, runs[t] \in Pcbs, t \notin hidden,
               NEW fd \in Fds, NEW d \in DevIds'
        PROVE  <<fd, d>> \in mine[t] <=> fd_table[runs[t]][fd] = d
    <3>1. CASE d \in 1 .. n
      BY <1>6, <2>1, <3>1, Zenon DEF DevInv, HeldInv
    <3>2. CASE d = n + 1
      <4>1. <<fd, d>> \notin mine[t]
        <5>1. mine[t] \subseteq Fds \X (1 .. n) /\ d \notin 1 .. n
          BY <1>1, <1>6, <3>2, Zenon
        <5> QED
          BY <5>1
      <4>2. fd_table[runs[t]][fd] # d
        <5>1. runs[t] \in Tables
          BY <2>1, Zenon DEF Tables
        <5> QED
          BY <1>1, <1>6, <3>2, <5>1
      <4> QED
        BY <4>1, <4>2, Zenon
    <3> QED
      BY <1>6, <3>1, <3>2, Zenon
  <2> QED
    BY <1>2, <2>1, Zenon DEF HeldInv
<1>10. CountInv'
  <2>1. \A d : Entries(d)' = Entries(d)
    BY <1>2, Zenon DEF Entries
  <2>2. ASSUME NEW d \in 1 .. n
        PROVE  /\ dev_table'[d].open_count = openings'[d] % OPEN_COUNTS
               /\ Cardinality(Entries(d)') <= openings'[d]
    BY <1>4, <1>5, <1>6, <2>1, Zenon DEF DevInv, CountInv
  <2>3. ASSUME NEW d, d = n + 1
        PROVE  /\ dev_table'[d].open_count = openings'[d] % OPEN_COUNTS
               /\ Cardinality(Entries(d)') <= openings'[d]
    <3>1. \A p \in Tables, fd \in Fds : fd_table[p][fd] # d
      BY <1>1, <1>6, <2>3
    <3>2. Entries(d)' = {}
      BY <2>1, <3>1, Zenon DEF Entries
    <3>3. 0 % OPEN_COUNTS = 0
      BY DescriptorsAssumption, RemainderIs
    <3>4. dev_table'[d].open_count = 0 /\ openings'[d] = 0
      BY <1>3, <1>4, <1>5, <2>3, Zenon
    <3> QED
      BY <3>2, <3>3, <3>4, FS_EmptySet
  <2> QED
    BY <1>6, <2>2, <2>3, Zenon DEF CountInv
<1> QED
  BY <1>7, <1>8, <1>9, <1>10, Zenon DEF DevInv

\* A call of the task in slot t that sets one entry of the table it finds, and
\* the ghost of that task with it, leaves every other process its own.
CallStep(t, fd, e) ==
  /\ procs' = procs /\ runs' = runs /\ hidden' = hidden /\ DevIds' = DevIds
  /\ \A p \in Tables, f \in Fds :
       fd_table'[p][f] = IF p = find_by_task(t) /\ f = fd THEN e ELSE fd_table[p][f]
  /\ \A u \in TaskSlots : u # t => mine'[u] = mine[u]
  /\ runs[t] \in Pcbs /\ t \notin hidden =>
       \A f \in Fds, d \in DevIds :
         <<f, d>> \in mine'[t] <=> IF f = fd THEN d = e ELSE <<f, d>> \in mine[t]

LEMMA CallKeeps ==
  ASSUME DevInv, NEW t \in TaskSlots, runs[t] # Free, NEW fd \in Fds, NEW e, CallStep(t, fd, e)
  PROVE  TaskTypes' /\ OwnInv' /\ FirstInv' /\ HeldInv'
<1> USE DEF CallStep
<1>1. TaskTypes' /\ FirstInv'
  BY Zenon DEF DevInv, TaskTypes, FirstInv, Naming
<1>2. OwnInv'
  <2>1. ASSUME NEW u \in TaskSlots
        PROVE  /\ runs[u] \in Pcbs => procs[runs[u]].state = "ALIVE" /\ procs[runs[u]].task_idx = u
               /\ runs[u] = Free => mine'[u] = {} /\ u \notin hidden
    BY Zenon DEF DevInv, OwnInv
  <2> QED
    BY <2>1, Zenon DEF OwnInv
<1>3. ASSUME NEW u \in TaskSlots, runs[u] \in Pcbs, u \notin hidden, NEW f \in Fds, NEW d \in DevIds
      PROVE  <<f, d>> \in mine'[u] <=> fd_table'[runs[u]][f] = d
  <2>0. HeldInv
    BY Zenon DEF DevInv
  <2>1. runs[u] \in Tables /\ (<<f, d>> \in mine[u] <=> fd_table[runs[u]][f] = d)
    BY <1>3, <2>0 DEF HeldInv, Tables
  <2>2. CASE u = t
    <3>1. find_by_task(t) = runs[t]
      BY <1>3, <2>2, OwnFound, Zenon DEF DevInv
    <3>2. CASE f = fd
      <4>1. <<f, d>> \in mine'[u] <=> d = e
        BY <1>3, <2>2, <3>2, Zenon
      <4>2. fd_table'[runs[u]][f] = e
        BY <2>1, <2>2, <3>1, <3>2, Zenon
      <4> QED
        BY <4>1, <4>2, Zenon
    <3>3. CASE f # fd
      <4>1. <<f, d>> \in mine'[u] <=> <<f, d>> \in mine[u]
        BY <1>3, <2>2, <3>3, Zenon
      <4>2. fd_table'[runs[u]][f] = fd_table[runs[u]][f]
        BY <2>1, <3>3, Zenon
      <4> QED
        BY <2>1, <4>1, <4>2, Zenon
    <3> QED
      BY <3>2, <3>3
  <2>3. CASE u # t
    <3>1. find_by_task(t) # runs[u]
      BY <1>3, <2>3, NotFound, Zenon DEF DevInv
    <3> QED
      BY <2>1, <2>3, <3>1, Zenon
  <2> QED
    BY <2>2, <2>3
<1>4. HeldInv'
  <2> SUFFICES ASSUME NEW u \in TaskSlots, runs'[u] \in Pcbs, u \notin hidden',
                      NEW f \in Fds, NEW d \in DevIds'
               PROVE  <<f, d>> \in mine'[u] <=> fd_table'[runs'[u]][f] = d
    BY Zenon DEF HeldInv
  <2>1. runs'[u] = runs[u] /\ runs[u] \in Pcbs /\ u \notin hidden /\ d \in DevIds
    BY Zenon
  <2> HIDE DEF CallStep
  <2>2. <<f, d>> \in mine'[u] <=> fd_table'[runs[u]][f] = d
    BY <1>3, <2>1, Zenon
  <2> QED
    BY <2>1, <2>2, Zenon
<1> QED
  BY <1>1, <1>2, <1>4, Zenon

\* A closed descriptor leads nowhere (sys_close).
LEMMA CloseKeeps ==
  ASSUME DevInv, NEW t \in TaskSlots, runs[t] # Free, NEW fd \in Fds, sys_close(t, fd)
  PROVE  DevInv'
<1> DEFINE p == find_by_task(t)
<1>1. /\ fd_table' = [fd_table EXCEPT ![p][fd] = NoDev]
      /\ mine' = [mine EXCEPT ![t] = {h \in mine[t] : h[1] # fd}]
      /\ dev_table' = dev_table /\ openings' = openings
      /\ procs' = procs /\ runs' = runs /\ hidden' = hidden
  BY Zenon DEF sys_close
<1>2. p \in Tables
  BY Found, Zenon
<1> HIDE DEF p
<1>3. /\ fd_table \in [Tables -> [Fds -> {NoDev} \cup DevIds]]
      /\ mine \in [TaskSlots -> SUBSET (Fds \X DevIds)] /\ mine[t] \subseteq Fds \X DevIds
  BY Zenon DEF DevInv, DevTypes
<1>4. DevIds' = DevIds /\ NoDev \notin DevIds
  BY <1>1 DEF DevIds, NoDev
<1>5. /\ fd_table' \in [Tables -> [Fds -> {NoDev} \cup DevIds]]
      /\ \A q \in Tables, f \in Fds :
           fd_table'[q][f] = IF q = p /\ f = fd THEN NoDev ELSE fd_table[q][f]
  BY <1>1, <1>2, <1>3
<1>6. /\ mine' \in [TaskSlots -> SUBSET (Fds \X DevIds)]
      /\ \A u \in TaskSlots : u # t => mine'[u] = mine[u]
      /\ mine'[t] = {h \in mine[t] : h[1] # fd}
  <2> DEFINE M == {h \in mine[t] : h[1] # fd}
  <2>1. M \in SUBSET (Fds \X DevIds)
    BY <1>3, Zenon
  <2> HIDE DEF M
  <2>2. mine' = [mine EXCEPT ![t] = M]
    BY <1>1, Zenon DEF M
  <2>3. mine'[t] = M
    BY <1>3, <2>2, Zenon
  <2> QED
    BY <1>3, <2>1, <2>2, <2>3, Zenon DEF M
<1>7. DevTypes'
  BY <1>1, <1>4, <1>5, <1>6, Zenon DEF DevInv, DevTypes, Tables
<1>8. \A f \in Fds, d \in DevIds :
        <<f, d>> \in mine'[t] <=> IF f = fd THEN d = NoDev ELSE <<f, d>> \in mine[t]
  BY <1>4, <1>6
<1>9. TaskTypes' /\ OwnInv' /\ FirstInv' /\ HeldInv'
  <2>1. CallStep(t, fd, NoDev)
    BY <1>1, <1>4, <1>5, <1>6, <1>8, Zenon DEF p, CallStep
  <2> QED
    BY <2>1, CallKeeps, Zenon
<1>10. CountInv'
  <2>1. \A q \in Tables, f \in Fds : fd_table'[q][f] \in {NoDev, fd_table[q][f]}
    BY <1>5, Zenon
  <2> QED
    BY <1>1, <2>1, FewerHeld, Zenon DEF DevInv
<1> QED
  BY <1>7, <1>9, <1>10, Zenon DEF DevInv

\* An opening is counted before a descriptor is looked for, and the one found
\* led nowhere (sys_open, proc_fd_alloc).
LEMMA OpenKeeps ==
  ASSUME DevInv, NEW t \in TaskSlots, runs[t] # Free, NEW name \in DEVICE_NAMES, sys_open(t, name)
  PROVE  DevInv'
<1>1. PICK d \in DevIds :
        /\ dev_table' = [dev_table EXCEPT ![d].open_count = (@ + 1) % OPEN_COUNTS]
        /\ openings' = [openings EXCEPT ![d] = @ + 1]
        /\ proc_fd_alloc(t, d)
        /\ procs' = procs /\ runs' = runs /\ hidden' = hidden
  BY Zenon DEF sys_open, DevIds
<1> DEFINE n == Len(dev_table)
           c == (dev_table[d].open_count + 1) % OPEN_COUNTS
           p == find_by_task(t)
           unused == {fd \in Fds : fd_table[p][fd] = NoDev}
<1>2. /\ dev_table \in Seq([name : DEVICE_NAMES, open_count : Nat]) /\ n \in Nat
      /\ openings \in Seq(Nat) /\ Len(openings) = n /\ d \in 1 .. n
      /\ fd_table \in [Tables -> [Fds -> {NoDev} \cup (1 .. n)]]
      /\ mine \in [TaskSlots -> SUBSET (Fds \X (1 .. n))]
  BY DEF DevInv, DevTypes, DevIds
<1>3. openings[d] \in Nat /\ dev_table[d] \in [name : DEVICE_NAMES, open_count : Nat]
  <2>1. d \in 1 .. Len(dev_table) /\ d \in 1 .. Len(openings)
    BY <1>2, Zenon
  <2>2. openings[d] \in Nat
    BY <1>2, <2>1
  <2> DEFINE D == [name : DEVICE_NAMES, open_count : Nat]
  <2>3. dev_table[d] \in D
    <3>1. dev_table \in Seq(D)
      BY <1>2, Zenon
    <3> HIDE DEF D
    <3> QED
      BY <2>1, <3>1
  <2> QED
    BY <2>2, <2>3, Zenon
<1>4. c \in Nat /\ c = (openings[d] + 1) % OPEN_COUNTS
  <2>1. dev_table[d].open_count = openings[d] % OPEN_COUNTS
    BY Zenon DEF DevInv, CountInv
  <2>2. c = (openings[d] + 1) % OPEN_COUNTS
    BY <1>3, <2>1, RemainderNext, DescriptorsAssumption, Zenon
  <2>3. openings[d] + 1 \in Nat
    BY <1>3
  <2>4. (openings[d] + 1) % OPEN_COUNTS \in Nat
    BY <2>3, Quotient, DescriptorsAssumption
  <2> QED
    BY <2>2, <2>4, Zenon
<1>5. dev_table' = [dev_table EXCEPT ![d].open_count = c]
  BY <1>1, Zenon
<1> HIDE DEF c
<1>6. /\ dev_table' \in Seq([name : DEVICE_NAMES, open_count : Nat]) /\ Len(dev_table') = n
      /\ dev_table'[d].open_count = c
      /\ \A e \in 1 .. n \ {d} : dev_table'[e] = dev_table[e]
  <2> DEFINE rec == [dev_table[d] EXCEPT !.open_count = c]
  <2>1. rec \in [name : DEVICE_NAMES, open_count : Nat] /\ rec.open_count = c
    BY <1>3, <1>4, Zenon
  <2>2. dev_table' = [dev_table EXCEPT ![d] = rec]
    BY <1>5
  <2> HIDE DEF rec
  <2> QED
    BY <1>2, <2>1, <2>2
<1>7. /\ openings' \in Seq(Nat) /\ Len(openings') = n /\ openings'[d] = openings[d] + 1
      /\ \A e \in 1 .. n \ {d} : openings'[e] = openings[e]
  BY <1>1, <1>2, <1>3
<1> HIDE DEF n
<1>8. DevIds = 1 .. n /\ DevIds' = 1 .. n /\ NoDev \notin 1 .. n
  BY <1>6 DEF DevIds, n, NoDev
<1>9. \A e \in 1 .. n : /\ Cardinality(Entries(e)) <= openings[e] /\ openings[e] \in Nat
                        /\ IsFiniteSet(Entries(e)) /\ Cardinality(Entries(e)) \in Nat
  BY <1>2, <1>8, EntriesFinite DEF DevInv, CountInv
<1>10. \A e \in 1 .. n : dev_table'[e].open_count = openings'[e] % OPEN_COUNTS
  BY <1>4, <1>6, <1>7, <1>8, Zenon DEF DevInv, CountInv
<1>11. p \in Tables /\ unused \in SUBSET Nat
  BY Found DEF Fds
<1>12. CASE unused = {}
  <2>1. fd_table' = fd_table /\ mine' = mine
    BY <1>1, <1>12, Zenon DEF proc_fd_alloc
  <2>2. DevTypes'
    BY <1>2, <1>6, <1>7, <1>8, <2>1, Zenon DEF DevTypes, Tables
  <2>3. TaskTypes' /\ OwnInv' /\ FirstInv'
    BY <1>1, <2>1, Zenon DEF DevInv, TaskTypes, OwnInv, FirstInv, Naming
  <2>4. HeldInv'
    BY <1>1, <1>8, <2>1, Zenon DEF DevInv, HeldInv
  <2>5. ASSUME NEW e \in 1 .. n
        PROVE  Cardinality(Entries(e)') <= openings'[e]
    <3>1. Entries(e)' = Entries(e)
      BY <2>1, Zenon DEF Entries
    <3>2. openings'[e] = openings[e] \/ openings'[e] = openings[e] + 1
      BY <1>7, Zenon
    <3> QED
      BY <1>9, <3>1, <3>2
  <2>6. CountInv'
    BY <1>8, <1>10, <2>5, Zenon DEF CountInv
  <2> QED
    BY <2>2, <2>3, <2>4, <2>6, Zenon DEF DevInv
<1>13. CASE unused # {}
  <2> DEFINE fd == Least(unused)
  <2>1. /\ fd_table' = [fd_table EXCEPT ![p][fd] = d]
        /\ mine' = [mine EXCEPT ![t] = mine[t] \cup {<<fd, d>>}]
    BY <1>1, <1>13, Zenon DEF proc_fd_alloc
  <2>2. fd \in Fds /\ fd_table[p][fd] = NoDev
    <3>1. fd \in unused
      BY <1>11, <1>13, LeastIs, Zenon
    <3> HIDE DEF fd
    <3> QED
      BY <3>1, Zenon
  <2> HIDE DEF fd, unused, p
  <2>3. /\ fd_table' \in [Tables -> [Fds -> {NoDev} \cup (1 .. n)]]
        /\ \A q \in Tables, f \in Fds :
             fd_table'[q][f] = IF q = p /\ f = fd THEN d ELSE fd_table[q][f]
    BY <1>2, <1>11, <2>1, <2>2
  <2>4. /\ mine' \in [TaskSlots -> SUBSET (Fds \X (1 .. n))]
        /\ \A u \in TaskSlots : u # t => mine'[u] = mine[u]
        /\ mine'[t] = mine[t] \cup {<<fd, d>>}
    <3> DEFINE M == mine[t] \cup {<<fd, d>>}
    <3>1. M \in SUBSET (Fds \X (1 .. n))
      <4>1. mine[t] \subseteq Fds \X (1 .. n) /\ <<fd, d>> \in Fds \X (1 .. n)
        BY <1>2, <2>2, Zenon
      <4> QED
        BY <4>1, Zenon
    <3> HIDE DEF M
    <3>2. mine' = [mine EXCEPT ![t] = M]
      BY <2>1, Zenon DEF M
    <3>3. mine'[t] = M
      BY <1>2, <3>2, Zenon
    <3> QED
      BY <1>2, <3>1, <3>2, <3>3, Zenon DEF M
  <2>5. DevTypes'
    BY <1>6, <1>7, <1>8, <2>3, <2>4, Zenon DEF DevTypes, Tables
  <2>6. ASSUME runs[t] \in Pcbs, t \notin hidden, NEW f \in Fds, NEW e \in DevIds
        PROVE  <<f, e>> \in mine'[t] <=> IF f = fd THEN e = d ELSE <<f, e>> \in mine[t]
    <3>1. p = runs[t]
      BY <2>6, OwnFound, Zenon DEF p, DevInv
    <3>2. HeldInv
      BY Zenon DEF DevInv
    <3>3. <<fd, e>> \notin mine[t]
      <4>1. fd_table[runs[t]][fd] # e
        BY <1>8, <2>2, <2>6, <3>1, Zenon
      <4> QED
        BY <2>2, <2>6, <3>2, <4>1, Zenon DEF HeldInv
    <3> QED
      BY <2>4, <3>3
  <2>7. TaskTypes' /\ OwnInv' /\ FirstInv' /\ HeldInv'
    <3>1. DevIds' = DevIds
      BY <1>8, Zenon
    <3>2. CallStep(t, fd, d)
      BY <1>1, <2>3, <2>4, <2>6, <3>1, Zenon DEF p, CallStep
    <3> QED
      BY <2>2, <3>2, CallKeeps, Zenon
  <2>8. ASSUME NEW e \in 1 .. n
        PROVE  Cardinality(Entries(e)') <= openings'[e]
    <3>0. d # NoDev /\ e # NoDev
      BY <1>2, <1>8, Zenon
    <3>1. CASE e = d
      <4>1. Entries(e)' = Entries(e) \cup {<<p, fd>>}
        BY <1>11, <2>2, <2>3, <3>0, <3>1 DEF Entries
      <4>2. <<p, fd>> \notin Entries(e)
        BY <2>2, <3>0 DEF Entries
      <4>3. IsFiniteSet(Entries(e)) /\ Cardinality(Entries(e)) \in Nat
        BY <1>9
      <4>4. Cardinality(Entries(e) \cup {<<p, fd>>}) = Cardinality(Entries(e)) + 1
        BY <4>2, <4>3, FS_AddElement, Zenon
      <4>5. Cardinality(Entries(e)) <= openings[e] /\ openings'[e] = openings[e] + 1
            /\ openings[e] \in Nat
        BY <1>7, <1>9, <3>1, Zenon
      <4> QED
        BY <4>1, <4>3, <4>4, <4>5
    <3>2. CASE e # d
      <4>1. Entries(e)' = Entries(e)
        BY <1>11, <2>2, <2>3, <3>0, <3>2 DEF Entries
      <4> QED
        BY <1>7, <1>9, <3>2, <4>1, Zenon
    <3> QED
      BY <3>1, <3>2, Zenon
  <2>9. CountInv'
    BY <1>8, <1>10, <2>8, Zenon DEF CountInv
  <2> QED
    BY <2>5, <2>7, <2>9, Zenon DEF DevInv
<1> QED
  BY <1>12, <1>13, Zenon

\* A task that ends, by whichever way, leaves its slot empty and at most the
\* state of the PCB that it finds changed (sched_exit, proc_exit).
LEMMA EndKeeps ==
  ASSUME DevInv, NEW t \in TaskSlots, sched_exit(t) \/ proc_exit(t)
  PROVE  DevInv'
<1>1. /\ runs[t] # Free /\ dev_table' = dev_table /\ openings' = openings /\ fd_table' = fd_table
      /\ runs' = [runs EXCEPT ![t] = Free] /\ mine' = [mine EXCEPT ![t] = {}]
      /\ hidden' = hidden \ {t}
  BY Zenon DEF sched_exit, proc_exit, TaskEnds
<1>2. /\ mine \in [TaskSlots -> SUBSET (Fds \X DevIds)]
      /\ runs \in [TaskSlots -> {Free, Thread} \cup Pcbs]
      /\ procs \in [Pcbs -> [state : {"NONE", "ALIVE", "ZOMBIE"}, task_idx : {-1} \cup TaskSlots]]
  BY Zenon DEF DevInv, DevTypes, TaskTypes
<1>3. /\ mine' \in [TaskSlots -> SUBSET (Fds \X DevIds)] /\ mine'[t] = {}
      /\ runs' \in [TaskSlots -> {Free, Thread} \cup Pcbs] /\ runs'[t] = Free
      /\ \A u \in TaskSlots : u # t => runs'[u] = runs[u] /\ mine'[u] = mine[u]
  BY <1>1, <1>2, Zenon
<1>4. DevIds' = DevIds /\ \A d : Entries(d)' = Entries(d)
  BY <1>1, Zenon DEF DevIds, Entries
<1>5. DevTypes' /\ CountInv'
  BY <1>1, <1>3, <1>4, Zenon DEF DevInv, DevTypes, CountInv, Tables
<1>6. /\ procs' \in [Pcbs -> [state : {"NONE", "ALIVE", "ZOMBIE"}, task_idx : {-1} \cup TaskSlots]]
      /\ \A p \in Pcbs : /\ procs'[p].task_idx = procs[p].task_idx
                         /\ procs'[p].state = "NONE" <=> procs[p].state = "NONE"
                         /\ procs'[p].state = procs[p].state \/ p = find_by_task(t)
  <2>1. CASE sched_exit(t)
    BY <1>2, <2>1, Zenon DEF sched_exit
  <2>2. CASE proc_exit(t)
    <3> DEFINE p == find_by_task(t)
    <3>1. procs' = [procs EXCEPT ![p].state = "ZOMBIE"] /\ p # KernelTable
      BY <2>2, Zenon DEF proc_exit
    <3>2. p \in Naming(t)
      BY <3>1, Found, Zenon
    <3>3. p \in Pcbs /\ procs[p].state # "NONE"
      BY <3>2, Zenon DEF Naming
    <3> HIDE DEF p
    <3>4. procs' \in [Pcbs -> [state : {"NONE", "ALIVE", "ZOMBIE"}, task_idx : {-1} \cup TaskSlots]]
      BY <1>2, <3>1, <3>3
    <3>5. \A q \in Pcbs : /\ procs'[q].task_idx = procs[q].task_idx
                          /\ procs'[q].state = IF q = p THEN "ZOMBIE" ELSE procs[q].state
      BY <1>2, <3>1, <3>3
    <3>6. ASSUME NEW q \in Pcbs
          PROVE  /\ procs'[q].state = "NONE" <=> procs[q].state = "NONE"
                 /\ procs'[q].state = procs[q].state \/ q = p
      <4>1. CASE q = p
        BY <3>3, <3>5, <4>1
      <4>2. CASE q # p
        BY <3>5, <4>2, Zenon
      <4> QED
        BY <4>1, <4>2
    <3> QED
      BY <3>4, <3>5, <3>6, Zenon DEF p
  <2> QED
    BY <2>1, <2>2
<1>7. TaskTypes'
  BY <1>3, <1>6, Zenon DEF TaskTypes
<1>8. \A u \in TaskSlots : Naming(u)' = Naming(u)
  BY <1>6, Zenon DEF Naming
<1>9. OwnInv'
  <2>1. ASSUME NEW u \in TaskSlots, runs'[u] \in Pcbs
        PROVE  procs'[runs'[u]].state = "ALIVE" /\ procs'[runs'[u]].task_idx = u
    <3>1. Free \notin Pcbs
      BY DescriptorsAssumption DEF Free, Pcbs
    <3>2. u # t /\ runs'[u] = runs[u] /\ runs[u] \in Pcbs
      BY <1>3, <2>1, <3>1, Zenon
    <3>3. procs[runs[u]].state = "ALIVE" /\ procs[runs[u]].task_idx = u
      BY <3>2, Zenon DEF DevInv, OwnInv
    <3>4. find_by_task(t) # runs[u]
      BY <3>2, NotFound, Zenon DEF DevInv
    <3> QED
      BY <1>6, <3>2, <3>3, <3>4, Zenon
  <2>2. ASSUME NEW u \in TaskSlots, runs'[u] = Free
        PROVE  mine'[u] = {} /\ u \notin hidden'
    <3>1. CASE u = t
      BY <1>1, <1>3, <3>1, Zenon
    <3>2. CASE u # t
      BY <1>1, <1>3, <2>2, <3>2, Zenon DEF DevInv, OwnInv
    <3> QED
      BY <3>1, <3>2
  <2> QED
    BY <2>1, <2>2, Zenon DEF OwnInv
<1>10. ASSUME NEW u \in TaskSlots, runs'[u] \in Pcbs, u \notin hidden'
       PROVE  runs'[u] = runs[u] /\ mine'[u] = mine[u] /\ runs[u] \in Pcbs /\ u \notin hidden
  <2>1. Free \notin Pcbs
    BY DescriptorsAssumption DEF Free, Pcbs
  <2>2. u # t
    BY <1>3, <1>10, <2>1, Zenon
  <2> QED
    BY <1>1, <1>3, <1>10, <2>2, Zenon
<1>11. FirstInv'
  BY <1>8, <1>10, Zenon DEF DevInv, FirstInv
<1>12. HeldInv'
  <2> SUFFICES ASSUME NEW u \in TaskSlots, runs'[u] \in Pcbs, u \notin hidden',
                      NEW f \in Fds, NEW d \in DevIds'
               PROVE  <<f, d>> \in mine'[u] <=> fd_table'[runs'[u]][f] = d
    BY Zenon DEF HeldInv
  <2>1. runs'[u] = runs[u] /\ mine'[u] = mine[u] /\ runs[u] \in Pcbs /\ u \notin hidden
    BY <1>10, Zenon
  <2>2. HeldInv /\ d \in DevIds
    BY <1>4, Zenon DEF DevInv
  <2>3. <<f, d>> \in mine[u] <=> fd_table[runs[u]][f] = d
    BY <2>1, <2>2 DEF HeldInv
  <2> QED
    BY <1>1, <2>1, <2>3, Zenon
<1> QED
  BY <1>5, <1>7, <1>9, <1>11, <1>12, Zenon DEF DevInv

\* A zombie is no running process (proc_wait).
LEMMA ReapKeeps ==
  ASSUME DevInv, NEW p \in Pcbs, Reap(p)
  PROVE  DevInv'
<1>1. /\ dev_table' = dev_table /\ openings' = openings /\ fd_table' = fd_table
      /\ runs' = runs /\ mine' = mine /\ hidden' = hidden
      /\ procs[p].state = "ZOMBIE"
      /\ procs' = [procs EXCEPT ![p] = [state |-> "NONE", task_idx |-> -1]]
  BY Zenon DEF Reap
<1>2. procs \in [Pcbs -> [state : {"NONE", "ALIVE", "ZOMBIE"}, task_idx : {-1} \cup TaskSlots]]
  BY Zenon DEF DevInv, TaskTypes
<1>3. /\ procs' \in [Pcbs -> [state : {"NONE", "ALIVE", "ZOMBIE"}, task_idx : {-1} \cup TaskSlots]]
      /\ procs'[p].state = "NONE" /\ \A q \in Pcbs : q # p => procs'[q] = procs[q]
  BY <1>1, <1>2
<1>4. DevTypes' /\ CountInv' /\ HeldInv' /\ TaskTypes'
  <2>1. DevTypes' /\ TaskTypes'
    BY <1>1, <1>3, Zenon DEF DevInv, DevTypes, TaskTypes, Tables, DevIds
  <2>2. CountInv'
    BY <1>1, Zenon DEF DevInv, CountInv, DevIds, Entries
  <2>3. HeldInv'
    BY <1>1, Zenon DEF DevInv, HeldInv, DevIds
  <2> QED
    BY <2>1, <2>2, <2>3
<1>5. OwnInv'
  <2>1. ASSUME NEW u \in TaskSlots, runs[u] \in Pcbs
        PROVE  procs'[runs[u]].state = "ALIVE" /\ procs'[runs[u]].task_idx = u
    <3>1. procs[runs[u]].state = "ALIVE" /\ procs[runs[u]].task_idx = u
      BY <2>1, Zenon DEF DevInv, OwnInv
    <3>2. runs[u] # p
      BY <1>1, <3>1
    <3> QED
      BY <1>3, <2>1, <3>1, <3>2, Zenon
  <2> QED
    BY <1>1, <2>1, Zenon DEF DevInv, OwnInv
<1>6. \A u \in TaskSlots : Naming(u)' \subseteq Naming(u)
  BY <1>3, Zenon DEF Naming
<1>7. FirstInv'
  BY <1>1, <1>6, Zenon DEF DevInv, FirstInv
<1> QED
  BY <1>4, <1>5, <1>7, Zenon DEF DevInv

\* A thread has no PCB (sched_spawn).
LEMMA ThreadKeeps ==
  ASSUME DevInv, SpawnThread
  PROVE  DevInv'
<1> DEFINE t == Least(FreeTasks)
<1>1. /\ dev_table' = dev_table /\ openings' = openings /\ fd_table' = fd_table
      /\ procs' = procs /\ mine' = mine /\ hidden' = hidden
      /\ runs' = [runs EXCEPT ![t] = Thread] /\ FreeTasks # {}
  BY Zenon DEF SpawnThread
<1>2. t \in TaskSlots
  <2>1. FreeTasks \in SUBSET Nat
    BY DEF FreeTasks, TaskSlots
  <2>2. t \in FreeTasks
    BY <1>1, <2>1, LeastIs, Zenon
  <2> HIDE DEF t
  <2> QED
    BY <2>2, Zenon DEF FreeTasks
<1> HIDE DEF t
<1>3. Thread # Free /\ Thread \notin Pcbs
  BY DescriptorsAssumption DEF Free, Thread, Pcbs
<1>4. runs \in [TaskSlots -> {Free, Thread} \cup Pcbs]
  BY Zenon DEF DevInv, TaskTypes
<1>5. /\ runs' \in [TaskSlots -> {Free, Thread} \cup Pcbs]
      /\ \A u \in TaskSlots : runs'[u] = IF u = t THEN Thread ELSE runs[u]
  BY <1>1, <1>2, <1>4, Zenon
<1>6. /\ \A u \in TaskSlots : runs'[u] \in Pcbs => runs'[u] = runs[u]
      /\ \A u \in TaskSlots : runs'[u] = Free => runs'[u] = runs[u]
  BY <1>3, <1>5, Zenon
<1>7. DevTypes' /\ CountInv' /\ TaskTypes'
  BY <1>1, <1>5, Zenon DEF DevInv, DevTypes, CountInv, TaskTypes, Tables, DevIds, Entries
<1>8. OwnInv'
  BY <1>1, <1>6, Zenon DEF DevInv, OwnInv
<1>9. FirstInv'
  BY <1>1, <1>6, Zenon DEF DevInv, FirstInv, Naming
<1>10. HeldInv'
  <2>1. HeldInv /\ DevIds' = DevIds
    BY <1>1, Zenon DEF DevInv, DevIds
  <2> SUFFICES ASSUME NEW u \in TaskSlots, runs'[u] \in Pcbs, u \notin hidden',
                      NEW f \in Fds, NEW d \in DevIds'
               PROVE  <<f, d>> \in mine'[u] <=> fd_table'[runs'[u]][f] = d
    BY Zenon DEF HeldInv
  <2>2. runs'[u] = runs[u] /\ runs[u] \in Pcbs /\ u \notin hidden /\ d \in DevIds
    BY <1>1, <1>6, <2>1, Zenon
  <2>3. <<f, d>> \in mine[u] <=> fd_table[runs[u]][f] = d
    BY <2>1, <2>2 DEF HeldInv
  <2> QED
    BY <1>1, <2>2, <2>3, Zenon
<1> QED
  BY <1>7, <1>8, <1>9, <1>10, Zenon DEF DevInv

\* A new process starts with an empty table, in a PCB of no running one; what
\* other PCBs name its slot is recorded in hidden (proc_spawn_image).
LEMMA SpawnKeeps ==
  ASSUME DevInv, proc_spawn_image
  PROVE  DevInv'
<1> DEFINE t == Least(FreeTasks)
           p == Least(FreePcbs)
<1>1. /\ dev_table' = dev_table /\ openings' = openings /\ mine' = mine
      /\ fd_table' = [fd_table EXCEPT ![p] = NoFds]
      /\ procs' = [procs EXCEPT ![p] = [state |-> "ALIVE", task_idx |-> t]]
      /\ runs' = [runs EXCEPT ![t] = p]
      /\ hidden' = IF \E q \in Naming(t) : q < p THEN hidden \cup {t} ELSE hidden
      /\ FreeTasks # {} /\ FreePcbs # {}
  BY Zenon DEF proc_spawn_image, Started
<1>2. t \in TaskSlots /\ runs[t] = Free /\ p \in Pcbs /\ procs[p].state = "NONE"
  <2>1. FreeTasks \in SUBSET Nat /\ FreePcbs \in SUBSET Nat
    BY DescriptorsAssumption DEF FreeTasks, TaskSlots, FreePcbs, Pcbs
  <2>2. t \in FreeTasks /\ p \in FreePcbs
    BY <1>1, <2>1, LeastIs, Zenon
  <2> HIDE DEF t, p
  <2> QED
    BY <2>2, Zenon DEF FreeTasks, FreePcbs
<1> HIDE DEF t, p
<1>3. /\ fd_table \in [Tables -> [Fds -> {NoDev} \cup DevIds]]
      /\ mine \in [TaskSlots -> SUBSET (Fds \X DevIds)]
      /\ runs \in [TaskSlots -> {Free, Thread} \cup Pcbs]
      /\ procs \in [Pcbs -> [state : {"NONE", "ALIVE", "ZOMBIE"}, task_idx : {-1} \cup TaskSlots]]
  BY Zenon DEF DevInv, DevTypes, TaskTypes
<1>4. p \in Tables /\ p # Free
  BY <1>2, DescriptorsAssumption DEF Tables, Pcbs, Free
<1>5. /\ fd_table' \in [Tables -> [Fds -> {NoDev} \cup DevIds]]
      /\ \A q \in Tables, f \in Fds : fd_table'[q][f] = IF q = p THEN NoDev ELSE fd_table[q][f]
  <2>1. NoFds \in [Fds -> {NoDev} \cup DevIds] /\ \A f \in Fds : NoFds[f] = NoDev
    BY Zenon DEF NoFds
  <2> QED
    BY <1>1, <1>3, <1>4, <2>1
<1>6. /\ runs' \in [TaskSlots -> {Free, Thread} \cup Pcbs]
      /\ \A u \in TaskSlots : runs'[u] = IF u = t THEN p ELSE runs[u]
  BY <1>1, <1>2, <1>3, Zenon
<1>7. /\ procs' \in [Pcbs -> [state : {"NONE", "ALIVE", "ZOMBIE"}, task_idx : {-1} \cup TaskSlots]]
      /\ procs'[p].state = "ALIVE" /\ procs'[p].task_idx = t
      /\ \A q \in Pcbs : q # p => procs'[q] = procs[q]
  BY <1>1, <1>2, <1>3
<1>8. DevTypes' /\ TaskTypes'
  BY <1>1, <1>3, <1>5, <1>6, <1>7, Zenon DEF DevInv, DevTypes, TaskTypes, Tables, DevIds
<1>9. CountInv'
  <2>1. \A q \in Tables, f \in Fds : fd_table'[q][f] \in {NoDev, fd_table[q][f]}
    BY <1>5, Zenon
  <2> QED
    BY <1>1, <2>1, FewerHeld, Zenon DEF DevInv
<1>10. ASSUME NEW u \in TaskSlots, runs[u] \in Pcbs
       PROVE  /\ u # t /\ runs[u] # p
              /\ procs[runs[u]].state = "ALIVE" /\ procs[runs[u]].task_idx = u
  <2>1. procs[runs[u]].state = "ALIVE" /\ procs[runs[u]].task_idx = u
    BY <1>10, Zenon DEF DevInv, OwnInv
  <2>2. Free \notin Pcbs
    BY DescriptorsAssumption DEF Free, Pcbs
  <2> QED
    BY <1>2, <1>10, <2>1, <2>2
<1>11. OwnInv'
  <2>1. ASSUME NEW u \in TaskSlots, runs'[u] \in Pcbs
        PROVE  procs'[runs'[u]].state = "ALIVE" /\ procs'[runs'[u]].task_idx = u
    <3>1. CASE u = t
      BY <1>6, <1>7, <3>1, Zenon
    <3>2. CASE u # t
      <4>1. runs'[u] = runs[u] /\ runs[u] \in Pcbs
        BY <1>6, <2>1, <3>2, Zenon
      <4>2. procs'[runs[u]] = procs[runs[u]]
        BY <1>7, <1>10, <4>1, Zenon
      <4> QED
        BY <1>10, <4>1, <4>2, Zenon
    <3> QED
      BY <3>1, <3>2
  <2>2. ASSUME NEW u \in TaskSlots, runs'[u] = Free
        PROVE  mine'[u] = {} /\ u \notin hidden'
    <3>1. u # t /\ runs[u] = Free
      BY <1>4, <1>6, <2>2, Zenon
    <3>2. mine[u] = {} /\ u \notin hidden
      BY <3>1, Zenon DEF DevInv, OwnInv
    <3> QED
      BY <1>1, <3>1, <3>2, Zenon
  <2> QED
    BY <2>1, <2>2, Zenon DEF OwnInv
<1>12. FirstInv'
  <2> SUFFICES ASSUME NEW u \in TaskSlots, runs'[u] \in Pcbs, u \notin hidden', NEW q \in Naming(u)'
               PROVE  runs'[u] <= q
    BY Zenon DEF FirstInv
  <2>1. q \in Pcbs /\ procs'[q].state # "NONE" /\ procs'[q].task_idx = u
    BY Zenon DEF Naming
  <2>2. q # p => q \in Naming(u)
    BY <1>7, <2>1, Zenon DEF Naming
  <2>3. p \in Nat /\ q \in Nat
    BY <1>2, <2>1, DescriptorsAssumption DEF Pcbs
  <2>4. CASE u = t
    <3>1. runs'[u] = p
      BY <1>6, <2>4, Zenon
    <3>2. q # p => ~(q < p)
      BY <1>1, <2>2, <2>4, Zenon
    <3> QED
      BY <2>3, <3>1, <3>2
  <2>5. CASE u # t
    <3>1. q # p
      BY <1>7, <2>1, <2>5, Zenon
    <3>2. runs'[u] = runs[u] /\ u \notin hidden
      BY <1>1, <1>6, <2>5, Zenon
    <3> QED
      BY <2>2, <3>1, <3>2, Zenon DEF DevInv, FirstInv
  <2> QED
    BY <2>4, <2>5
<1>13. HeldInv'
  <2> SUFFICES ASSUME NEW u \in TaskSlots, runs'[u] \in Pcbs, u \notin hidden',
                      NEW f \in Fds, NEW d \in DevIds'
               PROVE  <<f, d>> \in mine'[u] <=> fd_table'[runs'[u]][f] = d
    BY Zenon DEF HeldInv
  <2>1. DevIds' = DevIds /\ d \in DevIds /\ d # NoDev
    BY <1>1 DEF DevIds, NoDev
  <2>2. CASE u = t
    <3>1. mine'[u] = {}
      BY <1>1, <1>2, <2>2, Zenon DEF DevInv, OwnInv
    <3>2. fd_table'[runs'[u]][f] = NoDev
      BY <1>4, <1>5, <1>6, <2>2, Zenon
    <3> QED
      BY <2>1, <3>1, <3>2, Zenon
  <2>3. CASE u # t
    <3>1. runs'[u] = runs[u] /\ u \notin hidden /\ runs[u] \in Pcbs
      BY <1>1, <1>6, <2>3, Zenon
    <3>2. runs[u] # p /\ runs[u] \in Tables
      BY <1>10, <3>1, Zenon DEF Tables
    <3>3. HeldInv
      BY Zenon DEF DevInv
    <3>4. <<f, d>> \in mine[u] <=> fd_table[runs[u]][f] = d
      BY <2>1, <3>1, <3>3 DEF HeldInv
    <3>5. fd_table'[runs[u]][f] = fd_table[runs[u]][f]
      BY <1>5, <3>2, Zenon
    <3> QED
      BY <1>1, <3>1, <3>4, <3>5, Zenon
  <2> QED
    BY <2>2, <2>3
<1> QED
  BY <1>8, <1>9, <1>11, <1>12, <1>13, Zenon DEF DevInv

(***************************************************************************)
(* For every number of devices, processes, tasks and descriptors: a        *)
(* process whose slot no PCB before its own named when it started finds    *)
(* its own table, with the devices it opened and did not close, and as     *)
(* long as its count has not wrapped a device counts every descriptor that *)
(* leads to it (find_by_task, proc_fd_alloc, proc_fd_close, device_open).  *)
(***************************************************************************)
THEOREM DescriptorsRight == DevSpec => []DevDescriptors
<1>1. DevInit => DevInv
  <2> SUFFICES ASSUME DevInit
               PROVE  DevInv
    OBVIOUS
  <2>1. DevIds = {}
    BY DEF DevInit, DevIds
  <2>2. DevTypes
    <3>1. fd_table \in [Tables -> [Fds -> {NoDev} \cup DevIds]]
      BY Zenon DEF DevInit, NoFds, Tables
    <3>2. mine \in [TaskSlots -> SUBSET (Fds \X DevIds)]
      BY Zenon DEF DevInit
    <3>3. /\ dev_table \in Seq([name : DEVICE_NAMES, open_count : Nat])
          /\ openings \in Seq(Nat) /\ Len(openings) = Len(dev_table)
      BY DEF DevInit
    <3> QED
      BY <3>1, <3>2, <3>3, Zenon DEF DevTypes
  <2>3. TaskTypes
    BY DEF DevInit, TaskTypes
  <2>4. \A t \in TaskSlots : runs[t] \notin Pcbs
    BY DescriptorsAssumption DEF DevInit, Pcbs, Thread, Free
  <2>5. OwnInv
    BY <2>4, Zenon DEF DevInit, OwnInv
  <2>6. FirstInv /\ HeldInv
    BY <2>4, Zenon DEF FirstInv, HeldInv
  <2>7. CountInv
    BY <2>1, Zenon DEF CountInv
  <2> QED
    BY <2>2, <2>3, <2>5, <2>6, <2>7, Zenon DEF DevInv
<1>2. DevInv /\ [DevNext]_devVars => DevInv'
  <2> SUFFICES ASSUME DevInv, [DevNext]_devVars
               PROVE  DevInv'
    OBVIOUS
  <2>1. CASE UNCHANGED devVars
    <3>1. /\ dev_table' = dev_table /\ fd_table' = fd_table /\ mine' = mine
          /\ openings' = openings /\ procs' = procs /\ runs' = runs /\ hidden' = hidden
      BY <2>1, Zenon DEF devVars
    <3>2. DevTypes' /\ CountInv' /\ HeldInv'
      BY <3>1, Zenon DEF DevInv, DevTypes, CountInv, HeldInv, DevIds, Entries, Tables
    <3>3. TaskTypes' /\ OwnInv' /\ FirstInv'
      BY <3>1, Zenon DEF DevInv, TaskTypes, OwnInv, FirstInv, Naming
    <3> QED
      BY <3>2, <3>3, Zenon DEF DevInv
  <2> QED
    BY <2>1, RegisterKeeps, OpenKeeps, CloseKeeps, EndKeeps, ReapKeeps, ThreadKeeps, SpawnKeeps,
       Zenon DEF DevNext
<1>3. DevInv => DevDescriptors
  <2> SUFFICES ASSUME DevInv
               PROVE  DevDescriptors
    OBVIOUS
  <2>1. ASSUME NEW t \in TaskSlots, runs[t] \in Pcbs, t \notin hidden
        PROVE  /\ find_by_task(t) = runs[t]
               /\ mine[t] = {h \in Fds \X DevIds : fd_table[runs[t]][h[1]] = h[2]}
    <3>1. find_by_task(t) = runs[t]
      BY <2>1, OwnFound, Zenon DEF DevInv
    <3>2. mine[t] \subseteq Fds \X DevIds /\ HeldInv
      BY Zenon DEF DevInv, DevTypes
    <3>3. ASSUME NEW fd \in Fds, NEW d \in DevIds
          PROVE  <<fd, d>> \in mine[t] <=> fd_table[runs[t]][fd] = d
      BY <2>1, <3>2 DEF HeldInv
    <3>4. mine[t] = {h \in Fds \X DevIds : fd_table[runs[t]][h[1]] = h[2]}
      BY <3>2, <3>3
    <3> QED
      BY <3>1, <3>4, Zenon
  <2>2. DevOwnDescriptors
    BY <2>1, Zenon DEF DevOwnDescriptors, DevIds
  <2>3. ASSUME NEW d \in DevIds, openings[d] < OPEN_COUNTS
        PROVE  dev_table[d].open_count >= Cardinality(Entries(d))
    <3>1. openings[d] \in Nat /\ OPEN_COUNTS \in Nat \ {0}
      BY DescriptorsAssumption DEF DevInv, DevTypes, DevIds
    <3>2. openings[d] % OPEN_COUNTS = openings[d]
      BY <2>3, <3>1
    <3>3. Cardinality(Entries(d)) \in Nat
      BY EntriesFinite, Zenon
    <3>4. /\ dev_table[d].open_count = openings[d] % OPEN_COUNTS
          /\ Cardinality(Entries(d)) <= openings[d]
      BY Zenon DEF DevInv, CountInv
    <3> QED
      BY <3>1, <3>2, <3>3, <3>4, Zenon
  <2>4. DOMAIN fd_table = Tables
    BY Zenon DEF DevInv, DevTypes
  <2>5. DevCountCovers
    BY <2>3, <2>4, Zenon DEF DevCountCovers, DevIds, Entries
  <2> QED
    BY <2>2, <2>5, Zenon DEF DevDescriptors
<1> QED
  BY <1>1, <1>2, <1>3, PTL DEF DevSpec
=============================================================================
