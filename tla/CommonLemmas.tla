---------------------------- MODULE CommonLemmas ----------------------------
(***************************************************************************)
(* What several proofs need: the least of a set of numbers, the remainders *)
(* that index a ring or wrap a count, and what the two searches of the     *)
(* task table return, for every table size.                                *)
(***************************************************************************)
EXTENDS TaskSlots, TLAPS, WellFoundedInduction

\* A nonempty set of naturals has a least element.
LEMMA LeastNat ==
  ASSUME NEW T \in SUBSET Nat, T # {}
  PROVE  \E x \in T : \A y \in T : x <= y
<1> DEFINE R == OpToRel(<, Nat)
<1>1. IsWellFoundedOn(R, Nat)
  BY NatLessThanWellFounded, Zenon
<1>2. \A x \in Nat, y \in Nat : y < x => <<y, x>> \in R
  BY DEF OpToRel
<1> HIDE DEF R
<1>3. PICK x \in T : \A y \in T : ~ (<<y, x>> \in R)
  BY <1>1, WFMin
<1>4. \A y \in T : ~ (y < x)
  BY <1>2, <1>3, Zenon
<1>5. \A y \in T : x <= y
  BY <1>4
<1> QED
  BY <1>5

\* A number is n times its quotient and its remainder.
LEMMA Quotient ==
  ASSUME NEW n \in Nat \ {0}, NEW x \in Nat
  PROVE  x \div n \in Nat /\ x % n \in 0 .. n - 1 /\ x = n * (x \div n) + (x % n)
OBVIOUS

\* A number has one quotient and one remainder.
LEMMA RemainderIs ==
  ASSUME NEW n \in Nat \ {0}, NEW q \in Nat, NEW r \in 0 .. n - 1, NEW x \in Nat, x = n * q + r
  PROVE  x % n = r
OBVIOUS

\* An index that is advanced and wrapped is the remainder of the next number.
LEMMA RemainderNext ==
  ASSUME NEW n \in Nat \ {0}, NEW x \in Nat
  PROVE  ((x % n) + 1) % n = (x + 1) % n
<1> DEFINE q == x \div n
           r == x % n
<1>1. q \in Nat /\ r \in 0 .. n - 1 /\ x = n * q + r
  BY Quotient, Zenon
<1> HIDE DEF q, r
<1>2. CASE r + 1 = n
  <2>1. x + 1 = n * (q + 1) + 0 /\ r + 1 = n * 1 + 0
    BY <1>1, <1>2
  <2>2. (x + 1) % n = 0
    BY <1>1, <2>1, RemainderIs
  <2>3. (r + 1) % n = 0
    BY <1>1, <2>1, RemainderIs
  <2> QED
    BY <2>2, <2>3 DEF r
<1>3. CASE r + 1 # n
  <2>1. x + 1 = n * q + (r + 1) /\ r + 1 \in 0 .. n - 1 /\ r + 1 = n * 0 + (r + 1)
    BY <1>1, <1>3
  <2>2. (x + 1) % n = r + 1
    BY <1>1, <2>1, RemainderIs
  <2>3. (r + 1) % n = r + 1
    BY <1>1, <2>1, RemainderIs
  <2> QED
    BY <2>2, <2>3 DEF r
<1> QED
  BY <1>2, <1>3

\* Numbers less than n apart fall on different cells of a ring of n.
LEMMA RemaindersApart ==
  ASSUME NEW n \in Nat \ {0}, NEW x \in Nat, NEW y \in Nat, x < y, y < x + n
  PROVE  x % n # y % n
<1> DEFINE p == x \div n
           q == y \div n
           r == x % n
<1>1. p \in Nat /\ r \in 0 .. n - 1 /\ x = n * p + r
  BY Quotient, Zenon
<1>2. q \in Nat /\ y = n * q + (y % n)
  BY Quotient
<1> HIDE DEF p, q, r
<1>3. SUFFICES ASSUME y = n * q + r
               PROVE  FALSE
  BY <1>2 DEF r
<1>4. n * q - n * p > 0 /\ n * q - n * p < n
  BY <1>1, <1>2, <1>3
<1>5. n * q - n * p = n * (q - p)
  BY <1>1, <1>2
<1>6. CASE q - p <= 0
  <2>1. n * (q - p) <= 0
    BY <1>1, <1>2, <1>6
  <2> QED
    BY <1>1, <1>2, <1>4, <1>5, <2>1
<1>7. CASE q - p >= 1
  <2>1. n * (q - p) >= n
    BY <1>1, <1>2, <1>7
  <2> QED
    BY <1>1, <1>2, <1>4, <1>5, <2>1
<1> QED
  BY <1>1, <1>2, <1>6, <1>7

\* The search of next_ready visits every slot, each at its own distance.
LEMMA HopsRange ==
  ASSUME NEW from \in Slots, NEW idx \in Slots
  PROVE  Hops(from, idx) \in 1 .. MAX_TASKS
BY MaxTasksAssumption DEF Hops, Slots

\* Different slots are a different number of hops away.
LEMMA HopsInjective ==
  ASSUME NEW from \in Slots, NEW i \in Slots, NEW j \in Slots,
         Hops(from, i) = Hops(from, j)
  PROVE  i = j
BY MaxTasksAssumption DEF Hops, Slots

\* next_ready finds a READY slot if there is one, and then the nearest one.
LEMMA NextReadyNearest ==
  ASSUME NEW st, NEW from \in Slots, ReadySlots(st) # {}
  PROVE  /\ next_ready(st, from) \in ReadySlots(st)
         /\ \A j \in ReadySlots(st) :
              Hops(from, next_ready(st, from)) <= Hops(from, j)
<1> DEFINE D == {Hops(from, i) : i \in ReadySlots(st)}
<1>1. ReadySlots(st) \subseteq Slots
  BY DEF ReadySlots
<1>2. D \in SUBSET Nat /\ D # {}
  BY <1>1, HopsRange, MaxTasksAssumption
<1>3. PICK d \in D : \A e \in D : d <= e
  BY <1>2, LeastNat, Zenon
<1>4. \E i \in ReadySlots(st) :
        \A j \in ReadySlots(st) : Hops(from, i) <= Hops(from, j)
  BY <1>3
<1> QED
  BY <1>4 DEF next_ready

\* next_ready finds nothing when no slot is READY.
LEMMA NextReadyNone ==
  ASSUME NEW st, NEW from, ReadySlots(st) = {}
  PROVE  next_ready(st, from) = NoSlot
BY DEF next_ready

\* next_ready returns a READY slot, or NoSlot exactly when there is none.
LEMMA NextReadyType ==
  ASSUME NEW st, NEW from \in Slots
  PROVE  /\ next_ready(st, from) \in Slots \cup {NoSlot}
         /\ next_ready(st, from) = NoSlot <=> ReadySlots(st) = {}
         /\ next_ready(st, from) # NoSlot =>
              /\ next_ready(st, from) \in Slots
              /\ st[next_ready(st, from)] = "READY"
<1>1. NoSlot \notin Slots
  BY MaxTasksAssumption DEF NoSlot, Slots
<1>2. CASE ReadySlots(st) = {}
  BY <1>1, <1>2, NextReadyNone
<1>3. CASE ReadySlots(st) # {}
  BY <1>1, <1>3, NextReadyNearest DEF ReadySlots
<1> QED
  BY <1>2, <1>3

\* slot_alloc returns a slot that no live task occupies, or none.
LEMMA SlotAllocFree ==
  ASSUME NEW st
  PROVE  /\ slot_alloc(st) \in Slots \cup {NoSlot}
         /\ slot_alloc(st) # NoSlot =>
              /\ slot_alloc(st) \in Slots
              /\ st[slot_alloc(st)] \in {"UNUSED", "FINISHED"}
<1>1. FreeSlots(st) \in SUBSET Nat
  BY MaxTasksAssumption DEF FreeSlots, Slots
<1>2. CASE FreeSlots(st) = {}
  BY <1>2 DEF slot_alloc
<1>3. CASE FreeSlots(st) # {}
  <2>1. \E i \in FreeSlots(st) : \A j \in FreeSlots(st) : i <= j
    BY <1>1, <1>3, LeastNat
  <2>2. slot_alloc(st) \in FreeSlots(st)
    BY <1>3, <2>1 DEF slot_alloc
  <2> QED
    BY <2>2 DEF FreeSlots
<1> QED
  BY <1>2, <1>3
=============================================================================
