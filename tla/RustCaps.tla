------------------------------ MODULE RustCaps ------------------------------
(***************************************************************************)
(* The Rust capability manager (security/src): per task a table of         *)
(* capabilities, and one audit ring.  A resource is its type and number,   *)
(* rights are sets.  Capability ids come from a global counter.            *)
(***************************************************************************)
EXTENDS Integers, Sequences, FiniteSets

CONSTANTS
  CAP_TASKS,          \* MAX_TASKS: 64
  CAP_SLOTS,          \* MAX_CAPABILITIES_PER_TASK: 64
  AUDIT_SIZE,         \* 256
  RESOURCES,
  RIGHTS,             \* READ, WRITE, EXECUTE, GRANT, REVOKE
  GRANT,
  MAX_CAPS            \* bound on the ids given out

ASSUME RustCapsAssumption ==
  /\ CAP_TASKS \in Nat \ {0} /\ CAP_SLOTS \in Nat /\ AUDIT_SIZE \in Nat \ {0}
  /\ GRANT \in RIGHTS /\ MAX_CAPS \in Nat

CapTasks == 0 .. CAP_TASKS - 1
CapSlots == 0 .. CAP_SLOTS - 1
NoCap == [id |-> -1, resource |-> "none", rights |-> {}]

VARIABLES
  rcReady,            \* initialized
  rcCaps, rcCount,    \* capabilities[task].caps and .count
  rcNextId,           \* NEXT_CAP_ID
  rcAudit,            \* audit_log
  rcRoots,            \* ghost: per id, the grant it stems from
  rcEvents            \* ghost: all events

rcVars == <<rcReady, rcCaps, rcCount, rcNextId, rcAudit, rcRoots, rcEvents>>

Startup == <<"SystemStartup", 0, 0>>

RcInit ==
  /\ rcReady = FALSE
  /\ rcCaps = [t \in CapTasks |-> [s \in CapSlots |-> NoCap]]
  /\ rcCount = [t \in CapTasks |-> 0]
  /\ rcNextId = 0
  /\ rcAudit = [entries |-> [i \in 0 .. AUDIT_SIZE - 1 |-> Startup],
                write_idx |-> 0, total_entries |-> 0]
  /\ rcRoots = <<>>
  /\ rcEvents = <<>>

record(type, t, id) ==
  /\ rcAudit' = [entries |-> [rcAudit.entries EXCEPT ![rcAudit.write_idx] = <<type, t, id>>],
                 write_idx |-> (rcAudit.write_idx + 1) % AUDIT_SIZE,
                 total_entries |-> rcAudit.total_entries + 1]
  /\ rcEvents' = Append(rcEvents, <<type, t, id>>)

RcSetUp ==
  /\ ~rcReady
  /\ rcReady' = TRUE
  /\ rcCount' = [rcCount EXCEPT ![0] = 0]
  /\ record("SystemStartup", 0, 0)
  /\ UNCHANGED <<rcCaps, rcNextId, rcRoots>>

\* The id is drawn before the slot is looked for.
Insert(t, resource, rights, root) ==
  /\ rcReady /\ rcNextId < MAX_CAPS
  /\ rcCount[t] < CAP_SLOTS
  /\ rcNextId' = rcNextId + 1
  /\ rcRoots' = Append(rcRoots, root)
  /\ \E s \in CapSlots :
       /\ rcCaps[t][s] = NoCap /\ \A u \in 0 .. s - 1 : rcCaps[t][u] # NoCap
       /\ rcCaps' = [rcCaps EXCEPT ![t][s] =
                       [id |-> rcNextId, resource |-> resource, rights |-> rights]]
  /\ rcCount' = [rcCount EXCEPT ![t] = @ + 1]
  /\ record("CapabilityGranted", t, rcNextId)
  /\ UNCHANGED rcReady

grant(t, resource, rights) ==
  Insert(t, resource, rights, [resource |-> resource, rights |-> rights])

\* A revocation that forgets the count.
Bug_revoke(t, id) ==
  /\ rcReady
  /\ \E s \in CapSlots :
       /\ rcCaps[t][s].id = id
       /\ rcCaps' = [rcCaps EXCEPT ![t][s] = NoCap]
  /\ record("CapabilityRevoked", t, id)
  /\ UNCHANGED <<rcReady, rcCount, rcNextId, rcRoots>>

\* Capabilities delegated from this one stay.
revoke(t, id) ==
  /\ rcReady
  /\ \E s \in CapSlots :
       /\ rcCaps[t][s].id = id
       /\ rcCaps' = [rcCaps EXCEPT ![t][s] = NoCap]
  /\ rcCount' = [rcCount EXCEPT ![t] = @ - 1]
  /\ record("CapabilityRevoked", t, id)
  /\ UNCHANGED <<rcReady, rcNextId, rcRoots>>

\* A delegation of the rights asked for.
Bug_delegate(from, to, id, new_rights) ==
  \E s \in CapSlots :
    /\ rcCaps[from][s].id = id
    /\ \A u \in 0 .. s - 1 : rcCaps[from][u] = NoCap
    /\ GRANT \in rcCaps[from][s].rights
    /\ Insert(to, rcCaps[from][s].resource, new_rights, rcRoots[id + 1])

\* Only the first capability of the giver is looked at.
delegate(from, to, id, new_rights) ==
  \E s \in CapSlots :
    /\ rcCaps[from][s].id = id
    /\ \A u \in 0 .. s - 1 : rcCaps[from][u] = NoCap
    /\ GRANT \in rcCaps[from][s].rights
    /\ Insert(to, rcCaps[from][s].resource, rcCaps[from][s].rights \cap new_rights,
              rcRoots[id + 1])

RcNext ==
  \/ RcSetUp
  \/ \E t \in CapTasks, resource \in RESOURCES, rights \in SUBSET RIGHTS :
       grant(t, resource, rights)
  \/ \E t \in CapTasks, id \in 0 .. MAX_CAPS - 1 : revoke(t, id)
  \/ \E from, to \in CapTasks, id \in 0 .. MAX_CAPS - 1, rights \in SUBSET RIGHTS :
       delegate(from, to, id, rights)

RcSpec == RcInit /\ [][RcNext]_rcVars

(***************************************************************************)
(* Properties                                                              *)
(***************************************************************************)

Held(t) == {s \in CapSlots : rcCaps[t][s] # NoCap}

\* has_capability(t, resource, required): whether there is one of these.
Confirming(t, resource, required) ==
  {s \in Held(t) : /\ rcCaps[t][s].resource = resource
                   /\ required \subseteq rcCaps[t][s].rights}

(***************************************************************************)
(* Delegation never amplifies: along any chain of delegations and after    *)
(* any revocations, every capability by which has_capability confirms      *)
(* rights to a resource stems from one grant() that gave these rights to   *)
(* this resource, and one that can be passed on from a grant that could.   *)
(***************************************************************************)
RcNoAmplification ==
  \A t \in CapTasks, resource \in RESOURCES, rights \in SUBSET RIGHTS :
    \A s \in Confirming(t, resource, rights) :
      LET root == rcRoots[rcCaps[t][s].id + 1]
      IN  root.resource = resource /\ rights \subseteq root.rights

(***************************************************************************)
(* A capability id is held in one place, and `count`, which decides        *)
(* whether a table is full, is the number of slots in use.                 *)
(***************************************************************************)
RcTableRight ==
  \A t \in CapTasks :
    /\ rcCount[t] = Cardinality(Held(t))
    /\ \A u \in CapTasks : \A s \in Held(t), r \in Held(u) :
         rcCaps[t][s].id = rcCaps[u][r].id => t = u /\ s = r

(***************************************************************************)
(* The audit ring holds the latest events: the k-th last one is k places   *)
(* behind the write index, and total_entries counts them all.              *)
(***************************************************************************)
RcAuditLatest ==
  /\ rcAudit.total_entries = Len(rcEvents)
  /\ \A k \in 1 .. AUDIT_SIZE :
       k <= Len(rcEvents) =>
         rcAudit.entries[(rcAudit.write_idx - k) % AUDIT_SIZE]
           = rcEvents[Len(rcEvents) + 1 - k]

(***************************************************************************)
(* After any grants, delegations and revocations the tables of the manager *)
(* are those its operations rely on (grant, revoke, record).               *)
(***************************************************************************)
RcTables == RcTableRight /\ RcAuditLatest
=============================================================================
