------------------------------ MODULE FrontDoor ------------------------------
(***************************************************************************)
(* The DSN keys of one project and the ingest's answer to a key: the       *)
(* rotation and deletion of keys (internal/store/projects.go, the API's    *)
(* and the viewer's handlers) and Ingester.Project with its cache of       *)
(* keyCacheTTL (internal/ingest/ingest.go).                                *)
(***************************************************************************)
EXTENDS Integers, FiniteSets

CONSTANTS
  DsnKeys,     \* keys a project may be given, never twice
  NoKey,
  Deliveries,  \* requests in flight at one process
  KeyTTL,      \* keyCacheTTL
  LookupTime,  \* assumption: a lookup that finds its key ends within this
  LastTick     \* bound: the clock

ASSUME FrontDoorAssumption ==
  /\ NoKey \notin DsnKeys
  /\ KeyTTL \in Nat /\ LookupTime \in Nat /\ LastTick \in Nat

VARIABLES
  tick,       \* the clock
  current,    \* projects.public_key, NoKey once the project is deleted
  retired,    \* the keys in project_keys
  deletedAt,  \* deletedAt[k]: when k was deleted, -1 while it was not
  issued,     \* keys given out so far
  expires,    \* expires[k]: until when the process serves k from its cache
  delivery,   \* delivery[d]: a request's lookup
  verdict     \* the last answer: key, time, and whether it was let in

doorVars == <<tick, current, retired, deletedAt, issued, expires, delivery, verdict>>

NoLookup == [pc |-> "idle", key |-> NoKey, since |-> 0]
Answer   == [key : DsnKeys \cup {NoKey}, at : 0..LastTick, ok : BOOLEAN]

DoorTypeOK ==
  /\ tick \in 0..LastTick
  /\ current \in issued \cup {NoKey} /\ retired \subseteq issued \ {current}
  /\ issued \subseteq DsnKeys
  /\ deletedAt \in [DsnKeys -> -1..LastTick]
  /\ expires \in [DsnKeys -> -1..(LastTick + KeyTTL)]
  /\ delivery \in [Deliveries -> [pc : {"idle", "asked", "missed", "found"},
                                  key : DsnKeys \cup {NoKey}, since : 0..LastTick]]
  /\ verdict \in Answer

DoorInit ==
  /\ tick = 0
  /\ \E k \in DsnKeys : current = k /\ issued = {k}
  /\ retired = {}
  /\ deletedAt = [k \in DsnKeys |-> -1]
  /\ expires = [k \in DsnKeys |-> -1]
  /\ delivery = [d \in Deliveries |-> NoLookup]
  /\ verdict = [key |-> NoKey, at |-> 0, ok |-> TRUE]

TimeGoesOn ==
  /\ tick < LastTick
  /\ \A d \in Deliveries : delivery[d].pc = "found" => tick + 1 - delivery[d].since <= LookupTime
  /\ tick' = tick + 1
  /\ UNCHANGED <<current, retired, deletedAt, issued, expires, delivery, verdict>>

-----------------------------------------------------------------------------
(* Keys. *)

\* RetireProjectKey reads projects.public_key before the update.
Outgoing(new) == current

\* RotateProjectKey, one transaction; a second one at the same time fails on
\* the unique key it would retire twice.
RotateProjectKey(new) ==
  /\ current # NoKey /\ new \notin issued
  /\ retired' = retired \cup {Outgoing(new)}
  /\ current' = new /\ issued' = issued \cup {new}
  /\ UNCHANGED <<tick, deletedAt, expires, delivery, verdict>>

\* DeleteProjectKey, of a retired key only.
DeleteProjectKey(k) ==
  /\ k \in retired
  /\ retired' = retired \ {k}
  /\ deletedAt' = [deletedAt EXCEPT ![k] = tick]
  /\ UNCHANGED <<tick, current, issued, expires, delivery, verdict>>

\* The project goes with its keys.
DeleteProject ==
  /\ current # NoKey
  /\ deletedAt' = [k \in DsnKeys |-> IF k = current \/ k \in retired THEN tick ELSE deletedAt[k]]
  /\ current' = NoKey /\ retired' = {}
  /\ UNCHANGED <<tick, issued, expires, delivery, verdict>>

-----------------------------------------------------------------------------
(* Ingester.Project. *)

Looks(d, pc) == delivery' = [delivery EXCEPT ![d].pc = pc, ![d].since = tick]

\* The cache under the mutex; time.Now().After(exp) is a miss.
Ask(d, k) ==
  /\ delivery[d].pc = "idle" /\ k \in issued
  /\ IF tick <= expires[k]
     THEN /\ verdict' = [key |-> k, at |-> tick, ok |-> TRUE]
          /\ UNCHANGED delivery
     ELSE /\ delivery' = [delivery EXCEPT ![d] = [pc |-> "asked", key |-> k, since |-> tick]]
          /\ UNCHANGED verdict
  /\ UNCHANGED <<tick, current, retired, deletedAt, issued, expires>>

\* GetProjectByKey.
LookCurrent(d) ==
  /\ delivery[d].pc = "asked"
  /\ Looks(d, IF delivery[d].key = current THEN "found" ELSE "missed")
  /\ UNCHANGED <<tick, current, retired, deletedAt, issued, expires, verdict>>

\* GetProjectByRetiredKey: found, or unauthorized.
LookRetired(d) ==
  /\ delivery[d].pc = "missed"
  /\ IF delivery[d].key \in retired
     THEN Looks(d, "found") /\ UNCHANGED verdict
     ELSE /\ verdict' = [key |-> delivery[d].key, at |-> tick, ok |-> FALSE]
          /\ delivery' = [delivery EXCEPT ![d] = NoLookup]
  /\ UNCHANGED <<tick, current, retired, deletedAt, issued, expires>>

\* Faulty: a key is cached from its last use on, without an end.
CachedUntilNever == LastTick + KeyTTL

CachedUntil == tick + KeyTTL

Cache(d) ==
  /\ delivery[d].pc = "found"
  /\ expires' = [expires EXCEPT ![delivery[d].key] = CachedUntil]
  /\ verdict' = [key |-> delivery[d].key, at |-> tick, ok |-> TRUE]
  /\ delivery' = [delivery EXCEPT ![d] = NoLookup]
  /\ UNCHANGED <<tick, current, retired, deletedAt, issued>>

\* A query fails: an error, neither an answer nor an entry.
LookupFails(d) ==
  /\ delivery[d].pc \in {"asked", "missed"}
  /\ delivery' = [delivery EXCEPT ![d] = NoLookup]
  /\ UNCHANGED <<tick, current, retired, deletedAt, issued, expires, verdict>>

-----------------------------------------------------------------------------

DoorNext ==
  \/ TimeGoesOn \/ DeleteProject
  \/ \E k \in DsnKeys : RotateProjectKey(k) \/ DeleteProjectKey(k)
  \/ \E d \in Deliveries : LookCurrent(d) \/ LookRetired(d) \/ Cache(d) \/ LookupFails(d)
                             \/ \E k \in DsnKeys : Ask(d, k)

DoorSpec == DoorInit /\ [][DoorNext]_doorVars

-----------------------------------------------------------------------------

\* A key that was given out keeps working until somebody deletes it, through
\* any rotation (00001_baseline.sql, project_keys), and then stops within
\* keyCacheTTL (ingest.go:48) of the lookup that still found it.
VerdictsRight ==
  LET k == verdict.key IN
  k # NoKey =>
    IF verdict.ok
    THEN deletedAt[k] = -1 \/ verdict.at <= deletedAt[k] + LookupTime + KeyTTL
    ELSE deletedAt[k] # -1
=============================================================================
