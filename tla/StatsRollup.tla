---------------------------- MODULE StatsRollup ----------------------------
(***************************************************************************)
(* The dirty-key statistics: every write to events or sessions marks its   *)
(* (project, hour) dirty in the same transaction (store/events.go), the    *)
(* views of the schema read the rolled row of a clean hour and the raw     *)
(* rows of a dirty one, and retention.Rollup recomputes dirty hours in     *)
(* three steps and clears each key at the gen it read.                     *)
(*                                                                         *)
(* One project and one of the two dirty tables; the other behaves alike.   *)
(* An hour's rows are abstracted to the number of writes they are the      *)
(* result of (an insert, a session's new status, a fingerprint moved by    *)
(* symbolication): two contents of an hour differ iff these numbers do.    *)
(* Hours are numbered, and now is the current one.                         *)
(***************************************************************************)
EXTENDS Integers, FiniteSets

CONSTANTS
  MaxHour,    \* bound: the last hour the clock reaches
  Retention,  \* RETENTION_DAYS, in hours
  Rollers,    \* concurrent Rollup calls: one leader's tick, or more
  Batch,      \* RollupBatch: dirty hours per pass
  MaxWrites   \* bound: writes per hour

ASSUME StatsRollupAssumption ==
  /\ MaxHour \in Nat /\ Retention \in Nat
  /\ Batch \in Nat \ {0} /\ MaxWrites \in Nat

Hours == 0..MaxHour

VARIABLES
  now,     \* the current hour
  raw,     \* raw[h]: content of the raw rows of hour h (0: no rows)
  rolled,  \* rolled[h]: content the rolled rows were computed from
  dirty,   \* dirty[h]: gen of the hour's dirty key, 0 when there is none
  step,    \* step[r]: where roller r is
  cutoff,  \* cutoff[r]: hours before it are not recomputed
  keys,    \* keys[r][h]: the gen read for h, 0 when h is not in the batch
  fresh    \* fresh[r]: raw contents its recompute statement saw

vars == <<now, raw, rolled, dirty, step, cutoff, keys, fresh>>
rollerVars == <<step, cutoff, keys, fresh>>

Batched(r) == {h \in Hours : keys[r][h] # 0}
TodoAll(r) == Batched(r)   \* faulty: no cutoff
Todo(r)    == {h \in Batched(r) : h >= cutoff[r]}
None       == [h \in Hours |-> 0]

TypeOK ==
  /\ now \in Hours
  /\ raw \in [Hours -> 0..MaxWrites]
  /\ rolled \in [Hours -> 0..MaxWrites]
  /\ dirty \in [Hours -> Nat]
  /\ step \in [Rollers -> {"idle", "started", "read", "computed", "written"}]
  /\ cutoff \in [Rollers -> Int]
  /\ keys \in [Rollers -> [Hours -> Nat]]
  /\ fresh \in [Rollers -> [Hours -> 0..MaxWrites]]

Init ==
  /\ now = 0
  /\ raw = None /\ rolled = None /\ dirty = None
  /\ step = [r \in Rollers |-> "idle"]
  /\ cutoff = [r \in Rollers |-> 0]
  /\ keys = [r \in Rollers |-> None]
  /\ fresh = [r \in Rollers |-> None]

-----------------------------------------------------------------------------
\* Faulty: a mark that meets a key leaves its gen alone.
MarkOnce(h) == dirty' = [dirty EXCEPT ![h] = 1]

\* ON CONFLICT (project_id, bucket) DO UPDATE SET gen = gen + 1.
MarkHour(h) == dirty' = [dirty EXCEPT ![h] = @ + 1]

\* One ingest (or import) transaction: insert and mark.  clampPast takes an
\* older timestamp as a wrong clock and uses now.
Ingest(h) ==
  /\ now - Retention <= h /\ h <= now
  /\ raw[h] < MaxWrites
  /\ raw' = [raw EXCEPT ![h] = @ + 1]
  /\ MarkHour(h)
  /\ UNCHANGED <<now, rolled, rollerVars>>

\* One symbolication transaction: an event of any age that is still stored
\* gets its symbols and perhaps another fingerprint, and its hour is marked.
Symbolicate(h) ==
  /\ raw[h] \in 1..(MaxWrites - 1)
  /\ raw' = [raw EXCEPT ![h] = @ + 1]
  /\ MarkHour(h)
  /\ UNCHANGED <<now, rolled, rollerVars>>

\* The sweep drops a partition that ends before the retention cutoff; weekly
\* partitions keep an hour up to a week longer, so when is left open.
DropRaw(h) ==
  /\ h < now - Retention
  /\ raw[h] # 0
  /\ raw' = [raw EXCEPT ![h] = 0]
  /\ UNCHANGED <<now, rolled, dirty, rollerVars>>

Tick ==
  /\ now < MaxHour
  /\ now' = now + 1
  /\ UNCHANGED <<raw, rolled, dirty, rollerVars>>

-----------------------------------------------------------------------------
(* Rollup and its three steps. *)

StartRollup(r) ==
  /\ step[r] = "idle"
  /\ step' = [step EXCEPT ![r] = "started"]
  /\ cutoff' = [cutoff EXCEPT ![r] = now - Retention]
  /\ UNCHANGED <<now, raw, rolled, dirty, keys, fresh>>

\* SELECT ... WHERE bucket < date_trunc('hour', now()) ORDER BY bucket DESC
\* LIMIT RollupBatch, without a lock.
Newest(S) ==
  S = {h \in S : dirty[h] # 0 /\ h < now}
  /\ \A h \in Hours \ S : (dirty[h] # 0 /\ h < now) =>
       Cardinality(S) = Batch /\ \A s \in S : s > h

ReadKeys(r) ==
  /\ step[r] = "started"
  /\ \E S \in SUBSET Hours :
       /\ Cardinality(S) <= Batch /\ Newest(S)
       /\ keys' = [keys EXCEPT ![r] = [h \in Hours |-> IF h \in S THEN dirty[h] ELSE 0]]
       /\ step' = [step EXCEPT ![r] = IF S = {} THEN "idle" ELSE "read"]
  /\ UNCHANGED <<now, raw, rolled, dirty, cutoff, fresh>>

\* The recompute transaction: its statements see the committed raw rows...
\* (another transaction on the same hours waits for its row locks, or fails on
\* the primary key and returns an error: FailRollup)
Compute(r) ==
  /\ step[r] = "read"
  /\ \A q \in Rollers : step[q] = "computed" => Todo(q) \cap Todo(r) = {}
  /\ fresh' = [fresh EXCEPT ![r] = [h \in Hours |-> IF h \in Todo(r) THEN raw[h] ELSE 0]]
  /\ step' = [step EXCEPT ![r] = "computed"]
  /\ UNCHANGED <<now, raw, rolled, dirty, cutoff, keys>>

\* ... and replace the rolled rows at its commit.
Commit(r) ==
  /\ step[r] = "computed"
  /\ rolled' = [h \in Hours |-> IF h \in Todo(r) THEN fresh[r][h] ELSE rolled[h]]
  /\ step' = [step EXCEPT ![r] = "written"]
  /\ UNCHANGED <<now, raw, dirty, cutoff, keys, fresh>>

Finish(r) ==
  /\ step' = [step EXCEPT ![r] = "idle"]
  /\ cutoff' = [cutoff EXCEPT ![r] = 0]
  /\ keys' = [keys EXCEPT ![r] = None]
  /\ fresh' = [fresh EXCEPT ![r] = None]
  /\ UNCHANGED <<now, raw, rolled>>

\* Faulty: the key is cleared whatever its gen is by now.
ClearAll(r) ==
  /\ step[r] = "written"
  /\ dirty' = [h \in Hours |-> IF h \in Batched(r) THEN 0 ELSE dirty[h]]
  /\ Finish(r)

\* Faulty: the keys of hours that were not recomputed are left.
ClearRecent(r) ==
  /\ step[r] = "written"
  /\ dirty' = [h \in Hours |-> IF h \in Todo(r) /\ dirty[h] = keys[r][h]
                               THEN 0 ELSE dirty[h]]
  /\ Finish(r)

\* DELETE ... WHERE d.gen = k.gen, hours before the cutoff included.
ClearKeys(r) ==
  /\ step[r] = "written"
  /\ dirty' = [h \in Hours |-> IF h \in Batched(r) /\ dirty[h] = keys[r][h]
                               THEN 0 ELSE dirty[h]]
  /\ Finish(r)

\* A statement fails, or the process dies, before the keys are cleared.
FailRollup(r) ==
  /\ step[r] # "idle"
  /\ Finish(r)
  /\ UNCHANGED dirty

Next ==
  \/ \E h \in Hours : Ingest(h) \/ Symbolicate(h) \/ DropRaw(h)
  \/ Tick
  \/ \E r \in Rollers :
       \/ StartRollup(r) \/ ReadKeys(r) \/ Compute(r) \/ Commit(r)
       \/ ClearKeys(r) \/ FailRollup(r)

Spec == Init /\ [][Next]_vars

\* The leader's tick runs a pass every minute and statements return; passes
\* may fail, but not every one of them for ever.
Fairness ==
  \A r \in Rollers :
    /\ WF_vars(StartRollup(r)) /\ SF_vars(ReadKeys(r))
    /\ SF_vars(Compute(r)) /\ SF_vars(Commit(r))
    /\ SF_vars(ClearKeys(r))

FairSpec == Spec /\ Fairness

-----------------------------------------------------------------------------
(* The views of the schema, and the properties. *)

View(h) == IF dirty[h] = 0 THEN rolled[h] ELSE raw[h]

InWindow(h) == h >= now - Retention

\* "exact at every moment": inside the retention window a reader of the views
\* sees every committed write, however passes of the rollup interleave with
\* late writes, fail half-way, or straddle an hour.
ExactInWindow == \A h \in Hours : InWindow(h) => View(h) = raw[h]

\* The rolled rows of an hour, "the only record of it" once the raw rows are
\* dropped, go back to fewer writes only by a pass that took its cutoff before
\* the hour changed: late passes, failed ones and the sweep never undo them.
Straddling(r) == step[r] = "computed" /\ cutoff[r] # now - Retention
HistoryKept ==
  [][\A h \in Hours : rolled'[h] < rolled[h] => \E r \in Rollers : Straddling(r)]_vars

\* A past hour that is dirty becomes clean: no pass that failed half-way, and
\* no newer backlog, leaves its key behind for ever.
BecomesClean ==
  \A h \in Hours : (dirty[h] # 0 /\ h < now) ~> dirty[h] = 0

\* The views implement the promise of ExactStats.
Exact == INSTANCE ExactStats WITH
  Gone <- -1,
  content <- [h \in Hours |-> IF InWindow(h) THEN View(h) ELSE -1]
ExactSpec == Exact!Spec
=============================================================================
