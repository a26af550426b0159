------------------------------ MODULE JobQueue ------------------------------
(***************************************************************************)
(* The Postgres job queue: the statements of internal/store/jobs.go and    *)
(* the worker loop of internal/jobs/worker.go, which claims a batch of     *)
(* jobs under one lease, runs the handlers with no transaction open and    *)
(* records each outcome in a statement of its own.                         *)
(*                                                                         *)
(* The jobs table is a set of columns over row ids.  Time is abstracted    *)
(* to what the statements test: whether a row is due (run_after <= now())  *)
(* and whether its locked_until is NULL ("free"), ahead ("live") or behind *)
(* ("expired").  A row that does not exist is "absent"; it keeps its last  *)
(* key, which is the copy a worker that claimed it still holds.  An id     *)
(* that nobody holds any more may be used for a new row: nothing tells it  *)
(* from a fresh one.                                                       *)
(***************************************************************************)
EXTENDS Integers, FiniteSets

CONSTANTS
  Ids,          \* row ids; |Ids| bounds the rows that exist at a time
  NoId,         \* not a row id: the worker dispatches nothing
  Keys,         \* (kind, project_id, args) triples
  Unhandled,    \* keys whose kind no handler is registered for
  Workers,      \* worker goroutines (replicas)
  MaxAttempts,  \* the literal 8 of jobs_pending and ClaimJobs
  Batch,        \* jobs per claim (default 25)
  Punctual      \* TRUE: every outcome is recorded before its lease ends

ASSUME JobQueueAssumption ==
  /\ IsFiniteSet(Workers)
  /\ NoId \notin Ids
  /\ Unhandled \subseteq Keys
  /\ MaxAttempts \in Nat \ {0}
  /\ Batch \in Nat \ {0}
  /\ Punctual \in BOOLEAN

VARIABLES
  key,       \* key[id]: kind, project_id and args of the row
  lock,      \* lock[id]: locked_until against now()
  attempts,  \* attempts[id]
  due,       \* due[id]: run_after <= now()
  holder,    \* holder[id]: the workers whose current lease is locked_until
  mode,      \* mode[w]: "up", or "stopping" once the work context is done
  todo,      \* todo[w]: jobs of the batch not dispatched yet
  cur,       \* cur[w]: the job being dispatched
  phase,     \* phase[w]: what dispatch is doing with cur[w]
  inLease,   \* inLease[w]: now is before the batch's locked_until
  charged    \* history: handler starts of the row that were not handed back

rowVars    == <<key, lock, attempts, due, holder>>
workerVars == <<mode, todo, cur, phase, inLease>>
vars == <<key, lock, attempts, due, holder,
          mode, todo, cur, phase, inLease, charged>>

Present(id)   == lock[id] # "absent"
Pending(id)   == Present(id) /\ attempts[id] < MaxAttempts
Holds(w, id)  == id \in todo[w] \/ cur[w] = id
Fresh(id)     == ~Present(id) /\ \A w \in Workers : ~Holds(w, id)
Rivals(id)    == {j \in Ids \ {id} : Pending(j) /\ key[j] = key[id]}
Running(w)    == phase[w] = "running"
Idle(w)       == cur[w] = NoId /\ todo[w] = {}

\* Faulty: a claim never takes over an expired lease.
ClaimableFree(id) == Pending(id) /\ due[id] /\ lock[id] = "free"

Claimable(id) == Pending(id) /\ due[id] /\ lock[id] \in {"free", "expired"}

TypeOK ==
  /\ key \in [Ids -> Keys]
  /\ lock \in [Ids -> {"absent", "free", "live", "expired"}]
  /\ attempts \in [Ids -> 0..MaxAttempts]
  /\ due \in [Ids -> BOOLEAN]
  /\ holder \in [Ids -> SUBSET Workers]
  /\ mode \in [Workers -> {"up", "stopping"}]
  /\ todo \in [Workers -> SUBSET Ids]
  /\ cur \in [Workers -> Ids \cup {NoId}]
  /\ phase \in [Workers -> {"none", "running", "ok", "failed", "cancelled"}]
  /\ inLease \in [Workers -> BOOLEAN]
  /\ charged \in [Ids -> Int]
  /\ \A w \in Workers : cur[w] = NoId <=> phase[w] = "none"

Init ==
  /\ key \in [Ids -> Keys]
  /\ lock = [id \in Ids |-> "absent"]
  /\ attempts = [id \in Ids |-> 0]
  /\ due = [id \in Ids |-> FALSE]
  /\ holder = [id \in Ids |-> {}]
  /\ mode = [w \in Workers |-> "up"]
  /\ todo = [w \in Workers |-> {}]
  /\ cur = [w \in Workers |-> NoId]
  /\ phase = [w \in Workers |-> "none"]
  /\ inLease = [w \in Workers |-> FALSE]
  /\ charged = [id \in Ids |-> 0]

-----------------------------------------------------------------------------
(* The statements of store/jobs.go. *)

\* INSERT ... ON CONFLICT (kind, project_id, args) WHERE attempts < 8.
\* soon: the run_after asked for has passed.
PullForwardReset(k, soon) ==  \* faulty: the enqueue starts the attempts over
  \E id \in Ids :
    /\ Pending(id) /\ key[id] = k
    /\ due' = [due EXCEPT ![id] = @ \/ soon]
    /\ attempts' = [attempts EXCEPT ![id] = 0]
    /\ UNCHANGED <<key, lock, holder, charged>>

PullForward(k, soon) ==
  \E id \in Ids :
    /\ Pending(id) /\ key[id] = k
    /\ due' = [due EXCEPT ![id] = @ \/ soon]
    /\ UNCHANGED <<key, lock, attempts, holder, charged>>

InsertJob(k, soon) ==
  /\ \A id \in Ids : ~(Pending(id) /\ key[id] = k)
  /\ \E id \in Ids :
       /\ Fresh(id)
       /\ key' = [key EXCEPT ![id] = k]
       /\ lock' = [lock EXCEPT ![id] = "free"]
       /\ attempts' = [attempts EXCEPT ![id] = 0]
       /\ due' = [due EXCEPT ![id] = soon]
       /\ holder' = [holder EXCEPT ![id] = {}]
       /\ charged' = [charged EXCEPT ![id] = 0]

EnqueueJob(k, soon) ==
  /\ PullForward(k, soon) \/ InsertJob(k, soon)
  /\ UNCHANGED workerVars

\* The row is gone: its columns mean nothing.
Remove(id) ==
  /\ lock' = [lock EXCEPT ![id] = "absent"]
  /\ attempts' = [attempts EXCEPT ![id] = 0]
  /\ due' = [due EXCEPT ![id] = FALSE]
  /\ holder' = [holder EXCEPT ![id] = {}]
  /\ charged' = [charged EXCEPT ![id] = 0]
  /\ UNCHANGED key

\* DELETE FROM jobs WHERE id = $1.
DeleteJob(id) == Remove(id)

\* UPDATE jobs SET last_error, run_after = later, locked_until = NULL WHERE id = $1.
RetryJob(id) ==
  IF Present(id)
  THEN /\ lock' = [lock EXCEPT ![id] = "free"]
       /\ due' = [due EXCEPT ![id] = FALSE]
       /\ holder' = [holder EXCEPT ![id] = {}]
       /\ UNCHANGED <<key, attempts, charged>>
  ELSE UNCHANGED <<key, lock, attempts, due, holder, charged>>

\* One attempt is given back; started: the handler had been called.
Uncount(id, started) ==
  /\ lock' = [lock EXCEPT ![id] = "free"]
  /\ attempts' = [attempts EXCEPT ![id] = IF @ > 0 THEN @ - 1 ELSE 0]
  /\ charged' = [charged EXCEPT ![id] = IF started THEN @ - 1 ELSE @]
  /\ holder' = [holder EXCEPT ![id] = {}]
  /\ UNCHANGED <<key, due>>

\* Faulty: no look at a newer duplicate, and no look at what was released.
ReleaseColliding(id, started) ==
  IF lock[id] = "live" THEN Uncount(id, started)
  ELSE UNCHANGED <<key, lock, attempts, due, holder, charged>>
ReleaseDropping(id, started) ==
  IF lock[id] = "live" THEN Remove(id)
  ELSE UNCHANGED <<key, lock, attempts, due, holder, charged>>

\* Shutdown gives the job back un-counted while locked_until >= now(), and
\* drops the row when another live one of the same key exists.
ReleaseJob(id, started) ==
  IF lock[id] # "live"
  THEN UNCHANGED <<key, lock, attempts, due, holder, charged>>
  ELSE IF Rivals(id) # {}
  THEN Remove(id)
  ELSE Uncount(id, started)

\* DELETE ... WHERE attempts >= 8 and a week old; the age of the row is left
\* open, as a row may be a week old at its last attempt after an outage.
ExpireJobs ==
  /\ \E id \in Ids : Present(id) /\ attempts[id] >= MaxAttempts /\ Remove(id)
  /\ UNCHANGED workerVars

-----------------------------------------------------------------------------
(* The worker: RunOnce and dispatch. *)

\* RunOnce: lease a batch.  ORDER BY run_after and SKIP LOCKED are left open:
\* any claimable batch.
ClaimJobs(w, S) ==
  /\ mode[w] = "up" /\ Idle(w)
  /\ S # {} /\ Cardinality(S) <= Batch
  /\ \A id \in S : Claimable(id)
  /\ lock' = [id \in Ids |-> IF id \in S THEN "live" ELSE lock[id]]
  /\ attempts' = [id \in Ids |-> IF id \in S THEN attempts[id] + 1 ELSE attempts[id]]
  /\ holder' = [id \in Ids |-> IF id \in S THEN {w} ELSE holder[id] \ {w}]
  /\ todo' = [todo EXCEPT ![w] = S]
  /\ inLease' = [inLease EXCEPT ![w] = TRUE]
  /\ UNCHANGED <<key, due, mode, cur, phase, charged>>

\* dispatch: the handler's deadline is the lease, so a job reached after the
\* lease ended gets a context that is already done and fails at once.
StartJob(w, id) ==
  /\ mode[w] = "up" /\ cur[w] = NoId
  /\ id \in todo[w] /\ key[id] \notin Unhandled
  /\ todo' = [todo EXCEPT ![w] = @ \ {id}]
  /\ cur' = [cur EXCEPT ![w] = id]
  /\ phase' = [phase EXCEPT ![w] = IF inLease[w] THEN "running" ELSE "failed"]
  /\ charged' = [charged EXCEPT ![id] = IF Present(id) THEN @ + 1 ELSE @]
  /\ UNCHANGED <<rowVars, mode, inLease>>

\* dispatch: a kind without a handler is dropped (ok = FALSE: the statement
\* fails and the row stays leased).
DropUnknown(w, id, ok) ==
  /\ mode[w] = "up" /\ cur[w] = NoId
  /\ id \in todo[w] /\ key[id] \in Unhandled
  /\ IF ok THEN DeleteJob(id) ELSE UNCHANGED <<rowVars, charged>>
  /\ todo' = [todo EXCEPT ![w] = @ \ {id}]
  /\ UNCHANGED <<mode, cur, phase, inLease>>

\* The handler returns: nil, an error (or a panic), or the cancellation of the
\* work context.
FinishJob(w, outcome) ==
  /\ Running(w)
  /\ outcome \in {"ok", "failed"} \/ (outcome = "cancelled" /\ mode[w] = "stopping")
  /\ phase' = [phase EXCEPT ![w] = outcome]
  /\ UNCHANGED <<rowVars, mode, todo, cur, inLease, charged>>

ClearCurrent(w) ==
  /\ cur' = [cur EXCEPT ![w] = NoId]
  /\ phase' = [phase EXCEPT ![w] = "none"]
  /\ UNCHANGED <<mode, todo, inLease>>

RecordOutcome(w) ==
  /\ \/ phase[w] = "ok" /\ DeleteJob(cur[w])
     \/ phase[w] = "failed" /\ RetryJob(cur[w])
     \/ phase[w] = "cancelled" /\ ReleaseJob(cur[w], TRUE)
  /\ ClearCurrent(w)

\* The statement that records an outcome fails: the row stays leased and the
\* batch goes on.
RecordError(w) ==
  /\ phase[w] \in {"ok", "failed", "cancelled"}
  /\ ClearCurrent(w)
  /\ UNCHANGED <<rowVars, charged>>

\* RunOnce, work context done: the rest of the batch is handed back untouched
\* (ok = FALSE: the statement fails).
HandBack(w, id, ok) ==
  /\ mode[w] = "stopping" /\ cur[w] = NoId /\ id \in todo[w]
  /\ todo' = [todo EXCEPT ![w] = @ \ {id}]
  /\ IF ok THEN ReleaseJob(id, FALSE) ELSE UNCHANGED <<rowVars, charged>>
  /\ UNCHANGED <<mode, cur, phase, inLease>>

Stop(w) ==
  /\ mode[w] = "up"
  /\ mode' = [mode EXCEPT ![w] = "stopping"]
  /\ UNCHANGED <<rowVars, todo, cur, phase, inLease, charged>>

\* A new process, after a clean stop or after a crash at any point.
Boot(w) ==
  /\ mode[w] = "stopping" /\ Idle(w)
  /\ mode' = [mode EXCEPT ![w] = "up"]
  /\ UNCHANGED <<rowVars, todo, cur, phase, inLease, charged>>

Crash(w) ==
  /\ ~Idle(w)
  /\ mode' = [mode EXCEPT ![w] = "up"]
  /\ todo' = [todo EXCEPT ![w] = {}]
  /\ cur' = [cur EXCEPT ![w] = NoId]
  /\ phase' = [phase EXCEPT ![w] = "none"]
  /\ inLease' = [inLease EXCEPT ![w] = FALSE]
  /\ holder' = [id \in Ids |-> holder[id] \ {w}]
  /\ UNCHANGED <<key, lock, attempts, due, charged>>

-----------------------------------------------------------------------------
(* Time. *)

BecomeDue(id) ==
  /\ Present(id) /\ ~due[id]
  /\ due' = [due EXCEPT ![id] = TRUE]
  /\ UNCHANGED <<key, lock, attempts, holder, charged>>
  /\ UNCHANGED workerVars

\* The lease of w's batch ends: its rows are claimable, and a running handler
\* sees its context done.
LeaseEnds(w) ==
  /\ inLease[w]
  /\ Punctual => Idle(w)
  /\ inLease' = [inLease EXCEPT ![w] = FALSE]
  /\ lock' = [id \in Ids |-> IF w \in holder[id] /\ lock[id] = "live"
                             THEN "expired" ELSE lock[id]]
  /\ holder' = [id \in Ids |-> holder[id] \ {w}]
  /\ phase' = [phase EXCEPT ![w] = IF @ = "running" THEN "failed" ELSE @]
  /\ UNCHANGED <<key, attempts, due, mode, todo, cur, charged>>

\* The end of a lease whose worker crashed or has claimed another batch since.
OrphanLeaseEnds(id) ==
  /\ lock[id] = "live" /\ holder[id] = {}
  /\ lock' = [lock EXCEPT ![id] = "expired"]
  /\ UNCHANGED <<key, attempts, due, holder, charged>>
  /\ UNCHANGED workerVars

Next ==
  \/ \E k \in Keys, soon \in BOOLEAN : EnqueueJob(k, soon)
  \/ ExpireJobs
  \/ \E w \in Workers :
       \/ \E S \in SUBSET Ids : ClaimJobs(w, S)
       \/ \E id \in Ids : StartJob(w, id) \/ (\E ok \in BOOLEAN : DropUnknown(w, id, ok))
       \/ \E outcome \in {"ok", "failed", "cancelled"} : FinishJob(w, outcome)
       \/ RecordOutcome(w)
       \/ RecordError(w)
       \/ \E id \in Ids, ok \in BOOLEAN : HandBack(w, id, ok)
       \/ Stop(w)
       \/ Boot(w)
       \/ Crash(w)
       \/ LeaseEnds(w)
  \/ \E id \in Ids : BecomeDue(id) \/ OrphanLeaseEnds(id)

Spec == Init /\ [][Next]_vars

\* Workers are scheduled, statements return, clocks move.  A claim takes the
\* rows that have been due longest (ORDER BY run_after, id), so a row that is
\* claimable again and again is claimed.  Nothing is assumed about enqueues,
\* shutdowns, crashes or the sweep.
Fairness ==
  /\ \A w \in Workers :
       /\ WF_vars(\E id \in Ids, ok \in BOOLEAN : StartJob(w, id) \/ DropUnknown(w, id, ok))
       /\ WF_vars(\E outcome \in {"ok", "failed", "cancelled"} : FinishJob(w, outcome))
       /\ WF_vars(RecordOutcome(w) \/ RecordError(w))
       /\ WF_vars(\E id \in Ids, ok \in BOOLEAN : HandBack(w, id, ok))
       /\ WF_vars(Boot(w))
       /\ WF_vars(LeaseEnds(w))
  /\ \A id \in Ids :
       /\ WF_vars(BecomeDue(id))
       /\ WF_vars(OrphanLeaseEnds(id))
       /\ SF_vars(\E w \in Workers, S \in SUBSET Ids : id \in S /\ ClaimJobs(w, S))

FairSpec == Spec /\ Fairness

-----------------------------------------------------------------------------
(* Properties. *)

\* At most one live row per (kind, project_id, args), through enqueues that
\* race a last attempt (which is outside jobs_pending) and its hand-back: the
\* release never un-counts an attempt into a second live row.
OneLiveRow ==
  \A i, j \in Ids : (Pending(i) /\ Pending(j) /\ key[i] = key[j]) => i = j

\* However leases expire, workers crash and stale outcomes land, a row's
\* handler is started at most MaxAttempts times, starts that a shutdown handed
\* back excepted: a poisonous job cannot run for ever.
StartsBounded ==
  \A id \in Ids : charged[id] <= attempts[id]

\* No two workers run the handler of one row at the same time: "a job never
\* runs past the moment another worker may claim it".
OneRunner ==
  \A w, v \in Workers :
    (Running(w) /\ Running(v) /\ cur[w] = cur[v]) => w = v

\* A row leaves the table only because its handler succeeded, its kind has no
\* handler, it is out of attempts, or a newer live row of its key is kept.
NoSilentDrop ==
  [][\A id \in Ids : (Pending(id) /\ lock'[id] = "absent") =>
       \/ \E w \in Workers : cur[w] = id /\ phase[w] = "ok" /\ cur'[w] = NoId
       \/ key[id] \in Unhandled]_vars

\* A worker that gives a job back (shutdown) or reschedules it touches only a
\* row whose lease is its own: it never frees the lease of the worker that
\* claimed the job after it.
OnlyOwnLease ==
  [][\A w \in Workers, id \in Ids :
       (Holds(w, id) /\ ~(id \in todo'[w] \/ cur'[w] = id)
          /\ lock[id] = "live" /\ lock'[id] = "free") => w \in holder[id]]_vars

\* Once restarts cease, every row is eventually gone or out of attempts and
\* off any lease: no row stays pending, leased or backing off for ever.
Settled(id) == ~Present(id) \/ (attempts[id] = MaxAttempts /\ lock[id] # "live")
Drains ==
  (<>[](\A w \in Workers : mode[w] = "up")) =>
     \A id \in Ids : Present(id) ~> Settled(id)
=============================================================================
