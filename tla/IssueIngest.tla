---------------------------- MODULE IssueIngest ----------------------------
(***************************************************************************)
(* How issues keep count of their events: the write transaction of an      *)
(* envelope (Ingest of internal/ingest/ingest.go), the transaction that    *)
(* moves an event to the issue its symbols reveal (Event of                *)
(* internal/symbolicate/service.go) and the status changes, over the       *)
(* statements of internal/store/issues.go.                                 *)
(*                                                                         *)
(* Transactions run at READ COMMITTED: a statement sees what was committed *)
(* when it began, an UPDATE or upsert waits for the row lock and then      *)
(* works on the newest committed row, and a lock is held until commit.     *)
(* new[p] holds the row versions p has not committed.                      *)
(*                                                                         *)
(* One project.  Fingerprints are numbers (they are sorted before they are *)
(* locked).  An envelope is the set of its events; a resend is the same    *)
(* set again.  Expiry of issues and events is not modelled here.           *)
(***************************************************************************)
EXTENDS Integers, FiniteSets

CONSTANTS
  Events,     \* event ids
  Envelopes,  \* the sets of events clients send, each any number of times
  Fps,        \* fingerprints
  RawFp,      \* the fingerprint of an event's frames as they arrive
  SymFp,      \* its fingerprint once symbolicated
  Releases,
  ReleaseOf,  \* the release of each event
  Senders,    \* ingest requests being served
  Movers,     \* symbolication runs
  Nobody,     \* not a process: the row is not locked
  MayDrop,    \* events the sampler may drop (sample_rate below 1)
  Overlap,    \* TRUE: an event may be handled by two processes at a time
  Immediate,  \* TRUE: an upsert updates the very row version its snapshot saw
  MaxCount    \* bound on event_count

ASSUME IssueIngestAssumption ==
  /\ IsFiniteSet(Events)
  /\ Fps \subseteq Nat
  /\ Envelopes \subseteq SUBSET Events
  /\ RawFp \in [Events -> Fps] /\ SymFp \in [Events -> Fps]
  /\ ReleaseOf \in [Events -> Releases]
  /\ Senders \cap Movers = {} /\ Nobody \notin Senders \cup Movers
  /\ MayDrop \subseteq Events /\ Overlap \in BOOLEAN /\ Immediate \in BOOLEAN
  /\ MaxCount \in Nat

Procs  == Senders \cup Movers
NoFp   == -1
NoIssue == [status |-> "none", count |-> 0, stored |-> 0, releases |-> {}, resolved |-> {}]

VARIABLES
  fpOf,          \* committed events: fpOf[e] is its fingerprint, NoFp: not stored
  symbolicated,  \* committed: events with symbols
  issue,         \* committed issues, NoIssue where there is no row
  owner,         \* owner[f]: the transaction that holds the lock of issue f
  alerts,        \* pending regression alert jobs (deduplicated by issue)
  step,          \* step[p]: where p is
  work,          \* work[p]: the events p handles
  keep,          \* keep[p]: those an ingest stores
  old,           \* old[p]: the fingerprint a mover read
  todo,          \* todo[p]: issues p has not written yet
  prev,          \* prev[p]: status the snapshot of p's upsert saw
  new,           \* new[p]: row versions p wrote
  flipped        \* flipped[p]: issues whose upsert returned Regressed

procVars == <<step, work, keep, old, todo, prev, new, flipped>>
vars == <<fpOf, symbolicated, issue, owner, alerts,
          step, work, keep, old, todo, prev, new, flipped>>

Statuses == {"none", "unresolved", "resolved", "regression", "ignored"}
Rows == [status: Statuses, count: 0..MaxCount, stored: 0..MaxCount,
         releases: SUBSET Releases, resolved: SUBSET Releases]

TypeOK ==
  /\ fpOf \in [Events -> Fps \cup {NoFp}]
  /\ symbolicated \subseteq {e \in Events : fpOf[e] # NoFp}
  /\ \A f \in Fps : issue[f] \in Rows
  /\ owner \in [Fps -> Procs \cup {Nobody}]
  /\ \A f \in Fps : owner[f] # Nobody => step[owner[f]] \in {"upsert", "waiting"}
  /\ alerts \subseteq Fps
  /\ step \in [Procs -> {"idle", "read", "upsert", "waiting"}]
  /\ work \in [Procs -> SUBSET Events] /\ keep \in [Procs -> SUBSET Events]
  /\ old \in [Procs -> Fps \cup {NoFp}]
  /\ todo \in [Procs -> SUBSET Fps]
  /\ prev \in [Procs -> Statuses]
  /\ \A p \in Procs, f \in Fps : new[p][f] \in Rows
  /\ flipped \in [Procs -> SUBSET Fps]

Init ==
  /\ fpOf = [e \in Events |-> NoFp]
  /\ symbolicated = {} /\ alerts = {}
  /\ issue = [f \in Fps |-> NoIssue]
  /\ owner = [f \in Fps |-> Nobody]
  /\ step = [p \in Procs |-> "idle"]
  /\ work = [p \in Procs |-> {}]
  /\ keep = [p \in Procs |-> {}]
  /\ old = [p \in Procs |-> NoFp]
  /\ todo = [p \in Procs |-> {}]
  /\ prev = [p \in Procs |-> "none"]
  /\ new = [p \in Procs |-> [f \in Fps |-> NoIssue]]
  /\ flipped = [p \in Procs |-> {}]

Free(S) == Overlap \/ \A q \in Procs : work[q] \cap S = {}

-----------------------------------------------------------------------------
(* An ingest: the dedupe read, which also settles what is sampled. *)

\* Faulty: no look at what is stored.
UnstoredAll(env) == env

\* ExistingEventIDs: the events a resend carries and the table has.
Unstored(env) == {e \in env : fpOf[e] = NoFp}

ReadEnvelope(p, env, K) ==
  /\ p \in Senders /\ step[p] = "idle" /\ Free(env)
  /\ K \subseteq Unstored(env) /\ (Unstored(env) \ MayDrop \subseteq K)
  /\ work' = [work EXCEPT ![p] = Unstored(env)]
  /\ keep' = [keep EXCEPT ![p] = K]
  /\ todo' = [todo EXCEPT ![p] = {RawFp[e] : e \in Unstored(env)}]
  /\ step' = [step EXCEPT ![p] = "upsert"]
  /\ UNCHANGED <<fpOf, symbolicated, issue, owner, alerts, old, prev, new, flipped>>

(* A symbolication: GetEventAt outside the transaction, then SetEventSymbols,
   which locks the event's row and, when the fingerprint changes, both issues. *)

ReadEvent(p, e) ==
  /\ p \in Movers /\ step[p] = "idle" /\ Free({e})
  /\ fpOf[e] # NoFp /\ e \notin symbolicated
  /\ work' = [work EXCEPT ![p] = {e}]
  /\ old' = [old EXCEPT ![p] = fpOf[e]]
  /\ step' = [step EXCEPT ![p] = "read"]
  /\ UNCHANGED <<fpOf, symbolicated, issue, owner, alerts, keep, todo, prev, new, flipped>>

SetEventSymbols(p, e) ==
  /\ p \in Movers /\ step[p] = "read" /\ work[p] = {e}
  /\ \A q \in Movers \ {p} : step[q] \in {"upsert", "waiting"} => e \notin work[q]
  /\ todo' = [todo EXCEPT ![p] = IF SymFp[e] = old[p] THEN {} ELSE {SymFp[e], old[p]}]
  /\ step' = [step EXCEPT ![p] = "upsert"]
  /\ UNCHANGED <<fpOf, symbolicated, issue, owner, alerts, work, keep, old, prev, new, flipped>>

-----------------------------------------------------------------------------
(* The writes to issues, one locked row after another. *)

\* Faulty: an ingest takes its issues in the order of the envelope.
NextFpUnsorted(p, f) == f \in todo[p]

\* slices.Sort(order) of an ingest; UpsertIssue of the new issue, then
\* AdjustIssueStoredCount of the old one.
NextFp(p, f) ==
  /\ f \in todo[p]
  /\ IF p \in Senders THEN \A g \in todo[p] : f <= g ELSE f = old[p] => todo[p] = {f}

Group(p, f) == {e \in work[p] : RawFp[e] = f}

StartUpsert(p, f) ==
  /\ step[p] = "upsert" /\ NextFp(p, f)
  /\ prev' = [prev EXCEPT ![p] = issue[f].status]
  /\ step' = [step EXCEPT ![p] = "waiting"]
  /\ UNCHANGED <<fpOf, symbolicated, issue, owner, alerts, work, keep, old, todo, new, flipped>>

\* INSERT ... ON CONFLICT DO UPDATE of n events, k of them stored.
Upserted(row, n, k, rels, regress) ==
  [row EXCEPT !.status = IF @ = "none" THEN "unresolved"
                         ELSE IF regress /\ @ = "resolved" /\ ~(rels \subseteq row.resolved)
                         THEN "regression" ELSE @,
              !.count = @ + n, !.stored = @ + k, !.releases = @ \cup rels]

\* AdjustIssueStoredCount by -1, then DeleteEmptyIssue.
Taken(row) ==
  IF row.status = "none" THEN row
  ELSE IF row.count <= 1 /\ row.status = "unresolved" THEN NoIssue
  ELSE [row EXCEPT !.count = IF @ > 0 THEN @ - 1 ELSE 0, !.stored = IF @ > 0 THEN @ - 1 ELSE 0]

Written(p, f) ==
  IF p \in Senders
  THEN Upserted(issue[f], Cardinality(Group(p, f)), Cardinality(Group(p, f) \cap keep[p]),
                {ReleaseOf[e] : e \in Group(p, f)}, TRUE)
  ELSE IF f = old[p] THEN Taken(issue[f])
  ELSE Upserted(issue[f], 1, 1, {ReleaseOf[e] : e \in work[p]}, FALSE)

\* Faulty: the status before the update was regression.
RegressedStale(p, f, row) == row.status = "regression" /\ issue[f].status = "regression"

\* RETURNING: status = 'regression' AND (SELECT status FROM prev) = 'resolved'.
Regressed(p, f, row) ==
  /\ row.status = "regression"
  /\ (IF Immediate THEN issue[f].status ELSE prev[p]) = "resolved"

\* The row lock is granted: what the statement does to the newest version.
Upsert(p, f) ==
  /\ step[p] = "waiting" /\ NextFp(p, f)
  /\ owner[f] = Nobody
  /\ Written(p, f).count <= MaxCount
  /\ owner' = [owner EXCEPT ![f] = p]
  /\ new' = [new EXCEPT ![p][f] = Written(p, f)]
  /\ flipped' = [flipped EXCEPT ![p] =
       IF p \in Senders /\ Regressed(p, f, Written(p, f)) THEN @ \cup {f} ELSE @]
  /\ todo' = [todo EXCEPT ![p] = @ \ {f}]
  /\ prev' = [prev EXCEPT ![p] = "none"]
  /\ step' = [step EXCEPT ![p] = "upsert"]
  /\ UNCHANGED <<fpOf, symbolicated, issue, alerts, work, keep, old>>

Reset(p) ==
  /\ step' = [step EXCEPT ![p] = "idle"]
  /\ work' = [work EXCEPT ![p] = {}]
  /\ keep' = [keep EXCEPT ![p] = {}]
  /\ old' = [old EXCEPT ![p] = NoFp]
  /\ todo' = [todo EXCEPT ![p] = {}]
  /\ prev' = [prev EXCEPT ![p] = "none"]
  /\ new' = [new EXCEPT ![p] = [f \in Fps |-> NoIssue]]
  /\ flipped' = [flipped EXCEPT ![p] = {}]

Unlock(p) == owner' = [f \in Fps |-> IF owner[f] = p THEN Nobody ELSE owner[f]]

\* InsertEvents (ON CONFLICT DO NOTHING), the alert jobs, and COMMIT.
Commit(p) ==
  /\ step[p] = "upsert" /\ todo[p] = {}
  /\ issue' = [f \in Fps |-> IF owner[f] = p THEN new[p][f] ELSE issue[f]]
  /\ IF p \in Senders
     THEN /\ fpOf' = [e \in Events |-> IF e \in keep[p] /\ fpOf[e] = NoFp THEN RawFp[e] ELSE fpOf[e]]
          /\ UNCHANGED symbolicated
     ELSE /\ fpOf' = [e \in Events |-> IF e \in work[p] THEN SymFp[e] ELSE fpOf[e]]
          /\ symbolicated' = symbolicated \cup work[p]
  /\ alerts' = alerts \cup flipped[p]
  /\ Unlock(p) /\ Reset(p)

\* A statement fails, Postgres breaks a deadlock, the client's connection or
\* the process dies: the transaction is rolled back.
Rollback(p) ==
  /\ step[p] # "idle"
  /\ Unlock(p) /\ Reset(p)
  /\ UNCHANGED <<fpOf, symbolicated, issue, alerts>>

-----------------------------------------------------------------------------
\* SetIssueStatus, UnignoreDue and EscalateIssue (ignored to unresolved): one
\* statement, once nobody holds the row.
SetIssueStatus(f, s) ==
  /\ owner[f] = Nobody /\ issue[f].status # "none"
  /\ s \in {"unresolved", "resolved", "ignored"}
  /\ issue' = [issue EXCEPT ![f].status = s,
                            ![f].resolved = IF s = "resolved" THEN issue[f].releases ELSE @]
  /\ UNCHANGED <<fpOf, symbolicated, owner, alerts, procVars>>

\* A worker runs the alert job.
SendAlert(f) ==
  /\ f \in alerts
  /\ alerts' = alerts \ {f}
  /\ UNCHANGED <<fpOf, symbolicated, issue, owner, procVars>>

Next ==
  \/ \E p \in Procs :
       \/ \E env \in Envelopes : \E K \in SUBSET env : ReadEnvelope(p, env, K)
       \/ \E e \in Events : ReadEvent(p, e) \/ SetEventSymbols(p, e)
       \/ \E f \in Fps : StartUpsert(p, f) \/ Upsert(p, f)
       \/ Commit(p)
       \/ Rollback(p)
  \/ \E f \in Fps : SendAlert(f) \/ (\E s \in Statuses : SetIssueStatus(f, s))

Spec == Init /\ [][Next]_vars

-----------------------------------------------------------------------------
(* Properties. *)

StoredUnder(f) == Cardinality({e \in Events : fpOf[e] = f})

\* "those must not be counted twice": the counts of an issue are those of the
\* events stored under it, through resends, symbolication runs that move an
\* event while others arrive, rollbacks and changes of status; every stored
\* event has its issue.
CountsExact ==
  \A f \in Fps :
    /\ issue[f].stored = StoredUnder(f)
    /\ StoredUnder(f) > 0 => issue[f].status # "none"
    /\ (\A e \in MayDrop : RawFp[e] # f) => issue[f].count = issue[f].stored
    /\ issue[f].count >= issue[f].stored

Flips(f) == issue[f].status = "resolved" /\ issue'[f].status = "regression"

\* "this envelope flipped it": whoever turns a resolved issue into a
\* regression raises its alert, and "a regressed issue crashing on does not
\* re-alert": no other transaction does.  It flips only on a release it had
\* not been seen on when it was resolved.
FlipAlerts ==
  [][\A f \in Fps :
       /\ Flips(f) => f \in alerts' /\ ~(issue'[f].releases \subseteq issue[f].resolved)
       /\ f \in alerts' \ alerts => Flips(f)]_vars

Waits(p, q) ==
  step[p] = "waiting" /\ \E f \in Fps : NextFp(p, f) /\ owner[f] = q

\* "issue rows are locked in this order until commit": two envelopes never wait
\* for each other's issues.
NoEnvelopeDeadlock ==
  \A p, q \in Senders : p # q => ~(Waits(p, q) /\ Waits(q, p))
=============================================================================
