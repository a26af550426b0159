--------------------------- MODULE JobQueueProofs ---------------------------
(***************************************************************************)
(* Proofs about JobQueue, for any row ids, keys, finite set of workers,    *)
(* attempts bound and batch size.                                          *)
(***************************************************************************)
EXTENDS JobQueue, FiniteSetTheorems, TLAPS

-----------------------------------------------------------------------------
(* Type correctness. *)

\* The columns are well typed: the part of TypeOK that statements write.
RowsOK ==
  /\ key \in [Ids -> Keys]
  /\ lock \in [Ids -> {"absent", "free", "live", "expired"}]
  /\ attempts \in [Ids -> 0..MaxAttempts]
  /\ due \in [Ids -> BOOLEAN]
  /\ holder \in [Ids -> SUBSET Workers]
  /\ charged \in [Ids -> Int]

WorkersOK ==
  /\ mode \in [Workers -> {"up", "stopping"}]
  /\ todo \in [Workers -> SUBSET Ids]
  /\ cur \in [Workers -> Ids \cup {NoId}]
  /\ phase \in [Workers -> {"none", "running", "ok", "failed", "cancelled"}]
  /\ inLease \in [Workers -> BOOLEAN]
  /\ \A w \in Workers : cur[w] = NoId <=> phase[w] = "none"

\* Every statement that removes, retries or releases a row, whatever id it is
\* given, leaves the columns well typed.
LEMMA StatementsKeepTypes ==
  ASSUME RowsOK, NEW id \in Ids, NEW started \in BOOLEAN,
         Remove(id) \/ RetryJob(id) \/ ReleaseJob(id, started)
  PROVE  RowsOK'
<1> USE JobQueueAssumption DEF RowsOK
<1>1. CASE Remove(id)
  BY <1>1 DEF Remove
<1>2. CASE RetryJob(id)
  BY <1>2 DEF RetryJob, Present
<1>3. CASE Uncount(id, started)
  <2>1. attempts' \in [Ids -> 0..MaxAttempts]
    BY <1>3 DEF Uncount
  <2>2. charged' \in [Ids -> Int]
    BY <1>3 DEF Uncount
  <2> QED BY <2>1, <2>2, <1>3 DEF Uncount
<1>4. CASE ReleaseJob(id, started)
  BY <1>1, <1>3, <1>4 DEF ReleaseJob
<1> QED BY <1>1, <1>2, <1>4

LEMMA TypeInit == Init => TypeOK
  BY JobQueueAssumption DEF Init, TypeOK

\* A step of any operation keeps the types.
LEMMA TypeStep ==
  ASSUME TypeOK, Next PROVE TypeOK'
<1>0. RowsOK /\ WorkersOK
  BY DEF TypeOK, RowsOK, WorkersOK
<1>1. SUFFICES RowsOK' /\ WorkersOK'
  BY DEF TypeOK, RowsOK, WorkersOK
<1> USE JobQueueAssumption
<1>2. ASSUME NEW k \in Keys, NEW soon \in BOOLEAN, EnqueueJob(k, soon)
      PROVE  RowsOK' /\ WorkersOK'
  <2>1. CASE PullForward(k, soon)
    BY <1>0, <1>2, <2>1 DEF EnqueueJob, PullForward, workerVars, RowsOK, WorkersOK
  <2>2. CASE InsertJob(k, soon)
    BY <1>0, <1>2, <2>2 DEF EnqueueJob, InsertJob, workerVars, RowsOK, WorkersOK
  <2> QED BY <1>2, <2>1, <2>2 DEF EnqueueJob
<1>3. CASE ExpireJobs
  <2>1. PICK id \in Ids : Remove(id)
    BY <1>3 DEF ExpireJobs
  <2> QED BY <1>0, <1>3, <2>1, StatementsKeepTypes DEF ExpireJobs, workerVars, WorkersOK
<1>4. ASSUME NEW w \in Workers, NEW S \in SUBSET Ids, ClaimJobs(w, S)
      PROVE  RowsOK' /\ WorkersOK'
  <2>1. attempts' \in [Ids -> 0..MaxAttempts]
    BY <1>0, <1>4 DEF ClaimJobs, Claimable, Pending, RowsOK
  <2> QED BY <1>0, <1>4, <2>1 DEF ClaimJobs, RowsOK, WorkersOK
<1>5. ASSUME NEW w \in Workers, NEW id \in Ids, StartJob(w, id)
      PROVE  RowsOK' /\ WorkersOK'
  <2>1. charged' \in [Ids -> Int]
    BY <1>0, <1>5 DEF StartJob, RowsOK
  <2> QED BY <1>0, <1>5, <2>1 DEF StartJob, rowVars, RowsOK, WorkersOK
<1>6. ASSUME NEW w \in Workers, NEW id \in Ids, NEW ok \in BOOLEAN, DropUnknown(w, id, ok)
      PROVE  RowsOK' /\ WorkersOK'
  <2>1. RowsOK'
    <3>1. CASE ok
      BY <1>0, <1>6, <3>1, StatementsKeepTypes DEF DropUnknown, DeleteJob
    <3>2. CASE ~ok
      BY <1>0, <1>6, <3>2 DEF DropUnknown, rowVars, RowsOK
    <3> QED BY <3>1, <3>2
  <2> QED BY <1>0, <1>6, <2>1 DEF DropUnknown, WorkersOK
<1>7. ASSUME NEW w \in Workers, NEW outcome \in {"ok", "failed", "cancelled"}, FinishJob(w, outcome)
      PROVE  RowsOK' /\ WorkersOK'
  BY <1>0, <1>7 DEF FinishJob, Running, rowVars, RowsOK, WorkersOK
<1>8. ASSUME NEW w \in Workers, RecordOutcome(w)
      PROVE  RowsOK' /\ WorkersOK'
  <2>0. cur[w] \in Ids
    BY <1>0, <1>8 DEF RecordOutcome, WorkersOK
  <2>1. RowsOK'
    BY <1>0, <1>8, <2>0, StatementsKeepTypes DEF RecordOutcome, DeleteJob
  <2> QED BY <1>0, <1>8, <2>1 DEF RecordOutcome, ClearCurrent, WorkersOK
<1>9. ASSUME NEW w \in Workers, RecordError(w)
      PROVE  RowsOK' /\ WorkersOK'
  BY <1>0, <1>9 DEF RecordError, ClearCurrent, rowVars, RowsOK, WorkersOK
<1>10. ASSUME NEW w \in Workers, NEW id \in Ids, NEW ok \in BOOLEAN, HandBack(w, id, ok)
       PROVE  RowsOK' /\ WorkersOK'
  <2>1. RowsOK'
    <3>1. CASE ok
      BY <1>0, <1>10, <3>1, StatementsKeepTypes DEF HandBack
    <3>2. CASE ~ok
      BY <1>0, <1>10, <3>2 DEF HandBack, rowVars, RowsOK
    <3> QED BY <3>1, <3>2
  <2> QED BY <1>0, <1>10, <2>1 DEF HandBack, WorkersOK
<1>11. ASSUME NEW w \in Workers, Stop(w) \/ Boot(w) \/ Crash(w) \/ LeaseEnds(w)
       PROVE  RowsOK' /\ WorkersOK'
  <2>1. CASE Stop(w) \/ Boot(w)
    BY <1>0, <2>1 DEF Stop, Boot, rowVars, RowsOK, WorkersOK
  <2>2. CASE Crash(w)
    BY <1>0, <2>2 DEF Crash, RowsOK, WorkersOK
  <2>3. CASE LeaseEnds(w)
    <3>1. RowsOK'
      BY <1>0, <2>3 DEF LeaseEnds, RowsOK
    <3>2. WorkersOK'
      BY <1>0, <2>3 DEF LeaseEnds, WorkersOK
    <3> QED BY <3>1, <3>2
  <2> QED BY <1>11, <2>1, <2>2, <2>3
<1>12. ASSUME NEW id \in Ids, BecomeDue(id) \/ OrphanLeaseEnds(id)
       PROVE  RowsOK' /\ WorkersOK'
  BY <1>0, <1>12 DEF BecomeDue, OrphanLeaseEnds, workerVars, RowsOK, WorkersOK
<1> QED
  BY <1>2, <1>3, <1>4, <1>5, <1>6, <1>7, <1>8, <1>9, <1>10, <1>11, <1>12 DEF Next

\* TypeOK: the columns of jobs and the worker's variables keep their types,
\* and attempts never passes the bound of jobs_pending.
THEOREM TypeCorrect == Spec => []TypeOK
<1>1. TypeOK /\ UNCHANGED vars => TypeOK'
  BY DEF TypeOK, vars
<1>2. TypeOK /\ [Next]_vars => TypeOK'
  BY <1>1, TypeStep
<1> QED BY <1>2, TypeInit, PTL DEF Spec

-----------------------------------------------------------------------------
(* At most one live row per key, and what follows of the rows that vanish. *)

\* A step that makes no row live and changes no key keeps live rows unique.
LEMMA FewerLiveRows ==
  ASSUME OneLiveRow, UNCHANGED key, \A i \in Ids : Pending(i)' => Pending(i)
  PROVE  OneLiveRow'
  BY DEF OneLiveRow

\* A removed, retried or released row never becomes a second live one.
LEMMA StatementsKeepOneLive ==
  ASSUME TypeOK, OneLiveRow, NEW id \in Ids, NEW started \in BOOLEAN,
         Remove(id) \/ RetryJob(id) \/ ReleaseJob(id, started)
  PROVE  OneLiveRow'
<1> USE JobQueueAssumption
<1>1. CASE Remove(id)
  BY <1>1, FewerLiveRows DEF Remove, Pending, Present, TypeOK
<1>2. CASE RetryJob(id)
  BY <1>2, FewerLiveRows DEF RetryJob, Pending, Present, TypeOK
<1>3. CASE Uncount(id, started) /\ Rivals(id) = {}
  <2>1. \A j \in Ids \ {id} : Pending(j)' => Pending(j) /\ key[j] # key[id]
    BY <1>3 DEF Uncount, Rivals, Pending, Present, TypeOK
  <2>2. key' = key
    BY <1>3 DEF Uncount
  <2> QED BY <2>1, <2>2 DEF OneLiveRow
<1>4. CASE UNCHANGED <<key, lock, attempts, due, holder, charged>>
  BY <1>4 DEF OneLiveRow, Pending, Present
<1> QED BY <1>1, <1>2, <1>3, <1>4 DEF ReleaseJob

LEMMA OneLiveInit == Init => OneLiveRow
  BY DEF Init, OneLiveRow, Pending, Present

LEMMA OneLiveStep ==
  ASSUME TypeOK, OneLiveRow, Next PROVE OneLiveRow'
<1> USE JobQueueAssumption
<1>1. ASSUME NEW k \in Keys, NEW soon \in BOOLEAN, EnqueueJob(k, soon)
      PROVE  OneLiveRow'
  <2>1. CASE PullForward(k, soon)
    BY <2>1, FewerLiveRows DEF PullForward, Pending, Present
  <2>2. CASE InsertJob(k, soon)
    <3>1. \A i \in Ids : ~(Pending(i) /\ key[i] = k)
      BY <2>2 DEF InsertJob
    <3>2. PICK id \in Ids :
            key' = [key EXCEPT ![id] = k] /\ lock' = [lock EXCEPT ![id] = "free"]
              /\ attempts' = [attempts EXCEPT ![id] = 0]
      BY <2>2 DEF InsertJob
    <3>3. \A j \in Ids \ {id} : key'[j] = key[j] /\ (Pending(j)' <=> Pending(j))
      BY <3>2 DEF Pending, Present, TypeOK
    <3>4. key'[id] = k
      BY <3>2 DEF TypeOK
    <3> QED BY <3>1, <3>3, <3>4 DEF OneLiveRow
  <2> QED BY <1>1, <2>1, <2>2 DEF EnqueueJob
<1>2. CASE ExpireJobs
  BY <1>2, StatementsKeepOneLive DEF ExpireJobs
<1>3. ASSUME NEW w \in Workers, NEW S \in SUBSET Ids, ClaimJobs(w, S)
      PROVE  OneLiveRow'
  BY <1>3, FewerLiveRows DEF ClaimJobs, Claimable, Pending, Present, TypeOK
<1>4. ASSUME NEW w \in Workers, NEW id \in Ids, NEW ok \in BOOLEAN, DropUnknown(w, id, ok)
      PROVE  OneLiveRow'
  <2>1. CASE ok
    BY <1>4, <2>1, StatementsKeepOneLive DEF DropUnknown, DeleteJob
  <2>2. CASE ~ok
    BY <1>4, <2>2, FewerLiveRows DEF DropUnknown, rowVars, Pending, Present, TypeOK
  <2> QED BY <2>1, <2>2
<1>5. ASSUME NEW w \in Workers, RecordOutcome(w)
      PROVE  OneLiveRow'
  <2>1. cur[w] \in Ids
    BY <1>5 DEF RecordOutcome, TypeOK
  <2> QED BY <1>5, <2>1, StatementsKeepOneLive DEF RecordOutcome, DeleteJob
<1>6. ASSUME NEW w \in Workers, NEW id \in Ids, NEW ok \in BOOLEAN, HandBack(w, id, ok)
      PROVE  OneLiveRow'
  <2>1. ReleaseJob(id, FALSE) \/ UNCHANGED <<rowVars, charged>>
    BY <1>6 DEF HandBack
  <2>2. CASE ReleaseJob(id, FALSE)
    BY <2>2, StatementsKeepOneLive
  <2>3. CASE UNCHANGED <<rowVars, charged>>
    BY <2>3 DEF rowVars, OneLiveRow, Pending, Present
  <2> QED BY <2>1, <2>2, <2>3
<1>7. ASSUME NEW w \in Workers, Crash(w) \/ LeaseEnds(w)
      PROVE  OneLiveRow'
  BY <1>7, FewerLiveRows DEF Crash, LeaseEnds, Pending, Present, TypeOK
<1>8. ASSUME NEW id \in Ids, BecomeDue(id) \/ OrphanLeaseEnds(id)
      PROVE  OneLiveRow'
  BY <1>8, FewerLiveRows DEF BecomeDue, OrphanLeaseEnds, Pending, Present, TypeOK
<1>9. CASE UNCHANGED <<key, lock, attempts>>
  BY <1>9 DEF OneLiveRow, Pending, Present
<1>10. ASSUME NEW w \in Workers, NEW id \in Ids, StartJob(w, id) PROVE OneLiveRow'
  BY <1>10, <1>9 DEF StartJob, rowVars
<1>11. ASSUME NEW w \in Workers, NEW outcome, FinishJob(w, outcome) PROVE OneLiveRow'
  BY <1>11, <1>9 DEF FinishJob, rowVars
<1>12. ASSUME NEW w \in Workers, RecordError(w) \/ Stop(w) \/ Boot(w) PROVE OneLiveRow'
  BY <1>12, <1>9 DEF RecordError, Stop, Boot, rowVars
<1> QED
  BY <1>1, <1>2, <1>3, <1>4, <1>5, <1>6, <1>7, <1>8, <1>10, <1>11, <1>12 DEF Next

\* OneLiveRow: the rows of one (kind, project_id, args) never hold two live
\* ones, for any number of rows, workers and attempts.
THEOREM LiveRowUnique == Spec => []OneLiveRow
<1>1. TypeOK /\ OneLiveRow /\ UNCHANGED vars => OneLiveRow'
  BY DEF OneLiveRow, Pending, Present, vars
<1>2. TypeOK /\ OneLiveRow /\ [Next]_vars => OneLiveRow'
  BY <1>1, OneLiveStep
<1> QED BY <1>2, OneLiveInit, TypeCorrect, PTL DEF Spec

-----------------------------------------------------------------------------
(* The handler starts of a row are bounded.  Claims are paid for in advance: *)
(* a claim counts an attempt, and each worker that still has the row in its  *)
(* batch may yet start the handler.                                          *)

Queued(id) == {w \in Workers : id \in todo[w]}
Load(id)   == Cardinality(Queued(id))

\* The strengthening: starts made and starts still possible are all paid for.
Counted(id) ==
  IF Present(id) THEN charged[id] + Load(id) <= attempts[id]
  ELSE charged[id] = 0 /\ attempts[id] = 0

Paid == \A id \in Ids : Counted(id)

LEMMA LoadType == ASSUME NEW id PROVE IsFiniteSet(Queued(id)) /\ Load(id) \in Nat
<1>1. IsFiniteSet(Queued(id))
  BY JobQueueAssumption, FS_Subset DEF Queued
<1> QED BY <1>1, FS_CardinalityType DEF Load

LEMMA LoadTypePrime == ASSUME NEW id PROVE IsFiniteSet(Queued(id)') /\ Load(id)' \in Nat
<1>1. IsFiniteSet(Queued(id)')
  BY JobQueueAssumption, FS_Subset DEF Queued
<1> QED BY <1>1, FS_CardinalityType DEF Load

LEMMA LoadFewer ==
  ASSUME NEW id, Queued(id)' \subseteq Queued(id) PROVE Load(id)' <= Load(id)
  BY LoadType, FS_Subset DEF Load

LEMMA LoadDrop ==
  ASSUME NEW id, NEW w \in Queued(id), Queued(id)' = Queued(id) \ {w}
  PROVE  Load(id)' = Load(id) - 1
  BY LoadType, FS_RemoveElement DEF Load

LEMMA LoadAdd ==
  ASSUME NEW id, NEW w, Queued(id)' \subseteq Queued(id) \cup {w}
  PROVE  Load(id)' <= Load(id) + 1
<1>1. IsFiniteSet(Queued(id) \cup {w}) /\ Cardinality(Queued(id) \cup {w}) <= Load(id) + 1
  BY LoadType, FS_AddElement DEF Load
<1>2. Load(id)' <= Cardinality(Queued(id) \cup {w})
  BY <1>1, FS_Subset DEF Load
<1> QED
  BY <1>1, <1>2, LoadType, LoadTypePrime, FS_CardinalityType

\* Nothing about the row changes and nobody queues it anew.
LEMMA SameRowPaid ==
  ASSUME TypeOK, NEW id \in Ids, Counted(id),
         Present(id)' <=> Present(id), attempts'[id] = attempts[id],
         charged'[id] = charged[id], Load(id)' <= Load(id)
  PROVE  Counted(id)'
  BY LoadType, LoadTypePrime DEF Counted, TypeOK

\* A removed, retried or released row stays paid for: an attempt is given back
\* only with the start it paid for (started) or by the worker that will not
\* make it (~started).
LEMMA StatementsKeepPaid ==
  ASSUME TypeOK, Paid, NEW id \in Ids, NEW started \in BOOLEAN,
         Remove(id) \/ RetryJob(id) \/ ReleaseJob(id, started),
         \A j \in Ids : Load(j)' <= Load(j),
         ~started => Load(id)' = Load(id) - 1
  PROVE  Paid'
<1> SUFFICES ASSUME NEW j \in Ids PROVE Counted(j)'
  BY DEF Paid
<1>0. Counted(j) /\ Load(j)' <= Load(j) /\ Load(j) \in Nat /\ Load(j)' \in Nat
  BY LoadType, LoadTypePrime DEF Paid
<1>1. CASE Remove(id)
  <2>1. CASE j = id
    BY <1>1, <2>1 DEF Remove, Counted, Present, TypeOK
  <2>2. CASE j # id
    BY <1>0, <1>1, <2>2, SameRowPaid DEF Remove, Present, TypeOK
  <2> QED BY <2>1, <2>2
<1>2. CASE RetryJob(id)
  BY <1>0, <1>2, SameRowPaid DEF RetryJob, Present, TypeOK
<1>3. CASE Uncount(id, started) /\ lock[id] = "live"
  <2>1. CASE j # id
    BY <1>0, <1>3, <2>1, SameRowPaid DEF Uncount, Present, TypeOK
  <2>2. CASE j = id
    <3>1. Present(id)' /\ charged[id] + Load(id) <= attempts[id]
      BY <1>0, <1>3, <2>2 DEF Uncount, Counted, Present, TypeOK
    <3>2. attempts'[id] = (IF attempts[id] > 0 THEN attempts[id] - 1 ELSE 0)
      BY <1>3 DEF Uncount, TypeOK
    <3>3. charged'[id] = (IF started THEN charged[id] - 1 ELSE charged[id])
      BY <1>3 DEF Uncount, TypeOK
    <3>4. attempts[id] \in Nat /\ charged[id] \in Int
      BY JobQueueAssumption DEF TypeOK
    <3>5. charged'[id] + Load(id)' <= attempts'[id]
      BY <1>0, <2>2, <3>1, <3>2, <3>3, <3>4
    <3> QED BY <2>2, <3>1, <3>5 DEF Counted
  <2> QED BY <2>1, <2>2
<1>4. CASE UNCHANGED <<key, lock, attempts, due, holder, charged>>
  BY <1>0, <1>4, SameRowPaid DEF Present
<1> QED BY <1>1, <1>2, <1>3, <1>4 DEF ReleaseJob

LEMMA PaidInit == Init => Paid
<1> SUFFICES ASSUME Init, NEW id \in Ids PROVE Counted(id)
  BY DEF Paid
<1> QED BY DEF Init, Counted, Present

\* Batches and rows as they are: an unchanged or shrinking batch queues nothing.
LEMMA BatchesShrink ==
  ASSUME \A w \in Workers : todo'[w] \subseteq todo[w]
  PROVE  \A j \in Ids : Load(j)' <= Load(j)
<1> TAKE j \in Ids
<1>1. Queued(j)' \subseteq Queued(j)
  BY DEF Queued
<1> QED BY <1>1, LoadFewer

LEMMA PaidStep ==
  ASSUME TypeOK, Paid, Next PROVE Paid'
<1> USE JobQueueAssumption
<1>0. ASSUME UNCHANGED <<lock, attempts, charged>>, \A w \in Workers : todo'[w] \subseteq todo[w]
      PROVE  Paid'
  BY <1>0, BatchesShrink, SameRowPaid DEF Paid, Present
<1>1. ASSUME NEW k \in Keys, NEW soon \in BOOLEAN, EnqueueJob(k, soon)
      PROVE  Paid'
  <2>1. CASE PullForward(k, soon)
    BY <1>0, <1>1, <2>1 DEF EnqueueJob, PullForward, workerVars
  <2>2. CASE InsertJob(k, soon)
    <3>1. PICK id \in Ids :
            /\ Fresh(id) /\ lock' = [lock EXCEPT ![id] = "free"]
            /\ attempts' = [attempts EXCEPT ![id] = 0]
            /\ charged' = [charged EXCEPT ![id] = 0]
      BY <2>2 DEF InsertJob
    <3>2. UNCHANGED todo
      BY <1>1 DEF EnqueueJob, workerVars
    <3> SUFFICES ASSUME NEW j \in Ids PROVE Counted(j)'
      BY DEF Paid
    <3>3. Load(j)' <= Load(j)
      BY <3>2, BatchesShrink
    <3>4. CASE j = id
      <4>1. Queued(id)' = {}
        BY <3>1, <3>2 DEF Fresh, Holds, Queued
      <4>2. Load(id)' = 0
        BY <4>1, FS_EmptySet DEF Load
      <4> QED BY <3>1, <3>4, <4>2 DEF Counted, Present, TypeOK
    <3>5. CASE j # id
      BY <3>1, <3>3, <3>5, SameRowPaid DEF Paid, Present, TypeOK
    <3> QED BY <3>4, <3>5
  <2> QED BY <1>1, <2>1, <2>2 DEF EnqueueJob
<1>2. CASE ExpireJobs
  <2>1. PICK id \in Ids : Remove(id)
    BY <1>2 DEF ExpireJobs
  <2>2. \A j \in Ids : Load(j)' <= Load(j)
    BY <1>2, BatchesShrink DEF ExpireJobs, workerVars
  <2> QED BY <2>1, <2>2, StatementsKeepPaid
<1>3. ASSUME NEW w \in Workers, NEW S \in SUBSET Ids, ClaimJobs(w, S)
      PROVE  Paid'
  <2> SUFFICES ASSUME NEW j \in Ids PROVE Counted(j)'
    BY DEF Paid
  <2>1. todo' = [todo EXCEPT ![w] = S] /\ todo[w] = {}
    BY <1>3 DEF ClaimJobs, Idle
  <2>2. Load(j) \in Nat /\ Load(j)' \in Nat /\ Counted(j)
    BY LoadType, LoadTypePrime DEF Paid
  <2>3. CASE j \in S
    <3>1. Queued(j)' \subseteq Queued(j) \cup {w}
      BY <2>1 DEF Queued, TypeOK
    <3>2. Load(j)' <= Load(j) + 1
      BY <3>1, LoadAdd
    <3>3. Present(j) /\ Present(j)' /\ attempts'[j] = attempts[j] + 1 /\ charged'[j] = charged[j]
      BY <1>3, <2>3 DEF ClaimJobs, Claimable, Pending, Present, TypeOK
    <3>4. attempts[j] \in Nat /\ charged[j] \in Int
      BY DEF TypeOK
    <3>5. charged[j] + Load(j) <= attempts[j]
      BY <2>2, <3>3 DEF Counted
    <3>6. charged'[j] + Load(j)' <= attempts'[j]
      BY <2>2, <3>2, <3>3, <3>4, <3>5
    <3> QED BY <3>3, <3>6 DEF Counted
  <2>4. CASE j \notin S
    <3>1. Queued(j)' \subseteq Queued(j)
      BY <2>1, <2>4 DEF Queued, TypeOK
    <3>2. Load(j)' <= Load(j)
      BY <3>1, LoadFewer
    <3> QED BY <1>3, <2>2, <2>4, <3>2, SameRowPaid DEF ClaimJobs, Present, TypeOK
  <2> QED BY <2>3, <2>4
<1>4. ASSUME NEW w \in Workers, NEW id \in Ids, StartJob(w, id)
      PROVE  Paid'
  <2> SUFFICES ASSUME NEW j \in Ids PROVE Counted(j)'
    BY DEF Paid
  <2>1. todo' = [todo EXCEPT ![w] = @ \ {id}] /\ id \in todo[w]
    BY <1>4 DEF StartJob
  <2>2. Load(j) \in Nat /\ Load(j)' \in Nat /\ Counted(j)
    BY LoadType, LoadTypePrime DEF Paid
  <2>3. UNCHANGED <<lock, attempts>>
    BY <1>4 DEF StartJob, rowVars
  <2>4. CASE j = id
    <3>1. w \in Queued(id) /\ Queued(id)' = Queued(id) \ {w}
      BY <2>1 DEF Queued, TypeOK
    <3>2. Load(id)' = Load(id) - 1
      BY <3>1, LoadDrop
    <3>3. charged'[id] = (IF Present(id) THEN charged[id] + 1 ELSE charged[id])
      BY <1>4 DEF StartJob, TypeOK
    <3>4. attempts[id] \in Nat /\ charged[id] \in Int
      BY DEF TypeOK
    <3> QED BY <2>2, <2>3, <2>4, <3>2, <3>3, <3>4 DEF Counted, Present
  <2>5. CASE j # id
    <3>1. Queued(j)' \subseteq Queued(j)
      BY <2>1, <2>5 DEF Queued, TypeOK
    <3>2. Load(j)' <= Load(j)
      BY <3>1, LoadFewer
    <3>3. charged'[j] = charged[j]
      BY <1>4, <2>5 DEF StartJob, TypeOK
    <3> QED BY <2>2, <2>3, <3>2, <3>3, SameRowPaid DEF Present
  <2> QED BY <2>4, <2>5
<1>5. ASSUME NEW w \in Workers, NEW id \in Ids, NEW ok \in BOOLEAN, DropUnknown(w, id, ok)
      PROVE  Paid'
  <2>1. \A j \in Ids : Load(j)' <= Load(j)
    BY <1>5, BatchesShrink DEF DropUnknown, TypeOK
  <2>2. CASE ok
    BY <1>5, <2>1, <2>2, StatementsKeepPaid DEF DropUnknown, DeleteJob
  <2>3. CASE ~ok
    BY <1>0, <1>5, <2>3 DEF DropUnknown, rowVars, TypeOK
  <2> QED BY <2>2, <2>3
<1>6. ASSUME NEW w \in Workers, RecordOutcome(w)
      PROVE  Paid'
  <2>1. cur[w] \in Ids
    BY <1>6 DEF RecordOutcome, TypeOK
  <2>2. \A j \in Ids : Load(j)' <= Load(j)
    BY <1>6, BatchesShrink DEF RecordOutcome, ClearCurrent
  <2>3. Remove(cur[w]) \/ RetryJob(cur[w]) \/ ReleaseJob(cur[w], TRUE)
    BY <1>6 DEF RecordOutcome, DeleteJob
  <2> QED BY <2>1, <2>2, <2>3, StatementsKeepPaid
<1>7. ASSUME NEW w \in Workers, NEW id \in Ids, NEW ok \in BOOLEAN, HandBack(w, id, ok)
      PROVE  Paid'
  <2>1. todo' = [todo EXCEPT ![w] = @ \ {id}] /\ id \in todo[w]
    BY <1>7 DEF HandBack
  <2>2. w \in Queued(id) /\ Queued(id)' = Queued(id) \ {w}
    BY <2>1 DEF Queued, TypeOK
  <2>3. Load(id)' = Load(id) - 1
    BY <2>2, LoadDrop
  <2>4. CASE ReleaseJob(id, FALSE)
    <3>1. \A j \in Ids : Load(j)' <= Load(j)
      BY <2>1, BatchesShrink DEF TypeOK
    <3> QED BY <2>3, <2>4, <3>1, StatementsKeepPaid
  <2>5. CASE UNCHANGED <<rowVars, charged>>
    BY <1>0, <2>1, <2>5 DEF rowVars, TypeOK
  <2> QED BY <1>7, <2>4, <2>5 DEF HandBack
<1>8. ASSUME NEW w \in Workers, NEW outcome, FinishJob(w, outcome) PROVE Paid'
  BY <1>0, <1>8 DEF FinishJob, rowVars
<1>9. ASSUME NEW w \in Workers, RecordError(w) \/ Stop(w) \/ Boot(w) PROVE Paid'
  BY <1>0, <1>9 DEF RecordError, ClearCurrent, Stop, Boot, rowVars
<1>10. ASSUME NEW w \in Workers, Crash(w) PROVE Paid'
  BY <1>0, <1>10 DEF Crash, TypeOK
<1>11. ASSUME UNCHANGED <<attempts, charged, todo>>, \A id \in Ids : Present(id)' <=> Present(id)
       PROVE  Paid'
  BY <1>11, BatchesShrink, SameRowPaid DEF Paid
<1>12. ASSUME NEW w \in Workers, LeaseEnds(w) PROVE Paid'
  BY <1>11, <1>12 DEF LeaseEnds, Present, TypeOK
<1>13. ASSUME NEW id \in Ids, BecomeDue(id) \/ OrphanLeaseEnds(id) PROVE Paid'
  BY <1>11, <1>13 DEF BecomeDue, OrphanLeaseEnds, workerVars, Present, TypeOK
<1> QED
  BY <1>1, <1>2, <1>3, <1>4, <1>5, <1>6, <1>7, <1>8, <1>9, <1>10, <1>12, <1>13 DEF Next

\* StartsBounded: whatever leases expire and workers crash, a row's handler is
\* started at most as often as its attempts, hence MaxAttempts times at most.
THEOREM StartsAreBounded == Spec => []StartsBounded
<1>1. TypeOK /\ Paid /\ UNCHANGED vars => Paid'
  <2> SUFFICES ASSUME TypeOK, Paid, UNCHANGED vars, NEW id \in Ids PROVE Counted(id)'
    BY DEF Paid
  <2>1. Load(id)' <= Load(id)
    BY BatchesShrink DEF vars
  <2> QED BY <2>1, SameRowPaid DEF Paid, Present, vars
<1>2. TypeOK /\ Paid /\ [Next]_vars => Paid'
  BY <1>1, PaidStep
<1>3. TypeOK /\ Paid => StartsBounded
  <2> SUFFICES ASSUME TypeOK, Paid, NEW id \in Ids PROVE charged[id] <= attempts[id]
    BY DEF StartsBounded
  <2>1. attempts[id] \in Nat /\ charged[id] \in Int
    BY JobQueueAssumption DEF TypeOK
  <2> QED BY <2>1, LoadType DEF Paid, Counted
<1> QED BY <1>2, <1>3, PaidInit, TypeCorrect, PTL DEF Spec

-----------------------------------------------------------------------------
(* No row vanishes silently. *)

\* NoSilentDrop: the row a hand-back drops is never a live one, because live
\* rows are unique; so a live row goes only by success or for want of a handler.
THEOREM NothingDroppedSilently == Spec => NoSilentDrop
<1> DEFINE Justified ==
      \A id \in Ids : (Pending(id) /\ lock'[id] = "absent") =>
        \/ \E w \in Workers : cur[w] = id /\ phase[w] = "ok" /\ cur'[w] = NoId
        \/ key[id] \in Unhandled
<1>1. ASSUME TypeOK, OneLiveRow, Next PROVE Justified
  <2> SUFFICES ASSUME NEW id \in Ids, Pending(id), lock'[id] = "absent"
               PROVE  \/ \E w \in Workers : cur[w] = id /\ phase[w] = "ok" /\ cur'[w] = NoId
                      \/ key[id] \in Unhandled
    OBVIOUS
  <2> USE <1>1, JobQueueAssumption
  <2>0. lock[id] # "absent" /\ attempts[id] < MaxAttempts /\ attempts[id] \in Nat
    BY DEF Pending, Present, TypeOK
  <2>1. ASSUME NEW k \in Keys, NEW soon \in BOOLEAN, EnqueueJob(k, soon) PROVE FALSE
    BY <2>0, <2>1 DEF EnqueueJob, PullForward, InsertJob, TypeOK
  <2>2. ASSUME ExpireJobs PROVE FALSE
    <3>1. PICK j \in Ids : attempts[j] >= MaxAttempts /\ lock' = [lock EXCEPT ![j] = "absent"]
      BY <2>2 DEF ExpireJobs, Remove
    <3>2. j # id
      BY <2>0, <3>1
    <3> QED BY <2>0, <3>1, <3>2 DEF TypeOK
  <2>3. ASSUME NEW w \in Workers, NEW S \in SUBSET Ids, ClaimJobs(w, S) PROVE FALSE
    BY <2>0, <2>3 DEF ClaimJobs
  <2>4. ASSUME NEW w \in Workers, NEW j \in Ids, NEW ok \in BOOLEAN, DropUnknown(w, j, ok)
        PROVE  key[id] \in Unhandled
    BY <2>0, <2>4 DEF DropUnknown, DeleteJob, Remove, rowVars, TypeOK
  <2>5. ASSUME NEW j \in Ids, NEW started \in BOOLEAN, ReleaseJob(j, started) PROVE FALSE
    <3>1. CASE Rivals(j) # {} /\ Remove(j)
      <4>1. j = id
        BY <2>0, <3>1 DEF Remove, TypeOK
      <4> QED BY <3>1, <4>1 DEF Rivals, OneLiveRow
    <3>2. CASE Uncount(j, started)
      BY <2>0, <3>2 DEF Uncount, TypeOK
    <3>3. CASE UNCHANGED lock
      BY <2>0, <3>3
    <3> QED BY <2>5, <3>1, <3>2, <3>3 DEF ReleaseJob
  <2>6. ASSUME NEW w \in Workers, RecordOutcome(w)
        PROVE  cur[w] = id /\ phase[w] = "ok" /\ cur'[w] = NoId
    <3>1. cur[w] \in Ids
      BY <2>6 DEF RecordOutcome, TypeOK
    <3>2. CASE phase[w] = "ok" /\ DeleteJob(cur[w])
      BY <2>0, <2>6, <3>1, <3>2 DEF RecordOutcome, ClearCurrent, DeleteJob, Remove, TypeOK
    <3>3. CASE RetryJob(cur[w])
      BY <2>0, <3>1, <3>3 DEF RetryJob, TypeOK
    <3>4. CASE ReleaseJob(cur[w], TRUE)
      BY <2>5, <3>1, <3>4
    <3> QED BY <2>6, <3>2, <3>3, <3>4 DEF RecordOutcome
  <2>7. ASSUME NEW w \in Workers, NEW j \in Ids, NEW ok \in BOOLEAN, HandBack(w, j, ok) PROVE FALSE
    <3>1. CASE ReleaseJob(j, FALSE)
      BY <2>5, <3>1
    <3>2. CASE UNCHANGED rowVars
      BY <2>0, <3>2 DEF rowVars
    <3> QED BY <2>7, <3>1, <3>2 DEF HandBack
  <2>8. ASSUME NEW w \in Workers, NEW j \in Ids, StartJob(w, j) PROVE FALSE
    BY <2>0, <2>8 DEF StartJob, rowVars
  <2>9. ASSUME NEW w \in Workers, NEW outcome, FinishJob(w, outcome) PROVE FALSE
    BY <2>0, <2>9 DEF FinishJob, rowVars
  <2>10. ASSUME NEW w \in Workers, RecordError(w) \/ Stop(w) \/ Boot(w) PROVE FALSE
    BY <2>0, <2>10 DEF RecordError, Stop, Boot, rowVars
  <2>11. ASSUME NEW w \in Workers, Crash(w) \/ LeaseEnds(w) PROVE FALSE
    BY <2>0, <2>11 DEF Crash, LeaseEnds
  <2>12. ASSUME NEW j \in Ids, BecomeDue(j) \/ OrphanLeaseEnds(j) PROVE FALSE
    BY <2>0, <2>12 DEF BecomeDue, OrphanLeaseEnds, TypeOK
  <2> QED
    BY <2>1, <2>2, <2>3, <2>4, <2>6, <2>7, <2>8, <2>9, <2>10, <2>11, <2>12 DEF Next
<1>2. TypeOK /\ OneLiveRow /\ [Next]_vars => [Justified]_vars
  BY <1>1
<1>3. Spec => [][Justified]_vars
  BY <1>2, TypeCorrect, LiveRowUnique, PTL DEF Spec
<1> QED BY <1>3 DEF NoSilentDrop

-----------------------------------------------------------------------------
(* When every outcome is recorded before its lease ends, a job has at most   *)
(* one worker.                                                               *)

\* The strengthening: a job is in one batch at a time, once, and while its row
\* exists the lease is live and that worker's.
Owned ==
  /\ \A w \in Workers, id \in Ids :
       (Holds(w, id) /\ Present(id)) => lock[id] = "live" /\ holder[id] = {w}
  /\ \A w, v \in Workers, id \in Ids : (Holds(w, id) /\ Holds(v, id)) => w = v
  /\ \A w \in Workers : cur[w] \notin todo[w]

LEMMA OwnedInit == Init => Owned
  BY JobQueueAssumption DEF Init, Owned, Holds, Present

\* A worker that records an outcome or hands a job back lets go of that job,
\* and the statement it runs touches that row alone.
LEMMA StatementsKeepOwned ==
  ASSUME TypeOK, Owned, NEW w \in Workers, NEW id \in Ids, NEW started \in BOOLEAN,
         Holds(w, id),
         Remove(id) \/ RetryJob(id) \/ ReleaseJob(id, started),
         ~Holds(w, id)', cur'[w] \notin todo'[w],
         \A v \in Workers, j \in Ids : Holds(v, j)' => Holds(v, j),
         \A v \in Workers \ {w} : cur'[v] = cur[v] /\ todo'[v] = todo[v]
  PROVE  Owned'
<1>1. \A j \in Ids \ {id} : lock'[j] = lock[j] /\ holder'[j] = holder[j]
  <2>1. CASE Remove(id)
    BY <2>1 DEF Remove, TypeOK
  <2>2. CASE RetryJob(id)
    BY <2>2 DEF RetryJob, TypeOK
  <2>3. CASE ReleaseJob(id, started)
    BY <2>3 DEF ReleaseJob, Remove, Uncount, TypeOK
  <2> QED BY <2>1, <2>2, <2>3
<1>2. \A v \in Workers : ~Holds(v, id)'
  BY DEF Owned
<1>3. \A v \in Workers, j \in Ids :
        (Holds(v, j)' /\ Present(j)') => lock'[j] = "live" /\ holder'[j] = {v}
  BY <1>1, <1>2 DEF Owned, Present
<1>4. \A v, u \in Workers, j \in Ids : (Holds(v, j)' /\ Holds(u, j)') => v = u
  BY DEF Owned
<1>5. \A v \in Workers : cur'[v] \notin todo'[v]
  BY DEF Owned
<1> QED BY <1>3, <1>4, <1>5 DEF Owned

\* Nobody takes a job, and the rows in somebody's hands keep their lease.
LEMMA FewerHeld ==
  ASSUME Owned, \A v \in Workers, j \in Ids : Holds(v, j)' => Holds(v, j),
         \A v \in Workers : cur'[v] \notin todo'[v],
         \A v \in Workers, j \in Ids : Holds(v, j)' /\ Present(j)' =>
            Present(j) /\ lock'[j] = lock[j] /\ holder'[j] = holder[j]
  PROVE  Owned'
  BY DEF Owned

LEMMA OwnedStep ==
  ASSUME Punctual, TypeOK, Owned, Next PROVE Owned'
<1> USE JobQueueAssumption
<1>1. ASSUME NEW k \in Keys, NEW soon \in BOOLEAN, EnqueueJob(k, soon)
      PROVE  Owned'
  <2>0. UNCHANGED <<cur, todo>>
    BY <1>1 DEF EnqueueJob, workerVars
  <2>1. CASE PullForward(k, soon)
    BY <2>0, <2>1, FewerHeld DEF PullForward, Owned, Holds, Present
  <2>2. CASE InsertJob(k, soon)
    <3>1. PICK id \in Ids :
            /\ Fresh(id) /\ lock' = [lock EXCEPT ![id] = "free"]
            /\ holder' = [holder EXCEPT ![id] = {}]
      BY <2>2 DEF InsertJob
    <3>2. \A v \in Workers, j \in Ids : Holds(v, j)' => Holds(v, j) /\ j # id
      BY <2>0, <3>1 DEF Fresh, Holds
    <3> QED BY <2>0, <3>1, <3>2, FewerHeld DEF Owned, Present, TypeOK
  <2> QED BY <1>1, <2>1, <2>2 DEF EnqueueJob
<1>2. CASE ExpireJobs
  <2>0. UNCHANGED <<cur, todo>>
    BY <1>2 DEF ExpireJobs, workerVars
  <2>1. PICK id \in Ids : Remove(id)
    BY <1>2 DEF ExpireJobs
  <2> QED BY <2>0, <2>1, FewerHeld DEF Remove, Owned, Holds, Present, TypeOK
<1>3. ASSUME NEW w \in Workers, NEW S \in SUBSET Ids, ClaimJobs(w, S)
      PROVE  Owned'
  <2>1. Idle(w) /\ cur' = cur /\ todo' = [todo EXCEPT ![w] = S]
    BY <1>3 DEF ClaimJobs
  <2>2. \A id \in S : Present(id) /\ lock[id] # "live"
    BY <1>3 DEF ClaimJobs, Claimable, Pending
  <2>3. \A v \in Workers, id \in S : ~Holds(v, id)
    BY <2>2 DEF Owned
  <2>4. \A id \in Ids : Holds(w, id)' <=> id \in S
    BY <2>1 DEF Idle, Holds, TypeOK
  <2>5. \A v \in Workers \ {w}, id \in Ids : Holds(v, id)' <=> Holds(v, id)
    BY <2>1 DEF Holds, TypeOK
  <2>6. \A id \in S : lock'[id] = "live" /\ holder'[id] = {w}
    BY <1>3 DEF ClaimJobs
  <2>7. \A id \in Ids \ S : lock'[id] = lock[id] /\ holder'[id] = holder[id] \ {w}
    BY <1>3 DEF ClaimJobs
  <2>8. \A v \in Workers, id \in Ids :
          (Holds(v, id)' /\ Present(id)') => lock'[id] = "live" /\ holder'[id] = {v}
    <3> SUFFICES ASSUME NEW v \in Workers, NEW id \in Ids, Holds(v, id)', Present(id)'
                 PROVE  lock'[id] = "live" /\ holder'[id] = {v}
      OBVIOUS
    <3>1. CASE v = w
      BY <2>4, <2>6, <3>1
    <3>2. CASE v # w
      BY <2>3, <2>5, <2>7, <3>2 DEF Owned, Present
    <3> QED BY <3>1, <3>2
  <2>9. \A v, u \in Workers, id \in Ids : (Holds(v, id)' /\ Holds(u, id)') => v = u
    BY <2>3, <2>4, <2>5 DEF Owned
  <2>10. \A v \in Workers : cur'[v] \notin todo'[v]
    BY <2>1 DEF Idle, Owned, TypeOK
  <2> QED BY <2>8, <2>9, <2>10 DEF Owned
<1>4. ASSUME NEW w \in Workers, NEW id \in Ids, StartJob(w, id)
      PROVE  Owned'
  <2>1. /\ todo' = [todo EXCEPT ![w] = @ \ {id}] /\ cur' = [cur EXCEPT ![w] = id]
        /\ UNCHANGED <<lock, holder>> /\ id \in todo[w]
    BY <1>4 DEF StartJob, rowVars
  <2>2. \A v \in Workers, j \in Ids : Holds(v, j)' => Holds(v, j)
    BY <2>1 DEF Holds, TypeOK
  <2>3. \A v \in Workers : cur'[v] \notin todo'[v]
    BY <2>1 DEF Owned, TypeOK
  <2> QED BY <2>1, <2>2, <2>3, FewerHeld DEF Present
<1>5. ASSUME NEW w \in Workers, NEW id \in Ids, NEW ok \in BOOLEAN, DropUnknown(w, id, ok)
      PROVE  Owned'
  <2>1. /\ todo' = [todo EXCEPT ![w] = @ \ {id}] /\ cur' = cur
        /\ id \in todo[w] /\ cur[w] = NoId
    BY <1>5 DEF DropUnknown
  <2>2. Holds(w, id) /\ ~Holds(w, id)'
    BY <2>1 DEF Holds, TypeOK
  <2>3. \A v \in Workers, j \in Ids : Holds(v, j)' => Holds(v, j)
    BY <2>1 DEF Holds, TypeOK
  <2>4. CASE ok
    BY <1>5, <2>1, <2>2, <2>3, <2>4, StatementsKeepOwned DEF DropUnknown, DeleteJob, Owned, TypeOK
  <2>5. CASE ~ok
    <3>1. UNCHANGED rowVars
      BY <1>5, <2>5 DEF DropUnknown
    <3> QED BY <2>1, <2>3, <3>1, FewerHeld DEF rowVars, Owned, Present, TypeOK
  <2> QED BY <2>4, <2>5
<1>6. ASSUME NEW w \in Workers, RecordOutcome(w)
      PROVE  Owned'
  <2>1. cur[w] \in Ids /\ cur' = [cur EXCEPT ![w] = NoId] /\ todo' = todo
    BY <1>6 DEF RecordOutcome, ClearCurrent, TypeOK
  <2>2. \A v \in Workers, j \in Ids : Holds(v, j)' => Holds(v, j)
    BY <2>1 DEF Holds, TypeOK
  <2>3. Remove(cur[w]) \/ RetryJob(cur[w]) \/ ReleaseJob(cur[w], TRUE)
    BY <1>6 DEF RecordOutcome, DeleteJob
  <2>4. ASSUME NEW id \in Ids, id = cur[w] PROVE Owned'
    <3>1. Holds(w, id) /\ ~Holds(w, id)' /\ cur'[w] \notin todo'[w]
      BY <2>1, <2>4 DEF Holds, Owned, TypeOK
    <3>2. \A v \in Workers \ {w} : cur'[v] = cur[v] /\ todo'[v] = todo[v]
      BY <2>1 DEF TypeOK
    <3>3. Remove(id) \/ RetryJob(id) \/ ReleaseJob(id, TRUE)
      BY <2>3, <2>4
    <3> QED BY <2>2, <3>1, <3>2, <3>3, StatementsKeepOwned
  <2> QED BY <2>1, <2>4
<1>7. ASSUME NEW w \in Workers, NEW id \in Ids, NEW ok \in BOOLEAN, HandBack(w, id, ok)
      PROVE  Owned'
  <2>1. /\ todo' = [todo EXCEPT ![w] = @ \ {id}] /\ cur' = cur
        /\ id \in todo[w] /\ cur[w] = NoId
    BY <1>7 DEF HandBack
  <2>2. Holds(w, id) /\ ~Holds(w, id)'
    BY <2>1 DEF Holds, TypeOK
  <2>3. \A v \in Workers, j \in Ids : Holds(v, j)' => Holds(v, j)
    BY <2>1 DEF Holds, TypeOK
  <2>4. CASE ReleaseJob(id, FALSE)
    <3>1. cur'[w] \notin todo'[w]
      BY <2>1 DEF TypeOK
    <3>2. \A v \in Workers \ {w} : cur'[v] = cur[v] /\ todo'[v] = todo[v]
      BY <2>1 DEF TypeOK
    <3> QED BY <2>2, <2>3, <2>4, <3>1, <3>2, StatementsKeepOwned
  <2>5. CASE UNCHANGED <<rowVars, charged>>
    BY <2>1, <2>3, <2>5, FewerHeld DEF rowVars, Owned, Present, TypeOK
  <2> QED BY <1>7, <2>4, <2>5 DEF HandBack
<1>8. ASSUME NEW w \in Workers, NEW outcome, FinishJob(w, outcome) \/ Stop(w) \/ Boot(w)
      PROVE  Owned'
  BY <1>8, FewerHeld DEF FinishJob, Stop, Boot, rowVars, Owned, Holds, Present
<1>9. ASSUME NEW w \in Workers, RecordError(w)
      PROVE  Owned'
  <2>1. cur' = [cur EXCEPT ![w] = NoId] /\ UNCHANGED <<todo, lock, holder>>
    BY <1>9 DEF RecordError, ClearCurrent, rowVars
  <2> QED BY <2>1, FewerHeld DEF Owned, Holds, Present, TypeOK
<1>10. ASSUME NEW w \in Workers, Crash(w)
       PROVE  Owned'
  <2>1. /\ cur' = [cur EXCEPT ![w] = NoId] /\ todo' = [todo EXCEPT ![w] = {}]
        /\ lock' = lock /\ holder' = [id \in Ids |-> holder[id] \ {w}]
    BY <1>10 DEF Crash
  <2>2. \A j \in Ids : ~Holds(w, j)'
    BY <2>1 DEF Holds, TypeOK
  <2>3. \A v \in Workers \ {w} : cur'[v] = cur[v] /\ todo'[v] = todo[v]
    BY <2>1 DEF TypeOK
  <2>4. \A v \in Workers, j \in Ids : Holds(v, j)' => v # w /\ Holds(v, j)
    BY <2>2, <2>3 DEF Holds
  <2>5. \A v \in Workers, j \in Ids :
          (Holds(v, j)' /\ Present(j)') => lock'[j] = "live" /\ holder'[j] = {v}
    BY <2>1, <2>4 DEF Owned, Present
  <2>6. \A v \in Workers : cur'[v] \notin todo'[v]
    BY <2>1 DEF Owned, TypeOK
  <2> QED BY <2>4, <2>5, <2>6 DEF Owned
<1>11. ASSUME NEW w \in Workers, LeaseEnds(w)
       PROVE  Owned'
  <2>1. /\ Idle(w) /\ UNCHANGED <<cur, todo>>
        /\ holder' = [id \in Ids |-> holder[id] \ {w}]
        /\ \A id \in Ids : (w \notin holder[id]) => lock'[id] = lock[id]
        /\ \A id \in Ids : Present(id)' => Present(id)
    BY <1>11 DEF LeaseEnds, Present, TypeOK
  <2>2. \A v \in Workers, j \in Ids : Holds(v, j)' => Holds(v, j) /\ v # w
    BY <2>1 DEF Idle, Holds, TypeOK
  <2>3. \A v \in Workers, j \in Ids :
          (Holds(v, j)' /\ Present(j)') => lock'[j] = "live" /\ holder'[j] = {v}
    BY <2>1, <2>2 DEF Owned
  <2> QED BY <2>1, <2>2, <2>3 DEF Owned
<1>12. ASSUME NEW id \in Ids, BecomeDue(id)
       PROVE  Owned'
  BY <1>12, FewerHeld DEF BecomeDue, workerVars, Owned, Holds, Present
<1>13. ASSUME NEW id \in Ids, OrphanLeaseEnds(id)
       PROVE  Owned'
  <2>1. \A v \in Workers : ~Holds(v, id)
    BY <1>13 DEF OrphanLeaseEnds, Owned, Present
  <2> QED BY <1>13, <2>1, FewerHeld DEF OrphanLeaseEnds, workerVars, Owned, Holds, Present, TypeOK
<1> QED
  BY <1>1, <1>2, <1>3, <1>4, <1>5, <1>6, <1>7, <1>8, <1>9, <1>10, <1>11, <1>12, <1>13 DEF Next

LEMMA AlwaysOwned ==
  ASSUME Punctual PROVE Spec => []Owned
<1>1. TypeOK /\ Owned /\ UNCHANGED vars => Owned'
  BY DEF Owned, Holds, Present, vars
<1>2. TypeOK /\ Owned /\ [Next]_vars => Owned'
  BY <1>1, OwnedStep
<1> QED BY <1>2, OwnedInit, TypeCorrect, PTL DEF Spec

\* OneRunner: if outcomes are always recorded before the lease ends (handlers
\* heed their deadline, and the statement that follows is quick enough), no two
\* workers ever run the handler of one row.
THEOREM OneRunnerWhenPunctual ==
  ASSUME Punctual PROVE Spec => []OneRunner
<1>1. TypeOK /\ Owned => OneRunner
  BY JobQueueAssumption DEF TypeOK, Owned, OneRunner, Running, Holds
<1> QED BY <1>1, AlwaysOwned, TypeCorrect, PTL

\* OnlyOwnLease: under the same condition a stale worker never frees the lease
\* of the worker that claimed the job after it.
THEOREM OwnLeaseWhenPunctual ==
  ASSUME Punctual PROVE Spec => OnlyOwnLease
<1> DEFINE Own ==
      \A w \in Workers, id \in Ids :
        (Holds(w, id) /\ ~(id \in todo'[w] \/ cur'[w] = id)
           /\ lock[id] = "live" /\ lock'[id] = "free") => w \in holder[id]
<1>1. Owned => [Own]_vars
  BY DEF Owned, Present
<1> QED BY <1>1, AlwaysOwned, PTL DEF OnlyOwnLease
=============================================================================
