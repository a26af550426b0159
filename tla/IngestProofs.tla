---------------------------- MODULE IngestProofs -----------------------------
(***************************************************************************)
(* Proofs about what arrives.  IssueIngest: for any number of events,      *)
(* envelopes, issues, ingests and symbolications, two envelopes never wait *)
(* for each other, and, as long as no event is handled by two processes at *)
(* a time, the counts of an issue are those of the events stored under it. *)
(* FrontDoor: keys, for any number of keys and requests and any lifetime   *)
(* of the cache.  Arrival: resent events, for any number of copies.        *)
(* Grouping: crashes and their fingerprints, for any frames, images and    *)
(* layouts.  Reports: sessions, releases and reports, for any envelopes.   *)
(* Envelope: the items of a request, for any items framed as clients do    *)
(* and any limits on one request.                                          *)
(***************************************************************************)
EXTENDS IssueIngest, FrontDoor, Arrival, Grouping, Reports, Envelope, DataTheorems

-----------------------------------------------------------------------------
(* IssueIngest. *)

Row == [status : Statuses, count : Nat, stored : Nat, releases : SUBSET Releases, resolved : SUBSET Releases]

IngestTypes ==
  /\ fpOf \in [Events -> Fps \cup {NoFp}]
  /\ issue \in [Fps -> Row]
  /\ owner \in [Fps -> Procs \cup {Nobody}]
  /\ step \in [Procs -> {"idle", "read", "upsert", "waiting"}]
  /\ \A p \in Procs : step[p] = "read" => p \in Movers /\ old[p] \in Fps
  /\ work \in [Procs -> SUBSET Events] /\ keep \in [Procs -> SUBSET Events]
  /\ old \in [Procs -> Fps \cup {NoFp}]
  /\ todo \in [Procs -> SUBSET Fps]
  /\ new \in [Procs -> [Fps -> Row]]

-----------------------------------------------------------------------------
(* Rows. *)

LEMMA UpsertedRow ==
  ASSUME NEW row \in Row, NEW n \in Nat, NEW k \in Nat, NEW rels \in SUBSET Releases, NEW regress \in BOOLEAN
  PROVE  LET up == Upserted(row, n, k, rels, regress) IN
         /\ up \in Row /\ up.status # "none" /\ up.count = row.count + n /\ up.stored = row.stored + k
<1> DEFINE st == IF row.status = "none" THEN "unresolved"
                 ELSE IF regress /\ row.status = "resolved" /\ ~(rels \subseteq row.resolved)
                 THEN "regression" ELSE row.status
           up == [row EXCEPT !.status = st, !.count = row.count + n, !.stored = row.stored + k,
                             !.releases = row.releases \cup rels]
<1>1. Upserted(row, n, k, rels, regress) = up
  BY DEF Upserted
<1>2. st \in Statuses /\ st # "none"
  BY DEF Row, Statuses
<1>3. row.count + n \in Nat /\ row.stored + k \in Nat /\ row.releases \cup rels \in SUBSET Releases
  BY DEF Row
<1> HIDE DEF st
<1>4. up \in Row /\ up.status = st /\ up.count = row.count + n /\ up.stored = row.stored + k
  BY <1>2, <1>3 DEF Row
<1> QED BY <1>1, <1>2, <1>4

LEMMA TakenRow ==
  ASSUME NEW row \in Row
  PROVE  LET t == Taken(row) IN
         /\ t \in Row
         /\ row.status # "none" /\ row.stored >= 1 /\ row.count >= row.stored =>
              /\ t.count = row.count - 1 /\ t.stored = row.stored - 1
              /\ t.stored > 0 => t.status # "none"
<1> DEFINE c == IF row.count > 0 THEN row.count - 1 ELSE 0
           k == IF row.stored > 0 THEN row.stored - 1 ELSE 0
           less == [row EXCEPT !.count = c, !.stored = k]
<1>1. Taken(row) = IF row.status = "none" THEN row
                   ELSE IF row.count <= 1 /\ row.status = "unresolved" THEN NoIssue ELSE less
  BY DEF Taken
<1>2. c \in Nat /\ k \in Nat
  BY DEF Row
<1>3. less \in Row /\ less.status = row.status /\ less.count = c /\ less.stored = k
  <2> HIDE DEF c, k
  <2> QED BY <1>2 DEF Row
<1>4. NoIssue \in Row /\ NoIssue.count = 0 /\ NoIssue.stored = 0
  BY DEF NoIssue, Row, Statuses
<1> HIDE DEF less
<1> QED BY <1>1, <1>3, <1>4 DEF Row

LEMMA WrittenRow ==
  ASSUME IngestTypes, NEW p \in Procs, NEW f \in Fps
  PROVE  /\ Written(p, f) \in Row
         /\ p \in Senders =>
              /\ Written(p, f).status # "none"
              /\ Written(p, f).count = issue[f].count + Cardinality(Group(p, f))
              /\ Written(p, f).stored = issue[f].stored + Cardinality(Group(p, f) \cap keep[p])
         /\ p \notin Senders /\ f # old[p] =>
              /\ Written(p, f).status # "none"
              /\ Written(p, f).count = issue[f].count + 1 /\ Written(p, f).stored = issue[f].stored + 1
         /\ p \notin Senders /\ f = old[p] => Written(p, f) = Taken(issue[f])
<1> DEFINE rels == {ReleaseOf[e] : e \in Group(p, f)}
           n == Cardinality(Group(p, f))
           k == Cardinality(Group(p, f) \cap keep[p])
<1>1. issue[f] \in Row
  BY DEF IngestTypes
<1>2. n \in Nat /\ k \in Nat
  <2>1. Group(p, f) \in SUBSET Events /\ Group(p, f) \cap keep[p] \in SUBSET Events
    BY DEF Group, IngestTypes
  <2> QED BY <2>1, IssueIngestAssumption, FS_Subset, FS_CardinalityType
<1>3. rels \in SUBSET Releases /\ {ReleaseOf[e] : e \in work[p]} \in SUBSET Releases
  BY IssueIngestAssumption DEF Group, IngestTypes
<1>4. CASE p \in Senders
  <2>1. Written(p, f) = Upserted(issue[f], n, k, rels, TRUE)
    BY <1>4 DEF Written
  <2> HIDE DEF n, k, rels
  <2>2. LET up == Upserted(issue[f], n, k, rels, TRUE) IN
        up \in Row /\ up.status # "none" /\ up.count = issue[f].count + n /\ up.stored = issue[f].stored + k
    BY <1>1, <1>2, <1>3, UpsertedRow
  <2> QED BY <1>4, <2>1, <2>2 DEF n, k
<1>5. CASE p \notin Senders /\ f = old[p]
  BY <1>1, <1>5, TakenRow DEF Written
<1>6. CASE p \notin Senders /\ f # old[p]
  <2> DEFINE mine == {ReleaseOf[e] : e \in work[p]}
             one  == 1
  <2>1. Written(p, f) = Upserted(issue[f], one, one, mine, FALSE)
    BY <1>6 DEF Written
  <2>2. mine \in SUBSET Releases /\ one \in Nat /\ one = 1
    BY <1>3
  <2> HIDE DEF mine, one
  <2>3. LET up == Upserted(issue[f], one, one, mine, FALSE) IN
        up \in Row /\ up.status # "none" /\ up.count = issue[f].count + one /\ up.stored = issue[f].stored + one
    <3>1. one \in Nat /\ mine \in SUBSET Releases /\ FALSE \in BOOLEAN
      BY <2>2
    <3> QED BY ONLY <1>1, <3>1, UpsertedRow
  <2> QED BY <1>6, <2>1, <2>2, <2>3
<1> QED BY <1>4, <1>5, <1>6

-----------------------------------------------------------------------------
(* Locks. *)

\* What a transaction wrote to a row it holds is what it would write now.
LocksHeld ==
  \A p \in Procs, f \in Fps : owner[f] = p =>
    step[p] \in {"upsert", "waiting"} /\ f \notin todo[p] /\ new[p][f] = Written(p, f)

\* An ingest has the issues below those it still needs.
SortedLocks == \A p \in Senders, f \in Fps : owner[f] = p => \A g \in todo[p] : f < g

LockInv == IngestTypes /\ LocksHeld /\ SortedLocks

LEMMA WrittenStays ==
  ASSUME NEW p, NEW f, issue'[f] = issue[f], work'[p] = work[p], keep'[p] = keep[p], old'[p] = old[p]
  PROVE  Written(p, f)' = Written(p, f)
  BY DEF Written, Group

LEMMA LockInit == Init => LockInv
<1>1. NoIssue \in Row
  BY DEF NoIssue, Row, Statuses
<1> QED BY <1>1, IssueIngestAssumption DEF Init, LockInv, IngestTypes, LocksHeld, SortedLocks, Procs

\* A process begins: it holds no row yet.
LEMMA BeginLocks ==
  ASSUME LockInv, NEW p \in Procs, step[p] \in {"idle", "read"}, NEW pc \in {"read", "upsert"},
         step' = [step EXCEPT ![p] = pc], pc = "read" => p \in Movers /\ old'[p] \in Fps,
         work' \in [Procs -> SUBSET Events], keep' \in [Procs -> SUBSET Events],
         todo' \in [Procs -> SUBSET Fps], old' \in [Procs -> Fps \cup {NoFp}],
         \A q \in Procs \ {p} : /\ work'[q] = work[q] /\ keep'[q] = keep[q]
                                 /\ todo'[q] = todo[q] /\ old'[q] = old[q],
         UNCHANGED <<fpOf, issue, owner, new>>
  PROVE  LockInv'
<1> USE DEF LockInv
<1>1. IngestTypes'
  BY DEF IngestTypes
<1>2. \A q \in Procs, f \in Fps : owner'[f] = q => owner[f] = q /\ q # p
  BY DEF LocksHeld
<1>3. \A q \in Procs \ {p} : step'[q] = step[q]
  BY DEF IngestTypes
<1>4. LocksHeld'
  BY <1>2, <1>3, WrittenStays DEF LocksHeld
<1>5. SortedLocks'
  BY <1>2, <1>3 DEF SortedLocks, Procs
<1> QED BY <1>1, <1>4, <1>5

\* Only where the process is changes.
LEMMA WaitLocks ==
  ASSUME LockInv, NEW p \in Procs, NEW pc \in {"upsert", "waiting"},
         step' = [step EXCEPT ![p] = pc], UNCHANGED <<fpOf, issue, owner, new, work, keep, todo, old>>
  PROVE  LockInv'
<1> USE DEF LockInv
<1>1. IngestTypes'
  BY DEF IngestTypes
<1>2. \A q \in Procs, f \in Fps : Written(q, f)' = Written(q, f)
  BY WrittenStays
<1>3. LocksHeld'
  BY <1>2 DEF LocksHeld, IngestTypes
<1> QED BY <1>1, <1>3 DEF SortedLocks

LEMMA FetchLocks ==
  ASSUME LockInv, NEW p \in Movers, NEW e \in Events, SetEventSymbols(p, e)
  PROVE  LockInv'
<1> DEFINE t == IF SymFp[e] = old[p] THEN {} ELSE {SymFp[e], old[p]}
<1>1. /\ todo' = [todo EXCEPT ![p] = t] /\ step' = [step EXCEPT ![p] = "upsert"] /\ step[p] = "read"
      /\ UNCHANGED <<fpOf, issue, owner, new, work, keep, old>>
  BY DEF SetEventSymbols
<1>2. p \in Procs /\ old[p] \in Fps
  BY <1>1 DEF LockInv, IngestTypes, Procs
<1>3. t \in SUBSET Fps
  BY <1>2, IssueIngestAssumption
<1> HIDE DEF t
<1>4. todo' \in [Procs -> SUBSET Fps] /\ \A q \in Procs \ {p} : todo'[q] = todo[q]
  BY <1>1, <1>3 DEF LockInv, IngestTypes
<1> QED BY <1>1, <1>2, <1>4, BeginLocks DEF LockInv, IngestTypes

\* The statement takes the row.
LEMMA UpsertLocks ==
  ASSUME LockInv, NEW p \in Procs, NEW f \in Fps, Upsert(p, f)
  PROVE  LockInv'
<1> USE DEF LockInv
<1>1. /\ owner[f] = Nobody /\ owner' = [owner EXCEPT ![f] = p] /\ new' = [new EXCEPT ![p][f] = Written(p, f)]
      /\ todo' = [todo EXCEPT ![p] = @ \ {f}] /\ step' = [step EXCEPT ![p] = "upsert"]
      /\ NextFp(p, f) /\ step[p] = "waiting"
      /\ UNCHANGED <<fpOf, issue, work, keep, old>>
  BY DEF Upsert
<1>2. Written(p, f) \in Row
  BY WrittenRow
<1>3. IngestTypes'
  BY <1>1, <1>2 DEF IngestTypes
<1>4. \A q \in Procs, g \in Fps : /\ Written(q, g)' = Written(q, g)
                                  /\ new'[q][g] = IF q = p /\ g = f THEN Written(p, f) ELSE new[q][g]
                                  /\ owner'[g] = IF g = f THEN p ELSE owner[g]
                                  /\ todo'[q] = IF q = p THEN todo[p] \ {f} ELSE todo[q]
  BY <1>1, WrittenStays DEF IngestTypes
<1>5. LocksHeld'
  BY <1>1, <1>4 DEF LocksHeld, IngestTypes
<1>6. SortedLocks'
  <2>1. ASSUME NEW q \in Senders, NEW h \in Fps, owner'[h] = q, NEW g \in todo'[q]
        PROVE  h < g
    <3>1. q \in Procs /\ g \in todo[q] /\ g \in Nat /\ h \in Nat
      BY <1>4, IssueIngestAssumption DEF Procs, IngestTypes
    <3>2. CASE h = f
      <4>1. q = p /\ f <= g /\ g # f
        BY <1>1, <1>4, <2>1, <3>1, <3>2 DEF NextFp
      <4> QED BY <3>1, <3>2, <4>1
    <3>3. CASE h # f
      BY <1>4, <2>1, <3>1, <3>3 DEF SortedLocks
    <3> QED BY <3>2, <3>3
  <2> QED BY <2>1 DEF SortedLocks
<1> QED BY <1>3, <1>5, <1>6

\* The transaction ends; only rows it held may have changed.
LEMMA EndLocks ==
  ASSUME LockInv, NEW p \in Procs, Unlock(p), Reset(p), fpOf' \in [Events -> Fps \cup {NoFp}],
         issue' \in [Fps -> Row], \A f \in Fps : owner[f] # p => issue'[f] = issue[f]
  PROVE  LockInv'
<1> USE DEF LockInv
<1>1. NoIssue \in Row
  BY DEF NoIssue, Row, Statuses
<1>2. IngestTypes'
  BY <1>1 DEF IngestTypes, Unlock, Reset
<1>3. \A q \in Procs, f \in Fps : owner'[f] = q => owner[f] = q /\ q # p
  BY IssueIngestAssumption DEF Unlock, IngestTypes, Procs
<1>4. \A q \in Procs \ {p} : /\ step'[q] = step[q] /\ todo'[q] = todo[q] /\ work'[q] = work[q] /\ new'[q] = new[q]
                             /\ keep'[q] = keep[q] /\ old'[q] = old[q]
  BY DEF IngestTypes, Reset
<1>5. LocksHeld'
  BY <1>3, <1>4, WrittenStays DEF LocksHeld
<1>6. SortedLocks'
  BY <1>3, <1>4 DEF SortedLocks, Procs
<1> QED BY <1>2, <1>5, <1>6

LEMMA CommitLocks == ASSUME LockInv, NEW p \in Procs, Commit(p) PROVE LockInv'
<1> USE DEF LockInv
<1>1. /\ issue' = [f \in Fps |-> IF owner[f] = p THEN new[p][f] ELSE issue[f]]
      /\ Unlock(p) /\ Reset(p)
  BY DEF Commit
<1>2. issue' \in [Fps -> Row]
  BY <1>1 DEF IngestTypes
<1>3. fpOf' \in [Events -> Fps \cup {NoFp}]
  BY IssueIngestAssumption DEF Commit, IngestTypes
<1> QED BY <1>1, <1>2, <1>3, EndLocks

LEMMA StatusLocks ==
  ASSUME LockInv, NEW f \in Fps, NEW s \in Statuses, SetIssueStatus(f, s)
  PROVE  LockInv'
<1> USE DEF LockInv
<1> DEFINE rels == IF s = "resolved" THEN issue[f].releases ELSE issue[f].resolved
           row  == [issue[f] EXCEPT !.status = s, !.resolved = rels]
<1>1. /\ owner[f] = Nobody /\ issue' = [issue EXCEPT ![f] = row] /\ UNCHANGED <<fpOf, owner, procVars>>
  BY DEF SetIssueStatus, IngestTypes
<1>2. row \in Row
  <2>1. issue[f] \in Row /\ rels \in SUBSET Releases
    BY DEF Row, IngestTypes
  <2> HIDE DEF rels
  <2> QED BY <2>1 DEF Row
<1> HIDE DEF row
<1>3. IngestTypes'
  BY <1>1, <1>2 DEF IngestTypes, procVars
<1>4. \A p \in Procs, g \in Fps : owner[g] = p => Written(p, g)' = Written(p, g)
  BY <1>1, IssueIngestAssumption, WrittenStays DEF procVars, Procs, IngestTypes
<1>5. LocksHeld' /\ SortedLocks'
  BY <1>1, <1>4 DEF LocksHeld, SortedLocks, procVars
<1> QED BY <1>3, <1>5

LEMMA LockStep == LockInv /\ [Next]_vars => LockInv'
<1> SUFFICES ASSUME LockInv, [Next]_vars PROVE LockInv'
  OBVIOUS
<1>1. ASSUME NEW p \in Procs, NEW env \in Envelopes, NEW K \in SUBSET env, ReadEnvelope(p, env, K)
      PROVE  LockInv'
  <2>1. Unstored(env) \in SUBSET Events /\ K \in SUBSET Events /\ {RawFp[e] : e \in Unstored(env)} \in SUBSET Fps
    BY IssueIngestAssumption DEF Unstored
  <2>2. /\ step[p] = "idle" /\ step' = [step EXCEPT ![p] = "upsert"]
        /\ work' = [work EXCEPT ![p] = Unstored(env)] /\ keep' = [keep EXCEPT ![p] = K]
        /\ todo' = [todo EXCEPT ![p] = {RawFp[e] : e \in Unstored(env)}]
        /\ UNCHANGED <<fpOf, issue, owner, old, new>>
    BY <1>1 DEF ReadEnvelope
  <2> QED BY <2>1, <2>2, BeginLocks DEF LockInv, IngestTypes
<1>2. ASSUME NEW p \in Procs, NEW e \in Events, ReadEvent(p, e) PROVE LockInv'
  <2>1. /\ step[p] = "idle" /\ step' = [step EXCEPT ![p] = "read"] /\ p \in Movers
        /\ work' = [work EXCEPT ![p] = {e}] /\ old' = [old EXCEPT ![p] = fpOf[e]] /\ fpOf[e] # NoFp
        /\ UNCHANGED <<fpOf, issue, owner, keep, todo, new>>
    BY <1>2 DEF ReadEvent
  <2>2. fpOf[e] \in Fps
    BY <2>1 DEF LockInv, IngestTypes
  <2> QED BY <2>1, <2>2, BeginLocks DEF LockInv, IngestTypes
<1>3. ASSUME NEW p \in Procs, NEW e \in Events, SetEventSymbols(p, e) PROVE LockInv'
  BY <1>3, FetchLocks DEF SetEventSymbols
<1>4. ASSUME NEW p \in Procs, NEW f \in Fps, StartUpsert(p, f) PROVE LockInv'
  BY <1>4, WaitLocks DEF StartUpsert
<1>5. ASSUME NEW p \in Procs, NEW f \in Fps, Upsert(p, f) PROVE LockInv'
  BY <1>5, UpsertLocks
<1>6. ASSUME NEW p \in Procs, Commit(p) PROVE LockInv'
  BY <1>6, CommitLocks
<1>7. ASSUME NEW p \in Procs, Rollback(p) PROVE LockInv'
  BY <1>7, EndLocks DEF Rollback, LockInv, IngestTypes
<1>8. ASSUME NEW f \in Fps, NEW s \in Statuses, SetIssueStatus(f, s) PROVE LockInv'
  BY <1>8, StatusLocks
<1>9. ASSUME UNCHANGED <<fpOf, issue, owner, step, work, keep, old, todo, new>> PROVE LockInv'
  BY <1>9, WrittenStays DEF LockInv, IngestTypes, LocksHeld, SortedLocks
<1> QED
  BY <1>1, <1>2, <1>3, <1>4, <1>5, <1>6, <1>7, <1>8, <1>9
  DEF Next, SendAlert, vars, procVars

\* Two envelopes never wait for each other's issues: any number of ingests and
\* symbolications, of events and of issues in an envelope, resends included.
THEOREM EnvelopesNeverDeadlock == Spec => []NoEnvelopeDeadlock
<1>1. LockInv => NoEnvelopeDeadlock
  <2> SUFFICES ASSUME LockInv, NEW p \in Senders, NEW q \in Senders, Waits(p, q), Waits(q, p), p # q PROVE FALSE
    BY DEF NoEnvelopeDeadlock
  <2>1. PICK f \in Fps : f \in todo[p] /\ owner[f] = q
    BY DEF Waits, NextFp
  <2>2. PICK g \in Fps : g \in todo[q] /\ owner[g] = p
    BY DEF Waits, NextFp
  <2>3. f < g /\ g < f
    BY <2>1, <2>2 DEF LockInv, SortedLocks
  <2> QED BY <2>3, IssueIngestAssumption
<1> QED BY <1>1, LockInit, LockStep, PTL DEF Spec

-----------------------------------------------------------------------------
(* Counts. *)

\* An ingest's events are not stored, and it needs or holds the issue of each.
IngestHandles(p) ==
  /\ keep[p] \subseteq work[p] /\ work[p] \ keep[p] \subseteq MayDrop
  /\ \A e \in work[p] : fpOf[e] = NoFp /\ (RawFp[e] \in todo[p] \/ owner[RawFp[e]] = p)

\* A symbolication's event is stored as it was read, and it needs or holds the
\* two issues, if they differ, and no other.
MoverHandles(p) ==
  \E e \in Events :
    /\ work[p] = {e} /\ fpOf[e] = old[p] /\ old[p] \in Fps
    /\ step[p] # "read" =>
         \A f \in Fps : f \in todo[p] \/ owner[f] = p <=> SymFp[e] # old[p] /\ f \in {SymFp[e], old[p]}

Handles(p) ==
  IF step[p] = "idle" THEN work[p] = {} ELSE IF p \in Senders THEN IngestHandles(p) ELSE MoverHandles(p)

Apart == \A p, q \in Procs : p # q => work[p] \cap work[q] = {}

CountInv == LockInv /\ Apart /\ (\A p \in Procs : Handles(p)) /\ CountsExact

LEMMA CountInit == Init => CountInv
<1> SUFFICES ASSUME Init PROVE CountInv
  OBVIOUS
<1>1. Apart /\ \A p \in Procs : Handles(p)
  BY DEF Init, Apart, Handles
<1>2. \A f \in Fps : StoredUnder(f) = 0
  <2> SUFFICES ASSUME NEW f \in Fps PROVE {e \in Events : fpOf[e] = f} = {}
    BY FS_EmptySet DEF StoredUnder
  <2> QED BY IssueIngestAssumption DEF Init, NoFp
<1>3. CountsExact
  BY <1>2 DEF Init, CountsExact, NoIssue
<1> QED BY <1>1, <1>3, LockInit DEF CountInv

\* What a step of another process leaves of q's work.
LEMMA OtherHandles ==
  ASSUME CountInv, NEW q \in Procs, Handles(q),
         step'[q] = step[q], work'[q] = work[q], keep'[q] = keep[q], old'[q] = old[q], todo'[q] = todo[q],
         \A f \in Fps : owner'[f] = q <=> owner[f] = q,
         \A e \in work[q] : fpOf'[e] = fpOf[e]
  PROVE  Handles(q)'
<1>1. CASE step[q] = "idle"
  BY <1>1 DEF Handles
<1>2. CASE step[q] # "idle" /\ q \in Senders
  <2>1. \A e \in work[q] : RawFp[e] \in Fps
    BY IssueIngestAssumption DEF CountInv, LockInv, IngestTypes
  <2> QED BY <1>2, <2>1 DEF Handles, IngestHandles
<1>3. CASE step[q] # "idle" /\ q \notin Senders
  BY <1>3 DEF Handles, MoverHandles
<1> QED BY <1>1, <1>2, <1>3

\* The counts depend on what is stored and on the issues only.
LEMMA SameCounts ==
  ASSUME CountsExact, UNCHANGED <<fpOf, issue>>
  PROVE  CountsExact'
  BY DEF CountsExact, StoredUnder

LEMMA ReadEnvelopeCounts ==
  ASSUME ~Overlap, CountInv, NEW p \in Procs, NEW env \in Envelopes, NEW K \in SUBSET env, ReadEnvelope(p, env, K)
  PROVE  CountInv'
<1> DEFINE w == Unstored(env)
<1>1. /\ p \in Senders /\ step[p] = "idle" /\ K \subseteq w /\ w \ MayDrop \subseteq K
      /\ \A q \in Procs : work[q] \cap env = {}
      /\ work' = [work EXCEPT ![p] = w] /\ keep' = [keep EXCEPT ![p] = K]
      /\ todo' = [todo EXCEPT ![p] = {RawFp[e] : e \in w}] /\ step' = [step EXCEPT ![p] = "upsert"]
      /\ UNCHANGED <<fpOf, issue, owner, old, new>>
  BY DEF ReadEnvelope, Free
<1>2. LockInv'
  BY LockStep DEF CountInv, Next
<1>3. w \subseteq env /\ w \subseteq Events /\ \A e \in w : fpOf[e] = NoFp
  BY IssueIngestAssumption DEF Unstored
<1>4. /\ step'[p] = "upsert" /\ work'[p] = w /\ keep'[p] = K /\ todo'[p] = {RawFp[e] : e \in w}
      /\ \A q \in Procs \ {p} : /\ step'[q] = step[q] /\ work'[q] = work[q] /\ keep'[q] = keep[q]
                                /\ todo'[q] = todo[q] /\ old'[q] = old[q]
  BY <1>1 DEF CountInv, LockInv, IngestTypes
<1>5. Apart'
  BY <1>1, <1>3, <1>4 DEF CountInv, Apart
<1> HIDE DEF w
<1>6. Handles(p)'
  BY <1>1, <1>3, <1>4 DEF Handles, IngestHandles
<1>7. \A q \in Procs \ {p} : Handles(q)'
  BY <1>1, <1>4, OtherHandles DEF CountInv
<1> QED BY <1>1, <1>2, <1>5, <1>6, <1>7, SameCounts DEF CountInv

LEMMA ReadEventCounts ==
  ASSUME ~Overlap, CountInv, NEW p \in Procs, NEW e \in Events, ReadEvent(p, e)
  PROVE  CountInv'
<1>1. /\ p \in Movers /\ p \notin Senders /\ step[p] = "idle" /\ fpOf[e] \in Fps
      /\ \A q \in Procs : work[q] \cap {e} = {}
      /\ work' = [work EXCEPT ![p] = {e}] /\ old' = [old EXCEPT ![p] = fpOf[e]]
      /\ step' = [step EXCEPT ![p] = "read"]
      /\ UNCHANGED <<fpOf, issue, owner, keep, todo, new>>
  BY IssueIngestAssumption DEF ReadEvent, Free, CountInv, LockInv, IngestTypes
<1>2. LockInv'
  BY LockStep DEF CountInv, Next
<1>3. /\ step'[p] = "read" /\ work'[p] = {e} /\ old'[p] = fpOf[e]
      /\ \A q \in Procs \ {p} : step'[q] = step[q] /\ work'[q] = work[q] /\ old'[q] = old[q]
  BY <1>1 DEF CountInv, LockInv, IngestTypes
<1>4. Apart'
  BY <1>1, <1>3 DEF CountInv, Apart
<1>5. Handles(p)'
  BY <1>1, <1>3 DEF Handles, MoverHandles
<1>6. \A q \in Procs \ {p} : Handles(q)'
  BY <1>1, <1>3, OtherHandles DEF CountInv
<1> QED BY <1>1, <1>2, <1>4, <1>5, <1>6, SameCounts DEF CountInv

LEMMA FetchCounts ==
  ASSUME CountInv, NEW p \in Procs, NEW e \in Events, SetEventSymbols(p, e)
  PROVE  CountInv'
<1> DEFINE t == IF SymFp[e] = old[p] THEN {} ELSE {SymFp[e], old[p]}
<1>1. /\ p \in Movers /\ p \notin Senders /\ step[p] = "read" /\ work[p] = {e}
      /\ todo' = [todo EXCEPT ![p] = t] /\ step' = [step EXCEPT ![p] = "upsert"]
      /\ UNCHANGED <<fpOf, issue, owner, work, keep, old, new>>
  BY IssueIngestAssumption DEF SetEventSymbols
<1>2. LockInv'
  BY LockStep DEF CountInv, Next
<1>3. /\ step'[p] = "upsert" /\ todo'[p] = t
      /\ \A q \in Procs \ {p} : step'[q] = step[q] /\ todo'[q] = todo[q]
  BY <1>1 DEF CountInv, LockInv, IngestTypes
<1>4. \A f \in Fps : owner[f] # p
  BY <1>1 DEF CountInv, LockInv, LocksHeld
<1>5. fpOf[e] = old[p] /\ old[p] \in Fps
  BY <1>1 DEF CountInv, Handles, MoverHandles
<1>6. Handles(p)'
  BY <1>1, <1>3, <1>4, <1>5 DEF Handles, MoverHandles
<1>7. \A q \in Procs \ {p} : Handles(q)'
  BY <1>1, <1>3, OtherHandles DEF CountInv
<1> QED BY <1>1, <1>2, <1>6, <1>7, SameCounts DEF CountInv, Apart

LEMMA StartCounts ==
  ASSUME CountInv, NEW p \in Procs, NEW f \in Fps, StartUpsert(p, f)
  PROVE  CountInv'
<1>1. /\ step[p] = "upsert" /\ step' = [step EXCEPT ![p] = "waiting"]
      /\ UNCHANGED <<fpOf, issue, owner, work, keep, old, todo, new>>
  BY DEF StartUpsert
<1>2. LockInv'
  BY LockStep DEF CountInv, Next
<1>3. step'[p] = "waiting" /\ \A q \in Procs \ {p} : step'[q] = step[q]
  BY <1>1 DEF CountInv, LockInv, IngestTypes
<1>4. Handles(p)'
  BY <1>1, <1>3 DEF CountInv, Handles, IngestHandles, MoverHandles
<1>5. \A q \in Procs \ {p} : Handles(q)'
  BY <1>1, <1>3, OtherHandles DEF CountInv
<1> QED BY <1>1, <1>2, <1>4, <1>5, SameCounts DEF CountInv, Apart

LEMMA UpsertCounts ==
  ASSUME CountInv, NEW p \in Procs, NEW f \in Fps, Upsert(p, f)
  PROVE  CountInv'
<1>1. /\ step[p] = "waiting" /\ owner[f] = Nobody /\ f \in todo[p]
      /\ owner' = [owner EXCEPT ![f] = p] /\ todo' = [todo EXCEPT ![p] = @ \ {f}]
      /\ step' = [step EXCEPT ![p] = "upsert"]
      /\ UNCHANGED <<fpOf, issue, work, keep, old>>
  BY DEF Upsert, NextFp
<1>2. LockInv'
  BY LockStep DEF CountInv, Next
<1>3. /\ step'[p] = "upsert" /\ todo'[p] = todo[p] \ {f}
      /\ \A q \in Procs \ {p} : step'[q] = step[q] /\ todo'[q] = todo[q]
      /\ \A g \in Fps : owner'[g] = IF g = f THEN p ELSE owner[g]
  BY <1>1 DEF CountInv, LockInv, IngestTypes
<1>4. \A g \in Fps : g \in todo'[p] \/ owner'[g] = p <=> g \in todo[p] \/ owner[g] = p
  BY <1>1, <1>3
<1>5. Handles(p)'
  <2>1. CASE p \in Senders
    <3>1. \A e \in work[p] : RawFp[e] \in Fps
      BY IssueIngestAssumption DEF CountInv, LockInv, IngestTypes
    <3> QED BY <1>1, <1>3, <1>4, <2>1, <3>1 DEF CountInv, Handles, IngestHandles
  <2>2. CASE p \notin Senders
    BY <1>1, <1>3, <1>4, <2>2 DEF CountInv, Handles, MoverHandles
  <2> QED BY <2>1, <2>2
<1>6. \A q \in Procs \ {p} : Handles(q)'
  <2>1. \A q \in Procs \ {p}, g \in Fps : owner'[g] = q <=> owner[g] = q
    BY <1>1, <1>3, IssueIngestAssumption DEF Procs
  <2> QED BY <1>1, <1>3, <2>1, OtherHandles DEF CountInv
<1> QED BY <1>1, <1>2, <1>5, <1>6, SameCounts DEF CountInv, Apart

\* The process is free again.  The others hold what they held.
LEMMA EndHandles ==
  ASSUME CountInv, NEW p \in Procs, Unlock(p), Reset(p),
         \A e \in Events \ work[p] : fpOf'[e] = fpOf[e]
  PROVE  Apart' /\ \A q \in Procs : Handles(q)'
<1>1. /\ step'[p] = "idle" /\ work'[p] = {}
      /\ \A q \in Procs \ {p} : /\ step'[q] = step[q] /\ work'[q] = work[q] /\ keep'[q] = keep[q]
                                /\ old'[q] = old[q] /\ todo'[q] = todo[q]
  BY DEF Reset, CountInv, LockInv, IngestTypes
<1>2. \A q \in Procs \ {p}, g \in Fps : owner'[g] = q <=> owner[g] = q
  BY IssueIngestAssumption DEF Unlock, Procs
<1>3. \A q \in Procs \ {p} : work[q] \subseteq Events \ work[p]
  BY DEF CountInv, Apart, LockInv, IngestTypes
<1>4. Apart'
  BY <1>1 DEF CountInv, Apart
<1>5. Handles(p)'
  BY <1>1 DEF Handles
<1>6. \A q \in Procs \ {p} : Handles(q)'
  BY <1>1, <1>2, <1>3, OtherHandles DEF CountInv
<1> QED BY <1>4, <1>5, <1>6

LEMMA RollbackCounts == ASSUME CountInv, NEW p \in Procs, Rollback(p) PROVE CountInv'
<1>1. LockInv'
  BY LockStep DEF CountInv, Next
<1> QED BY <1>1, EndHandles, SameCounts DEF Rollback, CountInv

LEMMA StatusCounts ==
  ASSUME CountInv, NEW f \in Fps, NEW s \in Statuses, SetIssueStatus(f, s)
  PROVE  CountInv'
<1> DEFINE rels == IF s = "resolved" THEN issue[f].releases ELSE issue[f].resolved
           row  == [issue[f] EXCEPT !.status = s, !.resolved = rels]
<1>1. /\ issue[f] \in Row /\ s # "none" /\ issue' = [issue EXCEPT ![f] = row]
      /\ UNCHANGED <<fpOf, owner, procVars>>
  BY DEF SetIssueStatus, CountInv, LockInv, IngestTypes
<1>2. LockInv'
  BY LockStep DEF CountInv, Next
<1>3. row.count = issue[f].count /\ row.stored = issue[f].stored /\ row.status = s
  BY <1>1 DEF Row
<1> HIDE DEF row
<1>4. \A g \in Fps : issue'[g] = IF g = f THEN row ELSE issue[g]
  BY <1>1 DEF CountInv, LockInv, IngestTypes
<1>5. \A g \in Fps : StoredUnder(g)' = StoredUnder(g)
  BY <1>1 DEF StoredUnder
<1>6. CountsExact'
  BY <1>1, <1>3, <1>4, <1>5 DEF CountInv, CountsExact
<1>7. \A q \in Procs : Handles(q)'
  BY <1>1, OtherHandles DEF CountInv, procVars
<1> QED BY <1>1, <1>2, <1>6, <1>7 DEF CountInv, Apart, procVars

\* Events under f, and those an ingest adds.
Under(f) == {e \in Events : fpOf[e] = f}

LEMMA UnderFinite ==
  ASSUME NEW f
  PROVE  IsFiniteSet(Under(f)) /\ Cardinality(Under(f)) \in Nat /\ StoredUnder(f) = Cardinality(Under(f))
<1>1. Under(f) \in SUBSET Events
  BY DEF Under
<1> QED BY <1>1, IssueIngestAssumption, FS_Subset, FS_CardinalityType DEF StoredUnder, Under

\* What CountsExact says of one issue.
CountOf(f) ==
  /\ issue[f].stored = StoredUnder(f)
  /\ StoredUnder(f) > 0 => issue[f].status # "none"
  /\ (\A e \in MayDrop : RawFp[e] # f) => issue[f].count = issue[f].stored
  /\ issue[f].count >= issue[f].stored

LEMMA IngestCommitCounts ==
  ASSUME CountInv, NEW p \in Senders, Commit(p), NEW f \in Fps
  PROVE  CountOf(f)'
<1> DEFINE G == Group(p, f)
           K == Group(p, f) \cap keep[p]
<1>1. /\ p \in Procs /\ step[p] = "upsert" /\ todo[p] = {}
      /\ issue' = [g \in Fps |-> IF owner[g] = p THEN new[p][g] ELSE issue[g]]
      /\ fpOf' = [e \in Events |-> IF e \in keep[p] /\ fpOf[e] = NoFp THEN RawFp[e] ELSE fpOf[e]]
  BY DEF Commit, Procs
<1>2. /\ keep[p] \subseteq work[p] /\ work[p] \ keep[p] \subseteq MayDrop /\ work[p] \subseteq Events
      /\ \A e \in work[p] : fpOf[e] = NoFp /\ owner[RawFp[e]] = p
  BY <1>1 DEF CountInv, Handles, IngestHandles, LockInv, IngestTypes
<1>3. Under(f)' = Under(f) \cup K /\ Under(f) \cap K = {}
  <2>1. f # NoFp
    BY IssueIngestAssumption DEF NoFp
  <2> QED BY <1>1, <1>2, <2>1 DEF Under, Group
<1>4. CountOf(f)
  BY DEF CountInv, CountsExact, CountOf
<1>5. G \in SUBSET Events /\ K \in SUBSET G
  BY <1>2 DEF Group
<1>6. CASE owner[f] = p
  <2>1. /\ issue'[f] = Written(p, f)
        /\ Written(p, f).status # "none" /\ Written(p, f) \in Row
        /\ Written(p, f).count = issue[f].count + Cardinality(G)
        /\ Written(p, f).stored = issue[f].stored + Cardinality(K)
    BY <1>1, <1>6, WrittenRow DEF CountInv, LockInv, LocksHeld
  <2> HIDE DEF G, K
  <2>2. IsFiniteSet(G) /\ IsFiniteSet(K) /\ Cardinality(G) \in Nat /\ Cardinality(K) \in Nat
        /\ Cardinality(K) <= Cardinality(G)
    BY <1>5, IssueIngestAssumption, FS_Subset, FS_CardinalityType
  <2>3. Cardinality(Under(f) \cup K) = Cardinality(Under(f)) + Cardinality(K)
    <3>1. /\ IsFiniteSet(Under(f)) /\ Cardinality(Under(f)) \in Nat
          /\ Cardinality(Under(f) \cup K) = Cardinality(Under(f)) + Cardinality(K) - Cardinality(Under(f) \cap K)
      BY <2>2, UnderFinite, FS_Union
    <3>2. Cardinality(Under(f) \cap K) = 0
      BY <1>3, FS_EmptySet
    <3> QED BY <2>2, <3>1, <3>2
  <2>4. StoredUnder(f)' = StoredUnder(f) + Cardinality(K) /\ StoredUnder(f) \in Nat
    BY <1>3, <2>3, UnderFinite DEF StoredUnder, Under
  <2>5. (\A e \in MayDrop : RawFp[e] # f) => K = G
    BY <1>2 DEF G, K, Group
  <2>6. issue[f].count \in Nat /\ issue[f].stored \in Nat
    BY DEF CountInv, LockInv, IngestTypes, Row
  <2> QED BY <1>4, <2>1, <2>2, <2>4, <2>5, <2>6 DEF CountOf
<1>7. CASE owner[f] # p
  <2>1. K = {}
    BY <1>2, <1>7 DEF Group
  <2>2. issue'[f] = issue[f]
    BY <1>1, <1>7
  <2>3. StoredUnder(f)' = StoredUnder(f)
    BY <1>3, <2>1 DEF StoredUnder, Under
  <2> QED BY <1>4, <2>2, <2>3 DEF CountOf
<1> QED BY <1>6, <1>7

LEMMA MoverCommitCounts ==
  ASSUME CountInv, NEW p \in Movers, Commit(p), NEW f \in Fps
  PROVE  CountOf(f)'
<1>1. /\ p \in Procs /\ p \notin Senders /\ step[p] = "upsert" /\ todo[p] = {}
      /\ issue' = [g \in Fps |-> IF owner[g] = p THEN new[p][g] ELSE issue[g]]
      /\ fpOf' = [e \in Events |-> IF e \in work[p] THEN SymFp[e] ELSE fpOf[e]]
  BY IssueIngestAssumption DEF Commit, Procs
<1>2. PICK e \in Events :
        /\ work[p] = {e} /\ fpOf[e] = old[p] /\ old[p] \in Fps
        /\ \A g \in Fps : owner[g] = p <=> SymFp[e] # old[p] /\ g \in {SymFp[e], old[p]}
  BY <1>1 DEF CountInv, Handles, MoverHandles
<1>3. /\ SymFp[e] \in Fps /\ f # NoFp
      /\ \A x \in Events : fpOf'[x] = IF x = e THEN SymFp[e] ELSE fpOf[x]
      /\ issue'[f] = IF owner[f] = p THEN new[p][f] ELSE issue[f]
  BY <1>1, <1>2, IssueIngestAssumption DEF NoFp
<1>4. CountOf(f)
  BY DEF CountInv, CountsExact, CountOf
<1>5. /\ issue[f] \in Row /\ issue[f].count \in Nat /\ issue[f].stored \in Nat
      /\ owner[f] = p => issue'[f] = Written(p, f)
  BY <1>1, <1>3 DEF CountInv, LockInv, LocksHeld, IngestTypes, Row
<1>6. StoredUnder(f) = Cardinality(Under(f)) /\ IsFiniteSet(Under(f)) /\ Cardinality(Under(f)) \in Nat
  BY UnderFinite
<1>7. CASE owner[f] # p
  <2>1. Under(f)' = Under(f)
    BY <1>2, <1>3, <1>7 DEF Under
  <2>2. StoredUnder(f)' = StoredUnder(f)
    BY <2>1 DEF StoredUnder, Under
  <2> QED BY <1>3, <1>4, <1>7, <2>2 DEF CountOf
<1>8. CASE owner[f] = p /\ f = old[p]
  <2>1. Under(f)' = Under(f) \ {e} /\ e \in Under(f)
    BY <1>2, <1>3, <1>8 DEF Under
  <2>2. StoredUnder(f)' = StoredUnder(f) - 1
    BY <1>6, <2>1, FS_RemoveElement DEF StoredUnder, Under
  <2>3. StoredUnder(f) >= 1
    BY <1>6, <2>1, FS_EmptySet
  <2>4. /\ issue[f].status # "none" /\ issue[f].stored >= 1 /\ issue[f].count >= issue[f].stored
    BY <1>4, <1>5, <1>6, <2>3 DEF CountOf
  <2>5. issue'[f] = Taken(issue[f])
    BY <1>1, <1>5, <1>8, WrittenRow DEF CountInv, LockInv
  <2>6. /\ issue'[f].count = issue[f].count - 1 /\ issue'[f].stored = issue[f].stored - 1
        /\ issue'[f].stored > 0 => issue'[f].status # "none"
    BY <1>5, <2>4, <2>5, TakenRow
  <2> QED BY <1>4, <1>5, <1>6, <2>2, <2>6 DEF CountOf
<1>9. CASE owner[f] = p /\ f # old[p]
  <2>1. Under(f)' = Under(f) \cup {e} /\ e \notin Under(f)
    BY <1>2, <1>3, <1>9 DEF Under
  <2>2. StoredUnder(f)' = StoredUnder(f) + 1
    BY <1>6, <2>1, FS_AddElement DEF StoredUnder, Under
  <2>3. /\ issue'[f].status # "none" /\ issue'[f].count = issue[f].count + 1
        /\ issue'[f].stored = issue[f].stored + 1
    <3>1. /\ Written(p, f).status # "none" /\ Written(p, f).count = issue[f].count + 1
          /\ Written(p, f).stored = issue[f].stored + 1
      BY <1>1, <1>9, WrittenRow DEF CountInv, LockInv
    <3>2. issue'[f] = Written(p, f)
      BY <1>5, <1>9
    <3> QED BY <3>1, <3>2
  <2> QED BY <1>4, <1>5, <1>6, <2>2, <2>3 DEF CountOf
<1> QED BY <1>7, <1>8, <1>9

LEMMA CommitCounts == ASSUME CountInv, NEW p \in Procs, Commit(p) PROVE CountInv'
<1>1. LockInv'
  BY LockStep DEF CountInv, Next
<1>2. \A f \in Fps : CountOf(f)'
  BY IngestCommitCounts, MoverCommitCounts DEF Procs
<1>3. CountsExact'
  BY <1>2 DEF CountsExact, CountOf, StoredUnder
<1>4. \A e \in Events \ work[p] : fpOf'[e] = fpOf[e]
  BY DEF Commit, CountInv, LockInv, IngestTypes, Handles, IngestHandles
<1> QED BY <1>1, <1>3, <1>4, EndHandles DEF Commit, CountInv

LEMMA CountStep == ~Overlap /\ CountInv /\ [Next]_vars => CountInv'
<1> SUFFICES ASSUME ~Overlap, CountInv, [Next]_vars PROVE CountInv'
  OBVIOUS
<1>1. ASSUME UNCHANGED <<fpOf, issue, owner, step, work, keep, old, todo, new>> PROVE CountInv'
  <2>1. LockInv'
    BY <1>1, WrittenStays DEF CountInv, LockInv, IngestTypes, LocksHeld, SortedLocks
  <2> QED BY <1>1, <2>1, OtherHandles, SameCounts DEF CountInv, Apart
<1> QED
  BY <1>1, ReadEnvelopeCounts, ReadEventCounts, FetchCounts, StartCounts, UpsertCounts, CommitCounts,
     RollbackCounts, StatusCounts
  DEF Next, SendAlert, vars, procVars

\* The counts of an issue are those of the events stored under it, and every
\* stored event has its issue, whatever is resent, dropped by the sampler, moved
\* by its symbols, rolled back or changed in status: any number of ingests and
\* symbolications at a time, as long as no two of them have the same event.
THEOREM CountsAreExact == ASSUME ~Overlap PROVE Spec => []CountsExact
<1>1. CountInv => CountsExact
  BY DEF CountInv
<1>2. CountInv /\ [Next]_vars => CountInv'
  BY CountStep
<1> QED BY <1>1, <1>2, CountInit, PTL DEF Spec

-----------------------------------------------------------------------------
(* Regressions. *)

\* An ingest will raise the alert of just the issues it turns from resolved
\* into a regression.
FlipInv ==
  /\ LockInv
  /\ alerts \in SUBSET Fps /\ flipped \in [Procs -> SUBSET Fps]
  /\ \A p \in Procs, f \in Fps :
       f \in flipped[p] <=>
         p \in Senders /\ owner[f] = p /\ issue[f].status = "resolved" /\ new[p][f].status = "regression"

FlipBody ==
  \A f \in Fps :
    /\ Flips(f) => f \in alerts' /\ ~(issue'[f].releases \subseteq issue[f].resolved)
    /\ f \in alerts' \ alerts => Flips(f)

\* A row turns into a regression only on a release it was not resolved on, and
\* only an ingest does that.
LEMMA FlipRow ==
  ASSUME IngestTypes, NEW p \in Procs, NEW f \in Fps,
         issue[f].status = "resolved", Written(p, f).status = "regression"
  PROVE  p \in Senders /\ ~(Written(p, f).releases \subseteq issue[f].resolved)
<1> DEFINE row == issue[f]
<1>1. row \in Row
  BY DEF IngestTypes
<1>2. CASE p \in Senders
  <2> DEFINE rels == {ReleaseOf[e] : e \in Group(p, f)}
             n    == Cardinality(Group(p, f))
             k    == Cardinality(Group(p, f) \cap keep[p])
  <2>1. Written(p, f) = Upserted(row, n, k, rels, TRUE)
    BY <1>2 DEF Written
  <2> HIDE DEF rels, n, k, row
  <2>2. /\ Upserted(row, n, k, rels, TRUE).releases = row.releases \cup rels
        /\ Upserted(row, n, k, rels, TRUE).status = "regression" /\ row.status = "resolved"
             => ~(rels \subseteq row.resolved)
    BY <1>1 DEF Upserted, Row
  <2> QED BY <1>2, <2>1, <2>2 DEF row
<1>3. CASE p \notin Senders
  <2>1. Taken(row).status \in {row.status, "none"}
    BY <1>1 DEF Taken, NoIssue, Row
  <2>2. Upserted(row, 1, 1, {ReleaseOf[e] : e \in work[p]}, FALSE).status \in {row.status, "unresolved"}
    <3> DEFINE rels == {ReleaseOf[e] : e \in work[p]}
    <3> HIDE DEF rels, row
    <3>1. Upserted(row, 1, 1, rels, FALSE).status \in {row.status, "unresolved"}
      BY <1>1 DEF Upserted, Row
    <3> QED BY <3>1 DEF rels
  <2> QED BY <1>3, <2>1, <2>2 DEF Written
<1> QED BY <1>2, <1>3

LEMMA FlipUpsert ==
  ASSUME Immediate, FlipInv, NEW p \in Procs, NEW f \in Fps, Upsert(p, f)
  PROVE  FlipInv' /\ FlipBody
<1>1. /\ owner[f] = Nobody /\ owner' = [owner EXCEPT ![f] = p] /\ new' = [new EXCEPT ![p][f] = Written(p, f)]
      /\ flipped' = [flipped EXCEPT ![p] = IF p \in Senders /\ Regressed(p, f, Written(p, f)) THEN @ \cup {f} ELSE @]
      /\ UNCHANGED <<issue, alerts>>
  BY DEF Upsert
<1>2. LockInv'
  BY LockStep DEF FlipInv, Next
<1>3. Regressed(p, f, Written(p, f)) <=> issue[f].status = "resolved" /\ Written(p, f).status = "regression"
  BY DEF Regressed
<1>4. flipped' \in [Procs -> SUBSET Fps]
  BY <1>1 DEF FlipInv
<1>5. \A q \in Procs, g \in Fps :
        /\ new'[q][g] = IF q = p /\ g = f THEN Written(p, f) ELSE new[q][g]
        /\ owner'[g] = IF g = f THEN p ELSE owner[g]
        /\ g \in flipped'[q] <=> g \in flipped[q] \/ (q = p /\ g = f /\ p \in Senders /\ Regressed(p, f, Written(p, f)))
  BY <1>1 DEF FlipInv, LockInv, IngestTypes
<1>6. \A q \in Procs : f \notin flipped[q]
  BY <1>1, IssueIngestAssumption DEF FlipInv, Procs
<1>7. \A q \in Procs, g \in Fps :
        g \in flipped'[q] <=>
          q \in Senders /\ owner'[g] = q /\ issue'[g].status = "resolved" /\ new'[q][g].status = "regression"
  <2> SUFFICES ASSUME NEW q \in Procs, NEW g \in Fps
               PROVE  g \in flipped'[q] <=>
                        q \in Senders /\ owner'[g] = q /\ issue'[g].status = "resolved" /\ new'[q][g].status = "regression"
    OBVIOUS
  <2>1. CASE g = f
    BY <1>1, <1>3, <1>5, <1>6, <2>1
  <2>2. CASE g # f
    BY <1>1, <1>5, <2>2 DEF FlipInv
  <2> QED BY <2>1, <2>2
<1>8. FlipBody
  BY <1>1 DEF FlipBody, Flips
<1> QED BY <1>1, <1>2, <1>4, <1>7, <1>8 DEF FlipInv

LEMMA FlipCommit ==
  ASSUME FlipInv, NEW p \in Procs, Commit(p)
  PROVE  FlipInv' /\ FlipBody
<1>1. /\ issue' = [f \in Fps |-> IF owner[f] = p THEN new[p][f] ELSE issue[f]]
      /\ alerts' = alerts \cup flipped[p] /\ Unlock(p) /\ Reset(p)
  BY DEF Commit
<1>2. LockInv'
  BY LockStep DEF FlipInv, Next
<1>3. \A f \in Fps : issue'[f] = IF owner[f] = p THEN Written(p, f) ELSE issue[f]
  BY <1>1 DEF FlipInv, LockInv, LocksHeld
<1>4. FlipBody
  <2> SUFFICES ASSUME NEW f \in Fps
               PROVE  /\ Flips(f) => f \in alerts' /\ ~(issue'[f].releases \subseteq issue[f].resolved)
                      /\ f \in alerts' \ alerts => Flips(f)
    BY DEF FlipBody
  <2>1. CASE owner[f] = p
    BY <1>1, <1>3, <2>1, FlipRow DEF Flips, FlipInv, LockInv, LocksHeld
  <2>2. CASE owner[f] # p
    BY <1>1, <1>3, <2>2 DEF Flips, FlipInv
  <2> QED BY <2>1, <2>2
<1>5. /\ \A q \in Procs \ {p} : flipped'[q] = flipped[q] /\ new'[q] = new[q]
      /\ \A f \in Fps : owner'[f] = IF owner[f] = p THEN Nobody ELSE owner[f]
  BY <1>1 DEF Unlock, Reset, FlipInv, LockInv, IngestTypes
<1>6. flipped'[p] = {} /\ Nobody \notin Procs
  BY <1>1, IssueIngestAssumption DEF Unlock, Reset, FlipInv, Procs
<1>7. flipped' \in [Procs -> SUBSET Fps] /\ alerts' \in SUBSET Fps
  BY <1>1 DEF Reset, FlipInv
<1>8. \A q \in Procs, f \in Fps :
        f \in flipped'[q] <=>
          q \in Senders /\ owner'[f] = q /\ issue'[f].status = "resolved" /\ new'[q][f].status = "regression"
  <2> SUFFICES ASSUME NEW q \in Procs, NEW f \in Fps
               PROVE  f \in flipped'[q] <=>
                        q \in Senders /\ owner'[f] = q /\ issue'[f].status = "resolved" /\ new'[q][f].status = "regression"
    OBVIOUS
  <2>1. CASE q = p
    BY <1>5, <1>6, <2>1
  <2>2. CASE q # p
    <3>1. owner'[f] = q <=> owner[f] = q
      BY <1>5, <1>6, <2>2
    <3>2. owner'[f] = q => issue'[f] = issue[f]
      BY <1>3, <2>2, <3>1
    <3>3. flipped'[q] = flipped[q] /\ new'[q] = new[q]
      BY <1>5, <2>2
    <3> QED BY <3>1, <3>2, <3>3 DEF FlipInv
  <2> QED BY <2>1, <2>2
<1> QED BY <1>2, <1>4, <1>7, <1>8 DEF FlipInv

\* A step that leaves alerts and committed rows alone.
LEMMA FlipQuiet ==
  ASSUME FlipInv, LockInv', alerts' \in SUBSET Fps, alerts' \subseteq alerts, UNCHANGED <<issue, owner, new, flipped>>
  PROVE  FlipInv' /\ FlipBody
<1>1. FlipInv'
  BY DEF FlipInv
<1> QED BY <1>1 DEF FlipBody, Flips

LEMMA FlipRollback ==
  ASSUME FlipInv, NEW p \in Procs, Rollback(p)
  PROVE  FlipInv' /\ FlipBody
<1>1. LockInv'
  BY LockStep DEF FlipInv, Next
<1>2. /\ \A q \in Procs \ {p} : flipped'[q] = flipped[q] /\ new'[q] = new[q]
      /\ \A f \in Fps : owner'[f] = IF owner[f] = p THEN Nobody ELSE owner[f]
  BY DEF Rollback, Unlock, Reset, FlipInv, LockInv, IngestTypes
<1>3. flipped'[p] = {} /\ Nobody \notin Procs
  BY IssueIngestAssumption DEF Rollback, Reset, FlipInv, Procs
<1>4. flipped' \in [Procs -> SUBSET Fps] /\ UNCHANGED <<alerts, issue>>
  BY DEF Rollback, Reset, FlipInv
<1>5. FlipInv'
  <2>1. ASSUME NEW q \in Procs, NEW f \in Fps
        PROVE  f \in flipped'[q] <=>
                 q \in Senders /\ owner'[f] = q /\ issue'[f].status = "resolved" /\ new'[q][f].status = "regression"
    <3>1. CASE q = p
      BY <1>2, <1>3, <3>1
    <3>2. CASE q # p
      <4>1. /\ owner'[f] = q <=> owner[f] = q
            /\ flipped'[q] = flipped[q] /\ new'[q] = new[q]
        BY <1>2, <1>3, <3>2
      <4> QED BY <1>4, <4>1 DEF FlipInv
    <3> QED BY <3>1, <3>2
  <2> QED BY <1>1, <1>4, <2>1 DEF FlipInv
<1> QED BY <1>4, <1>5 DEF FlipBody, Flips

LEMMA FlipStatus ==
  ASSUME FlipInv, NEW f \in Fps, NEW s \in Statuses, SetIssueStatus(f, s)
  PROVE  FlipInv' /\ FlipBody
<1> DEFINE rels == IF s = "resolved" THEN issue[f].releases ELSE issue[f].resolved
           row  == [issue[f] EXCEPT !.status = s, !.resolved = rels]
<1>1. /\ issue[f] \in Row /\ s # "regression" /\ owner[f] = Nobody /\ issue' = [issue EXCEPT ![f] = row]
      /\ UNCHANGED <<fpOf, owner, alerts, procVars>>
  <2>1. issue[f] \in Row /\ owner[f] = Nobody /\ s # "regression"
    BY DEF SetIssueStatus, FlipInv, LockInv, IngestTypes
  <2>2. IngestTypes
    BY DEF FlipInv, LockInv
  <2>3. issue' = [issue EXCEPT ![f] = row]
    BY <2>2 DEF SetIssueStatus, IngestTypes
  <2>4. UNCHANGED <<fpOf, owner, alerts, procVars>>
    BY DEF SetIssueStatus
  <2> QED BY <2>1, <2>3, <2>4
<1>2. LockInv'
  BY LockStep DEF FlipInv, Next
<1>3. row.status = s
  BY <1>1 DEF Row
<1> HIDE DEF row
<1>4. \A g \in Fps : issue'[g] = IF g = f THEN row ELSE issue[g]
  BY <1>1 DEF FlipInv, LockInv, IngestTypes
<1>5. \A q \in Procs : owner[f] # q
  BY <1>1, IssueIngestAssumption DEF Procs
<1>6. FlipInv'
  BY <1>1, <1>2, <1>4, <1>5 DEF FlipInv, procVars
<1> QED BY <1>1, <1>3, <1>4, <1>6 DEF FlipBody, Flips

LEMMA FlipStep == Immediate /\ FlipInv /\ [Next]_vars => FlipInv' /\ [FlipBody]_vars
<1> SUFFICES ASSUME Immediate, FlipInv, [Next]_vars PROVE FlipInv' /\ [FlipBody]_vars
  OBVIOUS
<1>1. LockInv'
  BY LockStep DEF FlipInv
<1>2. ASSUME alerts' \subseteq alerts, UNCHANGED <<issue, owner, new, flipped>> PROVE FlipInv' /\ FlipBody
  BY <1>1, <1>2, FlipQuiet DEF FlipInv
<1>3. ASSUME NEW p \in Procs, NEW env \in Envelopes, NEW K \in SUBSET env, ReadEnvelope(p, env, K)
      PROVE  FlipInv' /\ FlipBody
  BY <1>2, <1>3 DEF ReadEnvelope
<1>4. ASSUME NEW p \in Procs, NEW e \in Events, ReadEvent(p, e) \/ SetEventSymbols(p, e) PROVE FlipInv' /\ FlipBody
  BY <1>2, <1>4 DEF ReadEvent, SetEventSymbols
<1>5. ASSUME NEW p \in Procs, NEW f \in Fps, StartUpsert(p, f) PROVE FlipInv' /\ FlipBody
  BY <1>2, <1>5 DEF StartUpsert
<1>6. ASSUME NEW f \in Fps, SendAlert(f) PROVE FlipInv' /\ FlipBody
  BY <1>2, <1>6 DEF SendAlert, procVars
<1>7. CASE UNCHANGED vars
  BY <1>2, <1>7 DEF vars
<1> QED
  BY <1>3, <1>4, <1>5, <1>6, <1>7, FlipUpsert, FlipCommit, FlipRollback, FlipStatus
  DEF Next

\* Whoever turns a resolved issue into a regression raises its alert, on a
\* release the issue was not resolved on, and nobody else raises it: any number
\* of ingests, symbolications and changes of status at a time, as long as an
\* upsert updates the row version its snapshot saw.
THEOREM FlipsAlertOnce == ASSUME Immediate PROVE Spec => FlipAlerts
<1>1. Init => FlipInv
  BY LockInit, IssueIngestAssumption DEF Init, FlipInv, Procs
<1>2. FlipInv /\ [Next]_vars => FlipInv' /\ [FlipBody]_vars
  BY FlipStep
<1>3. Spec => [][FlipBody]_vars
  BY <1>1, <1>2, PTL DEF Spec
<1> QED BY <1>3 DEF FlipAlerts, FlipBody

-----------------------------------------------------------------------------
(* FrontDoor. *)

Lookups == [pc : {"idle", "asked", "missed", "found"}, key : DsnKeys \cup {NoKey}, since : 0..LastTick]

\* A key that was given out is the current one, retired or deleted.
KeysKnown ==
  \A k \in DsnKeys :
    /\ deletedAt[k] # -1 <=> k \in issued /\ k # current /\ k \notin retired
    /\ deletedAt[k] <= tick

\* An entry was made when its key was still found, LookupTime before at most.
CacheBound ==
  \A k \in DsnKeys :
    IF deletedAt[k] = -1 THEN expires[k] <= tick + KeyTTL
    ELSE expires[k] <= deletedAt[k] + LookupTime + KeyTTL

\* What a lookup has learnt stays true of it: a key once not current is never
\* current again, and one that was found was not deleted by then.
LookupSound(q) ==
  /\ q.pc # "idle" => q.key \in issued
  /\ q.pc = "missed" => q.key # current
  /\ q.pc = "found" => /\ q.since <= tick /\ tick - q.since <= LookupTime
                       /\ deletedAt[q.key] = -1 \/ q.since <= deletedAt[q.key]

LookupsSound == \A d \in Deliveries : LookupSound(delivery[d])

Answered == verdict.at <= tick /\ VerdictsRight

DoorInv == DoorTypeOK /\ KeysKnown /\ CacheBound /\ LookupsSound /\ Answered

LEMMA DoorInitInv == DoorInit => DoorInv
<1> SUFFICES ASSUME DoorInit PROVE DoorInv
  OBVIOUS
<1> USE FrontDoorAssumption DEF DoorInit
<1>1. DoorTypeOK
  BY DEF DoorTypeOK, NoLookup, Answer
<1>2. KeysKnown /\ CacheBound
  BY DEF KeysKnown, CacheBound
<1>3. LookupsSound /\ Answered
  BY DEF LookupsSound, LookupSound, NoLookup, Answered, VerdictsRight
<1> QED BY <1>1, <1>2, <1>3 DEF DoorInv

LEMMA TimeStep == ASSUME DoorInv, TimeGoesOn PROVE DoorInv'
<1> USE FrontDoorAssumption DEF DoorInv, TimeGoesOn
<1>1. DoorTypeOK'
  BY DEF DoorTypeOK
<1>2. KeysKnown' /\ CacheBound'
  BY DEF KeysKnown, CacheBound, DoorTypeOK
<1>3. LookupsSound'
  BY DEF LookupsSound, LookupSound, DoorTypeOK
<1>4. Answered'
  BY DEF Answered, VerdictsRight, DoorTypeOK, Answer
<1> QED BY <1>1, <1>2, <1>3, <1>4

LEMMA RotateStep == ASSUME DoorInv, NEW fresh \in DsnKeys, RotateProjectKey(fresh) PROVE DoorInv'
<1> USE FrontDoorAssumption DEF DoorInv, RotateProjectKey, Outgoing
<1>1. DoorTypeOK'
  BY DEF DoorTypeOK
<1>2. KeysKnown'
  BY DEF KeysKnown, DoorTypeOK
<1>3. CacheBound'
  BY DEF CacheBound
<1>4. LookupsSound'
  BY DEF LookupsSound, LookupSound, DoorTypeOK
<1>5. Answered'
  BY DEF Answered, VerdictsRight
<1> QED BY <1>1, <1>2, <1>3, <1>4, <1>5

\* A key, or all of them, goes: it is neither current nor retired any more.
LEMMA DeletionStep ==
  ASSUME DoorInv, NEW gone \in SUBSET ((retired \cup {current}) \ {NoKey}),
         deletedAt' = [k \in DsnKeys |-> IF k \in gone THEN tick ELSE deletedAt[k]],
         retired' = retired \ gone, current' = IF current \in gone THEN NoKey ELSE current,
         UNCHANGED <<tick, issued, expires, delivery, verdict>>
  PROVE  DoorInv'
<1> USE FrontDoorAssumption DEF DoorInv
<1>1. DoorTypeOK'
  BY DEF DoorTypeOK
<1>2. \A k \in gone : k \in DsnKeys /\ k \in issued /\ deletedAt[k] = -1
  BY DEF KeysKnown, DoorTypeOK
<1>3. \A k \in DsnKeys : deletedAt'[k] = IF k \in gone THEN tick ELSE deletedAt[k]
  OBVIOUS
<1>4. KeysKnown'
  BY <1>2, <1>3 DEF KeysKnown, DoorTypeOK
<1>5. CacheBound'
  BY <1>2, <1>3 DEF CacheBound, DoorTypeOK
<1>6. LookupsSound'
  BY <1>2, <1>3 DEF LookupsSound, LookupSound, DoorTypeOK
<1>7. Answered'
  BY <1>2, <1>3 DEF Answered, VerdictsRight, DoorTypeOK, Answer
<1> QED BY <1>1, <1>4, <1>5, <1>6, <1>7

\* A lookup goes from d's to q, the keys and the cache stay.
LEMMA LookupStep ==
  ASSUME DoorInv, NEW d \in Deliveries, NEW q \in Lookups, LookupSound(q),
         delivery' = [delivery EXCEPT ![d] = q],
         UNCHANGED <<tick, current, retired, deletedAt, issued, expires>>,
         verdict' \in Answer, Answered'
  PROVE  DoorInv'
<1> USE DEF DoorInv
<1>1. DoorTypeOK'
  BY DEF DoorTypeOK, Lookups, Answer
<1>2. KeysKnown' /\ CacheBound'
  BY DEF KeysKnown, CacheBound
<1>3. LookupsSound'
  BY DEF LookupsSound, LookupSound, DoorTypeOK
<1> QED BY <1>1, <1>2, <1>3

LEMMA NoLookupSound == NoLookup \in Lookups /\ LookupSound(NoLookup)
  BY FrontDoorAssumption DEF NoLookup, Lookups, LookupSound

LEMMA AskStep == ASSUME DoorInv, NEW d \in Deliveries, NEW k \in DsnKeys, Ask(d, k) PROVE DoorInv'
<1> USE FrontDoorAssumption DEF DoorInv
<1>1. CASE tick <= expires[k]
  <2>1. /\ verdict' = [key |-> k, at |-> tick, ok |-> TRUE]
        /\ UNCHANGED <<tick, current, retired, deletedAt, issued, expires, delivery>>
    BY <1>1 DEF Ask
  <2>2. deletedAt[k] = -1 \/ tick <= deletedAt[k] + LookupTime + KeyTTL
    BY <1>1 DEF CacheBound, DoorTypeOK
  <2>3. Answered' /\ verdict' \in Answer
    BY <2>1, <2>2 DEF Answered, VerdictsRight, Answer, DoorTypeOK
  <2>4. DoorTypeOK' /\ KeysKnown' /\ CacheBound' /\ LookupsSound'
    BY <2>1, <2>3 DEF DoorTypeOK, KeysKnown, CacheBound, LookupsSound, LookupSound, Answer
  <2> QED BY <2>3, <2>4
<1>2. CASE ~(tick <= expires[k])
  <2> DEFINE q == [pc |-> "asked", key |-> k, since |-> tick]
  <2>1. /\ delivery' = [delivery EXCEPT ![d] = q]
        /\ UNCHANGED <<tick, current, retired, deletedAt, issued, expires, verdict>> /\ k \in issued
    BY <1>2 DEF Ask
  <2>2. q \in Lookups /\ LookupSound(q)
    BY <2>1 DEF Lookups, LookupSound, DoorTypeOK
  <2>3. Answered' /\ verdict' \in Answer
    BY <2>1 DEF Answered, VerdictsRight, DoorTypeOK
  <2> QED BY <2>1, <2>2, <2>3, LookupStep
<1> QED BY <1>1, <1>2

\* What a step of a lookup leaves of it.
LEMMA LooksTo ==
  ASSUME DoorInv, NEW d \in Deliveries, NEW pc \in {"missed", "found"}, delivery[d].pc # "idle", Looks(d, pc),
         LET k == delivery[d].key IN IF pc = "missed" THEN k # current ELSE deletedAt[k] = -1
  PROVE  \E q \in Lookups : LookupSound(q) /\ delivery' = [delivery EXCEPT ![d] = q]
<1> DEFINE q == [delivery[d] EXCEPT !.pc = pc, !.since = tick]
<1> USE FrontDoorAssumption DEF DoorInv
<1>1. delivery[d] \in Lookups /\ delivery[d].key \in issued
  BY DEF DoorTypeOK, Lookups, LookupsSound, LookupSound
<1>2. q \in Lookups /\ q.pc = pc /\ q.key = delivery[d].key /\ q.since = tick
  BY <1>1 DEF Lookups, DoorTypeOK
<1>3. LookupSound(q)
  BY <1>1, <1>2 DEF LookupSound, DoorTypeOK
<1>4. delivery' = [delivery EXCEPT ![d] = q]
  BY DEF Looks, DoorTypeOK
<1> QED BY <1>2, <1>3, <1>4

LEMMA LookCurrentStep == ASSUME DoorInv, NEW d \in Deliveries, LookCurrent(d) PROVE DoorInv'
<1> USE DEF DoorInv
<1> DEFINE k == delivery[d].key
<1>1. /\ delivery[d].pc = "asked" /\ Looks(d, IF k = current THEN "found" ELSE "missed")
      /\ UNCHANGED <<tick, current, retired, deletedAt, issued, expires, verdict>>
  BY DEF LookCurrent
<1>2. k \in DsnKeys /\ k \in issued
  BY <1>1 DEF DoorTypeOK, LookupsSound, LookupSound
<1>3. k = current => deletedAt[k] = -1
  BY <1>2 DEF KeysKnown
<1>4. \E q \in Lookups : LookupSound(q) /\ delivery' = [delivery EXCEPT ![d] = q]
  <2>1. CASE k = current
    BY <1>1, <1>3, <2>1, LooksTo
  <2>2. CASE k # current
    BY <1>1, <2>2, LooksTo
  <2> QED BY <2>1, <2>2
<1>5. Answered' /\ verdict' \in Answer
  BY <1>1 DEF Answered, VerdictsRight, DoorTypeOK
<1> QED BY <1>1, <1>4, <1>5, LookupStep

LEMMA LookRetiredStep == ASSUME DoorInv, NEW d \in Deliveries, LookRetired(d) PROVE DoorInv'
<1> USE FrontDoorAssumption DEF DoorInv
<1> DEFINE k == delivery[d].key
<1>1. /\ delivery[d].pc = "missed"
      /\ UNCHANGED <<tick, current, retired, deletedAt, issued, expires>>
  BY DEF LookRetired
<1>2. k \in DsnKeys /\ k \in issued /\ k # current
  BY <1>1 DEF DoorTypeOK, LookupsSound, LookupSound
<1>3. CASE k \in retired
  <2>1. Looks(d, "found") /\ UNCHANGED verdict
    BY <1>3 DEF LookRetired
  <2>2. deletedAt[k] = -1
    BY <1>2, <1>3 DEF KeysKnown
  <2>3. \E q \in Lookups : LookupSound(q) /\ delivery' = [delivery EXCEPT ![d] = q]
    BY <1>1, <2>1, <2>2, LooksTo
  <2>4. Answered' /\ verdict' \in Answer
    BY <1>1, <2>1 DEF Answered, VerdictsRight, DoorTypeOK
  <2> QED BY <1>1, <2>3, <2>4, LookupStep
<1>4. CASE k \notin retired
  <2>1. /\ verdict' = [key |-> k, at |-> tick, ok |-> FALSE]
        /\ delivery' = [delivery EXCEPT ![d] = NoLookup]
    BY <1>4 DEF LookRetired
  <2>2. deletedAt[k] # -1
    BY <1>2, <1>4 DEF KeysKnown
  <2>3. Answered' /\ verdict' \in Answer
    BY <1>1, <1>2, <2>1, <2>2 DEF Answered, VerdictsRight, Answer, DoorTypeOK
  <2> QED BY <1>1, <2>1, <2>3, NoLookupSound, LookupStep
<1> QED BY <1>3, <1>4

LEMMA CacheStep == ASSUME DoorInv, NEW d \in Deliveries, Cache(d) PROVE DoorInv'
<1> USE FrontDoorAssumption DEF DoorInv
<1> DEFINE q == delivery[d]
           k == q.key
<1>1. /\ q.pc = "found" /\ expires' = [expires EXCEPT ![k] = tick + KeyTTL]
      /\ verdict' = [key |-> k, at |-> tick, ok |-> TRUE]
      /\ delivery' = [delivery EXCEPT ![d] = NoLookup]
      /\ UNCHANGED <<tick, current, retired, deletedAt, issued>>
  BY DEF Cache, CachedUntil
<1>2. /\ k \in DsnKeys /\ q.since \in Nat /\ q.since <= tick /\ tick - q.since <= LookupTime
      /\ deletedAt[k] = -1 \/ q.since <= deletedAt[k]
  BY <1>1 DEF DoorTypeOK, LookupsSound, LookupSound
<1>3. tick \in 0..LastTick /\ deletedAt[k] \in -1..LastTick
  BY <1>2 DEF DoorTypeOK
<1>4. DoorTypeOK'
  BY <1>1, <1>2, <1>3, NoLookupSound DEF DoorTypeOK, Lookups, Answer
<1>5. KeysKnown'
  BY <1>1 DEF KeysKnown
<1>6. CacheBound'
  <2>1. \A h \in DsnKeys \ {k} : expires'[h] = expires[h]
    BY <1>1 DEF DoorTypeOK
  <2>2. expires'[k] = tick + KeyTTL
    BY <1>1, <1>2 DEF DoorTypeOK
  <2>3. deletedAt[k] # -1 => tick + KeyTTL <= deletedAt[k] + LookupTime + KeyTTL
    BY <1>2, <1>3
  <2>4. tick' = tick /\ deletedAt' = deletedAt
    BY <1>1
  <2>5. ASSUME NEW h \in DsnKeys
        PROVE  IF deletedAt'[h] = -1 THEN expires'[h] <= tick' + KeyTTL
               ELSE expires'[h] <= deletedAt'[h] + LookupTime + KeyTTL
    <3>1. CASE h = k
      BY <1>3, <2>2, <2>3, <2>4, <3>1
    <3>2. CASE h # k
      BY <2>1, <2>4, <3>2 DEF CacheBound
    <3> QED BY <3>1, <3>2
  <2> QED BY <2>5 DEF CacheBound
<1>7. LookupsSound'
  BY <1>1, NoLookupSound DEF LookupsSound, LookupSound, DoorTypeOK, NoLookup
<1>8. Answered'
  BY <1>1, <1>2, <1>3 DEF Answered, VerdictsRight
<1> QED BY <1>4, <1>5, <1>6, <1>7, <1>8

LEMMA FailStep == ASSUME DoorInv, NEW d \in Deliveries, LookupFails(d) PROVE DoorInv'
<1> USE DEF DoorInv
<1>1. /\ delivery' = [delivery EXCEPT ![d] = NoLookup]
      /\ UNCHANGED <<tick, current, retired, deletedAt, issued, expires, verdict>>
  BY DEF LookupFails
<1>2. Answered' /\ verdict' \in Answer
  BY <1>1 DEF Answered, VerdictsRight, DoorTypeOK
<1> QED BY <1>1, <1>2, NoLookupSound, LookupStep

LEMMA DoorStepInv == DoorInv /\ [DoorNext]_doorVars => DoorInv'
<1> SUFFICES ASSUME DoorInv, [DoorNext]_doorVars PROVE DoorInv'
  OBVIOUS
<1>1. CASE TimeGoesOn
  BY <1>1, TimeStep
<1>2. CASE DeleteProject
  <2> DEFINE gone == retired \cup {current}
  <2>1. gone \in SUBSET ((retired \cup {current}) \ {NoKey})
    BY <1>2, FrontDoorAssumption DEF DeleteProject, DoorInv, DoorTypeOK
  <2>2. /\ deletedAt' = [k \in DsnKeys |-> IF k \in gone THEN tick ELSE deletedAt[k]]
        /\ retired' = retired \ gone /\ current' = NoKey
        /\ UNCHANGED <<tick, issued, expires, delivery, verdict>>
    BY <1>2 DEF DeleteProject
  <2> QED BY <2>1, <2>2, DeletionStep
<1>3. ASSUME NEW k \in DsnKeys, RotateProjectKey(k) PROVE DoorInv'
  BY <1>3, RotateStep
<1>4. ASSUME NEW k \in DsnKeys, DeleteProjectKey(k) PROVE DoorInv'
  <2> DEFINE gone == {k}
  <2>1. gone \in SUBSET ((retired \cup {current}) \ {NoKey}) /\ current \notin gone
    BY <1>4, FrontDoorAssumption DEF DeleteProjectKey, DoorInv, DoorTypeOK
  <2>2. /\ deletedAt' = [h \in DsnKeys |-> IF h \in gone THEN tick ELSE deletedAt[h]]
        /\ retired' = retired \ gone
        /\ UNCHANGED <<tick, current, issued, expires, delivery, verdict>>
    BY <1>4 DEF DeleteProjectKey, DoorInv, DoorTypeOK
  <2> QED BY <2>1, <2>2, DeletionStep
<1>5. ASSUME NEW d \in Deliveries, LookCurrent(d) \/ LookRetired(d) \/ Cache(d) \/ LookupFails(d) PROVE DoorInv'
  BY <1>5, LookCurrentStep, LookRetiredStep, CacheStep, FailStep
<1>6. ASSUME NEW d \in Deliveries, NEW k \in DsnKeys, Ask(d, k) PROVE DoorInv'
  BY <1>6, AskStep
<1>7. CASE UNCHANGED doorVars
  BY <1>7 DEF doorVars, DoorInv, DoorTypeOK, Answer, KeysKnown, CacheBound, LookupsSound, LookupSound,
              Answered, VerdictsRight
<1> QED BY <1>1, <1>2, <1>3, <1>4, <1>5, <1>6, <1>7 DEF DoorNext

\* A key works from the day it is given out until somebody deletes it, through
\* any rotation, and is refused once the cache of the last lookup that found it
\* has run out: any number of keys and requests, any lifetime of the cache.
THEOREM KeysWorkUntilDeleted == DoorSpec => []VerdictsRight
<1>1. DoorInv => VerdictsRight
  BY DEF DoorInv, Answered
<1> QED BY <1>1, DoorInitInv, DoorStepInv, PTL DEF DoorSpec

-----------------------------------------------------------------------------
(* Arrival. *)

\* A row of an event whose own time was usable has that time, unless the time
\* has left the window: then the server's was taken.
RowsDated ==
  /\ now \in Nat
  /\ \A r \in rows :
       /\ r.id \in Arriving /\ r.at \in Int
       /\ r.id \notin guessed =>
            Stamp[r.id] \in Int /\ (r.at = Stamp[r.id] \/ Stamp[r.id] < now - Window)
  /\ ResendFound

LEMMA RowsDatedStep == ASSUME RowsDated, [ArrivalNext]_arrivalVars PROVE RowsDated'
<1> USE ArrivalAssumption
<1>1. CASE ClockTicks
  <2>1. now' = now + 1 /\ UNCHANGED <<rows, guessed>>
    BY <1>1 DEF ClockTicks
  <2>2. ResendFound'
    BY <2>1 DEF RowsDated, ResendFound, Twice
  <2>3. \A r \in rows : r.id \notin guessed /\ Stamp[r.id] < now - Window => Stamp[r.id] < now' - Window
    BY <2>1 DEF RowsDated
  <2> QED BY <2>1, <2>2, <2>3 DEF RowsDated
<1>2. CASE DropRow
  BY <1>2 DEF DropRow, RowsDated, ResendFound, Twice
<1>3. ASSUME NEW m \in Mails, Deliver(m) PROVE RowsDated'
  <2> DEFINE news == m \ (FoundInRange(m) \cup FoundAnyTime(m))
  <2>1. /\ rows' = rows \cup {[id |-> e, at |-> Time(e)] : e \in news}
        /\ guessed' = guessed \cup {e \in m : Stamp[e] = NoStamp \/ Ahead(Dated(e))}
        /\ now' = now
    BY <1>3 DEF Deliver
  <2>2. m \subseteq Arriving /\ now \in Nat
    BY DEF RowsDated
  <2>3. \A e \in m : Time(e) \in Int
    BY <2>2 DEF Time, Dated
  <2>4. \A e \in m \ guessed' :
           /\ Stamp[e] \in Int
           /\ IF Clamped(e) THEN Stamp[e] < now - Window ELSE Time(e) = Stamp[e] /\ ~(Stamp[e] < now - Window)
    BY <2>1, <2>2 DEF Clamped, Time, Dated, Ahead, Past
  <2>5. ASSUME NEW r \in rows' PROVE r \in rows \/ (r.id \in news /\ r = [id |-> r.id, at |-> Time(r.id)])
    BY <2>1
  <2>6. ASSUME NEW r \in rows, r.id \in news, r.id \notin guessed' PROVE FALSE
    <3>1. Stamp[r.id] \in Int /\ (r.at = Stamp[r.id] \/ Stamp[r.id] < now - Window)
      BY <2>1, <2>6 DEF RowsDated
    <3>2. CASE Clamped(r.id)
      BY <2>6, <3>2 DEF FoundAnyTime
    <3>3. CASE ~Clamped(r.id)
      <4>1. Time(r.id) = r.at /\ r.at \in Int
        BY <2>4, <2>6, <3>1, <3>3
      <4> QED BY <2>6, <4>1 DEF FoundInRange
    <3> QED BY <3>2, <3>3
  <2>7. ResendFound'
    <3> SUFFICES ASSUME NEW e \in Arriving \ guessed', NEW r \in rows', NEW s \in rows', r.id = e, s.id = e
                 PROVE  r = s
      BY DEF ResendFound, Twice
    <3>1. CASE r \in rows /\ s \in rows
      BY <2>1, <3>1 DEF RowsDated, ResendFound, Twice
    <3>2. CASE r \notin rows \/ s \notin rows
      BY <2>5, <2>6, <3>2
    <3> QED BY <3>1, <3>2
  <2>8. ASSUME NEW r \in rows'
        PROVE  /\ r.id \in Arriving /\ r.at \in Int
               /\ r.id \notin guessed' =>
                    Stamp[r.id] \in Int /\ (r.at = Stamp[r.id] \/ Stamp[r.id] < now - Window)
    <3>1. CASE r \in rows
      BY <2>1, <3>1 DEF RowsDated
    <3>2. CASE r \notin rows
      BY <2>2, <2>3, <2>4, <2>5, <3>2
    <3> QED BY <3>1, <3>2
  <2> QED BY <2>1, <2>2, <2>7, <2>8 DEF RowsDated
<1>4. CASE UNCHANGED arrivalVars
  BY <1>4 DEF arrivalVars, RowsDated, ResendFound, Twice
<1> QED BY <1>1, <1>2, <1>3, <1>4 DEF ArrivalNext

\* ResendFound: an envelope the SDK sends again is not counted twice
\* (ingest.go:351-353), at any age, for any envelopes and times, when the device
\* gave its events a time that was not ahead.
THEOREM ResendsFound == ArrivalSpec => []ResendFound
<1>1. ArrivalInit => RowsDated
  BY DEF ArrivalInit, RowsDated, ResendFound, Twice
<1>2. RowsDated => ResendFound
  BY DEF RowsDated
<1>3. RowsDated /\ [ArrivalNext]_arrivalVars => RowsDated'
  BY RowsDatedStep
<1> QED BY <1>1, <1>2, <1>3, PTL DEF ArrivalSpec

-----------------------------------------------------------------------------
(* Grouping. *)

\* The crash was grouped as it was seen in some run, before any line moved.
GroupingInv ==
  site # NoSite =>
    /\ site \in CrashSites /\ run.at \in Layouts
    /\ \E at \in Layouts : grouped = Fingerprint(site, [at |-> at, lines |-> 0])

\* A selected frame's address: an image that covers it is its own, so its place
\* is its image and its offset, wherever the loader put the images; what no
\* image covers has none.
LEMMA PlaceStays ==
  ASSUME NEW at \in Layouts, NEW f \in FrameContent, f.image # 0,
         f.image \in DOMAIN Images => f.offset < Images[f.image].size
  PROVE  Place(Address(f, at), at) =
           IF f.image \in DOMAIN Images THEN [id |-> Images[f.image].id, offset |-> f.offset] ELSE [id |-> "", offset |-> 0]
<1> DEFINE n    == Len(Images)
           k    == f.image
           addr == at[k] + f.offset
           own  == [i \in DOMAIN Images |-> i]
           I    == {i \in 1..Len(own) : Covers(own[i], addr, at)}
<1>1. /\ n \in Nat /\ DOMAIN Images = 1..n /\ \A i \in 1..n : Images[i].size \in Nat /\ Images[i].size > 0
      /\ k \in 1..(n + 1) /\ f.offset \in Nat
  <2>1. n \in Nat /\ DOMAIN Images = 1..n
    BY GroupingAssumption
  <2>2. \A i \in 1..n : Images[i].size \in Nat /\ Images[i].size > 0
    <3> DEFINE T == [id : STRING, size : Nat \ {0}]
    <3>1. Images \in Seq(T)
      BY GroupingAssumption
    <3> HIDE DEF T
    <3>2. \A i \in 1..n : Images[i] \in T
      BY <2>1, <3>1
    <3> QED BY <3>2 DEF T
  <2>3. k \in 1..(n + 1) /\ f.offset \in Nat
    BY <2>1 DEF FrameContent
  <2> QED BY <2>1, <2>2, <2>3
<1>2. \A i \in 1..(n + 1) : at[i] \in Nat
  <2>1. at \in Seq(Nat) /\ Len(at) = n + 1
    BY GroupingAssumption
  <2> QED BY <1>1, <2>1
<1>3. /\ \A i, j \in 1..n : i # j => at[i] + Images[i].size <= at[j] \/ at[j] + Images[j].size <= at[i]
      /\ \A i \in 1..n : at[n + 1] >= at[i] + Images[i].size
  BY <1>1, GroupingAssumption
<1>4. Address(f, at) = addr /\ addr \in Nat
  BY <1>1, <1>2 DEF Address
<1>5. Len(own) = n /\ \A i \in 1..n : own[i] = i
  BY <1>1
<1>6. ImageAt(addr, at) = IF I # {} THEN Min(I) ELSE 0
  BY DEF ImageAt, SelectInSeq
<1> HIDE DEF own
<1>7. I = {i \in 1..n : at[i] <= addr /\ addr < at[i] + Images[i].size}
  BY <1>5 DEF Covers
<1> HIDE DEF I, n
<1>8. CASE k \in 1..n
  <2>1. f.offset < Images[k].size /\ at[k] \in Nat /\ Images[k].size \in Nat
    BY <1>1, <1>2, <1>8
  <2>2. k \in I
    BY <1>1, <1>7, <1>8, <2>1
  <2>3. ASSUME NEW i \in I, i # k PROVE FALSE
    <3>1. i \in 1..n /\ at[i] <= addr /\ addr < at[i] + Images[i].size /\ at[i] \in Nat /\ Images[i].size \in Nat
      BY <1>1, <1>2, <1>7
    <3>2. at[i] + Images[i].size <= at[k] \/ at[k] + Images[k].size <= at[i]
      BY <1>3, <1>8, <2>3, <3>1
    <3> QED BY <1>1, <2>1, <3>1, <3>2
  <2>4. I = {k}
    BY <2>2, <2>3
  <2>5. Min(I) = k
    BY <1>1, <2>4 DEF Min
  <2>6. ImageAt(addr, at) = k /\ k # 0
    BY <1>1, <1>6, <2>2, <2>5
  <2>7. addr - at[k] = f.offset
    BY <1>1, <2>1
  <2> HIDE DEF addr
  <2> QED BY <1>1, <1>4, <1>8, <2>6, <2>7 DEF Place
<1>9. CASE k \notin 1..n
  <2>1. k = n + 1
    BY <1>1, <1>9
  <2>2. ASSUME NEW i \in I PROVE FALSE
    <3>1. i \in 1..n /\ addr < at[i] + Images[i].size /\ at[i] \in Nat /\ Images[i].size \in Nat
      BY <1>1, <1>2, <1>7
    <3>2. at[n + 1] >= at[i] + Images[i].size /\ at[n + 1] \in Nat
      BY <1>1, <1>2, <1>3, <3>1
    <3> QED BY <1>1, <2>1, <3>1, <3>2
  <2>3. ImageAt(addr, at) = 0
    BY <1>6, <2>2
  <2> HIDE DEF addr
  <2> QED BY <1>1, <1>4, <1>9, <2>3 DEF Place
<1> QED BY <1>8, <1>9

\* A crash's fingerprint is the same in two runs, unless lines tell.
LEMMA FingerprintStays ==
  ASSUME NEW c \in CrashSites, NEW r, NEW q, r.at \in Layouts, q.at \in Layouts, q.lines = 0,
         r.lines = 0 \/ ~KeepLine(EventFrames(c))
  PROVE  Fingerprint(c, r) = Fingerprint(c, q)
<1> DEFINE fs == EventFrames(c)
<1>1. ASSUME NEW i \in DOMAIN Selected(fs)
      PROVE  Part(Selected(fs)[i], r, KeepLine(fs)) = Part(Selected(fs)[i], q, KeepLine(fs))
  <2> DEFINE f == Selected(fs)[i]
  <2>1. f \in FrameContent /\ (f.image \in DOMAIN Images => f.offset < Images[f.image].size)
    BY FramesFit
  <2> HIDE DEF f, fs
  <2>2. f.image # 0 => Place(Address(f, r.at), r.at) = Place(Address(f, q.at), q.at)
    BY <2>1, PlaceStays
  <2>3. (IF KeepLine(fs) /\ f.line > 0 THEN f.line + r.lines ELSE 0) = (IF KeepLine(fs) /\ f.line > 0 THEN f.line + q.lines ELSE 0)
    BY DEF fs
  <2> QED BY <2>2, <2>3 DEF Part, f
<1>2. FrameSignature(fs, r) = FrameSignature(fs, q)
  <2> HIDE DEF fs
  <2> QED BY <1>1 DEF FrameSignature
<1>3. DefaultSignature(c, r) = DefaultSignature(c, q)
  BY <1>2 DEF DefaultSignature
<1> QED BY <1>3 DEF Fingerprint

\* A set of positions is in order by their sizes; the kept element of a
\* position has its place among the kept.
LEMMA KeptHas ==
  ASSUME NEW s, NEW I, IsFiniteSet(I), I \subseteq Nat, NEW i \in I
  PROVE  /\ Cardinality({j \in I : j < i}) + 1 \in 1..Cardinality(I)
         /\ Kept(s, I)[Cardinality({j \in I : j < i}) + 1] = s[i]
<1> DEFINE R == {p \in Nat \X Nat : p[1] < p[2]}
           place(x) == Cardinality({j \in I : j < x})
<1>1. StrictlyOrders(R, I)
  BY DEF StrictlyOrders
<1>2. \A x \in I : Below(R, I, x) = {j \in I : j < x}
  BY DEF Below
<1>3. ASSUME NEW x \in I, NEW y \in I
      PROVE  /\ place(x) \in Int /\ 0 <= place(x) /\ place(x) + 1 <= Cardinality(I)
             /\ <<x, y>> \in R <=> place(x) < place(y)
  <2>1. Below(R, I, x) = {j \in I : j < x} /\ Below(R, I, y) = {j \in I : j < y}
    BY <1>2
  <2>2. /\ Cardinality(Below(R, I, x)) \in 0..(Cardinality(I) - 1)
        /\ <<x, y>> \in R <=> Cardinality(Below(R, I, x)) < Cardinality(Below(R, I, y))
    <3> HIDE DEF R
    <3> QED BY <1>1, RankGrows
  <2>3. Cardinality(I) \in Nat
    BY FS_CardinalityType
  <2>4. place(x) = Cardinality(Below(R, I, x)) /\ place(y) = Cardinality(Below(R, I, y))
    BY <2>1
  <2> HIDE DEF place, R
  <2> QED BY <2>2, <2>3, <2>4
<1>4. \A x \in I : place(x) = place(i) => x = i
  <2> SUFFICES ASSUME NEW x \in I, place(x) = place(i), x # i PROVE FALSE
    OBVIOUS
  <2>1. <<x, i>> \in R \/ <<i, x>> \in R
    OBVIOUS
  <2> HIDE DEF R, place
  <2>2. place(x) < place(i) \/ place(i) < place(x)
    BY <1>3, <2>1
  <2>3. place(x) \in Int /\ place(i) \in Int
    BY <1>3
  <2> QED BY <2>2, <2>3
<1> HIDE DEF place, R
<1>5. Cardinality(I) \in Nat
  BY FS_CardinalityType
<1>6. place(i) + 1 \in 1..Cardinality(I) /\ (place(i) + 1) - 1 = place(i)
  <2>1. place(i) \in Int /\ 0 <= place(i) /\ place(i) + 1 <= Cardinality(I)
    BY <1>3
  <2> QED BY <1>5, <2>1
<1>7. (CHOOSE x \in I : place(x) = (place(i) + 1) - 1) = i
  BY <1>4, <1>6
<1> QED BY <1>6, <1>7 DEF Kept, place

LEMMA KeptLength ==
  ASSUME NEW s, NEW I, IsFiniteSet(I)
  PROVE  /\ Cardinality(I) \in Nat
         /\ DOMAIN Kept(s, I) = 1..Cardinality(I) /\ Len(Kept(s, I)) = Cardinality(I)
         /\ \E T : Kept(s, I) \in Seq(T)
         /\ Kept(s, I) = <<>> <=> I = {}
<1> DEFINE n == Cardinality(I)
           e(k) == s[CHOOSE i \in I : Cardinality({j \in I : j < i}) = k - 1]
           t == [k \in 1..n |-> e(k)]
<1>1. n \in Nat /\ (n = 0 <=> I = {})
  BY FS_CardinalityType, FS_EmptySet
<1>2. Kept(s, I) = t
  BY DEF Kept
<1> HIDE DEF n, e
<1>3. t \in Seq({t[k] : k \in 1..n}) /\ Len(t) = n /\ DOMAIN t = 1..n
  BY <1>1
<1>4. t = <<>> <=> n = 0
  <2> HIDE DEF t
  <2> QED BY <1>3
<1> HIDE DEF t
<1> QED BY <1>1, <1>2, <1>3, <1>4 DEF n

LEMMA MaxIn ==
  ASSUME NEW I, I # {}, NEW n \in Nat, I \subseteq 0..n
  PROVE  Max(I) \in I /\ \A j \in I : Max(I) >= j
<1> DEFINE T == {n - i : i \in I}
<1>1. T \in SUBSET Nat /\ T # {}
  <2>1. \A i \in I : n - i \in Nat
    OBVIOUS
  <2> QED BY <2>1
<1>2. PICK t \in T : \A m \in T : t <= m
  <2> HIDE DEF T
  <2> QED BY <1>1, LeastNat
<1>3. PICK i \in I : t = n - i
  BY <1>2
<1>4. \A j \in I : i >= j
  <2> SUFFICES ASSUME NEW j \in I PROVE i >= j
    OBVIOUS
  <2>1. n - i <= n - j /\ i \in Int /\ j \in Int
    BY <1>2, <1>3
  <2> QED BY <2>1
<1> QED BY <1>4 DEF Max

\* The stack of an event is one of those it came with.
LEMMA FramesTyped ==
  ASSUME NEW c \in CrashSites
  PROVE  EventFrames(c) \in Seq(FrameContent)
<1> DEFINE X == [type : STRING, frames : Seq(FrameContent), id : Int, parent : Int]
           T == [crashed : BOOLEAN, current : BOOLEAN, frames : Seq(FrameContent)]
           own == c.exceptions[MainException(c.exceptions)].frames
<1>1. c.exceptions \in Seq(X) /\ c.threads \in Seq(T)
  BY GroupingAssumption DEF CrashSite
<1>2. (\A x \in X : x.frames \in Seq(FrameContent)) /\ (\A t \in T : t.frames \in Seq(FrameContent))
  OBVIOUS
<1> HIDE DEF X, T
<1>3. ASSUME c.exceptions # <<>> PROVE own \in Seq(FrameContent)
  <2> DEFINE xs == c.exceptions
             I == {i \in 1..Len(xs) : xs[i].id # -1 /\ xs[i].parent = -1}
  <2>1. MainException(xs) = IF (IF I # {} THEN Min(I) ELSE 0) = 0 THEN Len(xs) ELSE (IF I # {} THEN Min(I) ELSE 0)
    BY DEF MainException, SelectInSeq
  <2>2. I # {} => Min(I) \in 1..Len(xs)
    <3>1. I \subseteq 1..Len(xs) /\ I \subseteq Nat
      OBVIOUS
    <3> HIDE DEF I
    <3> QED BY <3>1, MinIn
  <2>3. MainException(xs) \in 1..Len(xs)
    <3>1. Len(xs) \in 1..Len(xs)
      BY <1>1, <1>3
    <3> HIDE DEF I, xs
    <3> QED BY <2>1, <2>2, <3>1
  <2> QED BY <1>1, <1>2, <2>3
<1>4. ThreadFrames(c.threads) \in Seq(FrameContent)
  <2> DEFINE ts == c.threads
             I == {i \in 1..Len(ts) : ts[i].frames # <<>> /\ ts[i].crashed}
             J == {i \in 1..Len(ts) : ts[i].frames # <<>> /\ ts[i].current}
  <2>1. ThreadFrames(ts) = LET a == IF I # {} THEN Min(I) ELSE 0
                               b == IF J # {} THEN Min(J) ELSE 0
                           IN IF a # 0 THEN ts[a].frames ELSE IF b # 0 THEN ts[b].frames ELSE <<>>
    BY DEF ThreadFrames, SelectInSeq
  <2>2. (I # {} => Min(I) \in 1..Len(ts)) /\ (J # {} => Min(J) \in 1..Len(ts))
    <3>1. I \subseteq 1..Len(ts) /\ J \subseteq 1..Len(ts) /\ I \subseteq Nat /\ J \subseteq Nat
      OBVIOUS
    <3> HIDE DEF I, J
    <3> QED BY <3>1, MinIn
  <2>3. \A i \in 1..Len(ts) : ts[i].frames \in Seq(FrameContent)
    BY <1>1, <1>2
  <2>4. <<>> \in Seq(FrameContent)
    OBVIOUS
  <2> HIDE DEF I, J, ts
  <2> QED BY <2>1, <2>2, <2>3, <2>4 DEF ts
<1> HIDE DEF own
<1> QED BY <1>3, <1>4 DEF EventFrames, own

LEMMA RankBounds ==
  ASSUME NEW f
  PROVE  Rank(f) \in 0..3 /\ (f.inApp <=> Rank(f) >= 2)
<1> DEFINE a == IF f.file # "" THEN 1 ELSE 0
           b == IF f.inApp THEN 2 ELSE 0
<1>1. a \in {0, 1} /\ b \in {0, 2} /\ (f.inApp <=> b = 2) /\ Rank(f) = a + b
  BY DEF Rank
<1> HIDE DEF a, b
<1> QED BY <1>1

\* The culprit is a code frame that none outranks.
LEMMA CulpritRanks ==
  ASSUME NEW fs \in Seq(FrameContent), CodeAt(fs) # {}
  PROVE  /\ Culprit(fs) \in CodeAt(fs)
         /\ \A i \in CodeAt(fs) : Rank(fs[i]) <= Rank(fs[Culprit(fs)])
<1> DEFINE n == Len(fs)
           Top == {i \in 1..n : IsCode(fs[i]) /\ \A j \in DOMAIN fs : IsCode(fs[j]) => Rank(fs[j]) <= Rank(fs[i])}
           T == {3 - Rank(fs[i]) : i \in CodeAt(fs)}
<1>1. DOMAIN fs = 1..n /\ n \in Nat
  OBVIOUS
<1>2. \A i \in 1..n : Rank(fs[i]) \in 0..3
  BY RankBounds
<1>3. T \in SUBSET Nat /\ T # {}
  BY <1>1, <1>2 DEF CodeAt
<1>4. PICK t \in T : \A m \in T : t <= m
  <2> HIDE DEF T
  <2> QED BY <1>3, LeastNat
<1>5. PICK i \in CodeAt(fs) : t = 3 - Rank(fs[i])
  BY <1>4
<1>6. i \in Top
  <2>1. i \in 1..n /\ IsCode(fs[i])
    BY <1>1 DEF CodeAt
  <2>2. ASSUME NEW j \in 1..n, IsCode(fs[j]) PROVE Rank(fs[j]) <= Rank(fs[i])
    <3>1. j \in CodeAt(fs)
      BY <1>1, <2>2 DEF CodeAt
    <3>2. 3 - Rank(fs[i]) <= 3 - Rank(fs[j])
      BY <1>4, <1>5, <3>1
    <3>3. Rank(fs[i]) \in Int /\ Rank(fs[j]) \in Int
      BY <1>2, <2>1
    <3> QED BY <3>2, <3>3
  <2> QED BY <1>1, <2>1, <2>2
<1>7. Culprit(fs) = Max(Top)
  BY <1>6 DEF Culprit, SelectLastInSeq
<1>8. Max(Top) \in Top
  <2>1. Top # {} /\ Top \subseteq 0..n
    BY <1>1, <1>6
  <2> HIDE DEF Top
  <2> QED BY <1>1, <2>1, MaxIn
<1> QED BY <1>1, <1>7, <1>8 DEF CodeAt

\* At most five code frames are all selected, or all of the program's own.
LEMMA CulpritSelected ==
  ASSUME NEW fs \in Seq(FrameContent), Code(fs) # <<>>, Len(Code(fs)) <= 5
  PROVE  fs[Culprit(fs)] \in ToSet(Selected(fs))
<1> DEFINE A == CodeAt(fs)
           B == {i \in A : fs[i].inApp}
           c == Culprit(fs)
<1>1. A \in SUBSET (1..Len(fs)) /\ IsFiniteSet(A) /\ IsFiniteSet(B) /\ Cardinality(B) <= Cardinality(A) /\ A \subseteq Nat
  <2>1. A \in SUBSET (1..Len(fs)) /\ Len(fs) \in Nat
    BY DEF CodeAt
  <2>2. IsFiniteSet(A)
    <3>1. IsFiniteSet(1..Len(fs))
      BY <2>1, FS_Interval
    <3> HIDE DEF A
    <3> QED BY <2>1, <3>1, FS_Subset
  <2>3. B \in SUBSET A
    OBVIOUS
  <2>4. A \subseteq Nat
    BY <2>1
  <2> HIDE DEF A, B
  <2>5. IsFiniteSet(B) /\ Cardinality(B) <= Cardinality(A)
    BY <2>2, <2>3, FS_Subset
  <2> QED BY <2>1, <2>2, <2>4, <2>5
<1>2. Cardinality(A) \in Nat /\ Cardinality(B) \in Nat
  BY <1>1, FS_CardinalityType
<1>4. Len(Code(fs)) = Cardinality(A) /\ Cardinality(A) <= 5 /\ A # {}
  BY <1>1, KeptLength DEF Code
<1>5. c \in A /\ \A i \in A : Rank(fs[i]) <= Rank(fs[c])
  BY <1>4, CulpritRanks
<1>6. ASSUME NEW I, IsFiniteSet(I), I \subseteq Nat, c \in I, Cardinality(I) \in Nat, Cardinality(I) <= 5,
             Selected(fs) = LastFive(Kept(fs, I))
      PROVE  fs[c] \in ToSet(Selected(fs))
  <2> DEFINE s == Kept(fs, I)
             k == Cardinality({j \in I : j < c}) + 1
  <2>1. k \in 1..Cardinality(I) /\ s[k] = fs[c]
    BY <1>6, KeptHas
  <2>2. PICK T : s \in Seq(T) /\ Len(s) = Cardinality(I)
    BY <1>6, KeptLength
  <2> HIDE DEF s, k
  <2>3. LastFive(s) = SubSeq(s, 1, Len(s))
    BY <1>6, <2>2 DEF LastFive
  <2>4. k \in DOMAIN LastFive(s) /\ LastFive(s)[k] = s[k]
    BY <2>1, <2>2, <2>3
  <2> QED BY <1>6, <2>1, <2>4 DEF ToSet, s
<1>7. CASE B = {}
  <2>1. InApp(fs) = <<>>
    BY <1>1, <1>7, KeptLength DEF InApp
  <2> QED BY <1>1, <1>2, <1>4, <1>5, <1>6, <2>1 DEF Selected, Code
<1>8. CASE B # {}
  <2>1. PICK i \in B : TRUE
    BY <1>8
  <2>2. fs[c].inApp
    <3>1. i \in 1..Len(fs) /\ c \in 1..Len(fs) /\ fs[i].inApp
      BY <1>1, <1>5, <2>1
    <3> QED BY <1>5, <2>1, <3>1, RankBounds
  <2>3. c \in B
    BY <1>5, <2>2
  <2>4. InApp(fs) # <<>>
    <3>1. InApp(fs) = Kept(fs, B)
      BY DEF InApp
    <3> HIDE DEF B
    <3> QED BY <1>1, <1>8, <3>1, KeptLength
  <2>5. Selected(fs) = LastFive(Kept(fs, B))
    BY <2>4 DEF Selected, InApp
  <2>6. B \subseteq Nat /\ Cardinality(B) <= 5
    BY <1>1, <1>2, <1>4
  <2> HIDE DEF A, B, c
  <2> QED BY <1>1, <1>2, <1>6, <2>3, <2>5, <2>6 DEF c
<1> QED BY <1>7, <1>8

LEMMA GroupingStepInv == ASSUME GroupingInv, [GroupingNext]_groupingVars PROVE GroupingInv'
<1>1. ASSUME NEW at \in Layouts, NEW c \in CrashSites, Crash(c, at) PROVE GroupingInv'
  <2>1. site' = c /\ run' = [at |-> at, lines |-> 0] /\ grouped' = Fingerprint(c, run')
    BY <1>1 DEF Crash
  <2> QED BY <2>1 DEF GroupingInv
<1>2. ASSUME NEW at \in Layouts, NEW lines \in Edits, RunAgain(at, lines) PROVE GroupingInv'
  <2>1. run'.at = at /\ site' = site /\ grouped' = grouped
    BY <1>2 DEF RunAgain
  <2> QED BY <2>1 DEF GroupingInv
<1>3. CASE UNCHANGED groupingVars
  <2>1. UNCHANGED <<site, run, grouped>>
    BY <1>3 DEF groupingVars
  <2> QED BY <2>1 DEF GroupingInv
<1> QED BY <1>1, <1>2, <1>3 DEF GroupingNext

\* A crash is one issue wherever the loader puts the images and however edits
\* move the lines (analyze.go:110-114, 132-136), and a frame in the title of an
\* issue is one it is grouped by, for any crashes, images and layouts.
THEOREM CrashesGroupTogether == GroupingSpec => []OneIssuePerCrash
<1>1. GroupingInit => GroupingInv
  BY DEF GroupingInit, GroupingInv
<1>2. GroupingInv => OneIssuePerCrash
  <2> SUFFICES ASSUME GroupingInv, site # NoSite PROVE SameIssue /\ CulpritGrouped
    BY DEF OneIssuePerCrash
  <2>1. SameIssue
    BY FingerprintStays DEF GroupingInv, SameIssue
  <2>2. CulpritGrouped
    BY FramesTyped, CulpritSelected DEF GroupingInv, CulpritGrouped
  <2> QED BY <2>1, <2>2
<1> QED BY <1>1, <1>2, GroupingStepInv, PTL DEF GroupingSpec

-----------------------------------------------------------------------------
(* Reports. *)

\* The envelopes so far that mention a release, tell of a session, report on
\* an event.
Mentions(r) == {i \in 1..Len(posted) : NotesRelease(posted[i].post) /\ posted[i].post.release = r}
Told(s)     == {i \in 1..Len(posted) : HasSession(posted[i].post) /\ posted[i].post.session = s}
Said(e)     == {i \in 1..Len(posted) : HasReport(posted[i].post) /\ posted[i].post.event = e}

\* Every name has a row, if only an empty one; a report has its two columns.
ReportsTypes ==
  /\ posted \in Seq([post : Posts, stored : BOOLEAN])
  /\ DOMAIN seen = ReleaseNames /\ DOMAIN status = SessionIds
  /\ DOMAIN files = EventIds /\ DOMAIN report = EventIds
  /\ \A e \in EventIds : report[e] = [words |-> report[e].words, at |-> report[e].at]

\* A release that was mentioned has the platforms of the mentions and the time
\* of the oldest.
SeenSound ==
  \A r \in ReleaseNames :
    IF Mentions(r) = {} THEN seen[r] = NoReleaseRow
    ELSE /\ DOMAIN seen[r] = {"platforms", "first"}
         /\ \E i \in Mentions(r) : seen[r].first = posted[i].post.at
         /\ \A i \in Mentions(r) : seen[r].first <= posted[i].post.at
         /\ seen[r].platforms = UNION {Platforms(posted[i].post) : i \in Mentions(r)}

\* A session has one of the statuses it was told, "ok" only if no other.
StatusSound ==
  \A s \in SessionIds :
    IF Told(s) = {} THEN status[s] = "none"
    ELSE /\ \E i \in Told(s) : status[s] = SessionStatus(posted[i].post)
         /\ status[s] = "ok" => \A i \in Told(s) : SessionStatus(posted[i].post) = "ok"

\* A report has the words of the last that came and the time of the first.
ReportSound ==
  \A e \in EventIds :
    IF Said(e) = {} THEN report[e] = NoReport
    ELSE /\ \E i \in Said(e) : (\A j \in Said(e) : j <= i) /\ report[e].words = posted[i].post.words
         /\ report[e].at \in Said(e) /\ \A j \in Said(e) : report[e].at <= j

\* A stored event has arrived and has what came with it, and is not stored anew.
FilesSound ==
  \A i \in 1..Len(posted) : posted[i].stored =>
    posted[i].post.event \in arrived /\ files[posted[i].post.event] = posted[i].post.files

ReportsInv == ReportsTypes /\ SeenSound /\ StatusSound /\ ReportSound /\ FilesSound /\ LostAsPosted

-----------------------------------------------------------------------------

\* Of an envelope before and after the next one is posted.
LEMMA PostedKept ==
  ASSUME ReportsTypes, NEW p \in Posts, NEW sampled \in BOOLEAN, Post(p, sampled)
  PROVE  LET n == Len(posted) IN
         /\ n \in Nat /\ Len(posted') = n + 1 /\ posted' \in Seq([post : Posts, stored : BOOLEAN])
         /\ \A i \in 1..n : posted'[i] = posted[i] /\ posted[i].post \in Posts
         /\ posted'[n + 1].post = p
         /\ posted'[n + 1].stored = (p.event # Absent /\ p.event \notin arrived /\ ~sampled)
         /\ 1..(n + 1) = 1..n \cup {n + 1} /\ n + 1 \notin 1..n /\ \A i \in 1..n : i <= n + 1 /\ i \in Nat
<1> DEFINE n    == Len(posted)
           T    == [post : Posts, stored : BOOLEAN]
           news == p.event # Absent /\ p.event \notin arrived /\ ~sampled
           added == [post |-> p, stored |-> news]
<1>1. posted' = Append(posted, added)
  BY DEF Post
<1>2. posted \in Seq(T) /\ added \in T
  BY DEF ReportsTypes
<1>3. \A t \in T : t.post \in Posts
  OBVIOUS
<1>4. added.post = p /\ added.stored = news
  OBVIOUS
<1> HIDE DEF T, added, news
<1>5. n \in Nat /\ Len(posted') = n + 1 /\ posted' \in Seq(T) /\ posted'[n + 1] = added
  BY <1>1, <1>2
<1>6. \A i \in 1..n : posted'[i] = posted[i] /\ posted[i] \in T
  BY <1>1, <1>2
<1>7. 1..(n + 1) = 1..n \cup {n + 1} /\ n + 1 \notin 1..n /\ \A i \in 1..n : i <= n + 1 /\ i \in Nat
  BY <1>5
<1> QED BY <1>3, <1>4, <1>5, <1>6, <1>7 DEF T, news

\* UpsertReleases: the earlier of two times, the platforms of both.
LEMMA SeenStep ==
  ASSUME ReportsInv, NEW p \in Posts, NEW sampled \in BOOLEAN, Post(p, sampled)
  PROVE  SeenSound' /\ DOMAIN seen' = ReleaseNames
<1> USE DEF ReportsInv
<1> DEFINE n == Len(posted)
           noted == NotesRelease(p)
<1>1. /\ n \in Nat /\ Len(posted') = n + 1 /\ \A i \in 1..n : posted'[i] = posted[i] /\ posted[i].post \in Posts
      /\ posted'[n + 1].post = p /\ 1..(n + 1) = 1..n \cup {n + 1} /\ n + 1 \notin 1..n
  BY PostedKept
<1>2. seen' = IF noted THEN [seen EXCEPT ![p.release] = UpsertRelease(@, p)] ELSE seen
  BY DEF Post
<1>3. DOMAIN seen = ReleaseNames /\ (noted => p.release \in ReleaseNames)
  BY DEF ReportsTypes, NotesRelease, ReleaseNames, Named
<1>4. \A q \in Posts : q.at \in Nat
  BY ReportsAssumption DEF PostContent
<1> HIDE DEF n, noted
<1>5. ASSUME NEW r \in ReleaseNames
      PROVE  IF Mentions(r)' = {} THEN seen'[r] = NoReleaseRow
             ELSE /\ DOMAIN seen'[r] = {"platforms", "first"}
                  /\ \E i \in Mentions(r)' : seen'[r].first = posted'[i].post.at
                  /\ \A i \in Mentions(r)' : seen'[r].first <= posted'[i].post.at
                  /\ seen'[r].platforms = UNION {Platforms(posted'[i].post) : i \in Mentions(r)'}
  <2>1. Mentions(r) \subseteq 1..n /\ \A i \in Mentions(r) : posted'[i].post = posted[i].post /\ posted[i].post.at \in Nat
    BY <1>1, <1>4 DEF Mentions, n
  <2>2. CASE noted /\ p.release = r
    <3>1. Mentions(r)' = Mentions(r) \cup {n + 1}
      BY <1>1, <2>2 DEF Mentions, noted, n
    <3>2. seen'[r] = UpsertRelease(seen[r], p)
      BY <1>2, <1>3, <2>2
    <3>3. p.at \in Nat
      BY <1>4
    <3>4. CASE Mentions(r) = {}
      <4>1. seen'[r] = [platforms |-> Platforms(p), first |-> p.at]
        BY <3>2, <3>4 DEF UpsertRelease, SeenSound
      <4>2. Mentions(r)' = {n + 1}
        BY <3>1, <3>4
      <4> QED BY <1>1, <3>3, <4>1, <4>2
    <3>5. CASE Mentions(r) # {}
      <4> DEFINE row == seen[r]
                 newer == seen'[r]
      <4>1. /\ DOMAIN row = {"platforms", "first"}
            /\ \E i \in Mentions(r) : row.first = posted[i].post.at
            /\ \A i \in Mentions(r) : row.first <= posted[i].post.at
            /\ row.platforms = UNION {Platforms(posted[i].post) : i \in Mentions(r)}
        BY <3>5 DEF SeenSound
      <4>2. row.first \in Nat /\ row # NoReleaseRow
        BY <2>1, <4>1 DEF NoReleaseRow
      <4>3. newer = IF ~(Platforms(p) \subseteq row.platforms) \/ p.at < row.first
                  THEN [platforms |-> row.platforms \cup Platforms(p), first |-> IF p.at < row.first THEN p.at ELSE row.first]
                  ELSE row
        BY <3>2, <4>2 DEF UpsertRelease
      <4> HIDE DEF row, newer
      <4>4. /\ DOMAIN newer = {"platforms", "first"} /\ newer.platforms = row.platforms \cup Platforms(p)
            /\ newer.first = IF p.at < row.first THEN p.at ELSE row.first
        BY <4>1, <4>3
      <4>5. newer.platforms = UNION {Platforms(posted'[i].post) : i \in Mentions(r)'}
        <5>1. \A i \in Mentions(r)' : Platforms(posted'[i].post) = IF i = n + 1 THEN Platforms(p) ELSE Platforms(posted[i].post)
          BY <1>1, <2>1, <3>1
        <5>2. \A i \in Mentions(r) : i # n + 1
          BY <1>1, <2>1
        <5> QED BY <3>1, <4>1, <4>4, <5>1, <5>2
      <4>6. /\ \E i \in Mentions(r)' : newer.first = posted'[i].post.at
            /\ \A i \in Mentions(r)' : newer.first <= posted'[i].post.at
        <5>1. \A i \in Mentions(r) : posted'[i].post.at = posted[i].post.at /\ posted[i].post.at \in Nat
          BY <2>1
        <5>2. posted'[n + 1].post.at = p.at
          BY <1>1
        <5>3. CASE p.at < row.first
          BY <3>1, <3>3, <4>1, <4>2, <4>4, <5>1, <5>2, <5>3
        <5>4. CASE ~(p.at < row.first)
          <6>1. newer.first = row.first /\ row.first <= p.at
            BY <3>3, <4>2, <4>4, <5>4
          <6> QED BY <3>1, <4>1, <5>1, <5>2, <6>1
        <5> QED BY <5>3, <5>4
      <4> QED BY <3>1, <4>4, <4>5, <4>6 DEF newer
    <3> QED BY <3>4, <3>5
  <2>3. CASE ~(noted /\ p.release = r)
    <3>1. Mentions(r)' = Mentions(r)
      BY <1>1, <2>3 DEF Mentions, noted, n
    <3>2. seen'[r] = seen[r]
      BY <1>2, <1>3, <2>3
    <3>3. {Platforms(posted'[i].post) : i \in Mentions(r)'} = {Platforms(posted[i].post) : i \in Mentions(r)}
      BY <2>1, <3>1
    <3> QED BY <2>1, <3>1, <3>2, <3>3 DEF SeenSound
  <2> QED BY <2>2, <2>3
<1>6. DOMAIN seen' = ReleaseNames
  BY <1>2, <1>3
<1> QED BY <1>5, <1>6 DEF SeenSound

\* insertSessionSQL: an end is never taken back by "ok".
LEMMA StatusStep ==
  ASSUME ReportsInv, NEW p \in Posts, NEW sampled \in BOOLEAN, Post(p, sampled)
  PROVE  StatusSound' /\ DOMAIN status' = SessionIds
<1> USE DEF ReportsInv
<1> DEFINE n == Len(posted)
           has == HasSession(p)
<1>1. /\ n \in Nat /\ Len(posted') = n + 1 /\ \A i \in 1..n : posted'[i] = posted[i]
      /\ posted'[n + 1].post = p /\ 1..(n + 1) = 1..n \cup {n + 1} /\ n + 1 \notin 1..n
  BY PostedKept
<1>2. status' = IF has THEN [status EXCEPT ![p.session] = UpsertSession(@, SessionStatus(p))] ELSE status
  BY DEF Post
<1>3. DOMAIN status = SessionIds /\ (has => p.session \in SessionIds)
  BY DEF ReportsTypes, HasSession, SessionIds, Named
<1>4. has => SessionStatus(p) # "none"
  BY DEF HasSession, SessionStatus, Terminal
<1> HIDE DEF n, has
<1>5. ASSUME NEW s \in SessionIds
      PROVE  IF Told(s)' = {} THEN status'[s] = "none"
             ELSE /\ \E i \in Told(s)' : status'[s] = SessionStatus(posted'[i].post)
                  /\ status'[s] = "ok" => \A i \in Told(s)' : SessionStatus(posted'[i].post) = "ok"
  <2>1. Told(s) \subseteq 1..n /\ \A i \in Told(s) : posted'[i].post = posted[i].post
    BY <1>1 DEF Told, n
  <2>2. CASE has /\ p.session = s
    <3>1. Told(s)' = Told(s) \cup {n + 1} /\ SessionStatus(posted'[n + 1].post) = SessionStatus(p)
      BY <1>1, <2>2 DEF Told, has, n
    <3>2. status'[s] = UpsertSession(status[s], SessionStatus(p))
      BY <1>2, <1>3, <2>2
    <3>3. CASE Told(s) = {}
      <4>1. status'[s] = SessionStatus(p) /\ Told(s)' = {n + 1}
        BY <3>1, <3>2, <3>3 DEF StatusSound, UpsertSession
      <4> QED BY <3>1, <4>1
    <3>4. CASE Told(s) # {}
      <4>1. /\ \E i \in Told(s) : status[s] = SessionStatus(posted'[i].post)
            /\ status[s] = "ok" => \A i \in Told(s) : SessionStatus(posted'[i].post) = "ok"
        BY <2>1, <3>4 DEF StatusSound
      <4>2. \A i \in Told(s) : SessionStatus(posted[i].post) # "none"
        BY DEF Told, HasSession, SessionStatus, Terminal
      <4>3. status[s] # "none"
        BY <2>1, <4>1, <4>2
      <4> QED BY <3>1, <3>2, <4>1, <4>3 DEF UpsertSession
    <3> QED BY <3>3, <3>4
  <2>3. CASE ~(has /\ p.session = s)
    <3>1. Told(s)' = Told(s)
      BY <1>1, <2>3 DEF Told, has, n
    <3>2. status'[s] = status[s]
      BY <1>2, <1>3, <2>3
    <3> QED BY <2>1, <3>1, <3>2 DEF StatusSound
  <2> QED BY <2>2, <2>3
<1> QED BY <1>2, <1>3, <1>5 DEF StatusSound

\* UpsertUserReport: the last words, the first time.
LEMMA ReportStep ==
  ASSUME ReportsInv, NEW p \in Posts, NEW sampled \in BOOLEAN, Post(p, sampled)
  PROVE  /\ ReportSound' /\ DOMAIN report' = EventIds
         /\ \A e \in EventIds : report'[e] = [words |-> report'[e].words, at |-> report'[e].at]
<1> USE DEF ReportsInv
<1> DEFINE n == Len(posted)
           has == HasReport(p)
<1>1. /\ n \in Nat /\ Len(posted') = n + 1 /\ \A i \in 1..n : posted'[i] = posted[i] /\ i <= n + 1 /\ i \in Nat
      /\ posted'[n + 1].post = p /\ 1..(n + 1) = 1..n \cup {n + 1} /\ n + 1 \notin 1..n
  BY PostedKept
<1>2. report' = IF has THEN [report EXCEPT ![p.event] = UpsertReport(@, p, n + 1)] ELSE report
  BY DEF Post
<1>3. /\ DOMAIN report = EventIds /\ (has => p.event \in EventIds /\ p.words # Absent)
      /\ \A e \in EventIds : report[e] = [words |-> report[e].words, at |-> report[e].at]
  BY DEF ReportsTypes, HasReport, EventIds, Named
<1> HIDE DEF n, has
<1>5. ASSUME NEW e \in EventIds
      PROVE  /\ IF Said(e)' = {} THEN report'[e] = NoReport
                ELSE /\ \E i \in Said(e)' : (\A j \in Said(e)' : j <= i) /\ report'[e].words = posted'[i].post.words
                     /\ report'[e].at \in Said(e)' /\ \A j \in Said(e)' : report'[e].at <= j
             /\ report'[e] = [words |-> report'[e].words, at |-> report'[e].at]
  <2>1. Said(e) \subseteq 1..n /\ \A i \in Said(e) : posted'[i].post = posted[i].post
    BY <1>1 DEF Said, n
  <2>2. CASE has /\ p.event = e
    <3>1. Said(e)' = Said(e) \cup {n + 1}
      BY <1>1, <2>2 DEF Said, has, n
    <3>2. report'[e] = [words |-> p.words, at |-> IF report[e] = NoReport THEN n + 1 ELSE report[e].at]
      BY <1>2, <1>3, <2>2 DEF UpsertReport
    <3>3. /\ report'[e].words = p.words /\ report'[e] = [words |-> report'[e].words, at |-> report'[e].at]
          /\ report'[e].at = IF report[e] = NoReport THEN n + 1 ELSE report[e].at
      BY <3>2
    <3>4. \A j \in Said(e)' : j <= n + 1
      BY <1>1, <2>1, <3>1
    <3>5. report'[e].at \in Said(e)' /\ \A j \in Said(e)' : report'[e].at <= j
      <4>1. CASE Said(e) = {}
        <5>1. report[e] = NoReport
          BY <4>1 DEF ReportSound
        <5> QED BY <1>1, <3>1, <3>3, <4>1, <5>1
      <4>2. CASE Said(e) # {}
        <5>1. PICK i \in Said(e) : report[e].words = posted[i].post.words
          BY <4>2 DEF ReportSound
        <5>2. report[e] # NoReport
          BY <5>1 DEF Said, HasReport, NoReport
        <5>3. report[e].at \in Said(e) /\ \A j \in Said(e) : report[e].at <= j
          BY <4>2 DEF ReportSound
        <5> QED BY <1>1, <2>1, <3>1, <3>3, <5>2, <5>3
      <4> QED BY <4>1, <4>2
    <3> QED BY <1>1, <3>1, <3>3, <3>4, <3>5
  <2>3. CASE ~(has /\ p.event = e)
    <3>1. Said(e)' = Said(e)
      BY <1>1, <2>3 DEF Said, has, n
    <3>2. report'[e] = report[e]
      BY <1>2, <1>3, <2>3
    <3> QED BY <1>3, <2>1, <3>1, <3>2 DEF ReportSound
  <2> QED BY <2>2, <2>3
<1>6. DOMAIN report' = EventIds
  BY <1>2, <1>3
<1> QED BY <1>5, <1>6 DEF ReportSound

\* Attachments come with the envelope that stores the event.
LEMMA FilesStep ==
  ASSUME ReportsInv, NEW p \in Posts, NEW sampled \in BOOLEAN, Post(p, sampled)
  PROVE  FilesSound' /\ DOMAIN files' = EventIds
<1> USE DEF ReportsInv
<1> DEFINE n    == Len(posted)
           news == p.event # Absent /\ p.event \notin arrived /\ ~sampled
<1>1. /\ n \in Nat /\ Len(posted') = n + 1 /\ \A i \in 1..n : posted'[i] = posted[i]
      /\ posted'[n + 1].post = p /\ posted'[n + 1].stored = news /\ 1..(n + 1) = 1..n \cup {n + 1}
  BY PostedKept
<1>2. /\ arrived' = IF news THEN arrived \cup {p.event} ELSE arrived
      /\ files' = IF news THEN [files EXCEPT ![p.event] = p.files] ELSE files
  BY DEF Post
<1>3. DOMAIN files = EventIds /\ (news => p.event \in EventIds /\ p.event \notin arrived)
  BY DEF ReportsTypes, EventIds, Named
<1> HIDE DEF news
<1>4. ASSUME NEW i \in 1..n, posted[i].stored
      PROVE  posted[i].post.event \in arrived' /\ files'[posted[i].post.event] = posted[i].post.files
  <2>1. posted[i].post.event \in arrived /\ files[posted[i].post.event] = posted[i].post.files
    BY <1>4 DEF FilesSound
  <2> QED BY <1>2, <1>3, <2>1
<1>5. news => p.event \in arrived' /\ files'[p.event] = p.files
  BY <1>2, <1>3
<1>6. \A i \in 1..Len(posted') : posted'[i].stored =>
        posted'[i].post.event \in arrived' /\ files'[posted'[i].post.event] = posted'[i].post.files
  BY <1>1, <1>4, <1>5
<1> QED BY <1>2, <1>3, <1>6 DEF FilesSound

\* The losses reported so far are in the sum, those of the next envelope come
\* on top.
LEMMA LostStep ==
  ASSUME ReportsTypes, LostAsPosted, NEW p \in Posts, NEW sampled \in BOOLEAN, Post(p, sampled)
  PROVE  LostAsPosted'
<1> DEFINE n == Len(posted)
           f == [i \in 1..n |-> posted[i].post.lost]
           g == [i \in 1..(n + 1) |-> posted'[i].post.lost]
<1>1. /\ n \in Nat /\ Len(posted') = n + 1 /\ \A i \in 1..n : posted'[i] = posted[i] /\ posted[i].post \in Posts
      /\ posted'[n + 1].post = p /\ 1..(n + 1) = 1..n \cup {n + 1} /\ n + 1 \notin 1..n
      /\ posted' \in Seq([post : Posts, stored : BOOLEAN])
  BY PostedKept
<1>2. DOMAIN posted = 1..n /\ DOMAIN posted' = 1..(n + 1)
  BY <1>1 DEF ReportsTypes
<1>3. \A q \in Posts : q.lost \in Nat
  BY ReportsAssumption DEF PostContent
<1>4. IsFiniteSet(1..n) /\ IntsOn(g, 1..n \cup {n + 1})
  <2>1. IsFiniteSet(1..n)
    BY <1>1, FS_Interval
  <2>2. \A i \in 1..(n + 1) : posted'[i].post \in Posts
    <3> SUFFICES ASSUME NEW i \in 1..(n + 1) PROVE posted'[i].post \in Posts
      OBVIOUS
    <3> HIDE DEF n
    <3>1. i \in 1..n \/ i = n + 1
      BY <1>1
    <3> QED BY <1>1, <3>1
  <2>3. \A i \in 1..(n + 1) : g[i] \in Int
    BY <1>3, <2>2
  <2> HIDE DEF g
  <2> QED BY <1>1, <2>1, <2>3 DEF IntsOn
<1>5. SumFunctionOnSet(g, 1..n \cup {n + 1}) = g[n + 1] + SumFunctionOnSet(g, 1..n)
  <2> HIDE DEF g
  <2> QED BY <1>1, <1>4, SumAdd
<1>6. SumFunctionOnSet(g, 1..n) = SumFunctionOnSet(f, 1..n)
  <2>1. \A i \in 1..n : g[i] = f[i]
    BY <1>1
  <2> HIDE DEF f, g
  <2> QED BY <1>4, <2>1, SumEqual
<1>7. lost = SumFunctionOnSet(f, 1..n) /\ lost' = lost + p.lost
  BY <1>2 DEF LostAsPosted, SumFunction, Post
<1>8. SumFunctionOnSet(f, 1..n) \in Int /\ p.lost \in Int
  <2>1. IntsOn(f, 1..n)
    BY <1>1, <1>3 DEF IntsOn
  <2> HIDE DEF f
  <2> QED BY <1>3, <1>4, <2>1, SumInt
<1>9. g[n + 1] = p.lost
  BY <1>1
<1>10. lost' = SumFunctionOnSet(g, 1..(n + 1))
  <2>1. SumFunctionOnSet(g, 1..(n + 1)) = p.lost + SumFunctionOnSet(f, 1..n)
    BY <1>1, <1>5, <1>6, <1>9
  <2> QED BY <1>7, <1>8, <2>1
<1> QED BY <1>2, <1>10 DEF LostAsPosted, SumFunction

LEMMA ReportsStepInv == ASSUME ReportsInv, [ReportsNext]_reportVars PROVE ReportsInv'
<1>1. ASSUME NEW p \in Posts, NEW sampled \in BOOLEAN, Post(p, sampled) PROVE ReportsInv'
  <2>1. posted' \in Seq([post : Posts, stored : BOOLEAN])
    BY <1>1, PostedKept DEF ReportsInv
  <2>2. ReportsTypes'
    BY <1>1, <2>1, SeenStep, StatusStep, ReportStep, FilesStep DEF ReportsTypes
  <2> QED BY <1>1, <2>2, SeenStep, StatusStep, ReportStep, FilesStep, LostStep DEF ReportsInv
<1>2. CASE UNCHANGED reportVars
  <2>1. UNCHANGED <<seen, status, arrived, files, report, lost, posted>>
    BY <1>2 DEF reportVars
  <2>2. /\ \A r : Mentions(r)' = Mentions(r) /\ Told(r)' = Told(r) /\ Said(r)' = Said(r)
    BY <2>1 DEF Mentions, Told, Said
  <2>3. ReportsTypes' /\ FilesSound'
    BY <2>1 DEF ReportsInv, ReportsTypes, FilesSound
  <2>4. SeenSound' /\ StatusSound' /\ ReportSound'
    BY <2>1, <2>2 DEF ReportsInv, SeenSound, StatusSound, ReportSound
  <2>5. LostAsPosted'
    BY <2>1 DEF ReportsInv, LostAsPosted
  <2> QED BY <2>3, <2>4, <2>5 DEF ReportsInv
<1> QED BY <1>1, <1>2 DEF ReportsNext

\* What envelopes leave is what they said, for any envelopes, in any order and
\* number, sampled or not: the upserts of releases (releases.go:10-31),
\* sessions (events.go:127-158) and user reports (user_reports.go:18-32), the
\* attachments of stored events, and the sum of the losses reported.
THEOREM EnvelopesKeepTheirWord == ReportsSpec => []ReportsAsPosted
<1>1. ReportsInit => ReportsInv
  <2> SUFFICES ASSUME ReportsInit PROVE ReportsInv
    OBVIOUS
  <2>1. posted = <<>> /\ Len(posted) = 0
    BY DEF ReportsInit
  <2>2. \A r : Mentions(r) = {} /\ Told(r) = {} /\ Said(r) = {}
    BY <2>1 DEF Mentions, Told, Said
  <2>3. ReportsTypes
    BY <2>1 DEF ReportsInit, ReportsTypes, NoReport
  <2>4. LostAsPosted
    <3> DEFINE f == [i \in DOMAIN posted |-> posted[i].post.lost]
    <3>1. DOMAIN f = {}
      BY <2>1
    <3> HIDE DEF f
    <3>2. SumFunction(f) = 0
      BY <3>1, SumEmpty DEF SumFunction
    <3> QED BY <3>2 DEF f, LostAsPosted, ReportsInit
  <2> QED BY <2>1, <2>2, <2>3, <2>4 DEF ReportsInit, ReportsInv, SeenSound, StatusSound, ReportSound, FilesSound
<1>2. ReportsInv => ReportsAsPosted
  <2> SUFFICES ASSUME ReportsInv PROVE RowsAsPosted
    BY DEF ReportsInv, ReportsAsPosted
  <2> USE DEF ReportsInv
  <2>0. DOMAIN posted = 1..Len(posted) /\ Len(posted) \in Nat /\ \A i \in 1..Len(posted) : posted[i].post \in Posts
    <3> DEFINE T == [post : Posts, stored : BOOLEAN]
    <3>1. posted \in Seq(T) /\ \A t \in T : t.post \in Posts
      BY DEF ReportsTypes
    <3> HIDE DEF T
    <3> QED BY <3>1
  <2>1. ASSUME NEW r \in ReleaseNames, Mentions(r) # {}
        PROVE  LET ps == {posted[i].post : i \in Mentions(r)} IN
               /\ seen[r].first = Min({p.at : p \in ps})
               /\ seen[r].platforms = UNION {Platforms(p) : p \in ps}
    <3> DEFINE ps  == {posted[i].post : i \in Mentions(r)}
               ats == {p.at : p \in ps}
    <3>1. /\ \E i \in Mentions(r) : seen[r].first = posted[i].post.at
          /\ \A i \in Mentions(r) : seen[r].first <= posted[i].post.at
          /\ seen[r].platforms = UNION {Platforms(posted[i].post) : i \in Mentions(r)}
      BY <2>1 DEF SeenSound
    <3>2. \A i \in Mentions(r) : posted[i].post.at \in Nat
      BY <2>0, ReportsAssumption DEF Mentions, PostContent
    <3>3. seen[r].first \in ats /\ (\A t \in ats : seen[r].first <= t) /\ ats \subseteq Nat
      BY <3>1, <3>2
    <3>4. {Platforms(posted[i].post) : i \in Mentions(r)} = {Platforms(p) : p \in ps}
      OBVIOUS
    <3> HIDE DEF ps, ats
    <3>5. Min(ats) = seen[r].first
      <4>1. Min(ats) \in ats /\ \A t \in ats : Min(ats) <= t
        BY <3>3 DEF Min
      <4>2. Min(ats) <= seen[r].first /\ seen[r].first <= Min(ats) /\ Min(ats) \in Nat /\ seen[r].first \in Nat
        BY <3>3, <4>1
      <4> QED BY <4>2
    <3> QED BY <3>1, <3>4, <3>5 DEF ps, ats
  <2>2. ASSUME NEW s \in SessionIds
        PROVE  LET told == {SessionStatus(posted[i].post) : i \in Told(s)} IN
               /\ told = {} <=> status[s] = "none"
               /\ status[s] = "ok" <=> told = {"ok"}
               /\ told # {} => status[s] \in told
    <3>1. \A i \in Told(s) : SessionStatus(posted[i].post) # "none"
      BY DEF Told, HasSession, SessionStatus, Terminal
    <3>2. CASE Told(s) = {}
      BY <3>2 DEF StatusSound
    <3>3. CASE Told(s) # {}
      BY <3>1, <3>3 DEF StatusSound
    <3> QED BY <3>2, <3>3
  <2>3. ASSUME NEW e \in EventIds, Said(e) # {}
        PROVE  report[e] = [words |-> posted[Max(Said(e))].post.words, at |-> Min(Said(e))]
    <3>1. PICK i \in Said(e) : (\A j \in Said(e) : j <= i) /\ report[e].words = posted[i].post.words
      BY <2>3 DEF ReportSound
    <3>2. report[e].at \in Said(e) /\ \A j \in Said(e) : report[e].at <= j
      BY <2>3 DEF ReportSound
    <3>3. Said(e) \subseteq Nat
      BY <2>0 DEF Said
    <3>4. Max(Said(e)) = i
      <4>1. \E m \in Said(e) : \A j \in Said(e) : m >= j
        BY <3>1, <3>3
      <4>2. Max(Said(e)) \in Said(e) /\ \A j \in Said(e) : Max(Said(e)) >= j
        BY <4>1 DEF Max
      <4> QED BY <3>1, <3>3, <4>2
    <3>5. Min(Said(e)) = report[e].at
      <4>1. Min(Said(e)) \in Said(e) /\ \A j \in Said(e) : Min(Said(e)) <= j
        BY <3>2 DEF Min
      <4> QED BY <3>2, <3>3, <4>1
    <3>6. report[e] = [words |-> report[e].words, at |-> report[e].at]
      BY DEF ReportsTypes
    <3> QED BY <3>1, <3>4, <3>5, <3>6
  <2>4. \A e \in EventIds : \A i \in DOMAIN posted :
          posted[i].stored /\ posted[i].post.event = e => files[e] = posted[i].post.files
    BY <2>0 DEF FilesSound
  <2>5. \A r : /\ {i \in DOMAIN posted : NotesRelease(posted[i].post) /\ posted[i].post.release = r} = Mentions(r)
               /\ {i \in DOMAIN posted : HasSession(posted[i].post) /\ posted[i].post.session = r} = Told(r)
               /\ {i \in DOMAIN posted : HasReport(posted[i].post) /\ posted[i].post.event = r} = Said(r)
    BY <2>0 DEF Mentions, Told, Said
  <2> QED BY <2>1, <2>2, <2>3, <2>4, <2>5 DEF RowsAsPosted, PostedBy
<1> QED BY <1>1, <1>2, ReportsStepInv, PTL DEF ReportsSpec

-----------------------------------------------------------------------------
(* Envelope. *)

\* Of the items sent: what is good and of a kind, among the first ones.
IsGood(i, kind) == i.kind = kind /\ i.good

\* Among, step by step.
LEMMA AmongIs ==
  ASSUME mailing \in Seq(ItemContent), NEW kind
  PROVE  /\ Among(kind) \in [0..Len(mailing) -> Seq(ItemContent)] /\ Among(kind)[0] = <<>>
         /\ \A k \in 1..Len(mailing) :
              Among(kind)[k] = IF IsGood(mailing[k], kind) THEN Append(Among(kind)[k - 1], mailing[k]) ELSE Among(kind)[k - 1]
<1> DEFINE n    == Len(mailing)
           SS   == Seq(ItemContent)
           grown == [x \in (1..n) \X SS |-> IF IsGood(mailing[x[1]], kind) THEN Append(x[2], mailing[x[1]]) ELSE x[2]]
           F    == Among(kind)
           E(g) == g = [i \in 0..n |-> IF i = 0 THEN <<>>
                                       ELSE IF IsGood(mailing[i], kind) THEN Append(g[i - 1], mailing[i]) ELSE g[i - 1]]
<1>1. n \in Nat /\ \A i \in 1..n : mailing[i] \in ItemContent
  OBVIOUS
<1>2. <<>> \in SS /\ \A i \in 1..n, s \in SS : Append(s, mailing[i]) \in SS
  <2> DEFINE I == ItemContent
  <2> HIDE DEF I, n
  <2>1. <<>> \in Seq(I) /\ \A x \in I, s \in Seq(I) : Append(s, x) \in Seq(I)
    OBVIOUS
  <2> QED BY <1>1, <2>1 DEF I
<1> HIDE DEF SS
<1>3. StepOn(grown, n, SS)
  BY <1>1, <1>2 DEF StepOn
<1>4. \A i \in 1..n, s \in SS : grown[<<i, s>>] = IF IsGood(mailing[i], kind) THEN Append(s, mailing[i]) ELSE s
  OBVIOUS
<1>5. F = CHOOSE g : E(g)
  BY DEF Among, IsGood
<1> HIDE DEF grown, F
<1>6. PICK f : RecursionOf(f, n, <<>>, grown)
  BY <1>1, <1>2, <1>3, RecursionExists
<1>7. f \in [0..n -> SS] /\ f[0] = <<>> /\ \A i \in 1..n : f[i] = grown[<<i, f[i - 1]>>]
  <2> HIDE DEF n
  <2> QED BY <1>1, <1>2, <1>3, <1>6, RecursionTyped
<1>8. E(f)
  <2>1. f = [i \in 0..n |-> f[i]]
    BY <1>7
  <2>2. ASSUME NEW i \in 0..n, i # 0
        PROVE  f[i] = IF IsGood(mailing[i], kind) THEN Append(f[i - 1], mailing[i]) ELSE f[i - 1]
    <3>1. i \in 1..n /\ i - 1 \in 0..n
      BY <1>1, <2>2
    <3>2. f[i - 1] \in SS
      BY <1>7, <3>1
    <3> QED BY <1>4, <1>7, <3>1, <3>2
  <2> QED BY <1>7, <2>1, <2>2
<1>9. E(F)
  <2> HIDE DEF E
  <2> QED BY <1>5, <1>8
<1>10. RecursionOf(F, n, <<>>, grown)
  <2> DEFINE T == {m \in Nat : m <= n => F[m] \in SS}
  <2>1. DOMAIN F = 0..n /\ F[0] = <<>> /\ F = [i \in 0..n |-> F[i]]
        /\ \A i \in 1..n : F[i] = IF IsGood(mailing[i], kind) THEN Append(F[i - 1], mailing[i]) ELSE F[i - 1]
    <3>1. DOMAIN F = 0..n /\ F = [i \in 0..n |-> F[i]]
      BY <1>9
    <3>2. \A i \in 0..n : F[i] = IF i = 0 THEN <<>> ELSE IF IsGood(mailing[i], kind) THEN Append(F[i - 1], mailing[i]) ELSE F[i - 1]
      BY <1>9
    <3>3. 0 \in 0..n /\ \A i \in 1..n : i \in 0..n /\ i # 0
      BY <1>1
    <3> HIDE DEF E
    <3> QED BY <3>1, <3>2, <3>3
  <2>2. 0 \in T
    BY <1>2, <2>1
  <2>3. \A m \in Nat : m \in T => m + 1 \in T
    <3> SUFFICES ASSUME NEW m \in Nat, m <= n => F[m] \in SS, m + 1 <= n PROVE F[m + 1] \in SS
      OBVIOUS
    <3>1. m + 1 \in 1..n /\ (m + 1) - 1 = m /\ F[m] \in SS
      BY <1>1
    <3>2. F[m + 1] = IF IsGood(mailing[m + 1], kind) THEN Append(F[m], mailing[m + 1]) ELSE F[m]
      BY <2>1, <3>1
    <3> QED BY <1>2, <3>1, <3>2
  <2> HIDE DEF T
  <2>4. Nat \subseteq T
    BY <2>2, <2>3, NumberInduction
  <2>5. \A i \in 0..n : F[i] \in SS
    <3>1. \A i \in 0..n : i \in Nat /\ i <= n
      BY <1>1
    <3> QED BY <2>4, <3>1 DEF T
  <2>6. ASSUME NEW i \in 0..n PROVE F[i] = IF i = 0 THEN <<>> ELSE grown[<<i, F[i - 1]>>]
    <3>1. CASE i = 0
      BY <2>1, <3>1
    <3>2. CASE i # 0
      <4>1. i \in 1..n /\ i - 1 \in 0..n
        BY <1>1, <3>2
      <4>2. F[i - 1] \in SS
        BY <2>5, <4>1
      <4> QED BY <1>4, <2>1, <3>2, <4>1, <4>2
    <3> QED BY <3>1, <3>2
  <2> QED BY <2>1, <2>6 DEF RecursionOf
<1>11. F \in [0..n -> SS] /\ F[0] = <<>>
  <2> HIDE DEF n
  <2> QED BY <1>1, <1>2, <1>3, <1>10, RecursionTyped
<1>12. \A i \in 1..n : F[i] = IF IsGood(mailing[i], kind) THEN Append(F[i - 1], mailing[i]) ELSE F[i - 1]
  <2>1. \A i \in 1..n : i \in 0..n /\ i # 0
    BY <1>1
  <2> QED BY <1>9, <2>1
<1> QED BY <1>11, <1>12 DEF F, SS

-----------------------------------------------------------------------------
(* The tokens of a mailing, by place. *)

Token == {Newline} \cup [is : {"header", "object", "raw"}, item : ItemContent]

AllTokens == FlattenSeq([i \in DOMAIN mailing |-> Tokens(mailing[i])])

EndOf(i) == IF i.ends THEN 1 ELSE 0

\* at[k] is where the tokens of the k-th item end.
FramedAt(at, k) ==
  LET i == mailing[k]
      b == Len(mailing[k].body)
      s == AllTokens IN
  /\ at[k] = at[k - 1] + 2 + b + EndOf(i)
  /\ s[at[k - 1] + 1] = Header(i) /\ s[at[k - 1] + 2] = Newline
  /\ \A j \in 1..b : s[at[k - 1] + 2 + j] = BodyTokens(i)[j]
  /\ i.ends => s[at[k]] = Newline

Framed(at) ==
  /\ at \in [0..Len(mailing) -> Nat] /\ at[0] = 0
  /\ AllTokens \in Seq(Token) /\ Len(AllTokens) = at[Len(mailing)]
  /\ \A k \in 0..Len(mailing) : at[k] <= Len(AllTokens)
  /\ \A k \in 1..Len(mailing) : FramedAt(at, k)

LEMMA BodyHas ==
  ASSUME NEW i \in ItemContent
  PROVE  /\ i.body \in Seq({"nl", "object", "raw"}) /\ Len(i.body) \in Nat /\ i.ends \in BOOLEAN
         /\ BodyTokens(i) \in Seq(Token) /\ Len(BodyTokens(i)) = Len(i.body)
         /\ \A j \in 1..Len(i.body) :
              /\ BodyTokens(i)[j].is = i.body[j]
              /\ BodyTokens(i)[j] = Newline <=> i.body[j] = "nl"
              /\ i.body[j] \in {"nl", "object", "raw"}
<1>1. i.body \in Seq({"nl", "object", "raw"}) /\ i.ends \in BOOLEAN
  BY DEF ItemContent
<1> DEFINE n == Len(i.body)
           b == BodyTokens(i)
<1>2. n \in Nat /\ \A j \in 1..n : i.body[j] \in {"nl", "object", "raw"}
  BY <1>1
<1>3. DOMAIN i.body = 1..n
  BY <1>1
<1>4. b = [j \in 1..n |-> IF i.body[j] = "nl" THEN Newline ELSE Piece(j, i)]
  BY <1>3 DEF BodyTokens
<1>5. Newline.is = "nl"
  BY DEF Newline
<1>6. ASSUME NEW j \in 1..n
      PROVE  b[j] \in Token /\ b[j].is = i.body[j] /\ (b[j] = Newline <=> i.body[j] = "nl")
  <2>1. CASE i.body[j] = "nl"
    BY <1>4, <1>5, <2>1 DEF Token
  <2>2. CASE i.body[j] # "nl"
    <3>1. b[j] = Piece(j, i)
      BY <1>4, <2>2
    <3>2. Piece(j, i) \in [is : {"header", "object", "raw"}, item : ItemContent] /\ Piece(j, i).is = i.body[j]
      <4>1. i.body[j] \in {"header", "object", "raw"}
        BY <1>2, <2>2
      <4> QED BY <4>1 DEF Piece
    <3> QED BY <1>5, <2>2, <3>1, <3>2 DEF Token
  <2> QED BY <2>1, <2>2
<1>7. b \in [1..n -> Token]
  <2>1. DOMAIN b = 1..n /\ b = [j \in 1..n |-> b[j]]
    BY <1>4
  <2> QED BY <1>6, <2>1
<1> HIDE DEF b
<1>8. b \in Seq(Token) /\ Len(b) = n
  <2> DEFINE T == Token
  <2> HIDE DEF T, n
  <2> QED BY <1>2, <1>7, FunctionIsSeq DEF T
<1> QED BY <1>1, <1>2, <1>6, <1>8 DEF b

\* The tokens of an item, by place.
LEMMA TokensHas ==
  ASSUME NEW i \in ItemContent
  PROVE  /\ Tokens(i) \in Seq(Token) /\ Len(Tokens(i)) = 2 + Len(i.body) + EndOf(i)
         /\ Tokens(i)[1] = Header(i) /\ Tokens(i)[2] = Newline
         /\ \A j \in 1..Len(i.body) : Tokens(i)[2 + j] = BodyTokens(i)[j]
         /\ i.ends => Tokens(i)[2 + Len(i.body) + 1] = Newline
<1> DEFINE h == <<Header(i), Newline>>
           b == BodyTokens(i)
           e == IF i.ends THEN <<Newline>> ELSE <<>>
           n == Len(i.body)
           T == Token
<1>1. b \in Seq(T) /\ Len(b) = n /\ n \in Nat /\ i.ends \in BOOLEAN
  BY BodyHas
<1>2. Header(i) \in T /\ Newline \in T
  BY DEF Header, Token
<1>3. Tokens(i) = (h \o b) \o e
  BY DEF Tokens
<1> HIDE DEF T, b, n
<1>4. h \in Seq(T) /\ Len(h) = 2 /\ h[1] = Header(i) /\ h[2] = Newline
  BY <1>2
<1>5. e \in Seq(T) /\ Len(e) = EndOf(i) /\ (i.ends => e[1] = Newline)
  BY <1>1, <1>2 DEF EndOf
<1> HIDE DEF h, e
<1>6. /\ h \o b \in Seq(T) /\ Len(h \o b) = 2 + n
      /\ (h \o b)[1] = h[1] /\ (h \o b)[2] = h[2]
      /\ \A j \in 1..n : (h \o b)[2 + j] = b[j]
  <2>0. h \in Seq(T) /\ b \in Seq(T)
    BY <1>1, <1>4
  <2>1. /\ h \o b \in Seq(T) /\ Len(h \o b) = Len(h) + Len(b)
        /\ \A j \in 1..Len(h) : (h \o b)[j] = h[j]
        /\ \A j \in 1..Len(b) : (h \o b)[Len(h) + j] = b[j]
    BY <2>0, ConcatHas
  <2>2. 1 \in 1..2 /\ 2 \in 1..2
    OBVIOUS
  <2> QED BY <1>1, <1>4, <2>1, <2>2
<1> DEFINE s == h \o b
<1> HIDE DEF s
<1>7. /\ s \o e \in Seq(T) /\ Len(s \o e) = 2 + n + EndOf(i)
      /\ \A j \in 1..(2 + n) : (s \o e)[j] = s[j]
      /\ i.ends => (s \o e)[2 + n + 1] = Newline
  <2>1. s \in Seq(T) /\ Len(s) = 2 + n /\ 2 + n \in Nat
    BY <1>1, <1>6 DEF s
  <2>2. EndOf(i) \in {0, 1} /\ (i.ends => EndOf(i) = 1)
    BY DEF EndOf
  <2> QED BY <1>5, <2>1, <2>2
<1>8. 1 \in 1..(2 + n) /\ 2 \in 1..(2 + n) /\ \A j \in 1..n : 2 + j \in 1..(2 + n)
  BY <1>1
<1>9. \A j \in 1..n : (s \o e)[2 + j] = b[j]
  BY <1>6, <1>7, <1>8 DEF s
<1> QED BY <1>3, <1>4, <1>6, <1>7, <1>8, <1>9 DEF T, b, n, s

\* Where each item of a mailing lies among its tokens.
LEMMA MailingFramed ==
  ASSUME mailing \in Seq(ItemContent)
  PROVE  \E at : Framed(at)
<1> DEFINE n    == Len(mailing)
           seqs == [i \in DOMAIN mailing |-> Tokens(mailing[i])]
           T    == Token
<1>1. n \in Nat /\ DOMAIN mailing = 1..n /\ \A i \in 1..n : mailing[i] \in ItemContent
  OBVIOUS
<1>2. \A i \in 1..n : seqs[i] = Tokens(mailing[i]) /\ seqs[i] \in Seq(T)
  BY <1>1, TokensHas
<1>3. seqs \in [1..n -> Seq(T)]
  <2>1. seqs = [i \in 1..n |-> seqs[i]]
    BY <1>1
  <2> QED BY <1>2, <2>1
<1> HIDE DEF seqs, T
<1>4. seqs \in Seq(Seq(T)) /\ Len(seqs) = n
  BY <1>1, <1>3, FunctionIsSeq
<1>5. AllTokens = FlattenSeq(seqs)
  BY DEF AllTokens, seqs
<1> HIDE DEF n
<1>6. PICK at : /\ EndsAt(at, seqs) /\ PlacedAt(AllTokens, at, seqs)
                /\ AllTokens \in Seq(T) /\ Len(AllTokens) = at[n] /\ \A k \in 0..n : at[k] <= Len(AllTokens)
  BY <1>4, <1>5, FlattenPlaces
<1>7. ASSUME NEW k \in 1..n PROVE FramedAt(at, k)
  <2> DEFINE i == mailing[k]
             b == Len(i.body)
             t == Tokens(i)
  <2>1. i \in ItemContent /\ seqs[k] = t
    BY <1>1, <1>2
  <2>2. /\ Len(t) = 2 + b + EndOf(i) /\ t[1] = Header(i) /\ t[2] = Newline
        /\ \A j \in 1..b : t[2 + j] = BodyTokens(i)[j]
        /\ i.ends => t[2 + b + 1] = Newline
    BY <2>1, TokensHas
  <2>3. b \in Nat /\ EndOf(i) \in {0, 1} /\ (i.ends => EndOf(i) = 1)
    BY <2>1, BodyHas DEF EndOf
  <2>4. at[k] = at[k - 1] + Len(t) /\ \A j \in 1..Len(t) : AllTokens[at[k - 1] + j] = t[j]
    BY <1>4, <1>6, <2>1 DEF EndsAt, PlacedAt
  <2>5. at[k - 1] \in Nat
    <3>1. k - 1 \in 0..n
      BY <1>1
    <3> QED BY <1>4, <1>6, <3>1 DEF EndsAt
  <2>6. 1 \in 1..Len(t) /\ 2 \in 1..Len(t) /\ (\A j \in 1..b : 2 + j \in 1..Len(t)) /\ (i.ends => 2 + b + 1 \in 1..Len(t))
    BY <2>2, <2>3
  <2>7. \A j \in 1..b : at[k - 1] + (2 + j) = at[k - 1] + 2 + j
    BY <2>5
  <2>8. at[k] = at[k - 1] + 2 + b + EndOf(i) /\ (i.ends => at[k] = at[k - 1] + (2 + b + 1))
    <3> DEFINE e == EndOf(i)
               l == Len(t)
               x == at[k - 1]
    <3>1. at[k] = x + l /\ l = 2 + b + e /\ (i.ends => e = 1) /\ x \in Nat /\ b \in Nat /\ e \in {0, 1}
      BY <2>2, <2>3, <2>4, <2>5
    <3> HIDE DEF e, l, b, x
    <3>2. x + (2 + b + e) = x + 2 + b + e
      BY <3>1
    <3>3. i.ends => at[k] = x + (2 + b + 1)
      BY <3>1
    <3> QED BY <3>1, <3>2, <3>3 DEF e, x
  <2> HIDE DEF t
  <2>9. /\ AllTokens[at[k - 1] + 1] = Header(i) /\ AllTokens[at[k - 1] + 2] = Newline
        /\ i.ends => AllTokens[at[k]] = Newline
    BY <2>2, <2>4, <2>6, <2>8
  <2>10. \A j \in 1..b : AllTokens[at[k - 1] + 2 + j] = BodyTokens(i)[j]
    <3> SUFFICES ASSUME NEW j \in 1..b PROVE AllTokens[at[k - 1] + 2 + j] = BodyTokens(i)[j]
      OBVIOUS
    <3>1. AllTokens[at[k - 1] + (2 + j)] = t[2 + j] /\ t[2 + j] = BodyTokens(i)[j]
      BY <2>2, <2>4, <2>6
    <3> QED BY <2>7, <3>1
  <2> QED BY <2>8, <2>9, <2>10 DEF FramedAt
<1>8. Framed(at)
  BY <1>4, <1>6, <1>7 DEF Framed, EndsAt, T, n
<1> QED BY <1>8

\* The first newline.
LEMMA LineHas ==
  ASSUME NEW s \in Seq(Token)
  PROVE  /\ LineLength(s) \in 0..Len(s)
         /\ LineLength(s) = 0 => \A j \in 1..Len(s) : s[j] # Newline
         /\ LineLength(s) # 0 => s[LineLength(s)] = Newline /\ \A j \in 1..Len(s) : s[j] = Newline => LineLength(s) <= j
<1> DEFINE I == {j \in 1..Len(s) : s[j] = Newline}
<1>1. LineLength(s) = IF I # {} THEN Min(I) ELSE 0
  BY DEF LineLength, SelectInSeq
<1>2. I # {} => Min(I) \in I /\ \A j \in I : Min(I) <= j
  <2>1. I \subseteq Nat
    OBVIOUS
  <2> HIDE DEF I
  <2> QED BY <2>1, MinIn
<1>3. Len(s) \in Nat
  OBVIOUS
<1> QED BY <1>1, <1>2, <1>3

\* What is not read yet when k items and the lines before pos are.
Plain(t) == t.is \notin {"header", "object"}

Resting(s, at, k, pos) ==
  /\ pos \in 0..at[k]
  /\ s = SubSeq(AllTokens, pos + 1, Len(AllTokens))
  /\ \A j \in (pos + 1)..at[k] : Plain(AllTokens[j])
  /\ k < Len(mailing) /\ pos < at[k] => AllTokens[at[k]] = Newline

\* What is left of an item is skipped, a line at a time, and no further than its end.
LEMMA LineSkipped ==
  ASSUME mailing \in Seq(ItemContent), NEW at, Framed(at), NEW k \in 0..Len(mailing), NEW pos, Resting(rest, at, k, pos), pos < at[k]
  PROVE  /\ ~IsHeader(CutLine(rest))
         /\ \E q : Resting(AfterLine(rest), at, k, q)
<1> DEFINE W == AllTokens
           L == Len(W)
           m == LineLength(rest)
           n == Len(mailing)
<1>1. /\ W \in Seq(Token) /\ L \in Nat /\ at[k] \in Nat /\ at[k] <= L /\ pos \in 0..L /\ pos \in Nat /\ pos < at[k]
      /\ n \in Nat /\ at[n] = L
  BY DEF Framed, Resting
<1>2. rest \in Seq(Token) /\ Len(rest) = L - pos /\ \A j \in 1..(L - pos) : rest[j] = W[pos + j]
  <2> DEFINE T == Token
  <2> HIDE DEF W, T
  <2> QED BY <1>1, TailHas DEF Resting, W, T
<1> HIDE DEF W, m, L, n
<1>3. /\ m \in 0..Len(rest)
      /\ m = 0 => \A j \in 1..Len(rest) : rest[j] # Newline
      /\ m # 0 => rest[m] = Newline /\ \A j \in 1..Len(rest) : rest[j] = Newline => m <= j
  BY <1>2, LineHas DEF m
<1>4. Plain(rest[1])
  <2>1. 1 \in 1..(L - pos) /\ pos + 1 \in (pos + 1)..at[k]
    BY <1>1
  <2> QED BY <1>2, <2>1 DEF Resting, W
<1>5. m # 0 => pos + m <= at[k]
  <2> SUFFICES ASSUME m # 0 PROVE pos + m <= at[k]
    OBVIOUS
  <2>1. CASE k < n
    <3>1. at[k] - pos \in 1..(L - pos) /\ pos + (at[k] - pos) = at[k]
      BY <1>1
    <3>2. rest[at[k] - pos] = Newline
      BY <1>2, <2>1, <3>1 DEF Resting, n, W
    <3>3. m <= at[k] - pos
      BY <1>2, <1>3, <3>1, <3>2
    <3> QED BY <1>1, <1>2, <1>3, <3>3
  <2>2. CASE ~(k < n)
    <3>1. at[k] = L
      BY <1>1, <2>2 DEF n
    <3> QED BY <1>1, <1>2, <1>3, <3>1
  <2> QED BY <2>1, <2>2
<1>6. m = 0 => at[k] = L
  <2> SUFFICES ASSUME m = 0, k < n PROVE FALSE
    BY <1>1 DEF n
  <2>1. at[k] - pos \in 1..(L - pos) /\ pos + (at[k] - pos) = at[k]
    BY <1>1
  <2>2. rest[at[k] - pos] = Newline
    BY <1>2, <2>1 DEF Resting, n, W
  <2> QED BY <1>2, <1>3, <2>1, <2>2
<1>7. ~IsHeader(CutLine(rest))
  <2>1. CASE m = 0
    <3>1. CutLine(rest) = rest
      BY <2>1 DEF CutLine, m
    <3> QED BY <1>4, <3>1 DEF IsHeader, Plain
  <2>2. CASE m # 0
    <3>1. CutLine(rest) = SubSeq(rest, 1, m - 1) /\ m - 1 \in 0..Len(rest)
      BY <1>2, <1>3, <2>2 DEF CutLine, m
    <3>2. Len(CutLine(rest)) = m - 1 /\ \A j \in 1..(m - 1) : CutLine(rest)[j] = rest[j]
      <4> DEFINE T == Token
      <4> HIDE DEF T
      <4>1. rest \in Seq(T)
        BY <1>2 DEF T
      <4> QED BY <3>1, <4>1, HeadHas
    <3> QED BY <1>4, <3>2 DEF IsHeader, Plain
  <2> QED BY <2>1, <2>2
<1> DEFINE q == IF m = 0 THEN L ELSE pos + m
<1>8. q \in 0..at[k] /\ pos < q
  BY <1>1, <1>2, <1>3, <1>5, <1>6
<1>9. AfterLine(rest) = SubSeq(W, q + 1, L)
  <2> DEFINE T == Token
  <2>1. CASE m = 0
    <3>1. AfterLine(rest) = <<>>
      BY <2>1 DEF AfterLine, m
    <3>2. SubSeq(W, L + 1, L) = <<>>
      BY <1>1 DEF L
    <3> QED BY <2>1, <3>1, <3>2
  <2>2. CASE m # 0
    <3>1. AfterLine(rest) = SubSeq(rest, m + 1, Len(rest))
      BY <2>2 DEF AfterLine, m
    <3>2. rest = SubSeq(W, pos + 1, L) /\ m \in 0..(L - pos)
      BY <1>2, <1>3 DEF Resting, W, L
    <3> HIDE DEF T
    <3>3. W \in Seq(T) /\ pos \in 0..Len(W) /\ m \in 0..(Len(W) - pos)
      BY <1>1, <3>2 DEF L, T
    <3>4. SubSeq(rest, m + 1, Len(rest)) = SubSeq(W, (pos + m) + 1, L)
      BY <3>2, <3>3, TailOfTail DEF L
    <3> QED BY <2>2, <3>1, <3>4
  <2> QED BY <2>1, <2>2
<1>10. Resting(AfterLine(rest), at, k, q)
  <2>1. (q + 1)..at[k] \subseteq (pos + 1)..at[k]
    BY <1>1, <1>8
  <2> HIDE DEF q
  <2> QED BY <1>1, <1>8, <1>9, <2>1 DEF Resting, W, L
<1> QED BY <1>7, <1>10

\* Between two items: the next one's header is read, its body if it is good,
\* and of what follows nothing up to the item's end is taken for a header.
LEMMA ItemRead ==
  ASSUME mailing \in Seq(ItemContent), WellFormed(mailing), NEW at, Framed(at), NEW k \in 1..Len(mailing),
         rest = SubSeq(AllTokens, at[k - 1] + 1, Len(AllTokens))
  PROVE  LET i     == mailing[k]
             after == AfterLine(rest) IN
         /\ IsHeader(CutLine(rest)) /\ Head(rest) = Header(i)
         /\ i.good => BodyOf(Header(i), after) = BodyTokens(i)
         /\ \E pos : Resting(AfterBody(Header(i), after), at, k, pos)
<1> DEFINE W     == AllTokens
           L     == Len(W)
           n     == Len(mailing)
           i     == mailing[k]
           b     == Len(i.body)
           p     == at[k - 1]
           h     == Header(i)
           s     == AfterLine(rest)
           T     == Token
           body  == BodyTokens(i)
<1>1. /\ n \in Nat /\ k \in 1..n /\ k - 1 \in 0..n /\ k \in 0..n /\ i \in ItemContent
      /\ W \in Seq(T) /\ L \in Nat /\ p \in Nat /\ at[k] \in Nat /\ at[k] <= L /\ at[n] = L
      /\ FramedAt(at, k)
  <2>1. n \in Nat /\ k \in 1..n /\ k - 1 \in 0..n /\ k \in 0..n /\ i \in ItemContent
    OBVIOUS
  <2>2. at \in [0..n -> Nat] /\ W \in Seq(T) /\ L = at[n] /\ \A l \in 0..n : at[l] <= L
    BY DEF Framed
  <2>3. FramedAt(at, k)
    BY DEF Framed
  <2>4. n \in 0..n
    BY <2>1
  <2> HIDE DEF n, W, L, T, i, p
  <2>5. p = at[k - 1]
    BY DEF p
  <2> QED BY <2>1, <2>2, <2>3, <2>4, <2>5
<1>2. /\ at[k] = p + 2 + b + EndOf(i) /\ W[p + 1] = h /\ W[p + 2] = Newline
      /\ \A j \in 1..b : W[p + 2 + j] = body[j]
      /\ i.ends => W[at[k]] = Newline
  BY <1>1 DEF FramedAt
<1>3. /\ b \in Nat /\ i.ends \in BOOLEAN /\ body \in Seq(T) /\ Len(body) = b
      /\ \A j \in 1..b : /\ body[j].is = i.body[j] /\ (body[j] = Newline <=> i.body[j] = "nl")
                         /\ i.body[j] \in {"nl", "object", "raw"}
  BY <1>1, BodyHas
<1>4. (i.ends => at[k] = p + 2 + b + 1) /\ (~i.ends => at[k] = p + 2 + b)
  <2>1. (i.ends => EndOf(i) = 1) /\ (~i.ends => EndOf(i) = 0)
    BY DEF EndOf
  <2> DEFINE e == EndOf(i)
  <2>2. at[k] = p + 2 + b + e /\ p \in Nat /\ b \in Nat
    BY <1>1, <1>2, <1>3
  <2> HIDE DEF e, p, b
  <2>3. (e = 1 => at[k] = p + 2 + b + 1) /\ (e = 0 => at[k] = p + 2 + b)
    BY <2>2
  <2> QED BY <2>1, <2>3 DEF e
<1>5. h # Newline /\ h.is = "header" /\ h.item = i /\ (h.is \in {"header", "object"})
  BY DEF Header, Newline
<1>6. k < n => i.ends
  BY <1>1 DEF WellFormed
<1>7. i.length \/ "nl" \notin ToSet(i.body) \/ Malformed(i)
  BY <1>1 DEF WellFormed
<1>8. DOMAIN i.body = 1..b
  <2>1. i.body \in Seq({"nl", "object", "raw"})
    BY <1>1, BodyHas
  <2> QED BY <2>1
<1> HIDE DEF W, L, n, b, p, h, T, body, i
<1>9. p + 2 + b <= at[k] /\ p + 2 + b <= L /\ p + 2 \in 0..L /\ p \in 0..L
  <2>1. at[k] = p + 2 + b + 1 \/ at[k] = p + 2 + b
    BY <1>3, <1>4
  <2> QED BY <1>1, <1>3, <2>1
<1>10. rest \in Seq(T) /\ Len(rest) = L - p /\ \A j \in 1..(L - p) : rest[j] = W[p + j]
  <2>1. rest = SubSeq(W, p + 1, Len(W))
    BY DEF W, p
  <2>2. p \in 0..Len(W)
    BY <1>9 DEF L
  <2> QED BY <1>1, <2>1, <2>2, TailHas DEF L
<1>11. rest[1] = h /\ rest[2] = Newline /\ 1 \in 1..Len(rest) /\ 2 \in 1..Len(rest)
  <2>1. 1 \in 1..(L - p) /\ 2 \in 1..(L - p)
    BY <1>1, <1>9
  <2> QED BY <1>2, <1>10, <2>1
<1>12. LineLength(rest) = 2
  <2> DEFINE m == LineLength(rest)
  <2>1. /\ m \in 0..Len(rest)
        /\ m = 0 => \A j \in 1..Len(rest) : rest[j] # Newline
        /\ m # 0 => rest[m] = Newline /\ \A j \in 1..Len(rest) : rest[j] = Newline => m <= j
    BY <1>10, LineHas DEF T
  <2> HIDE DEF m
  <2>2. m # 0 /\ m <= 2 /\ rest[m] = Newline
    BY <1>11, <2>1
  <2>3. m # 1
    BY <1>5, <1>11, <2>2
  <2> QED BY <2>1, <2>2, <2>3 DEF m
<1>13. Len(CutLine(rest)) = 1 /\ CutLine(rest)[1] = h
  <2>0. LineLength(rest) # 0 /\ LineLength(rest) - 1 = 1
    BY <1>12
  <2>1. CutLine(rest) = SubSeq(rest, 1, 1)
    BY <2>0 DEF CutLine
  <2>2. 1 \in 0..Len(rest) /\ 1 \in 1..1
    BY <1>10, <1>11
  <2> QED BY <1>10, <1>11, <2>1, <2>2, HeadHas
<1>14. IsHeader(CutLine(rest)) /\ Head(rest) = h
  <2>1. IsHeader(CutLine(rest))
    BY <1>5, <1>13 DEF IsHeader
  <2> QED BY <1>10, <1>11, <2>1
<1>15. s = SubSeq(W, (p + 2) + 1, L)
  <2>0. LineLength(rest) # 0
    BY <1>12
  <2>1. s = SubSeq(rest, 2 + 1, Len(rest))
    BY <1>12, <2>0 DEF AfterLine
  <2>2. rest = SubSeq(W, p + 1, Len(W)) /\ p \in 0..Len(W) /\ 2 \in 0..(Len(W) - p)
    BY <1>1, <1>3, <1>9 DEF W, p, L
  <2> QED BY <1>1, <2>1, <2>2, TailOfTail DEF L
<1> HIDE DEF s
<1>16. s \in Seq(T) /\ Len(s) = L - (p + 2) /\ \A j \in 1..(L - (p + 2)) : s[j] = W[p + 2 + j]
  <2>1. p + 2 \in 0..Len(W)
    BY <1>9 DEF L
  <2> QED BY <1>1, <1>15, <2>1, TailHas DEF L
<1>17. b <= Len(s) /\ Len(s) \in Nat /\ \A j \in 1..b : s[j] = body[j]
  <2>1. b <= Len(s) /\ Len(s) \in Nat
    BY <1>1, <1>3, <1>9, <1>16
  <2>2. \A j \in 1..b : j \in 1..(L - (p + 2))
    BY <1>16, <2>1, <1>3
  <2> QED BY <1>2, <1>16, <2>1, <2>2
<1>18. SubSeq(s, 1, b) = body
  <2>1. b \in 0..Len(s)
    BY <1>3, <1>17
  <2>2. SubSeq(s, 1, b) \in Seq(T) /\ Len(SubSeq(s, 1, b)) = b /\ \A j \in 1..b : SubSeq(s, 1, b)[j] = s[j]
    BY <1>16, <2>1, HeadHas
  <2> QED BY <1>3, <1>17, <2>2, SameSeq
\* The tokens after some of those behind the header.
<1>19. ASSUME NEW q \in 0..Len(s) PROVE SubSeq(s, q + 1, Len(s)) = SubSeq(W, (p + 2 + q) + 1, L)
  <2>1. p + 2 \in 0..Len(W) /\ q \in 0..(Len(W) - (p + 2))
    BY <1>9, <1>16 DEF L
  <2> QED BY <1>1, <1>15, <2>1, TailOfTail DEF L
\* The item is read to its end.
<1>20. ASSUME NEW u, u = SubSeq(W, at[k] + 1, L) PROVE Resting(u, at, k, at[k])
  <2>1. at[k] \in 0..at[k] /\ (at[k] + 1)..at[k] = {} /\ ~(at[k] < at[k])
    BY <1>1
  <2> QED BY <1>20, <2>1 DEF Resting, W, L
<1>21. ~i.ends => at[k] = L /\ Len(s) = b
  <2>1. ~i.ends => at[k] = L
    BY <1>1, <1>6
  <2> QED BY <1>1, <1>3, <1>4, <1>16, <2>1
<1>22. <<>> = SubSeq(W, L + 1, L)
  BY <1>1
<1>23. CASE i.length
  <2>1. Trusted(h, s)
    BY <1>5, <1>17, <1>23 DEF Trusted, b
  <2>2. BodyOf(h, s) = body
    BY <1>5, <1>18, <2>1 DEF BodyOf, b
  <2> DEFINE u == SubSeq(s, b + 1, Len(s))
  <2>3. AfterBody(h, s) = AfterNewline(u)
    BY <1>5, <2>1 DEF AfterBody, b
  <2>4. u = SubSeq(W, (p + 2 + b) + 1, L)
    <3>1. b \in 0..Len(s)
      BY <1>3, <1>17
    <3> QED BY <1>19, <3>1
  <2>5. p + 2 + b \in 0..L /\ p + 2 + b \in 0..Len(W)
    BY <1>1, <1>3, <1>9 DEF L
  <2>6. u \in Seq(T) /\ Len(u) = L - (p + 2 + b) /\ \A j \in 1..(L - (p + 2 + b)) : u[j] = W[p + 2 + b + j]
    <3> HIDE DEF u
    <3> QED BY <1>1, <2>4, <2>5, TailHas DEF L
  <2> HIDE DEF u
  <2>7. CASE i.ends
    <3>1. 1 \in 1..(L - (p + 2 + b)) /\ at[k] = p + 2 + b + 1
      BY <1>1, <1>3, <1>4, <2>7
    <3>2. u # <<>> /\ Head(u) = Newline
      BY <1>2, <2>6, <2>7, <3>1
    <3>3. AfterNewline(u) = SubSeq(u, 1 + 1, Len(u))
      BY <2>6, <3>2 DEF AfterNewline
    <3>4. 1 \in 0..(Len(W) - (p + 2 + b))
      BY <3>1 DEF L
    <3>5. SubSeq(u, 1 + 1, Len(u)) = SubSeq(W, (p + 2 + b + 1) + 1, L)
      BY <1>1, <2>4, <2>5, <3>4, TailOfTail DEF L
    <3>6. AfterBody(h, s) = SubSeq(W, at[k] + 1, L)
      BY <2>3, <3>1, <3>3, <3>5
    <3> QED BY <1>14, <1>20, <2>2, <3>6 DEF h, s, i, body
  <2>8. CASE ~i.ends
    <3>1. at[k] = L /\ at[k] = p + 2 + b
      BY <1>4, <1>21, <2>8
    <3>2. u = <<>>
      BY <1>22, <2>4, <3>1
    <3>3. AfterBody(h, s) = SubSeq(W, at[k] + 1, L)
      BY <1>22, <2>3, <3>1, <3>2 DEF AfterNewline
    <3> QED BY <1>14, <1>20, <2>2, <3>3 DEF h, s, i, body
  <2> QED BY <1>3, <2>7, <2>8
<1>24. CASE ~i.length
  <2> DEFINE m == LineLength(s)
  <2>1. ~Trusted(h, s)
    BY <1>5, <1>24 DEF Trusted
  <2>2. BodyOf(h, s) = CutLine(s) /\ AfterBody(h, s) = AfterLine(s)
    BY <2>1 DEF BodyOf, AfterBody
  <2>3. /\ m \in 0..Len(s)
        /\ m = 0 => \A j \in 1..Len(s) : s[j] # Newline
        /\ m # 0 => s[m] = Newline /\ \A j \in 1..Len(s) : s[j] = Newline => m <= j
    BY <1>16, LineHas DEF T
  <2>4. m # 0 => /\ CutLine(s) = SubSeq(s, 1, m - 1)
                 /\ AfterLine(s) = SubSeq(s, m + 1, Len(s))
    BY DEF CutLine, AfterLine
  <2>5. m = 0 => CutLine(s) = s /\ AfterLine(s) = <<>>
    BY DEF CutLine, AfterLine
  <2> HIDE DEF m
  <2>6. CASE \A j \in 1..b : i.body[j] # "nl"
    <3>1. \A j \in 1..b : s[j] # Newline
      BY <1>3, <1>17, <2>6
    <3>2. CASE i.ends
      <4>1. b + 1 \in 1..Len(s) /\ at[k] = p + 2 + b + 1 /\ p + 2 + (b + 1) = at[k] /\ b + 1 \in 1..(L - (p + 2))
        BY <1>1, <1>3, <1>4, <1>16, <3>2
      <4>2. s[b + 1] = Newline
        BY <1>2, <1>16, <3>2, <4>1
      <4>3. m = b + 1
        <5>1. m # 0 /\ m <= b + 1 /\ s[m] = Newline
          BY <2>3, <4>1, <4>2
        <5> QED BY <1>3, <2>3, <3>1, <5>1
      <4>4. CutLine(s) = body
        <5>1. m - 1 = b /\ m # 0
          BY <1>3, <4>3
        <5> QED BY <1>18, <2>4, <5>1
      <4>5. AfterLine(s) = SubSeq(W, at[k] + 1, L)
        <5>1. AfterLine(s) = SubSeq(s, (b + 1) + 1, Len(s)) /\ b + 1 \in 0..Len(s)
          BY <1>3, <2>4, <4>1, <4>3
        <5> QED BY <1>19, <4>1, <5>1
      <4> QED BY <1>14, <1>20, <2>2, <4>4, <4>5 DEF h, s, i, body
    <3>3. CASE ~i.ends
      <4>1. Len(s) = b /\ at[k] = L
        BY <1>21, <3>3
      <4>2. m = 0
        BY <2>3, <3>1, <4>1
      <4>3. s = body
        BY <1>3, <1>16, <1>17, <4>1, SameSeq
      <4>4. AfterLine(s) = SubSeq(W, at[k] + 1, L)
        BY <1>22, <2>5, <4>1, <4>2
      <4> QED BY <1>14, <1>20, <2>2, <2>5, <4>2, <4>3, <4>4 DEF h, s, i, body
    <3> QED BY <1>3, <3>2, <3>3
  <2>7. CASE \E j \in 1..b : i.body[j] = "nl"
    <3>1. PICK j \in 1..b : i.body[j] = "nl"
      BY <2>7
    <3>2. Malformed(i)
      <4>1. "nl" \in ToSet(i.body)
        BY <1>8, <3>1 DEF ToSet
      <4> QED BY <1>7, <1>24, <4>1
    <3>3. ~i.good /\ \A l \in 1..b : i.body[l] # "object"
      BY <1>8, <3>2 DEF Malformed, ToSet
    <3>4. s[j] = Newline /\ j \in 1..Len(s) /\ j <= b
      BY <1>3, <1>17, <3>1
    <3>5. m \in 1..b /\ m \in 0..Len(s)
      BY <1>3, <2>3, <3>4
    <3> DEFINE pos == p + 2 + m
    <3>6. pos \in 0..at[k] /\ pos \in Nat /\ p + 2 < pos
      BY <1>1, <1>3, <1>9, <3>5
    <3>7. AfterLine(s) = SubSeq(W, pos + 1, L)
      <4>1. m # 0 /\ m \in 0..Len(s)
        BY <1>3, <3>5
      <4>2. SubSeq(s, m + 1, Len(s)) = SubSeq(W, (p + 2 + m) + 1, L)
        BY <1>19, <4>1
      <4> QED BY <2>4, <4>1, <4>2
    <3>8. ASSUME NEW l \in (pos + 1)..at[k] PROVE Plain(W[l])
      <4>1. CASE l <= p + 2 + b
        <5>1. l - (p + 2) \in 1..b /\ p + 2 + (l - (p + 2)) = l
          BY <1>1, <1>3, <3>6, <4>1
        <5>2. W[l] = body[l - (p + 2)] /\ body[l - (p + 2)].is = i.body[l - (p + 2)]
          BY <1>2, <1>3, <5>1
        <5>3. i.body[l - (p + 2)] \in {"nl", "raw"}
          BY <1>3, <3>3, <5>1
        <5> QED BY <5>2, <5>3 DEF Plain
      <4>2. CASE ~(l <= p + 2 + b)
        <5>1. i.ends /\ l = at[k]
          BY <1>1, <1>3, <1>4, <3>6, <4>2
        <5>2. W[l] = Newline
          BY <1>2, <5>1
        <5> QED BY <5>2 DEF Plain, Newline
      <4> QED BY <4>1, <4>2
    <3>9. k < n => W[at[k]] = Newline
      BY <1>2, <1>6
    <3> HIDE DEF pos
    <3>10. Resting(AfterLine(s), at, k, pos)
      BY <3>6, <3>7, <3>8, <3>9 DEF Resting, W, L, n
    <3> QED BY <1>14, <2>2, <3>3, <3>10 DEF h, s, i
  <2> QED BY <2>6, <2>7
<1>25. i.length \in BOOLEAN
  BY <1>1 DEF ItemContent
<1> QED BY <1>23, <1>24, <1>25

LEMMA AtMostHas ==
  ASSUME NEW S, NEW s \in Seq(S), NEW n \in Nat
  PROVE  /\ AtMost(n, s) \in Seq(S) /\ Len(AtMost(n, s)) = IF Len(s) < n THEN Len(s) ELSE n
         /\ Len(s) < n => AtMost(n, s) = s
<1> DEFINE p == IF Len(s) < n THEN Len(s) ELSE n
           t == SubSeq(s, 1, p)
<1>1. p \in 0..Len(s) /\ Len(s) \in Nat
  OBVIOUS
<1>2. AtMost(n, s) = t
  BY DEF AtMost
<1> HIDE DEF p
<1>3. t \in Seq(S) /\ Len(t) = p /\ \A j \in 1..p : t[j] = s[j]
  BY <1>1, HeadHas
<1>4. p = Len(s) => t = s
  BY <1>3, SameSeq
<1> HIDE DEF t
<1> QED BY <1>2, <1>3, <1>4 DEF p

\* What is over a limit is cut off, and nothing else.
LEMMA AtMostAppend ==
  ASSUME NEW S, NEW s \in Seq(S), NEW x \in S, NEW n \in Nat
  PROVE  AtMost(n, Append(s, x)) = IF Len(s) < n THEN Append(AtMost(n, s), x) ELSE AtMost(n, s)
<1> DEFINE t == Append(s, x)
           u == AtMost(n, s)
           v == AtMost(n, t)
           l == Len(s)
<1>1. t \in Seq(S) /\ Len(t) = l + 1 /\ (\A j \in 1..l : t[j] = s[j]) /\ l \in Nat
  BY AppendHas
<1>2. u \in Seq(S) /\ Len(u) = (IF l < n THEN l ELSE n) /\ (l < n => u = s)
  BY AtMostHas
<1>3. u = SubSeq(s, 1, IF l < n THEN l ELSE n)
  BY DEF AtMost
<1>4. v = SubSeq(t, 1, IF l + 1 < n THEN l + 1 ELSE n)
  BY <1>1 DEF AtMost
<1> HIDE DEF t, u, v, l
<1>5. CASE l < n
  <2>1. v = SubSeq(t, 1, l + 1)
    <3>1. (IF l + 1 < n THEN l + 1 ELSE n) = l + 1
      BY <1>1, <1>5
    <3> QED BY <1>4, <3>1
  <2>2. l + 1 \in 0..Len(t)
    BY <1>1
  <2>3. v \in Seq(S) /\ Len(v) = l + 1 /\ \A j \in 1..(l + 1) : v[j] = t[j]
    BY <1>1, <2>1, <2>2, HeadHas
  <2>4. v = t
    BY <1>1, <2>3, SameSeq
  <2> QED BY <1>2, <1>5, <2>4 DEF t, u, v, l
<1>6. CASE ~(l < n)
  <2>1. v = SubSeq(t, 1, n) /\ u = SubSeq(s, 1, n) /\ n \in 0..l /\ n \in 0..Len(t)
    <3>1. (IF l + 1 < n THEN l + 1 ELSE n) = n /\ (IF l < n THEN l ELSE n) = n
      BY <1>1, <1>6
    <3> QED BY <1>1, <1>3, <1>4, <1>6, <3>1
  <2>2. v \in Seq(S) /\ Len(v) = n /\ \A j \in 1..n : v[j] = t[j]
    BY <1>1, <2>1, HeadHas
  <2>3. n \in 0..Len(s)
    BY <2>1 DEF l
  <2>4. u \in Seq(S) /\ Len(u) = n /\ \A j \in 1..n : u[j] = s[j]
    BY <2>1, <2>3, HeadHas
  <2>5. \A j \in 1..n : j \in 1..l
    BY <2>1, <1>1
  <2>6. v = u
    BY <1>1, <2>2, <2>4, <2>5, SameSeq
  <2> QED BY <1>6, <2>6 DEF t, u, v, l
<1> QED BY <1>5, <1>6

\* Bodies and rows of one more item.
LEMMA BodiesAppend ==
  ASSUME NEW s \in Seq(ItemContent), NEW i \in ItemContent
  PROVE  Bodies(Append(s, i)) = Append(Bodies(s), BodyTokens(i)) /\ Len(Bodies(s)) = Len(s)
<1> DEFINE I == ItemContent
           T == {BodyTokens(x) : x \in I}
           t == Append(s, i)
           b == Bodies(s)
           n == Len(s)
<1>1. n \in Nat /\ DOMAIN s = 1..n /\ \A j \in 1..n : s[j] \in I
  OBVIOUS
<1>2. b = [j \in 1..n |-> BodyTokens(s[j])]
  BY <1>1 DEF Bodies
<1>3. b \in [1..n -> T] /\ BodyTokens(i) \in T
  BY <1>1, <1>2
<1>4. b \in Seq(T) /\ Len(b) = n
  <2> HIDE DEF b, T, n
  <2> QED BY <1>1, <1>3, FunctionIsSeq
<1>5. t \in Seq(I) /\ Len(t) = n + 1 /\ t[n + 1] = i /\ \A j \in 1..n : t[j] = s[j]
  <2> HIDE DEF I
  <2>1. s \in Seq(I) /\ i \in I
    BY DEF I
  <2> QED BY <2>1, AppendHas
<1>6. DOMAIN t = 1..(n + 1)
  BY <1>5
<1>7. Bodies(t) = [j \in 1..(n + 1) |-> BodyTokens(t[j])]
  BY <1>6 DEF Bodies
<1> HIDE DEF b, T, n, t, I
<1>8. /\ Append(b, BodyTokens(i)) \in Seq(T) /\ Len(Append(b, BodyTokens(i))) = n + 1
      /\ Append(b, BodyTokens(i))[n + 1] = BodyTokens(i) /\ \A j \in 1..n : Append(b, BodyTokens(i))[j] = b[j]
  BY <1>3, <1>4, AppendHas
<1>9. \A j \in 1..(n + 1) : Append(b, BodyTokens(i))[j] = BodyTokens(t[j])
  <2>1. \A j \in 1..(n + 1) : j = n + 1 \/ j \in 1..n
    BY <1>1
  <2> QED BY <1>2, <1>5, <1>8, <2>1
<1>10. DOMAIN Append(b, BodyTokens(i)) = 1..(n + 1) /\ Append(b, BodyTokens(i)) = [j \in 1..(n + 1) |-> Append(b, BodyTokens(i))[j]]
  <2> DEFINE c == Append(b, BodyTokens(i))
  <2>1. c \in Seq(T) /\ Len(c) = n + 1
    BY <1>8
  <2> HIDE DEF c
  <2>2. DOMAIN c = 1..(n + 1)
    BY <2>1
  <2>3. c = [j \in 1..(n + 1) |-> c[j]]
    BY <2>1, <2>2
  <2> QED BY <2>2, <2>3 DEF c
<1>11. Append(b, BodyTokens(i)) = Bodies(t)
  BY <1>7, <1>9, <1>10
<1> QED BY <1>4, <1>11 DEF b, n, t

LEMMA RowsAppend ==
  ASSUME NEW s \in Seq(ItemContent), NEW i \in ItemContent
  PROVE  RowsIn(Append(s, i)) = RowsIn(s) + i.rows /\ RowsIn(s) \in Nat /\ i.rows \in Nat
<1> DEFINE I == ItemContent
           t == Append(s, i)
           n == Len(s)
           f == [j \in DOMAIN s |-> s[j].rows]
           g == [j \in DOMAIN t |-> t[j].rows]
           S == 1..n
<1>1. n \in Nat /\ DOMAIN s = S /\ \A j \in S : s[j] \in I /\ s[j].rows \in Nat
  <2>1. n \in Nat /\ DOMAIN s = S /\ \A j \in S : s[j] \in I
    OBVIOUS
  <2>2. \A x \in I : x.rows \in Nat
    BY DEF ItemContent
  <2> HIDE DEF I, S
  <2> QED BY <2>1, <2>2
<1>2. t \in Seq(I) /\ Len(t) = n + 1 /\ t[n + 1] = i /\ \A j \in 1..n : t[j] = s[j]
  <2> HIDE DEF I
  <2>1. s \in Seq(I) /\ i \in I
    BY DEF I
  <2> QED BY <2>1, AppendHas
<1>3. i.rows \in Nat
  BY DEF ItemContent
<1>4. DOMAIN t = S \cup {n + 1} /\ n + 1 \notin S
  <2>1. DOMAIN t = 1..(n + 1)
    BY <1>2
  <2> QED BY <1>1, <2>1
<1> HIDE DEF t, I
<1>5. DOMAIN f = S /\ DOMAIN g = S \cup {n + 1} /\ g[n + 1] = i.rows /\ \A j \in S : f[j] = g[j] /\ f[j] \in Nat
  BY <1>1, <1>2, <1>4
<1>6. RowsIn(s) = SumFunctionOnSet(f, S) /\ RowsIn(t) = SumFunctionOnSet(g, S \cup {n + 1})
  BY <1>1, <1>5 DEF RowsIn, SumFunction
<1>7. IsFiniteSet(S)
  <2>1. 1 \in Int /\ n \in Int
    BY <1>1
  <2> QED BY <2>1, FS_Interval
<1> HIDE DEF f, g, S, n
<1>8. IntsOn(g, S \cup {n + 1}) /\ IntsOn(g, S) /\ IntsOn(f, S)
  <2>1. \A j \in S : f[j] \in Int /\ g[j] \in Int
    BY <1>5
  <2> QED BY <1>3, <1>5, <2>1 DEF IntsOn
<1>9. SumFunctionOnSet(g, S \cup {n + 1}) = g[n + 1] + SumFunctionOnSet(g, S)
  BY <1>4, <1>7, <1>8, SumAdd
<1>10. SumFunctionOnSet(g, S) = SumFunctionOnSet(f, S)
  BY <1>5, <1>7, <1>8, SumEqual
<1>11. SumFunctionOnSet(f, S) \in Nat
  BY <1>5, <1>7, SumNat
<1> QED BY <1>3, <1>5, <1>6, <1>9, <1>10, <1>11 DEF t

LEMMA RowsOfNone == RowsIn(<<>>) = 0
<1> DEFINE f == [j \in DOMAIN <<>> |-> <<>>[j].rows]
<1>1. DOMAIN f = {}
  OBVIOUS
<1>2. RowsIn(<<>>) = SumFunctionOnSet(f, {})
  BY <1>1 DEF RowsIn, SumFunction
<1> QED BY <1>2, SumEmpty

Fields == {"events", "invalid", "rows", "attachments", "report", "checkIn", "reports", "dropped"}

Capped(n, most) == IF n > most THEN most ELSE n

\* What Parse has made of the first k items.
ReadSoFar(env, k) ==
  /\ DOMAIN env = Fields
  /\ env.events = AtMost(MaxEvents + 1, Among("event")[k])
  /\ env.rows = Capped(RowsIn(Among("sessions")[k]), MaxSessions)
  /\ env.attachments = Bodies(AtMost(MaxAttachments, Among("attachment")[k]))
  /\ env.report = LastOf(Among("user_report")[k]) /\ env.checkIn = LastOf(Among("check_in")[k])
  /\ env.reports = Len(Among("client_report")[k])

\* One more item changes what was made of its kind, and nothing else.
LEMMA OthersStay ==
  ASSUME mailing \in Seq(ItemContent), NEW k \in 1..Len(mailing), NEW kind
  PROVE  /\ Among(kind)[k - 1] \in Seq(ItemContent) /\ Among(kind)[k] \in Seq(ItemContent)
         /\ IsGood(mailing[k], kind) => Among(kind)[k] = Append(Among(kind)[k - 1], mailing[k])
         /\ ~IsGood(mailing[k], kind) => Among(kind)[k] = Among(kind)[k - 1]
<1> DEFINE A == Among(kind)
           n == Len(mailing)
           SS == Seq(ItemContent)
<1>1. /\ A \in [0..n -> SS]
      /\ A[k] = IF IsGood(mailing[k], kind) THEN Append(A[k - 1], mailing[k]) ELSE A[k - 1]
  BY AmongIs
<1>2. k \in 0..n /\ k - 1 \in 0..n
  OBVIOUS
<1> HIDE DEF A, n, SS
<1>3. A[k - 1] \in SS /\ A[k] \in SS
  BY <1>1, <1>2
<1> QED BY <1>1, <1>3 DEF A, SS

\* Take makes of an item what it is worth, whatever came before it.
LEMMA ItemTaken ==
  ASSUME EnvelopeAssumption, mailing \in Seq(ItemContent), NEW k \in 1..Len(mailing), NEW env, ReadSoFar(env, k - 1), NEW body,
         mailing[k].good => body = BodyTokens(mailing[k])
  PROVE  ReadSoFar(Take(env, Header(mailing[k]), body), k)
<1> DEFINE i == mailing[k]
           h == Header(i)
           A(kind) == Among(kind)[k - 1]
           B(kind) == Among(kind)[k]
           taken == Take(env, h, body)
<1>1. MaxEvents \in Nat /\ MaxSessions \in Nat /\ MaxAttachments \in Nat /\ MaxEvents + 1 \in Nat
  BY DEF EnvelopeAssumption
<1>2. i \in ItemContent /\ i.good \in BOOLEAN /\ i.rows \in Nat
  <2>1. i \in ItemContent
    OBVIOUS
  <2>2. \A x \in ItemContent : x.good \in BOOLEAN /\ x.rows \in Nat
    BY DEF ItemContent
  <2> QED BY <2>1, <2>2
<1>3. h.is = "header" /\ h.item = i /\ TypeOf(h) = i.kind
  BY DEF Header, TypeOf
<1>4. Parses(h, body) <=> i.good
  BY <1>2, <1>3 DEF Parses, Whole
<1>5. ASSUME NEW kind
      PROVE  /\ A(kind) \in Seq(ItemContent) /\ B(kind) \in Seq(ItemContent)
             /\ i.kind = kind /\ i.good => B(kind) = Append(A(kind), i)
             /\ ~(i.kind = kind /\ i.good) => B(kind) = A(kind)
  BY OthersStay DEF IsGood
<1> HIDE DEF i, h, A, B
<1>6. /\ DOMAIN env = Fields
      /\ env.events = AtMost(MaxEvents + 1, A("event"))
      /\ env.rows = Capped(RowsIn(A("sessions")), MaxSessions)
      /\ env.attachments = Bodies(AtMost(MaxAttachments, A("attachment")))
      /\ env.report = LastOf(A("user_report")) /\ env.checkIn = LastOf(A("check_in"))
      /\ env.reports = Len(A("client_report"))
  BY DEF ReadSoFar, A
<1> SUFFICES /\ DOMAIN taken = Fields
             /\ taken.events = AtMost(MaxEvents + 1, B("event"))
             /\ taken.rows = Capped(RowsIn(B("sessions")), MaxSessions)
             /\ taken.attachments = Bodies(AtMost(MaxAttachments, B("attachment")))
             /\ taken.report = LastOf(B("user_report")) /\ taken.checkIn = LastOf(B("check_in"))
             /\ taken.reports = Len(B("client_report"))
  BY DEF ReadSoFar, B, h, i
<1>7. ASSUME NEW n PROVE /\ DOMAIN Drop(env, n) = Fields
                         /\ Drop(env, n).events = env.events /\ Drop(env, n).rows = env.rows
                         /\ Drop(env, n).attachments = env.attachments /\ Drop(env, n).report = env.report
                         /\ Drop(env, n).checkIn = env.checkIn /\ Drop(env, n).reports = env.reports
  BY <1>6 DEF Drop, Fields
<1>8. CASE i.kind = "event"
  <2>1. taken = TakeEvent(env, h, body)
    BY <1>3, <1>8 DEF Take
  <2>2. B("sessions") = A("sessions") /\ B("attachment") = A("attachment") /\ B("user_report") = A("user_report")
        /\ B("check_in") = A("check_in") /\ B("client_report") = A("client_report")
    BY <1>5, <1>8
  <2>3. /\ DOMAIN taken = Fields /\ taken.events = AtMost(MaxEvents + 1, B("event"))
        /\ taken.rows = env.rows /\ taken.attachments = env.attachments /\ taken.report = env.report
        /\ taken.checkIn = env.checkIn /\ taken.reports = env.reports
    <3> DEFINE s == A("event")
               u == AtMost(MaxEvents + 1, s)
    <3>1. s \in Seq(ItemContent) /\ (i.good => B("event") = Append(s, i)) /\ (~i.good => B("event") = s)
      BY <1>2, <1>5, <1>8
    <3>2. Len(s) \in Nat /\ Len(u) = IF Len(s) < MaxEvents + 1 THEN Len(s) ELSE MaxEvents + 1
      <4> DEFINE I == ItemContent
      <4> HIDE DEF I, s
      <4>1. s \in Seq(I)
        BY <3>1 DEF I
      <4> QED BY <1>1, <4>1, AtMostHas
    <3>3. AtMost(MaxEvents + 1, Append(s, i)) = IF Len(s) < MaxEvents + 1 THEN Append(u, i) ELSE u
      <4> DEFINE I == ItemContent
      <4> HIDE DEF I, s
      <4>1. s \in Seq(I) /\ i \in I
        BY <1>2, <3>1 DEF I
      <4> QED BY <1>1, <4>1, AtMostAppend
    <3> HIDE DEF s, u
    <3>4. env.events = u
      BY <1>6 DEF s, u
    <3>5. CASE Len(env.events) > MaxEvents
      <4>1. taken = Drop(env, 1)
        BY <2>1, <3>5 DEF TakeEvent
      <4>2. ~(Len(s) < MaxEvents + 1)
        BY <1>1, <3>2, <3>4, <3>5
      <4>3. AtMost(MaxEvents + 1, B("event")) = u
        BY <1>2, <3>1, <3>3, <4>2 DEF u
      <4> QED BY <1>7, <3>4, <4>1, <4>3
    <3>6. CASE ~(Len(env.events) > MaxEvents)
      <4>1. Len(s) < MaxEvents + 1
        BY <1>1, <3>2, <3>4, <3>6
      <4>2. CASE i.good
        <5>1. taken = [env EXCEPT !.events = Append(u, i)]
          BY <1>3, <1>4, <2>1, <3>4, <3>6, <4>2 DEF TakeEvent
        <5>2. AtMost(MaxEvents + 1, B("event")) = Append(u, i)
          BY <3>1, <3>3, <4>1, <4>2
        <5> QED BY <1>6, <5>1, <5>2 DEF Fields
      <4>3. CASE ~i.good
        <5>1. taken = [env EXCEPT !.invalid = @ + 1]
          BY <1>4, <2>1, <3>6, <4>3 DEF TakeEvent
        <5>2. AtMost(MaxEvents + 1, B("event")) = u
          BY <3>1, <4>3 DEF u
        <5> QED BY <1>6, <3>4, <5>1, <5>2 DEF Fields
      <4> QED BY <1>2, <4>2, <4>3
    <3> QED BY <3>5, <3>6
  <2> HIDE DEF taken
  <2> QED BY <1>6, <2>2, <2>3
<1>9. CASE i.kind = "sessions"
  <2>1. taken = TakeSessions(env, h, body)
    BY <1>3, <1>9 DEF Take
  <2>2. B("event") = A("event") /\ B("attachment") = A("attachment") /\ B("user_report") = A("user_report")
        /\ B("check_in") = A("check_in") /\ B("client_report") = A("client_report")
    BY <1>5, <1>9
  <2>3. /\ DOMAIN taken = Fields /\ taken.rows = Capped(RowsIn(B("sessions")), MaxSessions)
        /\ taken.events = env.events /\ taken.attachments = env.attachments /\ taken.report = env.report
        /\ taken.checkIn = env.checkIn /\ taken.reports = env.reports
    <3> DEFINE s == A("sessions")
               r == RowsIn(s)
               q == RowsIn(B("sessions"))
    <3>1. s \in Seq(ItemContent) /\ (i.good => B("sessions") = Append(s, i)) /\ (~i.good => B("sessions") = s)
      BY <1>2, <1>5, <1>9
    <3> HIDE DEF s
    <3>2. r \in Nat /\ (i.good => q = r + i.rows) /\ (~i.good => q = r)
      BY <1>2, <3>1, RowsAppend
    <3>3. env.rows = Capped(r, MaxSessions)
      BY <1>6 DEF s
    <3> HIDE DEF r, q
    <3>4. CASE env.rows >= MaxSessions
      <4>1. taken = Drop(env, 1)
        BY <2>1, <3>4 DEF TakeSessions
      <4>2. Capped(q, MaxSessions) = env.rows
        <5>1. r >= MaxSessions /\ env.rows = MaxSessions
          BY <1>1, <3>2, <3>3, <3>4 DEF Capped
        <5>2. q >= r /\ q \in Nat
          <6>1. CASE i.good
            BY <1>2, <3>2, <6>1
          <6>2. CASE ~i.good
            BY <3>2, <6>2
          <6> QED BY <1>2, <6>1, <6>2
        <5> QED BY <1>1, <3>2, <5>1, <5>2 DEF Capped
      <4> QED BY <1>7, <4>1, <4>2 DEF q
    <3>5. CASE ~(env.rows >= MaxSessions)
      <4>0. env.rows = r /\ r < MaxSessions
        BY <1>1, <3>2, <3>3, <3>5 DEF Capped
      <4>1. CASE ~i.good
        <5>1. taken = env
          BY <1>4, <2>1, <3>5, <4>1 DEF TakeSessions
        <5> QED BY <1>6, <3>2, <3>3, <4>1, <5>1 DEF q
      <4>2. CASE i.good
        <5> DEFINE fit == IF i.rows > MaxSessions - env.rows THEN MaxSessions - env.rows ELSE i.rows
                   mid == [env EXCEPT !.rows = @ + fit]
        <5>1. taken = Drop(mid, i.rows - fit)
          BY <1>3, <1>4, <2>1, <3>5, <4>2 DEF TakeSessions
        <5>2. env.rows + fit = Capped(q, MaxSessions)
          BY <1>1, <1>2, <3>2, <4>0, <4>2 DEF Capped
        <5> HIDE DEF fit
        <5>3. /\ DOMAIN mid = Fields /\ mid.rows = env.rows + fit
              /\ mid.events = env.events /\ mid.attachments = env.attachments /\ mid.report = env.report
              /\ mid.checkIn = env.checkIn /\ mid.reports = env.reports
          BY <1>6 DEF Fields
        <5> HIDE DEF mid
        <5>4. /\ DOMAIN taken = Fields /\ taken.rows = mid.rows
              /\ taken.events = mid.events /\ taken.attachments = mid.attachments /\ taken.report = mid.report
              /\ taken.checkIn = mid.checkIn /\ taken.reports = mid.reports
          BY <5>1, <5>3 DEF Drop, Fields
        <5> HIDE DEF taken
        <5> QED BY <5>2, <5>3, <5>4 DEF q
      <4> QED BY <1>2, <4>1, <4>2
    <3> QED BY <3>4, <3>5
  <2> HIDE DEF taken
  <2> QED BY <1>6, <2>2, <2>3
<1>10. CASE i.kind = "attachment"
  <2>1. taken = TakeAttachment(env, h, body)
    BY <1>3, <1>10 DEF Take
  <2>2. B("event") = A("event") /\ B("sessions") = A("sessions") /\ B("user_report") = A("user_report")
        /\ B("check_in") = A("check_in") /\ B("client_report") = A("client_report")
    BY <1>5, <1>10
  <2>3. /\ DOMAIN taken = Fields /\ taken.attachments = Bodies(AtMost(MaxAttachments, B("attachment")))
        /\ taken.events = env.events /\ taken.rows = env.rows /\ taken.report = env.report
        /\ taken.checkIn = env.checkIn /\ taken.reports = env.reports
    <3> DEFINE s == A("attachment")
               u == AtMost(MaxAttachments, s)
               I == ItemContent
    <3>1. s \in Seq(I) /\ i \in I /\ (i.good => B("attachment") = Append(s, i)) /\ (~i.good => B("attachment") = s)
      BY <1>2, <1>5, <1>10
    <3> HIDE DEF s, I
    <3>2. /\ Len(s) \in Nat /\ u \in Seq(I) /\ Len(u) = IF Len(s) < MaxAttachments THEN Len(s) ELSE MaxAttachments
      BY <1>1, <3>1, AtMostHas
    <3>3. AtMost(MaxAttachments, Append(s, i)) = IF Len(s) < MaxAttachments THEN Append(u, i) ELSE u
      BY <1>1, <3>1, AtMostAppend
    <3> HIDE DEF u
    <3>4. Bodies(Append(u, i)) = Append(Bodies(u), BodyTokens(i)) /\ Len(Bodies(u)) = Len(u)
      BY <3>1, <3>2, BodiesAppend DEF I
    <3>5. env.attachments = Bodies(u)
      BY <1>6 DEF s, u
    <3>6. Len(env.attachments) >= MaxAttachments <=> ~(Len(s) < MaxAttachments)
      BY <1>1, <3>2, <3>4, <3>5
    <3>7. CASE Len(env.attachments) >= MaxAttachments \/ ~i.good
      <4>1. taken = Drop(env, 1)
        BY <1>3, <2>1, <3>7 DEF TakeAttachment
      <4>2. AtMost(MaxAttachments, B("attachment")) = u
        <5>1. CASE ~i.good
          BY <3>1, <5>1 DEF u
        <5>2. CASE i.good
          BY <3>1, <3>3, <3>6, <3>7, <5>2
        <5> QED BY <1>2, <5>1, <5>2
      <4> QED BY <1>7, <3>5, <4>1, <4>2
    <3>8. CASE ~(Len(env.attachments) >= MaxAttachments \/ ~i.good)
      <4>1. taken = [env EXCEPT !.attachments = Append(Bodies(u), body)]
        BY <1>3, <2>1, <3>5, <3>8 DEF TakeAttachment
      <4>2. body = BodyTokens(i)
        BY <3>8 DEF i
      <4>3. AtMost(MaxAttachments, B("attachment")) = Append(u, i)
        BY <3>1, <3>3, <3>6, <3>8
      <4> QED BY <1>6, <3>4, <4>1, <4>2, <4>3 DEF Fields
    <3> QED BY <3>7, <3>8
  <2> HIDE DEF taken
  <2> QED BY <1>6, <2>2, <2>3
<1>11. ASSUME NEW s \in Seq(ItemContent) PROVE LastOf(Append(s, i)) = <<i>>
  <2> DEFINE I == ItemContent
             t == Append(s, i)
  <2>1. s \in Seq(I) /\ i \in I
    BY <1>2, <1>11
  <2> HIDE DEF I
  <2>2. t # <<>> /\ Len(t) = Len(s) + 1 /\ t[Len(s) + 1] = i
    BY <2>1, AppendHas
  <2> HIDE DEF t
  <2>3. LastOf(t) = <<t[Len(t)]>>
    BY <2>2 DEF LastOf
  <2> QED BY <2>2, <2>3 DEF t
<1>12. CASE i.kind = "user_report"
  <2>1. taken = TakeReport(env, h, body)
    BY <1>3, <1>12 DEF Take
  <2>2. B("event") = A("event") /\ B("sessions") = A("sessions") /\ B("attachment") = A("attachment")
        /\ B("check_in") = A("check_in") /\ B("client_report") = A("client_report")
    BY <1>5, <1>12
  <2>3. CASE i.good
    <3>1. LastOf(B("user_report")) = <<i>>
      BY <1>5, <1>11, <1>12, <2>3
    <3>2. taken = [env EXCEPT !.report = <<i>>]
      BY <1>3, <1>4, <2>1, <2>3 DEF TakeReport
    <3>3. /\ DOMAIN taken = Fields /\ taken.report = <<i>> /\ taken.events = env.events /\ taken.rows = env.rows
          /\ taken.attachments = env.attachments /\ taken.checkIn = env.checkIn /\ taken.reports = env.reports
      BY <1>6, <3>2 DEF Fields
    <3> HIDE DEF taken
    <3> QED BY <1>6, <2>2, <3>1, <3>3
  <2>4. CASE ~i.good
    <3>1. taken = Drop(env, 1) /\ B("user_report") = A("user_report")
      BY <1>4, <1>5, <2>1, <2>4 DEF TakeReport
    <3> HIDE DEF taken
    <3> QED BY <1>6, <1>7, <2>2, <3>1
  <2> QED BY <1>2, <2>3, <2>4
<1>13. CASE i.kind = "check_in"
  <2>1. taken = TakeCheckIn(env, h, body)
    BY <1>3, <1>13 DEF Take
  <2>2. B("event") = A("event") /\ B("sessions") = A("sessions") /\ B("attachment") = A("attachment")
        /\ B("user_report") = A("user_report") /\ B("client_report") = A("client_report")
    BY <1>5, <1>13
  <2>3. CASE i.good
    <3>1. LastOf(B("check_in")) = <<i>>
      BY <1>5, <1>11, <1>13, <2>3
    <3>2. taken = [env EXCEPT !.checkIn = <<i>>]
      BY <1>3, <1>4, <2>1, <2>3 DEF TakeCheckIn
    <3>3. /\ DOMAIN taken = Fields /\ taken.checkIn = <<i>> /\ taken.events = env.events /\ taken.rows = env.rows
          /\ taken.attachments = env.attachments /\ taken.report = env.report /\ taken.reports = env.reports
      BY <1>6, <3>2 DEF Fields
    <3> HIDE DEF taken
    <3> QED BY <1>6, <2>2, <3>1, <3>3
  <2>4. CASE ~i.good
    <3>1. taken = Drop(env, 1) /\ B("check_in") = A("check_in")
      BY <1>4, <1>5, <2>1, <2>4 DEF TakeCheckIn
    <3> HIDE DEF taken
    <3> QED BY <1>6, <1>7, <2>2, <3>1
  <2> QED BY <1>2, <2>3, <2>4
<1>14. CASE i.kind = "client_report"
  <2>1. taken = TakeClientReport(env, h, body)
    BY <1>3, <1>14 DEF Take
  <2>2. B("event") = A("event") /\ B("sessions") = A("sessions") /\ B("attachment") = A("attachment")
        /\ B("user_report") = A("user_report") /\ B("check_in") = A("check_in")
    BY <1>5, <1>14
  <2>3. CASE i.good
    <3>1. Len(B("client_report")) = Len(A("client_report")) + 1
      <4> DEFINE I == ItemContent
                 s == A("client_report")
      <4>1. s \in Seq(I) /\ i \in I /\ B("client_report") = Append(s, i)
        BY <1>2, <1>5, <1>14, <2>3
      <4> HIDE DEF I, s
      <4>2. Len(Append(s, i)) = Len(s) + 1
        BY <4>1, AppendHas
      <4> QED BY <4>1, <4>2 DEF s
    <3>2. taken = [env EXCEPT !.reports = @ + 1]
      BY <1>4, <2>1, <2>3 DEF TakeClientReport
    <3>3. /\ DOMAIN taken = Fields /\ taken.reports = env.reports + 1 /\ taken.events = env.events /\ taken.rows = env.rows
          /\ taken.attachments = env.attachments /\ taken.report = env.report /\ taken.checkIn = env.checkIn
      BY <1>6, <3>2 DEF Fields
    <3> HIDE DEF taken
    <3> QED BY <1>6, <2>2, <3>1, <3>3
  <2>4. CASE ~i.good
    <3>1. taken = Drop(env, 1) /\ B("client_report") = A("client_report")
      BY <1>4, <1>5, <2>1, <2>4 DEF TakeClientReport
    <3> HIDE DEF taken
    <3> QED BY <1>6, <1>7, <2>2, <3>1
  <2> QED BY <1>2, <2>3, <2>4
<1>15. CASE i.kind \notin {"event", "sessions", "attachment", "user_report", "check_in", "client_report"}
  <2>1. taken = Drop(env, 1)
    BY <1>3, <1>15 DEF Take
  <2>2. B("event") = A("event") /\ B("sessions") = A("sessions") /\ B("attachment") = A("attachment")
        /\ B("user_report") = A("user_report") /\ B("check_in") = A("check_in") /\ B("client_report") = A("client_report")
    BY <1>5, <1>15
  <2> HIDE DEF taken
  <2> QED BY <1>6, <1>7, <2>1, <2>2
<1> QED BY <1>8, <1>9, <1>10, <1>12, <1>13, <1>14, <1>15

\* What is said of a mailing stays true of it.
LEMMA AmongStays ==
  ASSUME mailing' = mailing, NEW kind
  PROVE  Among(kind)' = Among(kind)
BY Zenon DEF Among

LEMMA WholeStays ==
  ASSUME mailing' = mailing
  PROVE  AllTokens' = AllTokens
BY DEF AllTokens

LEMMA ReadStays ==
  ASSUME mailing' = mailing, parsed' = parsed, NEW k
  PROVE  ReadSoFar(parsed, k)' <=> ReadSoFar(parsed, k)
BY AmongStays DEF ReadSoFar

LEMMA ReadMoves ==
  ASSUME mailing' = mailing, NEW env, env = parsed', NEW k
  PROVE  ReadSoFar(parsed, k)' <=> ReadSoFar(env, k)
BY AmongStays DEF ReadSoFar

LEMMA FramedStays ==
  ASSUME mailing' = mailing, NEW at
  PROVE  Framed(at)' <=> Framed(at)
<1>1. \A k : FramedAt(at, k)' <=> FramedAt(at, k)
  BY WholeStays DEF FramedAt
<1> QED BY <1>1, WholeStays DEF Framed

LEMMA RestingMoves ==
  ASSUME mailing' = mailing, NEW s, s = rest', NEW at, NEW k, NEW pos
  PROVE  Resting(rest, at, k, pos)' <=> Resting(s, at, k, pos)
BY WholeStays DEF Resting

\* While a request is parsed: some number of items is read, what is left of the
\* last of them is lines that are no header, and what Parse has made so far is
\* what those items are worth.
EnvelopeInv ==
  /\ reply \in {"idle", "none", "refused", "ingested"}
  /\ reply # "idle" => mailing \in Mailings
  /\ reply = "none" =>
       \E at, k, pos : k \in 0..Len(mailing) /\ Framed(at) /\ Resting(rest, at, k, pos) /\ ReadSoFar(parsed, k)
  /\ reply \in {"refused", "ingested"} =>
       ReadSoFar(parsed, Len(mailing)) /\ ((reply = "refused") = (Len(parsed.events) > MaxEvents))

LEMMA MailingTyped ==
  ASSUME EnvelopeAssumption, mailing \in Mailings
  PROVE  mailing \in Seq(ItemContent) /\ WellFormed(mailing) /\ Len(mailing) \in Nat
<1>1. mailing \in Seq(ItemContent) /\ WellFormed(mailing)
  BY DEF EnvelopeAssumption
<1> QED BY <1>1

LEMMA NothingRead ==
  ASSUME EnvelopeAssumption, mailing \in Seq(ItemContent)
  PROVE  ReadSoFar(NothingParsed, 0)
<1>1. \A kind : Among(kind)[0] = <<>>
  BY AmongIs
<1>2. \A n \in Nat : AtMost(n, <<>>) = <<>>
  BY DEF AtMost
<1>3. Bodies(<<>>) = <<>>
  BY DEF Bodies
<1>4. LastOf(<<>>) = <<>> /\ Len(<<>>) = 0
  BY DEF LastOf
<1>5. MaxEvents + 1 \in Nat /\ MaxAttachments \in Nat /\ MaxSessions \in Nat
  BY DEF EnvelopeAssumption
<1>6. Capped(0, MaxSessions) = 0
  BY <1>5 DEF Capped
<1>7. /\ AtMost(MaxEvents + 1, Among("event")[0]) = <<>>
      /\ RowsIn(Among("sessions")[0]) = 0
      /\ Bodies(AtMost(MaxAttachments, Among("attachment")[0])) = <<>>
      /\ LastOf(Among("user_report")[0]) = <<>> /\ LastOf(Among("check_in")[0]) = <<>>
      /\ Len(Among("client_report")[0]) = 0
  BY <1>1, <1>2, <1>3, <1>4, <1>5, RowsOfNone
<1> QED BY <1>6, <1>7 DEF ReadSoFar, NothingParsed, Fields

\* Too many events: more than the limit among those sent.
LEMMA TooManyEvents ==
  ASSUME EnvelopeAssumption, mailing \in Seq(ItemContent), ReadSoFar(parsed, Len(mailing))
  PROVE  Len(parsed.events) > MaxEvents <=> Len(Sent("event")) > MaxEvents
<1> DEFINE s == Sent("event")
           I == ItemContent
<1>1. parsed.events = AtMost(MaxEvents + 1, s)
  BY DEF ReadSoFar, Sent
<1>2. s \in Seq(I)
  <2>1. Among("event") \in [0..Len(mailing) -> Seq(I)] /\ Len(mailing) \in 0..Len(mailing)
    BY AmongIs
  <2> QED BY <2>1 DEF Sent
<1>3. MaxEvents \in Nat /\ MaxEvents + 1 \in Nat
  BY DEF EnvelopeAssumption
<1> HIDE DEF s, I
<1>4. Len(parsed.events) = IF Len(s) < MaxEvents + 1 THEN Len(s) ELSE MaxEvents + 1
  BY <1>1, <1>2, <1>3, AtMostHas
<1>5. Len(s) \in Nat
  BY <1>2
<1> QED BY <1>3, <1>4, <1>5 DEF s

\* When everything is read, all of the items are.
LEMMA AllRead ==
  ASSUME mailing \in Seq(ItemContent), NEW at, Framed(at), NEW k \in 0..Len(mailing), NEW pos, Resting(rest, at, k, pos), rest = <<>>
  PROVE  k = Len(mailing)
<1> DEFINE W == AllTokens
           L == Len(W)
           n == Len(mailing)
           T == Token
<1>1. W \in Seq(T) /\ L \in Nat /\ at[k] \in Nat /\ at[k] <= L /\ pos \in 0..at[k] /\ n \in Nat /\ k \in 0..n
  BY DEF Framed, Resting
<1>2. rest = SubSeq(W, pos + 1, Len(W)) /\ pos \in 0..Len(W)
  BY <1>1 DEF Resting
<1>3. Len(rest) = L - pos
  <2> HIDE DEF W, T
  <2> QED BY <1>1, <1>2, TailHas
<1>4. pos = L
  <2>1. Len(rest) = 0
    OBVIOUS
  <2> HIDE DEF L
  <2> QED BY <1>1, <1>3, <2>1
<1>5. SUFFICES ASSUME k # n PROVE FALSE
  OBVIOUS
<1>6. k + 1 \in 1..n /\ (k + 1) - 1 = k /\ k + 1 \in 0..n
  BY <1>1, <1>5
<1>7. at[k + 1] = at[k] + 2 + Len(mailing[k + 1].body) + EndOf(mailing[k + 1]) /\ at[k + 1] <= L
  BY <1>6 DEF Framed, FramedAt
<1>8. mailing[k + 1] \in ItemContent
  BY <1>6
<1>9. Len(mailing[k + 1].body) \in Nat /\ EndOf(mailing[k + 1]) \in {0, 1}
  BY <1>8, BodyHas DEF EndOf
<1> DEFINE b == Len(mailing[k + 1].body)
           e == EndOf(mailing[k + 1])
<1>10. b \in Nat /\ e \in Nat /\ at[k + 1] = at[k] + 2 + b + e
  BY <1>7, <1>9
<1>11. at[k] = L /\ L \in Nat /\ at[k + 1] <= L
  <2>1. at[k] \in Nat /\ at[k] <= L /\ pos \in 0..at[k] /\ pos = L
    BY <1>1, <1>4
  <2> HIDE DEF L
  <2> QED BY <1>1, <1>7, <2>1
<1> HIDE DEF L, b, e
<1> QED BY <1>10, <1>11

\* Between two items the next is read, unless there is none.
LEMMA NextItem ==
  ASSUME mailing \in Seq(ItemContent), NEW at, Framed(at), NEW k \in 0..Len(mailing), NEW pos, Resting(rest, at, k, pos), pos = at[k],
         rest # <<>>
  PROVE  k + 1 \in 1..Len(mailing) /\ (k + 1) - 1 = k /\ rest = SubSeq(AllTokens, at[(k + 1) - 1] + 1, Len(AllTokens))
<1> DEFINE n == Len(mailing)
<1>1. n \in Nat /\ rest = SubSeq(AllTokens, at[k] + 1, Len(AllTokens))
  BY DEF Resting
<1>2. k # n
  <2> SUFFICES ASSUME k = n PROVE FALSE
    OBVIOUS
  <2>1. at[n] = Len(AllTokens) /\ Len(AllTokens) \in Nat
    BY DEF Framed
  <2>2. rest = <<>>
    BY <1>1, <2>1
  <2> QED BY <2>2
<1>3. (k + 1) - 1 = k
  BY <1>1
<1> HIDE DEF n
<1> QED BY <1>1, <1>2, <1>3 DEF n

\* A request that is received is read from its first item on.
LEMMA Received == (mailing \in Mailings => (\E at : Framed(at)) /\ ReadSoFar(NothingParsed, 0))'
<1>1. mailing \in Mailings => (\E at : Framed(at)) /\ ReadSoFar(NothingParsed, 0)
  BY MailingTyped, MailingFramed, NothingRead, EnvelopeAssumption
<1> QED BY <1>1, PTL

\* Every line and every item leaves it true.
LEMMA EnvelopeInvHolds == EnvelopeSpec => []EnvelopeInv
<1>1. EnvelopeInit => EnvelopeInv
  BY DEF EnvelopeInit, EnvelopeInv
<1>2. ASSUME EnvelopeInv, [EnvelopeNext]_envelopeVars PROVE EnvelopeInv'
  <2>1. CASE \E items \in Mailings : Receive(items)
    <3>1. PICK items \in Mailings : Receive(items)
      BY <2>1
    <3>2. /\ mailing' \in Mailings /\ reply' = "none" /\ parsed' = NothingParsed
          /\ rest' = AllTokens'
      BY <3>1 DEF Receive, AllTokens
    <3>3. mailing' \in Seq(ItemContent) /\ Len(mailing') \in Nat
      BY <3>2, EnvelopeAssumption DEF EnvelopeAssumption
    <3>4. PICK at : Framed(at)'
      BY <3>2, Received
    <3>5. ReadSoFar(NothingParsed, 0)'
      BY <3>2, Received
    <3>6. ReadSoFar(parsed, 0)'
      BY <3>2, <3>5 DEF ReadSoFar
    <3>7. Resting(rest, at, 0, 0)'
      <4>1. /\ at[0] = 0 /\ AllTokens' \in Seq(Token)
        BY <3>4 DEF Framed
      <4> DEFINE W == AllTokens'
                 T == Token
      <4>2. rest' = SubSeq(W, 0 + 1, Len(W))
        <5> HIDE DEF W, T
        <5>1. W \in Seq(T) /\ rest' = W
          BY <3>2, <4>1 DEF W, T
        <5> QED BY <5>1
      <4> QED BY <4>1, <4>2 DEF Resting
    <3>8. 0 \in 0..Len(mailing')
      BY <3>3
    <3> QED BY <3>2, <3>4, <3>6, <3>7, <3>8 DEF EnvelopeInv
  <2>2. CASE SkipLine
    <3>1. /\ reply = "none" /\ reply' = "none" /\ mailing' = mailing /\ parsed' = parsed
          /\ rest # <<>> /\ ~IsHeader(CutLine(rest)) /\ rest' = AfterLine(rest)
      BY <2>2 DEF SkipLine
    <3>2. mailing \in Mailings /\ mailing \in Seq(ItemContent) /\ WellFormed(mailing)
      BY <1>2, <3>1, MailingTyped, EnvelopeAssumption DEF EnvelopeInv
    <3>3. PICK at, k, pos : k \in 0..Len(mailing) /\ Framed(at) /\ Resting(rest, at, k, pos) /\ ReadSoFar(parsed, k)
      BY <1>2, <3>1 DEF EnvelopeInv
    <3>4. pos < at[k]
      <4>1. SUFFICES ASSUME ~(pos < at[k]) PROVE FALSE
        OBVIOUS
      <4>2. pos = at[k]
        <5>1. pos \in 0..at[k] /\ at[k] \in Nat
          BY <3>3 DEF Framed, Resting
        <5> QED BY <4>1, <5>1
      <4>3. k + 1 \in 1..Len(mailing) /\ rest = SubSeq(AllTokens, at[(k + 1) - 1] + 1, Len(AllTokens))
        BY <3>1, <3>2, <3>3, <4>2, NextItem
      <4>4. IsHeader(CutLine(rest))
        BY <3>2, <3>3, <4>3, ItemRead
      <4> QED BY <3>1, <4>4
    <3>5. PICK q : Resting(rest', at, k, q)
      BY <3>1, <3>2, <3>3, <3>4, LineSkipped
    <3>6. Resting(rest, at, k, q)' /\ ReadSoFar(parsed, k)' /\ Framed(at)'
      BY <3>1, <3>3, <3>5, RestingMoves, ReadStays, FramedStays
    <3> QED BY <3>1, <3>2, <3>3, <3>6 DEF EnvelopeInv
  <2>3. CASE ParseItem
    <3>1. /\ reply = "none" /\ reply' = "none" /\ mailing' = mailing
          /\ rest # <<>> /\ IsHeader(CutLine(rest))
          /\ parsed' = Take(parsed, Head(rest), BodyOf(Head(rest), AfterLine(rest)))
          /\ rest' = AfterBody(Head(rest), AfterLine(rest))
      BY <2>3 DEF ParseItem
    <3>2. mailing \in Mailings /\ mailing \in Seq(ItemContent) /\ WellFormed(mailing)
      BY <1>2, <3>1, MailingTyped, EnvelopeAssumption DEF EnvelopeInv
    <3>3. PICK at, k, pos : k \in 0..Len(mailing) /\ Framed(at) /\ Resting(rest, at, k, pos) /\ ReadSoFar(parsed, k)
      BY <1>2, <3>1 DEF EnvelopeInv
    <3>4. pos = at[k]
      <4>1. ~(pos < at[k])
        BY <3>1, <3>2, <3>3, LineSkipped
      <4>2. pos \in 0..at[k] /\ at[k] \in Nat
        BY <3>3 DEF Framed, Resting
      <4> QED BY <4>1, <4>2
    <3> DEFINE l == k + 1
               i == mailing[l]
               body == BodyOf(Header(i), AfterLine(rest))
    <3>5. l \in 1..Len(mailing) /\ l - 1 = k /\ rest = SubSeq(AllTokens, at[l - 1] + 1, Len(AllTokens))
      BY <3>1, <3>2, <3>3, <3>4, NextItem
    <3> HIDE DEF l
    <3>6. /\ Head(rest) = Header(i) /\ (i.good => body = BodyTokens(i))
          /\ \E p : Resting(AfterBody(Header(i), AfterLine(rest)), at, l, p)
      BY <3>2, <3>3, <3>5, ItemRead
    <3>7. parsed' = Take(parsed, Header(i), body) /\ rest' = AfterBody(Header(i), AfterLine(rest))
      BY <3>1, <3>6
    <3>8. PICK p : Resting(rest', at, l, p)
      BY <3>6, <3>7
    <3> HIDE DEF body
    <3>9. ReadSoFar(parsed', l)
      <4>1. ReadSoFar(parsed, l - 1)
        BY <3>3, <3>5
      <4>2. i.good => body = BodyTokens(i)
        BY <3>6
      <4>3. ReadSoFar(Take(parsed, Header(i), body), l)
        BY <3>2, <3>5, <4>1, <4>2, ItemTaken, EnvelopeAssumption
      <4> QED BY <3>7, <4>3
    <3>10. Resting(rest, at, l, p)' /\ ReadSoFar(parsed, l)' /\ Framed(at)'
      BY <3>1, <3>3, <3>8, <3>9, RestingMoves, ReadMoves, FramedStays
    <3>11. l \in 0..Len(mailing)
      BY <3>5
    <3> QED BY <3>1, <3>2, <3>10, <3>11 DEF EnvelopeInv
  <2>4. CASE Serve
    <3>1. /\ reply = "none" /\ rest = <<>> /\ mailing' = mailing /\ parsed' = parsed
          /\ reply' = IF Len(parsed.events) > MaxEvents THEN "refused" ELSE "ingested"
      BY <2>4 DEF Serve
    <3>2. mailing \in Mailings /\ mailing \in Seq(ItemContent)
      BY <1>2, <3>1, MailingTyped, EnvelopeAssumption DEF EnvelopeInv
    <3>3. PICK at, k, pos : k \in 0..Len(mailing) /\ Framed(at) /\ Resting(rest, at, k, pos) /\ ReadSoFar(parsed, k)
      BY <1>2, <3>1 DEF EnvelopeInv
    <3>4. k = Len(mailing)
      BY <3>1, <3>2, <3>3, AllRead
    <3>5. ReadSoFar(parsed, Len(mailing))'
      <4>1. ReadSoFar(parsed, k)'
        BY <3>1, <3>3, ReadStays
      <4> QED BY <3>1, <3>4, <4>1
    <3> QED BY <3>1, <3>2, <3>5 DEF EnvelopeInv
  <2>5. CASE Reply
    BY <2>5 DEF Reply, EnvelopeInv
  <2>6. CASE UNCHANGED envelopeVars
    <3>1. mailing' = mailing /\ rest' = rest /\ parsed' = parsed /\ reply' = reply
      BY <2>6 DEF envelopeVars
    <3>2. \A k : ReadSoFar(parsed, k)' <=> ReadSoFar(parsed, k)
      BY <3>1, ReadStays
    <3>3. \A at : Framed(at)' <=> Framed(at)
      BY <3>1, FramedStays
    <3>4. \A at, k, pos : Resting(rest, at, k, pos)' <=> Resting(rest, at, k, pos)
      BY <3>1, RestingMoves
    <3> QED BY <1>2, <3>1, <3>2, <3>3, <3>4 DEF EnvelopeInv
  <2> QED BY <1>2, <2>1, <2>2, <2>3, <2>4, <2>5, <2>6 DEF EnvelopeNext
<1> QED BY <1>1, <1>2, PTL DEF EnvelopeSpec

\* A good item is not lost to its neighbours: bodies with newlines in them, items
\* of kinds unknown here, a body that does not parse, is too large or has lost its
\* length cost nothing but themselves (envelope.go:459-461, 491), and the limits cut
\* what is over them, neither less nor more.  For any items, framed as clients do,
\* and any limits.
THEOREM EnvelopesAreRead == EnvelopeSpec => []EnvelopeRead
<1>1. ASSUME EnvelopeInv PROVE EnvelopeRead
  <2> SUFFICES ASSUME reply \in {"refused", "ingested"}
               PROVE  /\ (reply = "refused") = (Len(Sent("event")) > MaxEvents)
                      /\ parsed.events = AtMost(MaxEvents + 1, Sent("event"))
                      /\ parsed.rows = IF RowsIn(Sent("sessions")) > MaxSessions THEN MaxSessions ELSE RowsIn(Sent("sessions"))
                      /\ parsed.attachments = Bodies(AtMost(MaxAttachments, Sent("attachment")))
                      /\ parsed.report = LastOf(Sent("user_report")) /\ parsed.checkIn = LastOf(Sent("check_in"))
                      /\ parsed.reports = Len(Sent("client_report"))
    BY DEF EnvelopeRead
  <2>1. ReadSoFar(parsed, Len(mailing)) /\ (reply = "refused") = (Len(parsed.events) > MaxEvents) /\ mailing \in Seq(ItemContent)
    BY <1>1, MailingTyped, EnvelopeAssumption DEF EnvelopeInv
  <2>2. Len(parsed.events) > MaxEvents <=> Len(Sent("event")) > MaxEvents
    BY <2>1, TooManyEvents, EnvelopeAssumption
  <2>3. (reply = "refused") = (Len(Sent("event")) > MaxEvents)
    BY <2>1, <2>2
  <2> QED BY <2>1, <2>3 DEF ReadSoFar, Sent, Capped
<1> QED BY <1>1, EnvelopeInvHolds, PTL
=============================================================================
