----------------------------- MODULE Partitions -----------------------------
(***************************************************************************)
(* The weekly partitions of events and the issues they belong to           *)
(* (internal/retention/retention.go): partitions are made ahead, rows that *)
(* found none sit in the default partition, a sweep drops what ended       *)
(* before the window and then the issues whose events are gone, while      *)
(* replicas start (Reconcile) and ingest stores events as late as the      *)
(* window allows.  Time is counted in days; the other three partitioned    *)
(* tables are treated alike and left out.                                  *)
(***************************************************************************)
EXTENDS Integers, FiniteSets

CONSTANTS
  Week,         \* PartitionWidth
  Retention,    \* RETENTION_DAYS
  StaleFactor,  \* StaleIssueFactor
  LastDay,      \* bound: the clock
  Prints,       \* fingerprints of issues
  Sweepers,     \* Sweep or Reconcile under way: the leader's and starting replicas'
  Writers       \* ingest transactions

\* The last line asks for RETENTION_DAYS >= 3 of the code's 7 and 4.
ASSUME PartitionsAssumption ==
  /\ Week \in Nat \ {0} /\ Retention \in Nat \ {0} /\ StaleFactor \in Nat /\ LastDay \in Nat
  /\ StaleFactor * Retention >= Retention + Week

VARIABLES
  day,       \* the clock
  weeks,     \* first days of the partitions there are
  parted,    \* parted[p]: days of p's event rows in partitions
  default,   \* default[p]: days of p's event rows in events_default
  issueOf,   \* issueOf[p]: last_seen and whether resolved or ignored; NoIssue
  sweeper,   \* sweeper[s]: a Sweep or Reconcile
  writer,    \* writer[w]: an ingest transaction
  expected   \* history: expected[p]: days of the rows ever stored

partVars == <<day, weeks, parted, default, issueOf, sweeper, writer, expected>>

Days     == (-Retention - Week)..(LastDay + 3 * Week)
NoIssue  == [seen |-> -1 - Retention, closed |-> TRUE]
Asleep   == [pc |-> "idle", now |-> 0, have |-> {}, whole |-> TRUE]

WeekStart(d) == (d \div Week) * Week

PartTypeOK ==
  /\ day \in 0..LastDay
  /\ weeks \subseteq {WeekStart(d) : d \in Days}
  /\ \A p \in Prints : parted[p] \subseteq Days /\ default[p] \subseteq Days /\ expected[p] \subseteq Days
  /\ issueOf \in [Prints -> [seen : Days, closed : BOOLEAN]]
  /\ sweeper \in [Sweepers -> [pc : {"idle", "ensure", "drop", "issues"}, now : 0..LastDay,
                             have : SUBSET {WeekStart(d) : d \in Days}, whole : BOOLEAN]]
  /\ writer \in [Writers -> [busy : BOOLEAN, past : Days]]

\* A new database: the first Reconcile has not run yet.
PartInit ==
  /\ day = 0
  /\ weeks = {}
  /\ parted = [p \in Prints |-> {}] /\ default = [p \in Prints |-> {}]
  /\ issueOf = [p \in Prints |-> NoIssue]
  /\ sweeper = [s \in Sweepers |-> Asleep]
  /\ writer = [w \in Writers |-> [busy |-> FALSE, past |-> 0]]
  /\ expected = [p \in Prints |-> {}]

\* Assumption: no day ends within an ingest transaction or a sweep.
DayEnds ==
  /\ day < LastDay
  /\ \A w \in Writers : ~writer[w].busy
  /\ \A s \in Sweepers : sweeper[s].pc = "idle"
  /\ day' = day + 1
  /\ UNCHANGED <<weeks, parted, default, issueOf, sweeper, writer, expected>>

-----------------------------------------------------------------------------
(* Ingest and status changes. *)

\* The start of the window is read before the transaction.
BeginWrite(w) ==
  /\ ~writer[w].busy
  /\ writer' = [writer EXCEPT ![w] = [busy |-> TRUE, past |-> day - Retention]]
  /\ UNCHANGED <<day, weeks, parted, default, issueOf, sweeper, expected>>

\* clampPast.
ClampPast(d, past) == IF d < past THEN day ELSE d

\* The row goes where its week has a partition; the issue is seen then, at
\* least, and a resolved one is open again.
StoreEvent(w, p, d, reopens) ==
  LET at == ClampPast(d, writer[w].past) IN
  /\ writer[w].busy /\ d <= day
  /\ IF WeekStart(at) \in weeks
     THEN parted' = [parted EXCEPT ![p] = @ \cup {at}] /\ UNCHANGED default
     ELSE default' = [default EXCEPT ![p] = @ \cup {at}] /\ UNCHANGED parted
  /\ issueOf' = [issueOf EXCEPT ![p] = [seen |-> IF @.seen > at THEN @.seen ELSE at,
                                    closed |-> @ # NoIssue /\ @.closed /\ ~reopens]]
  /\ expected' = [expected EXCEPT ![p] = @ \cup {at}]
  /\ writer' = [writer EXCEPT ![w].busy = FALSE]
  /\ UNCHANGED <<day, weeks, sweeper>>

\* Somebody resolves or ignores the issue.
CloseIssue(p) ==
  /\ ~issueOf[p].closed
  /\ issueOf' = [issueOf EXCEPT ![p].closed = TRUE]
  /\ UNCHANGED <<day, weeks, parted, default, sweeper, writer, expected>>

-----------------------------------------------------------------------------
(* Reconcile and Sweep. *)

\* EnsurePartitions: the partitions there are, listed once.
ListPartitions(s, whole) ==
  /\ sweeper[s].pc = "idle"
  /\ sweeper' = [sweeper EXCEPT ![s] = [pc |-> "ensure", now |-> day, have |-> weeks, whole |-> whole]]
  /\ UNCHANGED <<day, weeks, parted, default, issueOf, writer, expected>>

\* From the week of the window's start to two weeks ahead, what was not listed.
Missing(s) ==
  {w \in {WeekStart(d) : d \in (sweeper[s].now - Retention)..(sweeper[s].now + 2 * Week)} : w \notin sweeper[s].have}

Strays(p, w) == {d \in default[p] : WeekStart(d) = w}

\* ensurePartition, one transaction under LeaderPartitions: nothing when the
\* week is there by now, else the default partition's rows of it move over.
EnsurePartition(s) ==
  /\ sweeper[s].pc = "ensure"
  /\ \E w \in Missing(s) :
     /\ \A v \in Missing(s) : w <= v
     /\ sweeper' = [sweeper EXCEPT ![s].have = @ \cup {w}]
     /\ IF w \in weeks
        THEN UNCHANGED <<weeks, parted, default>>
        ELSE /\ weeks' = weeks \cup {w}
             /\ parted' = [p \in Prints |-> parted[p] \cup Strays(p, w)]
             /\ default' = [p \in Prints |-> default[p] \ Strays(p, w)]
  /\ UNCHANGED <<day, issueOf, writer, expected>>

\* Reconcile is done; Sweep goes on.
AllEnsured(s) ==
  /\ sweeper[s].pc = "ensure" /\ Missing(s) = {}
  /\ sweeper' = [sweeper EXCEPT ![s] = IF @.whole THEN [@ EXCEPT !.pc = "drop"] ELSE Asleep]
  /\ UNCHANGED <<day, weeks, parted, default, issueOf, writer, expected>>

Cutoff(s) == sweeper[s].now - Retention

Ended(w, cutoff) == w + Week <= cutoff

DropPartition(s) ==
  /\ sweeper[s].pc = "drop"
  /\ \E w \in weeks :
       /\ Ended(w, Cutoff(s))
       /\ weeks' = weeks \ {w}
       /\ parted' = [p \in Prints |-> {d \in parted[p] : WeekStart(d) # w}]
  /\ UNCHANGED <<day, default, issueOf, sweeper, writer, expected>>

\* The default partition's rows by their own time, last of the drops.
ExpireDefault(s) ==
  /\ sweeper[s].pc = "drop"
  /\ \A w \in weeks : ~Ended(w, Cutoff(s))
  /\ default' = [p \in Prints |-> {d \in default[p] : d >= Cutoff(s)}]
  /\ sweeper' = [sweeper EXCEPT ![s].pc = "issues"]
  /\ UNCHANGED <<day, weeks, parted, issueOf, writer, expected>>

\* Faulty: the cutoff is the window's start, as for the default partition.
ResolvedBeforeCutoff(s) == Cutoff(s)

\* The oldest surviving partition starts here.
ResolvedBefore(s) == WeekStart(Cutoff(s))

\* ExpireIssues, and the rest of the sweep, which is other components'.
ExpireIssues(s) ==
  /\ sweeper[s].pc = "issues"
  /\ issueOf' = [p \in Prints |->
       IF \/ issueOf[p].closed /\ issueOf[p].seen < ResolvedBefore(s)
          \/ issueOf[p].seen < sweeper[s].now - StaleFactor * Retention
       THEN NoIssue ELSE issueOf[p]]
  /\ sweeper' = [sweeper EXCEPT ![s] = Asleep]
  /\ UNCHANGED <<day, weeks, parted, default, writer, expected>>

\* A statement fails or the process dies: what was done stays.
SweepStops(s) ==
  /\ sweeper[s].pc # "idle"
  /\ sweeper' = [sweeper EXCEPT ![s] = Asleep]
  /\ UNCHANGED <<day, weeks, parted, default, issueOf, writer, expected>>

PartNext ==
  \/ DayEnds
  \/ \E p \in Prints : CloseIssue(p)
  \/ \E w \in Writers :
       \/ BeginWrite(w)
       \/ \E p \in Prints, d \in (day - Retention - 1)..day, reopens \in BOOLEAN : StoreEvent(w, p, d, reopens)
  \/ \E s \in Sweepers :
       \/ \E whole \in BOOLEAN : ListPartitions(s, whole)
       \/ EnsurePartition(s) \/ AllEnsured(s) \/ DropPartition(s) \/ ExpireDefault(s)
       \/ ExpireIssues(s) \/ SweepStops(s)

PartSpec == PartInit /\ [][PartNext]_partVars

-----------------------------------------------------------------------------

\* An event stays for RETENTION_DAYS (retention.go:26-28), whatever moved it
\* between partitions, and its issue does not go before it: a deleted issue
\* whose events still listed would come back as new (retention.go:290-294).
SweepSafe ==
  \A p \in Prints :
    LET rows == parted[p] \cup default[p] IN
    /\ rows # {} => issueOf[p] # NoIssue
    /\ \A d \in expected[p] : d >= day - Retention => d \in rows
=============================================================================
