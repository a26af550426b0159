-------------------------------- MODULE Pages --------------------------------
(***************************************************************************)
(* The page of an issue, of the viewer (internal/web/pages.go) and of the  *)
(* API (internal/api/issues.go): queries of their own, the later ones kept *)
(* within the time range the issue's row gave (internal/store/issues.go,   *)
(* web.go, events.go), while events are stored, symbolicated into other    *)
(* issues and dropped.                                                     *)
(***************************************************************************)
EXTENDS Integers, FiniteSets, FiniteSetsExt

CONSTANTS
  Shots,        \* events
  At,           \* At[e]: its time, in ticks
  RawAs, SymAs, \* the issue of e before and after symbolication
  Sampled,      \* events the sampler may drop; their issue counts them
  NoShot, NoRange,
  Second,       \* in ticks
  Stale,        \* how long after the window an issue of any status goes
  LastHorizon   \* bound: how far the retention window moves

RowContent == [from : Int, to : Int, count : Nat, status : {"unresolved", "closed", "regression"}]

ASSUME PagesAssumption ==
  /\ IsFiniteSet(Shots) /\ At \in [Shots -> Int]
  /\ DOMAIN RawAs = Shots /\ DOMAIN SymAs = Shots
  /\ NoShot \notin Shots /\ NoRange \notin RowContent
  /\ Second \in Nat \ {0} /\ Stale \in Nat /\ LastHorizon \in Nat

VARIABLES
  issueRow,  \* issueRow[f]: [from, to, count, status] of an issue, or NoRange
  shot,      \* shot[e]: "coming", "stored" or "gone"
  filed,     \* filed[e]: the fingerprint of its row
  moving,    \* moving[e]: its symbolication: "idle", "read" or "done"
  horizon,   \* the oldest time a partition is kept for
  view       \* the page being read

pageVars == <<issueRow, shot, filed, moving, horizon, view>>

Issues     == {RawAs[e] : e \in Shots} \cup {SymAs[e] : e \in Shots}
NoView     == [pc |-> "none", kind |-> "api", of |-> 0, from |-> 0, to |-> 0,
               latest |-> NoShot, oldest |-> NoShot, steady |-> {}]
StoredIn(f) == {e \in Shots : shot[e] = "stored" /\ filed[e] = f}

PagesInit ==
  /\ issueRow = [f \in Issues |-> NoRange]
  /\ shot = [e \in Shots |-> "coming"]
  /\ filed = RawAs
  /\ moving = [e \in Shots |-> "idle"]
  /\ horizon = 0 /\ view = NoView

\* The page's history: the events of its issue that were there all along.
StillThere == view' = [view EXCEPT !.steady = {e \in @ : shot'[e] = "stored" /\ filed'[e] = view.of}]

-----------------------------------------------------------------------------
(* What changes the rows. *)

\* Faulty: the newest envelope says when the issue was last seen.
UpsertedLast(row, es) ==
  IF row = NoRange THEN [from |-> Min({At[e] : e \in es}), to |-> Max({At[e] : e \in es}), count |-> Cardinality(es), status |-> "unresolved"]
  ELSE [row EXCEPT !.to = Max({At[e] : e \in es}), !.count = @ + Cardinality(es)]

\* UpsertIssue: LEAST and GREATEST of the times.
Upserted(row, es) ==
  IF row = NoRange THEN [from |-> Min({At[e] : e \in es}), to |-> Max({At[e] : e \in es}), count |-> Cardinality(es), status |-> "unresolved"]
  ELSE [row EXCEPT !.from = Min({At[e] : e \in es} \cup {@}), !.to = Max({At[e] : e \in es} \cup {@}),
                   !.count = @ + Cardinality(es)]

\* An envelope: its issues count every event, the kept ones become rows.  A
\* time before the window is replaced; a closed (resolved, ignored) issue may
\* regress.
Ingest(es, kept, regressed) ==
  /\ es # {} /\ \A e \in es : shot[e] = "coming" /\ At[e] >= horizon
  /\ kept \subseteq es /\ es \ kept \subseteq Sampled
  /\ regressed \subseteq {RawAs[e] : e \in es}
  /\ issueRow' = [f \in Issues |->
       LET mine == {e \in es : RawAs[e] = f}
           row  == Upserted(issueRow[f], mine)
       IN IF mine = {} THEN issueRow[f] ELSE [row EXCEPT !.status = IF f \in regressed /\ @ = "closed" THEN "regression" ELSE @]]
  /\ shot' = [e \in Shots |-> IF e \in kept THEN "stored" ELSE IF e \in es THEN "gone" ELSE shot[e]]
  /\ UNCHANGED <<filed, moving, horizon>> /\ StillThere

\* Service.Event: the row is read, one run at a time.
StartMove(e) ==
  /\ shot[e] = "stored" /\ moving[e] = "idle"
  /\ moving' = [moving EXCEPT ![e] = "read"]
  /\ UNCHANGED <<issueRow, shot, filed, horizon, view>>

\* AdjustIssueStoredCount and DeleteEmptyIssue on the issue it left.
Left(row) ==
  LET less == [row EXCEPT !.count = Max({0, @ - 1})]
  IN IF row = NoRange \/ (less.count = 0 /\ row.status = "unresolved") THEN NoRange ELSE less

\* Its transaction: SetEventSymbols finds the row or, once it was dropped,
\* nothing; the issues change either way.
Move(e) ==
  /\ moving[e] = "read"
  /\ moving' = [moving EXCEPT ![e] = "done"]
  /\ filed' = [filed EXCEPT ![e] = SymAs[e]]
  /\ issueRow' = IF SymAs[e] = RawAs[e] THEN issueRow
                 ELSE [issueRow EXCEPT ![SymAs[e]] = Upserted(@, {e}), ![RawAs[e]] = Left(@)]
  /\ UNCHANGED <<shot, horizon>> /\ StillThere

\* issueStatus, updateIssue: no row, no change.
SetStatus(f, status) ==
  /\ issueRow[f] # NoRange
  /\ issueRow' = [issueRow EXCEPT ![f].status = status]
  /\ UNCHANGED <<shot, filed, moving, horizon, view>>

\* bulkIssues, issuesBulk: the rows there are, in one statement.
SetStatuses(status) ==
  /\ issueRow' = [f \in Issues |-> IF issueRow[f] = NoRange THEN NoRange ELSE [issueRow[f] EXCEPT !.status = status]]
  /\ UNCHANGED <<shot, filed, moving, horizon, view>>

\* The sweep: partitions first, then the closed issues last seen before them,
\* and those of any status last seen long before.
\* Assumption: no symbolication that read an event before its partition went is
\* still to commit when the issue goes; one that is takes an event off an issue
\* created anew.
DropPartitions ==
  /\ horizon < LastHorizon
  /\ horizon' = horizon + 1
  /\ shot' = [e \in Shots |-> IF shot[e] = "stored" /\ At[e] <= horizon THEN "gone" ELSE shot[e]]
  /\ UNCHANGED <<issueRow, filed, moving>> /\ StillThere

Expire(f) ==
  /\ issueRow[f] # NoRange
  /\ issueRow[f].to < IF issueRow[f].status = "closed" THEN horizon ELSE horizon - Stale
  /\ \A e \in Shots : moving[e] = "read" => shot[e] = "stored"
  /\ issueRow' = [issueRow EXCEPT ![f] = NoRange]
  /\ UNCHANGED <<shot, filed, moving, horizon, view>>

-----------------------------------------------------------------------------
(* The page, a query a step. *)

\* GetIssue; without a row the page is a 404.
GetIssue(kind, f) ==
  /\ view.pc = "none" /\ issueRow[f] # NoRange
  /\ view' = [NoView EXCEPT !.pc = "row", !.kind = kind, !.of = f,
                            !.from = issueRow[f].from, !.to = issueRow[f].to, !.steady = StoredIn(f)]
  /\ UNCHANGED <<issueRow, shot, filed, moving, horizon>>

\* A second is added: the column's own time is inside.
InRange == {e \in StoredIn(view.of) : view.from <= At[e] /\ At[e] < view.to + Second}
Newest(es) == {e \in es : \A x \in es : At[x] <= At[e]}
Oldest(es) == {e \in es : \A x \in es : At[e] <= At[x]}
OneOf(es)  == IF es = {} THEN {NoShot} ELSE es

\* LatestIssueEvent, of the viewer only; its attachments and stacks with it.
LatestIssueEvent ==
  /\ view.pc = "row" /\ view.kind = "viewer"
  /\ \E e \in OneOf(Newest(InRange)) : view' = [view EXCEPT !.pc = "latest", !.latest = e]
  /\ UNCHANGED <<issueRow, shot, filed, moving, horizon>>

\* IssueEventRange: the viewer takes the oldest, and does without when the
\* query fails; the API takes both.
IssueEventRange ==
  /\ \/ view.pc = "latest" /\ \E e \in OneOf(Oldest(InRange)) \cup {NoShot} :
          view' = [view EXCEPT !.pc = "done", !.oldest = e]
     \/ view.pc = "row" /\ view.kind = "api" /\ \E e \in OneOf(Newest(InRange)), d \in OneOf(Oldest(InRange)) :
          view' = [view EXCEPT !.pc = "done", !.latest = e, !.oldest = d]
  /\ UNCHANGED <<issueRow, shot, filed, moving, horizon>>

\* The page is sent, or a query of it fails.
EndPage == view.pc # "none" /\ view' = NoView /\ UNCHANGED <<issueRow, shot, filed, moving, horizon>>

-----------------------------------------------------------------------------

PagesNext ==
  \/ \E es \in SUBSET Shots : \E kept \in SUBSET es, regressed \in SUBSET Issues : Ingest(es, kept, regressed)
  \/ \E e \in Shots : StartMove(e) \/ Move(e)
  \/ \E f \in Issues : \/ \E status \in {"unresolved", "closed"} : SetStatus(f, status)
                       \/ \E kind \in {"viewer", "api"} : GetIssue(kind, f)
                       \/ Expire(f)
  \/ \E status \in {"unresolved", "closed"} : SetStatuses(status)
  \/ DropPartitions \/ LatestIssueEvent \/ IssueEventRange \/ EndPage

PagesSpec == PagesInit /\ [][PagesNext]_pageVars

-----------------------------------------------------------------------------

\* The page of an issue shows its newest event and links its oldest: none that
\* was stored under the issue all the while lies outside of what is shown.
\* The lookups open only the partitions of the row's range, so the row must
\* keep covering its events however they come, move and go (pages.go:499-500,
\* store/web.go:146-148).
NewestShown ==
  view.pc = "done" => \A e \in view.steady :
    /\ view.latest # NoShot /\ At[e] <= At[view.latest]
    /\ IF view.oldest = NoShot THEN view.kind = "viewer" ELSE At[view.oldest] <= At[e]
=============================================================================
