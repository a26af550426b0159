------------------------------- MODULE Listing -------------------------------
(***************************************************************************)
(* Reading a list page by page while events arrive and leave.  Events are  *)
(* read from a cursor (internal/store/events.go, cursor.go), over all that *)
(* is retained by the API, within a moving window by the viewer; issues    *)
(* are read from an offset (internal/store/issues.go).  A behaviour has    *)
(* one reader.                                                             *)
(***************************************************************************)
EXTENDS Integers, SequencesExt

CONSTANTS
  RowIds,      \* event ids; their order breaks ties
  Matching,    \* those the filter keeps
  Listed,      \* issues that match their filter at first
  Asked,       \* limits readers ask for
  DefaultRows, \* page size when none is asked for
  MostRows,    \* cap on a page
  MaxOffset,   \* cap on an offset
  Width,       \* the viewer's window
  Bucket,      \* it begins on a multiple of this
  LastInstant  \* bound: the clock

ASSUME ListingAssumption ==
  /\ RowIds \subseteq Nat /\ Matching \subseteq RowIds /\ Asked \subseteq Nat
  /\ DefaultRows \in Nat \ {0} /\ MostRows \in Nat \ {0} /\ Bucket \in Nat \ {0}
  /\ MaxOffset \in Nat /\ Width \in Nat /\ LastInstant \in Nat /\ IsFiniteSet(Listed)

VARIABLES
  reader,    \* "api" or "viewer" of events, "issues" of issues
  instant,   \* the clock
  shelf,     \* rows of events: [at, id]
  page,      \* the reader of events: where, and the rows shown
  stayed,    \* history: matching rows stored since the first page
  lastSeen,  \* lastSeen[i] of a listed issue, -1 once it matches no more
  offset,    \* the reader of issues: -1 before the first page, then the next offset
  issuesShown,  \* the issues shown
  allShown,  \* the last page reached the total
  steady     \* history: issues listed since the first page, not seen again, never
             \* tied; a set, or {} for good once an issue left the list

listingVars == <<reader, instant, shelf, page, stayed, lastSeen, offset, issuesShown, allShown, steady>>
eventVars   == <<shelf, page, stayed>>
issueVars   == <<lastSeen, offset, issuesShown, allShown, steady>>

\* The zero cursor.
NoCursor == [at |-> -1, id |-> 0]

ListingInit ==
  /\ instant = 0
  /\ shelf = {} /\ stayed = {}
  /\ reader \in {"api", "viewer", "issues"}
  /\ page = [pc |-> "first", cursor |-> NoCursor, shown |-> <<>>]
  /\ lastSeen = [i \in Listed |-> 0]
  /\ offset = -1 /\ issuesShown = {} /\ allShown = FALSE /\ steady = {}

InstantPasses ==
  /\ instant < LastInstant
  /\ instant' = instant + 1
  /\ UNCHANGED <<reader, eventVars, issueVars>>

\* A limit: the default for none, no more than the cap.
RowLimit(n) == IF n = 0 THEN DefaultRows ELSE IF n > MostRows THEN MostRows ELSE n

-----------------------------------------------------------------------------
(* Events. *)

\* Ingest takes events with times in the past, and a little ahead.
EventArrives(id, at) ==
  /\ reader # "issues" /\ \A r \in shelf : r.id # id
  /\ page.pc # "end" /\ at <= instant + 1
  /\ shelf' = shelf \cup {[at |-> at, id |-> id]}
  /\ UNCHANGED <<reader, instant, page, stayed, issueVars>>

\* Retention drops what happened before some time.
EventsExpire(before) ==
  LET old == {r \in shelf : r.at < before} IN
  /\ old # {} /\ before <= instant
  /\ shelf' = shelf \ old /\ stayed' = stayed \ old
  /\ UNCHANGED <<reader, instant, page, issueVars>>

Newer(r, s) == r.at > s.at \/ (r.at = s.at /\ r.id > s.id)

\* Faulty: rows of the cursor's time count as shown.
BeyondTime(r, c) == c = NoCursor \/ r.at < c.at

\* (occurred_at, event_id) < ($1, $2).
Beyond(r, c) == c = NoCursor \/ Newer(c, r)

\* The window of a request: none for the API; the viewer's is its state's.
From           == ((instant - Width) \div Bucket) * Bucket
eventFilter(r) == From <= r.at /\ r.at < instant
InWindow(r)    == reader = "api" \/ eventFilter(r)
Matches     == {r \in shelf : r.id \in Matching /\ InWindow(r)}

\* ORDER BY occurred_at DESC, event_id DESC: the place of a row is one after
\* those newer than it.
NewestFirst(rows) == [k \in 1..Cardinality(rows) |-> CHOOSE r \in rows : Cardinality({s \in rows : Newer(s, r)}) = k - 1]
FirstOf(s, n) == SubSeq(s, 1, IF Len(s) > n THEN n ELSE Len(s))

\* ListEvents, with one row more than the limit to tell whether there are
\* more, and the cursor of the last row shown.
ReadEvents(n) ==
  LET rows == NewestFirst({r \in Matches : Beyond(r, page.cursor)})
      some == FirstOf(rows, RowLimit(n)) IN
  /\ reader # "issues" /\ page.pc # "end"
  /\ page' = [page EXCEPT !.pc = IF Len(rows) > RowLimit(n) THEN "next" ELSE "end",
                          !.cursor = IF some = <<>> THEN @ ELSE Last(some),
                          !.shown = @ \o some]
  /\ stayed' = IF page.pc = "first" THEN Matches ELSE stayed
  /\ UNCHANGED <<reader, instant, shelf, issueVars>>

-----------------------------------------------------------------------------
(* Issues. *)

InList == {i \in Listed : lastSeen[i] >= 0}

\* An event of the issue: last_seen never goes back.
SeenAgain(i, at) ==
  /\ reader = "issues" /\ i \in InList /\ lastSeen[i] < at /\ at <= instant
  /\ lastSeen' = [lastSeen EXCEPT ![i] = at]
  /\ steady' = {j \in steady \ {i} : lastSeen[j] # at}
  /\ UNCHANGED <<reader, instant, eventVars, offset, issuesShown, allShown>>

\* A change of status, or the window, takes an issue off the list.
Leaves(i) ==
  /\ reader = "issues" /\ i \in InList
  /\ lastSeen' = [lastSeen EXCEPT ![i] = -1]
  /\ steady' = {}
  /\ UNCHANGED <<reader, instant, eventVars, offset, issuesShown, allShown>>

\* ORDER BY last_seen DESC: ties come in any order, in every query another.
Orders ==
  {s \in [1..Cardinality(InList) -> InList] :
     /\ ToSet(s) = InList
     /\ \A a, b \in DOMAIN s : a < b => lastSeen[s[a]] >= lastSeen[s[b]]}

Untied(i) == \A j \in InList \ {i} : lastSeen[j] # lastSeen[i]

\* The handler refuses an offset past the cap.
listIssues(start) == reader = "issues" /\ start <= MaxOffset

\* ListIssues: rows offset+1..offset+limit and the number of all that match.
ReadIssues(n) ==
  LET start == IF offset < 0 THEN 0 ELSE offset IN
  /\ listIssues(start) /\ ~allShown
  /\ \E s \in Orders : issuesShown' = issuesShown \cup ToSet(SubSeq(s, start + 1, IF start + RowLimit(n) > Len(s) THEN Len(s) ELSE start + RowLimit(n)))
  /\ offset' = start + RowLimit(n)
  /\ allShown' = (start + RowLimit(n) >= Cardinality(InList))
  /\ steady' = IF offset < 0 THEN {i \in InList : Untied(i)} ELSE steady
  /\ UNCHANGED <<reader, instant, eventVars, lastSeen>>

-----------------------------------------------------------------------------

ListingNext ==
  \/ InstantPasses
  \/ \E id \in RowIds, at \in 0..(LastInstant + 1) : EventArrives(id, at)
  \/ \E before \in 0..LastInstant : EventsExpire(before)
  \/ \E n \in Asked : ReadEvents(n) \/ ReadIssues(n)
  \/ \E i \in Listed : Leaves(i) \/ \E at \in 0..LastInstant : SeenAgain(i, at)

ListingSpec == ListingInit /\ [][ListingNext]_listingVars

-----------------------------------------------------------------------------

\* Pages chained by next_before are newest first, show no event twice, and in
\* the end have shown every matching event that was there all along (and is in
\* the window still), whatever arrived or expired between the pages
\* (cursor.go:10-12).  Pages of issues by offset have no such cursor: they show
\* every issue that stayed where it was unless one leaves the list, which
\* shifts the others, or two tie, whose order is nobody's.
PagesComplete ==
  /\ \A a, b \in DOMAIN page.shown : a < b => Newer(page.shown[a], page.shown[b])
  /\ page.pc = "end" =>
       \A r \in stayed : r \in ToSet(page.shown) \/ (reader = "viewer" /\ r.at < From)
  /\ allShown => steady \subseteq issuesShown
=============================================================================
