------------------------------- MODULE Reports -------------------------------
(***************************************************************************)
(* What an envelope leaves besides its issues: a release, a session's      *)
(* update, attachments, a user report, a client report (parsed in          *)
(* internal/sentry/envelope.go, written in the transaction of              *)
(* internal/ingest/ingest.go).  Envelopes arrive in any order and any      *)
(* number of times.  Every row is written by one upsert, and upserts of a  *)
(* row wait for one another, so an envelope is one step.                   *)
(***************************************************************************)
EXTENDS Integers, FiniteSetsExt, Functions, Sequences

CONSTANTS
  Posts,    \* envelopes: records of PostContent
  Absent,   \* no release, no session, no event, no report
  LastPost  \* bound: deliveries

Terminal == {"exited", "errored", "crashed", "abnormal"}

\* The status of a session on the wire may be unknown; files: attachments.
PostContent ==
  [release : STRING \cup {Absent}, platform : STRING, at : Nat,
   session : STRING \cup {Absent}, status : STRING, errors : Nat,
   event : STRING \cup {Absent}, files : Nat, words : STRING \cup {Absent}, lost : Nat]

ASSUME ReportsAssumption == Posts \subseteq PostContent /\ LastPost \in Nat

Named(values) == values \ {Absent}
ReleaseNames  == Named({p.release : p \in Posts})
SessionIds    == Named({p.session : p \in Posts})
EventIds      == Named({p.event : p \in Posts})

VARIABLES
  seen,      \* releases: seen[r] = [platforms, first]
  status,    \* sessions: status[s], "none" without a row
  arrived,   \* events stored
  files,     \* files[e]: attachments of e
  report,    \* user_reports: report[e] = [words, at]
  lost,      \* client_report_counts, of one hour, reason and category
  posted     \* history: the envelopes whose transactions committed, in order

reportVars == <<seen, status, arrived, files, report, lost, posted>>

NoReleaseRow == [platforms |-> {}, first |-> -1]
NoReport     == [words |-> Absent, at |-> 0]

ReportsInit ==
  /\ seen = [r \in ReleaseNames |-> NoReleaseRow]
  /\ status = [s \in SessionIds |-> "none"]
  /\ arrived = {}
  /\ files = [e \in EventIds |-> 0]
  /\ report = [e \in EventIds |-> NoReport]
  /\ lost = 0
  /\ posted = <<>>

-----------------------------------------------------------------------------
(* What parsing makes of a post. *)

\* sessionFrom: errors make an open or exited session an errored one, an
\* unknown status or a missing release drops the update.
SessionStatus(p) == IF p.status \in {"ok", "exited"} /\ p.errors > 0 THEN "errored" ELSE p.status
HasSession(p)    == p.session # Absent /\ p.release # Absent /\ p.status \in Terminal \cup {"ok"}

\* parseUserReport: a report needs an event and words.
HasReport(p) == p.event # Absent /\ p.words # Absent

\* The releases of events and of sessions; a session has no platform.
Platforms(p) == IF p.event = Absent \/ p.platform = "" THEN {} ELSE {p.platform}
NotesRelease(p) == p.release # Absent /\ (p.event # Absent \/ HasSession(p))

-----------------------------------------------------------------------------
(* The statements. *)

\* UpsertReleases: only a new platform or an earlier time changes the row.
UpsertRelease(row, p) ==
  IF row = NoReleaseRow THEN [platforms |-> Platforms(p), first |-> p.at]
  ELSE IF ~(Platforms(p) \subseteq row.platforms) \/ p.at < row.first
       THEN [platforms |-> row.platforms \cup Platforms(p), first |-> IF p.at < row.first THEN p.at ELSE row.first]
       ELSE row

\* Faulty: the latest update wins.
UpsertSessionPlain(old, new) == new

\* insertSessionSQL.
UpsertSession(old, new) == IF old \in {"none", "ok"} \/ new # "ok" THEN new ELSE old

\* UpsertUserReport: received_at is that of the first.
UpsertReport(old, p, at) == [words |-> p.words, at |-> IF old = NoReport THEN at ELSE old.at]

\* The transaction of an envelope.  An event that is stored by it, neither
\* known nor dropped by the sampler, brings the attachments.
Post(p, sampled) ==
  LET news == p.event # Absent /\ p.event \notin arrived /\ ~sampled
      at   == Len(posted) + 1 IN
  /\ at <= LastPost
  /\ seen' = IF NotesRelease(p) THEN [seen EXCEPT ![p.release] = UpsertRelease(@, p)] ELSE seen
  /\ status' = IF HasSession(p) THEN [status EXCEPT ![p.session] = UpsertSession(@, SessionStatus(p))] ELSE status
  /\ arrived' = IF news THEN arrived \cup {p.event} ELSE arrived
  /\ files' = IF news THEN [files EXCEPT ![p.event] = p.files] ELSE files
  /\ report' = IF HasReport(p) THEN [report EXCEPT ![p.event] = UpsertReport(@, p, at)] ELSE report
  /\ lost' = lost + p.lost
  /\ posted' = Append(posted, [post |-> p, stored |-> news])

ReportsNext == \E p \in Posts, sampled \in BOOLEAN : Post(p, sampled)

ReportsSpec == ReportsInit /\ [][ReportsNext]_reportVars

-----------------------------------------------------------------------------

PostedBy(pred(_)) == {i \in DOMAIN posted : pred(posted[i].post)}

\* However envelopes are ordered, repeated or sampled: a release is as old as
\* its oldest mention and has every platform mentioned; a session that ended is
\* not open again (store/events.go:138-139) and one that is open never ended; a
\* user report keeps its last words and its first time, whatever became of its
\* event (ingest.go:569-571); an event has the attachments that came with it.
RowsAsPosted ==
  /\ \A r \in ReleaseNames :
       LET by(p) == NotesRelease(p) /\ p.release = r
           ps    == {posted[i].post : i \in PostedBy(by)} IN
       ps # {} => /\ seen[r].first = Min({p.at : p \in ps})
                  /\ seen[r].platforms = UNION {Platforms(p) : p \in ps}
  /\ \A s \in SessionIds :
       LET by(p) == HasSession(p) /\ p.session = s
           told  == {SessionStatus(posted[i].post) : i \in PostedBy(by)} IN
       /\ told = {} <=> status[s] = "none"
       /\ status[s] = "ok" <=> told = {"ok"}
       /\ told # {} => status[s] \in told
  /\ \A e \in EventIds :
       LET by(p) == HasReport(p) /\ p.event = e
           is    == PostedBy(by) IN
       /\ is # {} => report[e] = [words |-> posted[Max(is)].post.words, at |-> Min(is)]
       /\ \A i \in DOMAIN posted :
            posted[i].stored /\ posted[i].post.event = e => files[e] = posted[i].post.files

\* Nothing the SDKs say they lost is lost or counted twice.
LostAsPosted == lost = SumFunction([i \in DOMAIN posted |-> posted[i].post.lost])

\* What envelopes leave besides their issues is what they said, in any order.
ReportsAsPosted == RowsAsPosted /\ LostAsPosted
=============================================================================
