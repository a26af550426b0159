---------------------------- MODULE IgnoredIssues ----------------------------
(***************************************************************************)
(* An ignored issue and the scheduler's check of its conditions            *)
(* (internal/alerts/alerts.go CheckIgnored, internal/store/issues.go): a   *)
(* time, a number of further events, or escalation over the baseline that  *)
(* was recorded when it was ignored.                                       *)
(***************************************************************************)
EXTENDS Integers

CONSTANTS
  MinSpikeUnhandled, SpikeFactor,   \* the thresholds of IsSpike
  Baselines,    \* stored events of the issue in the 24 full hours before an ignore
  MaxEvents     \* bound: events of the issue

ASSUME IgnoredIssuesAssumption ==
  /\ MinSpikeUnhandled \in Nat \ {0} /\ SpikeFactor \in Nat \ {0}
  /\ Baselines \subseteq Nat /\ MaxEvents \in Nat

VARIABLES
  issue,    \* its row: status and conditions
  events,   \* event_count
  recent,   \* its stored events in the last hour
  judged,   \* CheckIgnored judged the issue a spike and is yet to escalate it
  alert     \* the escalation to alert: "none", "due" once the status was flipped

ignoreVars == <<issue, events, recent, judged, alert>>

Cleared == [status |-> "unresolved", time |-> "none", count |-> 0, escalating |-> FALSE, baseline |-> 0]

IgnoreTypeOK ==
  /\ issue \in [status : {"unresolved", "ignored", "resolved"}, time : {"none", "ahead", "past"},
                count : 0..(2 * MaxEvents), escalating : BOOLEAN, baseline : Baselines \cup {0}]
  /\ issue.status # "ignored" => issue = [Cleared EXCEPT !.status = issue.status]
  /\ events \in 0..MaxEvents /\ recent \in 0..MaxEvents
  /\ judged \in BOOLEAN
  /\ alert \in {"none", "due"}

IgnoreInit ==
  /\ issue = Cleared /\ events = 0 /\ recent = 0
  /\ judged = FALSE /\ alert = "none"

\* What the API takes: conditions (0 and "none" are absent) come with status
\* ignored only, in any combination.
ApiChanges ==
  [status : {"unresolved", "resolved"}, time : {"none"}, n : {0}, escalating : {FALSE}]
    \cup [status : {"ignored"}, time : {"none", "ahead"}, n : 0..2, escalating : BOOLEAN]

\* What the viewer's selector says: one condition, or none for good.
ViewerChanges ==
  {c \in ApiChanges : /\ c.time = "none" \/ c.n = 0
                      /\ c.escalating => c.time = "none" /\ c.n = 0}

\* SetIssueStatus: ignoring records its conditions, any other status clears
\* them.  A count of 0 is no count: N further events are at least one.
SetIssueStatus ==
  /\ \E c \in ApiChanges \cup ViewerChanges, baseline \in Baselines :
       issue' = IF c.status = "ignored"
                THEN [status |-> c.status, time |-> c.time, count |-> IF c.n = 0 THEN 0 ELSE events + c.n,
                      escalating |-> c.escalating, baseline |-> IF c.escalating THEN baseline ELSE 0]
                ELSE [Cleared EXCEPT !.status = c.status]
  /\ UNCHANGED <<events, recent, judged, alert>>

\* Ingest stores an event; the upsert leaves an ignored issue ignored.
StoreEvent ==
  /\ events < MaxEvents
  /\ events' = events + 1 /\ recent' = recent + 1
  /\ UNCHANGED <<issue, judged, alert>>

\* The time passes, and an event is more than an hour old.
TimePasses ==
  /\ issue.time = "ahead"
  /\ issue' = [issue EXCEPT !.time = "past"]
  /\ UNCHANGED <<events, recent, judged, alert>>

EventAges ==
  /\ recent > 0 /\ recent' = recent - 1
  /\ UNCHANGED <<issue, events, judged, alert>>

Due == /\ issue.status = "ignored"
       /\ issue.time = "past" \/ (issue.count # 0 /\ events >= issue.count)

\* UnignoreDue, one statement over the locked rows.
UnignoreDue ==
  /\ Due
  /\ issue' = Cleared
  /\ UNCHANGED <<events, recent, judged, alert>>

\* Faulty: exactly the factor is no spike yet, and neither is the minimum.
IsSpikeAbove(r, baseline) == r > MinSpikeUnhandled /\ 24 * r > SpikeFactor * baseline

\* IsSpike: recent against the hourly mean of the baseline's 24 hours.
IsSpike(r, baseline) == r >= MinSpikeUnhandled /\ 24 * r >= SpikeFactor * baseline

\* EscalationInputs, and what IsSpike says of the row.
JudgeEscalation ==
  /\ ~judged /\ alert = "none" /\ ~Due
  /\ issue.status = "ignored" /\ issue.escalating /\ IsSpike(recent, issue.baseline)
  /\ judged' = TRUE
  /\ UNCHANGED <<issue, events, recent, alert>>

StillEscalating == issue.status = "ignored" /\ issue.escalating

\* EscalateIssue: no row when its status changed meanwhile (an issue ignored
\* anew with escalation is one it takes); then escalate.
EscalateIssue ==
  /\ judged
  /\ IF StillEscalating THEN issue' = Cleared /\ alert' = "due" ELSE UNCHANGED <<issue, alert>>
  /\ judged' = FALSE
  /\ UNCHANGED <<events, recent>>

\* deliver is done with the alert, or the process died before it.
AlertEnds ==
  /\ alert = "due" /\ alert' = "none"
  /\ UNCHANGED <<issue, events, recent, judged>>

\* A statement fails and the check ends.
EndCheck ==
  /\ judged /\ judged' = FALSE
  /\ UNCHANGED <<issue, events, recent, alert>>

IgnoreNext ==
  \/ SetIssueStatus \/ StoreEvent \/ TimePasses \/ EventAges
  \/ UnignoreDue \/ JudgeEscalation \/ EscalateIssue \/ AlertEnds \/ EndCheck

\* The check ticks every minute under its leader.
IgnoreFairness ==
  /\ WF_ignoreVars(UnignoreDue) /\ WF_ignoreVars(TimePasses)
  /\ SF_ignoreVars(JudgeEscalation) /\ SF_ignoreVars(EscalateIssue) /\ WF_ignoreVars(AlertEnds)

IgnoreSpec == IgnoreInit /\ [][IgnoreNext]_ignoreVars /\ IgnoreFairness

-----------------------------------------------------------------------------

Escalated == /\ issue.status = "ignored" /\ issue.escalating
             /\ recent >= MinSpikeUnhandled /\ 24 * recent >= SpikeFactor * issue.baseline

\* An ignored issue comes back (alerts.go:189-196) once people leave it alone:
\* when its time has come, and when its last hour stays a spike over the
\* baseline of its ignore.
IgnoredComesBack ==
  <>[][~SetIssueStatus]_ignoreVars
    => /\ []<>(issue.status # "ignored" \/ issue.time = "none")
       /\ []<>(~Escalated)
=============================================================================
