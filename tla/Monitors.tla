------------------------------- MODULE Monitors -------------------------------
(***************************************************************************)
(* Cron monitoring: check-ins in the ingest transaction (ingest.go) next   *)
(* to the scheduler's pass over missed and timed-out runs                  *)
(* (internal/alerts/monitors.go), both advancing one row of monitors with  *)
(* monitors.Record and RecordMonitorResult, which writes absolute values.  *)
(*                                                                         *)
(* Time is what it does to a row: next_expected_at lies ahead ("later") or *)
(* behind ("due"), and a run in progress has outlived max_runtime_min or   *)
(* has not.  One pass at a time: LeaderMonitorCheck.                       *)
(***************************************************************************)
EXTENDS Integers

CONSTANTS
  Runs,               \* check_in_ids
  Senders,            \* ingest transactions with a check_in item
  FailureThreshold,
  RecoveryThreshold,
  CountCap            \* bound: where the consecutive counters stop counting

ASSUME MonitorsAssumption ==
  /\ FailureThreshold \in 1..CountCap
  /\ RecoveryThreshold \in 1..CountCap
  /\ CountCap \in Nat

VARIABLES
  apart,    \* every check-in carries its monitor_config, and none meets a pass
  mon,      \* the monitor's row
  ideal,    \* history: the counters, had all outcomes been counted one by one
  run,      \* run[r]: the check-in's status, "none" without a row
  overdue,  \* overdue[r]: started_at + max_runtime_min is past
  sender,   \* sender[s]: an ingest transaction
  pass,     \* CheckMonitors
  told      \* the last monitor alert that was queued or delivered

monitorVars == <<apart, mon, ideal, run, overdue, sender, pass, told>>

Fresh    == [fails |-> 0, succs |-> 0, alerting |-> FALSE]
NoRowYet == [there |-> FALSE, count |-> Fresh, next |-> "none"]
Resting  == [pc |-> "idle", r |-> "none", status |-> "none", config |-> FALSE, seen |-> NoRowYet]
Off      == [pc |-> "idle", seen |-> NoRowYet, late |-> {}, alert |-> "none"]

Counters == [fails : 0..CountCap, succs : 0..CountCap, alerting : BOOLEAN]
Rows_    == [there : BOOLEAN, count : Counters, next : {"none", "later", "due"}]
Statuses == {"in_progress", "ok", "error"}

MonitorsTypeOK ==
  /\ apart \in BOOLEAN
  /\ mon \in Rows_ /\ ideal \in Counters
  /\ run \in [Runs -> Statuses \cup {"none", "timeout"}]
  /\ overdue \in [Runs -> BOOLEAN]
  /\ sender \in [Senders -> [pc : {"idle", "read"}, r : Runs \cup {"none"},
                             status : Statuses \cup {"none"}, config : BOOLEAN, seen : Rows_]]
  /\ pass \in [pc : {"idle", "miss", "list", "late", "record"}, seen : Rows_,
               late : SUBSET Runs, alert : {"none", "failed", "recovered"}]
  /\ told \in {"none", "failed", "recovered"}

MonitorsInit ==
  /\ apart \in BOOLEAN
  /\ mon = NoRowYet /\ ideal = Fresh
  /\ run = [r \in Runs |-> "none"]
  /\ overdue = [r \in Runs |-> FALSE]
  /\ sender = [s \in Senders |-> Resting]
  /\ pass = Off
  /\ told = "none"

-----------------------------------------------------------------------------
(* monitors.Record *)

Up1(n) == IF n < CountCap THEN n + 1 ELSE n

\* Faulty: a failure starts its own counter over as well.
RecordStartsOver(c, ok) ==
  LET f == IF ok THEN 0 ELSE 1
      g == IF ok THEN Up1(c.succs) ELSE 0
  IN  [fails |-> f, succs |-> g,
       alerting |-> IF c.alerting THEN g < RecoveryThreshold ELSE f >= FailureThreshold]

\* One outcome: the other counter starts over, and the threshold of the side
\* the monitor is not on flips it.
Record(c, ok) ==
  LET f == IF ok THEN 0 ELSE Up1(c.fails)
      g == IF ok THEN Up1(c.succs) ELSE 0
  IN  [fails |-> f, succs |-> g,
       alerting |-> IF c.alerting THEN g < RecoveryThreshold ELSE f >= FailureThreshold]

\* Failed and Recovered: on the outcome that crosses, not on later ones.
Crossed(old, new) ==
  IF new.alerting = old.alerting THEN "none"
  ELSE IF new.alerting THEN "failed" ELSE "recovered"

-----------------------------------------------------------------------------
(* Ingest. *)

\* The histories are kept in a deployment they are compared in.
Kept(new, old) == IF apart THEN new ELSE old

Busy(s)   == sender[s].pc # "idle"
Locked    == \E s \in Senders : sender[s].pc = "read" /\ sender[s].config

\* Faulty: the upsert takes no lock on the row it returns.
NeedsLockNever(config) == FALSE

\* UpsertMonitor waits for the row and holds it until the commit; GetMonitor
\* does neither.
NeedsLock(config) == config

\* An envelope with a check_in up to the monitor's row; without a row or a
\* monitor_config the check-in is dropped.
BeginCheckIn(s) ==
  /\ ~Busy(s)
  /\ apart => pass.pc = "idle"
  /\ \E r \in Runs, status \in Statuses, config \in BOOLEAN :
       /\ apart => config
       /\ NeedsLock(config) => ~Locked
       /\ config \/ mon.there
       /\ sender' = [sender EXCEPT ![s] = [pc |-> "read", r |-> r, status |-> status,
                                          config |-> config, seen |-> mon]]
  /\ UNCHANGED <<apart, mon, ideal, run, overdue, pass, told>>

\* FindOpenCheckIn, UpdateCheckIn or InsertCheckIn, and the commit.  A terminal
\* status is recorded over what was read, and an alert's job is queued.
CommitCheckIn(s) ==
  LET t == sender[s]
      final == t.status # "in_progress"
      count == Record(t.seen.count, t.status = "ok")
      crossed == Crossed(t.seen.count, count)
  IN
  /\ t.pc = "read"
  /\ final /\ ~t.config => ~Locked
  /\ run' = [run EXCEPT ![t.r] = t.status]
  /\ overdue' = [overdue EXCEPT ![t.r] = run[t.r] # "none" /\ @]
  /\ IF final /\ (mon.there \/ t.config)
     THEN /\ mon' = [there |-> TRUE, count |-> count, next |-> "later"]
          /\ ideal' = Kept(Record(ideal, t.status = "ok"), ideal)
          /\ told' = Kept(IF crossed = "none" THEN told ELSE crossed, told)
     ELSE /\ mon' = [mon EXCEPT !.there = @ \/ t.config]
          /\ UNCHANGED <<ideal, told>>
  /\ sender' = [sender EXCEPT ![s] = Resting]
  /\ UNCHANGED <<apart, pass>>

\* The transaction rolls back, as after a deadlock or a lost connection.
RollBack(s) ==
  /\ Busy(s)
  /\ sender' = [sender EXCEPT ![s] = Resting]
  /\ UNCHANGED <<apart, mon, ideal, run, overdue, pass, told>>

\* DELETE of the monitor's row; the check-ins of its slug stay.
DeleteMonitor ==
  /\ mon.there /\ ~Locked /\ (apart => pass.pc = "idle" /\ \A s \in Senders : ~Busy(s))
  /\ mon' = NoRowYet /\ ideal' = Fresh /\ told' = "none"
  /\ UNCHANGED <<apart, run, overdue, sender, pass>>

-----------------------------------------------------------------------------
(* Time. *)

SlotPasses ==
  /\ mon.next = "later"
  /\ mon' = [mon EXCEPT !.next = "due"]
  /\ UNCHANGED <<apart, ideal, run, overdue, sender, pass, told>>

RuntimePasses(r) ==
  /\ run[r] = "in_progress" /\ ~overdue[r]
  /\ overdue' = [overdue EXCEPT ![r] = TRUE]
  /\ UNCHANGED <<apart, mon, ideal, run, sender, pass, told>>

-----------------------------------------------------------------------------
(* CheckMonitors. *)

TimedOut(r) == run[r] = "in_progress" /\ overdue[r]

\* DueMonitors, once per pass; passes that would find nothing are left out.
StartPass ==
  /\ pass.pc = "idle" /\ mon.there
  /\ mon.next = "due" \/ \E r \in Runs : TimedOut(r)
  /\ apart => \A s \in Senders : ~Busy(s)
  /\ pass' = IF mon.next = "due"
             THEN [Off EXCEPT !.pc = "miss", !.seen = mon] ELSE [Off EXCEPT !.pc = "list"]
  /\ UNCHANGED <<apart, mon, ideal, run, overdue, sender, told>>

\* recordAndAlert's write, over the row as it was read; a row deleted meanwhile
\* is no longer there to write.
WriteFailure(next, after) ==
  LET count == Record(pass.seen.count, FALSE) IN
  /\ ~Locked
  /\ IF mon.there
     THEN /\ mon' = [there |-> TRUE, count |-> count, next |-> next]
          /\ ideal' = Kept(Record(ideal, FALSE), ideal)
          /\ pass' = [pass EXCEPT !.pc = after, !.seen = NoRowYet,
                                  !.alert = Crossed(pass.seen.count, count)]
     ELSE /\ UNCHANGED <<mon, ideal>>
          /\ pass' = [pass EXCEPT !.pc = after, !.seen = NoRowYet]

\* monitorMissed: the synthetic check-in, and a slot after now.
RecordMiss ==
  /\ pass.pc = "miss" /\ pass.alert = "none"
  /\ WriteFailure("later", "list")
  /\ UNCHANGED <<apart, run, overdue, sender, told>>

\* Monitor, called by the pass itself.
TellAlert ==
  /\ pass.alert # "none"
  /\ told' = Kept(pass.alert, told)
  /\ pass' = [pass EXCEPT !.alert = "none"]
  /\ UNCHANGED <<apart, mon, ideal, run, overdue, sender>>

\* TimedOutCheckIns.
ListTimeouts ==
  /\ pass.pc = "list" /\ pass.alert = "none"
  /\ LET late == {r \in Runs : mon.there /\ TimedOut(r)} IN
       pass' = IF late = {} THEN Off ELSE [pass EXCEPT !.pc = "late", !.late = late]
  /\ UNCHANGED <<apart, mon, ideal, run, overdue, sender, told>>

\* monitorTimeout: UpdateCheckIn whatever the status is by now, and GetMonitor.
MarkTimeout(r) ==
  /\ pass.pc = "late" /\ pass.alert = "none" /\ r \in pass.late
  /\ run' = [run EXCEPT ![r] = IF @ = "none" THEN @ ELSE "timeout"]
  /\ pass' = IF mon.there
             THEN [pass EXCEPT !.pc = "record", !.seen = mon, !.late = @ \ {r}]
             ELSE [pass EXCEPT !.pc = IF pass.late = {r} THEN "idle" ELSE "late", !.late = @ \ {r}]
  /\ UNCHANGED <<apart, mon, ideal, overdue, sender, told>>

\* The next slot stays, or is now when there was none.
SlotAfterTimeout(seen) == IF seen.next = "none" THEN "due" ELSE seen.next

RecordTimeout ==
  /\ pass.pc = "record"
  /\ WriteFailure(SlotAfterTimeout(pass.seen), IF pass.late = {} THEN "list" ELSE "late")
  /\ UNCHANGED <<apart, run, overdue, sender, told>>

\* A statement fails, which ends this monitor's or this run's part of the pass,
\* or the process dies; a crossing that was recorded is then not told.
CutShort ==
  /\ ~apart /\ pass.pc # "idle"
  /\ pass' = Off
  /\ UNCHANGED <<apart, mon, ideal, run, overdue, sender, told>>

MonitorsNext ==
  \/ \E s \in Senders : BeginCheckIn(s) \/ CommitCheckIn(s) \/ RollBack(s)
  \/ DeleteMonitor \/ SlotPasses \/ StartPass \/ RecordMiss \/ TellAlert \/ ListTimeouts
  \/ RecordTimeout \/ CutShort
  \/ \E r \in Runs : RuntimePasses(r) \/ MarkTimeout(r)

\* Time passes, the leader's tick comes every minute, and its pass gets through
\* now and then.
MonitorsFairness ==
  /\ WF_monitorVars(SlotPasses) /\ WF_monitorVars(StartPass)
  /\ SF_monitorVars(RecordMiss) /\ SF_monitorVars(TellAlert)
  /\ WF_monitorVars(ListTimeouts) /\ WF_monitorVars(\E r \in Runs : MarkTimeout(r))
  /\ WF_monitorVars(RecordTimeout)

MonitorsSpec == MonitorsInit /\ [][MonitorsNext]_monitorVars /\ MonitorsFairness

-----------------------------------------------------------------------------

\* Ingest and the scheduler agree on what one more failure means
\* (state.go:17-21): in a deployment whose check-ins lock the row and meet no
\* pass, the counters are those of all outcomes counted one after the other.
\* The alert is one-shot and is raised for every crossing (monitors.go:20-24):
\* the last monitor alert says what the row says, once a pass has told its own.
CountersExact ==
  apart => /\ mon.count = ideal
           /\ pass.alert = "none" => (mon.count.alerting <=> told = "failed")

\* A monitor that falls silent for good ends up alerting, across passes that
\* fail or die (CheckMonitors, every minute).
SilenceAlerts ==
  <>[](mon.there /\ mon.next # "none" /\ \A s \in Senders : ~Busy(s))
    => <>[](mon.count.alerting)
=============================================================================
