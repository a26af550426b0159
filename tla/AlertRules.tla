------------------------------ MODULE AlertRules ------------------------------
(***************************************************************************)
(* Delivery of alerts under a cooldown: internal/alerts/alerts.go deliver, *)
(* notify and the callers that retry or do not, with the statements of     *)
(* internal/store/alerts.go.  One project and one alert type, so one row   *)
(* of alert_rules; its other columns change no decision below.             *)
(***************************************************************************)
EXTENDS Integers, FiniteSets

CONSTANTS
  Calls,      \* alerts to deliver: each a job of kind "alert" or a scheduler's call
  Jobs,       \* those that a job runs, again after an error or a crash
  Channels,   \* the project's channels and push devices
  Cooldown,   \* cooldown_minutes
  MaxClock,   \* bound: minutes that pass
  QuickSends  \* a delivery ends within the cooldown it claimed

ASSUME AlertRulesAssumption ==
  /\ Jobs \subseteq Calls
  /\ Cooldown \in Nat /\ MaxClock \in Nat
  /\ QuickSends \in BOOLEAN

VARIABLES
  clock,    \* now(), in minutes from 1
  rule,     \* the row: enabled, and last_triggered, 0 when NULL
  call,     \* call[d]: the delivery d
  served,   \* history: claims under which some channel took the alert
  lost      \* history: claims nobody gave back although nothing was sent

alertVars == <<clock, rule, call, served, lost>>

Times == 0..MaxClock
Over  == [pc |-> "done", at |-> 0, previous |-> 0, todo |-> {}, sent |-> FALSE]
Idle  == [pc |-> "idle", at |-> 0, previous |-> 0, todo |-> {}, sent |-> FALSE]

AlertsTypeOK ==
  /\ clock \in Times
  /\ rule \in [enabled : BOOLEAN, last : Times]
  /\ call \in [Calls -> [pc : {"idle", "send", "unclaim", "done"}, at : Times, previous : Times,
                         todo : SUBSET Channels, sent : BOOLEAN]]
  /\ served \subseteq Times
  /\ lost \subseteq Times

\* EnsureRules has made the row: enabled, never triggered.
AlertsInit ==
  /\ clock = 1
  /\ rule = [enabled |-> TRUE, last |-> 0]
  /\ call = [d \in Calls |-> Idle]
  /\ served = {} /\ lost = {}

-----------------------------------------------------------------------------

Claimed == {d \in Calls : call[d].pc \in {"send", "unclaim"}}

\* A minute passes; no delivery outlives its cooldown when QuickSends holds.
Minute ==
  /\ clock < MaxClock
  /\ QuickSends => \A d \in Claimed : clock + 1 - call[d].at <= Cooldown
  /\ clock' = clock + 1
  /\ UNCHANGED <<rule, call, served, lost>>

\* UpsertAlertRule: last_triggered stays.
SetRule ==
  /\ rule' = [rule EXCEPT !.enabled = ~@]
  /\ UNCHANGED <<clock, call, served, lost>>

\* Faulty: the rule is claimed whatever is left of its cooldown.
ReadyAlways == rule.enabled

\* last_triggered IS NULL OR last_triggered < now() - cooldown_minutes.
Ready == rule.enabled /\ (rule.last = 0 \/ rule.last < clock - Cooldown)

\* ClaimAlertRule.  The list of channels is read right after it; without any,
\* or when it cannot be read, nothing is sent.
Claim(d) ==
  /\ call[d].pc = "idle" /\ Ready
  /\ \E todo \in {{}, Channels} :
       call' = [call EXCEPT ![d] = [pc |-> "send", at |-> clock, previous |-> rule.last,
                                    todo |-> todo, sent |-> FALSE]]
  /\ rule' = [rule EXCEPT !.last = clock]
  /\ UNCHANGED <<clock, served, lost>>

\* No row: disabled or cooling down, and the alert is over.
Refuse(d) ==
  /\ call[d].pc = "idle" /\ ~Ready
  /\ call' = [call EXCEPT ![d] = Over]
  /\ UNCHANGED <<clock, rule, served, lost>>

\* send or sendPush: one channel takes the alert ...
Send(d, c) ==
  /\ call[d].pc = "send" /\ c \in call[d].todo
  /\ call' = [call EXCEPT ![d].todo = @ \ {c}, ![d].sent = TRUE]
  /\ served' = served \cup {call[d].at}
  /\ UNCHANGED <<clock, rule, lost>>

\* ... or fails, which is logged.
SendFails(d, c) ==
  /\ call[d].pc = "send" /\ c \in call[d].todo
  /\ call' = [call EXCEPT ![d].todo = @ \ {c}]
  /\ UNCHANGED <<clock, rule, served, lost>>

\* notify returns how many took it.
Notified(d) ==
  /\ call[d].pc = "send" /\ call[d].todo = {}
  /\ call' = [call EXCEPT ![d] = IF @.sent THEN Over ELSE [@ EXCEPT !.pc = "unclaim"]]
  /\ UNCHANGED <<clock, rule, served, lost>>

GivenBack(d) == call[d].previous

\* UnclaimAlertRule, whoever claimed the rule meanwhile.
Unclaim(d) ==
  /\ call[d].pc = "unclaim"
  /\ rule' = [rule EXCEPT !.last = GivenBack(d)]
  /\ call' = [call EXCEPT ![d] = Over]
  /\ UNCHANGED <<clock, served, lost>>

\* What is left of a call whose claim is abandoned: a job runs again later.
Abandoned(d) == IF d \in Jobs THEN Idle ELSE Over

\* The give-back fails, or the process dies after the claim.
AbandonClaim(d) ==
  /\ d \in Claimed
  /\ lost' = IF call[d].sent THEN lost ELSE lost \cup {call[d].at}
  /\ call' = [call EXCEPT ![d] = Abandoned(d)]
  /\ UNCHANGED <<clock, rule, served>>

\* The next alert of this caller: Issue, spike, escalate or Monitor.
Again(d) ==
  /\ call[d].pc = "done"
  /\ call' = [call EXCEPT ![d] = Idle]
  /\ UNCHANGED <<clock, rule, served, lost>>

AlertsNext ==
  \/ Minute \/ SetRule
  \/ \E d \in Calls :
       \/ Claim(d) \/ Refuse(d) \/ Notified(d) \/ Unclaim(d) \/ AbandonClaim(d) \/ Again(d)
       \/ \E c \in Channels : Send(d, c) \/ SendFails(d, c)

AlertsSpec == AlertsInit /\ [][AlertsNext]_alertVars

-----------------------------------------------------------------------------

\* The cooldown is claimed first, so replicas cannot both send
\* (alerts.go:254-255): alerts that reached a channel are more than a cooldown
\* apart, whatever failed, was given back or died between them.  And one outage
\* does not also eat the next alert of the hour (256-258, 267-269): a cooldown
\* runs for an alert that was sent or is being sent, or whose process died or
\* could not give the claim back.
OnePerCooldown ==
  /\ \A a, b \in served : a < b => b - a > Cooldown
  /\ rule.last = 0 \/ rule.last \in served \cup lost \cup {call[d].at : d \in Claimed}
=============================================================================
