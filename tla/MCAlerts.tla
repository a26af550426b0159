------------------------------ MODULE MCAlerts ------------------------------
(***************************************************************************)
(* What raises an alert and what delivers it: the cooldown of a rule, the  *)
(* check of ignored issues, the monitors.  They share no row, so a         *)
(* behaviour is of one of them; the others rest, with no fair step         *)
(* enabled.                                                                *)
(***************************************************************************)
EXTENDS AlertRules, IgnoredIssues, Monitors

VARIABLE part

Init ==
  /\ part \in {"rules", "ignored", "monitors"}
  /\ AlertsInit /\ IgnoreInit /\ MonitorsInit
  /\ part # "monitors" => apart

Next ==
  \/ part = "rules" /\ AlertsNext /\ UNCHANGED <<part, ignoreVars, monitorVars>>
  \/ part = "ignored" /\ IgnoreNext /\ UNCHANGED <<part, alertVars, monitorVars>>
  \/ part = "monitors" /\ MonitorsNext /\ UNCHANGED <<part, alertVars, ignoreVars>>

vars == <<part, alertVars, ignoreVars, monitorVars>>

Spec == Init /\ [][Next]_vars /\ IgnoreFairness /\ MonitorsFairness
=============================================================================
