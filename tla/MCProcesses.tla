----------------------------- MODULE MCProcesses -----------------------------
(***************************************************************************)
(* What the processes of one deployment share: notifications, leader locks *)
(* and the way they shut down.  The two share no state, so a behaviour is  *)
(* of one of them; the other rests, with no fair step enabled.             *)
(***************************************************************************)
EXTENDS WakeUps, Leadership

VARIABLE part

MCInit ==
  /\ part \in {"wakeups", "leaders"}
  /\ WakeInit /\ LeadInit
  /\ part # "leaders" => steady

MCNext ==
  /\ UNCHANGED part
  /\ \/ part = "wakeups" /\ WakeNext /\ UNCHANGED leadVars
     \/ part = "leaders" /\ LeadNext /\ UNCHANGED wakeVars

allVars == <<part, wakeVars, leadVars>>

MCSpec == MCInit /\ [][MCNext]_allVars /\ WakeFairness /\ LeadFairness
=============================================================================
