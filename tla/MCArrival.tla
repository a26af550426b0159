------------------------------ MODULE MCArrival ------------------------------
(* Model-checking instance of Arrival: a device whose clock is right, one
   ahead, one behind and one that gives no time, alone and together. *)
EXTENDS Arrival, TLC

CONSTANTS n1, n2, n3, n4

MCStamp == n1 :> 0 @@ n2 :> 3 @@ n3 :> -2 @@ n4 :> NoStamp
MCMails == {{n1}, {n2}, {n1, n3}, {n3}, {n4}}
=============================================================================
