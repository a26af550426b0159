----------------------------- MODULE ExactStats -----------------------------
(***************************************************************************)
(* What the statistics promise a reader (ARCHITECTURE.md, "Statistics are  *)
(* rollups with dirty keys, exact for late data"): each hour's statistics  *)
(* change with a committed write to that hour and with nothing else, until *)
(* the hour leaves the retention window.                                   *)
(*                                                                         *)
(* content[h] is the number of committed writes that the statistics of     *)
(* hour h reflect; it stands for the rows of every dimension.              *)
(***************************************************************************)
EXTENDS Naturals

CONSTANTS
  Hours,  \* UTC hour starts
  Gone    \* the content of an hour that left the retention window

VARIABLE content

Init == content = [h \in Hours |-> 0]

Write(h) ==
  /\ content[h] # Gone
  /\ content' = [content EXCEPT ![h] = @ + 1]

Leave(S) == content' = [h \in Hours |-> IF h \in S THEN Gone ELSE content[h]]

Next ==
  \/ \E h \in Hours : Write(h)
  \/ \E S \in SUBSET Hours : Leave(S)

Spec == Init /\ [][Next]_content
=============================================================================
