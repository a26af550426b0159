----------------------------- MODULE MCJobQueue -----------------------------
(* Model-checking instances of JobQueue. *)
EXTENDS JobQueue, TLC

\* Row ids and workers are interchangeable (safety runs only).
Symmetry == Permutations(Ids) \cup Permutations(Workers)
=============================================================================
