--------------------------- MODULE MCPayloadPacks ---------------------------
(* Model-checking instances of PayloadPacks: payloads of two weeks. *)
EXTENDS PayloadPacks, TLC

CONSTANTS e1, e2, e3, w1, w2

MCWeekOf == [e \in Events |-> IF e = e3 THEN w2 ELSE w1]

Symmetry == Permutations(PackIds) \cup Permutations(Packers)
=============================================================================
