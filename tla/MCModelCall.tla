----------------------------- MODULE MCModelCall -----------------------------
(* Small ledgers: one stage, or a stage in each of two runs that compete for *)
(* the same budget.                                                          *)
EXTENDS ModelCall, TLC

CONSTANTS s1, s2, r1, r2

OneStage   == s1 :> r1
TwoStages  == s1 :> r1 @@ s2 :> r2

Interchangeable == Permutations(Callers)
=============================================================================
