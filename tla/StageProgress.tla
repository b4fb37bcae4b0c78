---------------------------- MODULE StageProgress ----------------------------
(***************************************************************************)
(* What the queue promises about a run: its stages are committed one after *)
(* the other, each exactly once, until an operator gives the run a second  *)
(* job, which releases the queue from the promise for that run.            *)
(***************************************************************************)
EXTENDS Naturals

CONSTANTS Runs, LastStage

VARIABLE stage

Released == LastStage + 1

ProgressInit == stage = [r \in Runs |-> 0]

CommitStage(r) ==
    /\ stage[r] < LastStage
    /\ stage' = [stage EXCEPT ![r] = @ + 1]

Release(r) ==
    /\ stage[r] <= LastStage
    /\ stage' = [stage EXCEPT ![r] = Released]

ProgressNext == \E r \in Runs : CommitStage(r) \/ Release(r)

ProgressSpec == ProgressInit /\ [][ProgressNext]_stage
=============================================================================
