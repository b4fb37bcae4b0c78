----------------------------- MODULE MCJobQueue -----------------------------
(* A small queue: a manual and a channel run, the classes that the ORDER BY *)
(* puts furthest apart, and jobs of other kinds.                            *)
EXTENDS JobQueue, TLC

CONSTANTS manual, channel

MCRuns  == {manual, channel}
MCBackground == {channel}
MCClass == manual :> 0 @@ channel :> 3
=============================================================================
