----------------------------- MODULE MCRunQueue -----------------------------
(* Small instances of RunQueue: one channel analysis, and what else it gets. *)
EXTENDS RunQueue, TLC

CONSTANTS channel, aChannel

OneRun == {channel}
OneJob == channel :> aChannel
OneClass == channel :> 3

Interchangeable == Permutations(Tokens) \cup Permutations(Workers)
=============================================================================
