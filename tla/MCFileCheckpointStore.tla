------------------------ MODULE MCFileCheckpointStore ------------------------
(* A small directory that two processes open.                               *)
EXTENDS FileCheckpointStore, TLC

CONSTANTS w1, w2
TwoProcesses == {w1, w2}
Symmetric == Permutations(TwoProcesses)
==============================================================================
