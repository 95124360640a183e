-------------------------- MODULE MCCheckpointRestart --------------------------
(***************************************************************************)
(* Instance of CheckpointRestart for TLC: seven steps with a checkpoint    *)
(* every two, so that the last steps have none, and without or with        *)
(* freezing for three steps, which ends between two checkpoints.           *)
(***************************************************************************)
EXTENDS CheckpointRestart

MCFreezeSteps == {0, 3}
=============================================================================
