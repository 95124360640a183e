-------------------------- MODULE MCRobotTwinEval --------------------------
(* An evaluator of two short episodes, whose first two seeds may fail, and one of *)
(* a longer episode. *)
EXTENDS RobotTwinEval, TLC

CONSTANTS e1, e2

MCTestNum == (e1 :> 2) @@ (e2 :> 1)
MCLimit == (e1 :> 1) @@ (e2 :> 2)
MCSeeds == (e1 :> 2) @@ (e2 :> 0)
=============================================================================
