------------------------- MODULE MCInferenceServer -------------------------
(* Two connections, of which two frames of the first and one of the second roll the window of two. *)
EXTENDS InferenceServer

CONSTANTS c1, c2

MCMaxFrames == (c1 :> 2) @@ (c2 :> 1)
=============================================================================
