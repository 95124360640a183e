------------------------------ MODULE MCChunking ------------------------------
(***************************************************************************)
(* Instance of Chunking for TLC: every annotation of every video of one of *)
(* these lengths.  With T = 3 they give no chunk (0, 1), a tail only (2),  *)
(* one whole chunk (4), and (7), by the offset, two whole chunks or one    *)
(* with a tail of one or two frames.                                       *)
(***************************************************************************)
EXTENDS Chunking
MCLengths == {0, 1, 2, 4, 7}
=============================================================================
