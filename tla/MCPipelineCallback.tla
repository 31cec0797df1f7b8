------------------------- MODULE MCPipelineCallback -------------------------
(***************************************************************************)
(* Instances of PipelineCallback for TLC.                                  *)
(***************************************************************************)
EXTENDS PipelineCallback

CONSTANTS p1, p2, worker, user, r1, r2
=============================================================================
