---------------------------- MODULE MCCvPipeline ----------------------------
(***************************************************************************)
(* Two CVs for a quota of one, so that two uploads that race go past it;  *)
(* two tasks, and a worker that tries twice.                               *)
(***************************************************************************)
EXTENDS CvPipeline, TLC

CONSTANTS c1, c2

Sizes == (c1 :> 1) @@ (c2 :> 1)
=============================================================================
