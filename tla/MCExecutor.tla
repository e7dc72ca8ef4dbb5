------------------------------- MODULE MCExecutor -------------------------------
(***************************************************************************)
(* Executor with two founders, two transfers and one upgrade, which needs  *)
(* an extension that one transfer alone does not pay.                      *)
(***************************************************************************)
EXTENDS Executor

CONSTANTS k1, k2, old, new
MCSize == old :> 1 @@ new :> 3
NoRotations == {}
=============================================================================
