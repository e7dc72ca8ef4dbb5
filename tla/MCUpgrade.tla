------------------------------- MODULE MCUpgrade -------------------------------
(***************************************************************************)
(* Upgrade with three founders, threshold 2, one person to rotate in, and  *)
(* a second build that needs an extension the deployer cannot pay alone.   *)
(***************************************************************************)
EXTENDS Upgrade, TLC

CONSTANTS k1, k2, k3, k4, old, new

MCSize == old :> 1 @@ new :> 3
MCRotations == {<<k3, k4>>}
MemberSymmetry == Permutations({k1, k2})
=============================================================================
