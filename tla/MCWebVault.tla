------------------------------- MODULE MCWebVault -------------------------------
(***************************************************************************)
(* WebVault with one or two interchangeable tabs.                          *)
(***************************************************************************)
EXTENDS WebVault, TLC

CONSTANTS t1, t2

TabSymmetry == Permutations({t1, t2})
=============================================================================
