----------------------------- MODULE MCNativeWallet -----------------------------
(***************************************************************************)
(* NativeWallet with one send page at a time (p1), or with a page whose    *)
(* tasks outlive it and the page that replaced it (p1 and p2).             *)
(***************************************************************************)
EXTENDS NativeWallet

CONSTANTS p1, p2
=============================================================================
