---------------------------- MODULE MCDiskImage -----------------------------
(***************************************************************************)
(* Instances of DiskImage.  a1 and a2 are two addresses of one state with  *)
(* one name and two configurations.                                        *)
(***************************************************************************)
EXTENDS DiskImage, TLC

CONSTANTS a1, a2, p, k, n, f, g

MCOneProc == (a1 :> p) @@ (a2 :> p)
MCOneKey == (a1 :> k) @@ (a2 :> k)
MCOneName == (a1 :> n) @@ (a2 :> n)
MCTwoConfigs == (a1 :> f) @@ (a2 :> g)
=============================================================================
