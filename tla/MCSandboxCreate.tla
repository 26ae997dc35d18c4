-------------------------- MODULE MCSandboxCreate --------------------------
(***************************************************************************)
(* Instances of SandboxCreate.  a1 and a2 are two addresses of one state   *)
(* that configure the same sandbox; b1 belongs to another state and        *)
(* configures the same name.                                               *)
(***************************************************************************)
EXTENDS SandboxCreate, TLC

CONSTANTS a1, a2, b1, p, q, kp, kq, n, f, g

MCProcOf == (a1 :> p) @@ (a2 :> p) @@ (b1 :> q)
MCKeyOf == (a1 :> kp) @@ (a2 :> kp) @@ (b1 :> kq)
MCNameOf == (a1 :> n) @@ (a2 :> n) @@ (b1 :> n)

\* b1 has another image, so its objects must never be recovered by a1 or a2.
MCOtherConfig == (a1 :> f) @@ (a2 :> f) @@ (b1 :> g)

\* The two states configure the same sandbox.
MCSameConfig == (a1 :> f) @@ (b1 :> f)
MCTwoProcs == (a1 :> p) @@ (b1 :> q)
MCTwoKeys == (a1 :> kp) @@ (b1 :> kq)
MCTwoNames == (a1 :> n) @@ (b1 :> n)

\* a2 configures the name of a1 with another image.
MCTwoConfigs == (a1 :> f) @@ (a2 :> g)
MCOneProc == (a1 :> p) @@ (a2 :> p)
MCOneKey == (a1 :> kp) @@ (a2 :> kp)
MCOneName == (a1 :> n) @@ (a2 :> n)

MCIds == Permutations(ObjectId)
=============================================================================
