-------------------------- MODULE MCSandboxUpdate --------------------------
(***************************************************************************)
(* Instances of SandboxUpdate.  The configurations pairwise differ in one  *)
(* attribute, in several, in the settings of one port, and in a port that  *)
(* comes or goes.                                                          *)
(***************************************************************************)
EXTENDS SandboxUpdate, TLC

CONSTANTS d, other, bare, entra, p, q

Conf(life, egress, ports, allow, retain) ==
    [auto_suspend |-> life, egress_policy |-> egress, ports |-> ports,
     allow |-> allow, retain |-> retain]

MCConfig ==
    {Conf(Null, Null, Null, FALSE, FALSE),
     Conf(other, other, p :> bare, TRUE, FALSE),
     Conf(other, d, p :> entra, TRUE, TRUE),
     Conf(d, other, q :> entra, FALSE, FALSE),
     Conf(d, other, NoPorts, FALSE, TRUE)}
=============================================================================
