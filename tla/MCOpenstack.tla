----------------------------- MODULE MCOpenstack -----------------------------
(* A deployment of two machines with a gateway, in a project that may own  *)
(* two floating IPs.                                                       *)
EXTENDS Openstack

CONSTANTS d1, f1, f2

MCDeployments == {d1}
MCFips == {f1, f2}
=============================================================================
