----------------------------- MODULE MCG5kDeploy -----------------------------
(* Three hosts in two deployments: h1 and h2 share a site and a network. *)
EXTENDS G5kDeploy, TLC

CONSTANTS h1, h2, h3, g1, g2

MCHosts == {h1, h2, h3}
MCGroups == {g1, g2}
MCGroupOf == h1 :> g1 @@ h2 :> g1 @@ h3 :> g2
=============================================================================
