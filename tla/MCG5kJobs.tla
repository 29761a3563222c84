------------------------------ MODULE MCG5kJobs ------------------------------
(* One or two sites; an object is configured for any of them. *)
EXTENDS G5kJobs

CONSTANTS s1, s2, c1, c2

MCSites == {s1, s2}
OneClient == {c1}
TwoClients == {c1, c2}
=============================================================================
