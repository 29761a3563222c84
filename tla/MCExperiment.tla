---------------------------- MODULE MCExperiment ----------------------------
(* What a client of the library does between the reservation and its        *)
(* services: tasks and their environment, the configuration, collections of *)
(* hosts, and calls of Ansible. The four components share no state; in a    *)
(* behaviour one of them moves and the others stay as they began.           *)
EXTENDS Environment, Config, Resources, AnsibleLayer, TLC

CONSTANTS m1, m2

MCMachines == {m1, m2}
MCAliases == {m1}
Symmetry == Permutations(MCMachines)

vars == <<envVars, configVars, resourcesVars, ansibleVars>>

Init == EnvInit /\ ConfigInit /\ ResourcesInit /\ AnsibleInit

Next ==
    \/ /\ EnvNext
       /\ ConfigInit /\ ResourcesInit /\ AnsibleInit /\ marker = {}
       /\ UNCHANGED <<configVars, resourcesVars, ansibleVars>>
    \/ /\ ConfigNext
       /\ EnvInit /\ ResourcesInit /\ AnsibleInit /\ marker = {}
       /\ UNCHANGED <<envVars, resourcesVars, ansibleVars>>
    \/ /\ ResourcesNext
       /\ EnvInit /\ ConfigInit /\ AnsibleInit /\ marker = {}
       /\ UNCHANGED <<envVars, configVars, ansibleVars>>
    \/ /\ AnsibleNext
       /\ EnvInit /\ ConfigInit /\ ResourcesInit
       /\ UNCHANGED <<envVars, configVars, resourcesVars>>

Spec == Init /\ [][Next]_vars

\* The types of the four components.
TypesOK == EnvTypeOK /\ ConfigTypeOK /\ ResourcesTypeOK /\ AnsibleTypeOK
=============================================================================
