---------------------------- MODULE DockerHosts ----------------------------
(***************************************************************************)
(* Containers found on remote hosts and handed over as hosts               *)
(* (enoslib/docker.py): one command lists then inspects the containers of  *)
(* each host while they come and go; each answer is given back to the host *)
(* it is from through the name of that host (get_hosts, enoslib/api.py).   *)
(***************************************************************************)
EXTENDS Naturals, FiniteSets

CONSTANTS
    Engines,        \* the remote hosts, by their aliases
    EngineAddress,  \* the address of each: two hosts may share one, with ports of their own
    Containers,     \* names of containers
    MaxChanges      \* bound: containers that come or go

ASSUME EnginesAssumption == EngineAddress \in [Engines -> STRING] /\ MaxChanges \in Nat

VARIABLES
    running,   \* running[e]: the containers on e
    call,     \* the call: its step, its hosts and names
    psOf,    \* psOf[e]: what docker ps has printed
    outputs,   \* outputs[e]: what docker inspect has printed, with an answer or without
    found,     \* the hosts handed over
    changes

dkVars == <<running, call, psOf, outputs, found, changes>>

NoCall == [at |-> "out", engines |-> {}, names |-> {}]
Unasked == [done |-> FALSE, names |-> {}]
NothingPrinted == [e \in Engines |-> Unasked]

DkTypeOK ==
    /\ running \in [Engines -> SUBSET Containers]
    /\ call.at \in {"out", "asking", "found"} /\ call.engines \subseteq Engines
    /\ \A e \in Engines : outputs[e].names \subseteq psOf[e].names /\ (outputs[e].done => psOf[e].done)
    /\ changes \in 0..MaxChanges

DkInit ==
    /\ running \in [Engines -> SUBSET Containers]
    /\ call = NoCall
    /\ psOf = NothingPrinted /\ outputs = NothingPrinted
    /\ found = {}
    /\ changes = 0

-----------------------------------------------------------------------------
ContainerChanges(e, c) ==
    /\ changes < MaxChanges /\ changes' = changes + 1
    /\ running' = [running EXCEPT ![e] = IF c \in @ THEN @ \ {c} ELSE @ \cup {c}]
    /\ call' = [call EXCEPT !.at = IF @ = "found" THEN "out" ELSE @]
    /\ UNCHANGED <<psOf, outputs, found>>

\* get_dockers(roles, pattern_hosts, container_name)
AskDockers ==
    /\ call.at = "out"
    /\ \E engines \in (SUBSET Engines) \ {{}}, names \in SUBSET Containers :
          call' = [at |-> "asking", engines |-> engines, names |-> names]
    /\ psOf' = NothingPrinted /\ outputs' = NothingPrinted /\ found' = {}
    /\ UNCHANGED <<running, changes>>

\* docker ps -q --filter name=
ListDockers(e) ==
    /\ call.at = "asking" /\ e \in call.engines /\ ~psOf[e].done
    /\ psOf' = [psOf EXCEPT ![e] = [done |-> TRUE, names |-> running[e] \cap call.names]]
    /\ UNCHANGED <<running, call, outputs, found, changes>>

\* xargs docker inspect: those that are still there.
InspectDockers(e) ==
    /\ psOf[e].done /\ ~outputs[e].done
    /\ outputs' = [outputs EXCEPT ![e] = [done |-> TRUE, names |-> psOf[e].names \cap running[e]]]
    /\ UNCHANGED <<running, call, psOf, found, changes>>

\* Mutant of DockerAlias: a container has its name for alias.
AliasOnly(c, e) == <<c>>

\* from_state: container_name-host.alias
DockerAlias(c, e) == <<c, e>>

\* Mutant of HostsNamed: all the hosts of the call.
HostsAsked(e) == call.engines

\* get_hosts(roles, alias)[0]: the hosts that have the address of the host named, in
\* the order of a set.
HostsNamed(e) == {f \in Engines : EngineAddress[f] = EngineAddress[e]}

\* json.loads raises on the answer of a host that has no such container, or none at all.
CollectDockers ==
    /\ call.at = "asking" /\ \A e \in call.engines : outputs[e].done
    /\ IF \E e \in call.engines : psOf[e].names = {}
       THEN call' = NoCall /\ UNCHANGED found
       ELSE /\ \E of \in [call.engines -> Engines] :
                  /\ \A e \in call.engines : of[e] \in HostsNamed(e)
                  /\ found' = UNION {{[alias |-> DockerAlias(c, of[e]), name |-> c, remote |-> of[e]] :
                                         c \in outputs[e].names} : e \in call.engines}
            /\ call' = [call EXCEPT !.at = "found"]
    /\ UNCHANGED <<running, psOf, outputs, changes>>

\* A host is unreachable: its result has no stdout.
DockersUnreachable ==
    /\ call.at = "asking"
    /\ call' = NoCall
    /\ UNCHANGED <<running, psOf, outputs, found, changes>>

DkNext ==
    \/ \E e \in Engines : ListDockers(e) \/ InspectDockers(e) \/ \E c \in Containers : ContainerChanges(e, c)
    \/ AskDockers \/ CollectDockers \/ DockersUnreachable

DkSpec == DkInit /\ [][DkNext]_dkVars

-----------------------------------------------------------------------------
\* While nothing has changed since the call returned: the hosts handed over are
\* containers with the name asked for, on the host of theirs, reached through that host,
\* none twice under a name ("alias: **unique** name across the deployment", DockerHost);
\* and one that runs since before the call is among them. It takes hosts with addresses
\* of their own.
DockersFound ==
    (call.at = "found" /\ \A e, f \in Engines : EngineAddress[e] = EngineAddress[f] => e = f) =>
        /\ \A d, f \in found : d.alias = f.alias => d = f
        /\ \A d \in found : d.remote \in call.engines /\ d.name \in outputs[d.remote].names \cap call.names
        /\ changes = 0 =>
              {<<d.remote, d.name>> : d \in found} = UNION {{e} \X (running[e] \cap call.names) : e \in call.engines}
=============================================================================
