----------------------------- MODULE Registry -----------------------------
(***************************************************************************)
(* The process registry (enoslib/registry/process.py): what a client       *)
(* records about groups of processes, each run in a cgroup of a host, and  *)
(* what happens to them on the hosts. A registry is built from the cgroups *)
(* listed on the hosts, refreshed, and used to kill.                       *)
(***************************************************************************)
EXTENDS Naturals, FiniteSets, Sequences, SequencesExt, FiniteSetsExt

CONSTANTS
    Workers,     \* hosts, by alias
    Groups,      \* names of cgroups
    MaxStarts    \* bound: processes started

ASSUME RegistryAssumption ==
    /\ IsFiniteSet(Workers) /\ IsFiniteSet(Groups) /\ MaxStarts \in Nat
    /\ "nobody" \notin Workers

VARIABLES
    renamed,     \* hosts whose alias is not their address
    cgroup,      \* cgroup[h][g]: "absent", "empty" or "alive"
    registry,    \* the processes of the registry of the client
    steady,      \* history: alive since the registry was built or refreshed
    listed,      \* history: what the registry has held since it was built
    starts       \* processes started

registryVars == <<renamed, cgroup, registry, steady, listed, starts>>

Nowhere == "nobody"
Places == Workers \X Groups

RegTypeOK ==
    /\ renamed \subseteq Workers
    /\ cgroup \in [Workers -> [Groups -> {"absent", "empty", "alive"}]]
    /\ registry \subseteq [host : Workers, group : Groups, alive : BOOLEAN]
    /\ steady \subseteq Places /\ listed \subseteq Places
    /\ starts \in 0..MaxStarts

RegInit ==
    /\ renamed \in SUBSET Workers
    /\ cgroup = [h \in Workers |-> [g \in Groups |-> "absent"]]
    /\ registry = {} /\ steady = {} /\ listed = {}
    /\ starts = 0

Alive == {p \in Places : cgroup[p[1]][p[2]] = "alive"}
Listing(h, groups) == {g \in groups : cgroup[h][g] # "absent"}
Recorded(r) == {<<p.host, p.group>> : p \in r}

-----------------------------------------------------------------------------
(* The hosts *)

\* cg_start makes the cgroup and runs a command in it.
Run(h, g) == cgroup' = [cgroup EXCEPT ![h][g] = "alive"]

\* cg_stop on some cgroups: nothing happens where there is none.
Stopped(places) ==
    [h \in Workers |-> [g \in Groups |->
        IF <<h, g>> \in places /\ cgroup[h][g] = "alive" THEN "empty" ELSE cgroup[h][g]]]

Stop(places) ==
    /\ cgroup' = Stopped(places)
    /\ steady' = steady \ places

StartProcess(h, g) ==
    /\ starts < MaxStarts
    /\ Run(h, g)
    /\ starts' = starts + 1
    /\ UNCHANGED <<renamed, registry, steady, listed>>

ProcessEnds(h, g) ==
    /\ cgroup[h][g] = "alive"
    /\ Stop({<<h, g>>})
    /\ UNCHANGED <<renamed, registry, listed, starts>>

-----------------------------------------------------------------------------
(* The registry *)

\* build: the host of a result is found by comparing its address with the
\* alias that the result gives. When none is equal, it is the host found for
\* the result before, and there may be none.
FoundHost(order, i) ==
    LET found == {j \in 1..i : order[j] \notin renamed}
    IN  IF found = {} THEN Nowhere ELSE order[Max(found)]

\* Results come in any order; empty ones are ignored.
Orders(hosts, groups) ==
    LET some == {h \in hosts : Listing(h, groups) # {}} IN SetToSeqs(some)

Raises(order) == \E i \in DOMAIN order : FoundHost(order, i) = Nowhere

Built(order, groups) ==
    UNION {{[host |-> FoundHost(order, i), group |-> g, alive |-> cgroup[order[i]][g] = "alive"] :
               g \in Listing(order[i], groups)} : i \in DOMAIN order}

\* ProcessRegistry.build, kept by the client in place of the one it has.
Build(groups) ==
    /\ \E order \in Orders(Workers, groups) :
          IF Raises(order) THEN UNCHANGED <<registry, steady, listed>>
          ELSE /\ registry' = Built(order, groups)
               /\ listed' = Recorded(Built(order, groups))
               /\ steady' = Alive
    /\ UNCHANGED <<renamed, cgroup, starts>>

\* Mutant of Refreshed: the processes that are not listed any more are left out.
OnlyListed(old, new) == new

\* refresh: those that are not listed any more are dead.
Refreshed(old, new) ==
    new \cup {[p EXCEPT !.alive = FALSE] : p \in {p \in old : <<p.host, p.group>> \notin Recorded(new)}}

\* Some cgroups may have been removed meanwhile, which happens at a reboot.
Refresh ==
    /\ \E order \in Orders(Workers, Groups) :
          IF Raises(order) THEN UNCHANGED <<registry, steady, listed>>
          ELSE /\ registry' = Refreshed(registry, Built(order, Groups))
               /\ listed' = listed \cup Recorded(Built(order, Groups))
               /\ steady' = Alive
    /\ UNCHANGED <<renamed, cgroup, starts>>

Reboots(h) ==
    /\ cgroup[h] # [g \in Groups |-> "absent"]
    /\ cgroup' = [cgroup EXCEPT ![h] = [g \in Groups |-> "absent"]]
    /\ steady' = {p \in steady : p[1] # h}
    /\ UNCHANGED <<renamed, registry, listed, starts>>

\* Sub-registries: of some hosts, or by what is recorded.
OfHosts(hosts) == {p \in registry : p.host \in hosts}
AliveProcesses == {p \in registry : p.alive}
DeadProcesses == {p \in registry : ~p.alive}
SubRegistries == {OfHosts(hosts) : hosts \in SUBSET Workers} \cup {AliveProcesses, DeadProcesses}

\* _build_hosts_with_extra: the groups to stop on each host.
CgroupsOf(sub) == [h \in {p.host : p \in sub} |-> {p.group : p \in {p \in sub : p.host = h}}]

\* ProcessRegistry.kill: every group recorded for a host, dead or alive.
Kill(sub) ==
    /\ sub # {}
    /\ Stop(UNION {{h} \X CgroupsOf(sub)[h] : h \in DOMAIN CgroupsOf(sub)})
    /\ UNCHANGED <<renamed, registry, listed, starts>>

\* ProcessGroup.kill: nothing is done to one recorded dead.
KillOne(p) ==
    /\ p \in registry /\ p.alive
    /\ Stop({<<p.host, p.group>>})
    /\ UNCHANGED <<renamed, registry, listed, starts>>

\* kill_incr, kill_async_incr: at most n of those recorded alive, one by one, at
\* random. What is recorded is what was true at the last refresh. (Kills with an
\* interval between them are a sequence of KillOne.)
AtRandom(n) ==
    LET m == IF n < Cardinality(AliveProcesses) THEN n ELSE Cardinality(AliveProcesses)
    IN  {order \in [1..m -> AliveProcesses] : IsInjective(order)}

KillIncr(n) ==
    /\ AliveProcesses # {}
    /\ \E order \in AtRandom(n) : Stop(Recorded({order[i] : i \in DOMAIN order}))
    /\ UNCHANGED <<renamed, registry, listed, starts>>

\* ProcessGroup.refresh, of one process.
RefreshOne(p) ==
    /\ p \in registry
    /\ registry' = (registry \ {p}) \cup {[p EXCEPT !.alive = cgroup[p.host][p.group] = "alive"]}
    /\ steady' = IF cgroup[p.host][p.group] = "alive" THEN steady \cup {<<p.host, p.group>>} ELSE steady
    /\ UNCHANGED <<renamed, cgroup, listed, starts>>

RegNext ==
    \/ \E h \in Workers :
          \/ Reboots(h)
          \/ \E g \in Groups : StartProcess(h, g) \/ ProcessEnds(h, g)
    \/ \E groups \in (SUBSET Groups) \ {{}} : Build(groups)
    \/ Refresh
    \/ \E sub \in SubRegistries : Kill(sub)
    \/ \E n \in 1..2 : KillIncr(n)
    \/ \E p \in registry : KillOne(p) \/ RefreshOne(p)

RegSpec == RegInit /\ [][RegNext]_registryVars

-----------------------------------------------------------------------------
(* Properties *)

\* As long as hosts are known by their address, the registry is what the
\* client believes: it has one entry for each group of a host, loses none by
\* refreshing, however often cgroups appear and vanish, and one that has been
\* alive since the registry was last brought up to date, when it was listed,
\* is recorded alive. (When aliases differ, build takes the processes of one
\* host for those of another, or raises.)
RegistryTracks ==
    renamed = {} =>
       /\ \A p, q \in registry : p.host = q.host /\ p.group = q.group => p = q
       /\ Recorded(registry) = listed
       /\ \A p \in registry : <<p.host, p.group>> \in steady => p.alive
=============================================================================
