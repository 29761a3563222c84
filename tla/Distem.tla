------------------------------- MODULE Distem -------------------------------
(***************************************************************************)
(* Containers on Grid'5000 (enoslib/infra/enos_distem/provider.py): a job  *)
(* gives machines to each group; the client makes a pair of keys in its    *)
(* directory, installs them, stops the daemons of an earlier call, starts  *)
(* a coordinator on the first machine and daemons on all, then creates the *)
(* containers one by one. It may be killed at any step. destroy does       *)
(* nothing. Distem itself (external) keeps the containers of a machine     *)
(* until a coordinator that knows of it is asked to quit.                  *)
(***************************************************************************)
EXTENDS Integers, FiniteSets, Sequences, SequencesExt, FiniteSetsExt

CONSTANTS
    DistemHosts,     \* physical machines: numbers, in the order of their names
    DistemConfs,     \* configurations: a sequence of groups
    MaxDistemCalls   \* bound: calls

ASSUME DistemAssumption ==
    /\ DistemHosts \in SUBSET Nat /\ IsFiniteSet(DistemHosts) /\ MaxDistemCalls \in Nat
    /\ \A conf \in DistemConfs : Len(conf) \in Nat /\ DOMAIN conf = 1..Len(conf)
    /\ \A conf \in DistemConfs : \A g \in DOMAIN conf :
          {conf[g].number, conf[g].vcores, conf[g].cores} \subseteq Nat \ {0}

VARIABLES
    disConf,
    disJob,       \* the machines of each group, <<>> before the job
    keyFile,      \* the pair of keys in the directory of the program, 0 if none
    authorized,   \* authorized[h]: the keys that open h
    coordinator,  \* coordinator[h]: the machines its daemon knows of, {} if none runs
    vnodes,       \* containers: where they run, their number and the key they let in
    dis,          \* the client: its step, the machines or containers left, what it found
    disCalls

disVars == <<disConf, disJob, keyFile, authorized, coordinator, vnodes, dis, disCalls>>

DistemGroups == DOMAIN disConf
AwayFromDistem == [at |-> "out", todo |-> <<>>, got |-> FALSE, handed |-> {}]
JobHosts == UNION Range(disJob)

DistemTypeOK ==
    /\ disConf \in DistemConfs /\ JobHosts \subseteq DistemHosts
    /\ keyFile \in 0..disCalls /\ disCalls \in 0..MaxDistemCalls
    /\ \A h \in DistemHosts : authorized[h] \subseteq 1..disCalls /\ coordinator[h] \subseteq JobHosts
    /\ \A v \in vnodes : v.host \in JobHosts /\ v.key \in 1..disCalls
    /\ dis.at \in {"out", "booked", "keys", "quit", "start", "pnodes", "create", "ready"}
    /\ dis.handed \subseteq [name : Nat, host : DistemHosts, key : 1..MaxDistemCalls, group : Nat]

DistemInit ==
    /\ disConf \in DistemConfs
    /\ disJob = <<>>
    /\ keyFile = 0
    /\ authorized = [h \in DistemHosts |-> {}]
    /\ coordinator = [h \in DistemHosts |-> {}]
    /\ vnodes = {}
    /\ dis = AwayFromDistem
    /\ disCalls = 0

-----------------------------------------------------------------------------
\* _find_nodes_number: the division is rounded up.
DistemNodesFor(m) == -((-(m.number * m.vcores)) \div m.cores)

Undergrounds ==
    {jobs \in [DistemGroups -> SUBSET DistemHosts] :
        /\ \A g \in DistemGroups : Cardinality(jobs[g]) = DistemNodesFor(disConf[g])
        /\ \A g, h \in DistemGroups : g # h => jobs[g] \cap jobs[h] = {}}

\* Mutant of FirstHosts: any machine coordinates.
AnyHosts(hosts) == hosts

\* _get_all_hosts(roles)[0]: the addresses are sorted.
FirstHosts(hosts) == {Min(hosts)}

\* itertools.cycle over the machines of the group, in the order of the roles.
ContainersOf(g, order) ==
    [i \in 1..disConf[g].number |-> [group |-> g, host |-> order[((i - 1) % Len(order)) + 1]]]

Plans5k ==
    {FlattenSeq([g \in DistemGroups |-> ContainersOf(g, orders[g])]) :
        orders \in {o \in [DistemGroups -> UNION {SetToSeqs(disJob[g]) : g \in DistemGroups}] :
                       \A g \in DistemGroups : ToSet(o[g]) = disJob[g]}}

\* Distem.init up to write_ssh_keys: the job of an earlier call is loaded again; the
\* pair of keys is a new one.
BookDistem ==
    /\ dis.at \in {"out", "ready"} /\ disCalls < MaxDistemCalls
    /\ disJob' \in IF disJob # <<>> THEN {disJob} ELSE Undergrounds
    /\ disCalls' = disCalls + 1
    /\ keyFile' = disCalls'
    /\ dis' = [AwayFromDistem EXCEPT !.at = "booked"]
    /\ UNCHANGED <<disConf, authorized, coordinator, vnodes>>

\* distem_bootstrap: pnodes_info is asked of the coordinator, whose failure means
\* that there is nothing to stop; then the keys and the package are installed.
FindPnodes ==
    /\ dis.at = "booked"
    /\ \E h \in FirstHosts(JobHosts) :
          dis' = [dis EXCEPT !.at = "keys", !.got = coordinator[h] # {}]
    /\ UNCHANGED <<disConf, disJob, keyFile, authorized, coordinator, vnodes, disCalls>>

InstallKeys ==
    /\ dis.at = "keys"
    /\ \E reached \in SUBSET JobHosts :
          /\ authorized' = [h \in DistemHosts |->
                               IF h \in reached THEN authorized[h] \cup {keyFile} ELSE authorized[h]]
          /\ dis' = IF reached = JobHosts THEN [dis EXCEPT !.at = "quit"] ELSE AwayFromDistem
    /\ UNCHANGED <<disConf, disJob, keyFile, coordinator, vnodes, disCalls>>

\* Mutant of Quits: daemons are killed without being asked to quit.
NeverQuits == FALSE

\* if got_pnodes
Quits == dis.got

\* pnodes_quit stops the machines the coordinator knows of, with their containers.
QuitPnodes ==
    /\ dis.at = "quit"
    /\ \E h \in FirstHosts(JobHosts) :
          vnodes' = IF Quits THEN {v \in vnodes : v.host \notin coordinator[h]} ELSE vnodes
    /\ dis' = [dis EXCEPT !.at = "start"]
    /\ UNCHANGED <<disConf, disJob, keyFile, authorized, coordinator, disCalls>>

\* Daemons are killed everywhere, then one is started on the coordinator.
StartCoordinator ==
    /\ dis.at = "start"
    /\ coordinator' = [h \in DistemHosts |-> {}]
    /\ dis' = [dis EXCEPT !.at = "pnodes"]
    /\ UNCHANGED <<disConf, disJob, keyFile, authorized, vnodes, disCalls>>

\* pnode_init tells the coordinator of all the machines; the names and the places of
\* the containers follow.
InitPnodes ==
    /\ dis.at = "pnodes"
    /\ \E h \in FirstHosts(JobHosts) : coordinator' = [coordinator EXCEPT ![h] = JobHosts]
    /\ \E plan \in Plans5k : dis' = [dis EXCEPT !.at = "create", !.todo = plan]
    /\ UNCHANGED <<disConf, disJob, keyFile, authorized, vnodes, disCalls>>

\* _start_containers, one container: created, given its file system and its interface,
\* started; vnode-0, vnode-1...
CreateVnode ==
    /\ dis.at = "create" /\ dis.todo # <<>>
    /\ LET next == Head(dis.todo)
           vnode == [name |-> Cardinality(dis.handed), host |-> next.host, key |-> keyFile]
       IN  /\ vnodes' = vnodes \cup {vnode}
           /\ dis' = [dis EXCEPT !.todo = Tail(@),
                                 !.at = IF Len(dis.todo) = 1 THEN "ready" ELSE "create",
                                 !.handed = @ \cup {[name |-> vnode.name, host |-> next.host, key |-> keyFile,
                                                     group |-> next.group]}]
    /\ UNCHANGED <<disConf, disJob, keyFile, authorized, coordinator, disCalls>>

\* Killed; or any call of Distem or of Ansible raises.
DistemKilled ==
    /\ dis.at # "out"
    /\ dis' = AwayFromDistem
    /\ UNCHANGED <<disConf, disJob, keyFile, authorized, coordinator, vnodes, disCalls>>

\* The job ends, which destroy does not make it do.
DistemJobEnds ==
    /\ disJob # <<>> /\ dis.at \in {"out", "ready"}
    /\ disJob' = <<>> /\ vnodes' = {} /\ dis' = AwayFromDistem
    /\ authorized' = [h \in DistemHosts |-> {}]
    /\ coordinator' = [h \in DistemHosts |-> {}]
    /\ UNCHANGED <<disConf, keyFile, disCalls>>

DistemNext ==
    \/ BookDistem \/ FindPnodes \/ InstallKeys \/ QuitPnodes \/ StartCoordinator \/ InitPnodes
    \/ CreateVnode \/ DistemKilled \/ DistemJobEnds

DistemSpec == DistemInit /\ [][DistemNext]_disVars

-----------------------------------------------------------------------------
\* What init hands over: the containers of each group, on its machines only, evenly
\* ("Round Robin strategy", start_containers), that run and let in the key of the file;
\* and nothing else runs on the machines, whatever earlier calls left.
DistemReadyAsAsked ==
    dis.at = "ready" =>
        /\ {[name |-> v.name, host |-> v.host, key |-> v.key] : v \in dis.handed} = vnodes
        /\ \A v \in dis.handed : v.host \in disJob[v.group] /\ v.key = keyFile /\ keyFile \in authorized[v.host]
        /\ \A g \in DistemGroups :
              LET on(h) == Cardinality({v \in dis.handed : v.group = g /\ v.host = h})
              IN  /\ Cardinality({v \in dis.handed : v.group = g}) = disConf[g].number
                  /\ \A h, i \in disJob[g] : on(h) <= on(i) + 1
=============================================================================
