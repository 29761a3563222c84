----------------------------- MODULE Chameleon -----------------------------
(***************************************************************************)
(* Chameleon: the edge testbed (enoslib/infra/enos_chameleonedge) and bare *)
(* metal (enoslib/infra/enos_chameleonbaremetal). Both reserve with a      *)
(* lease that they find by its name, wait for it and run units on its      *)
(* reservations: containers or servers. The gateway and the roles of bare  *)
(* metal are those of Openstack.                                           *)
(***************************************************************************)
EXTENDS Naturals, FiniteSets, Sequences, SequencesExt, FiniteSetsExt

CONSTANTS
    ChConfs,         \* configurations: kind, machines (flavour and number), ports
    MaxLeases,       \* bound: leases made
    MaxUnits,        \* bound: units made
    MaxChCalls       \* bound: calls

ASSUME ChameleonAssumption ==
    /\ \A c \in ChConfs :
          /\ c.kind \in {"edge", "metal"} /\ c.ports \in Nat
          /\ Len(c.machines) \in Nat /\ DOMAIN c.machines = 1..Len(c.machines)
          /\ \A m \in DOMAIN c.machines : c.machines[m].number \in Nat
    /\ {MaxLeases, MaxUnits, MaxChCalls} \subseteq Nat

VARIABLES
    chConf,
    leases,     \* the leases of that name, in the order they were made
    units,      \* containers or servers, in the order they were made
    ports,      \* the ports of that name
    ch,         \* the client: the step that comes next and what it remembers
    doubtful,   \* history: a call about leases failed or was answered wrongly
    cut,        \* history: leases under which units were not all made
    chCalls

chVars == <<chConf, leases, units, ports, ch, doubtful, cut, chCalls>>

Fresh == [at |-> "idle", call |-> "init", forced |-> FALSE, lease |-> 0, plan |-> <<>>, got |-> {}]
LeaseStatuses == {"PENDING", "STARTING", "ACTIVE", "UPDATING", "TERMINATED", "ERROR", "DELETED"}
Listed == {i \in DOMAIN leases : leases[i].status # "DELETED"}
Machine(c) == chConf.machines[c]

ChTypeOK ==
    /\ chConf \in ChConfs
    /\ Len(leases) <= MaxLeases /\ \A i \in DOMAIN leases : leases[i].status \in LeaseStatuses
    /\ \A i \in DOMAIN units :
          /\ units[i].lease \in DOMAIN leases
          /\ units[i].resv \in DOMAIN leases[units[i].lease].reservations
    /\ ports \in Nat /\ ch.got \subseteq DOMAIN units
    /\ chCalls \in 0..MaxChCalls

ChInit ==
    /\ chConf \in ChConfs
    /\ leases = <<>> /\ units = <<>> /\ ports = 0
    /\ ch = Fresh
    /\ doubtful = FALSE /\ cut = {}
    /\ chCalls = 0

Edge == chConf.kind = "edge"
ChGo(at) == ch' = [ch EXCEPT !.at = at]

BeginChCall(call, forced) ==
    /\ ch.at \in {"idle", "ready", "raised", "destroyed"} /\ chCalls < MaxChCalls
    /\ forced => ~Edge /\ call = "init"
    /\ ch' = [Fresh EXCEPT !.at = "lookup", !.call = call, !.forced = forced]
    /\ chCalls' = chCalls + 1
    /\ UNCHANGED <<chConf, leases, units, ports, doubtful, cut>>

-----------------------------------------------------------------------------
(* The lease *)

\* lease_is_reusable: "STARTING, UPDATING" is one string, no status of a lease.
Reusable(status) == status \in {"CREATING", "STARTING, UPDATING", "ACTIVE", "PENDING"}

\* Mutant of Named: leases that cannot be used any more are not looked at.
NamedReusable == LET live == {i \in Listed : Reusable(leases[i].status)} IN IF live = {} THEN 0 ELSE Min(live)

\* The lease by its name: bare metal takes the first, the edge none when there
\* is more than one.
Named == IF Listed = {} \/ (Edge /\ Cardinality(Listed) > 1) THEN 0 ELSE Min(Listed)

Erased(i) == [leases EXCEPT ![i].status = "DELETED"]

\* get_resources and destroy of the edge: a lease that is not reusable is
\* deleted and made again.
LookupEdge ==
    /\ ch.at = "lookup" /\ Edge
    /\ \/ /\ ch.call = "destroy"
          /\ leases' = IF Named = 0 THEN leases ELSE Erased(Named)
          /\ ChGo("destroyed")
       \/ /\ ch.call = "init" /\ Named # 0 /\ Reusable(leases[Named].status)
          /\ ch' = [ch EXCEPT !.at = "wait", !.lease = Named]
          /\ UNCHANGED leases
       \/ /\ ch.call = "init" /\ (Named # 0 => ~Reusable(leases[Named].status))
          /\ leases' = IF Named = 0 THEN leases ELSE Erased(Named)
          /\ ChGo("create")
    /\ UNCHANGED <<chConf, units, ports, doubtful, cut, chCalls>>

\* get_reservation on bare metal: one that is TERMINATED is returned like one
\* that is reusable; any other raises.
Usable(status) == Reusable(status) \/ status = "TERMINATED"

LookupMetal ==
    /\ ch.at = "lookup" /\ ~Edge
    /\ \/ /\ Named = 0
          /\ ChGo(IF ch.call = "init" THEN "create" ELSE "destroyed")
          /\ UNCHANGED leases
       \/ /\ Named # 0 /\ Usable(leases[Named].status) /\ ch.call = "init"
          /\ ch' = [ch EXCEPT !.at = "wait", !.lease = Named]
          /\ UNCHANGED leases
       \/ /\ Named # 0 /\ Usable(leases[Named].status) /\ ch.call = "destroy"
          /\ leases' = Erased(Named)
          /\ ChGo("destroyed")
       \/ /\ Named # 0 /\ ~Usable(leases[Named].status)
          /\ ChGo("raised")
          /\ UNCHANGED leases
    /\ UNCHANGED <<chConf, units, ports, doubtful, cut, chCalls>>

\* A request fails: the edge takes it for the absence of the lease.
LookupFails ==
    /\ ch.at = "lookup"
    /\ IF ~Edge THEN ChGo("raised") ELSE IF ch.call = "destroy" THEN ChGo("destroyed") ELSE ChGo("create")
    /\ doubtful' = TRUE
    /\ UNCHANGED <<chConf, leases, units, ports, cut, chCalls>>

\* The machines of some groups, and the runs of one flavour in the sequence of groups
\* (itertools.groupby), each known by its first group.
MachinesOfGroups(groups) == UNION {{c} \X (1..Machine(c).number) : c \in groups}
RunOf(c) == Min({s \in 1..c : \A d \in s..c : Machine(d).flavour = Machine(c).flavour})

\* The edge reserves for each group, bare metal for each run of a flavour.
Reservations ==
    IF Edge THEN chConf.machines
    ELSE [s \in {RunOf(c) : c \in DOMAIN chConf.machines} |->
            [flavour |-> Machine(s).flavour,
             number |-> Cardinality(MachinesOfGroups({c \in DOMAIN chConf.machines : RunOf(c) = s}))]]

\* The lease is made, perhaps without an answer, or refused. The edge tries
\* again after any failure.
CreateLease ==
    /\ ch.at = "create"
    /\ \/ /\ Len(leases) < MaxLeases
          /\ leases' = Append(leases, [status |-> "PENDING", reservations |-> Reservations])
          /\ \/ ch' = [ch EXCEPT !.at = "wait", !.lease = Len(leases')] /\ UNCHANGED doubtful
             \/ (IF Edge THEN UNCHANGED ch ELSE ChGo("raised")) /\ doubtful' = TRUE
       \/ ~Edge /\ ChGo("raised") /\ UNCHANGED <<leases, doubtful>>
    /\ UNCHANGED <<chConf, units, ports, cut, chCalls>>

\* Both wait for ever for a lease that will not be active.
WaitLease ==
    /\ ch.at = "wait" /\ leases[ch.lease].status = "ACTIVE"
    /\ ChGo(IF Edge THEN "list" ELSE "ports")
    /\ UNCHANGED <<chConf, leases, units, ports, doubtful, cut, chCalls>>

\* check_extra_ports: those missing are made, one by one.
CheckPorts ==
    /\ ch.at = "ports"
    /\ IF ports < chConf.ports THEN ports' = ports + 1 /\ UNCHANGED ch ELSE ChGo("list") /\ UNCHANGED ports
    /\ UNCHANGED <<chConf, leases, units, doubtful, cut, chCalls>>

-----------------------------------------------------------------------------
(* The units *)

\* Mutant of UnitsOfLease: the label with the lease is not looked at.
UnitsOfAny(lease) == {i \in DOMAIN units : units[i].status \in {"creating", "running"}}

\* get_containers_by_lease_id
UnitsOfLease(lease) == {i \in DOMAIN units : units[i].lease = lease /\ units[i].status \in {"creating", "running"}}

\* The servers that Nova lists for a flavour, and how many are wanted.
Servers(flavour) == {i \in DOMAIN units : units[i].status # "gone" /\ units[i].flavour = flavour}
WantedOf(flavour) ==
    Cardinality(MachinesOfGroups({c \in DOMAIN chConf.machines : Machine(c).flavour = flavour}))
Flavours == {Machine(c).flavour : c \in DOMAIN chConf.machines}

\* The hints for a flavour: its reservations in the lease, in order, used in turn.
Hints(flavour) ==
    CHOOSE order \in SetToSeqs({r \in DOMAIN leases[ch.lease].reservations :
                                   leases[ch.lease].reservations[r].flavour = flavour}) :
       \A i, j \in DOMAIN order : i < j => order[i] < order[j]

PlanOf(flavour) ==
    [k \in 1..WantedOf(flavour) |->
        [flavour |-> flavour, resv |-> Hints(flavour)[((k - 1) % Len(Hints(flavour))) + 1]]]
MetalPlan(flavours) == FlattenSeq([i \in 1..Cardinality(flavours) |-> PlanOf(SetToSeq(flavours)[i])])
EdgePlan ==
    FlattenSeq([c \in DOMAIN chConf.machines |->
        [k \in 1..Machine(c).number |-> [flavour |-> Machine(c).flavour, resv |-> c]]])

Number(flavour) == IF ch.forced THEN 0 ELSE Cardinality(Servers(flavour))

\* deploy_containers: containers of the lease, if there are some, are all that
\* is taken. check_servers: as many as wanted are taken, fewer raise.
ListUnits ==
    /\ ch.at = "list"
    /\ IF Edge
       THEN ch' = [ch EXCEPT !.at = "make", !.got = UnitsOfLease(ch.lease),
                             !.plan = IF UnitsOfLease(ch.lease) # {} THEN <<>> ELSE EdgePlan]
       ELSE IF \E f \in Flavours : 0 < Number(f) /\ Number(f) < WantedOf(f) THEN ChGo("raised")
       ELSE LET missing == {f \in Flavours : Number(f) # WantedOf(f)}
            IN  ch' = [ch EXCEPT !.at = "make",
                         !.got = UNION {Servers(f) : f \in Flavours \ missing},
                         !.plan = MetalPlan(missing)]
    /\ units' = IF ~Edge /\ ch.forced
                THEN [i \in DOMAIN units |-> [units[i] EXCEPT !.status = "gone"]] ELSE units
    /\ UNCHANGED <<chConf, leases, ports, doubtful, cut, chCalls>>

MakeUnit ==
    /\ ch.at = "make" /\ ch.plan # <<>>
    /\ \/ /\ Len(units) < MaxUnits
          /\ units' = Append(units, [lease |-> ch.lease, resv |-> ch.plan[1].resv,
                                     flavour |-> ch.plan[1].flavour, status |-> "creating"])
          /\ ch' = [ch EXCEPT !.plan = Tail(@), !.got = @ \cup {Len(units')}]
          /\ UNCHANGED cut
       \/ /\ ch' = [ch EXCEPT !.at = "raised", !.plan = <<>>]
          /\ cut' = cut \cup {ch.lease}
          /\ UNCHANGED units
    /\ UNCHANGED <<chConf, leases, ports, doubtful, chCalls>>

\* The edge waits for each container, and raises if one fails; bare metal for
\* each server to be active or failed, and goes on with the active ones.
UnitsReady ==
    /\ ch.at = "make" /\ ch.plan = <<>>
    /\ \A i \in ch.got : units[i].status # "creating"
    /\ LET ok == {i \in ch.got : units[i].status = "running"} IN
       IF Edge /\ ok # ch.got THEN ChGo("raised") ELSE ch' = [ch EXCEPT !.at = "ready", !.got = ok]
    /\ UNCHANGED <<chConf, leases, units, ports, doubtful, cut, chCalls>>

-----------------------------------------------------------------------------
(* The testbed, and a client that is killed *)

NextStatus(status) ==
    CASE status = "PENDING" -> {"STARTING"}
      [] status = "STARTING" -> {"ACTIVE", "ERROR"}
      [] status = "ACTIVE" -> {"UPDATING", "TERMINATED"}
      [] status = "UPDATING" -> {"ACTIVE"}
      [] OTHER -> {}

LeaseMoves(i) ==
    /\ \E status \in NextStatus(leases[i].status) : leases' = [leases EXCEPT ![i].status = status]
    /\ UNCHANGED <<chConf, units, ports, ch, doubtful, cut, chCalls>>

\* A unit runs if its reservation has a device left.
RunningWith(i) == {j \in DOMAIN units : /\ units[j].lease = units[i].lease /\ units[j].resv = units[i].resv
                                  /\ units[j].status = "running"}

UnitStarts(i) ==
    /\ units[i].status = "creating"
    /\ units' = [units EXCEPT ![i].status =
          IF Cardinality(RunningWith(i)) < leases[units[i].lease].reservations[units[i].resv].number
          THEN "running" ELSE "error"]
    /\ UNCHANGED <<chConf, leases, ports, ch, doubtful, cut, chCalls>>

\* ... and vanishes some time after its lease is over.
UnitVanishes(i) ==
    /\ units[i].status # "gone" /\ leases[units[i].lease].status \in {"TERMINATED", "ERROR", "DELETED"}
    /\ units' = [units EXCEPT ![i].status = "gone"]
    /\ UNCHANGED <<chConf, leases, ports, ch, doubtful, cut, chCalls>>

ChKilled ==
    /\ ch.at \notin {"idle", "ready", "raised", "destroyed"}
    /\ cut' = IF ch.at = "make" /\ ch.plan # <<>> THEN cut \cup {ch.lease} ELSE cut
    /\ ch' = Fresh
    /\ UNCHANGED <<chConf, leases, units, ports, doubtful, chCalls>>

ChNext ==
    \/ \E call \in {"init", "destroy"}, forced \in BOOLEAN : BeginChCall(call, forced)
    \/ LookupEdge \/ LookupMetal \/ LookupFails \/ CreateLease \/ WaitLease \/ CheckPorts
    \/ ListUnits \/ MakeUnit \/ UnitsReady \/ ChKilled
    \/ \E i \in DOMAIN leases : LeaseMoves(i)
    \/ \E i \in DOMAIN units : UnitStarts(i) \/ UnitVanishes(i)

ChSpec == ChInit /\ [][ChNext]_chVars

-----------------------------------------------------------------------------
(* Properties *)

Adjacent == \A c, d \in DOMAIN chConf.machines :
               Machine(c).flavour = Machine(d).flavour => RunOf(c) = RunOf(d)

\* On the edge, init returns all the containers of the configuration, running on
\* the lease it waited for, whatever is left of older leases and calls, unless a
\* call was interrupted while it made them for this very lease (the next one
\* takes what there is). On bare metal, servers are spread over the reservations
\* so that none fails, when the machines of a flavour follow each other; and
\* there are never more ports than asked for.
ChameleonReadyAsAsked ==
    /\ Edge /\ ch.at = "ready" /\ leases[ch.lease].status = "ACTIVE" /\ ch.lease \notin cut =>
          \A c \in DOMAIN chConf.machines :
             Cardinality({i \in ch.got : units[i].lease = ch.lease /\ units[i].resv = c}) = Machine(c).number
    /\ ~Edge /\ Adjacent /\ Cardinality({units[i].lease : i \in DOMAIN units}) <= 1
       /\ (\A i \in DOMAIN units : units[i].status # "gone") =>
          \A i \in DOMAIN units : units[i].status # "error"
    /\ ports <= chConf.ports

\* A destroy that returns leaves no lease of that name, unless a request about
\* leases had failed: the edge then makes a second lease, and with two it finds
\* none to delete.
ChameleonReleased == ch.at = "destroyed" /\ ~doubtful => Listed = {}
=============================================================================
