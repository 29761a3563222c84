------------------------------ MODULE VMonG5k ------------------------------
(***************************************************************************)
(* Virtual machines on Grid'5000 (enoslib/infra/enos_vmong5k/provider.py): *)
(* a job gives physical machines to each group and subnets to each site;   *)
(* the client numbers the virtual machines by the MAC addresses of the     *)
(* subnets, spreads them over the physical machines of their group and     *)
(* starts those that do not run, after having destroyed them if forced.    *)
(* The job is what G5k.init promises (see G5kJobs). Memory is in MB.       *)
(***************************************************************************)
EXTENDS Integers, FiniteSets, Sequences, SequencesExt, FiniteSetsExt

CONSTANTS
    PMs,          \* physical machines: numbers, in the order of their names
    VmConfs,      \* configurations: a sequence of groups, which are records
    SubnetsOf,    \* SubnetsOf[site]: its subnets, sequences of MAC addresses, which are numbers
    MaxVmCalls    \* bound: calls

ASSUME VMonG5kAssumption ==
    /\ PMs \in SUBSET Nat /\ IsFiniteSet(PMs) /\ MaxVmCalls \in Nat
    /\ \A s \in DOMAIN SubnetsOf : SubnetsOf[s] \in Seq(Seq(Nat) \ {<<>>})
    /\ \A s, t \in DOMAIN SubnetsOf : \A i \in DOMAIN SubnetsOf[s], j \in DOMAIN SubnetsOf[t] :
          \A k \in DOMAIN SubnetsOf[s][i], l \in DOMAIN SubnetsOf[t][j] :
             SubnetsOf[s][i][k] = SubnetsOf[t][j][l] => s = t /\ i = j /\ k = l
    /\ \A conf \in VmConfs : Len(conf) \in Nat /\ DOMAIN conf = 1..Len(conf)
    /\ \A conf \in VmConfs : \A g \in DOMAIN conf :
          /\ {conf[g].number, conf[g].core, conf[g].mem, conf[g].pmCore} \subseteq Nat \ {0}
          /\ conf[g].pmMem \in Nat /\ conf[g].pmMem > 256 /\ conf[g].site \in DOMAIN SubnetsOf

VARIABLES
    vmConf,
    force,       \* provider_conf.force_deploy of the client: once set, it stays
    vmJob,       \* the job: its number, the machines of each group
    guests,      \* guests[pm]: the virtual machines that run there, and since which call
    vmc,         \* the client: the step that comes next and where its machines go
    vmCalls

vmVars == <<vmConf, force, vmJob, guests, vmc, vmCalls>>

VmGroups == DOMAIN vmConf
NoJob == [id |-> 0, pms |-> <<>>]
Resting == [at |-> "idle", job |-> 0, placed |-> <<>>, todo |-> {}, forced |-> FALSE, ok |-> TRUE]
Macs == UNION {UNION {ToSet(SubnetsOf[s][i]) : i \in DOMAIN SubnetsOf[s]} : s \in DOMAIN SubnetsOf}

VmTypeOK ==
    /\ vmConf \in VmConfs /\ force \in BOOLEAN
    /\ vmJob.id \in 0..MaxVmCalls
    /\ \A pm \in PMs : \A vm \in guests[pm] : vm.mac \in Macs /\ vm.born \in 1..vmCalls
    /\ vmc.todo \subseteq PMs /\ vmc.job \in 0..MaxVmCalls
    /\ vmCalls \in 0..MaxVmCalls

VmInit ==
    /\ vmConf \in VmConfs
    /\ force = FALSE
    /\ vmJob = NoJob
    /\ guests = [pm \in PMs |-> {}]
    /\ vmc = Resting
    /\ vmCalls = 0

-----------------------------------------------------------------------------
(* The configuration of the job *)

CeilDiv(a, b) == -((-a) \div b)
Lesser(a, b) == IF a < b THEN a ELSE b
Greater(a, b) == IF a > b THEN a ELSE b

\* 2% of the memory is reserved, but at least 256 MB and at most 4 GB.
ReservedMem(m) == Lesser(Greater(m.pmMem \div 50, 256), 4096)

\* Mutant of NodesFor: as many as cores can be found.
NodesForCores(m) == Lesser(CeilDiv(m.number * m.core, m.pmCore), m.number)

\* _find_nodes_number
NodesFor(m) ==
    Lesser(Greater(CeilDiv(m.number * m.core, m.pmCore),
                   CeilDiv(m.number * m.mem, m.pmMem - ReservedMem(m))),
           m.number)

\* _do_build_g5k_conf: each group has machines of its own.
Undercloud ==
    {pms \in [VmGroups -> SUBSET PMs] :
        /\ \A g \in VmGroups : Cardinality(pms[g]) = NodesFor(vmConf[g])
        /\ \A g, h \in VmGroups : g # h => pms[g] \cap pms[h] = {}}

-----------------------------------------------------------------------------
(* The distribution *)

\* mac_range: the subnets in order, without the first address of each.
MacRange(site) == FlattenSeq([i \in DOMAIN SubnetsOf[site] |-> Tail(SubnetsOf[site][i])])

\* How many addresses of the site the groups before g have taken.
TakenBefore(g) ==
    Cardinality(UNION {{h} \X (1..vmConf[h].number) : h \in {h \in 1..(g - 1) : vmConf[h].site = vmConf[g].site}})

\* Mutant of MacsOf: a generator for each group.
MacsFromStart(g) == SubSeq(MacRange(vmConf[g].site), 1, vmConf[g].number)

\* machine.macs: taken from the generator of the site; there may be too few.
MacsOf(g) ==
    LET range == MacRange(vmConf[g].site)
    IN  SubSeq(range, TakenBefore(g) + 1, Lesser(TakenBefore(g) + vmConf[g].number, Len(range)))

EnoughMacs == \A g \in VmGroups : Len(MacsOf(g)) >= vmConf[g].number

\* Mutant of PmOrders: machines come in any order.
AnyOrder(pms) == SetToSeqs(pms)

\* sorted(machine.undercloud)
PmOrders(pms) == {order \in SetToSeqs(pms) : \A i, j \in DOMAIN order : i < j => order[i] < order[j]}

\* _distribute: round robin.
Placements(pms) ==
    {[g \in VmGroups |-> [k \in 1..vmConf[g].number |->
         [mac |-> MacsOf(g)[k], pm |-> orders[g][((k - 1) % Len(orders[g])) + 1]]]] :
     orders \in {o \in [VmGroups -> UNION {PmOrders(pms[g]) : g \in VmGroups}] :
                    \A g \in VmGroups : o[g] \in PmOrders(pms[g])}}

\* _index_by_host
PlacedOn(pm) == {vm.mac : vm \in {vm \in UNION {ToSet(vmc.placed[g]) : g \in DOMAIN vmc.placed} : vm.pm = pm}}
HostingPms(placed) == {vm.pm : vm \in UNION {ToSet(placed[g]) : g \in DOMAIN placed}}

-----------------------------------------------------------------------------
(* init *)

BeginVmInit(forced) ==
    /\ vmc.at \in {"idle", "ready", "raised"} /\ vmCalls < MaxVmCalls
    /\ force' = (force \/ forced)
    /\ vmc' = [Resting EXCEPT !.at = "job", !.forced = force']
    /\ vmCalls' = vmCalls + 1
    /\ UNCHANGED <<vmConf, vmJob, guests>>

\* G5k.init: the job of that name is reloaded, or submitted.
GetVmJob ==
    /\ vmc.at = "job"
    /\ \/ vmJob # NoJob /\ UNCHANGED vmJob
       \/ /\ vmJob = NoJob
          /\ \E pms \in Undercloud : vmJob' = [id |-> vmCalls, pms |-> pms]
    /\ vmc' = [vmc EXCEPT !.at = "place", !.job = vmJob'.id]
    /\ UNCHANGED <<vmConf, force, guests, vmCalls>>

NoVmJob ==
    /\ vmc.at = "job" /\ vmJob = NoJob
    /\ vmc' = [vmc EXCEPT !.at = "raised"]
    /\ UNCHANGED <<vmConf, force, vmJob, guests, vmCalls>>

\* Only the machines that host something take part in what follows. Too few
\* addresses raise StopIteration.
Place ==
    /\ vmc.at = "place" /\ vmJob.id = vmc.job
    /\ IF ~EnoughMacs THEN vmc' = [vmc EXCEPT !.at = "raised"]
       ELSE \E placed \in Placements(vmJob.pms) :
              vmc' = [vmc EXCEPT !.at = IF vmc.forced THEN "destroy" ELSE "start",
                                 !.placed = placed, !.todo = HostingPms(placed)]
    /\ UNCHANGED <<vmConf, force, vmJob, guests, vmCalls>>

\* One of the plays on one machine; the call goes on to the next play when all
\* machines have done theirs, and raises if one could not.
NextPlay(pm, ok) ==
    LET todo == vmc.todo \ {pm}
        all == vmc.ok /\ ok
    IN  vmc' = IF todo # {} THEN [vmc EXCEPT !.todo = todo, !.ok = all]
               ELSE IF ~all THEN [vmc EXCEPT !.at = "raised", !.todo = {}]
               ELSE IF vmc.at = "destroy"
               THEN [vmc EXCEPT !.at = "start", !.todo = HostingPms(vmc.placed)]
               ELSE [vmc EXCEPT !.at = "ready", !.todo = {}]

\* destroy.yml: those that run there of the virtual machines to be placed there.
DestroyGuests(pm) ==
    /\ vmc.at = "destroy" /\ pm \in vmc.todo /\ vmJob.id = vmc.job
    /\ guests' = [guests EXCEPT ![pm] = {vm \in @ : vm.mac \notin PlacedOn(pm)}]
    /\ NextPlay(pm, TRUE)
    /\ UNCHANGED <<vmConf, force, vmJob, vmCalls>>

\* site.yml: those that do not run; it may fail before the last.
StartGuests(pm) ==
    /\ vmc.at = "start" /\ pm \in vmc.todo /\ vmJob.id = vmc.job
    /\ LET missing == PlacedOn(pm) \ {vm.mac : vm \in guests[pm]} IN
       \E started \in SUBSET missing :
          /\ guests' = [guests EXCEPT ![pm] = @ \cup {[mac |-> mac, born |-> vmCalls] : mac \in started}]
          /\ NextPlay(pm, started = missing)
    /\ UNCHANGED <<vmConf, force, vmJob, vmCalls>>

\* The job is over, or a machine is not reached.
Unreachable(pm) ==
    /\ vmc.at \in {"destroy", "start"} /\ pm \in vmc.todo
    /\ NextPlay(pm, FALSE)
    /\ UNCHANGED <<vmConf, force, vmJob, guests, vmCalls>>

JobGone ==
    /\ vmJob' = NoJob
    /\ guests' = [pm \in PMs |-> {}]

\* That it ends between GetVmJob and Place makes no difference: what follows fails.
VmJobEnds ==
    /\ vmJob # NoJob /\ vmc.at # "place"
    /\ JobGone
    /\ UNCHANGED <<vmConf, force, vmc, vmCalls>>

\* G5k.destroy, through a provider of its own.
VmDestroy ==
    /\ vmc.at \in {"idle", "ready", "raised"} /\ vmCalls < MaxVmCalls
    /\ JobGone
    /\ vmc' = [Resting EXCEPT !.at = "idle"]
    /\ vmCalls' = vmCalls + 1
    /\ UNCHANGED <<vmConf, force>>

VmKilled ==
    /\ vmc.at # "idle"
    /\ vmc' = Resting
    /\ force' = FALSE
    /\ UNCHANGED <<vmConf, vmJob, guests, vmCalls>>

VmNext ==
    \/ \E forced \in BOOLEAN : BeginVmInit(forced)
    \/ GetVmJob \/ NoVmJob \/ Place \/ VmJobEnds \/ VmDestroy \/ VmKilled
    \/ \E pm \in PMs : DestroyGuests(pm) \/ StartGuests(pm) \/ Unreachable(pm)

VmSpec == VmInit /\ [][VmNext]_vmVars

-----------------------------------------------------------------------------
(* Properties *)

\* Starting virtual machines "is idempotent": within a job none ever runs
\* twice, on two physical machines, whatever calls fail half-way, are killed and
\* made again.
VmsRunOnce ==
    \A p, q \in PMs : \A u \in guests[p], v \in guests[q] : u.mac = v.mac => p = q /\ u = v

\* What init returns while the job lasts are as many virtual machines as asked
\* for, no two groups sharing one, each running where it is said to be, on a
\* physical machine of its group, which has the cores and memory for them all
\* when those of a virtual machine divide its own; after a forced init, they were
\* all started by it.
VmsReadyAsAsked ==
    vmc.at = "ready" /\ vmJob.id = vmc.job =>
       \A g \in VmGroups :
          LET m == vmConf[g]
              on(pm) == {k \in 1..m.number : vmc.placed[g][k].pm = pm}
          IN  /\ Cardinality({vm.mac : vm \in ToSet(vmc.placed[g])}) = m.number
              /\ \A h \in VmGroups \ {g} : \A u \in ToSet(vmc.placed[g]), v \in ToSet(vmc.placed[h]) :
                    u.mac # v.mac
              /\ \A vm \in ToSet(vmc.placed[g]) :
                    /\ vm.pm \in vmJob.pms[g]
                    /\ \E guest \in guests[vm.pm] :
                          guest.mac = vm.mac /\ (vmc.forced => guest.born = vmCalls)
              /\ m.pmCore % m.core = 0 /\ (m.pmMem - ReservedMem(m)) % m.mem = 0 =>
                    \A pm \in vmJob.pms[g] :
                       /\ Cardinality(on(pm)) * m.core <= m.pmCore
                       /\ Cardinality(on(pm)) * m.mem <= m.pmMem - ReservedMem(m)
=============================================================================
