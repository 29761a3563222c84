---------------------------- MODULE G5kResources ----------------------------
(***************************************************************************)
(* From a configuration of Grid'5000 to hosts and networks, and back to    *)
(* the testbed (enoslib/infra/enos_g5k: configuration, concrete, objects,  *)
(* provider, g5k_api_utils): what is asked of OAR, what OAR may give, the  *)
(* mapping of nodes and networks to the configuration, the cards that are  *)
(* moved to VLANs one call after the other, the addresses of the hosts and *)
(* the openings of the firewall. A client may be killed at any point and   *)
(* initialise again: it finds its jobs and the state of the cards.         *)
(* The life of the jobs is in G5kJobs, the deployment in G5kDeploy.        *)
(***************************************************************************)
EXTENDS Integers, FiniteSets, Sequences, SequencesExt, FiniteSetsExt

CONSTANTS
    G5kConfs,      \* configurations, as a program writes them
    NodesByName,   \* all the nodes, in the order of their names
    NetsByName,    \* all VLANs and subnets, in the order of their descriptors
    ClusterOf,     \* ClusterOf[node]
    SiteOfCluster, \* SiteOfCluster[cluster]
    CardsOf,       \* CardsOf[cluster]: how many Ethernet cards are not mounted
    NatureOf,      \* NatureOf[descriptor]: the kind of a VLAN or subnet
    SubnetsPer16,  \* subnets given for a slash_16 (64 on Grid'5000)
    HandMade,      \* what jobs made without the library may hold
    Statuses,      \* what the API may tell of the nodes
    MaxG5kCalls    \* bound: calls of init

KavlanTypes == {"kavlan", "kavlan-local", "kavlan-global"}
G5kNodes == ToSet(NodesByName)
SiteOfNode(n) == SiteOfCluster[ClusterOf[n]]

\* What a program may ask for. The servers of a list are of one cluster, since others
\* are refused; the networks of a machine are those of the configuration.
IdsOf(c) == {c.networks[k].id : k \in DOMAIN c.networks}
MachineOK(c) ==
    [servers : Seq(G5kNodes), cluster : DOMAIN SiteOfCluster, nodes : Nat, min : Nat,
     primary : IdsOf(c) \cup {"none"}, secondary : Seq(IdsOf(c))]
NetworkOK(c) ==
    [id : IdsOf(c), site : Range(SiteOfCluster), type : KavlanTypes \cup {"prod", "slash_16", "slash_22"}]
G5kConfOK(c) ==
    /\ c \in [machines : Seq(MachineOK(c)), networks : Seq(NetworkOK(c)), deploy : BOOLEAN, env : BOOLEAN,
              dhcp : BOOLEAN, dictionary : BOOLEAN, static : BOOLEAN]
    /\ \A i \in DOMAIN c.machines : \A s \in ToSet(c.machines[i].servers) : ClusterOf[s] = c.machines[i].cluster

ASSUME G5kResourcesAssumption ==
    /\ MaxG5kCalls \in Nat /\ SubnetsPer16 \in Nat \ {0}
    /\ NodesByName \in Seq(DOMAIN ClusterOf) /\ NetsByName \in Seq(DOMAIN NatureOf)
    /\ \A n \in G5kNodes : ClusterOf[n] \in DOMAIN SiteOfCluster /\ CardsOf[ClusterOf[n]] \in Nat
    /\ IsFiniteSet(DOMAIN SiteOfCluster)
    /\ \A d \in ToSet(NetsByName) : NatureOf[d] \in KavlanTypes \cup {"slash_22"}
    /\ \A c \in G5kConfs : G5kConfOK(c)
    /\ \A jobs \in HandMade :
          /\ jobs \in [nodes : SUBSET G5kNodes, nets : SUBSET (ToSet(NetsByName) \X Range(SiteOfCluster)),
                       sites : SUBSET Range(SiteOfCluster)]
    /\ \A status \in Statuses : \A n \in G5kNodes :
          status[n].reservations \in Seq([queue : STRING, from : Int, walltime : Nat \ {0}])

VARIABLES
    g5kConf,     \* the configuration, finalised
    oar,         \* what the jobs hold: nodes, networks; or none
    vlanOf,      \* vlanOf[node]: the VLAN of each of its cards, 0 is the mounted one
    cardsUp,     \* cards a node has brought up
    g5k,         \* the client: its step, its hosts and networks, the cards to move
    mapped,      \* the first mapping that was computed for these jobs
    g5kCalls,
    slot,        \* the last answer of test_slot
    opened,      \* rules of the firewall, by site
    gate         \* the block of firewall(): its step and the jobs that remain

g5kVars == <<g5kConf, oar, vlanOf, cardsUp, g5k, mapped, g5kCalls, slot, opened, gate>>

-----------------------------------------------------------------------------
(* Configurations. A machine is [servers, cluster, nodes, min, primary,    *)
(* secondary], where servers is <<>> for a cluster and primary may be none;*)
(* a network is [id, site, type].                                          *)

IsServers(m) == m.servers # <<>>

\* The place of x in a list, the first one.
FirstAt(list, x) == CHOOSE i \in DOMAIN list : list[i] = x /\ \A j \in 1..(i - 1) : list[j] # x

\* What is before what.
ByPlace(list, S) == {p \in S \X S : FirstAt(list, p[1]) < FirstAt(list, p[2])}
ByNumber(S) == {p \in S \X S : p[1] < p[2]}

\* The elements of S, those that are before the others first.
Sorted(S, before) == [k \in 1..Cardinality(S) |-> CHOOSE x \in S : Cardinality({y \in S : <<y, x>> \in before}) = k - 1]
SortedBy(list, S) == Sorted(S, ByPlace(list, S))
Increasing(S) == Sorted(S, ByNumber(S))

\* GroupConfiguration.from_dictionary: min and the number of servers are lost, and
\* secondary networks come in the order of the networks.
ReadMachine(c, m) ==
    LET wanted == Increasing({k \in DOMAIN c.networks : c.networks[k].id \in ToSet(m.secondary)})
    IN  [servers |-> m.servers, cluster |-> m.cluster, primary |-> m.primary, min |-> 0,
         nodes |-> IF IsServers(m) THEN Len(m.servers) ELSE m.nodes,
         secondary |-> [r \in DOMAIN wanted |-> c.networks[wanted[r]].id]]
FromDictionary(c) == [c EXCEPT !.machines = [i \in DOMAIN @ |-> ReadMachine(c, @[i])]]

\* _set_default_primary_network: the first production network of the site; the first
\* machine of a site that has none makes it.
SiteOfMachine(m) == SiteOfCluster[m.cluster]
ProdsAt(c, site) == {k \in DOMAIN c.networks : c.networks[k].site = site /\ c.networks[k].type = "prod"}
ProdName(site) == "prod-" \o site
MakesProd(c, i) ==
    LET lacks(j) == c.machines[j].primary = "none" /\ ProdsAt(c, SiteOfMachine(c.machines[j])) = {}
    IN  /\ lacks(i)
        /\ \A j \in 1..(i - 1) : lacks(j) => SiteOfMachine(c.machines[j]) # SiteOfMachine(c.machines[i])
PrimaryFor(c, m) ==
    LET prods == ProdsAt(c, SiteOfMachine(m))
    IN  IF m.primary # "none" THEN m.primary
        ELSE IF prods = {} THEN ProdName(SiteOfMachine(m)) ELSE c.networks[Min(prods)].id
WithPrimaries(c) ==
    LET makers == Increasing({i \in DOMAIN c.machines : MakesProd(c, i)})
        made == [k \in DOMAIN makers |->
                    LET site == SiteOfMachine(c.machines[makers[k]])
                    IN  [id |-> ProdName(site), site |-> site, type |-> "prod"]]
    IN  [c EXCEPT !.networks = @ \o made,
                  !.machines = [i \in DOMAIN @ |-> [c.machines[i] EXCEPT !.primary = PrimaryFor(c, c.machines[i])]]]

HasKavlan(c) == \E i \in DOMAIN c.networks : c.networks[i].type \in KavlanTypes

\* Mutant of Deploys: a job with a VLAN is not turned into a deployment.
DeploysIfAsked(c) == c.deploy \/ c.env

\* finalize: VLANs need a deployment, and so does an environment.
Deploys(c) == c.deploy \/ c.env \/ HasKavlan(c)

\* The secondary networks of a dictionary are all found, each once.
Unresolved(c) ==
    \E i \in DOMAIN c.machines :
        Len(ReadMachine(c, c.machines[i]).secondary) # Len(c.machines[i].secondary)

Refused(c) == (c.deploy /\ ~c.env /\ ~HasKavlan(c)) \/ (c.dictionary /\ Unresolved(c))

Finalized(c) ==
    LET read == IF c.dictionary THEN FromDictionary(c) ELSE c
    IN  [WithPrimaries(read) EXCEPT !.deploy = Deploys(read)]

-----------------------------------------------------------------------------
(* What OAR gives *)

Eligible(m) ==
    {n \in G5kNodes : IF IsServers(m) THEN n \in ToSet(m.servers) ELSE ClusterOf[n] = m.cluster}

\* Distinct things for each of a list of demands.
Allotments(demands) ==
    {share \in [DOMAIN demands -> UNION Range(demands)] :
        /\ \A i \in DOMAIN demands : share[i] \in demands[i]
        /\ \A i, j \in DOMAIN demands : i # j => share[i] \cap share[j] = {}}

\* _build_reservation_criteria: nodes for each group.
NodesFrom(free, machines) ==
    {UNION Range(share) : share \in
        Allotments([i \in DOMAIN machines |-> kSubset(machines[i].nodes, free \cap Eligible(machines[i]))])}

\* A VLAN or subnets for each network; OAR knows of no production network.
Pieces(net) == IF net.type = "slash_16" THEN SubnetsPer16 ELSE IF net.type = "prod" THEN 0 ELSE 1
Nature(net) == IF net.type = "slash_16" THEN "slash_22" ELSE net.type
Available(net) == {d \in ToSet(NetsByName) : NatureOf[d] = Nature(net)} \X {net.site}
NetsFrom(nets) ==
    {UNION Range(share) : share \in
        Allotments([k \in DOMAIN nets |-> kSubset(Pieces(nets[k]), Available(nets[k]))])}

NoJobs == [nodes |-> {}, nets |-> {}, sites |-> {}]

\* Sites with a criterion: those of machines and of networks that are not production ones.
JobSites(c) ==
    {SiteOfCluster[c.machines[i].cluster] : i \in {j \in DOMAIN c.machines : c.machines[j].nodes > 0}}
        \cup {c.networks[i].site : i \in {j \in DOMAIN c.networks : c.networks[j].type # "prod"}}

Grants(c) ==
    {[nodes |-> n, nets |-> v, sites |-> JobSites(c)] :
        n \in NodesFrom(G5kNodes, c.machines), v \in NetsFrom(c.networks)}

-----------------------------------------------------------------------------
(* The mapping *)

\* list[:n], for a negative n too: how many of a list of this size.
Cut(size, n) == IF n < 0 THEN Max({0, size + n}) ELSE Min({n, size})

\* pick_things: the first n of those of a list that are in S.
PickThings(list, S, n) == SubSeq(SortedBy(list, S), 1, Cut(Cardinality(S), n))

\* Mutant of Remain: what is picked stays in the pool.
AllRemain(pool, got) == pool

\* del pool[:n], _oar_nodes.remove
Remain(pool, got) == pool \ ToSet(got)

\* Mutant of SortedNames: the names stay in the order of the jobs.
UnsortedNames(names) == names

\* sorted(_oar_nodes)
SortedNames(names) == SortedBy(NodesByName, ToSet(names))

\* Lists of servers come first, then clusters by min (min_machines); in the order of
\* the configuration otherwise.
Turns(c) ==
    LET key(m) == IF IsServers(m) THEN <<0, 0>> ELSE <<1, m.min>>
        earlier(i, j) ==
            LET a == key(c.machines[i])
                b == key(c.machines[j])
            IN  \/ a[1] < b[1]
                \/ a[1] = b[1] /\ a[2] < b[2]
                \/ a = b /\ i < j
    IN  Sorted(DOMAIN c.machines, {p \in (DOMAIN c.machines) \X (DOMAIN c.machines) : earlier(p[1], p[2])})

\* Lists take all their servers at once; clusters have two turns, for their min and
\* for the rest, since there is no second one for a group that has not its min.
HowMany(m, turn) ==
    IF turn = 1 THEN IF IsServers(m) THEN m.nodes ELSE m.min
    ELSE IF IsServers(m) THEN 0 ELSE m.nodes - m.min

\* What a machine takes at a turn from the nodes that are left.
PickNodes(m, sorted, left, turn) ==
    PickThings(IF IsServers(m) THEN m.servers ELSE sorted, left \cap Eligible(m), HowMany(m, turn))

\* _concretize_nodes: the groups with their nodes, or NotEnoughNodesError.
ConcreteNodes(c, names) ==
    LET n == Len(c.machines)
        turns == Turns(c)
        sorted == SortedNames(names)
        machine(k) == c.machines[turns[IF k <= n THEN k ELSE k - n]]
        left[k \in 0..(2 * n)] ==
            IF k = 0 THEN ToSet(names)
            ELSE Remain(left[k - 1], PickNodes(machine(k), sorted, left[k - 1], IF k <= n THEN 1 ELSE 2))
        got == [k \in 1..(2 * n) |-> PickNodes(machine(k), sorted, left[k - 1], IF k <= n THEN 1 ELSE 2)]
    IN  [ok |-> \A k \in 1..n : Len(got[k]) >= machine(k).min,
         groups |-> [k \in 1..n |-> [group |-> turns[k], nodes |-> got[k] \o got[n + k]]]]

\* Mutant of SortedNets: networks stay in the order of the jobs.
UnsortedNets(nets, site) ==
    LET here == SelectSeq(nets, LAMBDA v : v[2] = site) IN [i \in DOMAIN here |-> here[i][1]]

\* sorted by site, nature and descriptor: in a pool, by descriptor.
SortedNets(nets, site) == SortedBy(NetsByName, {d \in ToSet(NetsByName) : <<d, site>> \in ToSet(nets)})

\* What is picked for network k in what is left.
PickNets(c, nets, left, k) ==
    LET net == c.networks[k]
        sorted == SortedNets(nets, net.site)
    IN  PickThings(sorted, {d \in ToSet(sorted) : <<d, net.site>> \in left /\ NatureOf[d] = Nature(net)}, Pieces(net))

\* _concretize_networks: descriptors for each network, or MissingNetworkError. Each
\* job has one production network.
ConcreteNetworks(c, nets, sites) ==
    LET n == Len(c.networks)
        left[k \in 0..n] ==
            IF k = 0 THEN ToSet(nets)
            ELSE left[k - 1] \ (ToSet(PickNets(c, nets, left[k - 1], k)) \X {c.networks[k].site})
        got == [k \in 1..n |-> PickNets(c, nets, left[k - 1], k)]
        isProd(k) == c.networks[k].type = "prod"
        found(k) == IF isProd(k) THEN /\ c.networks[k].site \in sites
                                      /\ \A j \in 1..(k - 1) : isProd(j) => c.networks[j].site # c.networks[k].site
                    ELSE got[k] # <<>>
    IN  [ok |-> \A k \in 1..n : found(k),
         nets |-> [k \in 1..n |-> [id |-> c.networks[k].id, type |-> c.networks[k].type, site |-> c.networks[k].site,
                                   names |-> IF isProd(k) THEN <<"DEFAULT">> ELSE got[k]]]]

\* _lookup_networks
LookupNet(nets, id) == nets[FirstAt([k \in DOMAIN nets |-> nets[k].id], id)]

\* The VLAN of a network: none for subnets.
VlanId(net) == IF net.type = "slash_22" \/ net.type = "slash_16" THEN "none" ELSE Head(net.names)

\* _join: the hosts, group by group.
Join(c, groups) ==
    FlattenSeq([k \in DOMAIN groups |->
        [i \in DOMAIN groups[k].nodes |->
            [node |-> groups[k].nodes[i], group |-> groups[k].group]]])

Secondary(c, nets, h) ==
    [i \in DOMAIN c.machines[h.group].secondary |-> LookupNet(nets, c.machines[h.group].secondary[i])]

\* mirror_state: card i goes to secondary network i, which raises when cards are missing.
MovesOf(c, nets, h) ==
    LET wanted == Secondary(c, nets, h)
    IN  IF Len(wanted) > CardsOf[ClusterOf[h.node]] THEN <<[node |-> h.node, card |-> 0, vlan |-> "missing"]>>
        ELSE [i \in DOMAIN wanted |-> [node |-> h.node, card |-> i, vlan |-> VlanId(wanted[i])]]
CardMoves(c, nets, hosts) == FlattenSeq([k \in DOMAIN hosts |-> MovesOf(c, nets, hosts[k])])

-----------------------------------------------------------------------------
(* test_slot *)

\* Mutant of Overlaps: a reservation that ends when the job starts is in its way.
Touches(r, start, walltime) == Min({r.from + r.walltime, start + walltime}) - Max({r.from, start}) >= 0

\* The two segments intersect.
Overlaps(r, start, walltime) == Min({r.from + r.walltime, start + walltime}) - Max({r.from, start}) > 0

Undated == -1

\* can_start_on_cluster, for a node: besteffort jobs do not count, and a reservation
\* without a date hides those that follow it.
InTheWay(reservations, start, walltime) ==
    \E i \in DOMAIN reservations :
        /\ reservations[i].queue # "besteffort" /\ Overlaps(reservations[i], start, walltime)
        /\ \A j \in 1..i : reservations[j].queue = "besteffort" \/ reservations[j].from # Undated

Candidates(status, start, walltime) ==
    {n \in G5kNodes : /\ status[n].hard \notin {"dead", "suspected"}
                      /\ ~InTheWay(status[n].reservations, start, walltime)}

\* get_demands: all the servers of a list, however many of them are asked for.
Demand(m) == IF IsServers(m) THEN Len(m.servers) ELSE m.nodes

\* _test_slot: cluster by cluster, as many candidates as the groups demand in all.
TestSlotG5k(machines, status, start, walltime) ==
    \A cluster \in {machines[i].cluster : i \in DOMAIN machines} :
        LET groups == {i \in DOMAIN machines : machines[i].cluster = cluster}
            demands == UNION {{i} \X (1..Demand(machines[i])) : i \in groups}
            exact == UNION {ToSet(machines[i].servers) : i \in groups}
            candidates == {n \in Candidates(status, start, walltime) : ClusterOf[n] = cluster}
        IN  Cardinality(candidates) >= Cardinality(demands) /\ exact \subseteq candidates

-----------------------------------------------------------------------------
(* The provider *)

Default == [n \in G5kNodes |-> [card \in 0..CardsOf[ClusterOf[n]] |-> "DEFAULT"]]
OutOfCall == [at |-> "out", hosts |-> <<>>, nets |-> <<>>, moves |-> <<>>, found |-> {}]
NotAsked == [asked |-> FALSE, status |-> <<>>, start |-> 0, walltime |-> 0, ok |-> FALSE]
Closed == [at |-> "closed", jobs |-> {}]

G5kTypeOK ==
    /\ oar.nodes \subseteq G5kNodes /\ oar.sites \subseteq Range(SiteOfCluster)
    /\ \A n \in G5kNodes : Range(vlanOf[n]) \subseteq ToSet(NetsByName) \cup {"DEFAULT"}
    /\ cardsUp \subseteq UNION {{n} \X (1..CardsOf[ClusterOf[n]]) : n \in G5kNodes}
    /\ g5k.at \in {"out", "reserved", "mirror", "wait", "dhcp", "ready"}
    /\ \A i \in DOMAIN g5k.hosts : g5k.hosts[i].node \in oar.nodes
    /\ Len(mapped) <= 1 /\ g5kCalls \in 0..MaxG5kCalls /\ slot.ok \in BOOLEAN
    /\ gate.at \in {"closed", "opening", "open", "closing", "failed"} /\ gate.jobs \subseteq oar.sites
    /\ \A rule \in opened : rule.site \in oar.sites /\ rule.nodes \subseteq oar.nodes

G5kInit ==
    /\ g5kConf \in {Finalized(c) : c \in {c \in G5kConfs : ~Refused(c)}}
    /\ oar \in IF g5kConf.static THEN HandMade ELSE {NoJobs}
    /\ vlanOf = Default
    /\ cardsUp = {}
    /\ g5k = OutOfCall
    /\ mapped = <<>>
    /\ g5kCalls = 0
    /\ slot = NotAsked
    /\ opened = {}
    /\ gate = Closed

\* test_slot, before any job.
AskSlot ==
    /\ g5kCalls = 0 /\ ~slot.asked
    /\ \E status \in Statuses, start \in 1..3, walltime \in 1..2 :
          slot' = [asked |-> TRUE, status |-> status, start |-> start, walltime |-> walltime,
                   ok |-> TestSlotG5k(g5kConf.machines, status, start, walltime)]
    /\ UNCHANGED <<g5kConf, oar, vlanOf, cardsUp, g5k, mapped, g5kCalls, opened, gate>>

\* reserve and wait: the jobs of an earlier call are loaded again; jobs given by
\* their ids are never submitted.
ReserveG5k ==
    /\ g5k.at \in {"out", "ready"} /\ gate.at \in {"closed", "failed"} /\ g5kCalls < MaxG5kCalls
    /\ oar' \in IF oar # NoJobs THEN {oar} ELSE IF g5kConf.static THEN {} ELSE Grants(g5kConf)
    /\ g5kCalls' = g5kCalls + 1
    /\ g5k' = [OutOfCall EXCEPT !.at = "reserved"]
    /\ slot' = NotAsked
    /\ UNCHANGED <<g5kConf, vlanOf, cardsUp, mapped, opened, gate>>

\* launch up to mirror_state: jobs list their nodes and networks in any order.
Concretize ==
    /\ g5k.at = "reserved"
    /\ \E names \in SetToSeqs(oar.nodes), nets \in SetToSeqs(oar.nets) :
          LET nodes == ConcreteNodes(g5kConf, names)
              networks == ConcreteNetworks(g5kConf, nets, oar.sites)
              hosts == Join(g5kConf, nodes.groups)
          IN  IF nodes.ok /\ networks.ok
              THEN /\ g5k' = [at |-> "mirror", hosts |-> hosts, nets |-> networks.nets,
                              moves |-> CardMoves(g5kConf, networks.nets, hosts), found |-> {}]
                   /\ mapped' = IF mapped = <<>> THEN <<[hosts |-> hosts, nets |-> networks.nets]>> ELSE mapped
              ELSE g5k' = OutOfCall /\ UNCHANGED mapped
    /\ UNCHANGED <<g5kConf, oar, vlanOf, cardsUp, g5kCalls, slot, opened, gate>>

\* Mutant of AfterMove: a card that could not be moved is only logged.
AfterMoveLogged(done) == [g5k EXCEPT !.moves = Tail(@)]

\* set_nodes_vlan raises if the API could not move the card.
AfterMove(done) == IF done THEN [g5k EXCEPT !.moves = Tail(@)] ELSE OutOfCall

\* mirror_state, a card at a time; production networks and subnets attach nothing.
MoveCard ==
    /\ g5k.at = "mirror" /\ g5k.moves # <<>>
    /\ LET move == Head(g5k.moves)
       IN  IF move.vlan = "missing" THEN g5k' = OutOfCall /\ UNCHANGED vlanOf
           ELSE IF move.vlan \in {"none", "DEFAULT"} THEN g5k' = AfterMove(TRUE) /\ UNCHANGED vlanOf
           ELSE \E done \in BOOLEAN :
                   /\ g5k' = AfterMove(done)
                   /\ vlanOf' = IF done THEN [vlanOf EXCEPT ![move.node][move.card] = move.vlan] ELSE vlanOf
    /\ UNCHANGED <<g5kConf, oar, cardsUp, mapped, g5kCalls, slot, opened, gate>>

PrimaryOf(h) == LookupNet(g5k.nets, g5kConf.machines[h.group].primary)

\* translate: names change in VLANs only.
AddressOf(h) == IF VlanId(PrimaryOf(h)) \in {"none", "DEFAULT"} THEN "plain" ELSE VlanId(PrimaryOf(h))

\* The hosts that are to be handed over.
WithHosts(step, found) == [at |-> step, hosts |-> g5k.hosts, nets |-> g5k.nets, moves |-> <<>>, found |-> found]

\* A deployment puts the mounted card in the primary VLAN; the hosts that are
\* deployed are handed over under the name they have there.
DeployG5k ==
    /\ g5k.at = "mirror" /\ g5k.moves = <<>> /\ g5kConf.deploy
    /\ \E D \in SUBSET ToSet(g5k.hosts) :
          /\ vlanOf' = [n \in G5kNodes |->
                 IF \E h \in D : h.node = n
                 THEN LET h == CHOOSE h \in D : h.node = n
                          vlan == VlanId(PrimaryOf(h))
                      IN  [vlanOf[n] EXCEPT ![0] = IF vlan = "none" THEN "DEFAULT" ELSE vlan]
                 ELSE vlanOf[n]]
          /\ g5k' = WithHosts("wait", {[node |-> h.node, group |-> h.group, address |-> AddressOf(h)] : h \in D})
    /\ UNCHANGED <<g5kConf, oar, cardsUp, mapped, g5kCalls, slot, opened, gate>>

\* wait_nodes raises if a host stays away; dhcp_networks brings the cards of the hosts
\* up, on all of them or, when it raises, on some.
WaitNodes ==
    /\ g5k.at = "wait"
    /\ \/ g5k' = OutOfCall
       \/ g5k' = [g5k EXCEPT !.at = IF g5kConf.dhcp THEN "dhcp" ELSE "ready"]
    /\ UNCHANGED <<g5kConf, oar, vlanOf, cardsUp, mapped, g5kCalls, slot, opened, gate>>

CardsFor(h) == {<<h.node, i>> : i \in DOMAIN g5kConf.machines[h.group].secondary}

RunDhcp ==
    /\ g5k.at = "dhcp"
    /\ \E up \in SUBSET g5k.found :
          /\ cardsUp' = cardsUp \cup UNION {CardsFor(h) : h \in up}
          /\ g5k' = IF up = g5k.found THEN [g5k EXCEPT !.at = "ready"] ELSE OutOfCall
    /\ UNCHANGED <<g5kConf, oar, vlanOf, mapped, g5kCalls, slot, opened, gate>>

\* Without a deployment all the hosts are handed over, under their own names.
GrantRootAccess ==
    /\ g5k.at = "mirror" /\ g5k.moves = <<>> /\ ~g5kConf.deploy
    /\ \/ g5k' = OutOfCall
       \/ g5k' = WithHosts("ready", {[node |-> h.node, group |-> h.group, address |-> "plain"] : h \in ToSet(g5k.hosts)})
    /\ UNCHANGED <<g5kConf, oar, vlanOf, cardsUp, mapped, g5kCalls, slot, opened, gate>>

\* The process is killed; an open gate stays open.
G5kKilled ==
    /\ g5k.at # "out"
    /\ g5k' = OutOfCall
    /\ gate' = IF gate = Closed THEN gate ELSE [at |-> "failed", jobs |-> {}]
    /\ UNCHANGED <<g5kConf, oar, vlanOf, cardsUp, mapped, g5kCalls, slot, opened>>

\* destroy, or the end of the jobs: cards go back, rules go away.
G5kJobsEnd ==
    /\ oar # NoJobs /\ g5k.at \in {"out", "ready"}
    /\ oar' = NoJobs /\ vlanOf' = Default /\ cardsUp' = {} /\ mapped' = <<>> /\ opened' = {}
    /\ g5k' = OutOfCall /\ gate' = Closed
    /\ UNCHANGED <<g5kConf, g5kCalls, slot>>

-----------------------------------------------------------------------------
(* with provider.firewall(hosts) *)

EnterFirewall ==
    /\ g5k.at = "ready" /\ gate.at \in {"closed", "failed"}
    /\ gate' = [at |-> "opening", jobs |-> oar.sites]
    /\ UNCHANGED <<g5kConf, oar, vlanOf, cardsUp, g5k, mapped, g5kCalls, slot, opened>>

\* fw_create, job by job, for all its nodes or those that bear the name of a host: one
\* that fails leaves the block before it is entered.
CreateRule ==
    /\ gate.at = "opening"
    /\ \E site \in gate.jobs, limit \in BOOLEAN, done \in BOOLEAN :
          LET assigned == {n \in oar.nodes : SiteOfNode(n) = site}
              named == {h.node : h \in {h \in g5k.found : h.address = "plain"}}
              left == gate.jobs \ {site}
          IN  IF done
              THEN /\ opened' = opened \cup {[site |-> site, nodes |-> IF limit THEN assigned \cap named
                                                                        ELSE assigned]}
                   /\ gate' = [at |-> IF left = {} THEN "open" ELSE "opening", jobs |-> left]
              ELSE gate' = [at |-> "failed", jobs |-> {}] /\ UNCHANGED opened
    /\ UNCHANGED <<g5kConf, oar, vlanOf, cardsUp, g5k, mapped, g5kCalls, slot>>

\* Mutant of ClosingJobs: rules go only if the block did not raise.
ClosingJobsUnlessRaised(raised) == IF raised THEN {} ELSE oar.sites

\* finally: fw_delete, for the jobs that are there.
ClosingJobs(raised) == oar.sites

LeaveFirewall ==
    /\ gate.at = "open"
    /\ \E raised \in BOOLEAN :
          gate' = IF ClosingJobs(raised) = {} THEN Closed
                  ELSE [at |-> "closing", jobs |-> ClosingJobs(raised)]
    /\ UNCHANGED <<g5kConf, oar, vlanOf, cardsUp, g5k, mapped, g5kCalls, slot, opened>>

\* job.firewall.delete(): all the rules of the job.
DeleteRules ==
    /\ gate.at = "closing"
    /\ \E site \in gate.jobs, done \in BOOLEAN :
          IF done
          THEN /\ opened' = {rule \in opened : rule.site # site}
               /\ gate' = IF gate.jobs = {site} THEN Closed ELSE [gate EXCEPT !.jobs = @ \ {site}]
          ELSE gate' = [at |-> "failed", jobs |-> {}] /\ UNCHANGED opened
    /\ UNCHANGED <<g5kConf, oar, vlanOf, cardsUp, g5k, mapped, g5kCalls, slot>>

G5kNext ==
    \/ AskSlot \/ ReserveG5k \/ Concretize \/ MoveCard \/ DeployG5k \/ WaitNodes \/ RunDhcp
    \/ GrantRootAccess \/ G5kKilled \/ G5kJobsEnd
    \/ EnterFirewall \/ CreateRule \/ LeaveFirewall \/ DeleteRules

G5kSpec == G5kInit /\ [][G5kNext]_g5kVars

-----------------------------------------------------------------------------
(* Properties *)

\* "The mapping between concrete resources and their corresponding roles is fixed
\* across runs" (G5kBase.init): whatever the order in which the jobs list what they
\* hold, and after any number of interrupted calls.
MappingFixed ==
    g5k.at \notin {"out", "reserved"} => mapped = <<[hosts |-> g5k.hosts, nets |-> g5k.nets]>>

\* What the groups get: nodes they may have, each node once, their minimum, no more
\* than they ask for, and all of it unless two lists of servers overlap, or the jobs were
\* made by hand, or a minimum is more than what is asked for.
GroupsAsAsked ==
    g5k.at \notin {"out", "reserved"} =>
        LET machines == g5kConf.machines
            share(i) == {h.node : h \in {h \in ToSet(g5k.hosts) : h.group = i}}
        IN  /\ Cardinality({h.node : h \in ToSet(g5k.hosts)}) = Len(g5k.hosts)
            /\ \A i \in DOMAIN machines :
                  /\ share(i) \subseteq Eligible(machines[i])
                  /\ Cardinality(share(i)) >= machines[i].min
                  /\ machines[i].min <= machines[i].nodes => Cardinality(share(i)) <= machines[i].nodes
            /\ \/ g5kConf.static
               \/ \E i \in DOMAIN machines : machines[i].min > machines[i].nodes
               \/ \E i, j \in DOMAIN machines :
                     i # j /\ ToSet(machines[i].servers) \cap ToSet(machines[j].servers) # {}
               \/ \A i \in DOMAIN machines : Cardinality(share(i)) = machines[i].nodes

\* Once init returns, every host that it hands over has its mounted card in the
\* VLAN of its primary network and bears its name there; its other cards are in the
\* VLANs of its secondary networks, in their order, and up if dhcp is wanted.
CardsAsAsked ==
    g5k.at = "ready" =>
        \A h \in g5k.found :
            LET wanted == Secondary(g5kConf, g5k.nets, h)
                primary == VlanId(PrimaryOf(h))
            IN  /\ primary \notin {"none", "DEFAULT"} => vlanOf[h.node][0] = primary
                /\ h.address = IF vlanOf[h.node][0] = "DEFAULT" THEN "plain" ELSE vlanOf[h.node][0]
                /\ \A i \in DOMAIN wanted :
                      /\ VlanId(wanted[i]) \notin {"none", "DEFAULT"} => vlanOf[h.node][i] = VlanId(wanted[i])
                      /\ g5kConf.deploy /\ g5kConf.dhcp => <<h.node, i>> \in cardsUp

\* test_slot says yes exactly when distinct nodes that are free for the whole job can
\* be given to the groups, if all reservations have dates, no server is listed twice and
\* no list of servers leaves a choice.
SlotTestExact ==
    slot.asked =>
        LET machines == g5kConf.machines
            free == {n \in G5kNodes : /\ slot.status[n].hard \notin {"dead", "suspected"}
                                      /\ \A i \in DOMAIN slot.status[n].reservations :
                                            LET r == slot.status[n].reservations[i]
                                            IN  \/ r.queue = "besteffort"
                                                \/ r.from + r.walltime <= slot.start
                                                \/ slot.start + slot.walltime <= r.from}
        IN  \/ \E n \in G5kNodes : \E i \in DOMAIN slot.status[n].reservations :
                  slot.status[n].reservations[i].from = Undated
            \/ \E i \in DOMAIN machines :
                  IsServers(machines[i]) /\ {machines[i].nodes, Cardinality(ToSet(machines[i].servers))}
                                               # {Len(machines[i].servers)}
            \/ \E i, j \in DOMAIN machines : i # j /\ ToSet(machines[i].servers) \cap ToSet(machines[j].servers) # {}
            \/ slot.ok <=> NodesFrom(free, machines) # {}

\* "Delete the firewall opening when exiting": outside of a block that could be opened
\* and closed no rule is left, even those of an earlier block that failed.
FirewallCloses == gate.at = "closed" => opened = {}

\* The four of them.
G5kReadyAsAsked == MappingFixed /\ GroupsAsAsked /\ CardsAsAsked /\ SlotTestExact
=============================================================================
