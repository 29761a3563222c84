------------------------------- MODULE Fabric -------------------------------
(***************************************************************************)
(* The FABRIC provider (enoslib/infra/enos_fabric/provider.py). A client   *)
(* finds its slice by name, or builds one: nodes, networks and network     *)
(* cards whose interfaces join the networks. The slice is submitted as a   *)
(* whole; then the client mounts the storage, has the addresses of the     *)
(* external networks made public, for which the slice is submitted again,  *)
(* and configures the interfaces one by one. A slice that is found is      *)
(* taken as it is. A storage volume belongs to the project: it outlives    *)
(* the slices that attach it.                                              *)
(***************************************************************************)
EXTENDS Naturals, FiniteSets, Sequences, SequencesExt, FiniteSetsExt

CONSTANTS
    FabConfs,       \* configurations: machines with their GPUs and storage, networks
    PortsOf,        \* PortsOf[model]: interfaces of a network card
    Permissions,    \* what the project may be allowed: sets of tags
    MaxSlices,      \* bound: slices submitted
    MaxFabCalls     \* bound: calls

ASSUME FabricAssumption ==
    /\ PortsOf \in [DOMAIN PortsOf -> Nat \ {0}] /\ {MaxSlices, MaxFabCalls} \subseteq Nat
    /\ \A conf \in FabConfs :
          /\ Len(conf.networks) \in Nat /\ DOMAIN conf.networks = 1..Len(conf.networks)
          /\ \A n \in DOMAIN conf.networks : conf.networks[n].model \in DOMAIN PortsOf
          /\ Len(conf.machines) \in Nat /\ DOMAIN conf.machines = 1..Len(conf.machines)
          /\ \A i \in DOMAIN conf.machines :
                LET storage == conf.machines[i].storage
                IN  /\ conf.machines[i].number \in Nat
                    /\ Len(storage) \in Nat /\ DOMAIN storage = 1..Len(storage)
                    \* a volume is not called as a kind of drive: it is a mark
                    /\ \A k \in DOMAIN storage : storage[k].kind = "volume" => storage[k].name # "nvme"
                    /\ \A k \in DOMAIN storage : storage[k].kind \in {"nvme", "volume"}

VARIABLES
    fabConf,
    allowed,      \* the permissions of the project
    slices,       \* the slices of that name, in the order they were submitted
    formats,      \* formats[v]: how many times the storage volume v was formatted
    fab,          \* the client: its next step, and what its provider object holds
    uncertain,    \* history: a request about slices failed or was answered wrongly
    unfinished,   \* history: slices whose init failed or was killed after the submission
    fabCalls

fabVars == <<fabConf, allowed, slices, formats, fab, uncertain, unfinished, fabCalls>>

NewFabric == [at |-> "idle", call |-> "init", forced |-> FALSE, slice |-> 0, known |-> {}, todo |-> {}]

FabMachines == DOMAIN fabConf.machines
NetworksOf == DOMAIN fabConf.networks
Net(n) == fabConf.networks[n]

\* itermachines: the nodes, named by the machine and their number in it.
NodesOf == UNION {{i} \X (1..fabConf.machines[i].number) : i \in FabMachines}
NodeSite(node) == fabConf.machines[node[1]].site
StorageOf(node) == fabConf.machines[node[1]].storage

\* The items of storage are NVMe drives and volumes; one is mounted where a
\* mount point is given or automatic mounting is asked for.
Volumes(conf) ==
    UNION {{item.name : item \in {item \in ToSet(conf.machines[i].storage) : item.kind = "volume"}} : i \in DOMAIN conf.machines}

FabTypeOK ==
    /\ fabConf \in FabConfs /\ allowed \in Permissions
    /\ \A s \in DOMAIN slices :
          /\ slices[s].status \in {"configuring", "ok", "error", "deleted"}
          /\ slices[s].nodes \subseteq NodesOf
          /\ \A f \in slices[s].ifaces : f.net \in NetworksOf /\ f.address \in Nat
          /\ \A c \in slices[s].components : c.node \in NodesOf
          /\ \A m \in slices[s].mounts : m.node \in NodesOf
    /\ formats \in [Volumes(fabConf) -> 0..MaxSlices]
    /\ fab.known \subseteq NodesOf /\ fab.slice \in 0..Len(slices)
    /\ unfinished \subseteq DOMAIN slices
    /\ fabCalls \in 0..MaxFabCalls

FabInit ==
    /\ fabConf \in FabConfs /\ allowed \in Permissions
    /\ slices = <<>>
    /\ formats = [v \in Volumes(fabConf) |-> 0]
    /\ fab = NewFabric
    /\ uncertain = FALSE /\ unfinished = {}
    /\ fabCalls = 0

FabGo(at) == fab' = [fab EXCEPT !.at = at]
Existing == {s \in DOMAIN slices : slices[s].status # "deleted"}

-----------------------------------------------------------------------------
(* What is asked for *)

\* check: sites and names that are wrong, permissions that are missing, a volume
\* for several machines.
Checks ==
    LET sites == {NodeSite(node) : node \in NodesOf} IN
    /\ \A i \in FabMachines :
          LET machine == fabConf.machines[i]
              kinds == {item.kind : item \in ToSet(machine.storage)}
          IN  /\ kinds \subseteq allowed /\ (machine.gpus # <<>> => "gpu" \in allowed)
              /\ "volume" \in kinds => machine.number = 1
    /\ Cardinality(sites) > 1 => "multisite" \in allowed
    /\ \A m, n \in NetworksOf : Net(m).name = Net(n).name => m = n
    /\ \A n \in NetworksOf : Net(n).sites \subseteq sites /\ (Net(n).ext => "ext" \in allowed)

\* iternetworks: the networks of a site; one that was given a name is of all.
NetworksAt(site) == {n \in NetworksOf : Net(n).named \/ site \in Net(n).sites}

\* add_interfaces_to_network: on a node, the networks of one kind of card take the ports
\* of a card, from the last one, and then those of a new card.
Rank(node, n) == Cardinality({m \in NetworksAt(NodeSite(node)) : m < n /\ Net(m).model = Net(n).model})
CardOf(node, n) == <<Net(n).model, Rank(node, n) \div PortsOf[Net(n).model]>>
PortOf(node, n) == PortsOf[Net(n).model] - (Rank(node, n) % PortsOf[Net(n).model])

Joined(nodes) ==
    UNION {{[node |-> node, card |-> CardOf(node, n), port |-> PortOf(node, n), net |-> n, address |-> 0] :
               n \in NetworksAt(NodeSite(node))} : node \in nodes}

\* _add_gpus, _add_nvme: named by the model and a number, from 0 for each model.
NvmeBefore(node, k) == {l \in 1..(k - 1) : StorageOf(node)[l].kind = "nvme"}
ComponentsOf(node) ==
    LET gpus == fabConf.machines[node[1]].gpus
    IN  {[node |-> node, model |-> gpus[k], number |-> Cardinality({l \in 1..(k - 1) : gpus[l] = gpus[k]})] :
            k \in DOMAIN gpus}
        \cup {[node |-> node, model |-> "nvme", number |-> Cardinality(NvmeBefore(node, k))] :
                 k \in {k \in DOMAIN StorageOf(node) : StorageOf(node)[k].kind = "nvme"}}

\* _add_nas: the volumes are attached, by name, mounted or not.
AttachedTo(node) ==
    {[node |-> node, model |-> item.name, number |-> 0] :
        item \in {item \in ToSet(StorageOf(node)) : item.kind = "volume"}}

HasPublic == \E n \in NetworksOf : Net(n).ext

-----------------------------------------------------------------------------
(* init *)

BeginFab(call, forced) ==
    /\ fab.at \in {"idle", "ready", "raised", "destroyed"} /\ fabCalls < MaxFabCalls
    /\ forced => call = "init"
    /\ fab' = [fab EXCEPT !.at = IF call = "init" THEN "check" ELSE "delete", !.call = call,
                          !.forced = forced, !.todo = {}]
    /\ fabCalls' = fabCalls + 1
    /\ UNCHANGED <<fabConf, allowed, slices, formats, uncertain, unfinished>>

Check ==
    /\ fab.at = "check"
    /\ FabGo(IF Checks THEN "find" ELSE "raised")
    /\ UNCHANGED <<fabConf, allowed, slices, formats, uncertain, unfinished, fabCalls>>

\* Mutant of Replaced: the slice is not deleted.
Kept(s) == slices

Replaced(s) == [slices EXCEPT ![s].status = "deleted"]

\* create_slice: a slice of that name is refreshed and taken, or, if forced,
\* deleted; what the object knew of its nodes is then kept.
FindSlice ==
    /\ fab.at = "find"
    /\ IF Existing = {} THEN FabGo("build") /\ UNCHANGED slices
       ELSE LET s == Max(Existing) IN
            IF fab.forced THEN slices' = Replaced(s) /\ FabGo("build")
            ELSE /\ fab' = [fab EXCEPT !.at = "roles", !.slice = s, !.known = slices[s].nodes]
                 /\ UNCHANGED slices
    /\ UNCHANGED <<fabConf, allowed, formats, uncertain, unfinished, fabCalls>>

\* Whatever goes wrong is taken for the absence of a slice.
FindFails ==
    /\ fab.at = "find" /\ Existing # {}
    /\ FabGo("build")
    /\ uncertain' = TRUE
    /\ UNCHANGED <<fabConf, allowed, slices, formats, unfinished, fabCalls>>

\* create_nodes adds those that the object does not know; then networks, cards
\* and interfaces, and submit, which may be refused, fail in the testbed, or be
\* accepted without an answer.
SubmitSlice ==
    /\ fab.at = "build"
    /\ LET added == NodesOf \ fab.known
           slice == [status |-> "configuring", nodes |-> added,
                     ifaces |-> {f \in Joined(NodesOf) : f.node \in added},
                     components |-> UNION {ComponentsOf(node) \cup AttachedTo(node) : node \in added},
                     mounts |-> {}]
       IN  \/ /\ fab' = [fab EXCEPT !.at = "raised", !.known = NodesOf]
              /\ UNCHANGED <<slices, uncertain, unfinished>>
           \/ /\ Len(slices) < MaxSlices
              /\ slices' = Append(slices, slice)
              /\ \/ /\ fab' = [fab EXCEPT !.at = "submitted", !.slice = Len(slices'), !.known = NodesOf]
                    /\ UNCHANGED <<uncertain, unfinished>>
                 \/ /\ fab' = [fab EXCEPT !.at = "raised", !.known = NodesOf]
                    /\ uncertain' = TRUE /\ unfinished' = unfinished \cup {Len(slices')}
    /\ UNCHANGED <<fabConf, allowed, formats, fabCalls>>

\* submit waits for the slice; refresh.
SliceSettled ==
    /\ fab.at \in {"submitted", "resubmitted"} /\ slices[fab.slice].status # "configuring"
    /\ IF slices[fab.slice].status = "ok"
       THEN /\ fab' = [fab EXCEPT !.at = IF fab.at = "submitted" THEN "storage" ELSE "configure",
                                  !.known = slices[fab.slice].nodes, !.todo = NetworksOf]
            /\ UNCHANGED unfinished
       ELSE FabGo("raised") /\ unfinished' = unfinished \cup {fab.slice}
    /\ UNCHANGED <<fabConf, allowed, slices, formats, uncertain, fabCalls>>

\* What configure_storage goes through: the items to mount, node by node.
ToMount ==
    {place \in UNION {{node} \X DOMAIN StorageOf(node) : node \in NodesOf} :
        StorageOf(place[1])[place[2]].mounted}

Before(p, q) ==
    \/ p[1][1] < q[1][1]
    \/ p[1][1] = q[1][1] /\ p[1][2] < q[1][2]
    \/ p[1] = q[1] /\ p[2] < q[2]

\* A drive is found by the number of those mounted before it, a volume by its name.
Mount(place) ==
    LET items == StorageOf(place[1])
        item == items[place[2]]
        before == {k \in NvmeBefore(place[1], place[2]) : items[k].mounted}
    IN  [node |-> place[1], point |-> item.name,
         model |-> IF item.kind = "nvme" THEN "nvme" ELSE item.name,
         number |-> IF item.kind = "nvme" THEN Cardinality(before) ELSE 0]

\* Mutant of Formatted: blkid is not run before mkfs.
FormattedAnew(volumes) == [v \in DOMAIN formats |-> IF v \in volumes THEN formats[v] + 1 ELSE formats[v]]

\* A volume that has no file system, says blkid, is given one.
Formatted(volumes) == [v \in DOMAIN formats |-> IF v \in volumes /\ formats[v] = 0 THEN 1 ELSE formats[v]]

\* configure_storage: a command that cannot be run ends the call, that mounts a
\* volume as well as the one before it that formats.
ConfigureStorage ==
    /\ fab.at = "storage" /\ (slices[fab.slice].status = "deleted" => ToMount = {})
    /\ \/ /\ slices' = [slices EXCEPT ![fab.slice].mounts = {Mount(place) : place \in ToMount}]
          /\ formats' = Formatted({Mount(place).model : place \in ToMount})
          /\ FabGo(IF HasPublic THEN "publish" ELSE "configure") /\ UNCHANGED unfinished
       \/ \E failed \in ToMount :
             LET done == {place \in ToMount : Before(place, failed)}
             IN  /\ slices' = [slices EXCEPT ![fab.slice].mounts = {Mount(place) : place \in done}]
                 /\ \E reached \in {done, done \cup {failed}} :
                       formats' = Formatted({Mount(place).model : place \in reached})
                 /\ FabGo("raised") /\ unfinished' = unfinished \cup {fab.slice}
    /\ UNCHANGED <<fabConf, allowed, uncertain, fabCalls>>

\* assign_public_ip, and the second submit; either may be refused. (The addresses
\* are marked on the networks of a slice that is got again by its name; the slice
\* that is submitted is the one of the provider.)
PublishAddresses ==
    /\ fab.at = "publish"
    /\ \/ /\ slices[fab.slice].status = "ok"
          /\ slices' = [slices EXCEPT ![fab.slice].status = "configuring"]
          /\ FabGo("resubmitted") /\ UNCHANGED unfinished
       \/ FabGo("raised") /\ unfinished' = unfinished \cup {fab.slice} /\ UNCHANGED slices
    /\ UNCHANGED <<fabConf, allowed, formats, uncertain, fabCalls>>

\* Mutant of FirstAddress: that of the gateway is not skipped.
GatewayAddress(n) == 1

\* The first address given on a network: on an L3 network, 1 is the gateway.
FirstAddress(n) == IF Net(n).l3 THEN 2 ELSE 1

\* configure_network_interfaces: the interfaces of one network, in some order,
\* each given the next address; a command that fails ends the call.
ConfigureNetwork(n) ==
    /\ fab.at = "configure" /\ n \in fab.todo
    /\ slices[fab.slice].status # "deleted"
    /\ LET members == {f \in slices[fab.slice].ifaces : f.net = n}
           order == SetToSeq(members)
           given(upto) == [k \in 1..upto |-> [order[k] EXCEPT !.address = FirstAddress(n) + k - 1]]
       IN  \E upto \in 0..Len(order) :
             /\ slices' = [slices EXCEPT ![fab.slice].ifaces =
                              (@ \ {order[k] : k \in 1..upto}) \cup ToSet(given(upto))]
             /\ IF upto = Len(order)
                THEN fab' = [fab EXCEPT !.todo = @ \ {n}] /\ UNCHANGED unfinished
                ELSE FabGo("raised") /\ unfinished' = unfinished \cup {fab.slice}
    /\ UNCHANGED <<fabConf, allowed, formats, uncertain, fabCalls>>

\* The slice was deleted, or expired, before all of it was configured.
SliceGone ==
    /\ \/ fab.at = "storage" /\ ToMount # {}
       \/ fab.at = "configure" /\ fab.todo # {}
    /\ slices[fab.slice].status = "deleted"
    /\ FabGo("raised") /\ unfinished' = unfinished \cup {fab.slice}
    /\ UNCHANGED <<fabConf, allowed, slices, formats, uncertain, fabCalls>>

Configured ==
    /\ fab.at = "configure" /\ fab.todo = {}
    /\ FabGo("roles")
    /\ UNCHANGED <<fabConf, allowed, slices, formats, uncertain, unfinished, fabCalls>>

\* create_roles, create_networks: a node that is not known raises.
Roles ==
    /\ fab.at = "roles"
    /\ FabGo(IF NodesOf \subseteq fab.known THEN "ready" ELSE "raised")
    /\ UNCHANGED <<fabConf, allowed, slices, formats, uncertain, unfinished, fabCalls>>

\* destroy: by the name; it raises when there is none.
DeleteSlice ==
    /\ fab.at = "delete"
    /\ IF Existing = {} THEN FabGo("raised") /\ UNCHANGED slices
       ELSE slices' = [slices EXCEPT ![Max(Existing)].status = "deleted"] /\ FabGo("destroyed")
    /\ UNCHANGED <<fabConf, allowed, formats, uncertain, unfinished, fabCalls>>

-----------------------------------------------------------------------------
(* The testbed, and a client that is killed or pickles its provider *)

SliceMoves(s) ==
    /\ \/ slices[s].status = "configuring" /\ \E to \in {"ok", "error"} : slices' = [slices EXCEPT ![s].status = to]
       \/ slices[s].status = "ok" /\ slices' = Replaced(s)
    /\ UNCHANGED <<fabConf, allowed, formats, fab, uncertain, unfinished, fabCalls>>

FabKilled ==
    /\ fab # NewFabric
    /\ unfinished' = IF fab.at \in {"submitted", "storage", "publish", "resubmitted", "configure"}
                     THEN unfinished \cup {fab.slice} ELSE unfinished
    /\ fab' = NewFabric
    /\ UNCHANGED <<fabConf, allowed, slices, formats, uncertain, fabCalls>>

FabNext ==
    \/ \E call \in {"init", "destroy"}, forced \in BOOLEAN : BeginFab(call, forced)
    \/ Check \/ FindSlice \/ FindFails \/ SubmitSlice \/ SliceSettled \/ ConfigureStorage
    \/ PublishAddresses \/ SliceGone \/ Configured \/ Roles
    \/ DeleteSlice \/ FabKilled
    \/ \E n \in NetworksOf : ConfigureNetwork(n)
    \/ \E s \in DOMAIN slices : SliceMoves(s)

FabSpec == FabInit /\ [][FabNext]_fabVars

-----------------------------------------------------------------------------
(* Properties *)

\* What init returns, created or found, is a slice with all the nodes, each with
\* one interface, of a port that serves nothing else, on every network of its
\* site, and with addresses that differ from each other and from the gateway's;
\* with all the storage to mount on a drive or a volume that the node has, each
\* one for itself; unless the init that submitted it was killed or failed, for a
\* slice that is found is not configured again. Whatever fails, a volume is formatted at most once: what
\* is written on it is there for the next slices.
FabricReadyAsAsked ==
    /\ \A v \in DOMAIN formats : formats[v] <= 1
    /\ fab.at = "ready" /\ slices[fab.slice].status = "ok" /\ fab.slice \notin unfinished =>
       LET slice == slices[fab.slice] IN
       /\ slice.nodes = NodesOf
       /\ \A node \in NodesOf : \A n \in NetworksAt(NodeSite(node)) :
             Cardinality({f \in slice.ifaces : f.node = node /\ f.net = n}) = 1
       /\ \A f, g \in slice.ifaces :
             (f.node = g.node /\ f.card = g.card /\ f.port = g.port) \/ (f.net = g.net /\ f.address = g.address)
             => f = g
       /\ \A node \in NodesOf : \A item \in ToSet(StorageOf(node)) : item.mounted =>
             \E m \in slice.mounts : m.node = node /\ m.point = item.name
       /\ \A m \in slice.mounts : [node |-> m.node, model |-> m.model, number |-> m.number] \in slice.components
       /\ \A m, o \in slice.mounts :
             m.node = o.node /\ m.model = o.model /\ m.number = o.number => m = o
       /\ \A f \in slice.ifaces : f.address >= (IF Net(f.net).l3 THEN 2 ELSE 1)

\* A destroy that returns leaves no slice of that name, however many were made
\* by forced calls, as long as no request about slices failed.
FabricReleased == fab.at = "destroyed" /\ ~uncertain => Existing = {}
=============================================================================
