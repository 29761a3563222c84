------------------------------ MODULE MCParts ------------------------------
(* The services of enoslib/service, the helpers that collect data or find    *)
(* containers, and the testbeds that have a provider of their own. They share *)
(* no state: in a behaviour one of them moves, and the others stay in one of  *)
(* their initial states.                                                      *)
EXTENDS Emulation, MCPlanning, Services, Iotlab, VMonG5k, Chameleon, Fabric, G5kResources, Distem,
        IotlabStreams, Kwollect, Vagrant, DockerHosts, Addresses

CONSTANTS eth0, eth1

VARIABLE part  \* the component that moves

Parts == {"emulation", "registry", "planning", "services", "iotlab", "vmong5k", "chameleon", "fabric", "g5k", "distem",
          "streams", "kwollect", "vagrant", "dockers", "addresses"}

-----------------------------------------------------------------------------
\* A device on each of two networks, or two networks on one device.
MCFacts == {[d \in Devices |-> IF d = eth0 THEN {"n1"} ELSE {"n2"}],
            [d \in Devices |-> IF d = eth0 THEN {"n1", "n2"} ELSE {}]}
MCShapes == {[src |-> {"a"}, dest |-> {"b"}, networks |-> {}, symmetric |-> TRUE],
             [src |-> {"a", "b"}, dest |-> {"a", "b"}, networks |-> {"n2"}, symmetric |-> FALSE]}

\* Pairs of instances that share a machine or more.
Service(class, hosts, ifnames, byNetwork, options) ==
    [class |-> class, hosts |-> hosts, ifnames |-> ifnames, byNetwork |-> byNetwork, options |-> options]
Two(first, second) == [i \in Instances |-> IF i = "i1" THEN first ELSE second]
MCScenarios ==
    {Two(Service("dstat", {"ma", "mb"}, <<>>, <<>>, "none"), Service("dstat", {"ma"}, <<>>, <<>>, "none")),
     Two(Service("tcpdump", {"ma"}, <<"eth1", "eth2">>, <<>>, "none"),
         Service("tcpdump", {"ma"}, <<"eth10">>, <<>>, "none")),
     Two(Service("tcpdump", {"ma"}, <<"eth1">>, <<"eth2">>, "none"),
         Service("tcpdump", {"ma"}, <<>>, <<"eth2">>, "none")),
     Two(Service("tig", {"ma"}, <<>>, <<>>, "given"), Service("tpg", {"ma"}, <<>>, <<>>, "none")),
     Two(Service("locust", {"ma"}, <<>>, <<>>, "none"), Service("docker", {"ma"}, <<>>, <<>>, "given")),
     Two(Service("skydive", {"ma"}, <<>>, <<>>, "given"), Service("dask", {"ma"}, <<>>, <<>>, "none"))}
MCWithin == {<<"eth1", "eth10">>}

\* Two sensors and a host; groups of boards, or boards by name with a profile
\* that is empty; boards that are dead or used by others before and after.
MCBoards == {"m1", "m2", "a1"}
MCSiteOf == [b \in MCBoards |-> "lille"]
MCArchiOf == [b \in MCBoards |-> IF b = "a1" THEN "a8" ELSE "m3"]
BoardsOf(archi, image) == [site |-> "lille", archi |-> archi, number |-> 1, image |-> image]
MCIotConfs ==
    {[sort |-> "board", machines |-> <<BoardsOf("m3", "none"), BoardsOf("m3", "given"), BoardsOf("a8", "none")>>,
      profiles |-> {"p"}, empty |-> {}],
     [sort |-> "phys", machines |-> <<[hostname |-> <<"m1", "m2">>, image |-> "given"]>>,
      profiles |-> {"p", "q"}, empty |-> {"q"}]}
Other(node, from, to) == [nodes |-> {node}, from |-> from, to |-> to]
MCWorlds ==
    {[dead |-> {}, others |-> {}],
     [dead |-> {"a1"}, others |-> {Other("m1", 1, 3)}],
     [dead |-> {}, others |-> {Other("m1", 1, 2), Other("a1", 3, 4)}]}

\* Groups that are bounded by memory, by cores, by their number of machines; that
\* share the addresses of a site, or not.
Vms(number, core, mem, pmCore, pmMem) ==
    [site |-> "rennes", number |-> number, core |-> core, mem |-> mem, pmCore |-> pmCore, pmMem |-> pmMem]
MCVmConfs ==
    {<<Vms(3, 1, 372, 4, 1000)>>,
     <<Vms(2, 2, 200, 2, 1000), Vms(1, 1, 500, 8, 2000)>>,
     <<Vms(3, 1, 100, 8, 1000), Vms(2, 1, 100, 8, 1000)>>,
     <<Vms(2, 1, 100, 8, 1000), [Vms(3, 2, 100, 4, 1000) EXCEPT !.site = "nancy"]>>}
MCSubnetsOf ==
    [s \in {"rennes", "nancy"} |->
        IF s = "nancy" THEN <<<<30, 31, 32, 33>>>> ELSE <<<<10, 11, 12>>, <<20, 21, 22>>>>]

\* Flavours that follow each other in the configuration, or not.
Lot(flavour, number) == [flavour |-> flavour, number |-> number]
MCChConfs ==
    {[kind |-> "edge", machines |-> <<Lot("jetson", 1), Lot("pi", 1)>>, ports |-> 0],
     [kind |-> "metal", ports |-> 1,
      machines |-> <<Lot("haswell", 1), Lot("haswell", 1), Lot("skylake", 1)>>],
     [kind |-> "metal", ports |-> 0,
      machines |-> <<Lot("haswell", 1), Lot("skylake", 1), Lot("haswell", 2)>>]}

\* Two nodes of a site with a card for each network, two sites and a card with
\* an interface to spare, or a node with drives, a volume and a GPU.
Network(name, sites, l3, ext, model) ==
    [name |-> name, named |-> FALSE, sites |-> sites, l3 |-> l3, ext |-> ext, model |-> model]
FabMachine(site, number) == [site |-> site, number |-> number, gpus |-> <<>>, storage |-> <<>>]
FabItem(kind, name, mounted) == [kind |-> kind, name |-> name, mounted |-> mounted]
MCFabConfs ==
    {[machines |-> <<FabMachine("UCSD", 2)>>,
      networks |-> <<Network("v4", {"UCSD"}, TRUE, FALSE, "basic"), Network("bridge", {"UCSD"}, FALSE, FALSE, "basic")>>],
     [machines |-> <<FabMachine("UCSD", 1), FabMachine("MAX", 1)>>,
      networks |-> <<Network("sts", {"UCSD", "MAX"}, FALSE, FALSE, "smart"),
                     Network("public", {"UCSD"}, TRUE, TRUE, "smart")>>],
     [machines |-> <<[FabMachine("UCSD", 1) EXCEPT
                        !.gpus = <<"a30", "a30">>,
                        !.storage = <<FabItem("nvme", "none", FALSE), FabItem("nvme", "/fast", TRUE),
                                      FabItem("volume", "data", TRUE), FabItem("nvme", "/scratch", TRUE)>>]>>,
      networks |-> <<>>]}
MCPortsOf == [m \in {"basic", "smart"} |-> IF m = "basic" THEN 1 ELSE 2]

\* Nodes of two clusters: a list of servers that leaves a choice, a configuration in a
\* dictionary, groups that share a cluster and sites, jobs made by hand that hold less
\* than what is asked for, two lists of servers that overlap.
Lot5k(cluster, nodes, min, primary, secondary) ==
    [servers |-> <<>>, cluster |-> cluster, nodes |-> nodes, min |-> min, primary |-> primary, secondary |-> secondary]
Listed5k(servers, nodes, primary, secondary) ==
    [servers |-> servers, cluster |-> "par", nodes |-> nodes, min |-> 0, primary |-> primary, secondary |-> secondary]
Net5k(id, site, type) == [id |-> id, site |-> site, type |-> type]
Conf5k(machines, networks) ==
    [machines |-> machines, networks |-> networks, deploy |-> FALSE, env |-> FALSE, dhcp |-> TRUE,
     dictionary |-> FALSE, static |-> FALSE]
MCG5kConfs ==
    {Conf5k(<<Listed5k(<<"p2", "p1">>, 1, "none", <<>>), Lot5k("par", 1, 1, "v", <<"w">>)>>,
            <<Net5k("v", "rennes", "kavlan"), Net5k("w", "rennes", "kavlan")>>),
     [Conf5k(<<Lot5k("par", 2, 1, "none", <<"s", "w">>)>>,
             <<Net5k("w", "rennes", "kavlan-local"), Net5k("s", "rennes", "slash_22")>>)
      EXCEPT !.dictionary = TRUE, !.env = TRUE, !.dhcp = FALSE],
     Conf5k(<<Lot5k("par", 2, 0, "none", <<>>), Lot5k("par", 1, 1, "none", <<>>), Lot5k("gri", 1, 1, "none", <<>>)>>,
            <<Net5k("b", "rennes", "slash_16"), Net5k("p", "rennes", "prod")>>),
     [Conf5k(<<Lot5k("gri", 1, 0, "v", <<"w", "x">>), Lot5k("par", 2, 1, "v", <<"w", "x">>)>>,
            <<Net5k("v", "rennes", "prod"), Net5k("w", "rennes", "kavlan"), Net5k("x", "rennes", "kavlan")>>)
      EXCEPT !.static = TRUE],
     Conf5k(<<Listed5k(<<"p1", "p2">>, 1, "none", <<>>), Listed5k(<<"p1", "p3">>, 2, "none", <<>>)>>, <<>>)}
MCSiteOfCluster == [c \in {"par", "gri"} |-> IF c = "par" THEN "rennes" ELSE "nancy"]
MCClusterOf == [n \in {"g1", "p1", "p2", "p3"} |-> IF n = "g1" THEN "gri" ELSE "par"]
MCCardsOf == [c \in {"par", "gri"} |-> IF c = "par" THEN 2 ELSE 1]
MCNatureOf == [d \in {"1", "4", "5", "n1", "n2", "n3"} |->
    IF d = "1" THEN "kavlan-local" ELSE IF d \in {"4", "5"} THEN "kavlan" ELSE "slash_22"]
MCHandMade ==
    {[nodes |-> {"p1", "p3"}, nets |-> {<<"4", "rennes">>, <<"5", "rennes">>}, sites |-> {"rennes"}],
     [nodes |-> {"p2", "g1"}, nets |-> {<<"4", "rennes">>, <<"5", "rennes">>}, sites |-> {"rennes", "nancy"}],
     [nodes |-> {"g1"}, nets |-> {<<"4", "rennes">>}, sites |-> {"nancy", "rennes"}]}
Booked(queue, from, walltime) == [queue |-> queue, from |-> from, walltime |-> walltime]
MCStatuses ==
    {[n \in {"g1", "p1", "p2", "p3"} |->
        [hard |-> IF n = dead THEN "dead" ELSE "alive",
         reservations |-> IF n = busy THEN <<Booked("besteffort", 1, 9), Booked("default", from, 2)>> ELSE <<>>]] :
     dead \in {"none", "p1", "p3"}, busy \in {"p2", "p3", "g1"}, from \in {Undated, 0, 2}}
MCNodesByName == <<"g1", "p1", "p2", "p3">>
MCNetsByName == <<"1", "4", "5", "n1", "n2", "n3">>

\* A group that divides its machines, and two groups.
Crates(number, vcores, cores) == [number |-> number, vcores |-> vcores, cores |-> cores]
MCDistemConfs == {<<Crates(3, 1, 2)>>, <<Crates(2, 2, 2), Crates(1, 1, 4)>>}

\* Sensors whose numbers share a prefix, or the same sensor twice or with two tools.
Stream(sensor, tool, timeout) == [sensor |-> sensor, tool |-> tool, timeout |-> timeout]
MCStreamUses ==
    {<<Stream(<<1>>, "serial", FALSE), Stream(<<1, 1>>, "serial", FALSE)>>,
     <<Stream(<<1>>, "serial", FALSE), Stream(<<1>>, "sniffer", TRUE)>>,
     <<Stream(<<1>>, "serial", FALSE), Stream(<<1>>, "serial", FALSE)>>,
     <<Stream(<<1>>, "serial", FALSE), Stream(<<1, 1>>, "socket", FALSE)>>,
     <<Stream(<<1>>, "sniffer", FALSE), Stream(<<1, 1>>, "sniffer", TRUE)>>}

\* Two nodes of a cluster, one that has a metric for itself or is silent; a node elsewhere.
Metric(name, protocol, ids, onlyFor) == [name |-> name, protocol |-> protocol, ids |-> ids, onlyFor |-> onlyFor]
MCKwMetrics ==
    [c \in {"par", "gri"} |->
        IF c = "par" THEN {Metric("power", "wattmetre", {}, {"p1"}), Metric("load", "snmp", {}, {})}
        ELSE {Metric("prom", "prometheus", {"load1"}, {})}]

\* A group with the default names and one with its own; groups with the same prefix.
Boxes(prefix, number) == [prefix |-> prefix, number |-> number]
MCVgConfs ==
    {[groups |-> <<Boxes(<<>>, 2), Boxes(<<"db">>, 1)>>, pools |-> <<<<11, 12, 13>>, <<21, 22, 23, 24>>>>],
     [groups |-> <<Boxes(<<>>, 1)>>, pools |-> <<<<11, 12, 13>>>>],
     [groups |-> <<Boxes(<<"db">>, 2), Boxes(<<"db">>, 2)>>, pools |-> <<<<11, 12, 13, 14>>>>],
     [groups |-> <<Boxes(<<>>, 2), Boxes(<<>>, 2)>>, pools |-> <<<<11, 12, 13>>>>]}

\* A global VLAN, a local one, two subnets of a resource and a network given by its bounds.
Resource(kind, first, last) == [kind |-> kind, first |-> first, last |-> last]
MCAddrConfs ==
    {<<Resource("vlan", 100, 131), Resource("default", 200, 203)>>,
     <<Resource("local", 300, 315), [kind |-> "subnet", first |-> 400, last |-> 407,
                                     parts |-> <<<<400, 403>>, <<404, 407>>>>]>>}

MCEngineAddress == [e \in {"ea", "eb"} |-> e]

-----------------------------------------------------------------------------
vars == <<part, emulVars, allVars, servVars, iotVars, vmVars, chVars, fabVars, g5kVars, disVars, strVars, kwVars, vgVars, dkVars, addrVars>>

Some(S) == CHOOSE x \in S : TRUE

Init ==
    /\ part \in Parts
    /\ EmulInit /\ (part # "emulation" => service = "netem" /\ facts = [h \in Nodes |-> Some(FactsOf)])
    /\ PlanInit /\ (part \notin {"registry", "planning"} => renamed = {})
                /\ (part # "planning" => events = Some(Plans))
    /\ ServInit /\ (part # "services" => inst = Some(Scenarios))
    /\ IotInit /\ (part # "iotlab" => iotConf = Some(IotConfs) /\ world = Some(Worlds) /\ profiles = {})
    /\ VmInit /\ (part # "vmong5k" => vmConf = Some(VmConfs))
    /\ ChInit /\ (part # "chameleon" => chConf = Some(ChConfs))
    /\ FabInit /\ (part # "fabric" => fabConf = Some(FabConfs) /\ allowed = Some(Permissions))
    /\ G5kInit /\ (part # "g5k" => g5kConf = Finalized(Some({c \in G5kConfs : ~c.static})))
    /\ DistemInit /\ (part # "distem" => disConf = Some(DistemConfs))
    /\ StreamsInit /\ (part # "streams" => purpose = Some(StreamUses))
    /\ KwInit /\ (part # "kwollect" => kwNodes = Some(KwServices) /\ silent = Some(KwSilences))
    /\ VgInit
    /\ AddrInit /\ (part # "addresses" => addrConf = Some(AddrConfs))
    /\ DkInit /\ (part # "dockers" => running = [e \in Engines |-> {}])

testbedVars == <<iotVars, vmVars, chVars, fabVars, g5kVars, disVars, vgVars>>
machineVars == <<emulVars, allVars, servVars, strVars, kwVars, dkVars, addrVars>>

Next ==
    /\ UNCHANGED part
    /\ \/ /\ part = "emulation" /\ EmulNext
          /\ UNCHANGED <<allVars, servVars, strVars, kwVars, dkVars, addrVars, testbedVars>>
       \/ /\ part = "registry" /\ RegNext
          /\ UNCHANGED <<planVars, emulVars, servVars, strVars, kwVars, dkVars, addrVars, testbedVars>>
       \/ /\ part = "planning" /\ PlanNext
          /\ UNCHANGED <<emulVars, servVars, strVars, kwVars, dkVars, addrVars, testbedVars>>
       \/ /\ part = "services" /\ ServNext
          /\ UNCHANGED <<emulVars, allVars, strVars, kwVars, dkVars, addrVars, testbedVars>>
       \/ /\ part = "iotlab" /\ IotNext
          /\ UNCHANGED <<machineVars, vmVars, chVars, fabVars, g5kVars, disVars, vgVars>>
       \/ /\ part = "vmong5k" /\ VmNext
          /\ UNCHANGED <<machineVars, iotVars, chVars, fabVars, g5kVars, disVars, vgVars>>
       \/ /\ part = "chameleon" /\ ChNext
          /\ UNCHANGED <<machineVars, iotVars, vmVars, fabVars, g5kVars, disVars, vgVars>>
       \/ /\ part = "fabric" /\ FabNext
          /\ UNCHANGED <<machineVars, iotVars, vmVars, chVars, g5kVars, disVars, vgVars>>
       \/ /\ part = "g5k" /\ G5kNext
          /\ UNCHANGED <<machineVars, iotVars, vmVars, chVars, fabVars, disVars, vgVars>>
       \/ /\ part = "distem" /\ DistemNext
          /\ UNCHANGED <<machineVars, iotVars, vmVars, chVars, fabVars, g5kVars, vgVars>>
       \/ /\ part = "streams" /\ StreamsNext
          /\ UNCHANGED <<emulVars, allVars, servVars, kwVars, dkVars, addrVars, testbedVars>>
       \/ /\ part = "kwollect" /\ KwNext
          /\ UNCHANGED <<emulVars, allVars, servVars, strVars, dkVars, addrVars, testbedVars>>
       \/ /\ part = "vagrant" /\ VgNext
          /\ UNCHANGED <<machineVars, iotVars, vmVars, chVars, fabVars, g5kVars, disVars>>
       \/ /\ part = "dockers" /\ DkNext
          /\ UNCHANGED <<emulVars, allVars, servVars, strVars, kwVars, addrVars, testbedVars>>
       \/ /\ part = "addresses" /\ AddrNext
          /\ UNCHANGED <<emulVars, allVars, servVars, strVars, kwVars, dkVars, testbedVars>>

Spec == Init /\ [][Next]_vars

-----------------------------------------------------------------------------
\* The types of the components.
PartsTypeOK ==
    EmulTypeOK /\ PlanTypeOK /\ ServTypeOK /\ IotTypeOK /\ VmTypeOK /\ ChTypeOK /\ FabTypeOK
    /\ G5kTypeOK /\ DistemTypeOK /\ StreamsTypeOK /\ KwTypeOK /\ VgTypeOK /\ DkTypeOK /\ AddrTypeOK

\* The registry knows the processes that it starts, and those of a planning run when it says.
ProcessesAsPlanned == RegistryTracks /\ PlanFollowed

\* Once destroyed, or left, a service or a stream leaves nothing on the machines.
ServicesLeaveNothing == ResetCleans /\ NothingOutlives /\ ServicesGone /\ StreamsStop

\* What a service, a stream or a window collects is complete, and is given for what it is;
\* so are the containers that are found.
DataKept == ServiceDataKept /\ StreamsKept /\ KwollectExact /\ DockersFound

\* What a provider of machines, containers, boxes, boards, slices or addresses hands over is
\* what its configuration asks for.
TestbedsReadyAsAsked ==
    /\ VmsRunOnce /\ VmsReadyAsAsked /\ DistemReadyAsAsked /\ VagrantReadyAsAsked
    /\ IotReadyAsAsked /\ IotSlotExact /\ ChameleonReadyAsAsked /\ FabricReadyAsAsked
    /\ AddressesFree

\* A provider that is destroyed leaves nothing on its testbed.
TestbedsReleased == IotReleased /\ ChameleonReleased /\ FabricReleased /\ FirewallCloses
=============================================================================
