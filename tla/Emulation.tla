----------------------------- MODULE Emulation -----------------------------
(***************************************************************************)
(* Network emulation (enoslib/service/emul) and what it takes from the     *)
(* hosts (enoslib/objects.py): a client syncs the hosts, adds constraints  *)
(* to a service, deploys and destroys it. The service is a Netem (per      *)
(* device, in and out), a NetemHTB (per device and destination) or an      *)
(* AccurateNetemHTB (which measures the network first). Rate and loss go   *)
(* with the delay and are left out. Delays are in a quarter of the unit of *)
(* the client, so that two corrections by a mean RTT / 2 stay integers.    *)
(***************************************************************************)
EXTENDS Integers, FiniteSets, Sequences, SequencesExt, FiniteSetsExt

CONSTANTS
    Nodes,         \* machines, by alias
    Nets,          \* networks of the provider
    Devices,       \* network devices of a machine
    FactsOf,       \* what the facts of a machine may say: device -> networks
    Shapes,        \* what add_constraints may be asked for, but for the delay
    Resynced,      \* sets of networks a later sync_info may be given
    Latency,       \* one-way latency of the infrastructure
    MaxRequests,   \* bound: calls of add_constraints
    MaxDeploys,    \* bound: deploys
    MaxSyncs       \* bound: calls of sync_info after the first

ASSUME EmulationAssumption ==
    /\ FactsOf \subseteq [Devices -> SUBSET Nets] /\ Resynced \subseteq SUBSET Nets
    /\ Shapes \subseteq [src : SUBSET Nodes, dest : SUBSET Nodes, networks : SUBSET Nets,
                          symmetric : BOOLEAN]
    /\ Latency \in Nat /\ MaxRequests \in Nat /\ MaxDeploys \in Nat /\ MaxSyncs \in Nat
    /\ IsFiniteSet(Devices)

VARIABLES
    service,    \* its class
    facts,      \* facts[h]: the devices of the machine h and their networks
    object,     \* object[h]: the Host of the client for h: what it knows of its devices
    sources,    \* sources[o]: the constraints of the Host object o
    asked,      \* history: what add_constraints was asked for, in order
    stale,      \* history: a Host changed after constraints were made from it
    tc,         \* tc[h][dev]: the root queueing discipline and its rules
    redirect,   \* redirect[h][dev]: the ifb that incoming packets go through
    state,      \* the last call of the service, and how it ended
    clean,      \* history: nothing was emulated before the last deploy
    deploys, syncs

emulVars == <<service, facts, object, sources, asked, stale, tc, redirect, state, clean,
              deploys, syncs>>

Services == {"netem", "htb", "accurate"}
Ifbs == {<<"ifb", i>> : i \in 0..(2 * Cardinality(Devices) - 1)}
NoIfb == <<"none", 0>>
Addresses == Nodes \X Nets
Out == <<"out", "any">>
In == <<"in", "any">>

\* A root discipline: none, or netem/htb with its rules.
NoRoot == [on |-> FALSE, rules |-> {}]
Root(rules) == [on |-> TRUE, rules |-> rules]
AllDevices == Devices \cup Ifbs

\* Marks that are neither names of devices nor addresses.
ASSUME MarksAssumption == Devices \cap Ifbs = {} /\ Addresses \cap {Out, In} = {}

\* Delays are distinct, so that one tells which request it comes from.
Delay(i) == 12 + 8 * i

EmulTypeOK ==
    /\ service \in Services
    /\ facts \in [Nodes -> FactsOf]
    /\ \A o \in DOMAIN sources :
          \A c \in sources[o] :
             /\ c.dev \in Devices /\ c.to \in Addresses \cup {Out, In}
             /\ c.delay \in Nat
             /\ (service = "netem") = (c.to \in {Out, In})
    /\ \A h \in Nodes : \A dev \in AllDevices : \A r \in tc[h][dev].rules : r.delay \in Nat
    /\ redirect \in [Nodes -> [Devices -> Ifbs \cup {NoIfb}]]
    /\ deploys \in 0..MaxDeploys /\ syncs \in 0..MaxSyncs /\ Len(asked) <= MaxRequests

Same(f, g) == f.dev = g.dev /\ f.to = g.to

-----------------------------------------------------------------------------
(* Hosts *)

\* Host.sync_from_ansible: the devices of the facts; an address is attached to
\* a network if that is among those the client gave.
Synced(h, devs, networks) == [alias |-> h, devs |-> devs, nets |-> networks]

\* NetDevice.filter_addresses: the addresses in the networks asked for, or
\* those attached to some network.
NetsOf(o, dev, networks) ==
    o.devs[dev] \cap (IF networks # {} THEN networks ELSE o.nets)

\* Host.filter_addresses, filter_interfaces
FilterAddresses(o, networks) ==
    {<<o.alias, n>> : n \in UNION {NetsOf(o, dev, networks) : dev \in Devices}}
FilterInterfaces(o, networks) == {dev \in Devices : NetsOf(o, dev, networks) # {}}

EmulInit ==
    /\ service \in Services
    /\ \E devs \in FactsOf : facts = [h \in Nodes |-> devs]
    /\ object = [h \in Nodes |-> Synced(h, facts[h], Nets)]
    /\ sources = <<>>
    /\ asked = <<>>
    /\ stale = FALSE
    /\ tc = [h \in Nodes |-> [dev \in AllDevices |-> NoRoot]]
    /\ redirect = [h \in Nodes |-> [dev \in Devices |-> NoIfb]]
    /\ state = [call |-> "none", ok |-> TRUE, todo |-> {}, of |-> 0]
    /\ clean = TRUE
    /\ deploys = 0 /\ syncs = 0

\* The machine is configured differently, then the hosts of the client are
\* replaced by synced copies. A copy that differs is another key of sources.
\* Bound: before the first deploy.
Resync(h, networks) ==
    /\ syncs < MaxSyncs /\ deploys = 0
    /\ \E devs \in FactsOf :
          /\ facts' = [facts EXCEPT ![h] = devs]
          /\ object' = [g \in Nodes |-> Synced(g, facts'[g], networks)]
    /\ stale' = (stale \/ (asked # <<>> /\ object' # object))
    /\ syncs' = syncs + 1
    /\ UNCHANGED <<service, sources, asked, tc, redirect, state, clean, deploys>>

-----------------------------------------------------------------------------
(* Constraints *)

\* Mutant of Merged: constraints are the same only if their delays are.
Unmerged(old, new) == old \cup new

\* add_constraints of a source: a constraint replaces those of its device (and
\* direction, or target).
Merged(old, new) == {c \in old : \A n \in new : ~Same(c, n)} \cup new

\* The constraints one request puts on the host o, src and dest being sets of
\* host objects.
OnHost(o, dest, delay, networks, both) ==
    IF service = "netem"
    THEN {[dev |-> dev, to |-> to, delay |-> delay] :
             dev \in FilterInterfaces(o, networks), to \in IF both THEN {Out, In} ELSE {Out}}
    ELSE {[dev |-> dev, to |-> address, delay |-> delay] :
             dev \in FilterInterfaces(o, networks),
             address \in UNION {FilterAddresses(d, networks) : d \in dest}}

\* for src_host in src: sources.setdefault, source.add_constraint
Extended(from, src, dest, delay, networks, both) ==
    [o \in DOMAIN from \cup src |->
        Merged(IF o \in DOMAIN from THEN from[o] ELSE {},
               IF o \in src THEN OnHost(o, dest, delay, networks, both) ELSE {})]

\* NetemHTB.add_constraints: symmetric is the same the other way round.
Added(from, r) ==
    LET src == {object[h] : h \in r.src}
        dest == {object[h] : h \in r.dest}
        there == Extended(from, src, dest, r.delay, r.networks, r.symmetric)
    IN  IF r.symmetric /\ service # "netem"
        THEN Extended(there, dest, src, r.delay, r.networks, FALSE)
        ELSE there

Request(i) ==
    {[src |-> s.src, dest |-> s.dest, delay |-> Delay(i), networks |-> s.networks,
      symmetric |-> s.symmetric] : s \in Shapes}

AddConstraints(r) ==
    /\ Len(asked) < MaxRequests
    /\ sources' = Added(sources, r)
    /\ asked' = Append(asked, r)
    /\ UNCHANGED <<service, facts, object, stale, tc, redirect, state, clean, deploys, syncs>>

\* NetemHTB.from_dict: the defaults, between all the selected roles, then a
\* constraint of its own for two of them (the roles selected are taken to be
\* those of the constraint).
FromDict(r) ==
    /\ service # "netem" /\ asked = <<>> /\ MaxRequests >= 2
    /\ LET selected == r.src \cup r.dest
           every == [src |-> selected, dest |-> selected, delay |-> Delay(1),
                       networks |-> r.networks, symmetric |-> FALSE]
       IN  /\ sources' = Added(Added(sources, every), r)
           /\ asked' = <<every, r>>
    /\ UNCHANGED <<service, facts, object, stale, tc, redirect, state, clean, deploys, syncs>>

-----------------------------------------------------------------------------
(* The commands *)

\* all_commands: on each device of a constraint the root is removed and made
\* again, then come the rules. Incoming packets of a device are sent to an ifb
\* which is numbered by the place of the constraint in its (unordered) set.
Ins(cs) == {c \in cs : c.to = In}
PlacesOf(cs) ==
    {f \in [Ins(cs) -> 0..(Cardinality(cs) - 1)] : \A c, d \in Ins(cs) : f[c] = f[d] => c = d}

Rules(cs, dev) == {[to |-> c.to, delay |-> c.delay] : c \in {c \in cs : c.dev = dev /\ c.to # In}}

\* The root of a device that is the place of some constraint, of one that has
\* constraints, and of another one.
RootOf(h, cs, place, dev) ==
    IF \E c \in Ins(cs) : dev = <<"ifb", place[c]>>
    THEN Root({[to |-> Out, delay |-> c.delay] : c \in {c \in Ins(cs) : dev = <<"ifb", place[c]>>}})
    ELSE IF Rules(cs, dev) # {} THEN Root(Rules(cs, dev)) ELSE tc[h][dev]

\* What is done first: the roots, without the rules.
BareRoot(h, cs, dev) ==
    IF \E c \in cs : c.dev = dev THEN (IF service = "netem" THEN NoRoot ELSE Root({})) ELSE tc[h][dev]

Quiet == \A h \in Nodes : \A dev \in AllDevices : tc[h][dev] = NoRoot

Busy == state.todo # {}
Aliases(from) == {o.alias : o \in DOMAIN from}

StartCall(call, from) ==
    state' = [call |-> call, ok |-> TRUE, todo |-> Aliases(from), of |-> Len(asked)]
Done(h, ok) == state' = [state EXCEPT !.todo = @ \ {h}, !.ok = @ /\ ok]

\* _build_commands merges the sources of one host, hosts being compared as
\* objects: of two that have one alias only the commands of one are kept.
Enforce(h) ==
    /\ state.call = "deploy" /\ h \in state.todo
    /\ \E o \in {o \in DOMAIN sources : o.alias = h} : \E place \in PlacesOf(sources[o]) :
          /\ tc' = [tc EXCEPT ![h] = [dev \in AllDevices |-> RootOf(h, sources[o], place, dev)]]
          /\ redirect' = [redirect EXCEPT ![h] = [dev \in Devices |->
                IF \E c \in Ins(sources[o]) : c.dev = dev
                THEN <<"ifb", place[CHOOSE c \in Ins(sources[o]) : c.dev = dev]>>
                ELSE @[dev]]]
    /\ Done(h, TRUE)
    /\ UNCHANGED <<service, facts, object, sources, asked, stale, clean, deploys, syncs>>

\* A machine that is lost does nothing of a call, or stops between two batches
\* of commands.
Lost(h) ==
    /\ h \in state.todo
    /\ \/ UNCHANGED tc
       \/ /\ state.call = "deploy"
          /\ \E o \in {o \in DOMAIN sources : o.alias = h} :
                tc' = [tc EXCEPT ![h] = [dev \in AllDevices |-> BareRoot(h, sources[o], dev)]]
    /\ Done(h, FALSE)
    /\ UNCHANGED <<service, facts, object, sources, asked, stale, redirect, clean, deploys, syncs>>

\* Mutant of ResetDevices: the devices of the constraints only.
ConstrainedDevices(h) ==
    {c.dev : c \in UNION {sources[o] : o \in {o \in DOMAIN sources : o.alias = h}}}

\* _destroy: whatever the facts of the machine list, ifbs included.
ResetDevices(h) == AllDevices

Reset(h) ==
    /\ state.call = "destroy" /\ h \in state.todo
    /\ tc' = [tc EXCEPT ![h] = [dev \in AllDevices |->
                                   IF dev \in ResetDevices(h) THEN NoRoot ELSE @[dev]]]
    /\ Done(h, TRUE)
    /\ UNCHANGED <<service, facts, object, sources, asked, stale, redirect, clean, deploys, syncs>>

-----------------------------------------------------------------------------
(* The calls *)

Deploy ==
    /\ ~Busy /\ service # "accurate" /\ deploys < MaxDeploys /\ sources # <<>>
    /\ StartCall("deploy", sources)
    /\ clean' = Quiet
    /\ deploys' = deploys + 1
    /\ UNCHANGED <<service, facts, object, sources, asked, stale, tc, redirect, syncs>>

\* What packets from h to the address of g wait for, and what a ping does.
OneWay(h, address) ==
    Latency + FoldSet(LAMBDA r, sum : sum + r.delay, 0,
                      {r \in UNION {tc[h][dev].rules : dev \in {dev \in Devices : address[2] \in facts[h][dev]}} :
                          r.to = address})
Ping(h, address) == OneWay(h, address) + OneWay(address[1], <<h, address[2]>>)

\* Mutant of Corrected: the whole RTT is taken for one way.
CorrectedByRTT(h, c) == c.delay - Ping(h, c.to)

Corrected(h, c) == c.delay - (Ping(h, c.to) \div 2)

\* The addresses of the sources. A line of fping is ignored when a single one of
\* its packets was lost: here those to one of the addresses.
Pingable == UNION {FilterAddresses(o, {}) : o \in DOMAIN sources}

\* AccurateNetemHTB.deploy: constraints that were not measured are dropped, and
\* so are the sources without constraints.
Measured(seen) ==
    LET cs(o) == {c \in sources[o] : c.to \in seen}
    IN  [o \in {o \in DOMAIN sources : cs(o) # {}} |->
           {[c EXCEPT !.delay = Corrected(o.alias, c)] : c \in cs(o)}]

Unique(from) == \A o, p \in DOMAIN from : o.alias = p.alias => o = p

DeployAccurate(seen) ==
    /\ ~Busy /\ service = "accurate" /\ deploys < MaxDeploys /\ sources # <<>>
    /\ clean' = Quiet
    /\ deploys' = deploys + 1
    /\ IF Unique(sources) /\ \A o \in DOMAIN Measured(seen) : \A c \in Measured(seen)[o] : c.delay \in Nat
       THEN sources' = Measured(seen) /\ StartCall("deploy", Measured(seen))
       ELSE state' = [state EXCEPT !.call = "deploy", !.ok = FALSE] /\ UNCHANGED sources
    /\ UNCHANGED <<service, facts, object, asked, stale, tc, redirect, syncs>>

Destroy ==
    /\ ~Busy /\ state.call = "deploy" /\ sources # <<>>
    /\ StartCall("destroy", sources)
    /\ UNCHANGED <<service, facts, object, sources, asked, stale, tc, redirect, clean, deploys, syncs>>

\* sync_info and add_constraints are not called during another call.
EmulNext ==
    \/ /\ ~Busy
       /\ \/ \E h \in Nodes, networks \in Resynced : Resync(h, networks)
          \/ \E r \in Request(Len(asked) + 1) : AddConstraints(r)
          \/ \E r \in Request(2) : FromDict(r)
    \/ \E h \in Nodes : Enforce(h) \/ Lost(h) \/ Reset(h)
    \/ Deploy \/ Destroy
    \/ \E spoilt \in {{}} \cup {{address} : address \in Pingable} : DeployAccurate(Pingable \ spoilt)

EmulSpec == EmulInit /\ [][EmulNext]_emulVars

-----------------------------------------------------------------------------
(* Properties *)

\* The requests that put a constraint on the device dev of h, for an address or
\* a direction, and what the last of them said.
Covers(r, h, dev, to) ==
    LET one(src, dest) ==
            /\ h \in src
            /\ dev \in FilterInterfaces(object[h], r.networks)
            /\ \E g \in dest : to \in FilterAddresses(object[g], r.networks)
    IN  IF service = "netem"
        THEN h \in r.src /\ dev \in FilterInterfaces(object[h], r.networks)
             /\ (to = Out \/ (to = In /\ r.symmetric))
        ELSE one(r.src, r.dest) \/ (r.symmetric /\ one(r.dest, r.src))

Asking(h, dev, to) == {i \in 1..Len(asked) : Covers(asked[i], h, dev, to)}
Wanted(h, dev, tos) ==
    {[to |-> to, delay |-> asked[Max(Asking(h, dev, to))].delay] :
        to \in {to \in tos : Asking(h, dev, to) # {}}}

Incoming(h, dev) ==
    IF redirect[h][dev] = NoIfb THEN {} ELSE tc[h][redirect[h][dev]].rules

\* After a deploy that returns, every device delays the packets for each
\* address (or all of those going out, and coming in) by what the last request
\* about it said, neither more nor twice, whatever requests overlap, are
\* symmetric or were deployed before. With AccurateNetemHTB, on a network free
\* of emulation, it is the latency from end to end that is the one asked for,
\* on every pair that was measured. Not claimed for hosts synced between two
\* requests, whose constraints are not merged (all_commands, _build_commands).
EmulatedAsAsked ==
    state.call = "deploy" /\ state.ok /\ ~Busy /\ ~stale /\ state.of = Len(asked) =>
       \A h \in Nodes : \A dev \in Devices :
          IF service = "accurate"
          THEN clean => \A r \in tc[h][dev].rules :
                  deploys = 1 => [r EXCEPT !.delay = Latency + @] \in Wanted(h, dev, Addresses)
          ELSE /\ tc[h][dev].rules = Wanted(h, dev, Addresses \cup {Out})
               /\ {r.delay : r \in Incoming(h, dev)} = {r.delay : r \in Wanted(h, dev, {In})}

\* destroy leaves no emulation on any machine that a deploy, even one that
\* failed half-way, was made on; but AccurateNetemHTB forgets hosts.
ResetCleans ==
    state.call = "destroy" /\ state.ok /\ ~Busy /\ service # "accurate" => Quiet
=============================================================================
