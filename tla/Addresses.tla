----------------------------- MODULE Addresses -----------------------------
(***************************************************************************)
(* The free addresses of the networks handed over (enoslib/objects.py and  *)
(* enoslib/infra/enos_g5k/objects.py): programs draw addresses for         *)
(* containers or virtual machines from generators, each of which starts at *)
(* the first address of its network. An address is a number; a network of  *)
(* Grid'5000 is an interval, cut in blocks that the testbed (external)     *)
(* gives to its sites, its gateway and its servers.                        *)
(***************************************************************************)
EXTENDS Naturals, FiniteSets, Sequences, SequencesExt

CONSTANTS
    AddrConfs,   \* the resources of a configuration: their kinds and intervals
    BlockSize,   \* addresses of a block: 512 in a global or routed VLAN, 256 in a local one
    MaxTaken     \* bound: addresses drawn from a generator

VARIABLES
    addrConf,
    taking,   \* the network the open generator is of, and how many it has given
    taken     \* the addresses drawn, from earlier generators too

addrVars == <<addrConf, taking, taken>>

NotTaking == [of |-> 0, given |-> 0]

AddrInit ==
    /\ addrConf \in AddrConfs
    /\ taking = NotTaking
    /\ taken = {}

-----------------------------------------------------------------------------
\* to_enos: a network for each resource; a subnet resource has one for each of its parts.
EnosNetsOf(resource) ==
    IF resource.kind = "subnet"
    THEN [p \in DOMAIN resource.parts |->
             [kind |-> "subnet", first |-> resource.parts[p][1], last |-> resource.parts[p][2]]]
    ELSE <<[kind |-> resource.kind, first |-> resource.first, last |-> resource.last]>>

AddressNets(conf) == FlattenSeq([r \in DOMAIN conf |-> EnosNetsOf(conf[r])])
EnosNets == AddressNets(addrConf)

ThreeBytes == 256 * 256 * 256

\* The networks of Grid'5000 share no address, and the subnets have the first byte of theirs
\* in common.
ASSUME AddressesAssumption ==
    /\ BlockSize \in Nat \ {0} /\ MaxTaken \in Nat
    /\ \A conf \in AddrConfs :
          /\ Len(conf) \in Nat /\ DOMAIN conf = 1..Len(conf)
          /\ \A r \in DOMAIN conf :
                /\ conf[r].kind \in {"vlan", "local", "subnet", "default"}
                /\ {conf[r].first, conf[r].last} \subseteq Nat
                /\ conf[r].kind \in {"vlan", "local"} =>
                      conf[r].last + 1 = conf[r].first + BlockSize * (IF conf[r].kind = "vlan" THEN 32 ELSE 16)
                /\ conf[r].kind = "subnet" =>
                      /\ Len(conf[r].parts) \in Nat /\ DOMAIN conf[r].parts = 1..Len(conf[r].parts)
                      /\ \A p \in DOMAIN conf[r].parts : {conf[r].parts[p][1], conf[r].parts[p][2]} \subseteq Nat
          /\ \A m, n \in DOMAIN AddressNets(conf) :
                LET one == AddressNets(conf)[m]
                    two == AddressNets(conf)[n]
                IN  /\ m # n /\ "default" \notin {one.kind, two.kind} => one.last < two.first \/ two.last < one.first
                    /\ one.kind = "subnet" /\ two.kind = "subnet" =>
                          one.first \div ThreeBytes = two.last \div ThreeBytes

\* Blocks from..to - 1 of a network, in the way of Python.
BlockRange(net, from, to) == [first |-> net.first + from * BlockSize, last |-> net.first + to * BlockSize - 1]

\* Mutant of VlanPool: the last block too.
WholeTail(net) == IF net.kind = "local" THEN BlockRange(net, 4, 7) ELSE BlockRange(net, 13, 32)

\* subnets[4:7] of a local VLAN, subnets[13:31] of another
VlanPool(net) == IF net.kind = "local" THEN BlockRange(net, 4, 7) ELSE BlockRange(net, 13, 31)

\* Mutant of SubnetPool: network[0:-1]
FromTheFirst(net) == [first |-> net.first, last |-> net.last - 1]

\* network[1:-1]
SubnetPool(net) == [first |-> net.first + 1, last |-> net.last - 1]

\* range(pool_start, pool_end): the end is not in it.
DefaultPool(net) == [first |-> net.first, last |-> net.last - 1]

IpPool(net) ==
    CASE net.kind = "subnet" -> SubnetPool(net)
      [] net.kind = "default" -> DefaultPool(net)
      [] OTHER -> VlanPool(net)

\* build_ipmac: the last three bytes of the address follow the prefix. Networks that are
\* not subnets have no macs, or the interval given for them.
MacOf(net, ip) == IF net.kind = "subnet" THEN <<"00:16:3E", ip % ThreeBytes>> ELSE <<>>

-----------------------------------------------------------------------------
\* net.free_ips and net.free_macs: a generator from the start. Generators do not know
\* of each other: the one that is open is followed.
OpenPool ==
    /\ \E n \in DOMAIN EnosNets : taking' = [of |-> n, given |-> 0]
    /\ UNCHANGED <<addrConf, taken>>

\* next: the address and the mac of the same rank, until the last.
TakeAddress ==
    /\ taking.of # 0 /\ taking.given < MaxTaken
    /\ LET net == EnosNets[taking.of]
           pool == IpPool(net)
           ip == pool.first + taking.given
       IN  /\ ip <= pool.last
           /\ taking' = [taking EXCEPT !.given = @ + 1]
           /\ taken' = taken \cup {[net |-> taking.of, ip |-> ip, mac |-> MacOf(net, ip)]}
    /\ UNCHANGED addrConf

AddrNext == OpenPool \/ TakeAddress

AddrSpec == AddrInit /\ [][AddrNext]_addrVars

-----------------------------------------------------------------------------
AddrTypeOK ==
    /\ addrConf \in AddrConfs
    /\ taking.of \in 0..Len(EnosNets) /\ taking.given \in 0..MaxTaken
    /\ \A d \in taken : d.net \in DOMAIN EnosNets

\* The block of an address in its network.
BlockOf(d) == (d.ip - EnosNets[d.net].first) \div BlockSize

\* Addresses drawn from a network of Grid'5000 are its own, and nobody else's: not those
\* of the twelve sites, nor of the gateway and servers in the last block, nor the first
\* and the last address of a subnet; a mac goes with one address, whatever the subnet.
AddressesFree ==
    /\ \A d \in taken :
          LET net == EnosNets[d.net]
          IN  /\ d.ip \in net.first..net.last
              /\ net.kind = "vlan" => BlockOf(d) \in 12..30
              /\ net.kind = "local" => BlockOf(d) \in 1..14
              /\ net.kind = "subnet" => d.ip \notin {net.first, net.last}
    /\ \A d, e \in taken :
          /\ <<>> \notin {d.mac, e.mac} => (d.mac = e.mac <=> d.ip = e.ip)
          /\ d.net # e.net /\ "default" \notin {EnosNets[d.net].kind, EnosNets[e.net].kind} => d.ip # e.ip
=============================================================================
