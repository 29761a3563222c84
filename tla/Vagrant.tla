------------------------------ MODULE Vagrant ------------------------------
(***************************************************************************)
(* Vagrant boxes on the local machine (enoslib/infra/enos_vagrant): the    *)
(* provider gives names and addresses, writes the Vagrantfile of the       *)
(* directory over, and asks Vagrant (external) to destroy and create the   *)
(* boxes of that file, one by one. Boxes that the file does not name are   *)
(* left alone. The program may be killed at any step.                      *)
(***************************************************************************)
EXTENDS Naturals, FiniteSets, Sequences, SequencesExt

CONSTANTS
    VgConfs,     \* configurations: groups with a prefix or none; the addresses of each network.
                 \* No prefix is another name with a number, and networks have no address in common.
    MaxVgCalls   \* bound: calls

ASSUME VagrantAssumption ==
    /\ MaxVgCalls \in Nat
    /\ \A conf \in VgConfs : Len(conf.groups) \in Nat /\ DOMAIN conf.groups = 1..Len(conf.groups)
    /\ \A conf \in VgConfs : \A g \in DOMAIN conf.groups :
          /\ conf.groups[g].number \in Nat
          /\ conf.groups[g].prefix \in Seq(STRING) /\ Len(conf.groups[g].prefix) <= 1
          /\ conf.groups[g].prefix # <<"enos">>
    /\ \A conf \in VgConfs : \A n \in DOMAIN conf.pools :
          Len(conf.pools[n]) \in Nat /\ DOMAIN conf.pools[n] = 1..Len(conf.pools[n])
    /\ \A conf \in VgConfs : \A n, m \in DOMAIN conf.pools :
          \A i \in DOMAIN conf.pools[n], j \in DOMAIN conf.pools[m] :
             conf.pools[n][i] = conf.pools[m][j] => n = m /\ i = j

VARIABLES
    vagrantfile,  \* the boxes it defines, and the configuration it comes from
    boxes,        \* the boxes that exist: name, addresses, the call that made them
    vg,           \* the client: its step, whether new boxes are forced, what it hands over
    vgCalls

vgVars == <<vagrantfile, boxes, vg, vgCalls>>

NoFile == [conf |-> {}, defs |-> <<>>]
AwayFromVagrant == [at |-> "out", forced |-> FALSE, handed |-> {}]

VgTypeOK ==
    /\ vagrantfile.conf \subseteq VgConfs
    /\ \A b \in boxes : b.made \in 1..vgCalls
    /\ \A b, c \in boxes : b.name = c.name => b = c
    /\ vg.at \in {"out", "written", "creating", "ready"} /\ vgCalls \in 0..MaxVgCalls

VgInit ==
    /\ vagrantfile = NoFile
    /\ boxes = {}
    /\ vg = AwayFromVagrant
    /\ vgCalls = 0

-----------------------------------------------------------------------------
\* Mutant of BoxName: machines of a group have the name of their group.
GroupName(group, counter, index) == IF group.prefix # <<>> THEN group.prefix ELSE <<"enos", counter>>

\* The prefix of the group or enos-counter; then -index when the group has several machines.
BoxName(group, counter, index) ==
    (IF group.prefix # <<>> THEN group.prefix ELSE <<"enos", counter>>)
    \o (IF group.number > 1 THEN <<index>> ELSE <<>>)

\* Mutant of Popped: a list is read, not popped.
ReadOnly(pool, rank) == pool[Len(pool)]

\* netpool.pop() of the machine of that rank: addresses are taken from the end.
Popped(pool, rank) == pool[Len(pool) + 1 - rank]

\* The machines in the order of the groups.
MachinesOf(conf) ==
    FlattenSeq([g \in DOMAIN conf.groups |->
        [i \in 1..conf.groups[g].number |-> [group |-> g, name |-> BoxName(conf.groups[g], g - 1, i)]]])

\* Each has an address of each network.
Definitions(conf) ==
    [m \in DOMAIN MachinesOf(conf) |->
        [group |-> MachinesOf(conf)[m].group, name |-> MachinesOf(conf)[m].name,
         ips |-> {Popped(conf.pools[n], m) : n \in DOMAIN conf.pools}]]

DefinedNames == {d.name : d \in ToSet(vagrantfile.defs)}

\* Two definitions of a name are one box, with the addresses of both.
IpsOf(name) == UNION {d.ips : d \in {d \in ToSet(vagrantfile.defs) : d.name = name}}

\* Enos_vagrant.init up to the Vagrantfile; it raises before when a network is too small.
WriteVagrantfile ==
    /\ vg.at \in {"out", "ready"} /\ vgCalls < MaxVgCalls
    /\ vgCalls' = vgCalls + 1
    /\ \E conf \in VgConfs : \E force \in BOOLEAN :
          IF \A n \in DOMAIN conf.pools : Len(MachinesOf(conf)) <= Len(conf.pools[n])
          THEN /\ vagrantfile' = [conf |-> {conf}, defs |-> Definitions(conf)]
               /\ vg' = [AwayFromVagrant EXCEPT !.at = "written", !.forced = force]
          ELSE vg' = AwayFromVagrant /\ UNCHANGED vagrantfile
    /\ UNCHANGED boxes

\* Mutant of BoxesNamed: boxes are created again only when they are not there.
NothingDestroyed == {}

\* v.destroy: the boxes that the file names.
BoxesNamed == {b \in boxes : b.name \in DefinedNames}

ForceDestroy ==
    /\ vg.at = "written"
    /\ boxes' = IF vg.forced THEN boxes \ BoxesNamed ELSE boxes
    /\ vg' = [vg EXCEPT !.at = "creating"]
    /\ UNCHANGED <<vagrantfile, vgCalls>>

MissingNames == DefinedNames \ {b.name : b \in boxes}

\* v.up, one box; a box that runs is left as it is.
UpBox ==
    /\ vg.at = "creating"
    /\ \E d \in {d \in ToSet(vagrantfile.defs) : d.name \in MissingNames} :
          boxes' = boxes \cup {[name |-> d.name, ips |-> IpsOf(d.name), made |-> vgCalls]}
    /\ UNCHANGED <<vagrantfile, vg, vgCalls>>

\* v.provision, then a host for each machine of each role.
HandBoxes ==
    /\ vg.at = "creating" /\ MissingNames = {}
    /\ vg' = [vg EXCEPT !.at = "ready",
                        !.handed = {[group |-> d.group, name |-> d.name] : d \in ToSet(vagrantfile.defs)}]
    /\ UNCHANGED <<vagrantfile, boxes, vgCalls>>

\* destroy, of any process in the directory that has the file.
DestroyVagrant ==
    /\ vg.at \in {"out", "ready"} /\ vagrantfile # NoFile
    /\ boxes' = boxes \ BoxesNamed
    /\ vg' = AwayFromVagrant
    /\ UNCHANGED <<vagrantfile, vgCalls>>

\* Killed, or Vagrant fails.
VagrantKilled ==
    /\ vg.at # "out"
    /\ vg' = AwayFromVagrant
    /\ UNCHANGED <<vagrantfile, boxes, vgCalls>>

VgNext ==
    WriteVagrantfile \/ ForceDestroy \/ UpBox \/ HandBoxes \/ DestroyVagrant \/ VagrantKilled

VgSpec == VgInit /\ [][VgNext]_vgVars

-----------------------------------------------------------------------------
\* init hands over a box of its own for each machine asked for, when the groups have
\* prefixes of their own; forced, they are all new ("True iff new machines should be
\* started", init) and no two share an address, whatever earlier calls left.
VagrantReadyAsAsked ==
    vg.at = "ready" =>
        \A conf \in vagrantfile.conf :
            /\ \A h \in vg.handed : \E b \in boxes : b.name = h.name
            /\ (\A g, h \in DOMAIN conf.groups : g # h => conf.groups[g].prefix # conf.groups[h].prefix
                                                         \/ conf.groups[g].prefix = <<>>) =>
                  /\ \A g \in DOMAIN conf.groups :
                        Cardinality({h \in vg.handed : h.group = g}) = conf.groups[g].number
                  /\ \A h, i \in vg.handed : h.name = i.name => h = i
            /\ vg.forced =>
                  /\ \A b \in boxes : b.name \in DefinedNames => b.made = vgCalls
                  /\ \A b, c \in boxes :
                        {b.name, c.name} \subseteq DefinedNames /\ b # c => b.ips \cap c.ips = {}
=============================================================================
