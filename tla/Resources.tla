----------------------------- MODULE Resources -----------------------------
(***************************************************************************)
(* The collections a client handles (enoslib/collections.py, objects.py):  *)
(* Roles are dictionaries from roles to sets of hosts, and both the sets   *)
(* and the hosts are mutable objects that several Roles may share. The     *)
(* model is the heap of these objects and the operations that build and    *)
(* change them, sync_info included, down to the machines that a call of    *)
(* Ansible is made for (enoslib/utils.py, enos_inventory.py).              *)
(***************************************************************************)
EXTENDS Naturals, FiniteSets, Sequences

CONSTANTS
    Aliases,   \* machines, by alias
    RoleNames,
    MaxRoles   \* bound: Roles objects made

ASSUME ResourcesAssumption ==
    IsFiniteSet(Aliases) /\ IsFiniteSet(RoleNames) /\ MaxRoles \in Nat

VARIABLES
    dicts,    \* dicts[d]: a dictionary: its class, and the view it has of each role
    views,    \* views[d][r]: the HostsView made for the role r of the dictionary d
    synced,   \* the Host objects whose network devices were filled by sync_info
    shares,   \* history: pairs of dictionaries one of which was built on the other
    mixed     \* history: dictionaries where hosts and copies of them were put together

resourcesVars == <<dicts, views, synced, shares, mixed>>

\* A view is named by where it was made; a Host object by the dictionary it was
\* made with, and its alias or the object it is a copy of.
NoView == <<0>>
Dicts == 1..Len(dicts)
New == Len(dicts) + 1

Held(d) == {r \in RoleNames : dicts[d].view[r] # NoView}
View(v) == views[v[1]][v[2]]
Members(d, r) == IF r \in Held(d) THEN View(dicts[d].view[r]) ELSE {}
HostsOf(d) == UNION {Members(d, r) : r \in RoleNames}

ResourcesTypeOK ==
    /\ Len(dicts) <= MaxRoles /\ Len(views) = Len(dicts)
    /\ \A d \in Dicts :
          /\ dicts[d].class \in {"Roles", "RolesDict"}
          /\ dicts[d].view \in [RoleNames -> (Dicts \X RoleNames) \cup {NoView}]
    /\ mixed \subseteq Dicts

ResourcesInit == dicts = <<>> /\ views = <<>> /\ synced = {} /\ shares = {} /\ mixed = {}

\* Host.__eq__ compares the network devices, which a sync fills; __hash__ does
\* not. Adding a host to a set does nothing when an equal one is in.
Equal(i, j) == i.alias = j.alias /\ (i \in synced <=> j \in synced)
Added(set, new) == set \cup {i \in new : \A j \in set : ~Equal(i, j)}

\* Two hosts of one alias that are not the same object.
Twins(set) == \E i, j \in set : i # j /\ i.alias = j.alias

\* A new dictionary, and the views made for it.
Make(class, view, made, isMixed) ==
    /\ Len(dicts) < MaxRoles
    /\ dicts' = Append(dicts, [class |-> class, view |-> view])
    /\ views' = Append(views, made)
    /\ mixed' = IF isMixed THEN mixed \cup {New} ELSE mixed

\* Views of its own for the roles of a set.
Own(d, roles) == [r \in RoleNames |-> IF r \in roles THEN <<d, r>> ELSE NoView]

-----------------------------------------------------------------------------
(* Building *)

\* The result of a provider: one object per machine, put in each of its roles
\* (RolesDict.add_one).
ProviderInit(roles) ==
    /\ Make("Roles", Own(New, UNION {roles[a] : a \in Aliases}),
            [r \in RoleNames |-> {[alias |-> a, made |-> <<New>>] : a \in {a \in Aliases : r \in roles[a]}}],
            FALSE)
    /\ UNCHANGED <<synced, shares>>

\* The dictionaries that see a change of a view of d.
Seen(d) == {d} \cup {e \in Dicts : {d, e} \in shares}

\* Roles(d): __setitem__ keeps the views it is given, they are shared.
CopyRoles(d) ==
    /\ Make("Roles", dicts[d].view, [r \in RoleNames |-> {}], d \in mixed)
    /\ shares' = shares \cup {{e, New} : e \in Seen(d)}
    /\ UNCHANGED synced

\* Mutant of SumView: the views of the first operand are taken over.
TakenOver(d, e) ==
    [r \in RoleNames |-> IF r \in Held(d) THEN dicts[d].view[r]
                         ELSE IF r \in Held(e) THEN <<New, r>> ELSE NoView]

\* RolesDict.__add__: += on views that __missing__ has just made.
SumView(d, e) == Own(New, Held(d) \cup Held(e))

\* d + e is a RolesDict, whatever d and e are.
Plus(d, e) ==
    /\ Make("RolesDict", SumView(d, e),
            [r \in RoleNames |-> Added(Members(d, r), Members(e, r))],
            d \in mixed \/ e \in mixed \/ Twins(HostsOf(d) \cup HostsOf(e)))
    /\ UNCHANGED <<synced, shares>>

\* d += e (extend): the views d has are changed in place, the others made.
Extend(d, e) ==
    /\ dicts' = [dicts EXCEPT ![d].view =
                    [r \in RoleNames |-> IF r \in Held(e) \ Held(d) THEN <<d, r>> ELSE @[r]]]
    /\ views' = [n \in 1..Len(views) |-> [r \in RoleNames |->
                    IF n = d /\ r \in Held(e) \ Held(d) THEN Members(e, r)
                    ELSE IF \E s \in Held(e) : dicts[d].view[s] = <<n, r>>
                    THEN Added(views[n][r], UNION {Members(e, s) :
                             s \in {s \in Held(e) : dicts[d].view[s] = <<n, r>>}})
                    ELSE views[n][r]]]
    /\ mixed' = IF e \in mixed \/ Twins(HostsOf(d) \cup HostsOf(e))
                THEN mixed \cup Seen(d) ELSE mixed
    /\ UNCHANGED <<synced, shares>>

-----------------------------------------------------------------------------
(* Using *)

\* _hostslike_to_roles and EnosInventory: the machines that a call made with
\* the dictionary d is made for. A RolesDict is an iterable like another one:
\* its keys are put in a role, and are not hosts.
Inventory(d) ==
    IF dicts[d].class = "Roles" THEN {i.alias : i \in HostsOf(d)} ELSE {}

\* sync_info(inplace=True)
SyncInPlace(d) ==
    /\ Inventory(d) # {}
    /\ synced' = synced \cup HostsOf(d)
    /\ UNCHANGED <<dicts, views, shares, mixed>>

\* sync_info: a deep copy, in which what was shared is shared, then synced.
Copy(i) == [alias |-> i.alias, made |-> Append(i.made, New)]

SyncCopy(d) ==
    /\ Inventory(d) # {}
    /\ Make("Roles", Own(New, Held(d)),
            [r \in RoleNames |-> {Copy(i) : i \in Members(d, r)}], d \in mixed)
    /\ synced' = synced \cup {Copy(i) : i \in HostsOf(d)}
    /\ UNCHANGED shares

ResourcesNext ==
    \/ \E roles \in [Aliases -> (SUBSET RoleNames) \ {{}}] : ProviderInit(roles)
    \/ \E d \in Dicts : CopyRoles(d) \/ SyncInPlace(d) \/ SyncCopy(d)
    \/ \E d, e \in Dicts : Plus(d, e) \/ (d # e /\ Extend(d, e))

ResourcesSpec == ResourcesInit /\ [][ResourcesNext]_resourcesVars

-----------------------------------------------------------------------------
(* Properties *)

\* Changing the Roles of one origin does not change those of another: only
\* Roles(d) shares views, neither +, extend nor the copy of sync_info does. And
\* unless hosts and copies of them were put together, a machine is one object
\* in all the roles of a dictionary, so that a sync in place, and whatever else
\* is recorded in a host, shows in each of them.
RolesApart ==
    /\ \A d, e \in Dicts :
          d # e /\ {d, e} \notin shares =>
             {dicts[d].view[r] : r \in Held(d)} \cap {dicts[e].view[r] : r \in Held(e)} = {}
    /\ \A d \in Dicts \ mixed : ~Twins(HostsOf(d))
=============================================================================
