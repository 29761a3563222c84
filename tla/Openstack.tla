------------------------------ MODULE Openstack ------------------------------
(***************************************************************************)
(* enoslib.infra.enos_openstack: the networks and servers of a deployment  *)
(* in a project of an OpenStack cloud.  The library stores nothing: every  *)
(* call finds its resources by name, creates those that are missing and    *)
(* may be killed between any two requests.  Requests to create and delete  *)
(* servers are only accepted: servers boot, fail and vanish later, and a   *)
(* server being deleted is listed until it has vanished.                   *)
(*                                                                         *)
(* Each deployment has a prefix of its own, none being part of another,    *)
(* and is used by one process at a time.  The security group and the       *)
(* router have fixed names: deployments share them, and with the default   *)
(* names the network as well.                                              *)
(***************************************************************************)
EXTENDS Integers, Sequences, FiniteSets, FiniteSetsExt

CONSTANTS
  Deployments,
  Wanted,       \* machines of each deployment
  Gateway,      \* provider_conf.gateway
  Configure,    \* provider_conf.configure_network
  Fips,         \* floating IPs the project may own
  Patient,      \* TRUE: nobody calls before the deletions have taken effect
  MaxServers, MaxCalls  \* bounds of the exploration

ASSUME OpenstackAssumption ==
  /\ IsFiniteSet(Deployments)
  /\ Wanted \in Nat \ {0}
  /\ {Gateway, Configure, Patient} \subseteq BOOLEAN
  /\ MaxServers \in Nat /\ MaxCalls \in Nat

VARIABLES
  infra,    \* the resources of Neutron that exist
  servers,  \* the servers of Nova, in the order of their creation
  fip,      \* floating IPs: Absent, Free, or the server that has it
  pc,
  op,       \* the call in progress: "none", "init" or "destroy"
  force,    \* force_deploy
  ensure,   \* check_network: resources still to look at
  purge,    \* servers still to delete
  got,      \* check_servers: servers
  made,     \* check_servers: total
  up, down, \* wait_for_servers: deployed, undeployed
  todo,     \* wait_for_servers: servers this iteration has still to visit
  gw,       \* check_gateway: gateway, or 0
  picked,   \* set_free_floating_ip: fip
  last,     \* how the last call ended
  calls

cloud == <<infra, servers, fip>>
poll == <<up, down, todo>>
gateway == <<gw, picked>>
local == <<ensure, purge, got, made, poll, gateway>>
vars == <<cloud, pc, op, force, local, last, calls>>

Ids == 1 .. Len(servers)
Present(i) == servers[i].st # "gone"
Live(i) == Present(i) /\ ~servers[i].deleting

\* The order of check_network, and what is made along with a resource.
Resources ==
  <<"secgroup", "tcp", "icmp", "network", "subnet", "router", "interface">>
Parts(r) == CASE r = "secgroup" -> <<"tcp", "icmp">>
              [] r = "router" -> <<"interface">>
              [] OTHER -> <<>>

NoFip == "none"
Absent == -1
Free == 0

-----------------------------------------------------------------------------

Init ==
  /\ infra = {}
  /\ servers = <<>>
  /\ fip = [f \in Fips |-> Absent]
  /\ pc = [d \in Deployments |-> "idle"]
  /\ op = [d \in Deployments |-> "none"]
  /\ force = [d \in Deployments |-> FALSE]
  /\ ensure = [d \in Deployments |-> <<>>]
  /\ purge = [d \in Deployments |-> {}]
  /\ got = [d \in Deployments |-> {}]
  /\ made = [d \in Deployments |-> 0]
  /\ up = [d \in Deployments |-> {}]
  /\ down = [d \in Deployments |-> {}]
  /\ todo = [d \in Deployments |-> {}]
  /\ gw = [d \in Deployments |-> 0]
  /\ picked = [d \in Deployments |-> NoFip]
  /\ last = [d \in Deployments |-> "none"]
  /\ calls = 0

Goto(d, p) == pc' = [pc EXCEPT ![d] = p]

\* The call ends with outcome o.
Return(d, o) ==
  /\ Goto(d, "idle")
  /\ op' = [op EXCEPT ![d] = "none"]
  /\ last' = [last EXCEPT ![d] = o]

\* Openstack.init: check_environment begins.  Openstack.destroy lists.
Call(d, o, f) ==
  /\ pc[d] = "idle"
  /\ calls < MaxCalls
  /\ Patient => \A i \in Ids : Present(i) => Live(i)
  /\ calls' = calls + 1
  /\ op' = [op EXCEPT ![d] = o]
  /\ force' = [force EXCEPT ![d] = f]
  /\ last' = [last EXCEPT ![d] = "none"]
  /\ ensure' = [ensure EXCEPT ![d] = IF o = "init" THEN Resources ELSE <<>>]
  /\ purge' = [purge EXCEPT ![d] = {}]
  /\ got' = [got EXCEPT ![d] = {}]
  /\ made' = [made EXCEPT ![d] = 0]
  /\ gw' = [gw EXCEPT ![d] = 0]
  /\ picked' = [picked EXCEPT ![d] = NoFip]
  /\ Goto(d, IF o = "init" THEN "network" ELSE "list")
  /\ UNCHANGED <<cloud, poll>>

-----------------------------------------------------------------------------
(* check_network *)

Created == {"tcp", "icmp", "interface"}   \* made without looking

\* Mutant of Rest: one resource too many is passed over.
RestLess(d, r) == SubSeq(ensure[d], 3 + Len(Parts(r)), Len(ensure[d]))

\* The resource is found; what was made along with it is not looked at.
Rest(d, r) == SubSeq(ensure[d], 2 + Len(Parts(r)), Len(ensure[d]))

Found(d) ==
  /\ pc[d] = "network" /\ ensure[d] # <<>>
  /\ LET r == Head(ensure[d]) IN
       /\ r \in infra \ Created \/ (r = "router" /\ ~Configure)
       /\ ensure' = [ensure EXCEPT ![d] = Rest(d, r)]
  /\ UNCHANGED <<cloud, pc, op, force, purge, got, made, poll, gateway, last,
                 calls>>

Create(d) ==
  /\ pc[d] = "network" /\ ensure[d] # <<>>
  /\ LET r == Head(ensure[d]) IN
       /\ r \in Created \/ r \notin infra
       /\ r \in {"subnet", "router"} => Configure
       /\ infra' = infra \cup {r}
  /\ ensure' = [ensure EXCEPT ![d] = Tail(@)]
  /\ UNCHANGED <<servers, fip, pc, op, force, purge, got, made, poll, gateway,
                 last, calls>>

\* A subnet that is not there and not to be made, or a refused request.
NetworkFails(d) ==
  /\ pc[d] = "network" /\ ensure[d] # <<>>
  /\ Return(d, "raised")
  /\ UNCHANGED <<cloud, force, local, calls>>

NetworkReady(d) ==
  /\ pc[d] = "network" /\ ensure[d] = <<>>
  /\ Goto(d, "list")
  /\ UNCHANGED <<cloud, op, force, local, last, calls>>

-----------------------------------------------------------------------------
(* check_servers *)

\* Servers found by their prefix, those being deleted included.
Listed(d) == {i \in Ids : servers[i].dep = d /\ Present(i)}

StartPoll(d, is) ==
  /\ Goto(d, "wait")
  /\ up' = [up EXCEPT ![d] = {}]
  /\ down' = [down EXCEPT ![d] = {}]
  /\ todo' = [todo EXCEPT ![d] = is]

\* With force_deploy, those found are deleted and forgotten; otherwise they
\* are taken as they are if their number is right, too few are an error, and
\* none, or too many, means that all are still to be started.
List(d) ==
  /\ pc[d] = "list" /\ op[d] = "init"
  /\ IF force[d]
       THEN /\ purge' = [purge EXCEPT ![d] = Listed(d)]
            /\ Goto(d, "purge")
            /\ UNCHANGED <<op, got, poll, last>>
       ELSE LET n == Cardinality(Listed(d)) IN
            /\ got' = [got EXCEPT ![d] = Listed(d)]
            /\ UNCHANGED purge
            /\ \/ /\ n = Wanted
                  /\ StartPoll(d, Listed(d))
                  /\ UNCHANGED <<op, last>>
               \/ /\ n \in 1 .. Wanted - 1
                  /\ Return(d, "raised")
                  /\ UNCHANGED poll
               \/ /\ n = 0 \/ n > Wanted
                  /\ Goto(d, "create")
                  /\ UNCHANGED <<op, poll, last>>
  /\ UNCHANGED <<cloud, force, ensure, made, gateway, calls>>

\* destroy: is_in_current_deployment is asked without a prefix.
ListAll(d) ==
  /\ pc[d] = "list" /\ op[d] = "destroy"
  /\ purge' = [purge EXCEPT ![d] = {i \in Ids : Present(i)}]
  /\ Goto(d, "purge")
  /\ UNCHANGED <<cloud, op, force, ensure, got, made, poll, gateway, last, calls>>

\* One request to delete; a server that has vanished is an error.
Delete(d, i) ==
  /\ pc[d] = "purge"
  /\ i \in purge[d]
  /\ purge' = [purge EXCEPT ![d] = @ \ {i}]
  /\ IF Present(i)
       THEN /\ servers' = [servers EXCEPT ![i].deleting = TRUE]
            /\ UNCHANGED <<pc, op, last>>
       ELSE /\ Return(d, "raised")
            /\ UNCHANGED servers
  /\ UNCHANGED <<infra, fip, force, ensure, got, made, poll, gateway, calls>>

Purged(d) ==
  /\ pc[d] = "purge" /\ purge[d] = {}
  /\ IF op[d] = "destroy"
       THEN Return(d, "destroyed")
       ELSE Goto(d, "create") /\ UNCHANGED <<op, last>>
  /\ UNCHANGED <<cloud, force, local, calls>>

NewServer(d) == [dep |-> d, st |-> "build", deleting |-> FALSE]

\* Mutant of AllMade: one server too many.
OneMoreMade(d) == made[d] > Wanted

\* for _ in range(number)
AllMade(d) == made[d] = Wanted

\* One request to create.
Boot(d) ==
  /\ pc[d] = "create"
  /\ ~AllMade(d)
  /\ Len(servers) < MaxServers
  /\ servers' = Append(servers, NewServer(d))
  /\ got' = [got EXCEPT ![d] = @ \cup {Len(servers) + 1}]
  /\ made' = [made EXCEPT ![d] = @ + 1]
  /\ UNCHANGED <<infra, fip, pc, op, force, ensure, purge, poll, gateway, last,
                 calls>>

\* The quota is reached, or the answer is lost.
BootFails(d) ==
  /\ pc[d] = "create"
  /\ ~AllMade(d)
  /\ \/ UNCHANGED servers
     \/ /\ Len(servers) < MaxServers
        /\ servers' = Append(servers, NewServer(d))
  /\ Return(d, "raised")
  /\ UNCHANGED <<infra, fip, force, local, calls>>

Booting(d) ==
  /\ pc[d] = "create"
  /\ AllMade(d)
  /\ StartPoll(d, got[d])
  /\ UNCHANGED <<cloud, op, force, ensure, purge, got, made, gateway, last, calls>>

-----------------------------------------------------------------------------
(* wait_for_servers *)

\* One request of the poll; a server that has vanished is an error.
Visit(d, i) ==
  /\ pc[d] = "wait"
  /\ i \in todo[d]
  /\ IF Present(i)
       THEN /\ todo' = [todo EXCEPT ![d] = @ \ {i}]
            /\ up' = [up EXCEPT ![d] =
                        @ \cup {j \in {i} : servers[j].st = "active"}]
            /\ down' = [down EXCEPT ![d] =
                        @ \cup {j \in {i} : servers[j].st = "error"}]
            /\ UNCHANGED <<pc, op, last>>
       ELSE Return(d, "raised") /\ UNCHANGED poll
  /\ UNCHANGED <<cloud, force, ensure, purge, got, made, gateway, calls>>

\* Mutants of Settled: the poll ends early, or failures are not counted.
SomeUp(d) == up[d] # {}
AllUp(d) == Cardinality(up[d]) >= Cardinality(got[d])

\* len(deployed) + len(undeployed) >= len(servers)
Settled(d) ==
  Cardinality(up[d]) + Cardinality(down[d]) >= Cardinality(got[d])

\* The iteration is over.
Iterate(d) ==
  /\ pc[d] = "wait"
  /\ todo[d] = {}
  /\ IF Settled(d)
       THEN Goto(d, "gateway") /\ UNCHANGED poll
       ELSE StartPoll(d, got[d])
  /\ UNCHANGED <<cloud, op, force, ensure, purge, got, made, gateway, last, calls>>

-----------------------------------------------------------------------------
(* check_gateway *)

\* Mutant of HasFip: any address of the project will do.
AnyFip(i) == \E f \in Fips : fip[f] # Absent

HasFip(i) == \E f \in Fips : fip[f] = i

\* The first of the deployed servers, if there is one and it is still there.
ChooseGateway(d) ==
  /\ pc[d] = "gateway"
  /\ IF up[d] = {} \/ (Gateway /\ ~Present(Min(up[d])))
       THEN Return(d, "raised") /\ UNCHANGED gw
       ELSE /\ gw' = [gw EXCEPT ![d] = Min(up[d])]
            /\ IF Gateway /\ ~HasFip(Min(up[d]))
                 THEN Goto(d, "pick") /\ UNCHANGED <<op, last>>
                 ELSE Return(d, "ok")
  /\ UNCHANGED <<cloud, force, ensure, purge, got, made, poll, picked, calls>>

\* set_free_floating_ip: one that is free, or else a new one.
PickFip(d) ==
  /\ pc[d] = "pick"
  /\ \E f \in Fips :
       /\ IF \E g \in Fips : fip[g] = Free THEN fip[f] = Free ELSE fip[f] = Absent
       /\ picked' = [picked EXCEPT ![d] = f]
       /\ fip' = [fip EXCEPT ![f] = Free]
  /\ Goto(d, "associate")
  /\ UNCHANGED <<infra, servers, op, force, ensure, purge, got, made, poll, gw,
                 last, calls>>

\* The port of the gateway gets the address, whoever has it by now.
Associate(d) ==
  /\ pc[d] = "associate"
  /\ IF Present(gw[d])
       THEN /\ fip' = [fip EXCEPT ![picked[d]] = gw[d]]
            /\ Return(d, "ok")
       ELSE /\ Return(d, "raised")
            /\ UNCHANGED fip
  /\ UNCHANGED <<infra, servers, force, local, calls>>

\* No address is left, or a request fails.
FipFails(d) ==
  /\ pc[d] \in {"pick", "associate"}
  /\ Return(d, "raised")
  /\ UNCHANGED <<cloud, force, local, calls>>

\* The process is killed.
Crash(d) ==
  /\ pc[d] # "idle"
  /\ Return(d, "none")
  /\ UNCHANGED <<cloud, force, local, calls>>

-----------------------------------------------------------------------------
(* The cloud *)

Started(i) ==
  /\ servers[i].st = "build"
  /\ \E st \in {"active", "error"} : servers' = [servers EXCEPT ![i].st = st]
  /\ UNCHANGED <<infra, fip, pc, op, force, local, last, calls>>

\* A deletion takes effect; the floating IP is free again.
Vanish(i) ==
  /\ servers[i].deleting /\ Present(i)
  /\ servers' = [servers EXCEPT ![i].st = "gone"]
  /\ fip' = [f \in Fips |-> IF fip[f] = i THEN Free ELSE fip[f]]
  /\ UNCHANGED <<infra, pc, op, force, local, last, calls>>

Step(d) ==
  \/ Found(d) \/ Create(d) \/ NetworkFails(d) \/ NetworkReady(d)
  \/ List(d) \/ ListAll(d) \/ Purged(d)
  \/ Boot(d) \/ BootFails(d) \/ Booting(d)
  \/ \E i \in Ids : Delete(d, i) \/ Visit(d, i)
  \/ Iterate(d) \/ ChooseGateway(d) \/ PickFip(d) \/ Associate(d) \/ FipFails(d)

Next ==
  \/ \E d \in Deployments :
       \/ \E f \in BOOLEAN : Call(d, "init", f)
       \/ Call(d, "destroy", FALSE)
       \/ Step(d)
       \/ Crash(d)
  \/ \E i \in Ids : Started(i) \/ Vanish(i)

Spec == Init /\ [][Next]_vars

\* The code goes on; servers boot (or fail) and deletions take effect.
FairSpec ==
  /\ Spec
  /\ \A d \in Deployments : WF_vars(Step(d))
  /\ \A i \in 1 .. MaxServers :
       WF_vars(i \in Ids /\ Started(i)) /\ WF_vars(i \in Ids /\ Vanish(i))

-----------------------------------------------------------------------------
(* Properties *)

Of(d) == {i \in Ids : servers[i].dep = d}

\* Types; an iteration of the poll sorts each server at most once.
TypeOK ==
  /\ infra \subseteq {Resources[k] : k \in 1 .. Len(Resources)}
  /\ servers \in Seq([dep : Deployments, deleting : BOOLEAN,
                      st : {"build", "active", "error", "gone"}])
  /\ fip \in [Fips -> {Absent, Free} \cup Ids]
  /\ \A d \in Deployments :
       /\ purge[d] \cup got[d] \subseteq Ids
       /\ up[d] \cup down[d] \cup todo[d] \subseteq Ids
       /\ up[d] \cap down[d] = {} /\ todo[d] \cap (up[d] \cup down[d]) = {}
       /\ made[d] \in 0 .. Wanted
       /\ gw[d] \in {0} \cup Ids
       /\ picked[d] \in Fips \cup {NoFip}
       /\ pc[d] \in {"idle", "network", "list", "purge", "create", "wait",
                     "gateway", "pick", "associate"}
       /\ last[d] \in {"none", "raised", "ok", "destroyed"}

\* "If needed, it creates new servers" (check_servers): however often init is
\* called, forced, interrupted or refused, a deployment never owns more servers
\* than it wants, those being deleted apart.
AtMostWanted == \A d \in Deployments : Cardinality({i \in Of(d) : Live(i)}) <= Wanted

\* init returns when each of its servers has come up or failed, with as many
\* as were wanted, and its gateway is one that came up: failures and servers
\* that were slow are not taken for ready ones.
ReadyIsSettled ==
  \A d \in Deployments : last[d] = "ok" =>
    /\ Cardinality(got[d]) = Wanted
    /\ got[d] \subseteq Of(d)
    /\ \A i \in got[d] : servers[i].st # "build"
    /\ servers[gw[d]].st # "error"

\* "This server can be used as a gateway to the others" (check_servers): the
\* gateway that init returns holds a floating IP, reused or not, as long as it
\* exists.
GatewayReachable ==
  \A d \in Deployments : last[d] = "ok" /\ Gateway /\ Present(gw[d]) =>
    \E f \in Fips : fip[f] = gw[d]

\* Whatever an interrupted call left, the next one that returns found or made
\* the security group, the network, its subnet and the router.  (Not their
\* parts: rules and the interface are made with their owner only.)
NetworkRestored ==
  \A d \in Deployments : last[d] = "ok" /\ Configure =>
    {"secgroup", "network", "subnet", "router"} \subseteq infra

\* wait_for_servers has no timeout: it ends because failures are counted too,
\* and because a server that has vanished is an error.
PollEnds == \A d \in Deployments : pc[d] = "wait" ~> pc[d] # "wait"
=============================================================================
