--------------------------- MODULE OpenstackProofs ---------------------------
(***************************************************************************)
(* What holds of Openstack for any number of machines, floating IPs and    *)
(* deployments, each used by one process at a time.                        *)
(***************************************************************************)
EXTENDS Openstack, FiniteSetTheorems, SequenceTheorems, WellFoundedInduction, TLAPS

-----------------------------------------------------------------------------
(* Vocabulary of the proofs *)

Names == {"secgroup", "tcp", "icmp", "network", "subnet", "router", "interface"}
Owners == {"secgroup", "network", "subnet", "router"}
Statuses == {"build", "active", "error", "gone"}
Server == [dep : Deployments, deleting : BOOLEAN, st : Statuses]
Steps == {"idle", "network", "list", "purge", "create", "wait", "gateway", "pick",
          "associate"}
Ends == {"none", "raised", "ok", "destroyed"}

\* The types, the servers being numbers.
Typed ==
  /\ infra \subseteq Names
  /\ servers \in Seq(Server)
  /\ fip \in [Fips -> Int]
  /\ pc \in [Deployments -> Steps]
  /\ op \in [Deployments -> {"none", "init", "destroy"}]
  /\ force \in [Deployments -> BOOLEAN]
  /\ ensure \in [Deployments -> Seq(Names)]
  /\ purge \in [Deployments -> SUBSET Nat]
  /\ got \in [Deployments -> SUBSET Nat]
  /\ made \in [Deployments -> Nat]
  /\ up \in [Deployments -> SUBSET Nat]
  /\ down \in [Deployments -> SUBSET Nat]
  /\ todo \in [Deployments -> SUBSET Nat]
  /\ gw \in [Deployments -> Nat]
  /\ picked \in [Deployments -> Fips \cup {NoFip}]
  /\ last \in [Deployments -> Ends]

-----------------------------------------------------------------------------
(* The inductive invariants *)

\* What a call knows of the servers, and where it stands.
Stands(d) ==
  /\ purge[d] \cup got[d] \cup up[d] \cup down[d] \cup todo[d] \subseteq Ids
  /\ up[d] \cap down[d] = {} /\ todo[d] \cap (up[d] \cup down[d]) = {}
  /\ made[d] <= Wanted
  /\ gw[d] \in {0} \cup Ids
  /\ pc[d] # "idle" => last[d] = "none" /\ op[d] # "none"
  /\ pc[d] = "network" => op[d] = "init"
  /\ pc[d] \in {"create", "wait", "gateway", "pick", "associate"} => op[d] = "init"
  /\ pc[d] \in {"pick", "associate"} => gw[d] \in up[d]
  /\ pc[d] = "associate" => picked[d] \in Fips
  /\ last[d] = "ok" => gw[d] \in up[d]
  /\ pc[d] \in {"network", "list", "purge"} => made[d] = 0

\* check_network has still to look at the end of its list, and has found or made
\* what comes before.
Suffix(k) == SubSeq(Resources, k, Len(Resources))
Passed(k) == {Resources[i] : i \in 1 .. k - 1} \cap Owners

Ensures(d) ==
  /\ pc[d] = "network" =>
       \E k \in 1 .. 8 : ensure[d] = Suffix(k) /\ (Configure => Passed(k) \subseteq infra)
  /\ (op[d] = "init" /\ pc[d] # "network") \/ last[d] = "ok" =>
       (Configure => Owners \subseteq infra)

\* A server that the poll has counted has come up, or failed.
Counts(d) ==
  /\ \A i \in up[d] : servers[i].st \in {"active", "gone"}
  /\ \A i \in down[d] : servers[i].st \in {"error", "gone"}
  /\ pc[d] = "wait" => up[d] \cup down[d] \cup todo[d] \subseteq got[d]
  /\ pc[d] \in {"gateway", "pick", "associate"} \/ last[d] = "ok" =>
       up[d] \cup down[d] = got[d]

General ==
  /\ Typed
  /\ \A f \in Fips : fip[f] \in {Absent, Free} \cup Ids
  /\ \A d \in Deployments : Stands(d) /\ Ensures(d) /\ Counts(d)

\* The servers of a deployment, at each step of a call.
Owned(d) == {i \in Of(d) : Live(i)}

Owns(d) ==
  /\ Cardinality(Owned(d)) <= Wanted
  /\ pc[d] = "network" \/ (pc[d] = "list" /\ op[d] = "init") =>
       Cardinality(Listed(d)) <= Wanted /\ got[d] = {}
  /\ pc[d] = "purge" /\ op[d] = "init" => Owned(d) \subseteq purge[d] /\ got[d] = {}
  /\ pc[d] = "create" =>
       /\ Owned(d) \subseteq got[d]
       /\ got[d] \subseteq Of(d)
       /\ Cardinality(got[d]) = made[d]
  /\ pc[d] \in {"wait", "gateway", "pick", "associate"} \/ last[d] = "ok" =>
       Cardinality(got[d]) = Wanted /\ got[d] \subseteq Of(d)

Owning == \A d \in Deployments : Owns(d)

-----------------------------------------------------------------------------
(* Lemmas on the operators *)

\* The least of some servers is one of them.
LEMMA MinIn ==
  ASSUME NEW S \in SUBSET Nat, S # {}
  PROVE  Min(S) \in S
<1> DEFINE R == OpToRel(<, Nat)
<1>1. \A x, y \in Nat : y < x => <<y, x>> \in R
  BY DEF OpToRel
<1>2. IsWellFoundedOn(R, Nat)
  BY NatLessThanWellFounded
<1> HIDE DEF R
<1>3. PICK x \in S : \A y \in S : ~(<<y, x>> \in R)
  BY <1>2, WFMin
<1>4. \A y \in S : x <= y
  <2> TAKE y \in S
  <2>1. x \in Nat /\ y \in Nat /\ ~(y < x)
    BY <1>1, <1>3
  <2> QED
    BY <2>1
<1> QED
  BY <1>4 DEF Min

LEMMA ResourcesSeq ==
  /\ Resources \in Seq(Names)
  /\ Len(Resources) = 7
  /\ \A k \in 1 .. 7 : Resources[k] \in Names
  BY DEF Resources, Names

\* The suffixes of the list of check_network.
LEMMA SuffixSeq ==
  ASSUME NEW k \in 1 .. 8
  PROVE  Suffix(k) \in Seq(Names) /\ Len(Suffix(k)) = 8 - k
<1> USE ResourcesSeq DEF Suffix
<1>1. \A i \in k .. 7 : Resources[i] \in Names
  OBVIOUS
<1> QED
  BY <1>1, SubSeqProperties

LEMMA SuffixEnds == Suffix(1) = Resources /\ Suffix(8) = <<>>
  BY ResourcesSeq, SubSeqFull, SubSeqEmpty DEF Suffix

LEMMA SuffixSteps ==
  ASSUME NEW k \in 1 .. 8, Suffix(k) # <<>>
  PROVE  /\ k \in 1 .. 7
         /\ Head(Suffix(k)) = Resources[k]
         /\ Tail(Suffix(k)) = Suffix(k + 1)
<1>1. k \in 1 .. 7
  BY SuffixEnds
<1>2. k \in 1 .. Len(Resources) /\ 7 \in k .. Len(Resources)
  BY <1>1, ResourcesSeq
<1> QED
  BY <1>1, <1>2, ResourcesSeq, HeadTailOfSubSeq DEF Suffix

LEMMA SuffixDone ==
  ASSUME NEW k \in 1 .. 8, Suffix(k) = <<>>
  PROVE  k = 8
<1>1. Len(Suffix(k)) = 0
  OBVIOUS
<1>2. Len(Suffix(k)) = 8 - k
  BY SuffixSeq
<1> QED
  BY <1>1, <1>2

\* A server is appended.
LEMMA Appended ==
  ASSUME servers \in Seq(Server), NEW d \in Deployments,
         servers' = Append(servers, NewServer(d))
  PROVE  /\ servers' \in Seq(Server)
         /\ Len(servers) \in Nat
         /\ Len(servers') = Len(servers) + 1
         /\ \A i \in Ids : servers'[i] = servers[i]
         /\ servers'[Len(servers) + 1] = NewServer(d)
         /\ Ids' = Ids \cup {Len(servers) + 1} /\ Len(servers) + 1 \notin Ids
<1>1. NewServer(d) \in Server
  BY DEF NewServer, Server, Statuses
<1> HIDE DEF Server
<1>2. /\ servers' \in Seq(Server)
      /\ Len(servers) \in Nat
      /\ Len(servers') = Len(servers) + 1
      /\ \A i \in Ids : servers'[i] = servers[i]
      /\ servers'[Len(servers) + 1] = NewServer(d)
  BY <1>1, AppendProperties, LenProperties DEF Ids
<1> QED
  BY <1>2 DEF Ids

LEMMA ServerTypes ==
  ASSUME servers \in Seq(Server)
  PROVE  /\ Len(servers) \in Nat /\ DOMAIN servers = Ids /\ Ids \subseteq Nat
         /\ \A i \in Ids : servers[i] \in Server
  BY ElementOfSeq, LenProperties DEF Ids

\* A server is replaced by e.
LEMMA Replaced ==
  ASSUME servers \in Seq(Server), NEW i \in Ids, NEW e \in Server,
         servers' = [servers EXCEPT ![i] = e]
  PROVE  /\ servers' \in Seq(Server) /\ Ids' = Ids
         /\ servers'[i] = e
         /\ \A k \in Ids : k # i => servers'[k] = servers[k]
<1>1. /\ servers' \in Seq(Server) /\ Len(servers') = Len(servers)
      /\ \A k \in Ids : servers'[k] = IF k = i THEN e ELSE servers[k]
  BY ExceptSeq DEF Ids
<1> QED
  BY <1>1 DEF Ids

\* A server changes its status.
LEMMA StatusChanged ==
  ASSUME servers \in Seq(Server), NEW i \in Ids, NEW st \in Statuses,
         servers' = [servers EXCEPT ![i].st = st]
  PROVE  /\ servers' \in Seq(Server) /\ Ids' = Ids
         /\ \A k \in Ids : k # i => servers'[k] = servers[k]
         /\ servers'[i].dep = servers[i].dep
         /\ servers'[i].deleting = servers[i].deleting
         /\ servers'[i].st = st
<1> DEFINE e == [servers[i] EXCEPT !.st = st]
<1>1. servers[i] \in Server
  BY ServerTypes
<1>2. /\ e \in Server /\ e.dep = servers[i].dep
      /\ e.deleting = servers[i].deleting /\ e.st = st
  BY <1>1 DEF Server
<1>3. servers' = [servers EXCEPT ![i] = e]
  OBVIOUS
<1> HIDE DEF e
<1> QED
  BY <1>2, <1>3, Replaced

\* Its deletion is asked for.
LEMMA DeletionAsked ==
  ASSUME servers \in Seq(Server), NEW i \in Ids,
         servers' = [servers EXCEPT ![i].deleting = TRUE]
  PROVE  /\ servers' \in Seq(Server) /\ Ids' = Ids
         /\ \A k \in Ids : k # i => servers'[k] = servers[k]
         /\ servers'[i].dep = servers[i].dep
         /\ servers'[i].deleting
         /\ servers'[i].st = servers[i].st
<1> DEFINE e == [servers[i] EXCEPT !.deleting = TRUE]
<1>1. servers[i] \in Server
  BY ServerTypes
<1>2. /\ e \in Server /\ e.dep = servers[i].dep
      /\ e.deleting /\ e.st = servers[i].st
  BY <1>1 DEF Server
<1>3. servers' = [servers EXCEPT ![i] = e]
  OBVIOUS
<1> HIDE DEF e
<1> QED
  BY <1>2, <1>3, Replaced

-----------------------------------------------------------------------------
(* What each action of a deployment does *)

SameCall(d) == op'[d] = op[d] /\ last'[d] = last[d]
SamePlan(d) == ensure'[d] = ensure[d] /\ purge'[d] = purge[d] /\ force'[d] = force[d]
SameGot(d) == got'[d] = got[d] /\ made'[d] = made[d]
SamePoll(d) == up'[d] = up[d] /\ down'[d] = down[d] /\ todo'[d] = todo[d]
SameGate(d) == gw'[d] = gw[d] /\ picked'[d] = picked[d]
Same(d) == /\ pc'[d] = pc[d] /\ SameCall(d) /\ SamePlan(d) /\ SameGot(d)
           /\ SamePoll(d) /\ SameGate(d)
Others(d) == \A e \in Deployments \ {d} : Same(e)

Returned(d, o) == pc'[d] = "idle" /\ op'[d] = "none" /\ last'[d] = o
Polls(d, is) == pc'[d] = "wait" /\ up'[d] = {} /\ down'[d] = {} /\ todo'[d] = is

Calls(d, o) ==
  /\ pc[d] = "idle" /\ op'[d] = o /\ last'[d] = "none"
  /\ Patient => \A i \in Ids : Present(i) => Live(i)
  /\ ensure'[d] = (IF o = "init" THEN Resources ELSE <<>>)
  /\ purge'[d] = {} /\ got'[d] = {} /\ made'[d] = 0
  /\ gw'[d] = 0 /\ picked'[d] = NoFip
  /\ SamePoll(d)
  /\ pc'[d] = IF o = "init" THEN "network" ELSE "list"

LEMMA CallDoes ==
  ASSUME Typed, NEW d \in Deployments, NEW o \in {"init", "destroy"},
         NEW f \in BOOLEAN, Call(d, o, f)
  PROVE  Typed' /\ Others(d) /\ UNCHANGED cloud /\ Calls(d, o)
<1> USE DEF Typed
<1>1. UNCHANGED <<infra, servers, fip, up, down, todo>>
  BY DEF Call, cloud, poll
<1>2. /\ pc[d] = "idle" /\ (Patient => \A i \in Ids : Present(i) => Live(i))
      /\ pc' \in [Deployments -> Steps] /\ op' \in [Deployments -> {"none", "init", "destroy"}]
      /\ last' \in [Deployments -> Ends] /\ force' \in [Deployments -> BOOLEAN]
      /\ op'[d] = o /\ last'[d] = "none"
      /\ pc'[d] = IF o = "init" THEN "network" ELSE "list"
      /\ \A e \in Deployments \ {d} :
           pc'[e] = pc[e] /\ op'[e] = op[e] /\ last'[e] = last[e] /\ force'[e] = force[e]
  BY DEF Call, Goto, Steps, Ends
<1>3. /\ ensure' \in [Deployments -> Seq(Names)]
      /\ ensure'[d] = (IF o = "init" THEN Resources ELSE <<>>)
      /\ \A e \in Deployments \ {d} : ensure'[e] = ensure[e]
  <2> DEFINE rs == IF o = "init" THEN Resources ELSE <<>>
  <2>1. rs \in Seq(Names)
    BY ResourcesSeq, EmptySeq
  <2>2. ensure' = [ensure EXCEPT ![d] = rs]
    BY DEF Call
  <2> HIDE DEF rs
  <2>3. /\ ensure' \in [Deployments -> Seq(Names)] /\ ensure'[d] = rs
        /\ \A e \in Deployments \ {d} : ensure'[e] = ensure[e]
    BY <2>1, <2>2
  <2> QED
    BY <2>3 DEF rs
<1>4. /\ purge' \in [Deployments -> SUBSET Nat] /\ got' \in [Deployments -> SUBSET Nat]
      /\ made' \in [Deployments -> Nat]
      /\ purge'[d] = {} /\ got'[d] = {} /\ made'[d] = 0
      /\ \A e \in Deployments \ {d} :
           purge'[e] = purge[e] /\ got'[e] = got[e] /\ made'[e] = made[e]
  BY DEF Call
<1>5. /\ gw' \in [Deployments -> Nat] /\ picked' \in [Deployments -> Fips \cup {NoFip}]
      /\ gw'[d] = 0 /\ picked'[d] = NoFip
      /\ \A e \in Deployments \ {d} : gw'[e] = gw[e] /\ picked'[e] = picked[e]
  BY DEF Call
<1>6. Typed'
  BY <1>1, <1>2, <1>3, <1>4, <1>5
<1>7. Others(d)
  BY <1>1, <1>2, <1>3, <1>4, <1>5
     DEF Others, Same, SameCall, SamePlan, SameGot, SamePoll, SameGate
<1>8. Calls(d, o)
  BY <1>1, <1>2, <1>3, <1>4, <1>5 DEF Calls, SamePoll
<1> QED
  BY <1>1, <1>6, <1>7, <1>8 DEF cloud

LEMMA ReturnDoes ==
  ASSUME Typed, NEW d \in Deployments, NEW o \in Ends, Return(d, o)
  PROVE  /\ pc' \in [Deployments -> Steps]
         /\ op' \in [Deployments -> {"none", "init", "destroy"}]
         /\ last' \in [Deployments -> Ends]
         /\ Returned(d, o)
         /\ \A e \in Deployments \ {d} : pc'[e] = pc[e] /\ SameCall(e)
  BY DEF Typed, Return, Goto, Returned, SameCall, Steps

LEMMA GotoDoes ==
  ASSUME Typed, NEW d \in Deployments, NEW p \in Steps, Goto(d, p)
  PROVE  /\ pc' \in [Deployments -> Steps]
         /\ pc'[d] = p
         /\ \A e \in Deployments \ {d} : pc'[e] = pc[e]
  BY DEF Typed, Goto

LEMMA PollDoes ==
  ASSUME Typed, NEW d \in Deployments, NEW is \in SUBSET Nat, StartPoll(d, is)
  PROVE  /\ pc' \in [Deployments -> Steps]
         /\ up' \in [Deployments -> SUBSET Nat]
         /\ down' \in [Deployments -> SUBSET Nat]
         /\ todo' \in [Deployments -> SUBSET Nat]
         /\ Polls(d, is)
         /\ \A e \in Deployments \ {d} : pc'[e] = pc[e] /\ SamePoll(e)
<1>1. Goto(d, "wait") /\ "wait" \in Steps
  BY DEF StartPoll, Steps
<1>2. /\ pc' \in [Deployments -> Steps] /\ pc'[d] = "wait"
      /\ \A e \in Deployments \ {d} : pc'[e] = pc[e]
  BY <1>1, GotoDoes
<1> QED
  BY <1>2 DEF Typed, StartPoll, Polls, SamePoll

\* The call returns; nothing else changes but the cloud.
LEMMA EndDoes ==
  ASSUME Typed, NEW d \in Deployments, NEW o \in Ends, Return(d, o),
         UNCHANGED <<force, local>>,
         infra' \subseteq Names, servers' \in Seq(Server), fip' \in [Fips -> Int]
  PROVE  /\ Typed' /\ Others(d) /\ Returned(d, o)
         /\ SamePlan(d) /\ SameGot(d) /\ SamePoll(d) /\ SameGate(d)
<1>1. UNCHANGED <<force, ensure, purge, got, made, up, down, todo, gw, picked>>
  BY DEF local, poll, gateway
<1> QED
  BY <1>1, ReturnDoes
     DEF Typed, Others, Same, SamePlan, SameGot, SamePoll, SameGate

\* The call goes on with step p; nothing else changes but the cloud.
LEMMA GoDoes ==
  ASSUME Typed, NEW d \in Deployments, NEW p \in Steps, Goto(d, p),
         UNCHANGED <<cloud, op, last, force, local>>
  PROVE  /\ Typed' /\ Others(d) /\ pc'[d] = p /\ SameCall(d)
         /\ SamePlan(d) /\ SameGot(d) /\ SamePoll(d) /\ SameGate(d)
<1>1. UNCHANGED <<infra, servers, fip, op, last, force, ensure, purge, got, made,
                  up, down, todo, gw, picked>>
  BY DEF cloud, local, poll, gateway
<1> QED
  BY <1>1, GotoDoes
     DEF Typed, Others, Same, SameCall, SamePlan, SameGot, SamePoll, SameGate

LEMMA FoundDoes ==
  ASSUME Typed, NEW d \in Deployments, Found(d)
  PROVE  /\ Others(d) /\ UNCHANGED cloud
         /\ pc[d] = "network" /\ ensure[d] # <<>>
         /\ \/ Head(ensure[d]) \in infra \ Created
            \/ Head(ensure[d]) = "router" /\ ~Configure
         /\ ensure' = [ensure EXCEPT ![d] = Rest(d, Head(ensure[d]))]
         /\ ensure'[d] = Rest(d, Head(ensure[d]))
         /\ pc'[d] = pc[d] /\ SameCall(d) /\ purge'[d] = purge[d] /\ force'[d] = force[d]
         /\ SameGot(d) /\ SamePoll(d) /\ SameGate(d)
         /\ UNCHANGED <<pc, op, last, force, purge, got, made, up, down, todo, gw,
                        picked>>
<1>1. UNCHANGED <<pc, op, last, force, purge, got, made, up, down, todo, gw, picked>>
  BY DEF Found, poll, gateway
<1>2. /\ ensure'[d] = Rest(d, Head(ensure[d]))
      /\ \A e \in Deployments \ {d} : ensure'[e] = ensure[e]
  BY DEF Found, Typed
<1>3. Others(d) /\ SameCall(d) /\ SameGot(d) /\ SamePoll(d) /\ SameGate(d)
  BY <1>1, <1>2 DEF Others, Same, SameCall, SamePlan, SameGot, SamePoll, SameGate
<1> QED
  BY <1>1, <1>2, <1>3 DEF Found

LEMMA CreateDoes ==
  ASSUME Typed, NEW d \in Deployments, Create(d)
  PROVE  /\ Typed' /\ Others(d) /\ UNCHANGED <<servers, fip>>
         /\ pc[d] = "network" /\ ensure[d] # <<>>
         /\ infra' = infra \cup {Head(ensure[d])}
         /\ ensure'[d] = Tail(ensure[d])
         /\ pc'[d] = pc[d] /\ SameCall(d) /\ purge'[d] = purge[d] /\ force'[d] = force[d]
         /\ SameGot(d) /\ SamePoll(d) /\ SameGate(d)
<1>1. UNCHANGED <<servers, fip, pc, op, last, force, purge, got, made, up, down,
                  todo, gw, picked>>
  BY DEF Create, poll, gateway
<1>2. Head(ensure[d]) \in Names /\ Tail(ensure[d]) \in Seq(Names) /\ ensure[d] # <<>>
  BY HeadTailProperties DEF Create, Typed
<1>3. /\ ensure' \in [Deployments -> Seq(Names)]
      /\ ensure'[d] = Tail(ensure[d])
      /\ \A e \in Deployments \ {d} : ensure'[e] = ensure[e]
  BY <1>2 DEF Create, Typed
<1>4. infra' = infra \cup {Head(ensure[d])} /\ infra' \subseteq Names
  BY <1>2 DEF Create, Typed
<1>5. Others(d) /\ SameCall(d) /\ SameGot(d) /\ SamePoll(d) /\ SameGate(d)
  BY <1>1, <1>3 DEF Others, Same, SameCall, SamePlan, SameGot, SamePoll, SameGate
<1>6. Typed'
  BY <1>1, <1>3, <1>4 DEF Typed
<1> QED
  BY <1>1, <1>2, <1>3, <1>4, <1>5, <1>6 DEF Create

ListOutcomes(d) ==
  \/ /\ force[d] /\ pc'[d] = "purge" /\ purge'[d] = Listed(d)
     /\ got'[d] = got[d] /\ SameCall(d) /\ SamePoll(d)
  \/ /\ ~force[d] /\ purge'[d] = purge[d] /\ got'[d] = Listed(d)
     /\ Cardinality(Listed(d)) = Wanted
     /\ Polls(d, Listed(d)) /\ SameCall(d)
  \/ /\ purge'[d] = purge[d] /\ got'[d] = Listed(d)
     /\ Returned(d, "raised") /\ SamePoll(d)
  \/ /\ ~force[d] /\ purge'[d] = purge[d] /\ got'[d] = Listed(d)
     /\ Cardinality(Listed(d)) = 0 \/ Cardinality(Listed(d)) > Wanted
     /\ pc'[d] = "create" /\ SameCall(d) /\ SamePoll(d)

LEMMA ListDoes ==
  ASSUME Typed, NEW d \in Deployments, List(d)
  PROVE  /\ Typed' /\ Others(d) /\ UNCHANGED cloud
         /\ pc[d] = "list" /\ op[d] = "init"
         /\ ensure'[d] = ensure[d] /\ made'[d] = made[d] /\ SameGate(d)
         /\ ListOutcomes(d)
<1> DEFINE is == Listed(d)
           n == Cardinality(is)
<1>0. is \in SUBSET Nat
  BY ServerTypes DEF Typed, Listed
<1>1. /\ pc[d] = "list" /\ op[d] = "init"
      /\ UNCHANGED <<infra, servers, fip, force, ensure, made, gw, picked>>
  BY DEF List, cloud, gateway
<1>2. \/ /\ force[d] /\ Goto(d, "purge") /\ purge' = [purge EXCEPT ![d] = is]
         /\ UNCHANGED <<op, last, got, up, down, todo>>
      \/ /\ ~force[d] /\ got' = [got EXCEPT ![d] = is] /\ UNCHANGED purge
         /\ \/ n = Wanted /\ StartPoll(d, is) /\ UNCHANGED <<op, last>>
            \/ Return(d, "raised") /\ UNCHANGED <<up, down, todo>>
            \/ /\ n = 0 \/ n > Wanted
               /\ Goto(d, "create") /\ UNCHANGED <<op, last, up, down, todo>>
  BY DEF List, poll
<1> DEFINE Rest1 == /\ Typed' /\ Others(d) /\ UNCHANGED cloud
                    /\ ensure'[d] = ensure[d] /\ made'[d] = made[d] /\ SameGate(d)
                    /\ ListOutcomes(d)
<1> HIDE DEF is
<1>3. CASE /\ force[d] /\ Goto(d, "purge") /\ purge' = [purge EXCEPT ![d] = is]
           /\ UNCHANGED <<op, last, got, up, down, todo>>
  <2>1. /\ pc' \in [Deployments -> Steps] /\ pc'[d] = "purge"
        /\ \A e \in Deployments \ {d} : pc'[e] = pc[e]
    BY <1>3, GotoDoes DEF Steps
  <2>2. /\ purge' \in [Deployments -> SUBSET Nat] /\ purge'[d] = is
        /\ \A e \in Deployments \ {d} : purge'[e] = purge[e]
    BY <1>0, <1>3 DEF Typed
  <2>3. Typed'
    BY <1>1, <1>3, <2>1, <2>2 DEF Typed
  <2>4. Others(d)
    BY <1>1, <1>3, <2>1, <2>2
       DEF Others, Same, SameCall, SamePlan, SameGot, SamePoll, SameGate
  <2>5. ListOutcomes(d)
    BY <1>3, <2>1, <2>2 DEF ListOutcomes, SameCall, SamePoll, is
  <2> QED
    BY <1>1, <2>3, <2>4, <2>5 DEF cloud, SameGate
<1>4. ASSUME ~force[d], got' = [got EXCEPT ![d] = is], UNCHANGED purge,
             \/ n = Wanted /\ StartPoll(d, is) /\ UNCHANGED <<op, last>>
             \/ Return(d, "raised") /\ UNCHANGED <<up, down, todo>>
             \/ /\ n = 0 \/ n > Wanted
                /\ Goto(d, "create") /\ UNCHANGED <<op, last, up, down, todo>>
      PROVE  Rest1
  <2>1. /\ got' \in [Deployments -> SUBSET Nat] /\ got'[d] = is
        /\ \A e \in Deployments \ {d} : got'[e] = got[e]
    BY <1>0, <1>4 DEF Typed
  <2>2. CASE n = Wanted /\ StartPoll(d, is) /\ UNCHANGED <<op, last>>
    <3>1. /\ pc' \in [Deployments -> Steps] /\ up' \in [Deployments -> SUBSET Nat]
          /\ down' \in [Deployments -> SUBSET Nat] /\ todo' \in [Deployments -> SUBSET Nat]
          /\ Polls(d, is)
          /\ \A e \in Deployments \ {d} : pc'[e] = pc[e] /\ SamePoll(e)
      BY <1>0, <2>2, PollDoes
    <3>2. Typed'
      BY <1>1, <1>4, <2>1, <2>2, <3>1 DEF Typed
    <3>3. Others(d)
      BY <1>1, <1>4, <2>1, <2>2, <3>1
         DEF Others, Same, SameCall, SamePlan, SameGot, SameGate
    <3>4. ListOutcomes(d)
      BY <1>4, <2>1, <2>2, <3>1 DEF ListOutcomes, SameCall, is
    <3> QED
      BY <1>1, <3>2, <3>3, <3>4 DEF cloud, SameGate
  <2>3. CASE Return(d, "raised") /\ UNCHANGED <<up, down, todo>>
    <3>1. "raised" \in Ends
      BY DEF Ends
    <3>2. /\ pc' \in [Deployments -> Steps]
          /\ op' \in [Deployments -> {"none", "init", "destroy"}]
          /\ last' \in [Deployments -> Ends] /\ Returned(d, "raised")
          /\ \A e \in Deployments \ {d} : pc'[e] = pc[e] /\ SameCall(e)
      BY <2>3, <3>1, ReturnDoes
    <3>3. Typed'
      BY <1>1, <1>4, <2>1, <2>3, <3>2 DEF Typed
    <3>4. Others(d)
      BY <1>1, <1>4, <2>1, <2>3, <3>2
         DEF Others, Same, SamePlan, SameGot, SamePoll, SameGate
    <3>5. ListOutcomes(d)
      BY <1>4, <2>1, <2>3, <3>2 DEF ListOutcomes, SamePoll, is
    <3> QED
      BY <1>1, <3>3, <3>4, <3>5 DEF cloud, SameGate
  <2>4. CASE /\ n = 0 \/ n > Wanted
             /\ Goto(d, "create") /\ UNCHANGED <<op, last, up, down, todo>>
    <3>1. /\ pc' \in [Deployments -> Steps] /\ pc'[d] = "create"
          /\ \A e \in Deployments \ {d} : pc'[e] = pc[e]
      BY <2>4, GotoDoes DEF Steps
    <3>2. Typed'
      BY <1>1, <1>4, <2>1, <2>4, <3>1 DEF Typed
    <3>3. Others(d)
      BY <1>1, <1>4, <2>1, <2>4, <3>1
         DEF Others, Same, SameCall, SamePlan, SameGot, SamePoll, SameGate
    <3>4. ListOutcomes(d)
      BY <1>4, <2>1, <2>4, <3>1 DEF ListOutcomes, SameCall, SamePoll, is
    <3> QED
      BY <1>1, <3>2, <3>3, <3>4 DEF cloud, SameGate
  <2> QED
    BY <1>4, <2>2, <2>3, <2>4
<1> QED
  BY <1>1, <1>2, <1>3, <1>4

LEMMA ListAllDoes ==
  ASSUME Typed, NEW d \in Deployments, ListAll(d)
  PROVE  /\ Typed' /\ Others(d) /\ UNCHANGED cloud
         /\ pc[d] = "list" /\ op[d] = "destroy" /\ pc'[d] = "purge"
         /\ purge'[d] \subseteq Ids /\ ensure'[d] = ensure[d]
         /\ SameCall(d) /\ SameGot(d) /\ SamePoll(d) /\ SameGate(d)
<1> DEFINE is == {i \in Ids : Present(i)}
<1>0. is \in SUBSET Nat /\ is \subseteq Ids
  BY ServerTypes DEF Typed
<1>1. /\ pc[d] = "list" /\ op[d] = "destroy"
      /\ purge' = [purge EXCEPT ![d] = is] /\ Goto(d, "purge")
      /\ UNCHANGED <<infra, servers, fip, op, force, ensure, got, made, up, down,
                     todo, gw, picked, last>>
  BY DEF ListAll, cloud, poll, gateway
<1> HIDE DEF is
<1>2. /\ pc' \in [Deployments -> Steps] /\ pc'[d] = "purge"
      /\ \A e \in Deployments \ {d} : pc'[e] = pc[e]
  BY <1>1, GotoDoes DEF Steps
<1>3. /\ purge' \in [Deployments -> SUBSET Nat] /\ purge'[d] = is
      /\ \A e \in Deployments \ {d} : purge'[e] = purge[e]
  BY <1>0, <1>1 DEF Typed
<1>4. Typed'
  BY <1>1, <1>2, <1>3 DEF Typed
<1>5. Others(d) /\ SameCall(d) /\ SameGot(d) /\ SamePoll(d) /\ SameGate(d)
  BY <1>1, <1>2, <1>3 DEF Others, Same, SameCall, SamePlan, SameGot, SamePoll, SameGate
<1> QED
  BY <1>0, <1>1, <1>2, <1>3, <1>4, <1>5 DEF cloud

\* What a request to delete does to the servers.
Deletes(i) ==
  \/ UNCHANGED servers
  \/ /\ \A k \in Ids : k # i => servers'[k] = servers[k]
     /\ servers'[i].dep = servers[i].dep
     /\ servers'[i].deleting
     /\ servers'[i].st = servers[i].st

LEMMA DeleteDoes ==
  ASSUME Typed, NEW d \in Deployments, NEW i \in Ids, Delete(d, i)
  PROVE  /\ Typed' /\ Others(d) /\ UNCHANGED <<infra, fip>> /\ Ids' = Ids
         /\ pc[d] = "purge" /\ i \in purge[d] /\ purge'[d] = purge[d] \ {i}
         /\ ensure'[d] = ensure[d] /\ SameGot(d) /\ SamePoll(d) /\ SameGate(d)
         /\ Deletes(i)
         /\ \/ Returned(d, "raised") /\ UNCHANGED servers
            \/ pc'[d] = pc[d] /\ SameCall(d) /\ servers'[i].deleting
<1>1. /\ pc[d] = "purge" /\ i \in purge[d]
      /\ UNCHANGED <<infra, fip, force, ensure, got, made, up, down, todo, gw, picked>>
  BY DEF Delete, poll, gateway
<1>2. /\ purge' \in [Deployments -> SUBSET Nat] /\ purge'[d] = purge[d] \ {i}
      /\ \A e \in Deployments \ {d} : purge'[e] = purge[e]
  BY DEF Delete, Typed
<1>3. CASE Present(i)
  <2>1. servers' = [servers EXCEPT ![i].deleting = TRUE] /\ UNCHANGED <<pc, op, last>>
    BY <1>3 DEF Delete
  <2>2. /\ servers' \in Seq(Server) /\ Ids' = Ids
        /\ Deletes(i) /\ servers'[i].deleting
    BY <2>1, DeletionAsked DEF Deletes, Typed
  <2>3. Typed'
    BY <1>1, <1>2, <2>1, <2>2 DEF Typed
  <2>4. Others(d) /\ SameCall(d) /\ SameGot(d) /\ SamePoll(d) /\ SameGate(d)
    BY <1>1, <1>2, <2>1
       DEF Others, Same, SameCall, SamePlan, SameGot, SamePoll, SameGate
  <2> QED
    BY <1>1, <1>2, <2>1, <2>2, <2>3, <2>4
<1>4. CASE ~Present(i)
  <2>1. Return(d, "raised") /\ UNCHANGED servers /\ "raised" \in Ends
    BY <1>4 DEF Delete, Ends
  <2>2. /\ pc' \in [Deployments -> Steps]
        /\ op' \in [Deployments -> {"none", "init", "destroy"}]
        /\ last' \in [Deployments -> Ends] /\ Returned(d, "raised")
        /\ \A e \in Deployments \ {d} : pc'[e] = pc[e] /\ SameCall(e)
    BY <2>1, ReturnDoes
  <2>3. Typed'
    BY <1>1, <1>2, <2>1, <2>2 DEF Typed
  <2>4. Others(d) /\ SameGot(d) /\ SamePoll(d) /\ SameGate(d)
    BY <1>1, <1>2, <2>1, <2>2 DEF Others, Same, SamePlan, SameGot, SamePoll, SameGate
  <2> QED
    BY <1>1, <1>2, <2>1, <2>2, <2>3, <2>4 DEF Deletes, Ids
<1> QED
  BY <1>3, <1>4

LEMMA PurgedDoes ==
  ASSUME Typed, NEW d \in Deployments, Purged(d)
  PROVE  /\ Typed' /\ Others(d) /\ UNCHANGED cloud
         /\ pc[d] = "purge" /\ purge[d] = {}
         /\ SamePlan(d) /\ SameGot(d) /\ SamePoll(d) /\ SameGate(d)
         /\ \/ op[d] = "destroy" /\ Returned(d, "destroyed")
            \/ op[d] # "destroy" /\ pc'[d] = "create" /\ SameCall(d)
<1>1. /\ pc[d] = "purge" /\ purge[d] = {}
      /\ UNCHANGED <<infra, servers, fip>> /\ UNCHANGED cloud
      /\ UNCHANGED <<force, local>>
  BY DEF Purged, cloud
<1>2. CASE op[d] = "destroy"
  <2>1. Return(d, "destroyed") /\ "destroyed" \in Ends
    BY <1>2 DEF Purged, Ends
  <2> QED
    BY <1>1, <1>2, <2>1, EndDoes DEF Typed
<1>3. CASE op[d] # "destroy"
  <2>1. Goto(d, "create") /\ UNCHANGED <<op, last>> /\ "create" \in Steps
    BY <1>3 DEF Purged, Steps
  <2> QED
    BY <1>1, <1>3, <2>1, GoDoes
<1> QED
  BY <1>2, <1>3

LEMMA BootDoes ==
  ASSUME Typed, NEW d \in Deployments, Boot(d)
  PROVE  /\ Typed' /\ Others(d) /\ UNCHANGED <<infra, fip>>
         /\ pc[d] = "create" /\ pc'[d] = pc[d] /\ SameCall(d)
         /\ made[d] # Wanted /\ made'[d] = made[d] + 1
         /\ servers' = Append(servers, NewServer(d))
         /\ got'[d] = got[d] \cup {Len(servers) + 1}
         /\ SamePlan(d) /\ SamePoll(d) /\ SameGate(d)
<1>1. /\ pc[d] = "create" /\ made[d] # Wanted
      /\ servers' = Append(servers, NewServer(d))
      /\ UNCHANGED <<infra, fip, pc, op, force, ensure, purge, up, down, todo, gw,
                     picked, last>>
  BY DEF Boot, AllMade, poll, gateway
<1>2. servers' \in Seq(Server) /\ Len(servers) \in Nat
  BY <1>1, Appended DEF Typed
<1> DEFINE js == got[d] \cup {Len(servers) + 1}
<1>3. js \in SUBSET Nat /\ got' = [got EXCEPT ![d] = js]
  BY <1>2 DEF Boot, Typed
<1> HIDE DEF js
<1>4. /\ got' \in [Deployments -> SUBSET Nat] /\ got'[d] = js
      /\ \A e \in Deployments \ {d} : got'[e] = got[e]
  BY <1>3 DEF Typed
<1>5. /\ made' \in [Deployments -> Nat] /\ made'[d] = made[d] + 1
      /\ \A e \in Deployments \ {d} : made'[e] = made[e]
  BY DEF Boot, Typed
<1>6. Typed'
  BY <1>1, <1>2, <1>4, <1>5 DEF Typed
<1>7. Others(d) /\ SameCall(d) /\ SamePlan(d) /\ SamePoll(d) /\ SameGate(d)
  BY <1>1, <1>4, <1>5
     DEF Others, Same, SameCall, SamePlan, SameGot, SamePoll, SameGate
<1> QED
  BY <1>1, <1>4, <1>5, <1>6, <1>7 DEF js

LEMMA BootFailsDoes ==
  ASSUME Typed, NEW d \in Deployments, BootFails(d)
  PROVE  /\ Typed' /\ Others(d) /\ UNCHANGED <<infra, fip>>
         /\ pc[d] = "create" /\ made[d] # Wanted /\ Returned(d, "raised")
         /\ UNCHANGED servers \/ servers' = Append(servers, NewServer(d))
         /\ SamePlan(d) /\ SameGot(d) /\ SamePoll(d) /\ SameGate(d)
<1>1. /\ pc[d] = "create" /\ made[d] # Wanted
      /\ UNCHANGED servers \/ servers' = Append(servers, NewServer(d))
      /\ UNCHANGED <<infra, fip>> /\ Return(d, "raised") /\ UNCHANGED <<force, local>>
  BY DEF BootFails, AllMade
<1>2. servers' \in Seq(Server) /\ infra' \subseteq Names /\ fip' \in [Fips -> Int]
  BY <1>1, Appended DEF Typed
<1>3. "raised" \in Ends
  BY DEF Ends
<1> QED
  BY <1>1, <1>2, <1>3, EndDoes

LEMMA BootingDoes ==
  ASSUME Typed, NEW d \in Deployments, Booting(d)
  PROVE  /\ Typed' /\ Others(d) /\ UNCHANGED cloud
         /\ pc[d] = "create" /\ made[d] = Wanted /\ Polls(d, got[d])
         /\ SameCall(d) /\ SamePlan(d) /\ SameGot(d) /\ SameGate(d)
<1>1. /\ pc[d] = "create" /\ made[d] = Wanted /\ StartPoll(d, got[d])
      /\ UNCHANGED <<infra, servers, fip, op, force, ensure, purge, got, made, gw,
                     picked, last>>
  BY DEF Booting, AllMade, cloud, gateway
<1>2. got[d] \in SUBSET Nat
  BY DEF Typed
<1>3. /\ pc' \in [Deployments -> Steps] /\ up' \in [Deployments -> SUBSET Nat]
      /\ down' \in [Deployments -> SUBSET Nat] /\ todo' \in [Deployments -> SUBSET Nat]
      /\ Polls(d, got[d])
      /\ \A e \in Deployments \ {d} : pc'[e] = pc[e] /\ SamePoll(e)
  BY <1>1, <1>2, PollDoes
<1>4. Typed'
  BY <1>1, <1>3 DEF Typed
<1>5. Others(d) /\ SameCall(d) /\ SamePlan(d) /\ SameGot(d) /\ SameGate(d)
  BY <1>1, <1>3 DEF Others, Same, SameCall, SamePlan, SameGot, SameGate
<1> QED
  BY <1>1, <1>3, <1>4, <1>5 DEF cloud

LEMMA VisitDoes ==
  ASSUME Typed, NEW d \in Deployments, NEW i \in Ids, Visit(d, i)
  PROVE  /\ Typed' /\ Others(d) /\ UNCHANGED cloud
         /\ pc[d] = "wait" /\ i \in todo[d]
         /\ SamePlan(d) /\ SameGot(d) /\ SameGate(d)
         /\ \/ Returned(d, "raised") /\ SamePoll(d)
            \/ /\ pc'[d] = pc[d] /\ SameCall(d)
               /\ todo'[d] = todo[d] \ {i}
               /\ \/ servers[i].st = "active" /\ up'[d] = up[d] \cup {i} /\ down'[d] = down[d]
                  \/ servers[i].st = "error" /\ up'[d] = up[d] /\ down'[d] = down[d] \cup {i}
                  \/ up'[d] = up[d] /\ down'[d] = down[d]
<1>1. /\ pc[d] = "wait" /\ i \in todo[d]
      /\ UNCHANGED <<infra, servers, fip>> /\ UNCHANGED cloud
      /\ UNCHANGED <<force, ensure, purge, got, made, gw, picked>>
  BY DEF Visit, cloud, gateway
<1>2. CASE Present(i)
  <2> DEFINE us == {j \in {i} : servers[j].st = "active"}
             ds == {j \in {i} : servers[j].st = "error"}
  <2>1. UNCHANGED <<pc, op, last>>
    BY <1>2 DEF Visit
  <2>2. /\ todo' = [todo EXCEPT ![d] = todo[d] \ {i}]
        /\ up' = [up EXCEPT ![d] = up[d] \cup us]
        /\ down' = [down EXCEPT ![d] = down[d] \cup ds]
    BY <1>2 DEF Visit
  <2>3. i \in Nat
    BY ServerTypes DEF Typed
  <2>4. /\ us \subseteq Nat /\ ds \subseteq Nat
        /\ \/ servers[i].st = "active" /\ us = {i} /\ ds = {}
           \/ servers[i].st = "error" /\ us = {} /\ ds = {i}
           \/ us = {} /\ ds = {}
    BY <2>3
  <2> HIDE DEF us, ds
  <2>5. /\ todo' \in [Deployments -> SUBSET Nat] /\ todo'[d] = todo[d] \ {i}
        /\ \A e \in Deployments \ {d} : todo'[e] = todo[e]
    BY <2>2 DEF Typed
  <2>6. /\ up' \in [Deployments -> SUBSET Nat] /\ up'[d] = up[d] \cup us
        /\ \A e \in Deployments \ {d} : up'[e] = up[e]
    BY <2>2, <2>4 DEF Typed
  <2>7. /\ down' \in [Deployments -> SUBSET Nat] /\ down'[d] = down[d] \cup ds
        /\ \A e \in Deployments \ {d} : down'[e] = down[e]
    BY <2>2, <2>4 DEF Typed
  <2>8. Typed'
    BY <1>1, <2>1, <2>5, <2>6, <2>7 DEF Typed
  <2>9. Others(d) /\ SameCall(d) /\ SamePlan(d) /\ SameGot(d) /\ SameGate(d)
    BY <1>1, <2>1, <2>5, <2>6, <2>7
       DEF Others, Same, SameCall, SamePlan, SameGot, SamePoll, SameGate
  <2> QED
    BY <1>1, <2>1, <2>4, <2>5, <2>6, <2>7, <2>8, <2>9
<1>3. CASE ~Present(i)
  <2>1. Return(d, "raised") /\ UNCHANGED <<up, down, todo>> /\ "raised" \in Ends
    BY <1>3 DEF Visit, Ends, poll
  <2>2. UNCHANGED <<force, local>>
    BY <1>1, <2>1 DEF local, poll, gateway
  <2> QED
    BY <1>1, <2>1, <2>2, EndDoes DEF Typed
<1> QED
  BY <1>2, <1>3

LEMMA IterateDoes ==
  ASSUME Typed, NEW d \in Deployments, Iterate(d)
  PROVE  /\ Typed' /\ Others(d) /\ UNCHANGED cloud
         /\ pc[d] = "wait" /\ todo[d] = {}
         /\ SameCall(d) /\ SamePlan(d) /\ SameGot(d) /\ SameGate(d)
         /\ \/ Settled(d) /\ pc'[d] = "gateway" /\ SamePoll(d)
            \/ ~Settled(d) /\ Polls(d, got[d])
<1>1. /\ pc[d] = "wait" /\ todo[d] = {}
      /\ UNCHANGED cloud /\ UNCHANGED <<infra, servers, fip>>
      /\ UNCHANGED <<op, force, ensure, purge, got, made, gw, picked, last>>
  BY DEF Iterate, cloud, gateway
<1>2. CASE Settled(d)
  <2>1. Goto(d, "gateway") /\ UNCHANGED <<up, down, todo>> /\ "gateway" \in Steps
    BY <1>2 DEF Iterate, Steps, poll
  <2>2. UNCHANGED <<cloud, op, last, force, local>>
    BY <1>1, <2>1 DEF local, poll, gateway
  <2> QED
    BY <1>1, <1>2, <2>1, <2>2, GoDoes
<1>3. CASE ~Settled(d)
  <2>1. StartPoll(d, got[d]) /\ got[d] \in SUBSET Nat
    BY <1>3 DEF Iterate, Typed
  <2>2. /\ pc' \in [Deployments -> Steps] /\ up' \in [Deployments -> SUBSET Nat]
        /\ down' \in [Deployments -> SUBSET Nat] /\ todo' \in [Deployments -> SUBSET Nat]
        /\ Polls(d, got[d])
        /\ \A e \in Deployments \ {d} : pc'[e] = pc[e] /\ SamePoll(e)
    BY <2>1, PollDoes
  <2>3. Typed'
    BY <1>1, <2>2 DEF Typed
  <2>4. Others(d) /\ SameCall(d) /\ SamePlan(d) /\ SameGot(d) /\ SameGate(d)
    BY <1>1, <2>2 DEF Others, Same, SameCall, SamePlan, SameGot, SameGate
  <2> QED
    BY <1>1, <1>3, <2>2, <2>3, <2>4
<1> QED
  BY <1>2, <1>3

\* The gateway is chosen; it has a floating IP if it needs one.
Chooses(d) ==
  \/ pc'[d] = "pick" /\ SameCall(d)
  \/ Returned(d, "ok") /\ (Gateway => HasFip(gw'[d]))

LEMMA ChooseGatewayDoes ==
  ASSUME Typed, NEW d \in Deployments, ChooseGateway(d)
  PROVE  /\ Typed' /\ Others(d) /\ UNCHANGED cloud
         /\ pc[d] = "gateway" /\ picked'[d] = picked[d]
         /\ SamePlan(d) /\ SameGot(d) /\ SamePoll(d)
         /\ \/ Returned(d, "raised") /\ gw'[d] = gw[d]
            \/ gw'[d] \in up[d] /\ Chooses(d)
<1>1. /\ pc[d] = "gateway" /\ UNCHANGED <<infra, servers, fip>> /\ UNCHANGED cloud
      /\ UNCHANGED <<force, ensure, purge, got, made, up, down, todo, picked>>
  BY DEF ChooseGateway, cloud, poll
<1>2. CASE Return(d, "raised") /\ UNCHANGED gw
  <2>1. UNCHANGED <<force, local>> /\ "raised" \in Ends
    BY <1>1, <1>2 DEF local, poll, gateway, Ends
  <2> QED
    BY <1>1, <1>2, <2>1, EndDoes DEF Typed, SameGate
<1>3. CASE ~(Return(d, "raised") /\ UNCHANGED gw)
  <2> DEFINE m == Min(up[d])
  <2>1. /\ up[d] # {} /\ gw' = [gw EXCEPT ![d] = m]
        /\ \/ Goto(d, "pick") /\ UNCHANGED <<op, last>>
           \/ Return(d, "ok") /\ (Gateway => HasFip(m))
    BY <1>3 DEF ChooseGateway
  <2>2. m \in up[d] /\ m \in Nat
    BY <2>1, MinIn DEF Typed
  <2> HIDE DEF m
  <2>3. /\ gw' \in [Deployments -> Nat] /\ gw'[d] = m
        /\ \A e \in Deployments \ {d} : gw'[e] = gw[e]
    BY <2>1, <2>2 DEF Typed
  <2>4. /\ pc' \in [Deployments -> Steps]
        /\ op' \in [Deployments -> {"none", "init", "destroy"}]
        /\ last' \in [Deployments -> Ends]
        /\ \/ pc'[d] = "pick" /\ SameCall(d)
           \/ Returned(d, "ok") /\ (Gateway => HasFip(m))
        /\ \A e \in Deployments \ {d} : pc'[e] = pc[e] /\ SameCall(e)
    <3>1. CASE Goto(d, "pick") /\ UNCHANGED <<op, last>>
      BY <3>1, GotoDoes DEF Typed, SameCall, Steps
    <3>2. CASE Return(d, "ok") /\ (Gateway => HasFip(m))
      <4>1. "ok" \in Ends
        BY DEF Ends
      <4> QED
        BY <3>2, <4>1, ReturnDoes
    <3> QED
      BY <2>1, <3>1, <3>2
  <2>5. Typed'
    BY <1>1, <2>3, <2>4 DEF Typed
  <2>6. Others(d) /\ SamePlan(d) /\ SameGot(d) /\ SamePoll(d)
    BY <1>1, <2>3, <2>4 DEF Others, Same, SamePlan, SameGot, SamePoll, SameGate
  <2> QED
    BY <1>1, <2>2, <2>3, <2>4, <2>5, <2>6 DEF Chooses
<1> QED
  BY <1>2, <1>3

LEMMA PickFipDoes ==
  ASSUME Typed, NEW d \in Deployments, PickFip(d)
  PROVE  /\ Typed' /\ Others(d) /\ UNCHANGED <<infra, servers>>
         /\ pc[d] = "pick" /\ pc'[d] = "associate" /\ SameCall(d)
         /\ gw'[d] = gw[d] /\ picked'[d] \in Fips
         /\ fip[picked'[d]] \in {Absent, Free} /\ fip'[picked'[d]] = Free
         /\ \A g \in Fips : g # picked'[d] => fip'[g] = fip[g]
         /\ SamePlan(d) /\ SameGot(d) /\ SamePoll(d)
<1>1. /\ pc[d] = "pick" /\ Goto(d, "associate") /\ "associate" \in Steps
      /\ UNCHANGED <<infra, servers, op, force, ensure, purge, got, made, up, down,
                     todo, gw, last>>
  BY DEF PickFip, poll, Steps
<1>2. PICK f \in Fips : /\ fip[f] \in {Absent, Free}
                        /\ picked' = [picked EXCEPT ![d] = f]
                        /\ fip' = [fip EXCEPT ![f] = Free]
  BY DEF PickFip
<1>3. /\ picked' \in [Deployments -> Fips \cup {NoFip}] /\ picked'[d] = f
      /\ \A e \in Deployments \ {d} : picked'[e] = picked[e]
  BY <1>2 DEF Typed
<1>4. /\ fip' \in [Fips -> Int] /\ fip'[f] = Free
      /\ \A g \in Fips : g # f => fip'[g] = fip[g]
  BY <1>2 DEF Typed, Free
<1>5. /\ pc' \in [Deployments -> Steps] /\ pc'[d] = "associate"
      /\ \A e \in Deployments \ {d} : pc'[e] = pc[e]
  BY <1>1, GotoDoes
<1>6. Typed'
  BY <1>1, <1>3, <1>4, <1>5 DEF Typed
<1>7. Others(d) /\ SameCall(d) /\ SamePlan(d) /\ SameGot(d) /\ SamePoll(d)
  BY <1>1, <1>3, <1>5 DEF Others, Same, SameCall, SamePlan, SameGot, SamePoll, SameGate
<1> QED
  BY <1>1, <1>2, <1>3, <1>4, <1>5, <1>6, <1>7

LEMMA AssociateDoes ==
  ASSUME Typed, NEW d \in Deployments, Associate(d), picked[d] \in Fips
  PROVE  /\ Typed' /\ Others(d) /\ UNCHANGED <<infra, servers>>
         /\ pc[d] = "associate"
         /\ SamePlan(d) /\ SameGot(d) /\ SamePoll(d) /\ SameGate(d)
         /\ \/ Returned(d, "raised") /\ UNCHANGED fip
            \/ /\ Returned(d, "ok") /\ fip'[picked[d]] = gw[d]
               /\ \A g \in Fips : g # picked[d] => fip'[g] = fip[g]
<1>1. /\ pc[d] = "associate" /\ UNCHANGED <<infra, servers>>
      /\ UNCHANGED <<force, local>>
  BY DEF Associate
<1>2. \/ fip' = [fip EXCEPT ![picked[d]] = gw[d]] /\ Return(d, "ok")
      \/ Return(d, "raised") /\ UNCHANGED fip
  BY DEF Associate
<1>3. {"ok", "raised"} \subseteq Ends
  BY DEF Ends
<1>4. gw[d] \in Nat
  BY DEF Typed
<1>5. CASE fip' = [fip EXCEPT ![picked[d]] = gw[d]] /\ Return(d, "ok")
  <2>1. /\ fip' \in [Fips -> Int] /\ fip'[picked[d]] = gw[d]
        /\ \A g \in Fips : g # picked[d] => fip'[g] = fip[g]
    BY <1>4, <1>5 DEF Typed
  <2> QED
    BY <1>1, <1>3, <1>5, <2>1, EndDoes DEF Typed
<1>6. CASE Return(d, "raised") /\ UNCHANGED fip
  BY <1>1, <1>3, <1>6, EndDoes DEF Typed
<1> QED
  BY <1>2, <1>5, <1>6

\* A call that fails, or is killed, or returns: nothing else changes.
LEMMA FailDoes ==
  ASSUME Typed, NEW d \in Deployments,
         NetworkFails(d) \/ FipFails(d) \/ Crash(d)
  PROVE  /\ Typed' /\ Others(d) /\ UNCHANGED cloud
         /\ Returned(d, "raised") \/ Returned(d, "none")
         /\ SamePlan(d) /\ SameGot(d) /\ SamePoll(d) /\ SameGate(d)
<1>1. UNCHANGED cloud /\ UNCHANGED <<infra, servers, fip>> /\ UNCHANGED <<force, local>>
  BY DEF NetworkFails, FipFails, Crash, cloud
<1>2. {"raised", "none"} \subseteq Ends
  BY DEF Ends
<1>3. infra' \subseteq Names /\ servers' \in Seq(Server) /\ fip' \in [Fips -> Int]
  BY <1>1 DEF Typed
<1>4. CASE Return(d, "raised")
  BY <1>1, <1>2, <1>3, <1>4, EndDoes
<1>5. CASE Return(d, "none")
  BY <1>1, <1>2, <1>3, <1>5, EndDoes
<1> QED
  BY <1>4, <1>5 DEF NetworkFails, FipFails, Crash

LEMMA NetworkReadyDoes ==
  ASSUME Typed, NEW d \in Deployments, NetworkReady(d)
  PROVE  /\ Typed' /\ Others(d) /\ UNCHANGED cloud
         /\ pc[d] = "network" /\ ensure[d] = <<>> /\ pc'[d] = "list" /\ SameCall(d)
         /\ SamePlan(d) /\ SameGot(d) /\ SamePoll(d) /\ SameGate(d)
<1>1. /\ pc[d] = "network" /\ ensure[d] = <<>> /\ Goto(d, "list") /\ "list" \in Steps
      /\ UNCHANGED cloud /\ UNCHANGED <<cloud, op, last, force, local>>
  BY DEF NetworkReady, Steps
<1> QED
  BY <1>1, GoDoes

\* The cloud moves on: the servers change, the calls do not.
Evolves(i) ==
  /\ \A e \in Deployments : Same(e)
  /\ UNCHANGED infra
  /\ Ids' = Ids
  /\ \A k \in Ids : k # i => servers'[k] = servers[k]
  /\ servers'[i].dep = servers[i].dep /\ servers'[i].deleting = servers[i].deleting
  /\ \/ /\ servers[i].st = "build" /\ servers'[i].st \in {"active", "error"}
        /\ UNCHANGED fip
     \/ /\ servers[i].deleting /\ servers'[i].st = "gone"
        /\ \A f \in Fips : fip'[f] = IF fip[f] = i THEN Free ELSE fip[f]

LEMMA CloudDoes ==
  ASSUME Typed, NEW i \in Ids, Started(i) \/ Vanish(i)
  PROVE  Typed' /\ Evolves(i)
<1>1. UNCHANGED <<infra, pc, op, force, ensure, purge, got, made, up, down, todo,
                  gw, picked, last>>
  BY DEF Started, Vanish, local, poll, gateway
<1>2. \A e \in Deployments : Same(e)
  BY <1>1 DEF Same, SameCall, SamePlan, SameGot, SamePoll, SameGate
<1>3. CASE Started(i)
  <2>1. PICK st \in {"active", "error"} : servers' = [servers EXCEPT ![i].st = st]
    BY <1>3 DEF Started
  <2>2. st \in Statuses
    BY DEF Statuses
  <2>3. /\ servers' \in Seq(Server) /\ Ids' = Ids
        /\ \A k \in Ids : k # i => servers'[k] = servers[k]
        /\ servers'[i].dep = servers[i].dep
        /\ servers'[i].deleting = servers[i].deleting
        /\ servers'[i].st = st
    BY <2>1, <2>2, StatusChanged DEF Typed
  <2>4. servers[i].st = "build" /\ UNCHANGED fip
    BY <1>3 DEF Started
  <2> QED
    BY <1>1, <1>2, <2>3, <2>4 DEF Typed, Evolves
<1>4. CASE Vanish(i)
  <2>1. /\ servers' = [servers EXCEPT ![i].st = "gone"] /\ "gone" \in Statuses
        /\ servers[i].deleting
        /\ fip' = [f \in Fips |-> IF fip[f] = i THEN Free ELSE fip[f]]
    BY <1>4 DEF Vanish, Statuses
  <2>2. /\ servers' \in Seq(Server) /\ Ids' = Ids
        /\ \A k \in Ids : k # i => servers'[k] = servers[k]
        /\ servers'[i].dep = servers[i].dep
        /\ servers'[i].deleting = servers[i].deleting
        /\ servers'[i].st = "gone"
    BY <2>1, StatusChanged DEF Typed
  <2>3. fip' \in [Fips -> Int]
    BY <2>1 DEF Typed, Free
  <2> QED
    BY <1>1, <1>2, <2>1, <2>2, <2>3 DEF Typed, Evolves
<1> QED
  BY <1>3, <1>4

-----------------------------------------------------------------------------
(* General is inductive *)

FipsKnown == \A f \in Fips : fip[f] \in {Absent, Free} \cup Ids

\* The cloud only grows, and a server never boots again.
Grows ==
  /\ infra \subseteq infra' /\ Ids \subseteq Ids'
  /\ \A i \in Ids :
       /\ servers'[i].dep = servers[i].dep
       /\ servers[i].st \in {"active", "gone"} => servers'[i].st \in {"active", "gone"}
       /\ servers[i].st \in {"error", "gone"} => servers'[i].st \in {"error", "gone"}

LEMMA StillGrows ==
  ASSUME Typed
  PROVE  /\ UNCHANGED <<infra, servers>> => Grows
         /\ \A r : infra' = infra \cup {r} /\ UNCHANGED servers => Grows
         /\ \A d \in Deployments :
              UNCHANGED infra /\ servers' = Append(servers, NewServer(d)) => Grows
         /\ \A i \in Ids : UNCHANGED infra /\ Ids' = Ids /\ Deletes(i) => Grows
         /\ \A i \in Ids : Evolves(i) => Grows
<1>1. UNCHANGED <<infra, servers>> => Grows
  BY DEF Grows, Ids
<1>2. \A r : infra' = infra \cup {r} /\ UNCHANGED servers => Grows
  BY DEF Grows, Ids
<1>3. ASSUME NEW d \in Deployments, UNCHANGED infra,
             servers' = Append(servers, NewServer(d))
      PROVE  Grows
  BY <1>3, Appended DEF Grows, Typed
<1>4. ASSUME NEW i \in Ids, UNCHANGED infra, Ids' = Ids, Deletes(i)
      PROVE  Grows
  BY <1>4 DEF Grows, Deletes
<1>5. ASSUME NEW i \in Ids, Evolves(i)
      PROVE  Grows
  BY <1>5 DEF Grows, Evolves
<1> QED
  BY <1>1, <1>2, <1>3, <1>4, <1>5

\* Deployments that take no step.
LEMMA Frame ==
  ASSUME Grows, NEW e \in Deployments, Same(e), Stands(e), Ensures(e), Counts(e)
  PROVE  Stands(e)' /\ Ensures(e)' /\ Counts(e)'
<1> USE DEF Same, SameCall, SamePlan, SameGot, SamePoll, SameGate, Grows
<1>1. Stands(e)'
  BY DEF Stands
<1>2. Ensures(e)'
  BY DEF Ensures, Suffix, Resources, Passed
<1>3. Counts(e)'
  BY DEF Stands, Counts
<1> QED
  BY <1>1, <1>2, <1>3

\* A call that fails keeps what it had.
LEMMA Failing ==
  ASSUME Grows, NEW d \in Deployments, Stands(d), Counts(d),
         Returned(d, "raised") \/ Returned(d, "none") \/ Returned(d, "destroyed"),
         purge'[d] \cup got'[d] \subseteq Ids', made'[d] = made[d],
         SamePoll(d), SameGate(d)
  PROVE  Stands(d)' /\ Ensures(d)' /\ Counts(d)'
<1> USE DEF Returned, SamePoll, SameGate, Grows
<1>1. Stands(d)'
  BY DEF Stands
<1>2. Ensures(d)'
  BY DEF Ensures
<1>3. Counts(d)'
  BY DEF Stands, Counts
<1> QED
  BY <1>1, <1>2, <1>3

\* One resource is passed over, with what was made along with it.
LEMMA RestIs ==
  ASSUME NEW d \in Deployments, NEW k \in 1 .. 7, ensure[d] = Suffix(k),
         Resources[k] \notin Created
  PROVE  \E j \in 1 .. 8 : /\ Rest(d, Resources[k]) = Suffix(j)
                           /\ Passed(j) \subseteq Passed(k) \cup {Resources[k]}
<1>1. k \in {1, 4, 5, 6}
  BY DEF Created, Resources
<1>2. Rest(d, Resources[k]) =
        SubSeq(SubSeq(Resources, k, 7), 2 + Len(Parts(Resources[k])), 8 - k)
  <2>1. Len(ensure[d]) = 8 - k
    <3>1. k \in 1 .. 8
      OBVIOUS
    <3>2. Len(Suffix(k)) = 8 - k
      BY <3>1, SuffixSeq
    <3> QED
      BY <3>2
  <2>2. ensure[d] = SubSeq(Resources, k, 7)
    BY ResourcesSeq DEF Suffix
  <2> QED
    BY <2>1, <2>2 DEF Rest
<1>3. CASE k = 1
  <2>1. Rest(d, Resources[k]) = Suffix(4)
    BY <1>2, <1>3 DEF Parts, Resources, Suffix
  <2>2. Passed(4) \subseteq {Resources[1]}
    BY DEF Passed, Resources, Owners
  <2> QED
    BY <1>3, <2>1, <2>2
<1>4. CASE k = 4
  <2>1. Rest(d, Resources[k]) = Suffix(5)
    BY <1>2, <1>4 DEF Parts, Resources, Suffix
  <2> QED
    BY <1>4, <2>1 DEF Passed
<1>5. CASE k = 5
  <2>1. Rest(d, Resources[k]) = Suffix(6)
    BY <1>2, <1>5 DEF Parts, Resources, Suffix
  <2> QED
    BY <1>5, <2>1 DEF Passed
<1>6. CASE k = 6
  <2>1. Rest(d, Resources[k]) = Suffix(8)
    BY <1>2, <1>6 DEF Parts, Resources, Suffix
  <2>2. Passed(8) \subseteq Passed(6) \cup {Resources[6]}
    BY DEF Passed, Resources, Owners
  <2> QED
    BY <1>6, <2>1, <2>2
<1> QED
  BY <1>1, <1>3, <1>4, <1>5, <1>6

Keeps(d) == Typed' /\ Grows /\ FipsKnown' /\ Others(d) /\ Stands(d)' /\ Ensures(d)' /\ Counts(d)'

LEMMA NetworkKeeps ==
  ASSUME General, NEW d \in Deployments,
         (\E o \in {"init", "destroy"}, f \in BOOLEAN : Call(d, o, f))
         \/ Found(d) \/ Create(d) \/ NetworkReady(d)
  PROVE  Keeps(d)
<1>0. /\ Typed /\ FipsKnown /\ Stands(d) /\ Ensures(d) /\ Counts(d)
  BY DEF General, FipsKnown
<1> USE DEF SameCall, SamePlan, SameGot, SamePoll, SameGate
<1>1. ASSUME NEW o \in {"init", "destroy"}, NEW f \in BOOLEAN, Call(d, o, f)
      PROVE  Keeps(d)
  <2>1. Typed' /\ Others(d) /\ UNCHANGED <<infra, servers, fip>> /\ Calls(d, o)
    BY <1>0, <1>1, CallDoes DEF cloud
  <2>2. Grows /\ Ids' = Ids /\ FipsKnown'
    BY <1>0, <2>1, StillGrows DEF FipsKnown, Ids
  <2>3. Stands(d)'
    BY <1>0, <2>1, <2>2, OpenstackAssumption DEF Calls, Stands
  <2>4. Passed(1) = {}
    BY DEF Passed
  <2>5. Ensures(d)'
    BY <2>1, <2>4, SuffixEnds DEF Calls, Ensures
  <2>6. Counts(d)'
    BY <1>0, <2>1 DEF Calls, Counts
  <2> QED
    BY <2>1, <2>2, <2>3, <2>5, <2>6 DEF Keeps
<1>2. CASE Found(d)
  <2>1. /\ Others(d) /\ UNCHANGED <<infra, servers, fip>>
        /\ pc[d] = "network" /\ ensure[d] # <<>>
        /\ \/ Head(ensure[d]) \in infra \ Created
           \/ Head(ensure[d]) = "router" /\ ~Configure
        /\ ensure' = [ensure EXCEPT ![d] = Rest(d, Head(ensure[d]))]
        /\ ensure'[d] = Rest(d, Head(ensure[d]))
        /\ UNCHANGED <<pc, op, last, force, purge, got, made, up, down, todo, gw, picked>>
    BY <1>0, <1>2, FoundDoes DEF cloud
  <2>2. Grows /\ Ids' = Ids /\ FipsKnown'
    BY <1>0, <2>1, StillGrows DEF FipsKnown, Ids
  <2>3. PICK k \in 1 .. 8 : ensure[d] = Suffix(k) /\ (Configure => Passed(k) \subseteq infra)
    BY <1>0, <2>1 DEF Ensures
  <2>4. k \in 1 .. 7 /\ Head(ensure[d]) = Resources[k]
    BY <2>1, <2>3, SuffixSteps
  <2>5. Resources[k] \notin Created /\ (Configure => Resources[k] \in infra)
    BY <2>1, <2>4 DEF Created
  <2>6. PICK j \in 1 .. 8 : /\ Rest(d, Resources[k]) = Suffix(j)
                           /\ Passed(j) \subseteq Passed(k) \cup {Resources[k]}
    BY <2>3, <2>4, <2>5, RestIs
  <2>7. ensure'[d] = Suffix(j) /\ (Configure => Passed(j) \subseteq infra')
    BY <2>1, <2>3, <2>4, <2>5, <2>6
  <2>8. ensure' \in [Deployments -> Seq(Names)]
    <3>1. Suffix(j) \in Seq(Names) /\ ensure' = [ensure EXCEPT ![d] = Suffix(j)]
      BY <2>1, <2>4, <2>6, SuffixSeq
    <3> QED
      BY <1>0, <3>1 DEF Typed
  <2>9. Typed'
    BY <1>0, <2>1, <2>8 DEF Typed
  <2>10. Stands(d)'
    BY <1>0, <2>1, <2>2 DEF Stands
  <2>11. Ensures(d)'
    <3>1. pc'[d] = "network" /\ last'[d] # "ok"
      BY <1>0, <2>1 DEF Stands
    <3> QED
      BY <2>7, <3>1 DEF Ensures
  <2>12. Counts(d)'
    BY <1>0, <2>1 DEF Counts
  <2> QED
    BY <2>1, <2>2, <2>9, <2>10, <2>11, <2>12 DEF Keeps
<1>3. CASE Create(d)
  <2>1. /\ Typed' /\ Others(d) /\ UNCHANGED <<servers, fip>>
        /\ pc[d] = "network" /\ ensure[d] # <<>>
        /\ infra' = infra \cup {Head(ensure[d])}
        /\ ensure'[d] = Tail(ensure[d])
        /\ pc'[d] = pc[d] /\ SameCall(d) /\ purge'[d] = purge[d]
        /\ SameGot(d) /\ SamePoll(d) /\ SameGate(d)
    BY <1>0, <1>3, CreateDoes
  <2>2. Grows /\ Ids' = Ids /\ FipsKnown'
    BY <1>0, <2>1, StillGrows DEF FipsKnown, Ids
  <2>3. PICK k \in 1 .. 8 : ensure[d] = Suffix(k) /\ (Configure => Passed(k) \subseteq infra)
    BY <1>0, <2>1 DEF Ensures
  <2>4. /\ k \in 1 .. 7 /\ k + 1 \in 1 .. 8
        /\ Head(ensure[d]) = Resources[k] /\ ensure'[d] = Suffix(k + 1)
    <3>1. k \in 1 .. 7 /\ Head(ensure[d]) = Resources[k] /\ Tail(ensure[d]) = Suffix(k + 1)
      BY <2>1, <2>3, SuffixSteps
    <3>2. k + 1 \in 1 .. 8
      BY <3>1
    <3> QED
      BY <2>1, <3>1, <3>2
  <2>5. Passed(k + 1) \subseteq Passed(k) \cup {Resources[k]}
    BY DEF Passed
  <2>6. Configure => Passed(k + 1) \subseteq infra'
    BY <2>1, <2>3, <2>4, <2>5
  <2>7. Stands(d)'
    BY <1>0, <2>1, <2>2 DEF Stands
  <2>8. Ensures(d)'
    <3>1. pc'[d] = "network" /\ last'[d] # "ok"
      BY <1>0, <2>1 DEF Stands
    <3> QED
      BY <2>4, <2>6, <3>1 DEF Ensures
  <2>9. Counts(d)'
    BY <1>0, <2>1 DEF Counts
  <2> QED
    BY <2>1, <2>2, <2>7, <2>8, <2>9 DEF Keeps
<1>4. CASE NetworkReady(d)
  <2>1. /\ Typed' /\ Others(d) /\ UNCHANGED <<infra, servers, fip>>
        /\ pc[d] = "network" /\ ensure[d] = <<>> /\ pc'[d] = "list" /\ SameCall(d)
        /\ SamePlan(d) /\ SameGot(d) /\ SamePoll(d) /\ SameGate(d)
    BY <1>0, <1>4, NetworkReadyDoes DEF cloud
  <2>2. Grows /\ Ids' = Ids /\ FipsKnown'
    BY <1>0, <2>1, StillGrows DEF FipsKnown, Ids
  <2>3. PICK k \in 1 .. 8 : ensure[d] = Suffix(k) /\ (Configure => Passed(k) \subseteq infra)
    BY <1>0, <2>1 DEF Ensures
  <2>4. k = 8
    BY <2>1, <2>3, SuffixDone
  <2>5. Passed(8) = Owners
    BY DEF Passed, Owners, Resources
  <2>6. Stands(d)'
    BY <1>0, <2>1, <2>2 DEF Stands
  <2>7. Ensures(d)'
    BY <2>1, <2>3, <2>4, <2>5 DEF Ensures
  <2>8. Counts(d)'
    BY <1>0, <2>1 DEF Counts, Stands
  <2> QED
    BY <2>1, <2>2, <2>6, <2>7, <2>8 DEF Keeps
<1> QED
  BY <1>1, <1>2, <1>3, <1>4

LEMMA FiniteIds ==
  ASSUME Typed
  PROVE  IsFiniteSet(Ids) /\ \A S \in SUBSET Ids : IsFiniteSet(S)
<1>1. IsFiniteSet(Ids)
  BY ServerTypes, FS_Interval DEF Typed, Ids
<1> QED
  BY <1>1, FS_Subset

\* The poll is over when every server has come up or failed.
LEMMA SettledMeans ==
  ASSUME Typed, NEW d \in Deployments, Stands(d), Settled(d),
         up[d] \cup down[d] \subseteq got[d]
  PROVE  up[d] \cup down[d] = got[d]
<1> DEFINE U == up[d] D == down[d] G == got[d]
<1>1. IsFiniteSet(U) /\ IsFiniteSet(D) /\ IsFiniteSet(G) /\ U \cap D = {}
  BY FiniteIds DEF Stands
<1>2. Cardinality(U) + Cardinality(D) >= Cardinality(G)
  BY DEF Settled
<1>3. U \cup D \subseteq G
  OBVIOUS
<1> HIDE DEF U, D, G
<1>4. Cardinality(U \cap D) = 0
  BY <1>1, FS_EmptySet
<1>5. /\ Cardinality(U) \in Nat /\ Cardinality(D) \in Nat /\ Cardinality(G) \in Nat
      /\ Cardinality(U \cup D) = Cardinality(U) + Cardinality(D) - Cardinality(U \cap D)
  BY <1>1, FS_Union, FS_CardinalityType
<1>6. Cardinality(U \cup D) <= Cardinality(G) /\ (Cardinality(U \cup D) = Cardinality(G) => U \cup D = G)
  BY <1>1, <1>3, FS_Subset
<1>7. U \cup D = G
  BY <1>2, <1>4, <1>5, <1>6
<1> QED
  BY <1>7 DEF U, D, G

LEMMA ServersKeep ==
  ASSUME General, NEW d \in Deployments,
         List(d) \/ ListAll(d) \/ Purged(d) \/ (\E i \in Ids : Delete(d, i))
         \/ Boot(d) \/ BootFails(d) \/ Booting(d)
  PROVE  Keeps(d)
<1>0. /\ Typed /\ FipsKnown /\ Stands(d) /\ Ensures(d) /\ Counts(d)
  BY DEF General, FipsKnown
<1> USE DEF SameCall, SamePlan, SameGot, SamePoll, SameGate
<1>1. CASE List(d)
  <2>1. /\ Typed' /\ Others(d) /\ UNCHANGED <<infra, servers, fip>>
        /\ pc[d] = "list" /\ op[d] = "init"
        /\ made'[d] = made[d] /\ SameGate(d) /\ ListOutcomes(d)
    BY <1>0, <1>1, ListDoes DEF cloud
  <2>2. Grows /\ Ids' = Ids /\ FipsKnown'
    BY <1>0, <2>1, StillGrows DEF FipsKnown, Ids
  <2>3. Listed(d) \subseteq Ids
    BY DEF Listed
  <2>4. CASE Returned(d, "raised")
    <3>1. purge'[d] \cup got'[d] \subseteq Ids' /\ SamePoll(d)
      BY <1>0, <2>1, <2>2, <2>3, <2>4 DEF ListOutcomes, Returned, Polls, Stands
    <3>2. Stands(d)' /\ Ensures(d)' /\ Counts(d)'
      BY <1>0, <2>1, <2>2, <2>4, <3>1, Failing
    <3> QED
      BY <2>1, <2>2, <3>2 DEF Keeps
  <2>5. CASE ~Returned(d, "raised")
    <3>1. Stands(d)'
      BY <1>0, <2>1, <2>2, <2>3, <2>5 DEF ListOutcomes, Polls, Stands
    <3>2. Ensures(d)'
      BY <1>0, <2>1, <2>5 DEF ListOutcomes, Polls, Ensures, Stands
    <3>3. Counts(d)'
      BY <1>0, <2>1, <2>5 DEF ListOutcomes, Polls, Counts, Stands
    <3> QED
      BY <2>1, <2>2, <3>1, <3>2, <3>3 DEF Keeps
  <2> QED
    BY <2>4, <2>5
<1>2. CASE ListAll(d)
  <2>1. /\ Typed' /\ Others(d) /\ UNCHANGED <<infra, servers, fip>>
        /\ pc[d] = "list" /\ op[d] = "destroy" /\ pc'[d] = "purge"
        /\ purge'[d] \subseteq Ids
        /\ SameCall(d) /\ SameGot(d) /\ SamePoll(d) /\ SameGate(d)
    BY <1>0, <1>2, ListAllDoes DEF cloud
  <2>2. Grows /\ Ids' = Ids /\ FipsKnown'
    BY <1>0, <2>1, StillGrows DEF FipsKnown, Ids
  <2>3. Stands(d)'
    BY <1>0, <2>1, <2>2 DEF Stands
  <2>4. Ensures(d)' /\ Counts(d)'
    BY <1>0, <2>1 DEF Stands, Ensures, Counts
  <2> QED
    BY <2>1, <2>2, <2>3, <2>4 DEF Keeps
<1>3. CASE Purged(d)
  <2>1. /\ Typed' /\ Others(d) /\ UNCHANGED <<infra, servers, fip>>
        /\ pc[d] = "purge" /\ purge[d] = {}
        /\ SamePlan(d) /\ SameGot(d) /\ SamePoll(d) /\ SameGate(d)
        /\ \/ op[d] = "destroy" /\ Returned(d, "destroyed")
           \/ op[d] # "destroy" /\ pc'[d] = "create" /\ SameCall(d)
    BY <1>0, <1>3, PurgedDoes DEF cloud
  <2>2. Grows /\ Ids' = Ids /\ FipsKnown'
    BY <1>0, <2>1, StillGrows DEF FipsKnown, Ids
  <2>3. CASE Returned(d, "destroyed")
    <3>1. purge'[d] \cup got'[d] \subseteq Ids'
      BY <1>0, <2>1, <2>2 DEF Stands
    <3>2. Stands(d)' /\ Ensures(d)' /\ Counts(d)'
      BY <1>0, <2>1, <2>2, <2>3, <3>1, Failing
    <3> QED
      BY <2>1, <2>2, <3>2 DEF Keeps
  <2>4. CASE op[d] # "destroy" /\ pc'[d] = "create" /\ SameCall(d)
    <3>1. op[d] = "init"
      BY <1>0, <2>1, <2>4 DEF Stands, Typed
    <3>2. Stands(d)'
      BY <1>0, <2>1, <2>2, <2>4, <3>1 DEF Stands
    <3>3. Ensures(d)' /\ Counts(d)'
      BY <1>0, <2>1, <2>4, <3>1 DEF Stands, Ensures, Counts
    <3> QED
      BY <2>1, <2>2, <3>2, <3>3 DEF Keeps
  <2> QED
    BY <2>1, <2>3, <2>4
<1>4. ASSUME NEW i \in Ids, Delete(d, i)
      PROVE  Keeps(d)
  <2>1. /\ Typed' /\ Others(d) /\ UNCHANGED <<infra, fip>> /\ Ids' = Ids
        /\ pc[d] = "purge" /\ purge'[d] = purge[d] \ {i}
        /\ SameGot(d) /\ SamePoll(d) /\ SameGate(d)
        /\ Deletes(i)
        /\ Returned(d, "raised") \/ (pc'[d] = pc[d] /\ SameCall(d))
    BY <1>0, <1>4, DeleteDoes
  <2>2. Grows /\ FipsKnown'
    BY <1>0, <2>1, StillGrows DEF FipsKnown
  <2>3. CASE Returned(d, "raised")
    <3>1. purge'[d] \cup got'[d] \subseteq Ids'
      BY <1>0, <2>1 DEF Stands
    <3>2. Stands(d)' /\ Ensures(d)' /\ Counts(d)'
      BY <1>0, <2>1, <2>2, <2>3, <3>1, Failing
    <3> QED
      BY <2>1, <2>2, <3>2 DEF Keeps
  <2>4. CASE pc'[d] = pc[d] /\ SameCall(d)
    <3>1. Stands(d)'
      BY <1>0, <2>1, <2>4 DEF Stands
    <3>2. Ensures(d)' /\ Counts(d)'
      BY <1>0, <2>1, <2>2, <2>4 DEF Stands, Ensures, Counts, Grows
    <3> QED
      BY <2>1, <2>2, <3>1, <3>2 DEF Keeps
  <2> QED
    BY <2>1, <2>3, <2>4
<1>5. CASE Boot(d)
  <2>1. /\ Typed' /\ Others(d) /\ UNCHANGED <<infra, fip>>
        /\ pc[d] = "create" /\ pc'[d] = pc[d] /\ SameCall(d)
        /\ made[d] # Wanted /\ made'[d] = made[d] + 1
        /\ servers' = Append(servers, NewServer(d))
        /\ got'[d] = got[d] \cup {Len(servers) + 1}
        /\ SamePlan(d) /\ SamePoll(d) /\ SameGate(d)
    BY <1>0, <1>5, BootDoes
  <2>2. Grows /\ Ids' = Ids \cup {Len(servers) + 1}
    BY <1>0, <2>1, StillGrows, Appended DEF Typed
  <2>3. FipsKnown'
    BY <1>0, <2>1, <2>2 DEF FipsKnown
  <2>4. made'[d] <= Wanted
    BY <1>0, <2>1, OpenstackAssumption DEF Stands, Typed
  <2>5. Stands(d)'
    BY <1>0, <2>1, <2>2, <2>4 DEF Stands
  <2>6. Ensures(d)' /\ Counts(d)'
    BY <1>0, <2>1, <2>2 DEF Stands, Ensures, Counts, Grows
  <2> QED
    BY <2>1, <2>2, <2>3, <2>5, <2>6 DEF Keeps
<1>6. CASE BootFails(d)
  <2>1. /\ Typed' /\ Others(d) /\ UNCHANGED <<infra, fip>> /\ Returned(d, "raised")
        /\ UNCHANGED servers \/ servers' = Append(servers, NewServer(d))
        /\ SamePlan(d) /\ SameGot(d) /\ SamePoll(d) /\ SameGate(d)
    BY <1>0, <1>6, BootFailsDoes
  <2>2. Grows
    BY <1>0, <2>1, StillGrows
  <2>3. FipsKnown' /\ purge'[d] \cup got'[d] \subseteq Ids'
    BY <1>0, <2>1, <2>2 DEF FipsKnown, Grows, Stands
  <2>4. Stands(d)' /\ Ensures(d)' /\ Counts(d)'
    BY <1>0, <2>1, <2>2, <2>3, Failing
  <2> QED
    BY <2>1, <2>2, <2>3, <2>4 DEF Keeps
<1>7. CASE Booting(d)
  <2>1. /\ Typed' /\ Others(d) /\ UNCHANGED <<infra, servers, fip>>
        /\ pc[d] = "create" /\ Polls(d, got[d])
        /\ SameCall(d) /\ SamePlan(d) /\ SameGot(d) /\ SameGate(d)
    BY <1>0, <1>7, BootingDoes DEF cloud
  <2>2. Grows /\ Ids' = Ids /\ FipsKnown'
    BY <1>0, <2>1, StillGrows DEF FipsKnown, Ids
  <2>3. Stands(d)'
    BY <1>0, <2>1, <2>2 DEF Stands, Polls
  <2>4. Ensures(d)' /\ Counts(d)'
    BY <1>0, <2>1 DEF Stands, Ensures, Counts, Polls
  <2> QED
    BY <2>1, <2>2, <2>3, <2>4 DEF Keeps
<1> QED
  BY <1>1, <1>2, <1>3, <1>4, <1>5, <1>6, <1>7

LEMMA PollKeeps ==
  ASSUME General, NEW d \in Deployments,
         (\E i \in Ids : Visit(d, i)) \/ Iterate(d) \/ ChooseGateway(d)
         \/ PickFip(d) \/ Associate(d)
         \/ NetworkFails(d) \/ FipFails(d) \/ Crash(d)
  PROVE  Keeps(d)
<1>0. /\ Typed /\ FipsKnown /\ Stands(d) /\ Ensures(d) /\ Counts(d)
  BY DEF General, FipsKnown
<1> USE DEF SameCall, SamePlan, SameGot, SamePoll, SameGate
<1>1. ASSUME NEW i \in Ids, Visit(d, i)
      PROVE  Keeps(d)
  <2>1. /\ Typed' /\ Others(d) /\ UNCHANGED <<infra, servers, fip>>
        /\ pc[d] = "wait" /\ i \in todo[d]
        /\ SamePlan(d) /\ SameGot(d) /\ SameGate(d)
        /\ \/ Returned(d, "raised") /\ SamePoll(d)
           \/ /\ pc'[d] = pc[d] /\ SameCall(d)
              /\ todo'[d] = todo[d] \ {i}
              /\ \/ servers[i].st = "active" /\ up'[d] = up[d] \cup {i} /\ down'[d] = down[d]
                 \/ servers[i].st = "error" /\ up'[d] = up[d] /\ down'[d] = down[d] \cup {i}
                 \/ up'[d] = up[d] /\ down'[d] = down[d]
    BY <1>0, <1>1, VisitDoes DEF cloud
  <2>2. Grows /\ Ids' = Ids /\ FipsKnown'
    BY <1>0, <2>1, StillGrows DEF FipsKnown, Ids
  <2>3. CASE Returned(d, "raised") /\ SamePoll(d)
    <3>1. purge'[d] \cup got'[d] \subseteq Ids'
      BY <1>0, <2>1, <2>2 DEF Stands
    <3>2. Stands(d)' /\ Ensures(d)' /\ Counts(d)'
      BY <1>0, <2>1, <2>2, <2>3, <3>1, Failing
    <3> QED
      BY <2>1, <2>2, <3>2 DEF Keeps
  <2>4. CASE pc'[d] = pc[d] /\ SameCall(d)
    <3>1. /\ todo'[d] = todo[d] \ {i}
          /\ \/ servers[i].st = "active" /\ up'[d] = up[d] \cup {i} /\ down'[d] = down[d]
             \/ servers[i].st = "error" /\ up'[d] = up[d] /\ down'[d] = down[d] \cup {i}
             \/ up'[d] = up[d] /\ down'[d] = down[d]
      BY <2>1, <2>4 DEF Returned
    <3>2. Stands(d)'
      BY <1>0, <2>1, <2>2, <2>4, <3>1 DEF Stands
    <3>3. Ensures(d)'
      BY <1>0, <2>1, <2>4 DEF Stands, Ensures
    <3>4. Counts(d)'
      BY <1>0, <2>1, <2>4, <3>1 DEF Stands, Counts
    <3> QED
      BY <2>1, <2>2, <3>2, <3>3, <3>4 DEF Keeps
  <2> QED
    BY <2>1, <2>3, <2>4
<1>2. CASE Iterate(d)
  <2>1. /\ Typed' /\ Others(d) /\ UNCHANGED <<infra, servers, fip>>
        /\ pc[d] = "wait" /\ todo[d] = {}
        /\ SameCall(d) /\ SamePlan(d) /\ SameGot(d) /\ SameGate(d)
        /\ \/ Settled(d) /\ pc'[d] = "gateway" /\ SamePoll(d)
           \/ Polls(d, got[d])
    BY <1>0, <1>2, IterateDoes DEF cloud
  <2>2. Grows /\ Ids' = Ids /\ FipsKnown'
    BY <1>0, <2>1, StillGrows DEF FipsKnown, Ids
  <2>3. Stands(d)'
    BY <1>0, <2>1, <2>2 DEF Stands, Polls
  <2>4. Ensures(d)'
    BY <1>0, <2>1 DEF Stands, Ensures, Polls
  <2>5. Settled(d) => up[d] \cup down[d] = got[d]
    <3>1. up[d] \cup down[d] \subseteq got[d]
      BY <1>0, <2>1 DEF Counts
    <3> QED
      BY <1>0, <3>1, SettledMeans
  <2>6. Counts(d)'
    BY <1>0, <2>1, <2>5 DEF Stands, Counts, Polls
  <2> QED
    BY <2>1, <2>2, <2>3, <2>4, <2>6 DEF Keeps
<1>3. CASE ChooseGateway(d)
  <2>1. /\ Typed' /\ Others(d) /\ UNCHANGED <<infra, servers, fip>>
        /\ pc[d] = "gateway" /\ picked'[d] = picked[d]
        /\ SamePlan(d) /\ SameGot(d) /\ SamePoll(d)
        /\ \/ Returned(d, "raised") /\ gw'[d] = gw[d]
           \/ gw'[d] \in up[d] /\ Chooses(d)
    BY <1>0, <1>3, ChooseGatewayDoes DEF cloud
  <2>2. Grows /\ Ids' = Ids /\ FipsKnown'
    BY <1>0, <2>1, StillGrows DEF FipsKnown, Ids
  <2>3. CASE Returned(d, "raised") /\ gw'[d] = gw[d]
    <3>1. purge'[d] \cup got'[d] \subseteq Ids'
      BY <1>0, <2>1, <2>2 DEF Stands
    <3>2. Stands(d)' /\ Ensures(d)' /\ Counts(d)'
      BY <1>0, <2>1, <2>2, <2>3, <3>1, Failing
    <3> QED
      BY <2>1, <2>2, <3>2 DEF Keeps
  <2>4. CASE gw'[d] \in up[d] /\ Chooses(d)
    <3>1. Stands(d)'
      BY <1>0, <2>1, <2>2, <2>4 DEF Stands, Chooses, Returned
    <3>2. Ensures(d)'
      BY <1>0, <2>1, <2>4 DEF Stands, Ensures, Chooses, Returned
    <3>3. Counts(d)'
      BY <1>0, <2>1, <2>4 DEF Stands, Counts, Chooses, Returned
    <3> QED
      BY <2>1, <2>2, <3>1, <3>2, <3>3 DEF Keeps
  <2> QED
    BY <2>1, <2>3, <2>4
<1>4. CASE PickFip(d)
  <2>1. /\ Typed' /\ Others(d) /\ UNCHANGED <<infra, servers>>
        /\ pc[d] = "pick" /\ pc'[d] = "associate" /\ SameCall(d)
        /\ gw'[d] = gw[d] /\ picked'[d] \in Fips
        /\ fip'[picked'[d]] = Free
        /\ \A g \in Fips : g # picked'[d] => fip'[g] = fip[g]
        /\ SamePlan(d) /\ SameGot(d) /\ SamePoll(d)
    BY <1>0, <1>4, PickFipDoes
  <2>2. Grows /\ Ids' = Ids /\ FipsKnown'
    BY <1>0, <2>1, StillGrows DEF FipsKnown, Ids
  <2>3. Stands(d)'
    BY <1>0, <2>1, <2>2 DEF Stands
  <2>4. Ensures(d)' /\ Counts(d)'
    BY <1>0, <2>1 DEF Stands, Ensures, Counts
  <2> QED
    BY <2>1, <2>2, <2>3, <2>4 DEF Keeps
<1>5. CASE Associate(d)
  <2>0. picked[d] \in Fips /\ pc[d] = "associate" /\ gw[d] \in up[d]
    BY <1>0, <1>5 DEF Stands, Associate
  <2>1. /\ Typed' /\ Others(d) /\ UNCHANGED <<infra, servers>>
        /\ SamePlan(d) /\ SameGot(d) /\ SamePoll(d) /\ SameGate(d)
        /\ \/ Returned(d, "raised") /\ UNCHANGED fip
           \/ /\ Returned(d, "ok") /\ fip'[picked[d]] = gw[d]
              /\ \A g \in Fips : g # picked[d] => fip'[g] = fip[g]
    BY <1>0, <1>5, <2>0, AssociateDoes
  <2>2. Grows /\ Ids' = Ids /\ gw[d] \in Ids
    BY <1>0, <2>0, <2>1, StillGrows DEF Ids, Stands
  <2>3. FipsKnown'
    BY <1>0, <2>1, <2>2 DEF FipsKnown
  <2>4. CASE Returned(d, "raised")
    <3>1. purge'[d] \cup got'[d] \subseteq Ids'
      BY <1>0, <2>1, <2>2 DEF Stands
    <3>2. Stands(d)' /\ Ensures(d)' /\ Counts(d)'
      BY <1>0, <2>1, <2>2, <2>4, <3>1, Failing
    <3> QED
      BY <2>1, <2>2, <2>3, <3>2 DEF Keeps
  <2>5. CASE Returned(d, "ok")
    <3>1. Stands(d)'
      BY <1>0, <2>0, <2>1, <2>2, <2>5 DEF Stands, Returned
    <3>2. Ensures(d)' /\ Counts(d)'
      BY <1>0, <2>0, <2>1, <2>5 DEF Stands, Ensures, Counts, Returned
    <3> QED
      BY <2>1, <2>2, <2>3, <3>1, <3>2 DEF Keeps
  <2> QED
    BY <2>1, <2>4, <2>5
<1>6. CASE NetworkFails(d) \/ FipFails(d) \/ Crash(d)
  <2>1. /\ Typed' /\ Others(d) /\ UNCHANGED <<infra, servers, fip>>
        /\ Returned(d, "raised") \/ Returned(d, "none")
        /\ SamePlan(d) /\ SameGot(d) /\ SamePoll(d) /\ SameGate(d)
    BY <1>0, <1>6, FailDoes DEF cloud
  <2>2. Grows /\ Ids' = Ids /\ FipsKnown'
    BY <1>0, <2>1, StillGrows DEF FipsKnown, Ids
  <2>3. purge'[d] \cup got'[d] \subseteq Ids'
    BY <1>0, <2>1, <2>2 DEF Stands
  <2>4. Stands(d)' /\ Ensures(d)' /\ Counts(d)'
    BY <1>0, <2>1, <2>2, <2>3, Failing
  <2> QED
    BY <2>1, <2>2, <2>4 DEF Keeps
<1> QED
  BY <1>1, <1>2, <1>3, <1>4, <1>5, <1>6

\* Initially.
LEMMA GeneralInit == Init => General
<1> SUFFICES ASSUME Init
             PROVE  General
  OBVIOUS
<1>1. Typed
  BY EmptySeq DEF Init, Typed, Steps, Ends, Absent
<1>2. \A f \in Fips : fip[f] = Absent
  BY DEF Init
<1>3. ASSUME NEW d \in Deployments
      PROVE  Stands(d) /\ Ensures(d) /\ Counts(d)
  BY OpenstackAssumption DEF Init, Stands, Ensures, Counts
<1> QED
  BY <1>1, <1>2, <1>3 DEF General

LEMMA GeneralNext == General /\ [Next]_vars => General'
<1> SUFFICES ASSUME General, [Next]_vars
             PROVE  General'
  OBVIOUS
<1>1. CASE UNCHANGED vars
  <2>1. UNCHANGED <<infra, servers, fip, pc, op, force, ensure, purge, got, made,
                    up, down, todo, gw, picked, last>>
    BY <1>1 DEF vars, cloud, local, poll, gateway
  <2>2. Typed' /\ FipsKnown'
    BY <2>1 DEF General, Typed, FipsKnown, Ids
  <2>3. ASSUME NEW d \in Deployments
        PROVE  Stands(d)' /\ Ensures(d)' /\ Counts(d)'
    <3>1. Grows /\ Same(d)
      BY <2>1, StillGrows DEF General, Same, SameCall, SamePlan, SameGot, SamePoll, SameGate
    <3> QED
      BY <3>1, Frame DEF General
  <2> QED
    BY <2>2, <2>3 DEF General, FipsKnown
<1>2. ASSUME NEW d \in Deployments, Keeps(d)
      PROVE  General'
  <2>1. ASSUME NEW e \in Deployments
        PROVE  Stands(e)' /\ Ensures(e)' /\ Counts(e)'
    <3>1. CASE e = d
      BY <1>2, <3>1 DEF Keeps
    <3>2. CASE e # d
      <4>1. Grows /\ Same(e)
        BY <1>2, <3>2 DEF Keeps, Others
      <4> QED
        BY <4>1, Frame DEF General
    <3> QED
      BY <3>1, <3>2
  <2> QED
    BY <1>2, <2>1 DEF General, Keeps, FipsKnown
<1>3. ASSUME NEW i \in Ids, Started(i) \/ Vanish(i)
      PROVE  General'
  <2>1. Typed /\ Typed' /\ Evolves(i)
    BY <1>3, CloudDoes DEF General
  <2>2. Grows
    BY <2>1, StillGrows
  <2>3. \A f \in Fips : fip'[f] \in {Absent, Free} \cup Ids'
    BY <2>1 DEF General, Evolves
  <2>4. ASSUME NEW e \in Deployments
        PROVE  Stands(e)' /\ Ensures(e)' /\ Counts(e)'
    <3>1. Same(e)
      BY <2>1 DEF Evolves
    <3> QED
      BY <2>2, <3>1, Frame DEF General
  <2> QED
    BY <2>1, <2>3, <2>4 DEF General
<1>4. ASSUME NEW d \in Deployments,
             \/ \E f \in BOOLEAN : Call(d, "init", f)
             \/ Call(d, "destroy", FALSE) \/ Step(d) \/ Crash(d)
      PROVE  Keeps(d)
  BY <1>4, NetworkKeeps, ServersKeep, PollKeeps DEF Step
<1> QED
  BY <1>1, <1>2, <1>3, <1>4 DEF Next

\* Whatever the deployments, their calls and what becomes of the servers.
LEMMA Generally == Spec => []General
  BY GeneralInit, GeneralNext, PTL DEF Spec

LEMMA ResourcesAre == {Resources[k] : k \in 1 .. Len(Resources)} = Names
  BY DEF Resources, Names

\* The variables have their types, and a server is sorted by an iteration of
\* the poll at most once (wait_for_servers).
THEOREM TypeCorrect == Spec => []TypeOK
<1>1. General => TypeOK
  <2> SUFFICES ASSUME General
               PROVE  TypeOK
    OBVIOUS
  <2>1. infra \subseteq {Resources[k] : k \in 1 .. Len(Resources)}
    BY ResourcesAre DEF General, Typed
  <2>2. servers \in Seq([dep : Deployments, deleting : BOOLEAN,
                        st : {"build", "active", "error", "gone"}])
    BY DEF General, Typed, Server, Statuses
  <2>3. fip \in [Fips -> {Absent, Free} \cup Ids]
    BY DEF General, Typed
  <2>4. ASSUME NEW d \in Deployments
        PROVE  /\ purge[d] \cup got[d] \subseteq Ids
               /\ up[d] \cup down[d] \cup todo[d] \subseteq Ids
               /\ up[d] \cap down[d] = {} /\ todo[d] \cap (up[d] \cup down[d]) = {}
               /\ made[d] \in 0 .. Wanted
               /\ gw[d] \in {0} \cup Ids
               /\ picked[d] \in Fips \cup {NoFip}
               /\ pc[d] \in Steps /\ last[d] \in Ends
    BY OpenstackAssumption DEF General, Typed, Stands
  <2> QED
    BY <2>1, <2>2, <2>3, <2>4 DEF TypeOK, Steps, Ends
<1> QED
  BY <1>1, Generally, PTL

\* check_network: a call of init that returns has found or made the security
\* group, the network, its subnet and the router, whatever interrupted calls of
\* any deployment had left.
THEOREM NetworkIsRestored == Spec => []NetworkRestored
<1>1. General => NetworkRestored
  BY DEF General, Ensures, NetworkRestored, Owners
<1> QED
  BY <1>1, Generally, PTL

-----------------------------------------------------------------------------
(* Owning is inductive if nobody hurries *)

\* What of a deployment bears on its servers; its servers only go.
Held(d) ==
  /\ pc'[d] = pc[d] /\ SameCall(d) /\ purge'[d] = purge[d] /\ SameGot(d)

Shrinks(d) ==
  /\ Owned(d)' \subseteq Owned(d)
  /\ Listed(d)' \subseteq Listed(d)
  /\ Of(d) \subseteq Of(d)'

LEMMA Sets ==
  ASSUME Typed, NEW d \in Deployments
  PROVE  /\ IsFiniteSet(Owned(d)) /\ IsFiniteSet(Listed(d))
         /\ Owned(d) \subseteq Listed(d) /\ Listed(d) \subseteq Of(d) /\ Of(d) \subseteq Ids
<1>1. /\ Owned(d) \subseteq Listed(d) /\ Listed(d) \subseteq Of(d) /\ Of(d) \subseteq Ids
  BY DEF Owned, Listed, Of, Live
<1> QED
  BY <1>1, FiniteIds

LEMMA StillShrinks ==
  ASSUME Typed, NEW d \in Deployments
  PROVE  /\ UNCHANGED servers => Shrinks(d)
         /\ \A e \in Deployments \ {d} : servers' = Append(servers, NewServer(e)) => Shrinks(d)
         /\ \A i \in Ids : Ids' = Ids /\ Deletes(i) => Shrinks(d)
         /\ \A i \in Ids : Evolves(i) => Shrinks(d)
<1> USE DEF Shrinks, Owned, Listed, Of, Live, Present
<1>1. UNCHANGED servers => Shrinks(d)
  BY DEF Ids
<1>2. ASSUME NEW e \in Deployments \ {d}, servers' = Append(servers, NewServer(e))
      PROVE  Shrinks(d)
  <2>1. /\ \A i \in Ids : servers'[i] = servers[i]
        /\ servers'[Len(servers) + 1].dep = e
        /\ Ids' = Ids \cup {Len(servers) + 1}
    <3>1. /\ \A i \in Ids : servers'[i] = servers[i]
          /\ servers'[Len(servers) + 1] = NewServer(e)
          /\ Ids' = Ids \cup {Len(servers) + 1}
      BY <1>2, Appended DEF Typed
    <3> QED
      BY <3>1 DEF NewServer
  <2> QED
    BY <2>1
<1>3. ASSUME NEW i \in Ids, Ids' = Ids, Deletes(i)
      PROVE  Shrinks(d)
  BY <1>3 DEF Deletes
<1>4. ASSUME NEW i \in Ids, Evolves(i)
      PROVE  Shrinks(d)
  BY <1>4 DEF Evolves
<1> QED
  BY <1>1, <1>2, <1>3, <1>4

\* The number of servers does not grow with fewer of them.
LEMMA Fewer ==
  ASSUME NEW S, NEW T, IsFiniteSet(S), T \subseteq S, NEW n \in Nat, Cardinality(S) <= n
  PROVE  IsFiniteSet(T) /\ Cardinality(T) <= n
<1>1. /\ IsFiniteSet(T) /\ Cardinality(T) <= Cardinality(S)
      /\ Cardinality(S) \in Nat /\ Cardinality(T) \in Nat
  BY FS_Subset, FS_CardinalityType
<1> QED
  BY <1>1

LEMMA OwnedFewer ==
  ASSUME Typed, NEW d \in Deployments, Owns(d), Owned(d)' \subseteq Owned(d)
  PROVE  Cardinality(Owned(d)') <= Wanted
<1>1. IsFiniteSet(Owned(d)) /\ Cardinality(Owned(d)) <= Wanted /\ Wanted \in Nat
  BY Sets, OpenstackAssumption DEF Owns
<1> QED
  BY <1>1, Fewer

\* Nothing happens to a deployment but to its servers.
LEMMA OwnsFrame ==
  ASSUME Typed, NEW d \in Deployments, Owns(d), Held(d), Shrinks(d)
  PROVE  Owns(d)'
<1>1. Cardinality(Owned(d)') <= Wanted
  BY OwnedFewer DEF Shrinks
<1>2. Cardinality(Listed(d)) <= Wanted => Cardinality(Listed(d)') <= Wanted
  BY Sets, Fewer, OpenstackAssumption DEF Shrinks
<1> QED
  BY <1>1, <1>2 DEF Owns, Held, SameCall, SameGot, Shrinks

\* A call fails, or destroys.
LEMMA OwnsFailing ==
  ASSUME Typed, NEW d \in Deployments, Owns(d), Shrinks(d),
         Returned(d, "raised") \/ Returned(d, "none") \/ Returned(d, "destroyed")
  PROVE  Owns(d)'
<1>1. Cardinality(Owned(d)') <= Wanted
  BY OwnedFewer DEF Shrinks
<1> QED
  BY <1>1 DEF Owns, Returned

\* A call goes on with the servers it has.
LEMMA OwnsGoing ==
  ASSUME Typed, NEW d \in Deployments, Owns(d), UNCHANGED servers, SameGot(d),
         pc[d] \in {"wait", "gateway", "pick", "associate"},
         \/ pc'[d] \in {"wait", "gateway", "pick", "associate"}
         \/ Returned(d, "ok")
  PROVE  Owns(d)'
<1>1. Shrinks(d)
  BY StillShrinks
<1>2. Cardinality(Owned(d)') <= Wanted
  BY <1>1, OwnedFewer DEF Shrinks
<1>3. Cardinality(got'[d]) = Wanted /\ got'[d] \subseteq Of(d)'
  BY <1>1 DEF Owns, SameGot, Shrinks
<1> QED
  BY <1>2, <1>3 DEF Owns, Returned

LEMMA OwnsCall ==
  ASSUME General, Patient, NEW d \in Deployments, Owns(d),
         (\E o \in {"init", "destroy"}, f \in BOOLEAN : Call(d, o, f))
         \/ Found(d) \/ Create(d) \/ NetworkReady(d) \/ ListAll(d)
  PROVE  Owns(d)'
<1>0. Typed
  BY DEF General
<1>1. ASSUME NEW o \in {"init", "destroy"}, NEW f \in BOOLEAN, Call(d, o, f)
      PROVE  Owns(d)'
  <2>1. UNCHANGED servers /\ Calls(d, o)
    BY <1>0, <1>1, CallDoes DEF cloud
  <2>2. Owned(d)' = Owned(d) /\ Listed(d)' = Listed(d)
    BY <2>1 DEF Owned, Listed, Of, Live, Present, Ids
  <2>3. Listed(d) \subseteq Owned(d)
    BY <2>1 DEF Calls, Listed, Owned, Of
  <2>4. Cardinality(Owned(d)) <= Wanted
    BY DEF Owns
  <2>5. Cardinality(Listed(d)) <= Wanted
    BY <1>0, <2>3, <2>4, Sets, Fewer, OpenstackAssumption
  <2> QED
    BY <2>1, <2>2, <2>4, <2>5 DEF Owns, Calls
<1>2. CASE Found(d) \/ Create(d)
  <2>1. UNCHANGED servers /\ Held(d)
    BY <1>0, <1>2, FoundDoes, CreateDoes DEF Held, cloud
  <2> QED
    BY <1>0, <2>1, StillShrinks, OwnsFrame
<1>3. CASE NetworkReady(d)
  <2>1. /\ UNCHANGED servers /\ pc[d] = "network" /\ pc'[d] = "list"
        /\ SameCall(d) /\ SameGot(d) /\ last[d] = "none"
    BY <1>0, <1>3, NetworkReadyDoes DEF cloud, General, Stands
  <2>2. Owned(d)' = Owned(d) /\ Listed(d)' = Listed(d)
    BY <2>1 DEF Owned, Listed, Of, Live, Present, Ids
  <2> QED
    BY <2>1, <2>2 DEF Owns, SameCall, SameGot
<1>4. CASE ListAll(d)
  <2>1. /\ UNCHANGED servers /\ pc[d] = "list" /\ op[d] = "destroy"
        /\ pc'[d] = "purge" /\ SameCall(d) /\ last[d] = "none"
    BY <1>0, <1>4, ListAllDoes DEF cloud, General, Stands
  <2>2. Owned(d)' = Owned(d)
    BY <2>1 DEF Owned, Of, Live, Present, Ids
  <2> QED
    BY <2>1, <2>2 DEF Owns, SameCall
<1> QED
  BY <1>1, <1>2, <1>3, <1>4

LEMMA OwnsList ==
  ASSUME General, NEW d \in Deployments, Owns(d), List(d)
  PROVE  Owns(d)'
<1>0. /\ Typed /\ UNCHANGED servers /\ pc[d] = "list" /\ op[d] = "init"
      /\ made'[d] = made[d] /\ made[d] = 0 /\ last[d] = "none" /\ ListOutcomes(d)
  BY ListDoes DEF General, Stands, cloud
<1>1. /\ Owned(d)' = Owned(d) /\ Of(d)' = Of(d)
      /\ Shrinks(d)
  BY <1>0, StillShrinks DEF Owned, Of, Live, Present, Ids
<1>2. /\ Cardinality(Owned(d)) <= Wanted
      /\ Cardinality(Listed(d)) <= Wanted /\ got[d] = {}
  BY <1>0 DEF Owns
<1>3. /\ IsFiniteSet(Listed(d)) /\ Owned(d) \subseteq Listed(d) /\ Listed(d) \subseteq Of(d)
  BY <1>0, Sets
<1>4. CASE pc'[d] = "purge"
  <2>1. purge'[d] = Listed(d) /\ got'[d] = got[d] /\ SameCall(d)
    BY <1>0, <1>4 DEF ListOutcomes, Polls, Returned
  <2> QED
    BY <1>0, <1>1, <1>2, <1>3, <1>4, <2>1 DEF Owns, SameCall
<1>5. CASE pc'[d] = "wait"
  <2>1. got'[d] = Listed(d) /\ Cardinality(Listed(d)) = Wanted /\ SameCall(d)
    BY <1>0, <1>5 DEF ListOutcomes, Polls, Returned
  <2> QED
    BY <1>0, <1>1, <1>2, <1>3, <1>5, <2>1 DEF Owns, SameCall
<1>6. CASE Returned(d, "raised")
  BY <1>0, <1>1, <1>6, OwnsFailing
<1>7. CASE pc'[d] = "create"
  <2>1. /\ got'[d] = Listed(d) /\ SameCall(d)
        /\ Cardinality(Listed(d)) = 0 \/ Cardinality(Listed(d)) > Wanted
    BY <1>0, <1>7 DEF ListOutcomes, Polls, Returned
  <2>2. Cardinality(Listed(d)) \in Nat /\ Wanted \in Nat
    BY <1>3, FS_CardinalityType, OpenstackAssumption
  <2>3. Cardinality(Listed(d)) = 0
    BY <1>2, <2>1, <2>2
  <2> QED
    BY <1>0, <1>1, <1>2, <1>3, <1>7, <2>1, <2>3 DEF Owns, SameCall
<1> QED
  BY <1>0, <1>4, <1>5, <1>6, <1>7 DEF ListOutcomes, Polls

LEMMA OwnsPurge ==
  ASSUME General, NEW d \in Deployments, Owns(d),
         (\E i \in Ids : Delete(d, i)) \/ Purged(d)
  PROVE  Owns(d)'
<1>0. Typed /\ Stands(d)
  BY DEF General
<1>1. ASSUME NEW i \in Ids, Delete(d, i)
      PROVE  Owns(d)'
  <2>1. /\ Ids' = Ids /\ pc[d] = "purge" /\ purge'[d] = purge[d] \ {i}
        /\ SameGot(d) /\ Deletes(i) /\ last[d] = "none"
        /\ \/ Returned(d, "raised")
           \/ pc'[d] = pc[d] /\ SameCall(d) /\ servers'[i].deleting
    BY <1>0, <1>1, DeleteDoes DEF Stands
  <2>2. Shrinks(d)
    BY <1>0, <2>1, StillShrinks
  <2>3. CASE Returned(d, "raised")
    BY <1>0, <2>2, <2>3, OwnsFailing
  <2>4. CASE pc'[d] = pc[d] /\ SameCall(d) /\ servers'[i].deleting
    <3>1. Cardinality(Owned(d)') <= Wanted
      BY <1>0, <2>2, OwnedFewer DEF Shrinks
    <3>2. i \notin Owned(d)'
      BY <2>4 DEF Owned, Live
    <3>3. op[d] = "init" => Owned(d)' \subseteq purge'[d] /\ got'[d] = {}
      BY <2>1, <2>2, <3>2 DEF Owns, Shrinks, SameGot
    <3> QED
      BY <2>1, <2>4, <3>1, <3>3 DEF Owns, SameCall
  <2> QED
    BY <2>1, <2>3, <2>4
<1>2. CASE Purged(d)
  <2>1. /\ UNCHANGED servers /\ pc[d] = "purge" /\ purge[d] = {} /\ SameGot(d)
        /\ \/ Returned(d, "destroyed")
           \/ op[d] # "destroy" /\ pc'[d] = "create" /\ SameCall(d)
    BY <1>0, <1>2, PurgedDoes DEF cloud
  <2>2. Shrinks(d) /\ Owned(d)' = Owned(d)
    BY <1>0, <2>1, StillShrinks DEF Owned, Of, Live, Present, Ids
  <2>3. CASE Returned(d, "destroyed")
    BY <1>0, <2>2, <2>3, OwnsFailing
  <2>4. CASE op[d] # "destroy" /\ pc'[d] = "create" /\ SameCall(d)
    <3>1. op[d] = "init" /\ made[d] = 0 /\ last[d] = "none"
      BY <1>0, <2>1, <2>4 DEF Stands, Typed
    <3>2. Owned(d)' = {} /\ got'[d] = {} /\ made'[d] = 0 /\ Cardinality(Owned(d)') <= Wanted
      BY <2>1, <2>2, <3>1 DEF Owns, SameGot
    <3>3. Cardinality(got'[d]) = made'[d]
      BY <3>2, FS_EmptySet
    <3> QED
      BY <2>4, <3>1, <3>2, <3>3 DEF Owns, SameCall
  <2> QED
    BY <2>1, <2>3, <2>4
<1> QED
  BY <1>1, <1>2

\* check_servers never starts more than are wanted.
LEMMA OwnsBoot ==
  ASSUME General, NEW d \in Deployments, Owns(d), Boot(d) \/ BootFails(d)
  PROVE  Owns(d)'
<1> DEFINE new == Len(servers) + 1
<1>0. Typed /\ Stands(d)
  BY DEF General
<1>1. pc[d] = "create" /\ made[d] # Wanted
  BY <1>0, BootDoes, BootFailsDoes
<1>2. /\ Owned(d) \subseteq got[d] /\ got[d] \subseteq Of(d)
      /\ Cardinality(got[d]) = made[d] /\ made[d] \in Nat /\ made[d] + 1 <= Wanted
      /\ last[d] = "none" /\ got[d] \subseteq Ids
  BY <1>0, <1>1, OpenstackAssumption DEF Owns, Stands, Typed
<1>3. IsFiniteSet(got[d]) /\ IsFiniteSet(got[d] \cup {new})
  BY <1>0, <1>2, FiniteIds, FS_AddElement
<1>4. Cardinality(got[d] \cup {new}) <= made[d] + 1
  BY <1>2, <1>3, FS_AddElement
<1>5. CASE UNCHANGED servers /\ BootFails(d)
  <2>1. Returned(d, "raised")
    BY <1>0, <1>5, BootFailsDoes
  <2> QED
    BY <1>0, <1>5, <2>1, StillShrinks, OwnsFailing
<1>6. ASSUME servers' = Append(servers, NewServer(d))
      PROVE  /\ Owned(d)' \subseteq got[d] \cup {new}
             /\ got[d] \cup {new} \subseteq Of(d)'
             /\ Cardinality(Owned(d)') <= Wanted
             /\ new \notin got[d]
  <2>1. /\ \A i \in Ids : servers'[i] = servers[i]
        /\ servers'[new].dep = d
        /\ Ids' = Ids \cup {new} /\ new \notin Ids
    <3>1. /\ \A i \in Ids : servers'[i] = servers[i]
          /\ servers'[new] = NewServer(d)
          /\ Ids' = Ids \cup {new} /\ new \notin Ids
      BY <1>0, <1>6, Appended DEF Typed
    <3> QED
      BY <3>1 DEF NewServer
  <2>2. Owned(d)' \subseteq got[d] \cup {new}
    BY <1>2, <2>1 DEF Owned, Of, Live, Present
  <2>3. got[d] \cup {new} \subseteq Of(d)'
    BY <1>2, <2>1 DEF Of
  <2>4. Cardinality(Owned(d)') <= made[d] + 1
    BY <1>2, <1>3, <1>4, <2>2, Fewer
  <2>5. IsFiniteSet(Owned(d)') /\ Cardinality(Owned(d)') \in Nat
    BY <1>3, <2>2, FS_Subset, FS_CardinalityType
  <2>6. Cardinality(Owned(d)') <= Wanted
    BY <1>2, <2>4, <2>5, OpenstackAssumption
  <2> QED
    BY <1>2, <2>1, <2>2, <2>3, <2>6
<1>7. CASE servers' = Append(servers, NewServer(d)) /\ BootFails(d)
  <2>1. Returned(d, "raised")
    BY <1>0, <1>7, BootFailsDoes
  <2> QED
    BY <1>6, <1>7, <2>1 DEF Owns, Returned
<1>8. CASE Boot(d)
  <2>1. /\ servers' = Append(servers, NewServer(d))
        /\ pc'[d] = "create" /\ SameCall(d) /\ made'[d] = made[d] + 1
        /\ got'[d] = got[d] \cup {new}
    BY <1>0, <1>1, <1>8, BootDoes
  <2>2. Cardinality(got'[d]) = made'[d]
    BY <1>2, <1>3, <1>6, <2>1, FS_AddElement
  <2> QED
    BY <1>2, <1>6, <2>1, <2>2 DEF Owns, SameCall
<1> QED
  BY <1>0, <1>5, <1>7, <1>8, BootFailsDoes

LEMMA OwnsPoll ==
  ASSUME General, NEW d \in Deployments, Owns(d),
         Booting(d) \/ (\E i \in Ids : Visit(d, i)) \/ Iterate(d) \/ ChooseGateway(d)
         \/ PickFip(d) \/ Associate(d)
         \/ NetworkFails(d) \/ FipFails(d) \/ Crash(d)
  PROVE  Owns(d)'
<1>0. Typed /\ Stands(d)
  BY DEF General
<1>1. CASE Booting(d)
  <2>1. /\ UNCHANGED servers /\ pc[d] = "create" /\ made[d] = Wanted
        /\ pc'[d] = "wait" /\ SameCall(d) /\ SameGot(d) /\ last[d] = "none"
    BY <1>0, <1>1, BootingDoes DEF Polls, cloud, Stands
  <2>2. Owned(d)' = Owned(d) /\ Of(d)' = Of(d)
    BY <2>1 DEF Owned, Of, Live, Present, Ids
  <2> QED
    BY <2>1, <2>2 DEF Owns, SameCall, SameGot
<1>2. ASSUME NEW i \in Ids, Visit(d, i)
      PROVE  Owns(d)'
  <2>1. /\ UNCHANGED servers /\ pc[d] = "wait" /\ SameGot(d)
        /\ Returned(d, "raised") \/ pc'[d] = "wait"
    BY <1>0, <1>2, VisitDoes DEF cloud
  <2> QED
    BY <1>0, <2>1, StillShrinks, OwnsFailing, OwnsGoing
<1>3. CASE Iterate(d)
  <2>1. /\ UNCHANGED servers /\ pc[d] = "wait" /\ SameGot(d)
        /\ pc'[d] \in {"wait", "gateway"}
    BY <1>0, <1>3, IterateDoes DEF cloud, Polls
  <2> QED
    BY <1>0, <2>1, OwnsGoing
<1>4. CASE ChooseGateway(d)
  <2>1. /\ UNCHANGED servers /\ pc[d] = "gateway" /\ SameGot(d)
        /\ Returned(d, "raised") \/ Returned(d, "ok") \/ pc'[d] = "pick"
    BY <1>0, <1>4, ChooseGatewayDoes DEF cloud, Chooses
  <2> QED
    BY <1>0, <2>1, StillShrinks, OwnsFailing, OwnsGoing
<1>5. CASE PickFip(d)
  <2>1. /\ UNCHANGED servers /\ pc[d] = "pick" /\ SameGot(d) /\ pc'[d] = "associate"
    BY <1>0, <1>5, PickFipDoes
  <2> QED
    BY <1>0, <2>1, OwnsGoing
<1>6. CASE Associate(d)
  <2>1. picked[d] \in Fips
    BY <1>0, <1>6 DEF Stands, Associate
  <2>2. /\ UNCHANGED servers /\ pc[d] = "associate" /\ SameGot(d)
        /\ Returned(d, "raised") \/ Returned(d, "ok")
    BY <1>0, <1>6, <2>1, AssociateDoes
  <2> QED
    BY <1>0, <2>2, StillShrinks, OwnsFailing, OwnsGoing
<1>7. CASE NetworkFails(d) \/ FipFails(d) \/ Crash(d)
  <2>1. UNCHANGED servers /\ (Returned(d, "raised") \/ Returned(d, "none"))
    BY <1>0, <1>7, FailDoes DEF cloud
  <2> QED
    BY <1>0, <2>1, StillShrinks, OwnsFailing
<1> QED
  BY <1>1, <1>2, <1>3, <1>4, <1>5, <1>6, <1>7

LEMMA OwningInit == Init => Owning
<1> SUFFICES ASSUME Init, NEW d \in Deployments
             PROVE  Owns(d)
  BY DEF Owning
<1>1. Owned(d) = {}
  BY DEF Init, Owned, Of, Ids
<1>2. Cardinality(Owned(d)) <= Wanted
  BY <1>1, FS_EmptySet, OpenstackAssumption
<1> QED
  BY <1>2 DEF Init, Owns

LEMMA OwningNext == Patient /\ General /\ Owning /\ [Next]_vars => Owning'
<1> SUFFICES ASSUME Patient, General, Owning, [Next]_vars, NEW e \in Deployments
             PROVE  Owns(e)'
  BY DEF Owning
<1>0. Typed /\ Owns(e)
  BY DEF General, Owning
<1> USE DEF Same, Held, SameCall, SamePlan, SameGot
<1>1. CASE UNCHANGED vars
  <2>1. UNCHANGED servers /\ Held(e)
    BY <1>1 DEF vars, cloud, local
  <2> QED
    BY <1>0, <2>1, StillShrinks, OwnsFrame
<1>2. ASSUME NEW i \in Ids, Started(i) \/ Vanish(i)
      PROVE  Owns(e)'
  <2>1. Evolves(i)
    BY <1>0, <1>2, CloudDoes
  <2>2. Held(e)
    BY <2>1 DEF Evolves
  <2> QED
    BY <1>0, <2>1, <2>2, StillShrinks, OwnsFrame
<1>3. ASSUME NEW d \in Deployments,
             \/ \E f \in BOOLEAN : Call(d, "init", f)
             \/ Call(d, "destroy", FALSE) \/ Step(d) \/ Crash(d)
      PROVE  Owns(e)'
  <2>1. CASE e = d
    BY <1>0, <1>3, <2>1, OwnsCall, OwnsList, OwnsPurge, OwnsBoot, OwnsPoll DEF Step
  <2>2. CASE e # d
    <3>1. Held(e)
      <4>1. Keeps(d)
        BY <1>3, NetworkKeeps, ServersKeep, PollKeeps DEF Step
      <4> QED
        BY <2>2, <4>1 DEF Keeps, Others
    <3>2. \/ UNCHANGED servers
          \/ servers' = Append(servers, NewServer(d))
          \/ \E i \in Ids : Ids' = Ids /\ Deletes(i)
      <4>1. CASE \E i \in Ids : Delete(d, i)
        BY <1>0, <4>1, DeleteDoes
      <4>2. CASE Boot(d) \/ BootFails(d)
        BY <1>0, <4>2, BootDoes, BootFailsDoes
      <4>3. CASE \/ \E o \in {"init", "destroy"}, f \in BOOLEAN : Call(d, o, f)
                \/ \E i \in Ids : Visit(d, i)
        BY <1>0, <4>3 DEF Call, Visit, cloud
      <4>4. CASE \/ Found(d) \/ Create(d) \/ NetworkFails(d) \/ NetworkReady(d)
                \/ List(d) \/ ListAll(d) \/ Purged(d) \/ Booting(d) \/ Iterate(d)
                \/ ChooseGateway(d) \/ PickFip(d) \/ Associate(d) \/ FipFails(d) \/ Crash(d)
        BY <4>4 DEF Found, Create, NetworkFails, NetworkReady, List, ListAll, Purged,
                    Booting, Iterate, ChooseGateway, PickFip, Associate, FipFails, Crash, cloud
      <4> QED
        BY <1>3, <4>1, <4>2, <4>3, <4>4 DEF Step
    <3> QED
      BY <1>0, <2>2, <3>1, <3>2, StillShrinks, OwnsFrame
  <2> QED
    BY <2>1, <2>2
<1> QED
  BY <1>1, <1>2, <1>3 DEF Next

\* However many deployments there are, none calls before the deletions have
\* taken effect.
LEMMA Ownership == ASSUME Patient PROVE Spec => [](General /\ Owning)
<1>1. Init => General /\ Owning
  BY GeneralInit, OwningInit
<1>2. General /\ Owning /\ [Next]_vars => (General /\ Owning)'
  BY GeneralNext, OwningNext
<1> QED
  BY <1>1, <1>2, PTL DEF Spec

\* check_servers: a deployment never owns more servers than it wants, those
\* being deleted apart, if every call waits for the deletions (openstack_hurry
\* is the run without the hypothesis).
THEOREM NeverMoreThanWanted == ASSUME Patient PROVE Spec => []AtMostWanted
<1>1. General /\ Owning => AtMostWanted
  BY DEF Owning, Owns, Owned, AtMostWanted
<1> QED
  BY <1>1, Ownership, PTL

\* wait_for_servers: when init returns, each of its servers has come up or
\* failed, there are as many as were wanted, and the gateway came up.
THEOREM ReadyMeansSettled == ASSUME Patient PROVE Spec => []ReadyIsSettled
<1>1. General /\ Owning => ReadyIsSettled
  <2> SUFFICES ASSUME General, Owning, NEW d \in Deployments, last[d] = "ok"
               PROVE  /\ Cardinality(got[d]) = Wanted
                      /\ got[d] \subseteq Of(d)
                      /\ \A i \in got[d] : servers[i].st # "build"
                      /\ servers[gw[d]].st # "error"
    BY DEF ReadyIsSettled
  <2>1. Cardinality(got[d]) = Wanted /\ got[d] \subseteq Of(d)
    BY DEF Owning, Owns
  <2>2. /\ up[d] \cup down[d] = got[d] /\ gw[d] \in up[d]
        /\ \A i \in up[d] : servers[i].st \in {"active", "gone"}
        /\ \A i \in down[d] : servers[i].st \in {"error", "gone"}
    BY DEF General, Counts, Stands
  <2> QED
    BY <2>1, <2>2
<1> QED
  BY <1>1, Ownership, PTL

-----------------------------------------------------------------------------
(* A project with one deployment *)

\* Nobody else picks floating IPs: two deployments may pick the same one.
Alone == \A d, e \in Deployments : d = e

Reached(d) == last[d] = "ok" /\ Gateway /\ Present(gw[d]) => HasFip(gw[d])

LEMMA ReachedNext ==
  ASSUME Alone, General, [Next]_vars, NEW d \in Deployments, Reached(d)
  PROVE  Reached(d)'
<1>0. Typed /\ Stands(d) /\ Counts(d)
  BY DEF General
<1> USE DEF Reached
<1>1. ASSUME UNCHANGED <<servers, fip>>, last'[d] = last[d], gw'[d] = gw[d]
      PROVE  Reached(d)'
  BY <1>1 DEF Present, HasFip
<1>2. CASE UNCHANGED vars
  BY <1>1, <1>2 DEF vars, cloud, local, gateway
<1>3. ASSUME NEW i \in Ids, Started(i) \/ Vanish(i)
      PROVE  Reached(d)'
  <2>1. Evolves(i)
    BY <1>0, <1>3, CloudDoes
  <2>2. last'[d] = last[d] /\ gw'[d] = gw[d]
    BY <2>1 DEF Evolves, Same, SameCall, SameGate
  <2>3. CASE last[d] = "ok"
    <3>1. gw[d] \in Ids /\ servers[gw[d]].st \in {"active", "gone"}
      BY <1>0, <2>3 DEF Stands, Counts
    <3>2. CASE gw[d] = i
      BY <2>1, <2>2, <3>1, <3>2 DEF Evolves, Present
    <3>3. CASE gw[d] # i
      <4>1. servers'[gw[d]] = servers[gw[d]]
        BY <2>1, <3>1, <3>3 DEF Evolves
      <4>2. \A f \in Fips : fip[f] = gw[d] => fip'[f] = gw[d]
        BY <2>1, <3>3 DEF Evolves
      <4> QED
        BY <2>2, <4>1, <4>2 DEF Present, HasFip
    <3> QED
      BY <3>2, <3>3
  <2> QED
    BY <2>2, <2>3
<1>4. ASSUME \/ \E f \in BOOLEAN : Call(d, "init", f)
             \/ Call(d, "destroy", FALSE) \/ Step(d) \/ Crash(d)
      PROVE  Reached(d)'
  <2>1. CASE \E o \in {"init", "destroy"}, f \in BOOLEAN : Call(d, o, f)
    BY <1>0, <2>1, CallDoes DEF Calls
  <2>2. CASE ChooseGateway(d)
    <3>1. /\ UNCHANGED <<servers, fip>> /\ pc[d] = "gateway"
          /\ \/ Returned(d, "raised")
             \/ pc'[d] = "pick" /\ SameCall(d)
             \/ Returned(d, "ok") /\ (Gateway => HasFip(gw'[d]))
      BY <1>0, <2>2, ChooseGatewayDoes DEF cloud, Chooses
    <3>2. last[d] = "none"
      BY <1>0, <3>1 DEF Stands
    <3> QED
      BY <3>1, <3>2 DEF Returned, SameCall, HasFip
  <2>3. CASE Associate(d)
    <3>1. picked[d] \in Fips
      BY <1>0, <2>3 DEF Stands, Associate
    <3>2. \/ Returned(d, "raised")
          \/ Returned(d, "ok") /\ fip'[picked[d]] = gw[d] /\ gw'[d] = gw[d]
      BY <1>0, <2>3, <3>1, AssociateDoes DEF SameGate
    <3> QED
      BY <3>1, <3>2 DEF Returned, HasFip
  <2>4. CASE NetworkFails(d) \/ FipFails(d) \/ Crash(d)
    BY <1>0, <2>4, FailDoes DEF Returned
  <2>5. CASE Found(d) \/ Create(d) \/ NetworkReady(d) \/ PickFip(d)
    <3>1. pc[d] # "idle" /\ SameCall(d)
      BY <1>0, <2>5, FoundDoes, CreateDoes, NetworkReadyDoes, PickFipDoes
    <3> QED
      BY <1>0, <3>1 DEF Stands, SameCall
  <2>6. CASE List(d) \/ ListAll(d) \/ Purged(d) \/ \E i \in Ids : Delete(d, i)
    <3>1. pc[d] # "idle" /\ (SameCall(d) \/ Returned(d, "raised") \/ Returned(d, "destroyed"))
      BY <1>0, <2>6, ListDoes, ListAllDoes, PurgedDoes, DeleteDoes DEF ListOutcomes
    <3> QED
      BY <1>0, <3>1 DEF Stands, SameCall, Returned
  <2>7. CASE Boot(d) \/ BootFails(d) \/ Booting(d) \/ Iterate(d) \/ \E i \in Ids : Visit(d, i)
    <3>1. pc[d] # "idle" /\ (SameCall(d) \/ Returned(d, "raised"))
      BY <1>0, <2>7, BootDoes, BootFailsDoes, BootingDoes, IterateDoes, VisitDoes
    <3> QED
      BY <1>0, <3>1 DEF Stands, SameCall, Returned
  <2> QED
    BY <1>4, <2>1, <2>2, <2>3, <2>4, <2>5, <2>6, <2>7 DEF Step
<1> QED
  BY <1>2, <1>3, <1>4 DEF Next, Alone

\* check_gateway: the gateway that init returns holds a floating IP as long as
\* it exists, in a project with one deployment.
THEOREM GatewayIsReachable == ASSUME Alone PROVE Spec => []GatewayReachable
<1> DEFINE Reach == \A d \in Deployments : Reached(d)
<1>1. Init => Reach
  BY DEF Init, Reached
<1>2. General /\ Reach /\ [Next]_vars => Reach'
  BY ReachedNext
<1>3. Reach => GatewayReachable
  BY DEF Reached, GatewayReachable, HasFip
<1> HIDE DEF Reach
<1> QED
  BY <1>1, <1>2, <1>3, Generally, PTL DEF Spec
=============================================================================
