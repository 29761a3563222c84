---------------------------- MODULE PartsProofs ----------------------------
(* The registry of processes, the resources of the testbeds, the network    *)
(* emulation, the planning, the services, the streams, Kwollect and the     *)
(* containers: what holds for all machines, groups, users, configurations   *)
(* and requests, and for any number of calls.                               *)
EXTENDS MCParts, FiniteSetTheorems, WellFoundedInduction, TLAPS

-----------------------------------------------------------------------------
(* Operators *)

\* A set of positions has a last one: WFMin, for the distances to the bound.
LEMMA LastPosition ==
  ASSUME NEW n \in Nat, NEW S, S \subseteq 1..n, S # {}
  PROVE  Max(S) \in S /\ \A i \in S : i <= Max(S)
<1> DEFINE T == {k \in Nat : n - k \in S}
           R == OpToRel(<, Nat)
<1>1. T \subseteq Nat /\ T # {}
  <2>1. PICK i \in S : TRUE
    OBVIOUS
  <2>2. n - i \in T
    BY <2>1
  <2> QED
    BY <2>2
<1>2. \A x, y \in Nat : y < x => <<y, x>> \in R
  BY DEF OpToRel
<1>3. IsWellFoundedOn(R, Nat)
  BY NatLessThanWellFounded
<1>4. PICK k \in T : \A j \in T : ~(<<j, k>> \in R)
  <2> HIDE DEF T, R
  <2> QED
    BY <1>1, <1>3, WFMin
<1>5. \A i \in S : n - k >= i
  <2> TAKE i \in S
  <2>1. n - i \in T /\ n - i \in Nat /\ k \in Nat
    OBVIOUS
  <2>2. ~(n - i < k)
    <3> HIDE DEF T, R
    <3> QED
      BY <2>1, <1>2, <1>4
  <2> QED
    BY <2>1, <2>2
<1>6. n - k \in S /\ \A i \in S : i \in Nat
  OBVIOUS
<1>7. \E x \in S : \A y \in S : x >= y
  BY <1>5, <1>6
<1>8. Max(S) \in S /\ \A y \in S : Max(S) >= y
  <2> HIDE DEF T, R
  <2> QED
    BY <1>7 DEF Max
<1> QED
  BY <1>6, <1>8

LEMMA FirstPosition ==
  ASSUME NEW S \in SUBSET Nat, S # {}
  PROVE  Min(S) \in S /\ \A i \in S : Min(S) <= i
<1> DEFINE R == OpToRel(<, Nat)
<1>1. \A x, y \in Nat : y < x => <<y, x>> \in R
  BY DEF OpToRel
<1>2. IsWellFoundedOn(R, Nat)
  BY NatLessThanWellFounded
<1> HIDE DEF R
<1>3. PICK x \in S : \A y \in S : ~(<<y, x>> \in R)
  BY <1>2, WFMin
<1>4. \A y \in S : x <= y
  <2> TAKE y \in S
  <2>1. x \in Nat /\ y \in Nat /\ ~(y < x)
    BY <1>1, <1>3
  <2> QED
    BY <2>1
<1> QED
  BY <1>4 DEF Min

LEMMA SeqGrows ==
  ASSUME NEW S, NEW T, S \subseteq T, NEW s \in Seq(S)
  PROVE  s \in Seq(T)
  OBVIOUS

\* The results of a command are those of all the hosts, each once.
LEMMA OrderCovers ==
  ASSUME NEW S, IsFiniteSet(S), NEW order \in SetToSeqs(S)
  PROVE  /\ order \in [1..Cardinality(S) -> S]
         /\ Cardinality(S) \in Nat
         /\ \A i, j \in DOMAIN order : order[i] = order[j] => i = j
         /\ \A h \in S : \E i \in DOMAIN order : order[i] = h
<1> DEFINE D == 1..Cardinality(S)
<1>1. Cardinality(S) \in Nat
  BY FS_CardinalityType
<1>2. /\ order \in [D -> S]
      /\ \A i, j \in D : i # j => order[i] # order[j]
  BY DEF SetToSeqs
<1>3. order \in Injection(D, S)
  BY <1>2 DEF Injection, IsInjective
<1>4. Cardinality(D) = Cardinality(S)
  BY <1>1, FS_Interval
<1>5. order \in Surjection(D, S)
  <2> HIDE DEF D
  <2> QED BY <1>3, <1>4, FS_Injection
<1> QED BY <1>1, <1>2, <1>5 DEF Surjection

-----------------------------------------------------------------------------
(* The process registry *)

RegIInv ==
    /\ RegTypeOK
    /\ steady \subseteq Alive
    /\ RegistryTracks

Present(hosts, groups) == {pl \in hosts \X groups : cgroup[pl[1]][pl[2]] # "absent"}

\* What ProcessRegistry.build returns: processes of hosts and, when every host
\* is known by its address, those of the cgroups that are there, as they are.
LEMMA BuiltIs ==
  ASSUME RegTypeOK, NEW hosts \in SUBSET Workers, NEW groups \in SUBSET Groups,
         NEW order \in Orders(hosts, groups), ~Raises(order)
  PROVE  /\ Built(order, groups) \subseteq [host : Workers, group : groups, alive : BOOLEAN]
         /\ renamed = {} =>
               /\ \A p \in Built(order, groups) : p.alive = (cgroup[p.host][p.group] = "alive")
               /\ Recorded(Built(order, groups)) = Present(hosts, groups)
<1> DEFINE S == {h \in hosts : Listing(h, groups) # {}}
           n == Cardinality(S)
<1>1. IsFiniteSet(S)
  BY RegistryAssumption, FS_Subset
<1>2. order \in SetToSeqs(S)
  BY DEF Orders
<1>3. /\ n \in Nat /\ order \in [1..n -> S] /\ DOMAIN order = 1..n
      /\ \A h \in S : \E i \in 1..n : order[i] = h
  <2> HIDE DEF S
  <2>1. /\ n \in Nat /\ order \in [1..n -> S]
        /\ \A h \in S : \E i \in DOMAIN order : order[i] = h
    BY <1>1, <1>2, OrderCovers
  <2> QED
    BY <2>1
<1>4. S \subseteq hosts /\ hosts \subseteq Workers
  OBVIOUS
<1> HIDE DEF S, n
<1>5. ASSUME NEW i \in 1..n
      PROVE  /\ FoundHost(order, i) \in Workers
             /\ renamed = {} => FoundHost(order, i) = order[i]
  <2> DEFINE matching == {j \in 1..i : order[j] \notin renamed}
  <2>1. matching # {}
    BY <1>3, <1>5 DEF Raises, FoundHost
  <2>2. FoundHost(order, i) = order[Max(matching)]
    BY <2>1 DEF FoundHost
  <2>3. i \in Nat /\ matching \subseteq 1..i /\ 1..i \subseteq 1..n
    BY <1>3
  <2>4. Max(matching) \in matching /\ \A j \in matching : j <= Max(matching)
    <3> HIDE DEF matching
    <3> QED
      BY <2>1, <2>3, LastPosition
  <2>5. Max(matching) \in 1..n
    BY <2>3, <2>4
  <2>6. ASSUME renamed = {} PROVE Max(matching) = i
    <3>1. i \in matching
      BY <2>6
    <3> QED
      BY <2>3, <2>4, <3>1
  <2> QED
    BY <1>3, <1>4, <2>2, <2>5, <2>6
<1>6. ASSUME NEW p \in Built(order, groups)
      PROVE  \E i \in 1..n : \E g \in groups :
                /\ cgroup[order[i]][g] # "absent"
                /\ p = [host |-> FoundHost(order, i), group |-> g, alive |-> cgroup[order[i]][g] = "alive"]
  BY <1>3 DEF Built, Listing
<1>7. ASSUME NEW i \in 1..n, NEW g \in groups, cgroup[order[i]][g] # "absent"
      PROVE  [host |-> FoundHost(order, i), group |-> g, alive |-> cgroup[order[i]][g] = "alive"]
                \in Built(order, groups)
  BY <1>3, <1>7 DEF Built, Listing
<1>8. ASSUME NEW p \in Built(order, groups)
      PROVE  p \in [host : Workers, group : groups, alive : BOOLEAN]
  <2>1. PICK i \in 1..n, g \in groups :
           p = [host |-> FoundHost(order, i), group |-> g, alive |-> cgroup[order[i]][g] = "alive"]
    BY <1>6
  <2>2. FoundHost(order, i) \in Workers /\ (cgroup[order[i]][g] = "alive") \in BOOLEAN
    BY <1>5
  <2> QED
    BY <2>1, <2>2
<1>9. ASSUME renamed = {}
      PROVE  /\ \A p \in Built(order, groups) : p.alive = (cgroup[p.host][p.group] = "alive")
             /\ Recorded(Built(order, groups)) = Present(hosts, groups)
  <2>1. \A p \in Built(order, groups) :
           /\ p.host \in hosts
           /\ p.alive = (cgroup[p.host][p.group] = "alive")
           /\ cgroup[p.host][p.group] # "absent"
    BY <1>3, <1>4, <1>5, <1>6, <1>9
  <2>2. Recorded(Built(order, groups)) \subseteq Present(hosts, groups)
    BY <1>8, <2>1 DEF Recorded, Present
  <2>3. ASSUME NEW pl \in Present(hosts, groups) PROVE pl \in Recorded(Built(order, groups))
    <3>1. PICK h \in hosts, g \in groups : pl = <<h, g>> /\ cgroup[h][g] # "absent"
      BY DEF Present
    <3>2. h \in S
      BY <3>1 DEF S, Listing
    <3>3. PICK i \in 1..n : order[i] = h
      BY <1>3, <3>2
    <3>4. [host |-> h, group |-> g, alive |-> cgroup[h][g] = "alive"] \in Built(order, groups)
      BY <1>5, <1>7, <1>9, <3>1, <3>3
    <3> QED
      BY <3>1, <3>4 DEF Recorded
  <2> QED
    BY <2>1, <2>2, <2>3
<1> QED
  BY <1>8, <1>9

\* Stopping cgroups only takes from what is alive.
LEMMA StopKeeps ==
  ASSUME RegIInv, NEW places, Stop(places), UNCHANGED <<renamed, registry, listed, starts>>
  PROVE  RegIInv'
<1>1. RegTypeOK'
  BY DEF RegIInv, RegTypeOK, Stop, Stopped
<1>2. (steady \subseteq Alive)'
  <2> SUFFICES ASSUME NEW pl \in steady' PROVE pl \in Alive'
    OBVIOUS
  <2>1. pl \in steady /\ pl \notin places /\ pl \in Places /\ cgroup[pl[1]][pl[2]] = "alive"
    BY DEF RegIInv, Stop, Alive
  <2>2. pl[1] \in Workers /\ pl[2] \in Groups /\ pl = <<pl[1], pl[2]>>
    BY <2>1 DEF Places
  <2>3. cgroup'[pl[1]][pl[2]] = "alive"
    BY <2>1, <2>2 DEF Stop, Stopped
  <2> QED
    BY <2>1, <2>3 DEF Alive
<1>3. RegistryTracks'
  BY DEF RegIInv, RegistryTracks, Stop, Recorded
<1> QED
  BY <1>1, <1>2, <1>3 DEF RegIInv

\* A registry that is built takes the place of the one that was there.
LEMMA NewRegistry ==
  ASSUME RegIInv, NEW hosts \in SUBSET Workers, NEW groups \in SUBSET Groups,
         NEW order \in Orders(hosts, groups), ~Raises(order),
         registry' = Built(order, groups), listed' = Recorded(registry'), steady' = Alive,
         UNCHANGED <<renamed, cgroup, starts>>
  PROVE  RegIInv'
<1>1. RegTypeOK
  BY DEF RegIInv
<1>2. registry' \subseteq [host : Workers, group : groups, alive : BOOLEAN]
  BY <1>1, BuiltIs
<1>3. renamed = {} => \A p \in registry' : p.alive = (cgroup[p.host][p.group] = "alive")
  BY <1>1, BuiltIs
<1>4. RegTypeOK'
  BY <1>1, <1>2 DEF RegTypeOK, Alive, Recorded, Places
<1>5. (steady \subseteq Alive)'
  BY DEF Alive
<1>6. RegistryTracks'
  <2> SUFFICES ASSUME renamed' = {}
               PROVE  /\ \A p, q \in registry' : p.host = q.host /\ p.group = q.group => p = q
                      /\ Recorded(registry)' = listed'
                      /\ \A p \in registry' : <<p.host, p.group>> \in steady' => p.alive
    BY DEF RegistryTracks
  <2>1. \A p \in registry' : p.alive = (cgroup[p.host][p.group] = "alive")
    BY <1>3
  <2>2. \A p, q \in registry' : p.host = q.host /\ p.group = q.group => p = q
    BY <1>2, <2>1
  <2>3. \A p \in registry' : <<p.host, p.group>> \in steady' => p.alive
    BY <2>1 DEF Alive
  <2> QED
    BY <2>2, <2>3 DEF Recorded
<1> QED
  BY <1>4, <1>5, <1>6 DEF RegIInv

LEMMA SameRegistry == ASSUME RegIInv, UNCHANGED registryVars PROVE RegIInv'
  BY DEF registryVars, RegIInv, RegTypeOK, RegistryTracks, Alive, Recorded

LEMMA BuildKeeps ==
  ASSUME RegIInv, NEW groups \in SUBSET Groups, Build(groups)
  PROVE  RegIInv'
<1>1. PICK order \in Orders(Workers, groups) :
         IF Raises(order) THEN UNCHANGED <<registry, steady, listed>>
         ELSE /\ registry' = Built(order, groups)
              /\ listed' = Recorded(Built(order, groups))
              /\ steady' = Alive
  BY DEF Build
<1>2. UNCHANGED <<renamed, cgroup, starts>>
  BY DEF Build
<1>3. CASE Raises(order)
  BY <1>1, <1>2, <1>3, SameRegistry DEF registryVars
<1>4. CASE ~Raises(order)
  BY <1>1, <1>2, <1>4, NewRegistry
<1> QED
  BY <1>3, <1>4

LEMMA RefreshKeeps ==
  ASSUME RegIInv, Refresh
  PROVE  RegIInv'
<1>1. PICK order \in Orders(Workers, Groups) :
         IF Raises(order) THEN UNCHANGED <<registry, steady, listed>>
         ELSE /\ registry' = Refreshed(registry, Built(order, Groups))
              /\ listed' = listed \cup Recorded(Built(order, Groups))
              /\ steady' = Alive
  BY DEF Refresh
<1>2. UNCHANGED <<renamed, cgroup, starts>>
  BY DEF Refresh
<1>3. CASE Raises(order)
  BY <1>1, <1>2, <1>3 DEF RegIInv, RegTypeOK, RegistryTracks, Alive, Recorded
<1>4. CASE ~Raises(order)
  <2> DEFINE new == Built(order, Groups)
             gone == {p \in registry : <<p.host, p.group>> \notin Recorded(new)}
  <2>1. RegTypeOK /\ registry \subseteq [host : Workers, group : Groups, alive : BOOLEAN]
    BY DEF RegIInv, RegTypeOK
  <2>2. /\ registry' = new \cup {[p EXCEPT !.alive = FALSE] : p \in gone}
        /\ listed' = listed \cup Recorded(new)
        /\ steady' = Alive
    BY <1>1, <1>4 DEF Refreshed
  <2>3. /\ new \subseteq [host : Workers, group : Groups, alive : BOOLEAN]
        /\ renamed = {} =>
              /\ \A p \in new : p.alive = (cgroup[p.host][p.group] = "alive")
              /\ Recorded(new) = Present(Workers, Groups)
    BY <1>4, <2>1, BuiltIs
  <2> HIDE DEF new
  <2>4. \A q \in registry' : \/ q \in new
                             \/ /\ \E p \in gone : q.host = p.host /\ q.group = p.group
                                /\ q.alive = FALSE
                                /\ q \in [host : Workers, group : Groups, alive : BOOLEAN]
    BY <2>1, <2>2
  <2>5. registry' \subseteq [host : Workers, group : Groups, alive : BOOLEAN]
    BY <2>3, <2>4
  <2>6. RegTypeOK'
    <3>1. Recorded(new) \subseteq Places
      BY <2>3 DEF Recorded, Places
    <3> QED
      BY <1>2, <2>1, <2>2, <2>5, <3>1 DEF RegTypeOK, Alive
  <2>7. (steady \subseteq Alive)'
    BY <1>2, <2>2 DEF Alive
  <2>8. RegistryTracks'
    <3> SUFFICES ASSUME renamed' = {}
                 PROVE  /\ \A p, q \in registry' : p.host = q.host /\ p.group = q.group => p = q
                        /\ Recorded(registry)' = listed'
                        /\ \A p \in registry' : <<p.host, p.group>> \in steady' => p.alive
      BY DEF RegistryTracks
    <3>1. /\ \A p \in new : p.alive = (cgroup[p.host][p.group] = "alive")
          /\ Recorded(new) = Present(Workers, Groups)
          /\ Recorded(registry) = listed
      BY <1>2, <2>3 DEF RegIInv, RegistryTracks
    <3>2. \A q \in registry' : q \notin new =>
             q.alive = FALSE /\ <<q.host, q.group>> \notin Recorded(new)
      BY <2>4
    <3>3. \A q \in new : <<q.host, q.group>> \in Recorded(new)
      BY DEF Recorded
    <3>4. \A p, q \in registry' : p.host = q.host /\ p.group = q.group => p = q
      <4> SUFFICES ASSUME NEW p \in registry', NEW q \in registry',
                          p.host = q.host, p.group = q.group
                   PROVE  p = q
        OBVIOUS
      <4>1. p \in new <=> q \in new
        BY <3>2, <3>3
      <4>2. p.alive = q.alive
        BY <3>1, <3>2, <4>1
      <4> QED
        BY <2>5, <4>2
    <3>5. Recorded(registry)' = listed'
      <4>1. ASSUME NEW q \in registry' PROVE <<q.host, q.group>> \in listed'
        BY <2>2, <2>4, <3>1, <3>3 DEF Recorded
      <4>2. ASSUME NEW p \in registry PROVE \E q \in registry' : q.host = p.host /\ q.group = p.group
        <5>1. CASE p \in gone
          <6>1. [p EXCEPT !.alive = FALSE] \in registry'
            BY <2>2, <5>1
          <6>2. [p EXCEPT !.alive = FALSE].host = p.host /\ [p EXCEPT !.alive = FALSE].group = p.group
            BY <2>1
          <6> QED
            BY <6>1, <6>2
        <5>2. CASE p \notin gone
          <6>1. PICK q \in new : <<p.host, p.group>> = <<q.host, q.group>>
            BY <5>2 DEF Recorded
          <6> QED
            BY <2>2, <6>1
        <5> QED
          BY <5>1, <5>2
      <4>3. ASSUME NEW pl \in listed'
            PROVE  \E q \in registry' : pl = <<q.host, q.group>>
        <5>1. CASE pl \in Recorded(new)
          BY <2>2, <5>1 DEF Recorded
        <5>2. CASE pl \in listed
          <6>1. PICK p \in registry : pl = <<p.host, p.group>>
            BY <3>1, <5>2 DEF Recorded
          <6> QED
            BY <4>2, <6>1
        <5> QED
          BY <2>2, <5>1, <5>2
      <4> QED
        BY <4>1, <4>3 DEF Recorded
    <3>6. ASSUME NEW p \in registry', <<p.host, p.group>> \in steady' PROVE p.alive
      <4>1. p.host \in Workers /\ p.group \in Groups /\ cgroup[p.host][p.group] = "alive"
        BY <2>2, <2>5, <3>6 DEF Alive
      <4>2. <<p.host, p.group>> \in Recorded(new)
        BY <3>1, <4>1 DEF Present
      <4> QED
        BY <3>1, <3>2, <4>1, <4>2
    <3> QED
      BY <3>4, <3>5, <3>6
  <2> QED
    BY <2>6, <2>7, <2>8 DEF RegIInv
<1> QED
  BY <1>3, <1>4

LEMMA RefreshOneKeeps ==
  ASSUME RegIInv, NEW p \in registry, RefreshOne(p)
  PROVE  RegIInv'
<1> DEFINE q == [p EXCEPT !.alive = cgroup[p.host][p.group] = "alive"]
<1>1. p \in [host : Workers, group : Groups, alive : BOOLEAN] /\ <<p.host, p.group>> \in Places
  BY DEF RegIInv, RegTypeOK, Places
<1>2. /\ q \in [host : Workers, group : Groups, alive : BOOLEAN]
      /\ q.host = p.host /\ q.group = p.group
      /\ q.alive = (cgroup[p.host][p.group] = "alive")
  BY <1>1
<1>3. /\ registry' = (registry \ {p}) \cup {q}
      /\ UNCHANGED <<renamed, cgroup, listed, starts>>
      /\ steady' = IF cgroup[p.host][p.group] = "alive" THEN steady \cup {<<p.host, p.group>>} ELSE steady
  BY DEF RefreshOne
<1> HIDE DEF q
<1>4. RegTypeOK'
  BY <1>1, <1>2, <1>3 DEF RegIInv, RegTypeOK
<1>5. (steady \subseteq Alive)'
  BY <1>1, <1>3 DEF RegIInv, Alive
<1>6. RegistryTracks'
  <2> SUFFICES ASSUME renamed' = {}
               PROVE  /\ \A r, s \in registry' : r.host = s.host /\ r.group = s.group => r = s
                      /\ Recorded(registry)' = listed'
                      /\ \A r \in registry' : <<r.host, r.group>> \in steady' => r.alive
    BY DEF RegistryTracks
  <2>1. /\ \A r, s \in registry : r.host = s.host /\ r.group = s.group => r = s
        /\ Recorded(registry) = listed
        /\ \A r \in registry : <<r.host, r.group>> \in steady => r.alive
        /\ steady \subseteq Alive
    BY <1>3 DEF RegIInv, RegistryTracks
  <2>2. \A r, s \in registry' : r.host = s.host /\ r.group = s.group => r = s
    BY <1>2, <1>3, <2>1
  <2>3. Recorded(registry)' = listed'
    BY <1>2, <1>3, <2>1 DEF Recorded
  <2>4. ASSUME NEW r \in registry', <<r.host, r.group>> \in steady' PROVE r.alive
    <3>1. CASE r = q
      BY <1>2, <1>3, <2>1, <2>4, <3>1 DEF Alive
    <3>2. CASE r # q
      <4>1. r \in registry /\ r # p
        BY <1>3, <3>2
      <4>2. <<r.host, r.group>> # <<p.host, p.group>>
        BY <2>1, <4>1
      <4> QED
        BY <1>3, <2>1, <2>4, <4>1, <4>2
    <3> QED
      BY <3>1, <3>2
  <2> QED
    BY <2>2, <2>3, <2>4
<1> QED
  BY <1>4, <1>5, <1>6 DEF RegIInv

LEMMA RegInitOK == RegInit => RegIInv
  BY RegistryAssumption DEF RegInit, RegIInv, RegTypeOK, RegistryTracks, Recorded

LEMMA RegStepOK == RegIInv /\ [RegNext]_registryVars => RegIInv'
<1> SUFFICES ASSUME RegIInv, [RegNext]_registryVars PROVE RegIInv'
  OBVIOUS
<1>1. ASSUME NEW h \in Workers, Reboots(h) PROVE RegIInv'
  <2>1. RegTypeOK'
    BY <1>1 DEF Reboots, RegIInv, RegTypeOK
  <2>2. (steady \subseteq Alive)'
    BY <1>1 DEF Reboots, RegIInv, RegTypeOK, Alive, Places
  <2>3. RegistryTracks'
    BY <1>1 DEF Reboots, RegIInv, RegistryTracks, Recorded
  <2> QED
    BY <2>1, <2>2, <2>3 DEF RegIInv
<1>2. ASSUME NEW h \in Workers, NEW g \in Groups, StartProcess(h, g) PROVE RegIInv'
  <2>1. RegTypeOK'
    BY <1>2, RegistryAssumption DEF StartProcess, Run, RegIInv, RegTypeOK
  <2>2. (steady \subseteq Alive)'
    BY <1>2 DEF StartProcess, Run, RegIInv, RegTypeOK, Alive, Places
  <2>3. RegistryTracks'
    BY <1>2 DEF StartProcess, RegIInv, RegistryTracks, Recorded
  <2> QED
    BY <2>1, <2>2, <2>3 DEF RegIInv
<1>3. ASSUME NEW h \in Workers, NEW g \in Groups, ProcessEnds(h, g) PROVE RegIInv'
  BY <1>3, StopKeeps DEF ProcessEnds
<1>4. ASSUME NEW groups \in SUBSET Groups, Build(groups) PROVE RegIInv'
  BY <1>4, BuildKeeps
<1>5. ASSUME Refresh PROVE RegIInv'
  BY <1>5, RefreshKeeps
<1>6. ASSUME NEW sub, Kill(sub) PROVE RegIInv'
  BY <1>6, StopKeeps DEF Kill
<1>7. ASSUME NEW n, KillIncr(n) PROVE RegIInv'
  BY <1>7, StopKeeps DEF KillIncr
<1>8. ASSUME NEW p, KillOne(p) PROVE RegIInv'
  BY <1>8, StopKeeps DEF KillOne
<1>9. ASSUME NEW p \in registry, RefreshOne(p) PROVE RegIInv'
  BY <1>9, RefreshOneKeeps
<1>10. ASSUME UNCHANGED registryVars PROVE RegIInv'
  BY <1>10, SameRegistry
<1> QED
  BY <1>1, <1>2, <1>3, <1>4, <1>5, <1>6, <1>7, <1>8, <1>9, <1>10 DEF RegNext


-----------------------------------------------------------------------------
(* The planning service, which moves the same registry *)

PlanIInv ==
    /\ RegIInv
    /\ events \in Plans
    /\ sleeping \subseteq [host : Workers, group : Groups, do : Actions]

RegistryOrPlanning == PlanNext \/ (RegNext /\ UNCHANGED planVars)

LEMMA PlanStepOK == PlanIInv /\ [RegistryOrPlanning]_allVars => PlanIInv'
<1> SUFFICES ASSUME PlanIInv, [RegistryOrPlanning]_allVars PROVE PlanIInv'
  OBVIOUS
<1>0. RegIInv /\ RegTypeOK
  BY DEF PlanIInv, RegIInv
<1>1. CASE Tick
  <2>1. RegIInv'
    BY <1>0, <1>1, SameRegistry DEF Tick
  <2>2. events' = events
    BY <1>1 DEF Tick
  <2>3. sleeping' \subseteq [host : Workers, group : Groups, do : Actions]
    BY <1>1 DEF Tick, Entry
  <2> QED
    BY <2>1, <2>2, <2>3 DEF PlanIInv
<1>2. CASE DeployPlanning \/ RemoveEntries \/ KillAsync \/ \E n \in 1..2, i \in 0..1 : KillAsyncIncr(n, i)
  <2>1. UNCHANGED registryVars /\ UNCHANGED <<events, sleeping>>
    BY <1>2 DEF DeployPlanning, RemoveEntries, KillAsync, KillAsyncIncr
  <2> QED
    BY <1>0, <2>1, SameRegistry DEF PlanIInv
<1>3. CASE KillRegistry
  <2>1. RegIInv'
    BY <1>0, <1>3, StopKeeps DEF KillRegistry
  <2> QED
    BY <1>3, <2>1 DEF KillRegistry, PlanIInv
<1>4. ASSUME NEW job \in sleeping, Wake(job) PROVE PlanIInv'
  <2>1. job.host \in Workers /\ job.group \in Groups
    BY DEF PlanIInv
  <2>2. UNCHANGED <<renamed, registry, listed, starts>> /\ UNCHANGED events /\ sleeping' \subseteq sleeping
    BY <1>4 DEF Wake
  <2>3. CASE Run(job.host, job.group) /\ UNCHANGED steady
    <3>1. RegTypeOK'
      BY <1>0, <2>1, <2>2, <2>3 DEF Run, RegTypeOK
    <3>2. (steady \subseteq Alive)'
      BY <1>0, <2>1, <2>2, <2>3 DEF Run, RegIInv, RegTypeOK, Alive, Places
    <3>3. RegistryTracks'
      BY <1>0, <2>2, <2>3 DEF RegIInv, RegistryTracks, Recorded
    <3> QED
      BY <2>2, <3>1, <3>2, <3>3 DEF RegIInv, PlanIInv
  <2>4. CASE Stop({<<job.host, job.group>>})
    <3>1. RegIInv'
      BY <1>0, <2>2, <2>4, StopKeeps
    <3> QED
      BY <2>2, <3>1 DEF PlanIInv
  <2>5. CASE UNCHANGED <<cgroup, steady>>
    <3>1. RegIInv'
      BY <1>0, <2>2, <2>5, SameRegistry DEF registryVars
    <3> QED
      BY <2>2, <3>1 DEF PlanIInv
  <2> QED
    BY <1>4, <2>3, <2>4, <2>5 DEF Wake
<1>5. ASSUME NEW wait \in BOOLEAN, Status(wait) PROVE PlanIInv'
  <2>1. Hosts \in SUBSET Workers /\ StatusNames \in SUBSET Groups
    <3>1. events \in Seq(Event)
      BY PlanningAssumption DEF PlanIInv
    <3>2. \A i \in DOMAIN events : events[i] \in Event
      BY <3>1
    <3>3. \A e \in Event : e.host \in Workers /\ e.group \in Groups
      BY DEF Event
    <3> QED
      BY <3>2, <3>3 DEF Hosts, StatusNames, Names, Events
  <2>2. UNCHANGED <<renamed, cgroup, starts>> /\ UNCHANGED <<events, sleeping>>
    BY <1>5 DEF Status
  <2>3. PICK order \in Orders(Hosts, StatusNames) :
          IF Raises(order) THEN UNCHANGED <<registry, steady, listed>>
          ELSE /\ registry' = Built(order, StatusNames)
               /\ listed' = Recorded(registry')
               /\ steady' = Alive
    BY <1>5 DEF Status
  <2>4. RegIInv'
    <3>1. CASE Raises(order)
      BY <1>0, <2>2, <2>3, <3>1, SameRegistry DEF registryVars
    <3>2. CASE ~Raises(order)
      <4> HIDE DEF Hosts, StatusNames
      <4> QED
        BY <1>0, <2>1, <2>2, <2>3, <3>2, NewRegistry
    <3> QED
      BY <3>1, <3>2
  <2> QED
    BY <2>2, <2>4 DEF PlanIInv
<1>6. ASSUME NEW h \in Workers, NEW g \in Groups, ProcessEnds(h, g), UNCHANGED planVars PROVE PlanIInv'
  <2>1. RegIInv'
    BY <1>0, <1>6, StopKeeps DEF ProcessEnds
  <2> QED
    BY <1>6, <2>1 DEF PlanIInv, planVars
<1>7. CASE RegNext /\ UNCHANGED planVars
  <2>1. RegIInv'
    BY <1>0, <1>7, RegStepOK
  <2> QED
    BY <1>7, <2>1 DEF PlanIInv, planVars
<1>8. CASE UNCHANGED allVars
  <2>1. RegIInv'
    BY <1>0, <1>8, SameRegistry DEF allVars
  <2> QED
    BY <1>8, <2>1 DEF PlanIInv, allVars, planVars
<1> QED
  BY <1>1, <1>2, <1>3, <1>4, <1>5, <1>6, <1>7, <1>8 DEF RegistryOrPlanning, PlanNext

LEMMA RegistryRun == Spec => PlanInit /\ [][RegistryOrPlanning]_allVars
<1>1. Init => PlanInit
  BY DEF Init
<1>2. [Next]_vars => [RegistryOrPlanning]_allVars
  BY DEF Next, vars, RegistryOrPlanning, machineVars
<1> QED
  BY <1>1, <1>2, PTL DEF Spec

\* As long as every host is known by its address, a registry holds one process
\* of each group of each host it has listed, whatever is built, refreshed and
\* killed, by a client or by the planning service, and records alive what has
\* been alive since it was brought up to date (ProcessRegistry.build, refresh,
\* kill and kill_incr, PlanningService.status and destroy).
THEOREM RegistryIsTracked == Spec => []RegistryTracks
<1>1. PlanInit => PlanIInv
  BY RegInitOK DEF PlanInit, PlanIInv
<1>2. PlanIInv => RegistryTracks
  BY DEF PlanIInv, RegIInv
<1> QED
  BY <1>1, <1>2, PlanStepOK, RegistryRun, PTL

-----------------------------------------------------------------------------
(* The firewall of Grid'5000 *)

\* Rules are those of the jobs that are there; and while a block is left, of
\* the jobs that remain to be dealt with.
FirewallIInv ==
    /\ FirewallCloses
    /\ gate.at \in {"closed", "opening", "open", "closing", "failed"}
    /\ DOMAIN gate = {"at", "jobs"}
    /\ gate.jobs \subseteq oar.sites
    /\ \A rule \in opened : rule.site \in oar.sites
    /\ gate.at = "closing" => \A rule \in opened : rule.site \in gate.jobs

LEMMA FirewallInitOK == G5kInit => FirewallIInv
  BY DEF G5kInit, FirewallIInv, FirewallCloses, Closed

LEMMA FirewallStepOK == FirewallIInv /\ [G5kNext]_g5kVars => FirewallIInv'
<1> SUFFICES ASSUME FirewallIInv, [G5kNext]_g5kVars PROVE FirewallIInv'
  OBVIOUS
<1> USE DEF FirewallIInv, FirewallCloses
<1>1. CASE AskSlot \/ Concretize \/ MoveCard \/ DeployG5k \/ WaitNodes \/ RunDhcp \/ GrantRootAccess
  <2>1. UNCHANGED <<oar, opened, gate>>
    BY <1>1 DEF AskSlot, Concretize, MoveCard, DeployG5k, WaitNodes, RunDhcp, GrantRootAccess
  <2> QED
    BY <2>1
<1>2. CASE ReserveG5k
  <2>1. UNCHANGED <<opened, gate>> /\ gate.at \in {"closed", "failed"} /\ (oar # NoJobs => oar' = oar)
    BY <1>2 DEF ReserveG5k
  <2>2. CASE oar = NoJobs
    <3>1. opened = {} /\ gate.jobs = {}
      BY <2>2 DEF NoJobs
    <3> QED
      BY <2>1, <3>1
  <2> QED
    BY <2>1, <2>2
<1>3. CASE G5kKilled
  BY <1>3 DEF G5kKilled, Closed
<1>4. CASE G5kJobsEnd
  BY <1>4 DEF G5kJobsEnd, Closed
<1>5. CASE EnterFirewall
  BY <1>5 DEF EnterFirewall
<1>6. CASE CreateRule
  <2>1. PICK site \in gate.jobs : \E rule :
          /\ rule.site = site
          /\ UNCHANGED oar
          /\ \/ /\ opened' = opened \cup {rule}
                /\ gate' = [at |-> IF gate.jobs \ {site} = {} THEN "open" ELSE "opening",
                            jobs |-> gate.jobs \ {site}]
             \/ gate' = [at |-> "failed", jobs |-> {}] /\ UNCHANGED opened
    <3>1. PICK site \in gate.jobs, limit \in BOOLEAN, done \in BOOLEAN :
            LET assigned == {n \in oar.nodes : SiteOfNode(n) = site}
                named == {h.node : h \in {h \in g5k.found : h.address = "plain"}}
                left == gate.jobs \ {site}
            IN  IF done
                THEN /\ opened' = opened \cup {[site |-> site, nodes |-> IF limit THEN assigned \cap named
                                                                          ELSE assigned]}
                     /\ gate' = [at |-> IF left = {} THEN "open" ELSE "opening", jobs |-> left]
                ELSE gate' = [at |-> "failed", jobs |-> {}] /\ UNCHANGED opened
      BY <1>6 DEF CreateRule
    <3>2. UNCHANGED oar
      BY <1>6 DEF CreateRule
    <3> DEFINE rule == [site |-> site,
                        nodes |-> IF limit
                                  THEN {n \in oar.nodes : SiteOfNode(n) = site}
                                       \cap {h.node : h \in {h \in g5k.found : h.address = "plain"}}
                                  ELSE {n \in oar.nodes : SiteOfNode(n) = site}]
    <3>3. rule.site = site
      OBVIOUS
    <3>4. \/ /\ opened' = opened \cup {rule}
             /\ gate' = [at |-> IF gate.jobs \ {site} = {} THEN "open" ELSE "opening",
                         jobs |-> gate.jobs \ {site}]
          \/ gate' = [at |-> "failed", jobs |-> {}] /\ UNCHANGED opened
      BY <3>1
    <3> HIDE DEF rule
    <3> QED
      BY <3>2, <3>3, <3>4
  <2> QED
    BY <2>1
<1>7. CASE LeaveFirewall
  BY <1>7 DEF LeaveFirewall, ClosingJobs, Closed
<1>8. CASE DeleteRules
  <2>1. PICK site \in gate.jobs :
          \/ /\ opened' = {rule \in opened : rule.site # site}
             /\ gate' = IF gate.jobs = {site} THEN Closed ELSE [gate EXCEPT !.jobs = @ \ {site}]
          \/ gate' = [at |-> "failed", jobs |-> {}] /\ UNCHANGED opened
    BY <1>8 DEF DeleteRules
  <2>2. gate.at = "closing" /\ UNCHANGED oar
    BY <1>8 DEF DeleteRules
  <2>3. CASE opened' = {rule \in opened : rule.site # site} /\ gate' = Closed /\ gate.jobs = {site}
    BY <2>2, <2>3 DEF Closed
  <2>4. CASE opened' = {rule \in opened : rule.site # site} /\ gate' = [gate EXCEPT !.jobs = @ \ {site}]
    BY <2>2, <2>4
  <2>5. CASE gate' = [at |-> "failed", jobs |-> {}] /\ UNCHANGED opened
    BY <2>2, <2>5
  <2> QED
    BY <2>1, <2>3, <2>4, <2>5
<1>9. CASE UNCHANGED g5kVars
  BY <1>9 DEF g5kVars
<1> QED
  BY <1>1, <1>2, <1>3, <1>4, <1>5, <1>6, <1>7, <1>8, <1>9 DEF G5kNext

\* Outside of a block that could be opened and closed the firewall has no rule,
\* whatever failed or was killed in earlier blocks (G5kBase.firewall).
THEOREM FirewallIsClosed == G5kSpec => []FirewallCloses
<1>1. FirewallIInv => FirewallCloses
  BY DEF FirewallIInv
<1> QED
  BY FirewallInitOK, FirewallStepOK, <1>1, PTL DEF G5kSpec

-----------------------------------------------------------------------------
(* The leases of Chameleon *)

LeaseSet(R) == [status : LeaseStatuses, reservations : R]
AtMostOne == \A i, j \in Listed : i = j

\* There is one lease at most, and none when one is about to be made.
ChIInv ==
    /\ \E R : leases \in Seq(LeaseSet(R))
    /\ DOMAIN ch = {"at", "call", "forced", "lease", "plan", "got"}
    /\ ~doubtful => AtMostOne
    /\ ~doubtful /\ ch.at \in {"create", "destroyed"} => Listed = {}

LEMMA LeaseWith ==
  ASSUME NEW R, NEW l \in LeaseSet(R), NEW status \in LeaseStatuses
  PROVE  /\ [l EXCEPT !.status = status] \in LeaseSet(R)
         /\ [l EXCEPT !.status = status].status = status
  BY DEF LeaseSet

\* A lease that is the only one is found by its name.
LEMMA NamedIs ==
  ASSUME NEW R, leases \in Seq(LeaseSet(R)), AtMostOne
  PROVE  /\ Named = 0 => Listed = {}
         /\ Named # 0 => Listed = {Named}
<1>1. CASE Listed = {}
  BY <1>1 DEF Named
<1>2. CASE Listed # {}
  <2>1. PICK i \in Listed : TRUE
    BY <1>2
  <2>2. Listed = {i} /\ i \in Nat /\ i # 0
    BY <2>1 DEF AtMostOne, Listed
  <2>3. Cardinality(Listed) = 1
    BY <2>2, FS_Singleton
  <2>4. Min({i}) = i
    BY <2>2 DEF Min
  <2>5. Named = i
    BY <2>2, <2>3, <2>4 DEF Named
  <2> QED
    BY <2>2, <2>5
<1> QED
  BY <1>1, <1>2

\* Deleting it leaves none.
LEMMA ErasedIs ==
  ASSUME NEW R, leases \in Seq(LeaseSet(R)), AtMostOne, Named # 0, leases' = Erased(Named)
  PROVE  leases' \in Seq(LeaseSet(R)) /\ Listed' = {}
<1>1. Listed = {Named} /\ Named \in DOMAIN leases
  BY NamedIs DEF Listed
<1>2. "DELETED" \in LeaseStatuses
  BY DEF LeaseStatuses
<1>3. /\ leases[Named] \in LeaseSet(R)
      /\ [leases[Named] EXCEPT !.status = "DELETED"] \in LeaseSet(R)
      /\ [leases[Named] EXCEPT !.status = "DELETED"].status = "DELETED"
  <2>1. leases[Named] \in LeaseSet(R)
    BY <1>1
  <2> QED
    BY <1>2, <2>1, LeaseWith
<1>4. leases' = [leases EXCEPT ![Named] = [leases[Named] EXCEPT !.status = "DELETED"]]
  BY DEF Erased
<1>5. leases' \in Seq(LeaseSet(R)) /\ DOMAIN leases' = DOMAIN leases
  BY <1>1, <1>3, <1>4
<1>6. leases'[Named].status = "DELETED"
  BY <1>1, <1>3, <1>4
<1>7. \A i \in DOMAIN leases : i # Named => leases'[i] = leases[i] /\ i \notin Listed
  BY <1>1, <1>4
<1>8. Listed' = {}
  BY <1>5, <1>6, <1>7 DEF Listed
<1> QED
  BY <1>5, <1>8

LEMMA ChInitOK == ChInit => ChIInv
<1> SUFFICES ASSUME ChInit PROVE ChIInv
  OBVIOUS
<1>1. leases \in Seq(LeaseSet({})) /\ Listed = {}
  BY DEF ChInit, Listed
<1> QED
  BY <1>1 DEF ChInit, ChIInv, AtMostOne, Fresh

\* Steps that leave the leases alone and lead neither to their creation nor to
\* the end of a destroy.
LEMMA LeasesStay ==
  ASSUME ChIInv, UNCHANGED leases, DOMAIN ch' = DOMAIN ch, doubtful => doubtful',
         ch'.at \in {"create", "destroyed"} => ch'.at = ch.at \/ doubtful' \/ Listed = {}
  PROVE  ChIInv'
<1>1. Listed' = Listed
  BY DEF Listed
<1> QED
  BY <1>1 DEF ChIInv, AtMostOne

LEMMA ChStepOK == ChIInv /\ [ChNext]_chVars => ChIInv'
<1> SUFFICES ASSUME ChIInv, [ChNext]_chVars PROVE ChIInv'
  OBVIOUS
<1>0. /\ DOMAIN ch = {"at", "call", "forced", "lease", "plan", "got"}
      /\ ~doubtful => AtMostOne
      /\ ~doubtful /\ ch.at \in {"create", "destroyed"} => Listed = {}
  BY DEF ChIInv
<1>R. PICK R : leases \in Seq(LeaseSet(R))
  BY DEF ChIInv
<1>1. ASSUME NEW what, NEW forced, BeginChCall(what, forced) PROVE ChIInv'
  BY <1>0, <1>1, LeasesStay DEF BeginChCall, Fresh
<1>2. CASE LookupEdge \/ LookupMetal
  <2>1. UNCHANGED doubtful /\ DOMAIN ch' = DOMAIN ch
    BY <1>0, <1>2 DEF LookupEdge, LookupMetal, ChGo
  <2>2. \/ /\ UNCHANGED leases
           /\ ch'.at \in {"wait", "raised"} \/ Named = 0
        \/ leases' = Erased(Named) /\ Named # 0
    BY <1>0, <1>2 DEF LookupEdge, LookupMetal, ChGo
  <2>3. CASE UNCHANGED leases /\ ch'.at \in {"wait", "raised"}
    BY <2>1, <2>3, LeasesStay
  <2>4. CASE UNCHANGED leases /\ Named = 0
    <3>1. ~doubtful => Listed = {}
      BY <1>0, <1>R, <2>4, NamedIs
    <3> QED
      BY <2>1, <2>4, <3>1, LeasesStay
  <2>5. CASE leases' = Erased(Named) /\ Named # 0
    <3>1. CASE doubtful
      <4>1. Named \in DOMAIN leases
        <5>1. Named \in Listed
          <6>1. Listed \in SUBSET Nat /\ Listed # {} /\ Named = Min(Listed)
            BY <1>R, <2>5 DEF Named, Listed
          <6> QED
            BY <6>1, FirstPosition
        <5> QED
          BY <5>1 DEF Listed
      <4>2. [leases[Named] EXCEPT !.status = "DELETED"] \in LeaseSet(R)
        <5>1. leases[Named] \in LeaseSet(R) /\ "DELETED" \in LeaseStatuses
          BY <1>R, <4>1 DEF LeaseStatuses
        <5> QED
          BY <5>1, LeaseWith
      <4>3. leases' \in Seq(LeaseSet(R))
        BY <1>R, <2>5, <4>1, <4>2 DEF Erased
      <4> QED
        BY <1>0, <2>1, <3>1, <4>3 DEF ChIInv
    <3>2. CASE ~doubtful
      <4>1. leases' \in Seq(LeaseSet(R)) /\ Listed' = {}
        BY <1>0, <1>R, <2>5, <3>2, ErasedIs
      <4> QED
        BY <1>0, <2>1, <4>1 DEF ChIInv, AtMostOne
    <3> QED
      BY <3>1, <3>2
  <2> QED
    BY <2>2, <2>3, <2>4, <2>5
<1>3. CASE LookupFails
  BY <1>0, <1>3, LeasesStay DEF LookupFails, ChGo
<1>4. CASE CreateLease
  <2>1. CASE UNCHANGED <<leases, doubtful>> /\ ChGo("raised")
    BY <1>0, <2>1, LeasesStay DEF ChGo
  <2>2. CASE /\ leases' = Append(leases, [status |-> "PENDING", reservations |-> Reservations])
             /\ \/ ch' = [ch EXCEPT !.at = "wait", !.lease = Len(leases')] /\ UNCHANGED doubtful
                \/ (ch' = ch \/ ChGo("raised")) /\ doubtful' = TRUE
    <3> DEFINE new == [status |-> "PENDING", reservations |-> Reservations]
               Q == R \cup {Reservations}
    <3>1. new \in LeaseSet(Q) /\ leases \in Seq(LeaseSet(Q)) /\ new.status = "PENDING"
      <4>1. new \in LeaseSet(Q)
        BY DEF LeaseSet, LeaseStatuses
      <4>2. LeaseSet(R) \subseteq LeaseSet(Q)
        BY DEF LeaseSet
      <4> QED
        BY <1>R, <4>1, <4>2, SeqGrows
    <3> HIDE DEF new, Q
    <3>2. leases' = Append(leases, new)
      BY <2>2 DEF new
    <3>3. /\ leases' \in Seq(LeaseSet(Q))
          /\ \A i \in DOMAIN leases' : i = Len(leases) + 1 \/ (i \in DOMAIN leases /\ leases'[i] = leases[i])
      BY <3>1, <3>2
    <3>4. Listed' \subseteq Listed \cup {Len(leases) + 1}
      BY <3>3 DEF Listed
    <3>5. ch.at = "create" /\ DOMAIN ch' = DOMAIN ch /\ (doubtful' \/ UNCHANGED doubtful)
          /\ (~doubtful' => ch'.at = "wait")
      <4>1. ch.at = "create"
        BY <1>4 DEF CreateLease
      <4> QED
        BY <1>0, <2>2, <4>1 DEF ChGo
    <3>6. ~doubtful' => AtMostOne'
      BY <1>0, <3>4, <3>5 DEF AtMostOne
    <3> QED
      BY <1>0, <3>3, <3>5, <3>6 DEF ChIInv
  <2> QED
    BY <1>4, <2>1, <2>2 DEF CreateLease
<1>5. CASE WaitLease \/ CheckPorts \/ ListUnits \/ MakeUnit \/ UnitsReady \/ ChKilled
  <2>1. UNCHANGED <<leases, doubtful>>
    BY <1>5 DEF WaitLease, CheckPorts, ListUnits, MakeUnit, UnitsReady, ChKilled
  <2>2. DOMAIN ch' = DOMAIN ch /\ ch'.at \notin {"create", "destroyed"}
    <3>1. CASE WaitLease
      BY <1>0, <3>1 DEF WaitLease, ChGo
    <3>2. CASE CheckPorts
      BY <1>0, <3>2 DEF CheckPorts, ChGo
    <3>3. CASE ListUnits
      <4>1. \/ \E g, p : ch' = [ch EXCEPT !.at = "make", !.got = g, !.plan = p]
            \/ ch' = [ch EXCEPT !.at = "raised"]
        BY <3>3 DEF ListUnits, ChGo
      <4> QED
        BY <1>0, <4>1
    <3>4. CASE MakeUnit
      BY <1>0, <3>4 DEF MakeUnit
    <3>5. CASE UnitsReady
      BY <1>0, <3>5 DEF UnitsReady, ChGo
    <3>6. CASE ChKilled
      BY <1>0, <3>6 DEF ChKilled, Fresh
    <3> QED
      BY <1>5, <3>1, <3>2, <3>3, <3>4, <3>5, <3>6
  <2> QED
    BY <2>1, <2>2, LeasesStay
<1>6. ASSUME NEW i \in DOMAIN leases, LeaseMoves(i) PROVE ChIInv'
  <2>1. PICK status \in NextStatus(leases[i].status) : leases' = [leases EXCEPT ![i].status = status]
    BY <1>6 DEF LeaseMoves
  <2>2. UNCHANGED <<ch, doubtful>>
    BY <1>6 DEF LeaseMoves
  <2>3. leases[i] \in LeaseSet(R) /\ status \in LeaseStatuses /\ i \in Listed
    <3>1. leases[i] \in LeaseSet(R)
      BY <1>R
    <3>2. status \in LeaseStatuses /\ leases[i].status # "DELETED"
      BY <2>1 DEF NextStatus, LeaseStatuses
    <3> QED
      BY <3>1, <3>2 DEF Listed
  <2>4. [leases[i] EXCEPT !.status = status] \in LeaseSet(R)
    BY <2>3, LeaseWith
  <2>5. /\ leases' \in Seq(LeaseSet(R)) /\ DOMAIN leases' = DOMAIN leases
        /\ \A j \in DOMAIN leases : j # i => leases'[j] = leases[j]
    BY <1>R, <2>1, <2>4
  <2>6. Listed' \subseteq Listed
    BY <2>3, <2>5 DEF Listed
  <2> QED
    BY <1>0, <2>2, <2>5, <2>6 DEF ChIInv, AtMostOne
<1>7. ASSUME NEW i \in DOMAIN units, UnitStarts(i) \/ UnitVanishes(i) PROVE ChIInv'
  BY <1>7, LeasesStay DEF UnitStarts, UnitVanishes
<1>8. CASE UNCHANGED chVars
  BY <1>8, LeasesStay DEF chVars
<1> QED
  BY <1>1, <1>2, <1>3, <1>4, <1>5, <1>6, <1>7, <1>8 DEF ChNext

\* A destroy that returns leaves no lease of its name as long as no request
\* about leases failed, on the edge as on bare metal.
THEOREM LeasesReleased == ChSpec => []ChameleonReleased
<1>1. ChIInv => ChameleonReleased
  BY DEF ChIInv, ChameleonReleased
<1> QED
  BY ChInitOK, ChStepOK, <1>1, PTL DEF ChSpec

-----------------------------------------------------------------------------
(* The slices of FABRIC *)

SliceSet(Q) ==
    [status : {"configuring", "ok", "error", "deleted"}, nodes : Q, ifaces : Q, components : Q, mounts : Q]

\* There is one slice at most, and none when one is about to be built.
FabIInv ==
    /\ \E Q : slices \in Seq(SliceSet(Q))
    /\ DOMAIN fab = {"at", "call", "forced", "slice", "known", "todo"}
    /\ ~uncertain => \A s, t \in Existing : s = t
    /\ ~uncertain /\ fab.at \in {"build", "destroyed"} => Existing = {}

LEMMA SliceWith ==
  ASSUME NEW Q, NEW X, NEW slice \in SliceSet(Q)
  PROVE  /\ slice \in SliceSet(Q \cup {X})
         /\ \A status \in {"configuring", "ok", "error", "deleted"} :
               /\ [slice EXCEPT !.status = status] \in SliceSet(Q \cup {X})
               /\ [slice EXCEPT !.status = status].status = status
  BY DEF SliceSet

\* A slice is rewritten, which may delete it.
LEMMA Rewritten ==
  ASSUME NEW Q, slices \in Seq(SliceSet(Q)), NEW X, NEW s, NEW slice,
         s \in DOMAIN slices => slice \in SliceSet(Q \cup {X}),
         slices' = [slices EXCEPT ![s] = slice],
         s \in DOMAIN slices /\ slice.status # "deleted" => slices[s].status # "deleted"
  PROVE  /\ slices' \in Seq(SliceSet(Q \cup {X}))
         /\ Existing' \subseteq Existing
         /\ s \in DOMAIN slices /\ slice.status = "deleted" => Existing' = Existing \ {s}
<1>1. SliceSet(Q) \subseteq SliceSet(Q \cup {X})
  BY DEF SliceSet
<1>2. slices \in Seq(SliceSet(Q \cup {X}))
  BY <1>1, SeqGrows
<1>3. /\ slices' \in Seq(SliceSet(Q \cup {X})) /\ DOMAIN slices' = DOMAIN slices
      /\ \A t \in DOMAIN slices : t # s => slices'[t] = slices[t]
      /\ s \in DOMAIN slices => slices'[s] = slice
  <2>1. CASE s \in DOMAIN slices
    <3>1. slice \in SliceSet(Q \cup {X})
      BY <2>1
    <3> QED
      BY <1>2, <2>1, <3>1
  <2>2. CASE s \notin DOMAIN slices
    <3>1. slices' = slices
      BY <1>2, <2>2
    <3> QED
      BY <1>2, <2>2, <3>1
  <2> QED
    BY <2>1, <2>2
<1> QED
  BY <1>3 DEF Existing

LEMMA LastSlice ==
  ASSUME NEW Q, slices \in Seq(SliceSet(Q)), Existing # {}
  PROVE  Max(Existing) \in Existing
<1>1. Len(slices) \in Nat /\ Existing \subseteq 1..Len(slices)
  BY DEF Existing
<1> QED
  BY <1>1, LastPosition

\* Steps that make no slice and lead to the building of one, or to the end of a
\* destroy, only when there is none.
LEMMA SlicesStay ==
  ASSUME FabIInv, NEW Q, slices' \in Seq(SliceSet(Q)), Existing' \subseteq Existing,
         DOMAIN fab' = DOMAIN fab, uncertain => uncertain',
         fab'.at \in {"build", "destroyed"} => uncertain' \/ Existing' = {}
  PROVE  FabIInv'
  BY DEF FabIInv

LEMMA FabInitOK == FabInit => FabIInv
<1> SUFFICES ASSUME FabInit PROVE FabIInv
  OBVIOUS
<1>1. slices \in Seq(SliceSet({})) /\ Existing = {}
  BY DEF FabInit, Existing
<1> QED
  BY <1>1 DEF FabInit, FabIInv, NewFabric

LEMMA FabStepOK == FabIInv /\ [FabNext]_fabVars => FabIInv'
<1> SUFFICES ASSUME FabIInv, [FabNext]_fabVars PROVE FabIInv'
  OBVIOUS
<1>0. /\ DOMAIN fab = {"at", "call", "forced", "slice", "known", "todo"}
      /\ ~uncertain => \A s, t \in Existing : s = t
      /\ ~uncertain /\ fab.at \in {"build", "destroyed"} => Existing = {}
  BY DEF FabIInv
<1>Q. PICK Q : slices \in Seq(SliceSet(Q))
  BY DEF FabIInv
<1>S. UNCHANGED slices => Existing' = Existing /\ slices' \in Seq(SliceSet(Q))
  BY <1>Q DEF Existing
<1>1. ASSUME NEW what, NEW forced, BeginFab(what, forced) PROVE FabIInv'
  <2>1. UNCHANGED <<slices, uncertain>>
    BY <1>1 DEF BeginFab
  <2>2. DOMAIN fab' = DOMAIN fab /\ fab'.at \in {"check", "delete"}
    BY <1>0, <1>1 DEF BeginFab
  <2> QED
    BY <1>S, <2>1, <2>2, SlicesStay
<1>2. CASE Check \/ SliceSettled \/ SliceGone \/ Configured \/ Roles \/ FabKilled
  <2>1. UNCHANGED <<slices, uncertain>>
    BY <1>2 DEF Check, SliceSettled, SliceGone, Configured, Roles, FabKilled
  <2>2. DOMAIN fab' = DOMAIN fab /\ fab'.at \notin {"build", "destroyed"}
    <3>1. CASE Check
      BY <1>0, <3>1 DEF Check, FabGo
    <3>2. CASE SliceSettled
      BY <1>0, <3>2 DEF SliceSettled, FabGo
    <3>3. CASE SliceGone
      BY <1>0, <3>3 DEF SliceGone, FabGo
    <3>4. CASE Configured
      BY <1>0, <3>4 DEF Configured, FabGo
    <3>5. CASE Roles
      BY <1>0, <3>5 DEF Roles, FabGo
    <3>6. CASE FabKilled
      BY <1>0, <3>6 DEF FabKilled, NewFabric
    <3> QED
      BY <1>2, <3>1, <3>2, <3>3, <3>4, <3>5, <3>6
  <2> QED
    BY <1>S, <2>1, <2>2, SlicesStay
<1>3. CASE FindSlice
  <2>1. UNCHANGED uncertain /\ DOMAIN fab' = DOMAIN fab
    BY <1>0, <1>3 DEF FindSlice, FabGo
  <2>2. CASE Existing = {}
    <3>1. UNCHANGED slices
      BY <1>3, <2>2 DEF FindSlice
    <3> QED
      BY <1>S, <2>1, <2>2, <3>1, SlicesStay
  <2>3. CASE Existing # {} /\ ~fab.forced
    <3>1. UNCHANGED slices
      BY <1>3, <2>3 DEF FindSlice
    <3>2. fab'.at = "roles"
      BY <1>0, <1>3, <2>3 DEF FindSlice
    <3> QED
      BY <1>S, <2>1, <3>1, <3>2, SlicesStay
  <2>4. CASE Existing # {} /\ fab.forced
    <3> DEFINE s == Max(Existing)
               slice == [slices[s] EXCEPT !.status = "deleted"]
    <3>1. slices' = [slices EXCEPT ![s] = slice]
      BY <1>3, <2>4 DEF FindSlice, Replaced
    <3>2. s \in Existing /\ s \in DOMAIN slices
      BY <1>Q, <2>4, LastSlice DEF Existing
    <3>3. slices[s] \in SliceSet(Q)
      BY <1>Q, <3>2
    <3>4. slice \in SliceSet(Q \cup {{}}) /\ slice.status = "deleted"
      BY <3>3, SliceWith
    <3> HIDE DEF s, slice
    <3>5. slices' \in Seq(SliceSet(Q \cup {{}})) /\ Existing' = Existing \ {s}
      BY <1>Q, <3>1, <3>2, <3>4, Rewritten
    <3>6. ~uncertain => Existing' = {}
      BY <1>0, <3>2, <3>5
    <3> QED
      BY <2>1, <3>5, <3>6, SlicesStay
  <2> QED
    BY <2>2, <2>3, <2>4
<1>4. CASE FindFails
  <2>1. UNCHANGED slices /\ uncertain' /\ DOMAIN fab' = DOMAIN fab
    BY <1>0, <1>4 DEF FindFails, FabGo
  <2> QED
    BY <1>S, <2>1, SlicesStay
<1>5. CASE SubmitSlice
  <2> DEFINE added == NodesOf \ fab.known
             ifaces == {f \in Joined(NodesOf) : f.node \in added}
             components == UNION {ComponentsOf(node) \cup AttachedTo(node) : node \in added}
             slice == [status |-> "configuring", nodes |-> added, ifaces |-> ifaces,
                       components |-> components, mounts |-> {}]
             P == Q \cup {added, ifaces, components, {}}
  <2>1. slice \in SliceSet(P) /\ SliceSet(Q) \subseteq SliceSet(P)
    <3> HIDE DEF added, ifaces, components
    <3> QED
      BY DEF SliceSet
  <2>2. \/ fab' = [fab EXCEPT !.at = "raised", !.known = NodesOf] /\ UNCHANGED <<slices, uncertain>>
        \/ /\ slices' = Append(slices, slice)
           /\ \/ /\ fab' = [fab EXCEPT !.at = "submitted", !.slice = Len(slices'), !.known = NodesOf]
                 /\ UNCHANGED uncertain
              \/ /\ fab' = [fab EXCEPT !.at = "raised", !.known = NodesOf]
                 /\ uncertain' = TRUE
    BY <1>5 DEF SubmitSlice
  <2>3. fab.at = "build"
    BY <1>5 DEF SubmitSlice
  <2> HIDE DEF slice, P
  <2>4. DOMAIN fab' = DOMAIN fab /\ fab'.at \in {"raised", "submitted"}
    BY <1>0, <2>2
  <2>5. CASE UNCHANGED <<slices, uncertain>>
    BY <1>S, <2>4, <2>5, SlicesStay
  <2>6. CASE slices' = Append(slices, slice) /\ (uncertain' \/ UNCHANGED uncertain)
    <3>1. slices \in Seq(SliceSet(P))
      BY <1>Q, <2>1, SeqGrows
    <3>2. /\ slices' \in Seq(SliceSet(P))
          /\ \A s \in DOMAIN slices' : s = Len(slices) + 1 \/ (s \in DOMAIN slices /\ slices'[s] = slices[s])
      BY <2>1, <2>6, <3>1
    <3>3. Existing' \subseteq Existing \cup {Len(slices) + 1}
      BY <3>2 DEF Existing
    <3>4. ~uncertain' => \A s, t \in Existing' : s = t
      BY <1>0, <2>3, <2>6, <3>3
    <3> QED
      BY <1>0, <2>4, <3>2, <3>4 DEF FabIInv
  <2> QED
    BY <2>2, <2>5, <2>6
<1>6. CASE ConfigureStorage
  <2>1. PICK mounts : slices' = [slices EXCEPT ![fab.slice].mounts = mounts]
    BY <1>6 DEF ConfigureStorage
  <2>2. UNCHANGED uncertain /\ DOMAIN fab' = DOMAIN fab /\ fab'.at \notin {"build", "destroyed"}
    BY <1>0, <1>6 DEF ConfigureStorage, FabGo
  <2> DEFINE slice == [slices[fab.slice] EXCEPT !.mounts = mounts]
  <2>3. fab.slice \in DOMAIN slices => slices[fab.slice] \in SliceSet(Q)
    BY <1>Q
  <2>4. ASSUME fab.slice \in DOMAIN slices
        PROVE  slice \in SliceSet(Q \cup {mounts}) /\ slice.status = slices[fab.slice].status
    <3> DEFINE old == slices[fab.slice]
    <3>1. old \in SliceSet(Q)
      BY <2>4, <2>3
    <3>2. slice = [old EXCEPT !.mounts = mounts]
      OBVIOUS
    <3> HIDE DEF old, slice
    <3>3. slice \in SliceSet(Q \cup {mounts}) /\ slice.status = old.status
      BY ONLY <3>1, <3>2 DEF SliceSet
    <3> QED
      BY <3>3 DEF old
  <2>5. slices' = [slices EXCEPT ![fab.slice] = slice]
    BY <2>1
  <2> HIDE DEF slice
  <2>6. slices' \in Seq(SliceSet(Q \cup {mounts})) /\ Existing' \subseteq Existing
    BY <1>Q, <2>4, <2>5, Rewritten
  <2> QED
    BY <2>2, <2>6, SlicesStay
<1>7. CASE PublishAddresses
  <2>1. UNCHANGED uncertain /\ DOMAIN fab' = DOMAIN fab /\ fab'.at \notin {"build", "destroyed"}
    BY <1>0, <1>7 DEF PublishAddresses, FabGo
  <2>2. CASE UNCHANGED slices
    BY <1>S, <2>1, <2>2, SlicesStay
  <2>3. CASE /\ slices[fab.slice].status = "ok"
             /\ slices' = [slices EXCEPT ![fab.slice].status = "configuring"]
    <3> DEFINE slice == [slices[fab.slice] EXCEPT !.status = "configuring"]
    <3>1. fab.slice \in DOMAIN slices => slices[fab.slice] \in SliceSet(Q)
      BY <1>Q
    <3>2. fab.slice \in DOMAIN slices => slice \in SliceSet(Q \cup {{}})
      BY <3>1, SliceWith
    <3>3. slices' = [slices EXCEPT ![fab.slice] = slice]
      BY <2>3
    <3> HIDE DEF slice
    <3>4. slices' \in Seq(SliceSet(Q \cup {{}})) /\ Existing' \subseteq Existing
      BY <1>Q, <2>3, <3>2, <3>3, Rewritten
    <3> QED
      BY <2>1, <3>4, SlicesStay
  <2> QED
    BY <1>7, <2>2, <2>3 DEF PublishAddresses
<1>8. ASSUME NEW n \in NetworksOf, ConfigureNetwork(n) PROVE FabIInv'
  <2>1. \E X : slices' = [slices EXCEPT ![fab.slice].ifaces = X]
    BY <1>8 DEF ConfigureNetwork
  <2>2. PICK X : slices' = [slices EXCEPT ![fab.slice].ifaces = X]
    BY <2>1
  <2>3. UNCHANGED uncertain /\ DOMAIN fab' = DOMAIN fab /\ fab'.at \notin {"build", "destroyed"}
    BY <1>0, <1>8 DEF ConfigureNetwork, FabGo
  <2> DEFINE slice == [slices[fab.slice] EXCEPT !.ifaces = X]
  <2>4. fab.slice \in DOMAIN slices => slices[fab.slice] \in SliceSet(Q)
    BY <1>Q
  <2>5. ASSUME fab.slice \in DOMAIN slices
        PROVE  slice \in SliceSet(Q \cup {X}) /\ slice.status = slices[fab.slice].status
    <3> DEFINE old == slices[fab.slice]
    <3>1. old \in SliceSet(Q)
      BY <2>5, <2>4
    <3>2. slice = [old EXCEPT !.ifaces = X]
      OBVIOUS
    <3> HIDE DEF old, slice
    <3>3. slice \in SliceSet(Q \cup {X}) /\ slice.status = old.status
      BY ONLY <3>1, <3>2 DEF SliceSet
    <3> QED
      BY <3>3 DEF old
  <2>6. slices' = [slices EXCEPT ![fab.slice] = slice]
    BY <2>2
  <2> HIDE DEF slice
  <2>7. slices' \in Seq(SliceSet(Q \cup {X})) /\ Existing' \subseteq Existing
    BY <1>Q, <2>5, <2>6, Rewritten
  <2> QED
    BY <2>3, <2>7, SlicesStay
<1>9. CASE DeleteSlice
  <2>1. UNCHANGED uncertain /\ DOMAIN fab' = DOMAIN fab
    BY <1>0, <1>9 DEF DeleteSlice, FabGo
  <2>2. CASE Existing = {}
    <3>1. UNCHANGED slices
      BY <1>9, <2>2 DEF DeleteSlice
    <3> QED
      BY <1>S, <2>1, <2>2, <3>1, SlicesStay
  <2>3. CASE Existing # {}
    <3> DEFINE s == Max(Existing)
               slice == [slices[s] EXCEPT !.status = "deleted"]
    <3>1. slices' = [slices EXCEPT ![s] = slice]
      BY <1>9, <2>3 DEF DeleteSlice
    <3>2. s \in Existing /\ s \in DOMAIN slices
      BY <1>Q, <2>3, LastSlice DEF Existing
    <3>3. slices[s] \in SliceSet(Q)
      BY <1>Q, <3>2
    <3>4. slice \in SliceSet(Q \cup {{}}) /\ slice.status = "deleted"
      BY <3>3, SliceWith
    <3> HIDE DEF s, slice
    <3>5. slices' \in Seq(SliceSet(Q \cup {{}})) /\ Existing' = Existing \ {s}
      BY <1>Q, <3>1, <3>2, <3>4, Rewritten
    <3>6. ~uncertain => Existing' = {}
      BY <1>0, <3>2, <3>5
    <3> QED
      BY <2>1, <3>5, <3>6, SlicesStay
  <2> QED
    BY <2>2, <2>3
<1>10. ASSUME NEW s \in DOMAIN slices, SliceMoves(s) PROVE FabIInv'
  <2>1. UNCHANGED <<fab, uncertain>>
    BY <1>10 DEF SliceMoves
  <2>2. PICK to \in {"ok", "error", "deleted"} :
          slices' = [slices EXCEPT ![s].status = to] /\ slices[s].status # "deleted"
    BY <1>10 DEF SliceMoves, Replaced
  <2> DEFINE slice == [slices[s] EXCEPT !.status = to]
  <2>3. slices[s] \in SliceSet(Q)
    BY <1>Q
  <2>4. slice \in SliceSet(Q \cup {{}})
    BY <2>3, SliceWith
  <2>5. slices' = [slices EXCEPT ![s] = slice]
    BY <2>2
  <2> HIDE DEF slice
  <2>6. slices' \in Seq(SliceSet(Q \cup {{}})) /\ Existing' \subseteq Existing
    BY <1>Q, <2>2, <2>4, <2>5, Rewritten
  <2> QED
    BY <1>0, <2>1, <2>6 DEF FabIInv
<1>11. CASE UNCHANGED fabVars
  BY <1>S, <1>11 DEF fabVars, FabIInv
<1> QED
  BY <1>1, <1>2, <1>3, <1>4, <1>5, <1>6, <1>7, <1>8, <1>9, <1>10, <1>11 DEF FabNext

\* A destroy that returns leaves no slice of its name, though forced calls made
\* several, as long as no request about slices failed.
THEOREM SlicesReleased == FabSpec => []FabricReleased
<1>1. FabIInv => FabricReleased
  BY DEF FabIInv, FabricReleased
<1> QED
  BY FabInitOK, FabStepOK, <1>1, PTL DEF FabSpec

-----------------------------------------------------------------------------
(* The experiments and profiles of FIT IoT-LAB *)

ExperimentSet(Q) == [state : {"waiting", "running", "over"}, nodes : Q, flashed : Q]
ProcessFields == {"at", "job", "boards", "known", "todo", "status", "inits", "alone"}
DestroySteps == {"stop", "delete", "destroyed"}

\* What a destroy has reached when no other process creates anything.
Reached(p) ==
    /\ p.at = "stop" => \A i, j \in ActiveJobs : i = j
    /\ p.at = "delete" => ActiveJobs = {} /\ profiles \subseteq p.todo
    /\ p.at = "destroyed" => ActiveJobs = {} /\ profiles = {}

IotIInv ==
    /\ \E Q : experiments \in Seq(ExperimentSet(Q))
    /\ DOMAIN proc = Users
    /\ \A u \in Users : DOMAIN proc[u] = ProcessFields
    /\ \A u \in Users : proc[u].alone /\ proc[u].at \in DestroySteps =>
          /\ \A v \in Users : proc[v].at \notin InitSteps
          /\ Reached(proc[u])

LEMMA ExperimentWith ==
  ASSUME NEW Q, NEW X, experiments \in Seq(ExperimentSet(Q)), NEW i, NEW e,
         experiments' = [experiments EXCEPT ![i] = e],
         i \in DOMAIN experiments => e \in ExperimentSet(Q \cup {X}),
         i \in DOMAIN experiments /\ e.state # "over" => experiments[i].state # "over"
  PROVE  /\ \E P : experiments' \in Seq(ExperimentSet(P))
         /\ ActiveJobs' \subseteq ActiveJobs
         /\ i \in DOMAIN experiments /\ e.state = "over" => ActiveJobs' = ActiveJobs \ {i}
<1>1. ExperimentSet(Q) \subseteq ExperimentSet(Q \cup {X})
  BY DEF ExperimentSet
<1>2. experiments \in Seq(ExperimentSet(Q \cup {X}))
  BY <1>1, SeqGrows
<1>3. /\ experiments' \in Seq(ExperimentSet(Q \cup {X})) /\ DOMAIN experiments' = DOMAIN experiments
      /\ \A j \in DOMAIN experiments : j # i => experiments'[j] = experiments[j]
      /\ i \in DOMAIN experiments => experiments'[i] = e
  <2>1. CASE i \in DOMAIN experiments
    <3>1. e \in ExperimentSet(Q \cup {X})
      BY <2>1
    <3> QED
      BY <1>2, <2>1, <3>1
  <2>2. CASE i \notin DOMAIN experiments
    <3>1. experiments' = experiments
      BY <1>2, <2>2
    <3> QED
      BY <1>2, <2>2, <3>1
  <2> QED
    BY <2>1, <2>2
<1>4. ActiveJobs' \subseteq ActiveJobs
  BY <1>3 DEF ActiveJobs
<1>5. i \in DOMAIN experiments /\ e.state = "over" => ActiveJobs' = ActiveJobs \ {i}
  BY <1>3 DEF ActiveJobs
<1> QED
  BY <1>3, <1>4, <1>5

LEMMA JobsAre ==
  ASSUME NEW Q, experiments \in Seq(ExperimentSet(Q))
  PROVE  /\ ActiveJobs \in SUBSET Nat
         /\ ActiveJobs # {} => Min(ActiveJobs) \in ActiveJobs /\ Min(ActiveJobs) \in DOMAIN experiments
         /\ Cardinality(ActiveJobs) <= 1 => \A i, j \in ActiveJobs : i = j
<1>0. Len(experiments) \in Nat /\ DOMAIN experiments = 1..Len(experiments)
  OBVIOUS
<1>1. ActiveJobs \subseteq 1..Len(experiments) /\ ActiveJobs \in SUBSET Nat
  <2>1. ActiveJobs \subseteq DOMAIN experiments
    BY DEF ActiveJobs
  <2> QED
    BY <1>0, <2>1
<1>2. IsFiniteSet(ActiveJobs)
  <2>1. 1 \in Int /\ Len(experiments) \in Int
    BY ONLY <1>0
  <2>2. IsFiniteSet(1..Len(experiments))
    BY ONLY <2>1, FS_Interval
  <2> QED
    BY ONLY <1>1, <2>2, FS_Subset
<1>3. Cardinality(ActiveJobs) \in Nat
  BY <1>2, FS_CardinalityType
<1>4. Cardinality(ActiveJobs) <= 1 => \A i, j \in ActiveJobs : i = j
  <2>1. CASE Cardinality(ActiveJobs) = 0
    BY <1>2, <2>1, FS_EmptySet
  <2>2. CASE Cardinality(ActiveJobs) = 1
    <3>1. PICK x : ActiveJobs = {x}
      BY <1>2, <2>2, FS_Singleton
    <3> QED
      BY <3>1
  <2> QED
    BY <1>3, <2>1, <2>2
<1>5. ActiveJobs # {} => Min(ActiveJobs) \in ActiveJobs
  BY <1>1, FirstPosition
<1>6. ActiveJobs \subseteq DOMAIN experiments
  BY DEF ActiveJobs
<1> QED
  BY <1>1, <1>4, <1>5, <1>6

\* The steps of an init, during which no destroy counts on being alone.
LEMMA InitMoves ==
  ASSUME IotIInv, NEW u \in Users, proc[u].at \in InitSteps,
         NEW p, proc' = [proc EXCEPT ![u] = p], DOMAIN p = ProcessFields, p.at \notin DestroySteps,
         \E P : experiments' \in Seq(ExperimentSet(P))
  PROVE  IotIInv'
<1>1. DOMAIN proc' = Users /\ proc'[u] = p /\ \A v \in Users : v # u => proc'[v] = proc[v]
  BY DEF IotIInv
<1>2. \A v \in Users : ~(proc[v].alone /\ proc[v].at \in DestroySteps)
  BY DEF IotIInv
<1>3. \A v \in Users : ~(proc'[v].alone /\ proc'[v].at \in DestroySteps)
  BY <1>1, <1>2
<1>4. \A v \in Users : DOMAIN proc'[v] = ProcessFields
  BY <1>1 DEF IotIInv
<1> QED
  BY <1>1, <1>3, <1>4 DEF IotIInv

\* Steps of the testbed, or of a process that neither begins nor destroys: a
\* destroy keeps what it has reached.
LEMMA ReachedStays ==
  ASSUME IotIInv, DOMAIN proc' = Users, \E P : experiments' \in Seq(ExperimentSet(P)),
         ActiveJobs' \subseteq ActiveJobs, profiles' \subseteq profiles,
         \A v \in Users :
            /\ DOMAIN proc'[v] = ProcessFields
            /\ proc'[v].at \in InitSteps => proc[v].at \in InitSteps
            /\ proc'[v].alone /\ proc'[v].at \in DestroySteps =>
                  \/ Reached(proc[v])' /\ \A x \in Users : proc[x].at \notin InitSteps
                  \/ proc[v].alone /\ proc'[v].at = proc[v].at /\ proc'[v].todo = proc[v].todo
  PROVE  IotIInv'
<1> SUFFICES ASSUME NEW v \in Users, proc'[v].alone, proc'[v].at \in DestroySteps
             PROVE  /\ \A x \in Users : proc'[x].at \notin InitSteps
                    /\ Reached(proc[v])'
  BY DEF IotIInv, DestroySteps, InitSteps, ProcessFields
<1>1. CASE Reached(proc[v])' /\ \A x \in Users : proc[x].at \notin InitSteps
  BY <1>1
<1>2. CASE proc[v].alone /\ proc'[v].at = proc[v].at /\ proc'[v].todo = proc[v].todo
  <2>1. (\A x \in Users : proc[x].at \notin InitSteps) /\ Reached(proc[v])
    BY <1>2 DEF IotIInv
  <2> QED
    BY <1>2, <2>1 DEF Reached
<1> QED
  BY <1>1, <1>2

LEMMA IotInitOK == IotInit => IotIInv
<1> SUFFICES ASSUME IotInit PROVE IotIInv
  OBVIOUS
<1>1. experiments \in Seq(ExperimentSet({}))
  BY DEF IotInit
<1> QED
  BY <1>1 DEF IotInit, IotIInv, NewProcess, ProcessFields

LEMMA IotStepOK == IotIInv /\ [IotNext]_iotVars => IotIInv'
<1> SUFFICES ASSUME IotIInv, [IotNext]_iotVars PROVE IotIInv'
  OBVIOUS
<1>Q. PICK Q : experiments \in Seq(ExperimentSet(Q))
  BY DEF IotIInv
<1>P. DOMAIN proc = Users /\ \A u \in Users : DOMAIN proc[u] = ProcessFields
  BY DEF IotIInv
<1>S. UNCHANGED experiments => ActiveJobs' = ActiveJobs /\ \E P : experiments' \in Seq(ExperimentSet(P))
  BY <1>Q DEF ActiveJobs
\* The steps of an init.
<1>1. ASSUME NEW u \in Users, CreateProfile(u) \/ Lookup(u) \/ Populate(u) PROVE IotIInv'
  <2>1. UNCHANGED experiments
    BY <1>1 DEF CreateProfile, Lookup, Populate
  <2>2. \E p : /\ proc' = [proc EXCEPT ![u] = p] /\ DOMAIN p = DOMAIN proc[u]
               /\ p.at \notin DestroySteps
    <3>1. CASE CreateProfile(u)
      <4>1. CASE proc[u].todo = {}
        <5>1. proc' = [proc EXCEPT ![u] = [proc[u] EXCEPT !.at = "reserve"]]
          BY <3>1, <4>1 DEF CreateProfile, To
        <5>2. [proc[u] EXCEPT !.at = "reserve"].at = "reserve"
          BY <1>P DEF ProcessFields
        <5> QED
          BY <5>1, <5>2 DEF DestroySteps
      <4>2. CASE proc[u].todo # {}
        <5>1. PICK p \in proc[u].todo :
                proc' = [proc EXCEPT ![u].known = @ \cup {p}, ![u].todo = @ \ {p}]
          BY <3>1, <4>2 DEF CreateProfile
        <5>2. proc' = [proc EXCEPT ![u] = [proc[u] EXCEPT !.known = @ \cup {p}, !.todo = @ \ {p}]]
          BY <5>1, <1>P
        <5>3. [proc[u] EXCEPT !.known = @ \cup {p}, !.todo = @ \ {p}].at = "profiles"
          BY <1>P, <3>1 DEF ProcessFields, CreateProfile
        <5> QED
          BY <5>2, <5>3 DEF DestroySteps
      <4> QED
        BY <4>1, <4>2
    <3>2. CASE Lookup(u)
      <4>1. \E at \in {"submit", "wait"} : \E job :
              proc' = [proc EXCEPT ![u] = [proc[u] EXCEPT !.at = at, !.job = job]]
        BY <3>2, <1>P DEF Lookup
      <4>2. \A at \in {"submit", "wait"} : \A job : [proc[u] EXCEPT !.at = at, !.job = job].at = at
        BY <1>P DEF ProcessFields
      <4> QED
        BY <4>1, <4>2, ZenonT(40) DEF DestroySteps
    <3>3. CASE Populate(u)
      <4>1. \/ proc' = [proc EXCEPT ![u] = [proc[u] EXCEPT !.at = "raised"]]
            \/ \E b : proc' = [proc EXCEPT ![u] = [proc[u] EXCEPT !.at = "flash", !.boards = b]]
        <5>1. \/ To(u, "raised")
              \/ \E more : proc' = [proc EXCEPT ![u].at = "flash", ![u].boards = @ \o more]
          BY <3>3 DEF Populate
        <5>2. CASE To(u, "raised")
          BY <1>P, <5>2 DEF To
        <5>3. ASSUME NEW more, proc' = [proc EXCEPT ![u].at = "flash", ![u].boards = @ \o more]
              PROVE  proc' = [proc EXCEPT ![u] = [proc[u] EXCEPT !.at = "flash",
                                                                 !.boards = proc[u].boards \o more]]
          BY <1>P, <5>3
        <5> QED
          BY <5>1, <5>2, <5>3
      <4>2. /\ [proc[u] EXCEPT !.at = "raised"].at = "raised"
            /\ \A b : [proc[u] EXCEPT !.at = "flash", !.boards = b].at = "flash"
        BY <1>P DEF ProcessFields
      <4> QED
        BY <4>1, <4>2 DEF DestroySteps
    <3> QED
      BY <1>1, <3>1, <3>2, <3>3
  <2>3. proc[u].at \in InitSteps
    BY <1>1 DEF CreateProfile, Lookup, Populate, InitSteps
  <2> QED
    BY <1>P, <1>S, <2>1, <2>2, <2>3, InitMoves
<1>2. ASSUME NEW u \in Users, NEW async \in BOOLEAN, Submit(u, async) PROVE IotIInv'
  <2>1. proc[u].at \in InitSteps
    BY <1>2 DEF Submit, InitSteps
  <2>2. \E p : /\ proc' = [proc EXCEPT ![u] = p] /\ DOMAIN p = DOMAIN proc[u]
               /\ p.at \notin DestroySteps
    <3>1. \/ To(u, "raised")
          \/ proc' = [proc EXCEPT ![u].at = IF async THEN "idle" ELSE "wait",
                                  ![u].job = Len(experiments) + 1]
      BY <1>2 DEF Submit
    <3>2. /\ [proc[u] EXCEPT !.at = "raised"].at = "raised"
          /\ \A at \in {"idle", "wait"} : \A job : [proc[u] EXCEPT !.at = at, !.job = job].at = at
      BY <1>P DEF ProcessFields
    <3>3. CASE To(u, "raised")
      <4>1. proc' = [proc EXCEPT ![u] = [proc[u] EXCEPT !.at = "raised"]]
        BY <1>P, <3>3 DEF To
      <4> QED
        BY <3>2, <4>1 DEF DestroySteps
    <3>4. CASE proc' = [proc EXCEPT ![u].at = IF async THEN "idle" ELSE "wait",
                                    ![u].job = Len(experiments) + 1]
      <4>1. PICK at \in {"idle", "wait"} : at = IF async THEN "idle" ELSE "wait"
        OBVIOUS
      <4>2. proc' = [proc EXCEPT ![u] = [proc[u] EXCEPT !.at = at, !.job = Len(experiments) + 1]]
        BY <1>P, <3>4, <4>1
      <4> QED
        BY <3>2, <4>2 DEF DestroySteps
    <3> QED
      BY <3>1, <3>3, <3>4
  <2>3. \E P : experiments' \in Seq(ExperimentSet(P))
    <3>1. CASE UNCHANGED experiments
      BY <1>S, <3>1
    <3>2. CASE experiments' = Append(experiments, [state |-> "waiting", nodes |-> {}, flashed |-> {}])
      <4> DEFINE P == Q \cup {{}}
                 new == [state |-> "waiting", nodes |-> {}, flashed |-> {}]
      <4>1. ExperimentSet(Q) \subseteq ExperimentSet(P) /\ new \in ExperimentSet(P)
        BY DEF ExperimentSet
      <4> HIDE DEF P, new
      <4>2. experiments \in Seq(ExperimentSet(P))
        BY <1>Q, <4>1, SeqGrows
      <4>3. experiments' = Append(experiments, new)
        BY <3>2 DEF new
      <4> QED
        BY <4>1, <4>2, <4>3
    <3> QED
      BY <1>2, <3>1, <3>2 DEF Submit
  <2> QED
    BY <1>P, <2>1, <2>2, <2>3, InitMoves
<1>3. ASSUME NEW u \in Users, Flash(u) PROVE IotIInv'
  <2>1. proc[u].at \in InitSteps
    BY <1>3 DEF Flash, InitSteps
  <2>2. \E at \in {"ready", "raised"} : To(u, at)
    BY <1>3 DEF Flash
  <2>3. PICK at \in {"ready", "raised"} : proc' = [proc EXCEPT ![u] = [proc[u] EXCEPT !.at = at]]
    BY <1>P, <2>2 DEF To
  <2>4. [proc[u] EXCEPT !.at = at].at = at /\ DOMAIN [proc[u] EXCEPT !.at = at] = ProcessFields
    BY <1>P DEF ProcessFields
  <2>5. \E P : experiments' \in Seq(ExperimentSet(P))
    <3>1. CASE UNCHANGED experiments
      BY <1>S, <3>1
    <3>2. CASE experiments' = [experiments EXCEPT ![proc[u].job].flashed = @ \cup Sensors(u)]
      <4> DEFINE i == proc[u].job
                 X == experiments[i].flashed \cup Sensors(u)
                 e == [experiments[i] EXCEPT !.flashed = X]
      <4>1. experiments' = [experiments EXCEPT ![i] = e]
        BY <3>2
      <4>2. ASSUME i \in DOMAIN experiments
            PROVE  e \in ExperimentSet(Q \cup {X}) /\ e.state = experiments[i].state
        <5>1. experiments[i] \in ExperimentSet(Q)
          BY <1>Q, <4>2
        <5> HIDE DEF i, X
        <5> QED
          BY <5>1 DEF ExperimentSet
      <4> HIDE DEF i, X, e
      <4> QED
        BY <1>Q, <4>1, <4>2, ExperimentWith
    <3> QED
      BY <1>3, <3>1, <3>2 DEF Flash
  <2> QED
    BY <2>1, <2>3, <2>4, <2>5, InitMoves DEF DestroySteps
\* The other steps of a process.
<1>4. ASSUME NEW u \in Users, BeginInit(u) PROVE IotIInv'
  <2>1. UNCHANGED experiments
    BY <1>4 DEF BeginInit
  <2>2. /\ DOMAIN proc' = Users
        /\ \A v \in Users : DOMAIN proc'[v] = ProcessFields
        /\ proc'[u].at = "profiles"
        /\ \A v \in Users : v # u => proc'[v].alone = FALSE
    <3> DEFINE new == Others(u)
    <3>1. /\ DOMAIN new = Users
          /\ \A v \in Users : DOMAIN new[v] = ProcessFields
          /\ \A v \in Users : v # u => new[v].alone = FALSE
      BY <1>P DEF Others, ProcessFields
    <3>2. \E i, t : proc' = [new EXCEPT ![u].at = "profiles", ![u].inits = i, ![u].todo = t]
      BY <1>4 DEF BeginInit
    <3> HIDE DEF new
    <3> QED
      BY <3>1, <3>2 DEF ProcessFields
  <2>3. \A v \in Users : ~(proc'[v].alone /\ proc'[v].at \in DestroySteps)
    BY <2>2 DEF DestroySteps
  <2> QED
    BY <1>S, <2>1, <2>2, <2>3 DEF IotIInv
<1>5. ASSUME NEW u \in Users, BeginDestroy(u) PROVE IotIInv'
  <2>1. UNCHANGED <<experiments, profiles>>
    BY <1>5 DEF BeginDestroy
  <2>2. PICK b \in BOOLEAN :
          /\ b = (Cardinality(ActiveJobs) <= 1 /\ \A v \in Users : proc[v].at \notin InitSteps)
          /\ proc' = [proc EXCEPT ![u].at = "stop", ![u].alone = b]
    BY <1>5 DEF BeginDestroy
  <2>3. /\ DOMAIN proc' = Users
        /\ \A v \in Users : DOMAIN proc'[v] = ProcessFields
        /\ proc'[u].at = "stop" /\ proc'[u].alone = b
        /\ \A v \in Users : v # u => proc'[v] = proc[v]
    BY <1>P, <2>2 DEF ProcessFields
  <2>4. proc'[u].alone => Reached(proc[u])' /\ \A x \in Users : proc[x].at \notin InitSteps
    BY <1>Q, <1>S, <2>1, <2>2, <2>3, JobsAre DEF Reached
  <2>5. "stop" \notin InitSteps
    BY DEF InitSteps
  <2> QED
    BY <1>S, <2>1, <2>3, <2>4, <2>5, ReachedStays
<1>6. ASSUME NEW u \in Users, StopExperiment(u) PROVE IotIInv'
  <2>1. UNCHANGED profiles /\ proc[u].at = "stop"
    BY <1>6 DEF StopExperiment
  <2>2. proc' = [proc EXCEPT ![u].at = "delete", ![u].todo = profiles]
    BY <1>6 DEF StopExperiment, ReloadedProfiles
  <2>3. /\ DOMAIN proc' = Users
        /\ \A v \in Users : DOMAIN proc'[v] = ProcessFields
        /\ proc'[u].at = "delete" /\ proc'[u].todo = profiles /\ proc'[u].alone = proc[u].alone
        /\ \A v \in Users : v # u => proc'[v] = proc[v]
    BY <1>P, <2>2 DEF ProcessFields
  <2>4. /\ \E P : experiments' \in Seq(ExperimentSet(P))
        /\ ActiveJobs' \subseteq ActiveJobs
        /\ (\A i, j \in ActiveJobs : i = j) => ActiveJobs' = {}
    <3>1. CASE ActiveJobs = {}
      BY <1>6, <1>S, <3>1 DEF StopExperiment
    <3>2. CASE ActiveJobs # {}
      <4> DEFINE i == Min(ActiveJobs)
                 e == [experiments[i] EXCEPT !.state = "over"]
      <4>1. experiments' = [experiments EXCEPT ![i] = e]
        BY <1>6, <3>2 DEF StopExperiment
      <4>2. i \in ActiveJobs /\ i \in DOMAIN experiments
        BY <1>Q, <3>2, JobsAre
      <4>3. experiments[i] \in ExperimentSet(Q)
        BY <1>Q, <4>2
      <4>4. e \in ExperimentSet(Q \cup {{}}) /\ e.state = "over"
        <5> HIDE DEF i
        <5> QED
          BY <4>3 DEF ExperimentSet
      <4> HIDE DEF i, e
      <4>5. /\ \E P : experiments' \in Seq(ExperimentSet(P))
            /\ ActiveJobs' = ActiveJobs \ {i}
        BY <1>Q, <4>1, <4>2, <4>4, ExperimentWith
      <4> QED
        BY <4>2, <4>5
    <3> QED
      BY <3>1, <3>2
  <2>5. proc'[u].alone => Reached(proc[u])' /\ \A x \in Users : proc[x].at \notin InitSteps
    BY <2>1, <2>3, <2>4 DEF IotIInv, Reached, DestroySteps
  <2>6. "delete" \notin InitSteps
    BY DEF InitSteps
  <2> QED
    BY <2>1, <2>3, <2>4, <2>5, <2>6, ReachedStays
<1>7. ASSUME NEW u \in Users, DeleteProfile(u) PROVE IotIInv'
  <2>1. UNCHANGED experiments /\ proc[u].at = "delete"
    BY <1>7 DEF DeleteProfile
  <2>2. PICK p \in proc[u].todo : /\ profiles' = profiles \ {p}
                                  /\ proc' = [proc EXCEPT ![u].todo = @ \ {p}]
    BY <1>7 DEF DeleteProfile
  <2>3. /\ DOMAIN proc' = Users
        /\ \A v \in Users : DOMAIN proc'[v] = ProcessFields
        /\ proc'[u].at = "delete" /\ proc'[u].todo = proc[u].todo \ {p} /\ proc'[u].alone = proc[u].alone
        /\ \A v \in Users : v # u => proc'[v] = proc[v]
    BY <1>P, <2>1, <2>2 DEF ProcessFields
  <2>4. proc'[u].alone => Reached(proc[u])' /\ \A x \in Users : proc[x].at \notin InitSteps
    BY <1>S, <2>1, <2>2, <2>3 DEF IotIInv, Reached, DestroySteps
  <2>5. "delete" \notin InitSteps
    BY DEF InitSteps
  <2> QED
    BY <1>S, <2>1, <2>2, <2>3, <2>4, <2>5, ReachedStays
<1>8. ASSUME NEW u \in Users, NEW wait \in BOOLEAN, Destroyed(u, wait) PROVE IotIInv'
  <2>1. UNCHANGED <<experiments, profiles>> /\ proc[u].at = "delete" /\ proc[u].todo = {}
    BY <1>8 DEF Destroyed
  <2>2. proc' = [proc EXCEPT ![u].at = "destroyed", ![u].known = {}]
    BY <1>8 DEF Destroyed
  <2>3. /\ DOMAIN proc' = Users
        /\ \A v \in Users : DOMAIN proc'[v] = ProcessFields
        /\ proc'[u].at = "destroyed" /\ proc'[u].alone = proc[u].alone
        /\ \A v \in Users : v # u => proc'[v] = proc[v]
    BY <1>P, <2>2 DEF ProcessFields
  <2>4. proc'[u].alone => Reached(proc[u])' /\ \A x \in Users : proc[x].at \notin InitSteps
    BY <1>S, <2>1, <2>3 DEF IotIInv, Reached, DestroySteps
  <2>5. "destroyed" \notin InitSteps
    BY DEF InitSteps
  <2> QED
    BY <1>S, <2>1, <2>3, <2>4, <2>5, ReachedStays
<1>9. ASSUME NEW u \in Users, Killed(u) PROVE IotIInv'
  <2>1. UNCHANGED <<experiments, profiles>> /\ proc' = [proc EXCEPT ![u] = NewProcess]
    BY <1>9 DEF Killed
  <2>2. /\ DOMAIN proc' = Users
        /\ \A v \in Users : DOMAIN proc'[v] = ProcessFields
        /\ proc'[u].at = "idle" /\ ~proc'[u].alone
        /\ \A v \in Users : v # u => proc'[v] = proc[v]
    BY <1>P, <2>1 DEF NewProcess, ProcessFields
  <2>3. "idle" \notin InitSteps
    BY DEF InitSteps
  <2> QED
    BY <1>S, <2>1, <2>2, <2>3, ReachedStays
<1>10. ASSUME NEW u \in Users, NEW at \in 0..LastDate, TestSlot(u, at) PROVE IotIInv'
  <2>1. UNCHANGED <<experiments, profiles>>
    BY <1>10 DEF TestSlot
  <2>2. \E st : proc' = [proc EXCEPT ![u].status = st]
    BY <1>10 DEF TestSlot
  <2>3. /\ DOMAIN proc' = Users
        /\ \A v \in Users : /\ DOMAIN proc'[v] = ProcessFields
                            /\ proc'[v].at = proc[v].at /\ proc'[v].alone = proc[v].alone
                            /\ proc'[v].todo = proc[v].todo
    BY <1>P, <2>2 DEF ProcessFields
  <2> QED
    BY <1>S, <2>1, <2>3, ReachedStays
\* The testbed.
<1>11. ASSUME NEW i \in DOMAIN experiments, ExperimentStarts(i) PROVE IotIInv'
  <2>1. UNCHANGED <<proc, profiles>> /\ experiments[i].state = "waiting"
    BY <1>11 DEF ExperimentStarts
  <2>2. \E X : experiments' = [experiments EXCEPT ![i].state = "running", ![i].nodes = X]
    BY <1>11 DEF ExperimentStarts
  <2>3. PICK X : experiments' = [experiments EXCEPT ![i].state = "running", ![i].nodes = X]
    BY <2>2
  <2> DEFINE e == [experiments[i] EXCEPT !.state = "running", !.nodes = X]
  <2>4. experiments' = [experiments EXCEPT ![i] = e]
    BY <2>3
  <2>5. experiments[i] \in ExperimentSet(Q)
    BY <1>Q
  <2>6. e \in ExperimentSet(Q \cup {X})
    BY <2>5 DEF ExperimentSet
  <2> HIDE DEF e
  <2>7. (\E P : experiments' \in Seq(ExperimentSet(P))) /\ ActiveJobs' \subseteq ActiveJobs
    BY <1>Q, <2>1, <2>4, <2>6, ExperimentWith
  <2> QED
    BY <1>P, <2>1, <2>7, ReachedStays
<1>12. ASSUME NEW i \in DOMAIN experiments, ExperimentEnds(i) PROVE IotIInv'
  <2>1. UNCHANGED <<proc, profiles>> /\ experiments' = [experiments EXCEPT ![i].state = "over"]
    BY <1>12 DEF ExperimentEnds
  <2> DEFINE e == [experiments[i] EXCEPT !.state = "over"]
  <2>2. experiments' = [experiments EXCEPT ![i] = e]
    BY <2>1
  <2>3. experiments[i] \in ExperimentSet(Q)
    BY <1>Q
  <2>4. e \in ExperimentSet(Q \cup {{}}) /\ e.state = "over"
    BY <2>3 DEF ExperimentSet
  <2> HIDE DEF e
  <2>5. (\E P : experiments' \in Seq(ExperimentSet(P))) /\ ActiveJobs' \subseteq ActiveJobs
    BY <1>Q, <2>2, <2>4, ExperimentWith
  <2> QED
    BY <1>P, <2>1, <2>5, ReachedStays
<1>13. CASE WorldChanges \/ UNCHANGED iotVars
  <2>1. UNCHANGED <<proc, profiles, experiments>>
    BY <1>13 DEF WorldChanges, iotVars
  <2> QED
    BY <1>P, <1>S, <2>1, ReachedStays
<1> QED
  BY <1>1, <1>2, <1>3, <1>4, <1>5, <1>6, <1>7, <1>8, <1>9, <1>10, <1>11, <1>12, <1>13 DEF IotNext

\* A destroy that returns leaves no experiment of its name and no profile of the
\* configuration, whoever made them, unless another process makes them meanwhile
\* or several experiments of the name had been submitted.
THEOREM ExperimentsReleased == IotSpec => []IotReleased
<1>1. IotIInv => IotReleased
  BY DEF IotIInv, IotReleased, Reached, DestroySteps
<1> QED
  BY IotInitOK, IotStepOK, <1>1, PTL DEF IotSpec

-----------------------------------------------------------------------------
(* All of them *)

LEMMA TestbedsRun == Spec => IotSpec /\ ChSpec /\ FabSpec /\ G5kSpec
<1>1. Init => IotInit /\ ChInit /\ FabInit /\ G5kInit
  BY DEF Init
<1>2. [Next]_vars => [IotNext]_iotVars /\ [ChNext]_chVars /\ [FabNext]_fabVars /\ [G5kNext]_g5kVars
  BY DEF Next, vars, testbedVars
<1> QED
  BY <1>1, <1>2, PTL DEF Spec, IotSpec, ChSpec, FabSpec, G5kSpec

\* A destroy that returns leaves nothing on the testbed of its provider.
THEOREM TestbedsAreReleased == Spec => []TestbedsReleased
<1>1. IotReleased /\ ChameleonReleased /\ FabricReleased /\ FirewallCloses => TestbedsReleased
  BY DEF TestbedsReleased
<1> QED
  BY <1>1, TestbedsRun, ExperimentsReleased, LeasesReleased, SlicesReleased, FirewallIsClosed, PTL


-----------------------------------------------------------------------------
(* The network emulation *)

HostObject == [alias : Nodes, devs : [Devices -> SUBSET Nets], nets : SUBSET Nets]
RequestSet == [src : SUBSET Nodes, dest : SUBSET Nodes, delay : Nat, networks : SUBSET Nets,
               symmetric : BOOLEAN]
Targets == Addresses \cup {Out, In}
ConstraintSet == [dev : Devices, to : Targets, delay : Nat]

ObjectsOf(hosts) == {object[h] : h \in hosts}

\* The constraints of the object that the client has for h.
OfHost(from, h) == IF object[h] \in DOMAIN from THEN from[object[h]] ELSE {}

\* The request i is the last one about an address or a direction.
LastAbout(requests, i, h, dev, to) ==
    /\ i \in DOMAIN requests /\ Covers(requests[i], h, dev, to)
    /\ \A j \in DOMAIN requests : j > i => ~Covers(requests[j], h, dev, to)

\* Sources say what the last requests said, no more and no less.
Matches(from, requests) ==
    /\ DOMAIN from \subseteq ObjectsOf(Nodes)
    /\ \A h \in Nodes : \A c :
          c \in OfHost(from, h) <=>
             /\ c \in ConstraintSet
             /\ \E i \in DOMAIN requests :
                   LastAbout(requests, i, h, c.dev, c.to) /\ c.delay = requests[i].delay

Typed ==
    /\ service \in Services /\ facts \in [Nodes -> FactsOf]
    /\ object \in [Nodes -> HostObject] /\ \A h \in Nodes : object[h].alias = h
    /\ asked \in Seq(RequestSet)

\* What a request puts on h.
OfRequest(r, h) ==
    {c \in ConstraintSet : Covers(r, h, c.dev, c.to) /\ c.delay = r.delay}

\* What is filtered from an object are devices and addresses of its machine.
LEMMA Filtered ==
  ASSUME Typed, NEW h \in Nodes, NEW networks
  PROVE  /\ FilterInterfaces(object[h], networks) \subseteq Devices
         /\ FilterAddresses(object[h], networks) \subseteq {h} \X Nets
         /\ FilterAddresses(object[h], networks) \subseteq Addresses
<1>1. object[h] \in HostObject /\ object[h].alias = h
  BY DEF Typed
<1>2. \A dev \in Devices : NetsOf(object[h], dev, networks) \subseteq Nets
  BY <1>1 DEF NetsOf, HostObject
<1>3. FilterAddresses(object[h], networks) \subseteq {h} \X Nets
  BY <1>1, <1>2 DEF FilterAddresses
<1> QED
  BY <1>3 DEF FilterInterfaces, Addresses

\* One direction of a request, and the other one.
Half(from, r) ==
    Extended(from, ObjectsOf(r.src), ObjectsOf(r.dest), r.delay, r.networks, r.symmetric)
HalfOn(h, r) == OnHost(object[h], ObjectsOf(r.dest), r.delay, r.networks, r.symmetric)
Turned(r) == [src |-> r.dest, dest |-> r.src, delay |-> r.delay, networks |-> r.networks,
              symmetric |-> FALSE]

\* The request the other way round is one too.
LEMMA TurnedIs ==
  ASSUME NEW r \in RequestSet
  PROVE  /\ Turned(r) \in RequestSet
         /\ Turned(r).src = r.dest /\ Turned(r).dest = r.src /\ Turned(r).delay = r.delay
         /\ Turned(r).networks = r.networks
  BY DEF RequestSet, Turned

\* What NetemHTB puts on a host: for each device and each address of a target.
LEMMA HtbOn ==
  ASSUME Typed, service # "netem", NEW r \in RequestSet, NEW h \in r.src
  PROVE  \A c : c \in HalfOn(h, r) <=>
            /\ c \in ConstraintSet
            /\ c.dev \in FilterInterfaces(object[h], r.networks)
            /\ \E g \in r.dest : c.to \in FilterAddresses(object[g], r.networks)
            /\ c.delay = r.delay
<1> DEFINE A == UNION {FilterAddresses(d, r.networks) : d \in ObjectsOf(r.dest)}
<1>0. r.src \subseteq Nodes /\ r.dest \subseteq Nodes /\ r.delay \in Nat /\ h \in Nodes
  BY DEF RequestSet
<1>2. \A to : to \in A <=> \E g \in r.dest : to \in FilterAddresses(object[g], r.networks)
  BY DEF ObjectsOf
<1>1. A \subseteq Targets
  <2> HIDE DEF A
  <2>1. \A g \in r.dest : FilterAddresses(object[g], r.networks) \subseteq Addresses
    BY <1>0, Filtered
  <2> QED BY <1>2, <2>1 DEF Targets
<1>3. HalfOn(h, r) = {[dev |-> dev, to |-> address, delay |-> r.delay] :
            dev \in FilterInterfaces(object[h], r.networks), address \in A}
  BY DEF OnHost, HalfOn
<1>4. FilterInterfaces(object[h], r.networks) \subseteq Devices
  BY <1>0, Filtered
<1> HIDE DEF A
<1> QED
  BY <1>0, <1>1, <1>2, <1>3, <1>4 DEF ConstraintSet

\* What Netem puts on a host: out, and in if the request is symmetric.
LEMMA NetemOn ==
  ASSUME Typed, service = "netem", NEW r \in RequestSet, NEW h \in r.src
  PROVE  HalfOn(h, r) = OfRequest(r, h)
<1>1. h \in Nodes
  BY DEF RequestSet
<1>2. FilterInterfaces(object[h], r.networks) \subseteq Devices
  BY <1>1, Filtered
<1>3. Out # In
  BY DEF Out, In
<1> QED
  BY <1>2, <1>3 DEF HalfOn, OnHost, OfRequest, ConstraintSet, Covers, Targets, RequestSet

\* Sources are extended by the hosts of a request, and merged on them only.
LEMMA ExtendedOn ==
  ASSUME Typed, NEW from, DOMAIN from \subseteq ObjectsOf(Nodes), NEW r \in RequestSet
  PROVE  /\ DOMAIN Half(from, r) = DOMAIN from \cup ObjectsOf(r.src)
         /\ DOMAIN Half(from, r) \subseteq ObjectsOf(Nodes)
         /\ \A h \in r.src : OfHost(Half(from, r), h) = Merged(OfHost(from, h), HalfOn(h, r))
         /\ \A h \in Nodes \ r.src : OfHost(Half(from, r), h) = OfHost(from, h)
<1> DEFINE to == Half(from, r)
<1>0. r.src \subseteq Nodes
  BY DEF RequestSet
<1>1. DOMAIN to = DOMAIN from \cup ObjectsOf(r.src)
  BY DEF Extended, Half
<1>2. \A h \in Nodes : object[h] \in ObjectsOf(r.src) <=> h \in r.src
  BY <1>0 DEF Typed, ObjectsOf
<1>3. \A o \in DOMAIN to :
         to[o] = Merged(IF o \in DOMAIN from THEN from[o] ELSE {},
                        IF o \in ObjectsOf(r.src)
                        THEN OnHost(o, ObjectsOf(r.dest), r.delay, r.networks, r.symmetric) ELSE {})
  BY <1>1 DEF Extended, Half
<1> HIDE DEF to
<1>4. \A h \in r.src : OfHost(to, h) = Merged(OfHost(from, h), HalfOn(h, r))
  BY <1>0, <1>1, <1>2, <1>3 DEF OfHost, HalfOn
<1>5. \A X : Merged(X, {}) = X
  BY DEF Merged
<1>6. \A h \in Nodes \ r.src : OfHost(to, h) = OfHost(from, h)
  BY <1>1, <1>2, <1>3, <1>5 DEF OfHost
<1>7. DOMAIN to \subseteq ObjectsOf(Nodes)
  BY <1>0, <1>1 DEF ObjectsOf
<1> QED
  BY <1>1, <1>4, <1>6, <1>7 DEF to

\* A request replaces the constraints that are the same.
LEMMA AddedOn ==
  ASSUME Typed, NEW from, DOMAIN from \subseteq ObjectsOf(Nodes), NEW r \in RequestSet
  PROVE  /\ DOMAIN Added(from, r) \subseteq ObjectsOf(Nodes)
         /\ DOMAIN from \subseteq DOMAIN Added(from, r)
         /\ \A h \in Nodes : OfHost(Added(from, r), h) = Merged(OfHost(from, h), OfRequest(r, h))
<1> DEFINE there == Half(from, r)
           back == Half(there, Turned(r))
<1>1. r.src \subseteq Nodes /\ r.dest \subseteq Nodes /\ r.delay \in Nat /\ r.symmetric \in BOOLEAN
  BY DEF RequestSet
<1>2. /\ DOMAIN there = DOMAIN from \cup ObjectsOf(r.src)
      /\ DOMAIN there \subseteq ObjectsOf(Nodes)
      /\ \A h \in r.src : OfHost(there, h) = Merged(OfHost(from, h), HalfOn(h, r))
      /\ \A h \in Nodes \ r.src : OfHost(there, h) = OfHost(from, h)
  BY ExtendedOn
<1>3. /\ DOMAIN back = DOMAIN there \cup ObjectsOf(r.dest)
      /\ DOMAIN back \subseteq ObjectsOf(Nodes)
      /\ \A h \in r.dest : OfHost(back, h) = Merged(OfHost(there, h), HalfOn(h, Turned(r)))
      /\ \A h \in Nodes \ r.dest : OfHost(back, h) = OfHost(there, h)
  <2> DEFINE t == Turned(r)
  <2>1. t \in RequestSet /\ t.src = r.dest
    BY TurnedIs
  <2> HIDE DEF there, t
  <2>2. /\ DOMAIN Half(there, t) = DOMAIN there \cup ObjectsOf(t.src)
        /\ DOMAIN Half(there, t) \subseteq ObjectsOf(Nodes)
        /\ \A h \in t.src : OfHost(Half(there, t), h) = Merged(OfHost(there, h), HalfOn(h, t))
        /\ \A h \in Nodes \ t.src : OfHost(Half(there, t), h) = OfHost(there, h)
    BY <1>2, <2>1, ExtendedOn
  <2> QED BY <2>1, <2>2 DEF t
<1>4. Added(from, r) = IF r.symmetric /\ service # "netem" THEN back ELSE there
  BY TurnedIs DEF Added, Half, Turned, ObjectsOf
<1> HIDE DEF there, back
<1>5. CASE service = "netem"
  <2>1. \A h \in Nodes : h \notin r.src => OfRequest(r, h) = {}
    BY <1>5 DEF OfRequest, Covers
  <2>2. \A X : Merged(X, {}) = X
    BY DEF Merged
  <2>3. \A h \in Nodes : OfHost(there, h) = Merged(OfHost(from, h), OfRequest(r, h))
    BY <1>2, <1>5, <2>1, <2>2, NetemOn
  <2> QED
    BY <1>2, <1>4, <1>5, <2>3
<1>6. CASE service # "netem" /\ ~r.symmetric
  <2>1. \A h \in Nodes : h \notin r.src => OfRequest(r, h) = {}
    BY <1>6 DEF OfRequest, Covers
  <2>2. \A X : Merged(X, {}) = X
    BY DEF Merged
  <2>3. \A h \in r.src : HalfOn(h, r) = OfRequest(r, h)
    <3> TAKE h \in r.src
    <3>1. \A c : c \in HalfOn(h, r) <=> c \in OfRequest(r, h)
      BY <1>6, HtbOn DEF OfRequest, Covers
    <3>2. \A c \in HalfOn(h, r) : c \in ConstraintSet
      BY <1>6, HtbOn
    <3> QED
      BY <3>1
  <2>4. \A h \in Nodes : OfHost(there, h) = Merged(OfHost(from, h), OfRequest(r, h))
    BY <1>2, <2>1, <2>2, <2>3
  <2> QED
    BY <1>2, <1>4, <1>6, <2>4
<1>7. CASE service # "netem" /\ r.symmetric
  <2>1. ASSUME NEW h \in Nodes PROVE OfHost(back, h) = Merged(OfHost(from, h), OfRequest(r, h))
    <3> DEFINE A == IF h \in r.src THEN HalfOn(h, r) ELSE {}
               B == IF h \in r.dest THEN HalfOn(h, Turned(r)) ELSE {}
    <3>1. \A c : c \in A <=>
             /\ c \in ConstraintSet
             /\ h \in r.src /\ c.dev \in FilterInterfaces(object[h], r.networks)
             /\ \E g \in r.dest : c.to \in FilterAddresses(object[g], r.networks)
             /\ c.delay = r.delay
      BY <1>7, HtbOn
    <3>2. \A c : c \in B <=>
             /\ c \in ConstraintSet
             /\ h \in r.dest /\ c.dev \in FilterInterfaces(object[h], r.networks)
             /\ \E g \in r.src : c.to \in FilterAddresses(object[g], r.networks)
             /\ c.delay = r.delay
      BY <1>7, HtbOn, TurnedIs
    <3>3. OfHost(back, h) = Merged(Merged(OfHost(from, h), A), B)
      <4>1. \A X : Merged(X, {}) = X
        BY DEF Merged
      <4> QED
        BY <1>2, <1>3, <4>1
    <3> HIDE DEF A, B
    <3>4. OfRequest(r, h) = A \cup B
      BY <3>1, <3>2, <1>7 DEF OfRequest, Covers
    <3>5. \A c, d \in OfRequest(r, h) : Same(c, d) => c = d
      BY DEF OfRequest, ConstraintSet, Same
    <3> QED
      BY <3>3, <3>4, <3>5 DEF Merged
  <2> QED
    BY <1>2, <1>3, <1>4, <1>7, <2>1
<1> QED
  BY <1>5, <1>6, <1>7

\* One more request.
LEMMA OneMore ==
  ASSUME Typed, NEW from, NEW requests \in Seq(RequestSet), NEW r \in RequestSet,
         Matches(from, requests)
  PROVE  Matches(Added(from, r), Append(requests, r))
<1> DEFINE n == Len(requests)
           more == Append(requests, r)
<1>1. n \in Nat /\ DOMAIN requests = 1..n /\ DOMAIN more = 1..(n + 1) /\ more[n + 1] = r
      /\ \A i \in 1..n : more[i] = requests[i]
  OBVIOUS
<1>2. \A i, h, dev, to : LastAbout(more, i, h, dev, to) <=>
         \/ i = n + 1 /\ Covers(r, h, dev, to)
         \/ LastAbout(requests, i, h, dev, to) /\ ~Covers(r, h, dev, to)
  <2> SUFFICES ASSUME NEW i, NEW h, NEW dev, NEW to
               PROVE  LastAbout(more, i, h, dev, to) <=>
                         \/ i = n + 1 /\ Covers(r, h, dev, to)
                         \/ LastAbout(requests, i, h, dev, to) /\ ~Covers(r, h, dev, to)
    OBVIOUS
  <2> DEFINE C(q) == Covers(q, h, dev, to)
  <2>1. LastAbout(more, i, h, dev, to) <=>
           i \in 1..(n + 1) /\ C(more[i]) /\ \A j \in 1..(n + 1) : j > i => ~C(more[j])
    BY <1>1 DEF LastAbout
  <2>2. LastAbout(requests, i, h, dev, to) <=>
           i \in 1..n /\ C(requests[i]) /\ \A j \in 1..n : j > i => ~C(requests[j])
    BY <1>1 DEF LastAbout
  <2> HIDE DEF C, n, more
  <2>3. \A j \in 1..(n + 1) : j = n + 1 \/ j \in 1..n
    BY <1>1
  <2>4. i \in 1..n => n + 1 > i /\ n + 1 \in 1..(n + 1)
    BY <1>1
  <2>5. i = n + 1 => i \in 1..(n + 1) /\ \A j \in 1..(n + 1) : ~(j > i)
    BY <1>1
  <2>6. 1..n \subseteq 1..(n + 1)
    BY <1>1
  <2>7. C(r) <=> Covers(r, h, dev, to)
    BY DEF C
  <2> QED
    BY <1>1, <2>1, <2>2, <2>3, <2>4, <2>5, <2>6, <2>7
<1>3. /\ DOMAIN Added(from, r) \subseteq ObjectsOf(Nodes)
      /\ \A h \in Nodes : OfHost(Added(from, r), h) = Merged(OfHost(from, h), OfRequest(r, h))
  BY AddedOn DEF Matches
<1>4. ASSUME NEW h \in Nodes, NEW c
      PROVE  c \in OfHost(Added(from, r), h) <=>
                /\ c \in ConstraintSet
                /\ \E i \in DOMAIN more : LastAbout(more, i, h, c.dev, c.to) /\ c.delay = more[i].delay
  <2>1. c \in OfHost(from, h) <=>
           /\ c \in ConstraintSet
           /\ \E i \in DOMAIN requests : LastAbout(requests, i, h, c.dev, c.to) /\ c.delay = requests[i].delay
    BY DEF Matches
  <2>2. ASSUME c \in ConstraintSet
        PROVE  (\E d \in OfRequest(r, h) : Same(c, d)) <=> Covers(r, h, c.dev, c.to)
    <3>1. ASSUME Covers(r, h, c.dev, c.to) PROVE \E d \in OfRequest(r, h) : Same(c, d)
      <4> DEFINE d == [dev |-> c.dev, to |-> c.to, delay |-> r.delay]
      <4>1. d \in ConstraintSet /\ d.dev = c.dev /\ d.to = c.to /\ d.delay = r.delay
        BY <2>2 DEF ConstraintSet, RequestSet
      <4>2. d \in OfRequest(r, h)
        BY <3>1, <4>1 DEF OfRequest
      <4> QED
        BY <4>1, <4>2 DEF Same
    <3>2. \A d \in OfRequest(r, h) : Same(c, d) => Covers(r, h, c.dev, c.to)
      BY DEF OfRequest, Same
    <3> QED
      BY <3>1, <3>2
  <2>3. c \in OfHost(Added(from, r), h) <=>
           /\ c \in ConstraintSet
           /\ \/ c \in OfHost(from, h) /\ ~Covers(r, h, c.dev, c.to)
              \/ Covers(r, h, c.dev, c.to) /\ c.delay = r.delay
    <3>1. c \in OfHost(Added(from, r), h) <=>
             \/ c \in OfHost(from, h) /\ ~(\E d \in OfRequest(r, h) : Same(c, d))
             \/ c \in OfRequest(r, h)
      BY <1>3 DEF Merged
    <3>2. c \in OfRequest(r, h) <=> c \in ConstraintSet /\ Covers(r, h, c.dev, c.to) /\ c.delay = r.delay
      BY DEF OfRequest
    <3> QED
      BY <2>1, <2>2, <3>1, <3>2
  <2> HIDE DEF n, more
  <2>4. \A i : LastAbout(requests, i, h, c.dev, c.to) => i \in 1..n
    BY <1>1 DEF LastAbout
  <2> QED
    BY <1>1, <1>2, <2>1, <2>3, <2>4
<1> QED
  BY <1>3, <1>4 DEF Matches

\* Of all the requests about an address or a direction, the one with the highest
\* number is the last one.
LEMMA LastIsMax ==
  ASSUME Typed, NEW h, NEW dev, NEW to
  PROVE  /\ \A i : LastAbout(asked, i, h, dev, to) =>
               Asking(h, dev, to) # {} /\ Max(Asking(h, dev, to)) = i
         /\ Asking(h, dev, to) # {} => LastAbout(asked, Max(Asking(h, dev, to)), h, dev, to)
<1> DEFINE S == Asking(h, dev, to)
           n == Len(asked)
<1>1. n \in Nat /\ DOMAIN asked = 1..n
  BY DEF Typed
<1>2. S \subseteq 1..n /\ \A i \in 1..n : i \in S <=> Covers(asked[i], h, dev, to)
  BY DEF Asking
<1>3. S # {} => Max(S) \in S /\ \A i \in S : i <= Max(S)
  <2> HIDE DEF S, n
  <2> QED BY <1>1, <1>2, LastPosition
<1> HIDE DEF S, n
<1>4. ASSUME NEW i, LastAbout(asked, i, h, dev, to) PROVE S # {} /\ Max(S) = i
  <2>1. i \in 1..n /\ i \in S /\ \A j \in S : ~(j > i)
    BY <1>1, <1>2, <1>4 DEF LastAbout
  <2>2. Max(S) \in S /\ i <= Max(S) /\ ~(Max(S) > i)
    BY <1>3, <2>1
  <2>3. \A k, l \in 1..n : k <= l /\ ~(l > k) => l = k
    BY <1>1
  <2>4. Max(S) \in 1..n
    BY ONLY <1>2, <2>2
  <2> QED
    BY ONLY <2>1, <2>2, <2>3, <2>4
<1>5. S # {} => LastAbout(asked, Max(S), h, dev, to)
  <2>1. \A i \in 1..n : \A j \in 1..n : ~(j > i) <=> j <= i
    BY <1>1
  <2> QED
    BY <1>1, <1>2, <1>3, <2>1 DEF LastAbout
<1> QED
  BY <1>4, <1>5 DEF S

\* There is one constraint of each device and direction, or address.
LEMMA OneEach ==
  ASSUME Typed, Matches(sources, asked), NEW h \in Nodes
  PROVE  /\ OfHost(sources, h) \subseteq ConstraintSet
         /\ \A c, d \in OfHost(sources, h) : c.dev = d.dev /\ c.to = d.to => c = d
<1>1. \A c \in OfHost(sources, h) :
         /\ c \in ConstraintSet
         /\ \E i \in DOMAIN asked : LastAbout(asked, i, h, c.dev, c.to) /\ c.delay = asked[i].delay
  BY DEF Matches
<1>2. \A c, d \in OfHost(sources, h) : c.dev = d.dev /\ c.to = d.to => c.delay = d.delay
  <2> TAKE c, d \in OfHost(sources, h)
  <2> HAVE c.dev = d.dev /\ c.to = d.to
  <2>1. PICK i \in DOMAIN asked : LastAbout(asked, i, h, c.dev, c.to) /\ c.delay = asked[i].delay
    BY <1>1
  <2>2. PICK j \in DOMAIN asked : LastAbout(asked, j, h, d.dev, d.to) /\ d.delay = asked[j].delay
    BY <1>1
  <2>3. i = j
    BY <2>1, <2>2, LastIsMax
  <2> QED
    BY <2>1, <2>2, <2>3
<1> QED
  BY <1>1, <1>2 DEF ConstraintSet

\* A constraint is of the kind of the service.
LEMMA KindOf ==
  ASSUME Typed, NEW r \in RequestSet, NEW h \in Nodes, NEW dev, NEW to, Covers(r, h, dev, to)
  PROVE  IF service = "netem" THEN to \in {Out, In} ELSE to \in Addresses
  BY Filtered DEF Covers, RequestSet

\* So is one that is there.
LEMMA ConstraintKind ==
  ASSUME Typed, Matches(sources, asked), NEW h \in Nodes, NEW c \in OfHost(sources, h)
  PROVE  IF service = "netem" THEN c.to \in {Out, In} ELSE c.to \in Addresses
<1>1. PICK i \in DOMAIN asked : LastAbout(asked, i, h, c.dev, c.to)
  BY DEF Matches
<1>2. asked[i] \in RequestSet
  BY DEF Typed
<1>3. Covers(asked[i], h, c.dev, c.to)
  BY <1>1 DEF LastAbout
<1> QED
  BY <1>2, <1>3, KindOf

\* There are enough ifbs for the places of the constraints on incoming packets.
LEMMA PlacesFit ==
  ASSUME Typed, Matches(sources, asked), NEW h \in Nodes,
         NEW place \in PlacesOf(OfHost(sources, h)), NEW c \in Ins(OfHost(sources, h))
  PROVE  <<"ifb", place[c]>> \in Ifbs
<1> DEFINE cs == OfHost(sources, h)
           T == Devices \X {Out, In}
           f == [d \in cs |-> <<d.dev, d.to>>]
<1>1. Out # In /\ IsFiniteSet({Out, In}) /\ Cardinality({Out, In}) = 2
  <2>1. Out # In
    BY DEF Out, In
  <2>2. IsFiniteSet({Out}) /\ Cardinality({Out}) = 1
    BY FS_Singleton
  <2>3. IsFiniteSet({Out} \cup {In}) /\ Cardinality({Out} \cup {In}) = 1 + 1
    BY <2>1, <2>2, FS_AddElement
  <2>4. {Out} \cup {In} = {Out, In}
    OBVIOUS
  <2> QED
    BY <2>1, <2>3, <2>4
<1>2. IsFiniteSet(Devices) /\ Cardinality(Devices) \in Nat
  BY EmulationAssumption, FS_CardinalityType
<1>3. IsFiniteSet(T) /\ Cardinality(T) = Cardinality(Devices) * 2
  BY <1>1, <1>2, FS_Product
<1>4. service = "netem"
  <2>1. c \in cs /\ c.to = In
    BY DEF Ins
  <2>2. In \notin Addresses
    BY MarksAssumption
  <2> QED
    BY <2>1, <2>2, ConstraintKind
<1>5. f \in Injection(cs, T)
  <2>1. \A d \in cs : d.dev \in Devices /\ d.to \in {Out, In}
    BY <1>4, OneEach, ConstraintKind DEF ConstraintSet
  <2>2. f \in [cs -> T]
    BY <2>1
  <2>3. \A d, e \in cs : f[d] = f[e] => d = e
    BY OneEach
  <2> QED
    BY <2>2, <2>3 DEF Injection, IsInjective
<1>6. IsFiniteSet(cs) /\ Cardinality(cs) <= Cardinality(T)
  <2> HIDE DEF f, cs, T
  <2> QED BY <1>3, <1>5, FS_Injection
<1>7. Cardinality(cs) \in Nat
  BY <1>6, FS_CardinalityType
<1>8. place[c] \in 0..(Cardinality(cs) - 1)
  BY DEF PlacesOf
<1>9. place[c] \in 0..(2 * Cardinality(Devices) - 1)
  <2> HIDE DEF cs, T
  <2> QED BY <1>2, <1>3, <1>6, <1>7, <1>8
<1> QED
  BY <1>9 DEF Ifbs

-----------------------------------------------------------------------------
\* Machines where something is emulated.
Dirty == {h \in Nodes : \E dev \in AllDevices : tc[h][dev] # NoRoot}

\* What is emulated, or was, is of constraints that are still there.
Traces ==
    \A h \in Nodes : \A dev \in Devices :
       /\ tc[h][dev].rules # {} => Rules(OfHost(sources, h), dev) # {}
       /\ redirect[h][dev] # NoIfb => \E c \in Ins(OfHost(sources, h)) : c.dev = dev

\* The constraints of h are those in force.
Enforced(h) ==
    \A dev \in Devices :
       /\ tc[h][dev].rules = Rules(OfHost(sources, h), dev)
       /\ \/ /\ redirect[h][dev] = NoIfb
             /\ \A c \in Ins(OfHost(sources, h)) : c.dev # dev
          \/ /\ redirect[h][dev] # NoIfb
             /\ \E c \in Ins(OfHost(sources, h)) :
                   /\ c.dev = dev
                   /\ tc[h][redirect[h][dev]].rules = {[to |-> Out, delay |-> c.delay]}

\* With the latency, the delay is the one asked for.
Shifted(h, dev, to, delay) ==
    /\ to \in Addresses /\ delay \in Int
    /\ \E i \in DOMAIN asked : LastAbout(asked, i, h, dev, to) /\ Latency + delay = asked[i].delay

Corrects ==
    /\ DOMAIN sources \subseteq ObjectsOf(Nodes)
    /\ \A h \in Nodes : \A c \in OfHost(sources, h) : Shifted(h, c.dev, c.to, c.delay)
    /\ \A h \in Nodes : \A dev \in Devices : \A r \in tc[h][dev].rules :
          r = [to |-> r.to, delay |-> r.delay] /\ Shifted(h, dev, r.to, r.delay)

Deployed == state.call = "deploy" /\ state.ok /\ ~stale /\ state.of = Len(asked)

EmulIInv ==
    /\ Typed
    /\ DOMAIN tc = Nodes /\ DOMAIN redirect = Nodes
    /\ DOMAIN state = {"call", "ok", "todo", "of"} /\ state.of \in 0..Len(asked) /\ deploys \in Nat
    /\ asked = <<>> => sources = <<>>
    /\ deploys = 0 =>
          /\ Quiet /\ state.call = "none" /\ state.todo = {}
          /\ \A h \in Nodes : \A dev \in Devices : redirect[h][dev] = NoIfb
    /\ ~stale /\ (service # "accurate" \/ deploys = 0) => Matches(sources, asked)
    /\ ~stale /\ service # "accurate" => Traces
    /\ Deployed /\ service # "accurate" => \A h \in Nodes \ state.todo : Enforced(h)
    /\ Deployed /\ service = "accurate" /\ deploys = 1 => Corrects
    /\ service # "accurate" => Dirty \subseteq Aliases(sources)
    /\ service # "accurate" /\ state.call = "destroy" /\ state.ok => Dirty \subseteq state.todo

\* The delays of one rule.
LEMMA DelaysOfOne ==
  ASSUME NEW to, NEW delay, NEW S, S = {[to |-> to, delay |-> delay]}
  PROVE  {r.delay : r \in S} = {delay}
  OBVIOUS

\* The invariant says what the properties say.
LEMMA EmulImplies == EmulIInv => EmulatedAsAsked /\ ResetCleans
<1> SUFFICES ASSUME EmulIInv PROVE EmulatedAsAsked /\ ResetCleans
  OBVIOUS
<1>1. Typed
  BY DEF EmulIInv
<1>2. ResetCleans
  BY DEF EmulIInv, ResetCleans, Busy, Dirty, Quiet
<1>3. ASSUME Deployed, ~Busy, service = "accurate", deploys = 1, NEW h \in Nodes, NEW dev \in Devices,
             NEW r \in tc[h][dev].rules
      PROVE  [r EXCEPT !.delay = Latency + @] \in Wanted(h, dev, Addresses)
  <2>1. Corrects
    BY <1>3 DEF EmulIInv
  <2>2. r = [to |-> r.to, delay |-> r.delay] /\ Shifted(h, dev, r.to, r.delay)
    BY <1>3, <2>1 DEF Corrects
  <2>3. PICK i \in DOMAIN asked : LastAbout(asked, i, h, dev, r.to) /\ Latency + r.delay = asked[i].delay
    BY <2>2 DEF Shifted
  <2>4. Asking(h, dev, r.to) # {} /\ Max(Asking(h, dev, r.to)) = i
    BY <1>1, <2>3, LastIsMax
  <2>5. [r EXCEPT !.delay = Latency + @] = [to |-> r.to, delay |-> asked[i].delay]
    BY <2>2, <2>3
  <2>6. r.to \in Addresses
    BY <2>2 DEF Shifted
  <2> QED
    BY <2>4, <2>5, <2>6 DEF Wanted
<1>4. ASSUME Deployed, ~Busy, service # "accurate", NEW h \in Nodes, NEW dev \in Devices
      PROVE  /\ tc[h][dev].rules = Wanted(h, dev, Addresses \cup {Out})
             /\ {r.delay : r \in Incoming(h, dev)} = {r.delay : r \in Wanted(h, dev, {In})}
  <2>1. Matches(sources, asked) /\ Enforced(h)
    BY <1>4 DEF EmulIInv, Deployed, Busy
  <2> DEFINE cs == OfHost(sources, h)
  <2>2. ASSUME NEW c
        PROVE  c \in cs <=> /\ c \in ConstraintSet
                            /\ Asking(h, c.dev, c.to) # {}
                            /\ c.delay = asked[Max(Asking(h, c.dev, c.to))].delay
    <3>1. c \in cs <=> c \in ConstraintSet /\ \E i \in DOMAIN asked :
                LastAbout(asked, i, h, c.dev, c.to) /\ c.delay = asked[i].delay
      BY <2>1 DEF Matches
    <3>2. \A i : LastAbout(asked, i, h, c.dev, c.to) => i \in DOMAIN asked
      BY DEF LastAbout
    <3> HIDE DEF cs
    <3> QED
      BY <1>1, <3>1, <3>2, LastIsMax
  <2>3. \A to \in Targets : Asking(h, dev, to) # {} =>
           asked[Max(Asking(h, dev, to))].delay \in Nat
    <3> TAKE to \in Targets
    <3> HAVE Asking(h, dev, to) # {}
    <3>1. Max(Asking(h, dev, to)) \in DOMAIN asked
      BY <1>1, LastIsMax DEF LastAbout
    <3>2. asked[Max(Asking(h, dev, to))] \in RequestSet
      BY <1>1, <3>1 DEF Typed
    <3> QED
      BY <3>2 DEF RequestSet
  <2>4. \A to \in Targets : Asking(h, dev, to) # {} =>
           [dev |-> dev, to |-> to, delay |-> asked[Max(Asking(h, dev, to))].delay] \in cs
    <3> HIDE DEF cs
    <3> QED BY <2>2, <2>3 DEF ConstraintSet
  <2>5. In \notin Addresses \cup {Out}
    BY MarksAssumption DEF In, Out
  <2> HIDE DEF cs
  <2>6. Rules(cs, dev) = Wanted(h, dev, Addresses \cup {Out})
    <3>1. \A x \in Rules(cs, dev) : x \in Wanted(h, dev, Addresses \cup {Out})
      <4> TAKE x \in Rules(cs, dev)
      <4>1. PICK c \in cs : c.dev = dev /\ c.to # In /\ x = [to |-> c.to, delay |-> c.delay]
        BY DEF Rules
      <4>2. c.to \in Addresses \cup {Out} /\ Asking(h, dev, c.to) # {}
            /\ c.delay = asked[Max(Asking(h, dev, c.to))].delay
        BY <2>2, <4>1 DEF ConstraintSet, Targets
      <4> QED
        BY <4>1, <4>2 DEF Wanted
    <3>2. \A x \in Wanted(h, dev, Addresses \cup {Out}) : x \in Rules(cs, dev)
      <4> TAKE x \in Wanted(h, dev, Addresses \cup {Out})
      <4>1. PICK to \in Addresses \cup {Out} :
               /\ Asking(h, dev, to) # {}
               /\ x = [to |-> to, delay |-> asked[Max(Asking(h, dev, to))].delay]
        BY DEF Wanted
      <4>2. [dev |-> dev, to |-> to, delay |-> asked[Max(Asking(h, dev, to))].delay] \in cs
        BY <2>4, <4>1 DEF Targets
      <4> QED
        BY <2>5, <4>1, <4>2 DEF Rules
    <3> QED
      BY <3>1, <3>2
  <2>7. \A x : x \in Wanted(h, dev, {In}) <=>
           /\ Asking(h, dev, In) # {}
           /\ x = [to |-> In, delay |-> asked[Max(Asking(h, dev, In))].delay]
    BY DEF Wanted
  <2>8. \A c \in Ins(cs) : c.dev = dev =>
           Asking(h, dev, In) # {} /\ c.delay = asked[Max(Asking(h, dev, In))].delay
    BY <2>2 DEF Ins
  <2>9. CASE redirect[h][dev] = NoIfb
    <3>1. \A c \in Ins(cs) : c.dev # dev
      BY <2>1, <2>9 DEF Enforced, cs
    <3>2. Asking(h, dev, In) = {}
      <4> SUFFICES ASSUME Asking(h, dev, In) # {} PROVE FALSE
        OBVIOUS
      <4> DEFINE c == [dev |-> dev, to |-> In, delay |-> asked[Max(Asking(h, dev, In))].delay]
      <4>1. c \in cs
        BY <2>4 DEF Targets
      <4>2. c \in Ins(cs) /\ c.dev = dev
        BY <4>1 DEF Ins
      <4> QED
        BY <3>1, <4>2
    <3>3. Wanted(h, dev, {In}) = {} /\ Incoming(h, dev) = {}
      BY <2>7, <2>9, <3>2 DEF Incoming
    <3>4. {r.delay : r \in Incoming(h, dev)} = {r.delay : r \in Wanted(h, dev, {In})}
      BY <3>3
    <3> QED
      BY <2>1, <2>6, <3>4 DEF Enforced, cs
  <2>10. CASE redirect[h][dev] # NoIfb
    <3>1. PICK c \in Ins(cs) : c.dev = dev /\ Incoming(h, dev) = {[to |-> Out, delay |-> c.delay]}
      BY <2>1, <2>10 DEF Enforced, cs, Incoming
    <3>2. Wanted(h, dev, {In}) = {[to |-> In, delay |-> c.delay]}
      BY <2>7, <2>8, <3>1
    <3>3. {r.delay : r \in Incoming(h, dev)} = {c.delay}
      BY ONLY <3>1, DelaysOfOne
    <3>4. {r.delay : r \in Wanted(h, dev, {In})} = {c.delay}
      BY ONLY <3>2, DelaysOfOne
    <3>5. tc[h][dev].rules = Wanted(h, dev, Addresses \cup {Out})
      BY <2>1, <2>6 DEF Enforced, cs
    <3> QED
      BY <3>3, <3>4, <3>5
  <2> QED
    BY <2>9, <2>10
<1>5. EmulatedAsAsked
  BY <1>3, <1>4 DEF EmulatedAsAsked, Deployed
<1> QED
  BY <1>2, <1>5

\* The invariant holds at first.
LEMMA EmulInitOK == EmulInit => EmulIInv
<1> SUFFICES ASSUME EmulInit PROVE EmulIInv
  OBVIOUS
<1>1. Typed
  <2>1. facts \in [Nodes -> [Devices -> SUBSET Nets]]
    BY EmulationAssumption DEF EmulInit
  <2>2. object \in [Nodes -> HostObject] /\ \A h \in Nodes : object[h].alias = h
    BY <2>1 DEF EmulInit, Synced, HostObject
  <2>3. asked \in Seq(RequestSet)
    BY DEF EmulInit
  <2> QED
    BY <2>2, <2>3 DEF Typed, EmulInit
<1>2. Quiet /\ \A h \in Nodes : \A dev \in Devices : redirect[h][dev] = NoIfb
  BY DEF EmulInit, Quiet
<1>3. Matches(sources, asked)
  BY DEF EmulInit, Matches, OfHost
<1>4. Traces
  BY <1>2 DEF Traces, Quiet, NoRoot, AllDevices
<1>5. Dirty = {}
  BY <1>2 DEF Quiet, Dirty
<1> QED
  BY <1>1, <1>2, <1>3, <1>4, <1>5 DEF EmulIInv, EmulInit, Deployed

\* As long as the client has the same objects, requests cover the same.
LEMMA SameHosts ==
  ASSUME service' = service, object' = object
  PROVE  /\ ObjectsOf(Nodes)' = ObjectsOf(Nodes)
         /\ \A h : OfHost(sources, h)' = OfHost(sources', h)
         /\ \A i, h, dev, to :
               LastAbout(asked, i, h, dev, to)' <=> LastAbout(asked', i, h, dev, to)
<1>1. ObjectsOf(Nodes)' = ObjectsOf(Nodes)
  BY DEF ObjectsOf
<1>2. \A h : OfHost(sources, h)' = OfHost(sources', h)
  BY DEF OfHost
<1>3. \A r, h, dev, to : Covers(r, h, dev, to)' <=> Covers(r, h, dev, to)
  BY DEF Covers
<1>4. \A i, h, dev, to : LastAbout(asked, i, h, dev, to)' <=> LastAbout(asked', i, h, dev, to)
  BY <1>3 DEF LastAbout
<1> QED
  BY <1>1, <1>2, <1>4

\* Sources that match still do.
LEMMA MatchesKept ==
  ASSUME service' = service, object' = object, Matches(sources', asked')
  PROVE  Matches(sources, asked)'
  BY SameHosts DEF Matches

\* The types of what does not change.
LEMMA TypedKept ==
  ASSUME Typed, service' = service, facts' = facts, object' = object, asked' \in Seq(RequestSet)
  PROVE  Typed'
  BY DEF Typed

\* The requests are typed.
LEMMA RequestType ==
  ASSUME NEW i \in Nat, NEW r \in Request(i)
  PROVE  r \in RequestSet
<1>1. Delay(i) \in Nat
  BY DEF Delay
<1>2. Shapes \subseteq [src : SUBSET Nodes, dest : SUBSET Nodes, networks : SUBSET Nets,
                          symmetric : BOOLEAN]
  BY EmulationAssumption
<1> QED
  BY <1>1, <1>2 DEF Request, RequestSet

\* No source is removed by a request.
LEMMA AddedKeeps ==
  ASSUME NEW from, NEW r
  PROVE  DOMAIN from \subseteq DOMAIN Added(from, r)
  BY DEF Added, Extended

\* Each action preserves the invariant. Hosts are synced before the first deploy.
LEMMA ResyncOK ==
  ASSUME EmulIInv, NEW h \in Nodes, NEW networks \in Resynced, Resync(h, networks)
  PROVE  EmulIInv'
<1>1. /\ Quiet /\ state.call = "none" /\ state.todo = {} /\ deploys = 0 /\ deploys' = deploys
      /\ \A g \in Nodes : \A dev \in Devices : redirect[g][dev] = NoIfb
      /\ UNCHANGED <<service, sources, asked, tc, redirect, state>>
  BY DEF Resync, EmulIInv
<1>2. Typed'
  <2>1. PICK devs \in FactsOf :
           facts' = [facts EXCEPT ![h] = devs] /\ object' = [g \in Nodes |-> Synced(g, facts'[g], networks)]
    BY DEF Resync
  <2>2. facts' \in [Nodes -> FactsOf]
    BY <2>1 DEF EmulIInv, Typed
  <2>3. facts' \in [Nodes -> [Devices -> SUBSET Nets]] /\ networks \in SUBSET Nets
    BY <2>2, EmulationAssumption
  <2>4. object' \in [Nodes -> HostObject] /\ \A g \in Nodes : object'[g].alias = g
    BY <2>1, <2>3 DEF Synced, HostObject
  <2> QED
    BY <1>1, <2>2, <2>4 DEF Typed, EmulIInv
<1>3. ASSUME ~stale' PROVE Matches(sources, asked)'
  <2>1. ~stale /\ (asked = <<>> \/ object' = object)
    BY <1>3 DEF Resync
  <2>2. CASE asked = <<>>
    <3>1. sources' = <<>> /\ asked' = <<>>
      BY <1>1, <2>2 DEF EmulIInv
    <3>2. DOMAIN sources' = {} /\ DOMAIN asked' = {}
      BY <3>1
    <3> QED
      BY <3>2 DEF Matches, OfHost
  <2>3. CASE object' = object
    BY <1>1, <2>1, <2>3, MatchesKept DEF EmulIInv
  <2> QED
    BY <2>1, <2>2, <2>3
<1>4. Quiet' /\ \A g \in Nodes : \A dev \in Devices : redirect'[g][dev] = NoIfb
  BY <1>1 DEF Quiet
<1>5. Traces'
  BY <1>4 DEF Traces, Quiet, NoRoot, AllDevices
<1>6. Dirty' = {}
  BY <1>4 DEF Quiet, Dirty
<1> QED
  BY <1>1, <1>2, <1>3, <1>4, <1>5, <1>6 DEF EmulIInv, Deployed

\* What is merged keeps a constraint of every device and direction.
LEMMA MergedKeeps ==
  ASSUME NEW old, NEW new, NEW c \in old
  PROVE  \E d \in Merged(old, new) : d.dev = c.dev /\ d.to = c.to
  BY DEF Merged, Same

\* A device has rules if a constraint of it is not on incoming packets.
LEMMA SomeRules ==
  ASSUME NEW cs, NEW dev
  PROVE  Rules(cs, dev) # {} <=> \E c \in cs : c.dev = dev /\ c.to # In
  BY DEF Rules

\* A request is merged with what it overlaps.
LEMMA AddConstraintsOK ==
  ASSUME EmulIInv, ~Busy, NEW r \in Request(Len(asked) + 1), AddConstraints(r)
  PROVE  EmulIInv'
<1>1. /\ UNCHANGED <<service, facts, object, stale, tc, redirect, state, deploys>>
      /\ sources' = Added(sources, r) /\ asked' = Append(asked, r)
  BY DEF AddConstraints
<1>2. Typed /\ asked \in Seq(RequestSet) /\ Len(asked) \in Nat
  BY DEF EmulIInv, Typed
<1>3. r \in RequestSet
  BY <1>2, RequestType
<1>4. asked' \in Seq(RequestSet) /\ Len(asked') = Len(asked) + 1 /\ asked' # <<>>
  BY <1>1, <1>2, <1>3
<1>5. Typed'
  BY <1>1, <1>2, <1>4, TypedKept
<1>6. ASSUME ~stale, service # "accurate" \/ deploys = 0 PROVE Matches(sources, asked)'
  <2>1. Matches(sources, asked)
    BY <1>6 DEF EmulIInv
  <2>2. Matches(sources', asked')
    BY <1>1, <1>2, <1>3, <2>1, OneMore
  <2> QED
    BY <1>1, <2>2, MatchesKept
<1>7. ASSUME ~stale, service # "accurate" PROVE Traces'
  <2>1. Matches(sources, asked) /\ Traces
    BY <1>7 DEF EmulIInv
  <2>2. \A h \in Nodes : OfHost(sources, h)' = Merged(OfHost(sources, h), OfRequest(r, h))
    BY <1>1, <1>2, <1>3, <2>1, AddedOn, SameHosts DEF Matches
  <2>3. ASSUME NEW h \in Nodes, NEW dev \in Devices
        PROVE  /\ tc'[h][dev].rules # {} => Rules(OfHost(sources, h)', dev) # {}
               /\ redirect'[h][dev] # NoIfb => \E c \in Ins(OfHost(sources, h)') : c.dev = dev
    <3> DEFINE old == OfHost(sources, h)
               new == OfRequest(r, h)
    <3>1. OfHost(sources, h)' = Merged(old, new)
      BY <2>2
    <3>2. /\ tc[h][dev].rules # {} => Rules(old, dev) # {}
          /\ redirect[h][dev] # NoIfb => \E c \in Ins(old) : c.dev = dev
      BY <2>1 DEF Traces
    <3> HIDE DEF old, new
    <3>3. Rules(old, dev) # {} => Rules(Merged(old, new), dev) # {}
      BY MergedKeeps, SomeRules
    <3>4. (\E c \in Ins(old) : c.dev = dev) => \E c \in Ins(Merged(old, new)) : c.dev = dev
      BY MergedKeeps DEF Ins
    <3> QED
      BY <1>1, <3>1, <3>2, <3>3, <3>4
  <2> QED
    BY <2>3 DEF Traces
<1>8. Aliases(sources) \subseteq Aliases(sources)'
  BY <1>1, AddedKeeps DEF Aliases
<1>9. state.of \in 0..Len(asked)
  BY DEF EmulIInv
<1>10. state'.of \in 0..Len(asked') /\ ~Deployed'
  BY <1>1, <1>2, <1>4, <1>9 DEF Deployed
<1>11. Quiet' = Quiet /\ Dirty' = Dirty
  BY <1>1 DEF Quiet, Dirty
<1> QED
  BY <1>1, <1>4, <1>5, <1>6, <1>7, <1>8, <1>10, <1>11 DEF EmulIInv

\* The defaults of a dictionary, then a constraint of its own.
LEMMA FromDictOK ==
  ASSUME EmulIInv, ~Busy, NEW r \in Request(2), FromDict(r)
  PROVE  EmulIInv'
<1> DEFINE every == [src |-> r.src \cup r.dest, dest |-> r.src \cup r.dest, delay |-> Delay(1),
                     networks |-> r.networks, symmetric |-> FALSE]
<1>1. /\ UNCHANGED <<service, facts, object, stale, tc, redirect, state, deploys>>
      /\ sources' = Added(Added(sources, every), r) /\ asked' = <<every, r>>
      /\ asked = <<>> /\ sources = <<>>
  BY DEF FromDict, EmulIInv
<1>2. r \in RequestSet
  BY RequestType
<1>3. every \in RequestSet
  BY <1>2 DEF RequestSet, Delay
<1> HIDE DEF every
<1>4. /\ asked' \in Seq(RequestSet) /\ Len(asked') = 2 /\ asked' # <<>> /\ Len(asked) = 0
      /\ asked' = Append(Append(<<>>, every), r) /\ Append(<<>>, every) \in Seq(RequestSet)
      /\ <<>> \in Seq(RequestSet)
  BY <1>1, <1>2, <1>3
<1>5. Typed /\ Typed'
  BY <1>1, <1>4, TypedKept DEF EmulIInv
<1>6. Matches(sources, asked)'
  <2>1. Matches(sources, <<>>)
    <3>1. DOMAIN sources = {} /\ DOMAIN <<>> = {}
      BY <1>1
    <3> QED
      BY <3>1 DEF Matches, OfHost
  <2>2. Matches(Added(sources, every), Append(<<>>, every))
    BY <1>3, <1>4, <1>5, <2>1, OneMore
  <2>3. Matches(sources', asked')
    BY <1>1, <1>2, <1>4, <1>5, <2>2, OneMore
  <2> QED
    BY <1>1, <2>3, MatchesKept
<1>7. ASSUME ~stale, service # "accurate" PROVE Traces'
  <2>1. \A h \in Nodes : OfHost(sources, h) = {}
    BY <1>1 DEF OfHost
  <2>2. \A dev : Rules({}, dev) = {} /\ Ins({}) = {}
    BY DEF Rules, Ins
  <2>3. \A h \in Nodes : \A dev \in Devices : tc[h][dev].rules = {} /\ redirect[h][dev] = NoIfb
    BY <1>7, <2>1, <2>2 DEF EmulIInv, Traces
  <2> QED
    BY <1>1, <2>3 DEF Traces
<1>8. service # "accurate" => Dirty = {}
  BY <1>1 DEF EmulIInv, Aliases
<1>9. state.of \in 0..Len(asked)
  BY DEF EmulIInv
<1>10. state'.of \in 0..Len(asked') /\ ~Deployed'
  BY <1>1, <1>4, <1>9 DEF Deployed
<1>11. Quiet' = Quiet /\ Dirty' = Dirty
  BY <1>1 DEF Quiet, Dirty
<1> QED
  BY <1>1, <1>4, <1>5, <1>6, <1>7, <1>8, <1>10, <1>11 DEF EmulIInv

\* The object of a machine is the only one with its alias.
LEMMA ObjectIs ==
  ASSUME Typed, DOMAIN sources \subseteq ObjectsOf(Nodes), NEW h \in Nodes,
         NEW o \in DOMAIN sources, o.alias = h
  PROVE  o = object[h] /\ sources[o] = OfHost(sources, h)
  BY DEF Typed, ObjectsOf, OfHost

\* An action that changes what is emulated on h only.
LEMMA OthersStay ==
  ASSUME NEW h \in Nodes, UNCHANGED <<service, object, sources, asked>>,
         \A g \in Nodes \ {h} : tc'[g] = tc[g] /\ redirect'[g] = redirect[g]
  PROVE  /\ Dirty' \subseteq Dirty \cup {h}
         /\ \A g \in Nodes \ {h} : Enforced(g) => Enforced(g)'
<1>1. Dirty' \subseteq Dirty \cup {h}
  BY DEF Dirty
<1>2. \A g \in Nodes \ {h} : Enforced(g) => Enforced(g)'
  BY SameHosts DEF Enforced
<1> QED
  BY <1>1, <1>2

\* One that removes rules, or leaves them.
LEMMA TracesKept ==
  ASSUME UNCHANGED <<service, object, sources, redirect>>, Traces,
         \A h \in Nodes : \A dev \in Devices : tc'[h][dev] = tc[h][dev] \/ tc'[h][dev].rules = {}
  PROVE  Traces'
<1>1. \A g \in Nodes : OfHost(sources, g)' = OfHost(sources, g)
  BY SameHosts
<1> QED
  BY <1>1 DEF Traces

\* A machine that is lost makes the call fail.
LEMMA LostOK ==
  ASSUME EmulIInv, NEW h \in Nodes, Lost(h)
  PROVE  EmulIInv'
<1>1. UNCHANGED <<service, facts, object, sources, asked, stale, redirect, deploys>>
      /\ state' = [state EXCEPT !.todo = @ \ {h}, !.ok = @ /\ FALSE] /\ h \in state.todo
  BY DEF Lost, Done
<1>2. /\ ~state'.ok /\ state'.of = state.of /\ deploys # 0
      /\ DOMAIN state' = {"call", "ok", "todo", "of"}
  BY <1>1 DEF EmulIInv
<1>3. Typed'
  BY <1>1, TypedKept DEF EmulIInv, Typed
<1>4. Matches(sources, asked) => Matches(sources, asked)'
  BY <1>1, MatchesKept
<1>5. /\ DOMAIN tc' = Nodes
      /\ \A g \in Nodes \ {h} : tc'[g] = tc[g]
      /\ \A dev \in Devices : tc'[h][dev] = tc[h][dev] \/ tc'[h][dev].rules = {}
      /\ tc'[h] = tc[h] \/ \E o \in DOMAIN sources : o.alias = h
  <2>0. DOMAIN tc = Nodes
    BY DEF EmulIInv
  <2>1. CASE UNCHANGED tc
    BY <2>0, <2>1
  <2>2. CASE ~(UNCHANGED tc)
    <3>1. PICK o \in {o \in DOMAIN sources : o.alias = h} :
             tc' = [tc EXCEPT ![h] = [dev \in AllDevices |-> BareRoot(h, sources[o], dev)]]
      BY <2>2 DEF Lost
    <3>2. \A dev \in Devices : BareRoot(h, sources[o], dev) = tc[h][dev]
                               \/ BareRoot(h, sources[o], dev).rules = {}
      BY DEF BareRoot, NoRoot, Root
    <3>3. tc'[h] = [dev \in AllDevices |-> BareRoot(h, sources[o], dev)]
      BY <2>0, <3>1
    <3>4. \A dev \in Devices : tc'[h][dev] = BareRoot(h, sources[o], dev)
      BY <3>3 DEF AllDevices
    <3> QED
      BY <2>0, <3>1, <3>2, <3>4
  <2> QED
    BY <2>1, <2>2
<1>6. Traces => Traces'
  <2>1. \A g \in Nodes : \A dev \in Devices : tc'[g][dev] = tc[g][dev] \/ tc'[g][dev].rules = {}
    BY <1>5
  <2> QED
    BY <1>1, <2>1, TracesKept
<1>7. service # "accurate" => Dirty' \subseteq Aliases(sources)'
  <2>1. tc'[h] # tc[h] => h \in Aliases(sources)
    BY <1>5 DEF Aliases
  <2>2. tc'[h] = tc[h] => Dirty' = Dirty
    BY <1>5 DEF Dirty
  <2>3. Aliases(sources)' = Aliases(sources)
    BY <1>1 DEF Aliases
  <2>4. Dirty' \subseteq Dirty \cup {h}
    BY <1>1, <1>5, OthersStay
  <2> QED
    BY <2>1, <2>2, <2>3, <2>4 DEF EmulIInv
<1> QED
  BY <1>1, <1>2, <1>3, <1>4, <1>5, <1>6, <1>7 DEF EmulIInv, Deployed

\* A machine is reset whatever its constraints.
LEMMA ResetOK ==
  ASSUME EmulIInv, NEW h \in Nodes, Reset(h)
  PROVE  EmulIInv'
<1>1. /\ UNCHANGED <<service, facts, object, sources, asked, stale, redirect, deploys>>
      /\ state' = [state EXCEPT !.todo = @ \ {h}, !.ok = @ /\ TRUE]
      /\ h \in state.todo /\ state.call = "destroy"
  BY DEF Reset, Done
<1>2. /\ state'.call = "destroy" /\ state'.todo = state.todo \ {h} /\ state'.of = state.of
      /\ state'.ok => state.ok
      /\ deploys # 0 /\ DOMAIN state' = {"call", "ok", "todo", "of"}
  BY <1>1 DEF EmulIInv
<1>3. Typed'
  BY <1>1, TypedKept DEF EmulIInv, Typed
<1>4. Matches(sources, asked) => Matches(sources, asked)'
  BY <1>1, MatchesKept
<1>5. /\ DOMAIN tc' = Nodes /\ \A g \in Nodes \ {h} : tc'[g] = tc[g]
      /\ \A dev \in AllDevices : tc'[h][dev] = NoRoot
  BY DEF Reset, ResetDevices, EmulIInv
<1>6. Traces => Traces'
  <2>1. \A g \in Nodes : \A dev \in Devices : tc'[g][dev] = tc[g][dev] \/ tc'[g][dev].rules = {}
    BY <1>5 DEF NoRoot, AllDevices
  <2> QED
    BY <1>1, <2>1, TracesKept
<1>7. Dirty' \subseteq Dirty \ {h}
  BY <1>5 DEF Dirty
<1>8. Aliases(sources)' = Aliases(sources)
  BY <1>1 DEF Aliases
<1> QED
  BY <1>1, <1>2, <1>3, <1>4, <1>5, <1>6, <1>7, <1>8 DEF EmulIInv, Deployed

\* The roots of a machine are those of its constraints, and its incoming packets
\* go where the rule of their constraint is.
LEMMA RootsAsConstrained ==
  ASSUME Typed, Matches(sources, asked), NEW h \in Nodes,
         \A dev \in Devices : tc[h][dev].rules # {} => Rules(OfHost(sources, h), dev) # {},
         NEW place \in PlacesOf(OfHost(sources, h))
  PROVE  /\ \A dev \in Devices :
               RootOf(h, OfHost(sources, h), place, dev).rules = Rules(OfHost(sources, h), dev)
         /\ \A c \in Ins(OfHost(sources, h)) :
               /\ <<"ifb", place[c]>> \in AllDevices /\ <<"ifb", place[c]>> # NoIfb
               /\ RootOf(h, OfHost(sources, h), place, <<"ifb", place[c]>>).rules =
                     {[to |-> Out, delay |-> c.delay]}
<1> DEFINE cs == OfHost(sources, h)
<1>1. \A c \in Ins(cs) : <<"ifb", place[c]>> \in Ifbs
  BY PlacesFit
<1>2. \A c, d \in Ins(cs) : <<"ifb", place[c]>> = <<"ifb", place[d]>> => c = d
  BY DEF PlacesOf
<1>3. ASSUME NEW dev \in Devices PROVE RootOf(h, cs, place, dev).rules = Rules(cs, dev)
  <2>1. \A c \in Ins(cs) : dev # <<"ifb", place[c]>>
    BY <1>1, MarksAssumption
  <2>2. RootOf(h, cs, place, dev) = IF Rules(cs, dev) # {} THEN Root(Rules(cs, dev)) ELSE tc[h][dev]
    BY <2>1 DEF RootOf
  <2>3. tc[h][dev].rules # {} => Rules(cs, dev) # {}
    OBVIOUS
  <2> HIDE DEF cs
  <2>4. CASE Rules(cs, dev) = {}
    <3>1. RootOf(h, cs, place, dev) = tc[h][dev]
      BY <2>2, <2>4
    <3> QED
      BY <2>3, <2>4, <3>1
  <2>5. CASE Rules(cs, dev) # {}
    <3>1. RootOf(h, cs, place, dev) = Root(Rules(cs, dev))
      BY <2>2, <2>5
    <3>2. \A rules : Root(rules).rules = rules
      BY DEF Root
    <3> QED
      BY <3>1, <3>2
  <2> QED
    BY <2>4, <2>5
<1>4. ASSUME NEW c \in Ins(cs)
      PROVE  RootOf(h, cs, place, <<"ifb", place[c]>>).rules = {[to |-> Out, delay |-> c.delay]}
  <2> DEFINE dev == <<"ifb", place[c]>>
             here == {d \in Ins(cs) : dev = <<"ifb", place[d]>>}
  <2>1. here = {c}
    BY <1>2
  <2>2. RootOf(h, cs, place, dev) = Root({[to |-> Out, delay |-> d.delay] : d \in here})
    BY DEF RootOf
  <2> HIDE DEF cs, dev, here
  <2>3. {[to |-> Out, delay |-> d.delay] : d \in here} = {[to |-> Out, delay |-> c.delay]}
    BY <2>1
  <2> QED
    BY <2>2, <2>3 DEF Root, dev
<1>5. \A c \in Ins(cs) : <<"ifb", place[c]>> # NoIfb
  BY DEF NoIfb
<1> QED
  BY <1>1, <1>3, <1>4, <1>5 DEF AllDevices

\* The constraints of a machine are put in force.
LEMMA EnforceOK ==
  ASSUME EmulIInv, NEW h \in Nodes, Enforce(h)
  PROVE  EmulIInv'
<1>1. /\ UNCHANGED <<service, facts, object, sources, asked, stale, deploys>>
      /\ state' = [state EXCEPT !.todo = @ \ {h}, !.ok = @ /\ TRUE]
      /\ h \in state.todo /\ state.call = "deploy"
  BY DEF Enforce, Done
<1>2. /\ state'.call = "deploy" /\ state'.todo = state.todo \ {h} /\ state'.of = state.of
      /\ state'.ok => state.ok
      /\ deploys # 0 /\ DOMAIN state' = {"call", "ok", "todo", "of"}
  BY <1>1 DEF EmulIInv
<1>3. Typed' /\ Typed
  BY <1>1, TypedKept DEF EmulIInv, Typed
<1>4. Matches(sources, asked) => Matches(sources, asked)'
  BY <1>1, MatchesKept
<1>0. PICK o \in {o \in DOMAIN sources : o.alias = h} : \E place \in PlacesOf(sources[o]) :
         /\ tc' = [tc EXCEPT ![h] = [dev \in AllDevices |-> RootOf(h, sources[o], place, dev)]]
         /\ redirect' = [redirect EXCEPT ![h] = [dev \in Devices |->
                IF \E c \in Ins(sources[o]) : c.dev = dev
                THEN <<"ifb", place[CHOOSE c \in Ins(sources[o]) : c.dev = dev]>>
                ELSE redirect[h][dev]]]
  BY DEF Enforce, EmulIInv
<1>5. PICK place \in PlacesOf(sources[o]) :
         /\ tc' = [tc EXCEPT ![h] = [dev \in AllDevices |-> RootOf(h, sources[o], place, dev)]]
         /\ redirect' = [redirect EXCEPT ![h] = [dev \in Devices |->
                IF \E c \in Ins(sources[o]) : c.dev = dev
                THEN <<"ifb", place[CHOOSE c \in Ins(sources[o]) : c.dev = dev]>>
                ELSE redirect[h][dev]]]
  BY <1>0
<1>6. /\ DOMAIN tc' = Nodes /\ DOMAIN redirect' = Nodes
      /\ \A g \in Nodes \ {h} : tc'[g] = tc[g] /\ redirect'[g] = redirect[g]
      /\ \A dev \in AllDevices : tc'[h][dev] = RootOf(h, sources[o], place, dev)
      /\ \A dev \in Devices :
            \/ \E c \in Ins(sources[o]) : c.dev = dev /\ redirect'[h][dev] = <<"ifb", place[c]>>
            \/ redirect'[h][dev] = redirect[h][dev] /\ \A c \in Ins(sources[o]) : c.dev # dev
  <2>1. /\ DOMAIN tc' = Nodes /\ DOMAIN redirect' = Nodes
        /\ \A g \in Nodes \ {h} : tc'[g] = tc[g] /\ redirect'[g] = redirect[g]
        /\ tc'[h] = [dev \in AllDevices |-> RootOf(h, sources[o], place, dev)]
        /\ redirect'[h] = [dev \in Devices |->
                IF \E c \in Ins(sources[o]) : c.dev = dev
                THEN <<"ifb", place[CHOOSE c \in Ins(sources[o]) : c.dev = dev]>>
                ELSE redirect[h][dev]]
    BY <1>5 DEF EmulIInv
  <2>2. \A dev \in Devices : redirect'[h][dev] =
                IF \E c \in Ins(sources[o]) : c.dev = dev
                THEN <<"ifb", place[CHOOSE c \in Ins(sources[o]) : c.dev = dev]>>
                ELSE redirect[h][dev]
    BY <2>1
  <2>3. \A dev \in Devices :
           \/ \E c \in Ins(sources[o]) : c.dev = dev /\ redirect'[h][dev] = <<"ifb", place[c]>>
           \/ redirect'[h][dev] = redirect[h][dev] /\ \A c \in Ins(sources[o]) : c.dev # dev
    <3> TAKE dev \in Devices
    <3>1. CASE \E c \in Ins(sources[o]) : c.dev = dev
      <4> DEFINE c == CHOOSE c \in Ins(sources[o]) : c.dev = dev
      <4>1. c \in Ins(sources[o]) /\ c.dev = dev
        BY <3>1
      <4>2. redirect'[h][dev] = <<"ifb", place[c]>>
        BY <2>2, <3>1
      <4> HIDE DEF c
      <4> QED
        BY <4>1, <4>2
    <3>2. CASE \A c \in Ins(sources[o]) : c.dev # dev
      BY <2>2, <3>2
    <3> QED
      BY <3>1, <3>2
  <2> QED
    BY <2>1, <2>3
<1>7. Dirty' \subseteq Dirty \cup {h} /\ \A g \in Nodes \ {h} : Enforced(g) => Enforced(g)'
  BY <1>1, <1>6, OthersStay
<1>8. ASSUME ~stale, service # "accurate" PROVE Enforced(h)' /\ Traces'
  <2> DEFINE cs == OfHost(sources, h)
  <2>1. Matches(sources, asked) /\ Traces
    BY <1>8 DEF EmulIInv
  <2>2. sources[o] = cs
    BY <1>0, <1>3, <2>1, ObjectIs DEF Matches
  <2>3. place \in PlacesOf(cs)
    BY <1>5, <2>2
  <2>4. \A dev \in Devices :
           /\ tc[h][dev].rules # {} => Rules(cs, dev) # {}
           /\ redirect[h][dev] # NoIfb => \E c \in Ins(cs) : c.dev = dev
    BY <2>1 DEF Traces
  <2>5. /\ \A dev \in Devices : RootOf(h, cs, place, dev).rules = Rules(cs, dev)
        /\ \A c \in Ins(cs) :
              /\ <<"ifb", place[c]>> \in AllDevices /\ <<"ifb", place[c]>> # NoIfb
              /\ RootOf(h, cs, place, <<"ifb", place[c]>>).rules = {[to |-> Out, delay |-> c.delay]}
    BY <1>3, <2>1, <2>3, <2>4, RootsAsConstrained
  <2>6. OfHost(sources, h)' = cs
    BY <1>1, SameHosts
  <2> HIDE DEF cs
  <2>7. ASSUME NEW dev \in Devices
        PROVE  /\ tc'[h][dev].rules = Rules(cs, dev)
               /\ \/ redirect'[h][dev] = NoIfb /\ \A c \in Ins(cs) : c.dev # dev
                  \/ /\ redirect'[h][dev] # NoIfb
                     /\ \E c \in Ins(cs) :
                           /\ c.dev = dev
                           /\ tc'[h][redirect'[h][dev]].rules = {[to |-> Out, delay |-> c.delay]}
    <3>1. tc'[h][dev].rules = Rules(cs, dev)
      BY <1>6, <2>2, <2>5 DEF AllDevices
    <3>2. CASE \E c \in Ins(cs) : c.dev = dev
      <4>1. PICK c \in Ins(cs) : c.dev = dev /\ redirect'[h][dev] = <<"ifb", place[c]>>
        BY <1>6, <2>2, <3>2
      <4>3. tc'[h][redirect'[h][dev]].rules = {[to |-> Out, delay |-> c.delay]}
        BY <1>6, <2>2, <2>5, <4>1
      <4> QED
        BY <2>5, <3>1, <4>1, <4>3
    <3>3. CASE \A c \in Ins(cs) : c.dev # dev
      <4>1. redirect'[h][dev] = NoIfb
        BY <1>6, <2>2, <2>4, <3>3
      <4> QED
        BY <3>1, <3>3, <4>1
    <3> QED
      BY <3>2, <3>3
  <2>8. Enforced(h)'
    BY <2>6, <2>7 DEF Enforced
  <2>9. Traces'
    <3>1. \A g \in Nodes : OfHost(sources, g)' = OfHost(sources, g)
      BY <1>1, SameHosts
    <3>2. ASSUME NEW g \in Nodes \ {h}, NEW dev \in Devices
          PROVE  /\ tc'[g][dev].rules # {} => Rules(OfHost(sources, g)', dev) # {}
                 /\ redirect'[g][dev] # NoIfb => \E c \in Ins(OfHost(sources, g)') : c.dev = dev
      BY <1>6, <2>1, <3>1 DEF Traces
    <3>3. ASSUME NEW dev \in Devices
          PROVE  /\ tc'[h][dev].rules # {} => Rules(OfHost(sources, h)', dev) # {}
                 /\ redirect'[h][dev] # NoIfb => \E c \in Ins(OfHost(sources, h)') : c.dev = dev
      BY <2>6, <2>7
    <3> QED
      BY <3>2, <3>3 DEF Traces
  <2> QED
    BY <2>8, <2>9
<1>9. ASSUME Deployed, service = "accurate", deploys = 1 PROVE Corrects'
  <2> DEFINE cs == OfHost(sources, h)
  <2>1. Corrects
    BY <1>9 DEF EmulIInv
  <2>2. sources[o] = cs
    BY <1>0, <1>3, <2>1, ObjectIs DEF Corrects
  <2>3. \A c \in cs : Shifted(h, c.dev, c.to, c.delay)
    BY <2>1 DEF Corrects
  <2>4. Ins(cs) = {}
    BY <2>3, MarksAssumption DEF Ins, Shifted
  <2> HIDE DEF cs
  <2>5. \A dev \in Devices : \A r \in tc'[h][dev].rules :
           r = [to |-> r.to, delay |-> r.delay] /\ Shifted(h, dev, r.to, r.delay)
    <3> SUFFICES ASSUME NEW dev \in Devices, NEW r \in tc'[h][dev].rules
                 PROVE  r = [to |-> r.to, delay |-> r.delay] /\ Shifted(h, dev, r.to, r.delay)
      OBVIOUS
    <3>1. tc'[h][dev] = IF Rules(cs, dev) # {} THEN Root(Rules(cs, dev)) ELSE tc[h][dev]
      BY <1>6, <2>2, <2>4 DEF RootOf, AllDevices
    <3>2. CASE r \in tc[h][dev].rules
      BY <2>1, <3>2 DEF Corrects
    <3>3. CASE r \in Rules(cs, dev)
      <4>1. PICK c \in cs : c.dev = dev /\ r = [to |-> c.to, delay |-> c.delay]
        BY <3>3 DEF Rules
      <4> QED
        BY <2>3, <4>1
    <3> QED
      BY <3>1, <3>2, <3>3 DEF Root
  <2>6. \A g \in Nodes : \A dev, to, delay : Shifted(g, dev, to, delay)' <=> Shifted(g, dev, to, delay)
    BY <1>1, SameHosts DEF Shifted
  <2>7. \A g \in Nodes : OfHost(sources, g)' = OfHost(sources, g)
    BY <1>1, SameHosts
  <2>8. DOMAIN sources' \subseteq ObjectsOf(Nodes)'
    BY <1>1, <2>1, SameHosts DEF Corrects
  <2>9. \A g \in Nodes : \A c \in OfHost(sources, g)' : Shifted(g, c.dev, c.to, c.delay)
    BY <2>1, <2>7 DEF Corrects
  <2>10. \A g \in Nodes : \A dev \in Devices : \A r \in tc'[g][dev].rules :
           r = [to |-> r.to, delay |-> r.delay] /\ Shifted(g, dev, r.to, r.delay)
    BY <1>6, <2>1, <2>5 DEF Corrects
  <2> QED
    BY <2>6, <2>8, <2>9, <2>10 DEF Corrects
<1>10. h \in Aliases(sources)' /\ Aliases(sources)' = Aliases(sources)
  BY <1>0, <1>1 DEF Aliases
<1>11. Deployed' => Deployed
  BY <1>1, <1>2 DEF Deployed
<1>12. Deployed' /\ service # "accurate" => \A g \in Nodes \ state'.todo : Enforced(g)'
  <2> SUFFICES ASSUME Deployed', service # "accurate", NEW g \in Nodes \ state'.todo
               PROVE  Enforced(g)'
    OBVIOUS
  <2>1. Deployed /\ ~stale
    BY <1>11 DEF Deployed
  <2>2. CASE g = h
    BY <1>8, <2>1, <2>2
  <2>3. CASE g # h
    <3>1. Enforced(g)
      BY <1>2, <2>1, <2>3 DEF EmulIInv
    <3> QED
      BY <1>7, <2>3, <3>1
  <2> QED
    BY <2>2, <2>3
<1> QED
  BY <1>1, <1>2, <1>3, <1>4, <1>6, <1>7, <1>8, <1>9, <1>10, <1>11, <1>12 DEF EmulIInv

\* A deploy begins: what it will not visit has nothing to enforce.
LEMMA DeployOK ==
  ASSUME EmulIInv, Deploy
  PROVE  EmulIInv'
<1>1. /\ UNCHANGED <<service, facts, object, sources, asked, stale, tc, redirect>>
      /\ state' = [call |-> "deploy", ok |-> TRUE, todo |-> Aliases(sources), of |-> Len(asked)]
      /\ deploys' = deploys + 1 /\ service # "accurate" /\ sources # <<>>
  BY DEF Deploy, StartCall
<1>2. Typed /\ Len(asked) \in Nat /\ deploys' \in Nat /\ deploys' # 0
      /\ state'.of \in 0..Len(asked) /\ state'.todo = Aliases(sources) /\ state'.call = "deploy"
  BY <1>1 DEF EmulIInv, Typed
<1>3. Typed'
  BY <1>1, TypedKept DEF EmulIInv, Typed
<1>4. Matches(sources, asked) => Matches(sources, asked)'
  BY <1>1, MatchesKept
<1>5. Traces => Traces'
  BY <1>1, TracesKept
<1>6. ASSUME Deployed' PROVE \A h \in Nodes \ state'.todo : Enforced(h)'
  <2>1. Matches(sources, asked) /\ Traces
    BY <1>1, <1>6 DEF EmulIInv, Deployed
  <2>2. ASSUME NEW h \in Nodes \ Aliases(sources) PROVE OfHost(sources, h) = {}
    <3>1. object[h].alias = h
      BY <1>2 DEF Typed
    <3> QED
      BY <3>1 DEF OfHost, Aliases
  <2>3. \A dev : Rules({}, dev) = {} /\ Ins({}) = {}
    BY DEF Rules, Ins
  <2>4. \A h \in Nodes \ Aliases(sources) : \A dev \in Devices :
           tc[h][dev].rules = {} /\ redirect[h][dev] = NoIfb
    BY <2>1, <2>2, <2>3 DEF Traces
  <2>5. \A h \in Nodes \ Aliases(sources) : OfHost(sources, h)' = {}
    BY <1>1, <2>2, SameHosts
  <2> QED
    BY <1>1, <1>2, <2>3, <2>4, <2>5 DEF Enforced
<1>7. Aliases(sources)' = Aliases(sources) /\ Dirty' = Dirty
  BY <1>1 DEF Aliases, Dirty
<1> QED
  BY <1>1, <1>2, <1>3, <1>4, <1>5, <1>6, <1>7 DEF EmulIInv

\* A destroy begins: what is emulated is on machines it will visit.
LEMMA DestroyOK ==
  ASSUME EmulIInv, Destroy
  PROVE  EmulIInv'
<1>1. /\ UNCHANGED <<service, facts, object, sources, asked, stale, tc, redirect, deploys>>
      /\ state' = [call |-> "destroy", ok |-> TRUE, todo |-> Aliases(sources), of |-> Len(asked)]
      /\ state.call = "deploy"
  BY DEF Destroy, StartCall
<1>2. /\ Len(asked) \in Nat /\ deploys # 0 /\ state'.todo = Aliases(sources)
      /\ state'.of \in 0..Len(asked) /\ state'.call = "destroy"
  BY <1>1 DEF EmulIInv, Typed
<1>3. Typed'
  BY <1>1, TypedKept DEF EmulIInv, Typed
<1>4. Matches(sources, asked) => Matches(sources, asked)'
  BY <1>1, MatchesKept
<1>5. Traces => Traces'
  BY <1>1, TracesKept
<1>6. Aliases(sources)' = Aliases(sources) /\ Dirty' = Dirty
  BY <1>1 DEF Aliases, Dirty
<1> QED
  BY <1>1, <1>2, <1>3, <1>4, <1>5, <1>6 DEF EmulIInv, Deployed

\* A sum over nothing.
LEMMA NothingFolded ==
  ASSUME NEW S, S = {}
  PROVE  FoldSet(LAMBDA r, sum : sum + r.delay, 0, S) = 0
<1> DEFINE F(g) == [s \in SUBSET S |-> IF s = {} THEN 0
                     ELSE g[s \ {CHOOSE x \in s : TRUE}] + (CHOOSE x \in s : TRUE).delay]
<1>1. LET z == [s \in SUBSET S |-> 0] IN z = F(z)
  OBVIOUS
<1>2. (CHOOSE g : g = F(g)) = F(CHOOSE g : g = F(g))
  BY <1>1
<1>3. (CHOOSE g : g = F(g))[{}] = 0
  BY <1>2
<1> QED
  BY <1>3 DEF FoldSet, MapThenFoldSet

\* On a network free of emulation, what packets wait for is its latency.
LEMMA QuietOneWay ==
  ASSUME Quiet, NEW h \in Nodes, NEW address
  PROVE  OneWay(h, address) = Latency
<1> DEFINE S == {r \in UNION {tc[h][dev].rules : dev \in {dev \in Devices : address[2] \in facts[h][dev]}} :
          r.to = address}
<1>1. S = {}
  BY DEF Quiet, NoRoot, AllDevices
<1> DEFINE total == FoldSet(LAMBDA r, sum : sum + r.delay, 0, S)
<1>2. OneWay(h, address) = Latency + total
  BY DEF OneWay
<1>3. total = 0
  <2> HIDE DEF S
  <2> QED BY <1>1, NothingFolded
<1> HIDE DEF total
<1>4. Latency \in Nat
  BY EmulationAssumption
<1> QED
  BY <1>2, <1>3, <1>4

\* The correction is then the latency.
LEMMA QuietCorrection ==
  ASSUME Quiet, NEW h \in Nodes, NEW c, c.to \in Addresses
  PROVE  Corrected(h, c) = c.delay - Latency
<1>1. c.to[1] \in Nodes
  BY DEF Addresses
<1>2. OneWay(h, c.to) = Latency
  BY QuietOneWay
<1>3. \A address : OneWay(c.to[1], address) = Latency
  BY <1>1, QuietOneWay
<1>4. Latency \in Nat /\ (Latency + Latency) \div 2 = Latency
  BY EmulationAssumption
<1>5. Ping(h, c.to) = Latency + Latency
  BY <1>2, <1>3 DEF Ping
<1> QED
  BY <1>4, <1>5 DEF Corrected

\* What is measured is what was there, corrected.
LEMMA MeasuredOn ==
  ASSUME Typed, DOMAIN sources \subseteq ObjectsOf(Nodes), NEW seen
  PROVE  /\ DOMAIN Measured(seen) \subseteq ObjectsOf(Nodes)
         /\ \A h \in Nodes : \A d \in OfHost(Measured(seen), h) :
               \E c \in OfHost(sources, h) : d = [c EXCEPT !.delay = Corrected(h, c)]
<1> DEFINE m == Measured(seen)
<1>1. /\ DOMAIN m \subseteq DOMAIN sources
      /\ \A o \in DOMAIN m : \A d \in m[o] :
            \E c \in sources[o] : d = [c EXCEPT !.delay = Corrected(o.alias, c)]
  BY DEF Measured
<1> HIDE DEF m
<1>2. \A h \in Nodes : object[h].alias = h
  BY DEF Typed
<1>3. \A h \in Nodes : \A d \in OfHost(m, h) :
               \E c \in OfHost(sources, h) : d = [c EXCEPT !.delay = Corrected(h, c)]
  <2> SUFFICES ASSUME NEW h \in Nodes, NEW d \in OfHost(m, h)
               PROVE  \E c \in OfHost(sources, h) : d = [c EXCEPT !.delay = Corrected(h, c)]
    OBVIOUS
  <2> DEFINE o == object[h]
  <2>1. o \in DOMAIN m /\ d \in m[o]
    BY DEF OfHost
  <2>2. OfHost(sources, h) = sources[o]
    BY <1>1, <2>1 DEF OfHost
  <2>3. o.alias = h
    BY <1>2
  <2> HIDE DEF o
  <2>4. PICK c \in sources[o] : d = [c EXCEPT !.delay = Corrected(o.alias, c)]
    BY <1>1, <2>1
  <2> QED
    BY <2>2, <2>3, <2>4
<1> QED
  BY <1>1, <1>3 DEF m

\* AccurateNetemHTB measures, then deploys what it measured, or raises.
LEMMA DeployAccurateOK ==
  ASSUME EmulIInv, NEW seen, DeployAccurate(seen)
  PROVE  EmulIInv'
<1>1. /\ UNCHANGED <<service, facts, object, asked, stale, tc, redirect>>
      /\ deploys' = deploys + 1 /\ service = "accurate" /\ sources # <<>>
      /\ \/ /\ sources' = Measured(seen)
            /\ state' = [call |-> "deploy", ok |-> TRUE, todo |-> Aliases(Measured(seen)),
                         of |-> Len(asked)]
         \/ sources' = sources /\ state' = [state EXCEPT !.call = "deploy", !.ok = FALSE]
  BY DEF DeployAccurate, StartCall
<1>2. Typed /\ Len(asked) \in Nat /\ deploys \in Nat /\ deploys' \in Nat /\ deploys' # 0 /\ asked # <<>>
  BY <1>1 DEF EmulIInv, Typed
<1>3. Typed'
  BY <1>1, TypedKept DEF EmulIInv, Typed
<1>4. DOMAIN state' = {"call", "ok", "todo", "of"} /\ state'.of \in 0..Len(asked)
      /\ state'.call = "deploy"
  <2>1. CASE state' = [call |-> "deploy", ok |-> TRUE, todo |-> Aliases(Measured(seen)),
                       of |-> Len(asked)]
    <3>1. Len(asked) \in 0..Len(asked)
      BY <1>2
    <3> QED
      BY <2>1, <3>1
  <2>2. CASE state' = [state EXCEPT !.call = "deploy", !.ok = FALSE]
    BY <2>2 DEF EmulIInv
  <2> QED
    BY <1>1, <2>1, <2>2
<1>5. ASSUME Deployed', deploys' = 1 PROVE Corrects'
  <2>1. deploys = 0 /\ ~stale /\ sources' = Measured(seen)
    <3>1. \A st : st = [state EXCEPT !.call = "deploy", !.ok = FALSE] => ~st.ok
      BY DEF EmulIInv
    <3> QED
      BY <1>1, <1>2, <1>5, <3>1 DEF Deployed
  <2>2. Quiet /\ Matches(sources, asked)
    BY <2>1 DEF EmulIInv
  <2>3. /\ DOMAIN Measured(seen) \subseteq ObjectsOf(Nodes)
        /\ \A h \in Nodes : \A d \in OfHost(Measured(seen), h) :
              \E c \in OfHost(sources, h) : d = [c EXCEPT !.delay = Corrected(h, c)]
    BY <1>2, <2>2, MeasuredOn DEF Matches
  <2>4. \A h \in Nodes : OfHost(sources, h)' = OfHost(Measured(seen), h)
    BY <1>1, <2>1, SameHosts
  <2>5. ASSUME NEW h \in Nodes, NEW d \in OfHost(Measured(seen), h)
        PROVE  Shifted(h, d.dev, d.to, d.delay)
    <3>1. PICK c \in OfHost(sources, h) : d = [c EXCEPT !.delay = Corrected(h, c)]
      BY <2>3
    <3>2. c \in ConstraintSet /\ c.to \in Addresses
      BY <1>1, <1>2, <2>2, OneEach, ConstraintKind
    <3>3. PICK i \in DOMAIN asked : LastAbout(asked, i, h, c.dev, c.to) /\ c.delay = asked[i].delay
      BY <2>2 DEF Matches
    <3>4. Corrected(h, c) = c.delay - Latency
      BY <2>2, <3>2, QuietCorrection
    <3>5. c.delay \in Nat /\ Latency \in Nat
      BY <3>2, EmulationAssumption DEF ConstraintSet
    <3>6. d.dev = c.dev /\ d.to = c.to /\ d.delay = c.delay - Latency
      BY <3>1, <3>2, <3>4 DEF ConstraintSet
    <3>7. d.delay \in Int /\ Latency + d.delay = asked[i].delay
      BY <3>3, <3>5, <3>6
    <3> QED
      BY <3>2, <3>3, <3>6, <3>7 DEF Shifted
  <2>6. \A g \in Nodes : \A dev, to, delay : Shifted(g, dev, to, delay)' <=> Shifted(g, dev, to, delay)
    BY <1>1, SameHosts DEF Shifted
  <2>7. \A h \in Nodes : \A dev \in Devices : tc'[h][dev].rules = {}
    BY <1>1, <2>2 DEF Quiet, NoRoot, AllDevices
  <2>8. DOMAIN sources' \subseteq ObjectsOf(Nodes)'
    BY <1>1, <2>1, <2>3, SameHosts
  <2>9. \A g \in Nodes : \A c \in OfHost(sources, g)' : Shifted(g, c.dev, c.to, c.delay)
    BY <2>4, <2>5
  <2> QED
    BY <2>6, <2>7, <2>8, <2>9 DEF Corrects
<1> QED
  BY <1>1, <1>2, <1>3, <1>4, <1>5 DEF EmulIInv

\* Every step preserves the invariant.
LEMMA EmulStepOK == EmulIInv /\ [EmulNext]_emulVars => EmulIInv'
<1> SUFFICES ASSUME EmulIInv, [EmulNext]_emulVars PROVE EmulIInv'
  OBVIOUS
<1>1. ASSUME ~Busy, NEW h \in Nodes, NEW networks \in Resynced, Resync(h, networks) PROVE EmulIInv'
  BY <1>1, ResyncOK
<1>2. ASSUME ~Busy, NEW r \in Request(Len(asked) + 1), AddConstraints(r) PROVE EmulIInv'
  BY <1>2, AddConstraintsOK
<1>3. ASSUME ~Busy, NEW r \in Request(2), FromDict(r) PROVE EmulIInv'
  BY <1>3, FromDictOK
<1>4. ASSUME NEW h \in Nodes, Enforce(h) PROVE EmulIInv'
  BY <1>4, EnforceOK
<1>5. ASSUME NEW h \in Nodes, Lost(h) PROVE EmulIInv'
  BY <1>5, LostOK
<1>6. ASSUME NEW h \in Nodes, Reset(h) PROVE EmulIInv'
  BY <1>6, ResetOK
<1>7. CASE Deploy
  BY <1>7, DeployOK
<1>8. CASE Destroy
  BY <1>8, DestroyOK
<1>9. ASSUME NEW seen, DeployAccurate(seen) PROVE EmulIInv'
  BY <1>9, DeployAccurateOK
<1>10. CASE UNCHANGED emulVars
  <2>1. UNCHANGED <<service, facts, object, sources, asked, stale, tc, redirect, state, deploys>>
    BY <1>10 DEF emulVars
  <2>2. Typed'
    BY <2>1, TypedKept DEF EmulIInv, Typed
  <2>3. Matches(sources, asked) => Matches(sources, asked)'
    BY <2>1, MatchesKept
  <2>4. Traces => Traces'
    BY <2>1, TracesKept
  <2>5. Quiet' = Quiet /\ Dirty' = Dirty /\ Aliases(sources)' = Aliases(sources)
        /\ Deployed' = Deployed
    BY <2>1 DEF Quiet, Dirty, Aliases, Deployed
  <2>6. \A g \in Nodes : Enforced(g)' <=> Enforced(g)
    BY <2>1, SameHosts DEF Enforced
  <2>7. Corrects' <=> Corrects
    <3>1. \A g \in Nodes : \A dev, to, delay : Shifted(g, dev, to, delay)' <=> Shifted(g, dev, to, delay)
      BY <2>1, SameHosts DEF Shifted
    <3>2. \A g \in Nodes : OfHost(sources, g)' = OfHost(sources, g)
      BY <2>1, SameHosts
    <3>3. DOMAIN sources' \subseteq ObjectsOf(Nodes)' <=> DOMAIN sources \subseteq ObjectsOf(Nodes)
      BY <2>1, SameHosts
    <3> QED
      BY <2>1, <3>1, <3>2, <3>3 DEF Corrects
  <2> QED
    BY <2>1, <2>2, <2>3, <2>4, <2>5, <2>6, <2>7 DEF EmulIInv
<1> QED
  BY <1>1, <1>2, <1>3, <1>4, <1>5, <1>6, <1>7, <1>8, <1>9, <1>10 DEF EmulNext

\* A run of the parts is a run of the emulation.
LEMMA EmulationRun == Spec => EmulSpec
<1>1. Init => EmulInit
  BY DEF Init
<1>2. [Next]_vars => [EmulNext]_emulVars
  BY DEF Next, vars, machineVars
<1> QED
  BY <1>1, <1>2, PTL DEF Spec, EmulSpec

\* The invariant holds.
LEMMA EmulationHolds == EmulSpec => []EmulIInv
  BY EmulInitOK, EmulStepOK, PTL DEF EmulSpec

\* Whatever requests overlap, are symmetric, come from a dictionary or were
\* deployed before, and whatever was lost in between: after a deploy that
\* returns, each device delays the packets for each address, or going out and
\* coming in, by what the last request about it said; with AccurateNetemHTB it
\* is the latency from end to end (Netem, NetemHTB and AccurateNetemHTB,
\* add_constraints and deploy).
THEOREM EmulationIsAsAsked == Spec => []EmulatedAsAsked
<1>1. EmulIInv => EmulatedAsAsked
  BY EmulImplies
<1> QED
  BY <1>1, EmulationRun, EmulationHolds, PTL

\* A destroy that returns leaves nothing emulated, also by deploys that failed
\* half-way (_destroy, _combine).
THEOREM EmulationIsReset == EmulSpec => []ResetCleans
<1>1. EmulIInv => ResetCleans
  BY EmulImplies
<1> QED
  BY <1>1, EmulationHolds, PTL

-----------------------------------------------------------------------------
(* What a planning leaves *)

\* The places where the events of the planning are.
Theirs == {<<e.host, e.group>> : e \in Events}
StartAt(pl) == [host |-> pl[1], group |-> pl[2], do |-> "start"]

\* Entries of the planning are those of its events, and the others kill; there is
\* none of the planning once it was destroyed, and jobs of theirs that still sleep
\* are known as late.
OutIInv ==
    /\ now \in Nat
    /\ \A h \in Workers : \A c \in crontab[h] :
          \/ c.by # "planning" /\ c.do = "kill"
          \/ since # 0 /\ \E e \in Events : e.host = h /\ c = Planned(e)
    /\ \A job \in sleeping : job.do = "start" =>
          <<job.host, job.group>> \in Theirs /\ (since = 0 => StartAt(<<job.host, job.group>>) \in late)
    /\ Alive \subseteq Theirs
    /\ since = 0 /\ renamed = {} => \A pl \in Alive :
          /\ doing = "nothing" => StartAt(pl) \in late
          /\ doing = "kill" => pl \in Recorded(registry) \/ StartAt(pl) \in late

\* The events of a planning are on hosts, in groups.
LEMMA EventsAre ==
  ASSUME PlanIInv
  PROVE  /\ \A e \in Events : e \in Event /\ e.host \in Workers /\ e.group \in Groups
         /\ Hosts \in SUBSET Workers /\ StatusNames \in SUBSET Groups
         /\ \A pl \in Theirs : pl \in Hosts \X StatusNames /\ pl \in Places
<1>1. events \in Seq(Event)
  BY PlanningAssumption DEF PlanIInv
<1>2. \A i \in DOMAIN events : events[i] \in Event
  BY <1>1
<1>3. \A e \in Event : e.host \in Workers /\ e.group \in Groups
  BY DEF Event
<1>4. \A e \in Events : e \in Event /\ e.host \in Workers /\ e.group \in Groups
  BY <1>2, <1>3 DEF Events
<1> QED
  BY <1>4 DEF Hosts, StatusNames, Names, Theirs, Places

\* What a planning deploys on a host are its events there.
LEMMA EntriesAre ==
  ASSUME NEW h
  PROVE  \A c \in EntriesOf(h) : \E e \in Events : e.host = h /\ c = Planned(e)
  BY DEF EntriesOf, Events

\* What is put in a crontab is there, with entries that were there.
LEMMA PutIs ==
  ASSUME NEW tab, NEW new
  PROVE  Put(tab, new) \subseteq tab \cup new
  BY DEF Put

\* Nothing runs after a stop that did not run before, nor where it was stopped.
LEMMA StopIs ==
  ASSUME RegTypeOK, NEW places, Stop(places)
  PROVE  Alive' \subseteq Alive \ places
<1> SUFFICES ASSUME NEW pl \in Alive' PROVE pl \in Alive \ places
  OBVIOUS
<1>1. pl \in Places /\ pl = <<pl[1], pl[2]>> /\ pl[1] \in Workers /\ pl[2] \in Groups
      /\ cgroup'[pl[1]][pl[2]] = "alive"
  BY DEF Alive, Places
<1> QED
  BY <1>1 DEF Stop, Stopped, Alive

LEMMA OutStepOK == PlanIInv /\ OutIInv /\ [PlanNext]_allVars => OutIInv'
<1> SUFFICES ASSUME PlanIInv, OutIInv, [PlanNext]_allVars PROVE OutIInv'
  OBVIOUS
<1>0. RegTypeOK
  BY DEF PlanIInv, RegIInv
<1>1. CASE Tick
  <2>1. /\ UNCHANGED <<registryVars, events, crontab, doing, since, late>> /\ now' = now + 1
        /\ \A job \in sleeping' : \E h \in Workers : \E c \in crontab[h] :
              job = [host |-> h, group |-> c.group, do |-> c.do]
    BY <1>1 DEF Tick
  <2>2. ASSUME NEW job \in sleeping', job.do = "start"
        PROVE  <<job.host, job.group>> \in Theirs /\ since # 0
    <3>0. PICK h \in Workers :
            \E c \in crontab[h] : job = [host |-> h, group |-> c.group, do |-> c.do]
      BY <2>1
    <3>1. PICK c \in crontab[h] : job = [host |-> h, group |-> c.group, do |-> c.do]
      BY <3>0
    <3>2. c.do = "start" /\ job.host = h /\ job.group = c.group
      BY <2>2, <3>1
    <3>3. since # 0 /\ \E e \in Events : e.host = h /\ c = Planned(e)
      BY <3>2 DEF OutIInv
    <3>4. \A e : Planned(e).group = e.group
      BY DEF Planned
    <3> QED
      BY <3>2, <3>3, <3>4 DEF Theirs
  <2>3. Theirs' = Theirs /\ Events' = Events /\ Alive' = Alive
    BY <2>1 DEF Theirs, Events, Alive, registryVars
  <2> QED
    BY <2>1, <2>2, <2>3 DEF OutIInv, registryVars
<1>2. CASE DeployPlanning
  <2>1. /\ UNCHANGED <<registryVars, now, events, sleeping, doing>> /\ since' = now + 1
        /\ \A h \in Workers : crontab'[h] \subseteq crontab[h] \cup EntriesOf(h)
    BY <1>2, PutIs DEF DeployPlanning
  <2>2. Theirs' = Theirs /\ Events' = Events /\ Alive' = Alive
    BY <2>1 DEF Theirs, Events, Alive, registryVars
  <2>3. since' # 0
    BY <2>1 DEF OutIInv
  <2>4. \A h \in Workers : \A c \in crontab'[h] :
           (c.by # "planning" /\ c.do = "kill") \/ \E e \in Events : e.host = h /\ c = Planned(e)
    BY <2>1, EntriesAre DEF OutIInv
  <2> QED
    BY <2>1, <2>2, <2>3, <2>4 DEF OutIInv, registryVars
<1>3. CASE RemoveEntries
  <2>1. /\ UNCHANGED <<registryVars, now, events, sleeping>> /\ since' = 0 /\ doing' = "status"
        /\ late' = sleeping
        /\ \A h \in Workers : crontab'[h] =
              {c \in crontab[h] : \A e \in Events : e.host = h => EntryName(c) # EntryName(Planned(e))}
    BY <1>3 DEF RemoveEntries
  <2>2. Theirs' = Theirs /\ Events' = Events /\ Alive' = Alive
    BY <2>1 DEF Theirs, Events, Alive, registryVars
  <2>3. \A h \in Workers : \A c \in crontab'[h] : c.by # "planning" /\ c.do = "kill"
    BY <2>1 DEF OutIInv
  <2>4. \A job \in sleeping : job.do = "start" => StartAt(<<job.host, job.group>>) = job
    BY DEF PlanIInv, StartAt
  <2> QED
    BY <2>1, <2>2, <2>3, <2>4 DEF OutIInv, registryVars
<1>4. CASE KillRegistry
  <2>1. /\ UNCHANGED <<renamed, registry, now, events, crontab, sleeping, since, late>>
        /\ doing = "kill" /\ doing' = "nothing" /\ Stop(Recorded(registry))
    BY <1>4 DEF KillRegistry
  <2>2. Alive' \subseteq Alive \ Recorded(registry)
    BY <1>0, <2>1, StopIs
  <2>3. Theirs' = Theirs /\ Events' = Events
    BY <2>1 DEF Theirs, Events
  <2> QED
    BY <2>1, <2>2, <2>3 DEF OutIInv
<1>5. CASE KillAsync
  <2>1. /\ UNCHANGED <<registryVars, now, events, sleeping, since>>
        /\ late' = late \cup [host : Workers, group : Groups, do : {"start"}]
        /\ \A h \in Workers : \A c \in crontab'[h] :
              c \in crontab[h] \/ (c.by = "registry" /\ c.do = "kill")
    <3>1. \A g : KillEntry(g, now + 2, "registry").by = "registry"
                 /\ KillEntry(g, now + 2, "registry").do = "kill"
      BY DEF KillEntry
    <3>2. \A h \in Workers : crontab'[h] = crontab[h] \cup
             {KillEntry(g, now + 2, "registry") : g \in {g \in Groups : <<h, g>> \in Recorded(registry)}}
      BY <1>5 DEF KillAsync
    <3>3. UNCHANGED <<registryVars, now, events, sleeping, since>>
          /\ late' = late \cup [host : Workers, group : Groups, do : {"start"}]
      BY <1>5 DEF KillAsync
    <3>4. ASSUME NEW h \in Workers, NEW c \in crontab'[h]
          PROVE  c \in crontab[h] \/ (c.by = "registry" /\ c.do = "kill")
      <4> SUFFICES ASSUME c \notin crontab[h]
                   PROVE  c.by = "registry" /\ c.do = "kill"
        OBVIOUS
      <4>1. PICK g : c = KillEntry(g, now + 2, "registry")
        BY <3>2
      <4> QED
        BY <3>1, <4>1
    <3> QED
      BY <3>3, <3>4
  <2>2. Theirs' = Theirs /\ Events' = Events /\ Alive' = Alive
    BY <2>1 DEF Theirs, Events, Alive, registryVars
  <2>3. \A h \in Workers : \A c \in crontab'[h] :
           \/ c.by # "planning" /\ c.do = "kill"
           \/ since # 0 /\ \E e \in Events : e.host = h /\ c = Planned(e)
    BY <2>1 DEF OutIInv
  <2>4. \A pl \in Alive : StartAt(pl) \in late'
    BY <2>1, EventsAre DEF OutIInv, StartAt, Places
  <2> QED
    BY <2>1, <2>2, <2>3, <2>4 DEF OutIInv, registryVars
<1>6. ASSUME NEW job \in sleeping, Wake(job) PROVE OutIInv'
  <2>1. /\ UNCHANGED <<renamed, registry, now, events, crontab, doing, since, late>>
        /\ sleeping' \subseteq sleeping
    BY <1>6 DEF Wake
  <2>2. Theirs' = Theirs /\ Events' = Events
    BY <2>1 DEF Theirs, Events
  <2>3. job.host \in Workers /\ job.group \in Groups
    BY DEF PlanIInv
  <2>4. CASE job.do = "start" /\ Run(job.host, job.group)
    <3>1. Alive' \subseteq Alive \cup {<<job.host, job.group>>}
      <4> SUFFICES ASSUME NEW pl \in Alive', pl # <<job.host, job.group>> PROVE pl \in Alive
        OBVIOUS
      <4>1. pl \in Places /\ pl = <<pl[1], pl[2]>> /\ pl[1] \in Workers /\ pl[2] \in Groups
            /\ cgroup'[pl[1]][pl[2]] = "alive"
        BY DEF Alive, Places
      <4>2. cgroup'[pl[1]][pl[2]] = cgroup[pl[1]][pl[2]]
        BY <1>0, <2>3, <2>4, <4>1 DEF Run, RegTypeOK
      <4> QED
        BY <4>1, <4>2 DEF Alive
    <3> QED
      BY <2>1, <2>2, <2>4, <3>1 DEF OutIInv
  <2>5. CASE Stop({<<job.host, job.group>>}) \/ UNCHANGED cgroup
    <3>1. Alive' \subseteq Alive
      <4>1. Stop({<<job.host, job.group>>}) => Alive' \subseteq Alive \ {<<job.host, job.group>>}
        BY <1>0, StopIs
      <4> QED
        BY <2>5, <4>1 DEF Alive
    <3> QED
      BY <2>1, <2>2, <3>1 DEF OutIInv
  <2> QED
    BY <1>6, <2>4, <2>5 DEF Wake
<1>7. ASSUME NEW wait \in BOOLEAN, Status(wait) PROVE OutIInv'
  <2>1. UNCHANGED <<renamed, cgroup, now, events, crontab, sleeping, since>>
    BY <1>7 DEF Status
  <2>2. Theirs' = Theirs /\ Events' = Events /\ Alive' = Alive
    BY <2>1 DEF Theirs, Events, Alive
  <2>3. PICK order \in Orders(Hosts, StatusNames) :
          IF Raises(order)
          THEN /\ doing' = "nothing"
               /\ late' = late \cup [host : Workers, group : Groups, do : {"start"}]
          ELSE /\ registry' = Built(order, StatusNames)
               /\ doing' \in {"kill", "kill_async"} /\ UNCHANGED late
    BY <1>7 DEF Status
  <2>4. CASE Raises(order)
    <3>1. \A pl \in Alive : StartAt(pl) \in late'
      BY <2>3, <2>4, EventsAre DEF OutIInv, StartAt, Places
    <3> QED
      BY <2>1, <2>2, <2>3, <2>4, <3>1 DEF OutIInv
  <2>5. CASE ~Raises(order)
    <3>1. ASSUME renamed = {} PROVE Alive \subseteq Recorded(registry')
      <4>1. Recorded(registry') = Present(Hosts, StatusNames)
        <5>1. Hosts \in SUBSET Workers /\ StatusNames \in SUBSET Groups
          BY EventsAre
        <5> HIDE DEF Hosts, StatusNames
        <5> QED
          BY <1>0, <2>3, <2>5, <3>1, <5>1, BuiltIs
      <4>2. \A pl \in Alive : pl \in Hosts \X StatusNames /\ cgroup[pl[1]][pl[2]] = "alive"
        BY EventsAre DEF OutIInv, Alive
      <4> QED
        BY <4>1, <4>2 DEF Present
    <3>2. Recorded(registry)' = Recorded(registry')
      BY DEF Recorded
    <3> QED
      BY <2>1, <2>2, <2>3, <2>5, <3>1, <3>2 DEF OutIInv
  <2> QED
    BY <2>4, <2>5
<1>8. ASSUME NEW n \in 1..2, NEW interval \in 0..1, KillAsyncIncr(n, interval) PROVE OutIInv'
  <2>1. /\ UNCHANGED <<registryVars, now, events, sleeping, since, doing, late>>
        /\ \E order \in AtRandom(n) : crontab' = [h \in Workers |->
              Put(crontab[h], {KillAt(order[k], now + 2 + (k - 1) * interval) :
                                  k \in {k \in DOMAIN order : order[k].host = h}})]
    BY <1>8 DEF KillAsyncIncr
  <2>2. Theirs' = Theirs /\ Events' = Events /\ Alive' = Alive
    BY <2>1 DEF Theirs, Events, Alive, registryVars
  <2>3. \A h \in Workers : \A c \in crontab'[h] :
           c \in crontab[h] \/ (c.by = "process" /\ c.do = "kill")
    BY <2>1 DEF Put, KillAt, KillEntry
  <2>4. \A h \in Workers : \A c \in crontab'[h] :
           \/ c.by # "planning" /\ c.do = "kill"
           \/ since # 0 /\ \E e \in Events : e.host = h /\ c = Planned(e)
    BY <2>3 DEF OutIInv
  <2> QED
    BY <2>1, <2>2, <2>4 DEF OutIInv, registryVars
<1>9. ASSUME NEW h \in Workers, NEW g \in Groups, ProcessEnds(h, g), UNCHANGED planVars PROVE OutIInv'
  <2>1. Alive' \subseteq Alive /\ UNCHANGED <<renamed, registry>>
    BY <1>0, <1>9, StopIs DEF ProcessEnds
  <2>2. UNCHANGED <<now, events, crontab, sleeping, since, doing, late>>
    BY <1>9 DEF planVars
  <2>3. Theirs' = Theirs /\ Events' = Events
    BY <2>2 DEF Theirs, Events
  <2> QED
    BY <2>1, <2>2, <2>3 DEF OutIInv
<1>10. CASE UNCHANGED allVars
  <2>1. UNCHANGED <<renamed, cgroup, registry, now, events, crontab, sleeping, since, doing, late>>
    BY <1>10 DEF allVars, registryVars, planVars
  <2>2. Theirs' = Theirs /\ Events' = Events /\ Alive' = Alive
    BY <2>1 DEF Theirs, Events, Alive
  <2> QED
    BY <2>1, <2>2 DEF OutIInv
<1> QED
  BY <1>1, <1>2, <1>3, <1>4, <1>5, <1>6, <1>7, <1>8, <1>9, <1>10 DEF PlanNext

\* In the other parts no planning is deployed.
LEMMA PlanningRun ==
  Spec => [](PlanIInv /\ (part = "planning" => OutIInv) /\ (part # "planning" => calls = 0))
<1> DEFINE J == PlanIInv /\ (part = "planning" => OutIInv) /\ (part # "planning" => calls = 0)
<1>1. Init => J
  <2> SUFFICES ASSUME Init PROVE J
    OBVIOUS
  <2>1. PlanInit
    BY DEF Init
  <2>2. PlanIInv
    BY <2>1, RegInitOK DEF PlanInit, PlanIInv
  <2>3. OutIInv
    BY <2>1 DEF PlanInit, RegInit, OutIInv, Alive, Places
  <2> QED
    BY <2>1, <2>2, <2>3 DEF PlanInit
<1>2. J /\ [Next]_vars => J'
  <2> SUFFICES ASSUME J, [Next]_vars PROVE J'
    OBVIOUS
  <2>1. [RegistryOrPlanning]_allVars
    BY DEF Next, vars, RegistryOrPlanning, machineVars
  <2>2. PlanIInv'
    BY <2>1, PlanStepOK
  <2>3. part' = part /\ (part = "planning" => [PlanNext]_allVars)
        /\ (part # "planning" => UNCHANGED calls)
    BY DEF Next, vars, machineVars, allVars, planVars
  <2>4. part = "planning" => OutIInv'
    BY <2>3, OutStepOK
  <2> QED
    BY <2>2, <2>3, <2>4
<1> QED
  BY <1>1, <1>2, PTL DEF Spec

\* A destroy that waits leaves no entry of the planning in a crontab, and nothing of
\* it runs then or later but for what cron had started and slept while the entries were
\* removed (PlanningService.destroy).
THEOREM PlanningLeavesNothing == Spec => []NothingOutlives
<1>1. PlanIInv /\ OutIInv => NothingOutlives
  BY DEF OutIInv, NothingOutlives, StartAt
<1>2. calls = 0 => NothingOutlives
  BY DEF NothingOutlives
<1>3. PlanIInv /\ (part = "planning" => OutIInv) /\ (part # "planning" => calls = 0)
      => NothingOutlives
  BY <1>1, <1>2
<1> QED
  BY <1>3, PlanningRun, PTL

-----------------------------------------------------------------------------
(* What a planning does *)

\* What PlanFollowed asks of a planning, and of when it is deployed.
Promised ==
    /\ since # 0 /\ Checked /\ DistinctDates
    /\ \A e \in Events : since <= e.at /\ Day(since - 1) = Day(e.at)
    /\ Day(now) = Day(since - 1)
    /\ \A f \in fired : since <= f.when

\* The last event of a group on a host starts it.
ToRun(pl) ==
    \E e \in Events :
       /\ <<e.host, e.group>> = pl /\ e.do = "start" /\ e.at <= now
       /\ \A f \in Events : <<f.host, f.group>> = pl => f.at <= e.at \/ f.at > now
StopOf(pl) == [host |-> pl[1], group |-> pl[2], do |-> "kill"]

\* Nothing runs that cron has not started; the entries of all the events are there; what
\* sleeps is due now, and what runs is to run or about to be stopped.
FolIInv ==
    /\ since \in 0..(now + 1) /\ \A f \in fired : f.when \in 0..now
    /\ fired = {} => Alive = {} /\ sleeping = {}
    /\ since # 0 /\ DistinctDates => \A e \in Events : Planned(e) \in crontab[e.host]
    /\ Promised => \A job \in sleeping : job.do = "start" =>
          \E e \in Events : e.host = job.host /\ e.group = job.group /\ e.do = "start" /\ e.at = now
    /\ Promised => \A pl \in Alive : ToRun(pl) \/ StopOf(pl) \in sleeping

\* A minute is known by its day and by its place in the day.
LEMMA SameMinute ==
  ASSUME NEW t \in Nat, NEW at \in Nat, t % DayLength = at % DayLength, Day(t) = Day(at)
  PROVE  t = at
<1>1. DayLength \in Nat \ {0}
  BY PlanningAssumption
<1>2. t = DayLength * (t \div DayLength) + (t % DayLength)
  BY <1>1
<1>3. at = DayLength * (at \div DayLength) + (at % DayLength)
  BY <1>1
<1> QED
  BY <1>2, <1>3 DEF Day

\* Days follow each other.
LEMMA DaysFollow ==
  ASSUME NEW s \in Nat, NEW t \in Nat, s <= t
  PROVE  Day(s) \in Nat /\ Day(s) <= Day(t)
<1> DEFINE L == DayLength
           a == s \div L
           b == t \div L
<1>1. L \in Nat \ {0}
  BY PlanningAssumption
<1>2. a \in Nat /\ b \in Nat /\ s = L * a + (s % L) /\ t = L * b + (t % L)
      /\ s % L \in 0..(L - 1) /\ t % L \in 0..(L - 1)
  BY <1>1
<1> DEFINE x == s % L
           y == t % L
<1> HIDE DEF a, b, x, y
<1>3. CASE a > b
  <2> DEFINE d == a - b - 1
  <2>1. d \in Nat /\ a = b + 1 + d
    BY <1>2, <1>3
  <2> HIDE DEF d
  <2>2. L * a = L * b + L + L * d /\ L * d \in Nat /\ L * b \in Nat /\ L * a \in Nat
    BY <1>1, <1>2, <2>1
  <2> QED
    BY <1>1, <1>2, <2>2 DEF x, y
<1> QED
  BY <1>2, <1>3 DEF Day, a, b

LEMMA DayBetween ==
  ASSUME NEW s \in Nat, NEW t \in Nat, NEW u \in Nat, s <= t, t <= u, Day(u) = Day(s)
  PROVE  Day(t) = Day(s)
<1>1. Day(s) \in Nat /\ Day(t) \in Nat /\ Day(s) <= Day(t) /\ Day(t) <= Day(u)
  BY DaysFollow
<1> QED
  BY <1>1

\* What is put in a crontab is there, and entries with other names stay.
LEMMA PutHas ==
  ASSUME NEW tab, NEW new
  PROVE  /\ new \subseteq Put(tab, new)
         /\ \A c \in tab : (\A e \in new : EntryName(c) # EntryName(e)) => c \in Put(tab, new)
  BY DEF Put

\* With dates that differ, every event has its entry.
LEMMA AllDeployed ==
  ASSUME PlanIInv, DistinctDates, NEW e \in Events
  PROVE  Planned(e) \in EntriesOf(e.host)
<1>1. PICK i \in DOMAIN events : e = events[i]
  BY DEF Events
<1> DEFINE own == {j \in DOMAIN events : events[j].host = e.host}
           name(j) == EntryName(Planned(events[j]))
<1>2. ASSUME NEW j \in own, j # i
      PROVE  name(j) # name(i)
  <2>1. \/ events[j].host # events[i].host \/ events[j].group # events[i].group
        \/ events[j].at # events[i].at
    BY <1>1, <1>2 DEF DistinctDates
  <2> QED
    BY <1>1, <1>2, <2>1 DEF EntryName, Planned
<1>3. DOMAIN events \subseteq Nat
  BY PlanningAssumption DEF PlanIInv
<1>4. \A j \in own : j > i => name(j) # name(i)
  <2> HIDE DEF name
  <2> QED
    BY <1>1, <1>2, <1>3
<1>5. i \in own
  BY <1>1
<1> QED
  BY <1>1, <1>4, <1>5 DEF EntriesOf

LEMMA ActionsAre ==
  ASSUME Checked, NEW e \in Events
  PROVE  e.do \in {"start", "kill"}
  BY DEF Checked, Events

\* Steps that leave the planning and the clock alone, where nothing more runs.
LEMMA FollowedStay ==
  ASSUME FolIInv, UNCHANGED <<now, events, sleeping, fired, since>>, Alive' \subseteq Alive,
         since # 0 => \A h \in Workers : \A c \in crontab[h] : c.by = "planning" => c \in crontab'[h],
         PlanIInv
  PROVE  FolIInv'
<1>1. /\ Events' = Events /\ (Promised' <=> Promised) /\ (DistinctDates' <=> DistinctDates)
      /\ \A pl : ToRun(pl)' <=> ToRun(pl)
  BY DEF Events, Promised, DistinctDates, Checked, PlaceOf, ToRun
<1>2. \A e : Planned(e)' = Planned(e) /\ Planned(e).by = "planning"
  BY DEF Planned
<1>3. \A e \in Events : e.host \in Workers
  BY EventsAre
<1>4. since # 0 /\ DistinctDates => \A e \in Events : Planned(e) \in crontab'[e.host]
  BY <1>2, <1>3 DEF FolIInv
<1> QED
  BY <1>1, <1>2, <1>4 DEF FolIInv

LEMMA FolStepOK == PlanIInv /\ OutIInv /\ FolIInv /\ [PlanNext]_allVars => FolIInv'
<1> SUFFICES ASSUME PlanIInv, OutIInv, FolIInv, [PlanNext]_allVars PROVE FolIInv'
  OBVIOUS
<1>0. RegTypeOK /\ now \in Nat
  BY DEF PlanIInv, RegIInv, OutIInv
<1>A. UNCHANGED cgroup => Alive' = Alive
  BY DEF Alive
<1>E. UNCHANGED events => /\ Events' = Events /\ (Checked' <=> Checked) /\ (DistinctDates' <=> DistinctDates)
  BY DEF Events, DistinctDates, Checked, PlaceOf
<1>H. \A e \in Events : e \in Event /\ e.host \in Workers /\ e.group \in Groups
  BY EventsAre
<1>P. \A e : Planned(e)' = Planned(e) /\ Planned(e).by = "planning" /\ Planned(e).at = e.at
             /\ Planned(e).group = e.group /\ Planned(e).do = e.do
  BY DEF Planned
<1>1. CASE Tick
  <2> DEFINE due == {d \in Workers \X Entry : d[2] \in crontab[d[1]] /\ Fires(now + 1, d[2].at)}
  <2>1. /\ UNCHANGED <<cgroup, events, crontab, since>> /\ now' = now + 1 /\ sleeping = {}
        /\ sleeping' = {[host |-> d[1], group |-> d[2].group, do |-> d[2].do] : d \in due}
        /\ fired' = fired \cup {[host |-> d[1], entry |-> d[2], when |-> now + 1] : d \in due}
    BY <1>1 DEF Tick, registryVars
  <2>2. \A d \in due : d[1] \in Workers /\ d[2] \in crontab[d[1]] /\ Fires(now + 1, d[2].at)
    OBVIOUS
  <2>3. ASSUME NEW h \in Workers, NEW c \in crontab[h], c \in Entry, Fires(now + 1, c.at)
        PROVE  [host |-> h, group |-> c.group, do |-> c.do] \in sleeping'
    <3>1. <<h, c>> \in due
      BY <2>3
    <3> HIDE DEF due
    <3> QED
      BY <2>1, <3>1
  <2> HIDE DEF due
  <2>4. fired' = {} => sleeping' = {} /\ Alive' = {}
    BY <1>A, <2>1 DEF FolIInv
  <2>5. since' \in 0..(now' + 1) /\ \A f \in fired' : f.when \in 0..now'
    BY <1>0, <2>1 DEF FolIInv
  <2>6. since' # 0 /\ DistinctDates' => \A e \in Events' : Planned(e)' \in crontab'[e.host]
    BY <1>E, <1>P, <2>1 DEF FolIInv
  <2>7. ASSUME Promised'
        PROVE  /\ Promised /\ since \in Nat \ {0} /\ now + 1 \in Nat
               /\ \A e \in Events : Day(now + 1) = Day(e.at)
    <3>1. /\ since # 0 /\ Checked /\ DistinctDates
          /\ \A e \in Events : since <= e.at /\ Day(since - 1) = Day(e.at)
          /\ Day(now + 1) = Day(since - 1) /\ \A f \in fired : since <= f.when
      BY <1>E, <2>1, <2>7 DEF Promised, Day
    <3>2. since - 1 \in Nat /\ since - 1 <= now /\ now <= now + 1 /\ now + 1 \in Nat /\ since \in Nat \ {0}
      BY <1>0, <3>1 DEF FolIInv
    <3>3. Day(now) = Day(since - 1)
      BY <1>0, <3>1, <3>2, DayBetween
    <3> QED
      BY <3>1, <3>2, <3>3 DEF Promised
  <2>8. ASSUME Promised', NEW job \in sleeping', job.do = "start"
        PROVE  \E e \in Events' : e.host = job.host /\ e.group = job.group /\ e.do = "start" /\ e.at = now'
    <3>1. PICK d \in due : job = [host |-> d[1], group |-> d[2].group, do |-> d[2].do]
      BY <2>1, <2>8
    <3>2. d[1] \in Workers /\ d[2] \in crontab[d[1]] /\ Fires(now + 1, d[2].at)
      BY <2>2
    <3>3. d[2].do = "start" /\ job.host = d[1] /\ job.group = d[2].group
      BY <2>8, <3>1
    <3>4. PICK e \in Events : e.host = d[1] /\ d[2] = Planned(e)
      BY <3>2, <3>3 DEF OutIInv
    <3>5. e.at \in Nat /\ e.do = "start" /\ e.group = job.group /\ e.host = job.host /\ Fires(now + 1, e.at)
      BY <1>H, <1>P, <3>2, <3>3, <3>4 DEF Event
    <3>6. now + 1 = e.at
      BY <1>0, <2>7, <2>8, <3>5, SameMinute DEF Fires
    <3> QED
      BY <1>E, <2>1, <3>5, <3>6
  <2>9. ASSUME Promised', NEW pl \in Alive', ~ToRun(pl)'
        PROVE  StopOf(pl) \in sleeping'
    <3>1. pl \in Alive /\ ToRun(pl)
      BY <1>A, <2>1, <2>7, <2>9 DEF FolIInv
    <3>2. PICK e \in Events : /\ <<e.host, e.group>> = pl /\ e.do = "start" /\ e.at <= now
                              /\ \A f \in Events : <<f.host, f.group>> = pl => f.at <= e.at \/ f.at > now
      BY <3>1 DEF ToRun
    <3>3. \A f \in Events : f.at \in Nat
      BY <1>H DEF Event
    <3>4. PICK f \in Events : <<f.host, f.group>> = pl /\ f.at = now + 1
      <4>1. e.at <= now + 1
        BY <1>0, <3>2, <3>3
      <4>2. ~\A f \in Events : <<f.host, f.group>> = pl => f.at <= e.at \/ f.at > now + 1
        BY <1>E, <2>1, <2>9, <3>2, <4>1 DEF ToRun
      <4> QED
        BY <1>0, <3>2, <3>3, <4>2
    <3>5. f.do # "start"
      <4>1. \A x \in Events : x.at <= f.at \/ x.at > now + 1
        BY <1>0, <3>3, <3>4
      <4>2. f.at <= now + 1
        BY <1>0, <3>4
      <4> QED
        BY <1>E, <2>1, <2>9, <3>4, <4>1, <4>2 DEF ToRun
    <3>6. f.do = "kill"
      BY <2>7, <2>9, <3>5, ActionsAre DEF Promised
    <3>7. Planned(f) \in crontab[f.host] /\ f.host \in Workers
      BY <1>H, <2>7, <2>9 DEF FolIInv, Promised
    <3>8. Planned(f) \in Entry
      <4>1. f.at \in 1..MaxTime /\ f.group \in Groups /\ f.do \in Actions /\ MaxTime \in Nat
        BY <1>H, PlanningAssumption DEF Event
      <4> QED
        BY <4>1 DEF Planned, Entry
    <3>9. Fires(now + 1, Planned(f).at)
      BY <1>P, <3>4 DEF Fires
    <3>10. StopOf(pl) = [host |-> f.host, group |-> Planned(f).group, do |-> Planned(f).do]
      BY <1>P, <3>4, <3>6 DEF StopOf
    <3> QED
      BY <2>3, <3>7, <3>8, <3>9, <3>10
  <2>10. \A pl : StopOf(pl)' = StopOf(pl)
    BY DEF StopOf
  <2> QED
    BY <2>4, <2>5, <2>6, <2>8, <2>9, <2>10 DEF FolIInv
<1>2. CASE DeployPlanning
  <2>1. /\ UNCHANGED <<cgroup, now, events, sleeping, fired>> /\ since' = now + 1
        /\ crontab' = [h \in Workers |-> Put(crontab[h], EntriesOf(h))]
    BY <1>2 DEF DeployPlanning, registryVars
  <2>2. ASSUME DistinctDates, NEW e \in Events PROVE Planned(e) \in crontab'[e.host]
    BY <1>H, <2>1, <2>2, AllDeployed, PutHas
  <2>3. Promised' => fired = {}
    <3>1. Promised' => \A f \in fired : now + 1 <= f.when
      BY <2>1 DEF Promised
    <3>2. \A f \in fired : f.when \in 0..now
      BY DEF FolIInv
    <3> QED
      BY <1>0, <3>1, <3>2
  <2>4. since' \in 0..(now' + 1)
    BY <1>0, <2>1
  <2>5. /\ \A f \in fired' : f.when \in 0..now'
        /\ fired' = {} => Alive' = {} /\ sleeping' = {}
    BY <1>A, <2>1 DEF FolIInv
  <2>6. since' # 0 /\ DistinctDates' => \A e \in Events' : Planned(e)' \in crontab'[e.host]
    BY <1>E, <1>P, <2>1, <2>2
  <2>7. Promised' => Alive' = {} /\ sleeping' = {}
    BY <2>1, <2>3, <2>5
  <2> QED
    BY <2>4, <2>5, <2>6, <2>7 DEF FolIInv
<1>3. CASE RemoveEntries
  <2>1. /\ UNCHANGED <<cgroup, now, events, sleeping, fired>> /\ since' = 0
    BY <1>3 DEF RemoveEntries, registryVars
  <2> QED
    BY <1>0, <1>A, <2>1 DEF FolIInv, Promised
<1>4. CASE KillRegistry
  <2>1. /\ UNCHANGED <<now, events, crontab, sleeping, fired, since>> /\ Stop(Recorded(registry))
    BY <1>4 DEF KillRegistry
  <2>2. Alive' \subseteq Alive
    BY <1>0, <2>1, StopIs
  <2> QED
    BY <2>1, <2>2, FollowedStay
<1>5. CASE KillAsync
  <2>1. UNCHANGED <<cgroup, now, events, sleeping, fired, since>>
    BY <1>5 DEF KillAsync, registryVars
  <2>2. \A h \in Workers : \A c \in crontab[h] : c \in crontab'[h]
    BY <1>5 DEF KillAsync
  <2> QED
    BY <1>A, <2>1, <2>2, FollowedStay
<1>6. ASSUME NEW job \in sleeping, Wake(job) PROVE FolIInv'
  <2> DEFINE own == <<job.host, job.group>>
  <2>1. /\ UNCHANGED <<now, events, crontab, fired, since>> /\ sleeping' = sleeping \ {job}
    BY <1>6 DEF Wake
  <2>2. /\ Promised' <=> Promised
        /\ \A pl : (ToRun(pl)' <=> ToRun(pl)) /\ StopOf(pl)' = StopOf(pl)
    BY <1>E, <2>1 DEF Promised, Day, ToRun, StopOf
  <2>3. job.host \in Workers /\ job.group \in Groups
    BY DEF PlanIInv
  <2>4. fired # {}
    BY DEF FolIInv
  <2>5. ASSUME Promised, NEW pl \in Alive'
        PROVE  ToRun(pl) \/ StopOf(pl) \in sleeping'
    <3>1. CASE job.do = "start" /\ Run(job.host, job.group)
      <4>1. CASE pl = own
        <5>1. PICK e \in Events : e.host = job.host /\ e.group = job.group /\ e.do = "start" /\ e.at = now
          BY <2>5, <3>1 DEF FolIInv
        <5>2. <<e.host, e.group>> = pl /\ e.at <= now
          BY <1>0, <4>1, <5>1
        <5>3. \A f \in Events : f.at <= e.at \/ f.at > now
          BY <1>0, <1>H, <5>1 DEF Event
        <5> QED
          BY <5>1, <5>2, <5>3 DEF ToRun
      <4>2. CASE pl # own
        <5>1. pl \in Places /\ pl = <<pl[1], pl[2]>> /\ pl[1] \in Workers /\ pl[2] \in Groups
              /\ cgroup'[pl[1]][pl[2]] = "alive"
          BY <2>5 DEF Alive, Places
        <5>2. cgroup'[pl[1]][pl[2]] = cgroup[pl[1]][pl[2]]
          BY <1>0, <2>3, <3>1, <4>2, <5>1 DEF Run, RegTypeOK
        <5>3. pl \in Alive
          BY <5>1, <5>2 DEF Alive
        <5>4. StopOf(pl).do = "kill"
          BY DEF StopOf
        <5> QED
          BY <2>1, <2>5, <3>1, <5>3, <5>4 DEF FolIInv
      <4> QED
        BY <4>1, <4>2
    <3>2. CASE job.do = "kill" /\ Stop({own})
      <4>1. pl \in Alive /\ pl # own
        BY <1>0, <2>5, <3>2, StopIs
      <4>2. pl = <<pl[1], pl[2]>>
        BY <4>1 DEF Alive, Places
      <4>3. StopOf(pl) # job
        <5>1. StopOf(pl).host = pl[1] /\ StopOf(pl).group = pl[2]
          BY DEF StopOf
        <5> QED
          BY <4>1, <4>2, <5>1
      <4> QED
        BY <2>1, <2>5, <4>1, <4>3 DEF FolIInv
    <3>3. CASE job.do \notin {"start", "kill"} /\ UNCHANGED cgroup
      <4>1. StopOf(pl).do = "kill"
        BY DEF StopOf
      <4> QED
        BY <1>A, <2>1, <2>5, <3>3, <4>1 DEF FolIInv
    <3> QED
      BY <1>6, <3>1, <3>2, <3>3 DEF Wake
  <2>6. since' # 0 /\ DistinctDates' => \A e \in Events' : Planned(e)' \in crontab'[e.host]
    BY <1>E, <1>P, <2>1 DEF FolIInv
  <2>7. Promised' => \A j \in sleeping' : j.do = "start" =>
          \E e \in Events' : e.host = j.host /\ e.group = j.group /\ e.do = "start" /\ e.at = now'
    BY <1>E, <2>1, <2>2 DEF FolIInv
  <2>8. since' \in 0..(now' + 1) /\ (\A f \in fired' : f.when \in 0..now') /\ fired' # {}
    BY <2>1, <2>4 DEF FolIInv
  <2> QED
    BY <2>2, <2>5, <2>6, <2>7, <2>8 DEF FolIInv
<1>7. ASSUME NEW wait \in BOOLEAN, Status(wait) PROVE FolIInv'
  <2>1. UNCHANGED <<cgroup, now, events, crontab, sleeping, fired, since>>
    BY <1>7 DEF Status
  <2> QED
    BY <1>A, <2>1, FollowedStay
<1>8. ASSUME NEW n \in 1..2, NEW interval \in 0..1, KillAsyncIncr(n, interval) PROVE FolIInv'
  <2>1. /\ UNCHANGED <<cgroup, now, events, sleeping, fired, since>>
        /\ \E order \in AtRandom(n) : crontab' = [h \in Workers |->
              Put(crontab[h], {KillAt(order[k], now + 2 + (k - 1) * interval) :
                                  k \in {k \in DOMAIN order : order[k].host = h}})]
    BY <1>8 DEF KillAsyncIncr, registryVars
  <2>2. PICK order \in AtRandom(n) : crontab' = [h \in Workers |->
              Put(crontab[h], {KillAt(order[k], now + 2 + (k - 1) * interval) :
                                  k \in {k \in DOMAIN order : order[k].host = h}})]
    BY <2>1
  <2>3. ASSUME NEW h \in Workers, NEW c \in crontab[h], c.by = "planning" PROVE c \in crontab'[h]
    <3> DEFINE new == {KillAt(order[k], now + 2 + (k - 1) * interval) : k \in {k \in DOMAIN order : order[k].host = h}}
    <3>1. ASSUME NEW e \in new PROVE EntryName(c) # EntryName(e)
      <4>1. e.by = "process"
        BY <3>1 DEF KillAt, KillEntry
      <4> QED
        BY <2>3, <4>1 DEF EntryName
    <3>2. crontab'[h] = Put(crontab[h], new)
      BY <2>2
    <3> HIDE DEF new
    <3> QED
      BY <3>1, <3>2, PutHas
  <2> QED
    BY <1>A, <2>1, <2>3, FollowedStay
<1>9. ASSUME NEW h \in Workers, NEW g \in Groups, ProcessEnds(h, g), UNCHANGED planVars PROVE FolIInv'
  <2>1. Alive' \subseteq Alive
    BY <1>0, <1>9, StopIs DEF ProcessEnds
  <2>2. UNCHANGED <<now, events, crontab, sleeping, fired, since>>
    BY <1>9 DEF planVars
  <2> QED
    BY <2>1, <2>2, FollowedStay
<1>10. CASE UNCHANGED allVars
  <2>1. UNCHANGED <<cgroup, now, events, crontab, sleeping, fired, since>>
    BY <1>10 DEF allVars, registryVars, planVars
  <2> QED
    BY <1>A, <2>1, FollowedStay
<1> QED
  BY <1>1, <1>2, <1>3, <1>4, <1>5, <1>6, <1>7, <1>8, <1>9, <1>10 DEF PlanNext

\* In the other parts no planning is deployed.
LEMMA FollowedRun ==
  Spec => [](PlanIInv /\ (part = "planning" => OutIInv /\ FolIInv) /\ (part # "planning" => since = 0))
<1> DEFINE J == PlanIInv /\ (part = "planning" => OutIInv /\ FolIInv) /\ (part # "planning" => since = 0)
<1>1. Init => J
  <2> SUFFICES ASSUME Init PROVE J
    OBVIOUS
  <2>1. PlanInit
    BY DEF Init
  <2>2. PlanIInv
    BY <2>1, RegInitOK DEF PlanInit, PlanIInv
  <2>3. OutIInv
    BY <2>1 DEF PlanInit, RegInit, OutIInv, Alive, Places
  <2>4. Alive = {}
    BY <2>1 DEF PlanInit, RegInit, Alive, Places
  <2>5. FolIInv
    BY <2>1, <2>4 DEF PlanInit, FolIInv
  <2> QED
    BY <2>1, <2>2, <2>3, <2>5 DEF PlanInit
<1>2. J /\ [Next]_vars => J'
  <2> SUFFICES ASSUME J, [Next]_vars PROVE J'
    OBVIOUS
  <2>1. [RegistryOrPlanning]_allVars
    BY DEF Next, vars, RegistryOrPlanning, machineVars
  <2>2. PlanIInv'
    BY <2>1, PlanStepOK
  <2>3. part' = part /\ (part = "planning" => [PlanNext]_allVars)
        /\ (part # "planning" => UNCHANGED since)
    BY DEF Next, vars, machineVars, allVars, planVars
  <2>4. part = "planning" => OutIInv' /\ FolIInv'
    BY <2>3, OutStepOK, FolStepOK
  <2> QED
    BY <2>2, <2>3, <2>4
<1> QED
  BY <1>1, <1>2, PTL DEF Spec

\* A planning that is accepted by check, and deployed on its day before its first event, is
\* followed on that day: a group runs only between its start and the next kill, whatever
\* the order of the events and of the jobs of a minute (PlanningService.deploy).
THEOREM PlanningIsFollowed == Spec => []PlanFollowed
<1>1. FolIInv => PlanFollowed
  BY DEF FolIInv, PlanFollowed, Promised, ToRun
<1>2. since = 0 => PlanFollowed
  BY DEF PlanFollowed
<1>3. PlanIInv /\ (part = "planning" => OutIInv /\ FolIInv) /\ (part # "planning" => since = 0)
      => PlanFollowed
  BY <1>1, <1>2
<1> QED
  BY <1>3, FollowedRun, PTL

\* The registry tracks the processes that it starts, and a planning is followed.
THEOREM ProcessesPlanned == Spec => []ProcessesAsPlanned
<1>1. RegistryTracks /\ PlanFollowed => ProcessesAsPlanned
  BY DEF ProcessesAsPlanned
<1> QED
  BY <1>1, RegistryIsTracked, PlanningIsFollowed, PTL

-----------------------------------------------------------------------------
(* The streams of FIT IoT-LAB *)

StrTyped ==
    /\ purpose \in StreamUses
    /\ printed \in [SensorsOf(purpose) -> 0..MaxPrints]
    /\ blocks \in [Blocks -> [at : {"before", "in", "left", "raised"},
                              from : 0..MaxPrints, to : 0..MaxPrints]]
    /\ DOMAIN files = Blocks /\ DOMAIN got = Blocks

\* Tools listen for the blocks they were started for, links are those of sockets.
StrIInv ==
    /\ StrTyped
    /\ StreamsStop
    /\ StreamsKept
    /\ \A b \in Blocks :
          /\ \A end \in {"tunnel", "socket"} : <<b, end>> \in links => purpose[b].tool = "socket"
          /\ b \in tools => purpose[b].tool # "socket"
          /\ blocks[b].at = "before" => got[b] = {}
          /\ blocks[b].at = "in" /\ purpose[b].tool # "socket" /\ expState = "running"
                /\ Twins(b) = {b} /\ b \notin excused => b \in tools

\* What it says of a block.
FileKept(b) ==
    LET last == IF blocks[b].at = "in" THEN printed[purpose[b].sensor] ELSE blocks[b].to
    IN  blocks[b].at \in {"in", "left"} /\ purpose[b].tool # "socket" /\ expState = "running"
            /\ Twins(b) = {b} /\ b \notin excused =>
                (blocks[b].from + 1)..last \subseteq files[b]
ReadKept(b) == \E n \in blocks[b].from..MaxPrints : got[b] = (blocks[b].from + 1)..n
ToolKept(b) ==
    blocks[b].at = "in" /\ purpose[b].tool # "socket" /\ expState = "running"
       /\ Twins(b) = {b} /\ b \notin excused => b \in tools
LinksKept(b) ==
    /\ \A end \in {"tunnel", "socket"} : <<b, end>> \in links => purpose[b].tool = "socket"
    /\ b \in tools => purpose[b].tool # "socket"
StopKept(b) ==
    blocks[b].at = "left" =>
       /\ b \in tools => b \in excused
       /\ \A end \in {"tunnel", "socket"} : <<b, end>> \notin links
BlockOK(b) ==
    /\ FileKept(b) /\ ReadKept(b) /\ ToolKept(b) /\ LinksKept(b) /\ StopKept(b)
    /\ blocks[b].at = "before" => got[b] = {}

\* The invariant, block by block.
LEMMA StrSplit == StrIInv <=> StrTyped /\ \A b \in Blocks : BlockOK(b)
  BY DEF StrIInv, StreamsStop, StreamsKept, FileKept, ReadKept, ToolKept, LinksKept, StopKept, BlockOK

LEMMA StrInitOK == StreamsInit => StrIInv
<1> SUFFICES ASSUME StreamsInit PROVE StrIInv
  OBVIOUS
<1>1. 0 \in 0..MaxPrints
  BY StreamsAssumption
<1>2. StrTyped
  BY <1>1 DEF StreamsInit, StrTyped
<1>3. ASSUME NEW b \in Blocks PROVE BlockOK(b)
  <2>1. blocks[b].at = "before" /\ blocks[b].from = 0 /\ got[b] = {} /\ tools = {} /\ links = {}
    BY DEF StreamsInit
  <2>2. (0 + 1)..0 = {}
    OBVIOUS
  <2>3. ReadKept(b)
    BY <1>1, <2>1, <2>2 DEF ReadKept
  <2> QED
    BY <2>1, <2>3 DEF BlockOK, FileKept, ToolKept, LinksKept, StopKept
<1> QED
  BY <1>2, <1>3, StrSplit

\* A step that keeps a block and what it read, and only adds to its file, unless
\* it is excused or the experiment ends.
LEMMA SameBlock ==
  ASSUME NEW b \in Blocks, BlockOK(b), UNCHANGED <<purpose, printed>>,
         blocks'[b] = blocks[b], got'[b] = got[b], files[b] \subseteq files'[b],
         expState' = "running" => expState = "running",
         b \in excused => b \in excused',
         b \in tools' => b \in tools,
         b \in tools /\ b \notin tools' => b \in excused' \/ Twins(b) # {b} \/ expState' # "running",
         \A end \in {"tunnel", "socket"} : <<b, end>> \in links' => <<b, end>> \in links
  PROVE  BlockOK(b)'
<1>1. Twins(b)' = Twins(b)
  BY DEF Twins, ToolOf
<1>2. FileKept(b)'
  BY <1>1 DEF BlockOK, FileKept
<1>3. ReadKept(b)'
  BY DEF BlockOK, ReadKept
<1>4. ToolKept(b)'
  BY <1>1 DEF BlockOK, ToolKept
<1>5. LinksKept(b)' /\ StopKept(b)'
  BY DEF BlockOK, LinksKept, StopKept
<1> QED
  BY <1>2, <1>3, <1>4, <1>5 DEF BlockOK

LEMMA StrStepOK == StrIInv /\ [StreamsNext]_strVars => StrIInv'
<1> SUFFICES ASSUME StrIInv, [StreamsNext]_strVars PROVE StrIInv'
  OBVIOUS
<1>0. StrTyped /\ \A b \in Blocks : BlockOK(b)
  BY StrSplit
<1>s. ASSUME StrTyped', \A b \in Blocks : BlockOK(b)' PROVE StrIInv'
  BY <1>s DEF StrIInv, StreamsStop, StreamsKept, FileKept, ReadKept, ToolKept, LinksKept, StopKept, BlockOK
<1>t. /\ MaxPrints \in Nat
      /\ \A b \in Blocks : purpose[b].sensor \in SensorsOf(purpose)
           /\ printed[purpose[b].sensor] \in 0..MaxPrints
           /\ blocks[b].from \in 0..MaxPrints /\ blocks[b].to \in 0..MaxPrints
  BY <1>0, StreamsAssumption DEF StrTyped, SensorsOf
<1>1. ASSUME NEW s \in DOMAIN printed, SensorPrints(s) PROVE StrIInv'
  <2>1. /\ UNCHANGED <<purpose, expState, blocks, tools, links, got, excused>>
        /\ expState = "running" /\ printed[s] < MaxPrints
        /\ printed' = [printed EXCEPT ![s] = @ + 1]
        /\ files' = [b \in Blocks |-> IF purpose[b].sensor = s /\ Twins(b) \cap tools # {}
                                      THEN files[b] \cup {printed'[s]} ELSE files[b]]
    BY <1>1 DEF SensorPrints
  <2>2. s \in SensorsOf(purpose) /\ printed[s] \in 0..MaxPrints /\ printed'[s] = printed[s] + 1
        /\ \A r \in SensorsOf(purpose) : r # s => printed'[r] = printed[r]
    BY <1>0, <2>1 DEF StrTyped
  <2>3. StrTyped'
    BY <1>0, <1>t, <2>1, <2>2 DEF StrTyped, SensorsOf
  <2>4. ASSUME NEW b \in Blocks PROVE BlockOK(b)'
    <3>0. BlockOK(b) /\ Twins(b)' = Twins(b) /\ files[b] \subseteq files'[b]
      BY <1>0, <2>1 DEF Twins, ToolOf
    <3>1. FileKept(b)'
      <4> DEFINE kept == blocks[b].at \in {"in", "left"} /\ purpose[b].tool # "socket" /\ Twins(b) = {b}
                         /\ b \notin excused
      <4>1. CASE ~kept \/ blocks[b].at # "in"
        BY <2>1, <3>0, <4>1 DEF BlockOK, FileKept
      <4>2. CASE kept /\ blocks[b].at = "in"
        <5>1. b \in tools
          BY <2>1, <3>0, <4>2 DEF BlockOK, ToolKept
        <5>2. (blocks[b].from + 1)..printed[purpose[b].sensor] \subseteq files[b]
          BY <2>1, <3>0, <4>2 DEF BlockOK, FileKept
        <5>3. purpose[b].sensor = s => printed'[s] \in files'[b]
          BY <2>1, <4>2, <5>1
        <5>4. (blocks[b].from + 1)..printed'[purpose[b].sensor] \subseteq files'[b]
          BY <1>t, <2>2, <3>0, <5>2, <5>3
        <5> QED
          BY <2>1, <4>2, <5>4 DEF FileKept
      <4> QED
        BY <4>1, <4>2
    <3> QED
      BY <2>1, <3>0, <3>1 DEF BlockOK, ReadKept, ToolKept, LinksKept, StopKept
  <2> QED
    BY <1>s, <2>3, <2>4
<1>2. ASSUME NEW b \in Blocks, StartTool(b) PROVE StrIInv'
  <2>1. /\ UNCHANGED <<purpose, expState, links, printed, got, excused>>
        /\ blocks[b].at = "before" /\ purpose[b].tool # "socket"
        /\ tools' \subseteq tools \cup {b} /\ tools \subseteq tools'
        /\ \E at \in {"in", "raised"} : Entered(b, at)
        /\ files' = [c \in Blocks |-> IF c \in Twins(b) THEN {} ELSE files[c]] \/ UNCHANGED files
    BY <1>2 DEF StartTool
  <2>2. StrTyped'
    BY <1>0, <1>t, <2>1 DEF StrTyped, Entered
  <2>3. ASSUME NEW c \in Blocks, c # b PROVE BlockOK(c)'
    <3>1. blocks'[c] = blocks[c] /\ got'[c] = got[c]
      BY <1>0, <2>1, <2>3 DEF Entered, StrTyped
    <3>2. BlockOK(c) /\ Twins(c)' = Twins(c)
      BY <1>0, <2>1 DEF Twins, ToolOf
    <3>3. Twins(c) = {c} => files'[c] = files[c]
      BY <1>0, <2>1, <2>3 DEF Twins, StrTyped
    <3> QED
      BY <2>1, <2>3, <3>1, <3>2, <3>3 DEF BlockOK, FileKept, ReadKept, ToolKept, LinksKept, StopKept
  <2>4. BlockOK(b)'
    <3>0. BlockOK(b) /\ got'[b] = {} /\ Twins(b)' = Twins(b)
      BY <1>0, <2>1 DEF BlockOK, Twins, ToolOf
    <3>1. PICK at \in {"in", "raised"} : Entered(b, at)
      BY <2>1
    <3>2. blocks'[b] = [at |-> at, from |-> printed[purpose[b].sensor], to |-> printed[purpose[b].sensor]]
      BY <1>0, <3>1 DEF Entered, StrTyped
    <3>3. (blocks'[b].from + 1)..printed[purpose[b].sensor] = {} /\ blocks'[b].from = printed[purpose[b].sensor]
          /\ blocks'[b].at = at
      BY <1>t, <3>2
    <3>4. FileKept(b)'
      BY <2>1, <3>1, <3>3 DEF FileKept
    <3>5. ReadKept(b)'
      BY <1>t, <2>1, <3>0, <3>3 DEF ReadKept
    <3>6. ToolKept(b)'
      <4>1. at = "in" /\ expState = "running" => b \in tools'
        BY <1>2, <3>1, <3>2, <3>3 DEF StartTool, Entered
      <4> QED
        BY <2>1, <3>3, <4>1 DEF ToolKept
    <3>7. LinksKept(b)' /\ StopKept(b)'
      BY <2>1, <3>0, <3>1, <3>3 DEF BlockOK, LinksKept, StopKept
    <3> QED
      BY <3>0, <3>1, <3>3, <3>4, <3>5, <3>6, <3>7 DEF BlockOK
  <2> QED
    BY <1>s, <2>2, <2>3, <2>4
<1>3. ASSUME NEW b \in Blocks, OpenSocket(b) PROVE StrIInv'
  <2>1. /\ UNCHANGED <<purpose, expState, tools, printed, files, got, excused>>
        /\ blocks[b].at = "before" /\ purpose[b].tool = "socket"
        /\ links' \subseteq links \cup ({b} \X {"tunnel", "socket"})
        /\ \E at \in {"in", "raised"} : Entered(b, at)
    BY <1>3 DEF OpenSocket
  <2>2. StrTyped'
    BY <1>0, <1>t, <2>1 DEF StrTyped, Entered
  <2>3. ASSUME NEW c \in Blocks, c # b PROVE BlockOK(c)'
    <3>1. blocks'[c] = blocks[c]
      BY <1>0, <2>1, <2>3 DEF Entered, StrTyped
    <3> QED
      BY <1>0, <2>1, <2>3, <3>1, SameBlock
  <2>4. BlockOK(b)'
    <3>0. BlockOK(b) /\ got'[b] = {}
      BY <1>0, <2>1 DEF BlockOK
    <3>1. PICK at \in {"in", "raised"} : Entered(b, at)
      BY <2>1
    <3>2. blocks'[b] = [at |-> at, from |-> printed[purpose[b].sensor], to |-> printed[purpose[b].sensor]]
      BY <1>0, <3>1 DEF Entered, StrTyped
    <3>3. (blocks'[b].from + 1)..printed[purpose[b].sensor] = {} /\ blocks'[b].from = printed[purpose[b].sensor]
          /\ blocks'[b].at = at
      BY <1>t, <3>2
    <3>4. FileKept(b)' /\ ToolKept(b)' /\ LinksKept(b)' /\ StopKept(b)'
      BY <2>1, <3>0, <3>1, <3>3 DEF BlockOK, FileKept, ToolKept, LinksKept, StopKept
    <3>5. ReadKept(b)'
      BY <1>t, <2>1, <3>0, <3>3 DEF ReadKept
    <3> QED
      BY <3>0, <3>1, <3>3, <3>4, <3>5 DEF BlockOK
  <2> QED
    BY <1>s, <2>2, <2>3, <2>4
<1>4. ASSUME NEW b \in Blocks, ReadSocket(b) PROVE StrIInv'
  <2> DEFINE from == blocks[b].from
             waiting == (from + 1)..printed[purpose[b].sensor] \ got[b]
  <2>1. /\ UNCHANGED <<purpose, expState, blocks, tools, links, printed, files, excused>>
        /\ blocks[b].at = "in" /\ <<b, "socket">> \in links
        /\ \E n \in waiting : got' = [got EXCEPT ![b] = @ \cup {i \in waiting : i <= n}]
    BY <1>4 DEF ReadSocket
  <2>2. StrTyped'
    BY <1>0, <2>1 DEF StrTyped
  <2>3. ASSUME NEW c \in Blocks, c # b PROVE BlockOK(c)'
    <3>1. got'[c] = got[c]
      BY <1>0, <2>1, <2>3 DEF StrTyped
    <3> QED
      BY <1>0, <2>1, <3>1, SameBlock
  <2>4. BlockOK(b)'
    <3>1. PICK n \in waiting : got' = [got EXCEPT ![b] = @ \cup {i \in waiting : i <= n}]
      BY <2>1
    <3>2. got'[b] = got[b] \cup {i \in waiting : i <= n}
      BY <1>0, <3>1 DEF StrTyped
    <3>3. PICK old \in from..MaxPrints : got[b] = (from + 1)..old
      BY <1>0 DEF BlockOK, ReadKept
    <3>4. from \in 0..MaxPrints /\ printed[purpose[b].sensor] \in 0..MaxPrints /\ MaxPrints \in Nat
      BY <1>t
    <3>5. n \in from..MaxPrints /\ n > old
      BY <3>3, <3>4
    <3>6. got'[b] = (from + 1)..n
      <4>1. \A i : i \in got'[b] => i \in (from + 1)..n
        BY <3>2, <3>3, <3>4, <3>5
      <4>2. \A i : i \in (from + 1)..n => i \in got'[b]
        BY <3>2, <3>3, <3>4, <3>5
      <4> QED
        BY <4>1, <4>2
    <3>7. ReadKept(b)'
      BY <2>1, <3>5, <3>6 DEF ReadKept
    <3>8. Twins(b)' = Twins(b) /\ BlockOK(b)
      BY <1>0, <2>1 DEF Twins, ToolOf
    <3> QED
      BY <2>1, <3>7, <3>8 DEF BlockOK, FileKept, ToolKept, LinksKept, StopKept
  <2> QED
    BY <1>s, <2>2, <2>3, <2>4
<1>5. ASSUME NEW b \in Blocks, StopTool(b) PROVE StrIInv'
  <2>1. /\ UNCHANGED <<purpose, expState, links, printed, files, got>>
        /\ blocks[b].at = "in" /\ purpose[b].tool # "socket"
        /\ blocks' = [blocks EXCEPT ![b].at = "left", ![b].to = printed[purpose[b].sensor]]
        /\ \/ tools' = {c \in tools : ~StopPattern(b, c)} /\ UNCHANGED excused
           \/ excused' = excused \cup {b} /\ UNCHANGED tools
    BY <1>5 DEF StopTool, LeftAt
  <2>2. StrTyped'
    BY <1>0, <1>t, <2>1 DEF StrTyped
  <2>3. ASSUME NEW c \in Blocks, c # b PROVE BlockOK(c)'
    <3>1. blocks'[c] = blocks[c]
      BY <1>0, <2>1, <2>3 DEF StrTyped
    <3>2. StopPattern(b, c) => b \in Twins(c)
      BY DEF StopPattern, Twins, ToolOf
    <3>3. c \in tools /\ c \notin tools' => Twins(c) # {c}
      BY <2>1, <2>3, <3>2
    <3> QED
      BY <1>0, <2>1, <2>3, <3>1, <3>3, SameBlock
  <2>4. BlockOK(b)'
    <3>1. blocks'[b].at = "left" /\ blocks'[b].to = printed[purpose[b].sensor]
          /\ blocks'[b].from = blocks[b].from
      BY <1>0, <2>1 DEF StrTyped
    <3>2. BlockOK(b) /\ Twins(b)' = Twins(b)
      BY <1>0, <2>1 DEF Twins, ToolOf
    <3>3. b \in tools' => b \in excused'
      BY <2>1 DEF StopPattern
    <3>4. FileKept(b)'
      BY <2>1, <3>1, <3>2 DEF BlockOK, FileKept
    <3> QED
      BY <2>1, <3>1, <3>2, <3>3, <3>4 DEF BlockOK, ReadKept, ToolKept, LinksKept, StopKept
  <2> QED
    BY <1>s, <2>2, <2>3, <2>4
<1>6. ASSUME NEW b \in Blocks, CloseSocket(b) PROVE StrIInv'
  <2>1. /\ UNCHANGED <<purpose, expState, tools, printed, files, got, excused>>
        /\ blocks[b].at = "in" /\ purpose[b].tool = "socket"
        /\ blocks' = [blocks EXCEPT ![b].at = "left", ![b].to = printed[purpose[b].sensor]]
        /\ links' = links \ {<<b, "socket">>, <<b, "tunnel">>}
    BY <1>6 DEF CloseSocket, LeftAt, ClosedLinks
  <2>2. StrTyped'
    BY <1>0, <1>t, <2>1 DEF StrTyped
  <2>3. ASSUME NEW c \in Blocks, c # b PROVE BlockOK(c)'
    <3>1. blocks'[c] = blocks[c]
      BY <1>0, <2>1, <2>3 DEF StrTyped
    <3> QED
      BY <1>0, <2>1, <2>3, <3>1, SameBlock
  <2>4. BlockOK(b)'
    <3>1. blocks'[b].at = "left" /\ blocks'[b].from = blocks[b].from
      BY <1>0, <2>1 DEF StrTyped
    <3>2. BlockOK(b)
      BY <1>0
    <3> QED
      BY <2>1, <3>1, <3>2 DEF BlockOK, FileKept, ReadKept, ToolKept, LinksKept, StopKept
  <2> QED
    BY <1>s, <2>2, <2>3, <2>4
<1>7. ASSUME NEW b \in Blocks, SnifferTimesOut(b) PROVE StrIInv'
  <2>1. /\ UNCHANGED <<purpose, expState, blocks, links, printed, files, got>>
        /\ tools' = tools \ {b} /\ excused' = excused \cup {b}
    BY <1>7 DEF SnifferTimesOut
  <2>2. StrTyped'
    BY <1>0, <2>1 DEF StrTyped
  <2>3. ASSUME NEW c \in Blocks PROVE BlockOK(c)'
    BY <1>0, <2>1, SameBlock
  <2> QED
    BY <1>s, <2>2, <2>3
<1>8. CASE StreamJobEnds
  <2>1. /\ UNCHANGED <<purpose, blocks, links, printed, files, got>>
        /\ expState' # "running" /\ excused' = excused \cup tools /\ tools' = {}
    BY <1>8 DEF StreamJobEnds
  <2>2. StrTyped'
    BY <1>0, <2>1 DEF StrTyped
  <2>3. ASSUME NEW c \in Blocks PROVE BlockOK(c)'
    BY <1>0, <2>1, SameBlock
  <2> QED
    BY <1>s, <2>2, <2>3
<1>9. CASE StreamsKilled
  <2>1. /\ UNCHANGED <<purpose, expState, tools, printed, files, got, excused>> /\ links' = {}
        /\ blocks' = [b \in Blocks |->
              IF blocks[b].at = "in" THEN [blocks[b] EXCEPT !.at = "raised"] ELSE blocks[b]]
    BY <1>9 DEF StreamsKilled
  <2>2. StrTyped'
    BY <1>0, <2>1 DEF StrTyped
  <2>3. ASSUME NEW b \in Blocks PROVE BlockOK(b)'
    <3>1. CASE blocks[b].at # "in"
      <4>1. blocks'[b] = blocks[b]
        BY <2>1, <3>1
      <4> QED
        BY <1>0, <2>1, <4>1, SameBlock
    <3>2. CASE blocks[b].at = "in"
      <4>1. blocks'[b].at = "raised" /\ blocks'[b].from = blocks[b].from
        BY <1>0, <2>1, <3>2 DEF StrTyped
      <4>2. BlockOK(b)
        BY <1>0
      <4> QED
        BY <2>1, <4>1, <4>2 DEF BlockOK, FileKept, ReadKept, ToolKept, LinksKept, StopKept
    <3> QED
      BY <3>1, <3>2
  <2> QED
    BY <1>s, <2>2, <2>3
<1>10. CASE UNCHANGED strVars
  <2>1. UNCHANGED <<purpose, expState, blocks, tools, links, printed, files, got, excused>>
    BY <1>10 DEF strVars
  <2>2. StrTyped'
    BY <1>0, <2>1 DEF StrTyped
  <2>3. ASSUME NEW b \in Blocks PROVE BlockOK(b)'
    BY <1>0, <2>1, SameBlock
  <2> QED
    BY <1>s, <2>2, <2>3
<1> QED
  BY <1>1, <1>2, <1>3, <1>4, <1>5, <1>6, <1>7, <1>8, <1>9, <1>10 DEF StreamsNext

LEMMA StreamsRun == Spec => []StrIInv
<1>1. Init => StreamsInit
  BY DEF Init
<1>2. [Next]_vars => [StreamsNext]_strVars
  BY DEF Next, vars, machineVars
<1> QED
  BY <1>1, <1>2, StrInitOK, StrStepOK, PTL DEF Spec

\* A block that was left has no tool, tunnel or socket any more but when the frontend
\* was unreachable; its file has what its sensor printed meanwhile, unless a block of the
\* same sensor and tool truncated it, and a socket reads in order what was printed since it
\* was opened (the "with" of IotlabSerial and IotlabSniffer, their pkill).
THEOREM StreamsAreKept == Spec => [](StreamsStop /\ StreamsKept)
<1>1. StrIInv => StreamsStop /\ StreamsKept
  BY DEF StrIInv
<1> QED
  BY <1>1, StreamsRun, PTL

-----------------------------------------------------------------------------
(* What the services leave *)

HostFields == {"tmux", "files", "up", "procs", "conf"}
CallNames == {"deploy", "destroy", "backup"}
Agendas == {<<>>, <<"deploy">>, <<"destroy">>, <<"backup">>, <<"destroy", "deploy">>,
            <<"destroy", "backup">>, <<"backup", "destroy">>}

\* The sessions an instance starts on a machine, and those it starts when no other
\* one left its interfaces there.
KeysOn(i, m) ==
    IF Class(i) = "tcpdump" THEN {Sessions(i, m)[k] : k \in DOMAIN Sessions(i, m)} ELSE {Class(i)}
KeysOf(i) == IF Class(i) = "tcpdump" THEN InterfaceNames(i) ELSE {Class(i)}
Clean(i) ==
    \A m \in Machines : (\A s \in host[m].tmux : s.by # i) /\ \A u \in host[m].up : u.by # i

\* Sessions, and what is up, were started by an instance on its own machines, ...
HostsOK ==
    \A m \in Machines :
       /\ DOMAIN host[m] = HostFields
       /\ \A s \in host[m].tmux :
             /\ s.by \in Instances /\ m \in inst[s.by].hosts
             /\ Class(s.by) \in {"dstat", "dask", "tcpdump"}
             /\ Alone(s.by) => s.key \in KeysOf(s.by)
       /\ \A u \in host[m].up :
             /\ u.by \in Instances /\ m \in inst[u.by].hosts
             /\ u.class = Class(u.by) /\ u.class \in {"tig", "tpg"}

\* ... with the interfaces that it left on their Host objects.
IfsOK ==
    /\ tcpdumpIfs \in [Machines -> Seq(Interfaces)]
    /\ \A i \in made : Class(i) = "tcpdump" /\ Alone(i) =>
          \A m \in inst[i].hosts : tcpdumpIfs[m] = inst[i].byNetwork

\* A "with" is left after a destroy, and then or before the last backup all is clean.
AgendaOK ==
    /\ agenda \in [Instances -> Agendas] /\ DOMAIN phase = Instances
    /\ \A i \in Instances :
          /\ agenda[i] # <<>> \/ phase[i] # "idle" => i \in made
          /\ phase[i] = "leaving" =>
                /\ agenda[i] \in {<<"destroy", "backup">>, <<"backup">>, <<"destroy">>, <<"backup", "destroy">>}
                /\ agenda[i] = <<"backup">> /\ Alone(i) => Clean(i)
          /\ phase[i] = "left" => agenda[i] = <<>> /\ (Alone(i) => Clean(i))

ServIInv == inst \in Scenarios /\ made \subseteq Instances /\ DOMAIN host = Machines /\ HostsOK /\ IfsOK /\ AgendaOK

\* What instances are is fixed.
LEMMA MakesAre ==
  ASSUME inst \in Scenarios, NEW i \in Instances
  PROVE  /\ inst[i].class \in Classes /\ inst[i].hosts \in SUBSET Machines
         /\ inst[i].ifnames \in Seq(Interfaces) /\ inst[i].byNetwork \in Seq(Interfaces)
  BY ServicesAssumption DEF Makes

\* Who disturbs an instance will always have done so.
LEMMA AloneBefore ==
  ASSUME UNCHANGED inst, made \subseteq made', met \subseteq met', NEW i, Alone(i)'
  PROVE  Alone(i)
<1>1. InterfaceNames(i)' = InterfaceNames(i)
  BY DEF InterfaceNames
<1>2. ASSUME NEW j \in Instances PROVE ~Disturb(i, j)
  <2>1. ~Disturb(i, j)'
    BY DEF Alone
  <2>2. InterfaceNames(j)' = InterfaceNames(j) /\ Class(i)' = Class(i) /\ Class(j)' = Class(j)
    BY DEF InterfaceNames, Class
  <2> QED
    BY <1>1, <2>1, <2>2 DEF Disturb, Mixed
<1> QED
  BY <1>1, <1>2 DEF Alone

\* What one task does to the sessions and to what is up.
LEMMA DoIs ==
  ASSUME NEW h, DOMAIN h = HostFields, NEW t
  PROVE  /\ DOMAIN Do(h, t) = HostFields
         /\ \A s \in Do(h, t).tmux : s \in h.tmux \/ (t.op = "start" /\ s = [key |-> t.key, by |-> t.i])
         /\ \A u \in Do(h, t).up : u \in h.up \/ (t.op = "up" /\ u = [class |-> t.class, by |-> t.i])
         /\ t.op = "stop" => \A s \in Do(h, t).tmux : s.key # t.key
         /\ t.op = "down" => \A u \in Do(h, t).up : u.class # t.class
<1>1. CASE t.op = "start"
  <2>1. Do(h, t) = BgStart(h, t.key, OfFile(t)) /\ OfFile(t).by = t.i
    BY <1>1 DEF Do, OfFile
  <2>2. CASE Grep(h, t.key) # {}
    BY <1>1, <2>1, <2>2 DEF BgStart
  <2>3. CASE Grep(h, t.key) = {}
    BY <1>1, <2>1, <2>3 DEF BgStart, HostFields
  <2> QED
    BY <2>2, <2>3
<1>2. CASE t.op = "stop"
  <2>1. Do(h, t) = BgStop(h, t.key)
    BY <1>2 DEF Do
  <2> QED
    BY <1>2, <2>1 DEF BgStop, HostFields
<1>3. CASE t.op = "run"
  BY <1>3 DEF Do, HostFields
<1>4. CASE t.op = "pkill"
  BY <1>4 DEF Do, HostFields
<1>5. CASE t.op = "up"
  BY <1>5 DEF Do, HostFields
<1>6. CASE t.op = "down"
  BY <1>6 DEF Do, HostFields
<1>7. CASE t.op = "wipe"
  BY <1>7 DEF Do, HostFields
<1>8. CASE t.op = "install"
  BY <1>8 DEF Do, HostFields
<1>9. CASE t.op \notin {"start", "stop", "run", "pkill", "up", "down", "wipe", "install"}
  <2>1. Do(h, t) = h
    BY <1>9 DEF Do
  <2> QED
    BY <1>9, <2>1
<1> QED
  BY <1>1, <1>2, <1>3, <1>4, <1>5, <1>6, <1>7, <1>8, <1>9

\* Tasks are done one after the other.
LEMMA DidIs ==
  ASSUME NEW h, NEW tasks
  PROVE  /\ Did(h, tasks, 0) = h
         /\ Did(h, tasks, 1) = Do(h, tasks[1])
         /\ Did(h, tasks, 2) = Do(Do(h, tasks[1]), tasks[2])
         /\ Did(h, tasks, 3) = Do(Do(Do(h, tasks[1]), tasks[2]), tasks[3])
<1> DEFINE h1 == Do(h, tasks[1])
           h2 == Do(h1, tasks[2])
           h3 == Do(h2, tasks[3])
<1>1. ASSUME NEW n \in 0..3
      PROVE  Did(h, tasks, n) = IF n = 0 THEN h ELSE IF n = 1 THEN h1 ELSE IF n = 2 THEN h2 ELSE h3
  <2> DEFINE F(g) == [k \in 0..n |-> IF k = 0 THEN h ELSE Do(g[k - 1], tasks[k])]
             z == [k \in 0..n |-> IF k = 0 THEN h ELSE IF k = 1 THEN h1 ELSE IF k = 2 THEN h2 ELSE h3]
             did == CHOOSE g : g = F(g)
  <2>1. z = F(z)
    <3>1. ASSUME NEW k \in 0..n PROVE z[k] = IF k = 0 THEN h ELSE Do(z[k - 1], tasks[k])
      <4>1. k \in {0, 1, 2, 3} /\ (k # 0 => k - 1 \in 0..n)
        OBVIOUS
      <4> HIDE DEF h1, h2, h3
      <4>2. CASE k = 0
        BY <4>2
      <4>3. CASE k = 1
        BY <4>1, <4>3 DEF h1
      <4>4. CASE k = 2
        BY <4>1, <4>4 DEF h2
      <4>5. CASE k = 3
        BY <4>1, <4>5 DEF h3
      <4> QED
        BY <4>1, <4>2, <4>3, <4>4, <4>5
    <3>2. z = [k \in 0..n |-> z[k]]
      OBVIOUS
    <3> HIDE DEF z
    <3> QED
      BY <3>1, <3>2
  <2>2. did = F(did)
    BY <2>1
  <2>3. Did(h, tasks, n) = did[n]
    BY DEF Did
  <2> HIDE DEF did, h1, h2, h3
  <2>4. \A k \in 0..n : did[k] = IF k = 0 THEN h ELSE Do(did[k - 1], tasks[k])
    BY <2>2
  <2>5. did[0] = h
    BY <2>4
  <2>6. n >= 1 => did[1] = h1
    BY <2>4, <2>5 DEF h1
  <2>7. n >= 2 => did[2] = h2
    BY <2>4, <2>6 DEF h2
  <2>8. n >= 3 => did[3] = h3
    BY <2>4, <2>7 DEF h3
  <2> QED
    BY <2>3, <2>5, <2>6, <2>7, <2>8
<1> QED
  BY <1>1

\* What one task adds to the sessions and to what is up, and what it stops.
Step(h, g, t) ==
    /\ DOMAIN g = HostFields
    /\ \A s \in g.tmux : s \in h.tmux \/ (t.op = "start" /\ s = [key |-> t.key, by |-> t.i])
    /\ \A u \in g.up : u \in h.up \/ (t.op = "up" /\ u = [class |-> t.class, by |-> t.i])
    /\ t.op = "stop" => \A s \in g.tmux : s.key # t.key
    /\ t.op = "down" => \A u \in g.up : u.class # t.class

\* What the first n of some tasks do to them.
Steps(h, g, tasks, n) ==
    /\ DOMAIN g = HostFields
    /\ \A s \in g.tmux : s \in h.tmux \/ \E k \in 1..n :
          tasks[k].op = "start" /\ s = [key |-> tasks[k].key, by |-> tasks[k].i]
    /\ \A u \in g.up : u \in h.up \/ \E k \in 1..n :
          tasks[k].op = "up" /\ u = [class |-> tasks[k].class, by |-> tasks[k].i]
    /\ (\A k \in 1..n : tasks[k].op # "start") =>
          \A k \in 1..n : tasks[k].op = "stop" => \A s \in g.tmux : s.key # tasks[k].key
    /\ (\A k \in 1..n : tasks[k].op # "up") =>
          \A k \in 1..n : tasks[k].op = "down" => \A u \in g.up : u.class # tasks[k].class

LEMMA DidKeeps ==
  ASSUME NEW h, DOMAIN h = HostFields, NEW tasks, NEW n \in 0..3
  PROVE  Steps(h, Did(h, tasks, n), tasks, n)
<1>0. \A g, t : DOMAIN g = HostFields => Step(g, Do(g, t), t)
  BY DoIs DEF Step
<1>1. ASSUME n = 0 PROVE Did(h, tasks, n) = h /\ 1..n = {}
  BY <1>1, DidIs
<1>2. PICK a, b, c : /\ Step(h, a, tasks[1]) /\ Step(a, b, tasks[2]) /\ Step(b, c, tasks[3])
                     /\ Did(h, tasks, 1) = a /\ Did(h, tasks, 2) = b /\ Did(h, tasks, 3) = c
  <2>1. Step(h, Do(h, tasks[1]), tasks[1])
    BY <1>0
  <2>2. Step(Do(h, tasks[1]), Do(Do(h, tasks[1]), tasks[2]), tasks[2])
    BY <1>0, <2>1 DEF Step
  <2>3. Step(Do(Do(h, tasks[1]), tasks[2]), Do(Do(Do(h, tasks[1]), tasks[2]), tasks[3]), tasks[3])
    BY <1>0, <2>2 DEF Step
  <2> QED
    BY <2>1, <2>2, <2>3, DidIs
<1>3. CASE n = 0
  BY <1>1, <1>3 DEF Steps
<1>4. CASE n = 1
  <2>1. 1..n = {1} /\ Did(h, tasks, n) = a
    BY <1>2, <1>4
  <2> QED
    BY <1>2, <2>1 DEF Step, Steps
<1>5. CASE n = 2
  <2>1. 1..n = {1, 2} /\ Did(h, tasks, n) = b
    BY <1>2, <1>5
  <2>2. \A s \in b.tmux : s \in h.tmux
           \/ (tasks[1].op = "start" /\ s = [key |-> tasks[1].key, by |-> tasks[1].i])
           \/ (tasks[2].op = "start" /\ s = [key |-> tasks[2].key, by |-> tasks[2].i])
    BY <1>2 DEF Step
  <2>3. \A u \in b.up : u \in h.up
           \/ (tasks[1].op = "up" /\ u = [class |-> tasks[1].class, by |-> tasks[1].i])
           \/ (tasks[2].op = "up" /\ u = [class |-> tasks[2].class, by |-> tasks[2].i])
    BY <1>2 DEF Step
  <2>4. ASSUME tasks[1].op # "start", tasks[2].op # "start", NEW s \in b.tmux
        PROVE  (tasks[1].op = "stop" => s.key # tasks[1].key) /\ (tasks[2].op = "stop" => s.key # tasks[2].key)
    BY <1>2, <2>4 DEF Step
  <2>5. ASSUME tasks[1].op # "up", tasks[2].op # "up", NEW u \in b.up
        PROVE  (tasks[1].op = "down" => u.class # tasks[1].class) /\ (tasks[2].op = "down" => u.class # tasks[2].class)
    BY <1>2, <2>5 DEF Step
  <2>6. DOMAIN b = HostFields
    BY <1>2 DEF Step
  <2> QED
    BY <2>1, <2>2, <2>3, <2>4, <2>5, <2>6 DEF Steps
<1>6. CASE n = 3
  <2>1. 1..n = {1, 2, 3} /\ Did(h, tasks, n) = c
    BY <1>2, <1>6
  <2>2. \A s \in c.tmux : s \in h.tmux
           \/ (tasks[1].op = "start" /\ s = [key |-> tasks[1].key, by |-> tasks[1].i])
           \/ (tasks[2].op = "start" /\ s = [key |-> tasks[2].key, by |-> tasks[2].i])
           \/ (tasks[3].op = "start" /\ s = [key |-> tasks[3].key, by |-> tasks[3].i])
    BY <1>2 DEF Step
  <2>3. \A u \in c.up : u \in h.up
           \/ (tasks[1].op = "up" /\ u = [class |-> tasks[1].class, by |-> tasks[1].i])
           \/ (tasks[2].op = "up" /\ u = [class |-> tasks[2].class, by |-> tasks[2].i])
           \/ (tasks[3].op = "up" /\ u = [class |-> tasks[3].class, by |-> tasks[3].i])
    BY <1>2 DEF Step
  <2>4. ASSUME tasks[1].op # "start", tasks[2].op # "start", tasks[3].op # "start", NEW s \in c.tmux
        PROVE  /\ tasks[1].op = "stop" => s.key # tasks[1].key
               /\ tasks[2].op = "stop" => s.key # tasks[2].key
               /\ tasks[3].op = "stop" => s.key # tasks[3].key
    BY <1>2, <2>4 DEF Step
  <2>5. ASSUME tasks[1].op # "up", tasks[2].op # "up", tasks[3].op # "up", NEW u \in c.up
        PROVE  /\ tasks[1].op = "down" => u.class # tasks[1].class
               /\ tasks[2].op = "down" => u.class # tasks[2].class
               /\ tasks[3].op = "down" => u.class # tasks[3].class
    BY <1>2, <2>5 DEF Step
  <2>6. DOMAIN c = HostFields
    BY <1>2 DEF Step
  <2> QED
    BY <2>1, <2>2, <2>3, <2>4, <2>5, <2>6 DEF Steps
<1> QED
  BY <1>3, <1>4, <1>5, <1>6

\* Who starts what: only a deploy, of its own; a destroy stops all of these.
TasksOK(i, what, m, tasks) ==
    /\ Len(tasks) \in Nat
    /\ \A k \in 1..Len(tasks) :
          /\ tasks[k].op = "start" =>
                /\ what = "deploy" /\ tasks[k].i = i /\ tasks[k].key \in KeysOn(i, m)
                /\ Class(i) \in {"dstat", "dask", "tcpdump"}
          /\ tasks[k].op = "up" =>
                /\ what = "deploy" /\ tasks[k].i = i /\ tasks[k].class = Class(i)
                /\ Class(i) \in {"tig", "tpg"}
    /\ what = "destroy" /\ Class(i) \in {"dstat", "dask", "tcpdump"} =>
          \A key \in KeysOn(i, m) : \E k \in 1..Len(tasks) : tasks[k].op = "stop" /\ tasks[k].key = key
    /\ what = "destroy" /\ Class(i) \in {"tig", "tpg"} =>
          \E k \in 1..Len(tasks) : tasks[k].op = "down" /\ tasks[k].class = Class(i)

\* The interfaces of a tcpdump on a machine.
LEMMA SessionsAre ==
  ASSUME inst \in Scenarios, NEW i \in Instances, NEW m \in Machines, tcpdumpIfs[m] \in Seq(Interfaces)
  PROVE  /\ Sessions(i, m) \in Seq(Interfaces)
         /\ tcpdumpIfs[m] = inst[i].byNetwork =>
              \A key : (\E k \in DOMAIN Sessions(i, m) : key = Sessions(i, m)[k]) <=> key \in InterfaceNames(i)
<1>1. inst[i].ifnames \in Seq(Interfaces)
  BY MakesAre
<1> DEFINE a == inst[i].ifnames
           b == tcpdumpIfs[m]
<1>2. Sessions(i, m) = a \o b
  BY DEF Sessions
<1>3. InterfaceNames(i) = {a[k] : k \in DOMAIN a} \cup {inst[i].byNetwork[k] : k \in DOMAIN inst[i].byNetwork}
  BY DEF InterfaceNames
<1>4. a \in Seq(Interfaces) /\ b \in Seq(Interfaces)
  BY <1>1
<1> HIDE DEF a, b
<1>5. a \o b \in Seq(Interfaces) /\ Len(a \o b) = Len(a) + Len(b)
      /\ \A k \in 1..(Len(a) + Len(b)) : (a \o b)[k] = IF k <= Len(a) THEN a[k] ELSE b[k - Len(a)]
  BY <1>4
<1>6. Len(a) \in Nat /\ Len(b) \in Nat /\ DOMAIN a = 1..Len(a) /\ DOMAIN b = 1..Len(b)
      /\ DOMAIN (a \o b) = 1..(Len(a) + Len(b))
  BY <1>4, <1>5
<1>7. ASSUME NEW key PROVE (\E k \in DOMAIN (a \o b) : key = (a \o b)[k])
                           <=> key \in {a[k] : k \in DOMAIN a} \cup {b[k] : k \in DOMAIN b}
  <2>1. ASSUME NEW k \in DOMAIN (a \o b) PROVE (a \o b)[k] \in {a[j] : j \in DOMAIN a} \cup {b[j] : j \in DOMAIN b}
    <3>1. CASE k <= Len(a)
      BY <1>5, <1>6, <3>1
    <3>2. CASE ~(k <= Len(a))
      <4>1. k - Len(a) \in DOMAIN b /\ (a \o b)[k] = b[k - Len(a)]
        BY <1>5, <1>6, <3>2
      <4> QED
        BY <4>1
    <3> QED
      BY <3>1, <3>2
  <2>2. ASSUME NEW j \in DOMAIN a PROVE \E k \in DOMAIN (a \o b) : a[j] = (a \o b)[k]
    <3>1. j \in DOMAIN (a \o b) /\ (a \o b)[j] = a[j]
      BY <1>5, <1>6
    <3> QED
      BY <3>1
  <2>3. ASSUME NEW j \in DOMAIN b PROVE \E k \in DOMAIN (a \o b) : b[j] = (a \o b)[k]
    <3>1. j + Len(a) \in DOMAIN (a \o b) /\ (a \o b)[j + Len(a)] = b[j]
      BY <1>5, <1>6
    <3> QED
      BY <3>1
  <2> QED
    BY <2>1, <2>2, <2>3
<1>8. tcpdumpIfs[m] = b
  BY DEF b
<1>9. ASSUME tcpdumpIfs[m] = inst[i].byNetwork, NEW key
      PROVE  (\E k \in DOMAIN Sessions(i, m) : key = Sessions(i, m)[k]) <=> key \in InterfaceNames(i)
  <2>1. InterfaceNames(i) = {a[k] : k \in DOMAIN a} \cup {b[k] : k \in DOMAIN b}
    BY <1>3, <1>8, <1>9
  <2> QED
    BY <1>2, <1>7, <2>1
<1> QED
  BY <1>2, <1>5, <1>9

\* A monitoring is installed, then comes up.
LEMMA UpIs ==
  ASSUME NEW class, NEW i
  PROVE  /\ Len(Up(class, i)) = 2
         /\ Up(class, i)[1] = [op |-> "install", class |-> class]
         /\ Up(class, i)[2] = [op |-> "up", class |-> class, path |-> <<class>>, i |-> i]
<1> DEFINE x == [op |-> "install", class |-> class]
           y == [op |-> "up", class |-> class, path |-> <<class>>, i |-> i]
<1>1. Up(class, i) = <<x>> \o <<y>>
  BY DEF Up, InstallTasks
<1> HIDE DEF x, y
<1>2. <<x>> \in Seq({x, y}) /\ <<y>> \in Seq({x, y})
  OBVIOUS
<1>3. Len(<<x>>) = 1 /\ Len(<<y>>) = 1 /\ <<x>>[1] = x /\ <<y>>[1] = y
  OBVIOUS
<1>4. Len(<<x>> \o <<y>>) = 2 /\ (<<x>> \o <<y>>)[1] = x /\ (<<x>> \o <<y>>)[2] = y
  BY <1>2, <1>3
<1> QED
  BY <1>1, <1>4 DEF x, y

LEMMA TasksAre ==
  ASSUME inst \in Scenarios, NEW i \in Instances, NEW m \in Machines, tcpdumpIfs[m] \in Seq(Interfaces),
         NEW what \in CallNames
  PROVE  TasksOK(i, what, m, Tasks(i, what, m))
<1>0. Class(i) \in Classes
  BY MakesAre DEF Class
<1>1. CASE Class(i) = "dstat"
  <2>1. Tasks(i, what, m) = DstatTasks(i, what)
    BY <1>1 DEF Tasks
  <2>2. KeysOn(i, m) = {"dstat"}
    BY <1>1 DEF KeysOn
  <2> QED
    BY <1>1, <2>1, <2>2 DEF TasksOK, DstatTasks, StartTask, Halt, CallNames
<1>2. CASE Class(i) = "dask"
  <2>1. Tasks(i, what, m) = DaskTasks(i, what)
    BY <1>2 DEF Tasks
  <2>2. KeysOn(i, m) = {"dask"}
    BY <1>2 DEF KeysOn
  <2> QED
    BY <1>2, <2>1, <2>2 DEF TasksOK, DaskTasks, StartTask, Halt, CallNames
<1>3. CASE Class(i) = "locust"
  <2>1. Tasks(i, what, m) = LocustTasks(i, what)
    BY <1>3 DEF Tasks
  <2> QED
    BY <1>3, <2>1 DEF TasksOK, LocustTasks, CallNames
<1>4. CASE Class(i) = "tcpdump"
  <2> DEFINE keys == Sessions(i, m)
  <2>1. Tasks(i, what, m) = TcpdumpTasks(i, what, m)
    BY <1>4 DEF Tasks
  <2>2. keys \in Seq(Interfaces) /\ KeysOn(i, m) = {keys[k] : k \in DOMAIN keys}
    BY <1>4, SessionsAre DEF KeysOn
  <2>3. DOMAIN keys = 1..Len(keys) /\ Len(keys) \in Nat
    BY <2>2
  <2>4. CASE what = "deploy"
    <3>1. Tasks(i, what, m) = [k \in DOMAIN keys |-> StartTask(keys[k], <<"tcpdump", keys[k]>>, i)]
      BY <2>1, <2>4 DEF TcpdumpTasks, ForEach
    <3> HIDE DEF keys
    <3>2. Len(Tasks(i, what, m)) = Len(keys)
      BY <2>3, <3>1
    <3>3. \A k \in DOMAIN keys : Tasks(i, what, m)[k].op = "start" /\ Tasks(i, what, m)[k].key = keys[k]
             /\ Tasks(i, what, m)[k].i = i
      BY <3>1 DEF StartTask
    <3> QED
      BY <1>4, <2>2, <2>3, <2>4, <3>2, <3>3 DEF TasksOK
  <2>5. CASE what = "destroy"
    <3>1. Tasks(i, what, m) = [k \in DOMAIN keys |-> Halt(keys[k])]
      BY <2>1, <2>5 DEF TcpdumpTasks, ForEach
    <3> HIDE DEF keys
    <3>2. Len(Tasks(i, what, m)) = Len(keys)
      BY <2>3, <3>1
    <3>3. \A k \in DOMAIN keys : Tasks(i, what, m)[k].op = "stop" /\ Tasks(i, what, m)[k].key = keys[k]
      BY <3>1 DEF Halt
    <3> QED
      BY <1>4, <2>2, <2>3, <2>5, <3>2, <3>3 DEF TasksOK
  <2>6. CASE what = "backup"
    BY <1>4, <2>1, <2>6 DEF TasksOK, TcpdumpTasks
  <2> QED
    BY <2>4, <2>5, <2>6 DEF CallNames
<1>5. CASE Class(i) \in {"tig", "tpg"}
  <2>1. /\ Len(Up(Class(i), i)) = 2
        /\ Up(Class(i), i)[1] = [op |-> "install", class |-> Class(i)]
        /\ Up(Class(i), i)[2] = [op |-> "up", class |-> Class(i), path |-> <<Class(i)>>, i |-> i]
    BY UpIs
  <2>2. CASE what = "deploy"
    <3>1. Tasks(i, what, m) = Up(Class(i), i)
      BY <1>5, <2>2 DEF Tasks, TigTasks, TpgTasks
    <3> QED
      BY <1>5, <2>1, <2>2, <3>1 DEF TasksOK
  <2>3. CASE what # "deploy"
    <3>1. CASE Class(i) = "tig"
      <4>1. Tasks(i, what, m) = TigTasks(i, what)
        BY <3>1 DEF Tasks
      <4> QED
        BY <2>3, <3>1, <4>1 DEF TasksOK, TigTasks, CallNames
    <3>2. CASE Class(i) = "tpg"
      <4>1. Tasks(i, what, m) = TpgTasks(i, what)
        BY <3>2 DEF Tasks
      <4> QED
        BY <2>3, <3>2, <4>1 DEF TasksOK, TpgTasks, CallNames
    <3> QED
      BY <1>5, <3>1, <3>2
  <2> QED
    BY <2>2, <2>3
<1>6. CASE Class(i) \in {"docker", "k3s", "skydive"}
  <2>1. Tasks(i, what, m) = InstallTasks(Class(i), what)
    BY <1>6 DEF Tasks
  <2> QED
    BY <1>6, <2>1 DEF TasksOK, InstallTasks
<1> QED
  BY <1>0, <1>1, <1>2, <1>3, <1>4, <1>5, <1>6 DEF Classes

\* What a call does to the machines of an instance, and to no other.
LEMMA RunningIs ==
  ASSUME ServIInv, NEW i \in Instances, Running(i)
  PROVE  /\ agenda[i][1] \in CallNames /\ DOMAIN host' = Machines
         /\ \A m \in Machines :
              /\ DOMAIN host'[m] = HostFields
              /\ \A s \in host'[m].tmux : s \in host[m].tmux \/
                    /\ agenda[i][1] = "deploy" /\ m \in inst[i].hosts /\ s.by = i
                    /\ s.key \in KeysOn(i, m) /\ Class(i) \in {"dstat", "dask", "tcpdump"}
              /\ \A u \in host'[m].up : u \in host[m].up \/
                    /\ agenda[i][1] = "deploy" /\ m \in inst[i].hosts /\ u.by = i
                    /\ u.class = Class(i) /\ Class(i) \in {"tig", "tpg"}
         /\ agenda[i][1] = "destroy" /\ phase'[i] \notin {"raised", "stuck"} => \A m \in inst[i].hosts :
              /\ Class(i) \in {"dstat", "dask", "tcpdump"} =>
                    \A s \in host'[m].tmux : s.key \notin KeysOn(i, m)
              /\ Class(i) \in {"tig", "tpg"} => \A u \in host'[m].up : u.class # Class(i)
<1> DEFINE what == agenda[i][1]
           hosts == inst[i].hosts
           ok(done) == \A m \in hosts : done[m] = Len(Tasks(i, what, m))
<1>1. what \in CallNames
  <2>1. agenda[i] \in Agendas /\ agenda[i] # <<>>
    BY DEF ServIInv, AgendaOK, Running
  <2> QED
    BY <2>1 DEF Agendas, CallNames
<1>2. PICK done \in [hosts -> 0..3] :
         /\ \A m \in hosts : done[m] \in Outcomes(i, m)
         /\ host' = [m \in Machines |-> IF m \in hosts THEN Did(host[m], Tasks(i, what, m), done[m]) ELSE host[m]]
         /\ ~ok(done) => phase'[i] \in {"raised", "stuck"}
  BY DEF Running, ServIInv, AgendaOK, MaxTasks
<1>3. hosts \subseteq Machines /\ \A m \in Machines : tcpdumpIfs[m] \in Seq(Interfaces) /\ DOMAIN host[m] = HostFields
  BY MakesAre DEF ServIInv, IfsOK, HostsOK
<1> HIDE DEF what, hosts
<1>4. ASSUME NEW m \in hosts
      PROVE  /\ TasksOK(i, what, m, Tasks(i, what, m)) /\ done[m] \in 0..3 /\ done[m] \in 0..Len(Tasks(i, what, m))
             /\ host'[m] = Did(host[m], Tasks(i, what, m), done[m]) /\ DOMAIN host[m] = HostFields
  <2>1. TasksOK(i, what, m, Tasks(i, what, m))
    BY <1>1, <1>3, TasksAre DEF ServIInv
  <2>2. done[m] \in 0..Len(Tasks(i, what, m))
    BY <1>2 DEF Outcomes, what
  <2> QED
    BY <1>2, <1>3, <2>1, <2>2
<1>5. ASSUME NEW m \in hosts
      PROVE  /\ DOMAIN host'[m] = HostFields
             /\ \A s \in host'[m].tmux : s \in host[m].tmux \/
                    (what = "deploy" /\ s.by = i /\ s.key \in KeysOn(i, m) /\ Class(i) \in {"dstat", "dask", "tcpdump"})
             /\ \A u \in host'[m].up : u \in host[m].up \/
                    (what = "deploy" /\ u.by = i /\ u.class = Class(i) /\ Class(i) \in {"tig", "tpg"})
             /\ what = "destroy" /\ done[m] = Len(Tasks(i, what, m)) =>
                  /\ Class(i) \in {"dstat", "dask", "tcpdump"} =>
                        \A s \in host'[m].tmux : s.key \notin KeysOn(i, m)
                  /\ Class(i) \in {"tig", "tpg"} => \A u \in host'[m].up : u.class # Class(i)
  <2> DEFINE tasks == Tasks(i, what, m)
             n == done[m]
             g == Did(host[m], tasks, n)
  <2>1. /\ TasksOK(i, what, m, tasks) /\ n \in 0..3 /\ n \in 0..Len(tasks)
        /\ host'[m] = g /\ DOMAIN host[m] = HostFields
    BY <1>4
  <2> HIDE DEF tasks, n
  <2>2. /\ DOMAIN g = HostFields
        /\ \A s \in g.tmux : s \in host[m].tmux \/ \E k \in 1..n :
              tasks[k].op = "start" /\ s = [key |-> tasks[k].key, by |-> tasks[k].i]
        /\ \A u \in g.up : u \in host[m].up \/ \E k \in 1..n :
              tasks[k].op = "up" /\ u = [class |-> tasks[k].class, by |-> tasks[k].i]
        /\ (\A k \in 1..n : tasks[k].op # "start") =>
              \A k \in 1..n : tasks[k].op = "stop" => \A s \in g.tmux : s.key # tasks[k].key
        /\ (\A k \in 1..n : tasks[k].op # "up") =>
              \A k \in 1..n : tasks[k].op = "down" => \A u \in g.up : u.class # tasks[k].class
    <3>1. Steps(host[m], g, tasks, n)
      BY <2>1, DidKeeps
    <3> QED
      BY <3>1 DEF Steps
  <2> HIDE DEF g
  <2>3. 1..n \subseteq 1..Len(tasks)
    BY <2>1 DEF TasksOK
  <2>4. ASSUME NEW s \in g.tmux, s \notin host[m].tmux
        PROVE  what = "deploy" /\ s.by = i /\ s.key \in KeysOn(i, m) /\ Class(i) \in {"dstat", "dask", "tcpdump"}
    <3>1. PICK k \in 1..n : tasks[k].op = "start" /\ s = [key |-> tasks[k].key, by |-> tasks[k].i]
      BY <2>2, <2>4
    <3> QED
      BY <2>1, <2>3, <3>1 DEF TasksOK
  <2>5. ASSUME NEW u \in g.up, u \notin host[m].up
        PROVE  what = "deploy" /\ u.by = i /\ u.class = Class(i) /\ Class(i) \in {"tig", "tpg"}
    <3>1. PICK k \in 1..n : tasks[k].op = "up" /\ u = [class |-> tasks[k].class, by |-> tasks[k].i]
      BY <2>2, <2>5
    <3> QED
      BY <2>1, <2>3, <3>1 DEF TasksOK
  <2>6. ASSUME what = "destroy", n = Len(tasks)
        PROVE  /\ Class(i) \in {"dstat", "dask", "tcpdump"} => \A s \in g.tmux : s.key \notin KeysOn(i, m)
               /\ Class(i) \in {"tig", "tpg"} => \A u \in g.up : u.class # Class(i)
    <3>1. \A k \in 1..n : tasks[k].op # "start" /\ tasks[k].op # "up"
      BY <2>1, <2>3, <2>6 DEF TasksOK
    <3>2. \A k \in 1..n : tasks[k].op = "stop" => \A s \in g.tmux : s.key # tasks[k].key
      BY <2>2, <3>1
    <3>3. \A k \in 1..n : tasks[k].op = "down" => \A u \in g.up : u.class # tasks[k].class
      BY <2>2, <3>1
    <3>4. Class(i) \in {"dstat", "dask", "tcpdump"} =>
             \A key \in KeysOn(i, m) : \E k \in 1..n : tasks[k].op = "stop" /\ tasks[k].key = key
      BY <2>1, <2>6 DEF TasksOK
    <3>5. Class(i) \in {"tig", "tpg"} => \E k \in 1..n : tasks[k].op = "down" /\ tasks[k].class = Class(i)
      BY <2>1, <2>6 DEF TasksOK
    <3> QED
      BY <3>2, <3>3, <3>4, <3>5
  <2>7. \A s \in g.tmux : s \in host[m].tmux \/
           (what = "deploy" /\ s.by = i /\ s.key \in KeysOn(i, m) /\ Class(i) \in {"dstat", "dask", "tcpdump"})
    BY <2>4
  <2>8. \A u \in g.up : u \in host[m].up \/
           (what = "deploy" /\ u.by = i /\ u.class = Class(i) /\ Class(i) \in {"tig", "tpg"})
    BY <2>5
  <2>9. DOMAIN g = HostFields
    BY <2>2
  <2>10. what = "destroy" /\ done[m] = Len(Tasks(i, what, m)) =>
            /\ Class(i) \in {"dstat", "dask", "tcpdump"} => \A s \in g.tmux : s.key \notin KeysOn(i, m)
            /\ Class(i) \in {"tig", "tpg"} => \A u \in g.up : u.class # Class(i)
    BY <2>6 DEF n, tasks
  <2> QED
    BY <2>1, <2>7, <2>8, <2>9, <2>10
<1>6. \A m \in Machines \ hosts : host'[m] = host[m]
  BY <1>2
<1>7. phase'[i] \notin {"raised", "stuck"} => \A m \in hosts : done[m] = Len(Tasks(i, what, m))
  BY <1>2
<1>8. DOMAIN host' = Machines
  BY <1>2
<1>9. ASSUME NEW m \in Machines
      PROVE  /\ DOMAIN host'[m] = HostFields
             /\ \A s \in host'[m].tmux : s \in host[m].tmux \/
                    /\ what = "deploy" /\ m \in hosts /\ s.by = i
                    /\ s.key \in KeysOn(i, m) /\ Class(i) \in {"dstat", "dask", "tcpdump"}
             /\ \A u \in host'[m].up : u \in host[m].up \/
                    /\ what = "deploy" /\ m \in hosts /\ u.by = i
                    /\ u.class = Class(i) /\ Class(i) \in {"tig", "tpg"}
  BY <1>3, <1>5, <1>6
<1> QED
  BY <1>1, <1>3, <1>5, <1>7, <1>8, <1>9 DEF what, hosts

\* What is left of an agenda.
LEMMA AgendasAre ==
  ASSUME NEW a \in Agendas, a # <<>>
  PROVE  /\ Tail(a) \in Agendas
         /\ a \in {<<"destroy", "backup">>, <<"backup">>, <<"destroy">>, <<"backup", "destroy">>} =>
              /\ a[1] \in {"destroy", "backup"}
              /\ Len(a) # 1 => Tail(a) \in {<<"backup">>, <<"destroy">>}
              /\ Len(a) # 1 /\ Tail(a) = <<"backup">> => a[1] = "destroy"
              /\ Len(a) = 1 => Tail(a) = <<>> /\ a \in {<<"backup">>, <<"destroy">>}
              /\ Len(a) = 1 /\ a[1] = "backup" => a = <<"backup">>
<1>1. CASE a = <<"deploy">>
  BY <1>1 DEF Agendas
<1>2. CASE a = <<"destroy">>
  BY <1>2 DEF Agendas
<1>3. CASE a = <<"backup">>
  BY <1>3 DEF Agendas
<1>4. CASE a = <<"destroy", "deploy">>
  BY <1>4 DEF Agendas
<1>5. CASE a = <<"destroy", "backup">>
  BY <1>5 DEF Agendas
<1>6. CASE a = <<"backup", "destroy">>
  BY <1>6 DEF Agendas
<1> QED
  BY <1>1, <1>2, <1>3, <1>4, <1>5, <1>6 DEF Agendas

LEMMA ServInitOK == ServInit => ServIInv
<1> SUFFICES ASSUME ServInit PROVE ServIInv
  OBVIOUS
<1>1. <<>> \in Agendas /\ <<>> \in Seq(Interfaces)
  BY DEF Agendas
<1>2. HostsOK
  BY DEF ServInit, HostsOK, HostFields
<1>3. IfsOK
  BY <1>1 DEF ServInit, IfsOK
<1>4. AgendaOK
  BY <1>1 DEF ServInit, AgendaOK
<1> QED
  BY <1>2, <1>3, <1>4 DEF ServInit, ServIInv

\* Undisturbed, an instance uses its own names.
LEMMA KeysAgree ==
  ASSUME ServIInv, NEW i \in made, Alone(i), NEW m \in inst[i].hosts
  PROVE  KeysOn(i, m) = KeysOf(i)
<1>1. m \in Machines /\ i \in Instances /\ inst \in Scenarios
  BY MakesAre DEF ServIInv
<1>2. CASE Class(i) = "tcpdump"
  <2>1. tcpdumpIfs[m] = inst[i].byNetwork /\ tcpdumpIfs[m] \in Seq(Interfaces)
    BY <1>1, <1>2 DEF ServIInv, IfsOK
  <2>2. \A key : (\E k \in DOMAIN Sessions(i, m) : key = Sessions(i, m)[k]) <=> key \in InterfaceNames(i)
    BY <1>1, <2>1, SessionsAre
  <2> QED
    BY <1>2, <2>2 DEF KeysOn, KeysOf
<1>3. CASE Class(i) # "tcpdump"
  BY <1>3 DEF KeysOn, KeysOf
<1> QED
  BY <1>2, <1>3

LEMMA ServStepOK == ServIInv /\ [ServNext]_servVars => ServIInv'
<1> SUFFICES ASSUME ServIInv, [ServNext]_servVars PROVE ServIInv'
  OBVIOUS
<1>0. /\ inst \in Scenarios /\ made \subseteq Instances /\ DOMAIN host = Machines /\ HostsOK /\ IfsOK /\ AgendaOK
      /\ agenda \in [Instances -> Agendas] /\ DOMAIN phase = Instances
  BY DEF ServIInv, AgendaOK
<1>a. <<>> \in Agendas
  BY DEF Agendas
<1>1. ASSUME NEW i \in Instances, Make(i) PROVE ServIInv'
  <2>1. /\ UNCHANGED <<inst, host, saved, agenda, phase, uses, met>>
        /\ i \notin made /\ made' = made \cup {i} /\ tcpdumpIfs' = TcpdumpIfs(i)
    BY <1>1 DEF Make
  <2>2. \A j : Alone(j)' => Alone(j)
    BY <2>1, AloneBefore
  <2>3. \A j : KeysOf(j)' = KeysOf(j) /\ Class(j)' = Class(j)
    BY <2>1 DEF KeysOf, Class, InterfaceNames
  <2>4. HostsOK'
    BY <1>0, <2>1, <2>2, <2>3 DEF HostsOK
  <2>5. AgendaOK'
    <3>1. \A j : Clean(j)' <=> Clean(j)
      BY <2>1 DEF Clean
    <3> QED
      BY <1>0, <2>1, <2>2, <3>1 DEF AgendaOK
  <2>6. IfsOK'
    <3>1. tcpdumpIfs' \in [Machines -> Seq(Interfaces)]
      BY <1>0, <2>1, MakesAre DEF IfsOK, TcpdumpIfs
    <3>2. ASSUME NEW j \in made', Class(j) = "tcpdump", Alone(j)', NEW m \in inst[j].hosts
          PROVE  tcpdumpIfs'[m] = inst[j].byNetwork
      <4>1. j \in Instances /\ m \in Machines
        BY <1>0, <2>1, MakesAre
      <4>2. tcpdumpIfs'[m] = IF Class(i) = "tcpdump" /\ m \in inst[i].hosts THEN inst[i].byNetwork
                             ELSE tcpdumpIfs[m]
        BY <2>1, <4>1 DEF TcpdumpIfs
      <4>3. CASE j = i
        BY <3>2, <4>2, <4>3
      <4>4. CASE j # i
        <5>1. j \in made /\ Alone(j)
          BY <2>1, <2>2, <3>2, <4>4
        <5>2. tcpdumpIfs[m] = inst[j].byNetwork
          BY <1>0, <3>2, <5>1 DEF IfsOK
        <5>3. ASSUME Class(i) = "tcpdump", m \in inst[i].hosts
              PROVE  inst[i].byNetwork = <<>> /\ inst[j].byNetwork = <<>>
          <6>1. ~Disturb(j, i)'
            BY <3>2 DEF Alone
          <6>2. Class(j)' = "tcpdump" /\ Class(i)' = "tcpdump" /\ {j, i} \subseteq made'
                /\ inst'[j].hosts \cap inst'[i].hosts # {}
            BY <2>1, <2>3, <3>2, <5>1, <5>3
          <6> QED
            BY <2>1, <4>4, <6>1, <6>2 DEF Disturb
        <5> QED
          BY <4>2, <5>2, <5>3
      <4> QED
        BY <4>3, <4>4
    <3> QED
      BY <2>1, <2>3, <3>1, <3>2 DEF IfsOK
  <2> QED
    BY <1>0, <2>1, <2>4, <2>5, <2>6 DEF ServIInv
<1>2. ASSUME NEW i \in Instances, NEW next \in Agendas, NEW where \in {"entering", "leaving", "idle"},
             Begin(i, next, where), i \in made,
             where = "leaving" => next \in {<<"destroy", "backup">>, <<"destroy">>, <<"backup", "destroy">>}
      PROVE  ServIInv'
  <2>1. /\ UNCHANGED <<inst, made, tcpdumpIfs, host>> /\ met \subseteq met'
        /\ agenda' = [agenda EXCEPT ![i] = next] /\ phase' = [phase EXCEPT ![i] = where]
    BY <1>2 DEF Begin
  <2>2. \A j : Alone(j)' => Alone(j)
    BY <2>1, AloneBefore
  <2>3. \A j : KeysOf(j)' = KeysOf(j) /\ Class(j)' = Class(j) /\ (Clean(j)' <=> Clean(j))
    BY <2>1 DEF KeysOf, Class, InterfaceNames, Clean
  <2>4. HostsOK' /\ IfsOK'
    BY <1>0, <2>1, <2>2, <2>3 DEF HostsOK, IfsOK
  <2>5. agenda' \in [Instances -> Agendas] /\ DOMAIN phase' = Instances
    BY <1>0, <1>2, <2>1
  <2>6. ASSUME NEW j \in Instances, j # i
        PROVE  agenda'[j] = agenda[j] /\ phase'[j] = phase[j]
    BY <1>0, <2>1, <2>6
  <2>7. agenda'[i] = next /\ phase'[i] = where
    BY <1>0, <2>1
  <2>8. <<"destroy", "backup">> # <<"backup">> /\ <<"destroy">> # <<"backup">>
        /\ <<"backup", "destroy">> # <<"backup">>
    OBVIOUS
  <2>9. AgendaOK'
    BY <1>0, <1>2, <2>1, <2>2, <2>3, <2>5, <2>6, <2>7, <2>8 DEF AgendaOK
  <2> QED
    BY <1>0, <2>1, <2>4, <2>9 DEF ServIInv
<1>3. ASSUME NEW i \in Instances, With(i) PROVE ServIInv'
  <2>1. EnterCalls(Class(i)) \in Agendas
    BY DEF EnterCalls, Agendas
  <2> QED
    BY <1>2, <1>3, <2>1 DEF With
<1>4. ASSUME NEW i \in Instances, Leave(i) PROVE ServIInv'
  <2>1. ExitCalls(Class(i)) \in {<<"destroy", "backup">>, <<"destroy">>, <<"backup", "destroy">>}
    BY DEF ExitCalls
  <2>2. i \in made
    BY <1>0, <1>4 DEF Leave, AgendaOK
  <2> QED
    BY <1>2, <1>4, <2>1, <2>2 DEF Leave, Agendas
<1>5. ASSUME NEW i \in Instances, NEW what \in CallNames, Call(i, what) PROVE ServIInv'
  <2>1. <<what>> \in Agendas
    BY DEF CallNames, Agendas
  <2> QED
    BY <1>2, <1>5, <2>1 DEF Call
<1>6. ASSUME NEW i \in Instances, Running(i) PROVE ServIInv'
  <2>1. /\ UNCHANGED <<inst, made, tcpdumpIfs, met>> /\ agenda[i] # <<>>
    BY <1>6 DEF Running
  <2>2. \A j : Alone(j)' => Alone(j)
    BY <2>1, AloneBefore
  <2>3. \A j : KeysOf(j)' = KeysOf(j) /\ Class(j)' = Class(j)
    BY <2>1 DEF KeysOf, Class, InterfaceNames
  <2> DEFINE what == agenda[i][1]
  <2>4. /\ what \in CallNames /\ DOMAIN host' = Machines
        /\ \A m \in Machines :
             /\ DOMAIN host'[m] = HostFields
             /\ \A s \in host'[m].tmux : s \in host[m].tmux \/
                   /\ what = "deploy" /\ m \in inst[i].hosts /\ s.by = i
                   /\ s.key \in KeysOn(i, m) /\ Class(i) \in {"dstat", "dask", "tcpdump"}
             /\ \A u \in host'[m].up : u \in host[m].up \/
                   /\ what = "deploy" /\ m \in inst[i].hosts /\ u.by = i
                   /\ u.class = Class(i) /\ Class(i) \in {"tig", "tpg"}
        /\ what = "destroy" /\ phase'[i] \notin {"raised", "stuck"} => \A m \in inst[i].hosts :
             /\ Class(i) \in {"dstat", "dask", "tcpdump"} =>
                   \A s \in host'[m].tmux : s.key \notin KeysOn(i, m)
             /\ Class(i) \in {"tig", "tpg"} => \A u \in host'[m].up : u.class # Class(i)
    BY <1>6, RunningIs
  <2>5. ASSUME Alone(i), NEW m \in inst[i].hosts PROVE KeysOn(i, m) = KeysOf(i)
    <3>1. i \in made
      BY <1>0, <2>1 DEF AgendaOK
    <3> QED
      BY <2>5, <3>1, KeysAgree
  <2> HIDE DEF what
  <2>6. HostsOK'
    <3>1. ASSUME NEW m \in Machines, NEW s \in host'[m].tmux
          PROVE  /\ s.by \in Instances /\ m \in inst[s.by].hosts
                 /\ Class(s.by) \in {"dstat", "dask", "tcpdump"}
                 /\ Alone(s.by) => s.key \in KeysOf(s.by)
      <4>1. CASE s \in host[m].tmux
        BY <1>0, <4>1 DEF HostsOK
      <4>2. CASE s \notin host[m].tmux
        BY <2>4, <2>5, <4>2
      <4> QED
        BY <4>1, <4>2
    <3>2. ASSUME NEW m \in Machines, NEW u \in host'[m].up
          PROVE  /\ u.by \in Instances /\ m \in inst[u.by].hosts
                 /\ u.class = Class(u.by) /\ u.class \in {"tig", "tpg"}
      <4>1. CASE u \in host[m].up
        BY <1>0, <4>1 DEF HostsOK
      <4>2. CASE u \notin host[m].up
        BY <2>4, <4>2
      <4> QED
        BY <4>1, <4>2
    <3> QED
      BY <2>1, <2>2, <2>3, <2>4, <3>1, <3>2 DEF HostsOK
  <2>7. \A j \in Instances : Clean(j) /\ (j # i \/ what # "deploy") => Clean(j)'
    BY <2>4 DEF Clean
  <2>8. ASSUME what = "destroy", Alone(i)', phase'[i] \notin {"raised", "stuck"} PROVE Clean(i)'
    <3>1. ASSUME NEW m \in Machines, NEW s \in host'[m].tmux PROVE s.by # i
      <4> SUFFICES ASSUME s.by = i PROVE FALSE
        OBVIOUS
      <4>1. m \in inst[i].hosts /\ Class(i) \in {"dstat", "dask", "tcpdump"} /\ s.key \in KeysOf(i)
        BY <2>1, <2>3, <2>6, <2>8, <3>1 DEF HostsOK
      <4>2. KeysOn(i, m) = KeysOf(i)
        BY <2>2, <2>5, <2>8, <4>1
      <4> QED
        BY <2>4, <2>8, <4>1, <4>2
    <3>2. ASSUME NEW m \in Machines, NEW u \in host'[m].up PROVE u.by # i
      <4> SUFFICES ASSUME u.by = i PROVE FALSE
        OBVIOUS
      <4>1. m \in inst[i].hosts /\ u.class = Class(i) /\ Class(i) \in {"tig", "tpg"}
        BY <2>1, <2>3, <2>6, <3>2 DEF HostsOK
      <4> QED
        BY <2>4, <2>8, <4>1
    <3> QED
      BY <3>1, <3>2 DEF Clean
  <2>9. /\ \A j \in Instances : j # i => agenda'[j] = agenda[j] /\ phase'[j] = phase[j]
        /\ agenda'[i] \in {<<>>, Tail(agenda[i])}
        /\ agenda' \in [Instances -> Agendas] /\ DOMAIN phase' = Instances
        /\ \/ agenda'[i] = <<>> /\ phase'[i] \in {"raised", "stuck"}
           \/ /\ agenda'[i] = Tail(agenda[i])
              /\ phase'[i] = IF Len(agenda[i]) = 1 THEN After(phase[i]) ELSE phase[i]
    <3>1. PICK ok \in BOOLEAN :
             /\ agenda' = [agenda EXCEPT ![i] = IF ok THEN Tail(@) ELSE <<>>]
             /\ \E new : /\ phase' = [phase EXCEPT ![i] = new]
                         /\ ~ok => new \in {"raised", "stuck"}
                         /\ ok => new = IF Len(agenda[i]) = 1 THEN After(phase[i]) ELSE phase[i]
      BY <1>0, <1>6 DEF Running
    <3>2. Tail(agenda[i]) \in Agendas
      BY <1>0, <2>1, AgendasAre
    <3> QED
      BY <1>0, <1>a, <3>1, <3>2
  <2>10. AgendaOK'
    <3>1. ASSUME NEW j \in Instances, j # i
          PROVE  /\ agenda'[j] # <<>> \/ phase'[j] # "idle" => j \in made'
                 /\ phase'[j] = "leaving" =>
                       /\ agenda'[j] \in {<<"destroy", "backup">>, <<"backup">>, <<"destroy">>, <<"backup", "destroy">>}
                       /\ agenda'[j] = <<"backup">> /\ Alone(j)' => Clean(j)'
                 /\ phase'[j] = "left" => agenda'[j] = <<>> /\ (Alone(j)' => Clean(j)')
      BY <1>0, <2>1, <2>2, <2>7, <2>9, <3>1 DEF AgendaOK
    <3>2. i \in made'
      BY <1>0, <2>1, <2>9 DEF AgendaOK
    <3>3. ASSUME phase'[i] \in {"leaving", "left"}
          PROVE  /\ phase[i] \in {"leaving", "left"} /\ agenda'[i] = Tail(agenda[i])
                 /\ phase'[i] = "left" => Len(agenda[i]) = 1
                 /\ phase'[i] = "leaving" => Len(agenda[i]) # 1
      BY <1>0, <2>1, <2>9, <3>3 DEF After, AgendaOK
    <3>4. phase'[i] \in {"leaving", "left"} =>
             /\ agenda[i] \in {<<"destroy", "backup">>, <<"backup">>, <<"destroy">>, <<"backup", "destroy">>}
             /\ agenda[i] = <<"backup">> /\ Alone(i) => Clean(i)
      BY <1>0, <2>1, <3>3 DEF AgendaOK
    <3>5. agenda[i] \in Agendas
      BY <1>0
    <3>6. phase'[i] = "leaving" =>
                       /\ agenda'[i] \in {<<"destroy", "backup">>, <<"backup">>, <<"destroy">>, <<"backup", "destroy">>}
                       /\ agenda'[i] = <<"backup">> /\ Alone(i)' => Clean(i)'
      BY <2>1, <2>8, <3>3, <3>4, <3>5, AgendasAre DEF what
    <3>7. phase'[i] = "left" => agenda'[i] = <<>> /\ (Alone(i)' => Clean(i)')
      BY <2>1, <2>2, <2>7, <2>8, <3>3, <3>4, <3>5, AgendasAre DEF what
    <3> QED
      BY <2>9, <3>1, <3>2, <3>6, <3>7 DEF AgendaOK
  <2>11. IfsOK'
    BY <1>0, <2>1, <2>2, <2>3 DEF IfsOK
  <2> QED
    BY <1>0, <2>1, <2>4, <2>6, <2>10, <2>11 DEF ServIInv
<1>7. ASSUME NEW m \in Machines, BenchEnds(m) PROVE ServIInv'
  <2>1. UNCHANGED <<inst, made, tcpdumpIfs, agenda, phase, met>> /\ host' = [host EXCEPT ![m].procs = {}]
    BY <1>7 DEF BenchEnds
  <2>2. \A j : Alone(j)' => Alone(j)
    BY <2>1, AloneBefore
  <2>3. \A n \in Machines : DOMAIN host'[n] = HostFields /\ host'[n].tmux = host[n].tmux /\ host'[n].up = host[n].up
    BY <1>0, <2>1 DEF HostsOK, HostFields
  <2>4. \A j : KeysOf(j)' = KeysOf(j) /\ Class(j)' = Class(j) /\ (Clean(j)' <=> Clean(j))
    BY <2>1, <2>3 DEF KeysOf, Class, InterfaceNames, Clean
  <2>5. HostsOK'
    BY <1>0, <2>1, <2>2, <2>3, <2>4 DEF HostsOK
  <2>6. IfsOK' /\ AgendaOK'
    BY <1>0, <2>1, <2>2, <2>4 DEF IfsOK, AgendaOK
  <2> QED
    BY <1>0, <2>1, <2>5, <2>6 DEF ServIInv
<1>8. CASE Abandon
  <2>1. /\ UNCHANGED <<inst, made, tcpdumpIfs, host, met>>
        /\ agenda' = [i \in Instances |-> <<>>]
        /\ phase' = [i \in Instances |-> IF Active(i) THEN "raised" ELSE phase[i]]
    BY <1>8 DEF Abandon
  <2>2. \A j : Alone(j)' => Alone(j)
    BY <2>1, AloneBefore
  <2>3. \A j : KeysOf(j)' = KeysOf(j) /\ Class(j)' = Class(j) /\ (Clean(j)' <=> Clean(j))
    BY <2>1 DEF KeysOf, Class, InterfaceNames, Clean
  <2>4. HostsOK' /\ IfsOK'
    BY <1>0, <2>1, <2>2, <2>3 DEF HostsOK, IfsOK
  <2>5. \A i \in Instances : phase'[i] # "leaving" /\ (phase'[i] = "left" => phase[i] = "left")
    BY <2>1 DEF Active
  <2>6. \A i \in Instances : phase'[i] # "idle" => i \in made
    BY <1>0, <2>1 DEF Active, AgendaOK
  <2>7. AgendaOK'
    BY <1>0, <1>a, <2>1, <2>2, <2>3, <2>5, <2>6 DEF AgendaOK
  <2> QED
    BY <1>0, <2>1, <2>4, <2>7 DEF ServIInv
<1>9. CASE UNCHANGED servVars
  <2>1. UNCHANGED <<inst, made, tcpdumpIfs, host, agenda, phase, met>>
    BY <1>9 DEF servVars
  <2>2. \A j : Alone(j)' => Alone(j)
    BY <2>1, AloneBefore
  <2>3. \A j : KeysOf(j)' = KeysOf(j) /\ Class(j)' = Class(j) /\ (Clean(j)' <=> Clean(j))
    BY <2>1 DEF KeysOf, Class, InterfaceNames, Clean
  <2>4. HostsOK' /\ IfsOK' /\ AgendaOK'
    BY <1>0, <2>1, <2>2, <2>3 DEF HostsOK, IfsOK, AgendaOK
  <2> QED
    BY <1>0, <2>1, <2>4 DEF ServIInv
<1> QED
  BY <1>1, <1>3, <1>4, <1>5, <1>6, <1>7, <1>8, <1>9 DEF ServNext, CallNames

LEMMA ServicesRun == Spec => []ServIInv
<1>1. Init => ServInit
  BY DEF Init
<1>2. [Next]_vars => [ServNext]_servVars
  BY DEF Next, vars, machineVars
<1> QED
  BY <1>1, <1>2, ServInitOK, ServStepOK, PTL DEF Spec

\* Once destroyed, or left, a service or a stream leaves nothing on the machines:
\* nothing emulated, no entry of a planning and no process of it, no session, container
\* or database of an instance that no other disturbs, no tool or tunnel of a stream
\* (the destroys, and the "with" of Service and of IotlabSerial).
THEOREM ServicesAreGone == Spec => []ServicesLeaveNothing
<1>1. ServIInv => ServicesGone
  BY DEF ServIInv, AgendaOK, ServicesGone, Clean
<1>2. EmulIInv => ResetCleans
  BY EmulImplies
<1>3. Spec => []ResetCleans
  BY <1>2, EmulationRun, EmulationHolds, PTL
<1>4. ServicesGone /\ ResetCleans /\ NothingOutlives /\ StreamsStop => ServicesLeaveNothing
  BY DEF ServicesLeaveNothing
<1> QED
  BY <1>1, <1>3, <1>4, ServicesRun, PlanningLeavesNothing, StreamsAreKept, PTL

-----------------------------------------------------------------------------
(* The containers that are found *)

Answer == [done : BOOLEAN, names : SUBSET Containers]

DkTyped ==
    /\ running \in [Engines -> SUBSET Containers] /\ changes \in Nat
    /\ call \in [at : {"out", "asking", "found"}, engines : SUBSET Engines, names : SUBSET Containers]
    /\ psOf \in [Engines -> Answer] /\ outputs \in [Engines -> Answer]

\* What is printed was asked for by the call, and runs as long as nothing changed.
AnswersOK ==
    \A e \in Engines :
       /\ outputs[e].done => psOf[e].done /\ outputs[e].names \subseteq psOf[e].names
       /\ call.at # "out" /\ psOf[e].done => psOf[e].names \subseteq call.names
       /\ call.at # "out" /\ changes = 0 =>
             /\ psOf[e].done => psOf[e].names = running[e] \cap call.names
             /\ outputs[e].done => outputs[e].names = running[e] \cap call.names

Apart == \A e, f \in Engines : EngineAddress[e] = EngineAddress[f] => e = f

\* What is handed over is what was printed by the hosts of the call.
HandedOK ==
    call.at = "found" /\ Apart =>
       /\ \A e \in call.engines : outputs[e].done
       /\ \A d \in found : \E e \in call.engines : \E c \in outputs[e].names :
             d = [alias |-> DockerAlias(c, e), name |-> c, remote |-> e]
       /\ \A e \in call.engines : \A c \in outputs[e].names :
             [alias |-> DockerAlias(c, e), name |-> c, remote |-> e] \in found

DkIInv == DkTyped /\ AnswersOK /\ HandedOK

LEMMA DkImplies == DkIInv => DockersFound
<1> SUFFICES ASSUME DkIInv, call.at = "found", Apart
             PROVE  /\ \A d, f \in found : d.alias = f.alias => d = f
                    /\ \A d \in found : d.remote \in call.engines /\ d.name \in outputs[d.remote].names \cap call.names
                    /\ changes = 0 =>
                          {<<d.remote, d.name>> : d \in found}
                             = UNION {{e} \X (running[e] \cap call.names) : e \in call.engines}
  BY DEF DockersFound, Apart
<1>1. call.engines \subseteq Engines /\ \A e \in Engines : outputs[e].names \subseteq Containers
  BY DEF DkIInv, DkTyped, Answer
<1>2. ASSUME NEW d \in found
      PROVE  /\ d = [alias |-> <<d.name, d.remote>>, name |-> d.name, remote |-> d.remote]
             /\ d.remote \in call.engines /\ d.name \in outputs[d.remote].names
  BY <1>2 DEF DkIInv, HandedOK, DockerAlias
<1>3. \A e \in call.engines : outputs[e].names \subseteq call.names
  BY <1>1 DEF DkIInv, HandedOK, AnswersOK
<1>4. ASSUME NEW d \in found, NEW f \in found, d.alias = f.alias PROVE d = f
  <2>1. d.alias = <<d.name, d.remote>> /\ f.alias = <<f.name, f.remote>>
    BY <1>2
  <2>2. \A a, b, p, q : <<a, b>> = <<p, q>> => a = p /\ b = q
    OBVIOUS
  <2>3. <<d.name, d.remote>> = <<f.name, f.remote>>
    BY <1>4, <2>1
  <2>4. d.name = f.name /\ d.remote = f.remote
    BY <2>2, <2>3
  <2> QED
    BY <1>2, <2>4
<1>5. ASSUME changes = 0
      PROVE  {<<d.remote, d.name>> : d \in found} = UNION {{e} \X (running[e] \cap call.names) : e \in call.engines}
  <2>1. \A e \in call.engines : outputs[e].names = running[e] \cap call.names
    BY <1>1, <1>5 DEF DkIInv, HandedOK, AnswersOK
  <2>2. ASSUME NEW d \in found
        PROVE  <<d.remote, d.name>> \in UNION {{e} \X (running[e] \cap call.names) : e \in call.engines}
    BY <1>2, <2>1
  <2>3. ASSUME NEW e \in call.engines, NEW c \in running[e] \cap call.names
        PROVE  <<e, c>> \in {<<d.remote, d.name>> : d \in found}
    <3> DEFINE x == [alias |-> DockerAlias(c, e), name |-> c, remote |-> e]
    <3>1. x \in found
      BY <2>1 DEF DkIInv, HandedOK
    <3>2. <<e, c>> = <<x.remote, x.name>>
      OBVIOUS
    <3> QED
      BY <3>1, <3>2
  <2> QED
    BY <2>2, <2>3
<1> QED
  BY <1>2, <1>3, <1>4, <1>5

LEMMA DkInitOK == DkInit => DkIInv
<1> SUFFICES ASSUME DkInit PROVE DkIInv
  OBVIOUS
<1> USE DEF DkInit
<1>1. DkTyped
  BY DEF DkTyped, Answer, NoCall, NothingPrinted, Unasked
<1>2. AnswersOK
  BY DEF AnswersOK, NoCall, NothingPrinted, Unasked
<1>3. HandedOK
  BY DEF HandedOK, NoCall
<1> QED
  BY <1>1, <1>2, <1>3 DEF DkIInv

LEMMA DkStepOK == DkIInv /\ [DkNext]_dkVars => DkIInv'
<1> SUFFICES ASSUME DkIInv, [DkNext]_dkVars PROVE DkIInv'
  OBVIOUS
<1>0. DkTyped /\ AnswersOK /\ HandedOK
  BY DEF DkIInv
<1>s. SUFFICES DkTyped' /\ AnswersOK' /\ HandedOK'
  BY DEF DkIInv
<1>1. ASSUME NEW e \in Engines, NEW c \in Containers, ContainerChanges(e, c)
      PROVE  DkTyped' /\ AnswersOK' /\ HandedOK'
  <2>1. /\ changes' = changes + 1 /\ UNCHANGED <<psOf, outputs, found>>
        /\ running' = [running EXCEPT ![e] = IF c \in running[e] THEN running[e] \ {c} ELSE running[e] \cup {c}]
        /\ call' = [call EXCEPT !.at = IF call.at = "found" THEN "out" ELSE call.at]
    BY <1>1 DEF ContainerChanges
  <2>2. DkTyped'
    BY <1>0, <2>1 DEF DkTyped
  <2>3. call'.at # "found" /\ (call'.at # "out" => call.at # "out" /\ call'.names = call.names) /\ changes' # 0
    BY <1>0, <2>1 DEF DkTyped
  <2> QED
    BY <1>0, <2>1, <2>2, <2>3 DEF AnswersOK, HandedOK
<1>2. ASSUME AskDockers PROVE DkTyped' /\ AnswersOK' /\ HandedOK'
  <2>1. /\ UNCHANGED <<running, changes>> /\ psOf' = NothingPrinted /\ outputs' = NothingPrinted
        /\ call'.at = "asking"
        /\ call' \in [at : {"out", "asking", "found"}, engines : SUBSET Engines, names : SUBSET Containers]
    BY <1>2 DEF AskDockers
  <2>2. \A e \in Engines : ~psOf'[e].done /\ ~outputs'[e].done
    BY <2>1 DEF NothingPrinted, Unasked
  <2>3. DkTyped'
    BY <1>0, <2>1 DEF DkTyped, NothingPrinted, Unasked, Answer
  <2> QED
    BY <2>1, <2>2, <2>3 DEF AnswersOK, HandedOK
<1>3. ASSUME NEW e \in Engines, ListDockers(e) PROVE DkTyped' /\ AnswersOK' /\ HandedOK'
  <2>1. /\ call.at = "asking" /\ ~psOf[e].done /\ UNCHANGED <<running, call, outputs, found, changes>>
        /\ psOf' = [psOf EXCEPT ![e] = [done |-> TRUE, names |-> running[e] \cap call.names]]
    BY <1>3 DEF ListDockers
  <2>2. DkTyped'
    BY <1>0, <2>1 DEF DkTyped, Answer
  <2>3. psOf'[e].names = running[e] \cap call.names /\ \A f \in Engines : f # e => psOf'[f] = psOf[f]
    BY <1>0, <2>1 DEF DkTyped
  <2>4. ~outputs[e].done
    BY <1>0, <2>1 DEF AnswersOK
  <2>5. AnswersOK'
    BY <1>0, <2>1, <2>3, <2>4 DEF AnswersOK
  <2> QED
    BY <2>1, <2>2, <2>5 DEF HandedOK
<1>4. ASSUME NEW e \in Engines, InspectDockers(e) PROVE DkTyped' /\ AnswersOK' /\ HandedOK'
  <2>1. /\ psOf[e].done /\ ~outputs[e].done /\ UNCHANGED <<running, call, psOf, found, changes>>
        /\ outputs' = [outputs EXCEPT ![e] = [done |-> TRUE, names |-> psOf[e].names \cap running[e]]]
    BY <1>4 DEF InspectDockers
  <2>2. DkTyped'
    BY <1>0, <2>1 DEF DkTyped, Answer
  <2>3. outputs'[e].names = psOf[e].names \cap running[e] /\ \A f \in Engines : f # e => outputs'[f] = outputs[f]
    BY <1>0, <2>1 DEF DkTyped
  <2>4. AnswersOK'
    BY <1>0, <2>1, <2>3 DEF AnswersOK
  <2>5. HandedOK'
    <3>1. call.at = "found" /\ Apart => e \notin call.engines
      BY <1>0, <2>1 DEF HandedOK
    <3>2. call.engines \subseteq Engines
      BY <1>0 DEF DkTyped
    <3>3. call.at = "found" /\ Apart => \A f \in call.engines : outputs'[f] = outputs[f]
      BY <2>3, <3>1, <3>2
    <3> QED
      BY <1>0, <2>1, <3>3 DEF HandedOK, Apart, DockerAlias
  <2> QED
    BY <2>2, <2>4, <2>5
<1>5. ASSUME CollectDockers PROVE DkTyped' /\ AnswersOK' /\ HandedOK'
  <2>1. /\ call.at = "asking" /\ (\A e \in call.engines : outputs[e].done)
        /\ UNCHANGED <<running, psOf, outputs, changes>>
    BY <1>5 DEF CollectDockers
  <2>2. CASE call' = NoCall
    <3>1. call'.at = "out" /\ DkTyped'
      BY <1>0, <2>1, <2>2 DEF DkTyped, NoCall
    <3> QED
      BY <1>0, <2>1, <3>1 DEF AnswersOK, HandedOK
  <2>3. CASE call' # NoCall
    <3>1. PICK of \in [call.engines -> Engines] :
             /\ \A e \in call.engines : of[e] \in HostsNamed(e)
             /\ found' = UNION {{[alias |-> DockerAlias(c, of[e]), name |-> c, remote |-> of[e]] :
                                    c \in outputs[e].names} : e \in call.engines}
             /\ call' = [call EXCEPT !.at = "found"]
      BY <1>5, <2>3 DEF CollectDockers
    <3>2. /\ call'.at = "found" /\ call'.engines = call.engines /\ call'.names = call.names
          /\ call.engines \subseteq Engines
      BY <1>0, <3>1 DEF DkTyped
    <3>3. DkTyped'
      BY <1>0, <2>1, <3>1 DEF DkTyped
    <3>4. AnswersOK'
      BY <1>0, <2>1, <3>2 DEF AnswersOK
    <3>5. ASSUME Apart, NEW e \in call.engines PROVE of[e] = e
      BY <3>1, <3>2, <3>5 DEF Apart, HostsNamed
    <3>6. ASSUME Apart
          PROVE  found' = UNION {{[alias |-> DockerAlias(c, e), name |-> c, remote |-> e] :
                                     c \in outputs[e].names} : e \in call.engines}
      BY <3>1, <3>5, <3>6
    <3>7. HandedOK'
      BY <2>1, <3>2, <3>6 DEF HandedOK, Apart, DockerAlias
    <3> QED
      BY <3>3, <3>4, <3>7
  <2> QED
    BY <2>2, <2>3
<1>6. ASSUME DockersUnreachable PROVE DkTyped' /\ AnswersOK' /\ HandedOK'
  <2>1. call' = NoCall /\ UNCHANGED <<running, psOf, outputs, found, changes>>
    BY <1>6 DEF DockersUnreachable
  <2>2. call'.at = "out" /\ DkTyped'
    BY <1>0, <2>1 DEF DkTyped, NoCall
  <2> QED
    BY <1>0, <2>1, <2>2 DEF AnswersOK, HandedOK
<1>7. ASSUME UNCHANGED dkVars PROVE DkTyped' /\ AnswersOK' /\ HandedOK'
  BY <1>0, <1>7 DEF dkVars, DkTyped, AnswersOK, HandedOK, Apart, DockerAlias
<1> QED
  BY <1>1, <1>2, <1>3, <1>4, <1>5, <1>6, <1>7 DEF DkNext

LEMMA DockersRun == Spec => []DkIInv
<1>1. Init => DkInit
  BY DEF Init
<1>2. [Next]_vars => [DkNext]_dkVars
  BY DEF Next, vars, machineVars
<1> QED
  BY <1>1, <1>2, DkInitOK, DkStepOK, PTL DEF Spec

-----------------------------------------------------------------------------
(* The windows of Kwollect *)

KwTyped ==
    /\ kw \in [deployed : BOOLEAN, inside : BOOLEAN, start : Nat, stop : Nat] /\ clock \in Nat \ {0}
    /\ entered \in [from : Nat, to : Nat] /\ fetches \in Nat

\* The window of the object is the block it is in, or the last one.
WindowOK ==
    entered.from # NoTime =>
       /\ kw.start = entered.from
       /\ ~kw.inside => kw.stop = entered.to /\ entered.to <= clock

KwIInv == KwTyped /\ WindowOK /\ KwollectExact

\* Each node of a site is asked for with those of its site.
LEMMA MetricsAre ==
  ASSUME NEW nodes
  PROVE  MetricsIn(nodes) = (nodes \ silent) \X {t \in kw.start..kw.stop : t <= clock}
<1> DEFINE T == {t \in kw.start..kw.stop : t <= clock}
           pool(n) == {m \in nodes : KwSiteOf[KwClusterOf[m]] = KwSiteOf[KwClusterOf[n]]}
<1>1. MetricsIn(nodes) = UNION {(p \ silent) \X T : p \in SitePools(nodes)}
  BY DEF MetricsIn
<1> HIDE DEF T
<1>2. ASSUME NEW n \in nodes \ silent, NEW t \in T PROVE <<n, t>> \in MetricsIn(nodes)
  <2>1. pool(n) \in SitePools(nodes) /\ n \in pool(n) \ silent
    BY DEF SitePools
  <2> HIDE DEF pool
  <2> QED
    BY <1>1, <2>1
<1>3. \A p \in SitePools(nodes) : p \subseteq nodes
  BY DEF SitePools
<1>4. \A x \in MetricsIn(nodes) : x \in (nodes \ silent) \X T
  BY <1>1, <1>3
<1> QED
  BY <1>2, <1>4 DEF T

\* What was fetched in the window of a block that was left.
LEMMA FetchedIs ==
  ASSUME KwTyped, WindowOK, NEW nodes, BlockLeft.from # NoTime
  PROVE  MetricsIn(nodes) = (nodes \ silent) \X (BlockLeft.from..BlockLeft.to)
<1>1. ~kw.inside /\ BlockLeft = entered /\ entered.from # NoTime
  BY DEF BlockLeft, NothingFetched, NoTime
<1>2. kw.start = entered.from /\ kw.stop = entered.to /\ entered.to <= clock
  BY <1>1 DEF WindowOK
<1>3. entered.from \in Nat /\ entered.to \in Nat /\ clock \in Nat
  BY DEF KwTyped
<1>4. {t \in kw.start..kw.stop : t <= clock} = entered.from..entered.to
  BY <1>2, <1>3
<1> QED
  BY <1>1, <1>4, MetricsAre

\* The files of a directory hold what was written last.
LEMMA WrittenIs ==
  ASSUME NEW old, NEW data, NEW n \in DOMAIN Windows(data)
  PROVE  Windows(Written(old, data))[n] = Windows(data)[n]
<1> DEFINE w == Written(old, data)
<1>1. n \in {d[1] : d \in data}
  BY DEF Windows
<1>2. {e \in w : e[1] = n} = {e \in data : e[1] = n}
  BY <1>1 DEF Written
<1>3. n \in {d[1] : d \in w}
  BY <1>1 DEF Written
<1>4. Windows(w)[n] = {d[2] : d \in {e \in w : e[1] = n}}
  BY <1>3 DEF Windows
<1>5. Windows(data)[n] = {d[2] : d \in {e \in data : e[1] = n}}
  BY <1>1 DEF Windows
<1> QED
  BY <1>2, <1>4, <1>5

OffersOf(nodes) ==
    UNION {UNION {For(k, {x \in nodes : KwClusterOf[x] = c}) \X Descriptions(k) : k \in KwMetrics[c]} :
           c \in {KwClusterOf[x] : x \in nodes}}

\* Descriptions are expanded for the nodes of the cluster of the metric.
LEMMA OfferedIs ==
  ASSUME NEW nodes, NEW n \in nodes, NEW m \in KwMetrics[KwClusterOf[n]], m.protocol # "prometheus"
  PROVE  <<n, <<m, m.name>>>> \in OffersOf(nodes) <=> (m.onlyFor = {} \/ n \in m.onlyFor)
<1> DEFINE sub(c) == {x \in nodes : KwClusterOf[x] = c}
           of(c) == UNION {For(k, sub(c)) \X Descriptions(k) : k \in KwMetrics[c]}
           x == <<n, <<m, m.name>>>>
<1>1. <<m, m.name>> \in Descriptions(m)
  BY DEF Descriptions
<1>2. \A k : <<m, m.name>> \in Descriptions(k) => k = m
  BY DEF Descriptions
<1>3. n \in sub(KwClusterOf[n])
  OBVIOUS
<1>4. \A c : For(m, sub(c)) = IF m.onlyFor = {} THEN sub(c) ELSE m.onlyFor \cap sub(c)
  BY DEF For
<1> HIDE DEF sub
<1>5. ASSUME m.onlyFor = {} \/ n \in m.onlyFor
      PROVE  x \in of(KwClusterOf[n])
  <2>1. n \in For(m, sub(KwClusterOf[n]))
    BY <1>3, <1>4, <1>5
  <2> QED
    BY <1>1, <2>1
<1>6. ASSUME NEW c, x \in of(c) PROVE m.onlyFor = {} \/ n \in m.onlyFor
  <2>1. PICK k \in KwMetrics[c] : n \in For(k, sub(c)) /\ <<m, m.name>> \in Descriptions(k)
    BY <1>6
  <2> QED
    BY <1>2, <1>4, <2>1
<1>7. x \in UNION {of(c) : c \in {KwClusterOf[y] : y \in nodes}} <=> (m.onlyFor = {} \/ n \in m.onlyFor)
  <2> HIDE DEF of
  <2> QED
    BY <1>5, <1>6
<1> QED
  BY <1>7 DEF of, sub, OffersOf

LEMMA KwInitOK == KwInit => KwIInv
  BY DEF KwInit, KwIInv, KwTyped, WindowOK, KwollectExact, NothingFetched, NoTime

\* What a fetch leaves is exact.
LEMMA KwStepOK == KwIInv /\ [KwNext]_kwVars => KwIInv'
<1> SUFFICES ASSUME KwIInv, [KwNext]_kwVars PROVE KwTyped' /\ WindowOK' /\ KwollectExact'
  BY DEF KwIInv
<1>0. KwTyped /\ WindowOK /\ KwollectExact
  BY DEF KwIInv
<1>t. clock \in Nat \ {0} /\ entered.from \in Nat /\ entered.to \in Nat
  BY <1>0 DEF KwTyped
<1>1. CASE KwTick
  <2>1. clock' = clock + 1 /\ UNCHANGED <<kwNodes, silent, kw, entered, fetched, backups, fetches>>
    BY <1>1 DEF KwTick
  <2>2. KwTyped'
    BY <1>0, <2>1 DEF KwTyped
  <2>3. WindowOK'
    BY <1>0, <1>t, <2>1 DEF WindowOK
  <2>4. KwollectExact'
    BY <1>0, <2>1 DEF KwollectExact
  <2> QED
    BY <2>2, <2>3, <2>4
<1>2. ASSUME UNCHANGED <<silent, fetched, backups>> PROVE KwollectExact'
  BY <1>0, <1>2 DEF KwollectExact
<1>3. CASE EnterWindow
  <2>1. /\ kw' = [[kw EXCEPT !.start = clock] EXCEPT !.deployed = TRUE, !.inside = TRUE]
        /\ entered' = [from |-> clock, to |-> NoTime] /\ UNCHANGED <<clock, silent, fetched, backups, fetches>>
    BY <1>3 DEF EnterWindow, StartsNow
  <2>2. KwTyped' /\ kw'.start = clock /\ kw'.inside
    BY <1>0, <2>1 DEF KwTyped, NoTime
  <2>3. WindowOK'
    BY <2>1, <2>2 DEF WindowOK
  <2> QED
    BY <1>2, <2>1, <2>2, <2>3
<1>4. CASE LeaveWindow
  <2>1. /\ kw' = [kw EXCEPT !.inside = FALSE, !.stop = clock]
        /\ entered' = [entered EXCEPT !.to = clock] /\ UNCHANGED <<clock, silent, fetched, backups, fetches>>
    BY <1>4 DEF LeaveWindow
  <2>2. /\ KwTyped' /\ kw'.start = kw.start /\ kw'.stop = clock
        /\ entered'.from = entered.from /\ entered'.to = clock
    BY <1>0, <2>1 DEF KwTyped
  <2>3. WindowOK'
    BY <1>0, <1>t, <2>1, <2>2 DEF WindowOK
  <2> QED
    BY <1>2, <2>1, <2>2, <2>3
<1>5. CASE SetWindow
  <2>1. /\ entered' = [from |-> NoTime, to |-> NoTime] /\ UNCHANGED <<clock, silent, fetched, backups, fetches>>
        /\ \/ kw' = [kw EXCEPT !.deployed = TRUE]
           \/ \E t \in 1..clock : kw' = [kw EXCEPT !.start = t]
           \/ \E t \in 1..clock : kw' = [kw EXCEPT !.stop = t]
    BY <1>5 DEF SetWindow
  <2>2. WindowOK'
    BY <2>1 DEF WindowOK
  <2>3. entered' \in [from : Nat, to : Nat]
    BY <2>1 DEF NoTime
  <2>4. kw' \in [deployed : BOOLEAN, inside : BOOLEAN, start : Nat, stop : Nat]
    <3>1. CASE kw' = [kw EXCEPT !.deployed = TRUE]
      BY <1>0, <3>1 DEF KwTyped
    <3>2. ASSUME NEW t \in 1..clock, kw' = [kw EXCEPT !.start = t] PROVE kw' \in [deployed : BOOLEAN, inside : BOOLEAN, start : Nat, stop : Nat]
      BY <1>0, <1>t, <3>2 DEF KwTyped
    <3>3. ASSUME NEW t \in 1..clock, kw' = [kw EXCEPT !.stop = t] PROVE kw' \in [deployed : BOOLEAN, inside : BOOLEAN, start : Nat, stop : Nat]
      BY <1>0, <1>t, <3>3 DEF KwTyped
    <3> QED
      BY <2>1, <3>1, <3>2, <3>3
  <2>5. KwTyped'
    BY <1>0, <2>1, <2>3, <2>4 DEF KwTyped
  <2> QED
    BY <1>2, <2>1, <2>2, <2>5
<1>6. ASSUME UNCHANGED <<kw, clock, entered>>, fetches' \in {fetches, fetches + 1} PROVE KwTyped' /\ WindowOK'
  BY <1>0, <1>6 DEF KwTyped, WindowOK
<1>7. CASE GetMetrics
  <2>1. UNCHANGED <<kw, clock, entered, silent>> /\ fetches' = fetches + 1
    BY <1>7 DEF GetMetrics
  <2>2. PICK nodes \in SUBSET kwNodes :
           fetched' = [NothingFetched EXCEPT !.data = MetricsIn(nodes), !.of = nodes, !.window = BlockLeft]
    BY <1>7 DEF GetMetrics
  <2>3. /\ fetched'.data = MetricsIn(nodes) /\ fetched'.of = nodes /\ fetched'.window = BlockLeft
        /\ fetched'.dir = {} /\ fetched'.asked = {}
    BY <2>2 DEF NothingFetched
  <2>4. KwollectExact'
    BY <1>0, <2>1, <2>3, FetchedIs DEF KwollectExact
  <2> QED
    BY <1>6, <2>1, <2>4
<1>8. CASE BackupMetrics
  <2>1. UNCHANGED <<kw, clock, entered, silent>> /\ fetches' = fetches + 1
    BY <1>8 DEF BackupMetrics
  <2>2. PICK given \in BOOLEAN :
          LET dir == IF given THEN 0 ELSE fetches'
              old == [d \in 0..fetches' |-> IF d \in DOMAIN backups THEN backups[d] ELSE {}]
          IN  /\ backups' = [old EXCEPT ![dir] = Written(@, MetricsIn(kwNodes))]
              /\ fetched' = [NothingFetched EXCEPT !.data = MetricsIn(kwNodes), !.of = kwNodes,
                                                   !.window = BlockLeft, !.dir = {dir}]
    BY <1>8 DEF BackupMetrics
  <2> DEFINE dir == IF given THEN 0 ELSE fetches'
             old == [d \in 0..fetches' |-> IF d \in DOMAIN backups THEN backups[d] ELSE {}]
  <2>3. /\ fetched'.data = MetricsIn(kwNodes) /\ fetched'.of = kwNodes /\ fetched'.window = BlockLeft
        /\ fetched'.dir = {dir} /\ fetched'.asked = {}
    BY <2>2 DEF NothingFetched
  <2>4. dir \in DOMAIN old
    BY <1>0, <2>1 DEF KwTyped
  <2>5. backups'[dir] = Written(old[dir], MetricsIn(kwNodes))
    BY <2>2, <2>4
  <2> HIDE DEF dir, old
  <2>6. KwollectExact'
    <3>1. \A n \in DOMAIN Windows(fetched'.data) :
             Windows(backups'[dir])[n] = Windows(fetched'.data)[n]
      BY <2>3, <2>5, WrittenIs
    <3>2. \A d \in fetched'.dir : \A n \in DOMAIN Windows(fetched'.data) :
             Windows(backups'[d])[n] = Windows(fetched'.data)[n]
      BY <2>3, <3>1
    <3>3. fetched'.window.from # NoTime =>
             fetched'.data = (fetched'.of \ silent) \X (fetched'.window.from..fetched'.window.to)
      BY <1>0, <2>3, FetchedIs
    <3> QED
      BY <2>1, <2>3, <3>2, <3>3 DEF KwollectExact
  <2> QED
    BY <1>6, <2>1, <2>6
<1>9. CASE AskMetrics
  <2>1. UNCHANGED <<kw, clock, entered, silent>> /\ fetches' = fetches + 1
    BY <1>9 DEF AskMetrics
  <2>2. PICK nodes \in SUBSET kwNodes :
          fetched' = [NothingFetched EXCEPT !.asked = nodes, !.offered = OffersOf(nodes)]
    BY <1>9 DEF AskMetrics, OffersOf
  <2>3. /\ fetched'.of = {} /\ fetched'.dir = {} /\ fetched'.asked = nodes
        /\ fetched'.offered = OffersOf(nodes)
    BY <2>2 DEF NothingFetched
  <2>4. ASSUME NEW n \in fetched'.asked, NEW m \in KwMetrics[KwClusterOf[n]], m.protocol # "prometheus"
        PROVE  <<n, <<m, m.name>>>> \in fetched'.offered <=> (m.onlyFor = {} \/ n \in m.onlyFor)
    BY <2>3, <2>4, OfferedIs
  <2>5. KwollectExact'
    BY <2>3, <2>4 DEF KwollectExact
  <2> QED
    BY <1>6, <2>1, <2>5
<1>10. CASE UNCHANGED kwVars
  BY <1>2, <1>6, <1>10 DEF kwVars
<1> QED
  BY <1>1, <1>3, <1>4, <1>5, <1>7, <1>8, <1>9, <1>10 DEF KwNext

LEMMA KwollectRun == Spec => []KwIInv
<1>1. Init => KwInit
  BY DEF Init
<1>2. [Next]_vars => [KwNext]_kwVars
  BY DEF Next, vars, machineVars
<1> QED
  BY <1>1, <1>2, KwInitOK, KwStepOK, PTL DEF Spec

-----------------------------------------------------------------------------
(* What the services keep *)

ByNetwork(k) == {inst[k].byNetwork[n] : n \in DOMAIN inst[k].byNetwork}
Watching(m) == {k \in made : Class(k) = "tcpdump" /\ m \in inst[k].hosts}

\* A session has the name of its service, or of an interface that its instance watches
\* or that one of the machine left there.
NamesOK ==
    /\ \A m \in Machines :
          tcpdumpIfs[m] = <<>> \/ \E k \in Watching(m) : tcpdumpIfs[m] = inst[k].byNetwork
    /\ \A m \in Machines : \A s \in host[m].tmux :
          /\ s.by \in made
          /\ Class(s.by) # "tcpdump" => s.key = Class(s.by)
          /\ Class(s.by) = "tcpdump" =>
                s.key \in InterfaceNames(s.by) \/ \E k \in Watching(m) : s.key \in ByNetwork(k)

\* Instances that are used together are known to be.
MetOK == \A i, j \in Instances : i # j /\ Active(i) /\ Active(j) => {i, j} \in met

\* What is left to be done of a "with".
ShapeOK ==
    /\ DOMAIN uses = Instances /\ DOMAIN saved = Machines
    /\ \A i \in Instances :
          /\ phase[i] \in {"inside", "left", "raised", "stuck"} => agenda[i] = <<>>
          /\ phase[i] = "entering" /\ Class(i) # "dask" => agenda[i] \in {<<"destroy", "deploy">>, <<"deploy">>}
          /\ phase[i] = "leaving" /\ Class(i) \in {"tig", "tpg"} =>
                agenda[i] \in {<<"backup", "destroy">>, <<"destroy">>}
          /\ phase[i] = "leaving" /\ Class(i) \in Recording \ {"tig", "tpg"} =>
                agenda[i] \in {<<"destroy", "backup">>, <<"backup">>}

\* No session is in the way of those of an instance.
Silent(i, m) ==
    Class(i) \in {"dstat", "tcpdump"} =>
       \A s \in host[m].tmux : \A key \in KeysOf(i) : s.key # key /\ <<key, s.key>> \notin Within

\* Its last use is recorded on a machine, or by the client.
LastUse(i, path) == [path |-> path, by |-> i, run |-> uses[i]]
OnMachine(i, m) ==
    /\ \A path \in Outputs(i) : LastUse(i, path) \in host[m].files
    /\ Class(i) = "tpg" => \E u \in host[m].up : u.class = "tpg"
AtClient(i, m) == \A path \in Outputs(i) : LastUse(i, path) \in saved[m]

DataOK(i) ==
    Class(i) \in Recording /\ Alone(i) =>
       /\ phase[i] # "stuck"
       /\ phase[i] = "entering" /\ agenda[i] = <<"deploy">> => \A m \in inst[i].hosts : Silent(i, m)
       /\ phase[i] = "inside" \/ (phase[i] = "leaving" /\ agenda[i] # <<"destroy">>) =>
             \A m \in inst[i].hosts : OnMachine(i, m)
       /\ phase[i] = "leaving" /\ agenda[i] = <<"destroy">> => \A m \in inst[i].hosts : AtClient(i, m)
       /\ phase[i] = "left" =>
             \A m \in inst[i].hosts : AtClient(i, m) /\ (Class(i) = "tcpdump" => OnMachine(i, m))

DataIInv == ServIInv /\ NamesOK /\ MetOK /\ ShapeOK /\ \A i \in Instances : DataOK(i)

\* Interfaces are not names of other sessions.
LEMMA NamesAre ==
  ASSUME inst \in Scenarios, NEW i \in Instances
  PROVE  /\ InterfaceNames(i) \subseteq Interfaces /\ ByNetwork(i) \subseteq InterfaceNames(i)
         /\ Class(i) = "tcpdump" => InterfaceNames(i) # {}
         /\ "dstat" \notin Interfaces /\ "dask" \notin Interfaces /\ Within \subseteq Interfaces \X Interfaces
<1> DEFINE a == inst[i].ifnames
           b == inst[i].byNetwork
<1>1. a \in Seq(Interfaces) /\ b \in Seq(Interfaces)
  BY MakesAre
<1>2. InterfaceNames(i) = {a[k] : k \in DOMAIN a} \cup {b[k] : k \in DOMAIN b} /\ ByNetwork(i) = {b[k] : k \in DOMAIN b}
  BY DEF InterfaceNames, ByNetwork
<1>3. Class(i) = "tcpdump" => a # <<>> \/ b # <<>>
  BY ServicesAssumption DEF Class
<1> HIDE DEF a, b
<1>4. (a # <<>> => 1 \in DOMAIN a) /\ (b # <<>> => 1 \in DOMAIN b)
  BY <1>1
<1>5. InterfaceNames(i) \subseteq Interfaces /\ ByNetwork(i) \subseteq InterfaceNames(i)
  BY <1>1, <1>2
<1>6. Class(i) = "tcpdump" => InterfaceNames(i) # {}
  BY <1>2, <1>3, <1>4
<1> QED
  BY <1>5, <1>6, ServicesAssumption

\* Two captures of a machine, one of which is not disturbed, watch different interfaces
\* and no network.
LEMMA Captures ==
  ASSUME NEW i \in made, NEW j \in made, i # j, Alone(i), made \subseteq Instances,
         Class(i) = "tcpdump", Class(j) = "tcpdump", inst[i].hosts \cap inst[j].hosts # {}
  PROVE  /\ inst[i].byNetwork = <<>> /\ inst[j].byNetwork = <<>> /\ ByNetwork(i) = {} /\ ByNetwork(j) = {}
         /\ \A a \in InterfaceNames(i), b \in InterfaceNames(j) :
               a # b /\ <<a, b>> \notin Within /\ <<b, a>> \notin Within
<1>1. ~Disturb(i, j)
  BY DEF Alone
<1>2. ~(Mixed(InterfaceNames(i), InterfaceNames(j)) \/ inst[i].byNetwork # <<>> \/ inst[j].byNetwork # <<>>)
  BY <1>1 DEF Disturb
<1>3. DOMAIN <<>> = {}
  OBVIOUS
<1>4. ByNetwork(i) = {} /\ ByNetwork(j) = {}
  BY <1>2, <1>3 DEF ByNetwork
<1> QED
  BY <1>2, <1>4 DEF Mixed

\* The sessions of others are not in the way of a capture that is not disturbed.
LEMMA OtherSessions ==
  ASSUME ServIInv, NamesOK, NEW i \in made, Alone(i), Class(i) = "tcpdump", NEW m \in inst[i].hosts,
         NEW s \in host[m].tmux, s.by # i, NEW key \in InterfaceNames(i)
  PROVE  s.key # key /\ <<key, s.key>> \notin Within
<1>1. i \in Instances /\ m \in Machines /\ made \subseteq Instances /\ inst \in Scenarios
  BY MakesAre DEF ServIInv
<1>2. s.by \in made /\ m \in inst[s.by].hosts /\ Class(s.by) \in {"dstat", "dask", "tcpdump"}
  BY <1>1 DEF NamesOK, ServIInv, HostsOK
<1>3. CASE Class(s.by) # "tcpdump"
  <2>1. s.key \in {"dstat", "dask"}
    BY <1>1, <1>2, <1>3 DEF NamesOK
  <2> QED
    BY <1>1, <2>1, NamesAre
<1>4. CASE Class(s.by) = "tcpdump"
  <2>1. inst[i].hosts \cap inst[s.by].hosts # {}
    BY <1>2
  <2>2. ByNetwork(i) = {} /\ \A b \in InterfaceNames(s.by) : key # b /\ <<key, b>> \notin Within
    BY <1>1, <1>2, <1>4, <2>1, Captures
  <2>3. ASSUME NEW k \in Watching(m) PROVE ByNetwork(k) = {}
    <3>1. k \in made /\ Class(k) = "tcpdump" /\ inst[i].hosts \cap inst[k].hosts # {}
      BY DEF Watching
    <3>2. k # i => ByNetwork(k) = {}
      BY <1>1, <3>1, Captures
    <3> QED
      BY <2>2, <3>2
  <2>4. s.key \in InterfaceNames(s.by)
    BY <1>1, <1>4, <2>3 DEF NamesOK
  <2> QED
    BY <2>2, <2>4
<1> QED
  BY <1>3, <1>4

\* Another capture of the machine uses its own names.
LEMMA OtherKeys ==
  ASSUME ServIInv, NamesOK, NEW i \in made, Alone(i), Class(i) = "tcpdump",
         NEW j \in made, j # i, Class(j) = "tcpdump", NEW m \in inst[i].hosts \cap inst[j].hosts,
         NEW key \in KeysOn(j, m), NEW a \in InterfaceNames(i)
  PROVE  a # key /\ <<a, key>> \notin Within
<1>1. i \in Instances /\ j \in Instances /\ m \in Machines /\ made \subseteq Instances /\ inst \in Scenarios
  BY MakesAre DEF ServIInv
<1>2. /\ inst[i].byNetwork = <<>> /\ inst[j].byNetwork = <<>>
      /\ \A b \in InterfaceNames(j) : a # b /\ <<a, b>> \notin Within
  BY <1>1, Captures
<1>3. tcpdumpIfs[m] = inst[j].byNetwork /\ tcpdumpIfs[m] \in Seq(Interfaces)
  BY <1>1, <1>2 DEF ServIInv, IfsOK
<1>4. \A b : (\E k \in DOMAIN Sessions(j, m) : b = Sessions(j, m)[k]) <=> b \in InterfaceNames(j)
  BY <1>1, <1>3, SessionsAre
<1>5. key \in InterfaceNames(j)
  BY <1>4 DEF KeysOn
<1> QED
  BY <1>2, <1>5

\* A task spares a file when it does not write over it, nor removes it.
Spared(t, f) ==
    /\ ~(t.op = "start" /\ t.path = f.path /\ t.path[1] # "dstat")
    /\ ~(t.op = "wipe" /\ t.path = f.path)
LeftUp(t, u) == t.op \in {"up", "down"} => t.class # u.class

LEMMA DoSpares ==
  ASSUME NEW h, DOMAIN h = HostFields, NEW t
  PROVE  /\ \A f \in h.files : Spared(t, f) => f \in Do(h, t).files
         /\ \A u \in h.up : LeftUp(t, u) => u \in Do(h, t).up
<1>1. CASE t.op = "start"
  <2>1. Do(h, t) = BgStart(h, t.key, OfFile(t)) /\ OfFile(t).path = t.path
    BY <1>1 DEF Do, OfFile
  <2>2. CASE Grep(h, t.key) # {}
    BY <2>1, <2>2 DEF BgStart
  <2>3. CASE Grep(h, t.key) = {}
    BY <1>1, <2>1, <2>3 DEF BgStart, HostFields, Spared
  <2> QED
    BY <2>2, <2>3
<1>2. CASE t.op = "stop"
  <2>1. Do(h, t) = BgStop(h, t.key)
    BY <1>2 DEF Do
  <2> QED
    BY <2>1 DEF BgStop, HostFields
<1>3. CASE t.op = "run"
  BY <1>3 DEF Do, HostFields
<1>4. CASE t.op = "pkill"
  BY <1>4 DEF Do, HostFields
<1>5. CASE t.op = "up"
  BY <1>5 DEF Do, HostFields, LeftUp
<1>6. CASE t.op = "down"
  BY <1>6 DEF Do, HostFields, LeftUp
<1>7. CASE t.op = "wipe"
  BY <1>7 DEF Do, HostFields, Spared
<1>8. CASE t.op = "install"
  BY <1>8 DEF Do, HostFields
<1>9. CASE t.op \notin {"start", "stop", "run", "pkill", "up", "down", "wipe", "install"}
  BY <1>9 DEF Do
<1> QED
  BY <1>1, <1>2, <1>3, <1>4, <1>5, <1>6, <1>7, <1>8, <1>9

LEMMA DidSpares ==
  ASSUME NEW h, DOMAIN h = HostFields, NEW tasks, NEW n \in 0..3
  PROVE  /\ DOMAIN Did(h, tasks, n) = HostFields
         /\ \A f \in h.files : (\A k \in 1..n : Spared(tasks[k], f)) => f \in Did(h, tasks, n).files
         /\ \A u \in h.up : (\A k \in 1..n : LeftUp(tasks[k], u)) => u \in Did(h, tasks, n).up
<1> DEFINE a == Do(h, tasks[1])
           b == Do(a, tasks[2])
           c == Do(b, tasks[3])
<1>1. DOMAIN a = HostFields /\ DOMAIN b = HostFields /\ DOMAIN c = HostFields
  <2>1. \A g, t : DOMAIN g = HostFields => DOMAIN Do(g, t) = HostFields
    BY DoIs
  <2>2. DOMAIN a = HostFields
    BY <2>1
  <2>3. DOMAIN b = HostFields
    BY <2>1, <2>2
  <2>4. DOMAIN c = HostFields
    BY <2>1, <2>3
  <2> QED
    BY <2>2, <2>3, <2>4
<1>2. /\ \A f \in h.files : Spared(tasks[1], f) => f \in a.files
      /\ \A u \in h.up : LeftUp(tasks[1], u) => u \in a.up
  BY DoSpares
<1>3. /\ \A f \in a.files : Spared(tasks[2], f) => f \in b.files
      /\ \A u \in a.up : LeftUp(tasks[2], u) => u \in b.up
  <2> HIDE DEF a
  <2> QED
    BY <1>1, DoSpares
<1>4. /\ \A f \in b.files : Spared(tasks[3], f) => f \in c.files
      /\ \A u \in b.up : LeftUp(tasks[3], u) => u \in c.up
  <2> HIDE DEF b
  <2> QED
    BY <1>1, DoSpares
<1>5. /\ Did(h, tasks, 0) = h /\ Did(h, tasks, 1) = a /\ Did(h, tasks, 2) = b /\ Did(h, tasks, 3) = c
  BY DidIs
<1> HIDE DEF a, b, c
<1>6. CASE n = 0
  BY <1>5, <1>6
<1>7. CASE n = 1
  <2>1. 1 \in 1..n
    BY <1>7
  <2> QED
    BY <1>1, <1>2, <1>5, <1>7, <2>1
<1>8. CASE n = 2
  <2>1. 1 \in 1..n /\ 2 \in 1..n
    BY <1>8
  <2> QED
    BY <1>1, <1>2, <1>3, <1>5, <1>8, <2>1
<1>9. CASE n = 3
  <2>1. 1 \in 1..n /\ 2 \in 1..n /\ 3 \in 1..n
    BY <1>9
  <2> QED
    BY <1>1, <1>2, <1>3, <1>4, <1>5, <1>9, <2>1
<1> QED
  BY <1>6, <1>7, <1>8, <1>9

\* Of an instance that starts the sessions of K: those that runs are the ones of A, whose
\* files are written, and no other is in their way.
Started(h, K, A, F) ==
    /\ DOMAIN h = HostFields
    /\ \A s \in h.tmux : s.key \in A \/ \A key \in K : s.key # key /\ <<key, s.key>> \notin Within
    /\ \A x \in A : F[x] \in h.files

LEMMA StartStarts ==
  ASSUME NEW K, NEW A \in SUBSET K, NEW F, NEW h, Started(h, K, A, F), NEW t, t.op = "start", t.key \in K,
         OfFile(t) = F[t.key], \A x, y \in K : <<x, y>> \notin Within /\ (F[x].path = F[y].path => x = y)
  PROVE  Started(Do(h, t), K, A \cup {t.key}, F)
<1> DEFINE key == t.key
           g == Do(h, t)
<1>1. g = BgStart(h, key, F[key])
  BY DEF Do
<1>2. CASE Grep(h, key) # {}
  <2>1. g = h
    BY <1>1, <1>2 DEF BgStart
  <2>2. PICK s \in h.tmux : s.key = key \/ <<key, s.key>> \in Within
    BY <1>2 DEF Grep
  <2>3. s.key \in A
    BY <2>2 DEF Started
  <2>4. s.key = key
    BY <2>2, <2>3
  <2>5. A \cup {key} = A
    BY <2>3, <2>4
  <2> HIDE DEF g, key
  <2> QED
    BY <2>1, <2>5 DEF key, g
<1>3. CASE Grep(h, key) = {}
  <2>1. /\ DOMAIN g = HostFields
        /\ \A s \in g.tmux : s \in h.tmux \/ s.key = key
        /\ \A f \in h.files : f.path # F[key].path => f \in g.files
        /\ F[key] \in g.files
    BY <1>1, <1>3 DEF BgStart, Started, HostFields
  <2> HIDE DEF g
  <2>2. \A x \in A : F[x] \in g.files
    BY <2>1 DEF Started
  <2>3. Started(g, K, A \cup {key}, F)
    BY <2>1, <2>2 DEF Started
  <2> QED
    BY <2>3 DEF g
<1> QED
  BY <1>2, <1>3

LEMMA AllStarted ==
  ASSUME NEW K, NEW F, NEW h, Started(h, K, {}, F), NEW n \in 0..3, NEW tasks,
         \A k \in 1..n : tasks[k].op = "start" /\ tasks[k].key \in K /\ OfFile(tasks[k]) = F[tasks[k].key],
         \A x, y \in K : <<x, y>> \notin Within /\ (F[x].path = F[y].path => x = y)
  PROVE  \A k \in 1..n : F[tasks[k].key] \in Did(h, tasks, n).files
<1> DEFINE a == Do(h, tasks[1])
           b == Do(a, tasks[2])
           c == Do(b, tasks[3])
           x(k) == tasks[k].key
<1>1. /\ Did(h, tasks, 0) = h /\ Did(h, tasks, 1) = a /\ Did(h, tasks, 2) = b /\ Did(h, tasks, 3) = c
  BY DidIs
<1>2. n >= 1 => Started(a, K, {x(1)}, F)
  <2> SUFFICES ASSUME n >= 1 PROVE Started(a, K, {} \cup {x(1)}, F)
    OBVIOUS
  <2>1. 1 \in 1..n
    OBVIOUS
  <2> QED
    BY <2>1, StartStarts
<1>3. n >= 2 => Started(b, K, {x(1), x(2)}, F)
  <2> SUFFICES ASSUME n >= 2 PROVE Started(b, K, {x(1)} \cup {x(2)}, F)
    OBVIOUS
  <2>1. 1 \in 1..n /\ 2 \in 1..n
    OBVIOUS
  <2>2. {x(1)} \in SUBSET K /\ Started(a, K, {x(1)}, F)
    BY <1>2, <2>1
  <2> HIDE DEF a
  <2> QED
    BY <2>1, <2>2, StartStarts
<1>4. n >= 3 => Started(c, K, {x(1), x(2), x(3)}, F)
  <2> SUFFICES ASSUME n >= 3 PROVE Started(c, K, {x(1), x(2)} \cup {x(3)}, F)
    OBVIOUS
  <2>1. 1 \in 1..n /\ 2 \in 1..n /\ 3 \in 1..n
    OBVIOUS
  <2>2. {x(1), x(2)} \in SUBSET K /\ Started(b, K, {x(1), x(2)}, F)
    BY <1>3, <2>1
  <2> HIDE DEF b
  <2> QED
    BY <2>1, <2>2, StartStarts
<1> HIDE DEF a, b, c
<1>5. CASE n = 0
  BY <1>5
<1>6. CASE n = 1
  <2>1. \A k \in 1..n : k = 1
    BY <1>6
  <2> QED
    BY <1>1, <1>2, <1>6, <2>1 DEF Started
<1>7. CASE n = 2
  <2>1. \A k \in 1..n : k \in {1, 2}
    BY <1>7
  <2> QED
    BY <1>1, <1>3, <1>7, <2>1 DEF Started
<1>8. CASE n = 3
  <2>1. \A k \in 1..n : k \in {1, 2, 3}
    BY <1>8
  <2> QED
    BY <1>1, <1>4, <1>8, <2>1 DEF Started
<1> QED
  BY <1>5, <1>6, <1>7, <1>8

BackupPath(i) ==
    CASE Class(i) = "tcpdump" -> <<"tcpdump">>
      [] Class(i) \in {"tig", "tpg"} -> <<Class(i)>>
      [] OTHER -> OutputOf(i)

\* The files and the containers of the tasks of a call are those of the service.
TaskFiles(i, what, m, tasks) ==
    /\ \A k \in 1..Len(tasks) :
          /\ tasks[k].op = "start" =>
                /\ what = "deploy" /\ tasks[k].i = i /\ tasks[k].key \in KeysOn(i, m)
                /\ Class(i) = "tcpdump" => tasks[k].path = <<"tcpdump", tasks[k].key>>
                /\ Class(i) # "tcpdump" => tasks[k].path = OutputOf(i) /\ Class(i) \in {"dstat", "dask"}
          /\ tasks[k].op = "wipe" => Class(i) = "tig" /\ what = "destroy" /\ tasks[k].path = <<"tig">>
          /\ tasks[k].op \in {"up", "down"} => tasks[k].class = Class(i) /\ Class(i) \in {"tig", "tpg"}
          /\ tasks[k].op \in {"fetch", "snapshot"} => what = "backup"
    /\ what = "backup" /\ Class(i) \in Recording =>
          /\ Len(tasks) = 1 /\ tasks[1].path = BackupPath(i)
          /\ tasks[1].op = IF Class(i) = "tpg" THEN "snapshot" ELSE "fetch"
          /\ Class(i) = "tpg" => tasks[1].class = "tpg"
    /\ what = "backup" /\ Class(i) \notin Recording => Len(tasks) = 0
    /\ what = "deploy" /\ Class(i) = "dstat" => Len(tasks) = 1 /\ tasks[1] = StartTask("dstat", OutputOf(i), i)
    /\ what = "deploy" /\ Class(i) = "locust" =>
          Len(tasks) = 1 /\ tasks[1] = [op |-> "run", path |-> OutputOf(i), i |-> i]
    /\ what = "deploy" /\ Class(i) \in {"tig", "tpg"} =>
          /\ Len(tasks) = 2
          /\ tasks[2] = [op |-> "up", class |-> Class(i), path |-> <<Class(i)>>, i |-> i]
    /\ what = "deploy" /\ Class(i) = "tcpdump" =>
          /\ \A k \in 1..Len(tasks) : tasks[k].op = "start"
          /\ \A key \in KeysOn(i, m) : \E k \in 1..Len(tasks) : tasks[k].key = key

LEMMA TaskFilesAre ==
  ASSUME inst \in Scenarios, NEW i \in Instances, NEW m \in Machines, tcpdumpIfs[m] \in Seq(Interfaces),
         NEW what \in CallNames
  PROVE  TaskFiles(i, what, m, Tasks(i, what, m))
<1>0. Class(i) \in Classes
  BY MakesAre DEF Class
<1> USE DEF BackupPath, Recording
<1>1. CASE Class(i) = "dstat"
  <2>1. Tasks(i, what, m) = DstatTasks(i, what)
    BY <1>1 DEF Tasks
  <2>2. KeysOn(i, m) = {"dstat"}
    BY <1>1 DEF KeysOn
  <2> QED
    BY <1>1, <2>1, <2>2 DEF TaskFiles, DstatTasks, StartTask, Halt, CallNames
<1>2. CASE Class(i) = "dask"
  <2>1. Tasks(i, what, m) = DaskTasks(i, what)
    BY <1>2 DEF Tasks
  <2>2. KeysOn(i, m) = {"dask"}
    BY <1>2 DEF KeysOn
  <2> QED
    BY <1>2, <2>1, <2>2 DEF TaskFiles, DaskTasks, StartTask, Halt, CallNames
<1>3. CASE Class(i) = "locust"
  <2>1. Tasks(i, what, m) = LocustTasks(i, what)
    BY <1>3 DEF Tasks
  <2> QED
    BY <1>3, <2>1 DEF TaskFiles, LocustTasks, CallNames
<1>4. CASE Class(i) = "tcpdump"
  <2> DEFINE keys == Sessions(i, m)
  <2>1. Tasks(i, what, m) = TcpdumpTasks(i, what, m)
    BY <1>4 DEF Tasks
  <2>2. keys \in Seq(Interfaces) /\ KeysOn(i, m) = {keys[k] : k \in DOMAIN keys}
    BY <1>4, SessionsAre DEF KeysOn
  <2>3. DOMAIN keys = 1..Len(keys) /\ Len(keys) \in Nat
    BY <2>2
  <2>4. CASE what = "deploy"
    <3>1. Tasks(i, what, m) = [k \in DOMAIN keys |-> StartTask(keys[k], <<"tcpdump", keys[k]>>, i)]
      BY <2>1, <2>4 DEF TcpdumpTasks, ForEach
    <3> HIDE DEF keys
    <3>2. Len(Tasks(i, what, m)) = Len(keys)
      BY <2>3, <3>1
    <3>3. \A k \in DOMAIN keys : Tasks(i, what, m)[k].op = "start" /\ Tasks(i, what, m)[k].key = keys[k]
             /\ Tasks(i, what, m)[k].i = i /\ Tasks(i, what, m)[k].path = <<"tcpdump", keys[k]>>
      BY <3>1 DEF StartTask
    <3> QED
      BY <1>4, <2>2, <2>3, <2>4, <3>2, <3>3 DEF TaskFiles
  <2>5. CASE what = "destroy"
    <3>1. Tasks(i, what, m) = [k \in DOMAIN keys |-> Halt(keys[k])]
      BY <2>1, <2>5 DEF TcpdumpTasks, ForEach
    <3> HIDE DEF keys
    <3>2. Len(Tasks(i, what, m)) = Len(keys)
      BY <2>3, <3>1
    <3>3. \A k \in DOMAIN keys : Tasks(i, what, m)[k].op = "stop"
      BY <3>1 DEF Halt
    <3> QED
      BY <1>4, <2>3, <2>5, <3>2, <3>3 DEF TaskFiles
  <2>6. CASE what = "backup"
    BY <1>4, <2>1, <2>6 DEF TaskFiles, TcpdumpTasks
  <2> QED
    BY <2>4, <2>5, <2>6 DEF CallNames
<1>5. CASE Class(i) \in {"tig", "tpg"}
  <2>1. /\ Len(Up(Class(i), i)) = 2
        /\ Up(Class(i), i)[1] = [op |-> "install", class |-> Class(i)]
        /\ Up(Class(i), i)[2] = [op |-> "up", class |-> Class(i), path |-> <<Class(i)>>, i |-> i]
    BY UpIs
  <2>2. CASE what = "deploy"
    <3>1. Tasks(i, what, m) = Up(Class(i), i)
      BY <1>5, <2>2 DEF Tasks, TigTasks, TpgTasks
    <3> QED
      BY <1>5, <2>1, <2>2, <3>1 DEF TaskFiles
  <2>3. CASE what # "deploy"
    <3>1. CASE Class(i) = "tig"
      <4>1. Tasks(i, what, m) = TigTasks(i, what)
        BY <3>1 DEF Tasks
      <4> QED
        BY <2>3, <3>1, <4>1 DEF TaskFiles, TigTasks, CallNames
    <3>2. CASE Class(i) = "tpg"
      <4>1. Tasks(i, what, m) = TpgTasks(i, what)
        BY <3>2 DEF Tasks
      <4> QED
        BY <2>3, <3>2, <4>1 DEF TaskFiles, TpgTasks, CallNames
    <3> QED
      BY <1>5, <3>1, <3>2
  <2> QED
    BY <2>2, <2>3
<1>6. CASE Class(i) \in {"docker", "k3s", "skydive"}
  <2>1. Tasks(i, what, m) = InstallTasks(Class(i), what)
    BY <1>6 DEF Tasks
  <2> QED
    BY <1>6, <2>1 DEF TaskFiles, InstallTasks, CallNames
<1> QED
  BY <1>0, <1>1, <1>2, <1>3, <1>4, <1>5, <1>6 DEF Classes

\* A call of an instance: the tasks that its machines do, and what it leaves.
Ran(i, what, done, ok) ==
    /\ agenda[i] # <<>> /\ what = agenda[i][1] /\ what \in CallNames /\ ok \in BOOLEAN
    /\ UNCHANGED <<inst, made, tcpdumpIfs, met>>
    /\ \A m \in inst[i].hosts :
          /\ m \in Machines /\ DOMAIN host[m] = HostFields
          /\ done[m] \in 0..3 /\ done[m] \in 0..Len(Tasks(i, what, m)) /\ done[m] \in Outcomes(i, m)
          /\ TaskFiles(i, what, m, Tasks(i, what, m))
          /\ host'[m] = Did(host[m], Tasks(i, what, m), done[m])
          /\ saved'[m] = IF done[m] = 1 THEN Fetched(m, Tasks(i, what, m)[1]) ELSE saved[m]
    /\ \A m \in Machines \ inst[i].hosts : host'[m] = host[m] /\ saved'[m] = saved[m]
    /\ DOMAIN saved' = Machines
    /\ ok <=> \A m \in inst[i].hosts : done[m] = Len(Tasks(i, what, m))
    /\ agenda'[i] = IF ok THEN Tail(agenda[i]) ELSE <<>>
    /\ ok => phase'[i] = IF Len(agenda[i]) = 1 THEN After(phase[i]) ELSE phase[i]
    /\ ~ok => phase'[i] \in {"raised", "stuck"}
    /\ ~ok /\ phase'[i] = "stuck" =>
          phase[i] = "leaving" /\ \A m \in inst[i].hosts : done[m] = Max(Outcomes(i, m))
    /\ \A j \in Instances \ {i} : agenda'[j] = agenda[j] /\ phase'[j] = phase[j] /\ uses'[j] = uses[j]
    /\ DOMAIN uses' = Instances
    /\ what = "deploy" => uses'[i] = uses[i] + 1
    /\ what # "deploy" => uses'[i] = uses[i]

LEMMA RanIs ==
  ASSUME ServIInv, ShapeOK, NEW i \in Instances, Running(i)
  PROVE  \E done, ok : Ran(i, agenda[i][1], done, ok)
<1> DEFINE what == agenda[i][1]
           hosts == inst[i].hosts
           okOf(done) == \A m \in hosts : done[m] = Len(Tasks(i, what, m))
           most(done) == \A m \in hosts : done[m] = Max(Outcomes(i, m))
<1>1. what \in CallNames
  <2>1. agenda[i] \in Agendas /\ agenda[i] # <<>>
    BY DEF ServIInv, AgendaOK, Running
  <2> QED
    BY <2>1 DEF Agendas, CallNames
<1>2. PICK done \in [hosts -> 0..3] :
         /\ \A m \in hosts : done[m] \in Outcomes(i, m)
         /\ host' = [m \in Machines |-> IF m \in hosts THEN Did(host[m], Tasks(i, what, m), done[m]) ELSE host[m]]
         /\ saved' = [m \in Machines |->
               IF m \in hosts /\ done[m] = 1 THEN Fetched(m, Tasks(i, what, m)[1]) ELSE saved[m]]
         /\ agenda' = [agenda EXCEPT ![i] = IF okOf(done) THEN Tail(@) ELSE <<>>]
         /\ phase' = [phase EXCEPT ![i] =
               IF ~okOf(done) THEN (IF @ = "leaving" /\ most(done) THEN "stuck" ELSE "raised")
               ELSE IF Len(agenda[i]) = 1 THEN After(@) ELSE @]
         /\ uses' = IF what = "deploy" THEN [uses EXCEPT ![i] = @ + 1] ELSE uses
  BY DEF Running, MaxTasks
<1>3. /\ hosts \subseteq Machines
      /\ \A m \in Machines : tcpdumpIfs[m] \in Seq(Interfaces) /\ DOMAIN host[m] = HostFields
  BY MakesAre DEF ServIInv, IfsOK, HostsOK
<1>4. UNCHANGED <<inst, made, tcpdumpIfs, met>> /\ agenda[i] # <<>>
  BY DEF Running
<1>5. DOMAIN agenda = Instances /\ DOMAIN phase = Instances /\ DOMAIN uses = Instances
  BY DEF ServIInv, AgendaOK, ShapeOK
<1>6. \A m \in hosts : TaskFiles(i, what, m, Tasks(i, what, m))
  BY <1>1, <1>3, TaskFilesAre DEF ServIInv
<1>7. \A m \in hosts : done[m] \in 0..Len(Tasks(i, what, m))
  BY <1>2 DEF Outcomes
<1> DEFINE ok == okOf(done)
<1>8. ok \in BOOLEAN /\ (ok <=> \A m \in hosts : done[m] = Len(Tasks(i, what, m)))
  OBVIOUS
<1>9. /\ agenda'[i] = IF ok THEN Tail(agenda[i]) ELSE <<>>
      /\ phase'[i] = IF ~ok THEN (IF phase[i] = "leaving" /\ most(done) THEN "stuck" ELSE "raised")
                     ELSE IF Len(agenda[i]) = 1 THEN After(phase[i]) ELSE phase[i]
      /\ \A j \in Instances \ {i} : agenda'[j] = agenda[j] /\ phase'[j] = phase[j] /\ uses'[j] = uses[j]
      /\ DOMAIN uses' = Instances
      /\ what = "deploy" => uses'[i] = uses[i] + 1
      /\ what # "deploy" => uses'[i] = uses[i]
  <2> HIDE DEF okOf, most, what
  <2> QED
    BY <1>2, <1>5
<1>10. /\ \A m \in hosts :
             /\ host'[m] = Did(host[m], Tasks(i, what, m), done[m])
             /\ saved'[m] = IF done[m] = 1 THEN Fetched(m, Tasks(i, what, m)[1]) ELSE saved[m]
       /\ \A m \in Machines \ hosts : host'[m] = host[m] /\ saved'[m] = saved[m]
       /\ DOMAIN saved' = Machines
  <2> HIDE DEF okOf, most, what, hosts
  <2> QED
    BY <1>2, <1>3
<1>11. \A m \in hosts : done[m] \in 0..3 /\ done[m] \in Outcomes(i, m)
  BY <1>2
<1>12. ok => phase'[i] = IF Len(agenda[i]) = 1 THEN After(phase[i]) ELSE phase[i]
  BY <1>9
<1>13. ~ok => phase'[i] \in {"raised", "stuck"}
  BY <1>9
<1>14. ~ok /\ phase'[i] = "stuck" => phase[i] = "leaving" /\ \A m \in hosts : done[m] = Max(Outcomes(i, m))
  BY <1>9
<1>15. Ran(i, what, done, ok)
  <2> HIDE DEF ok, most, what, hosts
  <2> QED
    BY <1>1, <1>3, <1>4, <1>6, <1>7, <1>8, <1>9, <1>10, <1>11, <1>12, <1>13, <1>14 DEF Ran, what, hosts
<1> QED
  BY <1>15

\* Where an instance writes.
LEMMA OutputsAre ==
  ASSUME NEW i, Class(i) \in Recording, NEW path \in Outputs(i)
  PROVE  /\ path[1] = Class(i)
         /\ \/ Class(i) = "tcpdump" /\ \E a \in InterfaceNames(i) : path = <<"tcpdump", a>>
            \/ Class(i) \in {"tig", "tpg"} /\ path = <<Class(i)>>
            \/ Class(i) \in {"dstat", "locust"} /\ path = <<Class(i), i>>
<1>1. CASE Class(i) = "tcpdump"
  BY <1>1 DEF Outputs
<1>2. CASE Class(i) \in {"tig", "tpg"}
  BY <1>2 DEF Outputs
<1>3. CASE Class(i) \in {"dstat", "locust"}
  BY <1>3 DEF Outputs, OutputOf
<1> QED
  BY <1>1, <1>2, <1>3 DEF Recording

\* A monitoring that is not disturbed is the only one of its kind on its machines.
LEMMA OnlyMonitoring ==
  ASSUME ServIInv, NEW i \in made, NEW j \in made, i # j, Alone(i), inst[i].hosts \cap inst[j].hosts # {},
         Class(i) \in {"tig", "tpg"}
  PROVE  Class(j) # Class(i)
<1>1. ~Disturb(i, j) /\ made \subseteq Instances
  BY DEF Alone, ServIInv
<1> QED
  BY <1>1 DEF Disturb

\* The tasks of another instance spare what an instance that is not disturbed wrote.
LEMMA OthersSpare ==
  ASSUME ServIInv, NamesOK, NEW i \in made, Class(i) \in Recording, Alone(i),
         NEW j \in made, i # j, NEW what \in CallNames, NEW m \in inst[i].hosts \cap inst[j].hosts,
         NEW tasks, TaskFiles(j, what, m, tasks), NEW k \in 1..Len(tasks)
  PROVE  /\ \A path \in Outputs(i) : Spared(tasks[k], LastUse(i, path))
         /\ Class(i) = "tpg" => \A u : u.class = "tpg" => LeftUp(tasks[k], u)
<1> DEFINE t == tasks[k]
<1>0. made \subseteq Instances /\ inst[i].hosts \cap inst[j].hosts # {}
  BY DEF ServIInv
<1>1. ASSUME NEW path \in Outputs(i), t.op = "start", t.path = path PROVE t.path[1] = "dstat"
  <2>1. t.key \in KeysOn(j, m)
    BY <1>1 DEF TaskFiles
  <2>2. CASE Class(j) = "tcpdump"
    <3>1. path = <<"tcpdump", t.key>> /\ path[1] = "tcpdump"
      <4>1. t.path = <<"tcpdump", t.key>>
        BY <1>1, <2>2 DEF TaskFiles
      <4>2. \A x : <<"tcpdump", x>>[1] = "tcpdump"
        OBVIOUS
      <4> HIDE DEF t
      <4> QED
        BY <1>1, <4>1, <4>2
    <3>2. Class(i) = "tcpdump"
      BY <3>1, OutputsAre
    <3>3. PICK a \in InterfaceNames(i) : path = <<"tcpdump", a>>
      BY <3>2, OutputsAre
    <3>4. a = t.key
      BY <3>1, <3>3
    <3> QED
      BY <1>0, <2>1, <2>2, <3>2, <3>4, OtherKeys
  <2>3. CASE Class(j) # "tcpdump"
    <3>1. path = <<Class(j), j>> /\ path[1] = Class(j) /\ Class(j) \in {"dstat", "dask"}
      BY <1>1, <2>3 DEF TaskFiles, OutputOf
    <3>2. Class(i) = "dstat"
      BY <3>1, OutputsAre DEF Recording
    <3> QED
      BY <1>1, <3>1, <3>2, OutputsAre
  <2> QED
    BY <2>2, <2>3
<1>2. ASSUME NEW path \in Outputs(i), t.op = "wipe", t.path = path PROVE FALSE
  <2>1. Class(j) = "tig" /\ path[1] = "tig"
    BY <1>2 DEF TaskFiles
  <2>2. Class(i) = "tig"
    BY <2>1, OutputsAre
  <2> QED
    BY <1>0, <2>1, <2>2, OnlyMonitoring
<1>3. ASSUME Class(i) = "tpg", NEW u, u.class = "tpg" PROVE LeftUp(t, u)
  <2>1. Class(j) # "tpg"
    BY <1>0, <1>3, OnlyMonitoring
  <2> QED
    BY <1>3, <2>1 DEF LeftUp, TaskFiles
<1>4. \A path : LastUse(i, path).path = path
  BY DEF LastUse
<1> HIDE DEF t
<1>5. \A path \in Outputs(i) : Spared(t, LastUse(i, path))
  BY <1>1, <1>2, <1>4 DEF Spared
<1> QED
  BY <1>3, <1>5 DEF t

LEMMA OthersRan ==
  ASSUME ServIInv, NamesOK, NEW i \in made, Class(i) \in Recording, Alone(i),
         NEW j \in made, i # j, NEW what, NEW done, NEW ok, Ran(j, what, done, ok),
         NEW m \in inst[i].hosts
  PROVE  /\ OnMachine(i, m) => OnMachine(i, m)'
         /\ AtClient(i, m) /\ (Class(i) = "tcpdump" => OnMachine(i, m)) => AtClient(i, m)'
<1>0. /\ i \in Instances /\ j \in Instances /\ m \in Machines /\ inst \in Scenarios
      /\ UNCHANGED <<inst, made>> /\ uses'[i] = uses[i]
  BY MakesAre DEF ServIInv, Ran
<1>1. Class(i)' = Class(i) /\ Outputs(i)' = Outputs(i) /\ \A path : LastUse(i, path)' = LastUse(i, path)
  BY <1>0 DEF Class, Outputs, InterfaceNames, OutputOf, LastUse
<1>2. CASE m \notin inst[j].hosts
  <2>1. host'[m] = host[m] /\ saved'[m] = saved[m]
    BY <1>0, <1>2 DEF Ran
  <2> QED
    BY <1>1, <2>1 DEF OnMachine, AtClient
<1>3. CASE m \in inst[j].hosts
  <2> DEFINE tasks == Tasks(j, what, m)
             n == done[m]
  <2>1. /\ what \in CallNames /\ DOMAIN host[m] = HostFields /\ n \in 0..3 /\ n \in 0..Len(tasks)
        /\ TaskFiles(j, what, m, tasks) /\ host'[m] = Did(host[m], tasks, n)
        /\ saved'[m] = IF n = 1 THEN Fetched(m, tasks[1]) ELSE saved[m]
    BY <1>3 DEF Ran
  <2> HIDE DEF tasks, n
  <2>2. ASSUME NEW k \in 1..n
        PROVE  /\ \A path \in Outputs(i) : Spared(tasks[k], LastUse(i, path))
               /\ Class(i) = "tpg" => \A u : u.class = "tpg" => LeftUp(tasks[k], u)
    <3>1. k \in 1..Len(tasks)
      BY <2>1
    <3> QED
      BY <1>3, <2>1, <3>1, OthersSpare
  <2>3. /\ \A f \in host[m].files : (\A k \in 1..n : Spared(tasks[k], f)) => f \in host'[m].files
        /\ \A u \in host[m].up : (\A k \in 1..n : LeftUp(tasks[k], u)) => u \in host'[m].up
    BY <2>1, DidSpares
  <2>4. ASSUME OnMachine(i, m) PROVE OnMachine(i, m)'
    BY <1>1, <2>2, <2>3, <2>4 DEF OnMachine
  <2>5. ASSUME AtClient(i, m), Class(i) = "tcpdump" => OnMachine(i, m), NEW path \in Outputs(i)
        PROVE  LastUse(i, path) \in saved'[m]
    <3> DEFINE f == LastUse(i, path)
               t == tasks[1]
    <3>1. f.path = path /\ f \in saved[m] /\ path[1] = Class(i)
      BY <2>5, OutputsAre DEF LastUse, AtClient
    <3>2. CASE n # 1 \/ t.op \notin {"fetch", "snapshot"}
      BY <2>1, <3>1, <3>2 DEF Fetched
    <3>3. CASE n = 1 /\ t.op \in {"fetch", "snapshot"}
      <4>1. 1 \in 1..Len(tasks) /\ Len(tasks) # 0
        BY <2>1, <3>3
      <4>2. what = "backup" /\ Class(j) \in Recording /\ t.path = BackupPath(j)
        BY <2>1, <3>3, <4>1 DEF TaskFiles
      <4>3. saved'[m] = {g \in saved[m] : g.path # t.path /\ (Len(t.path) = 1 => g.path[1] # t.path[1])}
               \cup {g \in host[m].files : g.path = t.path \/ (Len(t.path) = 1 /\ g.path[1] = t.path[1])}
        BY <2>1, <3>3 DEF Fetched
      <4> HIDE DEF t, f
      <4>4. CASE Class(j) = "tcpdump"
        <5>1. t.path = <<"tcpdump">> /\ Len(t.path) = 1 /\ t.path[1] = "tcpdump"
          BY <4>2, <4>4 DEF BackupPath
        <5>2. CASE Class(i) = "tcpdump"
          <6>1. f \in host[m].files
            BY <2>5, <5>2 DEF OnMachine, f
          <6> QED
            BY <3>1, <4>3, <5>1, <5>2, <6>1 DEF f
        <5>3. CASE Class(i) # "tcpdump"
          <6>1. f.path[1] # t.path[1] /\ f.path # t.path
            BY <3>1, <5>1, <5>3
          <6> QED
            BY <3>1, <4>3, <6>1 DEF f
        <5> QED
          BY <5>2, <5>3
      <4>5. CASE Class(j) \in {"tig", "tpg"}
        <5>1. t.path[1] = Class(j)
          BY <4>2, <4>5 DEF BackupPath
        <5>2. Class(i) # Class(j)
          <6>1. CASE Class(i) \in {"tig", "tpg"}
            BY <1>3, <6>1, OnlyMonitoring
          <6>2. CASE Class(i) \notin {"tig", "tpg"}
            BY <4>5, <6>2
          <6> QED
            BY <6>1, <6>2
        <5>3. f.path[1] # t.path[1] /\ f.path # t.path
          BY <3>1, <5>1, <5>2
        <5> QED
          BY <3>1, <4>3, <5>3 DEF f
      <4>6. CASE Class(j) \in {"dstat", "locust"}
        <5>1. t.path = <<Class(j), j>> /\ Len(t.path) = 2 /\ t.path[1] = Class(j)
          BY <4>2, <4>6 DEF BackupPath, OutputOf
        <5>2. f.path # t.path
          <6> SUFFICES ASSUME path = <<Class(j), j>> PROVE FALSE
            BY <3>1, <5>1
          <6>1. Class(i) = Class(j)
            BY <3>1, <5>1
          <6>2. path = <<Class(i), i>>
            BY <4>6, <6>1, OutputsAre
          <6> QED
            BY <6>2
        <5> QED
          BY <3>1, <4>3, <5>1, <5>2 DEF f
      <4> QED
        BY <4>2, <4>4, <4>5, <4>6 DEF Recording
    <3> QED
      BY <3>2, <3>3
  <2> QED
    BY <1>1, <2>4, <2>5 DEF AtClient
<1> QED
  BY <1>2, <1>3

\* A session that another one starts meanwhile is not in the way of an instance that is
\* not disturbed.
LEMMA OthersSilent ==
  ASSUME ServIInv, NamesOK, MetOK, NEW i \in made, Alone(i), Active(i),
         NEW j \in made, i # j, Running(j), NEW m \in inst[i].hosts, Silent(i, m)
  PROVE  Silent(i, m)'
<1>0. /\ i \in Instances /\ j \in Instances /\ m \in Machines /\ inst \in Scenarios
      /\ UNCHANGED <<inst, made, met>> /\ agenda[j] # <<>> /\ tcpdumpIfs[m] \in Seq(Interfaces)
  BY MakesAre DEF ServIInv, IfsOK, Running
<1>1. Class(i)' = Class(i) /\ KeysOf(i)' = KeysOf(i)
  BY <1>0 DEF Class, KeysOf, InterfaceNames
<1>2. {i, j} \in met
  BY <1>0 DEF MetOK, Active
<1>3. ASSUME NEW s \in host'[m].tmux, s \notin host[m].tmux, Class(i) \in {"dstat", "tcpdump"}, NEW key \in KeysOf(i)
      PROVE  s.key # key /\ <<key, s.key>> \notin Within
  <2>1. m \in inst[j].hosts /\ s.key \in KeysOn(j, m) /\ Class(j) \in {"dstat", "dask", "tcpdump"}
    BY <1>0, <1>3, RunningIs
  <2>2. inst[i].hosts \cap inst[j].hosts # {}
    BY <2>1
  <2>3. ~(Class(i) = "dstat" /\ Class(j) = "dstat")
    <3>1. ~Disturb(i, j)
      BY <1>0 DEF Alone
    <3> QED
      BY <1>2, <2>2, <3>1 DEF Disturb
  <2>4. Class(j) # "tcpdump" => s.key = Class(j)
    BY <2>1 DEF KeysOn
  <2>5. Class(j) = "tcpdump" => s.key \in Interfaces
    <3>1. Sessions(j, m) \in Seq(Interfaces)
      BY <1>0, SessionsAre
    <3> QED
      BY <2>1, <3>1 DEF KeysOn
  <2>6. CASE Class(i) = "dstat"
    <3>1. key = "dstat"
      BY <1>3, <2>6 DEF KeysOf
    <3>2. s.key # "dstat"
      BY <1>0, <2>1, <2>3, <2>4, <2>5, <2>6, NamesAre
    <3> QED
      BY <1>0, <3>1, <3>2, NamesAre
  <2>7. CASE Class(i) = "tcpdump"
    <3>1. key \in InterfaceNames(i)
      BY <1>3, <2>7 DEF KeysOf
    <3>2. CASE Class(j) = "tcpdump"
      BY <2>1, <2>7, <3>1, <3>2, OtherKeys
    <3>3. CASE Class(j) # "tcpdump"
      BY <1>0, <2>1, <2>4, <3>1, <3>3, NamesAre
    <3> QED
      BY <3>2, <3>3
  <2> QED
    BY <1>3, <2>6, <2>7
<1> QED
  BY <1>1, <1>3 DEF Silent

\* Deployed on machines where no session is in its way, it records.
LEMMA DeployRecords ==
  ASSUME ServIInv, NEW i \in made, Class(i) \in Recording, Alone(i), NEW done, Ran(i, "deploy", done, TRUE),
         NEW m \in inst[i].hosts, Silent(i, m)
  PROVE  OnMachine(i, m)'
<1> DEFINE tasks == Tasks(i, "deploy", m)
           n == Len(tasks)
           F == [key \in KeysOf(i) |-> [path |-> IF Class(i) = "tcpdump" THEN <<"tcpdump", key>> ELSE OutputOf(i),
                                        by |-> i, run |-> uses[i] + 1]]
<1>0. i \in Instances /\ m \in Machines /\ inst \in Scenarios
  BY MakesAre DEF ServIInv
<1>1. /\ DOMAIN host[m] = HostFields /\ n \in 0..3 /\ host'[m] = Did(host[m], tasks, n)
      /\ TaskFiles(i, "deploy", m, tasks) /\ UNCHANGED inst /\ uses'[i] = uses[i] + 1
  BY DEF Ran
<1>2. Class(i)' = Class(i) /\ Outputs(i)' = Outputs(i)
  BY <1>1 DEF Class, Outputs, InterfaceNames, OutputOf
<1>3. \A path : LastUse(i, path)' = [path |-> path, by |-> i, run |-> uses[i] + 1]
  BY <1>1 DEF LastUse
<1>k. KeysOn(i, m) = KeysOf(i)
  BY KeysAgree
<1> HIDE DEF tasks, n
<1>4. CASE Class(i) \in {"dstat", "tcpdump"}
  <2>1. Started(host[m], KeysOf(i), {}, F)
    BY <1>1, <1>4 DEF Started, Silent
  <2>2. \A x, y \in KeysOf(i) : <<x, y>> \notin Within
    BY <1>0, <1>4, NamesAre DEF KeysOf, Alone
  <2>3. \A x, y \in KeysOf(i) : F[x].path = F[y].path => x = y
    <3>1. CASE Class(i) = "dstat"
      BY <3>1 DEF KeysOf
    <3>2. CASE Class(i) = "tcpdump"
      BY <3>2
    <3> QED
      BY <1>4, <3>1, <3>2
  <2>4. \A k \in 1..n : tasks[k].op = "start" /\ tasks[k].key \in KeysOf(i) /\ OfFile(tasks[k]) = F[tasks[k].key]
    <3>1. CASE Class(i) = "dstat"
      <4>1. n = 1 /\ tasks[1] = StartTask("dstat", OutputOf(i), i) /\ KeysOf(i) = {"dstat"}
        BY <1>1, <3>1 DEF TaskFiles, n, KeysOf
      <4> QED
        BY <3>1, <4>1 DEF StartTask, OfFile
    <3>2. CASE Class(i) = "tcpdump"
      <4> TAKE k \in 1..n
      <4>1. /\ tasks[k].op = "start" /\ tasks[k].i = i /\ tasks[k].key \in KeysOf(i)
            /\ tasks[k].path = <<"tcpdump", tasks[k].key>>
        BY <1>1, <1>k, <3>2 DEF TaskFiles, n
      <4> QED
        BY <3>2, <4>1 DEF OfFile
    <3> QED
      BY <1>4, <3>1, <3>2
  <2> HIDE DEF F
  <2>5. \A k \in 1..n : F[tasks[k].key] \in host'[m].files
    <3> DEFINE K == KeysOf(i)
               h == host[m]
    <3>1. /\ Started(h, K, {}, F) /\ n \in 0..3
          /\ \A k \in 1..n : tasks[k].op = "start" /\ tasks[k].key \in K /\ OfFile(tasks[k]) = F[tasks[k].key]
          /\ \A x, y \in K : <<x, y>> \notin Within /\ (F[x].path = F[y].path => x = y)
      BY <1>1, <2>1, <2>2, <2>3, <2>4
    <3> HIDE DEF K, h
    <3>2. \A k \in 1..n : F[tasks[k].key] \in Did(h, tasks, n).files
      BY <3>1, AllStarted
    <3> QED
      BY <1>1, <3>2 DEF h
  <2>6. \A key \in KeysOf(i) : F[key] \in host'[m].files
    <3>1. CASE Class(i) = "dstat"
      <4>1. n = 1 /\ tasks[1].key = "dstat" /\ KeysOf(i) = {"dstat"}
        BY <1>1, <3>1 DEF TaskFiles, n, KeysOf, StartTask
      <4> QED
        BY <2>5, <4>1
    <3>2. CASE Class(i) = "tcpdump"
      <4>1. \A key \in KeysOf(i) : \E k \in 1..n : tasks[k].key = key
        BY <1>1, <1>k, <3>2 DEF TaskFiles, n
      <4> QED
        BY <2>5, <4>1
    <3> QED
      BY <1>4, <3>1, <3>2
  <2>7. \A path \in Outputs(i) : LastUse(i, path)' \in host'[m].files
    <3>1. CASE Class(i) = "dstat"
      BY <1>3, <2>6, <3>1 DEF Outputs, KeysOf, F
    <3>2. CASE Class(i) = "tcpdump"
      BY <1>3, <2>6, <3>2 DEF Outputs, KeysOf, F
    <3> QED
      BY <1>4, <3>1, <3>2
  <2> QED
    BY <1>2, <1>4, <2>7 DEF OnMachine
<1>5. CASE Class(i) = "locust"
  <2>1. n = 1 /\ tasks[1] = [op |-> "run", path |-> OutputOf(i), i |-> i]
    BY <1>1, <1>5 DEF TaskFiles, n
  <2>2. host'[m] = Do(host[m], tasks[1])
    BY <1>1, <2>1, DidIs
  <2>3. OfFile(tasks[1]) = [path |-> OutputOf(i), by |-> i, run |-> uses[i] + 1] /\ tasks[1].op = "run"
    BY <2>1 DEF OfFile
  <2>4. [path |-> OutputOf(i), by |-> i, run |-> uses[i] + 1] \in host'[m].files
    BY <1>1, <2>2, <2>3 DEF Do, HostFields
  <2> QED
    BY <1>2, <1>3, <1>5, <2>4 DEF OnMachine, Outputs
<1>6. CASE Class(i) \in {"tig", "tpg"}
  <2>1. n = 2 /\ tasks[2] = [op |-> "up", class |-> Class(i), path |-> <<Class(i)>>, i |-> i]
    BY <1>1, <1>6 DEF TaskFiles, n
  <2> DEFINE h == Do(host[m], tasks[1])
  <2>2. host'[m] = Do(h, tasks[2]) /\ DOMAIN h = HostFields
    BY <1>1, <2>1, DidIs, DoIs
  <2> HIDE DEF h
  <2>3. /\ OfFile(tasks[2]) = [path |-> <<Class(i)>>, by |-> i, run |-> uses[i] + 1]
        /\ tasks[2].op = "up" /\ tasks[2].class = Class(i) /\ tasks[2].i = i
    BY <2>1 DEF OfFile
  <2>4. /\ [path |-> <<Class(i)>>, by |-> i, run |-> uses[i] + 1] \in host'[m].files
        /\ [class |-> Class(i), by |-> i] \in host'[m].up
    BY <2>2, <2>3, ZenonT(40) DEF Do, HostFields
  <2> QED
    BY <1>2, <1>3, <1>6, <2>4 DEF OnMachine, Outputs
<1> QED
  BY <1>4, <1>5, <1>6 DEF Recording

\* A destroy stops its sessions, and no other is in the way.
LEMMA Silenced ==
  ASSUME ServIInv, NamesOK, NEW i \in made, Alone(i), Running(i), agenda[i][1] = "destroy",
         phase'[i] \notin {"raised", "stuck"}, NEW m \in inst[i].hosts
  PROVE  Silent(i, m)'
<1>0. i \in Instances /\ m \in Machines /\ inst \in Scenarios /\ UNCHANGED inst
  BY MakesAre DEF ServIInv, Running
<1>1. Class(i)' = Class(i) /\ KeysOf(i)' = KeysOf(i)
  BY <1>0 DEF Class, KeysOf, InterfaceNames
<1>2. ASSUME Class(i) \in {"dstat", "tcpdump"}, NEW s \in host'[m].tmux, NEW key \in KeysOf(i)
      PROVE  s.key # key /\ <<key, s.key>> \notin Within
  <2>1. s \in host[m].tmux /\ s.key \notin KeysOn(i, m)
    BY <1>0, <1>2, RunningIs
  <2>2. s.key \notin KeysOf(i)
    BY <2>1, KeysAgree
  <2>3. CASE Class(i) = "dstat"
    BY <1>0, <1>2, <2>2, <2>3, NamesAre DEF KeysOf
  <2>4. CASE Class(i) = "tcpdump"
    <3>1. s.by # i
      BY <1>0, <2>1, <2>2 DEF ServIInv, HostsOK
    <3>2. key \in InterfaceNames(i)
      BY <1>2, <2>4 DEF KeysOf
    <3> QED
      BY <2>1, <2>4, <3>1, <3>2, OtherSessions
  <2> QED
    BY <1>2, <2>3, <2>4
<1> QED
  BY <1>1, <1>2 DEF Silent

\* A destroy or a backup of its own spares its files, but the destroy of a monitoring.
LEMMA OwnSpares ==
  ASSUME ServIInv, NEW i \in made, NEW what, what # "deploy", NEW done, NEW ok, Ran(i, what, done, ok),
         NEW m \in inst[i].hosts, what = "destroy" => Class(i) \notin {"tig", "tpg"}, OnMachine(i, m)
  PROVE  OnMachine(i, m)'
<1> DEFINE tasks == Tasks(i, what, m)
           n == done[m]
<1>1. /\ DOMAIN host[m] = HostFields /\ n \in 0..3 /\ n \in 0..Len(tasks) /\ host'[m] = Did(host[m], tasks, n)
      /\ TaskFiles(i, what, m, tasks) /\ UNCHANGED inst /\ uses'[i] = uses[i] /\ what \in CallNames
  BY DEF Ran
<1> HIDE DEF tasks, n
<1>2. Class(i)' = Class(i) /\ Outputs(i)' = Outputs(i) /\ \A path : LastUse(i, path)' = LastUse(i, path)
  BY <1>1 DEF Class, Outputs, InterfaceNames, OutputOf, LastUse
<1>3. ASSUME NEW k \in 1..n PROVE (\A f : Spared(tasks[k], f)) /\ (\A u : LeftUp(tasks[k], u))
  <2>1. k \in 1..Len(tasks)
    BY <1>1
  <2>2. tasks[k].op \notin {"start", "wipe"}
    BY <1>1, <2>1 DEF TaskFiles
  <2>3. tasks[k].op \notin {"up", "down"}
    <3>1. CASE what = "destroy"
      BY <1>1, <2>1, <3>1 DEF TaskFiles
    <3>2. CASE what = "backup"
      <4>1. Class(i) \in Recording
        BY <1>1, <2>1, <3>2 DEF TaskFiles
      <4>2. Len(tasks) = 1 /\ tasks[1].op = IF Class(i) = "tpg" THEN "snapshot" ELSE "fetch"
        BY <1>1, <3>2, <4>1 DEF TaskFiles
      <4>3. k = 1
        BY <2>1, <4>2
      <4> QED
        BY <4>2, <4>3
    <3> QED
      BY <1>1, <3>1, <3>2 DEF CallNames
  <2> QED
    BY <2>2, <2>3 DEF Spared, LeftUp
<1>4. /\ \A f \in host[m].files : f \in host'[m].files
      /\ \A u \in host[m].up : u \in host'[m].up
  BY <1>1, <1>3, DidSpares
<1> QED
  BY <1>2, <1>4 DEF OnMachine

\* A backup saves its files.
LEMMA Saves ==
  ASSUME ServIInv, NEW i \in made, Class(i) \in Recording, NEW done, Ran(i, "backup", done, TRUE),
         NEW m \in inst[i].hosts, OnMachine(i, m)
  PROVE  AtClient(i, m)'
<1> DEFINE tasks == Tasks(i, "backup", m)
           t == tasks[1]
<1>1. /\ done[m] = Len(tasks) /\ TaskFiles(i, "backup", m, tasks)
      /\ saved'[m] = IF done[m] = 1 THEN Fetched(m, tasks[1]) ELSE saved[m]
      /\ UNCHANGED inst /\ uses'[i] = uses[i]
  BY DEF Ran
<1> HIDE DEF tasks
<1>2. done[m] = 1 /\ t.path = BackupPath(i) /\ t.op \in {"fetch", "snapshot"}
  BY <1>1 DEF TaskFiles
<1>3. saved'[m] = {g \in saved[m] : g.path # t.path /\ (Len(t.path) = 1 => g.path[1] # t.path[1])}
               \cup {g \in host[m].files : g.path = t.path \/ (Len(t.path) = 1 /\ g.path[1] = t.path[1])}
  BY <1>1, <1>2 DEF Fetched
<1> HIDE DEF t
<1>4. Class(i)' = Class(i) /\ Outputs(i)' = Outputs(i) /\ \A path : LastUse(i, path)' = LastUse(i, path)
  BY <1>1 DEF Class, Outputs, InterfaceNames, OutputOf, LastUse
<1>5. ASSUME NEW path \in Outputs(i) PROVE LastUse(i, path) \in saved'[m]
  <2>1. LastUse(i, path) \in host[m].files /\ LastUse(i, path).path = path
    BY DEF OnMachine, LastUse
  <2>2. path = t.path \/ (Len(t.path) = 1 /\ path[1] = t.path[1])
    <3>1. CASE Class(i) = "tcpdump"
      BY <1>2, <3>1, OutputsAre DEF BackupPath
    <3>2. CASE Class(i) \in {"tig", "tpg"}
      BY <1>2, <3>2, OutputsAre DEF BackupPath
    <3>3. CASE Class(i) \in {"dstat", "locust"}
      BY <1>2, <3>3, OutputsAre DEF BackupPath, OutputOf
    <3> QED
      BY <3>1, <3>2, <3>3 DEF Recording
  <2> QED
    BY <1>3, <2>1, <2>2
<1> QED
  BY <1>4, <1>5 DEF AtClient

\* A destroy touches nothing that is saved.
LEMMA SavedStays ==
  ASSUME ServIInv, NEW i \in made, NEW done, NEW ok, Ran(i, "destroy", done, ok),
         NEW m \in inst[i].hosts, AtClient(i, m)
  PROVE  AtClient(i, m)'
<1> DEFINE tasks == Tasks(i, "destroy", m)
<1>1. /\ done[m] \in 0..Len(tasks) /\ TaskFiles(i, "destroy", m, tasks)
      /\ saved'[m] = IF done[m] = 1 THEN Fetched(m, tasks[1]) ELSE saved[m]
      /\ UNCHANGED inst /\ uses'[i] = uses[i]
  BY DEF Ran
<1> HIDE DEF tasks
<1>2. done[m] = 1 => tasks[1].op \notin {"fetch", "snapshot"}
  <2>1. done[m] = 1 => 1 \in 1..Len(tasks)
    BY <1>1
  <2> QED
    BY <1>1, <2>1 DEF TaskFiles
<1>3. saved'[m] = saved[m]
  BY <1>1, <1>2 DEF Fetched
<1>4. Outputs(i)' = Outputs(i) /\ \A path : LastUse(i, path)' = LastUse(i, path)
  BY <1>1 DEF Class, Outputs, InterfaceNames, OutputOf, LastUse
<1> QED
  BY <1>3, <1>4 DEF AtClient

\* The tasks of an exit are possible.
LEMMA ExitPossible ==
  ASSUME ServIInv, NEW i \in made, Class(i) \in Recording, NEW what \in {"destroy", "backup"},
         NEW done, NEW ok, Ran(i, what, done, ok),
         NEW m \in inst[i].hosts, what = "backup" => OnMachine(i, m)
  PROVE  Max(Outcomes(i, m)) = Len(Tasks(i, what, m))
<1> DEFINE tasks == Tasks(i, what, m)
           n == Len(tasks)
<1>0. i \in Instances /\ inst \in Scenarios
  BY DEF ServIInv
<1>1. /\ done[m] \in 0..n /\ TaskFiles(i, what, m, tasks) /\ what = agenda[i][1]
  BY DEF Ran
<1>2. n \in Nat
  <2>1. m \in Machines /\ tcpdumpIfs[m] \in Seq(Interfaces) /\ what \in CallNames
    BY <1>0, MakesAre DEF ServIInv, IfsOK, CallNames
  <2> QED
    BY <1>0, <2>1, TasksAre DEF TasksOK
<1>3. Outcomes(i, m) = {x \in 0..n : \A k \in 1..x : Possible(Did(host[m], tasks, k - 1), tasks[k])}
  BY <1>1 DEF Outcomes
<1>4. ASSUME NEW k \in 1..n PROVE Possible(Did(host[m], tasks, k - 1), tasks[k])
  <2>1. CASE what = "destroy"
    <3>1. tasks[k].op \notin {"fetch", "snapshot"}
      <4> HIDE DEF tasks
      <4> QED
        BY <1>1, <2>1, <1>4 DEF TaskFiles
    <3> QED
      BY <3>1 DEF Possible
  <2>2. CASE what = "backup"
    <3> DEFINE t == tasks[1]
    <3>1. /\ n = 1 /\ t.path = BackupPath(i)
          /\ t.op = IF Class(i) = "tpg" THEN "snapshot" ELSE "fetch"
          /\ Class(i) = "tpg" => t.class = "tpg"
      <4> HIDE DEF tasks
      <4> QED
        BY <1>1, <2>2 DEF TaskFiles
    <3>2. k = 1 /\ Did(host[m], tasks, 0) = host[m]
      BY <3>1, DidIs
    <3>3. \E path \in Outputs(i) : path[1] = t.path[1] /\ (Len(t.path) = 2 => path = t.path)
      <4>1. CASE Class(i) = "tcpdump"
        <5>1. PICK a \in InterfaceNames(i) : TRUE
          BY <1>0, <4>1, NamesAre
        <5>2. <<"tcpdump", a>> \in Outputs(i)
          BY <4>1 DEF Outputs
        <5>3. t.path = <<"tcpdump">> /\ Len(t.path) = 1 /\ <<"tcpdump", a>>[1] = "tcpdump"
          BY <3>1, <4>1 DEF BackupPath
        <5> QED
          BY <5>2, <5>3
      <4>2. CASE Class(i) \in {"tig", "tpg"}
        BY <3>1, <4>2 DEF BackupPath, Outputs
      <4>3. CASE Class(i) \in {"dstat", "locust"}
        BY <3>1, <4>3 DEF BackupPath, Outputs
      <4> QED
        BY <4>1, <4>2, <4>3 DEF Recording
    <3>4. PICK path \in Outputs(i) : path[1] = t.path[1] /\ (Len(t.path) = 2 => path = t.path)
      BY <3>3
    <3>5. LastUse(i, path) \in host[m].files /\ LastUse(i, path).path = path
      BY <2>2 DEF OnMachine, LastUse
    <3>6. t.op = "snapshot" => \E u \in host[m].up : u.class = t.class
      BY <2>2, <3>1 DEF OnMachine
    <3> HIDE DEF t
    <3>7. Possible(host[m], t)
      BY <3>4, <3>5, <3>6 DEF Possible
    <3> QED
      BY <3>2, <3>7 DEF t
  <2> QED
    BY <2>1, <2>2
<1> HIDE DEF tasks, n
<1>5. n \in Outcomes(i, m) /\ \A x \in Outcomes(i, m) : n >= x /\ x \in Nat
  BY <1>2, <1>3, <1>4
<1>6. Max(Outcomes(i, m)) \in Outcomes(i, m) /\ \A y \in Outcomes(i, m) : Max(Outcomes(i, m)) >= y
  BY <1>5 DEF Max
<1>7. Max(Outcomes(i, m)) >= n /\ n >= Max(Outcomes(i, m)) /\ Max(Outcomes(i, m)) \in Nat
  BY <1>5, <1>6
<1> QED
  BY <1>2, <1>7 DEF n, tasks

LEMMA NamesStep == ServIInv /\ NamesOK /\ [ServNext]_servVars => NamesOK'
<1> SUFFICES ASSUME ServIInv, NamesOK, [ServNext]_servVars PROVE NamesOK'
  OBVIOUS
<1>0. inst \in Scenarios /\ made \subseteq Instances
  BY DEF ServIInv
<1>a. ASSUME UNCHANGED inst, made \subseteq made'
      PROVE  /\ \A k : Class(k)' = Class(k) /\ InterfaceNames(k)' = InterfaceNames(k) /\ ByNetwork(k)' = ByNetwork(k)
             /\ \A m : Watching(m) \subseteq Watching(m)'
  BY <1>a DEF Class, InterfaceNames, ByNetwork, Watching
<1>1. ASSUME UNCHANGED <<inst, made, tcpdumpIfs>>, \A m \in Machines : host'[m].tmux = host[m].tmux PROVE NamesOK'
  <2>1. /\ \A k : Class(k)' = Class(k) /\ InterfaceNames(k)' = InterfaceNames(k) /\ ByNetwork(k)' = ByNetwork(k)
        /\ \A m : Watching(m)' = Watching(m)
    BY <1>1, <1>a DEF Watching, Class
  <2> QED
    BY <1>1, <2>1 DEF NamesOK
<1>2. ASSUME NEW i \in Instances, Make(i) PROVE NamesOK'
  <2>1. UNCHANGED <<inst, host>> /\ made' = made \cup {i} /\ tcpdumpIfs' = TcpdumpIfs(i)
    BY <1>2 DEF Make
  <2>2. /\ \A k : Class(k)' = Class(k) /\ InterfaceNames(k)' = InterfaceNames(k) /\ ByNetwork(k)' = ByNetwork(k)
        /\ \A m : Watching(m) \subseteq Watching(m)'
    BY <1>a, <2>1
  <2>3. ASSUME NEW m \in Machines
        PROVE  tcpdumpIfs'[m] = <<>> \/ \E k \in Watching(m)' : tcpdumpIfs'[m] = inst'[k].byNetwork
    <3>1. tcpdumpIfs'[m] = IF Class(i) = "tcpdump" /\ m \in inst[i].hosts THEN inst[i].byNetwork ELSE tcpdumpIfs[m]
      BY <2>1 DEF TcpdumpIfs
    <3>2. CASE Class(i) = "tcpdump" /\ m \in inst[i].hosts
      BY <2>1, <2>2, <3>1, <3>2 DEF Watching
    <3>3. CASE ~(Class(i) = "tcpdump" /\ m \in inst[i].hosts)
      BY <2>1, <2>2, <3>1, <3>3 DEF NamesOK
    <3> QED
      BY <3>2, <3>3
  <2>4. ASSUME NEW m \in Machines, NEW s \in host'[m].tmux
        PROVE  /\ s.by \in made'
               /\ Class(s.by)' # "tcpdump" => s.key = Class(s.by)'
               /\ Class(s.by)' = "tcpdump" =>
                     s.key \in InterfaceNames(s.by)' \/ \E k \in Watching(m)' : s.key \in ByNetwork(k)'
    BY <2>1, <2>2 DEF NamesOK
  <2> QED
    BY <2>3, <2>4 DEF NamesOK
<1>3. ASSUME NEW i \in Instances, Running(i) PROVE NamesOK'
  <2>1. UNCHANGED <<inst, made, tcpdumpIfs>> /\ agenda[i] # <<>>
    BY <1>3 DEF Running
  <2>2. /\ \A k : Class(k)' = Class(k) /\ InterfaceNames(k)' = InterfaceNames(k) /\ ByNetwork(k)' = ByNetwork(k)
        /\ \A m : Watching(m)' = Watching(m)
    BY <1>a, <2>1 DEF Watching, Class
  <2>3. i \in made
    BY <2>1 DEF ServIInv, AgendaOK
  <2>4. ASSUME NEW m \in Machines, NEW s \in host'[m].tmux
        PROVE  /\ s.by \in made
               /\ Class(s.by) # "tcpdump" => s.key = Class(s.by)
               /\ Class(s.by) = "tcpdump" =>
                     s.key \in InterfaceNames(s.by) \/ \E k \in Watching(m) : s.key \in ByNetwork(k)
    <3>1. CASE s \in host[m].tmux
      BY <3>1 DEF NamesOK
    <3>2. CASE s \notin host[m].tmux
      <4>1. s.by = i /\ s.key \in KeysOn(i, m)
        BY <1>3, <3>2, RunningIs
      <4>2. CASE Class(i) = "tcpdump"
        <5>1. tcpdumpIfs[m] \in Seq(Interfaces)
          BY DEF ServIInv, IfsOK
        <5>2. PICK k \in DOMAIN Sessions(i, m) : s.key = Sessions(i, m)[k]
          BY <4>1, <4>2 DEF KeysOn
        <5>3. \/ \E n \in DOMAIN inst[i].ifnames : s.key = inst[i].ifnames[n]
              \/ \E n \in DOMAIN tcpdumpIfs[m] : s.key = tcpdumpIfs[m][n]
          <6> DEFINE a == inst[i].ifnames
                     b == tcpdumpIfs[m]
          <6>1. a \in Seq(Interfaces) /\ b \in Seq(Interfaces) /\ Sessions(i, m) = a \o b
            BY <1>0, <5>1, MakesAre DEF Sessions
          <6> HIDE DEF a, b
          <6>2. k \in 1..(Len(a) + Len(b)) /\ (a \o b)[k] = IF k <= Len(a) THEN a[k] ELSE b[k - Len(a)]
            BY <5>2, <6>1
          <6>3. CASE k <= Len(a)
            <7>1. k \in DOMAIN a /\ s.key = a[k]
              BY <5>2, <6>1, <6>2, <6>3
            <7> QED
              BY <7>1 DEF a
          <6>4. CASE ~(k <= Len(a))
            <7>1. k - Len(a) \in DOMAIN b /\ s.key = b[k - Len(a)]
              BY <5>2, <6>1, <6>2, <6>4
            <7> QED
              BY <7>1 DEF b
          <6> QED
            BY <6>3, <6>4
        <5>4. CASE \E n \in DOMAIN inst[i].ifnames : s.key = inst[i].ifnames[n]
          BY <2>3, <4>1, <4>2, <5>4 DEF InterfaceNames
        <5>5. CASE \E n \in DOMAIN tcpdumpIfs[m] : s.key = tcpdumpIfs[m][n]
          <6>1. tcpdumpIfs[m] # <<>>
            BY <5>5
          <6>2. PICK k2 \in Watching(m) : tcpdumpIfs[m] = inst[k2].byNetwork
            BY <6>1 DEF NamesOK
          <6>3. s.key \in ByNetwork(k2)
            BY <5>5, <6>2 DEF ByNetwork
          <6> QED
            BY <2>3, <4>1, <4>2, <6>2, <6>3
        <5> QED
          BY <5>3, <5>4, <5>5
      <4>3. CASE Class(i) # "tcpdump"
        BY <2>3, <4>1, <4>3 DEF KeysOn
      <4> QED
        BY <4>2, <4>3
    <3> QED
      BY <3>1, <3>2
  <2> QED
    BY <2>1, <2>2, <2>4 DEF NamesOK
<1>4. ASSUME NEW m \in Machines, BenchEnds(m) PROVE NamesOK'
  <2>1. UNCHANGED <<inst, made, tcpdumpIfs>> /\ host' = [host EXCEPT ![m].procs = {}]
    BY <1>4 DEF BenchEnds
  <2>2. \A n \in Machines : host'[n].tmux = host[n].tmux
    BY <2>1 DEF ServIInv, HostsOK, HostFields
  <2> QED
    BY <1>1, <2>1, <2>2
<1>5. ASSUME NEW i \in Instances, With(i) \/ Leave(i) \/ \E what \in CallNames : Call(i, what) PROVE NamesOK'
  <2>1. UNCHANGED <<inst, made, tcpdumpIfs, host>>
    BY <1>5 DEF With, Leave, Call, Begin
  <2> QED
    BY <1>1, <2>1
<1>6. CASE Abandon \/ UNCHANGED servVars
  <2>1. UNCHANGED <<inst, made, tcpdumpIfs, host>>
    BY <1>6 DEF Abandon, servVars
  <2> QED
    BY <1>1, <2>1
<1> QED
  BY <1>2, <1>3, <1>4, <1>5, <1>6 DEF ServNext, CallNames

LEMMA MetStep == ServIInv /\ MetOK /\ [ServNext]_servVars => MetOK'
<1> SUFFICES ASSUME ServIInv, MetOK, [ServNext]_servVars PROVE MetOK'
  OBVIOUS
<1>0. DOMAIN agenda = Instances /\ DOMAIN phase = Instances
  BY DEF ServIInv, AgendaOK
<1>1. ASSUME \A i \in Instances : Active(i)' => Active(i), met' = met PROVE MetOK'
  BY <1>1 DEF MetOK
<1>2. ASSUME NEW i \in Instances, NEW next, NEW where, Begin(i, next, where) PROVE MetOK'
  <2>1. /\ met' = met \cup {{i, j} : j \in {j \in Instances \ {i} : Active(j)}}
        /\ \A j \in Instances \ {i} : Active(j)' = Active(j)
    BY <1>0, <1>2 DEF Begin, Active
  <2>2. ASSUME NEW j \in Instances \ {i}, Active(j)' PROVE {i, j} \in met'
    BY <2>1, <2>2
  <2>3. ASSUME NEW a \in Instances, NEW b \in Instances, a # b, Active(a)', Active(b)' PROVE {a, b} \in met'
    <3>1. CASE a = i
      BY <2>2, <2>3, <3>1
    <3>2. CASE b = i
      <4>1. {i, a} \in met' /\ {a, b} = {i, a}
        BY <2>2, <2>3, <3>2
      <4> QED
        BY <4>1
    <3>3. CASE a # i /\ b # i
      <4>1. {a, b} \in met
        BY <2>1, <2>3, <3>3 DEF MetOK
      <4> QED
        BY <2>1, <4>1
    <3> QED
      BY <3>1, <3>2, <3>3
  <2> QED
    BY <2>3 DEF MetOK
<1>3. ASSUME NEW i \in Instances, With(i) \/ Leave(i) \/ \E what \in CallNames : Call(i, what) PROVE MetOK'
  BY <1>2, <1>3 DEF With, Leave, Call
<1>4. ASSUME NEW i \in Instances, Running(i) PROVE MetOK'
  <2>1. agenda[i] # <<>> /\ met' = met /\ \A j \in Instances \ {i} : agenda'[j] = agenda[j] /\ phase'[j] = phase[j]
    BY <1>0, <1>4 DEF Running
  <2>2. \A j \in Instances : Active(j)' => Active(j)
    BY <2>1 DEF Active
  <2> QED
    BY <1>1, <2>1, <2>2
<1>5. CASE Abandon
  <2>1. met' = met /\ \A i \in Instances : ~Active(i)'
    BY <1>5 DEF Abandon, Active
  <2> QED
    BY <1>1, <2>1
<1>6. ASSUME UNCHANGED <<agenda, phase, met>> PROVE MetOK'
  BY <1>1, <1>6 DEF Active
<1> QED
  BY <1>3, <1>4, <1>5, <1>6 DEF ServNext, CallNames, Make, BenchEnds, servVars

LEMMA TailsAre ==
  ASSUME NEW a \in Agendas, a # <<>>
  PROVE  /\ Len(a) = 1 => Tail(a) = <<>> /\ a \in {<<"deploy">>, <<"destroy">>, <<"backup">>} /\ a = <<a[1]>>
         /\ Len(a) # 1 => a \notin {<<"deploy">>, <<"destroy">>, <<"backup">>}
         /\ a = <<"destroy", "deploy">> => Len(a) = 2 /\ a[1] = "destroy" /\ Tail(a) = <<"deploy">>
         /\ a = <<"destroy", "backup">> => Len(a) = 2 /\ a[1] = "destroy" /\ Tail(a) = <<"backup">>
         /\ a = <<"backup", "destroy">> => Len(a) = 2 /\ a[1] = "backup" /\ Tail(a) = <<"destroy">>
<1>1. CASE a = <<"deploy">>
  BY <1>1
<1>2. CASE a = <<"destroy">>
  BY <1>2
<1>3. CASE a = <<"backup">>
  BY <1>3
<1>4. CASE a = <<"destroy", "deploy">>
  BY <1>4
<1>5. CASE a = <<"destroy", "backup">>
  BY <1>5
<1>6. CASE a = <<"backup", "destroy">>
  BY <1>6
<1> QED
  BY <1>1, <1>2, <1>3, <1>4, <1>5, <1>6 DEF Agendas

LEMMA ShapeStep == ServIInv /\ ShapeOK /\ [ServNext]_servVars => ShapeOK'
<1> SUFFICES ASSUME ServIInv, ShapeOK, [ServNext]_servVars PROVE ShapeOK'
  OBVIOUS
<1> DEFINE Shaped(p, a, c) ==
             /\ p \in {"inside", "left", "raised", "stuck"} => a = <<>>
             /\ p = "entering" /\ c # "dask" => a \in {<<"destroy", "deploy">>, <<"deploy">>}
             /\ p = "leaving" /\ c \in {"tig", "tpg"} => a \in {<<"backup", "destroy">>, <<"destroy">>}
             /\ p = "leaving" /\ c \in Recording \ {"tig", "tpg"} => a \in {<<"destroy", "backup">>, <<"backup">>}
<1>0. /\ DOMAIN agenda = Instances /\ DOMAIN phase = Instances
      /\ \A i \in Instances : Shaped(phase[i], agenda[i], Class(i))
  BY DEF ServIInv, AgendaOK, ShapeOK
<1>1. ASSUME UNCHANGED inst, DOMAIN uses' = Instances, DOMAIN saved' = Machines,
             \A i \in Instances : Shaped(phase'[i], agenda'[i], Class(i))
      PROVE  ShapeOK'
  <2>1. \A i : Class(i)' = Class(i)
    BY <1>1 DEF Class
  <2> QED
    BY <1>1, <2>1 DEF ShapeOK
<1>2. ASSUME UNCHANGED <<inst, saved, agenda, phase, uses>> PROVE ShapeOK'
  <2>1. DOMAIN uses' = Instances /\ DOMAIN saved' = Machines
    BY <1>2 DEF ShapeOK
  <2> HIDE DEF Shaped
  <2> QED
    BY <1>0, <1>1, <1>2, <2>1
<1>3. ASSUME NEW i \in Instances, NEW next, NEW where, Begin(i, next, where), Shaped(where, next, Class(i))
      PROVE  ShapeOK'
  <2>1. /\ UNCHANGED <<inst, saved, uses>> /\ agenda'[i] = next /\ phase'[i] = where
        /\ \A j \in Instances \ {i} : agenda'[j] = agenda[j] /\ phase'[j] = phase[j]
    BY <1>0, <1>3 DEF Begin
  <2>2. DOMAIN uses' = Instances /\ DOMAIN saved' = Machines
    BY <2>1 DEF ShapeOK
  <2> HIDE DEF Shaped
  <2>3. \A j \in Instances : Shaped(phase'[j], agenda'[j], Class(j))
    BY <1>0, <1>3, <2>1
  <2> QED
    BY <1>1, <2>1, <2>2, <2>3
<1>4. ASSUME NEW i \in Instances, With(i) PROVE ShapeOK'
  BY <1>3, <1>4 DEF With, EnterCalls
<1>5. ASSUME NEW i \in Instances, Leave(i) PROVE ShapeOK'
  <2>1. Shaped("leaving", ExitCalls(Class(i)), Class(i))
    BY DEF ExitCalls, Recording
  <2> HIDE DEF Shaped
  <2> QED
    BY <1>3, <1>5, <2>1 DEF Leave
<1>6. ASSUME NEW i \in Instances, NEW what, Call(i, what) PROVE ShapeOK'
  BY <1>3, <1>6 DEF Call
<1>7. ASSUME NEW i \in Instances, Running(i) PROVE ShapeOK'
  <2>1. PICK done, ok : Ran(i, agenda[i][1], done, ok)
    BY <1>7, RanIs
  <2>2. /\ UNCHANGED inst /\ DOMAIN uses' = Instances /\ DOMAIN saved' = Machines /\ agenda[i] # <<>>
        /\ agenda'[i] = IF ok THEN Tail(agenda[i]) ELSE <<>>
        /\ ok => phase'[i] = IF Len(agenda[i]) = 1 THEN After(phase[i]) ELSE phase[i]
        /\ ~ok => phase'[i] \in {"raised", "stuck"}
        /\ \A j \in Instances \ {i} : agenda'[j] = agenda[j] /\ phase'[j] = phase[j]
    BY <2>1 DEF Ran
  <2>a. /\ Len(agenda[i]) = 1 => Tail(agenda[i]) = <<>>
        /\ Len(agenda[i]) # 1 => agenda[i] \notin {<<"deploy">>, <<"destroy">>, <<"backup">>}
        /\ agenda[i] = <<"destroy", "deploy">> => Tail(agenda[i]) = <<"deploy">>
        /\ agenda[i] = <<"destroy", "backup">> => Tail(agenda[i]) = <<"backup">>
        /\ agenda[i] = <<"backup", "destroy">> => Tail(agenda[i]) = <<"destroy">>
    BY <2>2, TailsAre DEF ServIInv, AgendaOK
  <2>3. Shaped(phase'[i], agenda'[i], Class(i))
    <3>1. CASE ~ok
      BY <2>2, <3>1
    <3>2. CASE ok /\ Len(agenda[i]) = 1
      <4>1. agenda'[i] = <<>>
        BY <2>2, <2>a, <3>2
      <4>2. phase'[i] \notin {"entering", "leaving"}
        BY <2>2, <3>2 DEF After
      <4> QED
        BY <4>1, <4>2
    <3>3. CASE ok /\ Len(agenda[i]) # 1
      <4>1. phase'[i] = phase[i] /\ phase[i] \notin {"inside", "left", "raised", "stuck"}
        BY <1>0, <2>2, <2>a, <3>3
      <4>2. phase[i] = "entering" /\ Class(i) # "dask" => agenda'[i] = <<"deploy">>
        BY <1>0, <2>2, <2>a, <3>3
      <4>3. phase[i] = "leaving" /\ Class(i) \in {"tig", "tpg"} => agenda'[i] = <<"destroy">>
        BY <1>0, <2>2, <2>a, <3>3
      <4>4. phase[i] = "leaving" /\ Class(i) \in Recording \ {"tig", "tpg"} => agenda'[i] = <<"backup">>
        BY <1>0, <2>2, <2>a, <3>3
      <4> QED
        BY <4>1, <4>2, <4>3, <4>4
    <3> QED
      BY <2>2, <3>1, <3>2, <3>3
  <2> HIDE DEF Shaped
  <2> QED
    BY <1>0, <1>1, <2>2, <2>3
<1>8. CASE Abandon
  <2>1. UNCHANGED <<inst, saved, uses>>
    BY <1>8 DEF Abandon
  <2>2. DOMAIN uses' = Instances /\ DOMAIN saved' = Machines
    BY <2>1 DEF ShapeOK
  <2>3. \A j \in Instances : agenda'[j] = <<>> /\ phase'[j] \notin {"entering", "leaving"}
    BY <1>8 DEF Abandon, Active
  <2>4. \A j \in Instances : Shaped(phase'[j], agenda'[j], Class(j))
    BY <2>3
  <2> QED
    BY <1>1, <2>1, <2>2, <2>4
<1> QED
  BY <1>2, <1>4, <1>5, <1>6, <1>7, <1>8 DEF ServNext, Make, BenchEnds, servVars

\* What an instance is promised, given its "with".
LEMMA DataFrame ==
  ASSUME ShapeOK, UNCHANGED inst, made \subseteq made', met \subseteq met', NEW i \in Instances, DataOK(i),
         agenda'[i] = agenda[i], phase'[i] = phase[i],
         Class(i) \in Recording /\ Alone(i) => \A m \in inst[i].hosts :
            /\ phase[i] = "entering" /\ Silent(i, m) => Silent(i, m)'
            /\ OnMachine(i, m) => OnMachine(i, m)'
            /\ AtClient(i, m) /\ (Class(i) = "tcpdump" => OnMachine(i, m)) => AtClient(i, m)'
  PROVE  DataOK(i)'
<1>1. Class(i)' = Class(i) /\ (Alone(i)' => Alone(i))
  BY AloneBefore DEF Class
<1> SUFFICES ASSUME Class(i) \in Recording, Alone(i)
             PROVE  DataOK(i)'
  BY <1>1 DEF DataOK
<1>2. phase[i] = "leaving" /\ agenda[i] = <<"destroy">> => Class(i) # "tcpdump"
  BY DEF ShapeOK, Recording
<1>3. /\ phase[i] # "stuck"
      /\ phase[i] = "entering" /\ agenda[i] = <<"deploy">> => \A m \in inst[i].hosts : Silent(i, m)'
      /\ phase[i] = "inside" \/ (phase[i] = "leaving" /\ agenda[i] # <<"destroy">>) =>
            \A m \in inst[i].hosts : OnMachine(i, m)'
      /\ phase[i] = "leaving" /\ agenda[i] = <<"destroy">> => \A m \in inst[i].hosts : AtClient(i, m)'
      /\ phase[i] = "left" =>
            \A m \in inst[i].hosts : AtClient(i, m)' /\ (Class(i) = "tcpdump" => OnMachine(i, m)')
  BY <1>2 DEF DataOK
<1> QED
  BY <1>1, <1>3 DEF DataOK

LEMMA QuietFrame ==
  ASSUME ServIInv, ShapeOK, UNCHANGED <<inst, saved, uses>>, made \subseteq made', met \subseteq met',
         NEW i \in Instances, DataOK(i), agenda'[i] = agenda[i], phase'[i] = phase[i],
         \A m \in Machines :
            host'[m].tmux = host[m].tmux /\ host'[m].files = host[m].files /\ host'[m].up = host[m].up
  PROVE  DataOK(i)'
<1>1. /\ Class(i)' = Class(i) /\ Outputs(i)' = Outputs(i) /\ KeysOf(i)' = KeysOf(i)
      /\ \A path : LastUse(i, path)' = LastUse(i, path)
  BY DEF Class, Outputs, InterfaceNames, OutputOf, LastUse, KeysOf
<1>2. inst[i].hosts \subseteq Machines
  BY MakesAre DEF ServIInv
<1>3. \A m \in inst[i].hosts :
         (Silent(i, m) => Silent(i, m)') /\ (OnMachine(i, m) => OnMachine(i, m)') /\ (AtClient(i, m) => AtClient(i, m)')
  BY <1>1, <1>2 DEF Silent, OnMachine, AtClient
<1> QED
  BY <1>3, DataFrame

\* An instance that no other disturbs does a call: an exit never fails on every machine
\* that it could be done on, ...
LEMMA NeverStuck ==
  ASSUME ServIInv, ShapeOK, NEW i \in made, Class(i) \in Recording, Alone(i), DataOK(i),
         NEW done, NEW ok, Ran(i, agenda[i][1], done, ok)
  PROVE  phase'[i] # "stuck"
<1> SUFFICES ASSUME phase'[i] = "stuck" PROVE FALSE
  OBVIOUS
<1> DEFINE what == agenda[i][1]
<1>0. i \in Instances /\ agenda[i] \in Agendas /\ agenda[i] # <<>> /\ ok \in BOOLEAN
  BY DEF ServIInv, AgendaOK, Ran
<1>1. CASE ok
  <2>1. phase'[i] = IF Len(agenda[i]) = 1 THEN After(phase[i]) ELSE phase[i]
    BY <1>1 DEF Ran
  <2>2. phase[i] # "stuck"
    BY <1>0 DEF ShapeOK
  <2> QED
    BY <2>1, <2>2 DEF After
<1>2. CASE ~ok
  <2>1. phase[i] = "leaving" /\ \A m \in inst[i].hosts : done[m] = Max(Outcomes(i, m))
    BY <1>2 DEF Ran
  <2>2. PICK m \in inst[i].hosts : done[m] # Len(Tasks(i, what, m))
    BY <1>2 DEF Ran
  <2>3. agenda[i] \in {<<"destroy", "backup">>, <<"backup">>, <<"destroy">>, <<"backup", "destroy">>}
    BY <1>0, <2>1 DEF ServIInv, AgendaOK
  <2>4. what \in {"destroy", "backup"} /\ (what = "backup" => agenda[i] # <<"destroy">>)
    BY <2>3
  <2>5. what = "backup" => OnMachine(i, m)
    BY <2>1, <2>4 DEF DataOK
  <2> HIDE DEF what
  <2>6. Max(Outcomes(i, m)) = Len(Tasks(i, what, m))
    BY <2>4, <2>5, ExitPossible DEF what
  <2> QED
    BY <2>1, <2>2, <2>6
<1> QED
  BY <1>0, <1>1, <1>2

\* ... and each call does what the next one relies on.
LEMMA OwnStep ==
  ASSUME ServIInv, NamesOK, ShapeOK, NEW i \in Instances, DataOK(i), Running(i)
  PROVE  DataOK(i)'
<1>1. PICK done, ok : Ran(i, agenda[i][1], done, ok)
  BY RanIs
<1> DEFINE what == agenda[i][1]
           hosts == inst[i].hosts
<1>2. /\ UNCHANGED <<inst, made, met>> /\ agenda[i] # <<>> /\ agenda[i] \in Agendas /\ ok \in BOOLEAN /\ i \in made
      /\ agenda'[i] = IF ok THEN Tail(agenda[i]) ELSE <<>>
      /\ ok => phase'[i] = IF Len(agenda[i]) = 1 THEN After(phase[i]) ELSE phase[i]
      /\ ~ok => phase'[i] \in {"raised", "stuck"}
  BY <1>1 DEF Ran, ServIInv, AgendaOK
<1>3. Class(i)' = Class(i) /\ (Alone(i)' => Alone(i))
  BY <1>2, AloneBefore DEF Class
<1> SUFFICES ASSUME Class(i) \in Recording, Alone(i)
             PROVE  DataOK(i)'
  BY <1>3 DEF DataOK
<1>4. phase'[i] # "stuck"
  BY <1>1, <1>2, NeverStuck
<1>5. CASE phase'[i] \notin {"entering", "inside", "leaving", "left"}
  BY <1>4, <1>5 DEF DataOK
<1>6. CASE phase'[i] \in {"entering", "inside", "leaving", "left"}
  <2>1. ok = TRUE /\ agenda'[i] = Tail(agenda[i])
    BY <1>2, <1>6
  <2>2. phase'[i] = IF Len(agenda[i]) = 1 THEN After(phase[i]) ELSE phase[i]
    BY <1>2, <2>1
  <2>3. phase[i] \notin {"inside", "left"}
    BY <1>2 DEF ShapeOK
  <2>4. phase[i] \in {"entering", "leaving"}
    BY <1>6, <2>2, <2>3 DEF After
  <2>t. /\ Len(agenda[i]) = 1 => Tail(agenda[i]) = <<>> /\ agenda[i] = <<what>>
        /\ Len(agenda[i]) # 1 => agenda[i] \notin {<<"deploy">>, <<"destroy">>, <<"backup">>}
        /\ agenda[i] = <<"destroy", "deploy">> => Len(agenda[i]) = 2 /\ what = "destroy" /\ Tail(agenda[i]) = <<"deploy">>
        /\ agenda[i] = <<"destroy", "backup">> => Len(agenda[i]) = 2 /\ what = "destroy" /\ Tail(agenda[i]) = <<"backup">>
        /\ agenda[i] = <<"backup", "destroy">> => Len(agenda[i]) = 2 /\ what = "backup" /\ Tail(agenda[i]) = <<"destroy">>
    BY <1>2, TailsAre
  <2>n. /\ <<"deploy">> # <<"destroy">> /\ <<"deploy">> # <<"backup">> /\ <<"backup">> # <<"destroy">>
        /\ <<"destroy", "backup">> # <<"destroy">> /\ <<"backup", "destroy">> # <<"destroy">>
        /\ <<"destroy", "deploy">> # <<"deploy">> /\ <<>> # <<"deploy">> /\ <<>> # <<"destroy">>
    OBVIOUS
  <2>r. Ran(i, what, done, TRUE)
    BY <1>1, <2>1
  <2> HIDE DEF what, hosts
  <2>5. CASE phase[i] = "entering"
    <3>1. agenda[i] \in {<<"destroy", "deploy">>, <<"deploy">>}
      BY <2>5 DEF ShapeOK, Recording
    <3>2. CASE agenda[i] = <<"destroy", "deploy">>
      <4>1. phase'[i] = "entering" /\ what = "destroy"
        BY <2>2, <2>5, <2>t, <3>2
      <4>2. \A m \in hosts : Silent(i, m)'
        BY <1>2, <4>1, Silenced DEF what, hosts
      <4> QED
        BY <1>2, <4>1, <4>2 DEF DataOK, hosts
    <3>3. CASE agenda[i] = <<"deploy">>
      <4>1. phase'[i] = "inside" /\ what = "deploy"
        <5>1. Len(agenda[i]) = 1 /\ what = "deploy"
          BY <3>3 DEF what
        <5> QED
          BY <2>2, <2>5, <5>1 DEF After
      <4>2. \A m \in hosts : Silent(i, m)
        BY <2>5, <3>3 DEF DataOK, hosts
      <4>3. \A m \in hosts : OnMachine(i, m)'
        BY <1>2, <2>r, <4>1, <4>2, DeployRecords DEF hosts
      <4> QED
        BY <1>2, <4>1, <4>3 DEF DataOK, hosts
    <3> QED
      BY <3>1, <3>2, <3>3
  <2>6. CASE phase[i] = "leaving" /\ Class(i) \in {"tig", "tpg"}
    <3>1. agenda[i] \in {<<"backup", "destroy">>, <<"destroy">>}
      BY <2>6 DEF ShapeOK
    <3>2. CASE agenda[i] = <<"backup", "destroy">>
      <4>1. phase'[i] = "leaving" /\ agenda'[i] = <<"destroy">> /\ what = "backup"
        BY <2>1, <2>2, <2>6, <2>t, <3>2
      <4>2. \A m \in hosts : OnMachine(i, m)
        BY <2>6, <2>n, <3>2 DEF DataOK, hosts
      <4>3. \A m \in hosts : AtClient(i, m)'
        BY <1>2, <2>r, <4>1, <4>2, Saves DEF hosts
      <4> QED
        BY <1>2, <4>1, <4>3 DEF DataOK, hosts
    <3>3. CASE agenda[i] = <<"destroy">>
      <4>1. phase'[i] = "left" /\ what = "destroy"
        <5>1. Len(agenda[i]) = 1 /\ what = "destroy"
          BY <3>3 DEF what
        <5> QED
          BY <2>2, <2>6, <5>1 DEF After
      <4>2. \A m \in hosts : AtClient(i, m)
        BY <2>6, <3>3 DEF DataOK, hosts
      <4>3. \A m \in hosts : AtClient(i, m)'
        BY <1>2, <2>r, <4>1, <4>2, SavedStays DEF hosts
      <4> QED
        BY <1>2, <1>3, <2>6, <4>1, <4>3 DEF DataOK, hosts
    <3> QED
      BY <3>1, <3>2, <3>3
  <2>7. CASE phase[i] = "leaving" /\ Class(i) \notin {"tig", "tpg"}
    <3>1. agenda[i] \in {<<"destroy", "backup">>, <<"backup">>}
      BY <2>7 DEF ShapeOK
    <3>2. \A m \in hosts : OnMachine(i, m)
      BY <2>7, <2>n, <3>1 DEF DataOK, hosts
    <3>3. what # "deploy"
      <4>1. agenda[i] = <<"backup">> => what = "backup"
        BY DEF what
      <4> QED
        BY <2>t, <3>1, <4>1
    <3>4. \A m \in hosts : OnMachine(i, m)'
      BY <1>2, <2>r, <2>7, <3>2, <3>3, OwnSpares DEF hosts
    <3>5. CASE agenda[i] = <<"destroy", "backup">>
      <4>1. phase'[i] = "leaving" /\ agenda'[i] = <<"backup">>
        BY <2>1, <2>2, <2>7, <2>t, <3>5
      <4> QED
        BY <1>2, <2>n, <3>4, <4>1 DEF DataOK, hosts
    <3>6. CASE agenda[i] = <<"backup">>
      <4>1. phase'[i] = "left" /\ what = "backup"
        <5>1. Len(agenda[i]) = 1 /\ what = "backup"
          BY <3>6 DEF what
        <5> QED
          BY <2>2, <2>7, <5>1 DEF After
      <4>2. \A m \in hosts : AtClient(i, m)'
        BY <1>2, <2>r, <3>2, <4>1, Saves DEF hosts
      <4> QED
        BY <1>2, <3>4, <4>1, <4>2 DEF DataOK, hosts
    <3> QED
      BY <3>1, <3>5, <3>6
  <2> QED
    BY <2>4, <2>5, <2>6, <2>7
<1> QED
  BY <1>5, <1>6

\* Another instance does a call.
LEMMA OtherStep ==
  ASSUME ServIInv, NamesOK, MetOK, ShapeOK, NEW i \in Instances, DataOK(i),
         NEW j \in Instances, j # i, Running(j)
  PROVE  DataOK(i)'
<1>1. PICK done, ok : Ran(j, agenda[j][1], done, ok)
  BY RanIs
<1>2. /\ UNCHANGED <<inst, made, met>> /\ agenda[j] # <<>> /\ j \in made
      /\ agenda'[i] = agenda[i] /\ phase'[i] = phase[i]
  BY <1>1 DEF Ran, ServIInv, AgendaOK
<1>3. CASE i \notin made
  <2>1. phase'[i] = "idle"
    BY <1>2, <1>3 DEF ServIInv, AgendaOK
  <2> QED
    BY <2>1 DEF DataOK
<1>4. CASE i \in made
  <2>1. ASSUME Class(i) \in Recording, Alone(i), NEW m \in inst[i].hosts
        PROVE  /\ phase[i] = "entering" /\ Silent(i, m) => Silent(i, m)'
               /\ OnMachine(i, m) => OnMachine(i, m)'
               /\ AtClient(i, m) /\ (Class(i) = "tcpdump" => OnMachine(i, m)) => AtClient(i, m)'
    <3>1. phase[i] = "entering" => Active(i)
      BY DEF Active
    <3>2. phase[i] = "entering" /\ Silent(i, m) => Silent(i, m)'
      BY <1>2, <1>4, <2>1, <3>1, OthersSilent
    <3>3. /\ OnMachine(i, m) => OnMachine(i, m)'
          /\ AtClient(i, m) /\ (Class(i) = "tcpdump" => OnMachine(i, m)) => AtClient(i, m)'
      BY <1>1, <1>2, <1>4, <2>1, OthersRan
    <3> QED
      BY <3>2, <3>3
  <2> QED
    BY <1>2, <2>1, DataFrame
<1> QED
  BY <1>3, <1>4

LEMMA DataInitOK == ServInit => DataIInv
<1> SUFFICES ASSUME ServInit PROVE DataIInv
  OBVIOUS
<1>1. NamesOK
  BY DEF ServInit, NamesOK
<1>2. \A i \in Instances : phase[i] = "idle" /\ ~Active(i)
  BY DEF ServInit, Active
<1>3. MetOK
  BY <1>2 DEF MetOK
<1>4. ShapeOK
  BY <1>2 DEF ShapeOK, ServInit
<1>5. \A i \in Instances : DataOK(i)
  BY <1>2 DEF DataOK
<1> QED
  BY <1>1, <1>3, <1>4, <1>5, ServInitOK DEF DataIInv

LEMMA DataStepOK == DataIInv /\ [ServNext]_servVars => DataIInv'
<1> SUFFICES ASSUME DataIInv, [ServNext]_servVars PROVE DataIInv'
  OBVIOUS
<1>0. ServIInv /\ NamesOK /\ MetOK /\ ShapeOK /\ \A i \in Instances : DataOK(i)
  BY DEF DataIInv
<1>a. ServIInv' /\ NamesOK' /\ MetOK' /\ ShapeOK'
  BY <1>0, ServStepOK, NamesStep, MetStep, ShapeStep
<1>b. DOMAIN agenda = Instances /\ DOMAIN phase = Instances
  BY <1>0 DEF ServIInv, AgendaOK
<1> SUFFICES ASSUME NEW i \in Instances PROVE DataOK(i)'
  BY <1>a DEF DataIInv
<1>1. ASSUME NEW j \in Instances, Running(j) PROVE DataOK(i)'
  <2>1. CASE j = i
    BY <1>0, <1>1, <2>1, OwnStep
  <2>2. CASE j # i
    BY <1>0, <1>1, <2>2, OtherStep
  <2> QED
    BY <2>1, <2>2
<1>2. ASSUME UNCHANGED <<inst, saved, uses, host>>, made \subseteq made', met \subseteq met',
             agenda'[i] = agenda[i], phase'[i] = phase[i]
      PROVE  DataOK(i)'
  BY <1>0, <1>2, QuietFrame
<1>3. ASSUME NEW j \in Instances, Make(j) PROVE DataOK(i)'
  BY <1>2, <1>3 DEF Make
<1>4. ASSUME NEW j \in Instances, NEW next, NEW where, Begin(j, next, where), j # i PROVE DataOK(i)'
  BY <1>b, <1>2, <1>4 DEF Begin
<1>5. ASSUME NEW j \in Instances, With(j) PROVE DataOK(i)'
  <2>1. CASE j # i
    BY <1>4, <1>5, <2>1 DEF With
  <2>2. CASE j = i
    <3>1. UNCHANGED inst /\ phase'[i] = "entering" /\ agenda'[i] = EnterCalls(Class(i))
      BY <1>b, <1>5, <2>2 DEF With, Begin
    <3>2. Class(i)' = Class(i) /\ (Class(i) \in Recording => agenda'[i] = <<"destroy", "deploy">>)
      BY <3>1 DEF Class, EnterCalls, Recording
    <3>3. <<"destroy", "deploy">> # <<"deploy">>
      OBVIOUS
    <3> QED
      BY <3>1, <3>2, <3>3 DEF DataOK
  <2> QED
    BY <2>1, <2>2
<1>6. ASSUME NEW j \in Instances, Leave(j) PROVE DataOK(i)'
  <2>1. CASE j # i
    BY <1>4, <1>6, <2>1 DEF Leave
  <2>2. CASE j = i
    <3>1. /\ UNCHANGED <<inst, made, host, saved, uses>> /\ met \subseteq met' /\ phase[i] = "inside"
          /\ phase'[i] = "leaving" /\ agenda'[i] = ExitCalls(Class(i))
      BY <1>b, <1>6, <2>2 DEF Leave, Begin
    <3>2. /\ Class(i)' = Class(i) /\ (Alone(i)' => Alone(i))
          /\ Class(i) \in Recording => agenda'[i] # <<"destroy">>
      BY <3>1, AloneBefore DEF Class, ExitCalls, Recording
    <3>3. /\ \A m : OnMachine(i, m)' <=> OnMachine(i, m)
      <4>1. Outputs(i)' = Outputs(i) /\ \A path : LastUse(i, path)' = LastUse(i, path)
        BY <3>1 DEF Class, Outputs, InterfaceNames, OutputOf, LastUse
      <4> QED
        BY <3>1, <3>2, <4>1 DEF OnMachine
    <3> QED
      BY <1>0, <3>1, <3>2, <3>3 DEF DataOK
  <2> QED
    BY <2>1, <2>2
<1>7. ASSUME NEW j \in Instances, NEW what, Call(j, what) PROVE DataOK(i)'
  <2>1. CASE j # i
    BY <1>4, <1>7, <2>1 DEF Call
  <2>2. CASE j = i
    <3>1. phase'[i] = "idle"
      BY <1>b, <1>7, <2>2 DEF Call, Begin
    <3> QED
      BY <3>1 DEF DataOK
  <2> QED
    BY <2>1, <2>2
<1>8. ASSUME NEW m \in Machines, BenchEnds(m) PROVE DataOK(i)'
  <2>1. /\ UNCHANGED <<inst, made, saved, agenda, phase, uses, met>>
        /\ host' = [host EXCEPT ![m].procs = {}]
    BY <1>8 DEF BenchEnds
  <2>2. \A n \in Machines :
           host'[n].tmux = host[n].tmux /\ host'[n].files = host[n].files /\ host'[n].up = host[n].up
    BY <1>0, <2>1 DEF ServIInv, HostsOK, HostFields
  <2> QED
    BY <1>0, <2>1, <2>2, QuietFrame
<1>9. CASE Abandon
  <2>1. /\ UNCHANGED <<inst, made, host, saved, uses, met>> /\ agenda'[i] = <<>>
        /\ phase'[i] = IF Active(i) THEN "raised" ELSE phase[i]
    BY <1>9 DEF Abandon
  <2>2. CASE Active(i)
    BY <2>1, <2>2 DEF DataOK
  <2>3. CASE ~Active(i)
    <3>1. agenda[i] = <<>>
      BY <2>3 DEF Active
    <3> QED
      BY <1>2, <2>1, <2>3, <3>1
  <2> QED
    BY <2>2, <2>3
<1>10. CASE UNCHANGED servVars
  BY <1>2, <1>10 DEF servVars
<1> QED
  BY <1>1, <1>3, <1>5, <1>6, <1>7, <1>8, <1>9, <1>10 DEF ServNext

LEMMA DataRun == Spec => []DataIInv
<1>1. Init => ServInit
  BY DEF Init
<1>2. [Next]_vars => [ServNext]_servVars
  BY DEF Next, vars, machineVars
<1> QED
  BY <1>1, <1>2, DataInitOK, DataStepOK, PTL DEF Spec

LEMMA DataImplies == DataIInv => ServiceDataKept
  BY DEF DataIInv, DataOK, ServiceDataKept, AtClient, LastUse

\* What users measure reaches the client: every service that a "with" leaves has saved
\* what it recorded, an IoT-LAB collector fetched the traces of its last block, Kwollect
\* holds exactly the windows it was asked for, and "docker ps" is read from the machine
\* that it ran on (Service.__exit__, IotlabSerial, Kwollect._retrieve, get_dockers).
THEOREM DataIsKept == Spec => []DataKept
<1>1. StrIInv => StreamsKept
  BY DEF StrIInv
<1>2. KwIInv => KwollectExact
  BY DEF KwIInv
<1>3. ServiceDataKept /\ StreamsKept /\ KwollectExact /\ DockersFound => DataKept
  BY DEF DataKept
<1> QED
  BY <1>1, <1>2, <1>3, DataRun, DataImplies, StreamsRun, KwollectRun, DockersRun, DkImplies, PTL

-----------------------------------------------------------------------------
(* The types of a planning *)

\* The calls, the clock and what is written in the crontabs.
PlanTypeInv ==
    /\ PlanIInv
    /\ now \in 0..MaxTime
    /\ \A h \in Workers : crontab[h] \subseteq Entry
    /\ doing \in {"nothing", "status", "kill", "kill_async"}
    /\ calls \in 0..MaxCalls

\* The invariant says what the types say.
LEMMA PlanTypes == PlanTypeInv => PlanTypeOK
  BY DEF PlanTypeInv, PlanIInv, RegIInv, PlanTypeOK

\* A registry is finite.
LEMMA RegistryFinite == ASSUME RegTypeOK PROVE IsFiniteSet(AliveProcesses) /\ Cardinality(AliveProcesses) \in Nat
<1> DEFINE S == (Workers \X Groups) \X BOOLEAN
           f == [p \in AliveProcesses |-> <<<<p.host, p.group>>, p.alive>>]
<1>1. IsFiniteSet(BOOLEAN)
  <2>1. IsFiniteSet({TRUE}) /\ IsFiniteSet({FALSE})
    BY FS_Singleton
  <2>2. BOOLEAN = {TRUE} \cup {FALSE}
    OBVIOUS
  <2> QED
    BY <2>1, <2>2, FS_Union
<1>2. IsFiniteSet(S)
  BY <1>1, FS_Product, RegistryAssumption
<1>3. \A p \in AliveProcesses : p \in [host : Workers, group : Groups, alive : BOOLEAN]
  BY DEF AliveProcesses, RegTypeOK
<1>4. f \in Injection(AliveProcesses, S)
  <2>1. f \in [AliveProcesses -> S]
    BY <1>3
  <2>2. \A p, q \in AliveProcesses : f[p] = f[q] => p = q
    BY <1>3
  <2> QED
    BY <2>1, <2>2 DEF Injection, IsInjective
<1> HIDE DEF S, f
<1>5. IsFiniteSet(AliveProcesses)
  BY <1>2, <1>4, FS_Injection
<1> QED
  BY <1>5, FS_CardinalityType

\* The entries that kill are entries.
LEMMA KillIsEntry ==
  ASSUME NEW g \in Groups, NEW at \in 1..(MaxTime + 3), NEW by \in {"registry", "process"}
  PROVE  KillEntry(g, at, by) \in Entry
  BY DEF KillEntry, Entry, Actions

\* What is planned is an entry of a crontab.
LEMMA PlannedIsEntry == ASSUME NEW e \in Event PROVE Planned(e) \in Entry
<1>1. e.at \in 1..MaxTime /\ e.group \in Groups /\ e.do \in Actions
  BY DEF Event
<1>2. e.at \in 1..(MaxTime + 3)
  BY <1>1, PlanningAssumption
<1> QED
  BY <1>1, <1>2 DEF Planned, Entry

\* Nothing is planned.
LEMMA PlanTypesInitOK == PlanInit => PlanTypeInv
  BY RegInitOK, PlanningAssumption DEF PlanInit, PlanIInv, PlanTypeInv

\* Entries are of events, and calls are bounded.
LEMMA PlanTypesStepOK == PlanTypeInv /\ [RegistryOrPlanning]_allVars => PlanTypeInv'
<1> SUFFICES ASSUME PlanTypeInv, [RegistryOrPlanning]_allVars PROVE PlanTypeInv'
  OBVIOUS
<1>0. PlanIInv /\ PlanIInv' /\ RegTypeOK
  BY PlanStepOK DEF PlanTypeInv, PlanIInv, RegIInv
<1>1. /\ now \in 0..MaxTime /\ calls \in 0..MaxCalls /\ MaxTime \in Nat /\ MaxCalls \in Nat
      /\ doing \in {"nothing", "status", "kill", "kill_async"}
      /\ \A h \in Workers : crontab[h] \subseteq Entry
  BY PlanningAssumption DEF PlanTypeInv
<1>2. CASE Tick
  <2>1. now' = now + 1 /\ now < MaxTime /\ UNCHANGED <<crontab, doing, calls>>
    BY <1>2 DEF Tick
  <2> QED
    BY <1>0, <1>1, <2>1 DEF PlanTypeInv
<1>3. CASE DeployPlanning
  <2>1. calls' = calls + 1 /\ calls < MaxCalls /\ UNCHANGED <<now, doing>>
        /\ \A h \in Workers : crontab'[h] \subseteq crontab[h] \cup EntriesOf(h)
    BY <1>3, PutIs DEF DeployPlanning
  <2>2. \A h \in Workers : EntriesOf(h) \subseteq Entry
    BY <1>0, EntriesAre, EventsAre, PlannedIsEntry
  <2>3. \A h \in Workers : crontab'[h] \subseteq Entry
    BY <1>1, <2>1, <2>2
  <2> QED
    BY <1>0, <1>1, <2>1, <2>3 DEF PlanTypeInv
<1>4. CASE RemoveEntries
  <2>1. calls' = calls + 1 /\ calls < MaxCalls /\ UNCHANGED now /\ doing' = "status"
        /\ \A h \in Workers : crontab'[h] \subseteq crontab[h]
    BY <1>4 DEF RemoveEntries
  <2> QED
    BY <1>0, <1>1, <2>1 DEF PlanTypeInv
<1>5. ASSUME NEW wait \in BOOLEAN, Status(wait) PROVE PlanTypeInv'
  <2>1. UNCHANGED <<now, crontab, calls>> /\ doing' \in {"nothing", "kill", "kill_async"}
    BY <1>5 DEF Status
  <2> QED
    BY <1>0, <1>1, <2>1 DEF PlanTypeInv
<1>6. CASE KillRegistry
  <2>1. UNCHANGED <<now, crontab, calls>> /\ doing' = "nothing"
    BY <1>6 DEF KillRegistry
  <2> QED
    BY <1>0, <1>1, <2>1 DEF PlanTypeInv
<1>7. CASE KillAsync
  <2>1. UNCHANGED <<now, calls>> /\ doing' = "nothing"
        /\ \A h \in Workers : crontab'[h] = crontab[h] \cup
              {KillEntry(g, now + 2, "registry") : g \in {g \in Groups : <<h, g>> \in Recorded(registry)}}
    BY <1>7 DEF KillAsync
  <2>2. \A g \in Groups : KillEntry(g, now + 2, "registry") \in Entry
    BY <1>1, KillIsEntry
  <2>3. ASSUME NEW h \in Workers, NEW c \in crontab'[h] PROVE c \in Entry
    <3>1. c \in crontab[h] \/ \E g \in Groups : c = KillEntry(g, now + 2, "registry")
      BY <2>1
    <3> QED
      BY <1>1, <2>2, <3>1
  <2>4. UNCHANGED <<now, calls>> /\ doing' = "nothing"
    BY <2>1
  <2> QED
    BY <1>0, <1>1, <2>3, <2>4 DEF PlanTypeInv
<1>8. ASSUME NEW n \in 1..2, NEW interval \in 0..1, KillAsyncIncr(n, interval) PROVE PlanTypeInv'
  <2>1. /\ calls' = calls + 1 /\ calls < MaxCalls /\ UNCHANGED <<now, doing>>
        /\ \E order \in AtRandom(n) : crontab' = [h \in Workers |->
              Put(crontab[h], {KillAt(order[k], now + 2 + (k - 1) * interval) :
                                  k \in {k \in DOMAIN order : order[k].host = h}})]
    BY <1>8 DEF KillAsyncIncr
  <2>2. PICK order \in AtRandom(n) : crontab' = [h \in Workers |->
              Put(crontab[h], {KillAt(order[k], now + 2 + (k - 1) * interval) :
                                  k \in {k \in DOMAIN order : order[k].host = h}})]
    BY <2>1
  <2>3. \A k \in DOMAIN order : k \in 1..2 /\ order[k] \in AliveProcesses
    BY <1>0, RegistryFinite DEF AtRandom
  <2>4. \A k \in DOMAIN order : KillAt(order[k], now + 2 + (k - 1) * interval) \in Entry
    <3> TAKE k \in DOMAIN order
    <3>1. k \in {1, 2} /\ interval \in {0, 1} /\ order[k].group \in Groups
      BY <1>0, <2>3 DEF AliveProcesses, RegTypeOK
    <3>2. now + 2 + (k - 1) * interval \in 1..(MaxTime + 3)
      <4>1. (k - 1) * interval \in {0, 1}
        BY <3>1
      <4> QED
        BY <1>1, <4>1
    <3> HIDE DEF KillAt
    <3> QED
      BY <3>1, <3>2, KillIsEntry DEF KillAt
  <2>5. \A h \in Workers : crontab'[h] \subseteq Entry
    <3> TAKE h \in Workers
    <3>1. crontab'[h] \subseteq crontab[h] \cup
             {KillAt(order[k], now + 2 + (k - 1) * interval) : k \in {k \in DOMAIN order : order[k].host = h}}
      BY <2>2, PutIs
    <3> QED
      BY <1>1, <2>4, <3>1
  <2>6. calls' = calls + 1 /\ calls < MaxCalls /\ UNCHANGED <<now, doing>>
    BY <2>1
  <2> QED
    BY <1>0, <1>1, <2>5, <2>6 DEF PlanTypeInv
<1>9. CASE \/ \E job \in sleeping : Wake(job)
           \/ \E h \in Workers, g \in Groups : ProcessEnds(h, g) /\ UNCHANGED planVars
           \/ RegNext /\ UNCHANGED planVars
           \/ UNCHANGED allVars
  <2>1. UNCHANGED <<now, crontab, doing, calls>>
    BY <1>9 DEF Wake, planVars, allVars
  <2> QED
    BY <1>0, <1>1, <2>1 DEF PlanTypeInv
<1> QED
  BY <1>2, <1>3, <1>4, <1>5, <1>6, <1>7, <1>8, <1>9 DEF RegistryOrPlanning, PlanNext

\* What is recorded of processes and of a planning has its type (ProcessRegistry, PlanningService).
LEMMA PlanTypesHold == Spec => []PlanTypeOK
<1>1. PlanTypeInv => PlanTypeOK
  BY PlanTypes
<1> QED
  BY <1>1, PlanTypesInitOK, PlanTypesStepOK, RegistryRun, PTL

-----------------------------------------------------------------------------
(* The types of services *)

\* A machine has one session of a key.
Keyed(h) == \A s, u \in h.tmux : s.key = u.key => s = u
\* A call that will count as a use.
Deploying(a) == a \in {<<"destroy", "deploy">>, <<"deploy">>}
\* The classes, the instances and how often they are used.
ServTyped ==
    /\ default \in [Classes -> Instances \cup {"nobody"}]
    /\ phase \in [Instances -> Phases]
    /\ uses \in [Instances -> 0..MaxUses]
    /\ \A i \in Instances : Deploying(agenda[i]) => uses[i] < MaxUses
\* Every file was written in a use of an instance.
Dated(f) == f.by \in Instances /\ f.run \in 0..uses[f.by]
FilesDated == \A m \in Machines : Keyed(host[m]) /\ \A f \in host[m].files \cup saved[m] : Dated(f)
\* With the invariant of what services leave.
ServTypeInv == DataIInv /\ ServTyped /\ FilesDated

\* The invariant says what the types say.
LEMMA ServTypes == ServTypeInv => ServTypeOK
  BY DEF ServTypeInv, DataIInv, ServIInv, ShapeOK, ServTyped, FilesDated, Keyed, Dated, Phases, ServTypeOK

\* No service was used.
LEMMA ServTypesInitOK == ServInit => ServTypeInv
<1> SUFFICES ASSUME ServInit PROVE ServTypeInv
  OBVIOUS
<1>1. ServTyped
  BY ServicesAssumption DEF ServInit, ServTyped, Phases, Deploying
<1>2. ASSUME NEW m \in Machines PROVE Keyed(host[m]) /\ host[m].files = {} /\ saved[m] = {}
  <2>1. host[m] = [tmux |-> {}, files |-> {}, up |-> {}, procs |-> {}, conf |-> {}] /\ saved[m] = {}
    BY DEF ServInit
  <2> QED
    BY <2>1 DEF Keyed
<1> QED
  BY <1>1, <1>2, DataInitOK DEF ServTypeInv, FilesDated

\* The tasks that write.
Writes(t) == t.op \in {"start", "run", "up"}

\* A task writes its file, or adds a session of a new key.
LEMMA DoWrites ==
  ASSUME NEW h, DOMAIN h = HostFields, NEW t
  PROVE  /\ \A f \in Do(h, t).files : f \in h.files \/ (Writes(t) /\ f = OfFile(t))
         /\ Keyed(h) => Keyed(Do(h, t))
<1>1. CASE t.op = "start"
  <2>1. Do(h, t) = BgStart(h, t.key, OfFile(t))
    BY <1>1 DEF Do
  <2>2. CASE Grep(h, t.key) # {}
    BY <2>1, <2>2 DEF BgStart
  <2>3. CASE Grep(h, t.key) = {}
    <3>1. /\ Do(h, t).tmux = h.tmux \cup {[key |-> t.key, by |-> OfFile(t).by]}
          /\ \A f \in Do(h, t).files : f \in h.files \/ f = OfFile(t)
      BY <2>1, <2>3 DEF BgStart, HostFields
    <3>2. \A s \in h.tmux : s.key # t.key
      BY <2>3 DEF Grep
    <3>3. Keyed(h) => Keyed(Do(h, t))
      BY <3>1, <3>2 DEF Keyed
    <3> QED
      BY <1>1, <3>1, <3>3 DEF Writes
  <2> QED
    BY <2>2, <2>3
<1>2. CASE t.op = "stop"
  <2>1. Do(h, t) = BgStop(h, t.key)
    BY <1>2 DEF Do
  <2>2. Do(h, t).tmux \subseteq h.tmux /\ Do(h, t).files = h.files
    BY <2>1 DEF BgStop, HostFields
  <2> QED
    BY <2>2 DEF Keyed
<1>3. CASE t.op = "run"
  BY <1>3 DEF Do, HostFields, Writes, Keyed
<1>4. CASE t.op = "pkill"
  BY <1>4 DEF Do, HostFields, Keyed
<1>5. CASE t.op = "up"
  BY <1>5 DEF Do, HostFields, Writes, Keyed
<1>6. CASE t.op = "down"
  BY <1>6 DEF Do, HostFields, Keyed
<1>7. CASE t.op = "wipe"
  BY <1>7 DEF Do, HostFields, Keyed
<1>8. CASE t.op = "install"
  BY <1>8 DEF Do, HostFields, Keyed
<1>9. CASE t.op \notin {"start", "stop", "run", "pkill", "up", "down", "wipe", "install"}
  BY <1>9 DEF Do
<1> QED
  BY <1>1, <1>2, <1>3, <1>4, <1>5, <1>6, <1>7, <1>8, <1>9

\* So do a list of tasks.
LEMMA DidWrites ==
  ASSUME NEW h, DOMAIN h = HostFields, NEW tasks, NEW n \in 0..3
  PROVE  /\ \A f \in Did(h, tasks, n).files :
               f \in h.files \/ \E k \in 1..n : Writes(tasks[k]) /\ f = OfFile(tasks[k])
         /\ Keyed(h) => Keyed(Did(h, tasks, n))
<1> DEFINE a == Do(h, tasks[1])
           b == Do(a, tasks[2])
           c == Do(b, tasks[3])
           Wrote(x, y, t) == /\ \A f \in y.files : f \in x.files \/ (Writes(t) /\ f = OfFile(t))
                             /\ Keyed(x) => Keyed(y)
<1>0. \A g, t : DOMAIN g = HostFields => DOMAIN Do(g, t) = HostFields
  BY DoIs
<1>1. Wrote(h, a, tasks[1]) /\ DOMAIN a = HostFields
  BY <1>0, DoWrites
<1>2. Wrote(a, b, tasks[2]) /\ DOMAIN b = HostFields
  <2> HIDE DEF a
  <2> QED
    BY <1>0, <1>1, DoWrites
<1>3. Wrote(b, c, tasks[3])
  <2> HIDE DEF b
  <2> QED
    BY <1>0, <1>2, DoWrites
<1>4. Did(h, tasks, 0) = h /\ Did(h, tasks, 1) = a /\ Did(h, tasks, 2) = b /\ Did(h, tasks, 3) = c
  BY DidIs
<1> HIDE DEF a, b, c
<1>5. CASE n = 0
  BY <1>4, <1>5
<1>6. CASE n = 1
  <2>1. 1 \in 1..n
    BY <1>6
  <2> QED
    BY <1>1, <1>4, <1>6, <2>1
<1>7. CASE n = 2
  <2>1. {1, 2} \subseteq 1..n
    BY <1>7
  <2> QED
    BY <1>1, <1>2, <1>4, <1>7, <2>1
<1>8. CASE n = 3
  <2>1. {1, 2, 3} \subseteq 1..n
    BY <1>8
  <2> QED
    BY <1>1, <1>2, <1>3, <1>4, <1>8, <2>1
<1> QED
  BY <1>5, <1>6, <1>7, <1>8

\* Only a deploy writes, and for its instance.
LEMMA OwnWrites ==
  ASSUME inst \in Scenarios, NEW i \in Instances, NEW m \in Machines, tcpdumpIfs[m] \in Seq(Interfaces),
         NEW what \in CallNames, NEW k \in 1..Len(Tasks(i, what, m)), Writes(Tasks(i, what, m)[k])
  PROVE  what = "deploy" /\ Tasks(i, what, m)[k].i = i
<1> DEFINE tasks == Tasks(i, what, m)
<1>0. Class(i) \in Classes
  BY MakesAre DEF Class
<1>1. CASE Class(i) = "locust"
  <2>1. tasks = LocustTasks(i, what)
    BY <1>1 DEF Tasks
  <2>2. CASE what = "deploy"
    <3>1. tasks = <<[op |-> "run", path |-> OutputOf(i), i |-> i]>>
      BY <2>1, <2>2 DEF LocustTasks
    <3>2. k = 1
      BY <3>1
    <3> QED
      BY <2>2, <3>1, <3>2
  <2>3. CASE what # "deploy"
    <3>1. tasks = <<[op |-> "pkill"]>> \/ tasks = <<[op |-> "fetch", path |-> OutputOf(i)]>>
      BY <2>1, <2>3 DEF LocustTasks
    <3>2. tasks[k].op \in {"pkill", "fetch"}
      BY <3>1
    <3> QED
      BY <3>2 DEF Writes
  <2> QED
    BY <2>2, <2>3
<1>2. CASE Class(i) # "locust"
  <2>1. TasksOK(i, what, m, tasks)
    BY TasksAre
  <2>2. tasks[k].op # "run"
    <3>1. CASE Class(i) \in {"dstat", "dask"}
      BY <3>1 DEF Tasks, DstatTasks, DaskTasks, StartTask, Halt
    <3>2. CASE Class(i) = "tcpdump"
      <4> DEFINE keys == Sessions(i, m)
      <4>1. tasks = TcpdumpTasks(i, what, m)
        BY <3>2 DEF Tasks
      <4>2. keys \in Seq(Interfaces) /\ DOMAIN keys = 1..Len(keys)
        BY SessionsAre
      <4>3. CASE what = "deploy"
        <5>1. tasks = [j \in DOMAIN keys |-> StartTask(keys[j], <<"tcpdump", keys[j]>>, i)]
          BY <4>1, <4>3 DEF TcpdumpTasks, ForEach
        <5> HIDE DEF keys
        <5> QED
          BY <4>2, <5>1 DEF StartTask
      <4>4. CASE what = "destroy"
        <5>1. tasks = [j \in DOMAIN keys |-> Halt(keys[j])]
          BY <4>1, <4>4 DEF TcpdumpTasks, ForEach
        <5> HIDE DEF keys
        <5> QED
          BY <4>2, <5>1 DEF Halt
      <4>5. CASE what = "backup"
        BY <4>1, <4>5 DEF TcpdumpTasks
      <4> QED
        BY <4>3, <4>4, <4>5 DEF CallNames
    <3>3. CASE Class(i) \in {"tig", "tpg"}
      <4>1. /\ Len(Up(Class(i), i)) = 2
            /\ Up(Class(i), i)[1] = [op |-> "install", class |-> Class(i)]
            /\ Up(Class(i), i)[2] = [op |-> "up", class |-> Class(i), path |-> <<Class(i)>>, i |-> i]
        BY UpIs
      <4>2. CASE what = "deploy"
        <5>1. tasks = Up(Class(i), i)
          BY <3>3, <4>2 DEF Tasks, TigTasks, TpgTasks
        <5>2. k \in 1..Len(tasks) /\ Len(tasks) = 2
          BY <4>1, <5>1
        <5> HIDE DEF tasks
        <5>3. k = 1 \/ k = 2
          BY <5>2
        <5>4. tasks[k].op \in {"install", "up"}
          BY <4>1, <5>1, <5>3
        <5> QED
          BY <5>4 DEF tasks
      <4>3. CASE what # "deploy"
        <5>1. tasks = TigTasks(i, what) \/ tasks = TpgTasks(i, what)
          BY <3>3 DEF Tasks
        <5> QED
          BY <4>3, <5>1 DEF TigTasks, TpgTasks
      <4> QED
        BY <4>2, <4>3
    <3>4. CASE Class(i) \in {"docker", "k3s", "skydive"}
      BY <3>4 DEF Tasks, InstallTasks
    <3> QED
      BY <1>0, <1>2, <3>1, <3>2, <3>3, <3>4 DEF Classes
  <2>3. tasks[k].op \in {"start", "up"}
    BY <2>2 DEF Writes
  <2> HIDE DEF tasks
  <2> QED
    BY <2>1, <2>3 DEF TasksOK, tasks
<1> QED
  BY <1>1, <1>2

\* A class keeps the last instance made of it as its default.
LEMMA DefaultsStep ==
  ASSUME ServTypeInv, [ServNext]_servVars PROVE default' \in [Classes -> Instances \cup {"nobody"}]
<1>1. default \in [Classes -> Instances \cup {"nobody"}]
  BY DEF ServTypeInv, ServTyped
<1>2. ASSUME NEW i \in Instances, Make(i) PROVE default' \in [Classes -> Instances \cup {"nobody"}]
  <2>1. default' = default \/ default' = [default EXCEPT ![Class(i)] = i]
    BY <1>2 DEF Make, Defaults
  <2> QED
    BY <1>1, <2>1
<1>3. default' = default \/ \E i \in Instances : Make(i)
  BY DEF ServNext, servVars, With, Leave, Call, Begin, Running, BenchEnds, Abandon
<1> QED
  BY <1>1, <1>2, <1>3

\* A deploy is the last of what is begun.
LEMMA DeploysLast ==
  ASSUME NEW a \in Agendas, a # <<>>
  PROVE  /\ a[1] = "deploy" => a = <<"deploy">> /\ Tail(a) = <<>>
         /\ Deploying(Tail(a)) => Deploying(a)
<1>1. CASE a = <<"deploy">> \/ a = <<"destroy">> \/ a = <<"backup">>
  <2>1. Len(a) = 1
    BY <1>1
  <2>3. Tail(a) = <<>> /\ a = <<a[1]>>
    BY <2>1, TailsAre
  <2>2. ~Deploying(<<>>)
    BY DEF Deploying
  <2> QED
    BY <2>2, <2>3
<1>2. CASE a = <<"destroy", "deploy">>
  BY <1>2 DEF Deploying
<1>3. CASE a = <<"destroy", "backup">>
  <2>1. Tail(a) = <<"backup">> /\ a[1] = "destroy"
    BY <1>3
  <2> QED
    BY <2>1 DEF Deploying
<1>4. CASE a = <<"backup", "destroy">>
  <2>1. Tail(a) = <<"destroy">> /\ a[1] = "backup"
    BY <1>4
  <2> QED
    BY <2>1 DEF Deploying
<1> QED
  BY <1>1, <1>2, <1>3, <1>4 DEF Agendas

\* Phases, uses and what is begun.
LEMMA UsesStep == ASSUME ServTypeInv, [ServNext]_servVars PROVE ServTyped'
<1>0. ServIInv /\ ShapeOK /\ ServTyped /\ MaxUses \in Nat
  BY ServicesAssumption DEF ServTypeInv, DataIInv
<1>1. /\ phase \in [Instances -> Phases] /\ uses \in [Instances -> 0..MaxUses]
      /\ agenda \in [Instances -> Agendas]
      /\ \A i \in Instances : Deploying(agenda[i]) => uses[i] < MaxUses
  BY <1>0 DEF ServTyped, ServIInv, AgendaOK
<1>2. ASSUME phase' \in [Instances -> Phases], uses' \in [Instances -> 0..MaxUses],
             \A i \in Instances : Deploying(agenda'[i]) => uses'[i] < MaxUses
      PROVE  ServTyped'
  BY <1>2, DefaultsStep DEF ServTyped
<1>3. ASSUME NEW i \in Instances, NEW next, NEW where \in Phases, Begin(i, next, where),
             Deploying(next) => uses[i] < MaxUses
      PROVE  ServTyped'
  <2>1. /\ agenda' = [agenda EXCEPT ![i] = next] /\ phase' = [phase EXCEPT ![i] = where] /\ UNCHANGED uses
    BY <1>3 DEF Begin
  <2>2. \A j \in Instances : agenda'[j] = IF j = i THEN next ELSE agenda[j]
    BY <1>1, <2>1
  <2>3. phase' \in [Instances -> Phases]
    BY <1>1, <2>1
  <2>4. \A j \in Instances : Deploying(agenda'[j]) => uses'[j] < MaxUses
    BY <1>1, <1>3, <2>1, <2>2
  <2> QED
    BY <1>1, <1>2, <2>1, <2>3, <2>4
<1>4. ASSUME NEW i \in Instances, With(i) \/ Leave(i) \/ \E what \in CallNames : Call(i, what) PROVE ServTyped'
  <2>1. {"entering", "leaving", "idle"} \subseteq Phases
    BY DEF Phases
  <2>2. ~Deploying(ExitCalls(Class(i)))
    BY DEF Deploying, ExitCalls
  <2>3. CASE With(i)
    BY <1>3, <2>1, <2>3 DEF With
  <2>4. CASE Leave(i)
    BY <1>3, <2>1, <2>2, <2>4 DEF Leave
  <2>5. ASSUME NEW what \in CallNames, Call(i, what) PROVE ServTyped'
    BY <1>3, <2>1, <2>5 DEF Call
  <2> QED
    BY <1>4, <2>3, <2>4, <2>5
<1>5. ASSUME NEW i \in Instances, Running(i) PROVE ServTyped'
  <2>1. PICK done, ok : Ran(i, agenda[i][1], done, ok)
    BY <1>0, <1>5, RanIs
  <2>2. /\ agenda[i] # <<>> /\ DOMAIN uses' = Instances
        /\ agenda'[i] = IF ok THEN Tail(agenda[i]) ELSE <<>>
        /\ \A j \in Instances \ {i} : agenda'[j] = agenda[j] /\ phase'[j] = phase[j] /\ uses'[j] = uses[j]
        /\ agenda[i][1] = "deploy" => uses'[i] = uses[i] + 1
        /\ agenda[i][1] # "deploy" => uses'[i] = uses[i]
    BY <2>1 DEF Ran
  <2>3. /\ agenda[i][1] = "deploy" => agenda[i] = <<"deploy">> /\ Tail(agenda[i]) = <<>>
        /\ agenda[i][1] # "deploy" /\ Deploying(Tail(agenda[i])) => Deploying(agenda[i])
    <3>1. agenda[i] \in Agendas
      BY <1>1
    <3> QED
      BY <2>2, <3>1, DeploysLast
  <2>4. ~Deploying(<<>>) /\ Deploying(<<"deploy">>)
    BY DEF Deploying
  <2>5. \A j \in Instances : Deploying(agenda'[j]) => uses'[j] < MaxUses
    BY <1>1, <2>2, <2>3, <2>4, ZenonT(40)
  <2>6. \A j \in Instances : uses'[j] \in 0..MaxUses
    <3>1. agenda[i][1] = "deploy" => uses[i] < MaxUses
      BY <1>1, <2>3, <2>4
    <3>2. uses[i] \in 0..MaxUses
      BY <1>1
    <3>3. uses'[i] \in 0..MaxUses
      BY <1>0, <2>2, <3>1, <3>2
    <3> QED
      BY <1>1, <2>2, <3>3
  <2>7. uses' \in [Instances -> 0..MaxUses]
    <3>1. uses' = [uses EXCEPT ![i] = @ + 1] \/ uses' = uses
      BY <1>5 DEF Running
    <3>2. uses' = [j \in Instances |-> uses'[j]]
      BY <1>1, <3>1
    <3> QED
      BY <2>6, <3>2
  <2>8. phase' \in [Instances -> Phases]
    <3>1. \A p \in Phases : After(p) \in Phases
      BY DEF After, Phases
    <3>2. \E p \in {"stuck", "raised", After(phase[i]), phase[i]} : phase' = [phase EXCEPT ![i] = p]
      BY <1>5 DEF Running
    <3>3. {"stuck", "raised", After(phase[i]), phase[i]} \subseteq Phases
      BY <1>1, <3>1 DEF Phases
    <3> QED
      BY <1>1, <3>2, <3>3
  <2> QED
    BY <1>2, <2>5, <2>7, <2>8
<1>6. CASE Abandon
  <2>1. /\ UNCHANGED uses /\ \A i \in Instances : agenda'[i] = <<>>
        /\ phase' = [i \in Instances |-> IF Active(i) THEN "raised" ELSE phase[i]]
    BY <1>6 DEF Abandon
  <2>2. "raised" \in Phases
    BY DEF Phases
  <2>3. phase' \in [Instances -> Phases]
    BY <1>1, <2>1, <2>2
  <2>4. ~Deploying(<<>>)
    BY DEF Deploying
  <2> QED
    BY <1>1, <1>2, <2>1, <2>3, <2>4
<1>7. ASSUME UNCHANGED <<agenda, phase, uses>> PROVE ServTyped'
  BY <1>1, <1>2, <1>7
<1> QED
  BY <1>4, <1>5, <1>6, <1>7 DEF ServNext, CallNames, Make, BenchEnds, servVars

\* The files of machines, and what is saved of them.
LEMMA FilesStep == ASSUME ServTypeInv, [ServNext]_servVars PROVE FilesDated'
<1>0. ServIInv /\ ShapeOK /\ ServTyped /\ FilesDated
  BY DEF ServTypeInv, DataIInv
<1>1. CASE UNCHANGED <<host, saved, uses>>
  BY <1>0, <1>1 DEF FilesDated, Keyed, Dated
<1>2. ASSUME NEW i \in Instances, Running(i) PROVE FilesDated'
  <2>1. PICK done, ok : Ran(i, agenda[i][1], done, ok)
    BY <1>0, <1>2, RanIs
  <2> DEFINE what == agenda[i][1]
             hosts == inst[i].hosts
  <2>2. what \in CallNames /\ inst \in Scenarios /\ UNCHANGED inst
        /\ \A m \in Machines : tcpdumpIfs[m] \in Seq(Interfaces)
    BY <1>0, <2>1 DEF Ran, ServIInv, IfsOK
  <2>3. uses[i] \in Nat /\ (what = "deploy" => uses'[i] = uses[i] + 1)
        /\ \A j \in Instances : uses[j] \in Nat /\ uses'[j] \in Nat /\ uses[j] <= uses'[j]
    <3>1. \A j \in Instances : uses[j] \in Nat
      BY <1>0 DEF ServTyped
    <3>2. /\ what = "deploy" => uses'[i] = uses[i] + 1
          /\ what # "deploy" => uses'[i] = uses[i]
          /\ \A j \in Instances \ {i} : uses'[j] = uses[j]
      BY <2>1 DEF Ran
    <3> QED
      BY <3>1, <3>2
  <2>4. ASSUME NEW f, Dated(f) PROVE Dated(f)'
    BY <2>3, <2>4 DEF Dated
  <2>5. ASSUME NEW m \in hosts
        PROVE  /\ Keyed(host'[m])
               /\ \A f \in host'[m].files : Dated(f)'
               /\ \A f \in saved'[m] : Dated(f)'
    <3> DEFINE tasks == Tasks(i, what, m)
               n == done[m]
    <3>1. /\ m \in Machines /\ DOMAIN host[m] = HostFields /\ n \in 0..3 /\ n \in 0..Len(tasks)
          /\ host'[m] = Did(host[m], tasks, n)
          /\ saved'[m] = IF n = 1 THEN Fetched(m, tasks[1]) ELSE saved[m]
      BY <2>1 DEF Ran
    <3>2. /\ Keyed(host[m]) /\ \A f \in host[m].files \cup saved[m] : Dated(f)
      BY <1>0, <3>1 DEF FilesDated
    <3>3. \A k \in 1..Len(tasks) : Writes(tasks[k]) => what = "deploy" /\ tasks[k].i = i
      BY <2>2, <3>1, OwnWrites
    <3>4. Len(tasks) \in Nat
      <4>1. TasksOK(i, what, m, tasks)
        BY <2>2, <3>1, TasksAre
      <4> QED
        BY <4>1 DEF TasksOK
    <3>5. Fetched(m, tasks[1]) \subseteq saved[m] \cup host[m].files
      BY DEF Fetched
    <3> HIDE DEF tasks, n, what
    <3>6. /\ Keyed(Did(host[m], tasks, n))
          /\ \A f \in Did(host[m], tasks, n).files :
                 f \in host[m].files \/ \E k \in 1..n : Writes(tasks[k]) /\ f = OfFile(tasks[k])
      BY <3>1, <3>2, DidWrites
    <3>7. ASSUME NEW f \in host'[m].files PROVE Dated(f)'
      <4>1. CASE f \in host[m].files
        BY <2>4, <3>2, <4>1
      <4>2. CASE f \notin host[m].files
        <5>1. PICK k \in 1..n : Writes(tasks[k]) /\ f = OfFile(tasks[k])
          BY <3>1, <3>6, <4>2
        <5>2. k \in 1..Len(tasks)
          BY <3>1, <3>4
        <5>3. what = "deploy" /\ tasks[k].i = i
          BY <3>3, <5>1, <5>2
        <5>4. f.by = i /\ f.run = uses[i] + 1
          BY <5>1, <5>3 DEF OfFile
        <5> QED
          BY <2>3, <5>3, <5>4 DEF Dated
      <4> QED
        BY <4>1, <4>2
    <3>8. ASSUME NEW f \in saved'[m] PROVE Dated(f)'
      BY <2>4, <3>1, <3>2, <3>5
    <3> QED
      BY <3>1, <3>6, <3>7, <3>8
  <2>6. ASSUME NEW m \in Machines \ hosts
        PROVE  /\ Keyed(host'[m])
               /\ \A f \in host'[m].files \cup saved'[m] : Dated(f)'
    <3>1. host'[m] = host[m] /\ saved'[m] = saved[m]
      BY <2>1 DEF Ran
    <3> QED
      BY <1>0, <2>4, <3>1 DEF FilesDated
  <2> QED
    BY <2>5, <2>6 DEF FilesDated, Keyed
<1>3. ASSUME NEW m \in Machines, BenchEnds(m) PROVE FilesDated'
  <2>1. host' = [host EXCEPT ![m].procs = {}] /\ UNCHANGED <<saved, uses>>
    BY <1>3 DEF BenchEnds
  <2>2. DOMAIN host = Machines /\ \A k \in Machines : DOMAIN host[k] = HostFields
    BY <1>0 DEF ServIInv, HostsOK
  <2>3. \A k \in Machines : host'[k].tmux = host[k].tmux /\ host'[k].files = host[k].files
    BY <2>1, <2>2 DEF HostFields
  <2> QED
    BY <1>0, <2>1, <2>3 DEF FilesDated, Keyed, Dated
<1> QED
  BY <1>1, <1>2, <1>3 DEF ServNext, Make, With, Leave, Call, Begin, Abandon, servVars

\* Uses are counted when a deploy begins, files when it runs.
LEMMA ServTypesStepOK == ServTypeInv /\ [ServNext]_servVars => ServTypeInv'
  BY DataStepOK, UsesStep, FilesStep DEF ServTypeInv

\* What services write is theirs, one session at most has a name (bg_start, Service).
LEMMA ServTypesHold == Spec => []ServTypeOK
<1>1. Init => ServInit
  BY DEF Init
<1>2. [Next]_vars => [ServNext]_servVars
  BY DEF Next, vars, machineVars
<1>3. ServTypeInv => ServTypeOK
  BY ServTypes
<1> QED
  BY <1>1, <1>2, <1>3, ServTypesInitOK, ServTypesStepOK, PTL DEF Spec

-----------------------------------------------------------------------------
(* The types of the network emulation *)

\* The constraints of one source, whichever object it is of: of the kind of the
\* service, and one of each device and direction, or address.
OfItsKind(cs) ==
    /\ cs \subseteq ConstraintSet
    /\ \A c \in cs : IF service = "netem" THEN c.to \in {Out, In} ELSE c.to \in Addresses
    /\ \A c, d \in cs : c.dev = d.dev /\ c.to = d.to => c = d
\* The same of all the sources.
OfTheirKind(from) == \A o \in DOMAIN from : OfItsKind(from[o])

\* Rules have delays.
DelaysTyped == \A h \in Nodes : \A dev \in AllDevices : \A r \in tc[h][dev].rules : r.delay \in Nat

\* What the types add to the invariant of the emulation.
EmulTyped ==
    /\ OfTheirKind(sources) /\ DelaysTyped
    /\ redirect \in [Nodes -> [Devices -> Ifbs \cup {NoIfb}]]
    /\ deploys \in 0..MaxDeploys /\ syncs \in 0..MaxSyncs /\ Len(asked) <= MaxRequests

\* Directions are no addresses, and the types follow.
LEMMA EmulTypes == EmulIInv /\ EmulTyped => EmulTypeOK
<1> SUFFICES ASSUME EmulIInv, EmulTyped PROVE EmulTypeOK
  OBVIOUS
<1>1. service \in Services /\ facts \in [Nodes -> FactsOf]
  BY DEF EmulIInv, Typed
<1>2. ASSUME NEW o \in DOMAIN sources, NEW c \in sources[o]
      PROVE  /\ c.dev \in Devices /\ c.to \in Addresses \cup {Out, In} /\ c.delay \in Nat
             /\ (service = "netem") = (c.to \in {Out, In})
  <2>1. OfItsKind(sources[o])
    BY DEF EmulTyped, OfTheirKind
  <2>2. c \in ConstraintSet
    BY <2>1 DEF OfItsKind
  <2>3. c.dev \in Devices /\ c.to \in Addresses \cup {Out, In} /\ c.delay \in Nat
    BY <2>2 DEF ConstraintSet, Targets
  <2>4. IF service = "netem" THEN c.to \in {Out, In} ELSE c.to \in Addresses
    BY <2>1 DEF OfItsKind
  <2>5. (service = "netem") <=> (c.to \in {Out, In})
    BY <2>4, MarksAssumption
  <2> QED
    BY <2>3, <2>5
<1> QED
  BY <1>1, <1>2 DEF EmulTypeOK, EmulTyped, DelaysTyped

\* What is merged is of the kind of what was.
LEMMA MergedKind ==
  ASSUME NEW old, NEW new, OfItsKind(old), OfItsKind(new)
  PROVE  OfItsKind(Merged(old, new))
<1>1. \A c \in Merged(old, new) : c \in new \/ (c \in old /\ \A n \in new : ~Same(c, n))
  BY DEF Merged
<1>2. Merged(old, new) \subseteq old \cup new
  BY DEF Merged
<1> QED
  BY <1>1, <1>2 DEF OfItsKind, Same

\* A request puts on a host constraints of the kind of the service.
LEMMA OnHostKind ==
  ASSUME Typed, NEW r \in RequestSet, NEW h \in r.src
  PROVE  OfItsKind(HalfOn(h, r))
<1>0. r.src \subseteq Nodes /\ r.dest \subseteq Nodes /\ h \in Nodes
  BY DEF RequestSet
<1>1. CASE service = "netem"
  <2>1. \A c \in HalfOn(h, r) : c \in ConstraintSet /\ Covers(r, h, c.dev, c.to) /\ c.delay = r.delay
    BY <1>1, NetemOn DEF OfRequest
  <2>2. \A c \in HalfOn(h, r) : c.to \in {Out, In}
    BY <1>1, <2>1 DEF Covers
  <2>3. \A c, d \in HalfOn(h, r) : c.dev = d.dev /\ c.to = d.to => c = d
    BY <2>1 DEF ConstraintSet
  <2> QED
    BY <1>1, <2>1, <2>2, <2>3 DEF OfItsKind
<1>2. CASE service # "netem"
  <2>1. \A c \in HalfOn(h, r) :
           /\ c \in ConstraintSet /\ c.delay = r.delay
           /\ \E g \in r.dest : c.to \in FilterAddresses(object[g], r.networks)
    BY <1>2, HtbOn
  <2>2. \A c \in HalfOn(h, r) : c.to \in Addresses
    BY <1>0, <2>1, Filtered
  <2>3. \A c, d \in HalfOn(h, r) : c.dev = d.dev /\ c.to = d.to => c = d
    BY <2>1 DEF ConstraintSet
  <2> QED
    BY <1>2, <2>1, <2>2, <2>3 DEF OfItsKind
<1> QED
  BY <1>1, <1>2

\* Whatever sources a request extends.
LEMMA HalfKind ==
  ASSUME Typed, NEW from, OfTheirKind(from), NEW r \in RequestSet
  PROVE  OfTheirKind(Half(from, r))
<1> DEFINE after == Half(from, r)
           was(o) == IF o \in DOMAIN from THEN from[o] ELSE {}
           new(o) == IF o \in ObjectsOf(r.src)
                     THEN OnHost(o, ObjectsOf(r.dest), r.delay, r.networks, r.symmetric) ELSE {}
<1>1. \A o \in DOMAIN after : after[o] = Merged(was(o), new(o))
  BY DEF Extended, Half
<1>2. OfItsKind({})
  BY DEF OfItsKind
<1>3. ASSUME NEW o PROVE OfItsKind(was(o))
  BY <1>2 DEF OfTheirKind
<1>4. ASSUME NEW o PROVE OfItsKind(new(o))
  <2>1. CASE o \in ObjectsOf(r.src)
    <3>1. PICK h \in r.src : o = object[h]
      BY <2>1 DEF ObjectsOf
    <3>2. new(o) = HalfOn(h, r)
      BY <2>1, <3>1 DEF HalfOn
    <3> QED
      BY <3>2, OnHostKind
  <2>2. CASE o \notin ObjectsOf(r.src)
    <3>1. new(o) = {}
      BY <2>2
    <3> QED
      BY <1>2, <3>1
  <2> QED
    BY <2>1, <2>2
<1> HIDE DEF after, was, new
<1>5. OfTheirKind(after)
  BY <1>1, <1>3, <1>4, MergedKind DEF OfTheirKind
<1> QED
  BY <1>5 DEF after

\* A request keeps the sources of their kind.
LEMMA AddedKind ==
  ASSUME Typed, NEW from, OfTheirKind(from), NEW r \in RequestSet
  PROVE  OfTheirKind(Added(from, r))
<1>1. Turned(r) \in RequestSet
  BY TurnedIs
<1>2. Added(from, r) = IF r.symmetric /\ service # "netem" THEN Half(Half(from, r), Turned(r)) ELSE Half(from, r)
  BY TurnedIs DEF Added, Half, Turned, ObjectsOf
<1>3. OfTheirKind(Half(from, r))
  BY HalfKind
<1>4. OfTheirKind(Half(Half(from, r), Turned(r)))
  BY <1>1, <1>3, HalfKind
<1> QED
  BY <1>2, <1>3, <1>4

\* The class of the service does not change, nor does the kind.
LEMMA SameKind ==
  ASSUME service' = service, OfTheirKind(sources')
  PROVE  OfTheirKind(sources)'
  BY DEF OfTheirKind, OfItsKind

\* There are enough ifbs for the places of the constraints of any source.
LEMMA KindFits ==
  ASSUME NEW cs, OfItsKind(cs), NEW place \in PlacesOf(cs), NEW c \in Ins(cs)
  PROVE  <<"ifb", place[c]>> \in Ifbs
<1> DEFINE T == Devices \X {Out, In}
           f == [d \in cs |-> <<d.dev, d.to>>]
<1>1. Out # In /\ IsFiniteSet({Out, In}) /\ Cardinality({Out, In}) = 2
  <2>1. Out # In
    BY DEF Out, In
  <2>2. IsFiniteSet({Out}) /\ Cardinality({Out}) = 1
    BY FS_Singleton
  <2>3. IsFiniteSet({Out} \cup {In}) /\ Cardinality({Out} \cup {In}) = 1 + 1
    BY <2>1, <2>2, FS_AddElement
  <2>4. {Out} \cup {In} = {Out, In}
    OBVIOUS
  <2> QED
    BY <2>1, <2>3, <2>4
<1>2. IsFiniteSet(Devices) /\ Cardinality(Devices) \in Nat
  BY EmulationAssumption, FS_CardinalityType
<1>3. IsFiniteSet(T) /\ Cardinality(T) = Cardinality(Devices) * 2
  BY <1>1, <1>2, FS_Product
<1>4. service = "netem"
  <2>1. c \in cs /\ c.to = In
    BY DEF Ins
  <2>2. In \notin Addresses
    BY MarksAssumption
  <2> QED
    BY <2>1, <2>2 DEF OfItsKind
<1>5. f \in Injection(cs, T)
  <2>1. \A d \in cs : d.dev \in Devices /\ d.to \in {Out, In}
    BY <1>4 DEF OfItsKind, ConstraintSet
  <2>2. f \in [cs -> T]
    BY <2>1
  <2>3. \A d, e \in cs : f[d] = f[e] => d = e
    BY DEF OfItsKind
  <2> QED
    BY <2>2, <2>3 DEF Injection, IsInjective
<1>6. IsFiniteSet(cs) /\ Cardinality(cs) <= Cardinality(T)
  <2> HIDE DEF f, T
  <2> QED BY <1>3, <1>5, FS_Injection
<1>7. Cardinality(cs) \in Nat
  BY <1>6, FS_CardinalityType
<1>8. place[c] \in 0..(Cardinality(cs) - 1)
  BY DEF PlacesOf
<1>9. place[c] \in 0..(2 * Cardinality(Devices) - 1)
  <2> HIDE DEF T
  <2> QED BY <1>2, <1>3, <1>6, <1>7, <1>8
<1> QED
  BY <1>9 DEF Ifbs

-----------------------------------------------------------------------------
\* Nothing is emulated.
LEMMA EmulTypedInit == EmulInit => EmulTyped
<1> SUFFICES ASSUME EmulInit PROVE EmulTyped
  OBVIOUS
<1>1. OfTheirKind(sources)
  BY DEF EmulInit, OfTheirKind
<1>2. DelaysTyped
  BY DEF EmulInit, DelaysTyped, NoRoot
<1>3. redirect \in [Nodes -> [Devices -> Ifbs \cup {NoIfb}]]
  BY DEF EmulInit
<1>4. deploys \in 0..MaxDeploys /\ syncs \in 0..MaxSyncs /\ Len(asked) <= MaxRequests
  BY EmulationAssumption DEF EmulInit
<1> QED
  BY <1>1, <1>2, <1>3, <1>4 DEF EmulTyped

\* A constraint has the delay of a request, or what the correction left of it,
\* and a rule that of a constraint.
LEMMA EnforceTypes ==
  ASSUME EmulIInv, EmulTyped, NEW h \in Nodes, Enforce(h)
  PROVE  EmulTyped'
<1>1. UNCHANGED <<service, sources, asked, deploys, syncs>>
  BY DEF Enforce
<1>2. DOMAIN tc = Nodes /\ redirect \in [Nodes -> [Devices -> Ifbs \cup {NoIfb}]]
  BY DEF EmulIInv, EmulTyped
<1>3. PICK o \in {o \in DOMAIN sources : o.alias = h} : \E place \in PlacesOf(sources[o]) :
         /\ tc' = [tc EXCEPT ![h] = [dev \in AllDevices |-> RootOf(h, sources[o], place, dev)]]
         /\ redirect' = [redirect EXCEPT ![h] = [dev \in Devices |->
                IF \E c \in Ins(sources[o]) : c.dev = dev
                THEN <<"ifb", place[CHOOSE c \in Ins(sources[o]) : c.dev = dev]>>
                ELSE redirect[h][dev]]]
  BY <1>2 DEF Enforce
<1>4. PICK place \in PlacesOf(sources[o]) :
         /\ tc' = [tc EXCEPT ![h] = [dev \in AllDevices |-> RootOf(h, sources[o], place, dev)]]
         /\ redirect' = [redirect EXCEPT ![h] = [dev \in Devices |->
                IF \E c \in Ins(sources[o]) : c.dev = dev
                THEN <<"ifb", place[CHOOSE c \in Ins(sources[o]) : c.dev = dev]>>
                ELSE redirect[h][dev]]]
  BY <1>3
<1> DEFINE cs == sources[o]
<1>5. OfItsKind(cs)
  BY DEF EmulTyped, OfTheirKind
<1>6. \A c \in cs : c.delay \in Nat
  BY <1>5 DEF OfItsKind, ConstraintSet
<1>7. \A c \in Ins(cs) : <<"ifb", place[c]>> \in Ifbs
  <2> HIDE DEF cs
  <2>1. place \in PlacesOf(cs)
    BY DEF cs
  <2> QED
    BY <1>5, <2>1, KindFits
<1>8. DelaysTyped'
  <2>1. ASSUME NEW dev \in AllDevices, NEW r \in RootOf(h, cs, place, dev).rules
        PROVE  r.delay \in Nat
    <3> DEFINE here == {c \in Ins(cs) : dev = <<"ifb", place[c]>>}
    <3> HIDE DEF cs
    <3>1. CASE \E c \in Ins(cs) : dev = <<"ifb", place[c]>>
      <4>1. r \in {[to |-> Out, delay |-> c.delay] : c \in here}
        BY <3>1 DEF RootOf, Root
      <4>2. PICK c \in here : r = [to |-> Out, delay |-> c.delay]
        BY <4>1
      <4> QED
        BY <1>6, <4>2 DEF Ins
    <3>2. CASE ~(\E c \in Ins(cs) : dev = <<"ifb", place[c]>>) /\ Rules(cs, dev) # {}
      <4>1. r \in Rules(cs, dev)
        BY <3>2 DEF RootOf, Root
      <4> QED
        BY <1>6, <4>1 DEF Rules
    <3>3. CASE ~(\E c \in Ins(cs) : dev = <<"ifb", place[c]>>) /\ Rules(cs, dev) = {}
      <4>1. RootOf(h, cs, place, dev) = tc[h][dev]
        BY <3>3 DEF RootOf
      <4> QED
        BY <4>1 DEF EmulTyped, DelaysTyped
    <3> QED
      BY <3>1, <3>2, <3>3
  <2>2. \A g \in Nodes \ {h} : tc'[g] = tc[g]
    BY <1>2, <1>4
  <2>3. \A dev \in AllDevices : tc'[h][dev] = RootOf(h, cs, place, dev)
    BY <1>2, <1>4
  <2> HIDE DEF cs
  <2>4. \A dev \in AllDevices : \A r \in tc'[h][dev].rules : r.delay \in Nat
    BY <2>1, <2>3
  <2>5. \A g \in Nodes \ {h} : \A dev \in AllDevices : \A r \in tc'[g][dev].rules : r.delay \in Nat
    BY <2>2 DEF EmulTyped, DelaysTyped
  <2> QED
    BY <2>4, <2>5 DEF DelaysTyped
<1>9. redirect' \in [Nodes -> [Devices -> Ifbs \cup {NoIfb}]]
  <2> DEFINE sent == [dev \in Devices |->
                IF \E c \in Ins(cs) : c.dev = dev
                THEN <<"ifb", place[CHOOSE c \in Ins(cs) : c.dev = dev]>>
                ELSE redirect[h][dev]]
  <2>1. ASSUME NEW dev \in Devices PROVE sent[dev] \in Ifbs \cup {NoIfb}
    <3> HIDE DEF cs
    <3>1. CASE \E c \in Ins(cs) : c.dev = dev
      <4> DEFINE c == CHOOSE c \in Ins(cs) : c.dev = dev
      <4>1. c \in Ins(cs)
        BY <3>1
      <4>2. sent[dev] = <<"ifb", place[c]>>
        BY <3>1
      <4> HIDE DEF c, sent
      <4> QED
        BY <1>7, <4>1, <4>2
    <3>2. CASE ~(\E c \in Ins(cs) : c.dev = dev)
      BY <1>2, <3>2
    <3> QED
      BY <3>1, <3>2
  <2>2. sent \in [Devices -> Ifbs \cup {NoIfb}]
    BY <2>1
  <2>3. redirect' = [redirect EXCEPT ![h] = sent]
    BY <1>4
  <2> HIDE DEF sent
  <2> QED
    BY <1>2, <2>2, <2>3
<1>10. OfTheirKind(sources)'
  BY <1>1, SameKind DEF EmulTyped
<1> QED
  BY <1>1, <1>8, <1>9, <1>10 DEF EmulTyped

\* A machine that is lost has the rules that it had, or none.
LEMMA LostTypes ==
  ASSUME EmulIInv, EmulTyped, NEW h \in Nodes, Lost(h)
  PROVE  EmulTyped'
<1>1. UNCHANGED <<service, sources, asked, redirect, deploys, syncs>>
  BY DEF Lost
<1>2. DOMAIN tc = Nodes
  BY DEF EmulIInv
<1>3. DelaysTyped'
  <2>1. CASE UNCHANGED tc
    BY <2>1 DEF EmulTyped, DelaysTyped
  <2>2. CASE ~(UNCHANGED tc)
    <3>1. PICK o \in {o \in DOMAIN sources : o.alias = h} :
             tc' = [tc EXCEPT ![h] = [dev \in AllDevices |-> BareRoot(h, sources[o], dev)]]
      BY <2>2 DEF Lost
    <3>2. \A dev \in AllDevices : BareRoot(h, sources[o], dev) = tc[h][dev]
                                  \/ BareRoot(h, sources[o], dev).rules = {}
      BY DEF BareRoot, NoRoot, Root
    <3>3. \A g \in Nodes \ {h} : tc'[g] = tc[g]
      BY <1>2, <3>1
    <3>4. \A dev \in AllDevices : tc'[h][dev] = BareRoot(h, sources[o], dev)
      BY <1>2, <3>1
    <3>5. \A dev \in AllDevices : tc'[h][dev] = tc[h][dev] \/ tc'[h][dev].rules = {}
      BY <3>2, <3>4
    <3> QED
      BY <3>3, <3>5 DEF EmulTyped, DelaysTyped
  <2> QED
    BY <2>1, <2>2
<1>4. OfTheirKind(sources)'
  BY <1>1, SameKind DEF EmulTyped
<1> QED
  BY <1>1, <1>3, <1>4 DEF EmulTyped

\* One that is reset has none.
LEMMA ResetTypes ==
  ASSUME EmulIInv, EmulTyped, NEW h \in Nodes, Reset(h)
  PROVE  EmulTyped'
<1>1. UNCHANGED <<service, sources, asked, redirect, deploys, syncs>>
  BY DEF Reset
<1>2. /\ \A g \in Nodes \ {h} : tc'[g] = tc[g]
      /\ \A dev \in AllDevices : tc'[h][dev] = NoRoot
  BY DEF Reset, ResetDevices, EmulIInv
<1>3. DelaysTyped'
  BY <1>2 DEF EmulTyped, DelaysTyped, NoRoot
<1>4. OfTheirKind(sources)'
  BY <1>1, SameKind DEF EmulTyped
<1> QED
  BY <1>1, <1>3, <1>4 DEF EmulTyped

\* The bounds of the calls that change constraints.
LEMMA RequestsTypes ==
  ASSUME EmulIInv, EmulTyped,
         \/ \E r \in Request(Len(asked) + 1) : AddConstraints(r)
         \/ \E r \in Request(2) : FromDict(r)
  PROVE  EmulTyped'
<1>0. Typed /\ asked \in Seq(RequestSet) /\ Len(asked) \in Nat /\ MaxRequests \in Nat
      /\ OfTheirKind(sources)
  BY EmulationAssumption DEF EmulIInv, Typed, EmulTyped
<1>1. ASSUME NEW r \in Request(Len(asked) + 1), AddConstraints(r)
      PROVE  OfTheirKind(sources') /\ Len(asked') <= MaxRequests
             /\ UNCHANGED <<service, tc, redirect, deploys, syncs>>
  <2>1. r \in RequestSet
    BY <1>0, RequestType
  <2>2. OfTheirKind(Added(sources, r))
    BY <1>0, <2>1, AddedKind
  <2>3. Len(Append(asked, r)) = Len(asked) + 1
    BY <1>0, <2>1
  <2> QED
    BY <1>0, <1>1, <2>2, <2>3 DEF AddConstraints
<1>2. ASSUME NEW r \in Request(2), FromDict(r)
      PROVE  OfTheirKind(sources') /\ Len(asked') <= MaxRequests
             /\ UNCHANGED <<service, tc, redirect, deploys, syncs>>
  <2> DEFINE every == [src |-> r.src \cup r.dest, dest |-> r.src \cup r.dest, delay |-> Delay(1),
                       networks |-> r.networks, symmetric |-> FALSE]
  <2>1. r \in RequestSet
    BY RequestType
  <2>2. every \in RequestSet
    BY <2>1 DEF RequestSet, Delay
  <2>3. sources' = Added(Added(sources, every), r) /\ asked' = <<every, r>> /\ MaxRequests >= 2
        /\ UNCHANGED <<service, tc, redirect, deploys, syncs>>
    BY <1>2 DEF FromDict
  <2> HIDE DEF every
  <2>4. OfTheirKind(Added(sources, every))
    BY <1>0, <2>2, AddedKind
  <2>5. OfTheirKind(Added(Added(sources, every), r))
    BY <1>0, <2>1, <2>4, AddedKind
  <2>6. Len(<<every, r>>) = 2
    OBVIOUS
  <2> QED
    BY <1>0, <2>3, <2>5, <2>6
<1>3. OfTheirKind(sources') /\ Len(asked') <= MaxRequests /\ UNCHANGED <<service, tc, redirect, deploys, syncs>>
  BY <1>1, <1>2
<1>4. OfTheirKind(sources)'
  BY <1>3, SameKind
<1> QED
  BY <1>3, <1>4 DEF EmulTyped, DelaysTyped

\* What is measured is of the kind of what was: a delay that would be negative
\* makes the deploy fail.
LEMMA DeployAccurateTypes ==
  ASSUME EmulIInv, EmulTyped, NEW seen, DeployAccurate(seen)
  PROVE  EmulTyped'
<1>0. UNCHANGED <<service, asked, tc, redirect, syncs>> /\ deploys' = deploys + 1 /\ deploys < MaxDeploys
  BY DEF DeployAccurate
<1>1. deploys' \in 0..MaxDeploys
  BY <1>0, EmulationAssumption DEF EmulTyped
<1>2. OfTheirKind(sources')
  <2>1. CASE sources' = sources
    BY <2>1 DEF EmulTyped
  <2>2. CASE /\ sources' = Measured(seen)
             /\ \A o \in DOMAIN Measured(seen) : \A c \in Measured(seen)[o] : c.delay \in Nat
    <3> DEFINE m == Measured(seen)
    <3>1. /\ DOMAIN m \subseteq DOMAIN sources
          /\ \A o \in DOMAIN m : \A d \in m[o] :
                \E c \in sources[o] : d = [c EXCEPT !.delay = Corrected(o.alias, c)]
      BY DEF Measured
    <3> HIDE DEF m
    <3>2. ASSUME NEW o \in DOMAIN m PROVE OfItsKind(m[o])
      <4>1. OfItsKind(sources[o])
        BY <3>1 DEF EmulTyped, OfTheirKind
      <4>2. ASSUME NEW d \in m[o]
            PROVE  /\ d \in ConstraintSet
                   /\ IF service = "netem" THEN d.to \in {Out, In} ELSE d.to \in Addresses
        <5>1. PICK c \in sources[o] : d = [c EXCEPT !.delay = Corrected(o.alias, c)]
          BY <3>1
        <5>2. c \in ConstraintSet
          BY <4>1 DEF OfItsKind
        <5>3. IF service = "netem" THEN c.to \in {Out, In} ELSE c.to \in Addresses
          BY <4>1 DEF OfItsKind
        <5>4. d.delay \in Nat
          BY <2>2 DEF m
        <5>5. d = [dev |-> c.dev, to |-> c.to, delay |-> d.delay]
          BY <5>1, <5>2 DEF ConstraintSet
        <5>6. d.to = c.to
          BY <5>5
        <5>7. d \in ConstraintSet
          BY <5>2, <5>4, <5>5 DEF ConstraintSet
        <5> QED
          BY <5>3, <5>6, <5>7
      <4>3. ASSUME NEW d \in m[o], NEW e \in m[o], d.dev = e.dev, d.to = e.to PROVE d = e
        <5>1. PICK c \in sources[o] : d = [c EXCEPT !.delay = Corrected(o.alias, c)]
          BY <3>1
        <5>2. PICK b \in sources[o] : e = [b EXCEPT !.delay = Corrected(o.alias, b)]
          BY <3>1
        <5>3. c \in ConstraintSet /\ b \in ConstraintSet
          BY <4>1 DEF OfItsKind
        <5>4. d.dev = c.dev /\ d.to = c.to /\ e.dev = b.dev /\ e.to = b.to
          BY <5>1, <5>2, <5>3 DEF ConstraintSet
        <5>5. c = b
          BY <4>1, <4>3, <5>4 DEF OfItsKind
        <5> QED
          BY <5>1, <5>2, <5>5
      <4> QED
        BY <4>2, <4>3 DEF OfItsKind
    <3>3. sources' = m
      BY <2>2 DEF m
    <3> QED
      BY <3>2, <3>3 DEF OfTheirKind
  <2> QED
    BY <2>1, <2>2 DEF DeployAccurate
<1>3. OfTheirKind(sources)'
  BY <1>0, <1>2, SameKind
<1> QED
  BY <1>0, <1>1, <1>3 DEF EmulTyped, DelaysTyped

\* Every step keeps the types.
LEMMA EmulTypedStep == EmulIInv /\ EmulTyped /\ [EmulNext]_emulVars => EmulTyped'
<1> SUFFICES ASSUME EmulIInv, EmulTyped, [EmulNext]_emulVars PROVE EmulTyped'
  OBVIOUS
<1>0. /\ MaxDeploys \in Nat /\ MaxSyncs \in Nat /\ deploys \in 0..MaxDeploys /\ syncs \in 0..MaxSyncs
      /\ OfTheirKind(sources)
  BY EmulationAssumption DEF EmulTyped
<1>1. ASSUME NEW h \in Nodes, NEW networks \in Resynced, Resync(h, networks) PROVE EmulTyped'
  <2>1. UNCHANGED <<service, sources, asked, tc, redirect, deploys>> /\ syncs < MaxSyncs /\ syncs' = syncs + 1
    BY <1>1 DEF Resync
  <2>2. syncs' \in 0..MaxSyncs
    BY <1>0, <2>1
  <2>3. OfTheirKind(sources)'
    BY <1>0, <2>1, SameKind
  <2> QED
    BY <2>1, <2>2, <2>3 DEF EmulTyped, DelaysTyped
<1>2. CASE Deploy
  <2>1. UNCHANGED <<service, sources, asked, tc, redirect, syncs>> /\ deploys < MaxDeploys /\ deploys' = deploys + 1
    BY <1>2 DEF Deploy
  <2>2. deploys' \in 0..MaxDeploys
    BY <1>0, <2>1
  <2>3. OfTheirKind(sources)'
    BY <1>0, <2>1, SameKind
  <2> QED
    BY <2>1, <2>2, <2>3 DEF EmulTyped, DelaysTyped
<1>3. CASE Destroy \/ UNCHANGED emulVars
  <2>1. UNCHANGED <<service, sources, asked, tc, redirect, deploys, syncs>>
    BY <1>3 DEF Destroy, emulVars
  <2>2. OfTheirKind(sources)'
    BY <1>0, <2>1, SameKind
  <2> QED
    BY <2>1, <2>2 DEF EmulTyped, DelaysTyped
<1>4. ASSUME NEW h \in Nodes, Enforce(h) \/ Lost(h) \/ Reset(h) PROVE EmulTyped'
  BY <1>4, EnforceTypes, LostTypes, ResetTypes
<1>5. ASSUME NEW seen, DeployAccurate(seen) PROVE EmulTyped'
  BY <1>5, DeployAccurateTypes
<1> QED
  BY <1>1, <1>2, <1>3, <1>4, <1>5, RequestsTypes DEF EmulNext

\* The types of the emulation.
LEMMA EmulTypesHold == Spec => []EmulTypeOK
<1>1. EmulInit => EmulIInv /\ EmulTyped
  BY EmulInitOK, EmulTypedInit
<1>2. EmulIInv /\ EmulTyped /\ [EmulNext]_emulVars => (EmulIInv /\ EmulTyped)'
  BY EmulStepOK, EmulTypedStep
<1>3. EmulSpec => [](EmulIInv /\ EmulTyped)
  BY <1>1, <1>2, PTL DEF EmulSpec
<1>4. EmulIInv /\ EmulTyped => EmulTypeOK
  BY EmulTypes
<1> QED
  BY <1>3, <1>4, EmulationRun, PTL

-----------------------------------------------------------------------------
(* The types of streams *)

\* A block begins before it ends, and ends in what was printed.
Delimits(b) == blocks[b].from <= blocks[b].to /\ blocks[b].to <= printed[purpose[b].sensor]
\* What a block made on the frontend.
StrTypeInv ==
    /\ StrIInv
    /\ expState \in {"running", "over", "forgotten"} /\ excused \subseteq Blocks
    /\ tools \subseteq Blocks /\ links \subseteq Blocks \X {"tunnel", "socket"}
    /\ \A b \in Blocks : files[b] \subseteq 1..MaxPrints
    /\ \A b \in Blocks : Delimits(b)

\* The bounds of a block.
LEMMA StrBounds ==
  ASSUME StrIInv
  PROVE  /\ MaxPrints \in Nat /\ StrTyped
         /\ \A b \in Blocks : purpose[b].sensor \in SensorsOf(purpose)
              /\ printed[purpose[b].sensor] \in 0..MaxPrints
              /\ blocks[b].from \in 0..MaxPrints /\ blocks[b].to \in 0..MaxPrints
  BY StreamsAssumption DEF StrIInv, StrTyped, SensorsOf

\* The invariant says what the types say.
LEMMA StrTypes == StrTypeInv => StreamsTypeOK
<1> SUFFICES ASSUME StrTypeInv PROVE StreamsTypeOK
  OBVIOUS
<1>1. StrTyped /\ MaxPrints \in Nat
  BY StrBounds DEF StrTypeInv
<1>2. ASSUME NEW b \in Blocks PROVE got[b] \subseteq 1..MaxPrints /\ blocks[b].at \in {"before", "in", "left", "raised"}
  <2>1. PICK n \in blocks[b].from..MaxPrints : got[b] = (blocks[b].from + 1)..n
    BY DEF StrTypeInv, StrIInv, StreamsKept
  <2>2. blocks[b].from \in 0..MaxPrints /\ blocks[b].at \in {"before", "in", "left", "raised"}
    BY <1>1 DEF StrTyped
  <2> QED
    BY <1>1, <2>1, <2>2
<1> QED
  BY <1>1, <1>2 DEF StrTypeInv, StrTyped, StreamsTypeOK, Delimits

\* No block began.
LEMMA StrTypesInitOK == StreamsInit => StrTypeInv
<1> SUFFICES ASSUME StreamsInit PROVE StrTypeInv
  OBVIOUS
<1>1. StrIInv
  BY StrInitOK
<1>2. \A b \in Blocks : blocks[b].from = 0 /\ blocks[b].to = 0 /\ printed[purpose[b].sensor] = 0 /\ files[b] = {}
  BY DEF StreamsInit, SensorsOf
<1> QED
  BY <1>1, <1>2 DEF StreamsInit, StrTypeInv, Delimits

\* A block that has just been entered, or left, delimits what was printed.
LEMMA EntersDelimited ==
  ASSUME StrIInv, NEW b \in Blocks, \A c \in Blocks : Delimits(c), UNCHANGED <<printed, purpose>>,
         (\E at \in {"in", "raised"} : Entered(b, at)) \/ LeftAt(b)
  PROVE  \A c \in Blocks : Delimits(c)'
<1> TAKE c \in Blocks
<1>1. blocks \in [Blocks -> [at : {"before", "in", "left", "raised"}, from : 0..MaxPrints, to : 0..MaxPrints]]
  BY StrBounds DEF StrTyped
<1>2. /\ c # b => blocks'[c].from = blocks[c].from /\ blocks'[c].to = blocks[c].to
      /\ c = b => blocks'[c].to = printed[purpose[c].sensor]
      /\ c = b => blocks'[c].from \in {printed[purpose[c].sensor], blocks[c].from}
  BY <1>1 DEF Entered, LeftAt
<1>3. /\ blocks[c].from \in Nat /\ blocks[c].to \in Nat /\ printed[purpose[c].sensor] \in Nat
  BY StrBounds
<1> QED
  BY <1>2, <1>3 DEF Delimits

\* A block gets what its sensor prints while it is open.
LEMMA StrTypesStepOK == StrTypeInv /\ [StreamsNext]_strVars => StrTypeInv'
<1> SUFFICES ASSUME StrTypeInv, [StreamsNext]_strVars PROVE StrTypeInv'
  OBVIOUS
<1>0. StrIInv /\ StrIInv' /\ \A c \in Blocks : Delimits(c)
  BY StrStepOK DEF StrTypeInv
<1>t. MaxPrints \in Nat /\ StrTyped
  BY <1>0, StrBounds
<1>1. ASSUME NEW s \in DOMAIN printed, SensorPrints(s) PROVE StrTypeInv'
  <2>1. /\ UNCHANGED <<purpose, expState, blocks, tools, links, got, excused>>
        /\ printed[s] < MaxPrints
        /\ printed' = [printed EXCEPT ![s] = @ + 1]
        /\ \A b \in Blocks : files'[b] \subseteq files[b] \cup {printed'[s]}
    BY <1>1 DEF SensorPrints
  <2>2. s \in SensorsOf(purpose) /\ printed[s] \in 0..MaxPrints /\ printed'[s] = printed[s] + 1
        /\ \A r \in SensorsOf(purpose) : r # s => printed'[r] = printed[r]
    BY <1>t, <2>1 DEF StrTyped
  <2>3. \A b \in Blocks : files'[b] \subseteq 1..MaxPrints
    BY <1>t, <2>1, <2>2 DEF StrTypeInv
  <2>4. ASSUME NEW b \in Blocks PROVE Delimits(b)'
    <3>1. /\ blocks[b].from \in 0..MaxPrints /\ blocks[b].to \in 0..MaxPrints
          /\ printed[purpose[b].sensor] \in 0..MaxPrints /\ purpose[b].sensor \in SensorsOf(purpose)
      BY <1>0, StrBounds
    <3>2. printed'[purpose[b].sensor] \in {printed[purpose[b].sensor], printed[purpose[b].sensor] + 1}
      BY <2>2, <3>1
    <3> QED
      BY <1>0, <2>1, <3>1, <3>2 DEF Delimits
  <2> QED
    BY <1>0, <2>1, <2>3, <2>4 DEF StrTypeInv
<1>2. ASSUME NEW b \in Blocks, StartTool(b) PROVE StrTypeInv'
  <2>1. /\ UNCHANGED <<purpose, expState, links, printed, got, excused>> /\ tools' \subseteq tools \cup {b}
        /\ \E at \in {"in", "raised"} : Entered(b, at)
        /\ files' = [c \in Blocks |-> IF c \in Twins(b) THEN {} ELSE files[c]] \/ UNCHANGED files
    BY <1>2 DEF StartTool
  <2>2. \A c \in Blocks : files'[c] \subseteq 1..MaxPrints
    BY <2>1 DEF StrTypeInv
  <2>3. \A c \in Blocks : Delimits(c)'
    BY <1>0, <2>1, EntersDelimited
  <2> QED
    BY <1>0, <2>1, <2>2, <2>3 DEF StrTypeInv
<1>3. ASSUME NEW b \in Blocks, OpenSocket(b) PROVE StrTypeInv'
  <2>1. /\ UNCHANGED <<purpose, expState, tools, printed, files, got, excused>>
        /\ links' \subseteq links \cup ({b} \X {"tunnel", "socket"})
        /\ \E at \in {"in", "raised"} : Entered(b, at)
    BY <1>3 DEF OpenSocket
  <2>2. \A c \in Blocks : Delimits(c)'
    BY <1>0, <2>1, EntersDelimited
  <2>3. links' \subseteq Blocks \X {"tunnel", "socket"}
    BY <2>1 DEF StrTypeInv
  <2> QED
    BY <1>0, <2>1, <2>2, <2>3 DEF StrTypeInv
<1>4. ASSUME NEW b \in Blocks, StopTool(b) \/ CloseSocket(b) PROVE StrTypeInv'
  <2>1. /\ UNCHANGED <<purpose, expState, printed, files, got>> /\ LeftAt(b)
        /\ tools' \subseteq tools /\ links' \subseteq links /\ excused' \subseteq excused \cup {b}
    BY <1>4 DEF StopTool, CloseSocket
  <2>2. \A c \in Blocks : Delimits(c)'
    BY <1>0, <2>1, EntersDelimited
  <2> QED
    BY <1>0, <2>1, <2>2 DEF StrTypeInv
<1>5. ASSUME NEW b \in Blocks, ReadSocket(b) \/ SnifferTimesOut(b) PROVE StrTypeInv'
  <2>1. /\ UNCHANGED <<purpose, expState, blocks, links, printed, files>>
        /\ tools' \subseteq tools /\ excused' \subseteq excused \cup {b}
    BY <1>5 DEF ReadSocket, SnifferTimesOut
  <2> QED
    BY <1>0, <2>1 DEF StrTypeInv, Delimits
<1>6. CASE StreamJobEnds
  <2>1. /\ UNCHANGED <<purpose, blocks, links, printed, files, got>>
        /\ expState' \in {"over", "forgotten"} /\ excused' = excused \cup tools /\ tools' = {}
    BY <1>6 DEF StreamJobEnds
  <2> QED
    BY <1>0, <2>1 DEF StrTypeInv, Delimits
<1>7. CASE StreamsKilled
  <2>1. UNCHANGED <<purpose, expState, tools, printed, files, got, excused>> /\ links' = {}
    BY <1>7 DEF StreamsKilled
  <2>2. ASSUME NEW c \in Blocks PROVE Delimits(c)'
    <3>1. blocks'[c] = blocks[c] \/ blocks'[c] = [blocks[c] EXCEPT !.at = "raised"]
      BY <1>7 DEF StreamsKilled
    <3>2. blocks[c] \in [at : {"before", "in", "left", "raised"}, from : 0..MaxPrints, to : 0..MaxPrints]
      BY <1>t DEF StrTyped
    <3>3. blocks'[c].from = blocks[c].from /\ blocks'[c].to = blocks[c].to
      BY <3>1, <3>2
    <3> QED
      BY <1>0, <2>1, <3>3 DEF Delimits
  <2> QED
    BY <1>0, <2>1, <2>2 DEF StrTypeInv
<1>8. CASE UNCHANGED strVars
  BY <1>0, <1>8 DEF strVars, StrTypeInv, Delimits
<1> QED
  BY <1>1, <1>2, <1>3, <1>4, <1>5, <1>6, <1>7, <1>8 DEF StreamsNext

\* The types of blocks, tools, links and files (IotlabSerial, IotlabSniffer).
LEMMA StreamsTypesHold == Spec => []StreamsTypeOK
<1>1. Init => StreamsInit
  BY DEF Init
<1>2. [Next]_vars => [StreamsNext]_strVars
  BY DEF Next, vars, machineVars
<1>3. StrTypeInv => StreamsTypeOK
  BY StrTypes
<1> QED
  BY <1>1, <1>2, <1>3, StrTypesInitOK, StrTypesStepOK, PTL DEF Spec

-----------------------------------------------------------------------------
(* The types of what is found in containers, and of windows *)

\* What an engine did not answer is empty.
DkTypeInv ==
    /\ DkIInv /\ changes \in 0..MaxChanges
    /\ \A e \in Engines : ~outputs[e].done => outputs[e].names = {}

\* The invariant says what the types say.
LEMMA DkTypes == DkTypeInv => DkTypeOK
<1> SUFFICES ASSUME DkTypeInv PROVE DkTypeOK
  OBVIOUS
<1>1. call \in [at : {"out", "asking", "found"}, engines : SUBSET Engines, names : SUBSET Containers]
  BY DEF DkTypeInv, DkIInv, DkTyped
<1>2. \A e \in Engines : outputs[e].names \subseteq psOf[e].names /\ (outputs[e].done => psOf[e].done)
  <2> TAKE e \in Engines
  <2>1. outputs[e].done => psOf[e].done /\ outputs[e].names \subseteq psOf[e].names
    BY DEF DkTypeInv, DkIInv, AnswersOK
  <2>2. ~outputs[e].done => outputs[e].names = {}
    BY DEF DkTypeInv
  <2> QED
    BY <2>1, <2>2
<1> QED
  BY <1>1, <1>2 DEF DkTypeInv, DkIInv, DkTyped, DkTypeOK

\* Nothing was asked.
LEMMA DkTypesInitOK == DkInit => DkTypeInv
  BY DkInitOK, EnginesAssumption DEF DkInit, DkTypeInv, NothingPrinted, Unasked

\* An engine answers with the names that it lists.
LEMMA DkTypesStepOK == DkTypeInv /\ [DkNext]_dkVars => DkTypeInv'
<1> SUFFICES ASSUME DkTypeInv, [DkNext]_dkVars
             PROVE changes' \in 0..MaxChanges /\ \A e \in Engines : ~outputs'[e].done => outputs'[e].names = {}
  BY DkStepOK DEF DkTypeInv
<1>1. changes' = changes \/ (changes < MaxChanges /\ changes' = changes + 1)
  BY DEF DkNext, dkVars, ContainerChanges, AskDockers, ListDockers, InspectDockers, CollectDockers, DockersUnreachable
<1>2. changes' \in 0..MaxChanges
  BY <1>1, EnginesAssumption DEF DkTypeInv
<1>3. outputs' = outputs \/ outputs' = NothingPrinted \/ \E e \in Engines : InspectDockers(e)
  BY DEF DkNext, dkVars, ContainerChanges, AskDockers, ListDockers, CollectDockers, DockersUnreachable
<1>4. ASSUME NEW e \in Engines, InspectDockers(e), NEW f \in Engines, ~outputs'[f].done PROVE outputs'[f].names = {}
  <2>1. outputs' = [outputs EXCEPT ![e] = [done |-> TRUE, names |-> psOf[e].names \cap running[e]]] /\ outputs \in [Engines -> Answer]
    BY <1>4 DEF InspectDockers, DkTypeInv, DkIInv, DkTyped
  <2>2. e # f
    <3> SUFFICES ASSUME e = f PROVE FALSE
      OBVIOUS
    <3>1. outputs'[f] = [done |-> TRUE, names |-> psOf[e].names \cap running[e]]
      BY <2>1
    <3> QED
      BY <1>4, <3>1
  <2>3. outputs'[f] = outputs[f]
    BY <2>1, <2>2
  <2> QED
    BY <1>4, <2>3 DEF DkTypeInv
<1>5. CASE outputs' = outputs
  BY <1>2, <1>5 DEF DkTypeInv
<1>6. CASE outputs' = NothingPrinted
  BY <1>2, <1>6 DEF NothingPrinted, Unasked
<1> QED
  BY <1>2, <1>3, <1>4, <1>5, <1>6

\* A window is within the time that has passed, and so is what was measured in it.
Measures(data) == data \subseteq KwNodes \X (1..MaxClock)
KwTypeInv ==
    /\ KwIInv
    /\ kwNodes \in KwServices /\ silent \in KwSilences
    /\ {kw.start, kw.stop, entered.from, entered.to, clock} \subseteq 0..MaxClock
    /\ fetched.of \subseteq kwNodes /\ Measures(fetched.data)
    /\ fetches \in 0..MaxFetches /\ DOMAIN backups = 0..fetches

\* The same of windows.
LEMMA KwTypes == KwTypeInv => KwTypeOK
  BY DEF KwTypeInv, KwIInv, KwTyped, KwTypeOK, Measures

\* Metrics are found in a window.
LEMMA MeasuresAre ==
  ASSUME KwTypeInv, WindowSet, NEW nodes \in SUBSET kwNodes
  PROVE  Measures(MetricsIn(nodes))
<1>1. MetricsIn(nodes) = (nodes \ silent) \X {t \in kw.start..kw.stop : t <= clock}
  BY MetricsAre
<1>2. kw.start \in 1..MaxClock /\ kw.stop \in 0..MaxClock
  BY DEF KwTypeInv, WindowSet, NoTime
<1>3. \A t \in kw.start..kw.stop : t \in 1..MaxClock
  BY <1>2, KwollectAssumption
<1>4. kwNodes \subseteq KwNodes
  BY KwollectAssumption DEF KwTypeInv
<1> QED
  BY <1>1, <1>3, <1>4 DEF Measures

\* Nothing was fetched.
LEMMA KwTypesInitOK == KwInit => KwTypeInv
<1> SUFFICES ASSUME KwInit PROVE KwTypeInv
  OBVIOUS
<1>1. KwIInv
  BY KwInitOK
<1>2. fetched.of = {} /\ fetched.data = {}
  BY DEF KwInit, NothingFetched
<1>3. kw.start = 0 /\ kw.stop = 0 /\ entered.from = 0 /\ entered.to = 0 /\ clock = 1
  BY DEF KwInit, NoTime
<1>4. fetches = 0 /\ DOMAIN backups = {0}
  BY DEF KwInit
<1> QED
  BY <1>1, <1>2, <1>3, <1>4, KwollectAssumption DEF KwInit, KwTypeInv, Measures

\* Every fetch is within its bounds.
LEMMA KwTypesStepOK == KwTypeInv /\ [KwNext]_kwVars => KwTypeInv'
<1> SUFFICES ASSUME KwTypeInv, [KwNext]_kwVars PROVE KwTypeInv'
  OBVIOUS
<1>1. KwIInv'
  BY KwStepOK DEF KwTypeInv
<1>2. /\ kw \in [deployed : BOOLEAN, inside : BOOLEAN, start : Nat, stop : Nat] /\ clock \in 1..MaxClock
      /\ entered \in [from : Nat, to : Nat]
  BY DEF KwTypeInv, KwIInv, KwTyped
<1>3. UNCHANGED <<kwNodes, silent>>
  BY DEF KwNext, kwVars, KwTick, EnterWindow, LeaveWindow, SetWindow, GetMetrics, BackupMetrics, AskMetrics
<1>4. CASE KwTick
  BY <1>1, <1>4, KwollectAssumption DEF KwTick, KwTypeInv
<1>5. CASE EnterWindow
  <2>1. kw'.start = clock /\ kw'.stop = kw.stop
    BY <1>2, <1>5 DEF EnterWindow, StartsNow
  <2>2. entered'.from = clock /\ entered'.to = 0
    BY <1>5 DEF EnterWindow, NoTime
  <2>3. UNCHANGED <<clock, fetched, backups, fetches, kwNodes, silent>>
    BY <1>3, <1>5 DEF EnterWindow
  <2>4. {kw'.start, kw'.stop, entered'.from, entered'.to, clock'} \subseteq 0..MaxClock
    BY <1>2, <2>1, <2>2, <2>3, KwollectAssumption DEF KwTypeInv
  <2>5. fetched'.of \subseteq kwNodes' /\ Measures(fetched'.data)
    BY <2>3 DEF KwTypeInv, Measures
  <2> QED
    BY <1>1, <2>3, <2>4, <2>5 DEF KwTypeInv
<1>6. CASE LeaveWindow
  <2>1. kw'.start = kw.start /\ kw'.stop = clock /\ entered'.from = entered.from /\ entered'.to = clock
    BY <1>2, <1>6 DEF LeaveWindow
  <2> QED
    BY <1>1, <1>2, <1>6, <2>1 DEF LeaveWindow, KwTypeInv
<1>7. CASE SetWindow
  <2>1. {kw'.start, kw'.stop} \subseteq {kw.start, kw.stop} \cup 1..clock
    BY <1>2, <1>7 DEF SetWindow
  <2> QED
    BY <1>1, <1>2, <1>7, <2>1, KwollectAssumption DEF SetWindow, KwTypeInv, NoTime
<1>8. CASE GetMetrics \/ BackupMetrics \/ AskMetrics
  <2>1. fetches' = fetches + 1 /\ fetches < MaxFetches /\ UNCHANGED <<kw, clock, entered>>
    BY <1>8 DEF GetMetrics, BackupMetrics, AskMetrics
  <2>2. DOMAIN backups' = 0..fetches'
    BY <1>8 DEF GetMetrics, BackupMetrics, AskMetrics
  <2>3. fetched'.of \subseteq kwNodes /\ Measures(fetched'.data)
    <3>1. CASE GetMetrics
      <4>1. PICK nodes \in SUBSET kwNodes :
              fetched' = [NothingFetched EXCEPT !.data = MetricsIn(nodes), !.of = nodes, !.window = BlockLeft]
        BY <3>1 DEF GetMetrics
      <4>2. fetched'.of = nodes /\ fetched'.data = MetricsIn(nodes)
        BY <4>1 DEF NothingFetched
      <4> QED
        BY <3>1, <4>2, MeasuresAre DEF GetMetrics
    <3>2. CASE BackupMetrics
      <4>1. PICK dir : fetched' = [NothingFetched EXCEPT !.data = MetricsIn(kwNodes), !.of = kwNodes,
                                                         !.window = BlockLeft, !.dir = {dir}]
        BY <3>2 DEF BackupMetrics
      <4>2. fetched'.of = kwNodes /\ fetched'.data = MetricsIn(kwNodes)
        BY <4>1 DEF NothingFetched
      <4> QED
        BY <3>2, <4>2, MeasuresAre DEF BackupMetrics
    <3>3. CASE AskMetrics
      <4>1. fetched'.of = {} /\ fetched'.data = {}
        BY <3>3 DEF AskMetrics, NothingFetched
      <4> QED
        BY <4>1 DEF Measures
    <3> QED
      BY <1>8, <3>1, <3>2, <3>3
  <2> QED
    BY <1>1, <1>3, <2>1, <2>2, <2>3, KwollectAssumption DEF KwTypeInv
<1>9. CASE UNCHANGED kwVars
  BY <1>1, <1>9 DEF kwVars, KwTypeInv
<1> QED
  BY <1>4, <1>5, <1>6, <1>7, <1>8, <1>9 DEF KwNext

\* The types of what runs on the machines: docker on the hosts (get_dockers).
LEMMA DkTypesHold == Spec => []DkTypeOK
<1>1. Init => DkInit
  BY DEF Init
<1>2. [Next]_vars => [DkNext]_dkVars
  BY DEF Next, vars, machineVars
<1> QED
  BY <1>1, <1>2, DkTypes, DkTypesInitOK, DkTypesStepOK, PTL DEF Spec

\* The types of the jobs, the metrics and what was fetched (Kwollect).
LEMMA KwTypesHold == Spec => []KwTypeOK
<1>1. Init => KwInit
  BY DEF Init
<1>2. [Next]_vars => [KwNext]_kwVars
  BY DEF Next, vars, machineVars
<1> QED
  BY <1>1, <1>2, KwTypes, KwTypesInitOK, KwTypesStepOK, PTL DEF Spec
=============================================================================
