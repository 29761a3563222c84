--------------------------- MODULE G5kDeployProofs ---------------------------
(***************************************************************************)
(* What holds of G5kDeploy for any hosts, sites, networks and verdicts.    *)
(***************************************************************************)
EXTENDS G5kDeploy, FiniteSetTheorems, TLAPS

-----------------------------------------------------------------------------
(* Type correctness *)

\* There is an attempt left when one is being made.
AttemptLeft == pc = "poll" => attempt < MAX_DEPLOY

LEMMA InitType == Init => TypeOK
  BY DeployAssumption DEF Init, TypeOK, Deployments, NoDeployment, Ended

LEMMA CreateType ==
  ASSUME TypeOK, NEW found \in SUBSET Hosts, NEW made \in SUBSET Groups,
         Create(found, made)
  PROVE  /\ already' \in SUBSET Hosts
         /\ dep' \in [Groups -> Deployments]
         /\ tries' \in [Hosts -> Nat]
         /\ runs' \in SUBSET Hosts
         /\ todo' = {} /\ terminated' = 0 /\ okSeen' = {} /\ koSeen' = {}
<1> DEFINE nodes(g) == IF g \in made THEN NodesOf(g, found) ELSE {}
           d(g) == IF nodes(g) = {} THEN NoDeployment
                   ELSE [nodes |-> nodes(g), st |-> "processing", ok |-> {}]
<1>1. \A g \in Groups : nodes(g) \in SUBSET Hosts
  BY DEF TypeOK, NodesOf
<1>2. \A g \in Groups : d(g) \in Deployments
  <2> TAKE g \in Groups
  <2> HIDE DEF nodes
  <2> QED
    BY <1>1 DEF Deployments, NoDeployment, Ended
<1>3. dep' = [g \in Groups |-> d(g)]
  BY DEF Create
<1>4. dep' \in [Groups -> Deployments]
  <2> HIDE DEF d
  <2> QED
    BY <1>2, <1>3
<1>5. tries' \in [Hosts -> Nat]
  BY DEF Create, TypeOK
<1> QED
  BY <1>4, <1>5 DEF Create, TypeOK

LEMMA TypeStep ==
  ASSUME TypeOK, AttemptLeft, [Next]_vars
  PROVE  TypeOK' /\ AttemptLeft'
<1> USE DeployAssumption DEF TypeOK, AttemptLeft
<1>1. ASSUME NEW f \in BOOLEAN, Call(f)
      PROVE  TypeOK' /\ AttemptLeft'
  BY <1>1 DEF Call, poll, Deployments, NoDeployment, Ended
<1>2. ASSUME NEW answering \in SUBSET Hosts, Check(answering)
      PROVE  TypeOK' /\ AttemptLeft'
  <2>1. Found(answering) \in SUBSET Hosts
    BY DEF Found
  <2>2. Create(Found(answering), Groups)
    BY <1>2 DEF Check
  <2>3. /\ already' \in SUBSET Hosts
        /\ dep' \in [Groups -> Deployments]
        /\ tries' \in [Hosts -> Nat]
        /\ runs' \in SUBSET Hosts
        /\ todo' = {} /\ terminated' = 0 /\ okSeen' = {} /\ koSeen' = {}
    BY <2>1, <2>2, CreateType
  <2> QED
    BY <1>2, <2>3 DEF Check, More, loop
<1>3. ASSUME NEW answering \in SUBSET Hosts, NEW made \in SUBSET Groups,
             CheckFails(answering, made)
      PROVE  TypeOK' /\ AttemptLeft'
  <2>1. Found(answering) \in SUBSET Hosts
    BY DEF Found
  <2>2. Create(Found(answering), made)
    BY <1>3 DEF CheckFails
  <2>3. /\ already' \in SUBSET Hosts
        /\ dep' \in [Groups -> Deployments]
        /\ tries' \in [Hosts -> Nat]
        /\ runs' \in SUBSET Hosts
        /\ todo' = {} /\ terminated' = 0 /\ okSeen' = {} /\ koSeen' = {}
    BY <2>1, <2>2, CreateType
  <2> QED
    BY <1>3, <2>3 DEF CheckFails, loop
<1>4. CASE Interrupted
  BY <1>4 DEF Interrupted, loop, poll
<1>5. ASSUME NEW g \in Groups, NEW ok \in SUBSET Hosts, Terminate(g, ok)
      PROVE  TypeOK' /\ AttemptLeft'
  BY <1>5 DEF Terminate, loop, poll, Deployments, Ended
<1>6. ASSUME NEW g \in Groups, NEW ok \in SUBSET Hosts, Fail(g, ok)
      PROVE  TypeOK' /\ AttemptLeft'
  BY <1>6 DEF Fail, loop, poll, Deployments, Ended
<1>7. CASE Iterate
  BY <1>7 DEF Iterate, loop, Active, Restarted
<1>8. ASSUME NEW g \in Groups, Refresh(g)
      PROVE  TypeOK' /\ AttemptLeft'
  <2>1. OkOf(g) \in SUBSET Hosts /\ KoOf(g) \in SUBSET Hosts
    BY DEF OkOf, KoOf, Deployments
  <2> QED
    BY <1>8, <2>1 DEF Refresh, loop
<1>9. CASE Collect
  <2>1. attempt' \in 0 .. MAX_DEPLOY
    BY <1>9 DEF Collect
  <2> QED
    BY <1>9, <2>1 DEF Collect, Undeployed, Deployments, NoDeployment, Ended
<1>10. CASE Return
  BY <1>10 DEF Return, loop, poll
<1>11. CASE UNCHANGED vars
  BY <1>11 DEF vars, loop, poll
<1> QED
  BY <1>1, <1>2, <1>3, <1>4, <1>5, <1>6, <1>7, <1>8, <1>9, <1>10, <1>11
     DEF Next, Client, Kadeploy, Trouble

-----------------------------------------------------------------------------
(* The inductive invariant *)

\* The attempt under way: its deployments share out the hosts that are left and
\* were not found deployed; a host counted as deployed runs the environment.
Shared ==
  pc = "poll" =>
    /\ already \subseteq left \cap runs
    /\ todo \subseteq Active
    /\ \A h \in left \ already : tries[h] = attempt + 1
    /\ \A g \in Groups :
         /\ dep[g].nodes = NodesOf(g, already)
         /\ dep[g].st = "none" <=> NodesOf(g, already) = {}
         /\ dep[g].ok \subseteq dep[g].nodes \cap runs

\* What the poll has counted are the verdicts of some deployments E, visited in
\* this iteration when they had ended, each counted once.
CountedSet(E) ==
  /\ E \subseteq Active \ todo
  /\ \A g \in E : dep[g].st \in Ended
  /\ terminated = Cardinality(E)
  /\ okSeen = UNION {OkOf(g) : g \in E}
  /\ koSeen = UNION {KoOf(g) : g \in E}

Polled == pc = "poll" => \E E \in SUBSET Groups : CountedSet(E)

\* Between attempts: the two lists, and how often a failing host was tried.
Sorted ==
  pc \in {"check", "done"} =>
    /\ got \subseteq runs
    /\ got \cap left = {}
    /\ \A h \in left : tries[h] = attempt

Finished == pc = "done" => left = {} \/ attempt = MAX_DEPLOY

IInv == TypeOK /\ AttemptLeft /\ Shared /\ Polled /\ Sorted /\ Finished

LEMMA InitInv == Init => IInv
  BY InitType DEF Init, IInv, AttemptLeft, Shared, Polled, Sorted, Finished

\* The deployments created for the hosts that were not found deployed.
LEMMA CreateAll ==
  ASSUME TypeOK, NEW found \in SUBSET (left \cap runs), Create(found, Groups),
         UNCHANGED left
  PROVE  /\ already' = found
         /\ found \subseteq runs'
         /\ \A h \in left \ found : tries'[h] = tries[h] + 1
         /\ \A h \in Hosts : h \notin left => tries'[h] = tries[h]
         /\ \A g \in Groups :
              /\ dep'[g].nodes = NodesOf(g, found)
              /\ dep'[g].st = "none" <=> NodesOf(g, found) = {}
              /\ dep'[g].ok = {}
<1>1. \A h \in Hosts : GroupOf[h] \in Groups
  BY DeployAssumption
<1>2. \A h \in Hosts : h \in NodesOf(GroupOf[h], found) <=> h \in left \ found
  BY DEF NodesOf, TypeOK
<1>3. \A h \in Hosts :
        tries'[h] = tries[h] + IF h \in NodesOf(GroupOf[h], found) THEN 1 ELSE 0
  BY <1>1 DEF Create
<1>4. already' = found
  BY DEF Create
<1>5. found \subseteq runs'
  BY <1>1, <1>2 DEF Create, TypeOK
<1>6. ASSUME NEW h \in left \ found
      PROVE  tries'[h] = tries[h] + 1
  BY <1>2, <1>3 DEF TypeOK
<1>7. ASSUME NEW h \in Hosts, h \notin left
      PROVE  tries'[h] = tries[h]
  BY <1>2, <1>3, <1>7 DEF TypeOK
<1>8. ASSUME NEW g \in Groups
      PROVE  /\ dep'[g].nodes = NodesOf(g, found)
             /\ dep'[g].st = "none" <=> NodesOf(g, found) = {}
             /\ dep'[g].ok = {}
  <2>1. dep'[g] = IF NodesOf(g, found) = {} THEN NoDeployment
                  ELSE [nodes |-> NodesOf(g, found), st |-> "processing", ok |-> {}]
    BY DEF Create
  <2> QED
    BY <2>1 DEF NoDeployment
<1> QED
  BY <1>4, <1>5, <1>6, <1>7, <1>8

\* A poll that counted as many deployments as there are has seen every verdict.
LEMMA AllSeen ==
  ASSUME TypeOK, Shared, Polled, pc = "poll", AllEnded
  PROVE  /\ okSeen \cup koSeen = left \ already
         /\ okSeen \cap koSeen = {}
         /\ okSeen \subseteq runs
<1>1. PICK E \in SUBSET Groups : CountedSet(E)
  BY DEF Polled
<1>2. E = Active
  <2>1. E \subseteq Active /\ Active \subseteq Groups
    BY <1>1 DEF CountedSet, Active
  <2>2. IsFiniteSet(Active)
    BY <2>1, FS_Subset, DeployAssumption
  <2>3. Cardinality(Active) = Cardinality(E)
    BY <1>1 DEF CountedSet, AllEnded
  <2> QED
    BY <2>1, <2>2, <2>3, FS_Subset
<1>3. ASSUME NEW g \in Active
      PROVE  /\ OkOf(g) \cup KoOf(g) = NodesOf(g, already)
             /\ OkOf(g) \cap KoOf(g) = {}
             /\ OkOf(g) \subseteq runs
  <2>1. /\ dep[g].st \in Ended
        /\ dep[g].nodes = NodesOf(g, already)
        /\ dep[g].ok \subseteq dep[g].nodes \cap runs
    BY <1>1, <1>2 DEF CountedSet, Shared, Active
  <2> QED
    BY <2>1 DEF Ended, OkOf, KoOf
<1>4. /\ okSeen = UNION {OkOf(g) : g \in Active}
      /\ koSeen = UNION {KoOf(g) : g \in Active}
  BY <1>1, <1>2 DEF CountedSet
<1>5. ASSUME NEW h \in left \ already
      PROVE  GroupOf[h] \in Active /\ h \in NodesOf(GroupOf[h], already)
  <2>1. h \in Hosts /\ GroupOf[h] \in Groups
    BY DeployAssumption DEF TypeOK
  <2>2. h \in NodesOf(GroupOf[h], already)
    BY DEF NodesOf
  <2> QED
    BY <2>1, <2>2 DEF Shared, Active
<1>6. \A g : NodesOf(g, already) \subseteq left \ already
  BY DEF NodesOf
<1>7. \A g1, g2 \in Active :
        NodesOf(g1, already) \cap NodesOf(g2, already) # {} => g1 = g2
  BY DEF NodesOf
<1> HIDE DEF Active
<1>8. okSeen \cup koSeen = left \ already
  BY <1>3, <1>4, <1>5, <1>6
<1>9. okSeen \cap koSeen = {}
  <2> SUFFICES ASSUME NEW h \in okSeen \cap koSeen
               PROVE  FALSE
    OBVIOUS
  <2>1. PICK g1 \in Active : h \in OkOf(g1)
    BY <1>4
  <2>2. PICK g2 \in Active : h \in KoOf(g2)
    BY <1>4
  <2>3. g1 = g2
    BY <2>1, <2>2, <1>3, <1>7
  <2> QED
    BY <2>1, <2>2, <2>3, <1>3
<1> QED
  BY <1>3, <1>4, <1>8, <1>9

-----------------------------------------------------------------------------
(* Every action preserves it *)

LEMMA CheckInv ==
  ASSUME IInv, NEW answering \in SUBSET Hosts, Check(answering)
  PROVE  Shared' /\ Polled' /\ Sorted' /\ Finished'
<1> DEFINE found == Found(answering)
<1>1. /\ Create(found, Groups)
      /\ pc = "check" /\ pc' = "poll"
      /\ UNCHANGED <<left, got, attempt>>
  BY DEF Check, loop
<1>2. found \in SUBSET (left \cap runs)
  BY DEF Found
<1> HIDE DEF found
<1>3. /\ already' = found
      /\ found \subseteq runs'
      /\ \A h \in left \ found : tries'[h] = tries[h] + 1
      /\ \A g \in Groups :
           /\ dep'[g].nodes = NodesOf(g, found)
           /\ dep'[g].st = "none" <=> NodesOf(g, found) = {}
           /\ dep'[g].ok = {}
  BY <1>1, <1>2, CreateAll DEF IInv
<1>5. /\ todo' = {} /\ terminated' = 0 /\ okSeen' = {} /\ koSeen' = {}
  BY <1>1 DEF Create
<1>6. Shared'
  <2>1. \A h \in left : tries[h] = attempt
    BY <1>1 DEF IInv, Sorted
  <2>2. \A h \in left \ found : tries'[h] = attempt' + 1
    BY <1>1, <1>3, <2>1
  <2>3. \A g : NodesOf(g, already)' = NodesOf(g, found)
    BY <1>1, <1>3 DEF NodesOf
  <2> QED
    BY <1>1, <1>2, <1>3, <1>5, <2>2, <2>3 DEF Shared
<1>7. Polled'
  <2>1. CountedSet({})'
    BY <1>5, FS_EmptySet DEF CountedSet
  <2> QED
    BY <2>1 DEF Polled
<1> QED
  BY <1>1, <1>6, <1>7 DEF Sorted, Finished

\* A deployment that ends was not counted yet, so the count stays exact.
LEMMA EndsInv ==
  ASSUME IInv, NEW g \in Groups, NEW ok \in SUBSET Hosts,
         Terminate(g, ok) \/ Fail(g, ok)
  PROVE  Shared' /\ Polled' /\ Sorted' /\ Finished'
<1>1. /\ dep[g].st = "processing"
      /\ ok \subseteq dep[g].nodes
      /\ runs' = runs \cup ok
      /\ UNCHANGED <<pc, left, got, attempt, already, todo, terminated, okSeen,
                     koSeen, tries>>
  BY DEF Terminate, Fail, loop, poll
<1>2. /\ dep'[g].nodes = dep[g].nodes
      /\ dep'[g].st \in Ended
      /\ dep'[g].ok \in {dep[g].ok, ok}
  <2>1. dep[g] \in Deployments
    BY DEF IInv, TypeOK
  <2>2. CASE Terminate(g, ok)
    <3>1. dep'[g] = [dep[g] EXCEPT !.st = "terminated", !.ok = ok]
      BY <2>2 DEF Terminate, IInv, TypeOK
    <3> QED
      BY <2>1, <3>1 DEF Ended, Deployments
  <2>3. CASE Fail(g, ok)
    <3>1. dep'[g] = [dep[g] EXCEPT !.st = "error"]
      BY <2>3 DEF Fail, IInv, TypeOK
    <3> QED
      BY <2>1, <3>1 DEF Ended, Deployments
  <2> QED
    BY <2>2, <2>3
<1>3. \A f \in Groups : f # g => dep'[f] = dep[f]
  BY DEF Terminate, Fail, IInv, TypeOK
<1>4. ASSUME pc = "poll"
      PROVE  Shared'
  <2>1. \A f : NodesOf(f, already)' = NodesOf(f, already)
    BY <1>1 DEF NodesOf
  <2>2. Active' = Active
    BY <1>1, <1>2, <1>3 DEF Active, Ended
  <2>3. ASSUME NEW f \in Groups
        PROVE  /\ dep'[f].nodes = NodesOf(f, already)
               /\ dep'[f].st = "none" <=> NodesOf(f, already) = {}
               /\ dep'[f].ok \subseteq dep'[f].nodes \cap runs'
    <3>1. CASE f = g
      BY <1>1, <1>2, <1>4, <3>1 DEF Shared, IInv, Ended
    <3>2. CASE f # g
      BY <1>1, <1>3, <1>4, <3>2 DEF Shared, IInv
    <3> QED
      BY <3>1, <3>2
  <2> QED
    BY <1>1, <1>4, <2>1, <2>2, <2>3 DEF Shared, IInv
<1>5. ASSUME pc = "poll"
      PROVE  Polled'
  <2>1. PICK E \in SUBSET Groups : CountedSet(E)
    BY <1>5 DEF IInv, Polled
  <2>2. g \notin E
    BY <1>1, <2>1 DEF CountedSet, Ended
  <2>3. \A f \in E : dep'[f] = dep[f] /\ OkOf(f)' = OkOf(f) /\ KoOf(f)' = KoOf(f)
    BY <1>3, <2>2 DEF OkOf, KoOf
  <2>4. Active' = Active
    BY <1>1, <1>2, <1>3 DEF Active, Ended
  <2>5. CountedSet(E)'
    BY <1>1, <2>1, <2>3, <2>4 DEF CountedSet
  <2> QED
    BY <2>5 DEF Polled
<1>6. Sorted' /\ Finished'
  BY <1>1 DEF Sorted, Finished, IInv
<1> QED
  BY <1>1, <1>4, <1>5, <1>6 DEF Shared, Polled

LEMMA IterateInv ==
  ASSUME IInv, Iterate
  PROVE  Shared' /\ Polled' /\ Sorted' /\ Finished'
<1>1. /\ pc = "poll"
      /\ todo' = Active /\ terminated' = 0 /\ okSeen' = {} /\ koSeen' = {}
      /\ UNCHANGED <<pc, left, attempt, already, dep, runs, tries>>
  BY DEF Iterate, loop, Restarted
<1>2. Active' = Active /\ \A g : NodesOf(g, already)' = NodesOf(g, already)
  BY <1>1 DEF Active, NodesOf
<1>3. Shared'
  BY <1>1, <1>2 DEF IInv, Shared
<1>4. CountedSet({})'
  BY <1>1, <1>2, FS_EmptySet DEF CountedSet
<1> QED
  BY <1>1, <1>3, <1>4 DEF Polled, Sorted, Finished

LEMMA RefreshInv ==
  ASSUME IInv, NEW g \in Groups, Refresh(g)
  PROVE  Shared' /\ Polled' /\ Sorted' /\ Finished'
<1>1. /\ pc = "poll" /\ g \in todo
      /\ todo' = todo \ {g}
      /\ okSeen' = okSeen \cup OkOf(g) /\ koSeen' = koSeen \cup KoOf(g)
      /\ terminated' = terminated + IF Counted(g) THEN 1 ELSE 0
      /\ UNCHANGED <<pc, left, attempt, already, dep, runs, tries>>
  BY DEF Refresh, loop
<1>2. /\ Active' = Active
      /\ \A f : NodesOf(f, already)' = NodesOf(f, already)
      /\ \A f : OkOf(f)' = OkOf(f) /\ KoOf(f)' = KoOf(f)
  BY <1>1 DEF Active, NodesOf, OkOf, KoOf
<1>3. Shared'
  BY <1>1, <1>2 DEF IInv, Shared
<1>4. PICK E \in SUBSET Groups : CountedSet(E)
  BY <1>1 DEF IInv, Polled
<1>5. g \in Active /\ g \notin E
  BY <1>1, <1>4 DEF CountedSet, IInv, Shared
<1>6. ASSUME Counted(g)
      PROVE  Polled'
  <2>1. IsFiniteSet(E)
    BY FS_Subset, DeployAssumption
  <2>2. Cardinality(E \cup {g}) = Cardinality(E) + 1
    BY <1>5, <2>1, FS_AddElement
  <2>3. CountedSet(E \cup {g})'
    BY <1>1, <1>2, <1>4, <1>5, <1>6, <2>2 DEF CountedSet, Counted
  <2> QED
    BY <2>3 DEF Polled
<1>7. ASSUME ~Counted(g)
      PROVE  Polled'
  <2>1. OkOf(g) = {} /\ KoOf(g) = {}
    BY <1>7 DEF Counted, OkOf, KoOf, Ended
  <2>2. terminated' = terminated
    BY <1>1, <1>7 DEF IInv, TypeOK
  <2>3. CountedSet(E)'
    BY <1>1, <1>2, <1>4, <2>1, <2>2 DEF CountedSet
  <2> QED
    BY <2>3 DEF Polled
<1> QED
  BY <1>1, <1>3, <1>6, <1>7 DEF Sorted, Finished

LEMMA CollectInv ==
  ASSUME IInv, Collect
  PROVE  /\ Shared' /\ Polled' /\ Sorted' /\ Finished'
         /\ got' \cup left' = left
<1>1. /\ okSeen \cup koSeen = left \ already
      /\ okSeen \cap koSeen = {}
      /\ okSeen \subseteq runs
  BY AllSeen DEF Collect, IInv
<1>2. /\ pc = "poll" /\ pc' = "check"
      /\ got' = okSeen \cup already /\ left' = koSeen
      /\ attempt' = attempt + 1
      /\ UNCHANGED <<runs, tries>>
  BY DEF Collect, Undeployed
<1>3. already \subseteq left \cap runs /\ \A h \in left \ already : tries[h] = attempt + 1
  BY <1>2 DEF IInv, Shared
<1>4. Sorted'
  BY <1>1, <1>2, <1>3 DEF Sorted
<1> QED
  BY <1>1, <1>2, <1>3, <1>4 DEF Shared, Polled, Finished

LEMMA InvStep ==
  ASSUME IInv, [Next]_vars
  PROVE  IInv'
<1>1. TypeOK' /\ AttemptLeft'
  BY TypeStep DEF IInv
<1>2. ASSUME NEW f \in BOOLEAN, Call(f)
      PROVE  Shared' /\ Polled' /\ Sorted' /\ Finished'
  BY <1>2 DEF Call, Shared, Polled, Sorted, Finished
<1>3. ASSUME NEW answering \in SUBSET Hosts, NEW made \in SUBSET Groups,
             CheckFails(answering, made)
      PROVE  Shared' /\ Polled' /\ Sorted' /\ Finished'
  BY <1>3 DEF CheckFails, Shared, Polled, Sorted, Finished
<1>4. ASSUME Interrupted
      PROVE  Shared' /\ Polled' /\ Sorted' /\ Finished'
  BY <1>4 DEF Interrupted, Shared, Polled, Sorted, Finished
<1>5. ASSUME Return
      PROVE  Shared' /\ Polled' /\ Sorted' /\ Finished'
  <2>1. /\ pc = "check" /\ pc' = "done"
        /\ UNCHANGED <<left, got, attempt, runs, tries>>
    BY <1>5 DEF Return, loop
  <2>2. left = {} \/ attempt = MAX_DEPLOY
    BY <1>5, DeployAssumption DEF Return, More, IInv, TypeOK
  <2> QED
    BY <2>1, <2>2 DEF IInv, Shared, Polled, Sorted, Finished
<1>6. ASSUME UNCHANGED vars
      PROVE  Shared' /\ Polled' /\ Sorted' /\ Finished'
  <2>1. /\ UNCHANGED <<pc, left, got, attempt, already, dep, todo, terminated,
                       okSeen, koSeen, runs, tries>>
    BY <1>6 DEF vars, loop, poll
  <2>2. Shared'
    BY <2>1 DEF IInv, Shared, Active, NodesOf
  <2>3. Polled'
    BY <2>1 DEF IInv, Polled, CountedSet, Active, OkOf, KoOf
  <2> QED
    BY <2>1, <2>2, <2>3 DEF IInv, Sorted, Finished
<1> QED
  BY <1>1, <1>2, <1>3, <1>4, <1>5, <1>6, CheckInv, EndsInv, IterateInv,
     RefreshInv, CollectInv
     DEF IInv, Next, Client, Kadeploy, Trouble

LEMMA Invariant == Spec => []IInv
<1>1. IInv /\ [Next]_vars => IInv'
  BY InvStep
<1> QED
  BY InitInv, <1>1, PTL DEF Spec

-----------------------------------------------------------------------------
(* Theorems *)

\* Type correctness of G5kDeploy: deploy_with_retries makes at most MAX_DEPLOY
\* attempts.
THEOREM TypeCorrect == Spec => []TypeOK
<1>1. IInv => TypeOK
  BY DEF IInv
<1> QED
  BY Invariant, <1>1, PTL

\* The hosts G5k.deploy hands over run the environment, and none was given up.
THEOREM DeployedIsDeployed == Spec => []DeployedRuns
<1>1. IInv => DeployedRuns
  BY DEF IInv, Sorted, DeployedRuns
<1> QED
  BY Invariant, <1>1, PTL

\* Whatever the verdicts, a host is given up after MAX_DEPLOY deployments.
THEOREM NoEarlySurrender == Spec => []GivenUpLate
<1>1. IInv => GivenUpLate
  BY DEF IInv, Sorted, Finished, GivenUpLate
<1> QED
  BY Invariant, <1>1, PTL

\* However the ends of the deployments interleave with the requests of
\* grid_deploy, an attempt returns each of its hosts in one of the two lists.
THEOREM EveryVerdictCounts == Spec => AttemptLosesNone
<1>1. IInv /\ [Next]_vars => (pc = "poll" /\ pc' = "check" => got' \cup left' = left)
  <2> SUFFICES ASSUME IInv, [Next]_vars, pc = "poll", pc' = "check"
               PROVE  got' \cup left' = left
    OBVIOUS
  <2>1. Collect
    BY DEF Next, Client, Kadeploy, Trouble, Call, Check, CheckFails, Interrupted,
       Terminate, Fail, Iterate, Refresh, Return, vars
  <2> QED
    BY <2>1, CollectInv
<1> QED
  BY Invariant, <1>1, PTL DEF Spec, AttemptLosesNone

\* An attempt leaves the hosts alone that the previous one found or made
\* deployed.
THEOREM NoSecondDeployment == Spec => OnlyFailuresRetried
<1>1. IInv /\ [Next]_vars => (pc = "check" => \A h \in got : tries'[h] = tries[h])
  <2> SUFFICES ASSUME IInv, [Next]_vars, pc = "check", NEW h \in got
               PROVE  tries'[h] = tries[h]
    OBVIOUS
  <2>1. h \in Hosts /\ h \notin left /\ GroupOf[h] \in Groups
    BY DeployAssumption DEF IInv, TypeOK, Sorted
  <2>2. ASSUME NEW found, NEW made \in SUBSET Groups, Create(found, made)
        PROVE  tries'[h] = tries[h]
    BY <2>1, <2>2 DEF Create, NodesOf, IInv, TypeOK
  <2>3. CASE UNCHANGED tries
    BY <2>3
  <2> QED
    BY <2>2, <2>3 DEF Next, Client, Kadeploy, Trouble, Call, Check, CheckFails,
       Interrupted, Terminate, Fail, Iterate, Refresh, Collect, Return, vars
<1> QED
  BY Invariant, <1>1, PTL DEF Spec, OnlyFailuresRetried
=============================================================================
