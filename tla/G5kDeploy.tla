------------------------------ MODULE G5kDeploy ------------------------------
(***************************************************************************)
(* enoslib.infra.enos_g5k: deploying an environment on the hosts of a job. *)
(* A call of G5k.init deploys in at most three attempts.  An attempt first *)
(* looks for the hosts that run the environment already, then creates one  *)
(* deployment per site and primary network, and polls their status until   *)
(* all have ended.  Deployments end at any time and in any order, each     *)
(* with its own verdicts, also between two requests of one iteration.      *)
(* The hosts belong to a running job all along (see Providers).            *)
(***************************************************************************)
EXTENDS Integers, FiniteSets

CONSTANTS
  Hosts,      \* the concrete hosts of the job
  Groups,     \* the (site, primary network) pairs
  GroupOf,    \* the one of each host
  MAX_DEPLOY, \* 3 in the code
  MaxCalls    \* bound of the exploration

ASSUME DeployAssumption ==
  /\ IsFiniteSet(Groups)
  /\ GroupOf \in [Hosts -> Groups]
  /\ MAX_DEPLOY \in Nat \ {0}
  /\ MaxCalls \in Nat

VARIABLES
  force,      \* provider_conf.force_deploy
  pc,         \* "idle", "check", "poll", "done" or "raised"
  left,       \* deploy_with_retries: undeployed_hosts
  got,        \* deploy_with_retries: deployed_hosts
  attempt,    \* deploy_with_retries: attempt
  already,    \* check_deployments: already_deployed
  dep,        \* the deployments of the attempt, as the API knows them
  todo,       \* grid_deploy: deployments this iteration has still to visit
  terminated, \* grid_deploy: the loop counter
  okSeen,     \* grid_deploy: deployed_fqdns
  koSeen,     \* grid_deploy: undeployed_fqdns
  runs,       \* hosts that run the environment, whoever knows it
  tries,      \* number of deployments of each host in this call
  calls

loop == <<left, got, attempt>>
poll == <<todo, terminated, okSeen, koSeen>>
vars == <<force, pc, loop, already, dep, poll, runs, tries, calls>>

Ended == {"terminated", "error"}
NoDeployment == [nodes |-> {}, st |-> "none", ok |-> {}]
Deployments ==
  [nodes : SUBSET Hosts, st : Ended \cup {"none", "processing"}, ok : SUBSET Hosts]

Active == {g \in Groups : dep[g].st # "none"}

-----------------------------------------------------------------------------

Init ==
  /\ force \in BOOLEAN
  /\ pc = "idle"
  /\ left = {}
  /\ got = {}
  /\ attempt = 0
  /\ already = {}
  /\ dep = [g \in Groups |-> NoDeployment]
  /\ todo = {}
  /\ terminated = 0
  /\ okSeen = {}
  /\ koSeen = {}
  /\ runs \in SUBSET Hosts
  /\ tries = [h \in Hosts |-> 0]
  /\ calls = 0

\* G5k.init: the argument stays in the configuration; launch then reaches
\* deploy_with_retries.  Deployments that an interrupted call left behind are
\* taken to have ended.
Call(f) ==
  /\ pc \notin {"check", "poll"}
  /\ \A g \in Groups : dep[g].st # "processing"
  /\ calls < MaxCalls
  /\ calls' = calls + 1
  /\ force' = (force \/ f)
  /\ left' = Hosts
  /\ got' = {}
  /\ attempt' = 0
  /\ tries' = [h \in Hosts |-> 0]
  /\ dep' = [g \in Groups |-> NoDeployment]
  /\ already' = {}
  /\ pc' = "check"
  /\ UNCHANGED <<poll, runs>>

\* Mutant of More: one attempt too many.
OneMore == left # {} /\ attempt <= MAX_DEPLOY

\* while attempt < MAX_DEPLOY and undeployed_hosts
More == left # {} /\ attempt < MAX_DEPLOY

\* _check_deployed_nodes, unless forced: the hosts that run the environment
\* and answer.  One that is still rebooting does not.
Found(answering) == IF force THEN {} ELSE left \cap runs \cap answering

\* The hosts a group deploys: nodes of the configurations.
NodesOf(g, found) == {h \in left \ found : GroupOf[h] = g}

\* The deployments of the groups in made are created.
Create(found, made) ==
  LET nodes(g) == IF g \in made THEN NodesOf(g, found) ELSE {} IN
  /\ already' = found
  /\ dep' = [g \in Groups |->
               IF nodes(g) = {} THEN NoDeployment
               ELSE [nodes |-> nodes(g), st |-> "processing", ok |-> {}]]
  /\ tries' = [h \in Hosts |-> tries[h] + IF h \in nodes(GroupOf[h]) THEN 1 ELSE 0]
  /\ runs' = {h \in runs : h \notin nodes(GroupOf[h])}
  /\ todo' = {}
  /\ terminated' = 0
  /\ okSeen' = {}
  /\ koSeen' = {}

\* An attempt starts: check_deployments, then all deployments are created.
Check(answering) ==
  /\ pc = "check"
  /\ More
  /\ Create(Found(answering), Groups)
  /\ pc' = "poll"
  /\ UNCHANGED <<force, loop, calls>>

\* A site refuses to create its deployment; some exist already.
CheckFails(answering, made) ==
  /\ pc = "check"
  /\ More
  /\ \E g \in Groups \ made : NodesOf(g, Found(answering)) # {}
  /\ Create(Found(answering), made)
  /\ pc' = "raised"
  /\ UNCHANGED <<force, loop, calls>>

\* A request fails, or the process is killed: the deployments go on.
Interrupted ==
  /\ pc = "poll"
  /\ pc' = "raised"
  /\ UNCHANGED <<force, loop, already, dep, poll, runs, tries, calls>>

-----------------------------------------------------------------------------
(* Kadeploy *)

\* A deployment ends with a verdict per node ...
Terminate(g, ok) ==
  /\ dep[g].st = "processing"
  /\ ok \subseteq dep[g].nodes
  /\ dep' = [dep EXCEPT ![g] = [@ EXCEPT !.st = "terminated", !.ok = ok]]
  /\ runs' = runs \cup ok
  /\ UNCHANGED <<force, pc, loop, already, poll, tries, calls>>

\* ... or fails as a whole, even if some nodes were deployed.
Fail(g, ok) ==
  /\ dep[g].st = "processing"
  /\ ok \subseteq dep[g].nodes
  /\ dep' = [dep EXCEPT ![g] = [@ EXCEPT !.st = "error"]]
  /\ runs' = runs \cup ok
  /\ UNCHANGED <<force, pc, loop, already, poll, tries, calls>>

-----------------------------------------------------------------------------
(* grid_deploy *)

AllEnded == terminated = Cardinality(Active)

\* Mutant of Restarted: the previous iteration is not reset.
NotReset == terminated

\* terminated at the beginning of an iteration.
Restarted == 0

\* while terminated != len(deployments): reset and visit them all.
Iterate ==
  /\ pc = "poll"
  /\ todo = {}
  /\ ~AllEnded
  /\ todo' = Active
  /\ terminated' = Restarted
  /\ okSeen' = {}
  /\ koSeen' = {}
  /\ UNCHANGED <<force, pc, loop, already, dep, runs, tries, calls>>

\* Mutant of OkOf: the verdicts of a terminated deployment are not looked at.
EveryNode(g) == IF dep[g].st = "terminated" THEN dep[g].nodes ELSE {}

\* _deploy and _undeploy of a deployment.
OkOf(g) == IF dep[g].st = "terminated" THEN dep[g].ok ELSE {}
KoOf(g) ==
  CASE dep[g].st = "terminated" -> dep[g].nodes \ dep[g].ok
    [] dep[g].st = "error" -> dep[g].nodes
    [] OTHER -> {}

\* Mutant of Counted: a deployment in error is never counted.
Successful(g) == dep[g].st = "terminated"

Counted(g) == dep[g].st \in Ended

\* One turn of the for loop: the status is refreshed and counted.
Refresh(g) ==
  /\ pc = "poll"
  /\ g \in todo
  /\ todo' = todo \ {g}
  /\ terminated' = terminated + IF Counted(g) THEN 1 ELSE 0
  /\ okSeen' = okSeen \cup OkOf(g)
  /\ koSeen' = koSeen \cup KoOf(g)
  /\ UNCHANGED <<force, pc, loop, already, dep, runs, tries, calls>>

-----------------------------------------------------------------------------
(* deploy_with_retries *)

\* Mutant of Undeployed: after a failure every host is deployed again.
EveryHost == IF koSeen = {} THEN {} ELSE Hosts

Undeployed == koSeen

\* _deploy_attempt returns; both lists are replaced.
Collect ==
  /\ pc = "poll"
  /\ todo = {}
  /\ AllEnded
  /\ got' = okSeen \cup already
  /\ left' = Undeployed
  /\ attempt' = attempt + 1
  /\ dep' = [g \in Groups |-> NoDeployment]
  /\ terminated' = 0
  /\ okSeen' = {}
  /\ koSeen' = {}
  /\ already' = {}
  /\ pc' = "check"
  /\ UNCHANGED <<force, todo, runs, tries, calls>>

\* self.deployed, self.undeployed = deploy_with_retries(...)
Return ==
  /\ pc = "check"
  /\ ~More
  /\ pc' = "done"
  /\ UNCHANGED <<force, loop, already, dep, poll, runs, tries, calls>>

-----------------------------------------------------------------------------

Client ==
  \/ \E answering \in SUBSET Hosts : Check(answering)
  \/ Iterate
  \/ \E g \in Groups : Refresh(g)
  \/ Collect
  \/ Return

Kadeploy(g) == \E ok \in SUBSET Hosts : Terminate(g, ok) \/ Fail(g, ok)

Trouble ==
  \/ \E answering \in SUBSET Hosts, made \in SUBSET Groups :
       CheckFails(answering, made)
  \/ Interrupted

Next ==
  \/ \E f \in BOOLEAN : Call(f)
  \/ Client
  \/ \E g \in Groups : Kadeploy(g)
  \/ Trouble

\* The client's thread runs, and kadeploy ends every deployment.
Fairness == WF_vars(Client) /\ \A g \in Groups : WF_vars(Kadeploy(g))

Spec == Init /\ [][Next]_vars
FairSpec == Spec /\ Fairness

-----------------------------------------------------------------------------
(* Properties *)

\* Types; the attempts never exceed MAX_DEPLOY.
TypeOK ==
  /\ force \in BOOLEAN
  /\ pc \in {"idle", "check", "poll", "done", "raised"}
  /\ left \subseteq Hosts
  /\ got \subseteq Hosts
  /\ attempt \in 0 .. MAX_DEPLOY
  /\ already \subseteq Hosts
  /\ dep \in [Groups -> Deployments]
  /\ todo \subseteq Groups
  /\ terminated \in Nat
  /\ okSeen \subseteq Hosts
  /\ koSeen \subseteq Hosts
  /\ runs \subseteq Hosts
  /\ tries \in [Hosts -> Nat]
  /\ calls \in Nat

\* What init hands over as deployed does run the environment, and no host is
\* in both lists: no verdict is mixed up, or taken from an earlier iteration of
\* the poll.
DeployedRuns ==
  pc = "done" => got \subseteq runs /\ got \cap left = {}

\* "up to three attempts": a host is given up only after all of them.
GivenUpLate ==
  pc = "done" => \A h \in left : tries[h] = MAX_DEPLOY

\* An attempt ends with a verdict on every host it was made for, although the
\* deployments end between the requests that poll them.
AttemptLosesNone ==
  [][pc = "poll" /\ pc' = "check" => got' \cup left' = left]_vars

\* "only on nodes that are not deployed yet": a host an attempt found or made
\* deployed is not deployed once more by the next one.
OnlyFailuresRetried ==
  [][pc = "check" => \A h \in got : tries'[h] = tries[h]]_vars

\* deploy_with_retries returns as soon as kadeploy is done with its deployments.
DeployEnds == pc = "check" ~> pc \in {"done", "raised"}

\* deployed and undeployed "hold the concrete hosts deployed/undeployed" after
\* the deployment: together, all hosts of the job.
AllAccounted == pc = "done" => got \cup left = Hosts
=============================================================================
