------------------------------- MODULE Iotlab -------------------------------
(***************************************************************************)
(* The FIT IoT-LAB provider (enoslib/infra/enos_iotlab): processes of one  *)
(* user with one configuration look for a slot, create monitoring profiles *)
(* and reserve boards by the name of an experiment, hand the boards over   *)
(* and destroy all. The testbed starts and ends experiments in its time.   *)
(***************************************************************************)
EXTENDS Naturals, FiniteSets, Sequences, SequencesExt, FiniteSetsExt

CONSTANTS
    Boards, SiteOf, ArchiOf,  \* the boards of the testbed
    SshBoards,                \* those that run Linux, handed over as hosts
    IotConfs,                 \* configurations: groups of machines and profiles
    Worlds,                   \* states of the testbed: dead boards, experiments of others
    LastDate, IotWalltime,    \* dates that are looked at; how long for
    Users,                    \* the processes
    MaxExperiments,           \* bound: experiments submitted
    MaxIotCalls               \* bound: calls

\* A group by hostnames is of one site and architecture ("machines share the same
\* architecture within a group", iotlab_api.py:556), and names a board once, as all groups do.
NamedOnce(machines) ==
    \A g, h \in DOMAIN machines :
       /\ machines[g].hostname # <<>>
       /\ \A k \in DOMAIN machines[g].hostname : \A l \in DOMAIN machines[h].hostname :
             machines[g].hostname[k] = machines[h].hostname[l] => g = h /\ k = l
       /\ \A k, l \in DOMAIN machines[g].hostname :
             LET one == machines[g].hostname[k]
                 two == machines[g].hostname[l]
             IN  SiteOf[one] = SiteOf[two] /\ ArchiOf[one] = ArchiOf[two]

ASSUME IotlabAssumption ==
    /\ IsFiniteSet(Boards) /\ SshBoards \subseteq Boards
    /\ SiteOf \in [Boards -> STRING] /\ ArchiOf \in [Boards -> STRING]
    /\ \A w \in Worlds : w.dead \subseteq Boards /\ \A e \in w.others :
          e.nodes \subseteq Boards /\ e.from \in Nat /\ e.to \in Nat /\ e.from < e.to
    /\ \A conf \in IotConfs :
          /\ conf.sort \in {"board", "phys"} /\ conf.machines # <<>>
          /\ Len(conf.machines) \in Nat /\ DOMAIN conf.machines = 1..Len(conf.machines)
          /\ conf.sort = "board" => \A g \in DOMAIN conf.machines : conf.machines[g].number \in Nat
          /\ conf.sort = "phys" =>
                /\ \A g \in DOMAIN conf.machines : conf.machines[g].hostname \in Seq(Boards)
                /\ NamedOnce(conf.machines)
    /\ {LastDate, IotWalltime, MaxExperiments, MaxIotCalls} \subseteq Nat /\ IotWalltime # 0

VARIABLES
    iotConf,
    world,        \* what others do on the testbed
    profiles,     \* the profiles of the configuration that exist on the testbed
    experiments,  \* the experiments of that name: state, nodes and those flashed
    proc,         \* the processes: the step that comes next and what they remember
    answer,       \* the last answer of test_slot, and the world at that time
    iotCalls

iotVars == <<iotConf, world, profiles, experiments, proc, answer, iotCalls>>

Groupings == DOMAIN iotConf.machines
NoAnswer == [ok |-> FALSE, at |-> 0, seen |-> {}]
NewProcess == [at |-> "idle", job |-> 0, boards |-> <<>>, known |-> {}, todo |-> {},
               status |-> {}, inits |-> 0, alone |-> FALSE]

IotTypeOK ==
    /\ iotConf \in IotConfs /\ world \in Worlds
    /\ profiles \subseteq iotConf.profiles
    /\ \A i \in DOMAIN experiments :
          /\ experiments[i].state \in {"waiting", "running", "over"}
          /\ experiments[i].flashed \subseteq experiments[i].nodes
    /\ \A u \in Users : proc[u].job \in 0..Len(experiments) /\ proc[u].known \subseteq iotConf.profiles
    /\ iotCalls \in 0..MaxIotCalls

IotInit ==
    /\ iotConf \in IotConfs /\ world \in Worlds
    /\ profiles \in {{}, iotConf.profiles}
    /\ experiments = <<>>
    /\ proc = [u \in Users |-> NewProcess]
    /\ answer = NoAnswer
    /\ iotCalls = 0

ActiveJobs == {i \in DOMAIN experiments : experiments[i].state # "over"}
Group(g) == iotConf.machines[g]
Of(g, b) == SiteOf[b] = Group(g).site /\ ArchiOf[b] = Group(g).archi

\* The sets of boards, one for each group, that are what is asked for.
Shares(free) ==
    {s \in [Groupings -> SUBSET free] :
        /\ \A g \in Groupings :
              IF iotConf.sort = "phys" THEN s[g] = ToSet(Group(g).hostname)
              ELSE Cardinality(s[g]) = Group(g).number /\ \A b \in s[g] : Of(g, b)
        /\ \A g, h \in Groupings : g # h => s[g] \cap s[h] = {}}

-----------------------------------------------------------------------------
(* test_slot *)

\* get_candidates: the boards that are Alive or Busy.
CandidatesOf(w) == Boards \ w.dead

\* Mutant of FreeNodes: an experiment that ends after the slot is forgotten.
FreeUnlessWithin(w, at) ==
    CandidatesOf(w) \ UNION {e.nodes : e \in {e \in w.others : at <= e.from /\ e.to <= at + IotWalltime}}

\* get_free_nodes
FreeNodes(w, at) ==
    CandidatesOf(w) \ UNION {e.nodes : e \in {e \in w.others : ~(at >= e.to \/ at + IotWalltime <= e.from)}}

\* machines_required: the boards that are required, by site and architecture. Those of a
\* group by hostnames are counted for the site and architecture of the first.
SiteAndArchi(g) ==
    IF iotConf.sort = "phys" THEN <<SiteOf[Group(g).hostname[1]], ArchiOf[Group(g).hostname[1]]>>
    ELSE <<Group(g).site, Group(g).archi>>
SizeOf(g) == IF iotConf.sort = "phys" THEN Len(Group(g).hostname) ELSE Group(g).number
RequiredOf(kind) == UNION {{g} \X (1..SizeOf(g)) : g \in {g \in Groupings : SiteAndArchi(g) = kind}}
OfKind(nodes, kind) == {b \in nodes : <<SiteOf[b], ArchiOf[b]>> = kind}

SlotIsOk(w, at) ==
    LET free == FreeNodes(w, at)
    IN  /\ iotConf.sort = "phys" => \A g \in Groupings : ToSet(Group(g).hostname) \subseteq free
        /\ \A kind \in {SiteAndArchi(g) : g \in Groupings} :
              Cardinality(RequiredOf(kind)) <= Cardinality(OfKind(free, kind))

\* The status of the testbed is read once by a provider, for all the dates that
\* are looked at. Bound: before anything is submitted.
TestSlot(u, at) ==
    /\ \A v \in Users : proc[v].at = "idle"
    /\ experiments = <<>> /\ iotCalls < MaxIotCalls
    /\ LET status == IF proc[u].status = {} THEN {world} ELSE proc[u].status
       IN  /\ proc' = [proc EXCEPT ![u].status = status]
           /\ \E w \in status : answer' = [ok |-> SlotIsOk(w, at), at |-> at, seen |-> status]
    /\ iotCalls' = iotCalls + 1
    /\ UNCHANGED <<iotConf, world, profiles, experiments>>

-----------------------------------------------------------------------------
(* init and async_init *)

To(u, at) == proc' = [proc EXCEPT ![u].at = at]
Others(u) == [v \in Users |-> IF v = u THEN proc[u] ELSE [proc[v] EXCEPT !.alone = FALSE]]

BeginInit(u) ==
    /\ proc[u].at \in {"idle", "ready", "destroyed"} /\ iotCalls < MaxIotCalls
    /\ proc' = [Others(u) EXCEPT ![u].at = "profiles", ![u].inits = @ + 1,
                                 ![u].todo = {p \in iotConf.profiles : p \notin iotConf.empty}]
    /\ answer' = NoAnswer
    /\ iotCalls' = iotCalls + 1
    /\ UNCHANGED <<iotConf, world, profiles, experiments>>

\* create_profile: one that exists is left alone, but remembered.
CreateProfile(u) ==
    /\ proc[u].at = "profiles"
    /\ IF proc[u].todo = {} THEN To(u, "reserve") /\ UNCHANGED profiles
       ELSE \E p \in proc[u].todo :
              /\ profiles' = profiles \cup {p}
              /\ proc' = [proc EXCEPT ![u].known = @ \cup {p}, ![u].todo = @ \ {p}]
    /\ UNCHANGED <<iotConf, world, experiments, answer, iotCalls>>

\* get_or_create_resources: an active experiment of that name is reused.
Lookup(u) ==
    /\ proc[u].at = "reserve"
    /\ IF ActiveJobs = {} THEN proc' = [proc EXCEPT ![u].at = "submit", ![u].job = 0]
       ELSE \E i \in ActiveJobs : proc' = [proc EXCEPT ![u].at = "wait", ![u].job = i]
    /\ UNCHANGED <<iotConf, world, profiles, experiments, answer, iotCalls>>

\* It may be refused, or accepted without an answer; async_init ends here.
Submit(u, async) ==
    /\ proc[u].at = "submit" /\ Len(experiments) < MaxExperiments
    /\ \/ /\ To(u, "raised") /\ UNCHANGED experiments
       \/ /\ experiments' = Append(experiments, [state |-> "waiting", nodes |-> {}, flashed |-> {}])
          /\ \/ To(u, "raised")
             \/ proc' = [proc EXCEPT ![u].at = IF async THEN "idle" ELSE "wait",
                                     ![u].job = Len(experiments) + 1]
    /\ UNCHANGED <<iotConf, world, profiles, answer, iotCalls>>

\* Mutant of PoolOf: the pools are by site only.
BySite(b) == SiteOf[b]

\* The pool a board is in, and the one that a group takes its boards from.
PoolOf(b) == <<SiteOf[b], ArchiOf[b]>>
Pool(nodes, g) == {b \in nodes : \E c \in Boards : Of(g, c) /\ PoolOf(b) = PoolOf(c)}

\* _populate_from_board_nodes and _populate_from_phys_nodes: each group in turn
\* picks boards, which are then not in the pools any more, as many as there are;
\* a hostname that is not there raises. In the end all the boards must have been picked.
Pick(left, g) ==
    IF iotConf.sort = "phys"
    THEN (IF ToSet(Group(g).hostname) \subseteq left THEN {ToSet(Group(g).hostname)} ELSE {})
    ELSE LET pool == Pool(left, g)
             n == IF Group(g).number < Cardinality(pool) THEN Group(g).number ELSE Cardinality(pool)
         IN  kSubset(n, pool)

Picked(nodes) ==
    {s \in {[g \in Groupings |-> {b \in nodes : to[b] = g}] : to \in [nodes -> Groupings]} :
        \A g \in Groupings : s[g] \in Pick(nodes \ UNION {s[h] : h \in 1..(g - 1)}, g)}

\* wait_experiment, get_nodes, then the boards are shared out. They are added to those
\* that the provider already has.
Populate(u) ==
    /\ proc[u].at = "wait"
    /\ LET job == experiments[proc[u].job]
           shared == Picked(job.nodes)
       IN  \/ job.state = "over" /\ To(u, "raised")
           \/ /\ job.state = "running"
              /\ IF shared = {} THEN To(u, "raised")
                 ELSE \E s \in shared :
                        proc' = [proc EXCEPT ![u].at = "flash", ![u].boards = @ \o s]
    /\ UNCHANGED <<iotConf, world, profiles, experiments, answer, iotCalls>>

\* The group of the i-th set of boards of a process.
GroupAt(i) == Group(((i - 1) % Len(iotConf.machines)) + 1)

Sensors(u) ==
    UNION {proc[u].boards[i] \ SshBoards : i \in {i \in DOMAIN proc[u].boards : GroupAt(i).image # "none"}}

\* reset and wait_ssh. Flashing boards that are not of the experiment fails; a
\* host that does not boot is only logged.
Flash(u) ==
    /\ proc[u].at = "flash"
    /\ LET i == proc[u].job IN
       IF experiments[i].state = "running" /\ Sensors(u) \subseteq experiments[i].nodes
       THEN experiments' = [experiments EXCEPT ![i].flashed = @ \cup Sensors(u)] /\ To(u, "ready")
       ELSE (IF Sensors(u) = {} THEN To(u, "ready") ELSE To(u, "raised")) /\ UNCHANGED experiments
    /\ UNCHANGED <<iotConf, world, profiles, answer, iotCalls>>

-----------------------------------------------------------------------------
(* destroy *)

InitSteps == {"profiles", "reserve", "submit", "wait", "flash"}

BeginDestroy(u) ==
    /\ proc[u].at \in {"idle", "ready", "raised", "destroyed"} /\ iotCalls < MaxIotCalls
    /\ proc' = [proc EXCEPT ![u].at = "stop",
                   ![u].alone = Cardinality(ActiveJobs) <= 1 /\ \A v \in Users : proc[v].at \notin InitSteps]
    /\ iotCalls' = iotCalls + 1
    /\ UNCHANGED <<iotConf, world, profiles, experiments, answer>>

\* Mutant of ReloadedProfiles: those that this process has created or seen.
RememberedProfiles(u) == proc[u].known

\* reload_profiles: those of the configuration that exist.
ReloadedProfiles(u) == profiles

\* reload_resources, stop_experiment; one that is over already is ignored.
StopExperiment(u) ==
    /\ proc[u].at = "stop"
    /\ experiments' = IF ActiveJobs = {} THEN experiments
                      ELSE [experiments EXCEPT ![Min(ActiveJobs)].state = "over"]
    /\ proc' = [proc EXCEPT ![u].at = "delete", ![u].todo = ReloadedProfiles(u)]
    /\ UNCHANGED <<iotConf, world, profiles, answer, iotCalls>>

\* del_profiles
DeleteProfile(u) ==
    /\ proc[u].at = "delete"
    /\ \E p \in proc[u].todo :
          /\ profiles' = profiles \ {p}
          /\ proc' = [proc EXCEPT ![u].todo = @ \ {p}]
    /\ UNCHANGED <<iotConf, world, experiments, answer, iotCalls>>

\* A destroy that waits does so until no experiment of that name is active.
Destroyed(u, wait) ==
    /\ proc[u].at = "delete" /\ proc[u].todo = {}
    /\ wait => ActiveJobs = {}
    /\ proc' = [proc EXCEPT ![u].at = "destroyed", ![u].known = {}]
    /\ UNCHANGED <<iotConf, world, profiles, experiments, answer, iotCalls>>

-----------------------------------------------------------------------------
(* The testbed, and processes that are killed *)

TakenBoards == UNION {experiments[i].nodes : i \in {i \in DOMAIN experiments : experiments[i].state = "running"}}

ExperimentStarts(i) ==
    /\ experiments[i].state = "waiting"
    /\ \E s \in Shares(CandidatesOf(world) \ TakenBoards) :
          experiments' = [experiments EXCEPT ![i].state = "running", ![i].nodes = UNION {s[g] : g \in Groupings}]
    /\ UNCHANGED <<iotConf, world, profiles, proc, answer, iotCalls>>

ExperimentEnds(i) ==
    /\ experiments[i].state # "over"
    /\ experiments' = [experiments EXCEPT ![i].state = "over"]
    /\ UNCHANGED <<iotConf, world, profiles, proc, answer, iotCalls>>

WorldChanges ==
    /\ \E u \in Users : proc[u].status = {world}
    /\ world' \in Worlds \ {world}
    /\ UNCHANGED <<iotConf, profiles, experiments, proc, answer, iotCalls>>

Killed(u) ==
    /\ proc[u] # NewProcess
    /\ proc' = [proc EXCEPT ![u] = NewProcess]
    /\ UNCHANGED <<iotConf, world, profiles, experiments, answer, iotCalls>>

IotNext ==
    \/ \E u \in Users :
          \/ BeginInit(u) \/ CreateProfile(u) \/ Lookup(u) \/ Populate(u) \/ Flash(u)
          \/ BeginDestroy(u) \/ StopExperiment(u) \/ DeleteProfile(u) \/ Killed(u)
          \/ \E async \in BOOLEAN : Submit(u, async)
          \/ \E wait \in BOOLEAN : Destroyed(u, wait)
          \/ \E at \in 0..LastDate : TestSlot(u, at)
    \/ \E i \in DOMAIN experiments : ExperimentStarts(i) \/ ExperimentEnds(i)
    \/ WorldChanges

IotSpec == IotInit /\ [][IotNext]_iotVars

-----------------------------------------------------------------------------
(* Properties *)

\* The first init of a provider that returns hands over each board of its
\* experiment once, to a group that asked for its kind and in the number it
\* asked for, with the images on its sensors, whoever submitted the experiment.
\* (A provider that is initialised again after its experiment ended still hands
\* over the boards of the first.)
IotReadyAsAsked ==
    \A u \in Users : proc[u].at = "ready" /\ proc[u].inits = 1 /\ experiments[proc[u].job].state = "running" =>
       /\ [g \in Groupings |-> proc[u].boards[g]] \in Shares(experiments[proc[u].job].nodes)
       /\ UNION ToSet(proc[u].boards) = experiments[proc[u].job].nodes
       /\ Sensors(u) \subseteq experiments[proc[u].job].flashed

\* test_slot accepts exactly the dates at which the testbed, as it was when its
\* status was read, could run the experiment.
IotSlotExact ==
    \A w \in answer.seen :
       LET busy == UNION {e.nodes : e \in {e \in w.others :
                       \E t \in answer.at..(answer.at + IotWalltime - 1) : e.from <= t /\ t < e.to}}
       IN  answer.ok = (Shares((Boards \ w.dead) \ busy) # {})

\* A destroy that returns leaves neither the experiment nor the profiles of the
\* configuration, though they were made by a process that was killed or failed,
\* unless another process makes them or two experiments of the name had been
\* submitted.
IotReleased ==
    \A u \in Users : proc[u].at = "destroyed" /\ proc[u].alone => ActiveJobs = {} /\ profiles = {}
=============================================================================
