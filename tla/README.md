# A TLA+ development of EnOSlib

EnOSlib gets machines and networks from testbeds (Grid'5000, FIT IoT-LAB,
Chameleon, OpenStack, FABRIC, Vagrant, ...), and then runs experiments on them
with Ansible.  These modules model the parts of the library whose correctness
depends on the order of things: what testbeds answer and when, what is retried,
what is left behind by a process that dies, which machines a call of Ansible has
really reached, what a second use of an object does.  TLC checks them on small
instances and TLAPS proves, for all instances, the central facts of reservation and
deployment, of experiments, of services, and of what nearly every testbed hands over.

Everything refers to the source tree under `src/enoslib/`.

## 1. Inventory

### Reservation of resources (`infra/`)

| component | state | operations | module |
|---|---|---|---|
| `Providers` (`infra/providers.py`) | the list of providers (configured walltime and date, deep-copied in each round), `start_time`, `time_window` | `init`, `async_init`, `destroy`, `find_slot`, `find_slot_and_start`, `start_provider_within_bounds` | `Providers`, `BoundedReservation` |
| jobs of `G5k` (`enos_g5k/provider.py`, `driver.py`, `g5k_api_utils.py`) | copy of the configuration and `_jobs` in the driver; a temporary `Providers` of one `G5kBase` per site when there are several sites | `reserve`, `async_init`, `destroy`, `wait` | `G5kJobs` |
| deployment (`enos_g5k/provider.py`, `g5k_api_utils.py`) | remaining hosts, attempts, deployments in progress | `check_deployments`, `deploy_with_retries`, `grid_deploy` | `G5kDeploy` |
| resources of `G5k` (`enos_g5k/configuration.py`, `concrete.py`, `objects.py`, `provider.py`) | configuration, what jobs hold, VLAN of each card, firewall | `finalize`, `test_slot`, `_concretize_nodes`, `_concretize_networks`, `set_nodes_vlan`, `launch`, `dhcp_networks`, `grant_root_access`, `firewall` | `G5kResources` |
| `Iotlab` (`enos_iotlab/`) | configuration, client with its job, boards, sensors | `init`, `async_init`, `test_slot`, profiles, flashing, `destroy`; serial logs and sniffers | `Iotlab`, `IotlabStreams` |
| `VMonG5k`, `Distem` | a `G5k` object built from the configuration; what runs on the machines | distribution of machines and MAC addresses, start, second calls | `VMonG5k`, `Distem` |
| `Openstack`, `ChameleonBareMetal`, `ChameleonEdge` | none but the configuration; everything is found again by name | network, router, servers, floating IPs; leases, ports, containers | `Openstack`, `Chameleon` |
| `Fabric` | the slice and its nodes | create, find or replace a slice, storage, networks, addresses | `Fabric` |
| `Enos_vagrant` | a Vagrantfile in the directory | `init`, `destroy` | `Vagrant` |
| free addresses (`objects.py`, `enos_g5k/objects.py`) | generators | `free_ips`, `free_macs` | `Addresses` |

### Running experiments

| component | state | operations | module |
|---|---|---|---|
| `task.py` | the environment file of a directory, the symbolic link, `Environment` objects | `enostask`, `get_or_create_env`, `Environment.dump` | `Environment` |
| `config.py` | one global dictionary, files of results | `set_config`, `config_context` | `Config` |
| `collections.py`, `objects.py` | roles that share views, views that share hosts | `Roles`, `+`, `extend`, `sync_info` and its copy | `Resources` |
| Ansible layer (`api.py`) | machines, facts, keys, results | `run_command`, `actions`, `run_ansible`, `gather_facts`, `wait_for`, `sync_info`, `populate_keys`, `external_pip_deps` | `AnsibleLayer` |
| `registry/process.py`, the cgroups of `api.py` | processes of each host, and what is recorded of them | `build`, `lookup`, `refresh`, `kill`, `kill_incr`, `kill_async`, `kill_async_incr` | `Registry` |
| `service/planning` | ordered events, crontabs of the hosts | `add_event`, `check`, `deploy`, `status`, `destroy` | `Planning` |
| `service/emul` | constraints between groups, devices of hosts, tc on the machines | `add_constraints`, `deploy`, `validate`, `destroy` | `Emulation` |
| other services (docker, k3s, dask, locust, monitoring, dstat, tcpdump, skydive) | options, sessions, files, what is up | `deploy`, `backup`, `destroy`, blocks | `Services` |
| `service/kwollect` | a window | `start`, `stop`, `get_metrics`, `backup`, `available_metrics` | `Kwollect` |
| `docker.py` | none | `get_dockers`, `bind_dockers`, `get_hosts` | `DockerHosts` |

### How they interact

`Providers` calls `is_created`, `test_slot`, `offset_walltime`, `set_reservation`,
`async_init`, `init` and `destroy` of each provider.  A `G5k` object of several
sites makes a `Providers` of its own; `VMonG5k` and `Distem` build a `G5k`.  Every
testbed is reached by requests that are answered late, and its resources are
found again by a name.  What a provider returns is a `Roles` of `Host` objects;
`sync_info` fills them from facts, and services and emulation read them.  All that
runs on machines goes through `run_ansible`, and services find what they started by
the name of a session, a process or a container.

### What is hard

* Testbeds answer late.  Dates chosen a moment ago are in the past when they are
  submitted, statuses fetched once are out of date when they are used.
* Nothing is stored: jobs, servers and slices are found again by name.  What is
  being deleted is still listed; what was submitted and whose answer was lost is
  listed as well.  Processes are killed between any two requests.
* A call on several testbeds, sites or machines fails on one of them half-way.
* Polling loops rebuild their counters while what they count goes on.
* Objects keep copies (walltime of the driver, `_jobs`, `force_deploy`, views of
  roles, defaults of modules), and are used again.
* Names match more than they should: sessions by `grep`, processes by `pkill -f`.

`PROJECT.json` lists the hazards one by one, at the line where each one bites, with
the properties that are about it.

### What makes each part correct

* `Providers`: the interval is only narrowed from the left; a job ends within the
  slot; all or nothing; every call ends.
* Grid'5000 jobs: one job per site and name, `init` returns with all jobs or
  fails, `destroy` leaves none.
* deployment: a host handed over runs the environment; no verdict is lost; only
  failures are retried.
* resources of any testbed: `init` hands over what the configuration asks for,
  each thing once, after any failed or killed calls; `destroy` leaves nothing.
* environment and configuration: what a task saved is what the next one loads;
  a context leaves the configuration as it found it.
* Ansible layer: no failure of a host is dropped; a sync is all or nothing.
* registry and planning: what is recorded is what runs, after a refresh; a planning
  is followed, and leaves nothing.
* emulation: each pair sees the sum asked for, once; `destroy` undoes `deploy`.
* services and streams: what was recorded is saved, nothing is left running, and two
  instances that share nothing do not disturb each other.

## 2. Plan

Steps in order of importance; all are done but for what is marked as left.

1. `BoundedReservation` (abstract) and `Providers`.  *Done, with proofs.*
2. `G5kDeploy`.  *Done, with proofs.*
3. `G5kJobs`.  *Done, with proofs for one client; left are two clients that use
   one name, for which the code promises little.*
4. `Openstack`.  *Done, with proofs, and with the leases of Chameleon apart
   (`Chameleon`); left are two deployments in one project.*
5. Pure algorithms (nodes and networks of Grid'5000, slots, distribution of virtual
   machines, rules of the emulation, roles).  *Done, each in the module that uses
   it; their properties compare them with reference definitions
   (`SlotTestExact`, `IotSlotExact`, `GroupsAsAsked`, `EmulatedAsAsked`,
   `KwollectExact`).*
6. `Environment`, `Config`, `Resources`, `AnsibleLayer`.  *Done, with proofs, together
   in `MCExperiment` too.*
7. `Registry` and `Planning`.  *Done.*
8. Lifecycles of testbeds and services.  *Done; left are the disks and tunnels of
   Grid'5000, and the archives of IoT-LAB.*
9. Proofs of the modules of `parts`.  *Done: all its properties, types included, are
   theorems.  What is only model-checked is liveness.*

## 3. Modules

| module | models | kind |
|---|---|---|
| `BoundedReservation` | the promise of a call that reserves "between `start_time` and `start_time + time_window`" | abstract specification |
| `Providers` | `infra/providers.py` on the providers' side of the interface | specification, refines `BoundedReservation` |
| `G5kDeploy`, `G5kJobs` | deployment of a job's hosts, jobs of a `G5k` object | specifications |
| `Openstack` | `infra/enos_openstack/provider.py` | specification |
| `G5kResources`, `Iotlab`, `VMonG5k`, `Chameleon`, `Fabric`, `Distem`, `Vagrant`, `Addresses` | the other testbeds | specifications |
| `Environment`, `Config`, `Resources`, `AnsibleLayer` | what a client does with its machines | specifications |
| `Registry`, `Planning` (extends it), `Emulation`, `Services`, `Kwollect`, `IotlabStreams`, `DockerHosts` | services and helpers | specifications |
| `MCProviders`, `MCG5kDeploy`, `MCG5kJobs`, `MCOpenstack`, `MCPlanning` | instances | models |
| `MCExperiment`, `MCParts` | several components side by side, with their instances | models |
| `ProvidersProofs`, `G5kDeployProofs`, `G5kJobsProofs`, `OpenstackProofs`, `ExperimentProofs`, `PartsProofs`, `TestbedProofs`, `CloudProofs` (extends it) | theorems | proofs |

Operators marked `Mutant of` are not part of the model: each is the form that a
definition would have with a plausible mistake, and `PROJECT.json` says which
property it violates.

### Providers

One client calls `init` or `async_init`.  `conf` is the state of
`self.providers` and `work` that of the deep copy each round of `_reserve`
mutates; `conf` becomes `work` when a round succeeds.  `pc` is the place in the
code: *scan* (`is_created` of all), *search* (`find_slot`), *attempt*
(`offset_walltime` and the date in `start_provider_within_bounds`), *submit*
(`async_init` of one provider), *destroy* (`Providers.destroy`), *load* (the final
loop of `init`).  Every request to a testbed is a step of its own.  Walltimes and
dates are integers in seconds, and `offset_walltime` is its arithmetic, with the
failure of `dt.time` for a day or more and the whole minutes of IoT-LAB.
`test_slot` answers anything (`SlotBusy`, `SlotFound`): a scheduler's answer is
not bound to what it will accept.  A refusal carries any date of `Hints`.  Waiting
for nodes inside `provider.init` is not in this module; that a wait may fail
is (`LoadError`).

`BoundedReservation` only has the phase of the call, the interval and the date
granted.  The refinement maps `lo` to `start_time` and `hi` to
`start_time + time_window`, which the code never stores: it recomputes the window
in every round, and the theorem says that the right edge never moves.

### G5kDeploy

`left`, `got` and `attempt` are the variables of `deploy_with_retries`; `already`
is what `check_deployments` found; `dep` holds the deployments as the API knows
them and `todo`, `terminated`, `okSeen`, `koSeen` are the variables of the polling
loop of `grid_deploy`: each refresh is a step, so deployments end between
two requests of an iteration.  `runs` is the truth, which hosts run the
environment; it is lost when a deployment starts and regained with a positive
verdict.  A host that runs may fail to answer the check (`answering`).
`force` is sticky as in `provider_conf.force_deploy`.
A call is taken to start when the deployments an interrupted call left behind
have ended.  The only final states of a deployment are `terminated` and `error`, as
in the code; with any other one the loop would not end.

### G5kJobs

`jobs` is what OAR knows of the jobs of one name; everything else belongs to a
client: `cache` is `driver._jobs`; `todo`, `found` and `at` are the scan of
`grid_reload_jobs_from_name`, one request per site; `rest` are the sites the
temporary `Providers` of a multi-site object still has to visit, to reserve or
to destroy; `dying` is the job `job_delete` polls; `seen` and `running`
are the loop of `wait_for_jobs`.  An object is configured for any non-empty
set of sites, and takes the path of `G5k.reserve` that follows from it.  The
dates are left to `Providers`: here a date is found or not (`SlotFound`,
`NoSlot`), and a submission is accepted, refused with another date, or fails,
possibly after the job was made.  `last`, `past` and `fresh` are history
variables for the properties.

### Openstack

`infra`, `servers` and `fip` are what Neutron and Nova know; the rest is local to
a call.  `ensure` is what `check_network` has still to look at: a resource that is
found is passed over together with its parts (the rules of the security group, the
interface of the router), which are created with their owner only.  `got` is the
list of `check_servers`, `purge` the servers to delete, `up`, `down` and `todo` the
loop of `wait_for_servers`, `gw` and `picked` the gateway and its floating IP.
Each request is a step; deletions and boots take effect later.  `Patient` says
whether users wait for deletions before they call again.  `destroy` deletes the
servers of all prefixes, as the code does.  `allow_address_pairs` changes nothing
in the model because it changes nothing in the code: a log message exhausts the
iterator of the loop that follows.

### Environment

`file` is what the file `env` of each directory holds, `link` the symbolic link,
`heap` the `Environment` objects of each process and `stack` the tasks it is in.
A store is the set of the tasks that wrote in it; a file may be truncated, for
`dump` opens it before it writes.  Creation of an environment, unlink and link,
the body of a task (which may raise), the two halves of a dump and the end of a
process are steps of their own; tasks nest, with or without the environment of
their caller.  `saved`, `parted` and `linked` are history variables.

### Config

`config` is the dictionary and `blocks` the copies that `config_context` restores.
Restoring goes through `set_config`, which ignores `None` and gives another name to a
file of results that exists; both are in `Updated`.

### Resources

The heap: dictionaries have views, views have hosts, hosts are objects that know
where they were made.  What is shared after `Roles(d)`, what is copied by `+`,
what the deep copy of `sync_info` keeps shared are consequences of that.
`Inventory` is the set of machines that a call of Ansible is made for; it is empty
for the `RolesDict` that a `+` returns.

### AnsibleLayer

One call at a time, of any kind, as the plays it gives to `run_ansible`.  A play is a
sequence of tasks; each host does them in order, in lock-step or not, and leaves the
play at its first failure or when it is unreachable, unless the error is ignored.
`results` counts the records of the callback, from which `Verdict` takes the
exception.  Machines reboot and come back in between.  `wait_for` counts its
retries; `sync_info` waits, gathers, then writes facts into the objects of the client
or into copies; `external_pip_deps` takes markers away and puts them back.

### Registry and Planning

`cgroup` is the truth on the machines, `registry` what the client recorded.
`FoundHost` is the comparison of an alias with an address in `build`, the way it is
written: it may take the host of the previous result, or none.  Kills are those of one
process, of a registry or of a part of it, and trust what is recorded; those that wait
between two processes are the sequences of `KillOne`.  `check` sorts the events of a
group and wants starts and kills in turn: `PlaceOf` is the place of an event in that
order.  `Planning` has the crontabs; `Fires` is the rule of cron for a day of the month and a day of the week,
and `Tick` runs the entries of a minute, some of which sleep to their second.

### Emulation

`asked` is the list of requests; `constraints` what the service made of them, `tc` the
rules and devices of each machine.  Requests are merged by pair and device, symmetric
ones twice.  A deploy or a destroy is a list of commands for each host, done one host
after the other; any of them may fail.  `AccurateNetemHTB` measures before it asks.

### Services

A service is a record (class, hosts, interfaces, options); its calls are lists of
primitive tasks on the machines: start or stop a session, put a container up or
down, run or kill a process, fetch or wipe files.  Sessions match by prefix as
`grep` does.  `With` and `Leave` follow `__enter__` and `__exit__`, and a machine may
stop anywhere in a call.  Defaults of modules and what TCPDump leaves on the `Host`
objects are variables, as they are shared between instances.

### Iotlab and IotlabStreams

Two processes of one user with one configuration.  `experiments` and `profiles` are
what the testbed knows.  A test of slot reads the boards and the experiments in two
requests, with the world changing in between; it counts what groups require by site and
architecture, and a kind that the testbed does not have is refused.  `IotlabStreams` has the tools on
the frontend of a site, the files they write, and the tunnels and sockets of the
program; the command line of a tool is what `pkill -f` finds.

### VMonG5k and Distem

The `G5k` object below is any assignment of machines and subnets that satisfies the
configuration (`G5kResources` is about that).  Machines and addresses are taken in the
order of the code; starting is idempotent by name.  In `Distem`, daemons of an earlier
call know of containers that only they can stop.

### Chameleon, Fabric, Vagrant

Leases, slices and boxes found again by name, in any state an earlier call left them;
each request is a step, and any may fail.  In `Chameleon` the reservations of a lease
are those of the runs of one flavour in the list of groups, and the servers still
missing are planned flavour by flavour, on the reservations in turn.  In `Fabric` the
card and the port of an interface follow from the number of networks of the same model
that come before its own at the site (`Rank`), and a drive is named by its number among
all the drives of a node when it is added, and looked for by its number among those to
mount.  Volumes outlive the slices: `formats` counts what `mkfs` does to them over all
the slices.  With an external network the slice is submitted a second time.  `Vagrant` writes a file, then
acts on the boxes that this file names.

### G5kResources and Addresses

`Finalized` is the configuration after `finalize`; `Grants` are the answers OAR may give
to it, or what jobs made by hand hold.  `ConcreteNodes` and `ConcreteNetworks` are the
mapping, on names in any order: `_concretize_nodes` goes through the groups in two rounds, the
lists of servers first (`Turns`), and at each turn a group takes so many (`HowMany`) of
the nodes that are left (`PickThings`), which then leave the pool (`Remain`).  `SortedBy` is
`sorted` of the code, on a fixed order of all the names.  `MoveCard` is one call of `set_nodes_vlan`, which may
move some nodes only.  `TestSlotG5k` is the test against the statuses of nodes, and
its reference is the existence of distinct free nodes.  `Addresses` has the
generators of addresses, on networks that are intervals.

### Kwollect and DockerHosts

A window with its two dates and the clock of the testbed; what is fetched is what each
site returned for its nodes.  In `DockerHosts` containers come and go while hosts are
asked one after the other, and each answer finds its host by address.

### Why several components are in one model

`MCExperiment` and `MCParts` put components side by side that share no variable and
do not call each other.  In a behaviour one component moves and the others stay in one
of their initial states, so the reachable states are the sum and not the product of
those of the components, and each property is checked on all of them.  Components that
do interact are composed: `Providers` with its providers, `Planning` with
`Registry`, `G5kJobs` with the multi-site reservation.

## 4. Runs

| run | shows | states |
|---|---|---|
| `providers` | two providers, a process killed once, two calls; `TypeOK`, `NothingLeftOnRefusal`, `SuccessHoldsAll`, `IotlabJobsWithinSlot`, `ImplementsPromise` | 330 000 |
| `providers_slow` | three kinds of providers, answers of ten minutes: all three attempts of `start_provider_within_bounds`; `RightEndPinned`, `CallsEnd` | 18 000 |
| `providers_g5k_walltime` | violated: `G5kJobsWithinSlot` | |
| `g5k_deploy` | three hosts, two deployments, two calls, all verdicts; `TypeOK`, `DeployedRuns`, `GivenUpLate`, `AttemptLosesNone`, `OnlyFailuresRetried`, `DeployEnds` | 40 000 |
| `g5k_deploy_lost` | violated: `AllAccounted` | |
| `g5k_jobs` | two sites, three jobs, two calls, kills; `TypeOK`, `OneJobPerSite`, `DestroyLeavesNone`, `ReadyIsComplete`, `CallsEndUnlessJobOver` | 490 000 |
| `g5k_jobs_stale` | violated: `WaitsForCurrent` | |
| `openstack` | two machines, five servers, two floating IPs, three calls; `TypeOK`, `AtMostWanted`, `ReadyIsSettled`, `GatewayReachable`, `NetworkRestored`, `PollEnds` | 170 000 |
| `openstack_hurry` | violated: `AtMostWanted` without `Patient` | |
| `experiment` | tasks of two processes, nested configurations, three collections, two calls of Ansible on two machines; `TasksAccumulate`, `LinkKept`, `ConfigKept`, `RolesApart`, `SuccessMeansEverywhere`, `MarkersComeBack`, `SyncedTogether` | 720 000 |
| `parts` | fifteen components: services, helpers and testbeds; the properties below | 1 200 000 |
| `planning_early` | violated: `OnItsDate` | |

The properties of `parts` are conjunctions, one conjunct for each component:

| property | conjuncts |
|---|---|
| `EmulatedAsAsked` | one |
| `ProcessesAsPlanned` | `RegistryTracks`, `PlanFollowed` |
| `DataKept` | `ServiceDataKept`, `StreamsKept`, `KwollectExact`, `DockersFound` |
| `ServicesLeaveNothing` | `ResetCleans`, `NothingOutlives`, `ServicesGone`, `StreamsStop` |
| `TestbedsReadyAsAsked` | `VmsRunOnce`, `VmsReadyAsAsked`, `DistemReadyAsAsked`, `VagrantReadyAsAsked`, `IotReadyAsAsked`, `IotSlotExact`, `ChameleonReadyAsAsked`, `FabricReadyAsAsked`, `AddressesFree` |
| `G5kReadyAsAsked` | `MappingFixed`, `GroupsAsAsked`, `CardsAsAsked`, `SlotTestExact` |
| `TestbedsReleased` | `IotReleased`, `ChameleonReleased`, `FabricReleased`, `FirewallCloses` |

Each component has at least one mutant that violates its conjunct.

### Bounds

Two providers are enough for "one started, the next one refuses", in both orders of
kinds over the runs; walltimes of 900 s and 420 s are used up by the margins of 60,
240 and 540 s; the hints lie in the past, in the window and after it.  Three hosts in
two groups have one deployment with two verdicts and another one beside it; two calls
show the sticky `force_deploy`.  Three jobs on two sites are what a refused second site
needs (one job deleted, two made again).  Five servers are two sets of two and one
whose creation was not confirmed.

In `experiment`, two processes and two tasks give a task in a task and two processes in
one directory; two nested blocks restore one after the other; three collections are two
and what is built on both; two machines, one of which fails while the other
answers, and one reboot between any two tasks.

In `parts`, three calls of a provider are one that is killed, one that finds what it
left, and a destroy or a forced call.  The configurations are chosen for their
cases and commented in `MCParts`: groups that share a pool and groups that do not,
flavours that divide a machine and those that do not, prefixes that are given or not,
cards with one port and with two, lists of servers that overlap.  Two requests of
emulation overlap in all ways on two hosts with two devices; two uses of two services
show a second use and what an abandoned one leaves; a planning of three events over
two days of three minutes has its order, its night and its second day.

Deadlock is not checked: a system whose calls are spent stops.

### Preconditions

A property is stated where the code can hold it, and the exceptions are written in its
formula and in its comment.  They are facts about the code:

* the emulation of a host that was synced between two requests is not merged, and
  accurate constraints deployed twice subtract the delay already emulated;
* two services that use the same thing at the same time (sessions of dstat, all Locusts
  of a machine, containers of a monitoring) stop each other;
* a registry is only right when hosts are known by their address; `build` compares
  aliases with addresses;
* a slice of FABRIC, or containers of Chameleon, whose creation was interrupted are
  reused as they are; an IoT-LAB provider initialised again after its experiment
  ended hands over the boards of the first; two experiments of one name are one too many
  for its destroy;
* `test_slot` of Grid'5000 stops at a reservation without a date, and takes any node of a
  list of servers;
* groups of Vagrant with the same prefix name the same box; hosts that share an address
  are mixed up by `get_hosts`; generators of free addresses do not know of each other;
* the last address of a pool is not given; a window of Kwollect read inside a second block
  ends where the first one did;
* a firewall block inside another one deletes the rules of both.

### Violations

The five violations are disagreements between the code and its own documentation;
`PROJECT.json` quotes both sides.

* A Grid'5000 job started later than the common date has the full walltime:
  `offset_walltime` changes the configuration, the driver submits the copy it
  made when it was built.
* `deployed` holds the hosts of the last attempt only; hosts deployed by an
  earlier one are in neither list, hence not among the roles.
* A multi-site `G5k` object never reloads `driver._jobs`: initialised again after
  a job ended, it waits for that job.
* `check_servers` has no case for more servers than wanted, and starts all of
  them once more; servers being deleted make it so.
* The entry of an event in the crontab has Python's day of the week, which is one less
  than cron's: with a day of the month as well, it runs on a day before its date too.

### Fairness

`providers_slow`, `g5k_deploy`, `g5k_jobs` and `openstack` check liveness.  The client is one
thread that never blocks except in `sleep`: weak fairness of its steps, as one
action.  Testbeds complete the deletions they accept, kadeploy ends its
deployments, and a waiting job or a booting server starts or fails some day: this is what
the loops of the code wait for without a timeout, and it is an assumption about
the testbeds.  Calls, kills and the end of jobs are under no fairness.  `experiment`
and `parts` check safety only.

## 5. Proofs

`ProvidersProofs`, for every list of providers, walltimes, answers and delays:

* `TypeCorrect`: in particular walltimes stay positive and three attempts are the
  limit.
* `KeepsPromise` (`Spec => Promise!Spec`): initial states map to initial states and
  each step to a step or a stutter.  It needs `SlotInWindow`: the date under test
  is at least `start_time`, and inside the window once it is chosen.
* `RefusalIsClean`: the invariant `DestroyProgress` says that, while
  `destroy()` is in progress, providers it has passed hold no job.
* `EndNeverMoves`: `AllPinned` strengthens `RightEndPinned` to all providers
  the loop has still to visit: those not yet attempted have untouched copies, and
  the current one has `from + walltime` at the wanted end, less one minute of
  rounding per attempt.
* `IotlabBounds`: the action property, from `AllPinned`.
* `SuccessIsComplete`: `Secured` follows a job from its submission to the return;
  it needs that `destroy` waited, which is why killed processes are excluded.

`G5kDeployProofs`, for every set of hosts and groups, every `MAX_DEPLOY` and any
verdicts: `TypeCorrect`, `DeployedIsDeployed`, `NoEarlySurrender`,
`EveryVerdictCounts`, `NoSecondDeployment`.  Their common invariant `IInv` says
that the call polls only while it has attempts left (`AttemptLeft`); that while it
polls, the deployments of the attempt share out the hosts of `left` not found
deployed, each submitted `attempt + 1` times, and the hosts counted deployed do run
the environment (`Shared`); that the counter of the poll is the number of ended
deployments visited since its loop began (`Polled`, `CountedSet`); that between
attempts the hosts in `got` run the environment, none of them is in `left`, and each
host of `left` was submitted `attempt` times (`Sorted`); and that a finished call has
no host left or no attempt left (`Finished`).  The counter is compared with the
number of deployments, so the proof is about cardinalities of finite sets.

`G5kJobsProofs`, for every set of sites, list of wanted jobs, number of clients and
number of rounds.  `Anyone` needs no client to be alone: where each call stands
(`Stands`), and that the jobs a poll has refreshed have started (`Watched`); it gives
`TypeCorrect` and `ReadyJobsStart`.  The other three theorems assume `Alone`: one process
uses the name of the job.  The code promises nothing to two of them, which both find no
job of the name and both submit; the process may still be killed, lose answers and
start again at any point.  `OneJobPerSite` is not inductive: a scan of the sites takes
several requests, while jobs end and deletions take effect.  What it needs is that the
scan has found every listed job of the sites it has passed, none of them deleted by this
call (`Sees`), and that what this call deleted it waits for (`Dooming`); `Destroys` and
`Supplies` say the same of the sites that `destroy` and the temporary `Providers` have
passed, and give `DestroyComplete` and `ReadyComplete`.

`OpenstackProofs`, for every number of servers, networks, floating IPs and deployments.
`General` holds of any clients: where each call stands, that `check_network` has what
comes before its place in the list of resources, in the order of that list (`Ensures`),
and that a server the poll has counted came up or failed (`Counts`).  It gives
`TypeCorrect` and `NetworkIsRestored`.  `NeverMoreThanWanted` and `ReadyMeansSettled`
assume `Patient`, without which they are false (`openstack_hurry` is the counterexample
in the code): their invariant `Owns` counts the servers of a deployment at each step of
a call, those to purge, those got and those still to be created.  `GatewayIsReachable`
assumes one deployment in the project, since two take floating IPs from each other.

`ExperimentProofs` has the four components of `MCExperiment`.  For every set of processes
and directories and any nesting, and no hypothesis: `StoresAccumulate` and `LinkStays`.
`EnvIInv` says of each frame of each
process which object it refers to and what that object holds (`Standing`, `Holding`), of
each pair of frames that they refer to one object or that their directory is known to
have had two (`Parting`), and that a link that is not there is about to be made
(`Relinked`): the properties only speak of files, between the tasks that write them.

For every set of machines, every playbook and number of retries, and no hypothesis: `SuccessEverywhere`, `MarkersBack`, `SyncAllOrNothing`.  `AnsIInv` relates a
play to its records: a host is in the play, or the play has a failure or an unreachable
host (`Followed`), the successes of a host that is are the tasks before its place, those
of earlier playbooks included (`Before`, a cardinality: a `Nat` that counts tasks is
proved about as the set of their places).  `Pushed`, `Marked` and `Fresh` say what each
task of `populate_keys`, `external_pip_deps` and `sync_info` has done to the hosts that
went through it.

For every nesting, number of files, machines, roles and collections, and no hypothesis:

* `ConfigRestored`, from `Restorable`: each block holds what the one around it found,
  None excepted.  That a file has one choice of the client (`OneChoice`) needs the
  free name to be free, which is a pigeonhole: among as many suffixes as there are
  files, one is not taken (`FreeIs`).
* `RolesStayApart`.  The first half is about views, the second about hosts, and neither is
  inductive.  `Owned` says where each view was made, for the role that holds it, by a
  dictionary that shares with the holder, and `SharedByAll` that sharing is
  transitive; `Alike` says that dictionaries that share have the same hosts, and are known
  together to mix hosts and copies, and `Covered` that each has every machine.  With
  these, `d += e` without twins adds to `d` only hosts that it has already
  (`SameObjects`), so that nothing changes in the dictionaries that share with it.
* `TypesCorrect` and `ExperimentKeeps`: a behaviour of `MCExperiment` is one of each of
  its four components (`PartsRun`), so all that is proved of them holds of it.

`PartsProofs`, for every set of machines, users and configurations, any number of calls,
and no hypothesis.  A behaviour of `MCParts` is one of each component (`RegistryRun`,
`TestbedsRun`), and each theorem is proved of its component first.

* `RegistryIsTracked`, for a client and a planning that change the same registry.
  `RegistryTracks` says what a registry holds; what it records alive is only known by
  `steady \subseteq Alive`, the processes that have been alive since the last refresh.  That
  the results of a command are those of all hosts, each once, is `OrderCovers`: an
  injection between sets of one size is onto.
* `FirewallIsClosed`: rules are those of jobs that are there, and while a block is left,
  of the jobs that remain to be dealt with (`FirewallIInv`).
* `LeasesReleased` and `SlicesReleased`: unless a request failed there is one lease, or
  one slice, at most, and none when one is about to be made (`ChIInv`, `FabIInv`);
  without the latter, the call that makes one would make a second.
* `ExperimentsReleased`, for any number of processes: `Reached` says what a destroy has
  dealt with at each of its steps while no other process is in an `init`.
* `TestbedsAreReleased`: the four of them side by side.
* `EmulationIsAsAsked` and `EmulationIsReset`: `Matches` says that a host has a
  constraint exactly when some request is the last one about its device and address, and
  says its delay; that each request keeps it so, the other way round included, is
  `OneMore`.  `EmulIInv` adds that what is emulated, or was, is of constraints that are
  still there (`Traces`), else a deploy would not overwrite it; that the machines already
  visited have their constraints in force (`Enforced`), the ifbs being as many as two
  constraints of each device need (`PlacesFit`, a cardinality); and that the delays of
  AccurateNetemHTB are, with the latency, those asked for (`Corrects`).
* `PlanningLeavesNothing`: entries of the planning are of its events and stand only
  while it is deployed; jobs of its groups that still sleep after a destroy, or run, are
  known as `late`, except between its `status` and its kill, when the registry records
  what runs (`OutIInv`, on top of what `RegistryIsTracked` needs).
* `PlanningIsFollowed`: on the day of a planning, what sleeps is due at this minute, and a
  group that runs on a host is to run (`ToRun`) or the job that stops it is about to
  (`FolIInv`).  That the last event up to now of what runs is a start needs what `check`
  makes sure of: `PlaceOf` numbers the events of a group by their dates, so that
  between two of a kind there is one of the other.  An earlier form of `PlanFollowed` did
  not say "on that day", and cannot be proved: cron takes a day of the week *or* a
  day of the month, and starts the entries again a week later; the clock of the run was too
  short to see it.  Together with `RegistryIsTracked` it is `ProcessesPlanned`.
* `StreamsAreKept`: the tool of a block runs as long as the block is entered, unless it is
  excused or a twin of the same sensor and tool stopped it (`ToolKept`); with it, what a
  file has and what a socket has read is inductive (`StrIInv`).
* `ServicesAreGone`: a session has one of the keys that the instance which started it
  would stop (`HostsOK`), because nobody else left interfaces on the Host objects of an
  instance that is alone (`IfsOK`); so after the destroy of a "with" none of it is left, and
  only a backup may follow (`AgendaOK`).  A machine does at most three tasks of a call, so
  that what they do together (`DidKeeps`) needs no induction; `MaxTasks` is that bound.
* The types of its components (the last part of the module): each `TypeOK` is a
  conjunct of `TypesAreCorrect` below.  Most are inductive beside what the theorems above
  already need.  For the emulation they are not: that what a machine has on its ifbs is one
  of its ifbs needs that every set of constraints, those of stale Host objects included,
  has one constraint for a device and direction, and only constraints of the service that
  made it (`OfItsKind`), so that there are ifbs for all (`KindFits`).  For the services it
  needs that the sessions of a machine differ in their keys (`Keyed`) and that a file is of
  a use that began (`Dated`).
* `DataIsKept`: the promise to the users.  Of a service, `DataOK` says what each call
  leaves to the next one: after the `destroy` of `__enter__` no session is in the way of
  those to be started (`Silent`), else `bg_start` would do nothing; after `deploy` what the
  use records is on every machine (`OnMachine`), until it is at the client (`AtClient`),
  before or after the second `destroy` according to the service; so no task of an exit is
  impossible (`ExitPossible`), and nobody else writes over the files, stops the database or
  fetches over what was fetched (`OthersRan`).  `NamesOK` says whose names the sessions
  left on a machine have, those of processes that were killed included, and `MetOK` that
  instances used together are known to be.  A capture watches at least one interface: with
  none, `deploy` makes its directory and there is nothing to record
  (`ServicesAssumption`).  Of Kwollect, that the window of the object is the one of the
  block (`WindowOK`) needs no knowledge of the earlier blocks; of Docker, an answer is
  the one of its engine (`AnswersOK`, `HandedOK`).

`TestbedProofs`, for the virtual testbeds, addresses, boards and the choice of nodes on
Grid'5000, and `CloudProofs`, for leases, slices and the provider of Grid'5000, prove
`TestbedsAreReady` (`Spec => []TestbedsReadyAsAsked`) and `G5kIsReady` (`Spec =>
[]G5kReadyAsAsked`): whatever calls failed, were killed or made again, what is handed over
is what was asked for.  Each testbed has an inductive invariant of its own;
`TestbedTypesCorrect` follows from them, and `TypesAreCorrect` (`Spec => []PartsTypeOK`)
from it and the types of `PartsProofs`.

* Sequences that the code builds with loops in loops are `FlattenSeq` in the modules.
  `FlattenIs` and `FlattenLaid` say where each item of each part is in the result; they are
  proved from the definition, with an induction over the smallest counterexample, and give
  that macs, boxes, planned servers and containers are there once (`FlattenOnce`).
* VMs on Grid'5000 (`VmIInv`): a guest runs where the placement of the job has it
  (`GuestsPlaced`), and the plays done of a start are those before the next one
  (`PlaysDone`); so machines run once, even when a start is made anew.  That a machine
  has the cores and memory for its guests (`RoundRobin`) is arithmetic: among n guests
  dealt in turn to L machines, each has n / L of them rounded up.
* Distem (`DisIInv`): the containers are the first ones of the plan, in its order, which has
  those of a group in turn on its machines (`PlanIsLaid`).
* Vagrant (`VgIInv`): what is up was defined by a file of its configuration; after a forced
  `init`, by the one just written (`VgFresh`).
* Addresses (`AddrIInv`): an address is so many after the first one of the pool of its
  network; that this is in the blocks it may be from is `Division`, that two macs of
  subnets are of one address is `SameByte`.
* FIT IoT-LAB (`IotHeld`): a job that runs has boards that share out to the groups
  (`AsShared`), and each group of a provider that is ready has its own.  That the slot test is
  exact (`SlotExact`) is a matching: if every site and architecture has as many free boards
  as its groups require, there is a one-to-one choice of them
  (`SharedIsEnough` and its converse), groups by hostname being known by their boards.
* Chameleon (`ChHeld`): a live lease of the edge has no container yet, all of them, or some
  while they are made or after a call that was cut (`EdgeLease`); on bare metal, the servers
  of a flavour and those still planned are as many as wanted, at most
  (`MetalUnits`), if they are of one lease and none has vanished.  `RunIs` says what
  `groupby` makes of the groups, `HintsAre` that hints of a flavour are its reservations.
* FABRIC (`FabHeld`): a slice has for each node and network of its site one interface, and
  the components asked for (`BuiltSlices`); it is mounted and addressed in full
  (`FinishedSlices`) unless its `init` was killed, failed or still works on it
  (`SlicesFinished`, `InWork`).  That two interfaces do not have one port is `PortsApart`
  (a division with remainder of their ranks), and that a drive is mounted once, and is one
  of the node, is `MountsApart` and `MountsFound`.  A volume is formatted once,
  whatever fails.

Grid'5000 has `G5kIInv`: what the jobs hold was granted to the configuration or made by hand
(`HeldInv`), what a client knows at each step (`ClientInv`), that its mapping is the one of
these jobs (`MapInv`), where the cards are (`CardsInv`) and what is handed over (`HandedInv`).

* `MappingFixed`: there is one list of a set that is sorted, so the mapping of any two
  orders of the names is the same (`ChosenNames`, `MappingByNames`, `MappingByNets`).
* `GroupsAsAsked`: what the turns deal is dealt once (`DealtOnce`), and a group has the
  concatenation of its two turns (`GroupsSpread`, `GroupsGet`).  That each group gets all it
  asks for is a count (`GroupsFull`): lists that do not overlap find all their servers,
  since they come first; of a cluster, what is granted is the sum of what its groups
  ask for, and no turn takes more than its share.
* `CardsAsAsked`: a card that is to be moved has been, or is still in the list of moves; no
  two moves are of one card (`MovesOnce`), so a move does not undo another.  A client that
  starts again computes the same moves, which makes those of interrupted calls harmless.
* `SlotTestExact`: if distinct free nodes can be given to the groups, there are as many
  candidates as demands in each cluster (`SharesEnough`); conversely lists take their
  servers, and the others what they need of the rest, which a numbering of the nodes
  and of the demands (`TicketsAre`) shows to be enough (`SpareEnough`, `SharesFound`).

Each invariant was model-checked before it was proved, on an instance like that of the
run: `IInv` of `G5kJobs` on 489 337 states (one client), `Anyone` on 12.9 million (two),
`General` and `Owning` on 482 366, `EnvIInv` on 305 436, `AnsIInv` on 318 273, `ConfIInv`
on 1 500 642, `ResIInv` on 49 959 (one machine, two roles, three dictionaries), `EmulIInv`
on 312 158, `OutIInv` on 59 344 (the planning alone), and the others of `PartsProofs`, `TestbedProofs` and
`CloudProofs`, `DataIInv` among them, on the 1 244 890 of `parts`, but for the conjuncts of
`PartsProofs` that give sequences their type.

The assumptions are the ones named in the modules: types of the constants, finite sets,
and marks of the model that are no value of the program (`MarksAssumption`: an ifb is no
device of the facts, `Out` and `In` are no addresses; the mark "nvme" is no volume's name).
Those on the testbeds say what a configuration or a testbed has to be for the code to keep
its promise, and TLC evaluates them on `parts`: MAC addresses of the subnets of a
site are numbers and all distinct; networks of Grid'5000 share no address, and subnets have
the first byte of theirs in common (a mac keeps the last three); in a Vagrant
configuration no prefix is another name with a number, and networks share no address; a
group of boards by hostnames is of one site and architecture (`iotlab_api.py:556` says so)
and names a board once; experiments of others end after they start.  Of a configuration of
Grid'5000 (`G5kConfOK`), the servers of a list are of one cluster (the code refuses others,
`configuration.py:377`) and the networks of a machine are among those of the configuration;
the walltimes of the reservations that the API tells are positive.  `Alone`, `Patient` and the absence of killed processes are hypotheses of the
theorems that need them, and stand in their statements.

Only model-checked: liveness (`CallsEnd`, `DeployEnds`, `CallsEndUnlessJobOver`,
`PollEnds`), since neither `ENABLED` nor fairness is in reach of the prover.
Induction over data with an operator as a parameter cannot be proved:
where a theorem needs one, it is over the smallest counterexample in a set of numbers.  No
module uses a recursive operator; sequences of steps are folded with
the operators of the community modules.

## 6. Not modelled

The components marked `not_modelled` in `PROJECT.json` format, validate or stand for the
local machine.  What is left out of the components marked `partly`, and of the others:

* Grid'5000: the words of OAR requests, reservable disks, SSH keys, `G5kTunnel`;
* FABRIC: what the testbed does to make addresses public, the permissions of a token as text;
* IoT-LAB: what the program writes to a board, the archives of `collect_data_experiment`;
* collections: removal from a view; conversions of hosts and networks to dictionaries;
* schemas, logging, HTML, names of cards and of hosts as text;
* the Ansible roles below Skydive and the monitorings: a playbook is one task.

Two processes using one job name at the same time are possible in `G5kJobs`
(`TwoClients`), but no run asks for it: nothing in the library prevents two jobs
then.  Likewise two deployments of `Openstack`: they take floating IPs from each other,
and `destroy` of one deletes the servers of the other.
