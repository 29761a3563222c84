----------------------------- MODULE Services -----------------------------
(***************************************************************************)
(* The services of enoslib/service that a client deploys on machines,      *)
(* mostly in a "with": dstat and tcpdump (tmux sessions that write files), *)
(* Dask (sessions), Locust (processes), the TIG and TPG monitorings (a     *)
(* collector and its database) and those that are only installed (Docker,  *)
(* K3s, Skydive). A call is one or more Ansible calls: each machine does   *)
(* tasks in order, and one that fails stops there; then the call raises.   *)
(***************************************************************************)
EXTENDS Naturals, FiniteSets, Sequences, SequencesExt, FiniteSetsExt

CONSTANTS
    Machines,
    Instances,     \* service objects of the client
    Scenarios,     \* what they may be: functions from Instances to Makes
    Interfaces,    \* names of network interfaces
    Within,        \* pairs of interfaces, the name of the first being part of the other's
    MaxUses        \* bound: uses of an instance

Classes == {"dstat", "tcpdump", "dask", "locust", "tig", "tpg", "docker", "k3s", "skydive"}
MaxTasks == 3  \* bound: tasks of a call on a machine
Makes == [class : Classes, hosts : (SUBSET Machines) \ {{}}, ifnames : Seq(Interfaces),
          byNetwork : Seq(Interfaces), options : {"none", "given"}]

ASSUME ServicesAssumption ==
    /\ Within \subseteq Interfaces \X Interfaces /\ MaxUses \in Nat
    /\ \A s \in Scenarios : \A i \in Instances :
          s[i] \in Makes /\ (s[i].class = "tcpdump" => s[i].ifnames # <<>> \/ s[i].byNetwork # <<>>)
    /\ "nobody" \notin Instances
    /\ {"dstat", "dask"} \cap Interfaces = {}  \* "__enoslib_dstat__" is longer than an interface may be named

VARIABLES
    inst,       \* what the instances are, or will be
    made,       \* the instances that were constructed
    default,    \* default[class]: options shared by the instances of a class: whose
    tcpdumpIfs, \* tcpdumpIfs[m]: what the Host object of m carries for tcpdump
    host,       \* host[m]: sessions, files, what is up and how it was configured
    saved,      \* saved[m]: what was fetched, by directory of the client
    agenda,     \* agenda[i]: the calls of i that the client has begun
    phase,      \* phase[i]: its "with"; stuck if a task of the exit was not possible
    uses,       \* uses[i]: how often i was deployed
    met         \* history: pairs that were used at the same time

servVars == <<inst, made, default, tcpdumpIfs, host, saved, agenda, phase, uses, met>>

Phases == {"idle", "entering", "inside", "leaving", "left", "raised", "stuck"}

ServTypeOK ==
    /\ inst \in Scenarios
    /\ made \subseteq Instances
    /\ default \in [Classes -> Instances \cup {"nobody"}]
    /\ \A m \in Machines : \A f \in host[m].files \cup saved[m] :
          f.by \in Instances /\ f.run \in 0..uses[f.by]
    /\ \A m \in Machines : \A s, t \in host[m].tmux : s.key = t.key => s = t
    /\ phase \in [Instances -> Phases]
    /\ \A i \in Instances : agenda[i] # <<>> => phase[i] \in {"idle", "entering", "leaving"}
    /\ uses \in [Instances -> 0..MaxUses]

ServInit ==
    /\ inst \in Scenarios
    /\ made = {}
    /\ default = [c \in Classes |-> "nobody"]
    /\ tcpdumpIfs = [m \in Machines |-> <<>>]
    /\ host = [m \in Machines |-> [tmux |-> {}, files |-> {}, up |-> {}, procs |-> {}, conf |-> {}]]
    /\ saved = [m \in Machines |-> {}]
    /\ agenda = [i \in Instances |-> <<>>]
    /\ phase = [i \in Instances |-> "idle"]
    /\ uses = [i \in Instances |-> 0]
    /\ met = {}

Class(i) == inst[i].class

\* TCPDump leaves the interfaces of the networks on the Host objects.
TcpdumpIfs(i) ==
    [m \in Machines |->
        IF Class(i) = "tcpdump" /\ m \in inst[i].hosts THEN inst[i].byNetwork ELSE tcpdumpIfs[m]]

\* TIG and Skydive update the defaults of their modules with the options they
\* are given; so does Docker for a registry.
Defaults(i) ==
    IF inst[i].options = "given" /\ Class(i) \in {"tig", "docker", "skydive"}
    THEN [default EXCEPT ![Class(i)] = i] ELSE default

\* The constructors.
Make(i) ==
    /\ i \notin made
    /\ made' = made \cup {i}
    /\ tcpdumpIfs' = TcpdumpIfs(i)
    /\ default' = Defaults(i)
    /\ UNCHANGED <<inst, host, saved, agenda, phase, uses, met>>

-----------------------------------------------------------------------------
(* Tasks on a machine: h is its state *)

\* Mutant of Grep: the sessions are not looked at.
NoGrep(h, key) == {}

\* tmux ls | grep key
Grep(h, key) == {s \in h.tmux : s.key = key \/ <<key, s.key>> \in Within}

\* bg_start: nothing when a session matches.
BgStart(h, key, file) ==
    IF Grep(h, key) # {} THEN h
    ELSE [h EXCEPT !.tmux = @ \cup {[key |-> key, by |-> file.by]},
                   !.files = {f \in @ : f.path # file.path \/ file.path[1] = "dstat"} \cup {file}]

\* bg_stop interrupts what runs in the session of that name, or else in the only
\* one whose name begins with it.
BgStop(h, key) ==
    LET exact == {s \in h.tmux : s.key = key}
        target == IF exact # {} THEN exact
                  ELSE IF Cardinality(Grep(h, key)) = 1 THEN Grep(h, key) ELSE {}
    IN  [h EXCEPT !.tmux = @ \ target]

StartTask(key, path, i) == [op |-> "start", key |-> key, path |-> path, i |-> i]
Halt(key) == [op |-> "stop", key |-> key]
OfFile(task) == [path |-> task.path, by |-> task.i, run |-> uses[task.i] + 1]

\* What a task does; fetch is in Fetched.
Do(h, t) ==
    CASE t.op = "start" -> BgStart(h, t.key, OfFile(t))
      [] t.op = "stop" -> BgStop(h, t.key)
      [] t.op = "run" -> [h EXCEPT !.procs = @ \cup {t.i}, !.files = @ \cup {OfFile(t)}]
      [] t.op = "pkill" -> [h EXCEPT !.procs = {}]
      [] t.op = "up" -> [h EXCEPT !.up = {u \in @ : u.class # t.class} \cup {[class |-> t.class, by |-> t.i]},
                                  !.files = @ \cup {OfFile(t)}]
      [] t.op = "down" -> [h EXCEPT !.up = {u \in @ : u.class # t.class}]
      [] t.op = "wipe" -> [h EXCEPT !.files = {f \in @ : f.path # t.path}]
      [] t.op = "install" -> [h EXCEPT !.conf = {c \in @ : c.class # t.class} \cup
                                                 {[class |-> t.class, options |-> default[t.class]]}]
      [] OTHER -> h

\* fetch fails when the file is missing, and so does a snapshot of a database
\* that is down.
Possible(h, t) ==
    /\ t.op \in {"fetch", "snapshot"} => \E f \in h.files : f.path[1] = t.path[1]
    /\ t.op = "fetch" /\ Len(t.path) = 2 => \E f \in h.files : f.path = t.path
    /\ t.op = "snapshot" => \E u \in h.up : u.class = t.class

\* tcpdump fetches its whole directory; the file fetched replaces the last one.
Fetched(m, t) ==
    IF t.op \notin {"fetch", "snapshot"} THEN saved[m]
    ELSE {f \in saved[m] : f.path # t.path /\ (Len(t.path) = 1 => f.path[1] # t.path[1])}
         \cup {f \in host[m].files : f.path = t.path \/ (Len(t.path) = 1 /\ f.path[1] = t.path[1])}

-----------------------------------------------------------------------------
(* The services *)

\* "make it unique per instance"
OutputOf(i) == <<Class(i), i>>

Sessions(i, m) == inst[i].ifnames \o tcpdumpIfs[m]
ForEach(keys, Task(_)) == [k \in DOMAIN keys |-> Task(keys[k])]

DstatTasks(i, call) ==
    CASE call = "deploy" -> <<StartTask("dstat", OutputOf(i), i)>>
      [] call = "destroy" -> <<Halt("dstat")>>
      [] OTHER -> <<[op |-> "fetch", path |-> OutputOf(i)]>>

TcpdumpTasks(i, call, m) ==
    CASE call = "deploy" -> ForEach(Sessions(i, m), LAMBDA k : StartTask(k, <<"tcpdump", k>>, i))
      [] call = "destroy" -> ForEach(Sessions(i, m), Halt)
      [] OTHER -> <<[op |-> "fetch", path |-> <<"tcpdump">>]>>

\* There is nothing to save.
DaskTasks(i, call) ==
    CASE call = "deploy" -> <<StartTask("dask", OutputOf(i), i)>>
      [] call = "destroy" -> <<Halt("dask")>>
      [] OTHER -> <<>>

\* deploy and a run; destroy stops every Locust of the machine.
LocustTasks(i, call) ==
    CASE call = "deploy" -> <<[op |-> "run", path |-> OutputOf(i), i |-> i]>>
      [] call = "destroy" -> <<[op |-> "pkill"]>>
      [] OTHER -> <<[op |-> "fetch", path |-> OutputOf(i)]>>

InstallTasks(c, call) == IF call = "deploy" THEN <<[op |-> "install", class |-> c]>> ELSE <<>>
Up(c, i) == InstallTasks(c, "deploy") \o <<[op |-> "up", class |-> c, path |-> <<c>>, i |-> i]>>

TigTasks(i, call) ==
    CASE call = "deploy" -> Up("tig", i)
      [] call = "destroy" -> <<[op |-> "down", class |-> "tig"], [op |-> "wipe", path |-> <<"tig">>]>>
      [] OTHER -> <<[op |-> "fetch", path |-> <<"tig">>]>>

\* The database is not removed, only its snapshots are.
TpgTasks(i, call) ==
    CASE call = "deploy" -> Up("tpg", i)
      [] call = "destroy" -> <<[op |-> "down", class |-> "tpg"]>>
      [] OTHER -> <<[op |-> "snapshot", class |-> "tpg", path |-> <<"tpg">>]>>

Tasks(i, call, m) ==
    CASE Class(i) = "dstat" -> DstatTasks(i, call)
      [] Class(i) = "tcpdump" -> TcpdumpTasks(i, call, m)
      [] Class(i) = "dask" -> DaskTasks(i, call)
      [] Class(i) = "locust" -> LocustTasks(i, call)
      [] Class(i) = "tig" -> TigTasks(i, call)
      [] Class(i) = "tpg" -> TpgTasks(i, call)
      [] OTHER -> InstallTasks(Class(i), call)

\* Mutant of EnterCalls: deployed without being destroyed first.
OnlyDeploy(c) == <<"deploy">>

\* __enter__
EnterCalls(c) == IF c = "dask" THEN <<"deploy">> ELSE <<"destroy", "deploy">>

\* Mutant of ExitCalls: the default for all.
DestroyThenBackup(c) == <<"destroy", "backup">>

\* __exit__
ExitCalls(c) ==
    IF c = "dask" THEN <<"destroy">>
    ELSE IF c \in {"tig", "tpg"} THEN <<"backup", "destroy">> ELSE <<"destroy", "backup">>

-----------------------------------------------------------------------------
(* Calls *)

Active(i) == phase[i] \in {"entering", "inside", "leaving"} \/ agenda[i] # <<>>

Begin(i, next, where) ==
    /\ agenda' = [agenda EXCEPT ![i] = next]
    /\ phase' = [phase EXCEPT ![i] = where]
    /\ met' = met \cup {{i, j} : j \in {j \in Instances \ {i} : Active(j)}}
    /\ UNCHANGED <<inst, made, default, tcpdumpIfs, host, saved, uses>>

With(i) ==
    /\ i \in made /\ ~Active(i) /\ uses[i] < MaxUses
    /\ Begin(i, EnterCalls(Class(i)), "entering")

\* The body of the "with" ends, or raises: __exit__ is the same.
Leave(i) ==
    /\ phase[i] = "inside"
    /\ Begin(i, ExitCalls(Class(i)), "leaving")

\* A method called by itself.
Call(i, call) ==
    /\ i \in made /\ ~Active(i) /\ uses[i] < MaxUses
    /\ Begin(i, <<call>>, "idle")

\* What h becomes when it does the first n of its tasks.
Did(h, tasks, n) ==
    LET did[k \in 0..n] == IF k = 0 THEN h ELSE Do(did[k - 1], tasks[k]) IN did[n]

\* How many of its tasks a machine does; the first that is not possible is the
\* last one tried.
Outcomes(i, m) ==
    LET tasks == Tasks(i, agenda[i][1], m)
    IN  {n \in 0..Len(tasks) : \A k \in 1..n : Possible(Did(host[m], tasks, k - 1), tasks[k])}

After(where) ==
    CASE where = "entering" -> "inside" [] where = "leaving" -> "left" [] OTHER -> where

Running(i) ==
    /\ agenda[i] # <<>>
    /\ LET hosts == inst[i].hosts
           call == agenda[i][1]
           deploying == call = "deploy"
       IN  \E done \in [hosts -> 0..MaxTasks] :
             LET ok == \A m \in hosts : done[m] = Len(Tasks(i, call, m))
                 most(m) == done[m] = Max(Outcomes(i, m))
             IN  /\ \A m \in hosts : done[m] \in Outcomes(i, m)
                 /\ host' = [m \in Machines |->
                       IF m \in hosts
                       THEN Did(host[m], Tasks(i, call, m), done[m])
                       ELSE host[m]]
                 /\ saved' = [m \in Machines |->
                       IF m \in hosts /\ done[m] = 1 THEN Fetched(m, Tasks(i, call, m)[1]) ELSE saved[m]]
                 /\ agenda' = [agenda EXCEPT ![i] = IF ok THEN Tail(@) ELSE <<>>]
                 /\ phase' = [phase EXCEPT ![i] =
                       IF ~ok THEN (IF @ = "leaving" /\ \A m \in hosts : most(m) THEN "stuck" ELSE "raised")
                       ELSE IF Len(agenda[i]) = 1 THEN After(@) ELSE @]
                 /\ uses' = IF deploying THEN [uses EXCEPT ![i] = @ + 1] ELSE uses
    /\ UNCHANGED <<inst, made, default, tcpdumpIfs, met>>

\* The process of the client is killed.
Abandon ==
    /\ \E i \in Instances : Active(i)
    /\ agenda' = [i \in Instances |-> <<>>]
    /\ phase' = [i \in Instances |-> IF Active(i) THEN "raised" ELSE phase[i]]
    /\ UNCHANGED <<inst, made, default, tcpdumpIfs, host, saved, uses, met>>

\* Locust ends by itself at the end of a benchmark.
BenchEnds(m) ==
    /\ host[m].procs # {}
    /\ host' = [host EXCEPT ![m].procs = {}]
    /\ UNCHANGED <<inst, made, default, tcpdumpIfs, saved, agenda, phase, uses, met>>

ServNext ==
    \/ \E i \in Instances :
          \/ Make(i) \/ With(i) \/ Leave(i) \/ Running(i)
          \/ \E call \in {"deploy", "destroy", "backup"} : Call(i, call)
    \/ \E m \in Machines : BenchEnds(m)
    \/ Abandon

ServSpec == ServInit /\ [][ServNext]_servVars

-----------------------------------------------------------------------------
(* Properties *)

InterfaceNames(i) == {inst[i].ifnames[k] : k \in DOMAIN inst[i].ifnames} \cup
            {inst[i].byNetwork[k] : k \in DOMAIN inst[i].byNetwork}
Mixed(A, B) == \E a \in A, b \in B : a = b \/ <<a, b>> \in Within \/ <<b, a>> \in Within

\* Two instances that are in each other's way: dstat and Locust if used at the
\* same time, tcpdump if they watch the same interfaces or use networks, and
\* the monitorings always.
Disturb(i, j) ==
    /\ Class(i) = Class(j) /\ i # j /\ {i, j} \subseteq made
    /\ inst[i].hosts \cap inst[j].hosts # {}
    /\ CASE Class(i) \in {"dstat", "locust", "dask"} -> {i, j} \in met
         [] Class(i) = "tcpdump" ->
              Mixed(InterfaceNames(i), InterfaceNames(j)) \/ inst[i].byNetwork # <<>> \/ inst[j].byNetwork # <<>>
         [] OTHER -> TRUE

Alone(i) ==
    /\ \A j \in Instances : ~Disturb(i, j)
    /\ \A a, b \in InterfaceNames(i) : <<a, b>> \notin Within

Recording == {"dstat", "tcpdump", "locust", "tig", "tpg"}
Outputs(i) ==
    CASE Class(i) = "tcpdump" -> {<<"tcpdump", k>> : k \in InterfaceNames(i)}
      [] Class(i) \in {"tig", "tpg"} -> {<<Class(i)>>}
      [] OTHER -> {OutputOf(i)}

\* A "with" is left without an exception when no machine fails, and then it has
\* saved what its service recorded, on every machine, whatever was left there by instances whose
\* process was killed or that failed half-way, and however often the service
\* is used (Service.__enter__ and __exit__, those of the monitorings, bg_start
\* which does nothing when a session of that name is found).
ServiceDataKept ==
    \A i \in Instances : Class(i) \in Recording /\ Alone(i) =>
       /\ phase[i] # "stuck"
       /\ phase[i] = "left" => \A m \in inst[i].hosts : \A path \in Outputs(i) :
          [path |-> path, by |-> i, run |-> uses[i]] \in saved[m]

\* ... and nothing of it runs any more.
ServicesGone ==
    \A i \in Instances : phase[i] = "left" /\ Alone(i) =>
       \A m \in Machines :
          /\ \A s \in host[m].tmux : s.by # i
          /\ \A u \in host[m].up : u.by # i
=============================================================================
