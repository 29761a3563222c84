------------------------------- MODULE G5kJobs -------------------------------
(***************************************************************************)
(* enoslib.infra.enos_g5k: how a G5k object finds, submits, waits for and  *)
(* deletes its OAR jobs.  Jobs are known by their name only: every call    *)
(* lists the jobs of that name, one request per site, and the list may be  *)
(* out of date when it is used.  A single-site object submits its job      *)
(* itself and keeps it in driver._jobs; a multi-site one goes through a    *)
(* temporary Providers (the dates it chooses are in module Providers) and  *)
(* loads driver._jobs afterwards, if it is empty.  Jobs start, fail and    *)
(* end at any time; the process may be killed between any two requests.    *)
(***************************************************************************)
EXTENDS Integers, Sequences, FiniteSets

CONSTANTS
  Clients,   \* the processes using the job name, one G5k object each
  Sites,
  MaxJobs,   \* bounds of the exploration:
  MaxCalls,  \*   calls of init, async_init and destroy
  MaxRounds  \*   rounds of the temporary Providers (they end: see Providers)

ASSUME JobsAssumption ==
  /\ IsFiniteSet(Clients)
  /\ IsFiniteSet(Sites) /\ Sites # {}
  /\ MaxJobs \in Nat /\ MaxCalls \in Nat /\ MaxRounds \in Nat

VARIABLES
  jobs,    \* OAR: the jobs of that name, in the order of their submission
  conf,    \* provider_conf.sites of each object
  cache,   \* driver._jobs
  op,      \* the call in progress: "none", "init", "async" or "destroy"
  wait,    \* destroy: its argument
  pc,
  todo,    \* grid_reload_jobs_from_name: sites still to list
  found,   \* grid_reload_jobs_from_name: jobs
  at,      \* sites the provider in hand is restricted to
  rest,    \* sites of the temporary Providers still to visit
  rounds,
  dying,   \* job_delete: the job waited for
  seen,    \* the jobs this iteration of wait_for_jobs has refreshed
  running, \* wait_for_jobs: all_running
  last,    \* how the last call ended
  past,    \* the jobs that were over when the call began
  fresh,   \* driver._jobs was empty then
  calls

scan == <<todo, found, at>>
walk == <<rest, rounds, dying>>
watch == <<seen, running>>
hist == <<past, fresh>>
vars == <<jobs, conf, cache, op, wait, pc, scan, walk, watch, last, hist, calls>>

Ids == 1 .. Len(jobs)

\* Mutant of Listed: without the jobs that still wait.
ListedRunning(j) == jobs[j].st = "running"

\* state="waiting,launching,running": a job being deleted is listed too.
Listed(j) == jobs[j].st \in {"waiting", "running"}

\* Its deletion was asked for, in the call of that number.
Doomed(j) == jobs[j].deleted # 0

SitesOf(js) == {jobs[j].site : j \in js}

-----------------------------------------------------------------------------

Init ==
  /\ jobs = <<>>
  /\ conf \in [Clients -> (SUBSET Sites) \ {{}}]
  /\ cache = [c \in Clients |-> {}]
  /\ op = [c \in Clients |-> "none"]
  /\ wait = [c \in Clients |-> TRUE]
  /\ pc = [c \in Clients |-> "idle"]
  /\ todo = [c \in Clients |-> {}]
  /\ found = [c \in Clients |-> {}]
  /\ at = [c \in Clients |-> {}]
  /\ rest = [c \in Clients |-> {}]
  /\ rounds = [c \in Clients |-> 0]
  /\ dying = [c \in Clients |-> {}]
  /\ seen = [c \in Clients |-> {}]
  /\ running = [c \in Clients |-> TRUE]
  /\ last = [c \in Clients |-> "none"]
  /\ past = [c \in Clients |-> {}]
  /\ fresh = [c \in Clients |-> TRUE]
  /\ calls = 0

Single(c) == Cardinality(conf[c]) = 1

\* grid_reload_jobs_from_name(restrict_to=ss) starts, on behalf of step p.
Scan(c, ss, p) ==
  /\ pc' = [pc EXCEPT ![c] = p]
  /\ at' = [at EXCEPT ![c] = ss]
  /\ todo' = [todo EXCEPT ![c] = ss]
  /\ found' = [found EXCEPT ![c] = {}]

\* The call ends with outcome o; its local variables are gone.
Return(c, o) ==
  /\ pc' = [pc EXCEPT ![c] = "idle"]
  /\ op' = [op EXCEPT ![c] = "none"]
  /\ last' = [last EXCEPT ![c] = o]
  /\ todo' = [todo EXCEPT ![c] = {}]
  /\ found' = [found EXCEPT ![c] = {}]
  /\ at' = [at EXCEPT ![c] = {}]
  /\ rest' = [rest EXCEPT ![c] = {}]
  /\ rounds' = [rounds EXCEPT ![c] = 0]
  /\ dying' = [dying EXCEPT ![c] = {}]
  /\ seen' = [seen EXCEPT ![c] = {}]
  /\ running' = [running EXCEPT ![c] = TRUE]

\* A client calls init, async_init or destroy(wait=w).
Call(c, o, w) ==
  /\ pc[c] = "idle"
  /\ calls < MaxCalls
  /\ calls' = calls + 1
  /\ op' = [op EXCEPT ![c] = o]
  /\ wait' = [wait EXCEPT ![c] = w]
  /\ last' = [last EXCEPT ![c] = "none"]
  /\ past' = [past EXCEPT ![c] = {j \in Ids : ~Listed(j)}]
  /\ fresh' = [fresh EXCEPT ![c] = (cache[c] = {})]
  /\ Scan(c, conf[c], IF o = "destroy" THEN "kill"
                      ELSE IF Single(c) THEN "take" ELSE "created")
  /\ UNCHANGED <<jobs, conf, cache, walk, watch>>

\* One request of the scan: the jobs of a site.
List(c, s) ==
  LET js == {j \in Ids : jobs[j].site = s /\ Listed(j)} IN
  /\ s \in todo[c]
  /\ \/ /\ Cardinality(js) <= 1
        /\ todo' = [todo EXCEPT ![c] = @ \ {s}]
        /\ found' = [found EXCEPT ![c] = @ \cup js]
        /\ UNCHANGED <<op, pc, last, at, walk, watch>>
     \/ /\ Cardinality(js) > 1       \* EnosG5kDuplicateJobsError
        /\ Return(c, "raised")
  /\ UNCHANGED <<jobs, conf, cache, wait, hist, calls>>

Scanned(c, p) == pc[c] = p /\ todo[c] = {}

-----------------------------------------------------------------------------
(* Submission *)

\* wait_for_jobs(driver.jobs)
StartWait(c) ==
  /\ pc' = [pc EXCEPT ![c] = "wait"]
  /\ seen' = [seen EXCEPT ![c] = {}]
  /\ running' = [running EXCEPT ![c] = TRUE]

\* reserve is done: async_init returns, init asks for driver.jobs.
Reserved(c, js) ==
  \/ /\ op[c] = "async"
     /\ Return(c, "reserved")
  \/ /\ op[c] = "init"
     /\ js # {}
     /\ StartWait(c)
     /\ UNCHANGED <<op, last, scan, walk>>
  \/ /\ op[c] = "init"
     /\ js = {}
     /\ Scan(c, conf[c], "load")
     /\ UNCHANGED <<op, last, walk, watch>>

\* grid_get_or_create_job has the jobs js: a single-site object keeps them,
\* the temporary Providers goes on with its next site.
Take(c, js) ==
  /\ cache' = [cache EXCEPT ![c] = IF Single(c) THEN js ELSE @]
  /\ \/ /\ rest[c] = {}
        /\ Reserved(c, cache'[c])
     \/ \E s \in rest[c] :
          /\ rest' = [rest EXCEPT ![c] = @ \ {s}]
          /\ Scan(c, {s}, "take")
          /\ UNCHANGED <<op, last, rounds, dying, watch>>

\* The site has its job already.
Reload(c) ==
  /\ Scanned(c, "take")
  /\ found[c] # {}
  /\ Take(c, found[c])
  /\ UNCHANGED <<jobs, conf, wait, hist, calls>>

New(s) == [site |-> s, st |-> "waiting", deleted |-> 0]

\* submit_jobs
Submit(c) ==
  /\ Scanned(c, "take")
  /\ found[c] = {}
  /\ Len(jobs) < MaxJobs
  /\ \E s \in at[c] : jobs' = Append(jobs, New(s))
  /\ Take(c, {Len(jobs) + 1})
  /\ UNCHANGED <<conf, wait, hist, calls>>

\* The request is refused, or fails on its way back: InvalidReservationCritical,
\* or any error of a single-site object, goes to the user.
SubmitFails(c) ==
  /\ Scanned(c, "take")
  /\ found[c] = {}
  /\ \/ UNCHANGED jobs
     \/ /\ Len(jobs) < MaxJobs
        /\ \E s \in at[c] : jobs' = Append(jobs, New(s))
  /\ Return(c, "raised")
  /\ UNCHANGED <<conf, cache, wait, hist, calls>>

\* find_slot_and_start of a multi-site object: everything is there already.
AllCreated(c) ==
  /\ Scanned(c, "created")
  /\ SitesOf(found[c]) = conf[c]
  /\ Reserved(c, cache[c])
  /\ UNCHANGED <<jobs, conf, cache, wait, hist, calls>>

\* _providers: the sites without a job.
Missing(c) == conf[c] \ SitesOf(found[c])

\* A date is found for them; they are started in turn.
SlotFound(c) ==
  /\ Scanned(c, "created")
  /\ rounds[c] < MaxRounds
  /\ \E s \in Missing(c) :
       /\ rest' = [rest EXCEPT ![c] = Missing(c) \ {s}]
       /\ Scan(c, {s}, "take")
  /\ UNCHANGED <<jobs, conf, cache, op, wait, rounds, dying, watch, last, hist, calls>>

\* Mutant of DestroyAll: the first provider is visited twice.
DestroyTwice(c, p) ==
  \E s \in conf[c] :
    /\ rest' = [rest EXCEPT ![c] = conf[c]]
    /\ Scan(c, {s}, p)

\* Providers.destroy, to start another round or to give up.
DestroyAll(c, p) ==
  \E s \in conf[c] :
    /\ rest' = [rest EXCEPT ![c] = conf[c] \ {s}]
    /\ Scan(c, {s}, p)

NoSlot(c) ==
  /\ Scanned(c, "created")
  /\ Missing(c) # {}
  /\ DestroyAll(c, "giveup")
  /\ UNCHANGED <<jobs, conf, cache, op, wait, rounds, dying, watch, last, hist, calls>>

\* InvalidReservationTime in the temporary Providers.
Refused(c) ==
  /\ Scanned(c, "take")
  /\ found[c] = {}
  /\ ~Single(c)
  /\ rounds' = [rounds EXCEPT ![c] = @ + 1]
  /\ DestroyAll(c, "again")
  /\ UNCHANGED <<jobs, conf, cache, op, wait, dying, watch, last, hist, calls>>

-----------------------------------------------------------------------------
(* Deletion *)

Killing(c) == pc[c] \in {"kill", "again", "giveup"} /\ todo[c] = {}
Waited(c) == op[c] # "destroy" \/ wait[c]

\* job_delete: the request (an error "already killed" is ignored) ...
Delete(c, j) ==
  /\ Killing(c)
  /\ dying[c] = {}
  /\ j \in found[c]
  /\ jobs' = IF Listed(j) /\ ~Doomed(j) THEN [jobs EXCEPT ![j].deleted = calls]
             ELSE jobs
  /\ found' = [found EXCEPT ![c] = @ \ {j}]
  /\ dying' = [dying EXCEPT ![c] = IF Waited(c) THEN {j} ELSE {}]
  /\ UNCHANGED <<conf, cache, op, wait, pc, todo, at, rest, rounds, watch,
                 last, hist, calls>>

\* Mutant of StillThere: a job that has not started is not waited for.
StillRunning(j) == jobs[j].st = "running"

\* while job.state in ["running", "waiting", "launching"]
StillThere(j) == jobs[j].st \in {"waiting", "running"}

\* ... and its end.
Gone(c, j) ==
  /\ j \in dying[c]
  /\ ~StillThere(j)
  /\ dying' = [dying EXCEPT ![c] = {}]
  /\ UNCHANGED <<jobs, conf, cache, op, wait, pc, scan, rest, rounds, watch,
                 last, hist, calls>>

\* All jobs of the provider in hand are deleted: the next one, or the end.
Deleted(c) ==
  /\ Killing(c)
  /\ found[c] = {} /\ dying[c] = {}
  /\ \/ \E s \in rest[c] :
          /\ rest' = [rest EXCEPT ![c] = @ \ {s}]
          /\ Scan(c, {s}, pc[c])
          /\ UNCHANGED <<op, last, rounds, dying, watch>>
     \/ /\ rest[c] = {}
        /\ pc[c] = "again"
        /\ Scan(c, conf[c], "created")
        /\ UNCHANGED <<op, last, walk, watch>>
     \/ /\ rest[c] = {}
        /\ pc[c] # "again"
        /\ Return(c, IF pc[c] = "kill" THEN "destroyed" ELSE "raised")
  /\ UNCHANGED <<jobs, conf, cache, wait, hist, calls>>

-----------------------------------------------------------------------------
(* Waiting *)

\* driver.jobs of a multi-site object is loaded.
Load(c) ==
  /\ Scanned(c, "load")
  /\ cache' = [cache EXCEPT ![c] = found[c]]
  /\ StartWait(c)
  /\ UNCHANGED <<jobs, conf, op, wait, scan, walk, last, hist, calls>>

\* Mutant of AllRunning: the job refreshed last decides.
LastRunning(c, j) == jobs[j].st = "running"

\* all_running = all_running and job.state == "running"
AllRunning(c, j) == running[c] /\ jobs[j].st = "running"

Refresh(c, j) ==
  /\ pc[c] = "wait"
  /\ j \in cache[c] \ seen[c]
  /\ IF jobs[j].st = "error"
       THEN Return(c, "raised")
       ELSE /\ seen' = [seen EXCEPT ![c] = @ \cup {j}]
            /\ running' = [running EXCEPT ![c] = AllRunning(c, j)]
            /\ UNCHANGED <<op, pc, last, scan, walk>>
  /\ UNCHANGED <<jobs, conf, cache, wait, hist, calls>>

\* Mutant of Reset: all_running is set before the loop only.
Kept(c) == running[c]

\* all_running = True, in each iteration
Reset(c) == TRUE

\* The iteration is over: the next one, or the end of wait_for_jobs.
Iterate(c) ==
  /\ pc[c] = "wait"
  /\ seen[c] = cache[c]
  /\ IF running[c]
       THEN Return(c, "ready")
       ELSE /\ seen' = [seen EXCEPT ![c] = {}]
            /\ running' = [running EXCEPT ![c] = Reset(c)]
            /\ UNCHANGED <<op, pc, last, scan, walk>>
  /\ UNCHANGED <<jobs, conf, cache, wait, hist, calls>>

\* The process is killed; the next one starts with a new object.
Crash(c) ==
  /\ \/ pc[c] # "idle"
     \/ cache[c] # {}
  /\ Return(c, "none")
  /\ cache' = [cache EXCEPT ![c] = {}]
  /\ UNCHANGED <<jobs, conf, wait, hist, calls>>

-----------------------------------------------------------------------------
(* OAR *)

Set(j, st) ==
  /\ jobs' = [jobs EXCEPT ![j].st = st]
  /\ UNCHANGED <<conf, cache, op, wait, pc, scan, walk, watch, last, hist, calls>>

\* A job starts, or cannot.
Start(j) ==
  /\ jobs[j].st = "waiting"
  /\ \E st \in {"running", "error"} : Set(j, st)

\* Its walltime is spent, or someone kills it.
End(j) ==
  /\ Listed(j)
  /\ ~Doomed(j)
  /\ Set(j, "over")

\* A deletion takes effect.
Killed(j) ==
  /\ Listed(j)
  /\ Doomed(j)
  /\ Set(j, "over")

Step(c) ==
  \/ \E s \in Sites : List(c, s)
  \/ Reload(c) \/ Submit(c) \/ SubmitFails(c)
  \/ AllCreated(c) \/ SlotFound(c) \/ NoSlot(c) \/ Refused(c)
  \/ \E j \in Ids : Delete(c, j) \/ Gone(c, j) \/ Refresh(c, j)
  \/ Deleted(c) \/ Load(c) \/ Iterate(c)

Next ==
  \/ \E c \in Clients :
       \/ \E o \in {"init", "async", "destroy"}, w \in BOOLEAN :
            (w \/ o = "destroy") /\ Call(c, o, w)
       \/ Step(c)
       \/ Crash(c)
  \/ \E j \in Ids : Start(j) \/ End(j) \/ Killed(j)

Spec == Init /\ [][Next]_vars

\* The code goes on, a waiting job starts (or fails) some day and a deletion
\* takes effect.  No call, crash or end of a walltime is due.
FairSpec ==
  /\ Spec
  /\ \A c \in Clients : WF_vars(Step(c))
  /\ \A j \in 1 .. MaxJobs :
       /\ WF_vars(j \in Ids /\ Start(j))
       /\ WF_vars(j \in Ids /\ Killed(j))

-----------------------------------------------------------------------------
(* Properties *)

Steps == {"idle", "created", "take", "load", "wait", "kill", "again", "giveup"}
JobStates == {"waiting", "running", "over", "error"}

\* Types; no scan leaves the sites of its object, and the temporary Providers
\* visits each of them once.
TypeOK ==
  /\ jobs \in Seq([site : Sites, st : JobStates, deleted : 0 .. MaxCalls])
  /\ Len(jobs) <= MaxJobs
  /\ conf \in [Clients -> SUBSET Sites]
  /\ \A v \in {cache, found, dying, seen, past} : v \in [Clients -> SUBSET Ids]
  /\ op \in [Clients -> {"none", "init", "async", "destroy"}]
  /\ wait \in [Clients -> BOOLEAN]
  /\ pc \in [Clients -> Steps]
  /\ running \in [Clients -> BOOLEAN] /\ fresh \in [Clients -> BOOLEAN]
  /\ rounds \in [Clients -> 0 .. MaxRounds]
  /\ last \in [Clients -> {"none", "raised", "reserved", "ready", "destroyed"}]
  /\ \A c \in Clients :
       /\ todo[c] \subseteq at[c]
       /\ at[c] \subseteq conf[c]
       /\ rest[c] \subseteq conf[c] \ at[c]
  /\ calls \in 0 .. MaxCalls

\* "Using EnOSlib there can be only one job per site with name job_name"
\* (grid_reload_jobs_from_name): also when answers are lost, a multi-site
\* reservation is retried and the process is killed and started again.
OneJobPerSite ==
  \A j, k \in Ids : Listed(j) /\ Listed(k) /\ jobs[j].site = jobs[k].site => j = k

\* destroy leaves no job of its sites that is not being deleted, and none
\* at all if it was to wait.
DestroyLeavesNone ==
  \A c \in Clients : last[c] = "destroyed" =>
    \A j \in Ids : Listed(j) /\ jobs[j].site \in conf[c] =>
      Doomed(j) /\ ~wait[c]

\* No job ended during the call, except those it deleted itself.
Untouched(c) ==
  \A j \in Ids \ past[c] : ~Listed(j) => jobs[j].st = "over" /\ jobs[j].deleted = calls

\* init returns with jobs that have all started and that were not over when
\* it was called.  On an object that did not know its jobs yet, and unless jobs
\* failed or ended meanwhile, there is one for each of its sites: no site is
\* dropped on the way through the temporary Providers and the reload that
\* follows.
ReadyIsComplete ==
  \A c \in Clients : last[c] = "ready" =>
    /\ \A j \in cache[c] : jobs[j].st \in {"running", "over"} /\ j \notin past[c]
    /\ fresh[c] /\ Untouched(c) => SitesOf(cache[c]) = conf[c]

\* "make sure jobs is reloaded (if any)" (Driver.jobs): init waits for the
\* jobs that exist, not for those that were over before it was called.
WaitsForCurrent ==
  \A c \in Clients : pc[c] = "wait" => cache[c] \cap past[c] = {}

\* Every call ends, unless it waits for a job that is over: wait_for_jobs
\* only leaves its loop for jobs that run or are in error.
CallsEndUnlessJobOver ==
  \A c \in Clients :
    op[c] # "none" ~>
      (op[c] = "none" \/ \E j \in cache[c] : jobs[j].st = "over")
=============================================================================
