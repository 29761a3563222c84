----------------------------- MODULE Planning -----------------------------
(***************************************************************************)
(* The planning service (enoslib/service/planning/planning.py): dated      *)
(* events on hosts, put in their crontabs by deploy and removed by destroy *)
(* which also kills what was started, through a process registry. Cron     *)
(* runs the jobs of a minute, each of which first sleeps for the seconds   *)
(* of its date. Time is counted in minutes, DayLength of which make a day; *)
(* an event is within a month.                                             *)
(***************************************************************************)
EXTENDS Registry

CONSTANTS
    Plans,       \* what a client may plan: sequences of events
    DayLength,   \* minutes of a day
    MaxTime,     \* bound: minutes
    MaxCalls     \* bound: calls of deploy and destroy

Actions == {"start", "kill", "set"}
Event == [at : 1..MaxTime, host : Workers, group : Groups, do : Actions]

ASSUME PlanningAssumption ==
    /\ DayLength \in Nat \ {0} /\ MaxTime \in Nat /\ MaxCalls \in Nat
    /\ Plans \subseteq Seq(Event)

VARIABLES
    now,        \* the current minute
    events,     \* the events of the planning
    crontab,    \* crontab[h]: its entries, one for each name
    sleeping,   \* jobs that were started by cron and sleep
    doing,      \* the step of destroy that comes next
    fired,      \* history: jobs cron has started, and when
    since,      \* history: when the planning was deployed, 0 if it is not
    late,       \* history: jobs that slept when destroy removed the entries
    calls

planVars == <<now, events, crontab, sleeping, doing, fired, since, late, calls>>
allVars == <<registryVars, planVars>>

Entry == [at : 1..(MaxTime + 3), group : Groups, do : Actions, by : {"planning", "registry", "process"}]

PlanTypeOK ==
    /\ RegTypeOK
    /\ now \in 0..MaxTime
    /\ events \in Plans
    /\ \A h \in Workers : crontab[h] \subseteq Entry
    /\ sleeping \subseteq [host : Workers, group : Groups, do : Actions]
    /\ doing \in {"nothing", "status", "kill", "kill_async"}
    /\ calls \in 0..MaxCalls

PlanInit ==
    /\ RegInit
    /\ now = 0
    /\ events \in Plans
    /\ crontab = [h \in Workers |-> {}]
    /\ sleeping = {} /\ fired = {} /\ late = {}
    /\ doing = "nothing"
    /\ since = 0
    /\ calls = 0

Events == {events[i] : i \in DOMAIN events}
Hosts == {e.host : e \in Events}
Names == {e.group : e \in Events}
Day(t) == t \div DayLength

-----------------------------------------------------------------------------
(* Cron *)

\* Python counts the days of a week from Monday, cron from Sunday: what is
\* written is the day before. Cron runs an entry that has a day of the month
\* and a day of the week on both.
Fires(t, at) ==
    /\ t % DayLength = at % DayLength
    /\ Day(t) = Day(at) \/ (Day(t) + 1) % 7 = Day(at) % 7

\* Jobs that sleep have less than a minute to do so.
Tick ==
    /\ now < MaxTime /\ sleeping = {}
    /\ now' = now + 1
    /\ LET due == {d \in Workers \X Entry : d[2] \in crontab[d[1]] /\ Fires(now + 1, d[2].at)}
       IN  /\ sleeping' = {[host |-> d[1], group |-> d[2].group, do |-> d[2].do] : d \in due}
           /\ fired' = fired \cup {[host |-> d[1], entry |-> d[2], when |-> now + 1] : d \in due}
    /\ UNCHANGED <<registryVars, events, crontab, doing, since, late, calls>>

\* cg_start, cg_stop, cg_write
Wake(job) ==
    /\ job \in sleeping
    /\ sleeping' = sleeping \ {job}
    /\ IF job.do = "start" THEN Run(job.host, job.group) /\ UNCHANGED steady
       ELSE IF job.do = "kill" THEN Stop({<<job.host, job.group>>})
       ELSE UNCHANGED <<cgroup, steady>>
    /\ UNCHANGED <<renamed, registry, listed, starts>>
    /\ UNCHANGED <<now, events, crontab, doing, fired, since, late, calls>>

-----------------------------------------------------------------------------
(* The planning *)

\* check: the place of an event among those of its group on its host, in the order of
\* their dates (those of one date in the order of the planning).
PlaceOf(i) ==
    Cardinality({j \in DOMAIN events :
        /\ events[j].host = events[i].host /\ events[j].group = events[i].group
        /\ events[j].at < events[i].at \/ (events[j].at = events[i].at /\ j <= i)})

\* The transitions it has: a set event is in none and raises.
Checked == \A i \in DOMAIN events : events[i].do = (IF PlaceOf(i) % 2 = 1 THEN "start" ELSE "kill")

\* Mutant of EntryName: the date is left out of the name of an entry.
NameOnly(e) == <<e.group, e.by>>

\* The name of an entry: the module cron replaces an entry of the same name.
EntryName(e) == <<e.group, e.at, e.by>>

Put(tab, new) == {c \in tab : \A e \in new : EntryName(c) # EntryName(e)} \cup new
Planned(e) == [at |-> e.at, group |-> e.group, do |-> e.do, by |-> "planning"]

\* The entries of the events on h: of those of one name the last one.
EntriesOf(h) ==
    LET own == {i \in DOMAIN events : events[i].host = h}
        name(i) == EntryName(Planned(events[i]))
    IN  {Planned(events[i]) : i \in {i \in own : \A j \in own : j > i => name(j) # name(i)}}

\* deploy, which does not check: the entries of a host are put one after the other.
DeployPlanning ==
    /\ doing = "nothing" /\ calls < MaxCalls
    /\ crontab' = [h \in Workers |-> Put(crontab[h], EntriesOf(h))]
    /\ since' = now + 1
    /\ late' = {}
    /\ calls' = calls + 1
    /\ UNCHANGED <<registryVars, now, events, sleeping, doing, fired>>

\* destroy: the entries are removed by their names, ...
RemoveEntries ==
    /\ doing = "nothing" /\ calls < MaxCalls
    /\ crontab' = [h \in Workers |->
          {c \in crontab[h] : \A e \in Events : e.host = h => EntryName(c) # EntryName(Planned(e))}]
    /\ doing' = "status"
    /\ late' = sleeping
    /\ since' = 0
    /\ calls' = calls + 1
    /\ UNCHANGED <<registryVars, now, events, sleeping, fired>>

\* Mutant of StatusNames: those of the events to come.
NamesToCome == {e.group : e \in {e \in Events : e.at > now}}

\* status: the groups named by the planning.
StatusNames == Names

\* ... then a registry is built from what is listed, or an exception ends it, ...
Status(wait) ==
    /\ doing = "status"
    /\ \E order \in Orders(Hosts, StatusNames) :
          IF Raises(order)
          THEN /\ doing' = "nothing"
               /\ late' = late \cup [host : Workers, group : Groups, do : {"start"}]
               /\ UNCHANGED <<registry, steady, listed>>
          ELSE /\ registry' = Built(order, StatusNames)
               /\ listed' = Recorded(registry')
               /\ steady' = Alive
               /\ doing' = IF wait THEN "kill" ELSE "kill_async"
               /\ UNCHANGED late
    /\ UNCHANGED <<renamed, cgroup, starts, now, events, crontab, sleeping, fired, since, calls>>

\* ... and killed, ...
KillRegistry ==
    /\ doing = "kill"
    /\ Stop(Recorded(registry))
    /\ doing' = "nothing"
    /\ UNCHANGED <<renamed, registry, listed, starts>>
    /\ UNCHANGED <<now, events, crontab, sleeping, fired, since, late, calls>>

KillEntry(g, at, by) == [at |-> at, group |-> g, do |-> "kill", by |-> by]

\* ... or killed two minutes later, by entries of their own.
KillAsync ==
    /\ doing = "kill_async"
    /\ crontab' = [h \in Workers |-> crontab[h] \cup
          {KillEntry(g, now + 2, "registry") : g \in {g \in Groups : <<h, g>> \in Recorded(registry)}}]
    /\ doing' = "nothing"
    /\ late' = late \cup [host : Workers, group : Groups, do : {"start"}]
    /\ UNCHANGED <<registryVars, now, events, sleeping, fired, since, calls>>

\* ProcessGroup.kill_async: an entry in the crontab of the host.
KillAt(p, at) == KillEntry(p.group, at, "process")

\* kill_async_incr, of the registry that status gave: an entry for each process.
KillAsyncIncr(n, interval) ==
    /\ doing = "nothing" /\ calls < MaxCalls /\ AliveProcesses # {}
    /\ \E order \in AtRandom(n) :
          crontab' = [h \in Workers |->
              Put(crontab[h], {KillAt(order[k], now + 2 + (k - 1) * interval) :
                                  k \in {k \in DOMAIN order : order[k].host = h}})]
    /\ calls' = calls + 1
    /\ UNCHANGED <<registryVars, now, events, sleeping, doing, fired, since, late>>

PlanNext ==
    \/ Tick \/ DeployPlanning \/ RemoveEntries \/ KillRegistry \/ KillAsync
    \/ \E job \in sleeping : Wake(job)
    \/ \E wait \in BOOLEAN : Status(wait)
    \/ \E n \in 1..2, interval \in 0..1 : KillAsyncIncr(n, interval)
    \/ \E h \in Workers, g \in Groups : ProcessEnds(h, g) /\ UNCHANGED planVars

PlanSpec == PlanInit /\ [][PlanNext]_allVars

-----------------------------------------------------------------------------
(* Properties *)

\* No two events of a group of a host are in the same minute.
DistinctDates ==
    \A i, j \in DOMAIN events :
       /\ events[i].at = events[j].at /\ events[i].host = events[j].host
       /\ events[i].group = events[j].group
       => i = j

\* A planning that check accepts is followed: deployed on the day of its events, before the
\* first, with nothing started by an earlier deploy, then on that day a group runs only
\* between its start and the next kill, in whatever order the events were added
\* (Planning.check, and the entries being told apart by name and date).
PlanFollowed ==
    /\ since # 0 /\ sleeping = {} /\ Checked /\ DistinctDates
    /\ \A e \in Events : since <= e.at /\ Day(since - 1) = Day(e.at)
    /\ Day(now) = Day(since - 1)
    /\ \A f \in fired : since <= f.when
    => \A p \in Alive : \E e \in Events :
          /\ <<e.host, e.group>> = p /\ e.do = "start" /\ e.at <= now
          /\ \A f \in Events : <<f.host, f.group>> = p => f.at <= e.at \/ f.at > now

\* destroy, when it waits, leaves none of the entries of the planning, and no
\* process of it runs, then and later, but for jobs that cron had already
\* started and that slept while the entries were removed.
NothingOutlives ==
    calls > 0 /\ since = 0 /\ doing = "nothing" /\ renamed = {} =>
       /\ \A h \in Workers : \A e \in crontab[h] : e.by # "planning"
       /\ \A p \in Alive : [host |-> p[1], group |-> p[2], do |-> "start"] \in late

\* An event occurs at its date ("date of the event", the documentation of events
\* says) and not on another day: the day of the week that deploy gives to cron.
OnItsDate == \A f \in fired : f.when = f.entry.at
=============================================================================
