------------------------------ MODULE Providers ------------------------------
(***************************************************************************)
(* enoslib.infra.providers: securing resources on several testbeds at one  *)
(* common date.  One client process calls Providers.init or .async_init;   *)
(* the testbeds answer, end jobs, kill jobs, and the clock runs on between *)
(* any two steps of the client.                                            *)
(*                                                                         *)
(* A provider has one of four kinds:                                       *)
(*   "g5k"    job based; offset_walltime changes the configuration, the    *)
(*            driver submits the walltime it copied when it was built;     *)
(*   "iotlab" job based; walltimes are whole minutes;                      *)
(*   "plain"  no reservation system and no walltime (vagrant, fabric);     *)
(*   "static" no reservation system, offset_walltime not implemented       *)
(*            (static, openstack, chameleon).                              *)
(* Dates and durations are seconds; the clock starts at 0.                 *)
(***************************************************************************)
EXTENDS Integers

CONSTANTS
  N,              \* number of providers, in the order of the user's list
  Kind,           \* their kinds
  Walltime,       \* the walltime each was configured with
  Args,           \* (start_time, time_window) pairs callers use; negative: None
  DefaultWindow,  \* 7200 in the code
  Hints,          \* dates a testbed may propose when it refuses a job
  Delays,         \* how far the clock may jump at once
  MaxNow, MaxCalls, MaxCrashes  \* bounds of the exploration

Provs == 1 .. N
TIME_INCREMENT == 300
MAX_RETRY == 3
DAY == 86400
NoDate == -1
NoHint == -1

ASSUME ProvidersAssumption ==
  /\ N \in Nat \ {0}
  /\ Kind \in [Provs -> {"g5k", "iotlab", "plain", "static"}]
  /\ Walltime \in [Provs -> Nat \ {0}]
  /\ Args \subseteq [start : Int, window : Int]
  /\ DefaultWindow \in Nat
  /\ Hints \subseteq Nat
  /\ Delays \subseteq Nat \ {0}
  /\ MaxNow \in Nat /\ MaxCalls \in Nat /\ MaxCrashes \in Nat

VARIABLES
  now,      \* the clock
  job,      \* the job of each provider, as its testbed sees it
  conf,     \* self.providers: configured walltime and reservation date
  work,     \* their deep copies in _reserve, the ones being mutated
  pc,       \* where the client is
  mode,     \* "init" or "async": the method that was called
  start,    \* _reserve: start_time
  window,   \* _reserve: time_window
  slot,     \* find_slot: the date under test, then the common date
  todo,     \* providers the loop in progress has still to visit
  from,     \* start_provider_within_bounds: start_time
  retry,    \* start_provider_within_bounds: number of retries made
  hint,     \* date carried by the exception being handled, or NoHint
  outcome,  \* how the last call ended
  calls, crashes

client == <<conf, work, pc, mode, start, window, slot, todo, from, retry, hint,
            outcome>>
vars == <<now, job, client, calls, crashes>>

-----------------------------------------------------------------------------
(* Data *)

Confs == [walltime : Nat, date : Int]
NoJob == [st |-> "none", begin |-> NoDate, end |-> NoDate]
Jobs == [st : {"none", "live", "dying", "over"}, begin : Int, end : Int]

Steps == {"idle", "scan", "search", "attempt", "submit", "destroy", "load"}
Outcomes == {"none", "ok", "critical", "error", "killed"}

Configured == [p \in Provs |-> [walltime |-> Walltime[p], date |-> NoDate]]

\* The providers whose testbed knows jobs, reloaded by name.
Reserving(p) == Kind[p] \in {"g5k", "iotlab"}

\* A job reloaded by its name: a job being deleted still shows up.
Held(p) == job[p].st \in {"live", "dying"}
IsCreated(p) == Reserving(p) /\ Held(p)

Later(a, b) == IF a >= b THEN a ELSE b

\* for provider in providers: the next one to visit.
IsNext(p) == p \in todo /\ \A q \in todo : p <= q

-----------------------------------------------------------------------------
(* offset_walltime *)

\* The date tried next: growing margins keep it in the future.
Candidate == Later(now + 60 * (retry + 1) * (retry + 1), from)

\* Mutant of Remaining: start_time is not moved along with the date.
RemainingFromSlot(p) == work[p].walltime + (slot - Candidate)

\* Seconds left when the right end of the job stays where it is.
Remaining(p) == work[p].walltime + (from - Candidate)

\* Mutant of OffsetNegative: the sign is tested before the offset is applied.
UnshiftedNegative(p) == Reserving(p) /\ work[p].walltime <= 0

\* raise NegativeWalltime
OffsetNegative(p) == Reserving(p) /\ Remaining(p) <= 0

\* NotImplementedError, or ValueError: dt.time has no hour 24.
OffsetRaises(p) == Kind[p] = "static" \/ (Reserving(p) /\ Remaining(p) >= DAY)

OffsetWalltime(p) ==
  IF Kind[p] = "g5k" THEN Remaining(p)
  ELSE IF Kind[p] = "iotlab" THEN Remaining(p) - (Remaining(p) % 60)
  ELSE work[p].walltime

\* set_reservation is a no-op without a reservation system.
SetReservation(p, d) == IF Reserving(p) THEN d ELSE work[p].date

-----------------------------------------------------------------------------
(* The job a provider submits.  The walltime of a g5k job is the one the   *)
(* driver was built with; without a date the job starts at once.           *)

\* Mutant of SubmittedWalltime: every driver ignores the configuration.
ConfiguredWalltime(p) == Walltime[p]

SubmittedWalltime(p) ==
  IF Kind[p] = "g5k" THEN Walltime[p] ELSE work[p].walltime

SubmittedJob(p) ==
  LET begin == IF work[p].date = NoDate THEN now ELSE work[p].date
  IN  [st |-> "live", begin |-> begin,
       end |-> IF Reserving(p) THEN begin + SubmittedWalltime(p) ELSE NoDate]

\* get_or_create: reload the job called by this name, or submit one.
GetOrCreate(p) ==
  job' = [job EXCEPT ![p] = IF Held(p) THEN @ ELSE SubmittedJob(p)]

\* "Reservation too old": the date was passed when the request arrived.
TooOld(p) == Reserving(p) /\ work[p].date # NoDate /\ work[p].date < now

-----------------------------------------------------------------------------
(* Calling and ending *)

Init ==
  /\ now = 0
  /\ job = [p \in Provs |-> NoJob]
  /\ conf = Configured
  /\ work = Configured
  /\ pc = "idle"
  /\ mode = "init"
  /\ start = 0
  /\ window = 0
  /\ slot = NoDate
  /\ todo = {}
  /\ from = 0
  /\ retry = 0
  /\ hint = NoHint
  /\ outcome = "none"
  /\ calls = 0
  /\ crashes = 0

\* Providers.init / async_init up to the while loop of _reserve.  Jobs that
\* ended before the call are forgotten.
Call(a, m) ==
  /\ pc = "idle"
  /\ calls < MaxCalls
  /\ calls' = calls + 1
  /\ pc' = "scan"
  /\ mode' = m
  /\ window' = IF a.window < 0 THEN DefaultWindow ELSE a.window
  /\ start' = IF a.start < 0 THEN now + 60 ELSE a.start
  /\ outcome' = "none"
  /\ slot' = NoDate
  /\ job' = [p \in Provs |-> IF job[p].st = "over" THEN NoJob ELSE job[p]]
  /\ UNCHANGED <<now, conf, work, todo, from, retry, hint, crashes>>

\* The call returns or raises.
Finish(o) ==
  /\ pc' = "idle"
  /\ outcome' = o
  /\ todo' = {}
  /\ from' = 0
  /\ retry' = 0
  /\ hint' = NoHint

\* The mutated copies are dropped, self.providers stay as they were.
DropCopies ==
  /\ work' = conf
  /\ slot' = NoDate

\* An exception _reserve does not handle: nothing is destroyed.
Raise == Finish("error") /\ DropCopies /\ UNCHANGED conf

\* Mutant of ToDestroy: only the providers that were not started.
NotStarted == todo

\* destroy() visits all of self.providers, created in this round or before.
ToDestroy == Provs

\* self.destroy() is entered; h is the date of the exception being handled.
EnterDestroy(h) ==
  /\ pc' = "destroy"
  /\ hint' = h
  /\ todo' = ToDestroy
  /\ from' = 0
  /\ retry' = 0
  /\ DropCopies
  /\ UNCHANGED <<conf, outcome>>

-----------------------------------------------------------------------------
(* One round of _reserve *)

\* copy.deepcopy(self.providers), then find_slot_and_start keeps those that
\* are not created yet.
Scan ==
  /\ pc = "scan"
  /\ work' = conf
  /\ LET missing == {p \in Provs : ~IsCreated(p)} IN
     IF missing # {}
     THEN /\ todo' = missing
          /\ slot' = start
          /\ pc' = "search"
          /\ UNCHANGED <<outcome, from, retry, hint>>
     ELSE IF mode = "init"
     THEN /\ todo' = Provs
          /\ slot' = NoDate
          /\ pc' = "load"
          /\ UNCHANGED <<outcome, from, retry, hint>>
     ELSE slot' = NoDate /\ Finish("ok")
  /\ UNCHANGED <<now, job, conf, mode, start, window, calls, crashes>>

InWindow == slot <= start + window

\* A testbed says no: next date.  Only reservation systems ever do.
SlotBusy ==
  /\ pc = "search"
  /\ InWindow
  /\ \E p \in todo : Reserving(p)
  /\ slot' = slot + TIME_INCREMENT
  /\ UNCHANGED <<now, job, conf, work, pc, mode, start, window, todo, from,
                 retry, hint, outcome, calls, crashes>>

\* All of them say yes: start them one after the other.
SlotFound ==
  /\ pc = "search"
  /\ InWindow
  /\ pc' = "attempt"
  /\ from' = slot
  /\ UNCHANGED <<now, job, conf, work, mode, start, window, slot, todo, retry,
                 hint, outcome, calls, crashes>>

\* NoSlotError leaves find_slot: _reserve gives up.
SlotExhausted ==
  /\ pc = "search"
  /\ ~InWindow
  /\ EnterDestroy(NoHint)
  /\ UNCHANGED <<now, job, mode, start, window, calls, crashes>>

-----------------------------------------------------------------------------
(* start_provider_within_bounds *)

\* NoSlotError is turned into InvalidReservationTime(start_time + increment).
StartFails == EnterDestroy(start + TIME_INCREMENT)

\* Move the date forward, shorten the walltime, call async_init.
Attempt(p) ==
  /\ pc = "attempt"
  /\ IsNext(p)
  /\ ~OffsetNegative(p)
  /\ ~OffsetRaises(p)
  /\ work' = [work EXCEPT ![p] =
                [walltime |-> OffsetWalltime(p),
                 date |-> SetReservation(p, Candidate)]]
  /\ from' = Candidate
  /\ pc' = "submit"
  /\ UNCHANGED <<now, job, conf, mode, start, window, slot, todo, retry, hint,
                 outcome, calls, crashes>>

AttemptNegative(p) ==
  /\ pc = "attempt"
  /\ IsNext(p)
  /\ OffsetNegative(p)
  /\ StartFails
  /\ UNCHANGED <<now, job, mode, start, window, calls, crashes>>

AttemptRaises(p) ==
  /\ pc = "attempt"
  /\ IsNext(p)
  /\ OffsetRaises(p)
  /\ Raise
  /\ UNCHANGED <<now, job, mode, start, window, calls, crashes>>

\* The loop over the providers goes on, or ends and self.providers = providers.
NextProvider(p) ==
  IF todo # {p}
  THEN /\ todo' = todo \ {p}
       /\ pc' = "attempt"
       /\ from' = slot
       /\ retry' = 0
       /\ UNCHANGED <<conf, outcome, hint>>
  ELSE /\ conf' = work
       /\ IF mode = "async"
          THEN Finish("ok")
          ELSE /\ todo' = Provs
               /\ pc' = "load"
               /\ from' = 0
               /\ retry' = 0
               /\ UNCHANGED <<outcome, hint>>

SubmitAccepted(p) ==
  /\ pc = "submit"
  /\ IsNext(p)
  /\ ~TooOld(p)
  /\ GetOrCreate(p)
  /\ NextProvider(p)
  /\ UNCHANGED <<now, work, mode, start, window, slot, calls, crashes>>

\* InvalidReservationTooOld: try again with a larger margin, three times.
SubmitTooOld(p) ==
  /\ pc = "submit"
  /\ IsNext(p)
  /\ TooOld(p)
  /\ IF retry + 1 < MAX_RETRY
     THEN /\ retry' = retry + 1
          /\ pc' = "attempt"
          /\ UNCHANGED <<conf, work, slot, todo, from, hint, outcome>>
     ELSE StartFails
  /\ UNCHANGED <<now, job, mode, start, window, calls, crashes>>

\* InvalidReservationTime: the status was out of date, the scheduler proposes h.
SubmitRefused(p, h) ==
  /\ pc = "submit"
  /\ IsNext(p)
  /\ Reserving(p)
  /\ EnterDestroy(h)
  /\ UNCHANGED <<now, job, mode, start, window, calls, crashes>>

\* InvalidReservationCritical or any other exception of async_init.
SubmitError(p) ==
  /\ pc = "submit"
  /\ IsNext(p)
  /\ Raise
  /\ UNCHANGED <<now, job, mode, start, window, calls, crashes>>

-----------------------------------------------------------------------------
(* self.destroy() and what the two handlers of _reserve do after it *)

\* destroy(wait=True): delete the job that is there ...
Delete(p) ==
  /\ pc = "destroy"
  /\ IsNext(p)
  /\ job[p].st = "live"
  /\ job' = [job EXCEPT ![p] = IF Reserving(p) THEN [@ EXCEPT !.st = "dying"]
                               ELSE NoJob]
  /\ UNCHANGED <<now, client, calls, crashes>>

\* Mutant of Gone: destroy(wait=False).
DeletionAsked(p) == job[p].st # "live"

Gone(p) == ~Held(p)

\* ... and wait until the testbed does not list it any more.
Deleted(p) ==
  /\ pc = "destroy"
  /\ IsNext(p)
  /\ Gone(p)
  /\ todo' = todo \ {p}
  /\ UNCHANGED <<now, job, conf, work, pc, mode, start, window, slot, from,
                 retry, hint, outcome, calls, crashes>>

\* except NoSlotError: raise InvalidReservationCritical.
Refuse ==
  /\ pc = "destroy"
  /\ todo = {}
  /\ hint = NoHint
  /\ Finish("critical")
  /\ UNCHANGED <<now, job, conf, work, mode, start, window, slot, calls, crashes>>

\* Mutant of NextStart: the proposal is always followed.
ProposedStart == hint

\* The date proposed, or 300 seconds later when it is no progress.
NextStart == IF hint <= start THEN start + TIME_INCREMENT ELSE hint

\* except InvalidReservationTime: next round, with the same right edge.
NextRound ==
  /\ pc = "destroy"
  /\ todo = {}
  /\ hint # NoHint
  /\ window' = window + (start - NextStart)
  /\ start' = NextStart
  /\ pc' = "scan"
  /\ hint' = NoHint
  /\ UNCHANGED <<now, job, conf, work, mode, slot, todo, from, retry, outcome,
                 calls, crashes>>

-----------------------------------------------------------------------------
(* Providers.init, after _reserve: provider.init() reloads the reservation.  *)
(* A job that has gone in the meantime is submitted again, for its old date. *)

Load(p) ==
  /\ pc = "load"
  /\ IsNext(p)
  /\ Held(p) \/ ~TooOld(p)
  /\ GetOrCreate(p)
  /\ IF todo # {p}
     THEN todo' = todo \ {p} /\ UNCHANGED <<pc, outcome, from, retry, hint>>
     ELSE Finish("ok")
  /\ UNCHANGED <<now, conf, work, mode, start, window, slot, calls, crashes>>

\* Too old, refused, or broken while waiting for the nodes.
LoadError(p) ==
  /\ pc = "load"
  /\ IsNext(p)
  /\ Raise
  /\ UNCHANGED <<now, job, mode, start, window, calls, crashes>>

-----------------------------------------------------------------------------
(* The environment *)

\* The process is killed; the next one builds its providers anew.
Crash ==
  /\ pc # "idle"
  /\ crashes < MaxCrashes
  /\ crashes' = crashes + 1
  /\ conf' = Configured
  /\ work' = Configured
  /\ slot' = NoDate
  /\ Finish("killed")
  /\ UNCHANGED <<now, job, mode, start, window, calls>>

Tick(d) ==
  /\ now + d <= MaxNow
  /\ now' = now + d
  /\ UNCHANGED <<job, client, calls, crashes>>

\* A job reaches its end, or is killed by someone else.
JobEnds(p) ==
  /\ Reserving(p)
  /\ job[p].st = "live"
  /\ job' = [job EXCEPT ![p] = [NoJob EXCEPT !.st = "over"]]
  /\ UNCHANGED <<now, client, calls, crashes>>

\* The testbed completes a deletion.
JobDeleted(p) ==
  /\ job[p].st = "dying"
  /\ job' = [job EXCEPT ![p] = NoJob]
  /\ UNCHANGED <<now, client, calls, crashes>>

-----------------------------------------------------------------------------

Reserve == Scan \/ SlotBusy \/ SlotFound \/ SlotExhausted

StartProvider(p) ==
  \/ Attempt(p) \/ AttemptNegative(p) \/ AttemptRaises(p)
  \/ SubmitAccepted(p) \/ SubmitTooOld(p) \/ SubmitError(p)
  \/ \E h \in Hints : SubmitRefused(p, h)

Destroy == (\E p \in Provs : Delete(p) \/ Deleted(p)) \/ Refuse \/ NextRound

ClientStep ==
  \/ Reserve
  \/ Destroy
  \/ \E p \in Provs : StartProvider(p) \/ Load(p) \/ LoadError(p)

Environment ==
  \/ Crash
  \/ \E d \in Delays : Tick(d)
  \/ \E p \in Provs : JobEnds(p) \/ JobDeleted(p)

Next ==
  \/ \E a \in Args, m \in {"init", "async"} : Call(a, m)
  \/ ClientStep
  \/ Environment

\* The client's thread runs and a testbed completes the deletions it accepts;
\* nobody is obliged to call, to crash or to end a job.
Fairness ==
  /\ WF_vars(ClientStep)
  /\ \A p \in Provs : WF_vars(JobDeleted(p))

Spec == Init /\ [][Next]_vars
FairSpec == Spec /\ Fairness

-----------------------------------------------------------------------------
(* Properties *)

TypeOK ==
  /\ now \in Nat
  /\ job \in [Provs -> Jobs]
  /\ conf \in [Provs -> Confs]
  /\ work \in [Provs -> Confs]
  /\ pc \in Steps
  /\ mode \in {"init", "async"}
  /\ start \in Nat
  /\ window \in Int
  /\ slot \in Int
  /\ todo \subseteq Provs
  /\ from \in Int
  /\ retry \in 0 .. MAX_RETRY - 1
  /\ hint \in Nat \cup {NoHint}
  /\ outcome \in Outcomes
  /\ calls \in Nat
  /\ crashes \in Nat

\* The right end of a job stays put through every retry: what the date loses,
\* the walltime pays, and it is paid once.  Whole-minute walltimes lose less
\* than a minute per attempt on top.
RightEndPinned ==
  \A p \in todo :
    pc \in {"attempt", "submit"} /\ IsNext(p) /\ Reserving(p) =>
      LET end == from + work[p].walltime
          wanted == slot + conf[p].walltime
      IN  IF Kind[p] = "g5k" THEN end = wanted
          ELSE /\ end <= wanted
               /\ end > wanted - 60 * (retry + 1)

\* When _reserve raises InvalidReservationCritical for want of a slot, no job
\* of any provider is left on any testbed, not even one being deleted: those of
\* an earlier call or of an interrupted process included.
NothingLeftOnRefusal ==
  outcome = "critical" => \A p \in Provs : ~Held(p)

\* A call that succeeded has not destroyed a job it counts on: each provider
\* has the job it was given, unless its testbed ended that job by itself.
\* (A process killed in the middle of destroy() spoils this for the next one,
\* which takes a job being deleted for a running one.)
SuccessHoldsAll ==
  outcome = "ok" /\ crashes = 0 =>
    \A p \in Provs : job[p].st \in {"live", "over"}

JobCreated(p) == pc = "submit" /\ ~Held(p) /\ Held(p)'

\* "not exceed the right bound ... and start in the future": a job starts at the
\* common date or later, and ends no later than a job started at the common
\* date with the configured walltime.
WithinSlot(p) ==
  JobCreated(p) =>
    /\ job'[p].begin >= slot
    /\ job'[p].end <= slot + conf[p].walltime

IotlabJobsWithinSlot ==
  [][\A p \in Provs : Kind[p] = "iotlab" => WithinSlot(p)]_vars

\* The same for Grid'5000.
G5kJobsWithinSlot ==
  [][\A p \in Provs : Kind[p] = "g5k" => WithinSlot(p)]_vars

\* Every call ends, whatever the testbeds answer.
CallsEnd == pc # "idle" ~> pc = "idle"

\* The interval opened by a call is only ever narrowed from the left, and the
\* common date is taken from what is left of it.
Promise == INSTANCE BoundedReservation WITH
  phase <- IF pc # "idle" THEN "open"
           ELSE CASE outcome = "none" -> "closed"
                  [] outcome = "ok" -> "granted"
                  [] outcome = "critical" -> "refused"
                  [] OTHER -> "aborted",
  lo <- start,
  hi <- start + window,
  date <- IF pc = "idle" /\ outcome = "ok" THEN slot ELSE NoDate

ImplementsPromise == Promise!Spec
=============================================================================
