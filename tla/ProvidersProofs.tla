--------------------------- MODULE ProvidersProofs ---------------------------
(***************************************************************************)
(* What holds of Providers for every list of providers, every walltime,    *)
(* every answer of the testbeds and every speed of the clock.              *)
(***************************************************************************)
EXTENDS Providers, TLAPS

-----------------------------------------------------------------------------
(* The arithmetic of the walltime *)

LEMMA CandidateType ==
  ASSUME TypeOK
  PROVE  /\ Candidate \in Int
         /\ Candidate >= from
<1>1. PICK margin \in Int : margin = 60 * (retry + 1) * (retry + 1)
  BY DEF TypeOK, MAX_RETRY
<1> QED
  BY <1>1 DEF TypeOK, Candidate, Later

\* Rounding down to the minute costs less than a minute.
LEMMA OffsetBounds ==
  ASSUME TypeOK, NEW p \in Provs, ~OffsetNegative(p)
  PROVE  /\ OffsetWalltime(p) \in Nat
         /\ Kind[p] = "g5k" => OffsetWalltime(p) = Remaining(p)
         /\ Kind[p] = "iotlab" =>
              OffsetWalltime(p) \in Remaining(p) - 59 .. Remaining(p)
<1>1. /\ Remaining(p) \in Int
      /\ work[p].walltime \in Nat
  BY CandidateType DEF TypeOK, Confs, Remaining
<1>2. CASE Reserving(p)
  <2>1. Remaining(p) > 0
    BY <1>1, <1>2 DEF OffsetNegative
  <2>2. PICK r \in Int : r = Remaining(p)
    BY <1>1
  <2>3. r - (r % 60) \in Nat /\ r - (r % 60) \in r - 59 .. r
    BY <2>1, <2>2
  <2> QED
    BY <1>1, <2>1, <2>2, <2>3 DEF OffsetWalltime
<1>3. CASE ~Reserving(p)
  BY <1>1, <1>3 DEF OffsetWalltime, Reserving
<1> QED
  BY <1>2, <1>3

LEMMA SubmittedJobType ==
  ASSUME TypeOK, NEW p \in Provs
  PROVE  SubmittedJob(p) \in Jobs
<1>1. SubmittedWalltime(p) \in Int
  BY ProvidersAssumption DEF SubmittedWalltime, TypeOK, Confs
<1> QED
  BY <1>1 DEF SubmittedJob, TypeOK, Jobs, Confs, NoDate

LEMMA ConfiguredType == Configured \in [Provs -> Confs]
  BY ProvidersAssumption DEF Configured, Confs, NoDate

-----------------------------------------------------------------------------
(* Type correctness *)

LEMMA InitType == Init => TypeOK
  BY ConfiguredType DEF Init, TypeOK, Jobs, NoJob, NoDate, NoHint, MAX_RETRY,
     Steps, Outcomes

LEMMA GetOrCreateType ==
  ASSUME TypeOK, NEW p \in Provs, GetOrCreate(p)
  PROVE  job' \in [Provs -> Jobs]
  BY SubmittedJobType DEF GetOrCreate, TypeOK

LEMMA NextType == TypeOK /\ [Next]_vars => TypeOK'
<1> SUFFICES ASSUME TypeOK, [Next]_vars PROVE TypeOK'
  OBVIOUS
<1> USE ProvidersAssumption DEF Steps, Outcomes, NoDate, NoHint, MAX_RETRY,
     TIME_INCREMENT
<1>1. ASSUME NEW a \in Args, NEW m \in {"init", "async"}, Call(a, m)
      PROVE  TypeOK'
  <2>1. job' \in [Provs -> Jobs]
    BY <1>1 DEF Call, TypeOK, Jobs, NoJob
  <2>2. a.start \in Int /\ a.window \in Int
    OBVIOUS
  <2> QED
    BY <1>1, <2>1, <2>2 DEF Call, TypeOK
<1>2. CASE Reserve
  <2>1. CASE Scan
    BY <2>1 DEF Scan, Finish, TypeOK
  <2>2. CASE SlotBusy
    BY <2>2 DEF SlotBusy, TypeOK
  <2>3. CASE SlotFound
    BY <2>3 DEF SlotFound, TypeOK
  <2>4. CASE SlotExhausted
    BY <2>4 DEF SlotExhausted, EnterDestroy, DropCopies, ToDestroy, TypeOK
  <2> QED
    BY <1>2, <2>1, <2>2, <2>3, <2>4 DEF Reserve
<1>3. ASSUME NEW p \in Provs, StartProvider(p)
      PROVE  TypeOK'
  <2>1. CASE Attempt(p)
    <3>1. OffsetWalltime(p) \in Nat
      BY <2>1, OffsetBounds DEF Attempt
    <3>2. SetReservation(p, Candidate) \in Int
      BY CandidateType DEF SetReservation, TypeOK, Confs
    <3>3. work' \in [Provs -> Confs]
      BY <2>1, <3>1, <3>2 DEF Attempt, TypeOK, Confs
    <3> QED
      BY <2>1, <3>3, CandidateType DEF Attempt, TypeOK
  <2>2. CASE AttemptNegative(p)
    BY <2>2 DEF AttemptNegative, StartFails, EnterDestroy, DropCopies,
       ToDestroy, TypeOK
  <2>3. CASE AttemptRaises(p)
    BY <2>3 DEF AttemptRaises, Raise, Finish, DropCopies, TypeOK
  <2>4. CASE SubmitAccepted(p)
    <3>1. job' \in [Provs -> Jobs]
      BY <2>4, GetOrCreateType DEF SubmitAccepted
    <3> QED
      BY <2>4, <3>1 DEF SubmitAccepted, NextProvider, Finish, TypeOK
  <2>5. CASE SubmitTooOld(p)
    BY <2>5 DEF SubmitTooOld, StartFails, EnterDestroy, DropCopies, ToDestroy,
       TypeOK
  <2>6. CASE SubmitError(p)
    BY <2>6 DEF SubmitError, Raise, Finish, DropCopies, TypeOK
  <2>7. ASSUME NEW h \in Hints, SubmitRefused(p, h)
        PROVE  TypeOK'
    BY <2>7 DEF SubmitRefused, EnterDestroy, DropCopies, ToDestroy, TypeOK
  <2> QED
    BY <1>3, <2>1, <2>2, <2>3, <2>4, <2>5, <2>6, <2>7 DEF StartProvider
<1>4. CASE Destroy
  <2>1. ASSUME NEW p \in Provs, Delete(p)
        PROVE  TypeOK'
    <3>1. job' \in [Provs -> Jobs]
      BY <2>1 DEF Delete, TypeOK, Jobs, NoJob
    <3> QED
      BY <2>1, <3>1 DEF Delete, client, TypeOK
  <2>2. ASSUME NEW p \in Provs, Deleted(p)
        PROVE  TypeOK'
    BY <2>2 DEF Deleted, TypeOK
  <2>3. CASE Refuse
    BY <2>3 DEF Refuse, Finish, TypeOK
  <2>4. CASE NextRound
    BY <2>4 DEF NextRound, NextStart, TypeOK
  <2> QED
    BY <1>4, <2>1, <2>2, <2>3, <2>4 DEF Destroy
<1>5. ASSUME NEW p \in Provs, Load(p)
      PROVE  TypeOK'
  <2>1. job' \in [Provs -> Jobs]
    BY <1>5, GetOrCreateType DEF Load
  <2> QED
    BY <1>5, <2>1 DEF Load, Finish, TypeOK
<1>6. ASSUME NEW p \in Provs, LoadError(p)
      PROVE  TypeOK'
  BY <1>6 DEF LoadError, Raise, Finish, DropCopies, TypeOK
<1>7. CASE Crash
  BY <1>7, ConfiguredType DEF Crash, Finish, TypeOK
<1>8. ASSUME NEW d \in Delays, Tick(d)
      PROVE  TypeOK'
  BY <1>8 DEF Tick, client, TypeOK
<1>9. ASSUME NEW p \in Provs, JobEnds(p)
      PROVE  TypeOK'
  <2>1. job' \in [Provs -> Jobs]
    BY <1>9 DEF JobEnds, TypeOK, Jobs, NoJob
  <2> QED
    BY <1>9, <2>1 DEF JobEnds, client, TypeOK
<1>10. ASSUME NEW p \in Provs, JobDeleted(p)
       PROVE  TypeOK'
  <2>1. job' \in [Provs -> Jobs]
    BY <1>10 DEF JobDeleted, TypeOK, Jobs, NoJob
  <2> QED
    BY <1>10, <2>1 DEF JobDeleted, client, TypeOK
<1>11. CASE UNCHANGED vars
  BY <1>11 DEF vars, client, TypeOK
<1> QED
  BY <1>1, <1>2, <1>3, <1>4, <1>5, <1>6, <1>7, <1>8, <1>9, <1>10, <1>11
     DEF Next, ClientStep, Environment

\* Every variable keeps its type: in particular a walltime never becomes
\* negative and the number of retries stays under its limit.
THEOREM TypeCorrect == Spec => []TypeOK
  BY InitType, NextType, PTL DEF Spec

-----------------------------------------------------------------------------
(* The common date stays in the interval *)

SlotInWindow ==
  /\ pc \in {"search", "attempt", "submit"} => start <= slot
  /\ pc \in {"attempt", "submit"} => slot <= start + window
  /\ pc = "load" => slot = NoDate \/ slot \in start .. start + window
  /\ hint # NoHint => window >= 0

LEMMA SlotInit == Init => SlotInWindow
  BY DEF Init, SlotInWindow

LEMMA SlotNext == TypeOK /\ SlotInWindow /\ [Next]_vars => SlotInWindow'
<1> SUFFICES ASSUME TypeOK, SlotInWindow, [Next]_vars PROVE SlotInWindow'
  OBVIOUS
<1> USE ProvidersAssumption DEF SlotInWindow, NoDate, NoHint, TIME_INCREMENT
<1>1. ASSUME NEW a \in Args, NEW m \in {"init", "async"}, Call(a, m)
      PROVE  SlotInWindow'
  BY <1>1 DEF Call, TypeOK
<1>2. CASE Reserve
  <2>1. CASE Scan
    BY <2>1 DEF Scan, Finish, TypeOK
  <2>2. CASE SlotBusy
    BY <2>2 DEF SlotBusy, TypeOK
  <2>3. CASE SlotFound
    BY <2>3 DEF SlotFound, InWindow, TypeOK
  <2>4. CASE SlotExhausted
    BY <2>4 DEF SlotExhausted, EnterDestroy, TypeOK
  <2> QED
    BY <1>2, <2>1, <2>2, <2>3, <2>4 DEF Reserve
<1>3. ASSUME NEW p \in Provs, StartProvider(p)
      PROVE  SlotInWindow'
  <2>1. CASE Attempt(p)
    BY <2>1 DEF Attempt, TypeOK
  <2>2. CASE AttemptNegative(p)
    BY <2>2 DEF AttemptNegative, StartFails, EnterDestroy, TypeOK
  <2>3. CASE AttemptRaises(p)
    BY <2>3 DEF AttemptRaises, Raise, Finish, TypeOK
  <2>4. CASE SubmitAccepted(p)
    BY <2>4 DEF SubmitAccepted, NextProvider, Finish, TypeOK
  <2>5. CASE SubmitTooOld(p)
    BY <2>5 DEF SubmitTooOld, StartFails, EnterDestroy, TypeOK
  <2>6. CASE SubmitError(p)
    BY <2>6 DEF SubmitError, Raise, Finish, TypeOK
  <2>7. ASSUME NEW h \in Hints, SubmitRefused(p, h)
        PROVE  SlotInWindow'
    BY <2>7 DEF SubmitRefused, EnterDestroy, TypeOK
  <2> QED
    BY <1>3, <2>1, <2>2, <2>3, <2>4, <2>5, <2>6, <2>7 DEF StartProvider
<1>4. CASE Destroy
  <2>1. ASSUME NEW p \in Provs, Delete(p) \/ Deleted(p)
        PROVE  SlotInWindow'
    BY <2>1 DEF Delete, Deleted, client, TypeOK
  <2>2. CASE Refuse
    BY <2>2 DEF Refuse, Finish, TypeOK
  <2>3. CASE NextRound
    BY <2>3 DEF NextRound, TypeOK
  <2> QED
    BY <1>4, <2>1, <2>2, <2>3 DEF Destroy
<1>5. ASSUME NEW p \in Provs, Load(p) \/ LoadError(p)
      PROVE  SlotInWindow'
  BY <1>5 DEF Load, LoadError, Raise, Finish, TypeOK
<1>6. CASE Crash
  BY <1>6 DEF Crash, Finish, TypeOK
<1>7. ASSUME NEW d \in Delays, Tick(d)
      PROVE  SlotInWindow'
  BY <1>7 DEF Tick, client
<1>8. ASSUME NEW p \in Provs, JobEnds(p) \/ JobDeleted(p)
      PROVE  SlotInWindow'
  BY <1>8 DEF JobEnds, JobDeleted, client
<1>9. CASE UNCHANGED vars
  BY <1>9 DEF vars, client
<1> QED
  BY <1>1, <1>2, <1>3, <1>4, <1>5, <1>6, <1>7, <1>8, <1>9
     DEF Next, ClientStep, Environment

LEMMA SlotAlways == Spec => []SlotInWindow
  BY SlotInit, SlotNext, TypeCorrect, PTL DEF Spec

-----------------------------------------------------------------------------
(* The interval is a promise *)

LEMMA PromiseInit == Init => Promise!Init
  BY DEF Init, Promise!Init, NoDate

LEMMA PromiseNext ==
  TypeOK /\ SlotInWindow /\ [Next]_vars => [Promise!Next]_(Promise!vars)
<1> SUFFICES ASSUME TypeOK, SlotInWindow, [Next]_vars
             PROVE  [Promise!Next]_(Promise!vars)
  OBVIOUS
<1> USE ProvidersAssumption DEF SlotInWindow, NoDate, NoHint, TIME_INCREMENT,
     Promise!Next, Promise!vars
<1>1. ASSUME NEW a \in Args, NEW m \in {"init", "async"}, Call(a, m)
      PROVE  Promise!Open
  BY <1>1 DEF Call, TypeOK, Promise!Open
<1>2. CASE Reserve
  <2>1. CASE Scan
    BY <2>1 DEF Scan, Finish, TypeOK, Promise!Grant
  <2>2. CASE SlotBusy
    BY <2>2 DEF SlotBusy, TypeOK
  <2>3. CASE SlotFound
    BY <2>3 DEF SlotFound, TypeOK
  <2>4. CASE SlotExhausted
    BY <2>4 DEF SlotExhausted, EnterDestroy, TypeOK
  <2> QED
    BY <1>2, <2>1, <2>2, <2>3, <2>4 DEF Reserve
<1>3. ASSUME NEW p \in Provs, StartProvider(p)
      PROVE  [Promise!Next]_(Promise!vars)
  <2>1. CASE Attempt(p)
    BY <2>1 DEF Attempt, TypeOK
  <2>2. CASE AttemptNegative(p)
    BY <2>2 DEF AttemptNegative, StartFails, EnterDestroy, TypeOK
  <2>3. CASE AttemptRaises(p)
    BY <2>3 DEF AttemptRaises, Raise, Finish, TypeOK, Promise!GiveUp
  <2>4. CASE SubmitAccepted(p)
    BY <2>4 DEF SubmitAccepted, NextProvider, Finish, TypeOK, Promise!Grant
  <2>5. CASE SubmitTooOld(p)
    BY <2>5 DEF SubmitTooOld, StartFails, EnterDestroy, TypeOK
  <2>6. CASE SubmitError(p)
    BY <2>6 DEF SubmitError, Raise, Finish, TypeOK, Promise!GiveUp
  <2>7. ASSUME NEW h \in Hints, SubmitRefused(p, h)
        PROVE  UNCHANGED Promise!vars
    BY <2>7 DEF SubmitRefused, EnterDestroy, TypeOK
  <2> QED
    BY <1>3, <2>1, <2>2, <2>3, <2>4, <2>5, <2>6, <2>7 DEF StartProvider
<1>4. CASE Destroy
  <2>1. ASSUME NEW p \in Provs, Delete(p) \/ Deleted(p)
        PROVE  UNCHANGED Promise!vars
    BY <2>1 DEF Delete, Deleted, client, TypeOK
  <2>2. CASE Refuse
    BY <2>2 DEF Refuse, Finish, TypeOK, Promise!GiveUp
  <2>3. CASE NextRound
    BY <2>3 DEF NextRound, NextStart, TypeOK, Promise!Narrow
  <2> QED
    BY <1>4, <2>1, <2>2, <2>3 DEF Destroy
<1>5. ASSUME NEW p \in Provs, Load(p) \/ LoadError(p)
      PROVE  [Promise!Next]_(Promise!vars)
  BY <1>5 DEF Load, LoadError, Raise, Finish, DropCopies, TypeOK,
     Promise!Grant, Promise!GiveUp
<1>6. CASE Crash
  BY <1>6 DEF Crash, Finish, TypeOK, Promise!GiveUp
<1>7. ASSUME NEW d \in Delays, Tick(d)
      PROVE  UNCHANGED Promise!vars
  BY <1>7 DEF Tick, client
<1>8. ASSUME NEW p \in Provs, JobEnds(p) \/ JobDeleted(p)
      PROVE  UNCHANGED Promise!vars
  BY <1>8 DEF JobEnds, JobDeleted, client
<1>9. CASE UNCHANGED vars
  BY <1>9 DEF vars, client
<1> QED
  BY <1>1, <1>2, <1>3, <1>4, <1>5, <1>6, <1>7, <1>8, <1>9
     DEF Next, ClientStep, Environment

\* Whatever hints the schedulers send, _reserve keeps the right edge its caller
\* asked for, looks strictly later in every round and only takes a date of the
\* interval that is left.
THEOREM KeepsPromise == Spec => ImplementsPromise
<1>1. Spec => Promise!Init /\ [][Promise!Next]_(Promise!vars)
  BY PromiseInit, PromiseNext, TypeCorrect, SlotAlways, PTL DEF Spec
<1> QED
  BY <1>1 DEF ImplementsPromise, Promise!Spec

-----------------------------------------------------------------------------
(* A refusal leaves nothing behind *)

DestroyProgress ==
  /\ pc = "destroy" => \A p \in Provs \ todo : ~Held(p)
  /\ outcome = "critical" => pc = "idle" /\ \A p \in Provs : ~Held(p)

LEMMA DestroyInit == Init => DestroyProgress
  BY DEF Init, DestroyProgress

LEMMA DestroyNext == TypeOK /\ DestroyProgress /\ [Next]_vars => DestroyProgress'
<1> SUFFICES ASSUME TypeOK, DestroyProgress, [Next]_vars PROVE DestroyProgress'
  OBVIOUS
<1> USE DEF DestroyProgress, Held
<1>1. ASSUME NEW a \in Args, NEW m \in {"init", "async"}, Call(a, m)
      PROVE  DestroyProgress'
  BY <1>1 DEF Call
<1>2. CASE Reserve
  BY <1>2 DEF Reserve, Scan, SlotBusy, SlotFound, SlotExhausted, Finish,
     EnterDestroy, ToDestroy
<1>3. ASSUME NEW p \in Provs, StartProvider(p)
      PROVE  DestroyProgress'
  <2>1. CASE Attempt(p) \/ AttemptNegative(p) \/ AttemptRaises(p)
    BY <2>1 DEF Attempt, AttemptNegative, AttemptRaises, StartFails,
       EnterDestroy, ToDestroy, Raise, Finish
  <2>2. CASE SubmitAccepted(p)
    BY <2>2 DEF SubmitAccepted, NextProvider, Finish
  <2>3. CASE SubmitTooOld(p) \/ SubmitError(p)
    BY <2>3 DEF SubmitTooOld, SubmitError, StartFails, EnterDestroy, ToDestroy,
       Raise, Finish
  <2>4. ASSUME NEW h \in Hints, SubmitRefused(p, h)
        PROVE  DestroyProgress'
    BY <2>4 DEF SubmitRefused, EnterDestroy, ToDestroy
  <2> QED
    BY <1>3, <2>1, <2>2, <2>3, <2>4 DEF StartProvider
<1>4. CASE Destroy
  <2>1. ASSUME NEW p \in Provs, Delete(p)
        PROVE  DestroyProgress'
    BY <2>1 DEF Delete, client, IsNext, TypeOK
  <2>2. ASSUME NEW p \in Provs, Deleted(p)
        PROVE  DestroyProgress'
    BY <2>2 DEF Deleted, Gone
  <2>3. CASE Refuse
    BY <2>3 DEF Refuse, Finish
  <2>4. CASE NextRound
    BY <2>4 DEF NextRound
  <2> QED
    BY <1>4, <2>1, <2>2, <2>3, <2>4 DEF Destroy
<1>5. ASSUME NEW p \in Provs, Load(p) \/ LoadError(p)
      PROVE  DestroyProgress'
  BY <1>5 DEF Load, LoadError, Raise, Finish
<1>6. CASE Crash
  BY <1>6 DEF Crash, Finish
<1>7. ASSUME NEW d \in Delays, Tick(d)
      PROVE  DestroyProgress'
  BY <1>7 DEF Tick, client
<1>8. ASSUME NEW p \in Provs, JobEnds(p)
      PROVE  DestroyProgress'
  BY <1>8 DEF JobEnds, client, TypeOK, NoJob
<1>9. ASSUME NEW p \in Provs, JobDeleted(p)
      PROVE  DestroyProgress'
  BY <1>9 DEF JobDeleted, client, TypeOK, NoJob
<1>10. CASE UNCHANGED vars
  BY <1>10 DEF vars, client
<1> QED
  BY <1>1, <1>2, <1>3, <1>4, <1>5, <1>6, <1>7, <1>8, <1>9, <1>10
     DEF Next, ClientStep, Environment

\* InvalidReservationCritical for want of a slot is raised with every testbed
\* clean, the jobs of earlier calls and of killed processes included.
THEOREM RefusalIsClean == Spec => []NothingLeftOnRefusal
<1>1. DestroyProgress => NothingLeftOnRefusal
  BY DEF DestroyProgress, NothingLeftOnRefusal
<1> QED
  BY <1>1, DestroyInit, DestroyNext, TypeCorrect, PTL DEF Spec

-----------------------------------------------------------------------------
(* The right end of a job stays put *)

\* Number of times the walltime of the provider being started was offset.
Offsets == IF pc = "submit" THEN retry + 1 ELSE retry

\* Seconds by which its job would end before the right end.
Lost(p) == (slot + conf[p].walltime) - (from + work[p].walltime)

Pinned(p) ==
  /\ Lost(p) \in 0 .. 59 * Offsets
  /\ Kind[p] = "g5k" => Lost(p) = 0
  /\ slot <= from
  /\ pc = "submit" => work[p].date = from

\* The provider being started is pinned, the next ones are not touched yet.
AllPinned ==
  pc \in {"search", "attempt", "submit"} =>
    \A p \in todo : Reserving(p) =>
      IF pc # "search" /\ IsNext(p) THEN Pinned(p)
      ELSE work[p].walltime = conf[p].walltime

LEMMA NextIsUnique ==
  ASSUME TypeOK, NEW p \in todo, NEW q \in todo, IsNext(p), IsNext(q)
  PROVE  p = q
  BY ProvidersAssumption DEF TypeOK, IsNext, Provs

LEMMA PinnedInit == Init => AllPinned
  BY DEF Init, AllPinned

LEMMA PinnedNext == TypeOK /\ AllPinned /\ [Next]_vars => AllPinned'
<1> SUFFICES ASSUME TypeOK, AllPinned, [Next]_vars PROVE AllPinned'
  OBVIOUS
<1> USE DEF AllPinned, Reserving
<1>1. ASSUME NEW a \in Args, NEW m \in {"init", "async"}, Call(a, m)
      PROVE  AllPinned'
  BY <1>1 DEF Call
<1>2. CASE Reserve
  <2>1. CASE Scan
    BY <2>1 DEF Scan, Finish, TypeOK
  <2>2. CASE SlotBusy
    BY <2>2 DEF SlotBusy, TypeOK
  <2>3. CASE SlotFound
    <3> SUFFICES ASSUME NEW q \in todo, Reserving(q)
                 PROVE  Pinned(q)'
      BY <2>3 DEF SlotFound, TypeOK, IsNext
    <3>1. work[q].walltime = conf[q].walltime
      BY <2>3 DEF SlotFound
    <3>2. work[q].walltime \in Nat
      BY DEF TypeOK, Confs
    <3> QED
      BY <2>3, <3>1, <3>2 DEF SlotFound, Pinned, Lost, Offsets, TypeOK,
         MAX_RETRY
  <2>4. CASE SlotExhausted
    BY <2>4 DEF SlotExhausted, EnterDestroy
  <2> QED
    BY <1>2, <2>1, <2>2, <2>3, <2>4 DEF Reserve
<1>3. ASSUME NEW p \in Provs, StartProvider(p)
      PROVE  AllPinned'
  <2>1. CASE Attempt(p)
    <3> SUFFICES ASSUME NEW q \in todo, Reserving(q)
                 PROVE  IF IsNext(q) THEN Pinned(q)'
                        ELSE work'[q].walltime = conf[q].walltime
      BY <2>1 DEF Attempt, IsNext
    <3>1. CASE q = p
      <4>1. /\ Pinned(p)
            /\ pc = "attempt"
        BY <2>1, <3>1 DEF Attempt
      <4>2. /\ work'[p].walltime = OffsetWalltime(p)
            /\ work'[p].date = from'
            /\ from' = Candidate
            /\ UNCHANGED <<slot, conf, retry>>
            /\ pc' = "submit"
        BY <2>1, <3>1 DEF Attempt, SetReservation, TypeOK
      <4>3. /\ OffsetWalltime(p) \in Nat
            /\ Kind[p] = "g5k" => OffsetWalltime(p) = Remaining(p)
            /\ Kind[p] = "iotlab" =>
                 OffsetWalltime(p) \in Remaining(p) - 59 .. Remaining(p)
        BY <2>1, OffsetBounds DEF Attempt
      <4>4. /\ Candidate \in Int
            /\ Candidate >= from
        BY CandidateType
      <4>5. /\ work[p].walltime \in Nat
            /\ conf[p].walltime \in Nat
            /\ retry \in Nat
            /\ from \in Int
            /\ slot \in Int
        BY DEF TypeOK, Confs, MAX_RETRY
      <4>6. /\ Lost(p)' \in Lost(p) .. Lost(p) + 59
            /\ Kind[p] = "g5k" => Lost(p)' = Lost(p)
        BY <3>1, <4>2, <4>3, <4>4, <4>5 DEF Lost, Remaining
      <4>7. Lost(p) \in 0 .. 59 * retry
        BY <4>1 DEF Pinned, Offsets
      <4>8. Lost(p)' \in 0 .. 59 * (retry + 1)
        BY <4>5, <4>6, <4>7
      <4>9. Pinned(p)'
        BY <4>1, <4>2, <4>4, <4>5, <4>6, <4>8 DEF Pinned, Offsets
      <4> QED
        BY <2>1, <3>1, <4>9 DEF Attempt
    <3>2. CASE q # p
      <4>1. ~IsNext(q)
        BY <2>1, <3>2, NextIsUnique DEF Attempt, IsNext
      <4> QED
        BY <2>1, <3>2, <4>1 DEF Attempt, TypeOK
    <3> QED
      BY <3>1, <3>2
  <2>2. CASE AttemptNegative(p) \/ AttemptRaises(p)
    BY <2>2 DEF AttemptNegative, AttemptRaises, StartFails, EnterDestroy, Raise,
       Finish
  <2>3. CASE SubmitAccepted(p)
    <3>1. CASE todo = {p}
      BY <2>3, <3>1 DEF SubmitAccepted, NextProvider, Finish
    <3>2. CASE todo # {p}
      <4> SUFFICES ASSUME NEW q \in todo \ {p}, Reserving(q)
                   PROVE  /\ Pinned(q)'
                          /\ work'[q].walltime = conf'[q].walltime
        BY <2>3, <3>2 DEF SubmitAccepted, NextProvider
      <4>1. ~IsNext(q)
        BY <2>3, NextIsUnique DEF SubmitAccepted, IsNext
      <4>2. work[q].walltime = conf[q].walltime
        BY <2>3, <4>1 DEF SubmitAccepted
      <4>3. work[q].walltime \in Nat
        BY DEF TypeOK, Confs
      <4> QED
        BY <2>3, <3>2, <4>2, <4>3 DEF SubmitAccepted, NextProvider, Pinned,
           Lost, Offsets, TypeOK
    <3> QED
      BY <3>1, <3>2
  <2>4. CASE SubmitTooOld(p)
    <3>1. CASE retry + 1 < MAX_RETRY
      BY <2>4, <3>1 DEF SubmitTooOld, Pinned, Lost, Offsets, IsNext, TypeOK
    <3>2. CASE ~(retry + 1 < MAX_RETRY)
      BY <2>4, <3>2 DEF SubmitTooOld, StartFails, EnterDestroy
    <3> QED
      BY <3>1, <3>2
  <2>5. CASE SubmitError(p)
    BY <2>5 DEF SubmitError, Raise, Finish
  <2>6. ASSUME NEW h \in Hints, SubmitRefused(p, h)
        PROVE  AllPinned'
    BY <2>6 DEF SubmitRefused, EnterDestroy
  <2> QED
    BY <1>3, <2>1, <2>2, <2>3, <2>4, <2>5, <2>6 DEF StartProvider
<1>4. CASE Destroy
  BY <1>4 DEF Destroy, Delete, Deleted, Refuse, NextRound, Finish, client
<1>5. ASSUME NEW p \in Provs, Load(p) \/ LoadError(p)
      PROVE  AllPinned'
  BY <1>5 DEF Load, LoadError, Raise, Finish
<1>6. CASE Crash
  BY <1>6 DEF Crash, Finish
<1>7. CASE UNCHANGED client
  BY <1>7 DEF client, Pinned, Lost, Offsets, IsNext
<1> QED
  BY <1>1, <1>2, <1>3, <1>4, <1>5, <1>6, <1>7
     DEF Next, ClientStep, Environment, Tick, JobEnds, JobDeleted, vars

LEMMA PinnedAlways == Spec => []AllPinned
  BY PinnedInit, PinnedNext, TypeCorrect, PTL DEF Spec

\* Through all retries, for all delays: what the start date of a provider loses
\* its walltime loses too, once, and never more than a minute per attempt on
\* top.
THEOREM EndNeverMoves == Spec => []RightEndPinned
<1>1. TypeOK /\ AllPinned => RightEndPinned
  <2> SUFFICES ASSUME TypeOK, AllPinned, NEW p \in todo,
                      pc \in {"attempt", "submit"}, IsNext(p), Reserving(p)
               PROVE  LET end == from + work[p].walltime
                          wanted == slot + conf[p].walltime
                      IN  IF Kind[p] = "g5k" THEN end = wanted
                          ELSE /\ end <= wanted
                               /\ end > wanted - 60 * (retry + 1)
    BY DEF RightEndPinned
  <2>1. Pinned(p)
    BY DEF AllPinned
  <2>2. /\ work[p].walltime \in Nat
        /\ conf[p].walltime \in Nat
        /\ retry \in Nat
        /\ from \in Int
        /\ slot \in Int
    BY DEF TypeOK, Confs, MAX_RETRY
  <2> QED
    BY <2>1, <2>2 DEF Pinned, Lost, Offsets
<1> QED
  BY <1>1, PinnedAlways, TypeCorrect, PTL

\* Every IoT-LAB job starts at the common date or later and ends where a job
\* started at the common date with the configured walltime would end, or before.
THEOREM IotlabBounds == Spec => IotlabJobsWithinSlot
<1>1. TypeOK /\ SlotInWindow /\ AllPinned /\ [Next]_vars =>
        [\A p \in Provs : Kind[p] = "iotlab" => WithinSlot(p)]_vars
  <2> SUFFICES ASSUME TypeOK, SlotInWindow, AllPinned, Next, NEW p \in Provs,
                      Kind[p] = "iotlab", JobCreated(p)
               PROVE  /\ job'[p].begin >= slot
                      /\ job'[p].end <= slot + conf[p].walltime
    BY DEF WithinSlot
  <2>1. SubmitAccepted(p)
    <3>1. job' # job
      BY DEF JobCreated, Held
    <3>2. PICK q \in Provs : SubmitAccepted(q)
      BY <3>1 DEF JobCreated, Next, ClientStep, Environment, Call, Reserve,
         Scan, SlotBusy, SlotFound, SlotExhausted, StartProvider, Attempt,
         AttemptNegative, AttemptRaises, SubmitTooOld, SubmitError,
         SubmitRefused, Destroy, Delete, Deleted, Refuse, NextRound, Load,
         LoadError, Crash, Tick, JobEnds, JobDeleted, Held, TypeOK, NoJob
    <3>3. p = q
      BY <3>2 DEF SubmitAccepted, GetOrCreate, JobCreated, Held, TypeOK
    <3> QED
      BY <3>2, <3>3
  <2>2. /\ job'[p] = SubmittedJob(p)
        /\ Reserving(p)
        /\ IsNext(p)
        /\ pc = "submit"
    BY <2>1 DEF SubmitAccepted, GetOrCreate, JobCreated, TypeOK, Reserving
  <2>3. Pinned(p)
    BY <2>2 DEF AllPinned, IsNext
  <2>4. /\ work[p].walltime \in Nat
        /\ conf[p].walltime \in Nat
        /\ retry \in Nat
        /\ from \in Int
        /\ slot \in Int
    BY DEF TypeOK, Confs, MAX_RETRY
  <2>5. /\ work[p].date = from
        /\ slot <= from
        /\ from + work[p].walltime <= slot + conf[p].walltime
        /\ 0 <= from
    BY <2>2, <2>3, <2>4 DEF Pinned, Lost, Offsets, SlotInWindow, TypeOK
  <2>6. /\ job'[p].begin = from
        /\ job'[p].end = from + work[p].walltime
    BY <2>2, <2>4, <2>5 DEF SubmittedJob, SubmittedWalltime, Reserving, NoDate
  <2> QED
    BY <2>4, <2>5, <2>6
<1> QED
  BY <1>1, PinnedAlways, SlotAlways, TypeCorrect, PTL
     DEF Spec, IotlabJobsWithinSlot

-----------------------------------------------------------------------------
(* Success means that every provider holds what it was given *)

Kept(p) == job[p].st \in {"live", "over"}

Secured ==
  crashes = 0 =>
    /\ pc # "destroy" => \A p \in Provs : job[p].st # "dying"
    /\ pc \in {"search", "attempt", "submit"} => \A p \in Provs \ todo : Kept(p)
    /\ pc = "load" => \A p \in Provs : Kept(p)
    /\ outcome = "ok" => pc = "idle" /\ \A p \in Provs : Kept(p)

LEMMA SecuredInit == Init => Secured
  BY DEF Init, Secured, NoJob

LEMMA GetOrCreateKeeps ==
  ASSUME TypeOK, NEW p \in Provs, GetOrCreate(p),
         \A q \in Provs : job[q].st # "dying"
  PROVE  /\ job'[p].st = "live"
         /\ \A q \in Provs \ {p} : job'[q] = job[q]
  BY DEF GetOrCreate, SubmittedJob, Held, TypeOK

LEMMA SecuredNext ==
  TypeOK /\ DestroyProgress /\ Secured /\ [Next]_vars => Secured'
<1> SUFFICES ASSUME TypeOK, DestroyProgress, Secured, [Next]_vars,
                    crashes' = 0
             PROVE  Secured'
  BY DEF Secured
<1> USE DEF Secured, Kept
<1>0. crashes = 0
  BY DEF Next, ClientStep, Environment, Call, Reserve, Scan, SlotBusy,
     SlotFound, SlotExhausted, StartProvider, Attempt, AttemptNegative,
     AttemptRaises, SubmitAccepted, SubmitTooOld, SubmitError, SubmitRefused,
     Destroy, Delete, Deleted, Refuse, NextRound, Load, LoadError, Crash, Tick,
     JobEnds, JobDeleted, vars, TypeOK
<1>1. ASSUME NEW a \in Args, NEW m \in {"init", "async"}, Call(a, m)
      PROVE  Secured'
  BY <1>0, <1>1 DEF Call, NoJob
<1>2. CASE Reserve
  <2>1. CASE Scan
    BY <1>0, <2>1 DEF Scan, Finish, IsCreated, Held
  <2>2. CASE SlotBusy \/ SlotFound \/ SlotExhausted
    BY <1>0, <2>2 DEF SlotBusy, SlotFound, SlotExhausted, EnterDestroy
  <2> QED
    BY <1>2, <2>1, <2>2 DEF Reserve
<1>3. ASSUME NEW p \in Provs, StartProvider(p)
      PROVE  Secured'
  <2>1. CASE Attempt(p) \/ AttemptNegative(p) \/ AttemptRaises(p)
    BY <1>0, <2>1 DEF Attempt, AttemptNegative, AttemptRaises, StartFails,
       EnterDestroy, Raise, Finish
  <2>2. CASE SubmitAccepted(p)
    <3>1. /\ job'[p].st = "live"
          /\ \A q \in Provs \ {p} : job'[q] = job[q]
      BY <1>0, <2>2, GetOrCreateKeeps DEF SubmitAccepted
    <3> QED
      BY <1>0, <2>2, <3>1 DEF SubmitAccepted, NextProvider, Finish
  <2>3. CASE SubmitTooOld(p) \/ SubmitError(p)
    BY <1>0, <2>3 DEF SubmitTooOld, SubmitError, StartFails, EnterDestroy,
       Raise, Finish
  <2>4. ASSUME NEW h \in Hints, SubmitRefused(p, h)
        PROVE  Secured'
    BY <1>0, <2>4 DEF SubmitRefused, EnterDestroy
  <2> QED
    BY <1>3, <2>1, <2>2, <2>3, <2>4 DEF StartProvider
<1>4. CASE Destroy
  <2>1. ASSUME NEW p \in Provs, Delete(p) \/ Deleted(p)
        PROVE  Secured'
    BY <1>0, <2>1 DEF Delete, Deleted, client
  <2>2. CASE Refuse \/ NextRound
    BY <1>0, <2>2 DEF Refuse, NextRound, Finish, DestroyProgress, Held
  <2> QED
    BY <1>4, <2>1, <2>2 DEF Destroy
<1>5. ASSUME NEW p \in Provs, Load(p)
      PROVE  Secured'
  <2>1. /\ job'[p].st = "live"
        /\ \A q \in Provs \ {p} : job'[q] = job[q]
    BY <1>0, <1>5, GetOrCreateKeeps DEF Load
  <2> QED
    BY <1>0, <1>5, <2>1 DEF Load, Finish
<1>6. ASSUME NEW p \in Provs, LoadError(p)
      PROVE  Secured'
  BY <1>0, <1>6 DEF LoadError, Raise, Finish
<1>7. CASE Crash
  BY <1>0, <1>7 DEF Crash
<1>8. ASSUME NEW d \in Delays, Tick(d)
      PROVE  Secured'
  BY <1>0, <1>8 DEF Tick, client
<1>9. ASSUME NEW p \in Provs, JobEnds(p)
      PROVE  Secured'
  BY <1>0, <1>9 DEF JobEnds, client, TypeOK, NoJob
<1>10. ASSUME NEW p \in Provs, JobDeleted(p)
       PROVE  Secured'
  BY <1>0, <1>10 DEF JobDeleted, client, TypeOK, NoJob
<1>11. CASE UNCHANGED vars
  BY <1>0, <1>11 DEF vars, client
<1> QED
  BY <1>1, <1>2, <1>3, <1>4, <1>5, <1>6, <1>7, <1>8, <1>9, <1>10, <1>11
     DEF Next, ClientStep, Environment

\* A call that returns did not destroy any job it counts on, however many rounds
\* of destroying and reserving it went through.
THEOREM SuccessIsComplete == Spec => []SuccessHoldsAll
<1>1. Secured => SuccessHoldsAll
  BY DEF Secured, Kept, SuccessHoldsAll
<1> QED
  BY <1>1, SecuredInit, SecuredNext, DestroyInit, DestroyNext, TypeCorrect, PTL
     DEF Spec
=============================================================================
