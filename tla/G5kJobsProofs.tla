---------------------------- MODULE G5kJobsProofs ----------------------------
(***************************************************************************)
(* What holds of G5kJobs for any sites, jobs and bounds: for any number of *)
(* clients, or, where it is said so, for one client at a time.             *)
(***************************************************************************)
EXTENDS G5kJobs, FiniteSetTheorems, SequenceTheorems, TLAPS

-----------------------------------------------------------------------------
(* Vocabulary of the proofs *)

Job == [site : Sites, st : JobStates, deleted : 0 .. MaxCalls]
Ops == {"none", "init", "async", "destroy"}
Outcomes == {"none", "raised", "reserved", "ready", "destroyed"}
Killers == {"kill", "again", "giveup"}
Seekers == {"take", "created", "load"}

\* The types of what a client works with, the jobs being numbers.
WorkTyped ==
  /\ op \in [Clients -> Ops]
  /\ pc \in [Clients -> Steps]
  /\ last \in [Clients -> Outcomes]
  /\ todo \in [Clients -> SUBSET Sites]
  /\ found \in [Clients -> SUBSET Nat]
  /\ at \in [Clients -> SUBSET Sites]
  /\ rest \in [Clients -> SUBSET Sites]
  /\ rounds \in [Clients -> Nat]
  /\ dying \in [Clients -> SUBSET Nat]
  /\ seen \in [Clients -> SUBSET Nat]
  /\ running \in [Clients -> BOOLEAN]

KeptTyped ==
  /\ jobs \in Seq(Job)
  /\ conf \in [Clients -> SUBSET Sites]
  /\ cache \in [Clients -> SUBSET Nat]
  /\ wait \in [Clients -> BOOLEAN]
  /\ past \in [Clients -> SUBSET Nat]
  /\ fresh \in [Clients -> BOOLEAN]
  /\ calls \in 0 .. MaxCalls

Typed == WorkTyped /\ KeptTyped

\* A step leaves the work, or all, of client d alone.
SameWork(d) ==
  /\ op'[d] = op[d] /\ pc'[d] = pc[d] /\ last'[d] = last[d]
  /\ todo'[d] = todo[d] /\ found'[d] = found[d] /\ at'[d] = at[d]
  /\ rest'[d] = rest[d] /\ rounds'[d] = rounds[d] /\ dying'[d] = dying[d]
  /\ seen'[d] = seen[d] /\ running'[d] = running[d]

SameKept(d) ==
  /\ conf'[d] = conf[d] /\ cache'[d] = cache[d] /\ wait'[d] = wait[d]
  /\ past'[d] = past[d] /\ fresh'[d] = fresh[d]

\* What the building blocks of the actions do to their client.
Returned(c, o) ==
  /\ op'[c] = "none" /\ pc'[c] = "idle" /\ last'[c] = o
  /\ todo'[c] = {} /\ found'[c] = {} /\ at'[c] = {}
  /\ rest'[c] = {} /\ rounds'[c] = 0 /\ dying'[c] = {}
  /\ seen'[c] = {} /\ running'[c] = TRUE

Scans(c, ss, p) ==
  /\ pc'[c] = p /\ at'[c] = ss /\ todo'[c] = ss /\ found'[c] = {}

Waits(c) == pc'[c] = "wait" /\ seen'[c] = {} /\ running'[c] = TRUE

-----------------------------------------------------------------------------
(* The building blocks *)

\* The end of a call.
LEMMA ReturnWork ==
  ASSUME WorkTyped, NEW c \in Clients, NEW o \in Outcomes, Return(c, o)
  PROVE  /\ WorkTyped' /\ Returned(c, o)
         /\ \A d \in Clients \ {c} : SameWork(d)
<1>1. WorkTyped'
  <2> USE DEF WorkTyped
  <2>1. /\ op' \in [Clients -> Ops]
        /\ pc' \in [Clients -> Steps]
        /\ last' \in [Clients -> Outcomes]
    BY DEF Return, Ops, Steps
  <2>2. /\ todo' \in [Clients -> SUBSET Sites]
        /\ found' \in [Clients -> SUBSET Nat]
        /\ at' \in [Clients -> SUBSET Sites]
        /\ rest' \in [Clients -> SUBSET Sites]
        /\ rounds' \in [Clients -> Nat]
    BY DEF Return
  <2>3. /\ dying' \in [Clients -> SUBSET Nat]
        /\ seen' \in [Clients -> SUBSET Nat]
        /\ running' \in [Clients -> BOOLEAN]
    BY DEF Return
  <2> QED
    BY <2>1, <2>2, <2>3
<1>2. Returned(c, o) /\ \A d \in Clients \ {c} : SameWork(d)
  BY DEF WorkTyped, Return, Returned, SameWork
<1> QED
  BY <1>1, <1>2

\* The start of a scan.
LEMMA ScanWork ==
  ASSUME WorkTyped, NEW c \in Clients, NEW ss \in SUBSET Sites, NEW p \in Steps,
         Scan(c, ss, p)
  PROVE  /\ pc' \in [Clients -> Steps]
         /\ todo' \in [Clients -> SUBSET Sites]
         /\ found' \in [Clients -> SUBSET Nat]
         /\ at' \in [Clients -> SUBSET Sites]
         /\ Scans(c, ss, p)
         /\ \A d \in Clients \ {c} :
              /\ pc'[d] = pc[d] /\ todo'[d] = todo[d]
              /\ found'[d] = found[d] /\ at'[d] = at[d]
  BY DEF WorkTyped, Scan, Scans

\* The start of wait_for_jobs.
LEMMA StartWaitWork ==
  ASSUME WorkTyped, NEW c \in Clients, StartWait(c)
  PROVE  /\ pc' \in [Clients -> Steps]
         /\ seen' \in [Clients -> SUBSET Nat]
         /\ running' \in [Clients -> BOOLEAN]
         /\ Waits(c)
         /\ \A d \in Clients \ {c} :
              pc'[d] = pc[d] /\ seen'[d] = seen[d] /\ running'[d] = running[d]
  BY DEF WorkTyped, StartWait, Waits, Steps

\* The three ways on of Reserved.
ReservedAs(c, js) ==
  \/ /\ op[c] = "async" /\ Returned(c, "reserved")
  \/ /\ op[c] = "init" /\ js # {} /\ Waits(c)
     /\ op'[c] = op[c] /\ last'[c] = last[c] /\ todo'[c] = todo[c]
     /\ found'[c] = found[c] /\ at'[c] = at[c]
     /\ rest'[c] = rest[c] /\ rounds'[c] = rounds[c] /\ dying'[c] = dying[c]
  \/ /\ op[c] = "init" /\ js = {} /\ Scans(c, conf[c], "load")
     /\ op'[c] = op[c] /\ last'[c] = last[c]
     /\ rest'[c] = rest[c] /\ rounds'[c] = rounds[c] /\ dying'[c] = dying[c]
     /\ seen'[c] = seen[c] /\ running'[c] = running[c]

LEMMA ReservedWork ==
  ASSUME WorkTyped, conf \in [Clients -> SUBSET Sites],
         NEW c \in Clients, NEW js, Reserved(c, js)
  PROVE  /\ WorkTyped' /\ ReservedAs(c, js)
         /\ \A d \in Clients \ {c} : SameWork(d)
<1>1. CASE op[c] = "async" /\ Return(c, "reserved")
  BY <1>1, ReturnWork DEF ReservedAs, Outcomes
<1>2. CASE /\ op[c] = "init" /\ js # {} /\ StartWait(c)
           /\ UNCHANGED <<op, last, scan, walk>>
  BY <1>2, StartWaitWork DEF ReservedAs, WorkTyped, SameWork, scan, walk
<1>3. CASE /\ op[c] = "init" /\ js = {} /\ Scan(c, conf[c], "load")
           /\ UNCHANGED <<op, last, walk, watch>>
  BY <1>3, ScanWork DEF ReservedAs, WorkTyped, SameWork, walk, watch, Steps
<1> QED
  BY <1>1, <1>2, <1>3 DEF Reserved

\* The provider in hand has its job; the next one, if there is one.
NextSite(c, p) ==
  \E s \in rest[c] :
    /\ rest'[c] = rest[c] \ {s} /\ Scans(c, {s}, p)
    /\ op'[c] = op[c] /\ last'[c] = last[c] /\ rounds'[c] = rounds[c]
    /\ dying'[c] = dying[c] /\ seen'[c] = seen[c] /\ running'[c] = running[c]

LEMMA TakeWork ==
  ASSUME WorkTyped, conf \in [Clients -> SUBSET Sites],
         cache \in [Clients -> SUBSET Nat],
         NEW c \in Clients, NEW js \in SUBSET Nat, Take(c, js)
  PROVE  /\ WorkTyped'
         /\ cache' \in [Clients -> SUBSET Nat]
         /\ cache'[c] = IF Single(c) THEN js ELSE cache[c]
         /\ \/ rest[c] = {} /\ ReservedAs(c, cache'[c])
            \/ NextSite(c, "take")
         /\ \A d \in Clients \ {c} : SameWork(d) /\ cache'[d] = cache[d]
<1>1. /\ cache' \in [Clients -> SUBSET Nat]
      /\ cache'[c] = IF Single(c) THEN js ELSE cache[c]
      /\ \A d \in Clients \ {c} : cache'[d] = cache[d]
  BY DEF Take
<1>2. CASE rest[c] = {} /\ Reserved(c, cache'[c])
  BY <1>1, <1>2, ReservedWork
<1>3. ASSUME NEW s \in rest[c],
             rest' = [rest EXCEPT ![c] = @ \ {s}],
             Scan(c, {s}, "take"),
             UNCHANGED <<op, last, rounds, dying, watch>>
      PROVE  WorkTyped' /\ NextSite(c, "take") /\ \A d \in Clients \ {c} : SameWork(d)
  <2>1. s \in Sites /\ {s} \in SUBSET Sites
    BY DEF WorkTyped
  <2> QED
    BY <1>3, <2>1, ScanWork DEF WorkTyped, NextSite, SameWork, watch, Steps
<1> QED
  BY <1>1, <1>2, <1>3 DEF Take

-----------------------------------------------------------------------------
(* The jobs of OAR *)

\* A job is appended.
LEMMA Appended ==
  ASSUME jobs \in Seq(Job), NEW s \in Sites, jobs' = Append(jobs, New(s))
  PROVE  /\ jobs' \in Seq(Job)
         /\ Len(jobs) \in Nat
         /\ Len(jobs') = Len(jobs) + 1
         /\ \A j \in Ids : jobs'[j] = jobs[j]
         /\ jobs'[Len(jobs) + 1] = New(s)
<1>1. New(s) \in Job
  BY JobsAssumption DEF New, Job, JobStates
<1> HIDE DEF Job
<1> QED
  BY <1>1, AppendProperties, LenProperties DEF Ids

\* A job changes its state, or is doomed.
LEMMA Changed ==
  ASSUME jobs \in Seq(Job), NEW j \in Ids, NEW st \in JobStates,
         NEW n \in 0 .. MaxCalls,
         \/ jobs' = [jobs EXCEPT ![j].st = st]
         \/ jobs' = [jobs EXCEPT ![j].deleted = n]
  PROVE  /\ jobs' \in Seq(Job)
         /\ Len(jobs') = Len(jobs)
         /\ \A k \in Ids : k # j => jobs'[k] = jobs[k]
         /\ jobs'[j] \in {[jobs[j] EXCEPT !.st = st], [jobs[j] EXCEPT !.deleted = n]}
<1>1. jobs[j] \in Job
  BY ElementOfSeq DEF Ids
<1>2. /\ [jobs[j] EXCEPT !.st = st] \in Job
      /\ [jobs[j] EXCEPT !.deleted = n] \in Job
  BY <1>1 DEF Job
<1> HIDE DEF Job
<1>3. \/ jobs' = [jobs EXCEPT ![j] = [jobs[j] EXCEPT !.st = st]]
      \/ jobs' = [jobs EXCEPT ![j] = [jobs[j] EXCEPT !.deleted = n]]
  OBVIOUS
<1> QED
  BY <1>2, <1>3, ExceptSeq, SMTT(40) DEF Ids

LEMMA JobTypes ==
  ASSUME jobs \in Seq(Job)
  PROVE  Len(jobs) \in Nat /\ \A j \in Ids : jobs[j] \in Job
  BY ElementOfSeq, LenProperties DEF Ids

-----------------------------------------------------------------------------
(* What each action of a client does *)

Others(c) == conf' = conf /\ \A d \in Clients \ {c} : SameWork(d) /\ SameKept(d)

LEMMA CallDoes ==
  ASSUME Typed, NEW c \in Clients, NEW o \in Ops \ {"none"}, NEW w \in BOOLEAN,
         Call(c, o, w)
  PROVE  /\ Typed' /\ Others(c) /\ jobs' = jobs
         /\ pc[c] = "idle" /\ calls' = calls + 1
         /\ op'[c] = o /\ wait'[c] = w /\ last'[c] = "none"
         /\ past'[c] = {j \in Ids : ~Listed(j)}
         /\ fresh'[c] = (cache[c] = {})
         /\ Scans(c, conf[c], IF o = "destroy" THEN "kill"
                              ELSE IF Single(c) THEN "take" ELSE "created")
         /\ cache'[c] = cache[c] /\ rest'[c] = rest[c] /\ rounds'[c] = rounds[c]
         /\ dying'[c] = dying[c] /\ seen'[c] = seen[c] /\ running'[c] = running[c]
<1> USE DEF Typed, KeptTyped
<1> DEFINE p == IF o = "destroy" THEN "kill"
                ELSE IF Single(c) THEN "take" ELSE "created"
<1>1. p \in Steps /\ conf[c] \in SUBSET Sites
  BY DEF Steps
<1>2. Scan(c, conf[c], p) /\ pc[c] = "idle"
  BY DEF Call
<1>3. /\ pc' \in [Clients -> Steps]
      /\ todo' \in [Clients -> SUBSET Sites]
      /\ found' \in [Clients -> SUBSET Nat]
      /\ at' \in [Clients -> SUBSET Sites]
      /\ Scans(c, conf[c], p)
      /\ \A d \in Clients \ {c} :
           /\ pc'[d] = pc[d] /\ todo'[d] = todo[d]
           /\ found'[d] = found[d] /\ at'[d] = at[d]
  <2> HIDE DEF p
  <2> QED
    BY <1>1, <1>2, ScanWork
<1>4. UNCHANGED <<jobs, conf, cache, rest, rounds, dying, seen, running>>
  BY DEF Call, walk, watch
<1>5. /\ op' \in [Clients -> Ops] /\ op'[c] = o
      /\ wait' \in [Clients -> BOOLEAN] /\ wait'[c] = w
      /\ last' \in [Clients -> Outcomes] /\ last'[c] = "none"
      /\ calls' \in 0 .. MaxCalls /\ calls' = calls + 1
      /\ \A d \in Clients \ {c} :
           op'[d] = op[d] /\ wait'[d] = wait[d] /\ last'[d] = last[d]
  BY JobsAssumption DEF Call, WorkTyped, Outcomes
<1>6. /\ past' \in [Clients -> SUBSET Nat]
      /\ past'[c] = {j \in Ids : ~Listed(j)}
      /\ \A d \in Clients \ {c} : past'[d] = past[d]
  <2>1. {j \in Ids : ~Listed(j)} \in SUBSET Nat
    BY JobTypes DEF Ids
  <2> QED
    BY <2>1 DEF Call
<1>7. /\ fresh' \in [Clients -> BOOLEAN]
      /\ fresh'[c] = (cache[c] = {})
      /\ \A d \in Clients \ {c} : fresh'[d] = fresh[d]
  BY DEF Call
<1> HIDE DEF p
<1>8. Typed'
  BY <1>3, <1>4, <1>5, <1>6, <1>7 DEF WorkTyped
<1>9. Others(c)
  BY <1>3, <1>4, <1>5, <1>6, <1>7 DEF Others, SameWork, SameKept
<1> QED
  BY <1>2, <1>3, <1>4, <1>5, <1>6, <1>7, <1>8, <1>9 DEF p

LEMMA ListDoes ==
  ASSUME Typed, NEW c \in Clients, NEW s \in Sites, List(c, s)
  PROVE  /\ Typed' /\ Others(c) /\ jobs' = jobs /\ calls' = calls
         /\ SameKept(c) /\ s \in todo[c]
         /\ \/ Returned(c, "raised")
            \/ /\ todo'[c] = todo[c] \ {s}
               /\ found'[c] = found[c] \cup {j \in Ids : jobs[j].site = s /\ Listed(j)}
               /\ op'[c] = op[c] /\ pc'[c] = pc[c] /\ last'[c] = last[c]
               /\ at'[c] = at[c] /\ rest'[c] = rest[c] /\ rounds'[c] = rounds[c]
               /\ dying'[c] = dying[c] /\ seen'[c] = seen[c]
               /\ running'[c] = running[c]
<1> DEFINE js == {j \in Ids : jobs[j].site = s /\ Listed(j)}
<1> USE DEF Typed, KeptTyped
<1>1. js \in SUBSET Nat
  BY JobTypes DEF Ids
<1>2. UNCHANGED <<jobs, conf, cache, wait, past, fresh, calls>> /\ s \in todo[c]
  BY DEF List, hist
<1>3. \A d \in Clients : SameKept(d)
  BY <1>2 DEF SameKept
<1>4. CASE Return(c, "raised")
  BY <1>2, <1>3, <1>4, ReturnWork DEF Outcomes, Others
<1>5. CASE /\ todo' = [todo EXCEPT ![c] = @ \ {s}]
           /\ found' = [found EXCEPT ![c] = @ \cup js]
           /\ UNCHANGED <<op, pc, last, at, walk, watch>>
  <2> HIDE DEF js
  <2>1. /\ todo'[c] = todo[c] \ {s} /\ found'[c] = found[c] \cup js
        /\ todo' \in [Clients -> SUBSET Sites] /\ found' \in [Clients -> SUBSET Nat]
        /\ \A d \in Clients \ {c} : todo'[d] = todo[d] /\ found'[d] = found[d]
    BY <1>1, <1>5 DEF WorkTyped
  <2>2. UNCHANGED <<op, pc, last, at, rest, rounds, dying, seen, running>>
    BY <1>5 DEF walk, watch
  <2>3. Typed' /\ Others(c)
    BY <1>2, <1>3, <2>1, <2>2 DEF WorkTyped, Others, SameWork
  <2> QED
    BY <1>2, <1>3, <2>1, <2>2, <2>3 DEF js
<1> QED
  BY <1>4, <1>5 DEF List

\* Take, with the job that was found or with the one just submitted.
Takes(c, js) ==
  /\ pc[c] = "take" /\ todo[c] = {}
  /\ cache'[c] = IF Single(c) THEN js ELSE cache[c]
  /\ conf'[c] = conf[c] /\ wait'[c] = wait[c]
  /\ past'[c] = past[c] /\ fresh'[c] = fresh[c]
  /\ \/ rest[c] = {} /\ ReservedAs(c, cache'[c])
     \/ NextSite(c, "take")

LEMMA ReloadDoes ==
  ASSUME Typed, NEW c \in Clients, Reload(c)
  PROVE  /\ Typed' /\ Others(c) /\ jobs' = jobs /\ calls' = calls
         /\ found[c] # {} /\ Takes(c, found[c])
<1> USE DEF Typed, KeptTyped
<1>1. /\ pc[c] = "take" /\ todo[c] = {} /\ found[c] # {}
      /\ Take(c, found[c]) /\ found[c] \in SUBSET Nat
      /\ UNCHANGED <<jobs, conf, wait, past, fresh, calls>>
  BY DEF Reload, Scanned, hist, WorkTyped
<1>2. /\ WorkTyped'
      /\ cache' \in [Clients -> SUBSET Nat]
      /\ cache'[c] = IF Single(c) THEN found[c] ELSE cache[c]
      /\ \/ rest[c] = {} /\ ReservedAs(c, cache'[c])
         \/ NextSite(c, "take")
      /\ \A d \in Clients \ {c} : SameWork(d) /\ cache'[d] = cache[d]
  BY <1>1, TakeWork
<1> QED
  BY <1>1, <1>2 DEF Others, SameKept, Takes

\* There is a new job, on a site of the provider in hand.
Submits(c) ==
  /\ found[c] = {}
  /\ Len(jobs) < MaxJobs
  /\ \E s \in at[c] : jobs' = Append(jobs, New(s))

LEMMA SubmitDoes ==
  ASSUME Typed, NEW c \in Clients, Submit(c)
  PROVE  /\ Typed' /\ Others(c) /\ calls' = calls
         /\ Submits(c) /\ Takes(c, {Len(jobs) + 1})
<1> USE DEF Typed, KeptTyped
<1>1. /\ pc[c] = "take" /\ todo[c] = {} /\ Submits(c)
      /\ Take(c, {Len(jobs) + 1})
      /\ UNCHANGED <<conf, wait, past, fresh, calls>>
  BY DEF Submit, Scanned, Submits, hist
<1>2. {Len(jobs) + 1} \in SUBSET Nat /\ at[c] \subseteq Sites
  BY JobTypes DEF WorkTyped
<1>3. jobs' \in Seq(Job)
  BY <1>1, <1>2, Appended DEF Submits
<1>4. /\ WorkTyped'
      /\ cache' \in [Clients -> SUBSET Nat]
      /\ cache'[c] = IF Single(c) THEN {Len(jobs) + 1} ELSE cache[c]
      /\ \/ rest[c] = {} /\ ReservedAs(c, cache'[c])
         \/ NextSite(c, "take")
      /\ \A d \in Clients \ {c} : SameWork(d) /\ cache'[d] = cache[d]
  BY <1>1, <1>2, TakeWork
<1> QED
  BY <1>1, <1>3, <1>4 DEF Others, SameKept, Takes

LEMMA SubmitFailsDoes ==
  ASSUME Typed, NEW c \in Clients, SubmitFails(c)
  PROVE  /\ Typed' /\ Others(c) /\ calls' = calls /\ SameKept(c)
         /\ pc[c] = "take" /\ todo[c] = {} /\ Returned(c, "raised")
         /\ Submits(c) \/ jobs' = jobs
<1> USE DEF Typed, KeptTyped
<1>1. /\ pc[c] = "take" /\ todo[c] = {} /\ Return(c, "raised")
      /\ Submits(c) \/ jobs' = jobs
      /\ UNCHANGED <<conf, cache, wait, past, fresh, calls>>
  BY DEF SubmitFails, Scanned, Submits, hist
<1>2. at[c] \subseteq Sites
  BY DEF WorkTyped
<1>3. jobs' \in Seq(Job)
  BY <1>1, <1>2, Appended DEF Submits
<1>4. /\ WorkTyped' /\ Returned(c, "raised")
      /\ \A d \in Clients \ {c} : SameWork(d)
  BY <1>1, ReturnWork DEF Outcomes
<1> QED
  BY <1>1, <1>3, <1>4 DEF Others, SameKept

LEMMA AllCreatedDoes ==
  ASSUME Typed, NEW c \in Clients, AllCreated(c)
  PROVE  /\ Typed' /\ Others(c) /\ jobs' = jobs /\ calls' = calls /\ SameKept(c)
         /\ pc[c] = "created" /\ todo[c] = {}
         /\ SitesOf(found[c]) = conf[c] /\ ReservedAs(c, cache[c])
<1> USE DEF Typed, KeptTyped
<1>1. /\ pc[c] = "created" /\ todo[c] = {} /\ SitesOf(found[c]) = conf[c]
      /\ Reserved(c, cache[c])
      /\ UNCHANGED <<jobs, conf, cache, wait, past, fresh, calls>>
  BY DEF AllCreated, Scanned, hist
<1>2. /\ WorkTyped' /\ ReservedAs(c, cache[c])
      /\ \A d \in Clients \ {c} : SameWork(d)
  BY <1>1, ReservedWork
<1> QED
  BY <1>1, <1>2 DEF Others, SameKept

\* The temporary Providers turns to the sites ss, in some order, in step p.
Turns(c, ss, p) ==
  \E s \in ss :
    /\ rest'[c] = ss \ {s} /\ Scans(c, {s}, p)
    /\ op'[c] = op[c] /\ last'[c] = last[c]
    /\ dying'[c] = dying[c] /\ seen'[c] = seen[c] /\ running'[c] = running[c]

LEMMA TurnWork ==
  ASSUME WorkTyped, NEW c \in Clients, NEW ss \in SUBSET Sites, NEW p \in Steps,
         NEW n \in Nat,
         \E s \in ss : rest' = [rest EXCEPT ![c] = ss \ {s}] /\ Scan(c, {s}, p),
         UNCHANGED <<op, dying, seen, running, last>>,
         rounds' = [rounds EXCEPT ![c] = n]
  PROVE  /\ WorkTyped' /\ Turns(c, ss, p) /\ rounds'[c] = n
         /\ \A d \in Clients \ {c} : SameWork(d)
<1>1. PICK s \in ss : rest' = [rest EXCEPT ![c] = ss \ {s}] /\ Scan(c, {s}, p)
  OBVIOUS
<1>2. {s} \in SUBSET Sites
  OBVIOUS
<1>3. /\ pc' \in [Clients -> Steps]
      /\ todo' \in [Clients -> SUBSET Sites]
      /\ found' \in [Clients -> SUBSET Nat]
      /\ at' \in [Clients -> SUBSET Sites]
      /\ Scans(c, {s}, p)
      /\ \A d \in Clients \ {c} :
           /\ pc'[d] = pc[d] /\ todo'[d] = todo[d]
           /\ found'[d] = found[d] /\ at'[d] = at[d]
  BY <1>1, <1>2, ScanWork
<1>4. /\ rest' \in [Clients -> SUBSET Sites] /\ rest'[c] = ss \ {s}
      /\ rounds' \in [Clients -> Nat] /\ rounds'[c] = n
      /\ \A d \in Clients \ {c} : rest'[d] = rest[d] /\ rounds'[d] = rounds[d]
  BY <1>1 DEF WorkTyped
<1> QED
  BY <1>3, <1>4 DEF WorkTyped, Turns, SameWork

LEMMA SlotFoundDoes ==
  ASSUME Typed, NEW c \in Clients, SlotFound(c)
  PROVE  /\ Typed' /\ Others(c) /\ jobs' = jobs /\ calls' = calls /\ SameKept(c)
         /\ pc[c] = "created" /\ todo[c] = {} /\ rounds[c] < MaxRounds
         /\ Turns(c, Missing(c), "take") /\ rounds'[c] = rounds[c]
<1> USE DEF Typed, KeptTyped
<1>1. /\ UNCHANGED <<jobs, conf, cache, wait, past, fresh, calls>>
      /\ UNCHANGED <<op, dying, seen, running, last, rounds>>
      /\ pc[c] = "created" /\ todo[c] = {} /\ rounds[c] < MaxRounds
  BY DEF SlotFound, Scanned, hist, watch
<1>2. Missing(c) \in SUBSET Sites
  BY DEF Missing
<1>3. /\ rounds[c] \in Nat
      /\ rounds' = [rounds EXCEPT ![c] = rounds[c]]
  BY <1>1 DEF WorkTyped
<1>4. \E s \in Missing(c) :
        rest' = [rest EXCEPT ![c] = Missing(c) \ {s}] /\ Scan(c, {s}, "take")
  BY DEF SlotFound
<1>5. /\ WorkTyped' /\ Turns(c, Missing(c), "take") /\ rounds'[c] = rounds[c]
      /\ \A d \in Clients \ {c} : SameWork(d)
  BY <1>1, <1>2, <1>3, <1>4, TurnWork DEF Steps
<1> QED
  BY <1>1, <1>5 DEF Others, SameKept

LEMMA NoSlotDoes ==
  ASSUME Typed, NEW c \in Clients, NoSlot(c)
  PROVE  /\ Typed' /\ Others(c) /\ jobs' = jobs /\ calls' = calls /\ SameKept(c)
         /\ pc[c] = "created" /\ todo[c] = {}
         /\ Turns(c, conf[c], "giveup") /\ rounds'[c] = rounds[c]
<1> USE DEF Typed, KeptTyped
<1>1. /\ UNCHANGED <<jobs, conf, cache, wait, past, fresh, calls>>
      /\ UNCHANGED <<op, dying, seen, running, last, rounds>>
      /\ pc[c] = "created" /\ todo[c] = {}
  BY DEF NoSlot, Scanned, hist, watch
<1>2. conf[c] \in SUBSET Sites
  OBVIOUS
<1>3. /\ rounds[c] \in Nat
      /\ rounds' = [rounds EXCEPT ![c] = rounds[c]]
  BY <1>1 DEF WorkTyped
<1>4. \E s \in conf[c] :
        rest' = [rest EXCEPT ![c] = conf[c] \ {s}] /\ Scan(c, {s}, "giveup")
  BY DEF NoSlot, DestroyAll
<1>5. /\ WorkTyped' /\ Turns(c, conf[c], "giveup") /\ rounds'[c] = rounds[c]
      /\ \A d \in Clients \ {c} : SameWork(d)
  BY <1>1, <1>2, <1>3, <1>4, TurnWork DEF Steps
<1> QED
  BY <1>1, <1>5 DEF Others, SameKept

LEMMA RefusedDoes ==
  ASSUME Typed, NEW c \in Clients, Refused(c)
  PROVE  /\ Typed' /\ Others(c) /\ jobs' = jobs /\ calls' = calls /\ SameKept(c)
         /\ pc[c] = "take" /\ todo[c] = {} /\ found[c] = {} /\ ~Single(c)
         /\ Turns(c, conf[c], "again") /\ rounds'[c] = rounds[c] + 1
<1> USE DEF Typed, KeptTyped
<1>1. /\ UNCHANGED <<jobs, conf, cache, wait, past, fresh, calls>>
      /\ UNCHANGED <<op, dying, seen, running, last>>
      /\ pc[c] = "take" /\ todo[c] = {} /\ found[c] = {} /\ ~Single(c)
  BY DEF Refused, Scanned, hist, watch
<1>2. conf[c] \in SUBSET Sites
  OBVIOUS
<1>3. /\ rounds[c] + 1 \in Nat
      /\ rounds' = [rounds EXCEPT ![c] = rounds[c] + 1]
  BY DEF Refused, WorkTyped
<1>4. \E s \in conf[c] :
        rest' = [rest EXCEPT ![c] = conf[c] \ {s}] /\ Scan(c, {s}, "again")
  BY DEF Refused, DestroyAll
<1>5. /\ WorkTyped' /\ Turns(c, conf[c], "again") /\ rounds'[c] = rounds[c] + 1
      /\ \A d \in Clients \ {c} : SameWork(d)
  BY <1>1, <1>2, <1>3, <1>4, TurnWork DEF Steps
<1> QED
  BY <1>1, <1>5 DEF Others, SameKept

\* The call number goes down in a job that is listed and not yet doomed.
Dooms(j) ==
  IF Listed(j) /\ ~Doomed(j) THEN jobs' = [jobs EXCEPT ![j].deleted = calls]
  ELSE jobs' = jobs

LEMMA DeleteDoes ==
  ASSUME Typed, NEW c \in Clients, NEW j \in Ids, Delete(c, j)
  PROVE  /\ Typed' /\ Others(c) /\ calls' = calls /\ SameKept(c)
         /\ Killing(c) /\ dying[c] = {} /\ j \in found[c] /\ Dooms(j)
         /\ found'[c] = found[c] \ {j}
         /\ dying'[c] = IF Waited(c) THEN {j} ELSE {}
         /\ op'[c] = op[c] /\ pc'[c] = pc[c] /\ last'[c] = last[c]
         /\ todo'[c] = todo[c] /\ at'[c] = at[c] /\ rest'[c] = rest[c]
         /\ rounds'[c] = rounds[c] /\ seen'[c] = seen[c]
         /\ running'[c] = running[c]
<1> USE DEF Typed, KeptTyped
<1>1. /\ UNCHANGED <<conf, cache, wait, past, fresh, calls>>
      /\ UNCHANGED <<op, pc, todo, at, rest, rounds, seen, running, last>>
      /\ Killing(c) /\ dying[c] = {} /\ j \in found[c] /\ Dooms(j)
  BY DEF Delete, Dooms, hist, watch
<1>2. jobs' \in Seq(Job)
  <2>1. "over" \in JobStates /\ calls \in 0 .. MaxCalls
    BY DEF JobStates
  <2> QED
    BY <1>1, <2>1, Changed DEF Dooms
<1>3. /\ found' \in [Clients -> SUBSET Nat]
      /\ found'[c] = found[c] \ {j}
      /\ dying' \in [Clients -> SUBSET Nat]
      /\ dying'[c] = IF Waited(c) THEN {j} ELSE {}
      /\ \A d \in Clients \ {c} : found'[d] = found[d] /\ dying'[d] = dying[d]
  <2>1. {j} \in SUBSET Nat
    BY <1>1 DEF WorkTyped
  <2> HIDE DEF KeptTyped
  <2> QED
    BY <2>1 DEF Delete, WorkTyped
<1> QED
  BY <1>1, <1>2, <1>3 DEF WorkTyped, Others, SameWork, SameKept

LEMMA GoneDoes ==
  ASSUME Typed, NEW c \in Clients, NEW j \in Ids, Gone(c, j)
  PROVE  /\ Typed' /\ Others(c) /\ jobs' = jobs /\ calls' = calls /\ SameKept(c)
         /\ j \in dying[c] /\ ~Listed(j) /\ dying'[c] = {}
         /\ op'[c] = op[c] /\ pc'[c] = pc[c] /\ last'[c] = last[c]
         /\ todo'[c] = todo[c] /\ found'[c] = found[c] /\ at'[c] = at[c]
         /\ rest'[c] = rest[c] /\ rounds'[c] = rounds[c] /\ seen'[c] = seen[c]
         /\ running'[c] = running[c]
<1> USE DEF Typed, KeptTyped
<1>1. /\ UNCHANGED <<jobs, conf, cache, wait, past, fresh, calls>>
      /\ UNCHANGED <<op, pc, todo, found, at, rest, rounds, seen, running, last>>
      /\ j \in dying[c] /\ ~Listed(j)
  BY DEF Gone, hist, watch, scan, StillThere, Listed
<1>2. /\ dying' \in [Clients -> SUBSET Nat]
      /\ dying'[c] = {}
      /\ \A d \in Clients \ {c} : dying'[d] = dying[d]
  BY DEF Gone, WorkTyped
<1> QED
  BY <1>1, <1>2 DEF WorkTyped, Others, SameWork, SameKept

\* The provider in hand has no job left.
LEMMA DeletedDoes ==
  ASSUME Typed, NEW c \in Clients, Deleted(c)
  PROVE  /\ Typed' /\ Others(c) /\ jobs' = jobs /\ calls' = calls /\ SameKept(c)
         /\ Killing(c) /\ found[c] = {} /\ dying[c] = {}
         /\ \/ NextSite(c, pc[c])
            \/ /\ rest[c] = {} /\ pc[c] = "again" /\ Scans(c, conf[c], "created")
               /\ op'[c] = op[c] /\ last'[c] = last[c] /\ rest'[c] = rest[c]
               /\ rounds'[c] = rounds[c] /\ dying'[c] = dying[c]
               /\ seen'[c] = seen[c] /\ running'[c] = running[c]
            \/ /\ rest[c] = {} /\ pc[c] # "again"
               /\ Returned(c, IF pc[c] = "kill" THEN "destroyed" ELSE "raised")
<1> USE DEF Typed, KeptTyped
<1>1. /\ UNCHANGED <<jobs, conf, cache, wait, past, fresh, calls>>
      /\ Killing(c) /\ found[c] = {} /\ dying[c] = {}
  BY DEF Deleted, hist
<1>2. ASSUME NEW s \in rest[c],
             rest' = [rest EXCEPT ![c] = @ \ {s}],
             Scan(c, {s}, pc[c]),
             UNCHANGED <<op, last, rounds, dying, watch>>
      PROVE  WorkTyped' /\ NextSite(c, pc[c]) /\ \A d \in Clients \ {c} : SameWork(d)
  <2>1. s \in Sites /\ {s} \in SUBSET Sites /\ pc[c] \in Steps
    BY DEF WorkTyped
  <2> QED
    BY <1>2, <2>1, ScanWork DEF WorkTyped, NextSite, SameWork, watch
<1>3. CASE /\ rest[c] = {} /\ pc[c] = "again" /\ Scan(c, conf[c], "created")
           /\ UNCHANGED <<op, last, walk, watch>>
  <2>1. conf[c] \in SUBSET Sites /\ "created" \in Steps
    BY DEF Steps
  <2>2. /\ pc' \in [Clients -> Steps]
        /\ todo' \in [Clients -> SUBSET Sites]
        /\ found' \in [Clients -> SUBSET Nat]
        /\ at' \in [Clients -> SUBSET Sites]
        /\ Scans(c, conf[c], "created")
        /\ \A d \in Clients \ {c} :
             /\ pc'[d] = pc[d] /\ todo'[d] = todo[d]
             /\ found'[d] = found[d] /\ at'[d] = at[d]
    BY <1>3, <2>1, ScanWork
  <2>3. UNCHANGED <<op, last, rest, rounds, dying, seen, running>>
    BY <1>3 DEF walk, watch
  <2> QED
    BY <1>1, <1>3, <2>2, <2>3 DEF WorkTyped, Others, SameWork, SameKept
<1>4. CASE /\ rest[c] = {} /\ pc[c] # "again"
           /\ Return(c, IF pc[c] = "kill" THEN "destroyed" ELSE "raised")
  <2> DEFINE o == IF pc[c] = "kill" THEN "destroyed" ELSE "raised"
  <2>1. o \in Outcomes
    BY DEF Outcomes
  <2>2. WorkTyped' /\ Returned(c, o) /\ \A d \in Clients \ {c} : SameWork(d)
    <3> HIDE DEF o
    <3>1. Return(c, o)
      BY <1>4 DEF o
    <3> QED
      BY <2>1, <3>1, ReturnWork
  <2> QED
    BY <1>1, <1>4, <2>2 DEF Others, SameKept
<1> QED
  BY <1>1, <1>2, <1>3, <1>4 DEF Deleted, Others, SameKept

LEMMA LoadDoes ==
  ASSUME Typed, NEW c \in Clients, Load(c)
  PROVE  /\ Typed' /\ Others(c) /\ jobs' = jobs /\ calls' = calls
         /\ pc[c] = "load" /\ todo[c] = {} /\ Waits(c)
         /\ cache'[c] = found[c] /\ conf'[c] = conf[c] /\ wait'[c] = wait[c]
         /\ past'[c] = past[c] /\ fresh'[c] = fresh[c]
         /\ op'[c] = op[c] /\ last'[c] = last[c] /\ todo'[c] = todo[c]
         /\ found'[c] = found[c] /\ at'[c] = at[c] /\ rest'[c] = rest[c]
         /\ rounds'[c] = rounds[c] /\ dying'[c] = dying[c]
<1> USE DEF Typed, KeptTyped
<1>1. /\ UNCHANGED <<jobs, conf, wait, past, fresh, calls>>
      /\ UNCHANGED <<op, last, todo, found, at, rest, rounds, dying>>
      /\ pc[c] = "load" /\ todo[c] = {} /\ StartWait(c)
  BY DEF Load, Scanned, hist, scan, walk
<1>2. /\ cache' \in [Clients -> SUBSET Nat]
      /\ cache'[c] = found[c]
      /\ \A d \in Clients \ {c} : cache'[d] = cache[d]
  BY DEF Load, WorkTyped
<1>3. /\ pc' \in [Clients -> Steps]
      /\ seen' \in [Clients -> SUBSET Nat]
      /\ running' \in [Clients -> BOOLEAN]
      /\ Waits(c)
      /\ \A d \in Clients \ {c} :
           pc'[d] = pc[d] /\ seen'[d] = seen[d] /\ running'[d] = running[d]
  BY <1>1, StartWaitWork
<1> QED
  BY <1>1, <1>2, <1>3 DEF WorkTyped, Others, SameWork, SameKept

\* wait_for_jobs: an iteration goes on.
Watches(c, ss, r) ==
  /\ seen'[c] = ss /\ running'[c] = r
  /\ op'[c] = op[c] /\ pc'[c] = pc[c] /\ last'[c] = last[c]
  /\ todo'[c] = todo[c] /\ found'[c] = found[c] /\ at'[c] = at[c]
  /\ rest'[c] = rest[c] /\ rounds'[c] = rounds[c] /\ dying'[c] = dying[c]

LEMMA WatchWork ==
  ASSUME WorkTyped, NEW c \in Clients, NEW ss \in SUBSET Nat, NEW r \in BOOLEAN,
         seen' = [seen EXCEPT ![c] = ss], running' = [running EXCEPT ![c] = r],
         UNCHANGED <<op, pc, last, scan, walk>>
  PROVE  /\ WorkTyped' /\ Watches(c, ss, r)
         /\ \A d \in Clients \ {c} : SameWork(d)
<1>1. UNCHANGED <<op, pc, last, todo, found, at, rest, rounds, dying>>
  BY DEF scan, walk
<1>2. /\ seen' \in [Clients -> SUBSET Nat] /\ seen'[c] = ss
      /\ running' \in [Clients -> BOOLEAN] /\ running'[c] = r
      /\ \A d \in Clients \ {c} : seen'[d] = seen[d] /\ running'[d] = running[d]
  BY DEF WorkTyped
<1> QED
  BY <1>1, <1>2 DEF WorkTyped, Watches, SameWork

LEMMA RefreshDoes ==
  ASSUME Typed, NEW c \in Clients, NEW j \in Ids, Refresh(c, j)
  PROVE  /\ Typed' /\ Others(c) /\ jobs' = jobs /\ calls' = calls /\ SameKept(c)
         /\ pc[c] = "wait" /\ j \in cache[c] \ seen[c]
         /\ \/ Returned(c, "raised")
            \/ Watches(c, seen[c] \cup {j}, running[c] /\ jobs[j].st = "running")
<1> USE DEF Typed, KeptTyped
<1>1. /\ UNCHANGED <<jobs, conf, cache, wait, past, fresh, calls>>
      /\ pc[c] = "wait" /\ j \in cache[c] \ seen[c]
  BY DEF Refresh, hist
<1>2. CASE Return(c, "raised")
  BY <1>1, <1>2, ReturnWork DEF Others, SameKept, Outcomes
<1>3. CASE /\ seen' = [seen EXCEPT ![c] = @ \cup {j}]
           /\ running' = [running EXCEPT ![c] = AllRunning(c, j)]
           /\ UNCHANGED <<op, pc, last, scan, walk>>
  <2>1. /\ seen[c] \cup {j} \in SUBSET Nat /\ AllRunning(c, j) \in BOOLEAN
        /\ seen' = [seen EXCEPT ![c] = seen[c] \cup {j}]
    BY <1>1, <1>3 DEF WorkTyped, AllRunning
  <2>2. /\ WorkTyped' /\ Watches(c, seen[c] \cup {j}, AllRunning(c, j))
        /\ \A d \in Clients \ {c} : SameWork(d)
    BY <1>3, <2>1, WatchWork
  <2> QED
    BY <1>1, <2>2 DEF Others, SameKept, AllRunning
<1> QED
  BY <1>2, <1>3 DEF Refresh

LEMMA IterateDoes ==
  ASSUME Typed, NEW c \in Clients, Iterate(c)
  PROVE  /\ Typed' /\ Others(c) /\ jobs' = jobs /\ calls' = calls /\ SameKept(c)
         /\ pc[c] = "wait" /\ seen[c] = cache[c]
         /\ \/ running[c] /\ Returned(c, "ready")
            \/ ~running[c] /\ Watches(c, {}, TRUE)
<1> USE DEF Typed, KeptTyped
<1>1. /\ UNCHANGED <<jobs, conf, cache, wait, past, fresh, calls>>
      /\ pc[c] = "wait" /\ seen[c] = cache[c]
  BY DEF Iterate, hist
<1>2. CASE running[c] /\ Return(c, "ready")
  BY <1>1, <1>2, ReturnWork DEF Others, SameKept, Outcomes
<1>3. CASE /\ ~running[c]
           /\ seen' = [seen EXCEPT ![c] = {}]
           /\ running' = [running EXCEPT ![c] = Reset(c)]
           /\ UNCHANGED <<op, pc, last, scan, walk>>
  <2>1. WorkTyped' /\ Watches(c, {}, TRUE) /\ \A d \in Clients \ {c} : SameWork(d)
    BY <1>3, WatchWork DEF Reset
  <2> QED
    BY <1>1, <1>3, <2>1 DEF Others, SameKept
<1> QED
  BY <1>2, <1>3 DEF Iterate

LEMMA CrashDoes ==
  ASSUME Typed, NEW c \in Clients, Crash(c)
  PROVE  /\ Typed' /\ Others(c) /\ jobs' = jobs /\ calls' = calls
         /\ Returned(c, "none") /\ cache'[c] = {}
         /\ conf'[c] = conf[c] /\ wait'[c] = wait[c]
         /\ past'[c] = past[c] /\ fresh'[c] = fresh[c]
<1> USE DEF Typed, KeptTyped
<1>1. UNCHANGED <<jobs, conf, wait, past, fresh, calls>> /\ Return(c, "none")
  BY DEF Crash, hist
<1>2. /\ cache' \in [Clients -> SUBSET Nat] /\ cache'[c] = {}
      /\ \A d \in Clients \ {c} : cache'[d] = cache[d]
  BY DEF Crash
<1>3. /\ WorkTyped' /\ Returned(c, "none")
      /\ \A d \in Clients \ {c} : SameWork(d)
  BY <1>1, ReturnWork DEF Outcomes
<1> QED
  BY <1>1, <1>2, <1>3 DEF Others, SameKept

\* OAR: a job that was listed starts, fails or ends.
LEMMA OarDoes ==
  ASSUME Typed, NEW j \in Ids, Start(j) \/ End(j) \/ Killed(j)
  PROVE  /\ Typed' /\ calls' = calls /\ conf' = conf
         /\ \A d \in Clients : SameWork(d) /\ SameKept(d)
         /\ Len(jobs') = Len(jobs)
         /\ \A k \in Ids : k # j => jobs'[k] = jobs[k]
         /\ Listed(j)
         /\ \E st \in JobStates \ {"waiting"} :
              /\ jobs'[j] = [jobs[j] EXCEPT !.st = st]
              /\ jobs[j].st = "running" => st = "over"
<1> USE DEF Typed, KeptTyped
<1>1. PICK st \in JobStates \ {"waiting"} :
        Set(j, st) /\ (jobs[j].st = "running" => st = "over")
  BY DEF Start, End, Killed, JobStates
<1>2. Listed(j)
  BY DEF Start, End, Killed, Listed
<1>3. /\ UNCHANGED <<conf, cache, wait, past, fresh, calls>>
      /\ UNCHANGED <<op, pc, last, todo, found, at, rest, rounds, dying, seen, running>>
      /\ jobs' = [jobs EXCEPT ![j].st = st]
  BY <1>1 DEF Set, scan, walk, watch, hist
<1>4. /\ jobs' \in Seq(Job) /\ Len(jobs') = Len(jobs)
      /\ \A k \in Ids : k # j => jobs'[k] = jobs[k]
  BY <1>3, Changed
<1>5. jobs'[j] = [jobs[j] EXCEPT !.st = st]
  <2>1. jobs[j] \in Job /\ DOMAIN jobs = Ids
    BY JobTypes, LenProperties DEF Ids
  <2> QED
    BY <1>3, <2>1
<1>6. Typed'
  BY <1>3, <1>4 DEF WorkTyped
<1> QED
  BY <1>1, <1>2, <1>3, <1>4, <1>5, <1>6 DEF SameWork, SameKept

-----------------------------------------------------------------------------
(* Any number of clients: types, and what init returns with *)

\* Where a call stands: what it knows and has still to visit, which step
\* belongs to which call and to which kind of object, and that it waits for
\* one deletion at a time.
Stands(c) ==
  /\ cache[c] \cup found[c] \cup dying[c] \cup seen[c] \cup past[c] \subseteq Ids
  /\ todo[c] \subseteq at[c] /\ at[c] \subseteq conf[c]
  /\ rest[c] \subseteq conf[c] \ at[c]
  /\ rounds[c] <= MaxRounds
  /\ pc[c] = "idle" <=> op[c] = "none"
  /\ pc[c] = "kill" <=> op[c] = "destroy"
  /\ pc[c] # "idle" => last[c] = "none" /\ calls > 0
  /\ pc[c] \in {"idle", "created", "load", "wait", "kill"} => rest[c] = {}
  /\ pc[c] \in {"created", "load", "kill"} => at[c] = conf[c]
  /\ pc[c] \in {"created", "load", "again", "giveup"} => ~Single(c)
  /\ pc[c] = "take" /\ Single(c) => at[c] = conf[c] /\ rest[c] = {}
  /\ pc[c] = "take" /\ ~Single(c) => rounds[c] < MaxRounds
  /\ pc[c] \notin Killers => dying[c] = {}
  /\ \A j, k \in dying[c] : j = k

\* The jobs refreshed were running and none was over when the call began.
Watched(c) ==
  /\ \A j \in past[c] : ~Listed(j)
  /\ pc[c] = "wait" /\ running[c] =>
       \A j \in seen[c] : jobs[j].st \in {"running", "over"} /\ j \notin past[c]
  /\ last[c] = "ready" =>
       \A j \in cache[c] : jobs[j].st \in {"running", "over"} /\ j \notin past[c]

Anyone ==
  /\ Typed /\ Len(jobs) <= MaxJobs
  /\ \A j \in Ids : jobs[j].deleted <= calls
  /\ \A c \in Clients : Stands(c) /\ Watched(c)

\* How the jobs change in a step.
Evolved ==
  /\ Len(jobs') <= MaxJobs
  /\ Ids \subseteq Ids'
  /\ \A j \in Ids :
       /\ jobs'[j].site = jobs[j].site
       /\ ~Listed(j) => jobs'[j] = jobs[j]
       /\ jobs[j].st \in {"running", "over"} => jobs'[j].st \in {"running", "over"}
  /\ \A j \in Ids' : jobs'[j].deleted <= calls'

LEMMA SameJobs ==
  ASSUME Anyone, jobs' = jobs, calls' \in Nat, calls <= calls'
  PROVE  Evolved
<1>1. \A j \in Ids : jobs[j].deleted \in Nat /\ calls \in Nat
  BY JobTypes, JobsAssumption DEF Anyone, Typed, KeptTyped, Job
<1> QED
  BY <1>1 DEF Anyone, Evolved, Ids

LEMMA NewJob ==
  ASSUME Anyone, NEW c \in Clients, Submits(c), calls' = calls
  PROVE  /\ Evolved
         /\ Len(jobs') = Len(jobs) + 1
         /\ Ids' = Ids \cup {Len(jobs) + 1} /\ Len(jobs) + 1 \notin Ids
         /\ \A j \in Ids : jobs'[j] = jobs[j]
         /\ jobs'[Len(jobs) + 1].st = "waiting"
         /\ jobs'[Len(jobs) + 1].deleted = 0
         /\ jobs'[Len(jobs) + 1].site \in at[c]
         /\ \A j \in Ids : Listed(j)' = Listed(j)
<1> USE DEF Anyone, Typed, KeptTyped
<1>1. PICK s \in at[c] : jobs' = Append(jobs, New(s))
  BY DEF Submits
<1>2. s \in Sites
  BY DEF WorkTyped
<1>3. /\ Len(jobs) \in Nat
      /\ Len(jobs') = Len(jobs) + 1
      /\ \A j \in Ids : jobs'[j] = jobs[j]
      /\ jobs'[Len(jobs) + 1] = New(s)
  BY <1>1, <1>2, Appended
<1>4. Ids' = Ids \cup {Len(jobs) + 1} /\ Len(jobs) + 1 \notin Ids
  BY <1>3 DEF Ids
<1>5. /\ jobs'[Len(jobs) + 1].st = "waiting"
      /\ jobs'[Len(jobs) + 1].deleted = 0
      /\ jobs'[Len(jobs) + 1].site \in at[c]
  BY <1>1, <1>3 DEF New
<1>6. \A j \in Ids : Listed(j)' = Listed(j)
  BY <1>3 DEF Listed
<1>7. Len(jobs') <= MaxJobs
  BY <1>3, JobsAssumption DEF Submits
<1>8. \A j \in Ids' : jobs'[j].deleted <= calls'
  BY <1>3, <1>4, <1>5, JobsAssumption
<1> QED
  BY <1>3, <1>4, <1>5, <1>6, <1>7, <1>8 DEF Evolved

LEMMA DoomedJob ==
  ASSUME Anyone, NEW j \in Ids, Dooms(j), calls' = calls
  PROVE  /\ Evolved /\ Ids' = Ids
         /\ \A k \in Ids : Listed(k)' = Listed(k)
         /\ \A k \in Ids : k # j => jobs'[k] = jobs[k]
         /\ jobs'[j].st = jobs[j].st
         /\ jobs'[j].deleted =
              IF Listed(j) /\ ~Doomed(j) THEN calls ELSE jobs[j].deleted
<1> USE DEF Anyone, Typed, KeptTyped
<1>1. /\ Len(jobs) \in Nat /\ calls \in Nat /\ MaxJobs \in Nat
      /\ \A k \in Ids : jobs[k] \in Job
  BY JobTypes, JobsAssumption
<1>2. CASE jobs' = jobs /\ ~(Listed(j) /\ ~Doomed(j))
  BY <1>1, <1>2 DEF Evolved, Ids, Listed
<1>3. CASE Listed(j) /\ ~Doomed(j) /\ jobs' = [jobs EXCEPT ![j].deleted = calls]
  <2>1. "over" \in JobStates
    BY DEF JobStates
  <2>2. /\ Len(jobs') = Len(jobs)
        /\ \A k \in Ids : k # j => jobs'[k] = jobs[k]
    BY <1>3, <2>1, Changed
  <2>3. jobs'[j] = [jobs[j] EXCEPT !.deleted = calls]
    <3>1. DOMAIN jobs = Ids
      BY LenProperties DEF Ids
    <3> QED
      BY <1>3, <3>1
  <2>4. /\ jobs'[j].site = jobs[j].site /\ jobs'[j].st = jobs[j].st
        /\ jobs'[j].deleted = calls
    BY <1>1, <2>3 DEF Job
  <2>5. Ids' = Ids
    BY <2>2 DEF Ids
  <2>6. \A k \in Ids : Listed(k)' = Listed(k)
    BY <2>2, <2>4 DEF Listed
  <2> QED
    BY <1>1, <1>3, <2>2, <2>4, <2>5, <2>6 DEF Evolved, Job
<1> QED
  BY <1>2, <1>3 DEF Dooms

LEMMA OarJob ==
  ASSUME Anyone, NEW j \in Ids, Start(j) \/ End(j) \/ Killed(j)
  PROVE  /\ Evolved /\ Ids' = Ids
         /\ \A k \in Ids : Listed(k)' => Listed(k)
         /\ \A k \in Ids : /\ jobs'[k].deleted = jobs[k].deleted
                           /\ jobs'[k].site = jobs[k].site
<1> USE DEF Anyone
<1>1. /\ calls' = calls /\ Len(jobs') = Len(jobs)
      /\ \A k \in Ids : k # j => jobs'[k] = jobs[k]
      /\ Listed(j)
  BY OarDoes
<1>2. PICK st \in JobStates \ {"waiting"} :
        /\ jobs'[j] = [jobs[j] EXCEPT !.st = st]
        /\ jobs[j].st = "running" => st = "over"
  BY OarDoes
<1>3. jobs[j] \in Job
  BY JobTypes DEF Typed, KeptTyped
<1>4. /\ jobs'[j].site = jobs[j].site /\ jobs'[j].deleted = jobs[j].deleted
      /\ jobs'[j].st = st
  BY <1>2, <1>3 DEF Job
<1>5. Ids' = Ids
  BY <1>1 DEF Ids
<1>6. Len(jobs') <= MaxJobs /\ \A k \in Ids' : jobs'[k].deleted <= calls'
  BY <1>1, <1>4, <1>5
<1>7. \A k \in Ids : Listed(k)' => Listed(k)
  BY <1>1 DEF Listed
<1>8. \A k \in Ids :
        /\ ~Listed(k) => jobs'[k] = jobs[k]
        /\ jobs[k].st \in {"running", "over"} => jobs'[k].st \in {"running", "over"}
  BY <1>1, <1>2, <1>4 DEF Listed
<1> QED
  BY <1>1, <1>4, <1>5, <1>6, <1>7, <1>8 DEF Evolved

\* A client that does not move keeps its place.
LEMMA Frame ==
  ASSUME Anyone, Evolved, NEW d \in Clients, SameWork(d), SameKept(d),
         calls' \in Nat, calls <= calls'
  PROVE  Stands(d)' /\ Watched(d)'
<1>1. calls \in Nat
  BY JobsAssumption DEF Anyone, Typed, KeptTyped
<1>2. Stands(d)'
  BY <1>1 DEF Anyone, Stands, Evolved, SameWork, SameKept, Single
<1>3. Watched(d)'
  BY DEF Anyone, Stands, Watched, Evolved, SameWork, SameKept, Listed
<1> QED
  BY <1>2, <1>3

\* A call that has ended stands still; one that ended ready must have watched.
LEMMA EndStands ==
  ASSUME Anyone, Evolved, Typed', NEW c \in Clients, NEW o, Returned(c, o),
         cache'[c] \subseteq Ids', past'[c] = past[c],
         o = "ready" =>
           \A j \in cache'[c] :
             jobs'[j].st \in {"running", "over"} /\ j \notin past'[c]
  PROVE  Stands(c)' /\ Watched(c)'
<1>1. Stands(c)'
  BY JobsAssumption
     DEF Anyone, Stands, Evolved, Returned, Killers
<1>2. Watched(c)'
  BY DEF Anyone, Stands, Watched, Evolved, Returned, Listed
<1> QED
  BY <1>1, <1>2

\* The three ways on of a reservation that is done.
LEMMA ReservedStands ==
  ASSUME Anyone, Evolved, Typed', NEW c \in Clients, NEW js,
         ReservedAs(c, js), cache'[c] \subseteq Ids',
         conf'[c] = conf[c], past'[c] = past[c], calls' = calls,
         pc[c] \in {"take", "created"}, rest[c] = {},
         Single(c) => js # {}
  PROVE  Stands(c)' /\ Watched(c)'
<1>1. CASE Returned(c, "reserved")
  BY <1>1, EndStands
<1>2. CASE js # {} /\ ~Returned(c, "reserved")
  BY <1>2 DEF ReservedAs, Anyone, Stands, Watched, Evolved, Waits, Killers, Single, Listed
<1>3. CASE js = {} /\ ~Returned(c, "reserved")
  BY <1>3 DEF ReservedAs, Anyone, Stands, Watched, Evolved, Scans, Killers, Single, Listed
<1> QED
  BY <1>1, <1>2, <1>3

\* The same with the job in hand: the next site, or the end.
LEMMA TakeStands ==
  ASSUME Anyone, Evolved, Typed', NEW c \in Clients, NEW js, Takes(c, js),
         js # {}, js \subseteq Ids', calls' = calls
  PROVE  Stands(c)' /\ Watched(c)'
<1>1. cache'[c] \subseteq Ids'
  BY DEF Takes, Anyone, Stands, Evolved
<1>2. CASE rest[c] = {} /\ ReservedAs(c, cache'[c])
  BY <1>1, <1>2, ReservedStands DEF Takes
<1>3. CASE NextSite(c, "take")
  <2>1. ~Single(c)
    BY <1>3 DEF Takes, NextSite, Anyone, Stands
  <2> QED
    BY <1>1, <1>3, <2>1
       DEF Takes, NextSite, Scans, Anyone, Stands, Watched, Evolved, Killers, Single,
           Listed
<1> QED
  BY <1>2, <1>3 DEF Takes

LEMMA TurnStands ==
  ASSUME Anyone, Evolved, Typed', NEW c \in Clients, NEW ss \in SUBSET conf[c],
         NEW p, Turns(c, ss, p), SameKept(c), calls' = calls,
         pc[c] \in {"take", "created"}, ~Single(c),
         rounds'[c] <= MaxRounds,
         \/ p = "take" /\ rounds'[c] < MaxRounds
         \/ p \in {"again", "giveup"}
  PROVE  Stands(c)' /\ Watched(c)'
  BY DEF Turns, Scans, SameKept, Anyone, Stands, Watched, Evolved, Killers, Single,
         Listed

LEMMA AnyoneInit == Init => Anyone
<1> SUFFICES ASSUME Init PROVE Anyone
  OBVIOUS
<1>1. Typed
  BY JobsAssumption, EmptySeq
     DEF Init, Typed, WorkTyped, KeptTyped, Ops, Steps, Outcomes
<1>2. Len(jobs) = 0 /\ Ids = {}
  BY DEF Init, Ids
<1>3. \A c \in Clients : Stands(c) /\ Watched(c)
  BY JobsAssumption DEF Init, Stands, Watched, Killers
<1> QED
  BY <1>1, <1>2, <1>3, JobsAssumption DEF Anyone

\* Each step of a client, for that client.
LEMMA AnyoneClient ==
  ASSUME Anyone, NEW c \in Clients,
         \/ \E o \in Ops \ {"none"}, w \in BOOLEAN : Call(c, o, w)
         \/ Step(c)
         \/ Crash(c)
  PROVE  /\ Typed' /\ Others(c) /\ Evolved
         /\ calls' \in Nat /\ calls <= calls'
         /\ Stands(c)' /\ Watched(c)'
<1> USE DEF Anyone
<1>0. calls \in Nat /\ MaxRounds \in Nat /\ rounds[c] \in Nat
  BY JobsAssumption DEF Typed, KeptTyped, WorkTyped
<1> DEFINE Goal == /\ Typed' /\ Others(c) /\ Evolved
                   /\ calls' \in Nat /\ calls <= calls'
                   /\ Stands(c)' /\ Watched(c)'
<1>1. ASSUME NEW o \in Ops \ {"none"}, NEW w \in BOOLEAN, Call(c, o, w)
      PROVE  Goal
  <2>1. /\ Typed' /\ Others(c) /\ jobs' = jobs /\ conf'[c] = conf[c]
        /\ pc[c] = "idle" /\ calls' = calls + 1
        /\ op'[c] = o /\ wait'[c] = w /\ last'[c] = "none"
        /\ past'[c] = {j \in Ids : ~Listed(j)}
        /\ Scans(c, conf[c], IF o = "destroy" THEN "kill"
                             ELSE IF Single(c) THEN "take" ELSE "created")
        /\ cache'[c] = cache[c] /\ rest'[c] = rest[c] /\ rounds'[c] = rounds[c]
        /\ dying'[c] = dying[c] /\ seen'[c] = seen[c] /\ running'[c] = running[c]
    BY <1>1, CallDoes DEF Others
  <2>2. Evolved
    BY <1>0, <2>1, SameJobs
  <2>3. Stands(c)'
    BY <1>0, <2>1, <2>2 DEF Stands, Scans, Evolved, Killers, Single, Ops
  <2>4. Watched(c)'
    BY <2>1, <2>2 DEF Watched, Scans, Listed, Ops
  <2> QED
    BY <1>0, <2>1, <2>2, <2>3, <2>4
<1>2. ASSUME NEW s \in Sites, List(c, s)
      PROVE  Goal
  <2>1. /\ Typed' /\ Others(c) /\ jobs' = jobs /\ calls' = calls /\ SameKept(c)
        /\ s \in todo[c]
    BY <1>2, ListDoes
  <2>2. Evolved
    BY <1>0, <2>1, SameJobs
  <2>3. CASE Returned(c, "raised")
    BY <1>0, <2>1, <2>2, <2>3, EndStands DEF SameKept, Stands, Evolved
  <2>4. CASE /\ todo'[c] = todo[c] \ {s}
             /\ found'[c] = found[c] \cup {j \in Ids : jobs[j].site = s /\ Listed(j)}
             /\ op'[c] = op[c] /\ pc'[c] = pc[c] /\ last'[c] = last[c]
             /\ at'[c] = at[c] /\ rest'[c] = rest[c] /\ rounds'[c] = rounds[c]
             /\ dying'[c] = dying[c] /\ seen'[c] = seen[c]
             /\ running'[c] = running[c]
    <3>1. Stands(c)'
      BY <2>1, <2>2, <2>4 DEF Stands, SameKept, Evolved, Single
    <3>2. Watched(c)'
      BY <2>1, <2>2, <2>4 DEF Watched, SameKept, Listed
    <3> QED
      BY <1>0, <2>1, <2>2, <3>1, <3>2
  <2> QED
    BY <1>2, <2>3, <2>4, ListDoes
<1>3. CASE Reload(c)
  <2>1. /\ Typed' /\ Others(c) /\ jobs' = jobs /\ calls' = calls
        /\ found[c] # {} /\ Takes(c, found[c])
    BY <1>3, ReloadDoes
  <2>2. Evolved
    BY <1>0, <2>1, SameJobs
  <2>3. found[c] \subseteq Ids'
    BY <2>2 DEF Stands, Evolved
  <2> QED
    BY <1>0, <2>1, <2>2, <2>3, TakeStands
<1>4. CASE Submit(c)
  <2>1. /\ Typed' /\ Others(c) /\ calls' = calls
        /\ Submits(c) /\ Takes(c, {Len(jobs) + 1})
    BY <1>4, SubmitDoes
  <2>2. Evolved /\ Len(jobs) + 1 \in Ids'
    BY <2>1, NewJob
  <2> DEFINE js == {Len(jobs) + 1}
  <2>3. js # {} /\ js \subseteq Ids' /\ Takes(c, js)
    BY <2>1, <2>2
  <2> HIDE DEF js
  <2> QED
    BY <1>0, <2>1, <2>2, <2>3, TakeStands
<1>5. CASE SubmitFails(c)
  <2>1. /\ Typed' /\ Others(c) /\ calls' = calls /\ SameKept(c)
        /\ Returned(c, "raised") /\ (Submits(c) \/ jobs' = jobs)
    BY <1>5, SubmitFailsDoes
  <2>2. Evolved
    BY <1>0, <2>1, NewJob, SameJobs
  <2> QED
    BY <1>0, <2>1, <2>2, EndStands DEF SameKept, Stands, Evolved
<1>6. CASE AllCreated(c)
  <2>1. /\ Typed' /\ Others(c) /\ jobs' = jobs /\ calls' = calls /\ SameKept(c)
        /\ pc[c] = "created" /\ ReservedAs(c, cache[c])
    BY <1>6, AllCreatedDoes
  <2>2. Evolved
    BY <1>0, <2>1, SameJobs
  <2>3. rest[c] = {} /\ ~Single(c) /\ cache'[c] \subseteq Ids'
    BY <2>1, <2>2 DEF Stands, SameKept, Evolved
  <2> QED
    BY <1>0, <2>1, <2>2, <2>3, ReservedStands DEF SameKept
<1>7. CASE SlotFound(c)
  <2>1. /\ Typed' /\ Others(c) /\ jobs' = jobs /\ calls' = calls /\ SameKept(c)
        /\ pc[c] = "created" /\ rounds[c] < MaxRounds
        /\ Turns(c, Missing(c), "take") /\ rounds'[c] = rounds[c]
    BY <1>7, SlotFoundDoes
  <2>2. Evolved
    BY <1>0, <2>1, SameJobs
  <2>3. Missing(c) \in SUBSET conf[c] /\ ~Single(c) /\ rounds'[c] <= MaxRounds
    BY <1>0, <2>1 DEF Missing, Stands
  <2> QED
    BY <1>0, <2>1, <2>2, <2>3, TurnStands
<1>8. CASE NoSlot(c)
  <2>1. /\ Typed' /\ Others(c) /\ jobs' = jobs /\ calls' = calls /\ SameKept(c)
        /\ pc[c] = "created" /\ Turns(c, conf[c], "giveup")
        /\ rounds'[c] = rounds[c]
    BY <1>8, NoSlotDoes
  <2>2. Evolved
    BY <1>0, <2>1, SameJobs
  <2>3. ~Single(c) /\ rounds'[c] <= MaxRounds /\ conf[c] \in SUBSET conf[c]
    BY <2>1 DEF Stands
  <2> QED
    BY <1>0, <2>1, <2>2, <2>3, TurnStands
<1>9. CASE Refused(c)
  <2>1. /\ Typed' /\ Others(c) /\ jobs' = jobs /\ calls' = calls /\ SameKept(c)
        /\ pc[c] = "take" /\ ~Single(c)
        /\ Turns(c, conf[c], "again") /\ rounds'[c] = rounds[c] + 1
    BY <1>9, RefusedDoes
  <2>2. Evolved
    BY <1>0, <2>1, SameJobs
  <2>3. rounds'[c] <= MaxRounds
    BY <1>0, <2>1 DEF Stands
  <2> QED
    BY <1>0, <2>1, <2>2, <2>3, TurnStands
<1>10. ASSUME NEW j \in Ids, Delete(c, j)
       PROVE  Goal
  <2>1. /\ Typed' /\ Others(c) /\ calls' = calls /\ SameKept(c)
        /\ Killing(c) /\ j \in found[c] /\ Dooms(j)
        /\ found'[c] = found[c] \ {j}
        /\ dying'[c] = IF Waited(c) THEN {j} ELSE {}
        /\ op'[c] = op[c] /\ pc'[c] = pc[c] /\ last'[c] = last[c]
        /\ todo'[c] = todo[c] /\ at'[c] = at[c] /\ rest'[c] = rest[c]
        /\ rounds'[c] = rounds[c] /\ seen'[c] = seen[c]
        /\ running'[c] = running[c]
    BY <1>10, DeleteDoes
  <2>2. Evolved /\ Ids' = Ids /\ \A k \in Ids : Listed(k)' = Listed(k)
    BY <2>1, DoomedJob
  <2>3. Stands(c)'
    BY <2>1, <2>2 DEF Stands, SameKept, Killing, Killers, Single
  <2>4. Watched(c)'
    BY <2>1, <2>2 DEF Stands, Watched, SameKept, Evolved
  <2> QED
    BY <1>0, <2>1, <2>2, <2>3, <2>4
<1>11. ASSUME NEW j \in Ids, Gone(c, j)
       PROVE  Goal
  <2>1. /\ Typed' /\ Others(c) /\ jobs' = jobs /\ calls' = calls /\ SameKept(c)
        /\ dying'[c] = {}
        /\ op'[c] = op[c] /\ pc'[c] = pc[c] /\ last'[c] = last[c]
        /\ todo'[c] = todo[c] /\ found'[c] = found[c] /\ at'[c] = at[c]
        /\ rest'[c] = rest[c] /\ rounds'[c] = rounds[c] /\ seen'[c] = seen[c]
        /\ running'[c] = running[c]
    BY <1>11, GoneDoes
  <2>2. Evolved
    BY <1>0, <2>1, SameJobs
  <2>3. Stands(c)'
    BY <2>1, <2>2 DEF Stands, SameKept, Single, Evolved
  <2>4. Watched(c)'
    BY <2>1, <2>2 DEF Watched, SameKept, Listed
  <2> QED
    BY <1>0, <2>1, <2>2, <2>3, <2>4
<1>12. CASE Deleted(c)
  <2>1. /\ Typed' /\ Others(c) /\ jobs' = jobs /\ calls' = calls /\ SameKept(c)
        /\ Killing(c) /\ found[c] = {} /\ dying[c] = {}
    BY <1>12, DeletedDoes
  <2>2. Evolved
    BY <1>0, <2>1, SameJobs
  <2>3. CASE NextSite(c, pc[c])
    <3>1. Stands(c)'
      BY <2>1, <2>2, <2>3 DEF NextSite, Scans, Stands, SameKept, Evolved, Single, Killing
    <3>2. Watched(c)'
      BY <2>1, <2>2, <2>3 DEF NextSite, Scans, Watched, SameKept, Listed
    <3> QED
      BY <1>0, <2>1, <2>2, <3>1, <3>2
  <2>4. CASE /\ rest[c] = {} /\ pc[c] = "again" /\ Scans(c, conf[c], "created")
             /\ op'[c] = op[c] /\ last'[c] = last[c] /\ rest'[c] = rest[c]
             /\ rounds'[c] = rounds[c] /\ dying'[c] = dying[c]
             /\ seen'[c] = seen[c] /\ running'[c] = running[c]
    <3>1. Stands(c)'
      BY <2>1, <2>2, <2>4 DEF Scans, Stands, SameKept, Evolved, Single
    <3>2. Watched(c)'
      BY <2>1, <2>2, <2>4 DEF Scans, Watched, SameKept, Listed
    <3> QED
      BY <1>0, <2>1, <2>2, <3>1, <3>2
  <2>5. CASE Returned(c, IF pc[c] = "kill" THEN "destroyed" ELSE "raised")
    BY <1>0, <2>1, <2>2, <2>5, EndStands DEF SameKept, Stands, Evolved
  <2> QED
    BY <1>12, <2>3, <2>4, <2>5, DeletedDoes
<1>13. CASE Load(c)
  <2>1. /\ Typed' /\ Others(c) /\ jobs' = jobs /\ calls' = calls
        /\ pc[c] = "load" /\ todo[c] = {} /\ Waits(c)
        /\ cache'[c] = found[c] /\ conf'[c] = conf[c] /\ past'[c] = past[c]
        /\ op'[c] = op[c] /\ last'[c] = last[c] /\ todo'[c] = todo[c]
        /\ found'[c] = found[c] /\ at'[c] = at[c] /\ rest'[c] = rest[c]
        /\ rounds'[c] = rounds[c] /\ dying'[c] = dying[c]
    BY <1>13, LoadDoes
  <2>2. Evolved
    BY <1>0, <2>1, SameJobs
  <2>3. Stands(c)'
    BY <2>1, <2>2 DEF Waits, Stands, Evolved, Single, Killers
  <2>4. Watched(c)'
    BY <2>1, <2>2 DEF Waits, Stands, Watched, Listed
  <2> QED
    BY <1>0, <2>1, <2>2, <2>3, <2>4
<1>14. ASSUME NEW j \in Ids, Refresh(c, j)
       PROVE  Goal
  <2>1. /\ Typed' /\ Others(c) /\ jobs' = jobs /\ calls' = calls /\ SameKept(c)
        /\ pc[c] = "wait" /\ j \in cache[c] \ seen[c]
    BY <1>14, RefreshDoes
  <2>2. Evolved
    BY <1>0, <2>1, SameJobs
  <2>3. CASE Returned(c, "raised")
    BY <1>0, <2>1, <2>2, <2>3, EndStands DEF SameKept, Stands, Evolved
  <2>4. CASE Watches(c, seen[c] \cup {j}, running[c] /\ jobs[j].st = "running")
    <3>1. Stands(c)'
      BY <2>1, <2>2, <2>4 DEF Watches, Stands, SameKept, Evolved, Single
    <3>2. jobs[j].st = "running" => j \notin past[c]
      BY DEF Watched, Listed
    <3>3. Watched(c)'
      BY <2>1, <2>4, <3>2 DEF Watches, Stands, Watched, SameKept, Listed
    <3> QED
      BY <1>0, <2>1, <2>2, <3>1, <3>3
  <2> QED
    BY <1>14, <2>3, <2>4, RefreshDoes
<1>15. CASE Iterate(c)
  <2>1. /\ Typed' /\ Others(c) /\ jobs' = jobs /\ calls' = calls /\ SameKept(c)
        /\ pc[c] = "wait" /\ seen[c] = cache[c]
    BY <1>15, IterateDoes
  <2>2. Evolved
    BY <1>0, <2>1, SameJobs
  <2>3. CASE running[c] /\ Returned(c, "ready")
    <3>1. \A j \in cache'[c] :
            jobs'[j].st \in {"running", "over"} /\ j \notin past'[c]
      BY <2>1, <2>3 DEF Watched, SameKept
    <3> QED
      BY <1>0, <2>1, <2>2, <2>3, <3>1, EndStands DEF SameKept, Stands, Evolved
  <2>4. CASE Watches(c, {}, TRUE)
    <3>1. Stands(c)'
      BY <2>1, <2>2, <2>4 DEF Watches, Stands, SameKept, Evolved, Single
    <3>2. Watched(c)'
      BY <2>1, <2>4 DEF Watches, Stands, Watched, SameKept, Listed
    <3> QED
      BY <1>0, <2>1, <2>2, <3>1, <3>2
  <2> QED
    BY <1>15, <2>3, <2>4, IterateDoes
<1>16. CASE Crash(c)
  <2>1. /\ Typed' /\ Others(c) /\ jobs' = jobs /\ calls' = calls
        /\ Returned(c, "none") /\ cache'[c] = {} /\ past'[c] = past[c]
    BY <1>16, CrashDoes
  <2>2. Evolved
    BY <1>0, <2>1, SameJobs
  <2> QED
    BY <1>0, <2>1, <2>2, EndStands
<1> QED
  BY <1>1, <1>2, <1>3, <1>4, <1>5, <1>6, <1>7, <1>8, <1>9, <1>10, <1>11, <1>12,
     <1>13, <1>14, <1>15, <1>16 DEF Step

LEMMA AnyoneStep ==
  ASSUME Anyone, [Next]_vars
  PROVE  Anyone'
<1>1. ASSUME NEW c \in Clients,
             \/ \E o \in Ops \ {"none"}, w \in BOOLEAN : Call(c, o, w)
             \/ Step(c)
             \/ Crash(c)
      PROVE  Anyone'
  <2>1. /\ Typed' /\ Others(c) /\ Evolved
        /\ calls' \in Nat /\ calls <= calls'
        /\ Stands(c)' /\ Watched(c)'
    BY <1>1, AnyoneClient
  <2>2. \A d \in Clients \ {c} : Stands(d)' /\ Watched(d)'
    BY <2>1, Frame DEF Others
  <2> QED
    BY <2>1, <2>2 DEF Anyone, Evolved
<1>2. ASSUME NEW j \in Ids, Start(j) \/ End(j) \/ Killed(j)
      PROVE  Anyone'
  <2>1. /\ Typed' /\ calls' = calls /\ Evolved
        /\ \A d \in Clients : SameWork(d) /\ SameKept(d)
    BY <1>2, OarDoes, OarJob DEF Anyone
  <2>2. calls' \in Nat /\ calls <= calls'
    BY <2>1, JobsAssumption DEF Anyone, Typed, KeptTyped
  <2>3. \A d \in Clients : Stands(d)' /\ Watched(d)'
    BY <2>1, <2>2, Frame
  <2> QED
    BY <2>1, <2>3 DEF Anyone, Evolved
<1>3. CASE UNCHANGED vars
  BY <1>3 DEF vars, scan, walk, watch, hist, Anyone, Typed, WorkTyped, KeptTyped,
     Stands, Watched, Ids, Listed, Single
<1> QED
  BY <1>1, <1>2, <1>3 DEF Next, Ops

\* The inductive invariant implies the types.
LEMMA AnyoneTypes == Anyone => TypeOK
<1> SUFFICES ASSUME Anyone PROVE TypeOK
  OBVIOUS
<1> USE DEF Anyone, Typed, KeptTyped, WorkTyped
<1>1. \A v \in {cache, found, dying, seen, past} : v \in [Clients -> SUBSET Ids]
  <2>1. /\ \A c \in Clients : cache[c] \in SUBSET Ids /\ found[c] \in SUBSET Ids
        /\ \A c \in Clients : dying[c] \in SUBSET Ids /\ seen[c] \in SUBSET Ids
        /\ \A c \in Clients : past[c] \in SUBSET Ids
    BY DEF Stands
  <2>2. /\ cache \in [Clients -> SUBSET Ids] /\ found \in [Clients -> SUBSET Ids]
        /\ dying \in [Clients -> SUBSET Ids] /\ seen \in [Clients -> SUBSET Ids]
        /\ past \in [Clients -> SUBSET Ids]
    BY <2>1
  <2> QED
    BY <2>2
<1>2. rounds \in [Clients -> 0 .. MaxRounds]
  <2>1. \A c \in Clients : rounds[c] \in 0 .. MaxRounds
    BY JobsAssumption DEF Stands
  <2> QED
    BY <2>1
<1>3. \A c \in Clients :
        /\ todo[c] \subseteq at[c]
        /\ at[c] \subseteq conf[c]
        /\ rest[c] \subseteq conf[c] \ at[c]
  BY DEF Stands
<1>4. jobs \in Seq([site : Sites, st : JobStates, deleted : 0 .. MaxCalls])
  BY DEF Job
<1> QED
  BY <1>1, <1>2, <1>3, <1>4 DEF TypeOK, Ops, Outcomes

\* Whatever the clients do, their variables have their types, no scan leaves
\* the sites of its object and the temporary Providers visits each one once.
THEOREM TypeCorrect == Spec => []TypeOK
<1>1. Init => Anyone
  BY AnyoneInit
<1>2. Anyone /\ [Next]_vars => Anyone'
  BY AnyoneStep
<1>3. Anyone => TypeOK
  BY AnyoneTypes
<1> QED
  BY <1>1, <1>2, <1>3, PTL DEF Spec

\* A job that init returned ready with has started, and was not over when init
\* was called, however many clients there are.
ReadyJobsStarted ==
  \A c \in Clients : last[c] = "ready" =>
    \A j \in cache[c] : jobs[j].st \in {"running", "over"} /\ j \notin past[c]

\* This half of ReadyIsComplete needs no client to be alone.
THEOREM ReadyJobsStart == Spec => []ReadyJobsStarted
<1>1. Init => Anyone
  BY AnyoneInit
<1>2. Anyone /\ [Next]_vars => Anyone'
  BY AnyoneStep
<1>3. Anyone => ReadyJobsStarted
  BY DEF Anyone, Watched, ReadyJobsStarted
<1> QED
  BY <1>1, <1>2, <1>3, PTL DEF Spec

-----------------------------------------------------------------------------
(* One client at a time: the inductive invariant *)

\* One process uses the name of the job.
Alone == \A c, d \in Clients : c = d

\* What init and async_init delete they wait for.
Dooming(c) ==
  op[c] \in {"init", "async"} =>
    \A j \in Ids : Listed(j) /\ jobs[j].deleted = calls => j \in dying[c]

\* The scan missed no job of the sites it has listed, and those it found were
\* not deleted by this call.
Sees(c) ==
  pc[c] \in Seekers =>
    /\ \A j \in Ids : Listed(j) /\ jobs[j].site \in at[c] \ todo[c] => j \in found[c]
    /\ \A j \in found[c] :
         jobs[j].site \in at[c] /\ j \notin past[c] /\ jobs[j].deleted # calls

\* What destroy has passed over is doomed and, if it waits, gone.
Destroys(c) ==
  pc[c] = "kill" =>
    \A j \in Ids : Listed(j) /\ jobs[j].site \in at[c] \ todo[c] =>
      j \in found[c] \/ (Doomed(j) /\ (wait[c] => j \in dying[c]))

Settles(c) ==
  last[c] = "destroyed" =>
    \A j \in Ids : Listed(j) /\ jobs[j].site \in conf[c] => Doomed(j) /\ ~wait[c]

\* The site has a job that is listed, unless someone else put an end to it.
Supplied(c, s) ==
  \E j \in Ids \ past[c] : jobs[j].site = s /\ jobs[j].deleted # calls

\* The sites that the temporary Providers has passed have their job, and an
\* object that knew no job when the call began learns them when all are there.
Supplies(c) ==
  /\ pc[c] = "take" =>
       /\ \A s \in conf[c] \ (rest[c] \cup at[c]) : Supplied(c, s)
       /\ \A s, t \in at[c] : s = t
  /\ pc[c] = "load" => \A s \in conf[c] : Supplied(c, s)
  /\ pc[c] \in {"created", "take", "load", "again", "giveup"} /\ fresh[c] =>
       cache[c] = {}
  /\ pc[c] = "wait" \/ last[c] = "ready" =>
       (fresh[c] /\ Untouched(c) => SitesOf(cache[c]) = conf[c])

Sole(c) ==
  /\ Dooming(c) /\ Sees(c) /\ Destroys(c) /\ Settles(c) /\ Supplies(c)

IInv == Anyone /\ OneJobPerSite /\ \A c \in Clients : Sole(c)

-----------------------------------------------------------------------------
(* One client at a time: the steps *)

LEMMA SingleSite ==
  ASSUME Anyone, NEW c \in Clients, Single(c)
  PROVE  \E s : conf[c] = {s}
<1>1. IsFiniteSet(conf[c])
  BY FS_Subset, JobsAssumption DEF Anyone, Typed, KeptTyped
<1> QED
  BY <1>1, FS_Singleton DEF Single

\* A call that ended neither destroyed nor ready.
LEMMA EndSole ==
  ASSUME NEW c \in Clients, NEW o, Returned(c, o), o \notin {"destroyed", "ready"}
  PROVE  Sole(c)'
  BY DEF Returned, Sole, Dooming, Sees, Destroys, Settles, Supplies, Seekers

\* Jobs end, start or fail while the client does not move.
LEMMA OarSole ==
  ASSUME IInv, NEW c \in Clients, NEW j \in Ids, Start(j) \/ End(j) \/ Killed(j)
  PROVE  Sole(c)' /\ OneJobPerSite'
<1>1. /\ calls' = calls /\ SameWork(c) /\ SameKept(c)
      /\ Evolved /\ Ids' = Ids
      /\ \A k \in Ids : Listed(k)' => Listed(k)
      /\ \A k \in Ids : /\ jobs'[k].deleted = jobs[k].deleted
                        /\ jobs'[k].site = jobs[k].site
  BY OarDoes, OarJob DEF IInv, Anyone
<1>2. OneJobPerSite'
  BY <1>1 DEF IInv, OneJobPerSite
<1>3. Dooming(c)' /\ Sees(c)'
  <2>1. found[c] \subseteq Ids
    BY DEF IInv, Anyone, Stands
  <2>2. Dooming(c)'
    BY <1>1 DEF IInv, Sole, Dooming, SameWork
  <2>3. Sees(c)'
    BY <1>1, <2>1 DEF IInv, Sole, Sees, SameWork, SameKept
  <2> QED
    BY <2>2, <2>3
<1>4. Destroys(c)' /\ Settles(c)'
  BY <1>1 DEF IInv, Sole, Destroys, Settles, SameWork, SameKept, Doomed
<1>5. Supplies(c)'
  <2>1. \A s : Supplied(c, s) => Supplied(c, s)'
    BY <1>1 DEF Supplied, SameKept
  <2>2. Untouched(c)' => Untouched(c)
    BY <1>1 DEF Untouched, SameKept, Evolved
  <2>3. SitesOf(cache[c])' = SitesOf(cache[c])
    BY <1>1 DEF SitesOf, SameKept, IInv, Anyone, Stands
  <2> QED
    BY <1>1, <2>1, <2>2, <2>3 DEF IInv, Sole, Supplies, SameWork, SameKept
<1> QED
  BY <1>2, <1>3, <1>4, <1>5 DEF Sole

\* The reservation is done and its jobs are there.
LEMMA ReservedSole ==
  ASSUME IInv, Anyone', NEW c \in Clients, NEW js, ReservedAs(c, js),
         js = cache'[c], SameKept(c) \/ (pc[c] = "take" /\ Single(c)),
         fresh'[c] = fresh[c], conf'[c] = conf[c], past'[c] = past[c],
         pc[c] \in {"take", "created"},
         Dooming(c)',
         Single(c) => SitesOf(cache[c])' = conf[c],
         ~Single(c) => \A s \in conf[c] : Supplied(c, s)'
  PROVE  Sole(c)'
<1>1. CASE Returned(c, "reserved")
  BY <1>1, EndSole
<1>2. CASE js # {} /\ Waits(c) /\ last'[c] = last[c]
  BY <1>2 DEF IInv, Anyone, Stands, Sole, Supplies, Waits, SameKept, Sees, Destroys,
              Settles, Seekers
<1>3. CASE js = {} /\ Scans(c, conf[c], "load") /\ last'[c] = last[c]
  <2>1. ~Single(c)
    <3> SUFFICES ASSUME Single(c) PROVE FALSE
      OBVIOUS
    <3>1. SitesOf(cache[c])' = {}
      BY <1>3 DEF SitesOf
    <3>2. \E s : conf[c] = {s}
      BY SingleSite DEF IInv
    <3> QED
      BY <3>1, <3>2
  <2> QED
    BY <1>3, <2>1 DEF IInv, Anyone, Stands, Sole, Supplies, Scans, SameKept, Sees,
              Destroys, Settles, Seekers
<1> QED
  BY <1>1, <1>2, <1>3 DEF ReservedAs

\* The job in hand is the one of its site.
LEMMA TakeSole ==
  ASSUME IInv, Anyone', NEW c \in Clients, NEW js, Takes(c, js),
         js # {}, Dooming(c)',
         Ids \subseteq Ids',
         calls' = calls,
         \A j \in Ids : /\ jobs'[j].site = jobs[j].site
                        /\ jobs'[j].deleted = jobs[j].deleted,
         \A j \in js : /\ j \in Ids' \ past[c]
                       /\ jobs'[j].site \in at[c] /\ jobs'[j].deleted # calls
  PROVE  Sole(c)'
<1>1. /\ pc[c] = "take" /\ conf'[c] = conf[c] /\ wait'[c] = wait[c]
      /\ past'[c] = past[c] /\ fresh'[c] = fresh[c]
      /\ cache'[c] = IF Single(c) THEN js ELSE cache[c]
  BY DEF Takes
<1>2. \A s : Supplied(c, s) => Supplied(c, s)'
  BY <1>1 DEF Supplied
<1>3. \A s \in at[c] : Supplied(c, s)'
  BY <1>1 DEF Supplied, IInv, Sole, Supplies
<1>4. \A s \in conf[c] \ rest[c] : Supplied(c, s)'
  BY <1>1, <1>2, <1>3 DEF IInv, Sole, Supplies
<1>5. CASE rest[c] = {} /\ ReservedAs(c, cache'[c])
  <2>1. Single(c) => SitesOf(cache[c])' = conf[c]
    <3> SUFFICES ASSUME Single(c) PROVE SitesOf(cache[c])' = conf[c]
      OBVIOUS
    <3>1. at[c] = conf[c] /\ \E s : conf[c] = {s}
      BY <1>1, SingleSite DEF IInv, Anyone, Stands
    <3> QED
      BY <1>1, <3>1 DEF SitesOf
  <2>2. SameKept(c) \/ (pc[c] = "take" /\ Single(c))
    BY <1>1 DEF SameKept
  <2> QED
    BY <1>1, <1>4, <1>5, <2>1, <2>2, ReservedSole
<1>6. CASE NextSite(c, "take")
  <2>1. ~Single(c)
    BY <1>1, <1>6 DEF NextSite, IInv, Anyone, Stands
  <2> QED
    BY <1>1, <1>4, <1>6, <2>1
       DEF NextSite, Scans, IInv, Anyone, Stands, Sole, Supplies, Sees, Destroys,
           Settles, Seekers
<1> QED
  BY <1>5, <1>6 DEF Takes

\* Each step of the client.
LEMMA SoleClient ==
  ASSUME IInv, Anyone', NEW c \in Clients,
         \/ \E o \in Ops \ {"none"}, w \in BOOLEAN : Call(c, o, w)
         \/ Step(c)
         \/ Crash(c)
  PROVE  Sole(c)' /\ OneJobPerSite'
<1> USE DEF IInv, Anyone
<1>0. /\ calls \in Nat
      /\ \A j \in Ids : jobs[j].deleted \in Nat
      /\ op[c] \in Ops /\ Stands(c) /\ Watched(c) /\ Sole(c)
  BY JobTypes, JobsAssumption DEF Typed, WorkTyped, KeptTyped, Job
<1> DEFINE Goal == Sole(c)' /\ OneJobPerSite'
<1>00. ASSUME jobs' = jobs PROVE OneJobPerSite'
  BY <1>00 DEF OneJobPerSite, Ids, Listed
<1>1. ASSUME NEW o \in Ops \ {"none"}, NEW w \in BOOLEAN, Call(c, o, w)
      PROVE  Goal
  <2>1. /\ jobs' = jobs /\ conf'[c] = conf[c] /\ calls' = calls + 1
        /\ op'[c] = o /\ last'[c] = "none"
        /\ fresh'[c] = (cache[c] = {})
        /\ Scans(c, conf[c], IF o = "destroy" THEN "kill"
                             ELSE IF Single(c) THEN "take" ELSE "created")
        /\ cache'[c] = cache[c] /\ rest'[c] = rest[c]
    BY <1>1, CallDoes DEF Others
  <2>2. Dooming(c)'
    BY <1>0, <2>1 DEF Dooming, Ids
  <2>3. Sees(c)' /\ Destroys(c)' /\ Settles(c)'
    BY <2>1 DEF Sees, Destroys, Settles, Scans, Seekers
  <2>4. Supplies(c)'
    <3>1. Single(c) => \A s, t \in conf[c] : s = t
      BY SingleSite
    <3> QED
      BY <2>1, <3>1 DEF Supplies, Scans
  <2> QED
    BY <1>00, <2>1, <2>2, <2>3, <2>4 DEF Sole
<1>2. ASSUME NEW s \in Sites, List(c, s)
      PROVE  Goal
  <2>1. /\ jobs' = jobs /\ calls' = calls /\ SameKept(c) /\ s \in todo[c]
    BY <1>2, ListDoes
  <2>2. CASE Returned(c, "raised")
    BY <1>00, <2>1, <2>2, EndSole
  <2>3. CASE /\ todo'[c] = todo[c] \ {s}
             /\ found'[c] = found[c] \cup {j \in Ids : jobs[j].site = s /\ Listed(j)}
             /\ op'[c] = op[c] /\ pc'[c] = pc[c] /\ last'[c] = last[c]
             /\ at'[c] = at[c] /\ rest'[c] = rest[c]
             /\ dying'[c] = dying[c]
    <3>1. Dooming(c)' /\ Settles(c)' /\ Destroys(c)'
      BY <1>0, <2>1, <2>3
         DEF Sole, Dooming, Settles, Destroys, SameKept, Ids, Listed, Doomed
    <3>2. Supplies(c)'
      BY <1>0, <2>1, <2>3
         DEF Sole, Supplies, SameKept, Supplied, Untouched, SitesOf, Ids, Listed
    <3>3. pc[c] \in Seekers => \A j \in Ids : Listed(j) => jobs[j].deleted # calls
      BY <1>0 DEF Sole, Dooming, Stands, Seekers, Killers, Ops
    <3>4. pc[c] \in Seekers => \A j \in Ids : Listed(j) => j \notin past[c]
      BY <1>0 DEF Watched
    <3>5. Sees(c)'
      BY <1>0, <2>1, <2>3, <3>3, <3>4 DEF Sole, Sees, Stands, SameKept, Ids, Listed
    <3> QED
      BY <1>00, <2>1, <3>1, <3>2, <3>5 DEF Sole
  <2> QED
    BY <1>2, <2>2, <2>3, ListDoes
<1>3. CASE Reload(c)
  <2>1. /\ jobs' = jobs /\ calls' = calls /\ found[c] # {} /\ Takes(c, found[c])
    BY <1>3, ReloadDoes
  <2>2. Dooming(c)'
    BY <1>0, <2>1 DEF Sole, Dooming, Takes, ReservedAs, NextSite, Returned, Ids, Listed
  <2>3. \A j \in found[c] : /\ j \in Ids' \ past[c]
                            /\ jobs'[j].site \in at[c] /\ jobs'[j].deleted # calls
    BY <1>0, <2>1 DEF Sole, Sees, Takes, Stands, Seekers, Ids
  <2>4. Ids \subseteq Ids'
    BY <2>1 DEF Ids
  <2> QED
    BY <1>00, <2>1, <2>2, <2>3, <2>4, TakeSole
<1>4. ASSUME Submits(c), pc[c] = "take", todo[c] = {}, calls' = calls
      PROVE  OneJobPerSite'
  <2>1. /\ Ids' = Ids \cup {Len(jobs) + 1} /\ Len(jobs) + 1 \notin Ids
        /\ \A j \in Ids : jobs'[j] = jobs[j]
        /\ jobs'[Len(jobs) + 1].site \in at[c]
        /\ \A j \in Ids : Listed(j)' = Listed(j)
    BY <1>4, NewJob
  <2>2. \A j \in Ids : Listed(j) => jobs[j].site \notin at[c]
    BY <1>0, <1>4 DEF Sole, Sees, Submits, Seekers
  <2> QED
    BY <2>1, <2>2 DEF OneJobPerSite
<1>5. CASE Submit(c)
  <2>1. /\ calls' = calls /\ Submits(c) /\ Takes(c, {Len(jobs) + 1})
    BY <1>5, SubmitDoes
  <2>2. /\ Ids' = Ids \cup {Len(jobs) + 1} /\ Len(jobs) + 1 \notin Ids
        /\ \A j \in Ids : jobs'[j] = jobs[j]
        /\ jobs'[Len(jobs) + 1].deleted = 0
        /\ jobs'[Len(jobs) + 1].site \in at[c]
        /\ \A j \in Ids : Listed(j)' = Listed(j)
    BY <2>1, NewJob
  <2>3. calls > 0 /\ Len(jobs) + 1 \notin past[c]
    BY <1>0, <2>1, <2>2 DEF Takes, Stands
  <2>4. Dooming(c)'
    <3>1. op'[c] = "none" \/ (op'[c] = op[c] /\ dying'[c] = dying[c])
      BY <2>1 DEF Takes, ReservedAs, NextSite, Returned
    <3> QED
      BY <1>0, <2>1, <2>2, <2>3, <3>1 DEF Sole, Dooming
  <2>5. Sole(c)'
    <3> DEFINE js == {Len(jobs) + 1}
    <3>1. \A j \in js : /\ j \in Ids' \ past[c]
                        /\ jobs'[j].site \in at[c] /\ jobs'[j].deleted # calls
      BY <1>0, <2>2, <2>3
    <3>2. js # {} /\ Takes(c, js)
      BY <2>1
    <3> HIDE DEF js
    <3> QED
      BY <2>1, <2>2, <2>4, <3>1, <3>2, TakeSole
  <2> QED
    BY <1>4, <2>1, <2>5 DEF Takes
<1>6. CASE SubmitFails(c)
  <2>1. /\ calls' = calls /\ Returned(c, "raised") /\ (Submits(c) \/ jobs' = jobs)
        /\ pc[c] = "take" /\ todo[c] = {}
    BY <1>6, SubmitFailsDoes
  <2> QED
    BY <1>00, <1>4, <2>1, EndSole
<1>7. CASE AllCreated(c)
  <2>1. /\ jobs' = jobs /\ calls' = calls /\ SameKept(c) /\ pc[c] = "created"
        /\ SitesOf(found[c]) = conf[c] /\ ReservedAs(c, cache[c])
    BY <1>7, AllCreatedDoes
  <2>2. Dooming(c)'
    BY <1>0, <2>1 DEF Sole, Dooming, ReservedAs, Returned, Ids, Listed
  <2>3. ~Single(c) /\ \A s \in conf[c] : Supplied(c, s)'
    BY <1>0, <2>1 DEF Sole, Sees, Stands, Seekers, SitesOf, Supplied, SameKept, Ids
  <2> QED
    BY <1>00, <2>1, <2>2, <2>3, ReservedSole DEF SameKept
<1>8. CASE SlotFound(c)
  <2>1. /\ jobs' = jobs /\ calls' = calls /\ SameKept(c) /\ pc[c] = "created"
        /\ Turns(c, Missing(c), "take")
    BY <1>8, SlotFoundDoes
  <2>2. \A s \in conf[c] \ Missing(c) : Supplied(c, s)'
    BY <1>0, <2>1
       DEF Sole, Sees, Stands, Seekers, Missing, SitesOf, Supplied, SameKept, Ids
  <2>3. Dooming(c)'
    BY <1>0, <2>1 DEF Sole, Dooming, Turns, Ids, Listed
  <2>4. Sees(c)' /\ Destroys(c)' /\ Settles(c)'
    BY <1>0, <2>1 DEF Stands, Sees, Destroys, Settles, Turns, Scans, Seekers
  <2>5. Supplies(c)'
    BY <1>0, <2>1, <2>2 DEF Sole, Supplies, Stands, Turns, Scans, SameKept
  <2> QED
    BY <1>00, <2>1, <2>3, <2>4, <2>5 DEF Sole
<1>9. ASSUME NEW p \in {"again", "giveup"}, Turns(c, conf[c], p), jobs' = jobs,
             calls' = calls, SameKept(c), pc[c] \in {"take", "created"}
      PROVE  Goal
  <2>1. Dooming(c)'
    BY <1>0, <1>9 DEF Sole, Dooming, Turns, Ids, Listed
  <2>2. Sees(c)' /\ Destroys(c)' /\ Settles(c)' /\ Supplies(c)'
    BY <1>0, <1>9 DEF Sole, Stands, Sees, Destroys, Settles, Supplies, Turns, Scans,
       Seekers, SameKept
  <2> QED
    BY <1>00, <1>9, <2>1, <2>2 DEF Sole
<1>10. CASE NoSlot(c)
  BY <1>9, <1>10, NoSlotDoes
<1>11. CASE Refused(c)
  BY <1>9, <1>11, RefusedDoes
<1>12. ASSUME NEW j \in Ids, Delete(c, j)
       PROVE  Goal
  <2>1. /\ calls' = calls /\ SameKept(c)
        /\ Killing(c) /\ dying[c] = {} /\ j \in found[c] /\ Dooms(j)
        /\ found'[c] = found[c] \ {j}
        /\ dying'[c] = IF Waited(c) THEN {j} ELSE {}
        /\ op'[c] = op[c] /\ pc'[c] = pc[c] /\ last'[c] = last[c]
        /\ todo'[c] = todo[c] /\ at'[c] = at[c]
    BY <1>12, DeleteDoes
  <2>2. /\ Ids' = Ids /\ \A k \in Ids : Listed(k)' = Listed(k)
        /\ \A k \in Ids : k # j => jobs'[k] = jobs[k]
        /\ \A k \in Ids : jobs'[k].site = jobs[k].site
        /\ jobs'[j].deleted =
             IF Listed(j) /\ ~Doomed(j) THEN calls ELSE jobs[j].deleted
    BY <2>1, DoomedJob DEF Evolved
  <2>3. calls > 0 /\ pc[c] \notin Seekers /\ pc[c] # "wait" /\ last[c] = "none"
    BY <1>0, <2>1 DEF Killing, Stands, Seekers
  <2>4. Dooming(c)'
    BY <1>0, <2>1, <2>2 DEF Sole, Dooming, Waited
  <2>5. Destroys(c)'
    BY <1>0, <2>1, <2>2, <2>3 DEF Sole, Destroys, Waited, Doomed, Stands, SameKept
  <2>6. Sees(c)' /\ Settles(c)' /\ Supplies(c)'
    BY <1>0, <2>1, <2>3 DEF Sole, Sees, Settles, Supplies, SameKept, Seekers
  <2>7. OneJobPerSite'
    BY <2>2 DEF OneJobPerSite
  <2> QED
    BY <2>4, <2>5, <2>6, <2>7 DEF Sole
<1>13. ASSUME NEW j \in Ids, Gone(c, j)
       PROVE  Goal
  <2>1. /\ jobs' = jobs /\ calls' = calls /\ SameKept(c)
        /\ j \in dying[c] /\ ~Listed(j) /\ dying'[c] = {}
        /\ op'[c] = op[c] /\ pc'[c] = pc[c] /\ last'[c] = last[c]
        /\ todo'[c] = todo[c] /\ found'[c] = found[c] /\ at'[c] = at[c]
        /\ rest'[c] = rest[c]
    BY <1>13, GoneDoes
  <2>2. \A k \in dying[c] : ~Listed(k)
    BY <1>0, <2>1 DEF Stands
  <2>3. Dooming(c)' /\ Destroys(c)'
    BY <1>0, <2>1, <2>2 DEF Sole, Dooming, Destroys, SameKept, Ids, Listed, Doomed
  <2>4. Sees(c)' /\ Settles(c)'
    BY <1>0, <2>1 DEF Sole, Sees, Settles, SameKept, Ids, Listed, Doomed
  <2>5. Supplies(c)'
    BY <1>0, <2>1
       DEF Sole, Supplies, SameKept, Supplied, Untouched, SitesOf, Ids, Listed
  <2> QED
    BY <1>00, <2>1, <2>3, <2>4, <2>5 DEF Sole
<1>14. CASE Deleted(c)
  <2>1. /\ jobs' = jobs /\ calls' = calls /\ SameKept(c)
        /\ Killing(c) /\ found[c] = {} /\ dying[c] = {}
    BY <1>14, DeletedDoes
  <2>2. CASE NextSite(c, pc[c])
    <3>1. Dooming(c)'
      BY <1>0, <2>1, <2>2 DEF Sole, Dooming, NextSite, Ids, Listed
    <3>2. Sees(c)' /\ Destroys(c)' /\ Settles(c)' /\ Supplies(c)'
      BY <1>0, <2>1, <2>2 DEF Sole, Stands, Sees, Destroys, Settles, Supplies, NextSite,
         Scans, Seekers, SameKept, Killing
    <3> QED
      BY <1>00, <2>1, <3>1, <3>2 DEF Sole
  <2>3. CASE /\ pc[c] = "again" /\ Scans(c, conf[c], "created")
             /\ op'[c] = op[c] /\ last'[c] = last[c] /\ rest'[c] = rest[c]
             /\ dying'[c] = dying[c]
    <3>1. Dooming(c)'
      BY <1>0, <2>1, <2>3 DEF Sole, Dooming, Ids, Listed
    <3>2. Sees(c)' /\ Destroys(c)' /\ Settles(c)' /\ Supplies(c)'
      BY <1>0, <2>1, <2>3 DEF Sole, Stands, Sees, Destroys, Settles, Supplies,
         Scans, Seekers, SameKept
    <3> QED
      BY <1>00, <2>1, <3>1, <3>2 DEF Sole
  <2>4. CASE /\ pc[c] # "kill"
             /\ Returned(c, IF pc[c] = "kill" THEN "destroyed" ELSE "raised")
    BY <1>00, <2>1, <2>4, EndSole
  <2>5. CASE pc[c] = "kill" /\ Returned(c, "destroyed")
    <3>1. Settles(c)'
      BY <1>0, <2>1, <2>5
         DEF Sole, Destroys, Settles, Stands, Killing, SameKept, Ids, Listed, Doomed
    <3>2. Dooming(c)' /\ Sees(c)' /\ Destroys(c)' /\ Supplies(c)'
      BY <2>5 DEF Returned, Dooming, Sees, Destroys, Supplies, Seekers
    <3> QED
      BY <1>00, <2>1, <3>1, <3>2 DEF Sole
  <2> QED
    BY <1>14, <2>2, <2>3, <2>4, <2>5, DeletedDoes
<1>15. CASE Load(c)
  <2>1. /\ jobs' = jobs /\ calls' = calls
        /\ pc[c] = "load" /\ todo[c] = {} /\ Waits(c)
        /\ cache'[c] = found[c] /\ conf'[c] = conf[c]
        /\ past'[c] = past[c] /\ fresh'[c] = fresh[c]
        /\ op'[c] = op[c] /\ last'[c] = last[c] /\ dying'[c] = dying[c]
    BY <1>15, LoadDoes
  <2>2. Untouched(c) => SitesOf(found[c]) = conf[c]
    <3>1. SitesOf(found[c]) \subseteq conf[c]
      BY <1>0, <2>1 DEF Sole, Sees, Stands, SitesOf, Seekers
    <3>2. ASSUME Untouched(c), NEW s \in conf[c] PROVE s \in SitesOf(found[c])
      <4>1. PICK j \in Ids \ past[c] : jobs[j].site = s /\ jobs[j].deleted # calls
        BY <1>0, <2>1 DEF Sole, Supplies, Supplied
      <4>2. Listed(j)
        BY <3>2, <4>1 DEF Untouched
      <4> QED
        BY <1>0, <2>1, <4>1, <4>2 DEF Sole, Sees, Stands, SitesOf, Seekers
    <3> QED
      BY <3>1, <3>2
  <2>3. Supplies(c)'
    BY <2>1, <2>2 DEF Supplies, Waits, Untouched, SitesOf, Ids, Listed
  <2>4. Dooming(c)'
    BY <1>0, <2>1 DEF Sole, Dooming, Ids, Listed
  <2>5. Sees(c)' /\ Destroys(c)' /\ Settles(c)'
    BY <1>0, <2>1 DEF Sees, Destroys, Settles, Waits, Seekers, Stands
  <2> QED
    BY <1>00, <2>1, <2>3, <2>4, <2>5 DEF Sole
<1>16. ASSUME NEW ss, NEW r, Watches(c, ss, r), jobs' = jobs, calls' = calls,
              SameKept(c)
       PROVE  Goal
  <2>1. Dooming(c)' /\ Sees(c)' /\ Destroys(c)' /\ Settles(c)'
    BY <1>0, <1>16 DEF Sole, Dooming, Sees, Destroys, Settles, Watches, SameKept,
       Ids, Listed, Doomed
  <2>2. Supplies(c)'
    BY <1>0, <1>16 DEF Sole, Supplies, Watches, SameKept, Supplied, Untouched,
       SitesOf, Ids, Listed
  <2> QED
    BY <1>00, <1>16, <2>1, <2>2 DEF Sole
<1>17. ASSUME NEW j \in Ids, Refresh(c, j)
       PROVE  Goal
  <2>1. /\ jobs' = jobs /\ calls' = calls /\ SameKept(c)
        /\ \/ Returned(c, "raised")
           \/ Watches(c, seen[c] \cup {j}, running[c] /\ jobs[j].st = "running")
    BY <1>17, RefreshDoes
  <2> QED
    BY <1>00, <1>16, <2>1, EndSole
<1>18. CASE Iterate(c)
  <2>1. /\ jobs' = jobs /\ calls' = calls /\ SameKept(c) /\ pc[c] = "wait"
        /\ Returned(c, "ready") \/ Watches(c, {}, TRUE)
    BY <1>18, IterateDoes
  <2>2. CASE Returned(c, "ready")
    <3>1. Supplies(c)'
      BY <1>0, <2>1, <2>2
         DEF Sole, Supplies, Returned, SameKept, Untouched, SitesOf, Ids, Listed
    <3>2. Dooming(c)' /\ Sees(c)' /\ Destroys(c)' /\ Settles(c)'
      BY <2>2 DEF Returned, Dooming, Sees, Destroys, Settles, Seekers
    <3> QED
      BY <1>00, <2>1, <3>1, <3>2 DEF Sole
  <2> QED
    BY <1>16, <2>1, <2>2
<1>19. CASE Crash(c)
  BY <1>00, <1>19, CrashDoes, EndSole
<1> QED
  BY <1>1, <1>2, <1>3, <1>5, <1>6, <1>7, <1>8, <1>10, <1>11, <1>12, <1>13, <1>14,
     <1>15, <1>17, <1>18, <1>19 DEF Step

-----------------------------------------------------------------------------
(* One client at a time: the theorems *)

LEMMA InvInit == Init => IInv
<1> SUFFICES ASSUME Init PROVE IInv
  OBVIOUS
<1>1. Anyone
  BY AnyoneInit
<1>2. Ids = {}
  BY DEF Init, Ids
<1>3. \A c \in Clients : Sole(c)
  BY DEF Init, Sole, Dooming, Sees, Destroys, Settles, Supplies, Seekers
<1> QED
  BY <1>1, <1>2, <1>3 DEF IInv, OneJobPerSite

LEMMA InvStep ==
  ASSUME Alone, IInv, [Next]_vars
  PROVE  IInv'
<1>0. Anyone'
  BY AnyoneStep DEF IInv
<1>1. ASSUME NEW c \in Clients,
             \/ \E o \in Ops \ {"none"}, w \in BOOLEAN : Call(c, o, w)
             \/ Step(c)
             \/ Crash(c)
      PROVE  IInv'
  <2>1. Sole(c)' /\ OneJobPerSite'
    BY <1>0, <1>1, SoleClient
  <2>2. \A d \in Clients : d = c
    BY DEF Alone
  <2> QED
    BY <1>0, <2>1, <2>2 DEF IInv
<1>2. ASSUME NEW j \in Ids, Start(j) \/ End(j) \/ Killed(j)
      PROVE  IInv'
  <2>1. OneJobPerSite'
    <3>1. Evolved /\ Ids' = Ids /\ \A k \in Ids : Listed(k)' => Listed(k)
      BY <1>2, OarJob DEF IInv
    <3> QED
      BY <3>1 DEF IInv, OneJobPerSite, Evolved
  <2>2. \A c \in Clients : Sole(c)'
    BY <1>2, OarSole
  <2> QED
    BY <1>0, <2>1, <2>2 DEF IInv
<1>3. CASE UNCHANGED vars
  <2>1. OneJobPerSite'
    BY <1>3 DEF vars, IInv, OneJobPerSite, Ids, Listed
  <2>2. ASSUME NEW c \in Clients PROVE Sole(c)'
    BY <1>3 DEF vars, scan, walk, watch, hist, IInv, Sole, Dooming, Sees, Destroys,
       Settles, Supplies, Supplied, Untouched, SitesOf, Ids, Listed, Doomed
  <2> QED
    BY <1>0, <2>1, <2>2 DEF IInv
<1> QED
  BY <1>1, <1>2, <1>3 DEF Next, Ops

LEMMA Invariance == ASSUME Alone PROVE Spec => []IInv
<1>1. Init => IInv
  BY InvInit
<1>2. IInv /\ [Next]_vars => IInv'
  BY InvStep
<1> QED
  BY <1>1, <1>2, PTL DEF Spec

\* As long as one process uses the name, a site never has two of its jobs.
THEOREM NoDuplicateJob == ASSUME Alone PROVE Spec => []OneJobPerSite
<1>1. IInv => OneJobPerSite
  BY DEF IInv
<1> QED
  BY <1>1, Invariance, PTL

\* destroy leaves no job of its sites alive, and waits for them if it is told to.
THEOREM DestroyComplete == ASSUME Alone PROVE Spec => []DestroyLeavesNone
<1>1. IInv => DestroyLeavesNone
  BY DEF IInv, Sole, Settles, DestroyLeavesNone
<1> QED
  BY <1>1, Invariance, PTL

\* init returns with jobs that have started, one for each site unless someone
\* else put an end to one of them.
THEOREM ReadyComplete == ASSUME Alone PROVE Spec => []ReadyIsComplete
<1>1. IInv => ReadyIsComplete
  BY DEF IInv, Anyone, Watched, Sole, Supplies, ReadyIsComplete
<1> QED
  BY <1>1, Invariance, PTL
=============================================================================
