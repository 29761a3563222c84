---------------------------- MODULE AnsibleLayer ----------------------------
(***************************************************************************)
(* The calls of enoslib/api.py that run something on the machines:         *)
(* run_command, blocks of actions (and ensure_python3), run_ansible with   *)
(* several playbooks, gather_facts, wait_for, sync_info, populate_keys and *)
(* external_pip_deps. They all build plays and give them to run_ansible,   *)
(* which runs each with an executor of Ansible (external: every task on    *)
(* every host still in the play, host by host, in lock-step unless the     *)
(* strategy is free) and turns the records of its callback into            *)
(* exceptions. Machines reboot and fail in between.                        *)
(***************************************************************************)
EXTENDS Naturals, FiniteSets, Sequences

CONSTANTS
    Machines,
    Retries,      \* retries of wait_for
    MaxCalls,     \* bound: calls of the client
    MaxReboots    \* bound: reboots of the machines

ASSUME AnsibleAssumption ==
    /\ IsFiniteSet(Machines) /\ Machines # {} /\ "nobody" \notin Machines
    /\ Retries \in Nat \ {0} /\ MaxCalls \in Nat /\ MaxReboots \in Nat

VARIABLES
    up,        \* the machines that answer
    boots,     \* boots[m]: what the facts of m are, they change at each boot
    keys,      \* keys[m]: the pair pushed to m and the keys m authorizes
    pair,      \* the pair in the local files, each has a number
    marker,    \* the machines that have an EXTERNALLY-MANAGED file
    known,     \* known[m]: the facts in the Host object of the client
    copied,    \* copied[m]: those of the last copy returned by sync_info
    gathered,  \* gathered[m]: facts the running setup task has brought back
    call,      \* the call in progress, or the last one
    book,      \* the playbook being run
    results,   \* the records of run_ansible: how many of each host say OK or
               \* SKIPPED, and the host of the first one
    count      \* number of calls

ansibleVars == <<up, boots, keys, pair, marker, known, copied, gathered, call, book,
                 results, count>>

Nobody == "nobody"
NoResult == [done |-> [m \in Machines |-> 0], first |-> Nobody]
Outcomes == {"ok", "failed", "unreachable", "notready", "raised"}
Kinds == {"none", "command", "actions", "books", "facts", "wait", "sync", "keys", "pip"}

-----------------------------------------------------------------------------
(* Plays *)

Task(do) == [do |-> do, ignore |-> FALSE, background |-> FALSE]

\* _Phantom.__call__: keywords of the task override those of the block, and
\* background (async, poll=0) is left out when it is false.
ActionTask(do, ignore, block, own) ==
    [do |-> do, ignore |-> ignore,
     background |-> IF own = "unset" THEN block ELSE own = "yes"]

\* actions.__init__, __exit__: facts, then the tasks of the priors, then those
\* of the block, in one play.
Actions(gather, priors, own) ==
    (IF gather THEN <<Task("setup")>> ELSE <<>>) \o priors \o own

Python3 == <<Task("raw")>>
Waiting == <<Task("raw")>>
Utils == <<Task("setup"), Task("template")>>
PushKeys == <<Task("private"), Task("public"), Task("authorize")>>

\* What a client asks for: the tasks of each playbook, and on which machines.
CommandBooks ==
    {<<Actions(gather, <<>>, <<ActionTask("shell", ~gather, FALSE, "unset")>>)>> :
        gather \in BOOLEAN}

ActionsBooks ==
    {<<Actions(FALSE, Python3, <<ActionTask("shell", FALSE, TRUE, own)>>)>> :
        own \in {"unset", "yes", "no"}}

TwoBooks == {<< <<Task("shell")>>, <<Task("shell")>> >>}

Request(kind, hosts, books, continue, free, inplace) ==
    [kind |-> kind, hosts |-> hosts, books |-> books, continue |-> continue,
     free |-> free, inplace |-> inplace,
     stage |-> IF kind \in {"wait", "sync"} THEN "wait"
               ELSE IF kind = "pip" THEN "find" ELSE "run",
     at |-> 1, tries |-> 0, st |-> "running", markers |-> FALSE, body |-> "ok",
     before |-> IF kind = "pip" THEN marker ELSE {},
     since |-> IF kind = "sync" THEN boots ELSE [m \in Machines |-> 0],
     was |-> IF kind = "sync" THEN known ELSE [m \in Machines |-> 0]]

\* Calls that leave something on the machines or in the hosts; the others are
\* the last of a behaviour.
Leaving == {"sync", "keys", "pip"}

\* The executor of a playbook starts with every host of the inventory, also
\* those that failed in an earlier playbook.
Start(hosts, tasks) ==
    [on |-> TRUE, tasks |-> tasks, pos |-> [m \in Machines |-> 0], alive |-> hosts,
     failed |-> {}, unreachable |-> {}]

NoBook == [on |-> FALSE, tasks |-> <<>>, pos |-> [m \in Machines |-> 0], alive |-> {},
           failed |-> {}, unreachable |-> {}]

Running == call.st = "running"
Slots(books, n) == UNION {{b} \X DOMAIN books[b] : b \in 1..n}
Tasks == Cardinality(Slots(call.books, Len(call.books)))

AnsibleTypeOK ==
    /\ up \subseteq Machines /\ marker \subseteq Machines
    /\ boots \in [Machines -> 0..MaxReboots]
    /\ pair \in 0..MaxCalls
    /\ \A m \in Machines :
          /\ keys[m].private \in 0..MaxCalls /\ keys[m].public \in 0..MaxCalls
          /\ keys[m].authorized \subseteq 0..MaxCalls
    /\ known \in [Machines -> 0..MaxReboots] /\ copied \in [Machines -> 0..MaxReboots]
    /\ gathered \in [Machines -> 0..MaxReboots]
    /\ call.kind \in Kinds /\ call.st \in Outcomes \cup {"running"}
    /\ call.tries \in 0..(Retries - 1)
    /\ book.alive \subseteq call.hosts
    /\ results.done \in [Machines -> 0..Tasks]
    /\ results.first \in call.hosts \cup {Nobody}
    /\ count \in 0..MaxCalls

AnsibleInit ==
    /\ up = {} /\ boots = [m \in Machines |-> 0]
    /\ keys = [m \in Machines |-> [private |-> 0, public |-> 0, authorized |-> {}]]
    /\ pair = 0
    /\ marker \in SUBSET Machines
    /\ known = [m \in Machines |-> 0] /\ copied = known /\ gathered = known
    /\ call = [Request("none", {}, <<>>, FALSE, FALSE, FALSE) EXCEPT !.st = "ok"]
    /\ book = NoBook
    /\ results = NoResult
    /\ count = 0

-----------------------------------------------------------------------------
(* The machines. What happens to one between two calls is taken to happen at *)
(* the beginning of the second.                                              *)

Reboots == Cardinality(UNION {{m} \X (1..boots[m]) : m \in Machines})

Boot(m) ==
    /\ Running /\ m \notin up
    /\ up' = up \cup {m}
    /\ UNCHANGED <<boots, keys, pair, marker, known, copied, gathered, call, book, results, count>>

Reboot(m) ==
    /\ Running /\ m \in up /\ Reboots < MaxReboots
    /\ up' = up \ {m}
    /\ boots' = [boots EXCEPT ![m] = @ + 1]
    /\ UNCHANGED <<keys, pair, marker, known, copied, gathered, call, book, results, count>>

-----------------------------------------------------------------------------
(* The executor and its callback *)

\* In the linear strategy nobody starts a task before all have ended the one
\* before it.
Turn(m) ==
    /\ book.on /\ m \in book.alive /\ book.pos[m] < Len(book.tasks)
    /\ call.free \/ \A n \in book.alive : book.pos[m] <= book.pos[n]

Current(m) == book.tasks[book.pos[m] + 1]

\* _MyCallback._store
Record(m, status) ==
    results' = [done |-> [results.done EXCEPT ![m] = IF status \in {"OK", "SKIPPED"} THEN @ + 1 ELSE @],
                first |-> IF results.first = Nobody THEN m ELSE results.first]

\* _MyCallback.v2_runner_on_unreachable: the host leaves the play.
Unreachable(m) ==
    /\ Turn(m) /\ m \notin up /\ Current(m).do # "template"
    /\ Record(m, "UNREACHABLE")
    /\ book' = [book EXCEPT !.alive = @ \ {m}, !.unreachable = @ \cup {m}]
    /\ UNCHANGED <<up, boots, keys, pair, marker, known, copied, gathered, call, count>>

\* v2_runner_on_failed: with ignore_errors the record is OK and the host
\* goes on; otherwise it leaves the play.
TaskFails(m) ==
    /\ Turn(m) /\ m \in up /\ ~Current(m).background /\ Current(m).do # "template"
    /\ IF Current(m).ignore
       THEN /\ Record(m, "OK")
            /\ book' = [book EXCEPT !.pos[m] = @ + 1]
       ELSE /\ Record(m, "FAILED")
            /\ book' = [book EXCEPT !.alive = @ \ {m}, !.failed = @ \cup {m}]
    /\ UNCHANGED <<up, boots, keys, pair, marker, known, copied, gathered, call, count>>

\* What a task that succeeds does.
Effect(m, do) ==
    /\ keys' = CASE do = "private" -> [keys EXCEPT ![m].private = pair]
                 [] do = "public" -> [keys EXCEPT ![m].public = pair]
                 [] do = "authorize" -> [keys EXCEPT ![m].authorized = @ \cup {pair}]
                 [] OTHER -> keys
    /\ marker' = CASE do = "absent" -> marker \ {m}
                   [] do = "touch" -> marker \cup {m}
                   [] OTHER -> marker
    /\ gathered' = IF do = "setup" THEN [gathered EXCEPT ![m] = boots[m]] ELSE gathered

TaskSucceeds(m) ==
    /\ Turn(m) /\ m \in up /\ Current(m).do # "template"
    /\ Record(m, "OK")
    /\ Effect(m, Current(m).do)
    /\ book' = [book EXCEPT !.pos[m] = @ + 1]
    /\ UNCHANGED <<up, boots, pair, known, copied, call, count>>

\* A task of the client whose condition is false.
TaskSkipped(m) ==
    /\ Turn(m) /\ m \in up /\ Current(m).do = "shell"
    /\ Record(m, "SKIPPED")
    /\ book' = [book EXCEPT !.pos[m] = @ + 1]
    /\ UNCHANGED <<up, boots, keys, pair, marker, known, copied, gathered, call, count>>

\* check_network.yml: run once, on the local machine, for every host.
Template(m) ==
    /\ Turn(m) /\ Current(m).do = "template"
    /\ \/ /\ Record(m, "OK")
          /\ book' = [book EXCEPT !.pos = [n \in Machines |-> Len(book.tasks)]]
       \/ /\ Record(m, "FAILED")
          /\ book' = [book EXCEPT !.alive = {}, !.failed = @ \cup {m}]
    /\ UNCHANGED <<up, boots, keys, pair, marker, known, copied, gathered, call, count>>

-----------------------------------------------------------------------------
(* The calls *)

\* populate_keys makes a new pair of files before it pushes them.
Call(request) ==
    /\ ~Running /\ count < MaxCalls /\ call.kind \in Leaving \cup {"none"}
    /\ call' = request
    /\ book' = Start(request.hosts, request.books[1])
    /\ results' = NoResult
    /\ pair' = IF request.kind = "keys" THEN count + 1 ELSE pair
    /\ gathered' = [m \in Machines |-> 0]
    /\ count' = count + 1
    /\ UNCHANGED <<up, boots, keys, marker, known, copied>>

CallAll(kind, books, continue, free) ==
    Call(Request(kind, Machines, books, continue, free, FALSE))

\* Only sync_info is also made on some machines.
ClientCalls ==
    \/ \E books \in CommandBooks, continue \in BOOLEAN :
          CallAll("command", books, continue, FALSE)
    \/ \E books \in ActionsBooks, continue \in BOOLEAN :
          CallAll("actions", books, continue, TRUE)
    \/ \E books \in TwoBooks, continue \in BOOLEAN : CallAll("books", books, continue, FALSE)
    \/ CallAll("facts", << <<Task("setup")>> >>, FALSE, FALSE)
    \/ CallAll("wait", <<Waiting>>, FALSE, FALSE)
    \/ \E some \in (SUBSET Machines) \ {{}}, inplace \in BOOLEAN :
          Call(Request("sync", some, <<Waiting>>, FALSE, FALSE, inplace))
    \/ CallAll("keys", <<PushKeys>>, FALSE, FALSE)
    \/ CallAll("pip", << <<Task("find")>> >>, FALSE, FALSE)

BookOver == book.on /\ \A m \in book.alive : book.pos[m] = Len(book.tasks)

\* Mutant of Verdict: unreachable hosts are only logged.
UnreachableLogged ==
    IF call.continue \/ book.failed = {} THEN "ok" ELSE "failed"

\* run_ansible: failures first, then unreachable hosts.
Verdict ==
    IF call.continue THEN "ok"
    ELSE IF book.failed # {} THEN "failed"
    ELSE IF book.unreachable # {} THEN "unreachable"
    ELSE "ok"

MoreBooks == call.at < Len(call.books)

\* The next playbook of the list.
NextBook ==
    /\ Running /\ BookOver /\ Verdict = "ok" /\ MoreBooks
    /\ call' = [call EXCEPT !.at = @ + 1]
    /\ book' = Start(call.hosts, call.books[call.at + 1])
    /\ UNCHANGED <<up, boots, keys, pair, marker, known, copied, gathered, results, count>>

\* run_ansible returns to, or raises in, the operation that called it.
Returned(outcome) == Running /\ BookOver /\ Verdict = outcome /\ (outcome = "ok" => ~MoreBooks)

worldVars == <<up, boots, keys, pair, marker, gathered, count>>

End(st) ==
    /\ call' = [call EXCEPT !.st = st]
    /\ book' = NoBook
    /\ UNCHANGED results

\* One more run_ansible of the same operation.
Run(next, tasks) ==
    /\ call' = [next EXCEPT !.books = <<tasks>>]
    /\ book' = Start(call.hosts, tasks)
    /\ results' = NoResult

\* run_command, actions.__exit__, gather_facts, populate_keys, run_ansible.
CallEnds ==
    /\ call.stage = "run"
    /\ \E outcome \in {"ok", "failed", "unreachable"} : Returned(outcome) /\ End(outcome)
    /\ UNCHANGED <<known, copied>> /\ UNCHANGED worldVars

\* Mutant of TriesLeft: one retry too many.
OneMoreTry == call.tries < Retries

\* for i in range(0, retries)
TriesLeft == call.tries + 1 < Retries

\* wait_for: unreachable hosts are waited for, at most Retries times; failed
\* ones raise.
WaitRetry ==
    /\ call.stage = "wait" /\ Returned("unreachable") /\ TriesLeft
    /\ Run([call EXCEPT !.tries = @ + 1], Waiting)
    /\ UNCHANGED <<known, copied>> /\ UNCHANGED worldVars

WaitGivesUp ==
    /\ call.stage = "wait" /\ Returned("unreachable") /\ ~TriesLeft
    /\ End("notready")
    /\ UNCHANGED <<known, copied>> /\ UNCHANGED worldVars

WaitFails ==
    /\ call.stage = "wait" /\ Returned("failed")
    /\ End("failed")
    /\ UNCHANGED <<known, copied>> /\ UNCHANGED worldVars

WaitEnds ==
    /\ call.stage = "wait" /\ Returned("ok")
    /\ IF call.kind = "sync" THEN Run([call EXCEPT !.stage = "facts"], Utils) ELSE End("ok")
    /\ UNCHANGED <<known, copied>> /\ UNCHANGED worldVars

\* _sync_from_facts
FromFacts(hosts) == [m \in Machines |-> IF m \in call.hosts THEN gathered[m] ELSE hosts[m]]

\* Mutant of Synced: the copy shares its hosts with the roles of the client.
SyncedShared == known' = FromFacts(known) /\ copied' = FromFacts(known)

\* sync_info: the hosts of the client, or deep copies of them.
Synced ==
    IF call.inplace THEN known' = FromFacts(known) /\ UNCHANGED copied
    ELSE copied' = FromFacts(known) /\ UNCHANGED known

SyncEnds ==
    /\ call.stage = "facts" /\ Returned("ok")
    /\ Synced
    /\ End("ok")
    /\ UNCHANGED worldVars

SyncFails ==
    /\ call.stage = "facts"
    /\ \E outcome \in {"failed", "unreachable"} : Returned(outcome) /\ End(outcome)
    /\ UNCHANGED <<known, copied>> /\ UNCHANGED worldVars

-----------------------------------------------------------------------------
(* external_pip_deps *)

\* The markers are those of the first result, and removed from every host.
PipFound ==
    /\ call.stage = "find" /\ Returned("ok")
    /\ IF results.first \in marker
       THEN Run([call EXCEPT !.stage = "allow", !.markers = TRUE], <<Task("absent")>>)
       ELSE /\ call' = [call EXCEPT !.stage = "body"]
            /\ book' = NoBook
            /\ UNCHANGED results
    /\ UNCHANGED <<known, copied>> /\ UNCHANGED worldVars

PipAllowed ==
    /\ call.stage = "allow" /\ Returned("ok")
    /\ call' = [call EXCEPT !.stage = "body"]
    /\ book' = NoBook
    /\ UNCHANGED <<known, copied, results>> /\ UNCHANGED worldVars

\* Outside the try of the generator: nothing is restored.
PipRefused ==
    /\ call.stage \in {"find", "allow"}
    /\ \E outcome \in {"failed", "unreachable"} : Returned(outcome) /\ End(outcome)
    /\ UNCHANGED <<known, copied>> /\ UNCHANGED worldVars

\* Mutant of Restoring: the markers are put back by the normal exit only.
RestoringUnlessRaised(body) == call.markers /\ body = "ok"

\* The finally clause.
Restoring(body) == call.markers

\* The block of the client ends, or raises.
PipBody(body) ==
    /\ Running /\ call.stage = "body"
    /\ IF Restoring(body)
       THEN Run([call EXCEPT !.stage = "restore", !.body = body], <<Task("touch")>>)
       ELSE End(body)
    /\ UNCHANGED <<known, copied>> /\ UNCHANGED worldVars

PipRestored ==
    /\ call.stage = "restore"
    /\ \E outcome \in {"ok", "failed", "unreachable"} :
          Returned(outcome) /\ End(IF outcome = "ok" THEN call.body ELSE outcome)
    /\ UNCHANGED <<known, copied>> /\ UNCHANGED worldVars

AnsibleNext ==
    \/ \E m \in Machines :
          \/ Boot(m) \/ Reboot(m)
          \/ Unreachable(m) \/ TaskFails(m) \/ TaskSucceeds(m) \/ TaskSkipped(m) \/ Template(m)
    \/ ClientCalls \/ NextBook \/ CallEnds
    \/ WaitRetry \/ WaitGivesUp \/ WaitFails \/ WaitEnds \/ SyncEnds \/ SyncFails
    \/ PipFound \/ PipAllowed \/ PipRefused \/ PipRestored
    \/ \E body \in {"ok", "raised"} : PipBody(body)

AnsibleSpec == AnsibleInit /\ [][AnsibleNext]_ansibleVars

-----------------------------------------------------------------------------
(* Properties *)

Ended(kinds) == call.kind \in kinds /\ ~Running


\* A call that returns without on_error_continue did all it was asked for on
\* every host, although each failure drops its host from the rest of the play
\* and each playbook starts afresh: a record of success per task, an answer of
\* every host in one and the same round of wait_for, the pair of the local
\* files on every host and authorized there (run_ansible, wait_for,
\* populate_keys).
SuccessMeansEverywhere ==
    call.st = "ok" /\ ~call.continue =>
       \A m \in call.hosts :
          /\ Ended({"command", "actions", "books", "facts", "wait"}) =>
                results.done[m] = Tasks
          /\ Ended({"keys"}) =>
                keys[m].private = pair /\ keys[m].public = pair /\ pair \in keys[m].authorized

\* external_pip_deps gives back what it takes: when the block is left, by an
\* exception of its body too, no host has lost its marker, whichever host
\* answered first to the search.
MarkersComeBack == Ended({"pip"}) /\ call.st \in {"ok", "raised"} => call.before \subseteq marker

\* sync_info is all or nothing: when it returns, every host it was given has
\* facts gathered since the call began, and the client's own objects are
\* touched only in place; when it raises (hosts not ready, failed, lost
\* between the wait and the facts), no object changed.
SyncedTogether ==
    /\ Ended({"sync"}) /\ call.st = "ok" =>
          \A m \in call.hosts :
             (IF call.inplace THEN known ELSE copied)[m] \in call.since[m]..boots[m]
    /\ Ended({"sync"}) /\ (call.st # "ok" \/ ~call.inplace) => known = call.was
=============================================================================
