--------------------------- MODULE ExperimentProofs ---------------------------
(***************************************************************************)
(* What holds of the environments of tasks, for any number of processes,   *)
(* directories, tasks and kills; of the configuration, for any nesting of  *)
(* its blocks and any number of files of results; and of the collections   *)
(* of hosts, for any number of machines, roles and collections; of the     *)
(* calls of Ansible, for any number of machines, retries, calls and        *)
(* reboots. A behaviour of MCExperiment is one of each of its components,  *)
(* so that what is proved of each of them holds of it too.                 *)
(***************************************************************************)
EXTENDS MCExperiment, FiniteSetTheorems, SequenceTheorems, WellFoundedInduction, TLAPS

-----------------------------------------------------------------------------
(* Calls of Ansible: vocabulary of the proofs *)

Dos == {"setup", "raw", "template", "private", "public", "authorize", "shell", "find",
        "absent", "touch"}
Stages == {"run", "wait", "facts", "find", "allow", "body", "restore"}
Counter == 0..MaxReboots

ATask == [do : Dos, ignore : BOOLEAN, background : BOOLEAN]
PlainTask == {t \in ATask : t.do # "template"}
APlay == Seq(ATask)
ACall == [kind : Kinds, hosts : SUBSET Machines, books : Seq(APlay), continue : BOOLEAN,
          free : BOOLEAN, inplace : BOOLEAN, stage : Stages, at : Nat \ {0},
          tries : 0..(Retries - 1), st : Outcomes \cup {"running"}, markers : BOOLEAN,
          body : {"ok", "raised"}, before : SUBSET Machines, since : [Machines -> Counter],
          was : [Machines -> Counter]]
ABook == [on : BOOLEAN, tasks : APlay, pos : [Machines -> Nat], alive : SUBSET Machines,
          failed : SUBSET Machines, unreachable : SUBSET Machines]
AKeys == [private : 0..MaxCalls, public : 0..MaxCalls, authorized : SUBSET (0..MaxCalls)]

AnsTyped ==
    /\ up \in SUBSET Machines
    /\ boots \in [Machines -> Counter]
    /\ keys \in [Machines -> AKeys]
    /\ pair \in 0..MaxCalls
    /\ marker \in SUBSET Machines
    /\ known \in [Machines -> Counter]
    /\ copied \in [Machines -> Counter]
    /\ gathered \in [Machines -> Counter]
    /\ call \in ACall
    /\ book \in ABook
    /\ results \in [done : [Machines -> Nat], first : Machines \cup {Nobody}]
    /\ count \in 0..MaxCalls

\* The number of tasks in the playbooks before the current one.
Before == Cardinality(Slots(call.books, call.at - 1))

-----------------------------------------------------------------------------
(* The inductive invariant *)

\* The playbooks of each kind of call, at each of its stages.
Plays ==
    CASE call.kind = "keys" -> call.stage = "run" /\ call.books = <<PushKeys>>
      [] call.kind = "wait" -> call.stage = "wait" /\ call.books = <<Waiting>>
      [] call.kind = "sync" -> \/ call.stage = "wait" /\ call.books = <<Waiting>>
                               \/ call.stage = "facts" /\ call.books = <<Utils>>
      [] call.kind = "pip" -> \/ call.stage = "find" /\ call.books = << <<Task("find")>> >>
                              \/ call.stage = "allow" /\ call.books = << <<Task("absent")>> >>
                              \/ call.stage = "restore" /\ call.books = << <<Task("touch")>> >>
                              \/ call.stage = "body" /\ ~book.on
      [] OTHER -> call.stage = "run"

\* What a call was asked is what its playbooks do.
Asked ==
    /\ Plays
    /\ call.kind \in {"wait", "sync", "keys", "pip"} =>
          ~call.continue /\ ~call.free /\ call.at = 1
    /\ call.kind # "sync" => \A b \in DOMAIN call.books : \A i \in DOMAIN call.books[b] :
                                call.books[b][i].do # "template"
    /\ call.before \subseteq call.hosts
    /\ call.kind = "none" => ~Running /\ Tasks = 0
    /\ book.on => Running /\ call.at \in 1..Len(call.books) /\ book.tasks = call.books[call.at]
    /\ Running => book.on \/ call.stage = "body"

\* A host is in the play or an error of the play is recorded; the successes of a
\* host are the tasks it went through.
Followed ==
    /\ book.alive \subseteq call.hosts
    /\ results.first \in call.hosts \cup {Nobody}
    /\ book.on => book.alive = call.hosts \/ book.failed # {} \/ book.unreachable # {}
    /\ \A m \in Machines :
          /\ book.on => book.pos[m] <= Len(book.tasks) /\ results.done[m] <= Before + book.pos[m]
          /\ book.on /\ m \in book.alive /\ call.kind # "sync" /\ ~call.continue =>
                results.done[m] = Before + book.pos[m]
          /\ ~book.on => results.done[m] <= Tasks

\* The hosts that went through a task of populate_keys have what it gives.
Pushed ==
    Running /\ call.kind = "keys" =>
       \A m \in Machines :
          /\ book.pos[m] >= 1 => keys[m].private = pair
          /\ book.pos[m] >= 2 => keys[m].public = pair
          /\ book.pos[m] >= 3 => pair \in keys[m].authorized

\* Until they are removed the markers are there, and then they are being put back.
Marked ==
    Running /\ call.kind = "pip" =>
       /\ call.stage = "find" => call.before \subseteq marker
       /\ call.stage = "allow" => call.markers
       /\ call.stage = "body" /\ ~call.markers => call.before \subseteq marker
       /\ call.stage = "restore" => \A m \in Machines : book.pos[m] >= 1 => m \in marker

\* No object changed yet, and the facts gathered are fresh.
Fresh ==
    Running /\ call.kind = "sync" =>
       /\ known = call.was
       /\ \A m \in Machines : call.since[m] <= boots[m]
       /\ call.stage = "facts" => \A m \in book.alive :
             book.pos[m] >= 1 => gathered[m] \in call.since[m]..boots[m]

AnsIInv ==
    /\ AnsTyped /\ Asked /\ Followed /\ Pushed /\ Marked /\ Fresh
    /\ SuccessMeansEverywhere /\ MarkersComeBack /\ SyncedTogether

-----------------------------------------------------------------------------
(* How many tasks playbooks have *)

\* A union of rows, one for each element of a finite set, is finite.
LEMMA RowsFinite ==
    ASSUME NEW D, IsFiniteSet(D), NEW f, \A x \in D : IsFiniteSet(f[x])
    PROVE  IsFiniteSet(UNION {{x} \X f[x] : x \in D})
<1> DEFINE T == {{x} \X f[x] : x \in D}
           g == [x \in D |-> {x} \X f[x]]
<1>1. g \in Surjection(D, T)
    BY DEF Surjection
<1> HIDE DEF g
<1>2. IsFiniteSet(T)
    BY <1>1, FS_Surjection
<1>3. \A t \in T : IsFiniteSet(t)
    <2>1. ASSUME NEW x \in D
          PROVE  IsFiniteSet({x} \X f[x])
        BY FS_Singleton, FS_Product
    <2> QED
        BY <2>1
<1> HIDE DEF T
<1>4. IsFiniteSet(UNION T)
    BY <1>2, <1>3, FS_UNION
<1> QED
    BY <1>4 DEF T

LEMMA SlotsFinite ==
    ASSUME NEW books \in Seq(APlay), NEW n \in 0..Len(books)
    PROVE  /\ IsFiniteSet(Slots(books, n)) /\ Cardinality(Slots(books, n)) \in Nat
           /\ \A b \in 1..n : books[b] \in APlay /\ Len(books[b]) \in Nat
                              /\ DOMAIN books[b] = 1..Len(books[b])
<1>1. \A b \in 1..n : books[b] \in APlay
    BY ElementOfSeq
<1>2. \A b \in 1..n : Len(books[b]) \in Nat /\ DOMAIN books[b] = 1..Len(books[b])
    BY <1>1, LenProperties DEF APlay
<1> DEFINE f == [b \in 1..n |-> DOMAIN books[b]]
<1>3. \A b \in 1..n : IsFiniteSet(f[b])
    <2> SUFFICES ASSUME NEW b \in 1..n PROVE IsFiniteSet(f[b])
        OBVIOUS
    <2>1. f[b] = 1..Len(books[b]) /\ Len(books[b]) \in Int /\ 1 \in Int
        BY <1>2
    <2> HIDE DEF f
    <2>2. IsFiniteSet(1..Len(books[b]))
        BY <2>1, FS_Interval
    <2> QED
        BY <2>1, <2>2
<1>4. Slots(books, n) = UNION {{b} \X f[b] : b \in 1..n}
    BY DEF Slots
<1>5. IsFiniteSet(1..n)
    BY FS_Interval
<1> HIDE DEF f
<1>6. IsFiniteSet(Slots(books, n))
    BY <1>3, <1>4, <1>5, RowsFinite
<1> QED
    BY <1>1, <1>2, <1>6, FS_CardinalityType

LEMMA SlotsNone == \A books : Slots(books, 0) = {} /\ Cardinality(Slots(books, 0)) = 0
    BY FS_EmptySet DEF Slots

LEMMA SlotsNext ==
    ASSUME NEW books \in Seq(APlay), NEW n \in 1..Len(books)
    PROVE  Cardinality(Slots(books, n)) = Cardinality(Slots(books, n - 1)) + Len(books[n])
<1> DEFINE row == {n} \X DOMAIN books[n]
<1>0. Len(books) \in Nat
    BY LenProperties
<1>1. /\ IsFiniteSet(Slots(books, n - 1)) /\ Cardinality(Slots(books, n - 1)) \in Nat
      /\ Len(books[n]) \in Nat /\ DOMAIN books[n] = 1..Len(books[n])
    BY <1>0, SlotsFinite
<1>2. Slots(books, n) = Slots(books, n - 1) \cup row
    <2>1. 1..n = (1..(n - 1)) \cup {n}
        BY <1>0
    <2> QED
        BY <2>1 DEF Slots
<1>3. Slots(books, n - 1) \cap row = {}
    <2>1. \A x \in Slots(books, n - 1) : x[1] \in 1..(n - 1)
        BY DEF Slots
    <2>2. \A x \in row : x[1] = n
        OBVIOUS
    <2> QED
        BY <1>0, <2>1, <2>2
<1>4. IsFiniteSet(row) /\ Cardinality(row) = Len(books[n])
    <2>0. \A k \in Nat : IsFiniteSet(1..k) /\ Cardinality(1..k) = k
        BY FS_Interval
    <2>1. IsFiniteSet(DOMAIN books[n]) /\ Cardinality(DOMAIN books[n]) = Len(books[n])
        BY <1>1, <2>0
    <2>2. IsFiniteSet({n}) /\ Cardinality({n}) = 1
        BY FS_Singleton
    <2>3. IsFiniteSet(row) /\ Cardinality(row) = Cardinality({n}) * Cardinality(DOMAIN books[n])
        BY <2>1, <2>2, FS_Product
    <2> QED
        BY <1>1, <2>1, <2>2, <2>3
<1> HIDE DEF row
<1>5. Cardinality(Slots(books, n)) = Cardinality(Slots(books, n - 1)) + Cardinality(row)
    <2>1. Cardinality(Slots(books, n)) = Cardinality(Slots(books, n - 1)) + Cardinality(row)
                                         - Cardinality({})
        BY <1>1, <1>2, <1>3, <1>4, FS_Union
    <2> QED
        BY <1>1, <1>4, <2>1, FS_EmptySet
<1> QED
    BY <1>4, <1>5

LEMMA SlotsGrow ==
    ASSUME NEW books \in Seq(APlay), NEW n \in 0..Len(books)
    PROVE  Cardinality(Slots(books, n)) <= Cardinality(Slots(books, Len(books)))
<1>1. Len(books) \in Nat
    BY LenProperties
<1>2. Slots(books, n) \in SUBSET Slots(books, Len(books))
    BY <1>1 DEF Slots
<1> QED
    BY <1>1, <1>2, SlotsFinite, FS_Subset

\* The guard of a reboot keeps each machine under the bound.
LEMMA RebootsBounded ==
    ASSUME boots \in [Machines -> Counter], Reboots < MaxReboots, NEW m \in Machines
    PROVE  boots[m] + 1 \in Counter
<1> DEFINE f == [n \in Machines |-> 1..boots[n]]
           row == {m} \X (1..boots[m])
           all == UNION {{n} \X f[n] : n \in Machines}
<1>0. MaxReboots \in Nat /\ IsFiniteSet(Machines) /\ boots[m] \in Nat
      /\ \A n \in Machines : boots[n] \in Nat
    BY AnsibleAssumption DEF Counter
<1>1. \A n \in Machines : IsFiniteSet(f[n])
    BY <1>0, FS_Interval
<1>2. all = UNION {{n} \X (1..boots[n]) : n \in Machines}
    OBVIOUS
<1>3. row \in SUBSET all
    OBVIOUS
<1>4. Cardinality(row) = boots[m]
    <2>1. IsFiniteSet(1..boots[m]) /\ Cardinality(1..boots[m]) = boots[m]
        BY <1>0, FS_Interval
    <2>2. IsFiniteSet({m}) /\ Cardinality({m}) = 1
        BY FS_Singleton
    <2>3. Cardinality(row) = Cardinality({m}) * Cardinality(1..boots[m])
        BY <2>1, <2>2, FS_Product
    <2> QED
        BY <1>0, <2>1, <2>2, <2>3
<1> HIDE DEF f
<1>5. IsFiniteSet(all)
    BY <1>0, <1>1, RowsFinite
<1> HIDE DEF row, all
<1>6. Cardinality(row) <= Cardinality(all) /\ Cardinality(all) \in Nat
    BY <1>3, <1>5, FS_Subset, FS_CardinalityType
<1>7. Cardinality(all) < MaxReboots
    BY <1>2 DEF Reboots, all, f
<1> QED
    BY <1>0, <1>4, <1>6, <1>7 DEF Counter

-----------------------------------------------------------------------------
(* What clients ask for *)

LEMMA BooksAre ==
    /\ \A books \in CommandBooks \cup ActionsBooks \cup TwoBooks \cup
                    {<<Waiting>>, <<PushKeys>>, << <<Task("setup")>> >>, << <<Task("find")>> >>,
                     << <<Task("absent")>> >>, << <<Task("touch")>> >>} :
          /\ books \in Seq(APlay) /\ Len(books) >= 1
          /\ \A b \in DOMAIN books : \A i \in DOMAIN books[b] : books[b][i].do # "template"
    /\ <<Utils>> \in Seq(APlay) /\ Len(<<Utils>>) = 1
<1> DEFINE Plain == Seq(PlainTask)
<1>1. \A do \in Dos : Task(do) \in ATask /\ Task(do).do = do
    BY DEF Task, ATask
<1>2. \A do \in Dos \ {"template"} : <<Task(do)>> \in Plain
    BY <1>1 DEF PlainTask
<1>3. \A ignore, block \in BOOLEAN, own \in {"unset", "yes", "no"} :
         <<ActionTask("shell", ignore, block, own)>> \in Plain
    <2>1. ASSUME NEW ignore \in BOOLEAN, NEW block \in BOOLEAN, NEW own \in {"unset", "yes", "no"}
          PROVE  \E background \in BOOLEAN :
                    ActionTask("shell", ignore, block, own) =
                       [do |-> "shell", ignore |-> ignore, background |-> background]
        BY DEF ActionTask
    <2> QED
        BY <2>1 DEF Dos, ATask, PlainTask
<1>4. /\ Waiting \in Plain /\ Python3 \in Plain /\ <<>> \in Plain
      /\ <<Task("setup")>> \in Plain /\ <<Task("find")>> \in Plain /\ <<Task("shell")>> \in Plain
      /\ <<Task("absent")>> \in Plain /\ <<Task("touch")>> \in Plain
    BY <1>2 DEF Waiting, Python3, Dos
<1>5. PushKeys \in Plain
    BY <1>1 DEF PushKeys, Dos, PlainTask
<1>6. \A gather \in BOOLEAN, priors, own \in Plain : Actions(gather, priors, own) \in Plain
    <2> HIDE DEF Plain
    <2>1. ASSUME NEW s \in Plain, NEW t \in Plain
          PROVE  s \o t \in Plain
        BY ConcatProperties DEF Plain
    <2> QED
        BY <1>4, <2>1 DEF Actions
<1>7. ASSUME NEW s \in Plain
      PROVE  s \in APlay /\ \A i \in DOMAIN s : s[i].do # "template"
    <2>1. DOMAIN s = 1..Len(s)
        BY LenProperties
    <2>2. \A i \in 1..Len(s) : s[i] \in PlainTask
        BY ElementOfSeq
    <2>3. PlainTask \subseteq ATask
        BY DEF PlainTask
    <2>4. s \in Seq(ATask)
        BY <2>3, SeqMonotonic
    <2> QED
        BY <2>1, <2>2, <2>4 DEF APlay, PlainTask
<1> HIDE DEF Plain
<1>8. ASSUME NEW s \in Plain
      PROVE  /\ <<s>> \in Seq(APlay) /\ Len(<<s>>) >= 1
             /\ \A b \in DOMAIN <<s>> : \A i \in DOMAIN <<s>>[b] : <<s>>[b][i].do # "template"
    BY <1>7
<1>9. ASSUME NEW s \in Plain
      PROVE  /\ <<s, s>> \in Seq(APlay) /\ Len(<<s, s>>) >= 1
             /\ \A b \in DOMAIN <<s, s>> : \A i \in DOMAIN <<s, s>>[b] :
                   <<s, s>>[b][i].do # "template"
    BY <1>7
<1>10. ASSUME NEW books \in CommandBooks \cup ActionsBooks
       PROVE  \E s \in Plain : books = <<s>>
    <2>1. CASE books \in CommandBooks
        BY <1>3, <1>4, <1>6, <2>1 DEF CommandBooks
    <2>2. CASE books \in ActionsBooks
        BY <1>3, <1>4, <1>6, <2>2 DEF ActionsBooks
    <2> QED
        BY <2>1, <2>2
<1>11. <<Utils>> \in Seq(APlay) /\ Len(<<Utils>>) = 1
    <2>1. Utils \in APlay
        BY <1>1 DEF Utils, Dos, APlay
    <2> QED
        BY <2>1
<1> QED
    BY <1>4, <1>5, <1>8, <1>9, <1>10, <1>11 DEF TwoBooks

\* The fields of a request.
LEMMA RequestFields ==
    ASSUME boots \in [Machines -> Counter], known \in [Machines -> Counter],
           marker \in SUBSET Machines,
           NEW kind \in Kinds, NEW hosts \in SUBSET Machines, NEW books \in Seq(APlay),
           NEW continue \in BOOLEAN, NEW free \in BOOLEAN, NEW inplace \in BOOLEAN,
           NEW r, r = Request(kind, hosts, books, continue, free, inplace)
    PROVE  /\ r \in ACall
           /\ r.kind = kind /\ r.hosts = hosts /\ r.books = books
           /\ r.continue = continue /\ r.free = free
           /\ r.at = 1 /\ r.st = "running" /\ ~r.markers
           /\ r.stage = (IF kind \in {"wait", "sync"} THEN "wait"
                         ELSE IF kind = "pip" THEN "find" ELSE "run")
           /\ r.before = (IF kind = "pip" THEN marker ELSE {})
           /\ kind = "sync" => r.since = boots /\ r.was = known
<1>1. 0 \in Counter /\ 0 \in 0..(Retries - 1)
    BY AnsibleAssumption DEF Counter
<1>2. [m \in Machines |-> 0] \in [Machines -> Counter]
    BY <1>1
<1>3. r.since \in [Machines -> Counter] /\ r.was \in [Machines -> Counter]
    BY <1>2 DEF Request
<1>4. r.before \in SUBSET Machines /\ r.stage \in Stages /\ r.tries \in 0..(Retries - 1)
    BY <1>1 DEF Request, Stages
<1>5. /\ r.kind = kind /\ r.hosts = hosts /\ r.books = books
      /\ r.continue = continue /\ r.free = free /\ r.inplace = inplace
      /\ r.at = 1 /\ r.st = "running" /\ r.markers = FALSE /\ r.body = "ok"
      /\ r.stage = (IF kind \in {"wait", "sync"} THEN "wait"
                    ELSE IF kind = "pip" THEN "find" ELSE "run")
      /\ r.before = (IF kind = "pip" THEN marker ELSE {})
      /\ kind = "sync" => r.since = boots /\ r.was = known
    BY DEF Request
<1>6. r = [kind |-> r.kind, hosts |-> r.hosts, books |-> r.books, continue |-> r.continue,
           free |-> r.free, inplace |-> r.inplace, stage |-> r.stage, at |-> r.at,
           tries |-> r.tries, st |-> r.st, markers |-> r.markers, body |-> r.body,
           before |-> r.before, since |-> r.since, was |-> r.was]
    BY DEF Request
<1>7. r \in ACall
    <2>1. "running" \in Outcomes \cup {"running"} /\ "ok" \in {"ok", "raised"} /\ 1 \in Nat \ {0}
        OBVIOUS
    <2>2. /\ r.kind \in Kinds /\ r.hosts \in SUBSET Machines /\ r.books \in Seq(APlay)
          /\ r.continue \in BOOLEAN /\ r.free \in BOOLEAN /\ r.inplace \in BOOLEAN
          /\ r.stage \in Stages /\ r.at \in Nat \ {0} /\ r.tries \in 0..(Retries - 1)
          /\ r.st \in Outcomes \cup {"running"} /\ r.markers \in BOOLEAN
          /\ r.body \in {"ok", "raised"} /\ r.before \in SUBSET Machines
          /\ r.since \in [Machines -> Counter] /\ r.was \in [Machines -> Counter]
        BY <1>3, <1>4, <1>5, <2>1
    <2>3. [kind |-> r.kind, hosts |-> r.hosts, books |-> r.books, continue |-> r.continue,
           free |-> r.free, inplace |-> r.inplace, stage |-> r.stage, at |-> r.at,
           tries |-> r.tries, st |-> r.st, markers |-> r.markers, body |-> r.body,
           before |-> r.before, since |-> r.since, was |-> r.was] \in ACall
        BY ONLY <2>2 DEF ACall
    <2> QED
        BY ONLY <1>6, <2>3
<1> QED
    BY <1>5, <1>7

\* The calls of a client are running, with the playbooks of their kind.
Proper(r) ==
    /\ r \in ACall /\ r.kind # "none" /\ r.at = 1 /\ r.st = "running" /\ ~r.markers
    /\ Len(r.books) >= 1
    /\ \A b \in DOMAIN r.books : \A i \in DOMAIN r.books[b] : r.books[b][i].do # "template"
    /\ r.kind \in {"wait", "sync", "keys", "pip"} => ~r.continue /\ ~r.free
    /\ r.kind = "keys" => r.books = <<PushKeys>>
    /\ r.kind \in {"wait", "sync"} => r.books = <<Waiting>>
    /\ r.kind = "pip" => r.books = << <<Task("find")>> >>
    /\ r.stage = (IF r.kind \in {"wait", "sync"} THEN "wait"
                  ELSE IF r.kind = "pip" THEN "find" ELSE "run")
    /\ r.before = (IF r.kind = "pip" THEN marker ELSE {}) /\ r.before \subseteq r.hosts
    /\ r.kind = "sync" => r.since = boots /\ r.was = known

LEMMA RequestIsProper ==
    ASSUME AnsTyped, NEW kind \in Kinds \ {"none"}, NEW hosts \in SUBSET Machines,
           NEW books \in Seq(APlay), NEW continue \in BOOLEAN, NEW free \in BOOLEAN,
           NEW inplace \in BOOLEAN, NEW r, r = Request(kind, hosts, books, continue, free, inplace),
           Len(books) >= 1,
           \A b \in DOMAIN books : \A i \in DOMAIN books[b] : books[b][i].do # "template",
           kind \in {"wait", "sync", "keys", "pip"} => ~continue /\ ~free,
           kind = "keys" => books = <<PushKeys>>,
           kind \in {"wait", "sync"} => books = <<Waiting>>,
           kind = "pip" => books = << <<Task("find")>> >> /\ hosts = Machines
    PROVE  Proper(r)
<1>1. /\ r \in ACall
      /\ r.kind = kind /\ r.hosts = hosts /\ r.books = books
      /\ r.continue = continue /\ r.free = free
      /\ r.at = 1 /\ r.st = "running" /\ ~r.markers
      /\ r.stage = (IF kind \in {"wait", "sync"} THEN "wait"
                    ELSE IF kind = "pip" THEN "find" ELSE "run")
      /\ r.before = (IF kind = "pip" THEN marker ELSE {})
      /\ kind = "sync" => r.since = boots /\ r.was = known
    BY RequestFields DEF AnsTyped
<1>2. r.before \subseteq r.hosts
    BY <1>1 DEF AnsTyped
<1> QED
    BY <1>1, <1>2 DEF Proper

LEMMA ClientIsProper ==
    ASSUME AnsTyped, ClientCalls
    PROVE  \E r : Proper(r) /\ Call(r)
<1>1. ASSUME NEW kind \in {"command", "actions", "books"},
             NEW b \in CommandBooks \cup ActionsBooks \cup TwoBooks,
             NEW c \in BOOLEAN, NEW free \in BOOLEAN, CallAll(kind, b, c, free)
      PROVE  \E r : Proper(r) /\ Call(r)
    <2> DEFINE r == Request(kind, Machines, b, c, free, FALSE)
    <2>1. Call(r)
        BY <1>1 DEF CallAll
    <2>2. /\ kind \in Kinds \ {"none"} /\ b \in Seq(APlay) /\ Len(b) >= 1
          /\ \A n \in DOMAIN b : \A i \in DOMAIN b[n] : b[n][i].do # "template"
          /\ kind \notin {"wait", "sync", "keys", "pip"}
        BY BooksAre DEF Kinds
    <2>3. Proper(r)
        BY <2>2, RequestIsProper
    <2> QED
        BY <2>1, <2>3
<1>2. ASSUME NEW kind \in {"sync"}, NEW some \in (SUBSET Machines) \ {{}}, NEW i \in BOOLEAN,
             NEW b, b = <<Waiting>>, Call(Request(kind, some, b, FALSE, FALSE, i))
      PROVE  \E r : Proper(r) /\ Call(r)
    <2> DEFINE r == Request(kind, some, b, FALSE, FALSE, i)
    <2>1. Call(r)
        BY <1>2
    <2>2. /\ kind \in Kinds \ {"none"} /\ b \in Seq(APlay) /\ Len(b) >= 1
          /\ \A n \in DOMAIN b : \A k \in DOMAIN b[n] : b[n][k].do # "template"
          /\ kind \notin {"keys", "pip"}
        BY <1>2, BooksAre DEF Kinds
    <2>3. Proper(r)
        BY <1>2, <2>2, RequestIsProper
    <2> QED
        BY <2>1, <2>3
<1>3. ASSUME NEW kind \in {"facts", "wait", "keys", "pip"},
             NEW b \in {<<Waiting>>, <<PushKeys>>, << <<Task("setup")>> >>, << <<Task("find")>> >>},
             kind = "keys" => b = <<PushKeys>>, kind = "wait" => b = <<Waiting>>,
             kind = "pip" => b = << <<Task("find")>> >>, CallAll(kind, b, FALSE, FALSE)
      PROVE  \E r : Proper(r) /\ Call(r)
    <2> DEFINE r == Request(kind, Machines, b, FALSE, FALSE, FALSE)
    <2>1. Call(r)
        BY <1>3 DEF CallAll
    <2>2. Proper(r)
        BY <1>3, RequestIsProper, BooksAre DEF Kinds
    <2> QED
        BY <2>1, <2>2
<1> QED
    BY <1>1, <1>2, <1>3 DEF ClientCalls
-----------------------------------------------------------------------------
(* What a task does to the playbook and its records *)

Result == [done : [Machines -> Nat], first : Machines \cup {Nobody}]

LEMMA RecordDoes ==
    ASSUME AnsTyped, NEW m \in Machines, NEW status, Record(m, status)
    PROVE  /\ results' \in Result /\ results'.first \in {results.first, m}
           /\ \A n \in Machines \ {m} : results'.done[n] = results.done[n]
           /\ results'.done[m] = results.done[m]
                                 + (IF status \in {"OK", "SKIPPED"} THEN 1 ELSE 0)
<1> DEFINE d == [results.done EXCEPT ![m] = IF status \in {"OK", "SKIPPED"} THEN @ + 1 ELSE @]
           f == IF results.first = Nobody THEN m ELSE results.first
<1>1. results.done \in [Machines -> Nat] /\ results.first \in Machines \cup {Nobody}
    BY DEF AnsTyped
<1>2. /\ d \in [Machines -> Nat]
      /\ \A n \in Machines \ {m} : d[n] = results.done[n]
      /\ d[m] = results.done[m] + (IF status \in {"OK", "SKIPPED"} THEN 1 ELSE 0)
    BY <1>1
<1>3. f \in {results.first, m} /\ f \in Machines \cup {Nobody}
    BY <1>1
<1>4. results' = [done |-> d, first |-> f]
    BY DEF Record
<1> HIDE DEF d, f
<1> QED
    BY <1>2, <1>3, <1>4 DEF Result

\* The host leaves the play.
Drops(m) ==
    /\ book' \in ABook /\ book'.on = book.on /\ book'.tasks = book.tasks /\ book'.pos = book.pos
    /\ book'.alive = book.alive \ {m}
    /\ book'.failed # {} \/ book'.unreachable # {}

\* The host goes to the next task.
Advances(m) ==
    /\ book' \in ABook /\ book'.on = book.on /\ book'.tasks = book.tasks
    /\ book'.alive = book.alive /\ book'.failed = book.failed
    /\ book'.unreachable = book.unreachable
    /\ \A n \in Machines \ {m} : book'.pos[n] = book.pos[n]
    /\ book'.pos[m] = book.pos[m] + 1

LEMMA DropDoes ==
    ASSUME AnsTyped, NEW m \in Machines,
           \/ book' = [book EXCEPT !.alive = @ \ {m}, !.unreachable = @ \cup {m}]
           \/ book' = [book EXCEPT !.alive = @ \ {m}, !.failed = @ \cup {m}]
    PROVE  Drops(m)
<1>1. book \in ABook
    BY DEF AnsTyped
<1>2. /\ book' \in ABook /\ book'.on = book.on /\ book'.tasks = book.tasks
      /\ book'.pos = book.pos /\ book'.alive = book.alive \ {m}
    BY <1>1, ZenonT(40) DEF ABook
<1>3. m \in book'.failed \/ m \in book'.unreachable
    BY <1>1 DEF ABook
<1> QED
    BY <1>2, <1>3 DEF Drops

LEMMA AdvanceDoes ==
    ASSUME AnsTyped, NEW m \in Machines, book' = [book EXCEPT !.pos[m] = @ + 1]
    PROVE  Advances(m)
<1> DEFINE p == [book.pos EXCEPT ![m] = @ + 1]
<1>1. /\ p \in [Machines -> Nat] /\ p[m] = book.pos[m] + 1
      /\ \A n \in Machines \ {m} : p[n] = book.pos[n]
    BY DEF AnsTyped, ABook
<1>2. book' = [book EXCEPT !.pos = p]
    OBVIOUS
<1> HIDE DEF p
<1> QED
    BY <1>1, <1>2 DEF AnsTyped, ABook, Advances

\* The types that steps rely on.
LEMMA TypesAre ==
    ASSUME AnsTyped, Asked
    PROVE  /\ call.hosts \in SUBSET Machines /\ call.books \in Seq(APlay)
           /\ book.tasks \in APlay /\ Len(book.tasks) \in Nat
           /\ DOMAIN book.tasks = 1..Len(book.tasks)
           /\ \A i \in 1..Len(book.tasks) : book.tasks[i] \in ATask
           /\ \A n \in Machines : book.pos[n] \in Nat /\ results.done[n] \in Nat
           /\ Len(call.books) \in Nat /\ Tasks \in Nat
           /\ book.on => Before \in Nat /\ Before + Len(book.tasks) <= Tasks
<1>1. /\ call.hosts \in SUBSET Machines /\ call.books \in Seq(APlay) /\ book.tasks \in APlay
      /\ \A n \in Machines : book.pos[n] \in Nat /\ results.done[n] \in Nat
    BY DEF AnsTyped, ACall, ABook
<1>2. /\ Len(book.tasks) \in Nat /\ DOMAIN book.tasks = 1..Len(book.tasks)
      /\ \A i \in 1..Len(book.tasks) : book.tasks[i] \in ATask
    BY <1>1, LenProperties, ElementOfSeq DEF APlay
<1>3. Len(call.books) \in Nat
    BY <1>1, LenProperties
<1>4. Tasks \in Nat
    BY <1>1, <1>3, SlotsFinite DEF Tasks
<1>5. ASSUME book.on
      PROVE  Before \in Nat /\ Before + Len(book.tasks) <= Tasks
    <2>1. call.at \in 1..Len(call.books) /\ book.tasks = call.books[call.at]
        BY <1>5 DEF Asked
    <2>2. call.at - 1 \in 0..Len(call.books) /\ call.at \in 0..Len(call.books)
        BY <1>3, <2>1
    <2>3. Cardinality(Slots(call.books, call.at)) = Before + Len(book.tasks)
        BY <1>1, <2>1, SlotsNext DEF Before
    <2>4. Cardinality(Slots(call.books, call.at)) <= Tasks
        BY <1>1, <2>2, SlotsGrow DEF Tasks
    <2>5. Before \in Nat
        BY <1>1, <2>2, SlotsFinite DEF Before
    <2> QED
        BY <2>3, <2>4, <2>5
<1> QED
    BY <1>1, <1>2, <1>3, <1>4, <1>5

\* Before the end of a call nothing is promised.
LEMMA NothingYet ==
    ASSUME call'.st = "running"
    PROVE  SuccessMeansEverywhere' /\ MarkersComeBack' /\ SyncedTogether'
    BY DEF SuccessMeansEverywhere, MarkersComeBack, SyncedTogether, Ended, Running
-----------------------------------------------------------------------------
(* The steps of the executor keep the invariant *)

\* What a step of the executor on m leaves alone.
StepFrame == UNCHANGED <<up, boots, pair, known, copied, call, count>>

\* The parts of the invariant during a step of the executor.
LEMMA StepWhole ==
    ASSUME AnsIInv, StepFrame, book.on, book' \in ABook, book'.on = book.on,
           book'.tasks = book.tasks, results' \in Result,
           keys' \in [Machines -> AKeys], marker' \in SUBSET Machines,
           gathered' \in [Machines -> Counter],
           Followed', Pushed', Marked', Fresh'
    PROVE  AnsIInv'
<1>1. AnsTyped'
    BY DEF AnsIInv, AnsTyped, StepFrame, Result
<1>2. Asked'
    BY DEF AnsIInv, StepFrame, Asked, Plays, Tasks, Running
<1>3. call'.st = "running"
    BY DEF AnsIInv, StepFrame, Asked, Running
<1>4. SuccessMeansEverywhere' /\ MarkersComeBack' /\ SyncedTogether'
    BY <1>3, NothingYet
<1> QED
    BY <1>1, <1>2, <1>4 DEF AnsIInv

LEMMA DropKeeps ==
    ASSUME AnsIInv, NEW m \in Machines, Turn(m), Drops(m), StepFrame,
           UNCHANGED <<keys, marker, gathered>>, results' \in Result,
           results'.first \in {results.first, m},
           \A n \in Machines : results'.done[n] = results.done[n]
    PROVE  AnsIInv'
<1>0. /\ AnsTyped /\ Asked /\ Followed /\ Pushed /\ Marked /\ Fresh
      /\ book.on /\ m \in book.alive /\ call' = call /\ boots' = boots /\ pair' = pair
      /\ known' = known
    BY DEF AnsIInv, Turn, StepFrame
<1>1. Followed'
    <2>1. m \in call.hosts /\ Before' = Before /\ Tasks' = Tasks
        BY <1>0 DEF Followed, Before, Tasks
    <2> QED
        BY <1>0, <2>1 DEF Followed, Drops
<1>2. Pushed' /\ Marked'
    BY <1>0 DEF Pushed, Marked, Drops, Running
<1>3. Fresh'
    BY <1>0 DEF Fresh, Drops, Running
<1>4. keys' \in [Machines -> AKeys] /\ marker' \in SUBSET Machines
      /\ gathered' \in [Machines -> Counter]
    BY <1>0 DEF AnsTyped
<1> QED
    BY <1>0, <1>1, <1>2, <1>3, <1>4, StepWhole DEF Drops

\* What a task that succeeds does is typed.
LEMMA EffectTyped ==
    ASSUME AnsTyped, NEW m \in Machines, NEW do, Effect(m, do)
    PROVE  /\ keys' \in [Machines -> AKeys] /\ marker' \in SUBSET Machines
           /\ gathered' \in [Machines -> Counter]
           /\ \A n \in Machines \ {m} : keys'[n] = keys[n] /\ gathered'[n] = gathered[n]
           /\ do = "private" => keys'[m].private = pair
           /\ do = "public" => keys'[m].public = pair /\ keys'[m].private = keys[m].private
           /\ do = "authorize" => /\ pair \in keys'[m].authorized
                                  /\ keys'[m].public = keys[m].public
                                  /\ keys'[m].private = keys[m].private
           /\ do \notin {"absent", "touch"} => marker' = marker
           /\ do = "touch" => marker' = marker \cup {m}
           /\ do = "setup" => gathered'[m] = boots[m]
<1>0. keys[m] \in AKeys /\ pair \in 0..MaxCalls /\ boots[m] \in Counter
    BY DEF AnsTyped
<1>1. /\ marker' \in SUBSET Machines
      /\ do \notin {"absent", "touch"} => marker' = marker
      /\ do = "touch" => marker' = marker \cup {m}
    BY DEF AnsTyped, Effect
<1>2. /\ gathered' \in [Machines -> Counter]
      /\ \A n \in Machines \ {m} : gathered'[n] = gathered[n]
      /\ do = "setup" => gathered'[m] = boots[m]
    BY <1>0 DEF AnsTyped, Effect
<1>3. PICK k \in AKeys :
         /\ keys' = [keys EXCEPT ![m] = k]
         /\ do = "private" => k.private = pair
         /\ do = "public" => k.public = pair /\ k.private = keys[m].private
         /\ do = "authorize" => /\ pair \in k.authorized
                                /\ k.public = keys[m].public /\ k.private = keys[m].private
    <2> DEFINE k1 == [keys[m] EXCEPT !.private = pair]
               k2 == [keys[m] EXCEPT !.public = pair]
               k3 == [keys[m] EXCEPT !.authorized = @ \cup {pair}]
    <2>1. /\ k1 \in AKeys /\ k1.private = pair
          /\ k2 \in AKeys /\ k2.public = pair /\ k2.private = keys[m].private
          /\ k3 \in AKeys /\ pair \in k3.authorized
          /\ k3.public = keys[m].public /\ k3.private = keys[m].private
        BY <1>0 DEF AKeys
    <2>2. keys' = CASE do = "private" -> [keys EXCEPT ![m] = k1]
                    [] do = "public" -> [keys EXCEPT ![m] = k2]
                    [] do = "authorize" -> [keys EXCEPT ![m] = k3]
                    [] OTHER -> keys
        BY DEF Effect
    <2>3. keys = [keys EXCEPT ![m] = keys[m]]
        BY DEF AnsTyped
    <2> HIDE DEF k1, k2, k3
    <2>4. CASE do = "private"
        BY <2>1, <2>2, <2>4
    <2>5. CASE do = "public"
        BY <2>1, <2>2, <2>5
    <2>6. CASE do = "authorize"
        BY <2>1, <2>2, <2>6
    <2>7. CASE do \notin {"private", "public", "authorize"}
        BY <1>0, <2>2, <2>3, <2>7
    <2> QED
        BY <2>4, <2>5, <2>6, <2>7
<1>4. /\ keys' \in [Machines -> AKeys] /\ keys'[m] = k
      /\ \A n \in Machines \ {m} : keys'[n] = keys[n]
    BY <1>3 DEF AnsTyped
<1> QED
    BY <1>1, <1>2, <1>3, <1>4

\* The tasks of the playbooks that leave something do not ignore errors.
LEMMA BookIs ==
    ASSUME AnsTyped, Asked, book.on
    PROVE  /\ call.kind = "keys" => book.tasks = PushKeys
           /\ call.kind = "pip" /\ call.stage = "find" => book.tasks = <<Task("find")>>
           /\ call.kind = "pip" /\ call.stage = "restore" => book.tasks = <<Task("touch")>>
           /\ call.kind = "sync" => \/ call.stage = "wait" /\ book.tasks = Waiting
                                    \/ call.stage = "facts" /\ book.tasks = Utils
           /\ call.kind # "sync" => \A i \in 1..Len(book.tasks) : book.tasks[i].do # "template"
<1>1. call.at \in 1..Len(call.books) /\ book.tasks = call.books[call.at]
    BY DEF Asked
<1>2. \A s : call.books = <<s>> => book.tasks = s
    BY <1>1
<1>3. call.kind # "sync" => \A i \in 1..Len(book.tasks) : book.tasks[i].do # "template"
    <2>1. DOMAIN call.books = 1..Len(call.books) /\ DOMAIN book.tasks = 1..Len(book.tasks)
        BY TypesAre, LenProperties
    <2> QED
        BY <1>1, <2>1 DEF Asked
<1> QED
    BY <1>2, <1>3 DEF Asked, Plays

LEMMA AdvanceKeeps ==
    ASSUME AnsIInv, NEW m \in Machines, Turn(m), Advances(m), StepFrame,
           Current(m).do # "template",
           \/ Effect(m, Current(m).do)
           \/ /\ UNCHANGED <<keys, marker, gathered>>
              /\ Current(m).ignore \/ Current(m).do = "shell",
           results' \in Result, results'.first \in {results.first, m},
           \A n \in Machines \ {m} : results'.done[n] = results.done[n],
           results'.done[m] = results.done[m] + 1
    PROVE  AnsIInv'
<1>0. /\ AnsTyped /\ Asked /\ Followed /\ Pushed /\ Marked /\ Fresh
      /\ book.on /\ m \in book.alive /\ call' = call /\ boots' = boots /\ pair' = pair
      /\ known' = known /\ Before' = Before /\ Tasks' = Tasks
    BY DEF AnsIInv, Turn, StepFrame, Before, Tasks
<1>1. /\ book.pos[m] \in Nat /\ book.pos[m] < Len(book.tasks) /\ Len(book.tasks) \in Nat
      /\ \A n \in Machines : book.pos[n] \in Nat /\ results.done[n] \in Nat
      /\ Before \in Nat /\ Running
    BY <1>0, TypesAre DEF Turn, Asked
<1>2. Followed'
    <2>1. m \in call.hosts
        BY <1>0 DEF Followed
    <2>2. ASSUME NEW n \in Machines
          PROVE  /\ book'.on => book'.pos[n] <= Len(book'.tasks)
                                /\ results'.done[n] <= Before' + book'.pos[n]
                 /\ book'.on /\ n \in book'.alive /\ call'.kind # "sync" /\ ~call'.continue =>
                       results'.done[n] = Before' + book'.pos[n]
                 /\ ~book'.on => results'.done[n] <= Tasks'
        <3>1. /\ results.done[n] <= Before + book.pos[n] /\ book.pos[n] <= Len(book.tasks)
              /\ n \in book.alive /\ call.kind # "sync" /\ ~call.continue =>
                    results.done[n] = Before + book.pos[n]
            BY <1>0 DEF Followed
        <3>2. /\ book'.tasks = book.tasks /\ book'.alive = book.alive /\ book'.on
              /\ book'.pos[n] = book.pos[n] + (IF n = m THEN 1 ELSE 0)
              /\ results'.done[n] = results.done[n] + (IF n = m THEN 1 ELSE 0)
            BY <1>0, <1>1 DEF Advances
        <3> QED
            BY <1>0, <1>1, <3>1, <3>2
    <2> QED
        BY <1>0, <2>1, <2>2 DEF Followed, Advances
<1>3. /\ keys' \in [Machines -> AKeys] /\ marker' \in SUBSET Machines
      /\ gathered' \in [Machines -> Counter]
      /\ \A n \in Machines \ {m} : keys'[n] = keys[n] /\ gathered'[n] = gathered[n]
    BY <1>0, EffectTyped DEF AnsTyped
<1>4. Pushed'
    <2> SUFFICES ASSUME call.kind = "keys", NEW n \in Machines
                 PROVE  /\ book'.pos[n] >= 1 => keys'[n].private = pair
                        /\ book'.pos[n] >= 2 => keys'[n].public = pair
                        /\ book'.pos[n] >= 3 => pair \in keys'[n].authorized
        BY <1>0 DEF Pushed
    <2>1. /\ book.pos[n] >= 1 => keys[n].private = pair
          /\ book.pos[n] >= 2 => keys[n].public = pair
          /\ book.pos[n] >= 3 => pair \in keys[n].authorized
        BY <1>0, <1>1 DEF Pushed
    <2>2. CASE n # m
        BY <1>3, <2>1, <2>2 DEF Advances
    <2>3. CASE n = m
        <3>1. book.tasks = PushKeys
            BY <1>0, BookIs
        <3>2. /\ book.pos[m] \in 0..2
              /\ book.pos[m] = 0 => Current(m) = Task("private")
              /\ book.pos[m] = 1 => Current(m) = Task("public")
              /\ book.pos[m] = 2 => Current(m) = Task("authorize")
            BY <1>1, <3>1 DEF Current, PushKeys
        <3>3. /\ book.pos[m] = 0 => Current(m).do = "private"
              /\ book.pos[m] = 1 => Current(m).do = "public"
              /\ book.pos[m] = 2 => Current(m).do = "authorize"
              /\ ~Current(m).ignore /\ Current(m).do # "shell"
            BY <3>2 DEF Task
        <3>4. Effect(m, Current(m).do)
            BY <3>3
        <3>5. /\ book.pos[m] = 0 => keys'[m].private = pair
              /\ book.pos[m] = 1 => keys'[m].public = pair /\ keys'[m].private = keys[m].private
              /\ book.pos[m] = 2 => /\ pair \in keys'[m].authorized
                                    /\ keys'[m].public = keys[m].public
                                    /\ keys'[m].private = keys[m].private
            BY <1>0, <3>3, <3>4, EffectTyped
        <3>6. book'.pos[m] = book.pos[m] + 1
            BY DEF Advances
        <3> QED
            BY <2>1, <2>3, <3>2, <3>5, <3>6
    <2> QED
        BY <2>2, <2>3
<1>5. Marked'
    <2> SUFFICES ASSUME call.kind = "pip"
                 PROVE  /\ call.stage = "find" => call.before \subseteq marker'
                        /\ call.stage = "allow" => call.markers
                        /\ call.stage = "body" /\ ~call.markers => call.before \subseteq marker'
                        /\ call.stage = "restore" =>
                              \A n \in Machines : book'.pos[n] >= 1 => n \in marker'
        BY <1>0 DEF Marked
    <2>0. call.stage = "allow" => call.markers
        BY <1>0, <1>1 DEF Marked
    <2>1. call.stage # "body"
        BY <1>0 DEF Asked, Plays
    <2>2. CASE call.stage = "find"
        <3>1. book.tasks = <<Task("find")>>
            BY <1>0, <2>2, BookIs
        <3>2. Current(m) = Task("find")
            BY <1>1, <3>1 DEF Current
        <3>3. Current(m).do = "find"
            BY <3>2 DEF Task
        <3>4. marker' = marker
            BY <1>0, <3>3, EffectTyped
        <3> QED
            BY <1>0, <1>1, <2>2, <3>4 DEF Marked
    <2>3. CASE call.stage = "restore"
        <3>1. book.tasks = <<Task("touch")>>
            BY <1>0, <2>3, BookIs
        <3>2. Current(m) = Task("touch")
            BY <1>1, <3>1 DEF Current
        <3>3. Current(m).do = "touch" /\ ~Current(m).ignore
            BY <3>2 DEF Task
        <3>4. marker' = marker \cup {m}
            BY <1>0, <3>3, EffectTyped
        <3> QED
            BY <1>0, <1>1, <2>3, <3>4 DEF Marked, Advances
    <2> QED
        BY <2>0, <2>1, <2>2, <2>3
<1>6. Fresh'
    <2> SUFFICES ASSUME call.kind = "sync"
                 PROVE  call.stage = "facts" => \A n \in book'.alive :
                           book'.pos[n] >= 1 => gathered'[n] \in call.since[n]..boots[n]
        BY <1>0, <1>1 DEF Fresh
    <2>1. \A n \in Machines : call.since[n] \in Counter /\ boots[n] \in Counter
                              /\ call.since[n] <= boots[n]
        BY <1>0, <1>1 DEF AnsTyped, ACall, Fresh
    <2> SUFFICES ASSUME call.stage = "facts", NEW n \in book'.alive, book'.pos[n] >= 1
                 PROVE  gathered'[n] \in call.since[n]..boots[n]
        OBVIOUS
    <2>2. n \in book.alive /\ n \in Machines
        BY <1>0 DEF Advances, AnsTyped, ABook
    <2>3. CASE n # m
        BY <1>0, <1>1, <1>3, <2>2, <2>3 DEF Fresh, Advances
    <2>4. CASE n = m
        <3>1. book.tasks = <<Task("setup"), Task("template")>>
            BY <1>0, BookIs DEF Utils
        <3>2. Current(m) \in {Task("setup"), Task("template")}
            BY <1>1, <3>1 DEF Current
        <3>3. Current(m) = Task("setup")
            BY <3>2 DEF Task
        <3>4. Current(m).do = "setup" /\ ~Current(m).ignore
            BY <3>3 DEF Task
        <3>5. gathered'[m] = boots[m]
            BY <1>0, <3>4, EffectTyped
        <3> QED
            BY <2>1, <2>4, <3>5, AnsibleAssumption DEF Counter
    <2> QED
        BY <2>3, <2>4
<1> QED
    BY <1>0, <1>2, <1>3, <1>4, <1>5, <1>6, StepWhole DEF Advances
\* The template is the last task of sync_info, run once for all hosts when each
\* has gathered its facts.
LEMMA TemplateKeeps ==
    ASSUME AnsIInv, NEW m \in Machines, Template(m)
    PROVE  AnsIInv'
<1>0. /\ AnsTyped /\ Asked /\ Followed /\ Pushed /\ Marked /\ Fresh
      /\ book.on /\ m \in book.alive /\ call' = call /\ boots' = boots /\ known' = known
      /\ Before' = Before /\ Tasks' = Tasks /\ StepFrame /\ m \in call.hosts
    BY DEF AnsIInv, Turn, Template, StepFrame, Before, Tasks, Followed
<1>1. /\ book.pos[m] \in Nat /\ book.pos[m] < Len(book.tasks) /\ Len(book.tasks) \in Nat
      /\ \A n \in Machines : book.pos[n] \in Nat /\ results.done[n] \in Nat
      /\ Before \in Nat /\ Running
    BY <1>0, TypesAre DEF Turn, Asked, Template
<1>2. call.kind = "sync" /\ call.stage = "facts" /\ book.tasks = <<Task("setup"), Task("template")>>
    <2>1. Current(m).do = "template" /\ Current(m) = book.tasks[book.pos[m] + 1]
        BY DEF Template, Current
    <2>2. call.kind = "sync"
        BY <1>0, <1>1, <2>1, BookIs
    <2>3. book.tasks # Waiting
        <3>1. ASSUME book.tasks = <<Task("raw")>>
              PROVE  Current(m) = Task("raw")
            BY <1>1, <2>1, <3>1
        <3> QED
            BY <2>1, <3>1 DEF Waiting, Task
    <2> QED
        BY <1>0, <2>2, <2>3, BookIs DEF Utils
<1>3. /\ Len(book.tasks) = 2 /\ book.pos[m] = 1
      /\ \A n \in book.alive : book.pos[n] >= 1
    <2>1. Len(book.tasks) = 2
        BY <1>2
    <2>2. book.pos[m] # 0
        <3>1. book.pos[m] = 0 => Current(m) = Task("setup")
            BY <1>2 DEF Current
        <3> QED
            BY <3>1 DEF Template, Task
    <2>3. book.pos[m] = 1
        BY <1>1, <2>1, <2>2
    <2>4. ~call.free
        BY <1>0, <1>2 DEF Asked
    <2> QED
        BY <2>1, <2>3, <2>4 DEF Template, Turn
<1>4. PICK status \in {"OK", "FAILED"} :
         /\ Record(m, status)
         /\ status = "OK" => book' = [book EXCEPT !.pos = [n \in Machines |-> Len(book.tasks)]]
         /\ status = "FAILED" => book' = [book EXCEPT !.alive = {}, !.failed = @ \cup {m}]
    BY DEF Template
<1>5. /\ results' \in Result /\ results'.first \in {results.first, m}
      /\ \A n \in Machines \ {m} : results'.done[n] = results.done[n]
      /\ results'.done[m] = results.done[m] + (IF status = "OK" THEN 1 ELSE 0)
    BY <1>0, <1>4, RecordDoes
<1>6. /\ book' \in ABook /\ book'.on = book.on /\ book'.tasks = book.tasks
      /\ status = "OK" => /\ \A n \in Machines : book'.pos[n] = 2
                          /\ book'.alive = book.alive /\ book'.failed = book.failed
                          /\ book'.unreachable = book.unreachable
      /\ status = "FAILED" => /\ book'.pos = book.pos /\ book'.alive = {}
                              /\ m \in book'.failed
    <2> DEFINE p == [n \in Machines |-> Len(book.tasks)]
    <2>1. book \in ABook /\ p \in [Machines -> Nat] /\ \A n \in Machines : p[n] = 2
        BY <1>0, <1>1, <1>3 DEF AnsTyped
    <2>2. CASE status = "OK"
        <3>1. book' = [book EXCEPT !.pos = p]
            BY <1>4, <2>2
        <3> HIDE DEF p
        <3> QED
            BY <2>1, <2>2, <3>1 DEF ABook
    <2>3. CASE status = "FAILED"
        <3>1. book' = [book EXCEPT !.alive = {}, !.failed = @ \cup {m}]
            BY <1>4, <2>3
        <3> QED
            BY <2>1, <2>3, <3>1 DEF ABook
    <2> QED
        BY <2>2, <2>3
<1>7. Followed'
    <2>1. ASSUME NEW n \in Machines
          PROVE  book'.pos[n] <= 2 /\ results'.done[n] <= Before + book'.pos[n]
        <3>1. results.done[n] <= Before + book.pos[n] /\ book.pos[n] <= 2
            BY <1>0, <1>3 DEF Followed
        <3> QED
            BY <1>1, <1>3, <1>5, <1>6, <3>1
    <2> QED
        BY <1>0, <1>2, <1>3, <1>5, <1>6, <2>1 DEF Followed
<1>8. Pushed' /\ Marked'
    BY <1>0, <1>2 DEF Pushed, Marked
<1>9. Fresh'
    <2>1. gathered' = gathered
        BY DEF Template
    <2> QED
        BY <1>0, <1>1, <1>2, <1>3, <1>6, <2>1 DEF Fresh
<1>10. keys' \in [Machines -> AKeys] /\ marker' \in SUBSET Machines
       /\ gathered' \in [Machines -> Counter]
    BY <1>0 DEF AnsTyped, Template
<1> QED
    BY <1>0, <1>5, <1>6, <1>7, <1>8, <1>9, <1>10, StepWhole

LEMMA StepsKeep ==
    ASSUME AnsIInv, NEW m \in Machines,
           Unreachable(m) \/ TaskFails(m) \/ TaskSucceeds(m) \/ TaskSkipped(m) \/ Template(m)
    PROVE  AnsIInv'
<1>0. AnsTyped
    BY DEF AnsIInv
<1>1. CASE Unreachable(m)
    <2>1. Record(m, "UNREACHABLE") /\ Drops(m)
        BY <1>0, <1>1, DropDoes DEF Unreachable
    <2> QED
        BY <1>0, <1>1, <2>1, RecordDoes, DropKeeps DEF Unreachable, StepFrame, AnsTyped
<1>2. CASE TaskFails(m) /\ ~Current(m).ignore
    <2>1. Record(m, "FAILED") /\ Drops(m)
        BY <1>0, <1>2, DropDoes DEF TaskFails
    <2> QED
        BY <1>0, <1>2, <2>1, RecordDoes, DropKeeps DEF TaskFails, StepFrame, AnsTyped
<1>3. CASE TaskFails(m) /\ Current(m).ignore
    <2>1. Record(m, "OK") /\ Advances(m)
        BY <1>0, <1>3, AdvanceDoes DEF TaskFails
    <2> QED
        BY <1>0, <1>3, <2>1, RecordDoes, AdvanceKeeps DEF TaskFails, StepFrame
<1>4. CASE TaskSucceeds(m)
    <2>1. Record(m, "OK") /\ Advances(m)
        BY <1>0, <1>4, AdvanceDoes DEF TaskSucceeds
    <2> QED
        BY <1>0, <1>4, <2>1, RecordDoes, AdvanceKeeps DEF TaskSucceeds, StepFrame
<1>5. CASE TaskSkipped(m)
    <2>1. Record(m, "SKIPPED") /\ Advances(m) /\ Current(m).do = "shell"
        BY <1>0, <1>5, AdvanceDoes DEF TaskSkipped
    <2> QED
        BY <1>0, <1>5, <2>1, RecordDoes, AdvanceKeeps DEF TaskSkipped, StepFrame
<1> QED
    BY <1>1, <1>2, <1>3, <1>4, <1>5, TemplateKeeps

-----------------------------------------------------------------------------
(* The machines *)

LEMMA MachinesKeep ==
    ASSUME AnsIInv, NEW m \in Machines, Boot(m) \/ Reboot(m)
    PROVE  AnsIInv'
<1>0. /\ AnsTyped /\ Asked /\ Followed /\ Pushed /\ Marked /\ Fresh /\ Running
      /\ UNCHANGED <<keys, pair, marker, known, copied, gathered, call, book, results, count>>
    BY DEF AnsIInv, Boot, Reboot
<1>1. /\ up' \in SUBSET Machines /\ boots' \in [Machines -> Counter]
      /\ \A n \in Machines : boots[n] <= boots'[n]
    <2>1. \A n \in Machines : boots[n] \in Counter /\ boots[n] \in Nat
        BY <1>0, AnsibleAssumption DEF AnsTyped, Counter
    <2>2. CASE Boot(m)
        BY <1>0, <2>1, <2>2 DEF Boot, AnsTyped
    <2>3. CASE Reboot(m)
        <3>1. boots[m] + 1 \in Counter
            BY <1>0, <2>3, RebootsBounded DEF Reboot, AnsTyped
        <3> QED
            BY <1>0, <2>1, <2>3, <3>1 DEF Reboot, AnsTyped
    <2> QED
        BY <2>2, <2>3
<1>2. AnsTyped'
    BY <1>0, <1>1 DEF AnsTyped
<1>3. Asked' /\ Followed' /\ Pushed' /\ Marked'
    BY <1>0 DEF Asked, Plays, Followed, Pushed, Marked, Before, Tasks, Running
<1>4. Fresh'
    <2>1. \A n \in Machines : call.since[n] \in Nat /\ boots[n] \in Nat /\ boots'[n] \in Nat
                              /\ gathered[n] \in Nat
        BY <1>0, <1>1, AnsibleAssumption DEF AnsTyped, ACall, Counter
    <2>2. book.alive \subseteq Machines
        BY <1>0 DEF AnsTyped, ABook
    <2>3. ASSUME call.kind = "sync", NEW n \in Machines, call.since[n] <= boots[n]
          PROVE  /\ call.since[n] <= boots'[n]
                 /\ gathered[n] \in call.since[n]..boots[n] => gathered[n] \in call.since[n]..boots'[n]
        BY <1>1, <2>1, <2>3
    <2> QED
        BY <1>0, <2>2, <2>3 DEF Fresh
<1>5. SuccessMeansEverywhere' /\ MarkersComeBack' /\ SyncedTogether'
    BY <1>0, NothingYet DEF Running
<1> QED
    BY <1>2, <1>3, <1>4, <1>5 DEF AnsIInv
-----------------------------------------------------------------------------
(* What a call finds when a playbook is over *)

LEMMA OverMeans ==
    ASSUME AnsIInv, Running, BookOver
    PROVE  /\ call.at \in 1..Len(call.books) /\ Before \in Nat /\ Len(book.tasks) \in Nat
           /\ Before + Len(book.tasks) = Cardinality(Slots(call.books, call.at))
           /\ ~MoreBooks => Before + Len(book.tasks) = Tasks
           /\ \A m \in Machines : results.done[m] <= Before + Len(book.tasks)
           /\ Verdict = "ok" /\ ~call.continue =>
                 /\ book.alive = call.hosts
                 /\ \A m \in call.hosts :
                       /\ book.pos[m] = Len(book.tasks)
                       /\ call.kind # "sync" => results.done[m] = Before + Len(book.tasks)
<1>0. AnsTyped /\ Asked /\ Followed /\ book.on
    BY DEF AnsIInv, BookOver
<1>1. /\ call.at \in 1..Len(call.books) /\ Before \in Nat /\ Len(book.tasks) \in Nat
      /\ Len(call.books) \in Nat /\ call.books \in Seq(APlay)
      /\ \A m \in Machines : book.pos[m] \in Nat /\ results.done[m] \in Nat
    BY <1>0, TypesAre DEF Asked
<1>2. Before + Len(book.tasks) = Cardinality(Slots(call.books, call.at))
    BY <1>0, <1>1, SlotsNext DEF Asked, Before
<1>3. ~MoreBooks => Before + Len(book.tasks) = Tasks
    BY <1>1, <1>2 DEF MoreBooks, Tasks
<1>4. \A m \in Machines : results.done[m] <= Before + Len(book.tasks)
    BY <1>0, <1>1 DEF Followed
<1>5. ASSUME Verdict = "ok", ~call.continue
      PROVE  /\ book.alive = call.hosts
             /\ \A m \in call.hosts :
                   /\ book.pos[m] = Len(book.tasks)
                   /\ call.kind # "sync" => results.done[m] = Before + Len(book.tasks)
    <2>1. book.failed = {} /\ book.unreachable = {}
        BY <1>5 DEF Verdict
    <2>2. book.alive = call.hosts /\ call.hosts \subseteq Machines
        BY <1>0, <2>1 DEF Followed, AnsTyped, ACall
    <2>3. \A m \in call.hosts : book.pos[m] = Len(book.tasks)
        BY <2>2 DEF BookOver
    <2> QED
        BY <1>0, <1>5, <2>2, <2>3 DEF Followed
<1> QED
    BY <1>1, <1>2, <1>3, <1>4, <1>5

\* The call is over: what its end promises is left to show.
LEMMA EndKeeps ==
    ASSUME AnsIInv, Running, NEW st \in Outcomes, End(st),
           UNCHANGED worldVars,
           known' \in [Machines -> Counter], copied' \in [Machines -> Counter],
           SuccessMeansEverywhere', MarkersComeBack', SyncedTogether'
    PROVE  AnsIInv'
<1>0. AnsTyped /\ Asked /\ Followed
    BY DEF AnsIInv
<1>1. /\ call' \in ACall /\ call'.st = st
      /\ call'.kind = call.kind /\ call'.hosts = call.hosts /\ call'.books = call.books
      /\ call'.continue = call.continue /\ call'.free = call.free /\ call'.stage = call.stage
      /\ call'.at = call.at /\ call'.before = call.before /\ call'.markers = call.markers
    <2>1. call \in ACall /\ call' = [call EXCEPT !.st = st]
        BY <1>0 DEF AnsTyped, End
    <2> QED
        BY <2>1 DEF ACall
<1>2. /\ book' \in ABook /\ ~book'.on /\ book'.alive = {} /\ results' = results
      /\ UNCHANGED <<up, boots, keys, pair, marker, gathered, count>>
    <2>1. [m \in Machines |-> 0] \in [Machines -> Nat] /\ <<>> \in APlay
        BY EmptySeq DEF APlay
    <2> QED
        BY <2>1 DEF End, NoBook, ABook, worldVars
<1>3. AnsTyped'
    BY <1>0, <1>1, <1>2 DEF AnsTyped
<1>4. st # "running" /\ ~Running'
    BY <1>1 DEF Outcomes, Running
<1>5. Asked'
    BY <1>0, <1>1, <1>2, <1>4 DEF Asked, Plays, Running
<1>6. Followed'
    <2>1. Tasks' = Tasks
        BY <1>1 DEF Tasks
    <2>2. \A m \in Machines : results.done[m] <= Tasks
        BY <1>0, TypesAre DEF Followed
    <2> QED
        BY <1>0, <1>1, <1>2, <2>1, <2>2 DEF Followed
<1>7. Pushed' /\ Marked' /\ Fresh'
    BY <1>4 DEF Pushed, Marked, Fresh
<1> QED
    BY <1>3, <1>5, <1>6, <1>7 DEF AnsIInv

\* What the end of a call leaves alone.
LEMMA EndIs ==
    ASSUME AnsTyped, NEW st, End(st), UNCHANGED worldVars
    PROVE  /\ call'.st = st /\ call'.kind = call.kind /\ call'.continue = call.continue
           /\ call'.hosts = call.hosts /\ call'.books = call.books
           /\ call'.before = call.before /\ call'.since = call.since /\ call'.was = call.was
           /\ call'.inplace = call.inplace
           /\ results' = results /\ keys' = keys /\ pair' = pair /\ marker' = marker
           /\ boots' = boots /\ gathered' = gathered
<1>1. call \in ACall /\ call' = [call EXCEPT !.st = st]
    BY DEF AnsTyped, End
<1>2. /\ call'.st = st /\ call'.kind = call.kind /\ call'.continue = call.continue
      /\ call'.hosts = call.hosts /\ call'.books = call.books
      /\ call'.before = call.before /\ call'.since = call.since /\ call'.was = call.was
      /\ call'.inplace = call.inplace
    BY <1>1 DEF ACall
<1> QED
    BY <1>2 DEF End, worldVars

\* A call that raises because of its machines promises only not to have touched
\* the hosts of the client.
LEMMA FailKeeps ==
    ASSUME AnsIInv, Running, NEW st \in {"failed", "unreachable", "notready"}, End(st),
           UNCHANGED worldVars, UNCHANGED <<known, copied>>
    PROVE  AnsIInv'
<1>1. AnsTyped /\ Fresh
    BY DEF AnsIInv
<1>2. /\ call'.st = st /\ call'.kind = call.kind /\ call'.was = call.was
      /\ known' = known /\ copied' = copied
    BY <1>1, EndIs
<1>3. SuccessMeansEverywhere' /\ MarkersComeBack'
    BY <1>2 DEF SuccessMeansEverywhere, MarkersComeBack
<1>4. SyncedTogether'
    BY <1>1, <1>2 DEF SyncedTogether, Ended, Fresh
<1>5. st \in Outcomes /\ known' \in [Machines -> Counter] /\ copied' \in [Machines -> Counter]
    BY <1>1, <1>2 DEF Outcomes, AnsTyped
<1> QED
    BY <1>3, <1>4, <1>5, EndKeeps

\* A call with one list of playbooks returns: each host has one record of success
\* per task.
LEMMA DoneEverywhere ==
    ASSUME AnsIInv, Returned("ok"), ~call.continue, call.kind # "sync", NEW m \in call.hosts
    PROVE  m \in Machines /\ book.pos[m] = Len(book.tasks) /\ results.done[m] = Tasks
<1>1. Running /\ BookOver /\ Verdict = "ok" /\ ~MoreBooks
    BY DEF Returned
<1>2. m \in Machines
    BY DEF AnsIInv, AnsTyped, ACall
<1>3. /\ Before + Len(book.tasks) = Tasks
      /\ book.pos[m] = Len(book.tasks) /\ results.done[m] = Before + Len(book.tasks)
    BY <1>1, OverMeans
<1> QED
    BY <1>2, <1>3

LEMMA CallEndsKeeps ==
    ASSUME AnsIInv, CallEnds
    PROVE  AnsIInv'
<1>1. PICK outcome \in {"ok", "failed", "unreachable"} : Returned(outcome) /\ End(outcome)
    BY DEF CallEnds
<1>2. Running /\ call.stage = "run" /\ UNCHANGED worldVars /\ UNCHANGED <<known, copied>>
    BY <1>1 DEF Returned, CallEnds
<1>3. AnsTyped /\ Asked /\ Pushed /\ book.on
    BY <1>1 DEF AnsIInv, BookOver, Returned
<1>4. CASE outcome # "ok"
    BY <1>1, <1>2, <1>4, FailKeeps
<1>5. CASE outcome = "ok"
    <2>1. /\ call'.st = "ok" /\ call'.kind = call.kind /\ call'.continue = call.continue
          /\ call'.hosts = call.hosts /\ call'.books = call.books /\ results' = results
          /\ keys' = keys /\ pair' = pair
        BY <1>1, <1>2, <1>3, <1>5, EndIs
    <2>2. call.kind \notin {"wait", "sync", "pip"}
        BY <1>2, <1>3 DEF Asked, Plays
    <2>3. SuccessMeansEverywhere'
        <3>0. Returned("ok")
            BY <1>1, <1>5
        <3> SUFFICES ASSUME ~call.continue, NEW m \in call.hosts
                     PROVE  /\ results.done[m] = Tasks
                            /\ call.kind = "keys" => /\ keys[m].private = pair
                                                     /\ keys[m].public = pair
                                                     /\ pair \in keys[m].authorized
            BY <2>1 DEF SuccessMeansEverywhere, Ended, Tasks
        <3>1. m \in Machines /\ book.pos[m] = Len(book.tasks) /\ results.done[m] = Tasks
            BY <2>2, <3>0, DoneEverywhere
        <3>2. call.kind = "keys" => book.pos[m] = 3
            <4>1. ASSUME call.kind = "keys" PROVE book.tasks = PushKeys
                BY <1>3, <4>1, BookIs
            <4>2. Len(PushKeys) = 3
                BY DEF PushKeys
            <4> QED
                BY <3>1, <4>1, <4>2
        <3>3. ASSUME call.kind = "keys"
              PROVE  keys[m].private = pair /\ keys[m].public = pair /\ pair \in keys[m].authorized
            <4>1. 3 >= 1 /\ 3 >= 2 /\ 3 >= 3
                OBVIOUS
            <4>2. /\ book.pos[m] >= 1 => keys[m].private = pair
                  /\ book.pos[m] >= 2 => keys[m].public = pair
                  /\ book.pos[m] >= 3 => pair \in keys[m].authorized
                BY <1>2, <1>3, <3>1, <3>3 DEF Pushed
            <4> QED
                BY <3>2, <3>3, <4>1, <4>2
        <3> QED
            BY <3>1, <3>3
    <2>4. MarkersComeBack' /\ SyncedTogether'
        BY <2>1, <2>2 DEF MarkersComeBack, SyncedTogether, Ended
    <2>5. /\ "ok" \in Outcomes /\ known' \in [Machines -> Counter]
          /\ copied' \in [Machines -> Counter]
        BY <1>2, <1>3 DEF AnsTyped, Outcomes
    <2> QED
        BY <1>1, <1>2, <1>5, <2>3, <2>4, <2>5, EndKeeps
<1> QED
    BY <1>4, <1>5
-----------------------------------------------------------------------------
(* A call starts, or runs playbooks again *)

WorldTyped ==
    /\ up \in SUBSET Machines
    /\ boots \in [Machines -> Counter]
    /\ keys \in [Machines -> AKeys]
    /\ pair \in 0..MaxCalls
    /\ marker \in SUBSET Machines
    /\ known \in [Machines -> Counter]
    /\ copied \in [Machines -> Counter]
    /\ gathered \in [Machines -> Counter]
    /\ count \in 0..MaxCalls

\* A playbook has just been started.
LEMMA StartIs ==
    ASSUME NEW hosts \in SUBSET Machines, NEW todo \in APlay, book' = Start(hosts, todo)
    PROVE  /\ book' \in ABook /\ book'.on /\ book'.tasks = todo /\ book'.alive = hosts
           /\ \A m \in Machines : book'.pos[m] = 0
<1>1. [m \in Machines |-> 0] \in [Machines -> Nat]
    OBVIOUS
<1> QED
    BY <1>1 DEF Start, ABook

LEMMA NoResultIs ==
    ASSUME results' = NoResult
    PROVE  /\ results' \in Result /\ results'.first = Nobody
           /\ \A m \in Machines : results'.done[m] = 0
<1>1. [m \in Machines |-> 0] \in [Machines -> Nat]
    OBVIOUS
<1> QED
    BY <1>1 DEF NoResult, Result

LEMMA StartKeeps ==
    ASSUME NEW r \in ACall, call' = r, r.at = 1, r.st = "running", Len(r.books) >= 1,
           book' = Start(r.hosts, r.books[1]), results' = NoResult, WorldTyped',
           Plays', r.kind # "none", r.stage # "body",
           r.kind \in {"wait", "sync", "keys", "pip"} => ~r.continue /\ ~r.free,
           r.kind # "sync" => \A b \in DOMAIN r.books : \A i \in DOMAIN r.books[b] :
                                 r.books[b][i].do # "template",
           r.before \subseteq r.hosts,
           r.kind = "sync" => known' = r.was /\ \A m \in Machines : r.since[m] <= boots'[m],
           r.kind = "pip" => /\ r.stage = "find" => r.before \subseteq marker'
                             /\ r.stage = "allow" => r.markers
    PROVE  AnsIInv'
<1>1. r.hosts \in SUBSET Machines /\ r.books \in Seq(APlay) /\ Len(r.books) \in Nat
    BY LenProperties DEF ACall
<1>2. r.books[1] \in APlay /\ 1 \in 1..Len(r.books)
    BY <1>1, ElementOfSeq
<1>3. /\ book' \in ABook /\ book'.on /\ book'.tasks = r.books[1] /\ book'.alive = r.hosts
      /\ \A m \in Machines : book'.pos[m] = 0
    BY <1>1, <1>2, StartIs
<1>4. /\ results' \in Result /\ results'.first = Nobody
      /\ \A m \in Machines : results'.done[m] = 0
    BY NoResultIs
<1>5. AnsTyped'
    BY <1>3, <1>4 DEF WorldTyped, AnsTyped, Result
<1>6. Running'
    BY DEF Running
<1>7. Asked'
    BY <1>2, <1>3, <1>6 DEF Asked
<1>8. Before' = 0
    BY SlotsNone DEF Before
<1>9. Followed'
    <2>1. Len(book'.tasks) \in Nat
        BY <1>2, <1>3, LenProperties DEF APlay
    <2>2. \A m \in Machines : 0 <= Len(book'.tasks) /\ results'.done[m] = Before' + book'.pos[m]
                              /\ results'.done[m] <= Before' + book'.pos[m]
        BY <1>3, <1>4, <1>8, <2>1
    <2> QED
        BY <1>3, <1>4, <2>2 DEF Followed
<1>10. Pushed' /\ Marked'
    <2>1. \A m \in Machines : ~(book'.pos[m] >= 1) /\ ~(book'.pos[m] >= 2) /\ ~(book'.pos[m] >= 3)
        BY <1>3
    <2> QED
        BY <2>1 DEF Pushed, Marked
<1>11. Fresh'
    <2>1. book'.alive \subseteq Machines
        BY <1>1, <1>3
    <2>2. \A m \in Machines : ~(book'.pos[m] >= 1)
        BY <1>3
    <2> QED
        BY <2>1, <2>2 DEF Fresh
<1>12. SuccessMeansEverywhere' /\ MarkersComeBack' /\ SyncedTogether'
    BY NothingYet
<1> QED
    BY <1>5, <1>7, <1>9, <1>10, <1>11, <1>12 DEF AnsIInv

LEMMA CallKeeps ==
    ASSUME AnsIInv, ClientCalls
    PROVE  AnsIInv'
<1>0. AnsTyped
    BY DEF AnsIInv
<1>1. PICK r : Proper(r) /\ Call(r)
    BY <1>0, ClientIsProper
<1>2. /\ call' = r /\ book' = Start(r.hosts, r.books[1]) /\ results' = NoResult
      /\ boots' = boots /\ marker' = marker /\ known' = known
    BY <1>1 DEF Call
<1>3. WorldTyped'
    <2>1. count' \in 0..MaxCalls /\ pair' \in 0..MaxCalls
        BY <1>0, <1>1, AnsibleAssumption DEF Call, AnsTyped
    <2>2. gathered' \in [Machines -> Counter]
        BY <1>1, AnsibleAssumption DEF Call, Counter
    <2> QED
        BY <1>0, <1>1, <2>1, <2>2 DEF Call, AnsTyped, WorldTyped
<1>4. Plays'
    BY <1>1, <1>2 DEF Proper, Plays
<1>5. r.stage # "body"
    BY <1>1 DEF Proper
<1>6. r.kind = "sync" => \A m \in Machines : r.since[m] <= boots'[m]
    <2>1. \A m \in Machines : boots[m] \in Nat
        BY <1>0, AnsibleAssumption DEF AnsTyped, Counter
    <2> QED
        BY <1>1, <1>2, <2>1 DEF Proper
<1>7. r.stage = "allow" => FALSE
    BY <1>1 DEF Proper
<1>8. r.kind = "pip" => r.before \subseteq marker'
    BY <1>1, <1>2 DEF Proper
<1> QED
    BY <1>1, <1>2, <1>3, <1>4, <1>5, <1>6, <1>7, <1>8, StartKeeps DEF Proper

\* wait_for, sync_info and external_pip_deps run their next playbook.
LEMMA RunKeeps ==
    ASSUME AnsIInv, Running, NEW next \in ACall, NEW todo \in APlay, Run(next, todo),
           UNCHANGED worldVars, UNCHANGED <<known, copied>>,
           next.kind = call.kind, next.hosts = call.hosts, next.continue = call.continue,
           next.free = call.free, next.at = call.at, next.before = call.before,
           next.since = call.since, next.was = call.was, next.st = call.st,
           next.stage = "allow" => next.markers,
           \/ next.kind \in {"wait", "sync"} /\ next.stage = "wait" /\ todo = Waiting
           \/ next.kind = "sync" /\ next.stage = "facts" /\ todo = Utils
           \/ next.kind = "pip" /\ next.stage = "allow" /\ todo = <<Task("absent")>>
           \/ next.kind = "pip" /\ next.stage = "restore" /\ todo = <<Task("touch")>>
    PROVE  AnsIInv'
<1>0. AnsTyped /\ Asked /\ Fresh
    BY DEF AnsIInv
<1> DEFINE r == [next EXCEPT !.books = <<todo>>]
<1>1. <<todo>> \in Seq(APlay) /\ Len(<<todo>>) = 1 /\ <<todo>>[1] = todo
    OBVIOUS
<1>2. /\ r \in ACall /\ r.books = <<todo>> /\ r.kind = next.kind /\ r.hosts = next.hosts
      /\ r.continue = next.continue /\ r.free = next.free /\ r.at = next.at
      /\ r.before = next.before /\ r.since = next.since /\ r.was = next.was /\ r.st = next.st
      /\ r.stage = next.stage /\ r.markers = next.markers
    BY <1>1 DEF ACall
<1>3. call' = r /\ book' = Start(call.hosts, todo) /\ results' = NoResult
    BY DEF Run
<1> HIDE DEF r
<1>4. r.kind \in {"wait", "sync", "pip"}
    BY <1>2
<1>5. ~r.continue /\ ~r.free /\ r.at = 1 /\ r.st = "running"
    BY <1>0, <1>2, <1>4 DEF Asked, Running
<1>6. WorldTyped'
    BY <1>0 DEF AnsTyped, WorldTyped, worldVars
<1>7. Plays'
    BY <1>2, <1>3 DEF Plays
<1>8. r.kind # "sync" => \A b \in DOMAIN r.books : \A i \in DOMAIN r.books[b] :
                            r.books[b][i].do # "template"
    BY <1>2, BooksAre
<1>9. r.before \subseteq r.hosts
    BY <1>0, <1>2 DEF Asked
<1>10. r.kind = "sync" => known' = r.was /\ \A m \in Machines : r.since[m] <= boots'[m]
    BY <1>0, <1>2 DEF Fresh, worldVars
<1>11. r.kind = "pip" => r.stage # "find" /\ (r.stage = "allow" => r.markers)
    BY <1>2
<1>12. r.stage # "body" /\ r.kind # "none"
    BY <1>2
<1>13. Len(r.books) >= 1 /\ book' = Start(r.hosts, r.books[1])
    BY <1>1, <1>2, <1>3
<1> QED
    BY <1>2, <1>3, <1>5, <1>6, <1>7, <1>8, <1>9, <1>10, <1>11, <1>12, <1>13, StartKeeps

\* The playbooks the operations run are playbooks.
LEMMA OperationsRun ==
    /\ Waiting \in APlay /\ Utils \in APlay
    /\ <<Task("absent")>> \in APlay /\ <<Task("touch")>> \in APlay
<1>1. \A do \in Dos : Task(do) \in ATask
    BY DEF Task, ATask
<1> QED
    BY <1>1 DEF Waiting, Utils, APlay, Dos
LEMMA WaitsKeep ==
    ASSUME AnsIInv, WaitRetry \/ WaitGivesUp \/ WaitFails \/ WaitEnds
    PROVE  AnsIInv'
<1>0. AnsTyped /\ Asked /\ UNCHANGED worldVars /\ UNCHANGED <<known, copied>> /\ Running
    BY DEF AnsIInv, WaitRetry, WaitGivesUp, WaitFails, WaitEnds, Returned
<1>1. call.stage = "wait" /\ call.kind \in {"wait", "sync"}
    BY <1>0 DEF Asked, Plays, WaitRetry, WaitGivesUp, WaitFails, WaitEnds
<1>2. CASE WaitGivesUp \/ WaitFails
    BY <1>0, <1>2, FailKeeps DEF WaitGivesUp, WaitFails
<1>3. CASE WaitRetry
    <2> DEFINE next == [call EXCEPT !.tries = @ + 1]
    <2>1. call.tries + 1 \in 0..(Retries - 1)
        BY <1>0, <1>3, AnsibleAssumption DEF WaitRetry, TriesLeft, AnsTyped, ACall
    <2>2. /\ next \in ACall /\ next.kind = call.kind /\ next.hosts = call.hosts
          /\ next.continue = call.continue /\ next.free = call.free /\ next.at = call.at
          /\ next.before = call.before /\ next.since = call.since /\ next.was = call.was
          /\ next.st = call.st /\ next.stage = call.stage
        BY <1>0, <2>1 DEF AnsTyped, ACall
    <2>3. Run(next, Waiting)
        BY <1>3 DEF WaitRetry
    <2> HIDE DEF next
    <2> QED
        BY <1>0, <1>1, <2>2, <2>3, OperationsRun, RunKeeps
<1>4. CASE WaitEnds /\ call.kind = "sync"
    <2> DEFINE next == [call EXCEPT !.stage = "facts"]
    <2>1. /\ next \in ACall /\ next.kind = call.kind /\ next.hosts = call.hosts
          /\ next.continue = call.continue /\ next.free = call.free /\ next.at = call.at
          /\ next.before = call.before /\ next.since = call.since /\ next.was = call.was
          /\ next.st = call.st /\ next.stage = "facts"
        BY <1>0 DEF AnsTyped, ACall, Stages
    <2>2. Run(next, Utils)
        BY <1>4 DEF WaitEnds
    <2> HIDE DEF next
    <2> QED
        BY <1>0, <1>4, <2>1, <2>2, OperationsRun, RunKeeps
<1>5. CASE WaitEnds /\ call.kind # "sync"
    <2>0. Returned("ok") /\ End("ok") /\ call.kind = "wait"
        BY <1>1, <1>5 DEF WaitEnds
    <2>1. /\ call'.st = "ok" /\ call'.kind = call.kind /\ call'.continue = call.continue
          /\ call'.hosts = call.hosts /\ call'.books = call.books /\ results' = results
        BY <1>0, <2>0, EndIs
    <2>2. ~call.continue
        BY <1>0, <2>0 DEF Asked
    <2>3. \A m \in call.hosts : results.done[m] = Tasks
        BY <2>0, <2>2, DoneEverywhere
    <2>4. SuccessMeansEverywhere' /\ MarkersComeBack' /\ SyncedTogether'
        BY <2>0, <2>1, <2>3 DEF SuccessMeansEverywhere, MarkersComeBack, SyncedTogether, Ended, Tasks
    <2>5. "ok" \in Outcomes /\ known' \in [Machines -> Counter] /\ copied' \in [Machines -> Counter]
        BY <1>0 DEF AnsTyped, Outcomes
    <2> QED
        BY <1>0, <2>0, <2>4, <2>5, EndKeeps
<1> QED
    BY <1>2, <1>3, <1>4, <1>5

LEMMA SyncsKeep ==
    ASSUME AnsIInv, SyncEnds \/ SyncFails
    PROVE  AnsIInv'
<1>0. AnsTyped /\ Asked /\ Fresh /\ UNCHANGED worldVars /\ Running /\ call.stage = "facts"
    BY DEF AnsIInv, SyncEnds, SyncFails, Returned
<1>1. CASE SyncFails
    BY <1>0, <1>1, FailKeeps DEF SyncFails
<1>2. CASE SyncEnds
    <2>0. /\ call.kind = "sync" /\ ~call.continue /\ Returned("ok") /\ End("ok") /\ Synced
          /\ book.on /\ BookOver /\ Verdict = "ok"
        BY <1>0, <1>2 DEF Asked, Plays, SyncEnds, Returned, BookOver
    <2>1. /\ call'.st = "ok" /\ call'.kind = "sync" /\ call'.hosts = call.hosts
          /\ call'.since = call.since /\ call'.was = call.was /\ call'.inplace = call.inplace
          /\ boots' = boots
        BY <1>0, <2>0, EndIs
    <2>2. ASSUME NEW m \in call.hosts
          PROVE  m \in Machines /\ gathered[m] \in call.since[m]..boots[m]
        <3>1. m \in book.alive /\ book.pos[m] = Len(book.tasks) /\ m \in Machines
            BY <1>0, <2>0, OverMeans DEF AnsTyped, ACall
        <3>2. book.tasks = Utils
            BY <1>0, <2>0, BookIs
        <3>3. Len(Utils) = 2 /\ 2 >= 1
            BY DEF Utils
        <3> QED
            BY <1>0, <2>0, <3>1, <3>2, <3>3 DEF Fresh
    <2>3. /\ FromFacts(known) \in [Machines -> Counter]
          /\ \A m \in call.hosts : FromFacts(known)[m] \in call.since[m]..boots[m]
        BY <1>0, <2>2 DEF FromFacts, AnsTyped
    <2>4. known' \in [Machines -> Counter] /\ copied' \in [Machines -> Counter]
        BY <1>0, <2>0, <2>3 DEF Synced, AnsTyped
    <2>5. SyncedTogether'
        <3>1. ~call.inplace => known' = call.was
            BY <1>0, <2>0 DEF Synced, Fresh
        <3>2. \A m \in call.hosts :
                 (IF call.inplace THEN known' ELSE copied')[m] \in call.since[m]..boots[m]
            BY <2>0, <2>3 DEF Synced
        <3> QED
            BY <2>1, <3>1, <3>2 DEF SyncedTogether
    <2>6. SuccessMeansEverywhere' /\ MarkersComeBack'
        BY <2>1 DEF SuccessMeansEverywhere, MarkersComeBack, Ended
    <2>7. "ok" \in Outcomes
        BY DEF Outcomes
    <2> QED
        BY <1>0, <2>0, <2>4, <2>5, <2>6, <2>7, EndKeeps
<1> QED
    BY <1>1, <1>2
\* The block of external_pip_deps starts.
LEMMA PipBodyKeeps ==
    ASSUME AnsIInv, Running, call.stage \in {"find", "allow"},
           call' = [call EXCEPT !.stage = "body"], book' = NoBook, results' = results,
           UNCHANGED worldVars, UNCHANGED <<known, copied>>
    PROVE  AnsIInv'
<1>0. AnsTyped /\ Asked /\ Followed /\ Marked
    BY DEF AnsIInv
<1>1. /\ call' \in ACall /\ call'.stage = "body" /\ call'.st = call.st
      /\ call'.kind = call.kind /\ call'.hosts = call.hosts /\ call'.books = call.books
      /\ call'.continue = call.continue /\ call'.free = call.free
      /\ call'.at = call.at /\ call'.before = call.before /\ call'.markers = call.markers
    BY <1>0 DEF AnsTyped, ACall, Stages
<1>2. /\ book' \in ABook /\ ~book'.on /\ book'.alive = {} /\ \A m \in Machines : book'.pos[m] = 0
      /\ UNCHANGED <<up, boots, keys, pair, marker, known, copied, gathered, count>>
    <2>1. [m \in Machines |-> 0] \in [Machines -> Nat] /\ <<>> \in APlay
        BY EmptySeq DEF APlay
    <2> QED
        BY <2>1 DEF NoBook, ABook, worldVars
<1>3. call.kind = "pip"
    BY <1>0 DEF Asked, Plays
<1>4. AnsTyped'
    BY <1>0, <1>1, <1>2 DEF AnsTyped
<1>5. Asked'
    BY <1>0, <1>1, <1>2, <1>3 DEF Asked, Plays, Running
<1>6. Followed'
    <2>1. Tasks' = Tasks
        BY <1>1 DEF Tasks
    <2>2. \A m \in Machines : results.done[m] <= Tasks
        BY <1>0, TypesAre DEF Followed
    <2> QED
        BY <1>0, <1>1, <1>2, <2>1, <2>2 DEF Followed
<1>7. Pushed' /\ Marked' /\ Fresh'
    BY <1>0, <1>1, <1>2, <1>3 DEF Pushed, Marked, Fresh
<1>8. SuccessMeansEverywhere' /\ MarkersComeBack' /\ SyncedTogether'
    BY <1>1, NothingYet DEF Running
<1> QED
    BY <1>4, <1>5, <1>6, <1>7, <1>8 DEF AnsIInv

LEMMA PipsKeep ==
    ASSUME AnsIInv,
           PipFound \/ PipAllowed \/ PipRefused \/ PipRestored
           \/ \E body \in {"ok", "raised"} : PipBody(body)
    PROVE  AnsIInv'
<1>0. /\ AnsTyped /\ Asked /\ Marked /\ UNCHANGED worldVars /\ UNCHANGED <<known, copied>>
      /\ Running
    BY DEF AnsIInv, PipFound, PipAllowed, PipRefused, PipRestored, PipBody, Returned
<1>1. call.kind = "pip" /\ ~call.continue
    BY <1>0 DEF Asked, Plays, PipFound, PipAllowed, PipRefused, PipRestored, PipBody
<1>2. call \in ACall
    BY <1>0 DEF AnsTyped
\* An end that keeps its promise.
<1>3. ASSUME NEW st \in {"ok", "raised"}, End(st), call.before \subseteq marker
      PROVE  AnsIInv'
    <2>1. /\ call'.kind = "pip" /\ call'.before = call.before /\ marker' = marker
        BY <1>0, <1>1, <1>3, EndIs
    <2>2. SuccessMeansEverywhere' /\ MarkersComeBack' /\ SyncedTogether'
        BY <1>3, <2>1 DEF SuccessMeansEverywhere, MarkersComeBack, SyncedTogether, Ended
    <2>3. st \in Outcomes /\ known' \in [Machines -> Counter] /\ copied' \in [Machines -> Counter]
        BY <1>0 DEF AnsTyped, Outcomes
    <2> QED
        BY <1>0, <1>3, <2>2, <2>3, EndKeeps
<1>4. CASE PipRefused
    BY <1>0, <1>4, FailKeeps DEF PipRefused
<1>5. CASE PipAllowed
    BY <1>0, <1>5, PipBodyKeeps DEF PipAllowed
<1>6. CASE PipFound /\ results.first \notin marker
    BY <1>0, <1>6, PipBodyKeeps DEF PipFound
<1>7. CASE PipFound /\ results.first \in marker
    <2> DEFINE next == [call EXCEPT !.stage = "allow", !.markers = TRUE]
    <2>1. /\ next \in ACall /\ next.kind = call.kind /\ next.hosts = call.hosts
          /\ next.continue = call.continue /\ next.free = call.free /\ next.at = call.at
          /\ next.before = call.before /\ next.since = call.since /\ next.was = call.was
          /\ next.st = call.st /\ next.stage = "allow" /\ next.markers
        BY <1>2 DEF ACall, Stages
    <2>2. Run(next, <<Task("absent")>>)
        BY <1>7 DEF PipFound
    <2> HIDE DEF next
    <2> QED
        BY <1>0, <1>1, <2>1, <2>2, OperationsRun, RunKeeps
<1>8. ASSUME NEW body \in {"ok", "raised"}, PipBody(body)
      PROVE  AnsIInv'
    <2>1. CASE call.markers
        <3> DEFINE next == [call EXCEPT !.stage = "restore", !.body = body]
        <3>1. /\ next \in ACall /\ next.kind = call.kind /\ next.hosts = call.hosts
              /\ next.continue = call.continue /\ next.free = call.free /\ next.at = call.at
              /\ next.before = call.before /\ next.since = call.since /\ next.was = call.was
              /\ next.st = call.st /\ next.stage = "restore"
            BY <1>2 DEF ACall, Stages
        <3>2. Run(next, <<Task("touch")>>)
            BY <1>8, <2>1 DEF PipBody, Restoring
        <3> HIDE DEF next
        <3> QED
            BY <1>0, <1>1, <3>1, <3>2, OperationsRun, RunKeeps
    <2>2. CASE ~call.markers
        <3>1. End(body) /\ call.stage = "body"
            BY <1>8, <2>2 DEF PipBody, Restoring
        <3> QED
            BY <1>0, <1>1, <1>3, <2>2, <3>1 DEF Marked
    <2> QED
        BY <2>1, <2>2
<1>9. CASE PipRestored
    <2>1. PICK outcome \in {"ok", "failed", "unreachable"} :
             Returned(outcome) /\ End(IF outcome = "ok" THEN call.body ELSE outcome)
        BY <1>9 DEF PipRestored
    <2>2. CASE outcome # "ok"
        <3>1. End(outcome)
            BY <2>1, <2>2
        <3> QED
            BY <1>0, <2>2, <3>1, FailKeeps
    <2>3. CASE outcome = "ok"
        <3>1. /\ Returned("ok") /\ End(call.body) /\ call.stage = "restore" /\ book.on
              /\ call.body \in {"ok", "raised"}
            BY <1>2, <1>9, <2>1, <2>3 DEF PipRestored, Returned, BookOver, ACall
        <3>2. ASSUME NEW m \in call.hosts
              PROVE  m \in marker
            <4>1. m \in Machines /\ book.pos[m] = Len(book.tasks)
                BY <1>1, <3>1, DoneEverywhere
            <4>2. book.tasks = <<Task("touch")>>
                BY <1>0, <1>1, <3>1, BookIs
            <4>3. book.pos[m] >= 1
                BY <4>1, <4>2
            <4> QED
                BY <1>0, <1>1, <3>1, <4>1, <4>3 DEF Marked
        <3>3. call.before \subseteq marker
            BY <1>0, <3>2 DEF Asked
        <3> QED
            BY <1>3, <3>1, <3>3
    <2> QED
        BY <2>2, <2>3
<1> QED
    BY <1>4, <1>5, <1>6, <1>7, <1>8, <1>9

\* The records of the next playbook add to those of the playbooks before it.
LEMMA NextBookKeeps ==
    ASSUME AnsIInv, NextBook
    PROVE  AnsIInv'
<1>0. /\ AnsTyped /\ Asked /\ Followed /\ Running /\ BookOver /\ Verdict = "ok" /\ MoreBooks
      /\ book.on /\ results' = results
      /\ UNCHANGED <<up, boots, keys, pair, marker, known, copied, gathered, count>>
    BY DEF AnsIInv, NextBook, BookOver
<1>1. /\ call.at \in 1..Len(call.books) /\ Before \in Nat /\ Len(book.tasks) \in Nat
      /\ Before + Len(book.tasks) = Cardinality(Slots(call.books, call.at))
      /\ \A m \in Machines : results.done[m] <= Before + Len(book.tasks)
      /\ ~call.continue =>
            /\ book.alive = call.hosts
            /\ \A m \in call.hosts :
                  call.kind # "sync" => results.done[m] = Before + Len(book.tasks)
    BY <1>0, OverMeans
<1>2. call.kind \notin {"wait", "sync", "keys", "pip"}
    <2>1. call.kind \in {"wait", "sync", "keys", "pip"} =>
             call.at = 1 /\ \E s : call.books = <<s>>
        BY <1>0 DEF Asked, Plays
    <2>2. ASSUME NEW s, call.books = <<s>>
          PROVE  Len(call.books) = 1
        BY <2>2
    <2>3. call.at < Len(call.books)
        BY <1>0 DEF MoreBooks
    <2> QED
        BY <2>1, <2>2, <2>3, SMTT(40)
<1>3. Len(call.books) \in Nat /\ call.books \in Seq(APlay) /\ call.hosts \in SUBSET Machines
    BY <1>0, TypesAre
<1>4. /\ call.at + 1 \in 1..Len(call.books) /\ call.at + 1 \in Nat \ {0}
      /\ call.books[call.at + 1] \in APlay
    BY <1>0, <1>1, <1>3, ElementOfSeq DEF MoreBooks
<1>5. /\ call' \in ACall /\ call'.at = call.at + 1 /\ call'.st = call.st
      /\ call'.kind = call.kind /\ call'.hosts = call.hosts /\ call'.books = call.books
      /\ call'.continue = call.continue /\ call'.free = call.free /\ call'.stage = call.stage
      /\ call'.before = call.before
    BY <1>0, <1>4 DEF NextBook, AnsTyped, ACall
<1>6. /\ book' \in ABook /\ book'.on /\ book'.tasks = call.books[call.at + 1]
      /\ book'.alive = call.hosts /\ \A m \in Machines : book'.pos[m] = 0
    BY <1>3, <1>4, StartIs DEF NextBook
<1>7. AnsTyped'
    BY <1>0, <1>5, <1>6 DEF AnsTyped
<1>8. Asked'
    BY <1>0, <1>2, <1>4, <1>5, <1>6 DEF Asked, Plays, Running
<1>9. Followed'
    <2>1. Before' = Before + Len(book.tasks)
        <3>1. call.at + 1 - 1 = call.at
            BY <1>1
        <3> QED
            BY <1>1, <1>5, <3>1 DEF Before
    <2>2. Len(book'.tasks) \in Nat
        BY <1>4, <1>6, LenProperties DEF APlay
    <2>3. ASSUME NEW m \in Machines
          PROVE  /\ book'.pos[m] <= Len(book'.tasks) /\ results'.done[m] <= Before' + book'.pos[m]
                 /\ m \in book'.alive /\ call'.kind # "sync" /\ ~call'.continue =>
                       results'.done[m] = Before' + book'.pos[m]
        BY <1>0, <1>1, <1>5, <1>6, <2>1, <2>2
    <2> QED
        BY <1>0, <1>5, <1>6, <2>3 DEF Followed
<1>10. Pushed' /\ Marked' /\ Fresh'
    BY <1>2, <1>5 DEF Pushed, Marked, Fresh
<1>11. SuccessMeansEverywhere' /\ MarkersComeBack' /\ SyncedTogether'
    BY <1>0, <1>5, NothingYet DEF Running
<1> QED
    BY <1>7, <1>8, <1>9, <1>10, <1>11 DEF AnsIInv

-----------------------------------------------------------------------------
(* The theorems *)

LEMMA AnsibleStarts == AnsibleInit => AnsIInv
<1> SUFFICES ASSUME AnsibleInit
             PROVE  AnsIInv
    OBVIOUS
<1> DEFINE zero == [m \in Machines |-> 0]
           none == [m \in Machines |-> [private |-> 0, public |-> 0, authorized |-> {}]]
<1>0. 0 \in Counter /\ 0 \in 0..MaxCalls
    BY AnsibleAssumption DEF Counter
<1>1. /\ zero \in [Machines -> Counter] /\ zero \in [Machines -> Nat]
      /\ none \in [Machines -> AKeys]
    BY <1>0 DEF AKeys
<1>2. /\ up = {} /\ boots = zero /\ keys = none /\ pair = 0 /\ marker \in SUBSET Machines
      /\ known = zero /\ copied = zero /\ gathered = zero /\ count = 0
    BY DEF AnsibleInit
<1> HIDE DEF zero, none
<1>3. ASSUME NEW kind \in Kinds, NEW hosts \in SUBSET Machines, NEW books \in Seq(APlay),
             NEW c \in BOOLEAN, NEW r, r = Request(kind, hosts, books, c, c, c)
      PROVE  /\ r \in ACall /\ r.kind = kind /\ r.hosts = hosts /\ r.books = books
             /\ r.continue = c /\ r.free = c
             /\ r.stage = (IF kind \in {"wait", "sync"} THEN "wait"
                           ELSE IF kind = "pip" THEN "find" ELSE "run")
             /\ r.before = (IF kind = "pip" THEN marker ELSE {})
    BY <1>1, <1>2, <1>3, RequestFields
<1>4. PICK kind, hosts, books, c, r :
         /\ kind = "none" /\ hosts = {} /\ books = <<>> /\ c = FALSE
         /\ r = Request(kind, hosts, books, c, c, c) /\ call = [r EXCEPT !.st = "ok"]
    BY Zenon DEF AnsibleInit
<1>5. /\ r \in ACall /\ r.kind = "none" /\ r.hosts = {} /\ r.books = <<>>
      /\ ~r.continue /\ ~r.free /\ r.stage = "run" /\ r.before = {}
    <2>1. kind \in Kinds /\ hosts \in SUBSET Machines /\ books \in Seq(APlay) /\ c \in BOOLEAN
        BY <1>4, EmptySeq DEF Kinds
    <2>2. r = Request(kind, hosts, books, c, c, c)
        BY <1>4
    <2>3. /\ r \in ACall /\ r.kind = kind /\ r.hosts = hosts /\ r.books = books
          /\ r.continue = c /\ r.free = c
          /\ r.stage = (IF kind \in {"wait", "sync"} THEN "wait"
                        ELSE IF kind = "pip" THEN "find" ELSE "run")
          /\ r.before = (IF kind = "pip" THEN marker ELSE {})
        BY ONLY <1>3, <2>1, <2>2
    <2> QED
        BY <1>4, <2>3
<1>6. /\ call \in ACall /\ call.kind = "none" /\ call.hosts = {} /\ call.books = <<>>
      /\ ~call.continue /\ ~call.free /\ call.stage = "run" /\ call.before = {} /\ call.st = "ok"
    BY <1>4, <1>5 DEF ACall, Outcomes
<1>7. book \in ABook /\ ~book.on /\ book.alive = {}
    BY <1>1, EmptySeq DEF AnsibleInit, NoBook, ABook, APlay, zero
<1>8. /\ results \in Result /\ results.first = Nobody /\ \A m \in Machines : results.done[m] = 0
    BY <1>1 DEF AnsibleInit, NoResult, Result, zero
<1>9. AnsTyped
    BY <1>0, <1>1, <1>2, <1>6, <1>7, <1>8 DEF AnsTyped, Result
<1>10. Tasks = 0 /\ ~Running
    <2>1. Len(<<>>) = 0
        OBVIOUS
    <2> QED
        BY <1>6, <2>1, SlotsNone DEF Tasks, Running
<1>11. Asked
    <2>1. DOMAIN <<>> = {}
        OBVIOUS
    <2> QED
        BY <1>6, <1>7, <1>10, <2>1 DEF Asked, Plays
<1>12. Followed
    BY <1>6, <1>7, <1>8, <1>10 DEF Followed
<1>13. Pushed /\ Marked /\ Fresh
    BY <1>10 DEF Pushed, Marked, Fresh
<1>14. SuccessMeansEverywhere /\ MarkersComeBack /\ SyncedTogether
    BY <1>6 DEF SuccessMeansEverywhere, MarkersComeBack, SyncedTogether, Ended
<1> QED
    BY <1>9, <1>11, <1>12, <1>13, <1>14 DEF AnsIInv

LEMMA AnsibleStutters ==
    ASSUME AnsIInv, UNCHANGED ansibleVars
    PROVE  AnsIInv'
<1>1. /\ AnsTyped /\ Asked /\ Followed /\ Pushed /\ Marked /\ Fresh
      /\ UNCHANGED <<up, boots, keys, pair, marker, known, copied, gathered, call, book,
                     results, count>>
    BY DEF AnsIInv, ansibleVars
<1>2. AnsTyped'
    BY <1>1 DEF AnsTyped
<1>3. Asked' /\ Followed' /\ Pushed' /\ Marked' /\ Fresh'
    BY <1>1 DEF Asked, Plays, Followed, Pushed, Marked, Fresh, Before, Tasks, Running
<1>4. SuccessMeansEverywhere' /\ MarkersComeBack' /\ SyncedTogether'
    BY <1>1 DEF AnsIInv, SuccessMeansEverywhere, MarkersComeBack, SyncedTogether, Ended, Tasks,
                Running
<1> QED
    BY <1>2, <1>3, <1>4 DEF AnsIInv

\* The inductive invariant.
LEMMA AnsibleKeeps == AnsibleSpec => []AnsIInv
<1>1. AnsIInv /\ [AnsibleNext]_ansibleVars => AnsIInv'
    <2> SUFFICES ASSUME AnsIInv, [AnsibleNext]_ansibleVars
                 PROVE  AnsIInv'
        OBVIOUS
    <2>1. ASSUME NEW m \in Machines, Boot(m) \/ Reboot(m)
          PROVE  AnsIInv'
        BY <2>1, MachinesKeep
    <2>2. ASSUME NEW m \in Machines, Unreachable(m) \/ TaskFails(m) \/ TaskSucceeds(m)
                                     \/ TaskSkipped(m) \/ Template(m)
          PROVE  AnsIInv'
        BY <2>2, StepsKeep
    <2>3. CASE ClientCalls
        BY <2>3, CallKeeps
    <2>4. CASE NextBook
        BY <2>4, NextBookKeeps
    <2>5. CASE CallEnds
        BY <2>5, CallEndsKeeps
    <2>6. CASE WaitRetry \/ WaitGivesUp \/ WaitFails \/ WaitEnds
        BY <2>6, WaitsKeep
    <2>7. CASE SyncEnds \/ SyncFails
        BY <2>7, SyncsKeep
    <2>8. CASE PipFound \/ PipAllowed \/ PipRefused \/ PipRestored
               \/ \E body \in {"ok", "raised"} : PipBody(body)
        BY <2>8, PipsKeep
    <2>9. CASE UNCHANGED ansibleVars
        BY <2>9, AnsibleStutters
    <2> QED
        BY <2>1, <2>2, <2>3, <2>4, <2>5, <2>6, <2>7, <2>8, <2>9 DEF AnsibleNext
<1> QED
    BY <1>1, AnsibleStarts, PTL DEF AnsibleSpec

\* The machines, the files on them, the call in progress, its playbook and the
\* records of its callback stay in their types; no host has more records of
\* success than there are tasks (api.py, run_ansible and its callers).
THEOREM AnsibleTypeCorrect == AnsibleSpec => []AnsibleTypeOK
<1>1. AnsIInv => AnsibleTypeOK
    <2> SUFFICES ASSUME AnsIInv
                 PROVE  AnsibleTypeOK
        OBVIOUS
    <2>0. AnsTyped /\ Asked /\ Followed
        BY DEF AnsIInv
    <2>1. ASSUME NEW m \in Machines
          PROVE  results.done[m] \in 0..Tasks
        <3>1. /\ results.done[m] \in Nat /\ Tasks \in Nat /\ book.pos[m] \in Nat
              /\ Len(book.tasks) \in Nat
              /\ book.on => Before \in Nat /\ Before + Len(book.tasks) <= Tasks
            BY <2>0, TypesAre
        <3>2. /\ book.on => book.pos[m] <= Len(book.tasks)
                            /\ results.done[m] <= Before + book.pos[m]
              /\ ~book.on => results.done[m] <= Tasks
            BY <2>0 DEF Followed
        <3> QED
            BY <3>1, <3>2
    <2>2. results.done \in [Machines -> 0..Tasks]
        BY <2>0, <2>1 DEF AnsTyped
    <2>3. \A m \in Machines : keys[m] \in AKeys
        BY <2>0 DEF AnsTyped
    <2>4. call.kind \in Kinds /\ call.st \in Outcomes \cup {"running"}
          /\ call.tries \in 0..(Retries - 1)
        BY <2>0 DEF AnsTyped, ACall
    <2> QED
        BY <2>0, <2>2, <2>3, <2>4 DEF AnsibleTypeOK, AnsTyped, Followed, AKeys, Counter
<1> QED
    BY <1>1, AnsibleKeeps, PTL

\* A call that returns without on_error_continue did everything it was asked on
\* every host (run_ansible, wait_for, populate_keys).
THEOREM SuccessEverywhere == AnsibleSpec => []SuccessMeansEverywhere
<1>1. AnsIInv => SuccessMeansEverywhere
    BY DEF AnsIInv
<1> QED
    BY <1>1, AnsibleKeeps, PTL

\* external_pip_deps puts the markers back however its block is left.
THEOREM MarkersBack == AnsibleSpec => []MarkersComeBack
<1>1. AnsIInv => MarkersComeBack
    BY DEF AnsIInv
<1> QED
    BY <1>1, AnsibleKeeps, PTL

\* sync_info changes every host it is given, with fresh facts, or none.
THEOREM SyncAllOrNothing == AnsibleSpec => []SyncedTogether
<1>1. AnsIInv => SyncedTogether
    BY DEF AnsIInv
<1> QED
    BY <1>1, AnsibleKeeps, PTL

-----------------------------------------------------------------------------
(* Environments of tasks: vocabulary of the proofs *)

File == [ok : BOOLEAN, exists : BOOLEAN, store : Content]
Object == [dir : Dirs, store : Content]
TaskFrame == [task : 1..MaxTasks, env : Nat \ {0}, step : Steps]

EnvTyped ==
    /\ file \in [Dirs -> File]
    /\ link \in Dirs \cup {NoDir}
    /\ heap \in [Clients -> Seq(Object)]
    /\ stack \in [Clients -> Seq(TaskFrame)]
    /\ tasks \in 0..MaxTasks
    /\ kills \in 0..MaxKills
    /\ saved \in [Dirs -> SUBSET (1..MaxTasks)]
    /\ parted \in SUBSET Dirs
    /\ linked \in BOOLEAN

\* The frames of a process, and the object each refers to.
Frames(p) == 1..Len(stack[p])
Objects(p) == 1..Len(heap[p])
Of(p, j) == heap[p][stack[p][j].env]

-----------------------------------------------------------------------------
(* The inductive invariant *)

\* A frame refers to an object of its process; only the innermost task is not in
\* its body; a task that dumps has saved its key; one that changes the link has
\* dumped its environment.
Standing(p, j) ==
    /\ stack[p][j].env \in Objects(p)
    /\ stack[p][j].task \in 1..tasks
    /\ j # Len(stack[p]) => stack[p][j].step = "body"
    /\ stack[p][j].step \in {"open", "write"} => stack[p][j].task \in Of(p, j).store
    /\ stack[p][j].step \in {"exists", "unlink", "symlink"} => file[Of(p, j).dir].exists

\* The object in use holds what the tasks of its directory saved.
Holding(p, j) ==
    Of(p, j).dir \notin parted /\ stack[p][j].step \notin {"create", "fill"} =>
        saved[Of(p, j).dir] \subseteq Of(p, j).store

\* Two objects of a directory were in use at a time, or they are one.
Parting(p, j, q, k) ==
    Of(p, j).dir = Of(q, k).dir /\ Of(p, j).dir \notin parted =>
        p = q /\ stack[p][j].env = stack[q][k].env

\* A link that was taken away is being made again.
Relinked == linked /\ kills = 0 /\ link = NoDir => \E p \in Clients : In(p, "symlink")

EnvIInv ==
    /\ EnvTyped
    /\ \A p \in Clients : \A j \in Frames(p) : Standing(p, j) /\ Holding(p, j)
    /\ \A p, q \in Clients : \A j \in Frames(p), k \in Frames(q) : Parting(p, j, q, k)
    /\ TasksAccumulate
    /\ link # NoDir => file[link].exists
    /\ Relinked

-----------------------------------------------------------------------------
(* What the operations on frames and objects do *)

LEMMA TypesOf ==
    ASSUME EnvTyped, NEW p \in Clients
    PROVE  /\ stack[p] \in Seq(TaskFrame) /\ Len(stack[p]) \in Nat
           /\ Frames(p) = DOMAIN stack[p]
           /\ \A j \in Frames(p) : stack[p][j] \in TaskFrame
           /\ heap[p] \in Seq(Object) /\ Len(heap[p]) \in Nat
           /\ \A i \in Objects(p) : heap[p][i] \in Object
           /\ stack[p] # <<>> => Len(stack[p]) \in Frames(p)
           /\ stack[p] = <<>> => Frames(p) = {}
<1>1. stack[p] \in Seq(TaskFrame) /\ heap[p] \in Seq(Object)
    BY DEF EnvTyped
<1>2. /\ Len(stack[p]) \in Nat /\ Len(heap[p]) \in Nat
      /\ Frames(p) = DOMAIN stack[p]
      /\ \A j \in Frames(p) : stack[p][j] \in TaskFrame
      /\ \A i \in Objects(p) : heap[p][i] \in Object
    BY <1>1, LenProperties, ElementOfSeq DEF Frames, Objects
<1>3. /\ stack[p] # <<>> => Len(stack[p]) \in Frames(p)
      /\ stack[p] = <<>> => Frames(p) = {}
    BY <1>1, EmptySeq, LenProperties DEF Frames
<1> QED
    BY <1>1, <1>2, <1>3

\* The other processes.
SameStacks(p) == \A q \in Clients \ {p} : stack'[q] = stack[q]
SameHeaps(p) == \A q \in Clients \ {p} : heap'[q] = heap[q]

\* The innermost task goes to another step.
Goes(p, step) ==
    /\ stack' \in [Clients -> Seq(TaskFrame)] /\ SameStacks(p)
    /\ Len(stack'[p]) = Len(stack[p]) /\ Frames(p)' = Frames(p)
    /\ \A j \in Frames(p) \ {Len(stack[p])} : stack'[p][j] = stack[p][j]
    /\ stack'[p][Len(stack[p])].env = Top(p).env
    /\ stack'[p][Len(stack[p])].task = Top(p).task
    /\ stack'[p][Len(stack[p])].step = step

LEMMA GoToDoes ==
    ASSUME EnvTyped, NEW p \in Clients, NEW step \in Steps, stack[p] # <<>>, GoTo(p, step)
    PROVE  Goes(p, step)
<1> DEFINE n == Len(stack[p])
           f == [stack[p][n] EXCEPT !.step = step]
           t == [stack[p] EXCEPT ![n] = f]
<1>1. n \in Frames(p) /\ stack[p][n] \in TaskFrame /\ stack[p] \in Seq(TaskFrame)
    BY TypesOf
<1>2. f \in TaskFrame /\ f.env = stack[p][n].env /\ f.task = stack[p][n].task /\ f.step = step
    BY <1>1 DEF TaskFrame
<1>3. stack' = [stack EXCEPT ![p] = t]
    BY DEF GoTo
<1> HIDE DEF f
<1>4. /\ t \in Seq(TaskFrame) /\ Len(t) = n
      /\ \A j \in Frames(p) : t[j] = IF j = n THEN f ELSE stack[p][j]
    BY <1>1, <1>2, ExceptSeq DEF Frames
<1> HIDE DEF t
<1>5. /\ stack' \in [Clients -> Seq(TaskFrame)] /\ SameStacks(p) /\ stack'[p] = t
    BY <1>3, <1>4 DEF EnvTyped, SameStacks
<1> QED
    BY <1>1, <1>2, <1>4, <1>5 DEF Goes, Frames, Top

\* A task begins.
Pushes(p, f) ==
    /\ stack' \in [Clients -> Seq(TaskFrame)] /\ SameStacks(p)
    /\ Len(stack'[p]) = Len(stack[p]) + 1 /\ Len(stack[p]) \in Nat
    /\ Frames(p)' = Frames(p) \cup {Len(stack[p]) + 1} /\ Len(stack[p]) + 1 \notin Frames(p)
    /\ \A j \in Frames(p) : stack'[p][j] = stack[p][j]
    /\ stack'[p][Len(stack[p]) + 1] = f

LEMMA PushDoes ==
    ASSUME EnvTyped, NEW p \in Clients, NEW f \in TaskFrame, Push(p, f)
    PROVE  Pushes(p, f)
<1> DEFINE t == Append(stack[p], f)
<1>1. /\ t \in Seq(TaskFrame) /\ Len(t) = Len(stack[p]) + 1 /\ Len(stack[p]) \in Nat
      /\ \A j \in 1..Len(stack[p]) : t[j] = stack[p][j]
      /\ t[Len(stack[p]) + 1] = f
    BY TypesOf, AppendProperties
<1>2. stack' = [stack EXCEPT ![p] = t]
    BY DEF Push
<1> HIDE DEF t
<1>3. stack' \in [Clients -> Seq(TaskFrame)] /\ SameStacks(p) /\ stack'[p] = t
    BY <1>1, <1>2 DEF EnvTyped, SameStacks
<1> QED
    BY <1>1, <1>3 DEF Pushes, Frames

\* A task is over.
Pops(p) ==
    /\ stack' \in [Clients -> Seq(TaskFrame)] /\ SameStacks(p)
    /\ Len(stack'[p]) = Len(stack[p]) - 1
    /\ Frames(p)' = Frames(p) \ {Len(stack[p])}
    /\ \A j \in Frames(p)' : stack'[p][j] = stack[p][j]

LEMMA PopDoes ==
    ASSUME EnvTyped, NEW p \in Clients, stack[p] # <<>>,
           stack' = [stack EXCEPT ![p] = SubSeq(@, 1, Len(@) - 1)]
    PROVE  Pops(p)
<1> DEFINE n == Len(stack[p])
           t == SubSeq(stack[p], 1, n - 1)
<1>1. n \in 1..n /\ n \in Nat /\ \A j \in 1..n : stack[p][j] \in TaskFrame
    BY TypesOf DEF Frames
<1>2. /\ t \in Seq(TaskFrame) /\ Len(t) = n - 1
      /\ \A j \in 1..(n - 1) : t[j] = stack[p][j]
    <2>1. \A j \in 1..(n - 1) : stack[p][j] \in TaskFrame
        BY <1>1
    <2>2. /\ t \in Seq(TaskFrame)
          /\ Len(t) = (IF 1 <= n - 1 THEN n - 1 - 1 + 1 ELSE 0)
          /\ \A i \in 1..(n - 1 - 1 + 1) : t[i] = stack[p][1 + i - 1]
        BY <1>1, <2>1, SubSeqProperties
    <2> QED
        BY <1>1, <2>2
<1>3. stack' = [stack EXCEPT ![p] = t]
    OBVIOUS
<1> HIDE DEF t
<1>4. stack' \in [Clients -> Seq(TaskFrame)] /\ SameStacks(p) /\ stack'[p] = t
    BY <1>2, <1>3 DEF EnvTyped, SameStacks
<1> QED
    BY <1>1, <1>2, <1>4 DEF Pops, Frames

\* An object is given another store.
Stores(p, i, store) ==
    /\ heap' \in [Clients -> Seq(Object)] /\ SameHeaps(p)
    /\ Objects(p)' = Objects(p)
    /\ \A k \in Objects(p) : k # i => heap'[p][k] = heap[p][k]
    /\ heap'[p][i].dir = heap[p][i].dir
    /\ heap'[p][i].store = store

LEMMA StoreDoes ==
    ASSUME EnvTyped, NEW p \in Clients, NEW i \in Objects(p), NEW store \in Content,
           heap' = [heap EXCEPT ![p][i].store = store]
    PROVE  Stores(p, i, store)
<1> DEFINE o == [heap[p][i] EXCEPT !.store = store]
           h == [heap[p] EXCEPT ![i] = o]
<1>1. heap[p] \in Seq(Object) /\ heap[p][i] \in Object
    BY TypesOf
<1>2. o \in Object /\ o.dir = heap[p][i].dir /\ o.store = store
    BY <1>1 DEF Object
<1>3. heap' = [heap EXCEPT ![p] = h]
    OBVIOUS
<1> HIDE DEF o
<1>4. /\ h \in Seq(Object) /\ Len(h) = Len(heap[p])
      /\ \A k \in Objects(p) : h[k] = IF k = i THEN o ELSE heap[p][k]
    BY <1>1, <1>2, ExceptSeq DEF Objects
<1> HIDE DEF h
<1>5. heap' \in [Clients -> Seq(Object)] /\ SameHeaps(p) /\ heap'[p] = h
    BY <1>3, <1>4 DEF EnvTyped, SameHeaps
<1> QED
    BY <1>2, <1>4, <1>5 DEF Stores, Objects

\* A task enters with an object of its own.
Enters(p, d, store, step) ==
    /\ heap' \in [Clients -> Seq(Object)] /\ SameHeaps(p)
    /\ Objects(p)' = Objects(p) \cup {Len(heap[p]) + 1} /\ Len(heap[p]) + 1 \notin Objects(p)
    /\ Len(heap[p]) + 1 \in Nat \ {0}
    /\ \A k \in Objects(p) : heap'[p][k] = heap[p][k]
    /\ heap'[p][Len(heap[p]) + 1] = [dir |-> d, store |-> store]
    /\ Pushes(p, [task |-> tasks + 1, env |-> Len(heap[p]) + 1, step |-> step])
    /\ tasks' = tasks + 1
    /\ parted' = Parted(p, d)

LEMMA EnterDoes ==
    ASSUME EnvTyped, NEW p \in Clients, NEW d \in Dirs, NEW store \in Content,
           NEW step \in Steps, tasks < MaxTasks, Enter(p, d, store, step)
    PROVE  Enters(p, d, store, step) /\ tasks' \in 0..MaxTasks /\ parted' \in SUBSET Dirs
<1> DEFINE o == [dir |-> d, store |-> store]
           h == Append(heap[p], o)
           f == [task |-> tasks + 1, env |-> Len(heap[p]) + 1, step |-> step]
<1>1. o \in Object
    BY DEF Object
<1>2. f \in TaskFrame
    BY TypesOf, EnvironmentAssumption DEF TaskFrame, EnvTyped
<1>3. /\ heap' = [heap EXCEPT ![p] = h] /\ Push(p, f)
      /\ tasks' = tasks + 1 /\ parted' = Parted(p, d)
    BY DEF Enter
<1> HIDE DEF o, f
<1>4. /\ h \in Seq(Object) /\ Len(h) = Len(heap[p]) + 1 /\ Len(heap[p]) \in Nat
      /\ \A j \in 1..Len(heap[p]) : h[j] = heap[p][j]
      /\ h[Len(heap[p]) + 1] = o
    BY <1>1, TypesOf, AppendProperties
<1> HIDE DEF h
<1>5. heap' \in [Clients -> Seq(Object)] /\ SameHeaps(p) /\ heap'[p] = h
    BY <1>3, <1>4 DEF EnvTyped, SameHeaps
<1>6. Pushes(p, f)
    BY <1>2, <1>3, PushDoes
<1>7. tasks' \in 0..MaxTasks /\ parted' \in SUBSET Dirs
    BY <1>3, EnvironmentAssumption DEF EnvTyped, Parted
<1>8. /\ Objects(p)' = Objects(p) \cup {Len(heap[p]) + 1}
      /\ Len(heap[p]) + 1 \notin Objects(p) /\ Len(heap[p]) + 1 \in Nat \ {0}
      /\ \A k \in Objects(p) : heap'[p][k] = heap[p][k]
      /\ heap'[p][Len(heap[p]) + 1] = o
    BY <1>4, <1>5 DEF Objects
<1> QED
    BY <1>3, <1>5, <1>6, <1>7, <1>8 DEF Enters, o, f

-----------------------------------------------------------------------------
(* Frames and objects stay as the invariant wants them *)

\* The two conjuncts of EnvIInv on frames.
FramesFit ==
    /\ \A p \in Clients : \A j \in Frames(p) : Standing(p, j) /\ Holding(p, j)
    /\ \A p, q \in Clients : \A j \in Frames(p), k \in Frames(q) : Parting(p, j, q, k)

\* Objects keep their directory and lose nothing of their store.
Grown(p) ==
    /\ SameHeaps(p) /\ Objects(p)' = Objects(p)
    /\ \A i \in Objects(p) : /\ heap'[p][i].dir = heap[p][i].dir
                             /\ heap[p][i].store \subseteq heap'[p][i].store

FilesStay == \A d \in Dirs : file[d].exists => file'[d].exists

\* The innermost task of p goes on, its frame and those of its callers stay.
LEMMA GoingFits ==
    ASSUME EnvIInv, NEW p \in Clients, NEW step, stack[p] # <<>>,
           Goes(p, step), Grown(p), FilesStay,
           UNCHANGED <<tasks, parted>>,
           \A d \in Dirs : saved'[d] \subseteq saved[d],
           step \in {"open", "write"} => Top(p).task \in heap'[p][Top(p).env].store,
           step \in {"exists", "unlink", "symlink"} => file'[Env(p).dir].exists,
           Top(p).step \in {"create", "fill"} /\ step \notin {"create", "fill"} =>
               saved'[Env(p).dir] = {}
    PROVE  FramesFit'
<1>0. EnvTyped /\ FramesFit
    BY DEF EnvIInv, FramesFit
<1> DEFINE n == Len(stack[p])
<1>1. n \in Frames(p) /\ Top(p) = stack[p][n] /\ Env(p) = Of(p, n)
    BY <1>0, TypesOf DEF Top, Env, Of
\* What becomes of each frame.
<1>2. ASSUME NEW q \in Clients, NEW j \in Frames(q)'
      PROVE  /\ j \in Frames(q) /\ Len(stack'[q]) = Len(stack[q])
             /\ stack'[q][j].env = stack[q][j].env /\ stack'[q][j].task = stack[q][j].task
             /\ stack[q][j].env \in Objects(q) /\ Objects(q)' = Objects(q)
             /\ Of(q, j)'.dir = Of(q, j).dir /\ Of(q, j).dir \in Dirs
             /\ Of(q, j).store \subseteq Of(q, j)'.store
             /\ (q = p /\ j = n /\ stack'[q][j].step = step)
                \/ (~(q = p /\ j = n) /\ stack'[q][j] = stack[q][j])
    <2>1. CASE q = p
        <3>1. j \in Frames(p) /\ stack[p][j].env \in Objects(p)
            BY <1>0, <1>2, <2>1 DEF Goes, FramesFit, Standing
        <3>2. /\ stack'[p][j].env = stack[p][j].env /\ stack'[p][j].task = stack[p][j].task
              /\ (j = n /\ stack'[p][j].step = step) \/ (j # n /\ stack'[p][j] = stack[p][j])
            BY <1>1, <3>1 DEF Goes
        <3>3. Of(p, j) \in Object
            BY <1>0, <3>1, TypesOf DEF Of
        <3> QED
            BY <2>1, <3>1, <3>2, <3>3 DEF Goes, Grown, Of, Object
    <2>2. CASE q # p
        <3>1. j \in Frames(q) /\ stack'[q] = stack[q] /\ heap'[q] = heap[q]
            BY <1>2, <2>2 DEF Goes, SameStacks, Grown, SameHeaps, Frames
        <3>2. stack[q][j].env \in Objects(q)
            BY <1>0, <3>1 DEF FramesFit, Standing
        <3>3. Of(q, j) \in Object
            BY <1>0, <3>2, TypesOf DEF Of
        <3> QED
            BY <2>2, <3>1, <3>2, <3>3 DEF Of, Objects, Object
    <2> QED
        BY <2>1, <2>2
<1>3. ASSUME NEW q \in Clients, NEW j \in Frames(q)'
      PROVE  Standing(q, j)'
    <2>1. Standing(q, j)
        BY <1>0, <1>2, <1>3 DEF FramesFit
    <2>2. CASE q = p /\ j = n
        <3>1. /\ stack'[p][n].step = step
              /\ Of(p, n)' = heap'[p][Top(p).env] /\ Of(p, n)'.dir = Env(p).dir
            BY <1>1, <1>2, <1>3, <2>2 DEF Of
        <3> QED
            BY <1>1, <1>2, <1>3, <2>1, <2>2, <3>1 DEF Standing
    <2>3. CASE ~(q = p /\ j = n)
        BY <1>2, <1>3, <2>1, <2>3 DEF Standing, FilesStay
    <2> QED
        BY <2>2, <2>3
<1>4. ASSUME NEW q \in Clients, NEW j \in Frames(q)'
      PROVE  Holding(q, j)'
    <2>1. Holding(q, j)
        BY <1>0, <1>2, <1>4 DEF FramesFit
    <2> QED
        BY <1>1, <1>2, <1>4, <2>1, SMTT(40) DEF Holding
<1>5. ASSUME NEW q \in Clients, NEW r \in Clients, NEW j \in Frames(q)', NEW k \in Frames(r)'
      PROVE  Parting(q, j, r, k)'
    <2>1. Parting(q, j, r, k)
        BY <1>0, <1>2, <1>5 DEF FramesFit
    <2> QED
        BY <1>2, <1>5, <2>1 DEF Parting
<1> QED
    BY <1>3, <1>4, <1>5 DEF FramesFit

\* Processes that take no step.
LEMMA OthersFit ==
    ASSUME EnvIInv, NEW q \in Clients, stack'[q] = stack[q], heap'[q] = heap[q],
           NEW j \in Frames(q)'
    PROVE  /\ j \in Frames(q) /\ Len(stack'[q]) = Len(stack[q])
           /\ stack'[q][j] = stack[q][j] /\ Of(q, j)' = Of(q, j) /\ Of(q, j).dir \in Dirs
           /\ stack[q][j].env \in Objects(q) /\ Objects(q)' = Objects(q)
<1>1. j \in Frames(q)
    BY DEF Frames
<1>2. stack[q][j].env \in Objects(q)
    BY <1>1 DEF EnvIInv, Standing
<1>3. Of(q, j) \in Object
    BY <1>2, TypesOf DEF Of, EnvIInv
<1> QED
    BY <1>1, <1>2, <1>3 DEF Of, Objects, Object

\* A task is over: its key is in the object its callers share with it.
LEMMA WritingFits ==
    ASSUME EnvIInv, NEW p \in Clients, WriteFile(p)
    PROVE  FramesFit' /\ Pops(p)
<1>0. EnvTyped /\ FramesFit
    BY DEF EnvIInv, FramesFit
<1> DEFINE n == Len(stack[p])
           e == Env(p).dir
           t == Top(p).task
<1>1. /\ stack[p] # <<>> /\ Top(p).step = "write" /\ n \in Frames(p)
      /\ Top(p) = stack[p][n] /\ Env(p) = Of(p, n)
    BY <1>0, TypesOf DEF WriteFile, In, Top, Env, Of
<1>2. /\ Pops(p) /\ UNCHANGED <<heap, tasks, parted>>
      /\ file' = [file EXCEPT ![e] = Dumped(Env(p).store)]
      /\ saved' = [saved EXCEPT ![e] = saved[e] \cup {t}]
    BY <1>0, <1>1, PopDoes DEF WriteFile
<1>3. t \in Of(p, n).store
    BY <1>0, <1>1 DEF FramesFit, Standing
<1>4. /\ \A d \in Dirs : saved'[d] = IF d = e THEN saved[d] \cup {t} ELSE saved[d]
      /\ \A d \in Dirs : file[d].exists => file'[d].exists
    BY <1>0, <1>2 DEF EnvTyped, Dumped
<1>5. ASSUME NEW q \in Clients, NEW j \in Frames(q)'
      PROVE  /\ j \in Frames(q) /\ stack'[q][j] = stack[q][j] /\ Of(q, j)' = Of(q, j)
             /\ j # Len(stack'[q]) => j # Len(stack[q])
             /\ Objects(q)' = Objects(q) /\ Of(q, j).dir \in Dirs
    <2>1. CASE q = p
        <3>1. /\ j \in Frames(p) /\ stack'[p][j] = stack[p][j] /\ j # n
            BY <1>2, <1>5, <2>1 DEF Pops
        <3>2. Of(p, j) \in Object
            BY <1>0, <3>1, TypesOf DEF FramesFit, Standing, Of
        <3> QED
            BY <1>2, <2>1, <3>1, <3>2 DEF Of, Objects, Object
    <2>2. CASE q # p
        <3>1. stack'[q] = stack[q] /\ heap'[q] = heap[q]
            BY <1>2, <2>2 DEF Pops, SameStacks
        <3> QED
            BY <1>5, <3>1, OthersFit
    <2> QED
        BY <2>1, <2>2
<1>6. ASSUME NEW q \in Clients, NEW j \in Frames(q)'
      PROVE  Standing(q, j)' /\ Holding(q, j)'
    <2>1. Standing(q, j) /\ Holding(q, j) /\ Parting(q, j, p, n)
        BY <1>0, <1>1, <1>5, <1>6 DEF FramesFit
    <2>2. Standing(q, j)'
        BY <1>2, <1>4, <1>5, <1>6, <2>1 DEF Standing
    <2>3. Of(q, j).dir = e /\ Of(q, j).dir \notin parted => t \in Of(q, j).store
        BY <1>1, <1>3, <2>1 DEF Parting, Of
    <2>4. Holding(q, j)'
        BY <1>2, <1>4, <1>5, <1>6, <2>1, <2>3 DEF Holding
    <2> QED
        BY <2>2, <2>4
<1>7. ASSUME NEW q \in Clients, NEW r \in Clients, NEW j \in Frames(q)', NEW k \in Frames(r)'
      PROVE  Parting(q, j, r, k)'
    <2>1. Parting(q, j, r, k)
        BY <1>0, <1>5, <1>7 DEF FramesFit
    <2> QED
        BY <1>2, <1>5, <1>7, <2>1 DEF Parting
<1> QED
    BY <1>2, <1>6, <1>7 DEF FramesFit

\* A task enters, in no other or from the body of one.
LEMMA EnteringFits ==
    ASSUME EnvIInv, NEW p \in Clients, NEW d \in Dirs, NEW store, NEW step,
           MayCall(p), Enters(p, d, store, step), UNCHANGED <<file, saved>>,
           step = "create" \/ (step = "reload" /\ file[d].ok /\ store = file[d].store)
    PROVE  FramesFit'
<1>0. EnvTyped /\ FramesFit
    BY DEF EnvIInv, FramesFit
<1>n. PICK n \in Nat : n = Len(stack[p]) + 1
    BY <1>0, TypesOf
<1>1. /\ Frames(p)' = Frames(p) \cup {n} /\ n \notin Frames(p) /\ Len(stack'[p]) = n
      /\ stack'[p][n].env \in Objects(p)' /\ stack'[p][n].env \notin Objects(p)
      /\ stack'[p][n].task = tasks + 1 /\ stack'[p][n].step = step
      /\ Of(p, n)'.dir = d /\ Of(p, n)'.store = store
      /\ tasks' = tasks + 1 /\ tasks \in Nat /\ parted \subseteq parted'
    <2> DEFINE i == Len(heap[p]) + 1
               f == [task |-> tasks + 1, env |-> i, step |-> step]
    <2>1. /\ Pushes(p, f) /\ i \in Objects(p)' /\ i \notin Objects(p)
          /\ heap'[p][i] = [dir |-> d, store |-> store]
          /\ tasks' = tasks + 1 /\ parted \subseteq parted'
        BY DEF Enters, Parted
    <2>2. f.env = i /\ f.task = tasks + 1 /\ f.step = step
        OBVIOUS
    <2> HIDE DEF i, f
    <2>3. /\ Frames(p)' = Frames(p) \cup {n} /\ n \notin Frames(p) /\ Len(stack'[p]) = n
          /\ stack'[p][n] = f
        BY <1>n, <2>1 DEF Pushes
    <2>4. tasks \in Nat
        BY <1>0, EnvironmentAssumption DEF EnvTyped
    <2> QED
        BY <2>1, <2>2, <2>3, <2>4 DEF Of
<1>2. ASSUME NEW q \in Clients, NEW j \in Frames(q)', ~(q = p /\ j = n)
      PROVE  /\ j \in Frames(q) /\ stack'[q][j] = stack[q][j] /\ Of(q, j)' = Of(q, j)
             /\ stack[q][j].env \in Objects(q) /\ Objects(q) \subseteq Objects(q)'
             /\ j = Len(stack[q]) /\ q = p => stack[q][j].step = "body"
             /\ j # Len(stack'[q]) /\ q # p => j # Len(stack[q])
             /\ Of(q, j).dir \in Dirs
    <2>1. CASE q = p
        <3>1. j \in Frames(p) /\ stack'[p][j] = stack[p][j]
            BY <1>n, <1>1, <1>2, <2>1 DEF Enters, Pushes
        <3>2. stack[p][j].env \in Objects(p)
            BY <1>0, <3>1 DEF FramesFit, Standing
        <3>3. Of(p, j) \in Object /\ Of(p, j)' = Of(p, j) /\ Objects(p) \subseteq Objects(p)'
            BY <1>0, <3>1, <3>2, TypesOf DEF Of, Enters
        <3>4. j = Len(stack[p]) => stack[p][j].step = "body"
            BY <1>0, <3>1, TypesOf DEF MayCall, In, Top
        <3> QED
            BY <2>1, <3>1, <3>2, <3>3, <3>4 DEF Object
    <2>2. CASE q # p
        <3>1. stack'[q] = stack[q] /\ heap'[q] = heap[q]
            BY <2>2 DEF Enters, Pushes, SameStacks, SameHeaps
        <3> QED
            BY <1>2, <2>2, <3>1, OthersFit
    <2> QED
        BY <2>1, <2>2
<1>3. ASSUME NEW q \in Clients, NEW j \in Frames(q)'
      PROVE  Standing(q, j)' /\ Holding(q, j)'
    <2>1. CASE q = p /\ j = n
        <3>1. Standing(p, n)'
            <4>1. tasks + 1 \in 1..tasks'
                BY <1>1
            <4> QED
                BY <1>1, <4>1 DEF Standing
        <3>2. step = "reload" /\ d \notin parted => saved[d] \subseteq store
            BY DEF EnvIInv, TasksAccumulate
        <3>3. Holding(p, n)'
            BY <1>1, <3>2 DEF Holding
        <3> QED
            BY <2>1, <3>1, <3>3
    <2>2. CASE ~(q = p /\ j = n)
        <3>1. Standing(q, j) /\ Holding(q, j)
            BY <1>0, <1>2, <1>3, <2>2 DEF FramesFit
        <3>2. j # Len(stack'[q]) => stack[q][j].step = "body"
            BY <1>2, <1>3, <2>2, <3>1 DEF Standing
        <3>3. stack[q][j].task \in 1..tasks'
            BY <1>1, <3>1 DEF Standing
        <3>4. Standing(q, j)'
            BY <1>2, <1>3, <2>2, <3>1, <3>2, <3>3 DEF Standing
        <3>5. Holding(q, j)'
            BY <1>1, <1>2, <1>3, <2>2, <3>1 DEF Holding
        <3> QED
            BY <3>4, <3>5
    <2> QED
        BY <2>1, <2>2
\* The object of another frame in d was open.
<1>4. ASSUME NEW q \in Clients, NEW j \in Frames(q), Of(q, j).dir = d
      PROVE  d \in parted'
    <2>1. stack[q][j].env \in Open(q, d)
        BY <1>0, <1>4 DEF FramesFit, Standing, Open, Of, Objects, Frames
    <2> QED
        BY <2>1 DEF Enters, Parted
<1>5. ASSUME NEW q \in Clients, NEW r \in Clients, NEW j \in Frames(q)', NEW k \in Frames(r)'
      PROVE  Parting(q, j, r, k)'
    <2>1. CASE q = p /\ j = n /\ r = p /\ k = n
        BY <2>1 DEF Parting
    <2>2. CASE q = p /\ j = n /\ ~(r = p /\ k = n)
        <3>1. k \in Frames(r) /\ Of(r, k)' = Of(r, k) /\ Of(q, j)'.dir = d
            BY <1>1, <1>2, <1>5, <2>2
        <3> QED
            BY <1>4, <3>1 DEF Parting
    <2>3. CASE ~(q = p /\ j = n) /\ r = p /\ k = n
        <3>1. Of(r, k)'.dir = d
            BY <1>1, <2>3
        <3>2. j \in Frames(q) /\ Of(q, j)' = Of(q, j)
            BY <1>2, <1>5, <2>3
        <3> QED
            BY <1>4, <3>1, <3>2 DEF Parting
    <2>4. CASE ~(q = p /\ j = n) /\ ~(r = p /\ k = n)
        <3>1. Parting(q, j, r, k)
            BY <1>0, <1>2, <1>5, <2>4 DEF FramesFit
        <3> QED
            BY <1>1, <1>2, <1>5, <2>4, <3>1 DEF Parting
    <2> QED
        BY <2>1, <2>2, <2>3, <2>4
<1> QED
    BY <1>3, <1>5 DEF FramesFit

\* A task enters with the object of its caller.
LEMMA SharingFits ==
    ASSUME EnvIInv, NEW p \in Clients, CallShared(p)
    PROVE  FramesFit' /\ EnvTyped' /\ SameStacks(p)
<1>0. EnvTyped /\ FramesFit
    BY DEF EnvIInv, FramesFit
<1> DEFINE m == Len(stack[p])
<1>n. PICK n \in Nat : n = Len(stack[p]) + 1
    BY <1>0, TypesOf
<1>1. /\ stack[p] # <<>> /\ m \in Frames(p) /\ Top(p) = stack[p][m]
      /\ stack[p][m].step = "body" /\ stack[p][m] \in TaskFrame
    BY <1>0, TypesOf DEF CallShared, In, Top
<1>2. PICK f \in TaskFrame : /\ f.task = tasks + 1 /\ f.env = Top(p).env
                             /\ f.step = "reload" /\ Push(p, f)
    <2> DEFINE f == [task |-> tasks + 1, env |-> Top(p).env, step |-> "reload"]
    <2>1. tasks + 1 \in 1..MaxTasks
        BY <1>0, EnvironmentAssumption DEF CallShared, EnvTyped
    <2>2. f \in TaskFrame
        BY <1>1, <2>1 DEF TaskFrame, Steps
    <2> QED
        BY <2>2 DEF CallShared
<1>3. /\ stack' \in [Clients -> Seq(TaskFrame)] /\ SameStacks(p)
      /\ Frames(p)' = Frames(p) \cup {n} /\ n \notin Frames(p) /\ Len(stack'[p]) = n
      /\ \A j \in Frames(p) : stack'[p][j] = stack[p][j]
      /\ stack'[p][n] = f
    BY <1>0, <1>n, <1>2, PushDoes DEF Pushes
<1>4. /\ tasks' = tasks + 1 /\ tasks \in Nat /\ tasks + 1 \in 1..tasks' /\ tasks' \in 0..MaxTasks
      /\ UNCHANGED <<file, link, heap, kills, saved, parted, linked>>
    BY <1>0, EnvironmentAssumption DEF CallShared, EnvTyped
<1>5. ASSUME NEW q \in Clients
      PROVE  Objects(q)' = Objects(q) /\ heap'[q] = heap[q]
    BY <1>4 DEF Objects
<1>6. ASSUME NEW q \in Clients, NEW j \in Frames(q)', ~(q = p /\ j = n)
      PROVE  /\ j \in Frames(q) /\ stack'[q][j] = stack[q][j]
             /\ q # p => Len(stack'[q]) = Len(stack[q])
    BY <1>3, <1>6 DEF SameStacks, Frames
\* The frame that a frame was, or that the new one is called from.
<1>7. ASSUME NEW q \in Clients, NEW j \in Frames(q)'
      PROVE  \E i \in Frames(q) :
                /\ stack'[q][j].env = stack[q][i].env /\ Of(q, j)' = Of(q, i)
                /\ i = j \/ (q = p /\ i = m)
                /\ stack'[q][j].step = stack[q][i].step \/ (i = m /\ q = p)
    <2>1. CASE q = p /\ j = n
        BY <1>1, <1>2, <1>3, <1>5, <2>1 DEF Of
    <2>2. CASE ~(q = p /\ j = n)
        BY <1>5, <1>6, <1>7, <2>2 DEF Of
    <2> QED
        BY <2>1, <2>2
<1>8. ASSUME NEW q \in Clients, NEW j \in Frames(q)'
      PROVE  Standing(q, j)'
    <2>1. CASE q = p /\ j = n
        <3>1. stack[p][m].env \in Objects(p)
            BY <1>0, <1>1 DEF FramesFit, Standing
        <3> QED
            BY <1>1, <1>2, <1>3, <1>4, <1>5, <2>1, <3>1 DEF Standing
    <2>2. CASE ~(q = p /\ j = n)
        <3>1. Standing(q, j) /\ stack'[q][j] = stack[q][j] /\ j \in Frames(q)
            BY <1>0, <1>6, <1>8, <2>2 DEF FramesFit
        <3>2. j # Len(stack'[q]) => stack[q][j].step = "body"
            BY <1>1, <1>6, <1>8, <2>2, <3>1 DEF Standing
        <3>3. stack[q][j].task \in 1..tasks' /\ Of(q, j)' = Of(q, j)
            BY <1>4, <1>5, <3>1 DEF Standing, Of
        <3> QED
            BY <1>4, <1>5, <3>1, <3>2, <3>3 DEF Standing
    <2> QED
        BY <2>1, <2>2
<1>9. ASSUME NEW q \in Clients, NEW j \in Frames(q)'
      PROVE  Holding(q, j)'
    <2>1. PICK i \in Frames(q) : /\ Of(q, j)' = Of(q, i)
                                 /\ stack'[q][j].step = stack[q][i].step \/ (i = m /\ q = p)
        BY <1>7, <1>9
    <2>2. Holding(q, i)
        BY <1>0 DEF FramesFit
    <2> QED
        BY <1>1, <1>4, <2>1, <2>2 DEF Holding
<1>10. ASSUME NEW q \in Clients, NEW r \in Clients, NEW j \in Frames(q)', NEW k \in Frames(r)'
      PROVE  Parting(q, j, r, k)'
    <2>1. PICK i \in Frames(q) : stack'[q][j].env = stack[q][i].env /\ Of(q, j)' = Of(q, i)
        BY <1>7, <1>10
    <2>2. PICK h \in Frames(r) : stack'[r][k].env = stack[r][h].env /\ Of(r, k)' = Of(r, h)
        BY <1>7, <1>10
    <2>3. Parting(q, i, r, h)
        BY <1>0 DEF FramesFit
    <2> QED
        BY <1>4, <2>1, <2>2, <2>3 DEF Parting
<1> QED
    BY <1>0, <1>3, <1>4, <1>8, <1>9, <1>10 DEF FramesFit, EnvTyped

\* A process is killed.
LEMMA KillingFits ==
    ASSUME EnvIInv, NEW p \in Clients, Kill(p)
    PROVE  FramesFit' /\ EnvTyped' /\ SameStacks(p)
<1>0. EnvTyped /\ FramesFit
    BY DEF EnvIInv, FramesFit
<1>1. /\ UNCHANGED <<file, link, tasks, saved, parted, linked>> /\ kills' \in 0..MaxKills
      /\ stack' \in [Clients -> Seq(TaskFrame)] /\ heap' \in [Clients -> Seq(Object)]
      /\ stack'[p] = <<>> /\ SameStacks(p) /\ SameHeaps(p)
    BY <1>0, EmptySeq, EnvironmentAssumption DEF Kill, EnvTyped, SameStacks, SameHeaps
<1>2. Frames(p)' = {}
    BY <1>1 DEF Frames
<1>3. ASSUME NEW q \in Clients, NEW j \in Frames(q)'
      PROVE  /\ j \in Frames(q) /\ Len(stack'[q]) = Len(stack[q])
             /\ stack'[q][j] = stack[q][j] /\ Of(q, j)' = Of(q, j)
             /\ Objects(q)' = Objects(q)
    <2>1. q # p /\ stack'[q] = stack[q] /\ heap'[q] = heap[q]
        BY <1>1, <1>2, <1>3 DEF SameStacks, SameHeaps
    <2> QED
        BY <1>3, <2>1, OthersFit
<1>4. ASSUME NEW q \in Clients, NEW j \in Frames(q)'
      PROVE  Standing(q, j)' /\ Holding(q, j)'
    <2>1. Standing(q, j) /\ Holding(q, j)
        BY <1>0, <1>3, <1>4 DEF FramesFit
    <2> QED
        BY <1>1, <1>3, <1>4, <2>1 DEF Standing, Holding
<1>5. ASSUME NEW q \in Clients, NEW r \in Clients, NEW j \in Frames(q)', NEW k \in Frames(r)'
      PROVE  Parting(q, j, r, k)'
    <2>1. Parting(q, j, r, k)
        BY <1>0, <1>3, <1>5 DEF FramesFit
    <2> QED
        BY <1>1, <1>3, <1>5, <2>1 DEF Parting
<1> QED
    BY <1>0, <1>1, <1>4, <1>5 DEF FramesFit, EnvTyped

-----------------------------------------------------------------------------
(* The files and the link *)

LEMMA InStays ==
    ASSUME NEW p \in Clients, NEW q \in Clients \ {p}, SameStacks(p), NEW step
    PROVE  /\ In(q, step)' <=> In(q, step)
           /\ SameHeaps(p) => Env(q)' = Env(q)
    BY DEF SameStacks, SameHeaps, In, Top, Env

\* p changes no file; if it was writing one, it was killed.
LEMMA FilesQuiet ==
    ASSUME EnvIInv, NEW p \in Clients, UNCHANGED <<file, saved>>, parted \subseteq parted',
           \/ /\ kills' = kills /\ SameStacks(p) /\ SameHeaps(p)
              /\ ~In(p, "fill") /\ ~In(p, "write")
           \/ kills' # 0
    PROVE  TasksAccumulate'
<1>1. ASSUME NEW d \in Dirs, d \notin parted', file'[d].ok
      PROVE  saved'[d] \subseteq file'[d].store
    BY <1>1 DEF EnvIInv, TasksAccumulate
<1>2. ASSUME NEW d \in Dirs, file'[d] = Truncated, kills' = 0
      PROVE  \E q \in Clients : (In(q, "fill") \/ In(q, "write"))' /\ Env(q)'.dir = d
    <2>1. PICK q \in Clients : (In(q, "fill") \/ In(q, "write")) /\ Env(q).dir = d
        BY <1>2 DEF EnvIInv, TasksAccumulate
    <2>2. q \in Clients \ {p} /\ SameStacks(p) /\ SameHeaps(p)
        BY <1>2, <2>1
    <2>3. (In(q, "fill") \/ In(q, "write"))' /\ Env(q)' = Env(q)
        BY <2>1, <2>2, InStays
    <2> QED
        BY <2>1, <2>3
<1> QED
    BY <1>1, <1>2 DEF TasksAccumulate, Truncated, NoFile

LEMMA LinkQuiet ==
    ASSUME EnvIInv, NEW p \in Clients, UNCHANGED link, FilesStay,
           \/ /\ UNCHANGED <<linked, kills>> /\ SameStacks(p) /\ ~In(p, "symlink")
           \/ kills' # 0
    PROVE  (link # NoDir => file[link].exists)' /\ Relinked'
<1>1. (link # NoDir => file[link].exists)'
    BY DEF EnvIInv, EnvTyped, FilesStay
<1>2. Relinked'
    BY InStays DEF EnvIInv, Relinked
<1> QED
    BY <1>1, <1>2

\* The parts of the invariant make it.
LEMMA Whole ==
    ASSUME EnvTyped', FramesFit', TasksAccumulate',
           (link # NoDir => file[link].exists)', Relinked'
    PROVE  EnvIInv'
    BY DEF EnvIInv, FramesFit

LEMMA EntersKeeps ==
    ASSUME EnvIInv, NEW p \in Clients, NEW d \in Dirs, CallNew(p, d) \/ CallLoad(p, d)
    PROVE  EnvIInv'
<1>0. EnvTyped
    BY DEF EnvIInv
<1>1. PICK store \in Content, step \in {"create", "reload"} :
          /\ Enter(p, d, store, step)
          /\ step = "create" \/ (step = "reload" /\ file[d].ok /\ store = file[d].store)
    BY <1>0 DEF CallNew, CallLoad, EnvTyped, File, Content
<1>2. /\ MayCall(p) /\ tasks < MaxTasks /\ UNCHANGED <<file, link, kills, saved, linked>>
      /\ {"create", "reload"} \subseteq Steps
    BY DEF CallNew, CallLoad, Steps
<1>3. Enters(p, d, store, step) /\ tasks' \in 0..MaxTasks /\ parted' \in SUBSET Dirs
    BY <1>0, <1>1, <1>2, EnterDoes
<1>4. FramesFit'
    BY <1>1, <1>2, <1>3, EnteringFits
<1>5. EnvTyped'
    BY <1>0, <1>2, <1>3 DEF EnvTyped, Enters, Pushes
<1>6. /\ parted \subseteq parted' /\ SameStacks(p) /\ SameHeaps(p) /\ FilesStay
      /\ ~In(p, "fill") /\ ~In(p, "write") /\ ~In(p, "symlink")
    BY <1>2, <1>3 DEF Enters, Pushes, Parted, FilesStay, MayCall, In
<1>7. TasksAccumulate'
    BY <1>2, <1>6, FilesQuiet
<1> QED
    BY <1>2, <1>4, <1>5, <1>6, <1>7, LinkQuiet, Whole

LEMMA SharesKeeps ==
    ASSUME EnvIInv, NEW p \in Clients, CallShared(p)
    PROVE  EnvIInv'
<1>1. /\ UNCHANGED <<file, link, kills, saved, linked, parted>> /\ SameHeaps(p) /\ FilesStay
      /\ ~In(p, "fill") /\ ~In(p, "write") /\ ~In(p, "symlink")
    BY DEF CallShared, In, SameHeaps, FilesStay
<1>2. FramesFit' /\ EnvTyped' /\ SameStacks(p)
    BY SharingFits
<1>3. TasksAccumulate'
    BY <1>1, <1>2, FilesQuiet
<1> QED
    BY <1>1, <1>2, <1>3, LinkQuiet, Whole

LEMMA KillKeeps ==
    ASSUME EnvIInv, NEW p \in Clients, Kill(p)
    PROVE  EnvIInv'
<1>1. UNCHANGED <<file, link, saved, linked, parted>> /\ kills' # 0 /\ FilesStay
    BY EnvironmentAssumption DEF Kill, FilesStay, EnvIInv, EnvTyped
<1>2. FramesFit' /\ EnvTyped' /\ SameStacks(p)
    BY KillingFits
<1>3. TasksAccumulate'
    BY <1>1, FilesQuiet
<1> QED
    BY <1>1, <1>2, <1>3, LinkQuiet, Whole

\* The innermost task is in its body, or reloads the configuration.
LEMMA BodyKeeps ==
    ASSUME EnvIInv, NEW p \in Clients, ReloadConfig(p) \/ Body(p) \/ BodyRaises(p)
    PROVE  EnvIInv'
<1> DEFINE n == Len(stack[p])
           i == Top(p).env
<1>0. EnvTyped
    BY DEF EnvIInv
<1>1. /\ stack[p] # <<>> /\ Top(p).step \in {"reload", "body"} /\ n \in Frames(p)
      /\ Top(p) = stack[p][n] /\ Top(p) \in TaskFrame
    BY <1>0, TypesOf DEF ReloadConfig, Body, BodyRaises, In, Top
<1>2. i \in Objects(p) /\ heap[p][i] \in Object
    <2>1. i \in Objects(p)
        BY <1>1 DEF EnvIInv, Standing
    <2> QED
        BY <1>0, <2>1, TypesOf
<1>3. PICK store \in Content, step \in {"body", "open"} :
          /\ heap' = [heap EXCEPT ![p][i].store = store] /\ GoTo(p, step)
          /\ heap[p][i].store \subseteq store
          /\ step = "open" => Top(p).task \in store
    <2>1. heap[p][i].store \in Content /\ Top(p).task \in 1..MaxTasks
        BY <1>1, <1>2 DEF Object, TaskFrame
    <2>2. ASSUME NEW yaml \in SUBSET ConfKeys
          PROVE  Reloaded(heap[p][i].store, yaml) \in Content
                 /\ heap[p][i].store \subseteq Reloaded(heap[p][i].store, yaml)
        BY <2>1 DEF Reloaded, Content
    <2>3. ASSUME NEW names \in SUBSET {CONFIG}
          PROVE  heap[p][i].store \cup {Top(p).task} \cup names \in Content
        BY <2>1 DEF Content
    <2>4. heap[p][i].store \cup {Top(p).task} \in Content
        BY <2>1 DEF Content
    <2>5. CASE ReloadConfig(p)
        <3>1. PICK yaml \in SUBSET ConfKeys :
                 heap' = [heap EXCEPT ![p][i].store = Reloaded(heap[p][i].store, yaml)]
            BY <2>5 DEF ReloadConfig
        <3> QED
            BY <2>2, <2>5, <3>1 DEF ReloadConfig
    <2>6. CASE Body(p)
        <3>1. PICK names \in SUBSET {CONFIG} :
                 heap' = [heap EXCEPT ![p][i].store =
                             heap[p][i].store \cup {Top(p).task} \cup names]
            BY <2>6 DEF Body
        <3> QED
            BY <2>3, <2>6, <3>1 DEF Body
    <2>7. CASE BodyRaises(p)
        <3>1. heap' = [heap EXCEPT ![p][i].store = heap[p][i].store \cup {Top(p).task}]
            BY <2>7 DEF BodyRaises
        <3> QED
            BY <2>4, <2>7, <3>1 DEF BodyRaises
    <2> QED
        BY <2>5, <2>6, <2>7
<1>4. Stores(p, i, store) /\ Goes(p, step)
    BY <1>0, <1>1, <1>2, <1>3, StoreDoes, GoToDoes DEF Steps
<1>5. /\ UNCHANGED <<file, link, tasks, kills, saved, parted, linked>> /\ FilesStay
      /\ ~In(p, "fill") /\ ~In(p, "write") /\ ~In(p, "symlink")
    BY <1>1 DEF ReloadConfig, Body, BodyRaises, FilesStay, In
<1>6. Grown(p)
    BY <1>2, <1>3, <1>4 DEF Stores, Grown
<1>7. FramesFit'
    <2>1. step = "open" => Top(p).task \in heap'[p][i].store
        BY <1>3, <1>4 DEF Stores
    <2>2. \A d \in Dirs : saved'[d] \subseteq saved[d]
        BY <1>5
    <2> QED
        BY <1>1, <1>3, <1>4, <1>5, <1>6, <2>1, <2>2, GoingFits
<1>8. EnvTyped'
    BY <1>0, <1>4, <1>5 DEF EnvTyped, Goes, Stores
<1>9. SameStacks(p) /\ SameHeaps(p)
    BY <1>4 DEF Goes, Stores
<1>10. TasksAccumulate'
    BY <1>5, <1>9, FilesQuiet
<1> QED
    BY <1>5, <1>7, <1>8, <1>9, <1>10, LinkQuiet, Whole

\* What the invariant says of the innermost task.
LEMMA TopIs ==
    ASSUME EnvIInv, NEW p \in Clients, stack[p] # <<>>
    PROVE  /\ Len(stack[p]) \in Frames(p) /\ Top(p) = stack[p][Len(stack[p])]
           /\ Top(p) \in TaskFrame /\ Top(p).env \in Objects(p)
           /\ Env(p) = Of(p, Len(stack[p])) /\ Env(p) \in Object /\ Env(p).dir \in Dirs
           /\ Standing(p, Len(stack[p])) /\ Holding(p, Len(stack[p]))
<1>1. /\ EnvTyped /\ Len(stack[p]) \in Frames(p) /\ Top(p) = stack[p][Len(stack[p])]
      /\ Top(p) \in TaskFrame /\ Env(p) = Of(p, Len(stack[p]))
    BY TypesOf DEF EnvIInv, Top, Env, Of
<1>2. Standing(p, Len(stack[p])) /\ Holding(p, Len(stack[p]))
    BY <1>1 DEF EnvIInv
<1>3. Top(p).env \in Objects(p) /\ Env(p) \in Object
    BY <1>1, <1>2, TypesOf DEF Standing, Env
<1> QED
    BY <1>1, <1>2, <1>3 DEF Object

\* Where the innermost task went.
LEMMA GoneIn ==
    ASSUME EnvIInv, NEW p \in Clients, NEW step, stack[p] # <<>>, Goes(p, step)
    PROVE  In(p, step)' /\ (UNCHANGED heap => Env(p)' = Env(p))
<1>1. Len(stack[p]) \in Frames(p)
    BY TopIs
<1>2. stack'[p] # <<>>
    BY <1>1 DEF Goes, Frames
<1>3. Top(p)' = stack'[p][Len(stack[p])]
    BY DEF Goes, Top
<1> QED
    BY <1>2, <1>3 DEF Goes, In, Env

\* The task changes the link.
LEMMA LinksKeep ==
    ASSUME EnvIInv, NEW p \in Clients, LinkExists(p) \/ Unlink(p) \/ SymlinkTo(p)
    PROVE  EnvIInv'
<1>0. EnvTyped
    BY DEF EnvIInv
<1>1. /\ stack[p] # <<>> /\ Top(p).step \in {"exists", "unlink", "symlink"}
      /\ UNCHANGED <<file, heap, tasks, kills, saved, parted>> /\ FilesStay
      /\ ~In(p, "fill") /\ ~In(p, "write")
    BY DEF LinkExists, Unlink, SymlinkTo, In, FilesStay
<1>2. /\ Env(p).dir \in Dirs /\ file[Env(p).dir].exists /\ Top(p).step \notin {"create", "fill"}
    BY <1>1, TopIs DEF Standing
<1>3. PICK step \in {"unlink", "symlink", "reload"} :
          /\ GoTo(p, step)
          /\ Unlink(p) /\ link # NoDir => step = "symlink"
    BY DEF LinkExists, Unlink, SymlinkTo, In
<1>4. Goes(p, step)
    BY <1>0, <1>1, <1>3, GoToDoes DEF Steps
<1>5. SameStacks(p) /\ SameHeaps(p) /\ Grown(p)
    BY <1>1, <1>4 DEF Goes, SameHeaps, Grown, Objects
<1>6. FramesFit'
    <2>1. \A d \in Dirs : saved'[d] \subseteq saved[d]
        BY <1>1
    <2> QED
        BY <1>1, <1>2, <1>3, <1>4, <1>5, <2>1, GoingFits
<1>7. link' \in Dirs \cup {NoDir} /\ linked' \in BOOLEAN
    BY <1>0, <1>2 DEF EnvTyped, LinkExists, Unlink, SymlinkTo
<1>8. EnvTyped'
    BY <1>0, <1>1, <1>4, <1>7 DEF EnvTyped, Goes
<1>9. TasksAccumulate'
    BY <1>1, <1>5, FilesQuiet
<1>10. (link # NoDir => file[link].exists)' /\ Relinked'
    <2>1. CASE LinkExists(p)
        BY <1>1, <1>5, <2>1, LinkQuiet DEF LinkExists, In
    <2>2. CASE Unlink(p)
        <3>1. link' = NoDir /\ linked' = linked /\ Top(p).step = "unlink"
            BY <2>2 DEF Unlink, In
        <3>2. CASE link # NoDir
            BY <1>1, <1>3, <1>4, <2>2, <3>1, <3>2, GoneIn DEF Relinked
        <3>3. CASE link = NoDir
            <4>1. ASSUME linked, kills = 0
                  PROVE  \E q \in Clients : In(q, "symlink")'
                <5>1. PICK q \in Clients : In(q, "symlink")
                    BY <3>3, <4>1 DEF EnvIInv, Relinked
                <5>2. q # p
                    BY <3>1, <5>1 DEF In
                <5> QED
                    BY <1>5, <5>1, <5>2, InStays
            <4> QED
                BY <1>1, <3>1, <4>1 DEF Relinked
        <3> QED
            BY <3>2, <3>3
    <2>3. CASE SymlinkTo(p)
        <3>1. link' # NoDir
            BY <1>2, <2>3, EnvironmentAssumption DEF SymlinkTo, NoDir
        <3>2. file[link'].exists
            BY <1>2, <2>3 DEF SymlinkTo, EnvIInv
        <3> QED
            BY <1>1, <3>1, <3>2 DEF Relinked
    <2> QED
        BY <2>1, <2>2, <2>3
<1> QED
    BY <1>6, <1>8, <1>9, <1>10, Whole

\* p changes a file, and those of other directories are as they were.
LEMMA FilesOther ==
    ASSUME EnvIInv, NEW p \in Clients, stack[p] # <<>>, SameStacks(p), SameHeaps(p),
           kills' = kills, parted' = parted,
           NEW d \in Dirs \ {Env(p).dir}, file'[d] = file[d], saved'[d] = saved[d]
    PROVE  /\ d \notin parted' /\ file'[d].ok => saved'[d] \subseteq file'[d].store
           /\ file'[d] = Truncated /\ kills' = 0 =>
                 \E q \in Clients : (In(q, "fill") \/ In(q, "write"))' /\ Env(q)'.dir = d
<1>1. d \notin parted' /\ file'[d].ok => saved'[d] \subseteq file'[d].store
    BY DEF EnvIInv, TasksAccumulate
<1>2. ASSUME file'[d] = Truncated, kills' = 0
      PROVE  \E q \in Clients : (In(q, "fill") \/ In(q, "write"))' /\ Env(q)'.dir = d
    <2>1. PICK q \in Clients : (In(q, "fill") \/ In(q, "write")) /\ Env(q).dir = d
        BY <1>2 DEF EnvIInv, TasksAccumulate
    <2>2. q \in Clients \ {p}
        BY <2>1
    <2>3. (In(q, "fill") \/ In(q, "write"))' /\ Env(q)' = Env(q)
        BY <2>1, <2>2, InStays
    <2> QED
        BY <2>1, <2>3
<1> QED
    BY <1>1, <1>2

\* The task opens its file, or fills that of a new environment.
LEMMA OpensKeep ==
    ASSUME EnvIInv, NEW p \in Clients, OpenFile(p) \/ FillNew(p)
    PROVE  EnvIInv'
<1> DEFINE e == Env(p).dir
<1>0. EnvTyped
    BY DEF EnvIInv
<1>1. /\ stack[p] # <<>> /\ Top(p).step \in {"create", "open", "fill"}
      /\ UNCHANGED <<link, heap, tasks, kills, parted, linked>>
      /\ ~In(p, "symlink")
    BY DEF OpenFile, FillNew, In
<1>2. e \in Dirs /\ Standing(p, Len(stack[p])) /\ Top(p) = stack[p][Len(stack[p])]
      /\ Env(p) = Of(p, Len(stack[p]))
    BY <1>1, TopIs
<1>3. PICK step \in {"write", "fill", "exists", "reload"}, v \in File, s \in {saved[e], {}} :
          /\ GoTo(p, step) /\ file' = [file EXCEPT ![e] = v]
          /\ saved' = [saved EXCEPT ![e] = s] /\ v.exists
          /\ Top(p).step = "open" <=> step = "write"
          /\ Top(p).step = "create" <=> step = "fill"
          /\ step \in {"exists", "reload"} => s = {} /\ v # Truncated
          /\ step \in {"write", "fill"} => ~v.ok
    <2>1. CASE OpenFile(p)
        <3>1. Truncated \in File /\ Truncated.exists /\ ~Truncated.ok
            BY DEF Truncated, NoFile, File, Content
        <3>2. saved' = [saved EXCEPT ![e] = saved[e]]
            BY <1>0, <1>2, <2>1 DEF OpenFile, EnvTyped
        <3> QED
            BY <2>1, <3>1, <3>2 DEF OpenFile, In
    <2>2. CASE FillNew(p)
        <3>1. Dumped({}) \in File /\ Dumped({}).exists /\ Dumped({}) # Truncated
            BY DEF Dumped, Truncated, NoFile, File, Content
        <3>2. PICK step \in {"exists", "reload"} : GoTo(p, step)
            BY <2>2 DEF FillNew
        <3> QED
            BY <2>2, <3>1, <3>2 DEF FillNew, In
    <2> QED
        BY <2>1, <2>2
<1> HIDE DEF e
<1>4. Goes(p, step)
    BY <1>0, <1>1, <1>3, GoToDoes DEF Steps
<1>5. SameStacks(p) /\ SameHeaps(p) /\ Grown(p)
    BY <1>1, <1>4 DEF Goes, SameHeaps, Grown, Objects
<1>6. /\ file' \in [Dirs -> File] /\ file'[e] = v
      /\ \A d \in Dirs \ {e} : file'[d] = file[d] /\ saved'[d] = saved[d]
      /\ saved' \in [Dirs -> SUBSET (1..MaxTasks)] /\ saved'[e] = s
      /\ \A d \in Dirs : saved'[d] \subseteq saved[d]
    BY <1>0, <1>2, <1>3 DEF EnvTyped
<1>7. FilesStay
    BY <1>3, <1>6 DEF FilesStay
<1>8. EnvTyped'
    BY <1>0, <1>1, <1>4, <1>6 DEF EnvTyped, Goes
<1>9. FramesFit'
    <2>1. step \in {"open", "write"} => Top(p).task \in heap'[p][Top(p).env].store
        BY <1>1, <1>2, <1>3 DEF Standing, Of
    <2>2. step \in {"exists", "unlink", "symlink"} => file'[Env(p).dir].exists
        BY <1>3, <1>6 DEF e
    <2>3. Top(p).step \in {"create", "fill"} /\ step \notin {"create", "fill"} =>
              saved'[Env(p).dir] = {}
        BY <1>3, <1>6 DEF e
    <2> QED
        BY <1>1, <1>4, <1>5, <1>6, <1>7, <2>1, <2>2, <2>3, GoingFits
<1>10. TasksAccumulate'
    <2>1. ASSUME NEW d \in Dirs
          PROVE  /\ d \notin parted' /\ file'[d].ok => saved'[d] \subseteq file'[d].store
                 /\ file'[d] = Truncated /\ kills' = 0 =>
                    \E q \in Clients : (In(q, "fill") \/ In(q, "write"))' /\ Env(q)'.dir = d
        <3>1. CASE d # e
            <4>1. d \in Dirs \ {Env(p).dir} /\ file'[d] = file[d] /\ saved'[d] = saved[d]
                BY <1>6, <2>1, <3>1 DEF e
            <4> QED
                BY <1>1, <1>5, <4>1, FilesOther
        <3>2. CASE d = e /\ step \in {"exists", "reload"}
            BY <1>3, <1>6, <3>2
        <3>3. CASE d = e /\ step \in {"write", "fill"}
            <4>1. In(p, step)' /\ Env(p)'.dir = d
                BY <1>1, <1>4, <3>3, GoneIn DEF e
            <4> QED
                BY <1>3, <1>6, <3>3, <4>1
        <3> QED
            BY <1>3, <3>1, <3>2, <3>3
    <2> QED
        BY <2>1 DEF TasksAccumulate, Truncated, NoFile
<1> QED
    BY <1>1, <1>5, <1>7, <1>8, <1>9, <1>10, LinkQuiet, Whole

\* The task writes its file, and is over.
LEMMA WriteKeeps ==
    ASSUME EnvIInv, NEW p \in Clients, WriteFile(p)
    PROVE  EnvIInv'
<1> DEFINE e == Env(p).dir
           n == Len(stack[p])
<1>0. EnvTyped
    BY DEF EnvIInv
<1>1. /\ stack[p] # <<>> /\ Top(p).step = "write" /\ ~In(p, "symlink")
      /\ UNCHANGED <<link, heap, tasks, kills, parted, linked>>
    BY DEF WriteFile, In
<1>2. /\ e \in Dirs /\ Env(p) \in Object /\ Top(p).task \in 1..MaxTasks
      /\ Top(p).task \in Env(p).store
      /\ e \notin parted => saved[e] \subseteq Env(p).store
    BY <1>1, TopIs DEF Standing, Holding, TaskFrame
<1>3. FramesFit' /\ Pops(p)
    BY WritingFits
<1>4. SameStacks(p) /\ SameHeaps(p)
    BY <1>1, <1>3 DEF Pops, SameHeaps
<1>5. Dumped(Env(p).store) \in File /\ Dumped(Env(p).store).exists
      /\ Dumped(Env(p).store) # Truncated /\ Dumped(Env(p).store).store = Env(p).store
    BY <1>2 DEF Dumped, Truncated, NoFile, File, Object
<1>6. /\ file' \in [Dirs -> File] /\ file'[e] = Dumped(Env(p).store)
      /\ \A d \in Dirs \ {e} : file'[d] = file[d] /\ saved'[d] = saved[d]
      /\ saved' \in [Dirs -> SUBSET (1..MaxTasks)] /\ saved'[e] = saved[e] \cup {Top(p).task}
    BY <1>0, <1>2, <1>5 DEF EnvTyped, WriteFile
<1>7. FilesStay
    BY <1>5, <1>6 DEF FilesStay
<1>8. EnvTyped'
    BY <1>0, <1>1, <1>3, <1>6 DEF EnvTyped, Pops
<1>9. TasksAccumulate'
    <2>1. ASSUME NEW d \in Dirs
          PROVE  /\ d \notin parted' /\ file'[d].ok => saved'[d] \subseteq file'[d].store
                 /\ file'[d] = Truncated /\ kills' = 0 =>
                    \E q \in Clients : (In(q, "fill") \/ In(q, "write"))' /\ Env(q)'.dir = d
        <3>1. CASE d # e
            <4>1. d \in Dirs \ {Env(p).dir} /\ file'[d] = file[d] /\ saved'[d] = saved[d]
                BY <1>6, <2>1, <3>1
            <4> QED
                BY <1>1, <1>4, <4>1, FilesOther
        <3>2. CASE d = e
            BY <1>1, <1>2, <1>5, <1>6, <3>2
        <3> QED
            BY <3>1, <3>2
    <2> QED
        BY <2>1 DEF TasksAccumulate, Truncated, NoFile
<1> QED
    BY <1>1, <1>3, <1>4, <1>7, <1>8, <1>9, LinkQuiet, Whole

-----------------------------------------------------------------------------
(* The theorems *)

LEMMA EnvStarts == EnvInit => EnvIInv
<1> SUFFICES ASSUME EnvInit PROVE EnvIInv
    OBVIOUS
<1>1. NoFile \in File /\ NoFile # Truncated /\ ~NoFile.ok
    BY DEF NoFile, Truncated, File, Content
<1>2. EnvTyped
    <2>1. \A S : <<>> \in Seq(S)
        BY EmptySeq
    <2>2. heap \in [Clients -> Seq(Object)] /\ stack \in [Clients -> Seq(TaskFrame)]
        BY <2>1 DEF EnvInit
    <2>3. file \in [Dirs -> File] /\ saved \in [Dirs -> SUBSET (1..MaxTasks)]
        BY <1>1 DEF EnvInit
    <2>4. link \in Dirs \cup {NoDir} /\ parted \in SUBSET Dirs /\ linked \in BOOLEAN
        BY DEF EnvInit
    <2>5. tasks \in 0..MaxTasks /\ kills \in 0..MaxKills
        BY EnvironmentAssumption DEF EnvInit
    <2> QED
        BY <2>2, <2>3, <2>4, <2>5 DEF EnvTyped
<1>3. \A p \in Clients : Frames(p) = {}
    BY <1>2, TypesOf DEF EnvInit
<1>4. TasksAccumulate
    BY <1>1 DEF EnvInit, TasksAccumulate
<1> QED
    BY <1>2, <1>3, <1>4 DEF EnvIInv, EnvInit, Relinked

LEMMA EnvStays == EnvIInv /\ [EnvNext]_envVars => EnvIInv'
<1> SUFFICES ASSUME EnvIInv, [EnvNext]_envVars PROVE EnvIInv'
    OBVIOUS
<1>1. ASSUME NEW p \in Clients, NEW d \in Dirs, CallNew(p, d) \/ CallLoad(p, d)
      PROVE  EnvIInv'
    BY <1>1, EntersKeeps
<1>2. ASSUME NEW p \in Clients, CallLink(p)
      PROVE  EnvIInv'
    BY <1>2, EntersKeeps DEF CallLink, EnvIInv, EnvTyped
<1>3. ASSUME NEW p \in Clients, CallShared(p)
      PROVE  EnvIInv'
    BY <1>3, SharesKeeps
<1>4. ASSUME NEW p \in Clients, LinkExists(p) \/ Unlink(p) \/ SymlinkTo(p)
      PROVE  EnvIInv'
    BY <1>4, LinksKeep
<1>5. ASSUME NEW p \in Clients, ReloadConfig(p) \/ Body(p) \/ BodyRaises(p)
      PROVE  EnvIInv'
    BY <1>5, BodyKeeps
<1>6. ASSUME NEW p \in Clients, OpenFile(p) \/ FillNew(p)
      PROVE  EnvIInv'
    BY <1>6, OpensKeep
<1>7. ASSUME NEW p \in Clients, WriteFile(p)
      PROVE  EnvIInv'
    BY <1>7, WriteKeeps
<1>8. ASSUME NEW p \in Clients, Kill(p)
      PROVE  EnvIInv'
    BY <1>8, KillKeeps
<1>9. CASE UNCHANGED envVars
    <2>1. /\ file' = file /\ link' = link /\ heap' = heap /\ stack' = stack /\ tasks' = tasks
          /\ kills' = kills /\ saved' = saved /\ parted' = parted /\ linked' = linked
        BY <1>9 DEF envVars
    <2>2. EnvTyped'
        BY <2>1 DEF EnvIInv, EnvTyped
    <2>3. \A p \in Clients : Frames(p)' = Frames(p)
        BY <2>1 DEF Frames
    <2>4. (\A p \in Clients : \A j \in Frames(p) : Standing(p, j) /\ Holding(p, j))'
        BY <2>1, <2>3 DEF EnvIInv, Objects, Of, Standing, Holding, In, Top, Env
    <2>5. (\A p, q \in Clients : \A j \in Frames(p), k \in Frames(q) : Parting(p, j, q, k))'
        BY <2>1, <2>3 DEF EnvIInv, Of, Parting, In, Top, Env
    <2>6. (TasksAccumulate /\ (link # NoDir => file[link].exists) /\ Relinked)'
        BY <2>1 DEF EnvIInv, TasksAccumulate, Relinked, In, Top, Env
    <2> QED
        BY <2>2, <2>4, <2>5, <2>6 DEF EnvIInv
<1> QED
    BY <1>1, <1>2, <1>3, <1>4, <1>5, <1>6, <1>7, <1>8, <1>9 DEF EnvNext

LEMMA EnvAlways == EnvSpec => []EnvIInv
    BY EnvStarts, EnvStays, PTL DEF EnvSpec

\* Type correctness of the environments, for any number of processes,
\* directories, tasks and kills: the stores, the objects and the frames of
\* get_or_create_env and enostask.
THEOREM EnvTypeCorrect == EnvSpec => []EnvTypeOK
<1>1. ASSUME EnvIInv PROVE EnvTypeOK
    <2>1. EnvTyped
        BY <1>1 DEF EnvIInv
    <2>2. \A d \in Dirs : file[d] \in [ok : BOOLEAN, exists : BOOLEAN, store : Content]
        BY <2>1 DEF EnvTyped, File
    <2>3. ASSUME NEW p \in Clients, NEW i \in 1..Len(heap[p])
          PROVE  heap[p][i].dir \in Dirs /\ heap[p][i].store \in Content
        BY <2>1, <2>3, TypesOf DEF Objects, Object
    <2>4. ASSUME NEW p \in Clients, NEW i \in 1..Len(stack[p])
          PROVE  /\ stack[p][i].step \in Steps
                 /\ stack[p][i].env \in 1..Len(heap[p])
                 /\ stack[p][i].task \in 1..tasks
        <3>1. stack[p][i] \in TaskFrame /\ Standing(p, i)
            BY <1>1, <2>1, <2>4, TypesOf DEF EnvIInv, Frames
        <3> QED
            BY <3>1 DEF TaskFrame, Standing, Objects
    <2> QED
        BY <2>1, <2>2, <2>3, <2>4 DEF EnvTypeOK, EnvTyped
<1> QED
    BY <1>1, EnvAlways, PTL

\* Nothing that the tasks of an experiment stored is lost, whatever the
\* processes, the nested tasks and the kills, while no two objects of the
\* directory were in use at a time; and without kills a file that cannot be
\* loaded is being written (enostask, get_or_create_env, dump).
THEOREM StoresAccumulate == EnvSpec => []TasksAccumulate
    BY EnvAlways, PTL DEF EnvIInv

\* The link leads to an environment, and without kills it exists once made
\* unless some process is changing it, whatever the order of the calls of
\* _symlink_to and the errors swallowed.
THEOREM LinkStays == EnvSpec => []LinkKept
<1>1. EnvIInv => LinkKept
    BY DEF EnvIInv, LinkKept, Relinked, Linking
<1> QED
    BY <1>1, EnvAlways, PTL

-----------------------------------------------------------------------------
(* The configuration: vocabulary and inductive invariant *)

FileName == Seq(Nat \ {0})
Setting == [auto_jump : Jumps \cup {None}, stdout : Stdouts, dump : FileName \cup {NoDump}]

ConfTyped ==
    /\ config \in Setting
    /\ blocks \in Seq(Setting) /\ Len(blocks) <= MaxNesting
    /\ IsFiniteSet(DOMAIN dumps) /\ DOMAIN dumps \subseteq FileName
    /\ \A n \in DOMAIN dumps : dumps[n] \in SUBSET (1..choices)
    /\ choices \in 0..MaxChoices
    /\ outer \in [auto_jump : Jumps \cup {None}, stdout : Stdouts]

\* The configuration outside every block: the outermost block has kept it.
Outermost == IF blocks = <<>> THEN config ELSE blocks[1]

Restorable ==
    /\ outer.auto_jump # None => Outermost.auto_jump = outer.auto_jump
    /\ Outermost.stdout = outer.stdout

\* The file being written holds the results of the last choice, the others of
\* one choice each.
OneChoice ==
    /\ config.dump # NoDump => choices >= 1
    /\ config.dump \in DOMAIN dumps => dumps[config.dump] = {choices}
    /\ \A n \in DOMAIN dumps : Cardinality(dumps[n]) = 1

ConfIInv == ConfTyped /\ Restorable /\ OneChoice

-----------------------------------------------------------------------------
(* A free name *)

LEMMA LeastOf ==
    ASSUME NEW S \in SUBSET Nat, S # {}
    PROVE  \E x \in S : \A y \in S : x <= y
<1> DEFINE R == OpToRel(<, Nat)
<1>1. IsWellFoundedOn(R, Nat)
    BY NatLessThanWellFounded
<1>2. \A x, y \in Nat : y < x => <<y, x>> \in R
    BY DEF OpToRel
<1> HIDE DEF R
<1>3. PICK x \in S : \A y \in S : <<y, x>> \notin R
    BY <1>1, WFMin
<1>4. \A y \in S : x <= y
    <2> TAKE y \in S
    <2>1. x \in Nat /\ y \in Nat /\ ~(y < x)
        BY <1>2, <1>3
    <2> QED
        BY <2>1
<1> QED
    BY <1>4

\* The first suffix that is not taken is found among as many as there are files.
LEMMA FreeIs ==
    ASSUME IsFiniteSet(DOMAIN dumps), DOMAIN dumps \subseteq FileName, NEW n \in FileName
    PROVE  Free(n) \in FileName /\ Free(n) \notin DOMAIN dumps
<1>1. CASE n \notin DOMAIN dumps
    BY <1>1 DEF Free
<1>2. CASE n \in DOMAIN dumps
    <2> DEFINE files == Cardinality(DOMAIN dumps)
               taken == {i \in 1..files : Append(n, i) \in DOMAIN dumps}
               many == Cardinality(taken)
               P(i) == i \notin taken /\ 1..(i - 1) \subseteq taken
               first == CHOOSE i \in 1..(many + 1) : P(i)
    <2>1. Free(n) = Append(n, first)
        BY <1>2 DEF Free
    <2>2. \A i \in Nat \ {0} : Append(n, i) \in FileName /\ Append(n, i) # n
        <3> TAKE i \in Nat \ {0}
        <3>1. Append(n, i) \in FileName /\ Len(Append(n, i)) = Len(n) + 1 /\ Len(n) \in Nat
            BY AppendProperties, LenProperties DEF FileName
        <3> QED
            BY <3>1
    <2>3. \A i, j \in Nat \ {0} : Append(n, i) = Append(n, j) => i = j
        <3> TAKE i, j \in Nat \ {0}
        <3>1. Append(n, i)[Len(n) + 1] = i /\ Append(n, j)[Len(n) + 1] = j
            BY AppendProperties DEF FileName
        <3> QED
            BY <3>1
    <2>4. files \in Nat
        BY FS_CardinalityType
    <2>5. IsFiniteSet(taken) /\ many \in Nat /\ many + 1 <= files
        <3> DEFINE f == [i \in taken |-> Append(n, i)]
                   others == DOMAIN dumps \ {n}
        <3>1. IsFiniteSet(others) /\ Cardinality(others) = files - 1
            BY <1>2, FS_RemoveElement
        <3>2. \A i \in taken : i \in Nat \ {0} /\ Append(n, i) \in others
            BY <2>2, <2>4
        <3> HIDE DEF taken, others
        <3>3. f \in Injection(taken, others)
            <4>1. f \in [taken -> others] /\ \A i \in taken : f[i] = Append(n, i)
                BY <3>2
            <4> HIDE DEF f
            <4>2. ASSUME NEW i \in taken, NEW j \in taken, f[i] = f[j]
                  PROVE  i = j
                BY <2>3, <3>2, <4>1, <4>2
            <4> QED
                BY <4>1, <4>2 DEF Injection, IsInjective
        <3>4. IsFiniteSet(taken) /\ many <= Cardinality(others)
            BY <3>1, <3>3, FS_Injection
        <3>5. many \in Nat
            BY <3>4, FS_CardinalityType
        <3> QED
            BY <2>4, <3>1, <3>4, <3>5
    <2>6. \E i \in 1..(many + 1) : P(i)
        <3> DEFINE free == {i \in 1..(many + 1) : i \notin taken}
        <3> HIDE DEF taken
        <3>1. free # {}
            <4> SUFFICES ASSUME 1..(many + 1) \in SUBSET taken
                         PROVE  FALSE
                OBVIOUS
            <4>1. Cardinality(1..(many + 1)) = many + 1
                BY <2>5, FS_Interval
            <4>2. Cardinality(1..(many + 1)) <= many
                BY <2>5, FS_Subset
            <4> HIDE DEF many
            <4> QED
                BY <2>5, <4>1, <4>2
        <3>2. free \in SUBSET Nat
            BY <2>5
        <3>3. PICK i \in free : \A j \in free : i <= j
            BY <3>1, <3>2, LeastOf
        <3>4. i \in 1..(many + 1) /\ i \notin taken
            OBVIOUS
        <3>5. 1..(i - 1) \subseteq taken
            <4> SUFFICES ASSUME NEW j \in 1..(i - 1)
                         PROVE  j \in taken
                OBVIOUS
            <4> HIDE DEF many
            <4>1. j \in 1..(many + 1) /\ ~(i <= j)
                BY <2>5, <3>4
            <4> QED
                BY <3>3, <4>1
        <3> QED
            BY <3>4, <3>5
    <2>7. first \in 1..(many + 1) /\ P(first)
        <3> HIDE DEF P
        <3> QED
            BY <2>6
    <2>8. first \in 1..files /\ first \in Nat \ {0}
        <3> HIDE DEF first, many, files
        <3> QED
            BY <2>4, <2>5, <2>7
    <2>9. Append(n, first) \notin DOMAIN dumps
        <3> HIDE DEF first
        <3> QED
            BY <2>7, <2>8
    <2> QED
        BY <2>1, <2>2, <2>8, <2>9
<1> QED
    BY <1>1, <1>2
-----------------------------------------------------------------------------
(* The configuration: the steps *)

\* What may be given to set_config, by the user or by the end of a block.
Settable(new) ==
    /\ new.auto_jump \in Jumps \cup {None} /\ new.stdout \in Stdouts \cup {None}
    /\ new.dump \in FileName \cup {NoDump}

LEMMA NamesDiffer == NoDump \notin FileName /\ <<>> \in FileName
<1>1. ASSUME NoDump \in FileName
      PROVE  FALSE
    <2>1. <<0>> \in FileName /\ Len(<<0>>) = 1 /\ <<0>>[1] = 0
        BY <1>1 DEF NoDump
    <2>2. \A s \in FileName : Len(s) = 1 => s[1] # 0
        BY ElementOfSeq DEF FileName
    <2> QED
        BY <2>1, <2>2
<1> QED
    BY <1>1, EmptySeq DEF FileName

LEMMA SetConfigDoes ==
    ASSUME ConfTyped, NEW new, Settable(new), SetConfig(new), choices < MaxChoices
    PROVE  /\ config' \in Setting /\ choices' \in 0..MaxChoices /\ choices <= choices'
           /\ config'.auto_jump = Or(new.auto_jump, config.auto_jump)
           /\ config'.stdout = Or(new.stdout, config.stdout)
           /\ new.dump = NoDump => config'.dump = config.dump /\ choices' = choices
           /\ new.dump # NoDump => /\ config'.dump \notin DOMAIN dumps
                                   /\ choices' = choices + 1
<1>0. config \in Setting /\ choices \in 0..MaxChoices /\ MaxChoices \in Nat
    BY ConfigAssumption DEF ConfTyped
<1>1. /\ config.auto_jump \in Jumps \cup {None} /\ config.stdout \in Stdouts
      /\ config.dump \in FileName \cup {NoDump}
    BY <1>0 DEF Setting
<1>2. /\ Or(new.auto_jump, config.auto_jump) \in Jumps \cup {None}
      /\ Or(new.stdout, config.stdout) \in Stdouts
    BY <1>1 DEF Settable, Or
<1>3. /\ config'.auto_jump = Or(new.auto_jump, config.auto_jump)
      /\ config'.stdout = Or(new.stdout, config.stdout)
      /\ config'.dump = (IF new.dump = NoDump THEN config.dump ELSE Free(new.dump))
      /\ config' = [auto_jump |-> config'.auto_jump, stdout |-> config'.stdout,
                    dump |-> config'.dump]
    BY DEF SetConfig, Updated
<1>4. new.dump # NoDump => Free(new.dump) \in FileName /\ Free(new.dump) \notin DOMAIN dumps
    BY FreeIs DEF ConfTyped, Settable
<1>5. config'.dump \in FileName \cup {NoDump}
    BY <1>1, <1>3, <1>4
<1>6. config' \in Setting
    BY <1>2, <1>3, <1>5 DEF Setting
<1> QED
    BY <1>0, <1>3, <1>4, <1>6 DEF SetConfig

\* Setting the configuration, wherever, leaves each file to one choice.
LEMMA ChoiceKept ==
    ASSUME ConfTyped, OneChoice, NEW new, Settable(new), SetConfig(new), choices < MaxChoices,
           dumps' = dumps
    PROVE  OneChoice' /\ \A n \in DOMAIN dumps' : dumps'[n] \in SUBSET (1..choices')
<1>1. /\ choices \in Nat /\ choices' \in Nat /\ choices <= choices'
      /\ new.dump = NoDump => config'.dump = config.dump /\ choices' = choices
      /\ new.dump # NoDump => config'.dump \notin DOMAIN dumps /\ choices' = choices + 1
    BY SetConfigDoes, ConfigAssumption DEF ConfTyped
<1>2. 1..choices \subseteq 1..choices'
    BY <1>1
<1>3. \A n \in DOMAIN dumps : dumps[n] \in SUBSET (1..choices')
    BY <1>2 DEF ConfTyped
<1> QED
    BY <1>1, <1>3 DEF OneChoice

LEMMA ConfigStarts == ConfigInit => ConfIInv
<1> SUFFICES ASSUME ConfigInit
             PROVE  ConfIInv
    OBVIOUS
<1>1. dumps = <<>> /\ DOMAIN dumps = {} /\ blocks = <<>> /\ choices = 0
    BY DEF ConfigInit
<1>2. config \in Setting /\ config.dump = NoDump
    BY DEF ConfigInit, Setting, Stdouts
<1>3. IsFiniteSet({}) /\ Len(<<>>) = 0 /\ <<>> \in Seq(Setting)
    BY FS_EmptySet
<1>4. ConfTyped
    BY <1>1, <1>2, <1>3, ConfigAssumption DEF ConfigInit, ConfTyped, Stdouts
<1>5. Restorable
    BY <1>1 DEF ConfigInit, Restorable, Outermost
<1>6. OneChoice
    BY <1>1, <1>2 DEF OneChoice
<1> QED
    BY <1>4, <1>5, <1>6 DEF ConfIInv

LEMMA SetKeeps ==
    ASSUME ConfIInv, NEW new \in Given, Set(new)
    PROVE  ConfIInv'
<1>0. ConfTyped /\ Restorable /\ OneChoice /\ blocks' = blocks /\ dumps' = dumps
      /\ SetConfig(new) /\ choices < MaxChoices
    BY DEF ConfIInv, Set
<1>1. Settable(new)
    BY NamesDiffer DEF Given, Settings, Settable
<1>2. /\ config' \in Setting /\ choices' \in 0..MaxChoices
      /\ config'.auto_jump = Or(new.auto_jump, config.auto_jump)
      /\ config'.stdout = Or(new.stdout, config.stdout)
    BY <1>0, <1>1, SetConfigDoes
<1>3. OneChoice' /\ \A n \in DOMAIN dumps' : dumps'[n] \in SUBSET (1..choices')
    BY <1>0, <1>1, ChoiceKept
<1>4. /\ outer' \in [auto_jump : Jumps \cup {None}, stdout : Stdouts]
      /\ blocks = <<>> => /\ outer'.auto_jump = Or(new.auto_jump, outer.auto_jump)
                          /\ outer'.stdout = Or(new.stdout, outer.stdout)
      /\ blocks # <<>> => outer' = outer
    <2>1. /\ Or(new.auto_jump, outer.auto_jump) \in Jumps \cup {None}
          /\ Or(new.stdout, outer.stdout) \in Stdouts
        BY <1>0, <1>1 DEF ConfTyped, Settable, Or
    <2>2. /\ blocks = <<>> => outer' = [auto_jump |-> Or(new.auto_jump, outer.auto_jump),
                                        stdout |-> Or(new.stdout, outer.stdout)]
          /\ blocks # <<>> => outer' = outer
        BY DEF Set
    <2> QED
        BY <1>0, <2>1, <2>2 DEF ConfTyped
<1>5. ConfTyped'
    BY <1>0, <1>2, <1>3, <1>4 DEF ConfTyped
<1>6. Restorable'
    <2>1. CASE blocks = <<>>
        <3>1. Outermost = config /\ Outermost' = config'
            BY <1>0, <2>1 DEF Outermost
        <3> QED
            BY <1>0, <1>2, <1>4, <2>1, <3>1 DEF Restorable, Or
    <2>2. CASE blocks # <<>>
        BY <1>0, <1>4, <2>2 DEF Restorable, Outermost
    <2> QED
        BY <2>1, <2>2
<1> QED
    BY <1>3, <1>5, <1>6 DEF ConfIInv

LEMMA EnterKeeps ==
    ASSUME ConfIInv, NEW new \in Given, EnterContext(new)
    PROVE  ConfIInv'
<1>0. /\ ConfTyped /\ Restorable /\ OneChoice /\ dumps' = dumps /\ outer' = outer
      /\ blocks' = Append(blocks, config) /\ SetConfig(new) /\ choices < MaxChoices
      /\ Len(blocks) < MaxNesting
    BY DEF ConfIInv, EnterContext
<1>1. Settable(new)
    BY NamesDiffer DEF Given, Settings, Settable
<1>2. config' \in Setting /\ choices' \in 0..MaxChoices
    BY <1>0, <1>1, SetConfigDoes
<1>3. OneChoice' /\ \A n \in DOMAIN dumps' : dumps'[n] \in SUBSET (1..choices')
    BY <1>0, <1>1, ChoiceKept
<1>4. /\ blocks' \in Seq(Setting) /\ Len(blocks') = Len(blocks) + 1 /\ Len(blocks) \in Nat
      /\ blocks'[1] = Outermost /\ blocks' # <<>>
    <2>1. blocks \in Seq(Setting) /\ config \in Setting /\ Len(blocks) \in Nat
        BY <1>0, LenProperties DEF ConfTyped
    <2>2. /\ blocks' \in Seq(Setting) /\ Len(blocks') = Len(blocks) + 1
          /\ \A i \in 1..Len(blocks) : blocks'[i] = blocks[i]
          /\ blocks'[Len(blocks) + 1] = config
        BY <1>0, <2>1, AppendProperties
    <2>3. blocks = <<>> <=> Len(blocks) = 0
        BY <2>1, EmptySeq
    <2>4. blocks' # <<>>
        BY <2>1, <2>2, EmptySeq
    <2> QED
        BY <2>1, <2>2, <2>3, <2>4 DEF Outermost
<1>5. ConfTyped'
    BY <1>0, <1>2, <1>3, <1>4, ConfigAssumption DEF ConfTyped
<1>6. Restorable'
    <2>1. Outermost' = Outermost
        BY <1>4 DEF Outermost
    <2> QED
        BY <1>0, <2>1 DEF Restorable
<1> QED
    BY <1>3, <1>5, <1>6 DEF ConfIInv

LEMMA ExitKeeps ==
    ASSUME ConfIInv, ExitContext
    PROVE  ConfIInv'
<1> DEFINE old == blocks[Len(blocks)]
<1>0. /\ ConfTyped /\ Restorable /\ OneChoice /\ dumps' = dumps /\ outer' = outer
      /\ blocks' = SubSeq(blocks, 1, Len(blocks) - 1) /\ SetConfig(old)
      /\ choices < MaxChoices /\ blocks # <<>>
    BY DEF ConfIInv, ExitContext
<1>1. /\ blocks \in Seq(Setting) /\ Len(blocks) \in Nat \ {0} /\ old \in Setting
    <2>1. blocks \in Seq(Setting)
        BY <1>0 DEF ConfTyped
    <2>2. Len(blocks) \in Nat \ {0}
        BY <1>0, <2>1, LenProperties, EmptySeq
    <2> QED
        BY <2>1, <2>2, ElementOfSeq
<1>2. /\ blocks' \in Seq(Setting) /\ Len(blocks') = Len(blocks) - 1
      /\ \A i \in 1..(Len(blocks) - 1) : blocks'[i] = blocks[i]
    <2> DEFINE n == Len(blocks) - 1
    <2>1. n \in Nat /\ \A i \in 1..n : i \in 1..Len(blocks) /\ 1 + i - 1 = i
        BY <1>1
    <2>0. \A i \in 1..Len(blocks) : blocks[i] \in Setting
        BY <1>1, ElementOfSeq
    <2>2. \A i \in 1..n : blocks[i] \in Setting
        BY ONLY <2>0, <2>1
    <2> HIDE DEF n
    <2>3. (IF 1 <= n THEN n - 1 + 1 ELSE 0) = n /\ n - 1 + 1 = n
        BY ONLY <2>1
    <2>4. /\ SubSeq(blocks, 1, n) \in Seq(Setting)
          /\ Len(SubSeq(blocks, 1, n)) = (IF 1 <= n THEN n - 1 + 1 ELSE 0)
          /\ \A i \in 1..(n - 1 + 1) : SubSeq(blocks, 1, n)[i] = blocks[1 + i - 1]
        BY <2>1, <2>2, SubSeqProperties
    <2>5. blocks' = SubSeq(blocks, 1, n)
        BY <1>0 DEF n
    <2> QED
        BY <2>1, <2>3, <2>4, <2>5 DEF n
<1> HIDE DEF old
<1>3. Settable(old) /\ old.stdout # None
    BY <1>1 DEF Setting, Settable, Stdouts, None
<1>4. /\ config' \in Setting /\ choices' \in 0..MaxChoices
      /\ config'.auto_jump = Or(old.auto_jump, config.auto_jump)
      /\ config'.stdout = old.stdout
    BY <1>0, <1>3, SetConfigDoes DEF Or
<1>5. OneChoice' /\ \A n \in DOMAIN dumps' : dumps'[n] \in SUBSET (1..choices')
    BY <1>0, <1>3, ChoiceKept
<1>6. ConfTyped'
    BY <1>0, <1>1, <1>2, <1>4, <1>5, ConfigAssumption DEF ConfTyped
<1>7. Restorable'
    <2>0. Outermost = blocks[1]
        BY <1>0 DEF Outermost
    <2>1. CASE Len(blocks) = 1
        <3>1. blocks' = <<>>
            BY <1>2, <2>1, EmptySeq
        <3>2. Outermost' = config' /\ Outermost = old
            BY <2>0, <2>1, <3>1 DEF Outermost, old
        <3> QED
            BY <1>0, <1>4, <3>2 DEF Restorable, Or
    <2>2. CASE Len(blocks) # 1
        <3>1. 1 \in 1..(Len(blocks) - 1) /\ Len(blocks') # 0
            BY <1>1, <1>2, <2>2
        <3>2. blocks' # <<>>
            BY <3>1
        <3>3. Outermost' = Outermost
            BY <1>2, <2>0, <3>1, <3>2 DEF Outermost
        <3> QED
            BY <1>0, <3>3 DEF Restorable
    <2> QED
        BY <2>1, <2>2
<1> QED
    BY <1>5, <1>6, <1>7 DEF ConfIInv

LEMMA DumpKeeps ==
    ASSUME ConfIInv, DumpResults
    PROVE  ConfIInv'
<1>0. /\ ConfTyped /\ Restorable /\ OneChoice /\ config.dump # NoDump
      /\ UNCHANGED <<config, blocks, choices, outer>>
    BY DEF ConfIInv, DumpResults
<1>1. /\ DOMAIN dumps' = DOMAIN dumps \cup {config.dump}
      /\ \A n \in DOMAIN dumps' : n # config.dump => dumps'[n] = dumps[n]
      /\ dumps'[config.dump] = {choices}
    <2>1. DOMAIN dumps' = DOMAIN dumps \cup {config.dump}
        BY DEF DumpResults
    <2>2. \A n \in DOMAIN dumps' : dumps'[n] = (IF n \in DOMAIN dumps THEN dumps[n] ELSE {})
                                               \cup (IF n = config.dump THEN {choices} ELSE {})
        BY DEF DumpResults
    <2>3. config.dump \in DOMAIN dumps => dumps[config.dump] = {choices}
        BY <1>0 DEF OneChoice
    <2> QED
        BY <2>1, <2>2, <2>3
<1>2. config.dump \in FileName /\ choices \in 1..choices
    BY <1>0, ConfigAssumption DEF ConfTyped, OneChoice, Setting
<1>3. IsFiniteSet(DOMAIN dumps')
    <2>1. IsFiniteSet(DOMAIN dumps)
        BY <1>0 DEF ConfTyped
    <2>2. IsFiniteSet(DOMAIN dumps \cup {config.dump})
        BY <2>1, FS_AddElement
    <2> QED
        BY <1>1, <2>2
<1>4. ConfTyped'
    <2>1. \A n \in DOMAIN dumps' : dumps'[n] \in SUBSET (1..choices)
        BY <1>0, <1>1, <1>2 DEF ConfTyped
    <2>2. DOMAIN dumps' \subseteq FileName
        BY <1>0, <1>1, <1>2 DEF ConfTyped
    <2> QED
        BY <1>0, <1>3, <2>1, <2>2 DEF ConfTyped
<1>5. Restorable'
    BY <1>0 DEF Restorable, Outermost
<1>6. OneChoice'
    <2>1. Cardinality({choices}) = 1
        BY FS_Singleton
    <2> QED
        BY <1>0, <1>1, <2>1 DEF OneChoice
<1> QED
    BY <1>4, <1>5, <1>6 DEF ConfIInv

LEMMA ConfigKeeps == ConfigSpec => []ConfIInv
<1>1. ConfIInv /\ [ConfigNext]_configVars => ConfIInv'
    <2> SUFFICES ASSUME ConfIInv, [ConfigNext]_configVars
                 PROVE  ConfIInv'
        OBVIOUS
    <2>1. CASE UNCHANGED configVars
        BY <2>1 DEF configVars, ConfIInv, ConfTyped, Restorable, Outermost, OneChoice
    <2> QED
        BY <2>1, SetKeeps, EnterKeeps, ExitKeeps, DumpKeeps DEF ConfigNext
<1> QED
    BY <1>1, ConfigStarts, PTL DEF ConfigSpec

\* The configuration, the blocks and the files of results stay in their types
\* (config.py, _dump_obj of api.py).
THEOREM ConfigTypeCorrect == ConfigSpec => []ConfigTypeOK
<1>1. ConfIInv => ConfigTypeOK
    BY DEF ConfIInv, ConfTyped, ConfigTypeOK, Setting, Name, FileName
<1> QED
    BY <1>1, ConfigKeeps, PTL

\* Leaving the blocks of config_context restores what was set outside them, None
\* excepted, and no file mixes the results of two choices of a file.
THEOREM ConfigRestored == ConfigSpec => []ConfigKept
<1>1. ConfIInv => ConfigKept
    BY DEF ConfIInv, Restorable, Outermost, OneChoice, ConfigKept
<1> QED
    BY <1>1, ConfigKeeps, PTL
-----------------------------------------------------------------------------
(* The collections: vocabulary and inductive invariant *)

HostObject == [alias : Aliases, made : Seq(Nat)]
ViewName == (Nat \X RoleNames) \cup {NoView}
Dictionary == [class : {"Roles", "RolesDict"}, view : [RoleNames -> ViewName]]

ResTyped ==
    /\ dicts \in Seq(Dictionary) /\ Len(dicts) <= MaxRoles
    /\ views \in Seq([RoleNames -> SUBSET HostObject]) /\ Len(views) = Len(dicts)
    /\ shares \in SUBSET SUBSET Dicts
    /\ mixed \in SUBSET Dicts

\* The same dictionary, or one built on the other.
Shared(d, e) == d = e \/ {d, e} \in shares

\* A view of a dictionary was made for that role of a dictionary that it shares
\* with, and is there still.
Owned ==
    \A d \in Dicts : \A r \in Held(d) : \E n \in Dicts :
       /\ dicts[d].view[r] = <<n, r>> /\ dicts[n].view[r] = <<n, r>>
       /\ Shared(n, d)

SharedByAll == \A d, e, f \in Dicts : Shared(d, e) /\ Shared(e, f) => Shared(d, f)

\* Dictionaries that share views have the same hosts, unless copies were put
\* into one of them, and then they are all known as such.
Alike ==
    \A d, e \in Dicts : Shared(d, e) =>
       /\ d \in mixed <=> e \in mixed
       /\ d \notin mixed => HostsOf(d) = HostsOf(e)

\* Every dictionary has every machine.
Covered == \A d \in Dicts : \A a \in Aliases : \E i \in HostsOf(d) : i.alias = a

OneObject == \A d \in Dicts \ mixed : ~Twins(HostsOf(d))

ResIInv == ResTyped /\ Owned /\ SharedByAll /\ Alike /\ Covered /\ OneObject

-----------------------------------------------------------------------------
(* The collections: facts of dictionaries and views *)

\* A dictionary, the views it holds and its hosts.
LEMMA DictIs ==
    ASSUME ResTyped, Owned, NEW d \in Dicts
    PROVE  /\ dicts[d] \in Dictionary /\ Held(d) \subseteq RoleNames
           /\ \A r \in RoleNames : dicts[d].view[r] \in ViewName
           /\ \A r \in Held(d) : \E n \in Dicts :
                 /\ dicts[d].view[r] = <<n, r>> /\ Members(d, r) = views[n][r]
           /\ \A r \in RoleNames : Members(d, r) \subseteq HostObject
           /\ HostsOf(d) \subseteq HostObject
<1>1. dicts[d] \in Dictionary
    BY ElementOfSeq DEF ResTyped, Dicts
<1>2. \A r \in RoleNames : dicts[d].view[r] \in ViewName
    BY <1>1 DEF Dictionary
<1>3. Held(d) \subseteq RoleNames
    BY DEF Held
<1>4. ASSUME NEW r \in Held(d)
      PROVE  \E n \in Dicts : dicts[d].view[r] = <<n, r>> /\ Members(d, r) = views[n][r]
    <2>1. PICK n \in Dicts : dicts[d].view[r] = <<n, r>>
        BY DEF Owned
    <2>2. View(<<n, r>>) = views[n][r]
        BY DEF View
    <2>3. Members(d, r) = views[n][r]
        BY <2>1, <2>2 DEF Members
    <2> QED
        BY <2>1, <2>3
<1>5. \A n \in Dicts : \A r \in RoleNames : views[n][r] \subseteq HostObject
    <2>1. \A n \in Dicts : views[n] \in [RoleNames -> SUBSET HostObject]
        BY ElementOfSeq DEF ResTyped, Dicts
    <2> QED
        BY <2>1
<1>6. \A r \in RoleNames : Members(d, r) \subseteq HostObject
    <2> TAKE r \in RoleNames
    <2>1. CASE r \in Held(d)
        BY <1>4, <1>5, <2>1
    <2>2. CASE r \notin Held(d)
        BY <2>2 DEF Members
    <2> QED
        BY <2>1, <2>2
<1>7. HostsOf(d) \subseteq HostObject
    BY <1>6 DEF HostsOf
<1> QED
    BY <1>1, <1>2, <1>3, <1>4, <1>6, <1>7

\* Dictionaries that do not share hold no view in common.
LEMMA ApartIf ==
    ASSUME ResTyped, Owned, SharedByAll, NEW d \in Dicts, NEW e \in Dicts, ~Shared(d, e),
           NEW r \in Held(d), NEW s \in Held(e)
    PROVE  dicts[d].view[r] # dicts[e].view[s]
<1> SUFFICES ASSUME dicts[d].view[r] = dicts[e].view[s]
             PROVE  FALSE
    OBVIOUS
<1>1. PICK n \in Dicts : dicts[d].view[r] = <<n, r>> /\ Shared(n, d)
    BY DEF Owned
<1>2. PICK m \in Dicts : dicts[e].view[s] = <<m, s>> /\ Shared(m, e)
    BY DEF Owned
<1>3. n = m
    <2>1. <<n, r>> = <<m, s>>
        BY <1>1, <1>2
    <2> QED
        BY <2>1
<1>4. {d, n} = {n, d}
    OBVIOUS
<1>5. Shared(d, n)
    BY <1>1, <1>4 DEF Shared
<1> QED
    BY <1>2, <1>3, <1>5 DEF SharedByAll

\* Without twins, hosts of some of the machines are among hosts of all of them.
LEMMA SameObjects ==
    ASSUME NEW S, NEW T, \A i \in T : i.alias \in Aliases,
           \A a \in Aliases : \E i \in S : i.alias = a, ~Twins(S \cup T)
    PROVE  T \subseteq S
<1> SUFFICES ASSUME NEW i \in T
             PROVE  i \in S
    OBVIOUS
<1>1. PICK j \in S : j.alias = i.alias
    OBVIOUS
<1>2. i = j
    BY <1>1 DEF Twins
<1> QED
    BY <1>2

LEMMA NoTwinsIn ==
    ASSUME NEW S, NEW T, S \subseteq T, ~Twins(T)
    PROVE  ~Twins(S)
    BY DEF Twins

-----------------------------------------------------------------------------
(* The collections: a new dictionary *)

\* The other dictionaries and their views stay as they are.
LEMMA MakeDoes ==
    ASSUME ResTyped, Owned, NEW dict \in Dictionary,
           NEW made \in [RoleNames -> SUBSET HostObject],
           NEW N, N = New, Len(dicts) < MaxRoles,
           dicts' = Append(dicts, dict), views' = Append(views, made),
           mixed' \in SUBSET (1..N), shares' \in SUBSET SUBSET (1..N)
    PROVE  /\ Dicts' = 1..N /\ N \in Nat /\ N \in 1..N /\ N \notin Dicts /\ Dicts \subseteq 1..N
           /\ Len(dicts) \in Nat
           /\ \A d \in 1..N : d # N => d \in Dicts
           /\ ResTyped'
           /\ dicts'[N] = dict /\ views'[N] = made
           /\ \A d \in Dicts : dicts'[d] = dicts[d] /\ views'[d] = views[d] /\ Held(d)' = Held(d)
           /\ \A d \in Dicts : HostsOf(d)' = HostsOf(d)
           /\ \A r : r \in Held(N)' <=> r \in RoleNames /\ dict.view[r] # NoView
<1>0. /\ dicts \in Seq(Dictionary) /\ views \in Seq([RoleNames -> SUBSET HostObject])
      /\ Len(views) = Len(dicts) /\ Len(dicts) \in Nat
    BY LenProperties DEF ResTyped
<1>3. /\ dicts' \in Seq(Dictionary) /\ Len(dicts') = N
      /\ dicts'[N] = dict /\ \A d \in Dicts : dicts'[d] = dicts[d]
    BY <1>0, AppendProperties DEF New, Dicts
<1>4. /\ views' \in Seq([RoleNames -> SUBSET HostObject]) /\ Len(views') = N
      /\ views'[N] = made /\ \A d \in Dicts : views'[d] = views[d]
    BY <1>0, AppendProperties DEF New, Dicts
<1>5. /\ Dicts' = 1..N /\ N \in Nat /\ N \in 1..N /\ N \notin Dicts /\ Dicts \subseteq 1..N
      /\ \A d \in 1..N : d # N => d \in Dicts
    BY <1>0, <1>3 DEF New, Dicts
<1>6. ResTyped'
    <2>1. Len(dicts') <= MaxRoles
        BY <1>0, <1>3, ResourcesAssumption DEF New
    <2> QED
        BY <1>3, <1>4, <1>5, <2>1 DEF ResTyped
<1>7. \A d \in Dicts : Held(d)' = Held(d)
    BY <1>3 DEF Held
<1>8. ASSUME NEW d \in Dicts
      PROVE  HostsOf(d)' = HostsOf(d)
    <2>1. ASSUME NEW r \in RoleNames
          PROVE  Members(d, r)' = Members(d, r)
        <3>1. CASE r \notin Held(d)
            BY <1>7, <3>1 DEF Members
        <3>2. CASE r \in Held(d)
            <4>1. PICK n \in Dicts : dicts[d].view[r] = <<n, r>> /\ Members(d, r) = views[n][r]
                BY <3>2, DictIs
            <4>2. dicts'[d].view[r] = <<n, r>> /\ r \in Held(d)'
                BY <1>3, <1>7, <3>2, <4>1
            <4>3. View(<<n, r>>)' = views'[n][r]
                BY DEF View
            <4>4. Members(d, r)' = views'[n][r]
                BY ONLY <4>2, <4>3 DEF Members
            <4> QED
                BY <1>4, <4>1, <4>4
        <3> QED
            BY <3>1, <3>2
    <2> QED
        BY <2>1 DEF HostsOf
<1>9. \A r : r \in Held(N)' <=> r \in RoleNames /\ dict.view[r] # NoView
    BY <1>3 DEF Held
<1> QED
    BY <1>0, <1>3, <1>4, <1>5, <1>6, <1>7, <1>8, <1>9

LEMMA SharedBothWays == \A d, e : Shared(d, e) <=> Shared(e, d)
<1>1. \A d, e : {d, e} = {e, d}
    OBVIOUS
<1> QED
    BY <1>1 DEF Shared

\* The views that Own names.
LEMMA OwnIs ==
    ASSUME NEW N \in Nat, NEW roles \in SUBSET RoleNames
    PROVE  /\ Own(N, roles) \in [RoleNames -> ViewName]
           /\ \A r \in roles : Own(N, roles)[r] = <<N, r>>
           /\ \A r : r \in roles <=> r \in RoleNames /\ Own(N, roles)[r] # NoView
<1>1. \A r \in RoleNames : <<N, r>> # NoView /\ <<N, r>> \in ViewName
    BY DEF NoView, ViewName
<1>2. \A r \in RoleNames : Own(N, roles)[r] = (IF r \in roles THEN <<N, r>> ELSE NoView)
    BY DEF Own
<1>3. Own(N, roles) \in [RoleNames -> ViewName]
    BY <1>1 DEF Own, ViewName
<1> QED
    BY <1>1, <1>2, <1>3

\* The dictionary of number N is new, with the views that are made for it, for
\* some roles; together they have these hosts, which are of all machines.
MadeNew(N, dict, roles, made, hosts) ==
    /\ N \in Nat /\ N = New /\ Len(dicts) < MaxRoles
    /\ dict \in Dictionary /\ roles \in SUBSET RoleNames /\ dict.view = Own(N, roles)
    /\ made \in [RoleNames -> SUBSET HostObject]
    /\ dicts' = Append(dicts, dict) /\ views' = Append(views, made)
    /\ mixed' \in {mixed, mixed \cup {N}} /\ shares' = shares
    /\ \A i : i \in hosts <=> \E r \in roles : i \in made[r]
    /\ \A a \in Aliases : \E i \in hosts : i.alias = a
    /\ N \notin mixed' => ~Twins(hosts)

\* Nothing is shared with the dictionaries that are there.
LEMMA FreshKeeps ==
    ASSUME ResIInv, NEW N, NEW dict, NEW roles, NEW made, NEW hosts,
           MadeNew(N, dict, roles, made, hosts)
    PROVE  ResIInv'
<1> PICK view : view = dict.view
    OBVIOUS
<1> USE DEF MadeNew
<1>0. ResTyped /\ Owned /\ SharedByAll /\ Alike /\ Covered /\ OneObject
    BY DEF ResIInv
<1>1. N \in Nat
    OBVIOUS
<1>2. /\ \A r \in roles : view[r] = <<N, r>>
      /\ \A r : r \in roles <=> r \in RoleNames /\ view[r] # NoView
    <2>1. \A r \in roles : Own(N, roles)[r] = <<N, r>>
        BY ONLY N \in Nat, roles \in SUBSET RoleNames, OwnIs
    <2>2. \A r : r \in roles <=> r \in RoleNames /\ Own(N, roles)[r] # NoView
        BY ONLY N \in Nat, roles \in SUBSET RoleNames, OwnIs
    <2> QED
        BY <2>1, <2>2
<1>3. shares' \in SUBSET SUBSET (1..N)
    <2>1. Dicts \subseteq 1..N
        BY <1>0, LenProperties DEF Dicts, New, ResTyped
    <2> QED
        BY <1>0, <2>1 DEF ResTyped
<1>4. /\ Dicts' = 1..N /\ N \in 1..N /\ N \notin Dicts /\ Dicts \subseteq 1..N
      /\ \A d \in 1..N : d # N => d \in Dicts
      /\ ResTyped'
      /\ dicts'[N].view = view /\ views'[N] = made
      /\ \A d \in Dicts : dicts'[d] = dicts[d] /\ Held(d)' = Held(d)
      /\ \A d \in Dicts : HostsOf(d)' = HostsOf(d)
      /\ Held(N)' = roles
    <2>1. dict \in Dictionary /\ dict.view = view
        OBVIOUS
    <2>3. mixed' \in SUBSET (1..N)
        <3>1. mixed' \subseteq Dicts \cup {N}
            BY <1>0 DEF ResTyped
        <3> QED
            BY <1>1, <3>1 DEF Dicts, New
    <2>4. Dicts' = 1..N /\ N \in 1..N /\ N \notin Dicts /\ Dicts \subseteq 1..N /\ ResTyped'
          /\ dicts'[N] = dict /\ views'[N] = made
        BY <1>0, <1>3, <2>1, <2>3, MakeDoes
    <2>5. \A d \in 1..N : d # N => d \in Dicts
        BY <1>0, <1>3, <2>1, <2>3, MakeDoes
    <2>6. \A d \in Dicts : dicts'[d] = dicts[d] /\ Held(d)' = Held(d)
        BY <1>0, <1>3, <2>1, <2>3, MakeDoes
    <2>7. \A d \in Dicts : HostsOf(d)' = HostsOf(d)
        BY <1>0, <1>3, <2>1, <2>3, MakeDoes
    <2>8. \A r : r \in Held(N)' <=> r \in RoleNames /\ dict.view[r] # NoView
        BY <1>0, <1>3, <2>1, <2>3, MakeDoes
    <2>9. Held(N)' = roles
        BY <1>2, <2>1, <2>8
    <2> QED
        BY <2>1, <2>4, <2>5, <2>6, <2>7, <2>9
<1>5. HostsOf(N)' = hosts
    <2>1. ASSUME NEW r \in RoleNames
          PROVE  Members(N, r)' = (IF r \in roles THEN made[r] ELSE {})
        <3>1. r \in roles => View(<<N, r>>)' = made[r]
            BY <1>4 DEF View
        <3>2. Members(N, r)' = (IF r \in roles THEN View(view[r])' ELSE {})
            BY <1>4 DEF Members
        <3> QED
            BY <1>2, <3>1, <3>2
    <2>2. HostsOf(N)' = UNION {Members(N, r)' : r \in RoleNames}
        BY DEF HostsOf
    <2> QED
        BY <2>1, <2>2
<1>6. /\ \A d, e \in Dicts : Shared(d, e)' <=> Shared(d, e)
      /\ \A d \in Dicts : ~Shared(d, N)' /\ ~Shared(N, d)'
      /\ Shared(N, N)'
    <2>1. \A d : {d, N} \notin shares /\ {N, d} \notin shares
        BY <1>0, <1>4 DEF ResTyped
    <2> QED
        BY <1>4, <2>1 DEF Shared
<1>7. Owned'
    <2> SUFFICES ASSUME NEW d \in 1..N, NEW r \in Held(d)'
                 PROVE  \E n \in 1..N : /\ dicts'[d].view[r] = <<n, r>>
                                        /\ dicts'[n].view[r] = <<n, r>> /\ Shared(n, d)'
        BY <1>4 DEF Owned
    <2>1. CASE d = N
        BY <1>2, <1>4, <1>6, <2>1
    <2>2. CASE d # N
        <3>1. d \in Dicts /\ r \in Held(d)
            BY <1>4, <2>2
        <3>2. PICK n \in Dicts : /\ dicts[d].view[r] = <<n, r>> /\ dicts[n].view[r] = <<n, r>>
                                 /\ Shared(n, d)
            BY <1>0, <3>1 DEF Owned
        <3> QED
            BY <1>4, <1>6, <3>1, <3>2
    <2> QED
        BY <2>1, <2>2
<1>8. SharedByAll'
    <2> SUFFICES ASSUME NEW d \in 1..N, NEW e \in 1..N, NEW f \in 1..N,
                        Shared(d, e)', Shared(e, f)'
                 PROVE  Shared(d, f)'
        BY <1>4 DEF SharedByAll
    <2> QED
        BY <1>0, <1>4, <1>6 DEF SharedByAll
<1>9. Alike'
    <2> SUFFICES ASSUME NEW d \in 1..N, NEW e \in 1..N, Shared(d, e)'
                 PROVE  /\ d \in mixed' <=> e \in mixed'
                        /\ d \notin mixed' => HostsOf(d)' = HostsOf(e)'
        BY <1>4 DEF Alike
    <2>1. d = N <=> e = N
        BY <1>4, <1>6
    <2>2. CASE d # N
        <3>1. d \in Dicts /\ e \in Dicts /\ Shared(d, e) /\ d # N /\ e # N
            BY <1>4, <1>6, <2>1, <2>2
        <3>2. /\ d \in mixed <=> e \in mixed
              /\ d \notin mixed => HostsOf(d) = HostsOf(e)
            BY <1>0, <3>1 DEF Alike
        <3> QED
            BY <1>4, <3>1, <3>2
    <2> QED
        BY <2>1, <2>2
<1>10. Covered'
    <2>1. \A d \in 1..N : \A a \in Aliases : \E i \in HostsOf(d)' : i.alias = a
        BY <1>0, <1>4, <1>5 DEF Covered
    <2> QED
        BY <1>4, <2>1 DEF Covered
<1>11. OneObject'
    <2>1. ASSUME NEW d \in 1..N, d \notin mixed'
          PROVE  ~Twins(HostsOf(d)')
        <3>1. CASE d = N
            BY <1>4, <1>5, <2>1, <3>1
        <3>2. CASE d # N
            BY <1>0, <1>4, <2>1, <3>2 DEF OneObject
        <3> QED
            BY <3>1, <3>2
    <2> QED
        BY <1>4, <2>1 DEF OneObject, Twins
<1> QED
    BY <1>4, <1>7, <1>8, <1>9, <1>10, <1>11 DEF ResIInv

\* Roles(d) has the views of d.
LEMMA CopyKeeps ==
    ASSUME ResIInv, NEW d \in Dicts, CopyRoles(d)
    PROVE  ResIInv'
<1> DEFINE made == [r \in RoleNames |-> {}]
           dict == [class |-> "Roles", view |-> dicts[d].view]
<1>0. ResTyped /\ Owned /\ SharedByAll /\ Alike /\ Covered /\ OneObject
    BY DEF ResIInv
<1>1. PICK N \in Nat : N = New
    BY <1>0, LenProperties DEF New, ResTyped
<1>2. /\ Len(dicts) < MaxRoles /\ dicts' = Append(dicts, dict) /\ views' = Append(views, made)
      /\ mixed' = (IF d \in mixed THEN mixed \cup {N} ELSE mixed)
      /\ shares' = shares \cup {{e, N} : e \in Seen(d)}
    BY <1>1 DEF CopyRoles, Make
<1>3. dict \in Dictionary /\ dict.view = dicts[d].view
    BY <1>0, DictIs DEF Dictionary
<1>4. made \in [RoleNames -> SUBSET HostObject]
    OBVIOUS
<1>5. Seen(d) \subseteq Dicts /\ \A x \in Dicts : x \in Seen(d) <=> Shared(x, d)
    <2>1. \A x : {d, x} = {x, d}
        OBVIOUS
    <2> QED
        BY <2>1 DEF Seen, Shared
<1>6. Dicts \subseteq 1..N /\ N \in 1..N /\ N \notin Dicts
    BY <1>1 DEF Dicts, New
<1>7. shares' \in SUBSET SUBSET (1..N) /\ mixed' \in SUBSET (1..N)
    <2>1. mixed' \in SUBSET (1..N)
        BY <1>0, <1>2, <1>6 DEF ResTyped
    <2>2. \A e \in Seen(d) : {e, N} \in SUBSET (1..N)
        BY <1>5, <1>6
    <2>3. \A s \in shares : s \in SUBSET (1..N)
        BY <1>0, <1>6 DEF ResTyped
    <2>4. \A s \in shares' : s \in SUBSET (1..N)
        BY <1>2, <2>2, <2>3
    <2> QED
        BY <2>1, <2>4
<1> HIDE DEF made, dict
<1>8. Dicts' = 1..N /\ ResTyped' /\ dicts'[N] = dict
    BY <1>0, <1>1, <1>2, <1>3, <1>4, <1>7, MakeDoes
<1>9. \A x \in 1..N : x # N => x \in Dicts
    BY <1>0, <1>1, <1>2, <1>3, <1>4, <1>7, MakeDoes
<1>10. \A x \in Dicts : dicts'[x] = dicts[x] /\ views'[x] = views[x] /\ Held(x)' = Held(x)
    BY <1>0, <1>1, <1>2, <1>3, <1>4, <1>7, MakeDoes
<1>11. \A x \in Dicts : HostsOf(x)' = HostsOf(x)
    BY <1>0, <1>1, <1>2, <1>3, <1>4, <1>7, MakeDoes
<1>12. Held(N)' = Held(d)
    <2>1. \A r : r \in Held(N)' <=> r \in RoleNames /\ dict.view[r] # NoView
        BY <1>8 DEF Held
    <2>2. \A r : r \in Held(d) <=> r \in RoleNames /\ dicts[d].view[r] # NoView
        BY DEF Held
    <2> QED
        BY <1>3, <2>1, <2>2
<1>13. HostsOf(N)' = HostsOf(d)
    <2>1. ASSUME NEW r \in RoleNames
          PROVE  Members(N, r)' = Members(d, r)
        <3>1. CASE r \notin Held(d)
            BY <1>12, <3>1 DEF Members
        <3>2. CASE r \in Held(d)
            <4>1. PICK n \in Dicts : dicts[d].view[r] = <<n, r>> /\ Members(d, r) = views[n][r]
                BY <1>0, <3>2, DictIs
            <4>2. dicts'[N].view[r] = <<n, r>> /\ r \in Held(N)'
                BY <1>3, <1>8, <1>12, <3>2, <4>1
            <4>3. View(<<n, r>>)' = views'[n][r]
                BY DEF View
            <4>4. Members(N, r)' = views'[n][r]
                BY ONLY <4>2, <4>3 DEF Members
            <4> QED
                BY <1>10, <4>1, <4>4
        <3> QED
            BY <3>1, <3>2
    <2> QED
        BY <2>1 DEF HostsOf
<1>14. /\ \A x, y \in Dicts : Shared(x, y)' <=> Shared(x, y)
       /\ \A x \in Dicts : (Shared(x, N)' <=> Shared(x, d)) /\ (Shared(N, x)' <=> Shared(x, d))
       /\ Shared(N, N)'
    <2>1. \A x, y \in Dicts : \A e : {x, y} # {e, N}
        BY <1>6
    <2>2. \A x, y \in Dicts : {x, y} \in shares' <=> {x, y} \in shares
        BY <1>2, <2>1
    <2>3. \A x : {x, N} \notin shares /\ {N, x} = {x, N}
        BY <1>0, <1>6 DEF ResTyped
    <2>4. \A x, e \in Dicts : {x, N} = {e, N} => x = e
        BY <1>6
    <2>5. \A x \in Dicts : {x, N} \in shares' <=> x \in Seen(d)
        BY <1>2, <1>5, <2>3, <2>4
    <2> QED
        BY <1>5, <1>6, <2>2, <2>3, <2>5 DEF Shared
<1>15. Owned'
    <2> SUFFICES ASSUME NEW x \in 1..N, NEW r \in Held(x)'
                 PROVE  \E n \in 1..N : /\ dicts'[x].view[r] = <<n, r>>
                                        /\ dicts'[n].view[r] = <<n, r>> /\ Shared(n, x)'
        BY <1>8 DEF Owned
    <2>1. ASSUME NEW y \in Dicts, r \in Held(y), dicts'[x].view[r] = dicts[y].view[r],
                 \A n \in Dicts : Shared(n, y) => Shared(n, x)'
          PROVE  \E n \in 1..N : /\ dicts'[x].view[r] = <<n, r>>
                                 /\ dicts'[n].view[r] = <<n, r>> /\ Shared(n, x)'
        <3>1. PICK n \in Dicts : /\ dicts[y].view[r] = <<n, r>> /\ dicts[n].view[r] = <<n, r>>
                                 /\ Shared(n, y)
            BY <1>0, <2>1 DEF Owned
        <3> QED
            BY <1>6, <1>10, <2>1, <3>1
    <2>2. CASE x = N
        <3>1. r \in Held(d) /\ dicts'[x].view[r] = dicts[d].view[r]
            BY <1>3, <1>8, <1>12, <2>2
        <3> QED
            BY <1>14, <2>1, <2>2, <3>1
    <2>3. CASE x # N
        <3>1. x \in Dicts /\ r \in Held(x) /\ dicts'[x].view[r] = dicts[x].view[r]
            BY <1>9, <1>10, <2>3
        <3> QED
            BY <1>14, <2>1, <3>1
    <2> QED
        BY <2>2, <2>3
<1>16. SharedByAll'
    <2> SUFFICES ASSUME NEW x \in 1..N, NEW y \in 1..N, NEW z \in 1..N,
                        Shared(x, y)', Shared(y, z)'
                 PROVE  Shared(x, z)'
        BY <1>8 DEF SharedByAll
    <2> DEFINE old(v) == IF v = N THEN d ELSE v
    <2>1. \A v \in 1..N : old(v) \in Dicts
        BY <1>9
    <2>2. \A v, w \in 1..N : Shared(v, w)' <=> Shared(old(v), old(w))
        <3>1. Shared(d, d)
            BY DEF Shared
        <3> QED
            BY <1>9, <1>14, <3>1, SharedBothWays
    <2> HIDE DEF old
    <2> QED
        BY <1>0, <2>1, <2>2 DEF SharedByAll
<1>17. Alike'
    <2> SUFFICES ASSUME NEW x \in 1..N, NEW y \in 1..N, Shared(x, y)'
                 PROVE  /\ x \in mixed' <=> y \in mixed'
                        /\ x \notin mixed' => HostsOf(x)' = HostsOf(y)'
        BY <1>8 DEF Alike
    <2> DEFINE old(v) == IF v = N THEN d ELSE v
    <2>1. \A v \in 1..N : /\ old(v) \in Dicts /\ (v \in mixed' <=> old(v) \in mixed)
                          /\ HostsOf(v)' = HostsOf(old(v))
        <3>1. N \notin mixed
            BY <1>0, <1>6 DEF ResTyped
        <3> QED
            BY <1>2, <1>9, <1>11, <1>13, <3>1
    <2>2. Shared(old(x), old(y))
        <3>1. Shared(d, d)
            BY DEF Shared
        <3> QED
            BY <1>9, <1>14, <3>1, SharedBothWays
    <2> HIDE DEF old
    <2>3. /\ old(x) \in mixed <=> old(y) \in mixed
          /\ old(x) \notin mixed => HostsOf(old(x)) = HostsOf(old(y))
        BY <1>0, <2>1, <2>2 DEF Alike
    <2> QED
        BY <2>1, <2>3
<1>18. Covered'
    <2>1. \A x \in 1..N : \A a \in Aliases : \E i \in HostsOf(x)' : i.alias = a
        BY <1>0, <1>9, <1>11, <1>13 DEF Covered
    <2> QED
        BY <1>8, <2>1 DEF Covered
<1>19. OneObject'
    <2>1. ASSUME NEW x \in 1..N, x \notin mixed'
          PROVE  ~Twins(HostsOf(x)')
        <3>1. N \notin mixed
            BY <1>0, <1>6 DEF ResTyped
        <3>2. CASE x = N
            BY <1>0, <1>2, <1>13, <2>1, <3>2 DEF OneObject
        <3>3. CASE x # N
            BY <1>0, <1>2, <1>9, <1>11, <2>1, <3>3 DEF OneObject
        <3> QED
            BY <3>2, <3>3
    <2> QED
        BY <1>8, <2>1 DEF OneObject, Twins
<1> QED
    BY <1>8, <1>15, <1>16, <1>17, <1>18, <1>19 DEF ResIInv

\* The result of a provider has one object per machine.
LEMMA ProviderKeeps ==
    ASSUME ResIInv, NEW roles \in [Aliases -> (SUBSET RoleNames) \ {{}}], ProviderInit(roles)
    PROVE  ResIInv'
<1> DEFINE all == UNION {roles[a] : a \in Aliases}
           made(N) == [r \in RoleNames |->
                         {[alias |-> a, made |-> <<N>>] : a \in {a \in Aliases : r \in roles[a]}}]
           hosts(N) == {[alias |-> a, made |-> <<N>>] : a \in Aliases}
<1>1. PICK N \in Nat : N = New
    BY LenProperties DEF ResIInv, ResTyped, New
<1>2. all \in SUBSET RoleNames /\ \A a \in Aliases : \E r \in all : r \in roles[a]
    OBVIOUS
<1>3. /\ \A a \in Aliases : [alias |-> a, made |-> <<N>>] \in HostObject
      /\ made(N) \in [RoleNames -> SUBSET HostObject]
    <2>1. <<N>> \in Seq(Nat)
        OBVIOUS
    <2>2. \A a \in Aliases : [alias |-> a, made |-> <<N>>] \in HostObject
        BY <2>1 DEF HostObject
    <2> QED
        BY <2>2
<1>4. \A i : i \in hosts(N) <=> \E r \in all : i \in made(N)[r]
    <2>1. \A r \in all : r \in RoleNames
        BY <1>2
    <2>2. \A r \in all : made(N)[r] =
             {[alias |-> a, made |-> <<N>>] : a \in {a \in Aliases : r \in roles[a]}}
        BY <2>1
    <2>3. \A r \in all : made(N)[r] \subseteq hosts(N)
        BY <2>2
    <2>4. ASSUME NEW a \in Aliases
          PROVE  \E r \in all : [alias |-> a, made |-> <<N>>] \in made(N)[r]
        BY <1>2, <2>2
    <2> HIDE DEF all, made
    <2> QED
        BY <2>3, <2>4
<1>5. \A a \in Aliases : \E i \in hosts(N) : i.alias = a
    <2>1. \A a \in Aliases : /\ [alias |-> a, made |-> <<N>>] \in hosts(N)
                            /\ [alias |-> a, made |-> <<N>>].alias = a
        OBVIOUS
    <2> HIDE DEF hosts
    <2> QED
        BY <2>1
<1>6. ~Twins(hosts(N))
    BY DEF Twins
<1>7. /\ Len(dicts) < MaxRoles
      /\ dicts' = Append(dicts, [class |-> "Roles", view |-> Own(N, all)])
      /\ views' = Append(views, made(N)) /\ mixed' = mixed /\ shares' = shares
    BY <1>1 DEF ProviderInit, Make
<1> HIDE DEF all, made, hosts
<1>8. PICK dict \in Dictionary : /\ dict.view = Own(N, all)
                               /\ dicts' = Append(dicts, dict)
    BY <1>2, <1>7, OwnIs DEF Dictionary
<1>9. PICK m, h : m = made(N) /\ h = hosts(N)
    OBVIOUS
<1>10. /\ m \in [RoleNames -> SUBSET HostObject] /\ views' = Append(views, m)
       /\ \A i : i \in h <=> \E r \in all : i \in m[r]
       /\ \A a \in Aliases : \E i \in h : i.alias = a
       /\ ~Twins(h)
    BY <1>3, <1>4, <1>5, <1>6, <1>7, <1>9
<1>11. MadeNew(N, dict, all, m, h)
    BY <1>1, <1>2, <1>7, <1>8, <1>10 DEF MadeNew
<1> QED
    BY <1>11, FreshKeeps

\* d + e has views of its own, with the hosts of d and some of those of e.
LEMMA PlusKeeps ==
    ASSUME ResIInv, NEW d \in Dicts, NEW e \in Dicts, Plus(d, e)
    PROVE  ResIInv'
<1> DEFINE all == Held(d) \cup Held(e)
           made == [r \in RoleNames |-> Added(Members(d, r), Members(e, r))]
           hosts == UNION {made[r] : r \in all}
<1>0. ResTyped /\ Owned /\ Covered
    BY DEF ResIInv
<1>1. PICK N \in Nat : N = New
    BY <1>0, LenProperties DEF ResTyped, New
<1>2. \A S, T : S \subseteq Added(S, T) /\ Added(S, T) \subseteq S \cup T
    BY DEF Added
<1>3. /\ all \in SUBSET RoleNames
      /\ \A r \in RoleNames : Members(d, r) \subseteq HostObject /\ Members(e, r) \subseteq HostObject
    BY <1>0, DictIs
<1>4. made \in [RoleNames -> SUBSET HostObject]
    BY <1>2, <1>3
<1>5. \A r \in all : made[r] = Added(Members(d, r), Members(e, r)) /\ r \in RoleNames
    BY <1>3
<1> HIDE DEF made
<1>6. HostsOf(d) \subseteq hosts
    <2>1. ASSUME NEW i \in HostsOf(d)
          PROVE  i \in hosts
        <3>1. PICK r \in RoleNames : i \in Members(d, r)
            BY DEF HostsOf
        <3>2. r \in Held(d)
            BY <3>1 DEF Members
        <3> QED
            BY <1>2, <1>5, <3>1, <3>2
    <2> QED
        BY <2>1
<1>7. hosts \subseteq HostsOf(d) \cup HostsOf(e)
    <2>1. \A r \in RoleNames : Members(d, r) \subseteq HostsOf(d) /\ Members(e, r) \subseteq HostsOf(e)
        BY DEF HostsOf
    <2>2. \A r \in all : made[r] \subseteq HostsOf(d) \cup HostsOf(e)
        BY <1>2, <1>5, <2>1
    <2> QED
        BY <2>2
<1>8. \A a \in Aliases : \E i \in hosts : i.alias = a
    BY <1>0, <1>6 DEF Covered
<1>9. /\ Len(dicts) < MaxRoles
      /\ dicts' = Append(dicts, [class |-> "RolesDict", view |-> Own(N, all)])
      /\ views' = Append(views, made) /\ shares' = shares
      /\ mixed' \in {mixed, mixed \cup {N}}
      /\ N \notin mixed' => ~Twins(HostsOf(d) \cup HostsOf(e))
    BY <1>1 DEF Plus, Make, SumView, made
<1>10. N \notin mixed' => ~Twins(hosts)
    BY <1>7, <1>9, NoTwinsIn
<1>11. \A i : i \in hosts <=> \E r \in all : i \in made[r]
    OBVIOUS
<1> HIDE DEF all, hosts
<1>12. PICK dict \in Dictionary : dict.view = Own(N, all) /\ dicts' = Append(dicts, dict)
    BY <1>1, <1>3, <1>9, OwnIs DEF Dictionary
<1>13. MadeNew(N, dict, all, made, hosts)
    BY <1>1, <1>3, <1>4, <1>8, <1>9, <1>10, <1>11, <1>12 DEF MadeNew
<1> QED
    BY <1>13, FreshKeeps

\* The copy of sync_info has copies of the hosts.
LEMMA SyncCopyKeeps ==
    ASSUME ResIInv, NEW d \in Dicts, SyncCopy(d)
    PROVE  ResIInv'
<1> DEFINE all == Held(d)
           made == [r \in RoleNames |-> {Copy(i) : i \in Members(d, r)}]
           hosts == UNION {made[r] : r \in all}
<1>0. ResTyped /\ Owned /\ Covered /\ OneObject
    BY DEF ResIInv
<1>1. PICK N \in Nat : N = New
    BY <1>0, LenProperties DEF ResTyped, New
<1>2. \A i \in HostObject : Copy(i) \in HostObject /\ Copy(i).alias = i.alias
    <2>1. \A i \in HostObject : Append(i.made, New) \in Seq(Nat)
        BY <1>1, AppendProperties DEF HostObject
    <2> QED
        BY <2>1 DEF Copy, HostObject
<1>3. /\ all \in SUBSET RoleNames
      /\ \A r \in RoleNames : Members(d, r) \subseteq HostObject
    BY <1>0, DictIs
<1>4. made \in [RoleNames -> SUBSET HostObject]
    BY <1>2, <1>3
<1>5. \A r \in all : made[r] = {Copy(i) : i \in Members(d, r)}
    BY <1>3
<1> HIDE DEF made
<1>6. \A i \in HostsOf(d) : i \in HostObject /\ Copy(i) \in hosts
    <2> TAKE i \in HostsOf(d)
    <2>1. PICK r \in RoleNames : i \in Members(d, r)
        BY DEF HostsOf
    <2>2. r \in Held(d)
        BY <2>1 DEF Members
    <2> QED
        BY <1>3, <1>5, <2>1, <2>2
<1>7. \A h \in hosts : \E i \in HostsOf(d) : h = Copy(i)
    <2>1. \A r \in RoleNames : Members(d, r) \subseteq HostsOf(d)
        BY DEF HostsOf
    <2> QED
        BY <1>3, <1>5, <2>1
<1>8. \A a \in Aliases : \E i \in hosts : i.alias = a
    BY <1>0, <1>2, <1>6 DEF Covered
<1>9. /\ Len(dicts) < MaxRoles
      /\ dicts' = Append(dicts, [class |-> "Roles", view |-> Own(N, all)])
      /\ views' = Append(views, made) /\ shares' = shares
      /\ mixed' \in {mixed, mixed \cup {N}}
      /\ N \notin mixed' => d \notin mixed
    BY <1>1 DEF SyncCopy, Make, made
<1>10. N \notin mixed' => ~Twins(hosts)
    <2> SUFFICES ASSUME N \notin mixed', NEW h \in hosts, NEW k \in hosts, h.alias = k.alias
                 PROVE  h = k
        BY DEF Twins
    <2>1. PICK i \in HostsOf(d) : h = Copy(i)
        BY <1>7
    <2>2. PICK j \in HostsOf(d) : k = Copy(j)
        BY <1>7
    <2>3. i.alias = j.alias
        BY <1>2, <1>6, <2>1, <2>2
    <2>4. i = j
        BY <1>0, <1>9, <2>3 DEF OneObject, Twins
    <2> QED
        BY <2>1, <2>2, <2>4
<1>11. \A i : i \in hosts <=> \E r \in all : i \in made[r]
    OBVIOUS
<1> HIDE DEF hosts
<1>12. PICK dict \in Dictionary : dict.view = Own(N, all) /\ dicts' = Append(dicts, dict)
    BY <1>1, <1>3, <1>9, OwnIs DEF Dictionary
<1>13. /\ all \in SUBSET RoleNames /\ Len(dicts) < MaxRoles /\ views' = Append(views, made)
       /\ mixed' \in {mixed, mixed \cup {N}} /\ shares' = shares
    BY <1>3, <1>9
<1> HIDE DEF all
<1>14. MadeNew(N, dict, all, made, hosts)
    BY <1>1, <1>4, <1>8, <1>10, <1>11, <1>12, <1>13 DEF MadeNew
<1> QED
    BY <1>14, FreshKeeps

-----------------------------------------------------------------------------
(* The collections: changes in place *)

\* A sync in place and a stuttering step change no dictionary and no view.
LEMMA SyncInPlaceKeeps ==
    ASSUME ResIInv, UNCHANGED <<dicts, views, shares, mixed>>
    PROVE  ResIInv'
<1>1. /\ dicts' = dicts /\ views' = views /\ shares' = shares /\ mixed' = mixed
      /\ Dicts' = Dicts
    BY DEF Dicts
<1>2. \A d : Held(d)' = Held(d)
    BY <1>1 DEF Held
<1>3. \A d, r : Members(d, r)' = Members(d, r)
    BY <1>1, <1>2 DEF Members, View
<1>4. \A d : HostsOf(d)' = HostsOf(d)
    BY <1>3 DEF HostsOf
<1>5. \A d, e : Shared(d, e)' <=> Shared(d, e)
    BY <1>1 DEF Shared
<1>6. ResTyped'
    BY <1>1 DEF ResIInv, ResTyped
<1>7. Owned'
    BY <1>1, <1>2, <1>5 DEF ResIInv, Owned
<1>8. SharedByAll'
    BY <1>1, <1>5 DEF ResIInv, SharedByAll
<1>9. Alike'
    BY <1>1, <1>4, <1>5 DEF ResIInv, Alike
<1>10. Covered'
    BY <1>1, <1>4 DEF ResIInv, Covered
<1>11. OneObject'
    <2>1. \A d : ~Twins(HostsOf(d)) => ~Twins(HostsOf(d))'
        BY <1>4 DEF Twins
    <2> QED
        BY <1>1, <2>1 DEF ResIInv, OneObject
<1> QED
    BY <1>6, <1>7, <1>8, <1>9, <1>10, <1>11 DEF ResIInv

\* d gets views for the roles that only e has, and the views of the roles of
\* both get hosts of e.
LEMMA ExtendDoes ==
    ASSUME ResIInv, NEW d \in Dicts, NEW e \in Dicts, Extend(d, e)
    PROVE  /\ Dicts' = Dicts /\ ResTyped'
           /\ \A x \in Dicts : x # d => dicts'[x] = dicts[x]
           /\ \A r \in RoleNames : dicts'[d].view[r] =
                 (IF r \in Held(e) /\ r \notin Held(d) THEN <<d, r>> ELSE dicts[d].view[r])
           /\ \A n \in Dicts, r \in RoleNames :
                 /\ n = d /\ r \in Held(e) /\ r \notin Held(d) => views'[n][r] = Members(e, r)
                 /\ r \in Held(e) /\ dicts[d].view[r] = <<n, r>> =>
                       views'[n][r] = Added(views[n][r], Members(e, r))
                 /\ ~(n = d /\ r \in Held(e) /\ r \notin Held(d))
                    /\ ~(r \in Held(e) /\ dicts[d].view[r] = <<n, r>>) =>
                       views'[n][r] = views[n][r]
<1> DEFINE named(n, r) == {s \in Held(e) : dicts[d].view[s] = <<n, r>>}
<1>0. ResTyped /\ Owned
    BY DEF ResIInv
<1>1. /\ dicts \in Seq(Dictionary) /\ views \in Seq([RoleNames -> SUBSET HostObject])
      /\ Len(views) = Len(dicts) /\ Len(dicts) \in Nat
    BY <1>0, LenProperties DEF ResTyped
<1>2. /\ dicts[d] \in Dictionary
      /\ \A r \in RoleNames : Members(e, r) \subseteq HostObject
      /\ Held(d) \subseteq RoleNames /\ Held(e) \subseteq RoleNames
    BY <1>0, DictIs
<1>3. \A n, r : <<n, r>> # NoView
    BY DEF NoView
<1>4. ASSUME NEW n \in Dicts, NEW r \in RoleNames
      PROVE  named(n, r) = (IF r \in Held(e) /\ dicts[d].view[r] = <<n, r>> THEN {r} ELSE {})
    <2>1. ASSUME NEW s \in Held(e), dicts[d].view[s] = <<n, r>>
          PROVE  s = r
        <3>1. s \in Held(d)
            BY <1>2, <1>3, <2>1 DEF Held
        <3>2. PICK m \in Dicts : dicts[d].view[s] = <<m, s>>
            BY <1>0, <3>1 DEF Owned
        <3>3. <<m, s>> = <<n, r>>
            BY <2>1, <3>2
        <3> QED
            BY <3>3
    <2> QED
        BY <2>1
<1>5. dicts' = [dicts EXCEPT ![d].view =
                   [r \in RoleNames |-> IF r \in Held(e) \ Held(d) THEN <<d, r>> ELSE @[r]]]
    BY DEF Extend
<1>6. /\ Len(dicts') = Len(dicts) /\ Dicts' = Dicts /\ dicts' \in Seq(Dictionary)
      /\ \A x \in Dicts : x # d => dicts'[x] = dicts[x]
      /\ \A r \in RoleNames : dicts'[d].view[r] =
            (IF r \in Held(e) /\ r \notin Held(d) THEN <<d, r>> ELSE dicts[d].view[r])
    <2> DEFINE new == [r \in RoleNames |->
                         IF r \in Held(e) \ Held(d) THEN <<d, r>> ELSE dicts[d].view[r]]
               dict == [dicts[d] EXCEPT !.view = new]
    <2>1. dicts' = [dicts EXCEPT ![d] = dict]
        BY <1>5
    <2>2. new \in [RoleNames -> ViewName]
        <3>1. \A r \in RoleNames : dicts[d].view[r] \in ViewName /\ <<d, r>> \in ViewName
            BY <1>0, <1>1, DictIs DEF Dicts, ViewName
        <3> QED
            BY <3>1
    <2>3. dict \in Dictionary /\ dict.view = new
        <3> HIDE DEF new
        <3> QED
            BY <1>2, <2>2 DEF Dictionary
    <2>4. \A r \in RoleNames : new[r] =
             (IF r \in Held(e) /\ r \notin Held(d) THEN <<d, r>> ELSE dicts[d].view[r])
        OBVIOUS
    <2> HIDE DEF new, dict
    <2>5. d \in 1..Len(dicts)
        BY DEF Dicts
    <2>6. /\ dicts' \in Seq(Dictionary) /\ Len(dicts') = Len(dicts)
          /\ \A x \in 1..Len(dicts) : dicts'[x] = (IF x = d THEN dict ELSE dicts[x])
        BY <1>1, <2>1, <2>3, <2>5, ExceptSeq
    <2> QED
        BY <2>3, <2>4, <2>5, <2>6 DEF Dicts
<1>7. views' = [n \in 1..Len(views) |-> [r \in RoleNames |->
                    IF n = d /\ r \in Held(e) \ Held(d) THEN Members(e, r)
                    ELSE IF \E s \in Held(e) : dicts[d].view[s] = <<n, r>>
                    THEN Added(views[n][r], UNION {Members(e, s) : s \in named(n, r)})
                    ELSE views[n][r]]]
    BY DEF Extend
<1>8. ASSUME NEW n \in Dicts, NEW r \in RoleNames
      PROVE  /\ n = d /\ r \in Held(e) /\ r \notin Held(d) => views'[n][r] = Members(e, r)
             /\ r \in Held(e) /\ dicts[d].view[r] = <<n, r>> =>
                   views'[n][r] = Added(views[n][r], Members(e, r))
             /\ ~(n = d /\ r \in Held(e) /\ r \notin Held(d))
                /\ ~(r \in Held(e) /\ dicts[d].view[r] = <<n, r>>) =>
                   views'[n][r] = views[n][r]
    <2>1. n \in 1..Len(views)
        BY <1>1 DEF Dicts
    <2>2. views'[n][r] =
             (IF n = d /\ r \in Held(e) \ Held(d) THEN Members(e, r)
              ELSE IF \E s \in Held(e) : dicts[d].view[s] = <<n, r>>
              THEN Added(views[n][r], UNION {Members(e, s) : s \in named(n, r)})
              ELSE views[n][r])
        BY <1>7, <2>1
    <2>3. (\E s \in Held(e) : dicts[d].view[s] = <<n, r>>) <=> named(n, r) # {}
        OBVIOUS
    <2>4. r \in Held(d) <=> dicts[d].view[r] # NoView
        BY DEF Held
    <2>5. CASE r \in Held(e) /\ dicts[d].view[r] = <<n, r>>
        <3>1. named(n, r) = {r} /\ r \in Held(d)
            BY <1>3, <1>4, <2>4, <2>5
        <3>2. UNION {Members(e, s) : s \in {r}} = Members(e, r)
            OBVIOUS
        <3> HIDE DEF named
        <3>3. UNION {Members(e, s) : s \in named(n, r)} = Members(e, r)
            BY <3>1, <3>2
        <3> QED
            BY <2>2, <2>3, <2>5, <3>1, <3>3
    <2>6. CASE ~(r \in Held(e) /\ dicts[d].view[r] = <<n, r>>)
        <3>1. named(n, r) = {}
            BY <1>4, <2>6
        <3> HIDE DEF named
        <3> QED
            BY <2>2, <2>3, <2>6, <3>1
    <2> QED
        BY <2>5, <2>6
<1> HIDE DEF named
<1>9. views' \in Seq([RoleNames -> SUBSET HostObject]) /\ Len(views') = Len(dicts)
    <2> DEFINE row(n) == [r \in RoleNames |->
                    IF n = d /\ r \in Held(e) \ Held(d) THEN Members(e, r)
                    ELSE IF \E s \in Held(e) : dicts[d].view[s] = <<n, r>>
                    THEN Added(views[n][r], UNION {Members(e, s) : s \in named(n, r)})
                    ELSE views[n][r]]
    <2>1. \A n \in Dicts : views[n] \in [RoleNames -> SUBSET HostObject]
        BY <1>1, ElementOfSeq DEF Dicts
    <2>2. \A S, T : Added(S, T) \subseteq S \cup T
        BY DEF Added
    <2>3. ASSUME NEW n \in Dicts, NEW r \in RoleNames
          PROVE  views'[n][r] \in SUBSET HostObject
        <3>1. views[n][r] \in SUBSET HostObject /\ Members(e, r) \in SUBSET HostObject
            BY <1>2, <2>1
        <3>2. views'[n][r] \in {Members(e, r), Added(views[n][r], Members(e, r)), views[n][r]}
            BY <1>8
        <3> QED
            BY <2>2, <3>1, <3>2
    <2>4. \A n \in Dicts : views'[n] = row(n)
        BY <1>1, <1>7 DEF Dicts
    <2>5. \A n \in Dicts : row(n) \in [RoleNames -> SUBSET HostObject]
        <3> SUFFICES ASSUME NEW n \in Dicts, NEW r \in RoleNames
                     PROVE  row(n)[r] \in SUBSET HostObject
            OBVIOUS
        <3> HIDE DEF row
        <3> QED
            BY <2>3, <2>4
    <2>6. views' = [n \in 1..Len(dicts) |-> row(n)]
        BY <1>1, <1>7
    <2> HIDE DEF row
    <2>7. views' \in [1..Len(dicts) -> [RoleNames -> SUBSET HostObject]]
        BY <2>5, <2>6 DEF Dicts
    <2> QED
        BY <1>1, <2>7
<1>10. ResTyped'
    <2>1. mixed' \in SUBSET Dicts /\ shares' = shares
        BY <1>0 DEF Extend, Seen, ResTyped
    <2> QED
        BY <1>0, <1>1, <1>6, <1>9, <2>1 DEF ResTyped
<1> QED
    BY <1>6, <1>8, <1>10

\* d += e takes no host from a dictionary, adds hosts of e only to those that
\* share with d, and to none that is not then known to mix hosts and copies.
LEMMA ExtendKeeps ==
    ASSUME ResIInv, NEW d \in Dicts, NEW e \in Dicts, Extend(d, e)
    PROVE  ResIInv'
<1>0. ResTyped /\ Owned /\ SharedByAll /\ Alike /\ Covered /\ OneObject
    BY DEF ResIInv
<1>1. /\ Dicts' = Dicts /\ ResTyped'
      /\ \A x \in Dicts : x # d => dicts'[x] = dicts[x]
      /\ \A r \in RoleNames : dicts'[d].view[r] =
            (IF r \in Held(e) /\ r \notin Held(d) THEN <<d, r>> ELSE dicts[d].view[r])
    BY ExtendDoes
<1>2. \A n \in Dicts, r \in RoleNames :
         /\ n = d /\ r \in Held(e) /\ r \notin Held(d) => views'[n][r] = Members(e, r)
         /\ r \in Held(e) /\ dicts[d].view[r] = <<n, r>> =>
               views'[n][r] = Added(views[n][r], Members(e, r))
         /\ ~(n = d /\ r \in Held(e) /\ r \notin Held(d))
            /\ ~(r \in Held(e) /\ dicts[d].view[r] = <<n, r>>) =>
               views'[n][r] = views[n][r]
    BY ExtendDoes
<1>3. \A n, r : <<n, r>> # NoView
    BY DEF NoView
<1>4. \A x : Held(x) \subseteq RoleNames /\ \A r \in RoleNames : r \in Held(x) <=> dicts[x].view[r] # NoView
    BY DEF Held
<1>5. \A x : Held(x)' \subseteq RoleNames /\ \A r \in RoleNames : r \in Held(x)' <=> dicts'[x].view[r] # NoView
    BY DEF Held
<1>6. /\ \A x \in Dicts : \A r \in Held(x) : r \in Held(x)' /\ dicts'[x].view[r] = dicts[x].view[r]
      /\ \A x \in Dicts : \A r \in Held(x)' :
            r \notin Held(x) => /\ x = d /\ r \in Held(e) /\ r \notin Held(d)
                                /\ dicts'[d].view[r] = <<d, r>>
    <2>1. ASSUME NEW x \in Dicts, NEW r \in Held(x)
          PROVE  r \in Held(x)' /\ dicts'[x].view[r] = dicts[x].view[r]
        <3>1. r \in RoleNames /\ dicts[x].view[r] # NoView
            BY <1>4
        <3>2. dicts'[x].view[r] = dicts[x].view[r]
            BY <1>1, <3>1
        <3> QED
            BY <1>5, <3>1, <3>2
    <2>2. ASSUME NEW x \in Dicts, NEW r \in Held(x)', r \notin Held(x)
          PROVE  /\ x = d /\ r \in Held(e) /\ r \notin Held(d)
                 /\ dicts'[d].view[r] = <<d, r>>
        <3>1. r \in RoleNames /\ dicts'[x].view[r] # NoView
            BY <1>5
        <3>2. dicts[x].view[r] = NoView
            BY <1>4, <2>2, <3>1
        <3>3. x = d
            BY <1>1, <3>1, <3>2
        <3>4. dicts'[d].view[r] # dicts[d].view[r]
            BY <3>1, <3>2, <3>3
        <3> QED
            BY <1>1, <3>1, <3>3, <3>4
    <2> QED
        BY <2>1, <2>2
<1>7. \A x, y : Shared(x, y)' <=> Shared(x, y)
    BY DEF Extend, Shared
<1>8. ASSUME NEW x \in Dicts, NEW r \in Held(x)
      PROVE  \/ Members(x, r)' = Members(x, r)
             \/ /\ Shared(x, d) /\ r \in Held(e)
                /\ Members(x, r)' = Added(Members(x, r), Members(e, r))
    <2>1. PICK n \in Dicts : dicts[x].view[r] = <<n, r>> /\ Members(x, r) = views[n][r]
        BY <1>0, DictIs
    <2>2. Members(x, r)' = views'[n][r]
        <3>1. r \in Held(x)' /\ dicts'[x].view[r] = <<n, r>>
            BY <1>6, <2>1
        <3>2. View(<<n, r>>)' = views'[n][r]
            BY DEF View
        <3> QED
            BY ONLY <3>1, <3>2 DEF Members
    <2>3. dicts[n].view[r] = <<n, r>> /\ r \in RoleNames
        <3>1. PICK m \in Dicts : dicts[x].view[r] = <<m, r>> /\ dicts[m].view[r] = <<m, r>>
            BY <1>0 DEF Owned
        <3>2. <<m, r>> = <<n, r>>
            BY <2>1, <3>1
        <3>3. m = n
            BY <3>2
        <3> QED
            BY <1>4, <3>1, <3>3
    <2>4. r \in Held(n)
        BY <1>3, <1>4, <2>3
    <2>5. CASE r \in Held(e) /\ dicts[d].view[r] = <<n, r>>
        <3>1. r \in Held(d)
            BY <1>3, <1>4, <2>3, <2>5
        <3>2. Shared(x, d)
            BY <1>0, <2>1, <2>5, <3>1, ApartIf
        <3>3. views'[n][r] = Added(views[n][r], Members(e, r))
            BY <1>2, <2>3, <2>5
        <3> QED
            BY <2>1, <2>2, <2>5, <3>2, <3>3
    <2>6. CASE ~(r \in Held(e) /\ dicts[d].view[r] = <<n, r>>)
        <3>1. views'[n][r] = views[n][r]
            BY <1>2, <2>3, <2>4, <2>6
        <3> QED
            BY <2>1, <2>2, <3>1
    <2> QED
        BY <2>5, <2>6
<1>9. ASSUME NEW x \in Dicts, NEW r \in RoleNames, r \notin Held(x)
      PROVE  \/ Members(x, r)' = {}
             \/ Shared(x, d) /\ Members(x, r)' = Members(e, r)
    <2>1. CASE r \notin Held(x)'
        BY <2>1 DEF Members
    <2>2. CASE r \in Held(x)'
        <3>1. x = d /\ r \in Held(e) /\ r \notin Held(d) /\ dicts'[d].view[r] = <<d, r>>
            BY <1>6, <1>9, <2>2
        <3>2. views'[d][r] = Members(e, r)
            BY <1>2, <3>1
        <3>3. View(<<d, r>>)' = views'[d][r]
            BY DEF View
        <3>4. Members(d, r)' = views'[d][r]
            BY ONLY <2>2, <3>1, <3>3 DEF Members
        <3> QED
            BY <3>1, <3>2, <3>4 DEF Shared
    <2> QED
        BY <2>1, <2>2
<1>10. \A S, T : S \subseteq Added(S, T) /\ Added(S, T) \subseteq S \cup T
    BY DEF Added
<1>11. ASSUME NEW x \in Dicts
       PROVE  /\ HostsOf(x) \subseteq HostsOf(x)'
              /\ HostsOf(x)' \subseteq HostsOf(x) \cup HostsOf(e)
              /\ ~Shared(x, d) => HostsOf(x)' = HostsOf(x)
    <2>1. \A r \in RoleNames : r \notin Held(x) => Members(x, r) = {}
        BY DEF Members
    <2>2. \A r \in RoleNames :
             /\ Members(x, r) \subseteq Members(x, r)'
             /\ Members(x, r)' \subseteq Members(x, r) \cup Members(e, r)
             /\ ~Shared(x, d) => Members(x, r)' = Members(x, r)
        <3> TAKE r \in RoleNames
        <3>1. CASE r \in Held(x)
            BY <1>8, <1>10, <3>1
        <3>2. CASE r \notin Held(x)
            BY <1>9, <2>1, <3>2
        <3> QED
            BY <3>1, <3>2
    <2>3. HostsOf(x)' = UNION {Members(x, r)' : r \in RoleNames}
        BY DEF HostsOf
    <2>4. HostsOf(x) = UNION {Members(x, r) : r \in RoleNames}
        BY DEF HostsOf
    <2>5. HostsOf(e) = UNION {Members(e, r) : r \in RoleNames}
        BY DEF HostsOf
    <2> QED
        BY <2>2, <2>3, <2>4, <2>5
<1>12. \A x \in Dicts : x \in Seen(d) <=> Shared(x, d)
    <2>1. \A x : {d, x} = {x, d}
        OBVIOUS
    <2> QED
        BY <2>1 DEF Seen, Shared
<1>13. mixed' = (IF e \in mixed \/ Twins(HostsOf(d) \cup HostsOf(e)) THEN mixed \cup Seen(d)
                 ELSE mixed)
    BY DEF Extend
<1>14. ASSUME NEW x \in Dicts, x \notin mixed'
       PROVE  x \notin mixed /\ HostsOf(x)' = HostsOf(x)
    <2>1. x \notin mixed
        BY <1>13, <1>14
    <2>2. CASE ~Shared(x, d)
        BY <1>11, <2>1, <2>2
    <2>3. CASE Shared(x, d)
        <3>1. ~Twins(HostsOf(d) \cup HostsOf(e))
            BY <1>12, <1>13, <1>14, <2>3
        <3>2. HostsOf(x) = HostsOf(d)
            BY <1>0, <2>1, <2>3 DEF Alike
        <3>3. \A i \in HostsOf(e) : i.alias \in Aliases
            BY <1>0, DictIs DEF HostObject
        <3>4. \A a \in Aliases : \E i \in HostsOf(d) : i.alias = a
            BY <1>0 DEF Covered
        <3>5. HostsOf(e) \subseteq HostsOf(d)
            BY <3>1, <3>3, <3>4, SameObjects
        <3> QED
            BY <1>11, <2>1, <3>2, <3>5
    <2> QED
        BY <2>2, <2>3
<1>15. Owned'
    <2> SUFFICES ASSUME NEW x \in Dicts, NEW r \in Held(x)'
                 PROVE  \E n \in Dicts : /\ dicts'[x].view[r] = <<n, r>>
                                         /\ dicts'[n].view[r] = <<n, r>> /\ Shared(n, x)'
        BY <1>1 DEF Owned
    <2>1. CASE r \in Held(x)
        <3>1. PICK n \in Dicts : /\ dicts[x].view[r] = <<n, r>> /\ dicts[n].view[r] = <<n, r>>
                                 /\ Shared(n, x)
            BY <1>0, <2>1 DEF Owned
        <3>2. r \in Held(n)
            BY <1>3, <1>4, <2>1, <3>1
        <3> QED
            BY <1>6, <1>7, <2>1, <3>1, <3>2
    <2>2. CASE r \notin Held(x)
        <3>1. x = d /\ dicts'[d].view[r] = <<d, r>> /\ Shared(d, d)
            BY <1>6, <2>2 DEF Shared
        <3> QED
            BY <1>7, <3>1
    <2> QED
        BY <2>1, <2>2
<1>16. SharedByAll'
    BY <1>0, <1>1, <1>7 DEF SharedByAll
<1>17. Alike'
    <2> SUFFICES ASSUME NEW x \in Dicts, NEW y \in Dicts, Shared(x, y)
                 PROVE  /\ x \in mixed' <=> y \in mixed'
                        /\ x \notin mixed' => HostsOf(x)' = HostsOf(y)'
        BY <1>1, <1>7 DEF Alike
    <2>1. x \in Seen(d) <=> y \in Seen(d)
        BY <1>0, <1>12, SharedBothWays DEF SharedByAll
    <2>2. x \in mixed <=> y \in mixed
        BY <1>0 DEF Alike
    <2>3. x \in mixed' <=> y \in mixed'
        BY <1>13, <2>1, <2>2
    <2>4. x \notin mixed' => HostsOf(x)' = HostsOf(y)'
        BY <1>0, <1>14, <2>3 DEF Alike
    <2> QED
        BY <2>3, <2>4
<1>18. Covered'
    <2>1. \A x \in Dicts : \A a \in Aliases : \E i \in HostsOf(x)' : i.alias = a
        BY <1>0, <1>11 DEF Covered
    <2> QED
        BY <1>1, <2>1 DEF Covered
<1>19. OneObject'
    <2>1. ASSUME NEW x \in Dicts, x \notin mixed'
          PROVE  ~Twins(HostsOf(x)')
        BY <1>0, <1>14, <2>1 DEF OneObject
    <2> QED
        BY <1>1, <2>1 DEF OneObject, Twins
<1> QED
    BY <1>1, <1>15, <1>16, <1>17, <1>18, <1>19 DEF ResIInv

LEMMA ResourcesStarts == ResourcesInit => ResIInv
<1> SUFFICES ASSUME ResourcesInit
             PROVE  ResIInv
    OBVIOUS
<1>1. /\ dicts = <<>> /\ views = <<>> /\ shares = {} /\ mixed = {}
      /\ Len(dicts) = 0 /\ Len(views) = 0
    BY DEF ResourcesInit
<1>2. Dicts = {}
    BY <1>1 DEF Dicts
<1>3. ResTyped
    BY <1>1, ResourcesAssumption DEF ResTyped
<1> QED
    BY <1>2, <1>3 DEF ResIInv, Owned, SharedByAll, Alike, Covered, OneObject

LEMMA ResourcesKeeps == ResourcesSpec => []ResIInv
<1>1. ResIInv /\ [ResourcesNext]_resourcesVars => ResIInv'
    <2> SUFFICES ASSUME ResIInv, [ResourcesNext]_resourcesVars
                 PROVE  ResIInv'
        OBVIOUS
    <2>1. CASE \E roles \in [Aliases -> (SUBSET RoleNames) \ {{}}] : ProviderInit(roles)
        BY <2>1, ProviderKeeps
    <2>2. CASE \E d \in Dicts : CopyRoles(d)
        BY <2>2, CopyKeeps
    <2>3. CASE \E d \in Dicts : SyncInPlace(d)
        BY <2>3, SyncInPlaceKeeps DEF SyncInPlace
    <2>4. CASE \E d \in Dicts : SyncCopy(d)
        BY <2>4, SyncCopyKeeps
    <2>5. CASE \E d, e \in Dicts : Plus(d, e)
        BY <2>5, PlusKeeps
    <2>6. CASE \E d, e \in Dicts : Extend(d, e)
        BY <2>6, ExtendKeeps
    <2>7. CASE UNCHANGED resourcesVars
        BY <2>7, SyncInPlaceKeeps DEF resourcesVars
    <2> QED
        BY <2>1, <2>2, <2>3, <2>4, <2>5, <2>6, <2>7 DEF ResourcesNext
<1> QED
    BY <1>1, ResourcesStarts, PTL DEF ResourcesSpec

\* Every dictionary holds views that were made for the role, of dictionaries
\* that are there.
THEOREM ResourcesTypeCorrect == ResourcesSpec => []ResourcesTypeOK
<1>1. ResIInv => ResourcesTypeOK
    <2> SUFFICES ASSUME ResIInv
                 PROVE  ResourcesTypeOK
        OBVIOUS
    <2>1. ASSUME NEW d \in Dicts
          PROVE  /\ dicts[d].class \in {"Roles", "RolesDict"}
                 /\ dicts[d].view \in [RoleNames -> (Dicts \X RoleNames) \cup {NoView}]
        <3>1. dicts[d] \in Dictionary
            BY DictIs DEF ResIInv
        <3>2. \A r \in RoleNames : dicts[d].view[r] \in (Dicts \X RoleNames) \cup {NoView}
            <4> TAKE r \in RoleNames
            <4>1. CASE r \in Held(d)
                <5>1. PICK n \in Dicts : dicts[d].view[r] = <<n, r>>
                    BY <4>1 DEF ResIInv, Owned
                <5> QED
                    BY <5>1
            <4>2. CASE r \notin Held(d)
                BY <4>2 DEF Held
            <4> QED
                BY <4>1, <4>2
        <3> QED
            BY <3>1, <3>2 DEF Dictionary
    <2> QED
        BY <2>1 DEF ResIInv, ResTyped, ResourcesTypeOK
<1> QED
    BY <1>1, ResourcesKeeps, PTL

\* Only Roles(d) shares views, and unless hosts and copies of them were put
\* together a machine is one object in all the roles of a dictionary.
THEOREM RolesStayApart == ResourcesSpec => []RolesApart
<1>1. ResIInv => RolesApart
    <2> SUFFICES ASSUME ResIInv
                 PROVE  RolesApart
        OBVIOUS
    <2>1. ASSUME NEW d \in Dicts, NEW e \in Dicts, d # e, {d, e} \notin shares
          PROVE  {dicts[d].view[r] : r \in Held(d)} \cap {dicts[e].view[r] : r \in Held(e)} = {}
        <3>1. ~Shared(d, e)
            BY <2>1 DEF Shared
        <3>2. \A r \in Held(d), s \in Held(e) : dicts[d].view[r] # dicts[e].view[s]
            BY <3>1, ApartIf DEF ResIInv
        <3> QED
            BY <3>2
    <2> QED
        BY <2>1 DEF ResIInv, OneObject, RolesApart
<1> QED
    BY <1>1, ResourcesKeeps, PTL

-----------------------------------------------------------------------------
(* The four components together *)

\* A behaviour of the experiment is one of each of its components.
LEMMA PartsRun == Spec => EnvSpec /\ ConfigSpec /\ ResourcesSpec /\ AnsibleSpec
<1>1. Init => EnvInit /\ ConfigInit /\ ResourcesInit /\ AnsibleInit
    BY DEF Init
<1>2. [Next]_vars => /\ [EnvNext]_envVars /\ [ConfigNext]_configVars
                     /\ [ResourcesNext]_resourcesVars /\ [AnsibleNext]_ansibleVars
    BY DEF Next, vars
<1> QED
    BY <1>1, <1>2, PTL DEF Spec, EnvSpec, ConfigSpec, ResourcesSpec, AnsibleSpec

\* Tasks, configuration, collections and calls of Ansible each have the types
\* that their functions assume.
THEOREM TypesCorrect == Spec => []TypesOK
<1>1. EnvTypeOK /\ ConfigTypeOK /\ ResourcesTypeOK /\ AnsibleTypeOK => TypesOK
    BY DEF TypesOK
<1> QED
    BY <1>1, PartsRun, EnvTypeCorrect, ConfigTypeCorrect, ResourcesTypeCorrect,
       AnsibleTypeCorrect, PTL

\* What each of them promises holds of all four together.
THEOREM ExperimentKeeps ==
    Spec => [](/\ TasksAccumulate /\ LinkKept /\ ConfigKept /\ RolesApart
               /\ SuccessMeansEverywhere /\ MarkersComeBack /\ SyncedTogether)
    BY PartsRun, StoresAccumulate, LinkStays, ConfigRestored, RolesStayApart,
       SuccessEverywhere, MarkersBack, SyncAllOrNothing, PTL
=============================================================================
