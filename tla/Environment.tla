---------------------------- MODULE Environment ----------------------------
(***************************************************************************)
(* The environment of an experiment (enoslib/task.py): a pickled key-value *)
(* store in a directory, and a symbolic link to the last created one.      *)
(* Several processes run tasks (functions decorated by enostask), a task   *)
(* may call another one, and a process may be killed between two steps.    *)
(*                                                                         *)
(* The store is abstracted to a set: the numbers of the tasks whose body   *)
(* saved a key, CONFIG when it names a configuration file, and the         *)
(* configuration keys merged from that file.                               *)
(***************************************************************************)
EXTENDS Naturals, FiniteSets, Sequences

CONSTANTS
    Clients,      \* processes that run tasks
    Dirs,         \* directories of environments
    ConfKeys,     \* keys a configuration file may hold
    MaxTasks,     \* bound: tasks run in a behaviour
    MaxKills      \* bound: processes killed

ASSUME EnvironmentAssumption ==
    /\ MaxTasks \in Nat \ {0}
    /\ MaxKills \in Nat
    /\ ConfKeys \cap (0..MaxTasks) = {}
    /\ "none" \notin Dirs

NoDir == "none"
CONFIG == 0

Content == SUBSET ((1..MaxTasks) \cup {CONFIG} \cup ConfKeys)

\* A file is a store, or nothing a task can load.
NoFile == [ok |-> FALSE, exists |-> FALSE, store |-> {}]
Truncated == [NoFile EXCEPT !.exists = TRUE]
Dumped(store) == [ok |-> TRUE, exists |-> TRUE, store |-> store]

VARIABLES
    file,     \* file[d]: the file env in the directory d
    link,     \* what SYMLINK_NAME points to
    heap,     \* heap[p]: the Environment objects of p, in order of creation
    stack,    \* stack[p]: the tasks p is in, the innermost last
    tasks,    \* number of tasks started
    kills,    \* number of processes killed
    saved,    \* history, saved[d]: the tasks ended in d since it was created
    parted,   \* history: directories open in two objects at a time
    linked    \* history: some task has gone past its symbolic link

envVars == <<file, link, heap, stack, tasks, kills, saved, parted, linked>>

Steps == {"create", "fill", "exists", "unlink", "symlink", "reload", "body", "open",
          "write"}

Top(p) == stack[p][Len(stack[p])]
In(p, step) == stack[p] # <<>> /\ Top(p).step = step
Env(p) == heap[p][Top(p).env]
GoTo(p, step) == stack' = [stack EXCEPT ![p][Len(stack[p])].step = step]
Push(p, frame) == stack' = [stack EXCEPT ![p] = Append(@, frame)]

EnvTypeOK ==
    /\ \A d \in Dirs : file[d] \in [ok : BOOLEAN, exists : BOOLEAN, store : Content]
    /\ link \in Dirs \cup {NoDir}
    /\ \A p \in Clients : \A i \in 1..Len(heap[p]) :
          heap[p][i].dir \in Dirs /\ heap[p][i].store \in Content
    /\ \A p \in Clients : \A i \in 1..Len(stack[p]) :
          /\ stack[p][i].step \in Steps
          /\ stack[p][i].env \in 1..Len(heap[p])
          /\ stack[p][i].task \in 1..tasks
    /\ tasks \in 0..MaxTasks
    /\ kills \in 0..MaxKills

EnvInit ==
    /\ file = [d \in Dirs |-> NoFile]
    /\ link = NoDir
    /\ heap = [p \in Clients |-> <<>>]
    /\ stack = [p \in Clients |-> <<>>]
    /\ tasks = 0
    /\ kills = 0
    /\ saved = [d \in Dirs |-> {}]
    /\ parted = {}
    /\ linked = FALSE

-----------------------------------------------------------------------------
(* get_or_create_env *)

\* A process runs a task when it is in none, or from the body of another.
MayCall(p) == stack[p] = <<>> \/ In(p, "body")

\* The objects that a task of some process still refers to for d.
Open(p, d) == {i \in 1..Len(heap[p]) :
                  heap[p][i].dir = d /\ \E j \in 1..Len(stack[p]) : stack[p][j].env = i}

Parted(p, d) == IF \E q \in Clients : Open(q, d) # {} THEN parted \cup {d} ELSE parted

\* The object of a new task, or of one that loads its environment.
Enter(p, d, store, step) ==
    /\ heap' = [heap EXCEPT ![p] = Append(@, [dir |-> d, store |-> store])]
    /\ Push(p, [task |-> tasks + 1, env |-> Len(heap[p]) + 1, step |-> step])
    /\ tasks' = tasks + 1
    /\ parted' = Parted(p, d)

\* enostask(new=True): the directory is made, then the empty environment is
\* dumped over whatever was there (OpenFile, FillNew).
CallNew(p, d) ==
    /\ MayCall(p) /\ tasks < MaxTasks
    /\ Enter(p, d, {}, "create")
    /\ UNCHANGED <<file, link, kills, saved, linked>>

FillNew(p) ==
    /\ In(p, "fill")
    /\ file' = [file EXCEPT ![Env(p).dir] = Dumped({})]
    /\ saved' = [saved EXCEPT ![Env(p).dir] = {}]
    /\ \E symlink \in BOOLEAN : GoTo(p, IF symlink THEN "exists" ELSE "reload")
    /\ UNCHANGED <<link, heap, tasks, kills, parted, linked>>

\* _symlink_to: exists, unlink and symlink_to are three calls of the system;
\* an OSError of the last two is swallowed.
LinkExists(p) ==
    /\ In(p, "exists")
    /\ GoTo(p, IF link # NoDir THEN "unlink" ELSE "symlink")
    /\ UNCHANGED <<file, link, heap, tasks, kills, saved, parted, linked>>

\* Mutant of Unlink: the link is made again only if there was none.
UnlinkOnly(p) ==
    /\ In(p, "unlink")
    /\ link' = NoDir
    /\ GoTo(p, "reload")
    /\ UNCHANGED <<file, heap, tasks, kills, saved, parted, linked>>

Unlink(p) ==
    /\ In(p, "unlink")
    /\ link' = NoDir
    /\ GoTo(p, IF link # NoDir THEN "symlink" ELSE "reload")
    /\ UNCHANGED <<file, heap, tasks, kills, saved, parted, linked>>

SymlinkTo(p) ==
    /\ In(p, "symlink")
    /\ link' = IF link = NoDir THEN Env(p).dir ELSE link
    /\ linked' = TRUE
    /\ GoTo(p, "reload")
    /\ UNCHANGED <<file, heap, tasks, kills, saved, parted>>

\* A task given a path, or nothing (the link is followed): the file is loaded
\* in an object of its own. Nothing to load, or an unpickling error, is an
\* exception of the task before its body.
CallLoad(p, d) ==
    /\ MayCall(p) /\ tasks < MaxTasks
    /\ file[d].ok
    /\ Enter(p, d, file[d].store, "reload")
    /\ UNCHANGED <<file, link, kills, saved, linked>>

CallLink(p) == link # NoDir /\ CallLoad(p, link)

\* A task given the Environment of its caller shares the object.
CallShared(p) ==
    /\ In(p, "body") /\ tasks < MaxTasks
    /\ Push(p, [task |-> tasks + 1, env |-> Top(p).env, step |-> "reload"])
    /\ tasks' = tasks + 1
    /\ UNCHANGED <<file, link, heap, kills, saved, parted, linked>>

-----------------------------------------------------------------------------
(* The rest of a task *)

\* reload_config: the keys of the file, which the user edits at any time, are
\* merged into those of the store.
Reloaded(store, yaml) == IF CONFIG \in store THEN store \cup yaml ELSE store

ReloadConfig(p) ==
    /\ In(p, "reload")
    /\ \E yaml \in SUBSET ConfKeys :
          heap' = [heap EXCEPT ![p][Top(p).env].store = Reloaded(@, yaml)]
    /\ GoTo(p, "body")
    /\ UNCHANGED <<file, link, tasks, kills, saved, parted, linked>>

\* The body saves a key of its own, and may name a configuration file.
Body(p) ==
    /\ In(p, "body")
    /\ \E names \in SUBSET {CONFIG} :
          heap' = [heap EXCEPT ![p][Top(p).env].store = @ \cup {Top(p).task} \cup names]
    /\ GoTo(p, "open")
    /\ UNCHANGED <<file, link, tasks, kills, saved, parted, linked>>

\* Mutant of BodyRaises: the exception goes to the caller without the dump.
RaisesUnsaved(p) ==
    /\ In(p, "body")
    /\ saved' = [saved EXCEPT ![Env(p).dir] = @ \cup {Top(p).task}]
    /\ stack' = [stack EXCEPT ![p] = SubSeq(@, 1, Len(@) - 1)]
    /\ UNCHANGED <<file, link, heap, tasks, kills, parted, linked>>

\* The body raises after it saved its key: finally dumps as well.
BodyRaises(p) ==
    /\ In(p, "body")
    /\ heap' = [heap EXCEPT ![p][Top(p).env].store = @ \cup {Top(p).task}]
    /\ GoTo(p, "open")
    /\ UNCHANGED <<file, link, tasks, kills, saved, parted, linked>>

\* dump, of a new environment or of a task that ends: the file is opened for
\* writing, which truncates it, ...
OpenFile(p) ==
    /\ In(p, "create") \/ In(p, "open")
    /\ file' = [file EXCEPT ![Env(p).dir] = Truncated]
    /\ GoTo(p, IF In(p, "open") THEN "write" ELSE "fill")
    /\ UNCHANGED <<link, heap, tasks, kills, saved, parted, linked>>

\* ... then written, and the task is over.
WriteFile(p) ==
    /\ In(p, "write")
    /\ file' = [file EXCEPT ![Env(p).dir] = Dumped(Env(p).store)]
    /\ saved' = [saved EXCEPT ![Env(p).dir] = @ \cup {Top(p).task}]
    /\ stack' = [stack EXCEPT ![p] = SubSeq(@, 1, Len(@) - 1)]
    /\ UNCHANGED <<link, heap, tasks, kills, parted, linked>>

-----------------------------------------------------------------------------
\* A process is killed: its objects and its tasks are gone.
Kill(p) ==
    /\ kills < MaxKills /\ stack[p] # <<>>
    /\ stack' = [stack EXCEPT ![p] = <<>>]
    /\ heap' = [heap EXCEPT ![p] = <<>>]
    /\ kills' = kills + 1
    /\ UNCHANGED <<file, link, tasks, saved, parted, linked>>

EnvNext ==
    \E p \in Clients :
          \/ \E d \in Dirs : CallNew(p, d) \/ CallLoad(p, d)
          \/ CallLink(p) \/ CallShared(p)
          \/ FillNew(p) \/ LinkExists(p) \/ Unlink(p) \/ SymlinkTo(p)
          \/ ReloadConfig(p) \/ Body(p) \/ BodyRaises(p)
          \/ OpenFile(p) \/ WriteFile(p) \/ Kill(p)

EnvSpec == EnvInit /\ [][EnvNext]_envVars

-----------------------------------------------------------------------------
(* Properties *)

\* What the tasks of an experiment stored stays: as long as no two objects of
\* a directory were in use at a time (a nested task given no environment, or
\* two processes), a file that can be loaded holds the key of every task that
\* ended in its directory, the failed ones included. A file that cannot be
\* loaded is one being written, or the trace of a process killed at that point
\* (enostask: try, finally; get_or_create_env; dump).
TasksAccumulate ==
    \A d \in Dirs :
       /\ d \notin parted /\ file[d].ok => saved[d] \subseteq file[d].store
       /\ file[d] = Truncated /\ kills = 0 =>
             \E p \in Clients : (In(p, "fill") \/ In(p, "write")) /\ Env(p).dir = d

\* Whatever the order in which processes unlink and link, and although errors
\* are swallowed, once a link was made and nobody is changing it, it exists
\* and the directory it points to has an environment (_symlink_to; the dump of
\* _create_new_env comes first).
Linking(p) == In(p, "unlink") \/ In(p, "symlink")

LinkKept ==
    /\ link # NoDir => file[link].exists
    /\ linked /\ kills = 0 /\ (\A p \in Clients : ~Linking(p)) => link # NoDir

=============================================================================
