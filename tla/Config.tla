------------------------------- MODULE Config -------------------------------
(***************************************************************************)
(* The global configuration of the library (enoslib/config.py) and the     *)
(* file of results it names (_dump_obj of enoslib/api.py). Keys other than *)
(* dump_results are of two kinds: auto_jump is None until it is set,       *)
(* ansible_stdout has a default. A file name is the suffixes (.1, .2, ...) *)
(* that were added to the name given by the user.                          *)
(***************************************************************************)
EXTENDS Naturals, FiniteSets, Sequences

CONSTANTS
    MaxNesting,   \* bound: nested config_context blocks
    MaxChoices    \* bound: times a file of results is chosen

ASSUME ConfigAssumption == MaxNesting \in Nat /\ MaxChoices \in Nat

None == "None"
NoDump == <<0>>
Stdouts == {"spinner", "noop"}
Jumps == {"yes", "no"}

VARIABLES
    config,    \* the dictionary _config
    blocks,    \* old_config of each config_context block, the innermost last
    dumps,   \* dumps[n]: which choices of a file wrote in the file n
    choices,   \* number of times dump_results was set
    outer      \* history: what the keys were set to outside the blocks

configVars == <<config, blocks, dumps, choices, outer>>

Settings == [auto_jump : Jumps \cup {None}, stdout : Stdouts \cup {None}]
Name(n) == n \in Seq(Nat \ {0})

ConfigTypeOK ==
    /\ config.auto_jump \in Jumps \cup {None}
    /\ config.stdout \in Stdouts
    /\ config.dump # NoDump => Name(config.dump)
    /\ \A n \in DOMAIN dumps : Name(n) /\ dumps[n] \in SUBSET (1..choices)
    /\ choices \in 0..MaxChoices
    /\ Len(blocks) <= MaxNesting

ConfigInit ==
    /\ config = [auto_jump |-> None, stdout |-> "spinner", dump |-> NoDump]
    /\ blocks = <<>>
    /\ dumps = <<>>
    /\ choices = 0
    /\ outer = [auto_jump |-> None, stdout |-> "spinner"]

\* _set
Or(value, old) == IF value # None THEN value ELSE old

\* Mutant of Free: only the name itself and its first suffix are tried.
FirstSuffix(n) == IF n \notin DOMAIN dumps THEN n ELSE Append(n, 1)

\* _set_dump_results: the first of n, n.1, n.2, ... that does not exist.
Free(n) ==
    IF n \notin DOMAIN dumps THEN n
    ELSE LET taken == {i \in 1..Cardinality(DOMAIN dumps) : Append(n, i) \in DOMAIN dumps}
         IN Append(n, CHOOSE i \in 1..(Cardinality(taken) + 1) :
                          i \notin taken /\ 1..(i - 1) \subseteq taken)

\* set_config
Updated(new) ==
    [auto_jump |-> Or(new.auto_jump, config.auto_jump),
     stdout    |-> Or(new.stdout, config.stdout),
     dump      |-> IF new.dump = NoDump THEN config.dump ELSE Free(new.dump)]

SetConfig(new) ==
    /\ config' = Updated(new)
    /\ choices' = IF new.dump = NoDump THEN choices ELSE choices + 1

\* What a call may be given: the user names one file.
Given == {[auto_jump |-> s.auto_jump, stdout |-> s.stdout, dump |-> d] :
             s \in Settings, d \in {NoDump, <<>>}}

Set(new) ==
    /\ choices < MaxChoices
    /\ SetConfig(new)
    /\ outer' = IF blocks = <<>>
                THEN [auto_jump |-> Or(new.auto_jump, outer.auto_jump),
                      stdout |-> Or(new.stdout, outer.stdout)]
                ELSE outer
    /\ UNCHANGED <<blocks, dumps>>

EnterContext(new) ==
    /\ Len(blocks) < MaxNesting /\ choices < MaxChoices
    /\ blocks' = Append(blocks, config)
    /\ SetConfig(new)
    /\ UNCHANGED <<dumps, outer>>

\* Leaving a block, in whatever way: set_config(**old_config).
ExitContext ==
    /\ blocks # <<>> /\ choices < MaxChoices
    /\ SetConfig(blocks[Len(blocks)])
    /\ blocks' = SubSeq(blocks, 1, Len(blocks) - 1)
    /\ UNCHANGED <<dumps, outer>>

\* _dump_obj: a run that succeeds appends to the file; with no file, or when
\* it cannot be written, nothing is stored.
DumpResults ==
    /\ config.dump # NoDump
    /\ dumps' = [n \in DOMAIN dumps \cup {config.dump} |->
                      (IF n \in DOMAIN dumps THEN dumps[n] ELSE {})
                      \cup (IF n = config.dump THEN {choices} ELSE {})]
    /\ UNCHANGED <<config, blocks, choices, outer>>

ConfigNext ==
    \/ \E new \in Given : Set(new) \/ EnterContext(new)
    \/ ExitContext
    \/ DumpResults

ConfigSpec == ConfigInit /\ [][ConfigNext]_configVars

-----------------------------------------------------------------------------
(* Properties *)

\* Outside every block a key has the value it was given outside the blocks,
\* whatever was set inside them ("The original config is restored when exiting
\* the context manager", config_context), unless it was None then: restoring
\* ignores None. And no file mixes the results of two choices of a file, also
\* when a block gives its file back: "If the dump_results file exists, don't
\* override it" (_set_dump_results).
ConfigKept ==
    /\ blocks = <<>> =>
          \A key \in {"auto_jump", "stdout"} :
             outer[key] # None => config[key] = outer[key]
    /\ \A n \in DOMAIN dumps : Cardinality(dumps[n]) = 1

=============================================================================
