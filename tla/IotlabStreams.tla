--------------------------- MODULE IotlabStreams ---------------------------
(***************************************************************************)
(* What the sensors of FIT IoT-LAB print and hear, collected in blocks     *)
(* (IotlabSerial and IotlabSniffer, enoslib/infra/enos_iotlab/objects.py): *)
(* a tool on the frontend writes a file until pkill finds its command      *)
(* line, or a socket through a tunnel brings what is printed to the        *)
(* program. Tools outlive the program; the frontend (external) is one.     *)
(***************************************************************************)
EXTENDS Naturals, FiniteSets, Sequences, SequencesExt

CONSTANTS
    Blocks,      \* the blocks of the program, each entered once
    StreamUses,  \* what each block is for: the name of a sensor, a tool, a timeout or not
    MaxPrints    \* bound: lines printed by a sensor

Tools == {"serial", "sniffer", "socket"}

ASSUME StreamsAssumption ==
    /\ MaxPrints \in Nat /\ IsFiniteSet(Blocks)
    /\ \A u \in StreamUses : \A b \in Blocks :
          u[b].sensor \in Seq(Nat) /\ u[b].tool \in Tools /\ u[b].timeout \in BOOLEAN

VARIABLES
    purpose,     \* what the blocks are for
    expState,    \* the experiment: "running", "over", or "forgotten" by the client
    blocks,      \* blocks[b]: where it is, and what its sensor had printed on the way
    tools,       \* the tools that run on the frontend
    links,       \* the tunnels and the sockets of the program
    printed,     \* printed[s]: lines printed by s
    files,       \* files[b]: lines in the file that b names
    got,         \* got[b]: lines read by b
    excused      \* blocks whose tool stopped, or was not stopped, for another reason

strVars == <<purpose, expState, blocks, tools, links, printed, files, got, excused>>

ToolOf(b) == [sensor |-> purpose[b].sensor, tool |-> purpose[b].tool]
Twins(b) == {c \in Blocks : ToolOf(c) = ToolOf(b)}

StreamsTypeOK ==
    /\ purpose \in StreamUses /\ expState \in {"running", "over", "forgotten"} /\ excused \subseteq Blocks
    /\ \A b \in Blocks :
          /\ blocks[b].at \in {"before", "in", "left", "raised"}
          /\ files[b] \subseteq 1..MaxPrints /\ got[b] \subseteq 1..MaxPrints
          /\ blocks[b].from <= blocks[b].to /\ blocks[b].to <= printed[purpose[b].sensor]
    /\ tools \subseteq Blocks /\ links \subseteq Blocks \X {"tunnel", "socket"}

SensorsOf(u) == {u[b].sensor : b \in Blocks}

StreamsInit ==
    /\ purpose \in StreamUses
    /\ expState = "running"
    /\ blocks = [b \in Blocks |-> [at |-> "before", from |-> 0, to |-> 0]]
    /\ tools = {} /\ links = {} /\ excused = {}
    /\ printed = [s \in SensorsOf(purpose) |-> 0]
    /\ files = [b \in Blocks |-> {}]
    /\ got = [b \in Blocks |-> {}]

-----------------------------------------------------------------------------
\* A line is appended to the files of the tools that listen to the sensor.
SensorPrints(s) ==
    /\ expState = "running" /\ printed[s] < MaxPrints
    /\ printed' = [printed EXCEPT ![s] = @ + 1]
    /\ LET heard == {b \in Blocks : purpose[b].sensor = s /\ Twins(b) \cap tools # {}}
       IN  files' = [b \in Blocks |-> IF b \in heard THEN files[b] \cup {printed'[s]} ELSE files[b]]
    /\ UNCHANGED <<purpose, expState, blocks, tools, links, got, excused>>

Entered(b, at) ==
    blocks' = [blocks EXCEPT ![b] = [at |-> at, from |-> printed[purpose[b].sensor], to |-> printed[purpose[b].sensor]]]

\* enable_logging_serial, start_sniffer: nothing is started without a walltime; the
\* shell truncates the file; Ansible does not wait for the tool, and raises only
\* when the frontend is unreachable.
StartTool(b) ==
    /\ blocks[b].at = "before" /\ purpose[b].tool # "socket"
    /\ \/ /\ ~(purpose[b].tool = "serial" /\ expState = "forgotten")
          /\ tools' = IF expState = "running" THEN tools \cup {b} ELSE tools
          /\ files' = [c \in Blocks |-> IF c \in Twins(b) THEN {} ELSE files[c]]
          /\ Entered(b, "in")
       \/ /\ purpose[b].tool = "serial" /\ expState = "forgotten"
          /\ Entered(b, "in") /\ UNCHANGED <<tools, files>>
       \/ Entered(b, "raised") /\ UNCHANGED <<tools, files>>
    /\ UNCHANGED <<purpose, expState, links, printed, got, excused>>

\* open_serial_conn: a tunnel, then a socket to its port. The tunnel or the connection
\* may fail; then __exit__ is not called.
OpenSocket(b) ==
    /\ blocks[b].at = "before" /\ purpose[b].tool = "socket"
    /\ \/ links' = links \cup ({b} \X {"tunnel", "socket"}) /\ Entered(b, "in") /\ expState = "running"
       \/ links' \in {links, links \cup {<<b, "tunnel">>}} /\ Entered(b, "raised")
    /\ UNCHANGED <<purpose, expState, tools, printed, files, got, excused>>

\* read: what arrived, nothing when the socket waited for too long.
ReadSocket(b) ==
    /\ <<b, "socket">> \in links /\ blocks[b].at = "in"
    /\ LET waiting == (blocks[b].from + 1)..printed[purpose[b].sensor] \ got[b]
       IN  \E n \in waiting : got' = [got EXCEPT ![b] = @ \cup {i \in waiting : i <= n}]
    /\ UNCHANGED <<purpose, expState, blocks, tools, links, printed, files, excused>>

\* Mutant of StopPattern: the pattern stops after the name of the sensor.
NamePattern(b, c) == purpose[b].tool = purpose[c].tool /\ IsPrefix(purpose[b].sensor, purpose[c].sensor)

\* pkill -f: the pattern of b, which ends with its file, is in the command line of c.
StopPattern(b, c) == purpose[b].tool = purpose[c].tool /\ purpose[b].sensor = purpose[c].sensor

LeftAt(b) == blocks' = [blocks EXCEPT ![b].at = "left", ![b].to = printed[purpose[b].sensor]]

\* disable_logging_serial, stop_sniffer; an unreachable frontend is only logged.
StopTool(b) ==
    /\ blocks[b].at = "in" /\ purpose[b].tool # "socket"
    /\ \/ tools' = {c \in tools : ~StopPattern(b, c)} /\ UNCHANGED excused
       \/ excused' = excused \cup {b} /\ UNCHANGED tools
    /\ LeftAt(b)
    /\ UNCHANGED <<purpose, expState, links, printed, files, got>>

\* Mutant of ClosedLinks: the thread of the tunnel is forgotten.
ClosedSocket(b) == {<<b, "socket">>}

\* close_serial_conn
ClosedLinks(b) == {<<b, "socket">>, <<b, "tunnel">>}

CloseSocket(b) ==
    /\ blocks[b].at = "in" /\ purpose[b].tool = "socket"
    /\ links' = links \ ClosedLinks(b)
    /\ LeftAt(b)
    /\ UNCHANGED <<purpose, expState, tools, printed, files, got, excused>>

-----------------------------------------------------------------------------
\* asynch: a sniffer is killed after its timeout. A logger is not: screen detached it
\* from the command that Ansible watches.
SnifferTimesOut(b) ==
    /\ b \in tools /\ purpose[b].tool = "sniffer" /\ purpose[b].timeout
    /\ tools' = tools \ {b} /\ excused' = excused \cup {b}
    /\ UNCHANGED <<purpose, expState, blocks, links, printed, files, got>>

\* The experiment ends, its tools with it; the provider that is destroyed twice, or
\* reloaded after the end, forgets the job and its walltime.
StreamJobEnds ==
    /\ expState = "running"
    /\ expState' \in {"over", "forgotten"}
    /\ excused' = excused \cup tools /\ tools' = {}
    /\ UNCHANGED <<purpose, blocks, links, printed, files, got>>

\* The program is killed: its tools go on.
StreamsKilled ==
    /\ \E b \in Blocks : blocks[b].at = "in"
    /\ blocks' = [b \in Blocks |->
                     IF blocks[b].at = "in" THEN [blocks[b] EXCEPT !.at = "raised"] ELSE blocks[b]]
    /\ links' = {}
    /\ UNCHANGED <<purpose, expState, tools, printed, files, got, excused>>

StreamsNext ==
    \/ \E s \in DOMAIN printed : SensorPrints(s)
    \/ \E b \in Blocks :
          StartTool(b) \/ OpenSocket(b) \/ ReadSocket(b) \/ StopTool(b) \/ CloseSocket(b) \/ SnifferTimesOut(b)
    \/ StreamJobEnds \/ StreamsKilled

StreamsSpec == StreamsInit /\ [][StreamsNext]_strVars

-----------------------------------------------------------------------------
\* A block that was left has no tool, tunnel or socket any more, unless the frontend
\* was unreachable ("Remember to call disable_logging_serial, in order to stop
\* serial_aggregator", enable_logging_serial).
StreamsStop ==
    \A b \in Blocks :
        blocks[b].at = "left" =>
            /\ b \in tools => b \in excused
            /\ \A end \in {"tunnel", "socket"} : <<b, end>> \notin links

\* The file of a block has all that its sensor printed between its start and its end:
\* leaving the block of another sensor, or of another tool, stops nothing and
\* truncates nothing. A socket reads in order what was printed since it was opened.
StreamsKept ==
    \A b \in Blocks :
        LET last == IF blocks[b].at = "in" THEN printed[purpose[b].sensor] ELSE blocks[b].to
        IN  /\ blocks[b].at \in {"in", "left"} /\ purpose[b].tool # "socket" /\ expState = "running"
                /\ Twins(b) = {b} /\ b \notin excused =>
                    (blocks[b].from + 1)..last \subseteq files[b]
            /\ \E n \in blocks[b].from..MaxPrints : got[b] = (blocks[b].from + 1)..n
=============================================================================
