------------------------------ MODULE Kwollect ------------------------------
(***************************************************************************)
(* The metrics of Grid'5000 nodes (enoslib/service/kwollect): a program    *)
(* delimits a window, with a block or with start and stop, then fetches or *)
(* saves what the testbed (external) measured in it, site by site. The     *)
(* object is used for several windows.                                     *)
(***************************************************************************)
EXTENDS Naturals, FiniteSets, Sequences, SequencesExt

CONSTANTS
    KwNodes, KwClusterOf, KwSiteOf,  \* nodes, the cluster of each, the site of each cluster
    KwServices,                      \* the nodes a service is built with
    KwMetrics,                       \* what the reference API says of the metrics of a cluster
    KwSilences,                      \* nodes that report nothing
    MaxClock, MaxFetches             \* bounds: the clock, fetches and backups

ASSUME KwollectAssumption ==
    /\ KwServices \subseteq SUBSET KwNodes /\ MaxClock \in Nat \ {0} /\ MaxFetches \in Nat
    /\ \A n \in KwNodes : KwClusterOf[n] \in DOMAIN KwSiteOf
    /\ DOMAIN KwMetrics = DOMAIN KwSiteOf

VARIABLES
    kwNodes, silent,
    kw,        \* the object: deployed or not, in a block or not, its window
    clock,     \* the clock of the program
    entered,   \* when the last block was entered and left, 0 before
    fetched,   \* the last data fetched: of which nodes and block, in which directory
    backups,   \* directories: a given one, and one for each backup to a default directory
    fetches

kwVars == <<kwNodes, silent, kw, clock, entered, fetched, backups, fetches>>

NoTime == 0
NothingFetched ==
    [data |-> {}, of |-> {}, window |-> [from |-> NoTime, to |-> NoTime], dir |-> {}, asked |-> {}, offered |-> {}]
\* The block that was left, unless a window was set by hand since, or a block is open.
BlockLeft == IF kw.inside THEN NothingFetched.window ELSE entered

KwTypeOK ==
    /\ kwNodes \in KwServices /\ silent \in KwSilences
    /\ kw.deployed \in BOOLEAN /\ kw.inside \in BOOLEAN
    /\ {kw.start, kw.stop, entered.from, entered.to, clock} \subseteq 0..MaxClock
    /\ fetched.of \subseteq kwNodes /\ fetched.data \subseteq KwNodes \X (1..MaxClock)
    /\ fetches \in 0..MaxFetches /\ DOMAIN backups = 0..fetches

KwInit ==
    /\ kwNodes \in KwServices /\ silent \in KwSilences
    /\ kw = [deployed |-> FALSE, inside |-> FALSE, start |-> NoTime, stop |-> NoTime]
    /\ clock = 1
    /\ entered = [from |-> NoTime, to |-> NoTime]
    /\ fetched = NothingFetched
    /\ backups = [d \in {0} |-> {}]
    /\ fetches = 0

-----------------------------------------------------------------------------
KwTick ==
    /\ clock < MaxClock /\ clock' = clock + 1
    /\ UNCHANGED <<kwNodes, silent, kw, entered, fetched, backups, fetches>>

\* Mutant of StartsNow: a window that has a start keeps it.
StartsOnce(k) == [k EXCEPT !.start = IF @ = NoTime THEN clock ELSE @]

\* start: raises before deploy.
StartsNow(k) == [k EXCEPT !.start = clock]

\* __enter__
EnterWindow ==
    /\ ~kw.inside
    /\ kw' = [StartsNow(kw) EXCEPT !.deployed = TRUE, !.inside = TRUE]
    /\ entered' = [from |-> clock, to |-> NoTime]
    /\ UNCHANGED <<kwNodes, silent, clock, fetched, backups, fetches>>

\* __exit__, which lets the exceptions of the block through.
LeaveWindow ==
    /\ kw.inside
    /\ kw' = [kw EXCEPT !.inside = FALSE, !.stop = clock]
    /\ entered' = [entered EXCEPT !.to = clock]
    /\ UNCHANGED <<kwNodes, silent, clock, fetched, backups, fetches>>

\* deploy; start and stop by hand, now or at an earlier time.
SetWindow ==
    /\ ~kw.inside
    /\ \/ ~kw.deployed /\ kw' = [kw EXCEPT !.deployed = TRUE]
       \/ \E t \in 1..clock : kw.deployed /\ kw' = [kw EXCEPT !.start = t]
       \/ \E t \in 1..clock : kw.deployed /\ kw' = [kw EXCEPT !.stop = t]
    /\ entered' = [from |-> NoTime, to |-> NoTime]
    /\ UNCHANGED <<kwNodes, silent, clock, fetched, backups, fetches>>

-----------------------------------------------------------------------------
\* Mutant of SitePools: a node for each site.
OneOfEach(nodes) ==
    {{CHOOSE m \in nodes : KwSiteOf[KwClusterOf[m]] = s} : s \in {KwSiteOf[KwClusterOf[n]] : n \in nodes}}

\* mk_pools: the nodes of each site.
SitePools(nodes) ==
    {{m \in nodes : KwSiteOf[KwClusterOf[m]] = s} : s \in {KwSiteOf[KwClusterOf[n]] : n \in nodes}}

\* metrics.list of each site: what its nodes measured in the window, until now.
MetricsIn(nodes) == UNION {(pool \ silent) \X {t \in kw.start..kw.stop : t <= clock} : pool \in SitePools(nodes)}

WindowSet == kw.start # NoTime /\ kw.stop # NoTime

\* get_metrics: raises without a window, or for nodes the service was not built with.
GetMetrics ==
    /\ fetches < MaxFetches /\ WindowSet
    /\ \E nodes \in SUBSET kwNodes :
          fetched' = [NothingFetched EXCEPT !.data = MetricsIn(nodes), !.of = nodes, !.window = BlockLeft]
    /\ fetches' = fetches + 1
    /\ backups' = [d \in 0..fetches' |-> IF d \in DOMAIN backups THEN backups[d] ELSE {}]
    /\ UNCHANGED <<kwNodes, silent, kw, clock, entered>>

\* Mutant of Written: the files are opened to append.
Appended(old, data) == old \cup data

\* backup: one file for each node that has data, written over.
Written(old, data) == {d \in old : \A e \in data : e[1] # d[1]} \cup data

BackupMetrics ==
    /\ fetches < MaxFetches /\ WindowSet
    /\ fetches' = fetches + 1
    /\ \E given \in BOOLEAN :
          LET dir == IF given THEN 0 ELSE fetches'
              old == [d \in 0..fetches' |-> IF d \in DOMAIN backups THEN backups[d] ELSE {}]
          IN  /\ backups' = [old EXCEPT ![dir] = Written(@, MetricsIn(kwNodes))]
              /\ fetched' = [NothingFetched EXCEPT !.data = MetricsIn(kwNodes), !.of = kwNodes,
                                                   !.window = BlockLeft, !.dir = {dir}]
    /\ UNCHANGED <<kwNodes, silent, kw, clock, entered>>

-----------------------------------------------------------------------------
\* The descriptions that a metric of the reference API stands for: itself, or a copy
\* for each name of its source for Prometheus, none when it has no detail.
Descriptions(metric) ==
    IF metric.protocol # "prometheus" THEN {<<metric, metric.name>>}
    ELSE {<<metric, <<"prom", id>>>> : id \in metric.ids}

\* Mutant of For: the restriction is taken off for the whole cluster.
ForAll(metric, subnodes) == subnodes

\* only_for, which Prometheus metrics ignore.
For(metric, subnodes) ==
    IF metric.protocol = "prometheus" \/ metric.onlyFor = {} THEN subnodes ELSE metric.onlyFor \cap subnodes

\* available_kwollect_metrics: grouped by cluster, then expanded for each node.
AskMetrics ==
    /\ fetches < MaxFetches
    /\ \E nodes \in SUBSET kwNodes :
          fetched' = [NothingFetched EXCEPT
              !.asked = nodes,
              !.offered = UNION {UNION {For(m, {n \in nodes : KwClusterOf[n] = c}) \X Descriptions(m) : m \in KwMetrics[c]} :
                                 c \in {KwClusterOf[n] : n \in nodes}}]
    /\ fetches' = fetches + 1
    /\ backups' = [d \in 0..fetches' |-> IF d \in DOMAIN backups THEN backups[d] ELSE {}]
    /\ UNCHANGED <<kwNodes, silent, kw, clock, entered>>

KwNext ==
    KwTick \/ EnterWindow \/ LeaveWindow \/ SetWindow \/ GetMetrics \/ BackupMetrics \/ AskMetrics

KwSpec == KwInit /\ [][KwNext]_kwVars

-----------------------------------------------------------------------------
Windows(data) == [n \in {d[1] : d \in data} |-> {d[2] : d \in {e \in data : e[1] = n}}]

\* When a block was left and no window was set by hand since, what is fetched is all
\* that the nodes measured in that block and nothing else, however many blocks there
\* were before; a directory where several windows are saved does not mix them; a node
\* is offered the metrics of its cluster that are not kept for other nodes.
KwollectExact ==
    /\ fetched.of # {} /\ fetched.window.from # NoTime =>
          fetched.data = (fetched.of \ silent) \X (fetched.window.from..fetched.window.to)
    /\ \A d \in fetched.dir : \A n \in DOMAIN Windows(fetched.data) :
          Windows(backups[d])[n] = Windows(fetched.data)[n]
    /\ \A n \in fetched.asked : \A c \in {KwClusterOf[n]} : \A m \in KwMetrics[c] :
          m.protocol # "prometheus" =>
              (<<n, <<m, m.name>>>> \in fetched.offered <=> (m.onlyFor = {} \/ n \in m.onlyFor))
=============================================================================
