SPECIFICATION Spec
CONSTANTS
  eth0 = eth0
  eth1 = eth1
  Nodes = {"a", "b"}
  Nets = {"n1", "n2"}
  Devices = {eth0, eth1}
  FactsOf <- MCFacts
  Shapes <- MCShapes
  Resynced = {{"n1"}}
  Latency = 4
  MaxRequests = 2
  MaxDeploys = 2
  MaxSyncs = 1
  Workers <- MCWorkers
  Groups <- MCGroups
  MaxStarts = 3
  Plans <- MCPlans
  DayLength = 3
  MaxTime = 5
  MaxCalls = 3
  Machines = {"ma", "mb"}
  Instances = {"i1", "i2"}
  Scenarios <- MCScenarios
  Interfaces = {"eth1", "eth2", "eth10"}
  Within <- MCWithin
  MaxUses = 2
  Boards <- MCBoards
  SiteOf <- MCSiteOf
  ArchiOf <- MCArchiOf
  SshBoards = {"a1"}
  IotConfs <- MCIotConfs
  Worlds <- MCWorlds
  LastDate = 3
  IotWalltime = 2
  Users = {"u1", "u2"}
  MaxExperiments = 2
  MaxIotCalls = 3
  PMs = {1, 2, 3}
  VmConfs <- MCVmConfs
  SubnetsOf <- MCSubnetsOf
  MaxVmCalls = 3
  ChConfs <- MCChConfs
  MaxLeases = 2
  MaxUnits = 4
  MaxChCalls = 3
  FabConfs <- MCFabConfs
  PortsOf <- MCPortsOf
  Permissions = {{"multisite", "ext", "gpu", "nvme", "volume"}, {"multisite", "nvme"}}
  MaxSlices = 2
  MaxFabCalls = 3
  G5kConfs <- MCG5kConfs
  NodesByName <- MCNodesByName
  NetsByName <- MCNetsByName
  ClusterOf <- MCClusterOf
  SiteOfCluster <- MCSiteOfCluster
  CardsOf <- MCCardsOf
  NatureOf <- MCNatureOf
  SubnetsPer16 = 2
  HandMade <- MCHandMade
  Statuses <- MCStatuses
  MaxG5kCalls = 3
  DistemHosts = {1, 2, 3}
  DistemConfs <- MCDistemConfs
  MaxDistemCalls = 3
  Blocks = {1, 2}
  StreamUses <- MCStreamUses
  MaxPrints = 2
  KwNodes = {"p1", "p2", "g1"}
  KwClusterOf <- MCClusterOf
  KwSiteOf <- MCSiteOfCluster
  KwServices = {{"p1", "p2", "g1"}}
  KwMetrics <- MCKwMetrics
  KwSilences = {{}, {"p2"}}
  MaxClock = 3
  MaxFetches = 2
  VgConfs <- MCVgConfs
  MaxVgCalls = 3
  Engines = {"ea", "eb"}
  EngineAddress <- MCEngineAddress
  Containers = {"web", "db"}
  MaxChanges = 1
  AddrConfs <- MCAddrConfs
  BlockSize = 1
  MaxTaken = 19
INVARIANTS
  PartsTypeOK
  EmulatedAsAsked
  
  
  
  
  G5kReadyAsAsked
  
CHECK_DEADLOCK FALSE
