SPECIFICATION HostSpec
CONSTANTS
  Worlds = {"routing"}
  Unit = 10
  MaxWindow = 3
  MaxModels = 4
  Configs <- MCConfigs
  Inputs <- MCInputs
  Stresses <- MCStresses
  Items = {i1, i2}
  NoItem = NoItem
  Capacity = 2
  Width = 8
  Cores = {1, 7}
  MaxCores = 2
  StreamBound = 1
  DecisionStatuses = {"valid", "no_consensus"}
  MaxDecisions = 1
  Users = {u1, u2}
  Plugins = {pl}
  Factories = {f1, f2}
  Reentrant = {}
  Unlocked = Unlocked
  Unset = Unset
  Assets = {"x", "y", "z"}
  RouteUnit = 10
  Books <- MCBooks
  Portfolios <- MCPortfolios
  FrameAssets = {"BTC", "CASH"}
  Inputs10 <- MCInputs10
  Inputs11 <- MCInputs11
  Inputs13 <- MCInputs13
  DriftLimit = 8
  Crash = 50
  Lambda = 70
  Baseline <- MCBaseline
  RiskBearing = {"BTC"}
  MaxFrames = 2
  Readings <- MCReadings
  MaxIndicators = 2
  MaxReadings = 3
  Callers = {c1}
  Markets <- MCMarkets
  Quotes <- MCQuotes
  WithoutState = {{}, {"gold"}}
  MaxCycles = 2
  MaxFlips = 1
  Loggers <- MCLoggers
  Decisions = {"d1", "d2"}
  NoLogger = NoLogger
  Deployments <- MCDeployments
  Limit = 12
  Margin = 2
  HeaderBytes = 1
  RecordBytes = 4
  TickEquities = {94, 97, 100}
  TickLimit = 5
  TickHysteresis = 2
  MaxTrades = 4
  Pipelines = {c1, c2}
  NoEvidence = NoEvidence
  Frames = {1, 2, 3}
  Stamps = {0, 1, 2}
  Claims <- MCClaims
  GapLimit = 2
  CycleIds = {1}
  MaxServed = 2
CHECK_DEADLOCK FALSE
INVARIANT AssetShiftBounded
