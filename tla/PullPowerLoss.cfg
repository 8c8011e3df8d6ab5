SPECIFICATION CliSpec
CONSTANTS
  Commands = {"pull"}
  NoFile = NoFile
  Torn = Torn
  Zero = Zero
  Sizes <- MCSizes
  MidCall = FALSE
  MaxPublished = 2
  MaxForced = 1
  MaxFailures = 2
  MaxPowerLosses = 1
  PageTokens = 2
  MinContext = 2
  HeadroomPercent = 12
  Orders <- MCOrders
  TypedScores <- MCTypedScores
  Lists <- MCLists
  Wanted <- MCWanted
  MaxNoise = 1
  Experts <- MCExperts
  PerLayer = 2
  ShapeOrders <- MCShapeOrders
  LadderPoints = 9
  Prominence = 2
  Within <- MCWithin
  Share = 50
  GhostShare = 100
  Warmup = 2
  BenchOrders <- MCBenchOrders
  Depths = 2
  Repeats = 2
  MinInvocations = 2
  Asked = 4
  Other = 5
  Jobs <- MCJobs
  Routes <- MCRoutes
  Invocations = 2
  MaxTenants = 1
  Absent = Absent
  Openings <- MCOpenings
  Reports <- MCReports
  Catalogs <- MCCatalogs
  Hosts <- MCHosts
  Transfers <- MCTransfers
  Rungs <- MCRungs
  ReservePercent = 20
  GiB = 2
  Machines <- MCMachines
  FreeSizes = {4, 9}
  MaxUpsets = 2
  Files <- MCFiles
  Contents <- MCContents
  Directories <- MCDirectories
  MaxEdits = 2
  Wants <- MCWants
  Repositories <- MCRepositories
  Selectors <- MCSelectors
INVARIANT DestIsWhole
CHECK_DEADLOCK FALSE
