SPECIFICATION ServingSpec
CONSTANTS
  Views = {"requests", "startup", "sampling", "llama"}
  r1 = r1
  r2 = r2
  Requests = {r1, r2}
  None = None
  Plans <- MCPlans
  Tokens <- MCTokens
  Piece <- MCPiece
  Open <- MCOpen
  Stops <- MCStops
  Eos = Eos
  NCtx = 3
  NBatch = 1
  Buffer = 1
  Panics = {"engine", "request"}
  Launches <- MCLaunches
  Asked <- MCAsked
  Families = {"qwen2", "gpt-2"}
  ModelSize = 5
  MaxArrayLen = 8
  Unit = 16
  Huge = 640
  Tiny = 16
  Shift = 6
  Peak = 128
  Unset = Unset
  Fields <- MCFields
  Defaults <- MCDefaults
  MaxCap = 2
  History <- MCHistory
  Rows <- MCRows
  Noises <- MCNoises
  u1 = u1
  u2 = u2
  Users = {u1, u2}
  Quotas <- MCQuotas
  Vocab = {"a"}
  Texts <- MCTexts
  Budgets = {0, 2}
  TrainedCtx = 4
  Asks <- MCAsks
  Heads = 1
  HeadDim = 32
  Layers = 4
  Splits = {0, 2}
  LogTailMax = 2
INVARIANTS ContextIsTranscript StreamIsBody DrawnFromItsOwn NothingIsSilent
CHECK_DEADLOCK FALSE
PROPERTY Completes
