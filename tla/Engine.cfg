SPECIFICATION EngineSpec
CONSTANTS
  Views = {"pages", "session", "experts", "kernels"}
  Seqs = {s1, s2, s3}
  TotalPages = 5
  PageTokens = 2
  ContextLimit = 7
  MayRebegin = FALSE
  NBlock = 3
  SwaPattern = 2
  NSwa = 3
  NCtx = 5
  SessionFails = {"table", "block"}
  MaxSequences = 3
  Callers = {c1, c2}
  Nobody = Nobody
  Prompts = {1}
  Limits = {9}
  MaxCalls = 2
  ExpertBlocks = 1
  Ids = {e1, e2}
  K = 1
  Capacity = 1
  NoExpert = NoExpert
  MaxHost = 1
  CallFails = {"submit", "upload", "stage", "launch", "copy", "sync", "add"}
  MaxClock = 2
  MaxSteps = 2
  HalfExp = 3
  HalfMant = 2
  FloatExp = 4
  FloatMant = 5
  WG = 2
  MATVEC_ROWS = 2
  UnitElems = 2
  MAX_TOPK = 3
  MAX_BATCHED_MATS = 4
  MaxHeadDim = 2
  ClampBits = 1
  NEmbd = 5
  NHead = 4
  NHeadKv = 2
  HeadDim = 2
  NFf = 3
  NExpert = 4
  NExpertUsed = 3
  NVocab = 7
  Shapes <- MCShapes
  Forwards <- MCForwards
INVARIANTS
  KernelsAgree SharesAreTheirOwn
  PagesAccounted
  AttentionSeesItsOwn CallOwnsTheDevice
PROPERTIES TokensStay CallsReturn
CHECK_DEADLOCK FALSE
