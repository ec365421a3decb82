SPECIFICATION Spec
CONSTANTS
  r = r
  p = p
  g0 = g0
  a1 = a1
  a2 = a2
  b1 = b1
  Block = {r, p, g0, a1, a2, b1}
  NoBlock = NoBlock
  Height <- MCHeight
  Parent <- MCParent
  GameState <- MCGameState
  NoState = NoState
  UndoData = {0, 1, 2, 3}
  NoUndo = NoUndo
  NBlocks = 1
  MaxAttaches = 2
  InitialState <- MCInitialState
  GenesisHeight = 3
  GenesisHash = NoBlock
  ProcessForward <- MCProcessForward
  UndoFor <- MCUndoFor
  ProcessBackwards <- MCProcessBackwards
  StateAt <- MCStateAt
  BatchSize = 2
  Pruning = FALSE
  Target = {p, a1}
  Losable = {"attach", "detach"}
  MidCallMoves = TRUE
  MaxMoves = 2
  MaxFaults = 2
  MaxTargets = 1
  Fault <- MCFault
INVARIANTS
  TypeOK
  StateMatchesHash
  CachedHeightMatches
  UpToDateIsDurable
  UndoAvailable
  CatchUpCompletes
  AtTargetMeansSynced
