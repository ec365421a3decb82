SPECIFICATION StoragesSpec
CONSTANTS
  g0 = g0
  a0 = a0
  b0 = b0
  c0 = c0
  Block = {g0, a0, b0, c0}
  NoBlock = NoBlock
  Height <- MCHeight
  Parent <- MCParent
  GameState <- MCGameState
  NoState = NoState
  UndoData <- MCUndoData
  NoUndo = NoUndo
  GenesisHeight = 1
  StateAt <- MCStateAt
  UndoOf <- MCUndoOf
  BatchSizes = {1, 2, 3}
  u1 = u1
  u2 = u2
  NoUndoRow = NoUndoRow
  NoKeyword = NoKeyword
  User = {u1, u2}
  AssetName = {"gold"}
  MaxAmount = 2
  NoRow = NoRow
  IdsTaken <- MCIdsTaken
  BlockInterval = 2
  BlockModulo = 0
  FirstBlock = g0
  Games <- MCGames
  Reader = {"rpc"}
  MaxThrows = 1
INVARIANTS
  TransactionsNotNested
