SPECIFICATION ComponentsSpec
CONSTANTS
  g0 = g0
  a0 = a0
  b0 = b0
  c0 = c0
  t1 = t1
  t2 = t2
  Block = {g0, a0, b0, c0}
  NoBlock = NoBlock
  Height <- MCHeight
  Parent <- MCParent
  Tx = {t1, t2}
  TxMoves <- MCTxMoves
  BlockTxs <- MCBlockTxs
  PendingGenesis = g0
  BlockQueueSize = 2
  MaxCoreEvents = 4
  Poller = {"blocks", "pending"}
  PendingPoller = {"pending"}
  BlockHash = {"b1", "b2"}
  NullHash = "null"
  StartBlocks = {"b1"}
  MaxChanges = 2
  MaxErrors = 1
  CoreAnswers <- MCCoreAnswers
  MinVersion = 2
  MaxVersion = 2
  NoOwner = "free"
  Player = {"p", "q"}
  MaxSteps = 2
  GameKinds = {"mover", "caching"}
  BlockMoves <- MCBlockMoves
  MaxHeight = 3
  MaxDetaches = 1
  Users = {"reader", "writer"}
  Slots <- MCSlots
  Sqls = {"sql"}
  Values = {1}
  RowsFor <- MCRowsFor
  Unbound = Unbound
  NoSql = NoSql
  MaxStates = 2
  MaxSends = 2
  NoJson = NoJson
  NoText = NoText
  NumBytes = 2
  WordSize = 16
  COIN = 10
  MAX_ROD_AMOUNT = 200
  PRECISION = 8
  HashOf <- MCHashOf
  SeedByte <- MCSeedByte
  Name = {"n1", "n2"}
  ChannelId = {1, 2}
  FinalTurn = 2
  Unsigned = 256
  DISPUTE_BLOCKS = 2
  CHANNEL_TIMEOUT_BLOCKS = 3
  MovesOfBlock <- MCMovesOfBlock
  PendingOffers <- MCPendingOffers
  LastHeight = 5
  MaxPending = 2
  Side = 2
  AvailableShips <- MCFleet
  IntCells = {0, 1, 2}
  Reinit = {"r1", "r2"}
  Positions <- MCPositions
  PeerPositions <- MCPeerPositions
  MaxShots = 2
  MaxReorgs = 2
INVARIANTS
  PendingFollowsChain
  StopWakesAll
  BackwardsInverts
  StatementsExclusive
  AnswersAreWhole
  TablesAgree
  PendingIsBest
  
  BoardsInOrder
  HonestNotCheated
  AutoMovesApply
PROPERTIES
  PushedAtLast
  StopEnds
  LossDeclared
CHECK_DEADLOCK FALSE
