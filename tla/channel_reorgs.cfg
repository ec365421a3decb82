SPECIFICATION Spec
CONSTANTS
  Player = {"me", "peer"}
  Me = "me"
  Peer = "peer"
  NoTurn = "nobody"
  Board <- MCBoard
  NoBoard = "none"
  Move = {"x", "y"}
  NoMove = "-"
  Reinit = {"r0", "r1", "r2"}
  NoReinit = "-"
  CreateReinit = "r0"
  Participants <- MCParticipants
  ReinitState <- MCReinitState
  WhoseTurn <- MCWhoseTurn
  TurnCount <- MCTurnCount
  ApplyMove <- MCApplyMove
  Winner <- MCWinner
  MaxSize = 2
  Priv = {"-"}
  InitialPriv = "-"
  Rnd = {0}
  MaybeAutoMove <- MCMaybeAutoMove
  Creator = "me"
  Joiner = "peer"
  DisputeBlocks = 1
  TimeoutBlocks = 1
  PeerPaths <- MCFewPeerPaths
  Timing = {FALSE}
  MaxRequests = 0
  MaxDepth = 1
  MaxReorgs = 1
  MaxFaults = 1
INVARIANTS
  QueueIsExact
  NoOtherAbort
  FollowsChain
PROPERTIES
  NothingForgotten
