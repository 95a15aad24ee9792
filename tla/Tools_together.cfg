SPECIFICATION Spec
CONSTANTS
  Parts = {"patcher"}
  Paths = {"p", "q"}  Contents = {"a", "b"}
  Kinds = {"a", "b", "c"}  MaxChunks = 2  NumTopics = 2  CanaryEvery = 2
  RecallEvery = 2  Efforts <- MCEfforts  MaxFailed = 1
  Words = {"x", "y"}  MaxDeltas = 3  MaxPiece = 2  GramLength = 2  MaxRepeats = 3
  MinTokens = 2  ShareNum = 3  ShareDen = 4
  Chain <- MCChain  Tasks = {1, 2, 3}  Found <- MCFound  AgentAnswers <- MCAgentAnswers
  Replies <- MCReplies  Heads <- MCHeads  Wanted = "a"  MaxTurns = 3
  Scripts <- MCScripts  Drifts <- MCDrifts  MaxRuns = 4
  Slots = {1, 2}  MaxSampleLen = 3  Depth = 2  MaxSteps = 4
  Interval = 3  Slack = 1  MaxProbe = 2  HoldK = 2  MaxCycles = 3
  Pieces <- MCPieces  MaxPieces = 4
  LoopAnswers <- MCLoopAnswers  LoopTurns = 4  Repetitions = 2
INVARIANT UtilsTogether
