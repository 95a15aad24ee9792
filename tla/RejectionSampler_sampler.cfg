SPECIFICATION LawSpec
CONSTANTS
  TargetVocab = 5
  DraftVocab = 5
  VocabBlock = 2
  ResampleBlock = 2
  PaddedBlocks <- MCPaddedBlocks
  Steps = 6
  Rates <- MCRates
  NumSpec = 2
  TargetRows <- MCTargetRows
  DraftRows <- MCDraftRows
  Methods <- MCMethods
  LawVocab = 2
  LawWeight = 3
INVARIANTS SampledInVocab AcceptedArePrefix GreedyFollowsTarget CorrectionHasMass RatioLaw BlockLaw
