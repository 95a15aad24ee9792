SPECIFICATION FairSpec
CONSTANTS
  v1 = v1  v2 = v2  lt = lt  gt = gt  stop = stop  mark = mark  oov = oov
  Config <- MCConfig
  Lines = {}
  SigWindow = 3
  Overlap = 1
  TailWindow = 4
  FragmentMax = 3
  MaxBack = 2
  RepWindow = 3
  RepMin = 3
  ThinkEnd = mark
  MinBlock = 1
  Ahead = 1
  SalvageGuard = TRUE
  CutBack = 2
  SoupStreak = 3
  SoupTotal = 5
  RepStreak = 3
INVARIANTS FinishedAnswerValid EnforcementHolds
PROPERTIES RequestEnds
