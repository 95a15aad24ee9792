SPECIFICATION Spec
CONSTANTS
  v1 = v1  v2 = v2  lt = lt  gt = gt  stop = stop  mark = mark  oov = oov
  Tokens = {v1, v2, stop, mark, oov}
  Words <- WordsShort
  Signatures <- SigThrice
  Encoded <- EncodedThrice
  Opens = {}
  Closes = {}
  Lines = {v1}
  SigWindow = 3
  Overlap = 1
  TailWindow = 4
  FragmentMax = 3
  MaxBack = 2
  RepWindow = 3
  RepMin = 3
  Oov = {oov}
  Stops = {stop}
  ThinkEnd = mark
  Structured = TRUE
  Reasons = TRUE
  NumSpec = 2
  MinBlock = 1
  Ahead = 2
  Views = {"drafts", "placeholders"}
  Resumes = FALSE
  Policy = "commit"
  GrammarSalvage = TRUE
  SalvageBudget = 3
  SalvageGuard = TRUE
  CutBack = 2
  SoupStreak = 3
  SoupTotal = 2
  RepStreak = 2
  MaxTokens = 8
INVARIANTS HistoriesAgree EnforcedAnswerValid CompletedIsWord TailBounded
           WatchedTailClean OneMentionSurvives SoupBounded LoopsBounded
PROPERTIES CommittedNeverRetracted
