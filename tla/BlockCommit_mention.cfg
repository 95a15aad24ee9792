SPECIFICATION Spec
CONSTANTS
  v1 = v1  v2 = v2  lt = lt  gt = gt  stop = stop  mark = mark  oov = oov
  Tokens = {v1, lt}
  Words <- NoWords
  Signatures <- SigLt
  Encoded <- EncodedLt
  Opens = {}
  Closes = {}
  Lines = {}
  SigWindow = 3
  Overlap = 16
  TailWindow = 4
  FragmentMax = 3
  MaxBack = 2
  RepWindow = 3
  RepMin = 3
  Oov = {}
  Stops = {}
  ThinkEnd = mark
  Structured = FALSE
  Reasons = FALSE
  NumSpec = 1
  MinBlock = 1
  Ahead = 1
  Views = {"drafts", "placeholders"}
  Resumes = FALSE
  Policy = "commit"
  GrammarSalvage = TRUE
  SalvageBudget = 2
  SalvageGuard = TRUE
  CutBack = 2
  SoupStreak = 12
  SoupTotal = 18
  RepStreak = 3
  MaxTokens = 14
INVARIANTS OneMentionSurvives
