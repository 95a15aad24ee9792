SPECIFICATION Spec
CONSTANTS
  v1 = v1  v2 = v2  lt = lt  gt = gt  stop = stop  mark = mark  oov = oov
  Tokens = {v1, lt, gt}
  Words <- WordsSame
  Signatures <- SigTag
  Encoded <- EncodedTag
  Opens = {lt}
  Closes = {gt}
  Lines = {}
  SigWindow = 3
  Overlap = 1
  TailWindow = 4
  FragmentMax = 3
  MaxBack = 2
  RepWindow = 3
  RepMin = 3
  Oov = {}
  Stops = {}
  ThinkEnd = mark
  Structured = TRUE
  Reasons = FALSE
  NumSpec = 3
  MinBlock = 1
  Ahead = 1
  Views = {"drafts", "placeholders"}
  Resumes = FALSE
  Policy = "commit"
  GrammarSalvage = TRUE
  SalvageBudget = 4
  SalvageGuard = TRUE
  CutBack = 2
  SoupStreak = 3
  SoupTotal = 5
  RepStreak = 3
  MaxTokens = 8
INVARIANTS SignaturesTrimmed
