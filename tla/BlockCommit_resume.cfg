SPECIFICATION Spec
CONSTANTS
  v1 = v1  v2 = v2  lt = lt  gt = gt  stop = stop  mark = mark  oov = oov
  Tokens = {v1, v2}
  Words <- WordsShort
  Signatures <- NoSignatures
  Encoded <- EncodedNone
  Opens = {}
  Closes = {}
  Lines = {}
  SigWindow = 3
  Overlap = 1
  TailWindow = 4
  FragmentMax = 3
  MaxBack = 2
  RepWindow = 3
  RepMin = 3
  Oov = {}
  Stops = {}
  ThinkEnd = mark
  Structured = TRUE
  Reasons = FALSE
  NumSpec = 2
  MinBlock = 1
  Ahead = 1
  Views = {"drafts", "placeholders"}
  Resumes = TRUE
  Policy = "commit"
  GrammarSalvage = TRUE
  SalvageBudget = 2
  SalvageGuard = TRUE
  CutBack = 2
  SoupStreak = 3
  SoupTotal = 5
  RepStreak = 3
  MaxTokens = 6
INVARIANTS TailBounded
