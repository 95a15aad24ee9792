------------------------------ MODULE BlockVariants -----------------------------
(***************************************************************************)
(* BlockCommit in three configurations, in one state graph: `variant` is   *)
(* chosen by the initial state and never changes.  "finish" ends requests  *)
(* where the grammar rejects a block; "covered" shows every window its     *)
(* drafts; "guard" has a salvaged request watched for signatures.          *)
(***************************************************************************)
EXTENDS Integers, Sequences

CONSTANTS
  Config,   \* [variant -> what the variants differ in], records by constant
  Lines, SigWindow, Overlap, TailWindow, FragmentMax, MaxBack, RepWindow, RepMin,
  ThinkEnd, MinBlock, Ahead, SalvageGuard, CutBack, SoupStreak, SoupTotal, RepStreak

VARIABLES
  variant,
  worker, flight, status, ending, out, enforce, reasoning, matched, budget,
  sigWatch, streaks, totals, repStreak, abandoned

vars == <<variant, worker, flight, status, ending, out, enforce, reasoning,
          matched, budget, sigWatch, streaks, totals, repStreak, abandoned>>

Variants == {"finish", "covered", "guard"}

ASSUME VariantsAssumption ==
  \A v \in Variants :
    LET c == Config[v]
    IN  /\ c.Words \subseteq Seq(c.Tokens) /\ c.Words # {}
        /\ c.Oov \subseteq c.Tokens
        /\ \A s \in c.Signatures : c.Encoded[s] \in s
        /\ c.Reasons \in BOOLEAN /\ c.GrammarSalvage \in BOOLEAN
        /\ c.NumSpec \in Nat \ {0} /\ c.SalvageBudget \in Int
        /\ c.Views \subseteq {"drafts", "placeholders"}
        /\ c.MaxTokens \in Nat \ {0}

\* Every window has drafts: no request resumes without them, and no grammar accepts
\* the empty answer.
ASSUME DraftsAssumption ==
  \A v \in {"finish", "covered"} : ~Config[v].Resumes /\ <<>> \notin Config[v].Words

\* What makes "covered" so: the answer has no reasoning, and windows are rewritten.
ASSUME CoveredAssumption ==
  ~Config["covered"].Reasons /\ Config["covered"].Views = {"drafts"}

ASSUME SharedAssumption ==
  /\ SigWindow \in Nat /\ Overlap \in Nat /\ TailWindow \in Nat
  /\ FragmentMax \in Nat /\ MaxBack \in Nat /\ RepWindow \in Nat /\ RepMin \in Nat
  /\ Ahead \in Nat \ {0} /\ CutBack \in Nat \ {0} /\ SalvageGuard \in BOOLEAN
  /\ SoupStreak \in Nat \ {0} /\ SoupTotal \in Nat \ {0} /\ RepStreak \in Nat \ {0}

\* A structured answer under the finish policy.
Finish == INSTANCE BlockCommit WITH
  Tokens <- Config["finish"].Tokens, Words <- Config["finish"].Words,
  Signatures <- Config["finish"].Signatures, Encoded <- Config["finish"].Encoded,
  Opens <- Config["finish"].Opens,
  Closes <- Config["finish"].Closes, Oov <- Config["finish"].Oov,
  Stops <- Config["finish"].Stops, Structured <- TRUE,
  Reasons <- Config["finish"].Reasons, NumSpec <- Config["finish"].NumSpec,
  Views <- Config["finish"].Views, Resumes <- Config["finish"].Resumes,
  GrammarSalvage <- Config["finish"].GrammarSalvage,
  SalvageBudget <- Config["finish"].SalvageBudget,
  MaxTokens <- Config["finish"].MaxTokens, Policy <- "finish"

\* A structured answer whose windows all show their drafts.
Covered == INSTANCE BlockCommit WITH
  Tokens <- Config["covered"].Tokens, Words <- Config["covered"].Words,
  Signatures <- Config["covered"].Signatures, Encoded <- Config["covered"].Encoded,
  Opens <- Config["covered"].Opens,
  Closes <- Config["covered"].Closes, Oov <- Config["covered"].Oov,
  Stops <- Config["covered"].Stops, Structured <- TRUE,
  Reasons <- Config["covered"].Reasons, NumSpec <- Config["covered"].NumSpec,
  Views <- Config["covered"].Views, Resumes <- Config["covered"].Resumes,
  GrammarSalvage <- Config["covered"].GrammarSalvage,
  SalvageBudget <- Config["covered"].SalvageBudget,
  MaxTokens <- Config["covered"].MaxTokens, Policy <- "commit"

\* A salvaged answer under the guard of patch 0014.
Guard == INSTANCE BlockCommit WITH
  Tokens <- Config["guard"].Tokens, Words <- Config["guard"].Words,
  Signatures <- Config["guard"].Signatures, Encoded <- Config["guard"].Encoded,
  Opens <- Config["guard"].Opens,
  Closes <- Config["guard"].Closes, Oov <- Config["guard"].Oov,
  Stops <- Config["guard"].Stops, Structured <- TRUE,
  Reasons <- Config["guard"].Reasons, NumSpec <- Config["guard"].NumSpec,
  Views <- Config["guard"].Views, Resumes <- Config["guard"].Resumes,
  GrammarSalvage <- Config["guard"].GrammarSalvage,
  SalvageBudget <- Config["guard"].SalvageBudget,
  MaxTokens <- Config["guard"].MaxTokens, Policy <- "commit"

Init ==
  \/ variant = "finish"  /\ Finish!Init
  \/ variant = "covered" /\ Covered!Init
  \/ variant = "guard"   /\ Guard!Init

Next ==
  /\ variant' = variant
  /\ \/ variant = "finish"  /\ Finish!Next
     \/ variant = "covered" /\ Covered!Next
     \/ variant = "guard"   /\ Guard!Next

Spec == Init /\ [][Next]_vars

\* The guard variant keeps running batches and delivering them.
Fairness ==
  /\ WF_vars(variant = "guard" /\ Guard!Run /\ UNCHANGED variant)
  /\ WF_vars(variant = "guard" /\ Guard!UpdateFromOutput /\ UNCHANGED variant)

FairSpec == Spec /\ Fairness

-------------------------------------------------------------------------------
(* The properties of BlockCommit, each under the configuration it is about.   *)

\* No token that the grammar rejects is delivered (0025 54-61).
FinishedAnswerValid == variant = "finish" => Finish!FinishedAnswerValid

\* Enforcement lasts as long as the request (0028 PATCH.md, root cause).
EnforcementHolds == variant = "covered" => Covered!EnforcementHolds

\* Every request ends (0010, "would spin until max_tokens").
RequestEnds == variant = "guard" => Guard!RequestEnds

===============================================================================
