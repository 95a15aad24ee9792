---------------------------- MODULE MCBlockVariants ----------------------------
(* The three variants on small grammars.                                       *)
EXTENDS BlockVariants

CONSTANTS
  v1, v2,           \* tokens of answers
  lt, gt,           \* tokens of a tag
  stop, mark, oov   \* a stop token, the reasoning end marker, a bad id

\* An answer after reasoning.
FinishConfig ==
  [Tokens |-> {v1, v2, stop, mark}, Words |-> {<<v1, v2, v1>>, <<v1, v1>>},
   Signatures |-> {}, Encoded |-> <<>>, Opens |-> {}, Closes |-> {}, Oov |-> {}, Stops |-> {stop},
   Reasons |-> TRUE, NumSpec |-> 2, Views |-> {"drafts", "placeholders"},
   Resumes |-> FALSE, GrammarSalvage |-> TRUE, SalvageBudget |-> 2, MaxTokens |-> 6]

\* Windows are longer than the answers.
CoveredConfig ==
  [Tokens |-> {v1, v2, oov}, Words |-> {<<v1, v2, v1>>, <<v1, v1>>},
   Signatures |-> {}, Encoded |-> <<>>, Opens |-> {}, Closes |-> {}, Oov |-> {oov}, Stops |-> {},
   Reasons |-> FALSE, NumSpec |-> 3, Views |-> {"drafts"},
   Resumes |-> FALSE, GrammarSalvage |-> TRUE, SalvageBudget |-> 2, MaxTokens |-> 6]

\* A signature of two tokens, and requests that resume.
GuardConfig ==
  [Tokens |-> {v1, lt, gt}, Words |-> {<<v1, v1, v1>>},
   Signatures |-> {{<<lt, gt>>}},
   Encoded |-> [s \in {{<<lt, gt>>}} |-> <<lt, gt>>], Opens |-> {lt}, Closes |-> {gt}, Oov |-> {}, Stops |-> {},
   Reasons |-> FALSE, NumSpec |-> 3, Views |-> {"drafts", "placeholders"},
   Resumes |-> TRUE, GrammarSalvage |-> FALSE, SalvageBudget |-> 4, MaxTokens |-> 8]

MCConfig == [finish |-> FinishConfig, covered |-> CoveredConfig, guard |-> GuardConfig]

===============================================================================
