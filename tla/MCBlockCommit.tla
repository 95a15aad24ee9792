----------------------------- MODULE MCBlockCommit -----------------------------
(* Instances of BlockCommit for TLC: grammars and tag signatures.            *)
EXTENDS BlockCommit

CONSTANTS
  v1, v2,           \* tokens of answers
  lt, gt,           \* tokens of a tag
  stop, mark, oov   \* a stop token, the reasoning end marker, a bad id

\* A grammar with two words, the shorter of a single token.
WordsShort == {<<v1, v2>>, <<v2>>}
WordsLong == {<<v1, v2, v1>>, <<v1, v1>>}
WordsSame == {<<v1, v1, v1>>}
NoWords == {}

SigLt  == {{<<lt>>}}
SigTag == {{<<lt, gt>>}}
\* "xxx", where v1 is "x" and v2 is "xx".
SigThrice == {{<<v2, v1>>, <<v1, v2>>, <<v2, v2>>, <<v1, v1, v1>>}}
NoSignatures == {}

EncodedLt == [s \in SigLt |-> <<lt>>]
EncodedTag == [s \in SigTag |-> <<lt, gt>>]
EncodedThrice == [s \in SigThrice |-> <<v2, v1>>]
EncodedNone == [s \in NoSignatures |-> <<>>]

===============================================================================
