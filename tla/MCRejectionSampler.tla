-------------------------- MODULE MCRejectionSampler --------------------------
(* RejectionSampler for TLC: rows with ties, masked tokens and NaN over a      *)
(* vocabulary that fills neither its last block nor its padding, and the       *)
(* distributions on which the laws of the two methods are summed up.           *)
EXTENDS SamplerLaws

\* The least power of two that is at least n.
MCPaddedBlocks(n) == Min({2^e : e \in 0..n} \ 0..(n - 1))

Row(a, b, c, d, e) == <<a, b, c, d, e>>
At0(s) == [i \in 0..(Len(s) - 1) |-> s[i + 1]]

\* A tie between blocks, a peak in the last block, a NaN in a full block, a NaN
\* in the last one, nothing but NaN.
MCTargetRows == {At0(Row(1, 2, 0, 2, 1)), At0(Row(1, 0, 1, 0, 4)),
                 At0(Row(NaN, 1, 0, 0, 1)), At0(Row(0, 1, 2, 0, NaN)),
                 At0(Row(NaN, NaN, NaN, NaN, NaN))}
MCDraftRows == {At0(Row(1, 1, 1, 1, 2)), At0(Row(0, 2, 2, 0, 0))}

MCMethods ==
  {[kind |-> "ratio", oneHot |-> TRUE, greedy |-> TRUE],
   [kind |-> "ratio", oneHot |-> FALSE, greedy |-> FALSE],
   [kind |-> "ratio", oneHot |-> TRUE, greedy |-> FALSE],
   [kind |-> "block", oneHot |-> FALSE, greedy |-> FALSE],
   [kind |-> "synthetic", oneHot |-> TRUE, greedy |-> TRUE],
   [kind |-> "synthetic", oneHot |-> FALSE, greedy |-> FALSE]}

MCRates == [i \in 0..1 |-> 2 + i]

===============================================================================
