----------------------------- MODULE RejectionLaws -----------------------------
(***************************************************************************)
(* What speculative sampling promises: the tokens that come out have the   *)
(* law of the target, whatever the drafter proposes.  Both verification    *)
(* methods of rejection_sampler_utils.py are checked against that          *)
(* definition, by summing over every draft, random number and resampled    *)
(* token.                                                                  *)
(***************************************************************************)
EXTENDS RejectionKernels

\* The rows whose weights add up to n.
Dists(n) == {r \in [0..(TargetVocab - 1) -> 0..n] :
               MapThenSumSet(LAMBDA x : r[x], DOMAIN r) = n}

\* A target p and a drafter q: the first rows, and the second rows by first token.
Models(n) == [p : Dists(n), q : Dists(n), oneHot : BOOLEAN,
              p2 : [0..(TargetVocab - 1) -> Dists(n)],
              q2 : [0..(TargetVocab - 1) -> Dists(n)]]

\* The window for the drafts d along a model.
WindowOf(m, kind, d) ==
  [kind |-> kind, oneHot |-> m.oneHot, greedy |-> FALSE, k |-> Len(d),
   drafts |-> [i \in 0..(Len(d) - 1) |-> d[i + 1]],
   target |-> [i \in 0..Len(d) |-> IF i = 0 THEN m.p ELSE m.p2[d[1]]],
   draft  |-> [i \in 0..(Len(d) - 1) |-> IF i = 0 THEN m.q ELSE m.q2[d[1]]]]

All == 0..(TargetVocab - 1)
Mass(row) == MapThenSumSet(LAMBDA x : row[x], DOMAIN row)
Prob(row, x) == IF Mass(row) = 0 THEN <<0, 1>> ELSE Frac(row[x], Mass(row))

-------------------------------------------------------------------------------
\* The share of random numbers with which the ratio test accepts.
AcceptShare(w) ==
  Frac(Cardinality({u \in Uniform : RatioTest(w, 0, u)}), Steps)

\* The probability of x after the draft d is verified by the ratio test.
RatioOutcome(m, d, x) ==
  LET w == WindowOf(m, "ratio", <<d>>)
      a == AcceptShare(w)
  IN  FAdd(IF x = d THEN a ELSE <<0, 1>>,
           FMul(FMonus(One, a), Prob(Residual(w, 0), x)))

\* Leviathan et al.: the token sampled at a drafted position has the target's law,
\* over the drafts of the drafter, or whatever draft one without logits brings.
LeviathanLaw(m) ==
  \A x \in All :
    IF m.oneHot THEN \A d \in All : RatioOutcome(m, d, x) = Prob(m.p, x)
    ELSE FSum({d \in All : m.q[d] > 0},
              LAMBDA d : FMul(Prob(m.q, d), RatioOutcome(m, d, x))) = Prob(m.p, x)

-------------------------------------------------------------------------------
\* The probability of the tokens <<x, y>> after the drafts d are verified as a
\* block: the second of them comes from a later window if no draft is accepted.
BlockOutcome(m, d, x, y) ==
  LET w  == WindowOf(m, "block", d)
      h1 == Threshold(w, 0)
      h2 == Threshold(w, 1)
      n1 == FMul(FMonus(One, h2), h1)
      n0 == FMul(FMonus(One, h2), FMonus(One, h1))
      both == IF <<x, y>> = d THEN h2 ELSE <<0, 1>>
      one  == IF x = d[1] THEN FMul(n1, Prob(Residual(w, 1), y)) ELSE <<0, 1>>
      none == FMul(n0, FMul(Prob(Residual(w, 0), x), Prob(m.p2[x], y)))
  IN  FAdd(both, FAdd(one, none))

\* Sun et al.: the first two tokens have the target's joint law although a block
\* may be accepted whose first draft alone would be rejected.
BlockLaw(m) ==
  \A x \in All, y \in All :
    LET joint == FMul(Prob(m.p, x), Prob(m.p2[x], y))
    IN  IF m.oneHot THEN \A d \in All \X All : BlockOutcome(m, d, x, y) = joint
        ELSE FSum({d \in All \X All : m.q[d[1]] > 0 /\ m.q2[d[1]][d[2]] > 0},
                  LAMBDA d : FMul(FMul(Prob(m.q, d[1]), Prob(m.q2[d[1]], d[2])),
                                  BlockOutcome(m, d, x, y))) = joint

===============================================================================
