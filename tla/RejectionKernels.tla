--------------------------- MODULE RejectionKernels ---------------------------
(***************************************************************************)
(* The arithmetic of the rejection sampler's kernels, as patch 0026 leaves *)
(* them (rejection_sampler_utils.py).                                      *)
(*                                                                         *)
(* A row of logits is a function from tokens to weights: a weight is       *)
(* exp(logit) up to a factor, 0 stands for -inf, and a probability is a    *)
(* weight over the row's total.  A window is what one request brings to a  *)
(* launch: k drafts, the k + 1 rows of the target and the k of the drafter *)
(* along them.  Every program instance reads the rows of its own request.  *)
(***************************************************************************)
EXTENDS Integers, Sequences, FiniteSets, FiniteSetsExt

CONSTANTS
  TargetVocab, DraftVocab,   \* lengths of the rows
  VocabBlock, ResampleBlock, \* VOCAB_BLOCK_SIZE, RESAMPLE_BLOCK_SIZE
  PaddedBlocks(_),           \* triton.next_power_of_2
  Steps,                     \* granularity of the uniform random numbers
  Rates                      \* synthetic acceptance rates, in units of 1/Steps

NaN == -1
Junk == -2   \* what memory outside of an array, or never written, holds

-------------------------------------------------------------------------------
(* Block reductions. *)

\* The vocabulary the kernels scan: drafts may have a shorter one.
VocabSize(w) ==
  IF w.oneHot \/ TargetVocab <= DraftVocab THEN TargetVocab ELSE DraftVocab

\* Only the full blocks.
FullBlocks(n, d) == n \div d
Cdiv(n, d) == (n + d - 1) \div d

HasNaN(f) == \E i \in DOMAIN f : f[i] = NaN

\* The lanes an argmax over f may return: the first maximum, with Gumbel noise
\* any lane of positive weight, and any lane at all when a comparison meets NaN.
ArgMax(f, noisy) ==
  LET first    == {i \in DOMAIN f : \A j \in DOMAIN f :
                     f[j] < f[i] \/ (f[j] = f[i] /\ i <= j)}
      positive == {i \in DOMAIN f : f[i] > 0}
  IN  IF HasNaN(f) THEN DOMAIN f
      ELSE IF noisy /\ positive # {} THEN positive ELSE first

\* Block b of a row over v tokens; its lanes past the row hold -inf.
Block(row, b, size, v) ==
  [i \in 0..(size - 1) |-> IF b * size + i < v THEN row[b * size + i] ELSE 0]

\* Patch 0026: a maximum that is NaN counts as -inf.
Unguarded(value) == value
Guard(value) == IF value = NaN THEN 0 ELSE value

\* The maxima of the blocks under their winning lanes, padded to a power of two.
BlockMaxes(row, lane, size, v) ==
  LET n == Cdiv(v, size)
  IN  [b \in 0..(PaddedBlocks(n) - 1) |->
         IF b < n THEN Guard(Block(row, b, size, v)[lane[b]]) ELSE 0]

\* The winning lanes that the blocks of a row may report.
LocalArgmaxes(row, size, v, noisy) ==
  LET n == Cdiv(v, size)
  IN  {lane \in [0..(n - 1) -> 0..(size - 1)] :
         \A b \in 0..(n - 1) : lane[b] \in ArgMax(Block(row, b, size, v), noisy)}

\* The tokens loaded for the winning block; an index into the padding reads
\* past the array.
GlobalArgmaxes(row, lane, size, v, noisy) ==
  {IF b < Cdiv(v, size) THEN b * size + lane[b] ELSE Junk :
     b \in ArgMax(BlockMaxes(row, lane, size, v), noisy)}

\* _compute_global_target_argmax after the local statistics.
TargetArgmaxes(w, i) ==
  UNION {GlobalArgmaxes(w.target[i], lane, VocabBlock, VocabSize(w), FALSE) :
           lane \in LocalArgmaxes(w.target[i], VocabBlock, VocabSize(w), FALSE)}

-------------------------------------------------------------------------------
(* Fractions <<numerator, denominator>>, in lowest terms. *)

GCD[p \in Nat \X Nat] == IF p[2] = 0 THEN p[1] ELSE GCD[<<p[2], p[1] % p[2]>>]

Frac(n, d) == LET g == GCD[<<n, d>>] IN <<n \div g, d \div g>>
One == <<1, 1>>
FMul(a, b) == Frac(a[1] * b[1], a[2] * b[2])
FAdd(a, b) == LET g == GCD[<<a[2], b[2]>>]
              IN  Frac(a[1] * (b[2] \div g) + b[1] * (a[2] \div g), a[2] * (b[2] \div g))
FMonus(a, b) ==   \* max(a - b, 0)
  LET g == GCD[<<a[2], b[2]>>]
      n == a[1] * (b[2] \div g) - b[1] * (a[2] \div g)
  IN  IF n <= 0 THEN <<0, 1>> ELSE Frac(n, a[2] * (b[2] \div g))
FMin(a, b) == IF a[1] * b[2] <= b[1] * a[2] THEN a ELSE b
FSum(S, f(_)) == FoldSet(LAMBDA x, acc : FAdd(f(x), acc), <<0, 1>>, S)

-------------------------------------------------------------------------------
(* Probabilities of a window without NaN. *)

Tokens(w) == 0..(VocabSize(w) - 1)

Total(w, row) == MapThenSumSet(LAMBDA x : row[x], Tokens(w))

TargetProb(w, i, x) == Frac(w.target[i][x], Total(w, w.target[i]))

\* A drafter without logits put all its mass on the draft.
DraftProb(w, i, x) ==
  IF w.oneHot THEN (IF x = w.drafts[i] THEN One ELSE <<0, 1>>)
  ELSE Frac(w.draft[i][x], Total(w, w.draft[i]))

\* The u-th of Steps equally likely random numbers is (2u - 1) / (2 Steps).
Uniform == 1..Steps
BelowRate(u, i) == 2 * u - 1 < 2 * Rates[i]

\* A ratio test that forgets to weigh by the drafter's probability.
TargetTest(w, i, u) ==
  /\ w.drafts[i] >= 0
  /\ LET p == TargetProb(w, i, w.drafts[i]) IN 2 * Steps * p[1] > (2 * u - 1) * p[2]

\* Leviathan et al.: accept the draft x iff p(x) > u q(x).  A padded draft, -1,
\* is rejected, and so is every draft of a row with a NaN.
RatioTest(w, i, u) ==
  /\ w.drafts[i] >= 0
  /\ ~HasNaN(w.target[i]) /\ (~w.oneHot => ~HasNaN(w.draft[i]))
  /\ LET p == TargetProb(w, i, w.drafts[i])
         q == DraftProb(w, i, w.drafts[i])
     IN  2 * Steps * p[1] * q[2] > (2 * u - 1) * q[1] * p[2]

-------------------------------------------------------------------------------
(* Block verification (Sun et al.). *)

\* The running joint ratio after each draft, capped at 1 as it goes.
JointRatio(w) ==
  LET ratio[i \in 0..(w.k - 1)] ==
        LET p == TargetProb(w, i, w.drafts[i])
            q == DraftProb(w, i, w.drafts[i])
        IN  FMin(One, FMul(IF i = 0 THEN One ELSE ratio[i - 1],
                           Frac(p[1] * q[2], p[2] * q[1])))
  IN  ratio

\* max(tau p(x) - q(x), 0) at position i.
ScaledResidual(w, i, tau, x) ==
  FMonus(FMul(tau, TargetProb(w, i, x)), DraftProb(w, i, x))

\* The mass of the residual at i after the joint ratio tau; a drafter without
\* logits gets the closed form.
ResidualMass(w, i, tau) ==
  IF w.oneHot
  THEN FMul(tau, FMonus(One, TargetProb(w, i, w.drafts[i])))
  ELSE FSum(Tokens(w), LAMBDA x : ScaledResidual(w, i, tau, x))

\* The ratio itself, at every position.
RatioThreshold(w, i) == JointRatio(w)[i]

\* The probability with which the block of the first i + 1 drafts is accepted.
Threshold(w, i) ==
  LET tau   == JointRatio(w)[i]
      mass  == ResidualMass(w, i + 1, tau)
      denom == FAdd(mass, FMonus(One, tau))
  IN  IF i = w.k - 1 THEN tau
      ELSE IF denom[1] = 0 THEN One
      ELSE Frac(mass[1] * denom[2], mass[2] * denom[1])

BlockTest(w, i, u) ==
  LET h == Threshold(w, i) IN (2 * u - 1) * h[2] <= 2 * Steps * h[1]

-------------------------------------------------------------------------------
(* The row a rejected or a bonus token is resampled from. *)

\* The joint ratio of the n accepted drafts.
Tau(w, n) == IF w.kind = "block" /\ n > 0 THEN JointRatio(w)[n - 1] ELSE One

\* Sampling the correction from the target itself.
TargetRow(w, n) == w.target[n]

\* log(r) is taken where the ratio q / p is below 1: a NaN in either row leaves
\* no lane.
Residual(w, n) ==
  IF n = w.k THEN w.target[n]
  ELSE IF w.oneHot
  THEN [x \in DOMAIN w.target[n] |->
          IF x = w.drafts[n] THEN 0 ELSE w.target[n][x]]
  ELSE IF HasNaN(w.target[n]) \/ HasNaN(w.draft[n])
  THEN [x \in DOMAIN w.target[n] |-> 0]
  ELSE LET t == Tau(w, n)
           p == Total(w, w.target[n])
           q == Total(w, w.draft[n])
           r(x) == t[1] * w.target[n][x] * q - t[2] * w.draft[n][x] * p
       IN  [x \in Tokens(w) |-> IF r(x) \in Nat THEN r(x) ELSE 0]

===============================================================================
