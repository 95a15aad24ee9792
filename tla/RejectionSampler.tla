--------------------------- MODULE RejectionSampler ---------------------------
(***************************************************************************)
(* rejection_sample: the launches that turn one request's window of drafts *)
(* into sampled tokens.  Each action is one kernel; the arrays it leaves   *)
(* behind are what the next one reads.                                     *)
(***************************************************************************)
EXTENDS RejectionKernels

CONSTANTS
  NumSpec,      \* num_speculative_steps
  TargetRows,   \* rows the target model may produce
  DraftRows,    \* rows the drafter may produce
  Methods       \* records [kind, oneHot, greedy] of the requests

ASSUME SamplerAssumption ==
  /\ TargetVocab \in Nat \ {0} /\ DraftVocab \in Nat \ {0}
  /\ VocabBlock \in Nat \ {0} /\ ResampleBlock \in Nat \ {0}
  /\ VocabBlock <= TargetVocab /\ VocabBlock <= DraftVocab
  /\ ResampleBlock <= TargetVocab /\ ResampleBlock <= DraftVocab
  /\ \A n \in 1..TargetVocab : PaddedBlocks(n) \in Nat /\ PaddedBlocks(n) >= n
  /\ NumSpec \in Nat /\ Steps \in Nat \ {0}
  /\ TargetRows \subseteq [0..(TargetVocab - 1) -> Nat \cup {NaN}]
  /\ DraftRows \subseteq [0..(DraftVocab - 1) -> Nat \cup {NaN}]
  /\ Methods \subseteq [kind : {"ratio", "block", "synthetic"},
                        oneHot : BOOLEAN, greedy : BOOLEAN]

VARIABLES
  window,      \* the request: its method, k, drafts, target and draft rows
  phase,       \* the kernel to run next
  sampled,     \* the request's row of `sampled`
  numSampled,  \* num_sampled, the rejected step at first
  local        \* resampled_local_argmax, by block

vars == <<window, phase, sampled, numSampled, local>>

-------------------------------------------------------------------------------
\* Block verification has no test for padded drafts and is only modelled
\* without them and without NaN.
Admissible(w) ==
  /\ \A i \in 0..(w.k - 1) :
       w.drafts[i] >= 0 /\ ~w.oneHot => w.draft[i][w.drafts[i]] # 0
  /\ w.kind = "block" /\ ~w.greedy =>
       \A i \in 0..(w.k - 1) :
         w.drafts[i] >= 0 /\ ~HasNaN(w.target[i]) /\ ~HasNaN(w.draft[i])

Windows(m, k) ==
  {[kind |-> m.kind, oneHot |-> m.oneHot, greedy |-> m.greedy,
    k |-> k, drafts |-> d, target |-> t, draft |-> q] :
     d \in [0..(k - 1) -> -1..((IF TargetVocab <= DraftVocab
                                THEN TargetVocab ELSE DraftVocab) - 1)],
     t \in [0..k -> TargetRows], q \in [0..(k - 1) -> DraftRows]}

Init ==
  /\ \E m \in Methods, k \in 0..NumSpec : window \in Windows(m, k)
  /\ Admissible(window)
  /\ phase = "verify"
  /\ sampled = [i \in 0..NumSpec |-> Junk]
  /\ numSampled = 0
  /\ local = <<>>

\* The test of draft i with some random number has this outcome.
MayAccept(i, test(_, _, _), outcome) ==
  \E u \in Uniform : test(window, i, u) = outcome

\* The draft that is rejected is counted too.
StoreCounting(n, x) ==
  /\ numSampled' = IF n < window.k THEN n + 1 ELSE n
  /\ sampled' = [i \in 0..NumSpec |-> IF i < n THEN window.drafts[i]
                                      ELSE IF i = n /\ n < window.k THEN x
                                      ELSE sampled[i]]
  /\ phase' = "resample"
  /\ UNCHANGED <<window, local>>

\* The row holds the n accepted drafts and, if n falls short of the window, x.
Store(n, x) ==
  /\ numSampled' = n
  /\ sampled' = [i \in 0..NumSpec |-> IF i < n THEN window.drafts[i]
                                      ELSE IF i = n /\ n < window.k THEN x
                                      ELSE sampled[i]]
  /\ phase' = "resample"
  /\ UNCHANGED <<window, local>>

\* Accept up to the first draft that is not the target's argmax; the argmax is
\* stored in its place.  Synthetic rates decide by chance.
RejectGreedy ==
  /\ phase = "verify" /\ window.greedy
  /\ \E n \in 0..window.k :
       \E x \in IF n < window.k THEN TargetArgmaxes(window, n) ELSE {Junk} :
         /\ IF window.kind = "synthetic"
            THEN /\ \A i \in 0..(n - 1) : window.drafts[i] >= 0
                       /\ \E u \in Uniform : BelowRate(u, i)
                 /\ n < window.k => window.drafts[n] < 0
                       \/ \E u \in Uniform : ~BelowRate(u, n)
            ELSE /\ \A i \in 0..(n - 1) :
                      window.drafts[i] \in TargetArgmaxes(window, i)
                 /\ n < window.k => x # window.drafts[n]
         /\ Store(n, x)

\* Accept up to the first draft that fails its test.
RejectRatio ==
  /\ phase = "verify" /\ ~window.greedy /\ window.kind # "block"
  /\ \E n \in 0..window.k :
       /\ IF window.kind = "synthetic"
          THEN /\ \A i \in 0..(n - 1) : window.drafts[i] >= 0
                     /\ \E u \in Uniform : BelowRate(u, i)
               /\ n < window.k => window.drafts[n] < 0
                     \/ \E u \in Uniform : ~BelowRate(u, n)
          ELSE /\ \A i \in 0..(n - 1) : MayAccept(i, RatioTest, TRUE)
               /\ n < window.k => MayAccept(n, RatioTest, FALSE)
       /\ Store(n, IF n < window.k THEN Max({0, window.drafts[n]}) ELSE Junk)

\* Accept the longest block that passes its test, whatever shorter ones do.
\* Every draft is stored.
RejectBlock ==
  /\ phase = "verify" /\ ~window.greedy /\ window.kind = "block"
  /\ \E n \in 0..window.k :
       /\ n > 0 => MayAccept(n - 1, BlockTest, TRUE)
       /\ \A i \in n..(window.k - 1) : MayAccept(i, BlockTest, FALSE)
       /\ numSampled' = n
  /\ sampled' = [i \in 0..NumSpec |-> IF i < window.k THEN window.drafts[i] ELSE sampled[i]]
  /\ phase' = "resample"
  /\ UNCHANGED <<window, local>>

\* A greedy request that rejected a draft already holds its token.
NeedsToken == ~window.greedy \/ numSampled = window.k

\* Per block, the winner under the request's noise.
Resample ==
  /\ phase = "resample"
  /\ IF NeedsToken
     THEN local' \in LocalArgmaxes(Residual(window, numSampled), ResampleBlock,
                                   VocabSize(window), ~window.greedy)
     ELSE UNCHANGED local
  /\ phase' = "insert"
  /\ UNCHANGED <<window, sampled, numSampled>>

InsertResampled ==
  /\ phase = "insert"
  /\ numSampled' = numSampled + 1
  /\ IF NeedsToken
     THEN \E x \in GlobalArgmaxes(Residual(window, numSampled), local, ResampleBlock,
                                  VocabSize(window), ~window.greedy) :
            sampled' = [sampled EXCEPT ![numSampled] = x]
     ELSE UNCHANGED sampled
  /\ phase' = "clamp"
  /\ UNCHANGED <<window, local>>

\* Patch 0020: every cell is brought into the vocabulary before it is committed.
Clamp ==
  /\ phase = "clamp"
  /\ sampled' = [i \in 0..NumSpec |->
                   Max({0, IF sampled[i] < TargetVocab THEN sampled[i] ELSE TargetVocab - 1})]
  /\ phase' = "done"
  /\ UNCHANGED <<window, numSampled, local>>

Done == phase = "done" /\ UNCHANGED vars

Next == RejectGreedy \/ RejectRatio \/ RejectBlock \/ Resample \/ InsertResampled
        \/ Clamp \/ Done

Spec == Init /\ [][Next]_vars

-------------------------------------------------------------------------------
(* Properties. *)

Finished == phase \in {"clamp", "done"}

\* The types of the variables.
TypeOK ==
  /\ window.k \in 0..NumSpec
  /\ phase \in {"verify", "resample", "insert", "clamp", "done"}
  /\ sampled \in [0..NumSpec -> Int]
  /\ numSampled \in 0..(window.k + 1)

\* Every token that is delivered was written, and is a token of the vocabulary,
\* whatever NaN the rows hold and before the clamp of 0020 sees it (0026).
SampledInVocab ==
  Finished => \A i \in 0..(numSampled - 1) : sampled[i] \in 0..(VocabSize(window) - 1)

\* All tokens but the last are the drafts, in order.
AcceptedArePrefix ==
  Finished =>
    /\ numSampled >= 1
    /\ \A i \in 0..(numSampled - 2) : sampled[i] = window.drafts[i]

\* The token greedy decoding without drafts would produce from row i.
GreedyToken(i) ==
  CHOOSE x \in Tokens(window) : \A y \in Tokens(window) :
    \/ window.target[i][y] < window.target[i][x]
    \/ window.target[i][y] = window.target[i][x] /\ x <= y

\* A greedy request gets exactly the target's own tokens, as many as its drafts
\* are right about and one more.
GreedyFollowsTarget ==
  Finished /\ window.greedy /\ window.kind # "synthetic"
    /\ (\A i \in 0..window.k : ~HasNaN(window.target[i])) =>
      /\ \A i \in 0..(numSampled - 1) : sampled[i] = GreedyToken(i)
      /\ numSampled <= window.k => window.drafts[numSampled - 1] # GreedyToken(numSampled - 1)

\* A draft that is rejected is not sampled again at its position, and the token
\* that replaces it is one the target wants more than the drafter does.
CorrectionHasMass ==
  LET n == numSampled - 1
      x == sampled[n]
  IN  Finished /\ ~window.greedy /\ window.kind = "ratio"
        /\ (n < window.k => window.drafts[n] >= 0 /\ ~HasNaN(window.draft[n]))
        /\ ~HasNaN(window.target[n]) /\ (\E y \in Tokens(window) : window.target[n][y] > 0)
      => /\ window.target[n][x] > 0
         /\ n < window.k =>
              /\ x # window.drafts[n]
              /\ ~window.oneHot => FMonus(TargetProb(window, n, x), DraftProb(window, n, x))[1] > 0

===============================================================================
