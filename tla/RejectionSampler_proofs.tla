------------------------ MODULE RejectionSampler_proofs ------------------------
(***************************************************************************)
(* Proofs about RejectionSampler, for every vocabulary, block size and     *)
(* number of drafts: what is delivered lies in the vocabulary whatever NaN *)
(* the rows hold, the accepted tokens are the drafts, a greedy request     *)
(* gets the target's own tokens, and a corrected draft is replaced by a    *)
(* token of positive residual.  Then the laws, for every target and every  *)
(* drafter of any weights: what is sampled has the target's distribution.  *)
(***************************************************************************)
EXTENDS SamplerLaws, FiniteSetTheorems, WellFoundedInduction, TLAPS

-------------------------------------------------------------------------------
(* Blocks. *)

LEMMA Division ==
  ASSUME NEW y \in Nat, NEW size \in Nat \ {0}
  PROVE  /\ y \div size \in Nat /\ y % size \in 0..(size - 1)
         /\ y = (y \div size) * size + (y % size)
  OBVIOUS

\* The blocks cover the row and each starts inside it.
LEMMA CdivBlocks ==
  ASSUME NEW v \in Nat \ {0}, NEW size \in Nat \ {0}, size <= v
  PROVE  /\ Cdiv(v, size) \in 1..v
         /\ \A b \in Nat : b < Cdiv(v, size) <=> b * size < v
<1> DEFINE n == Cdiv(v, size)
           r == (v + size - 1) % size
<1>1. n \in Nat /\ r \in 0..(size - 1) /\ v + size - 1 = n * size + r
  BY Division, v + size - 1 \in Nat DEF Cdiv
<1>2. n >= 1
  <2> SUFFICES ASSUME n = 0 PROVE FALSE
    BY <1>1
  <2> QED
    BY <1>1
<1>3. \A b \in Nat : b < n => b * size < v
  <2> SUFFICES ASSUME NEW b \in Nat, b < n PROVE b * size < v
    OBVIOUS
  <2> HIDE DEF n, r
  <2>1. (n - 1) * size = n * size - size /\ n - 1 \in Nat
    BY <1>1, <1>2
  <2>2. b * size <= (n - 1) * size
    BY <1>1, <1>2
  <2> QED
    BY <1>1, <2>1, <2>2, n * size \in Nat, b * size \in Nat
<1>4. \A b \in Nat : b * size < v => b < n
  <2> SUFFICES ASSUME NEW b \in Nat, b >= n PROVE b * size >= v
    BY <1>1
  <2> HIDE DEF n, r
  <2>1. b * size >= n * size
    BY <1>1
  <2> QED
    BY <1>1, <2>1, n * size \in Nat, b * size \in Nat
<1>5. n <= v
  <2> SUFFICES ASSUME n > v PROVE FALSE
    BY <1>1
  <2>1. v * size < v
    BY <1>3, <1>1
  <2> QED
    BY <2>1
<1> QED
  BY <1>1, <1>2, <1>3, <1>4, <1>5

\* Weights, or NaN, for the first v tokens.
IsRow(row, v) == \A x \in 0..(v - 1) : row[x] \in Nat \cup {NaN}

LEMMA BlockType ==
  ASSUME NEW v \in Nat \ {0}, NEW size \in Nat \ {0}, NEW row, IsRow(row, v),
         NEW b \in Nat
  PROVE  Block(row, b, size, v) \in [0..(size - 1) -> Nat \cup {NaN}]
<1>1. ASSUME NEW i \in 0..(size - 1)
      PROVE  b * size + i \in Nat
  BY b * size \in Nat
<1> QED
  BY <1>1 DEF Block, IsRow

LEMMA BlockMaxesType ==
  ASSUME NEW v \in Nat \ {0}, NEW size \in Nat \ {0}, size <= v,
         NEW row, IsRow(row, v), NEW noisy \in BOOLEAN,
         PaddedBlocks(Cdiv(v, size)) \in Nat,
         NEW lane \in LocalArgmaxes(row, size, v, noisy)
  PROVE  /\ BlockMaxes(row, lane, size, v)
              \in [0..(PaddedBlocks(Cdiv(v, size)) - 1) -> Nat]
         /\ ~HasNaN(BlockMaxes(row, lane, size, v))
         /\ lane \in [0..(Cdiv(v, size) - 1) -> 0..(size - 1)]
<1>1. lane \in [0..(Cdiv(v, size) - 1) -> 0..(size - 1)]
  BY DEF LocalArgmaxes
<1>2. Cdiv(v, size) \in Nat
  BY CdivBlocks
<1>3. \A b \in Nat : b < Cdiv(v, size) => Guard(Block(row, b, size, v)[lane[b]]) \in Nat
  <2> SUFFICES ASSUME NEW b \in Nat, b < Cdiv(v, size)
               PROVE  Guard(Block(row, b, size, v)[lane[b]]) \in Nat
    OBVIOUS
  <2>1. lane[b] \in 0..(size - 1)
    BY <1>1, <1>2
  <2>2. Block(row, b, size, v)[lane[b]] \in Nat \cup {NaN}
    BY <2>1, BlockType
  <2> QED
    BY <2>2 DEF Guard
<1>4. BlockMaxes(row, lane, size, v) \in [0..(PaddedBlocks(Cdiv(v, size)) - 1) -> Nat]
  BY <1>3, <1>2 DEF BlockMaxes
<1> QED
  BY <1>1, <1>4 DEF HasNaN, NaN

\* What is loaded for the winning block is a token of the row: the padding only
\* wins when all is -inf, and then the first block, which is full, comes first.
LEMMA WinnerInVocab ==
  ASSUME NEW v \in Nat \ {0}, NEW size \in Nat \ {0}, size <= v,
         NEW row, IsRow(row, v), NEW noisy \in BOOLEAN,
         PaddedBlocks(Cdiv(v, size)) \in Nat,
         PaddedBlocks(Cdiv(v, size)) >= Cdiv(v, size),
         NEW lane \in LocalArgmaxes(row, size, v, noisy),
         NEW x \in GlobalArgmaxes(row, lane, size, v, noisy)
  PROVE  x \in 0..(v - 1)
<1> DEFINE n == Cdiv(v, size)
           p == PaddedBlocks(n)
           M == BlockMaxes(row, lane, size, v)
<1>1. n \in 1..v /\ \A b \in Nat : b < n <=> b * size < v
  BY CdivBlocks
<1>2. M \in [0..(p - 1) -> Nat] /\ ~HasNaN(M) /\ lane \in [0..(n - 1) -> 0..(size - 1)]
  BY BlockMaxesType
<1>3. PICK b \in ArgMax(M, noisy) : x = IF b < n THEN b * size + lane[b] ELSE Junk
  BY DEF GlobalArgmaxes
<1>4. b \in 0..(p - 1)
  BY <1>3, <1>2 DEF ArgMax
<1>5. CASE M[b] > 0
  <2>1. b < n /\ Guard(Block(row, b, size, v)[lane[b]]) > 0
    BY <1>4, <1>5, <1>1 DEF BlockMaxes
  <2>2. lane[b] \in 0..(size - 1) /\ b * size \in Nat
    BY <2>1, <1>2, <1>4, <1>1
  <2>3. b * size + lane[b] < v
    BY <2>1, <2>2 DEF Block, Guard, NaN
  <2> QED
    BY <1>3, <2>1, <2>2, <2>3
<1>6. CASE ~(M[b] > 0)
  <2>1. M[b] = 0
    BY <1>6, <1>2, <1>4
  <2>2. \A j \in DOMAIN M : M[j] < M[b] \/ (M[j] = M[b] /\ b <= j)
    BY <1>3, <1>2, <2>1 DEF ArgMax
  <2>3. 0 \in 0..(p - 1)
    BY <1>1
  <2>4. b = 0
    BY <2>1, <2>2, <2>3, <1>2, <1>4
  <2>5. lane[0] \in 0..(size - 1)
    BY <1>1, <1>2
  <2> QED
    BY <1>3, <2>4, <2>5, <1>1
<1> QED
  BY <1>5, <1>6

\* x is the first of the tokens of greatest weight.
IsFirstMax(row, v, x) ==
  x \in 0..(v - 1) /\ \A y \in 0..(v - 1) :
    row[y] < row[x] \/ (row[y] = row[x] /\ x <= y)

\* The argmax by blocks is the argmax of the row.
LEMMA BlockwiseArgmax ==
  ASSUME NEW v \in Nat \ {0}, NEW size \in Nat \ {0}, size <= v,
         NEW row, \A y \in 0..(v - 1) : row[y] \in Nat,
         PaddedBlocks(Cdiv(v, size)) \in Nat,
         PaddedBlocks(Cdiv(v, size)) >= Cdiv(v, size),
         NEW lane \in LocalArgmaxes(row, size, v, FALSE),
         NEW x \in GlobalArgmaxes(row, lane, size, v, FALSE)
  PROVE  IsFirstMax(row, v, x)
<1> DEFINE n == Cdiv(v, size)
           p == PaddedBlocks(n)
           M == BlockMaxes(row, lane, size, v)
           B(b) == Block(row, b, size, v)
<1>0. IsRow(row, v)
  BY DEF IsRow
<1>1. n \in 1..v /\ \A b \in Nat : b < n <=> b * size < v
  BY CdivBlocks
<1>2. M \in [0..(p - 1) -> Nat] /\ ~HasNaN(M) /\ lane \in [0..(n - 1) -> 0..(size - 1)]
  BY BlockMaxesType, <1>0
<1>3. x \in 0..(v - 1)
  BY WinnerInVocab, <1>0
<1>4. PICK b \in ArgMax(M, FALSE) : x = IF b < n THEN b * size + lane[b] ELSE Junk
  BY DEF GlobalArgmaxes
<1>5. b \in 0..(n - 1) /\ x = b * size + lane[b]
  BY <1>3, <1>4, <1>2, <1>1 DEF ArgMax, Junk
<1>6. \A j \in 0..(p - 1) : M[j] < M[b] \/ (M[j] = M[b] /\ b <= j)
  BY <1>4, <1>2 DEF ArgMax
<1>7. \A c \in 0..(n - 1) :
        /\ B(c) \in [0..(size - 1) -> Nat]
        /\ \A j \in 0..(size - 1) : B(c)[j] < B(c)[lane[c]]
                                    \/ (B(c)[j] = B(c)[lane[c]] /\ lane[c] <= j)
        /\ M[c] = B(c)[lane[c]]
  <2> SUFFICES ASSUME NEW c \in 0..(n - 1)
               PROVE  /\ B(c) \in [0..(size - 1) -> Nat]
                      /\ \A j \in 0..(size - 1) : B(c)[j] < B(c)[lane[c]]
                                    \/ (B(c)[j] = B(c)[lane[c]] /\ lane[c] <= j)
                      /\ M[c] = B(c)[lane[c]]
    OBVIOUS
  <2>1. \A i \in 0..(size - 1) : c * size + i \in Nat
    BY c * size \in Nat
  <2>2. B(c) \in [0..(size - 1) -> Nat]
    BY <2>1 DEF Block
  <2>3. ~HasNaN(B(c))
    BY <2>2 DEF HasNaN, NaN
  <2>4. lane[c] \in ArgMax(B(c), FALSE)
    BY DEF LocalArgmaxes
  <2>5. M[c] = Guard(B(c)[lane[c]])
    BY <1>1 DEF BlockMaxes
  <2>6. lane[c] \in 0..(size - 1)
    BY <1>2
  <2>7. Guard(B(c)[lane[c]]) = B(c)[lane[c]]
    BY <2>2, <2>6 DEF Guard, NaN
  <2> HIDE DEF B
  <2> QED
    BY <2>2, <2>3, <2>4, <2>5, <2>7 DEF ArgMax
<1>8. row[x] = M[b]
  <2>1. B(b)[lane[b]] = row[b * size + lane[b]]
    BY <1>5, <1>3, <1>2 DEF Block
  <2> QED
    BY <2>1, <1>5, <1>7
<1>9. ASSUME NEW y \in 0..(v - 1)
      PROVE  row[y] < row[x] \/ (row[y] = row[x] /\ x <= y)
  <2>1. PICK c \in Nat, j \in 0..(size - 1) : y = c * size + j
    BY Division, y \in Nat
  <2>2. c * size <= y /\ c * size \in Nat
    BY <2>1
  <2>3. c \in 0..(n - 1)
    BY <2>1, <2>2, <1>1
  <2>4. B(c)[j] = row[y]
    BY <2>1, c * size + j < v DEF Block
  <2>5. row[y] < M[c] \/ (row[y] = M[c] /\ lane[c] <= j)
    <3>1. B(c)[j] < B(c)[lane[c]] \/ (B(c)[j] = B(c)[lane[c]] /\ lane[c] <= j)
      BY <2>1, <2>3, <1>7
    <3>2. M[c] = B(c)[lane[c]]
      BY <2>3, <1>7
    <3> QED
      BY <3>1, <3>2, <2>4, Zenon
  <2>6. M[c] < M[b] \/ (M[c] = M[b] /\ b <= c)
    BY <2>3, <1>6, <1>1
  <2>7. M[c] \in Nat /\ M[b] \in Nat /\ row[y] \in Nat
    BY <2>3, <1>5, <1>2, <1>1
  <2>8. lane[b] \in 0..(size - 1) /\ lane[c] \in 0..(size - 1)
    BY <1>2, <1>5, <2>3
  <2> HIDE DEF M, n, p
  <2>9. CASE b = c
    BY <2>9, <2>5, <2>7, <1>8, <1>5, <2>1, <2>2, <2>8
  <2>10. CASE b < c
    <3>1. b * size + size <= c * size
      <4>1. (b + 1) * size <= c * size
        BY <2>10, <2>1, <1>5, <2>3
      <4> QED
        BY <4>1, <1>5
    <3>2. x <= y
      BY <3>1, <2>1, <1>5, <2>8, <2>2, b * size \in Nat
    <3> QED
      BY <3>2, <2>5, <2>6, <2>7, <1>8
  <2>11. CASE c < b
    BY <2>11, <2>5, <2>6, <2>7, <1>8, <1>5, <2>3
  <2> QED
    BY <2>9, <2>10, <2>11, <1>5, <2>3
<1> QED
  BY <1>3, <1>9 DEF IsFirstMax

-------------------------------------------------------------------------------
(* The inductive invariant. *)

\* What every window looks like.
WindowOK(w) ==
  /\ w.k \in 0..NumSpec
  /\ w.oneHot \in BOOLEAN /\ w.greedy \in BOOLEAN
  /\ w.drafts \in [0..(w.k - 1) -> -1..((IF TargetVocab <= DraftVocab
                                         THEN TargetVocab ELSE DraftVocab) - 1)]
  /\ w.target \in [0..w.k -> TargetRows]
  /\ w.draft \in [0..(w.k - 1) -> DraftRows]
  /\ Admissible(w)

V == VocabSize(window)

\* The first n cells hold the first n drafts, none of them padding.
Drafted(n) ==
  \A i \in 0..(n - 1) : sampled[i] = window.drafts[i] /\ sampled[i] \in 0..(V - 1)

\* Greedy verification without chance or NaN.
Plain ==
  /\ window.greedy /\ window.kind # "synthetic"
  /\ \A i \in 0..window.k : ~HasNaN(window.target[i])

Follows(i) == IsFirstMax(window.target[i], V, sampled[i])

Verified ==
  /\ numSampled \in 0..window.k
  /\ Drafted(numSampled)
  /\ window.greedy /\ numSampled < window.k => sampled[numSampled] \in 0..(V - 1)
  /\ Plain => /\ \A i \in 0..(numSampled - 1) : Follows(i)
              /\ numSampled < window.k =>
                   Follows(numSampled) /\ sampled[numSampled] # window.drafts[numSampled]

Resampled ==
  NeedsToken => local \in LocalArgmaxes(Residual(window, numSampled), ResampleBlock,
                                        V, ~window.greedy)

Inserted ==
  /\ numSampled \in 1..(window.k + 1)
  /\ Drafted(numSampled - 1)
  /\ sampled[numSampled - 1] \in 0..(V - 1)
  /\ Plain => /\ \A i \in 0..(numSampled - 1) : Follows(i)
              /\ numSampled <= window.k =>
                   sampled[numSampled - 1] # window.drafts[numSampled - 1]

IInv ==
  /\ WindowOK(window)
  /\ TypeOK
  /\ phase = "verify" => numSampled = 0
  /\ phase \in {"resample", "insert"} => Verified
  /\ phase = "insert" => Resampled
  /\ Finished => Inserted

-------------------------------------------------------------------------------
(* Windows. *)

LEMMA VocabType ==
  ASSUME NEW w, WindowOK(w)
  PROVE  /\ VocabSize(w) \in Nat \ {0}
         /\ VocabSize(w) <= TargetVocab
         /\ VocabBlock <= VocabSize(w) /\ ResampleBlock <= VocabSize(w)
         /\ \A i \in 0..(w.k - 1) : w.drafts[i] \in -1..(VocabSize(w) - 1)
         /\ \A size \in {VocabBlock, ResampleBlock} :
              /\ size \in Nat \ {0}
              /\ PaddedBlocks(Cdiv(VocabSize(w), size)) \in Nat
              /\ PaddedBlocks(Cdiv(VocabSize(w), size)) >= Cdiv(VocabSize(w), size)
<1>1. /\ VocabSize(w) \in Nat \ {0}
      /\ VocabSize(w) <= TargetVocab
      /\ VocabBlock <= VocabSize(w) /\ ResampleBlock <= VocabSize(w)
  BY SamplerAssumption DEF VocabSize
<1>2. \A i \in 0..(w.k - 1) : w.drafts[i] \in -1..(VocabSize(w) - 1)
  BY SamplerAssumption DEF VocabSize, WindowOK
<1>3. ASSUME NEW size \in {VocabBlock, ResampleBlock}
      PROVE  /\ size \in Nat \ {0}
             /\ PaddedBlocks(Cdiv(VocabSize(w), size)) \in Nat
             /\ PaddedBlocks(Cdiv(VocabSize(w), size)) >= Cdiv(VocabSize(w), size)
  <2>1. size \in Nat \ {0} /\ size <= VocabSize(w)
    BY <1>1, SamplerAssumption
  <2>2. Cdiv(VocabSize(w), size) \in 1..VocabSize(w)
    BY <1>1, <2>1, CdivBlocks
  <2>3. Cdiv(VocabSize(w), size) \in 1..TargetVocab
    BY <1>1, <2>2, SamplerAssumption
  <2> QED
    BY <2>1, <2>3, SamplerAssumption
<1> QED
  BY <1>1, <1>2, <1>3

LEMMA TargetIsRow ==
  ASSUME NEW w, WindowOK(w), NEW i \in 0..w.k
  PROVE  IsRow(w.target[i], VocabSize(w))
<1>1. w.target[i] \in [0..(TargetVocab - 1) -> Nat \cup {NaN}]
  BY SamplerAssumption DEF WindowOK
<1>2. VocabSize(w) <= TargetVocab /\ VocabSize(w) \in Nat /\ TargetVocab \in Nat
  BY VocabType, SamplerAssumption
<1> QED
  BY <1>1, <1>2 DEF IsRow

\* A residual is a row: the positive part of a difference, or a part of the
\* target's own.
LEMMA ResidualIsRow ==
  ASSUME NEW w, WindowOK(w), NEW n \in 0..w.k
  PROVE  IsRow(Residual(w, n), VocabSize(w))
<1>1. IsRow(w.target[n], VocabSize(w))
  BY TargetIsRow
<1>2. w.target[n] \in [0..(TargetVocab - 1) -> Nat \cup {NaN}]
  BY SamplerAssumption DEF WindowOK
<1>3. \A x \in 0..(VocabSize(w) - 1) : x \in 0..(TargetVocab - 1)
  BY VocabType, SamplerAssumption
<1>4. CASE n = w.k
  BY <1>1, <1>4 DEF Residual
<1>5. CASE n # w.k /\ w.oneHot
  BY <1>1, <1>2, <1>3, <1>5 DEF Residual, IsRow
<1>6. CASE n # w.k /\ ~w.oneHot /\ (HasNaN(w.target[n]) \/ HasNaN(w.draft[n]))
  BY <1>2, <1>3, <1>6 DEF Residual, IsRow
<1>7. CASE n # w.k /\ ~w.oneHot /\ ~(HasNaN(w.target[n]) \/ HasNaN(w.draft[n]))
  <2> DEFINE t == Tau(w, n)
             a == Total(w, w.target[n])
             q == Total(w, w.draft[n])
             r(x) == t[1] * w.target[n][x] * q - t[2] * w.draft[n][x] * a
  <2>1. Residual(w, n) = [x \in Tokens(w) |-> IF r(x) \in Nat THEN r(x) ELSE 0]
    BY <1>7 DEF Residual
  <2> HIDE DEF r
  <2> QED
    BY <2>1 DEF IsRow, Tokens
<1> QED
  BY <1>4, <1>5, <1>6, <1>7

LEMMA TargetArgmaxInVocab ==
  ASSUME NEW w, WindowOK(w), NEW i \in 0..w.k, NEW x \in TargetArgmaxes(w, i)
  PROVE  /\ x \in 0..(VocabSize(w) - 1)
         /\ ~HasNaN(w.target[i]) => IsFirstMax(w.target[i], VocabSize(w), x)
<1>1. IsRow(w.target[i], VocabSize(w))
  BY TargetIsRow
<1>2. PICK lane \in LocalArgmaxes(w.target[i], VocabBlock, VocabSize(w), FALSE) :
        x \in GlobalArgmaxes(w.target[i], lane, VocabBlock, VocabSize(w), FALSE)
  BY DEF TargetArgmaxes
<1>3. /\ VocabSize(w) \in Nat \ {0} /\ VocabBlock \in Nat \ {0}
      /\ VocabBlock <= VocabSize(w)
      /\ PaddedBlocks(Cdiv(VocabSize(w), VocabBlock)) \in Nat
      /\ PaddedBlocks(Cdiv(VocabSize(w), VocabBlock)) >= Cdiv(VocabSize(w), VocabBlock)
  BY VocabType
<1>4. x \in 0..(VocabSize(w) - 1)
  BY <1>1, <1>2, <1>3, WinnerInVocab
<1>5. ASSUME ~HasNaN(w.target[i])
      PROVE  IsFirstMax(w.target[i], VocabSize(w), x)
  <2>1. \A y \in 0..(VocabSize(w) - 1) : w.target[i][y] \in Nat
    <3>1. w.target[i] \in [0..(TargetVocab - 1) -> Nat \cup {NaN}]
      BY SamplerAssumption DEF WindowOK
    <3>2. VocabSize(w) <= TargetVocab /\ TargetVocab \in Nat
      BY VocabType, SamplerAssumption
    <3> QED
      BY <3>1, <3>2, <1>3, <1>5 DEF HasNaN
  <2> QED
    BY <2>1, <1>2, <1>3, BlockwiseArgmax
<1> QED
  BY <1>4, <1>5

LEMMA ResampledInVocab ==
  ASSUME NEW w, WindowOK(w), NEW n \in 0..w.k, NEW noisy \in BOOLEAN,
         NEW lane \in LocalArgmaxes(Residual(w, n), ResampleBlock, VocabSize(w), noisy),
         NEW x \in GlobalArgmaxes(Residual(w, n), lane, ResampleBlock, VocabSize(w), noisy)
  PROVE  /\ x \in 0..(VocabSize(w) - 1)
         /\ n = w.k /\ ~noisy /\ ~HasNaN(w.target[n])
              => IsFirstMax(w.target[n], VocabSize(w), x)
<1>1. IsRow(Residual(w, n), VocabSize(w))
  BY ResidualIsRow
<1>2. /\ VocabSize(w) \in Nat \ {0} /\ ResampleBlock \in Nat \ {0}
      /\ ResampleBlock <= VocabSize(w)
      /\ PaddedBlocks(Cdiv(VocabSize(w), ResampleBlock)) \in Nat
      /\ PaddedBlocks(Cdiv(VocabSize(w), ResampleBlock)) >= Cdiv(VocabSize(w), ResampleBlock)
  BY VocabType
<1>3. x \in 0..(VocabSize(w) - 1)
  BY <1>1, <1>2, WinnerInVocab
<1>4. ASSUME n = w.k, noisy = FALSE, ~HasNaN(w.target[n])
      PROVE  IsFirstMax(w.target[n], VocabSize(w), x)
  <2>1. Residual(w, n) = w.target[n]
    BY <1>4 DEF Residual
  <2>2. \A y \in 0..(VocabSize(w) - 1) : w.target[n][y] \in Nat
    <3>1. w.target[n] \in [0..(TargetVocab - 1) -> Nat \cup {NaN}]
      BY SamplerAssumption DEF WindowOK
    <3>2. VocabSize(w) <= TargetVocab /\ TargetVocab \in Nat
      BY VocabType, SamplerAssumption
    <3> QED
      BY <3>1, <3>2, <1>2, <1>4 DEF HasNaN
  <2> QED
    BY <2>1, <2>2, <1>2, <1>4, BlockwiseArgmax
<1> QED
  BY <1>3, <1>4

-------------------------------------------------------------------------------
(* Steps. *)

LEMMA MaxOfPair ==
  ASSUME NEW i \in Int, NEW j \in Int
  PROVE  Max({i, j}) = IF i >= j THEN i ELSE j
BY DEF Max

LEMMA InitInv == Init => IInv
<1> SUFFICES ASSUME Init PROVE IInv
  OBVIOUS
<1>1. PICK m \in Methods, k \in 0..NumSpec : window \in Windows(m, k)
  BY DEF Init
<1>2. WindowOK(window)
  <2>1. m.oneHot \in BOOLEAN /\ m.greedy \in BOOLEAN
    BY SamplerAssumption
  <2>2. PICK d \in [0..(k - 1) -> -1..((IF TargetVocab <= DraftVocab
                                        THEN TargetVocab ELSE DraftVocab) - 1)],
             t \in [0..k -> TargetRows], q \in [0..(k - 1) -> DraftRows] :
          window = [kind |-> m.kind, oneHot |-> m.oneHot, greedy |-> m.greedy,
                    k |-> k, drafts |-> d, target |-> t, draft |-> q]
    BY <1>1 DEF Windows
  <2>3. /\ window.k = k /\ window.oneHot = m.oneHot /\ window.greedy = m.greedy
        /\ window.drafts = d /\ window.target = t /\ window.draft = q
    BY <2>2
  <2> QED
    BY <2>1, <2>3 DEF WindowOK, Init
<1>3. TypeOK
  BY <1>2, SamplerAssumption DEF Init, TypeOK, WindowOK, Junk
<1> QED
  BY <1>2, <1>3 DEF Init, IInv, Finished

\* What RejectGreedy, RejectRatio and their Store establish.
LEMMA StoreInv ==
  ASSUME IInv, NEW n \in 0..window.k, NEW x \in Int, Store(n, x),
         \A i \in 0..(n - 1) : window.drafts[i] \in 0..(V - 1),
         window.greedy /\ n < window.k => x \in 0..(V - 1),
         Plain => /\ \A i \in 0..(n - 1) :
                       IsFirstMax(window.target[i], V, window.drafts[i])
                  /\ n < window.k => /\ IsFirstMax(window.target[n], V, x)
                                     /\ x # window.drafts[n]
  PROVE  IInv'
<1>1. /\ window' = window /\ phase' = "resample" /\ numSampled' = n
      /\ window.k \in 0..NumSpec /\ NumSpec \in Nat
  BY SamplerAssumption DEF Store, IInv, WindowOK
<1>2. sampled' \in [0..NumSpec -> Int]
  <2>1. \A i \in 0..NumSpec : i < n => window.drafts[i] \in Int
    BY VocabType DEF V, IInv
  <2> QED
    BY <2>1 DEF Store, IInv, TypeOK
<1>3. \A i \in 0..(n - 1) : sampled'[i] = window.drafts[i]
  BY <1>1 DEF Store
<1>4. n < window.k => sampled'[n] = x
  BY <1>1 DEF Store
<1>5. TypeOK'
  BY <1>1, <1>2 DEF TypeOK, IInv
<1>6. WindowOK(window)'
  BY <1>1 DEF IInv, WindowOK, Admissible
<1>7. V' = V
  BY <1>1 DEF V, VocabSize
<1>8. Verified'
  <2>1. Drafted(numSampled)'
    BY <1>1, <1>3, <1>7 DEF Drafted
  <2>2. Plain' = Plain
    BY <1>1 DEF Plain
  <2>3. Plain => \A i \in 0..(n - 1) : IsFirstMax(window'.target[i], V', sampled'[i])
    BY <1>1, <1>3, <1>7
  <2>4. Plain /\ n < window.k =>
          IsFirstMax(window'.target[n], V', sampled'[n]) /\ sampled'[n] # window'.drafts[n]
    BY <1>1, <1>4, <1>7
  <2> QED
    BY <1>1, <1>4, <1>7, <2>1, <2>2, <2>3, <2>4 DEF Verified, Follows
<1> QED
  BY <1>1, <1>5, <1>6, <1>8 DEF IInv, Finished

LEMMA NextInv == IInv /\ [Next]_vars => IInv'
<1> SUFFICES ASSUME IInv, [Next]_vars PROVE IInv'
  OBVIOUS
<1> USE SamplerAssumption
<1>0. /\ WindowOK(window) /\ window.k \in 0..NumSpec /\ V \in Nat \ {0}
      /\ window.greedy \in BOOLEAN /\ TypeOK
      /\ \A i \in 0..(window.k - 1) : window.drafts[i] \in -1..(V - 1)
  BY VocabType DEF IInv, WindowOK, V
<1>1. CASE RejectGreedy
  <2>1. PICK n \in 0..window.k :
          \E x \in IF n < window.k THEN TargetArgmaxes(window, n) ELSE {Junk} :
            /\ IF window.kind = "synthetic"
               THEN /\ \A i \in 0..(n - 1) : window.drafts[i] >= 0
                          /\ \E u \in Uniform : BelowRate(u, i)
                    /\ n < window.k => window.drafts[n] < 0
                          \/ \E u \in Uniform : ~BelowRate(u, n)
               ELSE /\ \A i \in 0..(n - 1) :
                         window.drafts[i] \in TargetArgmaxes(window, i)
                    /\ n < window.k => x # window.drafts[n]
            /\ Store(n, x)
    BY <1>1 DEF RejectGreedy
  <2>2. PICK x \in IF n < window.k THEN TargetArgmaxes(window, n) ELSE {Junk} :
            /\ IF window.kind = "synthetic"
               THEN /\ \A i \in 0..(n - 1) : window.drafts[i] >= 0
                          /\ \E u \in Uniform : BelowRate(u, i)
                    /\ n < window.k => window.drafts[n] < 0
                          \/ \E u \in Uniform : ~BelowRate(u, n)
               ELSE /\ \A i \in 0..(n - 1) :
                         window.drafts[i] \in TargetArgmaxes(window, i)
                    /\ n < window.k => x # window.drafts[n]
            /\ Store(n, x)
    BY <2>1
  <2>3. n < window.k =>
          /\ x \in 0..(V - 1)
          /\ ~HasNaN(window.target[n]) => IsFirstMax(window.target[n], V, x)
    BY <1>0, <2>2, TargetArgmaxInVocab DEF V
  <2>4. x \in Int
    BY <2>2, <2>3 DEF Junk
  <2>5. \A i \in 0..(n - 1) :
          /\ window.drafts[i] \in 0..(V - 1)
          /\ window.kind # "synthetic" /\ ~HasNaN(window.target[i]) =>
               IsFirstMax(window.target[i], V, window.drafts[i])
    <3> SUFFICES ASSUME NEW i \in 0..(n - 1)
                 PROVE  /\ window.drafts[i] \in 0..(V - 1)
                        /\ window.kind # "synthetic" /\ ~HasNaN(window.target[i]) =>
                             IsFirstMax(window.target[i], V, window.drafts[i])
      OBVIOUS
    <3>1. CASE window.kind = "synthetic"
      BY <3>1, <2>2, <1>0
    <3>2. CASE window.kind # "synthetic"
      <4>1. window.drafts[i] \in TargetArgmaxes(window, i) /\ i \in 0..window.k
        BY <3>2, <2>2, <1>0
      <4> QED
        BY <4>1, <1>0, TargetArgmaxInVocab DEF V
    <3> QED
      BY <3>1, <3>2
  <2>6. Plain => /\ \A i \in 0..(n - 1) :
                       IsFirstMax(window.target[i], V, window.drafts[i])
                 /\ n < window.k => /\ IsFirstMax(window.target[n], V, x)
                                    /\ x # window.drafts[n]
    <3> SUFFICES ASSUME Plain
                 PROVE  /\ \A i \in 0..(n - 1) :
                             IsFirstMax(window.target[i], V, window.drafts[i])
                        /\ n < window.k => /\ IsFirstMax(window.target[n], V, x)
                                           /\ x # window.drafts[n]
      OBVIOUS
    <3>1. /\ window.kind # "synthetic" /\ ~HasNaN(window.target[n])
          /\ \A i \in 0..(n - 1) : ~HasNaN(window.target[i])
      BY <1>0 DEF Plain
    <3> QED
      BY <3>1, <2>2, <2>3, <2>5
  <2> QED
    BY <2>2, <2>3, <2>4, <2>5, <2>6, StoreInv
<1>2. CASE RejectRatio
  <2>1. PICK n \in 0..window.k :
       /\ IF window.kind = "synthetic"
          THEN /\ \A i \in 0..(n - 1) : window.drafts[i] >= 0
                     /\ \E u \in Uniform : BelowRate(u, i)
               /\ n < window.k => window.drafts[n] < 0
                     \/ \E u \in Uniform : ~BelowRate(u, n)
          ELSE /\ \A i \in 0..(n - 1) : MayAccept(i, RatioTest, TRUE)
               /\ n < window.k => MayAccept(n, RatioTest, FALSE)
       /\ Store(n, IF n < window.k THEN Max({0, window.drafts[n]}) ELSE Junk)
    BY <1>2 DEF RejectRatio
  <2>2. \A i \in 0..(n - 1) : window.drafts[i] >= 0
    <3>1. CASE window.kind = "synthetic"
      BY <3>1, <2>1
    <3>2. CASE window.kind # "synthetic"
      <4>1. \A i \in 0..(n - 1) : \E u \in Uniform : RatioTest(window, i, u) = TRUE
        BY <3>2, <2>1 DEF MayAccept
      <4>2. ASSUME NEW i, NEW u, RatioTest(window, i, u) PROVE window.drafts[i] >= 0
        BY <4>2 DEF RatioTest
      <4> QED
        BY <4>1, <4>2
    <3> QED
      BY <3>1, <3>2
  <2>3. \A i \in 0..(n - 1) : window.drafts[i] \in 0..(V - 1)
    BY <2>2, <1>0
  <2>4. (IF n < window.k THEN Max({0, window.drafts[n]}) ELSE Junk) \in Int
    <3>1. CASE n < window.k
      <4>1. window.drafts[n] \in Int
        BY <3>1, <1>0
      <4>2. Max({0, window.drafts[n]}) =
              IF 0 >= window.drafts[n] THEN 0 ELSE window.drafts[n]
        BY <4>1, MaxOfPair
      <4> QED
        BY <3>1, <4>1, <4>2
    <3>2. CASE ~(n < window.k)
      BY <3>2 DEF Junk
    <3> QED
      BY <3>1, <3>2
  <2>5. ~window.greedy /\ ~Plain
    BY <1>2 DEF RejectRatio, Plain
  <2> QED
    BY <2>1, <2>3, <2>4, <2>5, StoreInv
<1>3. CASE RejectBlock
  <2>1. /\ numSampled' \in 0..window.k /\ window' = window /\ phase' = "resample"
        /\ ~window.greedy /\ window.kind = "block"
        /\ sampled' = [i \in 0..NumSpec |->
                         IF i < window.k THEN window.drafts[i] ELSE sampled[i]]
    BY <1>3 DEF RejectBlock
  <2>2. \A i \in 0..(window.k - 1) : window.drafts[i] \in 0..(V - 1)
    BY <2>1, <1>0 DEF WindowOK, Admissible
  <2>3. V' = V
    BY <2>1 DEF V
  <2>4. sampled' \in [0..NumSpec -> Int]
    BY <2>1, <2>2, <1>0 DEF TypeOK
  <2>5. TypeOK'
    BY <2>1, <2>4, <1>0 DEF TypeOK
  <2>6. WindowOK(window)'
    BY <2>1, <1>0 DEF WindowOK, Admissible
  <2>7. Drafted(numSampled)'
    <3>1. PICK m \in 0..window.k : numSampled' = m
      BY <2>1
    <3>2. \A i \in 0..(m - 1) : i < window.k /\ i \in 0..(window.k - 1) /\ i \in 0..NumSpec
      BY <1>0
    <3>3. \A i \in 0..(m - 1) : sampled'[i] = window.drafts[i]
      BY <3>2, <2>1
    <3>4. \A i \in 0..(m - 1) : sampled'[i] = window'.drafts[i] /\ sampled'[i] \in 0..(V' - 1)
      BY <3>2, <3>3, <2>1, <2>2, <2>3
    <3> QED
      BY <3>1, <3>4 DEF Drafted
  <2>8. Verified'
    BY <2>1, <2>7 DEF Verified, Plain
  <2> QED
    BY <2>1, <2>5, <2>6, <2>8 DEF IInv, Finished
<1>4. CASE Resample
  <2>1. /\ window' = window /\ phase' = "insert" /\ sampled' = sampled
        /\ numSampled' = numSampled /\ Verified
    BY <1>4 DEF Resample, IInv
  <2>2. WindowOK(window)' /\ TypeOK' /\ Verified'
    <3>1. V' = V
      BY <2>1 DEF V
    <3> QED
      BY <2>1, <1>0, <3>1 DEF WindowOK, Admissible, TypeOK, Verified, Drafted, Plain, Follows
  <2>3. Resampled'
    BY <1>4, <2>1 DEF Resample, Resampled, NeedsToken, V
  <2> QED
    BY <2>1, <2>2, <2>3 DEF IInv, Finished
<1>5. CASE InsertResampled
  <2> DEFINE n == numSampled
  <2>1. /\ window' = window /\ phase' = "clamp" /\ numSampled' = n + 1
        /\ Verified /\ Resampled /\ n \in 0..window.k
    BY <1>5 DEF InsertResampled, IInv, Verified
  <2>2. V' = V /\ (Plain' <=> Plain)
    BY <2>1 DEF V, Plain
  <2>3. /\ sampled' \in [0..NumSpec -> Int]
        /\ \A i \in 0..(n - 1) : sampled'[i] = sampled[i]
        /\ sampled'[n] \in 0..(V - 1)
        /\ Plain => IsFirstMax(window.target[n], V, sampled'[n])
        /\ Plain /\ n < window.k => sampled'[n] # window.drafts[n]
    <3>1. CASE NeedsToken
      <4>1. PICK x \in GlobalArgmaxes(Residual(window, n), local, ResampleBlock,
                                      VocabSize(window), ~window.greedy) :
              sampled' = [sampled EXCEPT ![n] = x]
        BY <1>5, <3>1 DEF InsertResampled
      <4>2. local \in LocalArgmaxes(Residual(window, n), ResampleBlock,
                                    VocabSize(window), ~window.greedy)
        BY <2>1, <3>1 DEF Resampled, V
      <4>3. (~window.greedy) \in BOOLEAN
        BY <1>0
      <4>4. /\ x \in 0..(V - 1)
            /\ n = window.k /\ window.greedy /\ ~HasNaN(window.target[n])
                 => IsFirstMax(window.target[n], V, x)
        BY <1>0, <2>1, <4>1, <4>2, <4>3, ResampledInVocab DEF V
      <4>5. Plain => n = window.k /\ window.greedy /\ ~HasNaN(window.target[n])
        BY <3>1, <2>1 DEF Plain, NeedsToken
      <4>6. sampled'[n] = x /\ (\A i \in 0..(n - 1) : sampled'[i] = sampled[i])
            /\ sampled' \in [0..NumSpec -> Int]
        BY <4>1, <4>4, <1>0, <2>1 DEF TypeOK
      <4> QED
        BY <4>4, <4>5, <4>6, <2>1
    <3>2. CASE ~NeedsToken
      <4>1. sampled' = sampled /\ window.greedy /\ n # window.k
        BY <1>5, <3>2 DEF InsertResampled, NeedsToken
      <4> QED
        BY <4>1, <2>1, <1>0 DEF Verified, TypeOK, Follows
    <3> QED
      BY <3>1, <3>2
  <2>4. WindowOK(window)' /\ TypeOK'
    <3>1. WindowOK(window)'
      BY <2>1, <1>0 DEF WindowOK, Admissible
    <3>2. numSampled' \in 0..(window'.k + 1) /\ window'.k \in 0..NumSpec
      <4>1. window'.k = window.k /\ window.k \in 0..NumSpec
        BY <2>1, <1>0
      <4>2. n \in 0..window.k /\ numSampled' = n + 1
        BY <2>1
      <4> QED
        BY <4>1, <4>2
    <3>3. phase' = "clamp" /\ sampled' \in [0..NumSpec -> Int]
      BY <2>1, <2>3
    <3> QED
      BY <3>1, <3>2, <3>3 DEF TypeOK
  <2>5. Inserted'
    <3>1. numSampled' - 1 = n /\ numSampled' \in 1..(window'.k + 1)
      <4>1. window'.k = window.k /\ window.k \in 0..NumSpec
        BY <2>1, <1>0
      <4>2. n \in 0..window.k /\ numSampled' = n + 1
        BY <2>1
      <4> QED
        BY <4>1, <4>2
    <3>2. Drafted(numSampled - 1)'
      BY <2>1, <2>2, <2>3, <3>1 DEF Drafted, Verified
    <3>3. Plain => \A i \in 0..n : IsFirstMax(window'.target[i], V', sampled'[i])
      BY <2>1, <2>2, <2>3 DEF Verified, Follows
    <3> QED
      BY <2>1, <2>2, <2>3, <3>1, <3>2, <3>3, <1>0 DEF Inserted, Follows
  <2> QED
    BY <2>1, <2>4, <2>5 DEF IInv, Finished
<1>6. CASE Clamp
  <2>1. /\ window' = window /\ phase' = "done" /\ numSampled' = numSampled
        /\ Inserted
        /\ sampled' = [i \in 0..NumSpec |->
             Max({0, IF sampled[i] < TargetVocab THEN sampled[i] ELSE TargetVocab - 1})]
    BY <1>6 DEF Clamp, IInv, Finished
  <2>2. V' = V /\ V <= TargetVocab /\ (Plain' <=> Plain)
    BY <2>1, <1>0, VocabType DEF V, Plain
  <2>3. \A i \in 0..NumSpec :
          /\ sampled'[i] \in Int
          /\ sampled[i] \in 0..(V - 1) => sampled'[i] = sampled[i]
    <3> SUFFICES ASSUME NEW i \in 0..NumSpec
                 PROVE  /\ sampled'[i] \in Int
                        /\ sampled[i] \in 0..(V - 1) => sampled'[i] = sampled[i]
      OBVIOUS
    <3>1. sampled[i] \in Int
      BY <1>0 DEF TypeOK
    <3> DEFINE y == IF sampled[i] < TargetVocab THEN sampled[i] ELSE TargetVocab - 1
    <3>2. y \in Int /\ sampled'[i] = IF 0 >= y THEN 0 ELSE y
      BY <2>1, <3>1, MaxOfPair
    <3> QED
      BY <3>1, <3>2, <2>2, <1>0
  <2>4. WindowOK(window)' /\ TypeOK'
    BY <2>1, <2>3, <1>0 DEF WindowOK, Admissible, TypeOK
  <2>5. \A i \in 0..(numSampled - 1) : i \in 0..NumSpec /\ sampled[i] \in 0..(V - 1)
                                       /\ sampled'[i] = sampled[i]
    <3> SUFFICES ASSUME NEW i \in 0..(numSampled - 1)
                 PROVE  i \in 0..NumSpec /\ sampled[i] \in 0..(V - 1)
                        /\ sampled'[i] = sampled[i]
      OBVIOUS
    <3>1. numSampled \in 1..(window.k + 1)
      BY <2>1 DEF Inserted
    <3>2. i \in 0..NumSpec
      BY <3>1, <1>0
    <3>3. i = numSampled - 1 \/ i \in 0..(numSampled - 1 - 1)
      BY <3>1, <1>0
    <3>4. sampled[i] \in 0..(V - 1)
      BY <3>3, <2>1 DEF Inserted, Drafted
    <3> QED
      BY <3>2, <3>4, <2>3
  <2>6. Inserted'
    <3>1. numSampled \in 1..(window.k + 1)
      BY <2>1 DEF Inserted
    <3>2. /\ numSampled - 1 \in 0..(numSampled - 1)
          /\ \A i \in 0..(numSampled - 1 - 1) : i \in 0..(numSampled - 1)
      BY <3>1, <1>0
    <3>3. Drafted(numSampled - 1)'
      BY <2>1, <2>2, <2>5, <3>2 DEF Inserted, Drafted
    <3>4. sampled'[numSampled - 1] = sampled[numSampled - 1]
      BY <2>5, <3>2
    <3>5. Plain => \A i \in 0..(numSampled - 1) : IsFirstMax(window'.target[i], V', sampled'[i])
      BY <2>1, <2>2, <2>5 DEF Inserted, Follows
    <3> QED
      BY <2>1, <2>2, <3>1, <3>3, <3>4, <3>5 DEF Inserted, Follows
  <2> QED
    BY <2>1, <2>4, <2>6 DEF IInv, Finished
<1>7. CASE Done \/ UNCHANGED vars
  <2>1. UNCHANGED vars
    BY <1>7 DEF Done
  <2> QED
    BY <2>1 DEF vars, IInv, WindowOK, Admissible, TypeOK, Verified, Drafted, Plain,
                Follows, V, Resampled, NeedsToken, Inserted, Finished
<1> QED
  BY <1>1, <1>2, <1>3, <1>4, <1>5, <1>6, <1>7 DEF Next

\* The inductive invariant holds in every reachable state.
THEOREM Invariance == Spec => []IInv
BY InitInv, NextInv, PTL DEF Spec

\* Every variable keeps its type.
THEOREM TypeCorrect == Spec => []TypeOK
<1>1. IInv => TypeOK
  BY DEF IInv
<1> QED
  BY Invariance, <1>1, PTL

\* Every delivered token was written and lies in the vocabulary: neither a NaN
\* nor the padding of the last block can put another one there (0026).
THEOREM DeliveredInVocab == Spec => []SampledInVocab
<1>1. IInv => SampledInVocab
  <2> SUFFICES ASSUME IInv, Finished, NEW i \in 0..(numSampled - 1)
               PROVE  sampled[i] \in 0..(V - 1)
    BY DEF SampledInVocab, V
  <2>1. Inserted
    BY DEF IInv
  <2> QED
    BY <2>1 DEF Inserted, Drafted
<1> QED
  BY Invariance, <1>1, PTL

\* All delivered tokens but the last are the request's drafts.
THEOREM AcceptedDrafts == Spec => []AcceptedArePrefix
<1>1. IInv => AcceptedArePrefix
  <2> SUFFICES ASSUME IInv, Finished
               PROVE  /\ numSampled >= 1
                      /\ \A i \in 0..(numSampled - 2) : sampled[i] = window.drafts[i]
    BY DEF AcceptedArePrefix
  <2>1. Inserted
    BY DEF IInv
  <2> QED
    BY <2>1 DEF Inserted, Drafted
<1> QED
  BY Invariance, <1>1, PTL

\* Speculation does not change what a greedy request gets: the argmax that the
\* kernels assemble from blocks is the argmax of the row.
THEOREM GreedyIsTarget == Spec => []GreedyFollowsTarget
<1>1. IInv => GreedyFollowsTarget
  <2> SUFFICES ASSUME IInv, Finished, Plain
               PROVE  /\ \A i \in 0..(numSampled - 1) : sampled[i] = GreedyToken(i)
                      /\ numSampled <= window.k =>
                           window.drafts[numSampled - 1] # GreedyToken(numSampled - 1)
    BY DEF GreedyFollowsTarget, Plain
  <2>1. Inserted /\ WindowOK(window)
    BY DEF IInv
  <2>2. ASSUME NEW i \in 0..(numSampled - 1)
        PROVE  sampled[i] = GreedyToken(i)
    <3>1. Follows(i) /\ i \in 0..window.k
      BY <2>1 DEF Inserted, WindowOK
    <3>2. V \in Nat /\ \A y \in 0..(V - 1) : window.target[i][y] \in Nat
      <4>1. IsRow(window.target[i], V) /\ V \in Nat
        BY <2>1, <3>1, TargetIsRow, VocabType DEF V
      <4>2. window.target[i] \in [0..(TargetVocab - 1) -> Nat \cup {NaN}]
        BY <2>1, <3>1, SamplerAssumption DEF WindowOK
      <4>3. V <= TargetVocab /\ TargetVocab \in Nat
        BY <2>1, VocabType, SamplerAssumption DEF V
      <4> QED
        BY <4>1, <4>2, <4>3, <3>1 DEF Plain, HasNaN
    <3>3. Tokens(window) = 0..(V - 1)
      BY DEF Tokens, V
    <3> DEFINE F(x) == \A y \in Tokens(window) :
                 \/ window.target[i][y] < window.target[i][x]
                 \/ window.target[i][y] = window.target[i][x] /\ x <= y
    <3>4. sampled[i] \in Tokens(window) /\ F(sampled[i])
      BY <3>1, <3>3 DEF Follows, IsFirstMax
    <3>5. GreedyToken(i) \in Tokens(window) /\ F(GreedyToken(i))
      BY <3>4 DEF GreedyToken
    <3>6. ASSUME NEW a \in Tokens(window), NEW b \in Tokens(window), F(a), F(b)
          PROVE  a = b
      BY <3>6, <3>2, <3>3
    <3> QED
      BY <3>4, <3>5, <3>6
  <2> QED
    BY <2>1, <2>2 DEF Inserted
<1> QED
  BY Invariance, <1>1, PTL

-------------------------------------------------------------------------------
(* Induction: every set of naturals has a least element. *)

LEMMA LeastNatural ==
  ASSUME NEW T, T \subseteq Nat, T # {}
  PROVE  \E n \in T : \A m \in T : n <= m
<1> DEFINE R == OpToRel(<, Nat)
<1>1. R = {x \in Nat \X Nat : x[1] < x[2]}
  BY DEF OpToRel
<1>2. IsWellFoundedOn(R, Nat)
  BY NatLessThanWellFounded
<1> HIDE DEF R
<1>3. PICK n \in T : \A m \in T : ~(<<m, n>> \in R)
  BY <1>2, WFMin
<1>4. \A m \in T : ~(m < n)
  <2> TAKE m \in T
  <2>1. <<m, n>> \in Nat \X Nat
    OBVIOUS
  <2> QED
    BY <1>1, <1>3, <2>1
<1> QED
  BY <1>4

-------------------------------------------------------------------------------
(* Fractions: the greatest common divisor divides. *)

Divides(m, a) == \E c \in Nat : a = m * c
CommonDivisors(p) == {m \in Nat \ {0} : Divides(m, p[1]) /\ Divides(m, p[2])}
GcdEq(h) == h = [p \in Nat \X Nat |-> IF p[2] = 0 THEN p[1] ELSE h[<<p[2], p[1] % p[2]>>]]

\* What divides b divides a exactly if it divides the remainder of a by b.
LEMMA DividesRemainder ==
  ASSUME NEW m \in Nat \ {0}, NEW a \in Nat, NEW b \in Nat \ {0}, Divides(m, b)
  PROVE  Divides(m, a) <=> Divides(m, a % b)
<1> DEFINE q == a \div b
           r == a % b
<1>1. q \in Nat /\ r \in Nat /\ a = q * b + r
  <2>1. q \in Nat /\ r \in 0..(b - 1) /\ a = q * b + r
    BY Division
  <2> HIDE DEF q, r
  <2> QED
    BY <2>1
<1>2. PICK e \in Nat : b = m * e
  BY DEF Divides
<1> HIDE DEF q, r
<1>3. q * b = m * (q * e)
  BY <1>1, <1>2
<1>4. ASSUME NEW c \in Nat, a = m * c
      PROVE  Divides(m, r)
  <2>1. r = m * c - m * (q * e)
    BY <1>1, <1>3, <1>4
  <2>2. r = m * (c - q * e) /\ c - q * e \in Int
    BY <1>1, <2>1
  <2>3. c - q * e >= 0
    <3> SUFFICES ASSUME c - q * e <= -1
                 PROVE  FALSE
      BY <1>1
    <3>1. m * (c - q * e) <= m * (-1)
      BY <1>1
    <3> QED
      BY <1>1, <2>2, <3>1
  <2>4. c - q * e \in Nat
    BY <2>2, <2>3
  <2> QED
    BY <2>2, <2>4 DEF Divides
<1>5. ASSUME NEW c \in Nat, r = m * c
      PROVE  Divides(m, a)
  <2>1. a = m * (q * e + c)
    BY <1>1, <1>3, <1>5
  <2>2. q * e + c \in Nat
    BY <1>1
  <2> QED
    BY <2>1, <2>2 DEF Divides
<1> QED
  BY <1>4, <1>5 DEF Divides, r

\* The recursion for GCD has a solution: the greatest of the common divisors.
LEMMA GcdExists == \E h : GcdEq(h)
<1> DEFINE Greatest(p) == CHOOSE m \in CommonDivisors(p) : \A e \in CommonDivisors(p) : e <= m
           G(p) == IF p[1] = 0 /\ p[2] = 0 THEN 0 ELSE Greatest(p)
           h == [p \in Nat \X Nat |-> G(p)]
<1>1. ASSUME NEW a \in Nat
      PROVE  G(<<a, 0>>) = a
  <2>1. CASE a = 0
    BY <2>1
  <2>2. CASE a # 0
    <3> DEFINE D == CommonDivisors(<<a, 0>>)
    <3>1. a \in D
      <4>1. Divides(a, a) /\ Divides(a, 0)
        <5>1. a = a * 1 /\ 0 = a * 0
          OBVIOUS
        <5> QED
          BY <5>1 DEF Divides
      <4> QED
        BY <2>2, <4>1 DEF CommonDivisors
    <3>2. \A m \in D : m <= a /\ m \in Nat
      <4> SUFFICES ASSUME NEW m \in Nat \ {0}, NEW c \in Nat, a = m * c
                   PROVE  m <= a
        BY DEF CommonDivisors, Divides
      <4>1. c >= 1
        BY <2>2
      <4> QED
        BY <4>1
    <3>3. G(<<a, 0>>) = CHOOSE m \in D : \A e \in D : e <= m
      BY <2>2
    <3> HIDE DEF D, G
    <3>4. G(<<a, 0>>) \in D /\ \A e \in D : e <= G(<<a, 0>>)
      BY <3>1, <3>2, <3>3
    <3>5. G(<<a, 0>>) <= a /\ a <= G(<<a, 0>>) /\ G(<<a, 0>>) \in Nat
      BY <3>1, <3>2, <3>4
    <3> QED
      BY <3>5
  <2> QED
    BY <2>1, <2>2
<1>2. ASSUME NEW a \in Nat, NEW b \in Nat \ {0}
      PROVE  G(<<a, b>>) = G(<<b, a % b>>)
  <2>1. CommonDivisors(<<a, b>>) = CommonDivisors(<<b, a % b>>)
    BY DividesRemainder DEF CommonDivisors
  <2> QED
    BY <2>1
<1> HIDE DEF G
<1>3. h = [p \in Nat \X Nat |-> IF p[2] = 0 THEN p[1] ELSE h[<<p[2], p[1] % p[2]>>]]
  <2> SUFFICES ASSUME NEW p \in Nat \X Nat
               PROVE  h[p] = IF p[2] = 0 THEN p[1] ELSE h[<<p[2], p[1] % p[2]>>]
    OBVIOUS
  <2>1. p = <<p[1], p[2]>> /\ p[1] \in Nat /\ p[2] \in Nat
    OBVIOUS
  <2>2. CASE p[2] = 0
    BY <1>1, <2>1, <2>2
  <2>3. CASE p[2] # 0
    <3>1. p[1] % p[2] \in Nat
      BY <2>1, <2>3, Division
    <3>2. <<p[2], p[1] % p[2]>> \in Nat \X Nat
      BY <2>1, <3>1
    <3> QED
      BY <1>2, <2>1, <2>3, <3>2
  <2> QED
    BY <2>2, <2>3
<1> HIDE DEF h
<1> QED
  BY <1>3 DEF GcdEq

\* What the recursive function computes: its own equation, step by step.
LEMMA GcdRecursion ==
  /\ \A a \in Nat : GCD[<<a, 0>>] = a
  /\ \A a \in Nat, b \in Nat \ {0} : GCD[<<a, b>>] = GCD[<<b, a % b>>]
<1>1. GCD = CHOOSE h : GcdEq(h)
  BY DEF GCD, GcdEq
<1>2. GcdEq(GCD)
  BY <1>1, GcdExists
<1>3. GCD = [p \in Nat \X Nat |-> IF p[2] = 0 THEN p[1] ELSE GCD[<<p[2], p[1] % p[2]>>]]
  BY <1>2 DEF GcdEq
<1>4. \A p \in Nat \X Nat : GCD[p] = IF p[2] = 0 THEN p[1] ELSE GCD[<<p[2], p[1] % p[2]>>]
  BY <1>3
<1>5. ASSUME NEW a \in Nat
      PROVE  GCD[<<a, 0>>] = a
  <2>1. <<a, 0>> \in Nat \X Nat
    OBVIOUS
  <2> QED
    BY <1>4, <2>1
<1>6. ASSUME NEW a \in Nat, NEW b \in Nat \ {0}
      PROVE  GCD[<<a, b>>] = GCD[<<b, a % b>>]
  <2>1. <<a, b>> \in Nat \X Nat
    OBVIOUS
  <2> QED
    BY <1>4, <2>1
<1> QED
  BY <1>5, <1>6

\* Euclid: the result divides both arguments.  By a least second argument for
\* which it does not.
LEMMA GcdDivides ==
  ASSUME NEW a \in Nat, NEW b \in Nat, a # 0 \/ b # 0
  PROVE  /\ GCD[<<a, b>>] \in Nat \ {0}
         /\ Divides(GCD[<<a, b>>], a) /\ Divides(GCD[<<a, b>>], b)
<1> DEFINE Good(x, y) == x # 0 \/ y # 0 =>
             /\ GCD[<<x, y>>] \in Nat \ {0}
             /\ Divides(GCD[<<x, y>>], x) /\ Divides(GCD[<<x, y>>], y)
           T == {y \in Nat : \E x \in Nat : ~Good(x, y)}
<1>1. T = {}
  <2> SUFFICES ASSUME T # {}
               PROVE  FALSE
    OBVIOUS
  <2>1. PICK n \in T : \A m \in T : n <= m
    BY LeastNatural
  <2>2. PICK x \in Nat : ~Good(x, n)
    BY <2>1
  <2>3. n \in Nat
    BY <2>1
  <2>4. CASE n = 0
    <3>1. GCD[<<x, 0>>] = x /\ x # 0
      BY <2>2, <2>4, GcdRecursion
    <3>2. x = x * 1 /\ 0 = x * 0
      OBVIOUS
    <3>3. Divides(x, x) /\ Divides(x, 0)
      BY <3>2 DEF Divides
    <3> QED
      BY <2>2, <2>4, <3>1, <3>3
  <2>5. CASE n # 0
    <3>1. GCD[<<x, n>>] = GCD[<<n, x % n>>]
      BY <2>3, <2>5, GcdRecursion
    <3>2. x % n \in Nat /\ x % n < n
      BY <2>3, <2>5, Division
    <3>3. x % n \notin T
      BY <2>1, <2>3, <3>2
    <3>4. Good(n, x % n)
      BY <2>3, <3>2, <3>3
    <3>5. /\ GCD[<<x, n>>] \in Nat \ {0}
          /\ Divides(GCD[<<x, n>>], n) /\ Divides(GCD[<<x, n>>], x % n)
      BY <2>5, <3>1, <3>4
    <3>6. Divides(GCD[<<x, n>>], x)
      BY <2>3, <2>5, <3>5, DividesRemainder
    <3> QED
      BY <2>2, <3>5, <3>6
  <2> QED
    BY <2>4, <2>5
<1> QED
  BY <1>1

\* A multiple divides without remainder.
LEMMA ExactDivision ==
  ASSUME NEW g \in Nat \ {0}, NEW x \in Nat
  PROVE  (g * x) \div g = x
<1>1. g * x \in Nat
  OBVIOUS
<1> DEFINE q == (g * x) \div g
           r == (g * x) % g
<1>2. q \in Nat /\ r \in 0..(g - 1) /\ g * x = q * g + r
  BY <1>1, Division
<1> HIDE DEF q, r
<1>3. r = g * (x - q) /\ x - q \in Int
  BY <1>2
<1>4. x - q < 1
  <2> SUFFICES ASSUME x - q >= 1
               PROVE  FALSE
    BY <1>3
  <2>1. g * (x - q) >= g * 1
    BY <1>3
  <2> QED
    BY <1>2, <1>3, <2>1
<1>5. x - q > -1
  <2> SUFFICES ASSUME x - q <= -1
               PROVE  FALSE
    BY <1>3
  <2>1. g * (x - q) <= g * (-1)
    BY <1>3
  <2> QED
    BY <1>2, <1>3, <2>1
<1> QED
  BY <1>2, <1>3, <1>4, <1>5 DEF q

\* A fraction in lowest terms is the fraction.
LEMMA FracIs ==
  ASSUME NEW n \in Nat, NEW d \in Nat \ {0}
  PROVE  /\ Frac(n, d)[1] \in Nat /\ Frac(n, d)[2] \in Nat \ {0}
         /\ \E g \in Nat \ {0} : n = g * Frac(n, d)[1] /\ d = g * Frac(n, d)[2]
<1> DEFINE g == GCD[<<n, d>>]
<1>1. g \in Nat \ {0} /\ Divides(g, n) /\ Divides(g, d)
  BY GcdDivides
<1>2. Frac(n, d)[1] = n \div g /\ Frac(n, d)[2] = d \div g
  BY DEF Frac
<1> HIDE DEF g
<1>3. PICK c \in Nat : n = g * c
  BY <1>1 DEF Divides
<1>4. PICK e \in Nat : d = g * e
  BY <1>1 DEF Divides
<1>5. \A x \in Nat : (g * x) \div g = x
  BY <1>1, ExactDivision
<1>6. n \div g = c /\ d \div g = e
  BY <1>3, <1>4, <1>5
<1>7. e # 0
  BY <1>1, <1>4
<1> QED
  BY <1>1, <1>2, <1>3, <1>4, <1>6, <1>7

-------------------------------------------------------------------------------
(* Sums over a finite set, as the fold takes them: element by element. *)

First(s) == CHOOSE x \in s : TRUE
Added(h, f, s) == IF s = {} THEN 0 ELSE f[First(s)] + h[s \ {First(s)}]
SumEq(h, f, S) == h = [s \in SUBSET S |-> Added(h, f, s)]

\* The sums of f over the subsets of S.
Sums(f, S) == CHOOSE h : SumEq(h, f, S)

\* A finite set without its first element has one element less.
LEMMA Smaller ==
  ASSUME NEW s, IsFiniteSet(s), s # {}
  PROVE  /\ First(s) \in s /\ IsFiniteSet(s \ {First(s)})
         /\ Cardinality(s) \in Nat /\ Cardinality(s \ {First(s)}) = Cardinality(s) - 1
<1>1. First(s) \in s
  BY DEF First
<1> QED
  BY <1>1, FS_RemoveElement, FS_CardinalityType

\* The recursion for the sums has a solution, by the cardinality of the subsets.
LEMMA SumsExist ==
  ASSUME NEW S, IsFiniteSet(S), NEW f
  PROVE  \E h : SumEq(h, f, S)
<1> DEFINE Upto(h, n) == \A s \in SUBSET S : Cardinality(s) <= n => h[s] = Added(h, f, s)
           T == {n \in Nat : ~\E h : Upto(h, n)}
<1>0. \A s \in SUBSET S : IsFiniteSet(s) /\ Cardinality(s) \in Nat /\ (Cardinality(s) = 0 <=> s = {})
  BY FS_Subset, FS_CardinalityType, FS_EmptySet
<1>1. T = {}
  <2> SUFFICES ASSUME T # {}
               PROVE  FALSE
    OBVIOUS
  <2>1. PICK n \in T : \A m \in T : n <= m
    BY LeastNatural
  <2>2. n \in Nat /\ ~\E h : Upto(h, n)
    BY <2>1
  <2>3. CASE n = 0
    <3> DEFINE h == [s \in SUBSET S |-> 0]
    <3>1. Upto(h, 0)
      <4> SUFFICES ASSUME NEW s \in SUBSET S, Cardinality(s) <= 0
                   PROVE  h[s] = Added(h, f, s)
        OBVIOUS
      <4>1. s = {}
        BY <1>0
      <4> QED
        BY <4>1 DEF Added
    <3> HIDE DEF h, Upto
    <3> QED
      BY <2>2, <2>3, <3>1
  <2>4. CASE n # 0
    <3>1. n - 1 \in Nat /\ n - 1 \notin T
      BY <2>1, <2>2, <2>4
    <3>2. PICK g : Upto(g, n - 1)
      BY <3>1
    <3> DEFINE h == [s \in SUBSET S |-> IF Cardinality(s) <= n - 1 THEN g[s] ELSE Added(g, f, s)]
    <3>3. Upto(h, n)
      <4> SUFFICES ASSUME NEW s \in SUBSET S, Cardinality(s) <= n
                   PROVE  h[s] = Added(h, f, s)
        OBVIOUS
      <4>1. h[s] = Added(g, f, s)
        BY <3>2
      <4>2. CASE s = {}
        BY <4>1, <4>2 DEF Added
      <4>3. CASE s # {}
        <5>1. /\ s \ {First(s)} \in SUBSET S
              /\ Cardinality(s) \in Nat /\ Cardinality(s \ {First(s)}) = Cardinality(s) - 1
          BY <1>0, <4>3, Smaller
        <5>2. Cardinality(s \ {First(s)}) <= n - 1
          BY <2>2, <5>1
        <5>3. h[s \ {First(s)}] = g[s \ {First(s)}]
          BY <5>1, <5>2
        <5> HIDE DEF h
        <5> QED
          BY <4>1, <4>3, <5>3 DEF Added
      <4> QED
        BY <4>2, <4>3
    <3> HIDE DEF h, Upto
    <3> QED
      BY <2>2, <3>3
  <2> QED
    BY <2>3, <2>4
<1>2. Cardinality(S) \in Nat /\ \A s \in SUBSET S : Cardinality(s) <= Cardinality(S)
  BY FS_Subset, FS_CardinalityType
<1>3. PICK g : Upto(g, Cardinality(S))
  BY <1>1, <1>2
<1>4. \A s \in SUBSET S : g[s] = Added(g, f, s)
  BY <1>2, <1>3
<1> DEFINE h == [s \in SUBSET S |-> g[s]]
<1>5. \A s \in SUBSET S : h[s] = Added(h, f, s)
  <2> TAKE s \in SUBSET S
  <2>1. s \ {First(s)} \in SUBSET S
    OBVIOUS
  <2>2. h[s \ {First(s)}] = g[s \ {First(s)}] /\ h[s] = g[s]
    BY <2>1
  <2>3. g[s] = Added(g, f, s)
    BY <1>4
  <2> HIDE DEF h
  <2> QED
    BY <2>2, <2>3 DEF Added
<1>6. h = [s \in SUBSET S |-> Added(h, f, s)]
  BY <1>5
<1> HIDE DEF h
<1> QED
  BY <1>6 DEF SumEq

\* The sums obey their recursion.
LEMMA SumStep ==
  ASSUME NEW S, IsFiniteSet(S), NEW f
  PROVE  \A s \in SUBSET S : Sums(f, S)[s] = Added(Sums(f, S), f, s)
<1> DEFINE h == Sums(f, S)
<1>1. SumEq(h, f, S)
  BY SumsExist DEF Sums
<1> HIDE DEF h
<1>2. h = [s \in SUBSET S |-> Added(h, f, s)]
  BY <1>1 DEF SumEq
<1>3. \A s \in SUBSET S : h[s] = Added(h, f, s)
  BY <1>2
<1> QED
  BY <1>3 DEF h

\* Where one function is at most the other, weighted, its sum is; and less, where
\* it is less anywhere.
LEMMA SumCompare ==
  ASSUME NEW S, IsFiniteSet(S), NEW f, NEW g, NEW a \in Nat, NEW b \in Nat,
         \A x \in S : f[x] \in Nat /\ g[x] \in Nat /\ a * f[x] <= b * g[x]
  PROVE  /\ Sums(f, S)[S] \in Nat /\ Sums(g, S)[S] \in Nat
         /\ a * Sums(f, S)[S] <= b * Sums(g, S)[S]
         /\ (\E x \in S : a * f[x] < b * g[x]) => a * Sums(f, S)[S] < b * Sums(g, S)[S]
<1> DEFINE F == Sums(f, S)
           G == Sums(g, S)
           Good(s) == /\ F[s] \in Nat /\ G[s] \in Nat
                      /\ a * F[s] <= b * G[s]
                      /\ (\E x \in s : a * f[x] < b * g[x]) => a * F[s] < b * G[s]
           T == {n \in Nat : \E s \in SUBSET S : Cardinality(s) = n /\ ~Good(s)}
<1>1. /\ \A s \in SUBSET S : F[s] = Added(F, f, s)
      /\ \A s \in SUBSET S : G[s] = Added(G, g, s)
  BY SumStep
<1> HIDE DEF F, G
<1>2. T = {}
  <2> SUFFICES ASSUME T # {}
               PROVE  FALSE
    OBVIOUS
  <2>1. PICK n \in T : \A m \in T : n <= m
    BY LeastNatural
  <2>2. PICK s \in SUBSET S : Cardinality(s) = n /\ ~Good(s)
    BY <2>1
  <2>3. CASE s = {}
    <3>1. F[s] = 0 /\ G[s] = 0
      BY <1>1, <2>3 DEF Added
    <3> QED
      BY <2>2, <2>3, <3>1
  <2>4. CASE s # {}
    <3> DEFINE x == First(s)
               r == s \ {x}
    <3>1. x \in S /\ x \in s /\ r \in SUBSET S /\ Cardinality(r) = Cardinality(s) - 1
          /\ Cardinality(s) \in Nat /\ Cardinality(r) \in Nat
      BY <2>4, FS_Subset, Smaller, FS_CardinalityType
    <3>2. F[s] = f[x] + F[r] /\ G[s] = g[x] + G[r]
      BY <1>1, <2>4 DEF Added
    <3>3. Good(r)
      BY <2>1, <2>2, <3>1
    <3>4. f[x] \in Nat /\ g[x] \in Nat /\ a * f[x] <= b * g[x]
      BY <3>1
    <3>5. (\E y \in s : a * f[y] < b * g[y]) =>
            (a * f[x] < b * g[x]) \/ (\E y \in r : a * f[y] < b * g[y])
      OBVIOUS
    <3>6. a * F[s] = a * f[x] + a * F[r] /\ b * G[s] = b * g[x] + b * G[r]
          /\ a * f[x] \in Nat /\ a * F[r] \in Nat /\ b * g[x] \in Nat /\ b * G[r] \in Nat
          /\ F[s] \in Nat /\ G[s] \in Nat
      BY <3>2, <3>3, <3>4
    <3> HIDE DEF x, r
    <3>7. a * F[s] <= b * G[s]
      BY <3>3, <3>4, <3>6
    <3>8. (a * f[x] < b * g[x]) => a * F[s] < b * G[s]
      BY <3>3, <3>6
    <3>9. (\E y \in r : a * f[y] < b * g[y]) => a * F[s] < b * G[s]
      BY <3>3, <3>4, <3>6
    <3> QED
      BY <2>2, <3>5, <3>6, <3>7, <3>8, <3>9
  <2> QED
    BY <2>3, <2>4
<1>3. Cardinality(S) \in Nat /\ S \in SUBSET S
  BY FS_CardinalityType
<1>4. Good(S)
  BY <1>2, <1>3
<1> QED
  BY <1>4 DEF F, G

\* A sum with one term.
LEMMA SumOfOne ==
  ASSUME NEW S, IsFiniteSet(S), NEW f, NEW d \in S, f[d] \in Nat,
         \A x \in S : x # d => f[x] = 0
  PROVE  Sums(f, S)[S] = f[d]
<1> DEFINE F == Sums(f, S)
           Good(s) == F[s] = IF d \in s THEN f[d] ELSE 0
           T == {n \in Nat : \E s \in SUBSET S : Cardinality(s) = n /\ ~Good(s)}
<1>1. \A s \in SUBSET S : F[s] = Added(F, f, s)
  BY SumStep
<1> HIDE DEF F
<1>2. T = {}
  <2> SUFFICES ASSUME T # {}
               PROVE  FALSE
    OBVIOUS
  <2>1. PICK n \in T : \A m \in T : n <= m
    BY LeastNatural
  <2>2. PICK s \in SUBSET S : Cardinality(s) = n /\ ~Good(s)
    BY <2>1
  <2>3. CASE s = {}
    BY <1>1, <2>2, <2>3 DEF Added
  <2>4. CASE s # {}
    <3> DEFINE x == First(s)
               r == s \ {x}
    <3>1. x \in S /\ x \in s /\ r \in SUBSET S /\ Cardinality(r) = Cardinality(s) - 1
          /\ Cardinality(s) \in Nat /\ Cardinality(r) \in Nat
      BY <2>4, FS_Subset, Smaller, FS_CardinalityType
    <3>2. F[s] = f[x] + F[r]
      BY <1>1, <2>4 DEF Added
    <3>3. Good(r)
      BY <2>1, <2>2, <3>1
    <3>4. d \in r <=> d \in s /\ d # x
      OBVIOUS
    <3>5. f[x] = IF x = d THEN f[d] ELSE 0
      BY <3>1
    <3> HIDE DEF x, r
    <3> QED
      BY <2>2, <3>1, <3>2, <3>3, <3>4, <3>5
  <2> QED
    BY <2>3, <2>4
<1>3. Cardinality(S) \in Nat /\ S \in SUBSET S
  BY FS_CardinalityType
<1>4. Good(S)
  BY <1>2, <1>3
<1> QED
  BY <1>4 DEF F

\* The kernels' total is such a sum.
LEMMA TotalIsSum ==
  ASSUME NEW w, NEW row
  PROVE  Total(w, row) = Sums(row, Tokens(w))[Tokens(w)]
BY DEF Total, MapThenSumSet, MapThenFoldSet, Sums, SumEq, Added, First

-------------------------------------------------------------------------------
(* Tests. *)

\* To order two fractions is to order the cross products, in lowest terms or not.
LEMMA CrossProducts ==
  ASSUME NEW g \in Nat \ {0}, NEW h \in Nat \ {0},
         NEW p1 \in Nat, NEW p2 \in Nat, NEW q1 \in Nat, NEW q2 \in Nat
  PROVE  (g * p1) * (h * q2) < (h * q1) * (g * p2) <=> p1 * q2 < q1 * p2
<1> DEFINE m == g * h
           u == p1 * q2
           v == q1 * p2
<1>1. (g * p1) * (h * q2) = m * u /\ (h * q1) * (g * p2) = m * v
  OBVIOUS
<1>2. m \in Nat \ {0} /\ u \in Nat /\ v \in Nat
  OBVIOUS
<1> HIDE DEF m, u, v
<1>3. u < v => m * u < m * v
  BY <1>2
<1>4. u >= v => m * u >= m * v
  BY <1>2
<1>5. (m * u < m * v) <=> u < v
  BY <1>2, <1>3, <1>4
<1>6. ((g * p1) * (h * q2) < (h * q1) * (g * p2)) <=> u < v
  BY <1>1, <1>5
<1> QED
  BY <1>6 DEF u, v

\* A test that rejects has found the product short.
LEMMA RejectedShort ==
  ASSUME NEW u \in Uniform, Steps \in Nat \ {0}, NEW a \in Nat, NEW b \in Nat, b # 0,
         ~(2 * Steps * a > (2 * u - 1) * b)
  PROVE  a < b
<1>1. u \in Nat /\ u >= 1 /\ u <= Steps
  BY DEF Uniform
<1>2. (2 * u - 1) * b < 2 * Steps * b
  <2>1. 2 * u - 1 < 2 * Steps /\ 2 * u - 1 \in Nat
    BY <1>1
  <2> DEFINE c == 2 * u - 1
             e == 2 * Steps
  <2>2. c \in Nat /\ e \in Nat /\ c < e
    BY <2>1
  <2> HIDE DEF c, e
  <2>3. c * b < e * b
    BY <2>2
  <2> QED
    BY <2>3 DEF c, e
<1>3. ASSUME a >= b
      PROVE  2 * Steps * a >= 2 * Steps * b
  BY <1>3
<1>4. 2 * Steps * a \in Nat /\ 2 * Steps * b \in Nat /\ (2 * u - 1) * b \in Int
  BY <1>1
<1> QED
  BY <1>2, <1>3, <1>4

-------------------------------------------------------------------------------
(* The residual has mass. *)

\* The tokens the kernels scan are finitely many.
LEMMA TokensFinite ==
  ASSUME NEW w, WindowOK(w)
  PROVE  IsFiniteSet(Tokens(w)) /\ Tokens(w) = 0..(VocabSize(w) - 1)
BY VocabType, FS_Interval DEF Tokens

\* Rows without NaN are weights, and a weight makes the total positive.
LEMMA TotalIs ==
  ASSUME NEW w, WindowOK(w), NEW row, \A x \in Tokens(w) : row[x] \in Nat
  PROVE  /\ Total(w, row) \in Nat
         /\ \A x \in Tokens(w) : row[x] > 0 => Total(w, row) > 0
<1> DEFINE zero == [x \in Tokens(w) |-> 0]
<1>1. \A x \in Tokens(w) : zero[x] \in Nat /\ row[x] \in Nat /\ 0 * zero[x] <= 1 * row[x]
  OBVIOUS
<1>2. /\ Sums(zero, Tokens(w))[Tokens(w)] \in Nat /\ Total(w, row) \in Nat
      /\ (\E x \in Tokens(w) : 0 * zero[x] < 1 * row[x]) =>
           0 * Sums(zero, Tokens(w))[Tokens(w)] < 1 * Total(w, row)
  <2> HIDE DEF zero
  <2> QED
    BY <1>1, TokensFinite, TotalIsSum, SumCompare
<1>3. ASSUME NEW x \in Tokens(w), row[x] > 0
      PROVE  Total(w, row) > 0
  BY <1>2, <1>3
<1> QED
  BY <1>2, <1>3

\* If the draft's share of the target is less than its share of the drafter, then
\* there is a token of which the opposite is true.
LEMMA ShareElsewhere ==
  ASSUME NEW w, WindowOK(w), NEW t, NEW q, NEW d \in Tokens(w),
         \A x \in Tokens(w) : t[x] \in Nat /\ q[x] \in Nat,
         t[d] * Total(w, q) < q[d] * Total(w, t)
  PROVE  \E x \in Tokens(w) : q[x] * Total(w, t) < t[x] * Total(w, q)
<1> DEFINE a == Total(w, q)
           b == Total(w, t)
<1>1. a \in Nat /\ b \in Nat
  BY TotalIs
<1> SUFFICES ASSUME \A x \in Tokens(w) : ~(q[x] * b < t[x] * a)
             PROVE  FALSE
  OBVIOUS
<1>2. a = Sums(q, Tokens(w))[Tokens(w)] /\ b = Sums(t, Tokens(w))[Tokens(w)]
  BY TotalIsSum
<1> HIDE DEF a, b
<1>3. \A x \in Tokens(w) : t[x] \in Nat /\ q[x] \in Nat /\ a * t[x] <= b * q[x]
  <2> TAKE x \in Tokens(w)
  <2>1. t[x] \in Nat /\ q[x] \in Nat /\ ~(q[x] * b < t[x] * a)
    OBVIOUS
  <2> QED
    BY <1>1, <2>1
<1>4. a * t[d] < b * q[d]
  <2>1. t[d] \in Nat /\ q[d] \in Nat /\ t[d] * a < q[d] * b
    BY DEF a, b
  <2> QED
    BY <1>1, <2>1
<1>5. a * b < b * a
  BY <1>1, <1>2, <1>3, <1>4, TokensFinite, SumCompare
<1> QED
  BY <1>1, <1>5

\* The same for a drafter without logits.
LEMMA MassElsewhere ==
  ASSUME NEW w, WindowOK(w), NEW t, NEW d \in Tokens(w),
         \A x \in Tokens(w) : t[x] \in Nat,
         t[d] < Total(w, t)
  PROVE  \E x \in Tokens(w) : x # d /\ t[x] > 0
<1> SUFFICES ASSUME \A x \in Tokens(w) : x # d => t[x] = 0
             PROVE  FALSE
  OBVIOUS
<1>1. Total(w, t) = t[d]
  BY TokensFinite, TotalIsSum, SumOfOne
<1> QED
  BY <1>1

\* A row of weights, and the winner under noise: a token of positive weight, if
\* there is one.
LEMMA NoisyWinner ==
  ASSUME NEW v \in Nat \ {0}, NEW size \in Nat \ {0}, size <= v,
         NEW row, \A y \in 0..(v - 1) : row[y] \in Nat,
         PaddedBlocks(Cdiv(v, size)) \in Nat,
         PaddedBlocks(Cdiv(v, size)) >= Cdiv(v, size),
         NEW lane \in LocalArgmaxes(row, size, v, TRUE),
         NEW x \in GlobalArgmaxes(row, lane, size, v, TRUE),
         NEW y \in 0..(v - 1), row[y] > 0
  PROVE  row[x] > 0
<1> DEFINE n == Cdiv(v, size)
           p == PaddedBlocks(n)
           M == BlockMaxes(row, lane, size, v)
           B(b) == Block(row, b, size, v)
<1>0. IsRow(row, v)
  BY DEF IsRow
<1>1. n \in 1..v /\ \A b \in Nat : b < n <=> b * size < v
  BY CdivBlocks
<1>2. M \in [0..(p - 1) -> Nat] /\ ~HasNaN(M) /\ lane \in [0..(n - 1) -> 0..(size - 1)]
  BY BlockMaxesType, <1>0
<1>3. x \in 0..(v - 1)
  BY WinnerInVocab, <1>0
<1>4. PICK b \in ArgMax(M, TRUE) : x = IF b < n THEN b * size + lane[b] ELSE Junk
  BY DEF GlobalArgmaxes
<1>5. b \in 0..(n - 1) /\ x = b * size + lane[b]
  BY <1>3, <1>4, <1>2, <1>1 DEF ArgMax, Junk
<1>6. \A c \in 0..(n - 1) :
        /\ B(c) \in [0..(size - 1) -> Nat]
        /\ (\E j \in 0..(size - 1) : B(c)[j] > 0) => B(c)[lane[c]] > 0
        /\ M[c] = B(c)[lane[c]]
  <2> SUFFICES ASSUME NEW c \in 0..(n - 1)
               PROVE  /\ B(c) \in [0..(size - 1) -> Nat]
                      /\ (\E j \in 0..(size - 1) : B(c)[j] > 0) => B(c)[lane[c]] > 0
                      /\ M[c] = B(c)[lane[c]]
    OBVIOUS
  <2>1. \A i \in 0..(size - 1) : c * size + i \in Nat
    BY c * size \in Nat
  <2>2. B(c) \in [0..(size - 1) -> Nat]
    BY <2>1 DEF Block
  <2>3. ~HasNaN(B(c))
    BY <2>2 DEF HasNaN, NaN
  <2>4. lane[c] \in ArgMax(B(c), TRUE)
    BY DEF LocalArgmaxes
  <2>5. M[c] = Guard(B(c)[lane[c]])
    BY <1>1 DEF BlockMaxes
  <2>6. lane[c] \in 0..(size - 1)
    BY <1>2
  <2>7. Guard(B(c)[lane[c]]) = B(c)[lane[c]]
    BY <2>2, <2>6 DEF Guard, NaN
  <2> HIDE DEF B
  <2> QED
    BY <2>2, <2>3, <2>4, <2>5, <2>7 DEF ArgMax
<1>7. row[x] = M[b]
  <2>1. lane[b] \in 0..(size - 1) /\ b * size + lane[b] < v
    BY <1>5, <1>3, <1>2
  <2>2. B(b)[lane[b]] = row[b * size + lane[b]]
    BY <2>1 DEF Block
  <2> QED
    BY <2>2, <1>5, <1>6
<1>8. \E c \in 0..(n - 1) : M[c] > 0
  <2>1. PICK c \in Nat, j \in 0..(size - 1) : y = c * size + j
    BY Division, y \in Nat
  <2>2. c * size <= y /\ c * size \in Nat
    BY <2>1
  <2>3. c \in 0..(n - 1)
    BY <2>1, <2>2, <1>1
  <2>4. B(c)[j] = row[y]
    BY <2>1, c * size + j < v DEF Block
  <2> QED
    BY <1>6, <2>1, <2>3, <2>4
<1>9. M[b] > 0
  <2>1. PICK c \in 0..(n - 1) : M[c] > 0
    BY <1>8
  <2>2. c \in DOMAIN M
    BY <1>1, <1>2
  <2> HIDE DEF M
  <2> QED
    BY <1>2, <1>4, <2>1, <2>2 DEF ArgMax
<1> QED
  BY <1>7, <1>9

\* Rows without NaN weigh every token the kernels scan.
LEMMA Weights ==
  ASSUME NEW w, WindowOK(w)
  PROVE  /\ \A i \in 0..w.k : ~HasNaN(w.target[i]) =>
              \A x \in Tokens(w) : w.target[i][x] \in Nat
         /\ \A i \in 0..(w.k - 1) : ~w.oneHot /\ ~HasNaN(w.draft[i]) =>
              \A x \in Tokens(w) : w.draft[i][x] \in Nat
<1>1. /\ VocabSize(w) \in Nat \ {0} /\ VocabSize(w) <= TargetVocab
      /\ TargetVocab \in Nat /\ DraftVocab \in Nat
      /\ ~w.oneHot => VocabSize(w) <= DraftVocab
  BY SamplerAssumption DEF VocabSize
<1>2. ASSUME NEW i \in 0..w.k, ~HasNaN(w.target[i]), NEW x \in Tokens(w)
      PROVE  w.target[i][x] \in Nat
  <2>1. w.target[i] \in [0..(TargetVocab - 1) -> Nat \cup {NaN}]
    BY SamplerAssumption DEF WindowOK
  <2>2. x \in 0..(TargetVocab - 1)
    BY <1>1 DEF Tokens
  <2> QED
    BY <1>2, <2>1, <2>2 DEF HasNaN
<1>3. ASSUME NEW i \in 0..(w.k - 1), ~w.oneHot, ~HasNaN(w.draft[i]), NEW x \in Tokens(w)
      PROVE  w.draft[i][x] \in Nat
  <2>1. w.draft[i] \in [0..(DraftVocab - 1) -> Nat \cup {NaN}]
    BY SamplerAssumption DEF WindowOK
  <2>2. x \in 0..(DraftVocab - 1)
    BY <1>1, <1>3 DEF Tokens
  <2> QED
    BY <1>3, <2>1, <2>2 DEF HasNaN
<1> QED
  BY <1>2, <1>3

\* A draft that is rejected has a smaller share of the target than of the drafter.
LEMMA RejectedShare ==
  ASSUME NEW w, WindowOK(w), NEW n \in 0..(w.k - 1), NEW u \in Uniform,
         ~RatioTest(w, n, u), w.drafts[n] >= 0,
         ~HasNaN(w.target[n]), ~w.oneHot => ~HasNaN(w.draft[n]),
         \E y \in Tokens(w) : w.target[n][y] > 0
  PROVE  LET d == w.drafts[n]
             t == w.target[n]
             q == w.draft[n]
         IN  /\ d \in Tokens(w)
             /\ w.oneHot => t[d] < Total(w, t)
             /\ ~w.oneHot => t[d] * Total(w, q) < q[d] * Total(w, t)
<1> DEFINE d == w.drafts[n]
           t == w.target[n]
           q == w.draft[n]
           p == TargetProb(w, n, d)
           r == DraftProb(w, n, d)
<1>0. n \in 0..w.k /\ w.k \in Nat
  BY SamplerAssumption DEF WindowOK
<1>1. d \in Tokens(w)
  BY VocabType DEF Tokens
<1>2. \A x \in Tokens(w) : t[x] \in Nat
  BY <1>0, Weights
<1>3. Total(w, t) \in Nat \ {0}
  BY <1>2, TotalIs
<1>4. PICK g \in Nat \ {0} : /\ p[1] \in Nat /\ p[2] \in Nat \ {0}
                             /\ t[d] = g * p[1] /\ Total(w, t) = g * p[2]
  <2>1. p = Frac(t[d], Total(w, t))
    BY DEF TargetProb
  <2>2. t[d] \in Nat
    BY <1>1, <1>2
  <2> HIDE DEF p, t, d
  <2> QED
    BY <1>3, <2>1, <2>2, FracIs
<1>5. ~(2 * Steps * p[1] * r[2] > (2 * u - 1) * r[1] * p[2])
  BY DEF RatioTest
<1>6. Steps \in Nat \ {0} /\ u \in Int
  BY SamplerAssumption DEF Uniform
<1>7. ASSUME w.oneHot
      PROVE  t[d] < Total(w, t)
  <2>1. r = <<1, 1>>
    BY <1>7 DEF DraftProb, One
  <2>2. r[1] = 1 /\ r[2] = 1
    BY <2>1
  <2> HIDE DEF p, r, t, d
  <2>3. ~(2 * Steps * p[1] > (2 * u - 1) * p[2])
    BY <1>4, <1>5, <1>6, <2>2
  <2>4. p[1] < p[2]
    BY <1>4, <1>6, <2>3, RejectedShort
  <2>5. g * p[1] < g * p[2]
    BY <1>4, <2>4
  <2> QED
    BY <1>4, <2>5
<1>8. ASSUME ~w.oneHot
      PROVE  t[d] * Total(w, q) < q[d] * Total(w, t)
  <2>1. \A x \in Tokens(w) : q[x] \in Nat
    BY <1>8, Weights
  <2>2. q[d] # 0 /\ q[d] \in Nat
    BY <1>1, <1>8, <2>1 DEF WindowOK, Admissible
  <2>3. Total(w, q) \in Nat \ {0}
    BY <1>1, <2>1, <2>2, TotalIs
  <2>4. PICK h \in Nat \ {0} : /\ r[1] \in Nat /\ r[2] \in Nat \ {0}
                               /\ q[d] = h * r[1] /\ Total(w, q) = h * r[2]
    <3>1. r = Frac(q[d], Total(w, q))
      BY <1>8 DEF DraftProb
    <3> HIDE DEF r, q, d
    <3> QED
      BY <2>2, <2>3, <3>1, FracIs
  <2>5. r[1] # 0
    BY <2>2, <2>4
  <2> DEFINE a == p[1] * r[2]
             b == r[1] * p[2]
  <2>6. a \in Nat /\ b \in Nat /\ b # 0
    <3> HIDE DEF p, r
    <3> QED
      BY <1>4, <2>4, <2>5
  <2>7. ~(2 * Steps * a > (2 * u - 1) * b)
    <3> HIDE DEF p, r
    <3>1. 2 * Steps * p[1] * r[2] = 2 * Steps * (p[1] * r[2])
      BY <1>4, <1>6, <2>4
    <3>2. (2 * u - 1) * r[1] * p[2] = (2 * u - 1) * (r[1] * p[2])
      BY <1>4, <1>6, <2>4
    <3> QED
      BY <1>5, <3>1, <3>2
  <2>8. a < b
    <3> HIDE DEF a, b
    <3> QED
      BY <1>6, <2>6, <2>7, RejectedShort
  <2> HIDE DEF p, r, t, d, q
  <2>9. (g * p[1]) * (h * r[2]) < (h * r[1]) * (g * p[2])
    BY <1>4, <2>4, <2>8, CrossProducts
  <2> QED
    BY <1>4, <2>4, <2>9
<1> QED
  BY <1>1, <1>7, <1>8

\* A positive difference of fractions has a positive numerator.
LEMMA PositiveDifference ==
  ASSUME NEW a \in Nat, NEW m \in Nat \ {0}, NEW b \in Nat, NEW n \in Nat \ {0},
         b * m < a * n
  PROVE  FMonus(Frac(a, m), Frac(b, n))[1] > 0
<1> DEFINE p == Frac(a, m)
           q == Frac(b, n)
           g == GCD[<<p[2], q[2]>>]
           s == p[1] * (q[2] \div g) - q[1] * (p[2] \div g)
<1>1. PICK c \in Nat \ {0} : /\ p[1] \in Nat /\ p[2] \in Nat \ {0}
                             /\ a = c * p[1] /\ m = c * p[2]
  BY FracIs
<1>2. PICK e \in Nat \ {0} : /\ q[1] \in Nat /\ q[2] \in Nat \ {0}
                             /\ b = e * q[1] /\ n = e * q[2]
  BY FracIs
<1> HIDE DEF p, q
<1>3. q[1] * p[2] < p[1] * q[2]
  BY <1>1, <1>2, CrossProducts
<1>4. g \in Nat \ {0} /\ Divides(g, p[2]) /\ Divides(g, q[2])
  BY <1>1, <1>2, GcdDivides
<1> HIDE DEF g
<1>5. PICK x \in Nat : p[2] = g * x
  BY <1>4 DEF Divides
<1>6. PICK y \in Nat : q[2] = g * y
  BY <1>4 DEF Divides
<1>7. p[2] \div g = x /\ q[2] \div g = y
  BY <1>4, <1>5, <1>6, ExactDivision
<1>8. s = p[1] * y - q[1] * x /\ s \in Int
  BY <1>1, <1>2, <1>7
<1>9. s > 0
  <2> DEFINE j == q[1] * x
             k == p[1] * y
  <2>1. g * j < g * k /\ j \in Nat /\ k \in Nat
    BY <1>1, <1>2, <1>3, <1>4, <1>5, <1>6
  <2> HIDE DEF j, k
  <2>2. j < k
    BY <1>4, <2>1
  <2> QED
    BY <1>8, <2>1, <2>2 DEF j, k
<1>10. p[2] * (q[2] \div g) \in Nat \ {0}
  BY <1>1, <1>2, <1>4, <1>6, <1>7
<1> DEFINE z == p[2] * (q[2] \div g)
<1>11. FMonus(p, q) = Frac(s, z)
  BY <1>8, <1>9 DEF FMonus, g
<1> HIDE DEF s, z
<1>12. Frac(s, z)[1] \in Nat /\ \E h \in Nat \ {0} : s = h * Frac(s, z)[1]
  BY <1>8, <1>9, <1>10, FracIs DEF z
<1>13. Frac(s, z)[1] # 0
  BY <1>9, <1>12
<1>14. Frac(s, z)[1] > 0
  BY <1>12, <1>13
<1>15. FMonus(Frac(a, m), Frac(b, n))[1] > 0
  BY <1>11, <1>14 DEF p, q
<1> QED
  BY <1>15

\* The row a ratio request is resampled from after a rejection: weights, of which
\* one is positive, and only where the target wants more than the drafter.
LEMMA ResidualMassive ==
  ASSUME NEW w, WindowOK(w), w.kind = "ratio", NEW n \in 0..w.k,
         ~HasNaN(w.target[n]), \E y \in Tokens(w) : w.target[n][y] > 0,
         n < w.k => /\ w.drafts[n] >= 0 /\ ~HasNaN(w.draft[n])
                    /\ \E u \in Uniform : ~RatioTest(w, n, u)
  PROVE  LET row == Residual(w, n)
             t == w.target[n]
             q == w.draft[n]
         IN  /\ \A x \in Tokens(w) : row[x] \in Nat
             /\ \E x \in Tokens(w) : row[x] > 0
             /\ \A x \in Tokens(w) : row[x] > 0 =>
                  /\ t[x] > 0
                  /\ n < w.k =>
                       /\ x # w.drafts[n]
                       /\ ~w.oneHot =>
                            FMonus(TargetProb(w, n, x), DraftProb(w, n, x))[1] > 0
<1> DEFINE row == Residual(w, n)
           t == w.target[n]
           q == w.draft[n]
           d == w.drafts[n]
<1>0. w.k \in Nat /\ w.oneHot \in BOOLEAN
  BY SamplerAssumption DEF WindowOK
<1>1. \A x \in Tokens(w) : t[x] \in Nat
  BY Weights
<1>2. Total(w, t) \in Nat \ {0}
  BY <1>1, TotalIs
<1>3. CASE n = w.k
  <2>1. row = t
    BY <1>3 DEF Residual
  <2> QED
    BY <1>0, <1>1, <1>3, <2>1
<1>4. CASE n # w.k /\ w.oneHot
  <2>1. n \in 0..(w.k - 1) /\ n < w.k
    BY <1>0, <1>4
  <2>2. d \in Tokens(w) /\ t[d] < Total(w, t)
    BY <1>4, <2>1, RejectedShare
  <2>3. \A x \in Tokens(w) : row[x] = IF x = d THEN 0 ELSE t[x]
    <3>1. t \in [0..(TargetVocab - 1) -> Nat \cup {NaN}]
      BY SamplerAssumption DEF WindowOK
    <3>2. \A x \in Tokens(w) : x \in 0..(TargetVocab - 1)
      BY VocabType, SamplerAssumption DEF Tokens
    <3> QED
      BY <1>4, <3>1, <3>2 DEF Residual
  <2>4. PICK x \in Tokens(w) : x # d /\ t[x] > 0
    <3> HIDE DEF t, d
    <3> QED
      BY <1>1, <2>2, MassElsewhere
  <2>5. row[x] > 0
    BY <2>3, <2>4
  <2> HIDE DEF row, t, d
  <2>6. \A y \in Tokens(w) : row[y] \in Nat /\ (row[y] > 0 => t[y] > 0 /\ y # d)
    BY <1>1, <2>3
  <2> QED
    BY <1>4, <2>5, <2>6 DEF row, t, d
<1>5. CASE n # w.k /\ ~w.oneHot
  <2>1. n \in 0..(w.k - 1) /\ n < w.k
    BY <1>0, <1>5
  <2>2. d \in Tokens(w) /\ t[d] * Total(w, q) < q[d] * Total(w, t)
    BY <1>5, <2>1, RejectedShare
  <2>3. \A x \in Tokens(w) : q[x] \in Nat
    BY <1>5, <2>1, Weights
  <2>4. q[d] # 0
    BY <1>5, <2>1, <2>2 DEF WindowOK, Admissible
  <2>5. Total(w, q) \in Nat \ {0}
    <3>1. q[d] > 0
      BY <2>2, <2>3, <2>4
    <3> QED
      BY <2>2, <2>3, <3>1, TotalIs
  <2> DEFINE r(x) == t[x] * Total(w, q) - q[x] * Total(w, t)
  <2>6. \A x \in Tokens(w) : row[x] = IF r(x) > 0 THEN r(x) ELSE 0
    <3>1. Tau(w, n)[1] = 1 /\ Tau(w, n)[2] = 1
      BY DEF Tau, One
    <3>2. row = [x \in Tokens(w) |->
                   IF 1 * t[x] * Total(w, q) - 1 * q[x] * Total(w, t) \in Nat
                   THEN 1 * t[x] * Total(w, q) - 1 * q[x] * Total(w, t) ELSE 0]
      BY <1>5, <2>1, <3>1 DEF Residual
    <3> HIDE DEF row, t, q
    <3>3. ASSUME NEW x \in Tokens(w)
          PROVE  row[x] = IF r(x) > 0 THEN r(x) ELSE 0
      <4>1. /\ t[x] \in Nat /\ q[x] \in Nat
            /\ t[x] * Total(w, q) \in Nat /\ q[x] * Total(w, t) \in Nat
        BY <1>1, <1>2, <2>3, <2>5
      <4>2. 1 * t[x] * Total(w, q) - 1 * q[x] * Total(w, t) = r(x) /\ r(x) \in Int
        BY <1>2, <2>5, <4>1
      <4>3. row[x] = IF r(x) \in Nat THEN r(x) ELSE 0
        BY <3>2, <4>2
      <4> HIDE DEF r
      <4> QED
        BY <4>2, <4>3
    <3> QED
      BY <3>3
  <2>7. PICK x \in Tokens(w) : q[x] * Total(w, t) < t[x] * Total(w, q)
    <3> HIDE DEF t, q, d
    <3> QED
      BY <1>1, <2>2, <2>3, ShareElsewhere
  <2>8. ASSUME NEW y \in Tokens(w)
        PROVE  /\ row[y] \in Nat
               /\ row[y] > 0 <=> q[y] * Total(w, t) < t[y] * Total(w, q)
    <3>1. t[y] * Total(w, q) \in Nat /\ q[y] * Total(w, t) \in Nat
      BY <1>1, <1>2, <2>3, <2>5
    <3>2. row[y] = IF r(y) > 0 THEN r(y) ELSE 0
      BY <2>6
    <3> HIDE DEF row
    <3> QED
      BY <3>1, <3>2
  <2>9. ASSUME NEW y \in Tokens(w), row[y] > 0
        PROVE  /\ t[y] > 0 /\ y # d
               /\ FMonus(TargetProb(w, n, y), DraftProb(w, n, y))[1] > 0
    <3>1. q[y] * Total(w, t) < t[y] * Total(w, q)
      BY <2>8, <2>9
    <3>2. t[y] \in Nat /\ q[y] \in Nat
      BY <1>1, <2>3
    <3>3. TargetProb(w, n, y) = Frac(t[y], Total(w, t))
          /\ DraftProb(w, n, y) = Frac(q[y], Total(w, q))
      BY <1>5 DEF TargetProb, DraftProb
    <3> HIDE DEF t, q, d
    <3>4. t[y] # 0
      BY <1>2, <2>5, <3>1, <3>2
    <3>5. y # d
      <4> SUFFICES ASSUME y = d
                   PROVE  FALSE
        OBVIOUS
      <4>1. t[y] * Total(w, q) \in Nat /\ q[y] * Total(w, t) \in Nat
        BY <1>2, <2>5, <3>2
      <4>2. t[y] * Total(w, q) < q[y] * Total(w, t)
        BY <2>2
      <4> QED
        BY <3>1, <4>1, <4>2
    <3>6. FMonus(Frac(t[y], Total(w, t)), Frac(q[y], Total(w, q)))[1] > 0
      BY <1>2, <2>5, <3>1, <3>2, PositiveDifference
    <3> QED
      BY <3>2, <3>3, <3>4, <3>5, <3>6
  <2> QED
    BY <2>7, <2>8, <2>9
<1> QED
  BY <1>3, <1>4, <1>5

-------------------------------------------------------------------------------
(* The correction. *)

\* The draft at which a ratio request stopped has failed its test.
Rejected ==
  phase \in {"resample", "insert"} /\ ~window.greedy /\ window.kind = "ratio"
    /\ numSampled < window.k
  => \E u \in Uniform : ~RatioTest(window, numSampled, u)

\* The inductive invariant of the correction.
CInv == IInv /\ Rejected /\ CorrectionHasMass

\* No request starts with a rejected draft.
LEMMA CInit == Init => CInv
BY InitInv DEF Init, CInv, Rejected, CorrectionHasMass, Finished

\* The failed test is remembered until the token is drawn, and gives the residual
\* the mass it is drawn from.
LEMMA CNext == CInv /\ [Next]_vars => CInv'
<1> SUFFICES ASSUME CInv, [Next]_vars PROVE CInv'
  OBVIOUS
<1>1. IInv /\ IInv'
  BY NextInv DEF CInv
<1>2. /\ WindowOK(window) /\ window.k \in Nat /\ numSampled \in 0..(window.k + 1)
      /\ window.greedy \in BOOLEAN
  <2>1. WindowOK(window) /\ numSampled \in 0..(window.k + 1)
    BY <1>1 DEF IInv, TypeOK
  <2>2. window.k \in 0..NumSpec /\ window.greedy \in BOOLEAN
    BY <2>1 DEF WindowOK
  <2> QED
    BY <2>1, <2>2, SamplerAssumption
<1>3. CASE RejectGreedy
  <2>1. phase' = "resample" /\ window' = window /\ window.greedy
    BY <1>3 DEF RejectGreedy, Store
  <2> QED
    BY <1>1, <2>1 DEF CInv, Rejected, CorrectionHasMass, Finished
<1>4. CASE RejectRatio
  <2>1. PICK n \in 0..window.k :
          /\ window.kind # "synthetic" =>
               (n < window.k => MayAccept(n, RatioTest, FALSE))
          /\ Store(n, IF n < window.k THEN Max({0, window.drafts[n]}) ELSE Junk)
    BY <1>4 DEF RejectRatio
  <2>2. phase' = "resample" /\ window' = window /\ numSampled' = n
    BY <2>1 DEF Store
  <2>3. window.kind = "ratio" /\ n < window.k =>
          \E u \in Uniform : ~RatioTest(window, n, u)
    BY <2>1 DEF MayAccept
  <2>4. Rejected'
    <3>1. window.kind = "ratio" /\ n < window.k =>
            \E u \in Uniform : ~RatioTest(window', n, u)
      BY <2>2, <2>3
    <3> QED
      BY <2>2, <3>1 DEF Rejected
  <2> QED
    BY <1>1, <2>2, <2>4 DEF CInv, CorrectionHasMass, Finished
<1>5. CASE RejectBlock
  <2>1. phase' = "resample" /\ window' = window /\ window.kind = "block"
    BY <1>5 DEF RejectBlock
  <2> QED
    BY <1>1, <2>1 DEF CInv, Rejected, CorrectionHasMass, Finished
<1>6. CASE Resample
  <2>1. /\ phase = "resample" /\ phase' = "insert" /\ window' = window
        /\ numSampled' = numSampled
    BY <1>6 DEF Resample
  <2>2. Rejected'
    BY <2>1 DEF CInv, Rejected
  <2> QED
    BY <1>1, <2>1, <2>2 DEF CInv, CorrectionHasMass, Finished
<1>7. CASE InsertResampled
  <2> DEFINE n == numSampled
  <2>1. /\ phase = "insert" /\ phase' = "clamp" /\ window' = window /\ numSampled' = n + 1
        /\ Verified /\ Resampled /\ n \in 0..window.k
    BY <1>1, <1>7 DEF InsertResampled, IInv, Verified
  <2>2. SUFFICES ASSUME ~window.greedy, window.kind = "ratio",
                        n < window.k => window.drafts[n] >= 0 /\ ~HasNaN(window.draft[n]),
                        ~HasNaN(window.target[n]),
                        \E y \in Tokens(window) : window.target[n][y] > 0
                 PROVE  LET x == sampled'[n]
                        IN  /\ window.target[n][x] > 0
                            /\ n < window.k =>
                                 /\ x # window.drafts[n]
                                 /\ ~window.oneHot =>
                                      FMonus(TargetProb(window, n, x),
                                             DraftProb(window, n, x))[1] > 0
    <3>1. numSampled' - 1 = n
      BY <1>2, <2>1
    <3>2. Rejected'
      BY <2>1 DEF Rejected
    <3> QED
      BY <1>1, <2>1, <3>1, <3>2 DEF CInv, CorrectionHasMass
  <2>3. NeedsToken
    BY <2>2 DEF NeedsToken
  <2>4. PICK x \in GlobalArgmaxes(Residual(window, n), local, ResampleBlock,
                                  VocabSize(window), TRUE) :
          sampled' = [sampled EXCEPT ![n] = x]
    BY <1>7, <2>2, <2>3 DEF InsertResampled
  <2>5. sampled'[n] = x
    BY <1>1, <1>2, <2>1, <2>4, SamplerAssumption DEF IInv, TypeOK
  <2>6. local \in LocalArgmaxes(Residual(window, n), ResampleBlock, VocabSize(window), TRUE)
    BY <2>1, <2>2, <2>3 DEF Resampled, V
  <2>7. n < window.k => \E u \in Uniform : ~RatioTest(window, n, u)
    BY <2>1, <2>2 DEF CInv, Rejected
  <2> DEFINE row == Residual(window, n)
  <2>8. /\ \A y \in Tokens(window) : row[y] \in Nat
        /\ \E y \in Tokens(window) : row[y] > 0
        /\ \A y \in Tokens(window) : row[y] > 0 =>
             /\ window.target[n][y] > 0
             /\ n < window.k =>
                  /\ y # window.drafts[n]
                  /\ ~window.oneHot =>
                       FMonus(TargetProb(window, n, y), DraftProb(window, n, y))[1] > 0
    BY <1>2, <2>1, <2>2, <2>7, ResidualMassive
  <2>9. /\ VocabSize(window) \in Nat \ {0} /\ ResampleBlock \in Nat \ {0}
        /\ ResampleBlock <= VocabSize(window)
        /\ PaddedBlocks(Cdiv(VocabSize(window), ResampleBlock)) \in Nat
        /\ PaddedBlocks(Cdiv(VocabSize(window), ResampleBlock))
             >= Cdiv(VocabSize(window), ResampleBlock)
    BY <1>2, VocabType
  <2>10. x \in Tokens(window)
    BY <1>2, <2>1, <2>4, <2>6, ResampledInVocab DEF Tokens
  <2>11. row[x] > 0
    <3> HIDE DEF row, n
    <3>1. x \in GlobalArgmaxes(row, local, ResampleBlock, VocabSize(window), TRUE)
          /\ local \in LocalArgmaxes(row, ResampleBlock, VocabSize(window), TRUE)
      BY <2>4, <2>6 DEF row
    <3>2. PICK y \in Tokens(window) : row[y] > 0
      BY <2>8
    <3> QED
      BY <2>8, <2>9, <3>1, <3>2, NoisyWinner DEF Tokens
  <2> QED
    BY <2>5, <2>8, <2>10, <2>11
<1>8. CASE Clamp
  <2> DEFINE n == numSampled - 1
  <2>1. /\ phase = "clamp" /\ phase' = "done" /\ window' = window /\ numSampled' = numSampled
        /\ Inserted /\ Inserted'
    BY <1>1, <1>8 DEF Clamp, IInv, Finished
  <2>2. n \in 0..NumSpec /\ sampled[n] \in 0..(TargetVocab - 1)
    <3>1. n \in 0..window.k /\ window.k \in 0..NumSpec
      BY <1>2, <2>1 DEF Inserted, WindowOK
    <3>2. sampled[n] \in 0..(V - 1) /\ V \in Nat /\ V <= TargetVocab /\ TargetVocab \in Nat
      BY <1>2, <2>1, VocabType, SamplerAssumption DEF Inserted, V
    <3> QED
      BY <3>1, <3>2, SamplerAssumption
  <2>3. sampled'[n] = sampled[n]
    <3>1. sampled'[n] =
            Max({0, IF sampled[n] < TargetVocab THEN sampled[n] ELSE TargetVocab - 1})
      BY <1>8, <2>2 DEF Clamp
    <3> HIDE DEF n
    <3>2. sampled'[n] = Max({0, sampled[n]})
      <4>1. sampled[n] < TargetVocab
        BY <2>2, SamplerAssumption
      <4> QED
        BY <3>1, <4>1, Zenon
    <3>3. Max({0, sampled[n]}) = IF 0 >= sampled[n] THEN 0 ELSE sampled[n]
      BY <2>2, MaxOfPair
    <3> QED
      BY <2>2, <3>2, <3>3
  <2>4. Rejected'
    BY <2>1 DEF Rejected
  <2>5. CorrectionHasMass'
    BY <2>1, <2>3 DEF CInv, CorrectionHasMass, Finished
  <2> QED
    BY <1>1, <2>4, <2>5 DEF CInv
<1>9. CASE Done \/ UNCHANGED vars
  <2>1. UNCHANGED vars
    BY <1>9 DEF Done
  <2> QED
    BY <1>1, <2>1 DEF vars, CInv, Rejected, CorrectionHasMass, Finished
<1> QED
  BY <1>3, <1>4, <1>5, <1>6, <1>7, <1>8, <1>9 DEF Next

\* After a rejection the residual always has mass, and the token drawn from it is
\* one the target wants more than the drafter: never the rejected draft, never
\* one the target rules out.
THEOREM CorrectionMass == Spec => []CorrectionHasMass
<1>1. CInv => CorrectionHasMass
  BY DEF CInv
<1> QED
  BY CInit, CNext, <1>1, PTL DEF Spec

-------------------------------------------------------------------------------
(* Fractions as values: when two are equal, and what the operations make of them. *)

\* A quotient and a remainder are those of the division.
LEMMA DivisionUnique ==
  ASSUME NEW n \in Nat \ {0}, NEW q \in Nat, NEW r \in Nat, r < n
  PROVE  (q * n + r) % n = r
<1> DEFINE y == q * n + r
           e == y \div n
           t == y % n
<1>1. y \in Nat
  OBVIOUS
<1>2. e \in Nat /\ t \in 0..(n - 1) /\ y = e * n + t
  BY <1>1, Division
<1> HIDE DEF e, t
<1>3. n * (q - e) = t - r /\ q - e \in Int
  BY <1>2
<1>4. ASSUME q - e >= 1
      PROVE  FALSE
  <2>1. n * (q - e) >= n * 1
    BY <1>3, <1>4
  <2> QED
    BY <1>2, <1>3, <2>1
<1>5. ASSUME q - e <= -1
      PROVE  FALSE
  <2>1. n * (q - e) <= n * (-1)
    BY <1>3, <1>5
  <2> QED
    BY <1>2, <1>3, <2>1
<1>6. q - e = 0
  BY <1>3, <1>4, <1>5
<1>7. t = r
  BY <1>2, <1>3, <1>6
<1> QED
  BY <1>7 DEF t

\* The greatest common divisor of two multiples.  By a least second argument for
\* which it is another.
LEMMA GcdScales ==
  ASSUME NEW k \in Nat \ {0}, NEW a \in Nat, NEW b \in Nat
  PROVE  GCD[<<k * a, k * b>>] = k * GCD[<<a, b>>]
<1> DEFINE Good(x, y) == GCD[<<k * x, k * y>>] = k * GCD[<<x, y>>]
           T == {y \in Nat : \E x \in Nat : ~Good(x, y)}
<1>1. T = {}
  <2> SUFFICES ASSUME T # {}
               PROVE  FALSE
    OBVIOUS
  <2>1. PICK n \in T : \A m \in T : n <= m
    BY LeastNatural
  <2>2. PICK x \in Nat : ~Good(x, n)
    BY <2>1
  <2>3. n \in Nat
    BY <2>1
  <2>4. CASE n = 0
    <3>1. k * n = 0 /\ k * x \in Nat
      BY <2>4
    <3>2. GCD[<<k * x, 0>>] = k * x /\ GCD[<<x, 0>>] = x
      BY <3>1, GcdRecursion
    <3> QED
      BY <2>2, <2>4, <3>1, <3>2
  <2>5. CASE n # 0
    <3> DEFINE q == x \div n
               r == x % n
    <3>0. q \in Nat /\ r \in 0..(n - 1) /\ x = q * n + r
      BY <2>3, <2>5, Division
    <3> HIDE DEF q, r
    <3>1. q \in Nat /\ r \in Nat /\ r < n /\ x = q * n + r
      BY <2>3, <3>0
    <3>2. k * x = q * (k * n) + k * r /\ k * n \in Nat \ {0} /\ k * r \in Nat /\ k * x \in Nat
      BY <2>3, <2>5, <3>1
    <3>3. k * r < k * n
      BY <2>3, <3>1
    <3>4. (k * x) % (k * n) = k * r
      BY <3>1, <3>2, <3>3, DivisionUnique
    <3>5. GCD[<<k * x, k * n>>] = GCD[<<k * n, k * r>>]
      BY <3>2, <3>4, GcdRecursion
    <3>6. GCD[<<x, n>>] = GCD[<<n, r>>]
      BY <2>3, <2>5, GcdRecursion DEF r
    <3>7. r \notin T
      <4> HIDE DEF T
      <4>1. r \in T => n <= r
        BY <2>1
      <4> QED
        BY <2>3, <3>1, <4>1
    <3>8. Good(n, r)
      BY <2>3, <3>1, <3>7
    <3> QED
      BY <2>2, <3>5, <3>6, <3>8
  <2> QED
    BY <2>4, <2>5
<1> QED
  BY <1>1

\* A fraction does not change when both parts are multiplied.
LEMMA FracScales ==
  ASSUME NEW k \in Nat \ {0}, NEW n \in Nat, NEW d \in Nat \ {0}
  PROVE  Frac(k * n, k * d) = Frac(n, d)
<1> DEFINE g == GCD[<<n, d>>]
<1>1. g \in Nat \ {0} /\ Divides(g, n) /\ Divides(g, d)
  BY GcdDivides
<1>2. GCD[<<k * n, k * d>>] = k * g
  BY GcdScales
<1>3. Frac(n, d) = <<n \div g, d \div g>>
  BY DEF Frac
<1>4. Frac(k * n, k * d) = <<(k * n) \div (k * g), (k * d) \div (k * g)>>
  BY <1>2 DEF Frac
<1> HIDE DEF g
<1>5. PICK c \in Nat : n = g * c
  BY <1>1 DEF Divides
<1>6. PICK e \in Nat : d = g * e
  BY <1>1 DEF Divides
<1>7. k * n = (k * g) * c /\ k * d = (k * g) * e /\ k * g \in Nat \ {0}
  BY <1>1, <1>5, <1>6
<1>8. n \div g = c /\ d \div g = e
  BY <1>1, <1>5, <1>6, ExactDivision
<1>9. (k * n) \div (k * g) = c /\ (k * d) \div (k * g) = e
  BY <1>7, ExactDivision
<1> QED
  BY <1>3, <1>4, <1>8, <1>9

\* Two fractions are equal when the cross products are.
LEMMA SameFrac ==
  ASSUME NEW n \in Nat, NEW d \in Nat \ {0}, NEW m \in Nat, NEW e \in Nat \ {0},
         n * e = m * d
  PROVE  Frac(n, d) = Frac(m, e)
<1>1. Frac(e * n, e * d) = Frac(n, d) /\ Frac(d * m, d * e) = Frac(m, e)
  BY FracScales
<1>2. e * n = d * m /\ e * d = d * e
  OBVIOUS
<1> QED
  BY <1>1, <1>2

\* Nothing, and the whole.
LEMMA WholeFracs ==
  ASSUME NEW d \in Nat \ {0}
  PROVE  Frac(0, d) = <<0, 1>> /\ Frac(d, d) = One
<1>1. GCD[<<0, 1>>] = 1 /\ GCD[<<1, 1>>] = 1
  <2>1. 0 % 1 = 0 /\ 1 % 1 = 0
    OBVIOUS
  <2>2. GCD[<<0, 1>>] = GCD[<<1, 0>>] /\ GCD[<<1, 1>>] = GCD[<<1, 0>>]
    BY <2>1, GcdRecursion
  <2> QED
    BY <2>2, GcdRecursion
<1>2. 0 \div 1 = 0 /\ 1 \div 1 = 1
  OBVIOUS
<1>3. Frac(0, 1) = <<0, 1>> /\ Frac(1, 1) = <<1, 1>>
  BY <1>1, <1>2 DEF Frac
<1>4. 0 * 1 = 0 * d /\ d * 1 = 1 * d
  OBVIOUS
<1>5. Frac(0, d) = Frac(0, 1) /\ Frac(d, d) = Frac(1, 1)
  BY <1>4, SameFrac
<1> QED
  BY <1>3, <1>5 DEF One

\* The lowest terms of a fraction, and what they were divided by.
LEMMA LowestTerms ==
  ASSUME NEW n \in Nat, NEW d \in Nat \ {0}
  PROVE  \E p \in Nat, q \in Nat \ {0}, g \in Nat \ {0} :
           Frac(n, d) = <<p, q>> /\ n = g * p /\ d = g * q
<1>1. PICK g \in Nat \ {0} : n = g * Frac(n, d)[1] /\ d = g * Frac(n, d)[2]
  BY FracIs
<1>2. Frac(n, d) = <<Frac(n, d)[1], Frac(n, d)[2]>>
  BY DEF Frac
<1>3. Frac(n, d)[1] \in Nat /\ Frac(n, d)[2] \in Nat \ {0}
  BY FracIs
<1> QED
  BY <1>1, <1>2, <1>3

\* A product.
LEMMA MulFracs ==
  ASSUME NEW a \in Nat, NEW b \in Nat \ {0}, NEW c \in Nat, NEW d \in Nat \ {0}
  PROVE  FMul(Frac(a, b), Frac(c, d)) = Frac(a * c, b * d)
<1>1. PICK p \in Nat, q \in Nat \ {0}, g \in Nat \ {0} :
        Frac(a, b) = <<p, q>> /\ a = g * p /\ b = g * q
  BY LowestTerms
<1>2. PICK r \in Nat, s \in Nat \ {0}, h \in Nat \ {0} :
        Frac(c, d) = <<r, s>> /\ c = h * r /\ d = h * s
  BY LowestTerms
<1>3. FMul(Frac(a, b), Frac(c, d)) = Frac(p * r, q * s)
  BY <1>1, <1>2 DEF FMul
<1> DEFINE k == g * h
           x == p * r
           y == q * s
<1>4. a * c = k * x /\ b * d = k * y
  BY <1>1, <1>2
<1>5. k \in Nat \ {0} /\ x \in Nat /\ y \in Nat \ {0}
  OBVIOUS
<1>6. FMul(Frac(a, b), Frac(c, d)) = Frac(x, y)
  BY <1>3
<1> HIDE DEF k, x, y
<1> QED
  BY <1>4, <1>5, <1>6, FracScales

\* The same, under a name that stays visible when the factors are known otherwise.
MulIs(a, b, c, d) == FMul(Frac(a, b), Frac(c, d)) = Frac(a * c, b * d)

\* It always holds.
LEMMA MulHolds ==
  ASSUME NEW a \in Nat, NEW b \in Nat \ {0}, NEW c \in Nat, NEW d \in Nat \ {0}
  PROVE  MulIs(a, b, c, d)
BY MulFracs DEF MulIs

\* The least common denominator, from the lowest terms.
LEMMA CommonDenominator ==
  ASSUME NEW q \in Nat \ {0}, NEW s \in Nat \ {0}
  PROVE  \E u \in Nat \ {0}, v \in Nat \ {0}, G \in Nat \ {0} :
           /\ GCD[<<q, s>>] = G /\ q = G * u /\ s = G * v
           /\ q \div G = u /\ s \div G = v
<1> DEFINE G == GCD[<<q, s>>]
<1>1. G \in Nat \ {0} /\ Divides(G, q) /\ Divides(G, s)
  BY GcdDivides
<1> HIDE DEF G
<1>2. PICK u \in Nat : q = G * u
  BY <1>1 DEF Divides
<1>3. PICK v \in Nat : s = G * v
  BY <1>1 DEF Divides
<1>4. u # 0 /\ v # 0
  BY <1>1, <1>2, <1>3
<1>5. q \div G = u /\ s \div G = v
  BY <1>1, <1>2, <1>3, ExactDivision
<1> QED
  BY <1>1, <1>2, <1>3, <1>4, <1>5 DEF G

\* A sum.
LEMMA AddFracs ==
  ASSUME NEW a \in Nat, NEW b \in Nat \ {0}, NEW c \in Nat, NEW d \in Nat \ {0}
  PROVE  FAdd(Frac(a, b), Frac(c, d)) = Frac(a * d + c * b, b * d)
<1>1. PICK p \in Nat, q \in Nat \ {0}, g \in Nat \ {0} :
        Frac(a, b) = <<p, q>> /\ a = g * p /\ b = g * q
  BY LowestTerms
<1>2. PICK r \in Nat, s \in Nat \ {0}, h \in Nat \ {0} :
        Frac(c, d) = <<r, s>> /\ c = h * r /\ d = h * s
  BY LowestTerms
<1>3. PICK u \in Nat \ {0}, v \in Nat \ {0}, G \in Nat \ {0} :
        /\ GCD[<<q, s>>] = G /\ q = G * u /\ s = G * v
        /\ q \div G = u /\ s \div G = v
  BY CommonDenominator
<1> DEFINE x == p * v + r * u
           y == q * v
           k == (g * h) * G
<1>4. FAdd(Frac(a, b), Frac(c, d)) = Frac(x, y)
  <2>1. FAdd(<<p, q>>, <<r, s>>) = Frac(p * (s \div G) + r * (q \div G), q * (s \div G))
    BY <1>3 DEF FAdd
  <2> QED
    BY <1>1, <1>2, <1>3, <2>1
<1>5. a * d = k * (p * v) /\ c * b = k * (r * u) /\ b * d = k * y
  BY <1>1, <1>2, <1>3
<1>6. k \in Nat \ {0} /\ x \in Nat /\ y \in Nat \ {0}
  OBVIOUS
<1>7. a * d + c * b = k * x
  <2>1. p * v \in Nat /\ r * u \in Nat /\ k \in Nat
    OBVIOUS
  <2> HIDE DEF k
  <2>2. k * (p * v) + k * (r * u) = k * x
    BY <2>1
  <2> QED
    BY <1>5, <2>2
<1> HIDE DEF x, y, k
<1> QED
  BY <1>4, <1>5, <1>6, <1>7, FracScales

\* Naturals minus one another, but not below zero.
Monus(a, b) == IF a <= b THEN 0 ELSE a - b

\* A difference.
LEMMA MonusFracs ==
  ASSUME NEW a \in Nat, NEW b \in Nat \ {0}, NEW c \in Nat, NEW d \in Nat \ {0}
  PROVE  FMonus(Frac(a, b), Frac(c, d)) = Frac(Monus(a * d, c * b), b * d)
<1>1. PICK p \in Nat, q \in Nat \ {0}, g \in Nat \ {0} :
        Frac(a, b) = <<p, q>> /\ a = g * p /\ b = g * q
  BY LowestTerms
<1>2. PICK r \in Nat, s \in Nat \ {0}, h \in Nat \ {0} :
        Frac(c, d) = <<r, s>> /\ c = h * r /\ d = h * s
  BY LowestTerms
<1>3. PICK u \in Nat \ {0}, v \in Nat \ {0}, G \in Nat \ {0} :
        /\ GCD[<<q, s>>] = G /\ q = G * u /\ s = G * v
        /\ q \div G = u /\ s \div G = v
  BY CommonDenominator
<1> DEFINE x == p * v - r * u
           y == q * v
           k == (g * h) * G
<1>4. FMonus(Frac(a, b), Frac(c, d)) = IF x <= 0 THEN <<0, 1>> ELSE Frac(x, y)
  <2>1. FMonus(<<p, q>>, <<r, s>>) =
          IF p * (s \div G) - r * (q \div G) <= 0 THEN <<0, 1>>
          ELSE Frac(p * (s \div G) - r * (q \div G), q * (s \div G))
    BY <1>3 DEF FMonus
  <2> QED
    BY <1>1, <1>2, <1>3, <2>1
<1>5. a * d = k * (p * v) /\ c * b = k * (r * u) /\ b * d = k * y
  BY <1>1, <1>2, <1>3
<1>6. k \in Nat \ {0} /\ x \in Int /\ y \in Nat \ {0} /\ b * d \in Nat \ {0}
  OBVIOUS
<1>7. a * d - c * b = k * x
  <2>1. p * v \in Nat /\ r * u \in Nat /\ k \in Nat
    OBVIOUS
  <2> HIDE DEF k
  <2>2. k * (p * v) - k * (r * u) = k * x
    BY <2>1
  <2> QED
    BY <1>5, <2>2
<1>8. a * d \in Nat /\ c * b \in Nat
  OBVIOUS
<1> HIDE DEF x, y, k
<1>9. CASE x <= 0
  <2>1. k * x <= k * 0
    BY <1>6, <1>9
  <2>2. Monus(a * d, c * b) = 0
    BY <1>6, <1>7, <1>8, <2>1 DEF Monus
  <2> QED
    BY <1>4, <1>6, <1>9, <2>2, WholeFracs
<1>10. CASE x > 0
  <2>1. k * x >= 1
    BY <1>6, <1>10
  <2>2. Monus(a * d, c * b) = k * x
    BY <1>6, <1>7, <1>8, <2>1 DEF Monus
  <2>0. x \in Nat
    BY <1>6, <1>10
  <2>3. Frac(k * x, k * y) = Frac(x, y)
    <3>1. \A e \in Nat \ {0}, m \in Nat, w \in Nat \ {0} : Frac(e * m, e * w) = Frac(m, w)
      BY FracScales
    <3>2. k \in Nat \ {0}
      BY <1>6
    <3>3. y \in Nat \ {0}
      BY <1>6
    <3>4. x \in Nat
      BY <2>0
    <3>5. \A m \in Nat, w \in Nat \ {0} : Frac(k * m, k * w) = Frac(m, w)
      BY <3>1, <3>2
    <3> QED
      BY <3>3, <3>4, <3>5
  <2> QED
    BY <1>4, <1>5, <1>6, <1>10, <2>2, <2>3
<1> QED
  BY <1>6, <1>9, <1>10

\* The lesser of two.
LEMMA MinFracs ==
  ASSUME NEW a \in Nat, NEW b \in Nat \ {0}, NEW c \in Nat, NEW d \in Nat \ {0}
  PROVE  FMin(Frac(a, b), Frac(c, d)) = IF a * d <= c * b THEN Frac(a, b) ELSE Frac(c, d)
<1>1. PICK p \in Nat, q \in Nat \ {0}, g \in Nat \ {0} :
        Frac(a, b) = <<p, q>> /\ a = g * p /\ b = g * q
  BY LowestTerms
<1>2. PICK r \in Nat, s \in Nat \ {0}, h \in Nat \ {0} :
        Frac(c, d) = <<r, s>> /\ c = h * r /\ d = h * s
  BY LowestTerms
<1>3. r * q < p * s <=> c * b < a * d
  <2>1. (h * r) * (g * q) < (g * p) * (h * s) <=> r * q < p * s
    BY CrossProducts
  <2> QED
    BY <1>1, <1>2, <2>1
<1>4. p * s \in Nat /\ r * q \in Nat /\ a * d \in Nat /\ c * b \in Nat
  OBVIOUS
<1>5. p * s <= r * q <=> a * d <= c * b
  BY <1>3, <1>4
<1> QED
  BY <1>1, <1>2, <1>5 DEF FMin

-------------------------------------------------------------------------------
(* The laws' instance of the kernels computes with the same fractions. *)

\* The operations are the same.
LEMMA LawFracs ==
  /\ \A n, d : Laws!Frac(n, d) = Frac(n, d)
  /\ \A a, b : Laws!FMul(a, b) = FMul(a, b)
  /\ \A a, b : Laws!FAdd(a, b) = FAdd(a, b)
  /\ \A a, b : Laws!FMonus(a, b) = FMonus(a, b)
  /\ \A a, b : Laws!FMin(a, b) = FMin(a, b)
  /\ Laws!One = One
<1>1. Laws!GCD = GCD
  BY DEF Laws!GCD, GCD
<1>2. \A n, d : Laws!Frac(n, d) = Frac(n, d)
  BY <1>1 DEF Laws!Frac, Frac
<1>3. \A a, b : Laws!FMul(a, b) = FMul(a, b)
  BY <1>2 DEF Laws!FMul, FMul
<1>4. \A a, b : Laws!FAdd(a, b) = FAdd(a, b)
  BY <1>1, <1>2 DEF Laws!FAdd, FAdd
<1>5. \A a, b : Laws!FMonus(a, b) = FMonus(a, b)
  BY <1>1, <1>2 DEF Laws!FMonus, FMonus
<1>6. \A a, b : Laws!FMin(a, b) = FMin(a, b)
  BY DEF Laws!FMin, FMin
<1>7. Laws!One = One
  BY DEF Laws!One, One
<1> QED
  BY <1>2, <1>3, <1>4, <1>5, <1>6, <1>7

-------------------------------------------------------------------------------
(* Sums, whatever element is taken first. *)

\* What holds of the empty set, and of a set if it holds of all that have one element
\* less, holds of all parts of a finite set.
LEMMA PartInduction ==
  ASSUME NEW S, IsFiniteSet(S), NEW G, {} \in G,
         \A s \in SUBSET S : s # {} /\ (\A x \in s : s \ {x} \in G) => s \in G
  PROVE  \A s \in SUBSET S : s \in G
<1> DEFINE T == {n \in Nat : \E s \in SUBSET S : Cardinality(s) = n /\ s \notin G}
<1>1. \A s \in SUBSET S : IsFiniteSet(s) /\ Cardinality(s) \in Nat
  BY FS_Subset, FS_CardinalityType
<1>2. T = {}
  <2> SUFFICES ASSUME T # {}
               PROVE  FALSE
    OBVIOUS
  <2>1. PICK n \in T : \A m \in T : n <= m
    BY LeastNatural
  <2>2. PICK s \in SUBSET S : Cardinality(s) = n /\ s \notin G
    BY <2>1
  <2>3. s # {}
    BY <2>2
  <2>4. ASSUME NEW x \in s
        PROVE  s \ {x} \in G
    <3>1. s \ {x} \in SUBSET S /\ Cardinality(s \ {x}) = n - 1 /\ Cardinality(s \ {x}) \in Nat
      BY <1>1, <2>2, FS_RemoveElement
    <3>2. n \in Nat
      BY <2>1
    <3> SUFFICES ASSUME s \ {x} \notin G
                 PROVE  FALSE
      OBVIOUS
    <3>3. n - 1 \in T
      BY <3>1
    <3> HIDE DEF T
    <3> QED
      BY <2>1, <3>2, <3>3
  <2> QED
    BY <2>2, <2>3, <2>4
<1> QED
  BY <1>1, <1>2

\* The sum over a part of S is that over the rest of it and any element.
LEMMA SumTakes ==
  ASSUME NEW S, IsFiniteSet(S), NEW f, \A x \in S : f[x] \in Nat
  PROVE  /\ Sums(f, S)[{}] = 0
         /\ \A s \in SUBSET S : Sums(f, S)[s] \in Nat
         /\ \A s \in SUBSET S : \A x \in s : Sums(f, S)[s] = f[x] + Sums(f, S)[s \ {x}]
<1> DEFINE F == Sums(f, S)
           N == {s \in SUBSET S : F[s] \in Nat}
           G == {s \in SUBSET S : \A x \in s : F[s] = f[x] + F[s \ {x}]}
<1>1. \A s \in SUBSET S : F[s] = Added(F, f, s)
  BY SumStep
<1> HIDE DEF F
<1>2. F[{}] = 0
  BY <1>1 DEF Added
<1>3. \A s \in SUBSET S : F[s] \in Nat
  <2>1. {} \in N
    BY <1>2
  <2>2. ASSUME NEW s \in SUBSET S, s # {}, \A x \in s : s \ {x} \in N
        PROVE  s \in N
    <3>1. First(s) \in s
      BY <2>2 DEF First
    <3>2. F[s] = f[First(s)] + F[s \ {First(s)}]
      BY <1>1, <2>2 DEF Added
    <3> QED
      BY <2>2, <3>1, <3>2
  <2> HIDE DEF N
  <2>3. \A s \in SUBSET S : s \in N
    BY <2>1, <2>2, PartInduction
  <2> QED
    BY <2>3 DEF N
<1>4. {} \in G
  OBVIOUS
<1>5. ASSUME NEW s \in SUBSET S, s # {}, \A x \in s : s \ {x} \in G
      PROVE  s \in G
  <2> DEFINE y == First(s)
  <2>1. y \in s
    BY <1>5 DEF First
  <2>2. F[s] = f[y] + F[s \ {y}]
    BY <1>1, <1>5 DEF Added
  <2> HIDE DEF y
  <2>3. ASSUME NEW x \in s, x # y
        PROVE  F[s] = f[x] + F[s \ {x}]
    <3>1. (s \ {y}) \ {x} = s \ {x, y} /\ (s \ {x}) \ {y} = s \ {x, y}
      OBVIOUS
    <3>2. F[s \ {y}] = f[x] + F[s \ {x, y}]
      BY <1>5, <2>1, <2>3, <3>1
    <3>3. F[s \ {x}] = f[y] + F[s \ {x, y}]
      BY <1>5, <2>1, <2>3, <3>1
    <3>4. F[s \ {x, y}] \in Nat /\ f[x] \in Nat /\ f[y] \in Nat
      BY <1>3, <2>1
    <3> QED
      BY <2>2, <3>2, <3>3, <3>4
  <2> QED
    BY <2>2, <2>3
<1> HIDE DEF G
<1>6. \A s \in SUBSET S : s \in G
  BY <1>4, <1>5, PartInduction
<1> QED
  BY <1>2, <1>3, <1>6 DEF F, G

\* The sum of two rows, term by term.
LEMMA SumAdds ==
  ASSUME NEW S, IsFiniteSet(S), NEW f, NEW g, NEW h,
         \A x \in S : f[x] \in Nat /\ g[x] \in Nat /\ h[x] = f[x] + g[x]
  PROVE  /\ Sums(f, S)[S] \in Nat /\ Sums(g, S)[S] \in Nat
         /\ Sums(h, S)[S] = Sums(f, S)[S] + Sums(g, S)[S]
<1> DEFINE F == Sums(f, S)
           G == Sums(g, S)
           H == Sums(h, S)
           L == {s \in SUBSET S : H[s] = F[s] + G[s]}
<1>0. \A x \in S : f[x] \in Nat /\ g[x] \in Nat /\ h[x] \in Nat
  OBVIOUS
<1>1. (\A x \in S : f[x] \in Nat) /\ (\A x \in S : g[x] \in Nat) /\ (\A x \in S : h[x] \in Nat)
  BY <1>0
<1>9. ASSUME NEW e, \A x \in S : e[x] \in Nat
      PROVE  /\ Sums(e, S)[{}] = 0 /\ \A s \in SUBSET S : Sums(e, S)[s] \in Nat
             /\ \A s \in SUBSET S : \A x \in s : Sums(e, S)[s] = e[x] + Sums(e, S)[s \ {x}]
  BY <1>9, SumTakes
<1>2. /\ F[{}] = 0 /\ \A s \in SUBSET S : F[s] \in Nat
      /\ \A s \in SUBSET S : \A x \in s : F[s] = f[x] + F[s \ {x}]
  BY <1>1, <1>9
<1>3. /\ G[{}] = 0 /\ \A s \in SUBSET S : G[s] \in Nat
      /\ \A s \in SUBSET S : \A x \in s : G[s] = g[x] + G[s \ {x}]
  BY <1>1, <1>9
<1>4. /\ H[{}] = 0 /\ \A s \in SUBSET S : H[s] \in Nat
      /\ \A s \in SUBSET S : \A x \in s : H[s] = h[x] + H[s \ {x}]
  BY <1>1, <1>9
<1> HIDE DEF F, G, H
<1>5. {} \in L
  BY <1>2, <1>3, <1>4
<1>6. ASSUME NEW s \in SUBSET S, s # {}, \A x \in s : s \ {x} \in L
      PROVE  s \in L
  <2>1. PICK x \in s : TRUE
    BY <1>6
  <2> DEFINE r == s \ {x}
  <2>2. r \in SUBSET S /\ x \in S
    OBVIOUS
  <2>3. F[s] = f[x] + F[r] /\ G[s] = g[x] + G[r] /\ H[s] = h[x] + H[r]
    BY <1>2, <1>3, <1>4
  <2>4. H[r] = F[r] + G[r]
    BY <1>6
  <2> HIDE DEF r
  <2>5. F[r] \in Nat /\ G[r] \in Nat /\ f[x] \in Nat /\ g[x] \in Nat
    BY <1>1, <1>2, <1>3, <2>2
  <2>6. h[x] = f[x] + g[x]
    BY <2>2
  <2>7. H[s] = F[s] + G[s]
    BY <2>3, <2>4, <2>5, <2>6
  <2> QED
    BY <2>7
<1> HIDE DEF L
<1>7. \A s \in SUBSET S : s \in L
  BY <1>5, <1>6, PartInduction
<1>8. S \in L
  BY <1>7
<1> QED
  BY <1>2, <1>3, <1>8 DEF F, G, H, L

\* The sum of a multiple.
LEMMA SumScales ==
  ASSUME NEW S, IsFiniteSet(S), NEW f, NEW h, NEW k \in Nat,
         \A x \in S : f[x] \in Nat /\ h[x] = k * f[x]
  PROVE  Sums(f, S)[S] \in Nat /\ Sums(h, S)[S] = k * Sums(f, S)[S]
<1> DEFINE F == Sums(f, S)
           H == Sums(h, S)
           L == {s \in SUBSET S : H[s] = k * F[s]}
<1>1. (\A x \in S : f[x] \in Nat) /\ (\A x \in S : h[x] \in Nat)
  OBVIOUS
<1>9. ASSUME NEW e, \A x \in S : e[x] \in Nat
      PROVE  /\ Sums(e, S)[{}] = 0 /\ \A s \in SUBSET S : Sums(e, S)[s] \in Nat
             /\ \A s \in SUBSET S : \A x \in s : Sums(e, S)[s] = e[x] + Sums(e, S)[s \ {x}]
  BY <1>9, SumTakes
<1>2. /\ F[{}] = 0 /\ \A s \in SUBSET S : F[s] \in Nat
      /\ \A s \in SUBSET S : \A x \in s : F[s] = f[x] + F[s \ {x}]
  BY <1>1, <1>9
<1>4. /\ H[{}] = 0 /\ \A s \in SUBSET S : H[s] \in Nat
      /\ \A s \in SUBSET S : \A x \in s : H[s] = h[x] + H[s \ {x}]
  BY <1>1, <1>9
<1> HIDE DEF F, H
<1>5. {} \in L
  BY <1>2, <1>4
<1>6. ASSUME NEW s \in SUBSET S, s # {}, \A x \in s : s \ {x} \in L
      PROVE  s \in L
  <2>1. PICK x \in s : TRUE
    BY <1>6
  <2> DEFINE r == s \ {x}
  <2>2. r \in SUBSET S /\ x \in S
    OBVIOUS
  <2>3. F[s] = f[x] + F[r] /\ H[s] = h[x] + H[r]
    BY <1>2, <1>4
  <2>4. H[r] = k * F[r]
    BY <1>6
  <2> HIDE DEF r
  <2>5. F[r] \in Nat /\ f[x] \in Nat
    BY <1>1, <1>2, <2>2
  <2>6. h[x] = k * f[x]
    BY <2>2
  <2>7. k * (f[x] + F[r]) = k * f[x] + k * F[r]
    BY <2>5
  <2>8. H[s] = k * F[s]
    BY <2>3, <2>4, <2>5, <2>6, <2>7
  <2> QED
    BY <2>8
<1> HIDE DEF L
<1>7. \A s \in SUBSET S : s \in L
  BY <1>5, <1>6, PartInduction
<1>8. S \in L
  BY <1>7
<1> QED
  BY <1>2, <1>8 DEF F, H, L

\* Terms that are zero may be left out.
LEMMA SumOfPart ==
  ASSUME NEW A, IsFiniteSet(A), NEW S \in SUBSET A, NEW f,
         \A x \in A : f[x] \in Nat, \A x \in A : x \notin S => f[x] = 0
  PROVE  IsFiniteSet(S) /\ Sums(f, S)[S] \in Nat /\ Sums(f, S)[S] = Sums(f, A)[A]
<1> DEFINE F == Sums(f, A)
           P == Sums(f, S)
           L == {s \in SUBSET A : F[s] = P[s \cap S]}
<1>0. IsFiniteSet(S)
  BY FS_Subset
<1>1. /\ F[{}] = 0 /\ \A s \in SUBSET A : F[s] \in Nat
      /\ \A s \in SUBSET A : \A x \in s : F[s] = f[x] + F[s \ {x}]
  BY SumTakes
<1>2. /\ P[{}] = 0 /\ \A s \in SUBSET S : P[s] \in Nat
      /\ \A s \in SUBSET S : \A x \in s : P[s] = f[x] + P[s \ {x}]
  <2>1. \A x \in S : f[x] \in Nat
    OBVIOUS
  <2> QED
    BY <1>0, <2>1, SumTakes
<1> HIDE DEF F, P
<1>3. {} \in L
  <2>1. {} \cap S = {}
    OBVIOUS
  <2> QED
    BY <1>1, <1>2, <2>1
<1>4. ASSUME NEW s \in SUBSET A, s # {}, \A x \in s : s \ {x} \in L
      PROVE  s \in L
  <2>1. PICK x \in s : TRUE
    BY <1>4
  <2>2. F[s] = f[x] + F[s \ {x}] /\ F[s \ {x}] = P[(s \ {x}) \cap S]
    BY <1>1, <1>4
  <2>3. F[s \ {x}] \in Nat
    BY <1>1
  <2>4. CASE x \in S
    <3>1. (s \ {x}) \cap S = (s \cap S) \ {x} /\ s \cap S \in SUBSET S /\ x \in s \cap S
      BY <2>4
    <3>2. P[s \cap S] = f[x] + P[(s \cap S) \ {x}]
      BY <1>2, <3>1
    <3> QED
      BY <2>2, <3>1, <3>2
  <2>5. CASE x \notin S
    <3>1. (s \ {x}) \cap S = s \cap S
      BY <2>5
    <3>2. f[x] = 0
      BY <2>5
    <3>3. F[s] = F[s \ {x}]
      BY <2>2, <2>3, <3>2
    <3> QED
      BY <2>2, <3>1, <3>3
  <2> QED
    BY <2>4, <2>5
<1> HIDE DEF L
<1>5. \A s \in SUBSET A : s \in L
  BY <1>3, <1>4, PartInduction
<1>6. A \in L /\ A \cap S = S
  BY <1>5
<1> QED
  BY <1>0, <1>2, <1>6 DEF F, P, L

-------------------------------------------------------------------------------
(* Sums of fractions with one denominator. *)

\* A step of it.
FoldStep(h, t, s) == IF s = {} THEN <<0, 1>> ELSE FAdd(t[First(s)], h[s \ {First(s)}])
\* A fold of the fractions t[x] over S.
FoldEq(h, t, S) == h = [s \in SUBSET S |-> FoldStep(h, t, s)]

\* With the terms f[x] / M a step adds numerators.
LEMMA FoldAdds ==
  ASSUME NEW S, IsFiniteSet(S), NEW f, NEW t, NEW M \in Nat \ {0},
         \A x \in S : f[x] \in Nat /\ t[x] = Frac(f[x], M)
  PROVE  \A s \in SUBSET S : s # {} =>
           Frac(Sums(f, S)[s], M) = FAdd(t[First(s)], Frac(Sums(f, S)[s \ {First(s)}], M))
<1> SUFFICES ASSUME NEW s \in SUBSET S, s # {}
             PROVE  Frac(Sums(f, S)[s], M) = FAdd(t[First(s)], Frac(Sums(f, S)[s \ {First(s)}], M))
  OBVIOUS
<1> DEFINE y == First(s)
           F == Sums(f, S)
           m == F[s]
           n == F[s \ {y}]
<1>1. y \in s
  BY DEF First
<1>2. m = f[y] + n /\ n \in Nat /\ f[y] \in Nat
  <2>1. \A x \in S : f[x] \in Nat
    OBVIOUS
  <2>2. /\ \A r \in SUBSET S : F[r] \in Nat
        /\ \A r \in SUBSET S : \A x \in r : F[r] = f[x] + F[r \ {x}]
    BY <2>1, SumTakes
  <2> HIDE DEF F, y
  <2> QED
    BY <1>1, <2>1, <2>2
<1>3. t[y] = Frac(f[y], M)
  BY <1>1
<1> HIDE DEF y, m, n
<1>4. FAdd(Frac(f[y], M), Frac(n, M)) = Frac(f[y] * M + n * M, M * M)
  BY <1>2, AddFracs
<1>5. f[y] * M + n * M = M * m
  BY <1>2
<1>6. Frac(M * m, M * M) = Frac(m, M)
  <2>1. m \in Nat
    BY <1>2
  <2> QED
    BY <2>1, FracScales
<1>7. Frac(m, M) = FAdd(t[y], Frac(n, M))
  BY <1>3, <1>4, <1>5, <1>6
<1> QED
  BY <1>7 DEF y, m, n

\* The recursion of the fold has a solution, the sum of the numerators.
LEMMA FoldExists ==
  ASSUME NEW S, IsFiniteSet(S), NEW f, NEW t, NEW M \in Nat \ {0},
         \A x \in S : f[x] \in Nat /\ t[x] = Frac(f[x], M)
  PROVE  \E h : FoldEq(h, t, S)
<1> DEFINE h == [s \in SUBSET S |-> Frac(Sums(f, S)[s], M)]
<1>1. \A x \in S : f[x] \in Nat
  OBVIOUS
<1>2. Sums(f, S)[{}] = 0
  BY <1>1, SumTakes
<1>3. ASSUME NEW s \in SUBSET S
      PROVE  h[s] = FoldStep(h, t, s)
  <2>1. CASE s = {}
    BY <1>2, <2>1, WholeFracs DEF FoldStep
  <2>2. CASE s # {}
    <3>1. h[s \ {First(s)}] = Frac(Sums(f, S)[s \ {First(s)}], M)
      OBVIOUS
    <3>2. h[s] = Frac(Sums(f, S)[s], M)
      OBVIOUS
    <3> HIDE DEF h
    <3>3. Frac(Sums(f, S)[s], M) = FAdd(t[First(s)], Frac(Sums(f, S)[s \ {First(s)}], M))
      BY <2>2, FoldAdds
    <3> QED
      BY <2>2, <3>1, <3>2, <3>3 DEF FoldStep
  <2> QED
    BY <2>1, <2>2
<1>4. h = [s \in SUBSET S |-> FoldStep(h, t, s)]
  BY <1>3
<1>5. FoldEq(h, t, S)
  BY <1>4 DEF FoldEq
<1> HIDE DEF h
<1> QED
  BY <1>5

\* Whatever solves it is that sum.
LEMMA FoldIs ==
  ASSUME NEW S, IsFiniteSet(S), NEW f, NEW t, NEW M \in Nat \ {0},
         \A x \in S : f[x] \in Nat /\ t[x] = Frac(f[x], M),
         NEW h, FoldEq(h, t, S)
  PROVE  h[S] = Frac(Sums(f, S)[S], M)
<1> DEFINE L == {s \in SUBSET S : h[s] = Frac(Sums(f, S)[s], M)}
<1>0. \A s \in SUBSET S : h[s] = FoldStep(h, t, s)
  BY DEF FoldEq
<1>1. \A x \in S : f[x] \in Nat
  OBVIOUS
<1>2. Sums(f, S)[{}] = 0
  BY <1>1, SumTakes
<1>3. {} \in L
  BY <1>0, <1>2, WholeFracs DEF FoldStep
<1>4. ASSUME NEW s \in SUBSET S, s # {}, \A x \in s : s \ {x} \in L
      PROVE  s \in L
  <2>1. First(s) \in s
    BY <1>4 DEF First
  <2>2. h[s] = FAdd(t[First(s)], h[s \ {First(s)}])
    BY <1>0, <1>4 DEF FoldStep
  <2>3. h[s \ {First(s)}] = Frac(Sums(f, S)[s \ {First(s)}], M)
    BY <1>4, <2>1
  <2>4. Frac(Sums(f, S)[s], M) = FAdd(t[First(s)], Frac(Sums(f, S)[s \ {First(s)}], M))
    BY <1>4, FoldAdds
  <2> QED
    BY <2>2, <2>3, <2>4
<1> HIDE DEF L
<1>5. \A s \in SUBSET S : s \in L
  BY <1>3, <1>4, PartInduction
<1>6. S \in L
  BY <1>5
<1> QED
  BY <1>6 DEF L

-------------------------------------------------------------------------------
(* The ratio test in numbers. *)

\* The lesser of two numbers.
Lesser(a, b) == IF a <= b THEN a ELSE b

\* Of random numbers that are fine enough for a / b, that share is below it.
LEMMA ShareBelow ==
  ASSUME NEW a \in Nat, NEW b \in Nat \ {0}, Steps % b = 0, Steps \in Nat \ {0}
  PROVE  Frac(Cardinality({u \in Uniform : 2 * Steps * a > (2 * u - 1) * b}), Steps)
           = Frac(Lesser(a, b), b)
<1> DEFINE c == Steps \div b
           n == c * Lesser(a, b)
           U == {u \in Uniform : 2 * Steps * a > (2 * u - 1) * b}
<1>1. c \in Nat /\ Steps = c * b
  <2>1. Steps \div b \in Nat /\ Steps = (Steps \div b) * b + (Steps % b)
    BY Division
  <2> HIDE DEF c
  <2>2. c \in Nat /\ Steps = c * b + 0
    BY <2>1 DEF c
  <2> QED
    BY <2>2
<1> HIDE DEF c
<1>2. c # 0
  BY <1>1
<1>3. Lesser(a, b) \in Nat /\ Lesser(a, b) <= a /\ Lesser(a, b) <= b
      /\ Lesser(a, b) \in {a, b}
  BY DEF Lesser
<1>4. n \in Nat /\ n <= Steps
  <2> DEFINE l == Lesser(a, b)
  <2> HIDE DEF l
  <2>1. l \in Nat /\ l <= b
    BY <1>3 DEF l
  <2>2. c * l \in Nat /\ c * l <= c * b
    BY <1>1, <2>1
  <2> QED
    BY <1>1, <2>2 DEF l
<1>5. U = 1..n
  <2>1. ASSUME NEW u \in 1..Steps
        PROVE  2 * Steps * a > (2 * u - 1) * b <=> u <= n
    <3>1. u \in Nat /\ u >= 1 /\ 2 * u - 1 \in Nat
      OBVIOUS
    <3> DEFINE v == 2 * u - 1
               e == 2 * (c * a)
    <3>2. 2 * Steps * a = b * e
      BY <1>1
    <3>3. v \in Nat /\ e \in Nat /\ b \in Nat \ {0}
      BY <1>1, <3>1
    <3>4. b * e > v * b <=> e > v
      <4> HIDE DEF v, e
      <4>1. CASE e > v
        <5>1. e >= v + 1
          BY <3>3, <4>1
        <5>2. b * e >= b * (v + 1)
          BY <3>3, <5>1
        <5>3. b * (v + 1) = v * b + b
          BY <3>3
        <5> QED
          BY <3>3, <4>1, <5>2, <5>3
      <4>2. CASE e <= v
        <5>1. b * e <= b * v
          BY <3>3, <4>2
        <5> QED
          BY <3>3, <4>2, <5>1
      <4> QED
        BY <3>3, <4>1, <4>2
    <3>5. e > v <=> u <= c * a
      BY <1>1, <3>1
    <3>6. u <= c * b
      BY <1>1
    <3>7. u <= c * a <=> u <= n
      <4>1. CASE a <= b
        BY <4>1 DEF Lesser
      <4>2. CASE ~(a <= b)
        <5>1. c * a >= c * b
          BY <1>1, <4>2
        <5>2. n = c * b
          BY <4>2 DEF Lesser
        <5>3. c * a \in Nat /\ c * b \in Nat
          BY <1>1
        <5> QED
          BY <3>6, <5>1, <5>2, <5>3
      <4> QED
        BY <4>1, <4>2
    <3> QED
      BY <3>2, <3>4, <3>5, <3>7
  <2>2. \A u : u \in U <=> u \in 1..Steps /\ 2 * Steps * a > (2 * u - 1) * b
    BY DEF Uniform
  <2> HIDE DEF n, U
  <2>3. \A u : u \in U <=> u \in 1..Steps /\ u <= n
    BY <2>1, <2>2
  <2>4. \A u : u \in 1..n <=> u \in 1..Steps /\ u <= n
    BY <1>4
  <2> QED
    BY <2>3, <2>4
<1>6. Cardinality(U) = n
  <2> HIDE DEF n, U
  <2>1. Cardinality(1..n) = IF 1 > n THEN 0 ELSE n - 1 + 1
    BY <1>4, FS_Interval
  <2> QED
    BY <1>4, <1>5, <2>1
<1>7. Frac(n, Steps) = Frac(Lesser(a, b), b)
  BY <1>1, <1>2, <1>3, FracScales
<1> HIDE DEF n
<1> QED
  BY <1>6, <1>7

-------------------------------------------------------------------------------
(* Rows of the laws. *)

\* The tokens of a distribution.
LawTokens == 0..(LawVocab - 1)
\* The sum of its weights.
LawSum(row) == Sums(row, LawTokens)[LawTokens]

\* There are finitely many.
LEMMA LawTokensFinite == IsFiniteSet(LawTokens) /\ LawTokens # {}
<1>1. LawVocab - 1 \in Int /\ 0 \in 0..(LawVocab - 1)
  BY LawAssumption
<1> QED
  BY <1>1, FS_Interval DEF LawTokens

\* The mass of a row is its sum.
LEMMA MassIsSum ==
  ASSUME NEW row, DOMAIN row = LawTokens
  PROVE  Laws!Mass(row) = LawSum(row)
BY DEF Laws!Mass, Laws!MapThenSumSet, Laws!MapThenFoldSet, LawSum, Sums, SumEq, Added, First

\* The rows that add up to the weight.
LEMMA DistIs ==
  ASSUME NEW row \in Laws!Dists(LawWeight)
  PROVE  /\ DOMAIN row = LawTokens /\ \A x \in LawTokens : row[x] \in Nat /\ row[x] <= LawWeight
         /\ LawSum(row) = LawWeight /\ Laws!Mass(row) = LawWeight
<1>1. row \in [LawTokens -> 0..LawWeight]
  BY DEF Laws!Dists, LawTokens
<1>3. Laws!Mass(row) = LawWeight
  BY DEF Laws!Mass, Laws!Dists
<1> QED
  BY <1>1, <1>3, MassIsSum, LawAssumption

\* A sum is zero only if every term is.
LEMMA NoSum ==
  ASSUME NEW row, \A x \in LawTokens : row[x] \in Nat
  PROVE  LawSum(row) \in Nat /\ (LawSum(row) = 0 => \A x \in LawTokens : row[x] = 0)
<1> DEFINE zero == [x \in LawTokens |-> 0]
<1>1. \A x \in LawTokens : zero[x] \in Nat /\ row[x] \in Nat /\ 0 * zero[x] <= 1 * row[x]
  OBVIOUS
<1>2. /\ Sums(zero, LawTokens)[LawTokens] \in Nat /\ LawSum(row) \in Nat
      /\ (\E x \in LawTokens : 0 * zero[x] < 1 * row[x]) =>
           0 * Sums(zero, LawTokens)[LawTokens] < 1 * LawSum(row)
  BY <1>1, SumCompare, LawTokensFinite DEF LawSum
<1> HIDE DEF zero
<1>3. ASSUME NEW x \in LawTokens, row[x] # 0
      PROVE  LawSum(row) # 0
  <2>1. 0 * zero[x] < 1 * row[x]
    BY <1>1, <1>3
  <2> QED
    BY <1>2, <2>1
<1> QED
  BY <1>2, <1>3

-------------------------------------------------------------------------------
(* The windows of the laws. *)

\* Any window of theirs has the laws' vocabulary.
LEMMA LawWindow ==
  ASSUME NEW w
  PROVE  /\ Laws!VocabSize(w) = LawVocab /\ Laws!Tokens(w) = LawTokens
         /\ \A row : Laws!Total(w, row) = LawSum(row)
<1>1. Laws!VocabSize(w) = LawVocab /\ Laws!Tokens(w) = LawTokens
  BY DEF Laws!VocabSize, Laws!Tokens, LawTokens
<1>2. ASSUME NEW row
      PROVE  Laws!Total(w, row) = LawSum(row)
  BY <1>1 DEF Laws!Total, Laws!MapThenSumSet, Laws!MapThenFoldSet, LawSum, Sums, SumEq, Added,
     First
<1> QED
  BY <1>1, <1>2

\* A factor of both sides does not change an order.
LEMMA CancelOrder ==
  ASSUME NEW k \in Nat \ {0}, NEW x \in Nat, NEW y \in Nat
  PROVE  k * x > k * y <=> x > y
<1>1. ASSUME x > y
      PROVE  k * x > k * y
  <2>1. x >= y + 1
    BY <1>1
  <2>2. k * x >= k * (y + 1) /\ k * (y + 1) = k * y + k
    BY <2>1
  <2> QED
    BY <2>2
<1>2. ASSUME x <= y
      PROVE  k * x <= k * y
  BY <1>2
<1> QED
  BY <1>1, <1>2

\* A test of two fractions with one denominator is a test of their numerators.
LEMMA TestOfShares ==
  ASSUME NEW A \in Nat, NEW B \in Nat, NEW p \in Nat, NEW q \in Nat, NEW n \in Nat \ {0}
  PROVE  A * Frac(p, n)[1] * Frac(q, n)[2] > B * Frac(q, n)[1] * Frac(p, n)[2]
           <=> A * p > B * q
<1>1. PICK a \in Nat, b \in Nat \ {0}, g \in Nat \ {0} :
        Frac(p, n) = <<a, b>> /\ p = g * a /\ n = g * b
  BY LowestTerms
<1>2. PICK c \in Nat, d \in Nat \ {0}, h \in Nat \ {0} :
        Frac(q, n) = <<c, d>> /\ q = h * c /\ n = h * d
  BY LowestTerms
<1> DEFINE k == g * h
           x == A * a * d
           y == B * c * b
<1>3. k \in Nat \ {0} /\ x \in Nat /\ y \in Nat /\ A * p \in Nat /\ B * q \in Nat
  OBVIOUS
<1>4. k * x = n * (A * p)
  <2>1. k * x = A * ((g * a) * (h * d))
    OBVIOUS
  <2>2. k * x = A * (p * n)
    BY <1>1, <1>2, <2>1
  <2> QED
    BY <2>2
<1>5. k * y = n * (B * q)
  <2>1. k * y = B * ((h * c) * (g * b))
    OBVIOUS
  <2>2. k * y = B * (q * n)
    BY <1>1, <1>2, <2>1
  <2> QED
    BY <2>2
<1>6. k * x > k * y <=> x > y
  <2> HIDE DEF k, x, y
  <2> QED
    BY <1>3, CancelOrder
<1>7. n * (A * p) > n * (B * q) <=> A * p > B * q
  BY <1>3, CancelOrder
<1>8. x > y <=> A * p > B * q
  BY <1>4, <1>5, <1>6, <1>7
<1> QED
  BY <1>1, <1>2, <1>8

\* What the ratio test accepts, in numbers.
LEMMA RatioShareIs ==
  ASSUME NEW m \in Laws!Models(LawWeight), NEW d \in LawTokens,
         NEW b, b = (IF m.oneHot THEN LawWeight ELSE m.q[d]), b # 0
  PROVE  Laws!AcceptShare(Laws!WindowOf(m, "ratio", <<d>>)) = Frac(Lesser(m.p[d], b), b)
<1> DEFINE w == Laws!WindowOf(m, "ratio", <<d>>)
           n == LawWeight
<1>1. /\ w.oneHot = m.oneHot /\ w.k = 1 /\ w.drafts[0] = d
      /\ w.target[0] = m.p /\ w.draft[0] = m.q
  <2>1. Len(<<d>>) = 1 /\ <<d>>[1] = d
    OBVIOUS
  <2>2. 0 \in 0..(1 - 1) /\ 0 \in 0..1
    OBVIOUS
  <2> QED
    BY <2>1, <2>2 DEF Laws!WindowOf
<1>2. m.p \in Laws!Dists(n) /\ m.q \in Laws!Dists(n)
  BY DEF Laws!Models
<1>3. /\ \A x \in LawTokens : m.p[x] \in Nat /\ m.q[x] \in Nat /\ m.q[x] <= n
      /\ LawSum(m.p) = n /\ LawSum(m.q) = n
      /\ DOMAIN m.p = LawTokens /\ DOMAIN m.q = LawTokens
  BY <1>2, DistIs
<1>4. n \in Nat \ {0} /\ Steps \in Nat \ {0} /\ b \in 1..n /\ Steps % b = 0
  <2>1. b \in Nat /\ b <= n /\ n \in Nat \ {0}
    BY <1>3, LawAssumption
  <2> QED
    BY <2>1, LawAssumption, SamplerAssumption
<1>5. /\ Laws!TargetProb(w, 0, d) = Frac(m.p[d], n)
      /\ Laws!DraftProb(w, 0, d) = Frac(b, n)
  <2>1. Laws!Total(w, m.p) = n /\ Laws!Total(w, m.q) = n
    BY <1>3, LawWindow
  <2>2. Frac(n, n) = One
    BY <1>4, WholeFracs
  <2> HIDE DEF w
  <2>3. Laws!TargetProb(w, 0, d) = Frac(m.p[d], n)
    BY <1>1, <2>1, LawFracs DEF Laws!TargetProb
  <2>4. Laws!DraftProb(w, 0, d) = Frac(b, n)
    BY <1>1, <2>1, <2>2, LawFracs DEF Laws!DraftProb
  <2> QED
    BY <2>3, <2>4
<1>6. ~Laws!HasNaN(m.p) /\ ~Laws!HasNaN(m.q) /\ d >= 0
  BY <1>3 DEF Laws!HasNaN, Laws!NaN, LawTokens
<1> HIDE DEF w
<1>7. ASSUME NEW u \in Uniform
      PROVE  Laws!RatioTest(w, 0, u) <=> 2 * Steps * m.p[d] > (2 * u - 1) * b
  <2>1. 2 * Steps \in Nat /\ 2 * u - 1 \in Nat
    BY <1>4 DEF Uniform
  <2> DEFINE A == 2 * Steps
             B == 2 * u - 1
  <2>2. Laws!RatioTest(w, 0, u) <=>
          A * Frac(m.p[d], n)[1] * Frac(b, n)[2] > B * Frac(b, n)[1] * Frac(m.p[d], n)[2]
    BY <1>1, <1>5, <1>6 DEF Laws!RatioTest
  <2> HIDE DEF A, B
  <2>3. A \in Nat /\ B \in Nat /\ m.p[d] \in Nat /\ b \in Nat /\ n \in Nat \ {0}
    BY <1>3, <1>4, <2>1 DEF A, B
  <2>4. Laws!RatioTest(w, 0, u) <=> A * m.p[d] > B * b
    BY <2>2, <2>3, TestOfShares
  <2> QED
    BY <2>4 DEF A, B
<1>8. {u \in Laws!Uniform : Laws!RatioTest(w, 0, u)}
        = {u \in Uniform : 2 * Steps * m.p[d] > (2 * u - 1) * b}
  BY <1>7 DEF Laws!Uniform, Uniform
<1>9. Laws!AcceptShare(w) =
        Frac(Cardinality({u \in Uniform : 2 * Steps * m.p[d] > (2 * u - 1) * b}), Steps)
  BY <1>8, LawFracs DEF Laws!AcceptShare, Laws!Cardinality, Cardinality
<1>10. m.p[d] \in Nat /\ b \in Nat \ {0}
  BY <1>3, <1>4
<1> QED
  BY <1>4, <1>9, <1>10, ShareBelow DEF w

\* A denominator for a total that may be zero.
AtLeastOne(n) == IF n = 0 THEN 1 ELSE n

\* The share of a token in a row that is a multiple of r.
LEMMA ProbOfScaled ==
  ASSUME NEW r, \A x \in LawTokens : r[x] \in Nat, NEW k \in Nat \ {0},
         NEW row, DOMAIN row = LawTokens, \A x \in LawTokens : row[x] = k * r[x],
         NEW x \in LawTokens
  PROVE  /\ LawSum(r) \in Nat
         /\ Laws!Prob(row, x) = Frac(r[x], AtLeastOne(LawSum(r)))
<1> DEFINE s == LawSum(r)
<1>1. s \in Nat /\ (s = 0 => r[x] = 0)
  BY NoSum
<1>2. LawSum(row) = k * s
  <2>1. \A y \in LawTokens : r[y] \in Nat /\ row[y] = k * r[y]
    OBVIOUS
  <2> QED
    BY <2>1, SumScales, LawTokensFinite DEF LawSum
<1>3. \A y \in LawTokens : row[y] \in Nat
  OBVIOUS
<1>4. Laws!Prob(row, x) = IF LawSum(row) = 0 THEN <<0, 1>> ELSE Frac(row[x], LawSum(row))
  BY MassIsSum, LawFracs DEF Laws!Prob
<1> HIDE DEF s
<1>5. CASE s = 0
  <2>1. LawSum(row) = 0
    BY <1>2, <1>5
  <2>2. Frac(0, 1) = <<0, 1>>
    BY WholeFracs
  <2> QED
    BY <1>1, <1>4, <1>5, <2>1, <2>2 DEF AtLeastOne, s
<1>6. CASE s # 0
  <2>1. LawSum(row) # 0
    BY <1>1, <1>2, <1>6
  <2>2. Frac(k * r[x], k * s) = Frac(r[x], s)
    BY <1>1, <1>6, FracScales
  <2> QED
    BY <1>1, <1>2, <1>4, <1>6, <2>1, <2>2 DEF AtLeastOne, s
<1> QED
  BY <1>5, <1>6

\* What the target has more than the drafter, and the other way round.
Excess(p, q) == [x \in LawTokens |-> Monus(p[x], q[x])]

\* A row without one of its tokens.
Without(p, d) == [x \in LawTokens |-> IF x = d THEN 0 ELSE p[x]]

\* The shares of the residual.
LEMMA RatioResidual ==
  ASSUME NEW m \in Laws!Models(LawWeight), NEW d \in LawTokens, NEW x \in LawTokens
  PROVE  LET r == IF m.oneHot THEN Without(m.p, d) ELSE Excess(m.p, m.q)
         IN  /\ \A y \in LawTokens : r[y] \in Nat
             /\ LawSum(r) \in Nat
             /\ Laws!Prob(Laws!Residual(Laws!WindowOf(m, "ratio", <<d>>), 0), x)
                  = Frac(r[x], AtLeastOne(LawSum(r)))
<1> DEFINE w == Laws!WindowOf(m, "ratio", <<d>>)
           n == LawWeight
           r == IF m.oneHot THEN Without(m.p, d) ELSE Excess(m.p, m.q)
           row == Laws!Residual(w, 0)
<1>1. /\ w.oneHot = m.oneHot /\ w.k = 1 /\ w.drafts[0] = d /\ w.kind = "ratio"
      /\ w.target[0] = m.p /\ w.draft[0] = m.q
  <2>1. Len(<<d>>) = 1 /\ <<d>>[1] = d
    OBVIOUS
  <2>2. 0 \in 0..(1 - 1) /\ 0 \in 0..1
    OBVIOUS
  <2> QED
    BY <2>1, <2>2 DEF Laws!WindowOf
<1>2. m.p \in Laws!Dists(n) /\ m.q \in Laws!Dists(n) /\ m.oneHot \in BOOLEAN
  BY DEF Laws!Models
<1>3. /\ \A y \in LawTokens : m.p[y] \in Nat /\ m.q[y] \in Nat
      /\ LawSum(m.p) = n /\ LawSum(m.q) = n
      /\ DOMAIN m.p = LawTokens /\ DOMAIN m.q = LawTokens
  BY <1>2, DistIs
<1>4. ~Laws!HasNaN(m.p) /\ ~Laws!HasNaN(m.q)
  BY <1>3 DEF Laws!HasNaN, Laws!NaN
<1>5. n \in Nat \ {0}
  BY LawAssumption
<1> HIDE DEF w, n
<1>6. \A y \in LawTokens : r[y] \in Nat
  BY <1>3 DEF Without, Excess, Monus
<1>7. CASE m.oneHot
  <2>1. row = [y \in DOMAIN m.p |-> IF y = d THEN 0 ELSE m.p[y]]
    BY <1>1, <1>7 DEF Laws!Residual
  <2>2. DOMAIN row = LawTokens /\ \A y \in LawTokens : row[y] = 1 * r[y]
    BY <1>3, <1>7, <2>1 DEF Without
  <2> HIDE DEF r, row
  <2>3. /\ LawSum(r) \in Nat
        /\ Laws!Prob(row, x) = Frac(r[x], AtLeastOne(LawSum(r)))
    BY <1>6, <2>2, ProbOfScaled
  <2> QED
    BY <1>6, <2>3 DEF r, row, w
<1>8. CASE ~m.oneHot
  <2>1. Laws!Total(w, m.p) = n /\ Laws!Total(w, m.q) = n /\ Laws!Tokens(w) = LawTokens
    BY <1>3, LawWindow
  <2>2. Laws!Tau(w, 0) = <<1, 1>>
    BY <1>1 DEF Laws!Tau, Laws!One
  <2>3. row = [y \in LawTokens |->
                 IF 1 * m.p[y] * n - 1 * m.q[y] * n \in Nat
                 THEN 1 * m.p[y] * n - 1 * m.q[y] * n ELSE 0]
    BY <1>1, <1>4, <1>8, <2>1, <2>2 DEF Laws!Residual
  <2>4. ASSUME NEW y \in LawTokens
        PROVE  row[y] = n * r[y]
    <3> DEFINE a == m.p[y]
               b == m.q[y]
    <3>1. a \in Nat /\ b \in Nat /\ r[y] = Monus(a, b)
      BY <1>3, <1>8 DEF Excess
    <3>2. row[y] = IF 1 * a * n - 1 * b * n \in Nat THEN 1 * a * n - 1 * b * n ELSE 0
      BY <2>3
    <3> HIDE DEF a, b, r, row
    <3>3. 1 * a * n - 1 * b * n = n * (a - b) /\ n * (a - b) \in Int
      BY <1>5, <3>1
    <3>4. CASE a <= b
      <4>1. n * (a - b) <= n * 0
        BY <1>5, <3>1, <3>4
      <4>2. a - b = 0 \/ a - b <= -1
        BY <3>1, <3>4
      <4>3. n * (a - b) = 0 \/ n * (a - b) <= n * (-1)
        BY <1>5, <3>1, <4>2
      <4>4. r[y] = 0 /\ n * 0 = 0
        BY <1>5, <3>1, <3>4 DEF Monus
      <4> QED
        BY <1>5, <3>2, <3>3, <4>3, <4>4
    <3>5. CASE ~(a <= b)
      <4>1. a - b \in Nat /\ r[y] = a - b
        BY <3>1, <3>5 DEF Monus
      <4>2. n * (a - b) \in Nat
        BY <1>5, <4>1
      <4> QED
        BY <3>2, <3>3, <4>1, <4>2
    <3> QED
      BY <3>4, <3>5
  <2>5. DOMAIN row = LawTokens
    BY <2>3
  <2> HIDE DEF r, row
  <2>6. /\ LawSum(r) \in Nat
        /\ Laws!Prob(row, x) = Frac(r[x], AtLeastOne(LawSum(r)))
    BY <1>5, <1>6, <2>4, <2>5, ProbOfScaled
  <2> QED
    BY <1>6, <2>6 DEF r, row, w
<1> QED
  BY <1>2, <1>7, <1>8

\* A token that is drafted with one draft is accepted, or another is drawn.
LEMMA OutcomeIs ==
  ASSUME NEW a \in Nat, NEW b \in Nat \ {0}, a <= b, NEW r \in Nat, NEW D \in Nat \ {0},
         NEW c \in {0, a}
  PROVE  FAdd(IF c = 0 THEN <<0, 1>> ELSE Frac(a, b), FMul(FMonus(One, Frac(a, b)), Frac(r, D)))
           = Frac(c * D + (b - a) * r, b * D)
<1>1. FMonus(One, Frac(a, b)) = Frac(b - a, b)
  <2>1. One = Frac(1, 1)
    BY WholeFracs
  <2>2. FMonus(Frac(1, 1), Frac(a, b)) = Frac(Monus(1 * b, a * 1), 1 * b)
    BY MonusFracs
  <2>3. Monus(1 * b, a * 1) = b - a /\ 1 * b = b
    BY DEF Monus
  <2> QED
    BY <2>1, <2>2, <2>3
<1>2. (IF c = 0 THEN <<0, 1>> ELSE Frac(a, b)) = Frac(c, b)
  BY WholeFracs
<1>3. b - a \in Nat /\ c \in Nat
  OBVIOUS
<1>4. FMul(Frac(b - a, b), Frac(r, D)) = Frac((b - a) * r, b * D)
  BY <1>3, MulFracs
<1> DEFINE s == (b - a) * r
           e == b * D
           f == c * D + s
<1>5. s \in Nat /\ e \in Nat \ {0} /\ f \in Nat
  BY <1>3
<1>6. FAdd(Frac(c, b), Frac(s, e)) = Frac(c * e + s * b, b * e)
  <2> HIDE DEF s, e
  <2> QED
    BY <1>3, <1>5, AddFracs
<1>7. c * e + s * b = b * f
  <2>1. c * e = b * (c * D)
    BY <1>3
  <2>2. c * D \in Nat
    BY <1>3
  <2> HIDE DEF s, e
  <2>3. b * (c * D + s) = b * (c * D) + s * b
    BY <1>5, <2>2
  <2> QED
    BY <2>1, <2>3
<1>8. Frac(b * f, b * e) = Frac(f, e)
  <2> HIDE DEF f, e
  <2> QED
    BY <1>5, FracScales
<1> QED
  BY <1>1, <1>2, <1>4, <1>6, <1>7, <1>8

\* A sum of two rows.
LEMMA SumOfTwo ==
  ASSUME NEW f, NEW g, NEW h,
         \A x \in LawTokens : f[x] \in Nat /\ g[x] \in Nat /\ h[x] = f[x] + g[x]
  PROVE  LawSum(f) \in Nat /\ LawSum(g) \in Nat /\ LawSum(h) = LawSum(f) + LawSum(g)
BY SumAdds, LawTokensFinite DEF LawSum

\* What is left of a row without one of its tokens.
LEMMA SumWithout ==
  ASSUME NEW p, \A x \in LawTokens : p[x] \in Nat, NEW d \in LawTokens
  PROVE  LawSum(p) = LawSum(Without(p, d)) + p[d] /\ LawSum(Without(p, d)) \in Nat
<1> DEFINE r == Without(p, d)
           e == [x \in LawTokens |-> IF x = d THEN p[d] ELSE 0]
<1>1. \A x \in LawTokens : r[x] \in Nat /\ e[x] \in Nat /\ p[x] = r[x] + e[x]
  BY DEF Without
<1>2. e[d] = p[d] /\ e[d] \in Nat /\ \A x \in LawTokens : x # d => e[x] = 0
  OBVIOUS
<1> HIDE DEF r, e
<1>3. LawSum(r) \in Nat /\ LawSum(e) \in Nat /\ LawSum(p) = LawSum(r) + LawSum(e)
  BY <1>1, SumOfTwo
<1>4. LawSum(e) = p[d]
  BY <1>2, SumOfOne, LawTokensFinite DEF LawSum
<1> QED
  BY <1>3, <1>4 DEF r

\* Of two rows with one sum, each has as much more than the other as the other has.
LEMMA ExcessBalance ==
  ASSUME NEW p, NEW q, \A x \in LawTokens : p[x] \in Nat /\ q[x] \in Nat,
         LawSum(p) = LawSum(q)
  PROVE  LawSum(Excess(p, q)) = LawSum(Excess(q, p)) /\ LawSum(Excess(p, q)) \in Nat
<1> DEFINE r == Excess(p, q)
           s == Excess(q, p)
           h == [x \in LawTokens |-> p[x] + s[x]]
<1>1. \A x \in LawTokens : r[x] \in Nat /\ s[x] \in Nat /\ p[x] + s[x] = q[x] + r[x]
  BY DEF Excess, Monus
<1>2. \A x \in LawTokens : p[x] \in Nat /\ s[x] \in Nat /\ h[x] = p[x] + s[x]
  BY <1>1
<1>3. \A x \in LawTokens : q[x] \in Nat /\ r[x] \in Nat /\ h[x] = q[x] + r[x]
  BY <1>1
<1> HIDE DEF r, s, h
<1>4. LawSum(p) \in Nat /\ LawSum(s) \in Nat /\ LawSum(h) = LawSum(p) + LawSum(s)
  BY <1>2, SumOfTwo
<1>5. LawSum(q) \in Nat /\ LawSum(r) \in Nat /\ LawSum(h) = LawSum(q) + LawSum(r)
  BY <1>3, SumOfTwo
<1> QED
  BY <1>4, <1>5 DEF r, s

-------------------------------------------------------------------------------
(* The ratio test samples from the target. *)

\* The probability of x after the draft d.
LEMMA RatioOutcomeIs ==
  ASSUME NEW m \in Laws!Models(LawWeight), NEW d \in LawTokens, NEW x \in LawTokens,
         NEW b, b = (IF m.oneHot THEN LawWeight ELSE m.q[d]), b # 0,
         NEW r, r = (IF m.oneHot THEN Without(m.p, d) ELSE Excess(m.p, m.q)),
         NEW a, a = Lesser(m.p[d], b),
         NEW D, D = AtLeastOne(LawSum(r))
  PROVE  /\ b \in Nat \ {0} /\ a \in Nat /\ a <= b /\ D \in Nat \ {0} /\ r[x] \in Nat
         /\ Laws!RatioOutcome(m, d, x) =
              Frac((IF x = d THEN a ELSE 0) * D + (b - a) * r[x], b * D)
<1> DEFINE w == Laws!WindowOf(m, "ratio", <<d>>)
           c == IF x = d THEN a ELSE 0
<1>1. \A y \in LawTokens : m.p[y] \in Nat /\ m.q[y] \in Nat
  BY DistIs DEF Laws!Models
<1>2. b \in Nat \ {0} /\ a \in Nat /\ a <= b /\ c \in {0, a}
  BY <1>1, LawAssumption DEF Lesser
<1>3. Laws!AcceptShare(w) = Frac(a, b)
  BY RatioShareIs
<1>4. /\ r[x] \in Nat /\ LawSum(r) \in Nat
      /\ Laws!Prob(Laws!Residual(w, 0), x) = Frac(r[x], D)
  BY RatioResidual
<1>5. D \in Nat \ {0}
  BY <1>4 DEF AtLeastOne
<1>6. Laws!RatioOutcome(m, d, x) =
        FAdd(IF x = d THEN Frac(a, b) ELSE <<0, 1>>,
             FMul(FMonus(One, Frac(a, b)), Frac(r[x], D)))
  BY <1>3, <1>4, LawFracs DEF Laws!RatioOutcome
<1>7. (IF x = d THEN Frac(a, b) ELSE <<0, 1>>) = (IF c = 0 THEN <<0, 1>> ELSE Frac(a, b))
  BY <1>2, WholeFracs
<1> HIDE DEF w, c
<1>8. FAdd(IF c = 0 THEN <<0, 1>> ELSE Frac(a, b), FMul(FMonus(One, Frac(a, b)), Frac(r[x], D)))
        = Frac(c * D + (b - a) * r[x], b * D)
  <2>1. \A e \in Nat, E \in Nat \ {0}, f \in {0, a} :
          FAdd(IF f = 0 THEN <<0, 1>> ELSE Frac(a, b), FMul(FMonus(One, Frac(a, b)), Frac(e, E)))
            = Frac(f * E + (b - a) * e, b * E)
    BY <1>2, OutcomeIs
  <2>2. r[x] \in Nat /\ D \in Nat \ {0} /\ c \in {0, a}
    BY <1>2, <1>4, <1>5
  <2> QED
    BY <2>1, <2>2
<1> QED
  BY <1>2, <1>4, <1>5, <1>6, <1>7, <1>8 DEF c

\* Whatever draft a drafter without logits brings.
LEMMA OneHotRatio ==
  ASSUME NEW m \in Laws!Models(LawWeight), m.oneHot, NEW d \in LawTokens, NEW x \in LawTokens
  PROVE  Laws!RatioOutcome(m, d, x) = Frac(m.p[x], LawWeight)
<1> DEFINE n == LawWeight
           r == Without(m.p, d)
           a == Lesser(m.p[d], n)
           D == AtLeastOne(LawSum(r))
           p == m.p[x]
<1>0. n \in Nat \ {0}
  BY LawAssumption
<1>1. /\ a \in Nat /\ a <= n /\ D \in Nat \ {0} /\ r[x] \in Nat
      /\ Laws!RatioOutcome(m, d, x) = Frac((IF x = d THEN a ELSE 0) * D + (n - a) * r[x], n * D)
  BY <1>0, RatioOutcomeIs
<1>2. (\A y \in LawTokens : m.p[y] \in Nat /\ m.p[y] <= n) /\ LawSum(m.p) = n
  BY DistIs DEF Laws!Models
<1>3. a = m.p[d] /\ p \in Nat
  BY <1>2 DEF Lesser
<1>4. n = LawSum(r) + a /\ LawSum(r) \in Nat
  BY <1>2, <1>3, SumWithout
<1>5. r[x] = IF x = d THEN 0 ELSE p
  BY DEF Without
<1>6. (\A y \in LawTokens : r[y] \in Nat) /\ (LawSum(r) = 0 => r[x] = 0)
  <2>1. \A y \in LawTokens : r[y] \in Nat
    BY <1>2 DEF Without
  <2> HIDE DEF r
  <2> QED
    BY <2>1, NoSum
<1>7. n - a = LawSum(r) /\ (LawSum(r) # 0 => D = LawSum(r))
  BY <1>3, <1>4, <1>2 DEF AtLeastOne
<1>8. D * n = n * D
  BY <1>0, <1>1
<1> HIDE DEF n, r, a, D, p
<1>9. CASE x = d
  <2>1. (IF x = d THEN a ELSE 0) * D + (n - a) * r[x] = D * p
    BY <1>0, <1>1, <1>3, <1>5, <1>9 DEF p
  <2>2. Frac(D * p, D * n) = Frac(p, n)
    BY <1>0, <1>1, <1>3, FracScales
  <2>3. Laws!RatioOutcome(m, d, x) = Frac(D * p, D * n)
    BY <1>1, <1>8, <2>1
  <2> QED
    BY <2>2, <2>3 DEF n, p
<1>10. CASE x # d
  <2>1. r[x] = p
    BY <1>5, <1>10
  <2>2. (n - a) * p = D * p
    <3>1. CASE LawSum(r) = 0
      <4>1. p = 0
        BY <1>6, <2>1, <3>1
      <4> QED
        BY <1>0, <1>1, <4>1
    <3>2. CASE LawSum(r) # 0
      BY <1>7, <3>2
    <3> QED
      BY <3>1, <3>2
  <2>3. (IF x = d THEN a ELSE 0) * D + (n - a) * r[x] = D * p
    BY <1>0, <1>1, <1>3, <1>10, <2>1, <2>2
  <2>4. Frac(D * p, D * n) = Frac(p, n)
    BY <1>0, <1>1, <1>3, FracScales
  <2>5. Laws!RatioOutcome(m, d, x) = Frac(D * p, D * n)
    BY <1>1, <1>8, <2>3
  <2> QED
    BY <2>4, <2>5 DEF n, p
<1> QED
  BY <1>9, <1>10

\* The weight of x after draft d, over the target's total times that of the residual.
RatioTerms(p, q, x, D) ==
  [d \in LawTokens |-> (IF x = d THEN Lesser(p[d], q[d]) ELSE 0) * D + Monus(q[d], p[d]) * Monus(p[x], q[x])]

\* The weights add up to the target's.
LEMMA RatioTermsSum ==
  ASSUME NEW p, NEW q, \A y \in LawTokens : p[y] \in Nat /\ q[y] \in Nat,
         LawSum(p) = LawSum(q), NEW x \in LawTokens,
         NEW D, D = AtLeastOne(LawSum(Excess(p, q)))
  PROVE  /\ D \in Nat \ {0}
         /\ \A d \in LawTokens : RatioTerms(p, q, x, D)[d] \in Nat
         /\ LawSum(RatioTerms(p, q, x, D)) = D * p[x]
<1> DEFINE r == Excess(p, q)
           s == Excess(q, p)
           c == [d \in LawTokens |-> IF x = d THEN Lesser(p[d], q[d]) ELSE 0]
           e == [d \in LawTokens |-> D * c[d]]
           g == [d \in LawTokens |-> r[x] * s[d]]
           f == RatioTerms(p, q, x, D)
           R == LawSum(r)
<1>1. R \in Nat /\ LawSum(s) = R
  BY ExcessBalance
<1>2. D \in Nat \ {0} /\ (R # 0 => D = R) /\ (R = 0 => D = 1)
  BY <1>1 DEF AtLeastOne
<1>3. \A d \in LawTokens : r[d] \in Nat /\ s[d] \in Nat /\ c[d] \in Nat
  BY DEF Excess, Monus, Lesser
<1>4. R = 0 => r[x] = 0
  BY <1>3, NoSum
<1>5. \A d \in LawTokens : /\ f[d] = e[d] + g[d] /\ e[d] = D * c[d] /\ g[d] = r[x] * s[d]
  <2>1. ASSUME NEW d \in LawTokens
        PROVE  f[d] = e[d] + g[d]
    <3> DEFINE m == Monus(q[d], p[d])
               l == Monus(p[x], q[x])
               k == IF x = d THEN Lesser(p[d], q[d]) ELSE 0
    <3>1. f[d] = k * D + m * l /\ e[d] = D * k /\ g[d] = l * m
      BY DEF RatioTerms, Excess
    <3>2. k \in Nat /\ m \in Nat /\ l \in Nat
      BY DEF Lesser, Monus
    <3> HIDE DEF m, l, k, f, e, g
    <3>3. k * D = D * k /\ m * l = l * m
      BY <1>2, <3>2
    <3> QED
      BY <3>1, <3>3
  <2> QED
    BY <2>1
<1>6. c[x] = Lesser(p[x], q[x]) /\ \A d \in LawTokens : d # x => c[d] = 0
  OBVIOUS
<1>7. p[x] = c[x] + r[x] /\ p[x] \in Nat
  BY <1>6 DEF Excess, Monus, Lesser
<1> HIDE DEF r, s, c, e, g, f, R
<1>8. LawSum(c) = c[x]
  BY <1>3, <1>6, SumOfOne, LawTokensFinite DEF LawSum
<1>9. \A d \in LawTokens : e[d] \in Nat /\ g[d] \in Nat
  BY <1>2, <1>3, <1>5
<1>10. LawSum(e) = D * LawSum(c)
  <2>1. \A d \in LawTokens : c[d] \in Nat /\ e[d] = D * c[d]
    BY <1>3, <1>5
  <2>2. D \in Nat
    BY <1>2
  <2> QED
    BY <2>1, <2>2, SumScales, LawTokensFinite DEF LawSum
<1>11. LawSum(g) = r[x] * LawSum(s)
  <2>1. \A d \in LawTokens : s[d] \in Nat /\ g[d] = r[x] * s[d]
    BY <1>3, <1>5
  <2>2. r[x] \in Nat
    BY <1>3
  <2> DEFINE k == r[x]
  <2> HIDE DEF k
  <2>3. k \in Nat /\ \A d \in LawTokens : s[d] \in Nat /\ g[d] = k * s[d]
    BY <2>1, <2>2 DEF k
  <2>4. LawSum(g) = k * LawSum(s)
    BY <2>3, SumScales, LawTokensFinite DEF LawSum
  <2> QED
    BY <2>4 DEF k
<1>12. LawSum(f) = LawSum(e) + LawSum(g)
  BY <1>5, <1>9, SumOfTwo
<1>13. r[x] * LawSum(s) = D * r[x]
  BY <1>1, <1>2, <1>3, <1>4
<1>14. D * c[x] + D * r[x] = D * p[x]
  <2>1. c[x] \in Nat /\ r[x] \in Nat
    BY <1>3
  <2> QED
    BY <1>2, <1>7, <2>1
<1>15. LawSum(f) = D * p[x]
  BY <1>8, <1>10, <1>11, <1>12, <1>13, <1>14
<1>16. \A d \in LawTokens : f[d] \in Nat
  BY <1>5, <1>9
<1> QED
  BY <1>2, <1>15, <1>16 DEF f

\* The drafts of a drafter, weighed.
LEMMA DraftedRatio ==
  ASSUME NEW m \in Laws!Models(LawWeight), ~m.oneHot, NEW d \in LawTokens, m.q[d] > 0,
         NEW x \in LawTokens,
         NEW D, D = AtLeastOne(LawSum(Excess(m.p, m.q)))
  PROVE  FMul(Laws!Prob(m.q, d), Laws!RatioOutcome(m, d, x))
           = Frac(RatioTerms(m.p, m.q, x, D)[d], LawWeight * D)
<1> DEFINE n == LawWeight
           b == m.q[d]
           a == Lesser(m.p[d], b)
           r == Excess(m.p, m.q)
           s == Monus(m.q[d], m.p[d])
           f == (IF x = d THEN a ELSE 0) * D + (b - a) * r[x]
<1>0. n \in Nat \ {0}
  BY LawAssumption
<1>1. /\ DOMAIN m.q = LawTokens /\ LawSum(m.q) = n
      /\ \A y \in LawTokens : m.p[y] \in Nat /\ m.q[y] \in Nat
  BY DistIs DEF Laws!Models
<1>2. /\ b \in Nat \ {0} /\ a \in Nat /\ a <= b /\ D \in Nat \ {0} /\ r[x] \in Nat
      /\ Laws!RatioOutcome(m, d, x) = Frac(f, b * D)
  <2>1. b # 0
    BY <1>1
  <2> QED
    BY <2>1, RatioOutcomeIs
<1>3. Laws!Prob(m.q, d) = Frac(b, n)
  BY <1>0, <1>1, MassIsSum, LawFracs DEF Laws!Prob
<1>4. f = RatioTerms(m.p, m.q, x, D)[d] /\ f \in Nat
  <2>1. b - a = Monus(m.q[d], m.p[d]) /\ b - a \in Nat
    BY <1>1 DEF Lesser, Monus
  <2>2. r[x] = Monus(m.p[x], m.q[x])
    BY DEF Excess
  <2>3. (IF x = d THEN a ELSE 0) \in Nat
    BY <1>2
  <2>4. RatioTerms(m.p, m.q, x, D)[d]
          = (IF x = d THEN a ELSE 0) * D + Monus(m.q[d], m.p[d]) * Monus(m.p[x], m.q[x])
    BY DEF RatioTerms
  <2>5. f \in Nat
    BY <1>2, <2>1, <2>3
  <2> QED
    BY <2>1, <2>2, <2>4, <2>5
<1> HIDE DEF n, b, a, r, s, f
<1>5. FMul(Frac(b, n), Frac(f, b * D)) = Frac(b * f, n * (b * D))
  <2>1. b * D \in Nat \ {0}
    BY <1>2
  <2>2. \A i \in Nat, j \in Nat \ {0}, k \in Nat, e \in Nat \ {0} :
          FMul(Frac(i, j), Frac(k, e)) = Frac(i * k, j * e)
    BY MulFracs
  <2>3. b \in Nat /\ n \in Nat \ {0} /\ f \in Nat
    BY <1>0, <1>2, <1>4
  <2> QED
    BY <2>1, <2>2, <2>3
<1>6. n * (b * D) = b * (n * D) /\ n * D \in Nat \ {0}
  BY <1>0, <1>2
<1>7. Frac(b * f, b * (n * D)) = Frac(f, n * D)
  <2>1. \A e \in Nat \ {0} : Frac(b * f, b * e) = Frac(f, e)
    BY <1>2, <1>4, FracScales
  <2> QED
    BY <1>6, <2>1
<1> QED
  BY <1>2, <1>3, <1>4, <1>5, <1>6, <1>7 DEF n

\* A drafter with logits.
LEMMA DrafterRatio ==
  ASSUME NEW m \in Laws!Models(LawWeight), ~m.oneHot, NEW x \in LawTokens
  PROVE  Laws!FSum({d \in Laws!All : m.q[d] > 0},
                   LAMBDA d : Laws!FMul(Laws!Prob(m.q, d), Laws!RatioOutcome(m, d, x)))
           = Frac(m.p[x], LawWeight)
<1> DEFINE S == {d \in Laws!All : m.q[d] > 0}
           E(d) == Laws!FMul(Laws!Prob(m.q, d), Laws!RatioOutcome(m, d, x))
           t == [d \in S |-> E(d)]
           D == AtLeastOne(LawSum(Excess(m.p, m.q)))
           f == RatioTerms(m.p, m.q, x, D)
           M == LawWeight * D
           P(h) == h = [s \in SUBSET S |->
                          IF s = {} THEN <<0, 1>>
                          ELSE Laws!FAdd(E(First(s)), h[s \ {First(s)}])]
<1>1. Laws!FSum(S, E) = (CHOOSE h : P(h))[S]
  BY DEF Laws!FSum, Laws!FoldSet, Laws!MapThenFoldSet, First
<1>2. /\ \A y \in LawTokens : m.p[y] \in Nat /\ m.q[y] \in Nat
      /\ LawSum(m.p) = LawSum(m.q) /\ LawWeight \in Nat \ {0}
  BY DistIs, LawAssumption DEF Laws!Models
<1>3. /\ D \in Nat \ {0} /\ \A d \in LawTokens : f[d] \in Nat
      /\ LawSum(f) = D * m.p[x]
  BY <1>2, RatioTermsSum
<1>4. S \in SUBSET LawTokens /\ \A d \in LawTokens : d \in S <=> m.q[d] > 0
  BY DEF Laws!All, LawTokens
<1>5. \A d \in S : t[d] = Frac(f[d], M) /\ f[d] \in Nat
  <2>1. ASSUME NEW d \in S
        PROVE  t[d] = Frac(f[d], M)
    <3>1. d \in LawTokens /\ m.q[d] > 0
      BY <1>4
    <3>2. FMul(Laws!Prob(m.q, d), Laws!RatioOutcome(m, d, x)) = Frac(f[d], M)
      BY <3>1, DraftedRatio
    <3> QED
      BY <3>2, LawFracs
  <2> QED
    BY <1>3, <1>4, <2>1
<1>6. \A d \in LawTokens : d \notin S => f[d] = 0
  <2>1. ASSUME NEW d \in LawTokens, d \notin S
        PROVE  f[d] = 0
    <3>1. m.q[d] = 0 /\ m.p[d] \in Nat
      BY <1>2, <1>4, <2>1
    <3>2. Lesser(m.p[d], m.q[d]) = 0 /\ Monus(m.q[d], m.p[d]) = 0
      BY <3>1 DEF Lesser, Monus
    <3>3. f[d] = (IF x = d THEN 0 ELSE 0) * D + 0 * Monus(m.p[x], m.q[x])
      BY <3>2 DEF RatioTerms
    <3>4. D \in Nat /\ Monus(m.p[x], m.q[x]) \in Nat
      BY <1>2, <1>3 DEF Monus
    <3> HIDE DEF f, D
    <3> QED
      BY <3>3, <3>4
  <2> QED
    BY <2>1
<1>7. ASSUME NEW h
      PROVE  P(h) <=> FoldEq(h, t, S)
  <2>1. ASSUME NEW s \in SUBSET S, s # {}
        PROVE  t[First(s)] = E(First(s))
    <3>1. First(s) \in S
      BY <2>1 DEF First
    <3> QED
      BY <3>1
  <2> HIDE DEF t, S, E
  <2>2. ASSUME NEW s \in SUBSET S
        PROVE  FoldStep(h, t, s) = IF s = {} THEN <<0, 1>>
                                   ELSE Laws!FAdd(E(First(s)), h[s \ {First(s)}])
    BY <2>1, LawFracs DEF FoldStep
  <2> QED
    BY <2>2 DEF FoldEq
<1> HIDE DEF S, E, t, D, f, M
<1>8. IsFiniteSet(S) /\ M \in Nat \ {0}
  BY <1>2, <1>3, <1>4, LawTokensFinite, FS_Subset DEF M
<1>9. \E h : FoldEq(h, t, S)
  <2>1. \A d \in S : f[d] \in Nat /\ t[d] = Frac(f[d], M)
    BY <1>5
  <2>2. IsFiniteSet(S) /\ M \in Nat \ {0}
    BY <1>8
  <2> QED
    BY <2>1, <2>2, FoldExists
<1>10. P(CHOOSE h : P(h))
  BY <1>7, <1>9
<1> DEFINE h == CHOOSE h : P(h)
<1>11. FoldEq(h, t, S)
  BY <1>7, <1>10
<1> HIDE DEF h, P
<1>12. h[S] = Frac(Sums(f, S)[S], M)
  BY <1>5, <1>8, <1>11, FoldIs
<1>13. Sums(f, S)[S] = D * m.p[x]
  BY <1>3, <1>4, <1>6, SumOfPart, LawTokensFinite DEF LawSum
<1>14. Frac(D * m.p[x], M) = Frac(m.p[x], LawWeight)
  <2>1. M = D * LawWeight
    BY <1>2, <1>3 DEF M
  <2> QED
    BY <1>2, <1>3, <2>1, FracScales
<1> QED
  BY <1>1, <1>12, <1>13, <1>14 DEF h, S, E

\* For every target and every drafter over any vocabulary the ratio test and its
\* residual sample from the target.
LEMMA RatioSamples ==
  ASSUME NEW m \in Laws!Models(LawWeight)
  PROVE  Laws!LeviathanLaw(m)
<1> SUFFICES ASSUME NEW x \in Laws!All
             PROVE  IF m.oneHot THEN \A d \in Laws!All : Laws!RatioOutcome(m, d, x) = Laws!Prob(m.p, x)
                    ELSE Laws!FSum({d \in Laws!All : m.q[d] > 0},
                           LAMBDA d : Laws!FMul(Laws!Prob(m.q, d), Laws!RatioOutcome(m, d, x)))
                         = Laws!Prob(m.p, x)
  BY DEF Laws!LeviathanLaw
<1>1. Laws!All = LawTokens
  BY DEF Laws!All, LawTokens
<1>2. Laws!Prob(m.p, x) = Frac(m.p[x], LawWeight)
  <2>1. m.p \in Laws!Dists(LawWeight) /\ LawWeight # 0
    BY LawAssumption DEF Laws!Models
  <2>2. Laws!Mass(m.p) = LawWeight
    BY <2>1, DistIs
  <2> QED
    BY <2>1, <2>2, LawFracs DEF Laws!Prob
<1>3. CASE m.oneHot
  BY <1>1, <1>2, <1>3, OneHotRatio
<1>4. CASE ~m.oneHot
  BY <1>1, <1>2, <1>4, DrafterRatio
<1> QED
  BY <1>3, <1>4

\* rejection_sampler_utils.py, ratio test: a token that is sampled at a drafted
\* position has exactly the target's probability, with a drafter that has logits over
\* all of its drafts, and with one that has none whatever it proposes.
THEOREM RatioSamplesTarget == LawSpec => []RatioLaw
<1> DEFINE Modelled == model = <<>> \/ model \in Laws!Models(LawWeight)
<1>1. LawInit => Modelled
  BY DEF LawInit
<1>2. Modelled /\ [LawNext]_<<vars, model>> => Modelled'
  BY DEF LawNext
<1>3. Modelled => RatioLaw
  BY RatioSamples DEF RatioLaw
<1> QED
  BY <1>1, <1>2, <1>3, PTL DEF LawSpec

-------------------------------------------------------------------------------
(* Sums over pairs. *)

\* What a sum over the parts of S satisfies.
SumRules(F, f, S) ==
  /\ F[{}] = 0 /\ \A s \in SUBSET S : F[s] \in Nat
  /\ \A s \in SUBSET S : \A x \in s : F[s] = f[x] + F[s \ {x}]

\* A sum of natural numbers satisfies them.
LEMMA SumsFollow ==
  ASSUME NEW S, IsFiniteSet(S), NEW f, \A x \in S : f[x] \in Nat
  PROVE  SumRules(Sums(f, S), f, S)
BY SumTakes DEF SumRules

\* The pairs that begin with a.
RowOf(f, a, B) == [b \in B |-> f[<<a, b>>]]

\* A sum over pairs is the sum of the sums over the second element.
LEMMA SumOfPairs ==
  ASSUME NEW A, IsFiniteSet(A), NEW B, IsFiniteSet(B), NEW f,
         \A z \in A \X B : f[z] \in Nat,
         NEW g, \A a \in A : g[a] = Sums(RowOf(f, a, B), B)[B]
  PROVE  Sums(f, A \X B)[A \X B] = Sums(g, A)[A]
<1> DEFINE F == Sums(f, A \X B)
           G == Sums(g, A)
           L == {s \in SUBSET A : F[s \X B] = G[s]}
<1>0. IsFiniteSet(A \X B)
  BY FS_Product
<1>1. /\ F[{}] = 0 /\ \A s \in SUBSET (A \X B) : F[s] \in Nat
      /\ \A s \in SUBSET (A \X B) : \A z \in s : F[s] = f[z] + F[s \ {z}]
  <2>1. SumRules(F, f, A \X B)
    BY <1>0, SumsFollow
  <2> HIDE DEF F
  <2> QED
    BY <2>1 DEF SumRules
<1>2. ASSUME NEW a \in A
      PROVE  LET H == Sums(RowOf(f, a, B), B)
             IN  /\ H[{}] = 0 /\ \A t \in SUBSET B : H[t] \in Nat
                 /\ \A t \in SUBSET B : \A b \in t : H[t] = f[<<a, b>>] + H[t \ {b}]
  <2> DEFINE r == RowOf(f, a, B)
  <2>1. \A b \in B : r[b] = f[<<a, b>>] /\ r[b] \in Nat
    BY DEF RowOf
  <2> HIDE DEF r
  <2>0. SumRules(Sums(r, B), r, B)
    BY <2>1, SumsFollow
  <2>2. /\ Sums(r, B)[{}] = 0 /\ \A t \in SUBSET B : Sums(r, B)[t] \in Nat
        /\ \A t \in SUBSET B : \A b \in t : Sums(r, B)[t] = r[b] + Sums(r, B)[t \ {b}]
    BY <2>0 DEF SumRules
  <2>3. \A t \in SUBSET B : \A b \in t : r[b] = f[<<a, b>>]
    BY <2>1
  <2> QED
    BY <2>2, <2>3 DEF r
<1>3. \A a \in A : g[a] \in Nat
  <2>1. ASSUME NEW a \in A
        PROVE  g[a] \in Nat
    <3>1. \A t \in SUBSET B : Sums(RowOf(f, a, B), B)[t] \in Nat
      BY <1>2
    <3> QED
      BY <3>1
  <2> QED
    BY <2>1
<1>4. /\ G[{}] = 0 /\ \A s \in SUBSET A : G[s] \in Nat
      /\ \A s \in SUBSET A : \A a \in s : G[s] = g[a] + G[s \ {a}]
  <2>1. SumRules(G, g, A)
    BY <1>3, SumsFollow
  <2> HIDE DEF G
  <2> QED
    BY <2>1 DEF SumRules
<1> HIDE DEF F, G
<1>5. {} \in L
  <2>1. {} \X B = {}
    OBVIOUS
  <2> QED
    BY <1>1, <1>4, <2>1
<1>6. ASSUME NEW s \in SUBSET A, s # {}, \A a \in s : s \ {a} \in L
      PROVE  s \in L
  <2>1. PICK a \in s : TRUE
    BY <1>6
  <2> DEFINE r == s \ {a}
             H == Sums(RowOf(f, a, B), B)
             U(t) == (r \X B) \cup ({a} \X t)
             K == {t \in SUBSET B : F[U(t)] = F[r \X B] + H[t]}
  <2>2. a \in A /\ r \in SUBSET A /\ a \notin r /\ F[r \X B] = G[r]
    BY <1>6
  <2>3. /\ H[{}] = 0 /\ \A t \in SUBSET B : H[t] \in Nat
        /\ \A t \in SUBSET B : \A b \in t : H[t] = f[<<a, b>>] + H[t \ {b}]
    BY <1>2, <2>2
  <2> HIDE DEF H, r
  <2>4. {} \in K
    <3>0. {a} \X {} = {}
      OBVIOUS
    <3>1. U({}) = r \X B /\ r \X B \in SUBSET (A \X B)
      BY <2>2, <3>0
    <3>2. F[r \X B] \in Nat
      BY <1>1, <3>1
    <3>3. H[{}] = 0
      BY <2>3
    <3> HIDE DEF U
    <3>6. F[U({})] = F[r \X B]
      BY <3>1
    <3>4. F[U({})] = F[r \X B] + H[{}]
      <4> DEFINE v == F[r \X B]
                 u == F[U({})]
                 e == H[{}]
      <4>1. v \in Nat /\ u = v /\ e = 0
        BY <3>2, <3>3, <3>6
      <4> HIDE DEF u, v, e
      <4>2. u = v + e
        BY <4>1
      <4> QED
        BY <4>2 DEF u, v, e
    <3>5. {} \in SUBSET B
      OBVIOUS
    <3> QED
      BY <3>4, <3>5
  <2>5. ASSUME NEW t \in SUBSET B, t # {}, \A b \in t : t \ {b} \in K
        PROVE  t \in K
    <3>1. PICK b \in t : TRUE
      BY <2>5
    <3>2. U(t) \in SUBSET (A \X B) /\ <<a, b>> \in U(t) /\ r \X B \in SUBSET (A \X B)
      BY <2>2, <3>1
    <3>3. U(t) \ {<<a, b>>} = U(t \ {b})
      BY <2>2, <3>1
    <3>4. F[U(t)] = f[<<a, b>>] + F[U(t \ {b})]
      BY <1>1, <3>2, <3>3
    <3>5. F[U(t \ {b})] = F[r \X B] + H[t \ {b}]
      BY <2>5, <3>1
    <3>6. H[t] = f[<<a, b>>] + H[t \ {b}] /\ H[t \ {b}] \in Nat
      BY <2>3, <3>1
    <3>7. f[<<a, b>>] \in Nat /\ F[r \X B] \in Nat
      BY <1>1, <2>2, <3>1, <3>2
    <3>8. F[U(t)] = F[r \X B] + H[t]
      <4> HIDE DEF U
      <4> QED
        BY <3>4, <3>5, <3>6, <3>7
    <3> QED
      BY <3>8
  <2> HIDE DEF K
  <2>6. \A t \in SUBSET B : t \in K
    BY <2>4, <2>5, PartInduction
  <2>7. F[U(B)] = F[r \X B] + H[B]
    BY <2>6 DEF K
  <2>8. U(B) = s \X B
    BY <2>1 DEF r
  <2>9. G[s] = g[a] + G[r] /\ g[a] = H[B] /\ g[a] \in Nat /\ G[r] \in Nat
    BY <1>3, <1>4, <2>1, <2>2 DEF r, H
  <2>10. F[s \X B] = G[s]
    <3> HIDE DEF U
    <3> QED
      BY <2>2, <2>7, <2>8, <2>9
  <2> QED
    BY <2>10
<1> HIDE DEF L
<1>7. \A s \in SUBSET A : s \in L
  BY <1>5, <1>6, PartInduction
<1>8. A \in L
  BY <1>7
<1> QED
  BY <1>8 DEF F, G, L

\* Finitely many numbers have a common multiple.
HasMultiple(S, f) ==
  \E L \in Nat \ {0} : \E k \in [S -> Nat] : \A x \in S : f[x] * k[x] = L

\* It is their product.
LEMMA CommonMultiple ==
  ASSUME NEW S, IsFiniteSet(S), NEW f, \A x \in S : f[x] \in Nat \ {0}
  PROVE  HasMultiple(S, f)
<1> DEFINE C(s, L) == \A x \in s : \E k \in Nat : f[x] * k = L
           G == {s \in SUBSET S : \E L \in Nat \ {0} : C(s, L)}
<1>1. {} \in G
  <2>1. C({}, 1) /\ 1 \in Nat \ {0}
    OBVIOUS
  <2> QED
    BY <2>1
<1>2. ASSUME NEW s \in SUBSET S, s # {}, \A x \in s : s \ {x} \in G
      PROVE  s \in G
  <2>1. PICK y \in s : TRUE
    BY <1>2
  <2>2. PICK L \in Nat \ {0} : C(s \ {y}, L)
    BY <1>2, <2>1
  <2> DEFINE M == L * f[y]
  <2>3. f[y] \in Nat \ {0} /\ M \in Nat \ {0}
    OBVIOUS
  <2>4. ASSUME NEW x \in s
        PROVE  \E k \in Nat : f[x] * k = M
    <3>1. CASE x = y
      <4>1. f[y] * L = M
        BY <2>3
      <4> QED
        BY <3>1, <4>1
    <3>2. CASE x # y
      <4>1. PICK k \in Nat : f[x] * k = L
        BY <2>2, <3>2
      <4>2. k * f[y] \in Nat
        BY <2>3
      <4>3. f[x] * (k * f[y]) = (f[x] * k) * f[y]
        <5>1. f[x] \in Nat
          OBVIOUS
        <5> QED
          BY <2>3, <5>1
      <4>4. f[x] * (k * f[y]) = M
        BY <4>1, <4>3
      <4> QED
        BY <4>2, <4>4
    <3> QED
      BY <3>1, <3>2
  <2> QED
    BY <2>3, <2>4
<1> HIDE DEF G
<1>3. \A s \in SUBSET S : s \in G
  BY <1>1, <1>2, PartInduction
<1>4. PICK L \in Nat \ {0} : C(S, L)
  BY <1>3 DEF G
<1> DEFINE k == [x \in S |-> CHOOSE i \in Nat : f[x] * i = L]
<1>5. \A x \in S : k[x] \in Nat /\ f[x] * k[x] = L
  BY <1>4
<1>6. k \in [S -> Nat]
  BY <1>5
<1> QED
  BY <1>5, <1>6 DEF HasMultiple

-------------------------------------------------------------------------------
(* Blocks of two drafts. *)

\* A ratio, capped.
LEMMA CapOne ==
  ASSUME NEW a \in Nat, NEW b \in Nat \ {0}
  PROVE  FMin(One, Frac(a, b)) = Frac(Lesser(a, b), b) /\ Lesser(a, b) \in Nat
<1>1. Frac(1, 1) = One /\ Frac(b, b) = One
  BY WholeFracs
<1>2. FMin(Frac(1, 1), Frac(a, b)) = IF 1 * b <= a * 1 THEN Frac(1, 1) ELSE Frac(a, b)
  BY MinFracs
<1>3. 1 * b <= a * 1 <=> b <= a
  OBVIOUS
<1>4. CASE b <= a
  <2>1. Lesser(a, b) = b
    BY <1>4 DEF Lesser
  <2> QED
    BY <1>1, <1>2, <1>3, <1>4, <2>1
<1>5. CASE ~(b <= a)
  <2>1. Lesser(a, b) = a
    BY <1>5 DEF Lesser
  <2> QED
    BY <1>1, <1>2, <1>3, <1>5, <2>1
<1> QED
  BY <1>4, <1>5

\* The ratio of two fractions with one denominator is that of their numerators.
LEMMA RatioOfShares ==
  ASSUME NEW p \in Nat, NEW q \in Nat \ {0}, NEW n \in Nat \ {0}
  PROVE  Frac(Frac(p, n)[1] * Frac(q, n)[2], Frac(p, n)[2] * Frac(q, n)[1]) = Frac(p, q)
<1>1. PICK a \in Nat, b \in Nat \ {0}, g \in Nat \ {0} :
        Frac(p, n) = <<a, b>> /\ p = g * a /\ n = g * b
  BY LowestTerms
<1>2. PICK c \in Nat, e \in Nat \ {0}, h \in Nat \ {0} :
        Frac(q, n) = <<c, e>> /\ q = h * c /\ n = h * e
  BY LowestTerms
<1>3. c # 0
  BY <1>2
<1>4. (a * e) * q = p * (b * c)
  <2>1. (a * e) * q = a * (h * e) * c
    BY <1>2
  <2>2. p * (b * c) = a * (g * b) * c
    BY <1>1, <1>2
  <2> QED
    BY <1>1, <1>2, <2>1, <2>2
<1> DEFINE u == a * e
           v == b * c
<1>5. u \in Nat /\ v \in Nat \ {0} /\ u * q = p * v
  BY <1>3, <1>4
<1> HIDE DEF u, v
<1>6. Frac(u, v) = Frac(p, q)
  BY <1>5, SameFrac
<1> QED
  BY <1>1, <1>2, <1>6 DEF u, v

\* A window of the block law.
LEMMA BlockWindow ==
  ASSUME NEW m, NEW d \in LawTokens \X LawTokens,
         NEW w, w = Laws!WindowOf(m, "block", d)
  PROVE  /\ w.kind = "block" /\ w.oneHot = m.oneHot /\ w.k = 2
         /\ w.drafts[0] = d[1] /\ w.drafts[1] = d[2]
         /\ w.target[0] = m.p /\ w.target[1] = m.p2[d[1]]
         /\ w.draft[0] = m.q /\ w.draft[1] = m.q2[d[1]]
<1>1. Len(d) = 2
  OBVIOUS
<1>2. 0 \in 0..(2 - 1) /\ 1 \in 0..(2 - 1) /\ 0 \in 0..2 /\ 1 \in 0..2 /\ 0 + 1 = 1 /\ 1 + 1 = 2
  OBVIOUS
<1> QED
  BY <1>1, <1>2 DEF Laws!WindowOf

\* The rows of a model.
LEMMA ModelRows ==
  ASSUME NEW m \in Laws!Models(LawWeight)
  PROVE  /\ LawWeight \in Nat \ {0} /\ m.oneHot \in BOOLEAN
         /\ m.p \in Laws!Dists(LawWeight) /\ m.q \in Laws!Dists(LawWeight)
         /\ \A x \in LawTokens : /\ m.p2[x] \in Laws!Dists(LawWeight)
                                 /\ m.q2[x] \in Laws!Dists(LawWeight)
BY LawAssumption DEF Laws!Models, LawTokens

\* The weight a drafter gave to the draft x, out of the row q.
DraftWeight(m, q, x) == IF m.oneHot THEN LawWeight ELSE q[x]

\* What the first draft weighs with the target, as far as the drafter's weight goes.
AcceptWeight(m, x) == Lesser(m.p[x], DraftWeight(m, m.q, x))

\* The shares along a window.
LEMMA BlockShares ==
  ASSUME NEW m \in Laws!Models(LawWeight), NEW d \in LawTokens \X LawTokens,
         NEW w, w = Laws!WindowOf(m, "block", d)
  PROVE  /\ \A x : Laws!TargetProb(w, 0, x) = Frac(m.p[x], LawWeight)
         /\ \A x : Laws!TargetProb(w, 1, x) = Frac(m.p2[d[1]][x], LawWeight)
         /\ Laws!DraftProb(w, 0, d[1]) = Frac(DraftWeight(m, m.q, d[1]), LawWeight)
         /\ Laws!DraftProb(w, 1, d[2]) = Frac(DraftWeight(m, m.q2[d[1]], d[2]), LawWeight)
         /\ ~m.oneHot => \A x : Laws!DraftProb(w, 1, x) = Frac(m.q2[d[1]][x], LawWeight)
<1>1. /\ w.oneHot = m.oneHot /\ w.drafts[0] = d[1] /\ w.drafts[1] = d[2]
      /\ w.target[0] = m.p /\ w.target[1] = m.p2[d[1]]
      /\ w.draft[0] = m.q /\ w.draft[1] = m.q2[d[1]]
  BY BlockWindow
<1>2. \A row \in Laws!Dists(LawWeight) : Laws!Total(w, row) = LawWeight
  BY DistIs, LawWindow
<1>3. d[1] \in LawTokens
  OBVIOUS
<1>4. /\ Laws!Total(w, m.p) = LawWeight /\ Laws!Total(w, m.q) = LawWeight
      /\ Laws!Total(w, m.p2[d[1]]) = LawWeight /\ Laws!Total(w, m.q2[d[1]]) = LawWeight
  BY <1>2, <1>3, ModelRows
<1>5. One = Frac(LawWeight, LawWeight)
  BY LawAssumption, WholeFracs
<1>6. \A x : Laws!TargetProb(w, 0, x) = Frac(m.p[x], LawWeight)
  BY <1>1, <1>4, LawFracs DEF Laws!TargetProb
<1>7. \A x : Laws!TargetProb(w, 1, x) = Frac(m.p2[d[1]][x], LawWeight)
  BY <1>1, <1>4, LawFracs DEF Laws!TargetProb
<1>8. Laws!DraftProb(w, 0, d[1]) = Frac(DraftWeight(m, m.q, d[1]), LawWeight)
  BY <1>1, <1>4, <1>5, LawFracs DEF Laws!DraftProb, DraftWeight
<1>9. Laws!DraftProb(w, 1, d[2]) = Frac(DraftWeight(m, m.q2[d[1]], d[2]), LawWeight)
  BY <1>1, <1>4, <1>5, LawFracs DEF Laws!DraftProb, DraftWeight
<1>10. ~m.oneHot => \A x : Laws!DraftProb(w, 1, x) = Frac(m.q2[d[1]][x], LawWeight)
  BY <1>1, <1>4, LawFracs DEF Laws!DraftProb
<1> QED
  BY <1>6, <1>7, <1>8, <1>9, <1>10

\* The joint ratio of a window, draft by draft.
LEMMA JointRatioIs ==
  ASSUME NEW m \in Laws!Models(LawWeight), NEW d \in LawTokens \X LawTokens,
         NEW w, w = Laws!WindowOf(m, "block", d),
         NEW b, b = DraftWeight(m, m.q, d[1]), b # 0,
         NEW c, c = DraftWeight(m, m.q2[d[1]], d[2]), c # 0,
         NEW a, a = AcceptWeight(m, d[1])
  PROVE  /\ a \in Nat /\ b \in Nat \ {0} /\ c \in Nat \ {0} /\ a <= b
         /\ m.p2[d[1]][d[2]] \in Nat
         /\ Laws!JointRatio(w)[0] = Frac(a, b)
         /\ Laws!JointRatio(w)[1] = Frac(Lesser(a * m.p2[d[1]][d[2]], b * c), b * c)
<1> DEFINE n == LawWeight
           e == m.p2[d[1]][d[2]]
           R(i) == LET p == Laws!TargetProb(w, i, w.drafts[i])
                       q == Laws!DraftProb(w, i, w.drafts[i])
                   IN  Laws!Frac(p[1] * q[2], p[2] * q[1])
           Q(g) == g = [i \in 0..(w.k - 1) |->
                          Laws!FMin(Laws!One, Laws!FMul(IF i = 0 THEN Laws!One ELSE g[i - 1], R(i)))]
<1>1. Laws!JointRatio(w) = CHOOSE g : Q(g)
  BY DEF Laws!JointRatio
<1>2. w.k = 2 /\ w.drafts[0] = d[1] /\ w.drafts[1] = d[2] /\ d[1] \in LawTokens /\ d[2] \in LawTokens
  BY BlockWindow
<1>3. n \in Nat \ {0} /\ m.p[d[1]] \in Nat /\ e \in Nat
  BY <1>2, ModelRows, DistIs
<1>4. b \in Nat \ {0} /\ c \in Nat \ {0}
  <2>1. m.q[d[1]] \in Nat /\ m.q2[d[1]][d[2]] \in Nat
    BY <1>2, ModelRows, DistIs
  <2> QED
    BY <1>3, <2>1 DEF DraftWeight
<1>5. a \in Nat /\ a <= b /\ a = Lesser(m.p[d[1]], b)
  BY <1>3, <1>4 DEF AcceptWeight, Lesser
<1>6. R(0) = Frac(m.p[d[1]], b)
  <2>1. R(0) = Frac(Frac(m.p[d[1]], n)[1] * Frac(b, n)[2], Frac(m.p[d[1]], n)[2] * Frac(b, n)[1])
    BY <1>2, BlockShares, LawFracs
  <2> QED
    BY <1>3, <1>4, <2>1, RatioOfShares
<1>7. R(1) = Frac(e, c)
  <2>1. R(1) = Frac(Frac(e, n)[1] * Frac(c, n)[2], Frac(e, n)[2] * Frac(c, n)[1])
    BY <1>2, BlockShares, LawFracs
  <2> QED
    BY <1>3, <1>4, <2>1, RatioOfShares
<1> HIDE DEF R, n, e
<1> DEFINE u == Frac(a, b)
           v == Frac(Lesser(a * e, b * c), b * c)
<1>8. FMin(One, FMul(One, R(0))) = u
  <2> DEFINE o == 1
             px == m.p[d[1]]
  <2>0. o \in Nat \ {0} /\ o * px = px /\ o * b = b /\ Frac(o, o) = One
    <3>1. Frac(1, 1) = One
      BY WholeFracs
    <3> QED
      BY <1>3, <1>4, <3>1
  <2> HIDE DEF o, px
  <2>1. FMul(Frac(o, o), Frac(px, b)) = Frac(o * px, o * b)
    <3>1. o \in Nat /\ px \in Nat
      BY <1>3, <2>0 DEF px
    <3>2. MulIs(o, o, px, b)
      BY <1>4, <2>0, <3>1, MulHolds
    <3> QED
      BY <3>2 DEF MulIs
  <2>4. FMul(One, R(0)) = Frac(m.p[d[1]], b)
    BY <1>6, <2>0, <2>1 DEF px
  <2> QED
    BY <1>3, <1>4, <1>5, <2>4, CapOne
<1>9. FMin(One, FMul(u, R(1))) = v
  <2>1. FMul(Frac(a, b), Frac(e, c)) = Frac(a * e, b * c)
    <3>1. MulIs(a, b, e, c)
      BY <1>3, <1>4, <1>5, MulHolds
    <3> QED
      BY <3>1 DEF MulIs
  <2>2. a * e \in Nat /\ b * c \in Nat \ {0}
    BY <1>3, <1>4, <1>5
  <2>3. \A i \in Nat, j \in Nat \ {0} : FMin(One, Frac(i, j)) = Frac(Lesser(i, j), j)
    BY CapOne
  <2>4. FMin(One, Frac(a * e, b * c)) = v
    BY <2>2, <2>3
  <2> QED
    BY <1>7, <2>1, <2>4
<1> HIDE DEF u, v
<1>10. ASSUME NEW g
       PROVE  Q(g) <=> g = [i \in {0, 1} |-> FMin(One, FMul(IF i = 0 THEN One ELSE g[i - 1], R(i)))]
  <2>1. 0..(w.k - 1) = {0, 1}
    BY <1>2
  <2> QED
    BY <2>1, LawFracs
<1> HIDE DEF Q
<1> DEFINE h == [i \in {0, 1} |-> IF i = 0 THEN u ELSE v]
<1>11. Q(h)
  <2>1. h[0] = u
    OBVIOUS
  <2>2. ASSUME NEW i \in {0, 1}
        PROVE  h[i] = FMin(One, FMul(IF i = 0 THEN One ELSE h[i - 1], R(i)))
    <3>1. CASE i = 0
      BY <1>8, <3>1
    <3>2. CASE i = 1
      <4>1. i - 1 = 0 /\ h[i] = v
        BY <3>2
      <4> HIDE DEF h
      <4> QED
        BY <1>9, <2>1, <3>2, <4>1
    <3> QED
      BY <3>1, <3>2
  <2>3. h = [i \in {0, 1} |-> FMin(One, FMul(IF i = 0 THEN One ELSE h[i - 1], R(i)))]
    <3>1. h = [i \in {0, 1} |-> h[i]]
      OBVIOUS
    <3> HIDE DEF h
    <3> QED
      BY <2>2, <3>1
  <2> QED
    BY <1>10, <2>3
<1>12. Q(Laws!JointRatio(w))
  <2> HIDE DEF h
  <2> QED
    BY <1>1, <1>11
<1> DEFINE j == Laws!JointRatio(w)
<1>13. j = [i \in {0, 1} |-> FMin(One, FMul(IF i = 0 THEN One ELSE j[i - 1], R(i)))]
  BY <1>10, <1>12
<1> HIDE DEF j
<1>14. j[0] = FMin(One, FMul(One, R(0)))
  BY <1>13
<1>15. j[1] = FMin(One, FMul(j[0], R(1)))
  <2>1. 1 - 1 = 0
    OBVIOUS
  <2> QED
    BY <1>13, <2>1
<1> QED
  BY <1>3, <1>4, <1>5, <1>8, <1>9, <1>14, <1>15 DEF j, u, v, e

-------------------------------------------------------------------------------
(* The thresholds of a block. *)

\* What a share leaves of the whole.
LEMMA Complement ==
  ASSUME NEW a \in Nat, NEW b \in Nat \ {0}, a <= b
  PROVE  b - a \in Nat /\ FMonus(One, Frac(a, b)) = Frac(b - a, b)
<1>1. One = Frac(1, 1)
  BY WholeFracs
<1>2. FMonus(Frac(1, 1), Frac(a, b)) = Frac(Monus(1 * b, a * 1), 1 * b)
  BY MonusFracs
<1>3. Monus(1 * b, a * 1) = b - a /\ 1 * b = b /\ b - a \in Nat
  BY DEF Monus
<1> QED
  BY <1>1, <1>2, <1>3

\* A fraction is zero if its numerator is, and only then.
LEMMA ZeroNumerator ==
  ASSUME NEW a \in Nat, NEW b \in Nat \ {0}
  PROVE  Frac(a, b)[1] = 0 <=> a = 0
<1>1. PICK p \in Nat, q \in Nat \ {0}, g \in Nat \ {0} :
        Frac(a, b) = <<p, q>> /\ a = g * p /\ b = g * q
  BY LowestTerms
<1>2. Frac(a, b)[1] = p
  BY <1>1
<1>3. g * p = 0 <=> p = 0
  OBVIOUS
<1> QED
  BY <1>1, <1>2, <1>3

\* The threshold after the joint ratio a / b, out of the weight R of the residual, and
\* what that is a share of.
ThresholdValue(a, b, R, n) ==
  LET mass  == Frac(R, b * n)
      denom == FAdd(mass, FMonus(One, Frac(a, b)))
  IN  IF denom[1] = 0 THEN One ELSE Frac(mass[1] * denom[2], mass[2] * denom[1])

\* What it divides by.
ThresholdBase(a, b, R, n) == R + (b - a) * n

\* A threshold is the residual mass over that mass and what is refused.
LEMMA ThresholdOf ==
  ASSUME NEW a \in Nat, NEW b \in Nat \ {0}, a <= b, NEW R \in Nat, NEW n \in Nat \ {0}
  PROVE  /\ ThresholdBase(a, b, R, n) \in Nat
         /\ ThresholdValue(a, b, R, n)
              = Frac(IF ThresholdBase(a, b, R, n) = 0 THEN 1 ELSE R,
                     AtLeastOne(ThresholdBase(a, b, R, n)))
<1> DEFINE c == b - a
           M == b * n
           S == ThresholdBase(a, b, R, n)
           mass == Frac(R, b * n)
           denom == FAdd(mass, FMonus(One, Frac(a, b)))
<1>1. c \in Nat /\ FMonus(One, Frac(a, b)) = Frac(c, b)
  BY Complement
<1>2. M \in Nat \ {0} /\ M = b * n
  OBVIOUS
<1>3. S \in Nat /\ S = R + c * n
  <2>1. c * n \in Nat
    BY <1>1
  <2> QED
    BY <2>1 DEF ThresholdBase
<1>8. ThresholdValue(a, b, R, n)
        = IF denom[1] = 0 THEN One ELSE Frac(mass[1] * denom[2], mass[2] * denom[1])
  BY DEF ThresholdValue
<1>9. denom = FAdd(mass, Frac(c, b)) /\ mass = Frac(R, M)
  BY <1>1
<1> HIDE DEF c, M, S, mass, denom
<1>4. denom = Frac(S, M)
  <2>1. FAdd(Frac(R, M), Frac(c, b)) = Frac(R * b + c * M, M * b)
    BY <1>1, <1>2, AddFracs
  <2>2. R * b + c * M = b * S
    <3>1. c * M = b * (c * n)
      BY <1>1, <1>2
    <3>2. c * n \in Nat
      BY <1>1
    <3> DEFINE z == c * n
    <3> HIDE DEF z
    <3>3. R * b + b * z = b * (R + z)
      BY <3>2 DEF z
    <3> QED
      BY <1>3, <3>1, <3>3 DEF z
  <2>3. M * b = b * M
    BY <1>2
  <2>4. Frac(b * S, b * M) = Frac(S, M)
    BY <1>2, <1>3, FracScales
  <2> QED
    BY <1>9, <2>1, <2>2, <2>3, <2>4
<1>5. denom[1] = 0 <=> S = 0
  BY <1>2, <1>3, <1>4, ZeroNumerator
<1>6. CASE S = 0
  <2>1. Frac(1, 1) = One
    BY WholeFracs
  <2> QED
    BY <1>3, <1>5, <1>6, <1>8, <2>1 DEF AtLeastOne, S
<1>7. CASE S # 0
  <2>1. Frac(Frac(R, M)[1] * Frac(S, M)[2], Frac(R, M)[2] * Frac(S, M)[1]) = Frac(R, S)
    BY <1>2, <1>3, <1>7, RatioOfShares
  <2>2. denom[1] # 0
    BY <1>5, <1>7
  <2>3. ThresholdValue(a, b, R, n) = Frac(R, S)
    BY <1>4, <1>8, <1>9, <2>1, <2>2
  <2> QED
    BY <1>3, <1>7, <2>3 DEF AtLeastOne, S
<1> QED
  BY <1>6, <1>7

\* A difference of multiples.
LEMMA MonusScales ==
  ASSUME NEW k \in Nat \ {0}, NEW x \in Nat, NEW y \in Nat
  PROVE  Monus(x, y) \in Nat /\ Monus(k * x, k * y) = k * Monus(x, y)
<1>1. k * x > k * y <=> x > y
  BY CancelOrder
<1>2. k * x \in Nat /\ k * y \in Nat /\ k * x - k * y = k * (x - y) /\ k * 0 = 0
  OBVIOUS
<1>3. CASE x <= y
  <2>1. Monus(x, y) = 0 /\ Monus(k * x, k * y) = 0
    BY <1>1, <1>2, <1>3 DEF Monus
  <2> QED
    BY <1>2, <2>1
<1>4. CASE ~(x <= y)
  <2>1. Monus(x, y) = x - y /\ Monus(k * x, k * y) = k * x - k * y
    BY <1>1, <1>2, <1>4 DEF Monus
  <2> QED
    BY <1>2, <1>4, <2>1
<1> QED
  BY <1>3, <1>4

\* What the scaled target has more than the drafter, of one token.
LEMMA ScaledShare ==
  ASSUME NEW a \in Nat, NEW b \in Nat \ {0}, NEW n \in Nat \ {0}, NEW p \in Nat, NEW q \in Nat
  PROVE  FMonus(FMul(Frac(a, b), Frac(p, n)), Frac(q, n)) = Frac(Monus(a * p, b * q), b * n)
<1> DEFINE u == a * p
           v == b * q
           M == b * n
<1>1. u \in Nat /\ v \in Nat /\ M \in Nat \ {0}
  OBVIOUS
<1>2. FMul(Frac(a, b), Frac(p, n)) = Frac(u, M)
  BY MulFracs
<1>3. q * M = n * v
  OBVIOUS
<1> HIDE DEF u, v, M
<1>4. FMonus(Frac(u, M), Frac(q, n)) = Frac(Monus(u * n, q * M), M * n)
  BY <1>1, MonusFracs
<1>5. u * n = n * u /\ M * n = n * M
  BY <1>1
<1>6. Monus(u, v) \in Nat /\ Monus(n * u, n * v) = n * Monus(u, v)
  BY <1>1, MonusScales
<1>7. Frac(n * Monus(u, v), n * M) = Frac(Monus(u, v), M)
  BY <1>1, <1>6, FracScales
<1> QED
  BY <1>2, <1>3, <1>4, <1>5, <1>6, <1>7 DEF u, v, M

\* A row times a number.
Times(k, row) == [x \in LawTokens |-> k * row[x]]

\* Its sum is as many times the sum.
LEMMA SumTimes ==
  ASSUME NEW k \in Nat, NEW row, \A x \in LawTokens : row[x] \in Nat
  PROVE  LawSum(row) \in Nat /\ LawSum(Times(k, row)) = k * LawSum(row)
<1> DEFINE h == Times(k, row)
<1>1. \A x \in LawTokens : row[x] \in Nat /\ h[x] = k * row[x]
  BY DEF Times
<1> HIDE DEF h
<1>2. LawSum(row) \in Nat /\ LawSum(h) = k * LawSum(row)
  BY <1>1, SumScales, LawTokensFinite DEF LawSum
<1> QED
  BY <1>2 DEF h

\* What is left of the target's second row P for the drafter's Q and the joint ratio
\* a / b, when the drafter has logits.
ScaledExcess(a, P, b, Q) == Excess(Times(a, P), Times(b, Q))

\* Its weights are natural numbers, with a natural sum.
LEMMA ScaledExcessIs ==
  ASSUME NEW a \in Nat, NEW b \in Nat, NEW P, NEW Q,
         \A x \in LawTokens : P[x] \in Nat /\ Q[x] \in Nat
  PROVE  /\ \A x \in LawTokens : /\ ScaledExcess(a, P, b, Q)[x] = Monus(a * P[x], b * Q[x])
                                 /\ ScaledExcess(a, P, b, Q)[x] \in Nat
         /\ LawSum(ScaledExcess(a, P, b, Q)) \in Nat
<1> DEFINE r == ScaledExcess(a, P, b, Q)
<1>1. \A x \in LawTokens : r[x] = Monus(a * P[x], b * Q[x])
  BY DEF ScaledExcess, Excess, Times
<1>2. ASSUME NEW x \in LawTokens
      PROVE  Monus(a * P[x], b * Q[x]) \in Nat
  <2>1. a * P[x] \in Nat /\ b * Q[x] \in Nat
    OBVIOUS
  <2> QED
    BY <2>1 DEF Monus
<1> HIDE DEF r
<1>3. \A x \in LawTokens : r[x] \in Nat
  BY <1>1, <1>2
<1>4. LawSum(r) \in Nat
  BY <1>3, NoSum
<1> QED
  BY <1>1, <1>3, <1>4 DEF r

\* The mass of the second position's residual with a drafter that has logits.
LEMMA DrafterMass ==
  ASSUME NEW m \in Laws!Models(LawWeight), ~m.oneHot, NEW d \in LawTokens \X LawTokens,
         NEW w, w = Laws!WindowOf(m, "block", d),
         NEW a \in Nat, NEW b \in Nat \ {0}
  PROVE  Laws!ResidualMass(w, 1, Frac(a, b))
           = Frac(LawSum(ScaledExcess(a, m.p2[d[1]], b, m.q2[d[1]])), b * LawWeight)
<1> DEFINE S == Laws!Tokens(w)
           E(x) == Laws!ScaledResidual(w, 1, Frac(a, b), x)
           t == [x \in S |-> E(x)]
           f == ScaledExcess(a, m.p2[d[1]], b, m.q2[d[1]])
           M == b * LawWeight
           P(h) == h = [s \in SUBSET S |->
                          IF s = {} THEN <<0, 1>>
                          ELSE Laws!FAdd(E(First(s)), h[s \ {First(s)}])]
<1>0. w.oneHot = m.oneHot
  BY BlockWindow
<1>1. Laws!ResidualMass(w, 1, Frac(a, b)) = (CHOOSE h : P(h))[S]
  BY <1>0 DEF Laws!ResidualMass, Laws!FSum, Laws!FoldSet, Laws!MapThenFoldSet, First
<1>2. S = LawTokens
  BY LawWindow
<1>3. /\ LawWeight \in Nat \ {0} /\ M \in Nat \ {0}
      /\ \A x \in LawTokens : m.p2[d[1]][x] \in Nat /\ m.q2[d[1]][x] \in Nat
  <2>1. d[1] \in LawTokens
    OBVIOUS
  <2> QED
    BY <2>1, ModelRows, DistIs
<1>4. \A x \in LawTokens : f[x] \in Nat /\ f[x] = Monus(a * m.p2[d[1]][x], b * m.q2[d[1]][x])
  BY <1>3, ScaledExcessIs
<1>5. \A x \in S : f[x] \in Nat /\ t[x] = Frac(f[x], M)
  <2>1. ASSUME NEW x \in S
        PROVE  t[x] = Frac(f[x], M)
    <3>1. E(x) = FMonus(FMul(Frac(a, b), Frac(m.p2[d[1]][x], LawWeight)),
                        Frac(m.q2[d[1]][x], LawWeight))
      BY BlockShares, LawFracs DEF Laws!ScaledResidual
    <3>2. m.p2[d[1]][x] \in Nat /\ m.q2[d[1]][x] \in Nat
      BY <1>2, <1>3
    <3>3. E(x) = Frac(Monus(a * m.p2[d[1]][x], b * m.q2[d[1]][x]), M)
      <4>1. \A p \in Nat, q \in Nat :
              FMonus(FMul(Frac(a, b), Frac(p, LawWeight)), Frac(q, LawWeight))
                = Frac(Monus(a * p, b * q), b * LawWeight)
        BY <1>3, ScaledShare
      <4> HIDE DEF E
      <4> QED
        BY <3>1, <3>2, <4>1
    <3>4. t[x] = E(x)
      OBVIOUS
    <3>5. f[x] = Monus(a * m.p2[d[1]][x], b * m.q2[d[1]][x])
      BY <1>2, <1>4
    <3> HIDE DEF t, E, f, M
    <3> QED
      BY <3>3, <3>4, <3>5
  <2> QED
    BY <1>2, <1>4, <2>1
<1>7. ASSUME NEW h
      PROVE  P(h) <=> FoldEq(h, t, S)
  <2>1. ASSUME NEW s \in SUBSET S, s # {}
        PROVE  t[First(s)] = E(First(s))
    <3>1. First(s) \in S
      BY <2>1 DEF First
    <3> QED
      BY <3>1
  <2> HIDE DEF t, S, E
  <2>2. ASSUME NEW s \in SUBSET S
        PROVE  FoldStep(h, t, s) = IF s = {} THEN <<0, 1>>
                                   ELSE Laws!FAdd(E(First(s)), h[s \ {First(s)}])
    BY <2>1, LawFracs DEF FoldStep
  <2> QED
    BY <2>2 DEF FoldEq
<1> HIDE DEF E, t, f, M
<1>8. IsFiniteSet(S)
  BY <1>2, LawTokensFinite
<1> HIDE DEF S
<1>9. \E h : FoldEq(h, t, S)
  BY <1>3, <1>5, <1>8, FoldExists
<1>10. P(CHOOSE h : P(h))
  BY <1>7, <1>9
<1> DEFINE h == CHOOSE h : P(h)
<1>11. FoldEq(h, t, S)
  BY <1>7, <1>10
<1> HIDE DEF h, P
<1>12. h[S] = Frac(Sums(f, S)[S], M)
  BY <1>3, <1>5, <1>8, <1>11, FoldIs
<1> QED
  BY <1>1, <1>2, <1>12 DEF h, f, M, LawSum

\* Without logits it has a closed form.
LEMMA OneHotMass ==
  ASSUME NEW m \in Laws!Models(LawWeight), m.oneHot, NEW d \in LawTokens \X LawTokens,
         NEW w, w = Laws!WindowOf(m, "block", d),
         NEW a \in Nat, NEW b \in Nat \ {0}
  PROVE  /\ LawWeight - m.p2[d[1]][d[2]] \in Nat
         /\ Laws!ResidualMass(w, 1, Frac(a, b))
              = Frac(a * (LawWeight - m.p2[d[1]][d[2]]), b * LawWeight)
<1> DEFINE n == LawWeight
           e == m.p2[d[1]][d[2]]
<1>1. n \in Nat \ {0} /\ e \in Nat /\ e <= n
  <2>1. d[1] \in LawTokens /\ d[2] \in LawTokens
    OBVIOUS
  <2> QED
    BY <2>1, ModelRows, DistIs
<1>2. n - e \in Nat /\ FMonus(One, Frac(e, n)) = Frac(n - e, n)
  BY <1>1, Complement
<1>3. Laws!ResidualMass(w, 1, Frac(a, b)) = FMul(Frac(a, b), FMonus(One, Frac(e, n)))
  BY BlockWindow, BlockShares, LawFracs DEF Laws!ResidualMass
<1> DEFINE c == n - e
<1> HIDE DEF n, e, c
<1>4. FMul(Frac(a, b), Frac(c, n)) = Frac(a * c, b * n)
  BY <1>1, <1>2, MulFracs DEF c
<1> QED
  BY <1>2, <1>3, <1>4 DEF c, n, e

\* What the second position's residual weighs.
NextMass(m, d) ==
  LET a == AcceptWeight(m, d[1])
      b == DraftWeight(m, m.q, d[1])
  IN  IF m.oneHot THEN a * (LawWeight - m.p2[d[1]][d[2]])
      ELSE LawSum(ScaledExcess(a, m.p2[d[1]], b, m.q2[d[1]]))

\* The thresholds of the first draft and of both.
LEMMA ThresholdsAre ==
  ASSUME NEW m \in Laws!Models(LawWeight), NEW d \in LawTokens \X LawTokens,
         NEW w, w = Laws!WindowOf(m, "block", d),
         NEW b, b = DraftWeight(m, m.q, d[1]), b # 0,
         NEW c, c = DraftWeight(m, m.q2[d[1]], d[2]), c # 0,
         NEW a, a = AcceptWeight(m, d[1]),
         NEW R, R = NextMass(m, d),
         NEW S, S = R + (b - a) * LawWeight
  PROVE  /\ R \in Nat /\ S \in Nat
         /\ Laws!Threshold(w, 0) = Frac(IF S = 0 THEN 1 ELSE R, AtLeastOne(S))
         /\ Laws!Threshold(w, 1) = Frac(Lesser(a * m.p2[d[1]][d[2]], b * c), b * c)
<1>1. /\ a \in Nat /\ b \in Nat \ {0} /\ a <= b
      /\ Laws!JointRatio(w)[0] = Frac(a, b)
      /\ Laws!JointRatio(w)[1] = Frac(Lesser(a * m.p2[d[1]][d[2]], b * c), b * c)
  BY JointRatioIs
<1>2. w.k = 2 /\ LawWeight \in Nat \ {0} /\ d[1] \in LawTokens
  BY BlockWindow, ModelRows
<1>3. R \in Nat /\ Laws!ResidualMass(w, 1, Frac(a, b)) = Frac(R, b * LawWeight)
  <2>1. CASE m.oneHot
    <3>1. R = a * (LawWeight - m.p2[d[1]][d[2]])
      BY <2>1 DEF NextMass
    <3>2. LawWeight - m.p2[d[1]][d[2]] \in Nat
      BY <1>1, <2>1, OneHotMass
    <3>3. R \in Nat
      BY <1>1, <3>1, <3>2
    <3> QED
      BY <1>1, <2>1, <3>1, <3>3, OneHotMass
  <2>2. CASE ~m.oneHot
    <3>1. R = LawSum(ScaledExcess(a, m.p2[d[1]], b, m.q2[d[1]]))
      BY <2>2 DEF NextMass
    <3>2. \A x \in LawTokens : m.p2[d[1]][x] \in Nat /\ m.q2[d[1]][x] \in Nat
      BY <1>2, ModelRows, DistIs
    <3>3. R \in Nat
      BY <1>1, <3>1, <3>2, ScaledExcessIs
    <3> QED
      BY <1>1, <2>2, <3>1, <3>3, DrafterMass
  <2> QED
    BY <2>1, <2>2
<1>4. /\ S \in Nat
      /\ ThresholdValue(a, b, R, LawWeight) = Frac(IF S = 0 THEN 1 ELSE R, AtLeastOne(S))
  <2>1. S = ThresholdBase(a, b, R, LawWeight)
    BY DEF ThresholdBase
  <2>2. \A i \in Nat, j \in Nat \ {0}, k \in Nat, l \in Nat \ {0} : i <= j =>
          /\ ThresholdBase(i, j, k, l) \in Nat
          /\ ThresholdValue(i, j, k, l)
               = Frac(IF ThresholdBase(i, j, k, l) = 0 THEN 1 ELSE k,
                      AtLeastOne(ThresholdBase(i, j, k, l)))
    BY ThresholdOf
  <2>3. /\ ThresholdBase(a, b, R, LawWeight) \in Nat
        /\ ThresholdValue(a, b, R, LawWeight)
             = Frac(IF ThresholdBase(a, b, R, LawWeight) = 0 THEN 1 ELSE R,
                    AtLeastOne(ThresholdBase(a, b, R, LawWeight)))
    <3>1. a \in Nat /\ b \in Nat \ {0} /\ R \in Nat /\ LawWeight \in Nat \ {0} /\ a <= b
      BY <1>1, <1>2, <1>3
    <3>2. \A j \in Nat \ {0}, k \in Nat, l \in Nat \ {0} : a <= j =>
            /\ ThresholdBase(a, j, k, l) \in Nat
            /\ ThresholdValue(a, j, k, l)
                 = Frac(IF ThresholdBase(a, j, k, l) = 0 THEN 1 ELSE k,
                        AtLeastOne(ThresholdBase(a, j, k, l)))
      BY <2>2, <3>1
    <3>3. \A k \in Nat, l \in Nat \ {0} :
            /\ ThresholdBase(a, b, k, l) \in Nat
            /\ ThresholdValue(a, b, k, l)
                 = Frac(IF ThresholdBase(a, b, k, l) = 0 THEN 1 ELSE k,
                        AtLeastOne(ThresholdBase(a, b, k, l)))
      BY <3>1, <3>2
    <3> QED
      BY <3>1, <3>3
  <2> QED
    BY <2>1, <2>3
<1>5. Laws!Threshold(w, 0) = ThresholdValue(a, b, R, LawWeight)
  <2>1. 0 # w.k - 1 /\ 0 + 1 = 1
    BY <1>2
  <2> QED
    BY <1>1, <1>3, <2>1, LawFracs DEF Laws!Threshold, ThresholdValue
<1>6. Laws!Threshold(w, 1) = Laws!JointRatio(w)[1]
  <2>1. 1 = w.k - 1
    BY <1>2
  <2> QED
    BY <2>1 DEF Laws!Threshold
<1> QED
  BY <1>1, <1>3, <1>4, <1>5, <1>6

-------------------------------------------------------------------------------
(* The residuals of a block. *)

\* A row that is proportional to r.
Proportional(row, r, g, k) ==
  \A x \in LawTokens : row[x] \in Nat /\ g * row[x] = k * r[x]

\* The share of a token in it.
LEMMA ProbOfMultiple ==
  ASSUME NEW r, \A x \in LawTokens : r[x] \in Nat, NEW g \in Nat \ {0}, NEW k \in Nat \ {0},
         NEW row, DOMAIN row = LawTokens, Proportional(row, r, g, k),
         NEW x \in LawTokens
  PROVE  /\ LawSum(r) \in Nat
         /\ Laws!Prob(row, x) = Frac(r[x], AtLeastOne(LawSum(r)))
<1> DEFINE s == LawSum(r)
           t == LawSum(row)
<1>0. \A y \in LawTokens : row[y] \in Nat /\ g * row[y] = k * r[y]
  BY DEF Proportional
<1>1. s \in Nat /\ t \in Nat /\ (s = 0 => r[x] = 0)
  BY <1>0, NoSum
<1>2. g * t = k * s
  <2>1. Times(g, row) = Times(k, r)
    BY <1>0 DEF Times
  <2>2. LawSum(Times(g, row)) = g * t
    BY <1>0, SumTimes
  <2>3. LawSum(Times(k, r)) = k * s
    BY SumTimes
  <2> QED
    BY <2>1, <2>2, <2>3
<1>3. Laws!Prob(row, x) = IF t = 0 THEN <<0, 1>> ELSE Frac(row[x], t)
  BY MassIsSum, LawFracs DEF Laws!Prob
<1> HIDE DEF s, t
<1>4. CASE s = 0
  <2>1. t = 0
    BY <1>1, <1>2, <1>4
  <2>2. Frac(0, 1) = <<0, 1>>
    BY WholeFracs
  <2> QED
    BY <1>1, <1>3, <1>4, <2>1, <2>2 DEF AtLeastOne, s
<1>5. CASE s # 0
  <2>1. t # 0
    BY <1>1, <1>2, <1>5
  <2> DEFINE u == row[x]
             v == r[x]
  <2>2. u \in Nat /\ v \in Nat /\ g * u = k * v
    BY <1>0
  <2> HIDE DEF u, v
  <2>3. g * (u * s) = g * (v * t)
    <3>1. g * (u * s) = (k * v) * s
      BY <1>1, <2>2
    <3>2. g * (v * t) = v * (k * s)
      BY <1>1, <1>2, <2>2
    <3> QED
      BY <1>1, <2>2, <3>1, <3>2
  <2>4. u * s = v * t
    <3>1. u * s \in Nat /\ v * t \in Nat
      BY <1>1, <2>2
    <3> DEFINE i == u * s
               j == v * t
    <3> HIDE DEF i, j
    <3>2. ~(i > j) /\ ~(j > i)
      BY <2>3, <3>1, CancelOrder DEF i, j
    <3> QED
      BY <3>1, <3>2 DEF i, j
  <2>5. Frac(u, t) = Frac(v, s)
    BY <1>1, <1>5, <2>1, <2>2, <2>4, SameFrac
  <2> QED
    BY <1>1, <1>3, <1>5, <2>1, <2>5 DEF AtLeastOne, s, u, v
<1> QED
  BY <1>1, <1>4, <1>5 DEF s

\* What is left of the target at the first position.
FirstExcess(m, d) == IF m.oneHot THEN Without(m.p, d) ELSE Excess(m.p, m.q)

\* The window of either method has the same residual there.
LEMMA FirstResidual ==
  ASSUME NEW m \in Laws!Models(LawWeight), NEW d \in LawTokens, NEW x \in LawTokens,
         NEW w, w.oneHot = m.oneHot, w.k # 0, w.drafts[0] = d,
         w.target[0] = m.p, w.draft[0] = m.q
  PROVE  /\ \A y \in LawTokens : FirstExcess(m, d)[y] \in Nat
         /\ LawSum(FirstExcess(m, d)) \in Nat
         /\ Laws!Prob(Laws!Residual(w, 0), x)
              = Frac(FirstExcess(m, d)[x], AtLeastOne(LawSum(FirstExcess(m, d))))
<1> DEFINE n == LawWeight
           r == FirstExcess(m, d)
           row == Laws!Residual(w, 0)
<1>2. m.p \in Laws!Dists(n) /\ m.q \in Laws!Dists(n) /\ m.oneHot \in BOOLEAN
  BY DEF Laws!Models
<1>3. /\ \A y \in LawTokens : m.p[y] \in Nat /\ m.q[y] \in Nat
      /\ LawSum(m.p) = n /\ LawSum(m.q) = n
      /\ DOMAIN m.p = LawTokens /\ DOMAIN m.q = LawTokens
  BY <1>2, DistIs
<1>4. ~Laws!HasNaN(m.p) /\ ~Laws!HasNaN(m.q)
  BY <1>3 DEF Laws!HasNaN, Laws!NaN
<1>5. n \in Nat \ {0}
  BY LawAssumption
<1> HIDE DEF n
<1>6. \A y \in LawTokens : r[y] \in Nat
  BY <1>3 DEF FirstExcess, Without, Excess, Monus
<1>7. CASE m.oneHot
  <2>1. row = [y \in DOMAIN m.p |-> IF y = d THEN 0 ELSE m.p[y]]
    BY <1>7 DEF Laws!Residual
  <2>2. DOMAIN row = LawTokens /\ \A y \in LawTokens : row[y] = 1 * r[y]
    BY <1>3, <1>7, <2>1 DEF Without, FirstExcess
  <2> HIDE DEF r, row
  <2>3. /\ LawSum(r) \in Nat
        /\ Laws!Prob(row, x) = Frac(r[x], AtLeastOne(LawSum(r)))
    BY <1>6, <2>2, ProbOfScaled
  <2> QED
    BY <1>6, <2>3 DEF r, row
<1>8. CASE ~m.oneHot
  <2>1. Laws!Total(w, m.p) = n /\ Laws!Total(w, m.q) = n /\ Laws!Tokens(w) = LawTokens
    BY <1>3, LawWindow
  <2>2. Laws!Tau(w, 0) = <<1, 1>>
    BY DEF Laws!Tau, Laws!One
  <2>3. row = [y \in LawTokens |->
                 IF 1 * m.p[y] * n - 1 * m.q[y] * n \in Nat
                 THEN 1 * m.p[y] * n - 1 * m.q[y] * n ELSE 0]
    BY <1>4, <1>8, <2>1, <2>2 DEF Laws!Residual
  <2>4. ASSUME NEW y \in LawTokens
        PROVE  row[y] = n * r[y]
    <3> DEFINE a == m.p[y]
               b == m.q[y]
    <3>1. a \in Nat /\ b \in Nat /\ r[y] = Monus(a, b)
      BY <1>3, <1>8 DEF Excess, FirstExcess
    <3>2. row[y] = IF 1 * a * n - 1 * b * n \in Nat THEN 1 * a * n - 1 * b * n ELSE 0
      BY <2>3
    <3> HIDE DEF a, b, r, row
    <3>3. 1 * a * n - 1 * b * n = n * (a - b) /\ n * (a - b) \in Int
      BY <1>5, <3>1
    <3>4. CASE a <= b
      <4>2. a - b = 0 \/ a - b <= -1
        BY <3>1, <3>4
      <4>3. n * (a - b) = 0 \/ n * (a - b) <= n * (-1)
        BY <1>5, <3>1, <4>2
      <4>4. r[y] = 0 /\ n * 0 = 0
        BY <1>5, <3>1, <3>4 DEF Monus
      <4> QED
        BY <1>5, <3>2, <3>3, <4>3, <4>4
    <3>5. CASE ~(a <= b)
      <4>1. a - b \in Nat /\ r[y] = a - b
        BY <3>1, <3>5 DEF Monus
      <4>2. n * (a - b) \in Nat
        BY <1>5, <4>1
      <4> QED
        BY <3>2, <3>3, <4>1, <4>2
    <3> QED
      BY <3>4, <3>5
  <2>5. DOMAIN row = LawTokens
    BY <2>3
  <2> HIDE DEF r, row
  <2>6. /\ LawSum(r) \in Nat
        /\ Laws!Prob(row, x) = Frac(r[x], AtLeastOne(LawSum(r)))
    BY <1>5, <1>6, <2>4, <2>5, ProbOfScaled
  <2> QED
    BY <1>6, <2>6 DEF r, row
<1> QED
  BY <1>2, <1>7, <1>8

\* A cell of the second residual.
Cell(i, p, j, q, n) ==
  IF i * p * n - j * q * n \in Nat THEN i * p * n - j * q * n ELSE 0

\* Scaled by g it is a multiple of the difference of the scaled weights.
CellScales(i, p, j, q, n, g) ==
  /\ Cell(i, p, j, q, n) \in Nat
  /\ g * Cell(i, p, j, q, n) = n * Monus((g * i) * p, (g * j) * q)

\* Scaling keeps the order of the two products.
LEMMA ScaledCell ==
  ASSUME NEW i \in Nat, NEW j \in Nat, NEW g \in Nat \ {0}, NEW n \in Nat \ {0},
         NEW p \in Nat, NEW q \in Nat
  PROVE  CellScales(i, p, j, q, n, g)
<1> DEFINE e == i * p
           f == j * q
           v == i * p * n - j * q * n
<1>0. Cell(i, p, j, q, n) = IF v \in Nat THEN v ELSE 0
  BY DEF Cell
<1>1. e \in Nat /\ f \in Nat /\ (g * i) * p = g * e /\ (g * j) * q = g * f
  OBVIOUS
<1>2. v = n * (e - f)
  OBVIOUS
<1> HIDE DEF e, f, v
<1>3. Monus(e, f) \in Nat /\ Monus(g * e, g * f) = g * Monus(e, f)
  BY <1>1, MonusScales
<1>4. (IF v \in Nat THEN v ELSE 0) = n * Monus(e, f)
  <2>1. CASE e <= f
    <3>1. e - f = 0 \/ e - f <= -1
      BY <1>1, <2>1
    <3>2. n * (e - f) = 0 \/ n * (e - f) <= n * (-1)
      BY <1>1, <3>1
    <3>3. Monus(e, f) = 0 /\ n * 0 = 0
      BY <2>1 DEF Monus
    <3> QED
      BY <1>1, <1>2, <3>2, <3>3
  <2>2. CASE ~(e <= f)
    <3>1. Monus(e, f) = e - f
      BY <2>2 DEF Monus
    <3>2. n * (e - f) \in Nat
      BY <1>3, <3>1
    <3> QED
      BY <1>2, <3>1, <3>2
  <2> QED
    BY <2>1, <2>2
<1>5. n * Monus(e, f) \in Nat /\ g * (n * Monus(e, f)) = n * (g * Monus(e, f))
  BY <1>3
<1> QED
  BY <1>0, <1>1, <1>3, <1>4, <1>5 DEF CellScales

\* What is left of the target at the second position.
NextExcess(m, d) ==
  IF m.oneHot THEN Without(m.p2[d[1]], d[2])
  ELSE ScaledExcess(AcceptWeight(m, d[1]), m.p2[d[1]], DraftWeight(m, m.q, d[1]), m.q2[d[1]])

\* The shares of the residual after an accepted first draft.
LEMMA SecondResidual ==
  ASSUME NEW m \in Laws!Models(LawWeight), NEW d \in LawTokens \X LawTokens,
         NEW w, w = Laws!WindowOf(m, "block", d),
         DraftWeight(m, m.q, d[1]) # 0, DraftWeight(m, m.q2[d[1]], d[2]) # 0,
         NEW y \in LawTokens
  PROVE  /\ \A x \in LawTokens : NextExcess(m, d)[x] \in Nat
         /\ LawSum(NextExcess(m, d)) \in Nat
         /\ Laws!Prob(Laws!Residual(w, 1), y)
              = Frac(NextExcess(m, d)[y], AtLeastOne(LawSum(NextExcess(m, d))))
<1> DEFINE n == LawWeight
           r == NextExcess(m, d)
           row == Laws!Residual(w, 1)
           P == m.p2[d[1]]
           Q == m.q2[d[1]]
           a == AcceptWeight(m, d[1])
           b == DraftWeight(m, m.q, d[1])
<1>1. /\ w.kind = "block" /\ w.oneHot = m.oneHot /\ w.k = 2 /\ w.drafts[1] = d[2]
      /\ w.target[1] = P /\ w.draft[1] = Q /\ d[1] \in LawTokens /\ d[2] \in LawTokens
  BY BlockWindow
<1>2. /\ \A x \in LawTokens : P[x] \in Nat /\ Q[x] \in Nat
      /\ LawSum(P) = n /\ LawSum(Q) = n
      /\ DOMAIN P = LawTokens /\ DOMAIN Q = LawTokens
      /\ n \in Nat \ {0} /\ m.oneHot \in BOOLEAN
  <2>1. P \in Laws!Dists(LawWeight) /\ Q \in Laws!Dists(LawWeight)
    BY <1>1, ModelRows
  <2> HIDE DEF P, Q
  <2> QED
    BY <2>1, ModelRows, DistIs
<1>3. ~Laws!HasNaN(P) /\ ~Laws!HasNaN(Q)
  BY <1>2 DEF Laws!HasNaN, Laws!NaN
<1>4. a \in Nat /\ b \in Nat \ {0} /\ Laws!JointRatio(w)[0] = Frac(a, b)
  BY JointRatioIs
<1>5. \A x \in LawTokens : r[x] \in Nat
  <2>1. CASE m.oneHot
    BY <1>2, <2>1 DEF NextExcess, Without
  <2>2. CASE ~m.oneHot
    <3> HIDE DEF P, Q, a, b
    <3>1. \A x \in LawTokens : ScaledExcess(a, P, b, Q)[x] \in Nat
      BY <1>2, <1>4, ScaledExcessIs
    <3> QED
      BY <2>2, <3>1 DEF NextExcess, P, Q, a, b
  <2> QED
    BY <1>2, <2>1, <2>2
<1>6. CASE m.oneHot
  <2>1. row = [x \in DOMAIN P |-> IF x = d[2] THEN 0 ELSE P[x]]
    <3>1. 1 # 2
      OBVIOUS
    <3>2. row = [x \in DOMAIN w.target[1] |->
                   IF x = w.drafts[1] THEN 0 ELSE w.target[1][x]]
      BY <1>1, <1>6, <3>1 DEF Laws!Residual
    <3> HIDE DEF row, P
    <3> QED
      BY <1>1, <3>2
  <2>2. DOMAIN row = LawTokens /\ \A x \in LawTokens : row[x] = 1 * r[x]
    BY <1>2, <1>6, <2>1 DEF Without, NextExcess
  <2> HIDE DEF r, row
  <2>3. /\ LawSum(r) \in Nat
        /\ Laws!Prob(row, y) = Frac(r[y], AtLeastOne(LawSum(r)))
    BY <1>5, <2>2, ProbOfScaled
  <2> QED
    BY <1>5, <2>3 DEF r, row
<1>7. CASE ~m.oneHot
  <2>1. Laws!Total(w, P) = n /\ Laws!Total(w, Q) = n /\ Laws!Tokens(w) = LawTokens
    BY <1>2, LawWindow
  <2>2. PICK i \in Nat, j \in Nat \ {0}, g \in Nat \ {0} :
          Frac(a, b) = <<i, j>> /\ a = g * i /\ b = g * j
    BY <1>4, LowestTerms
  <2>3. Laws!Tau(w, 1) = <<i, j>>
    <3>1. 1 > 0 /\ 1 - 1 = 0
      OBVIOUS
    <3> QED
      BY <1>1, <1>4, <2>2, <3>1 DEF Laws!Tau
  <2>4. \A x \in LawTokens : r[x] = Monus(a * P[x], b * Q[x])
    <3> HIDE DEF P, Q, a, b
    <3>1. \A x \in LawTokens : ScaledExcess(a, P, b, Q)[x] = Monus(a * P[x], b * Q[x])
      BY <1>2, <1>4, ScaledExcessIs
    <3> QED
      BY <1>7, <3>1 DEF NextExcess, P, Q, a, b
  <2> HIDE DEF P, Q, a, b, n
  <2>5. row = [x \in LawTokens |->
                 IF i * P[x] * n - j * Q[x] * n \in Nat
                 THEN i * P[x] * n - j * Q[x] * n ELSE 0]
    <3>1. <<i, j>>[1] = i /\ <<i, j>>[2] = j
      OBVIOUS
    <3> QED
      BY <1>1, <1>3, <1>7, <2>1, <2>3, <3>1 DEF Laws!Residual
  <2>6. DOMAIN row = LawTokens
    BY <2>5
  <2>7. ASSUME NEW x \in LawTokens
        PROVE  row[x] \in Nat /\ g * row[x] = n * r[x]
    <3> DEFINE p == P[x]
               q == Q[x]
    <3>1. row[x] = Cell(i, p, j, q, n)
      BY <2>5 DEF Cell
    <3>2. p \in Nat /\ q \in Nat /\ r[x] = Monus(a * p, b * q)
      BY <1>2, <2>4
    <3> HIDE DEF p, q, r, row
    <3>3. /\ Cell(i, p, j, q, n) \in Nat
          /\ g * Cell(i, p, j, q, n) = n * Monus((g * i) * p, (g * j) * q)
      <4>1. CellScales(i, p, j, q, n, g)
        BY <1>2, <2>2, <3>2, ScaledCell
      <4> QED
        BY <4>1 DEF CellScales
    <3> QED
      BY <2>2, <3>1, <3>2, <3>3
  <2> HIDE DEF r, row
  <2>8. /\ LawSum(r) \in Nat
        /\ Laws!Prob(row, y) = Frac(r[y], AtLeastOne(LawSum(r)))
    <3>1. Proportional(row, r, g, n)
      BY <2>7 DEF Proportional
    <3>2. (\A x \in LawTokens : r[x] \in Nat) /\ DOMAIN row = LawTokens /\ n \in Nat \ {0}
      BY <1>2, <1>5, <2>6
    <3> HIDE DEF n
    <3> QED
      BY <3>1, <3>2, ProbOfMultiple
  <2> QED
    BY <1>5, <2>8 DEF r, row
<1> QED
  BY <1>2, <1>6, <1>7

-------------------------------------------------------------------------------
(* The probability of a pair of tokens after a block, in numbers. *)

\* Both drafts are accepted, or the first of them, or none.
BlockSum(h1, h2, r1, r0, pz, x, y, d) ==
  FAdd(IF <<x, y>> = d THEN h2 ELSE <<0, 1>>,
       FAdd(IF x = d[1] THEN FMul(FMul(FMonus(One, h2), h1), r1) ELSE <<0, 1>>,
            FMul(FMul(FMonus(One, h2), FMonus(One, h1)), FMul(r0, pz))))

\* The second draft is refused and another drawn.
OneTermIs(c, B, H, S, r, D) ==
  FMul(FMul(FMonus(One, Frac(c, B)), Frac(H, S)), Frac(r, D))
    = Frac(((B - c) * H) * r, (B * S) * D)

\* The fractions multiply out.
LEMMA OneTerm ==
  ASSUME NEW c \in Nat, NEW B \in Nat \ {0}, c <= B, NEW H \in Nat, NEW S \in Nat \ {0},
         NEW r \in Nat, NEW D \in Nat \ {0}
  PROVE  OneTermIs(c, B, H, S, r, D)
<1> DEFINE s == B - c
           u == s * H
           v == B * S
<1>1. s \in Nat /\ FMonus(One, Frac(c, B)) = Frac(s, B)
  BY Complement
<1>2. u \in Nat /\ v \in Nat \ {0}
  BY <1>1
<1> HIDE DEF s
<1>3. FMul(Frac(s, B), Frac(H, S)) = Frac(u, v)
  BY <1>1, MulFracs
<1> HIDE DEF u, v
<1>4. FMul(Frac(u, v), Frac(r, D)) = Frac(u * r, v * D)
  BY <1>2, MulFracs
<1> QED
  BY <1>1, <1>3, <1>4 DEF OneTermIs, u, v, s

\* Both are refused.
NoneTermIs(c, B, H, S, r, D, z, n) ==
  FMul(FMul(FMonus(One, Frac(c, B)), FMonus(One, Frac(H, S))), FMul(Frac(r, D), Frac(z, n)))
    = Frac(((B - c) * (S - H)) * (r * z), (B * S) * (D * n))

\* The fractions multiply out.
LEMMA NoneTerm ==
  ASSUME NEW c \in Nat, NEW B \in Nat \ {0}, c <= B,
         NEW H \in Nat, NEW S \in Nat \ {0}, H <= S,
         NEW r \in Nat, NEW D \in Nat \ {0}, NEW z \in Nat, NEW n \in Nat \ {0}
  PROVE  NoneTermIs(c, B, H, S, r, D, z, n)
<1> DEFINE s == B - c
           t == S - H
           u == s * t
           v == B * S
           e == r * z
           f == D * n
<1>1. s \in Nat /\ FMonus(One, Frac(c, B)) = Frac(s, B)
  BY Complement
<1>2. t \in Nat /\ FMonus(One, Frac(H, S)) = Frac(t, S)
  BY Complement
<1>3. u \in Nat /\ v \in Nat \ {0} /\ e \in Nat /\ f \in Nat \ {0}
  BY <1>1, <1>2
<1>4. FMul(Frac(r, D), Frac(z, n)) = Frac(e, f)
  BY MulFracs
<1> HIDE DEF s, t
<1>5. FMul(Frac(s, B), Frac(t, S)) = Frac(u, v)
  BY <1>1, <1>2, MulFracs
<1> HIDE DEF u, v, e, f
<1>6. FMul(Frac(u, v), Frac(e, f)) = Frac(u * e, v * f)
  BY <1>3, MulFracs
<1> QED
  BY <1>1, <1>2, <1>4, <1>5, <1>6 DEF NoneTermIs, u, v, e, f, s, t

\* A sum of two fractions of which one has a multiple of the other's denominator.
AddsOver(a, b, c, k) == FAdd(Frac(a, b), Frac(c, b * k)) = Frac(a * k + c, b * k)

\* The first is brought over that multiple.
LEMMA AddOver ==
  ASSUME NEW a \in Nat, NEW b \in Nat \ {0}, NEW c \in Nat, NEW k \in Nat \ {0}
  PROVE  AddsOver(a, b, c, k)
<1> DEFINE e == b * k
           f == a * k + c
<1>1. e \in Nat \ {0} /\ f \in Nat /\ a * k \in Nat
  OBVIOUS
<1>2. a * e + c * b = b * f
  <2>1. a * e = b * (a * k)
    OBVIOUS
  <2> DEFINE g == a * k
  <2> HIDE DEF g
  <2>2. b * g + c * b = b * (g + c)
    BY <1>1 DEF g
  <2> QED
    BY <2>1, <2>2 DEF g
<1> HIDE DEF e, f
<1>3. FAdd(Frac(a, b), Frac(c, e)) = Frac(a * e + c * b, b * e)
  BY <1>1, AddFracs
<1>4. Frac(b * f, b * e) = Frac(f, e)
  BY <1>1, FracScales
<1>5. FAdd(Frac(a, b), Frac(c, e)) = Frac(f, e)
  BY <1>2, <1>3, <1>4
<1> QED
  BY <1>5 DEF AddsOver, e, f

\* A drafter with logits: the residuals' totals cancel.
DrafterSumIs(c, B, H, S, r, D, r0, D0, z, n, t, x, y, d) ==
  BlockSum(Frac(H, S), Frac(c, B), Frac(r, D), Frac(r0, D0), Frac(z, n), x, y, d)
    = Frac((S * D0) * (IF <<x, y>> = d THEN c ELSE 0)
             + (B - c) * ((IF x = d[1] THEN r * D0 ELSE 0) + t * (r0 * z)),
           B * (S * D0))

\* With logits the three cases add up over a common denominator.
LEMMA DrafterSum ==
  ASSUME NEW c \in Nat, NEW B \in Nat \ {0}, c <= B,
         NEW H \in Nat, NEW S \in Nat \ {0}, H <= S,
         NEW r \in Nat, NEW D \in Nat \ {0}, NEW r0 \in Nat, NEW D0 \in Nat \ {0},
         NEW z \in Nat, NEW n \in Nat \ {0}, NEW t \in Nat,
         S - H = t * n, H * r = r * D, NEW x, NEW y, NEW d
  PROVE  DrafterSumIs(c, B, H, S, r, D, r0, D0, z, n, t, x, y, d)
<1> DEFINE s == B - c
           M == B * S
           k == S * D0
           e == IF <<x, y>> = d THEN c ELSE 0
           o == IF x = d[1] THEN s * r ELSE 0
           q == t * (r0 * z)
           v == s * q
           f == o * D0 + v
<1>1. /\ s \in Nat /\ M \in Nat \ {0} /\ k \in Nat \ {0} /\ e \in Nat
      /\ r0 * z \in Nat
  OBVIOUS
<1>2. q \in Nat
  BY <1>1
<1>3. o \in Nat /\ v \in Nat /\ o * D0 \in Nat
  <2> HIDE DEF s, q
  <2>1. s * r \in Nat /\ s * q \in Nat
    BY <1>1, <1>2
  <2>2. o \in Nat
    BY <2>1
  <2> HIDE DEF o
  <2> QED
    BY <2>1, <2>2
<1>4. f \in Nat
  <2> HIDE DEF o, v
  <2> QED
    BY <1>3
<1>5. (IF x = d[1] THEN FMul(FMul(FMonus(One, Frac(c, B)), Frac(H, S)), Frac(r, D)) ELSE <<0, 1>>)
        = Frac(o, M)
  <2>1. Frac(((B - c) * H) * r, (B * S) * D) = Frac((B - c) * r, B * S)
    <3> HIDE DEF s, M
    <3>1. (s * H) * r \in Nat /\ M * D \in Nat \ {0} /\ s * r \in Nat
      BY <1>1
    <3>2. ((s * H) * r) * M = (s * r) * (M * D)
      <4>1. ((s * H) * r) * M = (s * (H * r)) * M
        BY <1>1
      <4>2. (s * (r * D)) * M = (s * r) * (M * D)
        BY <1>1
      <4> QED
        BY <4>1, <4>2
    <3> DEFINE i == (s * H) * r
               j == M * D
               l == s * r
    <3>3. i \in Nat /\ j \in Nat \ {0} /\ l \in Nat /\ i * M = l * j
      BY <3>1, <3>2
    <3> HIDE DEF i, j, l
    <3>4. Frac(i, j) = Frac(l, M)
      BY <1>1, <3>3, SameFrac
    <3> QED
      BY <3>4 DEF i, j, l, s, M
  <2>2. Frac(0, M) = <<0, 1>>
    BY <1>1, WholeFracs
  <2>0. OneTermIs(c, B, H, S, r, D)
    BY OneTerm
  <2>3. CASE x = d[1]
    BY <2>0, <2>1, <2>3 DEF OneTermIs
  <2>4. CASE x # d[1]
    BY <2>2, <2>4
  <2> QED
    BY <2>3, <2>4
<1>6. FMul(FMul(FMonus(One, Frac(c, B)), FMonus(One, Frac(H, S))), FMul(Frac(r0, D0), Frac(z, n)))
        = Frac(v, M * D0)
  <2> DEFINE g == r0 * z
             i == (s * (t * n)) * g
             j == M * (D0 * n)
             l == M * D0
  <2>1. FMul(FMul(FMonus(One, Frac(c, B)), FMonus(One, Frac(H, S))), FMul(Frac(r0, D0), Frac(z, n)))
          = Frac(i, j)
    <3>1. NoneTermIs(c, B, H, S, r0, D0, z, n)
      BY NoneTerm
    <3> QED
      BY <3>1 DEF NoneTermIs
  <2>2. g \in Nat /\ q = t * g
    OBVIOUS
  <2> HIDE DEF s, M, g, q
  <2>3. i \in Nat /\ j \in Nat \ {0} /\ l \in Nat \ {0}
    <3>1. t * n \in Nat /\ D0 * n \in Nat \ {0}
      OBVIOUS
    <3> DEFINE a == t * n
               b == D0 * n
    <3> HIDE DEF a, b
    <3>2. (s * a) * g \in Nat /\ M * b \in Nat \ {0}
      BY <1>1, <2>2, <3>1 DEF a, b
    <3> QED
      BY <1>1, <3>2 DEF a, b
  <2>4. i * l = v * j
    <3>1. i * l = (s * (t * g)) * (M * (D0 * n))
      BY <1>1, <2>2
    <3> QED
      BY <2>2, <3>1
  <2> HIDE DEF i, j, l, v
  <2>5. Frac(i, j) = Frac(v, l)
    BY <1>3, <2>3, <2>4, SameFrac
  <2> QED
    BY <2>1, <2>5 DEF l
<1>7. FAdd(Frac(o, M), Frac(v, M * D0)) = Frac(f, M * D0)
  <2> HIDE DEF o, M, v
  <2>1. AddsOver(o, M, v, D0)
    BY <1>1, <1>3, AddOver
  <2> QED
    BY <2>1 DEF AddsOver
<1>8. M * D0 = B * k
  OBVIOUS
<1>9. (IF <<x, y>> = d THEN Frac(c, B) ELSE <<0, 1>>) = Frac(e, B)
  BY WholeFracs
<1>10. FAdd(Frac(e, B), Frac(f, B * k)) = Frac(e * k + f, B * k)
  <2> HIDE DEF e, f, k
  <2>1. AddsOver(e, B, f, k)
    BY <1>1, <1>4, AddOver
  <2> QED
    BY <2>1 DEF AddsOver
<1>11. e * k + f = k * e + s * ((IF x = d[1] THEN r * D0 ELSE 0) + q)
  <2>1. e * k = k * e
    BY <1>1
  <2> DEFINE j == IF x = d[1] THEN r * D0 ELSE 0
  <2>2. j \in Nat
    OBVIOUS
  <2>3. o * D0 = s * j
    <3>1. CASE x = d[1]
      <4>1. (s * r) * D0 = s * (r * D0)
        BY <1>1
      <4> QED
        BY <3>1, <4>1
    <3>2. CASE x # d[1]
      <4>1. 0 * D0 = s * 0
        BY <1>1
      <4> QED
        BY <3>2, <4>1
    <3> QED
      BY <3>1, <3>2
  <2>4. s * j + v = s * (j + q)
    <3> HIDE DEF s, j, q
    <3> QED
      BY <1>1, <1>2, <2>2
  <2> HIDE DEF s, j, q, e, k, v, o
  <2>5. f = s * (j + q)
    BY <2>3, <2>4
  <2> QED
    BY <2>1, <2>5 DEF j
<1> HIDE DEF o, v, f, e, M
<1>12. BlockSum(Frac(H, S), Frac(c, B), Frac(r, D), Frac(r0, D0), Frac(z, n), x, y, d)
         = FAdd(Frac(e, B), FAdd(Frac(o, M), Frac(v, M * D0)))
  BY <1>5, <1>6, <1>9 DEF BlockSum
<1>13. BlockSum(Frac(H, S), Frac(c, B), Frac(r, D), Frac(r0, D0), Frac(z, n), x, y, d)
         = Frac(e * k + f, B * k)
  BY <1>7, <1>8, <1>10, <1>12
<1> QED
  BY <1>11, <1>13 DEF DrafterSumIs, e

\* A drafter without: the denominator is that of the thresholds.
OneHotCancels(c, B, H, S, r, D, r0, D0, n, a) ==
  /\ ((B - c) * H) * r = (a * r) * (S * D)
  /\ ((B - c) * (S - H)) * r0 = r0 * (S * (D0 * n))

\* Without logits the denominators cancel.
OneHotSumIs(c, B, H, S, r, D, r0, D0, z, n, a, x, y, d) ==
  BlockSum(Frac(H, S), Frac(c, B), Frac(r, D), Frac(r0, D0), Frac(z, n), x, y, d)
    = Frac((IF <<x, y>> = d THEN c ELSE 0) + ((IF x = d[1] THEN a * r ELSE 0) + r0 * z), B)

\* The three cases add up to the weight the target gives.
LEMMA OneHotSum ==
  ASSUME NEW c \in Nat, NEW B \in Nat \ {0}, c <= B,
         NEW H \in Nat, NEW S \in Nat \ {0}, H <= S,
         NEW r \in Nat, NEW D \in Nat \ {0}, NEW r0 \in Nat, NEW D0 \in Nat \ {0},
         NEW z \in Nat, NEW n \in Nat \ {0}, NEW a \in Nat,
         OneHotCancels(c, B, H, S, r, D, r0, D0, n, a),
         NEW x, NEW y, NEW d
  PROVE  OneHotSumIs(c, B, H, S, r, D, r0, D0, z, n, a, x, y, d)
<1> DEFINE s == B - c
           N == S - H
           e == IF <<x, y>> = d THEN c ELSE 0
           o == IF x = d[1] THEN a * r ELSE 0
           v == r0 * z
<1>1. s \in Nat /\ N \in Nat /\ e \in Nat /\ a * r \in Nat /\ v \in Nat /\ S * D \in Nat \ {0}
  OBVIOUS
<1>2. o \in Nat
  BY <1>1
<1>3. (IF x = d[1] THEN FMul(FMul(FMonus(One, Frac(c, B)), Frac(H, S)), Frac(r, D)) ELSE <<0, 1>>)
        = Frac(o, B)
  <2> DEFINE i == (s * H) * r
             j == (B * S) * D
             l == a * r
  <2>1. FMul(FMul(FMonus(One, Frac(c, B)), Frac(H, S)), Frac(r, D)) = Frac(i, j)
    <3>1. OneTermIs(c, B, H, S, r, D)
      BY OneTerm
    <3> QED
      BY <3>1 DEF OneTermIs
  <2>2. i = l * (S * D)
    BY DEF OneHotCancels
  <2>3. i \in Nat /\ j \in Nat \ {0} /\ l \in Nat
    <3> HIDE DEF s
    <3> QED
      BY <1>1
  <2>4. i * B = l * j
    <3>1. (l * (S * D)) * B = l * ((B * S) * D)
      <4> HIDE DEF l
      <4> QED
        BY <2>3
    <3> QED
      BY <2>2, <3>1
  <2>5. Frac(0, B) = <<0, 1>>
    BY WholeFracs
  <2> HIDE DEF i, j, l
  <2>6. Frac(i, j) = Frac(l, B)
    BY <2>3, <2>4, SameFrac
  <2> QED
    BY <2>1, <2>5, <2>6 DEF l
<1>4. FMul(FMul(FMonus(One, Frac(c, B)), FMonus(One, Frac(H, S))), FMul(Frac(r0, D0), Frac(z, n)))
        = Frac(v, B)
  <2> DEFINE i == (s * N) * v
             j == (B * S) * (D0 * n)
  <2>1. FMul(FMul(FMonus(One, Frac(c, B)), FMonus(One, Frac(H, S))), FMul(Frac(r0, D0), Frac(z, n)))
          = Frac(i, j)
    <3>1. NoneTermIs(c, B, H, S, r0, D0, z, n)
      BY NoneTerm
    <3> QED
      BY <3>1 DEF NoneTermIs
  <2>2. (s * N) * r0 = r0 * (S * (D0 * n))
    BY DEF OneHotCancels
  <2>3. i \in Nat /\ j \in Nat \ {0}
    <3> HIDE DEF s, N, v
    <3>1. D0 * n \in Nat \ {0} /\ B * S \in Nat \ {0} /\ s * N \in Nat
      BY <1>1
    <3> DEFINE f == D0 * n
               g == B * S
               h == s * N
    <3> HIDE DEF f, g, h
    <3>2. h * v \in Nat /\ g * f \in Nat \ {0}
      BY <1>1, <3>1 DEF f, g, h
    <3> QED
      BY <3>2 DEF f, g, h
  <2>4. i * B = v * j
    <3> HIDE DEF s, N
    <3>1. i * B = (((s * N) * r0) * z) * B
      BY <1>1
    <3>2. ((r0 * (S * (D0 * n))) * z) * B = v * j
      OBVIOUS
    <3> QED
      BY <2>2, <3>1, <3>2
  <2> HIDE DEF i, j, v
  <2>5. Frac(i, j) = Frac(v, B)
    BY <1>1, <2>3, <2>4, SameFrac
  <2> QED
    BY <2>1, <2>5
<1>5. (IF <<x, y>> = d THEN Frac(c, B) ELSE <<0, 1>>) = Frac(e, B)
  BY WholeFracs
<1> HIDE DEF e, o, v
<1>6. ASSUME NEW i \in Nat, NEW j \in Nat
      PROVE  FAdd(Frac(i, B), Frac(j, B)) = Frac(i + j, B)
  <2>1. AddsOver(i, B, j, 1)
    BY AddOver
  <2>2. B * 1 = B /\ i * 1 = i
    OBVIOUS
  <2> QED
    BY <2>1, <2>2 DEF AddsOver
<1>7. o + v \in Nat
  BY <1>1, <1>2
<1>8. FAdd(Frac(o, B), Frac(v, B)) = Frac(o + v, B)
  BY <1>1, <1>2, <1>6
<1>9. FAdd(Frac(e, B), Frac(o + v, B)) = Frac(e + (o + v), B)
  BY <1>1, <1>6, <1>7
<1>10. BlockSum(Frac(H, S), Frac(c, B), Frac(r, D), Frac(r0, D0), Frac(z, n), x, y, d)
         = FAdd(Frac(e, B), FAdd(Frac(o, B), Frac(v, B)))
  BY <1>3, <1>4, <1>5 DEF BlockSum
<1> QED
  BY <1>8, <1>9, <1>10 DEF OneHotSumIs, e, o, v

\* What the residual of the second position is a share of.
NextBase(m, d) ==
  ThresholdBase(AcceptWeight(m, d[1]), DraftWeight(m, m.q, d[1]), NextMass(m, d), LawWeight)

\* The numerator of the first draft's threshold.
NextShare(m, d) == IF NextBase(m, d) = 0 THEN 1 ELSE NextMass(m, d)

\* What the drafts weigh with the drafter.
PairWeight(m, d) == DraftWeight(m, m.q, d[1]) * DraftWeight(m, m.q2[d[1]], d[2])

\* What they weigh with the target, as far as that goes.
PairAccept(m, d) == Lesser(AcceptWeight(m, d[1]) * m.p2[d[1]][d[2]], PairWeight(m, d))

\* The outcome of a block is the sum of its three cases.
LEMMA BlockOutcomeIs ==
  ASSUME NEW m \in Laws!Models(LawWeight), NEW d \in LawTokens \X LawTokens,
         DraftWeight(m, m.q, d[1]) # 0, DraftWeight(m, m.q2[d[1]], d[2]) # 0,
         NEW x \in LawTokens, NEW y \in LawTokens
  PROVE  Laws!BlockOutcome(m, d, x, y) =
           BlockSum(Frac(NextShare(m, d), AtLeastOne(NextBase(m, d))),
                    Frac(PairAccept(m, d), PairWeight(m, d)),
                    Frac(NextExcess(m, d)[y], AtLeastOne(LawSum(NextExcess(m, d)))),
                    Frac(FirstExcess(m, d[1])[x], AtLeastOne(LawSum(FirstExcess(m, d[1])))),
                    Frac(m.p2[x][y], LawWeight),
                    x, y, d)
<1> DEFINE w == Laws!WindowOf(m, "block", d)
<1>1. /\ Laws!Threshold(w, 0) = Frac(NextShare(m, d), AtLeastOne(NextBase(m, d)))
      /\ Laws!Threshold(w, 1) = Frac(PairAccept(m, d), PairWeight(m, d))
  BY ThresholdsAre DEF NextShare, NextBase, ThresholdBase, PairAccept, PairWeight
<1>2. Laws!Prob(Laws!Residual(w, 1), y)
        = Frac(NextExcess(m, d)[y], AtLeastOne(LawSum(NextExcess(m, d))))
  BY SecondResidual
<1>3. Laws!Prob(Laws!Residual(w, 0), x)
        = Frac(FirstExcess(m, d[1])[x], AtLeastOne(LawSum(FirstExcess(m, d[1]))))
  <2>1. /\ w.oneHot = m.oneHot /\ w.k # 0 /\ w.drafts[0] = d[1]
        /\ w.target[0] = m.p /\ w.draft[0] = m.q /\ d[1] \in LawTokens
    <3>1. 2 # 0
      OBVIOUS
    <3> QED
      BY <3>1, BlockWindow
  <2> HIDE DEF w
  <2> QED
    BY <2>1, FirstResidual
<1>4. Laws!Prob(m.p2[x], y) = Frac(m.p2[x][y], LawWeight)
  <2>1. Laws!Mass(m.p2[x]) = LawWeight /\ LawWeight # 0
    BY ModelRows, DistIs
  <2> QED
    BY <2>1, LawFracs DEF Laws!Prob
<1> HIDE DEF w
<1> QED
  BY <1>1, <1>2, <1>3, <1>4, LawFracs DEF Laws!BlockOutcome, BlockSum, w

-------------------------------------------------------------------------------
(* Without logits the block samples from the target whatever is drafted. *)

\* Without logits every pair of drafts gets the target's joint probability.
LEMMA OneHotBlock ==
  ASSUME NEW m \in Laws!Models(LawWeight), m.oneHot, NEW d \in LawTokens \X LawTokens,
         NEW x \in LawTokens, NEW y \in LawTokens
  PROVE  Laws!BlockOutcome(m, d, x, y) = Frac(m.p[x] * m.p2[x][y], LawWeight * LawWeight)
<1> DEFINE n == LawWeight
           a == m.p[d[1]]
           P == m.p2[d[1]]
           e == P[d[2]]
           R == NextMass(m, d)
           base == NextBase(m, d)
           H == NextShare(m, d)
           S == AtLeastOne(base)
           r == NextExcess(m, d)[y]
           T == n - e
           D == AtLeastOne(T)
           r0 == FirstExcess(m, d[1])[x]
           D0 == AtLeastOne(n - a)
           z == m.p2[x][y]
           B == n * n
           c == a * e
           t == n - a
<1>0. d[1] \in LawTokens /\ d[2] \in LawTokens /\ d = <<d[1], d[2]>>
  OBVIOUS
<1>1. /\ n \in Nat \ {0}
      /\ \A i \in LawTokens : m.p[i] \in Nat /\ m.p[i] <= n
      /\ \A i \in LawTokens : P[i] \in Nat /\ P[i] <= n
      /\ \A i \in LawTokens, j \in LawTokens : m.p2[i][j] \in Nat
      /\ LawSum(m.p) = n /\ LawSum(P) = n
  <2>1. n \in Nat \ {0} /\ m.p \in Laws!Dists(n)
    BY ModelRows
  <2>2. \A i \in LawTokens : m.p2[i] \in Laws!Dists(n)
    BY ModelRows
  <2>3. \A i \in LawTokens : \A j \in LawTokens : m.p2[i][j] \in Nat /\ m.p2[i][j] <= n
    BY <2>2, DistIs
  <2>4. \A i \in LawTokens : LawSum(m.p2[i]) = n
    BY <2>2, DistIs
  <2>5. (\A i \in LawTokens : m.p[i] \in Nat /\ m.p[i] <= n) /\ LawSum(m.p) = n
    BY <2>1, DistIs
  <2> QED
    BY <1>0, <2>1, <2>3, <2>4, <2>5
<1>2. DraftWeight(m, m.q, d[1]) = n /\ DraftWeight(m, m.q2[d[1]], d[2]) = n
  BY DEF DraftWeight
<1>3. a \in Nat /\ a <= n /\ e \in Nat /\ e <= n /\ z \in Nat
  BY <1>0, <1>1
<1>4. AcceptWeight(m, d[1]) = a
  BY <1>2, <1>3 DEF AcceptWeight, Lesser
<1>5. R = a * (n - e) /\ base = R + (n - a) * n
  BY <1>2, <1>4 DEF NextMass, NextBase, ThresholdBase
<1>6. PairWeight(m, d) = B
  BY <1>2 DEF PairWeight
<1>7. /\ R \in Nat /\ base \in Nat /\ t \in Nat /\ T \in Nat
      /\ c \in Nat /\ B \in Nat \ {0} /\ c <= B /\ B - c = base /\ Lesser(c, B) = c
  <2> DEFINE i == a * n
             j == (n - a) * n
  <2> HIDE DEF n, a, e, R, base
  <2>1. t \in Nat /\ T \in Nat
    BY <1>1, <1>3
  <2>2. /\ R \in Nat /\ base \in Nat /\ j \in Nat /\ c \in Nat /\ B \in Nat \ {0}
        /\ i \in Nat
    BY <1>1, <1>3, <1>5, <2>1
  <2>3. a * (n - e) = i - c /\ j = B - i
    BY <1>1, <1>3
  <2> HIDE DEF i, j, B, c
  <2>4. B - c = base
    BY <1>5, <2>2, <2>3 DEF j
  <2> QED
    BY <2>1, <2>2, <2>4 DEF Lesser
<1>8. PairAccept(m, d) = c
  BY <1>4, <1>6, <1>7 DEF PairAccept
<1>9. /\ NextExcess(m, d) = Without(P, d[2]) /\ LawSum(NextExcess(m, d)) = T
      /\ r \in Nat /\ (T = 0 => r = 0)
      /\ r = IF y = d[2] THEN 0 ELSE P[y]
  <2> DEFINE row == Without(P, d[2])
  <2>1. NextExcess(m, d) = row
    BY DEF NextExcess
  <2>2. LawSum(P) = LawSum(row) + P[d[2]] /\ LawSum(row) \in Nat
    <3> HIDE DEF P
    <3> QED
      BY <1>0, <1>1, SumWithout
  <2>3. \A i \in LawTokens : row[i] = (IF i = d[2] THEN 0 ELSE P[i]) /\ row[i] \in Nat
    BY <1>1 DEF Without
  <2> HIDE DEF row
  <2>4. LawSum(row) = T
    BY <1>1, <1>3, <2>2
  <2>5. LawSum(row) = 0 => row[y] = 0
    BY <2>3, NoSum
  <2>6. r = row[y]
    BY <2>1
  <2> QED
    BY <2>1, <2>3, <2>4, <2>5, <2>6 DEF row
<1>10. /\ LawSum(FirstExcess(m, d[1])) = t /\ r0 \in Nat /\ (t = 0 => r0 = 0)
       /\ r0 = IF x = d[1] THEN 0 ELSE m.p[x]
  <2> DEFINE row == Without(m.p, d[1])
  <2>1. FirstExcess(m, d[1]) = row
    BY DEF FirstExcess
  <2>2. LawSum(m.p) = LawSum(row) + m.p[d[1]] /\ LawSum(row) \in Nat
    BY <1>0, <1>1, SumWithout
  <2>3. \A i \in LawTokens : row[i] = (IF i = d[1] THEN 0 ELSE m.p[i]) /\ row[i] \in Nat
    BY <1>1 DEF Without
  <2> HIDE DEF row
  <2>4. LawSum(row) = t
    BY <1>1, <1>3, <2>2
  <2>5. LawSum(row) = 0 => row[x] = 0
    BY <2>3, NoSum
  <2>6. r0 = row[x]
    BY <2>1
  <2> QED
    BY <2>1, <2>3, <2>4, <2>5, <2>6
<1>11. Laws!BlockOutcome(m, d, x, y) =
         BlockSum(Frac(H, S), Frac(c, B), Frac(r, D), Frac(r0, D0), Frac(z, n),
                  x, y, d)
  BY <1>1, <1>2, <1>6, <1>8, <1>9, <1>10, BlockOutcomeIs
<1>12. H = (IF base = 0 THEN 1 ELSE R) /\ S = (IF base = 0 THEN 1 ELSE base)
  BY DEF NextShare, AtLeastOne
<1>13. D = (IF T = 0 THEN 1 ELSE T) /\ D0 = (IF t = 0 THEN 1 ELSE t)
  BY DEF AtLeastOne
<1> DEFINE px == m.p[x]
<1>14. px \in Nat
  BY <1>1
<1>15. /\ (<<x, y>> = d /\ x = d[1] => r = 0 /\ r0 = 0 /\ a = px /\ e = z)
       /\ (<<x, y>> # d /\ x = d[1] => r = z /\ r0 = 0 /\ a = px)
       /\ (x # d[1] => <<x, y>> # d /\ r0 = px)
  BY <1>0, <1>9, <1>10
<1> HIDE DEF n, a, P, e, R, base, H, S, r, D, r0, D0, z, px
<1>16. R = a * T /\ base = R + t * n /\ B - c = base
  BY <1>5, <1>7
<1>17. (base = 0 => R = 0 /\ t = 0) /\ (R = 0 => a = 0 \/ T = 0)
  <2>1. t * n \in Nat
    BY <1>1, <1>7
  <2>2. base = 0 => R = 0 /\ t * n = 0
    BY <1>7, <1>16, <2>1
  <2>3. t * n = 0 => t = 0
    BY <1>1, <1>7
  <2>4. R = 0 => a = 0 \/ T = 0
    BY <1>3, <1>7, <1>16
  <2> QED
    BY <2>2, <2>3, <2>4
<1> HIDE DEF T, t, B, c
<1>18. /\ H \in Nat /\ S \in Nat \ {0} /\ H <= S /\ D \in Nat \ {0} /\ D0 \in Nat \ {0}
       /\ T * r = r * D /\ t * r0 = r0 * D0
  <2>1. t * n \in Nat
    BY <1>1, <1>7
  <2> QED
    BY <1>7, <1>9, <1>10, <1>12, <1>13, <1>16, <2>1
<1>19. ((B - c) * H) * r = (a * r) * (S * D)
  <2>1. CASE base = 0
    <3>1. a * r = 0
      BY <1>3, <1>9, <1>17, <2>1
    <3>2. (0 * H) * r = 0 /\ 0 * (S * D) = 0
      BY <1>9, <1>18
    <3> QED
      BY <1>16, <2>1, <3>1, <3>2
  <2>2. CASE base # 0
    <3>1. H = a * T /\ S = base
      BY <1>12, <1>16, <2>2
    <3>2. (base * (a * T)) * r = base * (a * (T * r))
      BY <1>3, <1>7, <1>9
    <3>3. base * (a * (r * D)) = (a * r) * (base * D)
      BY <1>3, <1>7, <1>9, <1>18
    <3> QED
      BY <1>16, <1>18, <3>1, <3>2, <3>3
  <2> QED
    BY <2>1, <2>2
<1>20. ((B - c) * (S - H)) * r0 = r0 * (S * (D0 * n))
  <2>1. CASE base = 0
    <3>1. r0 = 0
      BY <1>10, <1>17, <2>1
    <3>2. S * (D0 * n) \in Nat /\ (B - c) * (S - H) \in Int
      <4>1. S - H \in Int /\ D0 * n \in Nat
        BY <1>1, <1>18
      <4> QED
        BY <1>7, <1>18, <4>1
    <3> QED
      BY <3>1, <3>2
  <2>2. CASE base # 0
    <3>1. S - H = t * n /\ S = base
      BY <1>1, <1>7, <1>12, <1>16, <2>2
    <3>2. (base * (t * n)) * r0 = base * ((t * r0) * n)
      BY <1>1, <1>7, <1>10
    <3>3. base * ((r0 * D0) * n) = r0 * (base * (D0 * n))
      BY <1>1, <1>7, <1>10, <1>18
    <3> QED
      BY <1>16, <1>18, <3>1, <3>2, <3>3
  <2> QED
    BY <2>1, <2>2
<1>22. BlockSum(Frac(H, S), Frac(c, B), Frac(r, D), Frac(r0, D0), Frac(z, n), x, y, d)
         = Frac((IF <<x, y>> = d THEN c ELSE 0) + ((IF x = d[1] THEN a * r ELSE 0) + r0 * z), B)
  <2>1. OneHotCancels(c, B, H, S, r, D, r0, D0, n, a)
    BY <1>19, <1>20 DEF OneHotCancels
  <2>2. /\ c \in Nat /\ B \in Nat \ {0} /\ c <= B /\ H \in Nat /\ S \in Nat \ {0} /\ H <= S
        /\ r \in Nat /\ D \in Nat \ {0} /\ r0 \in Nat /\ D0 \in Nat \ {0}
        /\ z \in Nat /\ n \in Nat \ {0} /\ a \in Nat
    BY <1>1, <1>3, <1>7, <1>9, <1>10, <1>18
  <2>3. OneHotSumIs(c, B, H, S, r, D, r0, D0, z, n, a, x, y, d)
    BY <2>1, <2>2, OneHotSum
  <2> QED
    BY <2>3 DEF OneHotSumIs
<1>23. (IF <<x, y>> = d THEN c ELSE 0) + ((IF x = d[1] THEN a * r ELSE 0) + r0 * z) = px * z
  <2>1. px * z \in Nat /\ a * e \in Nat
    BY <1>3, <1>14
  <2>2. CASE <<x, y>> = d
    <3>1. x = d[1] /\ r = 0 /\ r0 = 0 /\ c = px * z
      BY <1>0, <1>15, <2>2 DEF c
    <3>2. a * 0 = 0 /\ 0 * z = 0
      BY <1>3
    <3> QED
      BY <2>1, <2>2, <3>1, <3>2
  <2>3. CASE <<x, y>> # d /\ x = d[1]
    <3>1. a * r = px * z /\ r0 = 0
      BY <1>15, <2>3
    <3>2. 0 * z = 0
      BY <1>3
    <3> QED
      BY <2>1, <2>3, <3>1, <3>2
  <2>4. CASE x # d[1]
    <3>1. <<x, y>> # d /\ r0 = px
      BY <1>15, <2>4
    <3> QED
      BY <2>1, <2>4, <3>1
  <2> QED
    BY <2>2, <2>3, <2>4
<1>24. Laws!BlockOutcome(m, d, x, y) = Frac(px * z, B)
  BY <1>11, <1>22, <1>23
<1> QED
  BY <1>24 DEF px, z, B, n

-------------------------------------------------------------------------------
(* With logits, a pair of drafts and its weight. *)

\* What is left of the target after the draft i.
RestOf(m, i) == ScaledExcess(Lesser(m.p[i], m.q[i]), m.p2[i], m.q[i], m.q2[i])
\* The weight of the draft i that is refused.
Refused(m, i) == m.q[i] - Lesser(m.p[i], m.q[i])
\* What the threshold of the first draft divides by.
BaseOf(m, i) == AtLeastOne(LawSum(RestOf(m, i)) + Refused(m, i) * LawWeight)

\* What the second draft j keeps of its weight after the first draft i.
PairKept(m, i, j) == Lesser(Lesser(m.p[i], m.q[i]) * m.p2[i][j], m.q[i] * m.q2[i][j])
\* And what of it is refused.
PairRefused(m, i, j) == Monus(m.q[i] * m.q2[i][j], Lesser(m.p[i], m.q[i]) * m.p2[i][j])

\* What a refused pair contributes to <<x, y>>.
PairRest(m, x, y, D, i) ==
  (IF x = i THEN RestOf(m, i)[y] * D ELSE 0)
    + Refused(m, i) * (Excess(m.p, m.q)[x] * m.p2[x][y])

\* What a pair contributes to <<x, y>>.
PairTerm(m, x, y, D, i, j) ==
  (BaseOf(m, i) * D) * (IF x = i /\ y = j THEN PairKept(m, i, j) ELSE 0)
    + PairRefused(m, i, j) * PairRest(m, x, y, D, i)

\* The numbers of a model are natural.
LEMMA PairNumbers ==
  ASSUME NEW m \in Laws!Models(LawWeight), NEW i \in LawTokens, NEW x \in LawTokens,
         NEW y \in LawTokens, NEW D \in Nat \ {0}
  PROVE  /\ m.p[i] \in Nat /\ m.q[i] \in Nat
         /\ \A j \in LawTokens : m.p2[i][j] \in Nat /\ m.q2[i][j] \in Nat
         /\ Lesser(m.p[i], m.q[i]) \in Nat /\ Lesser(m.p[i], m.q[i]) <= m.q[i]
         /\ Refused(m, i) \in Nat /\ Refused(m, i) = Monus(m.q[i], m.p[i])
         /\ RestOf(m, i)[y] \in Nat /\ LawSum(RestOf(m, i)) \in Nat
         /\ (LawSum(RestOf(m, i)) = 0 => RestOf(m, i)[y] = 0)
         /\ RestOf(m, i)[y] = Monus(Lesser(m.p[i], m.q[i]) * m.p2[i][y], m.q[i] * m.q2[i][y])
         /\ BaseOf(m, i) \in Nat \ {0}
         /\ Excess(m.p, m.q)[x] \in Nat /\ m.p2[x][y] \in Nat
         /\ PairRest(m, x, y, D, i) \in Nat
         /\ \A j \in LawTokens : /\ PairKept(m, i, j) \in Nat /\ PairRefused(m, i, j) \in Nat
                                 /\ PairTerm(m, x, y, D, i, j) \in Nat
<1> DEFINE a == Lesser(m.p[i], m.q[i])
           b == m.q[i]
           P == m.p2[i]
           Q == m.q2[i]
           n == LawWeight
           rest == RestOf(m, i)
           t == Refused(m, i)
           S == BaseOf(m, i)
           z == m.p2[x][y]
           r0 == Excess(m.p, m.q)[x]
           w == PairRest(m, x, y, D, i)
<1>1. /\ n \in Nat \ {0} /\ m.p[i] \in Nat /\ b \in Nat
      /\ \A j \in LawTokens : P[j] \in Nat /\ Q[j] \in Nat
      /\ m.p[x] \in Nat /\ m.q[x] \in Nat /\ z \in Nat
  <2>1. /\ n \in Nat \ {0} /\ m.p \in Laws!Dists(n) /\ m.q \in Laws!Dists(n)
        /\ P \in Laws!Dists(n) /\ Q \in Laws!Dists(n) /\ m.p2[x] \in Laws!Dists(n)
    BY ModelRows
  <2> QED
    BY <2>1, DistIs
<1>2. a \in Nat /\ a <= b
  BY <1>1 DEF Lesser
<1>3. t \in Nat /\ t = Monus(b, m.p[i])
  BY <1>1 DEF Refused, Lesser, Monus
<1> HIDE DEF a, b, P, Q, n, t, z
<1>4. rest = ScaledExcess(a, P, b, Q)
  BY DEF RestOf, a, b, P, Q
<1>5. /\ \A j \in LawTokens : rest[j] \in Nat /\ rest[j] = Monus(a * P[j], b * Q[j])
      /\ LawSum(rest) \in Nat
  BY <1>1, <1>2, <1>4, ScaledExcessIs
<1>6. LawSum(rest) = 0 => rest[y] = 0
  BY <1>5, NoSum
<1> HIDE DEF rest
<1>7. S \in Nat \ {0}
  <2>1. S = AtLeastOne(LawSum(rest) + t * n)
    BY DEF BaseOf, rest, t, n
  <2>2. t * n \in Nat
    BY <1>1, <1>3
  <2> DEFINE u == t * n
  <2> HIDE DEF u, S
  <2> QED
    BY <1>5, <2>1, <2>2 DEF AtLeastOne, u
<1>8. r0 \in Nat
  BY <1>1 DEF Excess, Monus
<1> HIDE DEF S, r0
<1>9. w \in Nat
  <2>1. w = (IF x = i THEN rest[y] * D ELSE 0) + t * (r0 * z)
    BY DEF PairRest, rest, t, r0, z
  <2>2. rest[y] * D \in Nat /\ r0 * z \in Nat
    BY <1>1, <1>5, <1>8
  <2>3. t * (r0 * z) \in Nat
    BY <1>3, <2>2
  <2> HIDE DEF w
  <2> QED
    BY <2>1, <2>2, <2>3
<1> HIDE DEF w
<1>10. ASSUME NEW j \in LawTokens
       PROVE  /\ PairKept(m, i, j) \in Nat /\ PairRefused(m, i, j) \in Nat
              /\ PairTerm(m, x, y, D, i, j) \in Nat
  <2> DEFINE u == a * P[j]
             v == b * Q[j]
             k == PairKept(m, i, j)
             f == PairRefused(m, i, j)
             e == IF x = i /\ y = j THEN k ELSE 0
  <2>1. u \in Nat /\ v \in Nat
    BY <1>1, <1>2
  <2>2. k = Lesser(u, v) /\ f = Monus(v, u)
    BY DEF PairKept, PairRefused, a, b, P, Q
  <2> HIDE DEF u, v, k, f
  <2>3. k \in Nat /\ f \in Nat
    BY <2>1, <2>2 DEF Lesser, Monus
  <2>4. PairTerm(m, x, y, D, i, j) = (S * D) * e + f * w
    BY DEF PairTerm, S, w, k, f
  <2>5. e \in Nat /\ S * D \in Nat
    BY <1>7, <2>3
  <2> DEFINE g == S * D
  <2> HIDE DEF e, g
  <2>6. g * e \in Nat /\ f * w \in Nat
    BY <1>9, <2>3, <2>5 DEF g
  <2>7. (S * D) * e + f * w \in Nat
    BY <2>6 DEF g
  <2> QED
    BY <2>3, <2>4, <2>7 DEF k, f
<1> QED
  BY <1>1, <1>2, <1>3, <1>5, <1>6, <1>7, <1>8, <1>9, <1>10 DEF a, b, P, Q, t, z, rest, S, r0, w

\* A weight that cancels with a denominator, then a common one.
WeighedIs(b, c, n, T, S, D, k, L) ==
  FMul(FMul(Frac(b, n), Frac(c, n)), Frac(T, (b * c) * (S * D))) = Frac(k * T, (n * n) * (L * D))

\* The weight cancels, and the common denominator follows.
LEMMA Weighed ==
  ASSUME NEW b \in Nat \ {0}, NEW c \in Nat \ {0}, NEW n \in Nat \ {0}, NEW T \in Nat,
         NEW S \in Nat \ {0}, NEW D \in Nat \ {0}, NEW k \in Nat, NEW L \in Nat \ {0},
         S * k = L
  PROVE  WeighedIs(b, c, n, T, S, D, k, L)
<1> DEFINE B == b * c
           N == n * n
           K == S * D
           i == B * T
           j == N * (B * K)
           u == k * T
           v == N * (L * D)
<1>1. B \in Nat \ {0} /\ N \in Nat \ {0} /\ K \in Nat \ {0} /\ L * D \in Nat \ {0}
  OBVIOUS
<1>2. FMul(Frac(b, n), Frac(c, n)) = Frac(B, N)
  BY MulFracs
<1>3. L * D = K * k
  <2>1. (S * k) * D = (S * D) * k
    OBVIOUS
  <2> QED
    BY <2>1
<1> HIDE DEF B, N, K
<1>4. B * K \in Nat \ {0} /\ u \in Nat /\ v \in Nat \ {0}
  BY <1>1
<1>5. FMul(Frac(B, N), Frac(T, B * K)) = Frac(i, j)
  <2> DEFINE w == B * K
  <2> HIDE DEF w
  <2>1. FMul(Frac(B, N), Frac(T, w)) = Frac(B * T, N * w)
    <3>1. MulIs(B, N, T, w)
      BY <1>1, <1>4, MulHolds DEF w
    <3> QED
      BY <3>1 DEF MulIs
  <2> QED
    BY <2>1 DEF w
<1>6. i \in Nat /\ j \in Nat \ {0}
  BY <1>1, <1>4
<1>7. i * v = u * j
  <2>1. i * v = (B * T) * (N * (K * k))
    BY <1>3
  <2>2. (B * T) * (N * (K * k)) = (k * T) * (N * (B * K))
    BY <1>1
  <2> QED
    BY <2>1, <2>2
<1> HIDE DEF i, j, u, v
<1>8. Frac(i, j) = Frac(u, v)
  BY <1>4, <1>6, <1>7, SameFrac
<1> QED
  BY <1>2, <1>5, <1>8 DEF WeighedIs, B, K, N, u, v

\* A pair of drafts, weighed.
LEMMA DraftedBlock ==
  ASSUME NEW m \in Laws!Models(LawWeight), ~m.oneHot, NEW i \in LawTokens, NEW j \in LawTokens,
         m.q[i] > 0, m.q2[i][j] > 0, NEW x \in LawTokens, NEW y \in LawTokens,
         NEW D, D = AtLeastOne(LawSum(Excess(m.p, m.q))),
         NEW k \in Nat, NEW L \in Nat \ {0}, BaseOf(m, i) * k = L
  PROVE  FMul(FMul(Laws!Prob(m.q, i), Laws!Prob(m.q2[i], j)),
              Laws!BlockOutcome(m, <<i, j>>, x, y))
           = Frac(k * PairTerm(m, x, y, D, i, j), (LawWeight * LawWeight) * (L * D))
<1> DEFINE n == LawWeight
           d == <<i, j>>
           b == m.q[i]
           c == m.q2[i][j]
           B == b * c
           a == Lesser(m.p[i], b)
           u == a * m.p2[i][j]
           C == PairKept(m, i, j)
           R == LawSum(RestOf(m, i))
           t == Refused(m, i)
           base == R + t * n
           H == IF base = 0 THEN 1 ELSE R
           S == BaseOf(m, i)
           r == RestOf(m, i)[y]
           D1 == AtLeastOne(R)
           r0 == Excess(m.p, m.q)[x]
           z == m.p2[x][y]
           T == PairTerm(m, x, y, D, i, j)
<1>0. d \in LawTokens \X LawTokens /\ d[1] = i /\ d[2] = j
  OBVIOUS
<1>1. /\ LawSum(Excess(m.p, m.q)) \in Nat /\ D \in Nat \ {0}
  <2>1. \A o \in LawTokens : Excess(m.p, m.q)[o] \in Nat
    <3>1. 1 \in Nat \ {0}
      OBVIOUS
    <3> QED
      BY <3>1, PairNumbers
  <2>2. LawSum(Excess(m.p, m.q)) \in Nat
    BY <2>1, NoSum
  <2> QED
    BY <2>2 DEF AtLeastOne
<1>2. /\ b \in Nat /\ c \in Nat /\ a \in Nat /\ a <= b /\ t \in Nat /\ r \in Nat /\ R \in Nat
      /\ (R = 0 => r = 0) /\ S \in Nat \ {0} /\ r0 \in Nat /\ z \in Nat /\ T \in Nat
      /\ m.p2[i][j] \in Nat /\ t = b - a /\ C \in Nat
  BY <1>1, PairNumbers DEF Refused
<1>3. b \in Nat \ {0} /\ c \in Nat \ {0} /\ n \in Nat \ {0}
  BY <1>2, ModelRows
<1>4. /\ DraftWeight(m, m.q, d[1]) = b /\ DraftWeight(m, m.q2[d[1]], d[2]) = c
      /\ AcceptWeight(m, d[1]) = a /\ PairWeight(m, d) = B /\ PairAccept(m, d) = C
  BY <1>0 DEF DraftWeight, AcceptWeight, PairWeight, PairAccept, PairKept
<1>5. NextExcess(m, d) = RestOf(m, i) /\ NextMass(m, d) = R /\ FirstExcess(m, d[1]) = Excess(m.p, m.q)
  BY <1>0, <1>4 DEF NextExcess, NextMass, FirstExcess, RestOf
<1>6. NextBase(m, d) = base /\ NextShare(m, d) = H
  BY <1>4, <1>5 DEF NextBase, NextShare, ThresholdBase, Refused
<1>7. Laws!BlockOutcome(m, d, x, y)
        = BlockSum(Frac(H, AtLeastOne(base)), Frac(C, B), Frac(r, D1), Frac(r0, D), Frac(z, n),
                   x, y, d)
  BY <1>0, <1>3, <1>4, <1>5, <1>6, BlockOutcomeIs
<1>8. S = AtLeastOne(base)
  BY DEF BaseOf
<1>9. u \in Nat /\ B \in Nat \ {0} /\ C = Lesser(u, B) /\ PairRefused(m, i, j) = Monus(B, u)
  <2>1. u \in Nat /\ B \in Nat \ {0}
    BY <1>2, <1>3
  <2> QED
    BY <2>1 DEF PairKept, PairRefused
<1>10. T = (S * D) * (IF <<x, y>> = d THEN C ELSE 0)
             + PairRefused(m, i, j) * ((IF x = d[1] THEN r * D ELSE 0) + t * (r0 * z))
  BY <1>0 DEF PairTerm, PairRest
<1>11. Laws!Prob(m.q, i) = Frac(b, n) /\ Laws!Prob(m.q2[i], j) = Frac(c, n)
  <2>1. n # 0 /\ m.q \in Laws!Dists(n) /\ m.q2[i] \in Laws!Dists(n)
    BY ModelRows
  <2>2. Laws!Mass(m.q) = n /\ Laws!Mass(m.q2[i]) = n
    BY <2>1, DistIs
  <2> QED
    BY <2>1, <2>2, LawFracs DEF Laws!Prob
<1> HIDE DEF n, d, b, c, B, a, u, C, R, t, S, r, D1, r0, z, T, H
<1>12. C <= B /\ B - C = PairRefused(m, i, j)
  BY <1>9 DEF Lesser, Monus
<1>13. base \in Nat /\ t * n \in Nat /\ (base = 0 => R = 0 /\ t * n = 0)
  <2>1. t * n \in Nat
    BY <1>2, <1>3
  <2> QED
    BY <1>2, <2>1
<1>14. H = (IF base = 0 THEN 1 ELSE R) /\ D1 = (IF R = 0 THEN 1 ELSE R)
       /\ S = (IF base = 0 THEN 1 ELSE base) /\ base = R + t * n
  BY <1>8 DEF H, D1, AtLeastOne
<1> HIDE DEF base
<1>15. /\ H \in Nat /\ H <= S /\ D1 \in Nat \ {0} /\ S - H = t * n /\ H * r = r * D1
  <2>1. CASE base = 0
    <3>1. H = 1 /\ S = 1 /\ t * n = 0 /\ r = 0 /\ D1 = 1
      BY <1>2, <1>13, <1>14, <2>1
    <3> QED
      BY <1>2, <3>1
  <2>2. CASE base # 0
    <3>1. H = R /\ S = R + t * n
      BY <1>14, <2>2
    <3>2. R * r = r * D1
      BY <1>2, <1>14
    <3> QED
      BY <1>2, <1>13, <1>14, <3>1, <3>2
  <2> QED
    BY <2>1, <2>2
<1>16. DrafterSumIs(C, B, H, S, r, D1, r0, D, z, n, t, x, y, d)
  BY <1>1, <1>2, <1>3, <1>9, <1>12, <1>15, DrafterSum
<1>17. Laws!BlockOutcome(m, d, x, y) = Frac(T, B * (S * D))
  BY <1>7, <1>8, <1>10, <1>12, <1>16 DEF DrafterSumIs
<1>18. WeighedIs(b, c, n, T, S, D, k, L)
  <2>1. S * k = L
    BY DEF S
  <2> QED
    BY <1>1, <1>2, <1>3, <2>1, Weighed
<1>19. FMul(FMul(Frac(b, n), Frac(c, n)), Frac(T, B * (S * D))) = Frac(k * T, (n * n) * (L * D))
  BY <1>18 DEF WeighedIs, B
<1> QED
  BY <1>11, <1>17, <1>19 DEF d, T, n

-------------------------------------------------------------------------------
(* All pairs of drafts. *)

\* What two rows have over each other closes the gap between their totals.
LEMMA BalanceOf ==
  ASSUME NEW p, NEW q, \A x \in LawTokens : p[x] \in Nat /\ q[x] \in Nat
  PROVE  LawSum(p) + LawSum(Excess(q, p)) = LawSum(q) + LawSum(Excess(p, q))
<1> DEFINE r == Excess(p, q)
           s == Excess(q, p)
           h == [x \in LawTokens |-> p[x] + s[x]]
<1>1. \A x \in LawTokens : /\ r[x] \in Nat /\ s[x] \in Nat
                           /\ h[x] = p[x] + s[x] /\ h[x] = q[x] + r[x]
  BY DEF Excess, Monus
<1> HIDE DEF r, s, h
<1>2. LawSum(h) = LawSum(p) + LawSum(s)
  BY <1>1, SumOfTwo
<1>3. LawSum(h) = LawSum(q) + LawSum(r)
  BY <1>1, SumOfTwo
<1> QED
  BY <1>2, <1>3 DEF r, s

\* What the second drafts are refused adds up to what the threshold divides by.
LEMMA RefusedSum ==
  ASSUME NEW m \in Laws!Models(LawWeight), NEW i \in LawTokens,
         NEW s, \A j \in LawTokens : s[j] = PairRefused(m, i, j)
  PROVE  /\ \A j \in LawTokens : s[j] \in Nat
         /\ LawSum(s) = LawSum(RestOf(m, i)) + Refused(m, i) * LawWeight
<1> DEFINE n == LawWeight
           a == Lesser(m.p[i], m.q[i])
           b == m.q[i]
           P == Times(a, m.p2[i])
           Q == Times(b, m.q2[i])
           e == Excess(Q, P)
           R == LawSum(RestOf(m, i))
<1>1. /\ n \in Nat \ {0} /\ m.p \in Laws!Dists(n) /\ m.q \in Laws!Dists(n)
      /\ m.p2[i] \in Laws!Dists(n) /\ m.q2[i] \in Laws!Dists(n)
  BY ModelRows
<1>2. /\ b \in Nat /\ m.p[i] \in Nat
      /\ \A j \in LawTokens : m.p2[i][j] \in Nat /\ m.q2[i][j] \in Nat
      /\ LawSum(m.p2[i]) = n /\ LawSum(m.q2[i]) = n
  BY <1>1, DistIs
<1>3. a \in Nat /\ a <= b
  BY <1>2 DEF Lesser
<1>4. \A j \in LawTokens : /\ P[j] \in Nat /\ Q[j] \in Nat
                           /\ e[j] = Monus(Q[j], P[j]) /\ e[j] = PairRefused(m, i, j)
  <2>1. ASSUME NEW j \in LawTokens
        PROVE  P[j] = a * m.p2[i][j] /\ Q[j] = b * m.q2[i][j] /\ P[j] \in Nat /\ Q[j] \in Nat
    BY <1>2, <1>3 DEF Times
  <2>2. \A j \in LawTokens : e[j] = Monus(Q[j], P[j])
    BY DEF Excess
  <2>3. \A j \in LawTokens : PairRefused(m, i, j) = Monus(Q[j], P[j])
    <3>1. \A j \in LawTokens : PairRefused(m, i, j) = Monus(b * m.q2[i][j], a * m.p2[i][j])
      BY DEF PairRefused
    <3> QED
      BY <2>1, <3>1
  <2> QED
    BY <2>1, <2>2, <2>3
<1>5. LawSum(P) = a * n /\ LawSum(Q) = b * n
  <2>1. LawSum(P) = a * LawSum(m.p2[i])
    BY <1>2, <1>3, SumTimes
  <2>2. LawSum(Q) = b * LawSum(m.q2[i])
    BY <1>2, SumTimes
  <2> QED
    BY <1>2, <2>1, <2>2
<1>6. R = LawSum(Excess(P, Q))
  BY DEF RestOf, ScaledExcess
<1> HIDE DEF P, Q, e
<1>7. LawSum(P) + LawSum(e) = LawSum(Q) + R
  BY <1>4, <1>6, BalanceOf DEF e
<1>8. \A j \in LawTokens : e[j] \in Nat /\ s[j] \in Nat /\ s[j] = 1 * e[j]
  BY <1>4 DEF Monus
<1>9. LawSum(e) \in Nat /\ LawSum(s) = 1 * LawSum(e)
  <2>1. 1 \in Nat
    OBVIOUS
  <2> DEFINE k == 1
  <2> HIDE DEF k
  <2>2. k \in Nat /\ \A j \in LawTokens : e[j] \in Nat /\ s[j] = k * e[j]
    BY <1>8, <2>1 DEF k
  <2>3. Sums(e, LawTokens)[LawTokens] \in Nat
        /\ Sums(s, LawTokens)[LawTokens] = k * Sums(e, LawTokens)[LawTokens]
    BY <2>2, SumScales, LawTokensFinite
  <2> QED
    BY <2>3 DEF LawSum, k
<1>10. R \in Nat
  <2>1. R = LawSum(ScaledExcess(a, m.p2[i], b, m.q2[i]))
    BY DEF RestOf
  <2> QED
    BY <1>2, <1>3, <2>1, ScaledExcessIs
<1>11. Refused(m, i) = b - a
  BY DEF Refused
<1> HIDE DEF a, b, n, R
<1>12. LawSum(s) = R + (b - a) * n
  <2>1. a * n + LawSum(e) = b * n + R
    BY <1>5, <1>7
  <2>2. (b - a) * n = b * n - a * n /\ a * n \in Nat /\ b * n \in Nat
    BY <1>1, <1>2, <1>3
  <2> DEFINE u == a * n
             v == b * n
             l == LawSum(e)
             c == (b - a) * n
  <2>3. u + l = v + R /\ c = v - u /\ u \in Nat /\ v \in Nat /\ l \in Nat /\ LawSum(s) = l
    BY <1>9, <2>1, <2>2
  <2> HIDE DEF u, v, l, c
  <2>4. l = R + c
    BY <1>10, <2>3
  <2> QED
    BY <2>3, <2>4 DEF c
<1> QED
  BY <1>8, <1>11, <1>12 DEF R, n

\* The pairs that begin with the draft i weigh as much as i does in the ratio test.
RowSumIs(m, i, x, y, D, T) ==
  /\ \A j \in LawTokens : T[j] \in Nat
  /\ LawSum(T) = (BaseOf(m, i) * m.p2[x][y]) * RatioTerms(m.p, m.q, x, D)[i]

\* What a second draft keeps of its weight and what is left of the target make up the
\* target's; what is refused is shared out by the threshold.
LEMMA RowSum ==
  ASSUME NEW m \in Laws!Models(LawWeight), NEW i \in LawTokens, NEW x \in LawTokens,
         NEW y \in LawTokens, NEW D \in Nat \ {0},
         NEW T, \A j \in LawTokens : T[j] = PairTerm(m, x, y, D, i, j)
  PROVE  RowSumIs(m, i, x, y, D, T)
<1> DEFINE n == LawWeight
           S == BaseOf(m, i)
           w == PairRest(m, x, y, D, i)
           t == Refused(m, i)
           R == LawSum(RestOf(m, i))
           o == RestOf(m, i)[y]
           z == m.p2[x][y]
           r0 == Excess(m.p, m.q)[x]
           a == Lesser(m.p[i], m.q[i])
           base == R + t * n
           e == [j \in LawTokens |-> IF x = i /\ y = j THEN PairKept(m, i, j) ELSE 0]
           s == [j \in LawTokens |-> PairRefused(m, i, j)]
           g == S * D
<1>1. /\ a \in Nat /\ t \in Nat /\ t = Monus(m.q[i], m.p[i]) /\ o \in Nat /\ R \in Nat
      /\ (R = 0 => o = 0) /\ S \in Nat \ {0} /\ r0 \in Nat /\ z \in Nat /\ w \in Nat
      /\ \A j \in LawTokens : /\ PairKept(m, i, j) \in Nat /\ PairRefused(m, i, j) \in Nat
                              /\ PairTerm(m, x, y, D, i, j) \in Nat
  BY PairNumbers
<1>2. n \in Nat \ {0}
  BY LawAssumption
<1>3. \A j \in LawTokens : s[j] \in Nat
      /\ LawSum(s) = base
  <2>1. \A j \in LawTokens : s[j] = PairRefused(m, i, j)
    OBVIOUS
  <2> HIDE DEF s
  <2>2. /\ \A j \in LawTokens : s[j] \in Nat
        /\ LawSum(s) = LawSum(RestOf(m, i)) + Refused(m, i) * LawWeight
    BY <2>1, RefusedSum
  <2> QED
    BY <2>2
<1>4. /\ \A j \in LawTokens : e[j] \in Nat /\ (j # y => e[j] = 0)
      /\ e[y] = IF x = i THEN PairKept(m, i, y) ELSE 0
  BY <1>1
<1>5. LawSum(e) = e[y]
  <2> HIDE DEF e
  <2> QED
    BY <1>4, SumOfOne, LawTokensFinite DEF LawSum
<1>6. g \in Nat
  BY <1>1
<1>7. \A j \in LawTokens : T[j] = Times(g, e)[j] + Times(w, s)[j]
  <2>1. ASSUME NEW j \in LawTokens
        PROVE  T[j] = Times(g, e)[j] + Times(w, s)[j]
    <3>1. T[j] = g * e[j] + PairRefused(m, i, j) * w
      BY DEF PairTerm
    <3>2. s[j] = PairRefused(m, i, j) /\ s[j] \in Nat
      BY <1>1
    <3>3. Times(g, e)[j] = g * e[j] /\ Times(w, s)[j] = w * s[j]
      BY DEF Times
    <3> HIDE DEF g, e, s, w
    <3>4. s[j] * w = w * s[j]
      BY <1>1, <3>2
    <3> QED
      BY <3>1, <3>2, <3>3, <3>4
  <2> QED
    BY <2>1
<1> HIDE DEF e, s
<1>8. /\ LawSum(Times(g, e)) = g * LawSum(e) /\ LawSum(Times(w, s)) = w * LawSum(s)
      /\ \A j \in LawTokens : Times(g, e)[j] \in Nat /\ Times(w, s)[j] \in Nat
  <2> HIDE DEF g, w
  <2>1. LawSum(Times(g, e)) = g * LawSum(e) /\ LawSum(Times(w, s)) = w * LawSum(s)
    BY <1>1, <1>3, <1>4, <1>6, SumTimes
  <2>2. \A j \in LawTokens : Times(g, e)[j] = g * e[j] /\ Times(w, s)[j] = w * s[j]
    BY DEF Times
  <2>3. ASSUME NEW j \in LawTokens
        PROVE  g * e[j] \in Nat /\ w * s[j] \in Nat
    BY <1>1, <1>3, <1>4, <1>6
  <2> QED
    BY <2>1, <2>2, <2>3
<1>9. LawSum(T) = g * e[y] + w * base
  <2> DEFINE E == Times(g, e)
             W == Times(w, s)
  <2>1. \A j \in LawTokens : E[j] \in Nat /\ W[j] \in Nat /\ T[j] = E[j] + W[j]
    BY <1>7, <1>8
  <2> HIDE DEF E, W
  <2>2. LawSum(T) = LawSum(E) + LawSum(W)
    BY <2>1, SumOfTwo
  <2> QED
    BY <1>3, <1>5, <1>8, <2>2 DEF E, W
<1>10. S = (IF base = 0 THEN 1 ELSE base)
  BY DEF BaseOf, AtLeastOne
<1>11. w = (IF x = i THEN o * D ELSE 0) + t * (r0 * z)
  BY DEF PairRest
<1>12. x = i => e[y] + o = a * z
  <2> SUFFICES ASSUME x = i PROVE e[y] + o = a * z
    OBVIOUS
  <2> DEFINE u == a * m.p2[i][y]
             v == m.q[i] * m.q2[i][y]
  <2>1. 1 \in Nat \ {0}
    OBVIOUS
  <2>2. /\ o = Monus(u, v) /\ m.p2[i][y] \in Nat /\ m.q2[i][y] \in Nat /\ m.q[i] \in Nat
    BY <2>1, PairNumbers
  <2>3. e[y] = Lesser(u, v)
    BY <1>4 DEF PairKept
  <2>4. u \in Nat /\ v \in Nat
    BY <1>1, <2>2
  <2>5. u = a * z
    OBVIOUS
  <2> HIDE DEF u, v, a, z, o
  <2>6. e[y] + o = u
    BY <2>2, <2>3, <2>4 DEF Lesser, Monus
  <2> QED
    BY <2>5, <2>6
<1>13. RatioTerms(m.p, m.q, x, D)[i] = (IF x = i THEN a ELSE 0) * D + t * r0
  <2>1. RatioTerms(m.p, m.q, x, D)[i]
          = (IF x = i THEN a ELSE 0) * D + Monus(m.q[i], m.p[i]) * Monus(m.p[x], m.q[x])
    BY DEF RatioTerms
  <2>2. r0 = Monus(m.p[x], m.q[x])
    BY DEF Excess
  <2> QED
    BY <1>1, <2>1, <2>2
<1>14. t * n \in Nat /\ (base = 0 => R = 0 /\ t * n = 0)
  <2>1. t * n \in Nat
    BY <1>1, <1>2
  <2> DEFINE v == t * n
  <2> HIDE DEF v
  <2>2. v \in Nat /\ base = R + v
    BY <2>1 DEF v
  <2> HIDE DEF base
  <2>3. base = 0 => R = 0 /\ v = 0
    BY <1>1, <2>2
  <2> QED
    BY <2>2, <2>3 DEF v
<1>15. base \in Nat
  BY <1>1, <1>14
<1>16. x # i => e[y] = 0
  BY <1>4
<1>17. e[y] \in Nat
  BY <1>4
<1> DEFINE h == e[y]
           rt == RatioTerms(m.p, m.q, x, D)[i]
<1> HIDE DEF S, w, t, R, o, z, r0, a, base, n, g, h, rt
<1>18. w * base = S * w
  <2>1. CASE base = 0
    <3>1. t = 0 /\ o = 0
      BY <1>1, <1>2, <1>14, <2>1
    <3>2. w = (IF x = i THEN 0 * D ELSE 0) + 0 * (r0 * z)
      BY <1>11, <3>1
    <3>3. 0 * D = 0 /\ 0 * (r0 * z) = 0
      BY <1>1
    <3>4. w = 0
      BY <3>2, <3>3
    <3> QED
      BY <1>1, <1>15, <3>4
  <2>2. CASE base # 0
    <3>1. S = base
      BY <1>10, <2>2
    <3> QED
      BY <1>1, <3>1
  <2> QED
    BY <2>1, <2>2
<1>19. D * h + w = z * rt
  <2>1. h \in Nat /\ r0 * z \in Nat /\ t * (r0 * z) = z * (t * r0) /\ t * r0 \in Nat
    BY <1>1, <1>17 DEF h
  <2>2. CASE x = i
    <3>1. w = o * D + t * (r0 * z)
      BY <1>11, <2>2
    <3>2. rt = a * D + t * r0
      BY <1>13, <2>2 DEF rt
    <3>3. h + o = a * z
      BY <1>12, <2>2 DEF h
    <3>4. D * h + o * D = D * (h + o)
      BY <1>1, <2>1
    <3>5. D * (a * z) = z * (a * D)
      BY <1>1
    <3>6. z * (a * D) + z * (t * r0) = z * (a * D + t * r0)
      BY <1>1, <2>1
    <3> DEFINE u == D * h
               v == o * D
               c == t * (r0 * z)
    <3>7. u \in Nat /\ v \in Nat /\ c \in Nat
      BY <1>1, <2>1
    <3>8. u + v = z * (a * D)
      BY <3>3, <3>4, <3>5
    <3>9. w = v + c /\ c = z * (t * r0)
      BY <2>1, <3>1
    <3> HIDE DEF u, v, c
    <3>10. u + w = z * (a * D) + z * (t * r0)
      <4>1. u + w = (u + v) + c
        BY <3>7, <3>9
      <4> QED
        BY <3>8, <3>9, <4>1
    <3> QED
      BY <3>2, <3>6, <3>10 DEF u
  <2>3. CASE x # i
    <3>1. w = 0 + t * (r0 * z) /\ h = 0
      BY <1>11, <1>16, <2>3 DEF h
    <3>2. rt = 0 * D + t * r0
      BY <1>13, <2>3 DEF rt
    <3>3. D * 0 = 0 /\ 0 * D = 0
      OBVIOUS
    <3>4. w = z * (t * r0)
      <4> DEFINE c == t * (r0 * z)
      <4>1. w = 0 + c /\ c \in Nat /\ c = z * (t * r0)
        BY <1>1, <2>1, <3>1
      <4> HIDE DEF c
      <4>2. w = c
        BY <4>1
      <4> QED
        BY <4>1, <4>2
    <3>5. rt = t * r0
      BY <2>1, <3>2, <3>3
    <3> QED
      BY <1>1, <3>1, <3>3, <3>4, <3>5
  <2> QED
    BY <2>2, <2>3
<1>20. rt \in Nat
  <2>1. (IF x = i THEN a ELSE 0) \in Nat
    BY <1>1
  <2> DEFINE f == IF x = i THEN a ELSE 0
  <2> HIDE DEF f
  <2>2. f * D \in Nat /\ t * r0 \in Nat /\ rt = f * D + t * r0
    BY <1>1, <1>13, <2>1 DEF f, rt
  <2> QED
    BY <2>2
<1>21. LawSum(T) = (S * z) * rt
  <2>1. g * h = S * (D * h) /\ D * h \in Nat
    BY <1>1, <1>17 DEF g, h
  <2>2. LawSum(T) = S * (D * h) + S * w
    BY <1>9, <1>18, <2>1 DEF h
  <2> DEFINE v == D * h
  <2>3. S * v + S * w = S * (v + w)
    <3> HIDE DEF v
    <3> QED
      BY <1>1, <2>1 DEF v
  <2>4. S * (z * rt) = (S * z) * rt
    BY <1>1, <1>20
  <2> QED
    BY <1>19, <2>2, <2>3, <2>4
<1>22. \A j \in LawTokens : T[j] \in Nat
  BY <1>1
<1> QED
  BY <1>21, <1>22 DEF RowSumIs, S, z, rt

\* What a pair contributes once the thresholds have a common denominator: k[i] is what
\* the row of the draft i lacks to it.
Pairs(m, x, y, D, k) ==
  [d \in LawTokens \X LawTokens |-> k[d[1]] * PairTerm(m, x, y, D, d[1], d[2])]

\* All pairs together weigh what the target gives to <<x, y>>.
PairsSumIs(m, x, y, D, k, L) ==
  LET f == Pairs(m, x, y, D, k)
  IN  /\ \A d \in LawTokens \X LawTokens : f[d] \in Nat
      /\ Sums(f, LawTokens \X LawTokens)[LawTokens \X LawTokens]
           = (L * m.p2[x][y]) * (D * m.p[x])

\* They are summed row by row.
LEMMA PairsSum ==
  ASSUME NEW m \in Laws!Models(LawWeight), NEW x \in LawTokens, NEW y \in LawTokens,
         NEW D, D = AtLeastOne(LawSum(Excess(m.p, m.q))),
         NEW L \in Nat \ {0}, NEW k \in [LawTokens -> Nat],
         \A i \in LawTokens : BaseOf(m, i) * k[i] = L
  PROVE  PairsSumIs(m, x, y, D, k, L)
<1> DEFINE f == Pairs(m, x, y, D, k)
           z == m.p2[x][y]
           rt == RatioTerms(m.p, m.q, x, D)
           g == [i \in LawTokens |-> (L * z) * rt[i]]
           A == LawTokens
<1>1. /\ \A i \in LawTokens : m.p[i] \in Nat /\ m.q[i] \in Nat
      /\ LawSum(m.p) = LawSum(m.q) /\ z \in Nat
  <2>1. /\ m.p \in Laws!Dists(LawWeight) /\ m.q \in Laws!Dists(LawWeight)
        /\ m.p2[x] \in Laws!Dists(LawWeight)
    BY ModelRows
  <2> QED
    BY <2>1, DistIs
<1>2. /\ D \in Nat \ {0} /\ \A i \in LawTokens : rt[i] \in Nat
      /\ LawSum(rt) = D * m.p[x]
  BY <1>1, RatioTermsSum
<1>3. \A i \in A : \A j \in A : PairTerm(m, x, y, D, i, j) \in Nat
  BY <1>2, PairNumbers
<1>4. \A i \in A : \A j \in A : f[<<i, j>>] = k[i] * PairTerm(m, x, y, D, i, j)
  <2>1. ASSUME NEW i \in A, NEW j \in A
        PROVE  f[<<i, j>>] = k[i] * PairTerm(m, x, y, D, i, j)
    <3>1. <<i, j>> \in LawTokens \X LawTokens /\ <<i, j>>[1] = i /\ <<i, j>>[2] = j
      OBVIOUS
    <3> QED
      BY <3>1 DEF Pairs
  <2> QED
    BY <2>1
<1>5. \A d \in A \X A : f[d] \in Nat
  <2>1. ASSUME NEW i \in A, NEW j \in A
        PROVE  f[<<i, j>>] \in Nat
    <3>1. k[i] \in Nat /\ PairTerm(m, x, y, D, i, j) \in Nat
      BY <1>3
    <3> DEFINE u == k[i]
               v == PairTerm(m, x, y, D, i, j)
    <3> HIDE DEF u, v, f
    <3>2. f[<<i, j>>] = u * v /\ u \in Nat /\ v \in Nat
      BY <1>4, <3>1 DEF u, v
    <3> QED
      BY <3>2
  <2>2. \A d \in A \X A : \E i \in A, j \in A : d = <<i, j>>
    OBVIOUS
  <2> HIDE DEF f
  <2> QED
    BY <2>1, <2>2
<1>6. ASSUME NEW i \in A
      PROVE  g[i] = Sums(RowOf(f, i, A), A)[A]
  <2> DEFINE T == [j \in LawTokens |-> PairTerm(m, x, y, D, i, j)]
             r == RowOf(f, i, A)
  <2>1. /\ \A j \in LawTokens : T[j] \in Nat
        /\ LawSum(T) = (BaseOf(m, i) * z) * rt[i]
    <3>1. \A j \in LawTokens : T[j] = PairTerm(m, x, y, D, i, j)
      OBVIOUS
    <3> HIDE DEF T
    <3>2. RowSumIs(m, i, x, y, D, T)
      BY <1>2, <3>1, RowSum
    <3> QED
      BY <3>2 DEF RowSumIs
  <2>2. \A j \in A : r[j] = k[i] * T[j]
    BY <1>4 DEF RowOf
  <2> DEFINE u == k[i]
  <2>3. u \in Nat
    OBVIOUS
  <2> HIDE DEF T, r, u
  <2>4. Sums(r, A)[A] = u * Sums(T, A)[A]
    <3>1. \A j \in A : T[j] \in Nat /\ r[j] = u * T[j]
      BY <2>1, <2>2 DEF u
    <3> QED
      BY <2>3, <3>1, SumScales, LawTokensFinite
  <2>5. Sums(r, A)[A] = u * ((BaseOf(m, i) * z) * rt[i])
    BY <2>1, <2>4 DEF LawSum
  <2> DEFINE S == BaseOf(m, i)
             e == rt[i]
  <2>6. S * u = L /\ S \in Nat /\ e \in Nat
    <3>1. S \in Nat
      BY <1>2, PairNumbers
    <3> QED
      BY <1>2, <3>1 DEF u
  <2> HIDE DEF S, e
  <2>7. u * ((S * z) * e) = ((S * u) * z) * e
    BY <1>1, <2>3, <2>6
  <2>8. Sums(r, A)[A] = (L * z) * e
    BY <2>5, <2>6, <2>7 DEF S, e
  <2> QED
    BY <2>8 DEF r, e
<1>7. Sums(f, A \X A)[A \X A] = Sums(g, A)[A]
  <2> HIDE DEF f, g
  <2> QED
    BY <1>5, <1>6, SumOfPairs, LawTokensFinite
<1>8. Sums(g, A)[A] = (L * z) * Sums(rt, A)[A]
  <2> DEFINE u == L * z
  <2>1. u \in Nat
    BY <1>1
  <2> HIDE DEF u
  <2>2. \A i \in A : rt[i] \in Nat /\ g[i] = u * rt[i]
    BY <1>2 DEF u
  <2> HIDE DEF g, rt
  <2>3. Sums(g, A)[A] = u * Sums(rt, A)[A]
    BY <2>1, <2>2, SumScales, LawTokensFinite
  <2> QED
    BY <2>3 DEF u
<1>9. Sums(f, A \X A)[A \X A] = (L * z) * (D * m.p[x])
  BY <1>2, <1>7, <1>8 DEF LawSum
<1> QED
  BY <1>5, <1>9 DEF PairsSumIs, f, z

\* A pair the drafter does not propose contributes nothing.
LEMMA UnproposedPair ==
  ASSUME NEW m \in Laws!Models(LawWeight), NEW x \in LawTokens, NEW y \in LawTokens,
         NEW D \in Nat \ {0}, NEW i \in LawTokens, NEW j \in LawTokens,
         m.q[i] = 0 \/ m.q2[i][j] = 0
  PROVE  PairTerm(m, x, y, D, i, j) = 0
<1> DEFINE w == PairRest(m, x, y, D, i)
           g == BaseOf(m, i) * D
           C == PairKept(m, i, j)
           s == PairRefused(m, i, j)
           u == Lesser(m.p[i], m.q[i]) * m.p2[i][j]
           v == m.q[i] * m.q2[i][j]
<1>1. /\ w \in Nat /\ BaseOf(m, i) \in Nat \ {0} /\ m.q[i] \in Nat /\ m.q2[i][j] \in Nat
      /\ m.p2[i][j] \in Nat /\ Lesser(m.p[i], m.q[i]) \in Nat
  BY PairNumbers
<1>2. g \in Nat
  BY <1>1
<1>3. u \in Nat /\ v = 0
  <2>1. v = 0
    <3>1. CASE m.q[i] = 0
      BY <1>1, <3>1
    <3>2. CASE m.q2[i][j] = 0
      BY <1>1, <3>2
    <3> QED
      BY <3>1, <3>2
  <2> QED
    BY <1>1, <2>1
<1>4. C = Lesser(u, v) /\ s = Monus(v, u)
  BY DEF PairKept, PairRefused
<1>5. PairTerm(m, x, y, D, i, j) = g * (IF x = i /\ y = j THEN C ELSE 0) + s * w
  BY DEF PairTerm
<1> HIDE DEF w, g, C, s, u, v
<1>6. C = 0 /\ s = 0
  BY <1>3, <1>4 DEF Lesser, Monus
<1>7. PairTerm(m, x, y, D, i, j) = g * 0 + 0 * w
  BY <1>5, <1>6
<1> QED
  BY <1>1, <1>2, <1>7

\* The tokens <<x, y>> over all pairs of drafts.
LEMMA DrafterBlock ==
  ASSUME NEW m \in Laws!Models(LawWeight), ~m.oneHot, NEW x \in LawTokens, NEW y \in LawTokens
  PROVE  Laws!FSum({d \in Laws!All \X Laws!All : m.q[d[1]] > 0 /\ m.q2[d[1]][d[2]] > 0},
                   LAMBDA d : Laws!FMul(Laws!FMul(Laws!Prob(m.q, d[1]), Laws!Prob(m.q2[d[1]], d[2])),
                                        Laws!BlockOutcome(m, d, x, y)))
           = Frac(m.p[x] * m.p2[x][y], LawWeight * LawWeight)
<1> DEFINE A == LawTokens
           S == {d \in Laws!All \X Laws!All : m.q[d[1]] > 0 /\ m.q2[d[1]][d[2]] > 0}
           E(d) == Laws!FMul(Laws!FMul(Laws!Prob(m.q, d[1]), Laws!Prob(m.q2[d[1]], d[2])),
                             Laws!BlockOutcome(m, d, x, y))
           t == [d \in S |-> E(d)]
           D == AtLeastOne(LawSum(Excess(m.p, m.q)))
           z == m.p2[x][y]
           N == LawWeight * LawWeight
           P(h) == h = [s \in SUBSET S |->
                          IF s = {} THEN <<0, 1>>
                          ELSE Laws!FAdd(E(First(s)), h[s \ {First(s)}])]
<1>1. Laws!FSum(S, E) = (CHOOSE h : P(h))[S]
  BY DEF Laws!FSum, Laws!FoldSet, Laws!MapThenFoldSet, First
<1>2. /\ \A i \in A : m.p[i] \in Nat /\ m.q[i] \in Nat
      /\ \A i \in A : \A j \in A : m.q2[i][j] \in Nat
      /\ LawSum(m.p) = LawSum(m.q) /\ z \in Nat /\ LawWeight \in Nat \ {0}
  <2>1. /\ m.p \in Laws!Dists(LawWeight) /\ m.q \in Laws!Dists(LawWeight)
        /\ \A i \in A : m.p2[i] \in Laws!Dists(LawWeight) /\ m.q2[i] \in Laws!Dists(LawWeight)
    BY ModelRows
  <2> QED
    BY <2>1, DistIs, LawAssumption
<1>3. D \in Nat \ {0}
  BY <1>2, RatioTermsSum
<1>4. PICK L \in Nat \ {0}, k \in [A -> Nat] : \A i \in A : BaseOf(m, i) * k[i] = L
  <2> DEFINE b == [i \in A |-> BaseOf(m, i)]
  <2>1. \A i \in A : b[i] = BaseOf(m, i) /\ b[i] \in Nat \ {0}
    BY <1>3, PairNumbers
  <2> HIDE DEF b
  <2>2. HasMultiple(A, b)
    BY <2>1, CommonMultiple, LawTokensFinite
  <2> QED
    BY <2>1, <2>2 DEF HasMultiple
<1> DEFINE f == Pairs(m, x, y, D, k)
           M == N * (L * D)
<1>5. /\ \A d \in A \X A : f[d] \in Nat
      /\ Sums(f, A \X A)[A \X A] = (L * z) * (D * m.p[x])
  <2> HIDE DEF D
  <2>1. D = AtLeastOne(LawSum(Excess(m.p, m.q)))
    BY DEF D
  <2>2. PairsSumIs(m, x, y, D, k, L)
    BY <1>4, <2>1, PairsSum
  <2> QED
    BY <2>2 DEF PairsSumIs
<1>6. S \in SUBSET (A \X A)
      /\ \A d \in A \X A : d \in S <=> m.q[d[1]] > 0 /\ m.q2[d[1]][d[2]] > 0
  BY DEF Laws!All, LawTokens
<1>7. \A d \in A \X A : f[d] = k[d[1]] * PairTerm(m, x, y, D, d[1], d[2])
  BY DEF Pairs
<1>8. \A d \in S : t[d] = Frac(f[d], M) /\ f[d] \in Nat
  <2>1. ASSUME NEW d \in S
        PROVE  t[d] = Frac(f[d], M)
    <3>1. PICK i \in A, j \in A : d = <<i, j>>
      BY <1>6
    <3>2. d[1] = i /\ d[2] = j /\ m.q[i] > 0 /\ m.q2[i][j] > 0 /\ d \in A \X A
      BY <1>6, <3>1
    <3>3. f[d] = k[i] * PairTerm(m, x, y, D, i, j)
      BY <1>7, <3>2
    <3>4. FMul(FMul(Laws!Prob(m.q, i), Laws!Prob(m.q2[i], j)),
               Laws!BlockOutcome(m, <<i, j>>, x, y))
            = Frac(k[i] * PairTerm(m, x, y, D, i, j), (LawWeight * LawWeight) * (L * D))
      <4> DEFINE c == k[i]
      <4>1. c \in Nat /\ BaseOf(m, i) * c = L
        BY <1>4
      <4> HIDE DEF c, D
      <4>2. D = AtLeastOne(LawSum(Excess(m.p, m.q)))
        BY DEF D
      <4>3. FMul(FMul(Laws!Prob(m.q, i), Laws!Prob(m.q2[i], j)),
                 Laws!BlockOutcome(m, <<i, j>>, x, y))
              = Frac(c * PairTerm(m, x, y, D, i, j), (LawWeight * LawWeight) * (L * D))
        BY <3>2, <4>1, <4>2, DraftedBlock
      <4> QED
        BY <4>3 DEF c
    <3>5. t[d] = FMul(FMul(Laws!Prob(m.q, i), Laws!Prob(m.q2[i], j)),
                      Laws!BlockOutcome(m, <<i, j>>, x, y))
      <4>1. t[d] = E(d)
        OBVIOUS
      <4> HIDE DEF t
      <4> QED
        BY <3>1, <3>2, <4>1, LawFracs
    <3> HIDE DEF t, f
    <3> QED
      BY <3>3, <3>4, <3>5
  <2> QED
    BY <1>5, <1>6, <2>1
<1>9. \A d \in A \X A : d \notin S => f[d] = 0
  <2>1. ASSUME NEW d \in A \X A, d \notin S
        PROVE  f[d] = 0
    <3>1. PICK i \in A, j \in A : d = <<i, j>>
      OBVIOUS
    <3>2. d[1] = i /\ d[2] = j /\ (m.q[i] = 0 \/ m.q2[i][j] = 0)
      <4>1. ~(m.q[i] > 0 /\ m.q2[i][j] > 0)
        BY <1>6, <2>1, <3>1
      <4>2. m.q[i] \in Nat /\ m.q2[i][j] \in Nat
        BY <1>2
      <4> QED
        BY <3>1, <4>1, <4>2
    <3>3. PairTerm(m, x, y, D, i, j) = 0
      BY <1>3, <3>2, UnproposedPair
    <3>4. f[d] = k[i] * 0 /\ k[i] \in Nat
      BY <1>7, <3>2, <3>3
    <3> HIDE DEF f
    <3> QED
      BY <3>4
  <2> QED
    BY <2>1
<1>10. ASSUME NEW h
       PROVE  P(h) <=> FoldEq(h, t, S)
  <2>1. ASSUME NEW s \in SUBSET S, s # {}
        PROVE  t[First(s)] = E(First(s))
    <3>1. First(s) \in S
      BY <2>1 DEF First
    <3> QED
      BY <3>1
  <2> HIDE DEF t, S, E
  <2>2. ASSUME NEW s \in SUBSET S
        PROVE  FoldStep(h, t, s) = IF s = {} THEN <<0, 1>>
                                   ELSE Laws!FAdd(E(First(s)), h[s \ {First(s)}])
    BY <2>1, LawFracs DEF FoldStep
  <2> QED
    BY <2>2 DEF FoldEq
<1> HIDE DEF S, E, t, D, f, M, N, z
<1>11. IsFiniteSet(A \X A) /\ IsFiniteSet(S) /\ N \in Nat \ {0} /\ M \in Nat \ {0}
  <2>1. IsFiniteSet(A \X A)
    BY LawTokensFinite, FS_Product
  <2>2. IsFiniteSet(S)
    BY <1>6, <2>1, FS_Subset
  <2>3. N \in Nat \ {0}
    BY <1>2 DEF N
  <2>4. M \in Nat \ {0}
    BY <1>3, <1>4, <2>3 DEF M
  <2> QED
    BY <2>1, <2>2, <2>3, <2>4
<1>12. \E h : FoldEq(h, t, S)
  <2>1. \A d \in S : f[d] \in Nat /\ t[d] = Frac(f[d], M)
    BY <1>8
  <2> QED
    BY <1>11, <2>1, FoldExists
<1>13. P(CHOOSE h : P(h))
  BY <1>10, <1>12
<1> DEFINE h == CHOOSE h : P(h)
<1>14. FoldEq(h, t, S)
  BY <1>10, <1>13
<1> HIDE DEF h, P
<1>15. h[S] = Frac(Sums(f, S)[S], M)
  BY <1>8, <1>11, <1>14, FoldIs
<1>16. Sums(f, S)[S] = (L * z) * (D * m.p[x])
  BY <1>5, <1>6, <1>9, <1>11, SumOfPart
<1>17. Frac((L * z) * (D * m.p[x]), M) = Frac(m.p[x] * z, N)
  <2> DEFINE px == m.p[x]
             K == L * D
             v == px * z
  <2>1. px \in Nat
    BY <1>2
  <2> HIDE DEF px
  <2>2. (L * z) * (D * px) = (L * D) * (px * z) /\ N * (L * D) = (L * D) * N
    BY <1>2, <1>3, <1>11, <2>1
  <2>3. K \in Nat \ {0} /\ v \in Nat
    BY <1>2, <1>3, <2>1
  <2>4. (L * z) * (D * px) = K * v /\ M = K * N
    BY <2>2 DEF M
  <2> HIDE DEF K, v
  <2>5. Frac(K * v, K * N) = Frac(v, N)
    BY <1>11, <2>3, FracScales
  <2> QED
    BY <2>4, <2>5 DEF px, v
<1> QED
  BY <1>1, <1>15, <1>16, <1>17 DEF h, S, E, z, N

\* For every target and every drafter over any vocabulary block verification and its
\* scaled residual sample from the target.
LEMMA BlockSamples ==
  ASSUME NEW m \in Laws!Models(LawWeight)
  PROVE  Laws!BlockLaw(m)
<1> SUFFICES ASSUME NEW x \in Laws!All, NEW y \in Laws!All
             PROVE  LET joint == Laws!FMul(Laws!Prob(m.p, x), Laws!Prob(m.p2[x], y))
                    IN  IF m.oneHot
                        THEN \A d \in Laws!All \X Laws!All : Laws!BlockOutcome(m, d, x, y) = joint
                        ELSE Laws!FSum({d \in Laws!All \X Laws!All :
                                          m.q[d[1]] > 0 /\ m.q2[d[1]][d[2]] > 0},
                               LAMBDA d : Laws!FMul(Laws!FMul(Laws!Prob(m.q, d[1]),
                                                              Laws!Prob(m.q2[d[1]], d[2])),
                                                    Laws!BlockOutcome(m, d, x, y))) = joint
  BY DEF Laws!BlockLaw
<1> DEFINE n == LawWeight
           joint == Laws!FMul(Laws!Prob(m.p, x), Laws!Prob(m.p2[x], y))
<1>1. Laws!All = LawTokens
  BY DEF Laws!All, LawTokens
<1>2. joint = Frac(m.p[x] * m.p2[x][y], n * n)
  <2>1. n \in Nat \ {0} /\ m.p \in Laws!Dists(n) /\ m.p2[x] \in Laws!Dists(n)
    BY <1>1, ModelRows
  <2>2. /\ Laws!Mass(m.p) = n /\ Laws!Mass(m.p2[x]) = n
        /\ m.p[x] \in Nat /\ m.p2[x][y] \in Nat
    BY <1>1, <2>1, DistIs
  <2>3. Laws!Prob(m.p, x) = Frac(m.p[x], n) /\ Laws!Prob(m.p2[x], y) = Frac(m.p2[x][y], n)
    BY <2>1, <2>2, LawFracs DEF Laws!Prob
  <2> DEFINE u == m.p[x]
             v == m.p2[x][y]
  <2>4. joint = FMul(Frac(u, n), Frac(v, n))
    BY <2>3, LawFracs
  <2>5. u \in Nat /\ v \in Nat /\ n \in Nat \ {0}
    BY <2>1, <2>2
  <2> HIDE DEF u, v, n, joint
  <2>6. FMul(Frac(u, n), Frac(v, n)) = Frac(u * v, n * n)
    <3>1. MulIs(u, n, v, n)
      BY <2>5, MulHolds
    <3> QED
      BY <3>1 DEF MulIs
  <2> QED
    BY <2>4, <2>6 DEF u, v
<1>3. CASE m.oneHot
  BY <1>1, <1>2, <1>3, OneHotBlock
<1>4. CASE ~m.oneHot
  BY <1>1, <1>2, <1>4, DrafterBlock
<1> QED
  BY <1>3, <1>4

\* rejection_sampler_utils.py, block verification: the first two tokens of a window
\* have exactly the target's joint probability, although a block is accepted whose
\* first draft alone might be rejected, with a drafter that has logits over all of its
\* pairs of drafts, and with one that has none whatever pair it proposes.
THEOREM BlockSamplesTarget == LawSpec => []BlockLaw
<1> DEFINE Modelled == model = <<>> \/ model \in Laws!Models(LawWeight)
<1>1. LawInit => Modelled
  BY DEF LawInit
<1>2. Modelled /\ [LawNext]_<<vars, model>> => Modelled'
  BY DEF LawNext
<1>3. Modelled => BlockLaw
  BY BlockSamples DEF BlockLaw
<1> QED
  BY <1>1, <1>2, <1>3, PTL DEF LawSpec

-------------------------------------------------------------------------------
(* The sampler in the state graph that also holds the models of the laws. *)

\* Beside the laws the kernels keep what they keep alone: what is delivered is in the
\* vocabulary, drafts come first, greedy requests get the target's tokens, and a
\* correction has mass.
THEOREM SamplerBesideLaws ==
  LawSpec => [](SampledInVocab /\ AcceptedArePrefix /\ GreedyFollowsTarget /\ CorrectionHasMass)
<1> DEFINE Kernels == model = <<>>
           Idle == model # <<>> /\ phase = "verify"
           Good == SampledInVocab /\ AcceptedArePrefix /\ GreedyFollowsTarget /\ CorrectionHasMass
<1>1. LawInit => (Kernels /\ Init) \/ Idle
  <2>1. \A m \in Laws!Models(LawWeight) : m # <<>>
    <3>1. \A m \in Laws!Models(LawWeight) : "p" \in DOMAIN m
      BY DEF Laws!Models
    <3>2. DOMAIN <<>> = {}
      OBVIOUS
    <3> QED
      BY <3>1, <3>2
  <2> QED
    BY <2>1 DEF LawInit
<1>2. Kernels /\ [LawNext]_<<vars, model>> => Kernels' /\ [Next]_vars
  BY DEF LawNext
<1>3. Idle /\ [LawNext]_<<vars, model>> => Idle'
  BY DEF LawNext, vars
<1>4. Idle => Good
  BY DEF SampledInVocab, AcceptedArePrefix, GreedyFollowsTarget, CorrectionHasMass, Finished
<1>5. Spec => []Good
  BY DeliveredInVocab, AcceptedDrafts, GreedyIsTarget, CorrectionMass, PTL
<1> HIDE DEF Kernels, Idle, Good
<1>6. Kernels /\ Init /\ [][LawNext]_<<vars, model>> => Spec
  BY <1>2, PTL DEF Spec
<1>7. Idle /\ [][LawNext]_<<vars, model>> => []Good
  BY <1>3, <1>4, PTL
<1>8. LawSpec => []Good
  BY <1>1, <1>5, <1>6, <1>7, PTL DEF LawSpec
<1> QED
  BY <1>8 DEF Good

===============================================================================
