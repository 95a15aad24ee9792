-------------------------- MODULE BlockCommit_proofs --------------------------
(***************************************************************************)
(* Proofs about BlockCommit: its type invariant, that the scheduler and    *)
(* the workers agree on the history of every running request, that what    *)
(* the client was sent is never taken back, and what it is sent: while     *)
(* enforcement lasts the answer is what the matcher accepted and a prefix  *)
(* of a word, a completed request delivered a whole word, the tail of an   *)
(* abandoned one is bounded, and enforcement lasts wherever every window   *)
(* is covered or rejected blocks are cut.  The last part is about what is  *)
(* looked for in the tail of the output: the watch of a salvaged request,  *)
(* the tag-soup tripwire and the repetition tripwire.                      *)
(***************************************************************************)
EXTENDS BlockCommit, TLAPS, FiniteSetTheorems, SequenceTheorems

-------------------------------------------------------------------------------
(* The inductive invariant. *)

\* Every block in flight starts inside the worker's history.
FlightInHistory == \A i \in 1..Len(flight) : flight[i].at <= Len(worker)

IInv == TypeOK /\ FlightInHistory /\ HistoriesAgree

-------------------------------------------------------------------------------
(* Minima and maxima. *)

\* Every nonempty set of naturals has a least element: of the intervals 1..x,
\* with x in the set, one has none of the others as a strict subset.
LEMMA MinOfNats ==
  ASSUME NEW S \in SUBSET Nat, S # {}
  PROVE  Min(S) \in S /\ \A y \in S : Min(S) <= y
<1> DEFINE T == {1..x : x \in S}
<1>1. T \subseteq FiniteSubsetsOf(Nat) /\ T # {}
  <2>1. \A x \in S : 1..x \in SUBSET Nat /\ IsFiniteSet(1..x)
    BY FS_Interval
  <2> QED
    BY <2>1 DEF FiniteSubsetsOf
<1>2. PICK t \in T : \A u \in T : ~(<<u, t>> \in StrictSubsetOrdering(Nat))
  BY <1>1, FS_StrictSubsetOrderingWellFounded, WFMin
<1>3. PICK x \in S : t = 1..x
  OBVIOUS
<1>4. \A y \in S : x <= y
  <2> SUFFICES ASSUME NEW y \in S, y < x
               PROVE  FALSE
    OBVIOUS
  <2>1. 1..y \in T /\ 1..y \in SUBSET Nat /\ 1..x \in SUBSET Nat
    OBVIOUS
  <2>2. 1..y \subseteq 1..x
    OBVIOUS
  <2>3. x \in 1..x /\ x \notin 1..y
    OBVIOUS
  <2>4. <<1..y, 1..x>> \in StrictSubsetOrdering(Nat)
    BY <2>1, <2>2, <2>3 DEF StrictSubsetOrdering
  <2> QED
    BY <2>1, <2>4, <1>2, <1>3
<1>5. \E x0 \in S : \A y \in S : x0 <= y
  BY <1>4
<1> QED
  BY <1>5 DEF Min

LEMMA MaxOfNats ==
  ASSUME NEW n \in Nat, NEW S \in SUBSET (0..n), S # {}
  PROVE  Max(S) \in S /\ \A y \in S : Max(S) >= y
<1> DEFINE T == {n - x : x \in S}
<1>1. T \in SUBSET Nat /\ T # {}
  <2>1. \A x \in S : n - x \in Nat
    OBVIOUS
  <2>2. PICK x \in S : TRUE
    OBVIOUS
  <2>3. n - x \in T
    BY <2>2
  <2> QED
    BY <2>1, <2>3
<1>2. Min(T) \in T /\ \A y \in T : Min(T) <= y
  BY <1>1, MinOfNats
<1>3. PICK x \in S : Min(T) = n - x
  BY <1>2
<1>4. \A y \in S : n - x <= n - y
  BY <1>2, <1>3
<1>5. \A y \in S : x >= y
  BY <1>4
<1> QED
  BY <1>5 DEF Max

LEMMA MinOfPair ==
  ASSUME NEW i \in Int, NEW j \in Int
  PROVE  Min({i, j}) = IF i <= j THEN i ELSE j
BY DEF Min

LEMMA MaxOfPair ==
  ASSUME NEW i \in Int, NEW j \in Int
  PROVE  Max({i, j}) = IF i >= j THEN i ELSE j
BY DEF Max

-------------------------------------------------------------------------------
(* Sequences. *)

LEMMA TakeType ==
  ASSUME NEW T, NEW s \in Seq(T), NEW n \in 0..Len(s)
  PROVE  /\ Take(s, n) \in Seq(T)
         /\ Len(Take(s, n)) = n
         /\ \A i \in 1..n : Take(s, n)[i] = s[i]
<1>1. \A i \in 1..n : s[i] \in T
  OBVIOUS
<1>2. /\ SubSeq(s, 1, n) \in Seq(T)
      /\ Len(SubSeq(s, 1, n)) = IF 1 <= n THEN n - 1 + 1 ELSE 0
      /\ \A i \in 1..(n - 1 + 1) : SubSeq(s, 1, n)[i] = s[1 + i - 1]
  BY <1>1, SubSeqProperties
<1> QED
  BY <1>2 DEF Take

\* A probe accepts at most all of the tokens.
LEMMA ProbeType ==
  ASSUME NEW s, NEW t \in Seq(Tokens)
  PROVE  Probe(s, t) \in 0..Len(t)
<1> DEFINE S == {0} \cup {n \in 1..Len(t) :
                            /\ s \o Take(t, n) \in Reachable
                            /\ \A k \in 0..(n - 1) : s \o Take(t, k) \notin Words}
<1>1. S \in SUBSET (0..Len(t)) /\ S # {} /\ Len(t) \in Nat
  OBVIOUS
<1>2. Max(S) \in S
  BY <1>1, MaxOfNats
<1> QED
  BY <1>1, <1>2 DEF Probe

LEMMA AdvancedType ==
  ASSUME NEW s \in Seq(Tokens), NEW t \in Seq(Tokens)
  PROVE  Advanced(s, t) \in Seq(Tokens)
<1>1. Take(t, Probe(s, t)) \in Seq(Tokens)
  BY ProbeType, TakeType
<1> QED
  BY <1>1, ConcatProperties DEF Advanced

LEMMA GrammarTokensType ==
  ASSUME NEW t \in Seq(Tokens)
  PROVE  /\ GrammarStart(t) \in 0..Len(t)
         /\ GrammarTokens(t) \in Seq(Tokens)
         /\ Len(GrammarTokens(t)) = Len(t) - GrammarStart(t)
<1> DEFINE marks == {i \in 1..Len(t) : t[i] = ThinkEnd}
<1>1. marks # {} => Min(marks) \in marks
  <2> SUFFICES ASSUME marks # {}
               PROVE  Min(marks) \in marks
    OBVIOUS
  <2>1. marks \in SUBSET Nat
    OBVIOUS
  <2> HIDE DEF marks
  <2> QED
    BY <2>1, MinOfNats
<1>2. GrammarStart(t) \in 0..Len(t)
  BY <1>1 DEF GrammarStart
<1> DEFINE m == GrammarStart(t) + 1
<1>3. m \in Int /\ Len(t) \in Int /\ \A i \in m..Len(t) : t[i] \in Tokens
  BY <1>2
<1> HIDE DEF m
<1>4. /\ SubSeq(t, m, Len(t)) \in Seq(Tokens)
      /\ Len(SubSeq(t, m, Len(t))) = IF m <= Len(t) THEN Len(t) - m + 1 ELSE 0
  BY <1>3, SubSeqProperties
<1> QED
  BY <1>2, <1>4 DEF GrammarTokens, m

LEMMA KindType ==
  ASSUME NEW b
  PROVE  Kind(b) \in {"clean", "completed", "cut", "salvaged"}
BY DEF Kind

\* What the filter keeps of a block is a prefix of it, and all of it unless the
\* block ends the request.
LEMMA KeptType ==
  ASSUME NEW b \in Blocks
  PROVE  /\ Kept(b) \in Seq(Tokens)
         /\ Len(Kept(b)) <= Len(b.tokens)
         /\ Kind(b) \in {"clean", "salvaged"} => Kept(b) = b.tokens
<1> DEFINE g == GrammarTokens(b.tokens)
           n == GrammarStart(b.tokens) + Probe(matched, g)
<1>1. b.tokens \in Seq(Tokens)
  BY DEF Blocks
<1>2. /\ GrammarStart(b.tokens) \in 0..Len(b.tokens)
      /\ g \in Seq(Tokens)
      /\ Len(g) = Len(b.tokens) - GrammarStart(b.tokens)
  BY <1>1, GrammarTokensType
<1>3. Probe(matched, g) \in 0..Len(g)
  BY <1>2, ProbeType
<1>4. n \in 0..Len(b.tokens)
  BY <1>1, <1>2, <1>3
<1>5. Take(b.tokens, n) \in Seq(Tokens) /\ Len(Take(b.tokens, n)) = n
  <2> HIDE DEF n
  <2> QED
    BY <1>1, <1>4, TakeType
<1>6. CASE Kind(b) \in {"completed", "cut"}
  <2>1. Kept(b) = Take(b.tokens, n)
    BY <1>6 DEF Kept
  <2> HIDE DEF n
  <2> QED
    BY <1>1, <1>4, <1>5, <1>6, <2>1
<1>7. CASE Kind(b) \notin {"completed", "cut"}
  BY <1>1, <1>7 DEF Kept
<1> QED
  BY <1>6, <1>7

\* The commit loop goes through at least one token and at most all, and stops
\* no later than the token after the budget.
LEMMA CommittedType ==
  ASSUME NEW b \in Blocks, Kept(b) # <<>>, Budget(b) \in Nat \cup {Off}
  PROVE  /\ Committed(b) \in 1..Len(Kept(b))
         /\ Budget(b) # Off => Committed(b) <= Budget(b) + 1
<1> DEFINE L == Len(Kept(b))
           ends == {n \in 1..L : CapAt(b, n) \/ SignatureAt(b, n) \/ StopAt(b, n)}
<1>1. L \in Nat \ {0}
  BY KeptType, EmptySeq
<1>2. ends \in SUBSET Nat /\ ends \subseteq 1..L
  OBVIOUS
<1>3. Budget(b) # Off /\ L > Budget(b) => Budget(b) + 1 \in ends
  BY <1>1 DEF CapAt, Off
<1>4. CASE ends = {}
  <2>1. Committed(b) = L
    BY <1>4 DEF Committed
  <2> QED
    BY <1>1, <1>3, <1>4, <2>1
<1>5. CASE ends # {}
  <2>1. Committed(b) = Min(ends)
    BY <1>5 DEF Committed
  <2> HIDE DEF ends
  <2>2. Min(ends) \in ends /\ \A y \in ends : Min(ends) <= y
    BY <1>2, <1>5, MinOfNats
  <2>3. Committed(b) \in 1..L
    BY <1>2, <2>1, <2>2
  <2>4. ASSUME Budget(b) # Off
        PROVE  Committed(b) <= Budget(b) + 1
    <3>1. Budget(b) \in Nat
      BY <2>4
    <3>2. CASE L > Budget(b)
      BY <1>3, <2>1, <2>2, <2>4, <3>2
    <3>3. CASE ~(L > Budget(b))
      BY <1>1, <2>3, <3>1, <3>3
    <3> QED
      BY <3>2, <3>3
  <2> QED
    BY <2>3, <2>4
<1> QED
  BY <1>4, <1>5

LEMMA BudgetType ==
  ASSUME TypeOK, NEW b
  PROVE  Budget(b) \in Nat \cup {Off}
BY CommitAssumption DEF TypeOK, Budget

LEMMA WatchType ==
  ASSUME TypeOK, NEW b
  PROVE  Watch(b) \in BOOLEAN
BY CommitAssumption DEF TypeOK, Watch

LEMMA LastTokensType ==
  ASSUME NEW T, NEW t \in Seq(T), NEW n \in Nat
  PROVE  LastTokens(t, n) \in Seq(T)
<1> DEFINE m == Max({1, Len(t) - n + 1})
<1>1. Len(t) \in Nat /\ m \in Nat \ {0}
  BY MaxOfPair
<1>2. \A i \in m..Len(t) : t[i] \in T
  BY <1>1
<1> HIDE DEF m
<1>3. SubSeq(t, m, Len(t)) \in Seq(T)
  BY <1>1, <1>2, SubSeqProperties
<1> QED
  BY <1>3 DEF LastTokens, m

LEMMA CleanCutType ==
  ASSUME NEW T, NEW t \in Seq(T)
  PROVE  CleanCut(t) \in Nat
<1> DEFINE tail  == LastTokens(t, TailWindow)
           opens == {i \in DOMAIN tail : tail[i] \in Opens}
           size  == Len(tail) - Max(opens) + 1
<1>1. tail \in Seq(T)
  BY WatchAssumption, LastTokensType
<1>2. Len(tail) \in Nat /\ opens \in SUBSET (0..Len(tail))
  BY <1>1
<1>3. ASSUME opens # {}
      PROVE  size \in Nat
  <2> HIDE DEF opens, tail
  <2>1. Max(opens) \in opens
    BY <1>2, <1>3, MaxOfNats
  <2>2. Max(opens) \in 0..Len(tail)
    BY <1>2, <2>1
  <2> QED
    BY <1>2, <2>2
<1>4. ASSUME opens # {}
      PROVE  Min({size, MaxBack}) \in Nat
  <2> HIDE DEF size
  <2>1. size \in Nat
    BY <1>3, <1>4
  <2>2. MaxBack \in Nat
    BY WatchAssumption
  <2>3. size \in Int /\ MaxBack \in Int
    BY <2>1, <2>2
  <2>4. Min({size, MaxBack}) = IF size <= MaxBack THEN size ELSE MaxBack
    BY <2>3, MinOfPair
  <2> QED
    BY <2>1, <2>2, <2>4
<1>5. CleanCut(t) = 0 \/ (opens # {} /\ CleanCut(t) = Min({size, MaxBack}))
  BY DEF CleanCut
<1> QED
  BY <1>4, <1>5

LEMMA CountersType ==
  ASSUME TypeOK, NEW b
  PROVE  /\ NextStreaks(b) \in [Signatures -> Nat]
         /\ NextTotals(b) \in [Signatures -> Nat]
         /\ NextRepStreak(b) \in Nat
BY DEF TypeOK, NextStreaks, NextTotals, NextRepStreak

-------------------------------------------------------------------------------
(* What Keep does to the output. *)

\* The output grows by a prefix of what is kept of the block.
LEMMA KeepExtends ==
  ASSUME NEW o \in Seq(Tokens), NEW k \in Seq(Tokens),
         NEW cut \in Len(o)..(Len(o) + Len(k))
  PROVE  /\ Take(o \o k, cut) \in Seq(Tokens)
         /\ Len(Take(o \o k, cut)) = cut
         /\ IsPrefix(o, Take(o \o k, cut))
         /\ Take(k, cut - Len(o)) \in Seq(Tokens)
<1> DEFINE c == o \o k
           r == Take(c, cut)
<1>1. /\ c \in Seq(Tokens)
      /\ Len(c) = Len(o) + Len(k)
      /\ \A i \in 1..Len(o) : c[i] = o[i]
  BY ConcatProperties
<1> HIDE DEF c
<1>2. cut \in 0..Len(c) /\ cut - Len(o) \in 0..Len(k)
  BY <1>1
<1>3. /\ r \in Seq(Tokens)
      /\ Len(r) = cut
      /\ \A i \in 1..cut : r[i] = c[i]
  BY <1>1, <1>2, TakeType
<1>4. Take(k, cut - Len(o)) \in Seq(Tokens)
  BY <1>2, TakeType
<1> HIDE DEF r
<1>5. /\ Len(o) \in 0..Len(r) /\ Len(o) <= Len(r)
      /\ \A i \in 1..Len(o) : r[i] = o[i]
  BY <1>1, <1>3
<1>6. Take(r, Len(o)) = Take(o, Len(o))
  <2>1. /\ Take(r, Len(o)) \in Seq(Tokens)
        /\ Len(Take(r, Len(o))) = Len(o)
        /\ \A i \in 1..Len(o) : Take(r, Len(o))[i] = r[i]
    BY <1>3, <1>5, TakeType
  <2>2. Len(o) \in 0..Len(o)
    OBVIOUS
  <2>3. /\ Take(o, Len(o)) \in Seq(Tokens)
        /\ Len(Take(o, Len(o))) = Len(o)
        /\ \A i \in 1..Len(o) : Take(o, Len(o))[i] = o[i]
    BY <2>2, TakeType
  <2> QED
    BY <1>5, <2>1, <2>3
<1>7. IsPrefix(o, r)
  BY <1>5, <1>6 DEF IsPrefix, Take
<1> QED
  BY <1>3, <1>4, <1>7 DEF r, c

\* A step of the handler that ends with Keep preserves the types, and takes
\* nothing back from the output.
LEMMA KeepType ==
  ASSUME TypeOK, flight # <<>>, NEW b \in Blocks, Kept(b) # <<>>,
         NEW cut \in Len(out)..(Len(out) + Len(Kept(b))),
         NEW how \in {"none", "completed", "cut", "cap", "signature", "stop",
                     "soup", "repetition"},
         Keep(b, cut, how),
         streaks' \in [Signatures -> Nat],
         totals' \in [Signatures -> Nat],
         repStreak' \in Nat
  PROVE  TypeOK' /\ IsPrefix(out, out')
<1> DEFINE tokens   == Take(Kept(b), cut - Len(out))
           g        == GrammarTokens(tokens)
           live     == enforce /\ Kind(b) # "salvaged"
           rejected == live /\ g # <<>> /\ ~AcceptsTokens(matched, g)
<1>1. Kept(b) \in Seq(Tokens) /\ out \in Seq(Tokens) /\ matched \in Seq(Tokens)
  BY KeptType DEF TypeOK
<1>2. /\ out' \in Seq(Tokens)
      /\ IsPrefix(out, out')
      /\ tokens \in Seq(Tokens)
  BY <1>1, KeepExtends DEF Keep
<1> HIDE DEF tokens
<1>3. g \in Seq(Tokens)
  BY <1>2, GrammarTokensType
<1> HIDE DEF g
<1>4. matched' \in Seq(Tokens)
  <2>1. Advanced(matched, g) \in Seq(Tokens)
    BY <1>1, <1>3, AdvancedType
  <2>2. matched' = IF live THEN Advanced(matched, g) ELSE matched
    BY DEF Keep, g, tokens
  <2> QED
    BY <1>1, <2>1, <2>2
<1>5. flight' \in Seq(Blocks)
  <2>1. flight \in Seq(Blocks)
    BY DEF TypeOK
  <2>2. flight' = Tail(flight)
    BY DEF Keep
  <2> QED
    BY <2>1, <2>2, HeadTailProperties
<1>6. reasoning' \in BOOLEAN /\ enforce' \in BOOLEAN
  BY DEF Keep
<1>7. abandoned' \in Nat \cup {Off}
  <2>1. abandoned' = IF enforce /\ ~enforce' THEN Len(out) ELSE abandoned
    BY DEF Keep
  <2> QED
    BY <2>1, <1>1 DEF TypeOK
<1>8. /\ status' \in {"running", "stopped", "error"}
      /\ ending' \in {"rejected", how}
  <2>1. /\ status' = IF rejected /\ ~GrammarSalvage THEN "error"
                     ELSE IF how = "none" THEN "running" ELSE "stopped"
        /\ ending' = IF rejected /\ ~GrammarSalvage THEN "rejected" ELSE how
    BY DEF Keep, g, tokens
  <2> HIDE DEF rejected
  <2> QED
    BY <2>1
<1>9. budget' \in Nat \cup {Off}
  <2>1. budget' = IF Budget(b) = Off THEN Off ELSE Budget(b) - Committed(b)
    BY DEF Keep
  <2>2. Budget(b) \in Nat \cup {Off}
    BY BudgetType
  <2>3. /\ Committed(b) \in 1..Len(Kept(b))
        /\ Budget(b) # Off => Committed(b) <= Budget(b) + 1
    BY <2>2, CommittedType
  <2>4. CASE Budget(b) = Off
    BY <2>1, <2>4
  <2>5. CASE Budget(b) # Off
    <3>1. Budget(b) \in Nat /\ Committed(b) \in Nat /\ Committed(b) <= Budget(b) + 1
      BY <2>2, <2>3, <2>5, <1>1
    <3>2. budget' = Budget(b) - Committed(b)
      BY <2>1, <2>5
    <3> QED
      BY <3>1, <3>2 DEF Off
  <2> QED
    BY <2>4, <2>5
<1>10. sigWatch' \in BOOLEAN
  BY WatchType DEF Keep
<1>11. worker' \in Seq(Tokens)
  BY DEF Keep, TypeOK
<1>12. ending' \in {"none", "oov", "completed", "cut", "cap", "signature", "stop",
                   "soup", "repetition", "rejected"}
  BY <1>8
<1> QED
  BY <1>2, <1>4, <1>5, <1>6, <1>7, <1>8, <1>9, <1>10, <1>11, <1>12 DEF TypeOK

-------------------------------------------------------------------------------
(* The actions. *)

\* The cut of a trim lies within the block that is committed.
LEMMA FlooredCutType ==
  ASSUME TypeOK, NEW n \in Nat
  PROVE  FlooredCut(n) \in Len(out)..(Len(out) + n)
<1>1. Len(out) \in Nat /\ CutBack \in Nat
  BY CommitAssumption DEF TypeOK
<1>2. FlooredCut(n) = IF Len(out) >= Len(out) + n - CutBack
                      THEN Len(out) ELSE Len(out) + n - CutBack
  BY <1>1, MaxOfPair DEF FlooredCut
<1> QED
  BY <1>1, <1>2

LEMMA CapCutType ==
  ASSUME TypeOK, NEW n \in Nat, NEW t \in Seq(Tokens)
  PROVE  Len(out) + n - Min({CleanCut(t), n}) \in Len(out)..(Len(out) + n)
<1>1. Len(out) \in Nat /\ CleanCut(t) \in Nat
  BY CleanCutType DEF TypeOK
<1>2. Min({CleanCut(t), n}) = IF CleanCut(t) <= n THEN CleanCut(t) ELSE n
  BY <1>1, MinOfPair
<1> QED
  BY <1>1, <1>2

\* The output with a part of the block.
LEMMA AfterType ==
  ASSUME TypeOK, NEW b \in Blocks, NEW n \in 0..Len(Kept(b))
  PROVE  After(b, n) \in Seq(Tokens)
<1>1. out \in Seq(Tokens) /\ Kept(b) \in Seq(Tokens)
  BY KeptType DEF TypeOK
<1>2. Take(Kept(b), n) \in Seq(Tokens)
  BY <1>1, TakeType
<1> QED
  BY <1>1, <1>2, ConcatProperties DEF After

\* Every outcome of update_from_output preserves the types and takes nothing
\* back from the output.
LEMMA HandlerType ==
  ASSUME TypeOK, UpdateFromOutput
  PROVE  TypeOK' /\ IsPrefix(out, out')
<1> DEFINE b == Head(flight)
           L == Len(Kept(b))
<1>1. flight \in Seq(Blocks) /\ flight # <<>> /\ out \in Seq(Tokens)
  BY DEF TypeOK, UpdateFromOutput
<1>2. b \in Blocks /\ Tail(flight) \in Seq(Blocks)
  BY <1>1, HeadTailProperties
<1>3. FinishOov(b) \/ FinishEmpty(b) \/ FinishCap(b) \/ FinishSignature(b)
        \/ FinishStop(b) \/ FinishSoup(b) \/ FinishRepetition(b) \/ Commit(b)
  BY DEF UpdateFromOutput
<1> HIDE DEF b
<1>4. /\ streaks \in [Signatures -> Nat] /\ NextStreaks(b) \in [Signatures -> Nat]
      /\ totals \in [Signatures -> Nat] /\ NextTotals(b) \in [Signatures -> Nat]
      /\ repStreak \in Nat /\ NextRepStreak(b) \in Nat
  BY CountersType DEF TypeOK
<1>5. IsPrefix(out, out)
  BY <1>1 DEF IsPrefix
<1>6. Kept(b) \in Seq(Tokens) /\ L \in Nat /\ Len(out) \in Nat
  BY <1>1, <1>2, KeptType
<1>7. ASSUME Committable(b)
      PROVE  /\ Kept(b) # <<>>
             /\ Committed(b) \in Nat /\ Committed(b) <= L
  <2>1. Kept(b) # <<>>
    BY <1>7 DEF Committable
  <2>2. Budget(b) \in Nat \cup {Off}
    BY BudgetType
  <2>3. Committed(b) \in 1..L
    BY <1>2, <2>1, <2>2, CommittedType
  <2> QED
    BY <1>6, <2>1, <2>3
<1> HIDE DEF L
<1>8. CASE FinishOov(b)
  BY <1>2, <1>5, <1>8 DEF FinishOov, TypeOK, guardVars, tripwireVars, b
<1>9. CASE FinishEmpty(b)
  <2>1. /\ UNCHANGED <<worker, out, matcherVars, guardVars, tripwireVars>>
        /\ flight' = Tail(flight) /\ status' = "stopped" /\ ending' = Kind(b)
        /\ Kept(b) = <<>>
    BY <1>9 DEF FinishEmpty, b
  <2>2. Kind(b) \in {"completed", "cut"}
    <3>1. b.tokens # <<>>
      BY <1>2 DEF Blocks
    <3>2. Kind(b) \notin {"clean", "salvaged"}
      BY <1>2, <2>1, <3>1, KeptType
    <3> QED
      BY <3>2, KindType
  <2> QED
    BY <1>2, <1>5, <2>1, <2>2
       DEF TypeOK, matcherVars, guardVars, tripwireVars
<1>10. CASE FinishCap(b)
  <2> DEFINE n == Committed(b)
             cut == Len(out) + n - Min({CleanCut(After(b, n)), n})
  <2>1. Committable(b) /\ Keep(b, cut, "cap") /\ UNCHANGED tripwireVars
    BY <1>10 DEF FinishCap
  <2>2. n \in Nat /\ n <= L /\ Kept(b) # <<>>
    BY <2>1, <1>7
  <2>3. After(b, n) \in Seq(Tokens)
    BY <1>2, <1>6, <2>2, AfterType DEF L
  <2> HIDE DEF n
  <2>4. cut \in Len(out)..(Len(out) + n)
    BY <2>2, <2>3, CapCutType
  <2> HIDE DEF cut
  <2>5. cut \in Len(out)..(Len(out) + Len(Kept(b)))
    BY <1>6, <2>2, <2>4 DEF L
  <2> QED
    BY <1>1, <1>2, <1>4, <2>1, <2>2, <2>5, KeepType DEF tripwireVars
<1>11. CASE FinishSignature(b)
  <2> DEFINE n == Committed(b)
             cut == FlooredCut(n)
  <2>1. Committable(b) /\ Keep(b, cut, "signature") /\ UNCHANGED tripwireVars
    BY <1>11 DEF FinishSignature
  <2>2. n \in Nat /\ n <= L /\ Kept(b) # <<>>
    BY <2>1, <1>7
  <2> HIDE DEF n
  <2>4. cut \in Len(out)..(Len(out) + n)
    BY <2>2, FlooredCutType
  <2> HIDE DEF cut
  <2>5. cut \in Len(out)..(Len(out) + Len(Kept(b)))
    BY <1>6, <2>2, <2>4 DEF L
  <2> QED
    BY <1>1, <1>2, <1>4, <2>1, <2>2, <2>5, KeepType DEF tripwireVars
<1>12. CASE FinishStop(b)
  <2> DEFINE n == Committed(b)
             cut == Len(out) + n
  <2>1. Committable(b) /\ Keep(b, cut, "stop") /\ UNCHANGED tripwireVars
    BY <1>12 DEF FinishStop
  <2>2. n \in Nat /\ n <= L /\ Kept(b) # <<>>
    BY <2>1, <1>7
  <2> HIDE DEF n
  <2>5. cut \in Len(out)..(Len(out) + Len(Kept(b)))
    BY <1>6, <2>2 DEF L
  <2> HIDE DEF cut
  <2> QED
    BY <1>1, <1>2, <1>4, <2>1, <2>2, <2>5, KeepType DEF tripwireVars
<1>13. CASE FinishSoup(b)
  <2> DEFINE cut == FlooredCut(Len(Kept(b)))
  <2>1. /\ Committable(b) /\ Keep(b, cut, "soup")
        /\ streaks' = NextStreaks(b) /\ totals' = NextTotals(b)
        /\ repStreak' = repStreak
    BY <1>13 DEF FinishSoup
  <2>2. Kept(b) # <<>>
    BY <2>1, <1>7
  <2>5. cut \in Len(out)..(Len(out) + Len(Kept(b)))
    BY <1>6, FlooredCutType DEF L
  <2> HIDE DEF cut
  <2> QED
    BY <1>1, <1>2, <1>4, <2>1, <2>2, <2>5, KeepType
<1>14. CASE FinishRepetition(b)
  <2>1. /\ Committable(b) /\ Keep(b, Len(out), "repetition")
        /\ streaks' = NextStreaks(b) /\ totals' = NextTotals(b)
        /\ repStreak' = NextRepStreak(b)
    BY <1>14 DEF FinishRepetition
  <2>2. Kept(b) # <<>>
    BY <2>1, <1>7
  <2>5. Len(out) \in Len(out)..(Len(out) + Len(Kept(b)))
    BY <1>6 DEF L
  <2> QED
    BY <1>1, <1>2, <1>4, <2>1, <2>2, <2>5, KeepType
<1>15. CASE Commit(b)
  <2> DEFINE cut == Len(out) + Len(Kept(b))
             how == IF Kind(b) \in {"completed", "cut"} THEN Kind(b) ELSE "none"
  <2>1. /\ Committable(b) /\ Keep(b, cut, how)
        /\ streaks' = NextStreaks(b) /\ totals' = NextTotals(b)
        /\ repStreak' = NextRepStreak(b)
    BY <1>15 DEF Commit
  <2>2. Kept(b) # <<>>
    BY <2>1, <1>7
  <2>3. how \in {"none", "completed", "cut", "cap", "signature", "stop",
                 "soup", "repetition"}
    OBVIOUS
  <2>5. cut \in Len(out)..(Len(out) + Len(Kept(b)))
    BY <1>6 DEF L
  <2> HIDE DEF cut, how
  <2> QED
    BY <1>1, <1>2, <1>4, <2>1, <2>2, <2>3, <2>5, KeepType
<1> QED
  BY <1>3, <1>8, <1>9, <1>10, <1>11, <1>12, <1>13, <1>14, <1>15

\* A sampled block extends the worker's history.
LEMMA SampleType ==
  ASSUME TypeOK, NEW k \in {0, NumSpec}, NEW m \in 1..(k + 1), NEW view,
         Sample(k, m, view)
  PROVE  /\ TypeOK'
         /\ \E b \in Blocks : /\ b.at = Len(worker)
                             /\ worker' = worker \o b.tokens
                             /\ flight' = Append(flight, b)
         /\ UNCHANGED <<status, out>>
<1>1. PICK d \in [1..k -> Tokens \ Oov], t \in Tokens :
        LET b == [spec |-> k > 0, tokens |-> Append(Take(d, m - 1), t),
                  at |-> Len(worker)]
        IN  worker' = worker \o b.tokens /\ flight' = Append(flight, b)
  BY DEF Sample
<1> DEFINE b == [spec |-> k > 0, tokens |-> Append(Take(d, m - 1), t),
                 at |-> Len(worker)]
<1>2. k \in Nat /\ m - 1 \in 0..k
  BY CommitAssumption
<1>3. d \in Seq(Tokens) /\ Len(d) = k
  <2>1. d \in Seq(Tokens \ Oov) /\ Len(d) = k
    BY <1>2
  <2> QED
    BY <2>1
<1>4. Take(d, m - 1) \in Seq(Tokens)
  BY <1>2, <1>3, TakeType
<1>5. b.tokens \in Seq(Tokens) \ {<<>>}
  BY <1>4, AppendProperties
<1>6. worker \in Seq(Tokens) /\ flight \in Seq(Blocks)
  BY DEF TypeOK
<1>7. b \in Blocks
  BY <1>2, <1>5, <1>6 DEF Blocks
<1>8. b.at = Len(worker)
  OBVIOUS
<1>9. worker' = worker \o b.tokens /\ flight' = Append(flight, b)
  BY <1>1
<1> HIDE DEF b
<1>10. worker' \in Seq(Tokens) /\ flight' \in Seq(Blocks)
  BY <1>5, <1>6, <1>7, <1>9, ConcatProperties, AppendProperties
<1>11. UNCHANGED <<status, ending, out, matcherVars, guardVars, tripwireVars>>
  BY DEF Sample
<1>12. TypeOK'
  BY <1>10, <1>11 DEF TypeOK, matcherVars, guardVars, tripwireVars
<1> QED
  BY <1>7, <1>8, <1>9, <1>11, <1>12

-------------------------------------------------------------------------------
(* The two histories. *)

\* Part of a sequence is the same part of an extension of it.
LEMMA PartOfExtension ==
  ASSUME NEW T, NEW s \in Seq(T), NEW e \in Seq(T),
         NEW m \in Nat \ {0}, NEW n \in 0..Len(s)
  PROVE  SubSeq(s \o e, m, n) = SubSeq(s, m, n)
<1> DEFINE c == s \o e
<1>1. /\ c \in Seq(T) /\ Len(c) = Len(s) + Len(e)
      /\ \A i \in 1..Len(s) : c[i] = s[i]
  BY ConcatProperties
<1> HIDE DEF c
<1>2. \A i \in m..n : s[i] \in T /\ c[i] \in T /\ c[i] = s[i]
  BY <1>1
<1>3. /\ SubSeq(s, m, n) \in Seq(T)
      /\ Len(SubSeq(s, m, n)) = IF m <= n THEN n - m + 1 ELSE 0
      /\ \A i \in 1..(n - m + 1) : SubSeq(s, m, n)[i] = s[m + i - 1]
  BY <1>2, SubSeqProperties
<1>4. /\ SubSeq(c, m, n) \in Seq(T)
      /\ Len(SubSeq(c, m, n)) = IF m <= n THEN n - m + 1 ELSE 0
      /\ \A i \in 1..(n - m + 1) : SubSeq(c, m, n)[i] = c[m + i - 1]
  BY <1>2, SubSeqProperties
<1>5. \A i \in 1..Len(SubSeq(c, m, n)) : SubSeq(c, m, n)[i] = SubSeq(s, m, n)[i]
  BY <1>2, <1>3, <1>4
<1> QED
  BY <1>3, <1>4, <1>5, SeqEqual DEF c

\* What follows a sequence in an extension of it.
LEMMA RestOfExtension ==
  ASSUME NEW T, NEW s \in Seq(T), NEW e \in Seq(T)
  PROVE  SubSeq(s \o e, Len(s) + 1, Len(s) + Len(e)) = e
<1> DEFINE c == s \o e
           m == Len(s) + 1
           n == Len(s) + Len(e)
<1>1. /\ c \in Seq(T) /\ Len(c) = n
      /\ \A i \in 1..Len(e) : c[m + i - 1] = e[i]
  BY ConcatProperties
<1>2. m \in Nat /\ n \in Nat /\ n - m + 1 = Len(e)
  OBVIOUS
<1> HIDE DEF c, m, n
<1>3. \A i \in m..n : c[i] \in T
  BY <1>1, <1>2 DEF m, n
<1>4. /\ SubSeq(c, m, n) \in Seq(T)
      /\ Len(SubSeq(c, m, n)) = IF m <= n THEN n - m + 1 ELSE 0
      /\ \A i \in 1..(n - m + 1) : SubSeq(c, m, n)[i] = c[m + i - 1]
  BY <1>2, <1>3, SubSeqProperties
<1>5. Len(SubSeq(c, m, n)) = Len(e)
  BY <1>2, <1>4
<1>6. \A i \in 1..Len(e) : SubSeq(c, m, n)[i] = e[i]
  BY <1>1, <1>2, <1>4
<1> QED
  BY <1>4, <1>5, <1>6, SeqEqual DEF c, m, n

\* A block that is sampled ends the worker's history.
LEMMA SampleKeepsHistories ==
  ASSUME IInv, NEW b \in Blocks, status = "running",
         b.at = Len(worker), worker' = worker \o b.tokens,
         flight' = Append(flight, b), UNCHANGED <<status, out>>
  PROVE  FlightInHistory' /\ HistoriesAgree'
<1>1. /\ worker \in Seq(Tokens) /\ flight \in Seq(Blocks) /\ out \in Seq(Tokens)
      /\ b.tokens \in Seq(Tokens) /\ b.tokens # <<>>
  BY DEF IInv, TypeOK, Blocks
<1>2. /\ flight' \in Seq(Blocks) /\ flight' # <<>>
      /\ Len(flight') = Len(flight) + 1
      /\ \A i \in 1..Len(flight) : flight'[i] = flight[i]
      /\ flight'[Len(flight) + 1] = b
  BY <1>1, AppendProperties
<1>3. Len(worker') = Len(worker) + Len(b.tokens)
  BY <1>1, ConcatProperties
<1>4. \A i \in 1..Len(flight) : flight[i].at \in 0..Len(worker)
  <2>1. \A i \in 1..Len(flight) : flight[i] \in Blocks /\ flight[i].at <= Len(worker)
    BY <1>1 DEF IInv, FlightInHistory
  <2> QED
    BY <1>1, <2>1 DEF Blocks
<1>5. FlightInHistory'
  <2> SUFFICES ASSUME NEW i \in 1..Len(flight')
               PROVE  flight'[i].at <= Len(worker')
    BY DEF FlightInHistory
  <2> QED
    BY <1>1, <1>2, <1>3, <1>4
<1>6. Len(out) \in 0..Len(worker) /\ out = Take(worker, Len(out))
  <2>1. out = Take(worker, Len(out)) /\ (flight = <<>> => out = worker)
    BY DEF IInv, HistoriesAgree
  <2>2. flight # <<>> => Len(flight) \in Nat \ {0} /\ flight[1].at = Len(out)
    BY <1>1, EmptySeq DEF IInv, HistoriesAgree
  <2>3. Len(out) \in Nat /\ Len(worker) \in Nat
    BY <1>1
  <2>4. flight # <<>> => Len(out) <= Len(worker)
    BY <1>4, <2>2
  <2> QED
    BY <2>1, <2>3, <2>4
<1>7. out = Take(worker', Len(out))
  <2>1. SubSeq(worker \o b.tokens, 1, Len(out)) = SubSeq(worker, 1, Len(out))
    BY <1>1, <1>6, PartOfExtension
  <2> QED
    BY <1>6, <2>1 DEF Take
<1>8. ASSUME NEW i \in 1..Len(flight')
      PROVE  LET c    == flight'[i]
                 next == IF i = Len(flight') THEN Len(worker') ELSE flight'[i + 1].at
             IN  /\ i = 1 => c.at = Len(out)
                 /\ c.tokens = SubSeq(worker', c.at + 1, next)
  <2>1. CASE i = Len(flight) + 1
    <3>1. i = 1 => b.at = Len(out)
      <4>1. i = 1 => flight = <<>>
        BY <1>1, <2>1
      <4> QED
        BY <4>1 DEF IInv, HistoriesAgree
    <3>2. b.tokens = SubSeq(worker', Len(worker) + 1, Len(worker'))
      <4>1. SubSeq(worker \o b.tokens, Len(worker) + 1, Len(worker) + Len(b.tokens))
              = b.tokens
        BY <1>1, RestOfExtension
      <4> QED
        BY <4>1, <1>3
    <3> QED
      BY <1>2, <2>1, <3>1, <3>2
  <2>2. CASE i \in 1..Len(flight)
    <3> DEFINE next == IF i = Len(flight) THEN Len(worker) ELSE flight[i + 1].at
    <3>1. /\ i = 1 => flight[i].at = Len(out)
          /\ flight[i].tokens = SubSeq(worker, flight[i].at + 1, next)
      BY <2>2 DEF IInv, HistoriesAgree
    <3>2. next \in 0..Len(worker) /\ flight[i].at \in Nat
      BY <1>1, <1>4, <2>2
    <3>3. next = IF i = Len(flight') THEN Len(worker') ELSE flight'[i + 1].at
      <4>1. CASE i = Len(flight)
        BY <1>1, <1>2, <4>1
      <4>2. CASE i # Len(flight)
        <5>1. i + 1 \in 1..Len(flight) /\ i # Len(flight')
          BY <1>1, <1>2, <2>2, <4>2
        <5> QED
          BY <1>2, <4>2, <5>1
      <4> QED
        BY <4>1, <4>2
    <3> DEFINE first == flight[i].at + 1
    <3>4. first \in Nat \ {0}
      BY <3>2
    <3> HIDE DEF next, first
    <3>5. SubSeq(worker \o b.tokens, first, next) = SubSeq(worker, first, next)
      BY <1>1, <3>2, <3>4, PartOfExtension
    <3> QED
      BY <1>2, <2>2, <3>1, <3>3, <3>5 DEF first
  <2>3. i = Len(flight) + 1 \/ i \in 1..Len(flight)
    <3>1. Len(flight) \in Nat /\ i \in 1..(Len(flight) + 1)
      BY <1>1, <1>2
    <3> QED
      BY <3>1
  <2> QED
    BY <2>1, <2>2, <2>3
<1>9. HistoriesAgree'
  BY <1>2, <1>7, <1>8 DEF HistoriesAgree
<1> QED
  BY <1>5, <1>9

\* Whatever becomes of a block, it leaves the flight; and when the request goes
\* on, all of its tokens are in the output.
LEMMA HandlerConsumes ==
  ASSUME TypeOK, UpdateFromOutput
  PROVE  /\ worker' = worker
         /\ flight' = Tail(flight)
         /\ status' = "running" => out' = out \o Head(flight).tokens
<1> DEFINE b == Head(flight)
<1>1. flight \in Seq(Blocks) /\ flight # <<>> /\ out \in Seq(Tokens)
  BY DEF TypeOK, UpdateFromOutput
<1>2. b \in Blocks
  BY <1>1, HeadTailProperties
<1>3. FinishOov(b) \/ FinishEmpty(b) \/ FinishCap(b) \/ FinishSignature(b)
        \/ FinishStop(b) \/ FinishSoup(b) \/ FinishRepetition(b) \/ Commit(b)
  BY DEF UpdateFromOutput
<1>4. ASSUME NEW cut, NEW how, Keep(b, cut, how)
      PROVE  /\ worker' = worker /\ flight' = Tail(flight)
             /\ out' = Take(out \o Kept(b), cut)
             /\ status' = "running" => how = "none"
  BY <1>4 DEF Keep
<1> HIDE DEF b
<1>5. CASE FinishOov(b)
  BY <1>5 DEF FinishOov, b
<1>6. CASE FinishEmpty(b)
  BY <1>6 DEF FinishEmpty, b
<1>7. CASE FinishCap(b)
  <2>1. PICK cut : Keep(b, cut, "cap")
    BY <1>7 DEF FinishCap
  <2> QED
    BY <2>1, <1>4
<1>8. CASE FinishSignature(b)
  <2>1. PICK cut : Keep(b, cut, "signature")
    BY <1>8 DEF FinishSignature
  <2> QED
    BY <2>1, <1>4
<1>9. CASE FinishStop(b)
  <2>1. PICK cut : Keep(b, cut, "stop")
    BY <1>9 DEF FinishStop
  <2> QED
    BY <2>1, <1>4
<1>10. CASE FinishSoup(b)
  <2>1. PICK cut : Keep(b, cut, "soup")
    BY <1>10 DEF FinishSoup
  <2> QED
    BY <2>1, <1>4
<1>11. CASE FinishRepetition(b)
  <2>1. PICK cut : Keep(b, cut, "repetition")
    BY <1>11 DEF FinishRepetition
  <2> QED
    BY <2>1, <1>4
<1>12. CASE Commit(b)
  <2> DEFINE how == IF Kind(b) \in {"completed", "cut"} THEN Kind(b) ELSE "none"
             cut == Len(out) + Len(Kept(b))
  <2>1. Keep(b, cut, how)
    BY <1>12 DEF Commit
  <2>2. how = "none" => Kind(b) \in {"clean", "salvaged"}
    BY KindType
  <2>3. Kept(b) \in Seq(Tokens) /\ (how = "none" => Kept(b) = b.tokens)
    BY <1>2, <2>2, KeptType
  <2>4. Take(out \o Kept(b), cut) = out \o Kept(b)
    <3>1. /\ out \o Kept(b) \in Seq(Tokens)
          /\ Len(out \o Kept(b)) = cut
      BY <1>1, <2>3, ConcatProperties
    <3> QED
      BY <3>1, SubSeqFull DEF Take
  <2> HIDE DEF how, cut
  <2> QED
    BY <1>4, <2>1, <2>3, <2>4 DEF b
<1> QED
  BY <1>3, <1>5, <1>6, <1>7, <1>8, <1>9, <1>10, <1>11, <1>12

\* The block that leaves the flight was the next part of the worker's history.
LEMMA HandlerKeepsHistories ==
  ASSUME IInv, UpdateFromOutput
  PROVE  FlightInHistory' /\ HistoriesAgree'
<1> DEFINE b == Head(flight)
<1>1. /\ TypeOK /\ FlightInHistory /\ HistoriesAgree
      /\ flight \in Seq(Blocks) /\ flight # <<>> /\ status = "running"
      /\ out \in Seq(Tokens) /\ worker \in Seq(Tokens)
  BY DEF IInv, TypeOK, UpdateFromOutput
<1>2. /\ worker' = worker
      /\ flight' = Tail(flight)
      /\ status' = "running" => out' = out \o b.tokens
  BY <1>1, HandlerConsumes
<1>3. /\ b = flight[1] /\ b \in Blocks
      /\ flight' \in Seq(Blocks)
      /\ Len(flight) \in Nat \ {0} /\ Len(flight') = Len(flight) - 1
      /\ \A i \in 1..Len(flight') : flight'[i] = flight[i + 1]
  <2>1. b = flight[1] /\ b \in Blocks
    BY <1>1, HeadTailProperties
  <2>2. /\ Tail(flight) \in Seq(Blocks) /\ Len(Tail(flight)) = Len(flight) - 1
        /\ \A i \in 1..Len(Tail(flight)) : Tail(flight)[i] = flight[i + 1]
    BY <1>1, HeadTailProperties
  <2>3. Len(flight) \in Nat \ {0}
    BY <1>1, EmptySeq
  <2> QED
    BY <1>2, <2>1, <2>2, <2>3
<1>4. FlightInHistory'
  <2> SUFFICES ASSUME NEW i \in 1..Len(flight')
               PROVE  flight'[i].at <= Len(worker')
    BY DEF FlightInHistory
  <2>1. i + 1 \in 1..Len(flight)
    BY <1>3
  <2> QED
    BY <1>1, <1>2, <1>3, <2>1 DEF FlightInHistory
<1> DEFINE next == IF 1 = Len(flight) THEN Len(worker) ELSE flight[2].at
<1>5. /\ b.at = Len(out) /\ b.tokens = SubSeq(worker, Len(out) + 1, next)
      /\ out = Take(worker, Len(out))
  <2>1. 1 \in 1..Len(flight) /\ 1 + 1 = 2
    BY <1>3
  <2>2. out = Take(worker, Len(out))
    BY <1>1 DEF HistoriesAgree
  <2>3. LET n == IF 1 = Len(flight) THEN Len(worker) ELSE flight[1 + 1].at
        IN  /\ flight[1].at = Len(out)
            /\ flight[1].tokens = SubSeq(worker, flight[1].at + 1, n)
    BY <1>1, <2>1 DEF HistoriesAgree
  <2> QED
    BY <1>3, <2>1, <2>2, <2>3
<1>6. next \in 0..Len(worker)
  <2>1. Len(flight) # 1 => flight[2] \in Blocks /\ flight[2].at <= Len(worker)
    <3>1. Len(flight) # 1 => 2 \in 1..Len(flight)
      BY <1>3
    <3> QED
      BY <1>1, <3>1 DEF FlightInHistory
  <2> QED
    BY <1>1, <2>1 DEF Blocks
<1>7. next = IF flight' = <<>> THEN Len(worker') ELSE flight'[1].at
  <2>1. flight' = <<>> <=> Len(flight) = 1
    <3>1. flight' = <<>> <=> Len(flight') = 0
      BY <1>3, EmptySeq
    <3> QED
      BY <1>3, <3>1
  <2>2. flight' # <<>> => flight'[1] = flight[2]
    <3>1. flight' # <<>> => 1 \in 1..Len(flight')
      BY <1>3, EmptySeq
    <3> QED
      BY <1>3, <3>1
  <2> QED
    BY <1>2, <2>1, <2>2
<1> HIDE DEF next
<1>8. Len(out) < next
  <2>1. SUFFICES ASSUME next < Len(out) + 1
                 PROVE  FALSE
    BY <1>1, <1>6
  <2>2. SubSeq(worker, Len(out) + 1, next) = <<>>
    BY <1>1, <1>6, <2>1, SubSeqEmpty
  <2> QED
    BY <1>3, <1>5, <2>2 DEF Blocks
<1>9. ASSUME status' = "running"
      PROVE  out' = Take(worker, next) /\ Len(out') = next
  <2>1. out' = SubSeq(worker, 1, Len(out)) \o SubSeq(worker, Len(out) + 1, next)
    BY <1>2, <1>5, <1>9 DEF Take
  <2>2. Len(out) \in 0..Len(worker) /\ next \in Len(out)..Len(worker)
    BY <1>1, <1>6, <1>8
  <2>3. out' = SubSeq(worker, 1, next)
    <3>1. 1 \in 1..(Len(worker) + 1) /\ Len(out) \in (1 - 1)..Len(worker)
      BY <1>1, <2>2
    <3> QED
      BY <1>1, <2>1, <2>2, <3>1, ConcatAdjacentSubSeq
  <2>4. Len(Take(worker, next)) = next
    BY <1>1, <1>6, TakeType
  <2> QED
    BY <2>3, <2>4 DEF Take
<1>10. ASSUME status' = "running", NEW i \in 1..Len(flight')
       PROVE  LET c == flight'[i]
                  n == IF i = Len(flight') THEN Len(worker') ELSE flight'[i + 1].at
              IN  /\ i = 1 => c.at = Len(out')
                  /\ c.tokens = SubSeq(worker', c.at + 1, n)
  <2>1. i + 1 \in 1..Len(flight)
    BY <1>3
  <2> DEFINE j == i + 1
             n == IF j = Len(flight) THEN Len(worker) ELSE flight[j + 1].at
  <2>2. flight[j].tokens = SubSeq(worker, flight[j].at + 1, n)
    BY <1>1, <2>1 DEF HistoriesAgree
  <2>3. n = IF i = Len(flight') THEN Len(worker') ELSE flight'[i + 1].at
    <3>1. CASE i = Len(flight')
      BY <1>2, <1>3, <3>1
    <3>2. CASE i # Len(flight')
      <4>1. i + 1 \in 1..Len(flight') /\ j # Len(flight)
        BY <1>3, <3>2
      <4> QED
        BY <1>3, <3>2, <4>1
    <3> QED
      BY <3>1, <3>2
  <2>4. i = 1 => flight'[i].at = Len(out')
    <3>1. flight' # <<>>
      BY <1>3
    <3> QED
      BY <1>7, <1>9, <1>10, <3>1
  <2> HIDE DEF n
  <2> QED
    BY <1>2, <1>3, <2>2, <2>3, <2>4
<1>11. HistoriesAgree'
  <2> SUFFICES ASSUME status' = "running"
               PROVE  /\ out' = Take(worker', Len(out'))
                      /\ flight' = <<>> => out' = worker'
    BY <1>10 DEF HistoriesAgree
  <2>1. out' = Take(worker', Len(out'))
    BY <1>2, <1>9
  <2>2. flight' = <<>> => out' = worker'
    <3>1. Take(worker, Len(worker)) = worker
      BY <1>1, SubSeqFull DEF Take
    <3> QED
      BY <1>2, <1>7, <1>9, <3>1
  <2> QED
    BY <2>1, <2>2
<1> QED
  BY <1>4, <1>11

-------------------------------------------------------------------------------
(* The invariant. *)

LEMMA InitInv == Init => IInv
<1> SUFFICES ASSUME Init
             PROVE  IInv
  OBVIOUS
<1>1. TypeOK
  <2>1. <<>> \in Seq(Tokens) /\ <<>> \in Seq(Blocks)
    BY EmptySeq
  <2>2. [s \in Signatures |-> 0] \in [Signatures -> Nat]
    OBVIOUS
  <2>3. Structured \in BOOLEAN /\ Reasons \in BOOLEAN
    BY CommitAssumption
  <2> QED
    BY <2>1, <2>2, <2>3 DEF Init, TypeOK
<1>2. FlightInHistory
  BY DEF Init, FlightInHistory
<1>3. HistoriesAgree
  <2>1. <<>> \in Seq(Tokens)
    OBVIOUS
  <2>2. Take(<<>>, 0) = <<>>
    BY SubSeqEmpty DEF Take
  <2> QED
    BY <2>2 DEF Init, HistoriesAgree
<1> QED
  BY <1>1, <1>2, <1>3 DEF IInv

LEMMA NextInv == IInv /\ [Next]_vars => IInv' /\ IsPrefix(out, out')
<1> SUFFICES ASSUME IInv, [Next]_vars
             PROVE  IInv' /\ IsPrefix(out, out')
  OBVIOUS
<1>1. TypeOK /\ IsPrefix(out, out)
  BY DEF IInv, TypeOK, IsPrefix
<1>2. CASE Run
  <2>1. PICK k \in {0, NumSpec}, view \in Views : \E m \in 1..(k + 1) : Sample(k, m, view)
    BY <1>2 DEF Run
  <2>2. PICK m \in 1..(k + 1) : Sample(k, m, view)
    BY <2>1
  <2>3. status = "running"
    BY <2>2 DEF Sample
  <2>4. /\ TypeOK' /\ UNCHANGED <<status, out>>
        /\ \E b \in Blocks : /\ b.at = Len(worker)
                            /\ worker' = worker \o b.tokens
                            /\ flight' = Append(flight, b)
    BY <1>1, <2>2, SampleType
  <2>5. FlightInHistory' /\ HistoriesAgree'
    BY <2>3, <2>4, SampleKeepsHistories
  <2> QED
    BY <1>1, <2>4, <2>5 DEF IInv
<1>3. CASE UpdateFromOutput
  BY <1>1, <1>3, HandlerType, HandlerKeepsHistories DEF IInv
<1>4. CASE Skip
  <2>1. /\ flight \in Seq(Blocks) /\ flight # <<>> /\ flight' = Tail(flight)
        /\ status # "running"
        /\ UNCHANGED <<worker, status, ending, out, matcherVars, guardVars, tripwireVars>>
    BY <1>1, <1>4 DEF Skip, TypeOK
  <2>2. /\ flight' \in Seq(Blocks) /\ Len(flight') = Len(flight) - 1
        /\ \A i \in 1..Len(flight') : flight'[i] = flight[i + 1]
    BY <2>1, HeadTailProperties
  <2>3. TypeOK'
    BY <1>1, <2>1, <2>2 DEF TypeOK, matcherVars, guardVars, tripwireVars
  <2>4. FlightInHistory'
    <3> SUFFICES ASSUME NEW i \in 1..Len(flight')
                 PROVE  flight'[i].at <= Len(worker')
      BY DEF FlightInHistory
    <3>1. i + 1 \in 1..Len(flight)
      BY <2>1, <2>2
    <3> QED
      BY <2>1, <2>2, <3>1 DEF IInv, FlightInHistory
  <2> QED
    BY <1>1, <2>1, <2>3, <2>4 DEF IInv, HistoriesAgree
<1>5. CASE Done \/ UNCHANGED vars
  <2>1. UNCHANGED <<worker, flight, status, out>> /\ UNCHANGED vars
    BY <1>5 DEF Done, vars
  <2>2. TypeOK'
    BY <1>1, <2>1 DEF TypeOK, vars, matcherVars, guardVars, tripwireVars
  <2> QED
    BY <1>1, <2>1, <2>2 DEF IInv, FlightInHistory, HistoriesAgree
<1> QED
  BY <1>2, <1>3, <1>4, <1>5 DEF Next

\* The invariant holds in every reachable state.
THEOREM Invariance == Spec => []IInv
<1>1. Init => IInv
  BY InitInv
<1>2. IInv /\ [Next]_vars => IInv'
  BY NextInv
<1> QED
  BY <1>1, <1>2, PTL DEF Spec

\* Every variable keeps its type, for every grammar, policy, window and budget:
\* in particular the budget never falls below the Off mark of a guard that is
\* not armed, and no counter is lost by a trim.
THEOREM TypeCorrect == Spec => []TypeOK
<1>1. IInv => TypeOK
  BY DEF IInv
<1> QED
  BY <1>1, Invariance, PTL

\* The scheduler and the workers agree on the history of every running request,
\* whatever the grammar filter, the guard and the tripwires drop (0012 30-37).
THEOREM SchedulerWorkerSync == Spec => []HistoriesAgree
<1>1. IInv => HistoriesAgree
  BY DEF IInv
<1> QED
  BY <1>1, Invariance, PTL

\* No step of the scheduler shortens or rewrites what earlier blocks committed
\* (0015 76-79, 0019 56-58).
THEOREM NothingRetracted == Spec => CommittedNeverRetracted
<1>1. IInv /\ [Next]_vars => IsPrefix(out, out')
  BY NextInv
<1>2. IInv /\ [Next]_vars => [IsPrefix(out, out')]_vars
  BY <1>1
<1> QED
  BY <1>2, Invariance, PTL DEF Spec, CommittedNeverRetracted

-------------------------------------------------------------------------------
(* Parts of sequences. *)

LEMMA TakeTake ==
  ASSUME NEW T, NEW s \in Seq(T), NEW n \in 0..Len(s), NEW k \in 0..n
  PROVE  Take(Take(s, n), k) = Take(s, k)
<1>1. /\ Take(s, n) \in Seq(T) /\ Len(Take(s, n)) = n
      /\ \A i \in 1..n : Take(s, n)[i] = s[i]
  BY TakeType
<1>2. k \in 0..Len(Take(s, n)) /\ k \in 0..Len(s)
  BY <1>1
<1>3. /\ Take(Take(s, n), k) \in Seq(T) /\ Len(Take(Take(s, n), k)) = k
      /\ \A i \in 1..k : Take(Take(s, n), k)[i] = Take(s, n)[i]
  BY <1>1, <1>2, TakeType
<1>4. /\ Take(s, k) \in Seq(T) /\ Len(Take(s, k)) = k
      /\ \A i \in 1..k : Take(s, k)[i] = s[i]
  BY <1>2, TakeType
<1> QED
  BY <1>1, <1>3, <1>4, SeqEqual

LEMMA TakeAll ==
  ASSUME NEW T, NEW s \in Seq(T)
  PROVE  Take(s, Len(s)) = s
BY SubSeqFull DEF Take

LEMMA TakeNone ==
  ASSUME NEW T, NEW s \in Seq(T)
  PROVE  Take(s, 0) = <<>>
<1>1. 0 \in 0..Len(s)
  OBVIOUS
<1>2. Take(s, 0) \in Seq(T) /\ Len(Take(s, 0)) = 0
  BY <1>1, TakeType
<1> QED
  BY <1>2, EmptySeq

\* What follows the first k items of a sequence.
LEMMA SuffixItems ==
  ASSUME NEW T, NEW s \in Seq(T), NEW k \in 0..Len(s)
  PROVE  /\ SubSeq(s, k + 1, Len(s)) \in Seq(T)
         /\ Len(SubSeq(s, k + 1, Len(s))) = Len(s) - k
         /\ \A i \in 1..(Len(s) - k) : SubSeq(s, k + 1, Len(s))[i] = s[k + i]
<1> DEFINE m == k + 1
<1>1. m \in Int /\ Len(s) \in Int /\ \A i \in m..Len(s) : s[i] \in T
  OBVIOUS
<1> HIDE DEF m
<1>2. /\ SubSeq(s, m, Len(s)) \in Seq(T)
      /\ Len(SubSeq(s, m, Len(s))) = IF m <= Len(s) THEN Len(s) - m + 1 ELSE 0
      /\ \A i \in 1..(Len(s) - m + 1) : SubSeq(s, m, Len(s))[i] = s[m + i - 1]
  BY <1>1, SubSeqProperties
<1>3. /\ SubSeq(s, m, Len(s)) \in Seq(T)
      /\ Len(SubSeq(s, m, Len(s))) = Len(s) - k
      /\ \A i \in 1..(Len(s) - k) : SubSeq(s, m, Len(s))[i] = s[k + i]
  BY <1>2 DEF m
<1> QED
  BY <1>3 DEF m

LEMMA ConcatParts ==
  ASSUME NEW T, NEW s \in Seq(T), NEW t \in Seq(T)
  PROVE  /\ s \o t \in Seq(T) /\ Len(s \o t) = Len(s) + Len(t)
         /\ \A i \in 1..Len(s) : (s \o t)[i] = s[i]
         /\ \A i \in 1..Len(t) : (s \o t)[Len(s) + i] = t[i]
BY ConcatProperties

\* A prefix of a concatenation that contains its first part.
LEMMA TakeOfConcat ==
  ASSUME NEW T, NEW s \in Seq(T), NEW t \in Seq(T), NEW n \in 0..Len(t)
  PROVE  Take(s \o t, Len(s) + n) = s \o Take(t, n)
<1>1. /\ s \o t \in Seq(T) /\ Len(s \o t) = Len(s) + Len(t)
      /\ \A i \in 1..Len(s) : (s \o t)[i] = s[i]
      /\ \A i \in 1..Len(t) : (s \o t)[Len(s) + i] = t[i]
  BY ConcatParts
<1>2. /\ Take(t, n) \in Seq(T) /\ Len(Take(t, n)) = n
      /\ \A i \in 1..n : Take(t, n)[i] = t[i]
  BY TakeType
<1> DEFINE a == s \o t
           u == Take(t, n)
           r == s \o u
<1>3. /\ r \in Seq(T)
      /\ Len(r) = Len(s) + n
      /\ \A i \in 1..Len(s) : r[i] = s[i]
      /\ \A i \in 1..n : r[Len(s) + i] = u[i]
  <2> HIDE DEF u
  <2>1. u \in Seq(T) /\ Len(u) = n
    BY <1>2 DEF u
  <2>2. r \in Seq(T) /\ Len(r) = Len(s) + Len(u)
    BY <2>1, ConcatParts
  <2>3. \A i \in 1..Len(s) : r[i] = s[i]
    BY <2>1, ConcatParts
  <2>4. \A i \in 1..Len(u) : r[Len(s) + i] = u[i]
    BY <2>1, ConcatParts
  <2> QED
    BY <2>1, <2>2, <2>3, <2>4
<1> HIDE DEF a, u, r
<1>4. Len(s) + n \in 0..Len(a)
  BY <1>1 DEF a
<1>5. /\ Take(a, Len(s) + n) \in Seq(T)
      /\ Len(Take(a, Len(s) + n)) = Len(s) + n
      /\ \A i \in 1..(Len(s) + n) : Take(a, Len(s) + n)[i] = a[i]
  BY <1>1, <1>4, TakeType DEF a
<1>6. ASSUME NEW i \in 1..(Len(s) + n)
      PROVE  r[i] = a[i]
  <2>1. CASE i <= Len(s)
    BY <1>1, <1>3, <2>1 DEF a, r
  <2>2. CASE i > Len(s)
    <3>1. i - Len(s) \in 1..n /\ i - Len(s) \in 1..Len(t) /\ Len(s) + (i - Len(s)) = i
      BY <2>2
    <3>2. a[Len(s) + (i - Len(s))] = t[i - Len(s)]
      BY <1>1, <3>1 DEF a
    <3>3. r[Len(s) + (i - Len(s))] = u[i - Len(s)]
      BY <1>3, <3>1
    <3>4. u[i - Len(s)] = t[i - Len(s)]
      BY <1>2, <3>1 DEF u
    <3> QED
      BY <3>1, <3>2, <3>3, <3>4
  <2> QED
    BY <2>1, <2>2
<1>7. Take(a, Len(s) + n) = r
  BY <1>3, <1>5, <1>6, SeqEqual DEF r
<1> QED
  BY <1>7 DEF a, u, r

\* The rest of a concatenation whose first part is longer than what is left out.
LEMMA RestOfConcat ==
  ASSUME NEW T, NEW s \in Seq(T), NEW t \in Seq(T), NEW k \in 0..Len(s)
  PROVE  SubSeq(s \o t, k + 1, Len(s \o t)) = SubSeq(s, k + 1, Len(s)) \o t
<1> DEFINE a == s \o t
           b == SubSeq(s, k + 1, Len(s))
           c == SubSeq(a, k + 1, Len(a))
           r == b \o t
<1>1. /\ a \in Seq(T) /\ Len(a) = Len(s) + Len(t)
      /\ \A i \in 1..Len(s) : a[i] = s[i]
      /\ \A i \in 1..Len(t) : a[Len(s) + i] = t[i]
  <2>1. a \in Seq(T) /\ Len(a) = Len(s) + Len(t)
    BY ConcatParts
  <2>2. \A i \in 1..Len(s) : a[i] = s[i]
    BY ConcatParts
  <2>3. \A i \in 1..Len(t) : a[Len(s) + i] = t[i]
    BY ConcatParts
  <2> QED
    BY <2>1, <2>2, <2>3
<1> HIDE DEF a
<1>2. /\ b \in Seq(T) /\ Len(b) = Len(s) - k
      /\ \A i \in 1..(Len(s) - k) : b[i] = s[k + i]
  BY SuffixItems
<1>3. /\ c \in Seq(T) /\ Len(c) = Len(a) - k
      /\ \A i \in 1..(Len(a) - k) : c[i] = a[k + i]
  <2>1. k \in 0..Len(a)
    BY <1>1
  <2> QED
    BY <1>1, <2>1, SuffixItems
<1> HIDE DEF b, c
<1>4. /\ r \in Seq(T) /\ Len(r) = Len(b) + Len(t)
      /\ \A i \in 1..Len(b) : r[i] = b[i]
      /\ \A i \in 1..Len(t) : r[Len(b) + i] = t[i]
  <2> b \in Seq(T)
    BY <1>2
  <2>1. r \in Seq(T) /\ Len(r) = Len(b) + Len(t)
    BY ConcatParts
  <2>2. \A i \in 1..Len(b) : r[i] = b[i]
    BY ConcatParts
  <2>3. \A i \in 1..Len(t) : r[Len(b) + i] = t[i]
    BY ConcatParts
  <2> QED
    BY <2>1, <2>2, <2>3
<1> HIDE DEF r
<1>5. Len(c) = Len(r)
  BY <1>1, <1>2, <1>3, <1>4
<1>6. ASSUME NEW i \in 1..Len(c)
      PROVE  c[i] = r[i]
  <2>1. c[i] = a[k + i]
    BY <1>3
  <2>2. CASE i <= Len(b)
    BY <1>1, <1>2, <1>4, <2>1, <2>2
  <2>3. CASE i > Len(b)
    <3>1. i - Len(b) \in 1..Len(t) /\ i = Len(b) + (i - Len(b))
          /\ k + i = Len(s) + (i - Len(b))
      BY <1>2, <1>4, <1>5, <2>3
    <3> QED
      BY <1>1, <1>4, <2>1, <3>1
  <2> QED
    BY <1>2, <2>2, <2>3
<1>7. c = r
  BY <1>3, <1>4, <1>5, <1>6, SeqEqual
<1> QED
  BY <1>7 DEF a, b, c, r

\* One more token of a sequence.
LEMMA TakeNext ==
  ASSUME NEW T, NEW s \in Seq(T), NEW n \in 1..Len(s)
  PROVE  Take(s, n) = Append(Take(s, n - 1), s[n])
<1>1. n - 1 \in 0..Len(s) /\ n \in 0..Len(s) /\ s[n] \in T
  OBVIOUS
<1>2. /\ Take(s, n - 1) \in Seq(T) /\ Len(Take(s, n - 1)) = n - 1
      /\ \A i \in 1..(n - 1) : Take(s, n - 1)[i] = s[i]
  BY <1>1, TakeType
<1>3. /\ Take(s, n) \in Seq(T) /\ Len(Take(s, n)) = n
      /\ \A i \in 1..n : Take(s, n)[i] = s[i]
  BY <1>1, TakeType
<1> DEFINE a == Append(Take(s, n - 1), s[n])
<1>4. /\ a \in Seq(T) /\ Len(a) = n /\ a[n] = s[n]
      /\ \A i \in 1..(n - 1) : a[i] = Take(s, n - 1)[i]
  BY <1>1, <1>2, AppendProperties
<1> HIDE DEF a
<1>5. \A i \in 1..n : a[i] = s[i]
  BY <1>2, <1>4
<1>6. Take(s, n) = a
  BY <1>3, <1>4, <1>5, SeqEqual
<1> QED
  BY <1>6 DEF a

LEMMA AppendToConcat ==
  ASSUME NEW T, NEW s \in Seq(T), NEW t \in Seq(T), NEW x \in T
  PROVE  s \o Append(t, x) = Append(s \o t, x)
OBVIOUS

-------------------------------------------------------------------------------
(* Grammars. *)

LEMMA ReachableType == Reachable \subseteq Seq(Tokens)
<1> SUFFICES ASSUME NEW w \in Words, NEW n \in 0..Len(w)
             PROVE  Take(w, n) \in Seq(Tokens)
  BY DEF Reachable, Take
<1> QED
  BY WordsAssumption, TakeType

\* What a matcher has accepted it accepted one token at a time.
LEMMA ReachablePrefixes ==
  ASSUME NEW s \in Reachable, NEW n \in 0..Len(s)
  PROVE  Take(s, n) \in Reachable
<1>1. PICK w \in Words : \E m \in 0..Len(w) : s = Take(w, m)
  BY DEF Reachable, Take
<1>2. PICK m \in 0..Len(w) : s = Take(w, m)
  BY <1>1
<1>3. w \in Seq(Tokens)
  BY WordsAssumption
<1>4. Len(s) = m
  BY <1>2, <1>3, TakeType
<1>5. Take(s, n) = Take(w, n)
  BY <1>2, <1>3, <1>4, TakeTake
<1>6. n \in 0..Len(w)
  BY <1>3, <1>4
<1> QED
  BY <1>5, <1>6 DEF Reachable, Take

LEMMA WordsReachable ==
  ASSUME NEW w \in Words
  PROVE  w \in Reachable
<1>1. w \in Seq(Tokens) /\ Len(w) \in 0..Len(w)
  BY WordsAssumption
<1>2. Take(w, Len(w)) = w
  BY <1>1, TakeAll
<1>3. Take(w, Len(w)) \in {SubSeq(w, 1, n) : n \in 0..Len(w)}
  BY <1>1 DEF Take
<1>4. Take(w, Len(w)) \in Reachable
  BY <1>3 DEF Reachable
<1> QED
  BY <1>2, <1>4

\* A grammar with a word accepts nothing at first.
LEMMA NothingReachable ==
  ASSUME Words # {}
  PROVE  <<>> \in Reachable
<1>1. PICK w \in Words : w \in Seq(Tokens)
  BY WordsAssumption
<1>2. 0 \in 0..Len(w) /\ Take(w, 0) = <<>>
  BY <1>1, TakeNone
<1> QED
  BY <1>2 DEF Reachable, Take

\* What a probe is, without its definition as a maximum.
LEMMA ProbeFacts ==
  ASSUME NEW s, NEW t \in Seq(Tokens)
  PROVE  /\ Probe(s, t) \in 0..Len(t)
         /\ Probe(s, t) > 0 => /\ s \o Take(t, Probe(s, t)) \in Reachable
                               /\ \A k \in 0..(Probe(s, t) - 1) : s \o Take(t, k) \notin Words
         /\ \A n \in 1..Len(t) :
              /\ s \o Take(t, n) \in Reachable
              /\ \A k \in 0..(n - 1) : s \o Take(t, k) \notin Words
              => n <= Probe(s, t)
<1> DEFINE S == {0} \cup {n \in 1..Len(t) :
                            /\ s \o Take(t, n) \in Reachable
                            /\ \A k \in 0..(n - 1) : s \o Take(t, k) \notin Words}
<1>1. S \in SUBSET (0..Len(t)) /\ S # {} /\ Len(t) \in Nat
  OBVIOUS
<1>2. Max(S) \in S /\ \A y \in S : Max(S) >= y
  <2> HIDE DEF S
  <2> QED
    BY <1>1, MaxOfNats
<1>3. Probe(s, t) = Max(S)
  BY DEF Probe
<1> DEFINE P == Probe(s, t)
<1> HIDE DEF P
<1>4. P \in S /\ \A y \in S : P >= y
  BY <1>2, <1>3 DEF P
<1>5. P \in 0..Len(t)
  BY <1>1, <1>4
<1>6. P > 0 => /\ s \o Take(t, P) \in Reachable
               /\ \A k \in 0..(P - 1) : s \o Take(t, k) \notin Words
  BY <1>4, <1>5
<1>7. \A n \in 1..Len(t) :
        /\ s \o Take(t, n) \in Reachable
        /\ \A k \in 0..(n - 1) : s \o Take(t, k) \notin Words
        => n <= P
  BY <1>1, <1>4
<1> QED
  BY <1>5, <1>6, <1>7 DEF P

\* A probe accepts all of a part of what it accepts.
LEMMA ProbeOfPart ==
  ASSUME NEW s \in Seq(Tokens), NEW t \in Seq(Tokens), NEW n \in 0..Probe(s, t)
  PROVE  Probe(s, Take(t, n)) = n
<1> DEFINE P == Probe(s, t)
           u == Take(t, n)
<1>1. /\ P \in 0..Len(t)
      /\ P > 0 => /\ s \o Take(t, P) \in Reachable
                  /\ \A k \in 0..(P - 1) : s \o Take(t, k) \notin Words
  BY ProbeFacts
<1> HIDE DEF P
<1>2. n \in 0..P
  BY DEF P
<1>3. n \in 0..Len(t) /\ Len(t) \in Nat
  BY <1>1, <1>2
<1>4. u \in Seq(Tokens) /\ Len(u) = n
  BY <1>3, TakeType
<1>5. \A k \in 0..n : Take(u, k) = Take(t, k)
  BY <1>3, TakeTake
<1> HIDE DEF u
<1>6. Probe(s, u) \in 0..n
  BY <1>4, ProbeFacts
<1>7. CASE n = 0
  BY <1>6, <1>7 DEF u
<1>8. CASE n > 0
  <2>1. P > 0 /\ n \in 1..Len(u) /\ n \in 0..n /\ P \in 0..Len(t)
    BY <1>1, <1>2, <1>4, <1>8
  <2>2. s \o Take(t, P) \in Reachable
    BY <1>1, <2>1
  <2>3. Take(t, P) \in Seq(Tokens) /\ Len(Take(t, P)) = P
    BY <2>1, TakeType
  <2>4. Len(s \o Take(t, P)) = Len(s) + P
    BY <2>3, ConcatProperties
  <2>5. Len(s) + n \in 0..Len(s \o Take(t, P)) /\ n \in 0..Len(Take(t, P))
    BY <1>2, <2>3, <2>4
  <2>6. Take(s \o Take(t, P), Len(s) + n) \in Reachable
    BY <2>2, <2>5, ReachablePrefixes
  <2>7. Take(s \o Take(t, P), Len(s) + n) = s \o Take(Take(t, P), n)
    BY <2>3, <2>5, TakeOfConcat
  <2>8. Take(Take(t, P), n) = Take(t, n)
    BY <1>2, <2>1, TakeTake
  <2>9. s \o Take(u, n) \in Reachable
    BY <1>5, <2>1, <2>6, <2>7, <2>8
  <2>10. \A k \in 0..(n - 1) : s \o Take(u, k) \notin Words
    <3>1. \A k \in 0..(n - 1) : k \in 0..(P - 1) /\ k \in 0..n
      BY <1>2, <1>1
    <3> QED
      BY <1>1, <1>5, <2>1, <3>1
  <2>11. n <= Probe(s, u)
    BY <1>4, <2>1, <2>9, <2>10, ProbeFacts
  <2> QED
    BY <1>6, <2>11 DEF u
<1> QED
  BY <1>3, <1>7, <1>8

-------------------------------------------------------------------------------
(* The part of a block that the grammar speaks of. *)

\* The places of the reasoning end marker.
Marks(t) == {i \in 1..Len(t) : t[i] = ThinkEnd}

LEMMA FirstMark ==
  ASSUME NEW t \in Seq(Tokens), Marks(t) # {}
  PROVE  /\ Min(Marks(t)) \in 1..Len(t) /\ t[Min(Marks(t))] = ThinkEnd
         /\ \A i \in 1..Len(t) : t[i] = ThinkEnd => Min(Marks(t)) <= i
<1>1. Marks(t) \in SUBSET Nat
  BY DEF Marks
<1> DEFINE x == Min(Marks(t))
<1>2. x \in Marks(t) /\ \A y \in Marks(t) : x <= y
  BY <1>1, MinOfNats
<1> HIDE DEF x
<1>3. /\ x \in 1..Len(t) /\ t[x] = ThinkEnd
      /\ \A i \in 1..Len(t) : t[i] = ThinkEnd => x <= i
  BY <1>2 DEF Marks
<1> QED
  BY <1>3 DEF x

\* A place is the first mark if it is one and none is before it.
LEMMA FirstMarkIs ==
  ASSUME NEW t \in Seq(Tokens), NEW i \in 1..Len(t), t[i] = ThinkEnd,
         \A j \in 1..Len(t) : t[j] = ThinkEnd => i <= j
  PROVE  Marks(t) # {} /\ Min(Marks(t)) = i
<1>1. Marks(t) # {}
  BY DEF Marks
<1>2. Min(Marks(t)) \in 1..Len(t) /\ t[Min(Marks(t))] = ThinkEnd /\ Min(Marks(t)) <= i
  BY <1>1, FirstMark
<1>3. i <= Min(Marks(t))
  BY <1>2
<1> QED
  BY <1>1, <1>2, <1>3

LEMMA GrammarStartIs ==
  ASSUME NEW t
  PROVE  GrammarStart(t) = IF ~reasoning THEN 0
                           ELSE IF Marks(t) = {} THEN Len(t) ELSE Min(Marks(t))
BY DEF GrammarStart, Marks

LEMMA GrammarTokensItems ==
  ASSUME NEW t \in Seq(Tokens)
  PROVE  \A i \in 1..(Len(t) - GrammarStart(t)) :
           GrammarTokens(t)[i] = t[GrammarStart(t) + i]
<1> DEFINE m == GrammarStart(t) + 1
<1>1. GrammarStart(t) \in 0..Len(t)
  BY GrammarTokensType
<1>2. m \in Int /\ Len(t) \in Int /\ \A i \in m..Len(t) : t[i] \in Tokens
  BY <1>1
<1>3. Len(t) - m + 1 = Len(t) - GrammarStart(t)
  BY <1>1
<1>4. GrammarTokens(t) = SubSeq(t, m, Len(t))
  BY DEF GrammarTokens
<1> HIDE DEF m
<1>5. \A i \in 1..(Len(t) - m + 1) : SubSeq(t, m, Len(t))[i] = t[m + i - 1]
  BY <1>2, SubSeqProperties
<1> QED
  BY <1>1, <1>3, <1>4, <1>5 DEF m

\* Of a part of a block, the grammar speaks of a part of what it speaks of.
LEMMA GrammarTokensOfPart ==
  ASSUME NEW t \in Seq(Tokens), NEW n \in 0..Len(t)
  PROVE  LET s == GrammarStart(t)
         IN  /\ (IF n <= s THEN 0 ELSE n - s) \in 0..Len(GrammarTokens(t))
             /\ GrammarTokens(Take(t, n))
                  = Take(GrammarTokens(t), IF n <= s THEN 0 ELSE n - s)
<1> DEFINE s == GrammarStart(t)
           u == Take(t, n)
           m == IF n <= s THEN n ELSE s
           j == IF n <= s THEN 0 ELSE n - s
<1>1. /\ s \in 0..Len(t) /\ Len(t) \in Nat
      /\ GrammarTokens(t) \in Seq(Tokens)
      /\ Len(GrammarTokens(t)) = Len(t) - s
      /\ \A i \in 1..(Len(t) - s) : GrammarTokens(t)[i] = t[s + i]
  <2>1. s \in 0..Len(t) /\ Len(t) \in Nat
    BY GrammarTokensType
  <2>2. GrammarTokens(t) \in Seq(Tokens) /\ Len(GrammarTokens(t)) = Len(t) - s
    BY GrammarTokensType
  <2>3. \A i \in 1..(Len(t) - s) : GrammarTokens(t)[i] = t[s + i]
    BY GrammarTokensItems
  <2> QED
    BY <2>1, <2>2, <2>3
<1>2. u \in Seq(Tokens) /\ Len(u) = n /\ \A i \in 1..n : u[i] = t[i]
  BY TakeType
<1>3. s = IF ~reasoning THEN 0
          ELSE IF Marks(t) = {} THEN Len(t) ELSE Min(Marks(t))
  BY GrammarStartIs
<1> HIDE DEF s, u
<1>4. GrammarStart(u) = m
  <2>1. CASE ~reasoning
    <3>1. GrammarStart(u) = 0
      BY <2>1, GrammarStartIs
    <3> QED
      BY <1>3, <2>1, <3>1
  <2>2. CASE reasoning /\ n <= s
    <3>1. ASSUME NEW i \in 1..n, t[i] = ThinkEnd
          PROVE  i = n
      <4>1. i \in Marks(t) /\ i \in 1..Len(t)
        BY <1>1, <3>1 DEF Marks
      <4>2. s = Min(Marks(t)) /\ Min(Marks(t)) <= i
        BY <1>3, <2>2, <3>1, <4>1, FirstMark
      <4> QED
        BY <2>2, <4>2, <1>1
    <3>2. CASE Marks(u) = {}
      BY <1>2, <2>2, <3>2, GrammarStartIs
    <3>3. CASE Marks(u) # {}
      <4>1. Min(Marks(u)) \in 1..n /\ u[Min(Marks(u))] = ThinkEnd
        BY <1>2, <3>3, FirstMark
      <4>2. t[Min(Marks(u))] = ThinkEnd
        BY <1>2, <4>1
      <4>3. Min(Marks(u)) = n
        BY <3>1, <4>1, <4>2
      <4> QED
        BY <2>2, <3>3, <4>3, GrammarStartIs
    <3> QED
      BY <3>2, <3>3
  <2>3. CASE reasoning /\ ~(n <= s)
    <3>1. Marks(t) # {} /\ s = Min(Marks(t))
      BY <1>1, <1>3, <2>3
    <3>2. /\ s \in 1..Len(t) /\ t[s] = ThinkEnd
          /\ \A i \in 1..Len(t) : t[i] = ThinkEnd => s <= i
      BY <3>1, FirstMark
    <3>3. /\ s \in 1..Len(u) /\ u[s] = ThinkEnd
          /\ \A i \in 1..Len(u) : u[i] = ThinkEnd => s <= i
      BY <1>1, <1>2, <2>3, <3>2
    <3>4. Marks(u) # {} /\ Min(Marks(u)) = s
      BY <1>2, <3>3, FirstMarkIs
    <3> QED
      BY <2>3, <3>4, GrammarStartIs
  <2> QED
    BY <2>1, <2>2, <2>3
<1>5. j \in 0..(Len(t) - s) /\ n - m = j
  BY <1>1
<1>6. /\ GrammarTokens(u) \in Seq(Tokens)
      /\ Len(GrammarTokens(u)) = j
      /\ \A i \in 1..j : GrammarTokens(u)[i] = u[m + i]
  <2> HIDE DEF m, j
  <2> QED
    BY <1>2, <1>4, <1>5, GrammarTokensType, GrammarTokensItems
<1>7. /\ Take(GrammarTokens(t), j) \in Seq(Tokens)
      /\ Len(Take(GrammarTokens(t), j)) = j
      /\ \A i \in 1..j : Take(GrammarTokens(t), j)[i] = GrammarTokens(t)[i]
  <2> HIDE DEF m, j
  <2> QED
    BY <1>1, <1>5, TakeType
<1>8. ASSUME NEW i \in 1..j
      PROVE  GrammarTokens(u)[i] = Take(GrammarTokens(t), j)[i]
  <2>1. m = s /\ s + i \in 1..n /\ i \in 1..(Len(t) - s)
    BY <1>1
  <2>2. GrammarTokens(u)[i] = u[s + i]
    BY <1>6, <2>1
  <2>3. u[s + i] = t[s + i]
    BY <1>2, <2>1
  <2>4. GrammarTokens(t)[i] = t[s + i]
    BY <1>1, <2>1
  <2> QED
    BY <1>7, <2>2, <2>3, <2>4
<1> HIDE DEF j
<1>9. GrammarTokens(u) = Take(GrammarTokens(t), j)
  BY <1>6, <1>7, <1>8, SeqEqual
<1> QED
  BY <1>1, <1>5, <1>9 DEF s, u, j

LEMMA GrammarTokensOfPrefix ==
  ASSUME NEW t \in Seq(Tokens), NEW p \in 0..Len(GrammarTokens(t))
  PROVE  /\ GrammarStart(t) + p \in 0..Len(t)
         /\ GrammarTokens(Take(t, GrammarStart(t) + p)) = Take(GrammarTokens(t), p)
<1> DEFINE s == GrammarStart(t)
           g == GrammarTokens(t)
           n == s + p
<1>1. s \in 0..Len(t) /\ Len(g) = Len(t) - s /\ Len(t) \in Nat
  BY GrammarTokensType
<1> HIDE DEF s, g
<1>2. p \in 0..Len(g)
  BY DEF g
<1>3. n \in 0..Len(t)
  BY <1>1, <1>2
<1>4. p = IF n <= s THEN 0 ELSE n - s
  BY <1>1, <1>2
<1> HIDE DEF n
<1>5. GrammarTokens(Take(t, n)) = Take(g, IF n <= s THEN 0 ELSE n - s)
  BY <1>3, GrammarTokensOfPart DEF g, s
<1>6. GrammarTokens(Take(t, n)) = Take(g, p)
  <2> DEFINE j == IF n <= s THEN 0 ELSE n - s
  <2>1. GrammarTokens(Take(t, n)) = Take(g, j) /\ p = j
    BY <1>4, <1>5
  <2> HIDE DEF j
  <2> QED
    BY <2>1
<1> QED
  BY <1>3, <1>6 DEF n, s, g

-------------------------------------------------------------------------------
(* The answer. *)

\* Whether the reasoning has ended can be read off the output.
ReasoningTracked == reasoning = (Reasons /\ Marks(out) = {})

LEMMA AnswerIs ==
  Answer = IF ~Reasons THEN out
           ELSE IF Marks(out) = {} THEN <<>>
           ELSE SubSeq(out, Min(Marks(out)) + 1, Len(out))
BY DEF Answer, Marks

LEMMA NoMarks ==
  ASSUME NEW t \in Seq(Tokens)
  PROVE  (ThinkEnd \notin ToSet(t)) <=> Marks(t) = {}
BY DEF ToSet, Marks

\* Tokens that are appended to the output extend the answer by the part that
\* the grammar speaks of, across the end of the reasoning too.
LEMMA AnswerGrows ==
  ASSUME TypeOK, ReasoningTracked, NEW t \in Seq(Tokens), out' = out \o t,
         reasoning' = (reasoning /\ ThinkEnd \notin ToSet(t))
  PROVE  /\ Answer' = Answer \o GrammarTokens(t)
         /\ ReasoningTracked'
<1> DEFINE g == GrammarTokens(t)
           s == GrammarStart(t)
           o == out \o t
<1>1. out \in Seq(Tokens)
  BY DEF TypeOK
<1>2. /\ o \in Seq(Tokens) /\ Len(o) = Len(out) + Len(t)
      /\ \A i \in 1..Len(out) : o[i] = out[i]
      /\ \A i \in 1..Len(t) : o[Len(out) + i] = t[i]
  <2>1. o \in Seq(Tokens) /\ Len(o) = Len(out) + Len(t)
    BY <1>1, ConcatParts
  <2>2. \A i \in 1..Len(out) : o[i] = out[i]
    BY <1>1, ConcatParts
  <2>3. \A i \in 1..Len(t) : o[Len(out) + i] = t[i]
    BY <1>1, ConcatParts
  <2> QED
    BY <2>1, <2>2, <2>3
<1>3. s \in 0..Len(t) /\ g = SubSeq(t, s + 1, Len(t))
  BY GrammarTokensType DEF GrammarTokens
<1>4. s = IF ~reasoning THEN 0 ELSE IF Marks(t) = {} THEN Len(t) ELSE Min(Marks(t))
  BY GrammarStartIs
<1>5. /\ out' = o
      /\ Answer' = IF ~Reasons THEN o
                   ELSE IF Marks(o) = {} THEN <<>>
                   ELSE SubSeq(o, Min(Marks(o)) + 1, Len(o))
  BY DEF Answer, Marks
<1>6. ReasoningTracked' <=> (reasoning' = (Reasons /\ Marks(o) = {}))
  BY DEF ReasoningTracked, Marks
<1>7. reasoning = (Reasons /\ Marks(out) = {})
  BY DEF ReasoningTracked
<1>8. reasoning' = (reasoning /\ Marks(t) = {})
  BY NoMarks
<1> HIDE DEF o, s, g
\* Both sides end with the last Len(o) - k tokens of the output.
<1>9. ASSUME NEW k \in Len(out)..Len(o)
      PROVE  SubSeq(o, k + 1, Len(o)) = SubSeq(t, k - Len(out) + 1, Len(t))
  <2>3. /\ SubSeq(o, k + 1, Len(o)) \in Seq(Tokens)
        /\ Len(SubSeq(o, k + 1, Len(o))) = Len(o) - k
        /\ \A i \in 1..(Len(o) - k) : SubSeq(o, k + 1, Len(o))[i] = o[k + i]
    <3>1. k \in 0..Len(o)
      BY <1>1
    <3> QED
      BY <1>2, <3>1, SuffixItems
  <2> DEFINE j == k - Len(out)
  <2>4. j \in 0..Len(t) /\ Len(t) - j = Len(o) - k /\ k = Len(out) + j
    BY <1>1, <1>2
  <2> HIDE DEF j
  <2>6. /\ SubSeq(t, j + 1, Len(t)) \in Seq(Tokens)
        /\ Len(SubSeq(t, j + 1, Len(t))) = Len(o) - k
        /\ \A i \in 1..(Len(o) - k) : SubSeq(t, j + 1, Len(t))[i] = t[j + i]
    BY <2>4, SuffixItems
  <2>7. ASSUME NEW i \in 1..(Len(o) - k)
        PROVE  o[k + i] = t[j + i]
    <3>1. j + i \in 1..Len(t) /\ k + i = Len(out) + (j + i)
      BY <1>1, <1>2, <2>4
    <3> QED
      BY <1>2, <3>1
  <2>8. SubSeq(o, k + 1, Len(o)) = SubSeq(t, j + 1, Len(t))
    BY <2>3, <2>6, <2>7, SeqEqual
  <2> QED
    BY <2>8 DEF j
\* No reasoning: the output is the answer.
<1>10. CASE ~Reasons
  <2>1. ~reasoning /\ s = 0 /\ g = t
    <3>1. ~reasoning /\ s = 0
      BY <1>4, <1>7, <1>10
    <3>2. t = SubSeq(t, 1, Len(t))
      BY SubSeqFull
    <3> QED
      BY <1>3, <3>1, <3>2
  <2>2. Answer = out
    BY <1>10, AnswerIs
  <2> QED
    BY <1>5, <1>6, <1>7, <1>8, <1>10, <2>1, <2>2 DEF o, g
\* The reasoning goes on or ends within the tokens.
<1>11. CASE Reasons /\ Marks(out) = {}
  <2>1. reasoning /\ Answer = <<>>
    BY <1>7, <1>11, AnswerIs
  <2>2. \A i \in 1..Len(out) : o[i] # ThinkEnd
    BY <1>1, <1>2, <1>11 DEF Marks
  <2>3. CASE Marks(t) = {}
    <3>1. \A i \in 1..Len(o) : o[i] # ThinkEnd
      <4> SUFFICES ASSUME NEW i \in 1..Len(o), i > Len(out)
                   PROVE  o[i] # ThinkEnd
        BY <1>1, <1>2, <2>2
      <4>1. i - Len(out) \in 1..Len(t) /\ i = Len(out) + (i - Len(out))
        BY <1>1, <1>2
      <4>2. o[i] = t[i - Len(out)]
        BY <1>2, <4>1
      <4> QED
        BY <2>3, <4>1, <4>2 DEF Marks
    <3>2. Marks(o) = {}
      BY <3>1 DEF Marks
    <3>3. g = <<>>
      <4>1. s = Len(t)
        BY <1>4, <2>1, <2>3
      <4>2. Len(g) = 0 /\ g \in Seq(Tokens)
        BY <4>1, GrammarTokensType DEF g, s
      <4> QED
        BY <4>2, EmptySeq
    <3>4. Answer' = <<>>
      BY <1>5, <1>11, <3>2
    <3>5. Answer' = Answer \o g
      BY <2>1, <3>3, <3>4
    <3> QED
      BY <1>6, <1>8, <1>11, <2>1, <2>3, <3>2, <3>5 DEF g
  <2>4. CASE Marks(t) # {}
    <3>1. s = Min(Marks(t))
      BY <1>4, <2>1, <2>4
    <3>2. /\ s \in 1..Len(t) /\ t[s] = ThinkEnd
          /\ \A i \in 1..Len(t) : t[i] = ThinkEnd => s <= i
      BY <2>4, <3>1, FirstMark
    <3> DEFINE k == Len(out) + s
    <3>3. k \in 1..Len(o) /\ k \in Len(out)..Len(o) /\ o[k] = ThinkEnd
      BY <1>1, <1>2, <3>2
    <3>4. ASSUME NEW i \in 1..Len(o), o[i] = ThinkEnd
          PROVE  k <= i
      <4>1. i > Len(out)
        BY <1>1, <2>2, <3>4
      <4>2. i - Len(out) \in 1..Len(t) /\ i = Len(out) + (i - Len(out))
        BY <1>1, <1>2, <4>1
      <4>3. t[i - Len(out)] = ThinkEnd
        BY <1>2, <3>4, <4>2
      <4>4. s <= i - Len(out)
        BY <3>2, <4>2, <4>3
      <4> QED
        BY <1>1, <3>2, <4>4
    <3> HIDE DEF k
    <3>5. Marks(o) # {} /\ Min(Marks(o)) = k
      BY <1>2, <3>3, <3>4, FirstMarkIs
    <3>6. Answer' = SubSeq(o, k + 1, Len(o))
      BY <1>5, <1>11, <3>5
    <3>7. k - Len(out) = s
      BY <1>1, <3>2 DEF k
    <3>8. Answer' = g
      BY <1>3, <1>9, <3>3, <3>6, <3>7
    <3>9. Answer' = Answer \o g
      BY <2>1, <3>8, GrammarTokensType DEF g
    <3> QED
      BY <1>6, <1>8, <2>4, <3>5, <3>9 DEF g
  <2> QED
    BY <2>3, <2>4
\* The reasoning is over.
<1>12. CASE Reasons /\ Marks(out) # {}
  <2> DEFINE k == Min(Marks(out))
  <2>1. ~reasoning /\ s = 0 /\ g = t
    <3>1. ~reasoning /\ s = 0
      BY <1>4, <1>7, <1>12
    <3>2. t = SubSeq(t, 1, Len(t))
      BY SubSeqFull
    <3> QED
      BY <1>3, <3>1, <3>2
  <2>2. /\ k \in 1..Len(out) /\ out[k] = ThinkEnd
        /\ \A i \in 1..Len(out) : out[i] = ThinkEnd => k <= i
    BY <1>1, <1>12, FirstMark
  <2> HIDE DEF k
  <2>3. /\ k \in 1..Len(o) /\ o[k] = ThinkEnd
        /\ \A i \in 1..Len(o) : o[i] = ThinkEnd => k <= i
    <3>1. k \in 1..Len(o) /\ o[k] = ThinkEnd
      BY <1>1, <1>2, <2>2
    <3>2. ASSUME NEW i \in 1..Len(o), o[i] = ThinkEnd
          PROVE  k <= i
      <4>1. CASE i <= Len(out)
        BY <1>1, <1>2, <2>2, <3>2, <4>1
      <4>2. CASE i > Len(out)
        BY <1>1, <2>2, <4>2
      <4> QED
        BY <1>1, <4>1, <4>2
    <3> QED
      BY <3>1, <3>2
  <2>4. Marks(o) # {} /\ Min(Marks(o)) = k
    BY <1>2, <2>3, FirstMarkIs
  <2>5. Answer = SubSeq(out, k + 1, Len(out)) /\ Answer' = SubSeq(o, k + 1, Len(o))
    BY <1>5, <1>12, <2>4, AnswerIs DEF k
  <2>6. SubSeq(o, k + 1, Len(o)) = SubSeq(out, k + 1, Len(out)) \o t
    <3>1. k \in 0..Len(out)
      BY <2>2
    <3> QED
      BY <1>1, <3>1, RestOfConcat DEF o
  <2> QED
    BY <1>6, <1>8, <2>1, <2>4, <2>5, <2>6 DEF g
<1> QED
  BY <1>10, <1>11, <1>12

-------------------------------------------------------------------------------
(* The outcomes of update_from_output. *)

\* Whatever ends the loop, the request keeps the first n tokens of what the
\* filter left of the block, and nothing past the loop; it keeps all of them if
\* no event ended it.
Outcome(b, n, how) ==
  /\ Committable(b)
  /\ Keep(b, Len(out) + n, how)
  /\ n <= Committed(b)
  /\ how \in {"none", "completed", "cut"} =>
       /\ n = Len(Kept(b)) /\ Survives(b)
       /\ how = IF Kind(b) \in {"completed", "cut"} THEN Kind(b) ELSE "none"

LEMMA SurvivesWhole ==
  ASSUME NEW b, Survives(b)
  PROVE  Committed(b) = Len(Kept(b))
BY DEF Survives, Committed

LEMMA HandlerOutcomes ==
  ASSUME TypeOK, UpdateFromOutput, NEW b, b = Head(flight)
  PROVE  /\ b \in Blocks /\ status = "running"
         /\ flight \in Seq(Blocks) /\ flight # <<>>
         /\ \/ FinishOov(b)
            \/ FinishEmpty(b)
            \/ \E n \in 0..Len(Kept(b)),
                  how \in {"none", "completed", "cut", "cap", "signature", "stop",
                           "soup", "repetition"} : Outcome(b, n, how)
<1> DEFINE L == Len(Kept(b))
<1>1. flight \in Seq(Blocks) /\ flight # <<>> /\ status = "running" /\ out \in Seq(Tokens)
  BY DEF TypeOK, UpdateFromOutput
<1>2. b \in Blocks
  BY <1>1, HeadTailProperties
<1>3. FinishOov(b) \/ FinishEmpty(b) \/ FinishCap(b) \/ FinishSignature(b)
        \/ FinishStop(b) \/ FinishSoup(b) \/ FinishRepetition(b) \/ Commit(b)
  BY DEF UpdateFromOutput
<1>4. Kept(b) \in Seq(Tokens) /\ L \in Nat /\ Len(out) \in Nat
  BY <1>1, <1>2, KeptType
<1>5. ASSUME Committable(b)
      PROVE  Committed(b) \in 1..L
  <2>1. Kept(b) # <<>>
    BY <1>5 DEF Committable
  <2> QED
    BY <1>2, <2>1, BudgetType, CommittedType
<1> HIDE DEF L
<1>6. ASSUME Committable(b),
             NEW cut \in Len(out)..(Len(out) + Committed(b)),
             NEW how \in {"cap", "signature", "stop", "soup", "repetition"},
             Keep(b, cut, how)
      PROVE  \E n \in 0..L : Outcome(b, n, how)
  <2> DEFINE n == cut - Len(out)
  <2>1. Committed(b) \in 1..L
    BY <1>5, <1>6
  <2>2. n \in 0..L /\ n <= Committed(b) /\ Len(out) + n = cut
    BY <1>4, <2>1
  <2>3. Keep(b, Len(out) + n, how)
    BY <1>6, <2>2
  <2> HIDE DEF n
  <2>4. Outcome(b, n, how)
    BY <1>6, <2>2, <2>3 DEF Outcome
  <2> QED
    BY <2>2, <2>4
<1> DEFINE Result == \E n \in 0..L,
                        how \in {"none", "completed", "cut", "cap", "signature", "stop",
                                 "soup", "repetition"} : Outcome(b, n, how)
<1>7. ASSUME FinishCap(b)
      PROVE  Result
  <2> DEFINE n == Committed(b)
             cut == Len(out) + n - Min({CleanCut(After(b, n)), n})
  <2>1. Committable(b) /\ Keep(b, cut, "cap")
    BY <1>7 DEF FinishCap
  <2>2. n \in 1..L
    BY <1>5, <2>1
  <2>3. After(b, n) \in Seq(Tokens)
    BY <1>2, <1>4, <2>2, AfterType DEF L
  <2> HIDE DEF n
  <2>4. cut \in Len(out)..(Len(out) + n)
    BY <2>2, <2>3, <1>4, CapCutType
  <2> HIDE DEF cut
  <2>5. \E x \in 0..L : Outcome(b, x, "cap")
    BY <2>1, <2>4, <1>6 DEF n
  <2> QED
    BY <2>5
<1>8. ASSUME FinishSignature(b)
      PROVE  Result
  <2> DEFINE n == Committed(b)
             cut == FlooredCut(n)
  <2>1. Committable(b) /\ Keep(b, cut, "signature")
    BY <1>8 DEF FinishSignature
  <2>2. n \in 1..L
    BY <1>5, <2>1
  <2> HIDE DEF n
  <2>4. cut \in Len(out)..(Len(out) + n)
    <3>1. n \in Nat
      BY <2>2, <1>4
    <3> QED
      BY <3>1, FlooredCutType
  <2> HIDE DEF cut
  <2>5. \E x \in 0..L : Outcome(b, x, "signature")
    BY <2>1, <2>4, <1>6 DEF n
  <2> QED
    BY <2>5
<1>9. ASSUME FinishStop(b)
      PROVE  Result
  <2> DEFINE n == Committed(b)
             cut == Len(out) + n
  <2>1. Committable(b) /\ Keep(b, cut, "stop")
    BY <1>9 DEF FinishStop
  <2>2. n \in 1..L
    BY <1>5, <2>1
  <2> HIDE DEF n
  <2>4. cut \in Len(out)..(Len(out) + n)
    BY <2>2, <1>4
  <2> HIDE DEF cut
  <2>5. \E x \in 0..L : Outcome(b, x, "stop")
    BY <2>1, <2>4, <1>6 DEF n
  <2> QED
    BY <2>5
<1>10. ASSUME FinishSoup(b)
      PROVE  Result
  <2> DEFINE cut == FlooredCut(L)
  <2>1. Committable(b) /\ Keep(b, cut, "soup") /\ Survives(b)
    BY <1>10 DEF FinishSoup, L
  <2>2. Committed(b) = L
    BY <2>1, SurvivesWhole DEF L
  <2>4. cut \in Len(out)..(Len(out) + L)
    BY <1>4, FlooredCutType
  <2> HIDE DEF cut
  <2>5. \E x \in 0..L : Outcome(b, x, "soup")
    BY <2>1, <2>2, <2>4, <1>6
  <2> QED
    BY <2>5
<1>11. ASSUME FinishRepetition(b)
      PROVE  Result
  <2>1. Committable(b) /\ Keep(b, Len(out), "repetition") /\ Survives(b)
    BY <1>11 DEF FinishRepetition
  <2>2. Committed(b) = L
    BY <2>1, SurvivesWhole DEF L
  <2>4. Len(out) \in Len(out)..(Len(out) + L)
    BY <1>4
  <2>5. \E x \in 0..L : Outcome(b, x, "repetition")
    BY <2>1, <2>2, <2>4, <1>6
  <2> QED
    BY <2>5
<1>12. ASSUME Commit(b)
      PROVE  Result
  <2> DEFINE how == IF Kind(b) \in {"completed", "cut"} THEN Kind(b) ELSE "none"
  <2>1. Committable(b) /\ Keep(b, Len(out) + L, how) /\ Survives(b)
    BY <1>12 DEF Commit, L
  <2>2. Committed(b) = L
    BY <2>1, SurvivesWhole DEF L
  <2>3. how \in {"none", "completed", "cut", "cap", "signature", "stop",
                 "soup", "repetition"}
    OBVIOUS
  <2>4. L \in 0..L /\ L <= Committed(b)
    BY <1>4, <2>2
  <2>5. Outcome(b, L, how)
    BY <2>1, <2>4 DEF Outcome, L
  <2> HIDE DEF how
  <2> QED
    BY <2>3, <2>4, <2>5
<1>13. FinishOov(b) \/ FinishEmpty(b) \/ Result
  BY <1>3, <1>7, <1>8, <1>9, <1>10, <1>11, <1>12
<1> QED
  BY <1>1, <1>2, <1>13 DEF L

\* The output grows by the tokens that are kept, and the matcher advances over
\* those the grammar speaks of.
LEMMA OutcomeFacts ==
  ASSUME TypeOK, NEW b \in Blocks, NEW n \in 0..Len(Kept(b)), NEW how,
         Outcome(b, n, how), NEW t, t = Take(Kept(b), n)
  PROVE  /\ t \in Seq(Tokens) /\ Len(t) = n
         /\ out' = out \o t
         /\ reasoning' = (reasoning /\ ThinkEnd \notin ToSet(t))
<1>1. out \in Seq(Tokens) /\ Kept(b) \in Seq(Tokens)
  BY KeptType DEF TypeOK
<1>2. t \in Seq(Tokens) /\ Len(t) = n
  BY <1>1, TakeType
<1>3. Take(out \o Kept(b), Len(out) + n) = out \o t
  BY <1>1, TakeOfConcat
<1>4. Len(out) + n - Len(out) = n
  BY <1>1
<1>5. /\ out' = Take(out \o Kept(b), Len(out) + n)
      /\ reasoning' = (reasoning /\ ThinkEnd \notin ToSet(Take(Kept(b), Len(out) + n - Len(out))))
  BY DEF Outcome, Keep
<1> QED
  BY <1>2, <1>3, <1>4, <1>5

\* What becomes of the request's grammar.
LEMMA OutcomeGrammar ==
  ASSUME TypeOK, NEW b, NEW n \in Nat, NEW how, Outcome(b, n, how),
         NEW g, g = GrammarTokens(Take(Kept(b), n)),
         NEW live \in BOOLEAN, live = (enforce /\ Kind(b) # "salvaged"),
         NEW rejected \in BOOLEAN,
         rejected = (live /\ g # <<>> /\ ~AcceptsTokens(matched, g))
  PROVE  /\ matched' = IF live THEN Advanced(matched, g) ELSE matched
         /\ enforce' = (live /\ ~(rejected /\ GrammarSalvage))
         /\ abandoned' = IF enforce /\ ~enforce' THEN Len(out) ELSE abandoned
         /\ status' = IF rejected /\ ~GrammarSalvage THEN "error"
                      ELSE IF how = "none" THEN "running" ELSE "stopped"
         /\ ending' = IF rejected /\ ~GrammarSalvage THEN "rejected" ELSE how
<1> DEFINE m == Len(out) + n
           h == GrammarTokens(Take(Kept(b), m - Len(out)))
<1>1. m - Len(out) = n
  BY DEF TypeOK
<1>2. h = g
  <2> HIDE DEF m
  <2> QED
    BY <1>1
<1>3. LET l == enforce /\ Kind(b) # "salvaged"
          r == l /\ h # <<>> /\ ~AcceptsTokens(matched, h)
      IN  /\ matched' = IF l THEN Advanced(matched, h) ELSE matched
          /\ enforce' = (l /\ ~(r /\ GrammarSalvage))
          /\ abandoned' = IF enforce /\ ~enforce' THEN Len(out) ELSE abandoned
          /\ status' = IF r /\ ~GrammarSalvage THEN "error"
                       ELSE IF how = "none" THEN "running" ELSE "stopped"
          /\ ending' = IF r /\ ~GrammarSalvage THEN "rejected" ELSE how
  BY DEF Outcome, Keep
<1> HIDE DEF h
<1> QED
  BY <1>2, <1>3

-------------------------------------------------------------------------------
(* What the matcher makes of the tokens that are kept. *)

\* Tokens that a probe accepts in full are all accepted.
LEMMA ProbedTokens ==
  ASSUME NEW s \in Reachable, NEW g \in Seq(Tokens), Probe(s, g) = Len(g)
  PROVE  /\ s \o g \in Reachable /\ Advanced(s, g) = s \o g
         /\ g = <<>> \/ AcceptsTokens(s, g)
<1>1. s \in Seq(Tokens)
  BY ReachableType
<1>2. Take(g, Len(g)) = g
  BY TakeAll
<1>3. Advanced(s, g) = s \o g
  BY <1>2 DEF Advanced
<1>4. CASE g = <<>>
  <2>1. s \o g = s
    BY <1>1, <1>4
  <2> QED
    BY <1>3, <1>4, <2>1
<1>5. CASE g # <<>>
  <2>1. Len(g) \in Nat /\ Len(g) > 0
    BY <1>5, EmptySeq
  <2>2. /\ s \o Take(g, Len(g)) \in Reachable
        /\ \A k \in 0..(Len(g) - 1) : s \o Take(g, k) \notin Words
    BY <2>1, ProbeFacts
  <2>3. s \o Take(g, 0) \notin Words
    BY <2>1, <2>2
  <2>4. s \o Take(g, 0) = s
    BY <1>1, TakeNone
  <2>5. AcceptsTokens(s, g)
    BY <2>3, <2>4 DEF AcceptsTokens, Terminated
  <2> QED
    BY <1>2, <1>3, <2>2, <2>5
<1> QED
  BY <1>4, <1>5

\* A single token that is accepted is accepted in full: only a matcher that was
\* terminated before it could have ended without it.
LEMMA AcceptedToken ==
  ASSUME NEW s \in Reachable, NEW g \in Seq(Tokens), Len(g) = 1, AcceptsTokens(s, g)
  PROVE  Probe(s, g) = Len(g)
<1>1. Probe(s, g) \in 0..1
  BY ProbeType
<1>2. ~Terminated(s) /\ (Probe(s, g) = Len(g) \/ ProbeTerminates(s, g))
  BY DEF AcceptsTokens
<1>3. ASSUME Probe(s, g) = 0
      PROVE  ~ProbeTerminates(s, g)
  <2>1. s \o Take(g, 0) = s
    BY ReachableType, TakeNone
  <2> QED
    BY <1>2, <1>3, <2>1 DEF ProbeTerminates
<1> QED
  BY <1>1, <1>2, <1>3

\* What is kept of a speculative block that is not salvaged, and every part of
\* it, is accepted in full by the matcher as it stands.
LEMMA KeptIsProbed ==
  ASSUME TypeOK, NEW b \in Blocks, b.spec, enforce, Kind(b) # "salvaged",
         NEW n \in 0..Len(Kept(b)), NEW g, g = GrammarTokens(Take(Kept(b), n))
  PROVE  Probe(matched, g) = Len(g)
<1> DEFINE t == b.tokens
           G == GrammarTokens(t)
           S == GrammarStart(t)
           P == Probe(matched, G)
           j == IF n <= S THEN 0 ELSE n - S
<1>1. t \in Seq(Tokens) /\ matched \in Seq(Tokens)
  BY DEF Blocks, TypeOK
<1>2. S \in 0..Len(t) /\ G \in Seq(Tokens) /\ Len(G) = Len(t) - S
  BY <1>1, GrammarTokensType
<1>3. P \in 0..Len(G)
  BY <1>2, ProbeType
<1>4. CASE Kind(b) = "clean"
  <2>1. P = Len(G) /\ Kept(b) = t
    BY <1>4 DEF Kind, Kept
  <2> QED
    <3> HIDE DEF P, G, S, t
    <3>1. n \in 0..Len(t)
      BY <2>1
    <3>2. j \in 0..Len(G) /\ g = Take(G, j)
      BY <1>1, <2>1, <3>1, GrammarTokensOfPart DEF G, S
    <3> HIDE DEF j
    <3>3. j \in 0..Probe(matched, G)
      BY <2>1, <3>2 DEF P
    <3>4. Probe(matched, g) = j
      BY <1>1, <1>2, <3>2, <3>3, ProbeOfPart
    <3>5. Len(g) = j
      BY <1>2, <3>2, TakeType
    <3> QED
      BY <3>4, <3>5
<1>5. CASE Kind(b) # "clean"
  <2>1. Kept(b) = Take(t, S + P)
    BY <1>5, KindType DEF Kept
  <2> HIDE DEF P, G, S, t
  <2>2. S + P \in 0..Len(t)
    BY <1>1, <1>2, <1>3
  <2>3. Len(Kept(b)) = S + P
    BY <1>1, <2>1, <2>2, TakeType
  <2>4. Take(Kept(b), n) = Take(t, n) /\ n \in 0..Len(t) /\ n <= S + P
    <3>1. n \in 0..(S + P)
      BY <2>3
    <3>2. Take(Kept(b), n) = Take(t, n)
      BY <1>1, <2>1, <2>2, <3>1, TakeTake
    <3> QED
      BY <1>1, <2>2, <3>1, <3>2
  <2>5. j \in 0..Len(G) /\ g = Take(G, j)
    BY <1>1, <2>4, GrammarTokensOfPart DEF G, S
  <2>6. j \in 0..P
    BY <1>2, <1>3, <2>4, <2>5
  <2> HIDE DEF j
  <2>7. Probe(matched, g) = j
    BY <1>1, <1>2, <2>5, <2>6, ProbeOfPart DEF P
  <2>8. Len(g) = j
    BY <1>2, <2>5, TakeType
  <2> QED
    BY <2>7, <2>8
<1> QED
  BY <1>4, <1>5

-------------------------------------------------------------------------------
(* The inductive invariant of enforced answers. *)

\* A block without drafts has a single token.
SingleTokens ==
  \A i \in 1..Len(flight) : ~flight[i].spec => Len(flight[i].tokens) = 1

AnswerInv == ReasoningTracked /\ SingleTokens /\ EnforcedAnswerValid

LEMMA AtMostOne ==
  ASSUME NEW l \in Nat, NEW n \in Nat, l <= n, n <= 1
  PROVE  l = 0 \/ l = 1
OBVIOUS

\* What is kept of a block of an enforced request, unless it is rejected, is
\* accepted in full.
LEMMA KeptAccepted ==
  ASSUME TypeOK, NEW b \in Blocks, ~b.spec => Len(b.tokens) = 1,
         enforce, Kind(b) # "salvaged", matched \in Reachable,
         NEW n \in 0..Len(Kept(b)), NEW g, g = GrammarTokens(Take(Kept(b), n)),
         b.spec \/ g = <<>> \/ AcceptsTokens(matched, g)
  PROVE  /\ g \in Seq(Tokens) /\ matched \o g \in Reachable
         /\ Advanced(matched, g) = matched \o g
         /\ g = <<>> \/ AcceptsTokens(matched, g)
<1>1. Kept(b) \in Seq(Tokens)
  BY KeptType
<1>2. Take(Kept(b), n) \in Seq(Tokens) /\ Len(Take(Kept(b), n)) = n
  BY <1>1, TakeType
<1>3. g \in Seq(Tokens) /\ Len(g) <= n
  <2>1. /\ GrammarStart(Take(Kept(b), n)) \in 0..n
        /\ g \in Seq(Tokens)
        /\ Len(g) = n - GrammarStart(Take(Kept(b), n))
    BY <1>2, GrammarTokensType
  <2> QED
    BY <2>1
<1>4. Probe(matched, g) = Len(g)
  <2>1. CASE b.spec
    BY <2>1, KeptIsProbed
  <2>2. CASE ~b.spec
    <3>1. Len(Kept(b)) <= 1
      BY <2>2, KeptType DEF Blocks
    <3>2. Len(g) = 0 \/ Len(g) = 1
      <4>1. Len(g) \in Nat /\ n \in Nat /\ Len(g) <= n /\ n <= 1
        BY <1>1, <1>3, <3>1
      <4> QED
        BY <4>1, AtMostOne
    <3>3. CASE Len(g) = 0
      <4>1. Probe(matched, g) \in 0..Len(g)
        BY <1>3, ProbeType
      <4> QED
        BY <3>3, <4>1
    <3>4. CASE Len(g) = 1
      <4>1. g # <<>>
        BY <3>4
      <4>2. AcceptsTokens(matched, g)
        BY <2>2, <4>1
      <4> QED
        BY <1>3, <3>4, <4>2, AcceptedToken
    <3> QED
      BY <3>2, <3>3, <3>4
  <2> QED
    BY <2>1, <2>2
<1> QED
  BY <1>3, <1>4, ProbedTokens

LEMMA HandlerKeepsAnswer ==
  ASSUME TypeOK, AnswerInv, UpdateFromOutput
  PROVE  AnswerInv' /\ (CompletedIsWord => CompletedIsWord')
<1> DEFINE b == Head(flight)
<1>1. /\ b \in Blocks /\ status = "running"
      /\ flight \in Seq(Blocks) /\ flight # <<>>
      /\ \/ FinishOov(b)
         \/ FinishEmpty(b)
         \/ \E n \in 0..Len(Kept(b)),
               how \in {"none", "completed", "cut", "cap", "signature", "stop",
                        "soup", "repetition"} : Outcome(b, n, how)
  BY HandlerOutcomes
<1>2. ~b.spec => Len(b.tokens) = 1
  <2>1. 1 \in 1..Len(flight) /\ b = flight[1]
    BY <1>1, HeadTailProperties
  <2> QED
    BY <2>1 DEF AnswerInv, SingleTokens
<1>3. SingleTokens'
  <2>1. flight' = Tail(flight)
    BY HandlerConsumes
  <2>2. /\ Len(Tail(flight)) = Len(flight) - 1 /\ Len(flight) \in Nat
        /\ \A i \in 1..Len(Tail(flight)) : Tail(flight)[i] = flight[i + 1]
    BY <1>1, HeadTailProperties
  <2>3. \A i \in 1..Len(Tail(flight)) : i + 1 \in 1..Len(flight)
    BY <2>2
  <2> QED
    BY <2>1, <2>2, <2>3 DEF AnswerInv, SingleTokens
<1>4. enforce => Answer = matched /\ matched \in Reachable
  BY <1>1 DEF AnswerInv, EnforcedAnswerValid
<1> HIDE DEF b
<1>5. CASE FinishOov(b)
  <2>1. /\ out' = out /\ reasoning' = reasoning /\ status' = "error" /\ ending' = "oov"
    BY <1>5 DEF FinishOov
  <2>2. ReasoningTracked'
    BY <2>1 DEF AnswerInv, ReasoningTracked, Marks
  <2> QED
    BY <1>3, <2>1, <2>2 DEF AnswerInv, EnforcedAnswerValid, CompletedIsWord
<1>6. CASE FinishEmpty(b)
  <2>1. /\ out' = out /\ reasoning' = reasoning /\ enforce' = enforce
        /\ matched' = matched /\ ending' = Kind(b) /\ Kept(b) = <<>>
    BY <1>6 DEF FinishEmpty, matcherVars
  <2>2. ReasoningTracked' /\ Answer' = Answer
    BY <2>1 DEF AnswerInv, ReasoningTracked, Marks, Answer
  <2>3. EnforcedAnswerValid'
    BY <1>4, <2>1, <2>2 DEF EnforcedAnswerValid
  <2>4. ASSUME Kind(b) = "completed"
        PROVE  Answer \in Words
    <3> DEFINE G == GrammarTokens(b.tokens)
               S == GrammarStart(b.tokens)
               P == Probe(matched, G)
    <3>1. enforce /\ Terminated(matched \o Take(G, P)) /\ Kept(b) = Take(b.tokens, S + P)
      BY <2>4 DEF Kind, Kept, ProbeTerminates
    <3>2. b.tokens \in Seq(Tokens)
      BY <1>1 DEF Blocks
    <3>3. S \in 0..Len(b.tokens) /\ G \in Seq(Tokens) /\ Len(G) = Len(b.tokens) - S
      BY <3>2, GrammarTokensType
    <3>4. P \in 0..Len(G)
      BY <3>3, ProbeType
    <3> HIDE DEF P, S, G
    <3>5. S + P \in 0..Len(b.tokens)
      BY <3>2, <3>3, <3>4
    <3>6. S + P = 0
      BY <2>1, <3>1, <3>2, <3>5, TakeType
    <3>7. P = 0
      BY <3>3, <3>4, <3>6
    <3>8. matched \o Take(G, P) = matched
      <4>1. Take(G, 0) = <<>> /\ matched \in Seq(Tokens)
        BY <3>3, TakeNone DEF TypeOK
      <4> QED
        BY <3>7, <4>1
    <3> QED
      BY <1>4, <3>1, <3>8 DEF Terminated
  <2>5. CompletedIsWord'
    BY <2>1, <2>2, <2>4 DEF CompletedIsWord
  <2> QED
    BY <1>3, <2>2, <2>3, <2>5 DEF AnswerInv
<1>7. ASSUME NEW n \in 0..Len(Kept(b)), NEW how, Outcome(b, n, how)
      PROVE  AnswerInv' /\ CompletedIsWord'
  <2> DEFINE t == Take(Kept(b), n)
             g == GrammarTokens(t)
             live == enforce /\ Kind(b) # "salvaged"
             rejected == live /\ g # <<>> /\ ~AcceptsTokens(matched, g)
  <2>1. /\ t \in Seq(Tokens) /\ out' = out \o t
        /\ reasoning' = (reasoning /\ ThinkEnd \notin ToSet(t))
    BY <1>1, <1>7, OutcomeFacts
  <2>2. n \in Nat /\ live \in BOOLEAN /\ rejected \in BOOLEAN
    BY DEF TypeOK
  <2>3. /\ matched' = IF live THEN Advanced(matched, g) ELSE matched
        /\ enforce' = (live /\ ~(rejected /\ GrammarSalvage))
        /\ status' = IF rejected /\ ~GrammarSalvage THEN "error"
                     ELSE IF how = "none" THEN "running" ELSE "stopped"
        /\ ending' = IF rejected /\ ~GrammarSalvage THEN "rejected" ELSE how
    BY <1>7, <2>2, OutcomeGrammar
  <2>4. ReasoningTracked' /\ Answer' = Answer \o g
    BY <2>1, AnswerGrows DEF AnswerInv
  <2>5. ASSUME live, ~rejected
        PROVE  /\ Answer' = matched' /\ Answer' \in Reachable
    <3>1. enforce /\ Kind(b) # "salvaged" /\ (g = <<>> \/ AcceptsTokens(matched, g))
      BY <2>5
    <3>2. matched \o g \in Reachable /\ Advanced(matched, g) = matched \o g
      BY <1>1, <1>2, <1>4, <3>1, KeptAccepted
    <3> QED
      BY <1>4, <2>3, <2>4, <2>5, <3>1, <3>2
  <2>6. EnforcedAnswerValid'
    <3> SUFFICES ASSUME enforce', status' # "error"
                 PROVE  live /\ ~rejected
      BY <2>5 DEF EnforcedAnswerValid
    <3> HIDE DEF live, rejected
    <3> QED
      BY <2>2, <2>3
  <2>7. ASSUME how = "completed"
        PROVE  Answer' \in Words
    <3>1. n = Len(Kept(b)) /\ Kind(b) = "completed"
      BY <1>7, <2>7 DEF Outcome
    <3> DEFINE G == GrammarTokens(b.tokens)
               S == GrammarStart(b.tokens)
               P == Probe(matched, G)
    <3>2. enforce /\ Terminated(matched \o Take(G, P)) /\ Kept(b) = Take(b.tokens, S + P)
      BY <3>1 DEF Kind, Kept, ProbeTerminates
    <3>3. b.tokens \in Seq(Tokens)
      BY <1>1 DEF Blocks
    <3>4. S \in 0..Len(b.tokens) /\ G \in Seq(Tokens) /\ Len(G) = Len(b.tokens) - S
      BY <3>3, GrammarTokensType
    <3>5. P \in 0..Len(G)
      BY <3>4, ProbeType
    <3> HIDE DEF P
    <3>6. S + P \in 0..Len(b.tokens) /\ GrammarTokens(Take(b.tokens, S + P)) = Take(G, P)
      BY <3>3, <3>5, GrammarTokensOfPrefix
    <3>7. g = Take(G, P)
      <4>1. t = Take(b.tokens, S + P)
        <5> HIDE DEF S
        <5>1. Take(b.tokens, S + P) \in Seq(Tokens)
          BY <3>3, <3>6, TakeType
        <5> QED
          BY <3>1, <3>2, <5>1, TakeAll
      <4> HIDE DEF t, G, S
      <4> QED
        BY <3>6, <4>1
    <3> QED
      BY <1>4, <2>4, <3>2, <3>7 DEF Terminated
  <2>8. CompletedIsWord'
    BY <2>3, <2>7 DEF CompletedIsWord
  <2> QED
    BY <1>3, <2>4, <2>6, <2>8 DEF AnswerInv
<1> QED
  BY <1>1, <1>5, <1>6, <1>7

LEMMA SampleKeepsAnswer ==
  ASSUME TypeOK, AnswerInv, NEW k \in {0, NumSpec}, NEW m \in 1..(k + 1), NEW view,
         Sample(k, m, view)
  PROVE  AnswerInv'
<1>1. PICK d \in [1..k -> Tokens \ Oov], x \in Tokens :
        flight' = Append(flight, [spec |-> k > 0, tokens |-> Append(Take(d, m - 1), x),
                                  at |-> Len(worker)])
  BY DEF Sample
<1> DEFINE b == [spec |-> k > 0, tokens |-> Append(Take(d, m - 1), x),
                 at |-> Len(worker)]
<1>2. UNCHANGED <<out, enforce, reasoning, matched, status>>
  BY DEF Sample, matcherVars
<1>3. ~b.spec => Len(b.tokens) = 1
  <2> SUFFICES ASSUME ~(k > 0)
               PROVE  Len(Append(Take(d, m - 1), x)) = 1
    OBVIOUS
  <2>1. k = 0 /\ m - 1 = 0
    BY CommitAssumption
  <2>2. d \in Seq(Tokens)
    BY <2>1
  <2>3. Take(d, m - 1) = <<>>
    <3>1. Take(d, 0) = <<>>
      BY <2>2, TakeNone
    <3> QED
      BY <2>1, <3>1
  <2> QED
    BY <2>3
<1>4. SingleTokens'
  <2>1. flight \in Seq(Blocks) /\ flight' = Append(flight, b)
    BY <1>1 DEF TypeOK
  <2> HIDE DEF b
  <2>2. /\ Len(flight') = Len(flight) + 1 /\ Len(flight) \in Nat
        /\ \A i \in 1..Len(flight) : flight'[i] = flight[i]
        /\ flight'[Len(flight) + 1] = b
    BY <2>1
  <2>3. ASSUME NEW i \in 1..Len(flight'), ~flight'[i].spec
        PROVE  Len(flight'[i].tokens) = 1
    <3>1. CASE i \in 1..Len(flight)
      BY <2>2, <2>3, <3>1 DEF AnswerInv, SingleTokens
    <3>2. CASE i = Len(flight) + 1
      BY <1>3, <2>2, <2>3, <3>2
    <3> QED
      BY <2>2, <3>1, <3>2
  <2> QED
    BY <2>3 DEF SingleTokens
<1> QED
  BY <1>2, <1>4 DEF AnswerInv, ReasoningTracked, Marks, EnforcedAnswerValid, Answer

LEMMA InitAnswer ==
  ASSUME Init, Structured => Words # {}
  PROVE  AnswerInv
<1>1. out = <<>> /\ enforce = Structured /\ reasoning = Reasons /\ matched = <<>> /\ flight = <<>>
  BY DEF Init
<1>2. Marks(out) = {}
  BY <1>1 DEF Marks
<1>3. ReasoningTracked
  BY <1>1, <1>2, CommitAssumption DEF ReasoningTracked
<1>4. SingleTokens
  BY <1>1 DEF SingleTokens
<1>5. EnforcedAnswerValid
  <2>1. Answer = <<>>
    BY <1>1, <1>2, AnswerIs
  <2>2. Structured => <<>> \in Reachable
    BY NothingReachable
  <2> QED
    BY <1>1, <2>1, <2>2 DEF EnforcedAnswerValid
<1> QED
  BY <1>3, <1>4, <1>5 DEF AnswerInv

\* Every step keeps the invariant, and a request that ends because its grammar
\* completed has delivered a word.
LEMMA NextAnswer ==
  IInv /\ AnswerInv /\ CompletedIsWord /\ [Next]_vars => AnswerInv' /\ CompletedIsWord'
<1> SUFFICES ASSUME IInv, AnswerInv, CompletedIsWord, [Next]_vars
             PROVE  AnswerInv' /\ CompletedIsWord'
  OBVIOUS
<1>1. TypeOK
  BY DEF IInv
<1>2. CASE Run
  <2>1. PICK k \in {0, NumSpec}, view \in Views : \E m \in 1..(k + 1) : Sample(k, m, view)
    BY <1>2 DEF Run
  <2>2. PICK m \in 1..(k + 1) : Sample(k, m, view)
    BY <2>1
  <2>3. UNCHANGED <<out, ending>>
    BY <2>2 DEF Sample
  <2> QED
    BY <1>1, <2>2, <2>3, SampleKeepsAnswer DEF CompletedIsWord, Answer
<1>3. CASE UpdateFromOutput
  BY <1>1, <1>3, HandlerKeepsAnswer
<1>4. CASE Skip
  <2>1. /\ flight \in Seq(Blocks) /\ flight # <<>> /\ flight' = Tail(flight)
        /\ UNCHANGED <<status, ending, out, enforce, reasoning, matched>>
    BY <1>1, <1>4 DEF Skip, TypeOK, matcherVars
  <2>2. /\ Len(flight') = Len(flight) - 1 /\ Len(flight) \in Nat
        /\ \A i \in 1..Len(flight') : flight'[i] = flight[i + 1] /\ i + 1 \in 1..Len(flight)
    BY <2>1, HeadTailProperties
  <2>3. SingleTokens'
    BY <2>2 DEF AnswerInv, SingleTokens
  <2> QED
    BY <2>1, <2>3 DEF AnswerInv, ReasoningTracked, Marks, EnforcedAnswerValid, Answer, CompletedIsWord
<1>5. CASE Done \/ UNCHANGED vars
  <2>1. UNCHANGED <<flight, status, ending, out, enforce, reasoning, matched>>
    BY <1>5 DEF Done, vars, matcherVars
  <2> QED
    BY <2>1 DEF AnswerInv, SingleTokens, ReasoningTracked, Marks, EnforcedAnswerValid,
                Answer, CompletedIsWord
<1> QED
  BY <1>2, <1>3, <1>4, <1>5 DEF Next

\* The reasoning flag follows the output, a block without drafts is one token, and
\* the enforced part of the answer is what the matcher has accepted; if the
\* grammar ended the request, it is a word.
THEOREM AnswerInvariance ==
  ASSUME Structured => Words # {}
  PROVE  Spec => [](AnswerInv /\ CompletedIsWord)
<1>1. Init => AnswerInv /\ CompletedIsWord
  <2>1. Init => CompletedIsWord
    BY DEF Init, CompletedIsWord
  <2> QED
    BY <2>1, InitAnswer
<1>2. IInv /\ AnswerInv /\ CompletedIsWord /\ [Next]_vars => (AnswerInv /\ CompletedIsWord)'
  BY NextAnswer
<1> QED
  BY <1>1, <1>2, Invariance, PTL DEF Spec

\* While the grammar is enforced, the answer that was delivered is what the
\* matcher has accepted and a prefix of a word: whatever the windows' masks
\* left free, however the filter, the guard, the stops and the tripwires cut
\* the blocks, and across the end of the reasoning.  The grammar generates
\* something.
THEOREM AnswersValid ==
  ASSUME Structured => Words # {}
  PROVE  Spec => []EnforcedAnswerValid
<1>1. AnswerInv => EnforcedAnswerValid
  BY DEF AnswerInv
<1> QED
  BY <1>1, AnswerInvariance, PTL

\* TYPE-A: a request that ends because its grammar completed has delivered a
\* whole word (patches/README.md 302-309).
THEOREM CompletedWords ==
  ASSUME Structured => Words # {}
  PROVE  Spec => []CompletedIsWord
BY AnswerInvariance, PTL

-------------------------------------------------------------------------------
(* How long enforcement lasts. *)

\* Every window of a request but its first has drafts: there are drafts to
\* schedule, and no request is resumed without them.  No grammar accepts the
\* empty answer.
WindowsHaveDrafts == ~Resumes /\ NumSpec > 0 /\ <<>> \notin Words

\* While the grammar is enforced, no block is sampled ahead.
OneAhead == enforce => Len(flight) <= 1

\* A block without drafts is the first, and its token is one that the mask
\* allowed and the matcher still waits for.
FirstAllowed ==
  \A i \in 1..Len(flight) :
    LET b == flight[i]
    IN  ~b.spec => /\ b.at = 0
                   /\ enforce /\ ~reasoning =>
                        b.tokens[1] \in Oov \/ Append(matched, b.tokens[1]) \in Reachable

FirstInv == OneAhead /\ FirstAllowed

\* The request of a block without drafts has delivered nothing before it.
LEMMA FirstBlock ==
  ASSUME IInv, AnswerInv, FirstInv, status = "running", flight # <<>>, enforce,
         NEW b, b = Head(flight), ~b.spec
  PROVE  /\ matched = <<>> /\ matched \in Reachable
         /\ ~reasoning => b.tokens[1] \in Oov \/ Append(<<>>, b.tokens[1]) \in Reachable
<1>1. flight \in Seq(Blocks) /\ out \in Seq(Tokens)
  BY DEF IInv, TypeOK
<1>2. 1 \in 1..Len(flight) /\ b = flight[1]
  BY <1>1, HeadTailProperties
<1>3. b.at = Len(out)
  BY <1>2 DEF IInv, HistoriesAgree
<1>4. /\ b.at = 0
      /\ ~reasoning => b.tokens[1] \in Oov \/ Append(matched, b.tokens[1]) \in Reachable
  BY <1>2 DEF FirstInv, FirstAllowed
<1>5. out = <<>>
  BY <1>1, <1>3, <1>4, EmptySeq
<1>6. Answer = matched /\ Answer \in Reachable
  BY DEF AnswerInv, EnforcedAnswerValid
<1>7. Answer = <<>>
  BY <1>5, AnswerIs DEF Marks
<1> QED
  BY <1>4, <1>6, <1>7

\* The first block, if the mask allowed it, is accepted.
LEMMA FirstAccepted ==
  ASSUME WindowsHaveDrafts, IInv, AnswerInv, FirstInv, status = "running",
         flight # <<>>, enforce, NEW b, b = Head(flight), ~b.spec, Committable(b),
         NEW n \in 0..Len(Kept(b)), NEW g, g = GrammarTokens(Take(Kept(b), n)), g # <<>>
  PROVE  AcceptsTokens(matched, g)
<1> DEFINE t == b.tokens
<1>1. flight \in Seq(Blocks) /\ b \in Blocks /\ t \in Seq(Tokens)
  <2>1. flight \in Seq(Blocks)
    BY DEF IInv, TypeOK
  <2>2. b \in Blocks
    BY <2>1, HeadTailProperties
  <2> QED
    BY <2>1, <2>2 DEF Blocks
<1>2. Len(t) = 1
  <2>1. 1 \in 1..Len(flight) /\ b = flight[1]
    BY <1>1, HeadTailProperties
  <2> QED
    BY <2>1 DEF AnswerInv, SingleTokens
<1>3. Kept(b) = t
  BY DEF Kind, Kept
<1> HIDE DEF t
<1>4. Take(t, n) \in Seq(Tokens) /\ Len(Take(t, n)) = n /\ n \in 0..1
  BY <1>1, <1>2, <1>3, TakeType
<1>5. /\ GrammarStart(Take(t, n)) \in 0..n
      /\ g \in Seq(Tokens) /\ Len(g) = n - GrammarStart(Take(t, n))
  BY <1>3, <1>4, GrammarTokensType
<1>6. n = 1 /\ GrammarStart(Take(t, n)) = 0
  <2>1. Len(g) # 0
    BY <1>5, EmptySeq
  <2> QED
    BY <1>4, <1>5, <2>1
<1>7. Take(t, n) = t
  BY <1>1, <1>2, <1>6, TakeAll
<1>8. ~reasoning
  <2> SUFFICES ASSUME reasoning
               PROVE  FALSE
    OBVIOUS
  <2>1. GrammarStart(t) = IF Marks(t) = {} THEN Len(t) ELSE Min(Marks(t))
    BY GrammarStartIs
  <2>2. Marks(t) # {} => Min(Marks(t)) \in 1..Len(t)
    BY <1>1, FirstMark
  <2> QED
    BY <1>2, <1>6, <1>7, <2>1, <2>2
<1>9. g = t
  <2>1. SubSeq(t, 1, Len(t)) = t
    BY <1>1, SubSeqFull
  <2>2. GrammarStart(t) = 0
    BY <1>6, <1>7
  <2>3. GrammarTokens(t) = SubSeq(t, 0 + 1, Len(t))
    BY <2>2 DEF GrammarTokens
  <2> QED
    BY <1>3, <1>7, <2>1, <2>3
<1>10. /\ matched = <<>>
       /\ t[1] \in Oov \/ Append(<<>>, t[1]) \in Reachable
  BY <1>8, FirstBlock DEF t
<1>11. t[1] \notin Oov
  BY <1>2 DEF Committable, t
<1>12. t = Append(<<>>, t[1])
  <2> DEFINE x == t[1]
             a == Append(<<>>, x)
  <2>1. x \in Tokens /\ <<>> \in Seq(Tokens)
    <3>1. 1 \in 1..Len(t)
      BY <1>2
    <3>2. t[1] \in Tokens
      BY <1>1, <3>1
    <3> QED
      BY <3>2
  <2> HIDE DEF x
  <2>2. a \in Seq(Tokens) /\ Len(a) = 1 /\ a[1] = x
    BY <2>1, AppendProperties
  <2> HIDE DEF a
  <2>3. \A i \in 1..Len(t) : t[i] = a[i]
    BY <1>2, <2>2 DEF x
  <2>4. t = a
    BY <1>1, <1>2, <2>2, <2>3, SeqEqual
  <2> QED
    BY <2>4 DEF a, x
<1>13. t \in Reachable
  BY <1>10, <1>11, <1>12
<1>14. <<>> \o Take(t, 1) = t /\ <<>> \o Take(t, 0) = <<>>
  <2>1. Take(t, 0) = <<>> /\ Take(t, 1) = t
    BY <1>1, <1>2, TakeNone, TakeAll
  <2> QED
    BY <1>1, <2>1
<1>15. Probe(matched, g) = Len(g)
  <2>1. 1 \in 1..Len(t) /\ \A k \in 0..(1 - 1) : k = 0
    BY <1>2
  <2>2. \A k \in 0..(1 - 1) : <<>> \o Take(t, k) \notin Words
    BY <1>14, <2>1 DEF WindowsHaveDrafts
  <2>3. 1 <= Probe(<<>>, t)
    BY <1>1, <1>13, <1>14, <2>1, <2>2, ProbeFacts
  <2>4. Probe(<<>>, t) \in 0..1
    BY <1>1, <1>2, ProbeType
  <2>5. Probe(<<>>, t) = Len(t)
    BY <1>2, <2>3, <2>4
  <2> QED
    BY <1>9, <1>10, <2>5
<1> QED
  BY <1>10, <1>15 DEF AcceptsTokens, Terminated, WindowsHaveDrafts

\* So nothing that the filter kept is ever rejected: enforcement ends with
\* salvage only, and no block ends the request in error.
LEMMA NothingRejected ==
  ASSUME WindowsHaveDrafts, IInv, AnswerInv, FirstInv, status = "running",
         flight # <<>>, NEW b, b = Head(flight), NEW n \in 0..Len(Kept(b)), NEW how,
         Outcome(b, n, how)
  PROVE  /\ enforce' = (enforce /\ Kind(b) # "salvaged")
         /\ status' = IF how = "none" THEN "running" ELSE "stopped"
         /\ abandoned' = IF enforce /\ ~enforce' THEN Len(out) ELSE abandoned
<1> DEFINE g == GrammarTokens(Take(Kept(b), n))
           live == enforce /\ Kind(b) # "salvaged"
           rejected == live /\ g # <<>> /\ ~AcceptsTokens(matched, g)
<1>1. TypeOK /\ enforce \in BOOLEAN
  BY DEF IInv, TypeOK
<1>2. b \in Blocks
  <2>1. flight \in Seq(Blocks)
    BY <1>1 DEF TypeOK
  <2> QED
    BY <2>1, HeadTailProperties
<1>3. Committable(b)
  BY DEF Outcome
<1>4. n \in Nat /\ live \in BOOLEAN /\ rejected \in BOOLEAN
  BY <1>1
<1>5. /\ enforce' = (live /\ ~(rejected /\ GrammarSalvage))
      /\ abandoned' = IF enforce /\ ~enforce' THEN Len(out) ELSE abandoned
      /\ status' = IF rejected /\ ~GrammarSalvage THEN "error"
                   ELSE IF how = "none" THEN "running" ELSE "stopped"
  BY <1>1, <1>4, OutcomeGrammar
<1>6. ~rejected
  <2> SUFFICES ASSUME enforce, Kind(b) # "salvaged", g # <<>>
               PROVE  AcceptsTokens(matched, g)
    OBVIOUS
  <2>1. CASE b.spec
    <3>1. matched \in Reachable
      BY DEF AnswerInv, EnforcedAnswerValid
    <3> QED
      BY <1>1, <1>2, <2>1, <3>1, KeptAccepted
  <2>2. CASE ~b.spec
    BY <1>3, <2>2, FirstAccepted
  <2> QED
    BY <2>1, <2>2
<1> HIDE DEF rejected
<1> QED
  BY <1>5, <1>6

LEMMA SampleKeepsFirst ==
  ASSUME WindowsHaveDrafts, IInv, AnswerInv, FirstInv,
         NEW k \in {0, NumSpec}, NEW m \in 1..(k + 1), NEW view, Sample(k, m, view)
  PROVE  FirstInv'
<1>1. PICK d \in [1..k -> Tokens \ Oov], x \in Tokens :
        /\ Allowed(d, m, x, view)
        /\ flight' = Append(flight, [spec |-> k > 0, tokens |-> Append(Take(d, m - 1), x),
                                     at |-> Len(worker)])
  BY DEF Sample
<1> DEFINE b == [spec |-> k > 0, tokens |-> Append(Take(d, m - 1), x),
                 at |-> Len(worker)]
<1>2. /\ UNCHANGED <<out, enforce, reasoning, matched, status>>
      /\ status = "running" /\ Len(flight) < (IF enforce THEN 1 ELSE Ahead)
      /\ k = 0 => worker = <<>>
  BY DEF Sample, matcherVars, WindowsHaveDrafts
<1>3. /\ flight \in Seq(Blocks) /\ worker \in Seq(Tokens) /\ out \in Seq(Tokens)
      /\ matched \in Seq(Tokens)
  BY DEF IInv, TypeOK
<1>4. ASSUME k = 0
      PROVE  /\ b.at = 0
             /\ enforce /\ ~reasoning =>
                  b.tokens[1] \in Oov \/ Append(matched, b.tokens[1]) \in Reachable
  <2>1. b.at = 0
    BY <1>2, <1>4
  <2>2. d \in Seq(Tokens) /\ Len(d) = 0 /\ m - 1 = 0 /\ m = 1
    BY <1>4
  <2>3. b.tokens[1] = x
    <3>1. Take(d, 0) = <<>>
      BY <2>2, TakeNone
    <3>2. b.tokens = Append(<<>>, x)
      BY <2>2, <3>1
    <3> QED
      BY <3>2
  <2> HIDE DEF b
  <2>4. ASSUME enforce, ~reasoning, x \notin Oov
        PROVE  Append(matched, x) \in Reachable
    <3> DEFINE p == ShownDrafts(matched, d, view)
               s == matched \o Take(d, Min({1 - 1, p}))
    <3>1. RowAllows(matched, d, p, 1, x)
      BY <1>1, <2>2, <2>4 DEF Allowed
    <3>2. p \in Nat
      <4>1. Probe(matched, d) \in 0..Len(d)
        BY <2>2, ProbeType
      <4> QED
        BY <2>2, <4>1 DEF ShownDrafts
    <3> HIDE DEF p
    <3>3. Min({1 - 1, p}) = 0
      BY <3>2, MinOfPair
    <3>4. s = matched
      <4>1. Take(d, 0) = <<>>
        BY <2>2, TakeNone
      <4>2. s = matched \o Take(d, 0)
        BY <3>3
      <4>3. matched \o <<>> = matched
        BY <1>3
      <4> QED
        BY <4>1, <4>2, <4>3
    <3>5. matched = <<>>
      <4>1. flight = <<>>
        BY <1>2, <1>3, <2>4, EmptySeq
      <4>2. out = <<>>
        BY <1>2, <1>4, <4>1 DEF IInv, HistoriesAgree
      <4>3. Answer = <<>>
        BY <4>2, AnswerIs DEF Marks
      <4> QED
        BY <1>2, <2>4, <4>3 DEF AnswerInv, EnforcedAnswerValid
    <3>6. ~(1 > p + 1)
      BY <3>2
    <3>7. Terminated(s) \/ Append(s, x) \in Reachable
      <4> HIDE DEF s
      <4> QED
        BY <3>1, <3>6 DEF RowAllows, s
    <3> QED
      BY <3>4, <3>5, <3>7 DEF Terminated, WindowsHaveDrafts
  <2> QED
    BY <2>1, <2>3, <2>4
<1>5. flight' = Append(flight, b) /\ (~b.spec => k = 0)
  <2>1. flight' = Append(flight, b)
    BY <1>1
  <2>2. k # 0 => k > 0
    BY CommitAssumption
  <2>3. ~b.spec => ~(k > 0)
    OBVIOUS
  <2> QED
    BY <2>1, <2>2, <2>3
<1> HIDE DEF b
<1>6. /\ Len(flight') = Len(flight) + 1 /\ Len(flight) \in Nat
      /\ \A i \in 1..Len(flight) : flight'[i] = flight[i]
      /\ flight'[Len(flight) + 1] = b
  BY <1>3, <1>5
<1>7. OneAhead'
  BY <1>2, <1>6 DEF OneAhead
<1>8. FirstAllowed'
  <2> SUFFICES ASSUME NEW i \in 1..Len(flight'), ~flight'[i].spec
               PROVE  /\ flight'[i].at = 0
                      /\ enforce' /\ ~reasoning' =>
                           \/ flight'[i].tokens[1] \in Oov
                           \/ Append(matched', flight'[i].tokens[1]) \in Reachable
    BY DEF FirstAllowed
  <2>1. CASE i \in 1..Len(flight)
    BY <1>2, <1>6, <2>1 DEF FirstInv, FirstAllowed
  <2>2. CASE i = Len(flight) + 1
    BY <1>2, <1>4, <1>5, <1>6, <2>2
  <2> QED
    BY <1>6, <2>1, <2>2
<1> QED
  BY <1>7, <1>8 DEF FirstInv

\* A block that leaves the flight leaves none behind while enforcement lasts.
LEMMA TailKeepsFirst ==
  ASSUME TypeOK, FirstInv, flight # <<>>, flight' = Tail(flight), enforce' => enforce
  PROVE  FirstInv'
<1>1. flight \in Seq(Blocks)
  BY DEF TypeOK
<1>2. /\ Len(flight') = Len(flight) - 1 /\ Len(flight) \in Nat
      /\ \A i \in 1..Len(flight') : flight'[i] = flight[i + 1] /\ i + 1 \in 1..Len(flight)
  BY <1>1, HeadTailProperties
<1>3. OneAhead'
  BY <1>2 DEF FirstInv, OneAhead
<1>4. FirstAllowed'
  <2> SUFFICES ASSUME NEW i \in 1..Len(flight'), ~flight'[i].spec
               PROVE  flight'[i].at = 0 /\ ~enforce'
    BY DEF FirstAllowed
  <2>1. flight'[i].at = 0
    BY <1>2 DEF FirstInv, FirstAllowed
  <2>2. ~enforce'
    BY <1>2 DEF FirstInv, OneAhead
  <2> QED
    BY <2>1, <2>2
<1> QED
  BY <1>3, <1>4 DEF FirstInv

\* Enforcement never starts again.
LEMMA HandlerEnforces ==
  ASSUME TypeOK, UpdateFromOutput
  PROVE  enforce' => enforce
<1> DEFINE b == Head(flight)
<1>1. \/ FinishOov(b)
      \/ FinishEmpty(b)
      \/ \E n \in 0..Len(Kept(b)),
            how \in {"none", "completed", "cut", "cap", "signature", "stop",
                     "soup", "repetition"} : Outcome(b, n, how)
  BY HandlerOutcomes
<1> HIDE DEF b
<1>2. CASE FinishOov(b)
  BY <1>2 DEF FinishOov
<1>3. CASE FinishEmpty(b)
  BY <1>3 DEF FinishEmpty, matcherVars
<1>4. ASSUME NEW n \in 0..Len(Kept(b)), NEW how, Outcome(b, n, how)
      PROVE  enforce' => enforce
  BY <1>4 DEF Outcome, Keep
<1> QED
  BY <1>1, <1>2, <1>3, <1>4

LEMMA NextFirst ==
  WindowsHaveDrafts /\ IInv /\ AnswerInv /\ FirstInv /\ [Next]_vars => FirstInv'
<1> SUFFICES ASSUME WindowsHaveDrafts, IInv, AnswerInv, FirstInv, [Next]_vars
             PROVE  FirstInv'
  OBVIOUS
<1>1. TypeOK
  BY DEF IInv
<1>2. CASE Run
  <2>1. PICK k \in {0, NumSpec}, view \in Views : \E m \in 1..(k + 1) : Sample(k, m, view)
    BY <1>2 DEF Run
  <2>2. PICK m \in 1..(k + 1) : Sample(k, m, view)
    BY <2>1
  <2> QED
    BY <2>2, SampleKeepsFirst
<1>3. CASE UpdateFromOutput
  <2>1. flight # <<>> /\ flight' = Tail(flight) /\ (enforce' => enforce)
    BY <1>1, <1>3, HandlerConsumes, HandlerEnforces DEF UpdateFromOutput
  <2> QED
    BY <1>1, <2>1, TailKeepsFirst
<1>4. CASE Skip
  BY <1>1, <1>4, TailKeepsFirst DEF Skip, matcherVars
<1>5. CASE Done \/ UNCHANGED vars
  <2>1. UNCHANGED <<flight, enforce, reasoning, matched>>
    BY <1>5 DEF Done, vars, matcherVars
  <2> QED
    BY <2>1 DEF FirstInv, OneAhead, FirstAllowed
<1> QED
  BY <1>2, <1>3, <1>4, <1>5 DEF Next

-------------------------------------------------------------------------------
(* The tail of a request whose enforcement was abandoned. *)

\* While the request runs, what it may still deliver and what it delivered
\* since make up the salvage budget.
TailInv ==
  abandoned # Off =>
    /\ ~enforce
    /\ SalvageBudget >= 0 /\ status = "running" =>
         budget # Off /\ budget + (Len(out) - abandoned) = SalvageBudget

\* The budget and the length after an outcome.
LEMMA OutcomeBudget ==
  ASSUME TypeOK, NEW b \in Blocks, NEW n \in 0..Len(Kept(b)), NEW how, Outcome(b, n, how),
         Budget(b) # Off
  PROVE  /\ Len(out') = Len(out) + n /\ n <= Budget(b) + 1
         /\ how = "none" => budget' = Budget(b) - n /\ budget' \in Nat
<1> DEFINE t == Take(Kept(b), n)
<1>1. out \in Seq(Tokens) /\ t \in Seq(Tokens) /\ Len(t) = n /\ out' = out \o t
  BY OutcomeFacts DEF TypeOK
<1>2. Len(out') = Len(out) + n
  <2> HIDE DEF t
  <2> QED
    BY <1>1
<1>3. Kept(b) # <<>> /\ Kept(b) \in Seq(Tokens)
  BY KeptType DEF Outcome, Committable
<1>4. Budget(b) \in Nat
  BY BudgetType
<1>5. Committed(b) \in 1..Len(Kept(b)) /\ Committed(b) <= Budget(b) + 1
  BY <1>3, <1>4, CommittedType
<1>6. n <= Committed(b)
  BY DEF Outcome
<1>7. ASSUME how = "none"
      PROVE  budget' = Budget(b) - n /\ budget' \in Nat
  <2>1. n = Len(Kept(b)) /\ Survives(b)
    BY <1>7 DEF Outcome
  <2>2. Committed(b) = n
    BY <2>1, SurvivesWhole
  <2>3. budget' = Budget(b) - Committed(b)
    BY DEF Outcome, Keep
  <2>4. n \in 1..Len(Kept(b))
    BY <1>5, <2>2
  <2>5. ~CapAt(b, n)
    BY <2>1, <2>4 DEF Survives
  <2>6. ~(n > Budget(b))
    BY <2>5 DEF CapAt
  <2> QED
    BY <1>4, <2>2, <2>3, <2>4, <2>6
<1> QED
  BY <1>2, <1>3, <1>4, <1>5, <1>6, <1>7

\* The sums of the tail.
LEMMA TailSum ==
  ASSUME NEW l \in Nat, NEW a \in Nat, NEW B \in Nat, NEW S \in Int, NEW n \in Nat,
         B + (l - a) = S, n <= B + 1
  PROVE  /\ (l + n) - a <= S + 1
         /\ (B - n) + ((l + n) - a) = S
         /\ B - n \in Nat => (l + n) - a <= S
OBVIOUS

LEMMA HandlerKeepsTail ==
  ASSUME WindowsHaveDrafts, IInv, AnswerInv, FirstInv, TailInv, TailBounded,
         UpdateFromOutput
  PROVE  TailInv' /\ TailBounded'
<1> DEFINE b == Head(flight)
<1>1. TypeOK
  BY DEF IInv
<1>2. /\ b \in Blocks /\ status = "running" /\ flight # <<>>
      /\ \/ FinishOov(b)
         \/ FinishEmpty(b)
         \/ \E n \in 0..Len(Kept(b)),
               how \in {"none", "completed", "cut", "cap", "signature", "stop",
                        "soup", "repetition"} : Outcome(b, n, how)
  BY <1>1, HandlerOutcomes
<1>3. Len(out) \in Nat /\ abandoned \in Nat \cup {Off} /\ SalvageBudget \in Int
  BY <1>1, CommitAssumption DEF TypeOK
<1>4. CASE FinishOov(b)
  <2>1. out' = out /\ abandoned' = abandoned /\ status' = "error" /\ ~enforce'
    BY <1>4 DEF FinishOov
  <2> QED
    BY <1>2, <2>1 DEF TailInv, TailBounded
<1>5. CASE FinishEmpty(b)
  <2>1. out' = out /\ abandoned' = abandoned /\ status' = "stopped" /\ enforce' = enforce
    BY <1>5 DEF FinishEmpty, matcherVars
  <2> QED
    BY <1>2, <2>1 DEF TailInv, TailBounded
<1>6. ASSUME NEW n \in 0..Len(Kept(b)), NEW how, Outcome(b, n, how)
      PROVE  TailInv' /\ TailBounded'
  <2>1. /\ enforce' = (enforce /\ Kind(b) # "salvaged")
        /\ status' = IF how = "none" THEN "running" ELSE "stopped"
        /\ abandoned' = IF enforce /\ ~enforce' THEN Len(out) ELSE abandoned
    BY <1>2, <1>6, NothingRejected
  <2> HIDE DEF b
  <2> SUFFICES ASSUME abandoned' # Off
               PROVE  /\ ~enforce'
                      /\ SalvageBudget >= 0 =>
                           /\ Len(out') - abandoned' <= SalvageBudget + 1
                           /\ status' = "running" =>
                                /\ budget' # Off
                                /\ budget' + (Len(out') - abandoned') = SalvageBudget
                                /\ Len(out') - abandoned' <= SalvageBudget
    BY DEF TailInv, TailBounded
  <2>2. ~enforce'
    BY <2>1 DEF TailInv
  <2>3. abandoned' \in Nat
    BY <1>3, <2>1
  <2>4. ASSUME SalvageBudget >= 0
        PROVE  Budget(b) \in Nat /\ Budget(b) + (Len(out) - abandoned') = SalvageBudget
    <3>1. CASE enforce
      <4>1. Kind(b) = "salvaged" /\ abandoned' = Len(out)
        BY <2>1, <2>2, <3>1
      <4>2. Budget(b) = SalvageBudget
        BY <2>4, <4>1 DEF Budget
      <4> QED
        BY <1>3, <2>4, <4>1, <4>2
    <3>2. CASE ~enforce
      <4>1. Kind(b) # "salvaged" /\ abandoned' = abandoned
        BY <2>1, <3>2 DEF Kind
      <4>2. Budget(b) = budget
        BY <4>1 DEF Budget
      <4>3. budget # Off /\ budget + (Len(out) - abandoned) = SalvageBudget
        BY <1>2, <2>4, <4>1 DEF TailInv
      <4>4. budget \in Nat \cup {Off}
        BY <1>1 DEF TypeOK
      <4> QED
        BY <4>1, <4>2, <4>3, <4>4
    <3> QED
      BY <3>1, <3>2
  <2>5. ASSUME SalvageBudget >= 0
        PROVE  /\ Len(out') - abandoned' <= SalvageBudget + 1
               /\ how = "none" =>
                    /\ budget' # Off
                    /\ budget' + (Len(out') - abandoned') = SalvageBudget
                    /\ Len(out') - abandoned' <= SalvageBudget
    <3>1. Budget(b) \in Nat /\ Budget(b) + (Len(out) - abandoned') = SalvageBudget
      BY <2>4, <2>5
    <3>2. Budget(b) # Off
      BY <3>1 DEF Off
    <3>3. /\ Len(out') = Len(out) + n /\ n <= Budget(b) + 1
          /\ how = "none" => budget' = Budget(b) - n /\ budget' \in Nat
      BY <1>1, <1>2, <1>6, <3>2, OutcomeBudget
    <3>4. n \in Nat
      OBVIOUS
    <3>5. /\ (Len(out) + n) - abandoned' <= SalvageBudget + 1
          /\ (Budget(b) - n) + ((Len(out) + n) - abandoned') = SalvageBudget
          /\ Budget(b) - n \in Nat => (Len(out) + n) - abandoned' <= SalvageBudget
      BY <1>3, <2>3, <3>1, <3>3, <3>4, TailSum
    <3> QED
      BY <3>3, <3>5 DEF Off
  <2> QED
    BY <2>1, <2>2, <2>5
<1> QED
  BY <1>2, <1>4, <1>5, <1>6

LEMMA NextTail ==
  /\ WindowsHaveDrafts /\ IInv /\ AnswerInv /\ FirstInv /\ TailInv /\ TailBounded
  /\ [Next]_vars
  => TailInv' /\ TailBounded'
<1> SUFFICES ASSUME WindowsHaveDrafts, IInv, AnswerInv, FirstInv, TailInv, TailBounded,
                    [Next]_vars
             PROVE  TailInv' /\ TailBounded'
  OBVIOUS
<1>1. CASE UpdateFromOutput
  BY <1>1, HandlerKeepsTail
<1>2. CASE Run \/ Skip \/ Done \/ UNCHANGED vars
  <2>1. UNCHANGED <<status, out, enforce, budget, abandoned>>
    BY <1>2 DEF Run, Sample, Skip, Done, vars, matcherVars, guardVars
  <2> QED
    BY <2>1 DEF TailInv, TailBounded
<1> QED
  BY <1>1, <1>2 DEF Next

LEMMA InitFirst == Init => FirstInv /\ TailInv /\ TailBounded
BY DEF Init, FirstInv, OneAhead, FirstAllowed, TailInv, TailBounded

\* An enforced request has at most one block in flight, and a block without
\* drafts is its first, of one token that its mask allowed.
THEOREM FirstInvariance ==
  ASSUME WindowsHaveDrafts, Structured => Words # {}
  PROVE  Spec => []FirstInv
<1>1. Init => FirstInv
  BY InitFirst
<1>2. IInv /\ AnswerInv /\ FirstInv /\ [Next]_vars => FirstInv'
  BY NextFirst
<1> QED
  BY <1>1, <1>2, Invariance, AnswerInvariance, PTL DEF Spec

\* Wherever enforcement was abandoned, what the request delivers after that is
\* bounded by the salvage budget, and by one more token when it ends
\* (patches/README.md 353-359).  Every window but the first has drafts: a
\* request that resumes without them may lose enforcement where no budget is
\* armed, as the run block_resume shows.
THEOREM TailBound ==
  ASSUME WindowsHaveDrafts, Structured => Words # {}
  PROVE  Spec => []TailBounded
<1>1. Init => TailInv /\ TailBounded
  BY InitFirst
<1>2. IInv /\ AnswerInv /\ FirstInv /\ TailInv /\ TailBounded /\ [Next]_vars
        => TailInv' /\ TailBounded'
  BY NextTail
<1> QED
  BY <1>1, <1>2, Invariance, AnswerInvariance, FirstInvariance, PTL DEF Spec

-------------------------------------------------------------------------------
(* When enforcement lasts as long as the request. *)

\* Enforcement that is neither lost to a salvage nor to a failed request.
Enforced == status # "error" => enforce

LEMMA HandlerKeepsEnforced ==
  ASSUME WindowsHaveDrafts, IInv, AnswerInv, FirstInv, Enforced, UpdateFromOutput,
         Committable(Head(flight)) => Kind(Head(flight)) # "salvaged"
  PROVE  Enforced'
<1> DEFINE b == Head(flight)
<1>1. TypeOK
  BY DEF IInv
<1>2. /\ status = "running" /\ flight # <<>>
      /\ \/ FinishOov(b)
         \/ FinishEmpty(b)
         \/ \E n \in 0..Len(Kept(b)),
               how \in {"none", "completed", "cut", "cap", "signature", "stop",
                        "soup", "repetition"} : Outcome(b, n, how)
  BY <1>1, HandlerOutcomes
<1>3. enforce
  BY <1>2 DEF Enforced
<1>4. Committable(b) => Kind(b) # "salvaged"
  OBVIOUS
<1>5. CASE FinishOov(b)
  BY <1>5 DEF FinishOov, Enforced
<1>6. CASE FinishEmpty(b)
  BY <1>3, <1>6 DEF FinishEmpty, matcherVars, Enforced
<1>7. ASSUME NEW n \in 0..Len(Kept(b)), NEW how, Outcome(b, n, how)
      PROVE  Enforced'
  <2>1. enforce' = (enforce /\ Kind(b) # "salvaged")
    BY <1>2, <1>7, NothingRejected
  <2>2. Committable(b)
    BY <1>7 DEF Outcome
  <2> HIDE DEF b
  <2> QED
    BY <1>3, <1>4, <2>1, <2>2 DEF Enforced
<1> QED
  BY <1>2, <1>5, <1>6, <1>7

LEMMA OtherStepsKeepEnforced ==
  ASSUME Enforced, Run \/ Skip \/ Done \/ UNCHANGED vars
  PROVE  Enforced'
<1>1. UNCHANGED <<status, enforce>>
  BY DEF Run, Sample, Skip, Done, vars, matcherVars
<1> QED
  BY <1>1 DEF Enforced

\* Under the finish policy a rejected block ends the request where the grammar
\* ends, and nothing that the grammar rejects is ever delivered (0025 54-61).
THEOREM FinishedAnswers ==
  ASSUME WindowsHaveDrafts, Structured, Words # {}
  PROVE  Spec => []FinishedAnswerValid
<1>1. CASE Policy # "finish"
  <2>1. FinishedAnswerValid
    BY <1>1 DEF FinishedAnswerValid
  <2> QED
    BY <2>1, PTL
<1>2. CASE Policy = "finish"
  <2>1. Init => Enforced
    BY DEF Init, Enforced
  <2>2. \A b : Kind(b) # "salvaged"
    BY <1>2 DEF Kind
  <2>3. IInv /\ AnswerInv /\ FirstInv /\ Enforced /\ [Next]_vars => Enforced'
    BY <2>2, HandlerKeepsEnforced, OtherStepsKeepEnforced DEF Next
  <2>4. AnswerInv /\ Enforced => FinishedAnswerValid
    BY DEF AnswerInv, EnforcedAnswerValid, Enforced, FinishedAnswerValid
  <2> QED
    BY <2>1, <2>3, <2>4, Invariance, AnswerInvariance, FirstInvariance, PTL DEF Spec
<1> QED
  BY <1>1, <1>2

\* A probe stops in a matcher that terminates.
LEMMA TerminatesAt ==
  ASSUME NEW s \in Seq(Tokens), NEW t \in Seq(Tokens), NEW n \in 0..Len(t),
         s \o Take(t, n) \in Words, \A k \in 0..(n - 1) : s \o Take(t, k) \notin Words
  PROVE  ProbeTerminates(s, t)
<1> DEFINE q == Probe(s, t)
<1>1. /\ q \in 0..Len(t)
      /\ q > 0 => \A k \in 0..(q - 1) : s \o Take(t, k) \notin Words
  BY ProbeFacts
<1>2. n >= 1 => n <= q
  <2> SUFFICES ASSUME n >= 1
               PROVE  n <= q
    OBVIOUS
  <2>1. n \in 1..Len(t) /\ s \o Take(t, n) \in Reachable
    BY WordsReachable
  <2> QED
    BY <2>1, ProbeFacts
<1> HIDE DEF q
<1>3. ~(q > n)
  <2> SUFFICES ASSUME q > n
               PROVE  FALSE
    OBVIOUS
  <2>1. n \in 0..(q - 1)
    BY <1>1
  <2> QED
    BY <1>1, <2>1
<1>4. q = n
  BY <1>1, <1>2, <1>3
<1> QED
  BY <1>4 DEF q, ProbeTerminates, Terminated

\* A block whose window shows the drafts that the grammar accepts is accepted
\* in full or up to a word: the first row that is not covered by a draft is
\* still filled, and a draft it allows would have been shown.
LEMMA CoveredWindow ==
  ASSUME NEW s \in Seq(Tokens), NEW d \in Seq(Tokens), NEW m \in 1..(Len(d) + 1),
         NEW x \in Tokens, NEW p, p = Probe(s, d),
         \A i \in 1..(m - 1) : RowAllows(s, d, p, i, d[i]),
         RowAllows(s, d, p, m, x),
         NEW t, t = Append(Take(d, m - 1), x)
  PROVE  Probe(s, t) = Len(t) \/ ProbeTerminates(s, t)
<1>1. m - 1 \in 0..Len(d)
  OBVIOUS
<1>2. /\ Take(d, m - 1) \in Seq(Tokens) /\ Len(Take(d, m - 1)) = m - 1
      /\ \A i \in 1..(m - 1) : Take(d, m - 1)[i] = d[i]
  BY <1>1, TakeType
<1>3. t \in Seq(Tokens) /\ Len(t) = m /\ m \in Nat
  BY <1>2, AppendProperties
<1>4. Take(t, m - 1) = Take(d, m - 1) /\ Take(t, m) = t
  <2>1. t = Take(d, m - 1) \o <<x>>
    BY <1>2
  <2>2. Take(t, m) = t
    BY <1>3, TakeAll
  <2>3. m - 1 \in 0..Len(t)
    BY <1>3
  <2>4. /\ Take(t, m - 1) \in Seq(Tokens) /\ Len(Take(t, m - 1)) = m - 1
        /\ \A i \in 1..(m - 1) : Take(t, m - 1)[i] = t[i]
    BY <1>3, <2>3, TakeType
  <2>5. \A i \in 1..(m - 1) : t[i] = Take(d, m - 1)[i]
    BY <1>2, AppendProperties
  <2>6. Take(t, m - 1) = Take(d, m - 1)
    BY <1>2, <2>4, <2>5, SeqEqual
  <2> QED
    BY <2>2, <2>6
<1>5. ASSUME NEW k \in 0..(m - 1)
      PROVE  Take(t, k) = Take(d, k)
  <2>1. m - 1 \in 0..Len(t)
    BY <1>3
  <2>2. Take(Take(t, m - 1), k) = Take(t, k)
    BY <1>3, <2>1, TakeTake
  <2>3. Take(Take(d, m - 1), k) = Take(d, k)
    BY <1>1, TakeTake
  <2> QED
    BY <1>4, <2>2, <2>3
<1>6. /\ p \in 0..Len(d)
      /\ \A k \in 0..(p - 1) : s \o Take(d, k) \notin Words
  <2>1. p \in 0..Len(d)
    BY ProbeType
  <2>2. p > 0 => \A k \in 0..(p - 1) : s \o Take(d, k) \notin Words
    BY ProbeFacts
  <2> QED
    BY <2>1, <2>2
\* A row with all of its drafts shown allows only what the grammar accepts.
<1>7. ASSUME NEW i \in 1..m, i - 1 <= p, NEW y, RowAllows(s, d, p, i, y)
      PROVE  s \o Take(d, i - 1) \in Words \/ Append(s \o Take(d, i - 1), y) \in Reachable
  <2>1. Min({i - 1, p}) = i - 1
    BY <1>6, <1>7, MinOfPair
  <2>2. ~(i > p + 1)
    BY <1>6, <1>7
  <2> QED
    BY <1>7, <2>1, <2>2 DEF RowAllows, Terminated
<1>8. CASE m - 1 <= p
  <2>1. s \o Take(d, m - 1) \in Words \/ Append(s \o Take(d, m - 1), x) \in Reachable
    BY <1>3, <1>7, <1>8
  <2>2. \A k \in 0..(m - 2) : s \o Take(t, k) \notin Words
    <3> SUFFICES ASSUME NEW k \in 0..(m - 2)
                 PROVE  s \o Take(t, k) \notin Words
      OBVIOUS
    <3>1. k \in 0..(p - 1) /\ k \in 0..(m - 1)
      BY <1>6, <1>8
    <3> QED
      BY <1>5, <1>6, <3>1
  <2>3. CASE s \o Take(d, m - 1) \in Words
    <3>1. s \o Take(t, m - 1) \in Words /\ m - 1 \in 0..Len(t)
      BY <1>3, <1>4, <2>3
    <3>2. \A k \in 0..((m - 1) - 1) : s \o Take(t, k) \notin Words
      BY <2>2
    <3> QED
      BY <1>3, <3>1, <3>2, TerminatesAt
  <2>4. CASE s \o Take(d, m - 1) \notin Words
    <3>1. s \o Take(t, m) \in Reachable
      <4>1. s \o t = Append(s \o Take(d, m - 1), x)
        BY <1>2, AppendToConcat
      <4> QED
        BY <1>4, <2>1, <2>4, <4>1
    <3>2. \A k \in 0..(m - 1) : s \o Take(t, k) \notin Words
      <4> SUFFICES ASSUME NEW k \in 0..(m - 1)
                   PROVE  s \o Take(t, k) \notin Words
        OBVIOUS
      <4>1. k \in 0..(m - 2) \/ k = m - 1
        OBVIOUS
      <4> QED
        BY <1>4, <2>2, <2>4, <4>1
    <3>3. m \in 1..Len(t)
      BY <1>3
    <3>4. m <= Probe(s, t)
      BY <1>3, <3>1, <3>2, <3>3, ProbeFacts
    <3>5. Probe(s, t) \in 0..m
      BY <1>3, ProbeType
    <3> QED
      BY <1>3, <3>4, <3>5
  <2> QED
    BY <2>3, <2>4
<1>9. CASE ~(m - 1 <= p)
  <2> DEFINE i == p + 1
  <2>1. i \in 1..(m - 1) /\ i \in 1..m /\ i - 1 = p /\ i \in 1..Len(d) /\ p \in 0..(m - 1)
    BY <1>1, <1>6, <1>9
  <2> HIDE DEF i
  <2>2. s \o Take(d, p) \in Words \/ Append(s \o Take(d, p), d[i]) \in Reachable
    BY <1>6, <1>7, <2>1
  <2>3. CASE s \o Take(d, p) \in Words
    <3>1. s \o Take(t, p) \in Words /\ p \in 0..Len(t)
      BY <1>3, <1>5, <2>1, <2>3
    <3>2. \A k \in 0..(p - 1) : s \o Take(t, k) \notin Words
      <4> SUFFICES ASSUME NEW k \in 0..(p - 1)
                   PROVE  s \o Take(t, k) \notin Words
        OBVIOUS
      <4>1. k \in 0..(m - 1)
        BY <1>6, <2>1
      <4> QED
        BY <1>5, <1>6, <4>1
    <3> QED
      BY <1>3, <3>1, <3>2, TerminatesAt
  <2>4. CASE s \o Take(d, p) \notin Words
    <3>1. Take(d, i) = Append(Take(d, p), d[i])
      BY <2>1, TakeNext
    <3>2. Take(d, p) \in Seq(Tokens) /\ d[i] \in Tokens
      BY <1>6, <2>1, TakeType
    <3>3. s \o Take(d, i) = Append(s \o Take(d, p), d[i])
      BY <3>1, <3>2, AppendToConcat
    <3>4. s \o Take(d, i) \in Reachable
      BY <2>2, <2>4, <3>3
    <3>5. \A k \in 0..(i - 1) : s \o Take(d, k) \notin Words
      <4> SUFFICES ASSUME NEW k \in 0..(i - 1)
                   PROVE  s \o Take(d, k) \notin Words
        OBVIOUS
      <4>1. k \in 0..(p - 1) \/ k = p
        BY <1>6, <2>1
      <4> QED
        BY <1>6, <2>4, <4>1
    <3>6. i <= Probe(s, d)
      BY <2>1, <3>4, <3>5, ProbeFacts
    <3> QED
      BY <1>6, <2>1, <3>6
  <2> QED
    BY <2>3, <2>4
<1> QED
  BY <1>8, <1>9

\* Every speculative block of an enforced request is accepted in full or up to
\* a word by the matcher as it stands, unless it carries a bad id.
DraftsCovered ==
  \A i \in 1..Len(flight) :
    LET t == flight[i].tokens
    IN  flight[i].spec /\ enforce /\ (\A j \in 1..Len(t) : t[j] \notin Oov)
          => Probe(matched, t) = Len(t) \/ ProbeTerminates(matched, t)

LEMMA SampleKeepsCovered ==
  ASSUME Views \subseteq {"drafts"}, TypeOK, ~reasoning, DraftsCovered,
         NEW k \in {0, NumSpec}, NEW m \in 1..(k + 1), NEW view \in Views,
         Sample(k, m, view)
  PROVE  DraftsCovered'
<1>1. PICK d \in [1..k -> Tokens \ Oov], x \in Tokens :
        /\ Allowed(d, m, x, view)
        /\ flight' = Append(flight, [spec |-> k > 0, tokens |-> Append(Take(d, m - 1), x),
                                     at |-> Len(worker)])
  BY DEF Sample
<1> DEFINE t == Append(Take(d, m - 1), x)
           b == [spec |-> k > 0, tokens |-> t, at |-> Len(worker)]
<1>2. flight \in Seq(Blocks) /\ matched \in Seq(Tokens)
      /\ UNCHANGED <<enforce, matched>> /\ flight' = Append(flight, b)
  BY <1>1 DEF Sample, matcherVars, TypeOK
<1>3. k \in Nat /\ d \in Seq(Tokens) /\ Len(d) = k
  <2>1. k \in Nat
    BY CommitAssumption
  <2>2. d \in Seq(Tokens \ Oov) /\ Len(d) = k
    BY <2>1
  <2> QED
    BY <2>1, <2>2
<1>4. ASSUME enforce, \A j \in 1..Len(t) : t[j] \notin Oov
      PROVE  Probe(matched, t) = Len(t) \/ ProbeTerminates(matched, t)
  <2>1. Take(d, m - 1) \in Seq(Tokens) /\ Len(Take(d, m - 1)) = m - 1
    <3>1. m - 1 \in 0..Len(d)
      BY <1>3
    <3> QED
      BY <1>3, <3>1, TakeType
  <2>2. Len(t) = m /\ t[m] = x /\ m \in 1..Len(t)
    BY <1>3, <2>1, AppendProperties
  <2>3. x \notin Oov
    BY <1>4, <2>2
  <2> HIDE DEF t
  <2> DEFINE p == ShownDrafts(matched, d, view)
  <2>4. /\ \A i \in 1..(m - 1) : RowAllows(matched, d, p, i, d[i])
        /\ RowAllows(matched, d, p, m, x)
    BY <1>1, <1>4, <2>3 DEF Allowed
  <2>5. p = Probe(matched, d)
    BY DEF ShownDrafts
  <2>6. m \in 1..(Len(d) + 1)
    BY <1>3
  <2> HIDE DEF p
  <2> QED
    BY <1>2, <1>3, <2>4, <2>5, <2>6, CoveredWindow DEF t
<1> HIDE DEF t
<1>5. b.tokens = t
  OBVIOUS
<1> HIDE DEF b
<1>6. /\ Len(flight') = Len(flight) + 1 /\ Len(flight) \in Nat
      /\ \A i \in 1..Len(flight) : flight'[i] = flight[i]
      /\ flight'[Len(flight) + 1] = b
  BY <1>2
<1> SUFFICES ASSUME NEW i \in 1..Len(flight'), enforce',
                    \A j \in 1..Len(flight'[i].tokens) : flight'[i].tokens[j] \notin Oov,
                    flight'[i].spec
             PROVE  \/ Probe(matched', flight'[i].tokens) = Len(flight'[i].tokens)
                    \/ ProbeTerminates(matched', flight'[i].tokens)
  BY DEF DraftsCovered, ProbeTerminates, Terminated, Probe, Reachable, Take
<1>7. CASE i \in 1..Len(flight)
  BY <1>2, <1>6, <1>7 DEF DraftsCovered
<1>8. CASE i = Len(flight) + 1
  BY <1>2, <1>4, <1>5, <1>6, <1>8
<1> QED
  BY <1>6, <1>7, <1>8

LEMMA TailKeepsCovered ==
  ASSUME TypeOK, FirstInv, flight # <<>>, flight' = Tail(flight), enforce' => enforce
  PROVE  DraftsCovered'
<1>1. flight \in Seq(Blocks)
  BY DEF TypeOK
<1>2. Len(flight') = Len(flight) - 1 /\ Len(flight) \in Nat
  BY <1>1, HeadTailProperties
<1>3. enforce' => Len(flight') = 0
  BY <1>1, <1>2, EmptySeq DEF FirstInv, OneAhead
<1>4. CASE enforce'
  <2>1. Len(flight') = 0
    BY <1>3, <1>4
  <2>2. \A i \in 1..0 : FALSE
    OBVIOUS
  <2> QED
    BY <2>1, <2>2 DEF DraftsCovered
<1>5. CASE ~enforce'
  BY <1>5 DEF DraftsCovered
<1> QED
  BY <1>4, <1>5

\* A covered block is not salvaged.
LEMMA CoveredNotSalvaged ==
  ASSUME TypeOK, ~reasoning, DraftsCovered, flight # <<>>,
         NEW b, b = Head(flight), Committable(b)
  PROVE  Kind(b) # "salvaged"
<1> DEFINE t == b.tokens
<1>1. flight \in Seq(Blocks)
  BY DEF TypeOK
<1>2. b \in Blocks /\ t \in Seq(Tokens) /\ 1 \in 1..Len(flight) /\ b = flight[1]
  <2>1. b \in Blocks
    BY <1>1, HeadTailProperties
  <2>2. 1 \in 1..Len(flight) /\ b = flight[1]
    BY <1>1, HeadTailProperties
  <2> QED
    BY <2>1, <2>2 DEF Blocks
<1>3. GrammarTokens(t) = t
  <2>1. GrammarStart(t) = 0
    BY GrammarStartIs
  <2>2. GrammarTokens(t) = SubSeq(t, 0 + 1, Len(t))
    BY <2>1 DEF GrammarTokens
  <2>3. SubSeq(t, 1, Len(t)) = t
    BY <1>2, SubSeqFull
  <2> QED
    BY <2>2, <2>3
<1>4. b.spec /\ enforce => Probe(matched, t) = Len(t) \/ ProbeTerminates(matched, t)
  BY <1>2 DEF DraftsCovered, Committable
<1> QED
  BY <1>3, <1>4 DEF Kind

\* Where every window shows the drafts that its grammar accepts, enforcement
\* lasts as long as the request: no block is ever TYPE-B, under either policy,
\* and windows of placeholders are the only source of invalid commits (0028
\* PATCH.md, root cause).  A mask covers a window only if the reasoning does
\* not end within it.
THEOREM EnforcementLasts ==
  ASSUME WindowsHaveDrafts, Structured, Words # {}, ~Reasons, Views \subseteq {"drafts"}
  PROVE  Spec => []EnforcementHolds
<1>1. Init => Enforced /\ DraftsCovered
  BY DEF Init, Enforced, DraftsCovered
<1>2. AnswerInv => ~reasoning
  BY DEF AnswerInv, ReasoningTracked
<1>3. IInv /\ AnswerInv /\ FirstInv /\ DraftsCovered /\ Enforced /\ [Next]_vars
        => DraftsCovered' /\ Enforced'
  <2> SUFFICES ASSUME IInv, AnswerInv, FirstInv, DraftsCovered, Enforced, [Next]_vars
               PROVE  DraftsCovered' /\ Enforced'
    OBVIOUS
  <2>1. TypeOK /\ ~reasoning
    BY <1>2 DEF IInv
  <2>2. CASE Run
    <3>1. PICK k \in {0, NumSpec}, view \in Views : \E m \in 1..(k + 1) : Sample(k, m, view)
      BY <2>2 DEF Run
    <3>2. PICK m \in 1..(k + 1) : Sample(k, m, view)
      BY <3>1
    <3> QED
      BY <2>1, <2>2, <3>2, SampleKeepsCovered, OtherStepsKeepEnforced
  <2>3. CASE UpdateFromOutput
    <3>1. flight # <<>> /\ flight' = Tail(flight) /\ (enforce' => enforce)
      BY <2>1, <2>3, HandlerConsumes, HandlerEnforces DEF UpdateFromOutput
    <3>2. Committable(Head(flight)) => Kind(Head(flight)) # "salvaged"
      BY <2>1, <3>1, CoveredNotSalvaged
    <3> QED
      BY <2>1, <2>3, <3>1, <3>2, TailKeepsCovered, HandlerKeepsEnforced
  <2>4. CASE Skip
    <3>1. flight # <<>> /\ flight' = Tail(flight) /\ (enforce' => enforce)
      BY <2>4 DEF Skip, matcherVars
    <3> QED
      BY <2>1, <2>4, <3>1, TailKeepsCovered, OtherStepsKeepEnforced
  <2>5. CASE Done \/ UNCHANGED vars
    <3>1. UNCHANGED <<flight, enforce, matched>>
      BY <2>5 DEF Done, vars, matcherVars
    <3>2. DraftsCovered'
      BY <3>1 DEF DraftsCovered, ProbeTerminates, Terminated, Probe, Reachable, Take
    <3> QED
      BY <2>5, <3>2, OtherStepsKeepEnforced
  <2> QED
    BY <2>2, <2>3, <2>4, <2>5 DEF Next
<1>4. Enforced => EnforcementHolds
  BY DEF Enforced, EnforcementHolds
<1> QED
  BY <1>1, <1>3, <1>4, Invariance, AnswerInvariance, FirstInvariance, PTL DEF Spec

-------------------------------------------------------------------------------
(* Places in a sequence. *)

\* The word w is complete at place i of t.
EndsAt(w, t, i) ==
  Len(w) <= i /\ \A j \in 1..Len(w) : t[i - Len(w) + j] = w[j]

\* An occurrence, item by item.
LEMMA OccursIs ==
  ASSUME NEW T, NEW s \in SUBSET Seq(T), NEW t \in Seq(T), NEW i
  PROVE  i \in Occurrences(s, t) <=> i \in 1..Len(t) /\ \E w \in s : EndsAt(w, t, i)
<1>1. ASSUME i \in 1..Len(t), NEW w \in s, Len(w) <= i
      PROVE  SubSeq(t, i - Len(w) + 1, i) = w <=>
               \A j \in 1..Len(w) : t[i - Len(w) + j] = w[j]
  <2> DEFINE m == Len(w)
             p == i - m + 1
             u == SubSeq(t, p, i)
  <2>1. w \in Seq(T) /\ m \in Nat /\ i \in Int /\ i <= Len(t) /\ Len(t) \in Nat /\ m <= i
    BY <1>1
  <2>2. p \in Int /\ p >= 1 /\ i - p + 1 = m /\ p <= i + 1
    BY <2>1
  <2>3. \A j \in p..i : t[j] \in T
    <3> HIDE DEF p
    <3> SUFFICES ASSUME NEW j \in p..i
                 PROVE  t[j] \in T
      OBVIOUS
    <3>1. j \in 1..Len(t)
      BY <2>1, <2>2
    <3> QED
      BY <3>1, ElementOfSeq
  <2>4. /\ u \in Seq(T)
        /\ Len(u) = IF p <= i THEN i - p + 1 ELSE 0
        /\ \A j \in 1..(i - p + 1) : u[j] = t[p + j - 1]
    <3> HIDE DEF p
    <3>1. SubSeq(t, p, i) \in Seq(T)
      BY <2>1, <2>2, <2>3, SubSeqProperties
    <3>2. Len(SubSeq(t, p, i)) = IF p <= i THEN i - p + 1 ELSE 0
      BY <2>1, <2>2, <2>3, SubSeqProperties
    <3>3. \A j \in 1..(i - p + 1) : SubSeq(t, p, i)[j] = t[p + j - 1]
      BY <2>1, <2>2, <2>3, SubSeqProperties
    <3> QED
      BY <3>1, <3>2, <3>3
  <2>5. Len(u) = m
    <3> HIDE DEF u, m, p
    <3> QED
      BY <2>1, <2>2, <2>4
  <2>6. \A j \in 1..m : u[j] = t[i - m + j]
    <3> SUFFICES ASSUME NEW j \in 1..m
                 PROVE  u[j] = t[i - m + j]
      OBVIOUS
    <3>1. j \in 1..(i - p + 1) /\ p + j - 1 = i - m + j
      <4> HIDE DEF m
      <4> QED
        BY <2>1, <2>2
    <3> HIDE DEF u, m, p
    <3> QED
      BY <2>4, <3>1
  <2> HIDE DEF u
  <2>7. u = w => \A j \in 1..m : t[i - m + j] = w[j]
    BY <2>6
  <2>8. (\A j \in 1..m : t[i - m + j] = w[j]) => u = w
    <3> SUFFICES ASSUME \A j \in 1..m : t[i - m + j] = w[j]
                 PROVE  u = w
      OBVIOUS
    <3>1. \A j \in 1..Len(u) : u[j] = w[j]
      BY <2>5, <2>6
    <3> QED
      BY <2>1, <2>4, <2>5, <3>1, SeqEqual
  <2> QED
    BY <2>7, <2>8 DEF u
<1> QED
  BY <1>1 DEF Occurrences, EndsAt

\* The last n items of a sequence.
LEMMA LastTokensItems ==
  ASSUME NEW T, NEW t \in Seq(T), NEW n \in Nat, NEW a, a = Max({1, Len(t) - n + 1})
  PROVE  /\ a \in Nat /\ a = IF n >= Len(t) THEN 1 ELSE Len(t) - n + 1
         /\ LastTokens(t, n) \in Seq(T)
         /\ Len(LastTokens(t, n)) = Len(t) - a + 1
         /\ \A j \in 1..(Len(t) - a + 1) : LastTokens(t, n)[j] = t[a + j - 1]
<1>1. Len(t) \in Nat
  OBVIOUS
<1>2. a = IF 1 >= Len(t) - n + 1 THEN 1 ELSE Len(t) - n + 1
  BY <1>1, MaxOfPair
<1>3. a \in Nat /\ a >= 1 /\ a = (IF n >= Len(t) THEN 1 ELSE Len(t) - n + 1) /\ a <= Len(t) + 1
  BY <1>1, <1>2
<1>4. LastTokens(t, n) = SubSeq(t, a, Len(t))
  BY DEF LastTokens
<1>5. \A i \in a..Len(t) : t[i] \in T
  BY <1>3
<1>6. /\ SubSeq(t, a, Len(t)) \in Seq(T)
      /\ Len(SubSeq(t, a, Len(t))) = IF a <= Len(t) THEN Len(t) - a + 1 ELSE 0
      /\ \A j \in 1..(Len(t) - a + 1) : SubSeq(t, a, Len(t))[j] = t[a + j - 1]
  <2>1. a \in Int /\ Len(t) \in Int
    BY <1>1, <1>3
  <2>2. SubSeq(t, a, Len(t)) \in Seq(T)
    BY <2>1, <1>5, SubSeqProperties
  <2>3. Len(SubSeq(t, a, Len(t))) = IF a <= Len(t) THEN Len(t) - a + 1 ELSE 0
    BY <2>1, <1>5, SubSeqProperties
  <2>4. \A j \in 1..(Len(t) - a + 1) : SubSeq(t, a, Len(t))[j] = t[a + j - 1]
    BY <2>1, <1>5, SubSeqProperties
  <2> QED
    BY <2>2, <2>3, <2>4
<1>7. Len(SubSeq(t, a, Len(t))) = Len(t) - a + 1
  BY <1>1, <1>3, <1>6
<1> QED
  BY <1>3, <1>4, <1>6, <1>7

\* u is the part of t that starts at a, its last n items.
TailFrom(u, t, n, a) ==
  /\ a = IF n >= Len(t) THEN 1 ELSE Len(t) - n + 1
  /\ Len(u) = Len(t) - a + 1
  /\ \A j \in 1..(Len(t) - a + 1) : u[j] = t[a + j - 1]

LEMMA TailStart ==
  ASSUME NEW T, NEW t \in Seq(T), NEW n \in Nat
  PROVE  /\ LastTokens(t, n) \in Seq(T)
         /\ \E a \in Nat : TailFrom(LastTokens(t, n), t, n, a)
<1> DEFINE a == Max({1, Len(t) - n + 1})
<1>1. /\ a \in Nat /\ a = IF n >= Len(t) THEN 1 ELSE Len(t) - n + 1
      /\ LastTokens(t, n) \in Seq(T)
      /\ Len(LastTokens(t, n)) = Len(t) - a + 1
      /\ \A j \in 1..(Len(t) - a + 1) : LastTokens(t, n)[j] = t[a + j - 1]
  BY LastTokensItems
<1> HIDE DEF a
<1>2. TailFrom(LastTokens(t, n), t, n, a)
  BY <1>1 DEF TailFrom
<1> QED
  BY <1>1, <1>2

\* A word of s is complete in t, and started among its last n items.
WithinTail(s, t, n) ==
  \E w \in s : \E i \in 1..Len(t) : EndsAt(w, t, i) /\ i - Len(w) >= Len(t) - n

\* What occurs in the tail occurs in the sequence, and the other way around for
\* what starts within the tail.
LEMMA OccursInTail ==
  ASSUME NEW T, NEW s \in SUBSET Seq(T), <<>> \notin s, NEW t \in Seq(T), NEW n \in Nat
  PROVE  Occurrences(s, LastTokens(t, n)) # {} <=> WithinTail(s, t, n)
<1> DEFINE u == LastTokens(t, n)
           l == Len(t)
<1>0. PICK a \in Nat : TailFrom(u, t, n, a)
  BY TailStart
<1>1. a \in Nat /\ a = IF n >= l THEN 1 ELSE l - n + 1
  BY <1>0 DEF TailFrom
<1>2. u \in Seq(T) /\ Len(u) = l - a + 1
  BY <1>0, TailStart DEF TailFrom
<1>3. \A j \in 1..(l - a + 1) : u[j] = t[a + j - 1]
  BY <1>0 DEF TailFrom
<1>4. l \in Nat
  OBVIOUS
<1> HIDE DEF u, l
<1>5. \A k : k \in Occurrences(s, u) <=> k \in 1..Len(u) /\ \E w \in s : EndsAt(w, u, k)
  BY <1>2, OccursIs
<1>6. a >= 1 /\ \A x \in Int : x >= 0 => (x >= a - 1 <=> x >= l - n)
  BY <1>1, <1>4
<1>7. \A w \in s : Len(w) \in Nat /\ Len(w) >= 1
  <2> SUFFICES ASSUME NEW w \in s
               PROVE  Len(w) \in Nat /\ Len(w) >= 1
    OBVIOUS
  <2>1. w \in Seq(T) /\ w # <<>>
    OBVIOUS
  <2> QED
    BY <2>1, EmptySeq
<1>8. ASSUME NEW w \in s, NEW k \in 1..(l - a + 1), EndsAt(w, u, k)
      PROVE  \E i \in 1..l : EndsAt(w, t, i) /\ i - Len(w) >= l - n
  <2> DEFINE m == Len(w)
             i == a + k - 1
  <2>1. m \in Nat /\ m >= 1 /\ m <= k /\ k \in Int /\ k >= 1 /\ k <= l - a + 1
        /\ \A j \in 1..m : u[k - m + j] = w[j]
    BY <1>1, <1>4, <1>7, <1>8 DEF EndsAt
  <2> HIDE DEF m
  <2>2. /\ i \in Int /\ i >= 1 /\ i <= l /\ m <= i /\ i - m >= a - 1
        /\ i - m \in Int /\ i - m >= 0 /\ i \in 1..l
    BY <1>1, <1>4, <1>6, <2>1
  <2>3. i - m >= l - n
    BY <1>6, <2>2
  <2>4. ASSUME NEW j \in 1..m
        PROVE  t[i - m + j] = w[j]
    <3> DEFINE x == k - m + j
    <3>1. x \in 1..(l - a + 1) /\ a + x - 1 = i - m + j
      BY <1>1, <1>4, <2>1
    <3>2. u[x] = w[j]
      BY <2>1
    <3> HIDE DEF x, i
    <3> QED
      BY <1>3, <3>1, <3>2
  <2> HIDE DEF i
  <2>5. EndsAt(w, t, i)
    BY <2>2, <2>4 DEF EndsAt, m
  <2> QED
    BY <2>2, <2>3, <2>5 DEF m
<1>9. ASSUME NEW w \in s, NEW i \in 1..l, EndsAt(w, t, i), i - Len(w) >= l - n
      PROVE  \E k \in 1..(l - a + 1) : EndsAt(w, u, k)
  <2> DEFINE m == Len(w)
             k == i - a + 1
  <2>1. m \in Nat /\ m >= 1 /\ m <= i /\ i \in Int /\ i >= 1 /\ i <= l /\ i - m >= l - n
        /\ \A j \in 1..m : t[i - m + j] = w[j]
    BY <1>4, <1>7, <1>9 DEF EndsAt
  <2> HIDE DEF m
  <2>2. i - m \in Int /\ i - m >= 0
    BY <2>1
  <2>3. i - m >= a - 1
    BY <1>6, <2>1, <2>2
  <2>4. k \in 1..(l - a + 1) /\ m <= k
    BY <1>1, <1>4, <2>1, <2>3
  <2>5. ASSUME NEW j \in 1..m
        PROVE  u[k - m + j] = w[j]
    <3> DEFINE x == k - m + j
    <3>1. x \in 1..(l - a + 1) /\ a + x - 1 = i - m + j
      BY <1>1, <1>4, <2>1, <2>3
    <3>2. t[i - m + j] = w[j]
      BY <2>1
    <3>3. u[x] = w[j]
      <4> HIDE DEF x
      <4> QED
        BY <1>3, <3>1, <3>2
    <3> QED
      BY <3>3
  <2> HIDE DEF k
  <2> QED
    BY <2>4, <2>5 DEF EndsAt, m
<1>10. 1..Len(u) = 1..(l - a + 1)
  BY <1>2
<1>11. Occurrences(s, u) # {} <=> \E w \in s : \E k \in 1..(l - a + 1) : EndsAt(w, u, k)
  <2>1. Occurrences(s, u) # {} <=> \E k : k \in Occurrences(s, u)
    OBVIOUS
  <2> QED
    BY <1>5, <1>10, <2>1
<1>12. Occurrences(s, u) # {} <=>
         \E w \in s : \E i \in 1..l : EndsAt(w, t, i) /\ i - Len(w) >= l - n
  BY <1>8, <1>9, <1>11
<1> QED
  BY <1>12 DEF u, l, WithinTail

-------------------------------------------------------------------------------
(* The block after which the request goes on. *)

\* Of all outcomes only Commit leaves the request running, and it keeps the
\* whole block.
LEMMA GoesOn ==
  ASSUME TypeOK, UpdateFromOutput, status' = "running", NEW b, b = Head(flight)
  PROVE  /\ b \in Blocks /\ flight # <<>> /\ status = "running"
         /\ Commit(b)
         /\ Kept(b) = b.tokens /\ After(b, Len(Kept(b))) = out'
         /\ out' = out \o b.tokens
         /\ ending' = "none" /\ sigWatch' = Watch(b)
<1>1. flight \in Seq(Blocks) /\ flight # <<>> /\ status = "running" /\ out \in Seq(Tokens)
  BY DEF TypeOK, UpdateFromOutput
<1>2. b \in Blocks
  BY <1>1, HeadTailProperties
<1>3. ASSUME NEW cut, NEW how, Keep(b, cut, how)
      PROVE  how = "none" /\ ending' = "none" /\ sigWatch' = Watch(b)
  BY <1>3 DEF Keep
<1>4. ~FinishOov(b) /\ ~FinishEmpty(b)
  BY DEF FinishOov, FinishEmpty
<1>5. ~FinishCap(b)
  BY <1>3 DEF FinishCap
<1>6. ~FinishSignature(b)
  BY <1>3 DEF FinishSignature
<1>7. ~FinishStop(b)
  BY <1>3 DEF FinishStop
<1>8. ~FinishSoup(b)
  BY <1>3 DEF FinishSoup
<1>9. ~FinishRepetition(b)
  BY <1>3 DEF FinishRepetition
<1>10. Commit(b)
  BY <1>4, <1>5, <1>6, <1>7, <1>8, <1>9 DEF UpdateFromOutput
<1>11. /\ Kind(b) \in {"clean", "salvaged"}
       /\ ending' = "none" /\ sigWatch' = Watch(b)
  <2> DEFINE how == IF Kind(b) \in {"completed", "cut"} THEN Kind(b) ELSE "none"
  <2>1. Keep(b, Len(out) + Len(Kept(b)), how)
    BY <1>10 DEF Commit
  <2>2. how = "none" => Kind(b) \in {"clean", "salvaged"}
    BY KindType
  <2> HIDE DEF how
  <2> QED
    BY <1>3, <2>1, <2>2
<1>12. Kept(b) = b.tokens /\ b.tokens \in Seq(Tokens)
  BY <1>2, <1>11, KeptType
<1>13. out' = out \o b.tokens
  BY <1>1, HandlerConsumes
<1>14. Take(b.tokens, Len(b.tokens)) = b.tokens
  BY <1>12, TakeAll
<1> QED
  BY <1>1, <1>2, <1>10, <1>11, <1>12, <1>13, <1>14 DEF After

\* A step that is not the handler's leaves the output of a request that goes on
\* alone, and its counters.
LEMMA OtherSteps ==
  ASSUME Run \/ Skip \/ Done \/ UNCHANGED vars
  PROVE  UNCHANGED <<status, ending, out, sigWatch, streaks, totals, repStreak>>
<1>1. CASE Run
  <2>1. PICK k \in {0, NumSpec}, view \in Views : \E m \in 1..(k + 1) : Sample(k, m, view)
    BY <1>1 DEF Run
  <2>2. PICK m \in 1..(k + 1) : Sample(k, m, view)
    BY <2>1
  <2> QED
    BY <2>2 DEF Sample, guardVars, tripwireVars
<1>2. CASE Skip
  BY <1>2 DEF Skip, guardVars, tripwireVars
<1>3. CASE Done \/ UNCHANGED vars
  BY <1>3 DEF Done, vars, guardVars, tripwireVars
<1> QED
  BY <1>1, <1>2, <1>3

-------------------------------------------------------------------------------
(* The watch of a salvaged request. *)

LEMMA HandlerKeepsWatch ==
  ASSUME TypeOK, UpdateFromOutput, status' = "running", sigWatch'
  PROVE  ~SignatureHit(out')
<1> DEFINE b == Head(flight)
           n == Len(Kept(b))
<1>1. /\ Commit(b) /\ b \in Blocks /\ Kept(b) = b.tokens
      /\ After(b, n) = out' /\ sigWatch' = Watch(b)
  BY GoesOn
<1>2. Survives(b)
  BY <1>1 DEF Commit
<1>3. n \in 1..n
  <2>1. b.tokens \in Seq(Tokens) \ {<<>>}
    BY <1>1 DEF Blocks
  <2> QED
    BY <1>1, <2>1, EmptySeq
<1> HIDE DEF n, b
<1>4. ~SignatureAt(b, n)
  BY <1>2, <1>3 DEF Survives, n
<1> QED
  BY <1>1, <1>4 DEF SignatureAt

\* While the watch is on, no signature is in its window of a running request,
\* although blocks bring several tokens at a time: whatever the signatures, the
\* window, the blocks, the policy and however the watch came to be armed.
THEOREM WatchedTail == Spec => []WatchedTailClean
<1>1. Init => WatchedTailClean
  BY DEF Init, WatchedTailClean
<1>2. TypeOK /\ WatchedTailClean /\ [Next]_vars => WatchedTailClean'
  <2> SUFFICES ASSUME TypeOK, WatchedTailClean, [Next]_vars, status' = "running", sigWatch'
               PROVE  ~SignatureHit(out')
    BY DEF WatchedTailClean
  <2>1. CASE UpdateFromOutput
    BY <2>1, HandlerKeepsWatch
  <2>2. CASE ~UpdateFromOutput
    <3>1. UNCHANGED <<status, ending, out, sigWatch, streaks, totals, repStreak>>
      BY <2>2, OtherSteps DEF Next
    <3> QED
      BY <3>1 DEF WatchedTailClean
  <2> QED
    BY <2>1, <2>2
<1> QED
  BY <1>1, <1>2, TypeCorrect, PTL DEF Spec

-------------------------------------------------------------------------------
(* The lengths of blocks. *)

\* A block is a window's accepted drafts and one more token, and the block of a
\* batch with drafts has at least the least length.
Lengths ==
  \A i \in 1..Len(flight) :
    /\ Len(flight[i].tokens) <= NumSpec + 1
    /\ flight[i].spec => Len(flight[i].tokens) >= MinBlock

LEMMA SampleLength ==
  ASSUME TypeOK, NEW k \in {0, NumSpec}, NEW m \in 1..(k + 1), NEW view,
         Sample(k, m, view)
  PROVE  \E b \in Blocks : /\ flight' = Append(flight, b)
                           /\ Len(b.tokens) <= NumSpec + 1
                           /\ b.spec => Len(b.tokens) >= MinBlock
                           /\ b.spec = (k > 0)
<1>1. PICK d \in [1..k -> Tokens \ Oov], t \in Tokens :
        LET b == [spec |-> k > 0, tokens |-> Append(Take(d, m - 1), t),
                  at |-> Len(worker)]
        IN  flight' = Append(flight, b)
  BY DEF Sample
<1> DEFINE b == [spec |-> k > 0, tokens |-> Append(Take(d, m - 1), t),
                 at |-> Len(worker)]
<1>2. k \in Nat /\ m - 1 \in 0..k /\ k <= NumSpec /\ NumSpec \in Nat /\ m \in Nat
  BY CommitAssumption
<1>3. d \in Seq(Tokens) /\ Len(d) = k
  <2>1. d \in Seq(Tokens \ Oov) /\ Len(d) = k
    BY <1>2
  <2> QED
    BY <2>1
<1>4. Take(d, m - 1) \in Seq(Tokens) /\ Len(Take(d, m - 1)) = m - 1
  BY <1>2, <1>3, TakeType
<1>5. b.tokens \in Seq(Tokens) \ {<<>>} /\ Len(b.tokens) = (m - 1) + 1
  BY <1>4, AppendProperties
<1>6. Len(b.tokens) = m /\ m <= NumSpec + 1
  BY <1>2, <1>5
<1>7. b \in Blocks
  BY <1>5 DEF Blocks, TypeOK
<1>8. k > 0 => m >= MinBlock
  BY DEF Sample
<1>9. b.spec = (k > 0) /\ flight' = Append(flight, b)
  BY <1>1
<1> HIDE DEF b
<1> QED
  BY <1>6, <1>7, <1>8, <1>9

LEMMA NextLengths == TypeOK /\ Lengths /\ [Next]_vars => Lengths'
<1> SUFFICES ASSUME TypeOK, Lengths, [Next]_vars
             PROVE  Lengths'
  OBVIOUS
<1>1. flight \in Seq(Blocks)
  BY DEF TypeOK
<1>2. CASE Run
  <2>1. PICK k \in {0, NumSpec}, view \in Views : \E m \in 1..(k + 1) : Sample(k, m, view)
    BY <1>2 DEF Run
  <2>2. PICK m \in 1..(k + 1) : Sample(k, m, view)
    BY <2>1
  <2>3. PICK b \in Blocks : /\ flight' = Append(flight, b)
                            /\ Len(b.tokens) <= NumSpec + 1
                            /\ b.spec => Len(b.tokens) >= MinBlock
    BY <2>2, SampleLength
  <2>4. /\ Len(flight') = Len(flight) + 1 /\ flight'[Len(flight) + 1] = b
        /\ \A i \in 1..Len(flight) : flight'[i] = flight[i]
    BY <1>1, <2>3, AppendProperties
  <2> SUFFICES ASSUME NEW i \in 1..Len(flight')
               PROVE  /\ Len(flight'[i].tokens) <= NumSpec + 1
                      /\ flight'[i].spec => Len(flight'[i].tokens) >= MinBlock
    BY DEF Lengths
  <2>5. i = Len(flight) + 1 \/ i \in 1..Len(flight)
    BY <1>1, <2>4
  <2> QED
    BY <2>3, <2>4, <2>5 DEF Lengths
<1>3. CASE Skip \/ UpdateFromOutput
  <2>1. flight' = Tail(flight) /\ flight # <<>>
    BY <1>3, HandlerConsumes DEF Skip, UpdateFromOutput
  <2>2. Len(flight') = Len(flight) - 1 /\ \A i \in 1..Len(flight') : flight'[i] = flight[i + 1]
    BY <1>1, <2>1, HeadTailProperties
  <2> SUFFICES ASSUME NEW i \in 1..Len(flight')
               PROVE  /\ Len(flight'[i].tokens) <= NumSpec + 1
                      /\ flight'[i].spec => Len(flight'[i].tokens) >= MinBlock
    BY DEF Lengths
  <2>3. i + 1 \in 1..Len(flight)
    BY <1>1, <2>2
  <2> QED
    BY <2>2, <2>3 DEF Lengths
<1>4. CASE Done \/ UNCHANGED vars
  BY <1>4 DEF Lengths, Done, vars
<1> QED
  BY <1>2, <1>3, <1>4 DEF Next

LEMMA BlockLength ==
  ASSUME TypeOK, Lengths, flight # <<>>
  PROVE  /\ Head(flight).tokens \in Seq(Tokens)
         /\ Len(Head(flight).tokens) \in 1..(NumSpec + 1)
         /\ Head(flight).spec => Len(Head(flight).tokens) >= MinBlock
<1>1. flight \in Seq(Blocks)
  BY DEF TypeOK
<1>2. Head(flight) = flight[1] /\ Head(flight) \in Blocks
  BY <1>1, HeadTailProperties
<1>3. 1 \in 1..Len(flight)
  BY <1>1, EmptySeq
<1>4. Head(flight).tokens \in Seq(Tokens) \ {<<>>}
  BY <1>2 DEF Blocks
<1>5. Len(Head(flight).tokens) <= NumSpec + 1 /\ (Head(flight).spec => Len(Head(flight).tokens) >= MinBlock)
  BY <1>2, <1>3 DEF Lengths
<1> QED
  BY <1>4, <1>5, EmptySeq, CommitAssumption

-------------------------------------------------------------------------------
(* Occurrences in an output that grows. *)

LEMMA OccurrencesFinite ==
  ASSUME NEW s, NEW T, NEW t \in Seq(T)
  PROVE  IsFiniteSet(Occurrences(s, t)) /\ Cardinality(Occurrences(s, t)) \in Nat
<1>1. Len(t) \in Int
  OBVIOUS
<1>2. IsFiniteSet(1..Len(t))
  BY <1>1, FS_Interval
<1>3. Occurrences(s, t) \in SUBSET (1..Len(t))
  BY DEF Occurrences
<1> QED
  BY <1>2, <1>3, FS_Subset, FS_CardinalityType

\* What is complete in a sequence is so in its extensions, at the same place.
LEMMA EndsInExtension ==
  ASSUME NEW T, NEW w \in Seq(T), NEW o, NEW t, NEW l \in Nat, NEW i \in 1..l,
         \A j \in 1..l : t[j] = o[j]
  PROVE  EndsAt(w, o, i) <=> EndsAt(w, t, i)
<1> SUFFICES ASSUME Len(w) <= i, NEW j \in 1..Len(w)
             PROVE  o[i - Len(w) + j] = t[i - Len(w) + j]
  BY DEF EndsAt
<1> DEFINE m == Len(w)
           x == i - m + j
<1>1. m \in Nat /\ m <= i /\ j \in 1..m
  OBVIOUS
<1> HIDE DEF m
<1>2. x \in 1..l
  BY <1>1
<1> HIDE DEF x
<1>3. t[x] = o[x]
  BY <1>2
<1> QED
  BY <1>3 DEF x, m

\* What occurs in a sequence occurs in its extensions.
LEMMA OccursInExtension ==
  ASSUME NEW T, NEW s \in SUBSET Seq(T), NEW o \in Seq(T), NEW t \in Seq(T),
         Len(o) <= Len(t), \A j \in 1..Len(o) : t[j] = o[j]
  PROVE  /\ Occurrences(s, o) \subseteq Occurrences(s, t)
         /\ Cardinality(Occurrences(s, o)) <= Cardinality(Occurrences(s, t))
<1>1. ASSUME NEW i \in Occurrences(s, o)
      PROVE  i \in Occurrences(s, t)
  <2>1. i \in 1..Len(o) /\ \E w \in s : EndsAt(w, o, i)
    BY OccursIs
  <2>2. PICK w \in s : EndsAt(w, o, i)
    BY <2>1
  <2>3. w \in Seq(T) /\ Len(o) \in Nat /\ Len(t) \in Nat
    OBVIOUS
  <2>4. EndsAt(w, t, i)
    BY <2>1, <2>2, <2>3, EndsInExtension
  <2>5. i \in 1..Len(t)
    BY <2>1, <2>3
  <2> QED
    BY <2>4, <2>5, OccursIs
<1>2. Occurrences(s, o) \in SUBSET Occurrences(s, t)
  BY <1>1
<1>3. IsFiniteSet(Occurrences(s, t))
  BY OccurrencesFinite
<1> QED
  BY <1>2, <1>3, FS_Subset

\* What occurs before the new tokens occurred before them.
LEMMA OccurrencesGrow ==
  ASSUME NEW T, NEW s \in SUBSET Seq(T), NEW o \in Seq(T), NEW e \in Seq(T),
         NEW i \in Occurrences(s, o \o e)
  PROVE  i \in Occurrences(s, o) \/ i \in (Len(o) + 1)..(Len(o) + Len(e))
<1> DEFINE c == o \o e
<1>1. c \in Seq(T) /\ Len(c) = Len(o) + Len(e)
  BY ConcatProperties
<1>2. \A j \in 1..Len(o) : c[j] = o[j]
  BY ConcatProperties
<1>3. Len(o) \in Nat /\ Len(e) \in Nat
  OBVIOUS
<1> HIDE DEF c
<1>4. i \in 1..Len(c) /\ \E w \in s : EndsAt(w, c, i)
  BY <1>1, OccursIs DEF c
<1>5. i \in 1..Len(o) \/ i \in (Len(o) + 1)..(Len(o) + Len(e))
  BY <1>1, <1>3, <1>4
<1>6. CASE i \in 1..Len(o)
  <2>1. PICK w \in s : EndsAt(w, c, i)
    BY <1>4
  <2>2. EndsAt(w, o, i)
    BY <1>2, <1>3, <1>6, <2>1, EndsInExtension
  <2> QED
    BY <1>6, <2>2, OccursIs
<1> QED
  BY <1>5, <1>6

\* New tokens bring at most as many occurrences as there are of them.
LEMMA OccurrencesAdded ==
  ASSUME NEW T, NEW s \in SUBSET Seq(T), NEW o \in Seq(T), NEW e \in Seq(T)
  PROVE  Cardinality(Occurrences(s, o \o e)) <= Cardinality(Occurrences(s, o)) + Len(e)
<1> DEFINE A == Occurrences(s, o)
           B == (Len(o) + 1)..(Len(o) + Len(e))
           C == Occurrences(s, o \o e)
<1>1. C \in SUBSET (A \cup B)
  BY OccurrencesGrow
<1>2. IsFiniteSet(A) /\ Cardinality(A) \in Nat
  BY OccurrencesFinite
<1>3. IsFiniteSet(B) /\ Cardinality(B) = Len(e)
  <2> DEFINE p == Len(o) + 1
             q == Len(o) + Len(e)
  <2>1. p \in Int /\ q \in Int /\ Len(e) \in Nat /\ q - p + 1 = Len(e)
    OBVIOUS
  <2> HIDE DEF p, q
  <2>2. IsFiniteSet(p..q) /\ Cardinality(p..q) = IF p > q THEN 0 ELSE q - p + 1
    BY <2>1, FS_Interval
  <2>3. (IF p > q THEN 0 ELSE q - p + 1) = Len(e)
    BY <2>1
  <2> QED
    BY <2>2, <2>3 DEF p, q
<1>4. C \in SUBSET (A \cup B)
  BY <1>1
<1>5. Cardinality(C) \in Nat /\ Len(e) \in Nat
  <2> DEFINE c == o \o e
  <2>1. c \in Seq(T) /\ Len(e) \in Nat
    BY ConcatProperties
  <2> HIDE DEF c
  <2>2. Cardinality(Occurrences(s, c)) \in Nat
    BY <2>1, OccurrencesFinite
  <2> QED
    BY <2>1, <2>2 DEF c
<1> HIDE DEF A, B, C
<1>6. /\ IsFiniteSet(A \cup B) /\ IsFiniteSet(A \cap B)
      /\ Cardinality(A \cup B) = Cardinality(A) + Cardinality(B) - Cardinality(A \cap B)
  <2>1. IsFiniteSet(A \cup B)
    BY <1>2, <1>3, FS_Union
  <2>2. Cardinality(A \cup B) = Cardinality(A) + Cardinality(B) - Cardinality(A \cap B)
    BY <1>2, <1>3, FS_Union
  <2>3. IsFiniteSet(A \cap B)
    BY <1>2, FS_Intersection
  <2> QED
    BY <2>1, <2>2, <2>3
<1>7. Cardinality(A \cap B) \in Nat /\ Cardinality(A \cup B) \in Nat
  BY <1>6, FS_CardinalityType
<1>8. Cardinality(C) <= Cardinality(A \cup B)
  BY <1>4, <1>6, FS_Subset
<1>9. Cardinality(C) <= Cardinality(A) + Len(e)
  BY <1>2, <1>3, <1>5, <1>6, <1>7, <1>8
<1> QED
  BY <1>9 DEF A, C

\* A spelling that passes the prefilter and is no longer than the overlap and
\* one token is seen in the block that completes it.
LEMMA NewIsTagged ==
  ASSUME NEW T, NEW s \in Signatures, s \in SUBSET Seq(T), <<>> \notin s,
         \A w \in Passing(s) : Len(w) <= Overlap + 1,
         NEW o \in Seq(T), NEW e \in Seq(T),
         NEW i \in Occurrences(Passing(s), o \o e), i \notin Occurrences(Passing(s), o)
  PROVE  s \in SoupTags(o \o e, Len(e))
<1> DEFINE c == o \o e
           n == Len(e) + Overlap
           win == LastTokens(c, n)
<1>1. c \in Seq(T) /\ Len(c) = Len(o) + Len(e)
  BY ConcatProperties
<1>2. Passing(s) \in SUBSET Seq(T)
  BY DEF Passing
<1>3. i \in (Len(o) + 1)..(Len(o) + Len(e))
  BY <1>2, OccurrencesGrow
<1>4. i \in 1..Len(c) /\ \E w \in Passing(s) : EndsAt(w, c, i)
  BY <1>1, <1>2, OccursIs
<1>5. PICK w \in Passing(s) : EndsAt(w, c, i)
  BY <1>4
<1>6. w \in s /\ w \in Seq(T) /\ w # <<>> /\ Len(w) \in Nat /\ Len(w) <= Overlap + 1
  BY DEF Passing
<1>7. Overlap \in Nat /\ Len(e) \in Nat /\ Len(o) \in Nat /\ n \in Nat
  BY WatchAssumption
<1> HIDE DEF c
<1>8. i - Len(w) >= Len(c) - n
  <2> DEFINE m == Len(w)
  <2>1. m \in Nat /\ m <= Overlap + 1
    BY <1>6
  <2> HIDE DEF m
  <2>2. i - m >= Len(c) - n
    BY <1>1, <1>3, <1>7, <2>1
  <2> QED
    BY <2>2 DEF m
<1> HIDE DEF n
<1>9. win \in Seq(T)
  <2>1. LastTokens(c, n) \in Seq(T)
    BY <1>1, <1>7, TailStart
  <2> QED
    BY <2>1
<1>10. Occurrences(s, win) # {}
  <2>1. WithinTail(s, c, n)
    BY <1>4, <1>5, <1>6, <1>8 DEF WithinTail
  <2>2. Occurrences(s, LastTokens(c, n)) # {}
    BY <1>1, <1>7, <2>1, OccursInTail
  <2> QED
    BY <2>2
<1>11. \E k \in DOMAIN win : win[k] \in SigFirstIds
  <2>1. {w} \in SUBSET Seq(T) /\ <<>> \notin {w}
    BY <1>6
  <2>2. Occurrences({w}, win) # {}
    <3>1. WithinTail({w}, c, n)
      BY <1>4, <1>5, <1>8 DEF WithinTail
    <3>2. Occurrences({w}, LastTokens(c, n)) # {}
      BY <1>1, <1>7, <2>1, <3>1, OccursInTail
    <3> QED
      BY <3>2
  <2> HIDE DEF win
  <2>3. PICK k : k \in Occurrences({w}, win)
    BY <2>2
  <2>4. k \in 1..Len(win) /\ EndsAt(w, win, k)
    BY <1>9, <2>1, <2>3, OccursIs
  <2>5. PICK x \in DOMAIN w : w[x] \in SigFirstIds
    BY DEF Passing
  <2> DEFINE m == Len(w)
             y == k - m + x
  <2>6. x \in 1..m /\ m \in Nat /\ m <= k /\ win[k - m + x] = w[x]
    BY <1>6, <2>4, <2>5 DEF EndsAt
  <2> HIDE DEF m
  <2>7. y \in 1..Len(win)
    BY <1>9, <2>4, <2>6
  <2>8. win[y] = w[x]
    BY <2>6
  <2> HIDE DEF y
  <2> QED
    BY <1>9, <2>5, <2>7, <2>8
<1> HIDE DEF win
<1>12. SoupTags(c, Len(e)) = {x \in Signatures : Occurrences(x, win) # {}}
  BY <1>11 DEF SoupTags, win, n
<1> QED
  BY <1>10, <1>12 DEF c

-------------------------------------------------------------------------------
(* The tag-soup tripwire. *)

\* Signatures are sets of token sequences, none empty.
SpellingsTyped ==
  \A s \in Signatures : s \in SUBSET Seq(Tokens) /\ <<>> \notin s

\* Every spelling that passes the prefilter fits the overlap that is scanned with
\* a block, but for its last token: "a tag only counts while new text can still
\* contain it" (0015 51).
TagsInOverlap ==
  \A s \in Signatures : \A w \in Passing(s) : Len(w) <= Overlap + 1

\* Every block of a running request that completed such a spelling was counted.
SoupInv ==
  status = "running" =>
    \A s \in Signatures :
      /\ Cardinality(Occurrences(Passing(s), out)) <= totals[s] * (NumSpec + 1)
      /\ totals[s] < SoupTotal

LEMMA OneMore ==
  ASSUME NEW c \in Nat, NEW t \in Nat, NEW w \in Nat, NEW l \in Nat, NEW d \in Nat,
         c <= t * w, l <= w, d <= c + l
  PROVE  d <= (t + 1) * w
<1>1. (t + 1) * w = t * w + w
  OBVIOUS
<1>2. t * w \in Nat
  OBVIOUS
<1> QED
  BY <1>1, <1>2

LEMMA AtMostTimes ==
  ASSUME NEW t \in Nat, NEW u \in Nat, NEW w \in Nat, t <= u
  PROVE  t * w <= u * w
<1> DEFINE d == u - t
<1>1. d \in Nat /\ u = t + d
  OBVIOUS
<1> HIDE DEF d
<1>2. u * w = t * w + d * w
  BY <1>1
<1>3. d * w \in Nat /\ t * w \in Nat
  BY <1>1
<1>4. d * w >= 0
  BY <1>3
<1> QED
  BY <1>2, <1>3, <1>4

LEMMA NothingOccurs ==
  ASSUME NEW s
  PROVE  Occurrences(s, <<>>) = {} /\ Cardinality(Occurrences(s, <<>>)) = 0
<1>1. Occurrences(s, <<>>) = {}
  BY DEF Occurrences
<1> QED
  BY <1>1, FS_EmptySet

LEMMA HandlerKeepsSoup ==
  ASSUME SpellingsTyped, TagsInOverlap, TypeOK, Lengths, SoupInv, UpdateFromOutput,
         status' = "running", NEW s \in Signatures
  PROVE  /\ Cardinality(Occurrences(Passing(s), out')) <= totals'[s] * (NumSpec + 1)
         /\ totals'[s] < SoupTotal
<1> DEFINE b == Head(flight)
           e == b.tokens
<1>1. /\ Commit(b) /\ Kept(b) = e /\ After(b, Len(Kept(b))) = out'
      /\ out' = out \o e /\ status = "running" /\ flight # <<>>
  BY GoesOn
<1>2. e \in Seq(Tokens) /\ Len(e) \in Nat /\ Len(e) <= NumSpec + 1
  BY <1>1, BlockLength
<1> HIDE DEF b
<1>3. totals' = NextTotals(b) /\ ~Soup(b)
  BY <1>1 DEF Commit
<1> HIDE DEF e
<1>4. NextTotals(b) = [x \in Signatures |->
                         IF x \in SoupTags(out', Len(e)) THEN totals[x] + 1 ELSE totals[x]]
  BY <1>1 DEF NextTotals
<1>5. totals'[s] = IF s \in SoupTags(out', Len(e)) THEN totals[s] + 1 ELSE totals[s]
  BY <1>3, <1>4
<1>6. totals[s] \in Nat /\ totals'[s] \in Nat /\ SoupTotal \in Nat /\ NumSpec + 1 \in Nat
  <2>1. totals[s] \in Nat
    BY DEF TypeOK
  <2> QED
    BY <1>5, <2>1, CommitAssumption
<1>7. totals'[s] < SoupTotal
  BY <1>3, <1>6 DEF Soup
<1>8. /\ out \in Seq(Tokens) /\ s \in SUBSET Seq(Tokens) /\ <<>> \notin s
      /\ Passing(s) \in SUBSET Seq(Tokens)
      /\ \A w \in Passing(s) : Len(w) <= Overlap + 1
  BY DEF TypeOK, SpellingsTyped, TagsInOverlap, Passing
<1> DEFINE c == Cardinality(Occurrences(Passing(s), out))
           d == Cardinality(Occurrences(Passing(s), out'))
<1>9. c \in Nat
  BY <1>8, OccurrencesFinite
<1>10. d \in Nat
  <2>1. out' \in Seq(Tokens)
    BY <1>1, <1>2, <1>8, ConcatProperties
  <2> HIDE DEF d
  <2> QED
    BY <1>8, <2>1, OccurrencesFinite DEF d
<1>11. d <= c + Len(e)
  BY <1>1, <1>2, <1>8, OccurrencesAdded
<1>12. c <= totals[s] * (NumSpec + 1)
  BY <1>1 DEF SoupInv
<1>13. CASE s \in SoupTags(out', Len(e))
  <2>1. totals'[s] = totals[s] + 1
    BY <1>5, <1>13
  <2> HIDE DEF c, d
  <2>2. d <= (totals[s] + 1) * (NumSpec + 1)
    BY <1>2, <1>6, <1>9, <1>10, <1>11, <1>12, OneMore
  <2> QED
    BY <1>7, <2>1, <2>2 DEF d
<1>14. CASE s \notin SoupTags(out', Len(e))
  <2>1. totals'[s] = totals[s]
    BY <1>5, <1>14
  <2>2. \A i \in Occurrences(Passing(s), out') : i \in Occurrences(Passing(s), out)
    BY <1>1, <1>2, <1>8, <1>14, NewIsTagged
  <2>4. Occurrences(Passing(s), out') \in SUBSET Occurrences(Passing(s), out)
    BY <2>2
  <2>5. IsFiniteSet(Occurrences(Passing(s), out))
    BY <1>8, OccurrencesFinite
  <2>6. d <= c
    BY <2>4, <2>5, FS_Subset
  <2> HIDE DEF c, d
  <2>7. totals[s] * (NumSpec + 1) \in Nat
    BY <1>6
  <2>8. d <= totals[s] * (NumSpec + 1)
    BY <1>9, <1>10, <1>12, <2>6, <2>7
  <2> QED
    BY <1>7, <2>1, <2>8 DEF d
<1> QED
  BY <1>13, <1>14

\* The tripwire's totals bound what leaks of the spellings that pass its
\* prefilter: before the block that reaches SoupTotal a running request has let at
\* most SoupTotal - 1 blocks with such a spelling through, each with at most one
\* occurrence per token, however the spelling is split over blocks and however
\* sparse it is.
THEOREM SoupBound ==
  ASSUME SpellingsTyped, TagsInOverlap
  PROVE  Spec => []SoupBounded
<1>1. Init => Lengths /\ SoupInv
  <2> SUFFICES ASSUME Init
               PROVE  Lengths /\ SoupInv
    OBVIOUS
  <2>1. flight = <<>> /\ out = <<>> /\ totals = [s \in Signatures |-> 0]
    BY DEF Init
  <2>2. Lengths
    BY <2>1 DEF Lengths
  <2> SUFFICES ASSUME NEW s \in Signatures
               PROVE  /\ Cardinality(Occurrences(Passing(s), out)) <= totals[s] * (NumSpec + 1)
                      /\ totals[s] < SoupTotal
    BY <2>2 DEF SoupInv
  <2>3. Cardinality(Occurrences(Passing(s), out)) = 0 /\ totals[s] = 0
    BY <2>1, NothingOccurs
  <2>4. 0 * (NumSpec + 1) = 0 /\ 0 < SoupTotal
    BY CommitAssumption
  <2> QED
    BY <2>3, <2>4
<1>2. TypeOK /\ Lengths /\ SoupInv /\ [Next]_vars => Lengths' /\ SoupInv'
  <2> SUFFICES ASSUME TypeOK, Lengths, SoupInv, [Next]_vars, status' = "running",
                      NEW s \in Signatures
               PROVE  /\ Cardinality(Occurrences(Passing(s), out')) <= totals'[s] * (NumSpec + 1)
                      /\ totals'[s] < SoupTotal
    BY NextLengths DEF SoupInv
  <2>1. CASE UpdateFromOutput
    BY <2>1, HandlerKeepsSoup
  <2>2. CASE ~UpdateFromOutput
    <3>1. UNCHANGED <<status, ending, out, sigWatch, streaks, totals, repStreak>>
      BY <2>2, OtherSteps DEF Next
    <3> QED
      BY <3>1 DEF SoupInv
  <2> QED
    BY <2>1, <2>2
<1>3. TypeOK /\ SoupInv => SoupBounded
  <2> SUFFICES ASSUME TypeOK, SoupInv, status = "running", NEW s \in Signatures
               PROVE  Cardinality(Occurrences(Passing(s), out)) <= (SoupTotal - 1) * (NumSpec + 1)
    BY DEF SoupBounded
  <2> DEFINE t == totals[s]
             u == SoupTotal - 1
             w == NumSpec + 1
             c == Cardinality(Occurrences(Passing(s), out))
  <2>1. t \in Nat /\ u \in Nat /\ w \in Nat
    BY CommitAssumption DEF TypeOK
  <2>2. c <= t * w /\ t < SoupTotal
    BY DEF SoupInv
  <2>3. t <= u
    BY <2>1, <2>2, CommitAssumption
  <2>4. c \in Nat
    BY OccurrencesFinite DEF TypeOK
  <2> HIDE DEF t, u, w, c
  <2>5. t * w <= u * w /\ t * w \in Nat /\ u * w \in Nat
    BY <2>1, <2>3, AtMostTimes
  <2>6. c <= u * w
    BY <2>2, <2>4, <2>5
  <2> QED
    BY <2>6 DEF u, w, c
<1> QED
  BY <1>1, <1>2, <1>3, TypeCorrect, PTL DEF Spec

-------------------------------------------------------------------------------
(* The repetition tripwire. *)

\* The window of the line tripwire holds the occurrences that make a line
\* repeated (by default 160 tokens, and 5 occurrences).
RepetitionSeen == RepMin >= 1 /\ RepWindow >= RepMin

\* The arithmetic of a run of at least r at the end of l items, seen through a
\* tail that starts at a.
LEMMA TailOfRun ==
  ASSUME NEW l \in Nat, NEW r \in Nat, NEW w \in Nat, NEW a \in Nat, NEW i \in Nat,
         r >= 1, w >= r, i >= 1, i <= l, l - i + 1 >= r,
         a = IF w >= l THEN 1 ELSE l - w + 1
  PROVE  /\ l - a + 1 \in Nat /\ (l - a + 1) - r + 1 >= 1
         /\ a >= 1 /\ a <= l /\ a + ((l - a + 1) - r + 1) - 1 >= i
OBVIOUS

\* A run of RepMin copies of a line at the end of the output is seen.
LEMMA RunRepeats ==
  ASSUME RepetitionSeen, NEW T, NEW t \in Seq(T), NEW n \in Nat,
         NEW i \in 1..Len(t), t[i] \in Lines, \A j \in i..Len(t) : t[j] = t[i],
         Len(t) - i + 1 >= RepMin
  PROVE  RepeatsLine(t, n)
<1> DEFINE w == RepetitionWindow(n)
           l == Len(t)
           a == Max({1, l - w + 1})
           tail == LastTokens(t, w)
           q == l - a + 1
           S == {x \in DOMAIN tail : tail[x] = t[i]}
<1>1. w \in Nat /\ w >= RepWindow
  BY WatchAssumption, MaxOfPair DEF RepetitionWindow
<1>2. w >= RepMin /\ RepMin \in Nat /\ RepMin >= 1
  BY <1>1, WatchAssumption DEF RepetitionSeen
<1> HIDE DEF w
<1>3. l \in Nat /\ i \in Nat /\ i >= 1 /\ i <= l
  OBVIOUS
<1>4. a \in Nat /\ a = IF w >= l THEN 1 ELSE l - w + 1
  BY <1>1, LastTokensItems
<1>5. tail \in Seq(T) /\ Len(tail) = q
  BY <1>1, LastTokensItems
<1>6. \A x \in 1..q : tail[x] = t[a + x - 1]
  BY <1>1, LastTokensItems
<1> HIDE DEF l, a, tail
<1>7. l - i + 1 >= RepMin /\ \A j \in i..l : t[j] = t[i]
  BY DEF l
<1>8. /\ q \in Nat /\ q - RepMin + 1 >= 1
      /\ a >= 1 /\ a <= l /\ a + (q - RepMin + 1) - 1 >= i
  BY <1>1, <1>2, <1>3, <1>4, <1>7, TailOfRun
<1>9. a + q - 1 = l
  BY <1>3, <1>4
<1> HIDE DEF q
<1>10. DOMAIN tail = 1..q
  BY <1>5
<1> DEFINE p == q - RepMin + 1
<1>11. p \in Int /\ p >= 1 /\ p <= q /\ q - p + 1 = RepMin /\ a + p - 1 >= i
  BY <1>2, <1>8
<1> HIDE DEF p
<1>12. ASSUME NEW x \in p..q
       PROVE  x \in S
  <2>1. x \in Int /\ x >= p /\ x <= q
    BY <1>8, <1>11
  <2>2. x \in 1..q
    BY <1>8, <1>11, <2>1
  <2>3. a + x - 1 \in i..l
    BY <1>3, <1>4, <1>8, <1>9, <1>11, <2>1
  <2>4. tail[x] = t[a + x - 1] /\ t[a + x - 1] = t[i]
    BY <1>6, <1>7, <2>2, <2>3
  <2> QED
    BY <1>10, <2>2, <2>4
<1>13. p..q \in SUBSET S
  BY <1>12
<1>14. IsFiniteSet(p..q) /\ Cardinality(p..q) = RepMin
  <2>1. Cardinality(p..q) = IF p > q THEN 0 ELSE q - p + 1
    BY <1>8, <1>11, FS_Interval
  <2>2. (IF p > q THEN 0 ELSE q - p + 1) = RepMin
    BY <1>8, <1>11
  <2>3. IsFiniteSet(p..q)
    BY <1>8, <1>11, FS_Interval
  <2> QED
    BY <2>1, <2>2, <2>3
<1>15. IsFiniteSet(S) /\ Cardinality(S) \in Nat
  <2>1. S \in SUBSET (1..q)
    BY <1>10
  <2>2. IsFiniteSet(1..q)
    BY <1>8, FS_Interval
  <2> HIDE DEF S
  <2> QED
    BY <2>1, <2>2, FS_Subset, FS_CardinalityType
<1>16. Cardinality(S) >= RepMin
  <2> HIDE DEF S
  <2>1. Cardinality(p..q) <= Cardinality(S)
    BY <1>13, <1>15, FS_Subset
  <2> QED
    BY <1>2, <1>14, <1>15, <2>1
<1> QED
  BY <1>16 DEF RepeatsLine, S, tail, w

\* Every run of one line at the end of a running request's output is short of
\* RepMin, but for what the blocks counted in the streak have brought.
LoopInv ==
  status = "running" =>
    /\ repStreak < RepStreak
    /\ \A i \in 1..Len(out) :
         (out[i] \in Lines /\ \A j \in i..Len(out) : out[j] = out[i]) =>
           Len(out) - i + 1 <= (RepMin - 1) + repStreak * (NumSpec + 1)

LEMMA LongerRun ==
  ASSUME NEW l \in Nat, NEW e \in Nat, NEW i \in Nat, NEW r \in Nat, NEW k \in Nat,
         NEW w \in Nat, i >= 1, r >= 1, e <= w,
         i <= l => l - i + 1 <= (r - 1) + k * w
  PROVE  (l + e) - i + 1 <= (r - 1) + (k + 1) * w
<1> DEFINE x == k * w
<1>1. x \in Nat /\ (k + 1) * w = x + w
  OBVIOUS
<1> HIDE DEF x
<1>2. i <= l => l - i + 1 <= (r - 1) + x
  BY DEF x
<1> QED
  BY <1>1, <1>2

LEMMA HandlerKeepsLoop ==
  ASSUME RepetitionSeen, TypeOK, Lengths, LoopInv, UpdateFromOutput, status' = "running"
  PROVE  LoopInv'
<1> DEFINE b == Head(flight)
           e == b.tokens
<1>1. /\ Commit(b) /\ Kept(b) = e /\ After(b, Len(Kept(b))) = out'
      /\ out' = out \o e /\ status = "running" /\ flight # <<>>
  BY GoesOn
<1>2. e \in Seq(Tokens) /\ Len(e) \in Nat /\ Len(e) <= NumSpec + 1
  BY <1>1, BlockLength
<1> HIDE DEF b
<1>3. repStreak' = NextRepStreak(b) /\ NextRepStreak(b) < RepStreak
  BY <1>1 DEF Commit
<1> HIDE DEF e
<1>4. NextRepStreak(b) = IF RepeatsLine(out', Len(e)) THEN repStreak + 1 ELSE 0
  BY <1>1 DEF NextRepStreak
<1>5. repStreak \in Nat /\ NumSpec + 1 \in Nat /\ RepMin \in Nat /\ RepMin >= 1
  BY CommitAssumption, WatchAssumption DEF TypeOK, RepetitionSeen
<1>6. out \in Seq(Tokens) /\ Len(out) \in Nat
  BY DEF TypeOK
<1>7. /\ out' \in Seq(Tokens) /\ Len(out') = Len(out) + Len(e)
      /\ \A j \in 1..Len(out) : out'[j] = out[j]
  BY <1>1, <1>2, <1>6, ConcatProperties
<1> SUFFICES ASSUME NEW i \in 1..Len(out'), out'[i] \in Lines,
                    \A j \in i..Len(out') : out'[j] = out'[i]
             PROVE  Len(out') - i + 1 <= (RepMin - 1) + repStreak' * (NumSpec + 1)
  BY <1>3 DEF LoopInv
<1>8. i \in Nat /\ i >= 1 /\ i <= Len(out) + Len(e)
  BY <1>2, <1>6, <1>7
<1>9. ASSUME i <= Len(out)
      PROVE  Len(out) - i + 1 <= (RepMin - 1) + repStreak * (NumSpec + 1)
  <2>1. i \in 1..Len(out)
    BY <1>6, <1>8, <1>9
  <2>2. \A j \in i..Len(out) : j \in 1..Len(out) /\ j \in i..Len(out')
    BY <1>2, <1>6, <1>7, <1>8
  <2>3. out[i] \in Lines
    BY <1>7, <2>1
  <2>4. \A j \in i..Len(out) : out[j] = out[i]
    BY <1>7, <2>1, <2>2
  <2> QED
    BY <1>1, <2>1, <2>3, <2>4 DEF LoopInv
<1>10. CASE RepeatsLine(out', Len(e))
  <2>1. repStreak' = repStreak + 1
    BY <1>3, <1>4, <1>10
  <2>2. (Len(out) + Len(e)) - i + 1 <= (RepMin - 1) + (repStreak + 1) * (NumSpec + 1)
    BY <1>2, <1>5, <1>6, <1>8, <1>9, LongerRun
  <2> QED
    BY <1>7, <2>1, <2>2
<1>11. CASE ~RepeatsLine(out', Len(e))
  <2>1. repStreak' = 0
    BY <1>3, <1>4, <1>11
  <2>2. ~(Len(out') - i + 1 >= RepMin)
    BY <1>2, <1>7, <1>11, RunRepeats
  <2>3. 0 * (NumSpec + 1) = 0
    BY <1>5
  <2>4. Len(out') \in Nat
    BY <1>7
  <2>5. Len(out') - i + 1 <= (RepMin - 1) + 0
    BY <1>5, <1>8, <2>2, <2>4
  <2> QED
    BY <2>1, <2>3, <2>5
<1> QED
  BY <1>10, <1>11

\* A loop that repeats one line is cut: a running request never ends in more
\* copies of it than RepMin - 1 and what RepStreak - 1 blocks can bring,
\* whatever the blocks' lengths and however the loop falls into them.
THEOREM LoopBound ==
  ASSUME RepetitionSeen
  PROVE  Spec => []LoopsBounded
<1>1. Init => Lengths /\ LoopInv
  <2> SUFFICES ASSUME Init
               PROVE  Lengths /\ LoopInv
    OBVIOUS
  <2>1. flight = <<>> /\ out = <<>> /\ repStreak = 0
    BY DEF Init
  <2>2. Lengths
    BY <2>1 DEF Lengths
  <2>3. 0 < RepStreak
    BY CommitAssumption
  <2> QED
    BY <2>1, <2>2, <2>3 DEF LoopInv
<1>2. TypeOK /\ Lengths /\ LoopInv /\ [Next]_vars => Lengths' /\ LoopInv'
  <2> SUFFICES ASSUME TypeOK, Lengths, LoopInv, [Next]_vars, status' = "running"
               PROVE  LoopInv'
    BY NextLengths DEF LoopInv
  <2>1. CASE UpdateFromOutput
    BY <2>1, HandlerKeepsLoop
  <2>2. CASE ~UpdateFromOutput
    <3>1. UNCHANGED <<status, ending, out, sigWatch, streaks, totals, repStreak>>
      BY <2>2, OtherSteps DEF Next
    <3> QED
      BY <3>1 DEF LoopInv
  <2> QED
    BY <2>1, <2>2
<1>3. TypeOK /\ LoopInv => LoopsBounded
  <2> SUFFICES ASSUME TypeOK, LoopInv, status = "running", NEW i \in 1..Len(out),
                      out[i] \in Lines, \A j \in i..Len(out) : out[j] = out[i]
               PROVE  Len(out) - i + 1 <= (RepMin - 1) + (RepStreak - 1) * (NumSpec + 1)
    BY DEF LoopsBounded
  <2> DEFINE k == repStreak
             u == RepStreak - 1
             w == NumSpec + 1
             n == Len(out) - i + 1
  <2>1. k \in Nat /\ u \in Nat /\ w \in Nat /\ n \in Int /\ RepMin \in Nat
    BY CommitAssumption, WatchAssumption DEF TypeOK
  <2>2. n <= (RepMin - 1) + k * w /\ k < RepStreak
    BY DEF LoopInv
  <2>3. k <= u
    BY <2>1, <2>2, CommitAssumption
  <2> HIDE DEF k, u, w, n
  <2>4. k * w <= u * w /\ k * w \in Nat /\ u * w \in Nat
    BY <2>1, <2>3, AtMostTimes
  <2>5. n <= (RepMin - 1) + u * w
    BY <2>1, <2>2, <2>4
  <2> QED
    BY <2>5 DEF u, w, n
<1> QED
  BY <1>1, <1>2, <1>3, TypeCorrect, PTL DEF Spec

-------------------------------------------------------------------------------
(* One mention of a signature. *)

\* The least length of a block that is not a request's first: a window brings
\* at least MinBlock tokens, a resumed request starts over with a single one.
LeastBlock == IF Resumes \/ NumSpec = 0 THEN 1 ELSE MinBlock

\* One mention is out of sight before the blocks it is seen in reach either
\* threshold.  The production values (overlap 16, streak 12, total 18) satisfy
\* this for blocks of two tokens and more, or signatures of seven and more.
MentionLeaves ==
  /\ MinBlock \in Nat
  /\ \A m \in {SoupStreak, SoupTotal} :
       /\ m >= 2
       /\ \A s \in Signatures : \A w \in s : Overlap < Len(w) + (m - 2) * LeastBlock

LongBlocks ==
  \A i \in 1..Len(flight) : flight[i].at > 0 => Len(flight[i].tokens) >= LeastBlock

\* The sequence has two occurrences, or one that n more blocks have followed.
Spread(s, n, t) ==
  \/ Cardinality(Occurrences(s, t)) > 1
  \/ \E i \in Occurrences(s, t) : Len(t) >= i + n * LeastBlock

\* What the counters of a running request say of its output.
MentionInv ==
  status = "running" =>
    /\ ending = "none"
    /\ \A s \in Signatures :
         /\ streaks[s] <= totals[s]
         /\ totals[s] < SoupTotal
         /\ totals[s] > 0 => Spread(s, totals[s] - 1, out)

LEMMA LeastBlockType ==
  ASSUME MinBlock \in Nat
  PROVE  LeastBlock \in Nat
BY DEF LeastBlock

LEMMA TwoElements ==
  ASSUME NEW S, IsFiniteSet(S), NEW i \in S, NEW k \in S, i # k
  PROVE  Cardinality(S) > 1
<1>1. IsFiniteSet({i}) /\ Cardinality({i}) = 1
  BY FS_Singleton
<1>2. {i} \in SUBSET S /\ {i} # S
  OBVIOUS
<1>3. Cardinality({i}) <= Cardinality(S) /\ Cardinality({i}) # Cardinality(S)
  BY <1>2, FS_Subset
<1>4. Cardinality(S) \in Nat
  BY FS_CardinalityType
<1> QED
  BY <1>1, <1>3, <1>4

\* Later blocks only add to a spread.
LEMMA SpreadGrows ==
  ASSUME NEW s \in SUBSET Seq(Tokens), NEW n \in Nat, MinBlock \in Nat,
         NEW o \in Seq(Tokens), NEW e \in Seq(Tokens), Spread(s, n, o)
  PROVE  /\ Spread(s, n, o \o e)
         /\ Len(e) >= LeastBlock => Spread(s, n + 1, o \o e)
         /\ Len(o) > 0
<1> DEFINE c == o \o e
           B == LeastBlock
<1>1. c \in Seq(Tokens) /\ Len(c) = Len(o) + Len(e) /\ \A j \in 1..Len(o) : c[j] = o[j]
  BY ConcatProperties
<1>2. Len(o) \in Nat /\ Len(e) \in Nat /\ B \in Nat
  BY LeastBlockType
<1> HIDE DEF c, B
<1>3. Len(o) <= Len(c)
  BY <1>1, <1>2
<1>4. /\ Occurrences(s, o) \subseteq Occurrences(s, c)
      /\ Cardinality(Occurrences(s, o)) <= Cardinality(Occurrences(s, c))
  BY <1>1, <1>3, OccursInExtension
<1>5. Cardinality(Occurrences(s, o)) \in Nat /\ Cardinality(Occurrences(s, c)) \in Nat
  BY <1>1, OccurrencesFinite
<1>6. CASE Cardinality(Occurrences(s, o)) > 1
  <2>1. Cardinality(Occurrences(s, c)) > 1
    BY <1>4, <1>5, <1>6
  <2>2. Occurrences(s, o) # {}
    <3> SUFFICES ASSUME Occurrences(s, o) = {}
                 PROVE  FALSE
      OBVIOUS
    <3>1. Cardinality(Occurrences(s, o)) = 0
      BY FS_EmptySet
    <3> QED
      BY <1>6, <3>1
  <2>3. PICK i : i \in Occurrences(s, o)
    BY <2>2
  <2>4. i \in 1..Len(o)
    BY <2>3 DEF Occurrences
  <2>5. Len(o) > 0
    BY <1>2, <2>4
  <2> QED
    BY <2>1, <2>5 DEF Spread, c
<1>7. CASE \E i \in Occurrences(s, o) : Len(o) >= i + n * B
  <2>1. PICK i \in Occurrences(s, o) : Len(o) >= i + n * B
    BY <1>7
  <2>2. i \in 1..Len(o)
    BY DEF Occurrences
  <2>3. i \in Int /\ Len(o) > 0
    BY <1>2, <2>2
  <2>4. i \in Occurrences(s, c)
    BY <1>4
  <2> DEFINE x == n * B
  <2>5. x \in Nat /\ (n + 1) * B = x + B
    BY <1>2
  <2>6. Len(o) >= i + x
    BY <2>1
  <2> HIDE DEF x
  <2>7. Len(c) >= i + x
    BY <1>1, <1>2, <2>3, <2>5, <2>6
  <2>8. Len(e) >= B => Len(c) >= i + (x + B)
    BY <1>1, <1>2, <2>3, <2>5, <2>6
  <2>9. Spread(s, n, c)
    BY <2>4, <2>7 DEF Spread, x, B
  <2>10. Len(e) >= B => Spread(s, n + 1, c)
    BY <2>4, <2>5, <2>8 DEF Spread, B
  <2> QED
    BY <2>3, <2>9, <2>10 DEF c, B
<1> QED
  BY <1>6, <1>7 DEF Spread, B

\* An occurrence of which the scanned tail has the whole.
LEMMA TaggedOccurs ==
  ASSUME SpellingsTyped, NEW o \in Seq(Tokens), NEW e \in Seq(Tokens),
         NEW s \in SoupTags(o \o e, Len(e))
  PROVE  \E w \in s : \E k \in Occurrences(s, o \o e) :
           k \in 1..Len(o \o e) /\ k - Len(w) >= Len(o) - Overlap
<1> DEFINE c == o \o e
           n == Len(e) + Overlap
<1>1. c \in Seq(Tokens) /\ Len(c) = Len(o) + Len(e)
  BY ConcatProperties
<1>2. Overlap \in Nat /\ Len(e) \in Nat /\ Len(o) \in Nat /\ n \in Nat
  BY WatchAssumption
<1>3. s \in Signatures /\ Occurrences(s, LastTokens(c, n)) # {}
  BY DEF SoupTags
<1>4. s \in SUBSET Seq(Tokens) /\ <<>> \notin s
  BY <1>3 DEF SpellingsTyped
<1>5. Len(c) - n = Len(o) - Overlap
  BY <1>1, <1>2
<1> HIDE DEF c, n
<1>6. PICK w \in s : \E k \in 1..Len(c) : EndsAt(w, c, k) /\ k - Len(w) >= Len(c) - n
  <2>1. WithinTail(s, c, n)
    BY <1>1, <1>2, <1>3, <1>4, OccursInTail
  <2> QED
    BY <2>1 DEF WithinTail
<1>7. PICK k \in 1..Len(c) : EndsAt(w, c, k) /\ k - Len(w) >= Len(c) - n
  BY <1>6
<1>8. k \in Occurrences(s, c)
  BY <1>1, <1>4, <1>7, OccursIs
<1> QED
  BY <1>5, <1>7, <1>8 DEF c

LEMMA NextLong ==
  ASSUME MinBlock \in Nat
  PROVE  TypeOK /\ LongBlocks /\ [Next]_vars => LongBlocks'
<1> SUFFICES ASSUME TypeOK, LongBlocks, [Next]_vars
             PROVE  LongBlocks'
  OBVIOUS
<1>1. flight \in Seq(Blocks)
  BY DEF TypeOK
<1>2. CASE Run
  <2>1. PICK k \in {0, NumSpec}, view \in Views : \E m \in 1..(k + 1) : Sample(k, m, view)
    BY <1>2 DEF Run
  <2>2. PICK m \in 1..(k + 1) : Sample(k, m, view)
    BY <2>1
  <2>3. PICK b \in Blocks : /\ flight' = Append(flight, b)
                            /\ b.spec => Len(b.tokens) >= MinBlock
                            /\ b.spec = (k > 0)
    BY <2>2, SampleLength
  <2>4. /\ Len(flight') = Len(flight) + 1 /\ flight'[Len(flight) + 1] = b
        /\ \A i \in 1..Len(flight) : flight'[i] = flight[i]
    BY <1>1, <2>3, AppendProperties
  <2>5. b.at = Len(worker) /\ worker \in Seq(Tokens)
    <3>1. PICK c \in Blocks : c.at = Len(worker) /\ flight' = Append(flight, c)
      BY <2>2, SampleType
    <3>2. Append(flight, c)[Len(flight) + 1] = c
      BY <1>1, AppendProperties
    <3>3. b = c
      BY <2>4, <3>1, <3>2
    <3> QED
      BY <3>1, <3>3 DEF TypeOK
  <2>6. b.tokens \in Seq(Tokens) \ {<<>>}
    BY DEF Blocks
  <2>7. Len(b.tokens) >= 1 /\ Len(b.tokens) \in Nat
    BY <2>6, EmptySeq
  <2>8. ASSUME b.at > 0
        PROVE  Len(b.tokens) >= LeastBlock
    <3>1. worker # <<>>
      BY <2>5, <2>8
    <3>2. k = 0 => NumSpec = 0 \/ Resumes
      BY <2>2, <3>1 DEF Sample
    <3>3. CASE NumSpec = 0 \/ Resumes
      BY <2>7, <3>3 DEF LeastBlock
    <3>4. CASE ~(NumSpec = 0 \/ Resumes)
      <4>1. k > 0
        BY <3>2, <3>4, CommitAssumption
      <4> QED
        BY <2>3, <3>4, <4>1 DEF LeastBlock
    <3> QED
      BY <3>3, <3>4
  <2> SUFFICES ASSUME NEW i \in 1..Len(flight'), flight'[i].at > 0
               PROVE  Len(flight'[i].tokens) >= LeastBlock
    BY DEF LongBlocks
  <2>9. i = Len(flight) + 1 \/ i \in 1..Len(flight)
    BY <1>1, <2>4
  <2> QED
    BY <2>4, <2>8, <2>9 DEF LongBlocks
<1>3. CASE Skip \/ UpdateFromOutput
  <2>1. flight' = Tail(flight) /\ flight # <<>>
    BY <1>3, HandlerConsumes DEF Skip, UpdateFromOutput
  <2>2. Len(flight') = Len(flight) - 1 /\ \A i \in 1..Len(flight') : flight'[i] = flight[i + 1]
    BY <1>1, <2>1, HeadTailProperties
  <2> SUFFICES ASSUME NEW i \in 1..Len(flight'), flight'[i].at > 0
               PROVE  Len(flight'[i].tokens) >= LeastBlock
    BY DEF LongBlocks
  <2>3. i + 1 \in 1..Len(flight)
    BY <1>1, <2>2
  <2> QED
    BY <2>2, <2>3 DEF LongBlocks
<1>4. CASE Done \/ UNCHANGED vars
  BY <1>4 DEF LongBlocks, Done, vars
<1> QED
  BY <1>2, <1>3, <1>4 DEF Next

\* The counter of a signature after a block, and what it tells.
LEMMA CountersAre ==
  ASSUME TypeOK, NEW b \in Blocks, NEW s \in Signatures, NEW e, e = Kept(b)
  PROVE  /\ e \in Seq(Tokens) /\ After(b, Len(Kept(b))) = out \o e
         /\ s \in SoupTags(out \o e, Len(e)) =>
              NextStreaks(b)[s] = streaks[s] + 1 /\ NextTotals(b)[s] = totals[s] + 1
         /\ s \notin SoupTags(out \o e, Len(e)) =>
              NextStreaks(b)[s] = 0 /\ NextTotals(b)[s] = totals[s]
<1>1. e \in Seq(Tokens)
  BY KeptType
<1>2. Take(e, Len(e)) = e
  BY <1>1, TakeAll
<1>3. After(b, Len(Kept(b))) = out \o e
  BY <1>2 DEF After
<1> QED
  BY <1>1, <1>3 DEF NextStreaks, NextTotals

LEMMA HandlerKeepsMention ==
  ASSUME MentionLeaves, SpellingsTyped, IInv, LongBlocks, MentionInv,
         UpdateFromOutput, status' = "running"
  PROVE  MentionInv'
<1> DEFINE b == Head(flight)
           e == Kept(b)
<1>1. /\ Commit(b) /\ Kept(b) = b.tokens /\ b \in Blocks
      /\ out' = out \o e /\ status = "running" /\ flight # <<>>
      /\ ending' = "none"
  BY GoesOn DEF IInv
<1>2. TypeOK /\ HistoriesAgree /\ MinBlock \in Nat
  BY DEF IInv, MentionLeaves
<1>3. Len(out) > 0 => Len(e) >= LeastBlock
  <2>1. flight \in Seq(Blocks)
    BY <1>2 DEF TypeOK
  <2>2. 1 \in 1..Len(flight) /\ b = flight[1]
    BY <1>1, <2>1, EmptySeq, HeadTailProperties
  <2>3. b.at = Len(out)
    BY <1>1, <1>2, <2>2 DEF HistoriesAgree
  <2> QED
    BY <1>1, <2>2, <2>3 DEF LongBlocks
<1> HIDE DEF b
<1>4. streaks' = NextStreaks(b) /\ totals' = NextTotals(b) /\ ~Soup(b)
  BY <1>1 DEF Commit
<1> SUFFICES ASSUME NEW s \in Signatures
             PROVE  /\ streaks'[s] <= totals'[s]
                    /\ totals'[s] < SoupTotal
                    /\ totals'[s] > 0 => Spread(s, totals'[s] - 1, out')
  BY <1>1 DEF MentionInv
<1>5. /\ e \in Seq(Tokens)
      /\ s \in SoupTags(out \o e, Len(e)) =>
           NextStreaks(b)[s] = streaks[s] + 1 /\ NextTotals(b)[s] = totals[s] + 1
      /\ s \notin SoupTags(out \o e, Len(e)) =>
           NextStreaks(b)[s] = 0 /\ NextTotals(b)[s] = totals[s]
  BY <1>1, <1>2, CountersAre
<1> HIDE DEF e
<1>6. totals[s] \in Nat /\ streaks[s] \in Nat /\ SoupTotal \in Nat /\ out \in Seq(Tokens)
  BY <1>2, CommitAssumption DEF TypeOK
<1>7. s \in SUBSET Seq(Tokens)
  BY DEF SpellingsTyped
<1>8. /\ streaks[s] <= totals[s]
      /\ totals[s] > 0 => Spread(s, totals[s] - 1, out)
  BY <1>1 DEF MentionInv
<1>9. NextTotals(b)[s] \in Nat /\ NextTotals(b)[s] < SoupTotal
  <2>1. NextTotals(b)[s] \in Nat
    BY <1>5, <1>6
  <2>2. ~(NextTotals(b)[s] >= SoupTotal)
    BY <1>4 DEF Soup
  <2> QED
    BY <1>6, <2>1, <2>2
<1>10. CASE s \in SoupTags(out \o e, Len(e))
  <2>1. streaks'[s] = streaks[s] + 1 /\ totals'[s] = totals[s] + 1
    BY <1>4, <1>5, <1>10
  <2>2. totals'[s] - 1 = totals[s]
    BY <1>6, <2>1
  <2>3. CASE totals[s] = 0
    <3>1. out \o e \in Seq(Tokens)
      BY <1>5, <1>6, ConcatProperties
    <3>2. PICK k \in Occurrences(s, out \o e) : k \in 1..Len(out \o e)
      BY <1>5, <1>6, <1>10, TaggedOccurs
    <3>3. 0 * LeastBlock = 0
      BY <1>2, LeastBlockType
    <3>5. Len(out \o e) >= k + 0
      BY <3>1, <3>2
    <3>6. Spread(s, 0, out \o e)
      BY <3>2, <3>3, <3>5 DEF Spread
    <3> QED
      BY <1>1, <1>4, <1>6, <1>8, <1>9, <2>1, <2>2, <2>3, <3>6
  <2>4. CASE totals[s] # 0
    <3> DEFINE n == totals[s] - 1
    <3>1. n \in Nat /\ n + 1 = totals[s] /\ totals[s] > 0
      BY <1>6, <2>4
    <3>2. Spread(s, n, out)
      BY <1>8, <3>1
    <3> HIDE DEF n
    <3>3. Len(out) > 0
      BY <1>2, <1>5, <1>6, <1>7, <3>1, <3>2, SpreadGrows
    <3>4. Spread(s, n + 1, out \o e)
      BY <1>2, <1>3, <1>5, <1>6, <1>7, <3>1, <3>2, <3>3, SpreadGrows
    <3> QED
      BY <1>1, <1>4, <1>6, <1>8, <1>9, <2>1, <2>2, <3>1, <3>4
  <2> QED
    BY <2>3, <2>4
<1>11. CASE s \notin SoupTags(out \o e, Len(e))
  <2>1. streaks'[s] = 0 /\ totals'[s] = totals[s]
    BY <1>4, <1>5, <1>11
  <2>2. ASSUME totals[s] > 0
        PROVE  Spread(s, totals[s] - 1, out \o e)
    <3> DEFINE n == totals[s] - 1
    <3>1. n \in Nat
      BY <1>6, <2>2
    <3>2. Spread(s, n, out)
      BY <1>8, <2>2
    <3> HIDE DEF n
    <3>3. Spread(s, n, out \o e)
      BY <1>2, <1>5, <1>6, <1>7, <3>1, <3>2, SpreadGrows
    <3> QED
      BY <3>3 DEF n
  <2> QED
    BY <1>1, <1>4, <1>6, <1>9, <2>1, <2>2
<1> QED
  BY <1>10, <1>11

\* What the filter keeps of the oldest block is on the worker, after the output.
LEMMA KeptOnWorker ==
  ASSUME IInv, status = "running", flight # <<>>, NEW b, b = Head(flight)
  PROVE  /\ out \o Kept(b) \in Seq(Tokens)
         /\ Len(out \o Kept(b)) <= Len(worker)
         /\ \A j \in 1..Len(out \o Kept(b)) : worker[j] = (out \o Kept(b))[j]
<1> DEFINE e == Kept(b)
           c == out \o e
           l == Len(out)
           next == IF 1 = Len(flight) THEN Len(worker) ELSE flight[2].at
<1>1. /\ TypeOK /\ HistoriesAgree /\ FlightInHistory
      /\ flight \in Seq(Blocks) /\ out \in Seq(Tokens) /\ worker \in Seq(Tokens)
  BY DEF IInv, TypeOK
<1>2. b \in Blocks /\ b = flight[1] /\ Len(flight) \in Nat /\ Len(flight) >= 1
  BY <1>1, EmptySeq, HeadTailProperties
<1>3. b.tokens \in Seq(Tokens) /\ e \in Seq(Tokens) /\ Len(e) <= Len(b.tokens)
  BY <1>2, KeptType DEF Blocks
<1>4. 1 \in 1..Len(flight)
  BY <1>2
<1>5. /\ out = Take(worker, l) /\ b.at = l
      /\ b.tokens = SubSeq(worker, l + 1, next)
  <2>1. /\ out = Take(worker, Len(out))
        /\ \A i \in 1..Len(flight) :
             /\ i = 1 => flight[i].at = Len(out)
             /\ flight[i].tokens = SubSeq(worker, flight[i].at + 1,
                                         IF i = Len(flight) THEN Len(worker)
                                         ELSE flight[i + 1].at)
    BY <1>1 DEF HistoriesAgree
  <2>2. /\ flight[1].at = Len(out)
        /\ flight[1].tokens = SubSeq(worker, flight[1].at + 1,
                                    IF 1 = Len(flight) THEN Len(worker)
                                    ELSE flight[1 + 1].at)
    BY <1>4, <2>1
  <2>3. 1 + 1 = 2
    OBVIOUS
  <2> QED
    BY <1>2, <2>1, <2>2, <2>3
<1>6. l \in Nat /\ l <= Len(worker)
  BY <1>1, <1>2, <1>4, <1>5 DEF FlightInHistory
<1>7. next \in Nat /\ next <= Len(worker)
  <2>1. CASE Len(flight) = 1
    BY <1>1, <2>1
  <2>2. CASE Len(flight) # 1
    <3>1. 2 \in 1..Len(flight)
      <4> DEFINE n == Len(flight)
      <4>1. n \in Nat /\ n >= 1 /\ n # 1
        BY <1>2, <2>2
      <4> HIDE DEF n
      <4>2. 2 \in 1..n
        BY <4>1
      <4> QED
        BY <4>2 DEF n
    <3>2. flight[2] \in Blocks /\ flight[2].at <= Len(worker)
      BY <1>1, <3>1, ElementOfSeq DEF FlightInHistory
    <3> QED
      BY <2>2, <3>2 DEF Blocks
  <2> QED
    BY <2>1, <2>2
<1> HIDE DEF next
<1>8. \A j \in 1..l : out[j] = worker[j]
  <2>1. l \in 0..Len(worker)
    BY <1>1, <1>6
  <2>2. \A j \in 1..l : Take(worker, l)[j] = worker[j]
    BY <1>1, <2>1, TakeType
  <2> QED
    BY <1>5, <2>2
<1> HIDE DEF l
<1>9. /\ Len(b.tokens) = IF l + 1 <= next THEN next - (l + 1) + 1 ELSE 0
      /\ \A j \in 1..(next - (l + 1) + 1) : b.tokens[j] = worker[(l + 1) + j - 1]
  <2>1. \A j \in (l + 1)..next : worker[j] \in Tokens
    BY <1>1, <1>6, <1>7
  <2>2. l + 1 \in Int /\ next \in Int
    BY <1>6, <1>7
  <2> DEFINE p == l + 1
  <2> HIDE DEF p
  <2>3. Len(SubSeq(worker, p, next)) = IF p <= next THEN next - p + 1 ELSE 0
    BY <2>1, <2>2, SubSeqProperties DEF p
  <2>4. \A j \in 1..(next - p + 1) : SubSeq(worker, p, next)[j] = worker[p + j - 1]
    BY <2>1, <2>2, SubSeqProperties DEF p
  <2> QED
    BY <1>5, <2>3, <2>4 DEF p
<1>10. b.tokens # <<>>
  BY <1>2 DEF Blocks
<1>11. Len(b.tokens) = next - l /\ Len(b.tokens) \in Nat
  <2>1. Len(b.tokens) # 0
    BY <1>3, <1>10, EmptySeq
  <2> QED
    BY <1>3, <1>6, <1>7, <1>9, <2>1
<1>12. \A j \in 1..Len(e) : e[j] = b.tokens[j]
  <2> DEFINE g == GrammarTokens(b.tokens)
             n == GrammarStart(b.tokens) + Probe(matched, g)
  <2>1. e = b.tokens \/ e = Take(b.tokens, n)
    BY DEF Kept
  <2>2. /\ GrammarStart(b.tokens) \in 0..Len(b.tokens) /\ g \in Seq(Tokens)
        /\ Len(g) = Len(b.tokens) - GrammarStart(b.tokens)
    BY <1>3, GrammarTokensType
  <2>3. Probe(matched, g) \in 0..Len(g)
    BY <2>2, ProbeType
  <2>4. n \in 0..Len(b.tokens)
    BY <1>3, <2>2, <2>3
  <2> HIDE DEF n
  <2>5. Len(Take(b.tokens, n)) = n /\ \A j \in 1..n : Take(b.tokens, n)[j] = b.tokens[j]
    BY <1>3, <2>4, TakeType
  <2> QED
    BY <2>1, <2>5
<1>13. /\ c \in Seq(Tokens) /\ Len(c) = l + Len(e)
       /\ \A j \in 1..l : c[j] = out[j]
       /\ \A j \in 1..Len(e) : c[l + j] = e[j]
  BY <1>1, <1>3, ConcatProperties DEF l
<1> HIDE DEF c, e
<1>14. Len(e) \in Nat /\ Len(e) <= next - l
  BY <1>3, <1>11
<1>15. Len(c) <= Len(worker)
  BY <1>1, <1>6, <1>7, <1>13, <1>14
<1>16. ASSUME NEW j \in 1..Len(c)
       PROVE  worker[j] = c[j]
  <2>1. CASE j <= l
    <3>1. j \in 1..l
      BY <1>6, <2>1
    <3> QED
      BY <1>8, <1>13, <3>1
  <2>2. CASE j > l
    <3> DEFINE x == j - l
    <3>1. x \in 1..Len(e) /\ l + x = j
      BY <1>6, <1>13, <1>14, <2>2
    <3>2. x \in 1..(next - (l + 1) + 1) /\ (l + 1) + x - 1 = j
      BY <1>6, <1>7, <1>14, <3>1
    <3> HIDE DEF x
    <3>3. c[l + x] = e[x] /\ e[x] = b.tokens[x] /\ b.tokens[x] = worker[(l + 1) + x - 1]
      BY <1>9, <1>12, <1>13, <3>1, <3>2
    <3> QED
      BY <3>1, <3>2, <3>3
  <2> QED
    BY <1>6, <1>13, <2>1, <2>2
<1> QED
  BY <1>13, <1>15, <1>16 DEF c, e

\* Two occurrences apart by more than the overlap.
LEMMA ApartFromTail ==
  ASSUME NEW l \in Nat, NEW i \in Int, NEW k \in Int, NEW x \in Nat, NEW o \in Nat,
         NEW z \in Int, NEW y \in Int, l >= i + z, y <= z, o < x + y,
         k - x >= l - o
  PROVE  i # k
OBVIOUS

\* A block that reaches a threshold leaves two occurrences on the worker.
LEMMA SoupEndsSpread ==
  ASSUME MentionLeaves, SpellingsTyped, IInv, MentionInv, UpdateFromOutput,
         ending' = "soup"
  PROVE  \E s \in Signatures : Cardinality(Occurrences(s, worker)) > 1
<1> DEFINE b == Head(flight)
           e == Kept(b)
           c == out \o e
<1>1. flight \in Seq(Blocks) /\ flight # <<>> /\ status = "running" /\ out \in Seq(Tokens)
  BY DEF TypeOK, UpdateFromOutput, IInv
<1>2. b \in Blocks
  BY <1>1, HeadTailProperties
<1>3. ASSUME NEW cut, NEW how, Keep(b, cut, how)
      PROVE  how = "soup"
  BY <1>3 DEF Keep
<1>4. Soup(b)
  <2> HIDE DEF b
  <2>1. FinishOov(b) \/ FinishEmpty(b) \/ FinishCap(b) \/ FinishSignature(b)
          \/ FinishStop(b) \/ FinishSoup(b) \/ FinishRepetition(b) \/ Commit(b)
    BY DEF UpdateFromOutput, b
  <2>2. ~FinishOov(b)
    BY DEF FinishOov
  <2>3. ~FinishEmpty(b)
    BY KindType DEF FinishEmpty
  <2>4. ~FinishCap(b) /\ ~FinishSignature(b)
    BY <1>3 DEF FinishCap, FinishSignature
  <2>5. ~FinishStop(b) /\ ~FinishRepetition(b)
    BY <1>3 DEF FinishStop, FinishRepetition
  <2>6. ~Commit(b)
    <3> DEFINE how == IF Kind(b) \in {"completed", "cut"} THEN Kind(b) ELSE "none"
    <3>1. Commit(b) => Keep(b, Len(out) + Len(Kept(b)), how)
      BY DEF Commit
    <3>2. how # "soup"
      BY KindType
    <3> HIDE DEF how
    <3> QED
      BY <1>3, <3>1, <3>2
  <2> QED
    BY <2>1, <2>2, <2>3, <2>4, <2>5, <2>6 DEF FinishSoup
<1>5. /\ c \in Seq(Tokens) /\ Len(c) <= Len(worker)
      /\ \A j \in 1..Len(c) : worker[j] = c[j]
  BY <1>1, KeptOnWorker
<1>6. PICK s \in Signatures :
        NextStreaks(b)[s] >= SoupStreak \/ NextTotals(b)[s] >= SoupTotal
  BY <1>4 DEF Soup
<1>7. /\ e \in Seq(Tokens)
      /\ s \in SoupTags(c, Len(e)) =>
           NextStreaks(b)[s] = streaks[s] + 1 /\ NextTotals(b)[s] = totals[s] + 1
      /\ s \notin SoupTags(c, Len(e)) =>
           NextStreaks(b)[s] = 0 /\ NextTotals(b)[s] = totals[s]
  BY <1>2, CountersAre DEF IInv
<1>8. /\ streaks[s] <= totals[s] /\ totals[s] < SoupTotal
      /\ totals[s] > 0 => Spread(s, totals[s] - 1, out)
  BY <1>1 DEF MentionInv
<1>9. /\ totals[s] \in Nat /\ streaks[s] \in Nat
      /\ SoupTotal \in Nat /\ SoupStreak \in Nat /\ Overlap \in Nat
  BY CommitAssumption, WatchAssumption DEF IInv, TypeOK
<1>10. \A m \in {SoupStreak, SoupTotal} :
         m >= 2 /\ \A w \in s : Overlap < Len(w) + (m - 2) * LeastBlock
  BY DEF MentionLeaves
<1>11. s \in SUBSET Seq(Tokens)
  BY DEF SpellingsTyped
<1> HIDE DEF b, e, c
<1>12. s \in SoupTags(c, Len(e))
  <2>1. ~(0 >= SoupStreak) /\ ~(totals[s] >= SoupTotal)
    BY <1>8, <1>9, <1>10
  <2> QED
    BY <1>6, <1>7, <2>1
<1>13. PICK m \in {SoupStreak, SoupTotal} : totals[s] + 1 >= m
  <2>1. totals[s] + 1 >= SoupStreak \/ totals[s] + 1 >= SoupTotal
    BY <1>6, <1>7, <1>8, <1>9, <1>12
  <2> QED
    BY <2>1
<1>14. m \in Nat /\ m >= 2 /\ totals[s] > 0
  BY <1>9, <1>10, <1>13
<1> DEFINE n == totals[s] - 1
           u == m - 2
<1>15. n \in Nat /\ u \in Nat /\ u <= n
  BY <1>9, <1>13, <1>14
<1>16. Spread(s, n, out)
  BY <1>8, <1>14
<1>17. LeastBlock \in Nat
  BY LeastBlockType DEF MentionLeaves
<1>18. \A w \in s : Overlap < Len(w) + u * LeastBlock
  BY <1>10
<1> HIDE DEF n, u
<1>19. PICK w \in s : \E k \in Occurrences(s, c) :
                        k \in 1..Len(c) /\ k - Len(w) >= Len(out) - Overlap
  BY <1>1, <1>7, <1>12, TaggedOccurs DEF c
<1>20. PICK k \in Occurrences(s, c) : k \in Int /\ k - Len(w) >= Len(out) - Overlap
  BY <1>19
<1>21. Occurrences(s, out) \subseteq Occurrences(s, c)
  <2>1. /\ Len(c) = Len(out) + Len(e)
        /\ \A j \in 1..Len(out) : c[j] = out[j]
    BY <1>1, <1>7, ConcatProperties DEF c
  <2>2. Len(out) <= Len(c)
    BY <1>1, <1>7, <2>1
  <2> QED
    BY <1>1, <1>5, <1>11, <2>1, <2>2, OccursInExtension
<1>22. IsFiniteSet(Occurrences(s, c)) /\ Cardinality(Occurrences(s, c)) \in Nat
  BY <1>5, <1>11, OccurrencesFinite
<1>23. Cardinality(Occurrences(s, c)) > 1
  <2>1. CASE Cardinality(Occurrences(s, out)) > 1
    <3>1. Cardinality(Occurrences(s, out)) \in Nat
      BY <1>1, <1>11, OccurrencesFinite
    <3>2. Cardinality(Occurrences(s, out)) <= Cardinality(Occurrences(s, c))
      BY <1>21, <1>22, FS_Subset
    <3> QED
      BY <1>22, <2>1, <3>1, <3>2
  <2>2. CASE \E i \in Occurrences(s, out) : Len(out) >= i + n * LeastBlock
    <3>1. PICK i \in Occurrences(s, out) : Len(out) >= i + n * LeastBlock
      BY <2>2
    <3>2. i \in 1..Len(out)
      BY DEF Occurrences
    <3>3. i \in Int /\ Len(out) \in Nat
      BY <1>1, <1>11, <3>2
    <3> DEFINE y == u * LeastBlock
               z == n * LeastBlock
    <3>4. y <= z /\ y \in Int /\ z \in Int
      BY <1>15, <1>17, AtMostTimes
    <3>5. Len(out) >= i + z /\ Overlap < Len(w) + y /\ Len(w) \in Nat
      BY <1>11, <1>18, <3>1
    <3> HIDE DEF y, z
    <3>6. i # k
      BY <1>9, <1>11, <1>20, <3>3, <3>4, <3>5, ApartFromTail
    <3> QED
      BY <1>20, <1>21, <1>22, <3>6, TwoElements
  <2> QED
    BY <1>16, <2>1, <2>2 DEF Spread
<1>24. worker \in Seq(Tokens)
  BY DEF IInv, TypeOK
<1>25. Cardinality(Occurrences(s, c)) <= Cardinality(Occurrences(s, worker))
  BY <1>5, <1>11, <1>24, OccursInExtension
<1>26. Cardinality(Occurrences(s, worker)) \in Nat
  BY <1>11, <1>24, OccurrencesFinite
<1>27. Cardinality(Occurrences(s, worker)) > 1
  BY <1>22, <1>23, <1>25, <1>26
<1> QED
  BY <1>27

\* A signature that is mentioned once never ends the request, when a mention is
\* out of sight before the blocks it is seen in reach a threshold; run
\* block_mention shows that the premise is needed.
THEOREM OneMention ==
  ASSUME MentionLeaves, SpellingsTyped
  PROVE  Spec => []OneMentionSurvives
<1> DEFINE Inv == LongBlocks /\ MentionInv /\ OneMentionSurvives
<1>1. Init => Inv
  <2> SUFFICES ASSUME Init
               PROVE  Inv
    OBVIOUS
  <2>1. /\ flight = <<>> /\ ending = "none"
        /\ streaks = [s \in Signatures |-> 0] /\ totals = [s \in Signatures |-> 0]
    BY DEF Init
  <2>2. LongBlocks
    BY <2>1 DEF LongBlocks
  <2>3. MentionInv
    BY <2>1, CommitAssumption DEF MentionInv
  <2> QED
    BY <2>1, <2>2, <2>3 DEF OneMentionSurvives
<1>2. IInv /\ Inv /\ [Next]_vars => Inv'
  <2> SUFFICES ASSUME IInv, Inv, [Next]_vars
               PROVE  Inv'
    OBVIOUS
  <2>1. LongBlocks'
    BY NextLong DEF IInv, MentionLeaves
  <2>2. CASE UpdateFromOutput
    <3>1. MentionInv'
      BY <2>2, HandlerKeepsMention DEF MentionInv
    <3>2. worker' = worker
      BY <2>2, HandlerConsumes DEF IInv
    <3>3. OneMentionSurvives'
      BY <2>2, <3>2, SoupEndsSpread DEF OneMentionSurvives
    <3> QED
      BY <2>1, <3>1, <3>3
  <2>3. CASE ~UpdateFromOutput
    <3>1. UNCHANGED <<status, ending, out, sigWatch, streaks, totals, repStreak>>
      BY <2>3, OtherSteps DEF Next
    <3>2. MentionInv'
      BY <3>1 DEF MentionInv, Spread
    <3>3. OneMentionSurvives'
      <4>1. CASE status = "running"
        BY <3>1, <4>1 DEF MentionInv, OneMentionSurvives
      <4>2. CASE status # "running"
        <5>1. worker' = worker
          BY <2>3, <4>2 DEF Next, Run, Sample, Skip, Done, vars
        <5> QED
          BY <3>1, <5>1 DEF OneMentionSurvives
      <4> QED
        BY <4>1, <4>2
    <3> QED
      BY <2>1, <3>2, <3>3
  <2> QED
    BY <2>2, <2>3
<1> QED
  BY <1>1, <1>2, Invariance, PTL DEF Spec

===============================================================================
