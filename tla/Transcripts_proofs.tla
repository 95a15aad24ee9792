---------------------------- MODULE Transcripts_proofs ---------------------------
(***************************************************************************)
(* Proofs about the bench clients that talk turn after turn, and about what*)
(* is made of the texts they exchange: the three loops of AgentLoops keep  *)
(* a conversation that a server accepts and books that agree with it; a    *)
(* text that collapses into repetition is flagged; an echoed text is lifted*)
(* into calls whole or not at all.                                         *)
(***************************************************************************)
EXTENDS AgentLoops, FiniteSetTheorems, SequenceTheorems, WellFoundedInduction, TLAPS

CONSTANTS Words, MaxDeltas, MaxPiece, GramLength, MaxRepeats, MinTokens, ShareNum, ShareDen
VARIABLE stream

Degen == INSTANCE Degeneration

-------------------------------------------------------------------------------
(* Numbers and sequences. *)

\* Every set of numbers that is not empty has a least one.
LEMMA LeastNatural ==
  ASSUME NEW T, T \subseteq Nat, T # {}
  PROVE  \E n \in T : \A m \in T : n <= m
<1> DEFINE R == OpToRel(<, Nat)
<1>1. R = {x \in Nat \X Nat : x[1] < x[2]}
  BY DEF OpToRel
<1>2. IsWellFoundedOn(R, Nat)
  BY NatLessThanWellFounded
<1> HIDE DEF R
<1>3. PICK n \in T : \A m \in T : ~(<<m, n>> \in R)
  BY <1>2, WFMin
<1>4. \A m \in T : ~(m < n)
  <2> TAKE m \in T
  <2>1. <<m, n>> \in Nat \X Nat
    OBVIOUS
  <2> QED
    BY <1>1, <1>3, <2>1
<1> QED
  BY <1>4

\* The largest of a set of places.
LEMMA LargestOf ==
  ASSUME NEW n \in Nat, NEW s, s \subseteq 1..n, s # {}
  PROVE  Max(s) \in s /\ \A x \in s : x <= Max(s)
<1> DEFINE T == {m \in Nat : \A x \in s : x <= m}
<1>1. n \in T
  OBVIOUS
<1>2. PICK m \in T : \A k \in T : m <= k
  BY <1>1, LeastNatural
<1>3. m \in s
  <2> SUFFICES ASSUME m \notin s
               PROVE  FALSE
    OBVIOUS
  <2>1. PICK y : y \in s
    OBVIOUS
  <2>2. m - 1 \in Nat
    BY <1>2, <2>1
  <2>3. \A x \in s : x <= m - 1
    BY <1>2
  <2> QED
    BY <1>2, <2>2, <2>3
<1>4. \A y \in s : m >= y
  BY <1>2
<1>5. Max(s) \in s /\ \A y \in s : Max(s) >= y
  BY <1>3, <1>4 DEF Max
<1> QED
  BY <1>5

\* A sequence, whatever its items.
IsSeq(s) == \E S : s \in Seq(S)

\* One more item.
LEMMA SeqAppend ==
  ASSUME NEW s, IsSeq(s), NEW m
  PROVE  /\ IsSeq(Append(s, m)) /\ Len(s) \in Nat /\ Len(Append(s, m)) = Len(s) + 1
         /\ DOMAIN s = 1..Len(s) /\ DOMAIN Append(s, m) = 1..(Len(s) + 1)
         /\ Append(s, m)[Len(s) + 1] = m
         /\ \A i \in 1..Len(s) : Append(s, m)[i] = s[i]
<1>1. PICK S : s \in Seq(S)
  BY DEF IsSeq
<1> DEFINE R == S \cup {m}
<1>2. s \in Seq(R) /\ m \in R
  BY <1>1
<1> HIDE DEF R
<1>3. Append(s, m) \in Seq(R)
  BY <1>2
<1> QED
  BY <1>2, <1>3 DEF IsSeq

-------------------------------------------------------------------------------
(* FlattenSeq. *)

\* The recursion of FlattenSeq has a solution, for every number of sequences.
LEMMA FlattenExists ==
  ASSUME NEW q, NEW n \in Nat
  PROVE  \E g : g = [i \in 1..n |-> IF i = 1 THEN q[i] ELSE g[i - 1] \o q[i]]
<1> DEFINE Sol(g, k) == g = [i \in 1..k |-> IF i = 1 THEN q[i] ELSE g[i - 1] \o q[i]]
           T == {k \in Nat : ~\E g : Sol(g, k)}
<1> SUFFICES ASSUME T # {}
             PROVE  FALSE
  OBVIOUS
<1>1. PICK k \in T : \A m \in T : k <= m
  BY LeastNatural
<1>2. CASE k = 0
  <2> DEFINE g == [i \in 1..0 |-> q]
  <2>1. g = [i \in 1..0 |-> IF i = 1 THEN q[i] ELSE g[i - 1] \o q[i]]
    OBVIOUS
  <2> HIDE DEF g
  <2>2. \E h : Sol(h, 0)
    BY <2>1
  <2> QED
    BY <1>1, <1>2, <2>2
<1>3. CASE k # 0
  <2>1. k - 1 \in Nat /\ k - 1 \notin T
    <3>1. k \in Nat
      OBVIOUS
    <3> HIDE DEF T
    <3> QED
      BY <1>1, <1>3, <3>1
  <2>2. PICK e : Sol(e, k - 1)
    <3> HIDE DEF Sol
    <3> QED
      BY <2>1
  <2>3. \A i \in 1..(k - 1) : e[i] = IF i = 1 THEN q[i] ELSE e[i - 1] \o q[i]
    <3>1. e = [i \in 1..(k - 1) |-> IF i = 1 THEN q[i] ELSE e[i - 1] \o q[i]]
      BY <2>2
    <3> QED
      BY <3>1
  <2> DEFINE last == IF k = 1 THEN q[k] ELSE e[k - 1] \o q[k]
             g    == [i \in 1..k |-> IF i = k THEN last ELSE e[i]]
  <2>4. \A i \in 1..k : g[i] = IF i = 1 THEN q[i] ELSE g[i - 1] \o q[i]
    <3> TAKE i \in 1..k
    <3>1. CASE i = k
      <4>1. i # 1 => i - 1 \in 1..k /\ i - 1 # k
        OBVIOUS
      <4>2. i # 1 => g[i - 1] = e[k - 1]
        BY <3>1, <4>1
      <4>3. g[i] = last
        BY <3>1
      <4> HIDE DEF g
      <4> QED
        BY <3>1, <4>2, <4>3
    <3>2. CASE i # k
      <4>1. i \in 1..(k - 1) /\ (i # 1 => i - 1 \in 1..k /\ i - 1 # k)
        BY <3>2, <1>1
      <4>2. g[i] = e[i] /\ (i # 1 => g[i - 1] = e[i - 1])
        BY <3>2, <4>1
      <4> HIDE DEF g
      <4> QED
        BY <2>3, <4>1, <4>2
    <3> QED
      BY <3>1, <3>2
  <2>5. g = [i \in 1..k |-> IF i = 1 THEN q[i] ELSE g[i - 1] \o q[i]]
    BY <2>4
  <2> HIDE DEF g
  <2>6. \E h : Sol(h, k)
    BY <2>5
  <2> QED
    BY <1>1, <2>6
<1> QED
  BY <1>2, <1>3

\* The sequences one by one.
LEMMA FlattenSteps ==
  ASSUME NEW q, NEW n \in Nat, n # 0, Len(q) = n
  PROVE  \E v : /\ v[1] = q[1]
                /\ \A k \in 2..n : v[k] = v[k - 1] \o q[k]
                /\ FlattenSeq(q) = v[n]
<1> DEFINE v == CHOOSE g : g = [i \in 1..n |-> IF i = 1 THEN q[i] ELSE g[i - 1] \o q[i]]
<1>1. v = [i \in 1..n |-> IF i = 1 THEN q[i] ELSE v[i - 1] \o q[i]]
  BY FlattenExists, Zenon
<1>2. FlattenSeq(q) = v[n]
  BY DEF FlattenSeq
<1> HIDE DEF v
<1>3. \A i \in 1..n : v[i] = IF i = 1 THEN q[i] ELSE v[i - 1] \o q[i]
  BY <1>1
<1>4. v[1] = q[1]
  BY <1>3, 1 \in 1..n
<1>5. ASSUME NEW k \in 2..n
      PROVE  v[k] = v[k - 1] \o q[k]
  <2>1. k \in 1..n /\ k # 1
    OBVIOUS
  <2> QED
    BY <1>3, <2>1
<1> QED
  BY <1>2, <1>4, <1>5

-------------------------------------------------------------------------------
(* Conversations. *)

\* l is h, then x, then f.
Joins(l, h, x, f) ==
  /\ IsSeq(l) /\ Len(h) \in Nat /\ Len(f) \in Nat
  /\ DOMAIN h = 1..Len(h) /\ DOMAIN l = 1..(Len(h) + 1 + Len(f))
  /\ l[Len(h) + 1] = x
  /\ \A i \in 1..Len(h) : l[i] = h[i]
  /\ \A k \in 1..Len(f) : l[Len(h) + 1 + k] = f[k]

\* The items of a sequence with one item and another sequence behind it.
LEMMA BlockIs ==
  ASSUME NEW h, IsSeq(h), NEW x, NEW f, IsSeq(f)
  PROVE  Joins(h \o <<x>> \o f, h, x, f)
<1>1. PICK A : h \in Seq(A)
  BY DEF IsSeq
<1>2. PICK B : f \in Seq(B)
  BY DEF IsSeq
<1> DEFINE R == A \cup B \cup {x}
           l == h \o <<x>> \o f
<1>3. h \in Seq(R) /\ f \in Seq(R) /\ x \in R
  BY <1>1, <1>2
<1> HIDE DEF R
<1>4. l \in Seq(R) /\ Len(h) \in Nat /\ Len(f) \in Nat /\ Len(l) = Len(h) + 1 + Len(f)
  BY <1>3
<1>5. l[Len(h) + 1] = x /\ \A i \in 1..Len(h) : l[i] = h[i]
  BY <1>3
<1>6. \A k \in 1..Len(f) : l[Len(h) + 1 + k] = f[k]
  BY <1>3
<1>7. DOMAIN h = 1..Len(h) /\ DOMAIN l = 1..Len(l)
  BY <1>3, <1>4
<1> HIDE DEF l
<1>8. IsSeq(l)
  BY <1>4 DEF IsSeq
<1>9. DOMAIN l = 1..(Len(h) + 1 + Len(f))
  BY <1>4, <1>7
<1>10. Joins(l, h, x, f)
  BY <1>4, <1>5, <1>6, <1>7, <1>8, <1>9 DEF Joins
<1> QED
  BY <1>10 DEF l

Assoc(a, b, c) == IsSeq(a \o b) /\ a \o (b \o c) = a \o b \o c

\* Joining sequences is associative.
LEMMA ConcatAssoc ==
  ASSUME NEW a, IsSeq(a), NEW b, IsSeq(b), NEW c, IsSeq(c)
  PROVE  Assoc(a, b, c)
<1>1. PICK A : a \in Seq(A)
  BY DEF IsSeq
<1>2. PICK B : b \in Seq(B)
  BY DEF IsSeq
<1>3. PICK C : c \in Seq(C)
  BY DEF IsSeq
<1> DEFINE R == A \cup B \cup C
<1>4. a \in Seq(R) /\ b \in Seq(R) /\ c \in Seq(R)
  BY <1>1, <1>2, <1>3
<1> HIDE DEF R
<1>5. a \o b \in Seq(R)
  BY <1>4
<1> DEFINE l == a \o (b \o c)
           m == a \o b \o c
           n == Len(a) + Len(b) + Len(c)
<1>6. l \in Seq(R) /\ m \in Seq(R) /\ Len(l) = n /\ Len(m) = n /\ n \in Nat
  BY <1>4
<1>7. ASSUME NEW i \in 1..n
      PROVE  l[i] = m[i]
  <2>1. CASE i \in 1..Len(a)
    BY <1>4, <2>1
  <2>2. CASE i \in (Len(a) + 1)..(Len(a) + Len(b))
    BY <1>4, <2>2
  <2>3. CASE i \in (Len(a) + Len(b) + 1)..n
    BY <1>4, <2>3
  <2>4. \/ i \in 1..Len(a) \/ i \in (Len(a) + 1)..(Len(a) + Len(b))
        \/ i \in (Len(a) + Len(b) + 1)..n
    BY <1>4
  <2> QED
    BY <2>1, <2>2, <2>3, <2>4
<1> HIDE DEF l, m, n
<1>8. l = m
  BY <1>6, <1>7, SeqEqual
<1>9. IsSeq(a \o b)
  BY <1>5 DEF IsSeq
<1> QED
  BY <1>8, <1>9 DEF l, m, Assoc

\* The places of a sequence.
LEMMA SeqShape ==
  ASSUME NEW s, IsSeq(s)
  PROVE  Len(s) \in Nat /\ DOMAIN s = 1..Len(s)
BY DEF IsSeq

\* The empty sequence is one.
LEMMA EmptyIsSeq == IsSeq(<<>>)
<1>1. <<>> \in Seq({})
  OBVIOUS
<1> QED
  BY <1>1 DEF IsSeq

\* It has no places.
LEMMA NoPlaces == \A i \in DOMAIN <<>> : FALSE
<1>1. DOMAIN <<>> = 1..0 /\ 1..0 = {}
  OBVIOUS
<1> QED
  BY <1>1

CallIds(m) == {m.calls[k].id : k \in DOMAIN m.calls}

\* CallsAnswered, with the message a result belongs to.
ResultsFollow(h) ==
  \A i \in DOMAIN h : \A k \in DOMAIN h[i].calls :
    i + k \in DOMAIN h /\ h[i + k].role = "tool" /\ h[i + k].id = h[i].calls[k].id
ResultsBelong(h) ==
  \A i \in DOMAIN h : h[i].role = "tool" =>
    \E j \in 1..i : /\ h[j].role # "tool" /\ h[i].id \in CallIds(h[j])
                    /\ \A m \in (j + 1)..i : h[m].role = "tool"
IdsApart(h) ==
  \A i, j \in DOMAIN h : i # j => CallIds(h[i]) \cap CallIds(h[j]) = {}

\* A conversation in which each result follows its own call.
Settled(h) ==
  /\ IsSeq(h) /\ \A i \in DOMAIN h : IsSeq(h[i].calls)
  /\ ResultsFollow(h) /\ ResultsBelong(h)

\* h and a message with c results behind it.
Grown(l, h, n, c) ==
  /\ DOMAIN h = 1..n /\ DOMAIN l = 1..(n + 1 + c) /\ \A i \in 1..n : l[i] = h[i]
  /\ l[n + 1].role # "tool" /\ DOMAIN l[n + 1].calls = 1..c
  /\ \A k \in 1..c : /\ l[n + 1 + k].role = "tool" /\ l[n + 1 + k].calls = <<>>
                     /\ l[n + 1 + k].id = l[n + 1].calls[k].id

\* A place is in the old part, at the new message or among the c results behind it.
LEMMA BlockPlaces ==
  ASSUME NEW n \in Nat, NEW c \in Nat, NEW i \in 1..(n + 1 + c)
  PROVE  i \in 1..n \/ i = n + 1 \/ (\E k \in 1..c : i = n + 1 + k)
<1>1. i > n + 1 => i - n - 1 \in 1..c /\ i = n + 1 + (i - n - 1)
  OBVIOUS
<1>2. i > n + 1 => \E k \in 1..c : i = n + 1 + k
  BY <1>1
<1> QED
  BY <1>2

\* The ids are those of turns up to t, and of its first k calls.
IdsUpTo(h, t, k) ==
  \A i \in DOMAIN h : \A id \in CallIds(h[i]) :
    \E a \in 0..t, b \in Nat : id = <<a, b>> /\ (a = t => b <= k)

\* A conversation whose calls are numbered as well, so that no two share an id.
Talk(h, t, k) == Settled(h) /\ IdsApart(h) /\ IdsUpTo(h, t, k)

\* A message whose calls are answered at once.
LEMMA BlockAnswered ==
  ASSUME NEW h, NEW l, NEW n \in Nat, NEW c \in Nat, Grown(l, h, n, c),
         ResultsFollow(h), ResultsBelong(h)
  PROVE  ResultsFollow(l) /\ ResultsBelong(l)
<1>0. DOMAIN <<>> = 1..0 /\ 1..0 = {}
  OBVIOUS
<1>1. \A i \in 1..(n + 1 + c) :
        i \in 1..n \/ i = n + 1 \/ (\E k \in 1..c : i = n + 1 + k)
  BY BlockPlaces
<1>01. DOMAIN h = 1..n /\ DOMAIN l = 1..(n + 1 + c) /\ \A i \in 1..n : l[i] = h[i]
  BY DEF Grown
<1>02. l[n + 1].role # "tool" /\ DOMAIN l[n + 1].calls = 1..c
  BY DEF Grown
<1>03. \A k \in 1..c : /\ l[n + 1 + k].role = "tool" /\ l[n + 1 + k].calls = <<>>
                       /\ l[n + 1 + k].id = l[n + 1].calls[k].id
  BY DEF Grown
<1>4. ASSUME NEW i \in 1..(n + 1 + c), NEW k \in DOMAIN l[i].calls
      PROVE  i + k \in 1..(n + 1 + c) /\ l[i + k].role = "tool" /\ l[i + k].id = l[i].calls[k].id
  <2>1. CASE i \in 1..n
    <3>1. l[i] = h[i]
      BY <1>01, <2>1
    <3>2. i + k \in 1..n /\ h[i + k].role = "tool" /\ h[i + k].id = h[i].calls[k].id
      BY <1>01, <2>1, <3>1 DEF ResultsFollow
    <3>3. l[i + k] = h[i + k] /\ i + k \in 1..(n + 1 + c)
      BY <1>01, <3>2
    <3> QED
      BY <3>1, <3>2, <3>3
  <2>2. CASE i = n + 1
    <3>1. k \in 1..c
      BY <1>02, <2>2
    <3> QED
      BY <1>03, <2>2, <3>1
  <2>3. CASE \E b \in 1..c : i = n + 1 + b
    <3>1. l[i].calls = <<>>
      BY <1>03, <2>3
    <3> QED
      BY <1>0, <3>1
  <2> QED
    BY <1>1, <2>1, <2>2, <2>3
<1>5. ASSUME NEW i \in 1..(n + 1 + c), l[i].role = "tool"
      PROVE  \E j \in 1..i : /\ l[j].role # "tool" /\ l[i].id \in CallIds(l[j])
                             /\ \A m \in (j + 1)..i : l[m].role = "tool"
  <2>1. CASE i \in 1..n
    <3>1. l[i] = h[i]
      BY <1>01, <2>1
    <3>2. PICK j \in 1..i : /\ h[j].role # "tool" /\ h[i].id \in CallIds(h[j])
                            /\ \A m \in (j + 1)..i : h[m].role = "tool"
      BY <1>01, <1>5, <2>1, <3>1 DEF ResultsBelong
    <3>3. j \in 1..n /\ \A m \in (j + 1)..i : m \in 1..n
      BY <2>1
    <3>4. l[j] = h[j] /\ \A m \in (j + 1)..i : l[m] = h[m]
      BY <1>01, <3>3
    <3>5. l[j].role # "tool" /\ l[i].id \in CallIds(l[j]) /\ \A m \in (j + 1)..i : l[m].role = "tool"
      BY <3>1, <3>2, <3>4
    <3> QED
      BY <3>5
  <2>2. CASE \E k \in 1..c : i = n + 1 + k
    <3>1. PICK k \in 1..c : i = n + 1 + k
      BY <2>2
    <3>2. n + 1 \in 1..i /\ \A m \in ((n + 1) + 1)..i : \E b \in 1..c : m = n + 1 + b
      <4>1. \A m \in ((n + 1) + 1)..i : m - n - 1 \in 1..c /\ m = n + 1 + (m - n - 1)
        BY <3>1
      <4> QED
        BY <3>1, <4>1
    <3>3. l[i].id \in CallIds(l[n + 1])
      BY <1>02, <1>03, <3>1 DEF CallIds
    <3>4. \A m \in ((n + 1) + 1)..i : l[m].role = "tool"
      BY <1>03, <3>2
    <3> QED
      BY <1>02, <3>2, <3>3, <3>4
  <2> QED
    BY <1>1, <1>02, <1>5, <2>1, <2>2
<1>7. ResultsFollow(l)
  BY <1>01, <1>4 DEF ResultsFollow
<1>8. ResultsBelong(l)
  <2> SUFFICES ASSUME NEW i \in DOMAIN l, l[i].role = "tool"
               PROVE  \E j \in 1..i : /\ l[j].role # "tool" /\ l[i].id \in CallIds(l[j])
                                      /\ \A m \in (j + 1)..i : l[m].role = "tool"
    BY DEF ResultsBelong
  <2>1. i \in 1..(n + 1 + c)
    BY <1>01
  <2> QED
    BY <1>5, <2>1
<1> QED
  BY <1>7, <1>8

\* A message with calls and their results leaves the conversation settled.
LEMMA BlockSettled ==
  ASSUME NEW h, NEW l, NEW x, NEW f, Joins(l, h, x, f), Settled(h),
         x.role # "tool", IsSeq(x.calls), DOMAIN x.calls = 1..Len(f),
         \A k \in 1..Len(f) : /\ f[k].role = "tool" /\ f[k].calls = <<>>
                              /\ f[k].id = x.calls[k].id
  PROVE  Settled(l)
<1> DEFINE n == Len(h)
           c == Len(f)
<1>0. /\ IsSeq(h) /\ \A i \in DOMAIN h : IsSeq(h[i].calls)
      /\ ResultsFollow(h) /\ ResultsBelong(h)
  BY DEF Settled
<1>1. /\ IsSeq(l) /\ n \in Nat /\ c \in Nat /\ DOMAIN h = 1..n /\ DOMAIN l = 1..(n + 1 + c)
      /\ l[n + 1] = x /\ \A i \in 1..n : l[i] = h[i]
      /\ \A k \in 1..c : l[n + 1 + k] = f[k]
  BY DEF Joins
<1> HIDE DEF n, c
<1>2. \A i \in 1..(n + 1 + c) :
        i \in 1..n \/ i = n + 1 \/ (\E k \in 1..c : i = n + 1 + k)
  BY <1>1, BlockPlaces
<1>3. \A k \in 1..c : /\ l[n + 1 + k].role = "tool" /\ l[n + 1 + k].calls = <<>>
                      /\ l[n + 1 + k].id = x.calls[k].id
  BY <1>1 DEF c
<1>4. ResultsFollow(l) /\ ResultsBelong(l)
  <2>1. l[n + 1].role # "tool" /\ DOMAIN l[n + 1].calls = 1..c
    BY <1>1 DEF c
  <2>2. \A k \in 1..c : /\ l[n + 1 + k].role = "tool" /\ l[n + 1 + k].calls = <<>>
                         /\ l[n + 1 + k].id = l[n + 1].calls[k].id
    BY <1>1, <1>3
  <2>3. Grown(l, h, n, c)
    BY <1>1, <2>1, <2>2 DEF Grown
  <2> QED
    BY <1>0, <1>1, <2>3, BlockAnswered
<1>5. \A i \in DOMAIN l : IsSeq(l[i].calls)
  <2>1. IsSeq(<<>>)
    BY EmptyIsSeq
  <2>2. \A i \in 1..n : IsSeq(l[i].calls)
    BY <1>0, <1>1
  <2>3. IsSeq(l[n + 1].calls)
    BY <1>1
  <2>4. \A k \in 1..c : IsSeq(l[n + 1 + k].calls)
    BY <1>3, <2>1
  <2>5. \A i \in 1..(n + 1 + c) : IsSeq(l[i].calls)
    BY <1>2, <2>2, <2>3, <2>4
  <2>6. DOMAIN l = 1..(n + 1 + c)
    BY <1>1
  <2> QED
    BY <2>5, <2>6
<1> QED
  BY <1>1, <1>4, <1>5 DEF Settled

\* Its calls are the next of turn t.
Follow(x, f, t, b) ==
  /\ DOMAIN x.calls = 1..Len(f)
  /\ \A k \in 1..Len(f) : x.calls[k].id = <<t, b + k>> /\ f[k].calls = <<>>

\* With those, no two calls share an id.
LEMMA BlockIds ==
  ASSUME NEW h, NEW l, NEW x, NEW f, Joins(l, h, x, f), NEW t \in Nat, NEW b \in Nat,
         IdsApart(h), IdsUpTo(h, t, b), Follow(x, f, t, b)
  PROVE  IdsApart(l) /\ IdsUpTo(l, t, b + Len(f))
<1> DEFINE n == Len(h)
           c == Len(f)
<1>1. /\ n \in Nat /\ c \in Nat /\ DOMAIN h = 1..n /\ DOMAIN l = 1..(n + 1 + c)
      /\ l[n + 1] = x /\ \A i \in 1..n : l[i] = h[i]
      /\ \A k \in 1..c : l[n + 1 + k] = f[k]
  BY DEF Joins
<1>2. DOMAIN x.calls = 1..c /\ \A k \in 1..c : x.calls[k].id = <<t, b + k>> /\ f[k].calls = <<>>
  BY DEF Follow
<1> HIDE DEF n, c
<1>3. \A i \in 1..(n + 1 + c) :
        i \in 1..n \/ i = n + 1 \/ (\E k \in 1..c : i = n + 1 + k)
  BY <1>1, BlockPlaces
<1>4. CallIds(x) = {<<t, b + k>> : k \in 1..c}
  BY <1>2 DEF CallIds
<1>5. \A i \in 1..n : CallIds(l[i]) = CallIds(h[i])
  BY <1>1
<1>6. \A k \in 1..c : CallIds(l[n + 1 + k]) = {}
  BY <1>1, <1>2, NoPlaces DEF CallIds
<1>7. \A i \in 1..n : CallIds(h[i]) \cap CallIds(x) = {}
  <2> SUFFICES ASSUME NEW i \in 1..n, NEW k \in 1..c, <<t, b + k>> \in CallIds(h[i])
               PROVE  FALSE
    BY <1>4
  <2>1. PICK u \in 0..t, v \in Nat : <<t, b + k>> = <<u, v>> /\ (u = t => v <= b)
    BY <1>1 DEF IdsUpTo
  <2>2. b + k <= b
    BY <2>1
  <2> QED
    BY <1>1, <2>2
<1>8. ASSUME NEW i \in 1..(n + 1 + c), NEW j \in 1..(n + 1 + c), i # j
      PROVE  CallIds(l[i]) \cap CallIds(l[j]) = {}
  <2>1. CASE i \in 1..n /\ j \in 1..n
    BY <1>1, <1>5, <1>8, <2>1 DEF IdsApart
  <2>2. CASE i \in 1..n /\ j = n + 1
    BY <1>1, <1>5, <1>7, <2>2
  <2>3. CASE i = n + 1 /\ j \in 1..n
    BY <1>1, <1>5, <1>7, <2>3
  <2>4. CASE (\E k \in 1..c : i = n + 1 + k) \/ (\E k \in 1..c : j = n + 1 + k)
    BY <1>6, <2>4
  <2> QED
    BY <1>3, <1>8, <2>1, <2>2, <2>3, <2>4
<1>9. IdsUpTo(l, t, b + c)
  <2> SUFFICES ASSUME NEW i \in 1..(n + 1 + c), NEW id \in CallIds(l[i])
               PROVE  \E u \in 0..t, v \in Nat : id = <<u, v>> /\ (u = t => v <= b + c)
    BY <1>1 DEF IdsUpTo
  <2>1. CASE i \in 1..n
    <3>0. i \in DOMAIN h /\ id \in CallIds(h[i])
      BY <1>1, <2>1
    <3>1. PICK u \in 0..t, v \in Nat : id = <<u, v>> /\ (u = t => v <= b)
      BY <3>0 DEF IdsUpTo
    <3>2. u = t => v <= b + c
      BY <1>1, <3>1
    <3> QED
      BY <3>1, <3>2
  <2>2. CASE i = n + 1
    <3>1. PICK k \in 1..c : id = <<t, b + k>>
      BY <1>1, <1>4, <2>2
    <3>2. t \in 0..t /\ b + k \in Nat /\ b + k <= b + c
      BY <1>1
    <3> QED
      BY <3>1, <3>2
  <2>3. CASE \E k \in 1..c : i = n + 1 + k
    BY <1>6, <2>3
  <2> QED
    BY <1>3, <2>1, <2>2, <2>3
<1>10. IdsApart(l)
  BY <1>1, <1>8 DEF IdsApart
<1> QED
  BY <1>9, <1>10 DEF c

\* A message without calls.
LEMMA NoteJoins ==
  ASSUME NEW h, IsSeq(h), NEW x
  PROVE  Joins(Append(h, x), h, x, <<>>) /\ Len(<<>>) = 0 /\ 1..Len(<<>>) = {}
<1>1. Joins(h \o <<x>> \o <<>>, h, x, <<>>)
  BY EmptyIsSeq, BlockIs
<1>2. h \o <<x>> \o <<>> = Append(h, x)
  <2>1. PICK A : h \in Seq(A)
    BY DEF IsSeq
  <2> DEFINE R == A \cup {x}
  <2>2. h \in Seq(R) /\ x \in R
    BY <2>1
  <2> HIDE DEF R
  <2> QED
    BY <2>2
<1>3. Len(<<>>) = 0 /\ 1..0 = {}
  OBVIOUS
<1> QED
  BY <1>1, <1>2, <1>3

LEMMA NoteSettled ==
  ASSUME NEW h, Settled(h), NEW x, x.role # "tool", x.calls = <<>>
  PROVE  Settled(Append(h, x))
<1> DEFINE none == <<>>
           l == Append(h, x)
<1>1. Joins(l, h, x, none) /\ 1..Len(none) = {}
  BY NoteJoins DEF Settled
<1>2. IsSeq(x.calls) /\ DOMAIN x.calls = {}
  BY EmptyIsSeq, NoPlaces
<1> HIDE DEF none, l
<1>3. Settled(l)
  BY <1>1, <1>2, BlockSettled
<1> QED
  BY <1>3 DEF l

LEMMA NoteTalk ==
  ASSUME NEW h, NEW t \in Nat, NEW b \in Nat, Talk(h, t, b),
         NEW x, x.role # "tool", x.calls = <<>>
  PROVE  Talk(Append(h, x), t, b)
<1> DEFINE none == <<>>
           l == Append(h, x)
<1>1. Joins(l, h, x, none) /\ Len(none) = 0 /\ 1..Len(none) = {}
  BY NoteJoins DEF Talk, Settled
<1>2. Follow(x, none, t, b)
  BY <1>1, NoPlaces DEF Follow
<1> HIDE DEF none
<1>3. IdsApart(l) /\ IdsUpTo(l, t, b + Len(none))
  <2> HIDE DEF l
  <2> QED
    BY <1>1, <1>2, BlockIds DEF Talk
<1>4. b + Len(none) = b
  BY <1>1
<1>5. Settled(l)
  BY NoteSettled DEF Talk
<1> QED
  BY <1>3, <1>4, <1>5 DEF Talk

\* The ids of a turn that is over.
LEMMA NextTurn ==
  ASSUME NEW h, NEW t \in Nat, NEW b \in Nat, Talk(h, t, b)
  PROVE  Talk(h, t + 1, 0)
<1>1. ASSUME NEW i \in DOMAIN h, NEW id \in CallIds(h[i])
      PROVE  \E u \in 0..(t + 1), v \in Nat : id = <<u, v>> /\ (u = t + 1 => v <= 0)
  <2>1. PICK u \in 0..t, v \in Nat : id = <<u, v>>
    BY <1>1 DEF Talk, IdsUpTo
  <2>2. u \in 0..(t + 1) /\ u # t + 1
    BY <2>1
  <2> QED
    BY <2>1, <2>2
<1> QED
  BY <1>1 DEF Talk, IdsUpTo

\* A result belongs to the last message before it that is no result.
LEMMA SettledAnswered ==
  ASSUME Settled(msgs), client = "depth" => IdsApart(msgs)
  PROVE  CallsAnswered
<1> DEFINE Lead(i) == CHOOSE j \in 1..i : /\ msgs[j].role # "tool"
                                          /\ \A k \in (j + 1)..i : msgs[k].role = "tool"
<1>1. ResultsFollow(msgs) /\ ResultsBelong(msgs) /\ DOMAIN msgs \subseteq Nat
  <2>1. PICK A : msgs \in Seq(A)
    BY DEF Settled, IsSeq
  <2> QED
    BY <2>1 DEF Settled
<1>2. ASSUME NEW i \in DOMAIN msgs, msgs[i].role = "tool"
      PROVE  msgs[i].id \in CallIds(msgs[Lead(i)])
  <2>1. PICK j \in 1..i : /\ msgs[j].role # "tool" /\ msgs[i].id \in CallIds(msgs[j])
                          /\ \A m \in (j + 1)..i : msgs[m].role = "tool"
    BY <1>1, <1>2 DEF ResultsBelong
  <2>2. ASSUME NEW k \in 1..i, msgs[k].role # "tool", \A m \in (k + 1)..i : msgs[m].role = "tool"
        PROVE  k = j
    <3>1. i \in Nat
      BY <1>1
    <3>2. ~(k < j) /\ ~(j < k)
      <4>1. k < j => j \in (k + 1)..i
        BY <3>1
      <4>2. j < k => k \in (j + 1)..i
        BY <3>1
      <4> QED
        BY <2>1, <2>2, <4>1, <4>2
    <3> QED
      BY <3>1, <3>2
  <2>3. Lead(i) = j
    BY <2>1, <2>2
  <2> QED
    BY <2>1, <2>3
<1> QED
  BY <1>1, <1>2 DEF ResultsFollow, IdsApart, CallsAnswered, CallIds

\* The clients have turns to take, and a server's answer holds a sequence of calls.
LoopConstants ==
  /\ MaxTurns \in Nat \ {0} /\ N \in Nat \ {0}
  /\ \A c \in {"loop", "depth", "tdd"} : \A a \in Answers[c] : IsSeq(a.calls)

\* A function on 1..n is a sequence of length n.
LEMMA FunSeq ==
  ASSUME NEW n \in Nat, NEW f, f = [k \in 1..n |-> f[k]]
  PROVE  IsSeq(f) /\ Len(f) = n /\ DOMAIN f = 1..n
<1> DEFINE S == {f[k] : k \in 1..n}
<1>1. f \in [1..n -> S]
  OBVIOUS
<1>2. f \in Seq(S)
  BY <1>1
<1> HIDE DEF S
<1>3. IsSeq(f)
  BY <1>2 DEF IsSeq
<1>4. DOMAIN f = 1..n
  BY <1>1
<1>5. Len(f) = n
  BY <1>2, <1>4
<1> QED
  BY <1>3, <1>4, <1>5

\* The calls of an answer with the ids of turn t.
NumberedAs(c, t) ==
  [k \in DOMAIN c |-> [name |-> c[k].name, args |-> c[k].args, id |-> <<t, k>>]]

\* Numbering keeps the calls and their arguments, and gives the k-th the id k of turn t.
LEMMA NumberedType ==
  ASSUME NEW c, IsSeq(c), NEW t
  PROVE  /\ IsSeq(NumberedAs(c, t)) /\ Len(NumberedAs(c, t)) = Len(c)
         /\ DOMAIN NumberedAs(c, t) = 1..Len(c)
         /\ \A k \in 1..Len(c) : /\ NumberedAs(c, t)[k].id = <<t, k>>
                                 /\ NumberedAs(c, t)[k].args = c[k].args
<1> DEFINE f == NumberedAs(c, t)
<1>1. Len(c) \in Nat /\ DOMAIN c = 1..Len(c)
  BY SeqShape
<1>2. f = [k \in 1..Len(c) |-> f[k]]
  BY <1>1 DEF NumberedAs
<1>3. \A k \in 1..Len(c) : f[k].id = <<t, k>> /\ f[k].args = c[k].args
  BY <1>1 DEF NumberedAs
<1> HIDE DEF f
<1>4. IsSeq(f) /\ Len(f) = Len(c) /\ DOMAIN f = 1..Len(c)
  <2> DEFINE n == Len(c)
  <2>1. n \in Nat /\ f = [k \in 1..n |-> f[k]]
    BY <1>1, <1>2
  <2> HIDE DEF n
  <2>2. IsSeq(f) /\ Len(f) = n /\ DOMAIN f = 1..n
    BY <2>1, FunSeq
  <2> QED
    BY <2>2 DEF n
<1> QED
  BY <1>3, <1>4 DEF f

\* The results f of the calls c.
Results(c, f) ==
  /\ IsSeq(c) /\ f = [k \in DOMAIN c |-> f[k]]
  /\ \A k \in DOMAIN c : f[k].role = "tool" /\ f[k].calls = <<>> /\ f[k].id = c[k].id

Exchanged(l, h, x, f) == l = h \o <<x>> \o f

\* A message with calls and their results: the conversation stays settled, and what is
\* new are the message and its results.
LEMMA ExchangeSettled ==
  ASSUME NEW h, Settled(h), NEW c, NEW text, NEW f, Results(c, f),
         NEW x, x = Said(c, text), NEW l, Exchanged(l, h, x, f)
  PROVE  Settled(l) /\ Joins(l, h, x, f) /\ Len(f) = Len(c) /\ x.calls = c
<1> DEFINE n == Len(c)
<1>0. IsSeq(c) /\ f = [k \in DOMAIN c |-> f[k]]
  BY DEF Results
<1>1. n \in Nat /\ DOMAIN c = 1..n
  BY <1>0, SeqShape
<1>2. IsSeq(f) /\ Len(f) = n /\ DOMAIN f = 1..n
  <2>1. f = [k \in 1..n |-> f[k]]
    BY <1>0, <1>1
  <2> HIDE DEF n
  <2> QED
    BY <1>1, <2>1, FunSeq
<1>3. IsSeq(h)
  BY DEF Settled
<1>4. x.role # "tool" /\ x.calls = c
  BY DEF Said
<1>5. Joins(l, h, x, f)
  BY <1>2, <1>3, BlockIs DEF Exchanged
<1>6. Settled(l)
  <2>1. IsSeq(x.calls) /\ DOMAIN x.calls = 1..Len(f)
    BY <1>0, <1>1, <1>2, <1>4
  <2>2. \A k \in 1..Len(f) : /\ f[k].role = "tool" /\ f[k].calls = <<>>
                              /\ f[k].id = x.calls[k].id
    BY <1>1, <1>2, <1>4 DEF Results
  <2> QED
    BY <1>4, <1>5, <2>1, <2>2, BlockSettled
<1> QED
  BY <1>2, <1>4, <1>5, <1>6 DEF n

\* The calls after the b-th of turn t.
NextIds(c, t, b) == \A k \in DOMAIN c : c[k].id = <<t, b + k>>
Replies(c, f, t, b) == Results(c, f) /\ NextIds(c, t, b)

\* With those, no two share an id.
LEMMA ExchangeTalk ==
  ASSUME NEW h, NEW t \in Nat, NEW b \in Nat, Talk(h, t, b), NEW c, NEW text,
         NEW f, Replies(c, f, t, b),
         NEW x, x = Said(c, text), NEW l, Exchanged(l, h, x, f)
  PROVE  Talk(l, t, b + Len(f)) /\ Joins(l, h, x, f) /\ Len(f) = Len(c)
<1>0. Results(c, f) /\ NextIds(c, t, b)
  BY DEF Replies
<1>1. Settled(l) /\ Joins(l, h, x, f) /\ Len(f) = Len(c) /\ x.calls = c
  BY <1>0, ExchangeSettled DEF Talk
<1>2. DOMAIN c = 1..Len(f)
  BY <1>0, <1>1, SeqShape DEF Results
<1>3. \A k \in 1..Len(f) : x.calls[k].id = <<t, b + k>> /\ f[k].calls = <<>>
  BY <1>0, <1>1, <1>2 DEF Results, NextIds
<1>4. IdsApart(l) /\ IdsUpTo(l, t, b + Len(f))
  <2>1. DOMAIN x.calls = 1..Len(f)
    BY <1>1, <1>2
  <2>2. IdsApart(h) /\ IdsUpTo(h, t, b)
    BY DEF Talk
  <2>3. Follow(x, f, t, b)
    BY <1>3, <2>1 DEF Follow
  <2> QED
    BY <1>1, <2>2, <2>3, BlockIds
<1> QED
  BY <1>1, <1>4 DEF Talk

-------------------------------------------------------------------------------
(* agent_loop.py *)

Assistants(h) == {i \in DOMAIN h : h[i].role = "assistant"}

\* A message that may stand in the conversation of agent_loop.py.
FineMessage(m) ==
  /\ m.text # "signature" /\ (m.role = "tool" => m.text # "error")
  /\ \A k \in DOMAIN m.calls : m.calls[k].args = "good"

\* The conversation is answered throughout; while no answer was faulty, each turn put
\* one into it and every row says so.
LoopInv ==
  client = "loop" =>
    /\ turn \in Nat /\ Settled(msgs) /\ IsSeq(rows)
    /\ \A i \in DOMAIN msgs : FineMessage(msgs[i])
    /\ verdict \in {"", "CLEAN"} =>
         /\ Cardinality(Assistants(msgs)) = turn
         /\ \A l \in DOMAIN rows : rows[l].class = "ok"
    /\ verdict = "CLEAN" => turn = MaxTurns
    /\ verdict \in {"FAIL", "traceback"} => Last(msgs) = User("step")

\* What a user message adds.
LEMMA UserAdds ==
  ASSUME NEW h, IsSeq(h), NEW text
  PROVE  /\ DOMAIN h = 1..Len(h) /\ Len(h) \in Nat
         /\ Len(Append(h, User(text))) = Len(h) + 1
         /\ DOMAIN Append(h, User(text)) = 1..(Len(h) + 1)
         /\ \A i \in 1..Len(h) : Append(h, User(text))[i] = h[i]
         /\ Append(h, User(text))[Len(h) + 1] = User(text)
BY SeqAppend

\* It keeps the conversation settled.
LEMMA UserSettled ==
  ASSUME NEW h, Settled(h), NEW text
  PROVE  Settled(Append(h, User(text)))
<1> DEFINE x == User(text)
<1>1. x.role # "tool" /\ x.calls = <<>>
  BY DEF User
<1> HIDE DEF x
<1>2. Settled(Append(h, x))
  BY <1>1, NoteSettled
<1> QED
  BY <1>2 DEF x

\* It keeps the calls numbered as well.
LEMMA UserNote ==
  ASSUME NEW h, NEW t \in Nat, NEW b \in Nat, Talk(h, t, b), NEW text
  PROVE  /\ Talk(Append(h, User(text)), t, b)
         /\ DOMAIN h = 1..Len(h) /\ Len(h) \in Nat
         /\ Len(Append(h, User(text))) = Len(h) + 1
         /\ DOMAIN Append(h, User(text)) = 1..(Len(h) + 1)
         /\ \A i \in 1..Len(h) : Append(h, User(text))[i] = h[i]
         /\ Append(h, User(text))[Len(h) + 1] = User(text)
<1> DEFINE x == User(text)
<1>1. x.role # "tool" /\ x.calls = <<>>
  BY DEF User
<1> HIDE DEF x
<1>2. Talk(Append(h, x), t, b)
  BY <1>1, NoteTalk
<1>3. IsSeq(h)
  BY DEF Talk, Settled
<1> QED
  BY <1>2, <1>3, UserAdds DEF x

\* The answers of a conversation can be counted.
LEMMA AssistantsFinite ==
  ASSUME NEW h, IsSeq(h)
  PROVE  IsFiniteSet(Assistants(h)) /\ Cardinality(Assistants(h)) \in Nat
<1>1. Len(h) \in Nat /\ DOMAIN h = 1..Len(h)
  BY SeqShape
<1>2. Assistants(h) \in SUBSET (1..Len(h)) /\ IsFiniteSet(1..Len(h))
  BY <1>1, FS_Interval DEF Assistants
<1> QED
  BY <1>2, FS_Subset, FS_CardinalityType

\* A question: the conversation of a turn that has begun.
LEMMA AskKeeps ==
  ASSUME LoopInv, client = "loop", NEW m, m = Append(msgs, User("step"))
  PROVE  /\ Settled(m) /\ Last(m) = User("step")
         /\ \A i \in DOMAIN m : FineMessage(m[i])
         /\ Assistants(m) = Assistants(msgs)
<1>1. Settled(msgs) /\ (\A i \in DOMAIN msgs : FineMessage(msgs[i]))
  BY DEF LoopInv
<1> DEFINE n == Len(msgs)
<1>2. Settled(m)
  BY <1>1, UserSettled
<1>3. /\ DOMAIN msgs = 1..n /\ n \in Nat /\ Len(m) = n + 1 /\ DOMAIN m = 1..(n + 1)
      /\ \A i \in 1..n : m[i] = msgs[i]
      /\ m[n + 1] = User("step")
  <2>1. IsSeq(msgs)
    BY <1>1 DEF Settled
  <2> QED
    BY <2>1, UserAdds
<1> HIDE DEF n
<1>4. Last(m) = User("step")
  BY <1>3 DEF Last
<1>5. User("step").role = "user" /\ User("step").text = "step" /\ User("step").calls = <<>>
  BY DEF User
<1>6. FineMessage(m[n + 1])
  BY <1>3, <1>5, NoPlaces DEF FineMessage
<1>7. \A i \in 1..(n + 1) : i \in 1..n \/ i = n + 1
  BY <1>3
<1>8. \A i \in DOMAIN m : FineMessage(m[i])
  BY <1>1, <1>3, <1>6, <1>7
<1>9. Assistants(m) = Assistants(msgs)
  BY <1>3, <1>5, <1>7 DEF Assistants
<1> QED
  BY <1>2, <1>4, <1>8, <1>9

\* One row more.
LEMMA RowAdds ==
  ASSUME IsSeq(rows), NEW r
  PROVE  IsSeq(Append(rows, r)) /\ DOMAIN rows = 1..Len(rows) /\ Len(rows) \in Nat
         /\ DOMAIN Append(rows, r) = 1..(Len(rows) + 1)
         /\ Append(rows, r)[Len(rows) + 1] = r
         /\ \A i \in 1..Len(rows) : Append(rows, r)[i] = rows[i]
BY SeqAppend

\* A turn of agent_loop.py, faulty or not, keeps its invariant.
LEMMA LoopTurnKeeps ==
  ASSUME LoopConstants, LoopInv, NEW a \in Answers[client], LoopTurn(a)
  PROVE  LoopInv'
<1>1. /\ client = "loop" /\ verdict = "" /\ turn < MaxTurns /\ turn' = turn + 1
      /\ client' = client
  BY DEF LoopTurn
<1>2. turn \in Nat /\ IsSeq(rows) /\ IsSeq(a.calls)
  <2>1. turn \in Nat
    BY <1>1 DEF LoopInv
  <2>2. IsSeq(rows)
    BY <1>1 DEF LoopInv
  <2> QED
    BY <1>1, <2>1, <2>2 DEF LoopConstants
<1> DEFINE asked == Append(msgs, User("step"))
           c == a.calls
           f == [k \in DOMAIN c |-> Result(c[k], FakeResult(c[k]))]
<1>3. /\ Settled(asked) /\ Last(asked) = User("step")
      /\ \A i \in DOMAIN asked : FineMessage(asked[i])
      /\ Assistants(asked) = Assistants(msgs)
  BY <1>1, AskKeeps
<1>4. msgs' = IF Fault(a) # "ok" THEN asked ELSE asked \o <<Said(c, a.text)>> \o f
  BY DEF LoopTurn
<1>5. rows' = Append(rows, [rep |-> rep, turn |-> turn', class |-> Fault(a),
                              calls |-> Len(a.calls), dup |-> FALSE])
  BY DEF LoopTurn, Row
<1>6. verdict' = IF Fault(a) # "ok" THEN "FAIL" ELSE IF turn' = MaxTurns THEN "CLEAN" ELSE ""
  BY DEF LoopTurn
<1>7. IsSeq(rows')
  BY <1>2, <1>5, RowAdds
<1> HIDE DEF asked, c, f
<1>8. turn' \in Nat
  <2>1. turn' = turn + 1
    BY <1>1
  <2>2. turn \in Nat
    BY <1>2
  <2> QED
    BY <2>1, <2>2
<1>9. CASE Fault(a) # "ok"
  <2>1. msgs' = asked /\ verdict' = "FAIL"
    BY <1>4, <1>6, <1>9
  <2> QED
    BY <1>3, <1>7, <1>8, <2>1 DEF LoopInv
<1>10. CASE Fault(a) = "ok"
  <2> DEFINE text == a.text
             x == Said(c, text)
  <2>1. msgs' = asked \o <<x>> \o f /\ verdict' = IF turn' = MaxTurns THEN "CLEAN" ELSE ""
    BY <1>4, <1>6, <1>10
  <2>2. a.text # "signature" /\ (\A k \in DOMAIN a.calls : a.calls[k].args = "good")
    <3>1. a.text # "signature"
      BY <1>10 DEF Fault
    <3>2. BadCalls(a.calls) = {}
      BY <1>10, <3>1, NoPlaces DEF Fault, BadCalls
    <3> QED
      BY <3>1, <3>2 DEF BadCalls
  <2>3. IsSeq(c) /\ DOMAIN c = 1..Len(c)
    BY <1>2, SeqShape DEF c
  <2>4. \A k \in DOMAIN c : c[k].args = "good"
    BY <2>2 DEF c
  <2>5. \A k \in DOMAIN c : /\ f[k].role = "tool" /\ f[k].calls = <<>> /\ f[k].id = c[k].id
                            /\ f[k].text # "error"
    BY <2>4 DEF f, Result, FakeResult
  <2>6. Results(c, f)
    <3>1. f = [k \in DOMAIN c |-> f[k]]
      BY DEF f
    <3> QED
      BY <2>3, <2>5, <3>1 DEF Results
  <2> DEFINE l == asked \o <<x>> \o f
  <2>7. x = Said(c, text) /\ Exchanged(l, asked, x, f) /\ msgs' = l
    BY <2>1 DEF Exchanged
  <2>11. x.role = "assistant" /\ x.text = a.text /\ x.calls = c
    BY DEF Said
  <2> HIDE DEF l, x, text
  <2>9. Settled(l) /\ Joins(l, asked, x, f) /\ Len(f) = Len(c)
    BY <1>3, <2>6, <2>7, ExchangeSettled
  <2>12. Settled(msgs')
    BY <2>7, <2>9
  <2> DEFINE n == Len(asked)
             e == Len(f)
  <2>13. /\ n \in Nat /\ e \in Nat /\ DOMAIN asked = 1..n /\ DOMAIN l = 1..(n + 1 + e)
         /\ l[n + 1] = x /\ (\A i \in 1..n : l[i] = asked[i]) /\ (\A k \in 1..e : l[n + 1 + k] = f[k])
    BY <2>9 DEF Joins
  <2>14. DOMAIN c = 1..e
    BY <2>3, <2>9
  <2> HIDE DEF n, e
  <2>15. \A i \in 1..(n + 1 + e) : i \in 1..n \/ i = n + 1 \/ (\E k \in 1..e : i = n + 1 + k)
    BY <2>13, BlockPlaces
  <2>16. FineMessage(x)
    BY <2>2, <2>4, <2>11 DEF FineMessage
  <2>17. \A k \in 1..e : FineMessage(f[k])
    <3> SUFFICES ASSUME NEW k \in 1..e PROVE FineMessage(f[k])
      OBVIOUS
    <3>1. f[k].text # "error" /\ f[k].calls = <<>> /\ f[k].text # "signature"
      BY <2>5, <2>14 DEF f, Result, FakeResult
    <3> QED
      BY <3>1, NoPlaces DEF FineMessage
  <2>18. \A i \in DOMAIN msgs' : FineMessage(msgs'[i])
    <3>1. \A i \in 1..n : FineMessage(l[i])
      BY <1>3, <2>13
    <3>2. FineMessage(l[n + 1]) /\ \A k \in 1..e : FineMessage(l[n + 1 + k])
      BY <2>13, <2>16, <2>17
    <3>3. \A i \in 1..(n + 1 + e) : FineMessage(l[i])
      BY <2>15, <3>1, <3>2
    <3> QED
      BY <2>7, <2>13, <3>3
  <2>19. Assistants(l) = Assistants(asked) \cup {n + 1}
    <3>1. \A k \in 1..e : f[k].role # "assistant"
      BY <2>5, <2>14
    <3>2. \A i \in 1..(n + 1 + e) : l[i].role = "assistant" => i \in Assistants(asked) \/ i = n + 1
      BY <2>13, <2>15, <3>1 DEF Assistants
    <3>3. \A i \in Assistants(asked) : i \in 1..(n + 1 + e) /\ l[i].role = "assistant"
      BY <2>13 DEF Assistants
    <3>4. n + 1 \in 1..(n + 1 + e) /\ l[n + 1].role = "assistant"
      BY <2>11, <2>13
    <3> QED
      BY <2>13, <3>2, <3>3, <3>4 DEF Assistants
  <2>20. Cardinality(Assistants(msgs')) = turn'
    <3>1. IsFiniteSet(Assistants(asked)) /\ n + 1 \notin Assistants(asked)
      <4>1. IsSeq(asked)
        BY <1>3 DEF Settled
      <4> QED
        BY <2>13, <4>1, AssistantsFinite DEF Assistants
    <3>2. Cardinality(Assistants(asked) \cup {n + 1}) = Cardinality(Assistants(asked)) + 1
      BY <3>1, FS_AddElement
    <3>3. Cardinality(Assistants(asked)) = turn
      BY <1>1, <1>3 DEF LoopInv
    <3> QED
      BY <1>1, <2>7, <2>19, <3>2, <3>3
  <2>21. \A i \in DOMAIN rows' : rows'[i].class = "ok"
    <3>1. \A i \in DOMAIN rows : rows[i].class = "ok"
      BY <1>1 DEF LoopInv
    <3> DEFINE r == [rep |-> rep, turn |-> turn', class |-> Fault(a),
                    calls |-> Len(a.calls), dup |-> FALSE]
               q == Len(rows)
    <3>2. r.class = "ok"
      BY <1>10
    <3> HIDE DEF r
    <3>3. /\ DOMAIN rows = 1..q /\ q \in Nat
          /\ DOMAIN rows' = 1..(q + 1)
          /\ rows'[q + 1] = r
          /\ \A i \in 1..q : rows'[i] = rows[i]
      BY <1>2, <1>5, RowAdds DEF r
    <3> HIDE DEF q
    <3>4. \A i \in 1..(q + 1) : i \in 1..q \/ i = q + 1
      BY <3>3
    <3> QED
      BY <3>1, <3>2, <3>3, <3>4
  <2>22. verdict' = "CLEAN" => turn' = MaxTurns
    BY <2>1
  <2>23. verdict' \notin {"FAIL", "traceback"}
    BY <2>1
  <2> QED
    BY <1>7, <1>8, <2>12, <2>18, <2>20, <2>21, <2>22, <2>23 DEF LoopInv
<1> QED
  BY <1>9, <1>10

\* So does a failed call.
LEMMA LoopErrorKeeps ==
  ASSUME LoopInv, LoopError
  PROVE  LoopInv'
<1>1. /\ client = "loop" /\ verdict = "" /\ turn' = turn + 1 /\ client' = client
      /\ msgs' = Append(msgs, User("step")) /\ verdict' = "traceback"
  BY DEF LoopError
<1>0. turn \in Nat /\ IsSeq(rows)
  BY <1>1 DEF LoopInv
<1>2. turn \in Nat /\ turn' \in Nat
  <2>1. turn' = turn + 1
    BY <1>1
  <2>2. turn \in Nat
    BY <1>0
  <2> QED
    BY <2>1, <2>2
<1>3. /\ Settled(msgs') /\ Last(msgs') = User("step")
      /\ \A i \in DOMAIN msgs' : FineMessage(msgs'[i])
  BY <1>1, AskKeeps
<1>4. IsSeq(rows')
  BY <1>0, RowAdds DEF LoopError, Row
<1> QED
  BY <1>1, <1>2, <1>3, <1>4 DEF LoopInv

\* What the invariant of agent_loop.py gives.
LEMMA LoopPromises ==
  ASSUME LoopInv, client = "loop"
  PROVE  CallsAnswered /\ CleanMeansClean
<1>1. CallsAnswered
  BY SettledAnswered DEF LoopInv
<1>2. \A i \in DOMAIN msgs :
        /\ msgs[i].text # "signature" /\ (msgs[i].role = "tool" => msgs[i].text # "error")
        /\ \A k \in DOMAIN msgs[i].calls : msgs[i].calls[k].args = "good"
  BY DEF LoopInv, FineMessage
<1>3. verdict = "CLEAN" =>
        /\ Cardinality({i \in DOMAIN msgs : msgs[i].role = "assistant"}) = MaxTurns
        /\ \A l \in DOMAIN rows : rows[l].class = "ok"
  BY DEF LoopInv, Assistants
<1> QED
  BY <1>1, <1>2, <1>3 DEF LoopInv, CleanMeansClean

-------------------------------------------------------------------------------
(* tdd_consecutive_tools.py, group A *)

\* The rows speak of the repetitions up to rep; those of the current one all had calls.
RepRows(rs, r) ==
  \A l \in DOMAIN rs : rs[l].rep \in 1..r /\ (rs[l].rep = r => rs[l].class = "calls")
\* Only the last row of a repetition is without calls.
EndsAtOnce(rs) ==
  \A l, m \in DOMAIN rs : l < m /\ rs[l].rep = rs[m].rep => rs[l].class = "calls"
\* Every repetition that is over has a row.
RepsSeen(rs, r) == \A x \in 1..(r - 1) : \E l \in DOMAIN rs : rs[l].rep = x
\* The current repetition has a row after its first round, and not before.
Begun(rs, r, t) ==
  /\ t = 0 => \A l \in DOMAIN rs : rs[l].rep # r
  /\ t # 0 => \E l \in DOMAIN rs : rs[l].rep = r
\* Some repetition went on after its first call.
WentOn(rs) ==
  \E l, m \in DOMAIN rs :
    /\ rs[l].class = "calls" /\ rs[m].class = "calls" /\ rs[l].rep = rs[m].rep
    /\ l # m \/ rs[l].calls > 1
\* Without that there is no more than one call in a repetition.
FewCalls(rs, n, r, t) == ~WentOn(rs) => n <= IF t = 0 THEN r - 1 ELSE r

\* The books of group A: n calls so far, in round t of repetition r.
Booked(rs, n, r, t) ==
  /\ RepRows(rs, r) /\ EndsAtOnce(rs) /\ RepsSeen(rs, r)
  /\ Begun(rs, r, t) /\ FewCalls(rs, n, r, t)
\* The same behind the last row, of the given class.
BookedMore(s, n, r, class) ==
  /\ EndsAtOnce(s) /\ RepsSeen(s, r + 1) /\ \A l \in DOMAIN s : s[l].rep \in 1..r
  /\ class = "calls" => RepRows(s, r)
  /\ \E l \in DOMAIN s : s[l].rep = r
  /\ ~WentOn(s) => n <= r

Stats == [calls : Nat, empty : Nat, done : Nat, err : Nat]

\* The statistics never count more calls than the rows can show, and the rows of a
\* repetition that goes on all had calls.
TddInv ==
  client = "tdd" =>
    /\ turn \in Nat /\ rep \in Nat \ {0} /\ stats \in Stats
    /\ Settled(msgs) /\ IsSeq(rows)
    /\ Booked(rows, stats.calls, rep, turn)
    /\ (\E l \in DOMAIN rows : rows[l].class = "empty") => stats.empty > 0
    /\ verdict = "" => rep <= N
    /\ verdict # "" => rep = N + 1 /\ turn = 0
    /\ verdict = "PASS" => ~LoopBroken(stats)

\* A row of the current repetition is added.
LEMMA RoundRows ==
  ASSUME NEW r \in Nat \ {0}, NEW t \in Nat, NEW n \in Nat, NEW rs, IsSeq(rs), NEW row, NEW s,
         s = Append(rs, row), row.rep = r, Booked(rs, n, r, t), NEW k \in Nat, row.calls = k,
         row.class # "calls" => k = 0
  PROVE  BookedMore(s, n + k, r, row.class)
<1>0. /\ RepRows(rs, r) /\ EndsAtOnce(rs) /\ RepsSeen(rs, r)
      /\ Begun(rs, r, t) /\ FewCalls(rs, n, r, t)
  BY DEF Booked
<1> DEFINE q == Len(rs)
<1>1. /\ q \in Nat /\ DOMAIN rs = 1..q /\ DOMAIN s = 1..(q + 1) /\ s[q + 1] = row
      /\ \A i \in 1..q : s[i] = rs[i]
  BY SeqAppend
<1> HIDE DEF q
<1>2. /\ \A i \in 1..(q + 1) : i \in 1..q \/ i = q + 1
      /\ q + 1 \in 1..(q + 1) /\ \A i \in 1..q : i \in 1..(q + 1) /\ i < q + 1
  BY <1>1
<1>3. \A l \in 1..q : rs[l].rep \in 1..r /\ (rs[l].rep = r => rs[l].class = "calls")
  BY <1>0, <1>1 DEF RepRows
<1>4. \A l \in DOMAIN s : s[l].rep \in 1..r
  BY <1>1, <1>2, <1>3
<1>5. EndsAtOnce(s)
  <2> SUFFICES ASSUME NEW l \in 1..(q + 1), NEW m \in 1..(q + 1), l < m, s[l].rep = s[m].rep
               PROVE  s[l].class = "calls"
    BY <1>1 DEF EndsAtOnce
  <2>1. l \in 1..q /\ s[l] = rs[l]
    BY <1>1
  <2>2. CASE m = q + 1
    BY <1>1, <1>3, <2>1, <2>2
  <2>3. CASE m \in 1..q
    BY <1>0, <1>1, <2>1, <2>3 DEF EndsAtOnce
  <2> QED
    BY <1>2, <2>2, <2>3
<1>6. RepsSeen(s, r + 1)
  <2>0. (r + 1) - 1 = r
    OBVIOUS
  <2> SUFFICES ASSUME NEW x \in 1..r
               PROVE  \E l \in DOMAIN s : s[l].rep = x
    BY <2>0 DEF RepsSeen
  <2>1. CASE x = r
    BY <1>1, <1>2, <2>1
  <2>2. CASE x # r
    <3>1. x \in 1..(r - 1)
      BY <2>2
    <3>2. PICK l \in 1..q : rs[l].rep = x
      BY <1>0, <1>1, <3>1 DEF RepsSeen
    <3> QED
      BY <1>1, <1>2, <3>2
  <2> QED
    BY <2>1, <2>2
<1>7. row.class = "calls" => RepRows(s, r)
  <2> SUFFICES ASSUME row.class = "calls", NEW l \in 1..(q + 1)
               PROVE  s[l].rep \in 1..r /\ (s[l].rep = r => s[l].class = "calls")
    BY <1>1 DEF RepRows
  <2>1. s[l].rep \in 1..r
    BY <1>1, <1>4
  <2> QED
    BY <1>1, <1>2, <1>3, <2>1
<1>8. \E l \in DOMAIN s : s[l].rep = r
  BY <1>1, <1>2
<1>9. ASSUME ~WentOn(s)
      PROVE  n + k <= r
  <2>1. ~WentOn(rs)
    <3> SUFFICES ASSUME NEW l \in 1..q, NEW m \in 1..q,
                        rs[l].class = "calls", rs[m].class = "calls", rs[l].rep = rs[m].rep,
                        l # m \/ rs[l].calls > 1
                 PROVE  FALSE
      BY <1>1 DEF WentOn
    <3> QED
      BY <1>1, <1>2, <1>9 DEF WentOn
  <2>2. n <= IF t = 0 THEN r - 1 ELSE r
    BY <1>0, <2>1 DEF FewCalls
  <2>3. CASE row.class # "calls"
    BY <2>2, <2>3
  <2>4. CASE row.class = "calls"
    <3>1. ~(row.calls > 1)
      BY <1>1, <1>2, <1>9, <2>4 DEF WentOn
    <3>2. t = 0
      <4> SUFFICES ASSUME t # 0
                   PROVE  FALSE
        OBVIOUS
      <4>1. PICK l \in 1..q : rs[l].rep = r
        BY <1>0, <1>1 DEF Begun
      <4>2. s[l].rep = r /\ s[l].class = "calls" /\ l # q + 1
        BY <1>1, <1>2, <1>3, <4>1
      <4> QED
        BY <1>1, <1>2, <1>9, <2>4, <4>2 DEF WentOn
    <3> QED
      BY <2>2, <3>1, <3>2
  <2> QED
    BY <2>3, <2>4
<1> QED
  BY <1>4, <1>5, <1>6, <1>7, <1>8, <1>9 DEF BookedMore

\* A round: its row, its statistics, and whether the repetition goes on.
Round(again, s, class, n) ==
  /\ client = "tdd" /\ verdict = "" /\ client' = client
  /\ GoOn(again, s) /\ s \in Stats /\ n \in Nat /\ rows' = RoundRow(class, n)
  /\ again => class = "calls"
  /\ class # "calls" => n = 0
  /\ s.calls = stats.calls + n /\ s.empty >= stats.empty
  /\ class = "empty" => s.empty > 0

\* Such a round keeps the invariant of group A.
LEMMA RoundKeeps ==
  ASSUME LoopConstants, TddInv, NEW again, NEW s, NEW class, NEW n, Round(again, s, class, n),
         NEW m, m = msgs', Settled(m)
  PROVE  TddInv'
<1>01. client = "tdd" /\ verdict = "" /\ client' = client /\ GoOn(again, s)
  BY DEF Round
<1>02. n \in Nat /\ s \in Stats
  BY DEF Round
<1>03. Settled(msgs')
  OBVIOUS
<1> DEFINE row == [rep |-> rep, turn |-> turn, class |-> class, calls |-> n, dup |-> FALSE]
           c == stats.calls
<1>1. turn \in Nat /\ rep \in Nat \ {0}
  BY <1>01 DEF TddInv
<1>13. stats \in Stats /\ IsSeq(rows) /\ rep <= N
  BY <1>01 DEF TddInv
<1>2. Booked(rows, c, rep, turn)
  BY <1>01 DEF TddInv
<1>3. N \in Nat \ {0} /\ MaxTurns \in Nat \ {0}
  BY DEF LoopConstants
<1>4. rows' = Append(rows, row) /\ row.rep = rep /\ row.class = class /\ row.calls = n
  BY DEF Round, RoundRow
<1>5. stats' = s
  BY <1>01 DEF GoOn
<1>6. c \in Nat
  BY <1>13 DEF Stats
<1>14. row.calls = n /\ (row.class # "calls" => n = 0)
  BY <1>02 DEF Round
<1> HIDE DEF row, c
<1>7. BookedMore(rows', c + n, rep, class)
  <2> DEFINE r == rep
             t == turn
             rs == rows
             z == rows'
  <2>1. /\ r \in Nat \ {0} /\ t \in Nat /\ c \in Nat /\ IsSeq(rs) /\ z = Append(rs, row)
        /\ row.rep = r /\ Booked(rs, c, r, t)
    BY <1>1, <1>13, <1>2, <1>4, <1>6
  <2> HIDE DEF r, t, rs, z
  <2>2. BookedMore(z, c + n, r, row.class)
    BY <1>02, <1>14, <2>1, RoundRows
  <2> QED
    BY <1>4, <2>2 DEF r, z
<1>15. /\ EndsAtOnce(rows') /\ RepsSeen(rows', rep + 1)
       /\ \A l \in DOMAIN rows' : rows'[l].rep \in 1..rep
       /\ class = "calls" => RepRows(rows', rep)
       /\ \E l \in DOMAIN rows' : rows'[l].rep = rep
       /\ ~WentOn(rows') => c + n <= rep
  BY <1>7 DEF BookedMore
<1>8. s.calls \in Nat /\ s.empty \in Nat /\ s.calls = c + n /\ stats.empty \in Nat
      /\ s.empty >= stats.empty
  BY <1>02, <1>13 DEF Stats, c, Round
<1>9. IsSeq(rows')
  BY <1>13, <1>4, RowAdds
<1>10. (\E l \in DOMAIN rows' : rows'[l].class = "empty") => stats'.empty > 0
  <2> SUFFICES ASSUME NEW l \in DOMAIN rows', rows'[l].class = "empty"
               PROVE  s.empty > 0
    BY <1>5
  <2> DEFINE q == Len(rows)
  <2>1. /\ q \in Nat /\ DOMAIN rows = 1..q /\ DOMAIN rows' = 1..(q + 1) /\ rows'[q + 1] = row
        /\ \A i \in 1..q : rows'[i] = rows[i]
    BY <1>13, <1>4, RowAdds
  <2> HIDE DEF q
  <2>2. l \in 1..q \/ l = q + 1
    BY <2>1
  <2>3. CASE l = q + 1
    BY <1>4, <2>1, <2>3 DEF Round
  <2>4. CASE l \in 1..q
    <3>1. \E i \in DOMAIN rows : rows[i].class = "empty"
      BY <2>1, <2>4
    <3>2. stats.empty > 0
      BY <1>01, <3>1 DEF TddInv
    <3> QED
      BY <1>8, <3>2
  <2> QED
    BY <2>2, <2>3, <2>4
<1>11. CASE again /\ turn < MaxTurns - 1
  <2>1. turn' = turn + 1
    BY <1>01, <1>11 DEF GoOn
  <2>2. rep' = rep /\ verdict' = ""
    BY <1>01, <1>11 DEF GoOn
  <2>3. class = "calls" /\ RepRows(rows', rep)
    BY <1>11, <1>15 DEF Round
  <2>4. turn' \in Nat /\ turn' # 0
    BY <1>1, <2>1
  <2>5. Begun(rows', rep', turn')
    BY <1>15, <2>2, <2>4 DEF Begun
  <2>6. FewCalls(rows', stats'.calls, rep', turn')
    BY <1>5, <1>8, <1>15, <2>2, <2>4 DEF FewCalls
  <2>7. RepsSeen(rows', rep')
    <3>1. \A x \in 1..(rep - 1) : x \in 1..((rep + 1) - 1)
      BY <1>1
    <3> QED
      BY <1>15, <2>2, <3>1 DEF RepsSeen
  <2>8. Booked(rows', stats'.calls, rep', turn')
    BY <1>15, <2>2, <2>3, <2>5, <2>6, <2>7 DEF Booked
  <2>9. rep' \in Nat \ {0} /\ rep' <= N
    BY <1>1, <1>13, <2>2
  <2> QED
    BY <1>01, <1>02, <1>03, <1>5, <1>9, <1>10, <2>2, <2>4, <2>8, <2>9 DEF TddInv
<1>12. CASE ~(again /\ turn < MaxTurns - 1)
  <2>1. rep' = rep + 1
    BY <1>01, <1>12 DEF GoOn
  <2>2. turn' = 0
    BY <1>01, <1>12 DEF GoOn
  <2>3. verdict' = IF rep < N THEN "" ELSE IF LoopBroken(s) THEN "FAIL" ELSE "PASS"
    BY <1>01, <1>12 DEF GoOn
  <2>4. rep' \in Nat \ {0} /\ rep' - 1 = rep
    BY <1>1, <2>1
  <2>5. \A l \in DOMAIN rows' : rows'[l].rep \in 1..rep' /\ rows'[l].rep # rep'
    <3>1. \A x \in 1..rep : x \in 1..(rep + 1) /\ x # rep + 1
      BY <1>1
    <3> QED
      BY <1>15, <2>1, <3>1
  <2>6. RepRows(rows', rep') /\ Begun(rows', rep', turn')
    BY <2>2, <2>5 DEF RepRows, Begun
  <2>7. FewCalls(rows', stats'.calls, rep', turn')
    BY <1>5, <1>8, <1>15, <2>2, <2>4 DEF FewCalls
  <2>8. Booked(rows', stats'.calls, rep', turn')
    BY <1>15, <2>1, <2>6, <2>7 DEF Booked
  <2>9. rep < N => rep + 1 <= N
    BY <1>1, <1>3
  <2>10. ~(rep < N) => rep + 1 = N + 1
    BY <1>1, <1>3, <1>13
  <2>11. verdict' = "" => rep' <= N
    BY <2>1, <2>3, <2>9
  <2>12. verdict' # "" => rep' = N + 1
    BY <2>1, <2>3, <2>10
  <2>13. verdict' = "PASS" => ~LoopBroken(s)
    BY <2>3
  <2>14. LoopBroken(stats)' <=> LoopBroken(s)
    BY <1>5 DEF LoopBroken
  <2> QED
    BY <1>01, <1>02, <1>03, <1>5, <1>9, <1>10, <2>2, <2>4, <2>8, <2>11, <2>12, <2>13, <2>14 DEF TddInv
<1> QED
  BY <1>11, <1>12

\* A conversation that begins.
LEMMA FreshSettled ==
  ASSUME NEW h, h = <<User("task")>>
  PROVE  Settled(h) /\ \A i \in DOMAIN h : h[i].calls = <<>>
<1>1. IsSeq(h) /\ DOMAIN h = 1..1 /\ h[1] = User("task")
  <2>1. h \in Seq({User("task")}) /\ DOMAIN h = 1..1 /\ h[1] = User("task")
    OBVIOUS
  <2> QED
    BY <2>1 DEF IsSeq
<1>2. \A i \in DOMAIN h : i = 1 /\ h[i].role = "user" /\ h[i].calls = <<>>
  BY <1>1 DEF User
<1>3. \A i \in DOMAIN h : IsSeq(h[i].calls)
  BY <1>2, EmptyIsSeq
<1>5. ResultsFollow(h)
  BY <1>2, NoPlaces DEF ResultsFollow
<1>6. ResultsBelong(h)
  BY <1>2 DEF ResultsBelong
<1> QED
  BY <1>1, <1>2, <1>3, <1>5, <1>6 DEF Settled

LEMMA FreshTalk ==
  ASSUME NEW t \in Nat, NEW b \in Nat, NEW h, h = <<User("task")>>
  PROVE  Talk(h, t, b)
<1>1. Settled(h) /\ \A i \in DOMAIN h : h[i].calls = <<>>
  BY FreshSettled
<1>2. \A i \in DOMAIN h : CallIds(h[i]) = {}
  BY <1>1, NoPlaces DEF CallIds
<1>3. IdsApart(h) /\ IdsUpTo(h, t, b)
  BY <1>2 DEF IdsApart, IdsUpTo
<1> QED
  BY <1>1, <1>3 DEF Talk

\* A round of group A with calls keeps the invariant.
LEMMA TddCallsKeeps ==
  ASSUME LoopConstants, TddInv, NEW a \in Answers[client], TddCalls(a)
  PROVE  TddInv'
<1> DEFINE s == [stats EXCEPT !.calls = @ + Len(a.calls)]
           n == Len(a.calls)
<1>1. /\ client = "tdd" /\ verdict = "" /\ a.calls # <<>> /\ GoOn(TRUE, s)
      /\ rows' = RoundRow("calls", n) /\ client' = client
  BY DEF TddCalls
<1>2. IsSeq(a.calls)
  BY <1>1 DEF LoopConstants
<1>3. stats \in Stats /\ Settled(msgs)
  BY <1>1 DEF TddInv
<1>4. n \in Nat
  BY <1>2, SeqShape
<1>5. s \in Stats /\ s.calls = stats.calls + n /\ s.empty = stats.empty /\ stats.empty \in Nat
  <2> HIDE DEF n
  <2>1. stats.calls \in Nat /\ stats.empty \in Nat
    BY <1>3 DEF Stats
  <2>2. stats.calls + n \in Nat
    BY <1>4, <2>1
  <2>3. [stats EXCEPT !.calls = @ + n] \in Stats
    BY <1>3, <2>2 DEF Stats
  <2>4. [stats EXCEPT !.calls = @ + n].calls = stats.calls + n
        /\ [stats EXCEPT !.calls = @ + n].empty = stats.empty
    BY <1>3 DEF Stats
  <2> QED
    BY <2>1, <2>3, <2>4 DEF n
<1> HIDE DEF s, n
<1>6. Round(TRUE, s, "calls", n)
  <2>1. s.empty >= stats.empty
    BY <1>5
  <2> QED
    BY <1>1, <1>4, <1>5, <2>1 DEF Round
<1>7. Settled(msgs')
  <2> DEFINE c == a.calls
             f == [k \in DOMAIN c |-> Result(c[k], TddResult(c[k]))]
             text == a.text
             x == Said(c, text)
             l == msgs \o <<x>> \o f
             h == msgs
  <2>1. msgs' = IF rep' # rep THEN <<User("task")>> ELSE l
    BY DEF TddCalls
  <2>2. \A k \in DOMAIN c : f[k].role = "tool" /\ f[k].calls = <<>> /\ f[k].id = c[k].id
    BY DEF Result
  <2>3. f = [k \in DOMAIN c |-> f[k]]
    OBVIOUS
  <2>4. x = Said(c, text) /\ Exchanged(l, h, x, f) /\ Settled(h) /\ IsSeq(c)
    BY <1>2, <1>3 DEF Exchanged
  <2> HIDE DEF c, f, x, l, h, text
  <2>5. Results(c, f)
    BY <2>2, <2>3, <2>4 DEF Results
  <2>6. Settled(l)
    BY <2>4, <2>5, ExchangeSettled
  <2> QED
    BY <2>1, <2>6, FreshSettled
<1> QED
  BY <1>6, <1>7, RoundKeeps

\* Adding nothing.
LEMMA PlusZero == \A n \in Nat : n + 0 = n
OBVIOUS

\* A round that ends its repetition keeps the invariant, whatever its reason.
LEMMA TddEndKeeps ==
  ASSUME LoopConstants, TddInv, NEW s, NEW class, client = "tdd", verdict = "", client' = client,
         GoOn(FALSE, s), rows' = RoundRow(class, 0), s \in Stats, class # "calls",
         s.calls = stats.calls, s.empty >= stats.empty, class = "empty" => s.empty > 0,
         msgs' = <<User("task")>>
  PROVE  TddInv'
<1>1. Round(FALSE, s, class, 0)
  <2>1. stats.calls \in Nat
    BY DEF TddInv, Stats
  <2>2. s.calls = stats.calls + 0
    <3> DEFINE n == stats.calls
    <3>1. n \in Nat /\ s.calls = n
      BY <2>1
    <3> HIDE DEF n
    <3>2. n + 0 = n
      BY <3>1, PlusZero, Zenon
    <3>3. s.calls = n + 0
      BY <3>1, <3>2, Zenon
    <3> QED
      BY <3>3 DEF n
  <2> QED
    BY <2>2 DEF Round
<1>3. Settled(msgs')
  BY FreshSettled
<1> QED
  BY <1>1, <1>3, RoundKeeps

\* A round with a text, or with nothing, keeps the invariant.
LEMMA TddTextKeeps ==
  ASSUME LoopConstants, TddInv, NEW a \in Answers[client], TddText(a)
  PROVE  TddInv'
<1> DEFINE s == IF a.text = "" THEN [stats EXCEPT !.empty = @ + 1]
                ELSE IF a.text = "report" \/ turn >= 2 THEN [stats EXCEPT !.done = @ + 1]
                ELSE stats
           class == IF a.text = "" THEN "empty" ELSE "text"
<1>1. /\ client = "tdd" /\ verdict = "" /\ client' = client /\ GoOn(FALSE, s)
      /\ rows' = RoundRow(class, 0) /\ msgs' = <<User("task")>>
  BY DEF TddText
<1>2. stats \in Stats
  BY <1>1 DEF TddInv
<1>3. /\ s \in Stats /\ s.calls = stats.calls /\ s.empty >= stats.empty
      /\ class = "empty" => s.empty > 0
  <2>1. stats.empty \in Nat /\ stats.done \in Nat
    BY <1>2 DEF Stats
  <2>2. stats.empty + 1 \in Nat /\ stats.done + 1 \in Nat /\ stats.empty >= stats.empty
    BY <2>1
  <2>3. CASE a.text = ""
    <3>1. s = [stats EXCEPT !.empty = @ + 1] /\ class = "empty"
      BY <2>3
    <3>2. s \in Stats /\ s.calls = stats.calls /\ s.empty = stats.empty + 1
      BY <1>2, <2>2, <3>1 DEF Stats
    <3> HIDE DEF s, class
    <3> QED
      BY <2>1, <3>2
  <2>4. CASE a.text # "" /\ (a.text = "report" \/ turn >= 2)
    <3>1. s = [stats EXCEPT !.done = @ + 1] /\ class = "text"
      BY <2>4
    <3>2. s \in Stats /\ s.calls = stats.calls /\ s.empty = stats.empty
      BY <1>2, <2>2, <3>1 DEF Stats
    <3> HIDE DEF s, class
    <3> QED
      BY <2>2, <3>1, <3>2
  <2>5. CASE a.text # "" /\ ~(a.text = "report" \/ turn >= 2)
    <3>1. s = stats /\ class = "text"
      BY <2>5
    <3> HIDE DEF s, class
    <3> QED
      BY <1>2, <2>2, <3>1
  <2> QED
    BY <2>3, <2>4, <2>5
<1>4. class # "calls"
  OBVIOUS
<1> HIDE DEF s, class
<1> QED
  BY <1>1, <1>3, <1>4, TddEndKeeps

\* A failed call of group A keeps the invariant.
LEMMA TddErrorKeeps ==
  ASSUME LoopConstants, TddInv, TddError
  PROVE  TddInv'
<1> DEFINE s == [stats EXCEPT !.err = @ + 1]
           class == "EXC"
<1>1. /\ client = "tdd" /\ verdict = "" /\ client' = client /\ GoOn(FALSE, s)
      /\ rows' = RoundRow(class, 0) /\ msgs' = <<User("task")>>
  BY DEF TddError
<1>2. stats \in Stats
  BY <1>1 DEF TddInv
<1>3. s \in Stats /\ s.calls = stats.calls /\ s.empty >= stats.empty
  BY <1>2 DEF Stats
<1>4. class # "calls" /\ class # "empty"
  OBVIOUS
<1> HIDE DEF s, class
<1> QED
  BY <1>1, <1>3, <1>4, TddEndKeeps

\* What the invariant of group A gives.
LEMMA TddPromises ==
  ASSUME LoopConstants, TddInv, client = "tdd"
  PROVE  CallsAnswered /\ PassMeansCalls
<1>1. CallsAnswered
  BY SettledAnswered DEF TddInv
<1>2. /\ RepRows(rows, rep) /\ EndsAtOnce(rows) /\ RepsSeen(rows, rep)
      /\ Begun(rows, rep, turn) /\ FewCalls(rows, stats.calls, rep, turn)
  BY DEF TddInv, Booked
<1>3. stats.calls \in Nat /\ stats.empty \in Nat
  BY DEF TddInv, Stats
<1>4. N \in Nat \ {0}
  BY DEF LoopConstants
<1>5. verdict # "" => rep = N + 1 /\ turn = 0
  BY DEF TddInv
<1>6. ASSUME verdict = "PASS"
      PROVE  WentOn(rows) /\ \A l \in DOMAIN rows : rows[l].class # "empty"
  <2>1. ~(stats.calls < 2 * N) /\ ~(stats.empty > 0)
    BY <1>6 DEF TddInv, LoopBroken
  <2>2. \A l \in DOMAIN rows : rows[l].class # "empty"
    BY <2>1 DEF TddInv
  <2>3. rep - 1 = N /\ turn = 0
    BY <1>4, <1>5, <1>6
  <2>4. ~(stats.calls <= N)
    BY <1>3, <1>4, <2>1
  <2>5. WentOn(rows)
    BY <1>2, <2>3, <2>4 DEF FewCalls
  <2> QED
    BY <2>2, <2>5
<1>7. ASSUME verdict # ""
      PROVE  \A r \in 1..N : \E l \in DOMAIN rows : rows[l].rep = r
  <2>1. rep - 1 = N
    <3>1. rep = N + 1
      BY <1>5, <1>7
    <3>2. (N + 1) - 1 = N
      BY <1>4
    <3> QED
      BY <3>1, <3>2
  <2> QED
    BY <1>2, <2>1 DEF RepsSeen
<1> QED
  BY <1>1, <1>2, <1>6, <1>7 DEF PassMeansCalls, WentOn, EndsAtOnce

-------------------------------------------------------------------------------
(* depth300k.py, arm E *)

OfClass(rs, c) == {m \in DOMAIN rs : rs[m].class = c}
CounterBooks(rs, b) ==
  /\ DOMAIN b = {rs[l].class : l \in DOMAIN rs}
  /\ \A c \in DOMAIN b : b[c] = Cardinality(OfClass(rs, c))

\* s has one row more of the class of row, and of the others none.
ClassGrew(rs, s, row, c) ==
  /\ IsFiniteSet(OfClass(rs, c)) /\ Cardinality(OfClass(rs, c)) \in Nat
  /\ row.class = c => Cardinality(OfClass(s, c)) = Cardinality(OfClass(rs, c)) + 1
  /\ row.class # c => OfClass(s, c) = OfClass(rs, c)

\* One more row counts for its own class only.
LEMMA ClassGrows ==
  ASSUME NEW rs, IsSeq(rs), NEW row, NEW s, s = Append(rs, row), NEW c
  PROVE  ClassGrew(rs, s, row, c)
<1> DEFINE q == Len(rs)
           A == OfClass(rs, c)
<1>1. /\ q \in Nat /\ DOMAIN rs = 1..q /\ DOMAIN s = 1..(q + 1) /\ s[q + 1] = row
      /\ \A i \in 1..q : s[i] = rs[i]
  BY SeqAppend
<1> HIDE DEF q
<1>2. /\ \A i \in 1..(q + 1) : i \in 1..q \/ i = q + 1
      /\ q + 1 \in 1..(q + 1) /\ q + 1 \notin 1..q /\ \A i \in 1..q : i \in 1..(q + 1)
  BY <1>1
<1>3. A \in SUBSET (1..q) /\ IsFiniteSet(1..q)
  BY <1>1, FS_Interval DEF OfClass
<1>4. IsFiniteSet(A) /\ Cardinality(A) \in Nat
  BY <1>3, FS_Subset, FS_CardinalityType
<1>5. ASSUME row.class = c
      PROVE  Cardinality(OfClass(s, c)) = Cardinality(A) + 1
  <2>1. OfClass(s, c) = A \cup {q + 1}
    BY <1>1, <1>2, <1>5 DEF OfClass
  <2>2. q + 1 \notin A
    BY <1>2, <1>3
  <2> HIDE DEF A
  <2> QED
    BY <1>4, <2>1, <2>2, FS_AddElement
<1>6. ASSUME row.class # c
      PROVE  OfClass(s, c) = A
  BY <1>1, <1>2, <1>6 DEF OfClass
<1> QED
  BY <1>4, <1>5, <1>6 DEF ClassGrew

\* The counter and the rows agree after one more of both.
LEMMA CounterAdds ==
  ASSUME NEW rs, IsSeq(rs), NEW row, NEW s, s = Append(rs, row), NEW b, CounterBooks(rs, b),
         NEW c, c = row.class, NEW d, d = b (+) SetToBag({c})
  PROVE  CounterBooks(s, d)
<1> DEFINE q == Len(rs)
<1>1. /\ q \in Nat /\ DOMAIN rs = 1..q /\ DOMAIN s = 1..(q + 1) /\ s[q + 1] = row
      /\ \A i \in 1..q : s[i] = rs[i]
  BY SeqAppend
<1> HIDE DEF q
<1>2. /\ \A i \in 1..(q + 1) : i \in 1..q \/ i = q + 1
      /\ q + 1 \in 1..(q + 1) /\ \A i \in 1..q : i \in 1..(q + 1)
  BY <1>1
<1>3. /\ DOMAIN d = DOMAIN b \cup {c}
      /\ \A e \in DOMAIN b \cup {c} :
           d[e] = (IF e \in DOMAIN b THEN b[e] ELSE 0) + (IF e = c THEN 1 ELSE 0)
  BY DEF (+), SetToBag
<1>4. DOMAIN b = {rs[l].class : l \in 1..q} /\ \A e \in DOMAIN b : b[e] = Cardinality(OfClass(rs, e))
  BY <1>1 DEF CounterBooks
<1>5. DOMAIN d = {s[l].class : l \in DOMAIN s}
  <2>1. \A l \in 1..q : s[l].class = rs[l].class
    BY <1>1
  <2>2. s[q + 1].class = c
    BY <1>1
  <2>3. {s[l].class : l \in 1..(q + 1)} = {rs[l].class : l \in 1..q} \cup {c}
    BY <1>2, <2>1, <2>2
  <2> QED
    BY <1>1, <1>3, <1>4, <2>3
<1>6. ASSUME NEW e \in DOMAIN d
      PROVE  d[e] = Cardinality(OfClass(s, e))
  <2> DEFINE n == Cardinality(OfClass(rs, e))
             m == Cardinality(OfClass(s, e))
  <2>1. /\ n \in Nat
        /\ c = e => m = n + 1
        /\ c # e => OfClass(s, e) = OfClass(rs, e)
    <3>1. ClassGrew(rs, s, row, e)
      BY ClassGrows
    <3> QED
      BY <3>1 DEF ClassGrew
  <2>2. e \notin DOMAIN b => n = 0
    <3> SUFFICES ASSUME e \notin DOMAIN b PROVE n = 0
      OBVIOUS
    <3>1. OfClass(rs, e) = {}
      BY <1>1, <1>4 DEF OfClass
    <3> QED
      BY <3>1, FS_EmptySet
  <2>3. e \in DOMAIN b => b[e] = n
    BY <1>4
  <2>4. c # e => m = n
    BY <2>1
  <2> HIDE DEF n, m
  <2>5. (IF e \in DOMAIN b THEN b[e] ELSE 0) = n
    BY <2>2, <2>3
  <2>6. d[e] = n + (IF e = c THEN 1 ELSE 0)
    BY <1>3, <1>6, <2>5
  <2>7. CASE e = c
    BY <2>1, <2>6, <2>7 DEF m
  <2>8. CASE e # c
    <3>1. e \in DOMAIN b /\ m = n
      BY <1>3, <1>6, <2>4, <2>8
    <3>2. d[e] = n + 0
      BY <2>6, <2>8
    <3> QED
      BY <2>1, <3>1, <3>2, PlusZero DEF m
  <2> QED
    BY <2>7, <2>8
<1> QED
  BY <1>5, <1>6 DEF CounterBooks

FailTurns(rs) == {rs[l].turn : l \in {m \in DOMAIN rs : Failed(rs[m])}}
Rises(fl) == \A f \in 1..(Len(fl) - 1) : fl[f] < fl[f + 1]
FailBooks(rs, fl) == IsSeq(fl) /\ Rises(fl) /\ ToSet(fl) = FailTurns(rs)
TurnRows(rs) == \A l \in DOMAIN rs : rs[l].turn = l

\* The list of failures and the rows agree after one more row, and its turns go on rising.
LEMMA FailAdds ==
  ASSUME NEW rs, IsSeq(rs), TurnRows(rs), NEW row, NEW s, s = Append(rs, row),
         row.turn = Len(rs) + 1, NEW fl, FailBooks(rs, fl), NEW t, t = Len(rs) + 1,
         NEW gl, gl = IF Failed(row) THEN Append(fl, t) ELSE fl
  PROVE  TurnRows(s) /\ FailBooks(s, gl)
<1> DEFINE q == Len(rs)
<1>1. /\ q \in Nat /\ DOMAIN rs = 1..q /\ DOMAIN s = 1..(q + 1) /\ s[q + 1] = row
      /\ \A i \in 1..q : s[i] = rs[i]
  BY SeqAppend
<1>01. row.turn = q + 1 /\ t = q + 1
  OBVIOUS
<1> HIDE DEF q
<1>2. /\ \A i \in 1..(q + 1) : i \in 1..q \/ i = q + 1
      /\ q + 1 \in 1..(q + 1) /\ \A i \in 1..q : i \in 1..(q + 1)
  BY <1>1
<1>3. \A l \in 1..q : rs[l].turn = l
  BY <1>1 DEF TurnRows
<1>4. TurnRows(s)
  BY <1>01, <1>1, <1>2, <1>3 DEF TurnRows
<1>5. FailTurns(rs) = {l \in 1..q : Failed(rs[l])}
  BY <1>1, <1>3 DEF FailTurns
<1>6. FailTurns(s) = {l \in 1..(q + 1) : Failed(s[l])}
  BY <1>1, <1>4 DEF FailTurns, TurnRows
<1>7. IsSeq(fl) /\ Rises(fl) /\ ToSet(fl) = {l \in 1..q : Failed(rs[l])}
  BY <1>5 DEF FailBooks
<1>8. CASE ~Failed(row)
  <2>1. FailTurns(s) = FailTurns(rs)
    BY <1>1, <1>2, <1>5, <1>6, <1>8
  <2> QED
    BY <1>4, <1>8, <2>1 DEF FailBooks
<1>9. CASE Failed(row)
  <2>1. FailTurns(s) = FailTurns(rs) \cup {q + 1}
    BY <1>1, <1>2, <1>5, <1>6, <1>9
  <2> DEFINE p == Len(fl)
  <2>2. /\ IsSeq(gl) /\ p \in Nat /\ Len(gl) = p + 1 /\ DOMAIN fl = 1..p /\ DOMAIN gl = 1..(p + 1)
        /\ gl[p + 1] = q + 1
        /\ \A i \in 1..p : gl[i] = fl[i]
    BY <1>01, <1>7, <1>9, SeqAppend
  <2>3. \A f \in 1..(p - 1) : fl[f] < fl[f + 1]
    BY <1>7 DEF Rises
  <2> HIDE DEF p
  <2>4. \A i \in 1..(p + 1) : i \in 1..p \/ i = p + 1
    BY <2>2
  <2>5. ToSet(gl) = ToSet(fl) \cup {q + 1}
    <3>1. p + 1 \in 1..(p + 1) /\ \A i \in 1..p : i \in 1..(p + 1)
      BY <2>2
    <3> QED
      BY <2>2, <2>4, <3>1 DEF ToSet
  <2>6. \A i \in 1..p : fl[i] \in 1..q
    BY <1>7, <2>2 DEF ToSet
  <2>7. Rises(gl)
    <3> SUFFICES ASSUME NEW f \in 1..p
                 PROVE  gl[f] < gl[f + 1]
      <4>1. (p + 1) - 1 = p
        BY <2>2
      <4> QED
        BY <2>2, <4>1 DEF Rises
    <3>1. CASE f = p
      <4>1. gl[f] = fl[p] /\ gl[f + 1] = q + 1
        BY <2>2, <3>1
      <4>2. fl[p] \in 1..q
        BY <2>6, <3>1
      <4>3. PICK x \in 1..q : x = fl[p]
        BY <4>2
      <4>4. x < q + 1
        BY <1>1
      <4> QED
        BY <4>1, <4>3, <4>4, Zenon
    <3>2. CASE f # p
      <4>1. f \in 1..(p - 1) /\ f + 1 \in 1..p
        BY <2>2, <3>2
      <4> QED
        BY <2>2, <2>3, <4>1
    <3> QED
      BY <3>1, <3>2
  <2> QED
    BY <1>4, <1>5, <1>7, <2>1, <2>2, <2>5, <2>7 DEF FailBooks
<1> QED
  BY <1>8, <1>9

Notes(h) == {i \in DOMAIN h : h[i] = User("failed")}
QuestionsApart(h) ==
  \A i \in 1..(Len(h) - 1) : h[i + 1] = User("step") => h[i] # User("step") /\ h[i] # User("task")
NoQuestion(m) == m # User("step") /\ m # User("task")

\* The user messages differ, and no answer or result is one of them.
LEMMA Texts ==
  /\ User("step") # User("task") /\ User("failed") # User("step") /\ User("failed") # User("task")
  /\ \A text : User(text).role = "user"
  /\ \A m : m.role # "user" => NoQuestion(m) /\ m # User("failed")
<1>1. User("step").text = "step" /\ User("task").text = "task" /\ User("failed").text = "failed"
  BY DEF User
<1>2. \A text : User(text).role = "user"
  BY DEF User
<1> QED
  BY <1>1, <1>2 DEF NoQuestion

\* l goes on from h with messages that are no user's.
Grows(l, h) ==
  /\ Len(h) \in Nat /\ Len(l) \in Nat /\ Len(l) >= Len(h)
  /\ DOMAIN h = 1..Len(h) /\ DOMAIN l = 1..Len(l)
  /\ \A i \in 1..Len(h) : l[i] = h[i]
  /\ \A i \in (Len(h) + 1)..Len(l) : l[i].role # "user"

\* Answers and results keep the questions apart and add no note of a failure.
LEMMA GrownApart ==
  ASSUME NEW h, NEW l, Grows(l, h), QuestionsApart(h), Len(l) > Len(h)
  PROVE  QuestionsApart(l) /\ Notes(l) = Notes(h) /\ NoQuestion(Last(l))
<1> DEFINE n == Len(h)
           p == Len(l)
<1>1. /\ n \in Nat /\ p \in Nat /\ p > n /\ DOMAIN h = 1..n /\ DOMAIN l = 1..p
      /\ \A i \in 1..n : l[i] = h[i]
      /\ \A i \in (n + 1)..p : l[i].role # "user"
  BY DEF Grows
<1>2. Last(l) = l[p]
  BY DEF Last
<1>3. \A i \in 1..(n - 1) : h[i + 1] = User("step") => NoQuestion(h[i])
  BY DEF QuestionsApart, NoQuestion
<1>4. QuestionsApart(l) <=> \A i \in 1..(p - 1) : l[i + 1] = User("step") => NoQuestion(l[i])
  BY DEF QuestionsApart, NoQuestion
<1> HIDE DEF n, p
<1>5. NoQuestion(Last(l))
  <2>1. p \in (n + 1)..p
    BY <1>1
  <2> QED
    BY <1>1, <1>2, <2>1, Texts
<1>6. ASSUME NEW i \in 1..(p - 1), l[i + 1] = User("step")
      PROVE  NoQuestion(l[i])
  <2>1. i + 1 \notin (n + 1)..p
    BY <1>1, <1>6, Texts
  <2>2. i \in 1..(n - 1) /\ i \in 1..n /\ i + 1 \in 1..n
    BY <1>1, <2>1
  <2> QED
    BY <1>1, <1>3, <1>6, <2>2
<1>7. Notes(l) = Notes(h)
  <2>1. \A i \in 1..p : i \in 1..n \/ i \in (n + 1)..p
    BY <1>1
  <2>2. \A i \in 1..n : i \in 1..p
    BY <1>1
  <2>3. \A i \in (n + 1)..p : l[i] # User("failed")
    BY <1>1, Texts
  <2> QED
    BY <1>1, <2>1, <2>2, <2>3 DEF Notes
<1> QED
  BY <1>4, <1>5, <1>6, <1>7

\* One more message.
LEMMA ConcatOne ==
  ASSUME NEW h, IsSeq(h), NEW x
  PROVE  h \o <<x>> = Append(h, x)
<1>1. PICK A : h \in Seq(A)
  BY DEF IsSeq
<1> DEFINE R == A \cup {x}
<1>2. h \in Seq(R) /\ x \in R
  BY <1>1
<1> HIDE DEF R
<1> QED
  BY <1>2

\* One call of arm E becomes a message and its answer.
Pair(call) == <<Said(<<call>>, ""), Result(call, "OK")>>

\* A sequence of one item.
LEMMA OneIs ==
  ASSUME NEW x, NEW s, s = <<x>>
  PROVE  IsSeq(s) /\ Len(s) = 1 /\ DOMAIN s = 1..1 /\ s[1] = x
<1>1. s \in Seq({x}) /\ Len(s) = 1 /\ DOMAIN s = 1..1 /\ s[1] = x
  OBVIOUS
<1> QED
  BY <1>1 DEF IsSeq

\* Two messages.
LEMMA TwoAre ==
  ASSUME NEW x, NEW y
  PROVE  <<x, y>> = <<x>> \o <<y>>
<1> DEFINE R == {x, y}
<1>1. x \in R /\ y \in R
  OBVIOUS
<1> HIDE DEF R
<1>2. <<x, y>> \in Seq(R) /\ <<x>> \in Seq(R) /\ <<y>> \in Seq(R)
  BY <1>1
<1>3. Len(<<x>>) = 1 /\ Len(<<y>>) = 1 /\ <<x>>[1] = x /\ <<y>>[1] = y
  OBVIOUS
<1>4. <<x>> \o <<y>> \in Seq(R) /\ Len(<<x>> \o <<y>>) = 2
  BY <1>2, <1>3
<1>5. (<<x>> \o <<y>>)[1] = x /\ (<<x>> \o <<y>>)[2] = y
  BY <1>2, <1>3
<1>6. Len(<<x, y>>) = 2 /\ <<x, y>>[1] = x /\ <<x, y>>[2] = y
  OBVIOUS
<1> DEFINE a == <<x, y>>
           b == <<x>> \o <<y>>
<1>7. a \in Seq(R) /\ b \in Seq(R) /\ Len(a) = 2 /\ Len(b) = 2
  BY <1>2, <1>4, <1>6
<1>8. \A i \in 1..2 : a[i] = b[i]
  BY <1>5, <1>6
<1> HIDE DEF a, b
<1>9. a = b
  BY <1>7, <1>8, SeqEqual
<1> QED
  BY <1>9 DEF a, b

\* l goes on from h with one call and its answer.
Follows(l, h, call) == l = h \o Pair(call)
CallOf(call, t, k) == call.id = <<t, k>>

\* One call and its answer keep the conversation one that a server accepts.
LEMMA PairTalk ==
  ASSUME NEW h, NEW t \in Nat, NEW b \in Nat, Talk(h, t, b),
         NEW call, NEW k, k = b + 1, CallOf(call, t, k),
         NEW l, Follows(l, h, call)
  PROVE  Talk(l, t, k) /\ Grows(l, h) /\ Len(l) = Len(h) + 2
<1> DEFINE x == Said(<<call>>, "")
           r == Result(call, "OK")
           c == <<call>>
           f == <<r>>
           text == ""
<1>1. IsSeq(c) /\ Len(c) = 1 /\ DOMAIN c = 1..1 /\ c[1] = call
  BY OneIs
<1>2. IsSeq(f) /\ Len(f) = 1 /\ DOMAIN f = 1..1 /\ f[1] = r
  <2> HIDE DEF r
  <2> QED
    BY OneIs
<1>3. r.role = "tool" /\ r.calls = <<>> /\ r.id = call.id
  BY DEF Result
<1>4. l = h \o <<x>> \o f
  <2> HIDE DEF x, r
  <2>1. IsSeq(h) /\ IsSeq(<<x>>) /\ IsSeq(<<r>>)
    BY OneIs DEF Talk, Settled
  <2>2. h \o (<<x>> \o <<r>>) = h \o <<x>> \o <<r>>
    <3> DEFINE y == <<x>>
               z == <<r>>
    <3>1. IsSeq(h) /\ IsSeq(y) /\ IsSeq(z)
      BY <2>1
    <3> HIDE DEF y, z
    <3>2. Assoc(h, y, z)
      BY <3>1, ConcatAssoc
    <3> QED
      BY <3>2, Zenon DEF y, z, Assoc
  <2>3. Pair(call) = <<x>> \o <<r>>
    <3>1. Pair(call) = <<x, r>>
      BY DEF Pair, x, r
    <3> QED
      BY <3>1, TwoAre
  <2>4. l = h \o Pair(call)
    BY DEF Follows
  <2>5. l = h \o <<x>> \o <<r>>
    BY <2>2, <2>3, <2>4
  <2> QED
    BY <2>5 DEF f
<1>5. x = Said(c, text) /\ x.role = "assistant"
  BY DEF Said
<1> HIDE DEF x, r, c, f, text
<1>6. Results(c, f)
  <2>1. f = [j \in DOMAIN c |-> f[j]]
    <3>1. f = [j \in 1..1 |-> f[j]]
      BY <1>2 DEF f
    <3> QED
      BY <1>1, <3>1
  <2>2. \A j \in DOMAIN c : j = 1
    BY <1>1
  <2> QED
    BY <1>1, <1>2, <1>3, <2>1, <2>2 DEF Results
<1>06. Replies(c, f, t, b)
  <2> SUFFICES ASSUME NEW j \in DOMAIN c
               PROVE  c[j].id = <<t, b + j>>
    BY <1>6 DEF Replies, NextIds
  <2>1. call.id = <<t, b + 1>>
    BY DEF CallOf
  <2>2. j = 1 /\ c[j] = call
    BY <1>1
  <2>3. b + j = b + 1
    BY <2>2
  <2>4. c[j].id = call.id
    BY <2>2
  <2> QED
    BY <2>1, <2>3, <2>4
<1>7. Exchanged(l, h, x, f)
  BY <1>4 DEF Exchanged
<1>8. Talk(l, t, b + Len(f)) /\ Joins(l, h, x, f) /\ Len(f) = Len(c)
  BY <1>5, <1>06, <1>7, ExchangeTalk
<1>9. Talk(l, t, k)
  <2>1. b + Len(f) = k
    BY <1>2
  <2> QED
    BY <1>8, <2>1
<1> DEFINE n == Len(h)
<1>10. /\ n \in Nat /\ IsSeq(l) /\ DOMAIN h = 1..n /\ DOMAIN l = 1..(n + 1 + 1)
       /\ l[n + 1] = x /\ (\A i \in 1..n : l[i] = h[i]) /\ l[n + 1 + 1] = r
  <2>1. /\ n \in Nat /\ IsSeq(l) /\ DOMAIN h = 1..n /\ DOMAIN l = 1..(n + 1 + Len(f))
        /\ l[n + 1] = x /\ (\A i \in 1..n : l[i] = h[i])
        /\ \A j \in 1..Len(f) : l[n + 1 + j] = f[j]
    BY <1>8 DEF Joins
  <2>2. 1 \in 1..Len(f)
    BY <1>2
  <2> QED
    BY <1>2, <2>1, <2>2
<1>11. Len(l) \in Nat /\ DOMAIN l = 1..Len(l)
  BY <1>10, SeqShape
<1> HIDE DEF n
<1>12. Len(l) = n + 2
  BY <1>10, <1>11
<1>13. \A i \in (n + 1)..Len(l) : l[i].role # "user"
  <2>1. \A i \in (n + 1)..Len(l) : i = n + 1 \/ i = n + 1 + 1
    BY <1>10, <1>12
  <2>2. l[n + 1].role # "user" /\ l[n + 1 + 1].role # "user"
    BY <1>3, <1>5, <1>10
  <2> QED
    BY <2>1, <2>2
<1>14. Len(l) >= n
  BY <1>10, <1>12
<1>15. Grows(l, h)
  BY <1>10, <1>11, <1>13, <1>14 DEF Grows, n
<1> QED
  BY <1>9, <1>12, <1>15 DEF n

\* Growing twice.
LEMMA GrowsOn ==
  ASSUME NEW h, NEW l, NEW m, Grows(l, h), Grows(m, l)
  PROVE  Grows(m, h)
<1> DEFINE n == Len(h)
           p == Len(l)
           q == Len(m)
<1>1. /\ n \in Nat /\ p \in Nat /\ p >= n /\ DOMAIN h = 1..n
      /\ \A i \in 1..n : l[i] = h[i]
      /\ \A i \in (n + 1)..p : l[i].role # "user"
  BY DEF Grows
<1>2. /\ q \in Nat /\ q >= p /\ DOMAIN m = 1..q
      /\ \A i \in 1..p : m[i] = l[i]
      /\ \A i \in (p + 1)..q : m[i].role # "user"
  BY DEF Grows
<1> HIDE DEF n, p, q
<1>3. q >= n /\ \A i \in 1..n : i \in 1..p
  BY <1>1, <1>2
<1>4. \A i \in (n + 1)..q : i \in (n + 1)..p \/ i \in (p + 1)..q
  BY <1>1, <1>2
<1>5. \A i \in (n + 1)..p : i \in 1..p
  BY <1>1
<1>6. \A i \in 1..n : m[i] = h[i]
  BY <1>1, <1>2, <1>3
<1>7. \A i \in (n + 1)..q : m[i].role # "user"
  BY <1>1, <1>2, <1>4, <1>5
<1> QED
  BY <1>1, <1>2, <1>3, <1>6, <1>7 DEF Grows, n, p, q

\* The calls of one answer of arm E.
Paired(l, h, c, n) == l = h \o FlattenSeq([k \in 1..n |-> Pair(c[k])])
CallsOf(c, t, n) == \A k \in 1..n : CallOf(c[k], t, k)

\* All the calls of one answer of arm E, each with its own message and its own result,
\* keep the conversation one that a server accepts.
LEMMA PairsTalk ==
  ASSUME NEW h, NEW t \in Nat, Talk(h, t, 0), NEW n \in Nat, n # 0, NEW c, CallsOf(c, t, n),
         NEW l, Paired(l, h, c, n)
  PROVE  Talk(l, t, n) /\ Grows(l, h) /\ Len(l) > Len(h)
<1> DEFINE q == [k \in 1..n |-> Pair(c[k])]
<1>1. Len(q) = n /\ \A k \in 1..n : q[k] = Pair(c[k])
  <2>1. q = [k \in 1..n |-> q[k]]
    OBVIOUS
  <2>2. \A k \in 1..n : q[k] = Pair(c[k])
    OBVIOUS
  <2> HIDE DEF q
  <2> QED
    BY <2>1, <2>2, FunSeq
<1>2. l = h \o FlattenSeq(q)
  BY DEF Paired
<1> HIDE DEF q
<1>3. PICK v : /\ v[1] = q[1]
               /\ \A k \in 2..n : v[k] = v[k - 1] \o q[k]
               /\ FlattenSeq(q) = v[n]
  BY <1>1, FlattenSteps
<1> DEFINE Done(k) == /\ IsSeq(v[k]) /\ Talk(h \o v[k], t, k)
                      /\ Grows(h \o v[k], h) /\ Len(h \o v[k]) > Len(h)
           T == {k \in 1..n : ~Done(k)}
<1>4. IsSeq(h) /\ Len(h) \in Nat
  BY SeqShape DEF Talk, Settled
<1>5. \A k \in 1..n : IsSeq(q[k])
  <2> TAKE k \in 1..n
  <2> DEFINE x == Said(<<c[k]>>, "")
             r == Result(c[k], "OK")
  <2>1. q[k] = <<x, r>>
    BY <1>1 DEF Pair
  <2> HIDE DEF x, r
  <2>2. <<x, r>> \in Seq({x, r})
    OBVIOUS
  <2> QED
    BY <2>1, <2>2 DEF IsSeq
<1>6. Done(1)
  <2> DEFINE m == h \o v[1]
             o == 0
             k == 1
             e == c[1]
  <2>1. 1 \in 1..n /\ o \in Nat /\ k = o + 1
    OBVIOUS
  <2>2. Follows(m, h, e) /\ Talk(h, t, o) /\ CallOf(e, t, k)
    BY <1>1, <1>3, <2>1 DEF Follows, CallsOf
  <2> HIDE DEF m, o, e, k
  <2>3. Talk(m, t, k) /\ Grows(m, h) /\ Len(m) = Len(h) + 2
    BY <2>1, <2>2, PairTalk
  <2>4. Len(m) > Len(h)
    BY <1>4, <2>3
  <2>5. IsSeq(v[1])
    BY <1>3, <1>5, <2>1
  <2>6. Talk(m, t, 1)
    BY <2>3 DEF k
  <2> QED
    BY <2>3, <2>4, <2>5, <2>6 DEF m
<1>7. ASSUME NEW k \in 2..n, Done(k - 1)
      PROVE  Done(k)
  <2> DEFINE g == h \o v[k - 1]
             m == g \o q[k]
             b == k - 1
             e == c[k]
  <2>1. k \in 1..n /\ b \in Nat /\ b + 1 = k
    OBVIOUS
  <2>02. k = b + 1
    BY <2>1
  <2>2. v[k] = v[k - 1] \o q[k] /\ IsSeq(v[k - 1]) /\ IsSeq(q[k])
    BY <1>3, <1>5, <1>7, <2>1
  <2>3. h \o v[k] = m /\ IsSeq(v[k])
    <3> DEFINE u == v[k - 1]
               w == q[k]
    <3>1. IsSeq(u) /\ IsSeq(w) /\ v[k] = u \o w
      BY <2>2
    <3>2. m = h \o u \o w
      OBVIOUS
    <3> HIDE DEF u, w, m
    <3>3. Assoc(h, u, w) /\ Assoc(u, w, w)
      BY <1>4, <3>1, ConcatAssoc
    <3> QED
      BY <3>1, <3>2, <3>3, Zenon DEF Assoc
  <2>4. Follows(m, g, e) /\ Talk(g, t, b) /\ CallOf(e, t, k) /\ Grows(g, h) /\ Len(g) > Len(h)
    BY <1>1, <1>7, <2>1 DEF Follows, CallsOf
  <2> HIDE DEF g, m, e
  <2>04. b \in Nat
    BY <2>1
  <2> HIDE DEF b
  <2>5. Talk(m, t, k) /\ Grows(m, g) /\ Len(m) = Len(g) + 2
    BY <2>02, <2>04, <2>4, PairTalk
  <2>6. Grows(m, h)
    BY <2>4, <2>5, GrowsOn
  <2>7. Len(m) > Len(h)
    <3>1. Len(g) \in Nat
      BY <2>4 DEF Grows
    <3> QED
      BY <1>4, <2>4, <2>5, <3>1
  <2> QED
    BY <2>3, <2>5, <2>6, <2>7
<1> HIDE DEF Done
<1>8. T = {}
  <2> SUFFICES ASSUME T # {} PROVE FALSE
    OBVIOUS
  <2>1. PICK k \in T : \A m \in T : k <= m
    BY LeastNatural, T \subseteq Nat
  <2>2. k \in 2..n /\ k - 1 \in 1..n /\ ~(k <= k - 1)
    <3>1. k # 1 /\ k \in 1..n
      BY <1>6, <2>1
    <3> QED
      BY <3>1
  <2>3. Done(k - 1)
    BY <2>1, <2>2
  <2> QED
    BY <1>7, <2>1, <2>2, <2>3
<1>9. Done(n)
  <2>1. n \in 1..n
    OBVIOUS
  <2> QED
    BY <1>8, <2>1
<1> QED
  BY <1>2, <1>3, <1>9 DEF Done

\* Rows, counter, failures and the notes in the conversation agree turn by turn.
DepthInv ==
  client = "depth" =>
    /\ turn \in Nat /\ Talk(msgs, turn + 1, 0) /\ QuestionsApart(msgs)
    /\ Len(msgs) >= 1 /\ (turn # 0 => NoQuestion(Last(msgs)))
    /\ IsSeq(rows) /\ Len(rows) = turn /\ TurnRows(rows)
    /\ CounterBooks(rows, counter) /\ FailBooks(rows, fails)
    /\ Cardinality(OfClass(rows, "NET_ERR")) = Cardinality(Notes(msgs))

\* A question joins the conversation, unless it is the first turn.
LEMMA AskedBooks ==
  ASSUME DepthInv, client = "depth", NEW m, m = Asked
  PROVE  Talk(m, turn + 1, 0) /\ QuestionsApart(m) /\ Notes(m) = Notes(msgs)
<1>1. /\ turn \in Nat /\ Talk(msgs, turn + 1, 0) /\ QuestionsApart(msgs)
      /\ Len(msgs) >= 1 /\ (turn # 0 => NoQuestion(Last(msgs)))
  BY DEF DepthInv
<1>2. CASE turn = 0
  <2>1. m = msgs
    BY <1>2 DEF Asked
  <2> QED
    BY <1>1, <2>1
<1>3. CASE turn # 0
  <2>1. m = Append(msgs, User("step"))
    BY <1>1, <1>3 DEF Asked
  <2> DEFINE n == Len(msgs)
             s == turn + 1
             o == 0
  <2>2. s \in Nat /\ o \in Nat /\ Talk(msgs, s, o) /\ n >= 1
    BY <1>1
  <2> HIDE DEF s, o
  <2>3. /\ Talk(m, s, o)
        /\ DOMAIN msgs = 1..n /\ n \in Nat /\ Len(m) = n + 1 /\ DOMAIN m = 1..(n + 1)
        /\ \A i \in 1..n : m[i] = msgs[i]
        /\ m[n + 1] = User("step")
    BY <2>1, <2>2, UserNote
  <2>4. NoQuestion(msgs[n])
    BY <1>1, <1>3 DEF Last
  <2>5. \A i \in 1..(n - 1) : msgs[i + 1] = User("step") => NoQuestion(msgs[i])
    BY <1>1 DEF QuestionsApart, NoQuestion
  <2>05. QuestionsApart(m) <=> \A i \in 1..n : m[i + 1] = User("step") => NoQuestion(m[i])
    <3>1. Len(m) - 1 = n
      BY <2>3
    <3> QED
      BY <3>1, Zenon DEF QuestionsApart, NoQuestion
  <2> HIDE DEF n
  <2>6. \A i \in 1..n : i = n \/ (i \in 1..(n - 1) /\ i + 1 \in 1..n)
    BY <2>3
  <2>7. QuestionsApart(m)
    <3> SUFFICES ASSUME NEW i \in 1..n, m[i + 1] = User("step")
                 PROVE  NoQuestion(m[i])
      BY <2>05
    <3>1. CASE i = n
      BY <2>3, <2>4, <3>1
    <3>2. CASE i \in 1..(n - 1) /\ i + 1 \in 1..n
      BY <2>3, <2>5, <3>2
    <3> QED
      BY <2>6, <3>1, <3>2
  <2>8. Notes(m) = Notes(msgs)
    <3>1. \A i \in 1..(n + 1) : i \in 1..n \/ i = n + 1
      BY <2>3
    <3>2. \A i \in 1..n : i \in 1..(n + 1)
      BY <2>3
    <3>3. m[n + 1] # User("failed")
      BY <2>3, Texts
    <3> QED
      BY <2>3, <3>1, <3>2, <3>3 DEF Notes
  <2> QED
    BY <2>3, <2>7, <2>8 DEF s, o
<1> QED
  BY <1>2, <1>3

\* A sequence without items is the empty one.
LEMMA EmptyOf ==
  ASSUME NEW s, IsSeq(s), Len(s) = 0
  PROVE  s = <<>>
<1>1. PICK A : s \in Seq(A)
  BY DEF IsSeq
<1> QED
  BY <1>1

\* What the server said joins the conversation, and no question with it.
Replied(l, h, c, text) ==
  l = h \o IF c = <<>> THEN <<Said(<<>>, text)>>
           ELSE FlattenSeq([k \in DOMAIN c |-> <<Said(<<c[k]>>, ""), Result(c[k], "OK")>>])

\* What arm E adds for an answer keeps the conversation one that a server accepts and
\* puts no question behind the one that was asked.
LEMMA ReplyTalk ==
  ASSUME NEW h, NEW t \in Nat, Talk(h, t, 0), NEW n \in Nat, NEW c, IsSeq(c), Len(c) = n,
         CallsOf(c, t, n), NEW text, NEW l, Replied(l, h, c, text)
  PROVE  Talk(l, t, n) /\ Grows(l, h) /\ Len(l) > Len(h)
<1>1. CASE c = <<>>
  <2> DEFINE x == Said(<<>>, text)
             o == 0
  <2>1. l = h \o <<x>>
    BY <1>1 DEF Replied
  <2>2. x.role = "assistant" /\ x.calls = <<>>
    BY DEF Said
  <2>3. n = o
    BY <1>1
  <2>4. IsSeq(h) /\ o \in Nat /\ Talk(h, t, o)
    BY DEF Talk, Settled
  <2> HIDE DEF x, o
  <2>5. l = Append(h, x)
    BY <2>1, <2>4, ConcatOne
  <2>6. x.role # "tool"
    BY <2>2
  <2>7. Talk(l, t, o)
    BY <2>2, <2>4, <2>5, <2>6, NoteTalk
  <2> DEFINE q == Len(h)
  <2>8. /\ q \in Nat /\ Len(l) = q + 1 /\ DOMAIN h = 1..q /\ DOMAIN l = 1..(q + 1)
        /\ l[q + 1] = x /\ \A i \in 1..q : l[i] = h[i]
    BY <2>4, <2>5, SeqAppend
  <2>08. Grows(l, h) <=>
           /\ q \in Nat /\ Len(l) \in Nat /\ Len(l) >= q
           /\ DOMAIN h = 1..q /\ DOMAIN l = 1..Len(l)
           /\ \A i \in 1..q : l[i] = h[i]
           /\ \A i \in (q + 1)..Len(l) : l[i].role # "user"
    BY Zenon DEF Grows
  <2> HIDE DEF q
  <2>9. Len(l) \in Nat /\ Len(l) >= q /\ Len(l) > q
    BY <2>8
  <2>10. \A i \in (q + 1)..Len(l) : l[i].role # "user"
    <3>1. \A i \in (q + 1)..Len(l) : i = q + 1
      BY <2>8
    <3> QED
      BY <2>2, <2>8, <3>1
  <2>11. Grows(l, h)
    BY <2>08, <2>8, <2>9, <2>10
  <2> QED
    BY <2>3, <2>7, <2>9, <2>11 DEF q
<1>2. CASE c # <<>>
  <2>1. n # 0
    BY <1>2, EmptyOf
  <2>2. DOMAIN c = 1..n
    BY SeqShape
  <2>3. Paired(l, h, c, n)
    BY <1>2, <2>2, Zenon DEF Replied, Paired, Pair
  <2> QED
    BY <2>1, <2>3, PairsTalk
<1> QED
  BY <1>1, <1>2

\* The books after one more row.
RowBooks(rs, s, row, b, d, fl, gl, t) ==
  /\ s = Append(rs, row) /\ row.turn = t
  /\ d = b (+) SetToBag({row.class})
  /\ gl = IF Failed(row) THEN Append(fl, t) ELSE fl

Kept(rs, b, fl, t) ==
  /\ IsSeq(rs) /\ Len(rs) = t /\ TurnRows(rs) /\ CounterBooks(rs, b) /\ FailBooks(rs, fl)

\* The three books of arm E agree after one more turn.
LEMMA BooksKept ==
  ASSUME NEW rs, NEW b, NEW fl, NEW p \in Nat, Kept(rs, b, fl, p), NEW t, t = p + 1,
         NEW s, NEW row, NEW d, NEW gl, RowBooks(rs, s, row, b, d, fl, gl, t)
  PROVE  Kept(s, d, gl, t) /\ ClassGrew(rs, s, row, "NET_ERR")
<1>1. IsSeq(rs) /\ Len(rs) = p /\ TurnRows(rs) /\ CounterBooks(rs, b) /\ FailBooks(rs, fl)
  BY DEF Kept
<1>2. s = Append(rs, row) /\ row.turn = t
  BY DEF RowBooks
<1> DEFINE c == row.class
<1>3. d = b (+) SetToBag({c}) /\ c = row.class
  BY DEF RowBooks
<1>4. gl = IF Failed(row) THEN Append(fl, t) ELSE fl
  BY DEF RowBooks
<1> HIDE DEF c
<1>5. CounterBooks(s, d)
  BY <1>1, <1>2, <1>3, CounterAdds
<1>6. t = Len(rs) + 1 /\ row.turn = Len(rs) + 1
  BY <1>1, <1>2
<1>7. TurnRows(s) /\ FailBooks(s, gl)
  BY <1>1, <1>2, <1>4, <1>6, FailAdds
<1>8. IsSeq(s) /\ Len(s) = t
  BY <1>1, <1>2, <1>6, SeqAppend
<1>9. ClassGrew(rs, s, row, "NET_ERR")
  BY <1>1, <1>2, ClassGrows
<1> QED
  BY <1>5, <1>7, <1>8, <1>9 DEF Kept

\* A turn of arm E keeps its invariant.
LEMMA DepthTurnKeeps ==
  ASSUME LoopConstants, DepthInv, NEW a \in Answers[client], NEW large \in BOOLEAN,
         DepthTurn(a, large)
  PROVE  DepthInv'
<1>1. client = "depth" /\ turn' = turn + 1 /\ client' = client
  BY DEF DepthTurn
<1>2. turn \in Nat /\ Kept(rows, counter, fails, turn)
      /\ Cardinality(OfClass(rows, "NET_ERR")) = Cardinality(Notes(msgs))
  BY <1>1 DEF DepthInv, Kept
<1> DEFINE h == Asked
           t == turn + 1
           c == NumberedAs(a.calls, t)
           text == a.text
           n == Len(a.calls)
           row == [rep |-> rep, turn |-> turn', class |-> DepthClass(a), calls |-> Len(a.calls),
                   dup |-> Duplicate(a)]
<1>3. Talk(h, t, 0) /\ QuestionsApart(h) /\ Notes(h) = Notes(msgs)
  BY <1>1, AskedBooks
<1>4. IsSeq(a.calls)
  BY <1>1 DEF LoopConstants
<1>5. IsSeq(c) /\ Len(c) = n /\ n \in Nat /\ CallsOf(c, t, n)
  <2>1. IsSeq(c) /\ Len(c) = n /\ \A k \in 1..n : c[k].id = <<t, k>>
    <3> HIDE DEF t
    <3> QED
      BY <1>4, NumberedType
  <2>2. n \in Nat
    BY <1>4, SeqShape
  <2> HIDE DEF c, n, t
  <2>3. CallsOf(c, t, n)
    BY <2>1 DEF CallsOf, CallOf
  <2> QED
    BY <2>1, <2>2, <2>3
<1>6. Replied(msgs', h, c, text)
  BY <1>1, Zenon DEF DepthTurn, Replied, Numbered, NumberedAs
<1>7. RowBooks(rows, rows', row, counter, counter', fails, fails', t)
  <2>1. rows' = Append(rows, row)
    BY DEF DepthTurn, Row
  <2>2. counter' = counter (+) SetToBag({row.class})
    BY DEF DepthTurn, Counted
  <2>3. DepthClass(a) # "NET_ERR"
    BY DEF DepthClass
  <2>4. Failed(row) <=> ~(DepthClass(a) = "TOOL_OK" /\ ~Duplicate(a))
    BY <2>3 DEF Failed
  <2>5. fails' = IF DepthClass(a) = "TOOL_OK" /\ ~Duplicate(a) THEN fails ELSE Append(fails, t)
    BY <1>1 DEF DepthTurn
  <2>6. fails' = IF Failed(row) THEN Append(fails, t) ELSE fails
    BY <2>4, <2>5
  <2>7. row.turn = t
    BY <1>1
  <2> HIDE DEF row, t
  <2> QED
    BY <2>1, <2>2, <2>6, <2>7 DEF RowBooks
<1>8. row.class # "NET_ERR"
  BY DEF DepthClass
<1>9. t \in Nat /\ turn' \in Nat /\ turn' = t
  <2>1. t \in Nat
    BY <1>2
  <2> QED
    BY <1>1, <2>1
<1>09. t = turn + 1
  OBVIOUS
<1> HIDE DEF h, c, text, n, row, t
<1>10. Talk(msgs', t, n) /\ Grows(msgs', h) /\ Len(msgs') > Len(h)
  BY <1>3, <1>5, <1>6, <1>9, ReplyTalk
<1>11. QuestionsApart(msgs') /\ Notes(msgs') = Notes(h) /\ NoQuestion(Last(msgs'))
  BY <1>3, <1>10, GrownApart
<1>12. Talk(msgs', turn' + 1, 0)
  <2>1. Talk(msgs', t + 1, 0)
    BY <1>5, <1>9, <1>10, NextTurn
  <2> QED
    BY <1>9, <2>1, Zenon
<1>13. Kept(rows', counter', fails', t) /\ ClassGrew(rows, rows', row, "NET_ERR")
  BY <1>2, <1>7, <1>09, BooksKept
<1>14. OfClass(rows', "NET_ERR") = OfClass(rows, "NET_ERR")
  BY <1>8, <1>13 DEF ClassGrew
<1>15. Cardinality(OfClass(rows', "NET_ERR")) = Cardinality(Notes(msgs'))
  BY <1>2, <1>3, <1>11, <1>14
<1>16. Len(msgs') >= 1
  <2>1. Len(h) \in Nat /\ Len(msgs') \in Nat
    BY <1>10 DEF Grows
  <2> QED
    BY <1>10, <2>1
<1>17. IsSeq(rows') /\ Len(rows') = turn' /\ TurnRows(rows') /\ CounterBooks(rows', counter')
       /\ FailBooks(rows', fails')
  BY <1>9, <1>13 DEF Kept
<1> QED
  BY <1>9, <1>11, <1>12, <1>15, <1>16, <1>17 DEF DepthInv

\* A failed call leaves its note behind the question.
LEMMA NoteBooks ==
  ASSUME NEW h, NEW t \in Nat, Talk(h, t, 0), QuestionsApart(h),
         NEW l, l = Append(h, User("failed"))
  PROVE  /\ Talk(l, t, 0) /\ QuestionsApart(l) /\ NoQuestion(Last(l)) /\ Len(l) >= 1
         /\ IsFiniteSet(Notes(h)) /\ Cardinality(Notes(l)) = Cardinality(Notes(h)) + 1
<1> DEFINE n == Len(h)
           o == 0
<1>1. o \in Nat /\ Talk(h, t, o)
  OBVIOUS
<1> HIDE DEF o
<1>2. /\ Talk(l, t, o)
      /\ DOMAIN h = 1..n /\ n \in Nat /\ Len(l) = n + 1 /\ DOMAIN l = 1..(n + 1)
      /\ \A i \in 1..n : l[i] = h[i]
      /\ l[n + 1] = User("failed")
  BY <1>1, UserNote
<1>3. \A i \in 1..(n - 1) : h[i + 1] = User("step") => NoQuestion(h[i])
  BY DEF QuestionsApart, NoQuestion
<1>4. Last(l) = l[n + 1]
  BY <1>2 DEF Last
<1>5. QuestionsApart(l) <=> \A i \in 1..n : l[i + 1] = User("step") => NoQuestion(l[i])
  <2>1. Len(l) - 1 = n
    BY <1>2
  <2> QED
    BY <2>1, Zenon DEF QuestionsApart, NoQuestion
<1> HIDE DEF n
<1>6. NoQuestion(Last(l))
  BY <1>2, <1>4, Texts DEF NoQuestion
<1>7. QuestionsApart(l)
  <2> SUFFICES ASSUME NEW i \in 1..n, l[i + 1] = User("step")
               PROVE  NoQuestion(l[i])
    BY <1>5
  <2>1. i # n
    BY <1>2, Texts
  <2>2. i \in 1..(n - 1) /\ i + 1 \in 1..n
    BY <1>2, <2>1
  <2> QED
    BY <1>2, <1>3, <2>2
<1>8. Notes(l) = Notes(h) \cup {n + 1} /\ n + 1 \notin Notes(h)
  <2>1. \A i \in 1..(n + 1) : i \in 1..n \/ i = n + 1
    BY <1>2
  <2>2. n + 1 \in 1..(n + 1) /\ n + 1 \notin 1..n /\ \A i \in 1..n : i \in 1..(n + 1)
    BY <1>2
  <2> QED
    BY <1>2, <2>1, <2>2 DEF Notes
<1>9. IsFiniteSet(Notes(h))
  <2>1. Notes(h) \in SUBSET (1..n) /\ IsFiniteSet(1..n)
    BY <1>2, FS_Interval DEF Notes
  <2> QED
    BY <2>1, FS_Subset
<1>10. Cardinality(Notes(l)) = Cardinality(Notes(h)) + 1
  BY <1>8, <1>9, FS_AddElement
<1>11. Len(l) >= 1
  BY <1>2
<1> QED
  BY <1>2, <1>6, <1>7, <1>9, <1>10, <1>11 DEF o

\* So does a failed call.
LEMMA DepthErrorKeeps ==
  ASSUME DepthInv, DepthError
  PROVE  DepthInv'
<1>1. client = "depth" /\ turn' = turn + 1 /\ client' = client
  BY DEF DepthError
<1>2. turn \in Nat /\ Kept(rows, counter, fails, turn)
      /\ Cardinality(OfClass(rows, "NET_ERR")) = Cardinality(Notes(msgs))
  BY <1>1 DEF DepthInv, Kept
<1> DEFINE h == Asked
           t == turn + 1
           row == [rep |-> rep, turn |-> turn', class |-> "NET_ERR",
                  calls |-> Len(<<>>), dup |-> FALSE]
<1>3. Talk(h, t, 0) /\ QuestionsApart(h) /\ Notes(h) = Notes(msgs)
  BY <1>1, AskedBooks
<1>6. msgs' = Append(h, User("failed"))
  BY DEF DepthError, FailedTurn
<1>7. RowBooks(rows, rows', row, counter, counter', fails, fails', t)
  <2>1. rows' = Append(rows, row)
    BY DEF DepthError, Row
  <2>2. counter' = counter (+) SetToBag({row.class})
    BY DEF DepthError, Counted
  <2>3. ~Failed(row)
    BY DEF Failed
  <2>4. fails' = fails
    BY DEF DepthError
  <2>7. row.turn = t
    BY <1>1
  <2> HIDE DEF row, t
  <2> QED
    BY <2>1, <2>2, <2>3, <2>4, <2>7 DEF RowBooks
<1>8. row.class = "NET_ERR"
  OBVIOUS
<1>9. t \in Nat /\ turn' \in Nat /\ turn' = t
  <2>1. t \in Nat
    BY <1>2
  <2> QED
    BY <1>1, <2>1
<1>09. t = turn + 1
  OBVIOUS
<1> HIDE DEF h, row, t
<1>10. /\ Talk(msgs', t, 0) /\ QuestionsApart(msgs') /\ NoQuestion(Last(msgs')) /\ Len(msgs') >= 1
       /\ Cardinality(Notes(msgs')) = Cardinality(Notes(h)) + 1
  BY <1>3, <1>6, <1>9, NoteBooks
<1>12. Talk(msgs', turn' + 1, 0)
  <2> DEFINE o == 0
  <2>1. o \in Nat /\ Talk(msgs', t, o)
    BY <1>10
  <2> HIDE DEF o
  <2>2. Talk(msgs', t + 1, 0)
    BY <1>9, <2>1, NextTurn
  <2> QED
    BY <1>9, <2>2, Zenon
<1>13. Kept(rows', counter', fails', t) /\ ClassGrew(rows, rows', row, "NET_ERR")
  BY <1>2, <1>7, <1>09, BooksKept
<1>14. Cardinality(OfClass(rows', "NET_ERR")) = Cardinality(OfClass(rows, "NET_ERR")) + 1
  BY <1>8, <1>13 DEF ClassGrew
<1>15. Cardinality(OfClass(rows', "NET_ERR")) = Cardinality(Notes(msgs'))
  BY <1>2, <1>3, <1>10, <1>14
<1>17. IsSeq(rows') /\ Len(rows') = turn' /\ TurnRows(rows') /\ CounterBooks(rows', counter')
       /\ FailBooks(rows', fails')
  BY <1>9, <1>13 DEF Kept
<1> QED
  BY <1>9, <1>10, <1>12, <1>15, <1>17 DEF DepthInv

\* What the invariant of arm E gives.
LEMMA DepthPromises ==
  ASSUME DepthInv, client = "depth"
  PROVE  CallsAnswered /\ TurnsAccounted
<1>1. CallsAnswered
  BY SettledAnswered DEF DepthInv, Talk
<1>2. /\ turn \in Nat /\ IsSeq(rows) /\ Len(rows) = turn /\ TurnRows(rows)
      /\ CounterBooks(rows, counter) /\ FailBooks(rows, fails) /\ QuestionsApart(msgs)
      /\ Cardinality(OfClass(rows, "NET_ERR")) = Cardinality(Notes(msgs))
  BY DEF DepthInv
<1>3. DOMAIN rows = 1..turn
  BY <1>2, SeqShape
<1>4. [l \in DOMAIN rows |-> rows[l].turn] = [l \in 1..turn |-> l]
  BY <1>2, <1>3 DEF TurnRows
<1>5. \A l \in DOMAIN rows :
        counter[rows[l].class] = Cardinality({m \in DOMAIN rows : rows[m].class = rows[l].class})
  BY <1>2 DEF CounterBooks, OfClass
<1>6. /\ \A f \in 1..(Len(fails) - 1) : fails[f] < fails[f + 1]
      /\ ToSet(fails) = {rows[l].turn : l \in {m \in DOMAIN rows : Failed(rows[m])}}
  BY <1>2 DEF FailBooks, Rises, FailTurns
<1>7. Cardinality({l \in DOMAIN rows : rows[l].class = "NET_ERR"})
        = Cardinality({i \in DOMAIN msgs : msgs[i] = User("failed")})
  BY <1>2 DEF OfClass, Notes
<1>8. \A i \in 1..(Len(msgs) - 1) :
        msgs[i + 1] = User("step") => msgs[i] # User("step") /\ msgs[i] # User("task")
  BY <1>2 DEF QuestionsApart
<1> QED
  BY <1>1, <1>4, <1>5, <1>6, <1>7, <1>8, Zenon DEF TurnsAccounted

Client == client \in {"loop", "depth", "tdd"}
LoopsInv == Client /\ LoopInv /\ DepthInv /\ TddInv

\* The invariant holds when a client starts.
LEMMA LoopsInit ==
  ASSUME LoopConstants, Init
  PROVE  LoopsInv
<1>1. /\ client \in {"loop", "depth", "tdd"} /\ turn = 0 /\ rep = 1 /\ rows = <<>>
      /\ counter = EmptyBag /\ fails = <<>> /\ stats = NoStats /\ verdict = ""
      /\ msgs = <<User("task")>>
  BY DEF Init
<1>01. turn = 0
  BY DEF Init
<1>02. rep = 1
  BY DEF Init
<1>03. rows = <<>>
  BY DEF Init
<1>04. fails = <<>>
  BY DEF Init
<1>05. stats.calls = 0
  BY DEF Init, NoStats
<1>06. turn \in Nat
  BY <1>01
<1> DEFINE o == 0
           i == 1
<1>2. o \in Nat /\ i \in Nat
  OBVIOUS
<1> HIDE DEF o, i
<1>3. Talk(msgs, i, o)
  BY <1>1, <1>2, FreshTalk
<1>4. Settled(msgs) /\ Talk(msgs, turn + 1, 0)
  <2>1. turn + 1 = i
    BY <1>01 DEF i
  <2>2. Talk(msgs, turn + 1, o)
    BY <1>3, <2>1, Zenon
  <2> QED
    BY <1>3, <2>2 DEF o, Talk
<1>5. IsSeq(msgs) /\ Len(msgs) = 1 /\ DOMAIN msgs = 1..1 /\ msgs[1] = User("task")
  <2> DEFINE x == User("task")
  <2>1. msgs = <<x>>
    BY <1>1
  <2> HIDE DEF x
  <2>2. IsSeq(msgs) /\ Len(msgs) = 1 /\ DOMAIN msgs = 1..1 /\ msgs[1] = x
    BY <2>1, OneIs
  <2> QED
    BY <2>2 DEF x
<1>6. \A m \in DOMAIN msgs : m = 1
  BY <1>5
<1>7. User("task").role = "user" /\ User("task").text = "task" /\ User("task").calls = <<>>
      /\ User("failed").text = "failed"
  BY DEF User
<1>8. IsSeq(rows) /\ Len(rows) = 0 /\ \A l \in DOMAIN rows : FALSE
  <2>1. Len(<<>>) = 0
    OBVIOUS
  <2>2. IsSeq(<<>>)
    BY EmptyIsSeq
  <2>3. \A l \in DOMAIN <<>> : FALSE
    BY NoPlaces
  <2> QED
    BY <1>03, <2>1, <2>2, <2>3, Zenon
<1>9. LoopInv
  <2>1. \A m \in DOMAIN msgs : FineMessage(msgs[m])
    BY <1>5, <1>6, <1>7, NoPlaces DEF FineMessage
  <2>2. Assistants(msgs) = {}
    BY <1>5, <1>6, <1>7 DEF Assistants
  <2>3. Cardinality(Assistants(msgs)) = turn
    BY <1>1, <2>2, FS_EmptySet
  <2>4. turn \in Nat
    BY <1>1
  <2> QED
    BY <1>1, <1>4, <1>8, <2>1, <2>3, <2>4 DEF LoopInv
<1>10. DepthInv
  <2>1. QuestionsApart(msgs)
    <3>1. Len(msgs) - 1 = 0 /\ 1..0 = {}
      BY <1>5
    <3> QED
      BY <3>1 DEF QuestionsApart
  <2>2. Notes(msgs) = {}
    BY <1>5, <1>6, <1>7 DEF Notes
  <2>3. OfClass(rows, "NET_ERR") = {}
    BY <1>8 DEF OfClass
  <2>4. TurnRows(rows)
    BY <1>8 DEF TurnRows
  <2>5. CounterBooks(rows, counter)
    <3>1. DOMAIN counter = {}
      BY <1>1 DEF EmptyBag, SetToBag
    <3> QED
      BY <1>8, <3>1 DEF CounterBooks
  <2>6. FailBooks(rows, fails)
    <3>1. IsSeq(fails) /\ ToSet(fails) = {}
      <4>1. IsSeq(<<>>)
        BY EmptyIsSeq
      <4>2. ToSet(<<>>) = {}
        BY NoPlaces DEF ToSet
      <4> QED
        BY <1>04, <4>1, <4>2, Zenon
    <3>2. FailTurns(rows) = {}
      BY <1>8 DEF FailTurns
    <3>3. Rises(fails)
      <4>1. Len(<<>>) - 1 = -1 /\ 1..(-1) = {}
        OBVIOUS
      <4>2. 1..(Len(fails) - 1) = {}
        BY <1>1, <4>1
      <4> QED
        BY <4>2 DEF Rises
    <3> QED
      BY <3>1, <3>2, <3>3 DEF FailBooks
  <2>7. Len(msgs) >= 1 /\ turn \in Nat
    BY <1>5, <1>06
  <2> QED
    BY <1>1, <1>4, <1>8, <2>1, <2>2, <2>3, <2>4, <2>5, <2>6, <2>7 DEF DepthInv
<1>11. TddInv
  <2>1. stats \in Stats
    BY <1>1 DEF NoStats, Stats
  <2>2. Booked(rows, stats.calls, rep, turn)
    <3>1. RepRows(rows, rep) /\ EndsAtOnce(rows)
      BY <1>8 DEF RepRows, EndsAtOnce
    <3>2. RepsSeen(rows, rep)
      <4>1. 1..(rep - 1) = {}
        BY <1>02
      <4> QED
        BY <4>1 DEF RepsSeen
    <3>3. Begun(rows, rep, turn)
      BY <1>01, <1>8 DEF Begun
    <3>4. FewCalls(rows, stats.calls, rep, turn)
      <4>1. 0 <= rep - 1
        BY <1>02
      <4>2. FewCalls(rows, stats.calls, rep, turn) <=> (~WentOn(rows) => stats.calls <= rep - 1)
        BY <1>01 DEF FewCalls
      <4> QED
        BY <1>05, <4>1, <4>2
    <3> QED
      BY <3>1, <3>2, <3>3, <3>4 DEF Booked
  <2>3. turn \in Nat /\ rep \in Nat \ {0} /\ rep <= N
    <3>1. 1 <= N
      BY DEF LoopConstants
    <3> QED
      BY <1>02, <1>06, <3>1
  <2> QED
    BY <1>1, <1>4, <1>8, <2>1, <2>2, <2>3 DEF TddInv
<1> QED
  BY <1>1, <1>9, <1>10, <1>11 DEF LoopsInv, Client

\* Every step of every client keeps it.
LEMMA LoopsNext ==
  ASSUME LoopConstants, LoopsInv, [Next]_vars
  PROVE  LoopsInv'
<1>0. Client /\ LoopInv /\ DepthInv /\ TddInv
  BY DEF LoopsInv
<1>1. CASE UNCHANGED vars
  BY <1>0, <1>1 DEF vars, LoopsInv, Client, LoopInv, DepthInv, TddInv
<1>2. ASSUME NEW a \in Answers[client], LoopTurn(a)
      PROVE  LoopsInv'
  <2>1. client = "loop" /\ client' = client
    BY <1>2 DEF LoopTurn
  <2>2. LoopInv'
    BY <1>0, <1>2, LoopTurnKeeps
  <2> QED
    BY <2>1, <2>2 DEF LoopsInv, Client, DepthInv, TddInv
<1>3. ASSUME LoopError
      PROVE  LoopsInv'
  <2>1. client = "loop" /\ client' = client
    BY <1>3 DEF LoopError
  <2>2. LoopInv'
    BY <1>0, <1>3, LoopErrorKeeps
  <2> QED
    BY <2>1, <2>2 DEF LoopsInv, Client, DepthInv, TddInv
<1>4. ASSUME NEW a \in Answers[client], NEW large \in BOOLEAN, DepthTurn(a, large)
      PROVE  LoopsInv'
  <2>1. client = "depth" /\ client' = client
    BY <1>4 DEF DepthTurn
  <2>2. DepthInv'
    BY <1>0, <1>4, DepthTurnKeeps
  <2> QED
    BY <2>1, <2>2 DEF LoopsInv, Client, LoopInv, TddInv
<1>5. ASSUME DepthError
      PROVE  LoopsInv'
  <2>1. client = "depth" /\ client' = client
    BY <1>5 DEF DepthError
  <2>2. DepthInv'
    BY <1>0, <1>5, DepthErrorKeeps
  <2> QED
    BY <2>1, <2>2 DEF LoopsInv, Client, LoopInv, TddInv
<1>6. ASSUME NEW a \in Answers[client], TddCalls(a)
      PROVE  LoopsInv'
  <2>1. client = "tdd" /\ client' = client
    BY <1>6 DEF TddCalls
  <2>2. TddInv'
    BY <1>0, <1>6, TddCallsKeeps
  <2> QED
    BY <2>1, <2>2 DEF LoopsInv, Client, LoopInv, DepthInv
<1>7. ASSUME NEW a \in Answers[client], TddText(a)
      PROVE  LoopsInv'
  <2>1. client = "tdd" /\ client' = client
    BY <1>7 DEF TddText
  <2>2. TddInv'
    BY <1>0, <1>7, TddTextKeeps
  <2> QED
    BY <2>1, <2>2 DEF LoopsInv, Client, LoopInv, DepthInv
<1>8. ASSUME TddError
      PROVE  LoopsInv'
  <2>1. client = "tdd" /\ client' = client
    BY <1>8 DEF TddError
  <2>2. TddInv'
    BY <1>0, <1>8, TddErrorKeeps
  <2> QED
    BY <2>1, <2>2 DEF LoopsInv, Client, LoopInv, DepthInv
<1>9. CASE Next
  BY <1>1, <1>2, <1>3, <1>4, <1>5, <1>6, <1>7, <1>8, <1>9 DEF Next
<1> QED
  BY <1>1, <1>9

\* Theorem (LoopsKeepBooks).  For every number of turns and repetitions and all answers of
\* the server, whatever ids it gives to calls, the three clients keep a conversation in
\* which each result follows its own call, arm E, which numbers the calls itself, one in
\* which no two share an id; and their books tell what happened: CLEAN means every turn
\* answered with sound arguments, arm E counts every turn once, failed ones too, and a
\* PASS of group A means that some repetition went on after a call.
THEOREM LoopsAccount ==
  ASSUME LoopConstants
  PROVE  Spec => [](CallsAnswered /\ CleanMeansClean /\ TurnsAccounted /\ PassMeansCalls)
<1>1. Init => LoopsInv
  BY LoopsInit
<1>2. LoopsInv /\ [Next]_vars => LoopsInv'
  BY LoopsNext
<1>3. LoopsInv => CallsAnswered /\ CleanMeansClean /\ TurnsAccounted /\ PassMeansCalls
  <2> SUFFICES ASSUME LoopsInv
               PROVE  CallsAnswered /\ CleanMeansClean /\ TurnsAccounted /\ PassMeansCalls
    OBVIOUS
  <2>0. LoopInv /\ DepthInv /\ TddInv /\ client \in {"loop", "depth", "tdd"}
    BY DEF LoopsInv, Client
  <2>1. CASE client = "loop"
    <3>1. CallsAnswered /\ CleanMeansClean
      BY <2>0, <2>1, LoopPromises
    <3> QED
      BY <2>1, <3>1 DEF TurnsAccounted, PassMeansCalls
  <2>2. CASE client = "depth"
    <3>1. CallsAnswered /\ TurnsAccounted
      BY <2>0, <2>2, DepthPromises
    <3> QED
      BY <2>2, <3>1 DEF CleanMeansClean, PassMeansCalls
  <2>3. CASE client = "tdd"
    <3>1. CallsAnswered /\ PassMeansCalls
      BY <2>0, <2>3, TddPromises
    <3> QED
      BY <2>3, <3>1 DEF CleanMeansClean, TurnsAccounted
  <2> QED
    BY <2>0, <2>1, <2>2, <2>3
<1> QED
  BY <1>1, <1>2, <1>3, PTL DEF Spec

-------------------------------------------------------------------------------
(* The analyser: the texts of an answer and the metrics.  The operators of   *)
(* the instance are those of the library under another name.                 *)

\* Nothing joined is nothing.
LEMMA FlattenEmpty == FlattenSeq(<<>>) = <<>>
BY DEF FlattenSeq

\* Joining sequences over S gives one over S.
LEMMA FlattenType ==
  ASSUME NEW S, NEW q \in Seq(Seq(S))
  PROVE  FlattenSeq(q) \in Seq(S)
<1>1. CASE Len(q) = 0
  <2>1. q = <<>>
    BY <1>1
  <2>2. FlattenSeq(q) = <<>>
    BY <2>1, FlattenEmpty
  <2> QED
    BY <2>2
<1>2. CASE Len(q) # 0
  <2> DEFINE n == Len(q)
  <2>1. n \in Nat /\ \A k \in 1..n : q[k] \in Seq(S)
    OBVIOUS
  <2>2. PICK v : /\ v[1] = q[1]
                 /\ \A k \in 2..n : v[k] = v[k - 1] \o q[k]
                 /\ FlattenSeq(q) = v[n]
    BY <1>2, <2>1, FlattenSteps
  <2> DEFINE T == {k \in 1..n : v[k] \notin Seq(S)}
  <2> HIDE DEF n
  <2>3. T = {}
    <3> SUFFICES ASSUME T # {} PROVE FALSE
      OBVIOUS
    <3>1. PICK k \in T : \A m \in T : k <= m
      BY LeastNatural, T \subseteq Nat
    <3>2. k # 1
      BY <2>1, <2>2, <3>1
    <3>3. k \in 2..n /\ k - 1 \in 1..n /\ k - 1 \notin T
      BY <2>1, <3>1, <3>2
    <3>4. v[k - 1] \in Seq(S) /\ q[k] \in Seq(S) /\ v[k] = v[k - 1] \o q[k]
      BY <2>1, <2>2, <3>1, <3>3
    <3>5. v[k] \in Seq(S)
      BY <3>4
    <3> QED
      BY <3>1, <3>5
  <2>4. n \in 1..n
    BY <1>2, <2>1 DEF n
  <2> QED
    BY <2>2, <2>3, <2>4
<1> QED
  BY <1>1, <1>2

-------------------------------------------------------------------------------
(* The texts of an answer. *)

\* One delta more of the text that the server sent.
Sends(fields, acc, d) == IF d.field \in fields THEN acc \o d.toks ELSE acc
SentEq(g, s, fields, D) ==
  g = [t \in SUBSET D |-> IF t = {} THEN <<>> ELSE Sends(fields, g[t \ {Max(t)}], s[Max(t)])]

\* The text that was sent, as the fold over the set of places that defines it.
LEMMA SentIs ==
  ASSUME NEW fields
  PROVE  Degen!Sent(fields) = (CHOOSE g : SentEq(g, stream, fields, DOMAIN stream))[DOMAIN stream]
BY DEF Degen!Sent, Degen!FoldLeft, Degen!MapThenFoldSet, Degen!Max, Max, SentEq, Sends

\* The recursion has a solution for every number of deltas.
LEMMA SentExists ==
  ASSUME NEW s, NEW fields, NEW n \in Nat
  PROVE  \E g : SentEq(g, s, fields, 1..n)
<1> DEFINE T == {k \in Nat : ~\E g : SentEq(g, s, fields, 1..k)}
<1> SUFFICES ASSUME T # {}
             PROVE  FALSE
  OBVIOUS
<1>1. PICK k \in T : \A m \in T : k <= m
  BY LeastNatural
<1>2. CASE k = 0
  <2> DEFINE g == [t \in SUBSET (1..0) |-> <<>>]
  <2>1. \A t \in SUBSET (1..0) : t = {}
    OBVIOUS
  <2>2. SentEq(g, s, fields, 1..0)
    BY <2>1 DEF SentEq
  <2> HIDE DEF g
  <2> QED
    BY <1>1, <1>2, <2>2
<1>3. CASE k # 0
  <2>1. k - 1 \in Nat /\ k - 1 \notin T
    BY <1>1, <1>3
  <2>2. PICK e : SentEq(e, s, fields, 1..(k - 1))
    BY <2>1
  <2>3. \A t \in SUBSET (1..(k - 1)) :
          e[t] = IF t = {} THEN <<>> ELSE Sends(fields, e[t \ {Max(t)}], s[Max(t)])
    <3>1. e = [t \in SUBSET (1..(k - 1)) |->
                 IF t = {} THEN <<>> ELSE Sends(fields, e[t \ {Max(t)}], s[Max(t)])]
      BY <2>2 DEF SentEq
    <3> QED
      BY <3>1
  <2> DEFINE g == [t \in SUBSET (1..k) |->
                     IF k \in t THEN Sends(fields, e[t \ {k}], s[k]) ELSE e[t]]
  <2>4. \A t \in SUBSET (1..k) :
          g[t] = IF t = {} THEN <<>> ELSE Sends(fields, g[t \ {Max(t)}], s[Max(t)])
    <3> TAKE t \in SUBSET (1..k)
    <3>1. CASE k \in t
      <4>1. Max(t) \in t /\ k <= Max(t) /\ k \in Nat
        BY <3>1, <1>1, LargestOf
      <4>2. Max(t) = k
        <5>1. Max(t) \in 1..k
          BY <4>1
        <5> HIDE DEF g
        <5> QED
          BY <4>1, <5>1
      <4>3. t \ {k} \in SUBSET (1..k) /\ k \notin t \ {k}
        OBVIOUS
      <4>4. g[t \ {k}] = e[t \ {k}]
        BY <4>3
      <4>5. g[t] = Sends(fields, e[t \ {k}], s[k])
        BY <3>1
      <4> HIDE DEF g
      <4> QED
        BY <3>1, <4>2, <4>4, <4>5
    <3>2. CASE k \notin t
      <4>1. t \in SUBSET (1..(k - 1))
        BY <3>2, <1>1
      <4>2. g[t] = e[t] /\ g[t \ {Max(t)}] = e[t \ {Max(t)}]
        BY <3>2
      <4> HIDE DEF g
      <4> QED
        BY <2>3, <4>1, <4>2
    <3> QED
      BY <3>1, <3>2
  <2>5. g = [t \in SUBSET (1..k) |->
               IF t = {} THEN <<>> ELSE Sends(fields, g[t \ {Max(t)}], s[Max(t)])]
    BY <2>4
  <2> HIDE DEF g
  <2>6. SentEq(g, s, fields, 1..k)
    BY <2>5 DEF SentEq
  <2> QED
    BY <1>1, <2>6
<1> QED
  BY <1>2, <1>3

\* The deltas one by one.
LEMMA SentSteps ==
  ASSUME NEW fields, NEW n \in Nat, DOMAIN stream = 1..n
  PROVE  \E v : /\ v[0] = <<>>
                /\ \A k \in 1..n : v[k] = Sends(fields, v[k - 1], stream[k])
                /\ Degen!Sent(fields) = v[n]
<1> DEFINE g == CHOOSE g : SentEq(g, stream, fields, 1..n)
           v == [k \in 0..n |-> g[1..k]]
<1>2. Degen!Sent(fields) = g[1..n]
  BY SentIs
<1>3. SentEq(g, stream, fields, 1..n)
  BY SentExists
<1> HIDE DEF g
<1>4. \A t \in SUBSET (1..n) :
        g[t] = IF t = {} THEN <<>> ELSE Sends(fields, g[t \ {Max(t)}], stream[Max(t)])
  <2>1. g = [t \in SUBSET (1..n) |->
               IF t = {} THEN <<>> ELSE Sends(fields, g[t \ {Max(t)}], stream[Max(t)])]
    BY <1>3 DEF SentEq
  <2> QED
    BY <2>1
<1>5. v[0] = <<>>
  <2>1. 1..0 \in SUBSET (1..n) /\ 1..0 = {} /\ 0 \in 0..n
    OBVIOUS
  <2> QED
    BY <1>4, <2>1
<1>6. ASSUME NEW k \in 1..n
      PROVE  v[k] = Sends(fields, v[k - 1], stream[k])
  <2>1. 1..k \in SUBSET (1..n) /\ k \in 1..k /\ k \in Nat
    OBVIOUS
  <2>2. Max(1..k) \in 1..k /\ k <= Max(1..k)
    BY <2>1, LargestOf
  <2>3. Max(1..k) = k /\ (1..k) \ {k} = 1..(k - 1)
    BY <2>2
  <2>4. 1..k # {}
    BY <2>1
  <2>5. g[1..k] = Sends(fields, g[1..(k - 1)], stream[k])
    BY <1>4, <2>1, <2>3, <2>4
  <2>6. k \in 0..n /\ k - 1 \in 0..n
    OBVIOUS
  <2> QED
    BY <2>5, <2>6
<1>7. Degen!Sent(fields) = v[n]
  BY <1>2
<1> HIDE DEF v
<1> QED
  BY <1>5, <1>6, <1>7

\* chat_stream joins what the server sent, however it was cut into deltas.
LEMMA JoinedIsSent ==
  ASSUME NEW S, NEW n \in Nat, DOMAIN stream = 1..n, \A d \in 1..n : stream[d].toks \in Seq(S),
         NEW fields
  PROVE  Degen!Joined(stream, fields) = Degen!Sent(fields) /\ Degen!Sent(fields) \in Seq(S)
<1> DEFINE q == [d \in DOMAIN stream |->
                   IF stream[d].field \in fields THEN stream[d].toks ELSE <<>>]
<1>1. q \in Seq(Seq(S)) /\ Len(q) = n
  <2>1. \A d \in 1..n : (IF stream[d].field \in fields THEN stream[d].toks ELSE <<>>) \in Seq(S)
    OBVIOUS
  <2>2. q \in [1..n -> Seq(S)]
    BY <2>1
  <2> HIDE DEF q
  <2> QED
    BY <2>2
<1>2. \A d \in 1..n : q[d] = IF stream[d].field \in fields THEN stream[d].toks ELSE <<>>
  OBVIOUS
<1>3. Degen!Joined(stream, fields) = FlattenSeq(q)
  BY DEF Degen!Joined, Degen!FlattenSeq, FlattenSeq
<1>4. PICK v : /\ v[0] = <<>>
               /\ \A k \in 1..n : v[k] = Sends(fields, v[k - 1], stream[k])
               /\ Degen!Sent(fields) = v[n]
  BY SentSteps
<1> HIDE DEF q
<1>5. CASE n = 0
  <2>1. q = <<>>
    BY <1>1, <1>5
  <2>2. FlattenSeq(q) = <<>>
    BY <2>1, FlattenEmpty
  <2>3. Degen!Sent(fields) = <<>>
    BY <1>4, <1>5
  <2>4. <<>> \in Seq(S)
    OBVIOUS
  <2> QED
    BY <1>3, <2>2, <2>3, <2>4
<1>6. CASE n # 0
  <2>1. PICK w : /\ w[1] = q[1]
                 /\ \A k \in 2..n : w[k] = w[k - 1] \o q[k]
                 /\ FlattenSeq(q) = w[n]
    BY <1>1, <1>6, FlattenSteps
  <2> DEFINE T == {k \in 1..n : ~(v[k] = w[k] /\ w[k] \in Seq(S))}
  <2>2. T = {}
    <3> SUFFICES ASSUME T # {} PROVE FALSE
      OBVIOUS
    <3>1. PICK k \in T : \A m \in T : k <= m
      BY LeastNatural, T \subseteq Nat
    <3>2. q[k] \in Seq(S) /\ k \in 1..n
      BY <1>1
    <3>3. CASE k = 1
      <4>1. v[1] = Sends(fields, v[0], stream[1])
        BY <1>4, <3>2, <3>3
      <4>2. v[1] = IF stream[1].field \in fields THEN <<>> \o stream[1].toks ELSE <<>>
        BY <1>4, <4>1 DEF Sends
      <4>3. stream[1].toks \in Seq(S)
        BY <3>2, <3>3
      <4>4. <<>> \o stream[1].toks = stream[1].toks
        BY <4>3
      <4> QED
        BY <1>2, <2>1, <3>2, <3>3, <4>2, <4>4
    <3>4. CASE k # 1
      <4>1. k \in 2..n /\ k - 1 \in 1..n /\ ~(k <= k - 1)
        BY <3>2, <3>4
      <4>2. v[k - 1] = w[k - 1] /\ w[k - 1] \in Seq(S)
        BY <3>1, <4>1
      <4>3. w[k] = w[k - 1] \o q[k]
        BY <2>1, <4>1
      <4>4. w[k - 1] \o <<>> = w[k - 1] /\ w[k] \in Seq(S)
        BY <3>2, <4>2, <4>3
      <4>5. v[k] = Sends(fields, w[k - 1], stream[k])
        BY <1>4, <3>2, <4>2
      <4>6. v[k] = IF stream[k].field \in fields THEN w[k - 1] \o stream[k].toks ELSE w[k - 1]
        BY <4>5 DEF Sends
      <4>7. v[k] = w[k]
        BY <1>2, <3>2, <4>3, <4>4, <4>6
      <4> QED
        BY <4>4, <4>7
    <3> QED
      BY <3>3, <3>4
  <2>3. n \in 1..n
    BY <1>6
  <2> QED
    BY <1>3, <1>4, <2>1, <2>2, <2>3
<1> QED
  BY <1>5, <1>6

-------------------------------------------------------------------------------
(* The metrics. *)

\* The bounds of the metrics, and a server that sends some of them.
DegenConstants ==
  /\ GramLength \in Nat \ {0} /\ MaxRepeats \in Nat \ {0}
  /\ MinTokens \in Nat /\ MinTokens <= GramLength + MaxRepeats - 1

\* An item that stands in r places is one of those most common.
LEMMA OftenCounts ==
  ASSUME NEW m \in Nat, NEW f, DOMAIN f = 1..m, NEW i \in 1..m
  PROVE  /\ Degen!MostCommon(f) >= Degen!Often(f, f[i])
         /\ Degen!MostCommon(f) \in Nat /\ Degen!Often(f, f[i]) \in Nat
<1> DEFINE C == {Degen!Often(f, f[j]) : j \in 1..m}
<1>1. ASSUME NEW j \in 1..m
      PROVE  Degen!Often(f, f[j]) \in 0..m
  <2>1. {k \in 1..m : f[k] = f[j]} \in SUBSET (1..m)
    OBVIOUS
  <2>2. IsFiniteSet(1..m) /\ Cardinality(1..m) = m
    BY FS_Interval
  <2>3. /\ IsFiniteSet({k \in 1..m : f[k] = f[j]})
        /\ Cardinality({k \in 1..m : f[k] = f[j]}) <= m
    BY <2>1, <2>2, FS_Subset
  <2>4. Cardinality({k \in 1..m : f[k] = f[j]}) \in Nat
    BY <2>3, FS_CardinalityType
  <2>5. Degen!Often(f, f[j]) = Cardinality({k \in 1..m : f[k] = f[j]})
    BY DEF Degen!Often, Degen!Cardinality, Cardinality
  <2> QED
    BY <2>3, <2>4, <2>5
<1>2. Degen!MostCommon(f) = Max(C)
  BY DEF Degen!MostCommon, Degen!Max, Max
<1>3. C \subseteq 0..m /\ Degen!Often(f, f[i]) \in C
  BY <1>1
<1> HIDE DEF C
<1> DEFINE T == {b \in Nat : \A c \in C : c <= b}
<1>4. m \in T
  BY <1>3
<1>5. PICK b \in T : \A c \in T : b <= c
  BY <1>4, LeastNatural
<1>6. b \in C
  <2> SUFFICES ASSUME b \notin C
               PROVE  FALSE
    OBVIOUS
  <2>1. b \in Nat /\ \A c \in C : c \in Nat /\ c <= b /\ c # b
    BY <1>3, <1>5
  <2>2. b # 0
    <3> DEFINE one == Degen!Often(f, f[i])
    <3>1. one \in C
      BY <1>3
    <3> HIDE DEF one, T
    <3>2. one \in Nat /\ one <= b /\ one # b
      BY <2>1, <3>1
    <3> QED
      BY <2>1, <3>2
  <2>3. b - 1 \in Nat /\ \A c \in C : c <= b - 1
    <3> HIDE DEF T
    <3> QED
      BY <2>1, <2>2
  <2> QED
    BY <1>5, <2>1, <2>3
<1>7. b \in C /\ \A c \in C : b >= c
  BY <1>3, <1>5, <1>6
<1>8. Max(C) \in C /\ \A c \in C : Max(C) >= c
  BY <1>7 DEF Max
<1> DEFINE top == Degen!MostCommon(f)
           one == Degen!Often(f, f[i])
<1>9. top \in C /\ one \in C /\ top >= one
  BY <1>2, <1>3, <1>8
<1>10. top \in Nat /\ one \in Nat
  <2> HIDE DEF top, one
  <2> QED
    BY <1>3, <1>9
<1> QED
  BY <1>9, <1>10

\* From place a on, n items go on like those p places before; the g items that start
\* every p places, r times.
Continues(s, p, a, n) == \A i \in a..(a + n - 1 - p) : s[i] = s[i + p]
Again(s, p, a, g, r) == \A k \in Nat : k < r => \A j \in 0..(g - 1) : s[a + k * p + j] = s[a + j]

\* A text that goes on like itself p places before repeats the grams of a phrase.
LEMMA PhraseRepeats ==
  ASSUME NEW s, NEW p \in Nat, NEW a \in Nat, NEW g \in Nat, NEW r \in Nat, p > 0, g > 0,
         NEW w, w = (r - 1) * p, Continues(s, p, a, g + w)
  PROVE  Again(s, p, a, g, r)
<1>0. \A i \in a..(a + (g + w) - 1 - p) : s[i] = s[i + p]
  BY DEF Continues
<1> DEFINE P(k) == \A j \in 0..(g - 1) : s[a + k * p + j] = s[a + j]
           T == {k \in Nat : k < r /\ ~P(k)}
<1>1. P(0)
  OBVIOUS
<1>2. ASSUME NEW k \in Nat, k + 1 < r, P(k)
      PROVE  P(k + 1)
  <2> DEFINE x == k * p
  <2>1. x \in Nat /\ (k + 1) * p = x + p
    OBVIOUS
  <2>2. x <= (r - 2) * p
    <3>1. k <= r - 2 /\ r - 2 \in Nat
      BY <1>2
    <3>2. PICK y \in Nat : r - 2 = k + y
      BY <3>1, r - 2 - k \in Nat
    <3>3. (k + y) * p = k * p + y * p /\ y * p \in Nat /\ k * p \in Nat
      OBVIOUS
    <3> QED
      BY <3>2, <3>3
  <2>3. (r - 1) * p = (r - 2) * p + p /\ (r - 2) * p \in Int
    OBVIOUS
  <2> TAKE j \in 0..(g - 1)
  <2>4. a + x + j \in a..(a + (g + w) - 1 - p)
    <3> DEFINE u == (r - 2) * p
               v == (r - 1) * p
    <3>1. v = u + p /\ w = v /\ u \in Int /\ x <= u /\ x \in Nat
      BY <2>1, <2>2, <2>3
    <3> HIDE DEF u, v, x
    <3> QED
      BY <3>1
  <2>5. s[a + x + j] = s[(a + x + j) + p]
    BY <1>0, <2>4
  <2>6. s[a + x + j] = s[a + j]
    BY <1>2
  <2>7. a + (x + p) + j = (a + x + j) + p
    <3> HIDE DEF x
    <3> QED
      BY <2>1
  <2> QED
    BY <2>1, <2>5, <2>6, <2>7
<1> HIDE DEF P
<1>3. T = {}
  <2> SUFFICES ASSUME T # {} PROVE FALSE
    OBVIOUS
  <2>1. PICK k \in T : \A m \in T : k <= m
    BY LeastNatural, T \subseteq Nat
  <2>2. k # 0 /\ k \in Nat /\ k < r
    BY <1>1, <2>1
  <2>3. k - 1 \in Nat /\ (k - 1) + 1 = k /\ k - 1 \notin T
    BY <2>1, <2>2
  <2>4. P(k - 1)
    BY <2>2, <2>3
  <2> QED
    BY <1>2, <2>1, <2>2, <2>3, <2>4
<1>4. \A k \in Nat : k < r => P(k)
  BY <1>3
<1> QED
  BY <1>4 DEF P, Again

\* The gram at place i.
LEMMA GramIs ==
  ASSUME NEW S, NEW s \in Seq(S), NEW g \in Nat, NEW i \in Nat, i >= 1, i + g - 1 <= Len(s)
  PROVE  /\ SubSeq(s, i, i + g - 1) \in Seq(S) /\ Len(SubSeq(s, i, i + g - 1)) = g
         /\ \A j \in 1..g : SubSeq(s, i, i + g - 1)[j] = s[i + j - 1]
OBVIOUS

\* A text that loops is degenerate.
LEMMA LoopIsDegenerate ==
  ASSUME DegenConstants, NEW S, NEW s \in Seq(S), NEW p \in 1..Len(s),
         Degen!Loops(s, p, GramLength + (MaxRepeats - 1) * p)
  PROVE  Degen!Degenerate(s)
<1> DEFINE g == GramLength
           r == MaxRepeats
           n == g + (r - 1) * p
           l == Len(s)
<1>1. g \in Nat /\ g > 0 /\ r \in Nat /\ r > 0 /\ l \in Nat /\ p \in Nat /\ p > 0
      /\ MinTokens \in Nat /\ MinTokens <= g + (r - 1)
  BY DEF DegenConstants
<1>2. PICK a \in 1..(l - n + 1) : \A i \in a..(a + n - 1 - p) : s[i] = s[i + p]
  BY DEF Degen!Loops
<1>3. (r - 1) * p \in Nat /\ (r - 1) * p >= r - 1
  <2>1. r - 1 \in Nat /\ p - 1 \in Nat
    BY <1>1
  <2>2. (r - 1) * (p - 1) \in Nat
    BY <2>1
  <2>3. (r - 1) * p = (r - 1) * (p - 1) + (r - 1)
    BY <1>1
  <2> QED
    BY <2>1, <2>2, <2>3
<1>4. \A k \in Nat : k < r => \A j \in 0..(g - 1) : s[a + k * p + j] = s[a + j]
  <2>1. a \in Nat
    BY <1>1, <1>3
  <2> DEFINE w == (r - 1) * p
  <2>2. Continues(s, p, a, g + w)
    BY <1>2 DEF Continues
  <2>3. w = (r - 1) * p
    OBVIOUS
  <2> HIDE DEF g, r, n, l, w
  <2>4. Again(s, p, a, g, r)
    BY <1>1, <2>1, <2>2, <2>3, PhraseRepeats
  <2> QED
    BY <2>4 DEF Again
<1> DEFINE f == Degen!ngrams(s, g)
           m == l - g + 1
<1>5. /\ n \in Nat /\ a \in Nat /\ a >= 1 /\ a + n <= l + 1 /\ n >= g /\ l >= MinTokens
      /\ m \in Nat /\ a \in 1..m
  <2> DEFINE z == (r - 1) * p
  <2>1. z \in Nat /\ z >= r - 1
    BY <1>3
  <2> HIDE DEF z, g, r, l
  <2>2. a \in 1..(l - (g + z) + 1)
    BY DEF z
  <2> QED
    BY <1>1, <2>1, <2>2 DEF z
<1>6. DOMAIN f = 1..m /\ \A i \in 1..m : f[i] = SubSeq(s, i, i + g - 1)
  BY DEF Degen!ngrams
<1>7. ASSUME NEW k \in 0..(r - 1)
      PROVE  a + k * p \in 1..m /\ f[a + k * p] = f[a]
  <2> DEFINE x == k * p
             z == (r - 1) * p
  <2>1. k \in Nat /\ k < r /\ x \in Nat
    BY <1>1
  <2>2. x <= z
    <3>1. PICK y \in Nat : r - 1 = k + y
      BY <1>1, r - 1 - k \in Nat
    <3>2. (k + y) * p = k * p + y * p /\ y * p \in Nat
      BY <1>1, <2>1
    <3> QED
      BY <2>1, <3>1, <3>2
  <2>3. a + x \in 1..m
    <3> HIDE DEF x, z, g, r, l
    <3>1. a + (g + z) <= l + 1
      BY <1>5 DEF z
    <3> QED
      BY <1>1, <1>3, <1>5, <2>1, <2>2, <3>1 DEF z
  <2>4. \A j \in 0..(g - 1) : s[a + x + j] = s[a + j]
    BY <1>4, <2>1
  <2>5. f[a + x] = SubSeq(s, a + x, a + x + g - 1) /\ f[a] = SubSeq(s, a, a + g - 1)
    BY <1>5, <1>6, <2>3
  <2>6. SubSeq(s, a + x, a + x + g - 1) = SubSeq(s, a, a + g - 1)
    <3> HIDE DEF x, g, l, f
    <3>0. /\ a + x \in Nat /\ a + x >= 1 /\ a + x + g - 1 <= Len(s)
          /\ a \in Nat /\ a >= 1 /\ a + g - 1 <= Len(s)
      BY <1>1, <1>5, <2>1, <2>3 DEF l
    <3>1. /\ SubSeq(s, a + x, a + x + g - 1) \in Seq(S)
          /\ Len(SubSeq(s, a + x, a + x + g - 1)) = g
          /\ \A j \in 1..g : SubSeq(s, a + x, a + x + g - 1)[j] = s[a + x + j - 1]
      <4> DEFINE b == a + x
      <4>1. b \in Nat /\ b >= 1 /\ b + g - 1 <= Len(s) /\ g \in Nat
        BY <1>1, <3>0
      <4> HIDE DEF b
      <4>2. /\ SubSeq(s, b, b + g - 1) \in Seq(S)
            /\ Len(SubSeq(s, b, b + g - 1)) = g
            /\ \A j \in 1..g : SubSeq(s, b, b + g - 1)[j] = s[b + j - 1]
        BY <4>1, GramIs
      <4> QED
        BY <4>2 DEF b
    <3>2. /\ SubSeq(s, a, a + g - 1) \in Seq(S)
          /\ Len(SubSeq(s, a, a + g - 1)) = g
          /\ \A j \in 1..g : SubSeq(s, a, a + g - 1)[j] = s[a + j - 1]
      BY <1>1, <3>0, GramIs
    <3>3. \A j \in 1..g : s[a + x + (j - 1)] = s[a + (j - 1)]
      BY <1>1, <2>4
    <3>4. \A j \in 1..g : a + x + (j - 1) = a + x + j - 1 /\ a + (j - 1) = a + j - 1
      BY <2>1, <3>0
    <3> QED
      BY <1>1, <3>1, <3>2, <3>3, <3>4, SeqEqual
  <2> QED
    BY <2>3, <2>5, <2>6
<1> DEFINE O == {i \in 1..m : f[i] = f[a]}
           h == [k \in 0..(r - 1) |-> a + k * p]
<1>8. h \in Injection(0..(r - 1), O)
  <2>1. h \in [0..(r - 1) -> O]
    BY <1>7
  <2>2. ASSUME NEW j \in 0..(r - 1), NEW k \in 0..(r - 1), h[j] = h[k]
        PROVE  j = k
    <3>1. a + j * p = a + k * p /\ j \in Nat /\ k \in Nat
      BY <2>2, <1>1
    <3>2. (j - k) * p = j * p - k * p /\ j * p \in Nat /\ k * p \in Nat
      BY <1>1, <3>1
    <3>3. (j - k) * p = 0
      BY <1>5, <3>1, <3>2
    <3> QED
      BY <1>1, <3>1, <3>3
  <2> HIDE DEF h, O
  <2> QED
    BY <2>1, <2>2 DEF Injection, IsInjective
<1>9. IsFiniteSet(O) /\ Cardinality(O) \in Nat /\ r <= Cardinality(O)
  <2>1. O \in SUBSET (1..m) /\ IsFiniteSet(1..m)
    <3>1. O \in SUBSET (1..m) /\ m \in Int
      BY <1>5
    <3> HIDE DEF m, O
    <3> QED
      BY <3>1, FS_Interval
  <2>2. IsFiniteSet(O)
    BY <2>1, FS_Subset
  <2>3. Cardinality(0..(r - 1)) = r
    <3>1. r - 1 \in Int /\ 0 <= r - 1 /\ (r - 1) - 0 + 1 = r
      BY <1>1
    <3> HIDE DEF r
    <3> QED
      BY <3>1, FS_Interval
  <2> HIDE DEF O, h
  <2>4. Cardinality(0..(r - 1)) <= Cardinality(O)
    BY <1>8, <2>2, FS_Injection
  <2> QED
    BY <2>2, <2>3, <2>4, FS_CardinalityType
<1>10. Degen!MostCommon(f) >= Degen!Often(f, f[a]) /\ Degen!MostCommon(f) \in Nat
  <2> HIDE DEF f, m
  <2> QED
    BY <1>5, <1>6, OftenCounts
<1>11. Degen!Often(f, f[a]) = Cardinality(O)
  BY <1>6 DEF Degen!Often, Degen!Cardinality, Cardinality
<1>12. Degen!MostCommon(f) >= r
  <2> HIDE DEF f, O, r
  <2> QED
    BY <1>1, <1>9, <1>10, <1>11
<1> QED
  BY <1>5, <1>12 DEF Degen!Degenerate

\* What comes before a loop does not hide it.
LEMMA LoopAfter ==
  ASSUME NEW S, NEW s \in Seq(S), NEW t \in Seq(S), NEW p \in Nat, NEW n \in Nat,
         p > 0, n > 0, Degen!Loops(s, p, n)
  PROVE  Degen!Loops(s \o t, p, n)
<1> DEFINE l == Len(s)
           u == s \o t
<1>1. /\ l \in Nat /\ Len(t) \in Nat /\ Len(u) = l + Len(t)
      /\ \A i \in 1..l : u[i] = s[i]
  OBVIOUS
<1>2. PICK a \in 1..(l - n + 1) : \A i \in a..(a + n - 1 - p) : s[i] = s[i + p]
  BY DEF Degen!Loops
<1> HIDE DEF l, u
<1>3. a \in 1..(Len(u) - n + 1)
  BY <1>1, <1>2
<1>4. ASSUME NEW i \in a..(a + n - 1 - p)
      PROVE  u[i] = u[i + p]
  <2>1. i \in 1..l /\ i + p \in 1..l
    BY <1>1, <1>2
  <2> QED
    BY <1>1, <1>2, <2>1
<1> QED
  BY <1>3, <1>4 DEF Degen!Loops, u

\* Theorem (LoopsFlagged).  For all deltas of the server, a text that repeats a phrase of
\* p tokens over GramLength + (MaxRepeats - 1) * p of them is flagged, wherever the loop
\* starts, in the answer or in the reasoning under either name of its field.
THEOREM LoopsAreFlagged ==
  ASSUME DegenConstants
  PROVE  Degen!Init /\ [][Degen!Next]_stream => []Degen!LoopsFlagged
<1>1. Degen!Init => Degen!LoopsFlagged
  <2> SUFFICES ASSUME Degen!Init PROVE Degen!LoopsFlagged
    OBVIOUS
  <2>1. PICK n \in Nat : stream \in [1..n -> Degen!Deltas]
    BY DEF Degen!Init
  <2>2. \A d \in 1..n : stream[d].toks \in Seq(Words)
    <3> TAKE d \in 1..n
    <3>1. stream[d] \in Degen!Deltas
      BY <2>1
    <3>2. PICK k \in Nat : stream[d].toks \in [1..k -> Words]
      BY <3>1 DEF Degen!Deltas
    <3> QED
      BY <3>2
  <2> DEFINE text == Degen!Sent({"content"})
             think == Degen!Sent({"reasoning", "reasoning_content"})
  <2>3. /\ Degen!Joined(stream, {"content"}) = text /\ text \in Seq(Words)
        /\ Degen!Joined(stream, Degen!ThinkFields) = think /\ think \in Seq(Words)
    BY <2>1, <2>2, JoinedIsSent DEF Degen!ThinkFields
  <2> HIDE DEF text, think
  <2> DEFINE c == Degen!ChatStream(stream)
  <2>4. c.text = text /\ c.reasoning = think
    BY <2>3 DEF Degen!ChatStream
  <2> HIDE DEF c
  <2>5. ASSUME NEW toks \in {text, think}, NEW p \in 1..Len(toks),
               Degen!Loops(toks, p, GramLength + (MaxRepeats - 1) * p)
        PROVE  Degen!Flagged(c)
    <3>1. CASE toks = text
      BY <2>3, <2>4, <2>5, <3>1, LoopIsDegenerate DEF Degen!Flagged
    <3>2. CASE toks = think
      <4> DEFINE n1 == GramLength + (MaxRepeats - 1) * p
      <4>1. p \in Nat /\ p > 0 /\ n1 \in Nat /\ n1 > 0
        <5>1. p \in Nat /\ p > 0 /\ MaxRepeats - 1 \in Nat /\ GramLength \in Nat \ {0}
          BY <2>3, <3>2 DEF DegenConstants
        <5>2. (MaxRepeats - 1) * p \in Nat
          BY <5>1
        <5> QED
          BY <5>1, <5>2
      <4> HIDE DEF n1
      <4>2. Degen!Loops(think \o text, p, n1)
        BY <2>3, <2>5, <3>2, <4>1, LoopAfter DEF n1
      <4>3. think \o text \in Seq(Words) /\ p \in 1..Len(think \o text)
        BY <2>3, <3>2
      <4>4. Degen!Degenerate(think \o text)
        BY <4>2, <4>3, LoopIsDegenerate DEF n1
      <4> QED
        BY <2>4, <4>4 DEF Degen!Flagged
    <3> QED
      BY <3>1, <3>2
  <2> QED
    BY <2>5 DEF Degen!LoopsFlagged, c, text, think
<1>2. Degen!Init /\ [Degen!Next]_stream => Degen!Init'
  BY DEF Degen!Init, Degen!Next
<1> QED
  BY <1>1, <1>2, PTL

-------------------------------------------------------------------------------
(* The echoed blocks. *)

CONSTANTS Pieces, MaxPieces
VARIABLE content

Echo == INSTANCE HistoryNormalize

\* The tag that is open after each place of a..b.
Opens(o, c, a, b, opening, closing) ==
  \A k \in 0..b : o[k] = IF k < a THEN 0 ELSE Echo!After(c, o[k - 1], k, opening, closing)

\* The recursion has a solution.
OpenEq(o, c, a, b, opening, closing) ==
  o = [k \in 0..b |-> IF k < a THEN 0 ELSE Echo!After(c, o[k - 1], k, opening, closing)]

LEMMA OpenExists ==
  ASSUME NEW c, NEW a \in Nat \ {0}, NEW b \in Nat, NEW opening, NEW closing
  PROVE  \E o : OpenEq(o, c, a, b, opening, closing)
<1> DEFINE T == {k \in Nat : ~\E o : OpenEq(o, c, a, k, opening, closing)}
<1> SUFFICES ASSUME T # {}
             PROVE  FALSE
  OBVIOUS
<1>1. PICK k \in T : \A m \in T : k <= m
  BY LeastNatural
<1>2. CASE k = 0
  <2> DEFINE o == [j \in 0..0 |-> 0]
  <2>1. OpenEq(o, c, a, 0, opening, closing)
    BY DEF OpenEq
  <2> HIDE DEF o
  <2> QED
    BY <1>1, <1>2, <2>1
<1>3. CASE k # 0
  <2>1. k - 1 \in Nat /\ k - 1 \notin T
    BY <1>1, <1>3
  <2>2. PICK e : OpenEq(e, c, a, k - 1, opening, closing)
    BY <2>1
  <2>3. \A j \in 0..(k - 1) :
          e[j] = IF j < a THEN 0 ELSE Echo!After(c, e[j - 1], j, opening, closing)
    <3>1. e = [j \in 0..(k - 1) |->
                 IF j < a THEN 0 ELSE Echo!After(c, e[j - 1], j, opening, closing)]
      BY <2>2 DEF OpenEq
    <3> QED
      BY <3>1
  <2> DEFINE last == IF k < a THEN 0 ELSE Echo!After(c, e[k - 1], k, opening, closing)
             o == [j \in 0..k |-> IF j = k THEN last ELSE e[j]]
  <2>4. \A j \in 0..k : o[j] = IF j = k THEN last ELSE e[j]
    OBVIOUS
  <2> HIDE DEF last, o
  <2>5. \A j \in 0..k :
          o[j] = IF j < a THEN 0 ELSE Echo!After(c, o[j - 1], j, opening, closing)
    <3> TAKE j \in 0..k
    <3>1. CASE j < a
      BY <2>3, <2>4, <3>1 DEF last
    <3>2. CASE ~(j < a)
      <4>1. j - 1 \in 0..k /\ j - 1 # k /\ j - 1 \in 0..(k - 1)
        BY <3>2
      <4>2. o[j - 1] = e[j - 1]
        BY <2>4, <4>1
      <4>3. CASE j = k
        BY <2>4, <3>2, <4>2, <4>3 DEF last
      <4>4. CASE j # k
        <5>1. j \in 0..(k - 1)
          BY <4>4, <1>1
        <5> QED
          BY <2>3, <2>4, <3>2, <4>2, <4>4, <5>1
      <4> QED
        BY <4>3, <4>4
    <3> QED
      BY <3>1, <3>2
  <2>6. o = [j \in 0..k |->
               IF j < a THEN 0 ELSE Echo!After(c, o[j - 1], j, opening, closing)]
    BY <2>5 DEF o
  <2>7. OpenEq(o, c, a, k, opening, closing)
    BY <2>6 DEF OpenEq
  <2> QED
    BY <1>1, <2>7
<1> QED
  BY <1>2, <1>3

LEMMA OpenIs ==
  ASSUME NEW c, NEW a \in Nat \ {0}, NEW b \in Nat, NEW opening, NEW closing
  PROVE  Opens(Echo!Open(c, a, b, opening, closing), c, a, b, opening, closing)
<1> DEFINE o == Echo!Open(c, a, b, opening, closing)
<1>1. o = CHOOSE g : OpenEq(g, c, a, b, opening, closing)
  BY DEF Echo!Open, OpenEq
<1>2. OpenEq(o, c, a, b, opening, closing)
  BY <1>1, OpenExists
<1> HIDE DEF o
<1>3. o = [k \in 0..b |-> IF k < a THEN 0 ELSE Echo!After(c, o[k - 1], k, opening, closing)]
  BY <1>2 DEF OpenEq
<1>4. \A k \in 0..b : o[k] = IF k < a THEN 0 ELSE Echo!After(c, o[k - 1], k, opening, closing)
  BY <1>3
<1> QED
  BY <1>4 DEF Opens, o

\* A tag that is open was opened inside, and stays open from there on.
Held(o, c, a, b, opening, closing) ==
  \A k \in 0..b :
    o[k] # 0 =>
      /\ o[k] \in a..k /\ o[k] \in DOMAIN c /\ c[o[k]] \in opening /\ o[o[k] - 1] = 0
      /\ \A r \in o[k]..k : o[r] = o[k] /\ (r # o[k] /\ r \in DOMAIN c => c[r] # closing)

LEMMA TagHeld ==
  ASSUME NEW c, NEW a \in Nat \ {0}, NEW b \in Nat, NEW opening, NEW closing, NEW o,
         Opens(o, c, a, b, opening, closing)
  PROVE  Held(o, c, a, b, opening, closing)
<1> DEFINE P(k) == o[k] # 0 =>
             /\ o[k] \in a..k /\ o[k] \in DOMAIN c /\ c[o[k]] \in opening /\ o[o[k] - 1] = 0
             /\ \A r \in o[k]..k : o[r] = o[k] /\ (r # o[k] /\ r \in DOMAIN c => c[r] # closing)
           T == {k \in 0..b : ~P(k)}
<1> SUFFICES ASSUME T # {}
             PROVE  FALSE
  BY DEF Held
<1>1. PICK k \in T : \A m \in T : k <= m
  BY LeastNatural, T \subseteq Nat
<1>2. k \in 0..b /\ o[k] # 0
  BY <1>1
<1>3. k >= a /\ k - 1 \in 0..b /\ o[k] = Echo!After(c, o[k - 1], k, opening, closing)
  BY <1>2 DEF Opens
<1>4. P(k - 1)
  BY <1>1, <1>3
<1>5. CASE o[k - 1] # 0
  <2>1. o[k] = o[k - 1] /\ (k \in DOMAIN c => c[k] # closing)
    BY <1>2, <1>3, <1>5 DEF Echo!After
  <2>2. o[k] \in a..k /\ o[k] # k /\ o[k] \in DOMAIN c /\ c[o[k]] \in opening /\ o[o[k] - 1] = 0
    BY <1>3, <1>4, <1>5, <2>1
  <2>3. ASSUME NEW r \in o[k]..k
        PROVE  o[r] = o[k] /\ (r # o[k] /\ r \in DOMAIN c => c[r] # closing)
    <3>1. CASE r = k
      BY <2>1, <3>1
    <3>2. CASE r # k
      <4>1. r \in o[k - 1]..(k - 1)
        BY <1>3, <2>1, <2>2, <3>2
      <4> QED
        BY <1>4, <1>5, <2>1, <4>1
    <3> QED
      BY <3>1, <3>2
  <2> QED
    BY <1>1, <2>2, <2>3
<1>6. CASE o[k - 1] = 0
  <2>1. o[k] = k /\ k \in DOMAIN c /\ c[k] \in opening
    BY <1>2, <1>3, <1>6 DEF Echo!After
  <2>2. \A r \in o[k]..k : r = k
    BY <1>3, <2>1
  <2>3. k \in a..k
    BY <1>3
  <2> QED
    BY <1>1, <1>6, <2>1, <2>2, <2>3
<1> QED
  BY <1>5, <1>6

\* What is enclosed: an opening tag and the closing tag after it.
Match(o, c, a, b, opening, closing, i, j) ==
  /\ i \in a..b /\ j \in (i + 1)..b /\ i \in DOMAIN c /\ j \in DOMAIN c
  /\ c[i] \in opening /\ c[j] = closing /\ o[i - 1] = 0 /\ o[j] = 0
  /\ \A r \in i..(j - 1) : o[r] = i /\ (r # i /\ r \in DOMAIN c => c[r] # closing)

LEMMA MatchIs ==
  ASSUME NEW c, NEW a \in Nat \ {0}, NEW b \in Nat, NEW opening, NEW closing,
         NEW o, o = Echo!Open(c, a, b, opening, closing),
         NEW m \in Echo!Enclosed(c, a, b, opening, closing)
  PROVE  m = <<m[1], m[2]>> /\ Match(o, c, a, b, opening, closing, m[1], m[2])
<1>1. Opens(o, c, a, b, opening, closing) /\ Held(o, c, a, b, opening, closing)
  BY OpenIs, TagHeld
<1>2. PICK j \in a..b : j \in DOMAIN c /\ o[j - 1] # 0 /\ c[j] = closing /\ m = <<o[j - 1], j>>
  BY DEF Echo!Enclosed
<1>3. m = <<m[1], m[2]>> /\ m[1] = o[j - 1] /\ m[2] = j
  BY <1>2
<1>4. j - 1 \in 0..b /\ j \in 0..b /\ j >= a /\ j \in Int
  BY <1>2
<1> DEFINE i == o[j - 1]
<1>5. /\ i \in a..(j - 1) /\ i \in DOMAIN c /\ c[i] \in opening /\ o[i - 1] = 0
      /\ \A r \in i..(j - 1) : o[r] = i /\ (r # i /\ r \in DOMAIN c => c[r] # closing)
  BY <1>1, <1>2, <1>4 DEF Held
<1>6. o[j] = 0
  BY <1>1, <1>2, <1>4 DEF Opens, Echo!After
<1> HIDE DEF i
<1>7. i \in a..b /\ j \in (i + 1)..b
  BY <1>4, <1>5
<1>8. Match(o, c, a, b, opening, closing, i, j)
  BY <1>2, <1>5, <1>6, <1>7 DEF Match
<1> QED
  BY <1>3, <1>8 DEF i

\* A tag that is open and no longer open was closed in between.
LEMMA TagCloses ==
  ASSUME NEW c, NEW a \in Nat \ {0}, NEW b \in Nat, NEW opening, NEW closing,
         NEW o, o = Echo!Open(c, a, b, opening, closing),
         NEW i \in 0..b, o[i] # 0, NEW j \in i..b, o[j] # o[i]
  PROVE  \E k \in (i + 1)..j : <<o[i], k>> \in Echo!Enclosed(c, a, b, opening, closing)
<1>1. Opens(o, c, a, b, opening, closing) /\ Held(o, c, a, b, opening, closing)
  BY OpenIs, TagHeld
<1> DEFINE T == {k \in i..j : o[k] # o[i]}
<1>2. PICK k \in T : \A m \in T : k <= m
  <2>1. T \subseteq Nat /\ j \in T
    OBVIOUS
  <2> QED
    BY <2>1, LeastNatural
<1>3. k # i /\ k \in i..j
  BY <1>2
<1>4. k - 1 \in i..j /\ k - 1 \in 0..b /\ k \in 0..b /\ k \in (i + 1)..j
  BY <1>3
<1>5. o[k - 1] = o[i]
  BY <1>2, <1>4
<1>6. o[i] \in a..i
  BY <1>1 DEF Held
<1>7. k \in a..b /\ ~(k < a)
  BY <1>4, <1>6
<1>8. o[k] = Echo!After(c, o[i], k, opening, closing) /\ o[k] # o[i]
  BY <1>1, <1>2, <1>4, <1>5, <1>7 DEF Opens
<1>9. k \in DOMAIN c /\ c[k] = closing
  BY <1>8 DEF Echo!After
<1> HIDE DEF T
<1>10. <<o[k - 1], k>> \in Echo!Enclosed(c, a, b, opening, closing)
  BY <1>5, <1>7, <1>9 DEF Echo!Enclosed
<1> QED
  BY <1>4, <1>5, <1>10

\* As many are found as are opened, if and only if each that is opened is found.
OpenedIn(c, a, b, opening) == {i \in a..b : i \in DOMAIN c /\ c[i] \in opening}

LEMMA EachFound ==
  ASSUME NEW c, NEW a \in Nat \ {0}, NEW b \in Nat, NEW opening, NEW closing
  PROVE  Cardinality(Echo!Enclosed(c, a, b, opening, closing))
             = Cardinality(OpenedIn(c, a, b, opening))
           <=> \A i \in OpenedIn(c, a, b, opening) :
                 \E m \in Echo!Enclosed(c, a, b, opening, closing) : m[1] = i
<1> DEFINE E == Echo!Enclosed(c, a, b, opening, closing)
           o == Echo!Open(c, a, b, opening, closing)
           P == OpenedIn(c, a, b, opening)
           S == {m[1] : m \in E}
           f == [m \in E |-> m[1]]
<1>1. ASSUME NEW m \in E
      PROVE  m = <<m[1], m[2]>> /\ Match(o, c, a, b, opening, closing, m[1], m[2])
  BY MatchIs
<1> HIDE DEF E, o
<1>2. S \subseteq P
  BY <1>1 DEF Match, OpenedIn
<1>3. IsFiniteSet(P)
  <2>1. IsFiniteSet(a..b) /\ P \in SUBSET (a..b)
    BY FS_Interval DEF OpenedIn
  <2> QED
    BY <2>1, FS_Subset
<1>4. ASSUME NEW m \in E, NEW n \in E, m[1] = n[1], m[2] < n[2]
      PROVE  FALSE
  <2>1. /\ m[1] \in a..b /\ m[2] \in (m[1] + 1)..b /\ o[m[2]] = 0
        /\ n[2] \in (n[1] + 1)..b
        /\ \A r \in n[1]..(n[2] - 1) : o[r] = n[1]
    BY <1>1 DEF Match
  <2>2. m[2] \in n[1]..(n[2] - 1)
    BY <1>4, <2>1
  <2>3. o[m[2]] = m[1]
    BY <1>4, <2>1, <2>2
  <2> QED
    BY <2>1, <2>3
<1>5. ASSUME NEW m \in E, NEW n \in E, m[1] = n[1]
      PROVE  m = n
  <2>1. m[2] \in Int /\ n[2] \in Int
    BY <1>1 DEF Match
  <2>2. m[2] = n[2]
    BY <1>4, <1>5, <2>1
  <2> QED
    BY <1>1, <1>5, <2>2
<1>6. f \in Injection(E, S) /\ f \in Surjection(E, S)
  BY <1>5 DEF Injection, Surjection, IsInjective
<1> HIDE DEF f, P
<1>7. IsFiniteSet(S)
  <2> HIDE DEF S
  <2>1. S \in SUBSET P
    BY <1>2
  <2> QED
    BY <1>3, <2>1, FS_Subset
<1>8. Cardinality(E) = Cardinality(S)
  <2> HIDE DEF S
  <2> QED
    BY <1>6, <1>7, FS_Injection
<1>9. Cardinality(S) = Cardinality(P) <=> S = P
  <2> HIDE DEF S
  <2>1. S \in SUBSET P
    BY <1>2
  <2> QED
    BY <1>3, <2>1, FS_Subset
<1>10. S = P <=> \A i \in P : \E m \in E : m[1] = i
  BY <1>2
<1> HIDE DEF S
<1> QED
  BY <1>8, <1>9, <1>10 DEF E, P

\* The last place of a text, parts of which may be gone.
LEMMA LastPlace ==
  ASSUME NEW n \in Nat, NEW c, DOMAIN c \subseteq 1..n
  PROVE  /\ Echo!Max(DOMAIN c \cup {0}) \in Nat
         /\ DOMAIN c = 1..n => Echo!Max(DOMAIN c \cup {0}) = n
<1> DEFINE s == DOMAIN c \cup {0}
<1>1. \E x \in s : \A y \in s : x >= y
  <2>1. CASE DOMAIN c = {}
    BY <2>1
  <2>2. CASE DOMAIN c # {}
    <3> DEFINE d == DOMAIN c
    <3>1. Max(d) \in d /\ \A x \in d : x <= Max(d)
      BY <2>2, LargestOf
    <3> HIDE DEF d
    <3>2. d \subseteq 1..n /\ s = d \cup {0}
      BY DEF d
    <3>3. \A y \in s : Max(d) >= y
      BY <3>1, <3>2
    <3> QED
      BY <3>1, <3>2, <3>3
  <2> QED
    BY <2>1, <2>2
<1>2. Echo!Max(s) \in s /\ \A y \in s : Echo!Max(s) >= y
  BY <1>1 DEF Echo!Max
<1>3. s \subseteq 0..n /\ (DOMAIN c = 1..n => n \in s)
  OBVIOUS
<1> HIDE DEF s
<1>4. Echo!Max(s) \in 0..n
  BY <1>2, <1>3
<1>5. DOMAIN c = 1..n => Echo!Max(s) = n
  BY <1>2, <1>3, <1>4
<1> QED
  BY <1>4, <1>5 DEF s

\* The blocks of a whole text.
OpenBlock(c, n) == Echo!Open(c, 1, n, {"calls"}, "/calls")

LEMMA BlockIn ==
  ASSUME NEW n \in Nat, NEW c, DOMAIN c = 1..n
  PROVE  /\ Echo!Blocks(c) = Echo!Enclosed(c, 1, n, {"calls"}, "/calls")
         /\ \A m \in Echo!Blocks(c) :
              m = <<m[1], m[2]>> /\ Match(OpenBlock(c, n), c, 1, n, {"calls"}, "/calls", m[1], m[2])
<1>1. Echo!Blocks(c) = Echo!Enclosed(c, 1, n, {"calls"}, "/calls")
  BY LastPlace DEF Echo!Blocks
<1>2. ASSUME NEW m \in Echo!Blocks(c)
      PROVE  m = <<m[1], m[2]>> /\ Match(OpenBlock(c, n), c, 1, n, {"calls"}, "/calls", m[1], m[2])
  <2>1. m \in Echo!Enclosed(c, 1, n, {"calls"}, "/calls") /\ 1 \in Nat \ {0}
    BY <1>1
  <2> QED
    BY <2>1, MatchIs DEF OpenBlock
<1> QED
  BY <1>1, <1>2

\* A block that is open at a place and not at a later one, or not at the closing
\* tag of its own, stands around the place.
LEMMA BlockAround ==
  ASSUME NEW n \in Nat, NEW c, DOMAIN c = 1..n,
         NEW i \in 0..n, OpenBlock(c, n)[i] # 0,
         NEW j \in i..n, OpenBlock(c, n)[j] # OpenBlock(c, n)[i]
  PROVE  \E m \in Echo!Blocks(c) :
           /\ m[1] = OpenBlock(c, n)[i] /\ m[1] \in 1..i /\ m[2] \in (i + 1)..j
<1> DEFINE o == OpenBlock(c, n)
<1>1. o = Echo!Open(c, 1, n, {"calls"}, "/calls") /\ 1 \in Nat \ {0}
  BY DEF OpenBlock
<1> HIDE DEF o
<1>2. PICK k \in (i + 1)..j : <<o[i], k>> \in Echo!Enclosed(c, 1, n, {"calls"}, "/calls")
  <2>1. o[i] # 0 /\ o[j] # o[i]
    BY DEF o
  <2> QED
    BY <1>1, <2>1, TagCloses
<1>3. <<o[i], k>> \in Echo!Blocks(c)
  BY <1>2, BlockIn
<1>4. o[i] \in 1..i
  <2>1. Held(o, c, 1, n, {"calls"}, "/calls")
    BY <1>1, OpenIs, TagHeld
  <2> QED
    BY <2>1 DEF Held, o
<1> QED
  BY <1>2, <1>3, <1>4 DEF o

\* Outside of its blocks a text has no block.
LEMMA NothingLeft ==
  ASSUME NEW n \in Nat, NEW c, DOMAIN c = 1..n
  PROVE  Echo!Blocks(Echo!Outside(c, Echo!Blocks(c))) = {}
<1> DEFINE B == Echo!Blocks(c)
           K == {k \in 1..n : \A m \in B : k \notin m[1]..m[2]}
           L == Echo!Outside(c, B)
           o == OpenBlock(c, n)
<1>1. L = [k \in K |-> c[k]]
  BY DEF Echo!Outside, Echo!Restrict
<1> SUFFICES ASSUME NEW m \in Echo!Blocks(L)
             PROVE  FALSE
  BY DEF L, B
<1> HIDE DEF B, L, o
<1>2. DOMAIN L = K /\ \A k \in K : L[k] = c[k]
  BY <1>1
<1> DEFINE e == Echo!Max(DOMAIN L \cup {0})
<1>3. e \in Nat
  BY <1>2, LastPlace
<1> HIDE DEF e
<1>4. /\ m[1] \in K /\ m[2] \in K /\ m[1] < m[2]
      /\ L[m[1]] = "calls" /\ L[m[2]] = "/calls"
  <2>1. m \in Echo!Enclosed(L, 1, e, {"calls"}, "/calls") /\ 1 \in Nat \ {0}
    BY DEF Echo!Blocks, e
  <2> DEFINE p == Echo!Open(L, 1, e, {"calls"}, "/calls")
  <2>2. Match(p, L, 1, e, {"calls"}, "/calls", m[1], m[2])
    BY <1>3, <2>1, MatchIs
  <2> HIDE DEF p
  <2> QED
    BY <1>2, <1>3, <2>2 DEF Match
<1>5. PICK i \in K, j \in K : i < j /\ c[i] = "calls" /\ c[j] = "/calls"
  BY <1>2, <1>4
<1>6. i \in 1..n /\ j \in 1..n /\ (\A b \in B : i \notin b[1]..b[2]) /\ i \in 0..n /\ j \in i..n
  BY <1>5
<1>7. Opens(o, c, 1, n, {"calls"}, "/calls") /\ Held(o, c, 1, n, {"calls"}, "/calls")
  BY OpenIs, TagHeld DEF o, OpenBlock
<1>8. o[i] # 0
  <2>1. o[i] = Echo!After(c, o[i - 1], i, {"calls"}, "/calls")
    BY <1>6, <1>7 DEF Opens
  <2> QED
    BY <1>5, <1>6, <2>1 DEF Echo!After
<1>9. o[j] # o[i]
  <2> SUFFICES ASSUME o[j] = o[i]
               PROVE  FALSE
    OBVIOUS
  <2>1. j \in o[j]..j /\ j # o[j] /\ o[j] # 0
    BY <1>5, <1>6, <1>7, <1>8 DEF Held
  <2>2. j \in 0..n /\ j \in DOMAIN c
    BY <1>6
  <2> QED
    BY <1>5, <1>7, <2>1, <2>2 DEF Held
<1>10. \E b \in B : b[1] \in 1..i /\ b[2] \in (i + 1)..j
  BY <1>6, <1>8, <1>9, BlockAround DEF o, B
<1> QED
  BY <1>6, <1>10

\* What Extract says.
LEMMA ExtractIs ==
  ASSUME NEW c
  PROVE  /\ Echo!Extract(c).lifted <=>
              Echo!Blocks(c) # {} /\ \A m \in Echo!Blocks(c) : Echo!Whole(c, m)
         /\ Echo!Extract(c).lifted =>
              /\ Echo!Extract(c).leftover = Echo!Outside(c, Echo!Blocks(c))
              /\ Echo!Extract(c).calls =
                   {[at |-> v[1], params |-> Echo!ParamsOf(c, v)] :
                      v \in UNION {Echo!Invokes(c, b) : b \in Echo!Blocks(c)}}
BY DEF Echo!Extract, Echo!None

LEMMA OnceHolds ==
  ASSUME NEW n \in Nat, DOMAIN content = 1..n
  PROVE  Echo!LiftedOnce
<1> SUFFICES ASSUME Echo!Extract(content).lifted
             PROVE  ~Echo!Extract(Echo!Extract(content).leftover).lifted
  BY DEF Echo!LiftedOnce
<1>1. Echo!Extract(content).leftover = Echo!Outside(content, Echo!Blocks(content))
  BY ExtractIs
<1>2. Echo!Blocks(Echo!Extract(content).leftover) = {}
  BY <1>1, NothingLeft
<1> QED
  BY <1>2, ExtractIs

\* The tags inside of a pair of places.
OpenInvoke(c, m) == Echo!Open(c, m[1] + 1, m[2] - 1, {"invoke"}, "/invoke")
OpenParam(c, v) == Echo!Open(c, v[1] + 1, v[2] - 1, Echo!Params, "/param")

LEMMA InvokeIn ==
  ASSUME NEW c, NEW m, m[1] \in Nat, m[2] \in Nat, m[1] < m[2], NEW v \in Echo!Invokes(c, m)
  PROVE  /\ v = <<v[1], v[2]>> /\ v[1] \in Nat /\ v[2] \in Nat /\ v[1] < v[2]
         /\ Match(OpenInvoke(c, m), c, m[1] + 1, m[2] - 1, {"invoke"}, "/invoke", v[1], v[2])
<1> DEFINE a == m[1] + 1
           b == m[2] - 1
<1>1. a \in Nat \ {0} /\ b \in Nat
  OBVIOUS
<1>2. v \in Echo!Enclosed(c, a, b, {"invoke"}, "/invoke")
  BY DEF Echo!Invokes
<1>3. OpenInvoke(c, m) = Echo!Open(c, a, b, {"invoke"}, "/invoke")
  BY DEF OpenInvoke
<1> HIDE DEF a, b
<1>4. v = <<v[1], v[2]>> /\ Match(OpenInvoke(c, m), c, a, b, {"invoke"}, "/invoke", v[1], v[2])
  BY <1>1, <1>2, <1>3, MatchIs
<1>5. v[1] \in Nat /\ v[2] \in Nat /\ v[1] < v[2]
  BY <1>1, <1>4 DEF Match
<1> QED
  BY <1>4, <1>5 DEF a, b

LEMMA ParamIn ==
  ASSUME NEW c, NEW v, v[1] \in Nat, v[2] \in Nat, v[1] < v[2], NEW p \in Echo!ParamsOf(c, v)
  PROVE  p = <<p[1], p[2]>>
         /\ Match(OpenParam(c, v), c, v[1] + 1, v[2] - 1, Echo!Params, "/param", p[1], p[2])
<1> DEFINE a == v[1] + 1
           b == v[2] - 1
<1>1. a \in Nat \ {0} /\ b \in Nat
  OBVIOUS
<1>2. p \in Echo!Enclosed(c, a, b, Echo!Params, "/param")
  BY DEF Echo!ParamsOf
<1>3. OpenParam(c, v) = Echo!Open(c, a, b, Echo!Params, "/param")
  BY DEF OpenParam
<1> HIDE DEF a, b
<1>4. p = <<p[1], p[2]>> /\ Match(OpenParam(c, v), c, a, b, Echo!Params, "/param", p[1], p[2])
  BY <1>1, <1>2, <1>3, MatchIs
<1> QED
  BY <1>4 DEF a, b

\* A block is whole if each tag opened in it is found.
EachIn(c, m, tags, found) ==
  \A i \in (m[1] + 1)..(m[2] - 1) : i \in DOMAIN c /\ c[i] \in tags => \E v \in found : v[1] = i

LEMMA WholeIs ==
  ASSUME NEW c, NEW m, m[1] \in Nat, m[2] \in Nat, m[1] < m[2]
  PROVE  Echo!Whole(c, m) <=>
           /\ Echo!Invokes(c, m) # {}
           /\ EachIn(c, m, {"invoke"}, Echo!Invokes(c, m))
           /\ \A v \in Echo!Invokes(c, m) :
                /\ EachIn(c, v, Echo!Params, Echo!ParamsOf(c, v))
                /\ \A p \in Echo!ParamsOf(c, v) : c[p[1]] # "badparam"
<1>1. Echo!Cardinality(Echo!Invokes(c, m)) = Echo!Cardinality(Echo!Opened(c, m, {"invoke"}))
        <=> EachIn(c, m, {"invoke"}, Echo!Invokes(c, m))
  <2> DEFINE a == m[1] + 1
             b == m[2] - 1
  <2>1. a \in Nat \ {0} /\ b \in Nat
    OBVIOUS
  <2>2. /\ Echo!Invokes(c, m) = Echo!Enclosed(c, a, b, {"invoke"}, "/invoke")
        /\ Echo!Opened(c, m, {"invoke"}) = OpenedIn(c, a, b, {"invoke"})
        /\ EachIn(c, m, {"invoke"}, Echo!Invokes(c, m)) <=>
             \A i \in OpenedIn(c, a, b, {"invoke"}) : \E v \in Echo!Invokes(c, m) : v[1] = i
    BY DEF Echo!Invokes, Echo!Opened, OpenedIn, EachIn
  <2> HIDE DEF a, b
  <2>3. Cardinality(Echo!Enclosed(c, a, b, {"invoke"}, "/invoke"))
              = Cardinality(OpenedIn(c, a, b, {"invoke"}))
          <=> \A i \in OpenedIn(c, a, b, {"invoke"}) :
                \E v \in Echo!Enclosed(c, a, b, {"invoke"}, "/invoke") : v[1] = i
    BY <2>1, EachFound
  <2>4. \A R : Echo!Cardinality(R) = Cardinality(R)
    BY DEF Echo!Cardinality, Cardinality
  <2> QED
    BY <2>2, <2>3, <2>4
<1>2. ASSUME NEW v \in Echo!Invokes(c, m)
      PROVE  Echo!Cardinality(Echo!ParamsOf(c, v)) = Echo!Cardinality(Echo!Opened(c, v, Echo!Params))
               <=> EachIn(c, v, Echo!Params, Echo!ParamsOf(c, v))
  <2> DEFINE a == v[1] + 1
             b == v[2] - 1
             tags == Echo!Params
  <2>1. a \in Nat \ {0} /\ b \in Nat
    BY InvokeIn
  <2> HIDE DEF tags
  <2>2. /\ Echo!ParamsOf(c, v) = Echo!Enclosed(c, a, b, tags, "/param")
        /\ Echo!Opened(c, v, tags) = OpenedIn(c, a, b, tags)
        /\ EachIn(c, v, tags, Echo!ParamsOf(c, v)) <=>
             \A i \in OpenedIn(c, a, b, tags) : \E p \in Echo!ParamsOf(c, v) : p[1] = i
    BY DEF Echo!ParamsOf, Echo!Opened, OpenedIn, EachIn, tags
  <2> HIDE DEF a, b
  <2>3. Cardinality(Echo!Enclosed(c, a, b, tags, "/param"))
              = Cardinality(OpenedIn(c, a, b, tags))
          <=> \A i \in OpenedIn(c, a, b, tags) :
                \E p \in Echo!Enclosed(c, a, b, tags, "/param") : p[1] = i
    BY <2>1, EachFound
  <2>4. \A R : Echo!Cardinality(R) = Cardinality(R)
    BY DEF Echo!Cardinality, Cardinality
  <2> QED
    BY <2>2, <2>3, <2>4 DEF tags
<1> QED
  BY <1>1, <1>2 DEF Echo!Whole

\* A tag that is found is closed before another of its kind opens.
LEMMA FoundApart ==
  ASSUME NEW c, NEW a \in Nat \ {0}, NEW b \in Nat, NEW opening, NEW closing,
         NEW o, NEW i, NEW j, Match(o, c, a, b, opening, closing, i, j),
         NEW k \in (i + 1)..(j - 1), k \in DOMAIN c,
         NEW m \in Echo!Enclosed(c, a, b, opening, closing), m[1] = k,
         o = Echo!Open(c, a, b, opening, closing)
  PROVE  FALSE
<1>1. Match(o, c, a, b, opening, closing, k, m[2])
  BY MatchIs
<1>2. k \in a..b /\ m[2] \in (k + 1)..b /\ \A r \in k..(m[2] - 1) : o[r] = k
  BY <1>1 DEF Match
<1>3. o[k] = k
  BY <1>2
<1>4. i \in a..b /\ j \in (i + 1)..b /\ \A r \in i..(j - 1) : o[r] = i
  BY DEF Match
<1>5. o[k] = i
  BY <1>4
<1> QED
  BY <1>3, <1>4, <1>5

LEMMA GuessedHolds ==
  ASSUME NEW n \in Nat, DOMAIN content = 1..n
  PROVE  Echo!NothingGuessed
<1> DEFINE c == content
           Before(i, m, closing, others) ==
             \E j \in (i + 1)..m[2] :
               c[j] = closing /\ \A k \in (i + 1)..(j - 1) : c[k] \notin others
           Inside(i, m) == \E k \in m[1]..i : c[k] = "invoke" /\ \A l \in k..i : c[l] # "/invoke"
<1> SUFFICES ASSUME Echo!Extract(c).lifted, NEW m \in Echo!Blocks(c), NEW i \in m[1]..m[2]
             PROVE  /\ c[i] = "invoke" =>
                         /\ Before(i, m, "/invoke", {"invoke"})
                         /\ \E call \in Echo!Extract(c).calls : call.at = i
                    /\ c[i] = "param" /\ Inside(i, m) =>
                         Before(i, m, "/param", Echo!Params \cup {"/invoke"})
  BY DEF Echo!NothingGuessed
<1>1. /\ m[1] \in 1..n /\ m[2] \in (m[1] + 1)..n /\ c[m[1]] = "calls" /\ c[m[2]] = "/calls"
      /\ m[1] \in Nat /\ m[2] \in Nat /\ m[1] < m[2]
  <2>1. Match(OpenBlock(c, n), c, 1, n, {"calls"}, "/calls", m[1], m[2])
    BY BlockIn
  <2> QED
    BY <2>1 DEF Match
<1>2. Echo!Whole(c, m)
  BY ExtractIs
<1>3. /\ EachIn(c, m, {"invoke"}, Echo!Invokes(c, m))
      /\ \A v \in Echo!Invokes(c, m) : EachIn(c, v, Echo!Params, Echo!ParamsOf(c, v))
  BY <1>1, <1>2, WholeIs
\* An invocation of the block.
<1>4. ASSUME NEW k \in m[1]..m[2], c[k] = "invoke"
      PROVE  /\ k \in (m[1] + 1)..(m[2] - 1)
             /\ \E v \in Echo!Invokes(c, m) :
                  /\ v[1] = k /\ v[2] \in (k + 1)..(m[2] - 1) /\ c[v[2]] = "/invoke"
                  /\ \A r \in (k + 1)..(v[2] - 1) : c[r] \notin {"invoke", "/invoke"}
  <2>1. k \in (m[1] + 1)..(m[2] - 1) /\ k \in DOMAIN c
    BY <1>1, <1>4
  <2>2. PICK v \in Echo!Invokes(c, m) : v[1] = k
    BY <1>3, <1>4, <2>1 DEF EachIn
  <2> DEFINE a == m[1] + 1
             b == m[2] - 1
  <2>3. Match(OpenInvoke(c, m), c, a, b, {"invoke"}, "/invoke", k, v[2])
    BY <1>1, <2>2, InvokeIn
  <2>4. a \in Nat \ {0} /\ b \in Nat /\ b <= n /\ a >= 1
    BY <1>1
  <2>5. OpenInvoke(c, m) = Echo!Open(c, a, b, {"invoke"}, "/invoke")
        /\ Echo!Invokes(c, m) = Echo!Enclosed(c, a, b, {"invoke"}, "/invoke")
    BY DEF OpenInvoke, Echo!Invokes
  <2>6. EachIn(c, m, {"invoke"}, Echo!Invokes(c, m)) =>
          \A r \in a..b : r \in DOMAIN c /\ c[r] = "invoke" =>
            \E w \in Echo!Invokes(c, m) : w[1] = r
    BY DEF EachIn
  <2> HIDE DEF a, b
  <2>7. /\ k \in a..b /\ v[2] \in (k + 1)..b /\ c[v[2]] = "/invoke"
        /\ \A r \in k..(v[2] - 1) : r # k /\ r \in DOMAIN c => c[r] # "/invoke"
    BY <2>3 DEF Match
  <2>8. ASSUME NEW r \in (k + 1)..(v[2] - 1)
        PROVE  c[r] \notin {"invoke", "/invoke"}
    <3>1. r \in a..b /\ r \in DOMAIN c /\ r \in k..(v[2] - 1) /\ r # k
      BY <2>4, <2>7
    <3>2. c[r] # "invoke"
      <4> SUFFICES ASSUME c[r] = "invoke"
                   PROVE  FALSE
        OBVIOUS
      <4>1. PICK w \in Echo!Invokes(c, m) : w[1] = r
        BY <1>3, <2>6, <3>1
      <4> QED
        BY <2>3, <2>4, <2>5, <3>1, <4>1, FoundApart
    <3> QED
      BY <2>7, <3>1, <3>2
  <2> QED
    BY <2>1, <2>2, <2>7, <2>8 DEF b
<1>5. ASSUME c[i] = "invoke"
      PROVE  /\ Before(i, m, "/invoke", {"invoke"})
             /\ \E call \in Echo!Extract(c).calls : call.at = i
  <2>1. PICK v \in Echo!Invokes(c, m) :
          /\ v[1] = i /\ v[2] \in (i + 1)..(m[2] - 1) /\ c[v[2]] = "/invoke"
          /\ \A r \in (i + 1)..(v[2] - 1) : c[r] \notin {"invoke", "/invoke"}
    BY <1>4, <1>5
  <2>2. v[2] \in (i + 1)..m[2]
    BY <1>1, <2>1
  <2>3. [at |-> v[1], params |-> Echo!ParamsOf(c, v)] \in Echo!Extract(c).calls
    BY ExtractIs
  <2> QED
    BY <2>1, <2>2, <2>3
<1>6. ASSUME c[i] = "param", Inside(i, m)
      PROVE  Before(i, m, "/param", Echo!Params \cup {"/invoke"})
  <2>1. PICK k \in m[1]..i : c[k] = "invoke" /\ \A l \in k..i : c[l] # "/invoke"
    BY <1>6
  <2>2. k \in m[1]..m[2] /\ k # i
    BY <1>1, <1>6, <2>1
  <2>3. PICK v \in Echo!Invokes(c, m) :
          /\ v[1] = k /\ v[2] \in (k + 1)..(m[2] - 1) /\ c[v[2]] = "/invoke"
          /\ \A r \in (k + 1)..(v[2] - 1) : c[r] \notin {"invoke", "/invoke"}
    BY <1>4, <2>1, <2>2
  <2> DEFINE a == v[1] + 1
             b == v[2] - 1
  <2>4. i \in a..b /\ i \in DOMAIN c /\ c[i] \in Echo!Params
    <3>1. ~(v[2] <= i)
      BY <1>1, <2>1, <2>3
    <3>2. i \in 1..n /\ i > k /\ v[1] = k /\ v[2] \in Int /\ k \in Int
      BY <1>1, <2>1, <2>2, <2>3
    <3>3. i \in a..b
      BY <3>1, <3>2
    <3> QED
      BY <1>6, <3>2, <3>3 DEF Echo!Params
  <2>5. EachIn(c, v, Echo!Params, Echo!ParamsOf(c, v)) =>
          \A r \in a..b : r \in DOMAIN c /\ c[r] \in Echo!Params =>
            \E w \in Echo!ParamsOf(c, v) : w[1] = r
    BY DEF EachIn
  <2>6. PICK p \in Echo!ParamsOf(c, v) : p[1] = i
    BY <1>3, <2>4, <2>5
  <2>7. v[1] \in Nat /\ v[2] \in Nat /\ v[1] < v[2]
    BY <1>1, InvokeIn
  <2>8. Match(OpenParam(c, v), c, a, b, Echo!Params, "/param", i, p[2])
    BY <2>6, <2>7, ParamIn
  <2>9. OpenParam(c, v) = Echo!Open(c, a, b, Echo!Params, "/param")
        /\ Echo!ParamsOf(c, v) = Echo!Enclosed(c, a, b, Echo!Params, "/param")
    BY DEF OpenParam, Echo!ParamsOf
  <2>10. a \in Nat \ {0} /\ b \in Nat /\ a = k + 1 /\ b = v[2] - 1 /\ b < m[2] /\ m[2] <= n
         /\ k >= 1
    BY <1>1, <2>1, <2>3, <2>7
  <2> HIDE DEF a, b
  <2>11. p[2] \in (i + 1)..b /\ c[p[2]] = "/param"
    BY <2>8 DEF Match
  <2>12. ASSUME NEW r \in (i + 1)..(p[2] - 1)
         PROVE  c[r] \notin Echo!Params \cup {"/invoke"}
    <3>1. r \in a..b /\ r \in 1..n /\ r \in (k + 1)..(v[2] - 1)
      BY <1>1, <2>3, <2>4, <2>7, <2>10, <2>11
    <3>2. c[r] # "/invoke"
      BY <2>3, <3>1
    <3>3. c[r] \notin Echo!Params
      <4> SUFFICES ASSUME c[r] \in Echo!Params
                   PROVE  FALSE
        OBVIOUS
      <4>1. PICK w \in Echo!ParamsOf(c, v) : w[1] = r
        BY <1>3, <2>5, <3>1
      <4>2. r \in DOMAIN c
        BY <3>1
      <4> QED
        BY <2>8, <2>9, <2>10, <4>1, <4>2, FoundApart
    <3> QED
      BY <3>2, <3>3
  <2>13. p[2] \in (i + 1)..m[2]
    BY <1>1, <2>4, <2>10, <2>11
  <2> QED
    BY <2>11, <2>12, <2>13
<1> QED
  BY <1>5, <1>6

\* The places where the tags of a text nest.
Levels == {"out", "empty", "block", "invoke", "param"}

LevelStep(x, tag, y) ==
  \/ tag = "word" /\ y = x
  \/ tag = "calls" /\ x = "out" /\ y = "empty"
  \/ tag = "invoke" /\ x \in {"empty", "block"} /\ y = "invoke"
  \/ tag = "/calls" /\ x = "block" /\ y = "out"
  \/ tag = "param" /\ x = "invoke" /\ y = "param"
  \/ tag = "/invoke" /\ x = "invoke" /\ y = "block"
  \/ tag = "/param" /\ x = "param" /\ y = "invoke"

LEMMA MoveIs ==
  ASSUME NEW x \in Levels \cup {"wrong"}, NEW tag
  PROVE  /\ Echo!Move(x, tag) \in Levels \cup {"wrong"}
         /\ x = "wrong" => Echo!Move(x, tag) = "wrong"
         /\ x # "wrong" /\ Echo!Move(x, tag) # "wrong" => LevelStep(x, tag, Echo!Move(x, tag))
BY DEF Echo!Move, LevelStep, Levels

\* The tags of c nest, and l is where each of them leads.
Nests(l, c, n) ==
  /\ l[0] = "out" /\ l[n] = "out"
  /\ \A k \in 0..n : l[k] \in Levels
  /\ \A k \in 1..n : LevelStep(l[k - 1], c[k], l[k])

LevelEq(l, c, n) == l = [k \in 0..n |-> IF k = 0 THEN "out" ELSE Echo!Move(l[k - 1], c[k])]

LEMMA LevelExists ==
  ASSUME NEW c, NEW n \in Nat
  PROVE  \E l : LevelEq(l, c, n)
<1> DEFINE T == {k \in Nat : ~\E l : LevelEq(l, c, k)}
<1> SUFFICES ASSUME T # {}
             PROVE  FALSE
  OBVIOUS
<1>1. PICK k \in T : \A m \in T : k <= m
  BY LeastNatural
<1>2. CASE k = 0
  <2> DEFINE l == [j \in 0..0 |-> "out"]
  <2>1. LevelEq(l, c, 0)
    BY DEF LevelEq
  <2> HIDE DEF l
  <2> QED
    BY <1>1, <1>2, <2>1
<1>3. CASE k # 0
  <2>1. k - 1 \in Nat /\ k - 1 \notin T
    BY <1>1, <1>3
  <2>2. PICK e : LevelEq(e, c, k - 1)
    BY <2>1
  <2>3. \A j \in 0..(k - 1) : e[j] = IF j = 0 THEN "out" ELSE Echo!Move(e[j - 1], c[j])
    <3>1. e = [j \in 0..(k - 1) |-> IF j = 0 THEN "out" ELSE Echo!Move(e[j - 1], c[j])]
      BY <2>2 DEF LevelEq
    <3> QED
      BY <3>1
  <2> DEFINE last == Echo!Move(e[k - 1], c[k])
             l == [j \in 0..k |-> IF j = k THEN last ELSE e[j]]
  <2>4. \A j \in 0..k : l[j] = IF j = k THEN last ELSE e[j]
    OBVIOUS
  <2> HIDE DEF last, l
  <2>5. \A j \in 0..k : l[j] = IF j = 0 THEN "out" ELSE Echo!Move(l[j - 1], c[j])
    <3> TAKE j \in 0..k
    <3>1. CASE j = 0
      BY <1>3, <2>1, <2>3, <2>4, <3>1
    <3>2. CASE j # 0
      <4>1. j - 1 \in 0..k /\ j - 1 # k /\ j - 1 \in 0..(k - 1)
        BY <3>2
      <4>2. l[j - 1] = e[j - 1]
        BY <2>4, <4>1
      <4>3. CASE j = k
        BY <2>4, <3>2, <4>2, <4>3 DEF last
      <4>4. CASE j # k
        <5>1. j \in 0..(k - 1)
          BY <4>4, <1>1
        <5> QED
          BY <2>3, <2>4, <3>2, <4>2, <4>4, <5>1
      <4> QED
        BY <4>3, <4>4
    <3> QED
      BY <3>1, <3>2
  <2>6. l = [j \in 0..k |-> IF j = 0 THEN "out" ELSE Echo!Move(l[j - 1], c[j])]
    BY <2>5 DEF l
  <2>7. LevelEq(l, c, k)
    BY <2>6 DEF LevelEq
  <2> QED
    BY <1>1, <2>7
<1> QED
  BY <1>2, <1>3

\* A text whose tags nest never goes wrong: what is wrong stays wrong.
LEMMA NestsAlways ==
  ASSUME NEW n \in Nat, NEW c, Len(c) = n, Echo!Nested(c)
  PROVE  Nests(Echo!Level(c), c, n)
<1> DEFINE l == Echo!Level(c)
<1>1. l = CHOOSE g : LevelEq(g, c, n)
  BY DEF Echo!Level, LevelEq
<1>2. LevelEq(l, c, n)
  BY <1>1, LevelExists
<1>3. l[n] = "out"
  BY DEF Echo!Nested
<1> HIDE DEF l
<1>4. \A k \in 0..n : l[k] = IF k = 0 THEN "out" ELSE Echo!Move(l[k - 1], c[k])
  <2>1. l = [k \in 0..n |-> IF k = 0 THEN "out" ELSE Echo!Move(l[k - 1], c[k])]
    BY <1>2 DEF LevelEq
  <2> QED
    BY <2>1
<1>5. \A k \in 0..n : l[k] \in Levels \cup {"wrong"}
  <2> DEFINE T == {k \in 0..n : l[k] \notin Levels \cup {"wrong"}}
  <2> SUFFICES ASSUME T # {}
               PROVE  FALSE
    OBVIOUS
  <2>1. PICK k \in T : \A m \in T : k <= m
    BY LeastNatural, T \subseteq Nat
  <2>2. k # 0
    BY <1>4, <2>1 DEF Levels
  <2>3. k - 1 \in 0..n /\ k - 1 \notin T
    BY <2>1, <2>2
  <2>4. l[k - 1] \in Levels \cup {"wrong"} /\ l[k] = Echo!Move(l[k - 1], c[k])
    BY <1>4, <2>1, <2>2, <2>3
  <2> QED
    BY <2>1, <2>4, MoveIs
<1>6. \A k \in 0..n : l[k] # "wrong"
  <2> SUFFICES ASSUME NEW k \in 0..n, l[k] = "wrong"
               PROVE  FALSE
    OBVIOUS
  <2> DEFINE T == {j \in k..n : l[j] # "wrong"}
  <2>1. T \subseteq Nat /\ n \in T
    BY <1>3
  <2>2. PICK j \in T : \A m \in T : j <= m
    BY <2>1, LeastNatural
  <2>3. j # k /\ j - 1 \in k..n /\ j - 1 \notin T
    BY <2>2
  <2>4. l[j - 1] = "wrong" /\ l[j] = Echo!Move(l[j - 1], c[j])
    BY <1>4, <2>2, <2>3
  <2> QED
    BY <2>2, <2>4, MoveIs
<1>7. \A k \in 0..n : l[k] \in Levels
  BY <1>5, <1>6
<1>8. ASSUME NEW k \in 1..n
      PROVE  LevelStep(l[k - 1], c[k], l[k])
  <2>1. k - 1 \in 0..n /\ k \in 0..n
    OBVIOUS
  <2>2. l[k] = Echo!Move(l[k - 1], c[k]) /\ l[k] # "wrong" /\ l[k - 1] # "wrong"
        /\ l[k - 1] \in Levels \cup {"wrong"}
    BY <1>4, <1>6, <1>7, <2>1
  <2> QED
    BY <2>2, MoveIs
<1>9. l[0] = "out"
  BY <1>4
<1> QED
  BY <1>3, <1>7, <1>8, <1>9 DEF Nests, l

\* Between a and b the opening tags lead inside and the closing tags around again.
Fits(l, c, a, b, opening, closing, inside, around) ==
  /\ inside \cap around = {}
  /\ a - 1 <= b => l[a - 1] \in around /\ l[b] \in around
  /\ \A k \in a..b :
       /\ l[k] \in inside \cup around
       /\ l[k - 1] \in inside => (l[k] \in around <=> c[k] = closing)
       /\ l[k - 1] \in around => (l[k] \in inside <=> c[k] \in opening)
       /\ c[k] \in opening => l[k - 1] \in around

\* Then a tag is open where the level is inside, and each that is opened is found.
LEMMA TagLevels ==
  ASSUME NEW n \in Nat, NEW c, DOMAIN c = 1..n, NEW l,
         NEW a \in Nat \ {0}, NEW b \in Nat, b <= n, NEW opening, NEW closing,
         NEW o, o = Echo!Open(c, a, b, opening, closing),
         NEW inside, NEW around, Fits(l, c, a, b, opening, closing, inside, around)
  PROVE  \A k \in (a - 1)..b : o[k] # 0 <=> l[k] \in inside
<1> DEFINE T == {k \in (a - 1)..b : ~(o[k] # 0 <=> l[k] \in inside)}
<1> SUFFICES ASSUME T # {}
             PROVE  FALSE
  OBVIOUS
<1>1. PICK k \in T : \A m \in T : k <= m
  BY LeastNatural, T \subseteq Nat
<1>2. Opens(o, c, a, b, opening, closing)
  BY OpenIs
<1>3. CASE k = a - 1
  <2>1. o[k] = 0
    BY <1>2, <1>3, <1>1 DEF Opens
  <2>2. l[k] \notin inside
    BY <1>1, <1>3 DEF Fits
  <2> QED
    BY <1>1, <2>1, <2>2
<1>4. CASE k # a - 1
  <2>1. k \in a..b /\ k - 1 \in (a - 1)..b /\ k - 1 \notin T /\ k \in 0..b /\ ~(k < a)
    BY <1>1, <1>4
  <2>2. o[k - 1] # 0 <=> l[k - 1] \in inside
    BY <2>1
  <2>3. o[k] = Echo!After(c, o[k - 1], k, opening, closing)
    BY <1>2, <2>1 DEF Opens
  <2>4. k \in DOMAIN c /\ k # 0
    BY <2>1
  <2>5. l[k - 1] \in inside \cup around
    <3>1. CASE k = a
      BY <2>1, <3>1 DEF Fits
    <3>2. CASE k # a
      <4>1. k - 1 \in a..b
        BY <2>1, <3>2
      <4> QED
        BY <4>1 DEF Fits
    <3> QED
      BY <3>1, <3>2
  <2>6. /\ inside \cap around = {} /\ l[k] \in inside \cup around
        /\ l[k - 1] \in inside => (l[k] \in around <=> c[k] = closing)
        /\ l[k - 1] \in around => (l[k] \in inside <=> c[k] \in opening)
    BY <2>1 DEF Fits
  <2>7. o[k] # 0 <=> l[k] \in inside
    <3>1. CASE o[k - 1] # 0
      <4>1. o[k] = 0 <=> c[k] = closing
        BY <2>3, <2>4, <3>1 DEF Echo!After
      <4> QED
        BY <2>2, <2>6, <3>1, <4>1
    <3>2. CASE o[k - 1] = 0
      <4>1. o[k] # 0 <=> c[k] \in opening
        BY <2>3, <2>4, <3>2 DEF Echo!After
      <4> QED
        BY <2>2, <2>5, <2>6, <3>2, <4>1
    <3> QED
      BY <3>1, <3>2
  <2> QED
    BY <1>1, <2>7
<1> QED
  BY <1>3, <1>4

LEMMA TagFound ==
  ASSUME NEW n \in Nat, NEW c, DOMAIN c = 1..n, NEW l,
         NEW a \in Nat \ {0}, NEW b \in Nat, b <= n, NEW opening, NEW closing,
         NEW inside, NEW around, Fits(l, c, a, b, opening, closing, inside, around),
         NEW i \in a..b, c[i] \in opening
  PROVE  \E m \in Echo!Enclosed(c, a, b, opening, closing) : m[1] = i
<1> DEFINE o == Echo!Open(c, a, b, opening, closing)
<1>1. \A k \in (a - 1)..b : o[k] # 0 <=> l[k] \in inside
  BY TagLevels
<1>2. Opens(o, c, a, b, opening, closing)
  BY OpenIs
<1>3. TRUE /\ i - 1 \in (a - 1)..b /\ i \in 0..b /\ ~(i < a) /\ i \in DOMAIN c /\ b \in (a - 1)..b /\ b \in i..b
  OBVIOUS
<1>4. l[i - 1] \notin inside /\ l[b] \notin inside
  BY <1>3 DEF Fits
<1>5. o[i - 1] = 0 /\ o[b] = 0
  BY <1>1, <1>3, <1>4
<1>6. o[i] = i
  BY <1>2, <1>3, <1>5 DEF Opens, Echo!After
<1>7. i # 0
  OBVIOUS
<1>8. PICK k \in (i + 1)..b : <<o[i], k>> \in Echo!Enclosed(c, a, b, opening, closing)
  <2>1. o[i] # 0 /\ o[b] # o[i]
    BY <1>5, <1>6, <1>7
  <2> HIDE DEF o
  <2>2. o = Echo!Open(c, a, b, opening, closing)
    BY DEF o
  <2> QED
    BY <1>3, <2>1, <2>2, TagCloses
<1> HIDE DEF o
<1> QED
  BY <1>6, <1>8

\* The levels of a text that nests fit its three kinds of tags.
InBlock == {"empty", "block", "invoke", "param"}

LEMMA BlocksFit ==
  ASSUME NEW n \in Nat, NEW c, NEW l, Nests(l, c, n)
  PROVE  Fits(l, c, 1, n, {"calls"}, "/calls", InBlock, {"out"})
<1>1. l[0] = "out" /\ l[n] = "out"
  BY DEF Nests
<1>2. ASSUME NEW k \in 1..n
      PROVE  /\ l[k] \in InBlock \cup {"out"}
             /\ l[k - 1] \in InBlock => (l[k] \in {"out"} <=> c[k] = "/calls")
             /\ l[k - 1] \in {"out"} => (l[k] \in InBlock <=> c[k] \in {"calls"})
             /\ c[k] \in {"calls"} => l[k - 1] \in {"out"}
  <2>1. LevelStep(l[k - 1], c[k], l[k]) /\ l[k] \in Levels
    BY DEF Nests
  <2> QED
    BY <2>1 DEF LevelStep, Levels, InBlock
<1> QED
  BY <1>1, <1>2 DEF Fits, InBlock

\* The levels of a block.
LEMMA BlockLevels ==
  ASSUME NEW n \in Nat, NEW c, DOMAIN c = 1..n, NEW l, Nests(l, c, n), NEW m \in Echo!Blocks(c)
  PROVE  /\ m[1] \in 1..n /\ m[2] \in (m[1] + 1)..n /\ m[1] \in Nat /\ m[2] \in Nat /\ m[1] < m[2]
         /\ c[m[1]] = "calls" /\ c[m[2]] = "/calls"
         /\ l[m[1]] = "empty" /\ l[m[2] - 1] = "block" /\ l[m[2]] = "out"
         /\ \A k \in m[1]..(m[2] - 1) : l[k] \in InBlock
<1> DEFINE o == OpenBlock(c, n)
<1>1. Match(o, c, 1, n, {"calls"}, "/calls", m[1], m[2])
  BY BlockIn
<1>2. \A k \in 0..n : o[k] # 0 <=> l[k] \in InBlock
  <2>1. \A k \in (1 - 1)..n : o[k] # 0 <=> l[k] \in InBlock
    BY BlocksFit, TagLevels DEF OpenBlock
  <2> QED
    BY <2>1
<1> HIDE DEF o
<1>3. /\ m[1] \in 1..n /\ m[2] \in (m[1] + 1)..n /\ c[m[1]] = "calls" /\ c[m[2]] = "/calls"
      /\ \A r \in m[1]..(m[2] - 1) : o[r] = m[1]
  BY <1>1 DEF Match
<1>4. m[1] \in Nat /\ m[2] \in Nat /\ m[1] < m[2] /\ m[2] \in 1..n
  BY <1>3
<1>5. ASSUME NEW k \in m[1]..(m[2] - 1)
      PROVE  l[k] \in InBlock
  <2>1. k \in 0..n /\ o[k] # 0
    BY <1>3, <1>4
  <2> QED
    BY <1>2, <2>1
<1>6. LevelStep(l[m[1] - 1], c[m[1]], l[m[1]]) /\ LevelStep(l[m[2] - 1], c[m[2]], l[m[2]])
  BY <1>3, <1>4 DEF Nests
<1>7. l[m[1]] = "empty" /\ l[m[2] - 1] = "block" /\ l[m[2]] = "out"
  BY <1>3, <1>6 DEF LevelStep
<1> QED
  BY <1>3, <1>4, <1>5, <1>7

LEMMA InvokesFit ==
  ASSUME NEW n \in Nat, NEW c, DOMAIN c = 1..n, NEW l, Nests(l, c, n), NEW m \in Echo!Blocks(c)
  PROVE  Fits(l, c, m[1] + 1, m[2] - 1, {"invoke"}, "/invoke", {"invoke", "param"}, {"empty", "block"})
<1>1. /\ m[1] \in 1..n /\ m[2] \in (m[1] + 1)..n /\ m[1] \in Nat /\ m[2] \in Nat /\ m[1] < m[2]
      /\ l[m[1]] = "empty" /\ l[m[2] - 1] = "block"
      /\ \A k \in m[1]..(m[2] - 1) : l[k] \in InBlock
  BY BlockLevels
<1>2. ASSUME NEW k \in (m[1] + 1)..(m[2] - 1)
      PROVE  /\ l[k] \in {"invoke", "param"} \cup {"empty", "block"}
             /\ l[k - 1] \in {"invoke", "param"} => (l[k] \in {"empty", "block"} <=> c[k] = "/invoke")
             /\ l[k - 1] \in {"empty", "block"} => (l[k] \in {"invoke", "param"} <=> c[k] \in {"invoke"})
             /\ c[k] \in {"invoke"} => l[k - 1] \in {"empty", "block"}
  <2>1. k \in 1..n /\ k \in m[1]..(m[2] - 1) /\ k - 1 \in m[1]..(m[2] - 1)
    BY <1>1
  <2>2. LevelStep(l[k - 1], c[k], l[k]) /\ l[k] \in InBlock /\ l[k - 1] \in InBlock
    BY <1>1, <2>1 DEF Nests
  <2> QED
    BY <2>2 DEF LevelStep, InBlock
<1>3. l[(m[1] + 1) - 1] \in {"empty", "block"} /\ l[m[2] - 1] \in {"empty", "block"}
  <2>1. (m[1] + 1) - 1 = m[1]
    BY <1>1
  <2> QED
    BY <1>1, <2>1
<1> QED
  BY <1>2, <1>3 DEF Fits

\* The levels of an invocation.
LEMMA InvokeLevels ==
  ASSUME NEW n \in Nat, NEW c, DOMAIN c = 1..n, NEW l, Nests(l, c, n), NEW m \in Echo!Blocks(c),
         NEW v \in Echo!Invokes(c, m)
  PROVE  /\ v[1] \in (m[1] + 1)..(m[2] - 1) /\ v[2] \in (v[1] + 1)..(m[2] - 1)
         /\ v[1] \in 1..n /\ v[2] \in (v[1] + 1)..n /\ v[1] \in Nat /\ v[2] \in Nat /\ v[1] < v[2]
         /\ c[v[1]] = "invoke" /\ c[v[2]] = "/invoke"
         /\ l[v[1]] = "invoke" /\ l[v[2] - 1] = "invoke"
         /\ \A k \in v[1]..(v[2] - 1) : l[k] \in {"invoke", "param"} /\ c[k] # "/invoke"
<1>1. /\ m[1] \in 1..n /\ m[2] \in (m[1] + 1)..n /\ m[1] \in Nat /\ m[2] \in Nat /\ m[1] < m[2]
  BY BlockLevels
<1> DEFINE o == OpenInvoke(c, m)
           a == m[1] + 1
           b == m[2] - 1
<1>2. /\ v[1] \in Nat /\ v[2] \in Nat /\ v[1] < v[2]
      /\ Match(o, c, a, b, {"invoke"}, "/invoke", v[1], v[2])
  BY <1>1, InvokeIn
<1>3. o = Echo!Open(c, a, b, {"invoke"}, "/invoke")
      /\ Fits(l, c, a, b, {"invoke"}, "/invoke", {"invoke", "param"}, {"empty", "block"})
      /\ a \in Nat \ {0} /\ b \in Nat /\ b <= n /\ a - 1 \in Nat /\ a = m[1] + 1 /\ b = m[2] - 1
  BY <1>1, InvokesFit DEF OpenInvoke
<1> HIDE DEF o, a, b
<1>4. \A k \in (a - 1)..b : o[k] # 0 <=> l[k] \in {"invoke", "param"}
  BY <1>3, TagLevels
<1>5. /\ v[1] \in a..b /\ v[2] \in (v[1] + 1)..b /\ c[v[1]] \in {"invoke"} /\ c[v[2]] = "/invoke"
      /\ \A r \in v[1]..(v[2] - 1) :
           o[r] = v[1] /\ (r # v[1] /\ r \in DOMAIN c => c[r] # "/invoke")
  BY <1>2 DEF Match
<1>6. ASSUME NEW k \in v[1]..(v[2] - 1)
      PROVE  l[k] \in {"invoke", "param"} /\ c[k] # "/invoke"
  <2>1. k \in (a - 1)..b /\ k \in DOMAIN c /\ v[1] # 0
    BY <1>2, <1>3, <1>5
  <2> QED
    BY <1>4, <1>5, <2>1
<1>7. v[1] \in 1..n /\ v[2] \in (v[1] + 1)..n /\ v[2] \in 1..n
  BY <1>2, <1>3, <1>5
<1>8. LevelStep(l[v[1] - 1], c[v[1]], l[v[1]]) /\ LevelStep(l[v[2] - 1], c[v[2]], l[v[2]])
  BY <1>7 DEF Nests
<1>9. l[v[1]] = "invoke" /\ l[v[2] - 1] = "invoke"
  BY <1>5, <1>8 DEF LevelStep
<1> QED
  BY <1>2, <1>3, <1>5, <1>6, <1>7, <1>9

LEMMA ParamsFit ==
  ASSUME NEW n \in Nat, NEW c, DOMAIN c = 1..n, NEW l, Nests(l, c, n), NEW m \in Echo!Blocks(c),
         NEW v \in Echo!Invokes(c, m)
  PROVE  /\ Fits(l, c, v[1] + 1, v[2] - 1, Echo!Params, "/param", {"param"}, {"invoke"})
         /\ \A k \in (v[1] + 1)..(v[2] - 1) : c[k] # "badparam"
<1>1. /\ v[1] \in 1..n /\ v[2] \in (v[1] + 1)..n /\ v[1] \in Nat /\ v[2] \in Nat /\ v[1] < v[2]
      /\ l[v[1]] = "invoke" /\ l[v[2] - 1] = "invoke"
      /\ \A k \in v[1]..(v[2] - 1) : l[k] \in {"invoke", "param"} /\ c[k] # "/invoke"
  BY InvokeLevels
<1>2. ASSUME NEW k \in (v[1] + 1)..(v[2] - 1)
      PROVE  /\ l[k] \in {"param"} \cup {"invoke"}
             /\ l[k - 1] \in {"param"} => (l[k] \in {"invoke"} <=> c[k] = "/param")
             /\ l[k - 1] \in {"invoke"} => (l[k] \in {"param"} <=> c[k] \in Echo!Params)
             /\ c[k] \in Echo!Params => l[k - 1] \in {"invoke"}
             /\ c[k] # "badparam"
  <2>1. k \in 1..n /\ k \in v[1]..(v[2] - 1) /\ k - 1 \in v[1]..(v[2] - 1)
    BY <1>1
  <2>2. /\ LevelStep(l[k - 1], c[k], l[k]) /\ c[k] # "/invoke"
        /\ l[k] \in {"invoke", "param"} /\ l[k - 1] \in {"invoke", "param"}
    BY <1>1, <2>1 DEF Nests
  <2> QED
    BY <2>2 DEF LevelStep, Echo!Params
<1>3. l[(v[1] + 1) - 1] \in {"invoke"} /\ l[v[2] - 1] \in {"invoke"}
  <2>1. (v[1] + 1) - 1 = v[1]
    BY <1>1
  <2> QED
    BY <1>1, <2>1
<1> QED
  BY <1>2, <1>3 DEF Fits

\* Every block of a text that nests is whole.
LEMMA BlocksWhole ==
  ASSUME NEW n \in Nat, NEW c, DOMAIN c = 1..n, NEW l, Nests(l, c, n), NEW m \in Echo!Blocks(c)
  PROVE  /\ Echo!Whole(c, m)
         /\ EachIn(c, m, {"invoke"}, Echo!Invokes(c, m))
         /\ \A v \in Echo!Invokes(c, m) : EachIn(c, v, Echo!Params, Echo!ParamsOf(c, v))
<1>1. /\ m[1] \in 1..n /\ m[2] \in (m[1] + 1)..n /\ m[1] \in Nat /\ m[2] \in Nat /\ m[1] < m[2]
      /\ l[m[1]] = "empty" /\ l[m[2] - 1] = "block"
  BY BlockLevels
<1>2. EachIn(c, m, {"invoke"}, Echo!Invokes(c, m))
  <2> DEFINE a == m[1] + 1
             b == m[2] - 1
  <2>1. /\ Fits(l, c, a, b, {"invoke"}, "/invoke", {"invoke", "param"}, {"empty", "block"})
        /\ a \in Nat \ {0} /\ b \in Nat /\ b <= n
    BY <1>1, InvokesFit
  <2>2. Echo!Invokes(c, m) = Echo!Enclosed(c, a, b, {"invoke"}, "/invoke")
    BY DEF Echo!Invokes
  <2>3. (\A i \in a..b : c[i] \in {"invoke"} => \E v \in Echo!Invokes(c, m) : v[1] = i)
          => EachIn(c, m, {"invoke"}, Echo!Invokes(c, m))
    BY DEF EachIn
  <2> HIDE DEF a, b
  <2>4. \A i \in a..b : c[i] \in {"invoke"} => \E v \in Echo!Invokes(c, m) : v[1] = i
    BY <2>1, <2>2, TagFound
  <2> QED
    BY <2>3, <2>4
<1>3. ASSUME NEW v \in Echo!Invokes(c, m)
      PROVE  /\ EachIn(c, v, Echo!Params, Echo!ParamsOf(c, v))
             /\ \A p \in Echo!ParamsOf(c, v) : c[p[1]] # "badparam"
  <2> DEFINE a == v[1] + 1
             b == v[2] - 1
             tags == Echo!Params
  <2>1. v[1] \in 1..n /\ v[2] \in (v[1] + 1)..n /\ v[1] \in Nat /\ v[2] \in Nat /\ v[1] < v[2]
    BY InvokeLevels
  <2> HIDE DEF tags
  <2>2. /\ Fits(l, c, a, b, tags, "/param", {"param"}, {"invoke"})
        /\ \A k \in a..b : c[k] # "badparam"
    BY ParamsFit DEF tags
  <2>3. a \in Nat \ {0} /\ b \in Nat /\ b <= n
    BY <2>1
  <2>4. Echo!ParamsOf(c, v) = Echo!Enclosed(c, a, b, tags, "/param")
    BY DEF Echo!ParamsOf, tags
  <2>5. (\A i \in a..b : c[i] \in tags => \E p \in Echo!ParamsOf(c, v) : p[1] = i)
          => EachIn(c, v, tags, Echo!ParamsOf(c, v))
    BY DEF EachIn
  <2>6. \A p \in Echo!ParamsOf(c, v) : p[1] \in a..b
    BY <2>1, ParamIn DEF Match
  <2> HIDE DEF a, b
  <2>7. \A i \in a..b : c[i] \in tags => \E p \in Echo!ParamsOf(c, v) : p[1] = i
    BY <2>2, <2>3, <2>4, TagFound
  <2> QED
    BY <2>2, <2>5, <2>6, <2>7 DEF tags
<1>4. Echo!Invokes(c, m) # {}
  <2> DEFINE T == {k \in m[1]..(m[2] - 1) : l[k] # "empty"}
  <2>1. m[2] - 1 \in T /\ T \subseteq Nat
    BY <1>1
  <2>2. PICK k \in T : \A j \in T : k <= j
    BY <2>1, LeastNatural
  <2>3. k \in m[1]..(m[2] - 1) /\ k # m[1] /\ l[k] # "empty"
    BY <1>1, <2>2
  <2>4. k \in (m[1] + 1)..(m[2] - 1) /\ k \in 1..n /\ k - 1 \in m[1]..(m[2] - 1) /\ k - 1 \notin T
    BY <1>1, <2>2, <2>3
  <2>5. LevelStep(l[k - 1], c[k], l[k]) /\ l[k - 1] = "empty"
    BY <2>4 DEF Nests
  <2>6. c[k] = "invoke"
    BY <2>3, <2>5 DEF LevelStep
  <2> QED
    BY <1>2, <2>4, <2>6 DEF EachIn
<1> QED
  BY <1>1, <1>2, <1>3, <1>4, WholeIs

\* Every invocation of a text that nests is found in a block.
LEMMA InvokesFound ==
  ASSUME NEW n \in Nat, NEW c, DOMAIN c = 1..n, NEW l, Nests(l, c, n)
  PROVE  {v[1] : v \in UNION {Echo!Invokes(c, m) : m \in Echo!Blocks(c)}} = Echo!Places(c, "invoke")
<1>1. ASSUME NEW m \in Echo!Blocks(c), NEW v \in Echo!Invokes(c, m)
      PROVE  v[1] \in Echo!Places(c, "invoke")
  <2>1. v[1] \in 1..n /\ c[v[1]] = "invoke"
    BY InvokeLevels
  <2> QED
    BY <2>1 DEF Echo!Places
<1>2. ASSUME NEW i \in Echo!Places(c, "invoke")
      PROVE  \E m \in Echo!Blocks(c) : \E v \in Echo!Invokes(c, m) : v[1] = i
  <2> DEFINE o == OpenBlock(c, n)
  <2>1. i \in 1..n /\ c[i] = "invoke" /\ i - 1 \in 0..n /\ n \in 0..n /\ n \in (i - 1)..n
    BY DEF Echo!Places
  <2>2. \A k \in 0..n : o[k] # 0 <=> l[k] \in InBlock
    <3>1. \A k \in (1 - 1)..n : o[k] # 0 <=> l[k] \in InBlock
      BY BlocksFit, TagLevels DEF OpenBlock
    <3> QED
      BY <3>1
  <2>3. LevelStep(l[i - 1], c[i], l[i]) /\ l[n] = "out"
    BY <2>1 DEF Nests
  <2>4. l[i - 1] \in InBlock /\ l[n] \notin InBlock
    BY <2>1, <2>3 DEF LevelStep, InBlock
  <2>5. o[i - 1] # 0 /\ o[n] = 0
    BY <2>1, <2>2, <2>4
  <2>6. PICK m \in Echo!Blocks(c) : m[1] \in 1..(i - 1) /\ m[2] \in i..n
    <3> HIDE DEF o
    <3>1. o = OpenBlock(c, n) /\ o[n] # o[i - 1]
      BY <2>5 DEF o
    <3>2. \E m \in Echo!Blocks(c) : m[1] \in 1..(i - 1) /\ m[2] \in ((i - 1) + 1)..n
      BY <2>1, <2>5, <3>1, BlockAround
    <3> QED
      BY <2>1, <3>2
  <2>7. c[m[2]] = "/calls"
    BY BlockLevels
  <2>8. m[2] # i
    BY <2>1, <2>7
  <2>9. i \in (m[1] + 1)..(m[2] - 1)
    BY <2>1, <2>6, <2>8
  <2>10. EachIn(c, m, {"invoke"}, Echo!Invokes(c, m))
    BY BlocksWhole
  <2>11. i \in DOMAIN c /\ c[i] \in {"invoke"}
    BY <2>1
  <2>12. \E v \in Echo!Invokes(c, m) : v[1] = i
    BY <2>9, <2>10, <2>11 DEF EachIn
  <2> QED
    BY <2>12
<1> QED
  BY <1>1, <1>2

\* So is every parameter, in the invocation that it stands in.
LEMMA ParamsFound ==
  ASSUME NEW n \in Nat, NEW c, DOMAIN c = 1..n, NEW l, Nests(l, c, n), NEW m \in Echo!Blocks(c),
         NEW v \in Echo!Invokes(c, m)
  PROVE  {p[1] : p \in Echo!ParamsOf(c, v)}
           = {i \in Echo!Places(c, "param") : i > v[1] /\ \A j \in v[1]..i : c[j] # "/invoke"}
<1>1. /\ v[1] \in 1..n /\ v[2] \in (v[1] + 1)..n /\ v[1] \in Nat /\ v[2] \in Nat /\ v[1] < v[2]
      /\ c[v[2]] = "/invoke"
      /\ \A k \in v[1]..(v[2] - 1) : c[k] # "/invoke"
  BY InvokeLevels
<1>2. ASSUME NEW p \in Echo!ParamsOf(c, v)
      PROVE  /\ p[1] \in Echo!Places(c, "param") /\ p[1] > v[1]
             /\ \A j \in v[1]..p[1] : c[j] # "/invoke"
  <2>1. p[1] \in (v[1] + 1)..(v[2] - 1) /\ p[1] \in DOMAIN c /\ c[p[1]] \in Echo!Params
    BY <1>1, ParamIn DEF Match
  <2>2. c[p[1]] # "badparam"
    BY <2>1, ParamsFit
  <2>3. c[p[1]] = "param"
    BY <2>1, <2>2 DEF Echo!Params
  <2>4. \A j \in v[1]..p[1] : j \in v[1]..(v[2] - 1)
    BY <1>1, <2>1
  <2>5. p[1] \in Echo!Places(c, "param")
    BY <2>1, <2>3 DEF Echo!Places
  <2>6. p[1] > v[1]
    BY <1>1, <2>1
  <2> QED
    BY <1>1, <2>4, <2>5, <2>6
<1>3. ASSUME NEW i \in Echo!Places(c, "param"), i > v[1], \A j \in v[1]..i : c[j] # "/invoke"
      PROVE  \E p \in Echo!ParamsOf(c, v) : p[1] = i
  <2>1. i \in 1..n /\ c[i] = "param"
    BY DEF Echo!Places
  <2>2. v[2] \notin v[1]..i
    BY <1>1, <1>3
  <2>3. i \in (v[1] + 1)..(v[2] - 1)
    BY <1>1, <1>3, <2>1, <2>2
  <2>4. EachIn(c, v, Echo!Params, Echo!ParamsOf(c, v))
    BY BlocksWhole
  <2>5. i \in DOMAIN c /\ c[i] \in Echo!Params
    BY <2>1 DEF Echo!Params
  <2> QED
    BY <2>3, <2>4, <2>5 DEF EachIn
<1> QED
  BY <1>2, <1>3

\* What is left are the words outside of the blocks.
LEMMA WordsLeft ==
  ASSUME NEW n \in Nat, NEW c, DOMAIN c = 1..n, NEW l, Nests(l, c, n)
  PROVE  \A i : i \in DOMAIN Echo!Outside(c, Echo!Blocks(c))
                <=> i \in Echo!Places(c, "word") /\ l[i] = "out"
<1> DEFINE o == OpenBlock(c, n)
<1>1. DOMAIN Echo!Outside(c, Echo!Blocks(c))
        = {k \in 1..n : \A m \in Echo!Blocks(c) : k \notin m[1]..m[2]}
  BY DEF Echo!Outside, Echo!Restrict
<1>2. \A k \in 0..n : o[k] # 0 <=> l[k] \in InBlock
  <2>1. \A k \in (1 - 1)..n : o[k] # 0 <=> l[k] \in InBlock
    BY BlocksFit, TagLevels DEF OpenBlock
  <2> QED
    BY <2>1
<1> HIDE DEF o
<1>3. ASSUME NEW k \in 1..n, \A m \in Echo!Blocks(c) : k \notin m[1]..m[2]
      PROVE  c[k] = "word" /\ l[k] = "out"
  <2>1. k \in 0..n /\ k - 1 \in 0..n /\ n \in 0..n /\ n \in k..n /\ k \in (k - 1)..n
        /\ l[n] = "out" /\ LevelStep(l[k - 1], c[k], l[k]) /\ l[k] \in Levels
    BY DEF Nests
  <2>2. o[n] = 0
    BY <1>2, <2>1 DEF InBlock
  <2>3. o[k] = 0
    <3> SUFFICES ASSUME o[k] # 0
                 PROVE  FALSE
      OBVIOUS
    <3>1. o[n] # o[k]
      BY <2>2
    <3>2. PICK m \in Echo!Blocks(c) : m[1] \in 1..k /\ m[2] \in (k + 1)..n
      BY <2>1, <3>1, BlockAround DEF o
    <3>3. k \in m[1]..m[2]
      BY <3>2
    <3> QED
      BY <1>3, <3>3
  <2>4. l[k] = "out"
    BY <1>2, <2>1, <2>3 DEF Levels, InBlock
  <2>5. c[k] = "word" \/ l[k - 1] = "block"
    BY <2>1, <2>4 DEF LevelStep
  <2>6. l[k - 1] # "block"
    <3> SUFFICES ASSUME l[k - 1] = "block"
                 PROVE  FALSE
      OBVIOUS
    <3>1. o[k - 1] # 0
      BY <1>2, <2>1 DEF InBlock
    <3>2. o[k] # o[k - 1]
      BY <2>3, <3>1
    <3>3. PICK m \in Echo!Blocks(c) : m[1] \in 1..(k - 1) /\ m[2] \in ((k - 1) + 1)..k
      BY <2>1, <3>1, <3>2, BlockAround DEF o
    <3>4. k \in m[1]..m[2]
      BY <3>3
    <3> QED
      BY <1>3, <3>4
  <2> QED
    BY <2>4, <2>5, <2>6
<1>4. ASSUME NEW i \in 1..n, c[i] = "word", l[i] = "out", NEW m \in Echo!Blocks(c)
      PROVE  i \notin m[1]..m[2]
  <2>1. /\ m[1] \in Nat /\ m[2] \in Nat /\ c[m[2]] = "/calls"
        /\ \A k \in m[1]..(m[2] - 1) : l[k] \in InBlock
    BY BlockLevels
  <2>2. i # m[2]
    BY <1>4, <2>1
  <2>3. i \notin m[1]..(m[2] - 1)
    BY <1>4, <2>1 DEF InBlock
  <2> QED
    BY <2>1, <2>2, <2>3
<1>5. \A i : i \in Echo!Places(c, "word") <=> i \in 1..n /\ c[i] = "word"
  BY DEF Echo!Places
<1> QED
  BY <1>1, <1>3, <1>4, <1>5

LEMMA NestedHolds ==
  ASSUME NEW n \in Nat, Len(content) = n, DOMAIN content = 1..n
  PROVE  Echo!NestedIsLifted
<1> DEFINE c == content
           l == Echo!Level(c)
           B == Echo!Blocks(c)
           x == Echo!Extract(c)
<1> SUFFICES ASSUME Echo!Nested(c), Echo!Places(c, "calls") # {}
             PROVE  /\ x.lifted
                    /\ {call.at : call \in x.calls} = Echo!Places(c, "invoke")
                    /\ \A call \in x.calls :
                         {p[1] : p \in call.params}
                           = {i \in Echo!Places(c, "param") :
                                i > call.at /\ \A j \in call.at..i : c[j] # "/invoke"}
                    /\ DOMAIN x.leftover = {i \in Echo!Places(c, "word") : l[i] = "out"}
  BY DEF Echo!NestedIsLifted
<1>1. Nests(l, c, n)
  BY NestsAlways
<1>2. Len(c) = n /\ DOMAIN c = 1..n /\ l = Echo!Level(c) /\ B = Echo!Blocks(c) /\ x = Echo!Extract(c)
  OBVIOUS
<1> HIDE DEF c, l, B, x
<1>3. B # {}
  <2>1. PICK i : i \in 1..n /\ c[i] = "calls"
    BY <1>2 DEF Echo!Places
  <2>2. Fits(l, c, 1, n, {"calls"}, "/calls", InBlock, {"out"})
    BY <1>1, BlocksFit
  <2>3. \E m \in Echo!Enclosed(c, 1, n, {"calls"}, "/calls") : m[1] = i
    <3>1. 1 \in Nat \ {0} /\ n <= n /\ i \in 1..n /\ c[i] \in {"calls"}
      BY <2>1
    <3> QED
      BY <1>2, <2>2, <3>1, TagFound
  <2>4. B = Echo!Enclosed(c, 1, n, {"calls"}, "/calls")
    BY <1>2, BlockIn
  <2> QED
    BY <2>3, <2>4
<1>4. \A m \in B : Echo!Whole(c, m)
  BY <1>1, <1>2, BlocksWhole
<1>5. /\ x.lifted /\ x.leftover = Echo!Outside(c, B)
      /\ x.calls = {[at |-> v[1], params |-> Echo!ParamsOf(c, v)] :
                      v \in UNION {Echo!Invokes(c, b) : b \in B}}
  BY <1>2, <1>3, <1>4, ExtractIs
<1>6. {call.at : call \in x.calls} = {v[1] : v \in UNION {Echo!Invokes(c, b) : b \in B}}
  <2> DEFINE V == UNION {Echo!Invokes(c, b) : b \in B}
             Call(v) == [at |-> v[1], params |-> Echo!ParamsOf(c, v)]
  <2>1. x.calls = {Call(v) : v \in V}
    BY <1>5
  <2>2. \A v : Call(v).at = v[1]
    OBVIOUS
  <2> HIDE DEF V, Call
  <2>3. {call.at : call \in x.calls} = {v[1] : v \in V}
    BY <2>1, <2>2
  <2> QED
    BY <2>3 DEF V
<1>7. {call.at : call \in x.calls} = Echo!Places(c, "invoke")
  BY <1>1, <1>2, <1>6, InvokesFound
<1>8. ASSUME NEW call \in x.calls
      PROVE  {p[1] : p \in call.params}
               = {i \in Echo!Places(c, "param") :
                    i > call.at /\ \A j \in call.at..i : c[j] # "/invoke"}
  <2>1. PICK m \in B : \E v \in Echo!Invokes(c, m) :
                         call.at = v[1] /\ call.params = Echo!ParamsOf(c, v)
    BY <1>5
  <2>2. PICK v \in Echo!Invokes(c, m) : call.at = v[1] /\ call.params = Echo!ParamsOf(c, v)
    BY <2>1
  <2>3. {p[1] : p \in Echo!ParamsOf(c, v)}
          = {i \in Echo!Places(c, "param") : i > v[1] /\ \A j \in v[1]..i : c[j] # "/invoke"}
    BY <1>1, <1>2, <2>1, <2>2, ParamsFound
  <2> QED
    BY <2>2, <2>3
<1>9. DOMAIN x.leftover = {i \in Echo!Places(c, "word") : l[i] = "out"}
  <2> DEFINE left == DOMAIN Echo!Outside(c, Echo!Blocks(c))
             words == Echo!Places(c, "word")
  <2>1. \A i : i \in left <=> i \in words /\ l[i] = "out"
    BY <1>1, <1>2, WordsLeft
  <2>2. x.leftover = Echo!Outside(c, Echo!Blocks(c))
    BY <1>2, <1>5
  <2> HIDE DEF left, words
  <2>3. left = {i \in words : l[i] = "out"}
    BY <2>1
  <2> QED
    BY <2>2, <2>3 DEF left, words
<1> QED
  BY <1>5, <1>7, <1>8, <1>9

\* Texts are put together from sequences.
EchoConstants == MaxPieces \in Nat /\ \E S : Pieces \subseteq Seq(S)

LEMMA TextsAre ==
  ASSUME EchoConstants, Echo!Init
  PROVE  Len(content) \in Nat /\ DOMAIN content = 1..Len(content)
<1>1. PICK S : Pieces \subseteq Seq(S)
  BY DEF EchoConstants
<1>2. PICK n \in 0..MaxPieces : \E s \in [1..n -> Pieces] : content = FlattenSeq(s)
  BY DEF Echo!Init, Echo!FlattenSeq, FlattenSeq
<1>3. PICK s \in [1..n -> Pieces] : content = FlattenSeq(s)
  BY <1>2
<1>4. n \in Nat
  BY DEF EchoConstants
<1> DEFINE R == Seq(S)
<1>5. s \in [1..n -> R]
  BY <1>1, <1>3
<1> HIDE DEF R
<1>6. s \in Seq(R)
  BY <1>4, <1>5
<1>7. FlattenSeq(s) \in Seq(S)
  BY <1>6, FlattenType DEF R
<1> QED
  BY <1>3, <1>7

\* Theorem (EchoLifted).  However a text is put together from pieces: if its tags nest,
\* patch 0021 lifts every invocation of every block with its own parameters and leaves
\* every word around the blocks; it lifts nothing from a text in which a tag that opens
\* in a block is not closed before the next one opens; and what it leaves holds nothing
\* to lift when the next turn sends it again.
THEOREM EchoesLift ==
  ASSUME EchoConstants
  PROVE  Echo!Spec => [](Echo!NestedIsLifted /\ Echo!NothingGuessed /\ Echo!LiftedOnce)
<1> DEFINE IsText == Len(content) \in Nat /\ DOMAIN content = 1..Len(content)
<1>1. Echo!Init => IsText
  BY TextsAre
<1>2. IsText /\ [Echo!Next]_content => IsText'
  BY DEF Echo!Next
<1>3. IsText => Echo!NestedIsLifted /\ Echo!NothingGuessed /\ Echo!LiftedOnce
  <2> SUFFICES ASSUME IsText
               PROVE  Echo!NestedIsLifted /\ Echo!NothingGuessed /\ Echo!LiftedOnce
    OBVIOUS
  <2>1. Echo!NestedIsLifted
    BY NestedHolds
  <2>2. Echo!NothingGuessed
    BY GuessedHolds
  <2>3. Echo!LiftedOnce
    BY OnceHolds
  <2> QED
    BY <2>1, <2>2, <2>3
<1> QED
  BY <1>1, <1>2, <1>3, PTL DEF Echo!Spec

===============================================================================
