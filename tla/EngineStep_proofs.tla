--------------------------- MODULE EngineStep_proofs ---------------------------
(***************************************************************************)
(* Proofs about EngineStep: its type invariant, the exactness of the       *)
(* counter, the tiling of the slots in flight, and what rests on them: no  *)
(* batch is ever sampled under a mask computed from a stale grammar.       *)
(* EngineStep then implements GrammarLockstep: seen from the grammar of    *)
(* one structured request, the engine with its queue, its deferred batch   *)
(* and its drain only ever computes a mask when none is outstanding, and   *)
(* only ever settles what was sampled under the mask of the current        *)
(* position.  Last, what the deferred path verifies: which rows of the     *)
(* draft map are current, what a rewritten window therefore holds, when    *)
(* none is left without drafts, and why the drain loop has nothing to do   *)
(* under the rotation of the async scheduler.                              *)
(***************************************************************************)
EXTENDS EngineStep, TLAPS, FiniteSetTheorems, SequenceTheorems

-------------------------------------------------------------------------------
(* The inductive invariant. *)

\* The requests that may still be scheduled or settled.
Alive == {r \in Reqs : status[r] # "gone"}

\* A batch owns no slot of a request that is not in it, and 1 + w slots of one
\* that decodes in it with a window of w drafts.
WellFormed(b) ==
  \A r \in Reqs :
    /\ b.from[r] <= b.to[r]
    /\ r \in b.decodes => b.to[r] = b.from[r] + 1 + b.window[r]
    /\ r \notin Members(b) => b.to[r] = b.from[r]

\* The batches of f tile the slots lo..hi of the requests in R, in order.
Tiles(f, lo, hi, R) ==
  /\ \A i \in 1..Len(f) : WellFormed(f[i]) /\ \A r \in Reqs : f[i].to[r] <= hi[r]
  /\ \A i, j \in 1..Len(f) : i < j => \A r \in Reqs : f[i].to[r] <= f[j].from[r]
  /\ \A r \in R :
       /\ f = <<>> => lo[r] = hi[r]
       /\ f # <<>> => f[1].from[r] = lo[r] /\ f[Len(f)].to[r] = hi[r]
       /\ \A i \in 1..(Len(f) - 1) : f[i].to[r] = f[i + 1].from[r]
       /\ \A i \in 1..Len(f) : lo[r] <= f[i].from[r]

\* A new request is in no batch.
NewNotInFlight ==
  \A i \in 1..Len(Flight) : \A r \in Members(Flight[i]) : status[r] # "new"

CounterExact == \A r \in Alive : inFlight[r] = scheduled[r] - settled[r]

DeferredIsNewest ==
  deferred # None => pc # "schedule" /\ deferred.to = scheduled

IInv ==
  /\ TypeOK
  /\ Tiles(Flight, settled, scheduled, Alive)
  /\ CounterExact
  /\ NewNotInFlight
  /\ DeferredIsNewest
  /\ MaskFresh
  /\ OutputsConserved

-------------------------------------------------------------------------------
(* Lemmas about the draft map. *)

LEMMA FunctionIsSeq ==
  ASSUME NEW T, NEW n \in Nat, NEW k \in [1..n -> T]
  PROVE  k \in Seq(T)
OBVIOUS

LEMMA NewKeysType ==
  ASSUME NEW h, NEW ids \in SUBSET Reqs, NEW k \in NewKeyOrders(h, ids)
  PROVE  k \in Seq(Reqs)
<1> DEFINE S == {r \in ids : ~HasRow(h, r)}
<1>1. IsFiniteSet(S)
  BY FS_Subset, EngineAssumption
<1>2. Cardinality(S) \in Nat
  BY <1>1, FS_CardinalityType
<1>3. k \in [1..Cardinality(S) -> S]
  BY DEF NewKeyOrders, SetToSeqs
<1>4. S \subseteq Reqs
  OBVIOUS
<1>5. k \in [1..Cardinality(S) -> Reqs]
  BY <1>3, <1>4
<1> HIDE DEF S
<1> QED
  BY <1>2, <1>5, FunctionIsSeq

LEMMA SetDraftTokensType ==
  ASSUME NEW h \in DraftMaps, NEW ids \in SUBSET Reqs,
         NEW origin \in [Reqs -> Nat], NEW k \in NewKeyOrders(h, ids)
  PROVE  SetDraftTokens(h, ids, origin, k) \in DraftMaps
BY NewKeysType DEF SetDraftTokens, DraftMaps

LEMMA EvictType ==
  ASSUME NEW h \in DraftMaps
  PROVE  EvictOverCap(h) \in DraftMaps
<1>1. ASSUME NEW n \in Nat, n <= Len(h.order)
      PROVE  DropFirst(h, n) \in DraftMaps
  <2>1. SubSeq(h.order, n + 1, Len(h.order)) \in Seq(Reqs)
    BY <1>1 DEF DraftMaps
  <2> QED
    BY <2>1 DEF DropFirst, DraftMaps, Placeholder
<1> QED
  BY <1>1, CapAssumption DEF EvictOverCap, DraftMaps

-------------------------------------------------------------------------------
(* Lemmas about tilings. *)

LEMMA AppendTiles ==
  ASSUME NEW f \in Seq(Batches), NEW b \in Batches, NEW R \in SUBSET Reqs,
         NEW lo \in [Reqs -> Nat], NEW hi \in [Reqs -> Nat],
         Tiles(f, lo, hi, R), WellFormed(b), b.from = hi
  PROVE  Tiles(Append(f, b), lo, b.to, R)
<1> DEFINE g == Append(f, b)
<1>1. /\ Len(g) = Len(f) + 1 /\ Len(f) \in Nat
      /\ \A i \in 1..Len(f) : g[i] = f[i]
      /\ g[Len(f) + 1] = b
      /\ g # <<>>
  <2>1. /\ g \in Seq(Batches) /\ Len(g) = Len(f) + 1
        /\ \A i \in 1..Len(f) : g[i] = f[i]
        /\ g[Len(f) + 1] = b
    BY AppendProperties
  <2>2. Len(f) \in Nat
    OBVIOUS
  <2> QED
    BY <2>1, <2>2, EmptySeq
<1>0. Len(f) \in Nat /\ Len(g) \in Nat /\ Len(g) = Len(f) + 1
  BY <1>1
<1>2. \A i \in 1..Len(f) : f[i] \in Batches
  OBVIOUS
<1>3. b.to \in [Reqs -> Nat]
  BY DEF Batches
<1>4. \A r \in Reqs : hi[r] <= b.to[r]
  BY DEF WellFormed
<1> HIDE DEF g
<1>5. \A i \in 1..Len(g) : WellFormed(g[i]) /\ \A r \in Reqs : g[i].to[r] <= b.to[r]
  <2> TAKE i \in 1..Len(g)
  <2>1. CASE i = Len(f) + 1
    BY <2>1, <1>1, <1>3
  <2>2. CASE i \in 1..Len(f)
    <3>1. WellFormed(f[i]) /\ \A r \in Reqs : f[i].to[r] <= hi[r]
      BY <2>2 DEF Tiles
    <3>2. \A r \in Reqs : f[i].to[r] \in Nat
      BY <2>2, <1>2 DEF Batches
    <3> QED
      BY <2>2, <3>1, <3>2, <1>1, <1>3, <1>4
  <2> QED
    BY <1>1, <2>1, <2>2
<1>6. \A i, j \in 1..Len(g) : i < j => \A r \in Reqs : g[i].to[r] <= g[j].from[r]
  <2> SUFFICES ASSUME NEW i \in 1..Len(g), NEW j \in 1..Len(g), i < j, NEW r \in Reqs
               PROVE  g[i].to[r] <= g[j].from[r]
    OBVIOUS
  <2>1. i \in 1..Len(f)
    BY <1>1
  <2>2. CASE j = Len(f) + 1
    BY <2>1, <2>2, <1>1 DEF Tiles
  <2>3. CASE j \in 1..Len(f)
    BY <2>1, <2>3, <1>1 DEF Tiles
  <2>4. j = Len(f) + 1 \/ j \in 1..Len(f)
    BY <1>0
  <2> QED
    BY <2>2, <2>3, <2>4
<1>7. ASSUME NEW r \in R
      PROVE  /\ g[1].from[r] = lo[r] /\ g[Len(g)].to[r] = b.to[r]
             /\ \A i \in 1..(Len(g) - 1) : g[i].to[r] = g[i + 1].from[r]
             /\ \A i \in 1..Len(g) : lo[r] <= g[i].from[r]
  <2>1. CASE f = <<>>
    <3>1. lo[r] = hi[r]
      BY <2>1 DEF Tiles
    <3>2. Len(f) = 0
      BY <2>1
    <3> QED
      BY <3>1, <3>2, <1>1
  <2>2. CASE f # <<>>
    <3>1. Len(f) \in 1..Len(f)
      BY <2>2
    <3>2. f[1].from[r] = lo[r] /\ f[Len(f)].to[r] = hi[r]
      BY <2>2 DEF Tiles
    <3>3. /\ \A i \in 1..(Len(f) - 1) : f[i].to[r] = f[i + 1].from[r]
          /\ \A i \in 1..Len(f) : lo[r] <= f[i].from[r]
      BY DEF Tiles
    <3>4. f[Len(f)].from[r] <= hi[r]
      BY <3>1, <3>2 DEF Tiles, WellFormed
    <3>5. lo[r] <= hi[r]
      <4>1. f[Len(f)].from[r] \in Nat
        BY <3>1, <1>2 DEF Batches
      <4> QED
        BY <3>1, <3>3, <3>4, <4>1
    <3>6. ASSUME NEW i \in 1..(Len(g) - 1) PROVE g[i].to[r] = g[i + 1].from[r]
      <4>1. CASE i = Len(f)
        BY <4>1, <3>1, <3>2, <1>1
      <4>2. CASE i \in 1..(Len(f) - 1)
        BY <4>2, <3>3, <1>1
      <4> QED
        BY <4>1, <4>2, <1>1
    <3>7. ASSUME NEW i \in 1..Len(g) PROVE lo[r] <= g[i].from[r]
      BY <3>3, <3>5, <1>1
    <3> QED
      BY <3>1, <3>2, <3>6, <3>7, <1>1
  <2> QED
    BY <2>1, <2>2
<1> QED
  BY <1>1, <1>5, <1>6, <1>7 DEF Tiles, g

LEMMA TailTiles ==
  ASSUME NEW f \in Seq(Batches), f # <<>>,
         NEW R \in SUBSET Reqs, NEW S \in SUBSET R,
         NEW lo \in [Reqs -> Nat], NEW hi \in [Reqs -> Nat],
         NEW low \in [Reqs -> Nat], \A r \in S : low[r] = f[1].to[r],
         Tiles(f, lo, hi, R)
  PROVE  Tiles(Tail(f), low, hi, S)
<1> DEFINE g == Tail(f)
<1>1. /\ Len(f) \in Nat \ {0} /\ Len(g) = Len(f) - 1
      /\ \A i \in 1..Len(g) : g[i] = f[i + 1] /\ i + 1 \in 1..Len(f)
      /\ g \in Seq(Batches)
  OBVIOUS
<1> HIDE DEF g
<1>2. \A i \in 1..Len(g) : WellFormed(g[i]) /\ \A r \in Reqs : g[i].to[r] <= hi[r]
  BY <1>1 DEF Tiles
<1>3. \A i, j \in 1..Len(g) : i < j => \A r \in Reqs : g[i].to[r] <= g[j].from[r]
  <2> SUFFICES ASSUME NEW i \in 1..Len(g), NEW j \in 1..Len(g), i < j, NEW r \in Reqs
               PROVE  g[i].to[r] <= g[j].from[r]
    OBVIOUS
  <2>1. g[i] = f[i + 1] /\ g[j] = f[j + 1] /\ i + 1 < j + 1
    BY <1>1
  <2>2. i + 1 \in 1..Len(f) /\ j + 1 \in 1..Len(f)
    BY <1>1
  <2> QED
    BY <2>1, <2>2 DEF Tiles
<1>4. ASSUME NEW r \in S
      PROVE  /\ g = <<>> => low[r] = hi[r]
             /\ g # <<>> => g[1].from[r] = low[r] /\ g[Len(g)].to[r] = hi[r]
             /\ \A i \in 1..(Len(g) - 1) : g[i].to[r] = g[i + 1].from[r]
             /\ \A i \in 1..Len(g) : low[r] <= g[i].from[r]
  <2>1. /\ f[1].from[r] = lo[r] /\ f[Len(f)].to[r] = hi[r]
        /\ \A i \in 1..(Len(f) - 1) : f[i].to[r] = f[i + 1].from[r]
    BY DEF Tiles
  <2>2. g = <<>> => low[r] = hi[r]
    <3> HAVE g = <<>>
    <3>1. Len(f) = 1
      BY <1>1, EmptySeq
    <3> QED
      BY <2>1, <3>1
  <2>3. g # <<>> => g[1].from[r] = low[r] /\ g[Len(g)].to[r] = hi[r]
    <3> HAVE g # <<>>
    <3>1. Len(g) \in Nat \ {0}
      BY <1>1
    <3>2. 1 \in 1..Len(g) /\ Len(g) \in 1..Len(g) /\ 1 \in 1..(Len(f) - 1)
      BY <3>1, <1>1
    <3>3. g[1] = f[2] /\ g[Len(g)] = f[Len(f)]
      BY <3>2, <1>1
    <3>4. f[1].to[r] = f[2].from[r]
      BY <3>2, <2>1
    <3> QED
      BY <3>3, <3>4, <2>1
  <2>4. ASSUME NEW i \in 1..(Len(g) - 1) PROVE g[i].to[r] = g[i + 1].from[r]
    <3>1. i + 1 \in 1..(Len(f) - 1) /\ i \in 1..Len(g) /\ i + 1 \in 1..Len(g)
      BY <1>1
    <3>2. g[i] = f[i + 1] /\ g[i + 1] = f[(i + 1) + 1]
      BY <3>1, <1>1
    <3> QED
      BY <3>1, <3>2, <2>1
  <2>5. ASSUME NEW i \in 1..Len(g) PROVE low[r] <= g[i].from[r]
    <3>1. 1 \in 1..Len(f) /\ i + 1 \in 1..Len(f) /\ 1 < i + 1
      BY <1>1
    <3>2. f[1].to[r] <= f[i + 1].from[r]
      BY <3>1 DEF Tiles
    <3> QED
      BY <3>2, <1>1
  <2> QED
    BY <2>2, <2>3, <2>4, <2>5
<1> QED
  BY <1>2, <1>3, <1>4 DEF Tiles, g

LEMMA ReplaceLastTiles ==
  ASSUME NEW q \in Seq(Batches), NEW d \in Batches, NEW b \in Batches,
         NEW R \in SUBSET Reqs, NEW lo, NEW hi,
         b.from = d.from, b.to = d.to, b.window = d.window,
         b.decodes = d.decodes, b.chunks = d.chunks,
         Tiles(Append(q, d), lo, hi, R)
  PROVE  Tiles(Append(q, b), lo, hi, R)
<1> DEFINE f == Append(q, d)
           g == Append(q, b)
<1>1. /\ Len(f) \in Nat /\ Len(g) = Len(f) /\ f # <<>> /\ g # <<>>
      /\ \A i \in 1..Len(f) : g[i] = f[i] \/ (g[i] = b /\ f[i] = d)
  BY AppendProperties
<1>2. \A i \in 1..Len(f) : /\ g[i].from = f[i].from /\ g[i].to = f[i].to
                           /\ WellFormed(f[i]) => WellFormed(g[i])
  BY <1>1 DEF WellFormed, Members
<1> HIDE DEF f, g
<1>3. Tiles(f, lo, hi, R)
  BY DEF f
<1>4. \A i \in 1..Len(g) : WellFormed(g[i]) /\ \A r \in Reqs : g[i].to[r] <= hi[r]
  BY <1>1, <1>2, <1>3 DEF Tiles
<1>5. \A i, j \in 1..Len(g) : i < j => \A r \in Reqs : g[i].to[r] <= g[j].from[r]
  BY <1>1, <1>2, <1>3 DEF Tiles
<1>6. 1 \in 1..Len(f) /\ Len(f) \in 1..Len(f)
  BY <1>1, AppendProperties DEF f
<1>7. ASSUME NEW r \in R
      PROVE  /\ g[1].from[r] = lo[r] /\ g[Len(g)].to[r] = hi[r]
             /\ \A i \in 1..(Len(g) - 1) : g[i].to[r] = g[i + 1].from[r]
             /\ \A i \in 1..Len(g) : lo[r] <= g[i].from[r]
  <2>1. /\ f[1].from[r] = lo[r] /\ f[Len(f)].to[r] = hi[r]
        /\ \A i \in 1..(Len(f) - 1) : f[i].to[r] = f[i + 1].from[r]
        /\ \A i \in 1..Len(f) : lo[r] <= f[i].from[r]
    BY <1>1, <1>3 DEF Tiles
  <2>2. \A i \in 1..(Len(f) - 1) : i \in 1..Len(f) /\ i + 1 \in 1..Len(f)
    BY <1>1
  <2> QED
    BY <2>1, <2>2, <1>1, <1>2, <1>6
<1> QED
  BY <1>1, <1>4, <1>5, <1>7 DEF Tiles, g

-------------------------------------------------------------------------------
(* What the parts of a step do to the invariant. *)

LEMMA FlightType ==
  ASSUME TypeOK
  PROVE  /\ Flight \in Seq(Batches)
         /\ deferred # None => deferred \in Batches
         /\ Running \subseteq Alive /\ Alive \subseteq Reqs
BY DEF TypeOK, Flight, Running, Alive

LEMMA FlightMembers ==
  ASSUME TypeOK, NEW i \in 1..Len(Flight)
  PROVE  Members(Flight[i]) \subseteq Reqs
<1>1. Flight[i] \in Batches
  BY FlightType, ElementOfSeq
<1> QED
  BY <1>1 DEF Batches, Members

LEMMA BatchOfFacts ==
  ASSUME TypeOK, NEW D \in SUBSET Reqs, NEW C \in SUBSET (Reqs \ D),
         NEW w \in [Reqs -> 0..NumSpec]
  PROVE  /\ BatchOf(D, C, w) \in Batches
         /\ WellFormed(BatchOf(D, C, w))
         /\ BatchOf(D, C, w).from = scheduled
         /\ BatchOf(D, C, w).decodes = D
         /\ Members(BatchOf(D, C, w)) = D \cup C
         /\ BatchOf(D, C, w).seen = settled
<1> DEFINE b == BatchOf(D, C, w)
<1>1. \A r \in Reqs : w[r] \in Nat /\ scheduled[r] \in Nat /\ ChunkShare \in Nat
  BY EngineAssumption DEF TypeOK
<1>2. \A r \in Reqs : b.to[r] = scheduled[r] + (CASE r \in D -> 1 + w[r]
                                                 [] r \in C -> ChunkShare
                                                 [] OTHER   -> 0)
  BY DEF BatchOf
<1>3. /\ b.from = scheduled /\ b.decodes = D /\ b.chunks = C /\ b.seen = settled
      /\ b.window = [r \in Reqs |-> IF r \in D THEN w[r] ELSE 0]
      /\ b.to = [r \in Reqs |-> b.to[r]]
      /\ b.origin = [r \in Reqs |-> Placeholder]
      /\ b = [decodes |-> b.decodes, chunks |-> b.chunks, from |-> b.from,
              to |-> b.to, window |-> b.window, seen |-> b.seen,
              origin |-> b.origin]
  BY DEF BatchOf
<1> HIDE DEF b
<1>4. \A r \in Reqs : /\ r \in D => b.to[r] = scheduled[r] + 1 + w[r]
                      /\ r \in C => b.to[r] = scheduled[r] + ChunkShare
                      /\ r \notin D \cup C => b.to[r] = scheduled[r]
  BY <1>1, <1>2
<1>5. WellFormed(b)
  BY <1>1, <1>3, <1>4 DEF WellFormed, Members
<1>6. /\ b.to \in [Reqs -> Nat] /\ b.from \in [Reqs -> Nat]
      /\ b.window \in [Reqs -> Nat] /\ b.seen \in [Reqs -> Nat]
      /\ b.origin \in [Reqs -> Int]
  <2>1. \A r \in Reqs : b.to[r] \in Nat
    BY <1>1, <1>4
  <2> QED
    BY <2>1, <1>1, <1>3 DEF TypeOK, Placeholder
<1>7. b \in Batches
  BY <1>3, <1>6 DEF Batches
<1> QED
  BY <1>3, <1>5, <1>7 DEF Members, b

LEMMA MergeType ==
  ASSUME NEW h \in DraftMaps, NEW b \in Batches, MergeDrafts(h, b)
  PROVE  drafts' \in DraftMaps
<1>1. Members(b) \in SUBSET Reqs /\ b.to \in [Reqs -> Nat]
  BY DEF Batches, Members
<1> QED
  BY <1>1, SetDraftTokensType DEF MergeDrafts

\* A step that schedules the batch b.
LEMMA ScheduleFlight ==
  ASSUME IInv, pc = "schedule", NEW b \in Batches, WellFormed(b),
         b.from = scheduled, Members(b) \subseteq Running,
         UpdateAfterSchedule(b), Flight' = Append(queue, b)
  PROVE  /\ Tiles(Flight, settled, scheduled, Alive)'
         /\ CounterExact'
         /\ NewNotInFlight'
         /\ status' = status /\ settled' = settled /\ scheduled' = b.to
         /\ decoding' \subseteq Reqs
         /\ cool' \in [Reqs -> Nat]
         /\ inFlight' \in [Reqs -> Nat]
         /\ scheduled' \in [Reqs -> Nat]
<1>1. Flight = queue /\ deferred = None
  BY DEF IInv, DeferredIsNewest, Flight
<1>2. status' = status /\ settled' = settled /\ scheduled' = b.to /\ Alive' = Alive
  BY DEF UpdateAfterSchedule, Alive
<1>3. TypeOK
  BY DEF IInv
<1>4. Tiles(Append(queue, b), settled, b.to, Alive)
  BY <1>1, <1>3, AppendTiles, FlightType DEF IInv, TypeOK
<1>5. Tiles(Flight, settled, scheduled, Alive)'
  BY <1>2, <1>4
<1>6. b.to \in [Reqs -> Nat] /\ b.from \in [Reqs -> Nat] /\ b.decodes \subseteq Reqs
  BY DEF Batches
<1>7. \A r \in Reqs : inFlight'[r] = inFlight[r] + (b.to[r] - scheduled[r])
  BY DEF UpdateAfterSchedule, OwnShare
<1>8. CounterExact'
  <2> SUFFICES ASSUME NEW r \in Alive
               PROVE  inFlight'[r] = scheduled'[r] - settled'[r]
    BY <1>2 DEF CounterExact
  <2>1. r \in Reqs /\ inFlight[r] = scheduled[r] - settled[r]
    BY DEF IInv, CounterExact, Alive
  <2>2. scheduled[r] \in Nat /\ settled[r] \in Nat /\ b.to[r] \in Nat
    BY <1>3, <1>6, <2>1 DEF TypeOK
  <2> QED
    BY <1>2, <1>7, <2>1, <2>2
<1>9. inFlight' \in [Reqs -> Nat]
  BY <1>3, <1>6 DEF UpdateAfterSchedule, OwnShare, TypeOK, WellFormed
<1>10. decoding' \subseteq Reqs /\ scheduled' \in [Reqs -> Nat]
  BY <1>3, <1>6 DEF UpdateAfterSchedule, TypeOK
<1>11. cool' \in [Reqs -> Nat]
  <2>1. StepsToSkip \in Nat
    BY EngineAssumption DEF StepsToSkip
  <2> QED
    BY <1>3, <2>1 DEF UpdateAfterSchedule, TypeOK
<1>12. NewNotInFlight'
  <2> SUFFICES ASSUME NEW i \in 1..Len(Flight'), NEW r \in Members(Flight'[i])
               PROVE  status[r] # "new"
    BY <1>2 DEF NewNotInFlight, Members
  <2>1. queue \in Seq(Batches) /\ Len(queue) \in Nat
    BY <1>3 DEF TypeOK
  <2>2. CASE i \in 1..Len(queue)
    BY <2>1, <2>2, <1>1, AppendProperties DEF IInv, NewNotInFlight
  <2>3. CASE i = Len(queue) + 1
    BY <2>1, <2>3, AppendProperties DEF Running
  <2> QED
    BY <2>1, <2>2, <2>3, AppendProperties
<1> QED
  BY <1>2, <1>5, <1>8, <1>9, <1>10, <1>11, <1>12

\* What the delivery of a batch changes, request by request.
LEMMA UpdateFacts ==
  ASSUME IInv, queue # <<>>, NEW accepted \in Accepted(Head(queue)), NEW fin,
         UpdateFromOutput(Head(queue), accepted, fin)
  PROVE  /\ \A r \in Reqs : status'[r] = status[r] \/ status'[r] = "gone"
         /\ status' \in [Reqs -> {"new", "running", "gone"}]
         /\ aborts' = {} /\ decoding' = decoding /\ cool' = cool
         /\ scheduled' = scheduled
         /\ settled' \in [Reqs -> Nat] /\ inFlight' \in [Reqs -> Nat]
         /\ result' \in [Reqs -> Nat]
         /\ \A r \in Reqs : status'[r] # "gone" =>
              /\ settled'[r] = Head(queue).to[r]
              /\ inFlight'[r] = scheduled[r] - settled'[r]
         /\ \A r \in Reqs : result'[r] - result[r] = settled'[r] - settled[r]
<1> DEFINE b == Head(queue)
           alive == {r \in Members(b) : status[r] = "running" /\ r \notin aborts}
<1>1. /\ b \in Batches /\ b = Flight[1] /\ Flight # <<>> /\ Len(Flight) \in Nat
      /\ 1 \in 1..Len(Flight)
  <2>1. queue \in Seq(Batches) /\ Flight \in Seq(Batches)
    BY FlightType DEF IInv, TypeOK
  <2>2. queue[1] \in Batches /\ Len(queue) \in Nat \ {0} /\ Head(queue) = queue[1]
    BY <2>1
  <2>3. CASE deferred = None
    BY <2>1, <2>2, <2>3 DEF Flight
  <2>4. CASE deferred # None
    <3>1. deferred \in Batches
      BY <2>4 DEF IInv, TypeOK
    <3>2. Flight = Append(queue, deferred)
      BY <2>4 DEF Flight
    <3> QED
      BY <2>1, <2>2, <3>1, <3>2, AppendProperties
  <2> QED
    BY <2>3, <2>4
<1>2. /\ WellFormed(b)
      /\ \A r \in Reqs : b.to[r] <= scheduled[r]
      /\ \A r \in Alive : b.from[r] = settled[r]
      /\ \A r \in Members(b) : status[r] # "new"
  BY <1>1 DEF IInv, Tiles, NewNotInFlight
<1>3. /\ b.to \in [Reqs -> Nat] /\ b.from \in [Reqs -> Nat]
      /\ b.window \in [Reqs -> Nat] /\ Members(b) \subseteq Reqs
      /\ b.decodes \subseteq Members(b)
  BY <1>1 DEF Batches, Members
<1>4. \A r \in Reqs : accepted[r] \in Nat
  BY EngineAssumption DEF Accepted
<1>5. TypeOK
  BY DEF IInv
<1> HIDE DEF b
<1>6. /\ fin \subseteq alive
      /\ status' = [r \in Reqs |-> IF r \in aborts \cup fin THEN "gone" ELSE status[r]]
      /\ aborts' = {} /\ decoding' = decoding /\ cool' = cool /\ scheduled' = scheduled
      /\ inFlight' = [r \in Reqs |-> IF r \in alive
                                     THEN inFlight[r] - SettledBy(b, accepted, r)
                                     ELSE inFlight[r]]
      /\ settled' = [r \in Reqs |-> IF r \in alive THEN b.to[r] ELSE settled[r]]
      /\ result' = MergeOutputs(result, b, alive)
  BY DEF UpdateFromOutput, b
<1>7. \A r \in alive : SettledBy(b, accepted, r) = b.to[r] - b.from[r]
  <2> TAKE r \in alive
  <2>1. r \in Reqs
    BY <1>3
  <2>2. CASE r \in b.decodes
    BY <2>1, <2>2, <1>2, <1>3, <1>4 DEF SettledBy, WellFormed
  <2>3. CASE r \notin b.decodes
    BY <2>3 DEF SettledBy, OwnShare
  <2> QED
    BY <2>2, <2>3
<1>8. alive \subseteq Alive /\ alive \subseteq Reqs
  BY <1>3 DEF Alive
<1>9. \A r \in alive : /\ inFlight[r] = scheduled[r] - b.from[r]
                       /\ b.from[r] = settled[r] /\ b.from[r] <= b.to[r]
                       /\ b.to[r] <= scheduled[r]
  BY <1>2, <1>8 DEF IInv, CounterExact, WellFormed
<1> HIDE DEF alive
<1>10. settled' \in [Reqs -> Nat]
  BY <1>3, <1>5, <1>6 DEF TypeOK
<1>11. \A r \in Reqs : inFlight'[r] = IF r \in alive THEN scheduled[r] - b.to[r]
                                                      ELSE inFlight[r]
  <2> TAKE r \in Reqs
  <2>1. CASE r \in alive
    <3>1. scheduled[r] \in Nat /\ b.from[r] \in Nat /\ b.to[r] \in Nat
      BY <1>3, <1>5 DEF TypeOK
    <3>2. inFlight'[r] = (scheduled[r] - b.from[r]) - (b.to[r] - b.from[r])
      BY <2>1, <1>6, <1>7, <1>9
    <3> QED
      BY <2>1, <3>1, <3>2
  <2>2. CASE r \notin alive
    BY <2>2, <1>6
  <2> QED
    BY <2>1, <2>2
<1>12. inFlight' \in [Reqs -> Nat]
  <2>1. \A r \in Reqs : inFlight'[r] \in Nat
    <3> TAKE r \in Reqs
    <3>1. /\ scheduled[r] \in Nat /\ b.to[r] \in Nat /\ inFlight[r] \in Nat
          /\ b.to[r] <= scheduled[r]
      BY <1>2, <1>3, <1>5 DEF TypeOK
    <3> QED
      BY <3>1, <1>11
  <2>2. inFlight' = [r \in Reqs |-> inFlight'[r]]
    BY <1>6
  <2> QED
    BY <2>1, <2>2
<1>13. \A r \in Reqs : /\ result'[r] \in Nat
                       /\ result'[r] - result[r] = settled'[r] - settled[r]
  <2> TAKE r \in Reqs
  <2>1. result[r] \in Nat /\ settled[r] \in Nat /\ b.to[r] \in Nat /\ b.from[r] \in Nat
    BY <1>3, <1>5 DEF TypeOK
  <2>2. result'[r] = result[r] + (IF r \in alive THEN b.to[r] - b.from[r] ELSE 0)
    BY <1>6 DEF MergeOutputs, OwnShare
  <2>3. settled'[r] = IF r \in alive THEN b.to[r] ELSE settled[r]
    BY <1>6
  <2>4. r \in alive => b.from[r] = settled[r] /\ b.from[r] <= b.to[r]
    BY <1>9
  <2> QED
    BY <2>1, <2>2, <2>3, <2>4
<1>14. result' \in [Reqs -> Nat]
  <2>1. result' = [r \in Reqs |-> result'[r]]
    BY <1>6 DEF MergeOutputs
  <2> QED
    BY <2>1, <1>13
<1>15. ASSUME NEW r \in Reqs, status'[r] # "gone"
       PROVE  settled'[r] = b.to[r] /\ inFlight'[r] = scheduled[r] - settled'[r]
  <2>1. CASE r \in alive
    BY <2>1, <1>6, <1>11
  <2>2. CASE r \notin alive
    <3>1. r \in Alive /\ r \notin aborts
      BY <1>5, <1>6, <1>15 DEF Alive, TypeOK
    <3>2. r \notin Members(b)
      BY <2>2, <3>1, <1>2, <1>5 DEF alive, Alive, TypeOK
    <3>3. b.to[r] = b.from[r] /\ b.from[r] = settled[r]
      BY <3>1, <3>2, <1>2 DEF WellFormed
    <3> QED
      BY <2>2, <3>1, <3>3, <1>6, <1>11 DEF IInv, CounterExact
  <2> QED
    BY <2>1, <2>2
<1>16. /\ \A r \in Reqs : status'[r] = status[r] \/ status'[r] = "gone"
       /\ status' \in [Reqs -> {"new", "running", "gone"}]
  BY <1>5, <1>6 DEF TypeOK
<1> QED
  BY <1>6, <1>10, <1>12, <1>13, <1>14, <1>15, <1>16 DEF b

\* A step that pops and processes the oldest batch.
LEMMA PopFlight ==
  ASSUME IInv, queue # <<>>, PopAndProcessBatch, deferred' = deferred,
         drafts' = drafts, returned' = returned,
         pc' = "drain", pc \in {"pop", "drain"}
  PROVE  IInv'
<1>1. PICK accepted \in Accepted(Head(queue)), fin \in SUBSET Head(queue).decodes :
        UpdateFromOutput(Head(queue), accepted, fin)
  BY DEF PopAndProcessBatch
<1>2. queue' = Tail(queue)
  BY DEF PopAndProcessBatch
<1>3. TypeOK /\ queue \in Seq(Batches) /\ Flight \in Seq(Batches)
  BY FlightType DEF IInv, TypeOK
<1>4. /\ queue' \in Seq(Batches) /\ Len(queue) \in Nat \ {0}
      /\ Len(queue') = Len(queue) - 1
      /\ \A i \in 1..Len(queue') : queue'[i] = queue[i + 1] /\ i + 1 \in 1..Len(queue)
      /\ Head(queue) = queue[1]
  BY <1>2, <1>3
<1>5. Flight # <<>> /\ Flight' = Tail(Flight) /\ Flight[1] = Head(queue)
  <2>1. CASE deferred = None
    BY <2>1, <1>2, <1>4 DEF Flight
  <2>2. CASE deferred # None
    <3>1. deferred \in Batches /\ Flight = Append(queue, deferred)
          /\ Flight' = Append(Tail(queue), deferred)
      BY <2>2, <1>2, <1>3 DEF Flight, TypeOK
    <3>2. Tail(Append(queue, deferred)) = Append(Tail(queue), deferred)
      BY <1>3, HeadTailAppend
    <3>3. Append(queue, deferred)[1] = queue[1] /\ Append(queue, deferred) # <<>>
      BY <3>1, <1>3, <1>4, AppendProperties
    <3> QED
      BY <3>1, <3>2, <3>3, <1>4
  <2> QED
    BY <2>1, <2>2
<1>6. /\ \A r \in Reqs : status'[r] = status[r] \/ status'[r] = "gone"
      /\ scheduled' = scheduled
      /\ settled' \in [Reqs -> Nat]
      /\ \A r \in Reqs : status'[r] # "gone" =>
            /\ settled'[r] = Head(queue).to[r]
            /\ inFlight'[r] = scheduled[r] - settled'[r]
      /\ \A r \in Reqs : result'[r] - result[r] = settled'[r] - settled[r]
  BY <1>1, UpdateFacts
<1>7. TypeOK'
  <2>1. /\ status' \in [Reqs -> {"new", "running", "gone"}]
        /\ aborts' = {} /\ decoding' = decoding /\ cool' = cool
        /\ inFlight' \in [Reqs -> Nat] /\ result' \in [Reqs -> Nat]
    BY <1>1, UpdateFacts
  <2> QED
    BY <2>1, <1>3, <1>4, <1>6 DEF TypeOK
<1>8. Alive' \subseteq Alive /\ Running' \subseteq Running
  BY <1>6 DEF Alive, Running
<1>9. Tiles(Flight, settled, scheduled, Alive)'
  <2>1. \A r \in Alive' : settled'[r] = Flight[1].to[r]
    BY <1>5, <1>6 DEF Alive
  <2>2. Tiles(Tail(Flight), settled', scheduled, Alive')
    <3>1. /\ Tiles(Flight, settled, scheduled, Alive)
          /\ Alive \in SUBSET Reqs /\ Alive' \in SUBSET Alive
          /\ settled \in [Reqs -> Nat] /\ scheduled \in [Reqs -> Nat]
      BY <1>3, <1>8, FlightType DEF IInv, TypeOK
    <3> QED
      BY <3>1, <2>1, <1>3, <1>5, <1>6, TailTiles
  <2> QED
    BY <2>2, <1>5, <1>6
<1>10. CounterExact'
  BY <1>6 DEF CounterExact, Alive
<1>11. NewNotInFlight'
  <2>1. /\ Len(Flight') = Len(Flight) - 1 /\ Len(Flight) \in Nat
        /\ \A i \in 1..Len(Flight') : Flight'[i] = Flight[i + 1]
    BY <1>3, <1>5
  <2>2. \A i \in 1..Len(Flight) : Members(Flight[i]) \subseteq Reqs
    BY <1>3, FlightMembers
  <2> SUFFICES ASSUME NEW i \in 1..Len(Flight'), NEW r \in Members(Flight'[i])
               PROVE  status'[r] # "new"
    BY DEF NewNotInFlight, Members
  <2>3. i + 1 \in 1..Len(Flight) /\ r \in Members(Flight[i + 1])
    BY <2>1
  <2> QED
    BY <2>2, <2>3, <1>6 DEF IInv, NewNotInFlight
<1>12. DeferredIsNewest'
  BY <1>6 DEF IInv, DeferredIsNewest
<1>13. MaskFresh'
  BY <1>4, <1>8 DEF IInv, MaskFresh
<1>14. OutputsConserved'
  <2> SUFFICES ASSUME NEW r \in Reqs PROVE returned'[r] + result'[r] = settled'[r]
    BY DEF OutputsConserved
  <2>1. /\ returned[r] + result[r] = settled[r]
        /\ result'[r] - result[r] = settled'[r] - settled[r]
    BY <1>6 DEF IInv, OutputsConserved
  <2>2. /\ returned[r] \in Nat /\ result[r] \in Nat /\ settled[r] \in Nat
        /\ result'[r] \in Nat /\ settled'[r] \in Nat
    BY <1>3, <1>7 DEF TypeOK
  <2> QED
    BY <2>1, <2>2
<1> QED
  BY <1>7, <1>9, <1>10, <1>11, <1>12, <1>13, <1>14 DEF IInv

-------------------------------------------------------------------------------
(* The invariant is inductive. *)

LEMMA InitInv == Init => IInv
<1> SUFFICES ASSUME Init PROVE IInv
  OBVIOUS
<1>1. TypeOK
  BY DEF Init, TypeOK, DraftMaps, EmptyDraftMap, Placeholder
<1>2. Flight = <<>> /\ queue = <<>> /\ Len(<<>>) = 0
  BY DEF Init, Flight
<1>3. Tiles(Flight, settled, scheduled, Alive)
  BY <1>2 DEF Init, Tiles, Alive
<1>4. CounterExact /\ NewNotInFlight /\ DeferredIsNewest /\ MaskFresh /\ OutputsConserved
  BY <1>2 DEF Init, CounterExact, NewNotInFlight, DeferredIsNewest, MaskFresh,
              OutputsConserved, Alive
<1> QED
  BY <1>1, <1>3, <1>4 DEF IInv

LEMMA ArriveInv ==
  ASSUME IInv, NEW r \in Reqs, Arrive(r)
  PROVE  IInv'
<1> USE DEF Arrive
<1>1. TypeOK /\ TypeOK'
  BY DEF IInv, TypeOK
<1>2. /\ Flight' = Flight /\ Alive' = Alive /\ Running' = Running \cup {r}
      /\ status[r] = "new" /\ \A s \in Reqs \ {r} : status'[s] = status[s]
  BY <1>1 DEF Flight, Alive, Running, TypeOK
<1>3. Tiles(Flight, settled, scheduled, Alive)'
  BY <1>2 DEF IInv
<1>4. CounterExact' /\ DeferredIsNewest' /\ OutputsConserved'
  BY <1>2 DEF IInv, CounterExact, DeferredIsNewest, OutputsConserved
<1>5. NewNotInFlight'
  <2>1. status' = [status EXCEPT ![r] = "running"]
    OBVIOUS
  <2>2. \A i \in 1..Len(Flight) : Members(Flight[i]) \subseteq Reqs
    BY <1>1, FlightMembers
  <2> SUFFICES ASSUME NEW i \in 1..Len(Flight), NEW s \in Members(Flight[i])
               PROVE  status'[s] # "new"
    BY <1>2 DEF NewNotInFlight, Members
  <2> QED
    BY <2>1, <2>2, <1>1 DEF IInv, NewNotInFlight, TypeOK
<1>6. MaskFresh'
  <2>1. queue = Flight /\ queue' = queue
    BY DEF IInv, DeferredIsNewest, Flight
  <2>2. \A i \in 1..Len(queue) : r \notin queue[i].decodes
    BY <1>2, <2>1 DEF IInv, NewNotInFlight, Members
  <2> QED
    BY <1>2, <2>1, <2>2 DEF IInv, MaskFresh
<1> QED
  BY <1>1, <1>3, <1>4, <1>5, <1>6 DEF IInv

LEMMA ClientAbortInv ==
  ASSUME IInv, NEW r \in Reqs, ClientAbort(r)
  PROVE  IInv'
<1>1. /\ Flight' = Flight /\ Alive' = Alive /\ Running' = Running
      /\ TypeOK' /\ settled' = settled /\ scheduled' = scheduled
  BY DEF ClientAbort, requestVars, IInv, TypeOK, Flight, Alive, Running
<1> QED
  BY <1>1 DEF ClientAbort, requestVars, IInv, CounterExact, NewNotInFlight,
              DeferredIsNewest, MaskFresh, OutputsConserved, Members

LEMMA ScheduleImmediateInv ==
  ASSUME IInv, NEW D \in SUBSET Running, NEW C \in SUBSET (Running \ D),
         NEW w \in [Reqs -> 0..NumSpec], ScheduleImmediate(D, C, w)
  PROVE  IInv'
<1> DEFINE b == BatchOf(D, C, w)
<1>1. TypeOK /\ Running \subseteq Reqs /\ queue \in Seq(Batches) /\ drafts \in DraftMaps
  BY DEF IInv, TypeOK, Running
<1>2. /\ b \in Batches /\ WellFormed(b) /\ b.from = scheduled /\ b.decodes = D
      /\ Members(b) = D \cup C /\ b.seen = settled
  <2>1. D \in SUBSET Reqs
    BY <1>1
  <2>2. C \in SUBSET (Reqs \ D)
    BY <1>1
  <2>3. TypeOK
    BY <1>1
  <2> QED
    BY <2>1, <2>2, <2>3, BatchOfFacts
<1>3. /\ pc = "schedule" /\ ~PendingStructuredOutput(D) /\ UpdateAfterSchedule(b)
      /\ MergeDrafts(drafts, b) /\ queue' = Append(queue, b)
      /\ pc' \in {"schedule", "pop"} /\ deferred' = deferred /\ aborts' = aborts
      /\ result' = result /\ returned' = returned
  BY DEF ScheduleImmediate, AppendLeft
<1> HIDE DEF b
<1>4. deferred = None /\ Flight' = Append(queue, b)
  BY <1>3 DEF IInv, DeferredIsNewest, Flight
<1>5. /\ Tiles(Flight, settled, scheduled, Alive)' /\ CounterExact' /\ NewNotInFlight'
      /\ status' = status /\ settled' = settled /\ scheduled' = b.to
      /\ decoding' \subseteq Reqs /\ cool' \in [Reqs -> Nat]
      /\ inFlight' \in [Reqs -> Nat] /\ scheduled' \in [Reqs -> Nat]
  BY <1>2, <1>3, <1>4, ScheduleFlight
<1>6. TypeOK'
  <2>1. queue' \in Seq(Batches)
    BY <1>1, <1>2, <1>3
  <2>2. drafts' \in DraftMaps
    BY <1>1, <1>2, <1>3, MergeType
  <2> QED
    BY <2>1, <2>2, <1>1, <1>3, <1>5 DEF TypeOK
<1>7. DeferredIsNewest' /\ OutputsConserved'
  BY <1>3, <1>4, <1>5 DEF IInv, DeferredIsNewest, OutputsConserved
<1>8. MaskFresh'
  <2> SUFFICES ASSUME NEW i \in 1..Len(queue'),
                      NEW r \in queue'[i].decodes \cap Structured \cap Running
               PROVE  queue'[i].seen[r] = queue'[i].from[r]
    BY <1>5 DEF MaskFresh, Running
  <2>1. CASE i \in 1..Len(queue)
    BY <2>1, <1>1, <1>2, <1>3, AppendProperties DEF IInv, MaskFresh
  <2>2. CASE i = Len(queue) + 1
    <3>1. queue'[i] = b /\ r \in D \cap Structured /\ r \in Alive
      BY <2>2, <1>1, <1>2, <1>3, AppendProperties DEF Running, Alive
    <3>2. inFlight[r] = 0
      BY <3>1, <1>1, <1>3 DEF PendingStructuredOutput, TypeOK
    <3>3. settled[r] = scheduled[r]
      BY <3>1, <3>2, <1>1 DEF IInv, CounterExact, TypeOK, Alive
    <3> QED
      BY <3>1, <3>3, <1>2
  <2> QED
    BY <2>1, <2>2, <1>1, <1>2, <1>3, AppendProperties
<1> QED
  BY <1>5, <1>6, <1>7, <1>8 DEF IInv

LEMMA ScheduleDeferredInv ==
  ASSUME IInv, NEW D \in SUBSET Running, NEW C \in SUBSET (Running \ D),
         NEW w \in [Reqs -> 0..NumSpec], ScheduleDeferred(D, C, w)
  PROVE  IInv'
<1> DEFINE b == BatchOf(D, C, w)
<1>1. TypeOK /\ Running \subseteq Reqs
  BY DEF IInv, Running
<1>2. /\ b \in Batches /\ WellFormed(b) /\ b.from = scheduled
      /\ Members(b) = D \cup C
  <2>1. D \in SUBSET Reqs
    BY <1>1
  <2>2. C \in SUBSET (Reqs \ D)
    BY <1>1
  <2>3. TypeOK
    BY <1>1
  <2> QED
    BY <2>1, <2>2, <2>3, BatchOfFacts
<1>3. /\ pc = "schedule" /\ UpdateAfterSchedule(b) /\ deferred' = b /\ pc' = "pop"
      /\ queue' = queue /\ aborts' = aborts /\ drafts' = drafts
      /\ result' = result /\ returned' = returned
  BY DEF ScheduleDeferred
<1> HIDE DEF b
<1>4. Flight' = Append(queue, b)
  BY <1>2, <1>3, NoneAssumption DEF Flight
<1>5. /\ Tiles(Flight, settled, scheduled, Alive)' /\ CounterExact' /\ NewNotInFlight'
      /\ status' = status /\ settled' = settled /\ scheduled' = b.to
      /\ decoding' \subseteq Reqs /\ cool' \in [Reqs -> Nat]
      /\ inFlight' \in [Reqs -> Nat] /\ scheduled' \in [Reqs -> Nat]
  BY <1>2, <1>3, <1>4, ScheduleFlight
<1>6. TypeOK'
  BY <1>1, <1>2, <1>3, <1>5 DEF TypeOK
<1>7. DeferredIsNewest' /\ OutputsConserved' /\ MaskFresh'
  BY <1>3, <1>5 DEF IInv, DeferredIsNewest, OutputsConserved, MaskFresh, Running
<1> QED
  BY <1>5, <1>6, <1>7 DEF IInv

LEMMA ScheduleEmptyInv ==
  ASSUME IInv, ScheduleEmpty
  PROVE  IInv'
<1> DEFINE b == BatchOf({}, {}, [r \in Reqs |-> 0])
<1>1. TypeOK /\ queue \in Seq(Batches)
  BY DEF IInv, TypeOK
<1>2. /\ b \in Batches /\ WellFormed(b) /\ b.from = scheduled
      /\ b.decodes = {} /\ Members(b) = {}
  <2>1. [r \in Reqs |-> 0] \in [Reqs -> 0..NumSpec]
    BY EngineAssumption
  <2>2. {} \in SUBSET Reqs /\ {} \in SUBSET (Reqs \ {}) /\ {} \cup {} = {}
    OBVIOUS
  <2>3. TypeOK
    BY <1>1
  <2> QED
    BY <2>1, <2>2, <2>3, BatchOfFacts
<1>3. /\ pc = "schedule" /\ UpdateAfterSchedule(b) /\ queue' = Append(queue, b)
      /\ pc' = "pop" /\ deferred' = deferred /\ aborts' = aborts
      /\ drafts' = drafts /\ result' = result /\ returned' = returned
  BY DEF ScheduleEmpty, AppendLeft
<1> HIDE DEF b
<1>4. Flight' = Append(queue, b)
  BY <1>3 DEF IInv, DeferredIsNewest, Flight
<1>5. /\ Tiles(Flight, settled, scheduled, Alive)' /\ CounterExact' /\ NewNotInFlight'
      /\ status' = status /\ settled' = settled /\ scheduled' = b.to
      /\ decoding' \subseteq Reqs /\ cool' \in [Reqs -> Nat]
      /\ inFlight' \in [Reqs -> Nat] /\ scheduled' \in [Reqs -> Nat]
  BY <1>2, <1>3, <1>4, ScheduleFlight
<1>6. TypeOK'
  BY <1>1, <1>2, <1>3, <1>5 DEF TypeOK
<1>7. DeferredIsNewest' /\ OutputsConserved'
  BY <1>3, <1>5 DEF IInv, DeferredIsNewest, OutputsConserved
<1>8. MaskFresh'
  <2> SUFFICES ASSUME NEW i \in 1..Len(queue'),
                      NEW r \in queue'[i].decodes \cap Structured \cap Running
               PROVE  queue'[i].seen[r] = queue'[i].from[r]
    BY <1>5 DEF MaskFresh, Running
  <2>1. i \in 1..Len(queue)
    BY <1>1, <1>2, <1>3, AppendProperties
  <2> QED
    BY <2>1, <1>1, <1>2, <1>3, AppendProperties DEF IInv, MaskFresh
<1> QED
  BY <1>5, <1>6, <1>7, <1>8 DEF IInv

\* A step that changes neither the batches nor the requests.
LEMMA QuietInv ==
  ASSUME IInv, UNCHANGED <<queue, deferred, requestVars, aborts, drafts>>,
         deferred = None \/ pc' # "schedule", pc' \in {"schedule", "pop", "drain"},
         result' \in [Reqs -> Nat], returned' \in [Reqs -> Nat],
         \A r \in Reqs : returned'[r] + result'[r] = settled[r]
  PROVE  IInv'
<1>1. /\ Flight' = Flight /\ Alive' = Alive /\ Running' = Running
      /\ settled' = settled /\ scheduled' = scheduled /\ status' = status
      /\ inFlight' = inFlight
  BY DEF requestVars, Flight, Alive, Running
<1>2. TypeOK'
  BY DEF IInv, TypeOK, requestVars
<1> QED
  BY <1>1, <1>2 DEF IInv, CounterExact, NewNotInFlight, Members,
                    DeferredIsNewest, MaskFresh, OutputsConserved

\* The return of a step moves the step's outputs to the client.
LEMMA ReturnFacts ==
  ASSUME IInv, Return
  PROVE  /\ result' \in [Reqs -> Nat] /\ returned' \in [Reqs -> Nat]
         /\ \A r \in Reqs : returned'[r] + result'[r] = settled[r]
<1>1. /\ returned \in [Reqs -> Nat] /\ result \in [Reqs -> Nat]
      /\ \A r \in Reqs : returned[r] + result[r] = settled[r]
  BY DEF IInv, TypeOK, OutputsConserved
<1> QED
  BY <1>1 DEF Return

LEMMA PopInv ==
  ASSUME IInv, Pop
  PROVE  IInv'
<1>1. CASE queue # <<>>
  BY <1>1, PopFlight DEF Pop
<1>2. CASE queue = <<>>
  <2>1. /\ UNCHANGED <<queue, deferred, requestVars, aborts, drafts>>
        /\ result' = result /\ returned' = returned /\ pc' = "drain"
    BY <1>2 DEF Pop
  <2> QED
    BY <2>1, QuietInv DEF IInv, TypeOK, OutputsConserved
<1> QED
  BY <1>1, <1>2

LEMMA SampleDeferredInv ==
  ASSUME IInv, SampleDeferred
  PROVE  IInv'
<1> DEFINE h == EvictOverCap(drafts)
           b == [deferred EXCEPT
                   !.seen = settled,
                   !.origin = [r \in Reqs |-> IF deferred.window[r] > 0
                                              THEN h.row[r] ELSE Placeholder]]
<1>1. /\ TypeOK /\ queue \in Seq(Batches) /\ deferred \in Batches
      /\ deferred.to = scheduled /\ deferred # None
      /\ settled \in [Reqs -> Nat] /\ drafts \in DraftMaps
  BY DEF IInv, TypeOK, SampleDeferred, DeferredIsNewest
<1>2. h \in DraftMaps
  BY <1>1, EvictType
<1>3. /\ b \in Batches /\ b.from = deferred.from /\ b.to = deferred.to
      /\ b.window = deferred.window /\ b.decodes = deferred.decodes
      /\ b.chunks = deferred.chunks /\ b.seen = settled
  <2> HIDE DEF h
  <2>1. [r \in Reqs |-> IF deferred.window[r] > 0 THEN h.row[r] ELSE Placeholder]
          \in [Reqs -> Int]
    BY <1>2 DEF DraftMaps, Placeholder
  <2> QED
    BY <1>1, <2>1 DEF Batches
<1>4. /\ DrainOver /\ MergeDrafts(h, b) /\ queue' = Append(queue, b)
      /\ deferred' = None /\ Return /\ UNCHANGED <<requestVars, aborts>>
  BY DEF SampleDeferred, AppendLeft
<1> HIDE DEF h, b
<1>5. Flight = Append(queue, deferred) /\ Flight' = Append(queue, b)
  BY <1>1, <1>4 DEF Flight
<1>6. /\ settled' = settled /\ scheduled' = scheduled /\ status' = status
      /\ inFlight' = inFlight /\ Alive' = Alive /\ Running' = Running
  BY <1>4 DEF requestVars, Alive, Running
<1>7. /\ result' \in [Reqs -> Nat] /\ returned' \in [Reqs -> Nat]
      /\ OutputsConserved'
  BY <1>4, <1>6, ReturnFacts DEF OutputsConserved
<1>8. TypeOK'
  <2>1. drafts' \in DraftMaps
    BY <1>2, <1>3, <1>4, MergeType
  <2>2. queue' \in Seq(Batches)
    BY <1>1, <1>3, <1>4
  <2>3. pc' = "schedule"
    BY <1>4 DEF Return
  <2> QED
    BY <2>1, <2>2, <2>3, <1>1, <1>4, <1>7 DEF TypeOK, requestVars
<1>9. Tiles(Flight, settled, scheduled, Alive)'
  <2>1. Tiles(Append(queue, deferred), settled, scheduled, Alive)
    BY <1>5 DEF IInv
  <2>2. Alive \in SUBSET Reqs
    BY DEF Alive
  <2>3. Tiles(Append(queue, b), settled, scheduled, Alive)
    BY <2>1, <2>2, <1>1, <1>3, ReplaceLastTiles
  <2> QED
    BY <2>3, <1>5, <1>6
<1>10. CounterExact' /\ DeferredIsNewest'
  BY <1>4, <1>6 DEF IInv, CounterExact, DeferredIsNewest
<1>11. NewNotInFlight'
  <2> SUFFICES ASSUME NEW i \in 1..Len(Flight'), NEW r \in Members(Flight'[i])
               PROVE  status[r] # "new"
    BY <1>6 DEF NewNotInFlight, Members
  <2>1. i \in 1..Len(Flight) /\ Members(Flight'[i]) = Members(Flight[i])
    <3>1. /\ Len(Flight') = Len(Flight) /\ Len(Flight) = Len(queue) + 1
          /\ Len(queue) \in Nat
      BY <1>1, <1>3, <1>5, AppendProperties
    <3>2. CASE i = Len(queue) + 1
      BY <3>1, <3>2, <1>1, <1>3, <1>5, AppendProperties DEF Members
    <3>3. CASE i \in 1..Len(queue)
      BY <3>1, <3>3, <1>1, <1>3, <1>5, AppendProperties
    <3> QED
      BY <3>1, <3>2, <3>3
  <2> QED
    BY <2>1 DEF IInv, NewNotInFlight
<1>12. MaskFresh'
  <2> SUFFICES ASSUME NEW i \in 1..Len(queue'),
                      NEW r \in queue'[i].decodes \cap Structured \cap Running
               PROVE  queue'[i].seen[r] = queue'[i].from[r]
    BY <1>6 DEF MaskFresh
  <2>1. CASE i \in 1..Len(queue)
    BY <2>1, <1>1, <1>3, <1>4, AppendProperties DEF IInv, MaskFresh
  <2>2. CASE i = Len(queue) + 1
    <3>1. queue'[i] = b /\ r \in deferred.decodes /\ r \in Structured
      BY <2>2, <1>1, <1>3, <1>4, AppendProperties
    <3>2. r \in Reqs /\ status[r] = "running" /\ r \in Alive
      BY DEF Running, Alive
    <3>3. /\ Len(Flight) = Len(queue) + 1 /\ Flight[Len(Flight)] = deferred
          /\ Len(Flight) \in 1..Len(Flight) /\ Flight # <<>>
      BY <1>1, <1>5, AppendProperties
    <3>4. settled[r] <= deferred.from[r]
      BY <3>2, <3>3 DEF IInv, Tiles
    <3>5. CASE queue = <<>>
      <4>1. Flight[1] = deferred
        BY <3>3, <3>5
      <4>2. Flight[1].from[r] = settled[r]
        BY <3>2, <3>3 DEF IInv, Tiles
      <4> QED
        BY <4>1, <4>2, <3>1, <1>3
    <3>6. CASE queue # <<>>
      <4>1. ~(inFlight[r] > OwnShare(deferred, r))
        BY <3>1, <3>2, <3>6, <1>4 DEF DrainOver, HasStructuredOutputInFlight
      <4>2. inFlight[r] = scheduled[r] - settled[r]
        BY <3>2 DEF IInv, CounterExact
      <4>3. /\ scheduled[r] \in Nat /\ settled[r] \in Nat
            /\ deferred.from[r] \in Nat /\ deferred.to[r] = scheduled[r]
        BY <3>2, <1>1 DEF TypeOK, Batches
      <4>4. settled[r] = deferred.from[r]
        BY <4>1, <4>2, <4>3, <3>4 DEF OwnShare
      <4> QED
        BY <4>4, <3>1, <1>3
    <3> QED
      BY <3>5, <3>6
  <2> QED
    BY <2>1, <2>2, <1>1, <1>3, <1>4, AppendProperties
<1> QED
  BY <1>7, <1>8, <1>9, <1>10, <1>11, <1>12 DEF IInv

LEMMA NextInv == IInv /\ [Next]_vars => IInv'
<1> SUFFICES ASSUME IInv, [Next]_vars PROVE IInv'
  OBVIOUS
<1>1. ASSUME NEW r \in Reqs, Arrive(r) PROVE IInv'
  BY <1>1, ArriveInv
<1>2. ASSUME NEW r \in Reqs, ClientAbort(r) PROVE IInv'
  BY <1>2, ClientAbortInv
<1>3. CASE Schedule
  BY <1>3, ScheduleImmediateInv, ScheduleDeferredInv DEF Schedule
<1>4. CASE ScheduleEmpty
  BY <1>4, ScheduleEmptyInv
<1>5. CASE ScheduleNothing
  <2>1. /\ UNCHANGED <<queue, deferred, requestVars, aborts, drafts>>
        /\ result' = result /\ returned' = returned /\ pc' = "pop"
    BY <1>5 DEF ScheduleNothing
  <2> QED
    BY <2>1, QuietInv DEF IInv, TypeOK, OutputsConserved
<1>6. CASE Pop
  BY <1>6, PopInv
<1>7. CASE Drain
  BY <1>7, PopFlight DEF Drain
<1>8. CASE SampleDeferred
  BY <1>8, SampleDeferredInv
<1>9. CASE ReturnImmediate
  <2>1. /\ UNCHANGED <<queue, deferred, requestVars, aborts, drafts>>
        /\ Return /\ deferred = None /\ pc' = "schedule"
    BY <1>9 DEF ReturnImmediate, Return
  <2> QED
    BY <2>1, QuietInv, ReturnFacts
<1>10. CASE UNCHANGED vars
  <2>1. /\ UNCHANGED <<queue, deferred, requestVars, aborts, drafts>>
        /\ result' = result /\ returned' = returned /\ pc' = pc
    BY <1>10 DEF vars
  <2> QED
    BY <2>1, QuietInv DEF IInv, TypeOK, OutputsConserved, DeferredIsNewest
<1> QED
  BY <1>1, <1>2, <1>3, <1>4, <1>5, <1>6, <1>7, <1>8, <1>9, <1>10
  DEF Next, Loop, Environment, Idle

THEOREM Invariance == Spec => []IInv
BY InitInv, NextInv, PTL DEF Spec

-------------------------------------------------------------------------------
(* What the invariant gives. *)

\* The variables always have their types; in particular the counter that
\* apply_0028.py reads never goes below zero, whatever is accepted or aborted.
THEOREM TypeCorrect == Spec => []TypeOK
<1>1. IInv => TypeOK
  BY DEF IInv
<1> QED
  BY <1>1, Invariance, PTL

\* The drain of 0027/0028 is right for every queue depth, rotation and number
\* of requests: no sampled batch carries a mask from a stale grammar.
THEOREM FreshMasks == Spec => []MaskFresh
<1>1. IInv => MaskFresh
  BY DEF IInv
<1> QED
  BY <1>1, Invariance, PTL

\* The counter read by has_structured_output_in_flight is exactly the number
\* of slots in flight (apply_0028.py 50-57).
THEOREM ExactCounter == Spec => []InFlightExact
<1>1. IInv => InFlightExact
  BY FlightType DEF IInv, InFlightExact, CounterExact
<1> QED
  BY <1>1, Invariance, PTL

\* Outputs are applied in the order of their slots, with none skipped.
THEOREM DeliveryInOrder == Spec => []FlightTiles
<1>1. IInv => FlightTiles
  BY FlightType DEF IInv, FlightTiles, Tiles
<1> QED
  BY <1>1, Invariance, PTL

\* The merged result of a step loses no output of the batches it drained.
THEOREM NoOutputLost == Spec => []OutputsConserved
<1>1. IInv => OutputsConserved
  BY DEF IInv
<1> QED
  BY <1>1, Invariance, PTL

\* The deferred batch is the last of the flight.
LEMMA DeferredInFlight ==
  ASSUME IInv, deferred # None
  PROVE  /\ Len(Flight) \in 1..Len(Flight) /\ Flight[Len(Flight)] = deferred
         /\ deferred \in Batches /\ deferred.to = scheduled
         /\ queue = <<>> => Flight[1] = deferred /\ Flight # <<>>
<1>1. /\ deferred \in Batches /\ queue \in Seq(Batches)
      /\ Flight = Append(queue, deferred) /\ deferred.to = scheduled
  BY DEF IInv, TypeOK, Flight, DeferredIsNewest
<1> QED
  BY <1>1, AppendProperties

\* When the drain is over, no grammar of the deferred batch is behind.
LEMMA DrainedIsCaughtUp ==
  ASSUME IInv, deferred # None, DrainOver
  PROVE  ~HasStructuredOutputInFlight(deferred)
<1>1. CASE queue # <<>>
  BY <1>1 DEF DrainOver
<1>2. CASE queue = <<>>
  <2> SUFFICES ASSUME NEW r \in deferred.decodes \cap Structured, status[r] = "running"
               PROVE  ~(inFlight[r] > OwnShare(deferred, r))
    BY DEF HasStructuredOutputInFlight
  <2>1. r \in Reqs /\ r \in Alive
    BY EngineAssumption DEF Alive
  <2>2. Flight # <<>> /\ Flight[1] = deferred /\ deferred.to = scheduled
    BY <1>2, DeferredInFlight
  <2>3. deferred.from[r] = settled[r] /\ inFlight[r] = scheduled[r] - settled[r]
    BY <2>1, <2>2 DEF IInv, Tiles, CounterExact
  <2>4. scheduled[r] \in Nat /\ settled[r] \in Nat
    BY <2>1 DEF IInv, TypeOK
  <2> QED
    BY <2>2, <2>3, <2>4 DEF OwnShare
<1> QED
  BY <1>1, <1>2

\* When the deferred batch is sampled, every grammar in it has caught up, also
\* when the drain stopped because the queue was empty (0027 patch.diff 192:
\* that exit is legitimate).
THEOREM CaughtUpWhenSampled == Spec => DrainCatchesUp
<1> DEFINE CatchUp == deferred # None /\ deferred' = None
                        => ~HasStructuredOutputInFlight(deferred)
<1>1. ASSUME IInv, [Next]_vars PROVE [CatchUp]_vars
  <2> SUFFICES ASSUME deferred # None, deferred' = None
               PROVE  ~HasStructuredOutputInFlight(deferred)
    OBVIOUS
  <2>1. SampleDeferred
    <3>1. ~Schedule
      <4>1. pc # "schedule"
        BY <1>1 DEF IInv, DeferredIsNewest
      <4>2. Schedule => pc = "schedule"
        BY DEF Schedule, ScheduleImmediate, ScheduleDeferred
      <4> QED
        BY <4>1, <4>2
    <3> QED
      BY <1>1, <3>1
      DEF Next, Loop, Environment, Idle, vars, Arrive, ClientAbort, ScheduleEmpty,
          ScheduleNothing, Pop, Drain, ReturnImmediate
  <2> QED
    BY <2>1, <1>1, DrainedIsCaughtUp DEF SampleDeferred
<1> QED
  BY <1>1, Invariance, PTL DEF Spec, DrainCatchesUp

-------------------------------------------------------------------------------
(* The queue. *)

\* While a batch is deferred its place in the queue is kept free.
RoomKept ==
  deferred # None => /\ pc = "pop" => Len(queue) < Depth
                     /\ pc = "drain" => Len(queue) + 1 < Depth

\* A structured request with slots in flight has a batch in the queue.
LEMMA PendingNeedsBatch ==
  ASSUME IInv, pc = "schedule", NEW D \in SUBSET Running, PendingStructuredOutput(D)
  PROVE  queue # <<>>
<1>1. PICK r \in D \cap Structured : inFlight[r] > 0
  BY DEF PendingStructuredOutput
<1>2. r \in Reqs /\ r \in Alive
  BY <1>1 DEF Running, Alive
<1>3. deferred = None /\ Flight = queue
  BY DEF IInv, DeferredIsNewest, Flight
<1>4. inFlight[r] = scheduled[r] - settled[r]
  BY <1>2 DEF IInv, CounterExact
<1>5. scheduled[r] \in Nat /\ settled[r] \in Nat
  BY <1>2 DEF IInv, TypeOK
<1>6. Flight = <<>> => settled[r] = scheduled[r]
  BY <1>2 DEF IInv, Tiles
<1> QED
  BY <1>1, <1>3, <1>4, <1>5, <1>6

LEMMA PopShortens ==
  ASSUME IInv, queue # <<>>, PopAndProcessBatch
  PROVE  Len(queue) \in Nat \ {0} /\ Len(queue') = Len(queue) - 1
<1>1. queue \in Seq(Batches) /\ queue' = Tail(queue)
  BY DEF IInv, TypeOK, PopAndProcessBatch
<1> QED
  BY <1>1, HeadTailProperties, EmptySeq

LEMMA AppendLengthens ==
  ASSUME IInv, NEW b, queue' = AppendLeft(queue, b)
  PROVE  Len(queue) \in Nat /\ Len(queue') = Len(queue) + 1
<1>1. queue \in Seq(Batches)
  BY DEF IInv, TypeOK
<1> QED
  BY <1>1 DEF AppendLeft

LEMMA RoomInv ==
  ASSUME IInv, QueueInBounds, RoomKept, [Next]_vars
  PROVE  QueueInBounds' /\ RoomKept'
<1>1. queue \in Seq(Batches) /\ Len(queue) \in Nat /\ Depth \in Nat \ {0}
  BY EngineAssumption DEF IInv, TypeOK
<1>2. pc = "schedule" => deferred = None
  BY DEF IInv, DeferredIsNewest
<1>3. CASE Schedule
  <2>1. PICK D \in SUBSET Running : \E C, w : \/ ScheduleImmediate(D, C, w)
                                              \/ ScheduleDeferred(D, C, w)
    BY <1>3 DEF Schedule
  <2>2. PICK C, w : ScheduleImmediate(D, C, w) \/ ScheduleDeferred(D, C, w)
    BY <2>1
  <2>3. CASE ScheduleImmediate(D, C, w)
    <3>1. /\ pc = "schedule" /\ deferred' = deferred
          /\ queue' = AppendLeft(queue, BatchOf(D, C, w))
          /\ pc' = "pop" \/ (pc' = "schedule" /\ Len(queue') < Depth)
      BY <2>3 DEF ScheduleImmediate, HasRoom
    <3>2. Len(queue') = Len(queue) + 1
      BY <3>1, AppendLengthens
    <3> QED
      BY <1>1, <1>2, <3>1, <3>2 DEF QueueInBounds, RoomKept
  <2>4. CASE ScheduleDeferred(D, C, w)
    <3>1. /\ pc = "schedule" /\ PendingStructuredOutput(D)
          /\ pc' = "pop" /\ queue' = queue
      BY <2>4 DEF ScheduleDeferred
    <3>2. queue # <<>>
      BY <3>1, PendingNeedsBatch
    <3>3. Len(queue) \in 1..Depth /\ Len(queue) < Depth
      BY <1>1, <3>1, <3>2, EmptySeq DEF QueueInBounds
    <3> QED
      BY <3>1, <3>3 DEF QueueInBounds, RoomKept
  <2> QED
    BY <2>2, <2>3, <2>4
<1>4. CASE ScheduleEmpty
  <2>1. /\ pc = "schedule" /\ pc' = "pop" /\ deferred' = deferred
        /\ \E b : queue' = AppendLeft(queue, b)
    BY <1>4 DEF ScheduleEmpty
  <2>2. Len(queue') = Len(queue) + 1
    BY <2>1, AppendLengthens
  <2> QED
    BY <1>1, <1>2, <2>1, <2>2 DEF QueueInBounds, RoomKept
<1>5. CASE ScheduleNothing
  <2>1. /\ pc = "schedule" /\ pc' = "pop" /\ queue # <<>>
        /\ queue' = queue /\ deferred' = deferred
    BY <1>5 DEF ScheduleNothing
  <2> QED
    BY <1>1, <1>2, <2>1, EmptySeq DEF QueueInBounds, RoomKept
<1>6. CASE Pop
  <2>1. pc = "pop" /\ pc' = "drain" /\ deferred' = deferred /\ queue # <<>>
    BY <1>6 DEF Pop, QueueInBounds
  <2>2. PopAndProcessBatch
    BY <1>6, <2>1 DEF Pop
  <2> QED
    BY <1>1, <2>1, <2>2, PopShortens DEF QueueInBounds, RoomKept
<1>7. CASE Drain
  <2>1. /\ pc = "drain" /\ pc' = pc /\ deferred' = deferred
        /\ queue # <<>> /\ PopAndProcessBatch
    BY <1>7 DEF Drain
  <2> QED
    BY <1>1, <2>1, PopShortens DEF QueueInBounds, RoomKept
<1>8. CASE SampleDeferred
  <2>1. /\ pc = "drain" /\ pc' = "schedule" /\ deferred # None /\ deferred' = None
        /\ \E b : queue' = AppendLeft(queue, b)
    BY <1>8 DEF SampleDeferred, Return
  <2>2. Len(queue') = Len(queue) + 1
    BY <2>1, AppendLengthens
  <2> QED
    BY <1>1, <2>1, <2>2 DEF QueueInBounds, RoomKept
<1>9. CASE ReturnImmediate
  <2>1. pc = "drain" /\ pc' = "schedule" /\ queue' = queue /\ deferred' = None
    BY <1>9 DEF ReturnImmediate, Return
  <2> QED
    BY <2>1 DEF QueueInBounds, RoomKept
<1>10. CASE Environment \/ UNCHANGED vars
  <2>1. pc' = pc /\ queue' = queue /\ deferred' = deferred
    BY <1>10 DEF Environment, Arrive, ClientAbort, vars
  <2> QED
    BY <2>1 DEF QueueInBounds, RoomKept
<1> QED
  BY <1>3, <1>4, <1>5, <1>6, <1>7, <1>8, <1>9, <1>10 DEF Next, Loop, Idle

\* schedule() is never called with a full queue, and the pop of a step always
\* finds a batch, in the deferred branch too (the crash of 0027's first
\* version); while a batch is deferred there is room to queue it.
THEOREM QueueBounded == Spec => []QueueInBounds
<1>1. Init => QueueInBounds /\ RoomKept
  BY EngineAssumption DEF Init, QueueInBounds, RoomKept
<1>2. IInv /\ (QueueInBounds /\ RoomKept) /\ [Next]_vars
        => (QueueInBounds /\ RoomKept)'
  BY RoomInv
<1> QED
  BY <1>1, <1>2, Invariance, PTL DEF Spec

-------------------------------------------------------------------------------
(* The invariant behind the refinement. *)

\* A structured request is decoded by at most one batch of the queue, the one
\* that starts where its grammar stands.
MaskCurrent ==
  \A i \in 1..Len(queue) :
    \A r \in queue[i].decodes \cap Structured \cap Running :
      queue[i].from[r] = settled[r]

LockInv == IInv /\ MaskCurrent

\* The mask of the refinement mapping.
MaskOf(r) ==
  IF status[r] = "gone" \/ Masked(r) = {} THEN -1
  ELSE queue[Max(Masked(r))].seen[r]

\* A request has a mask outstanding.
HasMask(r) == status[r] # "gone" /\ Masked(r) # {}

-------------------------------------------------------------------------------
(* What the tiling says of the batches that decode one request. *)

\* The queue is the beginning of the flight.
LEMMA QueueInFlight ==
  ASSUME IInv, NEW i \in 1..Len(queue)
  PROVE  /\ i \in 1..Len(Flight) /\ Flight[i] = queue[i] /\ queue[i] \in Batches
         /\ deferred # None => i < Len(Flight) /\ Flight[Len(Flight)] = deferred
         /\ deferred = None => Flight = queue
<1>1. queue \in Seq(Batches) /\ Len(queue) \in Nat /\ queue[i] \in Batches
  BY DEF IInv, TypeOK
<1>2. CASE deferred = None
  BY <1>1, <1>2 DEF Flight
<1>3. CASE deferred # None
  <2>1. deferred \in Batches /\ Flight = Append(queue, deferred)
    BY <1>3 DEF IInv, TypeOK, Flight
  <2> QED
    BY <1>1, <1>3, <2>1, AppendProperties
<1> QED
  BY <1>2, <1>3

\* The slots of a batch of the queue that decodes r.
LEMMA DecodeSlots ==
  ASSUME IInv, NEW i \in 1..Len(queue), NEW r \in queue[i].decodes
  PROVE  /\ r \in Reqs
         /\ queue[i].from[r] \in Nat /\ queue[i].to[r] \in Nat
         /\ queue[i].from[r] < queue[i].to[r]
         /\ queue[i].to[r] <= scheduled[r]
         /\ \A j \in 1..Len(queue) : i < j => queue[i].to[r] <= queue[j].from[r]
         /\ deferred # None => queue[i].to[r] <= deferred.from[r]
         /\ status[r] # "new"
         /\ status[r] # "gone" => r \in Running /\ r \in Alive
<1>1. /\ i \in 1..Len(Flight) /\ Flight[i] = queue[i] /\ queue[i] \in Batches
      /\ deferred # None => i < Len(Flight) /\ Flight[Len(Flight)] = deferred
  BY QueueInFlight
<1>2. /\ r \in Reqs /\ queue[i].from[r] \in Nat /\ queue[i].to[r] \in Nat
      /\ queue[i].window[r] \in Nat
  BY <1>1 DEF Batches
<1>3. queue[i].from[r] < queue[i].to[r] /\ queue[i].to[r] <= scheduled[r]
  <2>1. WellFormed(queue[i]) /\ queue[i].to[r] <= scheduled[r]
    BY <1>1, <1>2 DEF IInv, Tiles
  <2>2. queue[i].to[r] = queue[i].from[r] + 1 + queue[i].window[r]
    BY <1>2, <2>1 DEF WellFormed
  <2> QED
    BY <1>2, <2>1, <2>2
<1>4. ASSUME NEW j \in 1..Len(queue), i < j
      PROVE  queue[i].to[r] <= queue[j].from[r]
  <2>1. j \in 1..Len(Flight) /\ Flight[j] = queue[j]
    BY QueueInFlight
  <2> QED
    BY <2>1, <1>1, <1>2, <1>4 DEF IInv, Tiles
<1>5. ASSUME deferred # None PROVE queue[i].to[r] <= deferred.from[r]
  <2>1. Len(Flight) \in 1..Len(Flight)
    BY <1>1, <1>5, FlightType DEF IInv
  <2> QED
    BY <2>1, <1>1, <1>2, <1>5 DEF IInv, Tiles
<1>6. status[r] # "new"
  BY <1>1 DEF IInv, NewNotInFlight, Members
<1>7. status[r] # "gone" => r \in Running /\ r \in Alive
  BY <1>2, <1>6 DEF IInv, TypeOK, Running, Alive
<1> QED
  BY <1>2, <1>3, <1>4, <1>5, <1>6, <1>7

\* At most one batch of the queue decodes a structured request.
LEMMA OneDecode ==
  ASSUME LockInv, NEW r \in Structured, status[r] # "gone",
         NEW i \in Masked(r), NEW j \in Masked(r)
  PROVE  i = j
<1>1. /\ i \in 1..Len(queue) /\ r \in queue[i].decodes
      /\ j \in 1..Len(queue) /\ r \in queue[j].decodes
  BY DEF Masked
<1>2. IInv
  BY DEF LockInv
<1>3. r \in Running
  BY <1>1, <1>2, DecodeSlots
<1>4. queue[i].from[r] = settled[r] /\ queue[j].from[r] = settled[r]
  BY <1>1, <1>3 DEF LockInv, MaskCurrent
<1>5. ~(i < j)
  BY <1>1, <1>2, <1>4, DecodeSlots
<1>6. ~(j < i)
  BY <1>1, <1>2, <1>4, DecodeSlots
<1>7. i \in Nat /\ j \in Nat
  BY <1>1
<1> QED
  BY <1>5, <1>6, <1>7

\* The mask of the refinement mapping is -1 or the current position.
LEMMA MaskValue ==
  ASSUME LockInv, NEW r \in Structured
  PROVE  MaskOf(r) = IF HasMask(r) THEN settled[r] ELSE -1
<1>1. CASE ~HasMask(r)
  BY <1>1 DEF MaskOf, HasMask
<1>2. CASE HasMask(r)
  <2>1. PICK i \in Masked(r) : TRUE
    BY <1>2 DEF HasMask
  <2>2. i \in 1..Len(queue) /\ r \in queue[i].decodes /\ i \in Nat
    BY <2>1 DEF Masked
  <2>3. Masked(r) = {i}
    BY <1>2, <2>1, OneDecode DEF HasMask
  <2>4. Max(Masked(r)) = i
    BY <2>2, <2>3 DEF Max
  <2>5. r \in Running
    BY <1>2, <2>2, DecodeSlots DEF LockInv, HasMask
  <2>6. queue[i].seen[r] = settled[r]
    BY <2>2, <2>5 DEF LockInv, IInv, MaskFresh, MaskCurrent
  <2> QED
    BY <1>2, <2>4, <2>6 DEF MaskOf, HasMask
<1> QED
  BY <1>1, <1>2

\* The same, in this state and in the next.
MaskValues ==
  \A r \in Structured : MaskOf(r) = IF HasMask(r) THEN settled[r] ELSE -1

LEMMA NextMaskValues == LockInv' => MaskValues'
<1>1. LockInv => MaskValues
  BY MaskValue DEF MaskValues
<1> QED
  BY <1>1, PTL

-------------------------------------------------------------------------------
(* The steps of GrammarLockstep, in terms of HasMask. *)

Live(r) == status[r] # "gone"

\* How a step of the engine may move a request: not at all, by computing its
\* mask, by settling slots, or by letting it go.
Moves(r) ==
  \/ /\ Live(r)' = Live(r) /\ HasMask(r)' = HasMask(r)
     /\ settled'[r] = settled[r]
  \/ /\ Live(r) /\ Live(r)' /\ ~HasMask(r) /\ HasMask(r)'
     /\ settled'[r] = settled[r]
  \/ /\ Live(r) /\ Live(r)' /\ ~HasMask(r)'
     /\ settled'[r] > settled[r]
  \/ /\ Live(r) /\ ~Live(r)'
     /\ \/ settled'[r] = settled[r]
        \/ HasMask(r) /\ settled'[r] > settled[r]

LockStep(r) ==
  \/ Lockstep!ComputeMask(r) \/ Lockstep!Settle(r) \/ Lockstep!Prefill(r)
  \/ Lockstep!Leave(r) \/ Lockstep!Stay(r)

LEMMA LockSteps ==
  ASSUME LockInv, LockInv', NEW r \in Structured, Moves(r)
  PROVE  LockStep(r)
<1>1. /\ MaskOf(r) = IF HasMask(r) THEN settled[r] ELSE -1
      /\ MaskOf(r)' = IF HasMask(r)' THEN settled'[r] ELSE -1
  BY MaskValue, NextMaskValues DEF MaskValues
<1>2. ~Live(r)' => ~HasMask(r)'
  BY DEF Live, HasMask
<1>3. /\ Lockstep!Stay(r) <=> /\ Live(r)' = Live(r)
                              /\ settled'[r] = settled[r]
                              /\ MaskOf(r)' = MaskOf(r)
      /\ Lockstep!ComputeMask(r) <=> /\ Live(r) /\ Live(r)'
                                     /\ MaskOf(r) = -1
                                     /\ MaskOf(r)' = settled[r]
                                     /\ settled'[r] = settled[r]
      /\ Lockstep!Settle(r) <=> /\ Live(r) /\ Live(r)'
                                /\ MaskOf(r) = settled[r]
                                /\ MaskOf(r)' = -1
                                /\ settled'[r] > settled[r]
      /\ Lockstep!Prefill(r) <=> /\ Live(r) /\ Live(r)'
                                 /\ MaskOf(r) = -1
                                 /\ MaskOf(r)' = -1
                                 /\ settled'[r] > settled[r]
      /\ Lockstep!Leave(r) <=> /\ Live(r) /\ ~Live(r)'
                               /\ MaskOf(r)' = -1
                               /\ \/ settled'[r] = settled[r]
                                  \/ MaskOf(r) = settled[r] /\ settled'[r] > settled[r]
  BY DEF Lockstep!Stay, Lockstep!ComputeMask, Lockstep!Settle, Lockstep!Prefill,
         Lockstep!Leave, Lockstep!NoMask, MaskOf, Live
<1>4. ASSUME Live(r)' = Live(r), HasMask(r)' = HasMask(r), settled'[r] = settled[r]
      PROVE  Lockstep!Stay(r)
  <2>1. CASE HasMask(r)
    BY <1>1, <1>3, <1>4, <2>1
  <2>2. CASE ~HasMask(r)
    BY <1>1, <1>3, <1>4, <2>2
  <2> QED
    BY <2>1, <2>2
<1>5. ASSUME Live(r), Live(r)', ~HasMask(r), HasMask(r)', settled'[r] = settled[r]
      PROVE  Lockstep!ComputeMask(r)
  BY <1>1, <1>3, <1>5
<1>6. ASSUME Live(r), Live(r)', HasMask(r), ~HasMask(r)', settled'[r] > settled[r]
      PROVE  Lockstep!Settle(r)
  BY <1>1, <1>3, <1>6
<1>7. ASSUME Live(r), Live(r)', ~HasMask(r), ~HasMask(r)', settled'[r] > settled[r]
      PROVE  Lockstep!Prefill(r)
  BY <1>1, <1>3, <1>7
<1>8. ASSUME Live(r), ~Live(r)',
             settled'[r] = settled[r] \/ (HasMask(r) /\ settled'[r] > settled[r])
      PROVE  Lockstep!Leave(r)
  BY <1>1, <1>2, <1>3, <1>8
<1> QED
  BY <1>4, <1>5, <1>6, <1>7, <1>8 DEF Moves, LockStep

-------------------------------------------------------------------------------
(* What the actions do to the masks. *)

\* A step that leaves the queue and the grammars alone.
LEMMA QuietMoves ==
  ASSUME LockInv, queue' = queue, settled' = settled,
         \A r \in Reqs : \/ status'[r] = status[r]
                         \/ status[r] = "new" /\ status'[r] = "running"
  PROVE  MaskCurrent' /\ \A r \in Structured : Moves(r)
<1>1. IInv
  BY DEF LockInv
<1>2. ASSUME NEW i \in 1..Len(queue), NEW r \in queue[i].decodes
      PROVE  r \in Reqs /\ status[r] # "new" /\ status'[r] = status[r]
  BY <1>1, <1>2, DecodeSlots
<1>3. MaskCurrent'
  <2> SUFFICES ASSUME NEW i \in 1..Len(queue),
                      NEW r \in queue[i].decodes \cap Structured, r \in Running'
               PROVE  queue[i].from[r] = settled[r]
    BY DEF MaskCurrent
  <2>1. r \in Running
    BY <1>2 DEF Running
  <2> QED
    BY <2>1 DEF LockInv, MaskCurrent
<1>4. ASSUME NEW r \in Structured PROVE Moves(r)
  <2>1. r \in Reqs
    BY EngineAssumption
  <2>2. Masked(r)' = Masked(r) /\ Live(r)' = Live(r)
    BY <2>1 DEF Masked, Live
  <2>3. HasMask(r)' = HasMask(r)
    BY <2>2 DEF HasMask, Live
  <2> QED
    BY <2>2, <2>3 DEF Moves
<1> QED
  BY <1>3, <1>4

\* A step that samples a batch: the grammar of each structured request that
\* decodes in it has caught up, and no older mask of it is outstanding.
LEMMA AppendMoves ==
  ASSUME LockInv, NEW b \in Batches, queue' = Append(queue, b),
         status' = status, settled' = settled,
         \A r \in b.decodes \cap Structured \cap Alive :
           b.from[r] = settled[r] /\ Masked(r) = {}
  PROVE  MaskCurrent' /\ \A r \in Structured : Moves(r)
<1>1. queue \in Seq(Batches) /\ Len(queue) \in Nat
  BY DEF LockInv, IInv, TypeOK
<1>2. /\ Len(queue') = Len(queue) + 1 /\ queue'[Len(queue) + 1] = b
      /\ \A i \in 1..Len(queue) : queue'[i] = queue[i]
  BY <1>1, AppendProperties
<1>3. \A i \in 1..Len(queue') : i \in 1..Len(queue) \/ i = Len(queue) + 1
  BY <1>1, <1>2
<1>4. Running' = Running /\ Running \subseteq Alive
  BY DEF Running, Alive
<1>5. MaskCurrent'
  <2> SUFFICES ASSUME NEW i \in 1..Len(queue'),
                      NEW r \in queue'[i].decodes \cap Structured \cap Running
               PROVE  queue'[i].from[r] = settled[r]
    BY <1>4 DEF MaskCurrent
  <2>1. CASE i \in 1..Len(queue)
    BY <2>1, <1>2 DEF LockInv, MaskCurrent
  <2>2. CASE i = Len(queue) + 1
    BY <2>2, <1>2, <1>4
  <2> QED
    BY <2>1, <2>2, <1>3
<1>6. ASSUME NEW r \in Structured PROVE Moves(r)
  <2>1. Live(r)' = Live(r) /\ r \in Reqs
    BY EngineAssumption DEF Live
  <2>2. CASE r \notin b.decodes
    <3>1. Masked(r)' = Masked(r)
      BY <2>2, <1>1, <1>2, <1>3 DEF Masked
    <3> QED
      BY <2>1, <3>1 DEF Moves, HasMask, Live
  <2>3. CASE r \in b.decodes /\ Live(r)
    <3>1. Masked(r) = {}
      BY <2>1, <2>3 DEF Live, Alive
    <3>2. Len(queue) + 1 \in Masked(r)'
      BY <2>3, <1>1, <1>2 DEF Masked
    <3> QED
      BY <2>1, <2>3, <3>1, <3>2 DEF Moves, HasMask, Live
  <2>4. CASE ~Live(r)
    BY <2>1, <2>4 DEF Moves, HasMask, Live
  <2> QED
    BY <2>2, <2>3, <2>4
<1> QED
  BY <1>5, <1>6

\* A step that delivers the oldest batch: a mask whose batch is delivered is
\* used up, and only the delivered batch's slots are settled.
LEMMA PopMoves ==
  ASSUME LockInv, queue # <<>>, PopAndProcessBatch
  PROVE  MaskCurrent' /\ \A r \in Structured : Moves(r)
<1> DEFINE b == queue[1]
           alive == {r \in Members(b) : status[r] = "running" /\ r \notin aborts}
<1>1. IInv /\ TypeOK
  BY DEF LockInv, IInv
<1>2. /\ queue \in Seq(Batches) /\ Len(queue) \in Nat \ {0} /\ Head(queue) = b
      /\ b \in Batches /\ 1 \in 1..Len(queue) /\ queue' = Tail(queue)
      /\ Len(queue') = Len(queue) - 1
      /\ \A i \in 1..Len(queue') : queue'[i] = queue[i + 1] /\ i + 1 \in 1..Len(queue)
  <2>1. queue \in Seq(Batches) /\ queue' = Tail(queue)
    BY <1>1 DEF TypeOK, PopAndProcessBatch
  <2> QED
    BY <2>1
<1>3. PICK accepted \in Accepted(b), fin \in SUBSET b.decodes :
        UpdateFromOutput(b, accepted, fin)
  BY <1>2 DEF PopAndProcessBatch
<1>4. /\ fin \subseteq alive \cap b.decodes
      /\ status' = [r \in Reqs |-> IF r \in aborts \cup fin THEN "gone" ELSE status[r]]
      /\ settled' = [r \in Reqs |-> IF r \in alive THEN b.to[r] ELSE settled[r]]
  BY <1>3 DEF UpdateFromOutput
<1>5. /\ Len(Flight) \in Nat /\ 1 \in 1..Len(Flight) /\ Flight[1] = b
      /\ Flight # <<>>
  <2>1. 1 \in 1..Len(Flight) /\ Flight[1] = b
    BY <1>1, <1>2, QueueInFlight
  <2>2. Flight \in Seq(Batches)
    BY <1>1, FlightType
  <2> QED
    BY <2>1, <2>2
<1>6. /\ WellFormed(b)
      /\ \A r \in Alive : b.from[r] = settled[r]
      /\ \A r \in Members(b) : status[r] # "new"
  BY <1>1, <1>5 DEF IInv, Tiles, NewNotInFlight
<1>7. ASSUME NEW r \in Reqs
      PROVE  /\ b.from[r] \in Nat /\ b.to[r] \in Nat /\ settled[r] \in Nat
             /\ b.from[r] <= b.to[r]
             /\ r \in b.decodes => b.from[r] < b.to[r]
             /\ r \notin Members(b) => b.to[r] = b.from[r]
  <2>1. /\ b.from[r] \in Nat /\ b.to[r] \in Nat /\ b.window[r] \in Nat
        /\ settled[r] \in Nat
    BY <1>1, <1>2 DEF TypeOK, Batches
  <2>2. /\ b.from[r] <= b.to[r]
        /\ r \in b.decodes => b.to[r] = b.from[r] + 1 + b.window[r]
        /\ r \notin Members(b) => b.to[r] = b.from[r]
    BY <1>6 DEF WellFormed
  <2> QED
    BY <2>1, <2>2
<1> HIDE DEF b
\* A request that stays has the batch's slots settled.
<1>8. ASSUME NEW r \in Reqs, status'[r] # "gone"
      PROVE  /\ status'[r] = status[r] /\ r \in Alive
             /\ settled'[r] = b.to[r] /\ settled[r] = b.from[r]
  <2>1. status'[r] = status[r] /\ r \in Alive /\ r \notin aborts
    BY <1>4, <1>8 DEF Alive
  <2>2. settled[r] = b.from[r]
    BY <2>1, <1>6
  <2>3. CASE r \in alive
    BY <2>1, <2>2, <2>3, <1>4
  <2>4. CASE r \notin alive
    <3>1. r \notin Members(b)
      BY <2>1, <2>4, <1>1, <1>6 DEF Alive, TypeOK
    <3> QED
      BY <2>1, <2>2, <2>4, <3>1, <1>4, <1>7
  <2> QED
    BY <2>1, <2>2, <2>3, <2>4
\* A younger batch that decodes the request starts where this one ends, which
\* owns no slot of it.
<1>9. ASSUME NEW i \in 1..Len(queue), i # 1,
             NEW r \in queue[i].decodes \cap Structured, r \in Alive
      PROVE  queue[i].from[r] = b.to[r] /\ b.to[r] = b.from[r]
  <2>1. r \in Reqs /\ r \in Running /\ queue[i].from[r] \in Nat
    BY <1>1, <1>9, DecodeSlots DEF Alive
  <2>2. queue[i].from[r] = settled[r] /\ settled[r] = b.from[r]
    BY <2>1, <1>6, <1>9 DEF LockInv, MaskCurrent
  <2>3. b.to[r] <= queue[i].from[r]
    <3>1. /\ 1 \in 1..Len(Flight) /\ Flight[1] = b
          /\ i \in 1..Len(Flight) /\ Flight[i] = queue[i]
      BY <1>1, <1>5, QueueInFlight
    <3>2. 1 < i
      BY <1>2, <1>9
    <3> QED
      BY <3>1, <3>2, <2>1, <1>1 DEF IInv, Tiles
  <2> QED
    BY <2>1, <2>2, <2>3, <1>7
<1>10. \A r \in Reqs : r \in Running' => r \in Running
  BY <1>8 DEF Running
<1>11. MaskCurrent'
  <2> SUFFICES ASSUME NEW i \in 1..Len(queue'),
                      NEW r \in queue'[i].decodes \cap Structured, r \in Running'
               PROVE  queue'[i].from[r] = settled'[r]
    BY DEF MaskCurrent
  <2>1. /\ i + 1 \in 1..Len(queue) /\ i + 1 # 1 /\ queue'[i] = queue[i + 1]
    BY <1>2
  <2>2. r \in Reqs /\ status'[r] # "gone"
    BY DEF Running
  <2>3. r \in Alive /\ settled'[r] = b.to[r]
    BY <2>2, <1>8
  <2>4. queue[i + 1].from[r] = b.to[r]
    BY <2>1, <2>3, <1>9
  <2> QED
    BY <2>1, <2>3, <2>4
<1>12. ASSUME NEW r \in Structured PROVE Moves(r)
  <2>1. r \in Reqs
    BY EngineAssumption
  <2>2. CASE status[r] = "gone"
    <3>1. status'[r] = "gone" /\ settled'[r] = settled[r]
      BY <2>1, <2>2, <1>4
    <3> QED
      BY <2>2, <3>1 DEF Moves, Live, HasMask
  <2>3. CASE status[r] # "gone" /\ status'[r] = "gone"
    <3>1. CASE r \in alive
      <4>1. r \in fin /\ r \in b.decodes
        BY <2>1, <2>3, <3>1, <1>4
      <4>2. HasMask(r)
        BY <2>3, <4>1, <1>2 DEF HasMask, Masked, b
      <4>3. settled'[r] > settled[r]
        <5>1. settled'[r] = b.to[r] /\ settled[r] = b.from[r]
          BY <2>1, <2>3, <3>1, <1>4, <1>6 DEF Alive
        <5> QED
          BY <2>1, <4>1, <5>1, <1>7
      <4> QED
        BY <2>3, <4>2, <4>3 DEF Moves, Live
    <3>2. CASE r \notin alive
      BY <2>1, <2>3, <3>2, <1>4 DEF Moves, Live
    <3> QED
      BY <3>1, <3>2
  <2>4. CASE status[r] # "gone" /\ status'[r] # "gone"
    <3>1. /\ r \in Alive /\ settled'[r] = b.to[r] /\ settled[r] = b.from[r]
          /\ b.from[r] \in Nat /\ b.to[r] \in Nat /\ b.from[r] <= b.to[r]
      BY <2>1, <2>4, <1>7, <1>8
    <3>2. CASE b.to[r] = b.from[r]
      <4>1. r \notin b.decodes
        BY <2>1, <3>1, <3>2, <1>7
      <4>2. ASSUME NEW i \in Masked(r) PROVE i - 1 \in Masked(r)'
        BY <4>1, <4>2, <1>2 DEF Masked, b
      <4>3. ASSUME NEW i \in Masked(r)' PROVE i + 1 \in Masked(r)
        BY <4>3, <1>2 DEF Masked
      <4>4. HasMask(r)' = HasMask(r)
        BY <2>4, <4>2, <4>3 DEF HasMask
      <4> QED
        BY <2>4, <3>1, <3>2, <4>4 DEF Moves, Live
    <3>3. CASE b.to[r] # b.from[r]
      <4>1. Masked(r)' = {}
        <5> SUFFICES ASSUME NEW i \in 1..Len(queue'), r \in queue'[i].decodes
                     PROVE  FALSE
          BY DEF Masked
        <5>1. i + 1 \in 1..Len(queue) /\ i + 1 # 1 /\ queue'[i] = queue[i + 1]
          BY <1>2
        <5> QED
          BY <5>1, <3>1, <3>3, <1>9
      <4>2. settled'[r] > settled[r]
        BY <3>1, <3>3
      <4> QED
        BY <2>4, <4>1, <4>2 DEF Moves, Live, HasMask
    <3> QED
      BY <3>2, <3>3
  <2> QED
    BY <2>2, <2>3, <2>4
<1> QED
  BY <1>11, <1>12

-------------------------------------------------------------------------------
(* The steps of the engine. *)

\* A structured request whose slots are all settled up to the start of the
\* batch to be sampled has no batch in the queue.
LEMMA NoOlderMask ==
  ASSUME IInv, NEW r \in Reqs,
         \/ settled[r] = scheduled[r] /\ deferred = None
         \/ deferred # None /\ settled[r] = deferred.from[r],
         r \in Alive
  PROVE  Masked(r) = {}
<1> SUFFICES ASSUME NEW i \in 1..Len(queue), r \in queue[i].decodes
             PROVE  FALSE
  BY DEF Masked
<1>1. /\ queue[i].from[r] \in Nat /\ queue[i].to[r] \in Nat
      /\ queue[i].from[r] < queue[i].to[r] /\ queue[i].to[r] <= scheduled[r]
      /\ deferred # None => queue[i].to[r] <= deferred.from[r]
  BY DecodeSlots
<1>2. settled[r] <= queue[i].from[r]
  <2>1. i \in 1..Len(Flight) /\ Flight[i] = queue[i]
    BY QueueInFlight
  <2> QED
    BY <2>1 DEF IInv, Tiles
<1>3. settled[r] \in Nat /\ scheduled[r] \in Nat
  BY DEF IInv, TypeOK
<1> QED
  BY <1>1, <1>2, <1>3

\* A grammar that is not behind stands where the deferred batch starts.
LEMMA CaughtUpStart ==
  ASSUME IInv, deferred # None, ~HasStructuredOutputInFlight(deferred),
         NEW r \in deferred.decodes \cap Structured, status[r] = "running"
  PROVE  deferred.from[r] = settled[r]
<1>1. r \in Reqs /\ r \in Alive
  BY EngineAssumption DEF Alive
<1>2. /\ Len(Flight) \in 1..Len(Flight) /\ Flight[Len(Flight)] = deferred
      /\ deferred \in Batches /\ deferred.to = scheduled
  BY DeferredInFlight
<1>3. settled[r] <= deferred.from[r]
  BY <1>1, <1>2 DEF IInv, Tiles
<1>4. ~(inFlight[r] > deferred.to[r] - deferred.from[r])
  BY DEF HasStructuredOutputInFlight, OwnShare
<1>5. inFlight[r] = scheduled[r] - settled[r]
  BY <1>1 DEF IInv, CounterExact
<1>6. scheduled[r] \in Nat /\ settled[r] \in Nat /\ deferred.from[r] \in Nat
  BY <1>1, <1>2 DEF IInv, TypeOK, Batches
<1> QED
  BY <1>2, <1>3, <1>4, <1>5, <1>6

LEMMA ScheduleImmediateMoves ==
  ASSUME LockInv, NEW D \in SUBSET Running, NEW C \in SUBSET (Running \ D),
         NEW w \in [Reqs -> 0..NumSpec], ScheduleImmediate(D, C, w)
  PROVE  MaskCurrent' /\ \A r \in Structured : Moves(r)
<1> DEFINE b == BatchOf(D, C, w)
<1>1. IInv /\ TypeOK /\ D \in SUBSET Reqs /\ C \in SUBSET (Reqs \ D)
  BY DEF LockInv, IInv, Running
<1>2. /\ b \in Batches /\ WellFormed(b) /\ b.from = scheduled /\ b.decodes = D
      /\ Members(b) = D \cup C /\ b.seen = settled
  <2>1. TypeOK
    BY <1>1
  <2>2. D \in SUBSET Reqs
    BY <1>1
  <2>3. C \in SUBSET (Reqs \ D)
    BY <1>1
  <2> QED
    BY <2>1, <2>2, <2>3, BatchOfFacts
<1>3. /\ pc = "schedule" /\ ~PendingStructuredOutput(D)
      /\ queue' = Append(queue, b) /\ status' = status /\ settled' = settled
  BY DEF ScheduleImmediate, UpdateAfterSchedule, AppendLeft
<1>4. ASSUME NEW r \in b.decodes \cap Structured \cap Alive
      PROVE  b.from[r] = settled[r] /\ Masked(r) = {}
  <2>1. r \in D \cap Structured /\ r \in Reqs /\ r \in Alive
    BY <1>1, <1>2
  <2>2. inFlight[r] = 0
    BY <2>1, <1>1, <1>3 DEF PendingStructuredOutput, TypeOK
  <2>3. settled[r] = scheduled[r]
    BY <2>1, <2>2, <1>1 DEF IInv, CounterExact, TypeOK
  <2>4. deferred = None
    BY <1>1, <1>3 DEF IInv, DeferredIsNewest
  <2> QED
    BY <2>1, <2>3, <2>4, <1>1, <1>2, NoOlderMask
<1> HIDE DEF b
<1> QED
  BY <1>2, <1>3, <1>4, AppendMoves

LEMMA SampleDeferredMoves ==
  ASSUME LockInv, SampleDeferred
  PROVE  MaskCurrent' /\ \A r \in Structured : Moves(r)
<1> DEFINE h == EvictOverCap(drafts)
           b == [deferred EXCEPT
                   !.seen = settled,
                   !.origin = [r \in Reqs |-> IF deferred.window[r] > 0
                                              THEN h.row[r] ELSE Placeholder]]
<1>1. /\ IInv /\ deferred \in Batches /\ deferred # None
      /\ settled \in [Reqs -> Nat] /\ drafts \in DraftMaps
  BY DEF LockInv, IInv, TypeOK, SampleDeferred
<1>2. b \in Batches /\ b.from = deferred.from /\ b.decodes = deferred.decodes
  <2>1. h \in DraftMaps
    BY <1>1, EvictType
  <2> HIDE DEF h
  <2>2. [r \in Reqs |-> IF deferred.window[r] > 0 THEN h.row[r] ELSE Placeholder]
          \in [Reqs -> Int]
    BY <2>1 DEF DraftMaps, Placeholder
  <2> QED
    BY <1>1, <2>2 DEF Batches
<1>3. /\ DrainOver /\ queue' = Append(queue, b)
      /\ status' = status /\ settled' = settled
  BY DEF SampleDeferred, AppendLeft, requestVars
<1>4. ~HasStructuredOutputInFlight(deferred)
  BY <1>1, <1>3, DrainedIsCaughtUp
<1>5. ASSUME NEW r \in b.decodes \cap Structured \cap Alive
      PROVE  b.from[r] = settled[r] /\ Masked(r) = {}
  <2>1. r \in deferred.decodes \cap Structured /\ r \in Reqs /\ r \in Alive
    BY <1>2, EngineAssumption
  <2>2. status[r] = "running"
    <3>1. /\ Len(Flight) \in 1..Len(Flight) /\ Flight[Len(Flight)] = deferred
      BY <1>1, DeferredInFlight
    <3> QED
      BY <2>1, <3>1, <1>1 DEF IInv, NewNotInFlight, Members, TypeOK, Alive
  <2>3. deferred.from[r] = settled[r]
    BY <2>1, <2>2, <1>1, <1>4, CaughtUpStart
  <2> QED
    BY <2>1, <2>3, <1>1, <1>2, NoOlderMask
<1> HIDE DEF b
<1> QED
  BY <1>2, <1>3, <1>5, AppendMoves

LEMMA ScheduleEmptyMoves ==
  ASSUME LockInv, ScheduleEmpty
  PROVE  MaskCurrent' /\ \A r \in Structured : Moves(r)
<1> DEFINE b == BatchOf({}, {}, [r \in Reqs |-> 0])
<1>1. b \in Batches /\ b.decodes = {}
  <2>1. [r \in Reqs |-> 0] \in [Reqs -> 0..NumSpec]
    BY EngineAssumption
  <2>2. {} \in SUBSET Reqs /\ {} \in SUBSET (Reqs \ {}) /\ TypeOK
    BY DEF LockInv, IInv
  <2> QED
    BY <2>1, <2>2, BatchOfFacts
<1>2. queue' = Append(queue, b) /\ status' = status /\ settled' = settled
  BY DEF ScheduleEmpty, UpdateAfterSchedule, AppendLeft
<1> HIDE DEF b
<1> QED
  BY <1>1, <1>2, AppendMoves

LEMMA NextMoves ==
  ASSUME LockInv, [Next]_vars
  PROVE  MaskCurrent' /\ \A r \in Structured : Moves(r)
<1>1. CASE Schedule
  <2>1. PICK D \in SUBSET Running : \E C \in SUBSET (Running \ D) :
          \E w \in [Reqs -> 0..NumSpec] :
            ScheduleImmediate(D, C, w) \/ ScheduleDeferred(D, C, w)
    BY <1>1 DEF Schedule
  <2>2. PICK C \in SUBSET (Running \ D), w \in [Reqs -> 0..NumSpec] :
          ScheduleImmediate(D, C, w) \/ ScheduleDeferred(D, C, w)
    BY <2>1
  <2>3. CASE ScheduleImmediate(D, C, w)
    BY <2>3, ScheduleImmediateMoves
  <2>4. CASE ScheduleDeferred(D, C, w)
    <3>1. queue' = queue /\ settled' = settled /\ status' = status
      BY <2>4 DEF ScheduleDeferred, UpdateAfterSchedule
    <3> QED
      BY <3>1, QuietMoves
  <2> QED
    BY <2>2, <2>3, <2>4
<1>2. CASE ScheduleEmpty
  BY <1>2, ScheduleEmptyMoves
<1>3. CASE ScheduleNothing \/ ReturnImmediate \/ UNCHANGED vars
  <2>1. queue' = queue /\ settled' = settled /\ status' = status
    BY <1>3 DEF ScheduleNothing, ReturnImmediate, vars, requestVars
  <2> QED
    BY <2>1, QuietMoves
<1>4. CASE Environment
  <2>1. TypeOK
    BY DEF LockInv, IInv
  <2>2. PICK s \in Reqs : Arrive(s) \/ ClientAbort(s)
    BY <1>4 DEF Environment
  <2>3. /\ queue' = queue /\ settled' = settled
        /\ \A r \in Reqs : \/ status'[r] = status[r]
                           \/ status[r] = "new" /\ status'[r] = "running"
    <3>1. CASE Arrive(s)
      BY <2>1, <3>1 DEF Arrive, TypeOK
    <3>2. CASE ClientAbort(s)
      BY <3>2 DEF ClientAbort, requestVars
    <3> QED
      BY <2>2, <3>1, <3>2
  <2> QED
    BY <2>3, QuietMoves
<1>5. CASE Pop \/ Drain
  <2>1. CASE queue # <<>>
    BY <1>5, <2>1, PopMoves DEF Pop, Drain
  <2>2. CASE queue = <<>>
    <3>1. queue' = queue /\ settled' = settled /\ status' = status
      BY <1>5, <2>2 DEF Pop, Drain, requestVars
    <3> QED
      BY <3>1, QuietMoves
  <2> QED
    BY <2>1, <2>2
<1>6. CASE SampleDeferred
  BY <1>6, SampleDeferredMoves
<1> QED
  BY <1>1, <1>2, <1>3, <1>4, <1>5, <1>6 DEF Next, Loop, Idle

-------------------------------------------------------------------------------
(* The refinement. *)

\* Every mask in the queue was computed for the position its grammar is in, and
\* a request has at most one.
THEOREM LockInvariance == Spec => []LockInv
<1>1. Init => MaskCurrent
  BY DEF Init, MaskCurrent
<1>2. IInv /\ MaskCurrent /\ [Next]_vars => MaskCurrent'
  BY NextMoves DEF LockInv
<1> QED
  BY <1>1, <1>2, Invariance, PTL DEF Spec, LockInv

\* The engine implements the lockstep of masks and grammar states, for every
\* queue depth, rotation, window and number of requests: however many batches
\* are in flight, a grammar never sees two masks at once and never advances
\* from a state other than the one its mask was computed for (tdd_0027.py
\* 10-16).
THEOREM ImplementsLockstep == Spec => RefinesLockstep
<1>1. Init => Lockstep!Init
  <2> SUFFICES ASSUME Init PROVE Lockstep!Init
    OBVIOUS
  <2>1. \A r \in Structured : r \in Reqs /\ Masked(r) = {}
    BY EngineAssumption DEF Init, Masked
  <2>2. [r \in Structured |-> status[r] # "gone"] = [r \in Structured |-> TRUE]
    BY <2>1 DEF Init
  <2>3. \A r \in Structured : settled[r] = 0
    BY <2>1 DEF Init
  <2>4. [r \in Structured |-> MaskOf(r)] = [r \in Structured |-> -1]
    BY <2>1 DEF MaskOf
  <2> QED
    BY <2>2, <2>3, <2>4 DEF Lockstep!Init, Lockstep!NoMask, MaskOf
<1>2. ASSUME LockInv, LockInv', [Next]_vars PROVE [Lockstep!Next]_(Lockstep!vars)
  <2>1. \A r \in Structured : LockStep(r)
    BY <1>2, NextMoves, LockSteps
  <2> QED
    BY <2>1 DEF Lockstep!Next, LockStep
<1> QED
  BY <1>1, <1>2, LockInvariance, PTL DEF Spec, RefinesLockstep, Lockstep!Spec

-------------------------------------------------------------------------------
(* The rows of the map. *)

\* Where the newest sampled batch of a request ends.
SampledEnd(r) == IF deferred = None THEN scheduled[r] ELSE deferred.from[r]

\* The structured requests whose newest decode has been sampled.  A first
\* decode has no window, and before it is sampled there may be no row yet.
HasSampled(r) ==
  /\ r \in decoding \cap Structured
  /\ deferred # None /\ r \in deferred.decodes => deferred.window[r] > 0

\* The row of such a request continues its newest sampled batch, or is one of
\* the values in gap: {Placeholder} when rows may have been evicted, else {}.
RowsCurrent(gap) ==
  \A r \in Reqs : HasSampled(r) => drafts.row[r] \in {SampledEnd(r)} \cup gap

\* No request decodes and prefills at the same time.
DeferredRoles ==
  deferred # None => /\ deferred.decodes \subseteq decoding
                     /\ deferred.chunks \cap decoding = {}

\* NoStaleDrafts, for the requests that are gone as well.
OriginsCurrent ==
  \A i \in 1..Len(queue) :
    \A r \in queue[i].decodes \cap Structured :
      queue[i].origin[r] \in {Placeholder, queue[i].from[r]}

DraftInv == IInv /\ RowsCurrent({Placeholder}) /\ DeferredRoles /\ OriginsCurrent

-------------------------------------------------------------------------------
(* What sampling a batch and evicting rows do to the map. *)

\* After b is sampled, the row of a request that decoded in it, or whose row
\* was current before and that is not in b, continues b.
LEMMA SampledRow ==
  ASSUME NEW h \in DraftMaps, NEW b \in Batches, MergeDrafts(h, b), WellFormed(b),
         NEW gap, NEW r \in Structured,
         r \notin b.decodes => r \notin b.chunks /\ h.row[r] \in {b.from[r]} \cup gap
  PROVE  drafts'.row[r] \in {b.to[r]} \cup gap
<1>1. r \in Reqs
  BY EngineAssumption
<1>2. CASE r \in b.decodes
  <2>1. HasStructured(b) /\ r \in Members(b)
    BY <1>2 DEF HasStructured, Members
  <2>2. drafts'.row[r] = b.to[r]
    BY <1>1, <2>1 DEF MergeDrafts, SetDraftTokens
  <2> QED
    BY <2>2
<1>3. CASE r \notin b.decodes
  <2>1. r \notin Members(b)
    BY <1>3 DEF Members
  <2>2. b.to[r] = b.from[r]
    BY <1>1, <2>1 DEF WellFormed
  <2>3. drafts'.row[r] = h.row[r]
    <3>1. CASE HasStructured(b)
      BY <1>1, <2>1, <3>1 DEF MergeDrafts, SetDraftTokens
    <3>2. CASE ~HasStructured(b)
      BY <3>2 DEF MergeDrafts
    <3> QED
      BY <3>1, <3>2
  <2> QED
    BY <1>3, <2>2, <2>3
<1> QED
  BY <1>2, <1>3

LEMMA EvictedRow ==
  ASSUME NEW h \in DraftMaps, NEW r \in Reqs
  PROVE  EvictOverCap(h).row[r] \in {h.row[r], Placeholder}
BY DEF EvictOverCap, DropFirst

-------------------------------------------------------------------------------
(* The actions. *)

\* A step that samples no batch and defers none.
LEMMA QuietRows ==
  ASSUME NEW gap, RowsCurrent(gap), DeferredRoles,
         deferred' = deferred, decoding' = decoding, drafts' = drafts,
         scheduled' = scheduled
  PROVE  RowsCurrent(gap)' /\ DeferredRoles'
BY DEF RowsCurrent, DeferredRoles, HasSampled, SampledEnd

\* What the code's choices for a batch say of the requests in it.
ChosenWell(D, C, w) ==
  /\ \A r \in D : r \notin decoding => w[r] = 0
  /\ C \cap decoding = {}

\* The batch that a step schedules.
LEMMA ScheduledBatch ==
  ASSUME IInv, NEW D \in SUBSET Running, NEW C \in SUBSET (Running \ D),
         NEW w \in [Reqs -> 0..NumSpec], NEW b, b = BatchOf(D, C, w)
  PROVE  b \in Batches /\ WellFormed(b)
<1>1. TypeOK
  BY DEF IInv
<1>2. D \in SUBSET Reqs
  BY DEF Running
<1>3. C \in SUBSET (Reqs \ D)
  BY DEF Running
<1> QED
  BY <1>1, <1>2, <1>3, BatchOfFacts

LEMMA ScheduleImmediateRows ==
  ASSUME IInv, NEW gap, RowsCurrent(gap), NEW D \in SUBSET Running,
         NEW C \in SUBSET (Running \ D), NEW w \in [Reqs -> 0..NumSpec],
         ChosenWell(D, C, w), ScheduleImmediate(D, C, w)
  PROVE  RowsCurrent(gap)' /\ DeferredRoles'
<1> DEFINE b == BatchOf(D, C, w)
<1>0. pc = "schedule" /\ b = BatchOf(D, C, w)
  BY DEF ScheduleImmediate
<1>1. /\ MergeDrafts(drafts, b) /\ deferred' = deferred
      /\ decoding' = decoding \cup b.decodes /\ scheduled' = b.to
  BY DEF ScheduleImmediate, UpdateAfterSchedule
<1> HIDE DEF b
<1>2. /\ b \in Batches /\ WellFormed(b) /\ b.decodes = D /\ b.chunks = C
      /\ b.from = scheduled /\ deferred = None /\ drafts \in DraftMaps
  <2>1. b \in Batches /\ WellFormed(b)
    BY <1>0, ScheduledBatch
  <2>2. b.decodes = D /\ b.chunks = C /\ b.from = scheduled
    BY <1>0 DEF BatchOf
  <2>3. deferred = None /\ drafts \in DraftMaps
    BY <1>0 DEF IInv, TypeOK, DeferredIsNewest
  <2> QED
    BY <2>1, <2>2, <2>3
<1>3. ASSUME NEW r \in Reqs, HasSampled(r)'
      PROVE  drafts'.row[r] \in {b.to[r]} \cup gap
  <2>1. r \in Structured /\ r \in decoding \cup D
    BY <1>1, <1>2, <1>3 DEF HasSampled
  <2>2. ASSUME r \notin b.decodes
        PROVE  r \notin b.chunks /\ drafts.row[r] \in {b.from[r]} \cup gap
    <3>1. r \in decoding
      BY <2>1, <2>2, <1>2
    <3>2. HasSampled(r) /\ SampledEnd(r) = scheduled[r]
      BY <2>1, <3>1, <1>2 DEF HasSampled, SampledEnd
    <3> QED
      BY <3>1, <3>2, <1>2 DEF ChosenWell, RowsCurrent
  <2> QED
    BY <2>1, <2>2, <1>1, <1>2, SampledRow
<1>4. RowsCurrent(gap)'
  BY <1>1, <1>2, <1>3 DEF RowsCurrent, SampledEnd
<1> QED
  BY <1>1, <1>2, <1>4 DEF DeferredRoles

LEMMA ScheduleDeferredRows ==
  ASSUME IInv, NEW gap, RowsCurrent(gap), NEW D \in SUBSET Running,
         NEW C \in SUBSET (Running \ D), NEW w \in [Reqs -> 0..NumSpec],
         ChosenWell(D, C, w), ScheduleDeferred(D, C, w)
  PROVE  RowsCurrent(gap)' /\ DeferredRoles'
<1> DEFINE b == BatchOf(D, C, w)
<1>0. pc = "schedule" /\ b = BatchOf(D, C, w)
  BY DEF ScheduleDeferred
<1>1. deferred' = b /\ drafts' = drafts /\ decoding' = decoding \cup b.decodes
  BY DEF ScheduleDeferred, UpdateAfterSchedule
<1> HIDE DEF b
<1>2. /\ b \in Batches /\ b.decodes = D /\ b.chunks = C /\ b.from = scheduled
      /\ (\A r \in D : b.window[r] = w[r]) /\ deferred = None
  <2>1. b \in Batches
    BY <1>0, ScheduledBatch
  <2>2. b.decodes = D /\ b.chunks = C /\ b.from = scheduled
    BY <1>0 DEF BatchOf
  <2>3. \A r \in D : b.window[r] = w[r]
    BY <1>0 DEF BatchOf, Running
  <2>4. deferred = None
    BY <1>0 DEF IInv, DeferredIsNewest
  <2> QED
    BY <2>1, <2>2, <2>3, <2>4
<1>3. b # None
  BY <1>2, NoneAssumption
<1>4. RowsCurrent(gap)'
  <2> SUFFICES ASSUME NEW r \in Reqs, HasSampled(r)'
               PROVE  drafts.row[r] \in {scheduled[r]} \cup gap
    BY <1>1, <1>2, <1>3 DEF RowsCurrent, SampledEnd
  <2>1. r \in Structured /\ r \in decoding \cup D /\ (r \in D => w[r] > 0)
    BY <1>1, <1>2, <1>3 DEF HasSampled
  <2>2. r \in decoding
    BY <2>1 DEF ChosenWell
  <2> QED
    BY <2>1, <2>2, <1>2 DEF HasSampled, SampledEnd, RowsCurrent
<1>5. DeferredRoles'
  BY <1>1, <1>2 DEF DeferredRoles, ChosenWell
<1> QED
  BY <1>4, <1>5

\* An empty batch moves no request.
LEMMA ScheduleEmptyRows ==
  ASSUME IInv, NEW gap, RowsCurrent(gap), DeferredRoles, ScheduleEmpty
  PROVE  RowsCurrent(gap)' /\ DeferredRoles'
<1> DEFINE w == [r \in Reqs |-> 0]
           b == BatchOf({}, {}, w)
<1>0. pc = "schedule"
  BY DEF ScheduleEmpty
<1>1. /\ deferred' = deferred /\ drafts' = drafts
      /\ decoding' = decoding \cup b.decodes /\ scheduled' = b.to
  BY DEF ScheduleEmpty, UpdateAfterSchedule
<1>2. /\ w \in [Reqs -> 0..NumSpec] /\ {} \in SUBSET Running
      /\ {} \in SUBSET (Running \ {}) /\ b = BatchOf({}, {}, w)
  BY EngineAssumption
<1> HIDE DEF w, b
<1>3. /\ b \in Batches /\ WellFormed(b) /\ b.decodes = {} /\ b.chunks = {}
      /\ b.from = scheduled
  <2>1. b \in Batches /\ WellFormed(b)
    BY <1>2, ScheduledBatch
  <2>2. b.decodes = {} /\ b.chunks = {} /\ b.from = scheduled
    BY <1>2 DEF BatchOf
  <2> QED
    BY <2>1, <2>2
<1>4. \A r \in Reqs : scheduled'[r] = scheduled[r]
  BY <1>1, <1>3 DEF WellFormed, Members
<1> QED
  BY <1>1, <1>3, <1>4 DEF RowsCurrent, DeferredRoles, HasSampled, SampledEnd

\* The batch that the deferred path samples.
SampledBatch ==
  [deferred EXCEPT
     !.seen = settled,
     !.origin = [r \in Reqs |-> IF deferred.window[r] > 0
                                THEN EvictOverCap(drafts).row[r] ELSE Placeholder]]

LEMMA SampleDeferredFacts ==
  ASSUME IInv, SampleDeferred
  PROVE  /\ deferred # None /\ deferred \in Batches /\ deferred' = None
         /\ drafts \in DraftMaps /\ EvictOverCap(drafts) \in DraftMaps
         /\ SampledBatch \in Batches /\ WellFormed(SampledBatch)
         /\ SampledBatch.from = deferred.from /\ SampledBatch.to = scheduled
         /\ SampledBatch.decodes = deferred.decodes
         /\ SampledBatch.chunks = deferred.chunks
         /\ SampledBatch.window = deferred.window
         /\ \A r \in Reqs : SampledBatch.origin[r] =
              IF deferred.window[r] > 0 THEN EvictOverCap(drafts).row[r] ELSE Placeholder
         /\ MergeDrafts(EvictOverCap(drafts), SampledBatch)
         /\ queue' = Append(queue, SampledBatch)
         /\ decoding' = decoding /\ scheduled' = scheduled /\ status' = status
<1>1. /\ deferred # None /\ deferred' = None
      /\ MergeDrafts(EvictOverCap(drafts), SampledBatch)
      /\ queue' = Append(queue, SampledBatch)
      /\ decoding' = decoding /\ scheduled' = scheduled /\ status' = status
  BY DEF SampleDeferred, SampledBatch, AppendLeft, requestVars
<1>2. /\ Len(Flight) \in 1..Len(Flight) /\ Flight[Len(Flight)] = deferred
      /\ deferred \in Batches /\ deferred.to = scheduled
  BY <1>1, DeferredInFlight
<1>3. WellFormed(deferred)
  BY <1>2 DEF IInv, Tiles
<1>4. drafts \in DraftMaps /\ EvictOverCap(drafts) \in DraftMaps
  BY EvictType DEF IInv, TypeOK
<1>5. [r \in Reqs |-> IF deferred.window[r] > 0 THEN EvictOverCap(drafts).row[r]
                                                ELSE Placeholder] \in [Reqs -> Int]
  BY <1>4 DEF DraftMaps, Placeholder
<1>6. settled \in [Reqs -> Nat]
  BY DEF IInv, TypeOK
<1>7. /\ SampledBatch \in Batches
      /\ SampledBatch.from = deferred.from /\ SampledBatch.to = deferred.to
      /\ SampledBatch.decodes = deferred.decodes /\ SampledBatch.chunks = deferred.chunks
      /\ SampledBatch.window = deferred.window
      /\ SampledBatch.origin =
           [r \in Reqs |-> IF deferred.window[r] > 0 THEN EvictOverCap(drafts).row[r]
                                                     ELSE Placeholder]
  BY <1>2, <1>5, <1>6 DEF SampledBatch, Batches
<1>8. WellFormed(SampledBatch)
  BY <1>3, <1>7 DEF WellFormed, Members
<1> QED
  BY <1>1, <1>2, <1>4, <1>7, <1>8

\* The deferred batch is sampled over the rows that eviction has left.
LEMMA SampleDeferredRows ==
  ASSUME IInv, NEW gap, RowsCurrent(gap), DeferredRoles, SampleDeferred,
         \A r \in Reqs : EvictOverCap(drafts).row[r] \in {drafts.row[r]} \cup gap
  PROVE  /\ RowsCurrent(gap)' /\ DeferredRoles'
         /\ \A r \in deferred.decodes \cap Structured :
              deferred.window[r] > 0 =>
                SampledBatch.origin[r] \in {deferred.from[r]} \cup gap
<1> DEFINE h == EvictOverCap(drafts)
           b == SampledBatch
<1>1. /\ deferred # None /\ deferred \in Batches /\ deferred' = None
      /\ h \in DraftMaps /\ b \in Batches /\ WellFormed(b)
      /\ b.from = deferred.from /\ b.to = scheduled
      /\ b.decodes = deferred.decodes /\ b.chunks = deferred.chunks
      /\ \A r \in Reqs : b.origin[r] =
           IF deferred.window[r] > 0 THEN h.row[r] ELSE Placeholder
      /\ MergeDrafts(h, b)
      /\ decoding' = decoding /\ scheduled' = scheduled
  BY SampleDeferredFacts
<1>2. \A r \in Reqs : h.row[r] \in {drafts.row[r]} \cup gap
  OBVIOUS
<1> HIDE DEF h, b
<1>3. ASSUME NEW r \in Reqs, HasSampled(r)
      PROVE  h.row[r] \in {deferred.from[r]} \cup gap
  <2>1. drafts.row[r] \in {deferred.from[r]} \cup gap
    BY <1>1, <1>3 DEF RowsCurrent, SampledEnd
  <2> QED
    BY <2>1, <1>2
<1>4. RowsCurrent(gap)'
  <2> SUFFICES ASSUME NEW r \in Reqs, HasSampled(r)'
               PROVE  drafts'.row[r] \in {b.to[r]} \cup gap
    BY <1>1 DEF RowsCurrent, SampledEnd
  <2>1. r \in Structured /\ r \in decoding
    BY <1>1 DEF HasSampled
  <2>2. ASSUME r \notin b.decodes
        PROVE  r \notin b.chunks /\ h.row[r] \in {b.from[r]} \cup gap
    <3>1. r \notin b.chunks
      BY <2>1, <1>1 DEF DeferredRoles
    <3>2. HasSampled(r)
      BY <2>1, <2>2, <1>1 DEF HasSampled
    <3> QED
      BY <3>1, <3>2, <1>1, <1>3
  <2> QED
    BY <2>1, <2>2, <1>1, SampledRow
<1>5. ASSUME NEW r \in deferred.decodes \cap Structured, deferred.window[r] > 0
      PROVE  b.origin[r] \in {deferred.from[r]} \cup gap
  <2>1. r \in Reqs /\ HasSampled(r)
    BY <1>1, <1>5, EngineAssumption DEF HasSampled, DeferredRoles
  <2>2. b.origin[r] = h.row[r]
    BY <2>1, <1>1, <1>5
  <2> QED
    BY <2>1, <2>2, <1>3
<1>6. DeferredRoles'
  BY <1>1 DEF DeferredRoles
<1> QED
  BY <1>4, <1>5, <1>6 DEF b

\* What Schedule chooses.
LEMMA ScheduleChoice ==
  ASSUME IInv, Schedule
  PROVE  \E D \in SUBSET Running : \E C \in SUBSET (Running \ D) :
           \E w \in [Reqs -> 0..NumSpec] :
             /\ ChosenWell(D, C, w)
             /\ ScheduleImmediate(D, C, w) \/ ScheduleDeferred(D, C, w)
BY DEF Schedule, MayDecode, MayPrefill, ChosenWell

LEMMA NextRows ==
  ASSUME IInv, NEW gap, RowsCurrent(gap), DeferredRoles, [Next]_vars,
         \A r \in Reqs : EvictOverCap(drafts).row[r] \in {drafts.row[r]} \cup gap
  PROVE  RowsCurrent(gap)' /\ DeferredRoles'
<1>1. CASE Schedule
  <2>1. PICK D \in SUBSET Running : \E C \in SUBSET (Running \ D) :
          \E w \in [Reqs -> 0..NumSpec] :
            /\ ChosenWell(D, C, w)
            /\ ScheduleImmediate(D, C, w) \/ ScheduleDeferred(D, C, w)
    BY <1>1, ScheduleChoice
  <2>2. PICK C \in SUBSET (Running \ D), w \in [Reqs -> 0..NumSpec] :
          /\ ChosenWell(D, C, w)
          /\ ScheduleImmediate(D, C, w) \/ ScheduleDeferred(D, C, w)
    BY <2>1
  <2> QED
    BY <2>2, ScheduleImmediateRows, ScheduleDeferredRows
<1>2. CASE ScheduleEmpty
  BY <1>2, ScheduleEmptyRows
<1>3. CASE ScheduleNothing \/ ReturnImmediate \/ Environment \/ UNCHANGED vars
  <2>1. /\ deferred' = deferred /\ decoding' = decoding /\ drafts' = drafts
        /\ scheduled' = scheduled
    BY <1>3 DEF ScheduleNothing, ReturnImmediate, Environment, Arrive, ClientAbort,
                vars, requestVars
  <2> QED
    BY <2>1, QuietRows
<1>4. CASE Pop \/ Drain
  <2>1. /\ deferred' = deferred /\ decoding' = decoding /\ drafts' = drafts
        /\ scheduled' = scheduled
    BY <1>4 DEF Pop, Drain, PopAndProcessBatch, UpdateFromOutput, requestVars
  <2> QED
    BY <2>1, QuietRows
<1>5. CASE SampleDeferred
  BY <1>5, SampleDeferredRows
<1> QED
  BY <1>1, <1>2, <1>3, <1>4, <1>5 DEF Next, Loop, Idle

-------------------------------------------------------------------------------
(* No stale drafts. *)

\* Queueing a batch whose origins are current keeps the origins current.
LEMMA AppendOrigins ==
  ASSUME IInv, OriginsCurrent, NEW b \in Batches, queue' = Append(queue, b),
         \A r \in b.decodes \cap Structured : b.origin[r] \in {Placeholder, b.from[r]}
  PROVE  OriginsCurrent'
<1>1. queue \in Seq(Batches) /\ Len(queue) \in Nat
  BY DEF IInv, TypeOK
<1>2. /\ Len(queue') = Len(queue) + 1 /\ queue'[Len(queue) + 1] = b
      /\ \A i \in 1..Len(queue) : queue'[i] = queue[i]
  BY <1>1, AppendProperties
<1>3. \A i \in 1..Len(queue') : i \in 1..Len(queue) \/ i = Len(queue) + 1
  BY <1>1, <1>2
<1> SUFFICES ASSUME NEW i \in 1..Len(queue'),
                    NEW r \in queue'[i].decodes \cap Structured
             PROVE  queue'[i].origin[r] \in {Placeholder, queue'[i].from[r]}
  BY DEF OriginsCurrent
<1>4. CASE i \in 1..Len(queue)
  BY <1>2, <1>4 DEF OriginsCurrent
<1>5. CASE i = Len(queue) + 1
  BY <1>2, <1>5
<1> QED
  BY <1>3, <1>4, <1>5

\* Delivering the oldest batch keeps them current.
LEMMA PopOrigins ==
  ASSUME IInv, OriginsCurrent, queue # <<>>, queue' = Tail(queue)
  PROVE  OriginsCurrent'
<1>1. queue \in Seq(Batches)
  BY DEF IInv, TypeOK
<1>2. \A i \in 1..Len(queue') : queue'[i] = queue[i + 1] /\ i + 1 \in 1..Len(queue)
  BY <1>1
<1> QED
  BY <1>2 DEF OriginsCurrent

LEMMA NextOrigins ==
  ASSUME DraftInv, [Next]_vars
  PROVE  OriginsCurrent'
<1>1. IInv /\ OriginsCurrent
  BY DEF DraftInv
<1>2. CASE Schedule
  <2>1. PICK D \in SUBSET Running : \E C \in SUBSET (Running \ D) :
          \E w \in [Reqs -> 0..NumSpec] :
            ScheduleImmediate(D, C, w) \/ ScheduleDeferred(D, C, w)
    BY <1>2 DEF Schedule
  <2>2. PICK C \in SUBSET (Running \ D), w \in [Reqs -> 0..NumSpec] :
          ScheduleImmediate(D, C, w) \/ ScheduleDeferred(D, C, w)
    BY <2>1
  <2>3. CASE ScheduleImmediate(D, C, w)
    <3> DEFINE b == BatchOf(D, C, w)
    <3>1. queue' = Append(queue, b) /\ b = BatchOf(D, C, w)
      BY <2>3 DEF ScheduleImmediate, AppendLeft
    <3>2. \A r \in Reqs : b.origin[r] = Placeholder
      BY DEF BatchOf
    <3> HIDE DEF b
    <3>3. b \in Batches
      BY <1>1, <3>1, ScheduledBatch
    <3>4. \A r \in b.decodes \cap Structured : b.origin[r] \in {Placeholder, b.from[r]}
      BY <3>2, EngineAssumption
    <3> QED
      BY <1>1, <3>1, <3>3, <3>4, AppendOrigins
  <2>4. CASE ScheduleDeferred(D, C, w)
    BY <1>1, <2>4 DEF ScheduleDeferred, OriginsCurrent
  <2> QED
    BY <2>2, <2>3, <2>4
<1>3. CASE ScheduleEmpty
  <2> DEFINE w == [r \in Reqs |-> 0]
             b == BatchOf({}, {}, w)
  <2>1. queue' = Append(queue, b) /\ b = BatchOf({}, {}, w)
    BY <1>3 DEF ScheduleEmpty, AppendLeft
  <2>2. /\ w \in [Reqs -> 0..NumSpec] /\ {} \in SUBSET Running
        /\ {} \in SUBSET (Running \ {}) /\ b.decodes = {}
    BY EngineAssumption DEF BatchOf
  <2> HIDE DEF w, b
  <2>3. b \in Batches
    BY <1>1, <2>1, <2>2, ScheduledBatch
  <2> QED
    BY <1>1, <2>1, <2>2, <2>3, AppendOrigins
<1>4. CASE ScheduleNothing \/ ReturnImmediate \/ Environment \/ UNCHANGED vars
  <2>1. queue' = queue
    BY <1>4 DEF ScheduleNothing, ReturnImmediate, Environment, Arrive, ClientAbort,
                vars
  <2> QED
    BY <1>1, <2>1 DEF OriginsCurrent
<1>5. CASE Pop \/ Drain
  <2>1. CASE queue # <<>>
    <3>1. queue' = Tail(queue)
      BY <1>5, <2>1 DEF Pop, Drain, PopAndProcessBatch
    <3> QED
      BY <1>1, <2>1, <3>1, PopOrigins
  <2>2. CASE queue = <<>>
    BY <1>1, <1>5, <2>2 DEF Pop, Drain, OriginsCurrent
  <2> QED
    BY <2>1, <2>2
<1>6. CASE SampleDeferred
  <2> DEFINE gap == {Placeholder}
  <2>1. /\ SampledBatch \in Batches /\ SampledBatch.from = deferred.from
        /\ SampledBatch.decodes = deferred.decodes
        /\ queue' = Append(queue, SampledBatch)
        /\ drafts \in DraftMaps
        /\ \A r \in Reqs : SampledBatch.origin[r] =
              IF deferred.window[r] > 0 THEN EvictOverCap(drafts).row[r] ELSE Placeholder
    BY <1>1, <1>6, SampleDeferredFacts
  <2>2. \A r \in Reqs : EvictOverCap(drafts).row[r] \in {drafts.row[r]} \cup gap
    BY <2>1, EvictedRow
  <2>3. RowsCurrent(gap) /\ DeferredRoles
    BY DEF DraftInv
  <2> HIDE DEF gap
  <2>4. \A r \in deferred.decodes \cap Structured : deferred.window[r] > 0 =>
          SampledBatch.origin[r] \in {deferred.from[r]} \cup gap
    BY <1>1, <1>6, <2>2, <2>3, SampleDeferredRows
  <2>5. \A r \in SampledBatch.decodes \cap Structured :
          SampledBatch.origin[r] \in {Placeholder, SampledBatch.from[r]}
    <3> TAKE r \in SampledBatch.decodes \cap Structured
    <3>1. r \in Reqs /\ r \in deferred.decodes \cap Structured
      BY <2>1, EngineAssumption
    <3>2. CASE deferred.window[r] > 0
      BY <2>1, <2>4, <3>1, <3>2 DEF gap
    <3>3. CASE ~(deferred.window[r] > 0)
      BY <2>1, <3>1, <3>3
    <3> QED
      BY <3>2, <3>3
  <2> QED
    BY <1>1, <2>1, <2>5, AppendOrigins
<1> QED
  BY <1>2, <1>3, <1>4, <1>5, <1>6 DEF Next, Loop, Idle

\* The row of a request that has sampled continues its newest sampled batch unless
\* it was evicted, and so do the drafts that a structured window was given.
THEOREM DraftInvariance == Spec => []DraftInv
<1> DEFINE Rest == RowsCurrent({Placeholder}) /\ DeferredRoles /\ OriginsCurrent
<1>1. Init => Rest
  BY DEF Init, RowsCurrent, DeferredRoles, OriginsCurrent, HasSampled
<1>2. ASSUME IInv, Rest, [Next]_vars PROVE Rest'
  <2>1. drafts \in DraftMaps
    BY <1>2 DEF IInv, TypeOK
  <2>2. \A r \in Reqs :
          EvictOverCap(drafts).row[r] \in {drafts.row[r]} \cup {Placeholder}
    BY <2>1, EvictedRow
  <2>3. RowsCurrent({Placeholder})' /\ DeferredRoles'
    BY <1>2, <2>2, NextRows
  <2>4. OriginsCurrent'
    BY <1>2, NextOrigins DEF DraftInv
  <2> QED
    BY <2>3, <2>4
<1> QED
  BY <1>1, <1>2, Invariance, PTL DEF Spec, DraftInv

\* A window that is rewritten and judged by a grammar holds the drafts that
\* continue exactly the slots before it, or none: for every cap of the map and
\* any number of requests, rows of older samples, of aborted and of evicted
\* requests are never taken for it (apply_0028.py 128-131).
THEOREM StaleDraftsNever == Spec => []NoStaleDrafts
<1>1. DraftInv => NoStaleDrafts
  BY DEF DraftInv, OriginsCurrent, NoStaleDrafts
<1> QED
  BY <1>1, DraftInvariance, PTL

-------------------------------------------------------------------------------
(* No window of the deferred path without drafts. *)

KeysDistinct ==
  \A i, j \in 1..Len(drafts.order) : drafts.order[i] = drafts.order[j] => i = j

\* The keys of a map are distinct requests, so a cap that is not smaller than
\* the number of requests is never exceeded.
LEMMA NothingEvicted ==
  ASSUME TypeOK, KeysDistinct, Cardinality(Reqs) <= Cap
  PROVE  EvictOverCap(drafts) = drafts
<1> DEFINE n == Len(drafts.order)
<1>1. drafts.order \in Seq(Reqs) /\ n \in Nat
  BY DEF TypeOK, DraftMaps
<1>2. drafts.order \in Injection(1..n, Reqs)
  BY <1>1 DEF KeysDistinct, Injection, IsInjective
<1>3. Cardinality(1..n) <= Cardinality(Reqs)
  BY <1>2, FS_Injection, EngineAssumption
<1>4. Cardinality(1..n) = n
  BY <1>1, FS_Interval
<1>5. Cardinality(Reqs) \in Nat
  BY EngineAssumption, FS_CardinalityType
<1> QED
  BY <1>1, <1>3, <1>4, <1>5, CapAssumption DEF EvictOverCap

\* A merge adds the keys that were missing, each once.
LEMMA MergeDistinct ==
  ASSUME drafts \in DraftMaps, KeysDistinct, NEW b \in Batches, MergeDrafts(drafts, b)
  PROVE  KeysDistinct'
<1>1. CASE ~HasStructured(b)
  BY <1>1 DEF MergeDrafts, KeysDistinct
<1>2. CASE HasStructured(b)
  <2> DEFINE s == drafts.order
  <2>1. PICK k \in NewKeyOrders(drafts, Members(b)) : drafts'.order = s \o k
    BY <1>2 DEF MergeDrafts, SetDraftTokens
  <2>2. Members(b) \in SUBSET Reqs
    BY DEF Batches, Members
  <2>3. k \in Seq(Reqs) /\ s \in Seq(Reqs)
    BY <2>1, <2>2, NewKeysType DEF DraftMaps
  <2>4. /\ \A i, j \in 1..Len(k) : k[i] = k[j] => i = j
        /\ \A i \in 1..Len(k) : ~HasRow(drafts, k[i])
    <3> DEFINE S == {r \in Members(b) : ~HasRow(drafts, r)}
    <3>1. /\ k \in [1..Cardinality(S) -> S]
          /\ \A i, j \in 1..Cardinality(S) : i # j => k[i] # k[j]
      BY <2>1 DEF NewKeyOrders, SetToSeqs
    <3>2. 1..Len(k) = 1..Cardinality(S)
      BY <3>1, <2>3
    <3> QED
      BY <3>1, <3>2
  <2>5. \A i \in 1..Len(s) : HasRow(drafts, s[i])
    BY <2>3 DEF HasRow, ToSet
  <2> HIDE DEF s
  <2>6. /\ Len(s) \in Nat /\ Len(k) \in Nat /\ Len(s \o k) = Len(s) + Len(k)
        /\ \A i \in 1..Len(s) : (s \o k)[i] = s[i]
        /\ \A i \in 1..(Len(s) + Len(k)) : i \notin 1..Len(s) =>
              i - Len(s) \in 1..Len(k) /\ (s \o k)[i] = k[i - Len(s)]
    BY <2>3
  <2>7. ASSUME NEW i \in 1..Len(s \o k), NEW j \in 1..Len(s \o k),
               (s \o k)[i] = (s \o k)[j]
        PROVE  i = j
    <3>1. CASE i \in 1..Len(s) /\ j \in 1..Len(s)
      BY <2>6, <2>7, <3>1 DEF KeysDistinct, s
    <3>2. CASE i \in 1..Len(s) /\ j \notin 1..Len(s)
      BY <2>4, <2>5, <2>6, <2>7, <3>2
    <3>3. CASE i \notin 1..Len(s) /\ j \in 1..Len(s)
      BY <2>4, <2>5, <2>6, <2>7, <3>3
    <3>4. CASE i \notin 1..Len(s) /\ j \notin 1..Len(s)
      <4>1. i - Len(s) = j - Len(s)
        BY <2>4, <2>6, <2>7, <3>4
      <4> QED
        BY <4>1, <2>6
    <3> QED
      BY <3>1, <3>2, <3>3, <3>4
  <2> QED
    BY <2>1, <2>7 DEF KeysDistinct
<1> QED
  BY <1>1, <1>2

LEMMA NextDistinct ==
  ASSUME IInv, KeysDistinct, [Next]_vars, Cardinality(Reqs) <= Cap
  PROVE  KeysDistinct'
<1>1. TypeOK /\ drafts \in DraftMaps
  BY DEF IInv, TypeOK
<1>2. CASE Schedule
  <2>1. PICK D \in SUBSET Running : \E C \in SUBSET (Running \ D) :
          \E w \in [Reqs -> 0..NumSpec] :
            ScheduleImmediate(D, C, w) \/ ScheduleDeferred(D, C, w)
    BY <1>2 DEF Schedule
  <2>2. PICK C \in SUBSET (Running \ D), w \in [Reqs -> 0..NumSpec] :
          ScheduleImmediate(D, C, w) \/ ScheduleDeferred(D, C, w)
    BY <2>1
  <2>3. CASE ScheduleImmediate(D, C, w)
    <3> DEFINE b == BatchOf(D, C, w)
    <3>1. MergeDrafts(drafts, b) /\ b = BatchOf(D, C, w)
      BY <2>3 DEF ScheduleImmediate
    <3> HIDE DEF b
    <3>2. b \in Batches
      BY <3>1, ScheduledBatch
    <3> QED
      BY <1>1, <3>1, <3>2, MergeDistinct
  <2>4. CASE ScheduleDeferred(D, C, w)
    BY <2>4 DEF ScheduleDeferred, KeysDistinct
  <2> QED
    BY <2>2, <2>3, <2>4
<1>3. CASE SampleDeferred
  <2>1. EvictOverCap(drafts) = drafts
    BY <1>1, NothingEvicted
  <2>2. MergeDrafts(EvictOverCap(drafts), SampledBatch) /\ SampledBatch \in Batches
    BY <1>3, SampleDeferredFacts
  <2> QED
    BY <1>1, <2>1, <2>2, MergeDistinct
<1>4. CASE \/ ScheduleEmpty \/ ScheduleNothing \/ ReturnImmediate \/ Pop \/ Drain
           \/ Environment \/ UNCHANGED vars
  <2>1. drafts' = drafts
    BY <1>4 DEF ScheduleEmpty, ScheduleNothing, ReturnImmediate, Pop, Drain,
                Environment, Arrive, ClientAbort, vars
  <2> QED
    BY <2>1 DEF KeysDistinct
<1> QED
  BY <1>2, <1>3, <1>4 DEF Next, Loop, Idle

\* When a batch stops being deferred, it is sampled.
LEMMA OnlySampling ==
  ASSUME IInv, [Next]_vars, deferred # None, deferred' = None
  PROVE  SampleDeferred
<1>1. pc # "schedule"
  BY DEF IInv, DeferredIsNewest
<1>2. ~Schedule
  BY <1>1 DEF Schedule, ScheduleImmediate, ScheduleDeferred
<1> QED
  BY <1>2 DEF Next, Loop, Environment, Idle, vars, Arrive, ClientAbort, ScheduleEmpty,
              ScheduleNothing, Pop, Drain, ReturnImmediate

\* If the map has room for every request, each window that goes through the
\* deferred path is verified against the drafts that were proposed at its own
\* request's last sample; the run engine_cap shows what happens when more
\* requests pass through than the map has room for.
THEOREM WindowsCovered ==
  ASSUME Cardinality(Reqs) <= Cap
  PROVE  Spec => DeferredWindowsCovered
<1> DEFINE Kept == RowsCurrent({}) /\ DeferredRoles /\ KeysDistinct
           Covered == deferred # None /\ deferred' = None
             => LET b == Last(queue')
                IN  \A r \in b.decodes \cap Structured \cap Running :
                      b.window[r] > 0 => b.origin[r] = b.from[r]
<1>1. Init => Kept
  BY DEF Init, RowsCurrent, DeferredRoles, KeysDistinct, HasSampled, EmptyDraftMap
<1>2. ASSUME IInv, Kept, [Next]_vars PROVE Kept' /\ [Covered]_vars
  <2>1. EvictOverCap(drafts) = drafts
    BY <1>2, NothingEvicted DEF IInv
  <2>2. \A r \in Reqs : EvictOverCap(drafts).row[r] \in {drafts.row[r]} \cup {}
    BY <2>1
  <2>3. RowsCurrent({})' /\ DeferredRoles'
    BY <1>2, <2>2, NextRows
  <2>4. KeysDistinct'
    BY <1>2, NextDistinct
  <2>5. Covered
    <3> SUFFICES ASSUME deferred # None, deferred' = None,
                        NEW r \in Last(queue').decodes \cap Structured \cap Running,
                        Last(queue').window[r] > 0
                 PROVE  Last(queue').origin[r] = Last(queue').from[r]
      OBVIOUS
    <3>1. SampleDeferred
      BY <1>2, OnlySampling
    <3>2. /\ SampledBatch \in Batches /\ queue' = Append(queue, SampledBatch)
          /\ SampledBatch.from = deferred.from
          /\ SampledBatch.decodes = deferred.decodes
          /\ SampledBatch.window = deferred.window
      BY <1>2, <3>1, SampleDeferredFacts
    <3>3. Last(queue') = SampledBatch
      <4>1. queue \in Seq(Batches)
        BY <1>2 DEF IInv, TypeOK
      <4> QED
        BY <4>1, <3>2, AppendProperties DEF Last
    <3>4. SampledBatch.origin[r] \in {deferred.from[r]} \cup {}
      BY <1>2, <2>2, <3>1, <3>2, <3>3, SampleDeferredRows
    <3> QED
      BY <3>2, <3>3, <3>4
  <2> QED
    BY <2>3, <2>4, <2>5
<1> QED
  BY <1>1, <1>2, Invariance, PTL DEF Spec, DeferredWindowsCovered

-------------------------------------------------------------------------------
(* Rotation: a request decodes in at most one of any Rotation consecutive batches, *)
(* and when a batch is deferred and the main pop is over, no more than Rotation    *)
(* batches are in flight.  The inductive invariant is over the batches in flight,  *)
(* oldest first.                                                                   *)

\* Two batches that decode a request are a rotation apart.
Spaced(f) ==
  \A i, j \in 1..Len(f) : i < j =>
    \A r \in f[i].decodes \cap f[j].decodes : j - i >= Rotation

\* A request still cools down for as many calls of schedule() as its newest
\* batch in flight lacks to be a rotation old.
Cooling(f, c) ==
  \A i \in 1..Len(f) : \A r \in f[i].decodes : Len(f) - i + 1 + c[r] >= Rotation

\* None of the batches i..j decodes the request.
Idles(f, i, j, r) == \A k \in i..j : r \notin f[k].decodes

\* Between two batches, and between a batch and the newest slot, a request
\* moves only by decoding: its prefill chunks have no slots.
Linked(f, end) ==
  /\ \A i, j \in 1..Len(f) : i < j =>
       \A r \in Reqs : Idles(f, i, j - 1, r) => f[i].from[r] = f[j].from[r]
  /\ \A i \in 1..Len(f) :
       \A r \in Reqs : Idles(f, i, Len(f), r) => f[i].from[r] = end[r]

RotOK(f, c, end) == Spaced(f) /\ Cooling(f, c) /\ Linked(f, end)

RotInv == RotOK(Flight, cool, scheduled)

-------------------------------------------------------------------------------
(* What the operations on the flight do to it. *)

LEMMA AppendRot ==
  ASSUME NEW f \in Seq(Batches), NEW b \in Batches,
         NEW c \in [Reqs -> Nat], NEW d \in [Reqs -> Nat],
         NEW end \in [Reqs -> Nat], RotOK(f, c, end),
         \A r \in Reqs : b.from[r] = end[r],
         \A r \in b.decodes : c[r] = 0 /\ d[r] = Rotation - 1,
         \A r \in Reqs \ b.decodes : b.to[r] = b.from[r] /\ d[r] + 1 >= c[r]
  PROVE  RotOK(Append(f, b), d, b.to)
<1> DEFINE g == Append(f, b)
           n == Len(f)
<1>1. /\ n \in Nat /\ Len(g) = n + 1 /\ g[n + 1] = b
      /\ \A i \in 1..n : g[i] = f[i] /\ f[i] \in Batches
  BY AppendProperties
<1>2. Rotation \in Nat \ {0} /\ b.decodes \subseteq Reqs
  BY EngineAssumption DEF Batches
<1>3. \A i \in 1..n : f[i].decodes \subseteq Reqs
  BY <1>1 DEF Batches
<1> HIDE DEF g, n
<1>4. \A i \in 1..Len(g) : i \in 1..n \/ i = n + 1
  BY <1>1
<1>5. Spaced(g)
  <2> SUFFICES ASSUME NEW i \in 1..Len(g), NEW j \in 1..Len(g), i < j,
                      NEW r \in g[i].decodes \cap g[j].decodes
               PROVE  j - i >= Rotation
    BY DEF Spaced
  <2>1. i \in 1..n
    BY <1>1
  <2>2. CASE j \in 1..n
    BY <2>1, <2>2, <1>1 DEF RotOK, Spaced, n
  <2>3. CASE j = n + 1
    <3>1. r \in f[i].decodes /\ r \in b.decodes
      BY <2>1, <2>3, <1>1
    <3>2. n - i + 1 + c[r] >= Rotation /\ c[r] = 0
      BY <2>1, <3>1 DEF RotOK, Cooling, n
    <3> QED
      BY <2>1, <2>3, <3>2, <1>1, <1>2
  <2> QED
    BY <2>2, <2>3, <1>4
<1>6. Cooling(g, d)
  <2> SUFFICES ASSUME NEW i \in 1..Len(g), NEW r \in g[i].decodes
               PROVE  (n + 1) - i + 1 + d[r] >= Rotation
    BY <1>1 DEF Cooling
  <2>1. CASE i = n + 1
    BY <2>1, <1>1, <1>2
  <2>2. CASE i \in 1..n
    <3>1. r \in f[i].decodes /\ r \in Reqs /\ c[r] \in Nat /\ d[r] \in Nat
      BY <2>2, <1>1, <1>3
    <3>2. n - i + 1 + c[r] >= Rotation
      BY <2>2, <3>1 DEF RotOK, Cooling, n
    <3>3. CASE r \in b.decodes
      BY <2>2, <3>1, <3>3, <1>1, <1>2
    <3>4. CASE r \notin b.decodes
      <4>1. d[r] + 1 >= c[r]
        BY <3>1, <3>4
      <4> QED
        BY <2>2, <3>1, <3>2, <4>1, <1>1, <1>2
    <3> QED
      BY <3>3, <3>4
  <2> QED
    BY <2>1, <2>2, <1>4
\* To the slots scheduled before b.
<1>7. ASSUME NEW i \in 1..n, NEW r \in Reqs, Idles(g, i, n, r)
      PROVE  f[i].from[r] = b.from[r]
  <2>1. Idles(f, i, n, r)
    BY <1>1, <1>7 DEF Idles
  <2>2. f[i].from[r] = end[r]
    BY <2>1 DEF RotOK, Linked, n
  <2> QED
    BY <2>2
<1>8. ASSUME NEW i \in 1..Len(g), NEW j \in 1..Len(g), i < j, NEW r \in Reqs,
             Idles(g, i, j - 1, r)
      PROVE  g[i].from[r] = g[j].from[r]
  <2>1. i \in 1..n
    BY <1>1, <1>8
  <2>2. CASE j \in 1..n
    <3>1. Idles(f, i, j - 1, r)
      BY <2>1, <2>2, <1>1, <1>8 DEF Idles
    <3>2. f[i].from[r] = f[j].from[r]
      BY <2>1, <2>2, <3>1, <1>8 DEF RotOK, Linked, n
    <3> QED
      BY <2>1, <2>2, <3>2, <1>1
  <2>3. CASE j = n + 1
    <3>1. Idles(g, i, n, r)
      BY <2>3, <1>1, <1>8
    <3> QED
      BY <2>1, <2>3, <3>1, <1>1, <1>7
  <2> QED
    BY <2>2, <2>3, <1>4
<1>9. ASSUME NEW i \in 1..Len(g), NEW r \in Reqs, Idles(g, i, Len(g), r)
      PROVE  g[i].from[r] = b.to[r]
  <2>1. r \notin b.decodes
    <3>1. n + 1 \in i..Len(g)
      BY <1>1
    <3> QED
      BY <3>1, <1>1, <1>9 DEF Idles
  <2>2. b.to[r] = b.from[r]
    BY <2>1
  <2>3. CASE i = n + 1
    BY <2>2, <2>3, <1>1
  <2>4. CASE i \in 1..n
    <3>1. Idles(g, i, n, r)
      BY <2>4, <1>1, <1>9 DEF Idles
    <3> QED
      BY <2>2, <2>4, <3>1, <1>1, <1>7
  <2> QED
    BY <2>3, <2>4, <1>4
<1>10. Linked(g, b.to)
  BY <1>8, <1>9 DEF Linked
<1> QED
  BY <1>5, <1>6, <1>10 DEF RotOK, g

LEMMA TailRot ==
  ASSUME NEW f \in Seq(Batches), f # <<>>, NEW c, NEW end, RotOK(f, c, end)
  PROVE  RotOK(Tail(f), c, end)
<1> DEFINE g == Tail(f)
           n == Len(f)
<1>1. /\ n \in Nat \ {0} /\ Len(g) = n - 1
      /\ \A i \in 1..Len(g) : g[i] = f[i + 1] /\ i + 1 \in 1..n
  OBVIOUS
<1> HIDE DEF g, n
<1>2. Spaced(g)
  <2> SUFFICES ASSUME NEW i \in 1..Len(g), NEW j \in 1..Len(g), i < j,
                      NEW r \in g[i].decodes \cap g[j].decodes
               PROVE  j - i >= Rotation
    BY DEF Spaced
  <2>1. /\ i + 1 \in 1..n /\ j + 1 \in 1..n /\ i + 1 < j + 1
        /\ r \in f[i + 1].decodes \cap f[j + 1].decodes
    BY <1>1
  <2>2. (j + 1) - (i + 1) >= Rotation
    BY <2>1 DEF RotOK, Spaced, n
  <2> QED
    BY <2>2
<1>3. Cooling(g, c)
  <2> SUFFICES ASSUME NEW i \in 1..Len(g), NEW r \in g[i].decodes
               PROVE  (n - 1) - i + 1 + c[r] >= Rotation
    BY <1>1 DEF Cooling
  <2>1. i + 1 \in 1..n /\ r \in f[i + 1].decodes
    BY <1>1
  <2>2. n - (i + 1) + 1 + c[r] >= Rotation
    BY <2>1 DEF RotOK, Cooling, n
  <2>3. n - (i + 1) + 1 = (n - 1) - i + 1
    BY <1>1
  <2> QED
    BY <2>2, <2>3
<1>4. ASSUME NEW i \in 1..Len(g), NEW j \in Nat, NEW r, j <= Len(g), Idles(g, i, j, r)
      PROVE  Idles(f, i + 1, j + 1, r)
  <2> SUFFICES ASSUME NEW k \in (i + 1)..(j + 1) PROVE r \notin f[k].decodes
    BY DEF Idles
  <2>1. k - 1 \in i..j /\ k - 1 \in 1..Len(g) /\ (k - 1) + 1 = k
    BY <1>1, <1>4
  <2> QED
    BY <2>1, <1>1, <1>4 DEF Idles
<1>5. ASSUME NEW i \in 1..Len(g), NEW j \in 1..Len(g), i < j, NEW r \in Reqs,
             Idles(g, i, j - 1, r)
      PROVE  g[i].from[r] = g[j].from[r]
  <2>1. j - 1 \in Nat /\ j - 1 <= Len(g) /\ (j - 1) + 1 = (j + 1) - 1
    BY <1>1
  <2>2. Idles(f, i + 1, (j + 1) - 1, r)
    BY <2>1, <1>4, <1>5
  <2>3. i + 1 \in 1..n /\ j + 1 \in 1..n /\ i + 1 < j + 1
    BY <1>1, <1>5
  <2>4. f[i + 1].from[r] = f[j + 1].from[r]
    BY <2>2, <2>3 DEF RotOK, Linked, n
  <2> QED
    BY <2>4, <1>1
<1>6. ASSUME NEW i \in 1..Len(g), NEW r \in Reqs, Idles(g, i, Len(g), r)
      PROVE  g[i].from[r] = end[r]
  <2>1. Len(g) \in Nat /\ Len(g) + 1 = n
    BY <1>1
  <2>2. Idles(f, i + 1, n, r)
    BY <2>1, <1>4, <1>6
  <2>3. f[i + 1].from[r] = end[r]
    BY <2>2, <1>1 DEF RotOK, Linked, n
  <2> QED
    BY <2>3, <1>1
<1> QED
  BY <1>2, <1>3, <1>5, <1>6 DEF RotOK, Linked, g

\* Rewriting the windows of the newest batch moves nothing.
LEMMA ReplaceLastRot ==
  ASSUME NEW q \in Seq(Batches), NEW x \in Batches, NEW b \in Batches, NEW c, NEW end,
         b.from = x.from, b.decodes = x.decodes, RotOK(Append(q, x), c, end)
  PROVE  RotOK(Append(q, b), c, end)
<1> DEFINE f == Append(q, x)
           g == Append(q, b)
<1>1. /\ Len(f) = Len(q) + 1 /\ Len(g) = Len(f) /\ Len(q) \in Nat
      /\ \A i \in 1..Len(f) : g[i] = f[i] \/ (g[i] = b /\ f[i] = x)
  BY AppendProperties
<1>2. \A i \in 1..Len(f) : g[i].from = f[i].from /\ g[i].decodes = f[i].decodes
  BY <1>1
<1>3. RotOK(f, c, end)
  OBVIOUS
<1> HIDE DEF f, g
<1>4. Spaced(g) /\ Cooling(g, c)
  BY <1>1, <1>2, <1>3 DEF RotOK, Spaced, Cooling
<1>5. ASSUME NEW i \in 1..Len(f), NEW j \in Int, NEW r, j <= Len(f), Idles(g, i, j, r)
      PROVE  Idles(f, i, j, r)
  BY <1>1, <1>2, <1>5 DEF Idles
<1>6. ASSUME NEW i \in 1..Len(g), NEW j \in 1..Len(g), i < j, NEW r \in Reqs,
             Idles(g, i, j - 1, r)
      PROVE  g[i].from[r] = g[j].from[r]
  <2>1. j - 1 \in Int /\ j - 1 <= Len(f)
    BY <1>1
  <2>2. Idles(f, i, j - 1, r)
    BY <2>1, <1>1, <1>5, <1>6
  <2> QED
    BY <2>2, <1>1, <1>2, <1>3, <1>6 DEF RotOK, Linked
<1>7. ASSUME NEW i \in 1..Len(g), NEW r \in Reqs, Idles(g, i, Len(g), r)
      PROVE  g[i].from[r] = end[r]
  <2>1. Idles(f, i, Len(f), r)
    BY <1>1, <1>5, <1>7
  <2> QED
    BY <2>1, <1>1, <1>2, <1>3 DEF RotOK, Linked
<1> QED
  BY <1>4, <1>6, <1>7 DEF RotOK, Linked, g

-------------------------------------------------------------------------------
(* The actions. *)

\* A step that schedules a batch in which only rested requests decode.
LEMMA ScheduleRot ==
  ASSUME IInv, RotInv, ChunkShare = 0, pc = "schedule",
         NEW D \in SUBSET Running, NEW C \in SUBSET (Running \ D),
         NEW w \in [Reqs -> 0..NumSpec], \A r \in D : cool[r] = 0,
         NEW b, b = BatchOf(D, C, w), UpdateAfterSchedule(b),
         Flight' = Append(queue, b)
  PROVE  RotInv'
<1>1. b \in Batches
  BY ScheduledBatch
<1>2. /\ b.decodes = D /\ b.from = scheduled /\ D \subseteq Reqs
      /\ \A r \in Reqs \ D : b.to[r] = scheduled[r] + 0
  BY DEF BatchOf, Running
<1>3. /\ queue \in Seq(Batches) /\ cool \in [Reqs -> Nat]
      /\ scheduled \in [Reqs -> Nat] /\ Flight = queue
  BY DEF IInv, TypeOK, DeferredIsNewest, Flight
<1>4. /\ cool' = [r \in Reqs |-> IF r \in b.decodes THEN Rotation - 1
                                   ELSE IF cool[r] > 0 THEN cool[r] - 1 ELSE 0]
      /\ scheduled' = b.to
  BY DEF UpdateAfterSchedule, StepsToSkip
<1>5. cool' \in [Reqs -> Nat]
  BY <1>3, <1>4, EngineAssumption
<1>6. \A r \in b.decodes : cool[r] = 0 /\ cool'[r] = Rotation - 1
  BY <1>2, <1>4
<1>7. \A r \in Reqs \ b.decodes : b.to[r] = b.from[r] /\ cool'[r] + 1 >= cool[r]
  BY <1>2, <1>3, <1>4
<1>8. RotOK(queue, cool, scheduled)
  BY <1>3 DEF RotInv
<1>9. RotOK(Append(queue, b), cool', b.to)
  BY <1>1, <1>2, <1>3, <1>5, <1>6, <1>7, <1>8, AppendRot
<1> QED
  BY <1>4, <1>9 DEF RotInv

\* The step that delivers a batch.
LEMMA PopRot ==
  ASSUME IInv, RotInv, queue # <<>>, PopAndProcessBatch, deferred' = deferred
  PROVE  RotInv'
<1>1. queue' = Tail(queue) /\ cool' = cool /\ scheduled' = scheduled
  BY DEF PopAndProcessBatch, UpdateFromOutput
<1>2. queue \in Seq(Batches) /\ Flight \in Seq(Batches)
  BY FlightType DEF IInv, TypeOK
<1>3. Flight # <<>> /\ Flight' = Tail(Flight)
  <2>1. CASE deferred = None
    BY <1>1, <2>1 DEF Flight
  <2>2. CASE deferred # None
    <3>1. deferred \in Batches /\ Flight = Append(queue, deferred)
      BY <2>2 DEF IInv, TypeOK, Flight
    <3>2. Flight' = Append(Tail(queue), deferred)
      BY <1>1, <2>2 DEF Flight
    <3>3. Tail(Append(queue, deferred)) = Append(Tail(queue), deferred)
      BY <1>2, <3>1
    <3> QED
      BY <1>2, <3>1, <3>2, <3>3, AppendProperties
  <2> QED
    BY <2>1, <2>2
<1>4. RotOK(Tail(Flight), cool, scheduled)
  BY <1>2, <1>3, TailRot DEF RotInv
<1> QED
  BY <1>1, <1>3, <1>4 DEF RotInv

LEMMA NextRot ==
  ASSUME IInv, RotInv, ChunkShare = 0, [Next]_vars
  PROVE  RotInv'
<1>1. queue \in Seq(Batches) /\ (pc = "schedule" => deferred = None)
  BY DEF IInv, TypeOK, DeferredIsNewest
<1>2. CASE Schedule
  <2>1. PICK D \in SUBSET Running : \E C \in SUBSET (Running \ D) :
          \E w \in [Reqs -> 0..NumSpec] :
            /\ \A r \in D : cool[r] = 0
            /\ ScheduleImmediate(D, C, w) \/ ScheduleDeferred(D, C, w)
    BY <1>2 DEF Schedule, MayDecode
  <2>2. PICK C \in SUBSET (Running \ D), w \in [Reqs -> 0..NumSpec] :
          /\ \A r \in D : cool[r] = 0
          /\ ScheduleImmediate(D, C, w) \/ ScheduleDeferred(D, C, w)
    BY <2>1
  <2> DEFINE b == BatchOf(D, C, w)
  <2>3. b = BatchOf(D, C, w) /\ pc = "schedule" /\ UpdateAfterSchedule(b)
    BY <2>2 DEF ScheduleImmediate, ScheduleDeferred
  <2>4. \/ queue' = Append(queue, b) /\ deferred' = deferred
        \/ queue' = queue /\ deferred' = b
    BY <2>2 DEF ScheduleImmediate, ScheduleDeferred, AppendLeft
  <2> HIDE DEF b
  <2>5. b \in Batches
    BY <2>3, ScheduledBatch
  <2>6. Flight' = Append(queue, b)
    BY <1>1, <2>3, <2>4, <2>5, NoneAssumption DEF Flight
  <2> QED
    BY <2>2, <2>3, <2>6, ScheduleRot
<1>3. CASE ScheduleEmpty
  <2> DEFINE w == [r \in Reqs |-> 0]
             b == BatchOf({}, {}, w)
  <2>1. /\ b = BatchOf({}, {}, w) /\ pc = "schedule" /\ UpdateAfterSchedule(b)
        /\ queue' = Append(queue, b) /\ deferred' = deferred
    BY <1>3 DEF ScheduleEmpty, AppendLeft
  <2>2. /\ w \in [Reqs -> 0..NumSpec] /\ {} \in SUBSET Running
        /\ {} \in SUBSET (Running \ {}) /\ \A r \in {} : cool[r] = 0
    BY EngineAssumption
  <2> HIDE DEF w, b
  <2>3. Flight' = Append(queue, b)
    BY <1>1, <2>1 DEF Flight
  <2> QED
    BY <2>1, <2>2, <2>3, ScheduleRot
<1>4. CASE ScheduleNothing \/ ReturnImmediate \/ Environment \/ UNCHANGED vars
  <2>1. queue' = queue /\ deferred' = deferred /\ cool' = cool /\ scheduled' = scheduled
    BY <1>4 DEF ScheduleNothing, ReturnImmediate, Environment, Arrive, ClientAbort,
                vars, requestVars
  <2> QED
    BY <2>1 DEF RotInv, Flight
<1>5. CASE Pop \/ Drain
  <2>1. CASE queue # <<>>
    <3>1. PopAndProcessBatch /\ deferred' = deferred
      BY <1>5, <2>1 DEF Pop, Drain
    <3> QED
      BY <2>1, <3>1, PopRot
  <2>2. CASE queue = <<>>
    <3>1. /\ queue' = queue /\ deferred' = deferred /\ cool' = cool
          /\ scheduled' = scheduled
      BY <1>5, <2>2 DEF Pop, Drain, requestVars
    <3> QED
      BY <3>1 DEF RotInv, Flight
  <2> QED
    BY <2>1, <2>2
<1>6. CASE SampleDeferred
  <2>1. /\ deferred # None /\ deferred \in Batches /\ deferred' = None
        /\ SampledBatch \in Batches /\ SampledBatch.from = deferred.from
        /\ SampledBatch.decodes = deferred.decodes
        /\ queue' = Append(queue, SampledBatch) /\ scheduled' = scheduled
    BY <1>6, SampleDeferredFacts
  <2>2. cool' = cool
    BY <1>6 DEF SampleDeferred, requestVars
  <2>3. Flight = Append(queue, deferred) /\ Flight' = Append(queue, SampledBatch)
    BY <2>1 DEF Flight
  <2>4. RotOK(Append(queue, deferred), cool, scheduled)
    BY <2>3 DEF RotInv
  <2>5. RotOK(Append(queue, SampledBatch), cool, scheduled)
    BY <1>1, <2>1, <2>4, ReplaceLastRot
  <2> QED
    BY <2>1, <2>2, <2>3, <2>5 DEF RotInv
<1> QED
  BY <1>2, <1>3, <1>4, <1>5, <1>6 DEF Next, Loop, Idle

-------------------------------------------------------------------------------
(* The drain loop under rotation. *)

\* Before the drain loop, the main pop and the free place in the queue leave
\* at most Rotation batches in flight, so each request of the deferred batch
\* decodes in that batch alone.
LEMMA RotationIsEnough ==
  ASSUME IInv, RotInv, QueueInBounds, RoomKept, Depth <= Rotation + 1,
         pc = "drain", deferred # None
  PROVE  ~HasStructuredOutputInFlight(deferred)
<1> DEFINE n == Len(Flight)
<1>1. /\ n \in 1..n /\ Flight[n] = deferred /\ deferred \in Batches
      /\ deferred.to = scheduled /\ Flight \in Seq(Batches) /\ Flight # <<>>
  BY DeferredInFlight, FlightType DEF IInv
<1>2. n \in Nat /\ n <= Rotation
  <2>1. Flight = Append(queue, deferred) /\ queue \in Seq(Batches)
    BY DEF IInv, TypeOK, Flight
  <2>2. n = Len(queue) + 1 /\ Len(queue) \in Nat
    BY <1>1, <2>1, AppendProperties
  <2>3. Len(queue) + 1 < Depth
    BY DEF RoomKept
  <2> QED
    BY <2>2, <2>3, EngineAssumption
<1> HIDE DEF n
<1> SUFFICES ASSUME NEW r \in deferred.decodes \cap Structured, status[r] = "running"
             PROVE  ~(inFlight[r] > OwnShare(deferred, r))
  BY DEF HasStructuredOutputInFlight
<1>3. r \in Reqs /\ r \in Alive
  BY EngineAssumption DEF Alive
<1>4. ASSUME NEW k \in 1..n, k < n PROVE r \notin Flight[k].decodes
  <2>1. r \in Flight[k].decodes => n - k >= Rotation
    BY <1>1, <1>4 DEF RotInv, RotOK, Spaced, n
  <2> QED
    BY <2>1, <1>2, EngineAssumption
<1>5. deferred.from[r] = settled[r]
  <2>1. Flight[1].from[r] = settled[r] /\ 1 \in 1..n
    BY <1>1, <1>2, <1>3 DEF IInv, Tiles
  <2>2. CASE n = 1
    BY <2>1, <2>2, <1>1
  <2>3. CASE n # 1
    <3>1. Idles(Flight, 1, n - 1, r)
      BY <1>2, <1>4 DEF Idles
    <3>2. Flight[1].from[r] = Flight[n].from[r]
      BY <2>1, <2>3, <3>1, <1>1, <1>2, <1>3 DEF RotInv, RotOK, Linked, n
    <3> QED
      BY <2>1, <3>2, <1>1
  <2> QED
    BY <2>2, <2>3
<1>6. inFlight[r] = scheduled[r] - settled[r]
  BY <1>3 DEF IInv, CounterExact
<1>7. scheduled[r] \in Nat /\ settled[r] \in Nat
  BY <1>3 DEF IInv, TypeOK
<1> QED
  BY <1>1, <1>5, <1>6, <1>7 DEF OwnShare

\* Under the async scheduler, whose prefill chunks have no placeholders, with at
\* most one batch more in the queue than the rotation is long, the main pop
\* already catches up with every request of the deferred batch: the drain of
\* 0027 is a safeguard that never pops (apply_0028.py 58-60, 0028 PATCH.md
\* 75-78).
THEOREM DrainInert ==
  ASSUME ChunkShare = 0, Depth <= Rotation + 1
  PROVE  Spec => []DrainInertUnderRotation
<1> DEFINE Inv == RotInv /\ QueueInBounds /\ RoomKept
<1>1. Init => Inv
  BY EngineAssumption
  DEF Init, RotInv, RotOK, Spaced, Cooling, Linked, Flight, QueueInBounds, RoomKept
<1>2. IInv /\ Inv /\ [Next]_vars => Inv'
  BY NextRot, RoomInv
<1>3. IInv /\ Inv => DrainInertUnderRotation
  BY RotationIsEnough DEF DrainInertUnderRotation
<1> QED
  BY <1>1, <1>2, <1>3, Invariance, PTL DEF Spec

===============================================================================
