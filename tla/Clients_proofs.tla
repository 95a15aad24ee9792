------------------------------ MODULE Clients_proofs -----------------------------
(***************************************************************************)
(* Proofs about the bench clients.  The tool agent's records, file,        *)
(* conversation and sandbox tell one story under concurrent threads and    *)
(* failing calls.  The accumulating chat's conversation, JSONL file and    *)
(* summary agree, and what it probes depends on depth alone.  The calls    *)
(* that phase0_repro.py receives in pieces are put together whole.         *)
(***************************************************************************)
EXTENDS ToolAgent, FiniteSetTheorems, SequenceTheorems, WellFoundedInduction, TLAPS

-------------------------------------------------------------------------------
(* Numbers. *)

\* Every set of numbers that is not empty has a least one.
LEMMA LeastNatural ==
  ASSUME NEW T, T \subseteq Nat, T # {}
  PROVE  \E n \in T : \A m \in T : n <= m
<1> DEFINE R == OpToRel(<, Nat)
<1>1. R = {x \in Nat \X Nat : x[1] < x[2]}
  BY DEF OpToRel
<1>2. IsWellFoundedOn(R, Nat)
  BY NatLessThanWellFounded
<1> HIDE DEF R
<1>3. PICK n \in T : \A m \in T : ~(<<m, n>> \in R)
  BY <1>2, WFMin
<1>4. \A m \in T : ~(m < n)
  <2> TAKE m \in T
  <2>1. <<m, n>> \in Nat \X Nat
    OBVIOUS
  <2> QED
    BY <1>1, <1>3, <2>1
<1> QED
  BY <1>4

-------------------------------------------------------------------------------
(* The fold over the conversation. *)

\* What a message does to the files.
Applied(f, m) ==
  CASE m.call.tool = "write_file" -> [f EXCEPT ![m.call.path] = m.call.content]
    [] m.call.tool = "edit_file" /\ f[m.call.path] = m.call.old ->
         [f EXCEPT ![m.call.path] = m.call.content]
    [] m.call.tool = "move_file" /\ f[m.call.path] # Nothing ->
         [p \in Paths |-> IF p = m.call.to THEN f[m.call.path]
                          ELSE IF p = m.call.path THEN Nothing ELSE f[p]]
    [] OTHER -> f

\* The files that the calls of a conversation make of those it starts with.
Replay(b, h) == FoldLeft(Applied, b, h)

\* The recursion of the fold over the places D of h.
IterEq(b, g, h, D) ==
  g = [s \in SUBSET D |-> IF s = {} THEN b ELSE Applied(g[s \ {Max(s)}], h[Max(s)])]

\* FoldLeft picks a solution of its recursion over the sets of places.
LEMMA ReplayIs ==
  ASSUME NEW b, NEW h
  PROVE  Replay(b, h) = (CHOOSE g : IterEq(b, g, h, DOMAIN h))[DOMAIN h]
BY DEF Replay, FoldLeft, MapThenFoldSet, IterEq

\* The largest of a set of places.
LEMMA LargestOf ==
  ASSUME NEW n \in Nat, NEW s, s \subseteq 1..n, s # {}
  PROVE  Max(s) \in s /\ \A x \in s : x <= Max(s)
<1> DEFINE T == {m \in Nat : \A x \in s : x <= m}
<1>1. n \in T
  OBVIOUS
<1>2. PICK m \in T : \A k \in T : m <= k
  BY <1>1, LeastNatural
<1>3. m \in s
  <2> SUFFICES ASSUME m \notin s
               PROVE  FALSE
    OBVIOUS
  <2>1. PICK y : y \in s
    OBVIOUS
  <2>2. m - 1 \in Nat
    BY <1>2, <2>1
  <2>3. \A x \in s : x <= m - 1
    BY <1>2
  <2> QED
    BY <1>2, <2>2, <2>3
<1>4. \A y \in s : m >= y
  BY <1>2
<1>5. Max(s) \in s /\ \A y \in s : Max(s) >= y
  BY <1>3, <1>4 DEF Max
<1> QED
  BY <1>5

\* The recursion has a solution, for every number of places: from the solution for
\* one place less.
LEMMA IterExists ==
  ASSUME NEW b, NEW h, NEW n \in Nat
  PROVE  \E g : IterEq(b, g, h, 1..n)
<1> DEFINE T == {k \in Nat : ~\E g : IterEq(b, g, h, 1..k)}
<1> SUFFICES ASSUME T # {}
             PROVE  FALSE
  OBVIOUS
<1>1. PICK k \in T : \A m \in T : k <= m
  BY LeastNatural
<1>2. CASE k = 0
  <2> DEFINE g == [s \in SUBSET (1..0) |-> b]
  <2>1. \A s \in SUBSET (1..0) : s = {}
    OBVIOUS
  <2>2. IterEq(b, g, h, 1..0)
    BY <2>1 DEF IterEq
  <2> HIDE DEF g
  <2> QED
    BY <1>1, <1>2, <2>2
<1>3. CASE k # 0
  <2>1. k - 1 \in Nat /\ k - 1 \notin T
    BY <1>1, <1>3
  <2>2. PICK e : IterEq(b, e, h, 1..(k - 1))
    BY <2>1
  <2>3. \A s \in SUBSET (1..(k - 1)) :
          e[s] = IF s = {} THEN b ELSE Applied(e[s \ {Max(s)}], h[Max(s)])
    <3>1. e = [s \in SUBSET (1..(k - 1)) |->
                 IF s = {} THEN b ELSE Applied(e[s \ {Max(s)}], h[Max(s)])]
      BY <2>2 DEF IterEq
    <3> QED
      BY <3>1
  <2> DEFINE g == [s \in SUBSET (1..k) |->
                     IF k \in s THEN Applied(e[s \ {k}], h[k]) ELSE e[s]]
  <2>4. \A s \in SUBSET (1..k) :
          g[s] = IF s = {} THEN b ELSE Applied(g[s \ {Max(s)}], h[Max(s)])
    <3> TAKE s \in SUBSET (1..k)
    <3>1. CASE k \in s
      <4>1. Max(s) \in s /\ k <= Max(s) /\ k \in Nat
        BY <3>1, <1>1, LargestOf
      <4>2. Max(s) = k
        <5>1. Max(s) \in 1..k
          BY <4>1
        <5> HIDE DEF g
        <5> QED
          BY <4>1, <5>1
      <4>3. s \ {k} \in SUBSET (1..k) /\ k \notin s \ {k}
        OBVIOUS
      <4>4. g[s \ {k}] = e[s \ {k}]
        BY <4>3
      <4>5. g[s] = Applied(e[s \ {k}], h[k])
        BY <3>1
      <4> HIDE DEF g
      <4> QED
        BY <3>1, <4>2, <4>4, <4>5
    <3>2. CASE k \notin s
      <4>1. s \in SUBSET (1..(k - 1))
        BY <3>2, <1>1
      <4>2. g[s] = e[s] /\ g[s \ {Max(s)}] = e[s \ {Max(s)}]
        BY <3>2
      <4> HIDE DEF g
      <4> QED
        BY <2>3, <4>1, <4>2
    <3> QED
      BY <3>1, <3>2
  <2>5. g = [s \in SUBSET (1..k) |->
               IF s = {} THEN b ELSE Applied(g[s \ {Max(s)}], h[Max(s)])]
    BY <2>4
  <2> HIDE DEF g
  <2>6. IterEq(b, g, h, 1..k)
    BY <2>5 DEF IterEq
  <2> QED
    BY <1>1, <2>6
<1> QED
  BY <1>2, <1>3

\* The solution along the places, one message at a time.
LEMMA IterSteps ==
  ASSUME NEW b, NEW h, NEW n \in Nat, NEW g, IterEq(b, g, h, 1..n)
  PROVE  g[1..0] = b /\ \A j \in 1..n : g[1..j] = Applied(g[1..(j - 1)], h[j])
<1>1. \A s \in SUBSET (1..n) :
        g[s] = IF s = {} THEN b ELSE Applied(g[s \ {Max(s)}], h[Max(s)])
  <2>1. g = [s \in SUBSET (1..n) |->
               IF s = {} THEN b ELSE Applied(g[s \ {Max(s)}], h[Max(s)])]
    BY DEF IterEq
  <2> QED
    BY <2>1
<1>2. 1..0 \in SUBSET (1..n) /\ 1..0 = {}
  OBVIOUS
<1>3. ASSUME NEW j \in 1..n
      PROVE  g[1..j] = Applied(g[1..(j - 1)], h[j])
  <2>1. 1..j \in SUBSET (1..n) /\ j \in 1..j /\ j \in Nat
    OBVIOUS
  <2>2. Max(1..j) \in 1..j /\ j <= Max(1..j)
    BY <2>1, LargestOf
  <2>3. Max(1..j) = j /\ (1..j) \ {j} = 1..(j - 1)
    BY <2>2
  <2>4. 1..j # {}
    BY <2>1
  <2> QED
    BY <1>1, <2>1, <2>3, <2>4
<1> QED
  BY <1>1, <1>2, <1>3

\* One more message is one more step of the fold.
LEMMA ReplayAppend ==
  ASSUME NEW b, NEW S, NEW h \in Seq(S), NEW m \in S
  PROVE  Replay(b, Append(h, m)) = Applied(Replay(b, h), m)
<1> DEFINE n == Len(h)
           l == Append(h, m)
           g == CHOOSE x : IterEq(b, x, h, DOMAIN h)
           f == CHOOSE x : IterEq(b, x, l, DOMAIN l)
<1>1. n \in Nat /\ DOMAIN h = 1..n /\ DOMAIN l = 1..(n + 1)
      /\ l[n + 1] = m /\ \A i \in 1..n : l[i] = h[i]
  OBVIOUS
<1>2. Replay(b, h) = g[1..n] /\ Replay(b, l) = f[1..(n + 1)]
  BY <1>1, ReplayIs
<1>3. IterEq(b, g, h, 1..n)
  BY <1>1, IterExists
<1>4. IterEq(b, f, l, 1..(n + 1))
  <2>1. n + 1 \in Nat
    BY <1>1
  <2> HIDE DEF l
  <2> QED
    BY <1>1, <2>1, IterExists
<1> HIDE DEF g, f, l, n
<1>5. g[1..0] = b /\ \A j \in 1..n : g[1..j] = Applied(g[1..(j - 1)], h[j])
  BY <1>1, <1>3, IterSteps
<1>6. f[1..0] = b /\ \A j \in 1..(n + 1) : f[1..j] = Applied(f[1..(j - 1)], l[j])
  BY <1>1, <1>4, n + 1 \in Nat, IterSteps
<1> DEFINE T == {j \in 0..n : f[1..j] # g[1..j]}
<1>7. T = {}
  <2> SUFFICES ASSUME T # {}
               PROVE  FALSE
    OBVIOUS
  <2>1. T \subseteq Nat
    BY <1>1
  <2>2. PICK j \in T : \A k \in T : j <= k
    BY <2>1, LeastNatural
  <2>3. j # 0
    BY <1>5, <1>6, <2>2
  <2>4. j \in 1..n /\ j - 1 \in 0..n /\ j \in 1..(n + 1)
    BY <1>1, <2>2, <2>3
  <2>5. f[1..(j - 1)] = g[1..(j - 1)]
    BY <2>2, <2>4
  <2>6. f[1..j] = g[1..j]
    BY <1>1, <1>5, <1>6, <2>4, <2>5
  <2> QED
    BY <2>2, <2>6
<1>8. f[1..n] = g[1..n]
  BY <1>1, <1>7
<1>9. f[1..(n + 1)] = Applied(f[1..n], m)
  <2>1. n + 1 \in 1..(n + 1) /\ (n + 1) - 1 = n
    BY <1>1
  <2> QED
    BY <1>1, <1>6, <2>1
<1> QED
  BY <1>2, <1>8, <1>9 DEF l

\* Before the first message the sandbox is as it was found.
LEMMA ReplayEmpty ==
  ASSUME NEW b
  PROVE  Replay(b, <<>>) = b
<1> DEFINE g == CHOOSE x : IterEq(b, x, <<>>, DOMAIN <<>>)
<1>1. DOMAIN <<>> = 1..0
  OBVIOUS
<1>2. IterEq(b, g, <<>>, 1..0)
  BY <1>1, IterExists
<1>3. g[1..0] = b
  BY <1>2, IterSteps
<1> QED
  BY <1>1, <1>3, ReplayIs

-------------------------------------------------------------------------------
(* The inductive invariant of the agent. *)

\* The tasks of a round are numbers, of which there are finitely many, a chain is
\* finite, and whatever files may be found.
AgentConstants ==
  /\ Tasks \subseteq Nat /\ IsFiniteSet(Tasks) /\ Len(Chain) \in Nat
  /\ Found \in [Modes -> [Paths -> Contents \cup {Nothing}]]

\* A sequence, of whatever elements.
IsSeq(s) == \E S : s \in Seq(S)

\* The thread has appended its row to REC and not yet to the file.
Written(t) == pc[t] \in {"write", "writeRecovered"}
\* The threads whose rows are in REC.
Recorded == {t \in Tasks : pc[t] \in {"write", "writeRecovered", "done"}}
\* The row of a thread between its two writes.
RowOf(t) == Row(t, answer[t], pc[t] = "writeRecovered")

\* What the proof needs of the types.
AgentType ==
  /\ step \in 0..Steps
  /\ pc \in [Tasks -> {"off", "ask", "retry", "record", "recovered", "write",
                       "writeRecovered", "done"}]
  /\ DOMAIN answer = Tasks
  /\ lock \in Tasks \cup {Nobody}
  /\ IsSeq(rec) /\ IsSeq(jsonl) /\ IsSeq(history)
  /\ DOMAIN fs = Paths /\ fs = [p \in Paths |-> fs[p]]

\* Threads run in rounds only.
RoundsOnly ==
  /\ mode = "round" => \A t \in Tasks : pc[t] # "off"
  /\ mode # "round" => \A t \in Tasks : pc[t] = "off"

\* The thread between its two writes, and no other, holds the lock.
LockHolds == \A t \in Tasks : Written(t) <=> lock = t

\* The file lacks the row of the holder.
FileBehind == rec = IF lock = Nobody THEN jsonl ELSE Append(jsonl, RowOf(lock))

\* The rows are those of the threads that have recorded, one each, with their answers.
RoundBooks ==
  mode = "round" =>
    /\ Len(rec) = Cardinality(Recorded)
    /\ \A t \in Recorded : \E r \in DOMAIN rec : rec[r].task = t
    /\ \A r \in DOMAIN rec : rec[r].task \in Recorded /\ rec[r].err = answer[rec[r].task].err

\* Outside a round there is one row for each turn, in order.
TurnBooks ==
  mode # "round" => Len(rec) = step /\ \A r \in 1..step : rec[r].task = r

\* The calls of a conversation are numbered by its turns.
Numbering ==
  \A i \in DOMAIN history :
    history[i].role = "assistant" => history[i].id \in 0..step

\* The inductive invariant.
AgentInv ==
  /\ AgentType /\ RoundsOnly /\ LockHolds /\ FileBehind /\ RoundBooks /\ TurnBooks
  /\ Numbering /\ HistoryPaired /\ fs = Replay(Found[mode], history)

\* It holds before the first turn.
LEMMA AgentInit == AgentConstants /\ Init => AgentInv
<1> SUFFICES ASSUME AgentConstants, Init PROVE AgentInv
  OBVIOUS
<1> USE DEF Init
<1>1. AgentType
  <2>1. <<>> \in Seq({})
    OBVIOUS
  <2>2. IsSeq(rec) /\ IsSeq(jsonl) /\ IsSeq(history)
    BY <2>1 DEF IsSeq
  <2>3. DOMAIN fs = Paths /\ fs = [p \in Paths |-> fs[p]]
    <3>1. fs \in [Paths -> Contents \cup {Nothing}]
      BY DEF AgentConstants
    <3> QED
      BY <3>1
  <2> QED
    BY <2>2, <2>3 DEF AgentType, AgentConstants, Steps
<1>2. RoundsOnly
  BY DEF RoundsOnly
<1>3. LockHolds
  BY DEF LockHolds, Written, AgentConstants, Nobody
<1>4. FileBehind
  BY DEF FileBehind
<1>5. RoundBooks
  <2>1. Recorded = {}
    BY DEF Recorded
  <2> QED
    BY <2>1, FS_EmptySet DEF RoundBooks
<1>6. TurnBooks
  BY DEF TurnBooks
<1>7. Numbering /\ HistoryPaired
  BY DEF Numbering, HistoryPaired
<1>8. fs = Replay(Found[mode], history)
  BY ReplayEmpty
<1> QED
  BY <1>1, <1>2, <1>3, <1>4, <1>5, <1>6, <1>7, <1>8 DEF AgentInv

\* What appending an element does to a sequence.
LEMMA SeqAppend ==
  ASSUME NEW s, IsSeq(s), NEW m
  PROVE  /\ IsSeq(Append(s, m)) /\ Len(s) \in Nat /\ Len(Append(s, m)) = Len(s) + 1
         /\ DOMAIN s = 1..Len(s) /\ DOMAIN Append(s, m) = 1..(Len(s) + 1)
         /\ Append(s, m)[Len(s) + 1] = m
         /\ \A i \in 1..Len(s) : Append(s, m)[i] = s[i]
<1>1. PICK S : s \in Seq(S)
  BY DEF IsSeq
<1> DEFINE R == S \cup {m}
<1>2. s \in Seq(R) /\ m \in R
  BY <1>1
<1> HIDE DEF R
<1>3. Append(s, m) \in Seq(R)
  BY <1>2
<1> QED
  BY <1>2, <1>3 DEF IsSeq

\* ReplayAppend, whatever the elements are.
LEMMA ReplayOne ==
  ASSUME NEW b, NEW h, IsSeq(h), NEW m
  PROVE  Replay(b, Append(h, m)) = Applied(Replay(b, h), m)
<1>1. PICK S : h \in Seq(S)
  BY DEF IsSeq
<1> DEFINE R == S \cup {m}
<1>2. h \in Seq(R) /\ m \in R
  BY <1>1
<1> HIDE DEF R
<1> QED
  BY <1>2, ReplayAppend

\* A message without a call changes nothing.
LEMMA NoCallNoChange ==
  ASSUME NEW f, NEW m, m.call = Broken
  PROVE  Applied(f, m) = f
BY DEF Applied, Broken

\* A message with the call does what the call did.
LEMMA CallIsApplied ==
  ASSUME NEW m, NEW c, m.call = c, fs = [p \in Paths |-> fs[p]]
  PROVE  Applied(fs, m) = ExecTool(c)[2]
<1>1. m.call = c
  OBVIOUS
<1>2. CASE c.tool = "write_file"
  BY <1>1, <1>2 DEF Applied, ExecTool, WriteFile
<1>3. CASE c.tool = "read_file"
  BY <1>1, <1>3 DEF Applied, ExecTool, Look
<1>4. CASE c.tool = "edit_file"
  BY <1>1, <1>4 DEF Applied, ExecTool, EditFile
<1>5. CASE c.tool = "move_file"
  <2>1. CASE fs[c.path] # Nothing
    <3>1. ExecTool(c)[2] = [[fs EXCEPT ![c.path] = Nothing] EXCEPT ![c.to] = fs[c.path]]
      BY <1>5, <2>1 DEF ExecTool, MoveFile, Present
    <3>2. Applied(fs, m) = [p \in Paths |-> IF p = c.to THEN fs[c.path]
                                           ELSE IF p = c.path THEN Nothing ELSE fs[p]]
      BY <1>1, <1>5, <2>1 DEF Applied
    <3>3. [[fs EXCEPT ![c.path] = Nothing] EXCEPT ![c.to] = fs[c.path]]
            = [p \in Paths |-> IF p = c.to THEN fs[c.path]
                               ELSE IF p = c.path THEN Nothing ELSE fs[p]]
      OBVIOUS
    <3> QED
      BY <3>1, <3>2, <3>3
  <2>2. CASE fs[c.path] = Nothing
    BY <1>1, <1>5, <2>2 DEF Applied, ExecTool, MoveFile, Present
  <2> QED
    BY <2>1, <2>2
<1>6. CASE c.tool \notin {"write_file", "read_file", "edit_file", "move_file"}
  BY <1>1, <1>6 DEF Applied, ExecTool
<1> QED
  BY <1>2, <1>3, <1>4, <1>5, <1>6

\* A call leaves the files of the same paths.
LEMMA ExecToolFiles ==
  ASSUME NEW c, fs = [p \in Paths |-> fs[p]], DOMAIN fs = Paths
  PROVE  LET f == ExecTool(c)[2] IN DOMAIN f = Paths /\ f = [p \in Paths |-> f[p]]
<1>1. CASE c.tool = "write_file"
  BY <1>1 DEF ExecTool, WriteFile
<1>2. CASE c.tool = "edit_file"
  BY <1>2 DEF ExecTool, EditFile
<1>3. CASE c.tool = "move_file"
  BY <1>3 DEF ExecTool, MoveFile
<1>4. CASE c.tool \notin {"write_file", "edit_file", "move_file"}
  BY <1>4 DEF ExecTool, Look
<1> QED
  BY <1>1, <1>2, <1>3, <1>4

-------------------------------------------------------------------------------
(* What a turn shows of a call. *)

\* A turn that the model is shown as a call and its result, as a note that the
\* step failed, or not at all.
Shown(id) ==
  \/ history' = history /\ fs' = fs
  \/ history' = Append(history, Failed) /\ fs' = fs
  \/ \E c, result : \E call, answered :
       /\ fs' = ExecTool(c)[2]
       /\ \/ /\ call = Message("assistant", id, c, "")
             /\ answered = Message("tool", id, Broken, result)
          \/ /\ call = Message("assistant", 0, c, "")
             /\ answered = Message("user", 0, Broken, result)
       /\ history' = Append(Append(history, call), answered)

\* The fields of a message.
LEMMA Fields ==
  ASSUME NEW role, NEW id, NEW call, NEW result
  PROVE  LET m == Message(role, id, call, result)
         IN  m.role = role /\ m.id = id /\ m.call = call
BY DEF Message

\* A call that is executed is shown with its result.
LEMMA FedIsShown ==
  ASSUME AgentInv, NEW id, NEW calls, Feed(id, calls)
  PROVE  Shown(id)
<1> DEFINE c == calls[1]
           result == ExecTool(c)[1]
           call == IF fmt = "json" THEN Message("assistant", id, c, "")
                   ELSE Message("assistant", 0, c, "")
           reply == IF fmt = "json" THEN Message("tool", id, Broken, result)
                    ELSE Message("user", 0, Broken, result)
<1>1. fs' = ExecTool(c)[2] /\ history' = history \o <<call, reply>>
  BY DEF Feed, ExecFirst, Fed
<1>2. IsSeq(history)
  BY DEF AgentInv, AgentType
<1>3. history \o <<call, reply>> = Append(Append(history, call), reply)
  <2> HIDE DEF call, reply
  <2>1. PICK S : history \in Seq(S)
    BY <1>2 DEF IsSeq
  <2> DEFINE R == S \cup {call, reply}
  <2>2. history \in Seq(R) /\ call \in R /\ reply \in R
    BY <2>1
  <2> HIDE DEF R
  <2> QED
    BY <2>2
<1>4. history' = Append(Append(history, call), reply)
  BY <1>1, <1>3
<1>5. CASE fmt = "json"
  <2>1. call = Message("assistant", id, c, "") /\ reply = Message("tool", id, Broken, result)
    BY <1>5
  <2> HIDE DEF call, reply, result, c
  <2> QED
    BY <1>1, <1>4, <2>1 DEF Shown
<1>6. CASE fmt # "json"
  <2>1. call = Message("assistant", 0, c, "") /\ reply = Message("user", 0, Broken, result)
    BY <1>6
  <2> HIDE DEF call, reply, result, c
  <2> QED
    BY <1>1, <1>4, <2>1 DEF Shown
<1> QED
  BY <1>5, <1>6

\* What a turn leaves of the conversation.
LEMMA ShownKeeps ==
  ASSUME AgentConstants, AgentInv, step' = step + 1, Shown(step'), mode' = mode
  PROVE  /\ IsSeq(history') /\ DOMAIN fs' = Paths /\ fs' = [p \in Paths |-> fs'[p]]
         /\ Numbering' /\ HistoryPaired' /\ fs' = Replay(Found[mode'], history')
<1>0. /\ IsSeq(history) /\ DOMAIN fs = Paths /\ fs = [p \in Paths |-> fs[p]]
      /\ Numbering /\ HistoryPaired /\ fs = Replay(Found[mode], history) /\ step \in Nat
  BY DEF AgentInv, AgentType, AgentConstants, Steps
<1>1. CASE history' = history /\ fs' = fs
  BY <1>0, <1>1 DEF Numbering, HistoryPaired
<1>2. CASE history' = Append(history, Failed) /\ fs' = fs
  <2> DEFINE n == Len(history)
  <2>1. /\ IsSeq(history') /\ n \in Nat /\ Len(history') = n + 1
        /\ DOMAIN history = 1..n /\ DOMAIN history' = 1..(n + 1)
        /\ history'[n + 1] = Failed /\ \A i \in 1..n : history'[i] = history[i]
    BY <1>0, <1>2, SeqAppend
  <2>2. Failed.role = "user"
    BY DEF Failed, Message
  <2> HIDE DEF n
  <2>3. Numbering'
    BY <1>0, <2>1, <2>2 DEF Numbering
  <2>4. HistoryPaired'
    <3>1. \A i \in 1..(n + 1) : history'[i].role \in {"tool", "assistant"} => i \in 1..n
      BY <2>1, <2>2
    <3> QED
      BY <1>0, <2>1, <3>1 DEF HistoryPaired, n
  <2>5. fs' = Replay(Found[mode'], history')
    BY <1>0, <1>2, ReplayOne, NoCallNoChange, Fields DEF Failed
  <2> QED
    BY <1>0, <1>2, <2>1, <2>3, <2>4, <2>5
<1>3. ASSUME NEW c, NEW result, NEW call, NEW reply,
             fs' = ExecTool(c)[2],
             \/ /\ call = Message("assistant", step', c, "")
                /\ reply = Message("tool", step', Broken, result)
             \/ /\ call = Message("assistant", 0, c, "")
                /\ reply = Message("user", 0, Broken, result),
             history' = Append(Append(history, call), reply)
      PROVE  /\ IsSeq(history') /\ DOMAIN fs' = Paths /\ fs' = [p \in Paths |-> fs'[p]]
             /\ Numbering' /\ HistoryPaired' /\ fs' = Replay(Found[mode'], history')
  <2> DEFINE n == Len(history)
             h == Append(history, call)
  <2>1. /\ IsSeq(h) /\ n \in Nat /\ Len(h) = n + 1
        /\ DOMAIN history = 1..n /\ DOMAIN h = 1..(n + 1)
        /\ h[n + 1] = call /\ \A i \in 1..n : h[i] = history[i]
    BY <1>0, SeqAppend
  <2> HIDE DEF n, h
  <2>2. /\ IsSeq(Append(h, reply)) /\ Len(Append(h, reply)) = Len(h) + 1
        /\ DOMAIN Append(h, reply) = 1..(Len(h) + 1)
        /\ Append(h, reply)[Len(h) + 1] = reply
        /\ \A i \in 1..Len(h) : Append(h, reply)[i] = h[i]
    BY <2>1, SeqAppend
  <2>3. /\ IsSeq(history') /\ Len(history') = n + 2 /\ DOMAIN history' = 1..(n + 2)
        /\ history'[n + 2] = reply /\ history'[n + 1] = call
        /\ \A i \in 1..n : history'[i] = history[i]
    <3>1. history' = Append(h, reply)
      BY <1>3 DEF h
    <3>2. (n + 1) + 1 = n + 2 /\ n + 1 \in 1..(n + 1) /\ \A i \in 1..n : i \in 1..(n + 1)
      BY <2>1
    <3> QED
      BY <2>1, <2>2, <3>1, <3>2
  <2>4. /\ call.role = "assistant" /\ call.call = c
        /\ reply.role \in {"tool", "user"} /\ reply.call = Broken
        /\ call.id = reply.id
        /\ \/ call.id = step' /\ reply.role = "tool"
           \/ call.id = 0 /\ reply.role = "user"
    <3>1. ASSUME NEW id, NEW role, call = Message("assistant", id, c, ""),
                 reply = Message(role, id, Broken, result)
          PROVE  /\ call.role = "assistant" /\ call.id = id /\ call.call = c
                 /\ reply.role = role /\ reply.id = id /\ reply.call = Broken
      <4>1. call.role = "assistant" /\ call.id = id /\ call.call = c
        BY <3>1 DEF Message
      <4>2. reply.role = role /\ reply.id = id /\ reply.call = Broken
        BY <3>1 DEF Message
      <4> QED
        BY <4>1, <4>2
    <3>2. CASE call = Message("assistant", step', c, "") /\ reply = Message("tool", step', Broken, result)
      BY <3>1, <3>2
    <3>3. CASE call = Message("assistant", 0, c, "") /\ reply = Message("user", 0, Broken, result)
      BY <3>1, <3>3
    <3> QED
      BY <1>3, <3>2, <3>3
  <2>5. step' \in Nat /\ step' > 0
    BY <1>0
  <2>6. Numbering'
    BY <1>0, <2>1, <2>3, <2>4, <2>5 DEF Numbering
  <2>7. \A i \in 1..(n + 2) : i \in 1..n \/ i = n + 1 \/ i = n + 2
    BY <2>1
  <2>8. /\ \A i \in 1..n : history'[i] = history[i]
        /\ \A i \in 1..n : history[i].role = "assistant" => i < n /\ i + 1 \in 1..n
        /\ \A i \in 1..n : history[i].role = "tool" => i > 1 /\ i - 1 \in 1..n
        /\ \A i \in 1..n : history[i].role = "assistant" => history[i].id \in 0..step
    <3>1. \A i \in 1..n : history[i].role = "assistant" => i < n
      BY <1>0, <2>1 DEF HistoryPaired, n
    <3>2. \A i \in 1..n : history[i].role = "tool" => i > 1
      BY <1>0, <2>1 DEF HistoryPaired
    <3> QED
      BY <1>0, <2>1, <2>3, <3>1, <3>2 DEF Numbering
  <2>9. ASSUME NEW i \in 1..(n + 2), history'[i].role = "tool"
        PROVE  i > 1 /\ history'[i - 1].role = "assistant" /\ history'[i - 1].id = history'[i].id
    <3>1. CASE i \in 1..n
      <4>1. history[i].role = "tool"
        BY <2>9, <2>3, <3>1
      <4>2. i > 1 /\ history[i - 1].role = "assistant" /\ history[i - 1].id = history[i].id
        BY <1>0, <2>1, <3>1, <4>1 DEF HistoryPaired
      <4>3. i - 1 \in 1..n
        BY <2>1, <3>1, <4>2
      <4> QED
        BY <2>3, <3>1, <4>2, <4>3
    <3>2. CASE i = n + 1
      BY <2>3, <2>4, <2>9, <3>2
    <3>3. CASE i = n + 2
      <4>1. i > 1 /\ i - 1 = n + 1
        BY <2>1, <3>3
      <4> QED
        BY <2>3, <2>4, <3>3, <4>1
    <3> QED
      BY <2>7, <3>1, <3>2, <3>3
  <2>10. ASSUME NEW i \in 1..(n + 2), history'[i].role = "assistant"
         PROVE  /\ i < n + 2
                /\ history'[i + 1].role = IF history'[i].id > 0 THEN "tool" ELSE "user"
                /\ \A j \in 1..(n + 2) :
                     history'[j].role = "assistant" /\ history'[j].id = history'[i].id /\ i # j
                       => history'[i].id = 0
    <3>1. CASE i \in 1..n
      <4>1. history[i].role = "assistant" /\ history'[i] = history[i] /\ i < n /\ i + 1 \in 1..n
            /\ history[i].id \in 0..step
        BY <2>10, <2>3, <2>8, <3>1
      <4>2. /\ history[i + 1].role = IF history[i].id > 0 THEN "tool" ELSE "user"
            /\ \A j \in 1..n :
                 history[j].role = "assistant" /\ history[j].id = history[i].id /\ i # j
                   => history[i].id = 0
        BY <1>0, <2>1, <3>1, <4>1 DEF HistoryPaired
      <4>3. history'[i + 1].role = IF history'[i].id > 0 THEN "tool" ELSE "user"
        BY <2>3, <4>1, <4>2
      <4>4. ASSUME NEW j \in 1..(n + 2), history'[j].role = "assistant",
                   history'[j].id = history'[i].id, i # j
            PROVE  history'[i].id = 0
        <5>1. CASE j \in 1..n
          BY <2>3, <4>1, <4>2, <4>4, <5>1
        <5>2. CASE j = n + 1
          <6>1. call.id = history[i].id
            BY <2>3, <4>1, <4>4, <5>2
          <6>2. history[i].id # step'
            BY <1>0, <4>1
          <6> QED
            BY <2>4, <4>1, <6>1, <6>2
        <5>3. CASE j = n + 2
          BY <2>3, <2>4, <4>4, <5>3
        <5> QED
          BY <2>7, <5>1, <5>2, <5>3
      <4>5. i < n + 2
        BY <2>1, <3>1, <4>1
      <4> QED
        BY <4>3, <4>4, <4>5
    <3>2. CASE i = n + 1
      <4>1. i < n + 2 /\ i + 1 = n + 2
        BY <2>1, <3>2
      <4>2. history'[i + 1].role = IF history'[i].id > 0 THEN "tool" ELSE "user"
        BY <2>3, <2>4, <2>5, <3>2, <4>1
      <4>3. ASSUME NEW j \in 1..(n + 2), history'[j].role = "assistant",
                   history'[j].id = history'[i].id, i # j
            PROVE  history'[i].id = 0
        <5>1. CASE j \in 1..n
          <6>1. history[j].role = "assistant" /\ history[j].id = call.id
            BY <2>3, <3>2, <4>3, <5>1
          <6>2. history[j].id \in 0..step
            BY <2>8, <5>1, <6>1
          <6>3. call.id # step'
            BY <1>0, <6>1, <6>2
          <6> QED
            BY <2>3, <2>4, <3>2, <6>3
        <5>2. CASE j = n + 2
          BY <2>3, <2>4, <4>3, <5>2
        <5> QED
          BY <2>7, <3>2, <4>3, <5>1, <5>2
      <4> QED
        BY <4>1, <4>2, <4>3
    <3>3. CASE i = n + 2
      BY <2>3, <2>4, <2>10, <3>3
    <3> QED
      BY <2>7, <3>1, <3>2, <3>3
  <2>11. HistoryPaired'
    BY <2>3, <2>9, <2>10 DEF HistoryPaired
  <2>12. fs' = Replay(Found[mode'], history')
    <3>1. Replay(Found[mode], h) = ExecTool(c)[2]
      <4>1. Replay(Found[mode], h) = Applied(fs, call)
        BY <1>0, ReplayOne DEF h
      <4> QED
        BY <1>0, <1>3, <2>4, <4>1, CallIsApplied
    <3>2. Replay(Found[mode], Append(h, reply)) = Applied(Replay(Found[mode], h), reply)
      BY <2>1, ReplayOne
    <3>3. Applied(Replay(Found[mode], h), reply) = Replay(Found[mode], h)
      BY <2>4, NoCallNoChange
    <3>4. history' = Append(h, reply)
      BY <1>3 DEF h
    <3> QED
      BY <1>3, <3>1, <3>2, <3>3, <3>4
  <2> QED
    BY <1>0, <1>3, <2>3, <2>6, <2>11, <2>12, ExecToolFiles
<1>4. \/ history' = history /\ fs' = fs
      \/ history' = Append(history, Failed) /\ fs' = fs
      \/ \E c, result, call, reply :
           /\ fs' = ExecTool(c)[2]
           /\ \/ /\ call = Message("assistant", step', c, "")
                 /\ reply = Message("tool", step', Broken, result)
              \/ /\ call = Message("assistant", 0, c, "")
                 /\ reply = Message("user", 0, Broken, result)
           /\ history' = Append(Append(history, call), reply)
  BY DEF Shown
<1> QED
  BY <1>1, <1>2, <1>3, <1>4

-------------------------------------------------------------------------------
(* The turns of chains and loops, and the threads of a round. *)

\* A turn leaves one row, in REC and in the file.
LEMMA TurnStep ==
  ASSUME AgentConstants, AgentInv, mode # "round", step < Steps, step' = step + 1,
         NEW row, row.task = step', Report(row), Shown(step'),
         UNCHANGED <<mode, pc, answer, lock>>
  PROVE  AgentInv'
<1>0. /\ AgentType /\ RoundsOnly /\ LockHolds /\ FileBehind /\ TurnBooks
      /\ step \in Nat /\ Steps \in Nat
  BY DEF AgentInv, AgentType, AgentConstants, Steps
<1>1. /\ IsSeq(history') /\ DOMAIN fs' = Paths /\ fs' = [p \in Paths |-> fs'[p]]
      /\ Numbering' /\ HistoryPaired' /\ fs' = Replay(Found[mode'], history')
  BY ShownKeeps
<1>2. rec' = Append(rec, row) /\ jsonl' = Append(jsonl, row)
  BY DEF Report
<1>3. /\ IsSeq(rec) /\ IsSeq(jsonl) /\ pc \in [Tasks -> {"off", "ask", "retry", "record",
                                        "recovered", "write", "writeRecovered", "done"}]
      /\ DOMAIN answer = Tasks /\ lock \in Tasks \cup {Nobody}
  BY <1>0 DEF AgentType
<1>4. step' \in 0..Steps
  BY <1>0
<1>5. AgentType'
  BY <1>1, <1>2, <1>3, <1>4, SeqAppend DEF AgentType, Steps
<1>6. RoundsOnly' /\ LockHolds'
  BY <1>0 DEF RoundsOnly, LockHolds, Written
<1>7. lock = Nobody
  BY <1>0, <1>3 DEF RoundsOnly, LockHolds, Written
<1>8. FileBehind'
  BY <1>0, <1>2, <1>7 DEF FileBehind
<1>9. RoundBooks'
  BY DEF RoundBooks
<1>10. TurnBooks'
  <2>1. Len(rec) = step /\ \A r \in 1..step : rec[r].task = r
    BY <1>0 DEF TurnBooks
  <2>2. Len(rec') = step + 1 /\ rec'[step + 1] = row /\ \A r \in 1..step : rec'[r] = rec[r]
    BY <1>2, <1>3, <2>1, SeqAppend
  <2>3. \A r \in 1..(step + 1) : r \in 1..step \/ r = step + 1
    BY <1>0
  <2>4. \A r \in 1..(step + 1) : rec'[r].task = r
    BY <2>1, <2>2, <2>3
  <2> QED
    BY <2>2, <2>4 DEF TurnBooks
<1> QED
  BY <1>1, <1>5, <1>6, <1>8, <1>9, <1>10 DEF AgentInv

\* The steps of the serial chains, in one format or in both.
LEMMA ChainSteps ==
  ASSUME AgentConstants, AgentInv, NEW raw, NEW again,
         ChainStep(raw, again) \/ MixedStep(raw, again)
  PROVE  AgentInv'
<1> DEFINE first == Asked(raw)
           a     == Settle(first, Asked(again))
           row   == Row(step', a, first.err /\ ~a.err)
<1>1. /\ mode # "round" /\ step < Steps /\ step' = step + 1
      /\ UNCHANGED <<mode, pc, answer, lock>> /\ Report(row)
  BY DEF ChainStep, MixedStep
<1>2. row.task = step'
  BY DEF Row
<1>3. Shown(step')
  <2>1. CASE a.calls # <<>>
    <3>1. Feed(step', a.calls)
      BY <2>1 DEF ChainStep, MixedStep
    <3> QED
      BY <3>1, FedIsShown
  <2>2. CASE a.calls = <<>>
    <3>1. (history' = Append(history, Failed) /\ fs' = fs) \/ (history' = history /\ fs' = fs)
      BY <2>2 DEF ChainStep, MixedStep
    <3> QED
      BY <3>1 DEF Shown
  <2> QED
    BY <2>1, <2>2
<1> HIDE DEF row
<1> QED
  BY <1>1, <1>2, <1>3, TurnStep

\* A turn of a loop.
LEMMA LoopSteps ==
  ASSUME AgentConstants, AgentInv, NEW raw, LoopTurn(raw)
  PROVE  AgentInv'
<1> DEFINE a   == Asked(raw)
           row == Row(step', a, FALSE)
<1>1. /\ mode # "round" /\ step < Steps /\ step' = step + 1
      /\ UNCHANGED <<mode, pc, answer, lock>> /\ Report(row)
  BY DEF LoopTurn
<1>2. row.task = step'
  BY DEF Row
<1>3. Shown(step')
  <2>1. CASE ~a.err
    <3>1. Feed(step', a.calls)
      BY <2>1 DEF LoopTurn
    <3> QED
      BY <3>1, FedIsShown
  <2>2. CASE a.err
    <3>1. history' = Append(history, Failed) /\ fs' = fs
      BY <2>2 DEF LoopTurn
    <3> QED
      BY <3>1 DEF Shown
  <2> QED
    BY <2>1, <2>2
<1> HIDE DEF row
<1> QED
  BY <1>1, <1>2, <1>3, TurnStep

\* A thread that asks has written nothing yet.
LEMMA AskSteps ==
  ASSUME AgentConstants, AgentInv, NEW t \in Tasks, NEW raw,
         AskTask(t, raw) \/ RetryTask(t, raw)
  PROVE  AgentInv'
<1>0. /\ AgentType /\ RoundsOnly /\ LockHolds /\ FileBehind /\ RoundBooks
      /\ Numbering /\ HistoryPaired /\ fs = Replay(Found[mode], history)
      /\ pc \in [Tasks -> {"off", "ask", "retry", "record", "recovered", "write",
                           "writeRecovered", "done"}]
      /\ DOMAIN answer = Tasks
  BY DEF AgentInv, AgentType
<1>1. PICK s \in {"retry", "record", "recovered"} :
        /\ pc[t] \in {"ask", "retry"} /\ pc' = [pc EXCEPT ![t] = s]
        /\ \E b : answer' = [answer EXCEPT ![t] = b]
        /\ UNCHANGED <<mode, step, fs, history, lock, rec, jsonl>>
  <2>1. CASE AskTask(t, raw)
    BY <2>1 DEF AskTask
  <2>2. CASE RetryTask(t, raw)
    BY <2>2 DEF RetryTask
  <2> QED
    BY <2>1, <2>2
<1>2. PICK b :
        /\ pc[t] \in {"ask", "retry"} /\ pc' = [pc EXCEPT ![t] = s]
        /\ answer' = [answer EXCEPT ![t] = b]
        /\ UNCHANGED <<mode, step, fs, history, lock, rec, jsonl>>
  BY <1>1
<1>3. /\ \A x \in Tasks : x # t => pc'[x] = pc[x] /\ answer'[x] = answer[x]
      /\ pc'[t] = s /\ DOMAIN answer' = Tasks
      /\ pc' \in [Tasks -> {"off", "ask", "retry", "record", "recovered", "write",
                            "writeRecovered", "done"}]
  BY <1>0, <1>2
<1>4. AgentType'
  BY <1>0, <1>2, <1>3 DEF AgentType, IsSeq, Steps
<1>5. mode = "round" /\ mode' = "round"
  BY <1>0, <1>2 DEF RoundsOnly
<1>6. RoundsOnly'
  BY <1>0, <1>2, <1>3, <1>5 DEF RoundsOnly
<1>7. LockHolds'
  BY <1>0, <1>2, <1>3 DEF LockHolds, Written
<1>8. FileBehind'
  <2>1. CASE lock = Nobody
    BY <1>0, <1>2, <2>1 DEF FileBehind
  <2>2. CASE lock # Nobody
    <3>1. lock \in Tasks /\ Written(lock)
      BY <1>0, <2>2 DEF LockHolds, AgentType
    <3>2. lock # t
      BY <1>2, <3>1 DEF Written
    <3>3. pc'[lock] = pc[lock] /\ answer'[lock] = answer[lock]
      BY <1>3, <3>1, <3>2
    <3> QED
      BY <1>0, <1>2, <3>3 DEF FileBehind, RowOf
  <2> QED
    BY <2>1, <2>2
<1>9. RoundBooks'
  <2>1. Recorded' = Recorded /\ t \notin Recorded
    BY <1>2, <1>3 DEF Recorded
  <2>2. /\ Len(rec) = Cardinality(Recorded)
        /\ \A x \in Recorded : \E r \in DOMAIN rec : rec[r].task = x
        /\ \A r \in DOMAIN rec : rec[r].task \in Recorded /\ rec[r].err = answer[rec[r].task].err
    BY <1>0, <1>5 DEF RoundBooks
  <2>3. \A x \in Recorded : answer'[x] = answer[x]
    BY <1>3, <2>1 DEF Recorded
  <2> QED
    BY <1>2, <2>1, <2>2, <2>3 DEF RoundBooks
<1>10. TurnBooks'
  BY <1>5 DEF TurnBooks
<1>11. Numbering' /\ HistoryPaired' /\ (fs = Replay(Found[mode], history))'
  BY <1>0, <1>2 DEF Numbering, HistoryPaired
<1> QED
  BY <1>4, <1>6, <1>7, <1>8, <1>9, <1>10, <1>11 DEF AgentInv

\* A thread that takes the lock appends the row that the file now lacks.
LEMMA AppendRowStep ==
  ASSUME AgentConstants, AgentInv, NEW t \in Tasks, AppendRow(t)
  PROVE  AgentInv'
<1>0. /\ AgentType /\ RoundsOnly /\ LockHolds /\ FileBehind /\ RoundBooks
      /\ Numbering /\ HistoryPaired /\ fs = Replay(Found[mode], history)
      /\ pc \in [Tasks -> {"off", "ask", "retry", "record", "recovered", "write",
                           "writeRecovered", "done"}]
      /\ DOMAIN answer = Tasks /\ IsSeq(rec)
  BY DEF AgentInv, AgentType
<1> DEFINE row == Row(t, answer[t], pc[t] = "recovered")
<1>1. /\ pc[t] \in {"record", "recovered"} /\ lock = Nobody /\ lock' = t
      /\ rec' = Append(rec, row)
      /\ pc' = [pc EXCEPT ![t] = IF pc[t] = "recovered" THEN "writeRecovered" ELSE "write"]
      /\ UNCHANGED <<mode, step, fs, history, answer, jsonl>>
  BY DEF AppendRow, Free
<1>2. /\ \A x \in Tasks : x # t => pc'[x] = pc[x]
      /\ pc'[t] = IF pc[t] = "recovered" THEN "writeRecovered" ELSE "write"
      /\ pc' \in [Tasks -> {"off", "ask", "retry", "record", "recovered", "write",
                            "writeRecovered", "done"}]
  BY <1>0, <1>1
<1>3. /\ IsSeq(rec') /\ Len(rec) \in Nat /\ Len(rec') = Len(rec) + 1
      /\ DOMAIN rec = 1..Len(rec) /\ DOMAIN rec' = 1..(Len(rec) + 1)
      /\ rec'[Len(rec) + 1] = row /\ \A i \in 1..Len(rec) : rec'[i] = rec[i]
  BY <1>0, <1>1, SeqAppend
<1>4. row.task = t /\ row.err = answer[t].err
  BY DEF Row
<1>5. AgentType'
  BY <1>0, <1>1, <1>2, <1>3 DEF AgentType, IsSeq, Steps
<1>6. mode = "round" /\ mode' = "round"
  BY <1>0, <1>1 DEF RoundsOnly
<1>7. RoundsOnly'
  BY <1>0, <1>1, <1>2, <1>6 DEF RoundsOnly
<1>8. LockHolds'
  <2>1. Nobody \notin Tasks
    BY DEF AgentConstants, Nobody
  <2> QED
    BY <1>0, <1>1, <1>2, <2>1 DEF LockHolds, Written
<1>9. FileBehind'
  <2>1. t # Nobody /\ lock' # Nobody
    BY <1>1 DEF AgentConstants, Nobody
  <2>2. rec = jsonl
    BY <1>0, <1>1 DEF FileBehind
  <2>3. RowOf(t)' = row
    <3>1. (pc'[t] = "writeRecovered") = (pc[t] = "recovered")
      BY <1>2
    <3> QED
      BY <1>1, <3>1 DEF RowOf
  <2> QED
    BY <1>1, <2>1, <2>2, <2>3 DEF FileBehind, RowOf
<1> HIDE DEF row
<1>10. RoundBooks'
  <2>1. Recorded' = Recorded \cup {t} /\ t \notin Recorded
    BY <1>1, <1>2 DEF Recorded
  <2>2. IsFiniteSet(Recorded)
    BY FS_Subset DEF Recorded, AgentConstants
  <2>3. Cardinality(Recorded') = Cardinality(Recorded) + 1
    BY <2>1, <2>2, FS_AddElement
  <2>4. /\ Len(rec) = Cardinality(Recorded)
        /\ \A x \in Recorded : \E r \in DOMAIN rec : rec[r].task = x
        /\ \A r \in DOMAIN rec : rec[r].task \in Recorded /\ rec[r].err = answer[rec[r].task].err
    BY <1>0, <1>6 DEF RoundBooks
  <2>5. \A x \in Recorded' : \E r \in DOMAIN rec' : rec'[r].task = x
    <3>1. Len(rec) + 1 \in DOMAIN rec' /\ rec'[Len(rec) + 1].task = t
      BY <1>3, <1>4
    <3>2. \A r \in DOMAIN rec : r \in DOMAIN rec' /\ rec'[r] = rec[r]
      BY <1>3
    <3> QED
      BY <2>1, <2>4, <3>1, <3>2
  <2>6. \A r \in DOMAIN rec' : rec'[r].task \in Recorded' /\ rec'[r].err = answer'[rec'[r].task].err
    <3>1. \A r \in DOMAIN rec' : r \in DOMAIN rec \/ r = Len(rec) + 1
      BY <1>3
    <3> QED
      BY <1>1, <1>3, <1>4, <2>1, <2>4, <3>1
  <2> QED
    BY <1>3, <2>3, <2>4, <2>5, <2>6 DEF RoundBooks
<1>11. TurnBooks'
  BY <1>6 DEF TurnBooks
<1>12. Numbering' /\ HistoryPaired' /\ (fs = Replay(Found[mode], history))'
  BY <1>0, <1>1 DEF Numbering, HistoryPaired
<1> QED
  BY <1>5, <1>7, <1>8, <1>9, <1>10, <1>11, <1>12 DEF AgentInv

\* The holder writes that row and gives the lock back.
LEMMA WriteRowStep ==
  ASSUME AgentConstants, AgentInv, NEW t \in Tasks, WriteRow(t)
  PROVE  AgentInv'
<1>0. /\ AgentType /\ RoundsOnly /\ LockHolds /\ FileBehind /\ RoundBooks
      /\ Numbering /\ HistoryPaired /\ fs = Replay(Found[mode], history)
      /\ pc \in [Tasks -> {"off", "ask", "retry", "record", "recovered", "write",
                           "writeRecovered", "done"}]
      /\ DOMAIN answer = Tasks /\ IsSeq(jsonl)
  BY DEF AgentInv, AgentType
<1>1. /\ Written(t) /\ lock' = Nobody
      /\ jsonl' = Append(jsonl, RowOf(t)) /\ pc' = [pc EXCEPT ![t] = "done"]
      /\ UNCHANGED <<mode, step, fs, history, answer, rec>>
  BY DEF WriteRow, Written, RowOf
<1>2. /\ \A x \in Tasks : x # t => pc'[x] = pc[x]
      /\ pc'[t] = "done"
      /\ pc' \in [Tasks -> {"off", "ask", "retry", "record", "recovered", "write",
                            "writeRecovered", "done"}]
  BY <1>0, <1>1
<1>3. lock = t /\ t # Nobody
  BY <1>0, <1>1 DEF LockHolds, AgentConstants, Nobody
<1>4. AgentType'
  BY <1>0, <1>1, <1>2, SeqAppend DEF AgentType, IsSeq, Steps
<1>5. mode = "round" /\ mode' = "round"
  BY <1>0, <1>1 DEF RoundsOnly, Written
<1>6. RoundsOnly'
  BY <1>0, <1>1, <1>2, <1>5 DEF RoundsOnly
<1>7. LockHolds'
  <2>1. Nobody \notin Tasks
    BY DEF AgentConstants, Nobody
  <2>2. \A x \in Tasks : ~Written(x)'
    BY <1>0, <1>2, <1>3 DEF LockHolds, Written
  <2> QED
    BY <1>1, <2>1, <2>2 DEF LockHolds
<1>8. FileBehind'
  <2>1. rec = Append(jsonl, RowOf(t))
    BY <1>0, <1>3 DEF FileBehind
  <2> QED
    BY <1>1, <2>1 DEF FileBehind
<1>9. RoundBooks'
  <2>1. Recorded' = Recorded
    BY <1>1, <1>2 DEF Recorded, Written
  <2> QED
    BY <1>0, <1>1, <1>5, <2>1 DEF RoundBooks
<1>10. TurnBooks'
  BY <1>5 DEF TurnBooks
<1>11. Numbering' /\ HistoryPaired' /\ (fs = Replay(Found[mode], history))'
  BY <1>0, <1>1 DEF Numbering, HistoryPaired
<1> QED
  BY <1>4, <1>6, <1>7, <1>8, <1>9, <1>10, <1>11 DEF AgentInv

\* Every step keeps the invariant.
LEMMA AgentNext == AgentConstants /\ AgentInv /\ [Next]_vars => AgentInv'
<1> SUFFICES ASSUME AgentConstants, AgentInv, [Next]_vars PROVE AgentInv'
  OBVIOUS
<1>1. ASSUME NEW raw, NEW again, ChainStep(raw, again) \/ MixedStep(raw, again)
      PROVE  AgentInv'
  BY <1>1, ChainSteps
<1>2. ASSUME NEW raw, LoopTurn(raw)
      PROVE  AgentInv'
  BY <1>2, LoopSteps
<1>3. ASSUME NEW raw, NEW t \in Tasks, AskTask(t, raw) \/ RetryTask(t, raw)
      PROVE  AgentInv'
  BY <1>3, AskSteps
<1>4. ASSUME NEW t \in Tasks, AppendRow(t)
      PROVE  AgentInv'
  BY <1>4, AppendRowStep
<1>5. ASSUME NEW t \in Tasks, WriteRow(t)
      PROVE  AgentInv'
  BY <1>5, WriteRowStep
<1>6. CASE UNCHANGED vars
  BY <1>6 DEF vars, AgentInv, AgentType, RoundsOnly, LockHolds, Written, FileBehind, RowOf,
              RoundBooks, Recorded, TurnBooks, Numbering, HistoryPaired, Steps
<1> QED
  BY <1>1, <1>2, <1>3, <1>4, <1>5, <1>6 DEF Next

-------------------------------------------------------------------------------
(* The theorems. *)

\* The inductive invariant of the tool agent (dual_format_agent.py) holds in every
\* reachable state of chains, loops and concurrent rounds.
THEOREM AgentInvariance ==
  ASSUME AgentConstants
  PROVE  Spec => []AgentInv
BY AgentInit, AgentNext, PTL DEF Spec

\* The tool agent tells one story, for any files, chain, tasks and answers: the JSONL
\* file holds the records of REC in their order and lags by at most the one being
\* written, however the threads of a round interleave; every task, step or turn
\* leaves one record, which is true of its own answer; and the calls shown in the
\* conversation, each paired with its result, make the sandbox what it is of what it
\* was when the agent began.
THEOREM AgentTellsOneStory ==
  ASSUME AgentConstants
  PROVE  Spec => [](FileFollowsRecords /\ OneRecordEach /\ Replayed /\ HistoryPaired)
<1>1. AgentInv => FileFollowsRecords
  <2> SUFFICES ASSUME AgentInv PROVE FileFollowsRecords
    OBVIOUS
  <2>1. IsSeq(jsonl) /\ FileBehind
    BY DEF AgentInv, AgentType
  <2>2. IsPrefix(jsonl, rec)
    <3>1. CASE lock = Nobody
      <4>1. rec = jsonl
        BY <2>1, <3>1 DEF FileBehind
      <4>2. Len(jsonl) \in Nat /\ DOMAIN jsonl = 1..Len(jsonl)
        BY <2>1, SeqAppend
      <4> QED
        BY <2>1, <4>1, <4>2 DEF IsPrefix, IsSeq
    <3>2. CASE lock # Nobody
      <4>1. rec = Append(jsonl, RowOf(lock))
        BY <2>1, <3>2 DEF FileBehind
      <4>2. PICK S : jsonl \in Seq(S)
        BY <2>1 DEF IsSeq
      <4> DEFINE R == S \cup {RowOf(lock)}
      <4>3. jsonl \in Seq(R) /\ RowOf(lock) \in R
        BY <4>2
      <4> HIDE DEF R
      <4> QED
        BY <4>1, <4>3 DEF IsPrefix
    <3> QED
      BY <3>1, <3>2
  <2> QED
    BY <2>1, <2>2 DEF FileFollowsRecords, FileBehind
<1>2. AgentInv => OneRecordEach
  <2> SUFFICES ASSUME AgentInv PROVE OneRecordEach
    OBVIOUS
  <2>1. AgentType /\ RoundBooks /\ TurnBooks /\ IsSeq(rec)
    BY DEF AgentInv, AgentType
  <2>2. CASE mode = "round"
    <3>1. Over => Recorded = Tasks
      BY <2>2 DEF Over, Recorded
    <3> QED
      BY <2>1, <2>2, <3>1 DEF RoundBooks, OneRecordEach
  <2>3. CASE mode # "round"
    <3>1. Over => step = Steps
      BY <2>3 DEF Over
    <3>2. DOMAIN rec = 1..Len(rec)
      BY <2>1, SeqAppend
    <3> QED
      BY <2>1, <2>3, <3>1, <3>2 DEF TurnBooks, OneRecordEach
  <2> QED
    BY <2>2, <2>3
<1>3. AgentInv => Replayed
  BY DEF AgentInv, Replayed, Replay, Applied
<1>4. AgentInv => HistoryPaired
  BY DEF AgentInv
<1> QED
  BY AgentInvariance, <1>1, <1>2, <1>3, <1>4, PTL

-------------------------------------------------------------------------------
(* The accumulating chat. *)

CONSTANTS Kinds, MaxChunks, NumTopics, CanaryEvery, RecallEvery, Efforts, MaxFailed
VARIABLES phase, streams, next, chunks, turn, messages, canaries, log,
          degenTurn, over, todo, effort

Chat == INSTANCE ChatAccumulate

\* The content types are finitely many, the options of the command line are positive,
\* and the efforts are a sequence.
ChatConstants ==
  /\ IsFiniteSet(Kinds) /\ MaxChunks \in Nat
  /\ NumTopics \in Nat \ {0} /\ CanaryEvery \in Nat \ {0} /\ RecallEvery \in Nat \ {0}
  /\ Len(Efforts) \in Nat

\* Division with a remainder.
LEMMA Quotient ==
  ASSUME NEW n \in Nat, NEW k \in Nat \ {0}
  PROVE  /\ n \div k \in Nat /\ n % k \in 0..(k - 1)
         /\ n = (n \div k) * k + (n % k)
  OBVIOUS

\* The quotient and the remainder of two numbers.
LEMMA QuotientUnique ==
  ASSUME NEW k \in Nat \ {0}, NEW a \in Nat, NEW b \in Nat,
         NEW r \in 0..(k - 1), NEW s \in 0..(k - 1), a * k + r = b * k + s
  PROVE  a = b /\ r = s
<1>1. (a - b) * k = s - r /\ a - b \in Int
  OBVIOUS
<1>2. ~(a - b >= 1)
  <2> SUFFICES ASSUME a - b >= 1
               PROVE  FALSE
    OBVIOUS
  <2>1. (a - b) * k >= k
    BY <1>1
  <2> QED
    BY <1>1, <2>1
<1>3. ~(a - b <= -1)
  <2> SUFFICES ASSUME a - b <= -1
               PROVE  FALSE
    OBVIOUS
  <2>1. (a - b) * k <= -k
    BY <1>1
  <2> QED
    BY <1>1, <2>1
<1>4. a = b
  BY <1>1, <1>2, <1>3
<1> QED
  BY <1>4

\* One number on.
LEMMA NextQuotient ==
  ASSUME NEW n \in Nat, NEW k \in Nat \ {0}
  PROVE  /\ (n + 1) % k = IF (n % k) + 1 = k THEN 0 ELSE (n % k) + 1
         /\ (n + 1) \div k = (n \div k) + IF (n + 1) % k = 0 THEN 1 ELSE 0
<1> DEFINE q == n \div k
           r == n % k
           p == (n + 1) \div k
           s == (n + 1) % k
<1>1. q \in Nat /\ r \in 0..(k - 1) /\ n = q * k + r
  BY Quotient
<1>2. p \in Nat /\ s \in 0..(k - 1) /\ n + 1 = p * k + s
  <2>1. n + 1 \in Nat
    OBVIOUS
  <2> QED
    BY <2>1, Quotient
<1> SUFFICES /\ s = IF r + 1 = k THEN 0 ELSE r + 1
             /\ p = q + IF s = 0 THEN 1 ELSE 0
  OBVIOUS
<1> HIDE DEF p, q, r, s
<1>3. CASE r + 1 = k
  <2>1. (q + 1) * k + 0 = p * k + s
    BY <1>1, <1>2, <1>3
  <2>2. q + 1 \in Nat /\ 0 \in 0..(k - 1)
    BY <1>1
  <2>3. q + 1 = p /\ 0 = s
    BY <1>2, <2>1, <2>2, QuotientUnique
  <2> QED
    BY <1>3, <2>3
<1>4. CASE r + 1 # k
  <2>1. q * k + (r + 1) = p * k + s
    BY <1>1, <1>2
  <2>2. r + 1 \in 0..(k - 1)
    BY <1>1, <1>4
  <2>3. q = p /\ r + 1 = s
    BY <1>1, <1>2, <2>1, <2>2, QuotientUnique
  <2> QED
    BY <1>1, <1>4, <2>3
<1> QED
  BY <1>3, <1>4

-------------------------------------------------------------------------------
(* The corpus: streams s, the counter n and the chunks c that were popped. *)

\* How often a type is in c, and how many of its types have run dry.
Uses(c, k) == Cardinality({d \in DOMAIN c : c[d] = k})
TypesOf(c) == {c[d] : d \in DOMAIN c}
Open(s) == {s[j][1] : j \in DOMAIN s}
Dried(c, s) == Cardinality(TypesOf(c) \ Open(s))

CorpusType(s, n, c) == s \in Seq(Kinds \X (Nat \ {0})) /\ n \in Nat /\ c \in Seq(Kinds)

OneStreamEach(s) == \A i, j \in DOMAIN s : s[i][1] = s[j][1] => i = j

\* Two neighbours of one type end the alternation: no other type is left.  While
\* two are left, the next chunk is not of the last one's type.
Alternates(s, n, c) ==
  /\ \A d \in 1..(Len(c) - 1) :
       c[d] = c[d + 1] => /\ \A e \in d..Len(c) : c[e] = c[d]
                          /\ \A j \in DOMAIN s : s[j][1] = c[d]
  /\ c # <<>> /\ Len(s) >= 2 => s[(n % Len(s)) + 1][1] # c[Len(c)]

\* How often a stream was used before the current lap over the streams.
BeforeLap(s, n, c, j) == Uses(c, s[j][1]) - (IF j <= n % Len(s) THEN 1 ELSE 0)

\* A stream that ran dry shifts the laps of the others by one at the most.
LapsClose(s, n, c) ==
  \A i, j \in DOMAIN s :
    i < j => /\ BeforeLap(s, n, c, i) - BeforeLap(s, n, c, j) >= -(Dried(c, s) + 1)
             /\ BeforeLap(s, n, c, i) - BeforeLap(s, n, c, j) <= Dried(c, s)

CorpusInv(s, n, c) ==
  CorpusType(s, n, c) /\ OneStreamEach(s) /\ Alternates(s, n, c) /\ LapsClose(s, n, c)

\* One more chunk.
LEMMA UsesAppend ==
  ASSUME NEW c \in Seq(Kinds), NEW x \in Kinds, NEW k
  PROVE  /\ Uses(c, k) \in Nat
         /\ Uses(Append(c, x), k) = Uses(c, k) + IF x = k THEN 1 ELSE 0
<1> DEFINE D == {d \in DOMAIN c : c[d] = k}
           E == {d \in DOMAIN Append(c, x) : Append(c, x)[d] = k}
           m == Len(c) + 1
<1>1. /\ Len(c) \in Nat /\ DOMAIN c = 1..Len(c) /\ DOMAIN Append(c, x) = 1..(Len(c) + 1)
      /\ Append(c, x)[Len(c) + 1] = x /\ \A d \in 1..Len(c) : Append(c, x)[d] = c[d]
  OBVIOUS
<1>2. IsFiniteSet(D)
  <2>1. IsFiniteSet(1..Len(c)) /\ D \in SUBSET (1..Len(c))
    BY <1>1, FS_Interval
  <2> QED
    BY <2>1, FS_Subset
<1>3. m \notin D
  BY <1>1
<1>4. E = IF x = k THEN D \cup {m} ELSE D
  BY <1>1
<1>5. Cardinality(D) \in Nat
  BY <1>2, FS_CardinalityType
<1>6. Cardinality(D \cup {m}) = Cardinality(D) + 1
  <2> HIDE DEF D, m
  <2> QED
    BY <1>2, <1>3, FS_AddElement
<1>7. Uses(c, k) = Cardinality(D) /\ Uses(Append(c, x), k) = Cardinality(E)
  BY DEF Uses
<1> HIDE DEF D, E, m
<1> QED
  BY <1>4, <1>5, <1>6, <1>7

\* The types of a sequence are finitely many.
LEMMA TypesFinite ==
  ASSUME NEW c \in Seq(Kinds), NEW s
  PROVE  /\ IsFiniteSet(TypesOf(c) \ Open(s))
         /\ Dried(c, s) \in Nat
<1> DEFINE f == [d \in 1..Len(c) |-> c[d]]
<1>1. IsFiniteSet(1..Len(c))
  BY FS_Interval
<1>2. f \in Surjection(1..Len(c), TypesOf(c))
  BY DEF Surjection, TypesOf
<1>3. IsFiniteSet(TypesOf(c))
  <2> HIDE DEF f
  <2> QED
    BY <1>1, <1>2, FS_Surjection
<1>4. (TypesOf(c) \ Open(s)) \in SUBSET TypesOf(c)
  OBVIOUS
<1>5. IsFiniteSet(TypesOf(c) \ Open(s))
  BY <1>3, <1>4, FS_Subset
<1> QED
  BY <1>5, FS_CardinalityType DEF Dried

\* A sequence whose items are all in S.
LEMMA Retyped ==
  ASSUME NEW R, NEW S, NEW s \in Seq(R), \A j \in 1..Len(s) : s[j] \in S
  PROVE  s \in Seq(S)
<1>1. Len(s) \in Nat /\ s \in [1..Len(s) -> R]
  BY LenProperties
<1>2. s \in [1..Len(s) -> S]
  BY <1>1
<1> QED
  BY <1>1, <1>2

\* A sequence without one of its items.
LEMMA Removed ==
  ASSUME NEW S, NEW s \in Seq(S), NEW i \in 1..Len(s)
  PROVE  /\ Chat!RemoveAt(s, i) \in Seq(S)
         /\ Len(Chat!RemoveAt(s, i)) = Len(s) - 1
         /\ \A j \in 1..(Len(s) - 1) :
              Chat!RemoveAt(s, i)[j] = s[IF j < i THEN j ELSE j + 1]
<1> DEFINE a == SubSeq(s, 1, i - 1)
           b == SubSeq(s, i + 1, Len(s))
<1>1. /\ a \in Seq(S) /\ Len(a) = i - 1
      /\ \A j \in 1..(i - 1) : a[j] = s[j]
  OBVIOUS
<1>2. /\ b \in Seq(S) /\ Len(b) = Len(s) - i
      /\ \A j \in 1..(Len(s) - i) : b[j] = s[i + j]
  OBVIOUS
<1>3. Chat!RemoveAt(s, i) = a \o b
  BY DEF Chat!RemoveAt
<1>4. Len(s) \in Nat
  OBVIOUS
<1> HIDE DEF a, b
<1>5. a \o b \in Seq(S) /\ Len(a \o b) = Len(s) - 1
  <2>1. a \o b \in Seq(S) /\ Len(a \o b) = Len(a) + Len(b)
    BY <1>1, <1>2, ConcatProperties
  <2> QED
    BY <1>1, <1>2, <1>4, <2>1
<1>6. ASSUME NEW j \in 1..(Len(s) - 1)
      PROVE  (a \o b)[j] = s[IF j < i THEN j ELSE j + 1]
  <2>1. (a \o b)[j] = IF j <= Len(a) THEN a[j] ELSE b[j - Len(a)]
    BY <1>1, <1>2, <1>4
  <2>2. CASE j < i
    BY <1>1, <2>1, <2>2
  <2>3. CASE ~(j < i)
    <3>1. j - (i - 1) \in 1..(Len(s) - i)
      BY <1>4, <2>3
    <3>2. b[j - (i - 1)] = s[i + (j - (i - 1))] /\ i + (j - (i - 1)) = j + 1
      BY <1>2, <3>1
    <3> QED
      BY <1>1, <2>1, <2>3, <3>2
  <2> QED
    BY <2>2, <2>3
<1> QED
  BY <1>3, <1>5, <1>6

\* The streams after a pop: the one that was popped is shorter, or is gone.
PoppedOf(s, i) == Chat!Refiltered([s EXCEPT ![i][2] = @ - 1], i)
Shorter(s, t) == Len(t) = Len(s) /\ \A j \in 1..Len(s) : t[j][1] = s[j][1]
Without(s, t, i) ==
  /\ Len(t) = Len(s) - 1
  /\ \A j \in 1..(Len(s) - 1) : t[j][1] = s[IF j < i THEN j ELSE j + 1][1]

LEMMA PoppedIs ==
  ASSUME NEW s \in Seq(Kinds \X (Nat \ {0})), NEW i \in 1..Len(s)
  PROVE  /\ PoppedOf(s, i) \in Seq(Kinds \X (Nat \ {0}))
         /\ Shorter(s, PoppedOf(s, i)) \/ Without(s, PoppedOf(s, i), i)
<1> DEFINE r == [s EXCEPT ![i][2] = @ - 1]
           P == Kinds \X (Nat \ {0})
<1>1. s[i] \in P /\ \A j \in 1..Len(s) : s[j] \in P
  OBVIOUS
<1>2. PICK k \in Kinds, v \in Nat \ {0} : s[i] = <<k, v>>
  BY <1>1
<1>3. r = [s EXCEPT ![i] = <<k, v - 1>>]
  <2>1. i \in DOMAIN s
    OBVIOUS
  <2>2. r = [s EXCEPT ![i] = [s[i] EXCEPT ![2] = s[i][2] - 1]]
    BY <2>1
  <2>3. [<<k, v>> EXCEPT ![2] = v - 1] = <<k, v - 1>>
    OBVIOUS
  <2>4. <<k, v>>[2] = v
    OBVIOUS
  <2> HIDE DEF r
  <2> QED
    BY <1>2, <2>2, <2>3, <2>4
<1>4. /\ r \in Seq(Kinds \X Nat) /\ Len(r) = Len(s) /\ r[i] = <<k, v - 1>>
      /\ \A j \in 1..Len(s) : j # i => r[j] = s[j]
  <2>1. <<k, v - 1>> \in Kinds \X Nat
    OBVIOUS
  <2>2. s \in Seq(Kinds \X Nat)
    OBVIOUS
  <2> HIDE DEF r
  <2> QED
    BY <1>3, <2>1, <2>2
<1>5. PoppedOf(s, i) = IF v - 1 > 0 THEN r ELSE Chat!RemoveAt(r, i)
  <2> HIDE DEF r
  <2>1. Chat!Left(r[i]) <=> v - 1 > 0
    BY <1>4 DEF Chat!Left
  <2>2. PoppedOf(s, i) = Chat!Refiltered(r, i)
    BY DEF PoppedOf, r
  <2> QED
    BY <2>1, <2>2 DEF Chat!Refiltered
<1> HIDE DEF r
<1>6. CASE v - 1 > 0
  <2>1. \A j \in 1..Len(r) : r[j] \in P
    <3> TAKE j \in 1..Len(r)
    <3>1. CASE j = i
      BY <1>4, <1>6, <3>1
    <3>2. CASE j # i
      BY <1>1, <1>4, <3>2
    <3> QED
      BY <3>1, <3>2
  <2>2. r \in Seq(P)
    <3> HIDE DEF P
    <3> QED
      BY <1>4, <2>1, Retyped
  <2>3. \A j \in 1..Len(s) : r[j][1] = s[j][1]
    <3> TAKE j \in 1..Len(s)
    <3>1. CASE j = i
      BY <1>2, <1>4, <3>1
    <3>2. CASE j # i
      BY <1>4, <3>2
    <3> QED
      BY <3>1, <3>2
  <2> QED
    BY <1>4, <1>5, <1>6, <2>2, <2>3 DEF Shorter
<1>7. CASE ~(v - 1 > 0)
  <2> DEFINE t == Chat!RemoveAt(r, i)
  <2>1. /\ t \in Seq(Kinds \X Nat) /\ Len(t) = Len(s) - 1
        /\ \A j \in 1..(Len(s) - 1) : t[j] = r[IF j < i THEN j ELSE j + 1]
    <3>1. i \in 1..Len(r)
      BY <1>4
    <3>2. /\ t \in Seq(Kinds \X Nat) /\ Len(t) = Len(r) - 1
          /\ \A j \in 1..(Len(r) - 1) : t[j] = r[IF j < i THEN j ELSE j + 1]
      <4>1. r \in Seq(Kinds \X Nat)
        BY <1>4
      <4> QED
        BY <3>1, <4>1, Removed
    <3> QED
      BY <1>4, <3>2
  <2> HIDE DEF t
  <2>2. Len(s) \in Nat
    OBVIOUS
  <2>3. \A j \in 1..(Len(s) - 1) : t[j] = s[IF j < i THEN j ELSE j + 1]
    <3> TAKE j \in 1..(Len(s) - 1)
    <3>1. (IF j < i THEN j ELSE j + 1) \in 1..Len(s) /\ (IF j < i THEN j ELSE j + 1) # i
      BY <2>2
    <3> QED
      BY <1>4, <2>1, <3>1
  <2>4. \A j \in 1..Len(t) : t[j] \in P
    <3> TAKE j \in 1..Len(t)
    <3>1. j \in 1..(Len(s) - 1) /\ (IF j < i THEN j ELSE j + 1) \in 1..Len(s)
      BY <2>1, <2>2
    <3> QED
      BY <1>1, <2>3, <3>1
  <2>5. t \in Seq(P)
    <3> HIDE DEF P
    <3> QED
      BY <2>1, <2>4, Retyped
  <2> QED
    BY <1>5, <1>7, <2>1, <2>3, <2>5 DEF t, Without
<1> QED
  BY <1>6, <1>7

\* What a pop does to the streams and to the chunks.
PopFacts(s, n, c, i, t, u) ==
  /\ Len(s) \in Nat \ {0} /\ n \in Nat /\ i = (n % Len(s)) + 1 /\ i \in 1..Len(s)
  /\ s \in Seq(Kinds \X (Nat \ {0})) /\ c \in Seq(Kinds)
  /\ t \in Seq(Kinds \X (Nat \ {0})) /\ u \in Seq(Kinds)
  /\ Len(u) = Len(c) + 1 /\ u[Len(c) + 1] = s[i][1] /\ \A d \in 1..Len(c) : u[d] = c[d]
  /\ s[i][1] \in Kinds
  /\ \A x : Uses(c, x) \in Nat
            /\ Uses(u, x) = Uses(c, x) + IF s[i][1] = x THEN 1 ELSE 0

LEMMA PopHas ==
  ASSUME NEW s, NEW n, NEW c, CorpusType(s, n, c), s # <<>>,
         NEW i, i = (n % Len(s)) + 1
  PROVE  /\ PopFacts(s, n, c, i, PoppedOf(s, i), Append(c, s[i][1]))
         /\ Shorter(s, PoppedOf(s, i)) \/ Without(s, PoppedOf(s, i), i)
<1>1. s \in Seq(Kinds \X (Nat \ {0})) /\ n \in Nat /\ c \in Seq(Kinds)
  BY DEF CorpusType
<1>2. Len(s) \in Nat \ {0}
  BY <1>1
<1>3. n % Len(s) \in 0..(Len(s) - 1)
  BY <1>1, <1>2, Quotient
<1>4. i \in 1..Len(s)
  BY <1>2, <1>3
<1>5. s[i][1] \in Kinds
  BY <1>1, <1>4
<1>6. /\ PoppedOf(s, i) \in Seq(Kinds \X (Nat \ {0}))
      /\ Shorter(s, PoppedOf(s, i)) \/ Without(s, PoppedOf(s, i), i)
  BY <1>1, <1>4, PoppedIs
<1> DEFINE k == s[i][1]
<1>7. k \in Kinds
  BY <1>5
<1> HIDE DEF k
<1>8. \A x : Uses(c, x) \in Nat
             /\ Uses(Append(c, k), x) = Uses(c, x) + IF k = x THEN 1 ELSE 0
  BY <1>1, <1>7, UsesAppend
<1>9. /\ Append(c, k) \in Seq(Kinds)
      /\ Len(Append(c, k)) = Len(c) + 1 /\ Append(c, k)[Len(c) + 1] = k
      /\ \A d \in 1..Len(c) : Append(c, k)[d] = c[d]
  BY <1>1, <1>7, AppendProperties
<1> QED
  BY <1>1, <1>2, <1>4, <1>5, <1>6, <1>8, <1>9 DEF PopFacts, k

\* Where an item of the streams after a pop was before it.
LEMMA StillOpen ==
  ASSUME NEW s, NEW n, NEW c, NEW i, NEW t, NEW u, PopFacts(s, n, c, i, t, u),
         OneStreamEach(s), Shorter(s, t) \/ Without(s, t, i)
  PROVE  /\ OneStreamEach(t)
         /\ \A j \in DOMAIN t : \E h \in DOMAIN s : t[j][1] = s[h][1]
         /\ Without(s, t, i) => \A j \in DOMAIN t : t[j][1] # s[i][1]
<1>1. /\ Len(s) \in Nat \ {0} /\ i \in 1..Len(s) /\ DOMAIN s = 1..Len(s)
      /\ DOMAIN t = 1..Len(t)
  BY DEF PopFacts
<1>2. CASE Shorter(s, t)
  <2>1. Len(t) = Len(s) /\ \A j \in 1..Len(s) : t[j][1] = s[j][1]
    BY <1>2 DEF Shorter
  <2>2. ~Without(s, t, i)
    <3>1. Without(s, t, i) => Len(t) = Len(s) - 1
      BY DEF Without
    <3>2. Len(s) \in Nat
      BY <1>1
    <3>3. \A x \in Nat : x # x - 1
      OBVIOUS
    <3> QED
      BY <2>1, <3>1, <3>2, <3>3
  <2> QED
    BY <1>1, <2>1, <2>2 DEF OneStreamEach
<1>3. CASE Without(s, t, i)
  <2>1. /\ Len(t) = Len(s) - 1
        /\ \A j \in 1..(Len(s) - 1) : t[j][1] = s[IF j < i THEN j ELSE j + 1][1]
    BY <1>3 DEF Without
  <2>2. ASSUME NEW j \in DOMAIN t
        PROVE  /\ j \in 1..(Len(s) - 1)
               /\ (IF j < i THEN j ELSE j + 1) \in 1..Len(s)
               /\ (IF j < i THEN j ELSE j + 1) # i
    BY <1>1, <2>1
  <2>3. OneStreamEach(t)
    <3> SUFFICES ASSUME NEW j \in DOMAIN t, NEW h \in DOMAIN t, t[j][1] = t[h][1]
                 PROVE  j = h
      BY DEF OneStreamEach
    <3>1. (IF j < i THEN j ELSE j + 1) = (IF h < i THEN h ELSE h + 1)
      BY <1>1, <2>1, <2>2 DEF OneStreamEach
    <3> QED
      BY <1>1, <2>2, <3>1
  <2>4. \A j \in DOMAIN t : \E h \in DOMAIN s : t[j][1] = s[h][1]
    BY <1>1, <2>1, <2>2
  <2>5. \A j \in DOMAIN t : t[j][1] # s[i][1]
    BY <1>1, <2>1, <2>2 DEF OneStreamEach
  <2> QED
    BY <2>3, <2>4, <2>5
<1> QED
  BY <1>2, <1>3

\* The neighbours after a pop.
LEMMA PopAlternates ==
  ASSUME NEW s, NEW n, NEW c, NEW i, NEW t, NEW u, PopFacts(s, n, c, i, t, u),
         OneStreamEach(s), Alternates(s, n, c), Shorter(s, t) \/ Without(s, t, i)
  PROVE  Alternates(t, n + 1, u)
<1> DEFINE k == s[i][1]
           m == Len(s)
<1>1. /\ m \in Nat \ {0} /\ n \in Nat /\ i = (n % m) + 1 /\ i \in 1..m
      /\ DOMAIN s = 1..m /\ DOMAIN t = 1..Len(t) /\ Len(t) \in Nat
      /\ Len(c) \in Nat /\ Len(u) = Len(c) + 1 /\ u[Len(c) + 1] = k
      /\ \A d \in 1..Len(c) : u[d] = c[d]
  BY DEF PopFacts
<1>2. c # <<>> <=> Len(c) >= 1
  BY DEF PopFacts
<1>3. /\ \A j \in DOMAIN t : \E h \in DOMAIN s : t[j][1] = s[h][1]
      /\ Without(s, t, i) => \A j \in DOMAIN t : t[j][1] # k
  BY StillOpen
<1>4. c # <<>> /\ m >= 2 => k # c[Len(c)]
  BY <1>1 DEF Alternates
<1>5. ASSUME NEW d \in 1..(Len(c) - 1), c[d] = c[d + 1]
      PROVE  (\A e \in d..Len(c) : c[e] = c[d]) /\ (\A j \in 1..m : s[j][1] = c[d])
  BY <1>1, <1>5 DEF Alternates
<1> HIDE DEF k, m
<1>6. ASSUME NEW d \in 1..(Len(u) - 1), u[d] = u[d + 1]
      PROVE  (\A e \in d..Len(u) : u[e] = u[d]) /\ (\A j \in DOMAIN t : t[j][1] = u[d])
  <2>1. CASE d < Len(c)
    <3>1. /\ d \in 1..(Len(c) - 1) /\ d \in 1..Len(c) /\ d + 1 \in 1..Len(c)
      BY <1>1, <2>1
    <3>2. c[d] = c[d + 1]
      BY <1>1, <1>6, <3>1
    <3>3. (\A e \in d..Len(c) : c[e] = c[d]) /\ (\A j \in 1..m : s[j][1] = c[d])
      BY <1>5, <3>1, <3>2
    <3>4. k = c[d]
      BY <1>1, <3>3 DEF k
    <3>5. ASSUME NEW e \in d..Len(u)
          PROVE  u[e] = u[d]
      <4>1. CASE e = Len(c) + 1
        BY <1>1, <3>1, <3>4, <4>1
      <4>2. CASE e # Len(c) + 1
        <5>1. e \in d..Len(c) /\ e \in 1..Len(c)
          BY <1>1, <3>1, <4>2
        <5> QED
          BY <1>1, <3>1, <3>3, <5>1
      <4> QED
        BY <4>1, <4>2
    <3>6. \A j \in DOMAIN t : t[j][1] = u[d]
      BY <1>1, <1>3, <3>1, <3>3
    <3> QED
      BY <3>5, <3>6
  <2>2. CASE ~(d < Len(c))
    <3>1. d = Len(c) /\ Len(c) >= 1 /\ u[d] = c[d] /\ c[Len(c)] = k
      BY <1>1, <1>6, <2>2
    <3>2. m = 1
      BY <1>1, <1>2, <1>4, <3>1
    <3>3. i = 1
      BY <1>1, <3>2
    <3>4. \A j \in DOMAIN t : t[j][1] = k
      BY <1>1, <1>3, <3>2, <3>3 DEF k
    <3>5. \A e \in d..Len(u) : e = d \/ e = Len(c) + 1
      BY <1>1, <3>1
    <3> QED
      BY <1>1, <3>1, <3>4, <3>5
  <2> QED
    BY <2>1, <2>2
<1>7. ASSUME Len(t) >= 2
      PROVE  t[((n + 1) % Len(t)) + 1][1] # u[Len(u)]
  <2> DEFINE p == (n + 1) % Len(t)
  <2>1. p \in 0..(Len(t) - 1)
    <3>1. n + 1 \in Nat /\ Len(t) \in Nat \ {0}
      BY <1>1, <1>7
    <3> QED
      BY <3>1, Quotient
  <2>2. p + 1 \in DOMAIN t
    <3> HIDE DEF p
    <3> QED
      BY <1>1, <2>1
  <2>3. u[Len(u)] = k
    BY <1>1
  <2>4. CASE Without(s, t, i)
    BY <1>3, <2>2, <2>3, <2>4
  <2>5. CASE Shorter(s, t)
    <3>1. Len(t) = m /\ \A j \in 1..m : t[j][1] = s[j][1]
      BY <2>5 DEF Shorter, m
    <3>2. p = IF (n % m) + 1 = m THEN 0 ELSE (n % m) + 1
      BY <1>1, <3>1, NextQuotient
    <3> HIDE DEF p
    <3>3. p + 1 # i /\ p + 1 \in 1..m
      BY <1>1, <1>7, <2>1, <3>1, <3>2
    <3>4. s[p + 1][1] # s[i][1]
      BY <1>1, <3>3 DEF OneStreamEach
    <3>5. t[p + 1][1] # k
      BY <3>1, <3>3, <3>4 DEF k
    <3> QED
      BY <2>3, <3>5 DEF p
  <2> QED
    BY <2>4, <2>5
<1> QED
  BY <1>6, <1>7 DEF Alternates

\* The types that have run dry after a pop.
LEMMA PopDries ==
  ASSUME NEW s, NEW n, NEW c, NEW i, NEW t, NEW u, PopFacts(s, n, c, i, t, u),
         OneStreamEach(s), Shorter(s, t) \/ Without(s, t, i)
  PROVE  /\ Dried(c, s) \in Nat
         /\ Shorter(s, t) => Dried(u, t) = Dried(c, s)
         /\ Without(s, t, i) => Dried(u, t) = Dried(c, s) + 1
<1> DEFINE k == s[i][1]
           A == TypesOf(c) \ Open(s)
           B == TypesOf(u) \ Open(t)
<1>1. /\ c \in Seq(Kinds) /\ DOMAIN c = 1..Len(c) /\ DOMAIN u = 1..(Len(c) + 1)
      /\ Len(c) \in Nat /\ u[Len(c) + 1] = k /\ \A d \in 1..Len(c) : u[d] = c[d]
      /\ Len(s) \in Nat \ {0} /\ i \in 1..Len(s) /\ DOMAIN s = 1..Len(s)
      /\ DOMAIN t = 1..Len(t)
  BY DEF PopFacts
<1>2. TypesOf(u) = TypesOf(c) \cup {k}
  <2> HIDE DEF k
  <2>1. ASSUME NEW x \in TypesOf(u)
        PROVE  x \in TypesOf(c) \cup {k}
    <3>1. PICK d \in 1..(Len(c) + 1) : x = u[d]
      BY <1>1 DEF TypesOf
    <3>2. d = Len(c) + 1 \/ d \in 1..Len(c)
      BY <1>1
    <3> QED
      BY <1>1, <3>1, <3>2 DEF TypesOf
  <2>2. ASSUME NEW x \in TypesOf(c)
        PROVE  x \in TypesOf(u)
    <3>1. PICK d \in 1..Len(c) : x = c[d]
      BY <1>1 DEF TypesOf
    <3>2. d \in 1..(Len(c) + 1)
      BY <1>1
    <3> QED
      BY <1>1, <3>1, <3>2 DEF TypesOf
  <2>3. k \in TypesOf(u)
    <3>1. Len(c) + 1 \in 1..(Len(c) + 1)
      BY <1>1
    <3> QED
      BY <1>1, <3>1 DEF TypesOf
  <2> QED
    BY <2>1, <2>2, <2>3
<1>3. k \in Open(s)
  BY <1>1 DEF Open
<1>4. IsFiniteSet(A) /\ Dried(c, s) = Cardinality(A) /\ Dried(u, t) = Cardinality(B)
  <2>1. IsFiniteSet(A)
    BY <1>1, TypesFinite
  <2> QED
    BY <2>1 DEF Dried
<1>5. Dried(c, s) \in Nat
  BY <1>1, TypesFinite
<1>6. ASSUME Shorter(s, t)
      PROVE  B = A
  <2>1. Open(t) = Open(s)
    BY <1>1, <1>6 DEF Shorter, Open
  <2> HIDE DEF k
  <2> QED
    BY <1>2, <1>3, <2>1
<1>7. ASSUME Without(s, t, i)
      PROVE  B = A \cup {k} /\ k \notin A
  <2>1. \A j \in DOMAIN t : (\E h \in DOMAIN s : t[j][1] = s[h][1]) /\ t[j][1] # k
    BY <1>7, StillOpen
  <2>2. ASSUME NEW h \in 1..Len(s), s[h][1] # k
        PROVE  s[h][1] \in Open(t)
    <3> DEFINE j == IF h < i THEN h ELSE h - 1
    <3>1. h # i
      BY <2>2
    <3>2. j \in 1..(Len(s) - 1) /\ (IF j < i THEN j ELSE j + 1) = h
      BY <1>1, <3>1
    <3>3. /\ Len(t) = Len(s) - 1
          /\ \A x \in 1..(Len(s) - 1) : t[x][1] = s[IF x < i THEN x ELSE x + 1][1]
      BY <1>7 DEF Without
    <3> HIDE DEF j
    <3>4. t[j][1] = s[h][1] /\ j \in DOMAIN t
      BY <1>1, <3>2, <3>3
    <3> QED
      BY <3>4 DEF Open
  <2> HIDE DEF k
  <2>3. Open(t) = Open(s) \ {k}
    <3>1. \A x \in Open(t) : x \in Open(s) /\ x # k
      BY <2>1 DEF Open
    <3>2. \A x \in Open(s) : x # k => x \in Open(t)
      BY <1>1, <2>2 DEF Open
    <3> QED
      BY <3>1, <3>2
  <2> QED
    BY <1>2, <1>3, <2>3
<1> HIDE DEF A, B, k
<1>8. k \notin A => Cardinality(A \cup {k}) = Cardinality(A) + 1
  BY <1>4, FS_AddElement
<1> QED
  BY <1>4, <1>5, <1>6, <1>7, <1>8

\* Whether a place was passed in the current lap, and how far two places are from
\* each other before the lap.
Passed(g, p) == IF g <= p THEN 1 ELSE 0
LapsApart(x, y, g, h, p, d) ==
  /\ (x - Passed(g, p)) - (y - Passed(h, p)) >= -(d + 1)
  /\ (x - Passed(g, p)) - (y - Passed(h, p)) <= d

\* The counter goes one place on, or starts over.
LEMMA LapGoesOn ==
  ASSUME NEW m \in Nat \ {0}, NEW p \in 0..(m - 1), NEW g \in 1..m, NEW h \in 1..m, g < h,
         NEW x \in Nat, NEW y \in Nat, NEW d \in Nat, LapsApart(x, y, g, h, p, d),
         NEW q, q = IF p + 1 = m THEN 0 ELSE p + 1
  PROVE  LapsApart(x + (IF g = p + 1 THEN 1 ELSE 0), y + (IF h = p + 1 THEN 1 ELSE 0),
                   g, h, q, d)
  BY DEF LapsApart, Passed

\* The streams move up, and the counter is anywhere.
LEMMA LapMoves ==
  ASSUME NEW p \in Nat, NEW e \in Nat, NEW f \in Nat, e < f,
         NEW x \in Nat, NEW y \in Nat, NEW d \in Nat, LapsApart(x, y, e, f, p, d),
         NEW g \in Nat, NEW h \in Nat, g < h, NEW q \in Nat
  PROVE  LapsApart(x, y, g, h, q, d + 1)
  BY DEF LapsApart, Passed

LEMMA LapCounts ==
  ASSUME NEW p \in Nat, NEW g \in Nat, NEW h \in Nat, g < h,
         NEW x \in Nat, NEW y \in Nat, NEW d \in Nat, LapsApart(x, y, g, h, p, d)
  PROVE  x - y <= 1 + d /\ y - x <= 1 + d
  BY DEF LapsApart, Passed

\* The laps of two streams.
LEMMA LapsOf ==
  ASSUME NEW s, NEW n, NEW c
  PROVE  LapsClose(s, n, c) <=>
           \A i, j \in DOMAIN s :
             i < j => LapsApart(Uses(c, s[i][1]), Uses(c, s[j][1]), i, j,
                                n % Len(s), Dried(c, s))
  BY DEF LapsClose, LapsApart, BeforeLap, Passed

\* The laps after a pop.
LEMMA PopLaps ==
  ASSUME NEW s, NEW n, NEW c, NEW i, NEW t, NEW u, PopFacts(s, n, c, i, t, u),
         OneStreamEach(s), LapsClose(s, n, c), Shorter(s, t) \/ Without(s, t, i)
  PROVE  LapsClose(t, n + 1, u)
<1> DEFINE m == Len(s)
           p == n % m
           q == (n + 1) % Len(t)
           D == Dried(c, s)
<1>1. /\ m \in Nat \ {0} /\ n \in Nat /\ i = p + 1 /\ i \in 1..m
      /\ DOMAIN s = 1..m /\ DOMAIN t = 1..Len(t)
  BY DEF PopFacts
<1>2. \A x : /\ Uses(c, x) \in Nat
             /\ Uses(u, x) = Uses(c, x) + IF s[i][1] = x THEN 1 ELSE 0
  BY DEF PopFacts
<1>3. /\ D \in Nat
      /\ Shorter(s, t) => Dried(u, t) = D
      /\ Without(s, t, i) => Dried(u, t) = D + 1
  BY PopDries
<1>4. p \in 0..(m - 1)
  BY <1>1, Quotient
<1> DEFINE a(j) == Uses(c, s[j][1])
<1>5. ASSUME NEW g \in 1..m, NEW h \in 1..m, g < h
      PROVE  LapsApart(a(g), a(h), g, h, p, D) /\ a(g) \in Nat /\ a(h) \in Nat
  BY <1>1, <1>2, <1>5, LapsOf
<1>6. ASSUME NEW g \in DOMAIN t, NEW h \in DOMAIN t, g < h, Shorter(s, t)
      PROVE  LapsApart(Uses(u, t[g][1]), Uses(u, t[h][1]), g, h, q, Dried(u, t))
  <2>1. Len(t) = m /\ \A j \in 1..m : t[j][1] = s[j][1]
    BY <1>6 DEF Shorter
  <2>2. q = IF p + 1 = m THEN 0 ELSE p + 1
    BY <1>1, <2>1, NextQuotient
  <2>3. g \in 1..m /\ h \in 1..m
    BY <1>1, <2>1
  <2>4. ASSUME NEW j \in 1..m
        PROVE  Uses(u, t[j][1]) = a(j) + IF j = p + 1 THEN 1 ELSE 0
    <3>1. s[i][1] = s[j][1] <=> j = i
      BY <1>1 DEF OneStreamEach
    <3> QED
      BY <1>1, <1>2, <2>1, <3>1
  <2>5. LapsApart(a(g), a(h), g, h, p, D) /\ a(g) \in Nat /\ a(h) \in Nat
    BY <1>5, <1>6, <2>3
  <2>6. /\ Uses(u, t[g][1]) = a(g) + (IF g = p + 1 THEN 1 ELSE 0)
        /\ Uses(u, t[h][1]) = a(h) + (IF h = p + 1 THEN 1 ELSE 0)
    BY <2>3, <2>4
  <2> DEFINE x == a(g)
             y == a(h)
  <2>7. LapsApart(x, y, g, h, p, D) /\ x \in Nat /\ y \in Nat
    BY <2>5
  <2> HIDE DEF x, y, q, p, m, D
  <2>8. LapsApart(x + (IF g = p + 1 THEN 1 ELSE 0), y + (IF h = p + 1 THEN 1 ELSE 0),
                  g, h, q, D)
    BY <1>1, <1>3, <1>4, <1>6, <2>2, <2>3, <2>7, LapGoesOn
  <2> QED
    BY <1>3, <1>6, <2>6, <2>8 DEF x, y
<1>7. ASSUME NEW g \in DOMAIN t, NEW h \in DOMAIN t, g < h, Without(s, t, i)
      PROVE  LapsApart(Uses(u, t[g][1]), Uses(u, t[h][1]), g, h, q, Dried(u, t))
  <2> DEFINE e == IF g < i THEN g ELSE g + 1
             f == IF h < i THEN h ELSE h + 1
  <2>1. Len(t) = m - 1 /\ \A j \in 1..(m - 1) : t[j][1] = s[IF j < i THEN j ELSE j + 1][1]
    BY <1>7 DEF Without
  <2>2. /\ g \in 1..(m - 1) /\ h \in 1..(m - 1)
        /\ e \in 1..m /\ f \in 1..m /\ e < f
    BY <1>1, <1>7, <2>1
  <2>3. t[g][1] = s[e][1] /\ t[h][1] = s[f][1]
    BY <2>1, <2>2
  <2>4. t[g][1] # s[i][1] /\ t[h][1] # s[i][1]
    BY <1>7, StillOpen
  <2> HIDE DEF e, f
  <2>5. LapsApart(a(e), a(f), e, f, p, D) /\ a(e) \in Nat /\ a(f) \in Nat
    BY <1>5, <2>2
  <2>6. Uses(u, t[g][1]) = a(e) /\ Uses(u, t[h][1]) = a(f)
    BY <1>2, <2>3, <2>4
  <2>7. q \in Nat
    <3>1. Len(t) \in Nat \ {0}
      <4> HIDE DEF m
      <4> QED
        BY <1>1, <2>1, <2>2
    <3>2. n + 1 \in Nat
      BY <1>1
    <3>3. q \in 0..(Len(t) - 1)
      BY <3>1, <3>2, Quotient
    <3> HIDE DEF q
    <3> QED
      BY <3>1, <3>3
  <2> DEFINE x == a(e)
             y == a(f)
  <2>8. LapsApart(x, y, e, f, p, D) /\ x \in Nat /\ y \in Nat
    BY <2>5
  <2> HIDE DEF x, y, q, p, m, D
  <2>9. p \in Nat /\ e \in Nat /\ f \in Nat /\ g \in Nat /\ h \in Nat
    BY <1>4, <2>2
  <2>10. LapsApart(x, y, g, h, q, D + 1)
    BY <1>3, <1>7, <2>2, <2>7, <2>8, <2>9, LapMoves
  <2> QED
    BY <1>3, <1>7, <2>6, <2>10 DEF x, y
<1> QED
  BY <1>6, <1>7, LapsOf

\* A pop keeps the alternation.
LEMMA PopKeeps ==
  ASSUME NEW s, NEW n, NEW c, CorpusInv(s, n, c), s # <<>>,
         NEW i, i = (n % Len(s)) + 1
  PROVE  CorpusInv(PoppedOf(s, i), n + 1, Append(c, s[i][1]))
<1> DEFINE t == PoppedOf(s, i)
           u == Append(c, s[i][1])
<1>1. CorpusType(s, n, c) /\ OneStreamEach(s) /\ Alternates(s, n, c) /\ LapsClose(s, n, c)
  BY DEF CorpusInv
<1>2. PopFacts(s, n, c, i, t, u) /\ (Shorter(s, t) \/ Without(s, t, i))
  BY <1>1, PopHas
<1> HIDE DEF t, u
<1>3. OneStreamEach(t)
  BY <1>1, <1>2, StillOpen
<1>4. Alternates(t, n + 1, u)
  BY <1>1, <1>2, PopAlternates
<1>5. LapsClose(t, n + 1, u)
  BY <1>1, <1>2, PopLaps
<1>6. CorpusType(t, n + 1, u)
  BY <1>2 DEF PopFacts, CorpusType
<1> QED
  BY <1>3, <1>4, <1>5, <1>6 DEF CorpusInv, t, u

\* What the alternation says of depth.
LEMMA LapsBound ==
  ASSUME NEW s, NEW n, NEW c, CorpusInv(s, n, c), NEW i \in DOMAIN s, NEW j \in DOMAIN s
  PROVE  Uses(c, s[i][1]) - Uses(c, s[j][1]) <= 1 + Dried(c, s)
<1>1. /\ s \in Seq(Kinds \X (Nat \ {0})) /\ n \in Nat /\ c \in Seq(Kinds)
      /\ LapsClose(s, n, c)
  BY DEF CorpusInv, CorpusType
<1> DEFINE x == Uses(c, s[i][1])
           y == Uses(c, s[j][1])
           p == n % Len(s)
           d == Dried(c, s)
<1>2. d \in Nat
  BY <1>1, TypesFinite
<1>3. DOMAIN s = 1..Len(s) /\ Len(s) \in Nat \ {0} /\ i \in Nat /\ j \in Nat
  <2>1. DOMAIN s = 1..Len(s) /\ Len(s) \in Nat
    BY <1>1
  <2> QED
    BY <2>1
<1>4. p \in Nat
  BY <1>1, <1>3, Quotient
<1>5. x \in Nat /\ y \in Nat
  <2>1. s[i][1] \in Kinds
    BY <1>1, <1>3
  <2> QED
    BY <1>1, <2>1, UsesAppend
<1>6. CASE i = j
  <2>1. x = y
    BY <1>6
  <2> HIDE DEF x, y, d
  <2>2. x - y <= 1 + d
    BY <1>2, <1>5, <2>1
  <2> QED
    BY <2>2 DEF x, y, d
<1>7. CASE i < j
  <2>1. LapsApart(x, y, i, j, p, d)
    BY <1>1, <1>7, LapsOf
  <2> HIDE DEF x, y, p, d
  <2> QED
    BY <1>2, <1>3, <1>4, <1>5, <1>7, <2>1, LapCounts DEF x, y, d
<1>8. CASE j < i
  <2>1. LapsApart(y, x, j, i, p, d)
    BY <1>1, <1>8, LapsOf
  <2> HIDE DEF x, y, p, d
  <2> QED
    BY <1>2, <1>3, <1>4, <1>5, <1>8, <2>1, LapCounts DEF x, y, d
<1> QED
  BY <1>3, <1>6, <1>7, <1>8

-------------------------------------------------------------------------------
(* The conversation, its file and its canaries. *)

\* The records g of one kind: of turns, of answered turns, of the battery of turn
\* t, and of pass e of the final probe.
TurnsIn(g) == {l \in DOMAIN g : g[l].kind \in {"chat", "ERROR"}}
ChatsIn(g) == {l \in DOMAIN g : g[l].kind = "chat"}
ErrorsIn(g) == {l \in DOMAIN g : g[l].kind = "ERROR"}
RecallsIn(g, t) == {l \in DOMAIN g : g[l].kind \in {"recall", "recall_error"} /\ g[l].turn = t}
PassIn(g, e) ==
  {l \in DOMAIN g : g[l].kind \in {"final_probe", "final_probe_error"} /\ g[l].effort = e}

\* The records R of g name ids, once each and in this order.
NamesIn(g, R, ids) ==
  {g[l].id : l \in R} = ids /\ \A l, m \in R : l < m => g[l].id < g[m].id

\* What the battery of a turn asks for.
BatteryOf(t) ==
  IF t \div CanaryEvery > 0 /\ t % RecallEvery = 0 THEN Chat!Battery(t \div CanaryEvery) ELSE {}

Records == [kind : {"chat", "ERROR", "recall", "recall_error", "final_probe", "final_probe_error"},
            turn : Nat, id : Int, effort : Nat, ctx : Nat, flag : BOOLEAN]
Turns == [role : {"user", "assistant"}, note : Int]

ChatType ==
  /\ phase \in {"corpus", "chat", "recall", "final", "done"}
  /\ turn \in Nat /\ degenTurn \in Nat /\ over \in BOOLEAN
  /\ messages \in Seq(Turns)
  /\ canaries \in Seq([topic : Int, turn : Nat])
  /\ log \in Seq(Records)
  /\ todo \in SUBSET Nat
  /\ effort \in 0..Len(Efforts)

\* Every turn has its record, in order, and a turn that failed is the last.
TurnsRecorded ==
  /\ {log[l].turn : l \in TurnsIn(log)} = 1..turn
  /\ \A l, m \in TurnsIn(log) : l < m => log[l].turn < log[m].turn
  /\ \A l \in DOMAIN log : log[l].turn <= turn
  /\ \A l \in ErrorsIn(log) : log[l].turn = turn /\ phase \in {"final", "done"}

\* The question and the answer of turn t in the conversation.
Paired(ms, t, c) ==
  /\ 2 * t <= Len(ms)
  /\ ms[2 * t - 1] = Chat!Said("user", c)
  /\ ms[2 * t] = Chat!Said("assistant", Chat!NoNote)

\* The answered turns are the conversation.
PairsKept ==
  /\ Len(messages) = 2 * (IF ErrorsIn(log) # {} THEN turn - 1 ELSE turn)
  /\ Len(messages) = 2 * Cardinality(ChatsIn(log))
  /\ \A l \in ChatsIn(log) : Paired(messages, log[l].turn, log[l].id)

\* The note of canary c is in the question of turn t, among the first n of ms; turn t failed.
NoteIn(ms, c, t, n) == 2 * t <= n /\ ms[2 * t - 1].note = c
FailedIn(g, t) == \E e \in DOMAIN g : g[e].kind = "ERROR" /\ g[e].turn = t

\* Every canary was planted, but for one of a turn that failed.
CanariesPlanted ==
  /\ Len(canaries) = turn \div CanaryEvery
  /\ \A c \in DOMAIN canaries :
       /\ canaries[c].turn \in 1..turn
       /\ NoteIn(messages, c - 1, canaries[c].turn, Len(messages)) \/ FailedIn(log, canaries[c].turn)

\* What was asked for was planted.
AskedFor ==
  \A l \in DOMAIN log \ TurnsIn(log) :
    /\ log[l].id + 1 \in DOMAIN canaries
    /\ log[l].ctx <= Len(messages)
    /\ \/ NoteIn(messages, log[l].id, canaries[log[l].id + 1].turn, log[l].ctx)
       \/ /\ log[l].kind \in {"final_probe", "final_probe_error"}
          /\ FailedIn(log, canaries[log[l].id + 1].turn)

\* The batteries ask for their canaries, oldest first, and the last one is at todo.
BatteriesAsked ==
  /\ \A l \in ChatsIn(log) :
       NamesIn(log, RecallsIn(log, log[l].turn),
               BatteryOf(log[l].turn) \ (IF log[l].turn = turn /\ phase = "recall" THEN todo ELSE {}))
  /\ phase = "recall" =>
       /\ todo # {} /\ todo \subseteq BatteryOf(turn)
       /\ \A l \in RecallsIn(log, turn) : \A i \in todo : log[l].id < i
  /\ phase \in {"corpus", "chat", "done"} => todo = {}
  /\ phase \in {"recall", "final"} => todo \subseteq 0..(Len(canaries) - 1)

\* The passes of the final probe ask for every canary, and the last one is at todo.
PassesAsked ==
  /\ \A e \in 1..Len(Efforts) :
       NamesIn(log, PassIn(log, e),
               IF e < effort THEN 0..(Len(canaries) - 1)
               ELSE IF e = effort THEN (0..(Len(canaries) - 1)) \ todo ELSE {})
  /\ \A l \in DOMAIN log :
       log[l].kind \in {"final_probe", "final_probe_error"} =>
         /\ log[l].effort \in 1..effort /\ log[l].ctx = Len(messages)
         /\ phase \in {"final", "done"}
  /\ phase \notin {"final", "done"} => effort = 0
  /\ phase = "final" /\ todo # {} =>
       effort >= 1 /\ \A l \in PassIn(log, effort) : \A i \in todo : log[l].id < i
  /\ phase = "done" => canaries = <<>> \/ effort = Len(Efforts)

\* The first turn that was flagged.
FlagsKept ==
  /\ \A l \in DOMAIN log : log[l].flag => log[l].kind = "chat" /\ degenTurn <= log[l].turn
  /\ degenTurn = 0 => \A l \in DOMAIN log : ~log[l].flag
  /\ degenTurn # 0 => \E l \in DOMAIN log : log[l].flag /\ log[l].turn = degenTurn

ChatInv ==
  /\ CorpusInv(streams, next, chunks)
  /\ phase = "corpus" => streams # <<>>
  /\ ChatType /\ TurnsRecorded /\ PairsKept /\ CanariesPlanted /\ AskedFor
  /\ BatteriesAsked /\ PassesAsked /\ FlagsKept

\* One more record.
Grown(g, h, r, n) ==
  /\ h \in Seq(Records) /\ r \in Records /\ n = Len(g) + 1 /\ n \in Nat
  /\ DOMAIN h = DOMAIN g \cup {n} /\ n \notin DOMAIN g /\ h[n] = r
  /\ \A l \in DOMAIN g : l \in Nat /\ l < n /\ h[l] = g[l] /\ g[l] \in Records

LEMMA RecordAdded ==
  ASSUME NEW g \in Seq(Records), NEW r \in Records
  PROVE  Grown(g, Append(g, r), r, Len(g) + 1)
<1>1. /\ Len(g) \in Nat /\ DOMAIN g = 1..Len(g) /\ \A l \in 1..Len(g) : g[l] \in Records
  <2> HIDE DEF Records
  <2> QED
    BY ElementOfSeq, LenProperties
<1>2. /\ Append(g, r) \in Seq(Records) /\ Len(Append(g, r)) = Len(g) + 1
      /\ Append(g, r)[Len(g) + 1] = r /\ \A l \in 1..Len(g) : Append(g, r)[l] = g[l]
      /\ DOMAIN Append(g, r) = 1..(Len(g) + 1)
  <2>1. /\ Append(g, r) \in Seq(Records) /\ Len(Append(g, r)) = Len(g) + 1
        /\ Append(g, r)[Len(g) + 1] = r /\ \A l \in 1..Len(g) : Append(g, r)[l] = g[l]
    BY AppendProperties
  <2>2. DOMAIN Append(g, r) = 1..(Len(g) + 1)
    BY <2>1, LenProperties
  <2> QED
    BY <2>1, <2>2
<1>3. 1..(Len(g) + 1) = 1..Len(g) \cup {Len(g) + 1} /\ Len(g) + 1 \notin 1..Len(g)
  BY <1>1
<1>4. \A l \in 1..Len(g) : l \in Nat /\ l < Len(g) + 1
  BY <1>1
<1> QED
  BY <1>1, <1>2, <1>3, <1>4 DEF Grown

\* What a record adds to each kind.
LEMMA KindsGrow ==
  ASSUME NEW g, NEW h, NEW r, NEW n, Grown(g, h, r, n)
  PROVE  /\ TurnsIn(h) = TurnsIn(g) \cup (IF r.kind \in {"chat", "ERROR"} THEN {n} ELSE {})
         /\ ChatsIn(h) = ChatsIn(g) \cup (IF r.kind = "chat" THEN {n} ELSE {})
         /\ ErrorsIn(h) = ErrorsIn(g) \cup (IF r.kind = "ERROR" THEN {n} ELSE {})
         /\ \A t : RecallsIn(h, t) = RecallsIn(g, t) \cup
              (IF r.kind \in {"recall", "recall_error"} /\ r.turn = t THEN {n} ELSE {})
         /\ \A e : PassIn(h, e) = PassIn(g, e) \cup
              (IF r.kind \in {"final_probe", "final_probe_error"} /\ r.effort = e THEN {n} ELSE {})
         /\ \A t : FailedIn(h, t) <=> FailedIn(g, t) \/ (r.kind = "ERROR" /\ r.turn = t)
<1>1. /\ DOMAIN h = DOMAIN g \cup {n} /\ n \notin DOMAIN g /\ h[n] = r
      /\ \A l \in DOMAIN g : h[l] = g[l]
  BY DEF Grown
<1>2. TurnsIn(h) = TurnsIn(g) \cup (IF r.kind \in {"chat", "ERROR"} THEN {n} ELSE {})
  BY <1>1 DEF TurnsIn
<1>3. ChatsIn(h) = ChatsIn(g) \cup (IF r.kind = "chat" THEN {n} ELSE {})
  BY <1>1 DEF ChatsIn
<1>4. ErrorsIn(h) = ErrorsIn(g) \cup (IF r.kind = "ERROR" THEN {n} ELSE {})
  BY <1>1 DEF ErrorsIn
<1>5. ASSUME NEW t
      PROVE  RecallsIn(h, t) = RecallsIn(g, t) \cup
               (IF r.kind \in {"recall", "recall_error"} /\ r.turn = t THEN {n} ELSE {})
  BY <1>1 DEF RecallsIn
<1>6. ASSUME NEW e
      PROVE  PassIn(h, e) = PassIn(g, e) \cup
               (IF r.kind \in {"final_probe", "final_probe_error"} /\ r.effort = e THEN {n} ELSE {})
  BY <1>1 DEF PassIn
<1>7. ASSUME NEW t
      PROVE  FailedIn(h, t) <=> FailedIn(g, t) \/ (r.kind = "ERROR" /\ r.turn = t)
  BY <1>1 DEF FailedIn
<1> QED
  BY <1>2, <1>3, <1>4, <1>5, <1>6, <1>7

\* The names of records that do not grow, or grow by one that comes after.
LEMMA NamesGrow ==
  ASSUME NEW g, NEW h, NEW r, NEW n, Grown(g, h, r, n),
         NEW R \in SUBSET DOMAIN g, NEW ids, NamesIn(g, R, ids)
  PROVE  /\ NamesIn(h, R, ids)
         /\ (\A i \in ids : i < r.id) => NamesIn(h, R \cup {n}, ids \cup {r.id})
<1>1. /\ n \notin DOMAIN g /\ h[n] = r /\ n \in Nat
      /\ \A l \in DOMAIN g : l \in Nat /\ l < n /\ h[l] = g[l]
  BY DEF Grown
<1>2. {g[l].id : l \in R} = ids /\ \A l, m \in R : l < m => g[l].id < g[m].id
  BY DEF NamesIn
<1>3. {h[l].id : l \in R} = ids
  BY <1>1, <1>2
<1>4. \A l, m \in R : l < m => h[l].id < h[m].id
  BY <1>1, <1>2
<1>5. ASSUME \A i \in ids : i < r.id
      PROVE  NamesIn(h, R \cup {n}, ids \cup {r.id})
  <2>1. {h[l].id : l \in R \cup {n}} = ids \cup {r.id}
    BY <1>1, <1>3
  <2>2. ASSUME NEW l \in R \cup {n}, NEW m \in R \cup {n}, l < m
        PROVE  h[l].id < h[m].id
    <3>1. CASE l = n
      <4>1. ~(n < m)
        BY <1>1
      <4> QED
        BY <2>2, <3>1, <4>1
    <3>2. CASE l # n /\ m = n
      <4>1. h[l].id \in ids
        BY <1>3, <3>2
      <4> QED
        BY <1>1, <1>5, <3>2, <4>1
    <3>3. CASE l # n /\ m # n
      BY <1>4, <2>2, <3>3
    <3> QED
      BY <3>1, <3>2, <3>3
  <2> QED
    BY <2>1, <2>2 DEF NamesIn
<1> QED
  BY <1>3, <1>4, <1>5 DEF NamesIn

\* The kinds are of the file.
LEMMA KindsInside ==
  ASSUME NEW g
  PROVE  /\ TurnsIn(g) \subseteq DOMAIN g /\ ChatsIn(g) \subseteq TurnsIn(g)
         /\ ErrorsIn(g) \subseteq TurnsIn(g)
         /\ \A t : RecallsIn(g, t) \in SUBSET DOMAIN g
         /\ \A e : PassIn(g, e) \in SUBSET DOMAIN g
  BY DEF TurnsIn, ChatsIn, ErrorsIn, RecallsIn, PassIn

\* What holds of the conversation holds of a longer one.
Longer(ms, ns) == Len(ms) <= Len(ns) /\ \A k \in 1..Len(ms) : ns[k] = ms[k]

LEMMA LongerKeeps ==
  ASSUME NEW ms \in Seq(Turns), NEW ns, Longer(ms, ns), Len(ns) \in Nat,
         NEW t \in Nat \ {0}, NEW c
  PROVE  /\ Paired(ms, t, c) => Paired(ns, t, c)
         /\ NoteIn(ms, c, t, Len(ms)) => NoteIn(ns, c, t, Len(ns))
         /\ \A n \in Nat : n <= Len(ms) /\ NoteIn(ms, c, t, n) => NoteIn(ns, c, t, n)
<1>1. Len(ms) \in Nat
  BY LenProperties
<1>2. /\ Len(ms) <= Len(ns) /\ \A k \in 1..Len(ms) : ns[k] = ms[k]
  BY DEF Longer
<1>3. 2 * t <= Len(ms) => /\ 2 * t - 1 \in 1..Len(ms) /\ 2 * t \in 1..Len(ms)
                          /\ 2 * t <= Len(ns)
  BY <1>1, <1>2
<1>4. \A n \in Nat : n <= Len(ms) /\ 2 * t <= n => 2 * t <= Len(ms)
  BY <1>1
<1>5. Paired(ms, t, c) => Paired(ns, t, c)
  BY <1>2, <1>3 DEF Paired
<1>6. NoteIn(ms, c, t, Len(ms)) => NoteIn(ns, c, t, Len(ns))
  BY <1>2, <1>3 DEF NoteIn
<1>7. \A n \in Nat : n <= Len(ms) /\ NoteIn(ms, c, t, n) => NoteIn(ns, c, t, n)
  BY <1>2, <1>3, <1>4 DEF NoteIn
<1> QED
  BY <1>5, <1>6, <1>7

-------------------------------------------------------------------------------
(* The batteries. *)

\* The least of a set of numbers.
LEMMA LeastOf ==
  ASSUME NEW T \in SUBSET Nat, T # {}
  PROVE  /\ Chat!Min(T) \in T /\ Chat!Min(T) \in Nat
         /\ \A j \in T : Chat!Min(T) <= j /\ (j # Chat!Min(T) => Chat!Min(T) < j)
<1>1. PICK m \in T : \A k \in T : m <= k
  BY LeastNatural
<1>2. Chat!Min(T) \in T /\ \A j \in T : Chat!Min(T) <= j
  BY <1>1 DEF Chat!Min
<1> DEFINE i == Chat!Min(T)
<1>3. i \in T /\ \A j \in T : i <= j
  BY <1>2
<1> HIDE DEF i
<1>4. i \in Nat /\ \A j \in T : j \in Nat
  BY <1>3
<1>5. \A j \in T : j # i => i < j
  BY <1>3, <1>4
<1> QED
  BY <1>3, <1>4, <1>5 DEF i

\* A record of a probe.
ProbeRecord(kind, i) ==
  [kind |-> kind, turn |-> turn, id |-> i, effort |-> effort, ctx |-> Len(messages), flag |-> FALSE]

ProbeKinds == {"recall", "recall_error", "final_probe", "final_probe_error"}

LEMMA ProbeStep ==
  ASSUME ChatType, NEW kind \in {"recall", "final_probe"}, NEW failed \in BOOLEAN,
         Chat!Probe(kind, failed), todo # {}
  PROVE  \E i \in todo, k \in ProbeKinds :
           /\ i \in Nat /\ \A j \in todo : j # i => i < j
           /\ k = kind \/ k = (IF kind = "recall" THEN "recall_error" ELSE "final_probe_error")
           /\ Grown(log, log', ProbeRecord(k, i), Len(log) + 1)
           /\ todo' = todo \ {i}
           /\ messages' = messages /\ canaries' = canaries /\ turn' = turn
           /\ degenTurn' = degenTurn /\ over' = over
           /\ streams' = streams /\ next' = next /\ chunks' = chunks
<1> DEFINE i == Chat!Min(todo)
           k == IF failed THEN Chat!ErrorKind(kind) ELSE kind
<1>1. /\ todo \in SUBSET Nat /\ log \in Seq(Records) /\ turn \in Nat /\ effort \in Nat
      /\ messages \in Seq(Turns)
  BY DEF ChatType
<1>2. i \in todo /\ i \in Nat /\ \A j \in todo : j # i => i < j
  BY <1>1, LeastOf
<1>3. /\ messages' = messages /\ canaries' = canaries /\ turn' = turn
      /\ degenTurn' = degenTurn /\ over' = over
      /\ streams' = streams /\ next' = next /\ chunks' = chunks
  BY DEF Chat!Probe, Chat!Probed
<1>4. /\ k \in ProbeKinds
      /\ k = kind \/ k = (IF kind = "recall" THEN "recall_error" ELSE "final_probe_error")
  BY DEF Chat!ErrorKind, ProbeKinds
<1>5. todo' = todo \ {i}
  BY DEF Chat!Probe
<1> HIDE DEF i
<1>6. log' = Append(log, ProbeRecord(k, i))
  <2>1. log' = Chat!Logged(k, i, Len(messages), FALSE)
    BY DEF Chat!Probe, i
  <2> HIDE DEF k
  <2> QED
    BY <1>3, <2>1 DEF Chat!Logged, ProbeRecord
<1> HIDE DEF k
<1>7. ProbeRecord(k, i) \in Records
  <2>1. Len(messages) \in Nat
    BY <1>1, LenProperties
  <2> QED
    BY <1>1, <1>2, <1>4, <2>1 DEF ProbeRecord, Records, ProbeKinds
<1>8. Grown(log, log', ProbeRecord(k, i), Len(log) + 1)
  BY <1>1, <1>6, <1>7, RecordAdded
<1> QED
  BY <1>2, <1>3, <1>4, <1>5, <1>8

\* What a probe does not disturb.
LEMMA ProbeQuiet ==
  ASSUME ChatInv, NEW i, NEW k \in ProbeKinds,
         Grown(log, log', ProbeRecord(k, i), Len(log) + 1),
         messages' = messages, canaries' = canaries, turn' = turn,
         degenTurn' = degenTurn,
         phase \in {"final", "done"} => phase' \in {"final", "done"}
  PROVE  /\ TurnsRecorded' /\ PairsKept' /\ CanariesPlanted' /\ FlagsKept'
         /\ TurnsIn(log') = TurnsIn(log) /\ ChatsIn(log') = ChatsIn(log)
         /\ \A t : FailedIn(log', t) <=> FailedIn(log, t)
<1> DEFINE r == ProbeRecord(k, i)
           n == Len(log) + 1
<1>1. /\ r.kind = k /\ r.turn = turn /\ r.flag = FALSE
      /\ k \notin {"chat", "ERROR"}
  BY DEF ProbeRecord, ProbeKinds
<1>2. /\ Grown(log, log', r, n)
      /\ ChatType /\ TurnsRecorded /\ PairsKept /\ CanariesPlanted /\ FlagsKept
  BY DEF ChatInv
<1> HIDE DEF r, n
<1>3. /\ DOMAIN log' = DOMAIN log \cup {n} /\ n \notin DOMAIN log /\ log'[n] = r
      /\ \A l \in DOMAIN log : log'[l] = log[l]
  BY <1>2 DEF Grown
<1>4. /\ TurnsIn(log') = TurnsIn(log) /\ ChatsIn(log') = ChatsIn(log)
      /\ ErrorsIn(log') = ErrorsIn(log)
      /\ \A t : FailedIn(log', t) <=> FailedIn(log, t)
  <2>1. ~(r.kind \in {"chat", "ERROR"}) /\ r.kind # "chat" /\ r.kind # "ERROR"
    BY <1>1
  <2>2. /\ TurnsIn(log') = TurnsIn(log) \cup (IF r.kind \in {"chat", "ERROR"} THEN {n} ELSE {})
        /\ ChatsIn(log') = ChatsIn(log) \cup (IF r.kind = "chat" THEN {n} ELSE {})
        /\ ErrorsIn(log') = ErrorsIn(log) \cup (IF r.kind = "ERROR" THEN {n} ELSE {})
    BY <1>2, KindsGrow
  <2>3. \A t : FailedIn(log', t) <=> FailedIn(log, t) \/ (r.kind = "ERROR" /\ r.turn = t)
    BY <1>2, KindsGrow
  <2> QED
    BY <2>1, <2>2, <2>3
<1>5. /\ \A l \in TurnsIn(log) : log'[l] = log[l]
      /\ ChatsIn(log) \subseteq TurnsIn(log) /\ ErrorsIn(log) \subseteq TurnsIn(log)
  BY <1>3, KindsInside
<1>6. TurnsRecorded'
  <2>1. {log'[l].turn : l \in TurnsIn(log')} = 1..turn'
    BY <1>2, <1>4, <1>5 DEF TurnsRecorded
  <2>2. \A l, m \in TurnsIn(log') : l < m => log'[l].turn < log'[m].turn
    BY <1>2, <1>4, <1>5 DEF TurnsRecorded
  <2>3. \A l \in DOMAIN log' : log'[l].turn <= turn'
    <3>1. turn <= turn
      BY <1>2 DEF ChatType
    <3> QED
      BY <1>1, <1>2, <1>3, <3>1 DEF TurnsRecorded
  <2>4. \A l \in ErrorsIn(log') : log'[l].turn = turn' /\ phase' \in {"final", "done"}
    BY <1>2, <1>4, <1>5 DEF TurnsRecorded
  <2> QED
    BY <2>1, <2>2, <2>3, <2>4 DEF TurnsRecorded
<1>7. PairsKept'
  BY <1>2, <1>4, <1>5 DEF PairsKept
<1>8. CanariesPlanted'
  BY <1>2, <1>4 DEF CanariesPlanted
<1>9. FlagsKept'
  BY <1>1, <1>2, <1>3 DEF FlagsKept
<1> QED
  BY <1>4, <1>6, <1>7, <1>8, <1>9

\* What was asked for, one probe later.
LEMMA ProbeAsked ==
  ASSUME ChatInv, NEW i \in todo, i \in Nat, NEW k \in ProbeKinds,
         Grown(log, log', ProbeRecord(k, i), Len(log) + 1),
         messages' = messages, canaries' = canaries, turn' = turn,
         \/ phase = "recall"
         \/ phase = "final" /\ k \in {"final_probe", "final_probe_error"},
         TurnsIn(log') = TurnsIn(log), \A t : FailedIn(log', t) <=> FailedIn(log, t)
  PROVE  AskedFor'
<1> DEFINE r == ProbeRecord(k, i)
           n == Len(log) + 1
<1>1. /\ r.kind = k /\ r.id = i /\ r.ctx = Len(messages)
  BY DEF ProbeRecord
<1>2. /\ Grown(log, log', r, n)
      /\ ChatType /\ TurnsRecorded /\ CanariesPlanted /\ AskedFor /\ BatteriesAsked
  BY DEF ChatInv
<1> HIDE DEF r, n
<1>3. /\ DOMAIN log' = DOMAIN log \cup {n} /\ n \notin DOMAIN log /\ log'[n] = r
      /\ \A l \in DOMAIN log : log'[l] = log[l]
  BY <1>2 DEF Grown
<1>4. Len(messages) \in Nat
  <2>1. messages \in Seq(Turns)
    BY <1>2 DEF ChatType
  <2> QED
    BY <2>1, LenProperties
<1>5. DOMAIN canaries = 1..Len(canaries) /\ Len(canaries) \in Nat
  <2>1. canaries \in Seq([topic : Int, turn : Nat])
    BY <1>2 DEF ChatType
  <2> QED
    BY <2>1, LenProperties
<1>6. i \in 0..(Len(canaries) - 1)
  BY <1>2 DEF BatteriesAsked
<1>7. i + 1 \in DOMAIN canaries
  <2>1. i + 1 \in 1..Len(canaries)
    BY <1>5, <1>6
  <2> QED
    BY <1>5, <2>1
<1>8. \/ NoteIn(messages, i, canaries[i + 1].turn, Len(messages))
      \/ FailedIn(log, canaries[i + 1].turn)
  <2>1. (i + 1) - 1 = i
    OBVIOUS
  <2> QED
    BY <1>2, <1>7, <2>1 DEF CanariesPlanted
<1>9. phase = "recall" => ~FailedIn(log, canaries[i + 1].turn)
  <2>1. phase = "recall" => ErrorsIn(log) = {}
    BY <1>2 DEF TurnsRecorded
  <2> QED
    BY <2>1 DEF ErrorsIn, FailedIn
<1>10. ASSUME NEW l \in DOMAIN log' \ TurnsIn(log')
       PROVE  /\ log'[l].id + 1 \in DOMAIN canaries'
              /\ log'[l].ctx <= Len(messages')
              /\ \/ NoteIn(messages', log'[l].id, canaries'[log'[l].id + 1].turn, log'[l].ctx)
                 \/ /\ log'[l].kind \in {"final_probe", "final_probe_error"}
                    /\ FailedIn(log', canaries'[log'[l].id + 1].turn)
  <2>1. CASE l \in DOMAIN log
    <3>1. l \in DOMAIN log \ TurnsIn(log) /\ log'[l] = log[l]
      BY <1>3, <1>10, <2>1
    <3>2. /\ log[l].id + 1 \in DOMAIN canaries
          /\ log[l].ctx <= Len(messages)
          /\ \/ NoteIn(messages, log[l].id, canaries[log[l].id + 1].turn, log[l].ctx)
             \/ /\ log[l].kind \in {"final_probe", "final_probe_error"}
                /\ FailedIn(log, canaries[log[l].id + 1].turn)
      BY <1>2, <3>1 DEF AskedFor
    <3> QED
      BY <3>1, <3>2
  <2>2. CASE l = n
    <3>1. log'[l] = r /\ Len(messages) <= Len(messages)
      BY <1>3, <1>4, <2>2
    <3>2. \/ NoteIn(messages, i, canaries[i + 1].turn, Len(messages))
          \/ /\ k \in {"final_probe", "final_probe_error"}
             /\ FailedIn(log, canaries[i + 1].turn)
      BY <1>8, <1>9
    <3> QED
      BY <1>1, <1>7, <3>1, <3>2
  <2> QED
    BY <1>3, <1>10, <2>1, <2>2
<1> QED
  BY <1>10 DEF AskedFor

\* A recall.
LEMMA RecallStep ==
  ASSUME ChatConstants, ChatInv, NEW failed \in BOOLEAN, Chat!Recall(failed)
  PROVE  ChatInv'
<1>1. /\ phase = "recall" /\ Chat!Probe("recall", failed) /\ effort' = effort
      /\ phase' = IF todo' = {} THEN "chat" ELSE "recall"
  BY DEF Chat!Recall
<1>2. /\ ChatType /\ TurnsRecorded /\ AskedFor /\ BatteriesAsked /\ PassesAsked
      /\ CorpusInv(streams, next, chunks)
  BY DEF ChatInv
<1>3. todo # {} /\ todo \subseteq BatteryOf(turn)
  BY <1>1, <1>2 DEF BatteriesAsked
<1>4. PICK i \in todo, k \in ProbeKinds :
           /\ i \in Nat /\ \A j \in todo : j # i => i < j
           /\ k = "recall" \/ k = "recall_error"
           /\ Grown(log, log', ProbeRecord(k, i), Len(log) + 1)
           /\ todo' = todo \ {i}
           /\ messages' = messages /\ canaries' = canaries /\ turn' = turn
           /\ degenTurn' = degenTurn /\ over' = over
           /\ streams' = streams /\ next' = next /\ chunks' = chunks
  BY <1>1, <1>2, <1>3, ProbeStep
<1> DEFINE r == ProbeRecord(k, i)
           n == Len(log) + 1
<1>5. /\ TurnsRecorded' /\ PairsKept' /\ CanariesPlanted' /\ FlagsKept'
      /\ TurnsIn(log') = TurnsIn(log) /\ ChatsIn(log') = ChatsIn(log)
      /\ \A t : FailedIn(log', t) <=> FailedIn(log, t)
  BY <1>1, <1>4, ProbeQuiet
<1>6. AskedFor'
  BY <1>1, <1>4, <1>5, ProbeAsked
<1>7. r.kind = k /\ r.id = i /\ r.turn = turn /\ r.ctx = Len(messages) /\ r.effort = effort
  BY DEF ProbeRecord
<1>8. Grown(log, log', r, n)
  BY <1>4
<1> HIDE DEF r, n
<1>9. /\ DOMAIN log' = DOMAIN log \cup {n} /\ n \notin DOMAIN log /\ log'[n] = r
      /\ log' \in Seq(Records) /\ \A l \in DOMAIN log : log'[l] = log[l]
  BY <1>8 DEF Grown
<1>10. /\ \A t : RecallsIn(log', t) = RecallsIn(log, t) \cup (IF t = turn THEN {n} ELSE {})
       /\ \A e : PassIn(log', e) = PassIn(log, e)
  <2>1. /\ r.kind \in {"recall", "recall_error"}
        /\ ~(r.kind \in {"final_probe", "final_probe_error"})
    BY <1>4, <1>7
  <2>2. \A t : RecallsIn(log', t) = RecallsIn(log, t) \cup
          (IF r.kind \in {"recall", "recall_error"} /\ r.turn = t THEN {n} ELSE {})
    BY <1>8, KindsGrow
  <2>3. \A e : PassIn(log', e) = PassIn(log, e) \cup
          (IF r.kind \in {"final_probe", "final_probe_error"} /\ r.effort = e THEN {n} ELSE {})
    BY <1>8, KindsGrow
  <2>4. \A t : RecallsIn(log', t) = RecallsIn(log, t) \cup (IF t = turn THEN {n} ELSE {})
    BY <1>7, <2>1, <2>2
  <2>5. \A e : PassIn(log', e) = PassIn(log, e)
    BY <2>1, <2>3
  <2> QED
    BY <2>4, <2>5
<1>11. ChatType'
  BY <1>1, <1>2, <1>4, <1>9 DEF ChatType
<1>12. BatteriesAsked'
  <2>1. ASSUME NEW l \in ChatsIn(log')
        PROVE  NamesIn(log', RecallsIn(log', log'[l].turn),
                       BatteryOf(log'[l].turn) \
                         (IF log'[l].turn = turn' /\ phase' = "recall" THEN todo' ELSE {}))
    <3> DEFINE t == log[l].turn
    <3>1. l \in ChatsIn(log) /\ l \in DOMAIN log /\ log'[l].turn = t
      BY <1>5, <1>9, <2>1, KindsInside
    <3>2. NamesIn(log, RecallsIn(log, t), BatteryOf(t) \ (IF t = turn THEN todo ELSE {}))
      BY <1>1, <1>2, <3>1 DEF BatteriesAsked
    <3>3. RecallsIn(log, t) \in SUBSET DOMAIN log
      BY KindsInside
    <3> HIDE DEF t
    <3>4. CASE t # turn
      <4>1. NamesIn(log', RecallsIn(log, t), BatteryOf(t) \ {})
        BY <1>8, <3>2, <3>3, <3>4, NamesGrow
      <4>2. RecallsIn(log', t) = RecallsIn(log, t)
        BY <1>10, <3>4
      <4> QED
        BY <1>4, <3>1, <3>4, <4>1, <4>2
    <3>5. CASE t = turn
      <4>1. \A x \in BatteryOf(t) \ todo : x < r.id
        <5>1. \A m \in RecallsIn(log, turn) : log[m].id < i
          BY <1>1, <1>2 DEF BatteriesAsked
        <5>2. {log[m].id : m \in RecallsIn(log, turn)} = BatteryOf(turn) \ todo
          BY <3>2, <3>5 DEF NamesIn
        <5> QED
          BY <1>7, <3>5, <5>1, <5>2
      <4>2. NamesIn(log', RecallsIn(log, t) \cup {n}, (BatteryOf(t) \ todo) \cup {r.id})
        BY <1>8, <3>2, <3>3, <3>5, <4>1, NamesGrow
      <4>3. (BatteryOf(t) \ todo) \cup {r.id} = BatteryOf(t) \ todo'
        BY <1>3, <1>4, <1>7, <3>5
      <4>4. todo' = (IF phase' = "recall" THEN todo' ELSE {})
        BY <1>1
      <4>5. RecallsIn(log', t) = RecallsIn(log, t) \cup {n}
        BY <1>10, <3>5
      <4> QED
        BY <1>4, <3>1, <3>5, <4>2, <4>3, <4>4, <4>5
    <3> QED
      BY <3>4, <3>5
  <2>2. ASSUME phase' = "recall"
        PROVE  /\ todo' # {} /\ todo' \subseteq BatteryOf(turn')
               /\ \A l \in RecallsIn(log', turn') : \A j \in todo' : log'[l].id < j
    <3>1. todo' # {} /\ todo' \subseteq BatteryOf(turn')
      BY <1>1, <1>3, <1>4, <2>2
    <3>2. ASSUME NEW l \in RecallsIn(log', turn'), NEW j \in todo'
          PROVE  log'[l].id < j
      <4>1. j \in todo /\ i < j
        BY <1>4
      <4>2. l \in RecallsIn(log, turn) \/ l = n
        BY <1>4, <1>10
      <4>3. CASE l \in RecallsIn(log, turn)
        <5>1. log'[l] = log[l]
          BY <1>9, <4>3, KindsInside
        <5> QED
          BY <1>1, <1>2, <4>1, <4>3, <5>1 DEF BatteriesAsked
      <4>4. CASE l = n
        BY <1>7, <1>9, <4>1, <4>4
      <4> QED
        BY <4>2, <4>3, <4>4
    <3> QED
      BY <3>1, <3>2
  <2>3. phase' \in {"corpus", "chat", "done"} => todo' = {}
    BY <1>1
  <2>4. phase' \in {"recall", "final"} => todo' \subseteq 0..(Len(canaries') - 1)
    BY <1>1, <1>2, <1>4 DEF BatteriesAsked
  <2> QED
    BY <2>1, <2>2, <2>3, <2>4 DEF BatteriesAsked
<1>13. PassesAsked'
  <2>1. effort = 0 /\ phase' \notin {"final", "done"}
    BY <1>1, <1>2 DEF PassesAsked
  <2>2. ASSUME NEW e \in 1..Len(Efforts)
        PROVE  NamesIn(log', PassIn(log', e),
                       IF e < effort' THEN 0..(Len(canaries') - 1)
                       ELSE IF e = effort' THEN (0..(Len(canaries') - 1)) \ todo' ELSE {})
    <3>1. ~(e < effort) /\ e # effort
      BY <2>1
    <3>2. NamesIn(log, PassIn(log, e), {})
      BY <1>2, <3>1 DEF PassesAsked
    <3>3. PassIn(log, e) \in SUBSET DOMAIN log
      BY KindsInside
    <3>4. NamesIn(log', PassIn(log, e), {})
      BY <1>8, <3>2, <3>3, NamesGrow
    <3> QED
      BY <1>1, <1>10, <3>1, <3>4
  <2>3. \A l \in DOMAIN log' : log'[l].kind \notin {"final_probe", "final_probe_error"}
    <3>1. \A l \in DOMAIN log : log[l].kind \notin {"final_probe", "final_probe_error"}
      BY <1>1, <1>2 DEF PassesAsked
    <3> QED
      BY <1>4, <1>7, <1>9, <3>1
  <2> QED
    BY <1>1, <2>1, <2>2, <2>3 DEF PassesAsked
<1>14. CorpusInv(streams, next, chunks)' /\ (phase' = "corpus" => streams' # <<>>)
  BY <1>1, <1>2, <1>4
<1> QED
  BY <1>5, <1>6, <1>11, <1>12, <1>13, <1>14 DEF ChatInv

\* A question of the final probe.
LEMMA FinalProbeStep ==
  ASSUME ChatConstants, ChatInv, NEW failed \in BOOLEAN, Chat!FinalProbe(failed)
  PROVE  ChatInv'
<1>1. /\ phase = "final" /\ todo # {} /\ Chat!Probe("final_probe", failed)
      /\ effort' = effort /\ phase' = phase
  BY DEF Chat!FinalProbe
<1>2. /\ ChatType /\ TurnsRecorded /\ AskedFor /\ BatteriesAsked /\ PassesAsked
      /\ CorpusInv(streams, next, chunks)
  BY DEF ChatInv
<1>3. PICK i \in todo, k \in ProbeKinds :
           /\ i \in Nat /\ \A j \in todo : j # i => i < j
           /\ k = "final_probe" \/ k = "final_probe_error"
           /\ Grown(log, log', ProbeRecord(k, i), Len(log) + 1)
           /\ todo' = todo \ {i}
           /\ messages' = messages /\ canaries' = canaries /\ turn' = turn
           /\ degenTurn' = degenTurn /\ over' = over
           /\ streams' = streams /\ next' = next /\ chunks' = chunks
  BY <1>1, <1>2, ProbeStep
<1> DEFINE r == ProbeRecord(k, i)
           n == Len(log) + 1
           All == 0..(Len(canaries) - 1)
<1>4. /\ TurnsRecorded' /\ PairsKept' /\ CanariesPlanted' /\ FlagsKept'
      /\ TurnsIn(log') = TurnsIn(log) /\ ChatsIn(log') = ChatsIn(log)
      /\ \A t : FailedIn(log', t) <=> FailedIn(log, t)
  BY <1>1, <1>3, ProbeQuiet
<1>5. AskedFor'
  BY <1>1, <1>3, <1>4, ProbeAsked
<1>6. r.kind = k /\ r.id = i /\ r.turn = turn /\ r.ctx = Len(messages) /\ r.effort = effort
  BY DEF ProbeRecord
<1>7. Grown(log, log', r, n)
  BY <1>3
<1> HIDE DEF r, n
<1>8. /\ DOMAIN log' = DOMAIN log \cup {n} /\ n \notin DOMAIN log /\ log'[n] = r
      /\ log' \in Seq(Records) /\ \A l \in DOMAIN log : log'[l] = log[l]
  BY <1>7 DEF Grown
<1>9. /\ \A t : RecallsIn(log', t) = RecallsIn(log, t)
      /\ \A e : PassIn(log', e) = PassIn(log, e) \cup (IF e = effort THEN {n} ELSE {})
  <2>1. /\ ~(r.kind \in {"recall", "recall_error"})
        /\ r.kind \in {"final_probe", "final_probe_error"}
    BY <1>3, <1>6
  <2>2. \A t : RecallsIn(log', t) = RecallsIn(log, t) \cup
          (IF r.kind \in {"recall", "recall_error"} /\ r.turn = t THEN {n} ELSE {})
    BY <1>7, KindsGrow
  <2>3. \A e : PassIn(log', e) = PassIn(log, e) \cup
          (IF r.kind \in {"final_probe", "final_probe_error"} /\ r.effort = e THEN {n} ELSE {})
    BY <1>7, KindsGrow
  <2>4. \A t : RecallsIn(log', t) = RecallsIn(log, t)
    BY <2>1, <2>2
  <2>5. \A e : PassIn(log', e) = PassIn(log, e) \cup (IF e = effort THEN {n} ELSE {})
    BY <1>6, <2>1, <2>3
  <2> QED
    BY <2>4, <2>5
<1>10. ChatType'
  BY <1>1, <1>2, <1>3, <1>8 DEF ChatType
<1>11. BatteriesAsked'
  <2>1. ASSUME NEW l \in ChatsIn(log')
        PROVE  NamesIn(log', RecallsIn(log', log'[l].turn),
                       BatteryOf(log'[l].turn) \
                         (IF log'[l].turn = turn' /\ phase' = "recall" THEN todo' ELSE {}))
    <3> DEFINE t == log[l].turn
    <3>1. l \in ChatsIn(log) /\ l \in DOMAIN log /\ log'[l].turn = t
      BY <1>4, <1>8, <2>1, KindsInside
    <3>2. NamesIn(log, RecallsIn(log, t), BatteryOf(t) \ {})
      BY <1>1, <1>2, <3>1 DEF BatteriesAsked
    <3>3. RecallsIn(log, t) \in SUBSET DOMAIN log
      BY KindsInside
    <3> HIDE DEF t
    <3>4. NamesIn(log', RecallsIn(log, t), BatteryOf(t) \ {})
      BY <1>7, <3>2, <3>3, NamesGrow
    <3> QED
      BY <1>1, <1>9, <3>1, <3>4
  <2>2. todo' \subseteq 0..(Len(canaries') - 1)
    BY <1>1, <1>2, <1>3 DEF BatteriesAsked
  <2> QED
    BY <1>1, <2>1, <2>2 DEF BatteriesAsked
<1>12. todo \subseteq All /\ effort >= 1 /\ effort \in Nat
  BY <1>1, <1>2 DEF BatteriesAsked, PassesAsked, ChatType
<1>13. \A l \in PassIn(log, effort) : \A j \in todo : log[l].id < j
  BY <1>1, <1>2 DEF PassesAsked
<1> HIDE DEF All
<1>14. PassesAsked'
  <2>1. ASSUME NEW e \in 1..Len(Efforts)
        PROVE  NamesIn(log', PassIn(log', e),
                       IF e < effort' THEN 0..(Len(canaries') - 1)
                       ELSE IF e = effort' THEN (0..(Len(canaries') - 1)) \ todo' ELSE {})
    <3>1. NamesIn(log, PassIn(log, e),
                  IF e < effort THEN All ELSE IF e = effort THEN All \ todo ELSE {})
      BY <1>2 DEF PassesAsked, All
    <3>2. PassIn(log, e) \in SUBSET DOMAIN log
      BY KindsInside
    <3>3. CASE e = effort
      <4>1. NamesIn(log, PassIn(log, e), All \ todo)
        BY <1>12, <3>1, <3>3
      <4>2. \A x \in All \ todo : x < r.id
        <5>1. {log[m].id : m \in PassIn(log, effort)} = All \ todo
          BY <3>3, <4>1 DEF NamesIn
        <5> QED
          BY <1>6, <1>13, <5>1
      <4>3. NamesIn(log', PassIn(log, e) \cup {n}, (All \ todo) \cup {r.id})
        BY <1>7, <3>2, <4>1, <4>2, NamesGrow
      <4>4. (All \ todo) \cup {r.id} = All \ todo'
        BY <1>3, <1>6, <1>12
      <4>5. PassIn(log', e) = PassIn(log, e) \cup {n}
        BY <1>9, <3>3
      <4>6. NamesIn(log', PassIn(log', e), All \ todo')
        BY <4>3, <4>4, <4>5
      <4>7. ~(e < effort)
        BY <1>12, <3>3
      <4> QED
        BY <1>1, <1>3, <3>3, <4>6, <4>7 DEF All
    <3>4. CASE e # effort
      <4>1. NamesIn(log', PassIn(log, e),
                    IF e < effort THEN All ELSE IF e = effort THEN All \ todo ELSE {})
        BY <1>7, <3>1, <3>2, NamesGrow
      <4>2. PassIn(log', e) = PassIn(log, e)
        BY <1>9, <3>4
      <4> QED
        BY <1>1, <1>3, <3>4, <4>1, <4>2 DEF All
    <3> QED
      BY <3>3, <3>4
  <2>2. \A l \in DOMAIN log' :
          log'[l].kind \in {"final_probe", "final_probe_error"} =>
            /\ log'[l].effort \in 1..effort' /\ log'[l].ctx = Len(messages')
            /\ phase' \in {"final", "done"}
    <3>1. \A l \in DOMAIN log :
            log[l].kind \in {"final_probe", "final_probe_error"} =>
              log[l].effort \in 1..effort /\ log[l].ctx = Len(messages)
      BY <1>2 DEF PassesAsked
    <3>2. effort \in 1..effort
      BY <1>12
    <3> QED
      BY <1>1, <1>3, <1>6, <1>8, <3>1, <3>2
  <2>3. ASSUME NEW l \in PassIn(log', effort'), NEW j \in todo'
        PROVE  log'[l].id < j
    <3>1. j \in todo /\ i < j
      BY <1>3
    <3>2. l \in PassIn(log, effort) \/ l = n
      BY <1>1, <1>9
    <3>3. CASE l \in PassIn(log, effort)
      <4>1. log'[l] = log[l]
        BY <1>8, <3>3, KindsInside
      <4> QED
        BY <1>13, <3>1, <3>3, <4>1
    <3>4. CASE l = n
      BY <1>6, <1>8, <3>1, <3>4
    <3> QED
      BY <3>2, <3>3, <3>4
  <2> QED
    BY <1>1, <1>12, <2>1, <2>2, <2>3 DEF PassesAsked
<1>15. CorpusInv(streams, next, chunks)' /\ (phase' = "corpus" => streams' # <<>>)
  BY <1>1, <1>2, <1>3
<1> QED
  BY <1>4, <1>5, <1>10, <1>11, <1>14, <1>15 DEF ChatInv

-------------------------------------------------------------------------------
(* The steps that leave no record. *)

\* The file, the conversation and the canaries stay as they are.
Still ==
  /\ turn' = turn /\ messages' = messages /\ canaries' = canaries /\ log' = log
  /\ degenTurn' = degenTurn /\ over' = over

LEMMA StillKeeps ==
  ASSUME ChatInv, Still, phase \in {"final", "done"} => phase' \in {"final", "done"}
  PROVE  TurnsRecorded' /\ PairsKept' /\ CanariesPlanted' /\ AskedFor' /\ FlagsKept'
<1>1. TurnsRecorded /\ PairsKept /\ CanariesPlanted /\ AskedFor /\ FlagsKept
  BY DEF ChatInv
<1>2. TurnsRecorded'
  BY <1>1 DEF Still, TurnsRecorded
<1>3. PairsKept'
  BY <1>1 DEF Still, PairsKept
<1>4. CanariesPlanted'
  BY <1>1 DEF Still, CanariesPlanted
<1>5. AskedFor'
  BY <1>1 DEF Still, AskedFor
<1>6. FlagsKept'
  BY <1>1 DEF Still, FlagsKept
<1> QED
  BY <1>2, <1>3, <1>4, <1>5, <1>6

\* A chunk.
LEMMA PopChunkStep ==
  ASSUME ChatInv, Chat!PopChunk
  PROVE  ChatInv'
<1> DEFINE i == (next % Len(streams)) + 1
<1>1. /\ phase = "corpus" /\ Still /\ todo' = todo /\ effort' = effort
      /\ chunks' = Append(chunks, streams[i][1]) /\ next' = next + 1
      /\ streams' = PoppedOf(streams, i)
      /\ phase' = IF streams' = <<>> THEN "chat" ELSE "corpus"
  BY DEF Chat!PopChunk, Chat!Advance, Still, PoppedOf
<1>2. /\ CorpusInv(streams, next, chunks) /\ streams # <<>>
      /\ ChatType /\ BatteriesAsked /\ PassesAsked
  BY <1>1 DEF ChatInv
<1> HIDE DEF i
<1>3. CorpusInv(PoppedOf(streams, i), next + 1, Append(chunks, streams[i][1]))
  BY <1>2, PopKeeps DEF i
<1>4. TurnsRecorded' /\ PairsKept' /\ CanariesPlanted' /\ AskedFor' /\ FlagsKept'
  BY <1>1, StillKeeps
<1>5. phase' \in {"corpus", "chat"}
  BY <1>1
<1>6. ChatType'
  BY <1>1, <1>2, <1>5 DEF ChatType, Still
<1>7. BatteriesAsked'
  <2>1. \A l \in ChatsIn(log) :
          NamesIn(log, RecallsIn(log, log[l].turn), BatteryOf(log[l].turn) \ {})
    BY <1>1, <1>2 DEF BatteriesAsked
  <2>2. todo = {}
    BY <1>1, <1>2 DEF BatteriesAsked
  <2> QED
    BY <1>1, <1>5, <2>1, <2>2 DEF BatteriesAsked, Still
<1>8. PassesAsked'
  BY <1>1, <1>2, <1>5 DEF PassesAsked, Still
<1>9. CorpusInv(streams, next, chunks)' /\ (phase' = "corpus" => streams' # <<>>)
  BY <1>1, <1>3
<1> QED
  BY <1>4, <1>6, <1>7, <1>8, <1>9 DEF ChatInv

\* The accumulation ends.
LEMMA StopChatStep ==
  ASSUME ChatInv, Chat!StopChat
  PROVE  ChatInv'
<1>1. /\ phase = "chat" /\ phase' = "final" /\ Still /\ todo' = todo /\ effort' = effort
      /\ streams' = streams /\ next' = next /\ chunks' = chunks
  BY DEF Chat!StopChat, Still
<1>2. /\ CorpusInv(streams, next, chunks) /\ ChatType /\ BatteriesAsked /\ PassesAsked
  BY DEF ChatInv
<1>3. TurnsRecorded' /\ PairsKept' /\ CanariesPlanted' /\ AskedFor' /\ FlagsKept'
  BY <1>1, StillKeeps
<1>4. ChatType'
  BY <1>1, <1>2 DEF ChatType, Still
<1>5. BatteriesAsked' /\ todo = {}
  <2>1. \A l \in ChatsIn(log) :
          NamesIn(log, RecallsIn(log, log[l].turn), BatteryOf(log[l].turn) \ {})
    BY <1>1, <1>2 DEF BatteriesAsked
  <2>2. todo = {}
    BY <1>1, <1>2 DEF BatteriesAsked
  <2> QED
    BY <1>1, <2>1, <2>2 DEF BatteriesAsked, Still
<1>6. PassesAsked'
  BY <1>1, <1>2, <1>5 DEF PassesAsked, Still
<1>7. CorpusInv(streams, next, chunks)' /\ (phase' = "corpus" => streams' # <<>>)
  BY <1>1, <1>2
<1> QED
  BY <1>3, <1>4, <1>5, <1>6, <1>7 DEF ChatInv

\* The run ends.
LEMMA SummariseStep ==
  ASSUME ChatInv, Chat!Summarise
  PROVE  ChatInv'
<1>1. /\ phase = "final" /\ phase' = "done" /\ todo = {} /\ Still
      /\ todo' = todo /\ effort' = effort
      /\ canaries = <<>> \/ effort = Len(Efforts)
      /\ streams' = streams /\ next' = next /\ chunks' = chunks
  BY DEF Chat!Summarise, Still
<1>2. /\ CorpusInv(streams, next, chunks) /\ ChatType /\ BatteriesAsked /\ PassesAsked
  BY DEF ChatInv
<1>3. TurnsRecorded' /\ PairsKept' /\ CanariesPlanted' /\ AskedFor' /\ FlagsKept'
  BY <1>1, StillKeeps
<1>4. ChatType'
  BY <1>1, <1>2 DEF ChatType, Still
<1>5. BatteriesAsked'
  <2>1. \A l \in ChatsIn(log) :
          NamesIn(log, RecallsIn(log, log[l].turn), BatteryOf(log[l].turn) \ {})
    BY <1>1, <1>2 DEF BatteriesAsked
  <2> QED
    BY <1>1, <2>1 DEF BatteriesAsked, Still
<1>6. PassesAsked'
  BY <1>1, <1>2 DEF PassesAsked, Still
<1>7. CorpusInv(streams, next, chunks)' /\ (phase' = "corpus" => streams' # <<>>)
  BY <1>1, <1>2
<1> QED
  BY <1>3, <1>4, <1>5, <1>6, <1>7 DEF ChatInv

\* A pass of the final probe begins.
LEMMA StartPassStep ==
  ASSUME ChatConstants, ChatInv, Chat!StartPass
  PROVE  ChatInv'
<1> DEFINE All == 0..(Len(canaries) - 1)
<1>1. /\ phase = "final" /\ phase' = phase /\ todo = {} /\ Still
      /\ effort < Len(Efforts) /\ effort' = effort + 1 /\ todo' = All
      /\ streams' = streams /\ next' = next /\ chunks' = chunks
  BY DEF Chat!StartPass, Still
<1>2. /\ CorpusInv(streams, next, chunks) /\ ChatType /\ BatteriesAsked /\ PassesAsked
  BY DEF ChatInv
<1>3. TurnsRecorded' /\ PairsKept' /\ CanariesPlanted' /\ AskedFor' /\ FlagsKept'
  BY <1>1, StillKeeps
<1>4. effort \in Nat /\ Len(Efforts) \in Nat /\ effort + 1 \in 0..Len(Efforts)
  BY <1>1, <1>2 DEF ChatType, ChatConstants
<1>5. All \in SUBSET Nat
  <2>1. canaries \in Seq([topic : Int, turn : Nat])
    BY <1>2 DEF ChatType
  <2> QED
    BY <2>1, LenProperties
<1>6. ChatType'
  BY <1>1, <1>2, <1>4, <1>5 DEF ChatType, Still
<1>7. BatteriesAsked'
  <2>1. \A l \in ChatsIn(log) :
          NamesIn(log, RecallsIn(log, log[l].turn), BatteryOf(log[l].turn) \ {})
    BY <1>1, <1>2 DEF BatteriesAsked
  <2> QED
    BY <1>1, <2>1 DEF BatteriesAsked, Still
<1>8. ASSUME NEW e \in 1..Len(Efforts)
      PROVE  NamesIn(log, PassIn(log, e),
                     IF e < effort THEN All ELSE IF e = effort THEN All \ {} ELSE {})
  BY <1>1, <1>2 DEF PassesAsked
<1> HIDE DEF All
<1>9. PassesAsked'
  <2>1. ASSUME NEW e \in 1..Len(Efforts)
        PROVE  NamesIn(log, PassIn(log, e),
                       IF e < effort + 1 THEN All ELSE IF e = effort + 1 THEN All \ All ELSE {})
    <3>1. CASE e < effort
      <4>1. NamesIn(log, PassIn(log, e), All) /\ e < effort + 1
        BY <1>4, <1>8, <3>1
      <4> QED
        BY <4>1
    <3>2. CASE e = effort
      <4>1. ~(e < effort) /\ e < effort + 1
        BY <1>4, <3>2
      <4>2. NamesIn(log, PassIn(log, e), All \ {}) /\ All \ {} = All
        BY <1>8, <3>2, <4>1
      <4> QED
        BY <4>1, <4>2
    <3>3. CASE e > effort
      <4>1. ~(e < effort) /\ e # effort /\ ~(e < effort + 1)
        BY <1>4, <3>3
      <4>2. NamesIn(log, PassIn(log, e), {}) /\ All \ All = {}
        BY <1>8, <4>1
      <4> QED
        BY <4>1, <4>2
    <3> QED
      BY <1>4, <3>1, <3>2, <3>3
  <2>2. PassIn(log, effort + 1) = {}
    <3>1. effort + 1 \in 1..Len(Efforts) /\ ~(effort + 1 < effort) /\ effort + 1 # effort
      BY <1>4
    <3>2. NamesIn(log, PassIn(log, effort + 1), {})
      BY <1>8, <3>1
    <3> QED
      BY <3>2 DEF NamesIn
  <2>3. \A l \in DOMAIN log :
          log[l].kind \in {"final_probe", "final_probe_error"} =>
            log[l].effort \in 1..(effort + 1) /\ log[l].ctx = Len(messages)
    <3>1. \A l \in DOMAIN log :
            log[l].kind \in {"final_probe", "final_probe_error"} =>
              log[l].effort \in 1..effort /\ log[l].ctx = Len(messages)
      BY <1>2 DEF PassesAsked
    <3>2. \A x \in 1..effort : x \in 1..(effort + 1)
      BY <1>4
    <3> QED
      BY <3>1, <3>2
  <2>4. effort + 1 >= 1
    BY <1>4
  <2>5. /\ phase' = "final" /\ effort' = effort + 1 /\ todo' = All /\ log' = log
        /\ messages' = messages /\ canaries' = canaries
    BY <1>1 DEF Still
  <2>6. \A e \in 1..Len(Efforts) :
          NamesIn(log', PassIn(log', e),
                  IF e < effort' THEN 0..(Len(canaries') - 1)
                  ELSE IF e = effort' THEN (0..(Len(canaries') - 1)) \ todo' ELSE {})
    BY <2>1, <2>5 DEF All
  <2> QED
    BY <2>2, <2>3, <2>4, <2>5, <2>6 DEF PassesAsked
<1>10. CorpusInv(streams, next, chunks)' /\ (phase' = "corpus" => streams' # <<>>)
  BY <1>1, <1>2
<1> QED
  BY <1>3, <1>6, <1>7, <1>9, <1>10 DEF ChatInv

-------------------------------------------------------------------------------
(* The turns. *)

\* What the next turn asks, and the canary that it plants.
NextTurn(note) ==
  /\ phase = "chat" /\ turn \in Nat /\ turn' = turn + 1
  /\ ErrorsIn(log) = {} /\ Len(messages) = 2 * turn /\ todo = {} /\ effort = 0
  /\ effort' = effort /\ streams' = streams /\ next' = next /\ chunks' = chunks
  /\ note \in Int /\ note = Chat!Note
  /\ Len(canaries) \in Nat /\ DOMAIN canaries = 1..Len(canaries)
  /\ canaries' \in Seq([topic : Int, turn : Nat]) /\ DOMAIN canaries' = 1..Len(canaries')
  /\ Len(canaries') = turn' \div CanaryEvery
  /\ \A c \in DOMAIN canaries : canaries'[c] = canaries[c]
  /\ \/ Len(canaries') = Len(canaries)
     \/ /\ Len(canaries') = Len(canaries) + 1 /\ canaries'[Len(canaries) + 1].turn = turn'
        /\ note = Len(canaries)

LEMMA AskStep ==
  ASSUME ChatConstants, ChatInv, Chat!Ask
  PROVE  \E note : NextTurn(note)
<1>1. /\ ChatType /\ TurnsRecorded /\ PairsKept /\ CanariesPlanted /\ BatteriesAsked
      /\ PassesAsked
  BY DEF ChatInv
<1>2. /\ phase = "chat" /\ turn' = turn + 1
      /\ effort' = effort /\ streams' = streams /\ next' = next /\ chunks' = chunks
      /\ canaries' = IF Chat!Plants(turn') THEN Append(canaries, Chat!Canary(Len(canaries), turn'))
                     ELSE canaries
  BY DEF Chat!Ask
<1>3. turn \in Nat /\ canaries \in Seq([topic : Int, turn : Nat])
  BY <1>1 DEF ChatType
<1>4. /\ Len(canaries) \in Nat /\ DOMAIN canaries = 1..Len(canaries)
  BY <1>3, LenProperties
<1>5. ErrorsIn(log) = {}
  BY <1>1, <1>2 DEF TurnsRecorded
<1>6. Len(messages) = 2 * turn
  BY <1>1, <1>5 DEF PairsKept
<1>7. todo = {} /\ effort = 0
  BY <1>1, <1>2 DEF BatteriesAsked, PassesAsked
<1>8. Len(canaries) = turn \div CanaryEvery
  BY <1>1 DEF CanariesPlanted
<1>9. CanaryEvery \in Nat \ {0} /\ NumTopics \in Nat \ {0}
  BY DEF ChatConstants
<1>10. turn' \div CanaryEvery = (turn \div CanaryEvery) + IF turn' % CanaryEvery = 0 THEN 1 ELSE 0
  BY <1>2, <1>3, <1>9, NextQuotient
<1>11. Chat!Plants(turn') <=> turn' % CanaryEvery = 0
  BY DEF Chat!Plants
<1> DEFINE note == Chat!Note
<1>12. note = IF Chat!Plants(turn') THEN Len(canaries) ELSE -1
  BY DEF Chat!Note, Chat!NoNote
<1>13. CASE Chat!Plants(turn')
  <2> DEFINE c == Chat!Canary(Len(canaries), turn')
  <2>1. c \in [topic : Int, turn : Nat] /\ c.turn = turn'
    <3>1. Len(canaries) % NumTopics \in 0..(NumTopics - 1)
      BY <1>4, <1>9, Quotient
    <3>2. Len(canaries) % NumTopics \in Int /\ turn' \in Nat
      BY <1>2, <1>3, <1>9, <3>1
    <3> QED
      BY <3>2 DEF Chat!Canary
  <2> HIDE DEF c
  <2>2. canaries' = Append(canaries, c)
    BY <1>2, <1>13 DEF c
  <2>3. /\ canaries' \in Seq([topic : Int, turn : Nat]) /\ Len(canaries') = Len(canaries) + 1
        /\ \A x \in 1..Len(canaries) : canaries'[x] = canaries[x]
        /\ canaries'[Len(canaries) + 1] = c
    BY <1>3, <2>1, <2>2, AppendProperties
  <2>4. DOMAIN canaries' = 1..Len(canaries')
    BY <2>3, LenProperties
  <2>5. Len(canaries') = turn' \div CanaryEvery
    BY <1>8, <1>10, <1>11, <1>13, <2>3
  <2>6. note \in Int /\ note = Len(canaries)
    BY <1>4, <1>12, <1>13
  <2>7. NextTurn(note)
    <3> HIDE DEF note
    <3> QED
      BY <1>2, <1>3, <1>4, <1>5, <1>6, <1>7, <2>1, <2>3, <2>4, <2>5, <2>6 DEF NextTurn, note
  <2> QED
    BY <2>7
<1>14. CASE ~Chat!Plants(turn')
  <2>1. canaries' = canaries
    BY <1>2, <1>14
  <2>2. Len(canaries') = turn' \div CanaryEvery
    BY <1>4, <1>8, <1>10, <1>11, <1>14, <2>1
  <2>3. note \in Int
    BY <1>12, <1>14
  <2>4. NextTurn(note)
    <3> HIDE DEF note
    <3> QED
      BY <1>2, <1>3, <1>4, <1>5, <1>6, <1>7, <2>1, <2>2, <2>3 DEF NextTurn, note
  <2> QED
    BY <2>4
<1> QED
  BY <1>13, <1>14

\* What a turn's record does, whether it was answered or failed.
LEMMA TurnRecorded ==
  ASSUME ChatConstants, ChatInv, NEW note, NextTurn(note),
         NEW r, Grown(log, log', r, Len(log) + 1),
         r.kind \in {"chat", "ERROR"}, r.turn = turn + 1,
         r.kind = "ERROR" => phase' = "final",
         messages' \in Seq(Turns), Longer(messages, messages'),
         \/ NoteIn(messages', Len(canaries), turn + 1, Len(messages'))
         \/ r.kind = "ERROR"
         \/ Len(canaries') = Len(canaries)
  PROVE  /\ TurnsRecorded' /\ CanariesPlanted' /\ AskedFor'
         /\ \A l \in ChatsIn(log) :
              /\ log'[l] = log[l] /\ log[l].turn # turn'
              /\ Paired(messages', log[l].turn, log[l].id)
              /\ NamesIn(log', RecallsIn(log', log[l].turn), BatteryOf(log[l].turn))
         /\ RecallsIn(log', turn') = {}
         /\ (phase' = "final" /\ todo' = {}) \/ phase' \in {"chat", "recall"} => PassesAsked'
<1> DEFINE n == Len(log) + 1
<1>1. /\ ChatType /\ TurnsRecorded /\ PairsKept /\ CanariesPlanted /\ AskedFor
      /\ BatteriesAsked /\ PassesAsked /\ Grown(log, log', r, n)
  BY DEF ChatInv
<1> HIDE DEF n
<1>2. /\ phase = "chat" /\ turn \in Nat /\ turn' = turn + 1
      /\ ErrorsIn(log) = {} /\ Len(messages) = 2 * turn /\ todo = {} /\ effort = 0
      /\ effort' = effort
      /\ Len(canaries) \in Nat /\ DOMAIN canaries = 1..Len(canaries)
      /\ DOMAIN canaries' = 1..Len(canaries')
      /\ Len(canaries') = turn' \div CanaryEvery
      /\ \A c \in DOMAIN canaries : canaries'[c] = canaries[c]
      /\ \/ Len(canaries') = Len(canaries)
         \/ Len(canaries') = Len(canaries) + 1 /\ canaries'[Len(canaries) + 1].turn = turn'
  BY DEF NextTurn
<1>3. /\ DOMAIN log' = DOMAIN log \cup {n} /\ n \notin DOMAIN log /\ log'[n] = r
      /\ log' \in Seq(Records) /\ n \in Nat
      /\ \A l \in DOMAIN log : log'[l] = log[l] /\ l \in Nat /\ l < n /\ log[l] \in Records
  BY <1>1 DEF Grown
<1>4. /\ TurnsIn(log') = TurnsIn(log) \cup {n}
      /\ ErrorsIn(log') = (IF r.kind = "ERROR" THEN {n} ELSE {})
      /\ \A t : RecallsIn(log', t) = RecallsIn(log, t)
      /\ \A e : PassIn(log', e) = PassIn(log, e)
      /\ \A t : FailedIn(log, t) => FailedIn(log', t)
      /\ r.kind = "ERROR" => FailedIn(log', turn')
  <2>1. TurnsIn(log') = TurnsIn(log) \cup {n}
    BY <1>1, KindsGrow
  <2>2. ErrorsIn(log') = ErrorsIn(log) \cup (IF r.kind = "ERROR" THEN {n} ELSE {})
    BY <1>1, KindsGrow
  <2>3. /\ ~(r.kind \in {"recall", "recall_error"})
        /\ ~(r.kind \in {"final_probe", "final_probe_error"})
    OBVIOUS
  <2>4. \A t : RecallsIn(log', t) = RecallsIn(log, t) \cup
          (IF r.kind \in {"recall", "recall_error"} /\ r.turn = t THEN {n} ELSE {})
    BY <1>1, KindsGrow
  <2>5. \A e : PassIn(log', e) = PassIn(log, e) \cup
          (IF r.kind \in {"final_probe", "final_probe_error"} /\ r.effort = e THEN {n} ELSE {})
    BY <1>1, KindsGrow
  <2>6. \A t : FailedIn(log', t) <=> FailedIn(log, t) \/ (r.kind = "ERROR" /\ r.turn = t)
    BY <1>1, KindsGrow
  <2>7. \A t : RecallsIn(log', t) = RecallsIn(log, t)
    BY <2>3, <2>4
  <2>8. \A e : PassIn(log', e) = PassIn(log, e)
    BY <2>3, <2>5
  <2> QED
    BY <1>2, <2>1, <2>2, <2>6, <2>7, <2>8
<1>5. \A l \in DOMAIN log : log[l].turn \in Nat /\ log[l].turn <= turn /\ log[l].turn # turn'
  <2> SUFFICES ASSUME NEW l \in DOMAIN log
               PROVE  log[l].turn \in Nat /\ log[l].turn <= turn /\ log[l].turn # turn'
    OBVIOUS
  <2>1. log[l] \in Records
    BY <1>3
  <2>2. log[l].turn \in Nat
    BY <2>1 DEF Records
  <2>3. log[l].turn <= turn
    BY <1>1 DEF TurnsRecorded
  <2> QED
    BY <1>2, <2>2, <2>3
<1>6. TurnsIn(log) \subseteq DOMAIN log /\ ChatsIn(log) \subseteq TurnsIn(log)
  BY KindsInside
<1>7. TurnsRecorded'
  <2>1. {log'[l].turn : l \in TurnsIn(log')} = 1..turn'
    <3>1. {log[l].turn : l \in TurnsIn(log)} = 1..turn
      BY <1>1 DEF TurnsRecorded
    <3>2. {log'[l].turn : l \in TurnsIn(log')} = 1..turn \cup {turn'}
      BY <1>2, <1>3, <1>4, <1>6, <3>1
    <3>3. 1..turn \cup {turn + 1} = 1..(turn + 1)
      BY <1>2
    <3> QED
      BY <1>2, <3>2, <3>3
  <2>2. ASSUME NEW l \in TurnsIn(log'), NEW m \in TurnsIn(log'), l < m
        PROVE  log'[l].turn < log'[m].turn
    <3>1. CASE l = n
      <4>1. m = n \/ m < n
        BY <1>3, <1>4, <1>6
      <4>2. m \in Nat
        BY <1>3, <1>4, <1>6
      <4> QED
        BY <1>3, <2>2, <3>1, <4>1, <4>2
    <3>2. CASE l # n /\ m = n
      <4>1. l \in DOMAIN log
        BY <1>4, <1>6, <3>2
      <4>2. log[l].turn < turn + 1
        BY <1>2, <1>5, <4>1
      <4> QED
        BY <1>2, <1>3, <3>2, <4>1, <4>2
    <3>3. CASE l # n /\ m # n
      <4>1. l \in TurnsIn(log) /\ m \in TurnsIn(log)
        BY <1>4, <3>3
      <4>2. log[l].turn < log[m].turn
        BY <1>1, <2>2, <4>1 DEF TurnsRecorded
      <4> QED
        BY <1>3, <1>6, <4>1, <4>2
    <3> QED
      BY <3>1, <3>2, <3>3
  <2>3. ASSUME NEW l \in DOMAIN log'
        PROVE  log'[l].turn <= turn'
    <3>1. CASE l = n
      BY <1>2, <1>3, <3>1
    <3>2. CASE l \in DOMAIN log
      BY <1>2, <1>3, <1>5, <3>2
    <3> QED
      BY <1>3, <3>1, <3>2
  <2>4. \A l \in ErrorsIn(log') : log'[l].turn = turn' /\ phase' \in {"final", "done"}
    BY <1>2, <1>3, <1>4
  <2> QED
    BY <2>1, <2>2, <2>3, <2>4 DEF TurnsRecorded
<1>8. messages \in Seq(Turns) /\ Len(messages) \in Nat /\ Len(messages') \in Nat
  <2>1. messages \in Seq(Turns)
    BY <1>1 DEF ChatType
  <2> QED
    BY <2>1, LenProperties
<1>9. CanariesPlanted'
  <2>1. ASSUME NEW c \in DOMAIN canaries'
        PROVE  /\ canaries'[c].turn \in 1..turn'
               /\ \/ NoteIn(messages', c - 1, canaries'[c].turn, Len(messages'))
                  \/ FailedIn(log', canaries'[c].turn)
    <3>1. CASE c \in DOMAIN canaries
      <4> DEFINE t == canaries[c].turn
      <4>1. /\ t \in 1..turn
            /\ NoteIn(messages, c - 1, t, Len(messages)) \/ FailedIn(log, t)
        BY <1>1, <3>1 DEF CanariesPlanted
      <4>2. canaries'[c].turn = t
        BY <1>2, <3>1
      <4> HIDE DEF t
      <4>3. t \in Nat \ {0} /\ t \in 1..turn'
        BY <1>2, <4>1
      <4>4. NoteIn(messages, c - 1, t, Len(messages)) => NoteIn(messages', c - 1, t, Len(messages'))
        BY <1>8, <4>3, LongerKeeps
      <4>5. FailedIn(log, t) => FailedIn(log', t)
        BY <1>4
      <4> QED
        BY <4>1, <4>2, <4>3, <4>4, <4>5
    <3>2. CASE c \notin DOMAIN canaries
      <4>1. /\ Len(canaries') = Len(canaries) + 1 /\ c = Len(canaries) + 1
            /\ canaries'[c].turn = turn' /\ c - 1 = Len(canaries)
            /\ Len(canaries') # Len(canaries)
        BY <1>2, <3>2
      <4>2. turn' \in 1..turn'
        BY <1>2
      <4>3. NoteIn(messages', Len(canaries), turn', Len(messages')) \/ FailedIn(log', turn')
        BY <1>2, <1>4, <4>1
      <4> QED
        BY <4>1, <4>2, <4>3
    <3> QED
      BY <3>1, <3>2
  <2> QED
    BY <1>2, <2>1 DEF CanariesPlanted
<1>10. AskedFor'
  <2>1. ASSUME NEW l \in DOMAIN log' \ TurnsIn(log')
        PROVE  /\ log'[l].id + 1 \in DOMAIN canaries'
               /\ log'[l].ctx <= Len(messages')
               /\ \/ NoteIn(messages', log'[l].id, canaries'[log'[l].id + 1].turn, log'[l].ctx)
                  \/ /\ log'[l].kind \in {"final_probe", "final_probe_error"}
                     /\ FailedIn(log', canaries'[log'[l].id + 1].turn)
    <3>1. l \in DOMAIN log \ TurnsIn(log) /\ log'[l] = log[l] /\ log[l] \in Records
      BY <1>3, <1>4, <2>1
    <3> DEFINE c == log[l].id
               t == canaries[c + 1].turn
               x == log[l].ctx
    <3>2. /\ c + 1 \in DOMAIN canaries /\ x <= Len(messages)
          /\ \/ NoteIn(messages, c, t, x)
             \/ log[l].kind \in {"final_probe", "final_probe_error"} /\ FailedIn(log, t)
      BY <1>1, <3>1 DEF AskedFor
    <3>3. x \in Nat
      BY <3>1 DEF Records
    <3>4. t \in 1..turn /\ canaries'[c + 1].turn = t
      BY <1>1, <1>2, <3>2 DEF CanariesPlanted
    <3> HIDE DEF t, x
    <3>5. t \in Nat \ {0}
      BY <1>2, <3>4
    <3>6. NoteIn(messages, c, t, x) => NoteIn(messages', c, t, x)
      BY <1>8, <3>2, <3>3, <3>5, LongerKeeps
    <3>7. x <= Len(messages')
      BY <1>8, <3>2, <3>3 DEF Longer
    <3>8. FailedIn(log, t) => FailedIn(log', t)
      BY <1>4
    <3>9. c + 1 \in DOMAIN canaries'
      <4> HIDE DEF c
      <4> QED
        BY <1>2, <3>2
    <3> QED
      BY <3>1, <3>2, <3>4, <3>6, <3>7, <3>8, <3>9 DEF x
  <2> QED
    BY <2>1 DEF AskedFor
<1>11. ASSUME NEW l \in ChatsIn(log)
       PROVE  /\ log'[l] = log[l] /\ log[l].turn # turn'
              /\ Paired(messages', log[l].turn, log[l].id)
              /\ NamesIn(log', RecallsIn(log', log[l].turn), BatteryOf(log[l].turn))
  <2> DEFINE t == log[l].turn
             R == RecallsIn(log, t)
  <2>1. l \in DOMAIN log /\ l \in TurnsIn(log)
    BY <1>6
  <2>2. log'[l] = log[l] /\ t # turn'
    BY <1>3, <1>5, <2>1
  <2>3. t \in Nat \ {0}
    <3>1. {log[m].turn : m \in TurnsIn(log)} = 1..turn
      BY <1>1 DEF TurnsRecorded
    <3>2. t \in 1..turn
      BY <2>1, <3>1
    <3> HIDE DEF t
    <3> QED
      BY <1>2, <3>2
  <2>4. Paired(messages, t, log[l].id)
    BY <1>1 DEF PairsKept
  <2>5. Paired(messages', t, log[l].id)
    <3> HIDE DEF t
    <3> QED
      BY <1>8, <2>3, <2>4, LongerKeeps
  <2>6. NamesIn(log, R, BatteryOf(t) \ {})
    BY <1>1, <1>2 DEF BatteriesAsked
  <2>7. R \in SUBSET DOMAIN log /\ RecallsIn(log', t) = R
    BY <1>4, KindsInside
  <2> HIDE DEF R, t
  <2>8. NamesIn(log', R, BatteryOf(t) \ {}) /\ BatteryOf(t) \ {} = BatteryOf(t)
    BY <1>1, <2>6, <2>7, NamesGrow
  <2> QED
    BY <2>2, <2>5, <2>7, <2>8 DEF t
<1>12. RecallsIn(log', turn') = {}
  BY <1>4, <1>5 DEF RecallsIn
<1>13. ASSUME (phase' = "final" /\ todo' = {}) \/ phase' \in {"chat", "recall"}
       PROVE  PassesAsked'
  <2>1. ASSUME NEW e \in 1..Len(Efforts)
        PROVE  NamesIn(log', PassIn(log', e),
                       IF e < effort' THEN 0..(Len(canaries') - 1)
                       ELSE IF e = effort' THEN (0..(Len(canaries') - 1)) \ todo' ELSE {})
    <3>1. ~(e < effort) /\ e # effort
      BY <1>2
    <3>2. NamesIn(log, PassIn(log, e), {})
      BY <1>1, <3>1 DEF PassesAsked
    <3>3. PassIn(log, e) \in SUBSET DOMAIN log
      BY KindsInside
    <3>4. NamesIn(log', PassIn(log, e), {})
      BY <1>1, <3>2, <3>3, NamesGrow
    <3> QED
      BY <1>2, <1>4, <3>1, <3>4
  <2>2. \A l \in DOMAIN log' : log'[l].kind \notin {"final_probe", "final_probe_error"}
    <3>1. \A l \in DOMAIN log : log[l].kind \notin {"final_probe", "final_probe_error"}
      BY <1>1, <1>2 DEF PassesAsked
    <3> QED
      BY <1>3, <3>1
  <2>3. phase' # "done" /\ ~(phase' = "final" /\ todo' # {})
    BY <1>13
  <2> QED
    BY <1>2, <2>1, <2>2, <2>3 DEF PassesAsked
<1> QED
  BY <1>7, <1>9, <1>10, <1>11, <1>12, <1>13

\* A turn of which the record is kind.
TurnRecord(kind, note, ctx, flag) ==
  [kind |-> kind, turn |-> turn + 1, id |-> note, effort |-> effort, ctx |-> ctx, flag |-> flag]

\* A battery asks for canaries that there are.
LEMMA BatteryInside ==
  ASSUME NEW n \in Nat \ {0}
  PROVE  Chat!Battery(n) # {} /\ Chat!Battery(n) \subseteq 0..(n - 1)
<1>1. /\ 0 \in 0..(n - 1) /\ n \div 4 \in 0..(n - 1) /\ n \div 2 \in 0..(n - 1)
      /\ (3 * n) \div 4 \in 0..(n - 1) /\ n - 1 \in 0..(n - 1)
  OBVIOUS
<1> QED
  BY <1>1 DEF Chat!Battery

\* The first turn that was flagged, one turn later.
LEMMA FlagsGrow ==
  ASSUME ChatInv, NEW r, Grown(log, log', r, Len(log) + 1), turn \in Nat,
         r.turn = turn + 1, r.flag \in BOOLEAN, r.flag => r.kind = "chat",
         degenTurn' = IF r.flag /\ degenTurn = 0 THEN turn + 1 ELSE degenTurn
  PROVE  FlagsKept'
<1> DEFINE n == Len(log) + 1
<1>1. /\ ChatType /\ TurnsRecorded /\ FlagsKept /\ Grown(log, log', r, n)
  BY DEF ChatInv
<1> HIDE DEF n
<1>2. /\ DOMAIN log' = DOMAIN log \cup {n} /\ n \notin DOMAIN log /\ log'[n] = r
      /\ \A l \in DOMAIN log : log'[l] = log[l]
  BY <1>1 DEF Grown
<1>3. /\ \A l \in DOMAIN log : log[l].flag => log[l].kind = "chat" /\ degenTurn <= log[l].turn
      /\ degenTurn = 0 => \A l \in DOMAIN log : ~log[l].flag
      /\ degenTurn # 0 => \E l \in DOMAIN log : log[l].flag /\ log[l].turn = degenTurn
  BY <1>1 DEF FlagsKept
<1>4. degenTurn \in Nat /\ \A l \in DOMAIN log : log[l].turn <= turn
  BY <1>1 DEF ChatType, TurnsRecorded
<1>5. CASE degenTurn = 0 /\ r.flag
  <2>1. degenTurn' = turn + 1 /\ degenTurn' # 0 /\ turn + 1 <= turn + 1
    BY <1>5
  <2>2. \A l \in DOMAIN log' : log'[l].flag => l = n
    BY <1>2, <1>3, <1>5
  <2> QED
    BY <1>2, <1>5, <2>1, <2>2 DEF FlagsKept
<1>6. CASE degenTurn = 0 /\ ~r.flag
  BY <1>2, <1>3, <1>6 DEF FlagsKept
<1>7. CASE degenTurn # 0
  <2>1. degenTurn' = degenTurn
    BY <1>7
  <2>2. degenTurn <= turn + 1
    <3>1. PICK l \in DOMAIN log : log[l].turn = degenTurn
      BY <1>3, <1>7
    <3>2. degenTurn <= turn
      BY <1>4, <3>1
    <3> QED
      BY <1>4, <3>2
  <2>3. \E l \in DOMAIN log' : log'[l].flag /\ log'[l].turn = degenTurn
    BY <1>2, <1>3, <1>7
  <2>4. \A l \in DOMAIN log' : log'[l].flag => log'[l].kind = "chat" /\ degenTurn <= log'[l].turn
    BY <1>2, <1>3, <2>2
  <2> QED
    BY <1>7, <2>1, <2>3, <2>4 DEF FlagsKept
<1> QED
  BY <1>5, <1>6, <1>7

\* The answered turns are counted.
LEMMA ChatsCounted ==
  ASSUME NEW g \in Seq(Records), NEW h, NEW r, NEW n, Grown(g, h, r, n)
  PROVE  /\ IsFiniteSet(ChatsIn(g)) /\ Cardinality(ChatsIn(g)) \in Nat
         /\ ChatsIn(h) = ChatsIn(g) \cup (IF r.kind = "chat" THEN {n} ELSE {})
         /\ r.kind = "chat" => Cardinality(ChatsIn(h)) = Cardinality(ChatsIn(g)) + 1
<1>1. IsFiniteSet(DOMAIN g)
  <2>1. DOMAIN g = 1..Len(g) /\ Len(g) \in Nat
    BY LenProperties
  <2> QED
    BY <2>1, FS_Interval
<1>2. ChatsIn(g) \in SUBSET DOMAIN g
  BY DEF ChatsIn
<1>3. IsFiniteSet(ChatsIn(g)) /\ Cardinality(ChatsIn(g)) \in Nat
  BY <1>1, <1>2, FS_Subset, FS_CardinalityType
<1>4. ChatsIn(h) = ChatsIn(g) \cup (IF r.kind = "chat" THEN {n} ELSE {})
  BY KindsGrow
<1>5. n \notin ChatsIn(g)
  BY <1>2 DEF Grown
<1>6. Cardinality(ChatsIn(g) \cup {n}) = Cardinality(ChatsIn(g)) + 1
  BY <1>3, <1>5, FS_AddElement
<1> QED
  BY <1>3, <1>4, <1>6

\* A turn that is answered.
LEMMA ReplyStep ==
  ASSUME ChatConstants, ChatInv, NEW flag \in BOOLEAN, Chat!Reply(flag)
  PROVE  ChatInv'
<1>1. PICK note : NextTurn(note)
  BY AskStep DEF Chat!Reply
<1>2. /\ phase = "chat" /\ turn \in Nat /\ turn' = turn + 1
      /\ ErrorsIn(log) = {} /\ Len(messages) = 2 * turn /\ todo = {} /\ effort = 0
      /\ effort' = effort /\ streams' = streams /\ next' = next /\ chunks' = chunks
      /\ note \in Int /\ note = Chat!Note
      /\ canaries' \in Seq([topic : Int, turn : Nat]) /\ Len(canaries') = turn' \div CanaryEvery
      /\ \/ Len(canaries') = Len(canaries)
         \/ note = Len(canaries)
  BY <1>1 DEF NextTurn
<1>3. /\ ChatType /\ PairsKept /\ BatteriesAsked /\ CorpusInv(streams, next, chunks)
  BY DEF ChatInv
<1>4. messages \in Seq(Turns) /\ log \in Seq(Records) /\ effort \in Nat
  BY <1>2, <1>3 DEF ChatType
<1> DEFINE q == Chat!Said("user", note)
           a == Chat!Said("assistant", Chat!NoNote)
           r == TurnRecord("chat", note, Len(messages'), flag)
           n == Len(log) + 1
<1>5. messages' = messages \o <<q, a>>
  BY <1>2 DEF Chat!Reply
<1>6. q \in Turns /\ a \in Turns
  BY <1>2 DEF Chat!Said, Chat!NoNote, Turns
<1>7. q.note = note
  BY DEF Chat!Said
<1> HIDE DEF q, a
<1>8. /\ messages' \in Seq(Turns) /\ Len(messages') = Len(messages) + 2
      /\ \A k \in 1..Len(messages) : messages'[k] = messages[k]
      /\ messages'[Len(messages) + 1] = q /\ messages'[Len(messages) + 2] = a
  <2>1. <<q, a>> \in Seq(Turns) /\ Len(<<q, a>>) = 2 /\ <<q, a>>[1] = q /\ <<q, a>>[2] = a
    BY <1>6
  <2>2. Len(messages) \in Nat
    BY <1>4, LenProperties
  <2>3. /\ messages' \in Seq(Turns) /\ Len(messages') = Len(messages) + Len(<<q, a>>)
        /\ \A k \in 1..(Len(messages) + Len(<<q, a>>)) : messages'[k] =
             IF k <= Len(messages) THEN messages[k] ELSE <<q, a>>[k - Len(messages)]
    BY <1>4, <1>5, <2>1, ConcatProperties
  <2>4. /\ Len(messages) + 1 \in 1..(Len(messages) + 2) /\ ~(Len(messages) + 1 <= Len(messages))
        /\ Len(messages) + 2 \in 1..(Len(messages) + 2) /\ ~(Len(messages) + 2 <= Len(messages))
        /\ (Len(messages) + 1) - Len(messages) = 1 /\ (Len(messages) + 2) - Len(messages) = 2
        /\ \A k \in 1..Len(messages) : k \in 1..(Len(messages) + 2) /\ k <= Len(messages)
    BY <2>2
  <2> QED
    BY <2>1, <2>3, <2>4
<1>9. Len(messages) \in Nat /\ Len(messages') \in Nat /\ Len(messages') = 2 * (turn + 1)
  BY <1>2, <1>8
<1>10. /\ r.kind = "chat" /\ r.turn = turn + 1 /\ r.id = note /\ r.flag = flag
  BY DEF TurnRecord
<1>11. r \in Records
  BY <1>2, <1>4, <1>9 DEF TurnRecord, Records
<1>12. log' = Append(log, r)
  <2>1. log' = Chat!Logged("chat", note, Len(messages'), flag)
    BY <1>2 DEF Chat!Reply
  <2> QED
    BY <1>2, <2>1 DEF Chat!Logged, TurnRecord
<1> HIDE DEF r
<1>13. Grown(log, log', r, n)
  BY <1>4, <1>11, <1>12, RecordAdded
<1>14. Longer(messages, messages')
  BY <1>8, <1>9 DEF Longer
<1>15. /\ 2 * (turn + 1) - 1 = Len(messages) + 1 /\ 2 * (turn + 1) = Len(messages) + 2
       /\ 2 * (turn + 1) <= Len(messages')
  BY <1>2, <1>9
<1>16. NoteIn(messages', note, turn + 1, Len(messages'))
  BY <1>7, <1>8, <1>15 DEF NoteIn
<1>17. Paired(messages', turn + 1, note)
  BY <1>8, <1>15 DEF Paired, q, a
<1>18. /\ TurnsRecorded' /\ CanariesPlanted' /\ AskedFor'
       /\ \A l \in ChatsIn(log) :
            /\ log'[l] = log[l] /\ log[l].turn # turn'
            /\ Paired(messages', log[l].turn, log[l].id)
            /\ NamesIn(log', RecallsIn(log', log[l].turn), BatteryOf(log[l].turn))
       /\ RecallsIn(log', turn') = {}
       /\ phase' \in {"chat", "recall"} => PassesAsked'
  <2>1. \/ NoteIn(messages', Len(canaries), turn + 1, Len(messages'))
        \/ r.kind = "ERROR"
        \/ Len(canaries') = Len(canaries)
    BY <1>2, <1>16
  <2>2. r.kind \in {"chat", "ERROR"} /\ (r.kind = "ERROR" => phase' = "final")
    BY <1>10
  <2> QED
    BY <1>1, <1>8, <1>10, <1>13, <1>14, <2>1, <2>2, TurnRecorded
<1>19. /\ ErrorsIn(log') = {}
       /\ ChatsIn(log') = ChatsIn(log) \cup {n}
       /\ Cardinality(ChatsIn(log')) = Cardinality(ChatsIn(log)) + 1
       /\ Cardinality(ChatsIn(log)) \in Nat
  <2>1. ErrorsIn(log') = ErrorsIn(log) \cup (IF r.kind = "ERROR" THEN {n} ELSE {})
    BY <1>13, KindsGrow
  <2>2. /\ Cardinality(ChatsIn(log)) \in Nat
        /\ ChatsIn(log') = ChatsIn(log) \cup (IF r.kind = "chat" THEN {n} ELSE {})
        /\ r.kind = "chat" => Cardinality(ChatsIn(log')) = Cardinality(ChatsIn(log)) + 1
    BY <1>4, <1>13, ChatsCounted
  <2> QED
    BY <1>2, <1>10, <2>1, <2>2
<1>20. log'[n] = r /\ log' \in Seq(Records)
  BY <1>13 DEF Grown
<1> HIDE DEF n
<1>21. PairsKept'
  <2>1. Len(messages') = 2 * (IF ErrorsIn(log') # {} THEN turn' - 1 ELSE turn')
    BY <1>2, <1>9, <1>19
  <2>2. Len(messages') = 2 * Cardinality(ChatsIn(log'))
    <3>1. Len(messages) = 2 * Cardinality(ChatsIn(log))
      BY <1>3 DEF PairsKept
    <3> QED
      BY <1>8, <1>19, <3>1
  <2>3. \A l \in ChatsIn(log') : Paired(messages', log'[l].turn, log'[l].id)
    BY <1>10, <1>17, <1>18, <1>19, <1>20
  <2> QED
    BY <2>1, <2>2, <2>3 DEF PairsKept
<1>22. /\ over' \in BOOLEAN
       /\ degenTurn' = IF flag /\ degenTurn = 0 THEN turn + 1 ELSE degenTurn
  BY <1>2 DEF Chat!Reply, Chat!FirstDegenerate, Chat!NoTurn
<1>23. FlagsKept'
  BY <1>2, <1>10, <1>13, <1>22, FlagsGrow DEF n
<1>24. IF canaries' # <<>> /\ turn' % RecallEvery = 0
       THEN phase' = "recall" /\ todo' = Chat!Battery(Len(canaries'))
       ELSE phase' = "chat" /\ todo' = {}
  BY DEF Chat!Reply
<1>25. /\ Len(canaries') \in Nat /\ (canaries' # <<>> <=> Len(canaries') > 0)
  BY <1>2
<1>26. /\ phase' \in {"chat", "recall"}
       /\ phase' = "recall" => todo' = BatteryOf(turn') /\ Len(canaries') > 0
                               /\ todo' = Chat!Battery(Len(canaries'))
       /\ phase' = "chat" => todo' = {} /\ BatteryOf(turn') = {}
  BY <1>2, <1>24, <1>25 DEF BatteryOf
<1>27. phase' = "recall" => todo' # {} /\ todo' \subseteq 0..(Len(canaries') - 1)
  BY <1>25, <1>26, BatteryInside
<1>28. BatteriesAsked'
  <2>1. ASSUME NEW l \in ChatsIn(log')
        PROVE  NamesIn(log', RecallsIn(log', log'[l].turn),
                       BatteryOf(log'[l].turn) \
                         (IF log'[l].turn = turn' /\ phase' = "recall" THEN todo' ELSE {}))
    <3>1. CASE l \in ChatsIn(log)
      <4>1. /\ log'[l].turn = log[l].turn /\ log[l].turn # turn'
            /\ NamesIn(log', RecallsIn(log', log[l].turn), BatteryOf(log[l].turn))
        BY <1>18, <3>1
      <4>2. BatteryOf(log[l].turn) \ {} = BatteryOf(log[l].turn)
        OBVIOUS
      <4> QED
        BY <4>1, <4>2
    <3>2. CASE l = n
      <4>1. log'[l].turn = turn'
        BY <1>2, <1>10, <1>20, <3>2
      <4>2. BatteryOf(turn') \ (IF phase' = "recall" THEN todo' ELSE {}) = {}
        BY <1>26
      <4>3. NamesIn(log', {}, {})
        BY DEF NamesIn
      <4> QED
        BY <1>18, <4>1, <4>2, <4>3
    <3> QED
      BY <1>19, <3>1, <3>2
  <2>2. phase' = "recall" =>
          /\ todo' # {} /\ todo' \subseteq BatteryOf(turn')
          /\ \A l \in RecallsIn(log', turn') : \A i \in todo' : log'[l].id < i
    BY <1>18, <1>26, <1>27
  <2>3. /\ phase' \in {"corpus", "chat", "done"} => todo' = {}
        /\ phase' \in {"recall", "final"} => todo' \subseteq 0..(Len(canaries') - 1)
    BY <1>26, <1>27
  <2> QED
    BY <2>1, <2>2, <2>3 DEF BatteriesAsked
<1>29. PassesAsked'
  BY <1>18, <1>26
<1>30. ChatType'
  <2>1. todo' \in SUBSET Nat
    BY <1>25, <1>26, <1>27
  <2>2. degenTurn' \in Nat /\ turn' \in Nat
    BY <1>2, <1>3, <1>22 DEF ChatType
  <2>3. effort' \in 0..Len(Efforts)
    BY <1>2, <1>3 DEF ChatType
  <2> QED
    BY <1>2, <1>8, <1>20, <1>22, <1>26, <2>1, <2>2, <2>3 DEF ChatType
<1>31. CorpusInv(streams, next, chunks)' /\ (phase' = "corpus" => streams' # <<>>)
  BY <1>2, <1>3, <1>26
<1> QED
  BY <1>18, <1>21, <1>23, <1>28, <1>29, <1>30, <1>31 DEF ChatInv

\* A turn that fails.
LEMMA ReplyErrorStep ==
  ASSUME ChatConstants, ChatInv, Chat!ReplyError
  PROVE  ChatInv'
<1>1. PICK note : NextTurn(note)
  BY AskStep DEF Chat!ReplyError
<1>2. /\ phase = "chat" /\ turn \in Nat /\ turn' = turn + 1
      /\ ErrorsIn(log) = {} /\ Len(messages) = 2 * turn /\ todo = {} /\ effort = 0
      /\ effort' = effort /\ streams' = streams /\ next' = next /\ chunks' = chunks
      /\ canaries' \in Seq([topic : Int, turn : Nat])
  BY <1>1 DEF NextTurn
<1>3. /\ ChatType /\ PairsKept /\ BatteriesAsked /\ FlagsKept
      /\ CorpusInv(streams, next, chunks)
  BY DEF ChatInv
<1>4. /\ messages \in Seq(Turns) /\ log \in Seq(Records) /\ effort \in Nat
      /\ Len(messages) \in Nat
  <2>1. messages \in Seq(Turns) /\ log \in Seq(Records) /\ effort \in Nat
    BY <1>2, <1>3 DEF ChatType
  <2> QED
    BY <2>1, LenProperties
<1> DEFINE r == TurnRecord("ERROR", -1, Len(messages), FALSE)
           n == Len(log) + 1
<1>5. /\ messages' = messages /\ phase' = "final" /\ todo' = {}
      /\ degenTurn' = degenTurn /\ over' = over
  BY DEF Chat!ReplyError, Chat!AfterError
<1>6. /\ r.kind = "ERROR" /\ r.turn = turn + 1 /\ r.flag = FALSE
  BY DEF TurnRecord
<1>7. r \in Records
  BY <1>2, <1>4 DEF TurnRecord, Records
<1>8. log' = Append(log, r)
  <2>1. log' = Chat!Logged("ERROR", -1, Len(messages'), FALSE)
    BY DEF Chat!ReplyError, Chat!NoNote
  <2> QED
    BY <1>2, <1>5, <2>1 DEF Chat!Logged, TurnRecord
<1> HIDE DEF r
<1>9. Grown(log, log', r, n)
  BY <1>4, <1>7, <1>8, RecordAdded
<1>10. Longer(messages, messages')
  BY <1>4, <1>5 DEF Longer
<1>11. /\ TurnsRecorded' /\ CanariesPlanted' /\ AskedFor'
       /\ \A l \in ChatsIn(log) :
            /\ log'[l] = log[l] /\ log[l].turn # turn'
            /\ Paired(messages', log[l].turn, log[l].id)
            /\ NamesIn(log', RecallsIn(log', log[l].turn), BatteryOf(log[l].turn))
       /\ PassesAsked'
  <2>1. messages' \in Seq(Turns)
    BY <1>4, <1>5
  <2>2. r.kind \in {"chat", "ERROR"} /\ (r.kind = "ERROR" => phase' = "final")
    BY <1>5, <1>6
  <2> QED
    BY <1>1, <1>5, <1>6, <1>9, <1>10, <2>1, <2>2, TurnRecorded
<1>12. ErrorsIn(log') = {n} /\ ChatsIn(log') = ChatsIn(log)
  <2>1. ErrorsIn(log') = ErrorsIn(log) \cup (IF r.kind = "ERROR" THEN {n} ELSE {})
    BY <1>9, KindsGrow
  <2>2. ChatsIn(log') = ChatsIn(log) \cup (IF r.kind = "chat" THEN {n} ELSE {})
    BY <1>9, KindsGrow
  <2> QED
    BY <1>2, <1>6, <2>1, <2>2
<1>13. log' \in Seq(Records)
  BY <1>9 DEF Grown
<1>14. FlagsKept'
  <2>1. r.flag => r.kind = "chat"
    BY <1>6
  <2>2. degenTurn' = IF r.flag /\ degenTurn = 0 THEN turn + 1 ELSE degenTurn
    BY <1>5, <1>6
  <2> QED
    BY <1>2, <1>6, <1>9, <2>1, <2>2, FlagsGrow
<1> HIDE DEF n
<1>15. PairsKept'
  <2>1. Len(messages') = 2 * (IF ErrorsIn(log') # {} THEN turn' - 1 ELSE turn')
    <3>1. ErrorsIn(log') # {} /\ turn' - 1 = turn
      BY <1>2, <1>12
    <3> QED
      BY <1>2, <1>5, <3>1
  <2>2. Len(messages') = 2 * Cardinality(ChatsIn(log'))
    BY <1>3, <1>5, <1>12 DEF PairsKept
  <2>3. \A l \in ChatsIn(log') : Paired(messages', log'[l].turn, log'[l].id)
    BY <1>11, <1>12
  <2> QED
    BY <2>1, <2>2, <2>3 DEF PairsKept
<1>16. BatteriesAsked'
  <2>1. ASSUME NEW l \in ChatsIn(log')
        PROVE  NamesIn(log', RecallsIn(log', log'[l].turn), BatteryOf(log'[l].turn) \ {})
    <3>1. /\ log'[l].turn = log[l].turn
          /\ NamesIn(log', RecallsIn(log', log[l].turn), BatteryOf(log[l].turn))
      BY <1>11, <1>12
    <3>2. BatteryOf(log[l].turn) \ {} = BatteryOf(log[l].turn)
      OBVIOUS
    <3> QED
      BY <3>1, <3>2
  <2> QED
    BY <1>5, <2>1 DEF BatteriesAsked
<1>17. ChatType'
  <2>1. turn' \in Nat /\ effort' \in 0..Len(Efforts)
    BY <1>2, <1>3 DEF ChatType
  <2>2. messages' \in Seq(Turns) /\ todo' \in SUBSET Nat /\ phase' = "final"
    BY <1>4, <1>5
  <2>3. degenTurn' \in Nat /\ over' \in BOOLEAN
    BY <1>3, <1>5 DEF ChatType
  <2> QED
    BY <1>2, <1>13, <2>1, <2>2, <2>3 DEF ChatType
<1>18. CorpusInv(streams, next, chunks)' /\ (phase' = "corpus" => streams' # <<>>)
  BY <1>2, <1>3, <1>5
<1> QED
  BY <1>11, <1>14, <1>15, <1>16, <1>17, <1>18 DEF ChatInv


-------------------------------------------------------------------------------
(* The invariant of the chat. *)

\* A corpus has one stream for each of its types, and no stream is empty.
LEMMA CorpusStarts ==
  ASSUME ChatConstants, NEW s \in Chat!Corpora
  PROVE  CorpusInv(s, 0, <<>>) /\ s # <<>>
<1> DEFINE C(K) == {[i \in 1..Len(order) |-> <<order[i], n[order[i]]>>] :
                      order \in Chat!SetToSeqs(K), n \in [K -> 1..MaxChunks]}
<1>1. PICK K \in (SUBSET Kinds) \ {{}} : s \in C(K)
  <2>1. s \in UNION {C(K) : K \in (SUBSET Kinds) \ {{}}}
    BY DEF Chat!Corpora
  <2> HIDE DEF C
  <2> QED
    BY <2>1
<1>2. PICK order \in Chat!SetToSeqs(K), n \in [K -> 1..MaxChunks] :
        s = [i \in 1..Len(order) |-> <<order[i], n[order[i]]>>]
  BY <1>1
<1>3. IsFiniteSet(K) /\ Cardinality(K) \in Nat /\ Cardinality(K) # 0
  <2>1. IsFiniteSet(Kinds)
    BY DEF ChatConstants
  <2>3. K \in SUBSET Kinds /\ K # {}
    BY <1>1
  <2>2. IsFiniteSet(K)
    BY <2>1, <2>3, FS_Subset
  <2> QED
    BY <2>3, <2>2, FS_CardinalityType, FS_EmptySet
<1> DEFINE m == Cardinality(K)
<1>4. /\ order \in [1..m -> K]
      /\ \A i, j \in 1..m : i # j => order[i] # order[j]
  BY DEF Chat!SetToSeqs, Chat!Cardinality, Cardinality
<1> HIDE DEF m
<1>5. m \in Nat \ {0}
  BY <1>3 DEF m
<1>6. Len(order) = m
  <2>1. order \in Seq(K)
    BY <1>4, <1>5
  <2> QED
    BY <1>4, <1>5, <2>1
<1>7. /\ s = [i \in 1..m |-> <<order[i], n[order[i]]>>]
      /\ \A i \in 1..m : s[i] \in Kinds \X (Nat \ {0}) /\ s[i][1] = order[i]
  <2>1. s = [i \in 1..m |-> <<order[i], n[order[i]]>>]
    BY <1>2, <1>6
  <2>2. ASSUME NEW i \in 1..m
        PROVE  s[i] \in Kinds \X (Nat \ {0}) /\ s[i][1] = order[i]
    <3>1. order[i] \in K /\ order[i] \in Kinds
      BY <1>4
    <3>2. n[order[i]] \in Nat \ {0}
      BY <3>1 DEF ChatConstants
    <3>3. s[i] = <<order[i], n[order[i]]>>
      BY <2>1
    <3> QED
      BY <3>1, <3>2, <3>3
  <2> QED
    BY <2>1, <2>2
<1>8. s \in Seq(Kinds \X (Nat \ {0})) /\ Len(s) = m /\ DOMAIN s = 1..m
  <2>1. s \in [1..m -> Kinds \X (Nat \ {0})]
    BY <1>7
  <2> QED
    BY <1>5, <2>1
<1>9. s # <<>>
  BY <1>5, <1>8
<1>10. CorpusType(s, 0, <<>>)
  BY <1>8 DEF CorpusType
<1>11. OneStreamEach(s)
  BY <1>4, <1>7, <1>8 DEF OneStreamEach
<1>12. Alternates(s, 0, <<>>)
  BY DEF Alternates
<1>13. LapsClose(s, 0, <<>>)
  <2>1. \A k : Uses(<<>>, k) = 0
    <3>1. \A k : {d \in DOMAIN <<>> : <<>>[d] = k} = {}
      OBVIOUS
    <3> QED
      BY <3>1, FS_EmptySet DEF Uses
  <2>2. Dried(<<>>, s) = 0
    <3>1. TypesOf(<<>>) \ Open(s) = {}
      BY DEF TypesOf
    <3> QED
      BY <3>1, FS_EmptySet DEF Dried
  <2>3. 0 % Len(s) = 0
    BY <1>5, <1>8
  <2>4. \A i \in DOMAIN s : BeforeLap(s, 0, <<>>, i) = 0
    BY <1>8, <2>1, <2>3 DEF BeforeLap
  <2> QED
    BY <2>2, <2>4 DEF LapsClose
<1> QED
  BY <1>9, <1>10, <1>11, <1>12, <1>13 DEF CorpusInv

LEMMA ChatInit ==
  ASSUME ChatConstants, Chat!Init
  PROVE  ChatInv
<1>1. /\ phase = "corpus" /\ streams \in Chat!Corpora
      /\ next = 0 /\ chunks = <<>> /\ turn = 0 /\ messages = <<>> /\ canaries = <<>>
      /\ log = <<>> /\ degenTurn = 0 /\ over = FALSE /\ todo = {} /\ effort = 0
  BY DEF Chat!Init, Chat!NoTurn
<1>2. CorpusInv(streams, next, chunks) /\ streams # <<>>
  BY <1>1, CorpusStarts
<1>3. DOMAIN log = {} /\ DOMAIN canaries = {} /\ Len(canaries) = 0 /\ Len(messages) = 0
  BY <1>1
<1>4. /\ TurnsIn(log) = {} /\ ChatsIn(log) = {} /\ ErrorsIn(log) = {}
      /\ \A e : PassIn(log, e) = {}
  BY <1>3 DEF TurnsIn, ChatsIn, ErrorsIn, PassIn
<1>5. ChatType
  <2>1. Len(Efforts) \in Nat
    BY DEF ChatConstants
  <2>2. messages \in Seq(Turns) /\ canaries \in Seq([topic : Int, turn : Nat]) /\ log \in Seq(Records)
    BY <1>1
  <2>3. /\ phase \in {"corpus", "chat", "recall", "final", "done"}
        /\ turn \in Nat /\ degenTurn \in Nat /\ todo \in SUBSET Nat
        /\ effort \in 0..Len(Efforts)
    BY <1>1, <2>1
  <2>4. over \in BOOLEAN
    BY <1>1
  <2> QED
    BY <2>2, <2>3, <2>4 DEF ChatType
<1>6. TurnsRecorded
  BY <1>1, <1>3, <1>4 DEF TurnsRecorded
<1>7. PairsKept
  BY <1>1, <1>3, <1>4, FS_EmptySet DEF PairsKept
<1>8. CanariesPlanted
  <2>1. 0 \div CanaryEvery = 0
    BY DEF ChatConstants
  <2> QED
    BY <1>1, <1>3, <2>1 DEF CanariesPlanted
<1>9. AskedFor
  BY <1>3 DEF AskedFor
<1>10. BatteriesAsked
  BY <1>1, <1>4 DEF BatteriesAsked
<1>11. PassesAsked
  <2>1. \A e \in 1..Len(Efforts) : ~(e < effort) /\ e # effort
    BY <1>1 DEF ChatConstants
  <2>2. \A e : NamesIn(log, PassIn(log, e), {})
    BY <1>4 DEF NamesIn
  <2> QED
    BY <1>1, <1>3, <2>1, <2>2 DEF PassesAsked
<1>12. FlagsKept
  BY <1>1, <1>3 DEF FlagsKept
<1> QED
  BY <1>1, <1>2, <1>5, <1>6, <1>7, <1>8, <1>9, <1>10, <1>11, <1>12 DEF ChatInv

LEMMA ChatNext ==
  ASSUME ChatConstants, ChatInv, [Chat!Next]_(Chat!vars)
  PROVE  ChatInv'
<1>1. CASE Chat!PopChunk
  BY <1>1, PopChunkStep
<1>2. ASSUME NEW flag \in BOOLEAN, Chat!Reply(flag)
      PROVE  ChatInv'
  BY <1>2, ReplyStep
<1>3. ASSUME NEW flag \in BOOLEAN, Chat!Recall(flag)
      PROVE  ChatInv'
  BY <1>3, RecallStep
<1>4. ASSUME NEW flag \in BOOLEAN, Chat!FinalProbe(flag)
      PROVE  ChatInv'
  BY <1>4, FinalProbeStep
<1>5. CASE Chat!ReplyError
  BY <1>5, ReplyErrorStep
<1>6. CASE Chat!StopChat
  BY <1>6, StopChatStep
<1>7. CASE Chat!StartPass
  BY <1>7, StartPassStep
<1>8. CASE Chat!Summarise
  BY <1>8, SummariseStep
<1>9. CASE UNCHANGED Chat!vars
  <2>1. /\ phase' = phase /\ streams' = streams /\ next' = next /\ chunks' = chunks
        /\ turn' = turn /\ messages' = messages /\ canaries' = canaries /\ log' = log
        /\ degenTurn' = degenTurn /\ over' = over /\ todo' = todo /\ effort' = effort
    BY <1>9 DEF Chat!vars
  <2>2. ChatType' /\ BatteriesAsked' /\ PassesAsked'
    <3>1. ChatType'
      BY <2>1 DEF ChatInv, ChatType
    <3>2. BatteriesAsked'
      BY <2>1 DEF ChatInv, BatteriesAsked
    <3>3. PassesAsked'
      BY <2>1 DEF ChatInv, PassesAsked
    <3> QED
      BY <3>1, <3>2, <3>3
  <2>3. TurnsRecorded' /\ PairsKept' /\ CanariesPlanted' /\ AskedFor' /\ FlagsKept'
    BY <2>1, StillKeeps DEF Still
  <2> QED
    BY <2>1, <2>2, <2>3 DEF ChatInv
<1> QED
  BY <1>1, <1>2, <1>3, <1>4, <1>5, <1>6, <1>7, <1>8, <1>9 DEF Chat!Next

LEMMA ChatInvariant ==
  ASSUME ChatConstants
  PROVE  Chat!Spec => []ChatInv
<1>1. Chat!Init => ChatInv
  BY ChatInit
<1>2. ChatInv /\ [Chat!Next]_(Chat!vars) => ChatInv'
  BY ChatNext
<1> QED
  BY <1>1, <1>2, PTL DEF Chat!Spec

\* The records as the properties name them.
LEMMA SameRecords ==
  ASSUME TRUE
  PROVE  /\ Chat!Chats = ChatsIn(log) /\ Chat!ChatRecords = TurnsIn(log)
         /\ {l \in Chat!Errors : log[l].kind = "ERROR"} = ErrorsIn(log)
         /\ \A t : {l \in Chat!Recalls \cup Chat!Errors : log[l].turn = t /\ log[l].kind # "ERROR"}
                     = RecallsIn(log, t)
         /\ \A R, ids : Chat!Names(R, ids) <=> NamesIn(log, R, ids)
<1>1. Chat!Chats = ChatsIn(log)
  BY DEF Chat!Chats, ChatsIn
<1>2. Chat!ChatRecords = TurnsIn(log)
  BY DEF Chat!ChatRecords, TurnsIn
<1>3. {l \in Chat!Errors : log[l].kind = "ERROR"} = ErrorsIn(log)
  BY DEF Chat!Errors, Chat!IsError, ErrorsIn
<1>4. \A t : {l \in Chat!Recalls \cup Chat!Errors : log[l].turn = t /\ log[l].kind # "ERROR"}
               = RecallsIn(log, t)
  BY DEF Chat!Recalls, Chat!Errors, Chat!IsError, RecallsIn
<1>5. \A R, ids : Chat!Names(R, ids) <=> NamesIn(log, R, ids)
  BY DEF Chat!Names, NamesIn
<1> QED
  BY <1>1, <1>2, <1>3, <1>4, <1>5

LEMMA InterleavedHolds ==
  ASSUME ChatConstants, ChatInv
  PROVE  Chat!Interleaved
<1>1. CorpusInv(streams, next, chunks)
  BY DEF ChatInv
<1>2. \A d \in 1..(Len(chunks) - 1) :
        chunks[d] = chunks[d + 1] => \A e \in d..Len(chunks) : chunks[e] = chunks[d]
  BY <1>1 DEF CorpusInv, Alternates
<1>3. ASSUME NEW k \in Chat!InUse, NEW l \in Chat!InUse
      PROVE  Chat!Count(k) - Chat!Count(l) <=
               1 + Chat!Cardinality(Chat!ToSet(chunks) \ Chat!InUse)
  <2>1. PICK i \in DOMAIN streams, j \in DOMAIN streams : k = streams[i][1] /\ l = streams[j][1]
    BY DEF Chat!InUse
  <2>2. Uses(chunks, k) - Uses(chunks, l) <= 1 + Dried(chunks, streams)
    BY <1>1, <2>1, LapsBound
  <2>3. Chat!Count(k) = Uses(chunks, k) /\ Chat!Count(l) = Uses(chunks, l)
    BY DEF Chat!Count, Chat!Cardinality, Cardinality, Uses
  <2>4. Chat!ToSet(chunks) \ Chat!InUse = TypesOf(chunks) \ Open(streams)
    BY DEF Chat!ToSet, Chat!InUse, TypesOf, Open
  <2>5. Chat!Cardinality(Chat!ToSet(chunks) \ Chat!InUse) = Dried(chunks, streams)
    BY <2>4 DEF Chat!Cardinality, Cardinality, Dried
  <2> QED
    BY <2>2, <2>3, <2>5
<1> QED
  BY <1>2, <1>3 DEF Chat!Interleaved

LEMMA TranscriptHolds ==
  ASSUME ChatInv
  PROVE  Chat!TranscriptMatchesLog
<1>1. /\ {log[l].turn : l \in TurnsIn(log)} = 1..turn
      /\ \A l, m \in TurnsIn(log) : l < m => log[l].turn < log[m].turn
  BY DEF ChatInv, TurnsRecorded
<1>2. Len(messages) = 2 * Cardinality(ChatsIn(log))
  BY DEF ChatInv, PairsKept
<1>3. Len(messages) = 2 * Chat!Cardinality(Chat!Chats)
  BY <1>2, SameRecords DEF Chat!Cardinality, Cardinality
<1>4. ASSUME NEW l \in Chat!Chats
      PROVE  /\ 2 * log[l].turn <= Len(messages)
             /\ messages[2 * log[l].turn - 1] = Chat!Said("user", log[l].id)
             /\ messages[2 * log[l].turn] = Chat!Said("assistant", Chat!NoNote)
  <2>1. l \in ChatsIn(log)
    BY SameRecords
  <2>2. Paired(messages, log[l].turn, log[l].id)
    BY <2>1 DEF ChatInv, PairsKept
  <2> QED
    BY <2>2 DEF Paired
<1>5. Chat!ChatRecords = TurnsIn(log)
  BY SameRecords
<1> QED
  BY <1>1, <1>3, <1>4, <1>5 DEF Chat!TranscriptMatchesLog

LEMMA PlantedHolds ==
  ASSUME ChatInv
  PROVE  Chat!ProbesPlanted
<1> SUFFICES ASSUME NEW l \in DOMAIN log, log[l].kind \notin {"chat", "ERROR"}
             PROVE  /\ log[l].id + 1 \in DOMAIN canaries
                    /\ LET c == canaries[log[l].id + 1]
                       IN  \/ /\ 2 * c.turn <= log[l].ctx
                              /\ messages[2 * c.turn - 1].note = log[l].id
                           \/ /\ log[l].kind \in {"final_probe", "final_probe_error"}
                              /\ \E e \in DOMAIN log : log[e].kind = "ERROR" /\ log[e].turn = c.turn
  BY DEF Chat!ProbesPlanted
<1>1. l \in DOMAIN log \ TurnsIn(log)
  BY DEF TurnsIn
<1>2. /\ log[l].id + 1 \in DOMAIN canaries
      /\ \/ NoteIn(messages, log[l].id, canaries[log[l].id + 1].turn, log[l].ctx)
         \/ /\ log[l].kind \in {"final_probe", "final_probe_error"}
            /\ FailedIn(log, canaries[log[l].id + 1].turn)
  BY <1>1 DEF ChatInv, AskedFor
<1> QED
  BY <1>2 DEF NoteIn, FailedIn

LEMMA PairedHolds ==
  ASSUME ChatConstants, ChatInv
  PROVE  Chat!PairedProbe
<1> SUFFICES ASSUME phase = "done", NEW e \in 1..Len(Efforts)
             PROVE  /\ NamesIn(log, PassIn(log, e), 0..(Len(canaries) - 1))
                    /\ \A l \in PassIn(log, e) : log[l].ctx = Len(messages)
  <2>1. \A e \in 1..Len(Efforts) :
          {l \in DOMAIN log : /\ log[l].kind \in {"final_probe", "final_probe_error"}
                              /\ log[l].effort = e} = PassIn(log, e)
    BY DEF PassIn
  <2> QED
    BY <2>1, SameRecords DEF Chat!PairedProbe
<1> DEFINE all == 0..(Len(canaries) - 1)
           ids == IF e < effort THEN all ELSE IF e = effort THEN all \ todo ELSE {}
<1>1. NamesIn(log, PassIn(log, e), ids)
  BY DEF ChatInv, PassesAsked
<1>2. todo = {} /\ (canaries = <<>> \/ effort = Len(Efforts))
  BY DEF ChatInv, PassesAsked, BatteriesAsked
<1>3. ids = all
  <2>1. CASE canaries = <<>>
    <3>1. all = {}
      BY <2>1
    <3> HIDE DEF all
    <3> QED
      BY <3>1
  <2>2. CASE effort = Len(Efforts)
    <3>1. e < effort \/ e = effort
      BY <2>2 DEF ChatConstants
    <3> HIDE DEF all
    <3> QED
      BY <1>2, <3>1
  <2> QED
    BY <1>2, <2>1, <2>2
<1> HIDE DEF ids, all
<1>4. NamesIn(log, PassIn(log, e), all)
  BY <1>1, <1>3
<1>5. \A l \in PassIn(log, e) : log[l].ctx = Len(messages)
  BY DEF ChatInv, PassesAsked, PassIn
<1> QED
  BY <1>4, <1>5 DEF all

LEMMA DegenerateHolds ==
  ASSUME ChatInv
  PROVE  Chat!FirstDegenerateTurn
<1> DEFINE flagged == {log[l].turn : l \in {m \in DOMAIN log : log[m].flag}}
<1>1. /\ \A l \in DOMAIN log : log[l].flag => degenTurn <= log[l].turn
      /\ degenTurn = 0 => \A l \in DOMAIN log : ~log[l].flag
      /\ degenTurn # 0 => \E l \in DOMAIN log : log[l].flag /\ log[l].turn = degenTurn
  BY DEF ChatInv, FlagsKept
<1>2. degenTurn \in Nat /\ \A l \in DOMAIN log : log[l].turn \in Nat
  <2>1. degenTurn \in Nat /\ log \in Seq(Records)
    BY DEF ChatInv, ChatType
  <2>2. \A l \in DOMAIN log : log[l] \in Records
    BY <2>1
  <2> QED
    BY <2>1, <2>2 DEF Records
<1>3. CASE degenTurn = 0
  <2>1. flagged = {}
    BY <1>1, <1>3
  <2> QED
    BY <1>3, <2>1 DEF Chat!FirstDegenerateTurn, Chat!NoTurn
<1>4. CASE degenTurn # 0
  <2>1. degenTurn \in flagged
    BY <1>1, <1>4
  <2>2. \A t \in flagged : t \in Nat /\ degenTurn <= t
    BY <1>1, <1>2
  <2> HIDE DEF flagged
  <2>3. flagged \in SUBSET Nat /\ flagged # {}
    BY <2>1, <2>2
  <2>4. Chat!Min(flagged) \in flagged /\ Chat!Min(flagged) <= degenTurn
    BY <2>1, <2>3, LeastOf
  <2>5. Chat!Min(flagged) = degenTurn
    BY <1>2, <2>2, <2>4
  <2> QED
    BY <2>3, <2>5 DEF Chat!FirstDegenerateTurn, flagged
<1> QED
  BY <1>3, <1>4

LEMMA AnalysisHolds ==
  ASSUME ChatInv
  PROVE  Chat!AnalysisAgrees
<1> SUFFICES ASSUME phase = "done"
             PROVE  Chat!AnalysisAgrees
  BY DEF Chat!AnalysisAgrees
<1>1. /\ log \in Seq(Records) /\ turn \in Nat /\ degenTurn \in Nat
      /\ \A l \in DOMAIN log : l \in Nat /\ log[l].turn \in Nat
  <2>1. log \in Seq(Records) /\ turn \in Nat /\ degenTurn \in Nat
    BY DEF ChatInv, ChatType
  <2>2. \A l \in DOMAIN log : l \in Nat /\ log[l] \in Records
    BY <2>1
  <2> QED
    BY <2>1, <2>2 DEF Records
<1>2. \A l, m \in TurnsIn(log) : l < m => log[l].turn < log[m].turn
  BY DEF ChatInv, TurnsRecorded
<1>3. ChatsIn(log) \subseteq TurnsIn(log) /\ ErrorsIn(log) \subseteq TurnsIn(log)
      /\ TurnsIn(log) \subseteq DOMAIN log
  BY KindsInside
<1>4. Cardinality(ChatsIn(log)) + Cardinality(ErrorsIn(log)) = turn
  <2>1. /\ Len(messages) = 2 * (IF ErrorsIn(log) # {} THEN turn - 1 ELSE turn)
        /\ Len(messages) = 2 * Cardinality(ChatsIn(log))
    BY DEF ChatInv, PairsKept
  <2>2. IsFiniteSet(ChatsIn(log)) /\ Cardinality(ChatsIn(log)) \in Nat
    <3>1. IsFiniteSet(1..Len(log)) /\ ChatsIn(log) \in SUBSET (1..Len(log))
      <4>1. DOMAIN log = 1..Len(log) /\ Len(log) \in Nat
        BY <1>1
      <4> QED
        BY <1>3, <4>1, FS_Interval
    <3> QED
      BY <3>1, FS_Subset, FS_CardinalityType
  <2>3. CASE ErrorsIn(log) = {}
    BY <1>1, <2>1, <2>2, <2>3, FS_EmptySet
  <2>4. CASE ErrorsIn(log) # {}
    <3>1. PICK x : x \in ErrorsIn(log)
      BY <2>4
    <3>2. \A l \in ErrorsIn(log) : log[l].turn = turn
      BY DEF ChatInv, TurnsRecorded
    <3>3. ASSUME NEW y \in ErrorsIn(log)
          PROVE  y = x
      <4>1. x \in Nat /\ y \in Nat /\ x \in TurnsIn(log) /\ y \in TurnsIn(log)
        BY <1>1, <1>3, <3>1
      <4>2. ~(x < y) /\ ~(y < x)
        BY <1>1, <1>2, <3>1, <3>2, <4>1
      <4> QED
        BY <4>1, <4>2
    <3>4. ErrorsIn(log) = {x}
      BY <3>1, <3>3
    <3>5. Cardinality(ErrorsIn(log)) = 1
      BY <3>4, FS_Singleton
    <3> QED
      BY <1>1, <2>1, <2>2, <2>4, <3>5
  <2> QED
    BY <2>3, <2>4
<1>5. Chat!FirstFlagged = degenTurn
  <2> DEFINE flagged == {l \in Chat!Chats : log[l].flag}
  <2>1. /\ \A l \in DOMAIN log : log[l].flag => log[l].kind = "chat" /\ degenTurn <= log[l].turn
        /\ degenTurn = 0 => \A l \in DOMAIN log : ~log[l].flag
        /\ degenTurn # 0 => \E l \in DOMAIN log : log[l].flag /\ log[l].turn = degenTurn
    BY DEF ChatInv, FlagsKept
  <2>2. Chat!Chats = ChatsIn(log)
    BY SameRecords
  <2>3. flagged = {l \in DOMAIN log : log[l].flag} /\ flagged \subseteq ChatsIn(log)
    BY <2>1, <2>2 DEF ChatsIn
  <2>4. Chat!FirstFlagged = IF flagged = {} THEN 0 ELSE log[Chat!Min(flagged)].turn
    BY DEF Chat!FirstFlagged, Chat!NoTurn
  <2> HIDE DEF flagged
  <2>5. CASE degenTurn = 0
    BY <2>1, <2>3, <2>4, <2>5
  <2>6. CASE degenTurn # 0
    <3>1. PICK w \in flagged : log[w].turn = degenTurn
      BY <2>1, <2>3, <2>6
    <3>2. flagged \in SUBSET Nat /\ flagged # {}
      BY <1>1, <2>3, <3>1
    <3>3. PICK f \in flagged : f = Chat!Min(flagged) /\ f <= w /\ f \in Nat /\ w \in Nat
      BY <3>1, <3>2, LeastOf
    <3>4. f = w \/ log[f].turn < log[w].turn
      BY <1>2, <1>3, <2>3, <3>3
    <3>5. log[f].turn \in Nat /\ degenTurn <= log[f].turn
      BY <1>1, <2>1, <2>3
    <3>6. log[f].turn = degenTurn
      BY <1>1, <3>1, <3>4, <3>5
    <3> QED
      BY <2>4, <3>2, <3>3, <3>6
  <2> QED
    BY <2>5, <2>6
<1>6. ASSUME NEW c \in Chat!Chats
      PROVE  NamesIn(log, RecallsIn(log, log[c].turn), BatteryOf(log[c].turn))
  <2>1. c \in ChatsIn(log)
    BY SameRecords
  <2>2. NamesIn(log, RecallsIn(log, log[c].turn), BatteryOf(log[c].turn) \ {})
    BY <2>1 DEF ChatInv, BatteriesAsked
  <2>3. BatteryOf(log[c].turn) \ {} = BatteryOf(log[c].turn)
    OBVIOUS
  <2> QED
    BY <2>2, <2>3
<1>7. Chat!Cardinality(Chat!Chats)
        + Chat!Cardinality({l \in Chat!Errors : log[l].kind = "ERROR"}) = turn
  BY <1>4, SameRecords DEF Chat!Cardinality, Cardinality
<1>8. ASSUME NEW c \in Chat!Chats
      PROVE  LET t == log[c].turn
                 n == t \div CanaryEvery
             IN  Chat!Names({l \in Chat!Recalls \cup Chat!Errors :
                               log[l].turn = t /\ log[l].kind # "ERROR"},
                   IF n > 0 /\ t % RecallEvery = 0
                   THEN {0, n \div 4, n \div 2, (3 * n) \div 4, n - 1} ELSE {})
  <2> DEFINE t == log[c].turn
             n == t \div CanaryEvery
             ids == IF n > 0 /\ t % RecallEvery = 0
                    THEN {0, n \div 4, n \div 2, (3 * n) \div 4, n - 1} ELSE {}
             R == {l \in Chat!Recalls \cup Chat!Errors : log[l].turn = t /\ log[l].kind # "ERROR"}
  <2>1. BatteryOf(t) = ids
    BY DEF BatteryOf, Chat!Battery
  <2>2. R = RecallsIn(log, t)
    BY SameRecords
  <2>3. NamesIn(log, RecallsIn(log, t), BatteryOf(t))
    BY <1>6
  <2> HIDE DEF t, ids, R
  <2>4. Chat!Names(R, ids)
    BY <2>1, <2>2, <2>3, SameRecords
  <2> QED
    BY <2>4 DEF t, ids, R
<1> QED
  BY <1>5, <1>7, <1>8 DEF Chat!AnalysisAgrees

\* For every corpus, every planting and recall period and any number of calls that
\* fail: the conversation and the JSONL file agree after every call, the summary's
\* first degenerate turn is the first flagged one, and the analyser finds in the
\* finished file the turns, the degenerate turn and the batteries of the run
\* (bench_chat_accumulate.py's main, analyze_accum.py's analyze).
THEOREM ChatAccounts ==
  ASSUME ChatConstants
  PROVE  Chat!Spec => [](Chat!TranscriptMatchesLog /\ Chat!FirstDegenerateTurn
                         /\ Chat!AnalysisAgrees)
<1>1. ChatInv => Chat!TranscriptMatchesLog /\ Chat!FirstDegenerateTurn /\ Chat!AnalysisAgrees
  BY TranscriptHolds, DegenerateHolds, AnalysisHolds
<1>2. Chat!Spec => []ChatInv
  BY ChatInvariant
<1> QED
  BY <1>1, <1>2, PTL

\* Depth is all that a probe at a late turn measures: the corpus alternates its
\* content types for as long as two are left, however its streams run dry; every
\* note asked for was planted, in the turn its canary names; and the passes of the
\* final probe ask for the same notes over the same conversation (chunk_docs,
\* recall and paired_probe of bench_chat_accumulate.py).
THEOREM DepthAlone ==
  ASSUME ChatConstants
  PROVE  Chat!Spec => [](Chat!Interleaved /\ Chat!ProbesPlanted /\ Chat!PairedProbe)
<1>1. ChatInv => Chat!Interleaved /\ Chat!ProbesPlanted /\ Chat!PairedProbe
  BY InterleavedHolds, PlantedHolds, PairedHolds
<1>2. Chat!Spec => []ChatInv
  BY ChatInvariant
<1> QED
  BY <1>1, <1>2, PTL

-------------------------------------------------------------------------------
(* phase0_repro.py: the wire. *)

CONSTANTS Replies, Heads, Wanted, MaxTurns
VARIABLES arm, armTurn, armPhase, slots, sent, served, tcs, finish, rows, msgs, disk

P0 == INSTANCE Phase0 WITH turn <- armTurn, phase <- armPhase, fs <- disk

\* The calls of a reply and the pieces of their arguments come in order, and a
\* call with its closing tag has all its arguments.
ReplyConstants ==
  \A r \in Replies :
    /\ IsSeq(r.slots)
    /\ \A i \in DOMAIN r.slots :
         /\ IsSeq(r.slots[i].args)
         /\ r.slots[i].closed => P0!Complete(r.slots[i].args)

\* What the server has generated is a reply.
Generated ==
  /\ IsSeq(slots)
  /\ \A i \in DOMAIN slots :
       /\ IsSeq(slots[i].args)
       /\ slots[i].closed => P0!Complete(slots[i].args)

\* Only arm L streams, once.
Phases ==
  /\ armPhase = "stream" => arm = "L"
  /\ arm = "L" /\ armPhase # "done" => finish = "none" /\ rows = <<>>
  /\ arm = "L" /\ armPhase = "ask" => slots = <<>>

\* What has been sent of each call.
WireType ==
  arm = "L" =>
    /\ DOMAIN sent = DOMAIN slots
    /\ \A i \in DOMAIN slots : sent[i] \in -1..Len(slots[i].args)
    /\ DOMAIN tcs \subseteq DOMAIN slots

\* The invariant of the wire: what the server generated, how much of it was sent, and
\* what the client holds.
WireInv == Generated /\ Phases /\ WireType /\ P0!AssembledByIndex /\ P0!TruncationSeen

LEMMA WireInit == P0!Init => WireInv
<1> SUFFICES ASSUME P0!Init PROVE WireInv
  OBVIOUS
<1>0. <<>> \in Seq({}) /\ DOMAIN <<>> = 1..0 /\ 1..0 = {}
  OBVIOUS
<1> USE DEF P0!Init
<1>1. slots = <<>> /\ DOMAIN slots = {} /\ IsSeq(slots) /\ sent = <<>>
  BY <1>0 DEF IsSeq
<1>2. Generated /\ Phases
  BY <1>1 DEF Generated, Phases
<1>3. WireType
  BY <1>1 DEF WireType, P0!NoSlots
<1>4. P0!AssembledByIndex /\ P0!TruncationSeen
  BY <1>1 DEF P0!AssembledByIndex, P0!TruncationSeen
<1> QED
  BY <1>2, <1>3, <1>4 DEF WireInv

\* A new reply has nothing on the wire.
LEMMA AskWire ==
  ASSUME ReplyConstants, WireInv, NEW reply \in Replies, P0!Ask(reply)
  PROVE  WireInv'
<1>1. /\ armPhase = "ask" /\ armPhase' \in {"stream", "answer"} /\ arm' = arm
      /\ slots' = reply.slots /\ sent' = [i \in DOMAIN reply.slots |-> -1]
      /\ tcs' = P0!NoSlots /\ finish' = finish /\ rows' = rows
      /\ armPhase' = "stream" => arm = "L"
  BY DEF P0!Ask
<1>2. Generated'
  BY <1>1 DEF Generated, ReplyConstants, P0!Complete
<1>3. Phases'
  BY <1>1 DEF WireInv, Phases
<1>4. \A i \in DOMAIN slots' : Len(slots'[i].args) \in Nat
  BY <1>2, SeqAppend DEF Generated
<1>5. WireType'
  BY <1>1, <1>4 DEF WireType, P0!NoSlots
<1>6. P0!AssembledByIndex'
  BY <1>1 DEF P0!AssembledByIndex, P0!NoSlots
<1>7. P0!TruncationSeen'
  BY <1>1, <1>3 DEF WireInv, Phases, P0!TruncationSeen
<1> QED
  BY <1>2, <1>3, <1>5, <1>6, <1>7 DEF WireInv

\* A failed exchange decides nothing.
LEMMA ErrorWire == WireInv /\ P0!NetError => WireInv'
<1> SUFFICES ASSUME WireInv, P0!NetError PROVE WireInv'
  OBVIOUS
<1>1. /\ armPhase \in {"stream", "answer"} /\ armPhase' \in {"ask", "done"}
      /\ arm # "R" => armPhase' = "done"
      /\ UNCHANGED <<arm, slots, sent, served, tcs, finish>>
  BY DEF P0!NetError
<1>2. Generated' /\ WireType' /\ P0!AssembledByIndex'
  BY <1>1 DEF WireInv, Generated, WireType, P0!AssembledByIndex, P0!Complete
<1>3. Phases' /\ P0!TruncationSeen'
  BY <1>1 DEF WireInv, Phases, P0!TruncationSeen
<1> QED
  BY <1>2, <1>3 DEF WireInv

\* What filling a slot does to it, and to the others.
LEMMA FilledName ==
  ASSUME NEW old, NEW i, NEW name, NEW piece
  PROVE  P0!Filled(old, i, name, piece)[i].name
           = IF name = "" THEN P0!Slot(old, i).name ELSE name
<1> DEFINE n == IF name = "" THEN P0!Slot(old, i).name ELSE name
           a == P0!Slot(old, i).args \o piece
<1>1. P0!Filled(old, i, name, piece)[i] = [name |-> n, args |-> a]
  BY DEF P0!Filled
<1> HIDE DEF n, a
<1>2. P0!Filled(old, i, name, piece)[i].name = n
  BY <1>1
<1> QED
  BY <1>2 DEF n

LEMMA FilledArgs ==
  ASSUME NEW old, NEW i, NEW name, NEW piece
  PROVE  P0!Filled(old, i, name, piece)[i].args = P0!Slot(old, i).args \o piece
<1> DEFINE n == IF name = "" THEN P0!Slot(old, i).name ELSE name
           a == P0!Slot(old, i).args \o piece
<1>1. P0!Filled(old, i, name, piece)[i] = [name |-> n, args |-> a]
  BY DEF P0!Filled
<1> HIDE DEF n, a
<1>2. P0!Filled(old, i, name, piece)[i].args = a
  BY <1>1
<1> QED
  BY <1>2 DEF a

LEMMA FilledRest ==
  ASSUME NEW old, NEW i, NEW name, NEW piece
  PROVE  /\ DOMAIN P0!Filled(old, i, name, piece) = DOMAIN old \cup {i}
         /\ \A j \in DOMAIN old : j # i => P0!Filled(old, i, name, piece)[j] = old[j]
BY DEF P0!Filled

\* A piece goes to the end of its own call.
LEMMA ChunkWire ==
  ASSUME WireInv, NEW i \in DOMAIN slots, P0!Chunk(i)
  PROVE  WireInv'
<1>0. Generated /\ Phases /\ WireType /\ P0!AssembledByIndex /\ P0!TruncationSeen
  BY DEF WireInv
<1>1. /\ armPhase = "stream" /\ sent[i] < Len(slots[i].args)
      /\ sent' = [sent EXCEPT ![i] = sent[i] + 1]
      /\ tcs' = IF sent[i] = -1 THEN P0!Merge(tcs, i, slots[i].name, <<>>)
                ELSE P0!Merge(tcs, i, "", <<slots[i].args[sent'[i]]>>)
      /\ UNCHANGED <<arm, armPhase, slots, served, finish, rows>>
  BY DEF P0!Chunk
<1>2. arm = "L" /\ finish = "none"
  BY <1>0, <1>1 DEF Phases
<1>3. PICK S : slots[i].args \in Seq(S)
  BY <1>0 DEF Generated, IsSeq
<1> DEFINE a == slots[i].args
           n == sent[i]
<1>4. /\ DOMAIN sent = DOMAIN slots
      /\ \A j \in DOMAIN slots : sent[j] \in -1..Len(slots[j].args)
      /\ DOMAIN tcs \subseteq DOMAIN slots
  BY <1>0, <1>2 DEF WireType
<1>5. /\ n \in Int /\ n >= -1 /\ n < Len(a) /\ Len(a) \in Nat /\ sent'[i] = n + 1
      /\ \A j \in DOMAIN slots : j # i => sent'[j] = sent[j]
  <2>1. Len(a) \in Nat /\ n \in -1..Len(a)
    BY <1>3, <1>4
  <2>2. n < Len(a)
    BY <1>1
  <2>3. sent'[i] = n + 1 /\ \A j \in DOMAIN slots : j # i => sent'[j] = sent[j]
    BY <1>1, <1>4
  <2> HIDE DEF a, n
  <2> QED
    BY <2>1, <2>2, <2>3
<1>6. \A j \in DOMAIN slots :
        /\ sent[j] >= 0 <=> j \in DOMAIN tcs
        /\ sent[j] >= 0 => /\ tcs[j].name = slots[j].name
                           /\ tcs[j].args = SubSeq(slots[j].args, 1, sent[j])
  BY <1>0, <1>2 DEF P0!AssembledByIndex
<1>7. /\ DOMAIN tcs' = DOMAIN tcs \cup {i}
      /\ \A j \in DOMAIN tcs : j # i => tcs'[j] = tcs[j]
  <2>1. PICK name, piece : tcs' = P0!Filled(tcs, i, name, piece)
    BY <1>1, Zenon DEF P0!Merge
  <2>2. DOMAIN tcs' = DOMAIN tcs \cup {i}
    BY <2>1, FilledRest
  <2>3. \A j \in DOMAIN tcs : j # i => tcs'[j] = tcs[j]
    BY <2>1 DEF P0!Filled
  <2> QED
    BY <2>2, <2>3
<1>8. tcs'[i].name = slots[i].name /\ tcs'[i].args = SubSeq(a, 1, n + 1)
  <2>1. CASE n = -1
    <3>1. i \notin DOMAIN tcs
      BY <1>5, <1>6, <2>1
    <3>2. P0!Slot(tcs, i) = P0!NoCall
      BY <3>1 DEF P0!Slot
    <3>3. P0!NoCall.name = "" /\ P0!NoCall.args = <<>>
      BY DEF P0!NoCall
    <3> DEFINE called == IF slots[i].name = "" THEN P0!NoCall.name ELSE slots[i].name
               args   == P0!NoCall.args \o <<>>
    <3>4. tcs'[i] = [name |-> called, args |-> args]
      BY <1>1, <2>1, <3>2 DEF P0!Merge, P0!Filled
    <3>5. tcs'[i].name = slots[i].name /\ tcs'[i].args = <<>> \o <<>>
      <4>1. called = slots[i].name /\ args = <<>> \o <<>>
        BY <3>3
      <4> HIDE DEF called, args
      <4>2. tcs'[i].name = called
        BY <3>4
      <4>3. tcs'[i].args = args
        BY <3>4
      <4> QED
        BY <4>1, <4>2, <4>3
    <3>6. <<>> \o <<>> = <<>> /\ SubSeq(a, 1, 0) = <<>>
      BY <1>3
    <3> QED
      BY <2>1, <3>5, <3>6
  <2>2. CASE n # -1
    <3>1. n >= 0 /\ i \in DOMAIN tcs
      BY <1>5, <1>6, <2>2
    <3>2. P0!Slot(tcs, i) = tcs[i]
      BY <3>1 DEF P0!Slot
    <3>3. tcs' = P0!Filled(tcs, i, "", <<a[n + 1]>>)
      BY <1>1, <1>5, <2>2 DEF P0!Merge
    <3>4. tcs'[i].name = tcs[i].name /\ tcs'[i].args = tcs[i].args \o <<a[n + 1]>>
      <4>1. tcs'[i].name = IF "" = "" THEN P0!Slot(tcs, i).name ELSE ""
        BY <3>3, FilledName
      <4>2. tcs'[i].args = P0!Slot(tcs, i).args \o <<a[n + 1]>>
        BY <3>3, FilledArgs
      <4> QED
        BY <3>2, <4>1, <4>2
    <3>5. tcs'[i].args = SubSeq(a, 1, n) \o <<a[n + 1]>>
      BY <1>6, <3>1, <3>4
    <3>6. SubSeq(a, 1, n) \o <<a[n + 1]>> = SubSeq(a, 1, n + 1)
      <4>1. a \in Seq(S) /\ n \in Nat /\ n + 1 \in 1..Len(a)
        BY <1>3, <1>5, <3>1
      <4> HIDE DEF a, n
      <4>2. a[n + 1] \in S
        BY <4>1
      <4>3. SubSeq(a, 1, n) \in Seq(S) /\ Len(SubSeq(a, 1, n)) = n
        BY <4>1
      <4>4. SubSeq(a, 1, n + 1) \in Seq(S) /\ Len(SubSeq(a, 1, n + 1)) = n + 1
        BY <4>1
      <4> DEFINE l == SubSeq(a, 1, n) \o <<a[n + 1]>>
      <4>5. l \in Seq(S) /\ Len(l) = n + 1
        BY <4>1, <4>2, <4>3
      <4>6. \A k \in 1..(n + 1) : l[k] = SubSeq(a, 1, n + 1)[k]
        BY <4>1, <4>2, <4>3
      <4> HIDE DEF l
      <4> QED
        BY <4>4, <4>5, <4>6, SeqEqual DEF l
    <3> QED
      BY <1>6, <3>1, <3>4, <3>5, <3>6
  <2> QED
    BY <2>1, <2>2
<1>9. WireType'
  <2>1. \A j \in DOMAIN slots : sent'[j] \in -1..Len(slots[j].args)
    BY <1>4, <1>5
  <2>2. DOMAIN sent' = DOMAIN slots
    BY <1>1, <1>4
  <2> QED
    BY <1>1, <1>4, <1>7, <2>1, <2>2 DEF WireType
<1>10. P0!AssembledByIndex'
  <2> SUFFICES ASSUME NEW j \in DOMAIN slots
               PROVE  /\ sent'[j] >= 0 <=> j \in DOMAIN tcs'
                      /\ sent'[j] >= 0 => /\ tcs'[j].name = slots[j].name
                                          /\ tcs'[j].args = SubSeq(slots[j].args, 1, sent'[j])
    BY <1>1 DEF P0!AssembledByIndex
  <2>1. CASE j = i
    BY <1>5, <1>7, <1>8, <2>1
  <2>2. CASE j # i
    BY <1>5, <1>6, <1>7, <2>2
  <2> QED
    BY <2>1, <2>2
<1>11. Generated' /\ Phases' /\ P0!TruncationSeen'
  BY <1>0, <1>1, <1>2 DEF Generated, Phases, P0!TruncationSeen, P0!Complete
<1> QED
  BY <1>9, <1>10, <1>11 DEF WireInv

\* The slots of a whole stream are the calls the server meant, in their order.
LEMMA WholeStream ==
  ASSUME NEW n \in Nat, DOMAIN tcs = 1..n
  PROVE  P0!Assembled = [k \in 1..n |-> tcs[k]]
<1>1. Cardinality(DOMAIN tcs) = n
  BY FS_Interval
<1>2. ASSUME NEW i \in 1..n PROVE P0!Place(i) = i
  <2>1. {j \in DOMAIN tcs : j <= i} = 1..i
    OBVIOUS
  <2>2. Cardinality(1..i) = i
    BY FS_Interval
  <2> QED
    BY <2>1, <2>2 DEF P0!Place, P0!Cardinality, Cardinality
<1>3. \A k \in 1..n : (CHOOSE i \in DOMAIN tcs : P0!Place(i) = k) = k
  BY <1>2
<1>4. \A k \in 1..n : tcs[CHOOSE i \in DOMAIN tcs : P0!Place(i) = k] = tcs[k]
  BY <1>3
<1>5. P0!Assembled = [k \in 1..n |-> tcs[CHOOSE i \in DOMAIN tcs : P0!Place(i) = k]]
  BY <1>1 DEF P0!Assembled, P0!Cardinality, Cardinality
<1> QED
  BY <1>4, <1>5

\* Arm L's verdict on calls that were cut and on calls that were not.
LEMMA Verdict ==
  ASSUME NEW r, r.finish # "none",
         NEW cut, cut <=> r.finish = "length" /\ r.calls # <<>>,
         NEW bad, bad <=> \E i \in DOMAIN r.calls : P0!ArgsInvalid(r.calls[i]),
         bad => r.calls # <<>>
  PROVE  /\ P0!LClass(r) = "PASS_0023" <=> cut
         /\ P0!LClass(r) = "FAIL_0023" <=> bad /\ ~cut
<1>1. P0!Classify(r, FALSE) \notin {"PASS_0023", "FAIL_0023"}
  BY DEF P0!Classify
<1> DEFINE other == IF P0!Classify(r, FALSE) = "TOOL_OK" /\ r.calls[1].name = "Write"
                       /\ r.calls[1].args[1][1] # Wanted
                    THEN "CONTENT_MISMATCH" ELSE P0!Classify(r, FALSE)
<1>2. other \notin {"PASS_0023", "FAIL_0023"}
  BY <1>1
<1>3. P0!LClass(r) = IF bad \/ (r.finish = "length" /\ r.calls # <<>>)
                  THEN IF r.finish = "length" THEN "PASS_0023" ELSE "FAIL_0023"
                  ELSE other
  BY DEF P0!LClass
<1> HIDE DEF other
<1> QED
  BY <1>2, <1>3

\* The end of the stream.
LEMMA EndWire ==
  ASSUME WireInv, NEW early \in BOOLEAN, P0!EndOfStream(early)
  PROVE  WireInv'
<1>0. Generated /\ Phases /\ WireType /\ P0!AssembledByIndex /\ P0!TruncationSeen
  BY DEF WireInv
<1>1. /\ armPhase = "stream" /\ armPhase' = "done" /\ (early \/ P0!AllSent)
      /\ finish' = IF early THEN "none" ELSE P0!FinishReason(slots, served.stop)
      /\ rows' = Append(rows, P0!LClass(P0!Response(P0!Assembled, finish')))
      /\ UNCHANGED <<arm, slots, sent, served, tcs>>
  BY DEF P0!EndOfStream, P0!Emit
<1>2. arm = "L" /\ rows = <<>>
  <2>1. armPhase = "stream"
    BY <1>1
  <2> QED
    BY <1>0, <2>1 DEF Phases
<1>3. Generated' /\ Phases' /\ WireType' /\ P0!AssembledByIndex'
  <2>1. armPhase' = "done" /\ UNCHANGED <<arm, slots, sent, tcs>>
    BY <1>1
  <2>2. Generated' /\ WireType' /\ P0!AssembledByIndex'
    BY <1>0, <2>1 DEF Generated, WireType, P0!AssembledByIndex, P0!Complete
  <2>3. Phases'
    BY <2>1 DEF Phases
  <2> QED
    BY <2>2, <2>3
<1>4. finish' = "none" => P0!TruncationSeen'
  BY DEF P0!TruncationSeen
<1>5. ASSUME finish' # "none" PROVE P0!TruncationSeen'
  <2>1. ~early /\ P0!AllSent /\ finish' = P0!FinishReason(slots, served.stop)
    BY <1>1, <1>5
  <2>2. PICK S : slots \in Seq(S)
    BY <1>0 DEF Generated, IsSeq
  <2> DEFINE n == Len(slots)
             r == P0!Response(P0!Assembled, finish')
             cut == P0!TruncatedToolArgs(slots)
  <2>3. n \in Nat /\ DOMAIN slots = 1..n /\ (slots = <<>> <=> n = 0)
    BY <2>2
  <2>4. \A i \in 1..n : Len(slots[i].args) \in Nat /\ SubSeq(slots[i].args, 1, Len(slots[i].args)) = slots[i].args
    <3> SUFFICES ASSUME NEW i \in 1..n
                 PROVE  Len(slots[i].args) \in Nat
                        /\ SubSeq(slots[i].args, 1, Len(slots[i].args)) = slots[i].args
      OBVIOUS
    <3>1. PICK T : slots[i].args \in Seq(T)
      BY <1>0, <2>3 DEF Generated, IsSeq
    <3> DEFINE a == slots[i].args
    <3> HIDE DEF a
    <3>2. a \in Seq(T)
      BY <3>1 DEF a
    <3>3. Len(a) \in Nat /\ SubSeq(a, 1, Len(a)) = a
      <4>1. SubSeq(a, 1, Len(a)) \in Seq(T) /\ Len(SubSeq(a, 1, Len(a))) = Len(a)
        BY <3>2
      <4>2. \A k \in 1..Len(a) : SubSeq(a, 1, Len(a))[k] = a[k]
        BY <3>2
      <4> QED
        BY <3>2, <4>1, <4>2, SeqEqual
    <3> QED
      BY <3>3 DEF a
  <2>5. \A i \in 1..n : sent[i] = Len(slots[i].args)
    BY <2>1, <2>3 DEF P0!AllSent
  <2>6. \A i \in 1..n : i \in DOMAIN tcs /\ tcs[i].args = slots[i].args
    <3>1. \A i \in 1..n : sent[i] >= 0
      BY <2>4, <2>5
    <3>2. \A i \in 1..n : i \in DOMAIN tcs /\ tcs[i].args = SubSeq(slots[i].args, 1, sent[i])
      BY <1>0, <1>2, <2>3, <3>1 DEF P0!AssembledByIndex
    <3> QED
      BY <2>4, <2>5, <3>2
  <2>7. DOMAIN tcs = 1..n
    BY <1>0, <1>2, <2>3, <2>6 DEF WireType
  <2>8. P0!Assembled = [k \in 1..n |-> tcs[k]]
    BY <2>3, <2>7, WholeStream
  <2>9. r.calls = P0!Assembled /\ r.finish = finish'
    BY DEF P0!Response
  <2>10. /\ DOMAIN r.calls = 1..n
         /\ \A i \in 1..n : r.calls[i].args = slots[i].args
         /\ r.calls # <<>> <=> n # 0
    <3>1. r.calls = [k \in 1..n |-> tcs[k]]
      BY <2>8, <2>9
    <3>2. DOMAIN <<>> = 1..0
      OBVIOUS
    <3>3. n = 0 => [k \in 1..n |-> tcs[k]] = <<>>
      <4>1. n = 0 => [k \in 1..n |-> tcs[k]] \in Seq({}) /\ Len([k \in 1..n |-> tcs[k]]) = 0
        BY <2>3
      <4> QED
        BY <4>1
    <3> HIDE DEF r, n
    <3> QED
      BY <2>3, <2>6, <3>1, <3>2, <3>3
  <2>11. cut => n # 0
    BY <2>3 DEF P0!TruncatedToolArgs
  <2>12. cut <=> r.finish = "length" /\ r.calls # <<>>
    <3>1. finish' = IF slots # <<>> /\ cut THEN "length"
                    ELSE IF slots = <<>> THEN served.stop ELSE "tool_calls"
      BY <2>1 DEF P0!FinishReason, P0!EngineFinish
    <3> HIDE DEF r, n, cut
    <3> QED
      BY <2>3, <2>9, <2>10, <2>11, <3>1
  <2>13. (\E i \in DOMAIN r.calls : P0!ArgsInvalid(r.calls[i]))
           <=> \E i \in 1..n : ~P0!Complete(slots[i].args)
    <3> HIDE DEF r, n
    <3> QED
      BY <2>10 DEF P0!ArgsInvalid
  <2>14. cut <=> \E i \in 1..n : ~slots[i].closed /\ slots[i].args # <<>> /\ ~P0!Complete(slots[i].args)
    BY <2>3 DEF P0!TruncatedToolArgs
  <2>15. (\E i \in 1..n : ~P0!Complete(slots[i].args)) /\ ~cut
           <=> ~cut /\ \E i \in 1..n : slots[i].args = <<>>
    <3>1. ~P0!Complete(<<>>)
      <4>1. \A c : <<<<c, 1>>, <<c, 2>>>> # <<>>
        OBVIOUS
      <4> QED
        BY <4>1 DEF P0!Complete
    <3>2. \A i \in 1..n : slots[i].closed => P0!Complete(slots[i].args)
      BY <1>0, <2>3 DEF Generated
    <3> HIDE DEF cut, n
    <3> QED
      BY <2>14, <3>1, <3>2
  <2>16. /\ P0!LClass(r) = "PASS_0023" <=> cut
         /\ P0!LClass(r) = "FAIL_0023" <=> ~cut /\ \E i \in 1..n : slots[i].args = <<>>
    <3> DEFINE bad == \E i \in DOMAIN r.calls : P0!ArgsInvalid(r.calls[i])
    <3>1. bad => r.calls # <<>>
      <4>1. bad => n # 0
        BY <2>3, <2>13
      <4> HIDE DEF r, bad, n
      <4> QED
        BY <2>10, <4>1
    <3>2. r.finish # "none"
      BY <1>5, <2>9
    <3> HIDE DEF r, cut
    <3>3. /\ P0!LClass(r) = "PASS_0023" <=> cut
          /\ P0!LClass(r) = "FAIL_0023" <=> bad /\ ~cut
      BY <2>12, <3>1, <3>2, Verdict
    <3> QED
      BY <2>13, <2>15, <3>3
  <2>17. rows' = <<P0!LClass(r)>>
    BY <1>1, <1>2
  <2> HIDE DEF r
  <2>18. (rows' = <<"PASS_0023">> <=> P0!LClass(r) = "PASS_0023")
         /\ (rows' = <<"FAIL_0023">> <=> P0!LClass(r) = "FAIL_0023")
    BY <2>17
  <2> QED
    BY <1>1, <2>3, <2>16, <2>18 DEF P0!TruncationSeen, P0!TruncatedToolArgs, P0!Complete
<1> QED
  BY <1>3, <1>4, <1>5 DEF WireInv

\* The other arms do not stream.
LEMMA RestWire ==
  ASSUME WireInv, NEW b \in BOOLEAN, P0!AnswerX(b) \/ P0!AnswerR(b)
  PROVE  WireInv'
<1>1. /\ arm # "L" /\ armPhase' \in {"ask", "done"}
      /\ UNCHANGED <<arm, slots, sent, served, tcs, finish>>
  BY DEF P0!AnswerX, P0!AnswerR
<1> QED
  BY <1>1 DEF WireInv, Generated, Phases, WireType, P0!AssembledByIndex, P0!TruncationSeen, P0!Complete

LEMMA WireNext == ReplyConstants /\ WireInv /\ [P0!Next]_P0!vars => WireInv'
<1> SUFFICES ASSUME ReplyConstants, WireInv, [P0!Next]_P0!vars PROVE WireInv'
  OBVIOUS
<1>1. CASE UNCHANGED P0!vars
  BY <1>1 DEF P0!vars, WireInv, Generated, Phases, WireType, P0!AssembledByIndex, P0!TruncationSeen,
              P0!Complete, P0!TruncatedToolArgs
<1> QED
  BY <1>1, AskWire, ErrorWire, ChunkWire, EndWire, RestWire DEF P0!Next

-------------------------------------------------------------------------------
(* phase0_repro.py: the conversation of arm R. *)

\* A call that writes the file.
WholeWrite(m) == m.call.name = "Write" /\ P0!Complete(m.call.args)

\* The content of the file after the first n messages.
Writes(h, n) == {j \in 1..n : WholeWrite(h[j])}
FileAfter(h, n) == IF Writes(h, n) = {} THEN "none" ELSE h[Max(Writes(h, n))].call.args[1][1]

\* The ids are those of turns up to t, and of its first k calls.
IdsUpTo(h, t, k) ==
  \A i \in DOMAIN h :
    \/ h[i].id = <<0, 0>>
    \/ \E a \in 1..t, b \in Nat : h[i].id = <<a, b>> /\ (a = t => b <= k)

\* Only the assistant calls, and under an id.
Callers(h) ==
  \A i \in DOMAIN h :
    h[i].call # P0!NoCall => h[i].role = "assistant" /\ h[i].id # <<0, 0>>

\* A call is answered by the next message and by no other.
AnsweredOnce(h) ==
  \A i \in DOMAIN h :
    h[i].role = "assistant" /\ h[i].call # P0!NoCall =>
      /\ i < Len(h) /\ h[i + 1].role = "tool" /\ h[i + 1].id = h[i].id
      /\ \A j \in DOMAIN h : j \notin {i, i + 1} => h[j].id # h[i].id

\* A Read shows what the file was when it was called.
ReadsRight(h) ==
  \A i \in DOMAIN h :
    h[i].call.name = "Read" /\ P0!Complete(h[i].call.args) =>
      h[i + 1].result = P0!Shown(FileAfter(h, i))

\* A conversation after k calls of turn t, and the file that goes with it.
Conversed(h, f, t, k) ==
  /\ IsSeq(h) /\ IdsUpTo(h, t, k) /\ Callers(h) /\ AnsweredOnce(h) /\ ReadsRight(h)
  /\ f = FileAfter(h, Len(h))

\* More messages do not change what the file was before them.
LEMMA FileKept ==
  ASSUME NEW n \in Nat, NEW h, NEW l, \A j \in 1..n : l[j] = h[j]
  PROVE  FileAfter(l, n) = FileAfter(h, n)
<1>1. Writes(l, n) = Writes(h, n)
  BY DEF Writes, WholeWrite
<1>2. CASE Writes(h, n) = {}
  BY <1>1, <1>2 DEF FileAfter
<1>3. CASE Writes(h, n) # {}
  <2>1. Writes(h, n) \subseteq 1..n
    BY DEF Writes
  <2>2. Max(Writes(h, n)) \in 1..n
    BY <1>3, <2>1, LargestOf
  <2>3. l[Max(Writes(h, n))] = h[Max(Writes(h, n))]
    BY <2>2
  <2> QED
    BY <1>1, <1>3, <2>3 DEF FileAfter
<1> QED
  BY <1>2, <1>3

\* One more message.
LEMMA FileNext ==
  ASSUME NEW n \in Nat, NEW h
  PROVE  FileAfter(h, n + 1) = IF WholeWrite(h[n + 1]) THEN h[n + 1].call.args[1][1]
                               ELSE FileAfter(h, n)
<1>1. CASE WholeWrite(h[n + 1])
  <2> DEFINE s == Writes(h, n + 1)
  <2>1. s \subseteq 1..(n + 1) /\ n + 1 \in s
    BY <1>1 DEF Writes
  <2> HIDE DEF s
  <2>2. Max(s) \in s /\ n + 1 <= Max(s)
    BY <2>1, n + 1 \in Nat, LargestOf
  <2>3. Max(s) \in 1..(n + 1)
    BY <2>1, <2>2
  <2>4. Max(s) = n + 1 /\ s # {}
    BY <2>1, <2>2, <2>3
  <2> QED
    BY <1>1, <2>4 DEF FileAfter, s
<1>2. CASE ~WholeWrite(h[n + 1])
  <2>1. \A j \in 1..(n + 1) : j \in 1..n \/ j = n + 1
    OBVIOUS
  <2>2. 1..n \subseteq 1..(n + 1)
    OBVIOUS
  <2>3. Writes(h, n + 1) = Writes(h, n)
    BY <1>2, <2>1, <2>2 DEF Writes
  <2> QED
    BY <1>2, <2>3 DEF FileAfter
<1> QED
  BY <1>1, <1>2

LEMMA MessageFields ==
  ASSUME NEW role, NEW id, NEW call, NEW result
  PROVE  LET m == P0!Message(role, id, call, result)
         IN  m.role = role /\ m.id = id /\ m.call = call /\ m.result = result
BY DEF P0!Message

LEMMA NoCallIsNothing ==
  P0!NoCall.name = "" /\ P0!NoCall.args = <<>>
BY DEF P0!NoCall

\* A message that is not about a call.
LEMMA NoteKeeps ==
  ASSUME NEW h, NEW f, NEW t \in Nat, NEW k \in Nat, Conversed(h, f, t, k),
         NEW m, m.id = <<0, 0>>, m.call = P0!NoCall
  PROVE  Conversed(Append(h, m), f, t, k)
<1> DEFINE n == Len(h)
           l == Append(h, m)
<1>0. /\ IsSeq(h) /\ IdsUpTo(h, t, k) /\ Callers(h) /\ AnsweredOnce(h) /\ ReadsRight(h)
      /\ f = FileAfter(h, n)
  BY DEF Conversed
<1>1. /\ IsSeq(l) /\ n \in Nat /\ Len(l) = n + 1 /\ DOMAIN h = 1..n /\ DOMAIN l = 1..(n + 1)
      /\ l[n + 1] = m /\ \A i \in 1..n : l[i] = h[i]
  BY <1>0, SeqAppend
<1> HIDE DEF n, l
<1>2. \A i \in 1..(n + 1) : i \in 1..n \/ i = n + 1
  BY <1>1
<1>3. IdsUpTo(l, t, k)
  BY <1>0, <1>1, <1>2 DEF IdsUpTo
<1>4. Callers(l)
  BY <1>0, <1>1, <1>2 DEF Callers
<1>5. AnsweredOnce(l)
  <2> SUFFICES ASSUME NEW i \in DOMAIN l, l[i].role = "assistant", l[i].call # P0!NoCall
               PROVE  /\ i < Len(l) /\ l[i + 1].role = "tool" /\ l[i + 1].id = l[i].id
                      /\ \A j \in DOMAIN l : j \notin {i, i + 1} => l[j].id # l[i].id
    BY DEF AnsweredOnce
  <2>1. i \in 1..n /\ l[i] = h[i]
    BY <1>1, <1>2
  <2>2. /\ i < n /\ h[i + 1].role = "tool" /\ h[i + 1].id = h[i].id
        /\ \A j \in 1..n : j \notin {i, i + 1} => h[j].id # h[i].id
        /\ h[i].id # <<0, 0>>
    BY <1>0, <1>1, <2>1 DEF AnsweredOnce, Callers, n
  <2>3. i + 1 \in 1..n /\ i < n + 1
    BY <1>1, <2>1, <2>2
  <2>4. l[i + 1] = h[i + 1]
    BY <1>1, <2>3
  <2>5. \A j \in 1..(n + 1) : j \notin {i, i + 1} => l[j].id # l[i].id
    BY <1>1, <1>2, <2>1, <2>2
  <2> QED
    BY <1>1, <2>1, <2>2, <2>3, <2>4, <2>5
<1>6. ReadsRight(l)
  <2> SUFFICES ASSUME NEW i \in DOMAIN l, l[i].call.name = "Read", P0!Complete(l[i].call.args)
               PROVE  l[i + 1].result = P0!Shown(FileAfter(l, i))
    BY DEF ReadsRight
  <2>1. l[i].call # P0!NoCall
    BY NoCallIsNothing
  <2>2. i \in 1..n /\ l[i] = h[i]
    BY <1>1, <1>2, <2>1
  <2>3. i < n
    BY <1>0, <1>1, <2>1, <2>2 DEF AnsweredOnce, Callers, n
  <2>4. l[i + 1] = h[i + 1] /\ i \in Nat /\ \A j \in 1..i : l[j] = h[j]
    BY <1>1, <2>2, <2>3
  <2>5. FileAfter(l, i) = FileAfter(h, i)
    BY <2>4, FileKept
  <2> QED
    BY <1>0, <1>1, <2>2, <2>4, <2>5 DEF ReadsRight
<1>7. f = FileAfter(l, n + 1)
  <2>1. ~WholeWrite(m)
    BY NoCallIsNothing DEF WholeWrite
  <2> QED
    BY <1>0, <1>1, <2>1, FileKept, FileNext
<1> QED
  BY <1>1, <1>3, <1>4, <1>5, <1>6, <1>7 DEF Conversed, l

\* What running a call does to the file, and what a Read returns.
LEMMA ExecToolIs ==
  ASSUME NEW f, NEW name, NEW args
  PROVE  /\ name = "Write" /\ args = <<>> => P0!ExecTool(f, name, args) = <<"error", f>>
         /\ name = "Write" /\ args # <<>> => P0!ExecTool(f, name, args) = <<"wrote", args[1][1]>>
         /\ name = "Read" /\ args = <<>> => P0!ExecTool(f, name, args) = <<"error", f>>
         /\ name = "Read" /\ args # <<>> => P0!ExecTool(f, name, args) = <<f, f>>
         /\ name \notin {"Write", "Read"} =>
              P0!ExecTool(f, name, args) \in {<<"output", f>>, <<"error", f>>}
<1>1. CASE name = "Write"
  <2>1. P0!ExecTool(f, name, args) = IF args = <<>> THEN <<"error", f>> ELSE <<"wrote", args[1][1]>>
    BY <1>1 DEF P0!ExecTool
  <2> QED
    BY <1>1, <2>1
<1>2. CASE name = "Read"
  <2>1. P0!ExecTool(f, name, args) = IF args = <<>> THEN <<"error", f>> ELSE <<f, f>>
    BY <1>2 DEF P0!ExecTool
  <2> QED
    BY <1>2, <2>1
<1>3. CASE name \notin {"Write", "Read"}
  <2>1. P0!ExecTool(f, name, args) = <<"output", f>> \/ P0!ExecTool(f, name, args) = <<"error", f>>
    BY <1>3 DEF P0!ExecTool
  <2> QED
    BY <1>3, <2>1
<1> QED
  BY <1>1, <1>2, <1>3

LEMMA Executed ==
  ASSUME NEW f, NEW c
  PROVE  /\ P0!ExecTool(f, c.name, P0!Parsed(c.args))[2]
              = IF c.name = "Write" /\ P0!Complete(c.args) THEN c.args[1][1] ELSE f
         /\ c.name = "Read" /\ P0!Complete(c.args) => P0!ExecTool(f, c.name, P0!Parsed(c.args))[1] = f
<1> DEFINE args == P0!Parsed(c.args)
           done == P0!ExecTool(f, c.name, args)
           called == c.name
<1>1. args = <<>> <=> ~P0!Complete(c.args)
  BY DEF P0!Parsed, P0!Complete
<1>2. P0!Complete(c.args) => args = c.args
  BY DEF P0!Parsed
<1> HIDE DEF args, called
<1>3. /\ called = "Write" /\ args = <<>> => done = <<"error", f>>
      /\ called = "Write" /\ args # <<>> => done = <<"wrote", args[1][1]>>
      /\ called = "Read" /\ args = <<>> => done = <<"error", f>>
      /\ called = "Read" /\ args # <<>> => done = <<f, f>>
      /\ called \notin {"Write", "Read"} => done \in {<<"output", f>>, <<"error", f>>}
  BY ExecToolIs DEF called
<1> HIDE DEF done
<1>4. done[2] = IF called = "Write" /\ args # <<>> THEN args[1][1] ELSE f
  BY <1>3
<1>5. called = "Read" /\ args # <<>> => done[1] = f
  BY <1>3
<1> QED
  BY <1>1, <1>2, <1>4, <1>5 DEF done, args, called

\* A call with its result.
LEMMA CallKeeps ==
  ASSUME NEW h, NEW f, NEW t \in Nat, NEW k \in Nat, t > 0, Conversed(h, f, t, k),
         NEW c, NEW p, NEW q,
         p.role = "assistant", p.id = <<t, k + 1>>, p.call = c,
         q.role = "tool", q.id = <<t, k + 1>>, q.call = P0!NoCall,
         q.result = P0!Shown(P0!ExecTool(f, c.name, P0!Parsed(c.args))[1])
  PROVE  Conversed(Append(Append(h, p), q), P0!ExecTool(f, c.name, P0!Parsed(c.args))[2], t, k + 1)
<1> DEFINE n == Len(h)
           l == Append(Append(h, p), q)
<1>0. /\ IsSeq(h) /\ IdsUpTo(h, t, k) /\ Callers(h) /\ AnsweredOnce(h) /\ ReadsRight(h)
      /\ f = FileAfter(h, n)
  BY DEF Conversed
<1>1. /\ IsSeq(l) /\ n \in Nat /\ Len(l) = n + 2 /\ DOMAIN h = 1..n /\ DOMAIN l = 1..(n + 2)
      /\ l[n + 1] = p /\ l[n + 2] = q /\ \A i \in 1..n : l[i] = h[i]
  <2> DEFINE a == Append(h, p)
  <2>1. /\ IsSeq(a) /\ n \in Nat /\ Len(a) = n + 1 /\ DOMAIN h = 1..n /\ DOMAIN a = 1..(n + 1)
        /\ a[n + 1] = p /\ \A i \in 1..n : a[i] = h[i]
    BY <1>0, SeqAppend
  <2> HIDE DEF n, a
  <2>2. /\ IsSeq(Append(a, q)) /\ Len(Append(a, q)) = Len(a) + 1
        /\ DOMAIN Append(a, q) = 1..(Len(a) + 1) /\ Append(a, q)[Len(a) + 1] = q
        /\ \A i \in 1..Len(a) : Append(a, q)[i] = a[i]
    BY <2>1, SeqAppend
  <2>3. l = Append(a, q)
    BY DEF a
  <2>4. (n + 1) + 1 = n + 2 /\ n + 1 \in 1..(n + 1) /\ \A i \in 1..n : i \in 1..(n + 1)
    BY <2>1
  <2> HIDE DEF l
  <2> QED
    BY <2>1, <2>2, <2>3, <2>4
<1> HIDE DEF n, l
<1>2. \A i \in 1..(n + 2) : i \in 1..n \/ i = n + 1 \/ i = n + 2
  BY <1>1
<1>3. \A i \in 1..n : h[i].id # <<t, k + 1>>
  BY <1>0, <1>1 DEF IdsUpTo
<1>4. IdsUpTo(l, t, k + 1)
  <2> SUFFICES ASSUME NEW i \in 1..(n + 2)
               PROVE  \/ l[i].id = <<0, 0>>
                      \/ \E a \in 1..t, b \in Nat : l[i].id = <<a, b>> /\ (a = t => b <= k + 1)
    BY <1>1 DEF IdsUpTo
  <2>1. CASE i \in 1..n
    <3>1. l[i].id = h[i].id /\ i \in DOMAIN h
      BY <1>1, <2>1
    <3>2. CASE h[i].id = <<0, 0>>
      BY <3>1, <3>2
    <3>3. CASE h[i].id # <<0, 0>>
      <4>1. PICK a \in 1..t, b \in Nat : h[i].id = <<a, b>> /\ (a = t => b <= k)
        BY <1>0, <3>1, <3>3 DEF IdsUpTo
      <4>2. a = t => b <= k + 1
        BY <4>1
      <4> QED
        BY <3>1, <4>1, <4>2
    <3> QED
      BY <3>2, <3>3
  <2>2. CASE i \notin 1..n
    <3>1. l[i].id = <<t, k + 1>>
      BY <1>1, <1>2, <2>2
    <3> QED
      BY <3>1, t \in 1..t, k + 1 \in Nat, k + 1 <= k + 1
  <2> QED
    BY <2>1, <2>2
<1>5. Callers(l)
  BY <1>0, <1>1, <1>2 DEF Callers
<1>6. AnsweredOnce(l)
  <2> SUFFICES ASSUME NEW i \in DOMAIN l, l[i].role = "assistant", l[i].call # P0!NoCall
               PROVE  /\ i < Len(l) /\ l[i + 1].role = "tool" /\ l[i + 1].id = l[i].id
                      /\ \A j \in DOMAIN l : j \notin {i, i + 1} => l[j].id # l[i].id
    BY DEF AnsweredOnce
  <2>1. CASE i \in 1..n
    <3>1. l[i] = h[i]
      BY <1>1, <2>1
    <3>2. /\ i < n /\ h[i + 1].role = "tool" /\ h[i + 1].id = h[i].id
          /\ \A j \in 1..n : j \notin {i, i + 1} => h[j].id # h[i].id
      BY <1>0, <1>1, <2>1, <3>1 DEF AnsweredOnce, n
    <3>3. i + 1 \in 1..n /\ i < n + 2
      BY <1>1, <2>1, <3>2
    <3>4. l[i + 1] = h[i + 1]
      BY <1>1, <3>3
    <3>5. \A j \in 1..(n + 2) : j \notin {i, i + 1} => l[j].id # l[i].id
      BY <1>1, <1>2, <1>3, <2>1, <3>1, <3>2
    <3> QED
      BY <1>1, <3>1, <3>2, <3>3, <3>4, <3>5
  <2>2. CASE i = n + 1
    <3>1. i < n + 2 /\ i + 1 = n + 2 /\ \A j \in 1..(n + 2) : j \notin {i, i + 1} => j \in 1..n
      BY <1>1, <1>2, <2>2
    <3>2. \A j \in 1..(n + 2) : j \notin {i, i + 1} => l[j].id # l[i].id
      BY <1>1, <1>3, <2>2, <3>1
    <3> QED
      BY <1>1, <2>2, <3>1, <3>2
  <2>3. CASE i = n + 2
    BY <1>1, <2>3
  <2> QED
    BY <1>1, <1>2, <2>1, <2>2, <2>3
<1>7. FileAfter(l, n) = f
  BY <1>0, <1>1, FileKept
<1>8. ReadsRight(l)
  <2> SUFFICES ASSUME NEW i \in DOMAIN l, l[i].call.name = "Read", P0!Complete(l[i].call.args)
               PROVE  l[i + 1].result = P0!Shown(FileAfter(l, i))
    BY DEF ReadsRight
  <2>1. l[i].call # P0!NoCall
    BY NoCallIsNothing
  <2>2. CASE i \in 1..n
    <3>1. l[i] = h[i]
      BY <1>1, <2>2
    <3>2. i < n
      BY <1>0, <1>1, <2>1, <2>2, <3>1 DEF AnsweredOnce, Callers, n
    <3>3. l[i + 1] = h[i + 1] /\ i \in Nat /\ \A j \in 1..i : l[j] = h[j]
      BY <1>1, <2>2, <3>2
    <3>4. FileAfter(l, i) = FileAfter(h, i)
      BY <3>3, FileKept
    <3> QED
      BY <1>0, <1>1, <2>2, <3>1, <3>3, <3>4 DEF ReadsRight
  <2>3. CASE i = n + 1
    <3>1. l[i] = p /\ i + 1 = n + 2 /\ l[i + 1] = q
      BY <1>1, <2>3
    <3>2. c.name = "Read" /\ P0!Complete(c.args)
      BY <3>1
    <3>3. l[i + 1].result = P0!Shown(f)
      BY <3>1, <3>2, Executed
    <3>4. ~WholeWrite(l[n + 1])
      BY <2>3 DEF WholeWrite
    <3>5. FileAfter(l, n + 1) = f
      BY <1>1, <1>7, <3>4, FileNext
    <3> QED
      BY <2>3, <3>3, <3>5
  <2>4. CASE i = n + 2
    BY <1>1, <2>1, <2>4
  <2> QED
    BY <1>1, <1>2, <2>2, <2>3, <2>4
<1>9. P0!ExecTool(f, c.name, P0!Parsed(c.args))[2] = FileAfter(l, n + 2)
  <2>1. FileAfter(l, n + 1) = IF c.name = "Write" /\ P0!Complete(c.args) THEN c.args[1][1] ELSE f
    BY <1>1, <1>7, FileNext DEF WholeWrite
  <2>2. ~WholeWrite(q)
    BY NoCallIsNothing DEF WholeWrite
  <2>3. n + 1 \in Nat /\ (n + 1) + 1 = n + 2
    BY <1>1
  <2>4. FileAfter(l, n + 2) = FileAfter(l, n + 1)
    BY <1>1, <2>2, <2>3, FileNext
  <2> QED
    BY <2>1, <2>4, Executed
<1> QED
  BY <1>1, <1>4, <1>5, <1>6, <1>8, <1>9 DEF Conversed, l

-------------------------------------------------------------------------------
(* The calls of an answer, run one after the other. *)

\* What RunCalls starts with, and what it has after one call more.
Start == [file |-> disk, log |-> <<>>]
Ran(calls, acc, k) ==
  LET done == P0!ExecTool(acc.file, calls[k].name, P0!Parsed(calls[k].args))
  IN  [file |-> done[2],
       log  |-> acc.log \o << P0!Message("assistant", P0!CallId(armTurn, k), calls[k], ""),
                              P0!Message("tool", P0!CallId(armTurn, k), P0!NoCall, P0!Shown(done[1])) >>]

\* The recursion of the fold over the places D of the calls.
RunEq(g, calls, l, D) ==
  g = [s \in SUBSET D |-> IF s = {} THEN Start ELSE Ran(calls, g[s \ {Max(s)}], l[Max(s)])]

LEMMA RunIs ==
  ASSUME NEW calls
  PROVE  LET l == [k \in DOMAIN calls |-> k]
         IN  P0!RunCalls(calls) = (CHOOSE g : RunEq(g, calls, l, DOMAIN l))[DOMAIN l]
BY DEF P0!RunCalls, P0!FoldLeft, P0!MapThenFoldSet, RunEq, Ran, Start, P0!Max, Max, P0!ExecTool

\* The recursion has a solution for every number of calls: from the solution for one
\* call less.
LEMMA RunExists ==
  ASSUME NEW calls, NEW l, NEW n \in Nat
  PROVE  \E g : RunEq(g, calls, l, 1..n)
<1> DEFINE T == {k \in Nat : ~\E g : RunEq(g, calls, l, 1..k)}
<1> SUFFICES ASSUME T # {}
             PROVE  FALSE
  OBVIOUS
<1>1. PICK k \in T : \A m \in T : k <= m
  BY LeastNatural
<1>2. CASE k = 0
  <2> DEFINE g == [s \in SUBSET (1..0) |-> Start]
  <2>1. \A s \in SUBSET (1..0) : s = {}
    OBVIOUS
  <2>2. RunEq(g, calls, l, 1..0)
    BY <2>1 DEF RunEq
  <2> HIDE DEF g
  <2> QED
    BY <1>1, <1>2, <2>2
<1>3. CASE k # 0
  <2>1. k - 1 \in Nat /\ k - 1 \notin T
    BY <1>1, <1>3
  <2>2. PICK e : RunEq(e, calls, l, 1..(k - 1))
    BY <2>1
  <2>3. \A s \in SUBSET (1..(k - 1)) :
          e[s] = IF s = {} THEN Start ELSE Ran(calls, e[s \ {Max(s)}], l[Max(s)])
    <3>1. e = [s \in SUBSET (1..(k - 1)) |->
                 IF s = {} THEN Start ELSE Ran(calls, e[s \ {Max(s)}], l[Max(s)])]
      BY <2>2 DEF RunEq
    <3> QED
      BY <3>1
  <2> DEFINE g == [s \in SUBSET (1..k) |->
                     IF k \in s THEN Ran(calls, e[s \ {k}], l[k]) ELSE e[s]]
  <2>4. \A s \in SUBSET (1..k) :
          g[s] = IF s = {} THEN Start ELSE Ran(calls, g[s \ {Max(s)}], l[Max(s)])
    <3> TAKE s \in SUBSET (1..k)
    <3>1. CASE k \in s
      <4>1. Max(s) \in s /\ k <= Max(s) /\ k \in Nat
        BY <3>1, <1>1, LargestOf
      <4>2. Max(s) = k
        <5>1. Max(s) \in 1..k
          BY <4>1
        <5> HIDE DEF g
        <5> QED
          BY <4>1, <5>1
      <4>3. s \ {k} \in SUBSET (1..k) /\ k \notin s \ {k}
        OBVIOUS
      <4>4. g[s \ {k}] = e[s \ {k}]
        BY <4>3
      <4>5. g[s] = Ran(calls, e[s \ {k}], l[k])
        BY <3>1
      <4> HIDE DEF g
      <4> QED
        BY <3>1, <4>2, <4>4, <4>5
    <3>2. CASE k \notin s
      <4>1. s \in SUBSET (1..(k - 1))
        BY <3>2, <1>1
      <4>2. g[s] = e[s] /\ g[s \ {Max(s)}] = e[s \ {Max(s)}]
        BY <3>2
      <4> HIDE DEF g
      <4> QED
        BY <2>3, <4>1, <4>2
    <3> QED
      BY <3>1, <3>2
  <2>5. g = [s \in SUBSET (1..k) |->
               IF s = {} THEN Start ELSE Ran(calls, g[s \ {Max(s)}], l[Max(s)])]
    BY <2>4
  <2> HIDE DEF g
  <2>6. RunEq(g, calls, l, 1..k)
    BY <2>5 DEF RunEq
  <2> QED
    BY <1>1, <2>6
<1> QED
  BY <1>2, <1>3

\* The calls one by one.
LEMMA RunSteps ==
  ASSUME NEW calls, NEW n \in Nat, DOMAIN calls = 1..n
  PROVE  \E v : /\ v[0] = Start
                /\ \A k \in 1..n : v[k] = Ran(calls, v[k - 1], k)
                /\ P0!RunCalls(calls) = v[n]
<1> DEFINE l == [k \in DOMAIN calls |-> k]
           g == CHOOSE g : RunEq(g, calls, l, DOMAIN l)
           v == [k \in 0..n |-> g[1..k]]
<1>1. DOMAIN l = 1..n /\ \A k \in 1..n : l[k] = k
  OBVIOUS
<1>2. P0!RunCalls(calls) = g[1..n]
  BY RunIs, <1>1
<1> HIDE DEF l
<1>3. RunEq(g, calls, l, 1..n)
  BY <1>1, RunExists
<1> HIDE DEF g
<1>4. \A s \in SUBSET (1..n) :
        g[s] = IF s = {} THEN Start ELSE Ran(calls, g[s \ {Max(s)}], l[Max(s)])
  <2>1. g = [s \in SUBSET (1..n) |->
               IF s = {} THEN Start ELSE Ran(calls, g[s \ {Max(s)}], l[Max(s)])]
    BY <1>3 DEF RunEq
  <2> QED
    BY <2>1
<1>5. v[0] = Start
  <2>1. 1..0 \in SUBSET (1..n) /\ 1..0 = {} /\ 0 \in 0..n
    OBVIOUS
  <2> QED
    BY <1>4, <2>1
<1>6. ASSUME NEW k \in 1..n
      PROVE  v[k] = Ran(calls, v[k - 1], k)
  <2>1. 1..k \in SUBSET (1..n) /\ k \in 1..k /\ k \in Nat
    OBVIOUS
  <2>2. Max(1..k) \in 1..k /\ k <= Max(1..k)
    BY <2>1, LargestOf
  <2>3. Max(1..k) = k /\ (1..k) \ {k} = 1..(k - 1)
    BY <2>2
  <2>4. 1..k # {}
    BY <2>1
  <2>5. g[1..k] = Ran(calls, g[1..(k - 1)], k)
    BY <1>1, <1>4, <2>1, <2>3, <2>4
  <2>6. k \in 0..n /\ k - 1 \in 0..n
    OBVIOUS
  <2> QED
    BY <2>5, <2>6
<1>7. P0!RunCalls(calls) = v[n]
  BY <1>2
<1> HIDE DEF v
<1> QED
  BY <1>5, <1>6, <1>7

\* The conversation and the file after the calls of an answer.
LEMMA CallsKeep ==
  ASSUME armTurn \in Nat, armTurn > 0, NEW calls, NEW n \in Nat, DOMAIN calls = 1..n,
         Conversed(msgs, disk, armTurn, 0)
  PROVE  Conversed(msgs \o P0!RunCalls(calls).log, P0!RunCalls(calls).file, armTurn, n)
<1>1. PICK v : /\ v[0] = Start
               /\ \A k \in 1..n : v[k] = Ran(calls, v[k - 1], k)
               /\ P0!RunCalls(calls) = v[n]
  BY RunSteps
<1> DEFINE P(k) == IsSeq(v[k].log) /\ Conversed(msgs \o v[k].log, v[k].file, armTurn, k)
           T == {k \in 0..n : ~P(k)}
<1>2. ASSUME NEW k \in 1..n, P(k - 1)
      PROVE  P(k)
  <2> DEFINE acc  == v[k - 1]
             call == calls[k]
             done == P0!ExecTool(acc.file, call.name, P0!Parsed(call.args))
             p    == P0!Message("assistant", P0!CallId(armTurn, k), call, "")
             q    == P0!Message("tool", P0!CallId(armTurn, k), P0!NoCall, P0!Shown(done[1]))
             h    == msgs \o acc.log
  <2>1. v[k] = [file |-> done[2], log |-> acc.log \o <<p, q>>]
    BY <1>1 DEF Ran
  <2>2. v[k].file = done[2] /\ v[k].log = acc.log \o <<p, q>>
    <3> HIDE DEF done, p, q, acc
    <3> QED
      BY <2>1
  <2>3. Conversed(h, acc.file, armTurn, k - 1) /\ IsSeq(acc.log) /\ IsSeq(msgs)
    BY <1>2 DEF Conversed
  <2>4. /\ IsSeq(v[k].log)
        /\ msgs \o v[k].log = Append(Append(h, p), q)
    <3>1. PICK A : acc.log \in Seq(A)
      BY <2>3 DEF IsSeq
    <3>2. PICK B : msgs \in Seq(B)
      BY <2>3 DEF IsSeq
    <3> HIDE DEF p, q, acc
    <3> DEFINE R == A \cup B \cup {p, q}
               a == acc.log
    <3>3. a \in Seq(R) /\ msgs \in Seq(R) /\ p \in R /\ q \in R
      BY <3>1, <3>2
    <3> HIDE DEF R, a
    <3>4. a \o <<p, q>> \in Seq(R)
      BY <3>3
    <3> DEFINE l == msgs \o (a \o <<p, q>>)
               m == Append(Append(msgs \o a, p), q)
               b == Len(msgs) + Len(a)
    <3>5. l = m
      <4>1. b \in Nat /\ l \in Seq(R) /\ Len(l) = b + 2
        BY <3>3
      <4>2. m \in Seq(R) /\ Len(m) = b + 2
        BY <3>3
      <4>3. ASSUME NEW i \in 1..(b + 2)
            PROVE  l[i] = m[i]
        <5>1. CASE i \in 1..Len(msgs)
          BY <3>3, <5>1
        <5>2. CASE i \in (Len(msgs) + 1)..b
          BY <3>3, <5>2
        <5>3. CASE i = b + 1
          BY <3>3, <5>3
        <5>4. CASE i = b + 2
          BY <3>3, <5>4
        <5>5. i \in 1..Len(msgs) \/ i \in (Len(msgs) + 1)..b \/ i = b + 1 \/ i = b + 2
          BY <3>3
        <5> QED
          BY <5>1, <5>2, <5>3, <5>4, <5>5
      <4> HIDE DEF l, m, b
      <4> QED
        BY <4>1, <4>2, <4>3, SeqEqual
    <3> QED
      BY <2>2, <3>4, <3>5 DEF IsSeq, a
  <2>5. /\ p.role = "assistant" /\ p.id = <<armTurn, k>> /\ p.call = call
        /\ q.role = "tool" /\ q.id = <<armTurn, k>>
        /\ q.call = P0!NoCall /\ q.result = P0!Shown(done[1])
    <3> HIDE DEF done, call
    <3>1. /\ p.role = "assistant" /\ p.id = <<armTurn, k>> /\ p.call = call
      BY DEF P0!Message, P0!CallId
    <3>2. q.role = "tool" /\ q.id = <<armTurn, k>> /\ q.call = P0!NoCall /\ q.result = P0!Shown(done[1])
      BY DEF P0!Message, P0!CallId
    <3> QED
      BY <3>1, <3>2
  <2>6. k - 1 \in Nat /\ (k - 1) + 1 = k
    OBVIOUS
  <2> HIDE DEF p, q, h
  <2>7. Conversed(Append(Append(h, p), q), done[2], armTurn, (k - 1) + 1)
    BY <2>3, <2>5, <2>6, CallKeeps
  <2> HIDE DEF done, acc
  <2> QED
    BY <2>2, <2>4, <2>6, <2>7
<1>3. P(0)
  <2>1. v[0].log = <<>> /\ v[0].file = disk
    BY <1>1 DEF Start
  <2>2. msgs \o <<>> = msgs
    <3>1. PICK B : msgs \in Seq(B)
      BY DEF Conversed, IsSeq
    <3> QED
      BY <3>1
  <2>3. <<>> \in Seq({})
    OBVIOUS
  <2> QED
    BY <2>1, <2>2, <2>3 DEF IsSeq
<1> HIDE DEF P
<1>4. T = {}
  <2> SUFFICES ASSUME T # {} PROVE FALSE
    OBVIOUS
  <2>1. PICK k \in T : \A m \in T : k <= m
    BY LeastNatural, T \subseteq Nat
  <2>2. k # 0 /\ k \in 0..n
    BY <1>3, <2>1
  <2>3. k \in 1..n /\ k - 1 \in 0..n
    BY <2>2
  <2>4. P(k - 1)
    BY <2>1, <2>3
  <2> QED
    BY <1>2, <2>1, <2>3, <2>4
<1> QED
  BY <1>1, <1>4 DEF P

-------------------------------------------------------------------------------
(* The invariant of the conversation. *)

\* Before and after an exchange, the ids of the next turn are free.
TalkInv ==
  /\ armTurn \in Nat /\ armPhase \in {"ask", "stream", "answer", "done"}
  /\ armPhase \in {"stream", "answer"} => armTurn > 0 /\ Conversed(msgs, disk, armTurn, 0)
  /\ armPhase \in {"ask", "done"} => Conversed(msgs, disk, armTurn + 1, 0)

\* A turn is over.
LEMMA TurnOver ==
  ASSUME NEW h, NEW f, NEW t \in Nat, NEW k \in Nat, Conversed(h, f, t, k)
  PROVE  Conversed(h, f, t + 1, 0)
<1>1. IdsUpTo(h, t + 1, 0)
  <2> SUFFICES ASSUME NEW i \in DOMAIN h, h[i].id # <<0, 0>>
               PROVE  \E a \in 1..(t + 1), b \in Nat : h[i].id = <<a, b>> /\ (a = t + 1 => b <= 0)
    BY DEF IdsUpTo
  <2>1. PICK a \in 1..t, b \in Nat : h[i].id = <<a, b>>
    BY DEF Conversed, IdsUpTo
  <2>2. a \in 1..(t + 1) /\ a # t + 1
    BY <2>1
  <2> QED
    BY <2>1, <2>2
<1> QED
  BY <1>1 DEF Conversed

LEMMA TalkInit == P0!Init => TalkInv
<1> SUFFICES ASSUME P0!Init PROVE TalkInv
  OBVIOUS
<1>1. armTurn = 0 /\ armPhase = "ask" /\ msgs = <<>> /\ disk = "none"
  BY DEF P0!Init
<1>2. <<>> \in Seq({}) /\ DOMAIN <<>> = 1..0 /\ Len(<<>>) = 0 /\ 1..0 = {}
  OBVIOUS
<1>3. FileAfter(<<>>, 0) = "none"
  BY <1>2 DEF FileAfter, Writes
<1>4. Conversed(<<>>, "none", 1, 0)
  BY <1>2, <1>3 DEF Conversed, IsSeq, IdsUpTo, Callers, AnsweredOnce, ReadsRight
<1> QED
  BY <1>1, <1>4 DEF TalkInv

LEMMA AskTalk ==
  ASSUME TalkInv, NEW reply \in Replies, P0!Ask(reply)
  PROVE  TalkInv'
<1>1. /\ armPhase = "ask" /\ armTurn' = armTurn + 1 /\ armPhase' \in {"stream", "answer"} /\ disk' = disk
      /\ msgs' = msgs \/ msgs' = Append(msgs, P0!Message("user", <<0, 0>>, P0!NoCall, "step"))
  BY DEF P0!Ask
<1>2. armTurn \in Nat /\ armTurn' \in Nat /\ armTurn' > 0 /\ Conversed(msgs, disk, armTurn', 0)
  BY <1>1 DEF TalkInv
<1>3. Conversed(msgs', disk, armTurn', 0)
  <2> DEFINE m == P0!Message("user", <<0, 0>>, P0!NoCall, "step")
  <2>1. m.id = <<0, 0>> /\ m.call = P0!NoCall
    BY DEF P0!Message
  <2> HIDE DEF m
  <2>2. Conversed(Append(msgs, m), disk, armTurn', 0)
    BY <1>2, <2>1, 0 \in Nat, NoteKeeps
  <2> QED
    BY <1>1, <1>2, <2>2 DEF m
<1> QED
  BY <1>1, <1>2, <1>3 DEF TalkInv

\* A note after an exchange, or none.
LEMMA ExchangeOver ==
  ASSUME TalkInv, armPhase \in {"stream", "answer"}, armPhase' \in {"ask", "done"},
         UNCHANGED <<armTurn, disk>>,
         \/ msgs' = msgs
         \/ \E role, result : msgs' = Append(msgs, P0!Message(role, <<0, 0>>, P0!NoCall, result))
  PROVE  TalkInv'
<1>1. armTurn \in Nat /\ Conversed(msgs, disk, armTurn, 0)
  BY DEF TalkInv
<1>2. Conversed(msgs', disk, armTurn, 0)
  <2>1. CASE msgs' = msgs
    BY <1>1, <2>1
  <2>2. ASSUME NEW role, NEW result, msgs' = Append(msgs, P0!Message(role, <<0, 0>>, P0!NoCall, result))
        PROVE  Conversed(msgs', disk, armTurn, 0)
    <3> DEFINE m == P0!Message(role, <<0, 0>>, P0!NoCall, result)
    <3>1. m.id = <<0, 0>> /\ m.call = P0!NoCall
      BY DEF P0!Message
    <3>2. msgs' = Append(msgs, m)
      BY <2>2
    <3> HIDE DEF m
    <3> QED
      BY <1>1, <3>1, <3>2, 0 \in Nat, NoteKeeps
  <2> QED
    BY <2>1, <2>2
<1>3. Conversed(msgs', disk, armTurn + 1, 0)
  BY <1>1, <1>2, 0 \in Nat, TurnOver
<1> QED
  BY <1>1, <1>3 DEF TalkInv

LEMMA AnswerTalk ==
  ASSUME WireInv, TalkInv, NEW large \in BOOLEAN, P0!AnswerR(large)
  PROVE  TalkInv'
<1>1. /\ armPhase = "answer" /\ armPhase' \in {"ask", "done"} /\ armTurn' = armTurn
      /\ \/ /\ slots # <<>>
            /\ msgs' = msgs \o P0!RunCalls(P0!Plain).log /\ disk' = P0!RunCalls(P0!Plain).file
         \/ /\ msgs' = Append(msgs, P0!Message("assistant", <<0, 0>>, P0!NoCall, served.text))
            /\ disk' = disk
  BY DEF P0!AnswerR
<1>2. CASE msgs' = msgs \o P0!RunCalls(P0!Plain).log /\ disk' = P0!RunCalls(P0!Plain).file
  <2>1. armTurn \in Nat /\ armTurn > 0 /\ Conversed(msgs, disk, armTurn, 0)
    BY <1>1 DEF TalkInv
  <2>2. PICK S : slots \in Seq(S)
    BY DEF WireInv, Generated, IsSeq
  <2>3. Len(slots) \in Nat /\ DOMAIN P0!Plain = 1..Len(slots)
    BY <2>2 DEF P0!Plain
  <2>4. Conversed(msgs', disk', armTurn, Len(slots))
    BY <1>2, <2>1, <2>3, CallsKeep
  <2>5. Conversed(msgs', disk', armTurn + 1, 0)
    BY <2>1, <2>3, <2>4, TurnOver
  <2> QED
    BY <1>1, <2>1, <2>5 DEF TalkInv
<1>3. CASE msgs' = Append(msgs, P0!Message("assistant", <<0, 0>>, P0!NoCall, served.text)) /\ disk' = disk
  BY <1>1, <1>3, ExchangeOver
<1> QED
  BY <1>1, <1>2, <1>3

LEMMA TalkNext == WireInv /\ TalkInv /\ [P0!Next]_P0!vars => TalkInv'
<1> SUFFICES ASSUME WireInv, TalkInv, [P0!Next]_P0!vars PROVE TalkInv'
  OBVIOUS
<1>1. CASE P0!NetError
  <2>1. /\ armPhase \in {"stream", "answer"} /\ armPhase' \in {"ask", "done"}
        /\ UNCHANGED <<armTurn, disk>>
        /\ msgs' = msgs \/ msgs' = Append(msgs, P0!Message("user", <<0, 0>>, P0!NoCall, "failed"))
    BY <1>1 DEF P0!NetError
  <2> QED
    BY <2>1, ExchangeOver
<1>2. ASSUME NEW i \in DOMAIN slots, P0!Chunk(i)
      PROVE  TalkInv'
  BY <1>2 DEF P0!Chunk, TalkInv
<1>3. ASSUME NEW b \in BOOLEAN, P0!EndOfStream(b) \/ P0!AnswerX(b)
      PROVE  TalkInv'
  <2>1. /\ armPhase \in {"stream", "answer"} /\ armPhase' \in {"ask", "done"}
        /\ UNCHANGED <<armTurn, disk, msgs>>
    BY <1>3 DEF P0!EndOfStream, P0!AnswerX
  <2> QED
    BY <2>1, ExchangeOver
<1>4. CASE UNCHANGED P0!vars
  BY <1>4 DEF P0!vars, TalkInv
<1> QED
  BY <1>1, <1>2, <1>3, <1>4, AskTalk, AnswerTalk DEF P0!Next

\* Theorem (the four conjuncts of CallsKept).  However the chunks of the calls are
\* interleaved, the client puts each call together from its own pieces and in its
\* place (AssembledByIndex); a stream that ended says "PASS_0023" exactly when a call
\* was cut before its closing tag (TruncationSeen); in the conversation of arm R a
\* call is answered by the message after it and by no other, under its own id
\* (CallsAnsweredOnce); and a Read returns the last Write that came whole, not the
\* last that was asked for (ReadsWholeWrites).
THEOREM CallsStayWhole ==
  ASSUME ReplyConstants
  PROVE  P0!Spec => [](P0!AssembledByIndex /\ P0!TruncationSeen /\ P0!CallsAnsweredOnce /\ P0!ReadsWholeWrites)
<1>1. P0!Spec => [](WireInv /\ TalkInv)
  <2>1. P0!Init => WireInv /\ TalkInv
    BY WireInit, TalkInit
  <2>2. WireInv /\ TalkInv /\ [P0!Next]_P0!vars => (WireInv /\ TalkInv)'
    BY WireNext, TalkNext
  <2> QED
    BY <2>1, <2>2, PTL DEF P0!Spec
<1>2. WireInv => P0!AssembledByIndex /\ P0!TruncationSeen
  BY DEF WireInv
<1>3. TalkInv => P0!CallsAnsweredOnce
  <2>1. TalkInv => AnsweredOnce(msgs)
    BY DEF TalkInv, Conversed
  <2> QED
    BY <2>1 DEF AnsweredOnce, P0!CallsAnsweredOnce
<1>4. TalkInv => P0!ReadsWholeWrites
  <2>1. TalkInv => disk = FileAfter(msgs, Len(msgs)) /\ ReadsRight(msgs)
    BY DEF TalkInv, Conversed
  <2> QED
    BY <2>1 DEF ReadsRight, P0!ReadsWholeWrites, FileAfter, Writes, WholeWrite, P0!Max, Max
<1> QED
  BY <1>1, <1>2, <1>3, <1>4, PTL

===============================================================================
