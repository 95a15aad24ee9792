------------------------------ MODULE BlockCommit ------------------------------
(***************************************************************************)
(* How Scheduler.update_from_output commits the blocks of tokens that the  *)
(* workers sample for one request (patches 0008 to 0019v2 and 0025).       *)
(*                                                                         *)
(* A worker appends every block it samples to its own history at once; the *)
(* scheduler sees the block later, validates it against the grammar and    *)
(* the tripwires, and may keep only a part of it.  Whenever it drops a     *)
(* token it has to end the request, or else the two histories, and every   *)
(* later speculative window, would no longer line up.                      *)
(***************************************************************************)
EXTENDS Grammar, TailWatch

CONSTANTS
  Oov,            \* token ids past the vocabulary
  Stops,          \* end-of-sequence and stop tokens
  ThinkEnd,       \* the token that ends the reasoning
  Structured,     \* the request has a grammar
  Reasons,        \* the output starts with reasoning
  NumSpec,        \* drafts per window
  MinBlock,       \* bound: least length of a speculative block
  Ahead,          \* blocks sampled and not yet seen by the scheduler
  Views,          \* what the scheduler's copies of windows may show
  Resumes,        \* a preempted request may resume, without drafts
  Policy,         \* DSV4_TYPEB_POLICY
  GrammarSalvage, \* DSV4_GRAMMAR_SALVAGE
  SalvageBudget,  \* DSV4_SALVAGE_TOKEN_BUDGET
  SalvageGuard,   \* DSV4_SALVAGE_GUARD
  CutBack,        \* _dsv4_sig_cutback
  SoupStreak,     \* DSV4_SOUP_STREAK
  SoupTotal,      \* DSV4_SOUP_TOTAL
  RepStreak,      \* DSV4_REP_STREAK
  MaxTokens       \* bound: length limit of the output

ASSUME CommitAssumption ==
  /\ Oov \subseteq Tokens
  /\ Structured \in BOOLEAN /\ Reasons \in BOOLEAN
  /\ NumSpec \in Nat /\ Ahead \in Nat \ {0}
  /\ Views \subseteq {"drafts", "placeholders"}
  /\ Policy \in {"commit", "finish"}
  /\ GrammarSalvage \in BOOLEAN /\ SalvageGuard \in BOOLEAN
  /\ SalvageBudget \in Int
  /\ CutBack \in Nat \ {0}
  /\ SoupStreak \in Nat \ {0} /\ SoupTotal \in Nat \ {0}
  /\ RepStreak \in Nat \ {0}
  /\ MaxTokens \in Nat \ {0}

VARIABLES
  worker,     \* the history of the request on the workers
  flight,     \* blocks sampled and not yet seen by the scheduler
  status,     \* RequestStatus: "running", "stopped" or "error"
  ending,     \* what ended the request: its last log line
  out,        \* _output_token_ids
  enforce,    \* structured_output_request is not None
  reasoning,  \* not reasoning_ended
  matched,    \* what the grammar matcher has accepted
  budget,     \* _dsv4_post_salvage_budget, or Off
  sigWatch,   \* _dsv4_sig_watch
  streaks,    \* _dsv4_soup_streaks
  totals,     \* _dsv4_sig_totals
  repStreak,  \* _dsv4_rep_streak of the request
  abandoned   \* history: Len(out) when enforcement was abandoned, or Off

matcherVars == <<enforce, reasoning, matched, abandoned>>
guardVars == <<budget, sigWatch>>
tripwireVars == <<streaks, totals, repStreak>>
vars == <<worker, flight, status, ending, out, matcherVars, guardVars, tripwireVars>>

\* A guard that is not armed.
Off == -1

\* A sampled block: whether drafts were scheduled for it, its tokens, and the
\* length of the worker's history before it.
Blocks == [spec : BOOLEAN, tokens : Seq(Tokens) \ {<<>>}, at : Nat]

-------------------------------------------------------------------------------
Init ==
  /\ worker = <<>>
  /\ flight = <<>>
  /\ status = "running"
  /\ ending = "none"
  /\ out = <<>>
  /\ enforce = Structured
  /\ reasoning = Reasons
  /\ matched = <<>>
  /\ budget = Off
  /\ sigWatch = FALSE
  /\ streaks = [s \in Signatures |-> 0]
  /\ totals = [s \in Signatures |-> 0]
  /\ repStreak = 0
  /\ abandoned = Off

-------------------------------------------------------------------------------
(* The workers. *)

\* The tokens d[1], ..., d[m - 1], t may be sampled: the bitmask allows them.
\* The out-of-vocabulary sentinel surfaces whatever the mask (patch 0010).
Allowed(d, m, t, view) ==
  enforce /\ ~reasoning =>
    LET p == ShownDrafts(matched, d, view)
    IN  /\ \A i \in 1..(m - 1) : RowAllows(matched, d, p, i, d[i])
        /\ t \in Oov \/ RowAllows(matched, d, p, m, t)

\* A batch with the request runs: the m - 1 drafts accepted from a window of k
\* and the token sampled after them, appended to the history at once.  While
\* its grammar is enforced a request is only sampled when the scheduler has
\* seen every earlier block: that is what EngineStep!MaskFresh says.
Sample(k, m, view) ==
  /\ status = "running"
  /\ Len(flight) < (IF enforce THEN 1 ELSE Ahead)
  /\ Len(worker) < MaxTokens
  /\ k = 0 => worker = <<>> \/ NumSpec = 0 \/ Resumes
  /\ k > 0 => worker # <<>> /\ m >= MinBlock
  /\ \E d \in [1..k -> Tokens \ Oov], t \in Tokens :
       /\ m <= k => t # d[m]
       /\ Allowed(d, m, t, view)
       /\ LET b == [spec |-> k > 0, tokens |-> Append(Take(d, m - 1), t),
                    at |-> Len(worker)]
          IN  /\ worker' = worker \o b.tokens
              /\ flight' = Append(flight, b)
  /\ UNCHANGED <<status, ending, out, matcherVars, guardVars, tripwireVars>>

\* The output of a request that is finished is skipped.
Skip ==
  /\ status # "running"
  /\ flight # <<>>
  /\ flight' = Tail(flight)
  /\ UNCHANGED <<worker, status, ending, out, matcherVars, guardVars, tripwireVars>>

-------------------------------------------------------------------------------
(* The grammar filter. *)

\* How many of the tokens precede the part the grammar speaks of: the first of
\* that part follows the reasoning end marker.
GrammarStart(tokens) ==
  LET marks == {i \in 1..Len(tokens) : tokens[i] = ThinkEnd}
  IN  IF ~reasoning THEN 0 ELSE IF marks = {} THEN Len(tokens) ELSE Min(marks)

GrammarTokens(tokens) ==
  SubSeq(tokens, GrammarStart(tokens) + 1, Len(tokens))

\* Every block that ends short of the accepted prefix counts as completed.
KindIgnoringState(b) ==
  LET g == GrammarTokens(b.tokens)
  IN  IF ~b.spec \/ ~enforce \/ Probe(matched, g) = Len(g)
      THEN "clean" ELSE "completed"

\* filter_speculative_grammar_tokens, and what update_from_output makes of it:
\* TYPE-A ("completed"), TYPE-B under either policy, or nothing rejected.
Kind(b) ==
  LET g == GrammarTokens(b.tokens)
  IN  IF ~b.spec \/ ~enforce \/ Probe(matched, g) = Len(g)
      THEN "clean"
      ELSE IF ProbeTerminates(matched, g) THEN "completed"
      ELSE IF Policy = "finish" THEN "cut" ELSE "salvaged"

\* A rejected suffix that is dropped although the request goes on.
KeptPrefix(b) ==
  IF Kind(b) # "clean"
  THEN Take(b.tokens, GrammarStart(b.tokens)
                        + Probe(matched, GrammarTokens(b.tokens)))
  ELSE b.tokens

\* The whole block under the finish policy too.
KeptWhole(b) ==
  IF Kind(b) = "completed"
  THEN Take(b.tokens, GrammarStart(b.tokens)
                        + Probe(matched, GrammarTokens(b.tokens)))
  ELSE b.tokens

\* new_token_ids after the filter.
Kept(b) ==
  IF Kind(b) \in {"completed", "cut"}
  THEN Take(b.tokens, GrammarStart(b.tokens)
                        + Probe(matched, GrammarTokens(b.tokens)))
  ELSE b.tokens

\* The post-salvage guard in force while the block is committed: TYPE-B
\* salvage arms it before the commit.
Budget(b) ==
  IF Kind(b) = "salvaged"
  THEN IF SalvageBudget >= 0 THEN SalvageBudget ELSE Off
  ELSE budget

Watch(b) == IF Kind(b) = "salvaged" THEN SalvageGuard ELSE sigWatch

-------------------------------------------------------------------------------
(* The commit loop of _update_request_with_output. *)

\* The output with the first n tokens of the block.
After(b, n) == out \o Take(Kept(b), n)

\* A cap that is only seen when it is met exactly.
CapWhenSpent(b, n) == Budget(b) = 0

\* The budget goes below zero at the n-th token.
CapAt(b, n) == Budget(b) # Off /\ n > Budget(b)

\* The guard read before the salvage of this block arms it.
SignatureWatchedBefore(b, n) == sigWatch /\ SignatureHit(After(b, n))

\* The watch looks at the tail after every token.
SignatureAt(b, n) == Watch(b) /\ SignatureHit(After(b, n))

\* check_stop.
StopAt(b, n) ==
  Kept(b)[n] \in Stops \/ Len(out) + n >= MaxTokens

\* The tokens of the block the loop goes through.
Committed(b) ==
  LET ends == {n \in 1..Len(Kept(b)) :
                 CapAt(b, n) \/ SignatureAt(b, n) \/ StopAt(b, n)}
  IN  IF ends = {} THEN Len(Kept(b)) ELSE Min(ends)

\* A cut that may reach into earlier blocks.
UnflooredCut(n) == Len(out) + n - CutBack

\* The cut of the signature watch and of the soup tripwire after n tokens,
\* floored at the output of earlier blocks.
FlooredCut(n) == Max({Len(out), Len(out) + n - CutBack})

\* No event of the loop ends the request.
Survives(b) ==
  \A n \in 1..Len(Kept(b)) : ~CapAt(b, n) /\ ~SignatureAt(b, n) /\ ~StopAt(b, n)

\* The tripwires' counters after the block.
NextStreaks(b) ==
  LET tags == SoupTags(After(b, Len(Kept(b))), Len(Kept(b)))
  IN  [s \in Signatures |-> IF s \in tags THEN streaks[s] + 1 ELSE 0]

\* Totals that start over like the streaks.
ResetTotals(b) ==
  LET tags == SoupTags(After(b, Len(Kept(b))), Len(Kept(b)))
  IN  [s \in Signatures |-> IF s \in tags THEN totals[s] + 1 ELSE 0]

NextTotals(b) ==
  LET tags == SoupTags(After(b, Len(Kept(b))), Len(Kept(b)))
  IN  [s \in Signatures |-> IF s \in tags THEN totals[s] + 1 ELSE totals[s]]

NextRepStreak(b) ==
  IF RepeatsLine(After(b, Len(Kept(b))), Len(Kept(b)))
  THEN repStreak + 1 ELSE 0

Soup(b) ==
  \E s \in Signatures :
    NextStreaks(b)[s] >= SoupStreak \/ NextTotals(b)[s] >= SoupTotal

-------------------------------------------------------------------------------
(* The end of the handler. *)

\* The output is left with its first `cut` tokens, the block included, and the
\* grammar, if it is still enforced, advances over what is left of the block:
\* update_from_output's last part.  A rejection abandons enforcement, or ends
\* the request in error (0008).
Keep(b, cut, how) ==
  LET tokens   == Take(Kept(b), cut - Len(out))
      g        == GrammarTokens(tokens)
      live     == enforce /\ Kind(b) # "salvaged"
      rejected == live /\ g # <<>> /\ ~AcceptsTokens(matched, g)
  IN  /\ flight' = Tail(flight)
      /\ out' = Take(out \o Kept(b), cut)
      /\ matched' = IF live THEN Advanced(matched, g) ELSE matched
      /\ reasoning' = (reasoning /\ ThinkEnd \notin ToSet(tokens))
      /\ enforce' = (live /\ ~(rejected /\ GrammarSalvage))
      /\ abandoned' = IF enforce /\ ~enforce' THEN Len(out) ELSE abandoned
      /\ status' = IF rejected /\ ~GrammarSalvage THEN "error"
                   ELSE IF how = "none" THEN "running" ELSE "stopped"
      /\ ending' = IF rejected /\ ~GrammarSalvage THEN "rejected" ELSE how
      /\ budget' = IF Budget(b) = Off THEN Off ELSE Budget(b) - Committed(b)
      /\ sigWatch' = Watch(b)
      /\ UNCHANGED worker

\* An id past the vocabulary: the block is dropped and the request fails.
FinishOov(b) ==
  /\ \E i \in 1..Len(b.tokens) : b.tokens[i] \in Oov
  /\ flight' = Tail(flight)
  /\ enforce' = FALSE
  /\ status' = "error"
  /\ ending' = "oov"
  /\ UNCHANGED <<worker, out, reasoning, matched, abandoned, guardVars, tripwireVars>>

\* An empty block that leaves the request running.
SpinEmpty(b) ==
  /\ \A i \in 1..Len(b.tokens) : b.tokens[i] \notin Oov
  /\ Kept(b) = <<>>
  /\ UNCHANGED vars

\* The grammar keeps nothing of the block: the request ends here.
FinishEmpty(b) ==
  /\ \A i \in 1..Len(b.tokens) : b.tokens[i] \notin Oov
  /\ Kept(b) = <<>>
  /\ flight' = Tail(flight)
  /\ status' = "stopped"
  /\ ending' = Kind(b)
  /\ UNCHANGED <<worker, out, matcherVars, guardVars, tripwireVars>>

Committable(b) ==
  /\ \A i \in 1..Len(b.tokens) : b.tokens[i] \notin Oov
  /\ Kept(b) # <<>>

\* The budget runs out, and the output is cut back to before a tag that it
\* would end inside.
FinishCap(b) ==
  LET n == Committed(b)
  IN  /\ Committable(b)
      /\ CapAt(b, n)
      /\ Keep(b, Len(out) + n - Min({CleanCut(After(b, n)), n}), "cap")
      /\ UNCHANGED tripwireVars

\* A signature in the tail of a salvaged request.
FinishSignature(b) ==
  LET n == Committed(b)
  IN  /\ Committable(b)
      /\ ~CapAt(b, n) /\ SignatureAt(b, n)
      /\ Keep(b, FlooredCut(n), "signature")
      /\ UNCHANGED tripwireVars

\* A stop token or the length limit.
FinishStop(b) ==
  LET n == Committed(b)
  IN  /\ Committable(b)
      /\ ~CapAt(b, n) /\ ~SignatureAt(b, n) /\ StopAt(b, n)
      /\ Keep(b, Len(out) + n, "stop")
      /\ UNCHANGED tripwireVars

\* The tag-soup tripwire.
FinishSoup(b) ==
  /\ Committable(b)
  /\ Survives(b)
  /\ Soup(b)
  /\ Keep(b, FlooredCut(Len(Kept(b))), "soup")
  /\ streaks' = NextStreaks(b)
  /\ totals' = NextTotals(b)
  /\ UNCHANGED repStreak

\* The line-repetition tripwire: the whole block is dropped.
FinishRepetition(b) ==
  /\ Committable(b)
  /\ Survives(b)
  /\ ~Soup(b)
  /\ NextRepStreak(b) >= RepStreak
  /\ Keep(b, Len(out), "repetition")
  /\ streaks' = NextStreaks(b)
  /\ totals' = NextTotals(b)
  /\ repStreak' = NextRepStreak(b)

\* Nothing of the above: the request goes on, unless its grammar cut the block.
Commit(b) ==
  /\ Committable(b)
  /\ Survives(b)
  /\ ~Soup(b)
  /\ NextRepStreak(b) < RepStreak
  /\ Keep(b, Len(out) + Len(Kept(b)),
          IF Kind(b) \in {"completed", "cut"} THEN Kind(b) ELSE "none")
  /\ streaks' = NextStreaks(b)
  /\ totals' = NextTotals(b)
  /\ repStreak' = NextRepStreak(b)

\* update_from_output for the oldest block of a running request.
UpdateFromOutput ==
  /\ status = "running"
  /\ flight # <<>>
  /\ LET b == Head(flight)
     IN  \/ FinishOov(b) \/ FinishEmpty(b)
         \/ FinishCap(b) \/ FinishSignature(b) \/ FinishStop(b)
         \/ FinishSoup(b) \/ FinishRepetition(b) \/ Commit(b)

Run == \E k \in {0, NumSpec}, view \in Views : \E m \in 1..(k + 1) : Sample(k, m, view)

Done == status # "running" /\ flight = <<>> /\ UNCHANGED vars

Next == Run \/ UpdateFromOutput \/ Skip \/ Done

Spec == Init /\ [][Next]_vars

\* The engine keeps running batches and delivering them.
FairSpec == Spec /\ WF_vars(Run) /\ WF_vars(UpdateFromOutput)

-------------------------------------------------------------------------------
(* Properties. *)

\* The types of the variables.
TypeOK ==
  /\ worker \in Seq(Tokens)
  /\ flight \in Seq(Blocks)
  /\ status \in {"running", "stopped", "error"}
  /\ ending \in {"none", "oov", "completed", "cut", "cap", "signature", "stop",
                 "soup", "repetition", "rejected"}
  /\ out \in Seq(Tokens)
  /\ enforce \in BOOLEAN
  /\ reasoning \in BOOLEAN
  /\ matched \in Seq(Tokens)
  /\ budget \in Nat \cup {Off}
  /\ sigWatch \in BOOLEAN
  /\ streaks \in [Signatures -> Nat]
  /\ totals \in [Signatures -> Nat]
  /\ repStreak \in Nat
  /\ abandoned \in Nat \cup {Off}

\* The scheduler's history of a running request is the worker's, less the
\* blocks in flight: no drop of tokens, by the grammar filter, the guard or a
\* tripwire, ever leaves the request running (0012 30-37).
HistoriesAgree ==
  status = "running" =>
    /\ out = Take(worker, Len(out))
    /\ flight = <<>> => out = worker
    /\ \A i \in 1..Len(flight) :
         LET b    == flight[i]
             next == IF i = Len(flight) THEN Len(worker) ELSE flight[i + 1].at
         IN  /\ i = 1 => b.at = Len(out)
             /\ b.tokens = SubSeq(worker, b.at + 1, next)

\* What the client has been sent is never taken back: every cut, trim or drop
\* is floored at the block being committed (0015 76-79, 0019 56-58).
CommittedNeverRetracted == [][IsPrefix(out, out')]_vars

\* The part of the output that the grammar speaks of.
Answer ==
  LET marks == {i \in 1..Len(out) : out[i] = ThinkEnd}
  IN  IF ~Reasons THEN out
      ELSE IF marks = {} THEN <<>> ELSE SubSeq(out, Min(marks) + 1, Len(out))

\* As long as enforcement is not abandoned, the matcher and the answer are in
\* step and the answer is a prefix of a word, across reasoning boundaries,
\* truncated blocks and windows whose mask was only partly constrained.
EnforcedAnswerValid ==
  enforce /\ status # "error" => Answer = matched /\ Answer \in Reachable

\* TYPE-A: a request that ends because its grammar completed has delivered a
\* complete, schema-valid answer (patches/README.md 302-309).
CompletedIsWord == ending = "completed" => Answer \in Words

\* The unconstrained tail of a request is bounded wherever its enforcement was
\* abandoned (patches/README.md 353-359: the single, per-request salvage point).
TailBounded ==
  abandoned # Off /\ SalvageBudget >= 0 =>
    /\ status = "running" => Len(out) - abandoned <= SalvageBudget
    /\ Len(out) - abandoned <= SalvageBudget + 1

\* Under the finish policy the client never receives a token the grammar
\* rejects (0025 54-61).
FinishedAnswerValid == Policy = "finish" /\ status # "error" => Answer \in Reachable

\* When every window is rewritten with its drafts, no block is TYPE-B and
\* enforcement lasts as long as the request: placeholder windows are the only
\* source of invalid commits (0028 PATCH.md, root cause).
EnforcementHolds == Structured /\ status # "error" => enforce

\* While the watch is on, no signature is in its window of a running request,
\* although blocks bring several tokens at a time.
WatchedTailClean == status = "running" /\ sigWatch => ~SignatureHit(out)

\* No signature that a salvaged request completes is delivered whole: each
\* post-salvage token is checked, and on a hit the signature is trimmed
\* (patches/README.md 360-366).
SignaturesTrimmed ==
  sigWatch /\ ending # "none" =>
    \A s \in Signatures : \A i \in Occurrences(s, out) : i <= abandoned

\* A signature mentioned once never ends the request (0015 32-34).
OneMentionSurvives ==
  ending = "soup" =>
    \E s \in Signatures : Cardinality(Occurrences(s, worker)) > 1

\* The tripwire bounds what leaks of the spellings its prefilter lets through:
\* a running request has let fewer than SoupTotal blocks with any one signature
\* so spelt through, however sparse (0017v2).  A spelling with none of the first
\* ids (0015 17-25, 57-58) may never be decoded, and nothing bounds it.
SoupBounded ==
  status = "running" =>
    \A s \in Signatures :
      Cardinality(Occurrences(Passing(s), out)) <= (SoupTotal - 1) * (NumSpec + 1)

\* A loop that repeats one line is cut: RepStreak blocks after its line fills
\* the window, whatever the blocks' lengths (0019, 0019v2).
LoopsBounded ==
  status = "running" =>
    \A i \in 1..Len(out) :
      LET n == Len(out) - i + 1
      IN  (out[i] \in Lines /\ \A j \in i..Len(out) : out[j] = out[i])
            => n <= (RepMin - 1) + (RepStreak - 1) * (NumSpec + 1)

\* Every request ends: no block that keeps nothing is sampled again forever
\* (0010, "would spin until max_tokens").
RequestEnds == <>(status # "running")

===============================================================================
