-------------------------------- MODULE Grammar --------------------------------
(***************************************************************************)
(* The grammar matcher of a structured request and the bitmask built from  *)
(* it.  A grammar is a finite language, a set of token sequences; a matcher*)
(* is the sequence it has accepted, and it has terminated when that        *)
(* sequence is a word.                                                     *)
(***************************************************************************)
EXTENDS Integers, Sequences, SequencesExt, FiniteSetsExt

CONSTANTS
  Tokens,   \* token ids
  Words     \* what the grammar generates

ASSUME WordsAssumption == Words \subseteq Seq(Tokens)

\* What a live or terminated matcher may have accepted.
Reachable == UNION {{SubSeq(w, 1, n) : n \in 0..Len(w)} : w \in Words}

Terminated(s) == s \in Words

\* The first n tokens of a sequence.
Take(t, n) == SubSeq(t, 1, n)

\* A probe that offers a terminated matcher one more token.
ProbePastEnd(s, t) ==
  Max({0} \cup {n \in 1..Len(t) :
                  \/ s \o Take(t, n) \in Reachable
                  \/ s \o Take(t, n - 1) \in Words})

\* validate_tokens_ex: how many of the tokens t a matcher in state s accepts,
\* stopping once it terminates.  The matcher is rolled back.
Probe(s, t) ==
  Max({0} \cup {n \in 1..Len(t) :
                  /\ s \o Take(t, n) \in Reachable
                  /\ \A k \in 0..(n - 1) : s \o Take(t, k) \notin Words})

\* Whether the probe ended in a terminated matcher.
ProbeTerminates(s, t) == Terminated(s \o Take(t, Probe(s, t)))

\* accept_tokens succeeds: a terminated matcher takes nothing more, and what
\* follows the token that terminates it is dropped.
AcceptsTokens(s, t) ==
  ~Terminated(s) /\ (Probe(s, t) = Len(t) \/ ProbeTerminates(s, t))

\* The state in which accept_tokens leaves the matcher.
Advanced(s, t) == s \o Take(t, Probe(s, t))

\* Windows that are never rewritten.
ShowsPlaceholders(s, d, view) == 0

\* How many drafts of a window the scheduler's copy of it shows: the prefix
\* that the grammar accepts, padded with -1, or placeholders only.
ShownDrafts(s, d, view) == IF view = "drafts" THEN Probe(s, d) ELSE 0

\* grammar_bitmask: whether row i of the mask of window d, whose copy shows p
\* drafts, allows the token t.  The row of the first -1 is still filled, the
\* rows after it are free, and the bonus row is filled from a matcher that
\* never passed the first -1.  A terminated matcher leaves its rows free.
RowAllows(s, d, p, i, t) ==
  LET state == s \o Take(d, Min({i - 1, p}))
  IN  \/ i > p + 1 /\ i <= Len(d)
      \/ Terminated(state)
      \/ Append(state, t) \in Reachable

===============================================================================
