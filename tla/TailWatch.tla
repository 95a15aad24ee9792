------------------------------- MODULE TailWatch -------------------------------
(***************************************************************************)
(* What the scheduler looks for in the tail of a request's output: control-*)
(* tag signatures (patches 0014, 0015, 0017), half-written tags (0017) and *)
(* repeated lines (0019, 0019v2).  The code matches decoded text, which    *)
(* different token sequences can show: here a signature is the set of its  *)
(* spellings, the token sequences whose text shows it, and a tag or a line *)
(* is known by the class of its tokens.                                    *)
(***************************************************************************)
EXTENDS Integers, Sequences, SequencesExt, FiniteSetsExt

CONSTANTS
  Signatures,    \* _DSV4_SIG_STRINGS, each the set of its spellings
  Encoded,       \* the spelling of a signature that is encoded alone
  Opens,         \* tokens after which the text is inside an unclosed tag
  Closes,        \* tokens that close a tag
  Lines,         \* tokens that are a short line of their own
  SigWindow,     \* tail scanned by the post-salvage watch
  Overlap,       \* what the tripwires see of the tokens before the block
  TailWindow,    \* tail scanned by the clean cut
  FragmentMax,   \* length of a fragment past which the clean cut gives up
  MaxBack,       \* max_back of the clean cut
  RepWindow,     \* _dsv4_rep_window
  RepMin         \* occurrences that make a line repeated

ASSUME WatchAssumption ==
  /\ \A s \in Signatures : Encoded[s] \in s
  /\ SigWindow \in Nat /\ Overlap \in Nat /\ TailWindow \in Nat
  /\ FragmentMax \in Nat /\ MaxBack \in Nat
  /\ RepWindow \in Nat /\ RepMin \in Nat

\* The last n tokens.
LastTokens(t, n) == SubSeq(t, Max({1, Len(t) - n + 1}), Len(t))

\* The places of t where a spelling of signature s is complete.
Occurrences(s, t) ==
  {i \in 1..Len(t) :
     \E w \in s : Len(w) <= i /\ SubSeq(t, i - Len(w) + 1, i) = w}

\* _dsv4_signature_hit.
SignatureHit(out) ==
  \E s \in Signatures : Occurrences(s, LastTokens(out, SigWindow)) # {}

\* The second version's fixed tail.
FixedTailTags(out, n) ==
  {s \in Signatures : Occurrences(s, LastTokens(out, SigWindow)) # {}}

\* _dsv4_sig_first_ids.
SigFirstIds == {Encoded[s][1] : s \in Signatures}

\* _dsv4_soup_tags: the signatures in the block of n new tokens and the
\* overlap before it, which is decoded only if it has one of the first ids.
SoupTags(out, n) ==
  LET win == LastTokens(out, n + Overlap)
  IN  IF \E i \in DOMAIN win : win[i] \in SigFirstIds
      THEN {s \in Signatures : Occurrences(s, win) # {}}
      ELSE {}

\* The spellings of a signature that make the tripwire decode their window,
\* whatever else is in it.
Passing(s) == {w \in s : \E k \in DOMAIN w : w[k] \in SigFirstIds}

\* _dsv4_clean_cut: how many tokens to drop so that the output does not end
\* inside a tag.
CleanCut(out) ==
  LET tail  == LastTokens(out, TailWindow)
      opens == {i \in DOMAIN tail : tail[i] \in Opens}
      size  == Len(tail) - Max(opens) + 1
  IN  IF \/ opens = {}
         \/ \E i \in Max(opens)..Len(tail) : tail[i] \in Closes
         \/ size > FragmentMax
      THEN 0
      ELSE Min({size, MaxBack})

\* The window of 0019 before 0019v2.
UnflooredRepWindow(n) == n + Overlap

RepetitionWindow(n) == Max({n + Overlap, RepWindow})

\* _dsv4_rep_lines: some short line repeats in the window.
RepeatsLine(out, n) ==
  LET tail == LastTokens(out, RepetitionWindow(n))
  IN  \E l \in Lines : Cardinality({i \in DOMAIN tail : tail[i] = l}) >= RepMin

===============================================================================
