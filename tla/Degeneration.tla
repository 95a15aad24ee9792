----------------------------- MODULE Degeneration -----------------------------
(***************************************************************************)
(* What one streamed answer is made of and when it counts as degenerate    *)
(* (chat_stream and degeneration in bench_chat_accumulate.py).             *)
(***************************************************************************)
EXTENDS Integers, Sequences, SequencesExt, FiniteSets, FiniteSetsExt

CONSTANTS
  Words,          \* the tokens that degeneration tells apart
  MaxDeltas, MaxPiece,      \* bounds: deltas of a stream, tokens of a delta
  GramLength, MaxRepeats, MinTokens,
  ShareNum, ShareDen        \* the share of one token that counts as a collapse

VARIABLE stream   \* the deltas the server sends: records [field, toks]

Deltas == [field : {"reasoning", "reasoning_content", "content"},
           toks : UNION {[1..n -> Words] : n \in 1..MaxPiece}]

Init == stream \in UNION {[1..n -> Deltas] : n \in 0..MaxDeltas}

Next == UNCHANGED stream

-------------------------------------------------------------------------------
\* The older name of the field only.
OldThinkFields == {"reasoning_content"}
ThinkFields == {"reasoning", "reasoning_content"}

Joined(s, fields) ==
  FlattenSeq([d \in DOMAIN s |-> IF s[d].field \in fields THEN s[d].toks ELSE <<>>])

\* The two texts of the answer, each joined from its own deltas.
ChatStream(s) == [text      |-> Joined(s, {"content"}),
                  reasoning |-> Joined(s, ThinkFields)]

ngrams(toks, n) == [i \in 1..(Len(toks) - n + 1) |-> SubSeq(toks, i, i + n - 1)]

Often(f, x) == Cardinality({i \in DOMAIN f : f[i] = x})
MostCommon(f) == IF DOMAIN f = {} THEN 0 ELSE Max({Often(f, f[i]) : i \in DOMAIN f})

\* An n-gram repeated too often, or one token that owns too much of the text.
Degenerate(toks) ==
  /\ Len(toks) >= MinTokens
  /\ \/ MostCommon(ngrams(toks, GramLength)) >= MaxRepeats
     \/ ShareDen * MostCommon(toks) >= ShareNum * Len(toks)

\* Only what the client shows.
FlaggedText(r) == Degenerate(r.text)

\* The visible answer, and the answer after its reasoning.
Flagged(r) == Degenerate(r.text) \/ Degenerate(r.reasoning \o r.text)

-------------------------------------------------------------------------------
(* Properties. *)

\* toks repeats a phrase of p tokens over n of them, starting anywhere.
Loops(toks, p, n) ==
  \E a \in 1..(Len(toks) - n + 1) :
    \A i \in a..(a + n - 1 - p) : toks[i] = toks[i + p]

Sent(fields) ==
  FoldLeft(LAMBDA acc, d : IF d.field \in fields THEN acc \o d.toks ELSE acc, <<>>, stream)

\* A collapse into repetition is flagged wherever it starts: in the answer or
\* in the reasoning, under either name of its field, whatever else the answer
\* holds and however the stream is cut into deltas, once its phrase of p tokens
\* covers GramLength + (MaxRepeats - 1) * p of them (lines 87-89, 377-378).
LoopsFlagged ==
  \A toks \in {Sent({"content"}), Sent({"reasoning", "reasoning_content"})} :
    (\E p \in 1..Len(toks) : Loops(toks, p, GramLength + (MaxRepeats - 1) * p))
      => Flagged(ChatStream(stream))

===============================================================================
