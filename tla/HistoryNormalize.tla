--------------------------- MODULE HistoryNormalize ---------------------------
(***************************************************************************)
(* Patch 0021 (apply_0021.py): raw DSML blocks that a client echoes in the *)
(* text of an assistant message become tool calls.  A text is a sequence   *)
(* of tags and words; a call is named by the places of its tags in it.     *)
(***************************************************************************)
EXTENDS Integers, Sequences, SequencesExt, FiniteSets, FiniteSetsExt, Functions

CONSTANTS
  Pieces,      \* bound: what texts are put together from
  MaxPieces    \* bound: pieces of a text

VARIABLE content   \* the text of an assistant message without tool calls

Init == content \in {FlattenSeq(s) : s \in UNION {[1..n -> Pieces] : n \in 0..MaxPieces}}

Next == UNCHANGED content

Spec == Init /\ [][Next]_content

None == [leftover |-> <<>>, calls |-> {}, lifted |-> FALSE]

-------------------------------------------------------------------------------
(* The expressions.  "param" opens a parameter; "badparam" one whose value is *)
(* said to be JSON and is not.                                                *)

\* Which opening tag is open once place k is read, if o was before; 0 for none.
After(c, o, k, opening, closing) ==
  IF k \notin DOMAIN c THEN o
  ELSE IF o = 0 THEN (IF c[k] \in opening THEN k ELSE 0)
  ELSE IF c[k] = closing THEN 0 ELSE o

Open(c, a, b, opening, closing) ==
  LET open[k \in 0..b] == IF k < a THEN 0 ELSE After(c, open[k - 1], k, opening, closing)
  IN  open

\* What an opening tag and the first closing tag after it enclose, from left to
\* right within a..b, without overlap.
Enclosed(c, a, b, opening, closing) ==
  LET open == Open(c, a, b, opening, closing)
      Closes(j) == j \in DOMAIN c /\ open[j - 1] # 0 /\ c[j] = closing
  IN  {<<open[j - 1], j>> : j \in {h \in a..b : Closes(h)}}

Params == {"param", "badparam"}

Blocks(c)        == Enclosed(c, 1, Max(DOMAIN c \cup {0}), {"calls"}, "/calls")
Invokes(c, m)    == Enclosed(c, m[1] + 1, m[2] - 1, {"invoke"}, "/invoke")
ParamsOf(c, inv) == Enclosed(c, inv[1] + 1, inv[2] - 1, Params, "/param")

Opened(c, m, tags) == {i \in (m[1] + 1)..(m[2] - 1) : i \in DOMAIN c /\ c[i] \in tags}

\* What is complete is taken, the rest of the block is left out.
TakesComplete(c, m) == Invokes(c, m) # {}

\* As many were found whole in the block as are opened in it.
Whole(c, m) ==
  LET invokes == Invokes(c, m)
  IN  /\ invokes # {}
      /\ Cardinality(invokes) = Cardinality(Opened(c, m, {"invoke"}))
      /\ \A v \in invokes :
           /\ Cardinality(ParamsOf(c, v)) = Cardinality(Opened(c, v, Params))
           /\ \A p \in ParamsOf(c, v) : c[p[1]] # "badparam"

\* The text up to the first block and after the last.
OutsideOfAll(c, blocks) ==
  Restrict(c, {k \in DOMAIN c : \A m, n \in blocks : k \notin m[1]..n[2]})

\* The first block alone is taken out.
OutsideOfFirst(c, blocks) ==
  Restrict(c, {k \in DOMAIN c : \E m \in blocks :
                 (\A n \in blocks : m[1] <= n[1]) /\ k \notin m[1]..m[2]})

\* The text without its blocks.  What is left of it keeps its places, whose order
\* is all that the expressions see.
Outside(c, blocks) ==
  Restrict(c, {k \in DOMAIN c : \A m \in blocks : k \notin m[1]..m[2]})

\* extract_dsml_tool_calls.  A call is named by its place, and the calls are listed
\* in the order of their places.
Extract(c) ==
  LET blocks == Blocks(c)
  IN  IF blocks = {} \/ \E b \in blocks : ~Whole(c, b) THEN None
      ELSE [leftover |-> Outside(c, blocks), lifted |-> TRUE,
            calls |-> {[at |-> v[1], params |-> ParamsOf(c, v)] :
                         v \in UNION {Invokes(c, b) : b \in blocks}}]

-------------------------------------------------------------------------------
(* Properties. *)

\* Where a text is, tag by tag: outside, in a block, an invocation, a parameter,
\* or "wrong" if the tags do not nest.
Move(at, tag) ==
  CASE tag = "word"                                    -> at
    [] at = "out"    /\ tag = "calls"                  -> "empty"
    [] at \in {"empty", "block"} /\ tag = "invoke"     -> "invoke"
    [] at = "block"  /\ tag = "/calls"                 -> "out"
    [] at = "invoke" /\ tag = "param"                  -> "param"
    [] at = "invoke" /\ tag = "/invoke"                -> "block"
    [] at = "param"  /\ tag = "/param"                 -> "invoke"
    [] OTHER                                           -> "wrong"

Level(c) ==
  LET level[k \in 0..Len(c)] == IF k = 0 THEN "out" ELSE Move(level[k - 1], c[k])
  IN  level

Nested(c) == Level(c)[Len(c)] = "out"

Places(c, tag) == {i \in DOMAIN c : c[i] = tag}

\* A text whose tags nest is lifted whole (lines 43-46): each invocation of each
\* block becomes a call with its own parameters, and every word outside the
\* blocks, between two of them too, stays in the message.
NestedIsLifted ==
  Nested(content) /\ Places(content, "calls") # {} =>
    LET x == Extract(content)
    IN  /\ x.lifted
        /\ {call.at : call \in x.calls} = Places(content, "invoke")
        /\ \A call \in x.calls :
             {p[1] : p \in call.params}
               = {i \in Places(content, "param") :
                    i > call.at /\ \A j \in call.at..i : content[j] # "/invoke"}
        /\ DOMAIN x.leftover = {i \in Places(content, "word") : Level(content)[i] = "out"}

\* Prose that mentions the tags stays untouched: calls are lifted only if every
\* invocation and parameter opened in a block is closed before another opens, so
\* none is cut short or swallowed by the one before it.
NothingGuessed ==
  LET ClosedBefore(i, m, closing, others) ==
        \E j \in (i + 1)..m[2] :
          content[j] = closing /\ \A k \in (i + 1)..(j - 1) : content[k] \notin others
      x == Extract(content)
  IN  x.lifted =>
        \A m \in Blocks(content) : \A i \in m[1]..m[2] :
          /\ content[i] = "invoke" =>
               /\ ClosedBefore(i, m, "/invoke", {"invoke"})
               /\ \E call \in x.calls : call.at = i
          /\ content[i] = "param" /\ (\E k \in m[1]..i : content[k] = "invoke" /\
               \A l \in k..i : content[l] # "/invoke") =>
               ClosedBefore(i, m, "/param", Params \cup {"/invoke"})

\* What is left holds no block, so that the next turn, which sends it again, has
\* nothing more to lift.
LiftedOnce == Extract(content).lifted => ~Extract(Extract(content).leftover).lifted

===============================================================================
