-------------------------- MODULE DraftTokensHandler --------------------------
(***************************************************************************)
(* The draft map of DraftTokensHandler (patch 0028v3): a Python dict from  *)
(* request ids to draft rows.  A dict keeps its keys in insertion order,   *)
(* and assigning to a key that is present leaves the key where it is; both *)
(* matter, because the cap is enforced by popping the first key.           *)
(*                                                                         *)
(* A row is abstracted to its origin: the position, in the request's own   *)
(* stream of scheduled slots, that the proposed drafts continue.           *)
(***************************************************************************)
EXTENDS Integers, Sequences, FiniteSets, SequencesExt

CONSTANTS
  Reqs,   \* request ids
  Cap     \* _draft_map_cap

ASSUME CapAssumption == Cap \in Nat \ {0}

\* The origin of a window that was never rewritten: [-1] * k.
Placeholder == -1

\* A draft map: its keys in insertion order and the row of each.
DraftMaps == [order : Seq(Reqs), row : [Reqs -> Int]]

EmptyDraftMap == [order |-> <<>>, row |-> [r \in Reqs |-> Placeholder]]

HasRow(h, r) == r \in ToSet(h.order)

\* The orders in which the keys of `ids` that the map lacks may be inserted:
\* the order of the rows within a batch is the model runner's affair.
NewKeyOrders(h, ids) == SetToSeqs({r \in ids : ~HasRow(h, r)})

\* A merge that keeps the row of a key that is present (dict.setdefault).
SetMissingDraftTokens(h, ids, origin, newKeys) ==
  [order |-> h.order \o newKeys,
   row   |-> [r \in Reqs |-> IF r \in ids /\ ~HasRow(h, r)
                             THEN origin[r] ELSE h.row[r]]]

\* set_draft_tokens: the rows of one sampled batch are merged at once.
SetDraftTokens(h, ids, origin, newKeys) ==
  [order |-> h.order \o newKeys,
   row   |-> [r \in Reqs |-> IF r \in ids THEN origin[r] ELSE h.row[r]]]

\* The map without its first n keys.
DropFirst(h, n) ==
  LET kept == SubSeq(h.order, n + 1, Len(h.order))
  IN  [order |-> kept,
       row   |-> [r \in Reqs |->
                    IF r \in ToSet(kept) THEN h.row[r] ELSE Placeholder]]

\* The loop with >= for >.
EvictAtCap(h) ==
  IF Len(h.order) >= Cap THEN DropFirst(h, Len(h.order) - Cap + 1) ELSE h

\* get_draft_tokens: keys are popped from the front while the map is larger
\* than its cap.
EvictOverCap(h) ==
  IF Len(h.order) > Cap THEN DropFirst(h, Len(h.order) - Cap) ELSE h

===============================================================================
