---------------------------- MODULE GrammarLockstep ----------------------------
(***************************************************************************)
(* What the engine promises to the grammar of a structured request, however *)
(* many batches it keeps in flight: masks and grammar steps alternate.  A   *)
(* mask is computed from the grammar state at the request's current         *)
(* position, and while it is outstanding no second mask is computed; what   *)
(* was sampled under it advances the grammar from the very state the mask   *)
(* was computed for.                                                        *)
(***************************************************************************)
EXTENDS Integers

CONSTANT Reqs   \* the requests with a grammar

VARIABLES
  live,   \* is the request still there?
  pos,    \* the slots its grammar has seen
  mask    \* the position the outstanding mask was computed at, or -1

vars == <<live, pos, mask>>

NoMask == -1

Init ==
  /\ live = [r \in Reqs |-> TRUE]
  /\ \A r \in Reqs : pos[r] = 0
  /\ mask = [r \in Reqs |-> NoMask]

\* The grammar's state is read to build a mask.
ComputeMask(r) ==
  /\ live[r] /\ live'[r]
  /\ mask[r] = NoMask
  /\ mask'[r] = pos[r]
  /\ pos'[r] = pos[r]

\* The slots sampled under the outstanding mask are settled.
Settle(r) ==
  /\ live[r] /\ live'[r]
  /\ mask[r] = pos[r]
  /\ mask'[r] = NoMask
  /\ pos'[r] > pos[r]

\* Slots of a prefill chunk are settled; no mask is involved.
Prefill(r) ==
  /\ live[r] /\ live'[r]
  /\ mask[r] = NoMask
  /\ mask'[r] = NoMask
  /\ pos'[r] > pos[r]

\* The request finishes, settling its last slots, or is aborted.
Leave(r) ==
  /\ live[r] /\ ~live'[r]
  /\ mask'[r] = NoMask
  /\ \/ pos'[r] = pos[r]
     \/ mask[r] = pos[r] /\ pos'[r] > pos[r]

Stay(r) ==
  /\ live'[r] = live[r]
  /\ pos'[r] = pos[r]
  /\ mask'[r] = mask[r]

\* The requests of a batch move together, each in its own way.
Next == \A r \in Reqs : \/ ComputeMask(r) \/ Settle(r) \/ Prefill(r)
                        \/ Leave(r) \/ Stay(r)

Spec == Init /\ [][Next]_vars

===============================================================================
