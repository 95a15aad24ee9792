-------------------------------- MODULE PPRelay --------------------------------
(***************************************************************************)
(* The relay of sampled tokens and draft proposals from the last pipeline  *)
(* rank to another (patches 0003 and 0004): three broadcasts a step on one *)
(* communicator, which matches them by their order alone.                  *)
(***************************************************************************)
EXTENDS Integers, Sequences, FiniteSets, FiniteSetsExt

CONSTANTS
  Slots,         \* rows of req_states, numbers
  MaxSampleLen,  \* num_speculative_tokens + 1
  Depth,         \* steps between a batch and the use of its outputs
  MaxSteps       \* bound: batches

VARIABLES
  plan,      \* the batches scheduled: [reqs, need, prev]
  gen,       \* slot generation counters: aborts and reuse
  since,     \* the last batch of each slot's request, or None
  other,     \* batches the other rank has run
  last,      \* batches the last rank has sampled
  proposed,  \* ... and drafted for
  sends, recvs,     \* broadcasts posted by the two ranks and not matched
  queue,     \* PendingRecv of the other rank: [step, need, gen], or NoRecv
  drafts,    \* req_states.draft_tokens of the other rank, by the batch they are from
  used       \* what it verifies in its latest batch

vars == <<plan, gen, since, other, last, proposed, sends, recvs, queue, drafts, used>>

None == 0
NoRecv == [step |-> None, need |-> {}, gen |-> gen]
LastRow == Max(Slots)

Init ==
  /\ plan = <<>>
  /\ gen = [s \in Slots |-> 0] /\ since = [s \in Slots |-> None]
  /\ other = 0 /\ last = 0 /\ proposed = 0
  /\ sends = <<>> /\ recvs = <<>> /\ queue = <<>>
  /\ drafts = [s \in Slots |-> None]
  /\ used = [s \in {} |-> None]

-------------------------------------------------------------------------------
(* The scheduler. *)

\* A request is scheduled again when its last outputs are due (rotation); one
\* that has sampled goes on to, and a step samples for whom its mask says.
Eligible(s, m) == since[s] = None \/ since[s] + Depth <= m

Decodes(s) == since[s] # None /\ s \in plan[since[s]].need

Schedule(reqs, need) ==
  LET m == Len(plan) + 1
  IN  /\ m <= MaxSteps /\ other = Len(plan)
      /\ \A s \in reqs : Eligible(s, m)
      /\ {s \in reqs : Decodes(s)} \subseteq need
      /\ plan' = Append(plan, [reqs |-> reqs, need |-> need, prev |-> since])
      /\ since' = [s \in Slots |-> IF s \in reqs THEN m ELSE since[s]]
      /\ UNCHANGED <<gen, other, last, proposed, sends, recvs, queue, drafts, used>>

\* A request is aborted or ends; its slot is free for another.
Abort(s) ==
  /\ since[s] # None /\ other = Len(plan) /\ Len(plan) < MaxSteps
  /\ gen' = [gen EXCEPT ![s] = @ + 1]
  /\ since' = [since EXCEPT ![s] = None]
  /\ UNCHANGED <<plan, other, last, proposed, sends, recvs, queue, drafts, used>>

-------------------------------------------------------------------------------
(* The other rank. *)

Op(kind, step, count) == [kind |-> kind, step |-> step, count |-> count]

\* Some request of the batch has drafts to verify.
Drafted(m) ==
  \E s \in plan[m].reqs : plan[m].prev[s] # None /\ s \in plan[plan[m].prev[s]].need
Needed(m) == plan[m].need # {}
Rows(m) == Cardinality(plan[m].reqs)

\* receive: nothing is posted if no request needs its output.
Receive(m) ==
  IF ~Needed(m) THEN <<>>
  ELSE << Op("sampled", m, Rows(m) * MaxSampleLen), Op("combined", m, 2 * Rows(m)) >>
       \o (IF MaxSampleLen > 1 THEN <<Op("draft", m, Rows(m) * (MaxSampleLen - 1))>> ELSE <<>>)

\* idx_mapping, -1 for a request that was not to be sampled or is gone.
IdxMapping(p) ==
  [s \in plan[p.step].reqs |-> IF s \in p.need /\ gen[s] = p.gen[s] THEN s ELSE -1]

\* Row -1 is the last one.
ScatterAll(d, mapping, n) ==
  [s \in Slots |->
     IF \E r \in DOMAIN mapping : mapping[r] = s \/ (mapping[r] = -1 /\ s = LastRow)
     THEN n ELSE d[s]]

\* The relayed drafts go to the rows of the requests that are still there.
Scatter(d, mapping, n) ==
  [s \in Slots |-> IF \E r \in DOMAIN mapping : mapping[r] >= 0 /\ mapping[r] = s
                   THEN n ELSE d[s]]

\* The outputs of the oldest batch: its event fires after its three broadcasts.
Arrived(p) == \A i \in DOMAIN recvs : recvs[i].step # p.step

RunOther ==
  LET m   == other + 1
      due == Len(queue) = Depth
      d   == IF due /\ Head(queue).step # None
             THEN Scatter(drafts, IdxMapping(Head(queue)), Head(queue).step) ELSE drafts
  IN  /\ m <= Len(plan)
      /\ due => Arrived(Head(queue))
      /\ drafts' = d
      /\ used' = [s \in plan[m].reqs |-> d[s]]
      /\ recvs' = recvs \o Receive(m)
      /\ queue' = Append(IF due THEN Tail(queue) ELSE queue,
                         IF Needed(m) THEN [step |-> m, need |-> plan[m].need, gen |-> gen]
                         ELSE NoRecv)
      /\ other' = m
      /\ UNCHANGED <<plan, gen, since, last, proposed, sends>>

-------------------------------------------------------------------------------
(* The last rank. *)

\* The sampler's own width.
AsSampled(width) == width
Padded(width) == MaxSampleLen

\* broadcast.
RunLast ==
  LET m == last + 1
  IN  /\ m <= other /\ proposed = last
      /\ sends' = sends \o
           (IF ~Needed(m) THEN <<>>
            ELSE << Op("sampled", m, Rows(m) * Padded(IF Drafted(m) THEN MaxSampleLen ELSE 1)),
                    Op("combined", m, 2 * Rows(m)) >>)
      /\ last' = m
      /\ UNCHANGED <<plan, gen, since, other, proposed, recvs, queue, drafts, used>>

\* The drafts are broadcast whatever the mask says.
AlwaysRelayed(m) == MaxSampleLen > 1
Relayed(m) == MaxSampleLen > 1 /\ Needed(m)

\* propose, then broadcast_draft.
Propose ==
  /\ proposed < last
  /\ proposed' = last
  /\ sends' = IF Relayed(last)
              THEN Append(sends, Op("draft", last, Rows(last) * (MaxSampleLen - 1))) ELSE sends
  /\ UNCHANGED <<plan, gen, since, other, last, recvs, queue, drafts, used>>

\* NCCL: two broadcasts of one size complete together.
Match ==
  /\ sends # <<>> /\ recvs # <<>>
  /\ Head(sends).count = Head(recvs).count
  /\ sends' = Tail(sends) /\ recvs' = Tail(recvs)
  /\ UNCHANGED <<plan, gen, since, other, last, proposed, queue, drafts, used>>

Over == Len(plan) = MaxSteps /\ proposed = MaxSteps /\ recvs = <<>> /\ sends = <<>>

Next ==
  \/ \E reqs \in (SUBSET Slots) \ {{}} : \E need \in SUBSET reqs : Schedule(reqs, need)
  \/ \E s \in Slots : Abort(s)
  \/ RunOther \/ RunLast \/ Propose \/ Match
  \/ Over /\ UNCHANGED vars

Spec == Init /\ [][Next]_vars

-------------------------------------------------------------------------------
(* Properties. *)

\* The two ranks post the same broadcasts in the same order, whatever their lag,
\* the masks and the widths of the samples: NCCL never pairs two of another kind,
\* step or size, which would hang both ranks or mix the data up.
BroadcastsPair ==
  \A i \in 1..Min({Len(sends), Len(recvs)}) : sends[i] = recvs[i]

\* A request that has sampled is verified, in its next batch, against the drafts
\* that the last rank proposed in its previous one, although other batches,
\* aborts and reused slots come in between.
VerifiesRelayedDrafts ==
  \A s \in DOMAIN used :
    LET n == plan[other].prev[s]
    IN  n # None /\ s \in plan[n].need => used[s] = n

\* What the relay promises: the ranks never disagree about a broadcast, nor about
\* whose drafts it brings.
RelayAgrees == BroadcastsPair /\ VerifiesRelayedDrafts

===============================================================================
