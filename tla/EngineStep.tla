------------------------------ MODULE EngineStep ------------------------------
(***************************************************************************)
(* The engine's step loop under pipeline parallelism: EngineCore.          *)
(* step_with_batch_queue with the structured-output drain of patch 0027,   *)
(* the in-flight predicate of patch 0028v2 and the draft map of 0028v3.    *)
(*                                                                         *)
(* Each step schedules a batch and either samples it at once (immediate)   *)
(* or, when some structured request in it still has slots in flight, keeps *)
(* it aside (deferred), pops the oldest batch of the queue, drains the     *)
(* queue until the grammar of every request in the batch has caught up,    *)
(* rewrites its speculative windows with the drafts the workers proposed,  *)
(* and only then builds its grammar bitmask and samples it.                *)
(*                                                                         *)
(* Positions count a request's scheduled slots: 1 + w for a decode batch   *)
(* with a window of w drafts.  `scheduled` and `settled` are the history   *)
(* the scheduler itself does not keep; the code's only view of it is the   *)
(* counter `inFlight`, which is num_output_placeholders under the          *)
(* AsyncScheduler (ChunkShare = 0: prefill chunks have no placeholder) and *)
(* num_in_flight_tokens under the sync one (a chunk counts its tokens).    *)
(***************************************************************************)
EXTENDS DraftTokensHandler

CONSTANTS
  Structured,   \* the requests with a grammar
  Depth,        \* batch_queue_size
  Rotation,     \* steps between two decodes of a request (pp_size)
  NumSpec,      \* speculative tokens per window
  ChunkShare,   \* what a prefill chunk adds to the counter
  MaxNumSeqs,   \* max_num_seqs
  MaxPos,       \* bound: slots scheduled per request
  None          \* no deferred batch

ASSUME EngineAssumption ==
  /\ IsFiniteSet(Reqs)
  /\ Structured \subseteq Reqs
  /\ Depth \in Nat \ {0}
  /\ Rotation \in Nat \ {0}
  /\ NumSpec \in Nat
  /\ ChunkShare \in Nat
  /\ MaxNumSeqs \in Nat \ {0}
  /\ MaxPos \in Nat

VARIABLES
  pc,         \* where the step is: "schedule", "pop", "drain"
  queue,      \* batch_queue, oldest batch first
  deferred,   \* deferred_scheduler_output, or None
  status,     \* "new", "running" or "gone" (no longer in self.requests)
  decoding,   \* the requests past their last prefill chunk
  cool,       \* schedule() calls before the request may decode again
  inFlight,   \* the counter the predicate reads
  aborts,     \* the aborts queue
  drafts,     \* the worker-side draft map
  scheduled,  \* history: slots scheduled so far
  settled,    \* history: slots whose output update_from_output has applied
  result,     \* outputs collected for the client in this step
  returned    \* outputs returned to the client by earlier steps

requestVars == <<status, decoding, cool, inFlight, scheduled, settled>>
vars == <<pc, queue, deferred, requestVars, aborts, drafts, result, returned>>

-------------------------------------------------------------------------------
(* Batches. *)

\* A scheduled batch: the requests that decode in it, those that prefill a
\* chunk, the slots [from, to) of each, the window of each, and what was
\* found when the batch was sampled: the slots the grammar had seen and the
\* origin of the drafts in the window.
Batches ==
  [decodes : SUBSET Reqs, chunks : SUBSET Reqs,
   from : [Reqs -> Nat], to : [Reqs -> Nat], window : [Reqs -> Nat],
   seen : [Reqs -> Nat], origin : [Reqs -> Int]]

ASSUME NoneAssumption == None \notin Batches

Members(b) == b.decodes \cup b.chunks

Running == {r \in Reqs : status[r] = "running"}

\* The counter's share of batch b that request r owns.
OwnShare(b, r) == b.to[r] - b.from[r]

\* The predicate before 0028v2: never true under the v2 model runner.
NeverInFlight(b) == FALSE

\* A predicate that forgets the batch's own share.
AnyInFlight(b) ==
  \E r \in b.decodes \cap Structured : status[r] = "running" /\ inFlight[r] > 0

\* has_structured_output_in_flight: some structured request that decodes in b
\* has more in flight than its own share of b.
HasStructuredOutputInFlight(b) ==
  \E r \in b.decodes \cap Structured :
    status[r] = "running" /\ inFlight[r] > OwnShare(b, r)

\* has_structured_output_requests.
HasStructured(b) == b.decodes \cap Structured # {}

-------------------------------------------------------------------------------
Init ==
  /\ pc = "schedule"
  /\ queue = <<>>
  /\ deferred = None
  /\ status = [r \in Reqs |-> "new"]
  /\ decoding = {}
  /\ cool = [r \in Reqs |-> 0]
  /\ inFlight = [r \in Reqs |-> 0]
  /\ aborts = {}
  /\ drafts = EmptyDraftMap
  /\ scheduled = [r \in Reqs |-> 0]
  /\ settled = [r \in Reqs |-> 0]
  /\ result = [r \in Reqs |-> 0]
  /\ returned = [r \in Reqs |-> 0]

-------------------------------------------------------------------------------
(* The clients and the aborts queue. *)

\* A new request is admitted between two steps.
Arrive(r) ==
  /\ pc = "schedule"
  /\ status[r] = "new"
  /\ Cardinality(Running) < MaxNumSeqs
  /\ status' = [status EXCEPT ![r] = "running"]
  /\ UNCHANGED <<pc, queue, deferred, decoding, cool, inFlight, scheduled,
                 settled, aborts, drafts, result, returned>>

\* A client disconnects at any moment; the engine learns of it only when it
\* empties the aborts queue.
ClientAbort(r) ==
  /\ status[r] = "running"
  /\ r \notin aborts
  /\ aborts' = aborts \cup {r}
  /\ UNCHANGED <<pc, queue, deferred, requestVars, drafts, result, returned>>

-------------------------------------------------------------------------------
(* Scheduling. *)

MayPrefill(r) == status[r] = "running" /\ r \notin decoding
\* A window of w drafts; only the first decode, which follows the prefill,
\* has none of its own proposals to verify.
MayDecode(r, w) ==
  /\ status[r] = "running"
  /\ cool[r] = 0
  /\ r \notin decoding => w = 0
  /\ scheduled[r] + 1 + w <= MaxPos

Schedulable == {r \in Reqs : MayPrefill(r) \/ MayDecode(r, 0)}

\* The batch schedule() forms from the requests in D, which decode with the
\* windows w, and those in C, which prefill a chunk.  Its windows are still
\* placeholders.
BatchOf(D, C, w) ==
  LET share(r) == CASE r \in D -> 1 + w[r]
                    [] r \in C -> ChunkShare
                    [] OTHER   -> 0
  IN  [decodes |-> D, chunks |-> C,
       from    |-> scheduled,
       to      |-> [r \in Reqs |-> scheduled[r] + share(r)],
       window  |-> [r \in Reqs |-> IF r \in D THEN w[r] ELSE 0],
       seen    |-> settled,
       origin  |-> [r \in Reqs |-> Placeholder]]

\* The flag as the stock sync scheduler leaves it.
NeverPending(D) == FALSE

\* The flag one off: always set when a structured request decodes.
AlwaysPending(D) == \E r \in D \cap Structured : inFlight[r] >= 0

\* pending_structured_output_tokens: a structured request that decodes in the
\* batch already had slots in flight when the batch was formed.
PendingStructuredOutput(D) == \E r \in D \cap Structured : inFlight[r] > 0

\* The schedule() calls a request that decodes now has to skip:
\* next_decode_eligible_step = current_step + pp_size.
StepsToSkip == Rotation - 1

\* _update_after_schedule.
UpdateAfterSchedule(b) ==
  /\ inFlight' = [r \in Reqs |-> inFlight[r] + OwnShare(b, r)]
  /\ scheduled' = b.to
  /\ decoding' = decoding \cup b.decodes
  /\ cool' = [r \in Reqs |-> IF r \in b.decodes THEN StepsToSkip
                              ELSE IF cool[r] > 0 THEN cool[r] - 1 ELSE 0]
  /\ UNCHANGED <<status, settled>>

\* Sampling batch b makes the workers propose drafts for its requests, which
\* are kept only if the batch has structured requests.
MergeDrafts(h, b) ==
  IF HasStructured(b)
  THEN \E newKeys \in NewKeyOrders(h, Members(b)) :
         drafts' = SetDraftTokens(h, Members(b), b.to, newKeys)
  ELSE drafts' = h

\* appendleft: pop() takes from the other end.
AppendLeft(q, b) == Append(q, b)

HasRoom(q) == Len(q) < Depth

\* The immediate path: bitmask and sampling right after scheduling.  The step
\* returns early if the queue has room and its oldest batch is not done.
ScheduleImmediate(D, C, w) ==
  LET b == BatchOf(D, C, w)
  IN  /\ pc = "schedule"
      /\ Members(b) # {}
      /\ ~PendingStructuredOutput(D)
      /\ UpdateAfterSchedule(b)
      /\ MergeDrafts(drafts, b)
      /\ queue' = AppendLeft(queue, b)
      /\ \/ pc' = "pop"
         \/ HasRoom(queue') /\ pc' = "schedule"
      /\ UNCHANGED <<deferred, aborts, result, returned>>

\* The deferred path: sampling waits for the drain.
ScheduleDeferred(D, C, w) ==
  LET b == BatchOf(D, C, w)
  IN  /\ pc = "schedule"
      /\ PendingStructuredOutput(D)
      /\ UpdateAfterSchedule(b)
      /\ deferred' = b
      /\ pc' = "pop"
      /\ UNCHANGED <<queue, aborts, drafts, result, returned>>

\* Requests are there, but none may be scheduled: an empty batch is queued and
\* the step goes on to the oldest one.
ScheduleEmpty ==
  LET b == BatchOf({}, {}, [r \in Reqs |-> 0])
  IN  /\ pc = "schedule"
      /\ Running # {}
      /\ Schedulable = {}
      /\ UpdateAfterSchedule(b)
      /\ queue' = AppendLeft(queue, b)
      /\ pc' = "pop"
      /\ UNCHANGED <<deferred, aborts, drafts, result, returned>>

\* No request is left, but batches are in flight.
ScheduleNothing ==
  /\ pc = "schedule"
  /\ Running = {}
  /\ queue # <<>>
  /\ pc' = "pop"
  /\ UNCHANGED <<queue, deferred, requestVars, aborts, drafts, result, returned>>

-------------------------------------------------------------------------------
(* Delivering the oldest batch. *)

\* Only the output tokens come off the counter.
SettledByOutput(b, accepted, r) ==
  IF r \in b.decodes THEN accepted[r] + 1 ELSE OwnShare(b, r)

\* Every draft of the window counts as rejected.
SettledTwice(b, accepted, r) ==
  IF r \in b.decodes
  THEN (accepted[r] + 1) + b.window[r]
  ELSE OwnShare(b, r)

\* What the counter of r loses when b is delivered: the accepted drafts and the
\* token sampled after them, len(new_token_ids), and the rejected drafts.
SettledBy(b, accepted, r) ==
  IF r \in b.decodes
  THEN (accepted[r] + 1) + (b.window[r] - accepted[r])
  ELSE OwnShare(b, r)

\* The outputs of a batch replace those collected before.
ReplaceOutputs(dst, b, alive) ==
  [r \in Reqs |-> IF r \in alive THEN OwnShare(b, r) ELSE 0]

\* _merge_engine_core_outputs: the outputs of a batch extend those collected.
MergeOutputs(dst, b, alive) ==
  [r \in Reqs |-> dst[r] + (IF r \in alive THEN OwnShare(b, r) ELSE 0)]

\* _process_aborts_queue, then update_from_output for batch b.  Requests that
\* are gone are skipped, and those in fin finish with this output; a request
\* that has used up its slots always does.
UpdateFromOutput(b, accepted, fin) ==
  LET alive == {r \in Members(b) : status[r] = "running" /\ r \notin aborts}
  IN  /\ fin \subseteq alive \cap b.decodes
      /\ {r \in alive \cap b.decodes : b.to[r] = MaxPos} \subseteq fin
      /\ status' = [r \in Reqs |->
                      IF r \in aborts \cup fin THEN "gone" ELSE status[r]]
      /\ aborts' = {}
      /\ inFlight' = [r \in Reqs |-> IF r \in alive
                                     THEN inFlight[r] - SettledBy(b, accepted, r)
                                     ELSE inFlight[r]]
      /\ settled' = [r \in Reqs |-> IF r \in alive THEN b.to[r] ELSE settled[r]]
      /\ result' = MergeOutputs(result, b, alive)
      /\ UNCHANGED <<decoding, cool, scheduled>>

Accepted(b) == {a \in [Reqs -> 0..NumSpec] : \A r \in Reqs : a[r] <= b.window[r]}

\* popleft() for pop().
PopNewest ==
  /\ \E accepted \in Accepted(Last(queue)), fin \in SUBSET Last(queue).decodes :
       UpdateFromOutput(Last(queue), accepted, fin)
  /\ queue' = Front(queue)

\* _pop_and_process_batch.
PopAndProcessBatch ==
  /\ \E accepted \in Accepted(Head(queue)), fin \in SUBSET Head(queue).decodes :
       UpdateFromOutput(Head(queue), accepted, fin)
  /\ queue' = Tail(queue)

\* The step returns its merged outputs to the client.
Return ==
  /\ pc' = "schedule"
  /\ returned' = [r \in Reqs |-> returned[r] + result[r]]
  /\ result' = [r \in Reqs |-> 0]

\* The main pop, guarded against an empty queue.
Pop ==
  /\ pc = "pop"
  /\ IF queue # <<>>
     THEN PopAndProcessBatch
     ELSE UNCHANGED <<queue, requestVars, aborts, result>>
  /\ pc' = "drain"
  /\ UNCHANGED <<deferred, drafts, returned>>

\* A round that does not pop.
DrainSpins ==
  /\ pc = "drain"
  /\ deferred # None
  /\ queue # <<>>
  /\ HasStructuredOutputInFlight(deferred)
  /\ UNCHANGED vars

\* One round of the drain loop; its outputs are merged into the step's result.
Drain ==
  /\ pc = "drain"
  /\ deferred # None
  /\ queue # <<>>
  /\ HasStructuredOutputInFlight(deferred)
  /\ PopAndProcessBatch
  /\ UNCHANGED <<pc, deferred, drafts, returned>>

\* The main pop only, and no drain loop.
NoDrain == TRUE

DrainOver == queue = <<>> \/ ~HasStructuredOutputInFlight(deferred)

\* The drain is over: take the drafts, rewrite the windows of the deferred
\* batch, build its bitmask, sample it and queue it; the step returns.
SampleDeferred ==
  /\ pc = "drain"
  /\ deferred # None
  /\ DrainOver
  /\ LET h == EvictOverCap(drafts)
         b == [deferred EXCEPT
                 !.seen = settled,
                 !.origin = [r \in Reqs |-> IF deferred.window[r] > 0
                                            THEN h.row[r] ELSE Placeholder]]
     IN  /\ MergeDrafts(h, b)
         /\ queue' = AppendLeft(queue, b)
  /\ deferred' = None
  /\ Return
  /\ UNCHANGED <<requestVars, aborts>>

\* Nothing was deferred: the step returns.
ReturnImmediate ==
  /\ pc = "drain"
  /\ deferred = None
  /\ Return
  /\ UNCHANGED <<queue, deferred, requestVars, aborts, drafts>>

-------------------------------------------------------------------------------
\* The requests chosen by schedule(), their roles and their windows.
Schedule ==
  \E D \in SUBSET Running : \E C \in SUBSET (Running \ D) :
    \E w \in [Reqs -> 0..NumSpec] :
      /\ \A r \in D : MayDecode(r, w[r])
      /\ \A r \in Reqs \ D : w[r] = 0
      /\ \A r \in C : MayPrefill(r) /\ scheduled[r] + ChunkShare < MaxPos
      /\ ScheduleImmediate(D, C, w) \/ ScheduleDeferred(D, C, w)

\* What the engine's busy loop does.
Loop == \/ Schedule \/ ScheduleEmpty \/ ScheduleNothing
        \/ Pop \/ Drain \/ SampleDeferred \/ ReturnImmediate

\* What its clients do, and the wait for them when there is no work.
Environment == \E r \in Reqs : Arrive(r) \/ ClientAbort(r)

Idle == pc = "schedule" /\ Running = {} /\ queue = <<>> /\ UNCHANGED vars

Next == Loop \/ Environment \/ Idle

Spec == Init /\ [][Next]_vars

\* The loop never stops calling step_with_batch_queue while there is work.
FairSpec == Spec /\ WF_vars(Loop)

-------------------------------------------------------------------------------
(* Properties. *)

\* The types of the variables.
TypeOK ==
  /\ pc \in {"schedule", "pop", "drain"}
  /\ queue \in Seq(Batches)
  /\ deferred \in Batches \cup {None}
  /\ status \in [Reqs -> {"new", "running", "gone"}]
  /\ decoding \subseteq Reqs
  /\ cool \in [Reqs -> Nat]
  /\ inFlight \in [Reqs -> Nat]
  /\ aborts \subseteq Reqs
  /\ drafts \in DraftMaps
  /\ scheduled \in [Reqs -> Nat]
  /\ settled \in [Reqs -> Nat]
  /\ result \in [Reqs -> Nat]
  /\ returned \in [Reqs -> Nat]

\* The batches in flight, oldest first: the queue and then the deferred batch.
Flight == IF deferred = None THEN queue ELSE Append(queue, deferred)

\* The counter is exact: for a running request it is the number of its slots
\* that are scheduled and not yet settled, whatever was accepted of each window
\* and whoever aborted meanwhile (the claim of apply_0028.py 50-57).
InFlightExact ==
  \A r \in Running : inFlight[r] = scheduled[r] - settled[r]

\* The batches in flight tile the unsettled slots of every running request, in
\* order and without a gap, so that popping the oldest batch always applies
\* the next slots of each stream.
FlightTiles ==
  \A r \in Running :
    /\ Flight = <<>> => settled[r] = scheduled[r]
    /\ Flight # <<>> => /\ Flight[1].from[r] = settled[r]
                        /\ Flight[Len(Flight)].to[r] = scheduled[r]
    /\ \A i \in 1..(Len(Flight) - 1) : Flight[i].to[r] = Flight[i + 1].from[r]

\* The first-principles invariant of tdd_0027.py 10-16: a sampled batch carries
\* a mask computed from a grammar that had seen every slot older than the batch.
MaskFresh ==
  \A i \in 1..Len(queue) :
    \A r \in queue[i].decodes \cap Structured \cap Running :
      queue[i].seen[r] = queue[i].from[r]

\* A rewritten window that a grammar judges never holds stale drafts: they
\* continue exactly the slots that precede the window, although rows of other
\* requests, of older samples and of finished requests are all in the map.  A
\* request without a grammar may find a stale row: what a batch without
\* structured requests proposes is not kept (tdd_0028.py 319-322).
NoStaleDrafts ==
  \A i \in 1..Len(queue) :
    \A r \in queue[i].decodes \cap Structured \cap Running :
      queue[i].origin[r] \in {Placeholder, queue[i].from[r]}

\* No queue step meets an impossible queue: schedule() is only called when
\* there is room for a batch (the assertion that opens the step), and the main
\* pop, deferred or not, always finds a batch: its guard is only defensive.
QueueInBounds ==
  /\ pc \in {"schedule", "drain"} => Len(queue) < Depth
  /\ pc = "pop" => Len(queue) \in 1..Depth

\* Nothing is lost or delivered twice on the way to the client: what earlier
\* steps returned and what this step has collected, drained batches included,
\* is what update_from_output has applied.
OutputsConserved ==
  \A r \in Reqs : returned[r] + result[r] = settled[r]

\* The drain stops because the grammars have caught up, never because it ran
\* out of batches while some request still had older slots in flight.
DrainCatchesUp ==
  [][ deferred # None /\ deferred' = None
        => ~HasStructuredOutputInFlight(deferred) ]_vars

\* Every structured window that goes through the deferred path is verified
\* against the drafts proposed at the request's own last sample (apply_0028.py
\* 128-131).  It holds as long as the map never exceeds its cap.
DeferredWindowsCovered ==
  [][ deferred # None /\ deferred' = None
        => LET b == Last(queue')
           IN  \A r \in b.decodes \cap Structured \cap Running :
                 b.window[r] > 0 => b.origin[r] = b.from[r] ]_vars

\* Every structured window is rewritten with real drafts before its bitmask is
\* built (0028 PATCH.md 23-25).  The immediate path never rewrites.
EveryWindowRewritten ==
  \A i \in 1..Len(queue) :
    \A r \in queue[i].decodes \cap Structured \cap Running :
      queue[i].window[r] > 0 => queue[i].origin[r] = queue[i].from[r]

\* With at most one batch more in the queue than the rotation is long, the main
\* pop already catches up with every deferred request, and the drain loop is
\* inert (apply_0028.py 58-60, 0028 PATCH.md 75-78).
DrainInertUnderRotation ==
  pc = "drain" /\ deferred # None => ~HasStructuredOutputInFlight(deferred)

\* Every scheduled slot is eventually settled, or its request goes away: the
\* drain always ends, and its batch is sampled and delivered in turn.
ScheduledIsSettled ==
  \A r \in Reqs : \A p \in 1..MaxPos :
    (scheduled[r] >= p) ~> (settled[r] >= p \/ status[r] = "gone")

\* The engine as seen by the grammars; see GrammarLockstep.
Masked(r) == {i \in 1..Len(queue) : r \in queue[i].decodes}
Lockstep == INSTANCE GrammarLockstep WITH
  Reqs <- Structured,
  live <- [r \in Structured |-> status[r] # "gone"],
  pos  <- settled,
  mask <- [r \in Structured |->
             IF status[r] = "gone" \/ Masked(r) = {} THEN -1
             ELSE queue[Max(Masked(r))].seen[r]]

\* The engine implements the lockstep between masks and grammar states.
RefinesLockstep == Lockstep!Spec

===============================================================================
