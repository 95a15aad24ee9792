# Verification of the DSpark + structured-output serving stack

The repository patches vLLM (fork commit `c3046d1`) so that DeepSeek-V4-Flash can
be served with speculative decoding ("DSpark"), grammar-constrained output and
pipeline parallelism at the same time. This directory holds TLA+ models of the
parts of that stack whose correctness depends on the order of events, the TLC
configurations that check them on small instances, and TLAPS proofs of the most
important properties for every value of the constants.

## 1. The system

### 1.1 Components

| component | where | state it keeps | operations | what makes it correct |
|---|---|---|---|---|
| **Engine step loop** `EngineCore.step_with_batch_queue` | `patches/0027-pp-structured-drain/patch.diff`, `bench/apply_0027.py`, `bench/apply_0028dbg.py` | the batch queue (depth 4 under PP4), the deferred batch, the aborts queue, the outputs of the step | schedule; sample at once or defer; pop and deliver the oldest batch; drain; merge outputs; sample the deferred batch | a mask is computed from a grammar that has seen every older slot; delivery in order; no output lost; the queue stays within its bounds; the drain ends |
| **In-flight predicate** `Scheduler.has_structured_output_in_flight` | `bench/apply_0028.py` 47-76 | per-request placeholder counter | read | the counter is exact, so the predicate neither defers for ever nor lets a stale mask through |
| **Draft map** `DraftTokensHandler` | `bench/apply_0028.py` 82-140 | an insertion-ordered dict, capped at 256 | merge the rows of a sampled batch; take all rows | a window gets the drafts of its own last sample, never those of an older one |
| **Grammar matcher and bitmask** | `patches/0009`, `0013`, `0016` | what the matcher has accepted | probe, accept, fill the rows of a mask | the probe leaves no trace and stops at termination |
| **Block commit** `Scheduler.update_from_output` | `patches/0008`, `0010`, `0012`, `0013`, `0014`, `0025` | output tokens, status, enforcement, reasoning flag, salvage guard | OOV, TYPE-A, TYPE-B under both policies, budget, signature watch, stop, commit | scheduler and workers agree on a running request's history; an enforced answer is valid; an abandoned one is bounded |
| **Tripwires** | `patches/0015`, `0017`, `0017v2`, `0019`, `0019v2` | streaks and totals per signature, a repetition streak | count after every block; cut | leaks and loops end after a bounded number of tokens, legitimate mentions do not end a request, and nothing already delivered is taken back |
| **PP relay** | `patches/0003`, `0004` | the receive queue and the slot generations | broadcast samples, counts and drafts; receive; consume | the ranks post the same broadcasts with the same shapes; the rows of aborted slots are not applied |
| **Rejection sampler** | `patches/0020`, `0026` | none | per-block argmax, accept/reject, resample | no NaN and no padded entry becomes an index; ids stay below the vocabulary |
| **Sparse attention indexer** | `patches/0001`, `0005a`, `0006` | none | top-k, in row chunks | chunking does not change the result |
| **DSML tool-call parser** | `patches/0007`, `0018`, `0023` | the streaming parser's buffers | feed a chunk, finish | the result does not depend on how the text is cut into chunks |
| **Serving flags** | `patches/0022`, part of `0025` | none | classify a response, set `finish_reason` | every suspicious ending is flagged |
| **History normalisation, template hardening** | `patches/0021`, `0024` | none | turn DSML text in old messages into tool calls; sanitise tool results | calls and results stay paired; a second pass changes nothing |
| **Structural tag port** | `patches/0011` | none | build a grammar from a request | - |
| **DSpark speculator** | `patches/0002`, `0005` | tensors on the workers | propose drafts | the anchor id is clamped to the vocabulary |
| **Launch and recovery** | `launch/*.sh`, `bench/watchdog_5700.sh` | a miss counter, a hold counter | poll health, declare death, raise alerts | no verdict while the launch prelude runs |
| **Patch appliers** | `bench/apply_*.py`, `bench/edit_launch_*.py` | marker strings and backups in the patched files | apply, skip if applied, revert | no edit twice; what a script that reports success has not put in is only what it has no marker for; a revert restores what was there |
| **Bench clients** | `bench/bench_chat_accumulate.py`, `dual_format_agent.py`, `phase0_repro.py`, `agent_loop.py`, `depth300k.py`, `tdd_consecutive_tools.py` | conversations that grow, a sandbox, records, counters | ask, run calls, feed results back, retry, probe, record | conversation, records and sandbox agree after every call, failed ones included |
| **Analysers, other TDD scripts** | `bench/analyze_accum.py`, the rest of `bench/` | none, or one verdict | read a file or fire single requests, and report | the report agrees with the run |

### 1.2 How they interact

```
 client ──► EngineCore step loop ──schedule()──► Scheduler ──batch──► workers (4 PP ranks)
              │   ▲                                 ▲                   │ sample, propose
   deferred   │   │ outputs                         │ update_from_output│
   batch,     │   └───────── pop / drain ───────────┴──── blocks ───────┤
   mask  ◄────┘                                                         │
              ◄──────────── DraftTokensHandler (draft map) ◄────────────┘
```

* The **engine loop** calls `schedule()` up to `batch_queue_size` times before the
  first result is back. The grammar advances only in `update_from_output`, so a
  mask built for a request that still has an older batch in flight would be built
  from a stale grammar. Patch 0027 defers such a batch and drains the queue first;
  patch 0028 repairs the predicate and the source of the drafts.
* The **draft map** is written when a batch is sampled and read when a deferred
  batch is about to be: two different batches, with others in between.
* The **workers** append a sampled block to their history at once. The scheduler
  sees the block later and may drop a part of it, which is safe only if the
  request ends there and then (patch 0012).
* The **tripwires** run inside the commit, after the grammar filter has already
  shortened the block and before the grammar advances over what is left.

### 1.3 What is hard here

* *Interleaving*: steps, client aborts (noticed only between two pops of a
  drain) and finishing requests.
* *Stale reads*: the mask, the draft map, and the guard state captured before a
  block is committed.
* *Boundaries inside a block*: a block has up to 1 + 5 tokens; the end of
  reasoning, of the grammar, of the budget and of the output can all fall inside.
* *Overlapping endings*: two or three rules may want to end a request on the same
  block, each with its own cut.
* *Limits*: queue depth, map cap, budget 0, 1 and "off".
* *Progress*: a drain that waits for a counter, a block of which nothing is kept.

* *Programs around the engine*: a server call that fails in the middle of a
  conversation, threads that share one file, streamed pieces that interleave, a
  patch script that is killed between two edits and run again, a probe that
  outlasts its log window.

`PROJECT.json` lists these hazards one by one, each at the line where it bites.

## 2. The modules

| module | models | rests on |
|---|---|---|
| `DraftTokensHandler` | the draft map | - |
| `EngineStep` | the step loop, the predicate, the in-flight counter | `DraftTokensHandler` |
| `GrammarLockstep` | *abstract*: what the engine promises each grammar | - |
| `Grammar` | the matcher over a finite language, and the mask's rows | - |
| `TailWatch` | signature watch, soup tags, clean cut, repeated lines | - |
| `BlockCommit` | `update_from_output` for one request, with the workers' history | `Grammar`, `TailWatch` |
| `RejectionKernels` | the kernels' arithmetic: argmax by blocks, acceptance tests, residual rows | - |
| `RejectionSampler` | `rejection_sample`: the sequence of launches for one window, and patch 0020's clamp | `RejectionKernels` |
| `RejectionLaws` | *reference definition*: the output has the law of the target | `RejectionKernels` |
| `SamplerLaws` | the sampler and its laws in one state graph | `RejectionSampler`, `RejectionLaws` |
| `PPRelay` | the broadcasts of samples and drafts between the last rank and another | - |
| `Patcher` | ten patch scripts over the files they share | - |
| `Watchdog` | the canary watchdog | - |
| `HistoryNormalize` | patch 0021 | - |
| `ChatAccumulate`, `Degeneration` | the accumulating chat, its probes, its metrics and the analyser of its file | - |
| `ToolAgent` | `dual_format_agent.py` | - |
| `Phase0` | `phase0_repro.py` against a server with patch 0023 | - |
| `AgentLoops` | three multi-turn tool loops | - |
| `BlockVariants` | three configurations of `BlockCommit` in one state graph | `BlockCommit` |
| `Tools` | the programs around the engine, the scripts and the relay, one at a time | the nine modules above |
| `MCEngineStep`, `MCBlockCommit`, `MCBlockVariants`, `MCRejectionSampler`, `MCTools` | instances for TLC | the above |
| `EngineStep_proofs` | theorems of `EngineStep`: counter, masks, delivery; the refinement, drafts and rotation | TLAPS |
| `BlockCommit_proofs` | theorems of `BlockCommit`: histories and the grammar's side, then the watch and the tripwires | TLAPS |
| `RejectionSampler_proofs` | theorems of `RejectionSampler`, and the laws of `SamplerLaws` | TLAPS |
| `Scripts_proofs` | theorems of `Patcher`, `Watchdog` and `PPRelay` | TLAPS |
| `Clients_proofs` | theorems of `ToolAgent`, `ChatAccumulate` and `Phase0` | TLAPS |
| `Transcripts_proofs` | theorems of `AgentLoops`, `Degeneration` and `HistoryNormalize` | TLAPS |
| `BlockVariants_proofs`, `Tools_proofs` | theorems of the two compositions, from those of their components | the above |

### 2.1 `EngineStep`

One call of `step_with_batch_queue` is split where the code may observe something
new. `pc` says where the step is:

| action | code |
|---|---|
| `ScheduleImmediate`, `ScheduleDeferred`, `ScheduleEmpty` (through `Schedule`) | the first part of the step: `schedule()`, `_update_after_schedule`, then mask and sampling, or deferral |
| `ScheduleNothing` | no requests are left, but batches are in flight |
| `Pop` | the guarded main pop, `_pop_and_process_batch` |
| `Drain` | one round of the drain loop, its outputs merged into the step's |
| `SampleDeferred` | draft take, window rewrite, mask, sampling, queueing, return |
| `ReturnImmediate` | the step ends with nothing deferred |
| `Arrive`, `ClientAbort` | the environment; aborts take effect only in `UpdateFromOutput`, as `_process_aborts_queue` does |

**Positions.** A batch owns, for each of its requests, the slots `from..to` of that
request's own stream; a decode with a window of `w` drafts owns `1 + w` slots.
`scheduled` and `settled` are the history the code does not keep; `inFlight` is
the counter it does keep. The properties relate the two: with `settled` the model
can *state* that a mask is fresh, while the actions may only read `inFlight`, as
the code may. Rejected slots are counted as settled, which is what the scheduler's
correction by `num_rejected` amounts to.

**Two schedulers.** `ChunkShare = 0` is the AsyncScheduler's counter
(`num_output_placeholders`, which prefill chunks do not touch), `ChunkShare > 0`
is the sync scheduler's (`num_in_flight_tokens`).

**Drafts.** A row of the draft map is abstracted to the position it continues, its
`origin`. `NewKeyOrders` leaves the insertion order of one batch's new keys open,
because the model runner's row order is not part of this code. Rows that come and
go in the dict keep Python's semantics: assigning to a key that is present does
not move it, and the cap pops the first key.

**Bounds.** `MaxPos` slots per request (`schedule()` forms no longer batch, and a
request that has used them finishes); the requests of `Reqs` arrive once each.
Which requests decode or prefill in a batch is left open within the code's guards,
so that every order of admission and every token budget is covered.

### 2.2 `GrammarLockstep`

The abstract specification: for each structured request, "compute a mask at the
current position" and "settle the slots sampled under it" alternate; the mask that
is outstanding always belongs to the position the grammar is in. `EngineStep`
implements it with the refinement mapping at its end (`pos <- settled`,
`mask <- ` the `seen` field of the newest batch that decodes the request). A run
checks it (`RefinesLockstep`) and `ImplementsLockstep` proves it (section 4.2).

### 2.3 `Grammar` and `TailWatch`

A grammar is a finite set of words and a matcher is the sequence it has accepted;
that is all `validate_tokens_ex`, `accept_tokens` and `fill_next_token_bitmask`
reveal of xgrammar. `RowAllows` follows `grammar_bitmask`: rows behind the first
`-1` of a window are free, the bonus row is filled from a matcher that did not
pass that `-1`, and a terminated matcher leaves its rows free.

The tripwires match decoded text, which more than one token sequence can show. Here a
signature is the set of its spellings, the token sequences whose text shows it, of which
`Encoded` is the one that the tokenizer makes of the signature alone. `SigFirstIds` are
the first ids of those, and `SoupTags` looks at a window only if it holds one of them, as
the code does before it decodes (0015 57-58); the signature watch of 0014 has no such
filter. `Passing` are the spellings of a signature that make their window pass. The
tokens that open a tag, close one or make a short line are classes (`Opens`, `Closes`,
`Lines`): the properties do not tell texts apart any further.

### 2.4 `BlockCommit`

One request. `Sample` is the workers: a block is the accepted drafts and one more
token, drawn from what the mask allows, and it goes into `worker` at once and into
`flight`. `UpdateFromOutput` is the handler, one action per way it can end:
`FinishOov`, `FinishEmpty`, `FinishCap`, `FinishSignature`, `FinishStop`,
`FinishSoup`, `FinishRepetition` and `Commit`. They share `Keep`, the common end of
the handler: set the output, advance the grammar over what was kept, abandon
enforcement or fail if that is rejected, update the guard. `Skip` is the handler's
`continue` for a request that is already finished.

`Views` says what the scheduler's copy of a window shows when the mask is built:
the real drafts, or placeholders. The second happens on the immediate path of
`EngineStep` (section 5, `engine_immediate`), so both are in every run that does
not ask about one of them. `Sample` waits for the scheduler while the grammar is
enforced (at most one block in flight): that is `EngineStep!MaskFresh`, proved in
the other module. Without enforcement up to `Ahead` blocks are in flight.

`Resumes` lets a request whose history is not empty be sampled without drafts,
as after a preemption.

### 2.5 `RejectionKernels`, `RejectionSampler`, `RejectionLaws`, `SamplerLaws`

One window of one request. Each action of `RejectionSampler` is one launch
(verify, store, resample, insert, clamp) and the arrays it leaves are what the next
reads. `RejectionKernels` has the arithmetic: a row of logits is a function from
tokens to weights, a weight being `exp(logit)` up to a factor, 0 for -inf and `NaN`
for NaN, so that acceptance ratios and residuals are exact fractions. An argmax is
what the code computes: a winner per block, then a winner among the block maxima
padded to a power of two, with the guard of patch 0026. Methods are greedy, ratio
(Leviathan), block (Sun) and synthetic, with one-hot or full drafts.

Block verification is modelled as it is written, with neither a test for NaN nor
for a draft of -1, which the code does not have there; a window that a request of
fewer drafts shares with longer ones is padded with -1. One program instance reads
only the rows of its own request, so one request is enough. Floating point is not
modelled: the laws are those of the formulas.

`RejectionLaws` is what the sampler is for, as a definition of its own: summed over
every draft, uniform number and resampled token, what is delivered has the target's law.
For the ratio test that is one token at a drafted position (`LeviathanLaw`), for block
verification the first two tokens of a window (`BlockLaw`), because there the second
draft decides about the first. With a drafter that has logits the sum is over its drafts
with their probabilities; for one without, the law must hold for every draft, since
nothing is known about how it came about. Both use the operators of `RejectionKernels`
that the launches use. `SamplerLaws` puts the two into one state graph: a behaviour of
`LawSpec` runs the kernels on a window, or carries a target and a drafter (`model`) and
does nothing else.

### 2.6 `PPRelay`

Two ranks, as programs over a communicator that matches broadcasts by order alone.
`Schedule` and `Abort` are the environment (which requests a batch has, which of
them need a sample, which slots are freed); `RunOther` is a receiving rank's step
(patch 0004: take the outputs that are due, scatter the drafts to the slots whose
generation is still the one they were sent for, post the next receives); `RunLast`
and `Propose` are the last rank's. `Match` is the communicator. `used` records what
was verified: the batch each draft comes from.

### 2.7 `Patcher`

A file is the sequence of the edits in it; an edit has the traits that decide its
fate: whether the script looks for its marker, whether it backs the file up first,
which other script's edit brings its anchor, and whether the anchor outlives the
edit. `Start`, `Apply`, `Skip`, `Fail`, `Succeed` and their whole-file and
copying variants are the scripts, edit by edit; `Kill` may fall between any two;
`Revert` is the operator. `stopped` is a history variable, the scripts that a missing
anchor or a kill has stopped since they were last reverted. `Drifts` are trees that lack an anchor. Reverts go
latest first, and a script that did not finish is finished before the next one
starts, which is how the patch notes use them.

### 2.8 The clients and the watchdog

* `ChatAccumulate`: the interleaving of content types (`PopChunk`), the turns with
  their planted notes (`Reply`, `ReplyError`), the recall batteries and the paired
  final probe (`Recall`, `FinalProbe`, either of which may fail), the summary, and
  `analyze_accum.py` over the file that results. What only the report shows
  (buckets, medians) is left out.
* `Degeneration`: one streamed answer, the field its reasoning comes in, and the
  repetition metrics over it.
* `ToolAgent`: serial chains in one format or in both by turns, agent loops,
  and a concurrent round whose threads append a record and write its line under one
  lock. Calls run on a virtual file system, which is modelled call by call and starts
  with what each mode finds (`Found`): the files of `fs_reset` in a chain, what the
  phase before has left in a loop or a round. A call may have an argument that is empty
  or of another type (`Unfit`): it is not valid, and is run all the same (389).
* `Phase0`: `Ask` is the server's answer, `Chunk` one piece of one call on the
  stream, `EndOfStream` the finish chunk or a silent end of file; the finish reason
  is that of patch 0023. `AnswerX` and `AnswerR` are the arms that do not stream. What
  arm R feeds back is cut at 20000 characters (`Shown`; `Heads` are the longer contents).
* `AgentLoops`: the three loops side by side, with what each does when a call fails
  or an answer is faulty: `agent_loop.py` stops, arm E of `depth300k.py` tells the
  model and goes on, group A ends the repetition. The ids of calls are the server's,
  whatever they are; arm E alone numbers the calls itself (`Numbered`).
* `HistoryNormalize`: a text is a sequence of tags and words. The three regular
  expressions share one form: an opening tag and the first closing tag after it
  (`Enclosed`), which a scan from left to right finds (`Open` says which opening tag is
  open after each place). `Extract` is the function that uses them. Calls and parameters
  are named by the places of their tags, whose order is that of the lists in the code.
* `Watchdog`: time in ticks; a cycle is the probe, the window of the log and the
  sleep.

`Tools` puts these, the patch scripts and the relay into one graph: `part` is chosen by
the initial state, the variables of the others are empty. They share no state in the code
either, so nothing is lost by running one at a time. `MCTools` gives its constants
their values.

### 2.9 `BlockVariants`

Three instances of `BlockCommit` over the same variables: `variant` is chosen by the
initial state, and `Config` says what each of them is configured with. The assumptions
name what makes a variant what it is: `DraftsAssumption` (no window of *finish* and
*covered* lacks its drafts), `CoveredAssumption` (*covered* shows them to the mask).

## 3. The runs

Each run takes half a minute or less, `tools` and `block_variants` about one minute.

| run | instance | checks |
|---|---|---|
| `engine_pp` | the AsyncScheduler: rotation 2, depth 3, a structured and a plain request | `InFlightExact`, `NoStaleDrafts`, `DrainInertUnderRotation`, `DeferredWindowsCovered` |
| `engine_shallow` | the sync scheduler: no rotation, chunks counted, depth 3, two structured requests, `FairSpec` | `TypeOK`, `FlightTiles`, `MaskFresh`, `QueueInBounds`, `OutputsConserved`, `DrainCatchesUp`, `RefinesLockstep`, `ScheduledIsSettled` |
| `block_salvage` | reasoning, OOV, stop, TYPE-A and TYPE-B, policy commit, two blocks in flight, a signature with four spellings, one of which the prefilter misses, a line; thresholds of two, so that both tripwires fire within the length limit | `HistoriesAgree`, `EnforcedAnswerValid`, `CompletedIsWord`, `TailBounded`, `WatchedTailClean`, `OneMentionSurvives`, `SoupBounded`, `LoopsBounded`, `CommittedNeverRetracted` |
| `block_variants` | three instances of `BlockCommit` in one graph (`BlockVariants`): *finish* (reasoning, stop, policy finish), *covered* (every window shows its drafts, OOV ids), *guard* (a tag around a salvage, resumed requests, 0008's salvage off, with fairness) | `FinishedAnswerValid`, `EnforcementHolds`, `RequestEnds` |
| `sampler` | five tokens in blocks of two, padded to four blocks; windows of up to two drafts; rows with a tie across blocks, a peak in the last block, NaN; all distributions over two tokens of weight 3 (`LawVocab`, `LawWeight`) for the laws, with logits and without; `LawSpec` | `SampledInVocab`, `AcceptedArePrefix`, `GreedyFollowsTarget`, `CorrectionHasMass`, `RatioLaw`, `BlockLaw` |
| `tools` | nine parts, see below | one property for each part, two for the chat |
| `engine_cap`, `engine_immediate`, `block_resume`, `block_trim`, `block_mention`, `tools_together` | see section 5 | one property each, violated |

A property of `tools` is the conjunction of what its part promises; the conjuncts are
defined, with a comment each, in the part's module.

| property | part | its conjuncts |
|---|---|---|
| `ChatAccounted` | chat | `TranscriptMatchesLog`, `FirstDegenerateTurn`, `AnalysisAgrees` |
| `DepthMeasured` | chat | `Interleaved`, `ProbesPlanted`, `PairedProbe` |
| `LoopsFlagged` | degen | - |
| `AgentReplays` | agent | `FileFollowsRecords`, `OneRecordEach`, `Replayed`, `HistoryPaired` |
| `CallsKept` | phase0 | `AssembledByIndex`, `TruncationSeen`, `CallsAnsweredOnce`, `ReadsWholeWrites` |
| `PatchRunsSound` | patcher | `NoEditTwice`, `MissingOnlyIfStopped`, `BackupsNest` |
| `RelayAgrees` | relay | `BroadcastsPair`, `VerifiesRelayedDrafts` |
| `WatchSound` | watchdog | `WindowsCover`, `HoldIsConsecutive` |
| `EchoLifted` | echo | `NestedIsLifted`, `NothingGuessed`, `LiftedOnce` |
| `LoopsKeepBooks` | loops | `CallsAnswered`, `CleanMeansClean`, `TurnsAccounted`, `PassMeansCalls` |

**What they show.**

* The in-flight counter equals `scheduled - settled` for every running request,
  through aborts, any acceptance count and prefill chunks (`InFlightExact`); the
  batches in flight tile exactly that interval (`FlightTiles`).
* A sampled batch always carries a mask computed from a grammar that had seen all
  older slots (`MaskFresh`), under both schedulers; when the drain stops, on either
  of its exits, the grammars have caught up (`DrainCatchesUp`).
* With the decode rotation the drain loop never turns (`DrainInertUnderRotation`):
  in production the main pop is enough. Without rotation it is needed.
* The draft map gives a deferred window its own last drafts as long as it is below
  its cap (`DeferredWindowsCovered`), and the window of a structured request never
  stale ones (`NoStaleDrafts`).
* No drop of tokens leaves a request running (`HistoriesAgree`), no cut reaches
  into an earlier block (`CommittedNeverRetracted`).
* An answer whose enforcement lasts is a prefix of a word at all times and a word
  when TYPE-A ends it; under the finish policy not one rejected token is delivered.
* If all windows were rewritten, no TYPE-B salvage would occur
  (`EnforcementHolds`): placeholder windows are their only source in this model.
* Every delivered token is in the vocabulary whatever rows are NaN, greedy requests
  get the target's own tokens, the accepted drafts are a prefix, a correction is
  only ever drawn from a row that has mass, and the ratio test and block
  verification both keep the law of the target (`RatioLaw`, `BlockLaw`).
* The ranks post the same broadcasts in the same order and width in every
  schedule, and a slot that is reused never verifies drafts of its last request.
* The clients' conversations, files and counters agree through every failed call;
  a call cut inside its arguments is always seen by the client.
* Patch scripts that mark every edit survive kills, missing anchors and reruns. If a
  script that reports success lacks an edit, it was stopped before, and the edit has no
  marker of its own (`MissingOnlyIfStopped`): of the ten scripts that is the second and
  the third edit of `apply_0028` to utils, and they do get lost (`tools_together`).
* The salvage tail, sparse soup in the spellings that the prefilter lets through, and
  line loops are bounded by the values the code intends, for every block length up to the
  instance's. Soup in other spellings is not bounded by anything (section 5).

**Why the bounds are enough.** A violation of the engine's properties needs one
request that is scheduled twice while a third batch (of another request, or empty)
is between the two, and an abort or a finish in between. Depth 3 and two requests
contain that. `engine_pp` has `MaxPos` 4, because a stale draft row needs two
samples before the window that would use it (1 + 1 + 2 slots), and a plain
request, because a batch may be deferred for one request and carry another.
`engine_shallow` has `MaxPos` 3: a prefill chunk, a decode and one more decode in
flight at the same time, or a decode followed by a window.

For the block commit, blocks of up to three or four tokens against words of one to
three put every boundary (reasoning end, grammar end, budget, stop, length limit)
before, inside and after a block; the length limits leave room for two or three
blocks after a salvage. `block_salvage` lets eight tokens through, most of them free
while the reasoning lasts: room for three mentions with a clean block between them
and for a line six times over, which is one more than its thresholds of two blocks
allow. Its signature reads "xxx" over the tokens x (`v1`) and xx (`v2`): alone it is
encoded as xx x, so xx is the first id; x xx and xx xx hold it as well, and x x x is the
spelling that the prefilter misses. Occurrences overlap, and a spelling that passes and
one that does not can share tokens. Its windows are small, but keep the order they have in production (overlap
16, streak 12, window 160): the overlap is shorter than a streak of blocks, and the
window of the line tripwire has room for `RepMin` lines. What the bounds of an
instance leave open here, the theorems of section 4.4 settle for all values. The
signatures of `block_salvage`, *guard* and `block_trim` may span two blocks or lie
inside one.

For the sampler, two blocks and a rest against a padding of four blocks have every
boundary an argmax can cross. For the tools: three content types with up to two
chunks run dry in every order, and six turns reach three batteries and a final probe
of three notes, of which one probe may fail (`MaxFailed`); two tokens and three
deltas make the shortest loop in either text; three concurrent
tasks, three steps of a chain, and one file that was found (two in a loop); one
content longer than what a Read shows; a server that gives every call of one name the
same id; two slots with steps two apart and four
batches let a slot be aborted and reused while its drafts travel; four runs of ten
scripts (`MaxRuns`) contain a failure, its rerun, a later script and a revert;
three cycles of the watchdog with a hold of two; texts of four pieces
(`MaxPieces`) nest, overlap and break tags; four turns of each loop, and two
repetitions of group A.

Deadlock is checked in every run: `Idle` (engine), `Done` (block), and the last
disjunct of each tool's `Next` are the states in which the program really is at
rest.

**Fairness.** `EngineStep!FairSpec` is weak fairness of the engine's own loop: the
busy loop calls `step_with_batch_queue` as long as there is work, and a popped
batch's future completes (the call blocks in `future.result()`). Nothing is
assumed of arrivals and aborts, and nothing of the tools: their properties are
about safety. `BlockCommit!FairSpec` is weak fairness of sampling
and of the handler, which is what the engine loop provides
(`ScheduledIsSettled`); no fairness is assumed between tokens, so a request that
never samples a stop token must end by its length limit.

## 4. The proofs

`tlapm` checks eight modules to the last leaf. The constants are arbitrary, subject to
the named assumptions in the modules (`EngineAssumption`, `NoneAssumption`,
`CapAssumption`, `WordsAssumption`, `WatchAssumption`, `CommitAssumption`,
`SamplerAssumption`, `LawAssumption`, and those of `Tools` and `BlockVariants`, section
4.13), which TLC evaluates in the runs. A theorem that needs more than them says so in
its own hypotheses, which are named below with the run that shows what happens without
them.

### 4.1 The engine

`Invariance` proves the inductive invariant `IInv`, from which the others follow.
Its parts, and why each is needed:

* `TypeOK`: in particular `inFlight \in Nat`. It is not inductive alone, since the
  subtraction in `UpdateFromOutput` stays non-negative only if the counter covers
  the batch's share.
* `Tiles(Flight, settled, scheduled, Alive)`: the batches in flight cover the slots
  `settled .. scheduled` of every request that is not gone, in order and without
  overlap. It gives the share of the oldest batch, and it is stronger than
  `FlightTiles`: it also orders the slots of requests that are gone, because their
  batches are still in the queue.
* `CounterExact`: the counter is `scheduled - settled`. With `Tiles`, the predicate
  "more in flight than my own share" says precisely "an older slot is unsettled".
* `NewNotInFlight`: a request that arrives starts with an empty flight.
* `DeferredIsNewest`: nothing is scheduled while a batch is deferred, so the
  deferred batch ends where scheduling stands.
* `MaskFresh`, `OutputsConserved`: the properties themselves; each is preserved
  because of the parts above.

Theorems: `TypeCorrect`, `FreshMasks` (`MaskFresh`), `ExactCounter`
(`InFlightExact`), `DeliveryInOrder` (`FlightTiles`), `NoOutputLost`
(`OutputsConserved`), the action property `CaughtUpWhenSampled`
(`DrainCatchesUp`) and `QueueBounded` (`QueueInBounds`), which needs `RoomKept` on
top of `IInv`: the place of a deferred batch is kept free, and by `Tiles` a request
with slots in flight has a batch in the queue for the main pop to find. So the drain is right for every queue depth, every rotation,
every number of requests, every window length and both counters.

The heart of it is `SampleDeferred`: when the loop ends with an empty queue the
deferred batch is the only one in flight, so by `Tiles` it starts at `settled`;
when it ends because the predicate is false, the counter is the batch's own share,
so by `CounterExact` it starts at `settled` as well. For `ScheduleImmediate` the
pending flag is false, so the counter is zero and the new batch starts at
`settled`.

### 4.2 The engine's refinement, drafts and rotation

**Refinement.** `ImplementsLockstep` (`RefinesLockstep`): `EngineStep` implements
`GrammarLockstep`. The mapping needs `MaskCurrent` beside `IInv`: a structured request
is decoded by at most one batch of the queue, the one that starts at `settled`
(`LockInvariance`). Computing a mask is the abstract step of one grammar, so every
action has to be shown to leave all other grammars alone; a batch for several
structured requests is one abstract step that takes them together.

**Drafts.** `StaleDraftsNever` (`NoStaleDrafts`) rests on `DraftInv`: the row of a
structured request continues its newest *sampled* batch or was evicted
(`RowsCurrent`). A deferred batch waits until the queue holds no older slot of its
structured requests, so the newest sampled batch is then the one before it, and the
row continues it (`DrainedIsCaughtUp`). `WindowsCovered` (`DeferredWindowsCovered`)
adds `Cardinality(Reqs) <= Cap`: the keys of the map are distinct (`KeysDistinct`), so
nothing is ever evicted. `engine_cap` shows that the premise is needed.

**Rotation.** `DrainInert` (`DrainInertUnderRotation`), for the async counter and
`Depth <= Rotation + 1`: two batches that decode one request are `Rotation` apart
(`Spaced`), a request that decoded less than that ago is still cooling down
(`Cooling`), and a request moves only by decoding (`Linked`). After the main pop at
most `Rotation` batches are left, so the oldest that could hold an unsettled slot of
the deferred batch is gone.

### 4.3 The block commit: histories

`IInv == TypeOK /\ FlightInHistory /\ HistoriesAgree`. `FlightInHistory` says that
the blocks in flight lie one after the other in the workers' history, whatever the
status; `HistoriesAgree` adds, for a running request, that the scheduler's output
ends where the first of them begins. The argument follows `Keep`: a block from
which anything was cut has ended the request (`KeptType`: the filter keeps all of a
clean or salvaged block; the cap, the watch and the tripwires stop), and a
running request keeps its block whole, so the output grows by exactly the block
that leaves `flight`.

Theorems: `TypeCorrect`, `SchedulerWorkerSync` (`HistoriesAgree`) and
`NothingRetracted` (`CommittedNeverRetracted`), for every grammar, policy, budget,
window and set of signatures. `NothingRetracted` rests on the cut lemmas:
`FlooredCutType`, `CapCutType` and `CleanCutType` show that every cut lies between
the output before the block and the output with it.

### 4.4 The block commit: answers and tail

`AnswerInv` says that the scheduler's reasoning flag is right (`ReasoningTracked`),
that a block without drafts has one token (`SingleTokens`), and that what follows the
reasoning is what the matcher accepted (`EnforcedAnswerValid`). Its lemmas are about
`Probe` and `Take`: the accepted prefix of a cut block is the cut of the accepted
prefix (`ProbeOfPart`), so it does not matter whether the filter, the guard or a
tripwire cuts first. Theorems:

| theorem | property | hypotheses |
|---|---|---|
| `AnswersValid` | `EnforcedAnswerValid` | none |
| `CompletedWords` | `CompletedIsWord` | a structured request has a word |
| `TailBound` | `TailBounded` | and `WindowsHaveDrafts`: no resumption, drafts in every window but the first, no empty word |
| `FinishedAnswers` | `FinishedAnswerValid` | the same |
| `EnforcementLasts` | `EnforcementHolds` | the same, no reasoning, and every window shows its drafts |
| `WatchedTail` | `WatchedTailClean` | none |
| `SoupBound` | `SoupBounded` | `TagsInOverlap`: no spelling that passes the prefilter is longer than the overlap and one token; `SpellingsTyped`: spellings are sequences of tokens, none of them empty |
| `LoopBound` | `LoopsBounded` | `RepetitionSeen`: the window has room for `RepMin` lines, at least one |
| `OneMention` | `OneMentionSurvives` | `SpellingsTyped` and `MentionLeaves`: a mention, in any spelling, is out of sight before a threshold is reached |

`block_resume` is why `TailBound` needs `WindowsHaveDrafts`: a block without drafts is
not filtered. Where only the first block is such a block, its one token was sampled
under a mask of the initial grammar and is never rejected (`FirstAllowed`). What
`TailInv` then says is that enforcement ends only in a TYPE-B salvage, and that what
is left of the budget and what was delivered since add up to it.

`EnforcementLasts` is the root cause of 0028 as a theorem: in a window that shows its
drafts, every row up to the first rejected one is filled from the true state
(`CoveredWindow`), so a block is accepted whole or up to the end of a word. The
reasoning is left out because a mask does not cover a window in which it ends.

The tripwires count blocks, the properties count tokens. `SoupInv` and `LoopInv` say
how many occurrences, or copies of a line, each counted block may have brought: at
most its length, because what was complete before the block had been counted. `SoupInv`
says so only of the spellings that pass the prefilter: an occurrence of one that a block
completes lies in the block's window, by `TagsInOverlap`, and brings a first id into it,
so the window is decoded. The premise is about those spellings alone, and of the others
nothing is said, because the code guarantees nothing. For
`OneMention`, `MentionInv` says that a signature seen in n blocks either occurs twice
or lies behind n - 1 later blocks, and by `MentionLeaves` it is then out of the overlap
before n is a threshold. The production values (16, 12, 18) satisfy `MentionLeaves` for
blocks of two tokens and more, or signatures of seven tokens and more; `block_mention`
shows what happens otherwise.

### 4.5 The rejection sampler

`IInv` says what each launch leaves for the next: before verification nothing is
counted; after it the accepted drafts lie in the first cells and, for a greedy
request that rejected one, the target's token behind them (`Verified`); after the
resampling each block's winner is a place of that block (`Resampled`); after the
insertion the last cell holds a token of the vocabulary (`Inserted`). The lemmas
are about the blocked argmax: `BlockType` and `WinnerInVocab` (the winner is below
the vocabulary although the blocks overhang it and the maxima are padded, NaN or
not) and `BlockwiseArgmax` (the first maximum of the block maxima is the first
maximum of the row). Theorems, for every vocabulary, block size, padding and window:
`TypeCorrect`, `DeliveredInVocab` (`SampledInVocab`), `AcceptedDrafts`
(`AcceptedArePrefix`), `GreedyIsTarget` (`GreedyFollowsTarget`).

`CorrectionMass` (`CorrectionHasMass`) is about arithmetic as well. Its invariant `CInv`
adds to `IInv` that the draft at which a ratio request stopped has failed the test for
some random number (`Rejected`), for the launches in between do not see the test any
more. The argument:

1. *A failed test is a smaller share.* The test compares fractions in lowest terms;
   `FracIs` says they are the fractions of the weights, because the recursive function
   `GCD` divides both of its arguments (`GcdDivides`), and `CrossProducts` that the order
   is the same. So the draft's share of the target is less than its share of the drafter
   (`RejectedShare`).
2. *Then some other token has a larger share* (`ShareElsewhere`): if no token had,
   the two totals would differ from themselves (`SumCompare`). For a drafter without
   logits the same is `MassElsewhere`. The residual is positive exactly at such tokens
   (`ResidualMassive`).
3. *The draw finds one* (`NoisyWinner`): the winner under noise of the block winners
   under noise has positive weight as soon as any token of the row has, so
   neither the padding nor an empty block is drawn.
4. The clamp of 0020 leaves the token alone.

The laws, `RatioSamplesTarget` (`RatioLaw`) and `BlockSamplesTarget` (`BlockLaw`), are
equations between sums of fractions over all drafts. They hold for every vocabulary
(`LawVocab`), every total of the weights (`LawWeight`) and all distributions of it. The
model never changes in `LawSpec`, so the theorems are the two lemmas `RatioSamples` and
`BlockSamples` about one model. The argument:

1. *Fractions.* In lowest terms, equal fractions are the same pair (`SameFrac`); sums,
   products, differences and minima of them are those of the numbers (`AddFracs`,
   `MulFracs`, `MonusFracs`, `MinFracs`). A fold of fractions over one denominator is the
   fraction of the sum of the numerators (`FoldIs`), so every law becomes an equation
   between sums of natural numbers.
2. *The ratio test accepts a draft with probability min(1, p/q)* (`ShareBelow`,
   `RatioShareIs`). This is the place where the random numbers must be fine enough:
   `LawAssumption` makes `Steps` a multiple of every weight, which real random numbers
   are in the limit. The block law does not need it.
3. *The residual's shares are those of max(p - q, 0)* (`RatioResidual`), and what the
   target has over the drafter is what the drafter has over the target
   (`ExcessBalance`). So the refused mass pays for the residual, and the drafts of one
   token add up to its weight (`RatioTermsSum`). A residual without mass is a case of its
   own at every step: its denominator is then 1 and its refused mass 0.
4. *A block's thresholds* are the residual's weight over that and what is refused
   (`ThresholdsAre`), with the joint ratio capped as it goes (`JointRatioIs`).
   The three cases of an outcome (both drafts kept, the second replaced, both replaced)
   add up over one denominator, different for each first draft (`DrafterSum`).
5. *The denominators cancel in each row.* What the second drafts of a first draft are
   refused adds up to exactly what its threshold divides by (`RefusedSum`, from
   `BalanceOf`), so the pairs of a row weigh the second row's share times what the first
   draft weighs in the ratio test (`RowSum`). With a common multiple of the rows'
   denominators (`CommonMultiple`) the sum over pairs is a sum over rows (`SumOfPairs`),
   and the ratio test's own sum closes it.
6. Without logits every single draft, or pair of drafts, gives the target's law
   (`OneHotRatio`, `OneHotBlock`): what is refused is what the residual has.

`SamplerBesideLaws` carries the four theorems about the kernels over to `LawSpec`, the
specification the run checks: a behaviour that carries no model is one of `Spec`.

The induction theorems of the library take an operator as a parameter and cannot be
used; where a recursive definition has to be unfolded for every input, in `GcdDivides`,
`GcdScales`, `SumsExist`, `SumCompare` and `SumOfOne`, the proof takes a least
counterexample instead (`LeastNatural`), and the sums of the laws are taken apart by
`PartInduction`, which speaks of a set of subsets. That the recursion has a solution at all is proved first (`GcdExists`,
`SumsExist`).

`TypeCorrect` of the block commit and of the sampler state type invariants that are
proved and not run.

### 4.6 The relay

`RelayCorrect`: `RelayAgrees`, for any finite set of slots, any depth of at least one,
any lag between the ranks and any aborts (`RelayConstants`).

* `StreamsPair` (`BroadcastsPair`). The broadcasts have no tags, so the claim is about
  positions in two streams. `StreamsAlign`: what the last rank has posted is a prefix
  of what the other rank has posted, and the rest of the other's stream is, in order,
  the draft the last rank owes and the receives of the batches it has not run. A
  function f gives each batch's place in that rest. `Match` then takes two heads of
  equal kind, batch and width.
* `RelayedDrafts` (`VerifiesRelayedDrafts`). `DraftInv`: for every request the drafts of
  the latest batch that sampled it are in its row, or the queue still holds the receipt
  for them, made out for the generation that is in the slot now (`AllFresh`).
  `QueueTiles` says that the queue has one entry for each of the latest `Depth`
  batches, so the receipt has been taken when the next batch of the request runs, and a
  receipt for a generation that is gone writes nothing (`HeadScatters`).

### 4.7 The patch scripts and the watchdog

**Patch scripts.** `PatchesSound`: `NoEditTwice`, `MissingOnlyIfStopped` and `BackupsNest`,
for any of the ten scripts, any tree and any number of runs (`PatcherConstants` says no
more than that the scripts are among the ten). What the proof needs of the edits is in
one lemma, `EditFacts`: outside `apply_0028` every edit that is written alone has a
marker of its own and a backup; a script that writes once stays in one file; no other
script works on the file of `apply_0020`.

The properties are about files, but what they rest on is the order of the scripts, so
the invariant `PatchInv` relates the two:

* `Owned`, `BackedUp`: the edits in a file are those of scripts that count, and no
  script edits a file it has not backed up.
* `Nested`: the backup of the k-th script is the part of the file that the scripts before
  it put in (`PartBefore`). A revert restores such a part, and of two parts the earlier
  one is a part of the later (`PartOfPart`).
* `FrontComplete`, `BackupsComplete`: every script but the latest is complete, and so are
  the backups of the later ones. So a script that is run again finds its markers unless
  it is the latest (`LatestOrComplete`), and only the latest ever writes. The exception
  is `apply_0020`, which repeats itself at any time and has a file to itself.
* `Progress`, `UtilsRun`: what the running script has done. The second and
  the third edit of `apply_0028` to `utils` have neither a marker nor an anchor that the
  edit consumes; they do not go in twice only because the script enters `utils` when the
  first is missing, and then (`GoodFile`) the other two are missing as well.

Each action that writes is shown to be an instance of `Writes`, for which the invariant
is preserved once and for all (`WritesKeep`). `PatchInv` says of `apply_0028` only what
its markers see, the first edit of `utils` and that of the scheduler: `UtilsTogether` is
false of the code (section 5). What remains true of the other two edits of `utils` is an
invariant of its own, `UtilsWhole`: as long as no anchor and no kill has stopped the script,
the edits of utils that it has passed are in the file. From
that and `RunningNotDone` (a script that runs has not reported success yet) follows
`MissingOnlyIfStopped` for `apply_0028`; for every other script it says that all edits
are in, which is what `PatchInv` gives, whether the script was stopped or not.

**Watchdog.** `WatchdogSound`: `WindowsCover` and `HoldIsConsecutive`, for any interval,
hold and number of cycles, and a slack that is at most the interval (`WatchConstants`;
with a longer slack a line is in three windows). A line that was counted twice is as old
as the interval (`AgesGrow`), and the next window ends before it; `HoldCounts` says that
the counter is the length of the row of degraded cycles at the end.

### 4.8 The tool agent

`AgentTellsOneStory`: `FileFollowsRecords`, `OneRecordEach`, `Replayed` and
`HistoryPaired`, for any files, answers, chain and tasks, when the tasks are finitely many
numbers and the chain is finite (`AgentConstants`). The invariant is `AgentInv`:

* `LockHolds`, `FileBehind`: a thread holds the lock exactly between its two writes, and
  the file is then the records without its row. Nothing else of the interleaving matters.
* `RoundBooks`, `TurnBooks`: the rows of a round are those of the threads that have
  appended one (`Recorded`), as many as there are such threads and at least one for each,
  so none has two; outside a round row k is that of turn k.
* `Numbering`: the ids in the conversation are those of turns that are over, so the next
  call gets a fresh one.

Every turn is an instance of `Shown`: it adds a call with its result, a note that it
failed, or nothing, and in the first case the sandbox is what the call makes of it. That
the sandbox is the replay of the conversation is a statement about a fold. The library
defines the fold as a choice among the solutions of a recursion; that there is one for
every length (`IterExists`) and that it goes one message at a time (`IterSteps`,
`ReplayAppend`) are proved from the least length without one.

### 4.9 `phase0_repro.py`

`CallsStayWhole`: `AssembledByIndex`, `TruncationSeen`, `CallsAnsweredOnce` and
`ReadsWholeWrites`, for any replies whose calls and whose pieces of arguments come in
order and in which a call with its closing tag has all its arguments (`ReplyConstants`;
patch 0023 rests on the latter too).

* `WireInv`: what the client holds of each call is the part of it that was sent, so at
  the end of the stream, however the chunks interleaved, slot k is call k
  (`WholeStream`), and the engine's test for a cut call and the client's test for
  arguments that do not parse see the same call (`EndWire`).
* `TalkInv`: between exchanges every id in the conversation is that of an earlier turn,
  and during one that of an earlier call (`IdsUpTo`), so an id is never used twice; the
  file is what the last whole Write of the conversation says (`FileAfter`). The calls of
  an answer run one by one inside one action: `RunExists` and `RunSteps` unroll the fold,
  `CallKeeps` is the step.

The proof asked for two changes to the models that TLC could not have asked for. The arms
of a `CASE` in `Classify` and in `ExecTool` overlapped, as in `FakeResult` of
`AgentLoops`: TLC takes the first that holds, but the value is then any of them. And
`Assembled` sorts its indices by their rank instead of with `SetToSortSeq`.

### 4.10 The loops and the analyser

**Loops.** `LoopsAccount`: `CallsAnswered`, `CleanMeansClean`, `TurnsAccounted` and
`PassMeansCalls`, for any number of turns and repetitions and any answers whose calls are
a sequence (`LoopConstants`), with any ids. All three clients keep `Settled(msgs)`:
results follow their calls one each and in order, and each belongs to the last message
before it that is no result. A message with new calls and their results keeps it
(`BlockSettled`, `ExchangeSettled`), a message without calls as well (`NoteSettled`). Of
the ids that a server gives nothing is asked and nothing is claimed. Arm E numbers the
calls itself and keeps `Talk(msgs, t, k)`: beside `Settled`, no two calls share an id, and
every id is that of a turn before `t` or of one of the first `k` calls of turn `t`
(`BlockIds`, `NoteTalk`, `ExchangeTalk`); when a turn is over its ids are old ones
(`NextTurn`). It sends a message for each call of an answer, so that one action is as many
such blocks; `PairsTalk` takes them one by one. On top of that each client has its own
books:

* `LoopInv` (`agent_loop.py`): while no answer was faulty there is one answer for each
  turn; a faulty one never joins the conversation.
* `DepthInv` (`depth300k.py`): row k is that of turn k, the counter counts the rows of
  each class (`CounterAdds`, about bags), the failures are the turns of the rows that
  failed and rise (`FailAdds`), and the notes of failed calls are as many as the rows of
  that class. That a question never follows a question needs that the last message of a
  turn is none, failed call or not.
* `TddInv` (`tdd_consecutive_tools.py`): the verdict sees only the total of calls. As long
  as no repetition went on after its first call the total is at most the number of
  repetitions that had a call (`FewCalls`), half of what a PASS needs.

**Analyser.** `LoopsAreFlagged` (`LoopsFlagged`), for any deltas, if no text is too short
to be judged that is long enough to hold a loop (`DegenConstants`; 8 tokens, against 8 and
4 more). `chat_stream` joins the deltas of a field, and the property folds over the stream
as it was sent: `JoinedIsSent` shows that the two are the same, by unrolling both
recursions. A text that goes on like itself p places before has the same gram at every
p-th place (`PhraseRepeats`), so that gram stands in `MaxRepeats` places of a text
(`LoopIsDegenerate`), and appending the answer to the reasoning hides none of them
(`LoopAfter`).

For both, properties or helpers that used `SelectSeq` now say the same with sets and
functions, which can be expanded.

### 4.11 The accumulating chat

`ChatAccounts` (`TranscriptMatchesLog`, `FirstDegenerateTurn`, `AnalysisAgrees`) and
`DepthAlone` (`Interleaved`, `ProbesPlanted`, `PairedProbe`), for any finite set of content
types, chunks, positive periods, efforts and failing calls (`ChatConstants`). Both follow
from `ChatInv`, which has two halves that do not meet.

**The corpus** (`CorpusInv`). `Interleaved` bounds how far apart the uses of two streams are
by one and the streams that ran dry, but the bound is not inductive: `streams[i % len(streams)]`
runs over a list that shrinks while the counter goes on, so a stream that runs dry moves the
others up and the counter lands anywhere. What is inductive is the distance *before the
current lap*, the uses of a stream less one if the counter has passed it (`BeforeLap`).
While no stream runs dry the distances stay as they are, since every stream gains one per
lap (`LapGoesOn`); when one does, whatever the place of the others and of the counter, they
move by at most one (`LapMoves`), and so does the number of dry streams (`PopDries`). The
difference is not symmetric: an earlier stream may be behind by one more than it may be
ahead (`LapsClose`). That two neighbours are of one type only when no other is left needs
that the counter never points at the last chunk's stream while two are left (`Alternates`):
a stream that stays is passed, and one that ran dry is of no type that is left, as every
type has one stream (`OneStreamEach`).

**The conversation** (the other conjuncts of `ChatInv`). Each record is appended and nothing
else of the file changes (`Grown`), so every set of records gains at most the new place
(`KindsGrow`), and a list of ids grows at its end (`NamesGrow`). On that rest:

* `TurnsRecorded`, `PairsKept`: each turn has its record in order, only the last one may
  have failed, and the answered ones are the pairs of the conversation, which is what makes
  the analyser's count of answers and the failed turn add up.
* `CanariesPlanted`, `AskedFor`: a canary's note is in the question of its turn, or that turn
  failed; what a record asked for stays true because the conversation only grows. A recall
  cannot ask for a canary whose turn failed, since no battery follows an error.
* `BatteriesAsked`, `PassesAsked`: what a battery has asked for is what it was given less
  `todo`, and all of it is older than `todo`, whose least is next. The analyser reads the
  first of the two off the finished file.
* `FlagsKept`: the flagged turns and the first of them.

TLC checked `ChatInv` as an invariant for two settings of the constants before it was
proved. To be proved about, the properties name sets of places in the file instead of
selecting records from it.

### 4.12 The history normalisation

`EchoesLift` states `NestedIsLifted`, `NothingGuessed` and `LiftedOnce` for all texts that
are put together from sequences (`EchoConstants`), however long. The text does not change,
so that its invariant is only that it is a sequence; the work is in the scan.

* `OpenIs`, `TagHeld`: the scan is defined by a recursion, which has a solution for every
  length; a tag that is open was an opening tag and has stayed open since, past everything
  but its closing tag. Hence `MatchIs`, what a pair found by an expression looks like, and
  `TagCloses`, that a tag which is open at one place and not at a later one was found.
* `EachFound`: the code compares two counts, of what was found and of what was opened.
  They are equal exactly if each opening tag was found, since what was found is an
  injective image of some of them. `WholeIs` says so of a block.
* `NothingGuessed` follows: the next opening tag would be found as well, and two pairs
  found are apart (`FoundApart`). `LiftedOnce`: a block in what is left would have been
  open at its places in the text, too (`NothingLeft`).
* `NestedIsLifted`: if the tags nest, the levels are never "wrong" on the way
  (`NestsAlways`), and between the right places they go inside at an opening tag and
  around again at a closing one (`Fits`, once for each of the three kinds). So a tag is
  open exactly where the level is inside (`TagLevels`), and each one opened is found.

### 4.13 The compositions

The runs `tools` and `block_variants` check the properties of the components in graphs
that hold all of them, so the theorems of the components are carried over to the
specifications that run, `Tools!Spec` and `BlockVariants!Spec`:

| theorem | property | from |
|---|---|---|
| `ChatIsAccounted` | `ChatAccounted` | `ChatAccounts` |
| `DepthIsMeasured` | `DepthMeasured` | `DepthAlone` |
| `AgentIsReplayed` | `AgentReplays` | `AgentTellsOneStory` |
| `CallsAreKept` | `CallsKept` | `CallsStayWhole` |
| `PatchScriptsAreSound` | `PatchRunsSound` | `PatchesSound` |
| `RanksAgree` | `RelayAgrees` | `RelayCorrect` |
| `WatchIsSound` | `WatchSound` | `WatchdogSound` |
| `EchoesAreLifted` | `EchoLifted` | `EchoesLift` |
| `LoopsAreCaught` | `LoopsFlagged` | `LoopsAreFlagged` |
| `LoopsKeepTheirBooks` | `LoopsKeepBooks` | `LoopsAccount` |
| `AnswersFinish` | `FinishedAnswerValid` | `FinishedAnswers` |
| `EnforcementStays` | `EnforcementHolds` | `EnforcementLasts` |

Each takes the proof module of its component as an instance over the variables of the
composition. Four things have to be shown before its theorem can be used.

1. *The hypotheses hold.* What a component's proof asks of its constants (`ChatConstants`,
   `RelayConstants`, ...) follows from the named assumption of the composition
   (`ChatAssumption`, `RelayAssumption`, ...), which TLC evaluates for the instance that
   runs: the lemmas called `...Configured`. So the hypotheses are met by states that
   exist. In `BlockVariants` the assumptions of `BlockCommit` itself are proved of each
   variant in the same way.
2. *The steps are the component's.* `part` and `variant` never change, so a behaviour
   that starts in one component stays in it, and its steps are steps of the component or
   leave its variables alone.
3. *The two instances agree.* An instance inside a proof module and the one in the
   composition have the same definitions, but are different symbols to the prover: the
   lemmas called `...Same` expand both, action by action and conjunct by conjunct.
4. *A behaviour of the composition is one of the component, when that part runs*: the
   temporal step, from 1 to 3.

Where another part runs a property holds because it speaks of its own part only. That is
no loss: `Init` has a disjunct for every part, and the theorem of the component is about
all of that part's behaviours.

### 4.14 Only model-checked

* Liveness (`ScheduledIsSettled`, `RequestEnds`): out of the prover's reach.

Every other property of a passing run is a theorem.

## 5. Where the code and its documentation differ

| run | property | what happens |
|---|---|---|
| `engine_cap` | `DeferredWindowsCovered` | The cap evicts the *first inserted* key, and refreshing a row does not move its key. Once more ids than the cap have passed through (finished ones linger), a long-lived running request is the first to lose its row, and its window stays a placeholder. `apply_0028.py` 130-131 says each request finds its own last drafts. |
| `engine_immediate` | `EveryWindowRewritten` | Only the deferred branch rewrites windows. A batch that needs no drain is sampled with placeholder windows, whose rows after the first are unconstrained. `PATCH.md` 23 states the rewrite as a must; the debug patch's comment (`apply_0028dbg.py` 38-42) knows of the exception. |
| `block_resume` | `TailBounded` | A block sampled without drafts is not filtered. If its grammar rejects it, 0008 abandons enforcement without arming the guard of 0014, and the tail is unbounded, although the guard's comment calls its own place the single point of salvage. |
| `block_trim` | `SignaturesTrimmed` | The budget is looked at before the watch and returns, so a signature completed by the very token that exhausts the budget is delivered whole. |
| `block_mention` | `OneMentionSurvives` | With blocks of one token the window of 16 + 1 keeps one mention in view for 17 blocks, past the streak of 12: one legitimate mention ends the request. |
| `tools_together` | `UtilsTogether` | The three edits of utils in `apply_0028.py`, which "must apply together" (177), are written one by one and only the first, which is written first, has a marker. After a kill or a missing anchor the next run skips all three and reports success. |

What the models show besides, without a run of its own:

* Patch 0028 says that "each request finds exactly the drafts proposed at its own last
  sample" (`PATCH.md` 63-64), but `set_draft_tokens` discards the rows of a batch that
  has no structured request (`tdd_0028.py` 319-322). A plain request then keeps the row
  of an earlier batch, and when it shares a deferred batch with a structured one its
  window is rewritten with a row that does not continue it. `NoStaleDrafts` therefore
  speaks of structured requests; the test calls the others "grammar-irrelevant", since
  no mask is computed from their windows.
* The prefilter of the tag-soup tripwire is a matter of tokens, although the signatures
  are text: its ids are the first of each signature encoded *alone* (0015 17-25), and a
  window with none of them is not decoded (57-58). 0014 decodes its window so that
  "context-dependent tokenization cannot evade it" (103-104); the tripwire can be
  evaded, by soup in a spelling without a first id. The instance of `block_salvage` has
  such a spelling: after the blocks x and x x, which have no first id, the block xx xx x
  puts the fourth end of the signature into the output of a running request, where the
  thresholds allow three. `SoupBounded` therefore speaks of the spellings that pass.
* `dual_format_agent.py`: a failed step counts as OK in `chain_ok`, because its soft
  verdict is None (380-384); a call that failed validation but parsed is still run
  and fed back (389); a retry goes out without the history; a chain in mixed formats
  keeps no trace of a failed step; `REC` is called one record "per model call
  attempt" (206) but has one per step.
* `bench_chat_accumulate.py`: after an error the note of the turn that was taken back
  is still probed, although "a miss is now unambiguously a retrieval failure"
  (42-43). `analyze_accum.py` leaves errors of the final probe out of its count.
* `phase0_repro.py`: a silent end of the stream is no error, so a truncation is
  blamed on the server; a call cut before its first argument is not flagged by 0023
  and still counts as FAIL_0023.
* `agent_loop.py`: after a failed call the last line (156) adds a fault that was never
  assigned, or is None, to a string, and a traceback stands in for the verdict; an
  empty answer that stops is a clean turn. `depth300k.py`: TOOL_OK+DUP is counted as
  TOOL_OK (188) and listed among the failures (189). `tdd_consecutive_tools.py`:
  group A's verdict sums calls over the repetitions and counts no errors, and two
  calls of one answer satisfy it, although the task asks for calls in sequence (8).
* Patch scripts: `--revert` without a root takes "--revert" for the root, reverts
  nothing and exits with 0; `apply_typebdbg.py` documents a `--revert` it does not
  have; `apply_0019_v2.py`, `apply_0020.py` and `apply_0021.py` overwrite their backup
  on a rerun, and 0020 applies twice.
* Patch 0021: call ids start again in every message; what stands between two
  invocations of a block, or a closing tag alone, is dropped.
* The watchdog: a probe of more than five seconds leaves a gap between two windows;
  otherwise a line in the overlap counts in two cycles.

## 6. What is not modelled

* *Preemption* in `EngineStep` (a preempted request re-enters at an earlier
  position). `BlockCommit` has its effect on blocks (`Resumes`).
* *A mask across the end of reasoning inside one window*: `Allowed` treats a window
  that starts in reasoning as unconstrained.
* *Asynchronous failures* of the executor: a future that raises ends the engine
  process, and nothing survives it.
* *Text*: decoding (a signature is given as its spellings), logging, the wording of flags,
  the cut of an answer without calls to 400 characters in `phase0_repro.py` (398).
* *Floating point* in the sampler, and kernels that only move data.
* *The sparse attention indexer*, *structural tags*, the *speculator* and the *launch
  scripts*: tensor code, constructions without state, and commands whose effect lies
  outside the repository.
* *The streaming tool parser* (0007, 0018) and the *chat template* (0024): patches of
  code whose states are not in the repository; 0023 is modelled where the client
  sees it.
* *One-shot probes and TDD scripts* without state of their own.
* The components of section 1.1 without a module, listed with their reasons in
  `PROJECT.json`.

## 7. Order of work and what is left

Done, in this order: the engine step (the component every other one relies on), its
abstract specification and proofs; the block commit with grammar and tripwires and
its proofs; the rejection sampler with its laws and the proofs of both; the relay between the
ranks and its proofs; the patch scripts and the watchdog with their proofs; the clients
and the history normalisation, with the proofs of the clients; the compositions, whose
properties follow from those of their components.

What could follow: preemption in `EngineStep`; the row-by-row mask across a reasoning
end in `Grammar`; the composition of `PPRelay` with `DraftTokensHandler`.
