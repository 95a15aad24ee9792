--------------------------------- MODULE Tools ---------------------------------
(***************************************************************************)
(* The programs around the engine, each on its own: part names the one     *)
(* that runs, and the variables of the others are empty.                   *)
(***************************************************************************)
EXTENDS Integers, Sequences, FiniteSets

CONSTANTS
  Parts,           \* the programs that may run
  Paths, Contents, \* of the files that the tool agent and phase0_repro.py write
  Kinds, MaxChunks, NumTopics, CanaryEvery, RecallEvery, Efforts, MaxFailed,   \* chat
  Words, MaxDeltas, MaxPiece, GramLength, MaxRepeats, MinTokens, ShareNum, ShareDen,
  Chain, Tasks, Found, AgentAnswers,          \* agent
  Replies, Heads, Wanted, MaxTurns,           \* phase0
  Scripts, Drifts, MaxRuns,                   \* patcher
  Slots, MaxSampleLen, Depth, MaxSteps,       \* relay
  Interval, Slack, MaxProbe, HoldK, MaxCycles,\* watchdog
  Pieces, MaxPieces,                          \* echo
  LoopAnswers, LoopTurns, Repetitions         \* loops

VARIABLES
  part,
  chatPhase, streams, next, chunks, chatTurn, messages, canaries, log, degenTurn,
  over, todo, effort,
  stream,
  mode, fmt, step, sandbox, history, pc, answer, lock, rec, jsonl, chainOk,
  arm, armTurn, armPhase, slots, sent, served, tcs, finish, rows, msgs, fs,
  drift, files, baks, proc, order, done, stopped, runs,
  plan, gen, since, other, last, proposed, sends, recvs, queue, drafts, used,
  cycles, events, window, hold, alert, past,
  content,
  client, loopTurn, rep, talk, lines, counter, fails, stats, verdict

chat     == <<chatPhase, streams, next, chunks, chatTurn, messages, canaries, log,
              degenTurn, over, todo, effort>>
degen    == <<stream>>
agent    == <<mode, fmt, step, sandbox, history, pc, answer, lock, rec, jsonl, chainOk>>
phase0   == <<arm, armTurn, armPhase, slots, sent, served, tcs, finish, rows, msgs, fs>>
patcher  == <<drift, files, baks, proc, order, done, stopped, runs>>
relay    == <<plan, gen, since, other, last, proposed, sends, recvs, queue, drafts, used>>
watchdog == <<cycles, events, window, hold, alert, past>>
echo     == <<content>>
loops    == <<client, loopTurn, rep, talk, lines, counter, fails, stats, verdict>>

vars == <<part, chat, degen, agent, phase0, patcher, relay, watchdog, echo, loops>>

-------------------------------------------------------------------------------
(* The programs. *)

Chat == INSTANCE ChatAccumulate WITH phase <- chatPhase, turn <- chatTurn

Degen == INSTANCE Degeneration

Agent == INSTANCE ToolAgent WITH Answers <- AgentAnswers, fs <- sandbox

P0 == INSTANCE Phase0 WITH turn <- armTurn, phase <- armPhase

Patch == INSTANCE Patcher

Relay == INSTANCE PPRelay

Watch == INSTANCE Watchdog WITH since <- window

Echo == INSTANCE HistoryNormalize

Loops == INSTANCE AgentLoops WITH
  Answers <- LoopAnswers, MaxTurns <- LoopTurns, N <- Repetitions,
  turn <- loopTurn, msgs <- talk, rows <- lines

-------------------------------------------------------------------------------
(* What the programs are configured with. *)

IsSequence(s) == s \in Seq({s[i] : i \in DOMAIN s})

ASSUME ChatAssumption ==
  /\ IsFiniteSet(Kinds) /\ MaxChunks \in Nat
  /\ NumTopics \in Nat \ {0} /\ CanaryEvery \in Nat \ {0} /\ RecallEvery \in Nat \ {0}
  /\ Len(Efforts) \in Nat

\* A phrase that repeats often enough is long enough to be looked at.
ASSUME DegenAssumption ==
  /\ GramLength \in Nat \ {0} /\ MaxRepeats \in Nat \ {0}
  /\ MinTokens \in Nat /\ MinTokens <= GramLength + MaxRepeats - 1

ASSUME AgentAssumption ==
  /\ Tasks \subseteq Nat /\ IsFiniteSet(Tasks) /\ Len(Chain) \in Nat
  /\ Found \in [Agent!Modes -> [Paths -> Contents \cup {Agent!Nothing}]]

\* A call with its closing tag has all its arguments.
ASSUME ReplyAssumption ==
  \A r \in Replies :
    /\ IsSequence(r.slots)
    /\ \A i \in DOMAIN r.slots :
         /\ IsSequence(r.slots[i].args)
         /\ r.slots[i].closed => P0!Complete(r.slots[i].args)

ASSUME PatcherAssumption == Scripts \subseteq DOMAIN Patch!Edits

ASSUME RelayAssumption ==
  /\ IsFiniteSet(Slots) /\ Slots \subseteq Nat
  /\ MaxSampleLen \in Nat \ {0} /\ Depth \in Nat \ {0} /\ MaxSteps \in Nat

ASSUME WatchAssumption ==
  /\ Interval \in Nat /\ Slack \in Nat /\ MaxProbe \in Nat
  /\ Slack <= Interval /\ HoldK \in Nat \ {0}

ASSUME EchoAssumption == MaxPieces \in Nat /\ \A p \in Pieces : IsSequence(p)

ASSUME LoopAssumption ==
  /\ LoopTurns \in Nat \ {0} /\ Repetitions \in Nat \ {0}
  /\ \A c \in {"loop", "depth", "tdd"} : \A a \in LoopAnswers[c] : IsSequence(a.calls)

-------------------------------------------------------------------------------
(* The variables of a part that does not run. *)

ChatOff ==
  /\ chatPhase = "" /\ streams = "" /\ next = "" /\ chunks = "" /\ chatTurn = ""
  /\ messages = "" /\ canaries = "" /\ log = "" /\ degenTurn = "" /\ over = ""
  /\ todo = "" /\ effort = ""

DegenOff ==
  /\ stream = ""

AgentOff ==
  /\ mode = "" /\ fmt = "" /\ step = "" /\ sandbox = "" /\ history = "" /\ pc = ""
  /\ answer = "" /\ lock = "" /\ rec = "" /\ jsonl = "" /\ chainOk = ""

Phase0Off ==
  /\ arm = "" /\ armTurn = "" /\ armPhase = "" /\ slots = "" /\ sent = ""
  /\ served = "" /\ tcs = "" /\ finish = "" /\ rows = "" /\ msgs = "" /\ fs = ""

PatcherOff ==
  /\ drift = "" /\ files = "" /\ baks = "" /\ proc = "" /\ order = "" /\ done = ""
  /\ stopped = "" /\ runs = ""

RelayOff ==
  /\ plan = "" /\ gen = "" /\ since = "" /\ other = "" /\ last = ""
  /\ proposed = "" /\ sends = "" /\ recvs = "" /\ queue = "" /\ drafts = ""
  /\ used = ""

WatchdogOff ==
  /\ cycles = "" /\ events = "" /\ window = "" /\ hold = "" /\ alert = ""
  /\ past = ""

EchoOff ==
  /\ content = ""

LoopsOff ==
  /\ client = "" /\ loopTurn = "" /\ rep = "" /\ talk = "" /\ lines = ""
  /\ counter = "" /\ fails = "" /\ stats = "" /\ verdict = ""

Init ==
  /\ part \in Parts
  /\ IF part = "chat"     THEN Chat!Init  ELSE ChatOff
  /\ IF part = "degen"    THEN Degen!Init ELSE DegenOff
  /\ IF part = "agent"    THEN Agent!Init ELSE AgentOff
  /\ IF part = "phase0"   THEN P0!Init    ELSE Phase0Off
  /\ IF part = "patcher"  THEN Patch!Init ELSE PatcherOff
  /\ IF part = "relay"    THEN Relay!Init ELSE RelayOff
  /\ IF part = "watchdog" THEN Watch!Init ELSE WatchdogOff
  /\ IF part = "echo"     THEN Echo!Init  ELSE EchoOff
  /\ IF part = "loops"    THEN Loops!Init ELSE LoopsOff

Next ==
  /\ UNCHANGED part
  /\ \/ /\ part = "chat" /\ Chat!Next
        /\ UNCHANGED <<degen, agent, phase0, patcher, relay, watchdog, echo, loops>>
     \/ /\ part = "degen" /\ Degen!Next
        /\ UNCHANGED <<chat, agent, phase0, patcher, relay, watchdog, echo, loops>>
     \/ /\ part = "agent" /\ Agent!Next
        /\ UNCHANGED <<chat, degen, phase0, patcher, relay, watchdog, echo, loops>>
     \/ /\ part = "phase0" /\ P0!Next
        /\ UNCHANGED <<chat, degen, agent, patcher, relay, watchdog, echo, loops>>
     \/ /\ part = "patcher" /\ Patch!Next
        /\ UNCHANGED <<chat, degen, agent, phase0, relay, watchdog, echo, loops>>
     \/ /\ part = "relay" /\ Relay!Next
        /\ UNCHANGED <<chat, degen, agent, phase0, patcher, watchdog, echo, loops>>
     \/ /\ part = "watchdog" /\ Watch!Next
        /\ UNCHANGED <<chat, degen, agent, phase0, patcher, relay, echo, loops>>
     \/ /\ part = "echo" /\ Echo!Next
        /\ UNCHANGED <<chat, degen, agent, phase0, patcher, relay, watchdog, loops>>
     \/ /\ part = "loops" /\ Loops!Next
        /\ UNCHANGED <<chat, degen, agent, phase0, patcher, relay, watchdog, echo>>

Spec == Init /\ [][Next]_vars

-------------------------------------------------------------------------------
(* Properties: those of each part, while it runs. *)

\* The accumulating chat keeps one account: the conversation and the JSONL file
\* agree after every call, failed ones included (bench_chat_accumulate.py:24), and
\* the analyser finds in the file the turns, probes and first degenerate turn of
\* the run.
ChatAccounted ==
  part = "chat" => /\ Chat!TranscriptMatchesLog
                   /\ Chat!FirstDegenerateTurn
                   /\ Chat!AnalysisAgrees

\* What the chat measures is depth and nothing else: the content types alternate
\* along it, the notes that are asked for were planted where their canaries say,
\* and the passes of the final probe ask the same of the same conversation.
DepthMeasured ==
  part = "chat" => Chat!Interleaved /\ Chat!ProbesPlanted /\ Chat!PairedProbe

\* A repetition loop in either text of an answer is flagged.
LoopsFlagged == part = "degen" => Degen!LoopsFlagged

\* The tool agent tells one story: under concurrent threads the file holds the
\* records in their order, one true record for every task, step or turn; and
\* the calls in the conversation, paired with their results, make the sandbox
\* what it is, whatever failed on the way.
AgentReplays ==
  part = "agent" => /\ Agent!FileFollowsRecords /\ Agent!OneRecordEach
                    /\ Agent!Replayed /\ Agent!HistoryPaired

\* What becomes of a call between the server and the conversation: its pieces are
\* put together by index however they interleave, a cut inside its arguments is
\* reported and seen (patch 0023), it is answered once with its own result, and
\* only whole writes reach the file.
CallsKept ==
  part = "phase0" => /\ P0!AssembledByIndex /\ P0!TruncationSeen
                     /\ P0!CallsAnsweredOnce /\ P0!ReadsWholeWrites

\* Through kills, failed anchors, reruns and reverts no marked edit gets into a
\* file twice, each backup holds its file as the scripts before left it, and a
\* script that reports success has its edits in, but for those that it looks for
\* by another edit's marker, if it was stopped before (apply_0028.py:180).
PatchRunsSound ==
  part = "patcher" => /\ Patch!NoEditTwice /\ Patch!BackupsNest
                      /\ Patch!MissingOnlyIfStopped

\* The edits of utils that "must apply together" do, whenever apply_0028 reports
\* success (apply_0028.py:177).
UtilsTogether == part = "patcher" => Patch!UtilsTogether

\* Two ranks post the same broadcasts in the same order, and a rank verifies the
\* drafts that the last rank proposed for the same request, not those of a request
\* that had its slot before.
RelayAgrees == part = "relay" => Relay!RelayAgrees

\* The watchdog's windows cover the log, and HOLD is raised after HOLD_K degraded
\* cycles in a row.
WatchSound == part = "watchdog" => Watch!WindowsCover /\ Watch!HoldIsConsecutive

\* Echoed blocks whose tags nest become calls with nothing lost around them, calls
\* are lifted only from what is complete, and what is left has nothing to lift.
EchoLifted ==
  part = "echo" => Echo!NestedIsLifted /\ Echo!NothingGuessed /\ Echo!LiftedOnce

\* The multi-turn loops keep their books: every call is answered once, under its
\* own id; CLEAN is said of clean runs only; arm E accounts for every turn; group A
\* passes only when calls went on.
LoopsKeepBooks ==
  part = "loops" => /\ Loops!CallsAnswered /\ Loops!CleanMeansClean
                    /\ Loops!TurnsAccounted /\ Loops!PassMeansCalls

===============================================================================
