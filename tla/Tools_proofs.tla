------------------------------ MODULE Tools_proofs ------------------------------
(***************************************************************************)
(* Proofs about the programs of Tools: what is proved of each of them by   *)
(* itself holds of the one that runs, for every value of the constants.    *)
(* The proof modules are taken as instances over the variables of Tools.   *)
(* An instance of a component in one of them and its instance in Tools are *)
(* two for the prover, although they are the same formulas: the lemmas     *)
(* named Same expand both.                                                 *)
(***************************************************************************)
EXTENDS Tools, TLAPS

CP == INSTANCE Clients_proofs WITH
  Answers <- AgentAnswers, fs <- sandbox, phase <- chatPhase, turn <- chatTurn, disk <- fs

SP == INSTANCE Scripts_proofs WITH since <- window, latest <- since

TP == INSTANCE Transcripts_proofs WITH
  Answers <- LoopAnswers, MaxTurns <- LoopTurns, N <- Repetitions,
  turn <- loopTurn, msgs <- talk, rows <- lines

\* A sequence, of whatever elements.
LEMMA SequencesAre ==
  ASSUME NEW s, IsSequence(s)
  PROVE  (\E S : s \in Seq(S)) /\ CP!IsSeq(s) /\ TP!IsSeq(s)
BY DEF IsSequence, CP!IsSeq, TP!IsSeq

-------------------------------------------------------------------------------
(* The accumulating chat. *)

\* The chat is configured as its proofs ask.
LEMMA ChatConfigured == CP!ChatConstants
BY ChatAssumption DEF CP!ChatConstants, CP!IsFiniteSet, IsFiniteSet

\* The two instances of the module take the same steps.
LEMMA ChatSame == (Chat!Init <=> CP!Chat!Init) /\ (Chat!Next <=> CP!Chat!Next)
<1>1. Chat!Init <=> CP!Chat!Init
  BY DEF Chat!Init, CP!Chat!Init, Chat!Corpora, CP!Chat!Corpora, Chat!NoTurn,
     CP!Chat!NoTurn, Chat!SetToSeqs, CP!Chat!SetToSeqs, Chat!Cardinality,
     CP!Chat!Cardinality
<1>2. Chat!Next <=> CP!Chat!Next
  BY DEF Chat!Next, CP!Chat!Next, Chat!PopChunk, CP!Chat!PopChunk, Chat!Reply,
     CP!Chat!Reply, Chat!Recall, CP!Chat!Recall, Chat!FinalProbe, CP!Chat!FinalProbe,
     Chat!ReplyError, CP!Chat!ReplyError, Chat!StopChat, CP!Chat!StopChat,
     Chat!StartPass, CP!Chat!StartPass, Chat!Summarise, CP!Chat!Summarise, Chat!vars,
     CP!Chat!vars, Chat!Advance, CP!Chat!Advance, Chat!Refiltered, CP!Chat!Refiltered,
     Chat!Ask, CP!Chat!Ask, Chat!Said, CP!Chat!Said, Chat!Note, CP!Chat!Note,
     Chat!NoNote, CP!Chat!NoNote, Chat!Logged, CP!Chat!Logged, Chat!FirstDegenerate,
     CP!Chat!FirstDegenerate, Chat!Battery, CP!Chat!Battery, Chat!Probe,
     CP!Chat!Probe, Chat!AfterError, CP!Chat!AfterError, Chat!Left, CP!Chat!Left,
     Chat!RemoveAt, CP!Chat!RemoveAt, Chat!Plants, CP!Chat!Plants, Chat!Canary,
     CP!Chat!Canary, Chat!NoTurn, CP!Chat!NoTurn, Chat!Cardinality,
     CP!Chat!Cardinality, Chat!FailedProbes, CP!Chat!FailedProbes, Chat!ErrorKind,
     CP!Chat!ErrorKind, Chat!Min, CP!Chat!Min, Chat!Probed, CP!Chat!Probed
<1> QED
  BY <1>1, <1>2

\* ... and their properties are the same.
LEMMA ChatPropertiesSame ==
  /\ Chat!TranscriptMatchesLog <=> CP!Chat!TranscriptMatchesLog
  /\ Chat!FirstDegenerateTurn <=> CP!Chat!FirstDegenerateTurn
  /\ Chat!AnalysisAgrees <=> CP!Chat!AnalysisAgrees
  /\ Chat!Interleaved <=> CP!Chat!Interleaved
  /\ Chat!ProbesPlanted <=> CP!Chat!ProbesPlanted
  /\ Chat!PairedProbe <=> CP!Chat!PairedProbe
<1>1. Chat!TranscriptMatchesLog <=> CP!Chat!TranscriptMatchesLog
  BY DEF Chat!TranscriptMatchesLog, CP!Chat!TranscriptMatchesLog, Chat!ChatRecords,
     CP!Chat!ChatRecords, Chat!Cardinality, CP!Chat!Cardinality, Chat!Chats,
     CP!Chat!Chats, Chat!Said, CP!Chat!Said, Chat!NoNote, CP!Chat!NoNote
<1>2. Chat!FirstDegenerateTurn <=> CP!Chat!FirstDegenerateTurn
  BY DEF Chat!FirstDegenerateTurn, CP!Chat!FirstDegenerateTurn, Chat!NoTurn,
     CP!Chat!NoTurn, Chat!Min, CP!Chat!Min
<1>3. Chat!AnalysisAgrees <=> CP!Chat!AnalysisAgrees
  BY DEF Chat!AnalysisAgrees, CP!Chat!AnalysisAgrees, Chat!Cardinality,
     CP!Chat!Cardinality, Chat!Chats, CP!Chat!Chats, Chat!Errors, CP!Chat!Errors,
     Chat!FirstFlagged, CP!Chat!FirstFlagged, Chat!Names, CP!Chat!Names, Chat!Recalls,
     CP!Chat!Recalls, Chat!IsError, CP!Chat!IsError, Chat!NoTurn, CP!Chat!NoTurn,
     Chat!Min, CP!Chat!Min
<1>4. Chat!Interleaved <=> CP!Chat!Interleaved
  BY DEF Chat!Interleaved, CP!Chat!Interleaved, Chat!InUse, CP!Chat!InUse, Chat!Count,
     CP!Chat!Count, Chat!Cardinality, CP!Chat!Cardinality, Chat!ToSet, CP!Chat!ToSet
<1>5. Chat!ProbesPlanted <=> CP!Chat!ProbesPlanted
  BY DEF Chat!ProbesPlanted, CP!Chat!ProbesPlanted
<1>6. Chat!PairedProbe <=> CP!Chat!PairedProbe
  BY DEF Chat!PairedProbe, CP!Chat!PairedProbe, Chat!Names, CP!Chat!Names
<1> QED
  BY <1>1, <1>2, <1>3, <1>4, <1>5, <1>6

\* The accumulating chat keeps one account of its run, whatever its content types,
\* plants, efforts and failures.
THEOREM ChatIsAccounted == Spec => []ChatAccounted
<1> DEFINE Runs == part = "chat"
         Holds == CP!Chat!TranscriptMatchesLog /\ CP!Chat!FirstDegenerateTurn /\ CP!Chat!AnalysisAgrees
<1>1. Runs /\ Init => CP!Chat!Init
  BY ChatSame DEF Init
<1>2. Runs /\ [Next]_vars => [CP!Chat!Next]_(CP!Chat!vars)
  BY ChatSame DEF Next, vars, chat, CP!Chat!vars
<1>3. [Next]_vars => (Runs <=> Runs')
  BY DEF Next, vars
<1>4. CP!Chat!Spec => []Holds
  BY ChatConfigured, CP!ChatAccounts
<1>5. (Runs => Holds) => ChatAccounted
  BY ChatPropertiesSame DEF ChatAccounted
<1> HIDE DEF Runs, Holds
<1> QED
  BY <1>1, <1>2, <1>3, <1>4, <1>5, PTL DEF Spec, CP!Chat!Spec

\* The chat measures depth alone, whatever its content types, plants and efforts.
THEOREM DepthIsMeasured == Spec => []DepthMeasured
<1> DEFINE Runs == part = "chat"
         Holds == CP!Chat!Interleaved /\ CP!Chat!ProbesPlanted /\ CP!Chat!PairedProbe
<1>1. Runs /\ Init => CP!Chat!Init
  BY ChatSame DEF Init
<1>2. Runs /\ [Next]_vars => [CP!Chat!Next]_(CP!Chat!vars)
  BY ChatSame DEF Next, vars, chat, CP!Chat!vars
<1>3. [Next]_vars => (Runs <=> Runs')
  BY DEF Next, vars
<1>4. CP!Chat!Spec => []Holds
  BY ChatConfigured, CP!DepthAlone
<1>5. (Runs => Holds) => DepthMeasured
  BY ChatPropertiesSame DEF DepthMeasured
<1> HIDE DEF Runs, Holds
<1> QED
  BY <1>1, <1>2, <1>3, <1>4, <1>5, PTL DEF Spec, CP!Chat!Spec

-------------------------------------------------------------------------------
(* The tool agent. *)

\* The agent is configured as its proofs ask.
LEMMA AgentConfigured == CP!AgentConstants
BY AgentAssumption DEF CP!AgentConstants, CP!IsFiniteSet, IsFiniteSet, Agent!Modes,
   CP!Modes, Agent!Nothing, CP!Nothing

\* The answer of the server is read the same way in both instances,
LEMMA AgentAskedSame ==
  ASSUME NEW raw
  PROVE  Agent!Asked(raw) = CP!Asked(raw)
BY DEF Agent!Asked, CP!Asked, Agent!Unreachable, CP!Unreachable, Agent!ParseFmt, CP!ParseFmt,
   Agent!Broken, CP!Broken, Agent!Min, CP!Min, Agent!ToSet, CP!ToSet,
   Agent!Validate, CP!Validate, Agent!Unfit, CP!Unfit

\* and its calls are executed and fed back the same way.
LEMMA AgentFeedSame ==
  ASSUME NEW id, NEW calls
  PROVE  Agent!Feed(id, calls) <=> CP!Feed(id, calls)
BY DEF Agent!Feed, CP!Feed, Agent!ExecFirst, CP!ExecFirst, Agent!Fed, CP!Fed,
   Agent!Message, CP!Message, Agent!Broken, CP!Broken, Agent!ExecTool, CP!ExecTool,
   Agent!WriteFile, CP!WriteFile, Agent!Look, CP!Look, Agent!EditFile, CP!EditFile,
   Agent!MoveFile, CP!MoveFile, Agent!Present, CP!Present, Agent!Nothing, CP!Nothing

\* So a step of a chain is the same in both instances of the module,
LEMMA AgentChainStepSame ==
  ASSUME NEW raw, NEW again
  PROVE  Agent!ChainStep(raw, again) <=> CP!ChainStep(raw, again)
BY AgentAskedSame, AgentFeedSame
   DEF Agent!ChainStep, CP!ChainStep, Agent!Steps, CP!Steps, Agent!Settle, CP!Settle,
   Agent!Report, CP!Report, Agent!Row, CP!Row, Agent!Failed, CP!Failed,
   Agent!Message, CP!Message, Agent!Broken, CP!Broken

\* a step of the mixed conversation,
LEMMA AgentMixedStepSame ==
  ASSUME NEW raw, NEW again
  PROVE  Agent!MixedStep(raw, again) <=> CP!MixedStep(raw, again)
BY AgentAskedSame, AgentFeedSame
   DEF Agent!MixedStep, CP!MixedStep, Agent!Steps, CP!Steps, Agent!Settle, CP!Settle,
   Agent!Report, CP!Report, Agent!Row, CP!Row

\* a turn of the loop,
LEMMA AgentLoopTurnSame ==
  ASSUME NEW raw
  PROVE  Agent!LoopTurn(raw) <=> CP!LoopTurn(raw)
BY AgentAskedSame, AgentFeedSame
   DEF Agent!LoopTurn, CP!LoopTurn, Agent!Steps, CP!Steps, Agent!Report, CP!Report,
   Agent!Row, CP!Row, Agent!Failed, CP!Failed, Agent!Message, CP!Message, Agent!Broken, CP!Broken

\* the question of a task,
LEMMA AgentAskTaskSame ==
  ASSUME NEW t, NEW raw
  PROVE  Agent!AskTask(t, raw) <=> CP!AskTask(t, raw)
BY AgentAskedSame DEF Agent!AskTask, CP!AskTask

\* its second attempt,
LEMMA AgentRetryTaskSame ==
  ASSUME NEW t, NEW raw
  PROVE  Agent!RetryTask(t, raw) <=> CP!RetryTask(t, raw)
BY AgentAskedSame DEF Agent!RetryTask, CP!RetryTask, Agent!Settle, CP!Settle

\* the record in the list,
LEMMA AgentAppendRowSame ==
  ASSUME NEW t
  PROVE  Agent!AppendRow(t) <=> CP!AppendRow(t)
BY DEF Agent!AppendRow, CP!AppendRow, Agent!Free, CP!Free, Agent!Row, CP!Row,
   Agent!Nobody, CP!Nobody

\* and the record in the file.
LEMMA AgentWriteRowSame ==
  ASSUME NEW t
  PROVE  Agent!WriteRow(t) <=> CP!WriteRow(t)
BY DEF Agent!WriteRow, CP!WriteRow, Agent!Nobody, CP!Nobody, Agent!Row, CP!Row

\* The two instances of the module take the same steps.
LEMMA AgentSame == (Agent!Init <=> CP!Init) /\ (Agent!Next <=> CP!Next)
<1>1. Agent!Init <=> CP!Init
  BY DEF Agent!Init, CP!Init, Agent!Modes, CP!Modes, Agent!Nobody, CP!Nobody
<1>2. Agent!Next <=> CP!Next
  BY AgentChainStepSame, AgentMixedStepSame, AgentLoopTurnSame, AgentAskTaskSame,
     AgentRetryTaskSame, AgentAppendRowSame, AgentWriteRowSame DEF Agent!Next,
     CP!Next, Agent!Over, CP!Over, Agent!vars, CP!vars, Agent!Steps, CP!Steps
<1> QED
  BY <1>1, <1>2

\* ... and their properties are the same.
LEMMA AgentPropertiesSame ==
  /\ Agent!FileFollowsRecords <=> CP!FileFollowsRecords
  /\ Agent!OneRecordEach <=> CP!OneRecordEach
  /\ Agent!Replayed <=> CP!Replayed
  /\ Agent!HistoryPaired <=> CP!HistoryPaired
<1>1. Agent!FileFollowsRecords <=> CP!FileFollowsRecords
  BY DEF Agent!FileFollowsRecords, CP!FileFollowsRecords, Agent!IsPrefix, CP!IsPrefix,
     Agent!Nobody, CP!Nobody
<1>2. Agent!OneRecordEach <=> CP!OneRecordEach
  BY DEF Agent!OneRecordEach, CP!OneRecordEach, Agent!Over, CP!Over,
     Agent!Cardinality, CP!Cardinality, Agent!Steps, CP!Steps
<1>3. Agent!Replayed <=> CP!Replayed
  BY DEF Agent!Replayed, CP!Replayed, Agent!Nothing, CP!Nothing, Agent!FoldLeft,
     CP!FoldLeft, Agent!MapThenFoldSet, CP!MapThenFoldSet, Agent!Max, CP!Max
<1>4. Agent!HistoryPaired <=> CP!HistoryPaired
  BY DEF Agent!HistoryPaired, CP!HistoryPaired
<1> QED
  BY <1>1, <1>2, <1>3, <1>4

\* The tool agent tells one story, whatever its tasks, its chain and the answers of
\* the model.
THEOREM AgentIsReplayed == Spec => []AgentReplays
<1> DEFINE Runs == part = "agent"
         Holds == CP!FileFollowsRecords /\ CP!OneRecordEach /\ CP!Replayed /\ CP!HistoryPaired
<1>1. Runs /\ Init => CP!Init
  BY AgentSame DEF Init
<1>2. Runs /\ [Next]_vars => [CP!Next]_(CP!vars)
  BY AgentSame DEF Next, vars, agent, CP!vars
<1>3. [Next]_vars => (Runs <=> Runs')
  BY DEF Next, vars
<1>4. CP!Spec => []Holds
  BY AgentConfigured, CP!AgentTellsOneStory
<1>5. (Runs => Holds) => AgentReplays
  BY AgentPropertiesSame DEF AgentReplays
<1> HIDE DEF Runs, Holds
<1> QED
  BY <1>1, <1>2, <1>3, <1>4, <1>5, PTL DEF Spec, CP!Spec

-------------------------------------------------------------------------------
(* The client of streamed calls. *)

\* The arms are configured as their proofs ask.
LEMMA Phase0Configured == CP!ReplyConstants
BY ReplyAssumption, SequencesAre DEF CP!ReplyConstants, P0!Complete, CP!P0!Complete

\* The two instances of the module take the same steps.
LEMMA Phase0Same == (P0!Init <=> CP!P0!Init) /\ (P0!Next <=> CP!P0!Next)
<1>1. P0!Init <=> CP!P0!Init
  BY DEF P0!Init, CP!P0!Init, P0!NoSlots, CP!P0!NoSlots
<1>2. P0!Next <=> CP!P0!Next
  BY DEF P0!Next, CP!P0!Next, P0!Ask, CP!P0!Ask, P0!NetError, CP!P0!NetError,
     P0!Chunk, CP!P0!Chunk, P0!EndOfStream, CP!P0!EndOfStream, P0!AnswerX,
     CP!P0!AnswerX, P0!AnswerR, CP!P0!AnswerR, P0!Over, CP!P0!Over, P0!vars,
     CP!P0!vars, P0!NoSlots, CP!P0!NoSlots, P0!Message, CP!P0!Message, P0!NoCall,
     CP!P0!NoCall, P0!Emit, CP!P0!Emit, P0!Merge, CP!P0!Merge, P0!AllSent,
     CP!P0!AllSent, P0!FinishReason, CP!P0!FinishReason, P0!LClass, CP!P0!LClass,
     P0!Response, CP!P0!Response, P0!Assembled, CP!P0!Assembled, P0!Classify,
     CP!P0!Classify, P0!Plain, CP!P0!Plain, P0!EngineFinish, CP!P0!EngineFinish,
     P0!RunCalls, CP!P0!RunCalls, P0!Shown, CP!P0!Shown, P0!Filled, CP!P0!Filled, P0!TruncatedToolArgs,
     CP!P0!TruncatedToolArgs, P0!ArgsInvalid, CP!P0!ArgsInvalid, P0!Cardinality,
     CP!P0!Cardinality, P0!Place, CP!P0!Place, P0!Names, CP!P0!Names, P0!NoParam,
     CP!P0!NoParam, P0!ToSet, CP!P0!ToSet, P0!Tools, CP!P0!Tools, P0!ExecTool,
     CP!P0!ExecTool, P0!Parsed, CP!P0!Parsed, P0!CallId, CP!P0!CallId, P0!FoldLeft,
     CP!P0!FoldLeft, P0!Slot, CP!P0!Slot, P0!Complete, CP!P0!Complete,
     P0!MapThenFoldSet, CP!P0!MapThenFoldSet, P0!Max, CP!P0!Max
<1> QED
  BY <1>1, <1>2

\* ... and their properties are the same.
LEMMA Phase0PropertiesSame ==
  /\ P0!AssembledByIndex <=> CP!P0!AssembledByIndex
  /\ P0!TruncationSeen <=> CP!P0!TruncationSeen
  /\ P0!CallsAnsweredOnce <=> CP!P0!CallsAnsweredOnce
  /\ P0!ReadsWholeWrites <=> CP!P0!ReadsWholeWrites
<1>1. P0!AssembledByIndex <=> CP!P0!AssembledByIndex
  BY DEF P0!AssembledByIndex, CP!P0!AssembledByIndex
<1>2. P0!TruncationSeen <=> CP!P0!TruncationSeen
  BY DEF P0!TruncationSeen, CP!P0!TruncationSeen, P0!TruncatedToolArgs,
     CP!P0!TruncatedToolArgs, P0!Complete, CP!P0!Complete
<1>3. P0!CallsAnsweredOnce <=> CP!P0!CallsAnsweredOnce
  BY DEF P0!CallsAnsweredOnce, CP!P0!CallsAnsweredOnce, P0!NoCall, CP!P0!NoCall
<1>4. P0!ReadsWholeWrites <=> CP!P0!ReadsWholeWrites
  BY DEF P0!ReadsWholeWrites, CP!P0!ReadsWholeWrites, P0!Complete, CP!P0!Complete,
     P0!Shown, CP!P0!Shown, P0!Max, CP!P0!Max
<1> QED
  BY <1>1, <1>2, <1>3, <1>4

\* The calls of a reply stay whole from the server to the file, whatever the server
\* generates and however its pieces interleave.
THEOREM CallsAreKept == Spec => []CallsKept
<1> DEFINE Runs == part = "phase0"
         Holds == CP!P0!AssembledByIndex /\ CP!P0!TruncationSeen /\ CP!P0!CallsAnsweredOnce /\ CP!P0!ReadsWholeWrites
<1>1. Runs /\ Init => CP!P0!Init
  BY Phase0Same DEF Init
<1>2. Runs /\ [Next]_vars => [CP!P0!Next]_(CP!P0!vars)
  BY Phase0Same DEF Next, vars, phase0, CP!P0!vars
<1>3. [Next]_vars => (Runs <=> Runs')
  BY DEF Next, vars
<1>4. CP!P0!Spec => []Holds
  BY Phase0Configured, CP!CallsStayWhole
<1>5. (Runs => Holds) => CallsKept
  BY Phase0PropertiesSame DEF CallsKept
<1> HIDE DEF Runs, Holds
<1> QED
  BY <1>1, <1>2, <1>3, <1>4, <1>5, PTL DEF Spec, CP!P0!Spec

-------------------------------------------------------------------------------
(* The scripts that patch the tree. *)

\* The scripts are ones that Patcher knows.
LEMMA PatchConfigured == SP!PatcherConstants
BY PatcherAssumption DEF SP!PatcherConstants, Patch!Edits, SP!Edits, Patch!Edits0027, SP!Edits0027,
   Patch!Edits0028, SP!Edits0028, Patch!EditsDbg, SP!EditsDbg, Patch!EditsSrc,
   SP!EditsSrc, Patch!EditsSrc2, SP!EditsSrc2, Patch!EditsSrc3, SP!EditsSrc3,
   Patch!EditsTypebDbg, SP!EditsTypebDbg, Patch!Edits0019, SP!Edits0019,
   Patch!Edits0020, SP!Edits0020, Patch!Edits0021, SP!Edits0021, Patch!Edit, SP!Edit

\* The two instances of the module take the same steps.
LEMMA PatchSame == (Patch!Init <=> SP!Init) /\ (Patch!Next <=> SP!Next)
<1>1. Patch!Init <=> SP!Init
  BY DEF Patch!Init, SP!Init, Patch!Files, SP!Files, Patch!Idle, SP!Idle
<1>2. Patch!Next <=> SP!Next
  BY DEF Patch!Next, SP!Next, Patch!Start, SP!Start, Patch!Succeed, SP!Succeed,
     Patch!Skip, SP!Skip, Patch!Apply, SP!Apply, Patch!Fail, SP!Fail, Patch!SkipWhole,
     SP!SkipWhole, Patch!ApplyWhole, SP!ApplyWhole, Patch!CopyAndApply,
     SP!CopyAndApply, Patch!Revert, SP!Revert, Patch!Kill, SP!Kill, Patch!Idle,
     SP!Idle, Patch!vars, SP!vars, Patch!ToSet, SP!ToSet, Patch!FirstEdit,
     SP!FirstEdit, Patch!Running, SP!Running, Patch!Past, SP!Past, Patch!WholeFile,
     SP!WholeFile, Patch!Marked, SP!Marked, Patch!Current, SP!Current, Patch!Anchored,
     SP!Anchored, Patch!Backup, SP!Backup, Patch!CopiesAlways, SP!CopiesAlways,
     Patch!Has, SP!Has, Patch!TheFile, SP!TheFile, Patch!Edits, SP!Edits,
     Patch!AllAnchored, SP!AllAnchored, Patch!All, SP!All, Patch!BackupAnew,
     SP!BackupAnew, Patch!Last, SP!Last, Patch!Files, SP!Files, Patch!Restrict,
     SP!Restrict, Patch!Front, SP!Front, Patch!Edits0027, SP!Edits0027,
     Patch!Edits0028, SP!Edits0028, Patch!EditsDbg, SP!EditsDbg, Patch!EditsSrc,
     SP!EditsSrc, Patch!EditsSrc2, SP!EditsSrc2, Patch!EditsSrc3, SP!EditsSrc3,
     Patch!EditsTypebDbg, SP!EditsTypebDbg, Patch!Edits0019, SP!Edits0019,
     Patch!Edits0020, SP!Edits0020, Patch!Edits0021, SP!Edits0021, Patch!Edit, SP!Edit
<1> QED
  BY <1>1, <1>2

\* ... and their properties are the same.
LEMMA PatchPropertiesSame ==
  /\ Patch!NoEditTwice <=> SP!NoEditTwice
  /\ Patch!MissingOnlyIfStopped <=> SP!MissingOnlyIfStopped
  /\ Patch!BackupsNest <=> SP!BackupsNest
<1>1. Patch!NoEditTwice <=> SP!NoEditTwice
  BY DEF Patch!NoEditTwice, SP!NoEditTwice, Patch!Files, SP!Files, Patch!Marking,
     SP!Marking, Patch!Edits, SP!Edits, Patch!CopiesAlways, SP!CopiesAlways,
     Patch!Edits0027, SP!Edits0027, Patch!Edits0028, SP!Edits0028, Patch!EditsDbg,
     SP!EditsDbg, Patch!EditsSrc, SP!EditsSrc, Patch!EditsSrc2, SP!EditsSrc2,
     Patch!EditsSrc3, SP!EditsSrc3, Patch!EditsTypebDbg, SP!EditsTypebDbg,
     Patch!Edits0019, SP!Edits0019, Patch!Edits0020, SP!Edits0020, Patch!Edits0021,
     SP!Edits0021, Patch!Edit, SP!Edit
<1>2. Patch!MissingOnlyIfStopped <=> SP!MissingOnlyIfStopped
  BY DEF Patch!MissingOnlyIfStopped, SP!MissingOnlyIfStopped, Patch!Unmarked,
     SP!Unmarked, Patch!Edits, SP!Edits, Patch!Has, SP!Has, Patch!WholeFile, SP!WholeFile, Patch!TheFile, SP!TheFile,
     Patch!Edits0027, SP!Edits0027, Patch!Edits0028, SP!Edits0028, Patch!EditsDbg,
     SP!EditsDbg, Patch!EditsSrc, SP!EditsSrc, Patch!EditsSrc2, SP!EditsSrc2,
     Patch!EditsSrc3, SP!EditsSrc3, Patch!EditsTypebDbg, SP!EditsTypebDbg,
     Patch!Edits0019, SP!Edits0019, Patch!Edits0020, SP!Edits0020, Patch!Edits0021,
     SP!Edits0021, Patch!Edit, SP!Edit
<1>3. Patch!BackupsNest <=> SP!BackupsNest
  BY DEF Patch!BackupsNest, SP!BackupsNest, Patch!ToSet, SP!ToSet, Patch!CopiesAlways,
     SP!CopiesAlways, Patch!IsPrefix, SP!IsPrefix, Patch!Earlier, SP!Earlier,
     Patch!Files, SP!Files
<1> QED
  BY <1>1, <1>2, <1>3

\* The runs of the patch scripts are sound, whichever of them the operator uses, in
\* whatever order, and whatever anchors the tree lacks: no marked edit twice, backups
\* that nest, and edits missing after a success only for the scripts and in the way
\* that PatchRunsSound names.
THEOREM PatchScriptsAreSound == Spec => []PatchRunsSound
<1> DEFINE Runs == part = "patcher"
         Holds == SP!NoEditTwice /\ SP!BackupsNest /\ SP!MissingOnlyIfStopped
<1>1. Runs /\ Init => SP!Init
  BY PatchSame DEF Init
<1>2. Runs /\ [Next]_vars => [SP!Next]_(SP!vars)
  BY PatchSame DEF Next, vars, patcher, SP!vars
<1>3. [Next]_vars => (Runs <=> Runs')
  BY DEF Next, vars
<1>4. SP!Spec => []Holds
  BY PatchConfigured, SP!PatchesSound
<1>5. (Runs => Holds) => PatchRunsSound
  BY PatchPropertiesSame DEF PatchRunsSound
<1> HIDE DEF Runs, Holds
<1> QED
  BY <1>1, <1>2, <1>3, <1>4, <1>5, PTL DEF Spec, SP!Spec

-------------------------------------------------------------------------------
(* The relay between the ranks. *)

\* The relay is configured as its proofs ask.
LEMMA RelayConfigured == SP!RelayConstants
BY RelayAssumption DEF SP!RelayConstants, SP!IsFiniteSet, IsFiniteSet

\* The two instances of the module take the same steps.
LEMMA RelaySame == (Relay!Init <=> SP!Relay!Init) /\ (Relay!Next <=> SP!Relay!Next)
<1>1. Relay!Init <=> SP!Relay!Init
  BY DEF Relay!Init, SP!Relay!Init, Relay!None, SP!Relay!None
<1>2. Relay!Next <=> SP!Relay!Next
  BY DEF Relay!Next, SP!Relay!Next, Relay!Schedule, SP!Relay!Schedule, Relay!Abort,
     SP!Relay!Abort, Relay!RunOther, SP!Relay!RunOther, Relay!RunLast,
     SP!Relay!RunLast, Relay!Propose, SP!Relay!Propose, Relay!Match, SP!Relay!Match,
     Relay!Over, SP!Relay!Over, Relay!vars, SP!Relay!vars, Relay!Eligible,
     SP!Relay!Eligible, Relay!Decodes, SP!Relay!Decodes, Relay!None, SP!Relay!None,
     Relay!Scatter, SP!Relay!Scatter, Relay!IdxMapping, SP!Relay!IdxMapping,
     Relay!Arrived, SP!Relay!Arrived, Relay!Receive, SP!Relay!Receive, Relay!Needed,
     SP!Relay!Needed, Relay!NoRecv, SP!Relay!NoRecv, Relay!Op, SP!Relay!Op,
     Relay!Rows, SP!Relay!Rows, Relay!Padded, SP!Relay!Padded, Relay!Drafted,
     SP!Relay!Drafted, Relay!Relayed, SP!Relay!Relayed, Relay!Cardinality,
     SP!Relay!Cardinality
<1> QED
  BY <1>1, <1>2

\* ... and their properties are the same.
LEMMA RelayPropertySame == Relay!RelayAgrees <=> SP!Relay!RelayAgrees
BY DEF Relay!RelayAgrees, SP!Relay!RelayAgrees, Relay!BroadcastsPair,
   SP!Relay!BroadcastsPair, Relay!VerifiesRelayedDrafts,
   SP!Relay!VerifiesRelayedDrafts, Relay!Min, SP!Relay!Min, Relay!None, SP!Relay!None

\* The ranks agree about every broadcast, whatever the slots, the windows and the
\* depth of the pipeline.
THEOREM RanksAgree == Spec => []RelayAgrees
<1> DEFINE Runs == part = "relay"
         Holds == SP!Relay!RelayAgrees
<1>1. Runs /\ Init => SP!Relay!Init
  BY RelaySame DEF Init
<1>2. Runs /\ [Next]_vars => [SP!Relay!Next]_(SP!Relay!vars)
  BY RelaySame DEF Next, vars, relay, SP!Relay!vars
<1>3. [Next]_vars => (Runs <=> Runs')
  BY DEF Next, vars
<1>4. SP!Relay!Spec => []Holds
  BY RelayConfigured, SP!RelayCorrect
<1>5. (Runs => Holds) => RelayAgrees
  BY RelayPropertySame DEF RelayAgrees
<1> HIDE DEF Runs, Holds
<1> QED
  BY <1>1, <1>2, <1>3, <1>4, <1>5, PTL DEF Spec, SP!Relay!Spec

-------------------------------------------------------------------------------
(* The watchdog. *)

\* The watchdog is configured as its proofs ask.
LEMMA WatchConfigured == SP!WatchConstants
BY WatchAssumption DEF SP!WatchConstants

\* The two instances of the module take the same steps.
LEMMA WatchSame == (Watch!Init <=> SP!Watch!Init) /\ (Watch!Next <=> SP!Watch!Next)
<1>1. Watch!Init <=> SP!Watch!Init
  BY DEF Watch!Init, SP!Watch!Init
<1>2. Watch!Next <=> SP!Watch!Next
  BY DEF Watch!Next, SP!Watch!Next, Watch!Cycle, SP!Watch!Cycle, Watch!LineKinds,
     SP!Watch!LineKinds, Watch!vars, SP!Watch!vars, Watch!Window, SP!Watch!Window,
     Watch!Count, SP!Watch!Count, Watch!NextHold, SP!Watch!NextHold,
     Watch!Cardinality, SP!Watch!Cardinality
<1> QED
  BY <1>1, <1>2

\* ... and their properties are the same.
LEMMA WatchPropertiesSame ==
  /\ Watch!WindowsCover <=> SP!Watch!WindowsCover
  /\ Watch!HoldIsConsecutive <=> SP!Watch!HoldIsConsecutive
<1>1. Watch!WindowsCover <=> SP!Watch!WindowsCover
  BY DEF Watch!WindowsCover, SP!Watch!WindowsCover
<1>2. Watch!HoldIsConsecutive <=> SP!Watch!HoldIsConsecutive
  BY DEF Watch!HoldIsConsecutive, SP!Watch!HoldIsConsecutive
<1> QED
  BY <1>1, <1>2

\* The windows of the watchdog cover the log and HOLD follows HOLD_K degraded cycles
\* in a row, whatever the interval, the slack, the timeout and HOLD_K.
THEOREM WatchIsSound == Spec => []WatchSound
<1> DEFINE Runs == part = "watchdog"
         Holds == SP!Watch!WindowsCover /\ SP!Watch!HoldIsConsecutive
<1>1. Runs /\ Init => SP!Watch!Init
  BY WatchSame DEF Init
<1>2. Runs /\ [Next]_vars => [SP!Watch!Next]_(SP!Watch!vars)
  BY WatchSame DEF Next, vars, watchdog, SP!Watch!vars
<1>3. [Next]_vars => (Runs <=> Runs')
  BY DEF Next, vars
<1>4. SP!Watch!Spec => []Holds
  BY WatchConfigured, SP!WatchdogSound
<1>5. (Runs => Holds) => WatchSound
  BY WatchPropertiesSame DEF WatchSound
<1> HIDE DEF Runs, Holds
<1> QED
  BY <1>1, <1>2, <1>3, <1>4, <1>5, PTL DEF Spec, SP!Watch!Spec

-------------------------------------------------------------------------------
(* The normalisation of echoed calls. *)

\* The pieces are sequences of the tags and words that occur in them.
LEMMA EchoConfigured == TP!EchoConstants
<1> DEFINE S == UNION {{p[i] : i \in DOMAIN p} : p \in Pieces}
<1>1. \A p \in Pieces : p \in Seq(S)
  <2> TAKE p \in Pieces
  <2> DEFINE R == {p[i] : i \in DOMAIN p}
  <2>1. p \in Seq(R)
    BY EchoAssumption DEF IsSequence
  <2>2. R \subseteq S
    OBVIOUS
  <2> HIDE DEF R, S
  <2> QED
    BY <2>1, <2>2
<1> HIDE DEF S
<1> QED
  BY <1>1, EchoAssumption DEF TP!EchoConstants

\* The two instances of the module take the same steps.
LEMMA EchoSame == (Echo!Init <=> TP!Echo!Init) /\ (Echo!Next <=> TP!Echo!Next)
<1>1. Echo!Init <=> TP!Echo!Init
  BY DEF Echo!Init, TP!Echo!Init, Echo!FlattenSeq, TP!Echo!FlattenSeq
<1>2. Echo!Next <=> TP!Echo!Next
  BY DEF Echo!Next, TP!Echo!Next
<1> QED
  BY <1>1, <1>2

\* ... and their properties are the same.
LEMMA ExtractSame == ASSUME NEW c PROVE Echo!Extract(c) = TP!Echo!Extract(c)
BY DEF Echo!Extract, TP!Echo!Extract, Echo!Blocks, TP!Echo!Blocks, Echo!Whole,
   TP!Echo!Whole, Echo!None, TP!Echo!None, Echo!Outside, TP!Echo!Outside,
   Echo!ParamsOf, TP!Echo!ParamsOf, Echo!Invokes, TP!Echo!Invokes, Echo!Enclosed,
   TP!Echo!Enclosed, Echo!Max, TP!Echo!Max, Echo!Cardinality, TP!Echo!Cardinality,
   Echo!Opened, TP!Echo!Opened, Echo!Params, TP!Echo!Params, Echo!Restrict,
   TP!Echo!Restrict, Echo!Open, TP!Echo!Open, Echo!After, TP!Echo!After

\* And say the same of a message.
LEMMA EchoPropertiesSame ==
  /\ Echo!NestedIsLifted <=> TP!Echo!NestedIsLifted
  /\ Echo!NothingGuessed <=> TP!Echo!NothingGuessed
  /\ Echo!LiftedOnce <=> TP!Echo!LiftedOnce
<1>1. Echo!NestedIsLifted <=> TP!Echo!NestedIsLifted
  BY DEF Echo!NestedIsLifted, TP!Echo!NestedIsLifted, Echo!Nested, TP!Echo!Nested,
     Echo!Places, TP!Echo!Places, Echo!Extract, TP!Echo!Extract, Echo!Level,
     TP!Echo!Level, Echo!Blocks, TP!Echo!Blocks, Echo!Whole, TP!Echo!Whole, Echo!None,
     TP!Echo!None, Echo!Outside, TP!Echo!Outside, Echo!ParamsOf, TP!Echo!ParamsOf,
     Echo!Invokes, TP!Echo!Invokes, Echo!Move, TP!Echo!Move, Echo!Enclosed,
     TP!Echo!Enclosed, Echo!Max, TP!Echo!Max, Echo!Cardinality, TP!Echo!Cardinality,
     Echo!Opened, TP!Echo!Opened, Echo!Params, TP!Echo!Params, Echo!Restrict,
     TP!Echo!Restrict, Echo!Open, TP!Echo!Open, Echo!After, TP!Echo!After
<1>2. Echo!NothingGuessed <=> TP!Echo!NothingGuessed
  BY DEF Echo!NothingGuessed, TP!Echo!NothingGuessed, Echo!Extract, TP!Echo!Extract,
     Echo!Blocks, TP!Echo!Blocks, Echo!Params, TP!Echo!Params, Echo!Whole,
     TP!Echo!Whole, Echo!None, TP!Echo!None, Echo!Outside, TP!Echo!Outside,
     Echo!ParamsOf, TP!Echo!ParamsOf, Echo!Invokes, TP!Echo!Invokes, Echo!Enclosed,
     TP!Echo!Enclosed, Echo!Max, TP!Echo!Max, Echo!Cardinality, TP!Echo!Cardinality,
     Echo!Opened, TP!Echo!Opened, Echo!Restrict, TP!Echo!Restrict, Echo!Open,
     TP!Echo!Open, Echo!After, TP!Echo!After
<1>3. Echo!LiftedOnce <=> TP!Echo!LiftedOnce
  BY ExtractSame DEF Echo!LiftedOnce, TP!Echo!LiftedOnce
<1> QED
  BY <1>1, <1>2, <1>3

\* Echoed blocks are lifted whole and once, whatever texts are put together from.
THEOREM EchoesAreLifted == Spec => []EchoLifted
<1> DEFINE Runs == part = "echo"
         Holds == TP!Echo!NestedIsLifted /\ TP!Echo!NothingGuessed /\ TP!Echo!LiftedOnce
<1>1. Runs /\ Init => TP!Echo!Init
  BY EchoSame DEF Init
<1>2. Runs /\ [Next]_vars => [TP!Echo!Next]_content
  BY EchoSame DEF Next, vars, echo
<1>3. [Next]_vars => (Runs <=> Runs')
  BY DEF Next, vars
<1>4. TP!Echo!Spec => []Holds
  BY EchoConfigured, TP!EchoesLift
<1>5. (Runs => Holds) => EchoLifted
  BY EchoPropertiesSame DEF EchoLifted
<1> HIDE DEF Runs, Holds
<1> QED
  BY <1>1, <1>2, <1>3, <1>4, <1>5, PTL DEF Spec, TP!Echo!Spec

-------------------------------------------------------------------------------
(* The metrics of an answer. *)

\* The metrics are configured as their proofs ask.
LEMMA DegenConfigured == TP!DegenConstants
BY DegenAssumption DEF TP!DegenConstants

\* The two instances of the module take the same steps.
LEMMA DegenSame == (Degen!Init <=> TP!Degen!Init) /\ (Degen!Next <=> TP!Degen!Next)
<1>1. Degen!Init <=> TP!Degen!Init
  BY DEF Degen!Init, TP!Degen!Init, Degen!Deltas, TP!Degen!Deltas
<1>2. Degen!Next <=> TP!Degen!Next
  BY DEF Degen!Next, TP!Degen!Next
<1> QED
  BY <1>1, <1>2

\* ... and their properties are the same.
LEMMA DegenPropertySame == Degen!LoopsFlagged <=> TP!Degen!LoopsFlagged
BY DEF Degen!LoopsFlagged, TP!Degen!LoopsFlagged, Degen!Sent, TP!Degen!Sent,
   Degen!Loops, TP!Degen!Loops, Degen!Flagged, TP!Degen!Flagged, Degen!ChatStream,
   TP!Degen!ChatStream, Degen!FoldLeft, TP!Degen!FoldLeft, Degen!Degenerate,
   TP!Degen!Degenerate, Degen!Joined, TP!Degen!Joined, Degen!ThinkFields,
   TP!Degen!ThinkFields, Degen!MapThenFoldSet, TP!Degen!MapThenFoldSet, Degen!Max,
   TP!Degen!Max, Degen!MostCommon, TP!Degen!MostCommon, Degen!ngrams, TP!Degen!ngrams,
   Degen!FlattenSeq, TP!Degen!FlattenSeq, Degen!Often, TP!Degen!Often,
   Degen!Cardinality, TP!Degen!Cardinality

\* A repetition loop is flagged, whatever the words, the deltas and the thresholds.
THEOREM LoopsAreCaught == Spec => []LoopsFlagged
<1> DEFINE Runs == part = "degen"
         Holds == TP!Degen!LoopsFlagged
<1>1. Runs /\ Init => TP!Degen!Init
  BY DegenSame DEF Init
<1>2. Runs /\ [Next]_vars => [TP!Degen!Next]_stream
  BY DegenSame DEF Next, vars, degen
<1>3. [Next]_vars => (Runs <=> Runs')
  BY DEF Next, vars
<1>4. TP!Degen!Init /\ [][TP!Degen!Next]_stream => []Holds
  BY DegenConfigured, TP!LoopsAreFlagged
<1>5. (Runs => Holds) => LoopsFlagged
  BY DegenPropertySame DEF LoopsFlagged
<1> HIDE DEF Runs, Holds
<1> QED
  BY <1>1, <1>2, <1>3, <1>4, <1>5, PTL DEF Spec

-------------------------------------------------------------------------------
(* The multi-turn loops. *)

\* The loops are configured as their proofs ask.
LEMMA LoopsConfigured == TP!LoopConstants
BY LoopAssumption, SequencesAre DEF TP!LoopConstants

\* A turn of the agent loop is the same in both instances.
LEMMA LoopsLoopTurnSame ==
  ASSUME NEW a
  PROVE  Loops!LoopTurn(a) <=> TP!LoopTurn(a)
BY DEF Loops!LoopTurn, TP!LoopTurn, Loops!User, TP!User,
   Loops!Fault, TP!Fault, Loops!Said, TP!Said, Loops!Result, TP!Result,
   Loops!FakeResult, TP!FakeResult, Loops!Row, TP!Row, Loops!BadCalls, TP!BadCalls

\* So is an answer with calls in group A,
LEMMA LoopsTddCallsSame ==
  ASSUME NEW a
  PROVE  Loops!TddCalls(a) <=> TP!TddCalls(a)
BY DEF Loops!TddCalls, TP!TddCalls, Loops!GoOn, TP!GoOn, Loops!User, TP!User,
   Loops!Said, TP!Said, Loops!Result, TP!Result, Loops!TddResult, TP!TddResult,
   Loops!RoundRow, TP!RoundRow, Loops!LoopBroken, TP!LoopBroken

\* an answer without any,
LEMMA LoopsTddTextSame ==
  ASSUME NEW a
  PROVE  Loops!TddText(a) <=> TP!TddText(a)
BY DEF Loops!TddText, TP!TddText, Loops!GoOn, TP!GoOn, Loops!User, TP!User,
   Loops!RoundRow, TP!RoundRow, Loops!LoopBroken, TP!LoopBroken

\* a turn of depth300k,
LEMMA LoopsDepthTurnSame ==
  ASSUME NEW a, NEW large
  PROVE  Loops!DepthTurn(a, large) <=> TP!DepthTurn(a, large)
BY DEF Loops!DepthTurn, TP!DepthTurn, Loops!Numbered, TP!Numbered, Loops!Asked,
   TP!Asked, Loops!Said, TP!Said, Loops!FlattenSeq, TP!FlattenSeq, Loops!Result,
   TP!Result, Loops!Row, TP!Row, Loops!DepthClass, TP!DepthClass, Loops!Duplicate,
   TP!Duplicate, Loops!Counted, TP!Counted, Loops!User, TP!User, Loops!ToSet,
   TP!ToSet, Loops!CallNames, TP!CallNames, Loops!IsInjective, TP!IsInjective,
   Loops!SetToBag, TP!SetToBag, Loops!(+), TP!(+)

\* and a call to the server that fails in the agent loop,
LEMMA LoopsLoopErrorSame == Loops!LoopError <=> TP!LoopError
BY DEF Loops!LoopError, TP!LoopError, Loops!User, TP!User, Loops!Row, TP!Row

\* in depth300k
LEMMA LoopsDepthErrorSame == Loops!DepthError <=> TP!DepthError
BY DEF Loops!DepthError, TP!DepthError, Loops!FailedTurn, TP!FailedTurn, Loops!Asked,
   TP!Asked, Loops!Row, TP!Row, Loops!Counted, TP!Counted, Loops!User, TP!User,
   Loops!SetToBag, TP!SetToBag, Loops!(+), TP!(+)

\* and in group A.
LEMMA LoopsTddErrorSame == Loops!TddError <=> TP!TddError
BY DEF Loops!TddError, TP!TddError, Loops!GoOn, TP!GoOn, Loops!User, TP!User,
   Loops!RoundRow, TP!RoundRow, Loops!LoopBroken, TP!LoopBroken

\* The two instances of the module take the same steps.
LEMMA LoopsSame == (Loops!Init <=> TP!Init) /\ (Loops!Next <=> TP!Next)
<1>1. Loops!Init <=> TP!Init
  BY DEF Loops!Init, TP!Init, Loops!User, TP!User, Loops!EmptyBag, TP!EmptyBag,
     Loops!NoStats, TP!NoStats, Loops!SetToBag, TP!SetToBag
<1>2. Loops!Next <=> TP!Next
  BY LoopsLoopTurnSame, LoopsTddCallsSame, LoopsTddTextSame, LoopsDepthTurnSame,
     LoopsLoopErrorSame, LoopsDepthErrorSame, LoopsTddErrorSame DEF Loops!Next,
     TP!Next, Loops!vars, TP!vars
<1> QED
  BY <1>1, <1>2

\* ... and their properties are the same.
LEMMA LoopsPropertiesSame ==
  /\ Loops!CallsAnswered <=> TP!CallsAnswered
  /\ Loops!CleanMeansClean <=> TP!CleanMeansClean
  /\ Loops!TurnsAccounted <=> TP!TurnsAccounted
  /\ Loops!PassMeansCalls <=> TP!PassMeansCalls
<1>1. Loops!CallsAnswered <=> TP!CallsAnswered
  BY DEF Loops!CallsAnswered, TP!CallsAnswered
<1>2. Loops!CleanMeansClean <=> TP!CleanMeansClean
  BY DEF Loops!CleanMeansClean, TP!CleanMeansClean, Loops!Cardinality, TP!Cardinality,
     Loops!Last, TP!Last, Loops!User, TP!User
<1>3. Loops!TurnsAccounted <=> TP!TurnsAccounted
  BY DEF Loops!TurnsAccounted, TP!TurnsAccounted, Loops!Cardinality, TP!Cardinality,
     Loops!ToSet, TP!ToSet, Loops!Failed, TP!Failed, Loops!User, TP!User
<1>4. Loops!PassMeansCalls <=> TP!PassMeansCalls
  BY DEF Loops!PassMeansCalls, TP!PassMeansCalls
<1> QED
  BY <1>1, <1>2, <1>3, <1>4

\* The multi-turn loops keep their books, whatever the server answers, for any number
\* of turns and repetitions.
THEOREM LoopsKeepTheirBooks == Spec => []LoopsKeepBooks
<1> DEFINE Runs == part = "loops"
         Holds == TP!CallsAnswered /\ TP!CleanMeansClean /\ TP!TurnsAccounted /\ TP!PassMeansCalls
<1>1. Runs /\ Init => TP!Init
  BY LoopsSame DEF Init
<1>2. Runs /\ [Next]_vars => [TP!Next]_(TP!vars)
  BY LoopsSame DEF Next, vars, loops, TP!vars
<1>3. [Next]_vars => (Runs <=> Runs')
  BY DEF Next, vars
<1>4. TP!Spec => []Holds
  BY LoopsConfigured, TP!LoopsAccount
<1>5. (Runs => Holds) => LoopsKeepBooks
  BY LoopsPropertiesSame DEF LoopsKeepBooks
<1> HIDE DEF Runs, Holds
<1> QED
  BY <1>1, <1>2, <1>3, <1>4, <1>5, PTL DEF Spec, TP!Spec

===============================================================================
