------------------------------- MODULE ToolAgent -------------------------------
(***************************************************************************)
(* The tool-calling agent of dual_format_agent.py: serial chains, in one   *)
(* format or in both by turns, and agent loops, whose calls run on a       *)
(* virtual file system and are fed back, and rounds of concurrent calls,   *)
(* all recorded under one lock.                                            *)
(***************************************************************************)
EXTENDS Integers, Sequences, SequencesExt, FiniteSets, FiniteSetsExt, Functions

CONSTANTS
  Paths, Contents,
  Chain,      \* the tools that the steps of a chain ask for
  Tasks,      \* tasks of a concurrent round, a set of numbers
  Found,      \* by mode, the files it finds: those of fs_reset in the chains, and
              \* what the phase before has left in the loops and rounds
  Answers     \* bound: the answers a model gives: sequences of calls and Broken

VARIABLES
  mode,       \* one of Modes
  fmt,        \* "json" or "xml"
  step,
  fs,         \* FS
  history,    \* messages [role, id, call, result]
  pc,         \* of the threads of a round
  answer,     \* what their calls came to, [err, calls]
  lock,       \* REC_LOCK: its holder, or Nobody
  rec, jsonl, \* REC and the JSONL file: records [task, err, recovered]
  chainOk     \* steps that count towards the chain

vars == <<mode, fmt, step, fs, history, pc, answer, lock, rec, jsonl, chainOk>>

Steps == Len(Chain)   \* the turns of a loop are bounded by it too

Modes == {"chain", "mixed", "loop", "round"}

Broken == [tool |-> "broken"]       \* arguments that are no JSON
Unreachable == <<[tool |-> "down"]>>  \* post() returns an error
Nothing == "absent"
Nobody == -1
Unfit == "unfit"              \* an argument that is empty or has another type

-------------------------------------------------------------------------------
(* The virtual sandbox. *)

Present(p) == fs[p] # Nothing

\* The tools that read: read_file, and ls, glob, grep and bash like it.
Look(c) == <<IF Present(c.path) THEN fs[c.path] ELSE "error", fs>>

WriteFile(c) == <<"done", [fs EXCEPT ![c.path] = c.content]>>

EditFile(c) ==
  IF fs[c.path] = c.old THEN <<"done", [fs EXCEPT ![c.path] = c.content]>>
  ELSE <<"error", fs>>

\* The source is read, removed, and stored under the new name.
MoveFile(c) ==
  IF Present(c.path)
  THEN <<"done", [[fs EXCEPT ![c.path] = Nothing] EXCEPT ![c.to] = fs[c.path]]>>
  ELSE <<"error", fs>>

\* The result of a call and the files after it; what is not a tool, or lacks an
\* argument, only yields an error.
ExecTool(c) ==
  CASE c.tool = "write_file" -> WriteFile(c)
    [] c.tool = "read_file"  -> Look(c)
    [] c.tool = "edit_file"  -> EditFile(c)
    [] c.tool = "move_file"  -> MoveFile(c)
    [] OTHER                 -> <<"error", fs>>

\* A tool that is known, with arguments that fit; a call that is not valid may
\* still be executed.
Validate(c) ==
  /\ c.tool \in {"write_file", "read_file", "edit_file", "move_file"}
  /\ \A a \in DOMAIN c : c[a] # Unfit

-------------------------------------------------------------------------------
(* One round trip. *)

\* xml reads three blocks at most; parsing ends at arguments that are no JSON.
ParseFmt(raw) ==
  LET seen  == IF fmt = "xml" THEN SubSeq(raw, 1, Min({3, Len(raw)})) ELSE raw
      bad   == {i \in DOMAIN seen : seen[i] = Broken}
      calls == IF bad = {} THEN seen ELSE SubSeq(seen, 1, Min(bad) - 1)
  IN  [calls |-> calls,
       err   |-> bad # {} \/ calls = <<>> \/ \E c \in ToSet(calls) : ~Validate(c)]

Asked(raw) == IF raw = Unreachable THEN [calls |-> <<>>, err |-> TRUE] ELSE ParseFmt(raw)

\* A retry replaces the answer only if it is valid.
Settle(first, second) == IF first.err /\ ~second.err THEN second ELSE first

Row(task, a, recovered) == [task |-> task, err |-> a.err, recovered |-> recovered]

-------------------------------------------------------------------------------
Init ==
  /\ mode \in Modes
  /\ fmt \in (IF mode = "mixed" THEN {"json"} ELSE {"json", "xml"})
  /\ step = 0
  /\ fs = Found[mode]
  /\ history = <<>>
  /\ pc = [t \in Tasks |-> IF mode = "round" THEN "ask" ELSE "off"]
  /\ answer = [t \in Tasks |-> [calls |-> <<>>, err |-> FALSE]]
  /\ lock = Nobody
  /\ rec = <<>> /\ jsonl = <<>>
  /\ chainOk = 0

Message(role, id, call, result) ==
  [role |-> role, id |-> id, call |-> call, result |-> result]

\* All calls are executed; the first is reported.
ExecAll(calls) ==
  LET one == ExecTool(calls[1])
  IN  IF Len(calls) = 1 THEN one
      ELSE <<one[1], IF calls[2].tool = "write_file"
                     THEN [one[2] EXCEPT ![calls[2].path] = calls[2].content] ELSE one[2]>>

\* Only the first call is executed.
ExecFirst(calls) == ExecTool(calls[1])

\* The result is fed back without the call.
FedAlone(id, calls, result) == <<Message("tool", id, Broken, result)>>

\* The call and its result as the next step sees them: a call with an id and
\* the tool's answer to it, or the block and the result in the user's words.
Fed(id, calls, result) ==
  IF fmt = "json"
  THEN <<Message("assistant", id, calls[1], ""), Message("tool", id, Broken, result)>>
  ELSE <<Message("assistant", 0, calls[1], ""), Message("user", 0, Broken, result)>>

Feed(id, calls) ==
  LET done == ExecFirst(calls)
  IN  /\ fs' = done[2]
      /\ history' = history \o Fed(id, calls, done[1])

Failed == Message("user", 0, Broken, "failed")

Report(row) == rec' = Append(rec, row) /\ jsonl' = Append(jsonl, row)

\* A step of a chain: one retry, without the history, and whatever calls were
\* parsed are run and fed back, valid or not.  A failed step has no mismatch
\* and counts towards the chain.
ChainStep(raw, again) ==
  /\ mode = "chain" /\ step < Steps
  /\ step' = step + 1
  /\ LET first == Asked(raw)
         a     == Settle(first, Asked(again))
     IN  /\ first.err \/ again = raw
         /\ Report(Row(step', a, first.err /\ ~a.err))
         /\ chainOk' = IF ~a.err /\ a.calls[1].tool # Chain[step'] THEN chainOk
                       ELSE chainOk + 1
         /\ IF a.calls # <<>> THEN Feed(step', a.calls)
            ELSE history' = Append(history, Failed) /\ fs' = fs
  /\ UNCHANGED <<mode, fmt, pc, answer, lock>>

\* A step of a mixed chain: the formats alternate, in one history, and a step
\* without a call leaves no trace in it.
MixedStep(raw, again) ==
  /\ mode = "mixed" /\ step < Steps
  /\ step' = step + 1
  /\ fmt' = IF fmt = "json" THEN "xml" ELSE "json"
  /\ LET first == Asked(raw)
         a     == Settle(first, Asked(again))
     IN  /\ first.err \/ again = raw
         /\ Report(Row(step', a, first.err /\ ~a.err))
         /\ chainOk' = IF ~a.err /\ a.calls[1].tool # Chain[step'] THEN chainOk
                       ELSE chainOk + 1
         /\ IF a.calls # <<>> THEN Feed(step', a.calls) ELSE UNCHANGED <<history, fs>>
  /\ UNCHANGED <<mode, pc, answer, lock>>

\* A turn of a loop: no retry, and a failed answer is not run.
LoopTurn(raw) ==
  /\ mode = "loop" /\ step < Steps
  /\ step' = step + 1
  /\ LET a == Asked(raw)
     IN  /\ Report(Row(step', a, FALSE))
         /\ IF a.err THEN history' = Append(history, Failed) /\ fs' = fs
            ELSE Feed(step', a.calls)
  /\ UNCHANGED <<mode, fmt, pc, answer, lock, chainOk>>

-------------------------------------------------------------------------------
(* A concurrent round: one thread per task. *)

AskTask(t, raw) ==
  /\ pc[t] = "ask"
  /\ answer' = [answer EXCEPT ![t] = Asked(raw)]
  /\ pc' = [pc EXCEPT ![t] = IF Asked(raw).err THEN "retry" ELSE "record"]
  /\ UNCHANGED <<mode, fmt, step, fs, history, lock, rec, jsonl, chainOk>>

\* The failed first attempt leaves a record of its own.
RetryRecording(t, raw) ==
  /\ pc[t] = "retry"
  /\ answer' = [answer EXCEPT ![t] = Settle(@, Asked(raw))]
  /\ pc' = [pc EXCEPT ![t] = IF Asked(raw).err THEN "record" ELSE "recovered"]
  /\ Report(Row(t, answer[t], FALSE))
  /\ UNCHANGED <<mode, fmt, step, fs, history, lock, chainOk>>

RetryTask(t, raw) ==
  /\ pc[t] = "retry"
  /\ answer' = [answer EXCEPT ![t] = Settle(@, Asked(raw))]
  /\ pc' = [pc EXCEPT ![t] = IF Asked(raw).err THEN "record" ELSE "recovered"]
  /\ UNCHANGED <<mode, fmt, step, fs, history, lock, rec, jsonl, chainOk>>

\* No lock.
AlwaysFree(t) == lock \in Tasks \cup {Nobody}
Free(t) == lock = Nobody

\* record(): the row goes to REC and then, under the same lock, to the file.
AppendRow(t) ==
  /\ pc[t] \in {"record", "recovered"}
  /\ Free(t)
  /\ lock' = t
  /\ rec' = Append(rec, Row(t, answer[t], pc[t] = "recovered"))
  /\ pc' = [pc EXCEPT ![t] = IF pc[t] = "recovered" THEN "writeRecovered" ELSE "write"]
  /\ UNCHANGED <<mode, fmt, step, fs, history, answer, jsonl, chainOk>>

WriteRow(t) ==
  /\ pc[t] \in {"write", "writeRecovered"}
  /\ lock' = Nobody
  /\ jsonl' = Append(jsonl, Row(t, answer[t], pc[t] = "writeRecovered"))
  /\ pc' = [pc EXCEPT ![t] = "done"]
  /\ UNCHANGED <<mode, fmt, step, fs, history, answer, rec, chainOk>>

Over == IF mode = "round" THEN \A t \in Tasks : pc[t] = "done" ELSE step = Steps

Next ==
  \/ \E raw \in Answers : \/ \E again \in Answers : ChainStep(raw, again) \/ MixedStep(raw, again)
                          \/ LoopTurn(raw)
                          \/ \E t \in Tasks : AskTask(t, raw) \/ RetryTask(t, raw)
  \/ \E t \in Tasks : AppendRow(t) \/ WriteRow(t)
  \/ Over /\ UNCHANGED vars

Spec == Init /\ [][Next]_vars

-------------------------------------------------------------------------------
(* Properties. *)

\* The file holds the records of REC in their order, although threads record
\* while others do, and never more than the one being written is missing.
FileFollowsRecords ==
  /\ IsPrefix(jsonl, rec)
  /\ lock = Nobody => jsonl = rec

\* Each task of a round, step or turn leaves exactly one record, and it tells
\* the truth about its own task: the thread's answer, retried or not.
OneRecordEach ==
  /\ Over => /\ Len(rec) = IF mode = "round" THEN Cardinality(Tasks) ELSE Steps
             /\ \A t \in (IF mode = "round" THEN Tasks ELSE 1..Steps) :
                  \E r \in DOMAIN rec : rec[r].task = t
  /\ mode = "round" =>
       \A r \in DOMAIN rec : rec[r].err = answer[rec[r].task].err

\* The files are what the calls in the conversation make of those that were
\* found: nothing happens to them that the model has not been shown.
Replayed ==
  LET Apply(f, m) ==
        CASE m.call.tool = "write_file" -> [f EXCEPT ![m.call.path] = m.call.content]
          [] m.call.tool = "edit_file" /\ f[m.call.path] = m.call.old ->
               [f EXCEPT ![m.call.path] = m.call.content]
          [] m.call.tool = "move_file" /\ f[m.call.path] # Nothing ->
               [p \in Paths |-> IF p = m.call.to THEN f[m.call.path]
                                ELSE IF p = m.call.path THEN Nothing ELSE f[p]]
          [] OTHER -> f
  IN  fs = FoldLeft(Apply, Found[mode], history)

\* Every tool message answers the call right before it, each id is used for one
\* call, and a call is never left without its result, failed steps included.
HistoryPaired ==
  /\ \A i \in DOMAIN history :
       history[i].role = "tool" =>
         /\ i > 1 /\ history[i - 1].role = "assistant"
         /\ history[i - 1].id = history[i].id
  /\ \A i \in DOMAIN history :
       history[i].role = "assistant" =>
         /\ i < Len(history)
         /\ history[i + 1].role = IF history[i].id > 0 THEN "tool" ELSE "user"
         /\ \A j \in DOMAIN history :
              history[j].role = "assistant" /\ history[j].id = history[i].id /\ i # j
                => history[i].id = 0

===============================================================================
