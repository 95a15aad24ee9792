-------------------------------- MODULE Phase0 --------------------------------
(***************************************************************************)
(* phase0_repro.py against a server with patch 0023: tool calls streamed   *)
(* in pieces and assembled by index (arm L), classified, and the agent     *)
(* loop that runs them and feeds the results back (arm R).  Arguments are  *)
(* sequences of pieces; the two pieces of one value make a JSON object.    *)
(***************************************************************************)
EXTENDS Integers, Sequences, SequencesExt, FiniteSets, FiniteSetsExt, Functions

CONSTANTS
  Replies,   \* bound: what the server generates, [slots, text, flag, stop]
  Contents,  \* contents of the file that Write writes
  Heads,     \* the first 20000 characters of the contents that are longer
  Wanted,    \* the content an exchange of arm L asks for
  MaxTurns   \* A.max_turns

VARIABLES
  arm,       \* "R", "L" or "X"
  turn,
  phase,     \* "ask", "stream" or "done"
  slots,     \* the server's: sequences of [name, args, closed]
  sent,      \* pieces of each slot on the wire so far; a name comes first
  served,    \* the rest of the server's reply
  tcs,       \* the client's slots by index, a partial function
  finish,    \* the finish reason of its response
  rows,      \* the classes emitted
  msgs,      \* R's conversation: [role, id, call, result]
  fs         \* the content of the file, or "none"

vars == <<arm, turn, phase, slots, sent, served, tcs, finish, rows, msgs, fs>>

NoSlots == [i \in {} |-> 0]
Tools == {"Write", "Read", "Bash", "Grep"}
NoParam == "ClearCache"

-------------------------------------------------------------------------------
(* The server: patch 0023. *)

Complete(args) == \E c \in Contents : args = <<<<c, 1>>, <<c, 2>>>>

\* Only the text the engine generated decides.
EngineFinish(calls, stop) == IF calls = <<>> THEN stop ELSE "tool_calls"

\* A slot that never got its closing tag, with arguments that are no JSON, was
\* cut inside them.
TruncatedToolArgs(calls) ==
  \E i \in DOMAIN calls :
    ~calls[i].closed /\ calls[i].args # <<>> /\ ~Complete(calls[i].args)

FinishReason(calls, stop) ==
  IF calls # <<>> /\ TruncatedToolArgs(calls) THEN "length"
  ELSE EngineFinish(calls, stop)

-------------------------------------------------------------------------------
(* The client: a response and its class. *)

Response(calls, reason) ==
  [calls |-> calls, finish |-> reason, text |-> served.text, flag |-> served.flag]

Names(r) == [i \in DOMAIN r.calls |-> r.calls[i].name]

ArgsInvalid(call) == ~Complete(call.args)

\* Wording and the +DUP and +LEN suffixes, which the counters drop, are left out.
Classify(r, noParam) ==
  IF r.calls # <<>>
  THEN IF noParam /\ Names(r) = <<NoParam>> THEN "OK_EMPTY_ARGS"
       ELSE IF \E i \in DOMAIN r.calls : ArgsInvalid(r.calls[i]) THEN "ARGS_BAD"
       ELSE IF ToSet(Names(r)) \subseteq Tools THEN "TOOL_OK" ELSE "TOOL_WRONGNAME"
  ELSE IF r.finish = "length" THEN IF r.text = "pseudo" THEN "PSEUDO" ELSE "NO_TOOL_LENGTH"
  ELSE IF r.flag THEN "TYPEB_CUT"
  ELSE IF r.text = "pseudo" THEN "PSEUDO_TAG" ELSE "NO_TOOL_STOP"

\* Arm L: truncated arguments must come with finish_reason "length".
LClass(r) ==
  LET class == Classify(r, FALSE)
      bad   == \E i \in DOMAIN r.calls : ArgsInvalid(r.calls[i])
  IN  IF bad \/ (r.finish = "length" /\ r.calls # <<>>)
      THEN IF r.finish = "length" THEN "PASS_0023" ELSE "FAIL_0023"
      ELSE IF class = "TOOL_OK" /\ r.calls[1].name = "Write" /\ r.calls[1].args[1][1] # Wanted
      THEN "CONTENT_MISMATCH"
      ELSE class

-------------------------------------------------------------------------------
Init ==
  /\ arm \in {"R", "L", "X"}
  /\ turn = 0 /\ phase = "ask"
  /\ slots = <<>> /\ sent = <<>> /\ served = [text |-> "", flag |-> FALSE, stop |-> "stop"]
  /\ tcs = NoSlots /\ finish = "none" /\ rows = <<>> /\ msgs = <<>> /\ fs = "none"

Message(role, id, call, result) ==
  [role |-> role, id |-> id, call |-> call, result |-> result]
NoCall == [name |-> "", args |-> <<>>]

\* Arms X and L end after one exchange here; each of theirs is independent.
Emit(class) == rows' = Append(rows, class)

\* What the server generates.  It is streamed to arm L.
Ask(reply) ==
  /\ phase = "ask" /\ turn < MaxTurns
  /\ turn' = turn + 1
  /\ phase' = IF arm = "L" THEN "stream" ELSE "answer"
  /\ slots' = reply.slots
  /\ sent' = [i \in DOMAIN reply.slots |-> -1]
  /\ served' = [text |-> reply.text, flag |-> reply.flag, stop |-> reply.stop]
  /\ tcs' = NoSlots
  /\ msgs' = IF arm = "R" /\ turn > 0
             THEN Append(msgs, Message("user", <<0, 0>>, NoCall, "step")) ELSE msgs
  /\ UNCHANGED <<arm, finish, rows, fs>>

\* post or post_stream fails, before or within the reply.
NetError ==
  /\ phase \in {"stream", "answer"}
  /\ Emit("NET_ERR")
  /\ msgs' = IF arm = "R" THEN Append(msgs, Message("user", <<0, 0>>, NoCall, "failed"))
             ELSE msgs
  /\ phase' = IF arm = "R" THEN "ask" ELSE "done"
  /\ UNCHANGED <<arm, turn, slots, sent, served, tcs, finish, fs>>

Slot(old, i) == IF i \in DOMAIN old THEN old[i] ELSE NoCall

Filled(old, i, name, piece) ==
  [j \in DOMAIN old \cup {i} |->
     IF j = i THEN [name |-> IF name = "" THEN Slot(old, i).name ELSE name,
                    args |-> Slot(old, i).args \o piece]
     ELSE old[j]]

\* Arguments go into the slot that was opened last.
MergeLast(old, i, name, piece) ==
  IF name # "" \/ DOMAIN old = {} THEN Filled(old, i, name, piece)
  ELSE Filled(old, CHOOSE j \in DOMAIN old : \A k \in DOMAIN old : k <= j, name, piece)

\* A delta goes into the slot of its index.
Merge(old, i, name, piece) == Filled(old, i, name, piece)

\* A chunk with the next piece of slot i; the first has the name.
Chunk(i) ==
  /\ phase = "stream"
  /\ sent[i] < Len(slots[i].args)
  /\ sent' = [sent EXCEPT ![i] = @ + 1]
  /\ tcs' = IF sent[i] = -1 THEN Merge(tcs, i, slots[i].name, <<>>)
            ELSE Merge(tcs, i, "", <<slots[i].args[sent'[i]]>>)
  /\ UNCHANGED <<arm, turn, phase, slots, served, finish, rows, msgs, fs>>

AllSent == \A i \in DOMAIN slots : sent[i] = Len(slots[i].args)

\* The slots in the order of their indices.
Place(i) == Cardinality({j \in DOMAIN tcs : j <= i})
Assembled == [k \in 1..Cardinality(DOMAIN tcs) |-> tcs[CHOOSE i \in DOMAIN tcs : Place(i) = k]]

\* The stream ends: after the chunk with the finish reason, or early, at an end
\* of file, which is no error to its reader.
EndOfStream(early) ==
  /\ phase = "stream"
  /\ early \/ AllSent
  /\ finish' = IF early THEN "none" ELSE FinishReason(slots, served.stop)
  /\ Emit(LClass(Response(Assembled, finish')))
  /\ phase' = "done"
  /\ UNCHANGED <<arm, turn, slots, sent, served, tcs, msgs, fs>>

Plain == [i \in DOMAIN slots |-> [name |-> slots[i].name, args |-> slots[i].args]]

\* Arm X: one whole response; ClearCache may be the only tool.
AnswerX(noParam) ==
  /\ phase = "answer" /\ arm = "X"
  /\ Emit(Classify(Response(Plain, EngineFinish(slots, served.stop)), noParam))
  /\ phase' = "done"
  /\ UNCHANGED <<arm, turn, slots, sent, served, tcs, finish, msgs, fs>>

\* What arrived is taken.
Repaired(args) == args
\* Arguments that are no JSON are replaced by {}.
Parsed(args) == IF Complete(args) THEN args ELSE <<>>

\* The result of a call and the file after it.
ExecTool(file, name, args) ==
  CASE name = "Write" -> IF args = <<>> THEN <<"error", file>> ELSE <<"wrote", args[1][1]>>
    [] name = "Read"  -> IF args = <<>> THEN <<"error", file>> ELSE <<file, file>>
    [] name \in {"Bash", "Grep"} -> <<"output", file>>
    [] OTHER          -> <<"error", file>>

\* Numbered within the answer only.
CallIdInAnswer(t, k) == <<1, k>>
CallId(t, k) == <<t, k>>

\* What the conversation shows of a result.
Shown(result) == IF result \in DOMAIN Heads THEN Heads[result] ELSE result

\* Each call of an answer is run, and becomes a message of its own with its result.
RunCalls(calls) ==
  LET One(acc, k) ==
        LET done == ExecTool(acc.file, calls[k].name, Parsed(calls[k].args))
        IN  [file |-> done[2],
             log  |-> acc.log \o << Message("assistant", CallId(turn, k), calls[k], ""),
                                    Message("tool", CallId(turn, k), NoCall, Shown(done[1])) >>]
  IN  FoldLeft(One, [file |-> fs, log |-> <<>>], [k \in DOMAIN calls |-> k])

\* Arm R: the loop goes on until the prompt is large.
AnswerR(large) ==
  /\ phase = "answer" /\ arm = "R"
  /\ Emit(Classify(Response(Plain, EngineFinish(slots, served.stop)), FALSE))
  /\ IF slots # <<>>
     THEN /\ msgs' = msgs \o RunCalls(Plain).log
          /\ fs' = RunCalls(Plain).file
     ELSE /\ msgs' = Append(msgs, Message("assistant", <<0, 0>>, NoCall, served.text))
          /\ fs' = fs
  /\ phase' = IF large THEN "done" ELSE "ask"
  /\ UNCHANGED <<arm, turn, slots, sent, served, tcs, finish>>

Over == phase = "done" \/ (phase = "ask" /\ turn = MaxTurns)

Next ==
  \/ \E reply \in Replies : Ask(reply)
  \/ NetError
  \/ \E i \in DOMAIN slots : Chunk(i)
  \/ \E b \in BOOLEAN : EndOfStream(b) \/ AnswerX(b) \/ AnswerR(b)
  \/ Over /\ UNCHANGED vars

Spec == Init /\ [][Next]_vars

-------------------------------------------------------------------------------
(* Properties. *)

\* However the chunks of several calls interleave on the wire, what has arrived
\* of each is a prefix of it, under its index, and a class that is decided on a
\* whole stream is decided on the calls the server meant.
AssembledByIndex ==
  arm = "L" =>
    \A i \in DOMAIN slots :
      /\ sent[i] >= 0 <=> i \in DOMAIN tcs
      /\ sent[i] >= 0 => /\ tcs[i].name = slots[i].name
                         /\ tcs[i].args = SubSeq(slots[i].args, 1, sent[i])

\* Patch 0023 end to end: once the finish reason has arrived, the client's verdict
\* on a call cut inside its arguments is PASS_0023, on every one and on nothing
\* else; FAIL_0023 is left for a call that was cut before its first argument.
TruncationSeen ==
  arm = "L" /\ finish # "none" =>
    /\ rows = <<"PASS_0023">> <=> TruncatedToolArgs(slots)
    /\ rows = <<"FAIL_0023">> <=> /\ ~TruncatedToolArgs(slots)
                                  /\ \E i \in DOMAIN slots : slots[i].args = <<>>

\* The conversation of arm R shows each call once, followed by its own result,
\* under an id no other call of the run has.
CallsAnsweredOnce ==
  \A i \in DOMAIN msgs :
    msgs[i].role = "assistant" /\ msgs[i].call # NoCall =>
      /\ i < Len(msgs) /\ msgs[i + 1].role = "tool" /\ msgs[i + 1].id = msgs[i].id
      /\ \A j \in DOMAIN msgs : j \notin {i, i + 1} => msgs[j].id # msgs[i].id

\* The file holds the content of the last whole Write the model made, and what a
\* Read shows of it, turns later, is that content up to its 20000th character:
\* arguments that were cut never reach the file.
ReadsWholeWrites ==
  LET Writes(n)  == {j \in 1..n : msgs[j].call.name = "Write" /\ Complete(msgs[j].call.args)}
      Content(n) == IF Writes(n) = {} THEN "none" ELSE msgs[Max(Writes(n))].call.args[1][1]
  IN  /\ fs = Content(Len(msgs))
      /\ \A i \in DOMAIN msgs :
           msgs[i].call.name = "Read" /\ Complete(msgs[i].call.args) =>
             msgs[i + 1].result = Shown(Content(i))

===============================================================================
