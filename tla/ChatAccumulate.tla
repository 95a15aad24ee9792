---------------------------- MODULE ChatAccumulate ----------------------------
(***************************************************************************)
(* The accumulating-conversation probe (bench_chat_accumulate.py): chunks  *)
(* of a corpus are fed to one growing chat, notes are planted in some of   *)
(* its turns and asked for later, and every step leaves a record.          *)
(***************************************************************************)
EXTENDS Integers, Sequences, SequencesExt, FiniteSets, FiniteSetsExt

CONSTANTS
  Kinds,         \* content types
  MaxChunks,     \* bound: chunks of one content type
  NumTopics,     \* len(TOPICS)
  CanaryEvery, RecallEvery,
  Efforts,       \* --final-probe-efforts, a sequence
  MaxFailed      \* bound: probes that fail

VARIABLES
  phase,
  streams,    \* the chunks of each content type that are left: <<kind, number>>
  next,       \* chunk_docs' counter
  chunks,     \* the content types of the chunks, interleaved
  turn,
  messages,   \* records [role, note]: the canary a user turn plants, or NoNote
  canaries,   \* records [topic, turn]; a canary's id is its place
  log,        \* the JSONL file
  degenTurn,
  over,       \* the last prompt reached the token budget
  todo,       \* canaries that the current battery has yet to ask for
  effort      \* the current pass of the final probe

vars == <<phase, streams, next, chunks, turn, messages, canaries, log,
          degenTurn, over, todo, effort>>

NoNote == -1
NoTurn == 0

-------------------------------------------------------------------------------
(* The corpus. *)

\* What load_corpus and the first half of chunk_docs make of a directory: a
\* stream of chunks for each content type found, in the order its first file was.
\* The shuffle inside a stream shows in no chunk's type.
Corpora ==
  UNION {{[i \in 1..Len(order) |-> <<order[i], n[order[i]]>>] :
           order \in SetToSeqs(K), n \in [K -> 1..MaxChunks]} : K \in (SUBSET Kinds) \ {{}}}

Init ==
  /\ phase = "corpus"
  /\ streams \in Corpora
  /\ next = 0 /\ chunks = <<>> /\ turn = 0 /\ messages = <<>> /\ canaries = <<>>
  /\ log = <<>> /\ degenTurn = NoTurn /\ over = FALSE /\ todo = {} /\ effort = 0

Left(s) == s[2] > 0

\* The counter stays on a stream until it is used up.
StayOnStream(i) == i

Advance(i) == i + 1

\* The streams after one of them was popped, without it if it ran dry.
Refiltered(s, i) == IF Left(s[i]) THEN s ELSE RemoveAt(s, i)

\* One round of chunk_docs.
PopChunk ==
  /\ phase = "corpus"
  /\ LET i == (next % Len(streams)) + 1
         popped == [streams EXCEPT ![i][2] = @ - 1]
     IN  /\ chunks' = Append(chunks, streams[i][1])
         /\ next' = Advance(next)
         /\ streams' = Refiltered(popped, i)
         /\ phase' = IF streams' = <<>> THEN "chat" ELSE "corpus"
  /\ UNCHANGED <<turn, messages, canaries, log, degenTurn, over, todo, effort>>

-------------------------------------------------------------------------------
(* The conversation. *)

\* make_canary.
Canary(id, t) == [topic |-> id % NumTopics, turn |-> t]

Plants(t) == t % CanaryEvery = 0

Said(role, note) == [role |-> role, note |-> note]

\* The next turn asks about the next chunk and may plant a note; the canary is
\* registered before the server is called.
Ask ==
  /\ phase = "chat" /\ ~over /\ turn < Len(chunks)
  /\ turn' = turn + 1
  /\ canaries' = IF Plants(turn') THEN Append(canaries, Canary(Len(canaries), turn'))
                 ELSE canaries
  /\ UNCHANGED <<streams, next, chunks, effort>>

Note == IF Plants(turn') THEN Len(canaries) ELSE NoNote

\* One line of the JSONL file, written as it happens.
Logged(kind, id, ctx, flag) ==
  Append(log, [kind |-> kind, turn |-> turn', id |-> id, effort |-> effort,
               ctx |-> ctx, flag |-> flag])

\* A battery that counts from 1 at its end.
BatteryPastEnd(n) == {0, n \div 4, n \div 2, (3 * n) \div 4, n}

\* The oldest, the quartiles and the newest of n canaries.
Battery(n) == {0, n \div 4, n \div 2, (3 * n) \div 4, n - 1}

LastDegenerate(flag) == IF flag THEN turn' ELSE degenTurn
FirstDegenerate(flag) == IF flag /\ degenTurn = NoTurn THEN turn' ELSE degenTurn

\* The server answers; the answer may be degenerate and its prompt may have
\* reached the budget, which only counts after the recall battery.
Reply(flag) ==
  /\ Ask
  /\ messages' = messages \o <<Said("user", Note), Said("assistant", NoNote)>>
  /\ log' = Logged("chat", Note, Len(messages'), flag)
  /\ degenTurn' = FirstDegenerate(flag)
  /\ over' \in BOOLEAN
  /\ IF canaries' # <<>> /\ turn' % RecallEvery = 0
     THEN phase' = "recall" /\ todo' = Battery(Len(canaries'))
     ELSE phase' = "chat" /\ todo' = {}

\* The question stays in the conversation although no answer follows.
KeepQuestion(m) == Append(m, Said("user", Note))

AfterError(m) == m

\* The call fails: the question is taken back and the accumulation ends.
ReplyError ==
  /\ Ask
  /\ messages' = AfterError(messages)
  /\ log' = Logged("ERROR", NoNote, Len(messages'), FALSE)
  /\ phase' = "final"
  /\ todo' = {}
  /\ UNCHANGED <<degenTurn, over>>

\* The chunks are used up, or the budget is.
StopChat ==
  /\ phase = "chat" /\ (over \/ turn = Len(chunks))
  /\ phase' = "final"
  /\ UNCHANGED <<streams, next, chunks, turn, messages, canaries, log, degenTurn,
                 over, todo, effort>>

-------------------------------------------------------------------------------
(* The batteries: each question goes to a copy of the conversation. *)

\* The question joins the conversation.
ProbeExtends(m) == Append(m, Said("user", NoNote))
Probed(m) == m

ErrorKind(kind) == IF kind = "recall" THEN "recall_error" ELSE "final_probe_error"

FailedProbes ==
  {l \in DOMAIN log : log[l].kind \in {"recall_error", "final_probe_error"}}

\* The next canary of a battery is asked for.  A call that fails leaves an error
\* record, and the battery goes on.
Probe(kind, failed) ==
  /\ UNCHANGED <<streams, next, chunks, turn, canaries, degenTurn, over>>
  /\ failed => Cardinality(FailedProbes) < MaxFailed
  /\ log' = Logged(IF failed THEN ErrorKind(kind) ELSE kind, Min(todo), Len(messages), FALSE)
  /\ todo' = todo \ {Min(todo)}
  /\ messages' = Probed(messages)

Recall(failed) ==
  /\ phase = "recall"
  /\ Probe("recall", failed)
  /\ phase' = IF todo' = {} THEN "chat" ELSE "recall"
  /\ UNCHANGED effort

\* The next pass of the paired probe, over every canary.
StartPass ==
  /\ phase = "final" /\ todo = {}
  /\ canaries # <<>> /\ effort < Len(Efforts)
  /\ effort' = effort + 1
  /\ todo' = 0..(Len(canaries) - 1)
  /\ UNCHANGED <<phase, streams, next, chunks, turn, messages, canaries, log,
                 degenTurn, over>>

FinalProbe(failed) ==
  /\ phase = "final" /\ todo # {}
  /\ Probe("final_probe", failed)
  /\ UNCHANGED <<phase, effort>>

\* The summary.
Summarise ==
  /\ phase = "final" /\ todo = {}
  /\ canaries = <<>> \/ effort = Len(Efforts)
  /\ phase' = "done"
  /\ UNCHANGED <<streams, next, chunks, turn, messages, canaries, log, degenTurn,
                 over, todo, effort>>

Next ==
  \/ PopChunk
  \/ \E flag \in BOOLEAN : Reply(flag) \/ Recall(flag) \/ FinalProbe(flag)
  \/ ReplyError \/ StopChat \/ StartPass \/ Summarise
  \/ phase = "done" /\ UNCHANGED vars

Spec == Init /\ [][Next]_vars

-------------------------------------------------------------------------------
(* The analyser, analyze_accum.py, over the finished file. *)

Chats == {l \in DOMAIN log : log[l].kind = "chat"}
Recalls == {l \in DOMAIN log : log[l].kind = "recall"}

\* The failed turn only.
TurnErrors(r) == r.kind = "ERROR"
IsError(r) == r.kind \in {"ERROR", "recall_error"}
Errors == {l \in DOMAIN log : IsError(log[l])}

\* Its own search for the first degenerate turn.
FirstFlagged ==
  LET flagged == {l \in Chats : log[l].flag}
  IN  IF flagged = {} THEN NoTurn ELSE log[Min(flagged)].turn

-------------------------------------------------------------------------------
(* Properties. *)

Count(k) == Cardinality({c \in DOMAIN chunks : chunks[c] = k})
InUse == {streams[s][1] : s \in DOMAIN streams}

\* Depth is not confounded with content type (line 213): whichever streams run
\* dry, and however their removal shifts the counter, two neighbours are of one
\* type only when no other is left, and the types still in use have been used
\* equally often, up to one and the streams that ran dry.
Interleaved ==
  /\ \A c \in 1..(Len(chunks) - 1) :
       chunks[c] = chunks[c + 1] =>
         \A d \in c..Len(chunks) : chunks[d] = chunks[c]
  /\ \A k, l \in InUse :
       Count(k) - Count(l) <= 1 + Cardinality(ToSet(chunks) \ InUse)

\* The records of the turns, failed ones included.
ChatRecords == {l \in DOMAIN log : log[l].kind \in {"chat", "ERROR"}}

\* The ids that a set of records names are these, once each and in this order.
Names(records, ids) ==
  /\ {log[l].id : l \in records} = ids
  /\ \A l, m \in records : l < m => log[l].id < log[m].id

\* The conversation and the file agree after every call, failed ones included
\* (lines 24-25): each turn has its record, in order; the turns that were
\* answered are the question and answer pairs of the conversation, and the note
\* a record names is the one its question carries.
TranscriptMatchesLog ==
  /\ {log[l].turn : l \in ChatRecords} = 1..turn
  /\ \A l, m \in ChatRecords : l < m => log[l].turn < log[m].turn
  /\ Len(messages) = 2 * Cardinality(Chats)
  /\ \A l \in Chats :
       LET t == log[l].turn
       IN  /\ 2 * t <= Len(messages)
           /\ messages[2 * t - 1] = Said("user", log[l].id)
           /\ messages[2 * t] = Said("assistant", NoNote)

\* What is asked for was planted: a note that the conversation held by then, in
\* the question of the turn its canary names.  The one exception is the canary of
\* the turn that failed, which the final probe asks for although its question was
\* taken back (lines 364, 444).
ProbesPlanted ==
  \A l \in DOMAIN log :
    log[l].kind \notin {"chat", "ERROR"} =>
      /\ log[l].id + 1 \in DOMAIN canaries
      /\ LET c == canaries[log[l].id + 1]
         IN  \/ /\ 2 * c.turn <= log[l].ctx
                /\ messages[2 * c.turn - 1].note = log[l].id
             \/ /\ log[l].kind \in {"final_probe", "final_probe_error"}
                /\ \E e \in DOMAIN log : log[e].kind = "ERROR" /\ log[e].turn = c.turn

\* The final probe is paired: every pass asks for the same canaries, once each
\* and in one order, over one and the same conversation.
PairedProbe ==
  phase = "done" =>
    \A e \in 1..Len(Efforts) :
      LET pass == {l \in DOMAIN log : /\ log[l].kind \in {"final_probe", "final_probe_error"}
                                      /\ log[l].effort = e}
      IN  /\ Names(pass, 0..(Len(canaries) - 1))
          /\ \A l \in pass : log[l].ctx = Len(messages)

\* The summary's first degenerate turn is the first that was flagged.
FirstDegenerateTurn ==
  LET flagged == {log[l].turn : l \in {m \in DOMAIN log : log[m].flag}}
  IN  degenTurn = IF flagged = {} THEN NoTurn ELSE Min(flagged)

\* The analyser finds in the file what the run did.  Its turns and the failed one
\* add up to the summary's, its first degenerate turn is the summary's, and at
\* each turn that a battery was due it counts every canary that was to be asked
\* for, oldest first, as a recall or as an error; what it leaves out is the final
\* probe.
AnalysisAgrees ==
  phase = "done" =>
    /\ Cardinality(Chats) + Cardinality({l \in Errors : log[l].kind = "ERROR"}) = turn
    /\ FirstFlagged = degenTurn
    /\ \A c \in Chats :
         LET t == log[c].turn
             n == t \div CanaryEvery
         IN  Names({l \in Recalls \cup Errors : log[l].turn = t /\ log[l].kind # "ERROR"},
                   IF n > 0 /\ t % RecallEvery = 0
                   THEN {0, n \div 4, n \div 2, (3 * n) \div 4, n - 1} ELSE {})

===============================================================================
