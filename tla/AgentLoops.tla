------------------------------- MODULE AgentLoops ------------------------------
(***************************************************************************)
(* Three clients that talk to the server turn after turn in one growing    *)
(* conversation and feed made-up tool results back: agent_loop.py ("loop"),*)
(* arm E of depth300k.py ("depth") and group A of tdd_consecutive_tools.py *)
(* ("tdd").  The arguments of a call are "good", "empty" (an object with   *)
(* nothing in it) or "cut" (no JSON); its id is what the server gave it.   *)
(***************************************************************************)
EXTENDS Integers, Sequences, SequencesExt, FiniteSets, Bags

CONSTANTS
  Answers,    \* bound: [client -> the answers of the server: [calls, text, finish]]
  MaxTurns,   \* A.turns, A.max_turns, the rounds of a repetition
  N           \* repetitions of group A

VARIABLES
  client,
  turn,       \* of the conversation
  rep,        \* the repetition of group A
  msgs,       \* the conversation: [role, calls, id, text]
  rows,       \* the lines printed or written: [rep, turn, class, calls, dup]
  counter,    \* the classes of arm E, a bag
  fails,      \* its depth_at_fail: turns
  stats,      \* of group A
  verdict     \* "" while the client runs

vars == <<client, turn, rep, msgs, rows, counter, fails, stats, verdict>>

NoStats == [calls |-> 0, empty |-> 0, done |-> 0, err |-> 0]

\* One user message opens each conversation.
User(text) == [role |-> "user", calls |-> <<>>, id |-> 0, text |-> text]

Init ==
  /\ client \in {"loop", "depth", "tdd"}
  /\ turn = 0 /\ rep = 1 /\ msgs = <<User("task")>> /\ rows = <<>>
  /\ counter = EmptyBag /\ fails = <<>> /\ stats = NoStats /\ verdict = ""

Row(class, calls, dup) ==
  Append(rows, [rep |-> rep, turn |-> turn', class |-> class, calls |-> Len(calls), dup |-> dup])

\* Numbered within the answer only.
NumberedInAnswer(calls) ==
  [k \in DOMAIN calls |-> [name |-> calls[k].name, args |-> calls[k].args, id |-> <<0, k>>]]

\* Arm E numbers the calls itself; the other two send the server's ids back.
Numbered(calls) ==
  [k \in DOMAIN calls |-> [name |-> calls[k].name, args |-> calls[k].args, id |-> <<turn', k>>]]

Said(calls, text) == [role |-> "assistant", calls |-> calls, id |-> 0, text |-> text]
Result(call, text) == [role |-> "tool", calls |-> <<>>, id |-> call.id, text |-> text]

-------------------------------------------------------------------------------
(* agent_loop.py *)

\* Only the first call is looked at.
BadFirstCall(calls) == {k \in DOMAIN calls : k = 1 /\ calls[k].args # "good"}
BadCalls(calls) == {k \in DOMAIN calls : calls[k].args # "good"}

\* What is wrong with an answer, or "ok".  A text that used up its tokens is wrong
\* only when it is short.
Fault(a) ==
  CASE a.text = "signature" -> "SIG"
    [] a.text # "signature" /\ a.finish = "length" /\ a.calls = <<>>
       /\ a.text \in {"", "short"} -> "LENGTH_BURN"
    [] a.text # "signature" /\ BadCalls(a.calls) # {} -> "ARG_BAD"
    [] OTHER -> "ok"

FakeResult(call) ==
  IF call.args = "cut" THEN "error" ELSE IF call.name = "Bash" THEN "stdout" ELSE "body"

\* One turn: a faulty answer ends the run before it joins the conversation.
LoopTurn(a) ==
  /\ client = "loop" /\ verdict = "" /\ turn < MaxTurns
  /\ turn' = turn + 1
  /\ LET asked   == Append(msgs, User("step"))
         Fake(k) == Result(a.calls[k], FakeResult(a.calls[k]))
     IN  msgs' = IF Fault(a) # "ok" THEN asked
                 ELSE asked \o <<Said(a.calls, a.text)>> \o [k \in DOMAIN a.calls |-> Fake(k)]
  /\ rows' = Row(Fault(a), a.calls, FALSE)
  /\ verdict' = IF Fault(a) # "ok" THEN "FAIL" ELSE IF turn' = MaxTurns THEN "CLEAN" ELSE ""
  /\ UNCHANGED <<client, rep, counter, fails, stats>>

\* The call fails.  The last line of the run needs a fault that this path never
\* assigns, so that a traceback stands in for the verdict.
LoopError ==
  /\ client = "loop" /\ verdict = "" /\ turn < MaxTurns
  /\ turn' = turn + 1
  /\ msgs' = Append(msgs, User("step"))
  /\ rows' = Row("FAIL_NET", <<>>, FALSE)
  /\ verdict' = "traceback"
  /\ UNCHANGED <<client, rep, counter, fails, stats>>

-------------------------------------------------------------------------------
(* depth300k.py, arm E *)

CallNames(a) == [k \in DOMAIN a.calls |-> a.calls[k].name]

\* The class without its suffixes.
DepthClass(a) ==
  CASE a.calls # <<>> /\ (\E k \in DOMAIN a.calls : a.calls[k].args # "good") -> "ARGS_BAD"
    [] a.calls # <<>> /\ (\A k \in DOMAIN a.calls : a.calls[k].args = "good") ->
         IF "Bash" \in ToSet(CallNames(a)) THEN "TOOL_OK" ELSE "TOOL_WRONGNAME"
    [] a.calls = <<>> /\ a.text = "pseudo" ->
         IF a.finish = "length" THEN "PSEUDO" ELSE "PSEUDO_TAG"
    [] OTHER -> IF a.finish = "length" THEN "NO_TOOL_LENGTH" ELSE "NO_TOOL_STOP"

\* Whether the class is written with a +DUP.
Duplicate(a) == DepthClass(a) \in {"TOOL_OK", "TOOL_WRONGNAME"} /\ ~IsInjective(CallNames(a))

Counted(class) == counter (+) SetToBag({class})

Asked == IF turn > 0 THEN Append(msgs, User("step")) ELSE msgs

\* One turn: every call, with whatever arguments, becomes a message of its own
\* that is answered; a large prompt ends the run.
DepthTurn(a, large) ==
  /\ client = "depth" /\ verdict = "" /\ turn < MaxTurns
  /\ turn' = turn + 1
  /\ LET calls == Numbered(a.calls)
     IN  msgs' = Asked \o IF calls = <<>> THEN <<Said(<<>>, a.text)>>
                          ELSE FlattenSeq([k \in DOMAIN calls |->
                                 <<Said(<<calls[k]>>, ""), Result(calls[k], "OK")>>])
  /\ rows' = Row(DepthClass(a), a.calls, Duplicate(a))
  /\ counter' = Counted(DepthClass(a))
  /\ fails' = IF DepthClass(a) = "TOOL_OK" /\ ~Duplicate(a) THEN fails ELSE Append(fails, turn')
  /\ verdict' = IF large \/ turn' = MaxTurns THEN "over" ELSE ""
  /\ UNCHANGED <<client, rep, stats>>

\* The failed turn leaves no mark.
Silent(m) == m
FailedTurn(m) == Append(m, User("failed"))

\* The call fails: the turn is recorded, the model is told, the run goes on.
DepthError ==
  /\ client = "depth" /\ verdict = "" /\ turn < MaxTurns
  /\ turn' = turn + 1
  /\ msgs' = FailedTurn(Asked)
  /\ rows' = Row("NET_ERR", <<>>, FALSE)
  /\ counter' = Counted("NET_ERR")
  /\ verdict' = IF turn' = MaxTurns THEN "over" ELSE ""
  /\ UNCHANGED <<client, rep, fails, stats>>

-------------------------------------------------------------------------------
(* tdd_consecutive_tools.py, group A *)

\* Half as many calls will do.
BrokenBelowOne(s) == s.calls < N \/ s.empty > 0

\* What group A has to say in the verdict: too few calls in all, or a stall.
LoopBroken(s) == s.calls < 2 * N \/ s.empty > 0

\* The next round, repetition or verdict, given the statistics of this round.
GoOn(again, s) ==
  /\ stats' = s
  /\ IF again /\ turn < MaxTurns - 1
     THEN turn' = turn + 1 /\ UNCHANGED <<rep, verdict>>
     ELSE /\ turn' = 0
          /\ rep' = rep + 1
          /\ verdict' = IF rep < N THEN "" ELSE IF LoopBroken(s) THEN "FAIL" ELSE "PASS"

\* The line of a round is printed before the turn counter moves.
RoundRow(class, n) ==
  Append(rows, [rep |-> rep, turn |-> turn, class |-> class, calls |-> n, dup |-> FALSE])

TddResult(call) == IF call.name = "write_file" THEN "written" ELSE "content"

\* A round with calls: all are answered, and the repetition goes on while rounds
\* are left.
TddCalls(a) ==
  /\ client = "tdd" /\ verdict = "" /\ a.calls # <<>>
  /\ GoOn(TRUE, [stats EXCEPT !.calls = @ + Len(a.calls)])
  /\ LET Done(k) == Result(a.calls[k], TddResult(a.calls[k]))
     IN  msgs' = IF rep' # rep THEN <<User("task")>>
                 ELSE msgs \o <<Said(a.calls, a.text)>> \o [k \in DOMAIN a.calls |-> Done(k)]
  /\ rows' = RoundRow("calls", Len(a.calls))
  /\ UNCHANGED <<client, counter, fails>>

\* A round without: a stall, or a text, which from the third round on, or when it
\* reports, is a natural end.
TddText(a) ==
  /\ client = "tdd" /\ verdict = "" /\ a.calls = <<>>
  /\ GoOn(FALSE, IF a.text = "" THEN [stats EXCEPT !.empty = @ + 1]
                 ELSE IF a.text = "report" \/ turn >= 2 THEN [stats EXCEPT !.done = @ + 1]
                 ELSE stats)
  /\ msgs' = <<User("task")>>
  /\ rows' = RoundRow(IF a.text = "" THEN "empty" ELSE "text", 0)
  /\ UNCHANGED <<client, counter, fails>>

\* The call fails: the repetition ends.
TddError ==
  /\ client = "tdd" /\ verdict = ""
  /\ GoOn(FALSE, [stats EXCEPT !.err = @ + 1])
  /\ msgs' = <<User("task")>>
  /\ rows' = RoundRow("EXC", 0)
  /\ UNCHANGED <<client, counter, fails>>

Next ==
  \/ \E a \in Answers[client] :
       \/ LoopTurn(a) \/ TddCalls(a) \/ TddText(a)
       \/ \E large \in BOOLEAN : DepthTurn(a, large)
  \/ LoopError \/ DepthError \/ TddError
  \/ verdict # "" /\ UNCHANGED vars

Spec == Init /\ [][Next]_vars

-------------------------------------------------------------------------------
(* Properties. *)

\* The conversation stays one that a server accepts, whatever ids the server gives
\* to calls: after each message with calls come their results, one each and in
\* order, no result comes without its call, and where the client numbers the calls
\* itself (arm E) no two share an id.
CallsAnswered ==
  LET CallsOf(i) == {msgs[i].calls[k].id : k \in DOMAIN msgs[i].calls}
      Lead(i)    == CHOOSE j \in 1..i : /\ msgs[j].role # "tool"
                                        /\ \A k \in (j + 1)..i : msgs[k].role = "tool"
  IN  \A i \in DOMAIN msgs :
        /\ \A k \in DOMAIN msgs[i].calls :
             /\ i + k \in DOMAIN msgs
             /\ msgs[i + k].role = "tool" /\ msgs[i + k].id = msgs[i].calls[k].id
        /\ msgs[i].role = "tool" => msgs[i].id \in CallsOf(Lead(i))
        /\ client = "depth" =>
             \A j \in DOMAIN msgs : i # j => CallsOf(i) \cap CallsOf(j) = {}

\* ALL TURNS CLEAN (agent_loop.py:156) means that every turn was answered and that
\* no call the model made, first or later in its answer, had arguments that do not
\* parse or are empty; a faulty answer never joins the conversation, and neither
\* does the error result its arguments would get.
CleanMeansClean ==
  client = "loop" =>
    /\ \A i \in DOMAIN msgs :
         /\ msgs[i].text # "signature" /\ (msgs[i].role = "tool" => msgs[i].text # "error")
         /\ \A k \in DOMAIN msgs[i].calls : msgs[i].calls[k].args = "good"
    /\ verdict = "CLEAN" =>
         /\ Cardinality({i \in DOMAIN msgs : msgs[i].role = "assistant"}) = MaxTurns
         /\ \A l \in DOMAIN rows : rows[l].class = "ok"
    /\ verdict \in {"FAIL", "traceback"} => Last(msgs) = User("step")

Failed(r) == r.class # "NET_ERR" /\ ~(r.class = "TOOL_OK" /\ ~r.dup)

\* Arm E accounts for every turn, failed calls included: a row, one count of its
\* class, a place among the failures unless the call failed or the tool call was
\* right and alone, and a message after its question, so that no two questions
\* meet.
TurnsAccounted ==
  client = "depth" =>
    /\ [l \in DOMAIN rows |-> rows[l].turn] = [l \in 1..turn |-> l]
    /\ \A l \in DOMAIN rows :
         counter[rows[l].class] = Cardinality({m \in DOMAIN rows : rows[m].class = rows[l].class})
    /\ \A f \in 1..(Len(fails) - 1) : fails[f] < fails[f + 1]
    /\ ToSet(fails) = {rows[l].turn : l \in {m \in DOMAIN rows : Failed(rows[m])}}
    /\ Cardinality({l \in DOMAIN rows : rows[l].class = "NET_ERR"})
         = Cardinality({i \in DOMAIN msgs : msgs[i] = User("failed")})
    /\ \A i \in 1..(Len(msgs) - 1) :
         msgs[i + 1] = User("step") => msgs[i] # User("step") /\ msgs[i] # User("task")

\* A PASS of group A, whose verdict only sees totals, still means that some
\* repetition went on after its first call and that no repetition stalled; and a
\* repetition ends with the first round that has no calls.
PassMeansCalls ==
  client = "tdd" =>
    /\ verdict = "PASS" =>
         /\ \A l \in DOMAIN rows : rows[l].class # "empty"
         /\ \E l, m \in DOMAIN rows :
              /\ rows[l].class = "calls" /\ rows[m].class = "calls" /\ rows[l].rep = rows[m].rep
              /\ l # m \/ rows[l].calls > 1
    /\ \A l, m \in DOMAIN rows :
         l < m /\ rows[l].rep = rows[m].rep => rows[l].class = "calls"
    /\ verdict # "" => \A r \in 1..N : \E l \in DOMAIN rows : rows[l].rep = r

===============================================================================
