-------------------------------- MODULE MCTools --------------------------------
(* The programs of Tools on small instances. *)
EXTENDS Tools

MCEfforts == <<"low", "high">>

-------------------------------------------------------------------------------
(* What a model answers to the tool agent. *)

MCChain == <<"write_file", "edit_file", "move_file">>

\* The chains find a file that fs_reset has put there, a loop what it was left.
MCFound ==
  [m \in {"chain", "mixed", "loop", "round"} |->
     [p \in Paths |-> IF p = "q" THEN "b" ELSE IF m = "loop" THEN "a" ELSE "absent"]]

WriteCall(p, c) == [tool |-> "write_file", path |-> p, content |-> c]
EditCall(p, o, c) == [tool |-> "edit_file", path |-> p, old |-> o, content |-> c]
MoveCall(p, q) == [tool |-> "move_file", path |-> p, to |-> q]
BrokenCall == [tool |-> "broken"]

MCAgentAnswers ==
  { <<>>, <<WriteCall("p", "a")>>, <<WriteCall("p", "a"), WriteCall("q", "b")>>,
    <<WriteCall("q", "unfit")>>,
    <<EditCall("p", "a", "b")>>, <<MoveCall("p", "q"), BrokenCall>>,
    <<[tool |-> "read_file", path |-> "q"], [tool |-> "other"]>>,
    <<MoveCall("p", "q"), WriteCall("p", "b"), WriteCall("p", "a"), BrokenCall>>,
    <<[tool |-> "down"]>> }

-------------------------------------------------------------------------------
(* What a server generates for phase0_repro.py. *)

\* A call of whose arguments n pieces were generated.
ServerCall(name, c, n, closed) ==
  [name |-> name, args |-> [i \in 1..n |-> <<c, i>>], closed |-> closed]
ServerReply(calls, text, flag, stop) ==
  [slots |-> calls, text |-> text, flag |-> flag, stop |-> stop]

\* One of the contents has more than 20000 characters.
MCHeads == [c \in {"b"} |-> "head of b"]

MCReplies ==
  { ServerReply(<<>>, "plain", FALSE, "stop"), ServerReply(<<>>, "pseudo", FALSE, "stop"),
    ServerReply(<<>>, "plain", TRUE, "stop"), ServerReply(<<>>, "plain", FALSE, "length"),
    ServerReply(<<>>, "pseudo", FALSE, "length"),
    ServerReply(<<ServerCall("Write", "a", 2, TRUE)>>, "", FALSE, "stop"),
    ServerReply(<<ServerCall("Write", "b", 2, FALSE)>>, "", FALSE, "stop"),
    ServerReply(<<ServerCall("Write", "b", 1, FALSE)>>, "", FALSE, "length"),
    ServerReply(<<ServerCall("Write", "b", 0, FALSE)>>, "", FALSE, "length"),
    ServerReply(<<ServerCall("ClearCache", "a", 1, FALSE)>>, "", FALSE, "length"),
    ServerReply(<<ServerCall("Read", "a", 2, TRUE), ServerCall("Write", "b", 1, FALSE)>>,
                "", TRUE, "stop"),
    ServerReply(<<ServerCall("Write", "b", 2, TRUE), ServerCall("Read", "a", 2, TRUE),
                  ServerCall("Bash", "a", 2, TRUE)>>, "", FALSE, "stop") }

-------------------------------------------------------------------------------
(* The scripts, and the trees that lack an anchor. *)

MCScripts ==
  {"apply_0027", "apply_0028", "apply_0028dbg", "apply_typebsrc", "apply_typebsrc2",
   "apply_typebsrc3", "apply_typebdbg", "apply_0019_v2", "apply_0020", "apply_0021"}

MCDrifts ==
  {{}, {<<"apply_0027", 6>>}, {<<"apply_0028", 3>>}, {<<"apply_0028dbg", 2>>},
   {<<"apply_typebdbg", 1>>}, {<<"apply_typebsrc2", 2>>}}

-------------------------------------------------------------------------------
(* What texts are put together from. *)

MCPieces ==
  { <<"calls", "invoke", "param", "/param", "/invoke", "/calls">>,
    <<"calls", "invoke">>, <<"/invoke", "/calls">>, <<"calls">>, <<"/calls">>,
    <<"invoke", "/invoke">>, <<"invoke">>, <<"/invoke">>, <<"param", "/param">>,
    <<"param">>, <<"badparam">>, <<"/param">>, <<"word">> }

-------------------------------------------------------------------------------
(* What the server answers to the loops: texts alone, and calls with arguments of  *)
(* every kind.                                                                     *)

LoopAnswer(calls, text, reason) == [calls |-> calls, text |-> text, finish |-> reason]
\* The server of this instance numbers calls by their names: ids come again.
LoopCall(name, args) == [name |-> name, args |-> args, id |-> name]

MCLoopAnswers ==
  [ loop |-> { LoopAnswer(<<>>, "signature", "stop"), LoopAnswer(<<>>, "short", "length"),
               LoopAnswer(<<>>, "long", "length"), LoopAnswer(<<>>, "", "stop"),
               LoopAnswer(<<LoopCall("Bash", "good")>>, "signature", "tool_calls"),
               LoopAnswer(<<LoopCall("Bash", "good"), LoopCall("Read", "good")>>, "", "tool_calls"),
               LoopAnswer(<<LoopCall("Read", "good"), LoopCall("Bash", "cut")>>, "", "length"),
               LoopAnswer(<<LoopCall("Read", "empty")>>, "", "tool_calls") },
    depth |-> { LoopAnswer(<<>>, "pseudo", "stop"), LoopAnswer(<<>>, "pseudo", "length"),
                LoopAnswer(<<>>, "", "length"), LoopAnswer(<<>>, "long", "stop"),
                LoopAnswer(<<LoopCall("Bash", "good"), LoopCall("Bash", "good")>>, "", "tool_calls"),
                LoopAnswer(<<LoopCall("Bash", "good"), LoopCall("Read", "good")>>, "", "tool_calls"),
                LoopAnswer(<<LoopCall("Read", "good")>>, "", "tool_calls"),
                LoopAnswer(<<LoopCall("Bash", "cut"), LoopCall("Bash", "empty")>>, "", "length") },
    tdd |-> { LoopAnswer(<<>>, "", "stop"), LoopAnswer(<<>>, "report", "stop"),
              LoopAnswer(<<>>, "long", "stop"),
              LoopAnswer(<<LoopCall("write_file", "good")>>, "", "tool_calls"),
              LoopAnswer(<<LoopCall("write_file", "good"), LoopCall("run_command", "good")>>,
                         "", "tool_calls") } ]

===============================================================================
