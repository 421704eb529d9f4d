------------------------------- MODULE MCRelay -------------------------------
(* Relay on answers that differ in kind: plain, empty, thinking first, cut   *)
(* off, two calls, a call between two texts; and a text, the arguments of a  *)
(* call and the name of one that mention an end.                             *)
EXTENDS Relay

Answer(blocks, stop) ==
  [blocks |-> blocks, stop |-> stop,
   tokens |-> [fresh |-> 2, output |-> 3, cached |-> IF stop = "max_tokens" THEN 5 ELSE 0]]

SomeAnswers ==
  {Answer(<<>>, "end_turn"),
   Answer(<<Text(<<"a", "b">>)>>, "max_tokens"),
   Answer(<<Thinking(<<"t">>), Text(<<"a">>)>>, "stop_sequence"),
   Answer(<<ToolUse("c1", "f", "x"), ToolUse("c2", "f", "y")>>, "tool_use"),
   Answer(<<Text(<<"a">>), Thinking(<<"t">>), ToolUse("c1", "f", "x")>>, "max_tokens"),
   Answer(<<Text(<<"a">>), ToolUse("c1", "f", "x"), Text(<<"b">>)>>, "tool_use")}

Mentioning ==
  {Answer(<<Text(<<"a", Mention, "b">>)>>, "end_turn"),
   Answer(<<ToolUse("c1", "f", Mention)>>, "tool_use"),
   Answer(<<ToolUse("c1", Mention, "x")>>, "tool_use")}

=============================================================================
