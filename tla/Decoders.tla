------------------------------ MODULE Decoders ------------------------------
(***************************************************************************)
(* How the gateway reads an upstream's answer: the decode_sse and the      *)
(* parse_response of the four dialects (yb-wire, and the dispatch of       *)
(* yb-gateway's wire.rs).                                                  *)
(*                                                                         *)
(* A line of a stream is a record whose kind is its event type, or "chunk" *)
(* in the two dialects that have one type only; its other fields are the   *)
(* ones the decoder reads.  Blank lines, event names, comments and lines   *)
(* that do not parse are all "noise".  An optional field is a sequence of  *)
(* at most one value.                                                      *)
(***************************************************************************)
EXTENDS ChatIR

Noise == [kind |-> "noise"]

-----------------------------------------------------------------------------
(* Stop reasons *)

FinishToStop(r) ==
  CASE r = "stop" -> "end_turn"
    [] r = "length" -> "max_tokens"
    [] r \in {"tool_calls", "function_call"} -> "tool_use"
    [] OTHER -> r

\* Gemini stops for a tool with a plain STOP.
GeminiFinishToStop(r, hasTool) ==
  CASE r = "STOP" -> IF hasTool THEN "tool_use" ELSE "end_turn"
    [] r = "MAX_TOKENS" -> "max_tokens"
    [] OTHER -> r

-----------------------------------------------------------------------------
(* Usage: each dialect has names of its own for the counts, and a count    *)
(* that is not there is zero                                               *)

ParseUsageChat(v) ==
  [input |-> v.prompt_tokens, output |-> v.completion_tokens, cached |-> v.cached_tokens]
ParseUsageAnthropic(v) ==
  [input |-> v.input_tokens, output |-> v.output_tokens, cached |-> v.cache_read_input_tokens]
ParseUsageResponses(v) ==
  [input |-> v.input_tokens, output |-> v.output_tokens, cached |-> v.cached_tokens]
ParseUsageGemini(v) ==
  [input |-> v.promptTokenCount, output |-> v.candidatesTokenCount,
   cached |-> v.cachedContentTokenCount]

\* An optional report as events, and as the usage of a body.
Reported(o, parse(_)) == IF o = <<>> THEN <<>> ELSE <<UsageDelta(parse(o[1]))>>
Counted(o, parse(_)) == IF o = <<>> THEN NoTokens ELSE parse(o[1])

-----------------------------------------------------------------------------
(* Streams: each decoder maps a line and its state to events and a state   *)

NewDecoder == [started |-> FALSE, toolOpen |-> FALSE, stop |-> <<>>]

Decoded(st, events) == [st |-> st, events |-> events]

\* Several things in one chunk, in this order; usage goes ahead of Done.
CallEvents(c) == (IF c.id = <<>> THEN <<>> ELSE <<ToolUseStart(c.id[1], c.name)>>)
                   \o Opt(c.args # <<>>, ToolUseDelta(c.args))
DeltaEvents(d) == Opt(d.reasoning # <<>>, ThinkingDelta(d.reasoning))
                    \o Opt(d.content # <<>>, TextDelta(d.content))
                    \o Each(d.calls, CallEvents)
DecodeChat(line, st) ==
  IF line.kind # "chunk" THEN Decoded(st, <<>>)
  ELSE Decoded([st EXCEPT !.started = TRUE],
         Opt(~st.started, MessageStart)
           \o (IF line.choice = <<>> THEN <<>> ELSE DeltaEvents(line.choice[1]))
           \o Reported(line.usage, ParseUsageChat)
           \o (IF line.finish = <<>> THEN <<>>
               ELSE <<Done(FinishToStop(line.finish[1]))>>))

\* The stop reason of message_delta is kept for message_stop.
DecodeAnthropic(line, st) ==
  CASE line.kind = "message_start" ->
         Decoded(st, <<MessageStart>> \o Reported(line.usage, ParseUsageAnthropic))
    [] line.kind = "content_block_start" /\ line.block.type = "tool_use" ->
         Decoded(st, <<ToolUseStart(line.block.id, line.block.name)>>)
    [] line.kind = "content_block_delta" ->
         Decoded(st, CASE line.type = "text_delta" -> <<TextDelta(line.delta)>>
                       [] line.type = "thinking_delta" -> <<ThinkingDelta(line.delta)>>
                       [] line.type = "input_json_delta" -> <<ToolUseDelta(line.delta)>>
                       [] OTHER -> <<>>)
    [] line.kind = "message_delta" ->
         Decoded([st EXCEPT !.stop = <<line.stop>>], <<UsageDelta(ParseUsageAnthropic(line.usage))>>)
    [] line.kind = "message_stop" ->
         Decoded([st EXCEPT !.stop = <<>>],
                 <<Done(IF st.stop = <<>> THEN "end_turn" ELSE st.stop[1])>>)
    [] OTHER -> Decoded(st, <<>>)

\* Completed and incomplete answers end alike: the status is not read.
DecodeResponses(line, st) ==
  CASE line.kind = "response.created" -> Decoded(st, <<MessageStart>>)
    [] line.kind = "response.output_text.delta" ->
         Decoded(st, <<TextDelta(line.delta)>>)
    [] line.kind = "response.reasoning_text.delta" ->
         Decoded(st, <<ThinkingDelta(line.delta)>>)
    [] line.kind = "response.output_item.added" /\ line.item.type = "function_call" ->
         Decoded([st EXCEPT !.stop = <<"tool_use">>],
                 <<ToolUseStart(line.item.call_id, line.item.name)>>)
    [] line.kind = "response.function_call_arguments.delta" ->
         Decoded(st, <<ToolUseDelta(line.delta)>>)
    [] line.kind \in {"response.completed", "response.incomplete"} ->
         Decoded([st EXCEPT !.stop = <<>>],
                 Reported(line.usage, ParseUsageResponses)
                   \o <<Done(IF st.stop = <<>> THEN "end_turn" ELSE st.stop[1])>>)
    [] OTHER -> Decoded(st, <<>>)

\* A call has no id of its own, and arrives whole.
PartEvents(p) == IF p.type = "text" THEN <<TextDelta(p.text)>>
                 ELSE <<ToolUseStart(p.name, p.name), ToolUseDelta(Serialised(p.args))>>
DecodeGemini(line, st) ==
  LET tool == st.toolOpen \/ \E i \in DOMAIN line.parts :
                               line.parts[i].type = "functionCall"
  IN  IF line.kind # "chunk" THEN Decoded(st, <<>>)
      ELSE Decoded([st EXCEPT !.started = TRUE, !.toolOpen = tool],
             Opt(~st.started, MessageStart)
               \o Each(line.parts, PartEvents)
               \o (IF line.finish = <<>> THEN <<>>
                   ELSE Reported(line.usage, ParseUsageGemini)
                          \o <<Done(GeminiFinishToStop(line.finish[1], tool))>>))

\* Decoder::decode_line
DecodeLine(dialect, line, st) ==
  CASE dialect = "chat" -> DecodeChat(line, st)
    [] dialect = "anthropic" -> DecodeAnthropic(line, st)
    [] dialect = "responses" -> DecodeResponses(line, st)
    [] dialect = "gemini" -> DecodeGemini(line, st)

\* The loop over the complete lines of the buffer: the state is threaded
\* through, the events are collected.
DecodeLines(dialect, lines, st) ==
  LET decoded[k \in 0..Len(lines)] ==
        IF k = 0 THEN Decoded(st, <<>>)
        ELSE LET before == decoded[k - 1]
                 d == DecodeLine(dialect, lines[k], before.st)
             IN  Decoded(d.st, before.events \o d.events)
  IN  decoded[Len(lines)]

-----------------------------------------------------------------------------
(* Buffered bodies *)

Response(content, stop, usage) == [content |-> content, stop |-> stop, usage |-> usage]

\* Reasoning is not read from a body, though it is from a stream.
ParseChat(b) ==
  LET call(c) == ToolUse(c.id, c.name, ParsedOr(c.args, c.args))
  IN  Response(Opt(b.content # <<>>, Text(b.content))
                 \o [i \in DOMAIN b.calls |-> call(b.calls[i])],
               FinishToStop(b.finish), Counted(b.usage, ParseUsageChat))

ParseAnthropic(b) == Response(b.content, b.stop, Counted(b.usage, ParseUsageAnthropic))

ParseResponses(b) ==
  LET item(o) ==
        CASE o.type = "message" -> <<Text(o.text)>>
          [] o.type = "function_call" ->
               <<ToolUse(o.call_id, o.name, ParsedOr(o.args, o.args))>>
          [] o.type = "reasoning" -> Opt(o.summary # <<>>, Thinking(o.summary))
          [] OTHER -> <<>>
      sawTool == \E i \in DOMAIN b.output : b.output[i].type = "function_call"
  IN  Response(FlattenSeq([i \in DOMAIN b.output |-> item(b.output[i])]),
               IF b.status = "incomplete"
               THEN IF b.reason = "max_output_tokens" THEN "max_tokens" ELSE b.reason
               ELSE IF sawTool THEN "tool_use" ELSE "end_turn",
               Counted(b.usage, ParseUsageResponses))

ParseGemini(b) ==
  LET part(p) == IF p.type = "text" THEN Text(p.text)
                 ELSE ToolUse(p.name, p.name, p.args)
      hasTool == \E i \in DOMAIN b.parts : b.parts[i].type = "functionCall"
  IN  Response([i \in DOMAIN b.parts |-> part(b.parts[i])],
               GeminiFinishToStop(b.finish, hasTool),
               Counted(b.usage, ParseUsageGemini))

ParseResponse(dialect, body) ==
  CASE dialect = "chat" -> ParseChat(body)
    [] dialect = "anthropic" -> ParseAnthropic(body)
    [] dialect = "responses" -> ParseResponses(body)
    [] dialect = "gemini" -> ParseGemini(body)

=============================================================================
