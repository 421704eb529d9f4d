------------------------------ MODULE Requests ------------------------------
(***************************************************************************)
(* How a chat request crosses the gateway: the parse_request and the       *)
(* emit_request of the four dialects (yb-wire), through the request of the *)
(* intermediate representation (ir.rs).                                    *)
(*                                                                         *)
(* A body is a record of the fields its dialect has.  Content is always a  *)
(* sequence of parts: a plain string is its one text part.  An optional    *)
(* field is a sequence of at most one value.  The model's name, sampling   *)
(* parameters and a tool's description and schema are copied by every pair *)
(* and left out, as is prompt_cache_options.  The gateway always asks an   *)
(* upstream to stream and forces no reasoning effort (Gateway::handle), so *)
(* those options are fixed.                                                *)
(***************************************************************************)
EXTENDS ChatIR

Cached(t) == [type |-> "cached_text", text |-> t]
Image(form, x) == [type |-> "image", form |-> form, image |-> x]
\* What a tool returned is a sequence of blocks too.
ToolResult(id, content, error) ==
  [type |-> "tool_result", id |-> id, content |-> content, error |-> error]
Signed(t, signature) == [type |-> "thinking", text |-> t, signature |-> signature]
Native(raw) == [type |-> "native", raw |-> raw]

Message(role, content) == [role |-> role, content |-> content]
Instructing == {"system", "developer"}

OfType(content, type) == SelectSeq(content, LAMBDA b : b.type = type)
IsText(b) == b.type \in {"text", "cached_text"}
JoinText(content) == Each(SelectSeq(content, IsText), LAMBDA b : b.text)

\* What the model may do, besides what was said.
Knobs(max, stop, tools, choice, effort, budget) ==
  [max |-> max, stop |-> stop, tools |-> tools, choice |-> choice, effort |-> effort,
   budget |-> budget, cacheKey |-> <<>>, retention |-> <<>>, own |-> <<>>]

\* ChatRequest: native_request and native_input are what a same-shape relay
\* of Chat and of Responses replays.
Request(system, messages, knobs) ==
  [system |-> system, messages |-> messages, knobs |-> knobs,
   nativeRequest |-> <<>>, nativeInput |-> <<>>]

\* Mutant: the hoisted system prompt alone.
SystemFieldOnly(req) == req.system

\* effective_system: the hoisted instructions, then the inline ones.
EffectiveSystem(req) ==
  req.system \o Each(req.messages, LAMBDA m : IF m.role \in Instructing THEN m.content ELSE <<>>)

-----------------------------------------------------------------------------
(* Tool choices *)

Choice(mode, name) == [mode |-> mode, name |-> name]

ParseChoiceOpenAI(v) == IF v.mode = "function" THEN Choice("tool", v.name) ELSE v
EmitChoiceOpenAI(c) == IF c.mode = "tool" THEN Choice("function", c.name) ELSE c

\* Mutant: `any` is taken for `auto`.
ParseChoiceAnyIsAuto(v) == IF v.mode = "any" THEN Choice("auto", "") ELSE v

ParseChoiceAnthropic(v) == IF v.mode = "any" THEN Choice("required", "") ELSE v
EmitChoiceAnthropic(c) == IF c.mode = "required" THEN Choice("any", "") ELSE c

ParseChoiceGemini(v) ==
  CASE v.mode = "NONE" -> Choice("none", "")
    [] v.mode = "ANY" -> IF Len(v.names) = 1 THEN Choice("tool", v.names[1])
                         ELSE Choice("required", "")
    [] OTHER -> Choice("auto", "")
EmitChoiceGemini(c) ==
  CASE c.mode = "none" -> [mode |-> "NONE", names |-> <<>>]
    [] c.mode = "required" -> [mode |-> "ANY", names |-> <<>>]
    [] c.mode = "tool" -> [mode |-> "ANY", names |-> <<c.name>>]
    [] OTHER -> [mode |-> "AUTO", names |-> <<>>]

Map(o, f(_)) == [i \in DOMAIN o |-> f(o[i])]

\* A cache key never travels without a retention.
CacheFields(k) ==
  [prompt_cache_key |-> k.cacheKey,
   prompt_cache_retention |-> IF k.cacheKey = <<>> THEN <<>>
                              ELSE IF k.retention = <<>> THEN <<"24h">> ELSE k.retention]

-----------------------------------------------------------------------------
(* OpenAI Chat Completions *)

ChatMessage(role, content) ==
  [role |-> role, content |-> content, reasoning |-> <<>>, calls |-> <<>>, call_id |-> ""]

ParseUserContent(parts) ==
  Each(parts, LAMBDA p : CASE p.type = "text" -> <<Text(p.text)>>
                           [] p.type = "image_url" -> <<Image(p.form, p.image)>>
                           [] OTHER -> <<>>)

ParseAssistant(m) ==
  LET text == JoinText(m.content)
  IN  Opt(m.reasoning # <<>>, Signed(m.reasoning, <<>>)) \o Opt(text # <<>>, Text(text))
        \o Map(m.calls, LAMBDA c : ToolUse(c.id, c.name, ParsedOr(c.args, c.args)))

\* System and developer messages are hoisted, wherever they stand.
ParseChatRequest(b) ==
  LET hoisted == SelectSeq(b.messages, LAMBDA m : m.role \in Instructing)
      others == SelectSeq(b.messages, LAMBDA m : m.role \notin Instructing)
      message(m) ==
        CASE m.role = "user" -> Message("user", ParseUserContent(m.content))
          [] m.role = "assistant" -> Message("assistant", ParseAssistant(m))
          [] m.role = "tool" ->
               Message("tool", <<ToolResult(m.call_id, ParseUserContent(m.content), FALSE)>>)
      k == Knobs(b.max_tokens, b.stop, b.tools, Map(b.tool_choice, ParseChoiceOpenAI),
                 b.reasoning_effort, <<>>)
  IN  [Request(Each(hoisted, LAMBDA m : ParseUserContent(m.content)), Map(others, message),
               [k EXCEPT !.cacheKey = b.prompt_cache_key, !.retention = b.prompt_cache_retention])
         EXCEPT !.nativeRequest = <<b>>]

EmitAssistant(m) ==
  [ChatMessage("assistant", <<Text(JoinText(m.content))>>)
     EXCEPT !.reasoning = Each(OfType(m.content, "thinking"), LAMBDA b : b.text),
            !.calls = Map(OfType(m.content, "tool_use"),
                        LAMBDA b : [id |-> b.id, name |-> b.name, args |-> Serialised(b.input)])]

EmitUserContent(blocks) ==
  IF \A i \in DOMAIN blocks : IsText(blocks[i]) THEN <<Text(JoinText(blocks))>>
  ELSE Each(blocks, LAMBDA b : CASE IsText(b) -> <<Text(b.text)>>
                                 [] b.type = "image" ->
                                      <<[type |-> "image_url", form |-> b.form, image |-> b.image]>>
                                 [] OTHER -> <<>>)

\* A tool message is one text: an image in a result is dropped.
ChatResult(b) == [ChatMessage("tool", <<Text(JoinText(b.content))>>) EXCEPT !.call_id = b.id]

\* Mutant: what a user adds to tool results is forgotten.
EmitChatUserResultsOnly(m) ==
  LET results == OfType(m.content, "tool_result")
  IN  IF results = <<>> THEN <<ChatMessage("user", EmitUserContent(m.content))>>
      ELSE Map(results, ChatResult)

\* Results are tool messages of their own, ahead of the rest of the turn.
EmitChatUser(m) ==
  LET others == SelectSeq(m.content, LAMBDA b : b.type # "tool_result")
  IN  Map(OfType(m.content, "tool_result"), ChatResult)
        \o Opt(others # <<>>, ChatMessage("user", EmitUserContent(others)))

EmitMessages(req) ==
  Opt(req.system # <<>>, ChatMessage("system", <<Text(JoinText(req.system))>>))
    \o Each(req.messages, LAMBDA m :
         CASE m.role \in Instructing -> <<ChatMessage("system", <<Text(JoinText(m.content))>>)>>
           [] m.role = "assistant" -> <<EmitAssistant(m)>>
           [] OTHER -> EmitChatUser(m))

\* emit_native_request: the client's own body, made to stream with usage.
EmitNativeRequest(b) == [b EXCEPT !.stream = TRUE, !.include_usage = TRUE]

EmitChatRequest(req) ==
  IF req.nativeRequest # <<>> THEN EmitNativeRequest(req.nativeRequest[1])
  ELSE LET k == req.knobs IN
       CacheFields(k) @@
       [messages |-> EmitMessages(req), max_tokens |-> k.max, stop |-> k.stop, tools |-> k.tools,
        tool_choice |-> Map(k.choice, EmitChoiceOpenAI), reasoning_effort |-> k.effort,
        stream |-> TRUE, include_usage |-> TRUE]

-----------------------------------------------------------------------------
(* Anthropic Messages: a block may carry a cache mark *)

\* Only marked text has a form in the IR; any other marked block, and any
\* unknown one, is carried as it is.  The content of a result is blocks again,
\* none of them a result.
ParseInner(b) ==
  CASE b.cache /\ b.type = "text" -> Cached(b.text)
    [] b.cache /\ b.type # "text" -> Native(b)
    [] ~b.cache /\ b.type = "text" -> Text(b.text)
    [] ~b.cache /\ b.type = "image" -> Image(b.form, b.image)
    [] ~b.cache /\ b.type = "tool_use" -> ToolUse(b.id, b.name, b.input)
    [] ~b.cache /\ b.type = "thinking" -> Signed(b.text, b.signature)
    [] OTHER -> Native(b)
ParseBlock(b) ==
  IF ~b.cache /\ b.type = "tool_result" THEN ToolResult(b.id, Map(b.content, ParseInner), b.error)
  ELSE ParseInner(b)

\* A system turn among the messages is folded into the system prompt.
ParseAnthropicRequest(b) ==
  LET inline == SelectSeq(b.messages, LAMBDA m : m.role = "system")
      turns == SelectSeq(b.messages, LAMBDA m : m.role # "system")
      k == Knobs(b.max_tokens, b.stop_sequences, b.tools, Map(b.tool_choice, ParseChoiceAnthropic),
                 <<>>, b.thinking)
  IN  Request(Map(b.system \o Each(inline, LAMBDA m : m.content), ParseBlock),
              Map(turns, LAMBDA m : Message(m.role, Map(m.content, ParseBlock))),
              [k EXCEPT !.own = b.context_management])

EmitInner(b) ==
  CASE IsText(b) -> [type |-> "text", text |-> b.text, cache |-> b.type = "cached_text"]
    [] b.type = "native" -> b.raw
    [] OTHER -> b @@ [cache |-> FALSE]

\* emit_result_content: one text where all is plain text, else block by block.
EmitResultContent(content) ==
  IF \A i \in DOMAIN content : content[i].type = "text"
  THEN <<EmitInner(Text(JoinText(content)))>>
  ELSE Map(content, EmitInner)
EmitBlock(b) ==
  IF b.type = "tool_result" THEN EmitInner([b EXCEPT !.content = EmitResultContent(@)])
  ELSE EmitInner(b)

EmitSystem(blocks) ==
  IF \A i \in DOMAIN blocks : blocks[i].type = "text" THEN <<EmitBlock(Text(JoinText(blocks)))>>
  ELSE Map(blocks, EmitBlock)

\* emit_message: system turns have gone elsewhere, results are a user's.
EmitMessage(m) ==
  IF m.role \in Instructing THEN <<>>
  ELSE <<Message(IF m.role = "tool" THEN "user" ELSE m.role, Map(m.content, EmitBlock))>>

EffortToBudget(effort) ==
  CASE effort = "low" -> 1024 [] effort = "high" -> 8192 [] OTHER -> 4096

EmitAnthropicRequest(req) ==
  LET k == req.knobs
      system == EffectiveSystem(req)
  IN  [system |-> IF system = <<>> THEN <<>> ELSE EmitSystem(system),
       messages |-> Each(req.messages, EmitMessage),
       max_tokens |-> IF k.max = <<>> THEN <<4096>> ELSE k.max,
       stop_sequences |-> k.stop, tools |-> k.tools,
       tool_choice |-> Map(k.choice, EmitChoiceAnthropic),
       thinking |-> IF k.budget # <<>> THEN k.budget ELSE Map(k.effort, EffortToBudget),
       context_management |-> k.own]

-----------------------------------------------------------------------------
(* OpenAI Responses: an open vocabulary of items *)

ItemText(t, cache) == [type |-> "text", text |-> t, cache |-> cache]
ItemMessage(role, content) == [type |-> "message", role |-> role, content |-> content]
FunctionCall(b) ==
  [type |-> "function_call", call_id |-> b.id, name |-> b.name, args |-> Serialised(b.input)]
\* An output is one text: an image in a result is dropped.
FunctionCallOutput(b) ==
  [type |-> "function_call_output", call_id |-> b.id,
   output |-> <<ItemText(JoinText(b.content), FALSE)>>]

ParseContentParts(parts) ==
  Each(parts, LAMBDA p :
    CASE p.type = "text" -> <<IF p.cache THEN Cached(p.text) ELSE Text(p.text)>>
      [] p.type = "input_image" -> <<Image(p.form, p.image)>>
      [] OTHER -> <<>>)

IsToolCall(t) == t \in {"function_call", "custom_tool_call", "local_shell_call", "computer_call"}
IsToolOutput(t) ==
  t \in {"function_call_output", "custom_tool_call_output", "local_shell_call_output"}

CallIdOf(item) == IF "call_id" \in DOMAIN item THEN item.call_id ELSE item.id

\* Arguments are text, or the `action` of a shell call; a call without a
\* name is named by its type.
ToolCallMessage(item) ==
  Message("assistant",
    <<ToolUse(CallIdOf(item), IF "name" \in DOMAIN item THEN item.name ELSE item.type,
              CASE "args" \in DOMAIN item -> ParsedOr(item.args, item.args)
                [] "action" \in DOMAIN item -> item.action
                [] OTHER -> "{}")>>)

ToolResultMessage(item, text) ==
  Message("tool", <<ToolResult(CallIdOf(item), <<Text(text)>>, FALSE)>>)

\* Of the parts of an output only the texts are read.
OutputText(parts) == Each(parts, LAMBDA p : IF "text" \in DOMAIN p THEN p.text ELSE <<>>)

\* Mutant: an unknown type is dropped even if it answers a call.
ParseInputItemByType(item) ==
  CASE item.type = "message" /\ item.role = "tool" ->
         <<ToolResultMessage(item, JoinText(ParseContentParts(item.content)))>>
    [] item.type = "message" /\ item.role # "tool" ->
         <<Message(item.role, ParseContentParts(item.content))>>
    [] IsToolCall(item.type) -> <<ToolCallMessage(item)>>
    [] item.type = "mcp_call" -> <<ToolCallMessage(item), ToolResultMessage(item, OutputText(item.output))>>
    [] IsToolOutput(item.type) -> <<ToolResultMessage(item, OutputText(item.output))>>
    [] OTHER -> <<>>

\* parse_input_item: an unknown type goes by its shape.
ParseInputItem(item) ==
  LET has(field) == field \in DOMAIN item
      known == {"message", "mcp_call"}
  IN
  CASE item.type = "message" /\ item.role = "tool" ->
         <<ToolResultMessage(item, JoinText(ParseContentParts(item.content)))>>
    [] item.type = "message" /\ item.role # "tool" ->
         <<Message(item.role, ParseContentParts(item.content))>>
    [] IsToolCall(item.type) -> <<ToolCallMessage(item)>>
    [] item.type = "mcp_call" ->
         <<ToolCallMessage(item)>> \o Opt(has("output"), ToolResultMessage(item, OutputText(item.output)))
    [] IsToolOutput(item.type) -> <<ToolResultMessage(item, OutputText(item.output))>>
    [] OTHER -> CASE has("call_id") /\ has("output") -> <<ToolResultMessage(item, OutputText(item.output))>>
                  [] has("call_id") /\ ~has("output") /\ has("name") -> <<ToolCallMessage(item)>>
                  [] OTHER -> <<>>

\* Only function tools have a form in the IR.
ParseResponsesRequest(b) ==
  LET functions == SelectSeq(b.tools, LAMBDA t : t # "web_search")
      k == Knobs(b.max_output_tokens, <<>>, functions, Map(b.tool_choice, ParseChoiceOpenAI),
                 b.effort, <<>>)
  IN  [Request(Map(b.instructions, Text), Each(b.input, ParseInputItem),
               [k EXCEPT !.cacheKey = b.prompt_cache_key, !.retention = b.prompt_cache_retention])
         EXCEPT !.nativeInput = <<b.input>>]

ResponseTextParts(blocks) ==
  Map(SelectSeq(blocks, IsText), LAMBDA b : ItemText(b.text, b.type = "cached_text"))

EmitUserItems(m) ==
  LET parts == Each(m.content, LAMBDA b :
        CASE IsText(b) -> <<ItemText(b.text, b.type = "cached_text")>>
          [] b.type = "image" -> <<[type |-> "input_image", form |-> b.form, image |-> b.image]>>
          [] OTHER -> <<>>)
  IN  Map(OfType(m.content, "tool_result"), FunctionCallOutput)
        \o Opt(parts # <<>>, ItemMessage("user", parts))

\* A text is flushed ahead of the call that follows it.
EmitAssistantItems(m) ==
  LET flush(parts) == Opt(parts # <<>>, ItemMessage("assistant", parts))
      step(acc, b) ==
        CASE IsText(b) ->
               [acc EXCEPT !.parts = Append(@, ItemText(b.text, b.type = "cached_text"))]
          [] b.type = "tool_use" ->
               [out |-> acc.out \o flush(acc.parts) \o <<FunctionCall(b)>>, parts |-> <<>>]
          [] OTHER -> acc
      all == FoldLeft(step, [out |-> <<>>, parts |-> <<>>], m.content)
  IN  all.out \o flush(all.parts)

EmitInputItems(m) ==
  CASE m.role \in Instructing -> <<ItemMessage(m.role, ResponseTextParts(m.content))>>
    [] m.role = "user" -> EmitUserItems(m)
    [] m.role = "tool" -> Map(OfType(m.content, "tool_result"), FunctionCallOutput)
    [] m.role = "assistant" -> EmitAssistantItems(m)

\* A marked system prompt is a developer item, since `instructions` is one
\* string.  Neither the token limit nor stop sequences are sent.
EmitResponsesRequest(req) ==
  LET k == req.knobs
      marked == OfType(req.system, "cached_text") # <<>>
      prompt == Opt(marked, ItemMessage("developer", ResponseTextParts(req.system)))
  IN  CacheFields(k) @@
      [instructions |-> Opt(req.system # <<>> /\ ~marked, JoinText(req.system)),
       input |-> IF req.nativeInput # <<>> THEN req.nativeInput[1]
                 ELSE prompt \o Each(req.messages, EmitInputItems),
       tools |-> k.tools, tool_choice |-> Map(k.choice, EmitChoiceOpenAI), effort |-> k.effort,
       max_output_tokens |-> <<>>]

-----------------------------------------------------------------------------
(* Gemini generateContent: no call ids, so a call's name is its id *)

\* A response is an object; text that is none is wrapped in one, and an image
\* in a result is dropped.
Wrapped(t) == [result |-> t]
ResponseObject(t) == IF Whole(t) THEN t[1] ELSE Wrapped(t)

\* A file by reference is not read.
ParseParts(parts) ==
  Each(parts, LAMBDA p :
    CASE p.type = "text" -> <<Text(p.text)>>
      [] p.type = "inline_data" -> <<Image("data", p.image)>>
      [] p.type = "functionCall" -> <<ToolUse(p.name, p.name, p.args)>>
      [] p.type = "functionResponse" -> <<ToolResult(p.name, <<Text(Serialised(p.response))>>, FALSE)>>
      [] OTHER -> <<>>)

ParseGeminiRequest(b) ==
  LET role(c, blocks) ==
        CASE c.role = "model" -> "assistant"
          [] c.role # "model" /\ blocks # <<>> /\ OfType(blocks, "tool_result") = blocks -> "tool"
          [] OTHER -> "user"
      message(c) == LET blocks == ParseParts(c.parts) IN Message(role(c, blocks), blocks)
  IN  Request(ParseParts(b.systemInstruction), Map(b.contents, message),
              Knobs(b.maxOutputTokens, b.stopSequences, b.tools,
                    Map(b.toolConfig, ParseChoiceGemini), <<>>, b.thinkingBudget))

EmitPart(b) ==
  CASE IsText(b) -> <<[type |-> "text", text |-> b.text]>>
    [] b.type = "image" ->
         <<[type |-> IF b.form = "data" THEN "inline_data" ELSE "fileData", image |-> b.image]>>
    [] b.type = "tool_use" -> <<[type |-> "functionCall", name |-> b.name, args |-> b.input]>>
    [] b.type = "tool_result" ->
         <<[type |-> "functionResponse", name |-> b.id, response |-> ResponseObject(JoinText(b.content))]>>
    [] OTHER -> <<>>

EmitContent(m) ==
  IF m.role \in Instructing THEN <<>>
  ELSE <<[role |-> IF m.role = "assistant" THEN "model" ELSE "user",
          parts |-> Each(m.content, EmitPart)]>>

EmitGeminiRequest(req) ==
  LET k == req.knobs
      system == EffectiveSystem(req)
  IN  [systemInstruction |-> Opt(system # <<>>, [type |-> "text", text |-> JoinText(system)]),
       contents |-> Each(req.messages, EmitContent),
       tools |-> k.tools, toolConfig |-> Map(k.choice, EmitChoiceGemini),
       maxOutputTokens |-> k.max, stopSequences |-> k.stop, thinkingBudget |-> k.budget]

-----------------------------------------------------------------------------
(* Dispatch *)

ParseRequest(dialect, b) ==
  CASE dialect = "chat" -> ParseChatRequest(b)
    [] dialect = "anthropic" -> ParseAnthropicRequest(b)
    [] dialect = "responses" -> ParseResponsesRequest(b)
    [] dialect = "gemini" -> ParseGeminiRequest(b)

EmitRequest(dialect, req) ==
  CASE dialect = "chat" -> EmitChatRequest(req)
    [] dialect = "anthropic" -> EmitAnthropicRequest(req)
    [] dialect = "responses" -> EmitResponsesRequest(req)
    [] dialect = "gemini" -> EmitGeminiRequest(req)

=============================================================================
