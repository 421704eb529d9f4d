------------------------------ MODULE Encoders ------------------------------
(***************************************************************************)
(* How the gateway answers its client: the encode_sse, finish and          *)
(* emit_response of the four dialects (yb-wire, and the dispatch of        *)
(* yb-gateway's wire.rs).                                                  *)
(*                                                                         *)
(* Frames and bodies have the form of the lines and bodies of Decoders, so *)
(* what is written in a dialect can be read in it.  An encoder's state     *)
(* carries `out`, the frames of the current call.                          *)
(***************************************************************************)
EXTENDS Decoders

Put(s, frame) == [s EXCEPT !.out = Append(@, frame)]

-----------------------------------------------------------------------------
(* OpenAI Chat Completions *)

StopToFinish(stop) ==
  CASE stop \in {"end_turn", "stop_sequence"} -> "stop"
    [] stop = "max_tokens" -> "length"
    [] stop = "tool_use" -> "tool_calls"
    [] OTHER -> stop

EmitUsageChat(u) ==
  [prompt_tokens |-> u.input, completion_tokens |-> u.output, cached_tokens |-> u.cached]

NoDelta == [role |-> FALSE, reasoning |-> <<>>, content |-> <<>>, calls |-> <<>>]

Chunk(delta, finish) ==
  [kind |-> "chunk", choice |-> <<delta>>, finish |-> finish, usage |-> <<>>]
UsageChunk(u) == [kind |-> "chunk", choice |-> <<>>, finish |-> <<>>, usage |-> <<EmitUsageChat(u)>>]
Sentinel == [kind |-> "[DONE]"]

NewChat(includeUsage) ==
  [started |-> FALSE, toolIndex |-> -1, usage |-> <<>>,
   includeUsage |-> includeUsage, pendingDone |-> FALSE, out |-> <<>>]

StartChat(s) == Put([s EXCEPT !.started = TRUE],
                    Chunk([NoDelta EXCEPT !.role = TRUE], <<>>))

EnsureStarted(s) == IF s.started THEN s ELSE StartChat(s)

\* [DONE] waits for usage that the client asked for and that has not come.
EncodeChat(s, e) ==
  LET t == EnsureStarted(s)
      say(field) == Put(t, Chunk([NoDelta EXCEPT ![field] = e.text], <<>>))
      call(c) == Chunk([NoDelta EXCEPT !.calls = <<c>>], <<>>)
  IN
  CASE e.ev = "message_start" -> StartChat(s)
    [] e.ev = "text_delta" -> say("content")
    [] e.ev = "thinking_delta" -> say("reasoning")
    [] e.ev = "tool_use_start" ->
         LET i == t.toolIndex + 1
         IN  Put([t EXCEPT !.toolIndex = i],
                 call([index |-> i, id |-> <<e.id>>, name |-> e.name, args |-> <<>>]))
    [] e.ev = "tool_use_delta" ->
         Put(t, call([index |-> Larger(t.toolIndex, 0), id |-> <<>>, name |-> "",
                      args |-> e.json]))
    [] e.ev = "usage_delta" ->
         LET u == MergeOption(s.usage, e.usage)
         IN  IF s.pendingDone
             THEN Put(Put([s EXCEPT !.usage = u, !.pendingDone = FALSE],
                          UsageChunk(u[1])), Sentinel)
             ELSE [s EXCEPT !.usage = u]
    [] e.ev = "done" ->
         LET f == Put(t, Chunk(NoDelta, <<StopToFinish(e.stop)>>))
         IN  CASE ~s.includeUsage -> Put(f, Sentinel)
               [] s.includeUsage /\ s.usage # <<>> ->
                    Put(Put(f, UsageChunk(s.usage[1])), Sentinel)
               [] OTHER -> [f EXCEPT !.pendingDone = TRUE]

FinishChat(s) ==
  IF ~s.pendingDone THEN s
  ELSE LET u == IF s.usage = <<>> THEN s ELSE Put(s, UsageChunk(s.usage[1]))
       IN  Put([u EXCEPT !.pendingDone = FALSE], Sentinel)

-----------------------------------------------------------------------------
(* Anthropic Messages *)

EmitUsageAnthropic(u) ==
  [input_tokens |-> u.input, output_tokens |-> u.output, cache_read_input_tokens |-> u.cached]

NewAnthropic ==
  [started |-> FALSE, nextIndex |-> 0, open |-> "none", usage |-> NoTokens, out |-> <<>>]

EmitMessageStart(s) ==
  Put([s EXCEPT !.started = TRUE], [kind |-> "message_start", usage |-> <<EmitUsageAnthropic(NoTokens)>>])

\* Mutant: the next block takes the index of the one that was closed.
CloseBlockSameIndex(s) ==
  IF s.open = "none" THEN s
  ELSE [Put(s, [kind |-> "content_block_stop", index |-> s.nextIndex]) EXCEPT !.open = "none"]

CloseBlock(s) ==
  IF s.open = "none" THEN s
  ELSE [Put(s, [kind |-> "content_block_stop", index |-> s.nextIndex])
          EXCEPT !.open = "none", !.nextIndex = @ + 1]

OpenBlock(s, block) ==
  [Put(s, [kind |-> "content_block_start", index |-> s.nextIndex, block |-> block])
     EXCEPT !.open = block.type]

StartAnthropic(s) == IF s.started THEN s ELSE EmitMessageStart(s)

EnsureBlock(s, type) ==
  LET t == StartAnthropic(s)
  IN  IF t.open = type THEN t
      ELSE OpenBlock(CloseBlock(t), [type |-> type, id |-> "", name |-> ""])

EncodeAnthropic(s, e) ==
  LET delta(type, form, body) ==
        LET t == EnsureBlock(s, type)
        IN  Put(t, [kind |-> "content_block_delta", index |-> t.nextIndex,
                    type |-> form, delta |-> body])
  IN
  CASE e.ev = "message_start" -> EmitMessageStart(s)
    [] e.ev = "text_delta" -> delta("text", "text_delta", e.text)
    [] e.ev = "thinking_delta" -> delta("thinking", "thinking_delta", e.text)
    [] e.ev = "tool_use_start" ->
         OpenBlock(CloseBlock(StartAnthropic(s)),
                   [type |-> "tool_use", id |-> e.id, name |-> e.name])
    [] e.ev = "tool_use_delta" -> delta("tool_use", "input_json_delta", e.json)
    [] e.ev = "usage_delta" -> [s EXCEPT !.usage = Merge(@, e.usage)]
    [] e.ev = "done" ->
         LET t == CloseBlock(StartAnthropic(s))
         IN  Put(Put(t, [kind |-> "message_delta", stop |-> e.stop,
                         usage |-> EmitUsageAnthropic(
                                     [NoTokens EXCEPT !.output = t.usage.output])]),
                 [kind |-> "message_stop"])

-----------------------------------------------------------------------------
(* OpenAI Responses *)

EmitUsageResponses(u) ==
  [input_tokens |-> u.input, output_tokens |-> u.output, cached_tokens |-> u.cached]

NewResponses ==
  [seq |-> 0, usage |-> <<>>, nextIndex |-> 0, open |-> <<>>, doneItems |-> <<>>,
   pendingCompleted |-> FALSE, out |-> <<>>]

\* write_event numbers every event.
Numbered(event, n) ==
  [field \in DOMAIN event \cup {"seq"} |-> IF field = "seq" THEN n ELSE event[field]]
Tell(s, event) == [Put(s, Numbered(event, s.seq)) EXCEPT !.seq = @ + 1]

\* The output item that an open item is when it is done.
Item(o) ==
  CASE o.type = "message" -> [type |-> "message", text |-> o.acc]
    [] o.type = "reasoning" -> [type |-> "reasoning", summary |-> <<>>, text |-> o.acc]
    [] o.type = "function_call" ->
         [type |-> "function_call", call_id |-> o.call_id, name |-> o.name, args |-> o.acc]

CloseItem(s) ==
  IF s.open = <<>> THEN s
  ELSE LET o == s.open[1]
           told == Tell(s, [kind |-> "content.done", index |-> o.index, acc |-> o.acc])
           parted == IF o.type = "function_call" THEN told
                     ELSE Tell(told, [kind |-> "part.done", index |-> o.index, acc |-> o.acc])
       IN  [Tell(parted, [kind |-> "response.output_item.done", index |-> o.index,
                          item |-> Item(o)])
              EXCEPT !.open = <<>>, !.doneItems = Append(@, Item(o))]

OpenItem(s, type, id, name) ==
  LET i == s.nextIndex
      added == Tell([s EXCEPT !.nextIndex = i + 1],
                    [kind |-> "response.output_item.added", index |-> i,
                     item |-> [type |-> type, call_id |-> id, name |-> name]])
      parted == IF type = "function_call" THEN added
                ELSE Tell(added, [kind |-> "part.added", index |-> i])
  IN  [parted EXCEPT !.open = <<[type |-> type, index |-> i, call_id |-> id,
                                 name |-> name, acc |-> <<>>]>>]

EnsureItem(s, type) ==
  IF s.open # <<>> /\ s.open[1].type = type THEN s
  ELSE OpenItem(CloseItem(s), type, "", "")

ItemDelta(s, kind, body) ==
  Tell([s EXCEPT !.open[1].acc = @ \o body],
       [kind |-> kind, index |-> s.open[1].index, delta |-> body])

WriteCompleted(s) ==
  Tell(s, [kind |-> "response.completed", status |-> "completed", output |-> s.doneItems,
           usage |-> IF s.usage = <<>> THEN <<>> ELSE <<EmitUsageResponses(s.usage[1])>>])

\* response.completed waits for usage; a stray argument delta is dropped.
EncodeResponses(s, e) ==
  CASE e.ev = "message_start" ->
         Tell(Tell(s, [kind |-> "response.created"]), [kind |-> "response.in_progress"])
    [] e.ev = "text_delta" ->
         ItemDelta(EnsureItem(s, "message"), "response.output_text.delta", e.text)
    [] e.ev = "thinking_delta" ->
         ItemDelta(EnsureItem(s, "reasoning"), "response.reasoning_text.delta", e.text)
    [] e.ev = "tool_use_start" -> OpenItem(CloseItem(s), "function_call", e.id, e.name)
    [] e.ev = "tool_use_delta" ->
         IF s.open # <<>> /\ s.open[1].type = "function_call"
         THEN ItemDelta(s, "response.function_call_arguments.delta", e.json)
         ELSE s
    [] e.ev = "usage_delta" ->
         LET t == [s EXCEPT !.usage = MergeOption(@, e.usage), !.pendingCompleted = FALSE]
         IN  IF s.pendingCompleted THEN WriteCompleted(t) ELSE t
    [] e.ev = "done" ->
         LET t == CloseItem(s)
         IN  IF t.usage # <<>> THEN WriteCompleted(t)
             ELSE [t EXCEPT !.pendingCompleted = TRUE]

FinishResponses(s) ==
  IF s.pendingCompleted THEN WriteCompleted([s EXCEPT !.pendingCompleted = FALSE]) ELSE s

-----------------------------------------------------------------------------
(* Gemini generateContent *)

EmitUsageGemini(u) ==
  [promptTokenCount |-> u.input, candidatesTokenCount |-> u.output,
   cachedContentTokenCount |-> u.cached]

NewGemini == [usage |-> <<>>, pendingTool |-> <<>>, out |-> <<>>]

StopToGeminiFinish(stop) == IF stop = "max_tokens" THEN "MAX_TOKENS" ELSE "STOP"

Parts(parts) == [kind |-> "chunk", parts |-> parts, finish |-> <<>>, usage |-> <<>>]

\* A call goes out whole, so it waits for the next call or the end.
FlushTool(s) ==
  IF s.pendingTool = <<>> THEN s
  ELSE Put([s EXCEPT !.pendingTool = <<>>],
           Parts(<<[type |-> "functionCall", name |-> s.pendingTool[1].name,
                    args |-> ParsedOr(s.pendingTool[1].args, "{}")]>>))

EncodeGemini(s, e) ==
  CASE e.ev \in {"message_start", "thinking_delta"} -> s
    [] e.ev = "text_delta" -> Put(s, Parts(<<[type |-> "text", text |-> e.text]>>))
    [] e.ev = "tool_use_start" ->
         [FlushTool(s) EXCEPT !.pendingTool = <<[name |-> e.name, args |-> <<>>]>>]
    [] e.ev = "tool_use_delta" ->
         IF s.pendingTool = <<>> THEN s
         ELSE [s EXCEPT !.pendingTool[1].args = @ \o e.json]
    [] e.ev = "usage_delta" -> [s EXCEPT !.usage = MergeOption(@, e.usage)]
    [] e.ev = "done" ->
         Put(FlushTool(s), [Parts(<<>>) EXCEPT !.finish = <<StopToGeminiFinish(e.stop)>>,
                                               !.usage = <<EmitUsageGemini(
                                     [OrNone(s.usage) EXCEPT !.cached = 0])>>])

-----------------------------------------------------------------------------
(* Dispatch *)

NewEncoder(dialect, includeUsage) ==
  CASE dialect = "chat" -> NewChat(includeUsage)
    [] dialect = "anthropic" -> NewAnthropic
    [] dialect = "responses" -> NewResponses
    [] dialect = "gemini" -> NewGemini

EncodeEvent(dialect, s, e) ==
  CASE dialect = "chat" -> EncodeChat(s, e)
    [] dialect = "anthropic" -> EncodeAnthropic(s, e)
    [] dialect = "responses" -> EncodeResponses(s, e)
    [] dialect = "gemini" -> EncodeGemini(s, e)

Encode(dialect, events, s) ==
  LET encoded[k \in 0..Len(events)] ==
        IF k = 0 THEN [s EXCEPT !.out = <<>>]
        ELSE EncodeEvent(dialect, encoded[k - 1], events[k])
  IN  encoded[Len(events)]

\* Encoder::finish, after the call whose frames are in s.out.
Finish(dialect, s) ==
  CASE dialect = "chat" -> FinishChat(s)
    [] dialect = "responses" -> FinishResponses(s)
    [] OTHER -> s

-----------------------------------------------------------------------------
(* Buffered bodies *)

\* The texts of the blocks of a type, in order.
Said(content, type) == Each(content, LAMBDA b : IF b.type = type THEN b.text ELSE <<>>)

Calls(content) == Each(content, LAMBDA b : Opt(b.type = "tool_use", b))

EmitChat(r) ==
  LET call(b) == [id |-> b.id, name |-> b.name, args |-> Serialised(b.input)]
      calls == Calls(r.content)
  IN  [content |-> Said(r.content, "text"), reasoning |-> Said(r.content, "thinking"),
       calls |-> [i \in DOMAIN calls |-> call(calls[i])],
       finish |-> StopToFinish(r.stop), usage |-> <<EmitUsageChat(r.usage)>>]

EmitAnthropic(r) ==
  [content |-> r.content, stop |-> r.stop, usage |-> <<EmitUsageAnthropic(r.usage)>>]

\* Texts up to a call are one message; reasoning is left out.
MessageItem(parts) == Opt(parts # <<>>, [type |-> "message", text |-> FlattenSeq(parts)])
CallItem(b) ==
  [type |-> "function_call", call_id |-> b.id, name |-> b.name, args |-> Serialised(b.input)]
OutputBlock(acc, b) ==
  CASE b.type = "text" -> [acc EXCEPT !.parts = Append(@, b.text)]
    [] b.type = "tool_use" ->
         [output |-> acc.output \o MessageItem(acc.parts) \o <<CallItem(b)>>, parts |-> <<>>]
    [] OTHER -> acc
Outputs(content) ==
  LET put[k \in 0..Len(content)] ==
        IF k = 0 THEN [output |-> <<>>, parts |-> <<>>]
        ELSE OutputBlock(put[k - 1], content[k])
  IN  put[Len(content)]

EmitResponses(r) ==
  LET all == Outputs(r.content)
  IN  [output |-> all.output \o MessageItem(all.parts), status |-> "completed",
       usage |-> <<EmitUsageResponses(r.usage)>>]

EmitGemini(r) ==
  LET part(b) == CASE b.type = "text" -> <<[type |-> "text", text |-> b.text]>>
                   [] b.type = "tool_use" ->
                        <<[type |-> "functionCall", name |-> b.name, args |-> b.input]>>
                   [] OTHER -> <<>>
  IN  [parts |-> Each(r.content, part),
       finish |-> StopToGeminiFinish(r.stop), usage |-> <<EmitUsageGemini(r.usage)>>]

EmitResponse(dialect, r) ==
  CASE dialect = "chat" -> EmitChat(r)
    [] dialect = "anthropic" -> EmitAnthropic(r)
    [] dialect = "responses" -> EmitResponses(r)
    [] dialect = "gemini" -> EmitGemini(r)

=============================================================================
