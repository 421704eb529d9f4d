-------------------------------- MODULE Relay --------------------------------
(***************************************************************************)
(* One answered turn of the gateway, as data: what an upstream says in its *)
(* dialect, what the client is sent in its own, and what is billed and     *)
(* logged (yb-gateway, service.rs: translate_stream, aggregate_stream,     *)
(* full_to_stream, emit_full).  When the turn is recorded, and how often,  *)
(* is Turn's subject: here `RecordCtx::finish` is one step.                *)
(*                                                                         *)
(* The bytes of a stream are counted in half-lines: an even count ends at  *)
(* a newline, an odd one inside a line.  A read returns any number of      *)
(* them, and the upstream may close, break or fall silent anywhere.        *)
(***************************************************************************)
EXTENDS Encoders, FiniteSets

CONSTANTS Answers,     \* what a model may say: [blocks, stop, tokens]
          Upstreams, Clients

ASSUME DialectsAssumption == Upstreams \subseteq Dialects /\ Clients \subseteq Dialects

\* A model stops for a call when it made one and was not cut off.
Blocks == [type : {"text", "thinking"}, text : Seq(STRING)]
            \cup [type : {"tool_use"}, id : STRING, name : STRING, input : STRING]
HasCall(blocks) == \E i \in DOMAIN blocks : blocks[i].type = "tool_use"

ASSUME AnswersAssumption ==
  \A a \in Answers :
    /\ a \in [blocks : Seq(Blocks), stop : StopReasons,
              tokens : [fresh : Nat, output : Nat, cached : Nat]]
    /\ a.stop = "tool_use" => HasCall(a.blocks)
    /\ a.stop \in {"end_turn", "stop_sequence"} => ~HasCall(a.blocks)

VARIABLES turn,        \* the two dialects, what was asked for, and the answer
          read,        \* half-lines read from the upstream
          decoder, encoder, usage, agg,
          sent,        \* frames the client was sent
          body,        \* the buffered answer, when it was sent
          log,         \* the record of the turn: [content, stop, usage, error]
          ended        \* how the turn ended

vars == <<turn, read, decoder, encoder, usage, agg, sent, body, log, ended>>

\* The atom of a text, or the id, name or argument of a call, that contains the
\* client dialect's end marker.
Mention == "mention"

Endings == {"no", "end", "eof", "break", "hangup", "full", "unreadable"}

-----------------------------------------------------------------------------
(* The upstream: what each dialect's provider sends for an answer          *)

\* The prompt tokens an upstream reports include the cached ones, except
\* Anthropic's; `tokens` has them apart.
Usage(up, tokens) ==
  [input |-> IF up = "anthropic" THEN tokens.fresh ELSE tokens.fresh + tokens.cached,
   output |-> tokens.output, cached |-> tokens.cached]

ChatSay(field, atom) == Chunk([NoDelta EXCEPT ![field] = <<atom>>], <<>>)
ChatCall(index, id, name, args) ==
  Chunk([NoDelta EXCEPT !.calls = <<[index |-> index, id |-> id, name |-> name, args |-> args]>>],
        <<>>)
ChatBlock(calls, b) ==
  LET index == (CHOOSE i \in DOMAIN calls : calls[i] = b) - 1
      json == Serialised(b.input)
  IN
  CASE b.type = "text" -> [i \in DOMAIN b.text |-> ChatSay("content", b.text[i])]
    [] b.type = "thinking" -> [i \in DOMAIN b.text |-> ChatSay("reasoning", b.text[i])]
    [] b.type = "tool_use" ->
         <<ChatCall(index, <<b.id>>, b.name, <<>>)>>
           \o [i \in DOMAIN json |-> ChatCall(index, <<>>, b.name, <<json[i]>>)]

\* The usage is on the finish line or on one of its own.
ChatLines(a, shared) ==
  LET u == Usage("chat", a.tokens)
      finish == Chunk(NoDelta, <<StopToFinish(a.stop)>>)
  IN  <<Chunk([NoDelta EXCEPT !.role = TRUE], <<>>)>>
        \o Each(a.blocks, LAMBDA b : ChatBlock(Calls(a.blocks), b))
        \o (IF shared THEN <<[finish EXCEPT !.usage = <<EmitUsageChat(u)>>]>>
            ELSE <<finish, UsageChunk(u)>>)
        \o <<Sentinel>>

AnthropicDelta(form, atom) == [kind |-> "content_block_delta", type |-> form, delta |-> <<atom>>]
AnthropicBlock(b) ==
  LET json == Serialised(b.input) IN
  CASE b.type = "text" -> [i \in DOMAIN b.text |-> AnthropicDelta("text_delta", b.text[i])]
    [] b.type = "thinking" -> [i \in DOMAIN b.text |-> AnthropicDelta("thinking_delta", b.text[i])]
    [] b.type = "tool_use" ->
         <<[kind |-> "content_block_start", block |-> b]>>
           \o [i \in DOMAIN json |-> AnthropicDelta("input_json_delta", json[i])]

AnthropicLines(a) ==
  LET u == Usage("anthropic", a.tokens)
  IN  <<[kind |-> "message_start",
         usage |-> <<EmitUsageAnthropic([u EXCEPT !.output = 0])>>]>>
        \o Each(a.blocks, AnthropicBlock)
        \o <<[kind |-> "message_delta", stop |-> a.stop,
              usage |-> EmitUsageAnthropic([NoTokens EXCEPT !.output = u.output])],
             [kind |-> "message_stop"]>>

ResponsesDelta(kind, atom) == [kind |-> kind, delta |-> <<atom>>]
ResponsesBlock(b) ==
  LET json == Serialised(b.input) IN
  CASE b.type = "text" ->
         [i \in DOMAIN b.text |-> ResponsesDelta("response.output_text.delta", b.text[i])]
    [] b.type = "thinking" ->
         [i \in DOMAIN b.text |-> ResponsesDelta("response.reasoning_text.delta", b.text[i])]
    [] b.type = "tool_use" ->
         <<[kind |-> "response.output_item.added",
            item |-> [type |-> "function_call", call_id |-> b.id, name |-> b.name]]>>
           \o [i \in DOMAIN json |->
                 ResponsesDelta("response.function_call_arguments.delta", json[i])]

ResponsesLines(a) ==
  <<[kind |-> "response.created"]>> \o Each(a.blocks, ResponsesBlock)
    \o <<[kind |-> IF a.stop = "max_tokens" THEN "response.incomplete" ELSE "response.completed",
          usage |-> <<EmitUsageResponses(Usage("responses", a.tokens))>>]>>

GeminiBlock(b) ==
  CASE b.type = "text" ->
         [i \in DOMAIN b.text |-> Parts(<<[type |-> "text", text |-> <<b.text[i]>>]>>)]
    [] b.type = "thinking" -> <<>>
    [] b.type = "tool_use" ->
         <<Parts(<<[type |-> "functionCall", name |-> b.name, args |-> b.input]>>)>>

GeminiLines(a) ==
  Each(a.blocks, GeminiBlock)
    \o <<[Parts(<<>>) EXCEPT !.finish = <<StopToGeminiFinish(a.stop)>>,
                             !.usage = <<EmitUsageGemini(Usage("gemini", a.tokens))>>]>>

\* Lines of noise (blank lines, event names) surround every line of a stream;
\* one of them stands for all.
Lines(t) ==
  <<Noise>> \o CASE t.up = "chat" -> ChatLines(t.answer, t.shared)
                 [] t.up = "anthropic" -> AnthropicLines(t.answer)
                 [] t.up = "responses" -> ResponsesLines(t.answer)
                 [] t.up = "gemini" -> GeminiLines(t.answer)

\* The buffered answer of an upstream that does not stream.
ResponsesItem(b) ==
  CASE b.type = "text" -> <<[type |-> "message", text |-> b.text]>>
    [] b.type = "thinking" -> <<[type |-> "reasoning", summary |-> b.text]>>
    [] b.type = "tool_use" -> <<CallItem(b)>>

FullBody(t) ==
  LET a == t.answer
      u == Usage(t.up, a.tokens)
  IN  IF t.up = "responses"
      THEN [output |-> Each(a.blocks, ResponsesItem), usage |-> <<EmitUsageResponses(u)>>,
            status |-> IF a.stop = "max_tokens" THEN "incomplete" ELSE "completed",
            reason |-> "max_output_tokens"]
      ELSE EmitResponse(t.up, Response(a.blocks, a.stop, u))

-----------------------------------------------------------------------------
(* The gateway *)

HalfLines == 2 * Len(Lines(turn))

MergeUsage(u, events) ==
  LET merged[k \in 0..Len(events)] ==
        IF k = 0 THEN u
        ELSE IF events[k].ev = "usage_delta" THEN Merge(merged[k - 1], events[k].usage)
        ELSE merged[k - 1]
  IN  merged[Len(events)]

\* A price list in which a cached token is cheaper; cost_micros takes the
\* cached tokens out of the prompt's.
InputPrice == 4
CachedPrice == 1
OutputPrice == 5
CostMicros(u) == Larger(u.input - u.cached, 0) * InputPrice + u.cached * CachedPrice
                   + u.output * OutputPrice

Entry(r, u, error) ==
  <<[content |-> r.content, stop |-> r.stop, usage |-> u, cost |-> CostMicros(u),
     error |-> error]>>

\* What an event has its batch say in the model's own words, verbatim: a text,
\* a call's id and name, a piece of its arguments.  (What the Responses encoder
\* says again when an item closes was said before; the argument delta it drops
\* is one outside a call, and no upstream sends one.)
Words(e) ==
  CASE e.ev \in {"text_delta", "thinking_delta"} -> ToSet(e.text)
    [] e.ev = "tool_use_start" -> {e.id, e.name}
    [] e.ev = "tool_use_delta" -> ToSet(e.json)
    [] OTHER -> {}

\* ends_stream looks for the marker in all the bytes of the batch, so a text, a
\* call or its arguments that mention it are taken for it, except where the
\* client is Gemini's.
Marker(client) ==
  CASE client = "chat" -> "[DONE]"
    [] client = "anthropic" -> "message_stop"
    [] client = "responses" -> "response.completed"
EndsStream(client, frames, events) ==
  IF client = "gemini" THEN \E i \in DOMAIN events : events[i].ev = "done"
  ELSE \/ \E i \in DOMAIN frames : frames[i].kind = Marker(client)
       \/ \E i \in DOMAIN events : Mention \in Words(events[i])

\* The complete lines that a read up to half-line n adds to the buffer.
NewLines(n) == SubSeq(Lines(turn), (read \div 2) + 1, n \div 2)

\* Some(Ok(chunk)) in translate_stream: decode, encode, and record at once
\* when the end goes out.
TranslateChunk(n) ==
  LET d == DecodeLines(turn.up, NewLines(n), decoder)
      e == Encode(turn.client, d.events, encoder)
      u == MergeUsage(usage, d.events)
      a == PushAll(agg, d.events)
  IN  /\ read' = n /\ decoder' = d.st /\ usage' = u /\ agg' = a
      /\ encoder' = [e EXCEPT !.out = <<>>] /\ sent' = sent \o e.out
      /\ IF e.out # <<>> /\ EndsStream(turn.client, e.out, d.events)
         THEN log' = Entry(IntoResponse(a), u, FALSE) /\ ended' = "end"
         ELSE UNCHANGED <<log, ended>>
      /\ UNCHANGED <<turn, body>>

\* The same in aggregate_stream, which sends nothing yet.
AggregateChunk(n) ==
  LET d == DecodeLines(turn.up, NewLines(n), decoder)
  IN  /\ read' = n /\ decoder' = d.st /\ agg' = PushAll(agg, d.events)
      /\ UNCHANGED <<turn, usage, encoder, sent, body, log, ended>>

\* The line the upstream left unfinished when it closed: whole but for its
\* newline, or cut.
LastLine(whole) == IF read % 2 = 1 /\ whole THEN <<Lines(turn)[(read \div 2) + 1]>> ELSE <<>>

\* Mutant: the events of the last line are encoded and not folded.
TranslateEndNotFolded(whole) ==
  LET d == DecodeLines(turn.up, LastLine(whole), decoder)
      e == Finish(turn.client, Encode(turn.client, d.events, encoder))
      u == MergeUsage(usage, d.events)
  IN  /\ decoder' = d.st /\ usage' = u
      /\ encoder' = [e EXCEPT !.out = <<>>] /\ sent' = sent \o e.out
      /\ log' = Entry(IntoResponse(agg), u, FALSE) /\ ended' = "eof"
      /\ UNCHANGED <<turn, read, agg, body>>

\* None in translate_stream.
TranslateEnd(whole) ==
  LET d == DecodeLines(turn.up, LastLine(whole), decoder)
      e == Finish(turn.client, Encode(turn.client, d.events, encoder))
      u == MergeUsage(usage, d.events)
      a == PushAll(agg, d.events)
  IN  /\ decoder' = d.st /\ usage' = u /\ agg' = a
      /\ encoder' = [e EXCEPT !.out = <<>>] /\ sent' = sent \o e.out
      /\ log' = Entry(IntoResponse(a), u, FALSE) /\ ended' = "eof"
      /\ UNCHANGED <<turn, read, body>>

\* The end of aggregate_stream, and emit_full.
AggregateEnd(whole) ==
  LET d == DecodeLines(turn.up, LastLine(whole), decoder)
      r == IntoResponse(PushAll(agg, d.events))
  IN  /\ decoder' = d.st /\ agg' = PushAll(agg, d.events)
      /\ body' = <<EmitResponse(turn.client, r)>>
      /\ log' = Entry(r, r.usage, FALSE) /\ ended' = "eof"
      /\ UNCHANGED <<turn, read, usage, encoder, sent>>

\* A transport error, or silence past UPSTREAM_IDLE_TIMEOUT: recorded with
\* what is known if the client was streamed to, and as nothing if not.
Break ==
  /\ log' = IF turn.stream THEN Entry(IntoResponse(agg), usage, TRUE)
            ELSE Entry(Response(<<>>, "none", NoTokens), NoTokens, TRUE)
  /\ ended' = "break"
  /\ UNCHANGED <<turn, read, decoder, encoder, usage, agg, sent, body>>

\* StreamState::drop; a buffered turn has nothing that notices.
Hangup ==
  /\ log' = IF turn.stream THEN Entry(IntoResponse(agg), usage, TRUE) ELSE log
  /\ ended' = "hangup"
  /\ UNCHANGED <<turn, read, decoder, encoder, usage, agg, sent, body>>

\* full_to_stream: neither the client's include_usage nor finish reach this
\* encoder.
FullToStream ==
  LET r == ParseResponse(turn.up, FullBody(turn))
      e == Encode(turn.client, EventsFromResponse(r), NewEncoder(turn.client, FALSE))
  IN  /\ sent' = e.out /\ encoder' = [e EXCEPT !.out = <<>>]
      /\ log' = Entry(r, r.usage, FALSE) /\ ended' = "full"
      /\ UNCHANGED <<turn, read, decoder, usage, agg, body>>

\* Mutant: the body goes out and the turn is not recorded.
EmitFullUnrecorded ==
  LET r == ParseResponse(turn.up, FullBody(turn))
  IN  /\ body' = <<EmitResponse(turn.client, r)>> /\ ended' = "full"
      /\ UNCHANGED <<turn, read, decoder, encoder, usage, agg, sent, log>>

\* A buffered body for a client that wants one.
EmitFull ==
  LET r == ParseResponse(turn.up, FullBody(turn))
  IN  /\ body' = <<EmitResponse(turn.client, r)>>
      /\ log' = Entry(r, r.usage, FALSE) /\ ended' = "full"
      /\ UNCHANGED <<turn, read, decoder, encoder, usage, agg, sent>>

\* parse_response fails; the guard is disarmed by then.
Unreadable ==
  /\ ended' = "unreadable"
  /\ UNCHANGED <<turn, read, decoder, encoder, usage, agg, sent, body, log>>

Turns == [up : Upstreams, client : Clients, stream : BOOLEAN, buffered : BOOLEAN,
          include : BOOLEAN, shared : BOOLEAN, answer : Answers]

\* include_usage and a usage on the finish line are particulars of one
\* dialect, and of streams.
Sensible(t) == /\ t.include => t.client = "chat" /\ t.stream
               /\ t.shared => t.up = "chat" /\ ~t.buffered

Init ==
  /\ turn \in {t \in Turns : Sensible(t)}
  /\ read = 0 /\ decoder = NewDecoder
  /\ encoder = NewEncoder(turn.client, turn.include)
  /\ usage = NoTokens /\ agg = NewAggregator
  /\ sent = <<>> /\ body = <<>> /\ log = <<>> /\ ended = "no"

StreamStep ==
  /\ ~turn.buffered
  /\ \/ \E n \in (read + 1)..HalfLines :
          IF turn.stream THEN TranslateChunk(n) ELSE AggregateChunk(n)
     \/ \E whole \in BOOLEAN :
          IF turn.stream THEN TranslateEnd(whole) ELSE AggregateEnd(whole)
     \/ Break
     \/ Hangup

FullStep ==
  /\ turn.buffered
  /\ \/ turn.stream /\ FullToStream
     \/ ~turn.stream /\ EmitFull
     \/ Unreadable

Next == ended = "no" /\ (StreamStep \/ FullStep)

Spec == Init /\ [][Next]_vars

-----------------------------------------------------------------------------
(* What a client makes of what it is sent, by its dialect's own rules      *)

Gist(thinking, text, tools, stop) ==
  [thinking |-> thinking, text |-> text, tools |-> tools, stop |-> stop]

CallOf(b) == [id |-> b.id, name |-> b.name, input |-> b.input]
GistOf(content, stop) ==
  Gist(Said(content, "thinking"), Said(content, "text"),
       Each(content, LAMBDA b : IF b.type = "tool_use" THEN <<CallOf(b)>> ELSE <<>>), stop)

\* A client reads frame by frame: `blocks` has what the block or item of each
\* index is, and for a call which of `tools`.
NewReader ==
  [thinking |-> <<>>, text |-> <<>>, tools |-> <<>>, blocks |-> <<>>, stop |-> "none"]

HearBlock(g, index, type, id, name) ==
  LET tools == IF type = "tool_use" THEN Append(g.tools, [id |-> id, name |-> name, args |-> <<>>])
               ELSE g.tools
  IN  [g EXCEPT !.tools = tools,
                !.blocks = [i \in DOMAIN g.blocks \cup {index} |->
                              IF i = index THEN [type |-> type, tool |-> Len(tools)]
                              ELSE g.blocks[i]]]

\* A delta belongs to the block, item or call of its index.
HearDelta(g, index, t) ==
  IF index \notin DOMAIN g.blocks THEN g
  ELSE LET b == g.blocks[index] IN
       CASE b.type = "text" -> [g EXCEPT !.text = @ \o t]
         [] b.type = "thinking" -> [g EXCEPT !.thinking = @ \o t]
         [] b.type = "tool_use" -> [g EXCEPT !.tools[b.tool].args = @ \o t]

HearCall(g, c) ==
  HearDelta(IF c.id = <<>> THEN g ELSE HearBlock(g, c.index, "tool_use", c.id[1], c.name),
            c.index, c.args)

\* Chunks carry one call at most.
HearChat(g, f) ==
  IF f.kind # "chunk" \/ f.choice = <<>> THEN g
  ELSE LET d == f.choice[1]
           said == [g EXCEPT !.thinking = @ \o d.reasoning, !.text = @ \o d.content,
                             !.stop = IF f.finish = <<>> THEN @ ELSE FinishToStop(f.finish[1])]
       IN  IF d.calls = <<>> THEN said ELSE HearCall(said, d.calls[1])

HearAnthropic(g, f) ==
  CASE f.kind = "content_block_start" ->
         HearBlock(g, f.index, f.block.type, f.block.id, f.block.name)
    [] f.kind = "content_block_delta" -> HearDelta(g, f.index, f.delta)
    [] f.kind = "message_delta" -> [g EXCEPT !.stop = f.stop]
    [] OTHER -> g

HearResponses(g, f) ==
  CASE f.kind = "response.output_item.added" ->
         HearBlock(g, f.index,
                   CASE f.item.type = "message" -> "text"
                     [] f.item.type = "reasoning" -> "thinking"
                     [] f.item.type = "function_call" -> "tool_use",
                   f.item.call_id, f.item.name)
    [] f.kind \in {"response.output_text.delta", "response.reasoning_text.delta",
                   "response.function_call_arguments.delta"} -> HearDelta(g, f.index, f.delta)
    [] OTHER -> g

\* Chunks carry one part at most, and calls are whole.
HearGemini(g, f) ==
  LET heard == IF f.parts = <<>> THEN g
               ELSE LET p == f.parts[1] IN
                    IF p.type = "text" THEN [g EXCEPT !.text = @ \o p.text]
                    ELSE [g EXCEPT !.tools = Append(@, [id |-> p.name, name |-> p.name,
                                                        args |-> Serialised(p.args)])]
  IN  IF f.finish = <<>> THEN heard
      ELSE [heard EXCEPT !.stop = GeminiFinishToStop(f.finish[1], heard.tools # <<>>)]

Hear(client, g, f) ==
  CASE client = "chat" -> HearChat(g, f)
    [] client = "anthropic" -> HearAnthropic(g, f)
    [] client = "responses" -> HearResponses(g, f)
    [] client = "gemini" -> HearGemini(g, f)

Heard(client, frames) ==
  LET heard[k \in 0..Len(frames)] ==
        IF k = 0 THEN NewReader ELSE Hear(client, heard[k - 1], frames[k])
  IN  heard[Len(frames)]

ParsedCall(c) == [id |-> c.id, name |-> c.name, input |-> ParsedOr(c.args, "{}")]

ReadFrames(client, frames) ==
  LET g == Heard(client, frames)
  IN  Gist(g.thinking, g.text, [i \in DOMAIN g.tools |-> ParsedCall(g.tools[i])], g.stop)

ReadBody(client, b) ==
  IF client = "chat"
  THEN Gist(b.reasoning, b.content, [i \in DOMAIN b.calls |-> ParsedCall(b.calls[i])],
            FinishToStop(b.finish))
  ELSE LET r == ParseResponse(client, b)
       IN  GistOf(r.content, IF client = "responses" THEN "none" ELSE r.stop)

ClientHas == IF body # <<>> THEN ReadBody(turn.client, body[1])
             ELSE ReadFrames(turn.client, sent)

\* What of a gist the two dialects of the turn can say.  Gemini has no
\* thinking and no call ids; a Chat body's reasoning is not read and a
\* Responses body has none; Responses has no stop reason, a Responses stream's
\* max_tokens is read as an end, and Chat and Gemini know fewer reasons.
Sayable(g) ==
  LET gemini == "gemini" \in {turn.up, turn.client}
      silent == \/ gemini
                \/ turn.up = "chat" /\ turn.buffered
                \/ turn.client = "responses" /\ ~turn.stream
      id(c) == IF gemini THEN [c EXCEPT !.id = c.name] ELSE c
      heard == IF turn.up = "responses" /\ ~turn.buffered /\ g.stop = "max_tokens"
               THEN IF g.tools # <<>> THEN "tool_use" ELSE "end_turn" ELSE g.stop
      told == IF turn.client = "responses" THEN "none"
              ELSE IF heard = "stop_sequence" /\ {turn.up, turn.client} # {"anthropic"}
              THEN "end_turn" ELSE heard
  IN  Gist(IF silent THEN <<>> ELSE g.thinking, g.text,
           [i \in DOMAIN g.tools |-> id(g.tools[i])], told)

Terminal(f) ==
  CASE turn.client = "chat" -> f.kind = "[DONE]"
    [] turn.client = "anthropic" -> f.kind = "message_stop"
    [] turn.client = "responses" -> f.kind = "response.completed"
    [] turn.client = "gemini" -> f.finish # <<>>

ClientSeesEnd == \E i \in DOMAIN sent : Terminal(sent[i])

\* The upstream's whole answer was read.
AllRead == turn.buffered \/ read = HalfLines

-----------------------------------------------------------------------------
(* Properties *)

\* The state has its shape, and a turn that ended without an error is in the
\* log: the recording of translate_stream, aggregate_stream and emit_full.
TypeOK ==
  /\ turn \in Turns
  /\ read \in 0..HalfLines
  /\ ended \in Endings
  /\ Len(log) <= 1 /\ Len(body) <= 1
  /\ ended \in {"end", "eof", "full"} => log # <<>> /\ ~log[1].error

\* Of frames, those of a kind before place i.
Before(frames, i, kind) == Cardinality({j \in 1..(i - 1) : frames[j].kind = kind})

ChatFormed(frames) ==
  \A i \in DOMAIN frames :
    LET f == frames[i] IN
    /\ f.kind = "[DONE]" => i = Len(frames)
    /\ (f.kind = "chunk" /\ f.choice # <<>>) =>
         /\ f.choice[1].role <=> i = 1
         /\ \A j \in 1..(i - 1) : frames[j].finish = <<>>

AnthropicFormed(frames) ==
  \A i \in DOMAIN frames :
    LET f == frames[i]
        opened == Before(frames, i, "content_block_start")
        closed == Before(frames, i, "content_block_stop")
    IN
    /\ f.kind = "message_start" <=> i = 1
    /\ f.kind = "content_block_start" => opened = closed /\ f.index = closed
    /\ f.kind \in {"content_block_delta", "content_block_stop"} =>
         opened = closed + 1 /\ f.index = closed
    /\ f.kind \in {"message_delta", "message_stop"} => opened = closed
    /\ f.kind = "message_stop" => i = Len(frames) /\ frames[i - 1].kind = "message_delta"

\* What is completed is what was announced as done, in order.
ResponsesFormed(frames) ==
  \A i \in DOMAIN frames :
    LET f == frames[i]
        opened == Before(frames, i, "response.output_item.added")
        closed == Before(frames, i, "response.output_item.done")
    IN
    /\ f.seq = i - 1
    /\ f.kind = "response.created" <=> i = 1
    /\ f.kind = "response.output_item.added" => opened = closed /\ f.index = closed
    /\ ("index" \in DOMAIN f /\ f.kind # "response.output_item.added") =>
         opened = closed + 1 /\ f.index = closed
    /\ f.kind = "response.completed" =>
         /\ i = Len(frames) /\ opened = closed /\ Len(f.output) = closed
         /\ \A j \in 1..(i - 1) : frames[j].kind = "response.output_item.done" =>
              frames[j].item = f.output[frames[j].index + 1]

GeminiFormed(frames) == \A i \in DOMAIN frames : frames[i].finish # <<>> => i = Len(frames)

\* At every moment the frames sent so far are a prefix of a stream of the
\* client's dialect: blocks and items open and close in turn with consecutive
\* indexes and sequence numbers, the terminal frame comes once and last (the
\* encoders' encode_sse, ensure_block, close_open and finish).
FramesWellFormed ==
  CASE turn.client = "chat" -> ChatFormed(sent)
    [] turn.client = "anthropic" -> AnthropicFormed(sent)
    [] turn.client = "responses" -> ResponsesFormed(sent)
    [] turn.client = "gemini" -> GeminiFormed(sent)

\* A client that is told its answer is over, or is given one body for an
\* answer the upstream finished, has exactly what the model said, as far as
\* the two dialects can say it, wherever the reads fell (decode_sse,
\* Aggregator, encode_sse, emit_response).
EndMeansAll ==
  (ClientSeesEnd \/ (body # <<>> /\ AllRead))
  => ClientHas = Sayable(GistOf(turn.answer.blocks, turn.answer.stop))

\* The log holds what the client was sent, also when the stream broke, closed
\* early or was abandoned; a Gemini call may still wait for its end then
\* (StreamState::agg, ir_json, flush_tool).
LogIsClientsAnswer ==
  (log # <<>> /\ turn.stream /\ (turn.client # "gemini" \/ ClientSeesEnd))
  => LET said == GistOf(log[1].content, "none")
         has == [ClientHas EXCEPT !.stop = "none"]
     IN  has = [Sayable(said) EXCEPT !.stop = "none"]

\* The client's dialect holds its end back until the upstream's usage came.
Awaited == \/ turn.up # "chat" \/ turn.shared \/ turn.buffered \/ ~turn.stream
           \/ turn.client = "responses" \/ turn.include

\* What the tokens of an answer cost, each counted once.
Worth(tokens) == tokens.fresh * InputPrice + tokens.cached * CachedPrice
                   + tokens.output * OutputPrice

Complete == log # <<>> /\ ~log[1].error /\ (ended = "end" \/ AllRead)

\* A turn recorded as complete costs what its tokens are worth, however its
\* reports were split over the stream, if its usage was waited for and cached
\* tokens are counted as OpenAI does (merge_usage, Usage::merge, pending_done,
\* pending_completed, cost_micros).
AwaitedIsBilled ==
  (Complete /\ Awaited /\ (turn.up = "anthropic" => turn.answer.tokens.cached = 0))
  => log[1].cost = Worth(turn.answer.tokens)

\* "The gateway collects it either way, for billing" (translate_stream): a
\* client that has its whole answer is billed the usage the upstream reports.
UsageIsBilled ==
  (ended = "end" /\ ClientSeesEnd) => log[1].usage = Usage(turn.up, turn.answer.tokens)

\* A turn whose usage was waited for costs what its tokens are worth, with
\* "Anthropic-style prompt caching" too (ModelPrice, cost_micros).
CachedIsBilled == (Complete /\ Awaited) => log[1].cost = Worth(turn.answer.tokens)

\* Recorded as complete while the upstream is still sending only "the moment
\* the end goes out" (translate_stream, ends_stream).
EndIsSent == ended = "end" => ClientSeesEnd

=============================================================================
