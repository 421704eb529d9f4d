---------------------------- MODULE Conversation ----------------------------
(***************************************************************************)
(* A conversation through the gateway: a client of one dialect builds up a *)
(* history, each turn is sent to an upstream of any dialect (and again to  *)
(* another when that one fails), and the answer, translated, joins the     *)
(* history the client sends next time (yb-gateway, Gateway::handle).       *)
(*                                                                         *)
(* `talk` is what was said, in the blocks of the IR, where a result that   *)
(* its client marked for caching has `cache`; `body` is how the client     *)
(* writes it.  How a client writes and a provider reads its own     *)
(* dialect is the environment; parsing and emitting are Requests'.         *)
(***************************************************************************)
EXTENDS Requests, Encoders

CONSTANTS Clients, Upstreams,
          KnobSets,      \* the settings a client may send: see Setting
          MaxTalk,       \* bound on the messages of a conversation
          MarkedResults  \* whether a client puts cache marks on tool results

ASSUME ConversationAssumption ==
  /\ Clients \subseteq Dialects /\ Upstreams \subseteq Dialects
  /\ MaxTalk \in Nat /\ MarkedResults \in BOOLEAN

VARIABLES client, knobs, talk, body,
          sent           \* the last request, if unanswered: [up, request]

vars == <<client, knobs, talk, body, sent>>

Setting(max, stop, tools, choice, effort, budget) ==
  [max |-> max, stop |-> stop, tools |-> tools, choice |-> choice, effort |-> effort,
   budget |-> budget]

-----------------------------------------------------------------------------
(* How a client writes *)

WriteChoice(c) ==
  CASE client \in {"chat", "responses"} ->
         IF c.mode = "tool" THEN Choice("function", c.name) ELSE c
    [] client = "anthropic" -> IF c.mode = "required" THEN Choice("any", "") ELSE c
    [] client = "gemini" ->
         [mode |-> CASE c.mode = "auto" -> "AUTO" [] c.mode = "none" -> "NONE" [] OTHER -> "ANY",
          names |-> Opt(c.mode = "tool", c.name)]

\* A tool's definition other than a function's is of the Responses dialect.
NewBody(prompt) ==
  LET k == knobs
      choice == Map(k.choice, WriteChoice)
      cache == [prompt_cache_key |-> <<"key">>, prompt_cache_retention |-> <<>>]
  IN
  CASE client = "chat" ->
         cache @@ [messages |-> Opt(prompt # <<>>, ChatMessage("system", prompt)),
                   max_tokens |-> k.max, stop |-> k.stop, tools |-> k.tools,
                   tool_choice |-> choice, reasoning_effort |-> k.effort,
                   stream |-> FALSE, include_usage |-> FALSE]
    [] client = "anthropic" ->
         [system |-> Map(prompt, EmitBlock), messages |-> <<>>, max_tokens |-> k.max,
          stop_sequences |-> k.stop, tools |-> k.tools, tool_choice |-> choice,
          thinking |-> k.budget, context_management |-> <<"edits">>]
    [] client = "responses" ->
         cache @@ [instructions |-> Opt(prompt # <<>>, JoinText(prompt)), input |-> <<>>,
                   tools |-> <<"web_search">> \o k.tools, tool_choice |-> choice,
                   effort |-> k.effort, max_output_tokens |-> k.max]
    [] client = "gemini" ->
         [systemInstruction |-> prompt, contents |-> <<>>, tools |-> k.tools,
          toolConfig |-> choice, maxOutputTokens |-> k.max, stopSequences |-> k.stop,
          thinkingBudget |-> k.budget]

\* A part of a message, or of a result.
WritePart(b) ==
  CASE b.type = "image" ->
         [type |-> CASE client = "chat" -> "image_url" [] client = "responses" -> "input_image"
                     [] OTHER -> "inline_data",
          form |-> b.form, image |-> b.image]
    [] b.type # "image" /\ client = "responses" -> ItemText(b.text, b.type = "cached_text")
    [] OTHER -> b

\* `how` is the type of item a Responses client uses for results.
WriteResult(b, how) ==
  LET parts == Map(b.content, WritePart) IN
  IF how = "message"
  THEN [type |-> "message", role |-> "tool", call_id |-> b.id, content |-> parts]
  ELSE [type |-> how, call_id |-> b.id, output |-> parts]

\* A message as the client's dialect has it.
Write(m, how) ==
  LET block(b) == IF b.type = "native" THEN b.raw ELSE EmitBlock(b)
      asChat ==
        CASE m.role = "tool" ->
               Map(m.content, LAMBDA b :
                 [ChatMessage("tool", Map(b.content, WritePart)) EXCEPT !.call_id = b.id])
          [] m.role = "assistant" -> <<EmitAssistant(m)>>
          [] OTHER -> <<ChatMessage(m.role, Map(m.content, WritePart))>>
      asItems ==
        CASE m.role = "tool" -> Map(m.content, LAMBDA b : WriteResult(b, how))
          [] m.role = "assistant" -> Each(m.content, LAMBDA b :
               CASE b.type = "text" -> <<ItemMessage("assistant", <<ItemText(b.text, FALSE)>>)>>
                 [] b.type = "tool_use" -> <<FunctionCall(b)>>
                 [] OTHER -> <<[type |-> "reasoning"]>>)
          [] OTHER -> <<ItemMessage(m.role, Map(m.content, WritePart))>>
      asParts == Each(m.content, LAMBDA b :
               CASE b.type = "tool_use" -> <<[type |-> "functionCall", name |-> b.name, args |-> b.input]>>
                 [] b.type = "tool_result" ->
                      <<[type |-> "functionResponse", name |-> b.id, response |-> Wrapped(JoinText(b.content))]>>
                 [] b.type \in {"text", "image"} -> <<WritePart(b)>>
                 [] OTHER -> <<>>)
  IN
  CASE client = "chat" -> asChat
    [] client = "anthropic" ->
         <<Message(IF m.role = "tool" THEN "user" ELSE m.role, Map(m.content, block))>>
    [] client = "responses" -> asItems
    [] client = "gemini" ->
         <<[role |-> IF m.role = "assistant" THEN "model" ELSE "user", parts |-> asParts]>>

Field == CASE client \in {"chat", "anthropic"} -> "messages"
           [] client = "responses" -> "input"
           [] client = "gemini" -> "contents"

\* An answer as the client was given it (emit_response) and keeps it.
Echo(content) ==
  LET b == EmitResponse(client, [content |-> content, stop |-> "tool_use", usage |-> NoTokens])
      unsigned(x) == (IF x.type = "thinking" THEN Signed(x.text, <<>>) ELSE x) @@ [cache |-> FALSE]
      item(o) == IF o.type = "message" THEN ItemMessage("assistant", <<ItemText(o.text, FALSE)>>)
                 ELSE o
  IN
  CASE client = "chat" ->
         <<[ChatMessage("assistant", <<Text(b.content)>>) EXCEPT !.reasoning = b.reasoning,
                                                                 !.calls = b.calls]>>
    [] client = "anthropic" -> <<Message("assistant", Map(b.content, unsigned))>>
    [] client = "responses" -> Map(b.output, item)
    [] client = "gemini" -> <<[role |-> "model", parts |-> b.parts]>>

-----------------------------------------------------------------------------
(* The conversation *)

\* Calls the client has not answered yet.
Outstanding ==
  IF talk = <<>> \/ Last(talk).role # "assistant" THEN <<>>
  ELSE OfType(Last(talk).content, "tool_use")

Extend(messages, written) ==
  /\ Len(talk) < MaxTalk
  /\ talk' = talk \o messages
  /\ body' = [body EXCEPT ![Field] = @ \o written]
  /\ UNCHANGED <<client, knobs>>

\* Ids are unique, except that a Gemini's are the functions' names.
Call(name, n, byName) ==
  ToolUse(IF byName THEN name ELSE IF n = 1 THEN "c1" ELSE "c2", name, "x")

Picture == "pic"

Say ==
  /\ sent = <<>> /\ Outstanding = <<>>
  /\ \E content \in
        {<<Text(<<"a", "b">>)>>,
         <<Text(<<"a">>), Image(IF client = "gemini" THEN "data" ELSE "url", Picture)>>}
          \cup (IF client \in {"anthropic", "responses"}
                THEN {<<Cached(<<"a">>), Text(<<"b">>)>>} ELSE {}) :
       LET m == Message("user", content) IN Extend(<<m>>, Write(m, ""))
  /\ UNCHANGED sent

\* Instructions in the middle of a conversation; Gemini has no place for them.
Instruct ==
  /\ sent = <<>> /\ Outstanding = <<>> /\ client # "gemini"
  /\ \E role \in (IF client = "chat" THEN {"system", "developer"}
                  ELSE IF client = "anthropic" THEN {"system"} ELSE {"developer"}) :
       LET m == Message(role, <<Text(<<"now">>)>>) IN Extend(<<m>>, Write(m, ""))
  /\ UNCHANGED sent

\* History from elsewhere: two calls, or blocks only its dialect has.
Recall ==
  /\ sent = <<>> /\ Outstanding = <<>> /\ talk # <<>>
  /\ LET byName == client = "gemini"
         redacted == Native([type |-> "redacted_thinking", cache |-> FALSE])
         turns == {<<Text(<<"t">>), Call("f", 1, byName), Call("g", 2, byName)>>}
                    \cup (IF client = "anthropic"
                          THEN {<<Signed(<<"h">>, <<"sig">>), redacted, Text(<<"t">>)>>}
                          ELSE {})
     IN  \E content \in turns :
           LET m == Message("assistant", content) IN Extend(<<m>>, Write(m, ""))
  /\ UNCHANGED sent

\* An exchange the provider ran itself is one item of a Responses history.
RecallMcp ==
  /\ sent = <<>> /\ Outstanding = <<>> /\ client = "responses"
  /\ Extend(<<Message("assistant", <<ToolUse("m1", "f", "x")>>),
              Message("tool", <<ToolResult("m1", <<Text(<<"r">>)>>, FALSE)>>)>>,
            <<[type |-> "mcp_call", id |-> "m1", name |-> "f", args |-> Serialised("x"),
               output |-> <<ItemText(<<"r">>, FALSE)>>]>>)
  /\ UNCHANGED sent

ResultTypes == IF client = "responses"
               THEN {"function_call_output", "custom_tool_call_output", "x_output", "message"}
               ELSE {""}

\* What a tool returns: words, and for all but Gemini a picture of them; the
\* client may mark the words.
Returned == {<<Text(<<"r">>)>>}
              \cup (IF client = "gemini" THEN {} ELSE {<<Text(<<"r">>), Image("url", Picture)>>})
              \cup (IF client = "anthropic" THEN {<<Cached(<<"r">>)>>} ELSE {})

\* Results, with a remark in the same message where the dialect allows it.  A
\* cache mark is on the last block.  A result that is not plain words is neither
\* an error nor marked, nor of a type only its client knows.
Return ==
  /\ sent = <<>> /\ Outstanding # <<>>
  /\ \E how \in ResultTypes, remark \in BOOLEAN, mark \in BOOLEAN, error \in BOOLEAN,
        content \in Returned :
       LET results == Map(Outstanding, LAMBDA b : ToolResult(b.id, content, error))
           marked(c) == [c EXCEPT ![Len(c)] = @ @@ [cache |-> TRUE]]
           m == CASE remark /\ mark -> Message("user", Append(results, Cached(<<"go">>)))
                  [] remark /\ ~mark -> Message("user", Append(results, Text(<<"go">>)))
                  [] ~remark /\ mark -> Message("tool", marked(results))
                  [] ~remark /\ ~mark -> Message("tool", results)
       IN  /\ remark => client \in {"anthropic", "gemini"}
           /\ mark => client = "anthropic" /\ (remark \/ MarkedResults)
           /\ error => client = "anthropic"
           /\ content # <<Text(<<"r">>)>> =>
                ~error /\ ~mark /\ how \in {"", "function_call_output", "message"}
           /\ Extend(<<m>>, Write(m, how))
  /\ UNCHANGED sent

\* Gateway::handle parses the body and emits it for a candidate; another
\* candidate gets the same request emitted anew.
Send(up) ==
  /\ talk # <<>> /\ Last(talk).role \in {"user", "tool"}
  /\ \A s \in ToSet(sent) : s.up # up
  /\ sent' = <<[up |-> up, request |-> EmitRequest(up, ParseRequest(client, body))]>>
  /\ UNCHANGED <<client, knobs, talk, body>>

\* A Gemini has no call ids and shows no thinking; a Gemini client sees none.
Answer ==
  /\ sent # <<>>
  /\ LET byName == "gemini" \in {client, sent[1].up}
         thought == IF sent[1].up = "gemini" THEN <<>> ELSE <<Thinking(<<"h">>)>>
     IN  \E content \in {thought \o <<Text(<<"t">>)>>, thought \o <<Call("f", 1, byName)>>} :
           Extend(<<Message("assistant", content)>>, Echo(content))
  /\ sent' = <<>>

Init ==
  /\ client \in Clients /\ knobs \in KnobSets
  /\ \E prompt \in {<<>>, <<Text(<<"s">>)>>}
                     \cup (IF client = "anthropic" THEN {<<Cached(<<"s">>)>>} ELSE {}) :
       /\ talk = Opt(prompt # <<>>, Message("system", prompt))
       /\ body = NewBody(prompt)
  /\ sent = <<>>

Next ==
  \/ Say \/ Instruct \/ Recall \/ RecallMcp \/ Return \/ Answer
  \/ \E up \in Upstreams : Send(up)

Spec == Init /\ [][Next]_vars

-----------------------------------------------------------------------------
(* How a provider reads its own dialect: messages in the blocks of the IR  *)

ReadChatMessage(m) ==
  IF m.role = "tool" THEN Message("tool", <<ToolResult(m.call_id, m.content, FALSE)>>)
  ELSE Message(m.role, Opt(m.reasoning # <<>>, Thinking(m.reasoning)) \o m.content
                         \o Map(m.calls, LAMBDA c : ToolUse(c.id, c.name, ParsedOr(c.args, "{}"))))

ReadItem(o) ==
  CASE o.type = "message" -> Message(o.role, o.content)
    [] o.type = "function_call" ->
         Message("assistant", <<ToolUse(o.call_id, o.name, ParsedOr(o.args, "{}"))>>)
    [] o.type = "function_call_output" ->
         Message("tool", <<ToolResult(o.call_id, o.output, FALSE)>>)

ReadContents(c) ==
  Message(IF c.role = "model" THEN "assistant" ELSE "user",
    Map(c.parts, LAMBDA p :
      CASE p.type = "functionCall" -> ToolUse(p.name, p.name, p.args)
        [] p.type = "functionResponse" -> ToolResult(p.name, <<Text(Serialised(p.response))>>, FALSE)
        [] OTHER -> p))

Read(up, r) ==
  CASE up = "chat" -> Map(r.messages, ReadChatMessage)
    [] up = "anthropic" -> r.messages
    [] up = "responses" -> Map(r.input, ReadItem)
    [] up = "gemini" -> Map(r.contents, ReadContents)

\* The object a text was wrapped in on its way is not part of it.
Bare(t) == IF Whole(t) /\ DOMAIN t[1] = {"result"} THEN t[1].result ELSE t

\* Words, images and cache marks, in order.
Atoms(content) ==
  Each(content, LAMBDA p :
    CASE IsText(p) -> p.text \o Opt(p.type = "cached_text" \/ ("cache" \in DOMAIN p /\ p.cache), "|")
      [] "image" \in DOMAIN p -> <<p.image>>
      [] OTHER -> <<>>)

\* What a message says, whatever blocks it is cut into.
View(m) ==
  LET all(type) == OfType(m.content, type)
      signature(b) == IF "signature" \in DOMAIN b THEN b.signature ELSE <<>>
  IN  [role |-> IF m.role = "tool" THEN "user" ELSE m.role,
       said |-> Atoms(m.content),
       thought |-> Each(all("thinking"), LAMBDA b : b.text),
       signed |-> Each(all("thinking"), signature),
       own |-> Len(all("native")) + Len(all("redacted_thinking")),
       calls |-> Map(all("tool_use"), LAMBDA b : [id |-> b.id, name |-> b.name, input |-> b.input]),
       results |-> Map(all("tool_result"),
                       LAMBDA b : [id |-> b.id, said |-> Bare(Atoms(b.content)), error |-> b.error])]

Nothing(v) == v = View(Message(v.role, <<>>))

\* The turns of a conversation: neighbours of one role are one turn.
Turns(messages, joined) ==
  LET views == SelectSeq(Map(SelectSeq(messages, LAMBDA m : m.role \notin Instructing), View),
                         LAMBDA v : ~Nothing(v))
      join(v, w) == [v EXCEPT !.said = @ \o w.said, !.thought = @ \o w.thought,
                              !.signed = @ \o w.signed, !.own = @ + w.own,
                              !.calls = @ \o w.calls, !.results = @ \o w.results]
      step(acc, v) == IF acc # <<>> /\ Last(acc).role = v.role /\ v.role \in joined
                      THEN [acc EXCEPT ![Len(acc)] = join(@, v)] ELSE Append(acc, v)
  IN  FoldLeft(step, <<>>, views)

Roles == {"user", "assistant"}

-----------------------------------------------------------------------------
(* Properties *)

Request_ == sent[1].request
Up == sent[1].up

\* What of a turn both dialects can say: thinking where both show it,
\* signatures, native blocks and errors between Anthropics, cache marks where
\* both have them (in a result between Anthropics), call ids but for Gemini; and
\* what the emitters keep of a result's images: a Chat body replayed to a Chat
\* upstream and an Anthropic one have them, if the client's parser read them.
Sayable(v) ==
  LET both(S) == {client, Up} \subseteq S
      id(c) == IF Up = "gemini" THEN [c EXCEPT !.id = c.name] ELSE c
      without(said, atom, kept) == IF kept THEN said ELSE SelectSeq(said, LAMBDA a : a # atom)
      pictured == both({"chat", "anthropic"}) /\ (Up = "anthropic" \/ client = "chat")
      result(r) == [r EXCEPT !.error = @ /\ both({"anthropic"}),
                             !.said = without(without(@, Picture, pictured), "|", both({"anthropic"}))]
  IN  [v EXCEPT !.said = without(@, "|", both({"anthropic", "responses"})),
                !.thought = IF both({"chat", "anthropic"}) THEN @ ELSE <<>>,
                !.signed = IF both({"anthropic"}) THEN @ ELSE <<>>,
                !.own = IF both({"anthropic"}) THEN @ ELSE 0,
                !.calls = Map(@, id),
                !.results = Map(@, result)]

\* Which call a result is for is AnswersFollowCalls' subject.
Unkeyed(turns) == Map(turns, LAMBDA v : [v EXCEPT !.results = Map(@, LAMBDA r : [r EXCEPT !.id = ""])])

\* Tool results that a client marked for caching, and a message without them.
IsMarked(b) == b.type = "tool_result" /\ "cache" \in DOMAIN b
Marked == \E m \in ToSet(talk) : \E b \in ToSet(m.content) : IsMarked(b)
WithoutMarked(m) == [m EXCEPT !.content = SelectSeq(@, LAMBDA b : ~IsMarked(b))]

\* Every turn reaches every upstream, whichever is asked and in whatever
\* dialect the client keeps its history: what was said and called, and the
\* words that were returned, are not lost, repeated or reordered, nothing that
\* only one provider understands reaches another, and a Responses history goes
\* to a Responses upstream as it is (parse_request and emit_request of each
\* dialect, native_input).  Two things are lost, and the formula says where: an
\* image in a result, except from Chat to Chat and from Chat or Anthropic to
\* Anthropic (join_text, output_text), and a whole result that was marked for
\* caching, to any upstream but Anthropic's (parse_block).
DialogueKept ==
  sent # <<>> =>
    IF client = "responses" /\ Up = "responses" THEN Request_.input = body.input
    ELSE LET told == IF Up = "anthropic" THEN talk ELSE Map(talk, WithoutMarked)
         IN  Unkeyed(Turns(Read(Up, Request_), Roles))
               = Unkeyed(SelectSeq(Map(Turns(told, Roles), Sayable), LAMBDA v : ~Nothing(v)))

\* Every instruction, given first or in the middle, reaches the upstream, once
\* and in order (effective_system, emit_messages, emit_input_items).
InstructionsReach ==
  LET inline(messages) ==
        Each(messages, LAMBDA m : IF m.role \in Instructing THEN JoinText(m.content) ELSE <<>>)
      items == SelectSeq(Request_.input, LAMBDA o : o.type = "message")
      told == CASE Up = "chat" -> inline(Request_.messages)
                [] Up = "anthropic" -> JoinText(Request_.system)
                [] Up = "responses" -> FlattenSeq(Request_.instructions) \o inline(items)
                [] Up = "gemini" -> JoinText(Request_.systemInstruction)
  IN  sent # <<>> => told = inline(talk)

\* The results that follow a call are the results of that call: for a Chat
\* upstream, of that very message.
Paired(turns) ==
  \A i \in DOMAIN turns : turns[i].calls # <<>> =>
    /\ i < Len(turns)
    /\ Map(turns[i + 1].results, LAMBDA r : r.id) = Map(turns[i].calls, LAMBDA c : c.id)

Answered == Paired(Turns(Read(Up, Request_), IF Up = "chat" THEN {"user"} ELSE Roles))

AllCalls == Each(talk, LAMBDA m : OfType(m.content, "tool_use"))

\* An upstream finds every call answered right after it, by the key its
\* dialect goes by, unless the client marked a result for caching, a Responses
\* client made two calls at once of a Chat upstream, or a Gemini upstream gets
\* calls that have ids (tool_result_message, emit_messages, emit_part).
AnswersFollowCalls ==
  (/\ sent # <<>> /\ ~(client = "responses" /\ Up = "responses")
   /\ Marked => Up = "anthropic"
   /\ (client = "responses" /\ Up = "chat") =>
        \A m \in ToSet(talk) : Len(OfType(m.content, "tool_use")) <= 1
   /\ Up = "gemini" => \A b \in ToSet(AllCalls) : b.id = b.name)
  => Answered

\* "an assistant message with 'tool_calls' must be followed by tool messages
\* responding to each 'tool_call_id'" (parse_input_item).
CallsAreAnswered == (sent # <<>> /\ Up = "chat") => Answered

\* "tool calls have no call-id, so we correlate by function name" (gemini.rs).
GeminiPairsByName == (sent # <<>> /\ Up = "gemini") => Answered

\* The tools, the choice among them, the limit, the stop sequences and the
\* effort mean the same to the upstream, as far as its dialect and emitter
\* have them: Responses is sent no limit and no stops, and a budget of tokens
\* is not put as an effort (parse_tool_choice, emit_tool_choice,
\* effort_to_budget and the knobs of each emit_request).
KnobsReach ==
  LET r == Request_
      openAI == {"chat", "responses"}
      choice(c) ==
        CASE c.mode = "function" -> Choice("tool", c.name)
          [] c.mode \in {"any", "ANY"} ->
               IF "names" \in DOMAIN c /\ c.names # <<>> THEN Choice("tool", c.names[1])
               ELSE Choice("required", "")
          [] c.mode = "NONE" -> Choice("none", "")
          [] c.mode = "AUTO" -> Choice("auto", "")
          [] OTHER -> c
      max == IF knobs.max = <<>> /\ Up = "anthropic" THEN <<4096>> ELSE knobs.max
      stop == IF client = "responses" THEN <<>> ELSE knobs.stop
      effort == IF client \in openAI THEN knobs.effort ELSE <<>>
      budget == IF client \in openAI THEN <<>> ELSE knobs.budget
      has(tools, tool_choice) ==
        /\ SelectSeq(tools, LAMBDA t : t # "web_search") = knobs.tools
        /\ Map(tool_choice, choice) = knobs.choice
  IN
  sent # <<>> =>
  CASE Up = "chat" -> /\ has(r.tools, r.tool_choice) /\ r.max_tokens = max /\ r.stop = stop
                      /\ r.reasoning_effort = effort /\ r.stream /\ r.include_usage
                      /\ client = "responses" => r.prompt_cache_retention = <<"24h">>
    [] Up = "anthropic" -> /\ has(r.tools, r.tool_choice) /\ r.max_tokens = max
                           /\ r.stop_sequences = stop
                           /\ (r.context_management # <<>>) <=> (client = "anthropic")
                           /\ r.thinking = budget \/ (effort # <<>> /\ Len(r.thinking) = 1)
    [] Up = "responses" -> has(r.tools, r.tool_choice) /\ r.effort = effort
    [] Up = "gemini" -> /\ has(r.tools, r.toolConfig) /\ r.maxOutputTokens = max
                        /\ r.stopSequences = stop /\ r.thinkingBudget = budget

=============================================================================
