------------------------------- MODULE ChatIR -------------------------------
(***************************************************************************)
(* The intermediate representation every chat answer passes through        *)
(* (yb-wire, ir.rs) and the two folds between its two forms, a sequence of *)
(* stream events and one buffered response (aggregate.rs).                 *)
(*                                                                         *)
(* A text is a sequence of atoms, one or more of which make up a delta.    *)
(* The text form of a tool call's arguments v is <<v, "}">>: it parses     *)
(* when it is whole and not otherwise.  Of a usage the prompt, completion  *)
(* and cached tokens are kept; the other counts are merged field by field  *)
(* as these are.  The ids and the model of an answer are left out.         *)
(***************************************************************************)
EXTENDS Integers, Sequences, SequencesExt

Opt(present, x) == IF present THEN <<x>> ELSE <<>>
Each(seq, f(_)) == FlattenSeq([i \in DOMAIN seq |-> f(seq[i])])

Dialects == {"chat", "anthropic", "responses", "gemini"}

StopReasons == {"end_turn", "max_tokens", "stop_sequence", "tool_use"}

Text(t) == [type |-> "text", text |-> t]
Thinking(t) == [type |-> "thinking", text |-> t]
ToolUse(id, name, input) ==
  [type |-> "tool_use", id |-> id, name |-> name, input |-> input]

MessageStart == [ev |-> "message_start"]
TextDelta(t) == [ev |-> "text_delta", text |-> t]
ThinkingDelta(t) == [ev |-> "thinking_delta", text |-> t]
ToolUseStart(id, name) == [ev |-> "tool_use_start", id |-> id, name |-> name]
ToolUseDelta(json) == [ev |-> "tool_use_delta", json |-> json]
UsageDelta(u) == [ev |-> "usage_delta", usage |-> u]
Done(stop) == [ev |-> "done", stop |-> stop]

NoTokens == [input |-> 0, output |-> 0, cached |-> 0]

Larger(a, b) == IF a >= b THEN a ELSE b

\* Mutant: the last report wins.
MergeLatest(u, v) == v

\* Usage::merge: the larger count per field, whatever the order of reports.
Merge(u, v) == [input |-> Larger(u.input, v.input),
                output |-> Larger(u.output, v.output),
                cached |-> Larger(u.cached, v.cached)]

\* An Option<Usage> is a sequence of at most one report.
MergeOption(o, v) == <<IF o = <<>> THEN v ELSE Merge(o[1], v)>>
OrNone(o) == IF o = <<>> THEN NoTokens ELSE o[1]

\* A value's text, and what a parser makes of a text (`fallback` if it
\* cannot: the callers differ).  An empty text is the empty object.
Serialised(v) == <<v, "}">>
Whole(json) == Len(json) = 2 /\ json[2] = "}"
ParsedOr(json, fallback) ==
  IF json = <<>> THEN "{}" ELSE IF Whole(json) THEN json[1] ELSE fallback

-----------------------------------------------------------------------------
(* Aggregator *)

NewAggregator ==
  [text |-> <<>>, thinking |-> <<>>, tools |-> <<>>, usage |-> NoTokens,
   stop |-> <<>>]

\* Mutant: every argument delta goes to the first call.
AppendToFirst(tools, json) ==
  IF tools = <<>> THEN tools ELSE [tools EXCEPT ![1].json = @ \o json]

AppendToLast(tools, json) ==
  IF tools = <<>> THEN tools
  ELSE [tools EXCEPT ![Len(tools)].json = @ \o json]

Push(agg, e) ==
  CASE e.ev = "message_start" -> agg
    [] e.ev = "text_delta" -> [agg EXCEPT !.text = @ \o e.text]
    [] e.ev = "thinking_delta" -> [agg EXCEPT !.thinking = @ \o e.text]
    [] e.ev = "tool_use_start" ->
         [agg EXCEPT !.tools =
            Append(@, [id |-> e.id, name |-> e.name, json |-> <<>>])]
    [] e.ev = "tool_use_delta" ->
         [agg EXCEPT !.tools = AppendToLast(@, e.json)]
    [] e.ev = "usage_delta" -> [agg EXCEPT !.usage = Merge(@, e.usage)]
    [] e.ev = "done" -> [agg EXCEPT !.stop = <<e.stop>>]

PushAll(agg, events) ==
  LET pushed[k \in 0..Len(events)] ==
        IF k = 0 THEN agg ELSE Push(pushed[k - 1], events[k])
  IN  pushed[Len(events)]

\* All the thinking first, then all the text, then the calls; arguments that
\* do not parse are the empty object; a plain end with calls is a tool stop.
IntoResponse(agg) ==
  LET call(t) == ToolUse(t.id, t.name, ParsedOr(t.json, "{}"))
      plain == agg.stop \in {<<>>, <<"end_turn">>}
  IN  [content |-> Opt(agg.thinking # <<>>, Thinking(agg.thinking))
                     \o Opt(agg.text # <<>>, Text(agg.text))
                     \o [i \in DOMAIN agg.tools |-> call(agg.tools[i])],
       stop |-> IF plain THEN IF agg.tools # <<>> THEN "tool_use" ELSE "end_turn"
                ELSE agg.stop[1],
       usage |-> agg.usage]

\* events_from_response: the other way, for a client that asked for a stream.
EventsOfBlock(b) ==
  CASE b.type = "thinking" -> <<ThinkingDelta(b.text)>>
    [] b.type = "text" -> <<TextDelta(b.text)>>
    [] b.type = "tool_use" -> <<ToolUseStart(b.id, b.name), ToolUseDelta(Serialised(b.input))>>
    [] OTHER -> <<>>
EventsFromResponse(r) ==
  <<MessageStart>> \o Each(r.content, EventsOfBlock) \o <<UsageDelta(r.usage), Done(r.stop)>>

=============================================================================
