---------------------------- MODULE RelayProofs -----------------------------
(***************************************************************************)
(* Theorems about the relay, for any answers and any pair of dialects: a   *)
(* turn is followed, what a client is sent is well formed, means what the  *)
(* upstream said, is what the log holds and is what the turn is billed.    *)
(* CodecProofs has the lemmas about lists, decoders and the other encoders;*)
(* Gemini's encoder, bodies and the turn itself are here.                  *)
(***************************************************************************)
EXTENDS CodecProofs

-----------------------------------------------------------------------------
(* A client of Gemini's dialect                                            *)

GeminiState(u, p, out) == [usage |-> u, pendingTool |-> p, out |-> out]
GeminiWrites(base, s, u, p, F) ==
  \E out : s = GeminiState(u, p, out) /\ IsList(base) /\ IsList(out) /\ F = base \o out
SetHolding(s, p) == [s EXCEPT !.pendingTool = p]

\* What each of its steps does to an encoder's state.
LEMMA GeminiWritesSets ==
    ASSUME NEW base, NEW s, NEW u, NEW p, NEW F, GeminiWrites(base, s, u, p, F), NEW v
    PROVE  /\ GeminiWrites(base, SetSeen(s, v), v, p, F)
           /\ GeminiWrites(base, SetHolding(s, v), u, v, F)
           /\ GeminiWrites(base, Put(s, v), u, p, Append(F, v))
           /\ GeminiWrites(F, Flushed(s), u, p, F)
           /\ s.usage = u /\ s.pendingTool = p /\ F = base \o s.out /\ IsList(F)
  <1>1. PICK out : s = GeminiState(u, p, out) /\ IsList(base) /\ IsList(out) /\ F = base \o out
    BY DEF GeminiWrites
  <1>2. s = [usage |-> u, pendingTool |-> p, out |-> out]
    BY <1>1 DEF GeminiState
  <1>3. s.usage = u /\ s.pendingTool = p /\ s.out = out
    BY <1>2
  <1>4. [s EXCEPT !.usage = v] = [usage |-> v, pendingTool |-> p, out |-> out]
    BY <1>2
  <1>5. [s EXCEPT !.pendingTool = v] = [usage |-> u, pendingTool |-> v, out |-> out]
    BY <1>2
  <1>6. SetSeen(s, v) = GeminiState(v, p, out) /\ SetHolding(s, v) = GeminiState(u, v, out)
    BY <1>4, <1>5 DEF SetSeen, SetHolding, GeminiState
  <1>7. GeminiWrites(base, Put(s, v), u, p, Append(F, v))
    <2>1. PICK o : o = Append(out, v)
      OBVIOUS
    <2>2. [s EXCEPT !.out = o] = [usage |-> u, pendingTool |-> p, out |-> o]
      BY <1>2
    <2>3. Put(s, v) = GeminiState(u, p, o)
      BY <1>3, <2>1, <2>2 DEF Put, GeminiState
    <2>4. IsList(o) /\ base \o o = Append(F, v)
      BY <1>1, <2>1, WriteAppend
    <2> QED
      BY <1>1, <2>3, <2>4 DEF GeminiWrites
  <1>8. GeminiWrites(F, Flushed(s), u, p, F)
    <2>1. PICK z : z = <<>>
      OBVIOUS
    <2>2. [s EXCEPT !.out = z] = [usage |-> u, pendingTool |-> p, out |-> z]
      BY <1>2
    <2>3. Flushed(s) = GeminiState(u, p, z)
      BY <2>1, <2>2 DEF Flushed, GeminiState
    <2>4. IsList(F) /\ IsList(z) /\ F \o z = F
      BY <1>1, <2>1, ListConcat, ListEmpty, ConcatNil
    <2> QED
      BY <2>3, <2>4 DEF GeminiWrites
  <1> QED
    BY <1>1, <1>3, <1>6, <1>7, <1>8, ListConcat DEF GeminiWrites

\* What a Gemini encoder that writes has in its fields.
LEMMA GeminiWritesFields ==
    ASSUME NEW base, NEW s, NEW u, NEW p, NEW F, GeminiWrites(base, s, u, p, F)
    PROVE  s.usage = u /\ s.pendingTool = p /\ F = base \o s.out /\ IsList(F)
  <1>1. PICK v : v = u
    OBVIOUS
  <1> QED
    BY <1>1, GeminiWritesSets

-----------------------------------------------------------------------------
(* What is heard in it                                                     *)

\* A call as a client of Gemini's has it: named twice, and whole.
WholeCall(t) == [id |-> t.name, name |-> t.name, args |-> Serialised(ParsedOr(t.json, "{}"))]
Wholes(tools) == [i \in DOMAIN tools |-> WholeCall(tools[i])]
GeminiReader(text, tools, stop) == Reader(<<>>, text, tools, <<>>, stop)

\* Gemini's whole calls, one more.
LEMMA WholesAppend ==
    ASSUME NEW tools \in Seq(Tools), NEW c
    PROVE  Wholes(Append(tools, c)) = Append(Wholes(tools), WholeCall(c))
  <1>1. PICK n, us, d : n = Len(tools) /\ us = Append(tools, c) /\ d = WholeCall(c)
    OBVIOUS
  <1>3. IsList(us) /\ n \in Nat /\ Len(us) = n + 1 /\ us[n + 1] = c /\ \A i \in 1..n : us[i] = tools[i]
    BY <1>1, SeqIsList, ListAppend, ListFacts
  <1>4. DOMAIN us = 1..(n + 1) /\ DOMAIN tools = 1..n
    BY <1>1, <1>3, ListFacts
  <1>5. PICK r, s : r = Wholes(tools) /\ s = Wholes(us)
    OBVIOUS
  <1>6. r = [i \in 1..n |-> WholeCall(tools[i])]
    BY <1>4, <1>5 DEF Wholes
  <1>7. s = [i \in 1..(n + 1) |-> WholeCall(us[i])]
    BY <1>4, <1>5 DEF Wholes
  <1>8. IsList(r) /\ Len(r) = n
    <2>1. r = [i \in 1..n |-> r[i]]
      BY <1>6
    <2> QED
      BY <1>3, <2>1, ListMake
  <1>9. IsList(s) /\ Len(s) = n + 1
    <2>1. s = [i \in 1..(n + 1) |-> s[i]] /\ n + 1 \in Nat
      BY <1>3, <1>7
    <2> QED
      BY <2>1, ListMake
  <1>10. PICK v : v = Append(r, d)
    OBVIOUS
  <1>11. IsList(v) /\ Len(v) = n + 1 /\ v[n + 1] = d /\ \A i \in 1..n : v[i] = r[i]
    BY <1>8, <1>10, ListAppend
  <1>12. ASSUME NEW i \in 1..(n + 1) PROVE s[i] = v[i]
    <2>1. CASE i = n + 1
      BY <1>1, <1>3, <1>7, <1>11, <2>1
    <2>2. CASE i # n + 1
      <3>1. i \in 1..n
        BY <1>3, <2>2
      <3> QED
        BY <1>3, <1>6, <1>7, <1>11, <3>1
    <2> QED
      BY <2>1, <2>2
  <1>13. s = v
    BY <1>9, <1>11, <1>12, ListSame
  <1> QED
    BY <1>1, <1>5, <1>10, <1>13

\* A text, a call, and the end, each in a frame of its own.
LEMMA GeminiHearsText ==
    ASSUME NEW text, NEW tools, NEW x, NEW f, f = Parts(<<[type |-> "text", text |-> x]>>)
    PROVE  /\ f.finish = <<>>
           /\ Hear("gemini", GeminiReader(text, tools, "none"), f) = GeminiReader(text \o x, tools, "none")
  <1>1. PICK z, p, ps : z = <<>> /\ p = [type |-> "text", text |-> x] /\ ps = <<p>>
    OBVIOUS
  <1>2. f = [kind |-> "chunk", parts |-> ps, finish |-> z, usage |-> z]
    BY <1>1 DEF Parts
  <1>3. f.parts = ps /\ f.finish = z /\ ps # <<>> /\ ps[1] = p /\ p.type = "text" /\ p.text = x
    BY <1>1, <1>2
  <1>4. PICK g, y : g = GeminiReader(text, tools, "none") /\ y = text \o x
    OBVIOUS
  <1>5. g = [thinking |-> z, text |-> text, tools |-> tools, blocks |-> z, stop |-> "none"]
    BY <1>1, <1>4 DEF GeminiReader, Reader
  <1>6. [g EXCEPT !.text = y] = [thinking |-> z, text |-> y, tools |-> tools, blocks |-> z, stop |-> "none"]
    BY <1>5
  <1>7. g.text = text
    BY <1>5
  <1>8. HearGemini(g, f) = [g EXCEPT !.text = y]
    BY <1>1, <1>3, <1>4, <1>7 DEF HearGemini
  <1>9. GeminiReader(y, tools, "none") = [thinking |-> z, text |-> y, tools |-> tools, blocks |-> z, stop |-> "none"]
    BY <1>1 DEF GeminiReader, Reader
  <1> QED
    BY <1>1, <1>3, <1>4, <1>6, <1>8, <1>9 DEF Hear

CallPart(name, json) == <<[type |-> "functionCall", name |-> name, args |-> ParsedOr(json, "{}")]>>

\* A function call is heard whole.
LEMMA GeminiHearsCall ==
    ASSUME NEW text, NEW tools, NEW c, NEW f, f = Parts(CallPart(c.name, c.json))
    PROVE  /\ f.finish = <<>>
           /\ Hear("gemini", GeminiReader(text, tools, "none"), f)
                = GeminiReader(text, Append(tools, WholeCall(c)), "none")
  <1>0. PICK m, a, j : m = c.name /\ a = ParsedOr(c.json, "{}") /\ j = Serialised(a)
    OBVIOUS
  <1>1. PICK z, p, ps : z = <<>> /\ p = [type |-> "functionCall", name |-> m, args |-> a] /\ ps = <<p>>
    OBVIOUS
  <1>2. f = [kind |-> "chunk", parts |-> ps, finish |-> z, usage |-> z]
    BY <1>0, <1>1 DEF Parts, CallPart
  <1>12. f.parts = ps /\ f.finish = z
    BY <1>2
  <1>13. p.type = "functionCall" /\ p.name = m /\ p.args = a
    BY <1>1
  <1>14. ps # <<>> /\ ps[1] = p
    BY <1>1
  <1>3. /\ f.parts = ps /\ f.finish = z /\ ps # <<>> /\ ps[1] = p
        /\ p.type = "functionCall" /\ p.name = m /\ p.args = a
    BY <1>12, <1>13, <1>14
  <1>10. PICK w : w = [id |-> m, name |-> m, args |-> j]
    OBVIOUS
  <1>11. WholeCall(c) = w
    BY <1>0, <1>10 DEF WholeCall
  <1>15. PICK g : g = GeminiReader(text, tools, "none")
    OBVIOUS
  <1>5. g = [thinking |-> z, text |-> text, tools |-> tools, blocks |-> z, stop |-> "none"]
    BY <1>1, <1>15 DEF GeminiReader, Reader
  <1>16. \A y : [g EXCEPT !.tools = y] = [thinking |-> z, text |-> text, tools |-> y, blocks |-> z, stop |-> "none"]
    BY <1>5
  <1>17. PICK y : y = Append(tools, w)
    OBVIOUS
  <1>4. g = GeminiReader(text, tools, "none") /\ y = Append(tools, w)
    BY <1>15, <1>17
  <1>6. [g EXCEPT !.tools = y] = [thinking |-> z, text |-> text, tools |-> y, blocks |-> z, stop |-> "none"]
    BY <1>16
  <1>7. g.tools = tools
    BY <1>5
  <1>8. HearGemini(g, f) = [g EXCEPT !.tools = y]
    <2>1. [g EXCEPT !.tools = Append(@, [id |-> f.parts[1].name, name |-> f.parts[1].name,
                                         args |-> Serialised(f.parts[1].args)])] = [g EXCEPT !.tools = y]
      BY <1>0, <1>3, <1>4, <1>7, <1>10
    <2> QED
      BY <1>1, <1>3, <2>1 DEF HearGemini
  <1>9. GeminiReader(text, y, "none") = [thinking |-> z, text |-> text, tools |-> y, blocks |-> z, stop |-> "none"]
    BY <1>1 DEF GeminiReader, Reader
  <1> QED
    BY <1>1, <1>3, <1>4, <1>6, <1>8, <1>9, <1>11 DEF Hear

EndFrame(stop, u) == [Parts(<<>>) EXCEPT !.finish = <<stop>>, !.usage = u]

\* The frame of the end is heard as the end.
LEMMA GeminiHearsEnd ==
    ASSUME NEW text, NEW tools, NEW stop, NEW u, NEW f, f = EndFrame(stop, u)
    PROVE  /\ f.finish # <<>>
           /\ Hear("gemini", GeminiReader(text, tools, "none"), f)
                = GeminiReader(text, tools, GeminiFinishToStop(stop, tools # <<>>))
  <1>1. PICK z, v : z = <<>> /\ v = <<stop>>
    OBVIOUS
  <1>2. PICK q, r : q = Parts(z) /\ r = [q EXCEPT !.finish = v]
    OBVIOUS
  <1>3. q = [kind |-> "chunk", parts |-> z, finish |-> z, usage |-> z]
    BY <1>1, <1>2 DEF Parts
  <1>4. r = [kind |-> "chunk", parts |-> z, finish |-> v, usage |-> z]
    BY <1>2, <1>3
  <1>5. [r EXCEPT !.usage = u] = [kind |-> "chunk", parts |-> z, finish |-> v, usage |-> u]
    BY <1>4
  <1>6. f = [r EXCEPT !.usage = u]
    <2>1. f = [q EXCEPT !.finish = v, !.usage = u]
      BY <1>1, <1>2, Zenon DEF EndFrame
    <2> QED
      BY <1>2, <1>3, <2>1
  <1>7. f.parts = z /\ f.finish = v /\ v # <<>> /\ v[1] = stop
    BY <1>1, <1>5, <1>6
  <1>8. PICK g, y : g = GeminiReader(text, tools, "none") /\ y = GeminiFinishToStop(stop, tools # <<>>)
    OBVIOUS
  <1>9. g = [thinking |-> z, text |-> text, tools |-> tools, blocks |-> z, stop |-> "none"]
    BY <1>1, <1>8 DEF GeminiReader, Reader
  <1>10. [g EXCEPT !.stop = y] = [thinking |-> z, text |-> text, tools |-> tools, blocks |-> z, stop |-> y]
    BY <1>9
  <1>11. g.tools = tools
    BY <1>9
  <1>12. HearGemini(g, f) = [g EXCEPT !.stop = y]
    BY <1>1, <1>7, <1>8, <1>11 DEF HearGemini
  <1>13. GeminiReader(text, tools, y) = [thinking |-> z, text |-> text, tools |-> tools, blocks |-> z, stop |-> y]
    BY <1>1 DEF GeminiReader, Reader
  <1> QED
    BY <1>7, <1>8, <1>10, <1>12, <1>13 DEF Hear

\* No frame has told the end.
GeminiOpen(F) == \A i \in 1..Len(F) : Nil(F[i].finish)

\* The call that waits to be whole is the last one.
Pending(c) == <<[name |-> c.name, args |-> c.json]>>
GeminiHolds(p, front, tools) ==
  \/ Nil(p) /\ Nil(tools) /\ front = tools
  \/ \E c \in Tools : p = Pending(c) /\ tools = Append(front, c)

GeminiLive(base, s, a) ==
  \E u, p, F, front :
    /\ GeminiWrites(base, s, u, p, F) /\ GeminiOpen(F)
    /\ front \in Seq(Tools) /\ GeminiHolds(p, front, a.tools)
    /\ Heard("gemini", F) = GeminiReader(a.text, Wholes(front), "none")

\* Every call has been told, and then the end.
GeminiStop(a) == GeminiFinishToStop(StopToGeminiFinish(a.stop[1]), Wholes(a.tools) # <<>>)
GeminiTold(base, s, a, F) ==
  /\ \E u : GeminiWrites(base, s, u, <<>>, F)
  /\ Heard("gemini", F) = GeminiReader(a.text, Wholes(a.tools), "none")
  /\ GeminiOpen(F)
GeminiOver(base, s, a) ==
  \E u, p, F : /\ GeminiWrites(base, s, u, p, F) /\ GeminiFormed(F)
               /\ Heard("gemini", F) = GeminiReader(a.text, Wholes(a.tools), GeminiStop(a))

\* A frame more.
LEMMA GeminiNext ==
    ASSUME NEW F, IsList(F), GeminiOpen(F), NEW f
    PROVE  /\ Nil(f.finish) => GeminiOpen(Append(F, f))
           /\ GeminiFormed(Append(F, f))
  <1>1. PICK G, n : G = Append(F, f) /\ n = Len(F)
    OBVIOUS
  <1>2. n \in Nat /\ Len(G) = n + 1 /\ DOMAIN G = 1..(n + 1) /\ G[n + 1] = f /\ \A i \in 1..n : G[i] = F[i]
    BY <1>1, ListAppend, ListFacts
  <1>3. \A i \in 1..(n + 1) : i = n + 1 \/ Nil(G[i].finish)
    BY <1>1, <1>2 DEF GeminiOpen
  <1>4. Nil(f.finish) => GeminiOpen(G)
    BY <1>2, <1>3 DEF GeminiOpen
  <1>5. GeminiFormed(G)
    BY <1>2, <1>3 DEF GeminiFormed, Nil
  <1> QED
    BY <1>1, <1>4, <1>5

\* The call that waits goes out whole.
LEMMA GeminiFlushesCall ==
    ASSUME NEW base, NEW s, NEW a, GeminiLive(base, s, a), NEW t, t = FlushTool(s)
    PROVE  \E F : GeminiTold(base, t, a, F)
  <1>1. PICK u, p, F, front :
          /\ GeminiWrites(base, s, u, p, F) /\ GeminiOpen(F)
          /\ front \in Seq(Tools) /\ GeminiHolds(p, front, a.tools)
          /\ Heard("gemini", F) = GeminiReader(a.text, Wholes(front), "none")
    BY DEF GeminiLive
  <1>2. s.pendingTool = p /\ IsList(F)
    BY <1>1, GeminiWritesSets
  <1>3. CASE Nil(p) /\ Nil(a.tools) /\ front = a.tools
    <2>1. t = s /\ p = <<>>
      BY <1>2, <1>3 DEF FlushTool, Nil
    <2> QED
      BY <1>1, <1>3, <2>1 DEF GeminiTold
  <1>4. CASE \E c \in Tools : p = Pending(c) /\ a.tools = Append(front, c)
    <2>1. PICK c \in Tools : p = Pending(c) /\ a.tools = Append(front, c)
      BY <1>4
    <2>2. p # <<>> /\ p[1].name = c.name /\ p[1].args = c.json
      BY <2>1 DEF Pending
    <2>3. PICK z, f : z = <<>> /\ f = Parts(CallPart(c.name, c.json))
      OBVIOUS
    <2>4. t = Put(SetHolding(s, z), f)
      <3>1. t = Put([s EXCEPT !.pendingTool = <<>>],
                    Parts(<<[type |-> "functionCall", name |-> s.pendingTool[1].name,
                             args |-> ParsedOr(s.pendingTool[1].args, "{}")]>>))
        BY <1>2, <2>2 DEF FlushTool
      <3>2. s.pendingTool[1].name = c.name /\ s.pendingTool[1].args = c.json
        BY <1>2, <2>2
      <3>3. f = Parts(<<[type |-> "functionCall", name |-> s.pendingTool[1].name,
                         args |-> ParsedOr(s.pendingTool[1].args, "{}")]>>)
        BY <2>3, <3>2 DEF CallPart
      <3>4. SetHolding(s, z) = [s EXCEPT !.pendingTool = <<>>]
        BY <2>3, Zenon DEF SetHolding
      <3> QED
        BY <3>1, <3>3, <3>4, Zenon
    <2>5. GeminiWrites(base, SetHolding(s, z), u, z, F)
      BY <1>1, GeminiWritesSets
    <2>6. GeminiWrites(base, t, u, z, Append(F, f))
      BY <2>4, <2>5, GeminiWritesSets
    <2>7. Heard("gemini", Append(F, f)) = Hear("gemini", Heard("gemini", F), f)
      BY <1>2, HearAppend
    <2>8. PICK w : w = Wholes(front)
      OBVIOUS
    <2>9. /\ f.finish = <<>>
          /\ Hear("gemini", GeminiReader(a.text, w, "none"), f)
               = GeminiReader(a.text, Append(w, WholeCall(c)), "none")
      BY <2>3, GeminiHearsCall
    <2>10. Wholes(a.tools) = Append(w, WholeCall(c))
      BY <1>1, <2>1, <2>8, WholesAppend
    <2>11. GeminiOpen(Append(F, f))
      BY <1>1, <1>2, <2>9, GeminiNext DEF Nil
    <2>12. Heard("gemini", Append(F, f)) = GeminiReader(a.text, Wholes(a.tools), "none")
      BY <1>1, <2>7, <2>8, <2>9, <2>10
    <2> QED
      BY <2>3, <2>6, <2>11, <2>12 DEF GeminiTold
  <1> QED
    BY <1>1, <1>3, <1>4 DEF GeminiHolds

\* A call begins: the one before it goes out, and this one waits.
LEMMA GeminiBegins ==
    ASSUME NEW base, NEW s, NEW a \in Aggregators, GeminiLive(base, s, a), NEW c \in Tools,
           NEW b, b.text = a.text, b.tools = Append(a.tools, c)
    PROVE  GeminiLive(base, SetHolding(FlushTool(s), Pending(c)), b)
  <1>1. PICK t, p : t = FlushTool(s) /\ p = Pending(c)
    OBVIOUS
  <1>2. PICK F : GeminiTold(base, t, a, F)
    BY <1>1, GeminiFlushesCall
  <1>3. PICK u : GeminiWrites(base, t, u, <<>>, F)
    BY <1>2 DEF GeminiTold
  <1>4. GeminiWrites(base, SetHolding(t, p), u, p, F)
    BY <1>3, GeminiWritesSets
  <1>5. a.tools \in Seq(Tools)
    BY DEF Aggregators
  <1>6. GeminiHolds(p, a.tools, b.tools)
    BY <1>1 DEF GeminiHolds
  <1> QED
    BY <1>1, <1>2, <1>4, <1>5, <1>6 DEF GeminiLive, GeminiTold

\* The end goes out, after the last call.
LEMMA GeminiEnds ==
    ASSUME NEW base, NEW s, NEW a, GeminiLive(base, s, a), NEW stop, NEW v, NEW f,
           f = EndFrame(StopToGeminiFinish(stop), v),
           NEW b, b.text = a.text, b.tools = a.tools, b.stop = <<stop>>
    PROVE  GeminiOver(base, Put(FlushTool(s), f), b)
  <1>1. PICK t, w : t = FlushTool(s) /\ w = Wholes(a.tools)
    OBVIOUS
  <1>2. PICK F : GeminiTold(base, t, a, F)
    BY <1>1, GeminiFlushesCall
  <1>3. PICK u : GeminiWrites(base, t, u, <<>>, F)
    BY <1>2 DEF GeminiTold
  <1>4. GeminiWrites(base, Put(t, f), u, <<>>, Append(F, f)) /\ IsList(F)
    BY <1>3, GeminiWritesSets
  <1>5. Heard("gemini", Append(F, f)) = Hear("gemini", Heard("gemini", F), f)
    BY <1>4, HearAppend
  <1>6. Hear("gemini", GeminiReader(a.text, w, "none"), f)
          = GeminiReader(a.text, w, GeminiFinishToStop(StopToGeminiFinish(stop), w # <<>>))
    BY GeminiHearsEnd
  <1>7. GeminiStop(b) = GeminiFinishToStop(StopToGeminiFinish(stop), w # <<>>)
    <2>1. PICK k : k = b.stop
      OBVIOUS
    <2>2. k[1] = stop
      BY <2>1
    <2> QED
      BY <1>1, <2>1, <2>2 DEF GeminiStop
  <1>8. GeminiFormed(Append(F, f))
    BY <1>2, <1>4, GeminiNext DEF GeminiTold
  <1>9. Heard("gemini", F) = GeminiReader(a.text, w, "none")
    BY <1>1, <1>2 DEF GeminiTold
  <1>10. Heard("gemini", Append(F, f)) = GeminiReader(b.text, Wholes(b.tools), GeminiStop(b))
    BY <1>1, <1>5, <1>6, <1>7, <1>9
  <1> QED
    BY <1>1, <1>4, <1>8, <1>10 DEF GeminiOver

\* A text goes out as it comes.
LEMMA GeminiSays ==
    ASSUME NEW base, NEW s, NEW a, GeminiLive(base, s, a), NEW x,
           NEW f, f = Parts(<<[type |-> "text", text |-> x]>>),
           NEW b, b.text = a.text \o x, b.tools = a.tools
    PROVE  GeminiLive(base, Put(s, f), b)
  <1>1. PICK u, p, F, front :
          /\ GeminiWrites(base, s, u, p, F) /\ GeminiOpen(F)
          /\ front \in Seq(Tools) /\ GeminiHolds(p, front, a.tools)
          /\ Heard("gemini", F) = GeminiReader(a.text, Wholes(front), "none")
    BY DEF GeminiLive
  <1>2. IsList(F) /\ GeminiWrites(base, Put(s, f), u, p, Append(F, f))
    BY <1>1, GeminiWritesSets
  <1>3. Heard("gemini", Append(F, f)) = Hear("gemini", Heard("gemini", F), f)
    BY <1>2, HearAppend
  <1>4. PICK w : w = Wholes(front)
    OBVIOUS
  <1>5. Nil(f.finish) /\ Hear("gemini", GeminiReader(a.text, w, "none"), f) = GeminiReader(b.text, w, "none")
    BY GeminiHearsText DEF Nil
  <1>6. GeminiOpen(Append(F, f))
    BY <1>1, <1>2, <1>5, GeminiNext
  <1>7. Heard("gemini", Append(F, f)) = GeminiReader(b.text, Wholes(front), "none")
    BY <1>1, <1>3, <1>4, <1>5
  <1> QED
    BY <1>1, <1>2, <1>6, <1>7 DEF GeminiLive

\* More of the last call, for the aggregator and in the call that waits.
LEMMA LastOfAppend ==
    ASSUME NEW front \in Seq(Tools), NEW c \in Tools, NEW x \in Seq(Strings)
    PROVE  \E d \in Tools : /\ AppendToLast(Append(front, c), x) = Append(front, d)
                            /\ d.name = c.name /\ d.json = c.json \o x
  <1>1. PICK j, i, m, w : j = c.json \o x /\ i = c.id /\ m = c.name /\ w = c.json
    OBVIOUS
  <1>2. j \in Seq(Strings) /\ i \in Strings /\ m \in Strings
    BY <1>1 DEF Tools
  <1>3. PICK d : d = [id |-> i, name |-> m, json |-> j]
    OBVIOUS
  <1>4. d \in Tools
    BY <1>2, <1>3 DEF Tools
  <1>5. PICK n, us : n = Len(front) /\ us = Append(front, c)
    OBVIOUS
  <1>6. /\ IsList(front) /\ IsList(us) /\ n \in Nat /\ Len(us) = n + 1 /\ us[n + 1] = c
        /\ \A k \in 1..n : us[k] = front[k]
    BY <1>5, SeqIsList, ListAppend, ListFacts
  <1>7. us # <<>>
    BY <1>6, ListEmpty
  <1>8. c = [id |-> i, name |-> m, json |-> w]
    BY <1>1 DEF Tools
  <1>9. [c EXCEPT !.json = j] = d
    BY <1>3, <1>8
  <1>10. AppendToLast(us, x) = [us EXCEPT ![n + 1].json = @ \o x]
    BY <1>6, <1>7 DEF AppendToLast
  <1>11. DOMAIN us = 1..(n + 1)
    BY <1>6, ListFacts
  <1>12. us[n + 1].json \o x = j
    BY <1>1, <1>6
  <1>13. [us EXCEPT ![n + 1].json = @ \o x] = [us EXCEPT ![n + 1] = d]
    BY <1>6, <1>9, <1>11, <1>12
  <1>14. PICK v, y : v = [us EXCEPT ![n + 1] = d] /\ y = Append(front, d)
    OBVIOUS
  <1>15. v = [k \in 1..(n + 1) |-> IF k = n + 1 THEN d ELSE us[k]]
    BY <1>6, <1>11, <1>14
  <1>16. IsList(v) /\ Len(v) = n + 1
    <2>1. v = [k \in 1..(n + 1) |-> v[k]] /\ n + 1 \in Nat
      BY <1>6, <1>15
    <2> QED
      BY <2>1, ListMake
  <1>17. IsList(y) /\ Len(y) = n + 1 /\ y[n + 1] = d /\ \A k \in 1..n : y[k] = front[k]
    BY <1>5, <1>6, <1>14, ListAppend
  <1>18. \A k \in 1..(n + 1) : v[k] = y[k]
    BY <1>6, <1>15, <1>17
  <1>19. v = y
    BY <1>16, <1>17, <1>18, ListSame
  <1>20. d.name = m /\ d.json = j
    BY <1>3
  <1> QED
    BY <1>1, <1>4, <1>5, <1>10, <1>13, <1>14, <1>19, <1>20

FillPending(s, x) == IF s.pendingTool = <<>> THEN s ELSE [s EXCEPT !.pendingTool[1].args = @ \o x]

\* Arguments are kept until the call is whole.
LEMMA GeminiFills ==
    ASSUME NEW base, NEW s, NEW a \in Aggregators, GeminiLive(base, s, a), NEW x \in Seq(Strings),
           NEW t, t = FillPending(s, x),
           NEW b, b.text = a.text, b.tools = AppendToLast(a.tools, x)
    PROVE  GeminiLive(base, t, b)
  <1>1. PICK u, p, F, front :
          /\ GeminiWrites(base, s, u, p, F) /\ GeminiOpen(F)
          /\ front \in Seq(Tools) /\ GeminiHolds(p, front, a.tools)
          /\ Heard("gemini", F) = GeminiReader(a.text, Wholes(front), "none")
    BY DEF GeminiLive
  <1>2. s.pendingTool = p
    BY <1>1, GeminiWritesSets
  <1>3. CASE Nil(p) /\ Nil(a.tools) /\ front = a.tools
    <2>1. t = s
      BY <1>2, <1>3 DEF Nil, FillPending
    <2>2. b.tools = a.tools
      BY <1>3 DEF Nil, AppendToLast
    <2> QED
      BY <1>1, <2>1, <2>2 DEF GeminiLive
  <1>4. CASE \E c \in Tools : p = Pending(c) /\ a.tools = Append(front, c)
    <2>1. PICK c \in Tools : p = Pending(c) /\ a.tools = Append(front, c)
      BY <1>4
    <2>2. PICK d \in Tools : /\ AppendToLast(Append(front, c), x) = Append(front, d)
                             /\ d.name = c.name /\ d.json = c.json \o x
      BY <1>1, LastOfAppend
    <2>3. PICK m, w, j : m = c.name /\ w = c.json /\ j = d.json
      OBVIOUS
    <2>4. PICK r, v : r = [name |-> m, args |-> w] /\ v = [name |-> m, args |-> j]
      OBVIOUS
    <2>5. p = <<r>> /\ Pending(d) = <<v>>
      BY <2>1, <2>2, <2>3, <2>4 DEF Pending
    <2>6. [r EXCEPT !.args = j] = v /\ r.args = w
      BY <2>4
    <2>7. p # <<>> /\ p[1] = r /\ DOMAIN p = 1..1
      BY <2>5
    <2>8. p[1].args \o x = j
      BY <2>2, <2>3, <2>6, <2>7
    <2>9. [p EXCEPT ![1].args = @ \o x] = [p EXCEPT ![1] = v]
      BY <2>6, <2>7, <2>8
    <2>10. [p EXCEPT ![1] = v] = Pending(d)
      BY <2>5
    <2>11. PICK q : q = [p EXCEPT ![1].args = @ \o x]
      OBVIOUS
    <2>12. t = SetHolding(s, q)
      <3>1. t = [s EXCEPT !.pendingTool[1].args = @ \o x]
        BY <1>2, <2>7 DEF FillPending
      <3>2. [s EXCEPT !.pendingTool[1].args = @ \o x] = [s EXCEPT !.pendingTool = q]
        <4>1. PICK out : s = GeminiState(u, p, out)
          BY <1>1 DEF GeminiWrites
        <4>2. s = [usage |-> u, pendingTool |-> p, out |-> out]
          BY <4>1 DEF GeminiState
        <4> QED
          BY <1>2, <2>11, <4>2
      <3> QED
        BY <3>1, <3>2 DEF SetHolding
    <2>13. GeminiWrites(base, t, u, q, F)
      BY <1>1, <2>12, GeminiWritesSets
    <2>14. q = Pending(d) /\ b.tools = Append(front, d)
      BY <2>1, <2>2, <2>9, <2>10, <2>11
    <2> QED
      BY <1>1, <2>13, <2>14 DEF GeminiLive, GeminiHolds
  <1> QED
    BY <1>1, <1>3, <1>4 DEF GeminiHolds

\* What a client hears has no usage in it.
LEMMA GeminiCounts ==
    ASSUME NEW base, NEW s, NEW a, NEW v, NEW b, b.text = a.text, b.tools = a.tools, b.stop = a.stop
    PROVE  /\ GeminiLive(base, s, a) => GeminiLive(base, SetSeen(s, v), b) /\ GeminiLive(base, s, b)
           /\ GeminiOver(base, s, a) => GeminiOver(base, SetSeen(s, v), b)
  <1>1. ASSUME GeminiLive(base, s, a)
        PROVE  GeminiLive(base, SetSeen(s, v), b) /\ GeminiLive(base, s, b)
    <2>1. PICK u, p, F, front :
          /\ GeminiWrites(base, s, u, p, F) /\ GeminiOpen(F)
          /\ front \in Seq(Tools) /\ GeminiHolds(p, front, a.tools)
          /\ Heard("gemini", F) = GeminiReader(a.text, Wholes(front), "none")
      BY <1>1 DEF GeminiLive
    <2>2. GeminiWrites(base, SetSeen(s, v), v, p, F)
      BY <2>1, GeminiWritesSets
    <2> QED
      BY <2>1, <2>2 DEF GeminiLive
  <1>2. ASSUME GeminiOver(base, s, a) PROVE GeminiOver(base, SetSeen(s, v), b)
    <2>1. PICK u, p, F :
               /\ GeminiWrites(base, s, u, p, F) /\ GeminiFormed(F)
               /\ Heard("gemini", F) = GeminiReader(a.text, Wholes(a.tools), GeminiStop(a))
      BY <1>2 DEF GeminiOver
    <2>2. GeminiWrites(base, SetSeen(s, v), v, p, F)
      BY <2>1, GeminiWritesSets
    <2>3. GeminiStop(b) = GeminiStop(a)
      BY DEF GeminiStop
    <2> QED
      BY <2>1, <2>2, <2>3 DEF GeminiOver
  <1> QED
    BY <1>1, <1>2

\* What an event changes in what was said.
LEMMA PushSaid ==
    ASSUME NEW a \in Aggregators, NEW e, e.ev = "text_delta", NEW b, b = Push(a, e)
    PROVE  b.text = a.text \o e.text /\ b.tools = a.tools /\ b.thinking = a.thinking /\ b.stop = a.stop
  <1>1. PICK x : x = a.text \o e.text
    OBVIOUS
  <1>2. b = [a EXCEPT !.text = x]
    BY <1>1 DEF Push
  <1> QED
    BY <1>1, <1>2 DEF Aggregators

\* A delta of thought, aggregated.
LEMMA PushThought ==
    ASSUME NEW a \in Aggregators, NEW e, e.ev = "thinking_delta", NEW b, b = Push(a, e)
    PROVE  b.text = a.text /\ b.tools = a.tools /\ b.thinking = a.thinking \o e.text /\ b.stop = a.stop
  <1>1. PICK x : x = a.thinking \o e.text
    OBVIOUS
  <1>2. b = [a EXCEPT !.thinking = x]
    BY <1>1 DEF Push
  <1> QED
    BY <1>1, <1>2 DEF Aggregators

\* A call that starts, aggregated.
LEMMA PushCall ==
    ASSUME NEW a \in Aggregators, NEW e, e.ev = "tool_use_start", NEW c, c = [id |-> e.id, name |-> e.name, json |-> <<>>],
           NEW b, b = Push(a, e)
    PROVE  b.text = a.text /\ b.tools = Append(a.tools, c)
  <1>1. PICK x : x = Append(a.tools, c)
    OBVIOUS
  <1>2. b = [a EXCEPT !.tools = x]
    BY <1>1 DEF Push
  <1>3. b.tools = x /\ b.text = a.text
    BY <1>2 DEF Aggregators
  <1> QED
    BY <1>1, <1>3

\* Arguments, aggregated.
LEMMA PushMore ==
    ASSUME NEW a \in Aggregators, NEW e, e.ev = "tool_use_delta", NEW b, b = Push(a, e)
    PROVE  b.text = a.text /\ b.tools = AppendToLast(a.tools, e.json)
  <1>1. PICK x : x = AppendToLast(a.tools, e.json)
    OBVIOUS
  <1>2. b = [a EXCEPT !.tools = x]
    BY <1>1 DEF Push
  <1>3. b.tools = x /\ b.text = a.text
    BY <1>2 DEF Aggregators
  <1> QED
    BY <1>1, <1>3

\* The end, aggregated.
LEMMA PushDone ==
    ASSUME NEW a \in Aggregators, NEW e, e.ev = "done", NEW b, b = Push(a, e)
    PROVE  b.text = a.text /\ b.tools = a.tools /\ b.thinking = a.thinking /\ b.usage = a.usage /\ b.stop = <<e.stop>>
  <1>1. PICK x : x = <<e.stop>>
    OBVIOUS
  <1>2. b = [a EXCEPT !.stop = x]
    BY <1>1 DEF Push
  <1>3. b.stop = x /\ b.text = a.text /\ b.tools = a.tools /\ b.thinking = a.thinking /\ b.usage = a.usage
    BY <1>2 DEF Aggregators
  <1> QED
    BY <1>1, <1>3

GeminiKeeps(base, s, w) ==
  IF w.stage = "over" THEN GeminiOver(base, s, w.agg) ELSE GeminiLive(base, s, w.agg)

\* Whatever legal event comes, the Gemini encoder keeps its invariant.
LEMMA GeminiSteps ==
    ASSUME NEW base, NEW s, NEW w \in Points, GeminiKeeps(base, s, w), NEW e, Legal(w, e)
    PROVE  GeminiKeeps(base, EncodeGemini(s, e), After(w, e))
  <1>1. e \in Events /\ w.agg \in Aggregators /\ w.stage \in Stages
    BY DEF Legal, Points
  <1>2. PICK a, b, st, x, t : /\ a = w.agg /\ b = Push(a, e) /\ st = StageAfter(w.stage, e)
                              /\ x = After(w, e) /\ t = EncodeGemini(s, e)
    OBVIOUS
  <1>3. x.stage = st /\ x.agg = b
    BY <1>2 DEF After
  <1>4. SUFFICES GeminiKeeps(base, t, x)
    BY <1>2
  <1>5. a \in Aggregators
    BY <1>1, <1>2
  <1>6. CASE e.ev = "usage_delta"
    <2>1. st = w.stage
      BY <1>2, <1>6 DEF StageAfter
    <2>2. b.text = a.text /\ b.tools = a.tools /\ b.stop = a.stop
      BY <1>1, <1>2, <1>5, <1>6, PushQuiet
    <2>3. PICK v : v = MergeOption(s.usage, e.usage)
      OBVIOUS
    <2>4. t = SetSeen(s, v)
      <3>1. t = [s EXCEPT !.usage = MergeOption(@, e.usage)]
        BY <1>2, <1>6 DEF EncodeGemini
      <3> QED
        BY <2>3, <3>1, Zenon DEF SetSeen
    <2> QED
      BY <1>2, <1>3, <2>1, <2>2, <2>4, GeminiCounts DEF GeminiKeeps
  <1>7. ASSUME e.ev # "usage_delta" PROVE GeminiLive(base, s, a)
    <2>1. w.stage # "over"
      BY <1>1, <1>7 DEF Legal, Events
    <2> QED
      BY <1>2, <2>1 DEF GeminiKeeps
  <1>8. CASE e.ev \in {"message_start", "thinking_delta"}
    <2>1. t = s /\ st # "over"
      BY <1>2, <1>8 DEF EncodeGemini, StageAfter
    <2>2. b.text = a.text /\ b.tools = a.tools /\ b.stop = a.stop
      <3>1. CASE e.ev = "message_start"
        BY <1>2, <1>5, <3>1 DEF Push
      <3>2. CASE e.ev = "thinking_delta"
        <4>1. b.text = a.text /\ b.tools = a.tools /\ b.thinking = a.thinking \o e.text /\ b.stop = a.stop
          <5>1. b = Push(a, e)
            BY <1>2
          <5> QED
            BY <1>5, <3>2, <5>1, PushThought
        <4> QED
          BY <4>1
      <3> QED
        BY <1>8, <3>1, <3>2
    <2>3. GeminiLive(base, s, b)
      BY <1>7, <1>8, <2>2, GeminiCounts
    <2> QED
      BY <1>3, <2>1, <2>3 DEF GeminiKeeps
  <1>9. CASE e.ev = "text_delta"
    <2>1. PICK f : f = Parts(<<[type |-> "text", text |-> e.text]>>)
      OBVIOUS
    <2>2. t = Put(s, f) /\ st # "over"
      BY <1>2, <1>9, <2>1 DEF EncodeGemini, StageAfter
    <2>3. b.text = a.text \o e.text /\ b.tools = a.tools
      BY <1>2, <1>5, <1>9, PushSaid
    <2>4. GeminiLive(base, t, b)
      BY <1>7, <1>9, <2>1, <2>2, <2>3, GeminiSays
    <2> QED
      BY <1>3, <2>2, <2>4 DEF GeminiKeeps
  <1>10. CASE e.ev = "tool_use_start"
    <2>1. PICK i, m, z : i = e.id /\ m = e.name /\ z = <<>>
      OBVIOUS
    <2>2. i \in Strings /\ m \in Strings /\ z \in Seq(Strings)
      BY <1>1, <1>10, <2>1 DEF Events
    <2>3. PICK c : c = [id |-> i, name |-> m, json |-> z]
      OBVIOUS
    <2>4. c \in Tools /\ c.name = m /\ c.json = z
      BY <2>2, <2>3 DEF Tools
    <2>5. PICK r, p : r = FlushTool(s) /\ p = Pending(c)
      OBVIOUS
    <2>6. t = SetHolding(r, p) /\ st # "over"
      <3>1. t = [FlushTool(s) EXCEPT !.pendingTool = <<[name |-> e.name, args |-> <<>>]>>]
        BY <1>2, <1>10 DEF EncodeGemini
      <3>2. p = <<[name |-> e.name, args |-> <<>>]>>
        BY <2>1, <2>4, <2>5 DEF Pending
      <3>3. st # "over"
        BY <1>2, <1>10 DEF StageAfter
      <3> QED
        BY <2>5, <3>1, <3>2, <3>3, Zenon DEF SetHolding
    <2>7. b.text = a.text /\ b.tools = Append(a.tools, c)
      BY <1>2, <1>5, <1>10, <2>1, <2>3, PushCall
    <2>8. GeminiLive(base, t, b)
      BY <1>5, <1>7, <1>10, <2>4, <2>5, <2>6, <2>7, GeminiBegins
    <2> QED
      BY <1>3, <2>6, <2>8 DEF GeminiKeeps
  <1>11. CASE e.ev = "tool_use_delta"
    <2>1. e.json \in Seq(Strings)
      BY <1>1, <1>11 DEF Events
    <2>2. t = FillPending(s, e.json) /\ st # "over"
      <3>1. t = IF s.pendingTool = <<>> THEN s ELSE [s EXCEPT !.pendingTool[1].args = @ \o e.json]
        BY <1>2, <1>11 DEF EncodeGemini
      <3>2. st # "over"
        BY <1>2, <1>11 DEF StageAfter
      <3> QED
        BY <3>1, <3>2, Zenon DEF FillPending
    <2>3. b.text = a.text /\ b.tools = AppendToLast(a.tools, e.json)
      BY <1>2, <1>5, <1>11, PushMore
    <2>4. GeminiLive(base, t, b)
      BY <1>5, <1>7, <1>11, <2>1, <2>2, <2>3, GeminiFills
    <2> QED
      BY <1>3, <2>2, <2>4 DEF GeminiKeeps
  <1>12. CASE e.ev = "done"
    <2>1. PICK v, k : /\ v = <<EmitUsageGemini([OrNone(s.usage) EXCEPT !.cached = 0])>>
                      /\ k = StopToGeminiFinish(e.stop)
      OBVIOUS
    <2>2. PICK f, r : f = EndFrame(k, v) /\ r = FlushTool(s)
      OBVIOUS
    <2>3. t = Put(r, f) /\ st = "over"
      <3>1. t = Put(FlushTool(s), [Parts(<<>>) EXCEPT !.finish = <<StopToGeminiFinish(e.stop)>>,
                                       !.usage = <<EmitUsageGemini([OrNone(s.usage) EXCEPT !.cached = 0])>>])
        BY <1>2, <1>12 DEF EncodeGemini
      <3>2. st = "over"
        BY <1>2, <1>12 DEF StageAfter
      <3> QED
        BY <2>1, <2>2, <3>1, <3>2, Zenon DEF EndFrame
    <2>4. b.text = a.text /\ b.tools = a.tools /\ b.stop = <<e.stop>>
      BY <1>2, <1>5, <1>12, PushDone
    <2>5. GeminiOver(base, t, b)
      <3>1. GeminiLive(base, s, a)
        BY <1>7, <1>12
      <3>2. f = EndFrame(StopToGeminiFinish(e.stop), v)
        BY <2>1, <2>2
      <3>3. GeminiOver(base, Put(FlushTool(s), f), b)
        BY <2>4, <3>1, <3>2, GeminiEnds
      <3> QED
        BY <2>2, <2>3, <3>3
    <2> QED
      BY <1>3, <2>3, <2>5 DEF GeminiKeeps
  <1> QED
    BY <1>1, <1>6, <1>8, <1>9, <1>10, <1>11, <1>12 DEF Events

\* Flushing keeps the Gemini encoder's invariant.
LEMMA GeminiFlushes ==
    ASSUME NEW base, NEW s, NEW w, GeminiKeeps(base, s, w)
    PROVE  GeminiKeeps(base \o s.out, Flushed(s), w)
  <1>1. PICK F, t, a : F = base \o s.out /\ t = Flushed(s) /\ a = w.agg
    OBVIOUS
  <1>2. ASSUME NEW u, NEW p, NEW G, GeminiWrites(base, s, u, p, G)
        PROVE  G = F /\ GeminiWrites(F, t, u, p, F)
    <2>1. G = base \o s.out /\ GeminiWrites(G, Flushed(s), u, p, G)
      BY <1>2, GeminiWritesSets
    <2> QED
      BY <1>1, <2>1
  <1>3. GeminiLive(base, s, a) => GeminiLive(F, t, a)
    BY <1>2 DEF GeminiLive
  <1>4. GeminiOver(base, s, a) => GeminiOver(F, t, a)
    BY <1>2 DEF GeminiOver
  <1> QED
    BY <1>1, <1>3, <1>4 DEF GeminiKeeps

\* A new Gemini encoder has written nothing.
LEMMA GeminiNew ==
    ASSUME NEW w, w = Outset
    PROVE  GeminiKeeps(<<>>, NewGemini, w) /\ NewGemini.out = <<>> /\ Flushed(NewGemini) = NewGemini
  <1>1. PICK z, s, a : z = <<>> /\ s = NewGemini /\ a = w.agg
    OBVIOUS
  <1>2. IsList(z) /\ Len(z) = 0
    BY <1>1, ListEmpty
  <1>3. s = [usage |-> z, pendingTool |-> z, out |-> z]
    BY <1>1 DEF NewGemini
  <1>4. s.out = z /\ Flushed(s) = s
    <2>1. s.out = z
      BY <1>3
    <2>2. [s EXCEPT !.out = z] = s
      BY <1>3
    <2> QED
      BY <1>1, <2>1, <2>2 DEF Flushed
  <1>5. w.stage = "none"
    BY DEF Outset
  <1>6. a = NewAggregator
    BY <1>1 DEF Outset
  <1>7. a.text = z /\ a.tools = z
    BY <1>1, <1>6 DEF NewAggregator
  <1>8. GeminiWrites(z, s, z, z, z)
    <2>1. z \o z = z
      BY <1>1, <1>2, ConcatNil
    <2> QED
      BY <1>2, <1>3, <2>1 DEF GeminiWrites, GeminiState
  <1>9. Wholes(z) = z
    <2>1. PICK r : r = Wholes(z)
      OBVIOUS
    <2>2. DOMAIN z = 1..0
      BY <1>1
    <2>3. r = [i \in 1..0 |-> r[i]]
      BY <2>1, <2>2 DEF Wholes
    <2>4. IsList(r) /\ Len(r) = 0
      BY <2>3, ListMake
    <2> QED
      BY <1>1, <2>1, <2>4, ListNil
  <1>10. Heard("gemini", z) = GeminiReader(z, z, "none")
    BY <1>1, HearNone DEF GeminiReader, Reader, NewReader
  <1>11. GeminiOpen(z)
    BY <1>2 DEF GeminiOpen
  <1>12. z \in Seq(Tools)
    BY <1>1
  <1>13. GeminiHolds(z, z, z)
    BY <1>1 DEF GeminiHolds, Nil
  <1>14. GeminiLive(z, s, a)
    BY <1>7, <1>8, <1>9, <1>10, <1>11, <1>12, <1>13 DEF GeminiLive
  <1> QED
    BY <1>1, <1>4, <1>5, <1>14 DEF GeminiKeeps

\* What the frames so far are, and what a client has heard in them.
LEMMA GeminiTells ==
    ASSUME NEW base, NEW s, NEW w, GeminiKeeps(base, s, w), NEW F, F = base \o s.out
    PROVE  /\ IsList(F) /\ GeminiFormed(F)
           /\ w.stage # "over" => GeminiOpen(F)
           /\ w.stage = "over" =>
                Heard("gemini", F) = GeminiReader(w.agg.text, Wholes(w.agg.tools), GeminiStop(w.agg))
  <1>1. CASE w.stage = "over"
    BY <1>1, GeminiWritesFields DEF GeminiKeeps, GeminiOver
  <1>2. CASE w.stage # "over"
    <2>1. PICK u, p, G : GeminiWrites(base, s, u, p, G) /\ GeminiOpen(G)
      BY <1>2 DEF GeminiKeeps, GeminiLive
    <2>2. G = F /\ IsList(F)
      BY <2>1, GeminiWritesFields
    <2>3. DOMAIN F = 1..Len(F)
      BY <2>2, ListFacts
    <2> QED
      BY <1>2, <2>1, <2>2, <2>3 DEF GeminiOpen, GeminiFormed, Nil
  <1> QED
    BY <1>1, <1>2

-----------------------------------------------------------------------------
(* Any client                                                              *)

\* An encoder's state is a record that has frames.
Shaped(s) == s = [i \in DOMAIN s |-> s[i]] /\ "out" \in DOMAIN s

\* Flushing twice is flushing once.
LEMMA FlushedShape ==
    ASSUME NEW s, Shaped(s)
    PROVE  Shaped(Flushed(s)) /\ Flushed(s).out = <<>> /\ Flushed(Flushed(s)) = Flushed(s)
  <1>1. PICK z, t : z = <<>> /\ t = [s EXCEPT !["out"] = z]
    OBVIOUS
  <1>2. t = [i \in DOMAIN s |-> IF i = "out" THEN z ELSE s[i]]
    BY <1>1 DEF Shaped
  <1>3. [t EXCEPT !["out"] = z] = t
    BY <1>2
  <1>4. t["out"] = z
    BY <1>2 DEF Shaped
  <1>5. Shaped(t)
    BY <1>2 DEF Shaped
  <1> QED
    BY <1>1, <1>3, <1>4, <1>5 DEF Flushed

\* An Anthropic encoder has the shape of one.
LEMMA AnthropicShape ==
    ASSUME NEW base, NEW s, NEW w \in Points, AnthropicKeeps(base, s, w)
    PROVE  Shaped(s)
  <1>1. PICK yes, no, u, z : yes = TRUE /\ no = FALSE /\ u = NoTokens /\ z = <<>>
    OBVIOUS
  <1>2. ASSUME NEW st, NEW n, NEW open, NEW v, NEW out,
               s = [started |-> st, nextIndex |-> n, open |-> open, usage |-> v, out |-> out]
        PROVE  Shaped(s)
    BY <1>2 DEF Shaped
  <1>3. CASE s = NewAnthropic
    <2>1. s = [started |-> no, nextIndex |-> 0, open |-> "none", usage |-> u, out |-> z]
      BY <1>1, <1>3 DEF NewAnthropic
    <2> QED
      BY <1>2, <2>1
  <1>4. CASE \E n, open, v, out : s = AnthropicState(n, open, v, out)
    <2>1. PICK n, open, v, out : s = AnthropicState(n, open, v, out)
      BY <1>4
    <2>2. s = [started |-> yes, nextIndex |-> n, open |-> open, usage |-> v, out |-> out]
      BY <1>1, <2>1 DEF AnthropicState
    <2> QED
      BY <1>2, <2>2
  <1>5. w.stage \in Stages
    BY DEF Points
  <1> QED
    BY <1>3, <1>4, <1>5 DEF AnthropicKeeps, AnthropicLive, AnthropicOver, Stages

\* So has a Responses encoder,
LEMMA ResponsesShape ==
    ASSUME NEW base, NEW s, NEW w \in Points, ResponsesKeeps(base, s, w)
    PROVE  Shaped(s)
  <1>1. PICK no, z : no = FALSE /\ z = <<>>
    OBVIOUS
  <1>2. ASSUME NEW q, NEW u, NEW n, NEW open, NEW items, NEW p, NEW out,
               s = [seq |-> q, usage |-> u, nextIndex |-> n, open |-> open, doneItems |-> items,
                    pendingCompleted |-> p, out |-> out]
        PROVE  Shaped(s)
    BY <1>2 DEF Shaped
  <1>3. CASE s = NewResponses
    <2>1. s = [seq |-> 0, usage |-> z, nextIndex |-> 0, open |-> z, doneItems |-> z,
               pendingCompleted |-> no, out |-> z]
      BY <1>1, <1>3 DEF NewResponses
    <2> QED
      BY <1>2, <2>1
  <1>4. CASE \E q, u, n, open, items, p, out : s = ResponsesState(q, u, n, open, items, p, out)
    <2>1. PICK q, u, n, open, items, p, out : s = ResponsesState(q, u, n, open, items, p, out)
      BY <1>4
    <2>2. PICK b : b = (p = "yes")
      OBVIOUS
    <2>3. s = [seq |-> q, usage |-> u, nextIndex |-> n, open |-> open, doneItems |-> items,
               pendingCompleted |-> b, out |-> out]
      BY <2>1, <2>2 DEF ResponsesState
    <2> QED
      BY <1>2, <2>3
  <1>5. w.stage \in Stages
    BY DEF Points
  <1>6. ASSUME NEW u, NEW n, NEW open, NEW items, NEW p, NEW F, Writes(base, s, u, n, open, items, p, F)
        PROVE  Shaped(s)
    BY <1>4, <1>6 DEF Writes
  <1> QED
    BY <1>3, <1>5, <1>6 DEF ResponsesKeeps, ResponsesLive, ResponsesAt, ResponsesTold, ResponsesWaits, Stages

\* a Chat encoder
LEMMA ChatShape ==
    ASSUME NEW inc, NEW base, NEW s, NEW w \in Points, ChatKeeps(base, s, w, inc)
    PROVE  Shaped(s)
  <1>1. PICK yes, no, z, b : yes = TRUE /\ no = FALSE /\ z = <<>> /\ b = (inc = "yes")
    OBVIOUS
  <1>2. ASSUME NEW st, NEW i, NEW u, NEW c, NEW p, NEW out,
               s = [started |-> st, toolIndex |-> i, usage |-> u, includeUsage |-> c, pendingDone |-> p, out |-> out]
        PROVE  Shaped(s)
    BY <1>2 DEF Shaped
  <1>3. CASE s = NewChat(inc = "yes")
    <2>1. s = [started |-> no, toolIndex |-> -1, usage |-> z, includeUsage |-> b, pendingDone |-> no, out |-> z]
      BY <1>1, <1>3 DEF NewChat
    <2> QED
      BY <1>2, <2>1
  <1>4. ASSUME NEW i, NEW u, NEW c, NEW p, NEW F, ChatWrites(base, s, i, u, c, p, F)
        PROVE  Shaped(s)
    <2>1. PICK out : s = ChatState(i, u, c, p, out)
      BY <1>4 DEF ChatWrites
    <2>2. PICK d, e : d = (c = "yes") /\ e = (p = "yes")
      OBVIOUS
    <2>3. s = [started |-> yes, toolIndex |-> i, usage |-> u, includeUsage |-> d, pendingDone |-> e, out |-> out]
      BY <1>1, <2>1, <2>2 DEF ChatState
    <2> QED
      BY <1>2, <2>3
  <1>5. w.stage \in Stages
    BY DEF Points
  <1>6. ASSUME w.stage # "none" PROVE Shaped(s)
    BY <1>4, <1>5, <1>6 DEF ChatKeeps, ChatLive, ChatTold, ChatWaits, Stages
  <1>7. ASSUME w.stage = "none" PROVE Shaped(s)
    BY <1>3, <1>7 DEF ChatKeeps
  <1> QED
    BY <1>6, <1>7

\* and a Gemini encoder.
LEMMA GeminiShape ==
    ASSUME NEW base, NEW s, NEW w, GeminiKeeps(base, s, w)
    PROVE  Shaped(s)
  <1>1. ASSUME NEW u, NEW p, NEW F, GeminiWrites(base, s, u, p, F)
        PROVE  Shaped(s)
    <2>1. PICK out : s = [usage |-> u, pendingTool |-> p, out |-> out]
      BY <1>1 DEF GeminiWrites, GeminiState
    <2> QED
      BY <2>1 DEF Shaped
  <1> QED
    BY <1>1 DEF GeminiKeeps, GeminiLive, GeminiOver

\* The encoder of a dialect, with the frames before it, has told its client
\* what the walk has brought so far.
Keeps(c, inc, base, s, w) ==
  CASE c = "chat" -> ChatKeeps(base, s, w, inc)
    [] c = "anthropic" -> AnthropicKeeps(base, s, w)
    [] c = "responses" -> ResponsesKeeps(base, s, w)
    [] c = "gemini" -> GeminiKeeps(base, s, w)

Formed(c, F) ==
  CASE c = "chat" -> ChatFormed(F)
    [] c = "anthropic" -> AnthropicFormed(F)
    [] c = "responses" -> ResponsesFormed(F)
    [] c = "gemini" -> GeminiFormed(F)

IsEnd(c, f) ==
  CASE c = "chat" -> f.kind = "[DONE]"
    [] c = "anthropic" -> f.kind = "message_stop"
    [] c = "responses" -> f.kind = "response.completed"
    [] c = "gemini" -> f.finish # <<>>
HasEnd(c, F) == \E i \in 1..Len(F) : IsEnd(c, F[i])

\* Whatever the client's dialect, an event keeps its encoder's invariant.
LEMMA KeepsSteps ==
    ASSUME NEW c \in Dialects, NEW inc, NEW base, NEW s, NEW w \in Points, Keeps(c, inc, base, s, w),
           NEW e, Legal(w, e)
    PROVE  Keeps(c, inc, base, EncodeEvent(c, s, e), After(w, e))
  <1>1. CASE c = "chat"
    <2>1. ChatKeeps(base, s, w, inc)
      BY <1>1 DEF Keeps
    <2>2. ChatKeeps(base, EncodeChat(s, e), After(w, e), inc)
      BY <2>1, ChatSteps
    <2> QED
      BY <1>1, <2>2 DEF Keeps, EncodeEvent
  <1>2. CASE c = "anthropic"
    <2>1. AnthropicKeeps(base, s, w)
      BY <1>2 DEF Keeps
    <2>2. AnthropicKeeps(base, EncodeAnthropic(s, e), After(w, e))
      BY <2>1, AnthropicSteps
    <2> QED
      BY <1>2, <2>2 DEF Keeps, EncodeEvent
  <1>3. CASE c = "responses"
    <2>1. ResponsesKeeps(base, s, w)
      BY <1>3 DEF Keeps
    <2>2. ResponsesKeeps(base, EncodeResponses(s, e), After(w, e))
      BY <2>1, ResponsesSteps
    <2> QED
      BY <1>3, <2>2 DEF Keeps, EncodeEvent
  <1>4. CASE c = "gemini"
    <2>1. GeminiKeeps(base, s, w)
      BY <1>4 DEF Keeps
    <2>2. GeminiKeeps(base, EncodeGemini(s, e), After(w, e))
      BY <2>1, GeminiSteps
    <2> QED
      BY <1>4, <2>2 DEF Keeps, EncodeEvent
  <1> QED
    BY <1>1, <1>2, <1>3, <1>4 DEF Dialects

\* So does a flush.
LEMMA KeepsFlushes ==
    ASSUME NEW c \in Dialects, NEW inc, NEW base, NEW s, NEW w \in Points, Keeps(c, inc, base, s, w)
    PROVE  Keeps(c, inc, base \o s.out, Flushed(s), w)
  <1>1. CASE c = "chat"
    BY <1>1, ChatFlushes DEF Keeps
  <1>2. CASE c = "anthropic"
    BY <1>2, AnthropicFlushes DEF Keeps
  <1>3. CASE c = "responses"
    BY <1>3, ResponsesFlushes DEF Keeps
  <1>4. CASE c = "gemini"
    BY <1>4, GeminiFlushes DEF Keeps
  <1> QED
    BY <1>1, <1>2, <1>3, <1>4 DEF Dialects

\* The encoder that keeps it has an encoder's shape.
LEMMA KeepsShape ==
    ASSUME NEW c \in Dialects, NEW inc, NEW base, NEW s, NEW w \in Points, Keeps(c, inc, base, s, w)
    PROVE  Shaped(s)
  <1>1. CASE c = "chat"
    BY <1>1, ChatShape DEF Keeps
  <1>2. CASE c = "anthropic"
    BY <1>2, AnthropicShape DEF Keeps
  <1>3. CASE c = "responses"
    BY <1>3, ResponsesShape DEF Keeps
  <1>4. CASE c = "gemini"
    BY <1>4, GeminiShape DEF Keeps
  <1> QED
    BY <1>1, <1>2, <1>3, <1>4 DEF Dialects

\* A new encoder keeps it.
LEMMA KeepsNew ==
    ASSUME NEW c \in Dialects, NEW inc, NEW s, s = NewEncoder(c, inc = "yes")
    PROVE  Keeps(c, inc, <<>>, s, Outset) /\ s.out = <<>> /\ Flushed(s) = s
  <1>1. PICK w, z : w = Outset /\ z = <<>>
    OBVIOUS
  <1>2. w.stage = "none" /\ w.agg = NewAggregator
    BY <1>1 DEF Outset
  <1>3. ~w.seen
    BY <1>1 DEF Outset
  <1>4. w.agg.text = z /\ w.agg.thinking = z /\ w.agg.tools = z
    BY <1>1, <1>2 DEF NewAggregator
  <1>5. CASE c = "chat"
    <2>1. s = NewChat(inc = "yes")
      BY <1>5 DEF NewEncoder
    <2>2. ChatKeeps(z, s, w, inc)
      BY <1>1, <1>2, <1>3, <1>4, <2>1 DEF ChatKeeps, Nil
    <2> QED
      BY <1>1, <1>5, <2>1, <2>2, ChatNew DEF Keeps
  <1>6. CASE c = "anthropic"
    <2>1. s = NewAnthropic
      BY <1>6 DEF NewEncoder
    <2>2. AnthropicKeeps(z, s, w)
      BY <1>1, <1>2, <1>4, <2>1 DEF AnthropicKeeps
    <2> QED
      BY <1>1, <1>6, <2>1, <2>2, AnthropicNew DEF Keeps
  <1>7. CASE c = "responses"
    <2>1. s = NewResponses
      BY <1>7 DEF NewEncoder
    <2>2. ResponsesKeeps(z, s, w)
      BY <1>1, <1>2, <1>3, <1>4, <2>1 DEF ResponsesKeeps
    <2> QED
      BY <1>1, <1>7, <2>1, <2>2, ResponsesNew DEF Keeps
  <1>8. CASE c = "gemini"
    <2>1. s = NewGemini
      BY <1>8 DEF NewEncoder
    <2> QED
      BY <1>1, <1>8, <2>1, GeminiNew DEF Keeps
  <1> QED
    BY <1>5, <1>6, <1>7, <1>8 DEF Dialects

\* Encode over the events of a walk.
LEMMA KeepsEncoded ==
    ASSUME NEW c \in Dialects, NEW inc, NEW base, NEW s, NEW w, NEW x, NEW events,
           Keeps(c, inc, base, s, w), Flushed(s) = s, Walks(events, w, x)
    PROVE  Keeps(c, inc, base, Encode(c, events, s), x)
  <1>1. IsList(events)
    BY DEF Walks
  <1>2. PICK walk : WalksBy(events, w, x, walk)
    BY DEF Walks
  <1>3. PICK run : /\ run[0] = [s EXCEPT !.out = <<>>]
                   /\ \A k \in 1..Len(events) : run[k] = EncodeEvent(c, run[k - 1], events[k])
                   /\ Encode(c, events, s) = run[Len(events)]
    BY <1>1, EncodeRun
  <1>4. run[0] = s
    BY <1>3, Zenon DEF Flushed
  <1>5. PICK n : n = Len(events)
    OBVIOUS
  <1>6. n \in Nat
    BY <1>1, <1>5, ListFacts
  <1> DEFINE S == {k \in 0..n : Keeps(c, inc, base, run[k], walk[k])}
  <1>7. 0 \in S
    BY <1>2, <1>4, <1>6 DEF WalksBy
  <1>8. ASSUME NEW k \in 1..n, k - 1 \in S PROVE k \in S
    <2>1. Keeps(c, inc, base, run[k - 1], walk[k - 1]) /\ k - 1 \in 0..n
      BY <1>8
    <2>2. walk[k - 1] \in Points /\ Legal(walk[k - 1], events[k]) /\ walk[k] = After(walk[k - 1], events[k])
      BY <1>2, <1>5, <1>6, <2>1 DEF WalksBy
    <2>3. run[k] = EncodeEvent(c, run[k - 1], events[k])
      BY <1>3, <1>5
    <2>4. PICK r, v : r = run[k - 1] /\ v = walk[k - 1]
      OBVIOUS
    <2>5. Keeps(c, inc, base, EncodeEvent(c, r, events[k]), After(v, events[k]))
      BY <2>1, <2>2, <2>4, KeepsSteps
    <2>6. k \in 0..n
      BY <1>6
    <2> QED
      BY <2>2, <2>3, <2>4, <2>5, <2>6
  <1>9. \A k \in 0..n : k \in S
    <2> HIDE DEF S
    <2> QED
      BY <1>6, <1>7, <1>8, UpTo
  <1>10. n \in S
    BY <1>6, <1>9
  <1> QED
    BY <1>2, <1>3, <1>5, <1>10 DEF WalksBy

\* What a client of a dialect has heard in its frames, and of which end.
HeardIn(c, F, w) ==
  CASE c = "chat" -> HeardAs("chat", F, w.agg, IF w.stage = "over" THEN ChatStop(w.agg) ELSE "none")
    [] c = "anthropic" -> HeardAs("anthropic", F, w.agg, IF w.stage = "over" THEN w.agg.stop[1] ELSE "none")
    [] c = "responses" -> HeardAs("responses", F, w.agg, "none")
    [] c = "gemini" -> w.stage = "over" =>
         Heard("gemini", F) = GeminiReader(w.agg.text, Wholes(w.agg.tools), GeminiStop(w.agg))

\* What it means for the client: well-formed frames that say the answer.
LEMMA KeepsTells ==
    ASSUME NEW c \in Dialects, NEW inc, NEW base, NEW s, NEW w \in Points, Keeps(c, inc, base, s, w),
           NEW F, F = base \o s.out
    PROVE  /\ IsList(F) /\ Formed(c, F) /\ HeardIn(c, F, w)
           /\ HasEnd(c, F) => w.stage = "over" /\ (c = "responses" \/ (c = "chat" /\ inc = "yes") => w.seen)
  <1>1. CASE c = "chat"
    <2>1. ChatKeeps(base, s, w, inc)
      BY <1>1 DEF Keeps
    <2>2. /\ IsList(F) /\ ChatFormed(F)
          /\ w.stage # "over" \/ (inc = "yes" /\ ~w.seen) => \A i \in 1..Len(F) : F[i].kind # "[DONE]"
          /\ HeardAs("chat", F, w.agg, IF w.stage = "over" THEN ChatStop(w.agg) ELSE "none")
      BY <2>1, ChatTells
    <2> QED
      BY <1>1, <2>2 DEF Formed, HeardIn, HasEnd, IsEnd
  <1>2. CASE c = "anthropic"
    <2>1. AnthropicKeeps(base, s, w)
      BY <1>2 DEF Keeps
    <2>2. /\ IsList(F) /\ AnthropicFormed(F)
          /\ w.stage # "over" => \A i \in 1..Len(F) : F[i].kind # "message_stop"
          /\ HeardAs("anthropic", F, w.agg, IF w.stage = "over" THEN w.agg.stop[1] ELSE "none")
      BY <2>1, AnthropicTells
    <2> QED
      BY <1>2, <2>2 DEF Formed, HeardIn, HasEnd, IsEnd
  <1>3. CASE c = "responses"
    <2>1. ResponsesKeeps(base, s, w)
      BY <1>3 DEF Keeps
    <2>2. /\ IsList(F) /\ ResponsesFormed(F)
          /\ w.stage # "over" \/ ~w.seen => \A i \in 1..Len(F) : F[i].kind # Completed
          /\ HeardAs("responses", F, w.agg, "none")
      BY <2>1, ResponsesTells
    <2> QED
      BY <1>3, <2>2 DEF Formed, HeardIn, HasEnd, IsEnd, Completed
  <1>4. CASE c = "gemini"
    <2>1. GeminiKeeps(base, s, w)
      BY <1>4 DEF Keeps
    <2>2. /\ IsList(F) /\ GeminiFormed(F)
          /\ w.stage # "over" => GeminiOpen(F)
          /\ w.stage = "over" =>
                Heard("gemini", F) = GeminiReader(w.agg.text, Wholes(w.agg.tools), GeminiStop(w.agg))
      BY <2>1, GeminiTells
    <2> QED
      BY <1>4, <2>2 DEF Formed, HeardIn, HasEnd, IsEnd, GeminiOpen, Nil
  <1> QED
    BY <1>1, <1>2, <1>3, <1>4 DEF Dialects

\* And when the upstream's bytes end.
LEMMA KeepsFinishes ==
    ASSUME NEW c \in Dialects, NEW inc, NEW base, NEW s, NEW w \in Points, Keeps(c, inc, base, s, w),
           NEW t, t = Finish(c, s), NEW F, F = base \o t.out
    PROVE  /\ IsList(F) /\ Formed(c, F) /\ HeardIn(c, F, w)
           /\ HasEnd(c, F) => w.stage = "over"
  <1>1. CASE c = "chat"
    <2>1. ChatKeeps(base, s, w, inc) /\ t = FinishChat(s)
      BY <1>1 DEF Keeps, Finish
    <2>2. /\ IsList(F) /\ ChatFormed(F)
          /\ w.stage # "over" => \A i \in 1..Len(F) : F[i].kind # "[DONE]"
          /\ HeardAs("chat", F, w.agg, IF w.stage = "over" THEN ChatStop(w.agg) ELSE "none")
      BY <2>1, ChatFinishes
    <2> QED
      BY <1>1, <2>2 DEF Formed, HeardIn, HasEnd, IsEnd
  <1>2. CASE c = "responses"
    <2>1. ResponsesKeeps(base, s, w) /\ t = FinishResponses(s)
      BY <1>2 DEF Keeps, Finish
    <2>2. /\ IsList(F) /\ ResponsesFormed(F)
          /\ w.stage # "over" => \A i \in 1..Len(F) : F[i].kind # Completed
          /\ HeardAs("responses", F, w.agg, "none")
      BY <2>1, ResponsesFinishes
    <2> QED
      BY <1>2, <2>2 DEF Formed, HeardIn, HasEnd, IsEnd, Completed
  <1>3. CASE c \in {"anthropic", "gemini"}
    <2>1. t = s
      BY <1>3 DEF Finish
    <2> QED
      BY <2>1, KeepsTells
  <1> QED
    BY <1>1, <1>2, <1>3 DEF Dialects

-----------------------------------------------------------------------------
(* A turn's stream, read line by line                                      *)

\* The decoder and the point after each line of the upstream's stream.
Leads(t, run) ==
  LET n == Len(Lines(t))
  IN  GoesBy(t, Lines(t), Start, run[n], run) /\ run[n].w.stage = "over" /\ run[n].w.seen
RunOf(t) == CHOOSE run : Leads(t, run)

\* The decoder's run over an answer's lines leads along them.
LEMMA RunLeads ==
    ASSUME NEW t \in Turns
    PROVE  IsList(Lines(t)) /\ Leads(t, RunOf(t))
  <1>1. PICK r : Goes(t, Lines(t), Start, r) /\ r.w.stage = "over" /\ r.w.seen
    BY LinesGo
  <1>2. IsList(Lines(t))
    BY <1>1 DEF Goes
  <1>3. PICK run : GoesBy(t, Lines(t), Start, r, run)
    BY <1>1 DEF Goes
  <1>4. Leads(t, run)
    BY <1>1, <1>3 DEF Leads, GoesBy
  <1>5. \E g : Leads(t, g)
    BY <1>4
  <1>6. Leads(t, CHOOSE g : Leads(t, g))
    BY <1>5, Zenon
  <1> QED
    BY <1>2, <1>6 DEF RunOf

\* It is right at every line and over after the last.
LEMMA RunFacts ==
    ASSUME NEW t \in Turns, NEW n, n = Len(Lines(t)), NEW run, run = RunOf(t)
    PROVE  /\ n \in Nat /\ run[0] = Start
           /\ \A k \in 0..n : run[k].w \in Points /\ Right(t, run[k].w)
           /\ run[n].w.stage = "over" /\ run[n].w.seen
  BY RunLeads, ListFacts DEF Leads, GoesBy

\* The lines of a read lead from where the last one left.
LEMMA ReadLeads ==
    ASSUME NEW t \in Turns, NEW n, n = Len(Lines(t)), NEW run, run = RunOf(t),
           NEW i \in 0..n, NEW j \in i..n,
           NEW d, d = DecodeLines(t.up, SubSeq(Lines(t), i + 1, j), run[i].st)
    PROVE  d.st = run[j].st /\ Walks(d.events, run[i].w, run[j].w)
  <1>1. PICK lines : lines = Lines(t)
    OBVIOUS
  <1>2. IsList(lines) /\ n \in Nat /\ n = Len(lines) /\ i \in Nat /\ j \in Nat /\ i <= j /\ j <= n
    BY <1>1, RunLeads, ListFacts
  <1>3. /\ \A k \in 0..n : run[k].w \in Points
        /\ \A k \in 1..n : Step(t.up, run[k - 1], lines[k], run[k])
    BY <1>1, RunLeads DEF Leads, GoesBy
  <1>4. PICK m, ls : m = j - i /\ ls = SubSeq(lines, i + 1, j)
    OBVIOUS
  <1>5. m \in Nat /\ \A k \in 0..m : i + k \in 0..n
    BY <1>2, <1>4
  <1>6. IsList(ls) /\ Len(ls) = m /\ \A k \in 1..m : ls[k] = lines[i + k]
    <2>1. ls = [k \in 1..m |-> lines[i + k]]
      <3>1. ls = [k \in 1..(j - (i + 1) + 1) |-> lines[(i + 1) + k - 1]]
        <4>1. PICK S : lines \in Seq(S)
          BY <1>2 DEF IsList
        <4> QED
          BY <1>2, <1>4, <4>1
      <3>2. j - (i + 1) + 1 = m
        BY <1>2, <1>4
      <3>3. \A k \in 1..m : (i + 1) + k - 1 = i + k
        BY <1>2
      <3> QED
        BY <3>1, <3>2, <3>3
    <2>2. ls = [k \in 1..m |-> ls[k]]
      BY <2>1
    <2> QED
      BY <1>5, <2>1, <2>2, ListMake
  <1>13. PICK st, up : st = run[i].st /\ up = t.up
    OBVIOUS
  <1>14. PICK dec : /\ dec[0] = Decoded(st, <<>>)
                    /\ \A k \in 1..Len(ls) : dec[k] = DecodeMore(up, dec[k - 1], ls[k])
                    /\ DecodeLines(up, ls, st) = dec[Len(ls)]
    <2>1. IsList(ls)
      BY <1>6
    <2> QED
      BY <2>1, DecodeRun
  <1>7. /\ dec[0] = Decoded(run[i].st, <<>>)
        /\ \A k \in 1..Len(ls) : dec[k] = DecodeMore(t.up, dec[k - 1], ls[k])
        /\ DecodeLines(t.up, ls, run[i].st) = dec[Len(ls)]
    BY <1>13, <1>14
  <1> DEFINE S == {k \in 0..m : dec[k].st = run[i + k].st /\ Walks(dec[k].events, run[i].w, run[i + k].w)}
  <1>8. 0 \in S
    <2>1. i + 0 = i /\ 0 \in 0..m /\ run[i].w \in Points
      BY <1>2, <1>3, <1>5
    <2>2. dec[0].st = run[i].st /\ dec[0].events = <<>>
      BY <1>7 DEF Decoded
    <2>3. Walks(<<>>, run[i].w, run[i].w)
      BY <2>1, WalkNil
    <2> QED
      BY <2>1, <2>2, <2>3
  <1>9. ASSUME NEW k \in 1..m, k - 1 \in S PROVE k \in S
    <2>1. k - 1 \in 0..m /\ k \in 0..m /\ i + k \in 1..n /\ i + (k - 1) = (i + k) - 1
      BY <1>2, <1>4, <1>5, <1>9
    <2>2. PICK p, q, r, l : p = dec[k - 1] /\ q = run[(i + k) - 1] /\ r = run[i + k] /\ l = ls[k]
      OBVIOUS
    <2>3. p.st = q.st /\ Walks(p.events, run[i].w, q.w)
      BY <1>9, <2>1, <2>2
    <2>4. Step(t.up, q, l, r)
      BY <1>3, <1>6, <2>1, <2>2
    <2>5. dec[k] = DecodeMore(t.up, p, l)
      BY <1>6, <1>7, <2>2
    <2>6. PICK e : e = DecodeLine(t.up, l, q.st)
      OBVIOUS
    <2>7. e.st = r.st /\ Walks(e.events, q.w, r.w)
      BY <2>4, <2>6 DEF Step
    <2>8. dec[k].st = e.st /\ dec[k].events = p.events \o e.events
      <3>1. DecodeLine(t.up, l, p.st) = e
        BY <2>3, <2>6
      <3>2. PICK x, y : x = e.st /\ y = p.events \o e.events
        OBVIOUS
      <3>3. dec[k] = Decoded(x, y)
        BY <2>5, <3>1, <3>2, Zenon DEF DecodeMore
      <3>4. dec[k].st = x /\ dec[k].events = y
        BY <3>3 DEF Decoded
      <3> QED
        BY <3>2, <3>4
    <2>9. Walks(p.events \o e.events, run[i].w, r.w)
      BY <2>3, <2>7, WalkConcat
    <2> QED
      BY <2>1, <2>2, <2>7, <2>8, <2>9
  <1>10. m \in S
    <2>1. \A k \in 0..m : k \in S
      <3> HIDE DEF S
      <3> QED
        BY <1>5, <1>8, <1>9, UpTo
    <2> QED
      BY <1>5, <2>1
  <1>11. i + m = j
    BY <1>2, <1>4
  <1>12. d = dec[m]
    BY <1>1, <1>4, <1>6, <1>7
  <1> QED
    BY <1>10, <1>11, <1>12

-----------------------------------------------------------------------------
(* Folds over a walk                                                       *)

\* The aggregator's fold, and the usage's, end where the walk does.
LEMMA WalkFolds ==
    ASSUME NEW events, NEW w, NEW x, Walks(events, w, x)
    PROVE  PushAll(w.agg, events) = x.agg /\ MergeUsage(w.agg.usage, events) = x.agg.usage
  <1>1. PICK n : n = Len(events)
    OBVIOUS
  <1>2. IsList(events) /\ n \in Nat
    BY <1>1, ListFacts DEF Walks
  <1>3. PICK walk : WalksBy(events, w, x, walk)
    BY DEF Walks
  <1>4. PICK p : /\ p[0] = w.agg
                 /\ \A k \in 1..Len(events) : p[k] = Push(p[k - 1], events[k])
                 /\ PushAll(w.agg, events) = p[Len(events)]
    BY <1>2, PushRun
  <1>5. PICK u : /\ u[0] = w.agg.usage
                 /\ \A k \in 1..Len(events) : u[k] = (IF events[k].ev = "usage_delta" THEN Merge(u[k - 1], events[k].usage) ELSE u[k - 1])
                 /\ MergeUsage(w.agg.usage, events) = u[Len(events)]
    BY <1>2, MergeRun
  <1> DEFINE S == {k \in 0..n : p[k] = walk[k].agg /\ u[k] = walk[k].agg.usage}
  <1>6. 0 \in S
    BY <1>2, <1>3, <1>4, <1>5 DEF WalksBy
  <1>7. ASSUME NEW k \in 1..n, k - 1 \in S PROVE k \in S
    <2>1. k - 1 \in 0..n /\ k \in 0..n
      BY <1>2
    <2>2. PICK v, e, y : v = walk[k - 1] /\ e = events[k] /\ y = walk[k]
      OBVIOUS
    <2>3. v \in Points /\ Legal(v, e) /\ y = After(v, e)
      BY <1>1, <1>3, <2>1, <2>2 DEF WalksBy
    <2>4. y.agg = Push(v.agg, e) /\ v.agg \in Aggregators /\ e \in Events
      BY <2>3 DEF After, Points, Legal
    <2>5. p[k] = y.agg
      <3>1. p[k] = Push(p[k - 1], e) /\ p[k - 1] = v.agg
        BY <1>1, <1>4, <1>7, <2>2
      <3> QED
        BY <2>4, <3>1
    <2>6. u[k - 1] = v.agg.usage
      BY <1>7, <2>2
    <2>7. CASE e.ev = "usage_delta"
      <3>1. u[k] = Merge(v.agg.usage, e.usage)
        BY <1>1, <1>5, <2>2, <2>6, <2>7
      <3>2. PICK a, m : a = v.agg /\ m = Merge(a.usage, e.usage)
        OBVIOUS
      <3>3. y.agg = [a EXCEPT !.usage = m]
        BY <2>4, <2>7, <3>2 DEF Push
      <3>4. y.agg.usage = m
        BY <2>4, <3>2, <3>3 DEF Aggregators
      <3> QED
        BY <2>1, <2>2, <2>5, <3>1, <3>2, <3>4
    <2>8. CASE e.ev # "usage_delta"
      <3>1. u[k] = v.agg.usage
        BY <1>1, <1>5, <2>2, <2>6, <2>8
      <3>2. y.agg.usage = v.agg.usage
        BY <2>4, <2>8 DEF Push, Aggregators, Events
      <3> QED
        BY <2>1, <2>2, <2>5, <3>1, <3>2
    <2> QED
      BY <2>7, <2>8
  <1>8. n \in S
    <2>1. \A k \in 0..n : k \in S
      <3> HIDE DEF S
      <3> QED
        BY <1>2, <1>6, <1>7, UpTo
    <2> QED
      BY <1>2, <2>1
  <1> QED
    BY <1>1, <1>3, <1>4, <1>5, <1>8 DEF WalksBy

-----------------------------------------------------------------------------
(* A buffered answer as a stream                                           *)

\* The blocks of a response that was parsed.
Parsed == [type : {"text", "thinking"}, text : Seq(Strings)]
            \cup [type : {"tool_use"}, id : Strings, name : Strings, input : Strings]

\* What a block of it says is typed.
LEMMA ParsedTyped ==
    ASSUME NEW up, NEW b \in Parsed
    PROVE  /\ TextOf(b) \in Seq(Strings) /\ ThinkingOf(up, b) \in Seq(Strings)
           /\ ToolsOf(up, b) \in Seq(Tools)
  <1>0. <<>> \in Seq(Strings) /\ <<>> \in Seq(Tools)
    OBVIOUS
  <1>1. CASE b.type = "tool_use"
    <2>1. PICK c : c = Tool(IF up = "gemini" THEN b.name ELSE b.id, b.name, Serialised(b.input))
      OBVIOUS
    <2>2. b.name \in Strings /\ b.id \in Strings /\ b.input \in Strings
      BY <1>1 DEF Parsed
    <2>3. Serialised(b.input) \in Seq(Strings)
      BY <2>2, SerialTyped
    <2>4. c \in Tools
      BY <2>1, <2>2, <2>3 DEF Tool, Tools
    <2>5. ToolsOf(up, b) = <<c>>
      BY <1>1, <2>1 DEF ToolsOf
    <2>6. <<c>> \in Seq(Tools)
      BY <2>4, SeqOne
    <2> QED
      BY <1>0, <1>1, <2>5, <2>6 DEF TextOf, ThinkingOf
  <1>2. CASE b.type # "tool_use"
    BY <1>0, <1>2 DEF TextOf, ThinkingOf, ToolsOf, Parsed
  <1> QED
    BY <1>1, <1>2

\* Two of one are one of two.
LEMMA TwoOnes ==
    ASSUME NEW p, NEW q
    PROVE  <<p>> \o <<q>> = <<p, q>>
  <1>1. PICK c, d, e, f : c = <<p>> /\ d = <<q>> /\ e = <<p, q>> /\ f = c \o d
    OBVIOUS
  <1>2. /\ IsList(c) /\ Len(c) = 1 /\ c[1] = p /\ IsList(d) /\ Len(d) = 1 /\ d[1] = q
        /\ IsList(e) /\ Len(e) = 2 /\ e[1] = p /\ e[2] = q
    BY <1>1, ListOne, ListTwo
  <1>3. IsList(f) /\ Len(f) = 2 /\ f[1] = p /\ f[2] = q
    BY <1>1, <1>2, ListConcat
  <1>4. f = e
    BY <1>2, <1>3, ListSame
  <1> QED
    BY <1>1, <1>4

\* The events of a block add the block.
LEMMA BlockSays ==
    ASSUME NEW u \in Tokens, NEW seen \in BOOLEAN, NEW stage \in {"open", "call"},
           NEW text \in Seq(Strings), NEW thinking \in Seq(Strings), NEW tools \in Seq(Tools),
           NEW b \in Parsed
    PROVE  \E s \in {"open", "call"} :
             Walks(EventsOfBlock(b), At(u, seen, stage, text, thinking, tools),
                   At(u, seen, s, text \o TextOf(b), thinking \o ThinkingOf("chat", b),
                      tools \o ToolsOf("chat", b)))
  <1>0. text \o <<>> = text /\ thinking \o <<>> = thinking /\ tools \o <<>> = tools
    BY SeqIsList, ConcatNil
  <1>1. CASE b.type = "text"
    <2>1. b.text \in Seq(Strings)
      BY <1>1 DEF Parsed
    <2>2. Walks(<<TextDelta(b.text)>>, At(u, seen, stage, text, thinking, tools),
                At(u, seen, "open", text \o b.text, thinking, tools))
      BY <2>1, AtText
    <2>3. /\ EventsOfBlock(b) = <<TextDelta(b.text)>> /\ TextOf(b) = b.text
          /\ ThinkingOf("chat", b) = <<>> /\ ToolsOf("chat", b) = <<>>
      BY <1>1 DEF EventsOfBlock, TextOf, ThinkingOf, ToolsOf
    <2> QED
      BY <1>0, <2>2, <2>3
  <1>2. CASE b.type = "thinking"
    <2>1. b.text \in Seq(Strings)
      BY <1>2 DEF Parsed
    <2>2. Walks(<<ThinkingDelta(b.text)>>, At(u, seen, stage, text, thinking, tools),
                At(u, seen, "open", text, thinking \o b.text, tools))
      BY <2>1, AtThinking
    <2>3. /\ EventsOfBlock(b) = <<ThinkingDelta(b.text)>> /\ TextOf(b) = <<>>
          /\ ThinkingOf("chat", b) = b.text /\ ToolsOf("chat", b) = <<>>
      BY <1>2 DEF EventsOfBlock, TextOf, ThinkingOf, ToolsOf
    <2> QED
      BY <1>0, <2>2, <2>3
  <1>3. CASE b.type = "tool_use"
    <2>1. PICK id, name, v, z, json : /\ id = b.id /\ name = b.name /\ v = b.input /\ z = <<>>
                                      /\ json = Serialised(v)
      OBVIOUS
    <2>2. id \in Strings /\ name \in Strings /\ v \in Strings
      BY <1>3, <2>1 DEF Parsed
    <2>3. json \in Seq(Strings) /\ z \in Seq(Strings) /\ z \o json = json
      <3>1. json \in Seq(Strings)
        BY <2>1, <2>2, SerialTyped
      <3>2. z \in Seq(Strings)
        BY <2>1
      <3>3. z \o json = json
        BY <2>1, <3>1, SeqIsList, ConcatNil
      <3> QED
        BY <3>1, <3>2, <3>3
    <2>4. Walks(<<ToolUseStart(id, name)>>, At(u, seen, stage, text, thinking, tools),
                At(u, seen, "call", text, thinking, Append(tools, Tool(id, name, z))))
      BY <2>1, <2>2, AtCall
    <2>5. Walks(<<ToolUseDelta(json)>>,
                At(u, seen, "call", text, thinking, Append(tools, Tool(id, name, z))),
                At(u, seen, "call", text, thinking, Append(tools, Tool(id, name, json))))
      <3>1. Walks(<<ToolUseDelta(json)>>,
                  At(u, seen, "call", text, thinking, Append(tools, Tool(id, name, z))),
                  At(u, seen, "call", text, thinking, Append(tools, Tool(id, name, z \o json))))
        BY <2>2, <2>3, AtJson
      <3> QED
        BY <2>3, <3>1
    <2>6. Walks(<<ToolUseStart(id, name)>> \o <<ToolUseDelta(json)>>,
                At(u, seen, stage, text, thinking, tools),
                At(u, seen, "call", text, thinking, Append(tools, Tool(id, name, json))))
      BY <2>4, <2>5, WalkTwo
    <2>7. EventsOfBlock(b) = <<ToolUseStart(id, name), ToolUseDelta(json)>>
      BY <1>3, <2>1 DEF EventsOfBlock
    <2>8. PICK c : c = Tool(id, name, json)
      OBVIOUS
    <2>9. TextOf(b) = <<>> /\ ThinkingOf("chat", b) = <<>> /\ ToolsOf("chat", b) = <<c>>
      BY <1>3, <2>1, <2>8 DEF TextOf, ThinkingOf, ToolsOf
    <2>10. tools \o <<c>> = Append(tools, c)
      BY SeqIsList, ConcatAppend, ConcatNil
    <2>11. PICK p, q : p = ToolUseStart(id, name) /\ q = ToolUseDelta(json)
      OBVIOUS
    <2>12. <<p>> \o <<q>> = <<p, q>>
      BY TwoOnes
    <2> QED
      BY <1>0, <2>6, <2>7, <2>8, <2>9, <2>10, <2>11, <2>12
  <1> QED
    BY <1>1, <1>2, <1>3 DEF Parsed

\* The events of blocks add the blocks.
LEMMA ContentSays ==
    ASSUME NEW u \in Tokens, NEW seen \in BOOLEAN, NEW blocks \in Seq(Parsed)
    PROVE  \E s \in {"open", "call"} :
             Walks(FlattenSeq([i \in DOMAIN blocks |-> EventsOfBlock(blocks[i])]),
                   At(u, seen, "open", <<>>, <<>>, <<>>),
                   At(u, seen, s, AllText(blocks), AllThinking("chat", blocks),
                      AllTools("chat", blocks)))
           /\ AllText(blocks) \in Seq(Strings) /\ AllThinking("chat", blocks) \in Seq(Strings)
           /\ AllTools("chat", blocks) \in Seq(Tools)
  <1>1. PICK n : n = Len(blocks)
    OBVIOUS
  <1>2. n \in Nat /\ DOMAIN blocks = 1..n /\ \A i \in 1..n : blocks[i] \in Parsed
    BY <1>1
  <1>3. PICK ls, xs, ys, zs :
           /\ ls = [i \in DOMAIN blocks |-> EventsOfBlock(blocks[i])]
           /\ xs = [i \in DOMAIN blocks |-> TextOf(blocks[i])]
           /\ ys = [i \in DOMAIN blocks |-> ThinkingOf("chat", blocks[i])]
           /\ zs = [i \in DOMAIN blocks |-> ToolsOf("chat", blocks[i])]
    OBVIOUS
  <1>4. /\ ls = [i \in 1..n |-> ls[i]] /\ xs = [i \in 1..n |-> xs[i]]
        /\ ys = [i \in 1..n |-> ys[i]] /\ zs = [i \in 1..n |-> zs[i]]
        /\ \A i \in 1..n : /\ ls[i] = EventsOfBlock(blocks[i]) /\ xs[i] = TextOf(blocks[i])
                           /\ ys[i] = ThinkingOf("chat", blocks[i]) /\ zs[i] = ToolsOf("chat", blocks[i])
    BY <1>2, <1>3
  <1>5. /\ IsList(ls) /\ Len(ls) = n /\ IsList(xs) /\ Len(xs) = n
        /\ IsList(ys) /\ Len(ys) = n /\ IsList(zs) /\ Len(zs) = n
    BY <1>2, <1>4, ListMake
  <1>6. \A i \in 1..n : xs[i] \in Seq(Strings) /\ ys[i] \in Seq(Strings) /\ zs[i] \in Seq(Tools)
    BY <1>2, <1>4, ParsedTyped
  <1>7. \A i \in 1..n : IsList(ls[i])
    <2>1. ASSUME NEW b \in Parsed PROVE IsList(EventsOfBlock(b))
      <3>1. <<>> \in Seq(Strings) /\ <<>> \in Seq(Tools) /\ "open" \in {"open", "call"}
        OBVIOUS
      <3>2. PICK s \in {"open", "call"} :
              Walks(EventsOfBlock(b), At(u, seen, "open", <<>>, <<>>, <<>>),
                    At(u, seen, s, <<>> \o TextOf(b), <<>> \o ThinkingOf("chat", b),
                       <<>> \o ToolsOf("chat", b)))
        BY <3>1, BlockSays
      <3> QED
        BY <3>2 DEF Walks
    <2> QED
      BY <1>2, <1>4, <2>1
  <1>8. PICK L : /\ L[0] = <<>>
                 /\ \A k \in 1..Len(ls) : L[k] = L[k - 1] \o ls[k]
                 /\ \A k \in 0..Len(ls) : IsList(L[k])
                 /\ FlattenSeq(ls) = L[Len(ls)]
    <2>1. \A i \in 1..Len(ls) : IsList(ls[i])
      BY <1>5, <1>7
    <2> QED
      BY <1>5, <2>1, FlatRun, Zenon
  <1>9. PICK X : /\ X[0] = <<>>
                 /\ \A k \in 1..Len(xs) : X[k] = X[k - 1] \o xs[k]
                 /\ \A k \in 0..Len(xs) : X[k] \in Seq(Strings)
                 /\ FlattenSeq(xs) = X[Len(xs)]
                 /\ FlattenSeq(xs) # <<>> <=> \E k \in 1..Len(xs) : xs[k] # <<>>
    <2>1. \A i \in 1..Len(xs) : xs[i] \in Seq(Strings)
      BY <1>5, <1>6
    <2> QED
      BY <1>5, <2>1, FlatTyped, Zenon
  <1>10. PICK Y : /\ Y[0] = <<>>
                  /\ \A k \in 1..Len(ys) : Y[k] = Y[k - 1] \o ys[k]
                  /\ \A k \in 0..Len(ys) : Y[k] \in Seq(Strings)
                  /\ FlattenSeq(ys) = Y[Len(ys)]
                  /\ FlattenSeq(ys) # <<>> <=> \E k \in 1..Len(ys) : ys[k] # <<>>
    <2>1. \A i \in 1..Len(ys) : ys[i] \in Seq(Strings)
      BY <1>5, <1>6
    <2> QED
      BY <1>5, <2>1, FlatTyped, Zenon
  <1>11. PICK Z : /\ Z[0] = <<>>
                  /\ \A k \in 1..Len(zs) : Z[k] = Z[k - 1] \o zs[k]
                  /\ \A k \in 0..Len(zs) : Z[k] \in Seq(Tools)
                  /\ FlattenSeq(zs) = Z[Len(zs)]
                  /\ FlattenSeq(zs) # <<>> <=> \E k \in 1..Len(zs) : zs[k] # <<>>
    <2>1. \A i \in 1..Len(zs) : zs[i] \in Seq(Tools)
      BY <1>5, <1>6
    <2> QED
      BY <1>5, <2>1, FlatTyped, Zenon
  <1> DEFINE q == At(u, seen, "open", <<>>, <<>>, <<>>)
             S == {k \in 0..n : \E s \in {"open", "call"} : Walks(L[k], q, At(u, seen, s, X[k], Y[k], Z[k]))}
  <1>12. 0 \in S
    <2>1. <<>> \in Seq(Strings) /\ <<>> \in Seq(Tools) /\ "open" \in {"open", "call"} /\ "open" \in Stages
      BY DEF Stages
    <2>2. q \in Points
      BY <2>1, AtTyped
    <2>3. Walks(<<>>, q, q)
      <3> HIDE DEF q
      <3> QED
        BY <2>2, WalkNil
    <2>4. 0 \in 0..n /\ L[0] = <<>> /\ X[0] = <<>> /\ Y[0] = <<>> /\ Z[0] = <<>>
      BY <1>2, <1>8, <1>9, <1>10, <1>11
    <2>5. Walks(L[0], q, At(u, seen, "open", X[0], Y[0], Z[0]))
      BY <2>3, <2>4
    <2> QED
      BY <2>1, <2>4, <2>5
  <1>13. ASSUME NEW k \in 1..n, k - 1 \in S PROVE k \in S
    <2>1. PICK s \in {"open", "call"} : Walks(L[k - 1], q, At(u, seen, s, X[k - 1], Y[k - 1], Z[k - 1]))
      BY <1>13
    <2>2. k - 1 \in 0..n /\ k \in 1..n /\ k \in 0..n
      BY <1>2
    <2>3. X[k - 1] \in Seq(Strings) /\ Y[k - 1] \in Seq(Strings) /\ Z[k - 1] \in Seq(Tools)
      BY <1>5, <1>9, <1>10, <1>11, <2>2
    <2>4. blocks[k] \in Parsed
      BY <1>2
    <2>5. PICK s2 \in {"open", "call"} :
             Walks(EventsOfBlock(blocks[k]), At(u, seen, s, X[k - 1], Y[k - 1], Z[k - 1]),
                   At(u, seen, s2, X[k - 1] \o TextOf(blocks[k]), Y[k - 1] \o ThinkingOf("chat", blocks[k]),
                      Z[k - 1] \o ToolsOf("chat", blocks[k])))
      BY <2>3, <2>4, BlockSays
    <2>6. /\ L[k] = L[k - 1] \o EventsOfBlock(blocks[k]) /\ X[k] = X[k - 1] \o TextOf(blocks[k])
          /\ Y[k] = Y[k - 1] \o ThinkingOf("chat", blocks[k]) /\ Z[k] = Z[k - 1] \o ToolsOf("chat", blocks[k])
      <3>1. L[k] = L[k - 1] \o ls[k]
        BY <1>5, <1>8, <2>2
      <3>2. X[k] = X[k - 1] \o xs[k]
        BY <1>5, <1>9, <2>2
      <3>3. Y[k] = Y[k - 1] \o ys[k]
        BY <1>5, <1>10, <2>2
      <3>4. Z[k] = Z[k - 1] \o zs[k]
        BY <1>5, <1>11, <2>2
      <3> QED
        BY <1>4, <2>2, <3>1, <3>2, <3>3, <3>4, Zenon
    <2>7. Walks(EventsOfBlock(blocks[k]), At(u, seen, s, X[k - 1], Y[k - 1], Z[k - 1]),
                At(u, seen, s2, X[k], Y[k], Z[k]))
      BY <2>5, <2>6
    <2> HIDE DEF q
    <2>8. Walks(L[k - 1] \o EventsOfBlock(blocks[k]), q, At(u, seen, s2, X[k], Y[k], Z[k]))
      BY <2>1, <2>7, WalkConcat
    <2> QED
      BY <2>2, <2>6, <2>8
  <1>14. n \in S
    <2>1. \A k \in 0..n : k \in S
      <3> HIDE DEF S
      <3> QED
        BY <1>2, <1>12, <1>13, UpTo
    <2> QED
      BY <1>2, <2>1
  <1>15. /\ L[n] = FlattenSeq([i \in DOMAIN blocks |-> EventsOfBlock(blocks[i])])
         /\ X[n] = AllText(blocks) /\ Y[n] = AllThinking("chat", blocks) /\ Z[n] = AllTools("chat", blocks)
    BY <1>1, <1>3, <1>5, <1>8, <1>9, <1>10, <1>11 DEF AllText, AllThinking, AllTools
  <1>16. X[n] \in Seq(Strings) /\ Y[n] \in Seq(Strings) /\ Z[n] \in Seq(Tools)
    BY <1>2, <1>5, <1>9, <1>10, <1>11
  <1> HIDE DEF q
  <1> QED
    BY <1>14, <1>15, <1>16 DEF q

\* A response told as a stream amounts to the response.
Says(r, w, c, stop, u) ==
  /\ Walks(EventsFromResponse(r), Outset, w) /\ w \in Points
  /\ w.stage = "over" /\ w.seen
  /\ w.agg.text = AllText(c) /\ w.agg.thinking = AllThinking("chat", c)
  /\ w.agg.tools = AllTools("chat", c)
  /\ w.agg.stop = <<stop>> /\ w.agg.usage = u

\* The encoders say a whole response.
LEMMA ResponseSays ==
    ASSUME NEW blocks \in Seq(Parsed), NEW u \in Tokens, NEW stop \in Strings, NEW r,
           r = Response(blocks, stop, u)
    PROVE  \E w : Says(r, w, blocks, stop, u)
  <1>1. PICK v, no, yes : v = NoTokens /\ no = FALSE /\ yes = TRUE
    OBVIOUS
  <1>2. v \in Tokens /\ Merge(v, u) = u /\ no \in BOOLEAN /\ yes \in BOOLEAN
    BY <1>1, UsageTold
  <1>3. PICK es : es = FlattenSeq([i \in DOMAIN blocks |-> EventsOfBlock(blocks[i])])
    OBVIOUS
  <1>4. PICK tx, th, tl : tx = AllText(blocks) /\ th = AllThinking("chat", blocks) /\ tl = AllTools("chat", blocks)
    OBVIOUS
  <1>5. PICK s \in {"open", "call"} : Walks(es, At(v, no, "open", <<>>, <<>>, <<>>), At(v, no, s, tx, th, tl))
    BY <1>2, <1>3, <1>4, ContentSays
  <1>6. tx \in Seq(Strings) /\ th \in Seq(Strings) /\ tl \in Seq(Tools)
    BY <1>2, <1>4, ContentSays
  <1>7. Walks(<<MessageStart>>, At(v, no, "none", <<>>, <<>>, <<>>), At(v, no, "open", <<>>, <<>>, <<>>))
    <2>1. <<>> \in Seq(Strings) /\ <<>> \in Seq(Tools)
      OBVIOUS
    <2> QED
      BY <1>2, <2>1, AtBegin
  <1>8. Walks(<<UsageDelta(u)>>, At(v, no, s, tx, th, tl), At(u, yes, s, tx, th, tl))
    <2>1. Walks(<<UsageDelta(u)>>, At(v, no, s, tx, th, tl), At(Merge(v, u), TRUE, s, tx, th, tl))
      BY <1>2, <1>6, AtUsage
    <2> QED
      BY <1>1, <1>2, <2>1
  <1>9. Walks(<<Done(stop)>>, At(u, yes, s, tx, th, tl), Over(u, yes, tx, th, tl, stop))
    BY <1>2, <1>6, AtDone
  <1>10. Outset = At(v, no, "none", <<>>, <<>>, <<>>)
    BY <1>1 DEF Outset, At, NewAggregator
  <1>11. EventsFromResponse(r) = <<MessageStart>> \o es \o <<UsageDelta(u), Done(stop)>>
    BY <1>3 DEF EventsFromResponse, Response, Each
  <1>12. PICK o, a, b, c, w : /\ o = Outset /\ a = At(v, no, "open", <<>>, <<>>, <<>>) /\ b = At(v, no, s, tx, th, tl)
                              /\ c = At(u, yes, s, tx, th, tl) /\ w = Over(u, yes, tx, th, tl, stop)
    OBVIOUS
  <1>13. PICK ms, ds : ms = <<MessageStart>> /\ ds = <<UsageDelta(u), Done(stop)>>
    OBVIOUS
  <1>14. Walks(ds, b, w)
    <2>1. Walks(<<UsageDelta(u)>>, b, c) /\ Walks(<<Done(stop)>>, c, w)
      BY <1>8, <1>9, <1>12
    <2>2. Walks(<<UsageDelta(u)>> \o <<Done(stop)>>, b, w)
      BY <2>1, WalkTwo
    <2> QED
      BY <1>13, <2>2, TwoOnes
  <1>15. Walks(ms, o, a) /\ Walks(es, a, b)
    BY <1>5, <1>7, <1>10, <1>12, <1>13
  <1>16. Walks((ms \o es) \o ds, o, w)
    <2>1. Walks(ms \o es, o, b)
      BY <1>15, WalkConcat
    <2> QED
      BY <1>14, <2>1, WalkConcat
  <1>17. Walks(EventsFromResponse(r), Outset, w)
    BY <1>11, <1>12, <1>13, <1>16
  <1>18. w \in Points
    BY <1>17 DEF Walks, WalksBy
  <1>19. /\ w.stage = "over" /\ w.seen /\ w.agg.text = tx /\ w.agg.thinking = th /\ w.agg.tools = tl
         /\ w.agg.stop = <<stop>> /\ w.agg.usage = u
    BY <1>1, <1>12 DEF Over
  <1> QED
    BY <1>4, <1>17, <1>18, <1>19 DEF Says

-----------------------------------------------------------------------------
(* What sequences of blocks say, put together                              *)

\* Flattening two lists of lists in a row.
LEMMA FlatConcat ==
    ASSUME NEW ss, NEW tt, IsList(ss), IsList(tt), \A k \in 1..Len(ss) : IsList(ss[k]),
           \A k \in 1..Len(tt) : IsList(tt[k])
    PROVE  /\ FlattenSeq(ss \o tt) = FlattenSeq(ss) \o FlattenSeq(tt)
           /\ IsList(FlattenSeq(ss)) /\ IsList(FlattenSeq(tt))
  <1>1. PICK m, n, st : m = Len(ss) /\ n = Len(tt) /\ st = ss \o tt
    OBVIOUS
  <1>2. m \in Nat /\ n \in Nat
    BY <1>1, ListFacts
  <1>3. /\ IsList(st) /\ Len(st) = m + n /\ \A k \in 1..m : st[k] = ss[k]
        /\ \A k \in 1..n : st[m + k] = tt[k]
    BY <1>1, ListConcat
  <1>4. PICK Q : /\ Q[0] = <<>>
                 /\ \A k \in 1..Len(ss) : Q[k] = Q[k - 1] \o ss[k]
                 /\ \A k \in 0..Len(ss) : IsList(Q[k])
                 /\ FlattenSeq(ss) = Q[Len(ss)]
    BY FlatRun, Zenon
  <1>5. PICK T : /\ T[0] = <<>>
                 /\ \A k \in 1..Len(tt) : T[k] = T[k - 1] \o tt[k]
                 /\ \A k \in 0..Len(tt) : IsList(T[k])
                 /\ FlattenSeq(tt) = T[Len(tt)]
    BY FlatRun, Zenon
  <1>6. PICK R : /\ R[0] = <<>>
                 /\ \A k \in 1..Len(st) : R[k] = R[k - 1] \o st[k]
                 /\ \A k \in 0..Len(st) : IsList(R[k])
                 /\ FlattenSeq(st) = R[Len(st)]
    <2>1. ASSUME NEW k \in 1..Len(st) PROVE IsList(st[k])
      <3>1. CASE k <= m
        <4>1. k \in 1..m
          BY <1>2, <3>1
        <4> QED
          BY <1>1, <1>3, <4>1
      <3>2. CASE ~(k <= m)
        <4>1. k - m \in 1..n /\ m + (k - m) = k
          BY <1>2, <1>3, <3>2
        <4> QED
          BY <1>1, <1>3, <4>1
      <3> QED
        BY <3>1, <3>2
    <2> QED
      BY <1>3, <2>1, FlatRun, Zenon
  <1> DEFINE S == {k \in 0..m : R[k] = Q[k]}
             U == {k \in 0..n : R[m + k] = Q[m] \o T[k]}
  <1>7. 0 \in S
    BY <1>2, <1>4, <1>6
  <1>8. ASSUME NEW k \in 1..m, k - 1 \in S PROVE k \in S
    <2>1. k \in 1..Len(st) /\ k \in 1..Len(ss) /\ k \in 0..m
      BY <1>1, <1>2, <1>3
    <2>2. R[k] = R[k - 1] \o ss[k] /\ Q[k] = Q[k - 1] \o ss[k]
      BY <1>3, <1>4, <1>6, <2>1, Zenon
    <2> QED
      BY <1>8, <2>1, <2>2, Zenon
  <1>9. R[m] = Q[m]
    <2>1. \A k \in 0..m : k \in S
      <3> HIDE DEF S
      <3> QED
        BY <1>2, <1>7, <1>8, UpTo
    <2> QED
      BY <1>2, <2>1
  <1>10. IsList(Q[m])
    BY <1>1, <1>2, <1>4
  <1>11. 0 \in U
    <2>1. Q[m] \o <<>> = Q[m]
      BY <1>10, ConcatNil
    <2>2. m + 0 = m /\ 0 \in 0..n /\ T[0] = <<>>
      BY <1>2, <1>5
    <2>3. R[m + 0] = Q[m] \o T[0]
      BY <1>9, <2>1, <2>2
    <2> QED
      BY <2>2, <2>3
  <1>12. ASSUME NEW k \in 1..n, k - 1 \in U PROVE k \in U
    <2>1. /\ m + k \in 1..Len(st) /\ k \in 1..Len(tt) /\ k \in 0..n /\ (m + k) - 1 = m + (k - 1)
          /\ k - 1 \in 0..Len(tt)
      BY <1>1, <1>2, <1>3
    <2>2. R[m + k] = R[m + (k - 1)] \o tt[k]
      <3>1. R[m + k] = R[(m + k) - 1] \o st[m + k]
        BY <1>6, <2>1
      <3> QED
        BY <1>3, <2>1, <3>1
    <2>3. R[m + (k - 1)] = Q[m] \o T[k - 1] /\ T[k] = T[k - 1] \o tt[k]
      BY <1>5, <1>12, <2>1
    <2>4. IsList(T[k - 1]) /\ IsList(tt[k])
      BY <1>1, <1>5, <2>1
    <2>5. PICK x, y, z : x = Q[m] /\ y = T[k - 1] /\ z = tt[k]
      OBVIOUS
    <2>6. (x \o y) \o z = x \o (y \o z)
      <3>1. IsList(x) /\ IsList(y) /\ IsList(z)
        BY <1>10, <2>4, <2>5
      <3> HIDE DEF S, U
      <3> QED
        BY <3>1, ConcatAssoc, Z3
    <2>7. R[m + k] = Q[m] \o T[k]
      BY <2>2, <2>3, <2>5, <2>6
    <2> QED
      BY <2>1, <2>7
  <1>13. R[m + n] = Q[m] \o T[n]
    <2>1. \A k \in 0..n : k \in U
      <3> HIDE DEF U
      <3> QED
        BY <1>2, <1>11, <1>12, UpTo
    <2>2. n \in 0..n
      BY <1>2
    <2>3. n \in U
      <3> HIDE DEF U
      <3> QED
        BY <2>1, <2>2
    <2> QED
      BY <2>3
  <1>14. IsList(FlattenSeq(ss)) /\ IsList(FlattenSeq(tt))
    BY <1>1, <1>2, <1>4, <1>5
  <1>15. FlattenSeq(st) = FlattenSeq(ss) \o FlattenSeq(tt)
    BY <1>1, <1>3, <1>4, <1>5, <1>6, <1>13
  <1> QED
    BY <1>1, <1>14, <1>15

\* What two lists in a row are, and what is the same.
LEMMA InARow ==
    ASSUME NEW p, NEW q, NEW s, IsList(p), IsList(q), s = p \o q
    PROVE  /\ IsList(s) /\ Len(s) = Len(p) + Len(q)
           /\ \A i \in 1..Len(p) : s[i] = p[i]
           /\ \A i \in 1..Len(q) : s[Len(p) + i] = q[i]
  BY ListConcat

\* A list given by its two halves is their concatenation.
LEMMA MapConcat ==
    ASSUME NEW p, NEW q, NEW r, IsList(p), IsList(q), IsList(r), Len(r) = Len(p) + Len(q),
           \A i \in 1..Len(p) : r[i] = p[i], \A i \in 1..Len(q) : r[Len(p) + i] = q[i]
    PROVE  r = p \o q
  <1>1. PICK s, m, n : s = p \o q /\ m = Len(p) /\ n = Len(q)
    OBVIOUS
  <1>2. m \in Nat /\ n \in Nat
    BY <1>1, ListFacts
  <1>3. IsList(s) /\ Len(s) = m + n
    BY <1>1, InARow
  <1>4. \A i \in 1..m : s[i] = p[i]
    BY <1>1, InARow
  <1>5. \A i \in 1..n : s[m + i] = q[i]
    BY <1>1, InARow
  <1>6. ASSUME NEW i \in 1..(m + n) PROVE r[i] = s[i]
    <2>1. CASE i <= m
      <3>1. i \in 1..m
        BY <1>2, <2>1
      <3> QED
        BY <1>1, <1>4, <3>1
    <2>2. CASE ~(i <= m)
      <3>1. i - m \in 1..n /\ m + (i - m) = i
        BY <1>2, <2>2
      <3>2. PICK j : j \in 1..n /\ m + j = i
        BY <3>1
      <3>3. s[m + j] = q[j]
        BY <1>5, <3>2
      <3>4. r[m + j] = q[j]
        BY <1>1, <3>2
      <3> QED
        BY <3>2, <3>3, <3>4
    <2> QED
      BY <2>1, <2>2
  <1>7. r = s
    BY <1>1, <1>3, <1>6, ListSame
  <1> QED
    BY <1>1, <1>7

\* Blocks in a row say what they say one after the other.
LEMMA AllConcat ==
    ASSUME NEW up, NEW a \in Seq(Parsed), NEW b \in Seq(Parsed)
    PROVE  /\ a \o b \in Seq(Parsed)
           /\ AllText(a \o b) = AllText(a) \o AllText(b)
           /\ AllThinking(up, a \o b) = AllThinking(up, a) \o AllThinking(up, b)
           /\ AllTools(up, a \o b) = AllTools(up, a) \o AllTools(up, b)
  <1>1. PICK m, n, c : m = Len(a) /\ n = Len(b) /\ c = a \o b
    OBVIOUS
  <1>2. /\ m \in Nat /\ n \in Nat /\ DOMAIN a = 1..m /\ DOMAIN b = 1..n
        /\ \A i \in 1..m : a[i] \in Parsed
        /\ \A i \in 1..n : b[i] \in Parsed
    BY <1>1
  <1>3. c \in Seq(Parsed) /\ DOMAIN c = 1..(m + n) /\ (\A i \in 1..m : c[i] = a[i])
        /\ \A i \in 1..n : c[m + i] = b[i]
    <2>1. c \in Seq(Parsed)
      BY <1>1
    <2>2. IsList(a) /\ IsList(b)
      BY SeqIsList
    <2>3. Len(c) = m + n /\ (\A i \in 1..m : c[i] = a[i]) /\ \A i \in 1..n : c[m + i] = b[i]
      BY <1>1, <2>2, ListConcat
    <2>4. DOMAIN c = 1..(m + n)
      BY <2>1, <2>3
    <2> QED
      BY <2>1, <2>3, <2>4
  <1>4. AllText(c) = AllText(a) \o AllText(b)
    <2>1. PICK p, q, r : /\ p = [i \in DOMAIN a |-> TextOf(a[i])] /\ q = [i \in DOMAIN b |-> TextOf(b[i])]
                         /\ r = [i \in DOMAIN c |-> TextOf(c[i])]
      OBVIOUS
    <2>2. /\ p = [i \in 1..m |-> p[i]] /\ q = [i \in 1..n |-> q[i]] /\ r = [i \in 1..(m + n) |-> r[i]]
          /\ \A i \in 1..m : p[i] = TextOf(a[i])
          /\ \A i \in 1..n : q[i] = TextOf(b[i])
      BY <1>2, <1>3, <2>1
    <2>3. (\A i \in 1..m : r[i] = p[i]) /\ \A i \in 1..n : r[m + i] = q[i]
      <3>1. (\A i \in 1..m : i \in DOMAIN c) /\ \A i \in 1..n : m + i \in DOMAIN c
        BY <1>2, <1>3
      <3> QED
        BY <1>3, <2>1, <2>2, <3>1
    <2>4. IsList(p) /\ Len(p) = m /\ IsList(q) /\ Len(q) = n /\ IsList(r) /\ Len(r) = m + n
      <3>1. m + n \in Nat
        BY <1>2
      <3> QED
        BY <1>2, <2>2, <3>1, ListMake
    <2>5. r = p \o q
      BY <2>3, <2>4, MapConcat
    <2>6. (\A i \in 1..Len(p) : IsList(p[i])) /\ \A i \in 1..Len(q) : IsList(q[i])
      BY <1>2, <2>2, <2>4, ParsedTyped, SeqIsList
    <2>7. FlattenSeq(p \o q) = FlattenSeq(p) \o FlattenSeq(q)
      BY <2>4, <2>6, FlatConcat
    <2> QED
      BY <2>1, <2>5, <2>7 DEF AllText
  <1>5. AllThinking(up, c) = AllThinking(up, a) \o AllThinking(up, b)
    <2>1. PICK p, q, r : /\ p = [i \in DOMAIN a |-> ThinkingOf(up, a[i])] /\ q = [i \in DOMAIN b |-> ThinkingOf(up, b[i])]
                         /\ r = [i \in DOMAIN c |-> ThinkingOf(up, c[i])]
      OBVIOUS
    <2>2. /\ p = [i \in 1..m |-> p[i]] /\ q = [i \in 1..n |-> q[i]] /\ r = [i \in 1..(m + n) |-> r[i]]
          /\ \A i \in 1..m : p[i] = ThinkingOf(up, a[i])
          /\ \A i \in 1..n : q[i] = ThinkingOf(up, b[i])
      BY <1>2, <1>3, <2>1
    <2>3. (\A i \in 1..m : r[i] = p[i]) /\ \A i \in 1..n : r[m + i] = q[i]
      <3>1. (\A i \in 1..m : i \in DOMAIN c) /\ \A i \in 1..n : m + i \in DOMAIN c
        BY <1>2, <1>3
      <3> QED
        BY <1>3, <2>1, <2>2, <3>1
    <2>4. IsList(p) /\ Len(p) = m /\ IsList(q) /\ Len(q) = n /\ IsList(r) /\ Len(r) = m + n
      <3>1. m + n \in Nat
        BY <1>2
      <3> QED
        BY <1>2, <2>2, <3>1, ListMake
    <2>5. r = p \o q
      BY <2>3, <2>4, MapConcat
    <2>6. (\A i \in 1..Len(p) : IsList(p[i])) /\ \A i \in 1..Len(q) : IsList(q[i])
      BY <1>2, <2>2, <2>4, ParsedTyped, SeqIsList
    <2>7. FlattenSeq(p \o q) = FlattenSeq(p) \o FlattenSeq(q)
      BY <2>4, <2>6, FlatConcat
    <2> QED
      BY <2>1, <2>5, <2>7 DEF AllThinking
  <1>6. AllTools(up, c) = AllTools(up, a) \o AllTools(up, b)
    <2>1. PICK p, q, r : /\ p = [i \in DOMAIN a |-> ToolsOf(up, a[i])] /\ q = [i \in DOMAIN b |-> ToolsOf(up, b[i])]
                         /\ r = [i \in DOMAIN c |-> ToolsOf(up, c[i])]
      OBVIOUS
    <2>2. /\ p = [i \in 1..m |-> p[i]] /\ q = [i \in 1..n |-> q[i]] /\ r = [i \in 1..(m + n) |-> r[i]]
          /\ \A i \in 1..m : p[i] = ToolsOf(up, a[i])
          /\ \A i \in 1..n : q[i] = ToolsOf(up, b[i])
      BY <1>2, <1>3, <2>1
    <2>3. (\A i \in 1..m : r[i] = p[i]) /\ \A i \in 1..n : r[m + i] = q[i]
      <3>1. (\A i \in 1..m : i \in DOMAIN c) /\ \A i \in 1..n : m + i \in DOMAIN c
        BY <1>2, <1>3
      <3> QED
        BY <1>3, <2>1, <2>2, <3>1
    <2>4. IsList(p) /\ Len(p) = m /\ IsList(q) /\ Len(q) = n /\ IsList(r) /\ Len(r) = m + n
      <3>1. m + n \in Nat
        BY <1>2
      <3> QED
        BY <1>2, <2>2, <3>1, ListMake
    <2>5. r = p \o q
      BY <2>3, <2>4, MapConcat
    <2>6. (\A i \in 1..Len(p) : IsList(p[i])) /\ \A i \in 1..Len(q) : IsList(q[i])
      BY <1>2, <2>2, <2>4, ParsedTyped, SeqIsList
    <2>7. FlattenSeq(p \o q) = FlattenSeq(p) \o FlattenSeq(q)
      BY <2>4, <2>6, FlatConcat
    <2> QED
      BY <2>1, <2>5, <2>7 DEF AllTools
  <1> QED
    BY <1>1, <1>3, <1>4, <1>5, <1>6

\* No block says nothing, and one says what it says.
LEMMA AllNil ==
    ASSUME NEW up
    PROVE  AllText(<<>>) = <<>> /\ AllThinking(up, <<>>) = <<>> /\ AllTools(up, <<>>) = <<>>
  <1>1. ASSUME NEW f, f = [i \in 1..0 |-> f[i]] PROVE FlattenSeq(f) = <<>>
    BY <1>1, ListMake, FlatNil
  <1>2. PICK p, q, r : /\ p = [i \in DOMAIN <<>> |-> TextOf(<<>>[i])]
                       /\ q = [i \in DOMAIN <<>> |-> ThinkingOf(up, <<>>[i])]
                       /\ r = [i \in DOMAIN <<>> |-> ToolsOf(up, <<>>[i])]
    OBVIOUS
  <1>3. p = [i \in 1..0 |-> p[i]] /\ q = [i \in 1..0 |-> q[i]] /\ r = [i \in 1..0 |-> r[i]]
    BY <1>2
  <1>4. FlattenSeq(p) = <<>> /\ FlattenSeq(q) = <<>> /\ FlattenSeq(r) = <<>>
    BY <1>1, <1>3
  <1> QED
    BY <1>2, <1>4, Zenon DEF AllText, AllThinking, AllTools

\* What one block amounts to.
LEMMA AllOne ==
    ASSUME NEW up, NEW b \in Parsed
    PROVE  /\ <<b>> \in Seq(Parsed) /\ AllText(<<b>>) = TextOf(b)
           /\ AllThinking(up, <<b>>) = ThinkingOf(up, b) /\ AllTools(up, <<b>>) = ToolsOf(up, b)
  <1>1. PICK o : o = <<b>>
    OBVIOUS
  <1>2. o \in Seq(Parsed) /\ DOMAIN o = 1..1 /\ o[1] = b
    BY <1>1
  <1>3. PICK p, q, r : /\ p = [i \in DOMAIN o |-> TextOf(o[i])]
                       /\ q = [i \in DOMAIN o |-> ThinkingOf(up, o[i])]
                       /\ r = [i \in DOMAIN o |-> ToolsOf(up, o[i])]
    OBVIOUS
  <1>4. /\ p = [i \in 1..1 |-> p[i]] /\ q = [i \in 1..1 |-> q[i]] /\ r = [i \in 1..1 |-> r[i]]
        /\ p[1] = TextOf(b) /\ q[1] = ThinkingOf(up, b) /\ r[1] = ToolsOf(up, b)
    BY <1>2, <1>3
  <1>5. IsList(p) /\ Len(p) = 1 /\ IsList(q) /\ Len(q) = 1 /\ IsList(r) /\ Len(r) = 1
    BY <1>4, ListMake
  <1>6. IsList(p[1]) /\ IsList(q[1]) /\ IsList(r[1])
    BY <1>4, ParsedTyped, SeqIsList
  <1>7. FlattenSeq(p) = p[1] /\ FlattenSeq(q) = q[1] /\ FlattenSeq(r) = r[1]
    BY <1>5, <1>6, FlatOne
  <1> QED
    BY <1>1, <1>2, <1>3, <1>4, <1>7 DEF AllText, AllThinking, AllTools

\* Blocks, and what they say: text, thinking and calls.
Amounts(c, x, y, z) ==
  c \in Seq(Parsed) /\ AllText(c) = x /\ AllThinking("chat", c) = y /\ AllTools("chat", c) = z

\* No block, one block, and blocks in a row.
LEMMA AmountsNil == Amounts(<<>>, <<>>, <<>>, <<>>)
  <1>1. <<>> \in Seq(Parsed)
    OBVIOUS
  <1> QED
    BY <1>1, AllNil, Zenon DEF Amounts

\* A block amounts to its text, its thought and its calls.
LEMMA AmountsOne ==
    ASSUME NEW b \in Parsed
    PROVE  Amounts(<<b>>, TextOf(b), ThinkingOf("chat", b), ToolsOf("chat", b))
  BY AllOne, Zenon DEF Amounts

\* Amounts add up.
LEMMA AmountsConcat ==
    ASSUME NEW c, NEW x, NEW y, NEW z, NEW d, NEW p, NEW q, NEW r, Amounts(c, x, y, z), Amounts(d, p, q, r)
    PROVE  Amounts(c \o d, x \o p, y \o q, z \o r)
  <1>1. c \in Seq(Parsed) /\ d \in Seq(Parsed)
    BY DEF Amounts
  <1>2. /\ c \o d \in Seq(Parsed)
        /\ AllText(c \o d) = AllText(c) \o AllText(d)
        /\ AllThinking("chat", c \o d) = AllThinking("chat", c) \o AllThinking("chat", d)
        /\ AllTools("chat", c \o d) = AllTools("chat", c) \o AllTools("chat", d)
    BY <1>1, AllConcat
  <1> QED
    BY <1>2, Zenon DEF Amounts

\* Amounts are lists of what they count.
LEMMA AmountsLists ==
    ASSUME NEW c, NEW x, NEW y, NEW z, Amounts(c, x, y, z)
    PROVE  IsList(c) /\ IsList(x) /\ IsList(y) /\ IsList(z) /\ x \in Seq(Strings) /\ y \in Seq(Strings) /\ z \in Seq(Tools)
  <1>1. c \in Seq(Parsed)
    BY DEF Amounts
  <1>2. PICK u, no : u = NoTokens /\ no = FALSE
    OBVIOUS
  <1>3. u \in Tokens /\ no \in BOOLEAN
    BY <1>2 DEF NoTokens, Tokens
  <1>4. AllText(c) \in Seq(Strings) /\ AllThinking("chat", c) \in Seq(Strings) /\ AllTools("chat", c) \in Seq(Tools)
    BY <1>1, <1>3, ContentSays
  <1>5. x \in Seq(Strings) /\ y \in Seq(Strings) /\ z \in Seq(Tools)
    BY <1>4, Zenon DEF Amounts
  <1> QED
    BY <1>1, <1>5, SeqIsList

\* Lists of blocks in a row.
LEMMA AmountsFlat ==
    ASSUME NEW n \in Nat, NEW cs, NEW xs, NEW ys, NEW zs,
           IsList(cs), IsList(xs), IsList(ys), IsList(zs),
           Len(cs) = n, Len(xs) = n, Len(ys) = n, Len(zs) = n,
           \A i \in 1..n : Amounts(cs[i], xs[i], ys[i], zs[i])
    PROVE  Amounts(FlattenSeq(cs), FlattenSeq(xs), FlattenSeq(ys), FlattenSeq(zs))
  <1>1. ASSUME NEW i \in 1..n PROVE IsList(cs[i]) /\ IsList(xs[i]) /\ IsList(ys[i]) /\ IsList(zs[i])
    BY AmountsLists
  <1>2. PICK C : /\ C[0] = <<>>
                 /\ \A k \in 1..Len(cs) : C[k] = C[k - 1] \o cs[k]
                 /\ \A k \in 0..Len(cs) : IsList(C[k])
                 /\ FlattenSeq(cs) = C[Len(cs)]
    <2>1. \A i \in 1..Len(cs) : IsList(cs[i])
      BY <1>1
    <2> QED
      BY <2>1, FlatRun, Zenon
  <1>3. PICK X : /\ X[0] = <<>>
                 /\ \A k \in 1..Len(xs) : X[k] = X[k - 1] \o xs[k]
                 /\ \A k \in 0..Len(xs) : IsList(X[k])
                 /\ FlattenSeq(xs) = X[Len(xs)]
    <2>1. \A i \in 1..Len(xs) : IsList(xs[i])
      BY <1>1
    <2> QED
      BY <2>1, FlatRun, Zenon
  <1>4. PICK Y : /\ Y[0] = <<>>
                 /\ \A k \in 1..Len(ys) : Y[k] = Y[k - 1] \o ys[k]
                 /\ \A k \in 0..Len(ys) : IsList(Y[k])
                 /\ FlattenSeq(ys) = Y[Len(ys)]
    <2>1. \A i \in 1..Len(ys) : IsList(ys[i])
      BY <1>1
    <2> QED
      BY <2>1, FlatRun, Zenon
  <1>5. PICK Z : /\ Z[0] = <<>>
                 /\ \A k \in 1..Len(zs) : Z[k] = Z[k - 1] \o zs[k]
                 /\ \A k \in 0..Len(zs) : IsList(Z[k])
                 /\ FlattenSeq(zs) = Z[Len(zs)]
    <2>1. \A i \in 1..Len(zs) : IsList(zs[i])
      BY <1>1
    <2> QED
      BY <2>1, FlatRun, Zenon
  <1> DEFINE S == {k \in 0..n : Amounts(C[k], X[k], Y[k], Z[k])}
  <1>6. 0 \in S
    <2>1. 0 \in 0..n
      OBVIOUS
    <2> QED
      BY <1>2, <1>3, <1>4, <1>5, <2>1, AmountsNil
  <1>7. ASSUME NEW k \in 1..n, k - 1 \in S PROVE k \in S
    <2>1. k \in 0..n
      OBVIOUS
    <2>2. Amounts(C[k - 1], X[k - 1], Y[k - 1], Z[k - 1])
      BY <1>7
    <2>3. Amounts(cs[k], xs[k], ys[k], zs[k])
      OBVIOUS
    <2>4. Amounts(C[k - 1] \o cs[k], X[k - 1] \o xs[k], Y[k - 1] \o ys[k], Z[k - 1] \o zs[k])
      BY <2>2, <2>3, AmountsConcat
    <2>5. C[k] = C[k - 1] \o cs[k] /\ X[k] = X[k - 1] \o xs[k] /\ Y[k] = Y[k - 1] \o ys[k]
          /\ Z[k] = Z[k - 1] \o zs[k]
      BY <1>2, <1>3, <1>4, <1>5
    <2>6. Amounts(C[k], X[k], Y[k], Z[k])
      BY <2>4, <2>5
    <2> QED
      BY <2>1, <2>6
  <1>8. n \in S
    <2>1. \A k \in 0..n : k \in S
      <3> HIDE DEF S
      <3> QED
        BY <1>6, <1>7, UpTo
    <2> QED
      BY <2>1
  <1> QED
    BY <1>2, <1>3, <1>4, <1>5, <1>8

\* Flattening nothings, and singletons.
LEMMA FlatNone ==
    ASSUME NEW ss, IsList(ss), \A k \in 1..Len(ss) : ss[k] = <<>>
    PROVE  FlattenSeq(ss) = <<>>
  <1>1. ASSUME NEW k \in 1..Len(ss) PROVE ss[k] \in Seq(Strings)
    <2>1. <<>> \in Seq(Strings)
      OBVIOUS
    <2> QED
      BY <2>1
  <1>2. FlattenSeq(ss) # <<>> <=> \E k \in 1..Len(ss) : ss[k] # <<>>
    BY <1>1, FlatTyped, Zenon
  <1> QED
    BY <1>2

\* Lists of one flatten to their elements.
LEMMA FlatSingles ==
    ASSUME NEW n \in Nat, NEW ss, NEW g, IsList(ss), Len(ss) = n, IsList(g), Len(g) = n,
           \A k \in 1..n : ss[k] = <<g[k]>>
    PROVE  FlattenSeq(ss) = g
  <1>1. \A k \in 1..Len(ss) : IsList(ss[k])
    BY ListOne
  <1>2. PICK C : /\ C[0] = <<>>
                 /\ \A k \in 1..Len(ss) : C[k] = C[k - 1] \o ss[k]
                 /\ \A k \in 0..Len(ss) : IsList(C[k])
                 /\ FlattenSeq(ss) = C[Len(ss)]
    BY <1>1, FlatRun, Zenon
  <1> DEFINE S == {k \in 0..n : Len(C[k]) = k /\ \A i \in 1..k : C[k][i] = g[i]}
  <1>3. 0 \in S
    BY <1>2, ListEmpty
  <1>4. ASSUME NEW k \in 1..n, k - 1 \in S PROVE k \in S
    <2>1. PICK c, d : c = C[k - 1] /\ d = C[k]
      OBVIOUS
    <2>2. IsList(c) /\ Len(c) = k - 1 /\ (\A i \in 1..(k - 1) : c[i] = g[i]) /\ d = c \o <<g[k]>>
      <3>1. k - 1 \in 0..Len(ss) /\ C[k] = C[k - 1] \o ss[k] /\ ss[k] = <<g[k]>>
        BY <1>2
      <3> QED
        BY <1>2, <1>4, <2>1, <3>1
    <2>3. d = Append(c, g[k])
      BY <2>2, ListEmpty, ConcatAppend
    <2>4. Len(d) = k /\ (\A i \in 1..(k - 1) : d[i] = g[i]) /\ d[k] = g[k]
      BY <2>2, <2>3, ListAppend
    <2> QED
      BY <2>1, <2>4
  <1>5. n \in S
    <2>1. \A k \in 0..n : k \in S
      <3> HIDE DEF S
      <3> QED
        BY <1>3, <1>4, UpTo
    <2> QED
      BY <2>1
  <1>6. IsList(C[n])
    BY <1>2
  <1>7. C[n] = g
    BY <1>5, <1>6, ListSame
  <1> QED
    BY <1>2, <1>7

\* The blocks of an answer are blocks.
LEMMA BlocksParsed ==
    ASSUME NEW blocks \in Seq(Blocks)
    PROVE  blocks \in Seq(Parsed)
  <1>1. ASSUME NEW b \in Blocks PROVE b \in Parsed
    <2>1. CASE b.type = "tool_use"
      <3>1. b \in [type : {"tool_use"}, id : STRING, name : STRING, input : STRING]
        BY <2>1 DEF Blocks
      <3> QED
        BY <3>1 DEF Parsed, Strings
    <2>2. CASE b.type # "tool_use"
      <3>1. b \in [type : {"text", "thinking"}, text : Seq(STRING)]
        BY <2>2 DEF Blocks
      <3>2. b.text \in Seq(Strings)
        BY <3>1, SeqStrings
      <3> QED
        BY <3>1, <3>2 DEF Parsed
    <2> QED
      BY <2>1, <2>2
  <1>2. \A i \in 1..Len(blocks) : blocks[i] \in Parsed
    BY <1>1
  <1> QED
    BY <1>2

\* A sequence made place by place.
LEMMA SeqMake ==
    ASSUME NEW S, NEW n \in Nat, NEW s, s = [i \in 1..n |-> s[i]], \A i \in 1..n : s[i] \in S
    PROVE  s \in Seq(S)
  <1>1. s \in [1..n -> S]
    BY Zenon
  <1> QED
    BY <1>1

\* A block that is a call, and what a block is to EmitChat.
ToolBlocks == [type : {"tool_use"}, id : Strings, name : Strings, input : Strings]

\* A block is a call or says something.
LEMMA ToolBlockIs ==
    ASSUME NEW b \in Parsed
    PROVE  /\ b.type = "tool_use" => b \in ToolBlocks
           /\ b.type # "tool_use" => b.type \in {"text", "thinking"} /\ b.text \in Seq(Strings)
           /\ TextOf(b) = IF b.type = "text" THEN b.text ELSE <<>>
           /\ ThinkingOf("chat", b) = IF b.type = "thinking" THEN b.text ELSE <<>>
           /\ ToolsOf("chat", b) = IF b.type = "tool_use"
                                   THEN <<Tool(b.id, b.name, Serialised(b.input))>> ELSE <<>>
           /\ b.type = "tool_use" => TextOf(b) = <<>> /\ ThinkingOf("chat", b) = <<>>
  BY DEF Parsed, ToolBlocks, TextOf, ThinkingOf, ToolsOf

\* The texts, the thinking and the calls of blocks, as the encoders take them.
LEMMA SaidIs ==
    ASSUME NEW c \in Seq(Parsed)
    PROVE  Said(c, "text") = AllText(c) /\ Said(c, "thinking") = AllThinking("chat", c)
  <1>1. \A i \in DOMAIN c : c[i] \in Parsed
    OBVIOUS
  <1>2. PICK p, q, r, s :
           /\ p = [i \in DOMAIN c |-> IF c[i].type = "text" THEN c[i].text ELSE <<>>]
           /\ q = [i \in DOMAIN c |-> TextOf(c[i])]
           /\ r = [i \in DOMAIN c |-> IF c[i].type = "thinking" THEN c[i].text ELSE <<>>]
           /\ s = [i \in DOMAIN c |-> ThinkingOf("chat", c[i])]
    OBVIOUS
  <1>3. p = q /\ r = s
    BY <1>2 DEF TextOf, ThinkingOf
  <1>4. Said(c, "text") = FlattenSeq(p) /\ Said(c, "thinking") = FlattenSeq(r)
    BY <1>2 DEF Said, Each
  <1> QED
    BY <1>2, <1>3, <1>4 DEF AllText, AllThinking

\* The calls of a body amount to its tools.
LEMMA CallsAmount ==
    ASSUME NEW c \in Seq(Parsed)
    PROVE  Amounts(Calls(c), <<>>, <<>>, AllTools("chat", c)) /\ Calls(c) \in Seq(ToolBlocks)
  <1>1. PICK n : n = Len(c)
    OBVIOUS
  <1>2. n \in Nat /\ DOMAIN c = 1..n /\ \A i \in 1..n : c[i] \in Parsed
    BY <1>1
  <1>3. PICK cs, xs, zs : /\ cs = [i \in DOMAIN c |-> Opt(c[i].type = "tool_use", c[i])]
                          /\ xs = [i \in DOMAIN c |-> <<>>]
                          /\ zs = [i \in DOMAIN c |-> ToolsOf("chat", c[i])]
    OBVIOUS
  <1>4. /\ cs = [i \in 1..n |-> cs[i]] /\ xs = [i \in 1..n |-> xs[i]] /\ zs = [i \in 1..n |-> zs[i]]
        /\ \A i \in 1..n : /\ cs[i] = IF c[i].type = "tool_use" THEN <<c[i]>> ELSE <<>>
                           /\ xs[i] = <<>> /\ zs[i] = ToolsOf("chat", c[i])
    BY <1>2, <1>3 DEF Opt
  <1>5. IsList(cs) /\ Len(cs) = n /\ IsList(xs) /\ Len(xs) = n /\ IsList(zs) /\ Len(zs) = n
    BY <1>2, <1>4, ListMake
  <1>6. ASSUME NEW i \in 1..n PROVE Amounts(cs[i], xs[i], xs[i], zs[i]) /\ cs[i] \in Seq(ToolBlocks)
    <2>1. PICK b : b = c[i]
      OBVIOUS
    <2>2. b \in Parsed
      BY <1>2, <2>1
    <2>3. CASE b.type = "tool_use"
      <3>1. Amounts(<<b>>, TextOf(b), ThinkingOf("chat", b), ToolsOf("chat", b))
        BY <2>2, AmountsOne
      <3>2. TextOf(b) = <<>> /\ ThinkingOf("chat", b) = <<>> /\ b \in ToolBlocks
        BY <2>2, <2>3, ToolBlockIs
      <3>3. cs[i] = <<b>> /\ xs[i] = <<>> /\ zs[i] = ToolsOf("chat", b)
        BY <1>4, <2>1, <2>3
      <3>4. <<b>> \in Seq(ToolBlocks)
        BY <3>2, SeqOne
      <3> QED
        BY <3>1, <3>2, <3>3, <3>4
    <2>4. CASE b.type # "tool_use"
      <3>1. ToolsOf("chat", b) = <<>>
        BY <2>4 DEF ToolsOf
      <3>2. cs[i] = <<>> /\ xs[i] = <<>> /\ zs[i] = <<>>
        BY <1>4, <2>1, <2>4, <3>1
      <3>3. <<>> \in Seq(ToolBlocks)
        OBVIOUS
      <3> QED
        BY <3>2, <3>3, AmountsNil
    <2> QED
      BY <2>3, <2>4
  <1>7. Amounts(FlattenSeq(cs), FlattenSeq(xs), FlattenSeq(xs), FlattenSeq(zs))
    <2>1. \A i \in 1..n : Amounts(cs[i], xs[i], xs[i], zs[i])
      BY <1>6
    <2> QED
      BY <1>2, <1>5, <2>1, AmountsFlat
  <1>8. FlattenSeq(xs) = <<>>
    <2>1. \A i \in 1..Len(xs) : xs[i] = <<>>
      BY <1>4, <1>5
    <2> QED
      BY <1>5, <2>1, FlatNone
  <1>9. FlattenSeq(cs) = Calls(c)
    BY <1>3, Zenon DEF Calls, Each
  <1>10. FlattenSeq(zs) = AllTools("chat", c)
    BY <1>3 DEF AllTools
  <1>11. FlattenSeq(cs) \in Seq(ToolBlocks)
    <2>1. \A i \in 1..Len(cs) : cs[i] \in Seq(ToolBlocks)
      BY <1>5, <1>6
    <2>2. PICK run : /\ \A k \in 0..Len(cs) : run[k] \in Seq(ToolBlocks)
                     /\ FlattenSeq(cs) = run[Len(cs)]
      BY <1>5, <2>1, FlatTyped
    <2> QED
      BY <1>2, <1>5, <2>2
  <1> QED
    BY <1>7, <1>8, <1>9, <1>10, <1>11

\* Blocks that are all calls.
LEMMA AllCalls ==
    ASSUME NEW c \in Seq(ToolBlocks)
    PROVE  AllTools("chat", c) = [i \in DOMAIN c |-> Tool(c[i].id, c[i].name, Serialised(c[i].input))]
  <1>1. PICK n : n = Len(c)
    OBVIOUS
  <1>2. n \in Nat /\ DOMAIN c = 1..n /\ \A i \in 1..n : c[i] \in ToolBlocks
    BY <1>1
  <1>3. PICK zs, g : /\ zs = [i \in DOMAIN c |-> ToolsOf("chat", c[i])]
                     /\ g = [i \in DOMAIN c |-> Tool(c[i].id, c[i].name, Serialised(c[i].input))]
    OBVIOUS
  <1>4. zs = [i \in 1..n |-> zs[i]] /\ g = [i \in 1..n |-> g[i]]
    BY <1>2, <1>3
  <1>5. ASSUME NEW i \in 1..n PROVE zs[i] = <<g[i]>>
    <2>1. PICK b : b = c[i]
      OBVIOUS
    <2>2. b.type = "tool_use"
      BY <1>2, <2>1 DEF ToolBlocks
    <2>3. ToolsOf("chat", b) = <<Tool(b.id, b.name, Serialised(b.input))>>
      BY <2>2 DEF ToolsOf
    <2> QED
      BY <1>2, <1>3, <2>1, <2>3
  <1>6. IsList(zs) /\ Len(zs) = n /\ IsList(g) /\ Len(g) = n
    BY <1>2, <1>4, ListMake
  <1>7. FlattenSeq(zs) = g
    BY <1>2, <1>5, <1>6, FlatSingles
  <1> QED
    BY <1>3, <1>7 DEF AllTools

\* A call's arguments are read as they were written.
LEMMA SerialRead == \A v, other : ParsedOr(Serialised(v), other) = v
  <1>1. ASSUME NEW v, NEW other PROVE ParsedOr(Serialised(v), other) = v
    <2>1. PICK s : s = Serialised(v)
      OBVIOUS
    <2>2. IsList(s) /\ Len(s) = 2 /\ s[1] = v /\ s[2] = "}"
      BY <2>1, ListTwo DEF Serialised
    <2>3. s # <<>>
      BY <2>1 DEF Serialised
    <2> QED
      BY <2>1, <2>2, <2>3 DEF ParsedOr, Whole
  <1> QED
    BY <1>1

\* A text, if there is one.
LEMMA AmountsText ==
    ASSUME NEW x \in Seq(Strings)
    PROVE  /\ Amounts(Opt(x # <<>>, Text(x)), x, <<>>, <<>>)
           /\ Amounts(Opt(x # <<>>, Thinking(x)), <<>>, x, <<>>)
  <1>1. CASE x = <<>>
    BY <1>1, AmountsNil DEF Opt
  <1>2. CASE x # <<>>
    <2>1. PICK a, b : a = Text(x) /\ b = Thinking(x)
      OBVIOUS
    <2>2. a \in Parsed /\ b \in Parsed /\ a.type = "text" /\ a.text = x /\ b.type = "thinking" /\ b.text = x
      BY <2>1 DEF Text, Thinking, Parsed
    <2>3. /\ TextOf(a) = x /\ ThinkingOf("chat", a) = <<>> /\ ToolsOf("chat", a) = <<>>
          /\ TextOf(b) = <<>> /\ ThinkingOf("chat", b) = x /\ ToolsOf("chat", b) = <<>>
      BY <2>2 DEF TextOf, ThinkingOf, ToolsOf
    <2>4. Amounts(<<a>>, x, <<>>, <<>>) /\ Amounts(<<b>>, <<>>, x, <<>>)
      BY <2>2, <2>3, AmountsOne
    <2> QED
      BY <1>2, <2>1, <2>4 DEF Opt
  <1> QED
    BY <1>1, <1>2

\* What blocks say is typed.
LEMMA AllConcatTyped ==
    ASSUME NEW c \in Seq(Parsed)
    PROVE  AllText(c) \in Seq(Strings) /\ AllThinking("chat", c) \in Seq(Strings) /\ AllTools("chat", c) \in Seq(Tools)
  <1>1. PICK x, y, z : x = AllText(c) /\ y = AllThinking("chat", c) /\ z = AllTools("chat", c)
    OBVIOUS
  <1>2. Amounts(c, x, y, z)
    BY <1>1 DEF Amounts
  <1> QED
    BY <1>1, <1>2, AmountsLists

\* What a Chat body says of a response, and what is parsed of it.
LEMMA ChatBody ==
    ASSUME NEW c \in Seq(Parsed), NEW stop, NEW u \in Tokens, NEW b,
           b = EmitChat(Response(c, stop, u))
    PROVE  /\ b.content = AllText(c) /\ b.reasoning = AllThinking("chat", c)
           /\ b.finish = StopToFinish(stop) /\ b.usage = <<EmitUsageChat(u)>>
           /\ b.calls = [i \in DOMAIN Calls(c) |->
                [id |-> Calls(c)[i].id, name |-> Calls(c)[i].name, args |-> Serialised(Calls(c)[i].input)]]
  <1>1. PICK r : r = Response(c, stop, u)
    OBVIOUS
  <1>2. r.content = c /\ r.stop = stop /\ r.usage = u
    BY <1>1 DEF Response
  <1>3. Said(c, "text") = AllText(c) /\ Said(c, "thinking") = AllThinking("chat", c)
    BY SaidIs
  <1> QED
    BY <1>1, <1>2, <1>3 DEF EmitChat

\* A Chat body, emitted and parsed, amounts to the same.
LEMMA ChatParsed ==
    ASSUME NEW c \in Seq(Parsed), NEW stop, NEW u \in Tokens, NEW b,
           b = EmitChat(Response(c, stop, u)), NEW r, r = ParseChat(b)
    PROVE  /\ r = Response(r.content, FinishToStop(StopToFinish(stop)), u)
           /\ Amounts(r.content, AllText(c), <<>>, AllTools("chat", c))
  <1>1. PICK x, k : x = AllText(c) /\ k = Calls(c)
    OBVIOUS
  <1>2. /\ b.content = x /\ b.finish = StopToFinish(stop) /\ b.usage = <<EmitUsageChat(u)>>
        /\ b.calls = [i \in DOMAIN k |-> [id |-> k[i].id, name |-> k[i].name, args |-> Serialised(k[i].input)]]
    BY <1>1, ChatBody
  <1>3. k \in Seq(ToolBlocks) /\ Amounts(k, <<>>, <<>>, AllTools("chat", c))
    BY <1>1, CallsAmount
  <1>4. PICK p : p = [i \in DOMAIN b.calls |->
                        ToolUse(b.calls[i].id, b.calls[i].name, ParsedOr(b.calls[i].args, b.calls[i].args))]
    OBVIOUS
  <1>5. p = k
    <2>1. DOMAIN b.calls = DOMAIN k
      BY <1>2
    <2>2. ASSUME NEW i \in DOMAIN k PROVE p[i] = k[i]
      <3>1. PICK e : e = k[i]
        OBVIOUS
      <3>2. e \in ToolBlocks
        BY <1>3, <3>1
      <3>3. b.calls[i].id = e.id /\ b.calls[i].name = e.name /\ b.calls[i].args = Serialised(e.input)
        BY <1>2, <3>1
      <3>4. p[i] = ToolUse(e.id, e.name, ParsedOr(Serialised(e.input), Serialised(e.input)))
        BY <1>4, <2>1, <3>3
      <3>5. ParsedOr(Serialised(e.input), Serialised(e.input)) = e.input
        BY SerialRead
      <3>6. ToolUse(e.id, e.name, e.input) = e
        BY <3>2 DEF ToolUse, ToolBlocks
      <3> QED
        BY <3>1, <3>4, <3>5, <3>6
    <2>3. p = [i \in DOMAIN k |-> p[i]]
      BY <1>4, <2>1
    <2>4. k = [i \in DOMAIN k |-> k[i]]
      BY <1>3
    <2> QED
      BY <2>2, <2>3, <2>4
  <1>6. PICK t : t = Opt(x # <<>>, Text(x)) \o p
    OBVIOUS
  <1>7. r = Response(t, FinishToStop(b.finish), Counted(b.usage, ParseUsageChat))
    BY <1>2, <1>4, <1>6 DEF ParseChat
  <1>8. Counted(b.usage, ParseUsageChat) = u
    <2>1. PICK v : v = EmitUsageChat(u)
      OBVIOUS
    <2>2. b.usage # <<>> /\ b.usage[1] = v
      BY <1>2, <2>1, ListOne, ListNil
    <2> QED
      BY <2>1, <2>2, UsageTold DEF Counted
  <1>9. r = Response(t, FinishToStop(StopToFinish(stop)), u) /\ r.content = t
    BY <1>2, <1>7, <1>8 DEF Response
  <1>10. x \in Seq(Strings) /\ AllTools("chat", c) \in Seq(Tools)
    BY <1>1, <1>3, AllConcatTyped
  <1>11. Amounts(Opt(x # <<>>, Text(x)), x, <<>>, <<>>)
    BY <1>10, AmountsText
  <1>12. Amounts(t, x \o <<>>, <<>> \o <<>>, <<>> \o AllTools("chat", c))
    BY <1>3, <1>5, <1>6, <1>11, AmountsConcat
  <1>13. x \o <<>> = x /\ <<>> \o <<>> = <<>> /\ <<>> \o AllTools("chat", c) = AllTools("chat", c)
    BY <1>10, SeqIsList, ConcatNil, ListEmpty
  <1> QED
    BY <1>1, <1>9, <1>12, <1>13

\* What ParseGemini makes of a part, and what EmitGemini makes of a block.
PartOf(p) == IF p.type = "text" THEN Text(p.text) ELSE ToolUse(p.name, p.name, p.args)
PartsOf(b) ==
  CASE b.type = "text" -> <<[type |-> "text", text |-> b.text]>>
    [] b.type = "tool_use" -> <<[type |-> "functionCall", name |-> b.name, args |-> b.input]>>
    [] OTHER -> <<>>

\* Place by place, the blocks `d` are what is made of the parts `ps`.
ImageOf(ps, d) ==
  /\ IsList(ps) /\ IsList(d) /\ Len(d) = Len(ps)
  /\ \A i \in 1..Len(ps) : d[i] = PartOf(ps[i]) /\ ps[i].type \in {"text", "functionCall"}

\* Images of lists concatenate.
LEMMA ImageConcat ==
    ASSUME NEW p, NEW d, NEW q, NEW e, ImageOf(p, d), ImageOf(q, e)
    PROVE  ImageOf(p \o q, d \o e)
  <1>1. PICK m, n, r, f : m = Len(p) /\ n = Len(q) /\ r = p \o q /\ f = d \o e
    OBVIOUS
  <1>2. IsList(p) /\ IsList(q) /\ IsList(d) /\ IsList(e) /\ Len(d) = m /\ Len(e) = n /\ m \in Nat /\ n \in Nat
    BY <1>1, ListFacts DEF ImageOf
  <1>3. IsList(r) /\ Len(r) = m + n
    <2>1. IsList(r) /\ Len(r) = Len(p) + Len(q)
      BY <1>1, <1>2, InARow
    <2> QED
      BY <1>1, <2>1
  <1>4. IsList(f) /\ Len(f) = m + n
    <2>1. IsList(f) /\ Len(f) = Len(d) + Len(e)
      BY <1>1, <1>2, InARow
    <2> QED
      BY <1>2, <2>1
  <1>5. ASSUME NEW i \in 1..(m + n) PROVE f[i] = PartOf(r[i]) /\ r[i].type \in {"text", "functionCall"}
    <2>1. CASE i <= m
      <3>1. i \in 1..m
        BY <1>2, <2>1
      <3>2. r[i] = p[i] /\ f[i] = d[i]
        BY <1>1, <1>2, <3>1, InARow
      <3>3. d[i] = PartOf(p[i]) /\ p[i].type \in {"text", "functionCall"}
        BY <1>1, <3>1 DEF ImageOf
      <3> QED
        BY <3>2, <3>3
    <2>2. CASE ~(i <= m)
      <3>1. i - m \in 1..n /\ m + (i - m) = i
        BY <1>2, <2>2
      <3>2. PICK j : j \in 1..n /\ m + j = i
        BY <3>1
      <3>3. r[m + j] = q[j] /\ f[m + j] = e[j]
        BY <1>1, <1>2, <3>2, InARow
      <3>4. e[j] = PartOf(q[j]) /\ q[j].type \in {"text", "functionCall"}
        BY <1>1, <3>2 DEF ImageOf
      <3> QED
        BY <3>2, <3>3, <3>4
    <2> QED
      BY <2>1, <2>2
  <1> QED
    BY <1>1, <1>3, <1>4, <1>5 DEF ImageOf

\* A block comes back from its parts as itself, but for a call's id and for
\* thinking, which has no part.
LEMMA PartBack ==
    ASSUME NEW b \in Parsed
    PROVE  \E d : /\ ImageOf(PartsOf(b), d)
                  /\ Amounts(d, TextOf(b), <<>>, ToolsOf("gemini", b))
  <1>1. CASE b.type = "text"
    <2>1. PICK p : p = [type |-> "text", text |-> b.text]
      OBVIOUS
    <2>2. PartsOf(b) = <<p>> /\ p.type = "text" /\ PartOf(p) = b
      <3>1. b.text \in Seq(Strings) /\ b = [type |-> "text", text |-> b.text]
        BY <1>1 DEF Parsed
      <3> QED
        BY <1>1, <2>1, <3>1 DEF PartsOf, PartOf, Text
    <2>3. ImageOf(<<p>>, <<b>>)
      BY <2>2, ListOne DEF ImageOf
    <2>4. ThinkingOf("chat", b) = <<>> /\ ToolsOf("chat", b) = <<>> /\ ToolsOf("gemini", b) = <<>>
      BY <1>1 DEF ThinkingOf, ToolsOf
    <2>5. Amounts(<<b>>, TextOf(b), ThinkingOf("chat", b), ToolsOf("chat", b))
      BY AmountsOne
    <2> QED
      BY <1>1, <2>2, <2>3, <2>4, <2>5
  <1>2. CASE b.type = "thinking"
    <2>1. PartsOf(b) = <<>> /\ TextOf(b) = <<>> /\ ToolsOf("gemini", b) = <<>>
      BY <1>2 DEF PartsOf, TextOf, ToolsOf
    <2>2. ImageOf(<<>>, <<>>)
      BY ListEmpty DEF ImageOf
    <2> QED
      BY <1>2, <2>1, <2>2, AmountsNil
  <1>3. CASE b.type = "tool_use"
    <2>1. PICK p, d : p = [type |-> "functionCall", name |-> b.name, args |-> b.input]
                      /\ d = ToolUse(b.name, b.name, b.input)
      OBVIOUS
    <2>2. PartsOf(b) = <<p>> /\ p.type = "functionCall" /\ PartOf(p) = d
      BY <1>3, <2>1 DEF PartsOf, PartOf
    <2>3. ImageOf(<<p>>, <<d>>)
      BY <2>2, ListOne DEF ImageOf
    <2>4. /\ d \in Parsed /\ d.type = "tool_use" /\ d.id = b.name /\ d.name = b.name /\ d.input = b.input
      <3>1. b.name \in Strings /\ b.input \in Strings
        BY <1>3 DEF Parsed
      <3> QED
        BY <2>1, <3>1 DEF ToolUse, Parsed
    <2>5. TextOf(d) = <<>> /\ ThinkingOf("chat", d) = <<>> /\ ToolsOf("chat", d) = ToolsOf("gemini", b) /\ TextOf(b) = <<>>
      BY <1>3, <2>4 DEF TextOf, ThinkingOf, ToolsOf
    <2>6. Amounts(<<d>>, TextOf(d), ThinkingOf("chat", d), ToolsOf("chat", d))
      BY <2>4, AmountsOne
    <2> QED
      BY <1>3, <2>2, <2>3, <2>5, <2>6
  <1> QED
    BY <1>1, <1>2, <1>3 DEF Parsed

\* There are calls where there are blocks that are calls.
LEMMA CallsKnown ==
    ASSUME NEW up, NEW c \in Seq(Parsed)
    PROVE  AllTools(up, c) # <<>> <=> HasCall(c)
  <1>1. PICK n, zs : n = Len(c) /\ zs = [i \in DOMAIN c |-> ToolsOf(up, c[i])]
    OBVIOUS
  <1>2. n \in Nat /\ DOMAIN c = 1..n /\ \A i \in 1..n : c[i] \in Parsed
    BY <1>1
  <1>3. zs = [i \in 1..n |-> zs[i]] /\ \A i \in 1..n : zs[i] = ToolsOf(up, c[i])
    BY <1>1, <1>2
  <1>4. IsList(zs) /\ Len(zs) = n
    BY <1>2, <1>3, ListMake
  <1>5. \A i \in 1..Len(zs) : zs[i] \in Seq(Tools)
    BY <1>2, <1>3, <1>4, ParsedTyped
  <1>6. FlattenSeq(zs) # <<>> <=> \E k \in 1..Len(zs) : zs[k] # <<>>
    BY <1>4, <1>5, FlatTyped, Zenon
  <1>7. ASSUME NEW i \in 1..n PROVE zs[i] # <<>> <=> c[i].type = "tool_use"
    <2>1. CASE c[i].type = "tool_use"
      <3>1. PICK t : t = Tool(IF up = "gemini" THEN c[i].name ELSE c[i].id, c[i].name, Serialised(c[i].input))
        OBVIOUS
      <3>2. zs[i] = <<t>>
        BY <1>3, <2>1, <3>1 DEF ToolsOf
      <3> QED
        BY <2>1, <3>2
    <2>2. CASE c[i].type # "tool_use"
      BY <1>3, <2>2 DEF ToolsOf
    <2> QED
      BY <2>1, <2>2
  <1>8. (\E k \in 1..Len(zs) : zs[k] # <<>>) <=> HasCall(c)
    BY <1>2, <1>4, <1>7 DEF HasCall
  <1> QED
    BY <1>1, <1>6, <1>8 DEF AllTools

\* Parts in a row are blocks in a row.
LEMMA ImageFlat ==
    ASSUME NEW n \in Nat, NEW ps, NEW cs, IsList(ps), IsList(cs), Len(ps) = n, Len(cs) = n,
           \A i \in 1..n : ImageOf(ps[i], cs[i])
    PROVE  ImageOf(FlattenSeq(ps), FlattenSeq(cs))
  <1>1. ASSUME NEW i \in 1..n PROVE IsList(ps[i]) /\ IsList(cs[i])
    BY DEF ImageOf
  <1>2. PICK P : /\ P[0] = <<>>
                 /\ \A k \in 1..Len(ps) : P[k] = P[k - 1] \o ps[k]
                 /\ \A k \in 0..Len(ps) : IsList(P[k])
                 /\ FlattenSeq(ps) = P[Len(ps)]
    <2>1. \A i \in 1..Len(ps) : IsList(ps[i])
      BY <1>1
    <2> QED
      BY <2>1, FlatRun, Zenon
  <1>3. PICK C : /\ C[0] = <<>>
                 /\ \A k \in 1..Len(cs) : C[k] = C[k - 1] \o cs[k]
                 /\ \A k \in 0..Len(cs) : IsList(C[k])
                 /\ FlattenSeq(cs) = C[Len(cs)]
    <2>1. \A i \in 1..Len(cs) : IsList(cs[i])
      BY <1>1
    <2> QED
      BY <2>1, FlatRun, Zenon
  <1> DEFINE S == {k \in 0..n : ImageOf(P[k], C[k])}
  <1>4. 0 \in S
    <2>1. ImageOf(<<>>, <<>>)
      BY ListEmpty DEF ImageOf
    <2>2. 0 \in 0..n
      OBVIOUS
    <2> QED
      BY <1>2, <1>3, <2>1, <2>2
  <1>5. ASSUME NEW k \in 1..n, k - 1 \in S PROVE k \in S
    <2>1. k \in 0..n
      OBVIOUS
    <2>2. ImageOf(P[k - 1], C[k - 1]) /\ ImageOf(ps[k], cs[k])
      BY <1>5
    <2>3. ImageOf(P[k - 1] \o ps[k], C[k - 1] \o cs[k])
      BY <2>2, ImageConcat
    <2>4. P[k] = P[k - 1] \o ps[k] /\ C[k] = C[k - 1] \o cs[k]
      BY <1>2, <1>3
    <2>5. ImageOf(P[k], C[k])
      BY <2>3, <2>4
    <2> QED
      BY <2>1, <2>5
  <1>6. n \in S
    <2>1. \A k \in 0..n : k \in S
      <3> HIDE DEF S
      <3> QED
        BY <1>4, <1>5, UpTo
    <2> QED
      BY <2>1
  <1> QED
    BY <1>2, <1>3, <1>6

\* The stop reason that a Gemini answer is read to have.
GeminiSaid(stop, z) ==
  IF stop = "max_tokens" THEN "max_tokens" ELSE IF z # <<>> THEN "tool_use" ELSE "end_turn"

\* What is parsed of a Gemini body.
LEMMA GeminiParsed ==
    ASSUME NEW c \in Seq(Parsed), NEW stop, NEW u \in Tokens, NEW b,
           b = EmitGemini(Response(c, stop, u)), NEW r, r = ParseGemini(b)
    PROVE  /\ r = Response(r.content, GeminiSaid(stop, AllTools("gemini", c)), u)
           /\ Amounts(r.content, AllText(c), <<>>, AllTools("gemini", c))
  <1>1. PICK n : n = Len(c)
    OBVIOUS
  <1>2. n \in Nat /\ DOMAIN c = 1..n /\ \A i \in 1..n : c[i] \in Parsed
    BY <1>1
  <1>3. PICK ps, xs, ys, zs : /\ ps = [i \in DOMAIN c |-> PartsOf(c[i])]
                              /\ xs = [i \in DOMAIN c |-> TextOf(c[i])]
                              /\ ys = [i \in DOMAIN c |-> <<>>]
                              /\ zs = [i \in DOMAIN c |-> ToolsOf("gemini", c[i])]
    OBVIOUS
  <1>4. PICK cs : cs = [i \in DOMAIN c |-> CHOOSE d : /\ ImageOf(PartsOf(c[i]), d)
                                                      /\ Amounts(d, TextOf(c[i]), <<>>, ToolsOf("gemini", c[i]))]
    OBVIOUS
  <1>5. /\ ps = [i \in 1..n |-> ps[i]] /\ xs = [i \in 1..n |-> xs[i]] /\ ys = [i \in 1..n |-> ys[i]]
        /\ zs = [i \in 1..n |-> zs[i]] /\ cs = [i \in 1..n |-> cs[i]]
    BY <1>2, <1>3, <1>4
  <1>6. /\ IsList(ps) /\ Len(ps) = n /\ IsList(xs) /\ Len(xs) = n /\ IsList(ys) /\ Len(ys) = n
        /\ IsList(zs) /\ Len(zs) = n /\ IsList(cs) /\ Len(cs) = n
    BY <1>2, <1>5, ListMake
  <1>7. ASSUME NEW i \in 1..n PROVE ImageOf(ps[i], cs[i]) /\ Amounts(cs[i], xs[i], ys[i], zs[i])
    <2>1. PICK e, p, x, z : e = c[i] /\ p = PartsOf(c[i]) /\ x = TextOf(c[i]) /\ z = ToolsOf("gemini", c[i])
      OBVIOUS
    <2>2. \E d : ImageOf(p, d) /\ Amounts(d, x, <<>>, z)
      BY <1>2, <2>1, PartBack
    <2>3. cs[i] = CHOOSE d : ImageOf(p, d) /\ Amounts(d, x, <<>>, z)
      BY <1>2, <1>4, <2>1
    <2>4. ImageOf(p, cs[i]) /\ Amounts(cs[i], x, <<>>, z)
      BY <2>2, <2>3, Zenon
    <2>5. ps[i] = p /\ xs[i] = x /\ ys[i] = <<>> /\ zs[i] = z
      BY <1>2, <1>3, <2>1
    <2> QED
      BY <2>4, <2>5
  <1>8. PICK all, d : all = FlattenSeq(ps) /\ d = FlattenSeq(cs)
    OBVIOUS
  <1>9. ImageOf(all, d)
    <2>1. \A i \in 1..n : ImageOf(ps[i], cs[i])
      BY <1>7
    <2> QED
      BY <1>2, <1>6, <1>8, <2>1, ImageFlat
  <1>10. Amounts(d, AllText(c), <<>>, AllTools("gemini", c))
    <2>1. \A i \in 1..n : Amounts(cs[i], xs[i], ys[i], zs[i])
      BY <1>7
    <2>2. Amounts(FlattenSeq(cs), FlattenSeq(xs), FlattenSeq(ys), FlattenSeq(zs))
      BY <1>2, <1>6, <2>1, AmountsFlat
    <2>3. FlattenSeq(ys) = <<>>
      <3>1. \A i \in 1..Len(ys) : ys[i] = <<>>
        BY <1>2, <1>3, <1>6
      <3> QED
        BY <1>6, <3>1, FlatNone
    <2>4. FlattenSeq(xs) = AllText(c) /\ FlattenSeq(zs) = AllTools("gemini", c)
      BY <1>3 DEF AllText, AllTools
    <2> QED
      BY <1>8, <2>2, <2>3, <2>4
  <1>11. b.parts = all /\ b.finish = StopToGeminiFinish(stop) /\ b.usage = <<EmitUsageGemini(u)>>
    <2>1. PICK q : q = Response(c, stop, u)
      OBVIOUS
    <2>2. q.content = c /\ q.stop = stop /\ q.usage = u
      BY <2>1 DEF Response
    <2>3. b.parts = FlattenSeq(ps)
      BY <1>3, <2>1, <2>2 DEF EmitGemini, PartsOf, Each
    <2> QED
      BY <1>8, <2>1, <2>2, <2>3 DEF EmitGemini
  <1>12. [i \in DOMAIN all |-> PartOf(all[i])] = d
    <2>1. PICK f : f = [i \in DOMAIN all |-> PartOf(all[i])]
      OBVIOUS
    <2>2. IsList(all) /\ IsList(d) /\ Len(d) = Len(all) /\ \A i \in 1..Len(all) : d[i] = PartOf(all[i])
      BY <1>9 DEF ImageOf
    <2>3. Len(all) \in Nat /\ DOMAIN all = 1..Len(all)
      BY <2>2, ListFacts
    <2>4. f = [i \in 1..Len(all) |-> f[i]]
      BY <2>1, <2>3
    <2>5. IsList(f) /\ Len(f) = Len(all)
      BY <2>3, <2>4, ListMake
    <2>6. \A i \in 1..Len(f) : f[i] = d[i]
      BY <2>1, <2>2, <2>3, <2>5
    <2>7. f = d
      BY <2>2, <2>5, <2>6, ListSame
    <2> QED
      BY <2>1, <2>7
  <1>13. PICK has : has = \E i \in DOMAIN all : all[i].type = "functionCall"
    OBVIOUS
  <1>14. GeminiFinishToStop(StopToGeminiFinish(stop), has) = GeminiSaid(stop, AllTools("gemini", c))
    <2>1. d \in Seq(Parsed) /\ (AllTools("gemini", c) # <<>> <=> HasCall(d))
      <3>1. d \in Seq(Parsed) /\ AllTools("chat", d) = AllTools("gemini", c)
        BY <1>10 DEF Amounts
      <3> QED
        BY <3>1, CallsKnown
    <2>2. HasCall(d) <=> \E i \in DOMAIN all : all[i].type = "functionCall"
      <3>1. IsList(all) /\ IsList(d) /\ Len(d) = Len(all)
            /\ \A i \in 1..Len(all) : d[i] = PartOf(all[i]) /\ all[i].type \in {"text", "functionCall"}
        BY <1>9 DEF ImageOf
      <3>2. DOMAIN all = 1..Len(all) /\ DOMAIN d = 1..Len(all)
        BY <3>1, ListFacts
      <3>3. \A i \in 1..Len(all) : d[i].type = "tool_use" <=> all[i].type = "functionCall"
        <4>1. ASSUME NEW i \in 1..Len(all) PROVE d[i].type = "tool_use" <=> all[i].type = "functionCall"
          <5>1. PICK p : p = all[i]
            OBVIOUS
          <5>2. d[i] = PartOf(p) /\ p.type \in {"text", "functionCall"}
            BY <3>1, <5>1
          <5>3. PartOf(p).type = "tool_use" <=> p.type = "functionCall"
            BY <5>2 DEF PartOf, Text, ToolUse
          <5> QED
            BY <5>1, <5>2, <5>3
        <4> QED
          BY <4>1
      <3> QED
        BY <3>2, <3>3 DEF HasCall
    <2>3. has <=> AllTools("gemini", c) # <<>>
      BY <1>13, <2>1, <2>2
    <2>4. PICK z : z = AllTools("gemini", c)
      OBVIOUS
    <2>5. CASE z # <<>>
      <3>1. has = TRUE
        BY <1>13, <2>3, <2>4, <2>5
      <3> QED
        BY <2>4, <2>5, <3>1 DEF GeminiFinishToStop, StopToGeminiFinish, GeminiSaid
    <2>6. CASE z = <<>>
      <3>1. has = FALSE
        BY <1>13, <2>3, <2>4, <2>6
      <3> QED
        BY <2>4, <2>6, <3>1 DEF GeminiFinishToStop, StopToGeminiFinish, GeminiSaid
    <2> QED
      BY <2>5, <2>6
  <1>15. Counted(b.usage, ParseUsageGemini) = u
    <2>1. PICK v : v = EmitUsageGemini(u)
      OBVIOUS
    <2>2. b.usage # <<>> /\ b.usage[1] = v
      BY <1>11, <2>1, ListOne, ListNil
    <2> QED
      BY <2>1, <2>2, UsageTold DEF Counted
  <1>16. r = Response(d, GeminiSaid(stop, AllTools("gemini", c)), u)
    <2>1. PICK f : f = [i \in DOMAIN b.parts |-> PartOf(b.parts[i])]
      OBVIOUS
    <2>2. r = Response(f, GeminiFinishToStop(b.finish, has), Counted(b.usage, ParseUsageGemini))
      BY <1>11, <1>13, <2>1, Zenon DEF ParseGemini, PartOf
    <2> QED
      BY <1>11, <1>12, <1>14, <1>15, <2>1, <2>2
  <1>17. r.content = d
    BY <1>16 DEF Response
  <1> QED
    BY <1>10, <1>16, <1>17

\* Only Gemini's upstream says less than the others.
LEMMA SameSaid ==
    ASSUME NEW up, up # "gemini", NEW c
    PROVE  AllThinking(up, c) = AllThinking("chat", c) /\ AllTools(up, c) = AllTools("chat", c)
  <1>1. [i \in DOMAIN c |-> ThinkingOf(up, c[i])] = [i \in DOMAIN c |-> ThinkingOf("chat", c[i])]
    BY DEF ThinkingOf
  <1>2. \A b : ToolsOf(up, b) = ToolsOf("chat", b)
    BY DEF ToolsOf
  <1>3. [i \in DOMAIN c |-> ToolsOf(up, c[i])] = [i \in DOMAIN c |-> ToolsOf("chat", c[i])]
    BY <1>2
  <1> QED
    BY <1>1, <1>3 DEF AllThinking, AllTools

\* The item of a Responses body for a block, and what is parsed of an item.
ItemOf(b) ==
  CASE b.type = "text" -> [type |-> "message", text |-> b.text]
    [] b.type = "thinking" -> [type |-> "reasoning", summary |-> b.text]
    [] b.type = "tool_use" -> CallItem(b)
BlocksOf(o) ==
  CASE o.type = "message" -> <<Text(o.text)>>
    [] o.type = "function_call" -> <<ToolUse(o.call_id, o.name, ParsedOr(o.args, o.args))>>
    [] o.type = "reasoning" -> Opt(o.summary # <<>>, Thinking(o.summary))
    [] OTHER -> <<>>

\* A Responses item, parsed, is the block it was made of.
LEMMA ItemBack ==
    ASSUME NEW b \in Parsed
    PROVE  /\ ResponsesItem(b) = <<ItemOf(b)>>
           /\ ItemOf(b).type = "function_call" <=> b.type = "tool_use"
           /\ Amounts(BlocksOf(ItemOf(b)), TextOf(b), ThinkingOf("chat", b), ToolsOf("chat", b))
  <1>1. CASE b.type = "text"
    <2>1. PICK x : x = b.text
      OBVIOUS
    <2>2. x \in Seq(Strings) /\ b = Text(x)
      BY <1>1, <2>1 DEF Parsed, Text
    <2>3. PICK o : o = [type |-> "message", text |-> x]
      OBVIOUS
    <2>4. ItemOf(b) = o /\ ResponsesItem(b) = <<o>> /\ o.type = "message"
      BY <1>1, <2>1, <2>3 DEF ItemOf, ResponsesItem
    <2>5. BlocksOf(o) = <<b>>
      BY <2>2, <2>3 DEF BlocksOf
    <2>6. Amounts(<<b>>, TextOf(b), ThinkingOf("chat", b), ToolsOf("chat", b))
      BY AmountsOne
    <2> QED
      BY <1>1, <2>4, <2>5, <2>6
  <1>2. CASE b.type = "thinking"
    <2>1. PICK x : x = b.text
      OBVIOUS
    <2>2. x \in Seq(Strings)
      BY <1>2, <2>1 DEF Parsed
    <2>3. PICK o : o = [type |-> "reasoning", summary |-> x]
      OBVIOUS
    <2>4. ItemOf(b) = o /\ ResponsesItem(b) = <<o>> /\ o.type = "reasoning"
      BY <1>2, <2>1, <2>3 DEF ItemOf, ResponsesItem
    <2>5. BlocksOf(o) = Opt(x # <<>>, Thinking(x))
      BY <2>3 DEF BlocksOf
    <2>6. TextOf(b) = <<>> /\ ThinkingOf("chat", b) = x /\ ToolsOf("chat", b) = <<>>
      BY <1>2, <2>1 DEF TextOf, ThinkingOf, ToolsOf
    <2>7. Amounts(Opt(x # <<>>, Thinking(x)), <<>>, x, <<>>)
      BY <2>2, AmountsText
    <2> QED
      BY <1>2, <2>4, <2>5, <2>6, <2>7
  <1>3. CASE b.type = "tool_use"
    <2>1. PICK id, name, v : id = b.id /\ name = b.name /\ v = b.input
      OBVIOUS
    <2>2. b = ToolUse(id, name, v)
      BY <1>3, <2>1 DEF Parsed, ToolUse
    <2>3. PICK o, s : s = Serialised(v) /\ o = [type |-> "function_call", call_id |-> id, name |-> name, args |-> s]
      OBVIOUS
    <2>4. ItemOf(b) = o /\ ResponsesItem(b) = <<o>> /\ o.type = "function_call"
      BY <1>3, <2>1, <2>3 DEF ItemOf, ResponsesItem, CallItem
    <2>5. BlocksOf(o) = <<ToolUse(id, name, ParsedOr(s, s))>>
      BY <2>3 DEF BlocksOf
    <2>6. BlocksOf(o) = <<b>>
      BY <2>2, <2>3, <2>5, SerialRead
    <2>7. Amounts(<<b>>, TextOf(b), ThinkingOf("chat", b), ToolsOf("chat", b))
      BY AmountsOne
    <2> QED
      BY <1>3, <2>4, <2>6, <2>7
  <1> QED
    BY <1>1, <1>2, <1>3 DEF Parsed

\* What is parsed of items of which each is that of a block.
LEMMA ItemsParsed ==
    ASSUME NEW c \in Seq(Parsed), NEW out, out = Each(c, ResponsesItem)
    PROVE  /\ Amounts(FlattenSeq([i \in DOMAIN out |-> BlocksOf(out[i])]),
                      AllText(c), AllThinking("chat", c), AllTools("chat", c))
           /\ HasCall(c) <=> \E i \in DOMAIN out : out[i].type = "function_call"
  <1>1. PICK n : n = Len(c)
    OBVIOUS
  <1>2. n \in Nat /\ DOMAIN c = 1..n /\ \A i \in 1..n : c[i] \in Parsed
    BY <1>1
  <1>3. PICK ss, g, xs, ys, zs : /\ ss = [i \in DOMAIN c |-> ResponsesItem(c[i])]
                                 /\ g = [i \in DOMAIN c |-> ItemOf(c[i])]
                                 /\ xs = [i \in DOMAIN c |-> TextOf(c[i])]
                                 /\ ys = [i \in DOMAIN c |-> ThinkingOf("chat", c[i])]
                                 /\ zs = [i \in DOMAIN c |-> ToolsOf("chat", c[i])]
    OBVIOUS
  <1>4. /\ ss = [i \in 1..n |-> ss[i]] /\ g = [i \in 1..n |-> g[i]] /\ xs = [i \in 1..n |-> xs[i]]
        /\ ys = [i \in 1..n |-> ys[i]] /\ zs = [i \in 1..n |-> zs[i]]
    BY <1>2, <1>3
  <1>5. /\ IsList(ss) /\ Len(ss) = n /\ IsList(g) /\ Len(g) = n /\ IsList(xs) /\ Len(xs) = n
        /\ IsList(ys) /\ Len(ys) = n /\ IsList(zs) /\ Len(zs) = n
    BY <1>2, <1>4, ListMake
  <1>6. out = g
    <2>1. ASSUME NEW k \in 1..n PROVE ss[k] = <<g[k]>>
      <3>1. PICK b : b = c[k]
        OBVIOUS
      <3>2. ResponsesItem(b) = <<ItemOf(b)>>
        BY <1>2, <3>1, ItemBack
      <3> QED
        BY <1>2, <1>3, <3>1, <3>2
    <2>2. FlattenSeq(ss) = g
      BY <1>2, <1>5, <2>1, FlatSingles
    <2> QED
      BY <1>3, <2>2 DEF Each
  <1>7. PICK cs : cs = [i \in DOMAIN out |-> BlocksOf(out[i])]
    OBVIOUS
  <1>8. DOMAIN g = 1..n
    BY <1>2, <1>3
  <1>9. cs = [i \in 1..n |-> cs[i]]
    BY <1>6, <1>7, <1>8
  <1>10. IsList(cs) /\ Len(cs) = n
    BY <1>2, <1>9, ListMake
  <1>11. ASSUME NEW i \in 1..n PROVE Amounts(cs[i], xs[i], ys[i], zs[i]) /\ (g[i].type = "function_call" <=> c[i].type = "tool_use")
    <2>1. PICK b : b = c[i]
      OBVIOUS
    <2>2. b \in Parsed
      BY <1>2, <2>1
    <2>3. xs[i] = TextOf(b) /\ ys[i] = ThinkingOf("chat", b) /\ zs[i] = ToolsOf("chat", b) /\ g[i] = ItemOf(b)
      BY <1>2, <1>3, <2>1
    <2>4. cs[i] = BlocksOf(ItemOf(b))
      BY <1>6, <1>7, <1>8, <2>3
    <2>5. /\ ItemOf(b).type = "function_call" <=> b.type = "tool_use"
          /\ Amounts(BlocksOf(ItemOf(b)), TextOf(b), ThinkingOf("chat", b), ToolsOf("chat", b))
      BY <2>2, ItemBack
    <2> QED
      BY <2>1, <2>3, <2>4, <2>5
  <1>12. Amounts(FlattenSeq(cs), FlattenSeq(xs), FlattenSeq(ys), FlattenSeq(zs))
    BY <1>2, <1>5, <1>10, <1>11, AmountsFlat
  <1>13. FlattenSeq(xs) = AllText(c) /\ FlattenSeq(ys) = AllThinking("chat", c) /\ FlattenSeq(zs) = AllTools("chat", c)
    BY <1>3 DEF AllText, AllThinking, AllTools
  <1>14. HasCall(c) <=> \E i \in DOMAIN out : out[i].type = "function_call"
    BY <1>2, <1>6, <1>8, <1>11 DEF HasCall
  <1> QED
    BY <1>7, <1>12, <1>13, <1>14

\* What is parsed of a Responses body that says how its answer ended.
ResponsesBody(out, used, status, reason) ==
  [output |-> out, usage |-> used, status |-> status, reason |-> reason]
ResponsesSaid(stop, c) ==
  IF stop = "max_tokens" THEN "max_tokens" ELSE IF HasCall(c) THEN "tool_use" ELSE "end_turn"

\* A Responses body, emitted and parsed, amounts to the same.
LEMMA ResponsesParsed ==
    ASSUME NEW c \in Seq(Parsed), NEW stop, NEW u \in Tokens, NEW b,
           b = ResponsesBody(Each(c, ResponsesItem), <<EmitUsageResponses(u)>>,
                             IF stop = "max_tokens" THEN "incomplete" ELSE "completed", "max_output_tokens"),
           NEW r, r = ParseResponses(b)
    PROVE  /\ r = Response(r.content, ResponsesSaid(stop, c), u)
           /\ Amounts(r.content, AllText(c), AllThinking("chat", c), AllTools("chat", c))
  <1>1. PICK out, v, status : /\ out = Each(c, ResponsesItem) /\ v = EmitUsageResponses(u)
                              /\ status = IF stop = "max_tokens" THEN "incomplete" ELSE "completed"
    OBVIOUS
  <1>2. b.output = out /\ b.usage = <<v>> /\ b.status = status /\ b.reason = "max_output_tokens"
    BY <1>1 DEF ResponsesBody
  <1>3. PICK d : d = FlattenSeq([i \in DOMAIN out |-> BlocksOf(out[i])])
    OBVIOUS
  <1>4. /\ Amounts(d, AllText(c), AllThinking("chat", c), AllTools("chat", c))
        /\ HasCall(c) <=> \E i \in DOMAIN out : out[i].type = "function_call"
    BY <1>1, <1>3, ItemsParsed
  <1>5. PICK saw, said : /\ saw = \E i \in DOMAIN b.output : b.output[i].type = "function_call"
                         /\ said = IF b.status = "incomplete"
                                   THEN IF b.reason = "max_output_tokens" THEN "max_tokens" ELSE b.reason
                                   ELSE IF saw THEN "tool_use" ELSE "end_turn"
    OBVIOUS
  <1>6. said = ResponsesSaid(stop, c)
    <2>1. CASE stop = "max_tokens"
      <3>1. b.status = "incomplete" /\ b.reason = "max_output_tokens"
        BY <1>1, <1>2, <2>1
      <3> QED
        BY <1>5, <2>1, <3>1 DEF ResponsesSaid
    <2>2. CASE stop # "max_tokens"
      <3>1. b.status # "incomplete"
        BY <1>1, <1>2, <2>2
      <3>2. HasCall(c) <=> saw
        BY <1>2, <1>4, <1>5
      <3>3. CASE saw
        BY <1>5, <2>2, <3>1, <3>2, <3>3 DEF ResponsesSaid
      <3>4. CASE ~saw
        BY <1>5, <2>2, <3>1, <3>2, <3>4 DEF ResponsesSaid
      <3> QED
        BY <3>3, <3>4
    <2> QED
      BY <2>1, <2>2
  <1>7. Counted(b.usage, ParseUsageResponses) = u
    <2>1. b.usage # <<>> /\ b.usage[1] = v
      BY <1>2, ListOne, ListNil
    <2> QED
      BY <1>1, <2>1, UsageTold DEF Counted
  <1>8. r = Response(FlattenSeq([i \in DOMAIN b.output |-> BlocksOf(b.output[i])]), said,
                     Counted(b.usage, ParseUsageResponses))
    BY <1>5, Zenon DEF ParseResponses, BlocksOf
  <1>9. r = Response(d, ResponsesSaid(stop, c), u)
    BY <1>2, <1>3, <1>6, <1>7, <1>8
  <1>10. r.content = d
    BY <1>9 DEF Response
  <1> QED
    BY <1>4, <1>9, <1>10

\* The stop reason and the thinking that a buffered answer is read to have.
FullStop(t) ==
  CASE t.up = "chat" -> FinishToStop(StopToFinish(t.answer.stop))
    [] t.up = "anthropic" -> t.answer.stop
    [] t.up = "responses" -> ResponsesSaid(t.answer.stop, t.answer.blocks)
    [] t.up = "gemini" -> GeminiSaid(t.answer.stop, AllTools("gemini", t.answer.blocks))
FullThinking(t) ==
  IF t.up \in {"chat", "gemini"} THEN <<>> ELSE AllThinking("chat", t.answer.blocks)

\* A body's stop is a stop reason.
LEMMA FullStopTyped ==
    ASSUME NEW t \in Turns
    PROVE  FullStop(t) \in StopReasons /\ FullStop(t) \in Strings
  <1>1. t.up \in Dialects /\ t.answer.stop \in StopReasons
    BY StopTyped
  <1>2. FullStop(t) \in StopReasons
    BY <1>1 DEF FullStop, StopReasons, Dialects, FinishToStop, StopToFinish, ResponsesSaid, GeminiSaid
  <1>3. StopReasons \subseteq Strings
    BY DEF Strings
  <1> QED
    BY <1>2, <1>3

\* The buffered answer of an upstream, parsed, is the model's answer.
LEMMA FullParses ==
    ASSUME NEW t \in Turns, NEW r, r = ParseResponse(t.up, FullBody(t))
    PROVE  /\ r = Response(r.content, FullStop(t), Usage(t.up, t.answer.tokens))
           /\ Amounts(r.content, AllText(t.answer.blocks), FullThinking(t), AllTools(t.up, t.answer.blocks))
  <1>1. PICK c, stop, u : c = t.answer.blocks /\ stop = t.answer.stop /\ u = Usage(t.up, t.answer.tokens)
    OBVIOUS
  <1>2. c \in Seq(Parsed) /\ u \in Tokens /\ t.up \in Dialects
    <2>1. t.up \in Dialects /\ t.answer.blocks \in Seq(Blocks)
          /\ t.answer.tokens \in [fresh : Nat, output : Nat, cached : Nat]
      BY StopTyped
    <2> QED
      BY <1>1, <2>1, BlocksParsed, UsageTyped
  <1>3. CASE t.up = "chat"
    <2>1. FullBody(t) = EmitChat(Response(c, stop, u))
      BY <1>1, <1>3 DEF FullBody, EmitResponse
    <2>2. r = ParseChat(EmitChat(Response(c, stop, u)))
      BY <1>3, <2>1 DEF ParseResponse
    <2>3. /\ r = Response(r.content, FinishToStop(StopToFinish(stop)), u)
          /\ Amounts(r.content, AllText(c), <<>>, AllTools("chat", c))
      BY <1>2, <2>2, ChatParsed
    <2>4. FullStop(t) = FinishToStop(StopToFinish(stop)) /\ FullThinking(t) = <<>>
      BY <1>1, <1>3 DEF FullStop, FullThinking
    <2> QED
      BY <1>1, <1>3, <2>3, <2>4
  <1>4. CASE t.up = "anthropic"
    <2>1. FullBody(t) = EmitAnthropic(Response(c, stop, u))
      BY <1>1, <1>4 DEF FullBody, EmitResponse
    <2>2. r = ParseAnthropic(EmitAnthropic(Response(c, stop, u)))
      BY <1>4, <2>1 DEF ParseResponse
    <2>3. PICK v : v = EmitUsageAnthropic(u)
      OBVIOUS
    <2>4. PICK b : b = EmitAnthropic(Response(c, stop, u))
      OBVIOUS
    <2>5. b.content = c /\ b.stop = stop /\ b.usage = <<v>>
      BY <2>3, <2>4 DEF EmitAnthropic, Response
    <2>6. Counted(b.usage, ParseUsageAnthropic) = u
      <3>1. b.usage # <<>> /\ b.usage[1] = v
        BY <2>5, ListOne, ListNil
      <3> QED
        BY <1>2, <2>3, <3>1, UsageTold DEF Counted
    <2>7. r = Response(c, stop, u)
      BY <2>2, <2>4, <2>5, <2>6 DEF ParseAnthropic
    <2>8. r.content = c
      BY <2>7 DEF Response
    <2>9. FullStop(t) = stop /\ FullThinking(t) = AllThinking("chat", c) /\ AllTools(t.up, c) = AllTools("chat", c)
      <3>1. AllTools(t.up, c) = AllTools("chat", c)
        BY <1>4, SameSaid
      <3> QED
        BY <1>1, <1>4, <3>1 DEF FullStop, FullThinking
    <2>10. Amounts(c, AllText(c), AllThinking("chat", c), AllTools("chat", c))
      BY <1>2 DEF Amounts
    <2> QED
      BY <1>1, <2>7, <2>8, <2>9, <2>10
  <1>5. CASE t.up = "responses"
    <2>1. FullBody(t) = ResponsesBody(Each(c, ResponsesItem), <<EmitUsageResponses(u)>>,
                             IF stop = "max_tokens" THEN "incomplete" ELSE "completed", "max_output_tokens")
      BY <1>1, <1>5 DEF FullBody, ResponsesBody
    <2>2. r = ParseResponses(FullBody(t))
      BY <1>5 DEF ParseResponse
    <2>3. /\ r = Response(r.content, ResponsesSaid(stop, c), u)
          /\ Amounts(r.content, AllText(c), AllThinking("chat", c), AllTools("chat", c))
      BY <1>2, <2>1, <2>2, ResponsesParsed
    <2>4. AllTools(t.up, c) = AllTools("chat", c)
      BY <1>5, SameSaid
    <2>5. FullStop(t) = ResponsesSaid(stop, c) /\ FullThinking(t) = AllThinking("chat", c)
      BY <1>1, <1>5 DEF FullStop, FullThinking
    <2> QED
      BY <1>1, <2>3, <2>4, <2>5
  <1>6. CASE t.up = "gemini"
    <2>1. FullBody(t) = EmitGemini(Response(c, stop, u))
      BY <1>1, <1>6 DEF FullBody, EmitResponse
    <2>2. r = ParseGemini(EmitGemini(Response(c, stop, u)))
      BY <1>6, <2>1 DEF ParseResponse
    <2>3. /\ r = Response(r.content, GeminiSaid(stop, AllTools("gemini", c)), u)
          /\ Amounts(r.content, AllText(c), <<>>, AllTools("gemini", c))
      BY <1>2, <2>2, GeminiParsed
    <2>4. FullStop(t) = GeminiSaid(stop, AllTools("gemini", c)) /\ FullThinking(t) = <<>>
      BY <1>1, <1>6 DEF FullStop, FullThinking
    <2> QED
      BY <1>1, <1>6, <2>3, <2>4
  <1> QED
    BY <1>2, <1>3, <1>4, <1>5, <1>6 DEF Dialects

\* Frames, those sent before and those just written, are lists.
LEMMA OutLists ==
    ASSUME NEW c \in Dialects, c # "gemini", NEW inc, NEW base, NEW s, NEW w \in Points, Keeps(c, inc, base, s, w)
    PROVE  IsList(base) /\ IsList(s.out)
  <1>1. PICK z : Nil(z)
    BY DEF Nil
  <1>2. IsList(z)
    BY <1>1, ListEmpty DEF Nil
  <1>3. w.stage \in Stages
    BY DEF Points
  <1>4. CASE c = "chat"
    <2>1. ASSUME NEW i, NEW u, NEW q, NEW p, NEW F, ChatWrites(base, s, i, u, q, p, F) PROVE IsList(base) /\ IsList(s.out)
      <3>1. PICK out : s = ChatState(i, u, q, p, out) /\ IsList(base) /\ IsList(out)
        BY <2>1 DEF ChatWrites
      <3>2. s.out = out
        BY <3>1 DEF ChatState
      <3> QED
        BY <3>1, <3>2
    <2>2. CASE w.stage = "none"
      <3>1. s = NewChat(inc = "yes") /\ Nil(base)
        BY <1>4, <2>2 DEF Keeps, ChatKeeps
      <3>2. Nil(s.out)
        BY <3>1 DEF NewChat, Nil
      <3> QED
        BY <1>1, <1>2, <3>1, <3>2 DEF Nil
    <2>3. CASE w.stage \in {"open", "call"}
      <3>1. PICK u : ChatLive(base, s, w.agg, u, inc)
        BY <1>4, <2>3 DEF Keeps, ChatKeeps
      <3> QED
        BY <2>1, <3>1 DEF ChatLive
    <2>4. CASE w.stage = "over"
      <3>1. ChatWaits(base, s, w.agg) \/ ChatTold(base, s, w.agg, inc)
        BY <1>4, <2>4 DEF Keeps, ChatKeeps
      <3> QED
        BY <2>1, <3>1 DEF ChatWaits, ChatTold
    <2> QED
      BY <1>3, <2>2, <2>3, <2>4 DEF Stages
  <1>5. CASE c = "anthropic"
    <2>1. ASSUME NEW n, NEW o, NEW u, NEW out, s = AnthropicState(n, o, u, out) PROVE s.out = out
      BY <2>1 DEF AnthropicState
    <2>2. CASE w.stage = "none"
      <3>1. s = NewAnthropic /\ base = <<>>
        BY <1>5, <2>2 DEF Keeps, AnthropicKeeps
      <3>2. s.out = <<>>
        BY <3>1 DEF NewAnthropic
      <3> QED
        BY <1>1, <1>2, <3>1, <3>2 DEF Nil
    <2>3. CASE w.stage \in {"open", "call"}
      <3>1. PICK n, o : AnthropicLive(base, s, n, o, w.agg)
        BY <1>5, <2>3 DEF Keeps, AnthropicKeeps
      <3> QED
        BY <2>1, <3>1 DEF AnthropicLive
    <2>4. CASE w.stage = "over"
      <3>1. AnthropicOver(base, s, w.agg)
        BY <1>5, <2>4 DEF Keeps, AnthropicKeeps
      <3> QED
        BY <2>1, <3>1 DEF AnthropicOver
    <2> QED
      BY <1>3, <2>2, <2>3, <2>4 DEF Stages
  <1>6. CASE c = "responses"
    <2>1. ASSUME NEW u, NEW n, NEW o, NEW d, NEW p, NEW F, Writes(base, s, u, n, o, d, p, F) PROVE IsList(base) /\ IsList(s.out)
      <3>1. PICK out : s = ResponsesState(Len(F), u, n, o, d, p, out) /\ IsList(base) /\ IsList(out)
        BY <2>1 DEF Writes
      <3>2. s.out = out
        BY <3>1 DEF ResponsesState
      <3> QED
        BY <3>1, <3>2
    <2>2. CASE w.stage = "none"
      <3>1. s = NewResponses /\ base = <<>>
        BY <1>6, <2>2 DEF Keeps, ResponsesKeeps
      <3>2. s.out = <<>>
        BY <3>1 DEF NewResponses
      <3> QED
        BY <1>1, <1>2, <3>1, <3>2 DEF Nil
    <2>3. CASE w.stage \in {"open", "call"}
      <3>1. PICK type, u : ResponsesLive(base, s, type, w.agg, u)
        BY <1>6, <2>3 DEF Keeps, ResponsesKeeps
      <3> QED
        BY <2>1, <3>1 DEF ResponsesLive, ResponsesAt
    <2>4. CASE w.stage = "over"
      <3>1. ResponsesWaits(base, s, w.agg) \/ ResponsesTold(base, s, w.agg)
        BY <1>6, <2>4 DEF Keeps, ResponsesKeeps
      <3> QED
        BY <2>1, <3>1 DEF ResponsesWaits, ResponsesTold
    <2> QED
      BY <1>3, <2>2, <2>3, <2>4 DEF Stages
  <1> QED
    BY <1>4, <1>5, <1>6 DEF Dialects

\* An end among the events of a walk is its end.
LEMMA WalkDone ==
    ASSUME NEW events, NEW w, NEW x, Walks(events, w, x), NEW i \in 1..Len(events), events[i].ev = "done"
    PROVE  x.stage = "over"
  <1>1. PICK n : n = Len(events)
    OBVIOUS
  <1>2. IsList(events) /\ n \in Nat
    BY <1>1, ListFacts DEF Walks
  <1>3. PICK walk : WalksBy(events, w, x, walk)
    BY DEF Walks
  <1> DEFINE S == {k \in 0..n : i <= k => walk[k].stage = "over"}
  <1>4. 0 \in S
    BY <1>2
  <1>5. ASSUME NEW k \in 1..n, k - 1 \in S PROVE k \in S
    <2>1. k - 1 \in 0..n /\ k \in 0..n /\ i \in Nat
      BY <1>2
    <2>2. PICK v, e, y : v = walk[k - 1] /\ e = events[k] /\ y = walk[k]
      OBVIOUS
    <2>3. v \in Points /\ Legal(v, e) /\ y = After(v, e)
      BY <1>1, <1>3, <2>1, <2>2 DEF WalksBy
    <2>4. y.stage = StageAfter(v.stage, e) /\ e \in Events /\ v.stage \in Stages
      BY <2>3 DEF After, Legal, Points
    <2>5. CASE k = i
      <3>1. e.ev = "done"
        BY <2>2, <2>5
      <3> QED
        BY <2>1, <2>2, <2>4, <3>1 DEF StageAfter
    <2>6. CASE i <= k - 1
      <3>1. v.stage = "over"
        BY <1>5, <2>2, <2>6
      <3>2. e.ev = "usage_delta"
        BY <2>3, <2>4, <3>1 DEF Legal, Events
      <3> QED
        BY <2>1, <2>2, <2>4, <3>1, <3>2 DEF StageAfter
    <2>7. CASE ~(i <= k)
      BY <2>1, <2>7
    <2> QED
      BY <2>1, <2>5, <2>6, <2>7
  <1>6. n \in S
    <2>1. \A k \in 0..n : k \in S
      <3> HIDE DEF S
      <3> QED
        BY <1>2, <1>4, <1>5, UpTo
    <2> QED
      BY <1>2, <2>1
  <1>7. walk[n] = x /\ i <= n
    BY <1>1, <1>2, <1>3 DEF WalksBy
  <1> QED
    BY <1>6, <1>7

\* What two texts in a row have is what the one has and the other.
LEMMA ToSetConcat ==
    ASSUME NEW p, NEW q, IsList(p), IsList(q), NEW m
    PROVE  m \in ToSet(p \o q) <=> m \in ToSet(p) \/ m \in ToSet(q)
  <1>1. PICK k, n, r : k = Len(p) /\ n = Len(q) /\ r = p \o q
    OBVIOUS
  <1>2. k \in Nat /\ n \in Nat /\ DOMAIN p = 1..k /\ DOMAIN q = 1..n
    BY <1>1, ListFacts
  <1>3. /\ IsList(r) /\ Len(r) = k + n
        /\ \A i \in 1..k : r[i] = p[i]
        /\ \A i \in 1..n : r[k + i] = q[i]
    <2>1. IsList(r) /\ Len(r) = Len(p) + Len(q)
      BY <1>1, InARow
    <2>3. \A i \in 1..Len(p) : r[i] = p[i]
      BY <1>1, InARow
    <2>2. \A i \in 1..Len(q) : r[Len(p) + i] = q[i]
      BY <1>1, InARow
    <2> QED
      BY <1>1, <2>1, <2>2, <2>3
  <1>4. DOMAIN r = 1..(k + n)
    BY <1>3, ListFacts
  <1>5. m \in ToSet(r) <=> \E i \in 1..(k + n) : r[i] = m
    BY <1>4 DEF ToSet
  <1>6. m \in ToSet(p) <=> \E i \in 1..k : p[i] = m
    BY <1>2 DEF ToSet
  <1>7. m \in ToSet(q) <=> \E i \in 1..n : q[i] = m
    BY <1>2 DEF ToSet
  <1>8. ASSUME NEW i \in 1..(k + n), r[i] = m PROVE m \in ToSet(p) \/ m \in ToSet(q)
    <2>1. CASE i <= k
      BY <1>2, <1>3, <1>6, <1>8, <2>1
    <2>2. CASE i > k
      <3>1. PICK j : j = i - k
        OBVIOUS
      <3>2. j \in 1..n /\ i = k + j
        BY <1>2, <2>2, <3>1
      <3> QED
        BY <1>3, <1>7, <1>8, <3>2
    <2> QED
      BY <1>2, <2>1, <2>2
  <1>9. ASSUME m \in ToSet(p) PROVE m \in ToSet(r)
    <2>1. PICK i \in 1..k : p[i] = m
      BY <1>6, <1>9
    <2>2. i \in 1..(k + n) /\ r[i] = m
      BY <1>2, <1>3, <2>1
    <2> QED
      BY <1>5, <2>2
  <1>10. ASSUME m \in ToSet(q) PROVE m \in ToSet(r)
    <2>1. PICK i \in 1..n : q[i] = m
      BY <1>7, <1>10
    <2>2. k + i \in 1..(k + n) /\ r[k + i] = m
      BY <1>2, <1>3, <2>1
    <2> QED
      BY <1>5, <2>2
  <1> QED
    BY <1>1, <1>5, <1>8, <1>9, <1>10

\* An atom is in the text, the thinking or a call of an aggregator.
CallUtters(c, m) == m = c.id \/ m = c.name \/ m \in ToSet(c.json)
ToolsUtter(tools, m) == \E i \in 1..Len(tools) : CallUtters(tools[i], m)
Utters(a, m) == m \in ToSet(a.text) \/ m \in ToSet(a.thinking) \/ ToolsUtter(a.tools, m)

\* A call that starts is among the calls, with what was there.
LEMMA StartUtters ==
    ASSUME NEW tools \in Seq(Tools), NEW c \in Tools, NEW m, ToolsUtter(tools, m) \/ CallUtters(c, m)
    PROVE  ToolsUtter(Append(tools, c), m)
  <1>1. PICK n, r : n = Len(tools) /\ r = Append(tools, c)
    OBVIOUS
  <1>2. n \in Nat /\ Len(r) = n + 1 /\ r[n + 1] = c /\ \A i \in 1..n : r[i] = tools[i]
    BY <1>1
  <1>3. CASE CallUtters(c, m)
    <2>1. n + 1 \in 1..Len(r) /\ CallUtters(r[n + 1], m)
      BY <1>2, <1>3
    <2> QED
      BY <1>1, <2>1 DEF ToolsUtter
  <1>4. CASE ToolsUtter(tools, m)
    <2>1. PICK i \in 1..n : CallUtters(tools[i], m)
      BY <1>1, <1>4 DEF ToolsUtter
    <2>2. i \in 1..Len(r) /\ CallUtters(r[i], m)
      BY <1>2, <2>1
    <2> QED
      BY <1>1, <2>2 DEF ToolsUtter
  <1> QED
    BY <1>3, <1>4

\* What arguments grow by is in the last call, with what was there.
LEMMA ArgsUtter ==
    ASSUME NEW tools \in Seq(Tools), tools # <<>>, NEW json \in Seq(Strings), NEW m,
           ToolsUtter(tools, m) \/ m \in ToSet(json)
    PROVE  ToolsUtter(AppendToLast(tools, json), m)
  <1>1. PICK n, r, c, d : /\ n = Len(tools) /\ r = AppendToLast(tools, json) /\ c = tools[Len(tools)]
                          /\ d = c.json \o json
    OBVIOUS
  <1>2. n \in Nat /\ n \in 1..n /\ c \in Tools
    BY <1>1
  <1>3. r = [tools EXCEPT ![n] = [c EXCEPT !.json = d]]
    BY <1>1 DEF AppendToLast
  <1>4. Len(r) = n /\ r[n] = [c EXCEPT !.json = d] /\ \A i \in 1..n : i # n => r[i] = tools[i]
    <2>1. PICK z : z = [c EXCEPT !.json = d]
      OBVIOUS
    <2>2. r = [tools EXCEPT ![n] = z]
      BY <1>3, <2>1
    <2>3. Len(r) = n /\ r[n] = z /\ \A i \in 1..n : i # n => r[i] = tools[i]
      BY <1>1, <1>2, <2>2
    <2> QED
      BY <2>1, <2>3
  <1>5. r[n].id = c.id /\ r[n].name = c.name /\ r[n].json = d
    BY <1>2, <1>4 DEF Tools
  <1>6. m \in ToSet(d) <=> m \in ToSet(c.json) \/ m \in ToSet(json)
    <2>1. c.json \in Seq(Strings)
      BY <1>2 DEF Tools
    <2>2. IsList(c.json) /\ IsList(json)
      BY <2>1, SeqIsList
    <2> QED
      BY <1>1, <2>2, ToSetConcat
  <1>7. CASE m \in ToSet(json)
    <2>1. n \in 1..Len(r) /\ CallUtters(r[n], m)
      BY <1>2, <1>4, <1>5, <1>6, <1>7 DEF CallUtters
    <2> QED
      BY <1>1, <2>1 DEF ToolsUtter
  <1>8. CASE ToolsUtter(tools, m)
    <2>1. PICK i \in 1..n : CallUtters(tools[i], m)
      BY <1>1, <1>8 DEF ToolsUtter
    <2>2. CASE i = n
      <3>1. CallUtters(c, m)
        BY <1>1, <2>1, <2>2
      <3>2. n \in 1..Len(r) /\ CallUtters(r[n], m)
        BY <1>2, <1>4, <1>5, <1>6, <3>1 DEF CallUtters
      <3> QED
        BY <1>1, <3>2 DEF ToolsUtter
    <2>3. CASE i # n
      <3>1. i \in 1..Len(r) /\ CallUtters(r[i], m)
        BY <1>4, <2>1, <2>3
      <3> QED
        BY <1>1, <3>1 DEF ToolsUtter
    <2> QED
      BY <2>2, <2>3
  <1> QED
    BY <1>7, <1>8

\* An aggregator utters no more than the events it was given, if its arguments
\* come in calls.
LEMMA PushUtters ==
    ASSUME NEW a \in Aggregators, NEW e \in Events, NEW m, Utters(a, m) \/ m \in Words(e),
           e.ev = "tool_use_delta" => a.tools # <<>>
    PROVE  Utters(Push(a, e), m)
  <1>1. IsList(a.text) /\ IsList(a.thinking)
    BY SeqIsList DEF Aggregators
  <1>2. CASE e.ev = "text_delta"
    <2>1. PICK t : t = a.text \o e.text
      OBVIOUS
    <2>2. Push(a, e) = [a EXCEPT !.text = t]
      BY <1>2, <2>1 DEF Push
    <2>3. Push(a, e).text = t /\ Push(a, e).thinking = a.thinking /\ Push(a, e).tools = a.tools
      BY <2>2 DEF Aggregators
    <2>4. IsList(e.text)
      <3>1. e.text \in Seq(Strings)
        BY <1>2 DEF Events
      <3> QED
        BY <3>1, SeqIsList
    <2>5. m \in ToSet(t) <=> m \in ToSet(a.text) \/ m \in ToSet(e.text)
      BY <1>1, <2>1, <2>4, ToSetConcat
    <2> QED
      BY <1>2, <2>3, <2>5 DEF Utters, Words
  <1>3. CASE e.ev = "thinking_delta"
    <2>1. PICK t : t = a.thinking \o e.text
      OBVIOUS
    <2>2. Push(a, e) = [a EXCEPT !.thinking = t]
      BY <1>3, <2>1 DEF Push
    <2>3. Push(a, e).text = a.text /\ Push(a, e).thinking = t /\ Push(a, e).tools = a.tools
      BY <2>2 DEF Aggregators
    <2>4. IsList(e.text)
      <3>1. e.text \in Seq(Strings)
        BY <1>3 DEF Events
      <3> QED
        BY <3>1, SeqIsList
    <2>5. m \in ToSet(t) <=> m \in ToSet(a.thinking) \/ m \in ToSet(e.text)
      BY <1>1, <2>1, <2>4, ToSetConcat
    <2> QED
      BY <1>3, <2>3, <2>5 DEF Utters, Words
  <1>4. CASE e.ev = "tool_use_start"
    <2>1. PICK c, n : c = [id |-> e.id, name |-> e.name, json |-> <<>>] /\ n = Append(a.tools, c)
      OBVIOUS
    <2>2. Push(a, e) = [a EXCEPT !.tools = n]
      BY <1>4, <2>1 DEF Push
    <2>3. Push(a, e).text = a.text /\ Push(a, e).thinking = a.thinking /\ Push(a, e).tools = n
      BY <2>2 DEF Aggregators
    <2>4. c \in Tools
      BY <1>4, <2>1 DEF Events, Tools
    <2>5. m \in Words(e) => CallUtters(c, m)
      BY <1>4, <2>1 DEF Words, CallUtters
    <2>6. ToolsUtter(a.tools, m) \/ CallUtters(c, m) => ToolsUtter(n, m)
      BY <2>1, <2>4, StartUtters DEF Aggregators
    <2> QED
      BY <2>3, <2>5, <2>6 DEF Utters
  <1>5. CASE e.ev = "tool_use_delta"
    <2>1. PICK n : n = AppendToLast(a.tools, e.json)
      OBVIOUS
    <2>2. Push(a, e) = [a EXCEPT !.tools = n]
      BY <1>5, <2>1 DEF Push
    <2>3. Push(a, e).text = a.text /\ Push(a, e).thinking = a.thinking /\ Push(a, e).tools = n
      BY <2>2 DEF Aggregators
    <2>4. e.json \in Seq(Strings) /\ a.tools \in Seq(Tools)
      BY <1>5 DEF Events, Aggregators
    <2>5. m \in Words(e) => m \in ToSet(e.json)
      BY <1>5 DEF Words
    <2>6. ToolsUtter(a.tools, m) \/ m \in ToSet(e.json) => ToolsUtter(n, m)
      BY <1>5, <2>1, <2>4, ArgsUtter
    <2> QED
      BY <2>3, <2>5, <2>6 DEF Utters
  <1>6. CASE e.ev \in {"message_start", "usage_delta", "done"}
    <2>1. PICK b : b = Push(a, e)
      OBVIOUS
    <2>2. b.text = a.text /\ b.thinking = a.thinking /\ b.tools = a.tools
      <3>1. PICK u, z : u = Merge(a.usage, e.usage) /\ z = <<e.stop>>
        OBVIOUS
      <3>2. b = a \/ b = [a EXCEPT !.usage = u] \/ b = [a EXCEPT !.stop = z]
        BY <1>6, <2>1, <3>1 DEF Push
      <3> QED
        BY <3>2 DEF Aggregators
    <2>3. m \notin Words(e)
      BY <1>6 DEF Words
    <2> QED
      BY <2>1, <2>2, <2>3 DEF Utters
  <1> QED
    BY <1>2, <1>3, <1>4, <1>5, <1>6 DEF Events

\* Where a call is the last thing said there is a call.
InCall(w) == w.stage = "call" => w.agg.tools # <<>>

\* An event leaves it so.
LEMMA AfterInCall ==
    ASSUME NEW w \in Points, NEW e, Legal(w, e), InCall(w)
    PROVE  InCall(After(w, e))
  <1>1. PICK x, a, b : x = After(w, e) /\ a = w.agg /\ b = Push(w.agg, e)
    OBVIOUS
  <1>2. x.stage = StageAfter(w.stage, e) /\ x.agg = b /\ a \in Aggregators /\ e \in Events
    BY <1>1 DEF After, Points, Legal
  <1>3. a.tools \in Seq(Tools)
    BY <1>2 DEF Aggregators
  <1>4. CASE e.ev = "tool_use_start"
    <2>1. PICK n : n = Append(a.tools, [id |-> e.id, name |-> e.name, json |-> <<>>])
      OBVIOUS
    <2>2. b = [a EXCEPT !.tools = n]
      BY <1>1, <1>4, <2>1 DEF Push
    <2>3. b.tools = n
      BY <1>2, <2>2 DEF Aggregators
    <2>4. Len(n) = Len(a.tools) + 1 /\ Len(a.tools) \in Nat
      BY <1>3, <2>1
    <2>5. n # <<>>
      BY <2>4
    <2> QED
      BY <1>1, <1>2, <2>3, <2>5 DEF InCall
  <1>5. CASE e.ev = "tool_use_delta"
    <2>1. PICK n : n = AppendToLast(a.tools, e.json)
      OBVIOUS
    <2>2. b = [a EXCEPT !.tools = n]
      BY <1>1, <1>5, <2>1 DEF Push
    <2>3. b.tools = n
      BY <1>2, <2>2 DEF Aggregators
    <2>4. a.tools # <<>>
      BY <1>1, <1>5 DEF Legal, InCall
    <2>5. Len(n) = Len(a.tools) /\ Len(a.tools) # 0
      BY <1>3, <2>1, <2>4 DEF AppendToLast
    <2>6. n # <<>>
      BY <2>5
    <2> QED
      BY <1>1, <1>2, <2>3, <2>6 DEF InCall
  <1>6. CASE e.ev = "usage_delta"
    <2>1. PICK u : u = Merge(a.usage, e.usage)
      OBVIOUS
    <2>2. b = [a EXCEPT !.usage = u]
      BY <1>1, <1>6, <2>1 DEF Push
    <2>3. b.tools = a.tools /\ x.stage = w.stage
      BY <1>2, <1>6, <2>2 DEF Aggregators, StageAfter
    <2> QED
      BY <1>1, <1>2, <2>3 DEF InCall
  <1>7. CASE e.ev \notin {"tool_use_start", "tool_use_delta", "usage_delta"}
    <2>1. x.stage # "call"
      BY <1>2, <1>7 DEF Events, StageAfter
    <2> QED
      BY <1>1, <2>1 DEF InCall
  <1> QED
    BY <1>4, <1>5, <1>6, <1>7

\* What is uttered at the start of a walk or on its way is uttered at its end.
LEMMA WalkUtters ==
    ASSUME NEW events, NEW w, NEW x, Walks(events, w, x), InCall(w), NEW m
    PROVE  /\ InCall(x)
           /\ (Utters(w.agg, m) \/ \E i \in 1..Len(events) : m \in Words(events[i])) => Utters(x.agg, m)
  <1>1. PICK n : n = Len(events)
    OBVIOUS
  <1>2. IsList(events) /\ n \in Nat
    BY <1>1, ListFacts DEF Walks
  <1>3. PICK walk : WalksBy(events, w, x, walk)
    BY DEF Walks
  <1> DEFINE Spoken(k) == Utters(w.agg, m) \/ \E i \in 1..k : m \in Words(events[i])
  <1> DEFINE S == {k \in 0..n : InCall(walk[k]) /\ (Spoken(k) => Utters(walk[k].agg, m))}
  <1>4. 0 \in S
    BY <1>2, <1>3 DEF WalksBy
  <1>5. ASSUME NEW k \in 1..n, k - 1 \in S PROVE k \in S
    <2>1. k - 1 \in 0..n /\ k \in 0..n
      BY <1>2
    <2>2. PICK v, e, y : v = walk[k - 1] /\ e = events[k] /\ y = walk[k]
      OBVIOUS
    <2>3. v \in Points /\ Legal(v, e) /\ y = After(v, e)
      BY <1>1, <1>3, <2>1, <2>2 DEF WalksBy
    <2>4. y.agg = Push(v.agg, e) /\ e \in Events /\ v.agg \in Aggregators
      BY <2>3 DEF After, Legal, Points
    <2>5. InCall(v) /\ (Spoken(k - 1) => Utters(v.agg, m))
      BY <1>5, <2>2
    <2>6. InCall(y)
      BY <2>3, <2>5, AfterInCall
    <2>7. ASSUME Spoken(k) PROVE Utters(y.agg, m)
      <3>1. Utters(v.agg, m) \/ m \in Words(e)
        <4>1. \A i \in 1..k : i = k \/ i \in 1..(k - 1)
          BY <2>1
        <4> QED
          BY <2>2, <2>5, <2>7, <4>1
      <3>2. e.ev = "tool_use_delta" => v.agg.tools # <<>>
        BY <2>3, <2>5 DEF Legal, InCall
      <3> QED
        BY <2>4, <3>1, <3>2, PushUtters
    <2> QED
      BY <2>1, <2>2, <2>6, <2>7
  <1>6. n \in S
    <2>1. \A k \in 0..n : k \in S
      <3> HIDE DEF S
      <3> QED
        BY <1>2, <1>4, <1>5, UpTo
    <2> QED
      BY <1>2, <2>1
  <1>7. walk[n] = x
    BY <1>1, <1>3 DEF WalksBy
  <1> QED
    BY <1>1, <1>6, <1>7

-----------------------------------------------------------------------------
(* What the client of a stream has been told, read by read                 *)

\* Where the client has asked for the usage, or its dialect has its end carry
\* it, the usage has come.
Late(c, inc, w) == c = "responses" \/ (c = "chat" /\ inc = "yes") => w.seen
Told(c, F, w) ==
  /\ IsList(F) /\ Formed(c, F) /\ HeardIn(c, F, w)
  /\ HasEnd(c, F) => w.stage = "over"

\* A walk leads from point to point.
LEMMA WalkTyped ==
    ASSUME NEW events, NEW w, NEW x, Walks(events, w, x)
    PROVE  IsList(events) /\ w \in Points /\ x \in Points
  <1>1. PICK n : n = Len(events)
    OBVIOUS
  <1>2. IsList(events) /\ n \in Nat
    BY <1>1, ListFacts DEF Walks
  <1>3. PICK walk : WalksBy(events, w, x, walk)
    BY DEF Walks
  <1>4. walk[0] \in Points /\ walk[n] \in Points
    BY <1>1, <1>2, <1>3 DEF WalksBy
  <1> QED
    BY <1>1, <1>2, <1>3, <1>4 DEF WalksBy

\* What goes out and is taken for the end is the end, unless the model's own
\* words were.
LEMMA EndGoes ==
    ASSUME NEW c \in Dialects, NEW inc, NEW F, NEW s, NEW w, NEW x, NEW events,
           Keeps(c, inc, F, s, w), Flushed(s) = s, Walks(events, w, x), InCall(w),
           NEW e, e = Encode(c, events, s), EndsStream(c, e.out, events), ~Utters(x.agg, Mention)
    PROVE  x.stage = "over" /\ Late(c, inc, x)
  <1>1. x \in Points /\ IsList(events)
    BY WalkTyped
  <1>2. DOMAIN events = 1..Len(events)
    BY <1>1, ListFacts
  <1>3. CASE c = "gemini"
    <2>1. PICK i \in 1..Len(events) : events[i].ev = "done"
      BY <1>2, <1>3 DEF EndsStream
    <2>2. x.stage = "over"
      BY <2>1, WalkDone
    <2> QED
      BY <1>3, <2>2 DEF Late
  <1>4. CASE c # "gemini"
    <2>1. Keeps(c, inc, F, e, x)
      BY KeepsEncoded
    <2>2. IsList(F) /\ IsList(e.out)
      BY <1>1, <1>4, <2>1, OutLists
    <2>3. PICK f : f = e.out
      OBVIOUS
    <2>4. ~ \E i \in DOMAIN events : Mention \in Words(events[i])
      <3>1. ~ \E i \in 1..Len(events) : Mention \in Words(events[i])
        BY WalkUtters
      <3> QED
        BY <1>2, <3>1
    <2>5. PICK i \in DOMAIN f : f[i].kind = Marker(c)
      BY <1>4, <2>3, <2>4 DEF EndsStream
    <2>6. PICK G, m, n, j : G = F \o f /\ m = Len(F) /\ n = Len(f) /\ j = Len(F) + i
      OBVIOUS
    <2>7. m \in Nat /\ n \in Nat /\ i \in 1..n
      BY <2>2, <2>3, <2>5, <2>6, ListFacts
    <2>8. Len(G) = m + n
      BY <2>2, <2>3, <2>6, InARow
    <2>9. G[j] = f[i] /\ j \in 1..Len(G)
      <3>1. \A k \in 1..Len(f) : G[Len(F) + k] = f[k]
        BY <2>2, <2>3, <2>6, InARow
      <3> QED
        BY <2>6, <2>7, <2>8, <3>1
    <2>10. IsEnd(c, G[j])
      BY <1>4, <2>5, <2>9 DEF IsEnd, Marker, Dialects
    <2>11. HasEnd(c, G)
      BY <2>9, <2>10 DEF HasEnd
    <2>12. Told(c, G, x) /\ (HasEnd(c, G) => Late(c, inc, x))
      <3>1. G = F \o e.out
        BY <2>3, <2>6
      <3> QED
        BY <1>1, <2>1, <3>1, KeepsTells DEF Told, Late
    <2> QED
      BY <2>11, <2>12 DEF Told
  <1> QED
    BY <1>3, <1>4

-----------------------------------------------------------------------------
(* The inductive invariant                                                 *)

Inc(t) == IF t.include THEN "yes" ELSE "no"

\* A turn that streams to its client: `w` is where the upstream's lines have
\* led, F what the client was sent, l the log, z how the turn ended.
Streaming(t, w, e, us, F, b, l, z) ==
  /\ Told(t.client, F, w) /\ us = w.agg.usage /\ b = <<>>
  /\ z = "no" => Keeps(t.client, Inc(t), F, e, w) /\ Flushed(e) = e /\ l = <<>>
  /\ (z # "eof" /\ HasEnd(t.client, F)) => Late(t.client, Inc(t), w)
  /\ (z = "end" /\ ~Utters(w.agg, Mention)) => w.stage = "over" /\ Late(t.client, Inc(t), w)
  /\ z \in {"end", "eof"} => l = Entry(IntoResponse(w.agg), us, FALSE)
  /\ z \in {"break", "hangup"} => l = Entry(IntoResponse(w.agg), us, TRUE)

\* A turn that gathers an upstream's stream for a client that wants a body.
Gathering(t, w, F, b, l, z) ==
  /\ F = <<>> /\ z # "end"
  /\ z # "eof" => b = <<>>
  /\ z \in {"no", "hangup"} => l = <<>>
  /\ z = "break" => l = Entry(Response(<<>>, "none", NoTokens), NoTokens, TRUE)
  /\ z = "eof" => /\ b = <<EmitResponse(t.client, IntoResponse(w.agg))>>
                  /\ l = Entry(IntoResponse(w.agg), w.agg.usage, FALSE)

\* The lines read, with a last one that the upstream closed upon, have led
\* the decoder and the fold to where the stream leads.
Reading(t, n, dec, e, us, g, F, b, l, z) ==
  /\ z \in {"no", "end", "eof", "break", "hangup"}
  /\ \E k \in 0..Len(Lines(t)) :
       /\ k = n \div 2 \/ (z = "eof" /\ k = (n \div 2) + 1)
       /\ dec = RunOf(t)[k].st /\ g = RunOf(t)[k].w.agg
       /\ IF t.stream THEN Streaming(t, RunOf(t)[k].w, e, us, F, b, l, z)
          ELSE Gathering(t, RunOf(t)[k].w, F, b, l, z)

\* A turn whose upstream answers in one body.
FullAnswer(t) == ParseResponse(t.up, FullBody(t))
ToldFull(t, F) ==
  \E w \in Points : /\ Told(t.client, F, w) /\ w.stage = "over"
                    /\ w.agg.text = AllText(FullAnswer(t).content)
                    /\ w.agg.thinking = AllThinking("chat", FullAnswer(t).content)
                    /\ w.agg.tools = AllTools("chat", FullAnswer(t).content)
                    /\ w.agg.stop = <<FullStop(t)>>
Given(t, F, b, l, z) ==
  /\ z \in {"no", "full", "unreadable"}
  /\ z # "full" => F = <<>> /\ b = <<>> /\ l = <<>>
  /\ z = "full" => l = Entry(FullAnswer(t), FullAnswer(t).usage, FALSE)
  /\ z = "full" => IF t.stream THEN b = <<>> /\ ToldFull(t, F)
                   ELSE F = <<>> /\ b = <<EmitResponse(t.client, FullAnswer(t))>>

RelayInv ==
  /\ turn \in Turns /\ Sensible(turn) /\ read \in 0..HalfLines
  /\ IF turn.buffered THEN Given(turn, sent, body, log, ended)
     ELSE Reading(turn, read, decoder, encoder, usage, agg, sent, body, log, ended)

\* Before the first line nothing is told.
LEMMA EmptyTold ==
    ASSUME NEW t \in Turns, NEW e, e = NewEncoder(t.client, t.include)
    PROVE  Keeps(t.client, Inc(t), <<>>, e, Outset) /\ Flushed(e) = e /\ Told(t.client, <<>>, Outset)
           /\ ~HasEnd(t.client, <<>>)
  <1>1. t.client \in Dialects /\ t.include \in BOOLEAN
    BY DialectsAssumption DEF Turns
  <1>2. e = NewEncoder(t.client, Inc(t) = "yes")
    <2>1. CASE t.include
      BY <1>1, <2>1 DEF Inc
    <2>2. CASE ~t.include
      BY <1>1, <2>2 DEF Inc
    <2> QED
      BY <2>1, <2>2
  <1>3. PICK c, inc : c = t.client /\ inc = Inc(t)
    OBVIOUS
  <1>4. Keeps(c, inc, <<>>, e, Outset) /\ e.out = <<>> /\ Flushed(e) = e
    <2>1. c \in Dialects /\ e = NewEncoder(c, inc = "yes")
      BY <1>1, <1>2, <1>3
    <2> QED
      BY <2>1, KeepsNew, Zenon
  <1>5. Outset \in Points
    BY OutsetTyped
  <1>6. <<>> = <<>> \o e.out
    BY <1>4, ConcatNil, ListEmpty
  <1>7. /\ IsList(<<>>) /\ Formed(c, <<>>) /\ HeardIn(c, <<>>, Outset)
        /\ HasEnd(c, <<>>) => Outset.stage = "over"
    <2>1. c \in Dialects /\ Keeps(c, inc, <<>>, e, Outset)
      BY <1>1, <1>3, <1>4
    <2> QED
      BY <1>5, <1>6, <2>1, KeepsTells, Zenon
  <1>8. Outset.stage # "over"
    BY DEF Outset
  <1> QED
    BY <1>3, <1>4, <1>7, <1>8 DEF Told

\* The invariant holds at first.
LEMMA RelayStarts == Init => RelayInv
  <1> SUFFICES ASSUME Init PROVE RelayInv
    OBVIOUS
  <1>1. /\ turn \in Turns /\ Sensible(turn) /\ read = 0 /\ decoder = NewDecoder
        /\ encoder = NewEncoder(turn.client, turn.include)
        /\ usage = NoTokens /\ agg = NewAggregator
        /\ sent = <<>> /\ body = <<>> /\ log = <<>> /\ ended = "no"
    BY DEF Init
  <1>2. PICK n, run : n = Len(Lines(turn)) /\ run = RunOf(turn)
    OBVIOUS
  <1>3. n \in Nat /\ run[0] = Start
    BY <1>1, <1>2, RunFacts
  <1>4. run[0].st = NewDecoder /\ run[0].w = Outset
    BY <1>3 DEF Start
  <1>5. Outset.agg = NewAggregator /\ NewAggregator.usage = NoTokens
    BY DEF Outset, NewAggregator
  <1>6. read \in 0..HalfLines
    BY <1>1, <1>2, <1>3 DEF HalfLines
  <1>7. Given(turn, sent, body, log, ended)
    BY <1>1 DEF Given
  <1>8. Streaming(turn, Outset, encoder, usage, sent, body, log, ended)
    <2>1. Keeps(turn.client, Inc(turn), <<>>, encoder, Outset) /\ Flushed(encoder) = encoder
          /\ Told(turn.client, <<>>, Outset) /\ ~HasEnd(turn.client, <<>>)
      BY <1>1, EmptyTold
    <2> QED
      BY <1>1, <1>5, <2>1 DEF Streaming
  <1>9. Gathering(turn, Outset, sent, body, log, ended)
    BY <1>1 DEF Gathering
  <1>10. Reading(turn, read, decoder, encoder, usage, agg, sent, body, log, ended)
    <2>1. 0 \in 0..n /\ 0 = read \div 2
      BY <1>1, <1>3
    <2>2. decoder = run[0].st /\ agg = run[0].w.agg
      BY <1>1, <1>4, <1>5
    <2> QED
      BY <1>1, <1>2, <1>4, <1>8, <1>9, <2>1, <2>2 DEF Reading
  <1> QED
    BY <1>1, <1>6, <1>7, <1>10 DEF RelayInv

\* Nothing changes the invariant but a step.
LEMMA RelayStutters == RelayInv /\ UNCHANGED vars => RelayInv'
  BY DEF RelayInv, vars, HalfLines

\* A read of a turn's stream, complete lines only, or with the last one.
LEMMA LinesLead ==
    ASSUME NEW t \in Turns, NEW i \in 0..Len(Lines(t)), NEW j \in i..Len(Lines(t)),
           NEW d, d = DecodeLines(t.up, SubSeq(Lines(t), i + 1, j), RunOf(t)[i].st)
    PROVE  /\ d.st = RunOf(t)[j].st /\ Walks(d.events, RunOf(t)[i].w, RunOf(t)[j].w)
           /\ PushAll(RunOf(t)[i].w.agg, d.events) = RunOf(t)[j].w.agg
           /\ MergeUsage(RunOf(t)[i].w.agg.usage, d.events) = RunOf(t)[j].w.agg.usage
  <1>1. d.st = RunOf(t)[j].st /\ Walks(d.events, RunOf(t)[i].w, RunOf(t)[j].w)
    BY ReadLeads
  <1> QED
    BY <1>1, WalkFolds

\* A part of the lines left to read is a part of the answer.
LEMMA LastLeads ==
    ASSUME NEW t \in Turns, NEW i \in 0..Len(Lines(t)), NEW n \in 0..(2 * Len(Lines(t))), i = n \div 2,
           NEW ls, ls = <<>> \/ (n % 2 = 1 /\ ls = <<Lines(t)[i + 1]>>)
    PROVE  \E j \in i..Len(Lines(t)) : (j = i \/ j = i + 1) /\ ls = SubSeq(Lines(t), i + 1, j)
  <1>1. PICK s, m : s = Lines(t) /\ m = Len(s)
    OBVIOUS
  <1>2. IsList(s) /\ m \in Nat
    BY <1>1, RunLeads, ListFacts
  <1>3. CASE ls = <<>>
    <2>1. SubSeq(s, i + 1, i) = <<>>
      BY <1>1, <1>2 DEF IsList
    <2>2. i \in i..Len(Lines(t))
      BY <1>1, <1>2
    <2> QED
      BY <1>1, <1>3, <2>1, <2>2
  <1>4. CASE n % 2 = 1 /\ ls = <<s[i + 1]>>
    <2>1. i + 1 <= m /\ i \in Nat
      BY <1>1, <1>2, <1>4
    <2>2. SubSeq(s, i + 1, i + 1) = <<s[i + 1]>>
      <3>1. i + 1 \in 1..m
        BY <2>1
      <3>2. PICK k : k = i + 1
        OBVIOUS
      <3>3. PICK one : one = SubSeq(s, k, k)
        OBVIOUS
      <3>4. Len(one) = 1 /\ one[1] = s[k] /\ IsList(one)
        BY <1>1, <1>2, <3>1, <3>2, <3>3 DEF IsList
      <3>5. PICK v : v = <<s[k]>>
        OBVIOUS
      <3>6. IsList(v) /\ Len(v) = 1 /\ v[1] = s[k]
        BY <3>5, ListOne
      <3>7. \A q \in 1..Len(one) : one[q] = v[q]
        BY <3>4, <3>6
      <3>8. one = v
        BY <3>4, <3>6, <3>7, ListSame
      <3> QED
        BY <3>2, <3>3, <3>5, <3>8
    <2>3. i + 1 \in i..Len(Lines(t))
      BY <1>1, <2>1
    <2> QED
      BY <1>1, <1>4, <2>2, <2>3
  <1> QED
    BY <1>1, <1>3, <1>4

\* A batch that goes out, for a step of the gateway.
Sends(c, inc, F, s, w, x, events, e, G) ==
  /\ Keeps(c, inc, F, s, w) /\ Flushed(s) = s /\ Walks(events, w, x)
  /\ e = Encode(c, events, s) /\ G = F \o e.out

\* What a client was sent once more frames are written.
LEMMA SendsMore ==
    ASSUME NEW c \in Dialects, NEW inc, NEW F, NEW s, NEW w, NEW x, NEW events, NEW e, NEW G,
           Sends(c, inc, F, s, w, x, events, e, G)
    PROVE  /\ Keeps(c, inc, G, Flushed(e), x) /\ Flushed(Flushed(e)) = Flushed(e)
           /\ Told(c, G, x)
           /\ HasEnd(c, G) => Late(c, inc, x)
           /\ Told(c, F \o Finish(c, e).out, x)
  <1>1. /\ Keeps(c, inc, F, s, w) /\ Flushed(s) = s /\ Walks(events, w, x)
        /\ e = Encode(c, events, s) /\ G = F \o e.out
    BY DEF Sends
  <1>2. /\ Keeps(c, inc, G, Flushed(e), x) /\ Flushed(Flushed(e)) = Flushed(e)
        /\ Told(c, G, x)
        /\ HasEnd(c, G) => Late(c, inc, x)
    <2>1. x \in Points
      BY <1>1, WalkTyped
    <2>2. Keeps(c, inc, F, e, x)
      BY <1>1, KeepsEncoded
    <2>3. Keeps(c, inc, G, Flushed(e), x)
      BY <1>1, <2>1, <2>2, KeepsFlushes
    <2>4. Flushed(Flushed(e)) = Flushed(e)
      BY <2>1, <2>2, KeepsShape, FlushedShape
    <2>5. /\ IsList(G) /\ Formed(c, G) /\ HeardIn(c, G, x)
          /\ HasEnd(c, G) => x.stage = "over" /\ (c = "responses" \/ (c = "chat" /\ inc = "yes") => x.seen)
      BY <1>1, <2>1, <2>2, KeepsTells
    <2> QED
      BY <2>3, <2>4, <2>5 DEF Told, Late
  <1>3. PICK f, H : f = Finish(c, e) /\ H = F \o f.out
    OBVIOUS
  <1>4. f = Finish(c, Encode(c, events, s))
    BY <1>1, <1>3
  <1>5. Told(c, H, x)
    <2>1. x \in Points
      BY <1>1, WalkTyped
    <2>2. Keeps(c, inc, F, e, x)
      BY <1>1, KeepsEncoded
    <2>3. /\ IsList(H) /\ Formed(c, H) /\ HeardIn(c, H, x)
          /\ HasEnd(c, H) => x.stage = "over"
      BY <1>3, <2>1, <2>2, KeepsFinishes
    <2> QED
      BY <2>3 DEF Told
  <1> QED
    BY <1>2, <1>3, <1>5

\* How far the lines read reach.
LEMMA Halves ==
    ASSUME NEW m \in Nat, NEW r \in 0..(2 * m), NEW n \in (r + 1)..(2 * m)
    PROVE  r \div 2 \in 0..m /\ n \div 2 \in (r \div 2)..m /\ n \in 0..(2 * m)
  OBVIOUS

\* Where the lines lead to a call there is one.
LEMMA RunCalls ==
    ASSUME NEW t \in Turns, NEW k \in 0..Len(Lines(t))
    PROVE  InCall(RunOf(t)[k].w)
  <1>1. PICK n, run : n = Len(Lines(t)) /\ run = RunOf(t)
    OBVIOUS
  <1>2. n \in Nat /\ run[0] = Start
    BY <1>1, RunFacts
  <1>3. InCall(run[0].w)
    BY <1>2 DEF Start, Outset, InCall
  <1>4. 0 \in 0..n /\ k \in 0..n
    BY <1>1, <1>2
  <1>5. PICK d : d = DecodeLines(t.up, SubSeq(Lines(t), 0 + 1, k), run[0].st)
    OBVIOUS
  <1>6. Walks(d.events, run[0].w, run[k].w)
    BY <1>1, <1>4, <1>5, LinesLead
  <1> QED
    BY <1>1, <1>3, <1>6, WalkUtters

\* translate_stream, a chunk.
LEMMA ChunkStreams ==
    ASSUME RelayInv, ended = "no", ~turn.buffered, turn.stream,
           NEW n \in (read + 1)..HalfLines, TranslateChunk(n)
    PROVE  RelayInv'
  <1>1. /\ turn \in Turns /\ Sensible(turn) /\ read \in 0..HalfLines
        /\ Reading(turn, read, decoder, encoder, usage, agg, sent, body, log, ended)
    BY DEF RelayInv
  <1>2. PICK t, m, i, j : t = turn /\ m = Len(Lines(t)) /\ i = read \div 2 /\ j = n \div 2
    OBVIOUS
  <1>3. m \in Nat
    BY <1>1, <1>2, RunFacts
  <1>4. i \in 0..m /\ j \in i..m /\ j \in 0..m /\ n \in 0..(2 * m)
    BY <1>1, <1>2, <1>3, Halves DEF HalfLines
  <1>5. PICK w, x : w = RunOf(t)[i].w /\ x = RunOf(t)[j].w
    OBVIOUS
  <1>6. decoder = RunOf(t)[i].st /\ agg = w.agg /\ Streaming(t, w, encoder, usage, sent, body, log, "no")
    BY <1>1, <1>2, <1>5 DEF Reading
  <1>7. PICK d : d = DecodeLines(t.up, NewLines(n), decoder)
    OBVIOUS
  <1>8. NewLines(n) = SubSeq(Lines(t), i + 1, j)
    BY <1>2 DEF NewLines
  <1>9. /\ d.st = RunOf(t)[j].st /\ Walks(d.events, w, x)
        /\ PushAll(w.agg, d.events) = x.agg /\ MergeUsage(w.agg.usage, d.events) = x.agg.usage
    <2>1. t \in Turns /\ i \in 0..Len(Lines(t)) /\ j \in i..Len(Lines(t))
      BY <1>1, <1>2, <1>4
    <2>2. d = DecodeLines(t.up, SubSeq(Lines(t), i + 1, j), RunOf(t)[i].st)
      BY <1>6, <1>7, <1>8
    <2> QED
      BY <1>5, <2>1, <2>2, LinesLead
  <1>10. PICK e, f, u, a, F : /\ e = Encode(t.client, d.events, encoder) /\ f = Flushed(e)
                              /\ u = MergeUsage(usage, d.events) /\ a = PushAll(agg, d.events)
                              /\ F = sent \o e.out
    OBVIOUS
  <1>11. t.client \in Dialects
    BY <1>1, <1>2, DialectsAssumption DEF Turns
  <1>12. /\ Told(t.client, sent, w) /\ usage = w.agg.usage /\ body = <<>>
         /\ Keeps(t.client, Inc(t), sent, encoder, w) /\ Flushed(encoder) = encoder /\ log = <<>>
    BY <1>6 DEF Streaming
  <1>13. /\ Keeps(t.client, Inc(t), F, f, x) /\ Flushed(f) = f /\ Told(t.client, F, x)
         /\ HasEnd(t.client, F) => Late(t.client, Inc(t), x)
    <2>1. PICK c, inc, ev : c = t.client /\ inc = Inc(t) /\ ev = d.events
      OBVIOUS
    <2>2. c \in Dialects /\ Sends(c, inc, sent, encoder, w, x, ev, e, F)
      BY <1>9, <1>10, <1>11, <1>12, <2>1 DEF Sends
    <2>3. /\ Keeps(c, inc, F, Flushed(e), x) /\ Flushed(Flushed(e)) = Flushed(e) /\ Told(c, F, x)
          /\ HasEnd(c, F) => Late(c, inc, x)
      BY <2>2, SendsMore
    <2> QED
      BY <1>10, <2>1, <2>3
  <1>14. u = x.agg.usage /\ a = x.agg
    BY <1>6, <1>9, <1>10, <1>12
  <1>15. /\ turn' = t /\ read' = n /\ decoder' = d.st /\ usage' = u /\ agg' = a
         /\ encoder' = f /\ sent' = F /\ body' = body
         /\ IF e.out # <<>> /\ EndsStream(t.client, e.out, d.events)
            THEN log' = Entry(IntoResponse(a), u, FALSE) /\ ended' = "end"
            ELSE log' = log /\ ended' = ended
    BY <1>2, <1>7, <1>10 DEF TranslateChunk, Flushed
  <1>16. Streaming(t, x, f, u, F, body, log', ended') /\ ended' \in {"no", "end"}
    <2>1. CASE e.out # <<>> /\ EndsStream(t.client, e.out, d.events)
      <3>1. log' = Entry(IntoResponse(a), u, FALSE) /\ ended' = "end"
        BY <1>15, <2>1
      <3>2. ~Utters(x.agg, Mention) => x.stage = "over" /\ Late(t.client, Inc(t), x)
        <4>1. InCall(w)
          BY <1>1, <1>2, <1>4, <1>5, RunCalls
        <4> QED
          BY <1>9, <1>10, <1>11, <1>12, <2>1, <4>1, EndGoes
      <3> QED
        BY <1>12, <1>13, <1>14, <3>1, <3>2 DEF Streaming
    <2>2. CASE ~(e.out # <<>> /\ EndsStream(t.client, e.out, d.events))
      <3>1. log' = <<>> /\ ended' = "no"
        BY <1>12, <1>15, <2>2
      <3> QED
        BY <1>12, <1>13, <1>14, <3>1 DEF Streaming
    <2> QED
      BY <2>1, <2>2
  <1>17. Reading(t, n, d.st, f, u, a, F, body, log', ended')
    BY <1>2, <1>4, <1>5, <1>9, <1>14, <1>16 DEF Reading
  <1>18. HalfLines' = 2 * m
    BY <1>2, <1>15 DEF HalfLines
  <1> QED
    BY <1>1, <1>2, <1>4, <1>15, <1>17, <1>18 DEF RelayInv

\* translate_stream, when the upstream's bytes end.
LEMMA EndStreams ==
    ASSUME RelayInv, ended = "no", ~turn.buffered, turn.stream, NEW whole \in BOOLEAN, TranslateEnd(whole)
    PROVE  RelayInv'
  <1>1. /\ turn \in Turns /\ Sensible(turn) /\ read \in 0..HalfLines
        /\ Reading(turn, read, decoder, encoder, usage, agg, sent, body, log, ended)
    BY DEF RelayInv
  <1>2. PICK t, m, i : t = turn /\ m = Len(Lines(t)) /\ i = read \div 2
    OBVIOUS
  <1>3. m \in Nat
    BY <1>1, <1>2, RunFacts
  <1>4. i \in 0..m /\ read \in 0..(2 * m)
    BY <1>1, <1>2, <1>3 DEF HalfLines
  <1>5. PICK j \in i..m : (j = i \/ j = i + 1) /\ LastLine(whole) = SubSeq(Lines(t), i + 1, j)
    <2>1. PICK ls : ls = LastLine(whole)
      OBVIOUS
    <2>2. ls = <<>> \/ (read % 2 = 1 /\ ls = <<Lines(t)[i + 1]>>)
      BY <1>2, <2>1 DEF LastLine
    <2>3. t \in Turns /\ i \in 0..Len(Lines(t)) /\ read \in 0..(2 * Len(Lines(t)))
      BY <1>1, <1>2, <1>4
    <2>4. \E j \in i..Len(Lines(t)) : (j = i \/ j = i + 1) /\ ls = SubSeq(Lines(t), i + 1, j)
      BY <1>2, <2>2, <2>3, LastLeads
    <2> QED
      BY <1>2, <2>1, <2>4
  <1>6. PICK w, x : w = RunOf(t)[i].w /\ x = RunOf(t)[j].w
    OBVIOUS
  <1>7. decoder = RunOf(t)[i].st /\ agg = w.agg /\ Streaming(t, w, encoder, usage, sent, body, log, "no")
    BY <1>1, <1>2, <1>6 DEF Reading
  <1>8. PICK d : d = DecodeLines(t.up, LastLine(whole), decoder)
    OBVIOUS
  <1>9. /\ d.st = RunOf(t)[j].st /\ Walks(d.events, w, x)
        /\ PushAll(w.agg, d.events) = x.agg /\ MergeUsage(w.agg.usage, d.events) = x.agg.usage
    <2>1. t \in Turns /\ i \in 0..Len(Lines(t)) /\ j \in i..Len(Lines(t))
      BY <1>1, <1>2, <1>4
    <2>2. d = DecodeLines(t.up, SubSeq(Lines(t), i + 1, j), RunOf(t)[i].st)
      BY <1>5, <1>7, <1>8
    <2> QED
      BY <1>6, <2>1, <2>2, LinesLead
  <1>10. PICK s, e, f, u, a, F : /\ s = Encode(t.client, d.events, encoder) /\ e = Finish(t.client, s) /\ f = Flushed(e)
                                 /\ u = MergeUsage(usage, d.events) /\ a = PushAll(agg, d.events)
                                 /\ F = sent \o e.out
    OBVIOUS
  <1>11. t.client \in Dialects
    BY <1>1, <1>2, DialectsAssumption DEF Turns
  <1>12. /\ Told(t.client, sent, w) /\ usage = w.agg.usage /\ body = <<>>
         /\ Keeps(t.client, Inc(t), sent, encoder, w) /\ Flushed(encoder) = encoder /\ log = <<>>
    BY <1>7 DEF Streaming
  <1>13. Told(t.client, F, x)
    <2>1. PICK c, inc, ev, G : c = t.client /\ inc = Inc(t) /\ ev = d.events /\ G = sent \o s.out
      OBVIOUS
    <2>2. c \in Dialects /\ Sends(c, inc, sent, encoder, w, x, ev, s, G)
      BY <1>9, <1>10, <1>11, <1>12, <2>1 DEF Sends
    <2>3. Told(c, sent \o Finish(c, s).out, x)
      BY <2>2, SendsMore
    <2> QED
      BY <1>10, <2>1, <2>3
  <1>14. u = x.agg.usage /\ a = x.agg
    BY <1>7, <1>9, <1>10, <1>12
  <1>15. /\ turn' = t /\ read' = read /\ decoder' = d.st /\ usage' = u /\ agg' = a
         /\ encoder' = f /\ sent' = F /\ body' = body
         /\ log' = Entry(IntoResponse(a), u, FALSE) /\ ended' = "eof"
    BY <1>2, <1>8, <1>10 DEF TranslateEnd, Flushed
  <1>16. Streaming(t, x, f, u, F, body, log', "eof")
    BY <1>12, <1>13, <1>14, <1>15 DEF Streaming
  <1>17. Reading(t, read, d.st, f, u, a, F, body, log', "eof")
    BY <1>2, <1>4, <1>5, <1>6, <1>9, <1>14, <1>16 DEF Reading
  <1>18. HalfLines' = HalfLines
    BY <1>2, <1>15 DEF HalfLines
  <1> QED
    BY <1>1, <1>2, <1>15, <1>17, <1>18 DEF RelayInv

\* aggregate_stream, a chunk.
LEMMA ChunkGathers ==
    ASSUME RelayInv, ended = "no", ~turn.buffered, ~turn.stream,
           NEW n \in (read + 1)..HalfLines, AggregateChunk(n)
    PROVE  RelayInv'
  <1>1. /\ turn \in Turns /\ Sensible(turn) /\ read \in 0..HalfLines
        /\ Reading(turn, read, decoder, encoder, usage, agg, sent, body, log, ended)
    BY DEF RelayInv
  <1>2. PICK t, m, i, j : t = turn /\ m = Len(Lines(t)) /\ i = read \div 2 /\ j = n \div 2
    OBVIOUS
  <1>3. m \in Nat
    BY <1>1, <1>2, RunFacts
  <1>4. i \in 0..m /\ j \in i..m /\ j \in 0..m /\ n \in 0..(2 * m)
    BY <1>1, <1>2, <1>3, Halves DEF HalfLines
  <1>5. PICK w, x : w = RunOf(t)[i].w /\ x = RunOf(t)[j].w
    OBVIOUS
  <1>6. decoder = RunOf(t)[i].st /\ agg = w.agg /\ Gathering(t, w, sent, body, log, "no")
    BY <1>1, <1>2, <1>5 DEF Reading
  <1>7. PICK d : d = DecodeLines(t.up, NewLines(n), decoder)
    OBVIOUS
  <1>8. NewLines(n) = SubSeq(Lines(t), i + 1, j)
    BY <1>2 DEF NewLines
  <1>9. d.st = RunOf(t)[j].st /\ PushAll(w.agg, d.events) = x.agg
    <2>1. t \in Turns /\ i \in 0..Len(Lines(t)) /\ j \in i..Len(Lines(t))
      BY <1>1, <1>2, <1>4
    <2>2. d = DecodeLines(t.up, SubSeq(Lines(t), i + 1, j), RunOf(t)[i].st)
      BY <1>6, <1>7, <1>8
    <2> QED
      BY <1>5, <2>1, <2>2, LinesLead
  <1>10. /\ turn' = t /\ read' = n /\ decoder' = d.st /\ agg' = x.agg /\ usage' = usage
         /\ encoder' = encoder /\ sent' = sent /\ body' = body /\ log' = log /\ ended' = "no"
    BY <1>2, <1>6, <1>7, <1>9 DEF AggregateChunk
  <1>11. Gathering(t, x, sent, body, log, "no")
    BY <1>6 DEF Gathering
  <1>12. Reading(t, n, d.st, encoder, usage, x.agg, sent, body, log, "no")
    BY <1>2, <1>4, <1>5, <1>9, <1>11 DEF Reading
  <1>13. HalfLines' = 2 * m
    BY <1>2, <1>10 DEF HalfLines
  <1> QED
    BY <1>1, <1>2, <1>4, <1>10, <1>12, <1>13 DEF RelayInv

\* aggregate_stream, when the upstream's bytes end.
LEMMA EndGathers ==
    ASSUME RelayInv, ended = "no", ~turn.buffered, ~turn.stream, NEW whole \in BOOLEAN, AggregateEnd(whole)
    PROVE  RelayInv'
  <1>1. /\ turn \in Turns /\ Sensible(turn) /\ read \in 0..HalfLines
        /\ Reading(turn, read, decoder, encoder, usage, agg, sent, body, log, ended)
    BY DEF RelayInv
  <1>2. PICK t, m, i : t = turn /\ m = Len(Lines(t)) /\ i = read \div 2
    OBVIOUS
  <1>3. m \in Nat
    BY <1>1, <1>2, RunFacts
  <1>4. i \in 0..m /\ read \in 0..(2 * m)
    BY <1>1, <1>2, <1>3 DEF HalfLines
  <1>5. PICK j \in i..m : (j = i \/ j = i + 1) /\ LastLine(whole) = SubSeq(Lines(t), i + 1, j)
    <2>1. PICK ls : ls = LastLine(whole)
      OBVIOUS
    <2>2. ls = <<>> \/ (read % 2 = 1 /\ ls = <<Lines(t)[i + 1]>>)
      BY <1>2, <2>1 DEF LastLine
    <2>3. t \in Turns /\ i \in 0..Len(Lines(t)) /\ read \in 0..(2 * Len(Lines(t)))
      BY <1>1, <1>2, <1>4
    <2>4. \E j \in i..Len(Lines(t)) : (j = i \/ j = i + 1) /\ ls = SubSeq(Lines(t), i + 1, j)
      BY <1>2, <2>2, <2>3, LastLeads
    <2> QED
      BY <1>2, <2>1, <2>4
  <1>6. PICK w, x : w = RunOf(t)[i].w /\ x = RunOf(t)[j].w
    OBVIOUS
  <1>7. decoder = RunOf(t)[i].st /\ agg = w.agg /\ Gathering(t, w, sent, body, log, "no")
    BY <1>1, <1>2, <1>6 DEF Reading
  <1>8. PICK d, r : d = DecodeLines(t.up, LastLine(whole), decoder) /\ r = IntoResponse(PushAll(agg, d.events))
    OBVIOUS
  <1>9. d.st = RunOf(t)[j].st /\ PushAll(agg, d.events) = x.agg
    <2>1. t \in Turns /\ i \in 0..Len(Lines(t)) /\ j \in i..Len(Lines(t))
      BY <1>1, <1>2, <1>4
    <2>2. d = DecodeLines(t.up, SubSeq(Lines(t), i + 1, j), RunOf(t)[i].st)
      BY <1>5, <1>7, <1>8
    <2> QED
      BY <1>6, <1>7, <2>1, <2>2, LinesLead
  <1>10. /\ turn' = t /\ read' = read /\ decoder' = d.st /\ agg' = x.agg /\ usage' = usage
         /\ encoder' = encoder /\ sent' = sent /\ body' = <<EmitResponse(t.client, r)>>
         /\ log' = Entry(r, r.usage, FALSE) /\ ended' = "eof"
    BY <1>2, <1>8, <1>9 DEF AggregateEnd
  <1>11. r = IntoResponse(x.agg) /\ r.usage = x.agg.usage
    BY <1>8, <1>9 DEF IntoResponse
  <1>12. Gathering(t, x, sent, body', log', "eof")
    BY <1>7, <1>10, <1>11 DEF Gathering
  <1>13. Reading(t, read, d.st, encoder, usage, x.agg, sent, body', log', "eof")
    BY <1>2, <1>4, <1>5, <1>6, <1>9, <1>12 DEF Reading
  <1>14. HalfLines' = HalfLines
    BY <1>2, <1>10 DEF HalfLines
  <1> QED
    BY <1>1, <1>2, <1>10, <1>13, <1>14 DEF RelayInv

\* An upstream that breaks or falls silent, and a client that goes away.
LEMMA BreakKeeps ==
    ASSUME RelayInv, ended = "no", ~turn.buffered, Break \/ Hangup
    PROVE  RelayInv'
  <1>1. /\ turn \in Turns /\ Sensible(turn) /\ read \in 0..HalfLines
        /\ Reading(turn, read, decoder, encoder, usage, agg, sent, body, log, ended)
    BY DEF RelayInv
  <1>2. PICK k \in 0..Len(Lines(turn)) :
          /\ k = read \div 2
          /\ decoder = RunOf(turn)[k].st /\ agg = RunOf(turn)[k].w.agg
          /\ IF turn.stream THEN Streaming(turn, RunOf(turn)[k].w, encoder, usage, sent, body, log, "no")
             ELSE Gathering(turn, RunOf(turn)[k].w, sent, body, log, "no")
    BY <1>1 DEF Reading
  <1>3. PICK w, t : w = RunOf(turn)[k].w /\ t = turn
    OBVIOUS
  <1>4. /\ turn' = t /\ read' = read /\ decoder' = decoder /\ agg' = agg /\ usage' = usage
        /\ encoder' = encoder /\ sent' = sent /\ body' = body
    BY <1>3 DEF Break, Hangup
  <1>5. PICK z : z = ended' /\ z \in {"break", "hangup"}
    BY DEF Break, Hangup
  <1>6. CASE t.stream
    <2>1. Streaming(t, w, encoder, usage, sent, body, log, "no")
      BY <1>2, <1>3, <1>6
    <2>2. log' = Entry(IntoResponse(agg), usage, TRUE)
      BY <1>3, <1>6 DEF Break, Hangup
    <2>3. Streaming(t, w, encoder, usage, sent, body, log', z)
      BY <1>2, <1>3, <1>5, <2>1, <2>2 DEF Streaming
    <2>4. Reading(t, read, decoder, encoder, usage, agg, sent, body, log', z)
      BY <1>2, <1>3, <1>5, <1>6, <2>3 DEF Reading
    <2>5. HalfLines' = HalfLines
      BY <1>3, <1>4 DEF HalfLines
    <2> QED
      BY <1>1, <1>3, <1>4, <1>5, <2>4, <2>5 DEF RelayInv
  <1>7. CASE ~t.stream
    <2>1. Gathering(t, w, sent, body, log, "no")
      BY <1>2, <1>3, <1>7
    <2>2. \/ z = "break" /\ log' = Entry(Response(<<>>, "none", NoTokens), NoTokens, TRUE)
          \/ z = "hangup" /\ log' = log
      BY <1>3, <1>5, <1>7 DEF Break, Hangup
    <2>3. Gathering(t, w, sent, body, log', z)
      BY <2>1, <2>2 DEF Gathering
    <2>4. Reading(t, read, decoder, encoder, usage, agg, sent, body, log', z)
      BY <1>2, <1>3, <1>5, <1>7, <2>3 DEF Reading
    <2>5. HalfLines' = HalfLines
      BY <1>3, <1>4 DEF HalfLines
    <2> QED
      BY <1>1, <1>3, <1>4, <1>5, <2>4, <2>5 DEF RelayInv
  <1> QED
    BY <1>6, <1>7

\* What a Gemini encoder has written.
LEMMA GeminiOut ==
    ASSUME NEW u, NEW p, NEW out, NEW s, s = GeminiState(u, p, out)
    PROVE  s.out = out
  BY DEF GeminiState

\* The encoder of full_to_stream is of a client that asked for no usage.
LEMMA PlainNew ==
    ASSUME NEW c \in Dialects, NEW s, s = NewEncoder(c, FALSE)
    PROVE  Keeps(c, "no", <<>>, s, Outset) /\ Flushed(s) = s
  <1>1. PICK inc : inc = "no"
    OBVIOUS
  <1>2. s = NewEncoder(c, inc = "yes")
    <2>1. (inc = "yes") = FALSE
      BY <1>1
    <2> QED
      BY <2>1
  <1>3. Keeps(c, inc, <<>>, s, Outset) /\ s.out = <<>> /\ Flushed(s) = s
    BY <1>2, KeepsNew, Zenon
  <1> QED
    BY <1>1, <1>3

\* A buffered answer, told as a stream.
LEMMA FullTold ==
    ASSUME NEW t \in Turns, NEW e, e = Encode(t.client, EventsFromResponse(FullAnswer(t)), NewEncoder(t.client, FALSE))
    PROVE  ToldFull(t, e.out)
  <1>1. PICK r, u, stop, c : /\ r = FullAnswer(t) /\ u = Usage(t.up, t.answer.tokens) /\ stop = FullStop(t)
                             /\ c = FullAnswer(t).content
    OBVIOUS
  <1>2. r = Response(c, stop, u) /\ c \in Seq(Parsed)
    <2>1. r = ParseResponse(t.up, FullBody(t))
      BY <1>1 DEF FullAnswer
    <2>2. /\ r = Response(r.content, FullStop(t), Usage(t.up, t.answer.tokens))
          /\ Amounts(r.content, AllText(t.answer.blocks), FullThinking(t), AllTools(t.up, t.answer.blocks))
      BY <2>1, FullParses
    <2> QED
      BY <1>1, <2>2 DEF Amounts
  <1>3. u \in Tokens /\ stop \in Strings
    <2>1. t.answer.tokens \in [fresh : Nat, output : Nat, cached : Nat]
      BY StopTyped
    <2> QED
      BY <1>1, <2>1, UsageTyped, FullStopTyped
  <1>4. PICK w : /\ Walks(EventsFromResponse(r), Outset, w) /\ w \in Points
                 /\ w.stage = "over" /\ w.seen
                 /\ w.agg.text = AllText(c) /\ w.agg.thinking = AllThinking("chat", c)
                 /\ w.agg.tools = AllTools("chat", c)
                 /\ w.agg.stop = <<stop>> /\ w.agg.usage = u
    <2>1. \E w : Says(r, w, c, stop, u)
      BY <1>2, <1>3, ResponseSays
    <2> QED
      BY <2>1 DEF Says
  <1>5. PICK d, ev, s : d = t.client /\ ev = EventsFromResponse(r) /\ s = NewEncoder(t.client, FALSE)
    OBVIOUS
  <1>6. d \in Dialects
    BY <1>5, DialectsAssumption DEF Turns
  <1>7. Keeps(d, "no", <<>>, s, Outset) /\ Flushed(s) = s
    BY <1>5, <1>6, PlainNew
  <1>8. PICK F : F = <<>> \o e.out
    OBVIOUS
  <1>9. Keeps(d, "no", <<>>, e, w) /\ e = Encode(d, ev, s)
    <2>1. e = Encode(d, ev, s)
      BY <1>1, <1>5
    <2>2. Walks(ev, Outset, w)
      BY <1>4, <1>5
    <2>3. Sends(d, "no", <<>>, s, Outset, w, ev, e, F)
      BY <1>7, <1>8, <2>1, <2>2 DEF Sends
    <2>4. Keeps(d, "no", <<>>, Encode(d, ev, s), w)
      BY <1>6, <1>7, <2>2, KeepsEncoded
    <2> QED
      BY <2>1, <2>4
  <1>10. IsList(e.out) => F = e.out
    BY <1>8, ConcatNil
  <1>11. Told(d, F, w)
    <2>1. /\ IsList(F) /\ Formed(d, F) /\ HeardIn(d, F, w)
          /\ HasEnd(d, F) => w.stage = "over"
      BY <1>4, <1>6, <1>8, <1>9, KeepsTells
    <2> QED
      BY <2>1 DEF Told
  <1>12. IsList(e.out)
    <2>1. CASE d # "gemini"
      BY <1>4, <1>6, <1>9, <2>1, OutLists
    <2>2. CASE d = "gemini"
      <3>1. PICK v, p, G : GeminiWrites(<<>>, e, v, p, G)
        BY <1>4, <1>9, <2>2 DEF Keeps, GeminiKeeps, GeminiOver
      <3>2. PICK out : e = GeminiState(v, p, out) /\ IsList(out)
        BY <3>1 DEF GeminiWrites
      <3>3. e.out = out
        BY <3>2, GeminiOut
      <3> QED
        BY <3>2, <3>3
    <2> QED
      BY <2>1, <2>2
  <1> QED
    BY <1>1, <1>4, <1>5, <1>10, <1>11, <1>12 DEF ToldFull

\* full_to_stream, emit_full, and a body that cannot be read.
LEMMA FullKeeps ==
    ASSUME RelayInv, ended = "no", FullStep
    PROVE  RelayInv'
  <1>1. turn \in Turns /\ Sensible(turn) /\ read \in 0..HalfLines /\ turn.buffered
        /\ Given(turn, sent, body, log, "no")
    BY DEF RelayInv, FullStep
  <1>2. sent = <<>> /\ body = <<>> /\ log = <<>>
    BY <1>1 DEF Given
  <1>3. turn' = turn /\ read' = read
    BY DEF FullStep, FullToStream, EmitFull, Unreadable
  <1>4. HalfLines' = HalfLines
    BY <1>3 DEF HalfLines
  <1>5. PICK t, r : t = turn /\ r = FullAnswer(turn)
    OBVIOUS
  <1>6. Given(t, sent', body', log', ended')
    <2>1. CASE t.stream /\ FullToStream
      <3>1. PICK e : e = Encode(t.client, EventsFromResponse(r), NewEncoder(t.client, FALSE))
        OBVIOUS
      <3>2. /\ sent' = e.out /\ log' = Entry(r, r.usage, FALSE) /\ ended' = "full" /\ body' = body
        BY <1>5, <2>1, <3>1 DEF FullToStream, FullAnswer
      <3>3. ToldFull(t, e.out)
        BY <1>1, <1>5, <3>1, FullTold
      <3> QED
        BY <1>2, <1>5, <2>1, <3>2, <3>3 DEF Given
    <2>2. CASE ~t.stream /\ EmitFull
      <3>1. /\ body' = <<EmitResponse(t.client, r)>> /\ log' = Entry(r, r.usage, FALSE)
            /\ ended' = "full" /\ sent' = sent
        BY <1>5, <2>2 DEF EmitFull, FullAnswer
      <3> QED
        BY <1>2, <1>5, <2>2, <3>1 DEF Given
    <2>3. CASE Unreadable
      BY <1>2, <2>3 DEF Unreadable, Given
    <2> QED
      BY <1>5, <2>1, <2>2, <2>3 DEF FullStep
  <1> QED
    BY <1>1, <1>3, <1>4, <1>5, <1>6 DEF RelayInv

\* Every step keeps the invariant.
LEMMA RelaySteps == RelayInv /\ [Next]_vars => RelayInv'
  <1> SUFFICES ASSUME RelayInv, [Next]_vars PROVE RelayInv'
    OBVIOUS
  <1>1. CASE UNCHANGED vars
    BY <1>1, RelayStutters
  <1>2. CASE Next
    <2>1. ended = "no"
      BY <1>2 DEF Next
    <2>2. CASE FullStep
      BY <2>1, <2>2, FullKeeps
    <2>3. CASE StreamStep
      <3>1. ~turn.buffered
        BY <2>3 DEF StreamStep
      <3>2. ASSUME NEW n \in (read + 1)..HalfLines,
                   IF turn.stream THEN TranslateChunk(n) ELSE AggregateChunk(n)
            PROVE  RelayInv'
        BY <2>1, <3>1, <3>2, ChunkStreams, ChunkGathers
      <3>3. ASSUME NEW whole \in BOOLEAN,
                   IF turn.stream THEN TranslateEnd(whole) ELSE AggregateEnd(whole)
            PROVE  RelayInv'
        BY <2>1, <3>1, <3>3, EndStreams, EndGathers
      <3>4. CASE Break \/ Hangup
        BY <2>1, <3>1, <3>4, BreakKeeps
      <3> QED
        BY <2>3, <3>2, <3>3, <3>4 DEF StreamStep
    <2> QED
      BY <1>2, <2>2, <2>3 DEF Next
  <1> QED
    BY <1>1, <1>2

\* RelayInv is an invariant of every run of the gateway.
THEOREM TurnIsFollowed == Spec => []RelayInv
  <1>1. Init => RelayInv
    BY RelayStarts
  <1>2. RelayInv /\ [Next]_vars => RelayInv'
    BY RelaySteps
  <1> QED
    BY <1>1, <1>2, PTL DEF Spec

\* The invariant has the client's frames well formed.
LEMMA InvFormed == RelayInv => FramesWellFormed
  <1> SUFFICES ASSUME RelayInv PROVE FramesWellFormed
    OBVIOUS
  <1>1. turn \in Turns
    BY DEF RelayInv
  <1>2. PICK t : t = turn
    OBVIOUS
  <1>3. Formed(t.client, sent) => FramesWellFormed
    BY <1>2 DEF Formed, FramesWellFormed
  <1>4. CASE sent = <<>>
    <2>1. PICK e : e = NewEncoder(t.client, t.include)
      OBVIOUS
    <2>2. Told(t.client, <<>>, Outset)
      BY <1>1, <1>2, <2>1, EmptyTold
    <2> QED
      BY <1>3, <1>4, <2>2 DEF Told
  <1>5. CASE \E w : Told(t.client, sent, w)
    BY <1>3, <1>5 DEF Told
  <1>6. CASE t.buffered
    <2>1. Given(t, sent, body, log, ended)
      BY <1>2, <1>6 DEF RelayInv
    <2>2. sent = <<>> \/ ToldFull(t, sent)
      BY <2>1 DEF Given
    <2> QED
      BY <1>4, <1>5, <2>2 DEF ToldFull
  <1>7. CASE ~t.buffered
    <2>1. Reading(t, read, decoder, encoder, usage, agg, sent, body, log, ended)
      BY <1>2, <1>7 DEF RelayInv
    <2>2. PICK w : IF t.stream THEN Streaming(t, w, encoder, usage, sent, body, log, ended)
                   ELSE Gathering(t, w, sent, body, log, ended)
      BY <2>1 DEF Reading
    <2>3. sent = <<>> \/ Told(t.client, sent, w)
      BY <2>2 DEF Streaming, Gathering
    <2> QED
      BY <1>4, <1>5, <2>3
  <1> QED
    BY <1>6, <1>7

\* Whatever the answer and wherever the reads fell, the frames a client was
\* sent are a prefix of a stream of its dialect.
THEOREM ClientsFrames == Spec => []FramesWellFormed
  BY TurnIsFollowed, InvFormed, PTL

\* A log of one record.
LEMMA EntryIs ==
    ASSUME NEW r, NEW u, NEW l
    PROVE  /\ l = Entry(r, u, FALSE) => /\ l # <<>> /\ Len(l) = 1 /\ ~l[1].error /\ l[1].cost = CostMicros(u)
                                        /\ l[1].content = r.content
           /\ l = Entry(r, u, TRUE) => l # <<>> /\ Len(l) = 1 /\ l[1].error /\ l[1].content = r.content
  <1>1. ASSUME NEW b \in BOOLEAN, l = Entry(r, u, b)
        PROVE  l # <<>> /\ Len(l) = 1 /\ l[1].error = b /\ l[1].cost = CostMicros(u) /\ l[1].content = r.content
    <2>1. PICK x : x = [content |-> r.content, stop |-> r.stop, usage |-> u, cost |-> CostMicros(u), error |-> b]
      OBVIOUS
    <2>2. l = <<x>>
      BY <1>1, <2>1 DEF Entry
    <2>3. l # <<>> /\ Len(l) = 1 /\ l[1] = x
      BY <2>2, ListOne, ListNil
    <2> QED
      BY <2>1, <2>3
  <1> QED
    BY <1>1

\* The invariant has the variables typed.
LEMMA InvTyped == RelayInv => TypeOK
  <1> SUFFICES ASSUME RelayInv PROVE TypeOK
    OBVIOUS
  <1>1. turn \in Turns /\ read \in 0..HalfLines
    BY DEF RelayInv
  <1>2. PICK t, z : t = turn /\ z = ended
    OBVIOUS
  <1>3. \A x : <<x>> # <<>> /\ Len(<<x>>) = 1
    BY ListOne, ListNil
  <1>4. Len(<<>>) = 0
    OBVIOUS
  <1>5. CASE t.buffered
    <2>1. Given(t, sent, body, log, z)
      BY <1>2, <1>5 DEF RelayInv
    <2>2. z \in {"no", "full", "unreadable"}
      BY <2>1 DEF Given
    <2>3. body = <<>> \/ \E x : body = <<x>>
      BY <2>1 DEF Given
    <2>4. Len(body) <= 1
      <3>1. CASE body = <<>>
        BY <1>4, <3>1
      <3>2. CASE \E x : body = <<x>>
        <4>1. Len(body) = 1
          BY <1>3, <3>2
        <4> QED
          BY <4>1
      <3> QED
        BY <2>3, <3>1, <3>2
    <2>5. CASE z = "full"
      <3>1. log = Entry(FullAnswer(t), FullAnswer(t).usage, FALSE)
        BY <2>1, <2>5 DEF Given
      <3>2. log # <<>> /\ Len(log) = 1 /\ ~log[1].error
        BY <3>1, EntryIs
      <3> QED
        BY <1>1, <1>2, <2>4, <2>5, <3>2 DEF TypeOK, Endings
    <2>6. CASE z # "full"
      <3>1. log = <<>>
        BY <2>1, <2>6 DEF Given
      <3> QED
        BY <1>1, <1>2, <1>4, <2>2, <2>4, <2>6, <3>1 DEF TypeOK, Endings
    <2> QED
      BY <2>5, <2>6
  <1>6. CASE ~t.buffered
    <2>1. Reading(t, read, decoder, encoder, usage, agg, sent, body, log, z)
      BY <1>2, <1>6 DEF RelayInv
    <2>2. PICK w : IF t.stream THEN Streaming(t, w, encoder, usage, sent, body, log, z)
                   ELSE Gathering(t, w, sent, body, log, z)
      BY <2>1 DEF Reading
    <2>3. z \in {"no", "end", "eof", "break", "hangup"}
      BY <2>1 DEF Reading
    <2>4. body = <<>> \/ \E x : body = <<x>>
      BY <2>2, <2>3 DEF Streaming, Gathering
    <2>5. Len(body) <= 1
      <3>1. CASE body = <<>>
        BY <1>4, <3>1
      <3>2. CASE \E x : body = <<x>>
        <4>1. Len(body) = 1
          BY <1>3, <3>2
        <4> QED
          BY <4>1
      <3> QED
        BY <2>4, <3>1, <3>2
    <2>6. CASE z \in {"end", "eof"}
      <3>1. \E r, u : log = Entry(r, u, FALSE)
        BY <2>2, <2>6 DEF Streaming, Gathering
      <3>2. log # <<>> /\ Len(log) = 1 /\ ~log[1].error
        BY <3>1, EntryIs
      <3> QED
        BY <1>1, <1>2, <2>5, <2>6, <3>2 DEF TypeOK, Endings
    <2>7. CASE z \notin {"end", "eof"}
      <3>1. log = <<>> \/ \E r, u : log = Entry(r, u, TRUE)
        BY <2>2, <2>3, <2>7 DEF Streaming, Gathering
      <3>2. Len(log) <= 1
        <4>1. CASE log = <<>>
          BY <1>4, <4>1
        <4>2. CASE \E r, u : log = Entry(r, u, TRUE)
          <5>1. Len(log) = 1
            BY <4>2, EntryIs
          <5> QED
            BY <5>1
        <4> QED
          BY <3>1, <4>1, <4>2
      <3> QED
        BY <1>1, <1>2, <2>3, <2>5, <2>7, <3>2 DEF TypeOK, Endings
    <2> QED
      BY <2>6, <2>7
  <1> QED
    BY <1>5, <1>6

\* A turn that ended well is in the log, and there is one record of it.
THEOREM TypeCorrect == Spec => []TypeOK
  BY TurnIsFollowed, InvTyped, PTL

-----------------------------------------------------------------------------
(* What a turn costs                                                       *)

\* No answer says the words that end a stream, nor does a call that it makes.
WordsOf(b) == IF b.type = "tool_use" THEN {b.id, b.name, b.input} ELSE ToSet(b.text)
Plain == \A a \in Answers : \A i \in DOMAIN a.blocks : Mention \notin WordsOf(a.blocks[i])

\* The price of the usage a dialect reports is the worth of the tokens.
LEMMA WorthIs ==
    ASSUME NEW up, NEW tokens \in [fresh : Nat, output : Nat, cached : Nat],
           up = "anthropic" => tokens.cached = 0
    PROVE  CostMicros(Usage(up, tokens)) = Worth(tokens)
  <1>1. PICK f, o, c : f = tokens.fresh /\ o = tokens.output /\ c = tokens.cached
    OBVIOUS
  <1>2. f \in Nat /\ o \in Nat /\ c \in Nat
    BY <1>1
  <1>3. PICK u : u = Usage(up, tokens)
    OBVIOUS
  <1>4. u.output = o /\ u.cached = c /\ u.input = f + c
    <2>1. CASE up = "anthropic"
      BY <1>1, <1>2, <1>3, <2>1 DEF Usage
    <2>2. CASE up # "anthropic"
      BY <1>1, <1>2, <1>3, <2>2 DEF Usage
    <2> QED
      BY <2>1, <2>2
  <1>5. Larger(u.input - u.cached, 0) = f
    BY <1>2, <1>4 DEF Larger
  <1> QED
    BY <1>1, <1>2, <1>3, <1>4, <1>5 DEF CostMicros, Worth, InputPrice, CachedPrice, OutputPrice

\* What closes the text of a call's arguments.
Brace == "}"

\* Arguments say themselves and are closed.
LEMMA SerialSays ==
    ASSUME NEW v \in Strings, NEW m, m # v, m # Brace
    PROVE  Serialised(v) \in Seq(Strings) /\ m \notin ToSet(Serialised(v))
  <1>1. PICK j, z : j = Serialised(v) /\ z = Brace
    OBVIOUS
  <1>2. IsList(j) /\ Len(j) = 2 /\ j[1] = v /\ j[2] = z
    BY <1>1, ListTwo, Zenon DEF Serialised, Brace
  <1>3. DOMAIN j = 1..2
    BY <1>2, ListFacts
  <1>4. m \notin ToSet(j)
    BY <1>1, <1>2, <1>3 DEF ToSet
  <1>5. j \in Seq(Strings)
    BY <1>1, SerialTyped, Zenon
  <1> QED
    BY <1>1, <1>4, <1>5

\* What an upstream says of a block that does not say m.
LEMMA PlainSaid ==
    ASSUME NEW up, NEW b \in Parsed, NEW m, m # Brace, m \notin WordsOf(b)
    PROVE  /\ TextOf(b) \in Seq(Strings \ {m}) /\ ThinkingOf(up, b) \in Seq(Strings \ {m})
           /\ ToolsOf(up, b) \in Seq({c \in Tools : ~CallUtters(c, m)})
  <1>1. CASE b.type = "tool_use"
    <2>1. PICK c, id : id = (IF up = "gemini" THEN b.name ELSE b.id) /\ c = Tool(id, b.name, Serialised(b.input))
      OBVIOUS
    <2>2. b.id \in Strings /\ b.name \in Strings /\ b.input \in Strings
      BY <1>1 DEF Parsed
    <2>3. id \in Strings /\ m # id /\ m # b.name /\ m # b.input
      BY <1>1, <2>1, <2>2 DEF WordsOf
    <2>4. PICK j : j = Serialised(b.input)
      OBVIOUS
    <2>5. j \in Seq(Strings) /\ m \notin ToSet(j)
      BY <2>2, <2>3, <2>4, SerialSays
    <2>6. c \in Tools /\ c.id = id /\ c.name = b.name /\ c.json = j
      BY <2>1, <2>2, <2>3, <2>4, <2>5 DEF Tool, Tools
    <2>7. c \in {d \in Tools : ~CallUtters(d, m)}
      BY <2>3, <2>5, <2>6 DEF CallUtters
    <2>8. ToolsOf(up, b) = <<c>> /\ TextOf(b) = <<>> /\ ThinkingOf(up, b) = <<>>
      BY <1>1, <2>1 DEF ToolsOf, TextOf, ThinkingOf
    <2>9. <<c>> \in Seq({d \in Tools : ~CallUtters(d, m)})
      BY <2>7, SeqOne
    <2> QED
      BY <2>8, <2>9
  <1>2. CASE b.type # "tool_use"
    <2>1. b.text \in Seq(Strings)
      BY <1>2 DEF Parsed
    <2>2. m \notin ToSet(b.text)
      BY <1>2 DEF WordsOf
    <2>3. \A i \in 1..Len(b.text) : b.text[i] \in Strings \ {m}
      BY <2>1, <2>2 DEF ToSet
    <2>4. b.text \in Seq(Strings \ {m})
      <3>1. PICK x, n : x = b.text /\ n = Len(b.text)
        OBVIOUS
      <3>2. n \in Nat /\ x = [i \in 1..n |-> x[i]] /\ \A i \in 1..n : x[i] \in Strings \ {m}
        BY <2>1, <2>3, <3>1
      <3>3. x \in Seq(Strings \ {m})
        BY <3>2, SeqMake
      <3> QED
        BY <3>1, <3>3
    <2>5. TextOf(b) \in {b.text, <<>>} /\ ThinkingOf(up, b) \in {b.text, <<>>} /\ ToolsOf(up, b) = <<>>
      BY <1>2 DEF TextOf, ThinkingOf, ToolsOf
    <2>6. \A S : <<>> \in Seq(S)
      OBVIOUS
    <2>7. TextOf(b) \in Seq(Strings \ {m}) /\ ThinkingOf(up, b) \in Seq(Strings \ {m})
      <3>1. (TextOf(b) = b.text \/ TextOf(b) = <<>>) /\ (ThinkingOf(up, b) = b.text \/ ThinkingOf(up, b) = <<>>)
        BY <2>5
      <3> QED
        BY <2>4, <2>6, <3>1, Zenon
    <2>8. ToolsOf(up, b) \in Seq({c \in Tools : ~CallUtters(c, m)})
      BY <2>5, <2>6, Zenon
    <2> QED
      BY <2>7, <2>8
  <1> QED
    BY <1>1, <1>2

\* Sequences of a set put in a row, for a sequence of blocks.
LEMMA FlatOf ==
    ASSUME NEW S, NEW n \in Nat, NEW ss, ss = [i \in 1..n |-> ss[i]], \A i \in 1..n : ss[i] \in Seq(S)
    PROVE  FlattenSeq(ss) \in Seq(S)
  <1>1. IsList(ss) /\ Len(ss) = n
    BY ListMake
  <1>2. PICK run : (\A k \in 0..Len(ss) : run[k] \in Seq(S)) /\ FlattenSeq(ss) = run[Len(ss)]
    BY <1>1, FlatTyped
  <1> QED
    BY <1>1, <1>2

\* What the lines have led to says nothing the answer does not.
LEMMA PlainRuns ==
    ASSUME Plain, NEW t \in Turns, NEW k \in 0..Len(Lines(t))
    PROVE  ~Utters(RunOf(t)[k].w.agg, Mention)
  <1>1. PICK n, run : n = Len(Lines(t)) /\ run = RunOf(t)
    OBVIOUS
  <1>2. n \in Nat /\ run[n].w.stage = "over" /\ Right(t, run[n].w)
    BY <1>1, RunFacts
  <1>3. PICK c, l : c = t.answer.blocks /\ l = Len(c)
    OBVIOUS
  <1>4. PICK a, T : a = run[n].w.agg /\ T = {d \in Tools : ~CallUtters(d, Mention)}
    OBVIOUS
  <1>5. a.text = AllText(c) /\ a.thinking = AllThinking(t.up, c) /\ a.tools = AllTools(t.up, c)
    BY <1>2, <1>3, <1>4 DEF Right
  <1>6. t.answer \in Answers /\ c \in Seq(Parsed)
    BY <1>3, StopTyped, BlocksParsed
  <1>7. l \in Nat /\ DOMAIN c = 1..l /\ \A i \in 1..l : c[i] \in Parsed
    BY <1>3, <1>6
  <1>8. \A i \in 1..l : /\ TextOf(c[i]) \in Seq(Strings \ {Mention})
                        /\ ThinkingOf(t.up, c[i]) \in Seq(Strings \ {Mention})
                        /\ ToolsOf(t.up, c[i]) \in Seq(T)
    <2>1. Mention # Brace
      BY Zenon DEF Mention, Brace
    <2>2. \A i \in 1..l : Mention \notin WordsOf(c[i])
      BY <1>3, <1>6, <1>7 DEF Plain
    <2> QED
      BY <1>4, <1>7, <2>1, <2>2, PlainSaid
  <1>9. AllText(c) \in Seq(Strings \ {Mention})
    <2>1. PICK xs : xs = [i \in DOMAIN c |-> TextOf(c[i])]
      OBVIOUS
    <2>2. xs = [i \in 1..l |-> xs[i]] /\ \A i \in 1..l : xs[i] \in Seq(Strings \ {Mention})
      BY <1>7, <1>8, <2>1
    <2> QED
      BY <1>7, <2>1, <2>2, FlatOf DEF AllText
  <1>10. AllThinking(t.up, c) \in Seq(Strings \ {Mention})
    <2>1. PICK xs : xs = [i \in DOMAIN c |-> ThinkingOf(t.up, c[i])]
      OBVIOUS
    <2>2. xs = [i \in 1..l |-> xs[i]] /\ \A i \in 1..l : xs[i] \in Seq(Strings \ {Mention})
      BY <1>7, <1>8, <2>1
    <2> QED
      BY <1>7, <2>1, <2>2, FlatOf DEF AllThinking
  <1>11. AllTools(t.up, c) \in Seq(T)
    <2>1. PICK xs : xs = [i \in DOMAIN c |-> ToolsOf(t.up, c[i])]
      OBVIOUS
    <2>2. xs = [i \in 1..l |-> xs[i]] /\ \A i \in 1..l : xs[i] \in Seq(T)
      BY <1>7, <1>8, <2>1
    <2> QED
      BY <1>7, <2>1, <2>2, FlatOf DEF AllTools
  <1>12. ~Utters(a, Mention)
    <2>1. \A s \in Seq(Strings \ {Mention}) : Mention \notin ToSet(s)
      BY DEF ToSet
    <2>2. PICK z : z = a.tools
      OBVIOUS
    <2>3. \A i \in 1..Len(z) : z[i] \in T
      BY <1>5, <1>11, <2>2
    <2>4. ~ToolsUtter(z, Mention)
      BY <1>4, <2>3 DEF ToolsUtter
    <2> QED
      BY <1>5, <1>9, <1>10, <2>1, <2>2, <2>4 DEF Utters
  <1>13. n \in k..n
    BY <1>1, <1>2
  <1>14. PICK d : d = DecodeLines(t.up, SubSeq(Lines(t), k + 1, n), run[k].st)
    OBVIOUS
  <1>15. Walks(d.events, run[k].w, run[n].w)
    BY <1>1, <1>13, <1>14, LinesLead
  <1>16. InCall(run[k].w)
    BY <1>1, RunCalls
  <1> QED
    BY <1>1, <1>4, <1>12, <1>15, <1>16, WalkUtters

\* The invariant has an awaited turn billed for what it used.
LEMMA InvBilled == Plain /\ RelayInv => AwaitedIsBilled
  <1> SUFFICES ASSUME Plain, RelayInv, Complete, Awaited, turn.up = "anthropic" => turn.answer.tokens.cached = 0
               PROVE  log[1].cost = Worth(turn.answer.tokens)
    BY DEF AwaitedIsBilled
  <1>1. turn \in Turns /\ Sensible(turn) /\ read \in 0..HalfLines
    BY DEF RelayInv
  <1>2. PICK t, z, tokens, u : t = turn /\ z = ended /\ tokens = turn.answer.tokens /\ u = Usage(turn.up, tokens)
    OBVIOUS
  <1>3. tokens \in [fresh : Nat, output : Nat, cached : Nat]
    BY <1>1, <1>2, StopTyped
  <1>4. CostMicros(u) = Worth(tokens)
    BY <1>2, <1>3, WorthIs
  <1>5. log # <<>> /\ ~log[1].error
    BY DEF Complete
  <1>6. \E r : log = Entry(r, u, FALSE)
    <2>1. CASE t.buffered
      <3>1. Given(t, sent, body, log, z)
        BY <1>2, <2>1 DEF RelayInv
      <3>2. log = Entry(FullAnswer(t), FullAnswer(t).usage, FALSE)
        BY <1>5, <3>1 DEF Given
      <3>3. PICK r : r = FullAnswer(t)
        OBVIOUS
      <3>4. r = Response(r.content, FullStop(t), u)
        BY <1>1, <1>2, <3>3, FullParses DEF FullAnswer
      <3>5. r.usage = u
        BY <3>4 DEF Response
      <3> QED
        BY <3>2, <3>3, <3>5
    <2>2. CASE ~t.buffered
      <3>1. Reading(t, read, decoder, encoder, usage, agg, sent, body, log, z)
        BY <1>2, <2>2 DEF RelayInv
      <3>2. PICK n, run : n = Len(Lines(t)) /\ run = RunOf(t)
        OBVIOUS
      <3>3. PICK k \in 0..n : /\ k = read \div 2 \/ (z = "eof" /\ k = (read \div 2) + 1)
                              /\ IF t.stream THEN Streaming(t, run[k].w, encoder, usage, sent, body, log, z)
                                 ELSE Gathering(t, run[k].w, sent, body, log, z)
        BY <3>1, <3>2 DEF Reading
      <3>4. PICK w : w = run[k].w
        OBVIOUS
      <3>5. /\ n \in Nat /\ Right(t, w) /\ run[n].w.stage = "over" /\ run[n].w.seen
        BY <1>1, <1>2, <3>2, <3>4, RunFacts
      <3>6. z \in {"end", "eof"} /\ (z = "end" => t.stream) /\ \E r : log = Entry(r, w.agg.usage, FALSE)
        <4>1. z \in {"no", "end", "eof", "break", "hangup"}
          BY <3>1 DEF Reading
        <4>2. \A r, v : log = Entry(r, v, TRUE) => log[1].error
          BY EntryIs
        <4>3. CASE t.stream
          <5>1. Streaming(t, w, encoder, usage, sent, body, log, z)
            BY <3>3, <3>4, <4>3
          <5>2. z # "no" /\ z \notin {"break", "hangup"}
            BY <1>5, <4>2, <5>1 DEF Streaming
          <5>3. usage = w.agg.usage /\ log = Entry(IntoResponse(w.agg), usage, FALSE)
            BY <4>1, <5>1, <5>2 DEF Streaming
          <5> QED
            BY <4>1, <4>3, <5>2, <5>3
        <4>4. CASE ~t.stream
          <5>1. Gathering(t, w, sent, body, log, z)
            BY <3>3, <3>4, <4>4
          <5>2. z = "eof"
            BY <1>5, <4>1, <4>2, <5>1 DEF Gathering
          <5>3. log = Entry(IntoResponse(w.agg), w.agg.usage, FALSE)
            BY <5>1, <5>2 DEF Gathering
          <5> QED
            BY <5>2, <5>3
        <4> QED
          BY <4>3, <4>4
      <3>7. w.stage = "over" /\ (t.up # "chat" \/ t.shared \/ w.seen)
        <4>1. CASE read = HalfLines
          <5>1. read = 2 * n
            BY <1>2, <3>2, <4>1 DEF HalfLines
          <5>2. k = n
            BY <3>3, <3>5, <5>1
          <5> QED
            BY <3>4, <3>5, <5>2
        <4>2. CASE read # HalfLines
          <5>1. z = "end"
            BY <1>2, <2>2, <4>2 DEF Complete, AllRead
          <5>2. Streaming(t, w, encoder, usage, sent, body, log, z)
            BY <3>3, <3>4, <3>6, <5>1
          <5>3. ~Utters(w.agg, Mention)
            BY <1>1, <1>2, <3>2, <3>4, PlainRuns
          <5>4. w.stage = "over" /\ Late(t.client, Inc(t), w)
            BY <5>1, <5>2, <5>3 DEF Streaming
          <5>5. t.up # "chat" \/ t.shared \/ t.client = "responses" \/ t.include
            BY <1>2, <2>2, <3>6, <5>1 DEF Awaited
          <5>6. CASE t.client = "responses"
            BY <5>4, <5>6 DEF Late
          <5>7. CASE t.include
            <6>1. t.client = "chat"
              BY <1>1, <1>2, <5>7 DEF Sensible
            <6>2. Inc(t) = "yes"
              BY <5>7 DEF Inc
            <6> QED
              BY <5>4, <6>1, <6>2 DEF Late
          <5> QED
            BY <5>4, <5>5, <5>6, <5>7
        <4> QED
          BY <4>1, <4>2
      <3>8. w.agg.usage = u
        BY <1>2, <3>5, <3>7 DEF Right
      <3> QED
        BY <3>6, <3>8
    <2> QED
      BY <2>1, <2>2
  <1>7. PICK r, l : l = log /\ l = Entry(r, u, FALSE)
    BY <1>6
  <1>8. l[1].cost = CostMicros(u)
    BY <1>7, EntryIs
  <1> QED
    BY <1>2, <1>4, <1>7, <1>8

\* However an upstream's reports of usage are split over its stream, and
\* wherever the reads fell, a turn whose usage was waited for costs what its
\* tokens are worth, if no answer says the words that end a stream, in a text or
\* in the id, the name or the arguments of a call.
THEOREM AwaitedTurnsAreBilled == Plain => (Spec => []AwaitedIsBilled)
  <1>1. Plain /\ RelayInv => AwaitedIsBilled
    BY InvBilled
  <1>2. Plain => (RelayInv => AwaitedIsBilled)
    BY <1>1
  <1>3. SUFFICES ASSUME Plain PROVE Spec => []AwaitedIsBilled
    OBVIOUS
  <1>4. RelayInv => AwaitedIsBilled
    BY <1>2, <1>3
  <1> QED
    BY <1>4, TurnIsFollowed, PTL

-----------------------------------------------------------------------------
(* What is made of a list, place by place                                  *)

Alike(h, p, q) ==
  /\ IsList(p) /\ IsList(q) /\ Len(q) = Len(p)
  /\ \A i \in 1..Len(p) : q[i] = h[p[i]] /\ p[i] \in DOMAIN h

\* Of lists in a row.
LEMMA AlikeConcat ==
    ASSUME NEW h, NEW p, NEW d, NEW q, NEW e, Alike(h, p, d), Alike(h, q, e)
    PROVE  Alike(h, p \o q, d \o e)
  <1>1. PICK m, n, r, f : m = Len(p) /\ n = Len(q) /\ r = p \o q /\ f = d \o e
    OBVIOUS
  <1>2. IsList(p) /\ IsList(q) /\ IsList(d) /\ IsList(e) /\ Len(d) = m /\ Len(e) = n /\ m \in Nat /\ n \in Nat
    BY <1>1, ListFacts DEF Alike
  <1>3. IsList(r) /\ Len(r) = m + n
    <2>1. IsList(r) /\ Len(r) = Len(p) + Len(q)
      BY <1>1, <1>2, InARow
    <2> QED
      BY <1>1, <2>1
  <1>4. IsList(f) /\ Len(f) = m + n
    <2>1. IsList(f) /\ Len(f) = Len(d) + Len(e)
      BY <1>1, <1>2, InARow
    <2> QED
      BY <1>2, <2>1
  <1>5. ASSUME NEW i \in 1..(m + n) PROVE f[i] = h[r[i]] /\ r[i] \in DOMAIN h
    <2>1. CASE i <= m
      <3>1. i \in 1..m
        BY <1>2, <2>1
      <3>2. r[i] = p[i] /\ f[i] = d[i]
        BY <1>1, <1>2, <3>1, InARow
      <3>3. d[i] = h[p[i]] /\ p[i] \in DOMAIN h
        BY <1>1, <3>1 DEF Alike
      <3> QED
        BY <3>2, <3>3
    <2>2. CASE ~(i <= m)
      <3>1. i - m \in 1..n /\ m + (i - m) = i
        BY <1>2, <2>2
      <3>2. PICK j : j \in 1..n /\ m + j = i
        BY <3>1
      <3>3. r[m + j] = q[j] /\ f[m + j] = e[j]
        BY <1>1, <1>2, <3>2, InARow
      <3>4. e[j] = h[q[j]] /\ q[j] \in DOMAIN h
        BY <1>1, <3>2 DEF Alike
      <3> QED
        BY <3>2, <3>3, <3>4
    <2> QED
      BY <2>1, <2>2
  <1> QED
    BY <1>1, <1>3, <1>4, <1>5 DEF Alike

\* And of lists of them.
LEMMA AlikeFlat ==
    ASSUME NEW h, NEW n \in Nat, NEW ps, NEW cs, IsList(ps), IsList(cs), Len(ps) = n, Len(cs) = n,
           \A i \in 1..n : Alike(h, ps[i], cs[i])
    PROVE  Alike(h, FlattenSeq(ps), FlattenSeq(cs))
  <1>1. ASSUME NEW i \in 1..n PROVE IsList(ps[i]) /\ IsList(cs[i])
    BY DEF Alike
  <1>2. PICK P : /\ P[0] = <<>>
                 /\ \A k \in 1..Len(ps) : P[k] = P[k - 1] \o ps[k]
                 /\ \A k \in 0..Len(ps) : IsList(P[k])
                 /\ FlattenSeq(ps) = P[Len(ps)]
    <2>1. \A i \in 1..Len(ps) : IsList(ps[i])
      BY <1>1
    <2> QED
      BY <2>1, FlatRun, Zenon
  <1>3. PICK C : /\ C[0] = <<>>
                 /\ \A k \in 1..Len(cs) : C[k] = C[k - 1] \o cs[k]
                 /\ \A k \in 0..Len(cs) : IsList(C[k])
                 /\ FlattenSeq(cs) = C[Len(cs)]
    <2>1. \A i \in 1..Len(cs) : IsList(cs[i])
      BY <1>1
    <2> QED
      BY <2>1, FlatRun, Zenon
  <1> DEFINE S == {k \in 0..n : Alike(h, P[k], C[k])}
  <1>4. 0 \in S
    <2>1. Alike(h, <<>>, <<>>)
      BY ListEmpty DEF Alike
    <2>2. 0 \in 0..n
      OBVIOUS
    <2> QED
      BY <1>2, <1>3, <2>1, <2>2
  <1>5. ASSUME NEW k \in 1..n, k - 1 \in S PROVE k \in S
    <2>1. k \in 0..n
      OBVIOUS
    <2>2. Alike(h, P[k - 1], C[k - 1]) /\ Alike(h, ps[k], cs[k])
      BY <1>5
    <2>3. Alike(h, P[k - 1] \o ps[k], C[k - 1] \o cs[k])
      BY <2>2, AlikeConcat
    <2>4. P[k] = P[k - 1] \o ps[k] /\ C[k] = C[k - 1] \o cs[k]
      BY <1>2, <1>3
    <2>5. Alike(h, P[k], C[k])
      BY <2>3, <2>4
    <2> QED
      BY <2>1, <2>5
  <1>6. n \in S
    <2>1. \A k \in 0..n : k \in S
      <3> HIDE DEF S
      <3> QED
        BY <1>4, <1>5, UpTo
    <2> QED
      BY <2>1
  <1> QED
    BY <1>2, <1>3, <1>6

\* The list that is made of a list is the only one.
LEMMA AlikeIs ==
    ASSUME NEW h, NEW p, NEW q, Alike(h, p, q)
    PROVE  q = [i \in DOMAIN p |-> h[p[i]]]
  <1>1. PICK n : n = Len(p)
    OBVIOUS
  <1>2. n \in Nat /\ DOMAIN p = 1..n /\ IsList(q) /\ Len(q) = n /\ \A i \in 1..n : q[i] = h[p[i]]
    BY <1>1, ListFacts DEF Alike
  <1>3. PICK r : r = [i \in 1..n |-> h[p[i]]]
    OBVIOUS
  <1>4. r = [i \in 1..n |-> r[i]]
    BY <1>3
  <1>5. IsList(r) /\ Len(r) = n
    BY <1>2, <1>4, ListMake
  <1>6. \A i \in 1..Len(q) : q[i] = r[i]
    BY <1>2, <1>3
  <1>7. q = r
    BY <1>2, <1>5, <1>6, ListSame
  <1> QED
    BY <1>2, <1>3, <1>7

-----------------------------------------------------------------------------
(* What a client makes of the calls of an answer                           *)

InputOf(t) == [id |-> t.id, name |-> t.name, input |-> ParsedOr(t.json, "{}")]
Inputs(z) == [i \in DOMAIN z |-> InputOf(z[i])]

\* Calls whose ids are their names, as Gemini has them.
Nameless(z) == [i \in DOMAIN z |-> [z[i] EXCEPT !.id = z[i].name]]

\* The calls of blocks are the inputs of their tools.
LEMMA CallsGist ==
    ASSUME NEW c \in Seq(Parsed)
    PROVE  Each(c, LAMBDA b : IF b.type = "tool_use" THEN <<CallOf(b)>> ELSE <<>>) = Inputs(AllTools("chat", c))
  <1>1. PICK n, h : n = Len(c) /\ h = [t \in Tools |-> InputOf(t)]
    OBVIOUS
  <1>2. n \in Nat /\ DOMAIN c = 1..n /\ \A i \in 1..n : c[i] \in Parsed
    BY <1>1
  <1>3. PICK ps, qs : /\ ps = [i \in DOMAIN c |-> ToolsOf("chat", c[i])]
                      /\ qs = [i \in DOMAIN c |-> IF c[i].type = "tool_use" THEN <<CallOf(c[i])>> ELSE <<>>]
    OBVIOUS
  <1>4. ps = [i \in 1..n |-> ps[i]] /\ qs = [i \in 1..n |-> qs[i]]
    BY <1>2, <1>3
  <1>5. IsList(ps) /\ Len(ps) = n /\ IsList(qs) /\ Len(qs) = n
    BY <1>2, <1>4, ListMake
  <1>6. ASSUME NEW i \in 1..n PROVE Alike(h, ps[i], qs[i])
    <2>1. PICK b : b = c[i]
      OBVIOUS
    <2>2. b \in Parsed /\ ps[i] = ToolsOf("chat", b) /\ qs[i] = IF b.type = "tool_use" THEN <<CallOf(b)>> ELSE <<>>
      BY <1>2, <1>3, <2>1
    <2>3. CASE b.type = "tool_use"
      <3>1. b \in ToolBlocks
        BY <2>2, <2>3, ToolBlockIs
      <3>2. PICK t : t = Tool(b.id, b.name, Serialised(b.input))
        OBVIOUS
      <3>3. t \in Tools
        <4>1. Serialised(b.input) \in Seq(Strings)
          <5>1. b.input \in Strings
            BY <3>1 DEF ToolBlocks
          <5> QED
            BY <5>1, SerialTyped
        <4> QED
          BY <3>1, <3>2, <4>1 DEF Tool, Tools, ToolBlocks
      <3>4. h[t] = CallOf(b)
        <4>1. h[t] = InputOf(t)
          BY <1>1, <3>3
        <4>2. t.id = b.id /\ t.name = b.name /\ t.json = Serialised(b.input)
          BY <3>2 DEF Tool
        <4>3. ParsedOr(t.json, "{}") = b.input
          BY <4>2, SerialRead
        <4> QED
          BY <4>1, <4>2, <4>3 DEF InputOf, CallOf
      <3>5. ps[i] = <<t>> /\ qs[i] = <<CallOf(b)>>
        BY <2>2, <2>3, <3>2, ToolBlockIs
      <3>6. t \in DOMAIN h
        BY <1>1, <3>3
      <3>7. IsList(ps[i]) /\ IsList(qs[i]) /\ Len(ps[i]) = 1 /\ Len(qs[i]) = 1 /\ ps[i][1] = t /\ qs[i][1] = CallOf(b)
        BY <3>5, ListOne
      <3> QED
        BY <3>4, <3>6, <3>7 DEF Alike
    <2>4. CASE b.type # "tool_use"
      <3>1. ps[i] = <<>> /\ qs[i] = <<>>
        BY <2>2, <2>4, ToolBlockIs
      <3> QED
        BY <3>1, ListEmpty DEF Alike
    <2> QED
      BY <2>3, <2>4
  <1>7. Alike(h, FlattenSeq(ps), FlattenSeq(qs))
    BY <1>2, <1>5, <1>6, AlikeFlat
  <1>8. PICK z, q : z = FlattenSeq(ps) /\ q = FlattenSeq(qs)
    OBVIOUS
  <1>9. Alike(h, z, q) /\ z = AllTools("chat", c)
    BY <1>3, <1>7, <1>8 DEF AllTools
  <1>10. q = [i \in DOMAIN z |-> h[z[i]]]
    BY <1>9, AlikeIs
  <1>11. \A i \in DOMAIN z : h[z[i]] = InputOf(z[i])
    BY <1>1, <1>9, ListFacts DEF Alike
  <1>12. q = Inputs(z)
    BY <1>10, <1>11 DEF Inputs
  <1>13. q = Each(c, LAMBDA b : IF b.type = "tool_use" THEN <<CallOf(b)>> ELSE <<>>)
    BY <1>3, <1>8 DEF Each
  <1> QED
    BY <1>9, <1>12, <1>13

\* The gist of blocks is what they amount to.
LEMMA GistIs ==
    ASSUME NEW c, NEW x, NEW y, NEW z, Amounts(c, x, y, z), NEW stop
    PROVE  GistOf(c, stop) = Gist(y, x, Inputs(z), stop)
  <1>1. c \in Seq(Parsed) /\ AllText(c) = x /\ AllThinking("chat", c) = y /\ AllTools("chat", c) = z
    BY DEF Amounts
  <1>2. Said(c, "text") = x /\ Said(c, "thinking") = y
    BY <1>1, SaidIs
  <1>3. Each(c, LAMBDA b : IF b.type = "tool_use" THEN <<CallOf(b)>> ELSE <<>>) = Inputs(z)
    BY <1>1, CallsGist
  <1> QED
    BY <1>2, <1>3, Zenon DEF GistOf

\* What Gemini's upstream says of calls, and of them again.
LEMMA GeminiTools ==
    ASSUME NEW c \in Seq(Parsed)
    PROVE  AllTools("gemini", c) = Nameless(AllTools("chat", c))
  <1>1. PICK n, h : n = Len(c) /\ h = [t \in Tools |-> [t EXCEPT !.id = t.name]]
    OBVIOUS
  <1>2. n \in Nat /\ DOMAIN c = 1..n /\ \A i \in 1..n : c[i] \in Parsed
    BY <1>1
  <1>3. PICK ps, qs : /\ ps = [i \in DOMAIN c |-> ToolsOf("chat", c[i])]
                      /\ qs = [i \in DOMAIN c |-> ToolsOf("gemini", c[i])]
    OBVIOUS
  <1>4. ps = [i \in 1..n |-> ps[i]] /\ qs = [i \in 1..n |-> qs[i]]
    BY <1>2, <1>3
  <1>5. IsList(ps) /\ Len(ps) = n /\ IsList(qs) /\ Len(qs) = n
    BY <1>2, <1>4, ListMake
  <1>6. ASSUME NEW i \in 1..n PROVE Alike(h, ps[i], qs[i])
    <2>1. PICK b : b = c[i]
      OBVIOUS
    <2>2. b \in Parsed /\ ps[i] = ToolsOf("chat", b) /\ qs[i] = ToolsOf("gemini", b)
      BY <1>2, <1>3, <2>1
    <2>3. CASE b.type = "tool_use"
      <3>1. b \in ToolBlocks
        BY <2>2, <2>3, ToolBlockIs
      <3>2. PICK t, u : t = Tool(b.id, b.name, Serialised(b.input)) /\ u = Tool(b.name, b.name, Serialised(b.input))
        OBVIOUS
      <3>3. t \in Tools
        <4>1. Serialised(b.input) \in Seq(Strings)
          <5>1. b.input \in Strings
            BY <3>1 DEF ToolBlocks
          <5> QED
            BY <5>1, SerialTyped
        <4> QED
          BY <3>1, <3>2, <4>1 DEF Tool, Tools, ToolBlocks
      <3>4. h[t] = u
        BY <1>1, <3>2, <3>3 DEF Tool
      <3>5. ps[i] = <<t>> /\ qs[i] = <<u>>
        BY <2>2, <2>3, <3>2 DEF ToolsOf
      <3>6. t \in DOMAIN h
        BY <1>1, <3>3
      <3>7. IsList(ps[i]) /\ IsList(qs[i]) /\ Len(ps[i]) = 1 /\ Len(qs[i]) = 1 /\ ps[i][1] = t /\ qs[i][1] = u
        BY <3>5, ListOne
      <3> QED
        BY <3>4, <3>6, <3>7 DEF Alike
    <2>4. CASE b.type # "tool_use"
      <3>1. ps[i] = <<>> /\ qs[i] = <<>>
        BY <2>2, <2>4 DEF ToolsOf
      <3> QED
        BY <3>1, ListEmpty DEF Alike
    <2> QED
      BY <2>3, <2>4
  <1>7. Alike(h, FlattenSeq(ps), FlattenSeq(qs))
    BY <1>2, <1>5, <1>6, AlikeFlat
  <1>8. PICK z, q : z = FlattenSeq(ps) /\ q = FlattenSeq(qs)
    OBVIOUS
  <1>9. Alike(h, z, q) /\ z = AllTools("chat", c) /\ q = AllTools("gemini", c)
    BY <1>3, <1>7, <1>8 DEF AllTools
  <1>10. q = [i \in DOMAIN z |-> h[z[i]]]
    BY <1>9, AlikeIs
  <1>11. \A i \in DOMAIN z : h[z[i]] = [z[i] EXCEPT !.id = z[i].name]
    BY <1>1, <1>9, ListFacts DEF Alike
  <1>12. q = Nameless(z)
    BY <1>10, <1>11 DEF Nameless
  <1> QED
    BY <1>9, <1>12

\* Dropping the ids and taking the inputs, in either order.
LEMMA Renames ==
    ASSUME NEW z \in Seq(Tools)
    PROVE  /\ Inputs(Nameless(z)) = Nameless(Inputs(z)) /\ Nameless(Nameless(z)) = Nameless(z)
           /\ Nameless(z) \in Seq(Tools)
           /\ Inputs(z) # <<>> <=> z # <<>>
           /\ Nameless(z) # <<>> <=> z # <<>>
  <1>1. PICK n : n = Len(z)
    OBVIOUS
  <1>2. n \in Nat /\ DOMAIN z = 1..n /\ \A i \in 1..n : z[i] \in Tools
    BY <1>1
  <1>3. \A t \in Tools : /\ [t EXCEPT !.id = t.name] \in Tools
                         /\ InputOf([t EXCEPT !.id = t.name]) = [InputOf(t) EXCEPT !.id = InputOf(t).name]
                         /\ [[t EXCEPT !.id = t.name] EXCEPT !.id = [t EXCEPT !.id = t.name].name] = [t EXCEPT !.id = t.name]
    <2> SUFFICES ASSUME NEW t \in Tools
                 PROVE  /\ [t EXCEPT !.id = t.name] \in Tools
                        /\ InputOf([t EXCEPT !.id = t.name]) = [InputOf(t) EXCEPT !.id = InputOf(t).name]
                        /\ [[t EXCEPT !.id = t.name] EXCEPT !.id = [t EXCEPT !.id = t.name].name] = [t EXCEPT !.id = t.name]
      OBVIOUS
    <2>1. PICK u : u = [t EXCEPT !.id = t.name]
      OBVIOUS
    <2>2. u \in Tools /\ u.id = t.name /\ u.name = t.name /\ u.json = t.json
      BY <2>1 DEF Tools
    <2>3. [u EXCEPT !.id = u.name] = u
      BY <2>2 DEF Tools
    <2>4. InputOf(u) = [InputOf(t) EXCEPT !.id = InputOf(t).name]
      <3>1. PICK p : p = ParsedOr(t.json, "{}")
        OBVIOUS
      <3>2. InputOf(u) = [id |-> t.name, name |-> t.name, input |-> p] /\ InputOf(t) = [id |-> t.id, name |-> t.name, input |-> p]
        BY <2>2, <3>1 DEF InputOf
      <3> QED
        BY <3>2
    <2> QED
      BY <2>1, <2>2, <2>3, <2>4
  <1>4. PICK g, q, r : g = Nameless(z) /\ q = Inputs(z) /\ r = Nameless(g)
    OBVIOUS
  <1>5. g = [i \in 1..n |-> [z[i] EXCEPT !.id = z[i].name]] /\ q = [i \in 1..n |-> InputOf(z[i])]
    BY <1>2, <1>4 DEF Nameless, Inputs
  <1>6. \A i \in 1..n : g[i] = [z[i] EXCEPT !.id = z[i].name] /\ q[i] = InputOf(z[i])
    BY <1>5
  <1>7. \A i \in 1..n : /\ g[i] \in Tools
                        /\ InputOf(g[i]) = [q[i] EXCEPT !.id = q[i].name]
                        /\ [g[i] EXCEPT !.id = g[i].name] = g[i]
    BY <1>2, <1>3, <1>6
  <1>8. DOMAIN g = 1..n /\ DOMAIN q = 1..n
    BY <1>5
  <1>9. Inputs(g) = Nameless(q)
    BY <1>7, <1>8 DEF Inputs, Nameless
  <1>10. Nameless(g) = g
    <2>1. Nameless(g) = [i \in 1..n |-> g[i]]
      BY <1>7, <1>8 DEF Nameless
    <2>2. g = [i \in 1..n |-> g[i]]
      BY <1>5
    <2> QED
      BY <2>1, <2>2
  <1>11. g = [i \in 1..n |-> g[i]] /\ q = [i \in 1..n |-> q[i]]
    BY <1>5
  <1>12. IsList(g) /\ Len(g) = n /\ IsList(q) /\ Len(q) = n
    BY <1>2, <1>11, ListMake
  <1>13. g \in Seq(Tools)
    BY <1>2, <1>7, <1>11, SeqMake
  <1>14. (g # <<>> <=> n # 0) /\ (q # <<>> <=> n # 0) /\ (z # <<>> <=> n # 0)
    <2>1. IsList(z)
      BY SeqIsList
    <2> QED
      BY <1>1, <1>12, <2>1, ListNil
  <1> QED
    BY <1>4, <1>9, <1>10, <1>13, <1>14

-----------------------------------------------------------------------------
(* What the log has of a turn                                              *)

\* Calls whose arguments have been read and written again.
Closed(z) == [i \in DOMAIN z |-> Tool(z[i].id, z[i].name, Serialised(ParsedOr(z[i].json, "{}")))]

\* Arguments are read as a string.
LEMMA OpaqueRead ==
    ASSUME NEW json \in Seq(Strings)
    PROVE  ParsedOr(json, "{}") \in Strings
  <1>1. "{}" \in Strings
    BY DEF Strings
  <1>2. Len(json) = 2 => json[1] \in Strings
    OBVIOUS
  <1> QED
    BY <1>1, <1>2 DEF ParsedOr, Whole

\* Blocks that are all calls amount to their calls.
LEMMA CallsAll ==
    ASSUME NEW c \in Seq(ToolBlocks)
    PROVE  Amounts(c, <<>>, <<>>, AllTools("chat", c))
  <1>1. PICK n : n = Len(c)
    OBVIOUS
  <1>2. n \in Nat /\ DOMAIN c = 1..n /\ \A i \in 1..n : c[i] \in ToolBlocks
    BY <1>1
  <1>3. \A b \in ToolBlocks : b.type = "tool_use" /\ b \in Parsed
    BY DEF ToolBlocks, Parsed
  <1>4. c \in Seq(Parsed) /\ IsList(c)
    <2>1. \A i \in 1..Len(c) : c[i] \in Parsed
      BY <1>1, <1>2, <1>3
    <2> QED
      BY <2>1, SeqIsList
  <1>5. PICK ss : ss = [i \in DOMAIN c |-> Opt(c[i].type = "tool_use", c[i])]
    OBVIOUS
  <1>6. ss = [i \in 1..n |-> ss[i]] /\ \A i \in 1..n : ss[i] = <<c[i]>>
    BY <1>2, <1>3, <1>5 DEF Opt
  <1>7. IsList(ss) /\ Len(ss) = n
    BY <1>2, <1>6, ListMake
  <1>8. FlattenSeq(ss) = c
    BY <1>1, <1>2, <1>4, <1>6, <1>7, FlatSingles
  <1>9. Calls(c) = c
    BY <1>5, <1>8, Zenon DEF Calls, Each
  <1>10. Amounts(Calls(c), <<>>, <<>>, AllTools("chat", c))
    BY <1>4, CallsAmount
  <1> QED
    BY <1>9, <1>10

\* A call closed has the inputs it had.
LEMMA ClosedInputs ==
    ASSUME NEW z \in Seq(Tools)
    PROVE  Inputs(Closed(z)) = Inputs(z) /\ Closed(z) \in Seq(Tools)
  <1>1. PICK n, g : n = Len(z) /\ g = Closed(z)
    OBVIOUS
  <1>2. n \in Nat /\ DOMAIN z = 1..n /\ \A i \in 1..n : z[i] \in Tools
    BY <1>1
  <1>3. g = [i \in 1..n |-> Tool(z[i].id, z[i].name, Serialised(ParsedOr(z[i].json, "{}")))]
    BY <1>1, <1>2 DEF Closed
  <1>4. ASSUME NEW i \in 1..n PROVE g[i] \in Tools /\ InputOf(g[i]) = InputOf(z[i])
    <2>1. PICK t, p : t = z[i] /\ p = ParsedOr(t.json, "{}")
      OBVIOUS
    <2>2. t \in Tools
      BY <1>2, <2>1
    <2>3. t.id \in Strings /\ t.name \in Strings /\ t.json \in Seq(Strings)
      BY <2>2 DEF Tools
    <2>4. p \in Strings
      BY <2>1, <2>3, OpaqueRead
    <2>5. Serialised(p) \in Seq(Strings)
      BY <2>4, SerialTyped
    <2>6. g[i] = [id |-> t.id, name |-> t.name, json |-> Serialised(p)]
      BY <1>3, <2>1 DEF Tool
    <2>7. g[i] \in Tools
      BY <2>3, <2>5, <2>6 DEF Tools
    <2>8. PICK u : u = g[i]
      OBVIOUS
    <2>9. u.id = t.id /\ u.name = t.name /\ u.json = Serialised(p)
      BY <2>6, <2>8
    <2>10. ParsedOr(u.json, "{}") = p
      BY <2>9, SerialRead
    <2>11. InputOf(u) = InputOf(t)
      BY <2>1, <2>9, <2>10 DEF InputOf
    <2> QED
      BY <2>1, <2>7, <2>8, <2>11
  <1>5. g = [i \in 1..n |-> g[i]] /\ DOMAIN g = 1..n
    BY <1>3
  <1>6. g \in Seq(Tools)
    BY <1>2, <1>4, <1>5, SeqMake
  <1>7. Inputs(g) = Inputs(z)
    BY <1>2, <1>4, <1>5 DEF Inputs
  <1> QED
    BY <1>1, <1>6, <1>7

\* A folded stream is blocks that amount to it.
LEMMA IntoAmounts ==
    ASSUME NEW a \in Aggregators, NEW c, c = IntoResponse(a).content
    PROVE  Amounts(c, a.text, a.thinking, Closed(a.tools))
  <1>1. PICK x, y, z : x = a.text /\ y = a.thinking /\ z = a.tools
    OBVIOUS
  <1>2. x \in Seq(Strings) /\ y \in Seq(Strings) /\ z \in Seq(Tools)
    BY <1>1 DEF Aggregators
  <1>0. PICK n : n = Len(z)
    OBVIOUS
  <1>4. n \in Nat /\ DOMAIN z = 1..n /\ \A i \in 1..n : z[i] \in Tools
    BY <1>0, <1>2
  <1>3. PICK b : b = [i \in DOMAIN z |-> ToolUse(z[i].id, z[i].name, ParsedOr(z[i].json, "{}"))]
    OBVIOUS
  <1>5. b = [i \in 1..n |-> b[i]] /\ DOMAIN b = 1..n
    BY <1>3, <1>4
  <1>6. ASSUME NEW i \in 1..n
        PROVE  b[i] \in ToolBlocks
               /\ Tool(b[i].id, b[i].name, Serialised(b[i].input)) = Tool(z[i].id, z[i].name, Serialised(ParsedOr(z[i].json, "{}")))
    <2>1. PICK t, p, d : t = z[i] /\ p = ParsedOr(t.json, "{}") /\ d = b[i]
      OBVIOUS
    <2>2. t \in Tools
      BY <1>4, <2>1
    <2>3. t.id \in Strings /\ t.name \in Strings /\ t.json \in Seq(Strings)
      BY <2>2 DEF Tools
    <2>4. p \in Strings
      BY <2>1, <2>3, OpaqueRead
    <2>5. d = [type |-> "tool_use", id |-> t.id, name |-> t.name, input |-> p]
      BY <1>3, <1>4, <2>1 DEF ToolUse
    <2>6. d \in ToolBlocks /\ d.id = t.id /\ d.name = t.name /\ d.input = p
      BY <2>3, <2>4, <2>5 DEF ToolBlocks
    <2> QED
      BY <2>1, <2>6
  <1>7. b \in Seq(ToolBlocks)
    BY <1>4, <1>5, <1>6, SeqMake
  <1>8. AllTools("chat", b) = Closed(z)
    <2>1. AllTools("chat", b) = [i \in DOMAIN b |-> Tool(b[i].id, b[i].name, Serialised(b[i].input))]
      BY <1>7, AllCalls
    <2> QED
      BY <1>4, <1>5, <1>6, <2>1 DEF Closed
  <1>9. Amounts(b, <<>>, <<>>, Closed(z))
    BY <1>7, <1>8, CallsAll
  <1>10. PICK p, q : p = Opt(y # <<>>, Thinking(y)) /\ q = Opt(x # <<>>, Text(x))
    OBVIOUS
  <1>11. Amounts(p, <<>>, y, <<>>) /\ Amounts(q, x, <<>>, <<>>)
    BY <1>2, <1>10, AmountsText
  <1>12. Amounts(p \o q, <<>> \o x, y \o <<>>, <<>> \o <<>>)
    BY <1>11, AmountsConcat
  <1>13. IsList(x) /\ IsList(y) /\ IsList(Closed(z))
    BY <1>9, <1>11, AmountsLists
  <1>14. Amounts(p \o q, x, y, <<>>)
    <2>1. <<>> \o x = x /\ y \o <<>> = y /\ <<>> \o <<>> = <<>>
      BY <1>13, ConcatNil, ListEmpty
    <2> QED
      BY <1>12, <2>1
  <1>15. Amounts((p \o q) \o b, x \o <<>>, y \o <<>>, <<>> \o Closed(z))
    BY <1>9, <1>14, AmountsConcat
  <1>16. x \o <<>> = x /\ y \o <<>> = y /\ <<>> \o Closed(z) = Closed(z)
    BY <1>13, ConcatNil
  <1>17. c = (p \o q) \o b
    BY <1>1, <1>3, <1>10 DEF IntoResponse
  <1> QED
    BY <1>1, <1>15, <1>16, <1>17

\* The gist of an aggregated response.
LEMMA IntoGist ==
    ASSUME NEW a \in Aggregators, NEW stop
    PROVE  GistOf(IntoResponse(a).content, stop) = Gist(a.thinking, a.text, Inputs(a.tools), stop)
  <1>1. PICK c : c = IntoResponse(a).content
    OBVIOUS
  <1>2. Amounts(c, a.text, a.thinking, Closed(a.tools))
    BY <1>1, IntoAmounts
  <1>3. GistOf(c, stop) = Gist(a.thinking, a.text, Inputs(Closed(a.tools)), stop)
    BY <1>2, GistIs
  <1>4. a.tools \in Seq(Tools)
    BY DEF Aggregators
  <1> QED
    BY <1>1, <1>3, <1>4, ClosedInputs

-----------------------------------------------------------------------------
(* What a client has of its frames                                         *)

\* The gist of the frames a client heard.
LEMMA FramesGist ==
    ASSUME NEW c \in Dialects, NEW F, NEW a \in Aggregators, NEW stop, HeardAs(c, F, a, stop)
    PROVE  ReadFrames(c, F) = Gist(a.thinking, a.text, Inputs(a.tools), stop)
  <1>1. PICK blocks : Heard(c, F) = Reader(a.thinking, a.text, Renamed(a.tools), blocks, stop)
    BY DEF HeardAs
  <1>2. PICK g, z, r : g = Heard(c, F) /\ z = a.tools /\ r = Renamed(z)
    OBVIOUS
  <1>3. g.thinking = a.thinking /\ g.text = a.text /\ g.tools = r /\ g.stop = stop
    BY <1>1, <1>2 DEF Reader
  <1>4. DOMAIN r = DOMAIN z /\ \A i \in DOMAIN z : ParsedCall(r[i]) = InputOf(z[i])
    BY <1>2 DEF Renamed, ParsedCall, InputOf
  <1>5. [i \in DOMAIN r |-> ParsedCall(r[i])] = Inputs(z)
    BY <1>4 DEF Inputs
  <1> QED
    BY <1>2, <1>3, <1>5 DEF ReadFrames

\* The gist of the frames a Gemini client heard.
LEMMA GeminiGist ==
    ASSUME NEW F, NEW a \in Aggregators, NEW stop, Heard("gemini", F) = GeminiReader(a.text, Wholes(a.tools), stop)
    PROVE  ReadFrames("gemini", F) = Gist(<<>>, a.text, Nameless(Inputs(a.tools)), stop)
  <1>2. PICK g, z, r : g = Heard("gemini", F) /\ z = a.tools /\ r = Wholes(z)
    OBVIOUS
  <1>3. g.thinking = <<>> /\ g.text = a.text /\ g.tools = r /\ g.stop = stop
    BY <1>2 DEF GeminiReader, Reader
  <1>4. DOMAIN r = DOMAIN z
    BY <1>2 DEF Wholes
  <1>5. ASSUME NEW i \in DOMAIN z PROVE ParsedCall(r[i]) = [InputOf(z[i]) EXCEPT !.id = InputOf(z[i]).name]
    <2>1. PICK t, p, u : t = z[i] /\ p = ParsedOr(t.json, "{}") /\ u = r[i]
      OBVIOUS
    <2>2. u = [id |-> t.name, name |-> t.name, args |-> Serialised(p)]
      BY <1>2, <2>1 DEF Wholes, WholeCall
    <2>3. u.id = t.name /\ u.name = t.name /\ u.args = Serialised(p)
      BY <2>2
    <2>4. ParsedOr(u.args, "{}") = p
      BY <2>3, SerialRead
    <2>5. ParsedCall(u) = [id |-> t.name, name |-> t.name, input |-> p]
      BY <2>3, <2>4 DEF ParsedCall
    <2>6. InputOf(t) = [id |-> t.id, name |-> t.name, input |-> p]
      BY <2>1 DEF InputOf
    <2>7. PICK v : v = InputOf(t)
      OBVIOUS
    <2>8. [v EXCEPT !.id = v.name] = [id |-> t.name, name |-> t.name, input |-> p]
      BY <2>6, <2>7
    <2> QED
      BY <2>1, <2>5, <2>7, <2>8
  <1>6. [i \in DOMAIN r |-> ParsedCall(r[i])] = Nameless(Inputs(z))
    <2>1. PICK q : q = Inputs(z)
      OBVIOUS
    <2>2. DOMAIN q = DOMAIN z /\ \A i \in DOMAIN z : q[i] = InputOf(z[i])
      BY <2>1 DEF Inputs
    <2> QED
      BY <1>4, <1>5, <2>1, <2>2 DEF Nameless
  <1> QED
    BY <1>2, <1>3, <1>6 DEF ReadFrames

-----------------------------------------------------------------------------
(* What was thought and called stays so                                    *)

\* All that `a` has, `b` has, and more perhaps.
Under(a, b) ==
  /\ Len(a.thinking) <= Len(b.thinking) /\ Len(a.tools) <= Len(b.tools)
  /\ \A i \in 1..Len(a.tools) : b.tools[i].id = a.tools[i].id /\ b.tools[i].name = a.tools[i].name

\* An aggregator only grows.
LEMMA PushUnder ==
    ASSUME NEW a \in Aggregators, NEW e \in Events
    PROVE  Under(a, Push(a, e))
  <1>1. PICK b, tools, thinking : b = Push(a, e) /\ tools = a.tools /\ thinking = a.thinking
    OBVIOUS
  <1>2. tools \in Seq(Tools) /\ thinking \in Seq(Strings) /\ IsList(tools) /\ IsList(thinking)
    BY <1>1, SeqIsList DEF Aggregators
  <1>3. PICK n : n = Len(tools)
    OBVIOUS
  <1>4. n \in Nat /\ Len(thinking) \in Nat
    BY <1>2, <1>3
  <1>5. CASE b.thinking = thinking /\ b.tools = tools
    BY <1>1, <1>3, <1>4, <1>5 DEF Under
  <1>6. CASE e.ev = "thinking_delta"
    <2>1. PICK t : t = thinking \o e.text
      OBVIOUS
    <2>2. b = [a EXCEPT !.thinking = t]
      BY <1>1, <1>6, <2>1 DEF Push
    <2>3. b.tools = tools /\ b.thinking = t
      BY <1>1, <2>2 DEF Aggregators
    <2>4. e.text \in Seq(Strings)
      BY <1>6 DEF Events
    <2>5. Len(t) = Len(thinking) + Len(e.text) /\ Len(e.text) \in Nat
      BY <1>2, <2>1, <2>4
    <2>6. Len(thinking) <= Len(t) /\ n <= n
      BY <1>4, <2>5
    <2> QED
      BY <1>1, <1>3, <2>3, <2>6 DEF Under
  <1>7. CASE e.ev = "tool_use_start"
    <2>1. PICK x : x = [id |-> e.id, name |-> e.name, json |-> <<>>]
      OBVIOUS
    <2>2. PICK y : y = Append(tools, x)
      OBVIOUS
    <2>3. b = [a EXCEPT !.tools = y]
      BY <1>1, <1>7, <2>1, <2>2 DEF Push
    <2>4. b.tools = y /\ b.thinking = thinking
      BY <1>1, <2>3 DEF Aggregators
    <2>5. Len(y) = n + 1 /\ \A i \in 1..n : y[i] = tools[i]
      BY <1>2, <1>3, <2>2, ListAppend
    <2> QED
      BY <1>1, <1>3, <1>4, <2>4, <2>5 DEF Under
  <1>8. CASE e.ev = "tool_use_delta"
    <2>1. PICK y : y = AppendToLast(tools, e.json)
      OBVIOUS
    <2>2. b = [a EXCEPT !.tools = y]
      BY <1>1, <1>8, <2>1 DEF Push
    <2>3. b.tools = y /\ b.thinking = thinking
      BY <1>1, <2>2 DEF Aggregators
    <2>4. Len(y) = n /\ \A i \in 1..n : y[i].id = tools[i].id /\ y[i].name = tools[i].name
      <3>1. CASE tools = <<>>
        BY <1>3, <2>1, <3>1, ListEmpty DEF AppendToLast
      <3>2. CASE tools # <<>>
        <4>1. PICK j : j = tools[n].json \o e.json
          OBVIOUS
        <4>2. y = [tools EXCEPT ![n].json = j]
          BY <1>3, <2>1, <3>2, <4>1 DEF AppendToLast
        <4>3. \A i \in 1..n : tools[i] \in Tools
          BY <1>2, <1>3
        <4>4. PICK g : g = [tools[n] EXCEPT !.json = j]
          OBVIOUS
        <4>5. y = [tools EXCEPT ![n] = g]
          BY <4>2, <4>4
        <4>6. DOMAIN tools = 1..n
          BY <1>2, <1>3
        <4>7. n \in 1..n
          BY <1>2, <1>3, <1>4, <3>2, ListNil
        <4>8. tools[n] \in Tools
          BY <4>3, <4>7
        <4>9. g.id = tools[n].id /\ g.name = tools[n].name
          BY <4>4, <4>8 DEF Tools
        <4>10. \A i \in 1..n : y[i] = IF i = n THEN g ELSE tools[i]
          BY <4>5, <4>6
        <4>11. y = [i \in 1..n |-> y[i]]
          BY <4>5, <4>6
        <4>12. Len(y) = n
          BY <1>4, <4>11, ListMake
        <4> QED
          BY <4>9, <4>10, <4>12
      <3> QED
        BY <3>1, <3>2
    <2> QED
      BY <1>1, <1>3, <1>4, <2>3, <2>4 DEF Under
  <1>9. CASE e.ev \notin {"thinking_delta", "tool_use_start", "tool_use_delta"}
    <2>1. PICK t, u, z : t = a.text \o e.text /\ u = Merge(a.usage, e.usage) /\ z = <<e.stop>>
      OBVIOUS
    <2>2. b = a \/ b = [a EXCEPT !.text = t] \/ b = [a EXCEPT !.usage = u] \/ b = [a EXCEPT !.stop = z]
      BY <1>1, <1>9, <2>1 DEF Push, Events
    <2>3. b.thinking = thinking /\ b.tools = tools
      BY <1>1, <2>2 DEF Aggregators
    <2> QED
      BY <1>5, <2>3
  <1> QED
    BY <1>6, <1>7, <1>8, <1>9

\* So it does over a walk.
LEMMA WalkUnder ==
    ASSUME NEW events, NEW w, NEW x, Walks(events, w, x)
    PROVE  Under(w.agg, x.agg)
  <1>1. PICK n : n = Len(events)
    OBVIOUS
  <1>2. IsList(events) /\ n \in Nat
    BY <1>1, ListFacts DEF Walks
  <1>3. PICK walk : WalksBy(events, w, x, walk)
    BY DEF Walks
  <1>4. walk[0] = w /\ walk[n] = x /\ \A k \in 0..n : walk[k] \in Points
    BY <1>1, <1>3 DEF WalksBy
  <1>5. \A k \in 0..n : Len(walk[k].agg.tools) \in Nat /\ Len(walk[k].agg.thinking) \in Nat
    <2>1. ASSUME NEW k \in 0..n PROVE Len(walk[k].agg.tools) \in Nat /\ Len(walk[k].agg.thinking) \in Nat
      <3>1. walk[k].agg \in Aggregators
        BY <1>4 DEF Points
      <3>2. walk[k].agg.tools \in Seq(Tools) /\ walk[k].agg.thinking \in Seq(Strings)
        BY <3>1 DEF Aggregators
      <3> QED
        BY <3>2
    <2> QED
      BY <2>1
  <1> DEFINE S == {k \in 0..n : Under(w.agg, walk[k].agg)}
  <1>6. 0 \in S
    <2>1. 0 \in 0..n
      BY <1>2
    <2>2. Under(w.agg, w.agg)
      BY <1>4, <1>5, <2>1 DEF Under
    <2> QED
      BY <1>4, <2>1, <2>2
  <1>7. ASSUME NEW k \in 1..n, k - 1 \in S PROVE k \in S
    <2>1. k - 1 \in 0..n /\ k \in 0..n /\ 0 \in 0..n
      BY <1>2
    <2>2. PICK v, e, y : v = walk[k - 1] /\ e = events[k] /\ y = walk[k]
      OBVIOUS
    <2>3. v \in Points /\ Legal(v, e) /\ y = After(v, e)
      BY <1>1, <1>3, <2>1, <2>2 DEF WalksBy
    <2>4. y.agg = Push(v.agg, e) /\ e \in Events /\ v.agg \in Aggregators
      BY <2>3 DEF After, Legal, Points
    <2>5. Under(v.agg, y.agg)
      BY <2>4, PushUnder
    <2>6. Under(w.agg, v.agg)
      BY <1>7, <2>2
    <2>7. Under(w.agg, y.agg)
      <3>1. PICK l, m, r : l = Len(w.agg.tools) /\ m = Len(v.agg.tools) /\ r = Len(y.agg.tools)
        OBVIOUS
      <3>2. PICK f, g, h : f = Len(w.agg.thinking) /\ g = Len(v.agg.thinking) /\ h = Len(y.agg.thinking)
        OBVIOUS
      <3>3. l \in Nat /\ m \in Nat /\ r \in Nat /\ f \in Nat /\ g \in Nat /\ h \in Nat
        BY <1>4, <1>5, <2>1, <2>2, <3>1, <3>2
      <3>4. l <= m /\ m <= r /\ f <= g /\ g <= h
        BY <2>5, <2>6, <3>1, <3>2 DEF Under
      <3>5. l <= r /\ f <= h /\ \A i \in 1..l : i \in 1..m
        BY <3>3, <3>4
      <3>6. \A i \in 1..l : y.agg.tools[i].id = w.agg.tools[i].id /\ y.agg.tools[i].name = w.agg.tools[i].name
        BY <2>5, <2>6, <3>1, <3>5 DEF Under
      <3> QED
        BY <3>1, <3>2, <3>5, <3>6 DEF Under
    <2> QED
      BY <2>1, <2>2, <2>7
  <1>8. n \in S
    <2>1. \A k \in 0..n : k \in S
      <3> HIDE DEF S
      <3> QED
        BY <1>2, <1>6, <1>7, UpTo
    <2> QED
      BY <1>2, <2>1
  <1> QED
    BY <1>4, <1>8

\* Gemini's upstream has no thinking and no ids of its own.
LEMMA NoThinking ==
    ASSUME NEW c \in Seq(Parsed)
    PROVE  AllThinking("gemini", c) = <<>>
  <1>1. PICK n, ss : n = Len(c) /\ ss = [i \in DOMAIN c |-> ThinkingOf("gemini", c[i])]
    OBVIOUS
  <1>2. n \in Nat /\ DOMAIN c = 1..n
    BY <1>1
  <1>3. \A i \in 1..n : ss[i] = <<>>
    BY <1>1, <1>2 DEF ThinkingOf
  <1>4. ss = [i \in 1..n |-> ss[i]]
    BY <1>1, <1>2
  <1>5. IsList(ss) /\ Len(ss) = n
    BY <1>2, <1>4, ListMake
  <1>6. FlattenSeq(ss) = <<>>
    BY <1>3, <1>5, FlatNone
  <1> QED
    BY <1>1, <1>6 DEF AllThinking

\* Calls whose id is their name lose nothing without it.
LEMMA NamelessSame ==
    ASSUME NEW z \in Seq(Tools), \A i \in 1..Len(z) : z[i].id = z[i].name
    PROVE  Nameless(z) = z /\ Nameless(Inputs(z)) = Inputs(z)
  <1>1. PICK n : n = Len(z)
    OBVIOUS
  <1>2. n \in Nat /\ DOMAIN z = 1..n /\ \A i \in 1..n : z[i] \in Tools /\ z[i].id = z[i].name
    BY <1>1
  <1>3. \A t \in Tools : t.id = t.name => [t EXCEPT !.id = t.name] = t
    BY DEF Tools
  <1>4. Nameless(z) = [i \in DOMAIN z |-> z[i]]
    BY <1>2, <1>3 DEF Nameless
  <1>5. z = [i \in DOMAIN z |-> z[i]]
    BY <1>2
  <1>6. Nameless(z) = z
    BY <1>4, <1>5
  <1> QED
    BY <1>6, Renames

\* A Gemini upstream thinks nothing, and its calls have their names for ids.
LEMMA GeminiQuiet ==
    ASSUME NEW t \in Turns, t.up = "gemini", NEW k \in 0..Len(Lines(t)), NEW w, w = RunOf(t)[k].w
    PROVE  w.agg.thinking = <<>> /\ Nameless(Inputs(w.agg.tools)) = Inputs(w.agg.tools)
  <1>1. PICK n, run, c : n = Len(Lines(t)) /\ run = RunOf(t) /\ c = t.answer.blocks
    OBVIOUS
  <1>2. PICK x : x = run[n].w
    OBVIOUS
  <1>3. /\ n \in Nat /\ x \in Points /\ w \in Points /\ Right(t, x) /\ x.stage = "over"
    BY <1>1, <1>2, RunFacts
  <1>4. c \in Seq(Parsed)
    <2>1. t.answer.blocks \in Seq(Blocks)
      BY StopTyped
    <2> QED
      BY <1>1, <2>1, BlocksParsed
  <1>5. x.agg.thinking = <<>> /\ x.agg.tools = Nameless(AllTools("chat", c))
    <2>1. x.agg.thinking = AllThinking("gemini", c) /\ x.agg.tools = AllTools("gemini", c)
      BY <1>1, <1>3 DEF Right
    <2> QED
      BY <1>4, <2>1, NoThinking, GeminiTools
  <1>6. Under(w.agg, x.agg)
    <2>1. k \in 0..n /\ n \in k..n
      BY <1>1, <1>3
    <2>2. PICK d : d = DecodeLines(t.up, SubSeq(Lines(t), k + 1, n), run[k].st)
      OBVIOUS
    <2>3. Walks(d.events, run[k].w, run[n].w)
      BY <1>1, <2>1, <2>2, ReadLeads
    <2> QED
      BY <1>1, <1>2, <2>3, WalkUnder
  <1>7. PICK y, z, v : y = w.agg.thinking /\ z = w.agg.tools /\ v = AllTools("chat", c)
    OBVIOUS
  <1>8. y \in Seq(Strings) /\ z \in Seq(Tools) /\ v \in Seq(Tools)
    <2>1. w.agg \in Aggregators
      BY <1>3 DEF Points
    <2>2. v \in Seq(Tools)
      BY <1>4, <1>7, AllConcatTyped
    <2> QED
      BY <1>7, <2>1, <2>2 DEF Aggregators
  <1>9. y = <<>>
    <2>1. Len(y) <= 0
      BY <1>5, <1>6, <1>7, ListEmpty DEF Under
    <2>2. Len(y) = 0
      BY <1>8, <2>1
    <2>3. IsList(y)
      BY <1>8, SeqIsList
    <2> QED
      BY <2>2, <2>3, ListNil
  <1>10. \A i \in 1..Len(z) : z[i].id = z[i].name
    <2>1. PICK g, l, m : g = Nameless(v) /\ l = Len(z) /\ m = Len(v)
      OBVIOUS
    <2>2. l \in Nat /\ m \in Nat /\ DOMAIN v = 1..m /\ \A i \in 1..m : v[i] \in Tools
      BY <1>8, <2>1
    <2>3. g = [i \in 1..m |-> [v[i] EXCEPT !.id = v[i].name]]
      BY <2>1, <2>2 DEF Nameless
    <2>4. g \in Seq(Tools)
      BY <1>8, <2>1, Renames
    <2>5. Len(g) = m
      BY <2>2, <2>3, <2>4
    <2>6. l <= m /\ \A i \in 1..l : g[i].id = z[i].id /\ g[i].name = z[i].name
      BY <1>5, <1>6, <1>7, <2>1, <2>5 DEF Under
    <2>7. \A i \in 1..m : g[i].id = g[i].name
      <3>1. ASSUME NEW i \in 1..m PROVE g[i].id = g[i].name
        <4>1. v[i] \in Tools /\ g[i] = [v[i] EXCEPT !.id = v[i].name]
          BY <2>2, <2>3
        <4> QED
          BY <4>1 DEF Tools
      <3> QED
        BY <3>1
    <2>8. \A i \in 1..l : i \in 1..m
      BY <2>2, <2>6
    <2> QED
      BY <2>1, <2>6, <2>7, <2>8
  <1>11. Nameless(Inputs(z)) = Inputs(z)
    BY <1>8, <1>10, NamelessSame
  <1> QED
    BY <1>7, <1>9, <1>11

-----------------------------------------------------------------------------
(* What two dialects can say                                               *)

Silent(t) == \/ "gemini" \in {t.up, t.client}
             \/ t.up = "chat" /\ t.buffered
             \/ t.client = "responses" /\ ~t.stream
Shown(t, tools) == IF "gemini" \in {t.up, t.client} THEN Nameless(tools) ELSE tools
StopHeard(t, stop, tools) ==
  IF t.up = "responses" /\ ~t.buffered /\ stop = "max_tokens"
  THEN IF tools # <<>> THEN "tool_use" ELSE "end_turn" ELSE stop
StopShown(t, stop, tools) ==
  IF t.client = "responses" THEN "none"
  ELSE IF StopHeard(t, stop, tools) = "stop_sequence" /\ {t.up, t.client} # {"anthropic"}
  THEN "end_turn" ELSE StopHeard(t, stop, tools)

\* What a client's dialect can say of a gist.
LEMMA SayableIs ==
    ASSUME NEW x, NEW y, NEW z, NEW stop, NEW q, q = Inputs(z)
    PROVE  Sayable(Gist(y, x, q, stop))
             = Gist(IF Silent(turn) THEN <<>> ELSE y, x, Shown(turn, q), StopShown(turn, stop, q))
  <1>1. PICK g, t : g = Gist(y, x, q, stop) /\ t = turn
    OBVIOUS
  <1>2. g.thinking = y /\ g.text = x /\ g.tools = q /\ g.stop = stop
    BY <1>1 DEF Gist
  <1>3. q = [i \in DOMAIN q |-> q[i]]
    BY DEF Inputs
  <1>4. Shown(t, q) = [i \in DOMAIN q |-> IF "gemini" \in {t.up, t.client} THEN [q[i] EXCEPT !.id = q[i].name] ELSE q[i]]
    <2>1. CASE "gemini" \in {t.up, t.client}
      BY <2>1 DEF Shown, Nameless
    <2>2. CASE "gemini" \notin {t.up, t.client}
      BY <1>3, <2>2 DEF Shown
    <2> QED
      BY <2>1, <2>2
  <1>5. Sayable(g) = Gist(IF Silent(t) THEN <<>> ELSE y, x,
            [i \in DOMAIN q |-> IF "gemini" \in {t.up, t.client} THEN [q[i] EXCEPT !.id = q[i].name] ELSE q[i]],
            StopShown(t, stop, q))
    BY <1>1, <1>2 DEF Sayable, Silent, StopShown, StopHeard
  <1> QED
    BY <1>1, <1>4, <1>5

-----------------------------------------------------------------------------
(* What a streamed client has                                              *)

EndHeard(c, w) ==
  CASE c = "chat" -> IF w.stage = "over" THEN ChatStop(w.agg) ELSE "none"
    [] c = "anthropic" -> IF w.stage = "over" THEN w.agg.stop[1] ELSE "none"
    [] c = "responses" -> "none"
    [] c = "gemini" -> GeminiStop(w.agg)

\* At point w the calls and the thinking are such as the turn's dialects have.
Fits(t, w) ==
  /\ Silent(t) /\ t.client # "gemini" => w.agg.thinking = <<>>
  /\ t.up = "gemini" => Nameless(Inputs(w.agg.tools)) = Inputs(w.agg.tools)

\* Of frames that have the end or can be read before it.
LEMMA FramesHave ==
    ASSUME NEW t \in Turns, NEW w \in Points, NEW F, Told(t.client, F, w), Fits(t, w),
           t.client = "gemini" => HasEnd(t.client, F)
    PROVE  ReadFrames(t.client, F)
             = Gist(IF Silent(t) THEN <<>> ELSE w.agg.thinking, w.agg.text, Shown(t, Inputs(w.agg.tools)),
                    EndHeard(t.client, w))
  <1>1. PICK c, a : c = t.client /\ a = w.agg
    OBVIOUS
  <1>2. c \in Dialects /\ a \in Aggregators
    BY <1>1, DialectsAssumption DEF Turns, Points
  <1>3. HeardIn(c, F, w) /\ (HasEnd(c, F) => w.stage = "over")
    BY <1>1 DEF Told
  <1>4. CASE c # "gemini"
    <2>1. HeardAs(c, F, a, EndHeard(c, w))
      BY <1>1, <1>2, <1>3, <1>4 DEF HeardIn, EndHeard, Dialects
    <2>2. ReadFrames(c, F) = Gist(a.thinking, a.text, Inputs(a.tools), EndHeard(c, w))
      BY <1>2, <2>1, FramesGist
    <2>3. a.thinking = IF Silent(t) THEN <<>> ELSE a.thinking
      BY <1>1, <1>4 DEF Fits
    <2>4. Shown(t, Inputs(a.tools)) = Inputs(a.tools)
      BY <1>1, <1>4 DEF Fits, Shown
    <2> QED
      BY <1>1, <2>2, <2>3, <2>4
  <1>5. CASE c = "gemini"
    <2>1. Heard("gemini", F) = GeminiReader(a.text, Wholes(a.tools), GeminiStop(a))
      BY <1>1, <1>3, <1>5 DEF HeardIn
    <2>2. ReadFrames("gemini", F) = Gist(<<>>, a.text, Nameless(Inputs(a.tools)), GeminiStop(a))
      BY <1>2, <2>1, GeminiGist
    <2>3. Silent(t) /\ Shown(t, Inputs(a.tools)) = Nameless(Inputs(a.tools))
      BY <1>1, <1>5 DEF Silent, Shown
    <2> QED
      BY <1>1, <1>5, <2>2, <2>3 DEF EndHeard
  <1> QED
    BY <1>4, <1>5

\* What the log has of a point is what the client has of it.
LEMMA LogHas ==
    ASSUME NEW t \in Turns, t = turn, NEW w \in Points, NEW F, Told(t.client, F, w), Fits(t, w),
           t.client = "gemini" => HasEnd(t.client, F),
           NEW c, NEW s, GistOf(c, s) = Gist(w.agg.thinking, w.agg.text, Inputs(w.agg.tools), s)
    PROVE  [ReadFrames(t.client, F) EXCEPT !.stop = "none"] = [Sayable(GistOf(c, s)) EXCEPT !.stop = "none"]
  <1>1. PICK y, x, q : /\ y = IF Silent(t) THEN <<>> ELSE w.agg.thinking
                       /\ x = w.agg.text /\ q = Shown(t, Inputs(w.agg.tools))
    OBVIOUS
  <1>2. PICK m, n : m = EndHeard(t.client, w) /\ n = StopShown(t, s, Inputs(w.agg.tools))
    OBVIOUS
  <1>3. ReadFrames(t.client, F) = Gist(y, x, q, m)
    BY <1>1, <1>2, FramesHave
  <1>4. Sayable(GistOf(c, s)) = Gist(y, x, q, n)
    BY <1>1, <1>2, SayableIs
  <1>5. \A r : [Gist(y, x, q, r) EXCEPT !.stop = "none"] = Gist(y, x, q, "none")
    BY DEF Gist
  <1> QED
    BY <1>3, <1>4, <1>5

\* A stream fits what its upstream said, at every line.
LEMMA StreamFits ==
    ASSUME NEW t \in Turns, t.stream, ~t.buffered, NEW k \in 0..Len(Lines(t)), NEW w, w = RunOf(t)[k].w
    PROVE  Fits(t, w)
  <1>1. CASE t.up = "gemini"
    BY <1>1, GeminiQuiet DEF Fits
  <1>2. CASE t.up # "gemini"
    BY <1>2 DEF Fits, Silent
  <1> QED
    BY <1>1, <1>2

\* So does a body read whole.
LEMMA FullFits ==
    ASSUME NEW t \in Turns, t.buffered, NEW w,
           w.agg.thinking = FullThinking(t), w.agg.tools = AllTools(t.up, t.answer.blocks)
    PROVE  t.stream => Fits(t, w)
  <1>1. SUFFICES ASSUME t.stream PROVE Fits(t, w)
    OBVIOUS
  <1>2. PICK c : c = t.answer.blocks
    OBVIOUS
  <1>3. c \in Seq(Parsed)
    <2>1. t.answer.blocks \in Seq(Blocks)
      BY StopTyped
    <2> QED
      BY <1>2, <2>1, BlocksParsed
  <1>4. CASE t.up = "gemini"
    <2>1. w.agg.thinking = <<>>
      BY <1>4 DEF FullThinking
    <2>2. PICK v : v = AllTools("chat", c)
      OBVIOUS
    <2>3. w.agg.tools = Nameless(v)
      BY <1>2, <1>3, <1>4, <2>2, GeminiTools
    <2>4. v \in Seq(Tools)
      BY <1>3, <2>2, AllConcatTyped
    <2>5. Inputs(Nameless(v)) = Nameless(Inputs(v)) /\ Nameless(v) \in Seq(Tools) /\ Nameless(Nameless(v)) = Nameless(v)
      BY <2>4, Renames
    <2>6. Inputs(Nameless(Nameless(v))) = Nameless(Inputs(Nameless(v)))
      BY <2>5, Renames
    <2> QED
      BY <2>1, <2>3, <2>5, <2>6 DEF Fits
  <1>5. CASE t.up # "gemini"
    BY <1>1, <1>5 DEF Fits, Silent, FullThinking
  <1> QED
    BY <1>4, <1>5

\* What a buffered answer amounts to.
LEMMA FullGist ==
    ASSUME NEW t \in Turns, NEW r, r = FullAnswer(t), NEW s
    PROVE  /\ AllText(r.content) = AllText(t.answer.blocks)
           /\ AllThinking("chat", r.content) = FullThinking(t)
           /\ AllTools("chat", r.content) = AllTools(t.up, t.answer.blocks)
           /\ GistOf(r.content, s) = Gist(AllThinking("chat", r.content), AllText(r.content),
                                          Inputs(AllTools("chat", r.content)), s)
  <1>1. Amounts(r.content, AllText(t.answer.blocks), FullThinking(t), AllTools(t.up, t.answer.blocks))
    BY FullParses DEF FullAnswer
  <1>2. PICK c, x, y, z : c = r.content /\ x = AllText(t.answer.blocks) /\ y = FullThinking(t) /\ z = AllTools(t.up, t.answer.blocks)
    OBVIOUS
  <1>3. Amounts(c, x, y, z)
    BY <1>1, <1>2
  <1>4. AllText(c) = x /\ AllThinking("chat", c) = y /\ AllTools("chat", c) = z
    BY <1>3 DEF Amounts
  <1>5. GistOf(c, s) = Gist(y, x, Inputs(z), s)
    BY <1>3, GistIs
  <1> QED
    BY <1>2, <1>4, <1>5

\* A turn that ended was read to its end.
LEMMA EndSeen == turn \in Turns /\ IsList(sent) => (ClientSeesEnd <=> HasEnd(turn.client, sent))
  <1> SUFFICES ASSUME turn \in Turns, IsList(sent) PROVE ClientSeesEnd <=> HasEnd(turn.client, sent)
    OBVIOUS
  <1>1. DOMAIN sent = 1..Len(sent) /\ turn.client \in Dialects
    BY ListFacts, DialectsAssumption DEF Turns
  <1>2. \A f : Terminal(f) <=> IsEnd(turn.client, f)
    BY <1>1 DEF Terminal, IsEnd, Dialects
  <1> QED
    BY <1>1, <1>2 DEF ClientSeesEnd, HasEnd

\* The content of a record is that of the answer it was made from.
LEMMA LoggedContent ==
    ASSUME NEW r, NEW u, NEW b \in BOOLEAN, NEW l, l = Entry(r, u, b)
    PROVE  l[1].content = r.content
  <1>1. PICK x : x = [content |-> r.content, stop |-> r.stop, usage |-> u, cost |-> CostMicros(u), error |-> b]
    OBVIOUS
  <1>2. l = <<x>>
    BY <1>1 DEF Entry
  <1>3. l[1] = x
    BY <1>2, ListOne
  <1> QED
    BY <1>1, <1>3

\* The invariant has the log hold what the client was sent.
LEMMA InvLogged == RelayInv => LogIsClientsAnswer
  <1> SUFFICES ASSUME RelayInv, log # <<>>, turn.stream, turn.client # "gemini" \/ ClientSeesEnd
               PROVE  [ClientHas EXCEPT !.stop = "none"]
                        = [Sayable(GistOf(log[1].content, "none")) EXCEPT !.stop = "none"]
    BY DEF LogIsClientsAnswer
  <1>1. turn \in Turns
    BY DEF RelayInv
  <1>2. PICK t, z, F, L : t = turn /\ z = ended /\ F = sent /\ L = log
    OBVIOUS
  <1>3. \E w \in Points :
          /\ body = <<>> /\ Told(t.client, F, w) /\ Fits(t, w)
          /\ GistOf(log[1].content, "none") = Gist(w.agg.thinking, w.agg.text, Inputs(w.agg.tools), "none")
    <2>1. CASE t.buffered
      <3>1. Given(t, F, body, log, z)
        BY <1>2, <2>1 DEF RelayInv
      <3>2. z = "full" /\ log = Entry(FullAnswer(t), FullAnswer(t).usage, FALSE) /\ body = <<>> /\ ToldFull(t, F)
        BY <1>2, <3>1 DEF Given
      <3>3. PICK r : r = FullAnswer(t)
        OBVIOUS
      <3>4. log[1].content = r.content
        <4>1. PICK v : v = r.usage
          OBVIOUS
        <4>2. L = Entry(r, v, FALSE)
          BY <1>2, <3>2, <3>3, <4>1
        <4> QED
          <5>1. L[1].content = r.content
            BY <4>2, LoggedContent
          <5> QED
            BY <1>2, <5>1
      <3>5. PICK w \in Points : /\ Told(t.client, F, w)
                                /\ w.agg.text = AllText(r.content) /\ w.agg.thinking = AllThinking("chat", r.content)
                                /\ w.agg.tools = AllTools("chat", r.content)
        BY <3>2, <3>3 DEF ToldFull
      <3>6. /\ AllThinking("chat", r.content) = FullThinking(t)
            /\ AllTools("chat", r.content) = AllTools(t.up, t.answer.blocks)
            /\ GistOf(r.content, "none") = Gist(AllThinking("chat", r.content), AllText(r.content),
                                                Inputs(AllTools("chat", r.content)), "none")
        BY <1>1, <1>2, <3>3, FullGist
      <3>7. Fits(t, w)
        BY <1>1, <1>2, <2>1, <3>5, <3>6, FullFits
      <3> QED
        BY <3>2, <3>4, <3>5, <3>6, <3>7
    <2>2. CASE ~t.buffered
      <3>1. Reading(t, read, decoder, encoder, usage, agg, F, body, log, z)
        BY <1>2, <2>2 DEF RelayInv
      <3>2. PICK n, run : n = Len(Lines(t)) /\ run = RunOf(t)
        OBVIOUS
      <3>3. PICK k \in 0..n : Streaming(t, run[k].w, encoder, usage, F, body, log, z)
        BY <1>2, <3>1, <3>2 DEF Reading
      <3>4. PICK w : w = run[k].w
        OBVIOUS
      <3>5. w \in Points
        BY <1>1, <1>2, <3>2, <3>4, RunFacts
      <3>6. body = <<>> /\ Told(t.client, F, w)
        BY <3>3, <3>4 DEF Streaming
      <3>7. Fits(t, w)
        BY <1>1, <1>2, <2>2, <3>2, <3>4, StreamFits
      <3>8. log[1].content = IntoResponse(w.agg).content
        <4>1. z \in {"no", "end", "eof", "break", "hangup"}
          BY <3>1 DEF Reading
        <4>2. z # "no"
          BY <3>3 DEF Streaming
        <4>3. CASE z \in {"end", "eof"}
          <5>1. PICK q, u : q = IntoResponse(w.agg) /\ u = usage
            OBVIOUS
          <5>2. L = Entry(q, u, FALSE)
            BY <1>2, <3>3, <3>4, <4>3, <5>1 DEF Streaming
          <5> QED
            <6>1. L[1].content = q.content
              BY <5>2, LoggedContent
            <6> QED
              BY <1>2, <5>1, <6>1
        <4>4. CASE z \in {"break", "hangup"}
          <5>1. PICK q, u : q = IntoResponse(w.agg) /\ u = usage
            OBVIOUS
          <5>2. L = Entry(q, u, TRUE)
            BY <1>2, <3>3, <3>4, <4>4, <5>1 DEF Streaming
          <5> QED
            <6>1. L[1].content = q.content
              BY <5>2, LoggedContent
            <6> QED
              BY <1>2, <5>1, <6>1
        <4> QED
          BY <4>1, <4>2, <4>3, <4>4
      <3>9. w.agg \in Aggregators
        BY <3>5 DEF Points
      <3> QED
        BY <3>5, <3>6, <3>7, <3>8, <3>9, IntoGist
    <2> QED
      BY <2>1, <2>2
  <1>4. PICK w \in Points :
          /\ body = <<>> /\ Told(t.client, F, w) /\ Fits(t, w)
          /\ GistOf(log[1].content, "none") = Gist(w.agg.thinking, w.agg.text, Inputs(w.agg.tools), "none")
    BY <1>3
  <1>5. t.client = "gemini" => HasEnd(t.client, F)
    <2>1. IsList(sent)
      BY <1>2, <1>4 DEF Told
    <2> QED
      BY <1>1, <1>2, <2>1, EndSeen
  <1>6. PICK c, s : c = log[1].content /\ s = "none"
    OBVIOUS
  <1>7. [ReadFrames(t.client, F) EXCEPT !.stop = "none"] = [Sayable(GistOf(c, s)) EXCEPT !.stop = "none"]
    BY <1>1, <1>2, <1>4, <1>5, <1>6, LogHas
  <1>8. ClientHas = ReadFrames(t.client, F)
    BY <1>2, <1>4 DEF ClientHas
  <1> QED
    BY <1>6, <1>7, <1>8

\* The log holds what a streamed client was sent, wherever the stream broke,
\* closed or was abandoned (StreamState::agg, ir_json, flush_tool).
THEOREM LoggedIsSent == Spec => []LogIsClientsAnswer
  <1>1. Spec => []RelayInv
    BY TurnIsFollowed
  <1>2. RelayInv => LogIsClientsAnswer
    BY InvLogged
  <1> QED
    BY <1>1, <1>2, PTL

-----------------------------------------------------------------------------
(* How an answer is said to have stopped                                   *)

\* Whether an answer has a call, and the stop reasons it may have.
Has(t) == IF HasCall(t.answer.blocks) THEN "yes" ELSE "no"
May(stop, has) ==
  /\ stop \in StopReasons /\ has \in {"yes", "no"}
  /\ stop = "tool_use" => has = "yes"
  /\ stop \in {"end_turn", "stop_sequence"} => has = "no"

Either(has) == IF has = "yes" THEN "tool_use" ELSE "end_turn"
GeminiMeans(stop, has) == IF stop = "max_tokens" THEN "max_tokens" ELSE Either(has)
ChatMeans(stop) == IF stop = "stop_sequence" THEN "end_turn" ELSE stop

\* What is read of an upstream's stream and of its body, and what a client
\* of a dialect reads of that.
InStream(up, stop, has) ==
  CASE up = "chat" -> ChatMeans(stop) [] up = "anthropic" -> stop
    [] up = "responses" -> Either(has) [] up = "gemini" -> GeminiMeans(stop, has)
InBody(up, stop, has) ==
  CASE up = "chat" -> ChatMeans(stop) [] up = "anthropic" -> stop
    [] up \in {"responses", "gemini"} -> GeminiMeans(stop, has)
OutTo(c, stop, has) ==
  CASE c = "chat" -> ChatMeans(stop) [] c = "anthropic" -> stop
    [] c = "responses" -> "none" [] c = "gemini" -> GeminiMeans(stop, has)
Folded(stop, has) == IF stop = "end_turn" THEN Either(has) ELSE stop

\* What the two dialects can say of it.
Sayables(up, c, whole, stop, has) ==
  IF c = "responses" THEN "none"
  ELSE LET heard == IF up = "responses" /\ whole = "no" /\ stop = "max_tokens" THEN Either(has) ELSE stop
       IN  IF heard = "stop_sequence" /\ {up, c} # {"anthropic"} THEN "end_turn" ELSE heard

\* The stop reason a client reads is the one both dialects can say,
\* by way of a stream or of a body.
LEMMA StopsMeet ==
    ASSUME NEW up \in Dialects, NEW c \in Dialects, NEW stop, NEW has, May(stop, has)
    PROVE  /\ InStream(up, stop, has) \in StopReasons /\ InBody(up, stop, has) \in StopReasons
           /\ OutTo(c, InStream(up, stop, has), has) = Sayables(up, c, "no", stop, has)
           /\ OutTo(c, Folded(InStream(up, stop, has), has), has) = Sayables(up, c, "no", stop, has)
           /\ OutTo(c, InBody(up, stop, has), has) = Sayables(up, c, "yes", stop, has)
  <1>1. {up, c} = {"anthropic"} <=> up = "anthropic" /\ c = "anthropic"
    OBVIOUS
  <1>2. May(stop, has) /\ has \in {"yes", "no"} /\ stop \in StopReasons
    BY DEF May
  <1>3. CASE has = "yes"
    <2>1. stop \in {"tool_use", "max_tokens"}
      BY <1>2, <1>3 DEF May, StopReasons
    <2>2. CASE stop = "tool_use"
      BY <1>1, <1>3, <2>2 DEF InStream, InBody, OutTo, Folded, Sayables, ChatMeans, GeminiMeans, Either, Dialects, StopReasons
    <2>3. CASE stop = "max_tokens"
      BY <1>1, <1>3, <2>3 DEF InStream, InBody, OutTo, Folded, Sayables, ChatMeans, GeminiMeans, Either, Dialects, StopReasons
    <2> QED
      BY <2>1, <2>2, <2>3
  <1>4. CASE has = "no"
    <2>1. stop \in {"end_turn", "stop_sequence", "max_tokens"}
      BY <1>2, <1>4 DEF May, StopReasons
    <2>2. CASE stop = "end_turn"
      BY <1>1, <1>4, <2>2 DEF InStream, InBody, OutTo, Folded, Sayables, ChatMeans, GeminiMeans, Either, Dialects, StopReasons
    <2>3. CASE stop = "stop_sequence"
      BY <1>1, <1>4, <2>3 DEF InStream, InBody, OutTo, Folded, Sayables, ChatMeans, GeminiMeans, Either, Dialects, StopReasons
    <2>4. CASE stop = "max_tokens"
      BY <1>1, <1>4, <2>4 DEF InStream, InBody, OutTo, Folded, Sayables, ChatMeans, GeminiMeans, Either, Dialects, StopReasons
    <2> QED
      BY <2>1, <2>2, <2>3, <2>4
  <1> QED
    BY <1>2, <1>3, <1>4

\* The code's own functions say so.
LEMMA SaysAre ==
    ASSUME NEW stop \in StopReasons
    PROVE  /\ FinishToStop(StopToFinish(stop)) = ChatMeans(stop)
           /\ \A z : GeminiFinishToStop(StopToGeminiFinish(stop), z # <<>>)
                       = GeminiMeans(stop, IF z # <<>> THEN "yes" ELSE "no")
           /\ \A z : GeminiSaid(stop, z) = GeminiMeans(stop, IF z # <<>> THEN "yes" ELSE "no")
  <1>1. FinishToStop(StopToFinish(stop)) = ChatMeans(stop)
    BY DEF FinishToStop, StopToFinish, ChatMeans, StopReasons
  <1>2. ASSUME NEW z PROVE GeminiFinishToStop(StopToGeminiFinish(stop), z # <<>>)
                             = GeminiMeans(stop, IF z # <<>> THEN "yes" ELSE "no")
    <2>1. CASE z = <<>>
      BY <2>1 DEF GeminiFinishToStop, StopToGeminiFinish, GeminiMeans, Either
    <2>2. CASE z # <<>>
      BY <2>2 DEF GeminiFinishToStop, StopToGeminiFinish, GeminiMeans, Either
    <2> QED
      BY <2>1, <2>2
  <1>3. \A z : GeminiSaid(stop, z) = GeminiMeans(stop, IF z # <<>> THEN "yes" ELSE "no")
    BY DEF GeminiSaid, GeminiMeans, Either
  <1> QED
    BY <1>1, <1>2, <1>3

\* The stops of a turn are those of its upstream.
LEMMA TurnStops ==
    ASSUME NEW t \in Turns
    PROVE  /\ May(t.answer.stop, Has(t))
           /\ StopTold(t) = InStream(t.up, t.answer.stop, Has(t))
           /\ FullStop(t) = InBody(t.up, t.answer.stop, Has(t))
  <1>1. PICK up, c, stop : up = t.up /\ c = t.answer.blocks /\ stop = t.answer.stop
    OBVIOUS
  <1>2. /\ t.answer \in Answers /\ up \in Dialects /\ stop \in StopReasons /\ c \in Seq(Parsed)
    <2>1. t.answer.blocks \in Seq(Blocks)
      BY StopTyped
    <2>2. c \in Seq(Parsed)
      BY <1>1, <2>1, BlocksParsed
    <2> QED
      BY <1>1, <2>2, StopTyped
  <1>3. /\ stop = "tool_use" => HasCall(c)
        /\ stop \in {"end_turn", "stop_sequence"} => ~HasCall(c)
    BY <1>1, <1>2, AnswersAssumption
  <1>4. May(stop, Has(t))
    BY <1>1, <1>2, <1>3 DEF May, Has
  <1>5. AllTools("gemini", c) # <<>> <=> HasCall(c)
    BY <1>2, CallsKnown
  <1>6. StopTold(t) = InStream(up, stop, Has(t))
    <2>1. CASE up = "chat"
      BY <1>1, <1>2, <2>1, SaysAre DEF StopTold, InStream
    <2>2. CASE up = "anthropic"
      BY <1>1, <2>2 DEF StopTold, InStream
    <2>3. CASE up = "responses"
      BY <1>1, <2>3 DEF StopTold, InStream, Either, Has
    <2>4. CASE up = "gemini"
      <3>1. StopTold(t) = GeminiFinishToStop(StopToGeminiFinish(stop), HasCall(c))
        BY <1>1, <2>4 DEF StopTold
      <3>2. InStream(up, stop, Has(t)) = GeminiMeans(stop, IF HasCall(c) THEN "yes" ELSE "no")
        BY <1>1, <2>4 DEF InStream, Has
      <3>3. CASE HasCall(c)
        BY <3>1, <3>2, <3>3 DEF GeminiFinishToStop, StopToGeminiFinish, GeminiMeans, Either
      <3>4. CASE ~HasCall(c)
        BY <3>1, <3>2, <3>4 DEF GeminiFinishToStop, StopToGeminiFinish, GeminiMeans, Either
      <3> QED
        BY <3>3, <3>4
    <2> QED
      BY <1>2, <2>1, <2>2, <2>3, <2>4 DEF Dialects
  <1>7. FullStop(t) = InBody(up, stop, Has(t))
    <2>1. CASE up = "chat"
      BY <1>1, <1>2, <2>1, SaysAre DEF FullStop, InBody
    <2>2. CASE up = "anthropic"
      BY <1>1, <2>2 DEF FullStop, InBody
    <2>3. CASE up = "responses"
      BY <1>1, <2>3 DEF FullStop, InBody, ResponsesSaid, GeminiMeans, Either, Has
    <2>4. CASE up = "gemini"
      BY <1>1, <1>5, <2>4 DEF FullStop, InBody, GeminiSaid, GeminiMeans, Either, Has
    <2> QED
      BY <1>2, <2>1, <2>2, <2>3, <2>4 DEF Dialects
  <1> QED
    BY <1>1, <1>4, <1>6, <1>7

-----------------------------------------------------------------------------
(* What a client is to have                                                *)

Mode(t) == IF t.buffered THEN "yes" ELSE "no"
Thought(t) == IF Silent(t) THEN <<>> ELSE AllThinking("chat", t.answer.blocks)
Called(t) == Shown(t, Inputs(AllTools("chat", t.answer.blocks)))
Stopped(t) == Sayables(t.up, t.client, Mode(t), t.answer.stop, Has(t))

\* What is meant by an answer, said by the two dialects.
LEMMA MeantIs ==
    ASSUME NEW t \in Turns, t = turn
    PROVE  Sayable(GistOf(t.answer.blocks, t.answer.stop))
             = Gist(Thought(t), AllText(t.answer.blocks), Called(t), Stopped(t))
  <1>1. PICK c, stop : c = t.answer.blocks /\ stop = t.answer.stop
    OBVIOUS
  <1>2. c \in Seq(Parsed)
    <2>1. t.answer.blocks \in Seq(Blocks)
      BY StopTyped
    <2> QED
      BY <1>1, <2>1, BlocksParsed
  <1>3. PICK x, y, z : x = AllText(c) /\ y = AllThinking("chat", c) /\ z = AllTools("chat", c)
    OBVIOUS
  <1>4. Amounts(c, x, y, z) /\ z \in Seq(Tools)
    BY <1>2, <1>3, AllConcatTyped DEF Amounts
  <1>5. GistOf(c, stop) = Gist(y, x, Inputs(z), stop)
    BY <1>4, GistIs
  <1>6. PICK q : q = Inputs(z)
    OBVIOUS
  <1>7. Sayable(Gist(y, x, q, stop))
          = Gist(IF Silent(t) THEN <<>> ELSE y, x, Shown(t, q), StopShown(t, stop, q))
    BY <1>6, SayableIs
  <1>8. StopShown(t, stop, q) = Stopped(t)
    <2>1. q # <<>> <=> HasCall(c)
      BY <1>2, <1>3, <1>4, <1>6, Renames, CallsKnown
    <2>2. StopHeard(t, stop, q) = IF t.up = "responses" /\ Mode(t) = "no" /\ stop = "max_tokens" THEN Either(Has(t)) ELSE stop
      BY <1>1, <2>1 DEF StopHeard, Mode, Has, Either
    <2> QED
      BY <1>1, <2>2 DEF StopShown, Stopped, Sayables
  <1> QED
    BY <1>1, <1>3, <1>5, <1>6, <1>7, <1>8 DEF Thought, Called

\* What the upstream's dialect leaves of thinking and of calls is what is meant.
LEMMA ShownOnce ==
    ASSUME NEW t \in Turns, NEW c, c = t.answer.blocks, NEW z, z = AllTools(t.up, c)
    PROVE  /\ c \in Seq(Parsed) /\ z \in Seq(Tools)
           /\ Shown(t, Inputs(z)) = Called(t)
           /\ t.up = "gemini" => Nameless(Inputs(z)) = Inputs(z) /\ AllThinking(t.up, c) = <<>>
           /\ ~Silent(t) => AllThinking(t.up, c) = Thought(t)
           /\ z # <<>> <=> HasCall(c)
  <1>1. c \in Seq(Parsed)
    <2>1. t.answer.blocks \in Seq(Blocks)
      BY StopTyped
    <2> QED
      BY <2>1, BlocksParsed
  <1>2. PICK v : v = AllTools("chat", c)
    OBVIOUS
  <1>3. v \in Seq(Tools)
    BY <1>1, <1>2, AllConcatTyped
  <1>4. z # <<>> <=> HasCall(c)
    BY <1>1, CallsKnown
  <1>5. CASE t.up = "gemini"
    <2>1. z = Nameless(v)
      BY <1>1, <1>2, <1>5, GeminiTools
    <2>2. PICK g, q, w : g = Nameless(v) /\ q = Inputs(v) /\ w = Inputs(g)
      OBVIOUS
    <2>3. w = Nameless(q) /\ g \in Seq(Tools) /\ Nameless(g) = g
      BY <1>3, <2>2, Renames
    <2>4. Inputs(Nameless(g)) = Nameless(w)
      BY <2>2, <2>3, Renames
    <2>5. Nameless(w) = w
      BY <2>2, <2>3, <2>4
    <2>6. Shown(t, Inputs(z)) = Called(t)
      BY <1>2, <1>5, <2>1, <2>2, <2>3, <2>5 DEF Shown, Called
    <2>7. AllThinking(t.up, c) = <<>>
      BY <1>1, <1>5, NoThinking
    <2>8. Silent(t)
      BY <1>5 DEF Silent
    <2> QED
      BY <1>1, <1>4, <2>1, <2>2, <2>3, <2>5, <2>6, <2>7, <2>8
  <1>6. CASE t.up # "gemini"
    <2>1. AllThinking(t.up, c) = AllThinking("chat", c) /\ z = v
      BY <1>2, <1>6, SameSaid
    <2> QED
      BY <1>1, <1>2, <1>3, <1>4, <1>6, <2>1 DEF Called, Thought
  <1> QED
    BY <1>5, <1>6

\* The stop reason a client hears at the end.
LEMMA StopsHeard ==
    ASSUME NEW c \in Dialects, NEW w, w.stage = "over", NEW s \in StopReasons, w.agg.stop = <<s>>
    PROVE  EndHeard(c, w) = OutTo(c, s, IF w.agg.tools # <<>> THEN "yes" ELSE "no")
  <1>1. PICK z, a : z = w.agg.tools /\ a = w.agg
    OBVIOUS
  <1>2. a.stop[1] = s
    BY <1>1, ListOne
  <1>3. FinishToStop(StopToFinish(s)) = ChatMeans(s)
    BY SaysAre
  <1>4. GeminiStop(a) = GeminiMeans(s, IF z # <<>> THEN "yes" ELSE "no")
    <2>1. PICK v : v = Wholes(z)
      OBVIOUS
    <2>2. v # <<>> <=> z # <<>>
      <3>1. v = [i \in DOMAIN z |-> WholeCall(z[i])]
        BY <2>1 DEF Wholes
      <3>2. DOMAIN v = DOMAIN z
        BY <3>1
      <3> QED
        BY <3>1, <3>2
    <2>3. GeminiStop(a) = GeminiFinishToStop(StopToGeminiFinish(s), v # <<>>)
      BY <1>1, <1>2, <2>1 DEF GeminiStop
    <2>4. CASE z = <<>>
      <3>1. v = <<>>
        BY <2>2, <2>4
      <3> QED
        BY <2>3, <2>4, <3>1 DEF GeminiFinishToStop, StopToGeminiFinish, GeminiMeans, Either
    <2>5. CASE z # <<>>
      <3>1. v # <<>>
        BY <2>2, <2>5
      <3> QED
        BY <2>3, <2>5, <3>1 DEF GeminiFinishToStop, StopToGeminiFinish, GeminiMeans, Either
    <2> QED
      BY <2>4, <2>5
  <1> QED
    BY <1>1, <1>2, <1>3, <1>4 DEF EndHeard, OutTo, ChatStop, Dialects

\* Of a stream that ended, a client has what is meant.
LEMMA FramesMean ==
    ASSUME NEW t \in Turns, t = turn, NEW F, NEW w \in Points,
           Told(t.client, F, w), Fits(t, w), HasEnd(t.client, F), w.stage = "over",
           w.agg.text = AllText(t.answer.blocks), w.agg.tools = AllTools(t.up, t.answer.blocks),
           ~Silent(t) => w.agg.thinking = Thought(t),
           NEW s \in StopReasons, w.agg.stop = <<s>>, OutTo(t.client, s, Has(t)) = Stopped(t)
    PROVE  ReadFrames(t.client, F) = Sayable(GistOf(t.answer.blocks, t.answer.stop))
  <1>1. PICK c, z : c = t.answer.blocks /\ z = w.agg.tools
    OBVIOUS
  <1>2. Shown(t, Inputs(z)) = Called(t) /\ (z # <<>> <=> HasCall(c))
    BY <1>1, ShownOnce
  <1>3. t.client \in Dialects
    BY DialectsAssumption DEF Turns
  <1>4. EndHeard(t.client, w) = Stopped(t)
    <2>1. EndHeard(t.client, w) = OutTo(t.client, s, IF z # <<>> THEN "yes" ELSE "no")
      BY <1>1, <1>3, StopsHeard
    <2>2. (IF z # <<>> THEN "yes" ELSE "no") = Has(t)
      BY <1>1, <1>2 DEF Has
    <2> QED
      BY <2>1, <2>2
  <1>5. ReadFrames(t.client, F)
          = Gist(IF Silent(t) THEN <<>> ELSE w.agg.thinking, w.agg.text, Shown(t, Inputs(w.agg.tools)),
                 EndHeard(t.client, w))
    BY FramesHave
  <1>6. (IF Silent(t) THEN <<>> ELSE w.agg.thinking) = Thought(t)
    BY DEF Thought
  <1>7. ReadFrames(t.client, F) = Gist(Thought(t), AllText(c), Called(t), Stopped(t))
    BY <1>1, <1>2, <1>4, <1>5, <1>6
  <1>8. Sayable(GistOf(t.answer.blocks, t.answer.stop)) = Gist(Thought(t), AllText(c), Called(t), Stopped(t))
    BY <1>1, MeantIs
  <1> QED
    BY <1>7, <1>8

\* A client whose stream was translated and ended has what is meant.
LEMMA StreamMeans ==
    ASSUME NEW t \in Turns, t = turn, t.stream, ~t.buffered, NEW k \in 0..Len(Lines(t)),
           NEW F, Told(t.client, F, RunOf(t)[k].w), HasEnd(t.client, F)
    PROVE  ReadFrames(t.client, F) = Sayable(GistOf(t.answer.blocks, t.answer.stop))
  <1>1. PICK n, run, w, c : n = Len(Lines(t)) /\ run = RunOf(t) /\ w = run[k].w /\ c = t.answer.blocks
    OBVIOUS
  <1>2. w \in Points /\ Right(t, w)
    BY <1>1, RunFacts
  <1>3. w.stage = "over"
    BY <1>1 DEF Told
  <1>4. /\ w.agg.text = AllText(c) /\ w.agg.thinking = AllThinking(t.up, c)
        /\ w.agg.tools = AllTools(t.up, c) /\ w.agg.stop = <<StopTold(t)>>
    BY <1>1, <1>2, <1>3 DEF Right
  <1>5. Fits(t, w)
    BY <1>1, StreamFits
  <1>6. PICK s : s = StopTold(t)
    OBVIOUS
  <1>7. t.client \in Dialects /\ t.up \in Dialects
    BY DialectsAssumption DEF Turns
  <1>8. May(t.answer.stop, Has(t)) /\ s = InStream(t.up, t.answer.stop, Has(t))
    BY <1>6, TurnStops
  <1>9. s \in StopReasons /\ OutTo(t.client, s, Has(t)) = Stopped(t)
    <2>1. Mode(t) = "no"
      BY DEF Mode
    <2> QED
      BY <1>7, <1>8, <2>1, StopsMeet DEF Stopped
  <1>10. ~Silent(t) => w.agg.thinking = Thought(t)
    BY <1>1, <1>4, ShownOnce
  <1>11. Told(t.client, F, w)
    BY <1>1
  <1> QED
    BY <1>1, <1>2, <1>3, <1>4, <1>5, <1>6, <1>9, <1>10, <1>11, FramesMean

\* So has one whose stream was made of a buffered answer.
LEMMA FullMeans ==
    ASSUME NEW t \in Turns, t = turn, t.stream, t.buffered, NEW F, ToldFull(t, F), HasEnd(t.client, F)
    PROVE  ReadFrames(t.client, F) = Sayable(GistOf(t.answer.blocks, t.answer.stop))
  <1>1. PICK r, c : r = FullAnswer(t) /\ c = t.answer.blocks
    OBVIOUS
  <1>2. PICK w \in Points : /\ Told(t.client, F, w) /\ w.stage = "over"
                            /\ w.agg.text = AllText(r.content)
                            /\ w.agg.thinking = AllThinking("chat", r.content)
                            /\ w.agg.tools = AllTools("chat", r.content)
                            /\ w.agg.stop = <<FullStop(t)>>
    BY <1>1 DEF ToldFull
  <1>3. /\ AllText(r.content) = AllText(c) /\ AllThinking("chat", r.content) = FullThinking(t)
        /\ AllTools("chat", r.content) = AllTools(t.up, c)
    <2>1. PICK s : s = "none"
      OBVIOUS
    <2> QED
      BY <1>1, FullGist
  <1>4. Fits(t, w)
    BY <1>1, <1>2, <1>3, FullFits
  <1>5. PICK s : s = FullStop(t)
    OBVIOUS
  <1>6. t.client \in Dialects /\ t.up \in Dialects
    BY DialectsAssumption DEF Turns
  <1>7. May(t.answer.stop, Has(t)) /\ s = InBody(t.up, t.answer.stop, Has(t))
    BY <1>5, TurnStops
  <1>8. s \in StopReasons /\ OutTo(t.client, s, Has(t)) = Stopped(t)
    <2>1. Mode(t) = "yes"
      BY DEF Mode
    <2> QED
      BY <1>6, <1>7, <2>1, StopsMeet DEF Stopped
  <1>9. ~Silent(t) => w.agg.thinking = Thought(t)
    <2>1. w.agg.thinking = FullThinking(t)
      BY <1>2, <1>3
    <2> QED
      BY <1>1, <2>1 DEF Silent, Thought, FullThinking
  <1>10. w.agg.text = AllText(c) /\ w.agg.tools = AllTools(t.up, c) /\ w.agg.stop = <<s>>
    BY <1>2, <1>3, <1>5
  <1> QED
    BY <1>1, <1>2, <1>4, <1>8, <1>9, <1>10, FramesMean

-----------------------------------------------------------------------------
(* The body of a Responses answer                                          *)

\* What is read of items, and items that say x and call z.
Reads(o) == FlattenSeq([i \in DOMAIN o |-> BlocksOf(o[i])])
Tells(o, x, z) ==
  IsList(o) /\ (\A i \in 1..Len(o) : IsList(BlocksOf(o[i]))) /\ Amounts(Reads(o), x, <<>>, z)

\* No items tell nothing.
LEMMA TellsNil == Tells(<<>>, <<>>, <<>>)
  <1>1. PICK p : p = [i \in DOMAIN <<>> |-> BlocksOf(<<>>[i])]
    OBVIOUS
  <1>2. p = [i \in 1..0 |-> p[i]]
    BY <1>1
  <1>3. FlattenSeq(p) = <<>>
    BY <1>2, ListMake, FlatNil
  <1>4. Reads(<<>>) = <<>>
    BY <1>1, <1>3, Zenon DEF Reads
  <1> QED
    BY <1>4, AmountsNil, ListEmpty DEF Tells

\* One item tells what its blocks amount to.
LEMMA TellsOne ==
    ASSUME NEW o, NEW x, NEW z, Amounts(BlocksOf(o), x, <<>>, z)
    PROVE  Tells(<<o>>, x, z)
  <1>1. PICK s : s = <<o>>
    OBVIOUS
  <1>2. PICK p : p = [i \in DOMAIN s |-> BlocksOf(s[i])]
    OBVIOUS
  <1>3. DOMAIN s = 1..1 /\ s[1] = o
    BY <1>1
  <1>4. p = [i \in 1..1 |-> p[i]] /\ p[1] = BlocksOf(o)
    BY <1>2, <1>3
  <1>5. IsList(p) /\ Len(p) = 1
    BY <1>4, ListMake
  <1>6. IsList(BlocksOf(o))
    BY AmountsLists
  <1>7. FlattenSeq(p) = BlocksOf(o)
    BY <1>4, <1>5, <1>6, FlatOne
  <1>8. IsList(s) /\ Len(s) = 1
    BY <1>1, ListOne
  <1> QED
    BY <1>1, <1>2, <1>3, <1>6, <1>7, <1>8 DEF Tells, Reads

\* Items tell one after the other.
LEMMA TellsConcat ==
    ASSUME NEW a, NEW x, NEW z, NEW b, NEW p, NEW r, Tells(a, x, z), Tells(b, p, r)
    PROVE  Tells(a \o b, x \o p, z \o r)
  <1>1. PICK m, n, c : m = Len(a) /\ n = Len(b) /\ c = a \o b
    OBVIOUS
  <1>2. /\ IsList(a) /\ IsList(b) /\ m \in Nat /\ n \in Nat /\ DOMAIN a = 1..m /\ DOMAIN b = 1..n
        /\ \A i \in 1..m : IsList(BlocksOf(a[i]))
        /\ \A i \in 1..n : IsList(BlocksOf(b[i]))
    BY <1>1, ListFacts DEF Tells
  <1>3. /\ IsList(c) /\ Len(c) = m + n
        /\ \A i \in 1..m : c[i] = a[i]
        /\ \A i \in 1..n : c[m + i] = b[i]
    <2>1. IsList(c) /\ Len(c) = Len(a) + Len(b)
      BY <1>1, <1>2, InARow
    <2>2. \A i \in 1..Len(a) : c[i] = a[i]
      BY <1>1, <1>2, InARow
    <2>3. \A i \in 1..Len(b) : c[Len(a) + i] = b[i]
      BY <1>1, <1>2, InARow
    <2> QED
      BY <1>1, <2>1, <2>2, <2>3
  <1>4. DOMAIN c = 1..(m + n)
    BY <1>3, ListFacts
  <1>5. PICK f, g, h : /\ f = [i \in DOMAIN a |-> BlocksOf(a[i])] /\ g = [i \in DOMAIN b |-> BlocksOf(b[i])]
                       /\ h = [i \in DOMAIN c |-> BlocksOf(c[i])]
    OBVIOUS
  <1>6. /\ f = [i \in 1..m |-> f[i]] /\ g = [i \in 1..n |-> g[i]] /\ h = [i \in 1..(m + n) |-> h[i]]
        /\ \A i \in 1..m : f[i] = BlocksOf(a[i])
        /\ \A i \in 1..n : g[i] = BlocksOf(b[i])
    BY <1>2, <1>4, <1>5
  <1>7. (\A i \in 1..m : h[i] = f[i]) /\ \A i \in 1..n : h[m + i] = g[i]
    <2>1. (\A i \in 1..m : i \in DOMAIN c) /\ \A i \in 1..n : m + i \in DOMAIN c
      BY <1>2, <1>4
    <2> QED
      BY <1>3, <1>5, <1>6, <2>1
  <1>8. IsList(f) /\ Len(f) = m /\ IsList(g) /\ Len(g) = n /\ IsList(h) /\ Len(h) = m + n
    <2>1. m + n \in Nat
      BY <1>2
    <2> QED
      BY <1>2, <1>6, <2>1, ListMake
  <1>9. h = f \o g
    BY <1>7, <1>8, MapConcat
  <1>10. (\A i \in 1..Len(f) : IsList(f[i])) /\ \A i \in 1..Len(g) : IsList(g[i])
    BY <1>2, <1>6, <1>8
  <1>11. FlattenSeq(h) = FlattenSeq(f) \o FlattenSeq(g)
    BY <1>8, <1>9, <1>10, FlatConcat
  <1>12. Reads(c) = Reads(a) \o Reads(b)
    BY <1>5, <1>11 DEF Reads
  <1>13. Amounts(Reads(a) \o Reads(b), x \o p, <<>> \o <<>>, z \o r)
    BY AmountsConcat DEF Tells
  <1>14. <<>> \o <<>> = <<>>
    BY ListEmpty, ConcatNil
  <1>15. Amounts(Reads(c), x \o p, <<>>, z \o r)
    BY <1>12, <1>13, <1>14
  <1>16. ASSUME NEW i \in 1..(m + n) PROVE IsList(BlocksOf(c[i]))
    <2>1. CASE i <= m
      <3>1. i \in 1..m
        BY <1>2, <2>1
      <3> QED
        BY <1>2, <1>3, <3>1
    <2>2. CASE ~(i <= m)
      <3>1. i - m \in 1..n /\ m + (i - m) = i
        BY <1>2, <2>2
      <3>2. PICK j : j \in 1..n /\ m + j = i
        BY <3>1
      <3> QED
        BY <1>2, <1>3, <3>2
    <2> QED
      BY <2>1, <2>2
  <1> QED
    BY <1>1, <1>3, <1>15, <1>16 DEF Tells

\* The texts since the last call, and the item they become.
Texts(parts) == IsList(parts) /\ \A i \in 1..Len(parts) : parts[i] \in Seq(Strings)

\* A message item tells its parts.
LEMMA TextsTell ==
    ASSUME NEW parts, Texts(parts)
    PROVE  Tells(MessageItem(parts), FlattenSeq(parts), <<>>) /\ FlattenSeq(parts) \in Seq(Strings)
  <1>1. IsList(parts) /\ \A i \in 1..Len(parts) : parts[i] \in Seq(Strings)
    BY DEF Texts
  <1>2. PICK x : x = FlattenSeq(parts)
    OBVIOUS
  <1>3. x \in Seq(Strings)
    <2>1. PICK run : /\ \A k \in 0..Len(parts) : run[k] \in Seq(Strings)
                     /\ FlattenSeq(parts) = run[Len(parts)]
      BY <1>1, FlatTyped
    <2>2. Len(parts) \in 0..Len(parts)
      BY <1>1, ListFacts
    <2> QED
      BY <1>2, <2>1, <2>2
  <1>4. CASE parts = <<>>
    <2>1. x = <<>>
      BY <1>1, <1>2, <1>4, ListNil, FlatNil
    <2>2. MessageItem(parts) = <<>>
      BY <1>4 DEF MessageItem, Opt
    <2> QED
      BY <1>2, <1>3, <2>1, <2>2, TellsNil
  <1>5. CASE parts # <<>>
    <2>1. PICK o : o = [type |-> "message", text |-> x]
      OBVIOUS
    <2>2. MessageItem(parts) = <<o>>
      BY <1>2, <1>5, <2>1 DEF MessageItem, Opt
    <2>3. PICK b : b = Text(x)
      OBVIOUS
    <2>4. BlocksOf(o) = <<b>>
      BY <2>1, <2>3 DEF BlocksOf
    <2>5. b = [type |-> "text", text |-> x]
      BY <2>3 DEF Text
    <2>6. b \in Parsed /\ TextOf(b) = x /\ ThinkingOf("chat", b) = <<>> /\ ToolsOf("chat", b) = <<>>
      BY <1>3, <2>5 DEF Parsed, TextOf, ThinkingOf, ToolsOf
    <2>7. Amounts(<<b>>, TextOf(b), ThinkingOf("chat", b), ToolsOf("chat", b))
      BY <2>6, AmountsOne
    <2>8. Amounts(BlocksOf(o), x, <<>>, <<>>)
      BY <2>4, <2>6, <2>7
    <2> QED
      BY <1>2, <1>3, <2>2, <2>8, TellsOne
  <1> QED
    BY <1>4, <1>5

\* A part more, a text more.
LEMMA TextsMore ==
    ASSUME NEW parts, Texts(parts), NEW x \in Seq(Strings), NEW q, q = Append(parts, x)
    PROVE  Texts(q) /\ FlattenSeq(q) = FlattenSeq(parts) \o x
  <1>1. PICK n : n = Len(parts)
    OBVIOUS
  <1>2. IsList(parts) /\ n \in Nat /\ \A i \in 1..n : parts[i] \in Seq(Strings)
    BY <1>1, ListFacts DEF Texts
  <1>3. PICK o : o = <<x>>
    OBVIOUS
  <1>4. IsList(o) /\ Len(o) = 1 /\ o[1] = x
    BY <1>3, ListOne
  <1>5. IsList(q) /\ Len(q) = n + 1 /\ (\A i \in 1..n : q[i] = parts[i]) /\ q[n + 1] = x
    BY <1>1, <1>2, ListAppend
  <1>6. Texts(q)
    <2>1. ASSUME NEW i \in 1..(n + 1) PROVE q[i] \in Seq(Strings)
      <3>1. i \in 1..n \/ i = n + 1
        BY <1>2
      <3> QED
        BY <1>2, <1>5, <3>1
    <2> QED
      BY <1>5, <2>1 DEF Texts
  <1>7. q = parts \o o
    <2>1. Len(q) = Len(parts) + Len(o) /\ \A i \in 1..Len(parts) : q[i] = parts[i]
      BY <1>1, <1>4, <1>5
    <2>2. \A i \in 1..Len(o) : q[Len(parts) + i] = o[i]
      <3>1. \A i \in 1..1 : i = 1
        OBVIOUS
      <3> QED
        BY <1>1, <1>4, <1>5, <3>1
    <2>3. IsList(parts) /\ IsList(o) /\ IsList(q)
      BY <1>2, <1>4, <1>5
    <2> QED
      BY <2>1, <2>2, <2>3, MapConcat
  <1>8. IsList(x) /\ FlattenSeq(o) = x
    <2>1. IsList(x)
      BY SeqIsList
    <2> QED
      BY <1>4, <2>1, FlatOne
  <1>9. FlattenSeq(parts \o o) = FlattenSeq(parts) \o FlattenSeq(o)
    <2>1. \A i \in 1..Len(parts) : IsList(parts[i])
      BY <1>1, <1>2, SeqIsList
    <2>2. \A i \in 1..Len(o) : IsList(o[i])
      <3>1. \A i \in 1..1 : i = 1
        OBVIOUS
      <3> QED
        BY <1>4, <1>8, <3>1
    <2> QED
      BY <1>2, <1>4, <2>1, <2>2, FlatConcat
  <1> QED
    BY <1>6, <1>7, <1>8, <1>9

\* What has been put out of blocks that say x and call z.
Piled(acc, x, z) ==
  /\ Texts(acc.parts)
  /\ \E p : Tells(acc.output, p, z) /\ x = p \o FlattenSeq(acc.parts)

\* What is put out so far tells what was read so far.
LEMMA PutTells ==
    ASSUME NEW acc, NEW x, NEW z, Piled(acc, x, z)
    PROVE  Tells(acc.output \o MessageItem(acc.parts), x, z)
  <1>1. PICK o, parts : o = acc.output /\ parts = acc.parts
    OBVIOUS
  <1>2. PICK p : Texts(parts) /\ Tells(o, p, z) /\ x = p \o FlattenSeq(parts)
    BY <1>1 DEF Piled
  <1>3. Tells(MessageItem(parts), FlattenSeq(parts), <<>>)
    BY <1>2, TextsTell
  <1>4. Tells(o \o MessageItem(parts), p \o FlattenSeq(parts), z \o <<>>)
    BY <1>2, <1>3, TellsConcat
  <1>5. z \o <<>> = z
    BY <1>2, AmountsLists, ConcatNil DEF Tells
  <1> QED
    BY <1>1, <1>2, <1>4, <1>5

\* A block more.
LEMMA PutMore ==
    ASSUME NEW acc, acc = [output |-> acc.output, parts |-> acc.parts], NEW x, NEW z, Piled(acc, x, z),
           NEW b \in Parsed, NEW d, d = OutputBlock(acc, b)
    PROVE  d = [output |-> d.output, parts |-> d.parts] /\ Piled(d, x \o TextOf(b), z \o ToolsOf("chat", b))
  <1>1. PICK o, parts : o = acc.output /\ parts = acc.parts
    OBVIOUS
  <1>2. PICK p : Texts(parts) /\ Tells(o, p, z) /\ x = p \o FlattenSeq(parts)
    BY <1>1 DEF Piled
  <1>3. PICK f : f = FlattenSeq(parts)
    OBVIOUS
  <1>4. f \in Seq(Strings) /\ IsList(f)
    BY <1>2, <1>3, TextsTell, SeqIsList
  <1>5. IsList(p) /\ IsList(z) /\ p \in Seq(Strings)
    BY <1>2, AmountsLists DEF Tells
  <1>6. x = p \o f /\ x \in Seq(Strings) /\ IsList(x)
    <2>1. x \in Seq(Strings)
      BY <1>2, <1>3, <1>4, <1>5
    <2> QED
      BY <1>2, <1>3, <2>1, SeqIsList
  <1>7. acc = [output |-> o, parts |-> parts]
    BY <1>1
  <1>8. CASE b.type = "text"
    <2>1. PICK t, q : t = b.text /\ q = Append(parts, t)
      OBVIOUS
    <2>2. t \in Seq(Strings) /\ TextOf(b) = t /\ ToolsOf("chat", b) = <<>>
      BY <1>8, <2>1, ToolBlockIs
    <2>3. d = [acc EXCEPT !.parts = q]
      BY <1>1, <1>8, <2>1 DEF OutputBlock
    <2>4. d = [output |-> o, parts |-> q]
      BY <1>7, <2>3
    <2>5. d.output = o /\ d.parts = q
      BY <2>4
    <2>6. Texts(q) /\ FlattenSeq(q) = f \o t
      BY <1>2, <1>3, <2>1, <2>2, TextsMore
    <2>7. x \o t = p \o (f \o t)
      BY <1>4, <1>5, <1>6, <2>2
    <2>8. z \o <<>> = z
      BY <1>5, ConcatNil
    <2> QED
      BY <1>2, <2>2, <2>4, <2>5, <2>6, <2>7, <2>8 DEF Piled
  <1>9. CASE b.type = "thinking"
    <2>1. d = acc
      BY <1>9 DEF OutputBlock
    <2>2. TextOf(b) = <<>> /\ ToolsOf("chat", b) = <<>>
      BY <1>9, ToolBlockIs
    <2>3. x \o <<>> = x /\ z \o <<>> = z
      BY <1>5, <1>6, ConcatNil
    <2> QED
      BY <1>1, <1>7, <2>1, <2>2, <2>3
  <1>10. CASE b.type = "tool_use"
    <2>1. PICK m, call, item : m = o \o MessageItem(parts) /\ item = CallItem(b) /\ call = <<item>>
      OBVIOUS
    <2>2. d = [output |-> m \o call, parts |-> <<>>]
      BY <1>1, <1>10, <2>1 DEF OutputBlock
    <2>3. d.output = m \o call /\ d.parts = <<>>
      BY <2>2
    <2>4. Tells(m, x, z)
      <3>1. Tells(acc.output \o MessageItem(acc.parts), x, z)
        BY PutTells
      <3> QED
        BY <1>1, <2>1, <3>1
    <2>5. TextOf(b) = <<>> /\ ThinkingOf("chat", b) = <<>>
      BY <1>10, ToolBlockIs
    <2>6. Amounts(BlocksOf(item), TextOf(b), ThinkingOf("chat", b), ToolsOf("chat", b))
      <3>1. ItemOf(b) = item
        BY <1>10, <2>1 DEF ItemOf
      <3> QED
        BY <3>1, ItemBack
    <2>7. Tells(call, <<>>, ToolsOf("chat", b))
      <3>1. Amounts(BlocksOf(item), <<>>, <<>>, ToolsOf("chat", b))
        BY <2>5, <2>6
      <3> QED
        BY <2>1, <3>1, TellsOne
    <2>8. Tells(m \o call, x \o <<>>, z \o ToolsOf("chat", b))
      BY <2>4, <2>7, TellsConcat
    <2>9. Texts(<<>>) /\ FlattenSeq(<<>>) = <<>>
      BY ListEmpty, FlatNil DEF Texts
    <2>10. PICK y : y = x \o <<>>
      OBVIOUS
    <2>11. y = x /\ y = y \o <<>>
      BY <1>6, <2>10, ConcatNil
    <2>12. Piled(d, y, z \o ToolsOf("chat", b))
      <3>1. Tells(d.output, y, z \o ToolsOf("chat", b)) /\ y = y \o FlattenSeq(d.parts)
        BY <2>3, <2>8, <2>9, <2>10, <2>11
      <3> QED
        BY <2>3, <2>9, <3>1 DEF Piled
    <2> QED
      BY <2>2, <2>3, <2>5, <2>10, <2>12
  <1> QED
    BY <1>8, <1>9, <1>10 DEF Parsed

\* The blocks of an answer put out one after the other.
LEMMA OutputsRun ==
    ASSUME NEW c, IsList(c)
    PROVE  \E run : /\ run[0] = [output |-> <<>>, parts |-> <<>>]
                    /\ \A k \in 1..Len(c) : run[k] = OutputBlock(run[k - 1], c[k])
                    /\ Outputs(c) = run[Len(c)]
  <1> DEFINE n == Len(c)
             S == {m \in 0..n : \E g : g = [k \in 0..m |-> IF k = 0 THEN [output |-> <<>>, parts |-> <<>>] ELSE OutputBlock(g[k - 1], c[k])]}
  <1>0. n \in Nat
    BY ListFacts
  <1>1. 0 \in S
    <2>1. PICK g : g = [k \in 0..0 |-> [output |-> <<>>, parts |-> <<>>]]
      OBVIOUS
    <2>2. g = [k \in 0..0 |-> IF k = 0 THEN [output |-> <<>>, parts |-> <<>>] ELSE OutputBlock(g[k - 1], c[k])]
      BY <2>1
    <2> QED
      BY <1>0, <2>2
  <1>2. ASSUME NEW m \in 1..n, m - 1 \in S PROVE m \in S
    <2>1. PICK g : g = [k \in 0..(m - 1) |-> IF k = 0 THEN [output |-> <<>>, parts |-> <<>>] ELSE OutputBlock(g[k - 1], c[k])]
      BY <1>2
    <2>2. PICK h : h = [k \in 0..m |-> IF k = m THEN OutputBlock(g[k - 1], c[k]) ELSE g[k]]
      OBVIOUS
    <2>3. ASSUME NEW k \in 0..m PROVE h[k] = IF k = 0 THEN [output |-> <<>>, parts |-> <<>>] ELSE OutputBlock(h[k - 1], c[k])
      <3>1. CASE k = m
        <4>1. m - 1 \in 0..m /\ m # 0 /\ m - 1 # m
          BY <1>0
        <4>2. h[m - 1] = g[m - 1]
          BY <2>2, <4>1
        <4> QED
          BY <2>2, <3>1, <4>1, <4>2
      <3>2. CASE k # m
        <4>1. k \in 0..(m - 1)
          BY <1>0, <3>2
        <4>2. h[k] = g[k]
          BY <2>2, <3>2
        <4>3. k # 0 => k - 1 \in 0..m /\ k - 1 # m /\ h[k - 1] = g[k - 1]
          BY <2>2, <4>1
        <4> QED
          BY <2>1, <4>1, <4>2, <4>3
      <3> QED
        BY <3>1, <3>2
    <2>4. h = [k \in 0..m |-> IF k = 0 THEN [output |-> <<>>, parts |-> <<>>] ELSE OutputBlock(h[k - 1], c[k])]
      BY <2>2, <2>3
    <2> QED
      BY <2>4
  <1>3. n \in S
    <2>1. \A k \in 0..n : k \in S
      <3> HIDE DEF S
      <3> QED
        BY <1>0, <1>1, <1>2, UpTo
    <2> QED
      BY <1>0, <2>1
  <1>4. \E g : g = [k \in 0..n |-> IF k = 0 THEN [output |-> <<>>, parts |-> <<>>] ELSE OutputBlock(g[k - 1], c[k])]
    BY <1>3
  <1>5. PICK r : r = CHOOSE g : g = [k \in 0..n |-> IF k = 0 THEN [output |-> <<>>, parts |-> <<>>] ELSE OutputBlock(g[k - 1], c[k])]
    OBVIOUS
  <1>6. r = [k \in 0..n |-> IF k = 0 THEN [output |-> <<>>, parts |-> <<>>] ELSE OutputBlock(r[k - 1], c[k])]
    BY <1>4, <1>5
  <1>7. Outputs(c) = r[n]
    BY <1>5 DEF Outputs
  <1>8. r[0] = [output |-> <<>>, parts |-> <<>>] /\ \A k \in 1..n : r[k] = OutputBlock(r[k - 1], c[k])
    BY <1>0, <1>6
  <1> QED
    BY <1>7, <1>8

\* What is read of the items of blocks is what the blocks say, but for their
\* thinking.
LEMMA OutputsTell ==
    ASSUME NEW c \in Seq(Parsed), NEW acc, acc = Outputs(c)
    PROVE  Tells(acc.output \o MessageItem(acc.parts), AllText(c), AllTools("chat", c))
  <1>1. PICK n, xs, zs : /\ n = Len(c) /\ xs = [i \in DOMAIN c |-> TextOf(c[i])]
                         /\ zs = [i \in DOMAIN c |-> ToolsOf("chat", c[i])]
    OBVIOUS
  <1>2. n \in Nat /\ DOMAIN c = 1..n /\ (\A i \in 1..n : c[i] \in Parsed) /\ IsList(c)
    BY <1>1, SeqIsList
  <1>3. xs = [i \in 1..n |-> xs[i]] /\ zs = [i \in 1..n |-> zs[i]]
        /\ \A i \in 1..n : xs[i] = TextOf(c[i]) /\ zs[i] = ToolsOf("chat", c[i])
    BY <1>1, <1>2
  <1>4. IsList(xs) /\ Len(xs) = n /\ IsList(zs) /\ Len(zs) = n
    BY <1>2, <1>3, ListMake
  <1>5. \A i \in 1..n : IsList(xs[i]) /\ IsList(zs[i])
    BY <1>2, <1>3, ParsedTyped, SeqIsList
  <1>6. PICK X : /\ X[0] = <<>>
                 /\ \A k \in 1..Len(xs) : X[k] = X[k - 1] \o xs[k]
                 /\ FlattenSeq(xs) = X[Len(xs)]
    <2>1. \A i \in 1..Len(xs) : IsList(xs[i])
      BY <1>4, <1>5
    <2> QED
      BY <1>4, <2>1, FlatRun, Zenon
  <1>7. PICK Z : /\ Z[0] = <<>>
                 /\ \A k \in 1..Len(zs) : Z[k] = Z[k - 1] \o zs[k]
                 /\ FlattenSeq(zs) = Z[Len(zs)]
    <2>1. \A i \in 1..Len(zs) : IsList(zs[i])
      BY <1>4, <1>5
    <2> QED
      BY <1>4, <2>1, FlatRun, Zenon
  <1>8. PICK run : /\ run[0] = [output |-> <<>>, parts |-> <<>>]
                   /\ \A k \in 1..n : run[k] = OutputBlock(run[k - 1], c[k])
                   /\ acc = run[n]
    BY <1>1, <1>2, OutputsRun
  <1> DEFINE S == {k \in 0..n : /\ run[k] = [output |-> run[k].output, parts |-> run[k].parts]
                                /\ Piled(run[k], X[k], Z[k])}
  <1>9. 0 \in S
    <2>1. PICK g : g = run[0]
      OBVIOUS
    <2>2. g.output = <<>> /\ g.parts = <<>> /\ g = [output |-> g.output, parts |-> g.parts]
      BY <1>8, <2>1
    <2>3. Texts(<<>>) /\ FlattenSeq(<<>>) = <<>>
      BY ListEmpty, FlatNil DEF Texts
    <2>4. Tells(<<>>, <<>>, <<>>) /\ <<>> = <<>> \o <<>>
      BY TellsNil, ListEmpty, ConcatNil
    <2>5. Piled(g, <<>>, <<>>)
      BY <2>2, <2>3, <2>4 DEF Piled
    <2>6. 0 \in 0..n
      BY <1>2
    <2> QED
      BY <1>6, <1>7, <2>1, <2>2, <2>5, <2>6
  <1>10. ASSUME NEW k \in 1..n, k - 1 \in S PROVE k \in S
    <2>1. k \in 0..n
      OBVIOUS
    <2>2. PICK g, d, b : g = run[k - 1] /\ d = run[k] /\ b = c[k]
      OBVIOUS
    <2>3. g = [output |-> g.output, parts |-> g.parts] /\ Piled(g, X[k - 1], Z[k - 1])
      BY <1>10, <2>2
    <2>4. d = OutputBlock(g, b) /\ b \in Parsed
      BY <1>2, <1>8, <2>2
    <2>5. d = [output |-> d.output, parts |-> d.parts]
          /\ Piled(d, X[k - 1] \o TextOf(b), Z[k - 1] \o ToolsOf("chat", b))
      BY <2>3, <2>4, PutMore
    <2>6. X[k] = X[k - 1] \o TextOf(b) /\ Z[k] = Z[k - 1] \o ToolsOf("chat", b)
      BY <1>3, <1>4, <1>6, <1>7, <2>2
    <2> QED
      BY <2>1, <2>2, <2>5, <2>6
  <1>11. n \in S
    <2>1. \A k \in 0..n : k \in S
      <3> HIDE DEF S
      <3> QED
        BY <1>2, <1>9, <1>10, UpTo
    <2> QED
      BY <1>2, <2>1
  <1>12. Piled(acc, X[n], Z[n])
    BY <1>8, <1>11
  <1>13. X[n] = AllText(c) /\ Z[n] = AllTools("chat", c)
    BY <1>1, <1>4, <1>6, <1>7 DEF AllText, AllTools
  <1> QED
    BY <1>12, <1>13, PutTells

\* A Responses client reads a body's gist.
LEMMA ResponsesBodyReads ==
    ASSUME NEW c \in Seq(Parsed), NEW x, NEW y, NEW z, Amounts(c, x, y, z), NEW stop, NEW u,
           NEW b, b = EmitResponses(Response(c, stop, u))
    PROVE  ReadBody("responses", b) = Gist(<<>>, x, Inputs(z), "none")
  <1>1. PICK acc : acc = Outputs(c)
    OBVIOUS
  <1>2. PICK o : o = acc.output \o MessageItem(acc.parts)
    OBVIOUS
  <1>3. Tells(o, x, z)
    BY <1>1, <1>2, OutputsTell DEF Amounts
  <1>4. b.output = o
    <2>1. PICK q : q = Response(c, stop, u)
      OBVIOUS
    <2>2. q.content = c
      BY <2>1 DEF Response
    <2> QED
      BY <1>1, <1>2, <2>1, <2>2 DEF EmitResponses
  <1>5. PICK r : r = ParseResponse("responses", b)
    OBVIOUS
  <1>6. r.content = Reads(o)
    <2>1. r = ParseResponses(b)
      BY <1>5 DEF ParseResponse
    <2>2. PICK d : d = FlattenSeq([i \in DOMAIN b.output |-> BlocksOf(b.output[i])])
      OBVIOUS
    <2>3. \E s, v : r = Response(d, s, v)
      BY <2>1, <2>2, Zenon DEF ParseResponses, BlocksOf
    <2>4. r.content = d
      BY <2>3 DEF Response
    <2> QED
      BY <1>4, <2>2, <2>4 DEF Reads
  <1>7. Amounts(r.content, x, <<>>, z)
    BY <1>3, <1>6 DEF Tells
  <1>8. PICK e : e = r.content
    OBVIOUS
  <1>9. GistOf(e, "none") = Gist(<<>>, x, Inputs(z), "none")
    BY <1>7, <1>8, GistIs
  <1> QED
    BY <1>5, <1>8, <1>9 DEF ReadBody

\* What a client reads of a body, by its dialect.
LEMMA ChatBodyReads ==
    ASSUME NEW c \in Seq(Parsed), NEW x, NEW y, NEW z, Amounts(c, x, y, z), NEW s \in StopReasons,
           NEW u \in Tokens, NEW b, b = EmitChat(Response(c, s, u))
    PROVE  ReadBody("chat", b) = Gist(y, x, Inputs(z), ChatMeans(s))
  <1>1. PICK d : d = Calls(c)
    OBVIOUS
  <1>2. /\ b.content = x /\ b.reasoning = y /\ b.finish = StopToFinish(s)
        /\ b.calls = [i \in DOMAIN d |-> [id |-> d[i].id, name |-> d[i].name, args |-> Serialised(d[i].input)]]
    BY <1>1, ChatBody DEF Amounts
  <1>3. d \in Seq(ToolBlocks) /\ Amounts(d, <<>>, <<>>, AllTools("chat", c))
    BY <1>1, CallsAmount
  <1>4. z = AllTools("chat", d)
    BY <1>3 DEF Amounts
  <1>5. z = [i \in DOMAIN d |-> Tool(d[i].id, d[i].name, Serialised(d[i].input))]
    BY <1>3, <1>4, AllCalls
  <1>6. PICK e : e = b.calls
    OBVIOUS
  <1>7. DOMAIN e = DOMAIN d /\ DOMAIN z = DOMAIN d
    BY <1>2, <1>5, <1>6
  <1>8. ASSUME NEW i \in DOMAIN d PROVE ParsedCall(e[i]) = InputOf(z[i])
    <2>1. PICK g, h, t : g = e[i] /\ h = z[i] /\ t = d[i]
      OBVIOUS
    <2>2. g = [id |-> t.id, name |-> t.name, args |-> Serialised(t.input)]
      BY <1>2, <1>6, <2>1
    <2>3. h = [id |-> t.id, name |-> t.name, json |-> Serialised(t.input)]
      BY <1>5, <2>1 DEF Tool
    <2>4. ParsedCall(g) = InputOf(h)
      BY <2>2, <2>3 DEF ParsedCall, InputOf
    <2> QED
      BY <2>1, <2>4
  <1>9. [i \in DOMAIN e |-> ParsedCall(e[i])] = Inputs(z)
    BY <1>7, <1>8 DEF Inputs
  <1>10. FinishToStop(b.finish) = ChatMeans(s)
    BY <1>2, SaysAre
  <1> QED
    BY <1>2, <1>6, <1>9, <1>10 DEF ReadBody

\* An Anthropic client does.
LEMMA AnthropicBodyReads ==
    ASSUME NEW c, NEW x, NEW y, NEW z, Amounts(c, x, y, z), NEW s, NEW u,
           NEW b, b = EmitAnthropic(Response(c, s, u))
    PROVE  ReadBody("anthropic", b) = Gist(y, x, Inputs(z), s)
  <1>1. b.content = c /\ b.stop = s
    BY DEF EmitAnthropic, Response
  <1>2. PICK r : r = ParseResponse("anthropic", b)
    OBVIOUS
  <1>3. r = ParseAnthropic(b)
    BY <1>2 DEF ParseResponse
  <1>4. r.content = c /\ r.stop = s
    BY <1>1, <1>3 DEF ParseAnthropic, Response
  <1>5. GistOf(c, s) = Gist(y, x, Inputs(z), s)
    BY GistIs
  <1> QED
    BY <1>2, <1>4, <1>5 DEF ReadBody

\* A Gemini client does.
LEMMA GeminiBodyReads ==
    ASSUME NEW c \in Seq(Parsed), NEW x, NEW y, NEW z, Amounts(c, x, y, z), NEW s \in StopReasons,
           NEW u \in Tokens, NEW b, b = EmitGemini(Response(c, s, u))
    PROVE  ReadBody("gemini", b) = Gist(<<>>, x, Nameless(Inputs(z)), GeminiMeans(s, IF z # <<>> THEN "yes" ELSE "no"))
  <1>1. PICK r : r = ParseResponse("gemini", b)
    OBVIOUS
  <1>2. r = ParseGemini(b)
    BY <1>1 DEF ParseResponse
  <1>3. PICK v : v = AllTools("gemini", c)
    OBVIOUS
  <1>4. r = Response(r.content, GeminiSaid(s, v), u) /\ Amounts(r.content, x, <<>>, v)
    <2>1. AllText(c) = x
      BY DEF Amounts
    <2> QED
      BY <1>2, <1>3, <2>1, GeminiParsed
  <1>5. z = AllTools("chat", c) /\ z \in Seq(Tools)
    BY AllConcatTyped DEF Amounts
  <1>6. v = Nameless(z)
    BY <1>3, <1>5, GeminiTools
  <1>7. Inputs(v) = Nameless(Inputs(z)) /\ (v # <<>> <=> z # <<>>)
    BY <1>5, <1>6, Renames
  <1>8. PICK e, m : e = r.content /\ m = GeminiSaid(s, v)
    OBVIOUS
  <1>9. r.stop = m
    BY <1>4, <1>8 DEF Response
  <1>10. m = GeminiMeans(s, IF z # <<>> THEN "yes" ELSE "no")
    <2>1. GeminiSaid(s, v) = GeminiMeans(s, IF v # <<>> THEN "yes" ELSE "no")
      BY SaysAre
    <2> QED
      BY <1>7, <1>8, <2>1
  <1>11. GistOf(e, m) = Gist(<<>>, x, Inputs(v), m)
    BY <1>4, <1>8, GistIs
  <1> QED
    BY <1>1, <1>7, <1>8, <1>9, <1>10, <1>11 DEF ReadBody

\* Whatever the dialect, a client reads what it can say of a body.
LEMMA BodyReads ==
    ASSUME NEW d \in Dialects, NEW c \in Seq(Parsed), NEW x, NEW y, NEW z, Amounts(c, x, y, z),
           NEW s \in StopReasons, NEW u \in Tokens, NEW b, b = EmitResponse(d, Response(c, s, u))
    PROVE  ReadBody(d, b)
             = Gist(IF d \in {"responses", "gemini"} THEN <<>> ELSE y, x,
                    IF d = "gemini" THEN Nameless(Inputs(z)) ELSE Inputs(z),
                    OutTo(d, s, IF z # <<>> THEN "yes" ELSE "no"))
  <1>1. CASE d = "chat"
    <2>1. b = EmitChat(Response(c, s, u))
      BY <1>1 DEF EmitResponse
    <2>2. ReadBody("chat", b) = Gist(y, x, Inputs(z), ChatMeans(s))
      BY <2>1, ChatBodyReads
    <2> QED
      BY <1>1, <2>2 DEF OutTo
  <1>2. CASE d = "anthropic"
    <2>1. b = EmitAnthropic(Response(c, s, u))
      BY <1>2 DEF EmitResponse
    <2>2. ReadBody("anthropic", b) = Gist(y, x, Inputs(z), s)
      BY <2>1, AnthropicBodyReads
    <2> QED
      BY <1>2, <2>2 DEF OutTo
  <1>3. CASE d = "responses"
    <2>1. b = EmitResponses(Response(c, s, u))
      BY <1>3 DEF EmitResponse
    <2>2. ReadBody("responses", b) = Gist(<<>>, x, Inputs(z), "none")
      BY <2>1, ResponsesBodyReads
    <2> QED
      BY <1>3, <2>2 DEF OutTo
  <1>4. CASE d = "gemini"
    <2>1. b = EmitGemini(Response(c, s, u))
      BY <1>4 DEF EmitResponse
    <2>2. ReadBody("gemini", b) = Gist(<<>>, x, Nameless(Inputs(z)), GeminiMeans(s, IF z # <<>> THEN "yes" ELSE "no"))
      BY <2>1, GeminiBodyReads
    <2> QED
      BY <1>4, <2>2 DEF OutTo
  <1> QED
    BY <1>1, <1>2, <1>3, <1>4 DEF Dialects

\* A body made of what is meant says it.
LEMMA BodyMeans ==
    ASSUME NEW t \in Turns, t = turn, ~t.stream, NEW c \in Seq(Parsed), NEW y, NEW z,
           Amounts(c, AllText(t.answer.blocks), y, z), Inputs(z) = Inputs(AllTools(t.up, t.answer.blocks)),
           z # <<>> <=> AllTools(t.up, t.answer.blocks) # <<>>,
           ~Silent(t) => y = Thought(t),
           t.up = "gemini" \/ (t.up = "chat" /\ t.buffered) => y = <<>>,
           NEW s \in StopReasons, OutTo(t.client, s, Has(t)) = Stopped(t),
           NEW u \in Tokens, NEW b, b = EmitResponse(t.client, Response(c, s, u))
    PROVE  ReadBody(t.client, b) = Sayable(GistOf(t.answer.blocks, t.answer.stop))
  <1>1. PICK d, a, v, x : d = t.client /\ a = t.answer.blocks /\ v = AllTools(t.up, a) /\ x = AllText(a)
    OBVIOUS
  <1>2. d \in Dialects
    BY <1>1, DialectsAssumption DEF Turns
  <1>3. ReadBody(d, b)
          = Gist(IF d \in {"responses", "gemini"} THEN <<>> ELSE y, x,
                 IF d = "gemini" THEN Nameless(Inputs(z)) ELSE Inputs(z),
                 OutTo(d, s, IF z # <<>> THEN "yes" ELSE "no"))
    BY <1>1, <1>2, BodyReads
  <1>4. PICK q : q = Inputs(z)
    OBVIOUS
  <1>5. /\ Shown(t, q) = Called(t) /\ (v # <<>> <=> HasCall(a))
        /\ t.up = "gemini" => Nameless(q) = q
    <2>1. q = Inputs(v)
      BY <1>1, <1>4
    <2> QED
      BY <1>1, <2>1, ShownOnce
  <1>6. (IF d = "gemini" THEN Nameless(q) ELSE q) = Called(t)
    BY <1>1, <1>5 DEF Shown
  <1>7. (IF d \in {"responses", "gemini"} THEN <<>> ELSE y) = Thought(t)
    <2>1. CASE Silent(t)
      <3>1. Thought(t) = <<>>
        BY <2>1 DEF Thought
      <3>2. CASE d \in {"responses", "gemini"}
        BY <3>1, <3>2
      <3>3. CASE d \notin {"responses", "gemini"}
        BY <1>1, <2>1, <3>1, <3>3 DEF Silent
      <3> QED
        BY <3>2, <3>3
    <2>2. CASE ~Silent(t)
      <3>1. d \notin {"responses", "gemini"}
        BY <1>1, <2>2 DEF Silent
      <3> QED
        BY <2>2, <3>1
    <2> QED
      BY <2>1, <2>2
  <1>8. OutTo(d, s, IF z # <<>> THEN "yes" ELSE "no") = Stopped(t)
    <2>1. (IF z # <<>> THEN "yes" ELSE "no") = Has(t)
      BY <1>1, <1>5 DEF Has
    <2> QED
      BY <1>1, <2>1
  <1>9. ReadBody(d, b) = Gist(Thought(t), x, Called(t), Stopped(t))
    BY <1>3, <1>4, <1>6, <1>7, <1>8
  <1>10. Sayable(GistOf(t.answer.blocks, t.answer.stop)) = Gist(Thought(t), x, Called(t), Stopped(t))
    BY <1>1, MeantIs
  <1> QED
    BY <1>1, <1>9, <1>10

\* The body of a buffered answer.
LEMMA FullBodyMeans ==
    ASSUME NEW t \in Turns, t = turn, ~t.stream, t.buffered, NEW b, b = EmitResponse(t.client, FullAnswer(t))
    PROVE  ReadBody(t.client, b) = Sayable(GistOf(t.answer.blocks, t.answer.stop))
  <1>1. PICK r, c, s, u : r = FullAnswer(t) /\ c = r.content /\ s = FullStop(t) /\ u = Usage(t.up, t.answer.tokens)
    OBVIOUS
  <1>2. PICK y, z : y = FullThinking(t) /\ z = AllTools(t.up, t.answer.blocks)
    OBVIOUS
  <1>3. r = Response(c, s, u) /\ Amounts(c, AllText(t.answer.blocks), y, z)
    BY <1>1, <1>2, FullParses DEF FullAnswer
  <1>4. c \in Seq(Parsed)
    BY <1>3 DEF Amounts
  <1>5. u \in Tokens
    BY <1>1, StopTyped, UsageTyped
  <1>6. t.client \in Dialects /\ t.up \in Dialects
    BY DialectsAssumption DEF Turns
  <1>7. May(t.answer.stop, Has(t)) /\ s = InBody(t.up, t.answer.stop, Has(t))
    BY <1>1, TurnStops
  <1>8. s \in StopReasons /\ OutTo(t.client, s, Has(t)) = Stopped(t)
    <2>1. Mode(t) = "yes"
      BY DEF Mode
    <2> QED
      BY <1>6, <1>7, <2>1, StopsMeet DEF Stopped
  <1>9. ~Silent(t) => y = Thought(t)
    BY <1>2 DEF Silent, Thought, FullThinking
  <1>10. t.up = "gemini" \/ (t.up = "chat" /\ t.buffered) => y = <<>>
    BY <1>2 DEF FullThinking
  <1>11. b = EmitResponse(t.client, Response(c, s, u))
    BY <1>1, <1>3
  <1> QED
    BY <1>2, <1>3, <1>4, <1>5, <1>8, <1>9, <1>10, <1>11, BodyMeans

\* An aggregated stream is a response with its stop folded.
LEMMA FoldedIs ==
    ASSUME NEW a, NEW s, a.stop = <<s>>, NEW r, r = IntoResponse(a)
    PROVE  /\ r = Response(r.content, Folded(s, IF a.tools # <<>> THEN "yes" ELSE "no"), a.usage)
  <1>1. PICK c, m : c = r.content /\ m = r.stop
    OBVIOUS
  <1>2. r = [content |-> c, stop |-> m, usage |-> a.usage]
    BY <1>1 DEF IntoResponse
  <1>3. m = IF a.stop \in {<<>>, <<"end_turn">>} THEN IF a.tools # <<>> THEN "tool_use" ELSE "end_turn"
            ELSE a.stop[1]
    BY <1>1 DEF IntoResponse
  <1>4. a.stop[1] = s
    BY ListOne
  <1>5. a.stop \in {<<>>, <<"end_turn">>} <=> s = "end_turn"
    OBVIOUS
  <1>6. m = Folded(s, IF a.tools # <<>> THEN "yes" ELSE "no")
    BY <1>3, <1>4, <1>5 DEF Folded, Either
  <1> QED
    BY <1>1, <1>2, <1>6 DEF Response

\* The body of a stream that was read to its end.
LEMMA GatheredMeans ==
    ASSUME NEW t \in Turns, t = turn, ~t.stream, ~t.buffered, NEW n, n = Len(Lines(t)),
           NEW a, a = RunOf(t)[n].w.agg, NEW b, b = EmitResponse(t.client, IntoResponse(a))
    PROVE  ReadBody(t.client, b) = Sayable(GistOf(t.answer.blocks, t.answer.stop))
  <1>1. PICK w, e : w = RunOf(t)[n].w /\ e = t.answer.blocks
    OBVIOUS
  <1>2. n \in Nat /\ n \in 0..n /\ w \in Points /\ Right(t, w) /\ w.stage = "over"
    BY <1>1, RunFacts
  <1>3. PICK v, s : v = AllTools(t.up, e) /\ s = StopTold(t)
    OBVIOUS
  <1>4. a.text = AllText(e) /\ a.thinking = AllThinking(t.up, e) /\ a.tools = v /\ a.stop = <<s>>
    BY <1>1, <1>2, <1>3 DEF Right
  <1>5. a \in Aggregators
    BY <1>1, <1>2 DEF Points
  <1>6. a.usage \in Tokens
    BY <1>5 DEF Aggregators
  <1>7. PICK r, c, m, u : r = IntoResponse(a) /\ c = r.content /\ m = Folded(s, Has(t)) /\ u = a.usage
    OBVIOUS
  <1>8. /\ v \in Seq(Tools) /\ (v # <<>> <=> HasCall(e))
        /\ t.up = "gemini" => AllThinking(t.up, e) = <<>>
        /\ ~Silent(t) => AllThinking(t.up, e) = Thought(t)
    BY <1>1, <1>3, ShownOnce
  <1>9. r = Response(c, m, u)
    <2>1. Has(t) = IF a.tools # <<>> THEN "yes" ELSE "no"
      BY <1>1, <1>4, <1>8 DEF Has
    <2> QED
      BY <1>4, <1>7, <2>1, FoldedIs
  <1>10. PICK y, z : y = a.thinking /\ z = Closed(v)
    OBVIOUS
  <1>11. Amounts(c, AllText(e), y, z)
    BY <1>4, <1>5, <1>7, <1>10, IntoAmounts
  <1>12. c \in Seq(Parsed)
    BY <1>11 DEF Amounts
  <1>13. Inputs(z) = Inputs(v) /\ z \in Seq(Tools)
    BY <1>8, <1>10, ClosedInputs
  <1>14. z # <<>> <=> v # <<>>
    BY <1>8, <1>13, Renames
  <1>15. t.client \in Dialects /\ t.up \in Dialects
    BY DialectsAssumption DEF Turns
  <1>16. May(t.answer.stop, Has(t)) /\ s = InStream(t.up, t.answer.stop, Has(t))
    BY <1>3, TurnStops
  <1>17. m \in StopReasons /\ OutTo(t.client, m, Has(t)) = Stopped(t)
    <2>1. Mode(t) = "no"
      BY DEF Mode
    <2>2. s \in StopReasons /\ OutTo(t.client, Folded(s, Has(t)), Has(t)) = Stopped(t)
      BY <1>15, <1>16, <2>1, StopsMeet DEF Stopped
    <2>3. m \in StopReasons
      BY <1>7, <2>2 DEF Folded, Either, StopReasons
    <2> QED
      BY <1>7, <2>2, <2>3
  <1>18. (~Silent(t) => y = Thought(t)) /\ (t.up = "gemini" \/ (t.up = "chat" /\ t.buffered) => y = <<>>)
    BY <1>4, <1>8, <1>10
  <1>19. b = EmitResponse(t.client, Response(c, m, u)) /\ u \in Tokens
    BY <1>6, <1>7, <1>9
  <1> QED
    BY <1>1, <1>3, <1>11, <1>12, <1>13, <1>14, <1>17, <1>18, <1>19, BodyMeans

\* The invariant has a finished answer mean what the upstream said.
LEMMA InvMeans == RelayInv => EndMeansAll
  <1> SUFFICES ASSUME RelayInv, ClientSeesEnd \/ (body # <<>> /\ AllRead)
               PROVE  ClientHas = Sayable(GistOf(turn.answer.blocks, turn.answer.stop))
    BY DEF EndMeansAll
  <1>1. turn \in Turns
    BY DEF RelayInv
  <1>2. PICK t, z, F, B, n : t = turn /\ z = ended /\ F = sent /\ B = body /\ n = Len(Lines(t))
    OBVIOUS
  <1>3. n \in Nat
    BY <1>1, <1>2, RunFacts
  <1>4. HasEnd(t.client, F) => F # <<>>
    <2>1. Len(<<>>) = 0
      OBVIOUS
    <2> QED
      BY <2>1 DEF HasEnd
  <1>5. IsList(F) => (ClientSeesEnd <=> HasEnd(t.client, F))
    BY <1>1, <1>2, EndSeen
  <1>6. \A x : <<x>> # <<>> /\ <<x>>[1] = x
    BY ListOne, ListNil
  <1>7. CASE t.buffered
    <2>1. Given(t, F, B, log, z)
      BY <1>2, <1>7 DEF RelayInv
    <2>2. z = "full"
      <3>1. CASE z # "full"
        <4>1. F = <<>> /\ B = <<>>
          BY <2>1, <3>1 DEF Given
        <4> QED
          BY <1>2, <1>4, <1>5, <4>1, ListEmpty
      <3> QED
        BY <3>1
    <2>3. CASE t.stream
      <3>1. B = <<>> /\ ToldFull(t, F)
        BY <2>1, <2>2, <2>3 DEF Given
      <3>2. HasEnd(t.client, F)
        <4>1. IsList(F)
          BY <3>1 DEF ToldFull, Told
        <4> QED
          BY <1>2, <1>5, <3>1, <4>1
      <3>3. ReadFrames(t.client, F) = Sayable(GistOf(t.answer.blocks, t.answer.stop))
        BY <1>1, <1>2, <1>7, <2>3, <3>1, <3>2, FullMeans
      <3> QED
        BY <1>2, <3>1, <3>3 DEF ClientHas
    <2>4. CASE ~t.stream
      <3>1. PICK b : b = EmitResponse(t.client, FullAnswer(t))
        OBVIOUS
      <3>2. B = <<b>>
        BY <2>1, <2>2, <2>4, <3>1 DEF Given
      <3>3. ReadBody(t.client, b) = Sayable(GistOf(t.answer.blocks, t.answer.stop))
        BY <1>1, <1>2, <1>7, <2>4, <3>1, FullBodyMeans
      <3>4. body # <<>> /\ body[1] = b
        BY <1>2, <1>6, <3>2
      <3> QED
        BY <1>2, <3>3, <3>4 DEF ClientHas
    <2> QED
      BY <2>3, <2>4
  <1>8. CASE ~t.buffered
    <2>1. Reading(t, read, decoder, encoder, usage, agg, F, B, log, z)
      BY <1>2, <1>8 DEF RelayInv
    <2>2. PICK run : run = RunOf(t)
      OBVIOUS
    <2>3. CASE t.stream
      <3>1. PICK k \in 0..n : Streaming(t, run[k].w, encoder, usage, F, B, log, z)
        BY <1>2, <2>1, <2>2, <2>3 DEF Reading
      <3>2. B = <<>> /\ Told(t.client, F, run[k].w)
        BY <3>1 DEF Streaming
      <3>3. HasEnd(t.client, F)
        <4>1. IsList(F)
          BY <3>2 DEF Told
        <4> QED
          BY <1>2, <1>5, <3>2, <4>1
      <3>4. ReadFrames(t.client, F) = Sayable(GistOf(t.answer.blocks, t.answer.stop))
        BY <1>1, <1>2, <1>8, <2>2, <2>3, <3>2, <3>3, StreamMeans
      <3> QED
        BY <1>2, <3>2, <3>4 DEF ClientHas
    <2>4. CASE ~t.stream
      <3>1. PICK k \in 0..n : /\ k = read \div 2 \/ (z = "eof" /\ k = (read \div 2) + 1)
                              /\ Gathering(t, run[k].w, F, B, log, z)
        BY <1>2, <2>1, <2>2, <2>4 DEF Reading
      <3>2. F = <<>> /\ (z # "eof" => B = <<>>)
        BY <3>1 DEF Gathering
      <3>3. ~ClientSeesEnd
        BY <1>4, <1>5, <3>2, ListEmpty
      <3>4. body # <<>> /\ AllRead
        BY <3>3
      <3>5. z = "eof" /\ read = 2 * n
        <4>1. HalfLines = 2 * n
          BY <1>2 DEF HalfLines
        <4> QED
          BY <1>2, <1>8, <3>2, <3>4, <4>1 DEF AllRead
      <3>6. k = n
        <4>1. read \div 2 = n
          BY <1>3, <3>5
        <4> QED
          BY <1>3, <3>1, <4>1
      <3>7. PICK a, b : a = run[n].w.agg /\ b = EmitResponse(t.client, IntoResponse(a))
        OBVIOUS
      <3>8. B = <<b>>
        BY <3>1, <3>5, <3>6, <3>7 DEF Gathering
      <3>9. ReadBody(t.client, b) = Sayable(GistOf(t.answer.blocks, t.answer.stop))
        BY <1>1, <1>2, <1>8, <2>2, <2>4, <3>7, GatheredMeans
      <3>10. body # <<>> /\ body[1] = b
        BY <1>2, <1>6, <3>8
      <3> QED
        BY <1>2, <3>9, <3>10 DEF ClientHas
    <2> QED
      BY <2>3, <2>4
  <1> QED
    BY <1>7, <1>8

\* A client that is told its answer is over, or is given one body for an
\* answer that was read to its end, has what the model said as far as its
\* dialect and the upstream's can say it, for every answer and wherever the
\* reads fell (decode_sse, Aggregator, encode_sse, emit_response).
THEOREM AnswerIsWhole == Spec => []EndMeansAll
  <1>1. Spec => []RelayInv
    BY TurnIsFollowed
  <1>2. RelayInv => EndMeansAll
    BY InvMeans
  <1> QED
    BY <1>1, <1>2, PTL

=============================================================================
