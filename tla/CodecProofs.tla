---------------------------- MODULE CodecProofs -----------------------------
(***************************************************************************)
(* Lemmas the theorems of RelayProofs rest on, for any answers: lists, the *)
(* decoders of an upstream's answer, what a client hears in the frames it  *)
(* is sent, and the encoders of Anthropic, Responses and Chat.             *)
(*                                                                         *)
(* A recursion over a stream is told as a run: states[i + 1] is what the   *)
(* code's step makes of states[i] and of the stream's i-th element, and    *)
(* lemmas (PushRun, MergeRun, DecodeRun, ...) equate its last state with   *)
(* what the model computes.                                                *)
(***************************************************************************)
EXTENDS Relay, FiniteSetTheorems, TLAPS

-----------------------------------------------------------------------------
(* Lists: sequences of whatever they hold                                  *)

IsList(s) == s \in Seq({s[i] : i \in DOMAIN s})

\* A list has a length and is a function on its positions.
LEMMA ListFacts ==
    ASSUME NEW s, IsList(s)
    PROVE  Len(s) \in Nat /\ DOMAIN s = 1..Len(s)
  BY DEF IsList

\* Every sequence over a set is a list.
LEMMA SeqIsList ==
    ASSUME NEW S, NEW s \in Seq(S)
    PROVE  IsList(s)
  BY DEF IsList

\* A function on 1..n is a list of length n.
LEMMA ListMake ==
    ASSUME NEW n \in Nat, NEW s, s = [i \in 1..n |-> s[i]]
    PROVE  IsList(s) /\ Len(s) = n
  <1>1. s \in [1..n -> {s[i] : i \in DOMAIN s}]
    OBVIOUS
  <1> QED
    BY <1>1 DEF IsList

\* Two lists that agree everywhere are equal.
LEMMA ListSame ==
    ASSUME NEW s, NEW t, IsList(s), IsList(t), Len(s) = Len(t),
           \A i \in 1..Len(s) : s[i] = t[i]
    PROVE  s = t
  <1> DEFINE S == {s[i] : i \in DOMAIN s} \cup {t[i] : i \in DOMAIN t}
  <1>1. s \in Seq(S) /\ t \in Seq(S)
    BY DEF IsList
  <1> HIDE DEF S
  <1> QED
    BY <1>1

\* The empty sequence is a list.
LEMMA ListEmpty == IsList(<<>>) /\ Len(<<>>) = 0
  BY DEF IsList

\* Lists of one element.
LEMMA ListOne ==
    ASSUME NEW x
    PROVE  IsList(<<x>>) /\ Len(<<x>>) = 1 /\ <<x>>[1] = x
  BY DEF IsList

\* Lists of two.
LEMMA ListTwo ==
    ASSUME NEW x, NEW y
    PROVE  IsList(<<x, y>>) /\ Len(<<x, y>>) = 2 /\ <<x, y>>[1] = x /\ <<x, y>>[2] = y
  BY DEF IsList

\* Only the empty list has length 0.
LEMMA ListNil ==
    ASSUME NEW s, IsList(s)
    PROVE  s = <<>> <=> Len(s) = 0
  BY DEF IsList

\* Appending keeps what was there and adds one element.
LEMMA ListAppend ==
    ASSUME NEW s, IsList(s), NEW x
    PROVE  /\ IsList(Append(s, x))
           /\ Len(Append(s, x)) = Len(s) + 1
           /\ \A i \in 1..Len(s) : Append(s, x)[i] = s[i]
           /\ Append(s, x)[Len(s) + 1] = x
  <1> DEFINE S == {s[i] : i \in DOMAIN s} \cup {x}
  <1>1. s \in Seq(S)
    BY DEF IsList
  <1>2. x \in S
    OBVIOUS
  <1> HIDE DEF S
  <1>3. Append(s, x) \in Seq(S)
    BY <1>1, <1>2
  <1>4. IsList(Append(s, x))
    BY <1>3, SeqIsList
  <1> QED
    BY <1>1, <1>2, <1>4

\* A concatenation has the first list's elements, then the second's.
LEMMA ListConcat ==
    ASSUME NEW s, NEW t, IsList(s), IsList(t)
    PROVE  /\ IsList(s \o t)
           /\ Len(s \o t) = Len(s) + Len(t)
           /\ \A i \in 1..Len(s) : (s \o t)[i] = s[i]
           /\ \A i \in 1..Len(t) : (s \o t)[Len(s) + i] = t[i]
  <1> DEFINE S == {s[i] : i \in DOMAIN s} \cup {t[i] : i \in DOMAIN t}
  <1>1. s \in Seq(S) /\ t \in Seq(S)
    BY DEF IsList
  <1> HIDE DEF S
  <1>2. s \o t \in Seq(S)
    BY <1>1
  <1>3. IsList(s \o t)
    BY <1>2, SeqIsList
  <1> QED
    BY <1>1, <1>3

\* The empty list is neutral.
LEMMA ConcatNil ==
    ASSUME NEW s, IsList(s)
    PROVE  s \o <<>> = s /\ <<>> \o s = s
  BY DEF IsList

\* Concatenation is associative.
LEMMA ConcatAssoc ==
    ASSUME NEW s, NEW t, NEW u, IsList(s), IsList(t), IsList(u)
    PROVE  (s \o t) \o u = s \o (t \o u)
  <1> DEFINE S == {s[i] : i \in DOMAIN s} \cup {t[i] : i \in DOMAIN t} \cup {u[i] : i \in DOMAIN u}
  <1>1. s \in Seq(S) /\ t \in Seq(S) /\ u \in Seq(S)
    BY DEF IsList
  <1> HIDE DEF S
  <1> QED
    BY <1>1

\* Appending and concatenating agree.
LEMMA ConcatAppend ==
    ASSUME NEW s, NEW t, IsList(s), IsList(t), NEW x
    PROVE  /\ s \o Append(t, x) = Append(s \o t, x)
           /\ Append(s, x) = s \o <<x>>
  <1> DEFINE S == {s[i] : i \in DOMAIN s} \cup {t[i] : i \in DOMAIN t} \cup {x}
  <1>1. s \in Seq(S) /\ t \in Seq(S) /\ x \in S
    BY DEF IsList
  <1> HIDE DEF S
  <1> QED
    BY <1>1

-----------------------------------------------------------------------------
(* Induction up to a number                                                *)

\* A set that holds 0, and k whenever it holds k - 1, holds 0..n.
LEMMA UpTo ==
    ASSUME NEW n \in Nat, NEW S, 0 \in S, \A k \in 1..n : k - 1 \in S => k \in S
    PROVE  \A k \in 0..n : k \in S
  <1> DEFINE T == {k \in 0..n : k \notin S}
  <1>1. ASSUME T # {} PROVE FALSE
    <2>1. IsWellFoundedOn(OpToRel(<, Nat), Nat)
      BY NatLessThanWellFounded
    <2>2. T \subseteq Nat
      OBVIOUS
    <2>3. PICK x \in T : \A y \in T : ~(<<y, x>> \in OpToRel(<, Nat))
      BY <1>1, <2>1, <2>2, WFMin
    <2>4. x # 0 /\ x \in 1..n /\ x - 1 \in 0..n /\ x - 1 < x
      OBVIOUS
    <2>5. x - 1 \notin T
      BY <2>2, <2>3, <2>4 DEF OpToRel
    <2> QED
      BY <2>4, <2>5
  <1> QED
    BY <1>1

-----------------------------------------------------------------------------
(* The folds of the code, step by step                                     *)

\* Aggregator::push_all pushes the events one after the other.
LEMMA PushRun ==
    ASSUME NEW a, NEW events, IsList(events)
    PROVE  \E run : /\ run[0] = a
                    /\ \A k \in 1..Len(events) : run[k] = Push(run[k - 1], events[k])
                    /\ PushAll(a, events) = run[Len(events)]
  <1> DEFINE n == Len(events)
             S == {m \in 0..n : \E g : g = [k \in 0..m |-> IF k = 0 THEN a ELSE Push(g[k - 1], events[k])]}
  <1>0. n \in Nat
    BY ListFacts
  <1>1. 0 \in S
    <2>1. PICK g : g = [k \in 0..0 |-> a]
      OBVIOUS
    <2>2. g = [k \in 0..0 |-> IF k = 0 THEN a ELSE Push(g[k - 1], events[k])]
      BY <2>1
    <2> QED
      BY <1>0, <2>2
  <1>2. ASSUME NEW m \in 1..n, m - 1 \in S PROVE m \in S
    <2>1. PICK g : g = [k \in 0..(m - 1) |-> IF k = 0 THEN a ELSE Push(g[k - 1], events[k])]
      BY <1>2
    <2>2. PICK h : h = [k \in 0..m |-> IF k = m THEN Push(g[k - 1], events[k]) ELSE g[k]]
      OBVIOUS
    <2>3. ASSUME NEW k \in 0..m PROVE h[k] = IF k = 0 THEN a ELSE Push(h[k - 1], events[k])
      <3>1. CASE k = m
        <4>1. m - 1 \in 0..m /\ m # 0 /\ m - 1 # m
          BY <1>0
        <4>2. h[m - 1] = g[m - 1]
          BY <2>2, <4>1
        <4> QED
          BY <2>2, <3>1, <4>1, <4>2
      <3>2. CASE k # m
        <4>1. k \in 0..(m - 1)
          BY <1>0, <3>2
        <4>2. h[k] = g[k]
          BY <2>2, <3>2
        <4>3. k # 0 => k - 1 \in 0..m /\ k - 1 # m /\ h[k - 1] = g[k - 1]
          BY <2>2, <4>1
        <4> QED
          BY <2>1, <4>1, <4>2, <4>3
      <3> QED
        BY <3>1, <3>2
    <2>4. h = [k \in 0..m |-> IF k = 0 THEN a ELSE Push(h[k - 1], events[k])]
      BY <2>2, <2>3
    <2> QED
      BY <2>4
  <1>3. n \in S
    <2>1. \A k \in 0..n : k \in S
      <3> HIDE DEF S
      <3> QED
        BY <1>0, <1>1, <1>2, UpTo
    <2> QED
      BY <1>0, <2>1
  <1>4. \E g : g = [k \in 0..n |-> IF k = 0 THEN a ELSE Push(g[k - 1], events[k])]
    BY <1>3
  <1>5. PICK r : r = CHOOSE g : g = [k \in 0..n |-> IF k = 0 THEN a ELSE Push(g[k - 1], events[k])]
    OBVIOUS
  <1>6. r = [k \in 0..n |-> IF k = 0 THEN a ELSE Push(r[k - 1], events[k])]
    BY <1>4, <1>5
  <1>7. PushAll(a, events) = r[n]
    BY <1>5 DEF PushAll
  <1>8. r[0] = a /\ \A k \in 1..n : r[k] = Push(r[k - 1], events[k])
    BY <1>0, <1>6
  <1> QED
    BY <1>7, <1>8

\* The loop of merge_usage.
LEMMA MergeRun ==
    ASSUME NEW u, NEW events, IsList(events)
    PROVE  \E run : /\ run[0] = u
                    /\ \A k \in 1..Len(events) : run[k] = (IF events[k].ev = "usage_delta" THEN Merge(run[k - 1], events[k].usage) ELSE run[k - 1])
                    /\ MergeUsage(u, events) = run[Len(events)]
  <1> DEFINE n == Len(events)
             S == {m \in 0..n : \E g : g = [k \in 0..m |-> IF k = 0 THEN u ELSE (IF events[k].ev = "usage_delta" THEN Merge(g[k - 1], events[k].usage) ELSE g[k - 1])]}
  <1>0. n \in Nat
    BY ListFacts
  <1>1. 0 \in S
    <2>1. PICK g : g = [k \in 0..0 |-> u]
      OBVIOUS
    <2>2. g = [k \in 0..0 |-> IF k = 0 THEN u ELSE (IF events[k].ev = "usage_delta" THEN Merge(g[k - 1], events[k].usage) ELSE g[k - 1])]
      BY <2>1
    <2> QED
      BY <1>0, <2>2
  <1>2. ASSUME NEW m \in 1..n, m - 1 \in S PROVE m \in S
    <2>1. PICK g : g = [k \in 0..(m - 1) |-> IF k = 0 THEN u ELSE (IF events[k].ev = "usage_delta" THEN Merge(g[k - 1], events[k].usage) ELSE g[k - 1])]
      BY <1>2
    <2>2. PICK h : h = [k \in 0..m |-> IF k = m THEN (IF events[k].ev = "usage_delta" THEN Merge(g[k - 1], events[k].usage) ELSE g[k - 1]) ELSE g[k]]
      OBVIOUS
    <2>3. ASSUME NEW k \in 0..m PROVE h[k] = IF k = 0 THEN u ELSE (IF events[k].ev = "usage_delta" THEN Merge(h[k - 1], events[k].usage) ELSE h[k - 1])
      <3>1. CASE k = m
        <4>1. m - 1 \in 0..m /\ m # 0 /\ m - 1 # m
          BY <1>0
        <4>2. h[m - 1] = g[m - 1]
          BY <2>2, <4>1
        <4> QED
          BY <2>2, <3>1, <4>1, <4>2
      <3>2. CASE k # m
        <4>1. k \in 0..(m - 1)
          BY <1>0, <3>2
        <4>2. h[k] = g[k]
          BY <2>2, <3>2
        <4>3. k # 0 => k - 1 \in 0..m /\ k - 1 # m /\ h[k - 1] = g[k - 1]
          BY <2>2, <4>1
        <4> QED
          BY <2>1, <4>1, <4>2, <4>3
      <3> QED
        BY <3>1, <3>2
    <2>4. h = [k \in 0..m |-> IF k = 0 THEN u ELSE (IF events[k].ev = "usage_delta" THEN Merge(h[k - 1], events[k].usage) ELSE h[k - 1])]
      BY <2>2, <2>3
    <2> QED
      BY <2>4
  <1>3. n \in S
    <2>1. \A k \in 0..n : k \in S
      <3> HIDE DEF S
      <3> QED
        BY <1>0, <1>1, <1>2, UpTo
    <2> QED
      BY <1>0, <2>1
  <1>4. \E g : g = [k \in 0..n |-> IF k = 0 THEN u ELSE (IF events[k].ev = "usage_delta" THEN Merge(g[k - 1], events[k].usage) ELSE g[k - 1])]
    BY <1>3
  <1>5. PICK r : r = CHOOSE g : g = [k \in 0..n |-> IF k = 0 THEN u ELSE (IF events[k].ev = "usage_delta" THEN Merge(g[k - 1], events[k].usage) ELSE g[k - 1])]
    OBVIOUS
  <1>6. r = [k \in 0..n |-> IF k = 0 THEN u ELSE (IF events[k].ev = "usage_delta" THEN Merge(r[k - 1], events[k].usage) ELSE r[k - 1])]
    BY <1>4, <1>5
  <1>7. MergeUsage(u, events) = r[n]
    BY <1>5 DEF MergeUsage
  <1>8. r[0] = u /\ \A k \in 1..n : r[k] = (IF events[k].ev = "usage_delta" THEN Merge(r[k - 1], events[k].usage) ELSE r[k - 1])
    BY <1>0, <1>6
  <1> QED
    BY <1>7, <1>8

DecodeMore(up, before, line) ==
  LET d == DecodeLine(up, line, before.st) IN Decoded(d.st, before.events \o d.events)

\* The loop over the lines of a read.
LEMMA DecodeRun ==
    ASSUME NEW up, NEW st, NEW lines, IsList(lines)
    PROVE  \E run : /\ run[0] = Decoded(st, <<>>)
                    /\ \A k \in 1..Len(lines) : run[k] = DecodeMore(up, run[k - 1], lines[k])
                    /\ DecodeLines(up, lines, st) = run[Len(lines)]
  <1> DEFINE n == Len(lines)
             S == {m \in 0..n : \E g : g = [k \in 0..m |-> IF k = 0 THEN Decoded(st, <<>>) ELSE DecodeMore(up, g[k - 1], lines[k])]}
  <1>0. n \in Nat
    BY ListFacts
  <1>1. 0 \in S
    <2>1. PICK g : g = [k \in 0..0 |-> Decoded(st, <<>>)]
      OBVIOUS
    <2>2. g = [k \in 0..0 |-> IF k = 0 THEN Decoded(st, <<>>) ELSE DecodeMore(up, g[k - 1], lines[k])]
      BY <2>1
    <2> QED
      BY <1>0, <2>2
  <1>2. ASSUME NEW m \in 1..n, m - 1 \in S PROVE m \in S
    <2>1. PICK g : g = [k \in 0..(m - 1) |-> IF k = 0 THEN Decoded(st, <<>>) ELSE DecodeMore(up, g[k - 1], lines[k])]
      BY <1>2
    <2>2. PICK h : h = [k \in 0..m |-> IF k = m THEN DecodeMore(up, g[k - 1], lines[k]) ELSE g[k]]
      OBVIOUS
    <2>3. ASSUME NEW k \in 0..m PROVE h[k] = IF k = 0 THEN Decoded(st, <<>>) ELSE DecodeMore(up, h[k - 1], lines[k])
      <3>1. CASE k = m
        <4>1. m - 1 \in 0..m /\ m # 0 /\ m - 1 # m
          BY <1>0
        <4>2. h[m - 1] = g[m - 1]
          BY <2>2, <4>1
        <4> QED
          BY <2>2, <3>1, <4>1, <4>2
      <3>2. CASE k # m
        <4>1. k \in 0..(m - 1)
          BY <1>0, <3>2
        <4>2. h[k] = g[k]
          BY <2>2, <3>2
        <4>3. k # 0 => k - 1 \in 0..m /\ k - 1 # m /\ h[k - 1] = g[k - 1]
          BY <2>2, <4>1
        <4> QED
          BY <2>1, <4>1, <4>2, <4>3
      <3> QED
        BY <3>1, <3>2
    <2>4. h = [k \in 0..m |-> IF k = 0 THEN Decoded(st, <<>>) ELSE DecodeMore(up, h[k - 1], lines[k])]
      BY <2>2, <2>3
    <2> QED
      BY <2>4
  <1>3. n \in S
    <2>1. \A k \in 0..n : k \in S
      <3> HIDE DEF S
      <3> QED
        BY <1>0, <1>1, <1>2, UpTo
    <2> QED
      BY <1>0, <2>1
  <1>4. \E g : g = [k \in 0..n |-> IF k = 0 THEN Decoded(st, <<>>) ELSE DecodeMore(up, g[k - 1], lines[k])]
    BY <1>3
  <1>5. PICK r : r = CHOOSE g : g = [k \in 0..n |-> IF k = 0 THEN Decoded(st, <<>>) ELSE DecodeMore(up, g[k - 1], lines[k])]
    OBVIOUS
  <1>6. r = [k \in 0..n |-> IF k = 0 THEN Decoded(st, <<>>) ELSE DecodeMore(up, r[k - 1], lines[k])]
    BY <1>4, <1>5
  <1>7. DecodeLines(up, lines, st) = r[n]
    BY <1>5 DEF DecodeLines, DecodeMore
  <1>8. r[0] = Decoded(st, <<>>) /\ \A k \in 1..n : r[k] = DecodeMore(up, r[k - 1], lines[k])
    BY <1>0, <1>6
  <1> QED
    BY <1>7, <1>8

\* Encoder::encode, event by event.
LEMMA EncodeRun ==
    ASSUME NEW c, NEW s, NEW events, IsList(events)
    PROVE  \E run : /\ run[0] = [s EXCEPT !.out = <<>>]
                    /\ \A k \in 1..Len(events) : run[k] = EncodeEvent(c, run[k - 1], events[k])
                    /\ Encode(c, events, s) = run[Len(events)]
  <1> DEFINE n == Len(events)
             S == {m \in 0..n : \E g : g = [k \in 0..m |-> IF k = 0 THEN [s EXCEPT !.out = <<>>] ELSE EncodeEvent(c, g[k - 1], events[k])]}
  <1>0. n \in Nat
    BY ListFacts
  <1>1. 0 \in S
    <2>1. PICK g : g = [k \in 0..0 |-> [s EXCEPT !.out = <<>>]]
      OBVIOUS
    <2>2. g = [k \in 0..0 |-> IF k = 0 THEN [s EXCEPT !.out = <<>>] ELSE EncodeEvent(c, g[k - 1], events[k])]
      BY <2>1
    <2> QED
      BY <1>0, <2>2
  <1>2. ASSUME NEW m \in 1..n, m - 1 \in S PROVE m \in S
    <2>1. PICK g : g = [k \in 0..(m - 1) |-> IF k = 0 THEN [s EXCEPT !.out = <<>>] ELSE EncodeEvent(c, g[k - 1], events[k])]
      BY <1>2
    <2>2. PICK h : h = [k \in 0..m |-> IF k = m THEN EncodeEvent(c, g[k - 1], events[k]) ELSE g[k]]
      OBVIOUS
    <2>3. ASSUME NEW k \in 0..m PROVE h[k] = IF k = 0 THEN [s EXCEPT !.out = <<>>] ELSE EncodeEvent(c, h[k - 1], events[k])
      <3>1. CASE k = m
        <4>1. m - 1 \in 0..m /\ m # 0 /\ m - 1 # m
          BY <1>0
        <4>2. h[m - 1] = g[m - 1]
          BY <2>2, <4>1
        <4> QED
          BY <2>2, <3>1, <4>1, <4>2
      <3>2. CASE k # m
        <4>1. k \in 0..(m - 1)
          BY <1>0, <3>2
        <4>2. h[k] = g[k]
          BY <2>2, <3>2
        <4>3. k # 0 => k - 1 \in 0..m /\ k - 1 # m /\ h[k - 1] = g[k - 1]
          BY <2>2, <4>1
        <4> QED
          BY <2>1, <4>1, <4>2, <4>3
      <3> QED
        BY <3>1, <3>2
    <2>4. h = [k \in 0..m |-> IF k = 0 THEN [s EXCEPT !.out = <<>>] ELSE EncodeEvent(c, h[k - 1], events[k])]
      BY <2>2, <2>3
    <2> QED
      BY <2>4
  <1>3. n \in S
    <2>1. \A k \in 0..n : k \in S
      <3> HIDE DEF S
      <3> QED
        BY <1>0, <1>1, <1>2, UpTo
    <2> QED
      BY <1>0, <2>1
  <1>4. \E g : g = [k \in 0..n |-> IF k = 0 THEN [s EXCEPT !.out = <<>>] ELSE EncodeEvent(c, g[k - 1], events[k])]
    BY <1>3
  <1>5. PICK r : r = CHOOSE g : g = [k \in 0..n |-> IF k = 0 THEN [s EXCEPT !.out = <<>>] ELSE EncodeEvent(c, g[k - 1], events[k])]
    OBVIOUS
  <1>6. r = [k \in 0..n |-> IF k = 0 THEN [s EXCEPT !.out = <<>>] ELSE EncodeEvent(c, r[k - 1], events[k])]
    BY <1>4, <1>5
  <1>7. Encode(c, events, s) = r[n]
    BY <1>5 DEF Encode
  <1>8. r[0] = [s EXCEPT !.out = <<>>] /\ \A k \in 1..n : r[k] = EncodeEvent(c, r[k - 1], events[k])
    BY <1>0, <1>6
  <1> QED
    BY <1>7, <1>8

\* A client reads frame by frame.
LEMMA HearRun ==
    ASSUME NEW c, NEW frames, IsList(frames)
    PROVE  \E run : /\ run[0] = NewReader
                    /\ \A k \in 1..Len(frames) : run[k] = Hear(c, run[k - 1], frames[k])
                    /\ Heard(c, frames) = run[Len(frames)]
  <1> DEFINE n == Len(frames)
             S == {m \in 0..n : \E g : g = [k \in 0..m |-> IF k = 0 THEN NewReader ELSE Hear(c, g[k - 1], frames[k])]}
  <1>0. n \in Nat
    BY ListFacts
  <1>1. 0 \in S
    <2>1. PICK g : g = [k \in 0..0 |-> NewReader]
      OBVIOUS
    <2>2. g = [k \in 0..0 |-> IF k = 0 THEN NewReader ELSE Hear(c, g[k - 1], frames[k])]
      BY <2>1
    <2> QED
      BY <1>0, <2>2
  <1>2. ASSUME NEW m \in 1..n, m - 1 \in S PROVE m \in S
    <2>1. PICK g : g = [k \in 0..(m - 1) |-> IF k = 0 THEN NewReader ELSE Hear(c, g[k - 1], frames[k])]
      BY <1>2
    <2>2. PICK h : h = [k \in 0..m |-> IF k = m THEN Hear(c, g[k - 1], frames[k]) ELSE g[k]]
      OBVIOUS
    <2>3. ASSUME NEW k \in 0..m PROVE h[k] = IF k = 0 THEN NewReader ELSE Hear(c, h[k - 1], frames[k])
      <3>1. CASE k = m
        <4>1. m - 1 \in 0..m /\ m # 0 /\ m - 1 # m
          BY <1>0
        <4>2. h[m - 1] = g[m - 1]
          BY <2>2, <4>1
        <4> QED
          BY <2>2, <3>1, <4>1, <4>2
      <3>2. CASE k # m
        <4>1. k \in 0..(m - 1)
          BY <1>0, <3>2
        <4>2. h[k] = g[k]
          BY <2>2, <3>2
        <4>3. k # 0 => k - 1 \in 0..m /\ k - 1 # m /\ h[k - 1] = g[k - 1]
          BY <2>2, <4>1
        <4> QED
          BY <2>1, <4>1, <4>2, <4>3
      <3> QED
        BY <3>1, <3>2
    <2>4. h = [k \in 0..m |-> IF k = 0 THEN NewReader ELSE Hear(c, h[k - 1], frames[k])]
      BY <2>2, <2>3
    <2> QED
      BY <2>4
  <1>3. n \in S
    <2>1. \A k \in 0..n : k \in S
      <3> HIDE DEF S
      <3> QED
        BY <1>0, <1>1, <1>2, UpTo
    <2> QED
      BY <1>0, <2>1
  <1>4. \E g : g = [k \in 0..n |-> IF k = 0 THEN NewReader ELSE Hear(c, g[k - 1], frames[k])]
    BY <1>3
  <1>5. PICK r : r = CHOOSE g : g = [k \in 0..n |-> IF k = 0 THEN NewReader ELSE Hear(c, g[k - 1], frames[k])]
    OBVIOUS
  <1>6. r = [k \in 0..n |-> IF k = 0 THEN NewReader ELSE Hear(c, r[k - 1], frames[k])]
    BY <1>4, <1>5
  <1>7. Heard(c, frames) = r[n]
    BY <1>5 DEF Heard
  <1>8. r[0] = NewReader /\ \A k \in 1..n : r[k] = Hear(c, r[k - 1], frames[k])
    BY <1>0, <1>6
  <1> QED
    BY <1>7, <1>8

\* The blocks of a Responses body, one after the other.
LEMMA OutputRun ==
    ASSUME NEW content, IsList(content)
    PROVE  \E run : /\ run[0] = [output |-> <<>>, parts |-> <<>>]
                    /\ \A k \in 1..Len(content) : run[k] = OutputBlock(run[k - 1], content[k])
                    /\ Outputs(content) = run[Len(content)]
  <1> DEFINE n == Len(content)
             S == {m \in 0..n : \E g : g = [k \in 0..m |-> IF k = 0 THEN [output |-> <<>>, parts |-> <<>>] ELSE OutputBlock(g[k - 1], content[k])]}
  <1>0. n \in Nat
    BY ListFacts
  <1>1. 0 \in S
    <2>1. PICK g : g = [k \in 0..0 |-> [output |-> <<>>, parts |-> <<>>]]
      OBVIOUS
    <2>2. g = [k \in 0..0 |-> IF k = 0 THEN [output |-> <<>>, parts |-> <<>>] ELSE OutputBlock(g[k - 1], content[k])]
      BY <2>1
    <2> QED
      BY <1>0, <2>2
  <1>2. ASSUME NEW m \in 1..n, m - 1 \in S PROVE m \in S
    <2>1. PICK g : g = [k \in 0..(m - 1) |-> IF k = 0 THEN [output |-> <<>>, parts |-> <<>>] ELSE OutputBlock(g[k - 1], content[k])]
      BY <1>2
    <2>2. PICK h : h = [k \in 0..m |-> IF k = m THEN OutputBlock(g[k - 1], content[k]) ELSE g[k]]
      OBVIOUS
    <2>3. ASSUME NEW k \in 0..m PROVE h[k] = IF k = 0 THEN [output |-> <<>>, parts |-> <<>>] ELSE OutputBlock(h[k - 1], content[k])
      <3>1. CASE k = m
        <4>1. m - 1 \in 0..m /\ m # 0 /\ m - 1 # m
          BY <1>0
        <4>2. h[m - 1] = g[m - 1]
          BY <2>2, <4>1
        <4> QED
          BY <2>2, <3>1, <4>1, <4>2
      <3>2. CASE k # m
        <4>1. k \in 0..(m - 1)
          BY <1>0, <3>2
        <4>2. h[k] = g[k]
          BY <2>2, <3>2
        <4>3. k # 0 => k - 1 \in 0..m /\ k - 1 # m /\ h[k - 1] = g[k - 1]
          BY <2>2, <4>1
        <4> QED
          BY <2>1, <4>1, <4>2, <4>3
      <3> QED
        BY <3>1, <3>2
    <2>4. h = [k \in 0..m |-> IF k = 0 THEN [output |-> <<>>, parts |-> <<>>] ELSE OutputBlock(h[k - 1], content[k])]
      BY <2>2, <2>3
    <2> QED
      BY <2>4
  <1>3. n \in S
    <2>1. \A k \in 0..n : k \in S
      <3> HIDE DEF S
      <3> QED
        BY <1>0, <1>1, <1>2, UpTo
    <2> QED
      BY <1>0, <2>1
  <1>4. \E g : g = [k \in 0..n |-> IF k = 0 THEN [output |-> <<>>, parts |-> <<>>] ELSE OutputBlock(g[k - 1], content[k])]
    BY <1>3
  <1>5. PICK r : r = CHOOSE g : g = [k \in 0..n |-> IF k = 0 THEN [output |-> <<>>, parts |-> <<>>] ELSE OutputBlock(g[k - 1], content[k])]
    OBVIOUS
  <1>6. r = [k \in 0..n |-> IF k = 0 THEN [output |-> <<>>, parts |-> <<>>] ELSE OutputBlock(r[k - 1], content[k])]
    BY <1>4, <1>5
  <1>7. Outputs(content) = r[n]
    BY <1>5 DEF Outputs
  <1>8. r[0] = [output |-> <<>>, parts |-> <<>>] /\ \A k \in 1..n : r[k] = OutputBlock(r[k - 1], content[k])
    BY <1>0, <1>6
  <1> QED
    BY <1>7, <1>8

\* The same fold for FlattenSeq, from the empty sequence.
Join(s, t) == s \o t
Joined(ss) ==
  LET joined[k \in 0..Len(ss)] == IF k = 0 THEN <<>> ELSE Join(joined[k - 1], ss[k])
  IN  joined[Len(ss)]

\* Joined adds one sequence at a time.
LEMMA JoinRun ==
    ASSUME NEW ss, IsList(ss)
    PROVE  \E run : /\ run[0] = <<>>
                    /\ \A k \in 1..Len(ss) : run[k] = Join(run[k - 1], ss[k])
                    /\ Joined(ss) = run[Len(ss)]
  <1> DEFINE n == Len(ss)
             S == {m \in 0..n : \E g : g = [k \in 0..m |-> IF k = 0 THEN <<>> ELSE Join(g[k - 1], ss[k])]}
  <1>0. n \in Nat
    BY ListFacts
  <1>1. 0 \in S
    <2>1. PICK g : g = [k \in 0..0 |-> <<>>]
      OBVIOUS
    <2>2. g = [k \in 0..0 |-> IF k = 0 THEN <<>> ELSE Join(g[k - 1], ss[k])]
      BY <2>1
    <2> QED
      BY <1>0, <2>2
  <1>2. ASSUME NEW m \in 1..n, m - 1 \in S PROVE m \in S
    <2>1. PICK g : g = [k \in 0..(m - 1) |-> IF k = 0 THEN <<>> ELSE Join(g[k - 1], ss[k])]
      BY <1>2
    <2>2. PICK h : h = [k \in 0..m |-> IF k = m THEN Join(g[k - 1], ss[k]) ELSE g[k]]
      OBVIOUS
    <2>3. ASSUME NEW k \in 0..m PROVE h[k] = IF k = 0 THEN <<>> ELSE Join(h[k - 1], ss[k])
      <3>1. CASE k = m
        <4>1. m - 1 \in 0..m /\ m # 0 /\ m - 1 # m
          BY <1>0
        <4>2. h[m - 1] = g[m - 1]
          BY <2>2, <4>1
        <4> QED
          BY <2>2, <3>1, <4>1, <4>2
      <3>2. CASE k # m
        <4>1. k \in 0..(m - 1)
          BY <1>0, <3>2
        <4>2. h[k] = g[k]
          BY <2>2, <3>2
        <4>3. k # 0 => k - 1 \in 0..m /\ k - 1 # m /\ h[k - 1] = g[k - 1]
          BY <2>2, <4>1
        <4> QED
          BY <2>1, <4>1, <4>2, <4>3
      <3> QED
        BY <3>1, <3>2
    <2>4. h = [k \in 0..m |-> IF k = 0 THEN <<>> ELSE Join(h[k - 1], ss[k])]
      BY <2>2, <2>3
    <2> QED
      BY <2>4
  <1>3. n \in S
    <2>1. \A k \in 0..n : k \in S
      <3> HIDE DEF S
      <3> QED
        BY <1>0, <1>1, <1>2, UpTo
    <2> QED
      BY <1>0, <2>1
  <1>4. \E g : g = [k \in 0..n |-> IF k = 0 THEN <<>> ELSE Join(g[k - 1], ss[k])]
    BY <1>3
  <1>5. PICK r : r = CHOOSE g : g = [k \in 0..n |-> IF k = 0 THEN <<>> ELSE Join(g[k - 1], ss[k])]
    OBVIOUS
  <1>6. r = [k \in 0..n |-> IF k = 0 THEN <<>> ELSE Join(r[k - 1], ss[k])]
    BY <1>4, <1>5
  <1>7. Joined(ss) = r[n]
    BY <1>5 DEF Joined
  <1>8. r[0] = <<>> /\ \A k \in 1..n : r[k] = Join(r[k - 1], ss[k])
    BY <1>0, <1>6
  <1> QED
    BY <1>7, <1>8

\* Flattening adds one sequence at a time, and makes a list of lists.
LEMMA FlatRun ==
    ASSUME NEW ss, IsList(ss), \A k \in 1..Len(ss) : IsList(ss[k])
    PROVE  \E run : /\ run[0] = <<>>
                    /\ \A k \in 1..Len(ss) : run[k] = run[k - 1] \o ss[k]
                    /\ \A k \in 0..Len(ss) : IsList(run[k])
                    /\ FlattenSeq(ss) = run[Len(ss)]
  <1> DEFINE n == Len(ss)
  <1>0. n \in Nat
    BY ListFacts
  <1>1. PICK run : run[0] = <<>> /\ \A k \in 1..n : run[k] = Join(run[k - 1], ss[k])
    BY JoinRun
  <1>2. \A k \in 0..n : IsList(run[k])
    <2> DEFINE S == {k \in 0..n : IsList(run[k])}
    <2>1. 0 \in S
      BY <1>0, <1>1, ListEmpty
    <2>2. ASSUME NEW k \in 1..n, k - 1 \in S PROVE k \in S
      <3>1. IsList(run[k - 1]) /\ IsList(ss[k])
        BY <2>2
      <3>2. IsList(Join(run[k - 1], ss[k]))
        BY <3>1, ListConcat DEF Join
      <3> QED
        BY <1>1, <3>2
    <2>3. \A k \in 0..n : k \in S
      <3> HIDE DEF S
      <3> QED
        BY <1>0, <2>1, <2>2, UpTo
    <2> QED
      BY <2>3
  <1>3. CASE n = 0
    <2>1. ss = <<>>
      BY <1>3, ListNil
    <2>2. FlattenSeq(ss) = <<>>
      BY <1>3, <2>1 DEF FlattenSeq
    <2> QED
      BY <1>1, <1>2, <1>3, <2>2, Zenon DEF Join
  <1>4. CASE n # 0
    <2>1. PICK f : f = [k \in 1..n |-> run[k]]
      OBVIOUS
    <2>2. f = [k \in 1..n |-> IF k = 1 THEN ss[k] ELSE Join(f[k - 1], ss[k])]
      <3>1. ASSUME NEW k \in 1..n PROVE f[k] = IF k = 1 THEN ss[k] ELSE Join(f[k - 1], ss[k])
        <4>1. CASE k = 1
          <5>1. run[1] = Join(<<>>, ss[1]) /\ IsList(ss[1])
            BY <1>1, <4>1
          <5> QED
            BY <2>1, <4>1, <5>1, ConcatNil DEF Join
        <4>2. CASE k # 1
          <5>1. k - 1 \in 1..n
            BY <1>0, <4>2
          <5> QED
            BY <1>1, <2>1, <4>2, <5>1
        <4> QED
          BY <4>1, <4>2
      <3> QED
        BY <2>1, <3>1
    <2>3. PICK r : r = CHOOSE g : g = [k \in 1..n |-> IF k = 1 THEN ss[k] ELSE Join(g[k - 1], ss[k])]
      OBVIOUS
    <2>4. r = [k \in 1..n |-> IF k = 1 THEN ss[k] ELSE Join(r[k - 1], ss[k])]
      BY <2>2, <2>3
    <2>5. FlattenSeq(ss) = r[n]
      BY <1>4, <2>3 DEF FlattenSeq, Join
    <2> DEFINE S == {k \in 0..n : k = 0 \/ r[k] = f[k]}
    <2>6. 0 \in S
      BY <1>0
    <2>7. ASSUME NEW k \in 1..n, k - 1 \in S PROVE k \in S
      <3>1. CASE k = 1
        BY <2>2, <2>4, <3>1
      <3>2. CASE k # 1
        <4>1. k - 1 \in 1..n /\ k - 1 # 0
          BY <1>0, <3>2
        <4>2. r[k - 1] = f[k - 1]
          BY <2>7, <4>1
        <4>3. r[k] = Join(r[k - 1], ss[k]) /\ f[k] = Join(f[k - 1], ss[k])
          BY <2>2, <2>4, <3>2
        <4> QED
          BY <4>2, <4>3
      <3> QED
        BY <3>1, <3>2
    <2>8. \A k \in 0..n : k \in S
      <3> HIDE DEF S
      <3> QED
        BY <1>0, <2>6, <2>7, UpTo
    <2>9. n \in 1..n /\ n \in 0..n
      BY <1>0, <1>4
    <2>10. r[n] = run[n]
      BY <1>4, <2>1, <2>8, <2>9
    <2> QED
      BY <1>1, <1>2, <2>5, <2>10, Zenon DEF Join
  <1> QED
    BY <1>3, <1>4

-----------------------------------------------------------------------------
(* Walks: how far a stream of events has come                              *)

\* What a text is made of, with the words the code puts there itself.
Strings == STRING \cup {"}", "{}", ""} \cup StopReasons
Tokens == [input : Nat, output : Nat, cached : Nat]
Tools == [id : Strings, name : Strings, json : Seq(Strings)]
Aggregators == [text : Seq(Strings), thinking : Seq(Strings), tools : Seq(Tools),
                usage : Tokens, stop : Seq(Strings)]
Events == [ev : {"message_start"}]
            \cup [ev : {"text_delta", "thinking_delta"}, text : Seq(Strings)]
            \cup [ev : {"tool_use_start"}, id : Strings, name : Strings]
            \cup [ev : {"tool_use_delta"}, json : Seq(Strings)]
            \cup [ev : {"usage_delta"}, usage : Tokens]
            \cup [ev : {"done"}, stop : Strings]

\* Where a stream is: not begun, in its content (the last of it a call or
\* not), or done; whether usage was reported; and what it amounts to.
Stages == {"none", "open", "call", "over"}
Points == [stage : Stages, seen : BOOLEAN, agg : Aggregators]
Outset == [stage |-> "none", seen |-> FALSE, agg |-> NewAggregator]

\* The events that may come at a point.
Legal(w, e) ==
  /\ e \in Events
  /\ CASE e.ev = "message_start" -> w.stage = "none"
       [] e.ev \in {"text_delta", "thinking_delta", "tool_use_start", "done"} ->
            w.stage \in {"open", "call"}
       [] e.ev = "tool_use_delta" -> w.stage = "call"
       [] e.ev = "usage_delta" -> w.stage # "none"

StageAfter(stage, e) ==
  CASE e.ev \in {"message_start", "text_delta", "thinking_delta"} -> "open"
    [] e.ev \in {"tool_use_start", "tool_use_delta"} -> "call"
    [] e.ev = "usage_delta" -> stage
    [] e.ev = "done" -> "over"

After(w, e) ==
  [stage |-> StageAfter(w.stage, e), seen |-> w.seen \/ e.ev = "usage_delta",
   agg |-> Push(w.agg, e)]

\* The events, each legal where it comes, lead from w to x along `run`.
WalksBy(events, w, x, run) ==
  /\ run[0] = w /\ run[Len(events)] = x
  /\ \A k \in 0..Len(events) : run[k] \in Points
  /\ \A k \in 1..Len(events) : Legal(run[k - 1], events[k]) /\ run[k] = After(run[k - 1], events[k])
Walks(events, w, x) == IsList(events) /\ \E run : WalksBy(events, w, x, run)

\* The counts of a merge are counts.
LEMMA MergeTyped ==
    ASSUME NEW u \in Tokens, NEW v \in Tokens
    PROVE  Merge(u, v) \in Tokens
  BY DEF Merge, Larger, Tokens

\* Aggregator::push keeps the aggregator's type.
LEMMA PushTyped ==
    ASSUME NEW a \in Aggregators, NEW e \in Events
    PROVE  Push(a, e) \in Aggregators
  <1>1. CASE e.ev = "message_start"
    BY <1>1 DEF Push
  <1>2. CASE e.ev = "text_delta"
    <2>1. e.text \in Seq(Strings) /\ a.text \in Seq(Strings)
      BY <1>2 DEF Events, Aggregators
    <2>2. PICK s : s = a.text \o e.text
      OBVIOUS
    <2>3. s \in Seq(Strings)
      BY <2>1, <2>2
    <2>4. Push(a, e) = [a EXCEPT !.text = s]
      BY <1>2, <2>2 DEF Push
    <2> QED
      BY <2>3, <2>4 DEF Aggregators
  <1>3. CASE e.ev = "thinking_delta"
    <2>1. e.text \in Seq(Strings) /\ a.thinking \in Seq(Strings)
      BY <1>3 DEF Events, Aggregators
    <2>2. PICK s : s = a.thinking \o e.text
      OBVIOUS
    <2>3. s \in Seq(Strings)
      BY <2>1, <2>2
    <2>4. Push(a, e) = [a EXCEPT !.thinking = s]
      BY <1>3, <2>2 DEF Push
    <2> QED
      BY <2>3, <2>4 DEF Aggregators
  <1>4. CASE e.ev = "tool_use_start"
    <2>1. [id |-> e.id, name |-> e.name, json |-> <<>>] \in Tools
      BY <1>4 DEF Events, Tools
    <2>2. Append(a.tools, [id |-> e.id, name |-> e.name, json |-> <<>>]) \in Seq(Tools)
      BY <2>1 DEF Aggregators
    <2> QED
      BY <1>4, <2>2 DEF Push, Aggregators
  <1>5. CASE e.ev = "tool_use_delta"
    <2>1. e.json \in Seq(Strings)
      BY <1>5 DEF Events
    <2>2. AppendToLast(a.tools, e.json) \in Seq(Tools)
      <3>1. CASE a.tools = <<>>
        BY <3>1 DEF AppendToLast
      <3>2. CASE a.tools # <<>>
        <4> DEFINE n == Len(a.tools)
        <4>1. a.tools \in Seq(Tools) /\ n \in Nat /\ n # 0 /\ n \in DOMAIN a.tools
          BY <3>2 DEF Aggregators
        <4>2. a.tools[n] \in Tools
          BY <4>1
        <4>3. [a.tools[n] EXCEPT !.json = @ \o e.json] \in Tools
          <5>1. PICK s : s = a.tools[n].json \o e.json
            OBVIOUS
          <5>2. s \in Seq(Strings)
            BY <2>1, <4>2, <5>1 DEF Tools
          <5>3. [a.tools[n] EXCEPT !.json = s] \in Tools
            BY <4>2, <5>2 DEF Tools
          <5> QED
            BY <5>1, <5>3
        <4>4. [a.tools EXCEPT ![n] = [a.tools[n] EXCEPT !.json = @ \o e.json]] \in Seq(Tools)
          BY <4>1, <4>3
        <4> QED
          BY <3>2, <4>4 DEF AppendToLast
      <3> QED
        BY <3>1, <3>2
    <2> QED
      BY <1>5, <2>2 DEF Push, Aggregators
  <1>6. CASE e.ev = "usage_delta"
    <2>1. e.usage \in Tokens /\ a.usage \in Tokens
      BY <1>6 DEF Events, Aggregators
    <2>2. Merge(a.usage, e.usage) \in Tokens
      BY <2>1, MergeTyped
    <2> QED
      BY <1>6, <2>2 DEF Push, Aggregators
  <1>7. CASE e.ev = "done"
    <2>1. <<e.stop>> \in Seq(Strings)
      BY <1>7 DEF Events
    <2> QED
      BY <1>7, <2>1 DEF Push, Aggregators
  <1> QED
    BY <1>1, <1>2, <1>3, <1>4, <1>5, <1>6, <1>7 DEF Events

\* A legal event leads to a point.
LEMMA AfterTyped ==
    ASSUME NEW w \in Points, NEW e, Legal(w, e)
    PROVE  After(w, e) \in Points
  <1>1. e \in Events /\ w.agg \in Aggregators /\ w.stage \in Stages /\ w.seen \in BOOLEAN
    BY DEF Legal, Points
  <1>2. Push(w.agg, e) \in Aggregators
    BY <1>1, PushTyped
  <1>3. StageAfter(w.stage, e) \in Stages
    BY <1>1 DEF StageAfter, Stages, Events
  <1>4. (w.seen \/ e.ev = "usage_delta") \in BOOLEAN
    BY <1>1
  <1> QED
    BY <1>2, <1>3, <1>4 DEF After, Points

\* The first point of a stream is typed.
LEMMA OutsetTyped == Outset \in Points
  BY DEF Outset, Points, Stages, NewAggregator, Aggregators, Tokens, NoTokens

\* No events lead nowhere.
LEMMA WalkNil ==
    ASSUME NEW w \in Points
    PROVE  Walks(<<>>, w, w)
  <1>1. PICK run : run = [k \in 0..0 |-> w]
    OBVIOUS
  <1>2. WalksBy(<<>>, w, w, run)
    BY <1>1, ListEmpty DEF WalksBy
  <1> QED
    BY <1>2, ListEmpty DEF Walks

\* One legal event leads to the point after it.
LEMMA WalkOne ==
    ASSUME NEW w \in Points, NEW e, Legal(w, e)
    PROVE  Walks(<<e>>, w, After(w, e))
  <1>1. PICK run : run = [k \in 0..1 |-> IF k = 0 THEN w ELSE After(w, e)]
    OBVIOUS
  <1>2. After(w, e) \in Points
    BY AfterTyped
  <1>3. run[0] = w /\ run[1] = After(w, e)
    BY <1>1
  <1>4. PICK es : es = <<e>>
    OBVIOUS
  <1>5. Len(es) = 1 /\ es[1] = e /\ IsList(es)
    BY <1>4, ListOne
  <1>6. WalksBy(es, w, After(w, e), run)
    BY <1>2, <1>3, <1>5 DEF WalksBy
  <1> QED
    BY <1>4, <1>5, <1>6 DEF Walks

\* Walks compose.
LEMMA WalkConcat ==
    ASSUME NEW d, NEW e, NEW w, NEW x, NEW y, Walks(d, w, x), Walks(e, x, y)
    PROVE  Walks(d \o e, w, y)
  <1> DEFINE m == Len(d)
             n == Len(e)
  <1>1. PICK p : WalksBy(d, w, x, p)
    BY DEF Walks
  <1>2. PICK q : WalksBy(e, x, y, q)
    BY DEF Walks
  <1>3. PICK run : run = [k \in 0..(m + n) |-> IF k <= m THEN p[k] ELSE q[k - m]]
    OBVIOUS
  <1>4. m \in Nat /\ n \in Nat /\ IsList(d) /\ IsList(e)
    BY ListFacts DEF Walks
  <1>5. PICK de : de = d \o e
    OBVIOUS
  <1>6. /\ IsList(de) /\ Len(de) = m + n
        /\ \A i \in 1..m : de[i] = d[i]
        /\ \A i \in 1..n : de[m + i] = e[i]
    BY <1>4, <1>5, ListConcat
  <1>7. \A k \in 0..m : run[k] = p[k]
    BY <1>3, <1>4
  <1>8. \A k \in 0..n : run[m + k] = q[k]
    <2>1. run[m] = q[0]
      BY <1>1, <1>2, <1>4, <1>7 DEF WalksBy
    <2>2. \A k \in 1..n : run[m + k] = q[k]
      BY <1>3, <1>4
    <2> QED
      BY <1>4, <2>1, <2>2
  <1>9. run[0] = w /\ run[m + n] = y
    BY <1>1, <1>2, <1>4, <1>7, <1>8 DEF WalksBy
  <1>10. ASSUME NEW k \in 0..(m + n) PROVE run[k] \in Points
    <2>1. CASE k <= m
      BY <1>1, <1>4, <1>7, <2>1 DEF WalksBy
    <2>2. CASE ~(k <= m)
      BY <1>2, <1>3, <1>4, <2>2 DEF WalksBy
    <2> QED
      BY <2>1, <2>2
  <1>11. ASSUME NEW k \in 1..(m + n)
         PROVE  Legal(run[k - 1], de[k]) /\ run[k] = After(run[k - 1], de[k])
    <2>1. CASE k <= m
      <3>1. k \in 1..m /\ k \in 0..m /\ k - 1 \in 0..m
        BY <1>4, <2>1
      <3> QED
        BY <1>1, <1>6, <1>7, <3>1 DEF WalksBy
    <2>2. CASE ~(k <= m)
      <3>1. PICK j \in 1..n : k = m + j /\ k - 1 = m + (j - 1) /\ j - 1 \in 0..n /\ j \in 0..n
        <4>1. k - m \in 1..n /\ k = m + (k - m) /\ k - 1 = m + ((k - m) - 1)
              /\ (k - m) - 1 \in 0..n /\ k - m \in 0..n
          BY <1>4, <2>2
        <4> QED
          BY <4>1
      <3>2. run[k] = q[j] /\ run[k - 1] = q[j - 1] /\ de[k] = e[j]
        BY <1>6, <1>8, <3>1
      <3> QED
        BY <1>2, <3>1, <3>2 DEF WalksBy
    <2> QED
      BY <2>1, <2>2
  <1>12. WalksBy(de, w, y, run)
    BY <1>6, <1>9, <1>10, <1>11 DEF WalksBy
  <1> QED
    BY <1>5, <1>6, <1>12 DEF Walks

-----------------------------------------------------------------------------
(* What one event adds to a stream that is still going                     *)

\* A point before the end, with what was said so far.
At(u, seen, stage, text, thinking, tools) ==
  [stage |-> stage, seen |-> seen,
   agg |-> [text |-> text, thinking |-> thinking, tools |-> tools, usage |-> u, stop |-> <<>>]]
Tool(id, name, json) == [id |-> id, name |-> name, json |-> json]

\* Such a point is a point.
LEMMA AtTyped ==
    ASSUME NEW u \in Tokens, NEW seen \in BOOLEAN, NEW stage \in Stages,
           NEW text \in Seq(Strings), NEW thinking \in Seq(Strings), NEW tools \in Seq(Tools)
    PROVE  At(u, seen, stage, text, thinking, tools) \in Points
  BY DEF At, Points, Aggregators

\* MessageStart opens the stream.
LEMMA AtBegin ==
    ASSUME NEW u \in Tokens, NEW seen \in BOOLEAN,
           NEW text \in Seq(Strings), NEW thinking \in Seq(Strings), NEW tools \in Seq(Tools)
    PROVE  Walks(<<MessageStart>>, At(u, seen, "none", text, thinking, tools),
                 At(u, seen, "open", text, thinking, tools))
  <1> DEFINE w == At(u, seen, "none", text, thinking, tools)
  <1>1. w \in Points
    BY AtTyped DEF Stages
  <1>2. Legal(w, MessageStart)
    BY DEF Legal, At, MessageStart, Events
  <1>3. After(w, MessageStart) = At(u, seen, "open", text, thinking, tools)
    BY DEF After, At, MessageStart, StageAfter, Push
  <1> QED
    BY <1>1, <1>2, <1>3, WalkOne

\* A text delta is added to the text.
LEMMA AtText ==
    ASSUME NEW u \in Tokens, NEW seen \in BOOLEAN, NEW stage \in {"open", "call"},
           NEW text \in Seq(Strings), NEW thinking \in Seq(Strings), NEW tools \in Seq(Tools),
           NEW x \in Seq(Strings)
    PROVE  Walks(<<TextDelta(x)>>, At(u, seen, stage, text, thinking, tools),
                 At(u, seen, "open", text \o x, thinking, tools))
  <1> DEFINE w == At(u, seen, stage, text, thinking, tools)
  <1>1. w \in Points
    BY AtTyped DEF Stages
  <1>2. Legal(w, TextDelta(x))
    BY DEF Legal, At, TextDelta, Events
  <1>3. After(w, TextDelta(x)) = At(u, seen, "open", text \o x, thinking, tools)
    BY DEF After, At, TextDelta, StageAfter, Push
  <1> QED
    BY <1>1, <1>2, <1>3, WalkOne

\* A thinking delta is added to the thinking.
LEMMA AtThinking ==
    ASSUME NEW u \in Tokens, NEW seen \in BOOLEAN, NEW stage \in {"open", "call"},
           NEW text \in Seq(Strings), NEW thinking \in Seq(Strings), NEW tools \in Seq(Tools),
           NEW x \in Seq(Strings)
    PROVE  Walks(<<ThinkingDelta(x)>>, At(u, seen, stage, text, thinking, tools),
                 At(u, seen, "open", text, thinking \o x, tools))
  <1> DEFINE w == At(u, seen, stage, text, thinking, tools)
  <1>1. w \in Points
    BY AtTyped DEF Stages
  <1>2. Legal(w, ThinkingDelta(x))
    BY DEF Legal, At, ThinkingDelta, Events
  <1>3. After(w, ThinkingDelta(x)) = At(u, seen, "open", text, thinking \o x, tools)
    BY DEF After, At, ThinkingDelta, StageAfter, Push
  <1> QED
    BY <1>1, <1>2, <1>3, WalkOne

\* The start of a call is a call without arguments.
LEMMA AtCall ==
    ASSUME NEW u \in Tokens, NEW seen \in BOOLEAN, NEW stage \in {"open", "call"},
           NEW text \in Seq(Strings), NEW thinking \in Seq(Strings), NEW tools \in Seq(Tools),
           NEW id \in Strings, NEW name \in Strings
    PROVE  Walks(<<ToolUseStart(id, name)>>, At(u, seen, stage, text, thinking, tools),
                 At(u, seen, "call", text, thinking, Append(tools, Tool(id, name, <<>>))))
  <1> DEFINE w == At(u, seen, stage, text, thinking, tools)
  <1>1. w \in Points
    BY AtTyped DEF Stages
  <1>2. Legal(w, ToolUseStart(id, name))
    BY DEF Legal, At, ToolUseStart, Events
  <1>3. After(w, ToolUseStart(id, name))
          = At(u, seen, "call", text, thinking, Append(tools, Tool(id, name, <<>>)))
    BY DEF After, At, ToolUseStart, StageAfter, Push, Tool
  <1> QED
    BY <1>1, <1>2, <1>3, WalkOne

\* An argument delta goes to the last call.
LEMMA LastGets ==
    ASSUME NEW tools \in Seq(Tools), NEW id \in Strings, NEW name \in Strings,
           NEW y \in Seq(Strings), NEW x \in Seq(Strings)
    PROVE  AppendToLast(Append(tools, Tool(id, name, y)), x) = Append(tools, Tool(id, name, y \o x))
  <1>1. PICK c : c = Tool(id, name, y)
    OBVIOUS
  <1>2. PICK z : z = y \o x
    OBVIOUS
  <1>3. PICK d : d = Tool(id, name, z)
    OBVIOUS
  <1>4. z \in Seq(Strings)
    BY <1>2
  <1>5. c \in Tools /\ d \in Tools
    BY <1>1, <1>3, <1>4 DEF Tool, Tools
  <1>6. [c EXCEPT !.json = @ \o x] = d
    <2>1. c = [id |-> id, name |-> name, json |-> y] /\ d = [id |-> id, name |-> name, json |-> z]
      BY <1>1, <1>3 DEF Tool
    <2>2. c.json = y
      BY <2>1
    <2>3. [c EXCEPT !.json = z] = d
      BY <2>1
    <2> QED
      BY <1>2, <2>2, <2>3
  <1>7. PICK ts : ts = Append(tools, c)
    OBVIOUS
  <1>8. /\ ts \in Seq(Tools) /\ Len(ts) = Len(tools) + 1 /\ ts # <<>>
        /\ ts[Len(tools) + 1] = c
    BY <1>5, <1>7
  <1>9. AppendToLast(ts, x) = [ts EXCEPT ![Len(tools) + 1] = d]
    BY <1>6, <1>8 DEF AppendToLast
  <1>10. [ts EXCEPT ![Len(tools) + 1] = d] = Append(tools, d)
    <2>1. PICK us : us = Append(tools, d)
      OBVIOUS
    <2>2. PICK vs : vs = [ts EXCEPT ![Len(tools) + 1] = d]
      OBVIOUS
    <2>3. us \in Seq(Tools) /\ Len(us) = Len(tools) + 1 /\ us[Len(tools) + 1] = d
          /\ \A i \in 1..Len(tools) : us[i] = tools[i]
      BY <1>5, <2>1
    <2>4. \A i \in 1..Len(tools) : ts[i] = tools[i]
      BY <1>5, <1>7
    <2>5. vs \in Seq(Tools) /\ Len(vs) = Len(tools) + 1 /\ vs[Len(tools) + 1] = d
          /\ \A i \in 1..Len(tools) : vs[i] = tools[i]
      BY <1>5, <1>8, <2>2, <2>4
    <2>6. us = vs
      BY <2>3, <2>5
    <2> QED
      BY <2>1, <2>2, <2>6
  <1> QED
    BY <1>1, <1>2, <1>3, <1>7, <1>9, <1>10

\* Arguments said inside a tool call go to its end.
LEMMA AtJson ==
    ASSUME NEW u \in Tokens, NEW seen \in BOOLEAN,
           NEW text \in Seq(Strings), NEW thinking \in Seq(Strings), NEW tools \in Seq(Tools),
           NEW id \in Strings, NEW name \in Strings, NEW y \in Seq(Strings), NEW x \in Seq(Strings)
    PROVE  Walks(<<ToolUseDelta(x)>>,
                 At(u, seen, "call", text, thinking, Append(tools, Tool(id, name, y))),
                 At(u, seen, "call", text, thinking, Append(tools, Tool(id, name, y \o x))))
  <1>1. PICK ts : ts = Append(tools, Tool(id, name, y))
    OBVIOUS
  <1>2. PICK us : us = Append(tools, Tool(id, name, y \o x))
    OBVIOUS
  <1> DEFINE w == At(u, seen, "call", text, thinking, ts)
  <1>3. PICK c : c = Tool(id, name, y)
    OBVIOUS
  <1>4. ts \in Seq(Tools)
    <2>1. c \in Tools
      BY <1>3 DEF Tool, Tools
    <2>2. ts = Append(tools, c)
      BY <1>1, <1>3, Zenon
    <2> QED
      BY <2>1, <2>2
  <1>5. w \in Points
    BY <1>4, AtTyped DEF Stages
  <1>6. Legal(w, ToolUseDelta(x))
    BY DEF Legal, At, ToolUseDelta, Events
  <1>7. AppendToLast(ts, x) = us
    BY <1>1, <1>2, LastGets
  <1>8. After(w, ToolUseDelta(x)) = At(u, seen, "call", text, thinking, us)
    BY <1>7 DEF After, At, ToolUseDelta, StageAfter, Push
  <1> QED
    BY <1>1, <1>2, <1>5, <1>6, <1>8, WalkOne

-----------------------------------------------------------------------------
(* What one line adds                                                      *)

\* Nothing flattens to nothing.
LEMMA FlatNil ==
    ASSUME NEW ss, IsList(ss), Len(ss) = 0
    PROVE  FlattenSeq(ss) = <<>>
  <1>1. \A k \in 1..Len(ss) : IsList(ss[k])
    OBVIOUS
  <1>2. PICK run : /\ run[0] = <<>>
                   /\ \A k \in 1..Len(ss) : run[k] = run[k - 1] \o ss[k]
                   /\ \A k \in 0..Len(ss) : IsList(run[k])
                   /\ FlattenSeq(ss) = run[Len(ss)]
    BY <1>1, FlatRun, Zenon
  <1> QED
    BY <1>2

\* One list flattens to itself.
LEMMA FlatOne ==
    ASSUME NEW ss, IsList(ss), Len(ss) = 1, IsList(ss[1])
    PROVE  FlattenSeq(ss) = ss[1]
  <1>1. \A k \in 1..Len(ss) : IsList(ss[k])
    BY ListFacts
  <1>2. PICK run : /\ run[0] = <<>>
                   /\ \A k \in 1..Len(ss) : run[k] = run[k - 1] \o ss[k]
                   /\ \A k \in 0..Len(ss) : IsList(run[k])
                   /\ FlattenSeq(ss) = run[Len(ss)]
    BY <1>1, FlatRun, Zenon
  <1>3. 1 \in 1..1 /\ 1 - 1 = 0
    OBVIOUS
  <1>4. run[1] = run[0] \o ss[1]
    <2>1. run[1] = run[1 - 1] \o ss[1]
      BY <1>2, <1>3, Zenon
    <2> QED
      BY <1>3, <2>1, Zenon
  <1> QED
    BY <1>2, <1>4, ConcatNil, Zenon

\* A decoder's state before the end of a stream: whether it began, and
\* whether it had a call.
Stand(up, began, called) ==
  [started |-> IF began /\ up \in {"chat", "gemini"} THEN TRUE ELSE FALSE,
   toolOpen |-> IF called /\ up = "gemini" THEN TRUE ELSE FALSE,
   stop |-> IF called /\ up = "responses" THEN <<"tool_use">> ELSE <<>>]

\* A decoder and the point its events have come to; a line takes both on.
Mid(up, u, stage, text, thinking, tools) ==
  [st |-> Stand(up, stage # "none", tools # <<>>),
   w |-> At(u, up = "anthropic", stage, text, thinking, tools)]
Step(up, q, line, r) ==
  /\ DecodeLine(up, line, q.st).st = r.st
  /\ Walks(DecodeLine(up, line, q.st).events, q.w, r.w)

\* A step of no events.
LEMMA StepNoise ==
    ASSUME NEW up \in Dialects, NEW q, q.w \in Points
    PROVE  Step(up, q, Noise, q)
  <1>1. DecodeLine(up, Noise, q.st) = Decoded(q.st, <<>>)
    BY DEF DecodeLine, DecodeChat, DecodeAnthropic, DecodeResponses, DecodeGemini, Noise, Dialects
  <1> QED
    BY <1>1, WalkNil DEF Step, Decoded

\* The line of an atom of text.
TextLine(up, atom) ==
  CASE up = "chat" -> ChatSay("content", atom)
    [] up = "anthropic" -> AnthropicDelta("text_delta", atom)
    [] up = "responses" -> ResponsesDelta("response.output_text.delta", atom)
    [] up = "gemini" -> Parts(<<[type |-> "text", text |-> <<atom>>]>>)

\* Nothing comes of no calls, and of one call what comes of it.
LEMMA EachNone ==
    /\ Each(<<>>, CallEvents) = <<>>
    /\ Each(<<>>, PartEvents) = <<>>
  <1>1. ASSUME NEW f, f = [i \in DOMAIN <<>> |-> f[i]] PROVE FlattenSeq(f) = <<>>
    <2>1. DOMAIN <<>> = 1..0
      OBVIOUS
    <2>2. f = [i \in 1..0 |-> f[i]]
      BY <1>1, <2>1
    <2>3. IsList(f) /\ Len(f) = 0
      BY <2>2, ListMake
    <2> QED
      BY <2>3, FlatNil
  <1> QED
    BY <1>1 DEF Each

\* What one call or one part emits.
LEMMA EachOne ==
    ASSUME NEW x
    PROVE  /\ IsList(CallEvents(x)) => Each(<<x>>, CallEvents) = CallEvents(x)
           /\ IsList(PartEvents(x)) => Each(<<x>>, PartEvents) = PartEvents(x)
  <1>0. DOMAIN <<x>> = 1..1 /\ <<x>>[1] = x
    OBVIOUS
  <1>1. ASSUME IsList(CallEvents(x)) PROVE Each(<<x>>, CallEvents) = CallEvents(x)
    <2>1. PICK f : f = [i \in DOMAIN <<x>> |-> CallEvents(<<x>>[i])]
      OBVIOUS
    <2>2. f = [i \in 1..1 |-> f[i]] /\ f[1] = CallEvents(x)
      BY <1>0, <2>1
    <2>3. IsList(f) /\ Len(f) = 1
      BY <2>2, ListMake
    <2>4. FlattenSeq(f) = CallEvents(x)
      BY <1>1, <2>2, <2>3, FlatOne, Zenon
    <2> QED
      BY <2>1, <2>4 DEF Each
  <1>2. ASSUME IsList(PartEvents(x)) PROVE Each(<<x>>, PartEvents) = PartEvents(x)
    <2>1. PICK f : f = [i \in DOMAIN <<x>> |-> PartEvents(<<x>>[i])]
      OBVIOUS
    <2>2. f = [i \in 1..1 |-> f[i]] /\ f[1] = PartEvents(x)
      BY <1>0, <2>1
    <2>3. IsList(f) /\ Len(f) = 1
      BY <2>2, ListMake
    <2>4. FlattenSeq(f) = PartEvents(x)
      BY <1>2, <2>2, <2>3, FlatOne, Zenon
    <2> QED
      BY <2>1, <2>4 DEF Each
  <1> QED
    BY <1>1, <1>2

\* The events of a chunk that says one thing.
LEMMA DeltaSays ==
    ASSUME NEW x, x # <<>>
    PROVE  /\ DeltaEvents(NoDelta) = <<>>
           /\ DeltaEvents([NoDelta EXCEPT !.role = TRUE]) = <<>>
           /\ DeltaEvents([NoDelta EXCEPT !.content = x]) = <<TextDelta(x)>>
           /\ DeltaEvents([NoDelta EXCEPT !.reasoning = x]) = <<ThinkingDelta(x)>>
           /\ \A c : IsList(CallEvents(c)) =>
                DeltaEvents([NoDelta EXCEPT !.calls = <<c>>]) = CallEvents(c)
  <1>1. <<>> \o <<>> = <<>> /\ \A y : <<>> \o <<y>> = <<y>> /\ <<y>> \o <<>> = <<y>>
    BY ConcatNil, ListEmpty, ListOne
  <1>2. ASSUME NEW d, d.reasoning = <<>>, d.content = <<>>, d.calls = <<>> PROVE DeltaEvents(d) = <<>>
    BY <1>1, <1>2, EachNone DEF DeltaEvents, Opt
  <1>3. DeltaEvents([NoDelta EXCEPT !.content = x]) = <<TextDelta(x)>>
    BY <1>1, EachNone DEF DeltaEvents, Opt, NoDelta
  <1>4. DeltaEvents([NoDelta EXCEPT !.reasoning = x]) = <<ThinkingDelta(x)>>
    BY <1>1, EachNone DEF DeltaEvents, Opt, NoDelta
  <1>5. ASSUME NEW c, IsList(CallEvents(c))
        PROVE DeltaEvents([NoDelta EXCEPT !.calls = <<c>>]) = CallEvents(c)
    <2>1. Each(<<c>>, CallEvents) = CallEvents(c)
      BY <1>5, EachOne
    <2>2. <<>> \o CallEvents(c) = CallEvents(c)
      BY <1>5, ConcatNil
    <2> QED
      BY <1>1, <2>1, <2>2 DEF DeltaEvents, Opt, NoDelta
  <1> QED
    BY <1>2, <1>3, <1>4, <1>5 DEF NoDelta

\* What a decoder's state becomes.
LEMMA StandStarts ==
    ASSUME NEW x, NEW y, NEW z, NEW t, NEW st, st = [started |-> x, toolOpen |-> y, stop |-> z]
    PROVE  [st EXCEPT !.started = t] = [started |-> t, toolOpen |-> y, stop |-> z]
  OBVIOUS

\* An update of the Anthropic decoder's record.
LEMMA StandOpens ==
    ASSUME NEW x, NEW y, NEW z, NEW t, NEW v, NEW st, st = [started |-> x, toolOpen |-> y, stop |-> z]
    PROVE  [st EXCEPT !.started = t, !.toolOpen = v] = [started |-> t, toolOpen |-> v, stop |-> z]
  <1>1. PICK m : m = [st EXCEPT !.started = t]
    OBVIOUS
  <1>2. m = [started |-> t, toolOpen |-> y, stop |-> z]
    BY <1>1
  <1>3. [m EXCEPT !.toolOpen = v] = [started |-> t, toolOpen |-> v, stop |-> z]
    BY <1>2
  <1>4. [st EXCEPT !.started = t, !.toolOpen = v] = [m EXCEPT !.toolOpen = v]
    BY <1>1
  <1> QED
    BY <1>3, <1>4

\* A list of one member of S is over S.
LEMMA SeqOne ==
    ASSUME NEW S, NEW x \in S
    PROVE  <<x>> \in Seq(S)
  OBVIOUS

\* The line of an atom of thinking, where there is one.
ThinkingLine(up, atom) ==
  CASE up = "chat" -> ChatSay("reasoning", atom)
    [] up = "anthropic" -> AnthropicDelta("thinking_delta", atom)
    [] up = "responses" -> ResponsesDelta("response.reasoning_text.delta", atom)

\* A stream that has begun, or one of Gemini's, which any chunk begins.
Begun(up) == IF up = "gemini" THEN {"none", "open", "call"} ELSE {"open", "call"}

\* The first chunk of a Gemini stream begins it.
LEMMA GeminiOpens ==
    ASSUME NEW u \in Tokens, NEW stage \in {"none", "open", "call"},
           NEW text \in Seq(Strings), NEW thinking \in Seq(Strings), NEW tools \in Seq(Tools)
    PROVE  \E s \in {"open", "call"} :
             Walks(Opt(stage = "none", MessageStart), At(u, FALSE, stage, text, thinking, tools),
                   At(u, FALSE, s, text, thinking, tools))
  <1>1. CASE stage = "none"
    <2>1. Opt(stage = "none", MessageStart) = <<MessageStart>>
      BY <1>1 DEF Opt
    <2> QED
      BY <1>1, <2>1, AtBegin
  <1>2. CASE stage # "none"
    <2>1. Opt(stage = "none", MessageStart) = <<>>
      BY <1>2 DEF Opt
    <2>2. At(u, FALSE, stage, text, thinking, tools) \in Points
      BY AtTyped DEF Stages
    <2> QED
      BY <1>2, <2>1, <2>2, WalkNil
  <1> QED
    BY <1>1, <1>2

\* A chunk of a Chat stream that has begun.
LEMMA ChatChunk ==
    ASSUME NEW d, NEW st, st.started = TRUE, st = [st EXCEPT !.started = TRUE], IsList(DeltaEvents(d))
    PROVE  DecodeChat(Chunk(d, <<>>), st) = Decoded(st, DeltaEvents(d))
  <1>1. PICK es : es = DeltaEvents(d)
    OBVIOUS
  <1>2. PICK line : line = Chunk(d, <<>>)
    OBVIOUS
  <1>3. /\ line.kind = "chunk" /\ line.choice # <<>> /\ line.choice[1] = d
        /\ line.finish = <<>> /\ line.usage = <<>>
    BY <1>2 DEF Chunk
  <1>4. DecodeChat(line, st) = Decoded(st, ((<<>> \o es) \o <<>>) \o <<>>)
    BY <1>1, <1>3 DEF DecodeChat, Opt, Reported
  <1>5. <<>> \o es = es /\ es \o <<>> = es
    BY <1>1, ConcatNil
  <1> QED
    BY <1>1, <1>2, <1>4, <1>5

\* A chunk of a Gemini stream with one part.
LEMMA GeminiChunk ==
    ASSUME NEW p, NEW st, IsList(PartEvents(p)), p.type \in {"text", "functionCall"}
    PROVE  DecodeGemini(Parts(<<p>>), st)
             = Decoded([st EXCEPT !.started = TRUE,
                                  !.toolOpen = st.toolOpen \/ p.type = "functionCall"],
                       Opt(~st.started, MessageStart) \o PartEvents(p))
  <1>1. PICK es : es = PartEvents(p)
    OBVIOUS
  <1>2. PICK line : line = Parts(<<p>>)
    OBVIOUS
  <1>3. line.kind = "chunk" /\ line.parts = <<p>> /\ line.finish = <<>>
    BY <1>2 DEF Parts
  <1>4. (\E i \in DOMAIN line.parts : line.parts[i].type = "functionCall") <=> p.type = "functionCall"
    BY <1>3
  <1>5. PICK o : o = Opt(~st.started, MessageStart)
    OBVIOUS
  <1>6. IsList(o)
    BY <1>5, ListEmpty, ListOne DEF Opt
  <1>7. Each(line.parts, PartEvents) = es
    BY <1>1, <1>3, EachOne
  <1>8. DecodeGemini(line, st)
          = Decoded([st EXCEPT !.started = TRUE,
                               !.toolOpen = st.toolOpen \/ p.type = "functionCall"],
                    (o \o es) \o <<>>)
    BY <1>3, <1>4, <1>5, <1>7 DEF DecodeGemini
  <1>9. (o \o es) \o <<>> = o \o es
    BY <1>1, <1>6, ListConcat, ConcatNil
  <1> QED
    BY <1>1, <1>2, <1>5, <1>8, <1>9

\* An atom of text is added to the text.
LEMMA TextStep ==
    ASSUME NEW up \in Dialects, NEW u \in Tokens, NEW stage \in Begun(up),
           NEW text \in Seq(Strings), NEW thinking \in Seq(Strings), NEW tools \in Seq(Tools),
           NEW atom \in Strings
    PROVE  Step(up, Mid(up, u, stage, text, thinking, tools), TextLine(up, atom),
                Mid(up, u, "open", text \o <<atom>>, thinking, tools))
  <1> DEFINE q == Mid(up, u, stage, text, thinking, tools)
             r == Mid(up, u, "open", text \o <<atom>>, thinking, tools)
             es == <<TextDelta(<<atom>>)>>
  <1> SUFFICES Step(up, q, TextLine(up, atom), r)
    OBVIOUS
  <1>1. <<atom>> \in Seq(Strings) /\ <<atom>> # <<>>
    <2>1. <<atom>> \in Seq(Strings)
      BY SeqOne
    <2> QED
      BY <2>1, ListOne, ListEmpty
  <1>2. CASE up # "gemini"
    <2>1. stage \in {"open", "call"}
      BY <1>2 DEF Begun
    <2>2. Walks(es, q.w, r.w)
      BY <1>1, <2>1, AtText DEF Mid
    <2>3. r.st = q.st
      BY <2>1 DEF Mid, Stand
    <2>4. DecodeLine(up, TextLine(up, atom), q.st) = Decoded(q.st, es)
      <3>1. CASE up = "chat"
        <4>1. q.st.started = TRUE /\ q.st = [q.st EXCEPT !.started = TRUE]
          <5>1. PICK st : st = q.st
            OBVIOUS
          <5>2. st = [started |-> TRUE, toolOpen |-> FALSE, stop |-> <<>>]
            BY <2>1, <3>1, <5>1 DEF Mid, Stand
          <5>3. st.started = TRUE
            BY <5>2
          <5>4. st = [st EXCEPT !.started = TRUE]
            BY <5>2, StandStarts, Zenon
          <5> HIDE DEF q
          <5> QED
            BY <5>1, <5>3, <5>4
        <4>2. DeltaEvents([NoDelta EXCEPT !.content = <<atom>>]) = es
          BY <1>1, DeltaSays
        <4>3. TextLine(up, atom) = Chunk([NoDelta EXCEPT !.content = <<atom>>], <<>>)
          BY <3>1 DEF TextLine, ChatSay
        <4> HIDE DEF q
        <4> QED
          BY <3>1, <4>1, <4>2, <4>3, ChatChunk, ListOne DEF DecodeLine
      <3>2. CASE up = "anthropic"
        BY <3>2 DEF DecodeLine, DecodeAnthropic, TextLine, AnthropicDelta
      <3>3. CASE up = "responses"
        BY <3>3 DEF DecodeLine, DecodeResponses, TextLine, ResponsesDelta
      <3> QED
        BY <1>2, <3>1, <3>2, <3>3 DEF Dialects
    <2> HIDE DEF q, r, es
    <2> QED
      BY <2>2, <2>3, <2>4 DEF Step, Decoded
  <1>3. CASE up = "gemini"
    <2> DEFINE p == [type |-> "text", text |-> <<atom>>]
    <2>1. PartEvents(p) = es
      BY DEF PartEvents
    <2>2. DecodeLine(up, TextLine(up, atom), q.st)
            = Decoded([q.st EXCEPT !.started = TRUE, !.toolOpen = q.st.toolOpen \/ FALSE],
                      Opt(~q.st.started, MessageStart) \o es)
      <3>1. TextLine(up, atom) = Parts(<<p>>)
        BY <1>3 DEF TextLine
      <3>2. IsList(PartEvents(p)) /\ p.type = "text"
        BY <2>1, ListOne
      <3> HIDE DEF q, p, es
      <3>3. DecodeLine(up, TextLine(up, atom), q.st) = DecodeGemini(Parts(<<p>>), q.st)
        BY <1>3, <3>1 DEF DecodeLine
      <3> QED
        BY <2>1, <3>2, <3>3, GeminiChunk
    <2>3. ~q.st.started <=> stage = "none"
      BY <1>3 DEF Mid, Stand
    <2>4. r.st = [q.st EXCEPT !.started = TRUE, !.toolOpen = q.st.toolOpen \/ FALSE]
      <3>1. q.st.toolOpen \in BOOLEAN
        BY DEF Mid, Stand
      <3>2. PICK b : b = (q.st.toolOpen \/ FALSE)
        OBVIOUS
      <3>3. b = q.st.toolOpen
        BY <3>1, <3>2
      <3>4. r.st = [q.st EXCEPT !.started = TRUE, !.toolOpen = q.st.toolOpen]
        <4>1. PICK st : st = q.st
          OBVIOUS
        <4>2. PICK b2 : b2 = (IF tools # <<>> THEN TRUE ELSE FALSE)
          OBVIOUS
        <4>3. \E b1 : st = [started |-> b1, toolOpen |-> b2, stop |-> <<>>]
          BY <1>3, <4>1, <4>2 DEF Mid, Stand
        <4>4. r.st = [started |-> TRUE, toolOpen |-> b2, stop |-> <<>>]
          BY <1>3, <4>2 DEF Mid, Stand
        <4>5. r.st = [st EXCEPT !.started = TRUE, !.toolOpen = st.toolOpen]
          <5>1. st.toolOpen = b2
            BY <4>3
          <5>2. [st EXCEPT !.started = TRUE, !.toolOpen = b2] = [started |-> TRUE, toolOpen |-> b2, stop |-> <<>>]
            <6>1. PICK t : t = TRUE
              OBVIOUS
            <6>2. [st EXCEPT !.started = t, !.toolOpen = b2] = [started |-> t, toolOpen |-> b2, stop |-> <<>>]
              <7>1. PICK b1 : st = [started |-> b1, toolOpen |-> b2, stop |-> <<>>]
                BY <4>3
              <7>2. PICK m : m = [st EXCEPT !.started = t]
                OBVIOUS
              <7>3. m = [started |-> t, toolOpen |-> b2, stop |-> <<>>]
                BY <7>1, <7>2
              <7>4. [m EXCEPT !.toolOpen = b2] = [started |-> t, toolOpen |-> b2, stop |-> <<>>]
                BY <7>3
              <7>5. [st EXCEPT !.started = t, !.toolOpen = b2] = [m EXCEPT !.toolOpen = b2]
                BY <7>2
              <7> QED
                BY <7>4, <7>5
            <6> QED
              BY <6>1, <6>2, Zenon
          <5> HIDE DEF q, r
          <5> QED
            BY <4>4, <5>1, <5>2
        <4> HIDE DEF q, r
        <4> QED
          BY <4>1, <4>5
      <3> HIDE DEF q, r
      <3> QED
        BY <3>2, <3>3, <3>4
    <2>5. PICK s \in {"open", "call"} :
             Walks(Opt(stage = "none", MessageStart), At(u, FALSE, stage, text, thinking, tools),
                   At(u, FALSE, s, text, thinking, tools))
      BY <1>3, GeminiOpens DEF Begun
    <2>6. Walks(es, At(u, FALSE, s, text, thinking, tools),
                At(u, FALSE, "open", text \o <<atom>>, thinking, tools))
      BY <1>1, AtText
    <2>7. q.w = At(u, FALSE, stage, text, thinking, tools)
          /\ r.w = At(u, FALSE, "open", text \o <<atom>>, thinking, tools)
      BY <1>3 DEF Mid
    <2> HIDE DEF q, r, es
    <2>8. Walks(Opt(~q.st.started, MessageStart) \o es, q.w, r.w)
      <3>1. PICK o : o = Opt(stage = "none", MessageStart)
        OBVIOUS
      <3>2. Opt(~q.st.started, MessageStart) = o
        BY <2>3, <3>1 DEF Opt
      <3>3. Walks(o, q.w, At(u, FALSE, s, text, thinking, tools)) /\ Walks(es, At(u, FALSE, s, text, thinking, tools), r.w)
        BY <2>5, <2>6, <2>7, <3>1
      <3>4. Walks(o \o es, q.w, r.w)
        BY <3>3, WalkConcat
      <3> QED
        BY <3>2, <3>4
    <2> QED
      BY <2>2, <2>4, <2>8 DEF Step, Decoded
  <1> QED
    BY <1>2, <1>3

\* An atom of thinking is added to the thinking.
LEMMA ThinkingStep ==
    ASSUME NEW up \in Dialects \ {"gemini"}, NEW u \in Tokens, NEW stage \in Begun(up),
           NEW text \in Seq(Strings), NEW thinking \in Seq(Strings), NEW tools \in Seq(Tools),
           NEW atom \in Strings
    PROVE  Step(up, Mid(up, u, stage, text, thinking, tools), ThinkingLine(up, atom),
                Mid(up, u, "open", text, thinking \o <<atom>>, tools))
  <1> DEFINE q == Mid(up, u, stage, text, thinking, tools)
             r == Mid(up, u, "open", text, thinking \o <<atom>>, tools)
             es == <<ThinkingDelta(<<atom>>)>>
  <1> SUFFICES Step(up, q, ThinkingLine(up, atom), r)
    OBVIOUS
  <1>1. <<atom>> \in Seq(Strings) /\ <<atom>> # <<>>
    <2>1. <<atom>> \in Seq(Strings)
      BY SeqOne
    <2> QED
      BY <2>1, ListOne, ListEmpty
  <1>2. stage \in {"open", "call"}
    BY DEF Begun
  <1>3. Walks(es, q.w, r.w)
    BY <1>1, <1>2, AtThinking DEF Mid
  <1>4. r.st = q.st
    BY <1>2 DEF Mid, Stand
  <1>5. DecodeLine(up, ThinkingLine(up, atom), q.st) = Decoded(q.st, es)
    <2>1. CASE up = "chat"
      <3>1. q.st.started = TRUE /\ q.st = [q.st EXCEPT !.started = TRUE]
        <4>1. PICK st : st = q.st
          OBVIOUS
        <4>2. st = [started |-> TRUE, toolOpen |-> FALSE, stop |-> <<>>]
          BY <1>2, <2>1, <4>1 DEF Mid, Stand
        <4>3. st.started = TRUE
          BY <4>2
        <4>4. st = [st EXCEPT !.started = TRUE]
          BY <4>2, StandStarts, Zenon
        <4> HIDE DEF q
        <4> QED
          BY <4>1, <4>3, <4>4
      <3>2. DeltaEvents([NoDelta EXCEPT !.reasoning = <<atom>>]) = es
        BY <1>1, DeltaSays
      <3>3. ThinkingLine(up, atom) = Chunk([NoDelta EXCEPT !.reasoning = <<atom>>], <<>>)
        BY <2>1 DEF ThinkingLine, ChatSay
      <3> HIDE DEF q
      <3> QED
        BY <2>1, <3>1, <3>2, <3>3, ChatChunk, ListOne DEF DecodeLine
    <2>2. CASE up = "anthropic"
      BY <2>2 DEF DecodeLine, DecodeAnthropic, ThinkingLine, AnthropicDelta
    <2>3. CASE up = "responses"
      BY <2>3 DEF DecodeLine, DecodeResponses, ThinkingLine, ResponsesDelta
    <2> QED
      BY <2>1, <2>2, <2>3 DEF Dialects
  <1> HIDE DEF q, r, es
  <1> QED
    BY <1>3, <1>4, <1>5 DEF Step, Decoded

\* The line that starts a call, and one with an atom of its arguments.
CallLine(up, index, b) ==
  CASE up = "chat" -> ChatCall(index, <<b.id>>, b.name, <<>>)
    [] up = "anthropic" -> [kind |-> "content_block_start", block |-> b]
    [] up = "responses" ->
         [kind |-> "response.output_item.added",
          item |-> [type |-> "function_call", call_id |-> b.id, name |-> b.name]]
JsonLine(up, index, b, atom) ==
  CASE up = "chat" -> ChatCall(index, <<>>, b.name, <<atom>>)
    [] up = "anthropic" -> AnthropicDelta("input_json_delta", atom)
    [] up = "responses" -> ResponsesDelta("response.function_call_arguments.delta", atom)

\* Appending leaves nothing empty.
LEMMA AppendNotNil ==
    ASSUME NEW S, NEW s \in Seq(S), NEW x
    PROVE  Append(s, x) # <<>>
  BY SeqIsList, ListAppend, ListEmpty, ListFacts

\* The text of a value is a text.
LEMMA SerialTyped ==
    ASSUME NEW v \in Strings
    PROVE  /\ Serialised(v) \in Seq(Strings) /\ Len(Serialised(v)) = 2
           /\ Serialised(v)[1] = v /\ Serialised(v)[2] = "}"
  <1>1. "}" \in Strings
    BY DEF Strings
  <1>2. \A x, y \in Strings : <<x, y>> \in Seq(Strings)
    OBVIOUS
  <1> QED
    BY <1>1, <1>2, ListTwo DEF Serialised

\* A call starts.
LEMMA CallStep ==
    ASSUME NEW up \in Dialects \ {"gemini"}, NEW u \in Tokens, NEW stage \in Begun(up),
           NEW text \in Seq(Strings), NEW thinking \in Seq(Strings), NEW tools \in Seq(Tools),
           NEW index, NEW b \in Blocks, b.type = "tool_use"
    PROVE  Step(up, Mid(up, u, stage, text, thinking, tools), CallLine(up, index, b),
                Mid(up, u, "call", text, thinking, Append(tools, Tool(b.id, b.name, <<>>))))
  <1>0. PICK us : us = Append(tools, Tool(b.id, b.name, <<>>))
    OBVIOUS
  <1> DEFINE q == Mid(up, u, stage, text, thinking, tools)
             r == Mid(up, u, "call", text, thinking, us)
             es == <<ToolUseStart(b.id, b.name)>>
  <1> SUFFICES Step(up, q, CallLine(up, index, b), r)
    BY <1>0
  <1>1. b.id \in Strings /\ b.name \in Strings
    BY DEF Blocks, Strings
  <1>2. stage \in {"open", "call"}
    BY DEF Begun
  <1>3. us # <<>>
    BY <1>0, AppendNotNil
  <1>4. Walks(es, q.w, r.w)
    BY <1>0, <1>1, <1>2, AtCall DEF Mid
  <1>5. DecodeLine(up, CallLine(up, index, b), q.st) = Decoded(r.st, es)
    <2>1. CASE up = "chat"
      <3> DEFINE c == [index |-> index, id |-> <<b.id>>, name |-> b.name, args |-> <<>>]
      <3>1. q.st.started = TRUE /\ q.st = [q.st EXCEPT !.started = TRUE]
        <4>1. PICK st : st = q.st
          OBVIOUS
        <4>2. st = [started |-> TRUE, toolOpen |-> FALSE, stop |-> <<>>]
          BY <1>2, <2>1, <4>1 DEF Mid, Stand
        <4>3. st.started = TRUE
          BY <4>2
        <4>4. st = [st EXCEPT !.started = TRUE]
          BY <4>2, StandStarts, Zenon
        <4> HIDE DEF q
        <4> QED
          BY <4>1, <4>3, <4>4
      <3>2. CallEvents(c) = es
        <4>1. <<b.id>> # <<>> /\ <<b.id>>[1] = b.id
          BY ListOne, ListEmpty
        <4>2. CallEvents(c) = es \o <<>>
          BY <4>1 DEF CallEvents, Opt
        <4> QED
          BY <4>2, ListOne, ConcatNil
      <3>3. DeltaEvents([NoDelta EXCEPT !.calls = <<c>>]) = es
        <4>1. <<1>> # <<>>
          OBVIOUS
        <4>2. IsList(CallEvents(c))
          BY <3>2, ListOne
        <4> HIDE DEF c, es
        <4> QED
          BY <3>2, <4>1, <4>2, DeltaSays
      <3>4. CallLine(up, index, b) = Chunk([NoDelta EXCEPT !.calls = <<c>>], <<>>)
        BY <2>1 DEF CallLine, ChatCall
      <3>5. r.st = q.st
        BY <1>2, <2>1 DEF Mid, Stand
      <3>6. PICK d : d = [NoDelta EXCEPT !.calls = <<c>>]
        OBVIOUS
      <3>7. IsList(es)
        BY ListOne
      <3> HIDE DEF q, r, c, es
      <3>8. DecodeChat(Chunk(d, <<>>), q.st) = Decoded(q.st, es)
        BY <3>1, <3>3, <3>6, <3>7, ChatChunk
      <3> QED
        BY <2>1, <3>4, <3>5, <3>6, <3>8 DEF DecodeLine
    <2>2. CASE up = "anthropic"
      <3>1. r.st = q.st
        BY <1>2, <2>2 DEF Mid, Stand
      <3> HIDE DEF q, r
      <3> QED
        BY <2>2, <3>1 DEF DecodeLine, DecodeAnthropic, CallLine
    <2>3. CASE up = "responses"
      <3>1. r.st = [q.st EXCEPT !.stop = <<"tool_use">>]
        <4>1. q.st = [started |-> FALSE, toolOpen |-> FALSE, stop |-> IF tools # <<>> THEN <<"tool_use">> ELSE <<>>]
          BY <2>3 DEF Mid, Stand
        <4>2. r.st = [started |-> FALSE, toolOpen |-> FALSE, stop |-> <<"tool_use">>]
          BY <1>3, <2>3 DEF Mid, Stand
        <4> HIDE DEF q, r
        <4>3. PICK f : f = FALSE
          OBVIOUS
        <4>4. PICK z : q.st = [started |-> f, toolOpen |-> f, stop |-> z]
          BY <4>1, <4>3
        <4>5. PICK st : st = q.st
          OBVIOUS
        <4>6. [st EXCEPT !.stop = <<"tool_use">>] = [started |-> f, toolOpen |-> f, stop |-> <<"tool_use">>]
          BY <4>4, <4>5
        <4> QED
          BY <4>2, <4>3, <4>5, <4>6
      <3> HIDE DEF q, r
      <3> QED
        BY <2>3, <3>1 DEF DecodeLine, DecodeResponses, CallLine
    <2> QED
      BY <2>1, <2>2, <2>3 DEF Dialects
  <1> HIDE DEF q, r, es
  <1> QED
    BY <1>4, <1>5 DEF Step, Decoded

\* Its arguments come.
LEMMA JsonStep ==
    ASSUME NEW up \in Dialects \ {"gemini"}, NEW u \in Tokens,
           NEW text \in Seq(Strings), NEW thinking \in Seq(Strings), NEW tools \in Seq(Tools),
           NEW index, NEW b \in Blocks, b.type = "tool_use", NEW y \in Seq(Strings), NEW atom \in Strings
    PROVE  Step(up, Mid(up, u, "call", text, thinking, Append(tools, Tool(b.id, b.name, y))),
                JsonLine(up, index, b, atom),
                Mid(up, u, "call", text, thinking, Append(tools, Tool(b.id, b.name, y \o <<atom>>))))
  <1>0. PICK ts, us : /\ ts = Append(tools, Tool(b.id, b.name, y))
                      /\ us = Append(tools, Tool(b.id, b.name, y \o <<atom>>))
    OBVIOUS
  <1> DEFINE q == Mid(up, u, "call", text, thinking, ts)
             r == Mid(up, u, "call", text, thinking, us)
             es == <<ToolUseDelta(<<atom>>)>>
  <1> SUFFICES Step(up, q, JsonLine(up, index, b, atom), r)
    BY <1>0
  <1>1. b.id \in Strings /\ b.name \in Strings /\ <<atom>> \in Seq(Strings) /\ <<atom>> # <<>>
    <2>1. <<atom>> \in Seq(Strings)
      BY SeqOne
    <2>2. b.id \in Strings /\ b.name \in Strings
      BY DEF Blocks, Strings
    <2> QED
      BY <2>1, <2>2, ListOne, ListEmpty
  <1>2. ts # <<>> /\ us # <<>>
    BY <1>0, AppendNotNil
  <1>3. Walks(es, q.w, r.w)
    BY <1>0, <1>1, AtJson DEF Mid
  <1>4. r.st = q.st
    BY <1>2 DEF Mid, Stand
  <1>5. DecodeLine(up, JsonLine(up, index, b, atom), q.st) = Decoded(q.st, es)
    <2>1. CASE up = "chat"
      <3> DEFINE c == [index |-> index, id |-> <<>>, name |-> b.name, args |-> <<atom>>]
      <3>1. q.st.started = TRUE /\ q.st = [q.st EXCEPT !.started = TRUE]
        <4>1. PICK st : st = q.st
          OBVIOUS
        <4>2. st = [started |-> TRUE, toolOpen |-> FALSE, stop |-> <<>>]
          BY <2>1, <4>1 DEF Mid, Stand
        <4>3. st.started = TRUE
          BY <4>2
        <4>4. st = [st EXCEPT !.started = TRUE]
          BY <4>2, StandStarts, Zenon
        <4> HIDE DEF q
        <4> QED
          BY <4>1, <4>3, <4>4
      <3>2. CallEvents(c) = es
        <4>1. CallEvents(c) = <<>> \o es
          BY <1>1 DEF CallEvents, Opt
        <4> QED
          BY <4>1, ListOne, ConcatNil
      <3>3. DeltaEvents([NoDelta EXCEPT !.calls = <<c>>]) = es
        <4>1. <<1>> # <<>>
          OBVIOUS
        <4>2. IsList(CallEvents(c))
          BY <3>2, ListOne
        <4> HIDE DEF c, es
        <4> QED
          BY <3>2, <4>1, <4>2, DeltaSays
      <3>4. JsonLine(up, index, b, atom) = Chunk([NoDelta EXCEPT !.calls = <<c>>], <<>>)
        BY <2>1 DEF JsonLine, ChatCall
      <3>6. PICK d : d = [NoDelta EXCEPT !.calls = <<c>>]
        OBVIOUS
      <3>7. IsList(es)
        BY ListOne
      <3> HIDE DEF q, r, c, es
      <3>8. DecodeChat(Chunk(d, <<>>), q.st) = Decoded(q.st, es)
        BY <3>1, <3>3, <3>6, <3>7, ChatChunk
      <3> QED
        BY <2>1, <3>4, <3>6, <3>8 DEF DecodeLine
    <2>2. CASE up = "anthropic"
      <3> HIDE DEF q, r
      <3> QED
        BY <2>2 DEF DecodeLine, DecodeAnthropic, JsonLine, AnthropicDelta
    <2>3. CASE up = "responses"
      <3> HIDE DEF q, r
      <3> QED
        BY <2>3 DEF DecodeLine, DecodeResponses, JsonLine, ResponsesDelta
    <2> QED
      BY <2>1, <2>2, <2>3 DEF Dialects
  <1> HIDE DEF q, r, es
  <1> QED
    BY <1>3, <1>4, <1>5 DEF Step, Decoded

\* A call of Gemini's comes whole.
LEMMA GeminiCallStep ==
    ASSUME NEW u \in Tokens, NEW stage \in Begun("gemini"),
           NEW text \in Seq(Strings), NEW thinking \in Seq(Strings), NEW tools \in Seq(Tools),
           NEW b \in Blocks, b.type = "tool_use"
    PROVE  Step("gemini", Mid("gemini", u, stage, text, thinking, tools),
                Parts(<<[type |-> "functionCall", name |-> b.name, args |-> b.input]>>),
                Mid("gemini", u, "call", text, thinking,
                    Append(tools, Tool(b.name, b.name, Serialised(b.input)))))
  <1>0. PICK ts, us : /\ ts = Append(tools, Tool(b.name, b.name, <<>>))
                      /\ us = Append(tools, Tool(b.name, b.name, Serialised(b.input)))
    OBVIOUS
  <1> DEFINE q == Mid("gemini", u, stage, text, thinking, tools)
             r == Mid("gemini", u, "call", text, thinking, us)
             p == [type |-> "functionCall", name |-> b.name, args |-> b.input]
             es == <<ToolUseStart(b.name, b.name), ToolUseDelta(Serialised(b.input))>>
  <1> SUFFICES Step("gemini", q, Parts(<<p>>), r)
    BY <1>0
  <1>1. b.name \in Strings /\ Serialised(b.input) \in Seq(Strings)
    <2>1. b.name \in Strings /\ b.input \in Strings
      BY DEF Blocks, Strings
    <2> QED
      BY <2>1, SerialTyped
  <1>2. us # <<>>
    BY <1>0, AppendNotNil
  <1>3. PartEvents(p) = es /\ IsList(es)
    BY ListTwo DEF PartEvents
  <1>4. DecodeLine("gemini", Parts(<<p>>), q.st)
          = Decoded([q.st EXCEPT !.started = TRUE, !.toolOpen = q.st.toolOpen \/ p.type = "functionCall"],
                    Opt(~q.st.started, MessageStart) \o es)
    <2>1. p.type = "functionCall"
      OBVIOUS
    <2> HIDE DEF q, p, es
    <2> QED
      BY <1>3, <2>1, GeminiChunk DEF DecodeLine
  <1>5. r.st = [q.st EXCEPT !.started = TRUE, !.toolOpen = q.st.toolOpen \/ p.type = "functionCall"]
    <2>1. PICK st : st = q.st
      OBVIOUS
    <2>2. PICK t : t = TRUE
      OBVIOUS
    <2>3. PICK x, y : st = [started |-> x, toolOpen |-> y, stop |-> <<>>]
      BY <2>1 DEF Mid, Stand
    <2>4. r.st = [started |-> TRUE, toolOpen |-> TRUE, stop |-> <<>>]
      BY <1>2 DEF Mid, Stand
    <2>5. (q.st.toolOpen \/ p.type = "functionCall") = t
      BY <2>2
    <2> HIDE DEF q, r, p
    <2>6. PICK m : m = [st EXCEPT !.started = t]
      OBVIOUS
    <2>7. m = [started |-> t, toolOpen |-> y, stop |-> <<>>]
      BY <2>3, <2>6
    <2>8. [m EXCEPT !.toolOpen = t] = [started |-> t, toolOpen |-> t, stop |-> <<>>]
      BY <2>7
    <2>9. [st EXCEPT !.started = t, !.toolOpen = t] = [m EXCEPT !.toolOpen = t]
      BY <2>6
    <2>10. r.st = [st EXCEPT !.started = t, !.toolOpen = t]
      BY <2>2, <2>4, <2>8, <2>9
    <2> QED
      BY <2>1, <2>2, <2>5, <2>10
  <1>6. PICK s \in {"open", "call"} :
           Walks(Opt(stage = "none", MessageStart), At(u, FALSE, stage, text, thinking, tools),
                 At(u, FALSE, s, text, thinking, tools))
    BY GeminiOpens DEF Begun
  <1>7. q.w = At(u, FALSE, stage, text, thinking, tools) /\ r.w = At(u, FALSE, "call", text, thinking, us)
    BY DEF Mid
  <1>8. Walks(es, At(u, FALSE, s, text, thinking, tools), r.w)
    <2>1. Walks(<<ToolUseStart(b.name, b.name)>>, At(u, FALSE, s, text, thinking, tools),
                At(u, FALSE, "call", text, thinking, ts))
      BY <1>0, <1>1, AtCall
    <2>2. PICK j : j = Serialised(b.input)
      OBVIOUS
    <2>3. <<>> \o j = j /\ j \in Seq(Strings) /\ <<>> \in Seq(Strings)
      BY <1>1, <2>2
    <2>4. Walks(<<ToolUseDelta(j)>>, At(u, FALSE, "call", text, thinking, ts),
                At(u, FALSE, "call", text, thinking, Append(tools, Tool(b.name, b.name, <<>> \o j))))
      BY <1>0, <1>1, <2>3, AtJson
    <2>5. Walks(<<ToolUseDelta(j)>>, At(u, FALSE, "call", text, thinking, ts), At(u, FALSE, "call", text, thinking, us))
      BY <1>0, <2>2, <2>3, <2>4
    <2>6. es = <<ToolUseStart(b.name, b.name)>> \o <<ToolUseDelta(j)>>
      BY <2>2
    <2> HIDE DEF es, r
    <2> QED
      BY <1>7, <2>1, <2>5, <2>6, WalkConcat
  <1>9. Walks(Opt(~q.st.started, MessageStart) \o es, q.w, r.w)
    <2>1. PICK o : o = Opt(stage = "none", MessageStart)
      OBVIOUS
    <2>2. ~q.st.started <=> stage = "none"
      BY DEF Mid, Stand
    <2>3. Opt(~q.st.started, MessageStart) = o
      BY <2>1, <2>2 DEF Opt
    <2> HIDE DEF q, r, es
    <2>4. Walks(o \o es, q.w, r.w)
      BY <1>6, <1>7, <1>8, <2>1, WalkConcat
    <2> QED
      BY <2>3, <2>4
  <1> HIDE DEF q, r, es, p
  <1> QED
    <2>1. PICK all : all = Opt(~q.st.started, MessageStart) \o es
      OBVIOUS
    <2>2. PICK d : d = DecodeLine("gemini", Parts(<<p>>), q.st)
      OBVIOUS
    <2>3. d = Decoded(r.st, all)
      BY <1>4, <1>5, <2>1, <2>2
    <2>4. Walks(all, q.w, r.w)
      BY <1>9, <2>1
    <2>5. d.st = r.st /\ d.events = all
      BY <2>3 DEF Decoded
    <2> QED
      BY <2>2, <2>4, <2>5 DEF Step

-----------------------------------------------------------------------------
(* What the lines of an answer add                                         *)

\* What an upstream says of a block, and of an answer.
TextOf(b) == IF b.type = "text" THEN b.text ELSE <<>>
ThinkingOf(up, b) == IF up # "gemini" /\ b.type = "thinking" THEN b.text ELSE <<>>
ToolsOf(up, b) ==
  IF b.type = "tool_use"
  THEN <<Tool(IF up = "gemini" THEN b.name ELSE b.id, b.name, Serialised(b.input))>> ELSE <<>>

AllText(blocks) == FlattenSeq([i \in DOMAIN blocks |-> TextOf(blocks[i])])
AllThinking(up, blocks) == FlattenSeq([i \in DOMAIN blocks |-> ThinkingOf(up, blocks[i])])
AllTools(up, blocks) == FlattenSeq([i \in DOMAIN blocks |-> ToolsOf(up, blocks[i])])

\* The stop reason its decoder makes of it.
StopTold(t) ==
  CASE t.up = "chat" -> FinishToStop(StopToFinish(t.answer.stop))
    [] t.up = "anthropic" -> t.answer.stop
    [] t.up = "responses" -> IF HasCall(t.answer.blocks) THEN "tool_use" ELSE "end_turn"
    [] t.up = "gemini" ->
         GeminiFinishToStop(StopToGeminiFinish(t.answer.stop), HasCall(t.answer.blocks))

\* At its end a stream amounts to the answer; its usage may be on a later
\* line, on Chat only.
Right(t, w) ==
  w.stage = "over" =>
    /\ w.agg.text = AllText(t.answer.blocks)
    /\ w.agg.thinking = AllThinking(t.up, t.answer.blocks)
    /\ w.agg.tools = AllTools(t.up, t.answer.blocks)
    /\ w.agg.stop = <<StopTold(t)>>
    /\ (t.up # "chat" \/ t.shared \/ w.seen) => w.agg.usage = Usage(t.up, t.answer.tokens)

\* The lines take a decoder and its point from q to r along `run`.
GoesBy(t, lines, q, r, run) ==
  /\ run[0] = q /\ run[Len(lines)] = r
  /\ \A k \in 0..Len(lines) : run[k].w \in Points /\ Right(t, run[k].w)
  /\ \A k \in 1..Len(lines) : Step(t.up, run[k - 1], lines[k], run[k])
Goes(t, lines, q, r) == IsList(lines) /\ \E run : GoesBy(t, lines, q, r, run)

\* No lines leave the decoder where it was.
LEMMA GoNil ==
    ASSUME NEW t, NEW q, q.w \in Points, Right(t, q.w)
    PROVE  Goes(t, <<>>, q, q)
  <1>1. PICK run : run = [k \in 0..0 |-> q]
    OBVIOUS
  <1>2. GoesBy(t, <<>>, q, q, run)
    BY <1>1, ListEmpty DEF GoesBy
  <1> QED
    BY <1>2, ListEmpty DEF Goes

\* One right step is a way of one line.
LEMMA GoOne ==
    ASSUME NEW t, NEW line, NEW q, NEW r, q.w \in Points, r.w \in Points,
           Right(t, q.w), Right(t, r.w), Step(t.up, q, line, r)
    PROVE  Goes(t, <<line>>, q, r)
  <1>1. PICK run : run = [k \in 0..1 |-> IF k = 0 THEN q ELSE r]
    OBVIOUS
  <1>2. run[0] = q /\ run[1] = r
    BY <1>1
  <1>3. PICK ls : ls = <<line>>
    OBVIOUS
  <1>4. Len(ls) = 1 /\ ls[1] = line /\ IsList(ls)
    BY <1>3, ListOne
  <1>5. GoesBy(t, ls, q, r, run)
    BY <1>2, <1>4 DEF GoesBy
  <1> QED
    BY <1>3, <1>4, <1>5 DEF Goes

\* Ways compose.
LEMMA GoConcat ==
    ASSUME NEW t, NEW d, NEW e, NEW q, NEW r, NEW s, Goes(t, d, q, r), Goes(t, e, r, s)
    PROVE  Goes(t, d \o e, q, s)
  <1> DEFINE m == Len(d)
             n == Len(e)
  <1>1. PICK p : GoesBy(t, d, q, r, p)
    BY DEF Goes
  <1>2. PICK o : GoesBy(t, e, r, s, o)
    BY DEF Goes
  <1>3. PICK run : run = [k \in 0..(m + n) |-> IF k <= m THEN p[k] ELSE o[k - m]]
    OBVIOUS
  <1>4. m \in Nat /\ n \in Nat /\ IsList(d) /\ IsList(e)
    BY ListFacts DEF Goes
  <1>5. PICK de : de = d \o e
    OBVIOUS
  <1>6. /\ IsList(de) /\ Len(de) = m + n
        /\ \A i \in 1..m : de[i] = d[i]
        /\ \A i \in 1..n : de[m + i] = e[i]
    BY <1>4, <1>5, ListConcat
  <1>7. \A k \in 0..m : run[k] = p[k]
    BY <1>3, <1>4
  <1>8. \A k \in 0..n : run[m + k] = o[k]
    <2>1. run[m] = o[0]
      BY <1>1, <1>2, <1>4, <1>7 DEF GoesBy
    <2>2. \A k \in 1..n : run[m + k] = o[k]
      BY <1>3, <1>4
    <2> QED
      BY <1>4, <2>1, <2>2
  <1>9. run[0] = q /\ run[m + n] = s
    BY <1>1, <1>2, <1>4, <1>7, <1>8 DEF GoesBy
  <1>10. ASSUME NEW k \in 0..(m + n) PROVE run[k].w \in Points /\ Right(t, run[k].w)
    <2>1. CASE k <= m
      BY <1>1, <1>4, <1>7, <2>1 DEF GoesBy
    <2>2. CASE ~(k <= m)
      BY <1>2, <1>3, <1>4, <2>2 DEF GoesBy
    <2> QED
      BY <2>1, <2>2
  <1>11. ASSUME NEW k \in 1..(m + n) PROVE Step(t.up, run[k - 1], de[k], run[k])
    <2>1. CASE k <= m
      <3>1. k \in 1..m /\ k \in 0..m /\ k - 1 \in 0..m
        BY <1>4, <2>1
      <3> QED
        BY <1>1, <1>6, <1>7, <3>1 DEF GoesBy
    <2>2. CASE ~(k <= m)
      <3>1. PICK j \in 1..n : k = m + j /\ k - 1 = m + (j - 1) /\ j - 1 \in 0..n /\ j \in 0..n
        <4>1. k - m \in 1..n /\ k = m + (k - m) /\ k - 1 = m + ((k - m) - 1)
              /\ (k - m) - 1 \in 0..n /\ k - m \in 0..n
          BY <1>4, <2>2
        <4> QED
          BY <4>1
      <3>2. run[k] = o[j] /\ run[k - 1] = o[j - 1] /\ de[k] = e[j]
        BY <1>6, <1>8, <3>1
      <3> QED
        BY <1>2, <3>1, <3>2 DEF GoesBy
    <2> QED
      BY <2>1, <2>2
  <1>12. GoesBy(t, de, q, s, run)
    BY <1>6, <1>9, <1>10, <1>11 DEF GoesBy
  <1> QED
    BY <1>5, <1>6, <1>12 DEF Goes

\* A decoder before the end of a stream is at a point, and right.
LEMMA MidRight ==
    ASSUME NEW t, NEW up, NEW u \in Tokens, NEW stage \in {"none", "open", "call"},
           NEW text \in Seq(Strings), NEW thinking \in Seq(Strings), NEW tools \in Seq(Tools)
    PROVE  /\ Mid(up, u, stage, text, thinking, tools).w \in Points
           /\ Right(t, Mid(up, u, stage, text, thinking, tools).w)
  <1>1. PICK b : b = (up = "anthropic")
    OBVIOUS
  <1>2. b \in BOOLEAN /\ stage \in Stages /\ stage # "over"
    BY <1>1 DEF Stages
  <1>3. PICK w : w = Mid(up, u, stage, text, thinking, tools).w
    OBVIOUS
  <1>4. w = At(u, b, stage, text, thinking, tools)
    BY <1>1, <1>3 DEF Mid
  <1>5. w \in Points
    BY <1>2, <1>4, AtTyped
  <1>6. w.stage # "over"
    BY <1>2, <1>4 DEF At
  <1> QED
    BY <1>3, <1>5, <1>6 DEF Right

\* A sequence added piece by piece.
With(s, x, k) == s \o SubSeq(x, 1, k)

\* A text grows by one character.
LEMMA SubSeqStep ==
    ASSUME NEW s \in Seq(Strings), NEW x \in Seq(Strings), NEW k \in 1..Len(x)
    PROVE  With(s, x, k) = With(s, x, k - 1) \o <<x[k]>> /\ With(s, x, k - 1) \in Seq(Strings) /\ x[k] \in Strings
  <1>1. x[k] \in Strings
    OBVIOUS
  <1>2. PICK y, z : y = SubSeq(x, 1, k) /\ z = SubSeq(x, 1, k - 1)
    OBVIOUS
  <1>3. y \in Seq(Strings) /\ Len(y) = k /\ \A i \in 1..k : y[i] = x[i]
    BY <1>2
  <1>4. z \in Seq(Strings) /\ Len(z) = k - 1 /\ \A i \in 1..(k - 1) : z[i] = x[i]
    BY <1>2
  <1>5. s \o y = (s \o z) \o <<x[k]>>
    <2>1. y = z \o <<x[k]>>
      <3>1. PICK v : v = z \o <<x[k]>>
        OBVIOUS
      <3>2. v \in Seq(Strings) /\ Len(v) = k /\ v[k] = x[k] /\ \A i \in 1..(k - 1) : v[i] = x[i]
        BY <1>1, <1>4, <3>1
      <3>3. v = y
        BY <1>3, <3>2
      <3> QED
        BY <3>1, <3>3
    <2>2. IsList(s) /\ IsList(z) /\ IsList(<<x[k]>>)
      BY <1>4, SeqIsList, ListOne
    <2> QED
      BY <2>1, <2>2, ConcatAssoc
  <1>6. s \o y \in Seq(Strings) /\ s \o z \in Seq(Strings)
    BY <1>3, <1>4
  <1> QED
    BY <1>1, <1>2, <1>5, <1>6 DEF With

\* The lines of a text add the text.
LEMMA TextGoes ==
    ASSUME NEW t, t.up \in Dialects, NEW u \in Tokens, NEW stage \in Begun(t.up),
           NEW text \in Seq(Strings), NEW thinking \in Seq(Strings), NEW tools \in Seq(Tools),
           NEW x \in Seq(Strings)
    PROVE  \E s \in Begun(t.up) :
             Goes(t, [i \in DOMAIN x |-> TextLine(t.up, x[i])],
                  Mid(t.up, u, stage, text, thinking, tools),
                  Mid(t.up, u, s, text \o x, thinking, tools))
  <1> DEFINE n == Len(x)
             at(k) == Mid(t.up, u, IF k = 0 THEN stage ELSE "open", With(text, x, k), thinking, tools)
  <1>1. n \in Nat /\ DOMAIN x = 1..n
    OBVIOUS
  <1>2. PICK ls : ls = [i \in DOMAIN x |-> TextLine(t.up, x[i])]
    OBVIOUS
  <1>3. IsList(ls) /\ Len(ls) = n /\ \A k \in 1..n : ls[k] = TextLine(t.up, x[k])
    <2>1. ls = [i \in 1..n |-> ls[i]]
      BY <1>1, <1>2
    <2> QED
      BY <1>1, <1>2, <2>1, ListMake
  <1>4. PICK run : run = [k \in 0..n |-> at(k)]
    OBVIOUS
  <1>5. With(text, x, 0) = text
    BY DEF With
  <1>6. With(text, x, n) = text \o x
    BY DEF With
  <1>7. stage \in {"none", "open", "call"}
    BY DEF Begun
  <1>8. ASSUME NEW k \in 0..n PROVE run[k].w \in Points /\ Right(t, run[k].w)
    <2>1. PICK y : y = With(text, x, k)
      OBVIOUS
    <2>2. y \in Seq(Strings)
      BY <1>1, <2>1 DEF With
    <2>3. PICK g \in {"none", "open", "call"} : g = IF k = 0 THEN stage ELSE "open"
      BY <1>7
    <2>4. run[k] = Mid(t.up, u, g, y, thinking, tools)
      BY <1>4, <2>1, <2>3
    <2> QED
      BY <2>2, <2>4, MidRight
  <1>9. ASSUME NEW k \in 1..n PROVE Step(t.up, run[k - 1], ls[k], run[k])
    <2>1. PICK y, z : y = With(text, x, k - 1) /\ z = With(text, x, k)
      OBVIOUS
    <2>2. z = y \o <<x[k]>> /\ y \in Seq(Strings) /\ x[k] \in Strings
      <3>1. /\ With(text, x, k) = With(text, x, k - 1) \o <<x[k]>>
            /\ With(text, x, k - 1) \in Seq(Strings) /\ x[k] \in Strings
        <4>1. k \in 1..Len(x)
          OBVIOUS
        <4> HIDE DEF n, at
        <4> QED
          BY <4>1, SubSeqStep
      <3> QED
        BY <2>1, <3>1, Zenon
    <2>3. PICK g : g = IF k - 1 = 0 THEN stage ELSE "open"
      OBVIOUS
    <2>4. g \in Begun(t.up)
      BY <2>3 DEF Begun
    <2>5. k - 1 \in 0..n /\ k \in 0..n /\ k # 0
      BY <1>1
    <2>6. run[k - 1] = Mid(t.up, u, g, y, thinking, tools)
      BY <1>4, <2>1, <2>3, <2>5
    <2>7. run[k] = Mid(t.up, u, "open", z, thinking, tools)
      BY <1>4, <2>1, <2>5
    <2>8. Step(t.up, Mid(t.up, u, g, y, thinking, tools), TextLine(t.up, x[k]),
               Mid(t.up, u, "open", y \o <<x[k]>>, thinking, tools))
      BY <2>2, <2>4, TextStep
    <2> QED
      BY <1>3, <2>2, <2>6, <2>7, <2>8
  <1>10. PICK s : s = IF n = 0 THEN stage ELSE "open"
    OBVIOUS
  <1>11. s \in Begun(t.up)
    BY <1>10 DEF Begun
  <1>12. /\ run[0] = Mid(t.up, u, stage, text, thinking, tools)
         /\ run[n] = Mid(t.up, u, s, text \o x, thinking, tools)
    <2>1. 0 \in 0..n /\ n \in 0..n
      BY <1>1
    <2>2. run[0] = at(0) /\ run[n] = at(n)
      BY <1>4, <2>1
    <2> HIDE DEF n
    <2> QED
      BY <1>5, <1>6, <1>10, <2>2
  <1>13. GoesBy(t, ls, Mid(t.up, u, stage, text, thinking, tools),
                Mid(t.up, u, s, text \o x, thinking, tools), run)
    <2> HIDE DEF n, at
    <2> QED
      BY <1>3, <1>8, <1>9, <1>12 DEF GoesBy
  <1> QED
    BY <1>2, <1>3, <1>11, <1>13 DEF Goes

\* The lines of thinking add the thinking.
LEMMA ThinkingGoes ==
    ASSUME NEW t, t.up \in Dialects \ {"gemini"}, NEW u \in Tokens, NEW stage \in Begun(t.up),
           NEW text \in Seq(Strings), NEW thinking \in Seq(Strings), NEW tools \in Seq(Tools),
           NEW x \in Seq(Strings)
    PROVE  \E s \in Begun(t.up) :
             Goes(t, [i \in DOMAIN x |-> ThinkingLine(t.up, x[i])],
                  Mid(t.up, u, stage, text, thinking, tools),
                  Mid(t.up, u, s, text, thinking \o x, tools))
  <1> DEFINE n == Len(x)
             at(k) == Mid(t.up, u, IF k = 0 THEN stage ELSE "open", text, With(thinking, x, k), tools)
  <1>1. n \in Nat /\ DOMAIN x = 1..n
    OBVIOUS
  <1>2. PICK ls : ls = [i \in DOMAIN x |-> ThinkingLine(t.up, x[i])]
    OBVIOUS
  <1>3. IsList(ls) /\ Len(ls) = n /\ \A k \in 1..n : ls[k] = ThinkingLine(t.up, x[k])
    <2>1. ls = [i \in 1..n |-> ls[i]]
      BY <1>1, <1>2
    <2> QED
      BY <1>1, <1>2, <2>1, ListMake
  <1>4. PICK run : run = [k \in 0..n |-> at(k)]
    OBVIOUS
  <1>5. With(thinking, x, 0) = thinking
    BY DEF With
  <1>6. With(thinking, x, n) = thinking \o x
    BY DEF With
  <1>7. stage \in {"none", "open", "call"}
    BY DEF Begun
  <1>8. ASSUME NEW k \in 0..n PROVE run[k].w \in Points /\ Right(t, run[k].w)
    <2>1. PICK y : y = With(thinking, x, k)
      OBVIOUS
    <2>2. y \in Seq(Strings)
      BY <1>1, <2>1 DEF With
    <2>3. PICK g \in {"none", "open", "call"} : g = IF k = 0 THEN stage ELSE "open"
      BY <1>7
    <2>4. run[k] = Mid(t.up, u, g, text, y, tools)
      BY <1>4, <2>1, <2>3
    <2> QED
      BY <2>2, <2>4, MidRight
  <1>9. ASSUME NEW k \in 1..n PROVE Step(t.up, run[k - 1], ls[k], run[k])
    <2>1. PICK y, z : y = With(thinking, x, k - 1) /\ z = With(thinking, x, k)
      OBVIOUS
    <2>2. z = y \o <<x[k]>> /\ y \in Seq(Strings) /\ x[k] \in Strings
      <3>1. /\ With(thinking, x, k) = With(thinking, x, k - 1) \o <<x[k]>>
            /\ With(thinking, x, k - 1) \in Seq(Strings) /\ x[k] \in Strings
        <4>1. k \in 1..Len(x)
          OBVIOUS
        <4> HIDE DEF n, at
        <4> QED
          BY <4>1, SubSeqStep
      <3> QED
        BY <2>1, <3>1, Zenon
    <2>3. PICK g : g = IF k - 1 = 0 THEN stage ELSE "open"
      OBVIOUS
    <2>4. g \in Begun(t.up)
      BY <2>3 DEF Begun
    <2>5. k - 1 \in 0..n /\ k \in 0..n /\ k # 0
      BY <1>1
    <2>6. run[k - 1] = Mid(t.up, u, g, text, y, tools)
      BY <1>4, <2>1, <2>3, <2>5
    <2>7. run[k] = Mid(t.up, u, "open", text, z, tools)
      BY <1>4, <2>1, <2>5
    <2>8. Step(t.up, Mid(t.up, u, g, text, y, tools), ThinkingLine(t.up, x[k]),
               Mid(t.up, u, "open", text, y \o <<x[k]>>, tools))
      BY <2>2, <2>4, ThinkingStep
    <2> QED
      BY <1>3, <2>2, <2>6, <2>7, <2>8
  <1>10. PICK s : s = IF n = 0 THEN stage ELSE "open"
    OBVIOUS
  <1>11. s \in Begun(t.up)
    BY <1>10 DEF Begun
  <1>12. /\ run[0] = Mid(t.up, u, stage, text, thinking, tools)
         /\ run[n] = Mid(t.up, u, s, text, thinking \o x, tools)
    <2>1. 0 \in 0..n /\ n \in 0..n
      BY <1>1
    <2>2. run[0] = at(0) /\ run[n] = at(n)
      BY <1>4, <2>1
    <2> HIDE DEF n
    <2> QED
      BY <1>5, <1>6, <1>10, <2>2
  <1>13. GoesBy(t, ls, Mid(t.up, u, stage, text, thinking, tools),
                Mid(t.up, u, s, text, thinking \o x, tools), run)
    <2> HIDE DEF n, at
    <2> QED
      BY <1>3, <1>8, <1>9, <1>12 DEF GoesBy
  <1> QED
    BY <1>2, <1>3, <1>11, <1>13 DEF Goes

\* A member of a sequence over S is in S.
LEMMA SeqAt ==
    ASSUME NEW S, NEW s \in Seq(S), NEW k \in 1..Len(s)
    PROVE  s[k] \in S
  OBVIOUS

\* The lines of a call add the call.
LEMMA CallGoes ==
    ASSUME NEW t, t.up \in Dialects \ {"gemini"}, NEW u \in Tokens, NEW stage \in Begun(t.up),
           NEW text \in Seq(Strings), NEW thinking \in Seq(Strings), NEW tools \in Seq(Tools),
           NEW index, NEW b \in Blocks, b.type = "tool_use"
    PROVE  Goes(t, <<CallLine(t.up, index, b)>>
                     \o [i \in DOMAIN Serialised(b.input) |-> JsonLine(t.up, index, b, Serialised(b.input)[i])],
                Mid(t.up, u, stage, text, thinking, tools),
                Mid(t.up, u, "call", text, thinking, tools \o ToolsOf(t.up, b)))
  <1>1. PICK json : json = Serialised(b.input)
    OBVIOUS
  <1>2. b.id \in Strings /\ b.name \in Strings /\ b.input \in Strings
    BY DEF Blocks, Strings
  <1>3. json \in Seq(Strings) /\ Len(json) = 2 /\ json[1] \in Strings /\ json[2] \in Strings
    <2>1. json \in Seq(Strings) /\ Len(json) = 2
      BY <1>1, <1>2, SerialTyped
    <2>2. 1 \in 1..Len(json) /\ 2 \in 1..Len(json)
      BY <2>1
    <2>3. \A k \in 1..Len(json) : json[k] \in Strings
      BY <2>1, SeqAt
    <2> QED
      BY <2>1, <2>2, <2>3
  <1>4. PICK y : y = <<json[1]>>
    OBVIOUS
  <1>5. y \in Seq(Strings) /\ <<>> \in Seq(Strings) /\ <<>> \o <<json[1]>> = y /\ y \o <<json[2]>> = json
    BY <1>3, <1>4
  <1>6. PICK c0, c1, c2 : c0 = Tool(b.id, b.name, <<>>) /\ c1 = Tool(b.id, b.name, y) /\ c2 = Tool(b.id, b.name, json)
    OBVIOUS
  <1>7. c0 \in Tools /\ c1 \in Tools /\ c2 \in Tools
    BY <1>2, <1>3, <1>5, <1>6 DEF Tool, Tools
  <1>8. PICK s0, s1, s2 : s0 = Append(tools, c0) /\ s1 = Append(tools, c1) /\ s2 = Append(tools, c2)
    OBVIOUS
  <1>9. s0 \in Seq(Tools) /\ s1 \in Seq(Tools) /\ s2 \in Seq(Tools)
    BY <1>7, <1>8
  <1>10. s2 = tools \o ToolsOf(t.up, b)
    <2>1. ToolsOf(t.up, b) = <<c2>>
      BY <1>1, <1>6 DEF ToolsOf
    <2>2. IsList(tools)
      BY SeqIsList
    <2> QED
      BY <1>8, <2>1, <2>2, ConcatAppend, ListEmpty
  <1> DEFINE q == Mid(t.up, u, stage, text, thinking, tools)
             r(s) == Mid(t.up, u, "call", text, thinking, s)
             l0 == CallLine(t.up, index, b)
             l1 == JsonLine(t.up, index, b, json[1])
             l2 == JsonLine(t.up, index, b, json[2])
  <1>11. Step(t.up, q, l0, r(s0))
    BY <1>6, <1>8, CallStep
  <1>12. Step(t.up, r(s0), l1, r(s1))
    BY <1>3, <1>5, <1>6, <1>8, JsonStep
  <1>13. Step(t.up, r(s1), l2, r(s2))
    BY <1>3, <1>5, <1>6, <1>8, JsonStep
  <1>14. \A s \in {s0, s1, s2} : r(s).w \in Points /\ Right(t, r(s).w)
    BY <1>9, MidRight
  <1>15. q.w \in Points /\ Right(t, q.w)
    BY MidRight DEF Begun
  <1> HIDE DEF q, r, l0, l1, l2
  <1>16. Goes(t, <<l0>>, q, r(s0)) /\ Goes(t, <<l1>>, r(s0), r(s1)) /\ Goes(t, <<l2>>, r(s1), r(s2))
    BY <1>11, <1>12, <1>13, <1>14, <1>15, GoOne
  <1>17. Goes(t, <<l0>> \o (<<l1>> \o <<l2>>), q, r(s2))
    BY <1>16, GoConcat
  <1>18. PICK js : js = [i \in DOMAIN json |-> JsonLine(t.up, index, b, json[i])]
    OBVIOUS
  <1>19. js = <<l1>> \o <<l2>>
    <2>1. DOMAIN json = 1..2
      BY <1>3
    <2>2. js = [i \in 1..2 |-> js[i]] /\ js[1] = l1 /\ js[2] = l2
      BY <1>18, <2>1 DEF l1, l2
    <2>3. IsList(js) /\ Len(js) = 2
      BY <2>2, ListMake
    <2>4. PICK ls : ls = <<l1>> \o <<l2>>
      OBVIOUS
    <2>5. IsList(<<l1>>) /\ Len(<<l1>>) = 1 /\ <<l1>>[1] = l1 /\ IsList(<<l2>>) /\ Len(<<l2>>) = 1 /\ <<l2>>[1] = l2
      BY ListOne
    <2>6. IsList(ls) /\ Len(ls) = 2 /\ ls[1] = l1 /\ ls[2] = l2
      BY <2>4, <2>5, ListConcat
    <2>7. \A i \in 1..2 : ls[i] = js[i]
      BY <2>2, <2>6
    <2> QED
      BY <2>3, <2>4, <2>6, <2>7, ListSame
  <1>20. Goes(t, <<l0>> \o js, q, r(s2))
    BY <1>17, <1>19
  <1> QED
    BY <1>1, <1>10, <1>18, <1>20 DEF q, r, l0

\* A sequence of strings, by either name.
LEMMA SeqStrings ==
    ASSUME NEW s \in Seq(STRING)
    PROVE  s \in Seq(Strings)
  <1>1. \A i \in 1..Len(s) : s[i] \in STRING
    OBVIOUS
  <1>2. STRING \subseteq Strings
    BY DEF Strings
  <1>3. \A i \in 1..Len(s) : s[i] \in Strings
    BY <1>1, <1>2
  <1> QED
    BY <1>3

BlockLines(t, b) ==
  CASE t.up = "chat" -> ChatBlock(Calls(t.answer.blocks), b)
    [] t.up = "anthropic" -> AnthropicBlock(b)
    [] t.up = "responses" -> ResponsesBlock(b)
    [] t.up = "gemini" -> GeminiBlock(b)

\* The lines of a block add the block.
LEMMA BlockGoes ==
    ASSUME NEW t, t.up \in Dialects, NEW u \in Tokens, NEW stage \in Begun(t.up),
           NEW text \in Seq(Strings), NEW thinking \in Seq(Strings), NEW tools \in Seq(Tools),
           NEW b \in Blocks
    PROVE  \E s \in Begun(t.up) :
             Goes(t, BlockLines(t, b), Mid(t.up, u, stage, text, thinking, tools),
                  Mid(t.up, u, s, text \o TextOf(b), thinking \o ThinkingOf(t.up, b),
                      tools \o ToolsOf(t.up, b)))
  <1>1. text \o <<>> = text /\ thinking \o <<>> = thinking /\ tools \o <<>> = tools
    OBVIOUS
  <1>2. b.type \in {"text", "thinking", "tool_use"}
    BY DEF Blocks
  <1>3. CASE b.type = "text"
    <2>1. b.text \in Seq(Strings)
      <3>1. b.text \in Seq(STRING)
        BY <1>3 DEF Blocks
      <3> QED
        BY <3>1, SeqStrings
    <2>2. TextOf(b) = b.text /\ ThinkingOf(t.up, b) = <<>> /\ ToolsOf(t.up, b) = <<>>
      BY <1>3 DEF TextOf, ThinkingOf, ToolsOf
    <2>3. BlockLines(t, b) = [i \in DOMAIN b.text |-> TextLine(t.up, b.text[i])]
      BY <1>3 DEF BlockLines, ChatBlock, AnthropicBlock, ResponsesBlock, GeminiBlock, TextLine, Dialects
    <2> QED
      <3>1. PICK s \in Begun(t.up) :
              Goes(t, [i \in DOMAIN b.text |-> TextLine(t.up, b.text[i])],
                   Mid(t.up, u, stage, text, thinking, tools),
                   Mid(t.up, u, s, text \o b.text, thinking, tools))
        BY <2>1, TextGoes
      <3> QED
        BY <1>1, <2>2, <2>3, <3>1
  <1>4. CASE b.type = "thinking" /\ t.up # "gemini"
    <2>1. b.text \in Seq(Strings)
      <3>1. b.text \in Seq(STRING)
        BY <1>4 DEF Blocks
      <3> QED
        BY <3>1, SeqStrings
    <2>2. TextOf(b) = <<>> /\ ThinkingOf(t.up, b) = b.text /\ ToolsOf(t.up, b) = <<>>
      BY <1>4 DEF TextOf, ThinkingOf, ToolsOf
    <2>3. BlockLines(t, b) = [i \in DOMAIN b.text |-> ThinkingLine(t.up, b.text[i])]
      BY <1>4 DEF BlockLines, ChatBlock, AnthropicBlock, ResponsesBlock, ThinkingLine, Dialects
    <2> QED
      <3>1. PICK s \in Begun(t.up) :
              Goes(t, [i \in DOMAIN b.text |-> ThinkingLine(t.up, b.text[i])],
                   Mid(t.up, u, stage, text, thinking, tools),
                   Mid(t.up, u, s, text, thinking \o b.text, tools))
        BY <1>4, <2>1, ThinkingGoes
      <3> QED
        BY <1>1, <2>2, <2>3, <3>1
  <1>5. CASE b.type = "thinking" /\ t.up = "gemini"
    <2>1. TextOf(b) = <<>> /\ ThinkingOf(t.up, b) = <<>> /\ ToolsOf(t.up, b) = <<>>
      BY <1>5 DEF TextOf, ThinkingOf, ToolsOf
    <2>2. BlockLines(t, b) = <<>>
      BY <1>5 DEF BlockLines, GeminiBlock
    <2>3. stage \in {"none", "open", "call"}
      BY DEF Begun
    <2> QED
      BY <1>1, <2>1, <2>2, <2>3, MidRight, GoNil
  <1>6. CASE b.type = "tool_use" /\ t.up # "gemini"
    <2>1. TextOf(b) = <<>> /\ ThinkingOf(t.up, b) = <<>>
      BY <1>6 DEF TextOf, ThinkingOf
    <2>2. PICK index : t.up = "chat" =>
             index = (CHOOSE i \in DOMAIN Calls(t.answer.blocks) : Calls(t.answer.blocks)[i] = b) - 1
      OBVIOUS
    <2>3. BlockLines(t, b) = <<CallLine(t.up, index, b)>>
                     \o [i \in DOMAIN Serialised(b.input) |-> JsonLine(t.up, index, b, Serialised(b.input)[i])]
      <3>1. CASE t.up = "chat"
        BY <1>6, <2>2, <3>1 DEF BlockLines, ChatBlock, CallLine, JsonLine
      <3>2. CASE t.up = "anthropic"
        BY <1>6, <3>2 DEF BlockLines, AnthropicBlock, CallLine, JsonLine
      <3>3. CASE t.up = "responses"
        BY <1>6, <3>3 DEF BlockLines, ResponsesBlock, CallLine, JsonLine
      <3> QED
        BY <1>6, <3>1, <3>2, <3>3 DEF Dialects
    <2>4. "call" \in Begun(t.up)
      BY DEF Begun
    <2> QED
      BY <1>1, <1>6, <2>1, <2>3, <2>4, CallGoes
  <1>7. CASE b.type = "tool_use" /\ t.up = "gemini"
    <2> DEFINE q == Mid(t.up, u, stage, text, thinking, tools)
               r == Mid(t.up, u, "call", text, thinking, tools \o ToolsOf(t.up, b))
    <2>1. TextOf(b) = <<>> /\ ThinkingOf(t.up, b) = <<>>
      BY <1>7 DEF TextOf, ThinkingOf
    <2>2. PICK line : line = Parts(<<[type |-> "functionCall", name |-> b.name, args |-> b.input]>>)
      OBVIOUS
    <2>3. BlockLines(t, b) = <<line>>
      BY <1>7, <2>2 DEF BlockLines, GeminiBlock
    <2>4. PICK us : us = tools \o ToolsOf(t.up, b)
      OBVIOUS
    <2>5. us = Append(tools, Tool(b.name, b.name, Serialised(b.input))) /\ us \in Seq(Tools)
      <3>1. PICK c : c = Tool(b.name, b.name, Serialised(b.input))
        OBVIOUS
      <3>2. ToolsOf(t.up, b) = <<c>>
        BY <1>7, <3>1 DEF ToolsOf
      <3>3. c \in Tools
        <4>1. b.name \in Strings /\ b.input \in Strings
          BY <1>7 DEF Blocks, Strings
        <4>2. Serialised(b.input) \in Seq(Strings)
          BY <4>1, SerialTyped
        <4> QED
          BY <3>1, <4>1, <4>2 DEF Tool, Tools
      <3>4. us = Append(tools, c)
        BY <2>4, <3>2, SeqIsList, ConcatAppend, ListEmpty
      <3>5. Append(tools, c) \in Seq(Tools)
        BY <3>3
      <3> QED
        BY <3>1, <3>4, <3>5
    <2>6. Step(t.up, q, line, r)
      BY <1>7, <2>2, <2>4, <2>5, GeminiCallStep
    <2>7. stage \in {"none", "open", "call"} /\ "call" \in Begun(t.up)
      BY DEF Begun
    <2>8. q.w \in Points /\ Right(t, q.w) /\ r.w \in Points /\ Right(t, r.w)
      BY <2>4, <2>5, <2>7, MidRight
    <2> HIDE DEF q, r
    <2>9. Goes(t, <<line>>, q, r)
      BY <2>6, <2>8, GoOne
    <2> QED
      BY <1>1, <2>1, <2>3, <2>7, <2>9 DEF q, r
  <1> QED
    BY <1>2, <1>3, <1>4, <1>5, <1>6, <1>7

\* Flattening sequences of a set, step by step.
LEMMA FlatTyped ==
    ASSUME NEW S, NEW ss, IsList(ss), \A k \in 1..Len(ss) : ss[k] \in Seq(S)
    PROVE  \E run : /\ run[0] = <<>>
                    /\ \A k \in 1..Len(ss) : run[k] = run[k - 1] \o ss[k]
                    /\ \A k \in 0..Len(ss) : run[k] \in Seq(S)
                    /\ FlattenSeq(ss) = run[Len(ss)]
                    /\ FlattenSeq(ss) # <<>> <=> \E k \in 1..Len(ss) : ss[k] # <<>>
  <1> DEFINE n == Len(ss)
  <1>0. n \in Nat
    BY ListFacts
  <1>1. \A k \in 1..Len(ss) : IsList(ss[k])
    BY SeqIsList
  <1>2. PICK run : /\ run[0] = <<>>
                   /\ \A k \in 1..Len(ss) : run[k] = run[k - 1] \o ss[k]
                   /\ \A k \in 0..Len(ss) : IsList(run[k])
                   /\ FlattenSeq(ss) = run[Len(ss)]
    BY <1>1, FlatRun, Zenon
  <1> DEFINE T == {k \in 0..n : /\ run[k] \in Seq(S)
                                /\ run[k] # <<>> <=> \E j \in 1..k : ss[j] # <<>>}
  <1>3. 0 \in T
    <2>1. <<>> \in Seq(S) /\ run[0] = <<>> /\ 0 \in 0..n /\ 1..0 = {}
      BY <1>0, <1>2
    <2> QED
      BY <2>1
  <1>4. ASSUME NEW k \in 1..n, k - 1 \in T PROVE k \in T
    <2>1. PICK x, y, z : x = run[k - 1] /\ y = ss[k] /\ z = run[k]
      OBVIOUS
    <2>2. x \in Seq(S) /\ y \in Seq(S) /\ z = x \o y
      <3>1. run[k] = run[k - 1] \o ss[k]
        BY <1>2
      <3> QED
        BY <1>4, <2>1, <3>1
    <2>3. z \in Seq(S) /\ (z # <<>> <=> x # <<>> \/ y # <<>>)
      <3>1. z \in Seq(S) /\ Len(z) = Len(x) + Len(y) /\ Len(x) \in Nat /\ Len(y) \in Nat
        BY <2>2
      <3>2. (z = <<>> <=> Len(z) = 0) /\ (x = <<>> <=> Len(x) = 0) /\ (y = <<>> <=> Len(y) = 0)
        BY <2>2, <3>1, SeqIsList, ListNil
      <3> QED
        BY <3>1, <3>2
    <2>4. x # <<>> <=> \E j \in 1..(k - 1) : ss[j] # <<>>
      BY <1>4, <2>1
    <2>5. (\E j \in 1..k : ss[j] # <<>>) <=> (\E j \in 1..(k - 1) : ss[j] # <<>>) \/ ss[k] # <<>>
      BY <1>0
    <2> QED
      BY <2>1, <2>3, <2>4, <2>5
  <1>5. \A k \in 0..n : k \in T
    <2> HIDE DEF T
    <2> QED
      BY <1>0, <1>3, <1>4, UpTo
  <1>6. n \in T
    BY <1>0, <1>5
  <1> QED
    BY <1>2, <1>5, <1>6

\* What is said of blocks is typed, and there are calls where there are.
LEMMA AllTyped ==
    ASSUME NEW up, NEW blocks \in Seq(Blocks)
    PROVE  /\ AllText(blocks) \in Seq(Strings)
           /\ AllThinking(up, blocks) \in Seq(Strings)
           /\ AllTools(up, blocks) \in Seq(Tools)
           /\ AllTools(up, blocks) # <<>> <=> HasCall(blocks)
           /\ \A b \in Blocks : /\ TextOf(b) \in Seq(Strings) /\ ThinkingOf(up, b) \in Seq(Strings)
                                /\ ToolsOf(up, b) \in Seq(Tools)
  <1>0. DOMAIN blocks = 1..Len(blocks) /\ Len(blocks) \in Nat /\ \A i \in 1..Len(blocks) : blocks[i] \in Blocks
    OBVIOUS
  <1>1. ASSUME NEW b \in Blocks
        PROVE  /\ TextOf(b) \in Seq(Strings) /\ ThinkingOf(up, b) \in Seq(Strings)
               /\ ToolsOf(up, b) \in Seq(Tools) /\ (ToolsOf(up, b) # <<>> <=> b.type = "tool_use")
    <2>0. <<>> \in Seq(Strings) /\ <<>> \in Seq(Tools)
      OBVIOUS
    <2>1. b.type \in {"text", "thinking"} => b.text \in Seq(Strings)
      <3>1. b.type \in {"text", "thinking"} => b.text \in Seq(STRING)
        BY DEF Blocks
      <3> QED
        BY <3>1, SeqStrings
    <2>2. CASE b.type = "tool_use"
      <3>1. PICK c : c = Tool(IF up = "gemini" THEN b.name ELSE b.id, b.name, Serialised(b.input))
        OBVIOUS
      <3>2. b.name \in Strings /\ b.id \in Strings /\ b.input \in Strings
        BY <2>2 DEF Blocks, Strings
      <3>3. Serialised(b.input) \in Seq(Strings)
        BY <3>2, SerialTyped
      <3>4. c \in Tools
        BY <3>1, <3>2, <3>3 DEF Tool, Tools
      <3>5. ToolsOf(up, b) = <<c>>
        BY <2>2, <3>1 DEF ToolsOf
      <3>6. <<c>> \in Seq(Tools) /\ <<c>> # <<>>
        BY <3>4, SeqOne, ListOne, ListEmpty
      <3> QED
        BY <2>0, <2>2, <3>5, <3>6 DEF TextOf, ThinkingOf
    <2>3. CASE b.type # "tool_use"
      BY <2>0, <2>1, <2>3 DEF TextOf, ThinkingOf, ToolsOf, Blocks
    <2> QED
      BY <2>2, <2>3
  <1>2. AllText(blocks) \in Seq(Strings)
    <2>1. PICK ss : ss = [i \in DOMAIN blocks |-> TextOf(blocks[i])]
      OBVIOUS
    <2>2. ss = [i \in 1..Len(blocks) |-> ss[i]] /\ \A i \in 1..Len(blocks) : ss[i] = TextOf(blocks[i])
      BY <1>0, <2>1
    <2>3. IsList(ss) /\ Len(ss) = Len(blocks)
      BY <1>0, <2>2, ListMake
    <2>4. \A k \in 1..Len(ss) : ss[k] \in Seq(Strings)
      BY <1>0, <1>1, <2>2, <2>3
    <2>5. FlattenSeq(ss) \in Seq(Strings)
      <3>1. PICK run : (\A k \in 0..Len(ss) : run[k] \in Seq(Strings)) /\ FlattenSeq(ss) = run[Len(ss)]
        BY <2>3, <2>4, FlatTyped
      <3> QED
        BY <1>0, <2>3, <3>1
    <2> QED
      BY <2>1, <2>5 DEF AllText
  <1>3. AllThinking(up, blocks) \in Seq(Strings)
    <2>1. PICK ss : ss = [i \in DOMAIN blocks |-> ThinkingOf(up, blocks[i])]
      OBVIOUS
    <2>2. ss = [i \in 1..Len(blocks) |-> ss[i]] /\ \A i \in 1..Len(blocks) : ss[i] = ThinkingOf(up, blocks[i])
      BY <1>0, <2>1
    <2>3. IsList(ss) /\ Len(ss) = Len(blocks)
      BY <1>0, <2>2, ListMake
    <2>4. \A k \in 1..Len(ss) : ss[k] \in Seq(Strings)
      BY <1>0, <1>1, <2>2, <2>3
    <2>5. FlattenSeq(ss) \in Seq(Strings)
      <3>1. PICK run : (\A k \in 0..Len(ss) : run[k] \in Seq(Strings)) /\ FlattenSeq(ss) = run[Len(ss)]
        BY <2>3, <2>4, FlatTyped
      <3> QED
        BY <1>0, <2>3, <3>1
    <2> QED
      BY <2>1, <2>5 DEF AllThinking
  <1>4. AllTools(up, blocks) \in Seq(Tools) /\ (AllTools(up, blocks) # <<>> <=> HasCall(blocks))
    <2>1. PICK ss : ss = [i \in DOMAIN blocks |-> ToolsOf(up, blocks[i])]
      OBVIOUS
    <2>2. ss = [i \in 1..Len(blocks) |-> ss[i]] /\ \A i \in 1..Len(blocks) : ss[i] = ToolsOf(up, blocks[i])
      BY <1>0, <2>1
    <2>3. IsList(ss) /\ Len(ss) = Len(blocks)
      BY <1>0, <2>2, ListMake
    <2>4. \A k \in 1..Len(ss) : ss[k] \in Seq(Tools)
      BY <1>0, <1>1, <2>2, <2>3
    <2>5. PICK run : /\ \A k \in 0..Len(ss) : run[k] \in Seq(Tools)
                     /\ FlattenSeq(ss) = run[Len(ss)]
                     /\ FlattenSeq(ss) # <<>> <=> \E k \in 1..Len(ss) : ss[k] # <<>>
      BY <2>3, <2>4, FlatTyped
    <2>6. FlattenSeq(ss) \in Seq(Tools)
      BY <1>0, <2>3, <2>5
    <2>7. (\E k \in 1..Len(ss) : ss[k] # <<>>) <=> HasCall(blocks)
      BY <1>0, <1>1, <2>2, <2>3 DEF HasCall
    <2> QED
      BY <2>1, <2>5, <2>6, <2>7 DEF AllTools
  <1> QED
    BY <1>1, <1>2, <1>3, <1>4

\* The lines of the blocks add the blocks.
LEMMA BlocksGo ==
    ASSUME NEW t, t.up \in Dialects, t.answer.blocks \in Seq(Blocks),
           NEW u \in Tokens, NEW stage \in Begun(t.up)
    PROVE  \E s \in Begun(t.up) :
             Goes(t, FlattenSeq([i \in DOMAIN t.answer.blocks |-> BlockLines(t, t.answer.blocks[i])]),
                  Mid(t.up, u, stage, <<>>, <<>>, <<>>),
                  Mid(t.up, u, s, AllText(t.answer.blocks), AllThinking(t.up, t.answer.blocks),
                      AllTools(t.up, t.answer.blocks)))
  <1>1. PICK blocks, n : blocks = t.answer.blocks /\ n = Len(blocks)
    OBVIOUS
  <1>2. n \in Nat /\ DOMAIN blocks = 1..n /\ \A i \in 1..n : blocks[i] \in Blocks
    BY <1>1
  <1>3. PICK ls, xs, ys, zs :
           /\ ls = [i \in DOMAIN blocks |-> BlockLines(t, blocks[i])]
           /\ xs = [i \in DOMAIN blocks |-> TextOf(blocks[i])]
           /\ ys = [i \in DOMAIN blocks |-> ThinkingOf(t.up, blocks[i])]
           /\ zs = [i \in DOMAIN blocks |-> ToolsOf(t.up, blocks[i])]
    OBVIOUS
  <1>4. /\ ls = [i \in 1..n |-> ls[i]] /\ xs = [i \in 1..n |-> xs[i]]
        /\ ys = [i \in 1..n |-> ys[i]] /\ zs = [i \in 1..n |-> zs[i]]
        /\ \A i \in 1..n : /\ ls[i] = BlockLines(t, blocks[i]) /\ xs[i] = TextOf(blocks[i])
                           /\ ys[i] = ThinkingOf(t.up, blocks[i]) /\ zs[i] = ToolsOf(t.up, blocks[i])
    BY <1>2, <1>3
  <1>5. /\ IsList(ls) /\ Len(ls) = n /\ IsList(xs) /\ Len(xs) = n
        /\ IsList(ys) /\ Len(ys) = n /\ IsList(zs) /\ Len(zs) = n
    BY <1>2, <1>4, ListMake
  <1>6. \A i \in 1..n : xs[i] \in Seq(Strings) /\ ys[i] \in Seq(Strings) /\ zs[i] \in Seq(Tools)
    <2>1. \A b \in Blocks : /\ TextOf(b) \in Seq(Strings) /\ ThinkingOf(t.up, b) \in Seq(Strings)
                            /\ ToolsOf(t.up, b) \in Seq(Tools)
      BY AllTyped
    <2> QED
      BY <1>2, <1>4, <2>1
  <1>7. \A i \in 1..n : IsList(ls[i])
    <2>1. ASSUME NEW b \in Blocks PROVE IsList(BlockLines(t, b))
      <3>1. <<>> \in Seq(Strings) /\ <<>> \in Seq(Tools)
        OBVIOUS
      <3>2. PICK s \in Begun(t.up) : Goes(t, BlockLines(t, b), Mid(t.up, u, stage, <<>>, <<>>, <<>>),
                  Mid(t.up, u, s, <<>> \o TextOf(b), <<>> \o ThinkingOf(t.up, b), <<>> \o ToolsOf(t.up, b)))
        BY <3>1, BlockGoes
      <3> QED
        BY <3>2 DEF Goes
    <2> QED
      BY <1>2, <1>4, <2>1
  <1>8. PICK L : /\ L[0] = <<>>
                 /\ \A k \in 1..Len(ls) : L[k] = L[k - 1] \o ls[k]
                 /\ \A k \in 0..Len(ls) : IsList(L[k])
                 /\ FlattenSeq(ls) = L[Len(ls)]
    <2>1. \A i \in 1..Len(ls) : IsList(ls[i])
      BY <1>5, <1>7
    <2> QED
      BY <1>5, <2>1, FlatRun, Zenon
  <1>9. PICK X : /\ X[0] = <<>>
                 /\ \A k \in 1..Len(xs) : X[k] = X[k - 1] \o xs[k]
                 /\ \A k \in 0..Len(xs) : X[k] \in Seq(Strings)
                 /\ FlattenSeq(xs) = X[Len(xs)]
                 /\ FlattenSeq(xs) # <<>> <=> \E k \in 1..Len(xs) : xs[k] # <<>>
    <2>1. \A i \in 1..Len(xs) : xs[i] \in Seq(Strings)
      BY <1>5, <1>6
    <2> QED
      BY <1>5, <2>1, FlatTyped, Zenon
  <1>10. PICK Y : /\ Y[0] = <<>>
                  /\ \A k \in 1..Len(ys) : Y[k] = Y[k - 1] \o ys[k]
                  /\ \A k \in 0..Len(ys) : Y[k] \in Seq(Strings)
                  /\ FlattenSeq(ys) = Y[Len(ys)]
                  /\ FlattenSeq(ys) # <<>> <=> \E k \in 1..Len(ys) : ys[k] # <<>>
    <2>1. \A i \in 1..Len(ys) : ys[i] \in Seq(Strings)
      BY <1>5, <1>6
    <2> QED
      BY <1>5, <2>1, FlatTyped, Zenon
  <1>11. PICK Z : /\ Z[0] = <<>>
                  /\ \A k \in 1..Len(zs) : Z[k] = Z[k - 1] \o zs[k]
                  /\ \A k \in 0..Len(zs) : Z[k] \in Seq(Tools)
                  /\ FlattenSeq(zs) = Z[Len(zs)]
                  /\ FlattenSeq(zs) # <<>> <=> \E k \in 1..Len(zs) : zs[k] # <<>>
    <2>1. \A i \in 1..Len(zs) : zs[i] \in Seq(Tools)
      BY <1>5, <1>6
    <2> QED
      BY <1>5, <2>1, FlatTyped, Zenon
  <1> DEFINE q == Mid(t.up, u, stage, <<>>, <<>>, <<>>)
             S == {k \in 0..n : \E s \in Begun(t.up) : Goes(t, L[k], q, Mid(t.up, u, s, X[k], Y[k], Z[k]))}
  <1>12. 0 \in S
    <2>1. stage \in {"none", "open", "call"} /\ <<>> \in Seq(Strings) /\ <<>> \in Seq(Tools)
      BY DEF Begun
    <2>2. q.w \in Points /\ Right(t, q.w)
      BY <2>1, MidRight
    <2>3. Goes(t, <<>>, q, q)
      <3> HIDE DEF q
      <3> QED
        BY <2>2, GoNil
    <2> QED
      BY <1>2, <1>8, <1>9, <1>10, <1>11, <2>3
  <1>13. ASSUME NEW k \in 1..n, k - 1 \in S PROVE k \in S
    <2>1. PICK s \in Begun(t.up) : Goes(t, L[k - 1], q, Mid(t.up, u, s, X[k - 1], Y[k - 1], Z[k - 1]))
      BY <1>13
    <2>2. k - 1 \in 0..n /\ k \in 1..n /\ k \in 0..n
      BY <1>2
    <2>3. X[k - 1] \in Seq(Strings) /\ Y[k - 1] \in Seq(Strings) /\ Z[k - 1] \in Seq(Tools)
      BY <1>5, <1>9, <1>10, <1>11, <2>2
    <2>4. blocks[k] \in Blocks
      BY <1>2
    <2>5. PICK s2 \in Begun(t.up) :
             Goes(t, BlockLines(t, blocks[k]), Mid(t.up, u, s, X[k - 1], Y[k - 1], Z[k - 1]),
                  Mid(t.up, u, s2, X[k - 1] \o TextOf(blocks[k]), Y[k - 1] \o ThinkingOf(t.up, blocks[k]),
                      Z[k - 1] \o ToolsOf(t.up, blocks[k])))
      BY <2>3, <2>4, BlockGoes
    <2>6. /\ L[k] = L[k - 1] \o BlockLines(t, blocks[k]) /\ X[k] = X[k - 1] \o TextOf(blocks[k])
          /\ Y[k] = Y[k - 1] \o ThinkingOf(t.up, blocks[k]) /\ Z[k] = Z[k - 1] \o ToolsOf(t.up, blocks[k])
      <3>1. L[k] = L[k - 1] \o ls[k]
        BY <1>5, <1>8, <2>2
      <3>2. X[k] = X[k - 1] \o xs[k]
        BY <1>5, <1>9, <2>2
      <3>3. Y[k] = Y[k - 1] \o ys[k]
        BY <1>5, <1>10, <2>2
      <3>4. Z[k] = Z[k - 1] \o zs[k]
        BY <1>5, <1>11, <2>2
      <3> QED
        BY <1>4, <2>2, <3>1, <3>2, <3>3, <3>4, Zenon
    <2>7. Goes(t, BlockLines(t, blocks[k]), Mid(t.up, u, s, X[k - 1], Y[k - 1], Z[k - 1]),
               Mid(t.up, u, s2, X[k], Y[k], Z[k]))
      BY <2>5, <2>6
    <2> HIDE DEF q
    <2>8. Goes(t, L[k - 1] \o BlockLines(t, blocks[k]), q, Mid(t.up, u, s2, X[k], Y[k], Z[k]))
      BY <2>1, <2>7, GoConcat
    <2> QED
      BY <2>2, <2>6, <2>8
  <1>14. n \in S
    <2>1. \A k \in 0..n : k \in S
      <3> HIDE DEF S
      <3> QED
        BY <1>2, <1>12, <1>13, UpTo
    <2> QED
      BY <1>2, <2>1
  <1>15. /\ L[n] = FlattenSeq([i \in DOMAIN t.answer.blocks |-> BlockLines(t, t.answer.blocks[i])])
         /\ X[n] = AllText(t.answer.blocks) /\ Y[n] = AllThinking(t.up, t.answer.blocks)
         /\ Z[n] = AllTools(t.up, t.answer.blocks)
    BY <1>1, <1>3, <1>5, <1>8, <1>9, <1>10, <1>11 DEF AllText, AllThinking, AllTools
  <1> HIDE DEF q
  <1> QED
    BY <1>14, <1>15 DEF q

\* A point at the end.
Over(u, seen, text, thinking, tools, stop) ==
  [stage |-> "over", seen |-> seen,
   agg |-> [text |-> text, thinking |-> thinking, tools |-> tools, usage |-> u, stop |-> <<stop>>]]

\* Usage is merged, before the end and after it.
LEMMA AtUsage ==
    ASSUME NEW u \in Tokens, NEW v \in Tokens, NEW seen \in BOOLEAN, NEW stage \in {"open", "call"},
           NEW text \in Seq(Strings), NEW thinking \in Seq(Strings), NEW tools \in Seq(Tools)
    PROVE  Walks(<<UsageDelta(v)>>, At(u, seen, stage, text, thinking, tools),
                 At(Merge(u, v), TRUE, stage, text, thinking, tools))
  <1> DEFINE w == At(u, seen, stage, text, thinking, tools)
  <1>1. w \in Points
    BY AtTyped DEF Stages
  <1>2. Legal(w, UsageDelta(v))
    BY DEF Legal, At, UsageDelta, Events
  <1>3. After(w, UsageDelta(v)) = At(Merge(u, v), TRUE, stage, text, thinking, tools)
    <2>1. PICK e : e = UsageDelta(v)
      OBVIOUS
    <2>2. e.ev = "usage_delta" /\ e.usage = v
      BY <2>1 DEF UsageDelta
    <2>3. StageAfter(stage, e) = stage
      BY <2>2 DEF StageAfter
    <2>4. Push(w.agg, e) = [text |-> text, thinking |-> thinking, tools |-> tools, usage |-> Merge(u, v), stop |-> <<>>]
      BY <2>2 DEF Push, At
    <2>5. (seen \/ e.ev = "usage_delta") = TRUE
      BY <2>2
    <2> QED
      BY <2>1, <2>3, <2>4, <2>5 DEF After, At
  <1> QED
    BY <1>1, <1>2, <1>3, WalkOne

\* Usage told after the end replaces what was told before.
LEMMA OverUsage ==
    ASSUME NEW u \in Tokens, NEW v \in Tokens, NEW seen \in BOOLEAN,
           NEW text \in Seq(Strings), NEW thinking \in Seq(Strings), NEW tools \in Seq(Tools), NEW stop \in Strings
    PROVE  /\ Over(u, seen, text, thinking, tools, stop) \in Points
           /\ Walks(<<UsageDelta(v)>>, Over(u, seen, text, thinking, tools, stop),
                    Over(Merge(u, v), TRUE, text, thinking, tools, stop))
  <1> DEFINE w == Over(u, seen, text, thinking, tools, stop)
  <1>1. w \in Points
    <2>1. <<stop>> \in Seq(Strings)
      BY SeqOne
    <2> QED
      BY <2>1 DEF Over, Points, Aggregators, Stages
  <1>2. Legal(w, UsageDelta(v))
    BY DEF Legal, Over, UsageDelta, Events
  <1>3. After(w, UsageDelta(v)) = Over(Merge(u, v), TRUE, text, thinking, tools, stop)
    <2>1. PICK e : e = UsageDelta(v)
      OBVIOUS
    <2>2. e.ev = "usage_delta" /\ e.usage = v
      BY <2>1 DEF UsageDelta
    <2>3. StageAfter("over", e) = "over"
      BY <2>2 DEF StageAfter
    <2>4. Push(w.agg, e) = [text |-> text, thinking |-> thinking, tools |-> tools, usage |-> Merge(u, v), stop |-> <<stop>>]
      BY <2>2 DEF Push, Over
    <2>5. (seen \/ e.ev = "usage_delta") = TRUE
      BY <2>2
    <2> QED
      BY <2>1, <2>3, <2>4, <2>5 DEF After, Over
  <1> QED
    BY <1>1, <1>2, <1>3, WalkOne

\* Done is the end.
LEMMA AtDone ==
    ASSUME NEW u \in Tokens, NEW seen \in BOOLEAN, NEW stage \in {"open", "call"},
           NEW text \in Seq(Strings), NEW thinking \in Seq(Strings), NEW tools \in Seq(Tools), NEW stop \in Strings
    PROVE  Walks(<<Done(stop)>>, At(u, seen, stage, text, thinking, tools),
                 Over(u, seen, text, thinking, tools, stop))
  <1> DEFINE w == At(u, seen, stage, text, thinking, tools)
  <1>1. w \in Points
    BY AtTyped DEF Stages
  <1>2. Legal(w, Done(stop))
    BY DEF Legal, At, Done, Events
  <1>3. After(w, Done(stop)) = Over(u, seen, text, thinking, tools, stop)
    <2>1. PICK e : e = Done(stop)
      OBVIOUS
    <2>2. e.ev = "done" /\ e.stop = stop
      BY <2>1 DEF Done
    <2>3. StageAfter(stage, e) = "over"
      BY <2>2 DEF StageAfter
    <2>4. Push(w.agg, e) = [text |-> text, thinking |-> thinking, tools |-> tools, usage |-> u, stop |-> <<stop>>]
      BY <2>2 DEF Push, At
    <2>5. (seen \/ e.ev = "usage_delta") = seen
      BY <2>2
    <2>6. w.seen = seen
      BY DEF At
    <2> QED
      BY <2>1, <2>3, <2>4, <2>5, <2>6 DEF After, At, Over
  <1> QED
    BY <1>1, <1>2, <1>3, WalkOne

\* Two events, one after the other.
LEMMA WalkTwo ==
    ASSUME NEW d, NEW e, NEW w, NEW x, NEW y, Walks(<<d>>, w, x), Walks(<<e>>, x, y)
    PROVE  Walks(<<d>> \o <<e>>, w, y)
  BY WalkConcat

\* What a usage becomes on the way.
LEMMA UsageTold ==
    ASSUME NEW u \in Tokens
    PROVE  /\ ParseUsageChat(EmitUsageChat(u)) = u
           /\ ParseUsageAnthropic(EmitUsageAnthropic(u)) = u
           /\ ParseUsageResponses(EmitUsageResponses(u)) = u
           /\ ParseUsageGemini(EmitUsageGemini(u)) = u
           /\ NoTokens \in Tokens /\ Merge(NoTokens, u) = u
           /\ [u EXCEPT !.output = 0] \in Tokens /\ [NoTokens EXCEPT !.output = u.output] \in Tokens
           /\ Merge(NoTokens, [u EXCEPT !.output = 0]) = [u EXCEPT !.output = 0]
           /\ Merge([u EXCEPT !.output = 0], [NoTokens EXCEPT !.output = u.output]) = u
  BY DEF ParseUsageChat, EmitUsageChat, ParseUsageAnthropic, EmitUsageAnthropic, ParseUsageResponses,
         EmitUsageResponses, ParseUsageGemini, EmitUsageGemini, NoTokens, Tokens, Merge, Larger

\* Reported usage is a record of tokens.
LEMMA UsageTyped ==
    ASSUME NEW up, NEW tokens \in [fresh : Nat, output : Nat, cached : Nat]
    PROVE  Usage(up, tokens) \in Tokens
  BY DEF Usage, Tokens

\* The stop reasons are strings, also when told.
LEMMA StopTyped ==
    ASSUME NEW t \in Turns
    PROVE  /\ t.up \in Dialects /\ t.answer \in Answers /\ t.answer.blocks \in Seq(Blocks)
           /\ t.answer.stop \in StopReasons
           /\ t.answer.tokens \in [fresh : Nat, output : Nat, cached : Nat]
           /\ StopTold(t) \in StopReasons /\ StopTold(t) \in Strings
  <1>1. t.up \in Dialects /\ t.answer \in Answers
    BY DialectsAssumption DEF Turns
  <1>2. /\ t.answer.blocks \in Seq(Blocks) /\ t.answer.stop \in StopReasons
        /\ t.answer.tokens \in [fresh : Nat, output : Nat, cached : Nat]
    BY <1>1, AnswersAssumption
  <1>3. StopTold(t) \in StopReasons
    BY <1>1, <1>2 DEF StopTold, StopReasons, Dialects, FinishToStop, StopToFinish, GeminiFinishToStop, StopToGeminiFinish
  <1>4. StopReasons \subseteq Strings
    BY DEF Strings
  <1> QED
    BY <1>1, <1>2, <1>3, <1>4

\* Before the first line.
Start == [st |-> NewDecoder, w |-> Outset]

\* Dialects without message_start begin in the middle.
LEMMA StartIs ==
    ASSUME NEW up, up # "anthropic"
    PROVE  Mid(up, NoTokens, "none", <<>>, <<>>, <<>>) = Start
  <1>1. PICK b : b = (up = "anthropic")
    OBVIOUS
  <1>2. b = FALSE
    BY <1>1
  <1>3. Stand(up, "none" # "none", <<>> # <<>>) = NewDecoder
    BY DEF Stand, NewDecoder
  <1>4. At(NoTokens, up = "anthropic", "none", <<>>, <<>>, <<>>) = Outset
    BY <1>1, <1>2 DEF At, Outset, NewAggregator
  <1> QED
    BY <1>3, <1>4 DEF Mid, Start

\* The usage an upstream told before the content.
Early(t) == IF t.up = "anthropic" THEN [Usage(t.up, t.answer.tokens) EXCEPT !.output = 0] ELSE NoTokens

\* The lines ahead of the content, and those behind it.
HeadLines(t) ==
  CASE t.up = "chat" -> <<Chunk([NoDelta EXCEPT !.role = TRUE], <<>>)>>
    [] t.up = "anthropic" ->
         <<[kind |-> "message_start",
            usage |-> <<EmitUsageAnthropic([Usage("anthropic", t.answer.tokens) EXCEPT !.output = 0])>>]>>
    [] t.up = "responses" -> <<[kind |-> "response.created"]>>
    [] t.up = "gemini" -> <<>>

TailLines(t) ==
  LET u == Usage(t.up, t.answer.tokens)
      finish == Chunk(NoDelta, <<StopToFinish(t.answer.stop)>>)
  IN
  CASE t.up = "chat" -> (IF t.shared THEN <<[finish EXCEPT !.usage = <<EmitUsageChat(u)>>]>>
                         ELSE <<finish, UsageChunk(u)>>) \o <<Sentinel>>
    [] t.up = "anthropic" ->
         <<[kind |-> "message_delta", stop |-> t.answer.stop,
            usage |-> EmitUsageAnthropic([NoTokens EXCEPT !.output = u.output])],
           [kind |-> "message_stop"]>>
    [] t.up = "responses" ->
         <<[kind |-> IF t.answer.stop = "max_tokens" THEN "response.incomplete" ELSE "response.completed",
            usage |-> <<EmitUsageResponses(u)>>]>>
    [] t.up = "gemini" ->
         <<[Parts(<<>>) EXCEPT !.finish = <<StopToGeminiFinish(t.answer.stop)>>,
                               !.usage = <<EmitUsageGemini(u)>>]>>

\* The stream is begun by its head.
LEMMA HeadGoes ==
    ASSUME NEW t \in Turns
    PROVE  \E s \in Begun(t.up) :
             Goes(t, HeadLines(t), Start, Mid(t.up, Early(t), s, <<>>, <<>>, <<>>))
  <1>1. t.up \in Dialects /\ Usage(t.up, t.answer.tokens) \in Tokens
    BY StopTyped, UsageTyped
  <1>2. NoTokens \in Tokens /\ <<>> \in Seq(Strings) /\ <<>> \in Seq(Tools)
    BY DEF NoTokens, Tokens
  <1>3. Early(t) \in Tokens
    BY <1>1, <1>2, UsageTold DEF Early
  <1>4. Start.w \in Points /\ Right(t, Start.w)
    BY OutsetTyped DEF Start, Right, Outset
  <1>5. CASE t.up = "gemini"
    <2>1. Start = Mid(t.up, Early(t), "none", <<>>, <<>>, <<>>)
      BY <1>5, StartIs DEF Early
    <2>2. HeadLines(t) = <<>>
      BY <1>5 DEF HeadLines
    <2>3. "none" \in Begun(t.up)
      BY <1>5 DEF Begun
    <2> QED
      BY <1>4, <2>1, <2>2, <2>3, GoNil
  <1> DEFINE r == Mid(t.up, Early(t), "open", <<>>, <<>>, <<>>)
  <1>6. r.w \in Points /\ Right(t, r.w)
    BY <1>2, <1>3, MidRight
  <1>7. "open" \in Begun(t.up)
    BY DEF Begun
  <1>8. r.w = At(Early(t), t.up = "anthropic", "open", <<>>, <<>>, <<>>) /\ r.st = Stand(t.up, TRUE, FALSE)
    BY DEF Mid, Stand
  <1>9. CASE t.up = "chat"
    <2>1. PICK line : line = Chunk([NoDelta EXCEPT !.role = TRUE], <<>>)
      OBVIOUS
    <2>2. Early(t) = NoTokens
      BY <1>9 DEF Early
    <2>3. Walks(<<MessageStart>>, Start.w, r.w)
      <3>1. Start.w = At(NoTokens, FALSE, "none", <<>>, <<>>, <<>>)
        BY DEF Start, Outset, At, NewAggregator
      <3>2. r.w = At(NoTokens, FALSE, "open", <<>>, <<>>, <<>>)
        BY <1>9, <2>2 DEF Mid
      <3> HIDE DEF r
      <3> QED
        BY <1>2, <3>1, <3>2, AtBegin
    <2>4. DecodeChat(line, NewDecoder) = Decoded([NewDecoder EXCEPT !.started = TRUE], <<MessageStart>>)
      <3>1. <<1>> # <<>>
        OBVIOUS
      <3>2. PICK d : d = [NoDelta EXCEPT !.role = TRUE]
        OBVIOUS
      <3>3. DeltaEvents(d) = <<>>
        BY <3>1, <3>2, DeltaSays
      <3>4. /\ line.kind = "chunk" /\ line.choice # <<>> /\ line.choice[1] = d
            /\ line.finish = <<>> /\ line.usage = <<>>
        BY <2>1, <3>2 DEF Chunk
      <3>5. ~NewDecoder.started
        BY DEF NewDecoder
      <3>6. DecodeChat(line, NewDecoder)
              = Decoded([NewDecoder EXCEPT !.started = TRUE], ((<<MessageStart>> \o <<>>) \o <<>>) \o <<>>)
        BY <3>3, <3>4, <3>5 DEF DecodeChat, Opt, Reported
      <3>7. <<MessageStart>> \o <<>> = <<MessageStart>>
        BY ListOne, ConcatNil
      <3> QED
        BY <3>6, <3>7
    <2>5. r.st = [NewDecoder EXCEPT !.started = TRUE]
      <3>1. NewDecoder = [started |-> FALSE, toolOpen |-> FALSE, stop |-> <<>>]
        BY DEF NewDecoder
      <3>2. r.st = [started |-> TRUE, toolOpen |-> FALSE, stop |-> <<>>]
        BY <1>9 DEF Mid, Stand
      <3> HIDE DEF r
      <3> QED
        <4>1. PICK st, x, y : st = NewDecoder /\ x = TRUE /\ y = FALSE
          OBVIOUS
        <4>2. st = [started |-> y, toolOpen |-> y, stop |-> <<>>]
          BY <3>1, <4>1
        <4>3. [st EXCEPT !.started = x] = [started |-> x, toolOpen |-> y, stop |-> <<>>]
          BY <4>2
        <4>4. r.st = [started |-> x, toolOpen |-> y, stop |-> <<>>]
          BY <3>2, <4>1
        <4>5. r.st = [st EXCEPT !.started = x]
          BY <4>3, <4>4
        <4> QED
          BY <4>1, <4>5
    <2>6. DecodeLine(t.up, line, Start.st) = Decoded(r.st, <<MessageStart>>)
      BY <1>9, <2>4, <2>5 DEF DecodeLine, Start
    <2> HIDE DEF r
    <2>7. Step(t.up, Start, line, r)
      BY <2>3, <2>6 DEF Step, Decoded
    <2>8. HeadLines(t) = <<line>>
      BY <1>9, <2>1 DEF HeadLines
    <2> QED
      BY <1>4, <1>6, <1>7, <2>7, <2>8, GoOne DEF r
  <1>10. CASE t.up = "anthropic"
    <2> DEFINE v == [Usage("anthropic", t.answer.tokens) EXCEPT !.output = 0]
    <2>1. PICK line : line = [kind |-> "message_start", usage |-> <<EmitUsageAnthropic(v)>>]
      OBVIOUS
    <2>2. Early(t) = v
      BY <1>10 DEF Early
    <2>3. ParseUsageAnthropic(EmitUsageAnthropic(v)) = v
      BY <1>3, <2>2, UsageTold
    <2>4. Walks(<<MessageStart>>, Start.w, At(NoTokens, FALSE, "open", <<>>, <<>>, <<>>))
      <3>1. Start.w = At(NoTokens, FALSE, "none", <<>>, <<>>, <<>>)
        BY DEF Start, Outset, At, NewAggregator
      <3> QED
        BY <1>2, <3>1, AtBegin
    <2>5. Walks(<<UsageDelta(v)>>, At(NoTokens, FALSE, "open", <<>>, <<>>, <<>>), r.w)
      <3>1. Merge(NoTokens, v) = v
        BY <1>3, <2>2, UsageTold
      <3>2. r.w = At(v, TRUE, "open", <<>>, <<>>, <<>>)
        BY <1>10, <2>2 DEF Mid
      <3>3. Walks(<<UsageDelta(v)>>, At(NoTokens, FALSE, "open", <<>>, <<>>, <<>>), At(Merge(NoTokens, v), TRUE, "open", <<>>, <<>>, <<>>))
        BY <1>2, <1>3, <2>2, AtUsage
      <3> HIDE DEF r
      <3> QED
        BY <3>1, <3>2, <3>3
    <2>6. r.st = NewDecoder
      BY <1>10 DEF Mid, Stand, NewDecoder
    <2> HIDE DEF r
    <2>7. DecodeLine(t.up, line, Start.st) = Decoded(r.st, <<MessageStart>> \o <<UsageDelta(v)>>)
      <3> HIDE DEF v
      <3> QED
        BY <1>10, <2>1, <2>3, <2>6 DEF DecodeLine, DecodeAnthropic, Reported, Start
    <2>8. Step(t.up, Start, line, r)
      <3> HIDE DEF v
      <3> QED
        <4>1. PICK all : all = <<MessageStart>> \o <<UsageDelta(v)>>
          OBVIOUS
        <4>2. Walks(all, Start.w, r.w)
          BY <2>4, <2>5, <4>1, WalkConcat
        <4> QED
          BY <2>7, <4>1, <4>2 DEF Step, Decoded
    <2>9. HeadLines(t) = <<line>>
      BY <1>10, <2>1 DEF HeadLines
    <2> QED
      BY <1>4, <1>6, <1>7, <2>8, <2>9, GoOne DEF r
  <1>11. CASE t.up = "responses"
    <2>1. PICK line : line = [kind |-> "response.created"]
      OBVIOUS
    <2>2. Early(t) = NoTokens
      BY <1>11 DEF Early
    <2>3. Walks(<<MessageStart>>, Start.w, r.w)
      <3>1. Start.w = At(NoTokens, FALSE, "none", <<>>, <<>>, <<>>)
        BY DEF Start, Outset, At, NewAggregator
      <3>2. r.w = At(NoTokens, FALSE, "open", <<>>, <<>>, <<>>)
        BY <1>11, <2>2 DEF Mid
      <3> HIDE DEF r
      <3> QED
        BY <1>2, <3>1, <3>2, AtBegin
    <2>4. r.st = NewDecoder
      BY <1>11 DEF Mid, Stand, NewDecoder
    <2> HIDE DEF r
    <2>5. DecodeLine(t.up, line, Start.st) = Decoded(r.st, <<MessageStart>>)
      BY <1>11, <2>1, <2>4 DEF DecodeLine, DecodeResponses, Start
    <2>6. Step(t.up, Start, line, r)
      BY <2>3, <2>5 DEF Step, Decoded
    <2>7. HeadLines(t) = <<line>>
      BY <1>11, <2>1 DEF HeadLines
    <2> QED
      BY <1>4, <1>6, <1>7, <2>6, <2>7, GoOne DEF r
  <1> QED
    BY <1>1, <1>5, <1>9, <1>10, <1>11 DEF Dialects

\* The point an answer ends at, with its usage or without.
Ending(t, u, seen) ==
  Over(u, seen, AllText(t.answer.blocks), AllThinking(t.up, t.answer.blocks),
       AllTools(t.up, t.answer.blocks), StopTold(t))

\* The end of a stream is a point, and it is right.
LEMMA EndingRight ==
    ASSUME NEW t \in Turns, NEW u \in Tokens, NEW seen \in BOOLEAN,
           (t.up # "chat" \/ t.shared \/ seen) => u = Usage(t.up, t.answer.tokens)
    PROVE  Ending(t, u, seen) \in Points /\ Right(t, Ending(t, u, seen))
  <1>1. /\ AllText(t.answer.blocks) \in Seq(Strings) /\ AllThinking(t.up, t.answer.blocks) \in Seq(Strings)
        /\ AllTools(t.up, t.answer.blocks) \in Seq(Tools) /\ StopTold(t) \in Strings
    BY StopTyped, AllTyped
  <1>2. Ending(t, u, seen) \in Points
    BY <1>1, OverUsage DEF Ending
  <1>3. Right(t, Ending(t, u, seen))
    BY DEF Right, Ending, Over
  <1> QED
    BY <1>2, <1>3

\* The decoder is in its place, and its events take the point on.
LEMMA StepOf ==
    ASSUME NEW up, NEW line, NEW q, NEW r, NEW events,
           DecodeLine(up, line, q.st) = Decoded(r.st, events), Walks(events, q.w, r.w)
    PROVE  Step(up, q, line, r)
  BY DEF Step, Decoded

\* Lines of two, and of none.
LEMMA GoTwo ==
    ASSUME NEW t, NEW d, NEW e, NEW q, NEW r, NEW s, Goes(t, <<d>>, q, r), Goes(t, <<e>>, r, s)
    PROVE  Goes(t, <<d, e>>, q, s)
  <1>1. <<d>> \o <<e>> = <<d, e>>
    <2>1. PICK a, b : a = <<d>> \o <<e>> /\ b = <<d, e>>
      OBVIOUS
    <2>2. IsList(a) /\ Len(a) = 2 /\ a[1] = d /\ a[2] = e
      <3>1. PICK x, y : x = <<d>> /\ y = <<e>>
        OBVIOUS
      <3>2. IsList(x) /\ Len(x) = 1 /\ x[1] = d /\ IsList(y) /\ Len(y) = 1 /\ y[1] = e
        BY <3>1, ListOne
      <3>3. a = x \o y
        BY <2>1, <3>1
      <3>4. /\ IsList(a) /\ Len(a) = Len(x) + Len(y)
            /\ \A i \in 1..Len(x) : a[i] = x[i]
            /\ \A i \in 1..Len(y) : a[Len(x) + i] = y[i]
        <4>1. IsList(x) /\ IsList(y)
          BY <3>2
        <4> QED
          BY <3>3, <4>1, ListConcat
      <3> QED
        BY <3>2, <3>4
    <2>3. IsList(b) /\ Len(b) = 2 /\ b[1] = d /\ b[2] = e
      BY <2>1, ListTwo
    <2>4. a = b
      BY <2>2, <2>3, ListSame
    <2> QED
      BY <2>1, <2>4
  <1> QED
    BY <1>1, GoConcat

\* The stream is ended by its tail.
LEMMA AnthropicTail ==
    ASSUME NEW t \in Turns, t.up = "anthropic", NEW stage \in Begun(t.up),
           NEW text, text = AllText(t.answer.blocks),
           NEW thinking, thinking = AllThinking(t.up, t.answer.blocks),
           NEW tools, tools = AllTools(t.up, t.answer.blocks)
    PROVE  \E r : /\ Goes(t, TailLines(t), Mid(t.up, Early(t), stage, text, thinking, tools), r)
                  /\ r.w.stage = "over" /\ r.w.seen
  <1>1. PICK u, e, v, stop : /\ u = Usage(t.up, t.answer.tokens) /\ e = Early(t)
                             /\ v = [NoTokens EXCEPT !.output = u.output] /\ stop = t.answer.stop
    OBVIOUS
  <1>2. u \in Tokens /\ stop \in StopReasons
    BY <1>1, StopTyped, UsageTyped
  <1>3. e = [u EXCEPT !.output = 0]
    BY <1>1 DEF Early
  <1>4. e \in Tokens /\ v \in Tokens /\ Merge(e, v) = u /\ ParseUsageAnthropic(EmitUsageAnthropic(v)) = v
    BY <1>1, <1>2, <1>3, UsageTold
  <1>5. text \in Seq(Strings) /\ thinking \in Seq(Strings) /\ tools \in Seq(Tools) /\ StopTold(t) \in Strings
    BY StopTyped, AllTyped
  <1>6. stage \in {"open", "call"} /\ StopTold(t) = stop
    BY <1>1 DEF Begun, StopTold
  <1>7. PICK l1, l2 : /\ l1 = [kind |-> "message_delta", stop |-> stop, usage |-> EmitUsageAnthropic(v)]
                      /\ l2 = [kind |-> "message_stop"]
    OBVIOUS
  <1>8. TailLines(t) = <<l1, l2>>
    BY <1>1, <1>7 DEF TailLines
  <1> DEFINE q == Mid(t.up, e, stage, text, thinking, tools)
             m == [st |-> [NewDecoder EXCEPT !.stop = <<stop>>], w |-> At(u, TRUE, stage, text, thinking, tools)]
             r == [st |-> [NewDecoder EXCEPT !.stop = <<>>], w |-> Ending(t, u, TRUE)]
  <1>9. q.st = NewDecoder /\ q.w = At(e, TRUE, stage, text, thinking, tools)
    BY <1>6 DEF Mid, Stand, NewDecoder
  <1>10. Step(t.up, q, l1, m)
    <2>1. DecodeLine(t.up, l1, q.st) = Decoded(m.st, <<UsageDelta(v)>>)
      <3> HIDE DEF q
      <3> QED
        BY <1>4, <1>7, <1>9 DEF DecodeLine, DecodeAnthropic
    <2>2. Walks(<<UsageDelta(v)>>, At(e, TRUE, stage, text, thinking, tools), At(Merge(e, v), TRUE, stage, text, thinking, tools))
      BY <1>4, <1>5, <1>6, AtUsage
    <2>3. Walks(<<UsageDelta(v)>>, q.w, m.w)
      <3> HIDE DEF q
      <3> QED
        BY <1>4, <1>9, <2>2
    <2> HIDE DEF q, m
    <2> QED
      BY <2>1, <2>3, StepOf
  <1>11. Step(t.up, m, l2, r)
    <2>1. DecodeLine(t.up, l2, m.st) = Decoded(r.st, <<Done(stop)>>)
      <3>1. m.st.stop = <<stop>> /\ <<stop>> # <<>> /\ <<stop>>[1] = stop
        BY ListOne, ListEmpty DEF NewDecoder
      <3>2. r.st = [m.st EXCEPT !.stop = <<>>]
        BY DEF NewDecoder
      <3> HIDE DEF m, r
      <3> QED
        BY <1>7, <3>1, <3>2 DEF DecodeLine, DecodeAnthropic
    <2>2. Walks(<<Done(stop)>>, m.w, r.w)
      <3>1. Walks(<<Done(stop)>>, At(u, TRUE, stage, text, thinking, tools), Over(u, TRUE, text, thinking, tools, stop))
        BY <1>2, <1>5, <1>6, AtDone
      <3> QED
        BY <1>6, <3>1 DEF Ending
    <2> HIDE DEF m, r
    <2> QED
      BY <2>1, <2>2, StepOf
  <1>12. q.w \in Points /\ Right(t, q.w)
    BY <1>4, <1>5, <1>6, MidRight
  <1>13. m.w \in Points /\ Right(t, m.w)
    <2>1. m.w \in Points
      BY <1>2, <1>5, <1>6, AtTyped DEF Stages
    <2> QED
      BY <1>6, <2>1 DEF Right, At
  <1>14. r.w \in Points /\ Right(t, r.w) /\ r.w.stage = "over" /\ r.w.seen
    <2>1. r.w \in Points /\ Right(t, r.w)
      BY <1>1, <1>2, EndingRight
    <2> QED
      BY <2>1 DEF Ending, Over
  <1> HIDE DEF q, m, r
  <1>15. Goes(t, <<l1>>, q, m) /\ Goes(t, <<l2>>, m, r)
    BY <1>10, <1>11, <1>12, <1>13, <1>14, GoOne
  <1>16. Goes(t, <<l1, l2>>, q, r)
    BY <1>15, GoTwo
  <1> QED
    BY <1>1, <1>8, <1>14, <1>16 DEF q

\* response.completed ends a Responses stream rightly.
LEMMA ResponsesTail ==
    ASSUME NEW t \in Turns, t.up = "responses", NEW stage \in Begun(t.up),
           NEW text, text = AllText(t.answer.blocks),
           NEW thinking, thinking = AllThinking(t.up, t.answer.blocks),
           NEW tools, tools = AllTools(t.up, t.answer.blocks)
    PROVE  \E r : /\ Goes(t, TailLines(t), Mid(t.up, Early(t), stage, text, thinking, tools), r)
                  /\ r.w.stage = "over" /\ r.w.seen
  <1>1. PICK u, stop : u = Usage(t.up, t.answer.tokens) /\ stop = StopTold(t)
    OBVIOUS
  <1>2. u \in Tokens /\ stop \in Strings
    BY <1>1, StopTyped, UsageTyped
  <1>3. Early(t) = NoTokens /\ NoTokens \in Tokens /\ Merge(NoTokens, u) = u
        /\ ParseUsageResponses(EmitUsageResponses(u)) = u
    BY <1>2, UsageTold DEF Early
  <1>4. text \in Seq(Strings) /\ thinking \in Seq(Strings) /\ tools \in Seq(Tools)
        /\ (tools # <<>> <=> HasCall(t.answer.blocks))
    BY StopTyped, AllTyped
  <1>5. stage \in {"open", "call"}
    BY DEF Begun
  <1>6. PICK line : line = [kind |-> IF t.answer.stop = "max_tokens" THEN "response.incomplete" ELSE "response.completed",
                            usage |-> <<EmitUsageResponses(u)>>]
    OBVIOUS
  <1>7. TailLines(t) = <<line>>
    BY <1>1, <1>6 DEF TailLines
  <1> DEFINE q == Mid(t.up, NoTokens, stage, text, thinking, tools)
             r == [st |-> [q.st EXCEPT !.stop = <<>>], w |-> Ending(t, u, TRUE)]
  <1>8. q.st.stop = (IF tools # <<>> THEN <<"tool_use">> ELSE <<>>)
        /\ q.w = At(NoTokens, FALSE, stage, text, thinking, tools)
    BY DEF Mid, Stand
  <1>9. stop = IF q.st.stop = <<>> THEN "end_turn" ELSE q.st.stop[1]
    <2>1. stop = IF tools # <<>> THEN "tool_use" ELSE "end_turn"
      BY <1>1, <1>4 DEF StopTold
    <2>2. <<"tool_use">> # <<>> /\ <<"tool_use">>[1] = "tool_use"
      BY ListOne, ListEmpty
    <2> HIDE DEF q
    <2> QED
      BY <1>8, <2>1, <2>2
  <1>10. DecodeLine(t.up, line, q.st) = Decoded(r.st, <<UsageDelta(u)>> \o <<Done(stop)>>)
    <2>1. line.kind \in {"response.completed", "response.incomplete"} /\ line.usage = <<EmitUsageResponses(u)>>
      BY <1>6
    <2>2. line.usage # <<>> /\ line.usage[1] = EmitUsageResponses(u)
      BY <2>1, ListOne, ListEmpty
    <2> HIDE DEF q
    <2> QED
      BY <1>3, <1>9, <2>1, <2>2 DEF DecodeLine, DecodeResponses, Reported
  <1>11. Walks(<<UsageDelta(u)>> \o <<Done(stop)>>, q.w, r.w)
    <2>1. Walks(<<UsageDelta(u)>>, At(NoTokens, FALSE, stage, text, thinking, tools), At(Merge(NoTokens, u), TRUE, stage, text, thinking, tools))
      BY <1>2, <1>3, <1>4, <1>5, AtUsage
    <2>2. Walks(<<Done(stop)>>, At(u, TRUE, stage, text, thinking, tools), Over(u, TRUE, text, thinking, tools, stop))
      BY <1>2, <1>4, <1>5, AtDone
    <2>3. r.w = Over(u, TRUE, text, thinking, tools, stop)
      BY <1>1 DEF Ending
    <2> HIDE DEF q, r
    <2> QED
      BY <1>3, <1>8, <2>1, <2>2, <2>3, WalkConcat
  <1>12. q.w \in Points /\ Right(t, q.w)
    BY <1>3, <1>4, <1>5, MidRight
  <1>13. r.w \in Points /\ Right(t, r.w) /\ r.w.stage = "over" /\ r.w.seen
    <2>1. r.w \in Points /\ Right(t, r.w)
      BY <1>1, <1>2, EndingRight
    <2> QED
      BY <2>1 DEF Ending, Over
  <1> HIDE DEF q, r
  <1>14. Step(t.up, q, line, r)
    BY <1>10, <1>11, StepOf
  <1>15. Goes(t, <<line>>, q, r)
    BY <1>12, <1>13, <1>14, GoOne
  <1> QED
    BY <1>3, <1>7, <1>13, <1>15 DEF q

\* Gemini's last chunk ends its stream rightly.
LEMMA GeminiTail ==
    ASSUME NEW t \in Turns, t.up = "gemini", NEW stage \in Begun(t.up),
           NEW text, text = AllText(t.answer.blocks),
           NEW thinking, thinking = AllThinking(t.up, t.answer.blocks),
           NEW tools, tools = AllTools(t.up, t.answer.blocks)
    PROVE  \E r : /\ Goes(t, TailLines(t), Mid(t.up, Early(t), stage, text, thinking, tools), r)
                  /\ r.w.stage = "over" /\ r.w.seen
  <1>1. PICK u, stop, fin : /\ u = Usage(t.up, t.answer.tokens) /\ stop = StopTold(t)
                            /\ fin = StopToGeminiFinish(t.answer.stop)
    OBVIOUS
  <1>2. u \in Tokens /\ stop \in Strings
    BY <1>1, StopTyped, UsageTyped
  <1>3. Early(t) = NoTokens /\ NoTokens \in Tokens /\ Merge(NoTokens, u) = u
        /\ ParseUsageGemini(EmitUsageGemini(u)) = u
    BY <1>2, UsageTold DEF Early
  <1>4. text \in Seq(Strings) /\ thinking \in Seq(Strings) /\ tools \in Seq(Tools)
        /\ (tools # <<>> <=> HasCall(t.answer.blocks))
    BY StopTyped, AllTyped
  <1>5. stage \in {"none", "open", "call"}
    BY DEF Begun
  <1>6. PICK line : line = [Parts(<<>>) EXCEPT !.finish = <<fin>>, !.usage = <<EmitUsageGemini(u)>>]
    OBVIOUS
  <1>7. TailLines(t) = <<line>>
    BY <1>1, <1>6 DEF TailLines
  <1>8. line.kind = "chunk" /\ line.parts = <<>> /\ line.finish = <<fin>> /\ line.usage = <<EmitUsageGemini(u)>>
    BY <1>6 DEF Parts
  <1>9. PICK q : q = Mid(t.up, NoTokens, stage, text, thinking, tools)
    OBVIOUS
  <1>10. /\ q.st.toolOpen = (IF tools # <<>> THEN TRUE ELSE FALSE)
         /\ ~q.st.started <=> stage = "none"
         /\ q.w = At(NoTokens, FALSE, stage, text, thinking, tools)
    BY <1>9 DEF Mid, Stand
  <1>11. PICK tool : tool = (q.st.toolOpen \/ \E i \in DOMAIN line.parts : line.parts[i].type = "functionCall")
    OBVIOUS
  <1>12. tool = HasCall(t.answer.blocks)
    <2>1. DOMAIN line.parts = {}
      BY <1>8
    <2>2. tool = q.st.toolOpen
      BY <1>10, <1>11, <2>1
    <2>3. HasCall(t.answer.blocks) \in BOOLEAN
      BY DEF HasCall
    <2> QED
      BY <1>4, <1>10, <2>2, <2>3
  <1>13. stop = GeminiFinishToStop(fin, tool)
    BY <1>1, <1>12 DEF StopTold
  <1>14. PICK o : o = Opt(stage = "none", MessageStart)
    OBVIOUS
  <1> DEFINE es == o \o (<<UsageDelta(u)>> \o <<Done(stop)>>)
             r == [st |-> DecodeLine(t.up, line, q.st).st, w |-> Ending(t, u, TRUE)]
  <1>15. DecodeLine(t.up, line, q.st).events = es
    <2>1. <<fin>> # <<>> /\ <<fin>>[1] = fin /\ line.usage # <<>> /\ line.usage[1] = EmitUsageGemini(u)
      BY <1>8, ListOne, ListEmpty
    <2>2. Opt(~q.st.started, MessageStart) = o
      BY <1>10, <1>14 DEF Opt
    <2>3. IsList(o) /\ o \o <<>> = o
      BY <1>14, ListOne, ListEmpty, ConcatNil DEF Opt
    <2>4. Each(line.parts, PartEvents) = <<>>
      BY <1>8, EachNone
    <2>5. DecodeGemini(line, q.st).events = (o \o <<>>) \o (<<UsageDelta(u)>> \o <<Done(stop)>>)
      BY <1>3, <1>8, <1>11, <1>13, <2>1, <2>2, <2>4 DEF DecodeGemini, Reported, Decoded
    <2> QED
      BY <2>3, <2>5 DEF DecodeLine
  <1>16. Walks(es, q.w, r.w)
    <2>1. PICK s \in {"open", "call"} :
             Walks(Opt(stage = "none", MessageStart), At(NoTokens, FALSE, stage, text, thinking, tools),
                   At(NoTokens, FALSE, s, text, thinking, tools))
      BY <1>3, <1>4, <1>5, GeminiOpens
    <2>2. Walks(<<UsageDelta(u)>>, At(NoTokens, FALSE, s, text, thinking, tools), At(Merge(NoTokens, u), TRUE, s, text, thinking, tools))
      BY <1>2, <1>3, <1>4, AtUsage
    <2>3. Walks(<<Done(stop)>>, At(u, TRUE, s, text, thinking, tools), Over(u, TRUE, text, thinking, tools, stop))
      BY <1>2, <1>4, AtDone
    <2>4. r.w = Over(u, TRUE, text, thinking, tools, stop)
      BY <1>1 DEF Ending
    <2>5. Walks(<<UsageDelta(u)>> \o <<Done(stop)>>, At(NoTokens, FALSE, s, text, thinking, tools), Over(u, TRUE, text, thinking, tools, stop))
      BY <1>3, <2>2, <2>3, WalkConcat
    <2>6. Walks(o, At(NoTokens, FALSE, stage, text, thinking, tools), At(NoTokens, FALSE, s, text, thinking, tools))
      BY <1>14, <2>1
    <2> HIDE DEF r
    <2> QED
      BY <1>10, <2>4, <2>5, <2>6, WalkConcat
  <1>17. q.w \in Points /\ Right(t, q.w)
    BY <1>3, <1>4, <1>5, <1>9, MidRight
  <1>18. r.w \in Points /\ Right(t, r.w) /\ r.w.stage = "over" /\ r.w.seen
    <2>1. r.w \in Points /\ Right(t, r.w)
      BY <1>1, <1>2, EndingRight
    <2> QED
      BY <2>1 DEF Ending, Over
  <1>19. DecodeLine(t.up, line, q.st).st = r.st
    OBVIOUS
  <1> HIDE DEF r
  <1>20. Step(t.up, q, line, r)
    BY <1>15, <1>16, <1>19 DEF Step
  <1>21. Goes(t, <<line>>, q, r)
    BY <1>17, <1>18, <1>20, GoOne
  <1> QED
    BY <1>3, <1>7, <1>9, <1>18, <1>21

\* The decoder of a Chat stream that has begun.
Running(st) == st.started = TRUE /\ st = [st EXCEPT !.started = TRUE]

\* The lines that end a Chat stream: the finish with its usage, the finish
\* without, the usage on a line of its own.
LEMMA ChatEnds ==
    ASSUME NEW st, Running(st), NEW u \in Tokens, NEW f,
           NEW line, line.kind = "chunk"
    PROVE  /\ (line.choice = <<NoDelta>> /\ line.finish = <<f>> /\ line.usage = <<EmitUsageChat(u)>>)
                => DecodeChat(line, st) = Decoded(st, <<UsageDelta(u)>> \o <<Done(FinishToStop(f))>>)
           /\ (line.choice = <<NoDelta>> /\ line.finish = <<f>> /\ line.usage = <<>>)
                => DecodeChat(line, st) = Decoded(st, <<Done(FinishToStop(f))>>)
           /\ (line.choice = <<>> /\ line.finish = <<>> /\ line.usage = <<EmitUsageChat(u)>>)
                => DecodeChat(line, st) = Decoded(st, <<UsageDelta(u)>>)
  <1>1. <<NoDelta>> # <<>> /\ <<NoDelta>>[1] = NoDelta /\ DeltaEvents(NoDelta) = <<>>
    <2>1. <<1>> # <<>>
      OBVIOUS
    <2> QED
      BY <2>1, ListOne, ListEmpty, DeltaSays
  <1>2. <<f>> # <<>> /\ <<f>>[1] = f
    BY ListOne, ListEmpty
  <1>3. PICK v : v = EmitUsageChat(u)
    OBVIOUS
  <1>4. <<v>> # <<>> /\ <<v>>[1] = v /\ ParseUsageChat(v) = u
    BY <1>3, ListOne, ListEmpty, UsageTold
  <1>5. PICK du, dd : du = <<UsageDelta(u)>> /\ dd = <<Done(FinishToStop(f))>>
    OBVIOUS
  <1>6. /\ <<>> \o <<>> = <<>> /\ <<>> \o du = du /\ du \o <<>> = du
        /\ <<>> \o dd = dd
    BY <1>5, ConcatNil, ListEmpty, ListOne
  <1>7. Opt(~st.started, MessageStart) = <<>> /\ st = [st EXCEPT !.started = TRUE]
    BY DEF Opt, Running
  <1>8. ASSUME line.choice = <<NoDelta>>, line.finish = <<f>>, line.usage = <<v>>
        PROVE  DecodeChat(line, st) = Decoded(st, du \o dd)
    <2>1. DecodeChat(line, st) = Decoded(st, ((<<>> \o <<>>) \o du) \o dd)
      BY <1>1, <1>2, <1>4, <1>5, <1>7, <1>8 DEF DecodeChat, Reported
    <2> QED
      BY <1>6, <2>1
  <1>9. ASSUME line.choice = <<NoDelta>>, line.finish = <<f>>, line.usage = <<>>
        PROVE  DecodeChat(line, st) = Decoded(st, dd)
    <2>1. DecodeChat(line, st) = Decoded(st, ((<<>> \o <<>>) \o <<>>) \o dd)
      BY <1>1, <1>2, <1>5, <1>7, <1>9 DEF DecodeChat, Reported
    <2> QED
      BY <1>6, <2>1
  <1>10. ASSUME line.choice = <<>>, line.finish = <<>>, line.usage = <<v>>
         PROVE  DecodeChat(line, st) = Decoded(st, du)
    <2>1. DecodeChat(line, st) = Decoded(st, ((<<>> \o <<>>) \o du) \o <<>>)
      BY <1>4, <1>5, <1>7, <1>10 DEF DecodeChat, Reported
    <2> QED
      BY <1>6, <2>1
  <1> QED
    BY <1>3, <1>5, <1>8, <1>9, <1>10

\* A Chat stream is ended by its tail.
LEMMA ChatTail ==
    ASSUME NEW t \in Turns, t.up = "chat", NEW stage \in Begun(t.up),
           NEW text, text = AllText(t.answer.blocks),
           NEW thinking, thinking = AllThinking(t.up, t.answer.blocks),
           NEW tools, tools = AllTools(t.up, t.answer.blocks)
    PROVE  \E r : /\ Goes(t, TailLines(t), Mid(t.up, Early(t), stage, text, thinking, tools), r)
                  /\ r.w.stage = "over" /\ r.w.seen
  <1>1. PICK u, stop, f : /\ u = Usage(t.up, t.answer.tokens) /\ stop = StopTold(t)
                          /\ f = StopToFinish(t.answer.stop)
    OBVIOUS
  <1>2. u \in Tokens /\ stop \in Strings
    BY <1>1, StopTyped, UsageTyped
  <1>3. stop = FinishToStop(f)
    BY <1>1 DEF StopTold
  <1>4. Early(t) = NoTokens /\ NoTokens \in Tokens /\ Merge(NoTokens, u) = u
    BY <1>2, UsageTold DEF Early
  <1>5. text \in Seq(Strings) /\ thinking \in Seq(Strings) /\ tools \in Seq(Tools)
    BY StopTyped, AllTyped
  <1>6. stage \in {"open", "call"}
    BY DEF Begun
  <1>7. PICK q : q = Mid(t.up, NoTokens, stage, text, thinking, tools)
    OBVIOUS
  <1>8. q.w = At(NoTokens, FALSE, stage, text, thinking, tools)
    BY <1>7 DEF Mid
  <1>9. Running(q.st)
    <2>1. PICK x, y, z : /\ x = TRUE /\ y = FALSE /\ z = <<>>
      OBVIOUS
    <2>2. q.st = [started |-> x, toolOpen |-> y, stop |-> z]
      BY <1>6, <1>7, <2>1 DEF Mid, Stand
    <2>3. [q.st EXCEPT !.started = x] = q.st
      BY <2>2, StandStarts
    <2>4. q.st.started = x
      BY <2>2
    <2> QED
      BY <2>1, <2>3, <2>4 DEF Running
  <1>10. q.w \in Points /\ Right(t, q.w)
    BY <1>4, <1>5, <1>6, <1>7, MidRight
  <1>0. PICK st : st = q.st /\ Running(st)
    BY <1>9
  <1>11. PICK r : r = [st |-> q.st, w |-> Ending(t, u, TRUE)]
    OBVIOUS
  <1>12. r.st = q.st /\ r.w = Over(u, TRUE, text, thinking, tools, stop)
    BY <1>1, <1>11 DEF Ending
  <1>13. r.w \in Points /\ Right(t, r.w) /\ r.w.stage = "over" /\ r.w.seen
    <2>1. Ending(t, u, TRUE) \in Points /\ Right(t, Ending(t, u, TRUE))
      BY <1>1, <1>2, EndingRight
    <2>2. r.w = Ending(t, u, TRUE)
      BY <1>11
    <2>3. Ending(t, u, TRUE).stage = "over" /\ Ending(t, u, TRUE).seen
      BY DEF Ending, Over
    <2> QED
      BY <2>1, <2>2, <2>3
  <1>14. Goes(t, <<Sentinel>>, r, r)
    <2>1. DecodeLine(t.up, Sentinel, r.st) = Decoded(r.st, <<>>)
      BY DEF DecodeLine, DecodeChat, Sentinel
    <2>2. Walks(<<>>, r.w, r.w)
      BY <1>13, WalkNil
    <2>3. Step(t.up, r, Sentinel, r)
      BY <2>1, <2>2, StepOf
    <2> QED
      BY <1>13, <2>3, GoOne
  <1>15. PICK ls : ls = IF t.shared THEN <<[Chunk(NoDelta, <<f>>) EXCEPT !.usage = <<EmitUsageChat(u)>>]>>
                        ELSE <<Chunk(NoDelta, <<f>>), UsageChunk(u)>>
    OBVIOUS
  <1>16. TailLines(t) = ls \o <<Sentinel>>
    BY <1>1, <1>15 DEF TailLines
  <1>17. CASE t.shared
    <2>1. PICK line : line = [Chunk(NoDelta, <<f>>) EXCEPT !.usage = <<EmitUsageChat(u)>>]
      OBVIOUS
    <2>2. /\ line.kind = "chunk" /\ line.choice = <<NoDelta>> /\ line.finish = <<f>>
          /\ line.usage = <<EmitUsageChat(u)>>
      BY <2>1 DEF Chunk
    <2>3. PICK es : es = <<UsageDelta(u)>> \o <<Done(stop)>>
      OBVIOUS
    <2>4. DecodeLine(t.up, line, q.st) = Decoded(q.st, es)
      <3>1. DecodeChat(line, q.st) = Decoded(q.st, <<UsageDelta(u)>> \o <<Done(FinishToStop(f))>>)
        <4>1. DecodeChat(line, st) = Decoded(st, <<UsageDelta(u)>> \o <<Done(FinishToStop(f))>>)
          BY <1>0, <1>2, <2>2, ChatEnds
        <4> QED
          BY <1>0, <4>1
      <3> QED
        BY <1>3, <2>3, <3>1 DEF DecodeLine
    <2>5. Walks(es, q.w, r.w)
      <3>1. Walks(<<UsageDelta(u)>>, At(NoTokens, FALSE, stage, text, thinking, tools), At(Merge(NoTokens, u), TRUE, stage, text, thinking, tools))
        BY <1>2, <1>4, <1>5, <1>6, AtUsage
      <3>2. Walks(<<Done(stop)>>, At(u, TRUE, stage, text, thinking, tools), Over(u, TRUE, text, thinking, tools, stop))
        BY <1>2, <1>5, <1>6, AtDone
      <3> QED
        BY <1>4, <1>8, <1>12, <2>3, <3>1, <3>2, WalkConcat
    <2>6. Step(t.up, q, line, r)
      BY <1>12, <2>4, <2>5, StepOf
    <2>7. Goes(t, <<line>>, q, r)
      BY <1>10, <1>13, <2>6, GoOne
    <2>8. Goes(t, <<line>> \o <<Sentinel>>, q, r)
      BY <1>14, <2>7, GoConcat
    <2>9. ls = <<line>>
      BY <1>15, <1>17, <2>1
    <2> QED
      BY <1>4, <1>7, <1>13, <1>16, <2>8, <2>9
  <1>18. CASE ~t.shared
    <2>1. PICK l1, l2 : l1 = Chunk(NoDelta, <<f>>) /\ l2 = UsageChunk(u)
      OBVIOUS
    <2>2. /\ l1.kind = "chunk" /\ l1.choice = <<NoDelta>> /\ l1.finish = <<f>> /\ l1.usage = <<>>
          /\ l2.kind = "chunk" /\ l2.choice = <<>> /\ l2.finish = <<>> /\ l2.usage = <<EmitUsageChat(u)>>
      BY <2>1 DEF Chunk, UsageChunk
    <2>3. PICK m : m = [st |-> q.st, w |-> Ending(t, NoTokens, FALSE)]
      OBVIOUS
    <2>4. m.st = q.st /\ m.w = Over(NoTokens, FALSE, text, thinking, tools, stop)
      BY <1>1, <2>3 DEF Ending
    <2>5. m.w \in Points /\ Right(t, m.w)
      <3>1. Ending(t, NoTokens, FALSE) \in Points /\ Right(t, Ending(t, NoTokens, FALSE))
        BY <1>4, <1>18, EndingRight
      <3> QED
        BY <2>3, <3>1
    <2>6. Step(t.up, q, l1, m)
      <3>1. DecodeChat(l1, q.st) = Decoded(q.st, <<Done(FinishToStop(f))>>)
        <4>1. DecodeChat(l1, st) = Decoded(st, <<Done(FinishToStop(f))>>)
          BY <1>0, <1>2, <2>2, ChatEnds
        <4> QED
          BY <1>0, <4>1
      <3>2. DecodeLine(t.up, l1, q.st) = Decoded(m.st, <<Done(stop)>>)
        BY <1>3, <2>4, <3>1 DEF DecodeLine
      <3>3. Walks(<<Done(stop)>>, At(NoTokens, FALSE, stage, text, thinking, tools), Over(NoTokens, FALSE, text, thinking, tools, stop))
        BY <1>2, <1>4, <1>5, <1>6, AtDone
      <3>4. Walks(<<Done(stop)>>, q.w, m.w)
        BY <1>8, <2>4, <3>3
      <3> QED
        BY <3>2, <3>4, StepOf
    <2>7. Step(t.up, m, l2, r)
      <3>1. DecodeChat(l2, q.st) = Decoded(q.st, <<UsageDelta(u)>>)
        <4>1. DecodeChat(l2, st) = Decoded(st, <<UsageDelta(u)>>)
          BY <1>0, <1>2, <2>2, ChatEnds
        <4> QED
          BY <1>0, <4>1
      <3>2. DecodeLine(t.up, l2, m.st) = Decoded(r.st, <<UsageDelta(u)>>)
        BY <1>12, <2>4, <3>1 DEF DecodeLine
      <3>3. Walks(<<UsageDelta(u)>>, Over(NoTokens, FALSE, text, thinking, tools, stop), Over(Merge(NoTokens, u), TRUE, text, thinking, tools, stop))
        BY <1>2, <1>4, <1>5, OverUsage
      <3>4. Walks(<<UsageDelta(u)>>, m.w, r.w)
        BY <1>4, <1>12, <2>4, <3>3
      <3> QED
        BY <3>2, <3>4, StepOf
    <2>8. Goes(t, <<l1>>, q, m) /\ Goes(t, <<l2>>, m, r)
      BY <1>10, <1>13, <2>5, <2>6, <2>7, GoOne
    <2>9. Goes(t, <<l1, l2>>, q, r)
      BY <2>8, GoTwo
    <2>10. Goes(t, <<l1, l2>> \o <<Sentinel>>, q, r)
      BY <1>14, <2>9, GoConcat
    <2>11. ls = <<l1, l2>>
      BY <1>15, <1>18, <2>1
    <2> QED
      BY <1>4, <1>7, <1>13, <1>16, <2>10, <2>11
  <1> QED
    BY <1>17, <1>18

\* The lines of the blocks of an answer.
AnswerLines(t) == FlattenSeq([i \in DOMAIN t.answer.blocks |-> BlockLines(t, t.answer.blocks[i])])

\* A stream is its head, the lines of its blocks and its tail.
LEMMA LinesAre ==
    ASSUME NEW t \in Turns, IsList(AnswerLines(t)), IsList(HeadLines(t)), IsList(TailLines(t))
    PROVE  Lines(t) = <<Noise>> \o ((HeadLines(t) \o AnswerLines(t)) \o TailLines(t))
  <1>0. t.up \in Dialects
    BY StopTyped
  <1>1. PICK h, b, z : h = HeadLines(t) /\ b = AnswerLines(t) /\ z = TailLines(t)
    OBVIOUS
  <1>2. IsList(h) /\ IsList(b) /\ IsList(z) /\ IsList(h \o b)
    BY <1>1, ListConcat
  <1>3. CASE t.up = "chat"
    <2>1. PICK y : y = IF t.shared THEN <<[Chunk(NoDelta, <<StopToFinish(t.answer.stop)>>) EXCEPT !.usage = <<EmitUsageChat(Usage("chat", t.answer.tokens))>>]>>
                       ELSE <<Chunk(NoDelta, <<StopToFinish(t.answer.stop)>>), UsageChunk(Usage("chat", t.answer.tokens))>>
      OBVIOUS
    <2>2. IsList(y)
      BY <2>1, ListOne, ListTwo
    <2>3. z = y \o <<Sentinel>>
      BY <1>1, <1>3, <2>1 DEF TailLines
    <2>4. b = Each(t.answer.blocks, LAMBDA x : ChatBlock(Calls(t.answer.blocks), x))
      BY <1>1, <1>3 DEF AnswerLines, BlockLines, Each
    <2>5. ChatLines(t.answer, t.shared) = ((h \o b) \o y) \o <<Sentinel>>
      BY <1>1, <1>3, <2>1, <2>4 DEF ChatLines, HeadLines
    <2>6. ((h \o b) \o y) \o <<Sentinel>> = (h \o b) \o (y \o <<Sentinel>>)
      <3>1. PICK v, w : v = h \o b /\ w = <<Sentinel>>
        OBVIOUS
      <3>2. IsList(v) /\ IsList(w)
        BY <1>2, <3>1, ListOne
      <3>3. (v \o y) \o w = v \o (y \o w)
        BY <2>2, <3>2, ConcatAssoc
      <3> QED
        BY <3>1, <3>3
    <2> QED
      BY <1>1, <1>3, <2>3, <2>5, <2>6 DEF Lines
  <1>4. CASE t.up = "anthropic"
    <2>1. b = Each(t.answer.blocks, AnthropicBlock)
      BY <1>1, <1>4 DEF AnswerLines, BlockLines, Each
    <2>2. AnthropicLines(t.answer) = (h \o b) \o z
      BY <1>1, <1>4, <2>1 DEF AnthropicLines, HeadLines, TailLines
    <2> QED
      BY <1>1, <1>4, <2>2 DEF Lines
  <1>5. CASE t.up = "responses"
    <2>1. b = Each(t.answer.blocks, ResponsesBlock)
      BY <1>1, <1>5 DEF AnswerLines, BlockLines, Each
    <2>2. ResponsesLines(t.answer) = (h \o b) \o z
      BY <1>1, <1>5, <2>1 DEF ResponsesLines, HeadLines, TailLines
    <2> QED
      BY <1>1, <1>5, <2>2 DEF Lines
  <1>6. CASE t.up = "gemini"
    <2>1. b = Each(t.answer.blocks, GeminiBlock)
      BY <1>1, <1>6 DEF AnswerLines, BlockLines, Each
    <2>2. h = <<>>
      BY <1>1, <1>6 DEF HeadLines
    <2>3. GeminiLines(t.answer) = b \o z
      BY <1>1, <1>6, <2>1 DEF GeminiLines, TailLines
    <2>4. h \o b = b
      BY <1>2, <2>2, ConcatNil
    <2> QED
      BY <1>1, <1>6, <2>3, <2>4 DEF Lines
  <1> QED
    BY <1>0, <1>3, <1>4, <1>5, <1>6 DEF Dialects

\* The lines of a stream take its decoder to the end of the answer.
LEMMA LinesGo ==
    ASSUME NEW t \in Turns
    PROVE  \E r : Goes(t, Lines(t), Start, r) /\ r.w.stage = "over" /\ r.w.seen
  <1>0. t.up \in Dialects /\ t.answer.blocks \in Seq(Blocks)
    BY StopTyped
  <1>1. PICK s \in Begun(t.up) :
          Goes(t, HeadLines(t), Start, Mid(t.up, Early(t), s, <<>>, <<>>, <<>>))
    BY HeadGoes
  <1>2. Early(t) \in Tokens
    <2>1. Usage(t.up, t.answer.tokens) \in Tokens
      BY StopTyped, UsageTyped
    <2> QED
      BY <2>1, UsageTold DEF Early
  <1>3. PICK text, thinking, tools : /\ text = AllText(t.answer.blocks)
                                     /\ thinking = AllThinking(t.up, t.answer.blocks)
                                     /\ tools = AllTools(t.up, t.answer.blocks)
    OBVIOUS
  <1>4. PICK g \in Begun(t.up) :
          Goes(t, AnswerLines(t), Mid(t.up, Early(t), s, <<>>, <<>>, <<>>),
               Mid(t.up, Early(t), g, text, thinking, tools))
    BY <1>0, <1>2, <1>3, BlocksGo DEF AnswerLines
  <1>5. PICK r : /\ Goes(t, TailLines(t), Mid(t.up, Early(t), g, text, thinking, tools), r)
                 /\ r.w.stage = "over" /\ r.w.seen
    <2>1. CASE t.up = "chat"
      BY <1>3, <2>1, ChatTail
    <2>2. CASE t.up = "anthropic"
      BY <1>3, <2>2, AnthropicTail
    <2>3. CASE t.up = "responses"
      BY <1>3, <2>3, ResponsesTail
    <2>4. CASE t.up = "gemini"
      BY <1>3, <2>4, GeminiTail
    <2> QED
      BY <1>0, <2>1, <2>2, <2>3, <2>4 DEF Dialects
  <1>6. PICK h, b, z : h = HeadLines(t) /\ b = AnswerLines(t) /\ z = TailLines(t)
    OBVIOUS
  <1>7. Goes(t, (h \o b) \o z, Start, r)
    <2>1. Goes(t, h \o b, Start, Mid(t.up, Early(t), g, text, thinking, tools))
      BY <1>1, <1>4, <1>6, GoConcat
    <2> QED
      BY <1>5, <1>6, <2>1, GoConcat
  <1>8. IsList(h) /\ IsList(b) /\ IsList(z)
    BY <1>1, <1>4, <1>5, <1>6 DEF Goes
  <1>9. Goes(t, <<Noise>>, Start, Start)
    <2>1. Start.w \in Points /\ Right(t, Start.w)
      BY OutsetTyped DEF Start, Right, Outset
    <2>2. Step(t.up, Start, Noise, Start)
      BY <1>0, <2>1, StepNoise
    <2> QED
      BY <2>1, <2>2, GoOne
  <1>10. Goes(t, <<Noise>> \o ((h \o b) \o z), Start, r)
    BY <1>7, <1>9, GoConcat
  <1>11. Lines(t) = <<Noise>> \o ((h \o b) \o z)
    BY <1>6, <1>8, LinesAre
  <1> QED
    BY <1>5, <1>10, <1>11

-----------------------------------------------------------------------------
(* Frames, one more at a time                                              *)

\* How many frames there are of a kind.
Count(F, kind) == Before(F, Len(F) + 1, kind)

\* What a new frame does to the counts of a kind.
LEMMA BeforeAppend ==
    ASSUME NEW F, IsList(F), NEW f, NEW kind
    PROVE  /\ \A i \in 1..(Len(F) + 1) : Before(Append(F, f), i, kind) = Before(F, i, kind)
           /\ Count(F, kind) \in Nat
           /\ Count(Append(F, f), kind) = Count(F, kind) + (IF f.kind = kind THEN 1 ELSE 0)
  <1>1. PICK G, n : G = Append(F, f) /\ n = Len(F)
    OBVIOUS
  <1>2. n \in Nat /\ Len(G) = n + 1 /\ G[n + 1] = f /\ \A i \in 1..n : G[i] = F[i]
    BY <1>1, ListFacts, ListAppend
  <1>3. ASSUME NEW i \in 1..(n + 1)
        PROVE  {j \in 1..(i - 1) : G[j].kind = kind} = {j \in 1..(i - 1) : F[j].kind = kind}
    <2>1. \A j \in 1..(i - 1) : G[j] = F[j]
      BY <1>2
    <2> QED
      BY <2>1
  <1>4. \A i \in 1..(n + 1) : Before(G, i, kind) = Before(F, i, kind)
    BY <1>3 DEF Before
  <1> DEFINE S == {j \in 1..n : F[j].kind = kind}
             T == {j \in 1..(n + 1) : G[j].kind = kind}
  <1>5. IsFiniteSet(S) /\ Cardinality(S) \in Nat
    <2>1. IsFiniteSet(1..n)
      BY <1>2, FS_Interval
    <2>2. S \subseteq 1..n
      OBVIOUS
    <2> HIDE DEF S
    <2>3. IsFiniteSet(S)
      BY <2>1, <2>2, FS_Subset
    <2> QED
      BY <2>3, FS_CardinalityType
  <1>6. Count(F, kind) = Cardinality(S) /\ Count(G, kind) = Cardinality(T)
    <2>1. (n + 1) - 1 = n /\ (Len(G) + 1) - 1 = n + 1
      BY <1>2
    <2> QED
      BY <1>1, <1>2, <2>1 DEF Count, Before
  <1>7. CASE f.kind = kind
    <2>1. T = S \cup {n + 1} /\ n + 1 \notin S
      BY <1>2, <1>7
    <2> HIDE DEF S, T
    <2>2. Cardinality(T) = Cardinality(S) + 1
      BY <1>5, <2>1, FS_AddElement
    <2> QED
      BY <1>1, <1>4, <1>5, <1>6, <1>7, <2>2
  <1>8. CASE f.kind # kind
    <2>1. T = S
      BY <1>2, <1>8
    <2> HIDE DEF S, T
    <2> QED
      BY <1>1, <1>4, <1>5, <1>6, <1>8, <2>1
  <1> QED
    BY <1>7, <1>8

\* No frames, none of any kind.
LEMMA CountNone ==
    ASSUME NEW kind
    PROVE  Count(<<>>, kind) = 0
  <1>1. {j \in 1..((Len(<<>>) + 1) - 1) : <<>>[j].kind = kind} = {}
    BY ListEmpty
  <1> QED
    BY <1>1, FS_EmptySet DEF Count, Before

\* A frame more is one more that is heard.
LEMMA HearAppend ==
    ASSUME NEW c, NEW F, IsList(F), NEW f
    PROVE  Heard(c, Append(F, f)) = Hear(c, Heard(c, F), f)
  <1>1. PICK G, n : G = Append(F, f) /\ n = Len(F)
    OBVIOUS
  <1>2. n \in Nat /\ IsList(G) /\ Len(G) = n + 1 /\ G[n + 1] = f /\ \A i \in 1..n : G[i] = F[i]
    BY <1>1, ListFacts, ListAppend
  <1>3. PICK p : /\ p[0] = NewReader
                 /\ \A k \in 1..Len(F) : p[k] = Hear(c, p[k - 1], F[k])
                 /\ Heard(c, F) = p[Len(F)]
    BY HearRun
  <1>4. PICK q : /\ q[0] = NewReader
                 /\ \A k \in 1..Len(G) : q[k] = Hear(c, q[k - 1], G[k])
                 /\ Heard(c, G) = q[Len(G)]
    BY <1>2, HearRun
  <1> DEFINE S == {k \in 0..n : p[k] = q[k]}
  <1>5. 0 \in S
    BY <1>2, <1>3, <1>4
  <1>6. ASSUME NEW k \in 1..n, k - 1 \in S PROVE k \in S
    <2>1. p[k] = Hear(c, p[k - 1], F[k])
      BY <1>1, <1>3
    <2>2. q[k] = Hear(c, q[k - 1], G[k])
      BY <1>2, <1>4
    <2> QED
      BY <1>2, <1>6, <2>1, <2>2
  <1>7. n \in S
    <2>1. \A k \in 0..n : k \in S
      <3> HIDE DEF S
      <3> QED
        BY <1>2, <1>5, <1>6, UpTo
    <2> QED
      BY <1>2, <2>1
  <1>8. q[n + 1] = Hear(c, q[n], f)
    <2>1. n + 1 \in 1..Len(G) /\ (n + 1) - 1 = n
      BY <1>2
    <2>2. q[n + 1] = Hear(c, q[(n + 1) - 1], G[n + 1])
      BY <1>4, <2>1
    <2> QED
      BY <1>2, <2>1, <2>2
  <1> QED
    BY <1>1, <1>2, <1>3, <1>4, <1>7, <1>8

\* A client that was sent nothing has heard nothing.
LEMMA HearNone == \A c : Heard(c, <<>>) = NewReader
  <1>1. ASSUME NEW c PROVE Heard(c, <<>>) = NewReader
    <2>1. PICK p : /\ p[0] = NewReader
                   /\ \A k \in 1..Len(<<>>) : p[k] = Hear(c, p[k - 1], <<>>[k])
                   /\ Heard(c, <<>>) = p[Len(<<>>)]
      BY ListEmpty, HearRun
    <2> QED
      BY <2>1, ListEmpty
  <1> QED
    BY <1>1

\* What is written comes after what was sent.
LEMMA WriteAppend ==
    ASSUME NEW base, IsList(base), NEW out, IsList(out), NEW f
    PROVE  /\ IsList(base \o out) /\ IsList(Append(out, f))
           /\ base \o Append(out, f) = Append(base \o out, f)
  BY ListConcat, ListAppend, ConcatAppend

-----------------------------------------------------------------------------
(* Readers                                                                 *)

\* A reader, and what it makes of the calls that an aggregator has.
Reader(thinking, text, tools, blocks, stop) ==
  [thinking |-> thinking, text |-> text, tools |-> tools, blocks |-> blocks, stop |-> stop]
Renamed(tools) ==
  [i \in DOMAIN tools |-> [id |-> tools[i].id, name |-> tools[i].name, args |-> tools[i].json]]

BlockTypes == {"text", "thinking", "tool_use"}
TypeOf(e) == CASE e.ev = "text_delta" -> "text"
               [] e.ev = "thinking_delta" -> "thinking"
               [] e.ev \in {"tool_use_start", "tool_use_delta"} -> "tool_use"
BodyOf(e) == IF e.ev = "tool_use_delta" THEN e.json ELSE e.text

\* A call more is a call more for the reader.
LEMMA RenamedAppend ==
    ASSUME NEW tools \in Seq(Tools), NEW id \in Strings, NEW name \in Strings
    PROVE  Renamed(Append(tools, [id |-> id, name |-> name, json |-> <<>>]))
             = Append(Renamed(tools), [id |-> id, name |-> name, args |-> <<>>])
  <1>1. PICK c, n : c = [id |-> id, name |-> name, json |-> <<>>] /\ n = Len(tools)
    OBVIOUS
  <1>2. PICK us, d : us = Append(tools, c) /\ d = [id |-> id, name |-> name, args |-> <<>>]
    OBVIOUS
  <1>3. IsList(us) /\ n \in Nat /\ Len(us) = n + 1 /\ us[n + 1] = c /\ \A i \in 1..n : us[i] = tools[i]
    BY <1>1, <1>2, SeqIsList, ListAppend, ListFacts
  <1>4. DOMAIN us = 1..(n + 1) /\ DOMAIN tools = 1..n
    BY <1>1, <1>3, ListFacts
  <1>5. PICK r, s : r = Renamed(tools) /\ s = Renamed(us)
    OBVIOUS
  <1>6. r = [i \in 1..n |-> [id |-> tools[i].id, name |-> tools[i].name, args |-> tools[i].json]]
    BY <1>4, <1>5 DEF Renamed
  <1>7. s = [i \in 1..(n + 1) |-> [id |-> us[i].id, name |-> us[i].name, args |-> us[i].json]]
    BY <1>4, <1>5 DEF Renamed
  <1>8. IsList(r) /\ Len(r) = n
    <2>1. r = [i \in 1..n |-> r[i]]
      BY <1>6
    <2> QED
      BY <1>3, <2>1, ListMake
  <1>9. IsList(s) /\ Len(s) = n + 1
    <2>1. s = [i \in 1..(n + 1) |-> s[i]] /\ n + 1 \in Nat
      BY <1>3, <1>7
    <2> QED
      BY <2>1, ListMake
  <1>10. PICK v : v = Append(r, d)
    OBVIOUS
  <1>11. IsList(v) /\ Len(v) = n + 1 /\ v[n + 1] = d /\ \A i \in 1..n : v[i] = r[i]
    BY <1>8, <1>10, ListAppend
  <1>12. ASSUME NEW i \in 1..(n + 1) PROVE s[i] = v[i]
    <2>1. CASE i = n + 1
      <3>1. s[i] = [id |-> c.id, name |-> c.name, args |-> c.json]
        BY <1>3, <1>7, <2>1
      <3> QED
        BY <1>1, <1>2, <1>11, <2>1, <3>1
    <2>2. CASE i # n + 1
      <3>1. i \in 1..n
        BY <1>3, <2>2
      <3> QED
        BY <1>3, <1>6, <1>7, <1>11, <3>1
    <2> QED
      BY <2>1, <2>2
  <1>13. s = v
    BY <1>9, <1>11, <1>12, ListSame
  <1> QED
    BY <1>1, <1>2, <1>5, <1>10, <1>13

\* Arguments more of the last call are arguments more for the reader.
LEMMA RenamedLast ==
    ASSUME NEW tools \in Seq(Tools), tools # <<>>, NEW x \in Seq(Strings)
    PROVE  /\ Len(tools) \in DOMAIN Renamed(tools)
           /\ Renamed(AppendToLast(tools, x))
                = [Renamed(tools) EXCEPT ![Len(tools)] = [Renamed(tools)[Len(tools)] EXCEPT !.args = @ \o x]]
  <1>1. PICK n : n = Len(tools)
    OBVIOUS
  <1>2. n \in Nat /\ n \in 1..n /\ DOMAIN tools = 1..n /\ tools[n] \in Tools
    BY <1>1
  <1>3. PICK r : r = Renamed(tools)
    OBVIOUS
  <1>4. r = [i \in 1..n |-> [id |-> tools[i].id, name |-> tools[i].name, args |-> tools[i].json]]
    BY <1>2, <1>3 DEF Renamed
  <1>5. PICK j : j = tools[n].json \o x
    OBVIOUS
  <1>6. AppendToLast(tools, x) = [tools EXCEPT ![n] = [tools[n] EXCEPT !.json = j]]
    BY <1>1, <1>2, <1>5 DEF AppendToLast
  <1>7. PICK us, c : us = AppendToLast(tools, x) /\ c = [tools[n] EXCEPT !.json = j]
    OBVIOUS
  <1>8. c.id = tools[n].id /\ c.name = tools[n].name /\ c.json = j
    BY <1>2, <1>7 DEF Tools
  <1>9. DOMAIN us = 1..n /\ us[n] = c /\ \A i \in 1..n : i # n => us[i] = tools[i]
    BY <1>2, <1>6, <1>7
  <1>10. PICK d : d = [id |-> tools[n].id, name |-> tools[n].name, args |-> j]
    OBVIOUS
  <1>11. Renamed(us) = [i \in 1..n |-> IF i = n THEN d ELSE r[i]]
    <2>1. Renamed(us) = [i \in 1..n |-> [id |-> us[i].id, name |-> us[i].name, args |-> us[i].json]]
      BY <1>9 DEF Renamed
    <2>2. ASSUME NEW i \in 1..n
          PROVE [id |-> us[i].id, name |-> us[i].name, args |-> us[i].json] = IF i = n THEN d ELSE r[i]
      BY <1>4, <1>8, <1>9, <1>10
    <2> QED
      BY <2>1, <2>2
  <1>12. [r[n] EXCEPT !.args = @ \o x] = d
    <2>1. PICK i, m, w, v : i = tools[n].id /\ m = tools[n].name /\ w = tools[n].json /\ v = r[n]
      OBVIOUS
    <2>2. v = [id |-> i, name |-> m, args |-> w]
      BY <1>2, <1>4, <2>1
    <2>3. [v EXCEPT !.args = j] = [id |-> i, name |-> m, args |-> j]
      BY <2>2
    <2>4. v.args \o x = j
      BY <1>5, <2>1, <2>2
    <2> QED
      BY <1>10, <2>1, <2>3, <2>4
  <1>13. [r EXCEPT ![n] = d] = [i \in 1..n |-> IF i = n THEN d ELSE r[i]]
    BY <1>2, <1>4
  <1>14. n \in DOMAIN r
    BY <1>2, <1>4
  <1> QED
    BY <1>1, <1>3, <1>7, <1>11, <1>12, <1>13, <1>14

\* A block, item or call has begun for a reader: h knows its type and place.
Knows(h, n, type, a, tools) ==
  \E more : /\ h = Reader(a.thinking, a.text, Renamed(tools), more, "none")
            /\ n \in DOMAIN more /\ more[n] = [type |-> type, tool |-> Len(tools)]

\* A block, item or call begins for a reader.
LEMMA HearsBlock ==
    ASSUME NEW a \in Aggregators, NEW blocks, NEW n,
           NEW id \in Strings, NEW name \in Strings, NEW g,
           g = Reader(a.thinking, a.text, Renamed(a.tools), blocks, "none")
    PROVE  /\ \A type \in {"text", "thinking"} :
                Knows(HearBlock(g, n, type, id, name), n, type, a, a.tools)
           /\ Knows(HearBlock(g, n, "tool_use", id, name), n, "tool_use", a,
                    Append(a.tools, [id |-> id, name |-> name, json |-> <<>>]))
  <1>1. a.tools \in Seq(Tools)
    BY DEF Aggregators
  <1>2. PICK r : r = Renamed(a.tools)
    OBVIOUS
  <1>3. IsList(r) /\ Len(r) = Len(a.tools) /\ Len(a.tools) \in Nat
    <2>1. DOMAIN a.tools = 1..Len(a.tools) /\ Len(a.tools) \in Nat
      BY <1>1
    <2>2. r = [i \in 1..Len(a.tools) |-> r[i]]
      BY <1>2, <2>1 DEF Renamed
    <2> QED
      BY <2>1, <2>2, ListMake
  <1>4. g = [thinking |-> a.thinking, text |-> a.text, tools |-> r, blocks |-> blocks, stop |-> "none"]
    BY <1>2 DEF Reader
  <1>5. ASSUME NEW ts, NEW tp, ts = (IF tp = "tool_use" THEN Append(r, [id |-> id, name |-> name, args |-> <<>>]) ELSE r)
        PROVE  \E more : /\ n \in DOMAIN more /\ more[n] = [type |-> tp, tool |-> Len(ts)]
                         /\ HearBlock(g, n, tp, id, name) = Reader(a.thinking, a.text, ts, more, "none")
    <2>1. PICK more : more = [i \in DOMAIN blocks \cup {n} |->
                                IF i = n THEN [type |-> tp, tool |-> Len(ts)] ELSE blocks[i]]
      OBVIOUS
    <2>2. n \in DOMAIN more /\ more[n] = [type |-> tp, tool |-> Len(ts)]
      BY <2>1
    <2>3. HearBlock(g, n, tp, id, name) = [g EXCEPT !.tools = ts, !.blocks = more]
      <3>1. g.blocks = blocks /\ g.tools = r
        BY <1>4
      <3> QED
        BY <1>5, <2>1, <3>1 DEF HearBlock
    <2>4. PICK h : h = [g EXCEPT !.tools = ts]
      OBVIOUS
    <2>5. h = [thinking |-> a.thinking, text |-> a.text, tools |-> ts, blocks |-> blocks, stop |-> "none"]
      BY <1>4, <2>4
    <2>6. [h EXCEPT !.blocks = more]
            = [thinking |-> a.thinking, text |-> a.text, tools |-> ts, blocks |-> more, stop |-> "none"]
      BY <2>5
    <2>7. [g EXCEPT !.tools = ts, !.blocks = more] = [h EXCEPT !.blocks = more]
      BY <1>4, <2>4
    <2> QED
      BY <2>2, <2>3, <2>6, <2>7 DEF Reader
  <1>6. ASSUME NEW type \in {"text", "thinking"}
        PROVE  \E more : /\ n \in DOMAIN more /\ more[n] = [type |-> type, tool |-> Len(r)]
                         /\ HearBlock(g, n, type, id, name) = Reader(a.thinking, a.text, r, more, "none")
    <2>1. r = (IF type = "tool_use" THEN Append(r, [id |-> id, name |-> name, args |-> <<>>]) ELSE r)
      OBVIOUS
    <2> QED
      BY <1>5, <2>1
  <1>7. PICK s : s = Append(r, [id |-> id, name |-> name, args |-> <<>>])
    OBVIOUS
  <1>8. Len(s) = Len(a.tools) + 1
    BY <1>3, <1>7, ListAppend
  <1>9. s = Renamed(Append(a.tools, [id |-> id, name |-> name, json |-> <<>>]))
    BY <1>1, <1>2, <1>7, RenamedAppend
  <1>10. \E more : /\ n \in DOMAIN more /\ more[n] = [type |-> "tool_use", tool |-> Len(s)]
                   /\ HearBlock(g, n, "tool_use", id, name) = Reader(a.thinking, a.text, s, more, "none")
    <2>1. PICK tp : tp = "tool_use"
      OBVIOUS
    <2>2. s = (IF tp = "tool_use" THEN Append(r, [id |-> id, name |-> name, args |-> <<>>]) ELSE r)
      BY <1>7, <2>1
    <2>3. \E more : /\ n \in DOMAIN more /\ more[n] = [type |-> tp, tool |-> Len(s)]
                    /\ HearBlock(g, n, tp, id, name) = Reader(a.thinking, a.text, s, more, "none")
      BY <1>5, <2>2
    <2> QED
      BY <2>1, <2>3
  <1> QED
    BY <1>2, <1>3, <1>6, <1>8, <1>9, <1>10 DEF Knows

\* More of the block, item or call of an index is heard.
LEMMA HearsDelta ==
    ASSUME NEW a \in Aggregators, NEW blocks, NEW n \in DOMAIN blocks, NEW e \in Events,
           e.ev \in {"text_delta", "thinking_delta", "tool_use_delta"},
           e.ev = "tool_use_delta" => a.tools # <<>>,
           blocks[n] = [type |-> TypeOf(e), tool |-> Len(a.tools)], NEW g,
           g = Reader(a.thinking, a.text, Renamed(a.tools), blocks, "none"), NEW b, b = Push(a, e)
    PROVE  /\ HearDelta(g, n, BodyOf(e)) = Reader(b.thinking, b.text, Renamed(b.tools), blocks, "none")
           /\ Len(b.tools) = Len(a.tools)
  <1>1. a.tools \in Seq(Tools)
    BY DEF Aggregators
  <1>2. PICK r : r = Renamed(a.tools)
    OBVIOUS
  <1>3. g = [thinking |-> a.thinking, text |-> a.text, tools |-> r, blocks |-> blocks, stop |-> "none"]
    BY <1>2 DEF Reader
  <1>4. CASE e.ev = "text_delta"
    <2>1. PICK x : x = a.text \o e.text
      OBVIOUS
    <2>2. b = [a EXCEPT !.text = x]
      BY <1>4, <2>1 DEF Push
    <2>3. b.thinking = a.thinking /\ b.text = x /\ b.tools = a.tools
      BY <2>2 DEF Aggregators
    <2>4. HearDelta(g, n, BodyOf(e)) = [g EXCEPT !.text = x]
      <3>1. g.blocks = blocks /\ g.text = a.text /\ BodyOf(e) = e.text
        BY <1>3, <1>4 DEF BodyOf
      <3>2. blocks[n].type = "text"
        BY <1>4 DEF TypeOf
      <3> QED
        BY <2>1, <3>1, <3>2 DEF HearDelta
    <2>5. [g EXCEPT !.text = x] = [thinking |-> a.thinking, text |-> x, tools |-> r, blocks |-> blocks, stop |-> "none"]
      BY <1>3
    <2> QED
      BY <1>2, <2>3, <2>4, <2>5 DEF Reader
  <1>5. CASE e.ev = "thinking_delta"
    <2>1. PICK x : x = a.thinking \o e.text
      OBVIOUS
    <2>2. b = [a EXCEPT !.thinking = x]
      BY <1>5, <2>1 DEF Push
    <2>3. b.thinking = x /\ b.text = a.text /\ b.tools = a.tools
      BY <2>2 DEF Aggregators
    <2>4. HearDelta(g, n, BodyOf(e)) = [g EXCEPT !.thinking = x]
      <3>1. g.blocks = blocks /\ g.thinking = a.thinking /\ BodyOf(e) = e.text
        BY <1>3, <1>5 DEF BodyOf
      <3>2. blocks[n].type = "thinking"
        BY <1>5 DEF TypeOf
      <3> QED
        BY <2>1, <3>1, <3>2 DEF HearDelta
    <2>5. [g EXCEPT !.thinking = x] = [thinking |-> x, text |-> a.text, tools |-> r, blocks |-> blocks, stop |-> "none"]
      BY <1>3
    <2> QED
      BY <1>2, <2>3, <2>4, <2>5 DEF Reader
  <1>6. CASE e.ev = "tool_use_delta"
    <2>1. PICK x, m : x = e.json /\ m = Len(a.tools)
      OBVIOUS
    <2>2. x \in Seq(Strings)
      BY <1>6, <2>1 DEF Events
    <2>3. PICK us : us = AppendToLast(a.tools, x)
      OBVIOUS
    <2>4. b = [a EXCEPT !.tools = us]
      BY <1>6, <2>1, <2>3 DEF Push
    <2>5. b.thinking = a.thinking /\ b.text = a.text /\ b.tools = us
      BY <2>4 DEF Aggregators
    <2>6. m \in DOMAIN r /\ Renamed(us) = [r EXCEPT ![m] = [r[m] EXCEPT !.args = @ \o x]]
      BY <1>1, <1>2, <1>6, <2>1, <2>2, <2>3, RenamedLast
    <2>7. blocks[n] = [type |-> "tool_use", tool |-> m] /\ BodyOf(e) = x
      BY <1>6, <2>1 DEF TypeOf, BodyOf
    <2>8. HearDelta(g, n, x) = [g EXCEPT !.tools = [r EXCEPT ![m] = [r[m] EXCEPT !.args = @ \o x]]]
      <3>1. g.blocks = blocks /\ g.tools = r
        BY <1>3
      <3>2. blocks[n].type = "tool_use" /\ blocks[n].tool = m
        BY <2>7
      <3>3. HearDelta(g, n, x) = [g EXCEPT !.tools[m].args = @ \o x]
        BY <3>1, <3>2 DEF HearDelta
      <3> QED
        BY <1>3, <3>1, <3>3
    <2>9. PICK ss : ss = Renamed(us)
      OBVIOUS
    <2>10. HearDelta(g, n, x) = [g EXCEPT !.tools = ss]
      BY <2>6, <2>8, <2>9
    <2>11. [g EXCEPT !.tools = ss] = [thinking |-> a.thinking, text |-> a.text, tools |-> ss, blocks |-> blocks, stop |-> "none"]
      BY <1>3
    <2>12. Len(us) = m
      <3>1. us = [a.tools EXCEPT ![m] = us[m]] \/ us = a.tools
        BY <1>1, <2>1, <2>3 DEF AppendToLast
      <3>2. DOMAIN us = DOMAIN a.tools
        BY <2>1, <2>3 DEF AppendToLast
      <3>3. us \in Seq(Tools)
        <4>1. e \in Events /\ Push(a, e) \in Aggregators
          BY PushTyped
        <4> QED
          BY <2>5, <4>1 DEF Aggregators
      <3> QED
        BY <1>1, <2>1, <3>2, <3>3
    <2> QED
      BY <2>1, <2>5, <2>7, <2>9, <2>10, <2>11, <2>12 DEF Reader
  <1> QED
    BY <1>4, <1>5, <1>6

-----------------------------------------------------------------------------
(* A client of Anthropic's dialect                                         *)

Start_ == "content_block_start"
Stop_ == "content_block_stop"

\* A new frame leaves the earlier counts of blocks alone.
LEMMA AnthropicBefore ==
    ASSUME NEW F, IsList(F), NEW f
    PROVE  \A i \in 1..(Len(F) + 1) : /\ Before(Append(F, f), i, Start_) = Before(F, i, Start_)
                                      /\ Before(Append(F, f), i, Stop_) = Before(F, i, Stop_)
  <1>1. \A i \in 1..(Len(F) + 1) : Before(Append(F, f), i, Start_) = Before(F, i, Start_)
    BY BeforeAppend, Zenon
  <1>2. \A i \in 1..(Len(F) + 1) : Before(Append(F, f), i, Stop_) = Before(F, i, Stop_)
    BY BeforeAppend, Zenon
  <1> QED
    BY <1>1, <1>2

\* What a new frame adds to the counts of blocks.
LEMMA AnthropicCount ==
    ASSUME NEW F, IsList(F), NEW f
    PROVE  /\ Count(Append(F, f), Start_) = Count(F, Start_) + (IF f.kind = Start_ THEN 1 ELSE 0)
           /\ Count(Append(F, f), Stop_) = Count(F, Stop_) + (IF f.kind = Stop_ THEN 1 ELSE 0)
  <1>1. Count(Append(F, f), Start_) = Count(F, Start_) + (IF f.kind = Start_ THEN 1 ELSE 0)
    BY BeforeAppend, Zenon
  <1>2. Count(Append(F, f), Stop_) = Count(F, Stop_) + (IF f.kind = Stop_ THEN 1 ELSE 0)
    BY BeforeAppend, Zenon
  <1> QED
    BY <1>1, <1>2

\* A frame more is well formed in its place.
LEMMA AnthropicAppend ==
    ASSUME NEW F, IsList(F), AnthropicFormed(F), \A i \in 1..Len(F) : F[i].kind # "message_stop",
           NEW f, f.kind = "message_start" <=> Len(F) = 0,
           f.kind = "content_block_start" =>
             Count(F, Start_) = Count(F, Stop_) /\ f.index = Count(F, Stop_),
           f.kind \in {"content_block_delta", "content_block_stop"} =>
             Count(F, Start_) = Count(F, Stop_) + 1 /\ f.index = Count(F, Stop_),
           f.kind \in {"message_delta", "message_stop"} => Count(F, Start_) = Count(F, Stop_),
           f.kind = "message_stop" => Len(F) > 0 /\ F[Len(F)].kind = "message_delta"
    PROVE  AnthropicFormed(Append(F, f))
  <1>1. PICK G, n : G = Append(F, f) /\ n = Len(F)
    OBVIOUS
  <1>2. n \in Nat /\ IsList(G) /\ Len(G) = n + 1 /\ G[n + 1] = f /\ DOMAIN G = 1..(n + 1)
        /\ DOMAIN F = 1..n /\ \A i \in 1..n : G[i] = F[i]
    BY <1>1, ListFacts, ListAppend
  <1>3. \A i \in 1..(n + 1) : Before(G, i, Start_) = Before(F, i, Start_) /\ Before(G, i, Stop_) = Before(F, i, Stop_)
    <2>1. \A i \in 1..(Len(F) + 1) : /\ Before(Append(F, f), i, Start_) = Before(F, i, Start_)
                                     /\ Before(Append(F, f), i, Stop_) = Before(F, i, Stop_)
      BY AnthropicBefore, Zenon
    <2> QED
      BY <1>1, <2>1
  <1>4. ASSUME NEW i \in 1..(n + 1)
        PROVE  LET g == G[i]
                   opened == Before(G, i, "content_block_start")
                   closed == Before(G, i, "content_block_stop")
               IN  /\ g.kind = "message_start" <=> i = 1
                   /\ g.kind = "content_block_start" => opened = closed /\ g.index = closed
                   /\ g.kind \in {"content_block_delta", "content_block_stop"} =>
                        opened = closed + 1 /\ g.index = closed
                   /\ g.kind \in {"message_delta", "message_stop"} => opened = closed
                   /\ g.kind = "message_stop" => i = Len(G) /\ G[i - 1].kind = "message_delta"
    <2>1. PICK o, c : o = Before(G, i, "content_block_start") /\ c = Before(G, i, "content_block_stop")
      OBVIOUS
    <2>2. o = Before(F, i, "content_block_start") /\ c = Before(F, i, "content_block_stop")
      BY <1>3, <2>1 DEF Start_, Stop_
    <2>3. CASE i = n + 1
      <3>1. o = Count(F, Start_) /\ c = Count(F, Stop_)
        BY <1>1, <2>2, <2>3 DEF Count, Start_, Stop_
      <3>2. f.kind = "message_stop" => G[i - 1].kind = "message_delta"
        <4>1. f.kind = "message_stop" => n \in 1..n /\ F[n].kind = "message_delta"
          BY <1>1, <1>2
        <4>2. i - 1 = n
          BY <1>2, <2>3
        <4> QED
          BY <1>2, <4>1, <4>2
      <3>3. i = 1 <=> Len(F) = 0
        BY <1>1, <1>2, <2>3
      <3> QED
        BY <1>2, <2>1, <2>3, <3>1, <3>2, <3>3
    <2>4. CASE i # n + 1
      <3>1. i \in 1..n /\ i \in DOMAIN F /\ G[i] = F[i] /\ F[i].kind # "message_stop"
        BY <1>1, <1>2, <2>4
      <3>2. LET g == F[i]
                opened == Before(F, i, "content_block_start")
                closed == Before(F, i, "content_block_stop")
            IN  /\ g.kind = "message_start" <=> i = 1
                /\ g.kind = "content_block_start" => opened = closed /\ g.index = closed
                /\ g.kind \in {"content_block_delta", "content_block_stop"} =>
                     opened = closed + 1 /\ g.index = closed
                /\ g.kind \in {"message_delta", "message_stop"} => opened = closed
        BY <3>1 DEF AnthropicFormed
      <3> QED
        BY <2>1, <2>2, <3>1, <3>2
    <2> QED
      BY <2>3, <2>4
  <1>5. AnthropicFormed(G)
    BY <1>2, <1>4 DEF AnthropicFormed
  <1> QED
    BY <1>1, <1>5

\* Frames that have begun and not ended: n blocks are closed, and one is
\* open or none is.
AnthropicFrames(F, n, open) ==
  /\ IsList(F) /\ Len(F) > 0 /\ AnthropicFormed(F)
  /\ n \in Nat /\ open \in BlockTypes \cup {"none"}
  /\ Count(F, Stop_) = n
  /\ Count(F, Start_) = n + (IF open = "none" THEN 0 ELSE 1)
  /\ \A i \in 1..Len(F) : F[i].kind # "message_stop"

\* What a client has heard of them.
AnthropicHeard(F, n, open, a) ==
  \E blocks :
    /\ Heard("anthropic", F) = Reader(a.thinking, a.text, Renamed(a.tools), blocks, "none")
    /\ open # "none" => n \in DOMAIN blocks /\ blocks[n] = [type |-> open, tool |-> Len(a.tools)]

\* Frames that may follow, by whether a block is open.
LEMMA AnthropicNext ==
    ASSUME NEW F, NEW n, NEW open, AnthropicFrames(F, n, open), NEW f
    PROVE  /\ (f.kind = "content_block_delta" /\ f.index = n /\ open # "none")
                => AnthropicFrames(Append(F, f), n, open)
           /\ (f.kind = "content_block_stop" /\ f.index = n /\ open # "none")
                => AnthropicFrames(Append(F, f), n + 1, "none")
           /\ (f.kind = "content_block_start" /\ f.index = n /\ open = "none")
                => \A type \in BlockTypes : AnthropicFrames(Append(F, f), n, type)
           /\ (f.kind = "message_delta" /\ open = "none")
                => AnthropicFrames(Append(F, f), n, "none")
  <1>1. PICK G, m : G = Append(F, f) /\ m = Len(F)
    OBVIOUS
  <1>2. IsList(F) /\ m \in Nat /\ IsList(G) /\ Len(G) = m + 1 /\ G[m + 1] = f /\ \A i \in 1..m : G[i] = F[i]
    BY <1>1, ListFacts, ListAppend DEF AnthropicFrames
  <1>3. /\ Count(G, Start_) = Count(F, Start_) + (IF f.kind = Start_ THEN 1 ELSE 0)
        /\ Count(G, Stop_) = Count(F, Stop_) + (IF f.kind = Stop_ THEN 1 ELSE 0)
    BY <1>1, <1>2, BeforeAppend
  <1>4. m > 0 /\ n \in Nat /\ open \in BlockTypes \cup {"none"} /\ "none" \notin BlockTypes
    BY <1>1 DEF AnthropicFrames, BlockTypes
  <1>5. Count(F, Stop_) = n /\ Count(F, Start_) = n + (IF open = "none" THEN 0 ELSE 1)
    BY DEF AnthropicFrames
  <1>6. f.kind # "message_stop" => \A i \in 1..(m + 1) : G[i].kind # "message_stop"
    <2>1. \A i \in 1..m : F[i].kind # "message_stop"
      BY <1>1 DEF AnthropicFrames
    <2>2. ASSUME f.kind # "message_stop", NEW i \in 1..(m + 1) PROVE G[i].kind # "message_stop"
      <3>1. i = m + 1 \/ i \in 1..m
        BY <1>2
      <3> QED
        BY <1>2, <2>1, <2>2, <3>1
    <2> QED
      BY <2>2
  <1>7. ASSUME \/ f.kind = "content_block_delta" /\ f.index = n /\ open # "none"
               \/ f.kind = "content_block_stop" /\ f.index = n /\ open # "none"
               \/ f.kind = "content_block_start" /\ f.index = n /\ open = "none"
               \/ f.kind = "message_delta" /\ open = "none"
        PROVE  AnthropicFormed(G)
    <2>1. AnthropicFormed(F) /\ \A i \in 1..Len(F) : F[i].kind # "message_stop"
      BY DEF AnthropicFrames
    <2>2. /\ f.kind = "content_block_start" => Count(F, Start_) = Count(F, Stop_) /\ f.index = Count(F, Stop_)
          /\ f.kind \in {"content_block_delta", "content_block_stop"} =>
               Count(F, Start_) = Count(F, Stop_) + 1 /\ f.index = Count(F, Stop_)
          /\ f.kind \in {"message_delta", "message_stop"} => Count(F, Start_) = Count(F, Stop_)
          /\ f.kind # "message_stop"
      BY <1>4, <1>5, <1>7
    <2>3. f.kind = "message_start" <=> Len(F) = 0
      BY <1>1, <1>4, <1>7
    <2> QED
      BY <1>1, <1>2, <2>1, <2>2, <2>3, AnthropicAppend
  <1> QED
    BY <1>1, <1>2, <1>3, <1>4, <1>5, <1>6, <1>7 DEF AnthropicFrames, Start_, Stop_

\* What each frame adds to what an Anthropic client heard.
LEMMA AnthropicHears ==
    ASSUME NEW F, IsList(F), NEW n, NEW open, NEW a \in Aggregators, AnthropicHeard(F, n, open, a), NEW f
    PROVE  /\ f.kind = "content_block_stop" => AnthropicHeard(Append(F, f), n + 1, "none", a)
           /\ \A type \in {"text", "thinking"} :
                f = [kind |-> "content_block_start", index |-> n, block |-> [type |-> type, id |-> "", name |-> ""]]
                  => AnthropicHeard(Append(F, f), n, type, a)
           /\ \A id \in Strings, name \in Strings :
                f = [kind |-> "content_block_start", index |-> n, block |-> [type |-> "tool_use", id |-> id, name |-> name]]
                  => AnthropicHeard(Append(F, f), n, "tool_use", Push(a, ToolUseStart(id, name)))
           /\ \A e \in Events :
                ( /\ e.ev \in {"text_delta", "thinking_delta", "tool_use_delta"} /\ open = TypeOf(e)
                  /\ e.ev = "tool_use_delta" => a.tools # <<>>
                  /\ f.kind = "content_block_delta" /\ f.index = n /\ f.delta = BodyOf(e) )
                  => AnthropicHeard(Append(F, f), n, open, Push(a, e))
  <1>1. PICK G, g, h : G = Append(F, f) /\ g = Heard("anthropic", F) /\ h = Heard("anthropic", G)
    OBVIOUS
  <1>2. h = HearAnthropic(g, f)
    <2>1. h = Hear("anthropic", g, f)
      BY <1>1, HearAppend
    <2> QED
      BY <2>1 DEF Hear
  <1>3. PICK blocks :
          /\ g = Reader(a.thinking, a.text, Renamed(a.tools), blocks, "none")
          /\ open # "none" => n \in DOMAIN blocks /\ blocks[n] = [type |-> open, tool |-> Len(a.tools)]
    BY <1>1 DEF AnthropicHeard
  <1>4. ASSUME f.kind = "content_block_stop" PROVE AnthropicHeard(G, n + 1, "none", a)
    <2>1. h = g
      BY <1>2, <1>4 DEF HearAnthropic
    <2> QED
      BY <1>1, <1>3, <2>1 DEF AnthropicHeard
  <1>5. "" \in Strings
    BY DEF Strings
  <1>6. ASSUME NEW type \in {"text", "thinking"},
               f = [kind |-> "content_block_start", index |-> n, block |-> [type |-> type, id |-> "", name |-> ""]]
        PROVE  AnthropicHeard(G, n, type, a)
    <2>1. h = HearBlock(g, n, type, "", "")
      BY <1>2, <1>6 DEF HearAnthropic
    <2>2. Knows(HearBlock(g, n, type, "", ""), n, type, a, a.tools)
      BY <1>3, <1>5, HearsBlock
    <2> QED
      BY <1>1, <2>1, <2>2 DEF AnthropicHeard, Knows
  <1>7. ASSUME NEW id \in Strings, NEW name \in Strings,
               f = [kind |-> "content_block_start", index |-> n, block |-> [type |-> "tool_use", id |-> id, name |-> name]]
        PROVE  AnthropicHeard(G, n, "tool_use", Push(a, ToolUseStart(id, name)))
    <2>1. h = HearBlock(g, n, "tool_use", id, name)
      BY <1>2, <1>7 DEF HearAnthropic
    <2>2. PICK us : us = Append(a.tools, [id |-> id, name |-> name, json |-> <<>>])
      OBVIOUS
    <2>3. Knows(HearBlock(g, n, "tool_use", id, name), n, "tool_use", a, us)
      BY <1>3, <2>2, HearsBlock
    <2>4. PICK b : b = Push(a, ToolUseStart(id, name))
      OBVIOUS
    <2>5. b = [a EXCEPT !.tools = us]
      BY <2>2, <2>4 DEF Push, ToolUseStart
    <2>6. b.thinking = a.thinking /\ b.text = a.text /\ b.tools = us
      BY <2>5 DEF Aggregators
    <2> QED
      BY <1>1, <2>1, <2>3, <2>4, <2>6 DEF AnthropicHeard, Knows
  <1>8. ASSUME NEW e \in Events, e.ev \in {"text_delta", "thinking_delta", "tool_use_delta"}, open = TypeOf(e),
               e.ev = "tool_use_delta" => a.tools # <<>>,
               f.kind = "content_block_delta", f.index = n, f.delta = BodyOf(e)
        PROVE  AnthropicHeard(G, n, open, Push(a, e))
    <2>1. h = HearDelta(g, n, BodyOf(e))
      BY <1>2, <1>8 DEF HearAnthropic
    <2>2. open # "none"
      BY <1>8 DEF TypeOf
    <2>3. PICK b : b = Push(a, e)
      OBVIOUS
    <2>4. /\ HearDelta(g, n, BodyOf(e)) = Reader(b.thinking, b.text, Renamed(b.tools), blocks, "none")
          /\ Len(b.tools) = Len(a.tools)
      BY <1>3, <1>8, <2>2, <2>3, HearsDelta
    <2> QED
      BY <1>1, <1>3, <2>1, <2>2, <2>3, <2>4 DEF AnthropicHeard
  <1> QED
    BY <1>1, <1>4, <1>6, <1>7, <1>8

\* An encoder that has begun.
AnthropicState(n, open, u, out) ==
  [started |-> TRUE, nextIndex |-> n, open |-> open, usage |-> u, out |-> out]

\* What was sent before and what is written now is a stream that has begun,
\* and a client has heard all of `a` in it.
AnthropicLive(base, s, n, open, a) ==
  \E u, out : /\ s = AnthropicState(n, open, u, out)
              /\ IsList(base) /\ IsList(out)
              /\ AnthropicFrames(base \o out, n, open)
              /\ AnthropicHeard(base \o out, n, open, a)

\* A frame put is a frame at the end of out.
LEMMA AnthropicPut ==
    ASSUME NEW n, NEW open, NEW u, NEW out, NEW f
    PROVE  Put(AnthropicState(n, open, u, out), f) = AnthropicState(n, open, u, Append(out, f))
  <1>1. PICK yes : yes = TRUE
    OBVIOUS
  <1>2. \A o : AnthropicState(n, open, u, o) = [started |-> yes, nextIndex |-> n, open |-> open, usage |-> u, out |-> o]
    BY <1>1 DEF AnthropicState
  <1>3. PICK s : s = [started |-> yes, nextIndex |-> n, open |-> open, usage |-> u, out |-> out]
    OBVIOUS
  <1>6. PICK o : o = Append(out, f)
    OBVIOUS
  <1>4. [s EXCEPT !.out = o] = [started |-> yes, nextIndex |-> n, open |-> open, usage |-> u, out |-> o]
    BY <1>3
  <1>5. s.out = out
    BY <1>3
  <1> QED
    BY <1>2, <1>3, <1>4, <1>5, <1>6 DEF Put

\* Its fields, and how they are set.
SetOpen(s, o) == [s EXCEPT !.open = o]
SetOpenIndex(s, o, m) == [s EXCEPT !.open = o, !.nextIndex = m]
SetUsage(s, v) == [s EXCEPT !.usage = v]

\* The fields of the Anthropic encoder's state.
LEMMA AnthropicFields ==
    ASSUME NEW n, NEW open, NEW u, NEW out, NEW s, s = AnthropicState(n, open, u, out)
    PROVE  s.nextIndex = n /\ s.open = open /\ s.usage = u /\ s.out = out
  <1>1. PICK yes : yes = TRUE
    OBVIOUS
  <1>2. s = [started |-> yes, nextIndex |-> n, open |-> open, usage |-> u, out |-> out]
    BY <1>1 DEF AnthropicState
  <1> QED
    BY <1>2

\* message_start is written once.
LEMMA AnthropicBegun ==
    ASSUME NEW n, NEW open, NEW u, NEW out, NEW s, s = AnthropicState(n, open, u, out)
    PROVE  StartAnthropic(s) = s
  <1>1. PICK yes : yes = TRUE
    OBVIOUS
  <1>2. s = [started |-> yes, nextIndex |-> n, open |-> open, usage |-> u, out |-> out]
    BY <1>1 DEF AnthropicState
  <1>3. s.started = yes
    BY <1>2
  <1> QED
    BY <1>1, <1>3, Zenon DEF StartAnthropic

\* The assignments of the Anthropic encoder.
LEMMA AnthropicSets ==
    ASSUME NEW n, NEW open, NEW u, NEW out, NEW o, NEW m
    PROVE  /\ SetOpen(AnthropicState(n, open, u, out), o) = AnthropicState(n, o, u, out)
           /\ SetOpenIndex(AnthropicState(n, open, u, out), o, m) = AnthropicState(m, o, u, out)
           /\ SetUsage(AnthropicState(n, open, u, out), o) = AnthropicState(n, open, o, out)
  <1>1. PICK yes : yes = TRUE
    OBVIOUS
  <1>2. \A k, p, v : AnthropicState(k, p, v, out) = [started |-> yes, nextIndex |-> k, open |-> p, usage |-> v, out |-> out]
    BY <1>1 DEF AnthropicState
  <1>3. PICK s : s = [started |-> yes, nextIndex |-> n, open |-> open, usage |-> u, out |-> out]
    OBVIOUS
  <1>4. PICK t : t = [s EXCEPT !.open = o]
    OBVIOUS
  <1>5. t = [started |-> yes, nextIndex |-> n, open |-> o, usage |-> u, out |-> out]
    BY <1>3, <1>4
  <1>6. [t EXCEPT !.nextIndex = m] = [started |-> yes, nextIndex |-> m, open |-> o, usage |-> u, out |-> out]
    BY <1>5
  <1>7. [s EXCEPT !.open = o, !.nextIndex = m] = [t EXCEPT !.nextIndex = m]
    BY <1>3, <1>4
  <1>8. [s EXCEPT !.usage = o] = [started |-> yes, nextIndex |-> n, open |-> open, usage |-> o, out |-> out]
    BY <1>3
  <1>9. s = AnthropicState(n, open, u, out)
    BY <1>2, <1>3
  <1>10. SetOpen(s, o) = AnthropicState(n, o, u, out)
    BY <1>2, <1>4, <1>5 DEF SetOpen
  <1>11. SetOpenIndex(s, o, m) = AnthropicState(m, o, u, out)
    BY <1>2, <1>6, <1>7 DEF SetOpenIndex
  <1>12. SetUsage(s, o) = AnthropicState(n, open, o, out)
    BY <1>2, <1>8 DEF SetUsage
  <1> QED
    BY <1>9, <1>10, <1>11, <1>12

\* Closing a block keeps the frames in order.
LEMMA AnthropicCloses ==
    ASSUME NEW base, NEW s, NEW n, NEW open, NEW a \in Aggregators, AnthropicLive(base, s, n, open, a)
    PROVE  \E m : AnthropicLive(base, CloseBlock(s), m, "none", a)
  <1>1. PICK u, out : /\ s = AnthropicState(n, open, u, out) /\ IsList(base) /\ IsList(out)
                      /\ AnthropicFrames(base \o out, n, open) /\ AnthropicHeard(base \o out, n, open, a)
    BY DEF AnthropicLive
  <1>2. s.open = open /\ s.nextIndex = n
    BY <1>1, AnthropicFields
  <1>3. CASE open = "none"
    <2>1. CloseBlock(s) = s
      BY <1>2, <1>3 DEF CloseBlock
    <2> QED
      BY <1>3, <2>1
  <1>4. CASE open # "none"
    <2>1. PICK f, o : f = [kind |-> "content_block_stop", index |-> n] /\ o = Append(out, f)
      OBVIOUS
    <2>2. PICK t : t = Put(s, f)
      OBVIOUS
    <2>3. t = AnthropicState(n, open, u, o)
      BY <1>1, <2>1, <2>2, AnthropicPut
    <2>5. PICK m : m = n + 1
      OBVIOUS
    <2>4. CloseBlock(s) = SetOpenIndex(t, "none", m)
      <3>1. t.nextIndex = n
        BY <2>3, AnthropicFields
      <3>2. CloseBlock(s) = [t EXCEPT !.open = "none", !.nextIndex = t.nextIndex + 1]
        BY <1>2, <1>4, <2>1, <2>2 DEF CloseBlock
      <3> QED
        BY <2>5, <3>1, <3>2, Zenon DEF SetOpenIndex
    <2>6. CloseBlock(s) = AnthropicState(m, "none", u, o)
      BY <2>3, <2>4, AnthropicSets
    <2>7. PICK F : F = base \o out
      OBVIOUS
    <2>8. IsList(F) /\ IsList(o) /\ base \o o = Append(F, f)
      BY <1>1, <2>1, <2>7, WriteAppend
    <2>9. f.kind = "content_block_stop" /\ f.index = n
      BY <2>1
    <2>10. AnthropicFrames(Append(F, f), m, "none")
      BY <1>1, <1>4, <2>5, <2>7, <2>9, AnthropicNext
    <2>11. AnthropicHeard(Append(F, f), m, "none", a)
      BY <1>1, <2>5, <2>7, <2>8, <2>9, AnthropicHears
    <2> QED
      BY <1>1, <2>6, <2>8, <2>10, <2>11 DEF AnthropicLive
  <1> QED
    BY <1>3, <1>4

\* Opening a block where none is open keeps them in order.
LEMMA AnthropicOpens ==
    ASSUME NEW base, NEW s, NEW n, NEW a \in Aggregators, AnthropicLive(base, s, n, "none", a)
    PROVE  /\ \A type \in {"text", "thinking"} :
                AnthropicLive(base, OpenBlock(s, [type |-> type, id |-> "", name |-> ""]), n, type, a)
           /\ \A id \in Strings, name \in Strings :
                AnthropicLive(base, OpenBlock(s, [type |-> "tool_use", id |-> id, name |-> name]), n, "tool_use",
                              Push(a, ToolUseStart(id, name)))
  <1>1. PICK u, out : /\ s = AnthropicState(n, "none", u, out) /\ IsList(base) /\ IsList(out)
                      /\ AnthropicFrames(base \o out, n, "none") /\ AnthropicHeard(base \o out, n, "none", a)
    BY DEF AnthropicLive
  <1>2. PICK F : F = base \o out
    OBVIOUS
  <1>3. ASSUME NEW block, NEW f, f = [kind |-> "content_block_start", index |-> n, block |-> block],
               block.type \in BlockTypes, NEW b, AnthropicHeard(Append(F, f), n, block.type, b)
        PROVE  AnthropicLive(base, OpenBlock(s, block), n, block.type, b)
    <2>1. PICK o, t, type : o = Append(out, f) /\ t = Put(s, f) /\ type = block.type
      OBVIOUS
    <2>2. t = AnthropicState(n, "none", u, o)
      BY <1>1, <2>1, AnthropicPut
    <2>3. OpenBlock(s, block) = SetOpen(t, type)
      <3>1. s.nextIndex = n
        BY <1>1, AnthropicFields
      <3> QED
        BY <1>3, <2>1, <3>1, Zenon DEF OpenBlock, SetOpen
    <2>4. OpenBlock(s, block) = AnthropicState(n, type, u, o)
      BY <2>2, <2>3, AnthropicSets
    <2>5. IsList(F) /\ IsList(o) /\ base \o o = Append(F, f)
      BY <1>1, <1>2, <2>1, WriteAppend
    <2>6. f.kind = "content_block_start" /\ f.index = n
      BY <1>3
    <2>7. AnthropicFrames(Append(F, f), n, type)
      BY <1>1, <1>2, <1>3, <2>1, <2>6, AnthropicNext
    <2> QED
      BY <1>1, <1>3, <2>1, <2>4, <2>5, <2>7 DEF AnthropicLive
  <1>4. IsList(F) /\ AnthropicHeard(F, n, "none", a)
    BY <1>1, <1>2, WriteAppend
  <1>5. ASSUME NEW type \in {"text", "thinking"}
        PROVE  AnthropicLive(base, OpenBlock(s, [type |-> type, id |-> "", name |-> ""]), n, type, a)
    <2>1. PICK block, f : block = [type |-> type, id |-> "", name |-> ""] /\ f = [kind |-> "content_block_start", index |-> n, block |-> block]
      OBVIOUS
    <2>2. AnthropicHeard(Append(F, f), n, type, a)
      BY <1>4, <2>1, AnthropicHears
    <2>3. block.type = type /\ type \in BlockTypes
      BY <2>1 DEF BlockTypes
    <2>4. AnthropicLive(base, OpenBlock(s, block), n, block.type, a)
      BY <1>3, <2>1, <2>2, <2>3
    <2> QED
      BY <2>1, <2>3, <2>4
  <1>6. ASSUME NEW id \in Strings, NEW name \in Strings
        PROVE  AnthropicLive(base, OpenBlock(s, [type |-> "tool_use", id |-> id, name |-> name]), n, "tool_use",
                             Push(a, ToolUseStart(id, name)))
    <2>1. PICK block, f, b : /\ block = [type |-> "tool_use", id |-> id, name |-> name]
                             /\ f = [kind |-> "content_block_start", index |-> n, block |-> block]
                             /\ b = Push(a, ToolUseStart(id, name))
      OBVIOUS
    <2>2. AnthropicHeard(Append(F, f), n, "tool_use", b)
      BY <1>4, <2>1, AnthropicHears
    <2>3. block.type = "tool_use" /\ "tool_use" \in BlockTypes
      BY <2>1 DEF BlockTypes
    <2>4. AnthropicLive(base, OpenBlock(s, block), n, block.type, b)
      BY <1>3, <2>1, <2>2, <2>3
    <2> QED
      BY <2>1, <2>3, <2>4
  <1> QED
    BY <1>5, <1>6

\* A frame of the open block: more of it is heard.
LEMMA AnthropicSays ==
    ASSUME NEW base, NEW s, NEW n, NEW open, NEW a \in Aggregators, AnthropicLive(base, s, n, open, a),
           NEW e \in Events, e.ev \in {"text_delta", "thinking_delta", "tool_use_delta"},
           open = TypeOf(e), e.ev = "tool_use_delta" => a.tools # <<>>, NEW form
    PROVE  AnthropicLive(base, Put(s, [kind |-> "content_block_delta", index |-> s.nextIndex,
                                       type |-> form, delta |-> BodyOf(e)]), n, open, Push(a, e))
  <1>1. PICK u, out : /\ s = AnthropicState(n, open, u, out) /\ IsList(base) /\ IsList(out)
                      /\ AnthropicFrames(base \o out, n, open) /\ AnthropicHeard(base \o out, n, open, a)
    BY DEF AnthropicLive
  <1>2. PICK F : F = base \o out
    OBVIOUS
  <1>3. s.nextIndex = n
    BY <1>1, AnthropicFields
  <1>4. PICK payload : payload = BodyOf(e)
    OBVIOUS
  <1>5. PICK f : f = [kind |-> "content_block_delta", index |-> n, type |-> form, delta |-> payload]
    OBVIOUS
  <1>6. f.kind = "content_block_delta" /\ f.index = n /\ f.delta = payload
    BY <1>5
  <1>7. PICK o : o = Append(out, f)
    OBVIOUS
  <1>8. Put(s, f) = AnthropicState(n, open, u, o)
    BY <1>1, <1>7, AnthropicPut
  <1>9. IsList(F) /\ IsList(o) /\ base \o o = Append(F, f)
    BY <1>1, <1>2, <1>7, WriteAppend
  <1>10. open # "none"
    BY DEF TypeOf
  <1>11. AnthropicFrames(Append(F, f), n, open)
    BY <1>1, <1>2, <1>6, <1>10, AnthropicNext
  <1>12. AnthropicHeard(Append(F, f), n, open, Push(a, e))
    BY <1>1, <1>2, <1>4, <1>6, <1>9, AnthropicHears
  <1>13. AnthropicLive(base, Put(s, f), n, open, Push(a, e))
    BY <1>1, <1>8, <1>9, <1>11, <1>12 DEF AnthropicLive
  <1> QED
    BY <1>3, <1>4, <1>5, <1>13

\* The block of a text is open when it is written.
LEMMA AnthropicEnsures ==
    ASSUME NEW base, NEW s, NEW n, NEW open, NEW a \in Aggregators, AnthropicLive(base, s, n, open, a),
           NEW type, type \in {"text", "thinking"} \/ (type = "tool_use" /\ open = "tool_use")
    PROVE  \E m : AnthropicLive(base, EnsureBlock(s, type), m, type, a)
  <1>1. PICK u, out : s = AnthropicState(n, open, u, out)
    BY DEF AnthropicLive
  <1>2. StartAnthropic(s) = s /\ s.open = open
    BY <1>1, AnthropicBegun, AnthropicFields
  <1>3. CASE open = type
    <2>1. EnsureBlock(s, type) = s
      BY <1>2, <1>3 DEF EnsureBlock
    <2> QED
      BY <1>3, <2>1
  <1>4. CASE open # type
    <2>1. type \in {"text", "thinking"}
      BY <1>4
    <2>2. EnsureBlock(s, type) = OpenBlock(CloseBlock(s), [type |-> type, id |-> "", name |-> ""])
      BY <1>2, <1>4 DEF EnsureBlock
    <2>3. PICK t : t = CloseBlock(s)
      OBVIOUS
    <2>4. PICK m : AnthropicLive(base, t, m, "none", a)
      BY <2>3, AnthropicCloses
    <2>5. AnthropicLive(base, OpenBlock(t, [type |-> type, id |-> "", name |-> ""]), m, type, a)
      BY <2>1, <2>4, AnthropicOpens
    <2> QED
      BY <2>2, <2>3, <2>5
  <1> QED
    BY <1>3, <1>4

\* A client has heard all of `a`, and how it stopped.
HeardAs(c, F, a, stop) ==
  \E blocks : Heard(c, F) = Reader(a.thinking, a.text, Renamed(a.tools), blocks, stop)

\* A stream that has ended for the client.
AnthropicOver(base, s, a) ==
  \E n, u, out : /\ s = AnthropicState(n, "none", u, out)
                 /\ IsList(base) /\ IsList(out) /\ AnthropicFormed(base \o out)
                 /\ HeardAs("anthropic", base \o out, a, a.stop[1])

\* message_delta and message_stop end the answer.
LEMMA AnthropicEnds ==
    ASSUME NEW base, NEW s, NEW n, NEW a \in Aggregators, AnthropicLive(base, s, n, "none", a), NEW stop, NEW v
    PROVE  AnthropicOver(base, Put(Put(s, [kind |-> "message_delta", stop |-> stop, usage |-> v]),
                                   [kind |-> "message_stop"]), Push(a, Done(stop)))
  <1>1. PICK u, out : /\ s = AnthropicState(n, "none", u, out) /\ IsList(base) /\ IsList(out)
                      /\ AnthropicFrames(base \o out, n, "none") /\ AnthropicHeard(base \o out, n, "none", a)
    BY DEF AnthropicLive
  <1>2. PICK F, f, g : /\ F = base \o out /\ f = [kind |-> "message_delta", stop |-> stop, usage |-> v]
                       /\ g = [kind |-> "message_stop"]
    OBVIOUS
  <1>3. f.kind = "message_delta" /\ f.stop = stop /\ g.kind = "message_stop"
    BY <1>2
  <1>4. PICK o, G : o = Append(out, f) /\ G = Append(F, f)
    OBVIOUS
  <1>5. PICK p, H : p = Append(o, g) /\ H = Append(G, g)
    OBVIOUS
  <1>6. IsList(F) /\ IsList(o) /\ base \o o = G
    BY <1>1, <1>2, <1>4, WriteAppend
  <1>7. IsList(G) /\ IsList(p) /\ base \o p = H
    <2>1. IsList(base) /\ IsList(o) /\ G = base \o o
      BY <1>1, <1>6
    <2> QED
      BY <1>5, <2>1, WriteAppend
  <1>8. Put(s, f) = AnthropicState(n, "none", u, o)
    BY <1>1, <1>4, AnthropicPut
  <1>9. Put(Put(s, f), g) = AnthropicState(n, "none", u, p)
    BY <1>5, <1>8, AnthropicPut
  <1>10. AnthropicFrames(G, n, "none")
    BY <1>1, <1>2, <1>3, <1>4, AnthropicNext
  <1>11. AnthropicFormed(H)
    <2>1. Len(G) > 0 /\ AnthropicFormed(G) /\ Count(G, Start_) = Count(G, Stop_)
          /\ \A i \in 1..Len(G) : G[i].kind # "message_stop"
      BY <1>10 DEF AnthropicFrames
    <2>2. G[Len(G)].kind = "message_delta"
      BY <1>3, <1>4, <1>6, ListAppend
    <2>3. Len(G) # 0
      BY <1>7, <2>1, ListFacts
    <2> QED
      BY <1>3, <1>5, <1>7, <2>1, <2>2, <2>3, AnthropicAppend
  <1>12. PICK blocks : Heard("anthropic", F) = Reader(a.thinking, a.text, Renamed(a.tools), blocks, "none")
    BY <1>1, <1>2 DEF AnthropicHeard
  <1>13. PICK h : h = Heard("anthropic", H)
    OBVIOUS
  <1>14. h = Reader(a.thinking, a.text, Renamed(a.tools), blocks, stop)
    <2>1. PICK k, l : k = Heard("anthropic", F) /\ l = Heard("anthropic", G)
      OBVIOUS
    <2>2. l = Hear("anthropic", k, f) /\ h = Hear("anthropic", l, g)
      BY <1>4, <1>5, <1>6, <1>7, <1>13, <2>1, HearAppend
    <2>3. h = l
      BY <1>3, <2>2 DEF Hear, HearAnthropic
    <2>4. k = [thinking |-> a.thinking, text |-> a.text, tools |-> Renamed(a.tools), blocks |-> blocks, stop |-> "none"]
      BY <1>12, <2>1 DEF Reader
    <2>5. l = [k EXCEPT !.stop = stop]
      BY <1>3, <2>2 DEF Hear, HearAnthropic
    <2>6. l = [thinking |-> a.thinking, text |-> a.text, tools |-> Renamed(a.tools), blocks |-> blocks, stop |-> stop]
      BY <2>4, <2>5
    <2> QED
      BY <2>3, <2>6 DEF Reader
  <1>15. PICK b : b = Push(a, Done(stop))
    OBVIOUS
  <1>16. b.thinking = a.thinking /\ b.text = a.text /\ b.tools = a.tools /\ b.stop = <<stop>>
    <2>1. b = [a EXCEPT !.stop = <<stop>>]
      BY <1>15 DEF Push, Done
    <2> QED
      BY <2>1 DEF Aggregators
  <1>17. b.stop[1] = stop
    BY <1>16
  <1>18. HeardAs("anthropic", H, b, b.stop[1])
    BY <1>13, <1>14, <1>16, <1>17 DEF HeardAs
  <1>19. AnthropicOver(base, Put(Put(s, f), g), b)
    BY <1>1, <1>7, <1>9, <1>11, <1>18 DEF AnthropicOver
  <1> QED
    BY <1>2, <1>15, <1>19

\* An empty answer is heard as nothing.
LEMMA NothingHeard ==
    ASSUME NEW c, NEW a, a.thinking = <<>>, a.text = <<>>, a.tools = <<>>
    PROVE  Heard(c, <<>>) = Reader(a.thinking, a.text, Renamed(a.tools), <<>>, "none")
  <1>1. Heard(c, <<>>) = NewReader
    BY HearNone
  <1>2. PICK r : r = Renamed(a.tools)
    OBVIOUS
  <1>3. PICK z : z = <<>>
    OBVIOUS
  <1>4. DOMAIN z = 1..0
    BY <1>3
  <1>5. r = [i \in 1..0 |-> r[i]]
    BY <1>2, <1>3, <1>4 DEF Renamed
  <1>6. IsList(r) /\ Len(r) = 0
    BY <1>5, ListMake
  <1>7. r = <<>>
    BY <1>6, ListNil
  <1> QED
    BY <1>1, <1>2, <1>7 DEF NewReader, Reader

\* message_start begins the answer.
LEMMA AnthropicBegins ==
    ASSUME NEW s, s = NewAnthropic, NEW a, a.thinking = <<>>, a.text = <<>>, a.tools = <<>>
    PROVE  AnthropicLive(<<>>, EmitMessageStart(s), 0, "none", a)
  <1>1. PICK yes, no : yes = TRUE /\ no = FALSE
    OBVIOUS
  <1>2. PICK u, z : u = NoTokens /\ z = <<>>
    OBVIOUS
  <1>3. s = [started |-> no, nextIndex |-> 0, open |-> "none", usage |-> u, out |-> z]
    BY <1>1, <1>2 DEF NewAnthropic
  <1>4. PICK t : t = [s EXCEPT !.started = yes]
    OBVIOUS
  <1>5. t = [started |-> yes, nextIndex |-> 0, open |-> "none", usage |-> u, out |-> z]
    BY <1>3, <1>4
  <1>6. t = AnthropicState(0, "none", u, z)
    BY <1>1, <1>5 DEF AnthropicState
  <1>7. PICK f : f = [kind |-> "message_start", usage |-> <<EmitUsageAnthropic(NoTokens)>>]
    OBVIOUS
  <1>8. PICK o : o = Append(z, f)
    OBVIOUS
  <1>9. EmitMessageStart(s) = Put(t, f)
    BY <1>1, <1>4, <1>7, Zenon DEF EmitMessageStart
  <1>10. Put(t, f) = AnthropicState(0, "none", u, o)
    BY <1>6, <1>8, AnthropicPut
  <1>11. IsList(z) /\ Len(z) = 0
    BY <1>2, ListEmpty
  <1>12. IsList(o) /\ Len(o) = 1 /\ o[1] = f
    <2>1. IsList(o) /\ Len(o) = Len(z) + 1 /\ o[Len(z) + 1] = f
      BY <1>8, <1>11, ListAppend
    <2> QED
      BY <1>11, <2>1
  <1>13. z \o o = o
    BY <1>2, <1>12, ConcatNil
  <1>14. f.kind = "message_start"
    BY <1>7
  <1>15. Count(z, Start_) = 0 /\ Count(z, Stop_) = 0
    BY <1>2, CountNone
  <1>16. AnthropicFormed(o)
    <2>1. AnthropicFormed(z)
      BY <1>2 DEF AnthropicFormed
    <2>2. \A i \in 1..Len(z) : z[i].kind # "message_stop"
      BY <1>11
    <2> QED
      BY <1>8, <1>11, <1>14, <2>1, <2>2, AnthropicAppend
  <1>17. Count(o, Start_) = 0 /\ Count(o, Stop_) = 0
    <2>1. /\ Count(o, Start_) = Count(z, Start_) + (IF f.kind = Start_ THEN 1 ELSE 0)
          /\ Count(o, Stop_) = Count(z, Stop_) + (IF f.kind = Stop_ THEN 1 ELSE 0)
      <3>1. /\ Count(Append(z, f), Start_) = Count(z, Start_) + (IF f.kind = Start_ THEN 1 ELSE 0)
            /\ Count(Append(z, f), Stop_) = Count(z, Stop_) + (IF f.kind = Stop_ THEN 1 ELSE 0)
        BY <1>11, AnthropicCount
      <3> QED
        BY <1>8, <3>1
    <2> QED
      BY <1>8, <1>14, <1>15, <2>1 DEF Start_, Stop_
  <1>18. AnthropicFrames(o, 0, "none")
    BY <1>12, <1>14, <1>16, <1>17 DEF AnthropicFrames
  <1>19. AnthropicHeard(o, 0, "none", a)
    <2>1. Heard("anthropic", o) = Hear("anthropic", Heard("anthropic", z), f)
      BY <1>8, <1>11, HearAppend
    <2>2. Heard("anthropic", z) = Reader(a.thinking, a.text, Renamed(a.tools), <<>>, "none")
      BY <1>2, NothingHeard
    <2>3. Heard("anthropic", o) = Heard("anthropic", z)
      BY <1>14, <2>1 DEF Hear, HearAnthropic
    <2> QED
      BY <2>2, <2>3 DEF AnthropicHeard
  <1>20. AnthropicLive(z, Put(t, f), 0, "none", a)
    BY <1>10, <1>11, <1>12, <1>13, <1>18, <1>19 DEF AnthropicLive
  <1> QED
    BY <1>2, <1>9, <1>20

\* What a client hears has no usage in it.
LEMMA AnthropicCounts ==
    ASSUME NEW base, NEW s, NEW a \in Aggregators, NEW b, NEW v,
           b.thinking = a.thinking, b.text = a.text, b.tools = a.tools, b.stop = a.stop
    PROVE  /\ \A n, open : AnthropicLive(base, s, n, open, a) => AnthropicLive(base, SetUsage(s, v), n, open, b)
           /\ AnthropicOver(base, s, a) => AnthropicOver(base, SetUsage(s, v), b)
  <1>1. ASSUME NEW n, NEW open, AnthropicLive(base, s, n, open, a)
        PROVE  AnthropicLive(base, SetUsage(s, v), n, open, b)
    <2>1. PICK u, out : /\ s = AnthropicState(n, open, u, out) /\ IsList(base) /\ IsList(out)
                        /\ AnthropicFrames(base \o out, n, open) /\ AnthropicHeard(base \o out, n, open, a)
      BY <1>1 DEF AnthropicLive
    <2>2. SetUsage(s, v) = AnthropicState(n, open, v, out)
      BY <2>1, AnthropicSets
    <2>3. AnthropicHeard(base \o out, n, open, b)
      BY <2>1 DEF AnthropicHeard
    <2> QED
      BY <2>1, <2>2, <2>3 DEF AnthropicLive
  <1>2. ASSUME AnthropicOver(base, s, a) PROVE AnthropicOver(base, SetUsage(s, v), b)
    <2>1. PICK n, u, out : /\ s = AnthropicState(n, "none", u, out)
                           /\ IsList(base) /\ IsList(out) /\ AnthropicFormed(base \o out)
                           /\ HeardAs("anthropic", base \o out, a, a.stop[1])
      BY <1>2 DEF AnthropicOver
    <2>2. SetUsage(s, v) = AnthropicState(n, "none", v, out)
      BY <2>1, AnthropicSets
    <2>3. HeardAs("anthropic", base \o out, b, b.stop[1])
      BY <2>1 DEF HeardAs
    <2> QED
      BY <2>1, <2>2, <2>3 DEF AnthropicOver
  <1> QED
    BY <1>1, <1>2

\* An event that no client hears changes neither text nor calls.
LEMMA PushQuiet ==
    ASSUME NEW a \in Aggregators, NEW e \in Events, e.ev \in {"message_start", "usage_delta"}, NEW b, b = Push(a, e)
    PROVE  b.thinking = a.thinking /\ b.text = a.text /\ b.tools = a.tools /\ b.stop = a.stop
  <1>1. CASE e.ev = "message_start"
    BY <1>1 DEF Push
  <1>2. CASE e.ev = "usage_delta"
    <2>1. PICK u : u = Merge(a.usage, e.usage)
      OBVIOUS
    <2>2. b = [a EXCEPT !.usage = u]
      BY <1>2, <2>1 DEF Push
    <2> QED
      BY <2>2 DEF Aggregators
  <1> QED
    BY <1>1, <1>2

\* A call that is being written is the last one.
LEMMA PushCalls ==
    ASSUME NEW a \in Aggregators, NEW e \in Events,
           e.ev = "tool_use_start" \/ (e.ev = "tool_use_delta" /\ a.tools # <<>>), NEW b, b = Push(a, e)
    PROVE  b.tools # <<>>
  <1>1. a.tools \in Seq(Tools)
    BY DEF Aggregators
  <1>2. CASE e.ev = "tool_use_start"
    <2>1. PICK us, c : c = [id |-> e.id, name |-> e.name, json |-> <<>>] /\ us = Append(a.tools, c)
      OBVIOUS
    <2>2. b = [a EXCEPT !.tools = us]
      BY <1>2, <2>1 DEF Push
    <2>3. b.tools = us
      BY <2>2 DEF Aggregators
    <2>4. Len(us) = Len(a.tools) + 1 /\ Len(a.tools) \in Nat
      BY <1>1, <2>1, SeqIsList, ListAppend, ListFacts
    <2> QED
      BY <2>3, <2>4, ListEmpty
  <1>3. CASE e.ev = "tool_use_delta" /\ a.tools # <<>>
    <2>1. PICK us, n : n = Len(a.tools) /\ us = AppendToLast(a.tools, e.json)
      OBVIOUS
    <2>2. b = [a EXCEPT !.tools = us]
      BY <1>3, <2>1 DEF Push
    <2>3. b.tools = us
      BY <2>2 DEF Aggregators
    <2>4. DOMAIN us = DOMAIN a.tools
      BY <1>3, <2>1 DEF AppendToLast
    <2>5. n \in DOMAIN a.tools
      BY <1>1, <1>3, <2>1
    <2> QED
      BY <2>3, <2>4, <2>5
  <1> QED
    BY <1>2, <1>3

\* The encoder has told its client what the walk has brought so far.
AnthropicKeeps(base, s, w) ==
  /\ w.stage = "none" => /\ s = NewAnthropic /\ base = <<>>
                         /\ w.agg.thinking = <<>> /\ w.agg.text = <<>> /\ w.agg.tools = <<>>
  /\ w.stage \in {"open", "call"} =>
       \E n, open : /\ AnthropicLive(base, s, n, open, w.agg)
                    /\ w.stage = "call" => open = "tool_use" /\ w.agg.tools # <<>>
  /\ w.stage = "over" => AnthropicOver(base, s, w.agg)

\* Whatever legal event comes, the Anthropic encoder keeps its invariant.
LEMMA AnthropicSteps ==
    ASSUME NEW base, NEW s, NEW w \in Points, AnthropicKeeps(base, s, w), NEW e, Legal(w, e)
    PROVE  AnthropicKeeps(base, EncodeAnthropic(s, e), After(w, e))
  <1>1. e \in Events /\ w.agg \in Aggregators /\ w.stage \in Stages
    BY DEF Legal, Points
  <1>2. PICK a, b, st, x, t : /\ a = w.agg /\ b = Push(a, e) /\ st = StageAfter(w.stage, e)
                              /\ x = After(w, e) /\ t = EncodeAnthropic(s, e)
    OBVIOUS
  <1>3. x.stage = st /\ x.agg = b
    BY <1>2 DEF After
  <1>4. SUFFICES AnthropicKeeps(base, t, x)
    BY <1>2
  <1>5. CASE e.ev = "message_start"
    <2>1. w.stage = "none" /\ st = "open"
      BY <1>2, <1>5 DEF Legal, StageAfter
    <2>2. s = NewAnthropic /\ base = <<>> /\ a.thinking = <<>> /\ a.text = <<>> /\ a.tools = <<>>
      BY <1>2, <2>1 DEF AnthropicKeeps
    <2>3. b = a /\ t = EmitMessageStart(s)
      BY <1>2, <1>5 DEF Push, EncodeAnthropic
    <2>4. AnthropicLive(base, t, 0, "none", b)
      BY <2>2, <2>3, AnthropicBegins
    <2> QED
      BY <1>3, <2>1, <2>4 DEF AnthropicKeeps
  <1>6. CASE e.ev = "usage_delta"
    <2>1. w.stage # "none" /\ st = w.stage
      BY <1>2, <1>6 DEF Legal, StageAfter
    <2>2. b.thinking = a.thinking /\ b.text = a.text /\ b.tools = a.tools /\ b.stop = a.stop
      BY <1>1, <1>2, <1>6, PushQuiet
    <2>3. PICK v : v = Merge(s.usage, e.usage)
      OBVIOUS
    <2>4. t = SetUsage(s, v)
      <3>1. t = [s EXCEPT !.usage = Merge(@, e.usage)]
        BY <1>2, <1>6 DEF EncodeAnthropic
      <3> QED
        BY <2>3, <3>1, Zenon DEF SetUsage
    <2>5. /\ \A n, open : AnthropicLive(base, s, n, open, a) => AnthropicLive(base, t, n, open, b)
          /\ AnthropicOver(base, s, a) => AnthropicOver(base, t, b)
      BY <1>1, <1>2, <2>2, <2>4, AnthropicCounts
    <2>6. CASE st \in {"open", "call"}
      <3>1. PICK n, open : AnthropicLive(base, s, n, open, a) /\ (st = "call" => open = "tool_use" /\ a.tools # <<>>)
        BY <1>2, <2>1, <2>6 DEF AnthropicKeeps
      <3> QED
        BY <1>3, <2>2, <2>5, <2>6, <3>1 DEF AnthropicKeeps
    <2>7. CASE st = "over"
      <3>1. AnthropicOver(base, s, a)
        BY <1>2, <2>1, <2>7 DEF AnthropicKeeps
      <3> QED
        BY <1>3, <2>5, <2>7, <3>1 DEF AnthropicKeeps
    <2> QED
      BY <1>1, <2>1, <2>6, <2>7 DEF Stages
  <1>7. ASSUME e.ev \notin {"message_start", "usage_delta"}
        PROVE  \E n, open : /\ AnthropicLive(base, s, n, open, a)
                            /\ w.stage = "call" => open = "tool_use" /\ a.tools # <<>>
    <2>1. w.stage \in {"open", "call"}
      BY <1>1, <1>7 DEF Legal, Events
    <2> QED
      BY <1>2, <2>1 DEF AnthropicKeeps
  <1>8. CASE e.ev \in {"text_delta", "thinking_delta"}
    <2>1. PICK n, open : AnthropicLive(base, s, n, open, a)
      BY <1>7, <1>8
    <2>2. PICK type, form : type = TypeOf(e) /\ form = IF e.ev = "text_delta" THEN "text_delta" ELSE "thinking_delta"
      OBVIOUS
    <2>3. type \in {"text", "thinking"}
      BY <1>8, <2>2 DEF TypeOf
    <2>4. PICK r : r = EnsureBlock(s, type)
      OBVIOUS
    <2>5. PICK m : AnthropicLive(base, r, m, type, a)
      BY <1>1, <1>2, <2>1, <2>3, <2>4, AnthropicEnsures
    <2>6. t = Put(r, [kind |-> "content_block_delta", index |-> r.nextIndex, type |-> form, delta |-> BodyOf(e)])
      <3>1. CASE e.ev = "text_delta"
        BY <1>2, <2>2, <2>4, <3>1 DEF EncodeAnthropic, TypeOf, BodyOf
      <3>2. CASE e.ev = "thinking_delta"
        BY <1>2, <2>2, <2>4, <3>2 DEF EncodeAnthropic, TypeOf, BodyOf
      <3> QED
        BY <1>8, <3>1, <3>2
    <2>7. AnthropicLive(base, t, m, type, b)
      BY <1>1, <1>2, <1>8, <2>2, <2>5, <2>6, AnthropicSays
    <2>8. st = "open"
      BY <1>2, <1>8 DEF StageAfter
    <2> QED
      BY <1>3, <2>7, <2>8 DEF AnthropicKeeps
  <1>9. CASE e.ev = "tool_use_delta"
    <2>1. w.stage = "call" /\ st = "call"
      BY <1>2, <1>9 DEF Legal, StageAfter
    <2>2. PICK n : AnthropicLive(base, s, n, "tool_use", a) /\ a.tools # <<>>
      BY <1>7, <1>9, <2>1
    <2>3. PICK r, type : r = EnsureBlock(s, type) /\ type = "tool_use"
      OBVIOUS
    <2>4. PICK m : AnthropicLive(base, r, m, type, a)
      BY <1>1, <1>2, <2>2, <2>3, AnthropicEnsures
    <2>5. t = Put(r, [kind |-> "content_block_delta", index |-> r.nextIndex, type |-> "input_json_delta", delta |-> BodyOf(e)])
      BY <1>2, <1>9, <2>3 DEF EncodeAnthropic, BodyOf
    <2>6. type = TypeOf(e)
      BY <1>9, <2>3 DEF TypeOf
    <2>7. AnthropicLive(base, t, m, type, b)
      BY <1>1, <1>2, <1>9, <2>2, <2>4, <2>5, <2>6, AnthropicSays
    <2>8. b.tools # <<>>
      BY <1>1, <1>2, <1>9, <2>2, PushCalls
    <2> QED
      BY <1>3, <2>1, <2>3, <2>7, <2>8 DEF AnthropicKeeps
  <1>10. CASE e.ev = "tool_use_start"
    <2>1. PICK n, open : AnthropicLive(base, s, n, open, a)
      BY <1>7, <1>10
    <2>2. StartAnthropic(s) = s
      BY <2>1, AnthropicBegun DEF AnthropicLive
    <2>3. PICK r : r = CloseBlock(s)
      OBVIOUS
    <2>4. PICK m : AnthropicLive(base, r, m, "none", a)
      BY <1>1, <1>2, <2>1, <2>3, AnthropicCloses
    <2>5. e.id \in Strings /\ e.name \in Strings /\ e = ToolUseStart(e.id, e.name)
      BY <1>1, <1>10 DEF Events, ToolUseStart
    <2>6. t = OpenBlock(r, [type |-> "tool_use", id |-> e.id, name |-> e.name])
      BY <1>2, <1>10, <2>2, <2>3 DEF EncodeAnthropic
    <2>7. AnthropicLive(base, t, m, "tool_use", Push(a, ToolUseStart(e.id, e.name)))
      BY <1>1, <1>2, <2>4, <2>5, <2>6, AnthropicOpens
    <2>8. AnthropicLive(base, t, m, "tool_use", b)
      BY <1>2, <2>5, <2>7
    <2>9. b.tools # <<>> /\ st = "call"
      BY <1>1, <1>2, <1>10, PushCalls DEF StageAfter
    <2> QED
      BY <1>3, <2>8, <2>9 DEF AnthropicKeeps
  <1>11. CASE e.ev = "done"
    <2>1. PICK n, open : AnthropicLive(base, s, n, open, a)
      BY <1>7, <1>11
    <2>2. StartAnthropic(s) = s
      BY <2>1, AnthropicBegun DEF AnthropicLive
    <2>3. PICK r : r = CloseBlock(s)
      OBVIOUS
    <2>4. PICK m : AnthropicLive(base, r, m, "none", a)
      BY <1>1, <1>2, <2>1, <2>3, AnthropicCloses
    <2>5. e = Done(e.stop)
      BY <1>1, <1>11 DEF Events, Done
    <2>6. PICK v : v = EmitUsageAnthropic([NoTokens EXCEPT !.output = r.usage.output])
      OBVIOUS
    <2>7. t = Put(Put(r, [kind |-> "message_delta", stop |-> e.stop, usage |-> v]), [kind |-> "message_stop"])
      BY <1>2, <1>11, <2>2, <2>3, <2>6 DEF EncodeAnthropic
    <2>8. AnthropicOver(base, t, Push(a, Done(e.stop)))
      BY <1>1, <1>2, <2>4, <2>7, AnthropicEnds
    <2>9. AnthropicOver(base, t, b) /\ st = "over"
      BY <1>2, <1>11, <2>5, <2>8 DEF StageAfter
    <2> QED
      BY <1>3, <2>9 DEF AnthropicKeeps
  <1> QED
    BY <1>1, <1>5, <1>6, <1>8, <1>9, <1>10, <1>11 DEF Events

\* An encoder whose frames were sent.
Flushed(s) == [s EXCEPT !.out = <<>>]

\* Flushing takes the frames that are out.
LEMMA AnthropicFlush ==
    ASSUME NEW n, NEW open, NEW u, NEW out, NEW z, z = <<>>
    PROVE  Flushed(AnthropicState(n, open, u, out)) = AnthropicState(n, open, u, z)
  <1>1. PICK yes : yes = TRUE
    OBVIOUS
  <1>2. \A o : AnthropicState(n, open, u, o) = [started |-> yes, nextIndex |-> n, open |-> open, usage |-> u, out |-> o]
    BY <1>1 DEF AnthropicState
  <1>3. PICK s : s = [started |-> yes, nextIndex |-> n, open |-> open, usage |-> u, out |-> out]
    OBVIOUS
  <1>4. [s EXCEPT !.out = z] = [started |-> yes, nextIndex |-> n, open |-> open, usage |-> u, out |-> z]
    BY <1>3
  <1>5. Flushed(s) = AnthropicState(n, open, u, z)
    BY <1>2, <1>4 DEF Flushed
  <1> QED
    BY <1>2, <1>3, <1>5

\* A new Anthropic encoder has written nothing.
LEMMA AnthropicNew ==
    ASSUME NEW s, s = NewAnthropic
    PROVE  Flushed(s) = s /\ s.out = <<>>
  <1>1. PICK no : no = FALSE
    OBVIOUS
  <1>2. PICK u, z : u = NoTokens /\ z = <<>>
    OBVIOUS
  <1>3. s = [started |-> no, nextIndex |-> 0, open |-> "none", usage |-> u, out |-> z]
    BY <1>1, <1>2 DEF NewAnthropic
  <1>4. [s EXCEPT !.out = z] = s
    BY <1>3
  <1>5. s.out = z
    BY <1>3
  <1> QED
    BY <1>2, <1>4, <1>5 DEF Flushed

\* What was written is what was sent, from then on.
LEMMA AnthropicFlushes ==
    ASSUME NEW base, NEW s, NEW w \in Points, AnthropicKeeps(base, s, w)
    PROVE  AnthropicKeeps(base \o s.out, Flushed(s), w)
  <1>1. PICK z : z = <<>>
    OBVIOUS
  <1>2. IsList(z) /\ w.stage \in Stages
    BY <1>1, ListEmpty DEF Points
  <1>3. CASE w.stage = "none"
    <2>1. s = NewAnthropic /\ base = z
      BY <1>1, <1>3 DEF AnthropicKeeps
    <2>2. Flushed(s) = s /\ s.out = z
      BY <1>1, <2>1, AnthropicNew
    <2>3. z \o z = z
      BY <1>1, <1>2, ConcatNil
    <2>4. base \o s.out = base
      BY <2>1, <2>2, <2>3
    <2> QED
      BY <2>2, <2>4
  <1>4. CASE w.stage \in {"open", "call"}
    <2>1. PICK n, open : AnthropicLive(base, s, n, open, w.agg) /\ (w.stage = "call" => open = "tool_use" /\ w.agg.tools # <<>>)
      BY <1>4 DEF AnthropicKeeps
    <2>2. PICK u, out : /\ s = AnthropicState(n, open, u, out) /\ IsList(base) /\ IsList(out)
                        /\ AnthropicFrames(base \o out, n, open) /\ AnthropicHeard(base \o out, n, open, w.agg)
      BY <2>1 DEF AnthropicLive
    <2>3. s.out = out /\ Flushed(s) = AnthropicState(n, open, u, z)
      BY <1>1, <2>2, AnthropicFields, AnthropicFlush
    <2>4. PICK F : F = base \o out
      OBVIOUS
    <2>5. IsList(F) /\ F \o z = F
      BY <1>1, <2>2, <2>4, ListConcat, ConcatNil
    <2>6. AnthropicLive(F, Flushed(s), n, open, w.agg)
      BY <1>2, <2>2, <2>3, <2>4, <2>5 DEF AnthropicLive
    <2>7. AnthropicLive(base \o s.out, Flushed(s), n, open, w.agg)
      BY <2>3, <2>4, <2>6
    <2> QED
      BY <1>4, <2>1, <2>7 DEF AnthropicKeeps
  <1>5. CASE w.stage = "over"
    <2>1. AnthropicOver(base, s, w.agg)
      BY <1>5 DEF AnthropicKeeps
    <2>2. PICK n, u, out : /\ s = AnthropicState(n, "none", u, out)
                           /\ IsList(base) /\ IsList(out) /\ AnthropicFormed(base \o out)
                           /\ HeardAs("anthropic", base \o out, w.agg, w.agg.stop[1])
      BY <2>1 DEF AnthropicOver
    <2>3. s.out = out /\ Flushed(s) = AnthropicState(n, "none", u, z)
      BY <1>1, <2>2, AnthropicFields, AnthropicFlush
    <2>4. PICK F : F = base \o out
      OBVIOUS
    <2>5. IsList(F) /\ F \o z = F
      BY <1>1, <2>2, <2>4, ListConcat, ConcatNil
    <2>6. AnthropicOver(F, Flushed(s), w.agg)
      BY <1>2, <2>2, <2>3, <2>4, <2>5 DEF AnthropicOver
    <2>7. AnthropicOver(base \o s.out, Flushed(s), w.agg)
      BY <2>3, <2>4, <2>6
    <2> QED
      BY <1>5, <2>7 DEF AnthropicKeeps
  <1> QED
    BY <1>2, <1>3, <1>4, <1>5 DEF Stages

\* What the frames so far are, and what a client has heard in them.
LEMMA AnthropicTells ==
    ASSUME NEW base, NEW s, NEW w \in Points, AnthropicKeeps(base, s, w), NEW F, F = base \o s.out
    PROVE  /\ IsList(F) /\ AnthropicFormed(F)
           /\ w.stage # "over" => \A i \in 1..Len(F) : F[i].kind # "message_stop"
           /\ HeardAs("anthropic", F, w.agg, IF w.stage = "over" THEN w.agg.stop[1] ELSE "none")
  <1>1. PICK z, a : z = <<>> /\ a = w.agg
    OBVIOUS
  <1>2. IsList(z) /\ w.stage \in Stages
    BY <1>1, ListEmpty DEF Points
  <1>3. CASE w.stage = "none"
    <2>1. s = NewAnthropic /\ base = z /\ a.thinking = <<>> /\ a.text = <<>> /\ a.tools = <<>>
      BY <1>1, <1>3 DEF AnthropicKeeps
    <2>2. s.out = z
      BY <1>1, <2>1, AnthropicNew
    <2>3. F = z
      BY <1>1, <1>2, <2>1, <2>2, ConcatNil
    <2>4. AnthropicFormed(z) /\ \A i \in 1..Len(z) : z[i].kind # "message_stop"
      BY <1>1, ListEmpty DEF AnthropicFormed
    <2>5. HeardAs("anthropic", z, a, "none")
      BY <1>1, <2>1, NothingHeard DEF HeardAs
    <2> QED
      BY <1>1, <1>2, <1>3, <2>3, <2>4, <2>5
  <1>4. CASE w.stage \in {"open", "call"}
    <2>1. PICK n, open : AnthropicLive(base, s, n, open, a)
      BY <1>1, <1>4 DEF AnthropicKeeps
    <2>2. PICK u, out : /\ s = AnthropicState(n, open, u, out) /\ IsList(base) /\ IsList(out)
                        /\ AnthropicFrames(base \o out, n, open) /\ AnthropicHeard(base \o out, n, open, a)
      BY <2>1 DEF AnthropicLive
    <2>3. base \o out = F
      BY <2>2, AnthropicFields
    <2>4. AnthropicFrames(F, n, open) /\ AnthropicHeard(F, n, open, a)
      BY <2>2, <2>3
    <2> QED
      BY <1>1, <1>4, <2>4 DEF AnthropicFrames, AnthropicHeard, HeardAs
  <1>5. CASE w.stage = "over"
    <2>1. AnthropicOver(base, s, a)
      BY <1>1, <1>5 DEF AnthropicKeeps
    <2>2. PICK n, u, out : /\ s = AnthropicState(n, "none", u, out)
                           /\ IsList(base) /\ IsList(out) /\ AnthropicFormed(base \o out)
                           /\ HeardAs("anthropic", base \o out, a, a.stop[1])
      BY <2>1 DEF AnthropicOver
    <2>5. IsList(base) /\ IsList(out) /\ s.out = out
      <3>1. IsList(base) /\ IsList(out) /\ s = AnthropicState(n, "none", u, out)
        BY <2>2
      <3> QED
        BY <3>1, AnthropicFields
    <2>3. base \o out = F
      BY <2>5
    <2>4. IsList(F)
      BY <2>3, <2>5, ListConcat
    <2> QED
      BY <1>1, <1>5, <2>2, <2>3, <2>4
  <1> QED
    BY <1>2, <1>3, <1>4, <1>5 DEF Stages

-----------------------------------------------------------------------------
(* A client of Responses' dialect                                          *)

Added == "response.output_item.added"
Gone == "response.output_item.done"
Completed == "response.completed"

\* What an event is once it has its number.
LEMMA NumberedIs ==
    ASSUME NEW ev, NEW n, NEW f, f = Numbered(ev, n), "seq" \notin DOMAIN ev
    PROVE  /\ f.seq = n
           /\ \A field \in DOMAIN ev : f[field] = ev[field]
           /\ \A field : field \in DOMAIN f <=> field \in DOMAIN ev \cup {"seq"}
  BY DEF Numbered

\* A new frame leaves the earlier counts of items alone.
LEMMA ResponsesBefore ==
    ASSUME NEW F, IsList(F), NEW f
    PROVE  \A i \in 1..(Len(F) + 1) : /\ Before(Append(F, f), i, Added) = Before(F, i, Added)
                                      /\ Before(Append(F, f), i, Gone) = Before(F, i, Gone)
  <1>1. \A i \in 1..(Len(F) + 1) : Before(Append(F, f), i, Added) = Before(F, i, Added)
    BY BeforeAppend, Zenon
  <1>2. \A i \in 1..(Len(F) + 1) : Before(Append(F, f), i, Gone) = Before(F, i, Gone)
    BY BeforeAppend, Zenon
  <1> QED
    BY <1>1, <1>2

\* What a new frame adds to the counts of items.
LEMMA ResponsesCount ==
    ASSUME NEW F, IsList(F), NEW f
    PROVE  /\ Count(Append(F, f), Added) = Count(F, Added) + (IF f.kind = Added THEN 1 ELSE 0)
           /\ Count(Append(F, f), Gone) = Count(F, Gone) + (IF f.kind = Gone THEN 1 ELSE 0)
  <1>1. Count(Append(F, f), Added) = Count(F, Added) + (IF f.kind = Added THEN 1 ELSE 0)
    BY BeforeAppend, Zenon
  <1>2. Count(Append(F, f), Gone) = Count(F, Gone) + (IF f.kind = Gone THEN 1 ELSE 0)
    BY BeforeAppend, Zenon
  <1> QED
    BY <1>1, <1>2

\* What was announced as done is in a list of items, at its index.
Listed(F, items) ==
  \A j \in 1..Len(F) : F[j].kind = Gone =>
    F[j].index + 1 \in 1..Len(items) /\ F[j].item = items[F[j].index + 1]

\* A frame more is well formed in its place.
LEMMA ResponsesAppend ==
    ASSUME NEW F, IsList(F), ResponsesFormed(F), \A i \in 1..Len(F) : F[i].kind # Completed,
           NEW f, f.seq = Len(F), f.kind = "response.created" <=> Len(F) = 0,
           f.kind = Added => Count(F, Added) = Count(F, Gone) /\ f.index = Count(F, Gone),
           ("index" \in DOMAIN f /\ f.kind # Added) =>
             Count(F, Added) = Count(F, Gone) + 1 /\ f.index = Count(F, Gone),
           f.kind = Completed => /\ Count(F, Added) = Count(F, Gone) /\ Len(f.output) = Count(F, Gone)
                                 /\ Listed(F, f.output)
    PROVE  ResponsesFormed(Append(F, f))
  <1>1. PICK G, n : G = Append(F, f) /\ n = Len(F)
    OBVIOUS
  <1>2. n \in Nat /\ IsList(G) /\ Len(G) = n + 1 /\ G[n + 1] = f /\ DOMAIN G = 1..(n + 1)
        /\ DOMAIN F = 1..n /\ \A i \in 1..n : G[i] = F[i]
    BY <1>1, ListFacts, ListAppend
  <1>3. \A i \in 1..(n + 1) : Before(G, i, Added) = Before(F, i, Added) /\ Before(G, i, Gone) = Before(F, i, Gone)
    <2>1. \A i \in 1..(Len(F) + 1) : /\ Before(Append(F, f), i, Added) = Before(F, i, Added)
                                     /\ Before(Append(F, f), i, Gone) = Before(F, i, Gone)
      BY ResponsesBefore, Zenon
    <2> QED
      BY <1>1, <2>1
  <1>4. ASSUME NEW i \in 1..(n + 1)
        PROVE  LET g == G[i]
                   opened == Before(G, i, "response.output_item.added")
                   closed == Before(G, i, "response.output_item.done")
               IN  /\ g.seq = i - 1
                   /\ g.kind = "response.created" <=> i = 1
                   /\ g.kind = "response.output_item.added" => opened = closed /\ g.index = closed
                   /\ ("index" \in DOMAIN g /\ g.kind # "response.output_item.added") =>
                        opened = closed + 1 /\ g.index = closed
                   /\ g.kind = "response.completed" =>
                        /\ i = Len(G) /\ opened = closed /\ Len(g.output) = closed
                        /\ \A j \in 1..(i - 1) : G[j].kind = "response.output_item.done" =>
                             G[j].item = g.output[G[j].index + 1]
    <2>1. PICK o, c : o = Before(G, i, "response.output_item.added") /\ c = Before(G, i, "response.output_item.done")
      OBVIOUS
    <2>2. o = Before(F, i, "response.output_item.added") /\ c = Before(F, i, "response.output_item.done")
      BY <1>3, <2>1 DEF Added, Gone
    <2>3. CASE i = n + 1
      <3>1. o = Count(F, Added) /\ c = Count(F, Gone)
        BY <1>1, <2>2, <2>3 DEF Count, Added, Gone
      <3>2. i = 1 <=> Len(F) = 0
        BY <1>1, <1>2, <2>3
      <3>3. i - 1 = n
        BY <1>2, <2>3
      <3>4. ASSUME f.kind = "response.completed", NEW j \in 1..(i - 1), G[j].kind = "response.output_item.done"
            PROVE  G[j].item = f.output[G[j].index + 1]
        <4>1. j \in 1..Len(F) /\ G[j] = F[j]
          BY <1>1, <1>2, <3>3
        <4> QED
          BY <3>4, <4>1 DEF Listed, Gone, Completed
      <3>5. G[i] = f /\ i = Len(G)
        BY <1>2, <2>3
      <3> QED
        BY <1>1, <2>1, <3>1, <3>2, <3>3, <3>4, <3>5 DEF Added, Gone, Completed
    <2>4. CASE i # n + 1
      <3>1. i \in 1..n /\ i \in DOMAIN F /\ G[i] = F[i] /\ F[i].kind # "response.completed"
        BY <1>1, <1>2, <2>4 DEF Completed
      <3>2. LET g == F[i]
                opened == Before(F, i, "response.output_item.added")
                closed == Before(F, i, "response.output_item.done")
            IN  /\ g.seq = i - 1
                /\ g.kind = "response.created" <=> i = 1
                /\ g.kind = "response.output_item.added" => opened = closed /\ g.index = closed
                /\ ("index" \in DOMAIN g /\ g.kind # "response.output_item.added") =>
                     opened = closed + 1 /\ g.index = closed
        BY <3>1 DEF ResponsesFormed
      <3> QED
        BY <2>1, <2>2, <3>1, <3>2
    <2> QED
      BY <2>3, <2>4
  <1>5. ResponsesFormed(G)
    BY <1>2, <1>4 DEF ResponsesFormed
  <1> QED
    BY <1>1, <1>5

\* Frames that have begun and not ended: what is done are `items`, and one
\* of a type is open or none is.
ItemTypes == {"message", "reasoning", "function_call"}
ResponsesFrames(F, items, type) ==
  /\ IsList(F) /\ Len(F) > 0 /\ ResponsesFormed(F)
  /\ IsList(items) /\ type \in ItemTypes \cup {"none"}
  /\ Count(F, Gone) = Len(items)
  /\ Count(F, Added) = Len(items) + (IF type = "none" THEN 0 ELSE 1)
  /\ Listed(F, items)
  /\ \A i \in 1..Len(F) : F[i].kind # Completed

\* Frames that may follow, by whether an item is open.
LEMMA ResponsesNext ==
    ASSUME NEW F, NEW items, NEW type, ResponsesFrames(F, items, type), NEW f, f.seq = Len(F)
    PROVE  /\ (f.kind = Added /\ f.index = Len(items) /\ type = "none")
                => \A new \in ItemTypes : ResponsesFrames(Append(F, f), items, new)
           /\ ( /\ f.kind \notin {"response.created", Added, Gone, Completed}
                /\ "index" \in DOMAIN f => f.index = Len(items) /\ type # "none" )
                => ResponsesFrames(Append(F, f), items, type)
           /\ (f.kind = Gone /\ f.index = Len(items) /\ type # "none")
                => ResponsesFrames(Append(F, f), Append(items, f.item), "none")
  <1>1. PICK G, m, n : G = Append(F, f) /\ m = Len(F) /\ n = Len(items)
    OBVIOUS
  <1>2. IsList(F) /\ m \in Nat /\ IsList(G) /\ Len(G) = m + 1 /\ G[m + 1] = f /\ \A i \in 1..m : G[i] = F[i]
    BY <1>1, ListFacts, ListAppend DEF ResponsesFrames
  <1>3. /\ Count(G, Added) = Count(F, Added) + (IF f.kind = Added THEN 1 ELSE 0)
        /\ Count(G, Gone) = Count(F, Gone) + (IF f.kind = Gone THEN 1 ELSE 0)
    <2>1. /\ Count(Append(F, f), Added) = Count(F, Added) + (IF f.kind = Added THEN 1 ELSE 0)
          /\ Count(Append(F, f), Gone) = Count(F, Gone) + (IF f.kind = Gone THEN 1 ELSE 0)
      BY <1>2, ResponsesCount
    <2> QED
      BY <1>1, <2>1
  <1>4. IsList(items) /\ n \in Nat /\ m > 0 /\ type \in ItemTypes \cup {"none"} /\ "none" \notin ItemTypes
    BY <1>1, ListFacts DEF ResponsesFrames, ItemTypes
  <1>5. Count(F, Gone) = n /\ Count(F, Added) = n + (IF type = "none" THEN 0 ELSE 1)
    BY <1>1 DEF ResponsesFrames
  <1>6. ResponsesFormed(F) /\ Listed(F, items) /\ \A i \in 1..m : F[i].kind # Completed
    BY <1>1 DEF ResponsesFrames
  <1>7. f.kind # Completed => \A i \in 1..(m + 1) : G[i].kind # Completed
    <2>1. ASSUME f.kind # Completed, NEW i \in 1..(m + 1) PROVE G[i].kind # Completed
      <3>1. i = m + 1 \/ i \in 1..m
        BY <1>2
      <3> QED
        BY <1>2, <1>6, <2>1, <3>1
    <2> QED
      BY <2>1
  <1>8. ASSUME f.kind \notin {"response.created", Completed},
               f.kind = Added => type = "none" /\ f.index = n,
               ("index" \in DOMAIN f /\ f.kind # Added) => type # "none" /\ f.index = n
        PROVE  ResponsesFormed(G)
    <2>1. /\ f.kind = Added => Count(F, Added) = Count(F, Gone) /\ f.index = Count(F, Gone)
          /\ ("index" \in DOMAIN f /\ f.kind # Added) =>
               Count(F, Added) = Count(F, Gone) + 1 /\ f.index = Count(F, Gone)
      BY <1>4, <1>5, <1>8
    <2>2. f.kind = "response.created" <=> Len(F) = 0
      BY <1>1, <1>4, <1>8
    <2>3. \A i \in 1..Len(F) : F[i].kind # Completed
      BY <1>1, <1>6
    <2> QED
      BY <1>1, <1>2, <1>6, <1>8, <2>1, <2>2, <2>3, ResponsesAppend
  <1>9. f.kind # Gone => Listed(G, items)
    <2>1. ASSUME f.kind # Gone, NEW j \in 1..(m + 1), G[j].kind = Gone
          PROVE  G[j].index + 1 \in 1..Len(items) /\ G[j].item = items[G[j].index + 1]
      <3>1. j \in 1..m /\ G[j] = F[j]
        BY <1>2, <2>1
      <3> QED
        BY <1>1, <1>6, <2>1, <3>1 DEF Listed
    <2> QED
      BY <1>2, <2>1 DEF Listed
  <1>10. ASSUME f.kind = Added, f.index = n, type = "none", NEW new \in ItemTypes
         PROVE  ResponsesFrames(G, items, new)
    <2>1. f.kind \notin {"response.created", Completed, Gone} /\ new # "none"
      BY <1>10 DEF Added, Completed, Gone, ItemTypes
    <2>2. ResponsesFormed(G) /\ Listed(G, items) /\ \A i \in 1..(m + 1) : G[i].kind # Completed
      BY <1>7, <1>8, <1>9, <1>10, <2>1
    <2>3. Count(G, Gone) = n /\ Count(G, Added) = n + 1
      BY <1>3, <1>4, <1>5, <1>10, <2>1
    <2> QED
      BY <1>1, <1>2, <1>4, <1>10, <2>1, <2>2, <2>3 DEF ResponsesFrames
  <1>11. ASSUME f.kind \notin {"response.created", Added, Gone, Completed},
                "index" \in DOMAIN f => f.index = n /\ type # "none"
         PROVE  ResponsesFrames(G, items, type)
    <2>1. ResponsesFormed(G) /\ Listed(G, items) /\ \A i \in 1..(m + 1) : G[i].kind # Completed
      BY <1>7, <1>8, <1>9, <1>11
    <2>2. Count(G, Gone) = n /\ Count(G, Added) = n + (IF type = "none" THEN 0 ELSE 1)
      BY <1>3, <1>4, <1>5, <1>11
    <2> QED
      BY <1>1, <1>2, <1>4, <2>1, <2>2 DEF ResponsesFrames
  <1>12. ASSUME f.kind = Gone, f.index = n, type # "none"
         PROVE  ResponsesFrames(G, Append(items, f.item), "none")
    <2>1. f.kind \notin {"response.created", Completed, Added}
      BY <1>12 DEF Added, Completed, Gone
    <2>2. ResponsesFormed(G) /\ \A i \in 1..(m + 1) : G[i].kind # Completed
      BY <1>7, <1>8, <1>12, <2>1
    <2>3. PICK it, new : it = f.item /\ new = Append(items, it)
      OBVIOUS
    <2>4. IsList(new) /\ Len(new) = n + 1 /\ new[n + 1] = it /\ \A i \in 1..n : new[i] = items[i]
      BY <1>1, <1>4, <2>3, ListAppend
    <2>5. Count(G, Gone) = n + 1 /\ Count(G, Added) = n + 1
      BY <1>3, <1>4, <1>5, <1>12, <2>1
    <2>6. ASSUME NEW j \in 1..(m + 1), G[j].kind = Gone
          PROVE  G[j].index + 1 \in 1..Len(new) /\ G[j].item = new[G[j].index + 1]
      <3>1. CASE j = m + 1
        BY <1>2, <1>4, <1>12, <2>3, <2>4, <3>1
      <3>2. CASE j # m + 1
        <4>1. j \in 1..m /\ G[j] = F[j]
          BY <1>2, <3>2
        <4>2. F[j].index + 1 \in 1..n /\ F[j].item = items[F[j].index + 1]
          BY <1>1, <1>6, <2>6, <4>1 DEF Listed
        <4>3. n + 1 = Len(new) /\ \A i \in 1..n : i \in 1..(n + 1)
          BY <1>4, <2>4
        <4> QED
          BY <2>4, <4>1, <4>2, <4>3
      <3> QED
        BY <3>1, <3>2
    <2>7. Listed(G, new)
      BY <1>2, <2>6 DEF Listed
    <2> QED
      BY <1>2, <2>2, <2>3, <2>4, <2>5, <2>7 DEF ResponsesFrames
  <1> QED
    BY <1>1, <1>10, <1>11, <1>12

BlockOf(type) == CASE type = "message" -> "text"
                   [] type = "reasoning" -> "thinking"
                   [] type = "function_call" -> "tool_use"

\* What a client has heard of them.
ResponsesHeard(F, n, type, a) ==
  \E blocks :
    /\ Heard("responses", F) = Reader(a.thinking, a.text, Renamed(a.tools), blocks, "none")
    /\ type # "none" => n \in DOMAIN blocks /\ blocks[n] = [type |-> BlockOf(type), tool |-> Len(a.tools)]

DeltaKinds == {"response.output_text.delta", "response.reasoning_text.delta",
               "response.function_call_arguments.delta"}

\* What each frame adds to what a Responses client heard.
LEMMA ResponsesHears ==
    ASSUME NEW F, IsList(F), NEW n, NEW type, NEW a \in Aggregators, ResponsesHeard(F, n, type, a), NEW f
    PROVE  /\ f.kind \notin DeltaKinds \cup {Added} =>
                ResponsesHeard(Append(F, f), n, type, a) /\ \A m : ResponsesHeard(Append(F, f), m, "none", a)
           /\ \A new \in {"message", "reasoning"} :
                (f.kind = Added /\ f.index = n /\ f.item = [type |-> new, call_id |-> "", name |-> ""])
                  => ResponsesHeard(Append(F, f), n, new, a)
           /\ \A id \in Strings, name \in Strings :
                (f.kind = Added /\ f.index = n /\ f.item = [type |-> "function_call", call_id |-> id, name |-> name])
                  => ResponsesHeard(Append(F, f), n, "function_call", Push(a, ToolUseStart(id, name)))
           /\ \A e \in Events :
                ( /\ e.ev \in {"text_delta", "thinking_delta", "tool_use_delta"}
                  /\ type # "none" /\ BlockOf(type) = TypeOf(e)
                  /\ e.ev = "tool_use_delta" => a.tools # <<>>
                  /\ f.kind \in DeltaKinds /\ f.index = n /\ f.delta = BodyOf(e) )
                  => ResponsesHeard(Append(F, f), n, type, Push(a, e))
  <1>1. PICK G, g, h : G = Append(F, f) /\ g = Heard("responses", F) /\ h = Heard("responses", G)
    OBVIOUS
  <1>2. h = HearResponses(g, f)
    <2>1. h = Hear("responses", g, f)
      BY <1>1, HearAppend
    <2> QED
      BY <2>1 DEF Hear
  <1>3. PICK blocks :
          /\ g = Reader(a.thinking, a.text, Renamed(a.tools), blocks, "none")
          /\ type # "none" => n \in DOMAIN blocks /\ blocks[n] = [type |-> BlockOf(type), tool |-> Len(a.tools)]
    BY <1>1 DEF ResponsesHeard
  <1>4. ASSUME f.kind \notin DeltaKinds \cup {Added}
        PROVE  ResponsesHeard(G, n, type, a) /\ \A m : ResponsesHeard(G, m, "none", a)
    <2>1. h = g
      BY <1>2, <1>4 DEF HearResponses, DeltaKinds, Added
    <2> QED
      BY <1>1, <1>3, <2>1 DEF ResponsesHeard
  <1>5. "" \in Strings
    BY DEF Strings
  <1>6. ASSUME NEW new \in {"message", "reasoning"}, f.kind = Added, f.index = n,
               f.item = [type |-> new, call_id |-> "", name |-> ""]
        PROVE  ResponsesHeard(G, n, new, a)
    <2>1. PICK b : b = BlockOf(new)
      OBVIOUS
    <2>2. b \in {"text", "thinking"}
      BY <1>6, <2>1 DEF BlockOf
    <2>7. PICK it : it = [type |-> new, call_id |-> "", name |-> ""]
      OBVIOUS
    <2>4. it.type = new /\ it.call_id = "" /\ it.name = ""
      BY <2>7
    <2>3. it = f.item
      BY <1>6, <2>7
    <2>5. h = HearBlock(g, n, b, "", "")
      BY <1>2, <1>6, <2>1, <2>3, <2>4 DEF HearResponses, Added, BlockOf
    <2>6. Knows(HearBlock(g, n, b, "", ""), n, b, a, a.tools)
      BY <1>3, <1>5, <2>2, HearsBlock
    <2> QED
      BY <1>1, <2>1, <2>5, <2>6 DEF ResponsesHeard, Knows
  <1>7. ASSUME NEW id \in Strings, NEW name \in Strings, f.kind = Added, f.index = n,
               f.item = [type |-> "function_call", call_id |-> id, name |-> name]
        PROVE  ResponsesHeard(G, n, "function_call", Push(a, ToolUseStart(id, name)))
    <2>3. PICK it : it = f.item
      OBVIOUS
    <2>4. it.type = "function_call" /\ it.call_id = id /\ it.name = name
      BY <1>7, <2>3
    <2>5. h = HearBlock(g, n, "tool_use", id, name)
      BY <1>2, <1>7, <2>3, <2>4 DEF HearResponses, Added
    <2>6. PICK us : us = Append(a.tools, [id |-> id, name |-> name, json |-> <<>>])
      OBVIOUS
    <2>7. Knows(HearBlock(g, n, "tool_use", id, name), n, "tool_use", a, us)
      BY <1>3, <2>6, HearsBlock
    <2>8. PICK b : b = Push(a, ToolUseStart(id, name))
      OBVIOUS
    <2>9. b = [a EXCEPT !.tools = us]
      BY <2>6, <2>8 DEF Push, ToolUseStart
    <2>10. b.thinking = a.thinking /\ b.text = a.text /\ b.tools = us
      BY <2>9 DEF Aggregators
    <2>11. BlockOf("function_call") = "tool_use"
      BY DEF BlockOf
    <2> QED
      BY <1>1, <2>5, <2>7, <2>8, <2>10, <2>11 DEF ResponsesHeard, Knows
  <1>8. ASSUME NEW e \in Events, e.ev \in {"text_delta", "thinking_delta", "tool_use_delta"},
               type # "none", BlockOf(type) = TypeOf(e), e.ev = "tool_use_delta" => a.tools # <<>>,
               f.kind \in DeltaKinds, f.index = n, f.delta = BodyOf(e)
        PROVE  ResponsesHeard(G, n, type, Push(a, e))
    <2>1. h = HearDelta(g, n, BodyOf(e))
      BY <1>2, <1>8 DEF HearResponses, DeltaKinds
    <2>2. PICK b : b = Push(a, e)
      OBVIOUS
    <2>3. n \in DOMAIN blocks /\ blocks[n] = [type |-> TypeOf(e), tool |-> Len(a.tools)]
      BY <1>3, <1>8
    <2>4. /\ HearDelta(g, n, BodyOf(e)) = Reader(b.thinking, b.text, Renamed(b.tools), blocks, "none")
          /\ Len(b.tools) = Len(a.tools)
      BY <1>3, <1>8, <2>2, <2>3, HearsDelta
    <2>5. blocks[n] = [type |-> BlockOf(type), tool |-> Len(b.tools)]
      BY <1>8, <2>3, <2>4
    <2> QED
      BY <1>1, <2>1, <2>2, <2>3, <2>4, <2>5 DEF ResponsesHeard
  <1> QED
    BY <1>1, <1>4, <1>6, <1>7, <1>8

\* An encoder, and what was sent before with what is written now.
ResponsesState(seq, u, n, open, items, pend, out) ==
  [seq |-> seq, usage |-> u, nextIndex |-> n, open |-> open, doneItems |-> items,
   pendingCompleted |-> pend = "yes", out |-> out]
Writes(base, s, u, n, open, items, pend, F) ==
  \E out : /\ s = ResponsesState(Len(F), u, n, open, items, pend, out)
           /\ IsList(base) /\ IsList(out) /\ F = base \o out

SetNext(s, i) == [s EXCEPT !.nextIndex = i]
SetItem(s, o) == [s EXCEPT !.open = o]
SetItems(s, o, d) == [s EXCEPT !.open = o, !.doneItems = d]
SetReport(s, u) == [s EXCEPT !.usage = u, !.pendingCompleted = FALSE]
SetPending(s) == [s EXCEPT !.pendingCompleted = TRUE]
SetSettled(s) == [s EXCEPT !.pendingCompleted = FALSE]
SetWritten(s, q, o) == [s EXCEPT !.out = o, !.seq = q]

\* The fields of the Responses encoder's state.
LEMMA ResponsesFields ==
    ASSUME NEW q, NEW u, NEW n, NEW open, NEW items, NEW pend, NEW out, NEW s,
           s = ResponsesState(q, u, n, open, items, pend, out)
    PROVE  /\ s.seq = q /\ s.usage = u /\ s.nextIndex = n /\ s.open = open
           /\ s.doneItems = items /\ s.out = out
  <1>1. PICK p : p = (pend = "yes")
    OBVIOUS
  <1>2. s = [seq |-> q, usage |-> u, nextIndex |-> n, open |-> open, doneItems |-> items,
             pendingCompleted |-> p, out |-> out]
    BY <1>1 DEF ResponsesState
  <1> QED
    BY <1>2

\* Whether response.completed is still owed.
LEMMA ResponsesPending ==
    ASSUME NEW q, NEW u, NEW n, NEW open, NEW items, NEW pend, NEW out, NEW s,
           s = ResponsesState(q, u, n, open, items, pend, out)
    PROVE  s.pendingCompleted = (pend = "yes")
  <1>1. PICK p : p = (pend = "yes")
    OBVIOUS
  <1>2. s = [seq |-> q, usage |-> u, nextIndex |-> n, open |-> open, doneItems |-> items,
             pendingCompleted |-> p, out |-> out]
    BY <1>1 DEF ResponsesState
  <1>3. s.pendingCompleted = p
    BY <1>2
  <1> QED
    BY <1>1, <1>3, Zenon

\* The assignments of the Responses encoder.
LEMMA ResponsesSets ==
    ASSUME NEW q, NEW u, NEW n, NEW open, NEW items, NEW pend, NEW out, NEW s,
           s = ResponsesState(q, u, n, open, items, pend, out), NEW v, NEW w
    PROVE  /\ SetNext(s, v) = ResponsesState(q, u, v, open, items, pend, out)
           /\ SetItem(s, v) = ResponsesState(q, u, n, v, items, pend, out)
           /\ SetItems(s, v, w) = ResponsesState(q, u, n, v, w, pend, out)
           /\ SetWritten(s, v, w) = ResponsesState(v, u, n, open, items, pend, w)
           /\ SetReport(s, v) = ResponsesState(q, v, n, open, items, "no", out)
           /\ SetPending(s) = ResponsesState(q, u, n, open, items, "yes", out)
           /\ SetSettled(s) = ResponsesState(q, u, n, open, items, "no", out)
  <1> DEFINE R(a, b, c, d, e, f, g) ==
        [seq |-> a, usage |-> b, nextIndex |-> c, open |-> d, doneItems |-> e,
         pendingCompleted |-> f, out |-> g]
  <1>1. PICK p : p = (pend = "yes")
    OBVIOUS
  <1>2. PICK yes, no : yes = TRUE /\ no = FALSE
    OBVIOUS
  <1>3. \A a, b, c, d, e, g : ResponsesState(a, b, c, d, e, pend, g) = R(a, b, c, d, e, p, g)
    BY <1>1 DEF ResponsesState
  <1>20. \A a, b, c, d, e, g : ResponsesState(a, b, c, d, e, "yes", g) = R(a, b, c, d, e, yes, g)
    BY <1>2 DEF ResponsesState
  <1>21. \A a, b, c, d, e, g : ResponsesState(a, b, c, d, e, "no", g) = R(a, b, c, d, e, no, g)
    BY <1>2 DEF ResponsesState
  <1>4. s = R(q, u, n, open, items, p, out)
    BY <1>3
  <1>5. [s EXCEPT !.nextIndex = v] = R(q, u, v, open, items, p, out)
    BY <1>4
  <1>6. [s EXCEPT !.open = v] = R(q, u, n, v, items, p, out)
    BY <1>4
  <1>7. [s EXCEPT !.open = v, !.doneItems = w] = R(q, u, n, v, w, p, out)
    <2>1. PICK t : t = [s EXCEPT !.open = v]
      OBVIOUS
    <2>2. t = R(q, u, n, v, items, p, out)
      BY <1>6, <2>1
    <2>3. [t EXCEPT !.doneItems = w] = R(q, u, n, v, w, p, out)
      BY <2>2
    <2>4. [s EXCEPT !.open = v, !.doneItems = w] = [t EXCEPT !.doneItems = w]
      BY <1>4, <2>1
    <2> QED
      BY <2>3, <2>4
  <1>8. [s EXCEPT !.out = w, !.seq = v] = R(v, u, n, open, items, p, w)
    <2>1. PICK t : t = [s EXCEPT !.out = w]
      OBVIOUS
    <2>2. t = R(q, u, n, open, items, p, w)
      BY <1>4, <2>1
    <2>3. [t EXCEPT !.seq = v] = R(v, u, n, open, items, p, w)
      BY <2>2
    <2>4. [s EXCEPT !.out = w, !.seq = v] = [t EXCEPT !.seq = v]
      BY <1>4, <2>1
    <2> QED
      BY <2>3, <2>4
  <1>9. [s EXCEPT !.usage = v, !.pendingCompleted = no] = R(q, v, n, open, items, no, out)
    <2>1. PICK t : t = [s EXCEPT !.usage = v]
      OBVIOUS
    <2>2. t = R(q, v, n, open, items, p, out)
      BY <1>4, <2>1
    <2>3. [t EXCEPT !.pendingCompleted = no] = R(q, v, n, open, items, no, out)
      BY <2>2
    <2>4. [s EXCEPT !.usage = v, !.pendingCompleted = no] = [t EXCEPT !.pendingCompleted = no]
      BY <1>4, <2>1
    <2> QED
      BY <2>3, <2>4
  <1>10. [s EXCEPT !.pendingCompleted = yes] = R(q, u, n, open, items, yes, out)
    BY <1>4
  <1>11. [s EXCEPT !.pendingCompleted = no] = R(q, u, n, open, items, no, out)
    BY <1>4
  <1>12. SetNext(s, v) = ResponsesState(q, u, v, open, items, pend, out)
    BY <1>3, <1>5 DEF SetNext
  <1>13. SetItem(s, v) = ResponsesState(q, u, n, v, items, pend, out)
    BY <1>3, <1>6 DEF SetItem
  <1>14. SetItems(s, v, w) = ResponsesState(q, u, n, v, w, pend, out)
    BY <1>3, <1>7 DEF SetItems
  <1>15. SetWritten(s, v, w) = ResponsesState(v, u, n, open, items, pend, w)
    BY <1>3, <1>8 DEF SetWritten
  <1>16. SetReport(s, v) = ResponsesState(q, v, n, open, items, "no", out)
    <2>1. SetReport(s, v) = [s EXCEPT !.usage = v, !.pendingCompleted = no]
      BY <1>2, Zenon DEF SetReport
    <2> QED
      BY <1>9, <1>21, <2>1
  <1>17. SetPending(s) = ResponsesState(q, u, n, open, items, "yes", out)
    <2>1. SetPending(s) = [s EXCEPT !.pendingCompleted = yes]
      BY <1>2, Zenon DEF SetPending
    <2> QED
      BY <1>10, <1>20, <2>1
  <1>18. SetSettled(s) = ResponsesState(q, u, n, open, items, "no", out)
    <2>1. SetSettled(s) = [s EXCEPT !.pendingCompleted = no]
      BY <1>2, Zenon DEF SetSettled
    <2> QED
      BY <1>11, <1>21, <2>1
  <1> QED
    BY <1>12, <1>13, <1>14, <1>15, <1>16, <1>17, <1>18

\* An event told gets the next sequence number.
LEMMA WritesTell ==
    ASSUME NEW base, NEW s, NEW u, NEW n, NEW open, NEW items, NEW pend, NEW F,
           Writes(base, s, u, n, open, items, pend, F), NEW ev
    PROVE  Writes(base, Tell(s, ev), u, n, open, items, pend, Append(F, Numbered(ev, Len(F))))
  <1>1. PICK out : /\ s = ResponsesState(Len(F), u, n, open, items, pend, out)
                   /\ IsList(base) /\ IsList(out) /\ F = base \o out
    BY DEF Writes
  <1>2. PICK q, f : q = Len(F) /\ f = Numbered(ev, q)
    OBVIOUS
  <1>3. s.seq = q /\ s.out = out
    BY <1>1, <1>2, ResponsesFields
  <1>4. PICK o, r : o = Append(out, f) /\ r = q + 1
    OBVIOUS
  <1>5. PICK t : t = [s EXCEPT !.out = o]
    OBVIOUS
  <1>6. Put(s, f) = t
    BY <1>3, <1>4, <1>5, Zenon DEF Put
  <1>7. t.seq = q
    BY <1>3, <1>5
  <1>8. Tell(s, ev) = SetWritten(s, r, o)
    <2>1. Tell(s, ev) = [t EXCEPT !.seq = t.seq + 1]
      BY <1>2, <1>3, <1>6, Zenon DEF Tell
    <2>2. Tell(s, ev) = [t EXCEPT !.seq = r]
      BY <1>4, <1>7, <2>1
    <2>3. SetWritten(s, r, o) = [t EXCEPT !.seq = r]
      BY <1>5 DEF SetWritten
    <2> QED
      BY <2>2, <2>3
  <1>9. Tell(s, ev) = ResponsesState(r, u, n, open, items, pend, o)
    BY <1>1, <1>2, <1>8, ResponsesSets
  <1>10. IsList(F) /\ IsList(o) /\ base \o o = Append(F, f)
    BY <1>1, <1>4, WriteAppend
  <1>11. Len(Append(F, f)) = r
    BY <1>2, <1>4, <1>10, ListAppend
  <1>12. Writes(base, Tell(s, ev), u, n, open, items, pend, Append(F, f))
    BY <1>1, <1>9, <1>10, <1>11 DEF Writes
  <1> QED
    BY <1>2, <1>12

\* The assignments leave what was written alone.
LEMMA WritesSets ==
    ASSUME NEW base, NEW s, NEW u, NEW n, NEW open, NEW items, NEW pend, NEW F,
           Writes(base, s, u, n, open, items, pend, F), NEW v, NEW w
    PROVE  /\ Writes(base, SetNext(s, v), u, v, open, items, pend, F)
           /\ Writes(base, SetItem(s, v), u, n, v, items, pend, F)
           /\ Writes(base, SetItems(s, v, w), u, n, v, w, pend, F)
           /\ Writes(base, SetReport(s, v), v, n, open, items, "no", F)
           /\ Writes(base, SetPending(s), u, n, open, items, "yes", F)
           /\ Writes(base, SetSettled(s), u, n, open, items, "no", F)
  <1>1. PICK out : /\ s = ResponsesState(Len(F), u, n, open, items, pend, out)
                   /\ IsList(base) /\ IsList(out) /\ F = base \o out
    BY DEF Writes
  <1>2. PICK q : q = Len(F)
    OBVIOUS
  <1>3. s = ResponsesState(q, u, n, open, items, pend, out)
    BY <1>1, <1>2
  <1>4. /\ SetNext(s, v) = ResponsesState(q, u, v, open, items, pend, out)
        /\ SetItem(s, v) = ResponsesState(q, u, n, v, items, pend, out)
        /\ SetItems(s, v, w) = ResponsesState(q, u, n, v, w, pend, out)
        /\ SetReport(s, v) = ResponsesState(q, v, n, open, items, "no", out)
        /\ SetPending(s) = ResponsesState(q, u, n, open, items, "yes", out)
        /\ SetSettled(s) = ResponsesState(q, u, n, open, items, "no", out)
    BY <1>3, ResponsesSets
  <1> QED
    BY <1>1, <1>2, <1>4 DEF Writes

\* What an encoder that writes has in its fields.
LEMMA WritesFields ==
    ASSUME NEW base, NEW s, NEW u, NEW n, NEW open, NEW items, NEW pend, NEW F,
           Writes(base, s, u, n, open, items, pend, F)
    PROVE  s.usage = u /\ s.nextIndex = n /\ s.open = open /\ s.doneItems = items /\ F = base \o s.out
           /\ IsList(base) /\ IsList(s.out)
  <1>1. PICK out : /\ s = ResponsesState(Len(F), u, n, open, items, pend, out)
                   /\ IsList(base) /\ IsList(out) /\ F = base \o out
    BY DEF Writes
  <1>2. PICK q : q = Len(F)
    OBVIOUS
  <1>3. s = ResponsesState(q, u, n, open, items, pend, out)
    BY <1>1, <1>2
  <1>4. s.usage = u /\ s.nextIndex = n /\ s.open = open /\ s.doneItems = items /\ s.out = out
    BY <1>3, ResponsesFields
  <1> QED
    BY <1>1, <1>4

\* An encoder in the midst of an answer.
OpenIs(open, type, n) ==
  IF type = "none" THEN open = <<>>
  ELSE \E id, name, acc : open = <<[type |-> type, index |-> n, call_id |-> id, name |-> name, acc |-> acc]>>
ResponsesAt(base, s, u, n, open, items, F, type, a) ==
  /\ Writes(base, s, u, n, open, items, "no", F)
  /\ ResponsesFrames(F, items, type) /\ ResponsesHeard(F, Len(items), type, a)

\* An event that is told of the open item, and not heard.
LEMMA ResponsesMarks ==
    ASSUME NEW base, NEW s, NEW u, NEW n, NEW open, NEW items, NEW F, NEW type, NEW a \in Aggregators,
           ResponsesAt(base, s, u, n, open, items, F, type, a),
           NEW ev, "kind" \in DOMAIN ev, "seq" \notin DOMAIN ev,
           ev.kind \notin DeltaKinds \cup {"response.created", Added, Gone, Completed},
           "index" \in DOMAIN ev => ev.index = Len(items) /\ type # "none"
    PROVE  \E G : ResponsesAt(base, Tell(s, ev), u, n, open, items, G, type, a)
  <1>1. PICK q, f, G : q = Len(F) /\ f = Numbered(ev, q) /\ G = Append(F, f)
    OBVIOUS
  <1>2. f.seq = q /\ f.kind = ev.kind /\ ("index" \in DOMAIN f => "index" \in DOMAIN ev /\ f.index = ev.index)
    BY <1>1, NumberedIs
  <1>3. Writes(base, Tell(s, ev), u, n, open, items, "no", G)
    BY <1>1, WritesTell DEF ResponsesAt
  <1>4. ResponsesFrames(G, items, type)
    <2>1. f.kind \notin {"response.created", Added, Gone, Completed}
          /\ ("index" \in DOMAIN f => f.index = Len(items) /\ type # "none")
      BY <1>2
    <2> QED
      BY <1>1, <1>2, <2>1, ResponsesNext DEF ResponsesAt
  <1>5. ResponsesHeard(G, Len(items), type, a)
    <2>1. f.kind \notin DeltaKinds \cup {Added}
      BY <1>2
    <2>2. IsList(F) /\ ResponsesHeard(F, Len(items), type, a)
      BY DEF ResponsesAt, ResponsesFrames
    <2> QED
      BY <1>1, <2>1, <2>2, ResponsesHears
  <1> QED
    BY <1>3, <1>4, <1>5 DEF ResponsesAt

\* How many items have been given an index.
Indexed(items, type) == Len(items) + (IF type = "none" THEN 0 ELSE 1)

\* What was sent and is written is a stream that has begun, a client has
\* heard all of `a` in it, and `u` is the usage so far.
ResponsesLive(base, s, type, a, u) ==
  \E open, items, F : /\ ResponsesAt(base, s, u, Indexed(items, type), open, items, F, type, a)
                      /\ OpenIs(open, type, Len(items))

\* Closing an item keeps the frames in order.
LEMMA ResponsesCloses ==
    ASSUME NEW base, NEW s, NEW type, NEW a \in Aggregators, NEW u, ResponsesLive(base, s, type, a, u)
    PROVE  ResponsesLive(base, CloseItem(s), "none", a, u)
  <1>1. PICK open, items, F : /\ ResponsesAt(base, s, u, Indexed(items, type), open, items, F, type, a)
                              /\ OpenIs(open, type, Len(items))
    BY DEF ResponsesLive
  <1>2. s.open = open /\ s.doneItems = items
    BY <1>1, WritesFields DEF ResponsesAt
  <1>3. CASE type = "none"
    <2>1. CloseItem(s) = s
      BY <1>1, <1>2, <1>3 DEF CloseItem, OpenIs
    <2> QED
      BY <1>3, <2>1
  <1>4. CASE type # "none"
    <2>1. PICK id, name, acc :
            open = <<[type |-> type, index |-> Len(items), call_id |-> id, name |-> name, acc |-> acc]>>
      BY <1>1, <1>4 DEF OpenIs
    <2>2. PICK m, n, o : m = Len(items) /\ n = Indexed(items, type)
            /\ o = [type |-> type, index |-> m, call_id |-> id, name |-> name, acc |-> acc]
      OBVIOUS
    <2>3. o.type = type /\ o.index = m /\ o.acc = acc
      BY <2>2
    <2>4. open # <<>> /\ open[1] = o
      BY <2>1, <2>2
    <2>5. PICK e, p, r, it :
            /\ e = [kind |-> "content.done", index |-> m, acc |-> acc]
            /\ p = [kind |-> "part.done", index |-> m, acc |-> acc]
            /\ r = [kind |-> "response.output_item.done", index |-> m, item |-> it]
            /\ it = Item(o)
      OBVIOUS
    <2>6. PICK t, q : t = Tell(s, e) /\ q = IF type = "function_call" THEN t ELSE Tell(t, p)
      OBVIOUS
    <2>7. PICK z, ds : z = <<>> /\ ds = Append(items, it)
      OBVIOUS
    <2>8. PICK v : v = Tell(q, r)
      OBVIOUS
    <2>9. "content.done" \notin DeltaKinds \cup {"response.created", Added, Gone, Completed}
          /\ "part.done" \notin DeltaKinds \cup {"response.created", Added, Gone, Completed}
      BY DEF DeltaKinds, Added, Gone, Completed
    <2>10. PICK G : ResponsesAt(base, t, u, n, open, items, G, type, a)
      <3>1. "kind" \in DOMAIN e /\ "seq" \notin DOMAIN e /\ e.kind = "content.done" /\ e.index = m
        BY <2>5
      <3> QED
        BY <1>1, <1>4, <2>2, <2>6, <2>9, <3>1, ResponsesMarks
    <2>11. PICK H : ResponsesAt(base, q, u, n, open, items, H, type, a)
      <3>1. CASE type = "function_call"
        BY <2>6, <2>10, <3>1
      <3>2. CASE type # "function_call"
        <4>1. "kind" \in DOMAIN p /\ "seq" \notin DOMAIN p /\ p.kind = "part.done" /\ p.index = m
          BY <2>5
        <4>2. \E K : ResponsesAt(base, Tell(t, p), u, n, open, items, K, type, a)
          BY <1>4, <2>2, <2>9, <2>10, <4>1, ResponsesMarks
        <4> QED
          BY <2>6, <3>2, <4>2
      <3> QED
        BY <3>1, <3>2
    <2>12. PICK f, K : f = Numbered(r, Len(H)) /\ K = Append(H, f)
      OBVIOUS
    <2>13. f.seq = Len(H) /\ f.kind = Gone /\ f.index = m /\ f.item = it
      <3>1. "seq" \notin DOMAIN r /\ "kind" \in DOMAIN r /\ "index" \in DOMAIN r /\ "item" \in DOMAIN r
            /\ r.kind = Gone /\ r.index = m /\ r.item = it
        BY <2>5 DEF Gone
      <3> QED
        BY <2>12, <3>1, NumberedIs
    <2>14. Writes(base, v, u, n, open, items, "no", K)
      BY <2>8, <2>11, <2>12, WritesTell DEF ResponsesAt
    <2>15. v.doneItems = items
      BY <2>14, WritesFields
    <2>16. CloseItem(s) = SetItems(v, z, ds)
      <3>1. CloseItem(s) = [v EXCEPT !.open = <<>>, !.doneItems = Append(v.doneItems, it)]
        BY <1>2, <2>3, <2>4, <2>5, <2>6, <2>8, Zenon DEF CloseItem
      <3> QED
        BY <2>7, <2>15, <3>1, Zenon DEF SetItems
    <2>17. Writes(base, CloseItem(s), u, n, z, ds, "no", K)
      BY <2>14, <2>16, WritesSets
    <2>18. ResponsesFrames(K, ds, "none")
      BY <1>4, <2>2, <2>7, <2>11, <2>12, <2>13, ResponsesNext DEF ResponsesAt
    <2>19. ResponsesHeard(K, Len(ds), "none", a)
      <3>1. f.kind \notin DeltaKinds \cup {Added}
        BY <2>13 DEF DeltaKinds, Added, Gone
      <3>2. IsList(H) /\ ResponsesHeard(H, Len(items), type, a)
        BY <2>11 DEF ResponsesAt, ResponsesFrames
      <3> QED
        BY <2>12, <3>1, <3>2, ResponsesHears
    <2>20. n = Indexed(ds, "none")
      <3>1. IsList(items)
        BY <1>1 DEF ResponsesAt, ResponsesFrames
      <3>2. Len(ds) = Len(items) + 1 /\ Len(items) \in Nat
        BY <2>7, <3>1, ListAppend, ListFacts
      <3> QED
        BY <1>4, <2>2, <3>2 DEF Indexed
    <2>21. OpenIs(z, "none", Len(ds))
      BY <2>7 DEF OpenIs
    <2>22. ResponsesAt(base, CloseItem(s), u, Indexed(ds, "none"), z, ds, K, "none", a)
      BY <2>17, <2>18, <2>19, <2>20 DEF ResponsesAt
    <2> QED
      BY <2>21, <2>22 DEF ResponsesLive
  <1> QED
    BY <1>3, <1>4

\* What a client makes of an item that begins.
Begins(new, id, name, a, b) ==
  \/ new \in {"message", "reasoning"} /\ id = "" /\ name = "" /\ b = a
  \/ new = "function_call" /\ id \in Strings /\ name \in Strings /\ b = Push(a, ToolUseStart(id, name))

\* Opening an item where none is open keeps them in order.
LEMMA ResponsesOpens ==
    ASSUME NEW base, NEW s, NEW a \in Aggregators, NEW u, ResponsesLive(base, s, "none", a, u),
           NEW new, NEW id, NEW name, NEW b \in Aggregators, Begins(new, id, name, a, b)
    PROVE  ResponsesLive(base, OpenItem(s, new, id, name), new, b, u)
  <1>1. PICK open, items, F : ResponsesAt(base, s, u, Indexed(items, "none"), open, items, F, "none", a)
    BY DEF ResponsesLive
  <1>2. PICK i : i = Len(items)
    OBVIOUS
  <1>3. IsList(F) /\ IsList(items) /\ i \in Nat /\ Indexed(items, "none") = i
    BY <1>1, <1>2, ListFacts DEF ResponsesAt, ResponsesFrames, Indexed
  <1>4. Writes(base, s, u, i, open, items, "no", F)
    BY <1>1, <1>3 DEF ResponsesAt
  <1>5. s.nextIndex = i
    BY <1>4, WritesFields
  <1>6. PICK j, it, e, p, x :
          /\ j = i + 1 /\ it = [type |-> new, call_id |-> id, name |-> name]
          /\ e = [kind |-> "response.output_item.added", index |-> i, item |-> it]
          /\ p = [kind |-> "part.added", index |-> i]
          /\ x = <<[type |-> new, index |-> i, call_id |-> id, name |-> name, acc |-> <<>>]>>
    OBVIOUS
  <1>7. PICK r, t, q : r = SetNext(s, j) /\ t = Tell(r, e) /\ q = IF new = "function_call" THEN t ELSE Tell(t, p)
    OBVIOUS
  <1>8. OpenItem(s, new, id, name) = SetItem(q, x)
    BY <1>5, <1>6, <1>7, Zenon DEF OpenItem, SetItem, SetNext
  <1>9. Writes(base, r, u, j, open, items, "no", F)
    BY <1>4, <1>7, WritesSets
  <1>10. PICK f, G : f = Numbered(e, Len(F)) /\ G = Append(F, f)
    OBVIOUS
  <1>11. f.seq = Len(F) /\ f.kind = Added /\ f.index = i /\ f.item = it
    <2>1. "seq" \notin DOMAIN e /\ "kind" \in DOMAIN e /\ "index" \in DOMAIN e /\ "item" \in DOMAIN e
          /\ e.kind = Added /\ e.index = i /\ e.item = it
      BY <1>6 DEF Added
    <2> QED
      BY <1>10, <2>1, NumberedIs
  <1>12. Writes(base, t, u, j, open, items, "no", G)
    BY <1>7, <1>9, <1>10, WritesTell
  <1>13. new \in ItemTypes /\ new # "none"
    BY DEF Begins, ItemTypes
  <1>14. ResponsesFrames(G, items, new)
    BY <1>1, <1>2, <1>10, <1>11, <1>13, ResponsesNext DEF ResponsesAt
  <1>15. ResponsesHeard(G, i, new, b)
    <2>1. ResponsesHeard(F, i, "none", a)
      BY <1>1, <1>2 DEF ResponsesAt
    <2>2. CASE new \in {"message", "reasoning"} /\ id = "" /\ name = "" /\ b = a
      <3>1. f.item = [type |-> new, call_id |-> "", name |-> ""]
        BY <1>6, <1>11, <2>2
      <3> QED
        BY <1>3, <1>10, <1>11, <2>1, <2>2, <3>1, ResponsesHears
    <2>3. CASE new = "function_call" /\ id \in Strings /\ name \in Strings /\ b = Push(a, ToolUseStart(id, name))
      <3>1. f.item = [type |-> "function_call", call_id |-> id, name |-> name]
        BY <1>6, <1>11, <2>3
      <3>2. ResponsesHeard(G, i, "function_call", Push(a, ToolUseStart(id, name)))
        BY <1>3, <1>10, <1>11, <2>1, <2>3, <3>1, ResponsesHears
      <3> QED
        BY <2>3, <3>2
    <2> QED
      BY <2>2, <2>3 DEF Begins
  <1>16. ResponsesAt(base, t, u, j, open, items, G, new, b)
    BY <1>2, <1>12, <1>14, <1>15 DEF ResponsesAt
  <1>17. PICK H : ResponsesAt(base, q, u, j, open, items, H, new, b)
    <2>1. CASE new = "function_call"
      BY <1>7, <1>16, <2>1
    <2>2. CASE new # "function_call"
      <3>1. "kind" \in DOMAIN p /\ "seq" \notin DOMAIN p /\ p.kind = "part.added" /\ p.index = i
        BY <1>6
      <3>2. "part.added" \notin DeltaKinds \cup {"response.created", Added, Gone, Completed}
        BY DEF DeltaKinds, Added, Gone, Completed
      <3>3. \E K : ResponsesAt(base, Tell(t, p), u, j, open, items, K, new, b)
        BY <1>2, <1>13, <1>16, <3>1, <3>2, ResponsesMarks
      <3> QED
        BY <1>7, <2>2, <3>3
    <2> QED
      BY <2>1, <2>2
  <1>18. Writes(base, SetItem(q, x), u, j, x, items, "no", H)
    BY <1>17, WritesSets DEF ResponsesAt
  <1>19. ResponsesAt(base, SetItem(q, x), u, j, x, items, H, new, b)
    BY <1>17, <1>18 DEF ResponsesAt
  <1>20. OpenIs(x, new, i)
    BY <1>6, <1>13 DEF OpenIs
  <1>21. j = Indexed(items, new)
    BY <1>2, <1>6, <1>13 DEF Indexed
  <1> QED
    BY <1>2, <1>8, <1>19, <1>20, <1>21 DEF ResponsesLive

\* The item of a text is open when it is written.
LEMMA ResponsesEnsures ==
    ASSUME NEW base, NEW s, NEW type, NEW a \in Aggregators, NEW u, ResponsesLive(base, s, type, a, u),
           NEW new \in {"message", "reasoning"}
    PROVE  ResponsesLive(base, EnsureItem(s, new), new, a, u)
  <1>1. PICK open, items, F : /\ ResponsesAt(base, s, u, Indexed(items, type), open, items, F, type, a)
                              /\ OpenIs(open, type, Len(items))
    BY DEF ResponsesLive
  <1>2. s.open = open
    BY <1>1, WritesFields DEF ResponsesAt
  <1>3. (s.open # <<>> /\ s.open[1].type = new) <=> type = new
    <2>1. CASE type = "none"
      BY <1>1, <1>2, <2>1 DEF OpenIs
    <2>2. CASE type # "none"
      <3>1. PICK id, name, acc :
              open = <<[type |-> type, index |-> Len(items), call_id |-> id, name |-> name, acc |-> acc]>>
        BY <1>1, <2>2 DEF OpenIs
      <3>2. open # <<>> /\ open[1].type = type
        BY <3>1
      <3> QED
        BY <1>2, <3>2
    <2> QED
      BY <2>1, <2>2
  <1>4. CASE type = new
    <2>1. EnsureItem(s, new) = s
      BY <1>3, <1>4 DEF EnsureItem
    <2> QED
      BY <1>4, <2>1
  <1>5. CASE type # new
    <2>1. PICK t : t = CloseItem(s)
      OBVIOUS
    <2>2. EnsureItem(s, new) = OpenItem(t, new, "", "")
      BY <1>3, <1>5, <2>1 DEF EnsureItem
    <2>3. ResponsesLive(base, t, "none", a, u)
      BY <2>1, ResponsesCloses
    <2>4. Begins(new, "", "", a, a)
      BY DEF Begins
    <2>5. ResponsesLive(base, OpenItem(t, new, "", ""), new, a, u)
      BY <2>3, <2>4, ResponsesOpens
    <2> QED
      BY <2>2, <2>5
  <1> QED
    BY <1>4, <1>5

AddAcc(s, payload) == [s EXCEPT !.open[1].acc = @ \o payload]

\* The open item is the one last opened.
LEMMA ResponsesIndex ==
    ASSUME NEW q, NEW u, NEW n, NEW items, NEW pend, NEW out, NEW type, type # "none", NEW m,
           NEW x, OpenIs(x, type, m), NEW s, s = ResponsesState(q, u, n, x, items, pend, out)
    PROVE  s.open # <<>> /\ s.open[1].type = type /\ s.open[1].index = m
  <1>1. PICK id, name, acc : x = <<[type |-> type, index |-> m, call_id |-> id, name |-> name, acc |-> acc]>>
    BY DEF OpenIs
  <1>2. PICK o : o = [type |-> type, index |-> m, call_id |-> id, name |-> name, acc |-> acc] /\ x = <<o>>
    BY <1>1
  <1>3. s.open = x
    BY ResponsesFields
  <1>4. x # <<>> /\ x[1] = o /\ o.type = type /\ o.index = m
    BY <1>2
  <1> QED
    BY <1>3, <1>4

\* What is said is added to the open item.
LEMMA ResponsesAdds ==
    ASSUME NEW q, NEW u, NEW n, NEW items, NEW pend, NEW out, NEW type, type # "none", NEW m, NEW payload,
           NEW x, OpenIs(x, type, m), NEW s, s = ResponsesState(q, u, n, x, items, pend, out)
    PROVE  \E y : OpenIs(y, type, m) /\ AddAcc(s, payload) = SetItem(s, y)
  <1>0. PICK id, name, acc : x = <<[type |-> type, index |-> m, call_id |-> id, name |-> name, acc |-> acc]>>
    BY DEF OpenIs
  <1>1. PICK o : o = [type |-> type, index |-> m, call_id |-> id, name |-> name, acc |-> acc] /\ x = <<o>>
    BY <1>0
  <1>3. s.open = x
    BY ResponsesFields
  <1>4. x[1] = o /\ o.acc = acc /\ o.index = m
    BY <1>1
  <1>5. PICK more : more = acc \o payload
    OBVIOUS
  <1>6. PICK p : p = [o EXCEPT !.acc = more]
    OBVIOUS
  <1>7. p = [type |-> type, index |-> m, call_id |-> id, name |-> name, acc |-> more]
    BY <1>1, <1>6
  <1>8. PICK y : y = [x EXCEPT ![1] = p]
    OBVIOUS
  <1>9. y = <<p>>
    BY <1>1, <1>8
  <1>10. AddAcc(s, payload) = [s EXCEPT !.open = [s.open EXCEPT ![1] = [s.open[1] EXCEPT !.acc = s.open[1].acc \o payload]]]
    BY Zenon DEF AddAcc
  <1>11. AddAcc(s, payload) = [s EXCEPT !.open = y]
    BY <1>3, <1>4, <1>5, <1>6, <1>8, <1>10, Zenon
  <1>12. AddAcc(s, payload) = SetItem(s, <<p>>)
    BY <1>9, <1>11, Zenon DEF SetItem
  <1>13. OpenIs(<<p>>, type, m)
    BY <1>7 DEF OpenIs
  <1> QED
    BY <1>12, <1>13

\* A delta of the open item: more of it is heard.
LEMMA ResponsesSays ==
    ASSUME NEW base, NEW s, NEW type, NEW a \in Aggregators, NEW u, ResponsesLive(base, s, type, a, u),
           NEW e \in Events, e.ev \in {"text_delta", "thinking_delta", "tool_use_delta"},
           type # "none", BlockOf(type) = TypeOf(e), e.ev = "tool_use_delta" => a.tools # <<>>,
           NEW kind \in DeltaKinds
    PROVE  ResponsesLive(base, ItemDelta(s, kind, BodyOf(e)), type, Push(a, e), u)
  <1>1. PICK open, items, F : /\ ResponsesAt(base, s, u, Indexed(items, type), open, items, F, type, a)
                              /\ OpenIs(open, type, Len(items))
    BY DEF ResponsesLive
  <1>2. PICK m, n, payload : m = Len(items) /\ n = Indexed(items, type) /\ payload = BodyOf(e)
    OBVIOUS
  <1>4. Writes(base, s, u, n, open, items, "no", F)
    BY <1>1, <1>2 DEF ResponsesAt
  <1>6. s.open[1].index = m /\ \E y : OpenIs(y, type, m) /\ AddAcc(s, payload) = SetItem(s, y)
    <2>1. PICK out, q : s = ResponsesState(q, u, n, open, items, "no", out)
      BY <1>4 DEF Writes
    <2>2. OpenIs(open, type, m) /\ type # "none"
      BY <1>1, <1>2
    <2>3. s.open[1].index = m
      BY <2>1, <2>2, ResponsesIndex
    <2>4. \E y : OpenIs(y, type, m) /\ AddAcc(s, payload) = SetItem(s, y)
      BY <2>1, <2>2, ResponsesAdds
    <2> QED
      BY <2>3, <2>4
  <1>7. PICK x : OpenIs(x, type, m) /\ AddAcc(s, payload) = SetItem(s, x)
    BY <1>6
  <1>9. PICK r, d : r = SetItem(s, x) /\ d = [kind |-> kind, index |-> m, delta |-> payload]
    OBVIOUS
  <1>10. ItemDelta(s, kind, payload) = Tell(r, d)
    BY <1>6, <1>7, <1>9, Zenon DEF ItemDelta, AddAcc
  <1>11. Writes(base, r, u, n, x, items, "no", F)
    BY <1>4, <1>9, WritesSets
  <1>12. PICK f, G : f = Numbered(d, Len(F)) /\ G = Append(F, f)
    OBVIOUS
  <1>13. f.seq = Len(F) /\ f.kind = kind /\ f.index = m /\ f.delta = payload
    <2>1. "seq" \notin DOMAIN d /\ "kind" \in DOMAIN d /\ "index" \in DOMAIN d /\ "delta" \in DOMAIN d
          /\ d.kind = kind /\ d.index = m /\ d.delta = payload
      BY <1>9
    <2> QED
      BY <1>12, <2>1, NumberedIs
  <1>14. Writes(base, Tell(r, d), u, n, x, items, "no", G)
    BY <1>11, <1>12, WritesTell
  <1>15. kind \notin {"response.created", Added, Gone, Completed}
    BY DEF DeltaKinds, Added, Gone, Completed
  <1>16. ResponsesFrames(G, items, type)
    BY <1>1, <1>2, <1>12, <1>13, <1>15, ResponsesNext DEF ResponsesAt
  <1>17. ResponsesHeard(G, m, type, Push(a, e))
    <2>1. IsList(F) /\ ResponsesHeard(F, m, type, a)
      BY <1>1, <1>2 DEF ResponsesAt, ResponsesFrames
    <2> QED
      BY <1>2, <1>12, <1>13, <2>1, ResponsesHears
  <1>18. ResponsesAt(base, Tell(r, d), u, n, x, items, G, type, Push(a, e))
    BY <1>2, <1>14, <1>16, <1>17 DEF ResponsesAt
  <1>20. ResponsesLive(base, Tell(r, d), type, Push(a, e), u)
    BY <1>2, <1>7, <1>18 DEF ResponsesLive
  <1> QED
    BY <1>2, <1>10, <1>20

\* The end goes out with what was done, in order.
LEMMA ResponsesCompletes ==
    ASSUME NEW base, NEW s, NEW u, NEW n, NEW open, NEW items, NEW F, NEW a \in Aggregators,
           ResponsesAt(base, s, u, n, open, items, F, "none", a)
    PROVE  \E G : /\ Writes(base, WriteCompleted(s), u, n, open, items, "no", G)
                  /\ IsList(G) /\ ResponsesFormed(G) /\ HeardAs("responses", G, a, "none")
  <1>1. s.doneItems = items /\ Writes(base, s, u, n, open, items, "no", F)
    BY WritesFields DEF ResponsesAt
  <1>2. PICK v : v = IF s.usage = <<>> THEN <<>> ELSE <<EmitUsageResponses(s.usage[1])>>
    OBVIOUS
  <1>3. PICK d : d = [kind |-> "response.completed", status |-> "completed", output |-> items, usage |-> v]
    OBVIOUS
  <1>4. WriteCompleted(s) = Tell(s, d)
    BY <1>1, <1>2, <1>3, Zenon DEF WriteCompleted
  <1>5. PICK f, G : f = Numbered(d, Len(F)) /\ G = Append(F, f)
    OBVIOUS
  <1>6. f.seq = Len(F) /\ f.kind = Completed /\ f.output = items /\ "index" \notin DOMAIN f
    <2>1. "seq" \notin DOMAIN d /\ "kind" \in DOMAIN d /\ "output" \in DOMAIN d /\ "index" \notin DOMAIN d
          /\ d.kind = Completed /\ d.output = items
      BY <1>3 DEF Completed
    <2> QED
      BY <1>5, <2>1, NumberedIs
  <1>7. Writes(base, Tell(s, d), u, n, open, items, "no", G)
    BY <1>1, <1>5, WritesTell
  <1>8. ResponsesFrames(F, items, "none") /\ ResponsesHeard(F, Len(items), "none", a) /\ IsList(F)
    BY DEF ResponsesAt, ResponsesFrames
  <1>9. ResponsesFormed(G)
    <2>1. /\ ResponsesFormed(F) /\ Listed(F, items) /\ \A i \in 1..Len(F) : F[i].kind # Completed
          /\ Len(F) > 0 /\ Count(F, Gone) = Len(items) /\ Count(F, Added) = Len(items) + 0
      BY <1>8 DEF ResponsesFrames
    <2>2. Len(F) \in Nat /\ Len(items) \in Nat
      BY <1>8, ListFacts DEF ResponsesFrames
    <2>3. Count(F, Added) = Count(F, Gone) /\ Len(F) # 0
      BY <2>1, <2>2
    <2>4. f.kind \notin {"response.created", Added}
      BY <1>6 DEF Completed, Added
    <2> QED
      BY <1>5, <1>6, <1>8, <2>1, <2>3, <2>4, ResponsesAppend
  <1>10. ResponsesHeard(G, Len(items), "none", a)
    <2>1. f.kind \notin DeltaKinds \cup {Added}
      BY <1>6 DEF DeltaKinds, Added, Completed
    <2> QED
      BY <1>5, <1>8, <2>1, ResponsesHears
  <1>11. HeardAs("responses", G, a, "none")
    BY <1>10 DEF ResponsesHeard, HeardAs
  <1>12. IsList(G)
    BY <1>5, <1>8, ListAppend
  <1> QED
    BY <1>4, <1>7, <1>9, <1>11, <1>12

\* Whether response.completed is still owed, of an encoder that writes.
LEMMA WritesPending ==
    ASSUME NEW base, NEW s, NEW u, NEW n, NEW open, NEW items, NEW pend, NEW F,
           Writes(base, s, u, n, open, items, pend, F)
    PROVE  s.pendingCompleted = (pend = "yes")
  BY ResponsesPending DEF Writes

\* The end waits for the usage, or has been told.
ResponsesWaits(base, s, a) ==
  \E u, n, open, items, F :
    /\ u = <<>> /\ Writes(base, s, u, n, open, items, "yes", F)
    /\ ResponsesFrames(F, items, "none") /\ ResponsesHeard(F, Len(items), "none", a)
ResponsesTold(base, s, a) ==
  \E u, n, open, items, F :
    /\ u # <<>> /\ Writes(base, s, u, n, open, items, "no", F)
    /\ IsList(F) /\ ResponsesFormed(F) /\ HeardAs("responses", F, a, "none")

\* response.created and response.in_progress begin the answer.
LEMMA ResponsesBegins ==
    ASSUME NEW s, s = NewResponses, NEW a \in Aggregators, a.thinking = <<>>, a.text = <<>>, a.tools = <<>>,
           NEW z, z = <<>>
    PROVE  ResponsesLive(z, Tell(Tell(s, [kind |-> "response.created"]), [kind |-> "response.in_progress"]),
                         "none", a, z)
  <1>1. IsList(z) /\ Len(z) = 0
    BY ListEmpty
  <1>2. Writes(z, s, z, 0, z, z, "no", z)
    <2>1. PICK no : no = FALSE
      OBVIOUS
    <2>2. s = [seq |-> 0, usage |-> z, nextIndex |-> 0, open |-> z, doneItems |-> z,
               pendingCompleted |-> no, out |-> z]
      BY <2>1 DEF NewResponses
    <2>3. s = ResponsesState(0, z, 0, z, z, "no", z)
      BY <2>1, <2>2 DEF ResponsesState
    <2>4. z \o z = z
      BY <1>1, ConcatNil
    <2> QED
      BY <1>1, <2>3, <2>4 DEF Writes
  <1>3. PICK d, e : d = [kind |-> "response.created"] /\ e = [kind |-> "response.in_progress"]
    OBVIOUS
  <1>4. PICK f, G, t : f = Numbered(d, Len(z)) /\ G = Append(z, f) /\ t = Tell(s, d)
    OBVIOUS
  <1>5. f.seq = 0 /\ f.kind = "response.created" /\ "index" \notin DOMAIN f
    <2>1. "seq" \notin DOMAIN d /\ "kind" \in DOMAIN d /\ "index" \notin DOMAIN d /\ d.kind = "response.created"
      BY <1>3
    <2> QED
      BY <1>1, <1>4, <2>1, NumberedIs
  <1>6. Writes(z, t, z, 0, z, z, "no", G)
    BY <1>2, <1>4, WritesTell
  <1>7. f.kind \notin DeltaKinds \cup {Added, Gone, Completed}
    BY <1>5 DEF DeltaKinds, Added, Gone, Completed
  <1>8. Count(z, Added) = 0 /\ Count(z, Gone) = 0
    BY CountNone
  <1>9. ResponsesFrames(G, z, "none")
    <2>1. ResponsesFormed(z) /\ \A i \in 1..Len(z) : z[i].kind # Completed
      BY <1>1 DEF ResponsesFormed
    <2>2. ResponsesFormed(G)
      BY <1>1, <1>4, <1>5, <1>7, <2>1, ResponsesAppend
    <2>4. IsList(G) /\ Len(G) = 1 /\ G[1] = f
      <3>1. G = <<f>>
        BY <1>4
      <3> QED
        BY <3>1, ListOne
    <2>5. Count(G, Added) = 0 /\ Count(G, Gone) = 0
      <3>1. /\ Count(Append(z, f), Added) = Count(z, Added) + (IF f.kind = Added THEN 1 ELSE 0)
            /\ Count(Append(z, f), Gone) = Count(z, Gone) + (IF f.kind = Gone THEN 1 ELSE 0)
        BY <1>1, ResponsesCount
      <3> QED
        BY <1>4, <1>7, <1>8, <3>1
    <2>6. Listed(G, z) /\ \A i \in 1..Len(G) : G[i].kind # Completed
      BY <1>7, <2>4 DEF Listed
    <2> QED
      BY <1>1, <2>2, <2>4, <2>5, <2>6 DEF ResponsesFrames
  <1>10. ResponsesHeard(G, 0, "none", a)
    <2>1. Heard("responses", z) = Reader(a.thinking, a.text, Renamed(a.tools), <<>>, "none")
      BY NothingHeard
    <2>2. ResponsesHeard(z, 0, "none", a)
      BY <2>1 DEF ResponsesHeard
    <2> QED
      BY <1>1, <1>4, <1>7, <2>2, ResponsesHears
  <1>11. ResponsesAt(z, t, z, 0, z, z, G, "none", a)
    BY <1>1, <1>6, <1>9, <1>10 DEF ResponsesAt
  <1>12. PICK H : ResponsesAt(z, Tell(t, e), z, 0, z, z, H, "none", a)
    <2>1. "kind" \in DOMAIN e /\ "seq" \notin DOMAIN e /\ "index" \notin DOMAIN e /\ e.kind = "response.in_progress"
      BY <1>3
    <2>2. "response.in_progress" \notin DeltaKinds \cup {"response.created", Added, Gone, Completed}
      BY DEF DeltaKinds, Added, Gone, Completed
    <2> QED
      BY <1>11, <2>1, <2>2, ResponsesMarks
  <1>13. OpenIs(z, "none", Len(z)) /\ Indexed(z, "none") = 0
    BY <1>1 DEF OpenIs, Indexed
  <1> QED
    BY <1>3, <1>4, <1>12, <1>13 DEF ResponsesLive

\* A report of usage: the end goes out if it waits for one.
LEMMA ResponsesCounts ==
    ASSUME NEW base, NEW s, NEW a \in Aggregators, NEW b \in Aggregators,
           b.thinking = a.thinking, b.text = a.text, b.tools = a.tools, NEW e \in Events, e.ev = "usage_delta",
           NEW t, t = EncodeResponses(s, e)
    PROVE  /\ \A type, u : ResponsesLive(base, s, type, a, u) => \E v : v # <<>> /\ ResponsesLive(base, t, type, b, v)
           /\ ResponsesWaits(base, s, a) \/ ResponsesTold(base, s, a) => ResponsesTold(base, t, b)
  <1>1. PICK v, r : v = MergeOption(s.usage, e.usage) /\ r = SetReport(s, v)
    OBVIOUS
  <1>2. v # <<>>
    BY <1>1 DEF MergeOption
  <1>3. t = IF s.pendingCompleted THEN WriteCompleted(r) ELSE r
    BY <1>1, Zenon DEF EncodeResponses, SetReport
  <1>4. ASSUME NEW F, NEW n, NEW type, ResponsesHeard(F, n, type, a) PROVE ResponsesHeard(F, n, type, b)
    BY <1>4 DEF ResponsesHeard
  <1>5. ASSUME NEW type, NEW u, ResponsesLive(base, s, type, a, u)
        PROVE  \E w : w # <<>> /\ ResponsesLive(base, t, type, b, w)
    <2>1. PICK open, items, F : /\ ResponsesAt(base, s, u, Indexed(items, type), open, items, F, type, a)
                                /\ OpenIs(open, type, Len(items))
      BY <1>5 DEF ResponsesLive
    <2>2. PICK n : n = Indexed(items, type)
      OBVIOUS
    <2>3. Writes(base, s, u, n, open, items, "no", F)
      BY <2>1, <2>2 DEF ResponsesAt
    <2>4. t = r
      <3>1. s.pendingCompleted = ("no" = "yes")
        BY <2>3, WritesPending
      <3> QED
        BY <1>3, <3>1
    <2>5. Writes(base, t, v, n, open, items, "no", F)
      BY <1>1, <2>3, <2>4, WritesSets
    <2>6. ResponsesAt(base, t, v, n, open, items, F, type, b)
      BY <1>4, <2>1, <2>5 DEF ResponsesAt
    <2> QED
      BY <1>2, <2>1, <2>2, <2>6 DEF ResponsesLive
  <1>6. ASSUME ResponsesWaits(base, s, a) PROVE ResponsesTold(base, t, b)
    <2>1. PICK u, n, open, items, F :
            /\ u = <<>> /\ Writes(base, s, u, n, open, items, "yes", F)
            /\ ResponsesFrames(F, items, "none") /\ ResponsesHeard(F, Len(items), "none", a)
      BY <1>6 DEF ResponsesWaits
    <2>2. t = WriteCompleted(r)
      <3>1. s.pendingCompleted = ("yes" = "yes")
        BY <2>1, WritesPending
      <3> QED
        BY <1>3, <3>1
    <2>3. Writes(base, r, v, n, open, items, "no", F)
      BY <1>1, <2>1, WritesSets
    <2>4. ResponsesAt(base, r, v, n, open, items, F, "none", b)
      BY <1>4, <2>1, <2>3 DEF ResponsesAt
    <2> QED
      BY <1>2, <2>2, <2>4, ResponsesCompletes DEF ResponsesTold
  <1>7. ASSUME ResponsesTold(base, s, a) PROVE ResponsesTold(base, t, b)
    <2>1. PICK u, n, open, items, F :
            /\ u # <<>> /\ Writes(base, s, u, n, open, items, "no", F)
            /\ IsList(F) /\ ResponsesFormed(F) /\ HeardAs("responses", F, a, "none")
      BY <1>7 DEF ResponsesTold
    <2>2. t = r
      <3>1. s.pendingCompleted = ("no" = "yes")
        BY <2>1, WritesPending
      <3> QED
        BY <1>3, <3>1
    <2>3. Writes(base, t, v, n, open, items, "no", F)
      BY <1>1, <2>1, <2>2, WritesSets
    <2>4. HeardAs("responses", F, b, "none")
      BY <2>1 DEF HeardAs
    <2> QED
      BY <1>2, <2>1, <2>3, <2>4 DEF ResponsesTold
  <1> QED
    BY <1>5, <1>6, <1>7

\* The encoder has told its client what the walk has brought so far; the end
\* is told once the usage was.
ResponsesKeeps(base, s, w) ==
  /\ w.stage = "none" => /\ s = NewResponses /\ base = <<>> /\ ~w.seen
                         /\ w.agg.thinking = <<>> /\ w.agg.text = <<>> /\ w.agg.tools = <<>>
  /\ w.stage \in {"open", "call"} =>
       \E type, u : /\ ResponsesLive(base, s, type, w.agg, u) /\ (w.seen <=> u # <<>>)
                    /\ w.stage = "call" => type = "function_call" /\ w.agg.tools # <<>>
  /\ w.stage = "over" => IF w.seen THEN ResponsesTold(base, s, w.agg) ELSE ResponsesWaits(base, s, w.agg)

\* The end closes the item and owes response.completed.
LEMMA ResponsesEnds ==
    ASSUME NEW base, NEW s, NEW type, NEW a \in Aggregators, NEW u, ResponsesLive(base, s, type, a, u),
           NEW b \in Aggregators, b.thinking = a.thinking, b.text = a.text, b.tools = a.tools,
           NEW e, e.ev = "done", NEW t, t = EncodeResponses(s, e)
    PROVE  /\ u # <<>> => ResponsesTold(base, t, b)
           /\ u = <<>> => ResponsesWaits(base, t, b)
  <1>1. PICK r : r = CloseItem(s)
    OBVIOUS
  <1>2. ResponsesLive(base, r, "none", a, u)
    BY <1>1, ResponsesCloses
  <1>3. PICK open, items, F : ResponsesAt(base, r, u, Indexed(items, "none"), open, items, F, "none", a)
    BY <1>2 DEF ResponsesLive
  <1>4. PICK n : n = Indexed(items, "none")
    OBVIOUS
  <1>5. Writes(base, r, u, n, open, items, "no", F) /\ r.usage = u
    BY <1>3, <1>4, WritesFields DEF ResponsesAt
  <1>6. t = IF r.usage # <<>> THEN WriteCompleted(r) ELSE SetPending(r)
    BY <1>1, Zenon DEF EncodeResponses, SetPending
  <1>7. ResponsesFrames(F, items, "none") /\ ResponsesHeard(F, Len(items), "none", b)
    BY <1>3 DEF ResponsesAt, ResponsesHeard
  <1>8. ResponsesAt(base, r, u, n, open, items, F, "none", b)
    BY <1>5, <1>7 DEF ResponsesAt
  <1>9. ASSUME u # <<>> PROVE ResponsesTold(base, t, b)
    <2>1. t = WriteCompleted(r)
      BY <1>5, <1>6, <1>9
    <2> QED
      BY <1>8, <1>9, <2>1, ResponsesCompletes DEF ResponsesTold
  <1>10. ASSUME u = <<>> PROVE ResponsesWaits(base, t, b)
    <2>1. t = SetPending(r)
      BY <1>5, <1>6, <1>10
    <2>2. Writes(base, t, u, n, open, items, "yes", F)
      BY <1>5, <2>1, WritesSets
    <2> QED
      BY <1>7, <1>10, <2>2 DEF ResponsesWaits
  <1> QED
    BY <1>9, <1>10

\* Whatever legal event comes, the Responses encoder keeps its invariant.
LEMMA ResponsesSteps ==
    ASSUME NEW base, NEW s, NEW w \in Points, ResponsesKeeps(base, s, w), NEW e, Legal(w, e)
    PROVE  ResponsesKeeps(base, EncodeResponses(s, e), After(w, e))
  <1>1. e \in Events /\ w.agg \in Aggregators /\ w.stage \in Stages
    BY DEF Legal, Points
  <1>2. PICK a, b, st, x, t : /\ a = w.agg /\ b = Push(a, e) /\ st = StageAfter(w.stage, e)
                              /\ x = After(w, e) /\ t = EncodeResponses(s, e)
    OBVIOUS
  <1>3. x.stage = st /\ x.agg = b /\ (x.seen <=> w.seen \/ e.ev = "usage_delta")
    BY <1>2 DEF After
  <1>4. SUFFICES ResponsesKeeps(base, t, x)
    BY <1>2
  <1>20. b \in Aggregators
    BY <1>1, <1>2, PushTyped
  <1>5. CASE e.ev = "message_start"
    <2>1. w.stage = "none" /\ st = "open"
      BY <1>2, <1>5 DEF Legal, StageAfter
    <2>2. s = NewResponses /\ base = <<>> /\ ~w.seen /\ a.thinking = <<>> /\ a.text = <<>> /\ a.tools = <<>>
      BY <1>2, <2>1 DEF ResponsesKeeps
    <2>3. b = a /\ t = Tell(Tell(s, [kind |-> "response.created"]), [kind |-> "response.in_progress"])
      BY <1>2, <1>5 DEF Push, EncodeResponses
    <2>4. PICK z : z = <<>>
      OBVIOUS
    <2>5. ResponsesLive(z, t, "none", a, z)
      BY <1>1, <1>2, <2>2, <2>3, <2>4, ResponsesBegins
    <2>6. ~x.seen
      BY <1>3, <1>5, <2>2
    <2> QED
      BY <1>3, <2>1, <2>2, <2>3, <2>4, <2>5, <2>6 DEF ResponsesKeeps
  <1>6. CASE e.ev = "usage_delta"
    <2>1. w.stage # "none" /\ st = w.stage /\ x.seen
      BY <1>2, <1>3, <1>6 DEF Legal, StageAfter
    <2>2. b.thinking = a.thinking /\ b.text = a.text /\ b.tools = a.tools /\ b.stop = a.stop
      BY <1>1, <1>2, <1>6, PushQuiet
    <2>3. /\ \A type, u : ResponsesLive(base, s, type, a, u) => \E v : v # <<>> /\ ResponsesLive(base, t, type, b, v)
          /\ ResponsesWaits(base, s, a) \/ ResponsesTold(base, s, a) => ResponsesTold(base, t, b)
      BY <1>1, <1>2, <1>6, <1>20, <2>2, ResponsesCounts
    <2>4. CASE st \in {"open", "call"}
      <3>1. PICK type, u : ResponsesLive(base, s, type, a, u) /\ (st = "call" => type = "function_call" /\ a.tools # <<>>)
        BY <1>2, <2>1, <2>4 DEF ResponsesKeeps
      <3>2. PICK v : v # <<>> /\ ResponsesLive(base, t, type, b, v)
        BY <2>3, <3>1
      <3> QED
        BY <1>3, <2>1, <2>2, <2>4, <3>1, <3>2 DEF ResponsesKeeps
    <2>5. CASE st = "over"
      <3>1. ResponsesWaits(base, s, a) \/ ResponsesTold(base, s, a)
        BY <1>2, <2>1, <2>5 DEF ResponsesKeeps
      <3> QED
        BY <1>3, <2>1, <2>3, <2>5, <3>1 DEF ResponsesKeeps
    <2> QED
      BY <1>1, <2>1, <2>4, <2>5 DEF Stages
  <1>7. ASSUME e.ev \notin {"message_start", "usage_delta"}
        PROVE  /\ x.seen <=> w.seen
               /\ \E type, u : /\ ResponsesLive(base, s, type, a, u) /\ (w.seen <=> u # <<>>)
                               /\ w.stage = "call" => type = "function_call" /\ a.tools # <<>>
    <2>1. w.stage \in {"open", "call"}
      BY <1>1, <1>7 DEF Legal, Events
    <2>2. \E type, u : /\ ResponsesLive(base, s, type, a, u) /\ (w.seen <=> u # <<>>)
                       /\ w.stage = "call" => type = "function_call" /\ a.tools # <<>>
      BY <1>2, <2>1 DEF ResponsesKeeps
    <2>3. x.seen <=> w.seen
      BY <1>3, <1>7
    <2> QED
      BY <2>2, <2>3
  <1>8. CASE e.ev \in {"text_delta", "thinking_delta"}
    <2>1. (x.seen <=> w.seen) /\ \E type, u : ResponsesLive(base, s, type, a, u) /\ (w.seen <=> u # <<>>)
      BY <1>7, <1>8
    <2>2. PICK type, u : ResponsesLive(base, s, type, a, u) /\ (x.seen <=> u # <<>>)
      BY <2>1
    <2>3. PICK new, kind : /\ new = IF e.ev = "text_delta" THEN "message" ELSE "reasoning"
                           /\ kind = IF e.ev = "text_delta" THEN "response.output_text.delta"
                                     ELSE "response.reasoning_text.delta"
      OBVIOUS
    <2>4. new \in {"message", "reasoning"} /\ kind \in DeltaKinds
      BY <2>3 DEF DeltaKinds
    <2>5. new # "none" /\ BlockOf(new) = TypeOf(e)
      BY <1>8, <2>3 DEF BlockOf, TypeOf
    <2>6. PICK r : r = EnsureItem(s, new)
      OBVIOUS
    <2>7. ResponsesLive(base, r, new, a, u)
      BY <1>1, <1>2, <2>2, <2>4, <2>6, ResponsesEnsures
    <2>8. t = ItemDelta(r, kind, BodyOf(e))
      <3>1. CASE e.ev = "text_delta"
        BY <1>2, <2>3, <2>6, <3>1 DEF EncodeResponses, BodyOf
      <3>2. CASE e.ev = "thinking_delta"
        BY <1>2, <2>3, <2>6, <3>2 DEF EncodeResponses, BodyOf
      <3> QED
        BY <1>8, <3>1, <3>2
    <2>9. ResponsesLive(base, t, new, b, u)
      BY <1>1, <1>2, <1>8, <2>4, <2>5, <2>7, <2>8, ResponsesSays
    <2>10. st = "open"
      BY <1>2, <1>8 DEF StageAfter
    <2> QED
      BY <1>3, <2>2, <2>9, <2>10 DEF ResponsesKeeps
  <1>9. CASE e.ev = "tool_use_delta"
    <2>1. w.stage = "call" /\ st = "call"
      BY <1>2, <1>9 DEF Legal, StageAfter
    <2>2. PICK u : ResponsesLive(base, s, "function_call", a, u) /\ (x.seen <=> u # <<>>) /\ a.tools # <<>>
      BY <1>7, <1>9, <2>1
    <2>3. s.open # <<>> /\ s.open[1].type = "function_call"
      <3>1. PICK open, items, F, n : /\ Writes(base, s, u, n, open, items, "no", F)
                                     /\ OpenIs(open, "function_call", Len(items))
        BY <2>2 DEF ResponsesLive, ResponsesAt
      <3>2. PICK q, out : s = ResponsesState(q, u, n, open, items, "no", out)
        BY <3>1 DEF Writes
      <3>3. "function_call" # "none"
        OBVIOUS
      <3> QED
        BY <3>1, <3>2, <3>3, ResponsesIndex
    <2>4. PICK kind : kind = "response.function_call_arguments.delta"
      OBVIOUS
    <2>5. t = ItemDelta(s, kind, BodyOf(e))
      BY <1>2, <1>9, <2>3, <2>4 DEF EncodeResponses, BodyOf
    <2>6. BlockOf("function_call") = TypeOf(e) /\ kind \in DeltaKinds
      BY <1>9, <2>4 DEF BlockOf, TypeOf, DeltaKinds
    <2>7. ResponsesLive(base, t, "function_call", b, u)
      BY <1>1, <1>2, <1>9, <2>2, <2>5, <2>6, ResponsesSays
    <2>8. b.tools # <<>>
      BY <1>1, <1>2, <1>9, <2>2, PushCalls
    <2> QED
      BY <1>3, <2>1, <2>2, <2>7, <2>8 DEF ResponsesKeeps
  <1>10. CASE e.ev = "tool_use_start"
    <2>1. (x.seen <=> w.seen) /\ \E type, u : ResponsesLive(base, s, type, a, u) /\ (w.seen <=> u # <<>>)
      BY <1>7, <1>10
    <2>2. PICK type, u : ResponsesLive(base, s, type, a, u) /\ (x.seen <=> u # <<>>)
      BY <2>1
    <2>3. PICK r : r = CloseItem(s)
      OBVIOUS
    <2>4. ResponsesLive(base, r, "none", a, u)
      BY <1>1, <1>2, <2>2, <2>3, ResponsesCloses
    <2>5. e.id \in Strings /\ e.name \in Strings /\ e = ToolUseStart(e.id, e.name)
      BY <1>1, <1>10 DEF Events, ToolUseStart
    <2>6. t = OpenItem(r, "function_call", e.id, e.name)
      BY <1>2, <1>10, <2>3 DEF EncodeResponses
    <2>7. Begins("function_call", e.id, e.name, a, b)
      BY <1>2, <2>5 DEF Begins
    <2>8. ResponsesLive(base, t, "function_call", b, u)
      BY <1>1, <1>2, <1>20, <2>4, <2>6, <2>7, ResponsesOpens
    <2>9. b.tools # <<>> /\ st = "call"
      BY <1>1, <1>2, <1>10, PushCalls DEF StageAfter
    <2> QED
      BY <1>3, <2>2, <2>8, <2>9 DEF ResponsesKeeps
  <1>11. CASE e.ev = "done"
    <2>1. (x.seen <=> w.seen) /\ \E type, u : ResponsesLive(base, s, type, a, u) /\ (w.seen <=> u # <<>>)
      BY <1>7, <1>11
    <2>2. PICK type, u : ResponsesLive(base, s, type, a, u) /\ (x.seen <=> u # <<>>)
      BY <2>1
    <2>3. b.thinking = a.thinking /\ b.text = a.text /\ b.tools = a.tools
      <3>1. PICK o : o = <<e.stop>>
        OBVIOUS
      <3>2. b = [a EXCEPT !.stop = o]
        BY <1>2, <1>11, <3>1 DEF Push
      <3> QED
        BY <1>1, <1>2, <3>2 DEF Aggregators
    <2>4. /\ u # <<>> => ResponsesTold(base, t, b)
          /\ u = <<>> => ResponsesWaits(base, t, b)
      BY <1>1, <1>2, <1>11, <1>20, <2>2, <2>3, ResponsesEnds
    <2>5. st = "over"
      BY <1>2, <1>11 DEF StageAfter
    <2> QED
      BY <1>3, <2>2, <2>4, <2>5 DEF ResponsesKeeps
  <1> QED
    BY <1>1, <1>5, <1>6, <1>8, <1>9, <1>10, <1>11 DEF Events

\* Flushing moves the frames that are out to those sent.
LEMMA WritesFlush ==
    ASSUME NEW base, NEW s, NEW u, NEW n, NEW open, NEW items, NEW pend, NEW F,
           Writes(base, s, u, n, open, items, pend, F)
    PROVE  Writes(F, Flushed(s), u, n, open, items, pend, F)
  <1>1. PICK out : /\ s = ResponsesState(Len(F), u, n, open, items, pend, out)
                   /\ IsList(base) /\ IsList(out) /\ F = base \o out
    BY DEF Writes
  <1>2. PICK q, z, p : q = Len(F) /\ z = <<>> /\ p = (pend = "yes")
    OBVIOUS
  <1>3. s = [seq |-> q, usage |-> u, nextIndex |-> n, open |-> open, doneItems |-> items,
             pendingCompleted |-> p, out |-> out]
    BY <1>1, <1>2 DEF ResponsesState
  <1>4. PICK t : t = [s EXCEPT !.out = z]
    OBVIOUS
  <1>5. t = [seq |-> q, usage |-> u, nextIndex |-> n, open |-> open, doneItems |-> items,
             pendingCompleted |-> p, out |-> z]
    BY <1>3, <1>4
  <1>6. t = ResponsesState(q, u, n, open, items, pend, z)
    BY <1>2, <1>5 DEF ResponsesState
  <1>7. Flushed(s) = t
    BY <1>2, <1>4, Zenon DEF Flushed
  <1>8. IsList(F) /\ IsList(z)
    BY <1>1, <1>2, ListConcat, ListEmpty
  <1>9. F \o z = F
    BY <1>2, <1>8, ConcatNil
  <1> QED
    BY <1>2, <1>6, <1>7, <1>8, <1>9 DEF Writes

\* A new Responses encoder has written nothing.
LEMMA ResponsesNew ==
    ASSUME NEW s, s = NewResponses
    PROVE  Flushed(s) = s /\ s.out = <<>>
  <1>1. PICK no, z : no = FALSE /\ z = <<>>
    OBVIOUS
  <1>2. s = [seq |-> 0, usage |-> z, nextIndex |-> 0, open |-> z, doneItems |-> z,
             pendingCompleted |-> no, out |-> z]
    BY <1>1 DEF NewResponses
  <1>3. [s EXCEPT !.out = z] = s
    BY <1>2
  <1>4. s.out = z
    BY <1>2
  <1> QED
    BY <1>1, <1>3, <1>4 DEF Flushed

\* Flushing keeps the Responses encoder's invariant.
LEMMA ResponsesFlushes ==
    ASSUME NEW base, NEW s, NEW w \in Points, ResponsesKeeps(base, s, w)
    PROVE  ResponsesKeeps(base \o s.out, Flushed(s), w)
  <1>1. PICK z : z = <<>>
    OBVIOUS
  <1>2. IsList(z) /\ w.stage \in Stages
    BY <1>1, ListEmpty DEF Points
  <1>3. CASE w.stage = "none"
    <2>1. s = NewResponses /\ base = z
      BY <1>1, <1>3 DEF ResponsesKeeps
    <2>2. Flushed(s) = s /\ s.out = z
      BY <1>1, <2>1, ResponsesNew
    <2>3. z \o z = z
      BY <1>1, <1>2, ConcatNil
    <2>4. base \o s.out = base
      BY <2>1, <2>2, <2>3
    <2> QED
      BY <2>2, <2>4
  <1>4. PICK F : F = base \o s.out
    OBVIOUS
  <1>5. CASE w.stage \in {"open", "call"}
    <2>1. PICK type, u : /\ ResponsesLive(base, s, type, w.agg, u) /\ (w.seen <=> u # <<>>)
                         /\ w.stage = "call" => type = "function_call" /\ w.agg.tools # <<>>
      BY <1>5 DEF ResponsesKeeps
    <2>2. PICK open, items, G : /\ ResponsesAt(base, s, u, Indexed(items, type), open, items, G, type, w.agg)
                                /\ OpenIs(open, type, Len(items))
      BY <2>1 DEF ResponsesLive
    <2>3. Writes(base, s, u, Indexed(items, type), open, items, "no", G)
      BY <2>2 DEF ResponsesAt
    <2>4. F = G /\ Writes(G, Flushed(s), u, Indexed(items, type), open, items, "no", G)
      BY <1>4, <2>3, WritesFields, WritesFlush
    <2>5. ResponsesAt(F, Flushed(s), u, Indexed(items, type), open, items, G, type, w.agg)
      BY <2>2, <2>4 DEF ResponsesAt
    <2>6. ResponsesLive(F, Flushed(s), type, w.agg, u)
      BY <2>2, <2>5 DEF ResponsesLive
    <2> QED
      BY <1>4, <1>5, <2>1, <2>6 DEF ResponsesKeeps
  <1>6. ASSUME ResponsesWaits(base, s, w.agg) PROVE ResponsesWaits(F, Flushed(s), w.agg)
    <2>1. PICK u, n, open, items, G :
            /\ u = <<>> /\ Writes(base, s, u, n, open, items, "yes", G)
            /\ ResponsesFrames(G, items, "none") /\ ResponsesHeard(G, Len(items), "none", w.agg)
      BY <1>6 DEF ResponsesWaits
    <2>2. F = G /\ Writes(G, Flushed(s), u, n, open, items, "yes", G)
      BY <1>4, <2>1, WritesFields, WritesFlush
    <2> QED
      BY <2>1, <2>2 DEF ResponsesWaits
  <1>7. ASSUME ResponsesTold(base, s, w.agg) PROVE ResponsesTold(F, Flushed(s), w.agg)
    <2>1. PICK u, n, open, items, G :
            /\ u # <<>> /\ Writes(base, s, u, n, open, items, "no", G)
            /\ IsList(G) /\ ResponsesFormed(G) /\ HeardAs("responses", G, w.agg, "none")
      BY <1>7 DEF ResponsesTold
    <2>2. F = G /\ Writes(G, Flushed(s), u, n, open, items, "no", G)
      BY <1>4, <2>1, WritesFields, WritesFlush
    <2> QED
      BY <2>1, <2>2 DEF ResponsesTold
  <1>8. CASE w.stage = "over"
    BY <1>4, <1>6, <1>7, <1>8 DEF ResponsesKeeps
  <1> QED
    BY <1>2, <1>3, <1>5, <1>8 DEF Stages

\* What the frames so far are, and what a client has heard in them.
LEMMA ResponsesTells ==
    ASSUME NEW base, NEW s, NEW w \in Points, ResponsesKeeps(base, s, w), NEW F, F = base \o s.out
    PROVE  /\ IsList(F) /\ ResponsesFormed(F)
           /\ w.stage # "over" \/ ~w.seen => \A i \in 1..Len(F) : F[i].kind # Completed
           /\ HeardAs("responses", F, w.agg, "none")
  <1>1. PICK z, a : z = <<>> /\ a = w.agg
    OBVIOUS
  <1>2. IsList(z) /\ w.stage \in Stages
    BY <1>1, ListEmpty DEF Points
  <1>3. CASE w.stage = "none"
    <2>1. s = NewResponses /\ base = z /\ a.thinking = <<>> /\ a.text = <<>> /\ a.tools = <<>>
      BY <1>1, <1>3 DEF ResponsesKeeps
    <2>2. s.out = z
      BY <1>1, <2>1, ResponsesNew
    <2>3. F = z
      BY <1>1, <1>2, <2>1, <2>2, ConcatNil
    <2>4. ResponsesFormed(z) /\ \A i \in 1..Len(z) : z[i].kind # Completed
      BY <1>1, ListEmpty DEF ResponsesFormed
    <2>5. HeardAs("responses", z, a, "none")
      BY <1>1, <2>1, NothingHeard DEF HeardAs
    <2> QED
      BY <1>1, <1>2, <2>3, <2>4, <2>5
  <1>4. CASE w.stage \in {"open", "call"}
    <2>1. PICK type, u : ResponsesLive(base, s, type, a, u)
      BY <1>1, <1>4 DEF ResponsesKeeps
    <2>2. PICK n, open, items, G : ResponsesAt(base, s, u, n, open, items, G, type, a)
      BY <2>1 DEF ResponsesLive
    <2>3. F = G
      BY <2>2, WritesFields DEF ResponsesAt
    <2>4. ResponsesFrames(F, items, type) /\ ResponsesHeard(F, Len(items), type, a)
      BY <2>2, <2>3 DEF ResponsesAt
    <2> QED
      BY <1>1, <2>4 DEF ResponsesFrames, ResponsesHeard, HeardAs
  <1>5. CASE w.stage = "over" /\ ~w.seen
    <2>1. PICK u, n, open, items, G :
            /\ Writes(base, s, u, n, open, items, "yes", G)
            /\ ResponsesFrames(G, items, "none") /\ ResponsesHeard(G, Len(items), "none", a)
      BY <1>1, <1>5 DEF ResponsesKeeps, ResponsesWaits
    <2>2. F = G
      BY <2>1, WritesFields
    <2> QED
      BY <1>1, <2>1, <2>2 DEF ResponsesFrames, ResponsesHeard, HeardAs
  <1>6. CASE w.stage = "over" /\ w.seen
    <2>1. PICK u, n, open, items, G :
            /\ Writes(base, s, u, n, open, items, "no", G)
            /\ IsList(G) /\ ResponsesFormed(G) /\ HeardAs("responses", G, a, "none")
      BY <1>1, <1>6 DEF ResponsesKeeps, ResponsesTold
    <2>2. F = G
      BY <2>1, WritesFields
    <2> QED
      BY <1>1, <1>6, <2>1, <2>2
  <1> QED
    BY <1>2, <1>3, <1>4, <1>5, <1>6 DEF Stages

\* The end of the upstream's bytes, wherever it comes.
LEMMA ResponsesFinishes ==
    ASSUME NEW base, NEW s, NEW w \in Points, ResponsesKeeps(base, s, w),
           NEW t, t = FinishResponses(s), NEW F, F = base \o t.out
    PROVE  /\ IsList(F) /\ ResponsesFormed(F)
           /\ w.stage # "over" => \A i \in 1..Len(F) : F[i].kind # Completed
           /\ HeardAs("responses", F, w.agg, "none")
  <1>1. PICK a, r : a = w.agg /\ r = SetSettled(s)
    OBVIOUS
  <1>2. t = IF s.pendingCompleted THEN WriteCompleted(r) ELSE s
    BY <1>1, Zenon DEF FinishResponses, SetSettled
  <1>3. CASE w.stage = "over" /\ ~w.seen
    <2>1. PICK u, n, open, items, G :
            /\ Writes(base, s, u, n, open, items, "yes", G)
            /\ ResponsesFrames(G, items, "none") /\ ResponsesHeard(G, Len(items), "none", a)
      BY <1>1, <1>3 DEF ResponsesKeeps, ResponsesWaits
    <2>2. t = WriteCompleted(r)
      <3>1. s.pendingCompleted = ("yes" = "yes")
        BY <2>1, WritesPending
      <3> QED
        BY <1>2, <3>1
    <2>3. Writes(base, r, u, n, open, items, "no", G)
      BY <1>1, <2>1, WritesSets
    <2>4. ResponsesAt(base, r, u, n, open, items, G, "none", a) /\ a \in Aggregators
      BY <1>1, <2>1, <2>3 DEF ResponsesAt, Points
    <2>5. PICK H : /\ Writes(base, t, u, n, open, items, "no", H)
                   /\ IsList(H) /\ ResponsesFormed(H) /\ HeardAs("responses", H, a, "none")
      BY <2>2, <2>4, ResponsesCompletes
    <2>6. F = H
      BY <2>5, WritesFields
    <2> QED
      BY <1>1, <1>3, <2>5, <2>6
  <1>4. CASE ~(w.stage = "over" /\ ~w.seen)
    <2>1. \A b : b = s.pendingCompleted => ~b
      <3>0. w.stage \in Stages
        BY DEF Points
      <3>1. CASE w.stage = "none"
        <4>1. s.pendingCompleted = FALSE
          BY <3>1 DEF ResponsesKeeps, NewResponses
        <4> QED
          BY <4>1
      <3>2. CASE w.stage # "none"
        <4>1. \E u, n, open, items, G : Writes(base, s, u, n, open, items, "no", G)
          <5>1. CASE w.stage \in {"open", "call"}
            <6>1. \E type, u : ResponsesLive(base, s, type, a, u)
              BY <1>1, <5>1 DEF ResponsesKeeps
            <6> QED
              BY <6>1 DEF ResponsesLive, ResponsesAt
          <5>2. CASE w.stage = "over"
            BY <1>1, <1>4, <5>2 DEF ResponsesKeeps, ResponsesTold
          <5> QED
            BY <3>0, <3>2, <5>1, <5>2 DEF Stages
        <4>2. s.pendingCompleted = ("no" = "yes")
          BY <4>1, WritesPending
        <4> QED
          BY <4>2
      <3> QED
        BY <3>1, <3>2
    <2>2. t = s
      BY <1>2, <2>1
    <2> QED
      BY <1>4, <2>2, ResponsesTells
  <1> QED
    BY <1>3, <1>4

-----------------------------------------------------------------------------
(* A client of Chat's dialect                                              *)

ChatState(i, u, inc, pend, out) ==
  [started |-> TRUE, toolIndex |-> i, usage |-> u, includeUsage |-> inc = "yes",
   pendingDone |-> pend = "yes", out |-> out]
ChatWrites(base, s, i, u, inc, pend, F) ==
  \E out : /\ s = ChatState(i, u, inc, pend, out)
           /\ IsList(base) /\ IsList(out) /\ F = base \o out

SetTool(s, i) == [s EXCEPT !.toolIndex = i]
SetSeen(s, u) == [s EXCEPT !.usage = u]
SetSeenDone(s, u) == [s EXCEPT !.usage = u, !.pendingDone = FALSE]
SetWaiting(s) == [s EXCEPT !.pendingDone = TRUE]
SetClosed(s) == [s EXCEPT !.pendingDone = FALSE]
SetOut(s, o) == [s EXCEPT !.out = o]

\* The fields of the Chat encoder's state.
LEMMA ChatFields ==
    ASSUME NEW i, NEW u, NEW inc, NEW pend, NEW out, NEW s, s = ChatState(i, u, inc, pend, out)
    PROVE  s.toolIndex = i /\ s.usage = u /\ s.out = out
  <1>1. PICK yes, c, p : yes = TRUE /\ c = (inc = "yes") /\ p = (pend = "yes")
    OBVIOUS
  <1>2. s = [started |-> yes, toolIndex |-> i, usage |-> u, includeUsage |-> c, pendingDone |-> p, out |-> out]
    BY <1>1 DEF ChatState
  <1> QED
    BY <1>2

\* Its flags.
LEMMA ChatFlags ==
    ASSUME NEW i, NEW u, NEW inc, NEW pend, NEW out, NEW s, s = ChatState(i, u, inc, pend, out)
    PROVE  /\ EnsureStarted(s) = s
           /\ s.includeUsage = (inc = "yes")
           /\ s.pendingDone = (pend = "yes")
  <1>1. PICK yes, c, p : yes = TRUE /\ c = (inc = "yes") /\ p = (pend = "yes")
    OBVIOUS
  <1>2. s = [started |-> yes, toolIndex |-> i, usage |-> u, includeUsage |-> c, pendingDone |-> p, out |-> out]
    BY <1>1 DEF ChatState
  <1>3. s.started = yes /\ s.includeUsage = c /\ s.pendingDone = p
    BY <1>2
  <1>4. EnsureStarted(s) = s
    BY <1>1, <1>3, Zenon DEF EnsureStarted
  <1>5. s.includeUsage = (inc = "yes")
    BY <1>1, <1>3, Zenon
  <1>6. s.pendingDone = (pend = "yes")
    BY <1>1, <1>3, Zenon
  <1> QED
    BY <1>4, <1>5, <1>6, Zenon

\* The assignments of the Chat encoder.
LEMMA ChatSets ==
    ASSUME NEW i, NEW u, NEW inc, NEW pend, NEW out, NEW s, s = ChatState(i, u, inc, pend, out), NEW v
    PROVE  /\ SetTool(s, v) = ChatState(v, u, inc, pend, out)
           /\ SetSeen(s, v) = ChatState(i, v, inc, pend, out)
           /\ SetSeenDone(s, v) = ChatState(i, v, inc, "no", out)
           /\ SetWaiting(s) = ChatState(i, u, inc, "yes", out)
           /\ SetClosed(s) = ChatState(i, u, inc, "no", out)
           /\ SetOut(s, v) = ChatState(i, u, inc, pend, v)
  <1>1. PICK yes, no, c, p : yes = TRUE /\ no = FALSE /\ c = (inc = "yes") /\ p = (pend = "yes")
    OBVIOUS
  <1>2. \A a, b, e : ChatState(a, b, inc, pend, e) =
          [started |-> yes, toolIndex |-> a, usage |-> b, includeUsage |-> c, pendingDone |-> p, out |-> e]
    BY <1>1 DEF ChatState
  <1>3. \A a, b, e : ChatState(a, b, inc, "yes", e) =
          [started |-> yes, toolIndex |-> a, usage |-> b, includeUsage |-> c, pendingDone |-> yes, out |-> e]
    BY <1>1 DEF ChatState
  <1>4. \A a, b, e : ChatState(a, b, inc, "no", e) =
          [started |-> yes, toolIndex |-> a, usage |-> b, includeUsage |-> c, pendingDone |-> no, out |-> e]
    BY <1>1 DEF ChatState
  <1>5. s = [started |-> yes, toolIndex |-> i, usage |-> u, includeUsage |-> c, pendingDone |-> p, out |-> out]
    BY <1>2
  <1>6. [s EXCEPT !.toolIndex = v] =
          [started |-> yes, toolIndex |-> v, usage |-> u, includeUsage |-> c, pendingDone |-> p, out |-> out]
    BY <1>5
  <1>7. [s EXCEPT !.usage = v] =
          [started |-> yes, toolIndex |-> i, usage |-> v, includeUsage |-> c, pendingDone |-> p, out |-> out]
    BY <1>5
  <1>8. [s EXCEPT !.usage = v, !.pendingDone = no] =
          [started |-> yes, toolIndex |-> i, usage |-> v, includeUsage |-> c, pendingDone |-> no, out |-> out]
    <2>1. PICK t : t = [s EXCEPT !.usage = v]
      OBVIOUS
    <2>4. t = [started |-> yes, toolIndex |-> i, usage |-> v, includeUsage |-> c, pendingDone |-> p, out |-> out]
      BY <1>7, <2>1
    <2>2. [t EXCEPT !.pendingDone = no] =
          [started |-> yes, toolIndex |-> i, usage |-> v, includeUsage |-> c, pendingDone |-> no, out |-> out]
      BY <2>4
    <2>3. [s EXCEPT !.usage = v, !.pendingDone = no] = [t EXCEPT !.pendingDone = no]
      BY <1>5, <2>1
    <2> QED
      BY <2>2, <2>3
  <1>9. [s EXCEPT !.pendingDone = yes] =
          [started |-> yes, toolIndex |-> i, usage |-> u, includeUsage |-> c, pendingDone |-> yes, out |-> out]
    BY <1>5
  <1>10. [s EXCEPT !.pendingDone = no] =
          [started |-> yes, toolIndex |-> i, usage |-> u, includeUsage |-> c, pendingDone |-> no, out |-> out]
    BY <1>5
  <1>11. [s EXCEPT !.out = v] =
          [started |-> yes, toolIndex |-> i, usage |-> u, includeUsage |-> c, pendingDone |-> p, out |-> v]
    BY <1>5
  <1>12. SetTool(s, v) = ChatState(v, u, inc, pend, out)
    BY <1>2, <1>6 DEF SetTool
  <1>13. SetSeen(s, v) = ChatState(i, v, inc, pend, out)
    BY <1>2, <1>7 DEF SetSeen
  <1>14. SetSeenDone(s, v) = ChatState(i, v, inc, "no", out)
    <2>1. SetSeenDone(s, v) = [s EXCEPT !.usage = v, !.pendingDone = no]
      BY <1>1, Zenon DEF SetSeenDone
    <2> QED
      BY <1>4, <1>8, <2>1
  <1>15. SetWaiting(s) = ChatState(i, u, inc, "yes", out)
    <2>1. SetWaiting(s) = [s EXCEPT !.pendingDone = yes]
      BY <1>1, Zenon DEF SetWaiting
    <2> QED
      BY <1>3, <1>9, <2>1
  <1>16. SetClosed(s) = ChatState(i, u, inc, "no", out)
    <2>1. SetClosed(s) = [s EXCEPT !.pendingDone = no]
      BY <1>1, Zenon DEF SetClosed
    <2> QED
      BY <1>4, <1>10, <2>1
  <1>17. SetOut(s, v) = ChatState(i, u, inc, pend, v)
    BY <1>2, <1>11 DEF SetOut
  <1> QED
    BY <1>12, <1>13, <1>14, <1>15, <1>16, <1>17

\* The assignments leave what was written alone.
LEMMA ChatWritesSets ==
    ASSUME NEW base, NEW s, NEW i, NEW u, NEW inc, NEW pend, NEW F,
           ChatWrites(base, s, i, u, inc, pend, F), NEW v
    PROVE  /\ ChatWrites(base, SetTool(s, v), v, u, inc, pend, F)
           /\ ChatWrites(base, SetSeen(s, v), i, v, inc, pend, F)
           /\ ChatWrites(base, SetSeenDone(s, v), i, v, inc, "no", F)
           /\ ChatWrites(base, SetWaiting(s), i, u, inc, "yes", F)
           /\ ChatWrites(base, SetClosed(s), i, u, inc, "no", F)
           /\ ChatWrites(base, Put(s, v), i, u, inc, pend, Append(F, v))
           /\ ChatWrites(F, Flushed(s), i, u, inc, pend, F)
  <1>1. PICK out : /\ s = ChatState(i, u, inc, pend, out)
                   /\ IsList(base) /\ IsList(out) /\ F = base \o out
    BY DEF ChatWrites
  <1>2. /\ SetTool(s, v) = ChatState(v, u, inc, pend, out)
        /\ SetSeen(s, v) = ChatState(i, v, inc, pend, out)
        /\ SetSeenDone(s, v) = ChatState(i, v, inc, "no", out)
        /\ SetWaiting(s) = ChatState(i, u, inc, "yes", out)
        /\ SetClosed(s) = ChatState(i, u, inc, "no", out)
    BY <1>1, ChatSets
  <1>3. ChatWrites(base, Put(s, v), i, u, inc, pend, Append(F, v))
    <2>1. s.out = out
      BY <1>1, ChatFields
    <2>2. PICK o : o = Append(out, v)
      OBVIOUS
    <2>3. Put(s, v) = SetOut(s, o)
      BY <2>1, <2>2, Zenon DEF Put, SetOut
    <2>4. Put(s, v) = ChatState(i, u, inc, pend, o)
      BY <1>1, <2>3, ChatSets
    <2>5. IsList(o) /\ base \o o = Append(F, v)
      BY <1>1, <2>2, WriteAppend
    <2> QED
      BY <1>1, <2>4, <2>5 DEF ChatWrites
  <1>4. ChatWrites(F, Flushed(s), i, u, inc, pend, F)
    <2>1. PICK z : z = <<>>
      OBVIOUS
    <2>2. Flushed(s) = SetOut(s, z)
      BY <2>1, Zenon DEF Flushed, SetOut
    <2>3. Flushed(s) = ChatState(i, u, inc, pend, z)
      BY <1>1, <2>2, ChatSets
    <2>4. IsList(F) /\ IsList(z) /\ F \o z = F
      BY <1>1, <2>1, ListConcat, ListEmpty, ConcatNil
    <2> QED
      BY <2>3, <2>4 DEF ChatWrites
  <1> QED
    BY <1>1, <1>2, <1>3, <1>4 DEF ChatWrites

\* What an encoder that writes has in its fields.
LEMMA ChatWritesFields ==
    ASSUME NEW base, NEW s, NEW i, NEW u, NEW inc, NEW pend, NEW F,
           ChatWrites(base, s, i, u, inc, pend, F)
    PROVE  /\ s.toolIndex = i /\ s.usage = u /\ F = base \o s.out /\ IsList(F)
           /\ EnsureStarted(s) = s
  <1>1. PICK out : /\ s = ChatState(i, u, inc, pend, out)
                   /\ IsList(base) /\ IsList(out) /\ F = base \o out
    BY DEF ChatWrites
  <1>2. s.toolIndex = i /\ s.usage = u /\ s.out = out
    BY <1>1, ChatFields
  <1>3. EnsureStarted(s) = s
    BY <1>1, ChatFlags
  <1> QED
    BY <1>1, <1>2, <1>3, ListConcat

\* And in its flags.
LEMMA ChatWritesFlags ==
    ASSUME NEW base, NEW s, NEW i, NEW u, NEW inc, NEW pend, NEW F,
           ChatWrites(base, s, i, u, inc, pend, F)
    PROVE  /\ s.includeUsage = (inc = "yes")
           /\ s.pendingDone = (pend = "yes")
  BY ChatFlags DEF ChatWrites

\* What a chunk with a choice says.
Saying(f, x, y, calls, finish) ==
  /\ f.kind = "chunk" /\ f.choice # <<>> /\ f.finish = finish
  /\ f.choice[1].reasoning = x /\ f.choice[1].content = y /\ f.choice[1].calls = calls

\* What a chunk with a delta says.
LEMMA ChunkSays ==
    ASSUME NEW r, NEW x, NEW y, NEW calls, NEW finish, NEW d,
           d = [role |-> r, reasoning |-> x, content |-> y, calls |-> calls],
           NEW f, f = Chunk(d, finish)
    PROVE  Saying(f, x, y, calls, finish) /\ f.choice[1].role = r
  <1>1. PICK z, v : z = <<>> /\ v = <<d>>
    OBVIOUS
  <1>2. f = [kind |-> "chunk", choice |-> v, finish |-> finish, usage |-> z]
    BY <1>1 DEF Chunk
  <1>3. f.kind = "chunk" /\ f.choice = v /\ f.finish = finish
    BY <1>2
  <1>4. v[1] = d /\ v # <<>>
    BY <1>1
  <1>5. d.reasoning = x /\ d.content = y /\ d.calls = calls /\ d.role = r
    OBVIOUS
  <1> QED
    BY <1>3, <1>4, <1>5 DEF Saying

\* What the four kinds of chunk say.
LEMMA ChunksSay ==
    ASSUME NEW z, z = <<>>, NEW v
    PROVE  /\ \A f : f = Chunk([NoDelta EXCEPT !["content"] = v], <<>>) =>
                Saying(f, z, v, z, z) /\ ~f.choice[1].role
           /\ \A f : f = Chunk([NoDelta EXCEPT !["reasoning"] = v], <<>>) =>
                Saying(f, v, z, z, z) /\ ~f.choice[1].role
           /\ \A f : f = Chunk([NoDelta EXCEPT !.calls = <<v>>], <<>>) =>
                Saying(f, z, z, <<v>>, z) /\ ~f.choice[1].role
           /\ \A f : f = Chunk([NoDelta EXCEPT !.role = TRUE], <<>>) =>
                Saying(f, z, z, z, z) /\ f.choice[1].role
           /\ \A f : f = Chunk(NoDelta, <<v>>) => Saying(f, z, z, z, <<v>>) /\ ~f.choice[1].role
  <1>1. PICK no, yes : no = FALSE /\ yes = TRUE
    OBVIOUS
  <1>2. PICK d : d = [role |-> no, reasoning |-> z, content |-> z, calls |-> z]
    OBVIOUS
  <1>3. NoDelta = d
    BY <1>1, <1>2 DEF NoDelta
  <1>4. PICK w : w = <<v>>
    OBVIOUS
  <1>5. [d EXCEPT !["content"] = v] = [role |-> no, reasoning |-> z, content |-> v, calls |-> z]
    BY <1>2
  <1>6. [d EXCEPT !["reasoning"] = v] = [role |-> no, reasoning |-> v, content |-> z, calls |-> z]
    BY <1>2
  <1>7. [d EXCEPT !.calls = w] = [role |-> no, reasoning |-> z, content |-> z, calls |-> w]
    BY <1>2
  <1>8. [d EXCEPT !.role = yes] = [role |-> yes, reasoning |-> z, content |-> z, calls |-> z]
    BY <1>2
  <1>9. PICK d1, d2, d3, d4 : /\ d1 = [d EXCEPT !["content"] = v] /\ d2 = [d EXCEPT !["reasoning"] = v]
                              /\ d3 = [d EXCEPT !.calls = w] /\ d4 = [d EXCEPT !.role = yes]
    OBVIOUS
  <1>10. \A f : f = Chunk(d1, z) => Saying(f, z, v, z, z) /\ f.choice[1].role = no
    BY <1>5, <1>9, ChunkSays
  <1>11. \A f : f = Chunk(d2, z) => Saying(f, v, z, z, z) /\ f.choice[1].role = no
    BY <1>6, <1>9, ChunkSays
  <1>12. \A f : f = Chunk(d3, z) => Saying(f, z, z, w, z) /\ f.choice[1].role = no
    BY <1>7, <1>9, ChunkSays
  <1>13. \A f : f = Chunk(d4, z) => Saying(f, z, z, z, z) /\ f.choice[1].role = yes
    BY <1>8, <1>9, ChunkSays
  <1>14. \A f : f = Chunk(d, w) => Saying(f, z, z, z, w) /\ f.choice[1].role = no
    BY <1>2, ChunkSays
  <1> QED
    BY <1>1, <1>3, <1>4, <1>9, <1>10, <1>11, <1>12, <1>13, <1>14, Zenon

-----------------------------------------------------------------------------
(* How it is heard                                                          *)

\* A Chat client hears what the chunk says, and its calls one by one.
LEMMA ChatHearsSaid ==
    ASSUME NEW th, NEW tx, NEW r, NEW bl, NEW x, NEW y, NEW calls, NEW finish, NEW f,
           Saying(f, x, y, calls, finish)
    PROVE  Hear("chat", Reader(th, tx, r, bl, "none"), f) =
             LET said == Reader(th \o x, tx \o y, r, bl,
                                IF finish = <<>> THEN "none" ELSE FinishToStop(finish[1]))
             IN  IF calls = <<>> THEN said ELSE HearCall(said, calls[1])
  <1>0. PICK g, t : g = Reader(th, tx, r, bl, "none") /\ t = Hear("chat", g, f)
    OBVIOUS
  <1>1. PICK a, b : a = th \o x /\ b = tx \o y
    OBVIOUS
  <1>2. PICK stop : stop = IF finish = <<>> THEN "none" ELSE FinishToStop(finish[1])
    OBVIOUS
  <1>3. g = [thinking |-> th, text |-> tx, tools |-> r, blocks |-> bl, stop |-> "none"]
    BY <1>0 DEF Reader
  <1>4. PICK g1 : g1 = [g EXCEPT !.thinking = a]
    OBVIOUS
  <1>5. g1 = [thinking |-> a, text |-> tx, tools |-> r, blocks |-> bl, stop |-> "none"]
    BY <1>3, <1>4
  <1>6. PICK g2 : g2 = [g1 EXCEPT !.text = b]
    OBVIOUS
  <1>7. g2 = [thinking |-> a, text |-> b, tools |-> r, blocks |-> bl, stop |-> "none"]
    BY <1>5, <1>6
  <1>8. PICK g3 : g3 = [g2 EXCEPT !.stop = stop]
    OBVIOUS
  <1>9. g3 = [thinking |-> a, text |-> b, tools |-> r, blocks |-> bl, stop |-> stop]
    BY <1>7, <1>8
  <1>10. g3 = Reader(a, b, r, bl, stop)
    BY <1>9 DEF Reader
  <1>11. g.thinking = th /\ g.text = tx /\ g.stop = "none"
    BY <1>3
  <1>12. f.kind = "chunk" /\ f.choice # <<>> /\ f.finish = finish
         /\ f.choice[1].reasoning = x /\ f.choice[1].content = y /\ f.choice[1].calls = calls
    BY DEF Saying
  <1>13. [g EXCEPT !.thinking = a, !.text = b, !.stop = stop] = g3
    BY <1>3, <1>4, <1>6, <1>8
  <1>14. [g EXCEPT !.thinking = @ \o f.choice[1].reasoning, !.text = @ \o f.choice[1].content,
                   !.stop = IF f.finish = <<>> THEN @ ELSE FinishToStop(f.finish[1])] = g3
    BY <1>1, <1>2, <1>11, <1>12, <1>13
  <1>15. t = IF calls = <<>> THEN g3 ELSE HearCall(g3, calls[1])
    BY <1>0, <1>12, <1>14 DEF Hear, HearChat
  <1> QED
    BY <1>0, <1>1, <1>2, <1>10, <1>15
\* Nothing, kept under a name.
Nil(z) == z = <<>>

\* A chunk with no call and no end.
LEMMA ChatHearsPlain ==
    ASSUME NEW th, NEW tx, NEW r, NEW bl, NEW x, NEW y, NEW z, Nil(z), NEW f, Saying(f, x, y, z, z)
    PROVE  Hear("chat", Reader(th, tx, r, bl, "none"), f) = Reader(th \o x, tx \o y, r, bl, "none")
  BY ChatHearsSaid DEF Nil

\* A chunk with one call.
LEMMA ChatHearsOne ==
    ASSUME NEW th, NEW tx, NEW r, NEW bl, NEW x, NEW y, NEW z, Nil(z), NEW f, NEW v, v # <<>>, Saying(f, x, y, v, z)
    PROVE  Hear("chat", Reader(th, tx, r, bl, "none"), f)
             = HearCall(Reader(th \o x, tx \o y, r, bl, "none"), v[1])
  BY ChatHearsSaid DEF Nil

\* A chunk with the finish reason.
LEMMA ChatHearsLast ==
    ASSUME NEW th, NEW tx, NEW r, NEW bl, NEW x, NEW y, NEW z, Nil(z), NEW f, NEW s, Saying(f, x, y, z, <<s>>)
    PROVE  Hear("chat", Reader(th, tx, r, bl, "none"), f)
             = Reader(th \o x, tx \o y, r, bl, FinishToStop(s))
  <1>1. PICK v : v = <<s>>
    OBVIOUS
  <1>2. v # <<>> /\ v[1] = s
    BY <1>1
  <1> QED
    BY <1>1, <1>2, ChatHearsSaid DEF Nil

\* The frames of an answer that goes on, and of one that may be over.
ChatSaid(F) == IsList(F) /\ ChatFormed(F) /\ \A k \in 1..Len(F) : F[k].kind = "chunk"
ChatSpeaking(F) == ChatSaid(F) /\ Len(F) # 0 /\ \A k \in 1..Len(F) : F[k].finish = <<>>

\* A frame that may follow the chunks already said.
LEMMA ChatAppend ==
    ASSUME NEW F, ChatSaid(F), NEW f,
           (f.kind = "chunk" /\ f.choice # <<>>) =>
             /\ f.choice[1].role <=> Len(F) = 0
             /\ \A k \in 1..Len(F) : F[k].finish = <<>>
    PROVE  /\ IsList(Append(F, f)) /\ ChatFormed(Append(F, f)) /\ Len(Append(F, f)) = Len(F) + 1
           /\ \A k \in 1..Len(F) : Append(F, f)[k] = F[k]
           /\ Append(F, f)[Len(F) + 1] = f
  <1>1. PICK G, n : G = Append(F, f) /\ n = Len(F)
    OBVIOUS
  <1>2. IsList(G) /\ n \in Nat /\ Len(G) = n + 1 /\ G[n + 1] = f /\ \A k \in 1..n : G[k] = F[k]
    BY <1>1, ListAppend, ListFacts DEF ChatSaid
  <1>3. DOMAIN G = 1..(n + 1) /\ DOMAIN F = 1..n
    BY <1>1, <1>2, ListFacts DEF ChatSaid
  <1>4. ASSUME NEW i \in 1..(n + 1)
        PROVE  /\ G[i].kind = "[DONE]" => i = n + 1
               /\ (G[i].kind = "chunk" /\ G[i].choice # <<>>) =>
                    /\ G[i].choice[1].role <=> i = 1
                    /\ \A j \in 1..(i - 1) : G[j].finish = <<>>
    <2>1. CASE i = n + 1
      <3>1. i - 1 = n /\ (i = 1 <=> n = 0)
        BY <1>2, <2>1
      <3> QED
        BY <1>1, <1>2, <2>1, <3>1
    <2>2. CASE i # n + 1
      <3>1. i \in 1..n /\ \A j \in 1..(i - 1) : j \in 1..n
        BY <1>2, <2>2
      <3>2. F[i].kind = "chunk"
        BY <1>1, <3>1 DEF ChatSaid
      <3>3. (F[i].kind = "chunk" /\ F[i].choice # <<>>) =>
                    /\ F[i].choice[1].role <=> i = 1
                    /\ \A j \in 1..(i - 1) : F[j].finish = <<>>
        BY <1>3, <3>1 DEF ChatSaid, ChatFormed
      <3>4. G[i] = F[i] /\ \A j \in 1..(i - 1) : G[j] = F[j]
        BY <1>2, <3>1
      <3> QED
        BY <3>2, <3>3, <3>4
    <2> QED
      BY <2>1, <2>2
  <1>5. ChatFormed(G)
    BY <1>2, <1>3, <1>4 DEF ChatFormed
  <1> QED
    BY <1>1, <1>2, <1>5

\* A chunk after the first.
LEMMA ChatNext ==
    ASSUME NEW F, ChatSpeaking(F), NEW f, NEW x, NEW y, NEW calls, NEW finish,
           Saying(f, x, y, calls, finish), ~f.choice[1].role
    PROVE  /\ ChatSaid(Append(F, f))
           /\ finish = <<>> => ChatSpeaking(Append(F, f))
  <1>1. PICK G, n : G = Append(F, f) /\ n = Len(F)
    OBVIOUS
  <1>2. n \in Nat
    BY <1>1, ListFacts DEF ChatSpeaking, ChatSaid
  <1>3. f.kind = "chunk" /\ f.finish = finish
    BY DEF Saying
  <1>4. (f.kind = "chunk" /\ f.choice # <<>>) =>
             /\ f.choice[1].role <=> Len(F) = 0
             /\ \A k \in 1..Len(F) : F[k].finish = <<>>
    BY DEF ChatSpeaking
  <1>5. /\ IsList(G) /\ ChatFormed(G) /\ Len(G) = n + 1
        /\ \A k \in 1..n : G[k] = F[k]
        /\ G[n + 1] = f
    BY <1>1, <1>4, ChatAppend DEF ChatSpeaking
  <1>6. \A k \in 1..(n + 1) : G[k].kind = "chunk"
    BY <1>1, <1>2, <1>3, <1>5 DEF ChatSpeaking, ChatSaid
  <1>7. finish = <<>> => \A k \in 1..(n + 1) : G[k].finish = <<>>
    BY <1>1, <1>2, <1>3, <1>5 DEF ChatSpeaking
  <1> QED
    BY <1>1, <1>2, <1>5, <1>6, <1>7 DEF ChatSpeaking, ChatSaid

\* The chunk with the role comes first.
LEMMA ChatFirst ==
    ASSUME NEW z, z = <<>>, NEW f, NEW x, NEW y, NEW calls, Saying(f, x, y, calls, z), f.choice[1].role
    PROVE  ChatSpeaking(Append(z, f))
  <1>1. PICK G : G = Append(z, f)
    OBVIOUS
  <1>2. IsList(z) /\ Len(z) = 0
    BY ListEmpty
  <1>3. ChatSaid(z)
    BY <1>2, ListEmpty DEF ChatSaid, ChatFormed
  <1>4. (f.kind = "chunk" /\ f.choice # <<>>) =>
             /\ f.choice[1].role <=> Len(z) = 0
             /\ \A k \in 1..Len(z) : z[k].finish = <<>>
    BY <1>2
  <1>5. IsList(G) /\ ChatFormed(G) /\ Len(G) = 1 /\ G[1] = f
    <2>1. IsList(Append(z, f)) /\ ChatFormed(Append(z, f))
      BY <1>3, <1>4, ChatAppend
    <2>2. G = <<f>>
      BY <1>1
    <2> QED
      BY <1>1, <2>1, <2>2, ListOne
  <1> QED
    BY <1>1, <1>5 DEF ChatSpeaking, ChatSaid, Saying

\* The chunk of the usage may follow.
LEMMA ChatUsage ==
    ASSUME NEW F, ChatSaid(F), NEW u
    PROVE  ChatSaid(Append(F, UsageChunk(u)))
  <1>1. PICK f, G, n : f = UsageChunk(u) /\ G = Append(F, f) /\ n = Len(F)
    OBVIOUS
  <1>2. f.kind = "chunk" /\ f.choice = <<>>
    BY <1>1 DEF UsageChunk
  <1>3. n \in Nat
    BY <1>1, ListFacts DEF ChatSaid
  <1>4. /\ IsList(G) /\ ChatFormed(G) /\ Len(G) = n + 1
        /\ \A k \in 1..n : G[k] = F[k]
        /\ G[n + 1] = f
    BY <1>1, <1>2, ChatAppend
  <1> QED
    BY <1>1, <1>2, <1>3, <1>4 DEF ChatSaid

\* [DONE] closes the answer.
LEMMA ChatCloses ==
    ASSUME NEW F, ChatSaid(F)
    PROVE  IsList(Append(F, Sentinel)) /\ ChatFormed(Append(F, Sentinel))
  <1>1. PICK f : f = Sentinel
    OBVIOUS
  <1>2. f.kind = "[DONE]"
    BY <1>1 DEF Sentinel
  <1>3. f.kind # "chunk"
    BY <1>2
  <1>4. IsList(Append(F, f)) /\ ChatFormed(Append(F, f))
    BY <1>3, ChatAppend
  <1> QED
    BY <1>1, <1>4

\* A client has heard all of `a`, and knows the index of its last call.
ChatHeard(F, a) ==
  \E blocks : /\ Heard("chat", F) = Reader(a.thinking, a.text, Renamed(a.tools), blocks, "none")
              /\ a.tools # <<>> => /\ Len(a.tools) - 1 \in DOMAIN blocks
                                   /\ blocks[Len(a.tools) - 1] = [type |-> "tool_use", tool |-> Len(a.tools)]

\* An aggregator's texts are lists.
LEMMA TextsAreLists ==
    ASSUME NEW a \in Aggregators, NEW z, Nil(z)
    PROVE  /\ a.thinking \o z = a.thinking /\ a.text \o z = a.text
           /\ a.tools \in Seq(Tools) /\ Len(a.tools) \in Nat
  <1>1. IsList(a.thinking) /\ IsList(a.text)
    BY SeqIsList DEF Aggregators
  <1> QED
    BY <1>1, ConcatNil DEF Aggregators, Nil

\* Nothing more of the last call.
LEMMA AppendNothing ==
    ASSUME NEW tools \in Seq(Tools), NEW z, Nil(z)
    PROVE  AppendToLast(tools, z) = tools
  <1>1. CASE tools = <<>>
    BY <1>1 DEF AppendToLast
  <1>2. CASE tools # <<>>
    <2>1. PICK n : n = Len(tools)
      OBVIOUS
    <2>2. n \in DOMAIN tools /\ tools[n] \in Tools
      BY <1>2, <2>1
    <2>3. PICK c : c = tools[n]
      OBVIOUS
    <2>4. c.json \o z = c.json
      <3>1. IsList(c.json)
        BY <2>2, <2>3, SeqIsList DEF Tools
      <3> QED
        BY <3>1, ConcatNil DEF Nil
    <2>5. PICK j : j = c.json
      OBVIOUS
    <2>6. [c EXCEPT !.json = j] = c
      BY <2>2, <2>3, <2>5 DEF Tools
    <2>7. [tools EXCEPT ![n] = c] = tools
      BY <2>2, <2>3
    <2>8. AppendToLast(tools, z) = [tools EXCEPT ![n] = [tools[n] EXCEPT !.json = @ \o z]]
      BY <1>2, <2>1, <2>2 DEF AppendToLast
    <2>9. [tools[n] EXCEPT !.json = @ \o z] = c
      BY <2>2, <2>3, <2>4, <2>5, <2>6
    <2> QED
      BY <2>7, <2>8, <2>9
  <1> QED
    BY <1>1, <1>2

\* A delta of text or of thought is heard as such.
LEMMA ChatHearsText ==
    ASSUME NEW F, IsList(F), NEW a \in Aggregators, ChatHeard(F, a), NEW e \in Events,
           NEW z, Nil(z), NEW f,
           \/ e.ev = "text_delta" /\ Saying(f, z, e.text, z, z)
           \/ e.ev = "thinking_delta" /\ Saying(f, e.text, z, z, z)
    PROVE  ChatHeard(Append(F, f), Push(a, e))
  <1>1. PICK blocks : /\ Heard("chat", F) = Reader(a.thinking, a.text, Renamed(a.tools), blocks, "none")
                      /\ a.tools # <<>> => /\ Len(a.tools) - 1 \in DOMAIN blocks
                                           /\ blocks[Len(a.tools) - 1] = [type |-> "tool_use", tool |-> Len(a.tools)]
    BY DEF ChatHeard
  <1>2. PICK r, g, b : r = Renamed(a.tools) /\ g = Heard("chat", F) /\ b = Push(a, e)
    OBVIOUS
  <1>3. Heard("chat", Append(F, f)) = Hear("chat", g, f)
    BY <1>2, HearAppend
  <1>4. a.thinking \o z = a.thinking /\ a.text \o z = a.text
    BY TextsAreLists
  <1>5. CASE e.ev = "text_delta"
    <2>5. g = Reader(a.thinking, a.text, r, blocks, "none") /\ Saying(f, z, e.text, z, z)
      BY <1>1, <1>2, <1>5
    <2>1. Hear("chat", g, f) = Reader(a.thinking \o z, a.text \o e.text, r, blocks, "none")
      <3>2. Hear("chat", Reader(a.thinking, a.text, r, blocks, "none"), f) = Reader(a.thinking \o z, a.text \o e.text, r, blocks, "none")
        BY <2>5, ChatHearsPlain
      <3> QED
        BY <2>5, <3>2
    <2>2. PICK x : x = a.text \o e.text
      OBVIOUS
    <2>3. b = [a EXCEPT !.text = x]
      BY <1>2, <1>5, <2>2 DEF Push
    <2>4. b.thinking = a.thinking /\ b.text = x /\ b.tools = a.tools
      BY <2>3 DEF Aggregators
    <2> QED
      BY <1>1, <1>2, <1>3, <1>4, <2>1, <2>2, <2>4 DEF ChatHeard
  <1>6. CASE e.ev = "thinking_delta"
    <2>5. g = Reader(a.thinking, a.text, r, blocks, "none") /\ Saying(f, e.text, z, z, z)
      BY <1>1, <1>2, <1>6
    <2>1. Hear("chat", g, f) = Reader(a.thinking \o e.text, a.text \o z, r, blocks, "none")
      <3>2. Hear("chat", Reader(a.thinking, a.text, r, blocks, "none"), f) = Reader(a.thinking \o e.text, a.text \o z, r, blocks, "none")
        BY <2>5, ChatHearsPlain
      <3> QED
        BY <2>5, <3>2
    <2>2. PICK x : x = a.thinking \o e.text
      OBVIOUS
    <2>3. b = [a EXCEPT !.thinking = x]
      BY <1>2, <1>6, <2>2 DEF Push
    <2>4. b.thinking = x /\ b.text = a.text /\ b.tools = a.tools
      BY <2>3 DEF Aggregators
    <2> QED
      BY <1>1, <1>2, <1>3, <1>4, <2>1, <2>2, <2>4 DEF ChatHeard
  <1> QED
    BY <1>5, <1>6

\* More of the last call, whose index is known.
LEMMA HearsArguments ==
    ASSUME NEW a \in Aggregators, NEW blocks, NEW n \in DOMAIN blocks, NEW e \in Events,
           e.ev = "tool_use_delta", ~Nil(a.tools), NEW m, m = Len(a.tools),
           blocks[n] = [type |-> "tool_use", tool |-> m], NEW b, b = Push(a, e)
    PROVE  /\ HearDelta(Reader(a.thinking, a.text, Renamed(a.tools), blocks, "none"), n, e.json)
                = Reader(b.thinking, b.text, Renamed(b.tools), blocks, "none")
           /\ Len(b.tools) = m
  <1>1. TypeOf(e) = "tool_use" /\ BodyOf(e) = e.json
    BY DEF TypeOf, BodyOf
  <1>2. blocks[n] = [type |-> TypeOf(e), tool |-> Len(a.tools)]
    BY <1>1
  <1>3. PICK g : g = Reader(a.thinking, a.text, Renamed(a.tools), blocks, "none")
    OBVIOUS
  <1>4. /\ HearDelta(g, n, BodyOf(e)) = Reader(b.thinking, b.text, Renamed(b.tools), blocks, "none")
        /\ Len(b.tools) = Len(a.tools)
    BY <1>2, <1>3, HearsDelta DEF Nil
  <1> QED
    BY <1>1, <1>3, <1>4

\* Arguments are added to the call last begun.
LEMMA ChatHearsMore ==
    ASSUME NEW F, IsList(F), NEW a \in Aggregators, ChatHeard(F, a), NEW e \in Events,
           e.ev = "tool_use_delta", ~Nil(a.tools), NEW z, Nil(z), NEW c, NEW n, n = Len(a.tools) - 1,
           c.index = n, c.id = z, c.args = e.json, NEW v, v = <<c>>,
           NEW f, Saying(f, z, z, v, z)
    PROVE  ChatHeard(Append(F, f), Push(a, e))
  <1>1. PICK blocks, m : /\ Heard("chat", F) = Reader(a.thinking, a.text, Renamed(a.tools), blocks, "none")
                         /\ n \in DOMAIN blocks /\ m = Len(a.tools)
                         /\ blocks[n] = [type |-> "tool_use", tool |-> m]
    BY DEF ChatHeard, Nil
  <1>2. PICK g, b : g = Reader(a.thinking, a.text, Renamed(a.tools), blocks, "none") /\ b = Push(a, e)
    OBVIOUS
  <1>3. Heard("chat", Append(F, f)) = Hear("chat", g, f)
    BY <1>1, <1>2, HearAppend
  <1>4. a.thinking \o z = a.thinking /\ a.text \o z = a.text
    BY TextsAreLists
  <1>5. v # <<>> /\ v[1] = c
    OBVIOUS
  <1>6. Hear("chat", g, f) = HearCall(Reader(a.thinking \o z, a.text \o z, Renamed(a.tools), blocks, "none"), v[1])
    BY <1>2, <1>5, ChatHearsOne
  <1>7. Hear("chat", g, f) = HearCall(g, c)
    BY <1>2, <1>4, <1>5, <1>6
  <1>9. HearCall(g, c) = HearDelta(g, n, e.json)
    BY DEF HearCall, Nil
  <1>12. /\ HearDelta(g, n, e.json) = Reader(b.thinking, b.text, Renamed(b.tools), blocks, "none")
         /\ Len(b.tools) = m
    BY <1>1, <1>2, HearsArguments
  <1> QED
    BY <1>1, <1>2, <1>3, <1>7, <1>9, <1>12 DEF ChatHeard

\* A call that starts is heard as a new call.
LEMMA ChatHearsCall ==
    ASSUME NEW F, IsList(F), NEW a \in Aggregators, ChatHeard(F, a), NEW e \in Events,
           e.ev = "tool_use_start", NEW z, Nil(z), NEW c,
           c = [index |-> Len(a.tools), id |-> <<e.id>>, name |-> e.name, args |-> z],
           NEW f, Saying(f, z, z, <<c>>, z)
    PROVE  ChatHeard(Append(F, f), Push(a, e))
  <1>1. PICK blocks : Heard("chat", F) = Reader(a.thinking, a.text, Renamed(a.tools), blocks, "none")
    BY DEF ChatHeard
  <1>2. PICK r, g, b, n, v : r = Renamed(a.tools) /\ g = Heard("chat", F) /\ b = Push(a, e) /\ n = Len(a.tools)
                             /\ v = <<c>>
    OBVIOUS
  <1>3. Heard("chat", Append(F, f)) = Hear("chat", g, f)
    BY <1>2, HearAppend
  <1>4. a.thinking \o z = a.thinking /\ a.text \o z = a.text /\ a.tools \in Seq(Tools) /\ n \in Nat
    BY <1>2, TextsAreLists
  <1>5. v # <<>> /\ v[1] = c
    BY <1>2
  <1>6. Hear("chat", g, f) = HearCall(Reader(a.thinking \o z, a.text \o z, r, blocks, "none"), v[1])
    <2>1. g = Reader(a.thinking, a.text, r, blocks, "none") /\ Saying(f, z, z, v, z)
      BY <1>1, <1>2
    <2> QED
      <3>1. Hear("chat", Reader(a.thinking, a.text, r, blocks, "none"), f)
              = HearCall(Reader(a.thinking \o z, a.text \o z, r, blocks, "none"), v[1])
        BY <1>5, <2>1, ChatHearsOne
      <3> QED
        BY <2>1, <3>1
  <1>7. Hear("chat", g, f) = HearCall(g, c)
    BY <1>1, <1>2, <1>4, <1>5, <1>6
  <1>8. PICK id, name, us, w : id = e.id /\ name = e.name /\ us = b.tools /\ w = <<id>>
    OBVIOUS
  <1>9. id \in Strings /\ name \in Strings
    BY <1>8 DEF Events
  <1>10. c.id = w /\ c.id # <<>> /\ w[1] = id /\ c.name = name /\ c.index = n /\ c.args = z
    BY <1>2, <1>8
  <1>11. PICK h : h = HearBlock(g, n, "tool_use", id, name)
    OBVIOUS
  <1>12. HearCall(g, c) = HearDelta(h, n, z)
    BY <1>10, <1>11 DEF HearCall
  <1>13. PICK tool : tool = [id |-> id, name |-> name, json |-> z]
    OBVIOUS
  <1>14. b = [a EXCEPT !.tools = Append(a.tools, tool)]
    BY <1>2, <1>8, <1>13 DEF Push, Nil
  <1>15. us = Append(a.tools, tool) /\ b.thinking = a.thinking /\ b.text = a.text
    BY <1>8, <1>14 DEF Aggregators
  <1>16. Knows(h, n, "tool_use", a, us)
    BY <1>1, <1>2, <1>9, <1>11, <1>13, <1>15, HearsBlock DEF Nil
  <1>17. PICK more : /\ h = Reader(a.thinking, a.text, Renamed(us), more, "none")
                     /\ n \in DOMAIN more /\ more[n] = [type |-> "tool_use", tool |-> Len(us)]
    BY <1>16 DEF Knows
  <1>18. Len(us) = n + 1 /\ us # <<>> /\ b \in Aggregators
    <2>1. IsList(a.tools)
      BY <1>4, SeqIsList
    <2>2. Len(us) = n + 1
      BY <1>2, <1>15, <2>1, ListAppend
    <2>3. b \in Aggregators
      BY <1>2, PushTyped
    <2> QED
      BY <1>4, <2>2, <2>3, ListEmpty
  <1>19. PICK d : d = ToolUseDelta(z)
    OBVIOUS
  <1>20. d \in Events /\ d.ev = "tool_use_delta" /\ d.json = z
    BY <1>19 DEF ToolUseDelta, Events, Nil
  <1>21. PICK k : k = Push(b, d)
    OBVIOUS
  <1>22. k.thinking = b.thinking /\ k.text = b.text /\ k.tools = us
    <2>1. us \in Seq(Tools)
      BY <1>8, <1>18 DEF Aggregators
    <2>2. AppendToLast(us, z) = us
      BY <2>1, AppendNothing
    <2>3. k = [b EXCEPT !.tools = us]
      BY <1>8, <1>20, <1>21, <2>2 DEF Push
    <2> QED
      BY <1>18, <2>3 DEF Aggregators
  <1>23. TypeOf(d) = "tool_use" /\ BodyOf(d) = z
    BY <1>20 DEF TypeOf, BodyOf
  <1>24. HearDelta(h, n, z) = Reader(b.thinking, b.text, Renamed(us), more, "none")
    <2>1. h = Reader(b.thinking, b.text, Renamed(b.tools), more, "none")
      BY <1>8, <1>15, <1>17
    <2>2. more[n] = [type |-> TypeOf(d), tool |-> Len(b.tools)] /\ b.tools # <<>>
      BY <1>8, <1>17, <1>18, <1>23
    <2>3. HearDelta(h, n, BodyOf(d)) = Reader(k.thinking, k.text, Renamed(k.tools), more, "none")
      BY <1>17, <1>18, <1>20, <1>21, <2>1, <2>2, HearsDelta
    <2> QED
      BY <1>22, <1>23, <2>3
  <1>25. Len(us) - 1 = n
    BY <1>4, <1>18
  <1> QED
    BY <1>2, <1>3, <1>7, <1>8, <1>12, <1>15, <1>17, <1>24, <1>25 DEF ChatHeard

\* An answer goes on, its end waits for the usage, or its end has been told.
ChatLive(base, s, a, u, inc) ==
  \E F, i : /\ i = Len(a.tools) - 1 /\ ChatWrites(base, s, i, u, inc, "no", F)
            /\ ChatSpeaking(F) /\ ChatHeard(F, a)
ChatStop(a) == FinishToStop(StopToFinish(a.stop[1]))
ChatWaits(base, s, a) ==
  \E F, i, u : /\ Nil(u) /\ ChatWrites(base, s, i, u, "yes", "yes", F)
               /\ ChatSaid(F) /\ HeardAs("chat", F, a, ChatStop(a))
ChatTold(base, s, a, inc) ==
  \E F, i, u : /\ ChatWrites(base, s, i, u, inc, "no", F)
               /\ IsList(F) /\ ChatFormed(F) /\ HeardAs("chat", F, a, ChatStop(a))

\* The chunk with the role begins the answer.
LEMMA ChatBegins ==
    ASSUME NEW inc, NEW s, s = NewChat(inc = "yes"), NEW a \in Aggregators,
           Nil(a.thinking), Nil(a.text), Nil(a.tools), NEW z, Nil(z)
    PROVE  ChatLive(z, StartChat(s), a, z, inc)
  <1>1. PICK yes, no, c : yes = TRUE /\ no = FALSE /\ c = (inc = "yes")
    OBVIOUS
  <1>2. s = [started |-> no, toolIndex |-> -1, usage |-> z, includeUsage |-> c, pendingDone |-> no, out |-> z]
    BY <1>1 DEF NewChat, Nil
  <1>3. PICK t : t = [s EXCEPT !.started = yes]
    OBVIOUS
  <1>4. t = [started |-> yes, toolIndex |-> -1, usage |-> z, includeUsage |-> c, pendingDone |-> no, out |-> z]
    BY <1>2, <1>3
  <1>5. t = ChatState(-1, z, inc, "no", z)
    BY <1>1, <1>4 DEF ChatState
  <1>6. PICK f : f = Chunk([NoDelta EXCEPT !.role = TRUE], <<>>)
    OBVIOUS
  <1>7. StartChat(s) = Put(t, f)
    BY <1>1, <1>3, <1>6, Zenon DEF StartChat
  <1>8. Saying(f, z, z, z, z) /\ f.choice[1].role
    BY <1>6, ChunksSay DEF Nil
  <1>9. IsList(z) /\ Len(z) = 0
    BY ListEmpty DEF Nil
  <1>10. ChatWrites(z, t, -1, z, inc, "no", z)
    <2>1. z \o z = z
      BY <1>9, ConcatNil DEF Nil
    <2> QED
      BY <1>5, <1>9, <2>1 DEF ChatWrites
  <1>11. PICK G : G = Append(z, f)
    OBVIOUS
  <1>12. ChatWrites(z, Put(t, f), -1, z, inc, "no", G)
    BY <1>10, <1>11, ChatWritesSets
  <1>13. ChatSpeaking(G)
    BY <1>8, <1>11, ChatFirst DEF Nil
  <1>14. Heard("chat", z) = Reader(a.thinking, a.text, Renamed(a.tools), z, "none")
    BY NothingHeard DEF Nil
  <1>15. a.thinking \o z = a.thinking /\ a.text \o z = a.text
    BY TextsAreLists
  <1>16. Heard("chat", G) = Reader(a.thinking, a.text, Renamed(a.tools), z, "none")
    <2>1. Heard("chat", G) = Hear("chat", Heard("chat", z), f)
      BY <1>9, <1>11, HearAppend
    <2>2. Hear("chat", Reader(a.thinking, a.text, Renamed(a.tools), z, "none"), f)
            = Reader(a.thinking \o z, a.text \o z, Renamed(a.tools), z, "none")
      BY <1>8, ChatHearsPlain
    <2> QED
      BY <1>14, <1>15, <2>1, <2>2
  <1>17. ChatHeard(G, a)
    BY <1>16 DEF ChatHeard, Nil
  <1>18. Len(a.tools) - 1 = -1
    BY ListEmpty DEF Nil
  <1> QED
    BY <1>7, <1>12, <1>13, <1>17, <1>18 DEF ChatLive

\* A text more.
LEMMA ChatSays ==
    ASSUME NEW base, NEW s, NEW a \in Aggregators, NEW u, NEW inc, ChatLive(base, s, a, u, inc),
           NEW e \in Events, e.ev \in {"text_delta", "thinking_delta"}
    PROVE  ChatLive(base, EncodeChat(s, e), Push(a, e), u, inc)
  <1>1. PICK F, i : /\ i = Len(a.tools) - 1 /\ ChatWrites(base, s, i, u, inc, "no", F)
                    /\ ChatSpeaking(F) /\ ChatHeard(F, a)
    BY DEF ChatLive
  <1>2. EnsureStarted(s) = s
    BY <1>1, ChatWritesFields
  <1>3. PICK z : Nil(z)
    BY DEF Nil
  <1>4. PICK f : f = Chunk([NoDelta EXCEPT ![IF e.ev = "text_delta" THEN "content" ELSE "reasoning"] = e.text], <<>>)
    OBVIOUS
  <1>5. /\ EncodeChat(s, e) = Put(s, f) /\ ~f.choice[1].role
        /\ \/ e.ev = "text_delta" /\ Saying(f, z, e.text, z, z)
           \/ e.ev = "thinking_delta" /\ Saying(f, e.text, z, z, z)
    <2>1. CASE e.ev = "text_delta"
      <3>1. f = Chunk([NoDelta EXCEPT !["content"] = e.text], <<>>)
        BY <1>4, <2>1
      <3>2. Saying(f, z, e.text, z, z) /\ ~f.choice[1].role
        BY <1>3, <3>1, ChunksSay DEF Nil
      <3>3. EncodeChat(s, e) = Put(s, f)
        BY <1>2, <2>1, <3>1 DEF EncodeChat
      <3> QED
        BY <2>1, <3>2, <3>3
    <2>2. CASE e.ev = "thinking_delta"
      <3>1. f = Chunk([NoDelta EXCEPT !["reasoning"] = e.text], <<>>)
        BY <1>4, <2>2
      <3>2. Saying(f, e.text, z, z, z) /\ ~f.choice[1].role
        BY <1>3, <3>1, ChunksSay DEF Nil
      <3>3. EncodeChat(s, e) = Put(s, f)
        BY <1>2, <2>2, <3>1 DEF EncodeChat
      <3> QED
        BY <2>2, <3>2, <3>3
    <2> QED
      BY <2>1, <2>2
  <1>6. PICK G, b : G = Append(F, f) /\ b = Push(a, e)
    OBVIOUS
  <1>7. ChatWrites(base, Put(s, f), i, u, inc, "no", G)
    BY <1>1, <1>6, ChatWritesSets
  <1>8. ChatSpeaking(G)
    <2>1. \E x, y : Saying(f, x, y, z, z)
      BY <1>5
    <2> QED
      BY <1>1, <1>3, <1>5, <1>6, <2>1, ChatNext DEF Nil
  <1>9. ChatHeard(G, b)
    <2>1. IsList(F)
      BY <1>1 DEF ChatSpeaking, ChatSaid
    <2> QED
      BY <1>1, <1>3, <1>5, <1>6, <2>1, ChatHearsText
  <1>10. b.tools = a.tools
    <2>1. CASE e.ev = "text_delta"
      <3>1. PICK x : x = a.text \o e.text
        OBVIOUS
      <3>2. b = [a EXCEPT !.text = x]
        BY <1>6, <2>1, <3>1 DEF Push
      <3> QED
        BY <3>2 DEF Aggregators
    <2>2. CASE e.ev = "thinking_delta"
      <3>1. PICK x : x = a.thinking \o e.text
        OBVIOUS
      <3>2. b = [a EXCEPT !.thinking = x]
        BY <1>6, <2>2, <3>1 DEF Push
      <3> QED
        BY <3>2 DEF Aggregators
    <2> QED
      BY <2>1, <2>2
  <1> QED
    BY <1>1, <1>5, <1>6, <1>7, <1>8, <1>9, <1>10 DEF ChatLive

\* A call more.
LEMMA ChatOpens ==
    ASSUME NEW base, NEW s, NEW a \in Aggregators, NEW u, NEW inc, ChatLive(base, s, a, u, inc),
           NEW e \in Events, e.ev = "tool_use_start"
    PROVE  ChatLive(base, EncodeChat(s, e), Push(a, e), u, inc)
  <1>1. PICK F, i : /\ i = Len(a.tools) - 1 /\ ChatWrites(base, s, i, u, inc, "no", F)
                    /\ ChatSpeaking(F) /\ ChatHeard(F, a)
    BY DEF ChatLive
  <1>2. EnsureStarted(s) = s /\ s.toolIndex = i
    BY <1>1, ChatWritesFields
  <1>3. PICK z : Nil(z)
    BY DEF Nil
  <1>4. PICK n, c, f : /\ n = i + 1 /\ c = [index |-> n, id |-> <<e.id>>, name |-> e.name, args |-> z]
                       /\ f = Chunk([NoDelta EXCEPT !.calls = <<c>>], <<>>)
    OBVIOUS
  <1>5. EncodeChat(s, e) = Put(SetTool(s, n), f)
    <2>1. EncodeChat(s, e) = Put([s EXCEPT !.toolIndex = n], f)
      BY <1>2, <1>3, <1>4 DEF EncodeChat, Nil
    <2> QED
      BY <2>1, Zenon DEF SetTool
  <1>6. Saying(f, z, z, <<c>>, z) /\ ~f.choice[1].role
    BY <1>3, <1>4, ChunksSay DEF Nil
  <1>7. PICK G, b, v : G = Append(F, f) /\ b = Push(a, e) /\ v = <<c>>
    OBVIOUS
  <1>8. ChatWrites(base, SetTool(s, n), n, u, inc, "no", F)
    BY <1>1, ChatWritesSets
  <1>9. ChatWrites(base, Put(SetTool(s, n), f), n, u, inc, "no", G)
    BY <1>7, <1>8, ChatWritesSets
  <1>10. ChatSpeaking(G)
    <2>1. Saying(f, z, z, v, z)
      BY <1>6, <1>7
    <2> QED
      BY <1>1, <1>3, <1>6, <1>7, <2>1, ChatNext DEF Nil
  <1>11. Len(a.tools) \in Nat /\ n = Len(a.tools)
    BY <1>1, <1>3, <1>4, TextsAreLists
  <1>12. ChatHeard(G, b)
    <2>1. IsList(F)
      BY <1>1 DEF ChatSpeaking, ChatSaid
    <2>2. c = [index |-> Len(a.tools), id |-> <<e.id>>, name |-> e.name, args |-> z]
      BY <1>4, <1>11
    <2> QED
      BY <1>1, <1>3, <1>6, <1>7, <2>1, <2>2, ChatHearsCall
  <1>13. Len(b.tools) = n + 1
    <2>1. PICK o : o = Append(a.tools, [id |-> e.id, name |-> e.name, json |-> <<>>])
      OBVIOUS
    <2>2. b = [a EXCEPT !.tools = o]
      BY <1>7, <2>1 DEF Push
    <2>3. b.tools = o
      BY <2>2 DEF Aggregators
    <2>4. IsList(a.tools)
      BY <1>3, TextsAreLists, SeqIsList
    <2> QED
      BY <1>11, <2>1, <2>3, <2>4, ListAppend
  <1>14. n = Len(b.tools) - 1
    BY <1>11, <1>13
  <1> QED
    BY <1>5, <1>7, <1>9, <1>10, <1>12, <1>14 DEF ChatLive

\* More of the last call.
LEMMA ChatFills ==
    ASSUME NEW base, NEW s, NEW a \in Aggregators, NEW u, NEW inc, ChatLive(base, s, a, u, inc),
           NEW e \in Events, e.ev = "tool_use_delta", ~Nil(a.tools)
    PROVE  ChatLive(base, EncodeChat(s, e), Push(a, e), u, inc)
  <1>1. PICK F, i : /\ i = Len(a.tools) - 1 /\ ChatWrites(base, s, i, u, inc, "no", F)
                    /\ ChatSpeaking(F) /\ ChatHeard(F, a)
    BY DEF ChatLive
  <1>2. EnsureStarted(s) = s /\ s.toolIndex = i
    BY <1>1, ChatWritesFields
  <1>3. PICK z : Nil(z)
    BY DEF Nil
  <1>4. i \in Nat
    <2>1. a.tools \in Seq(Tools)
      BY DEF Aggregators
    <2>2. a.tools # <<>>
      BY DEF Nil
    <2> QED
      BY <1>1, <2>1, <2>2
  <1>5. PICK c, v, f : /\ c = [index |-> i, id |-> z, name |-> "", args |-> e.json] /\ v = <<c>>
                       /\ f = Chunk([NoDelta EXCEPT !.calls = <<c>>], <<>>)
    OBVIOUS
  <1>6. EncodeChat(s, e) = Put(s, f)
    <2>1. Larger(i, 0) = i
      BY <1>4 DEF Larger
    <2> QED
      BY <1>2, <1>3, <1>5, <2>1 DEF EncodeChat, Nil
  <1>7. Saying(f, z, z, v, z) /\ ~f.choice[1].role
    <2>1. Saying(f, z, z, <<c>>, z) /\ ~f.choice[1].role
      BY <1>3, <1>5, ChunksSay DEF Nil
    <2> QED
      BY <1>5, <2>1
  <1>8. PICK G, b : G = Append(F, f) /\ b = Push(a, e)
    OBVIOUS
  <1>9. ChatWrites(base, Put(s, f), i, u, inc, "no", G)
    BY <1>1, <1>8, ChatWritesSets
  <1>10. ChatSpeaking(G)
    BY <1>1, <1>3, <1>7, <1>8, ChatNext DEF Nil
  <1>11. ChatHeard(G, b)
    <2>1. IsList(F)
      BY <1>1 DEF ChatSpeaking, ChatSaid
    <2>2. c.index = i /\ c.id = z /\ c.args = e.json
      BY <1>5
    <2> QED
      BY <1>1, <1>3, <1>5, <1>7, <1>8, <2>1, <2>2, ChatHearsMore
  <1>12. Len(b.tools) = Len(a.tools)
    <2>1. PICK n, o : n = Len(a.tools) /\ o = AppendToLast(a.tools, e.json)
      OBVIOUS
    <2>2. b = [a EXCEPT !.tools = o]
      BY <1>8, <2>1 DEF Push
    <2>3. b.tools = o
      BY <2>2 DEF Aggregators
    <2>4. a.tools \in Seq(Tools) /\ b.tools \in Seq(Tools)
      BY <1>8, PushTyped DEF Aggregators
    <2>5. DOMAIN o = DOMAIN a.tools
      BY <2>1 DEF AppendToLast
    <2> QED
      BY <2>3, <2>4, <2>5
  <1> QED
    BY <1>1, <1>6, <1>8, <1>9, <1>10, <1>11, <1>12 DEF ChatLive

\* Usage and the end marker say nothing.
LEMMA ChatQuiet ==
    ASSUME NEW F, ChatSaid(F), NEW a, NEW stop, HeardAs("chat", F, a, stop), NEW u
    PROVE  /\ HeardAs("chat", Append(F, UsageChunk(u)), a, stop)
           /\ HeardAs("chat", Append(F, Sentinel), a, stop)
  <1>1. ASSUME NEW f, f.kind # "chunk" \/ f.choice = <<>> PROVE HeardAs("chat", Append(F, f), a, stop)
    <2>1. IsList(F)
      BY DEF ChatSaid
    <2>2. Heard("chat", Append(F, f)) = Hear("chat", Heard("chat", F), f)
      BY <2>1, HearAppend
    <2>3. Hear("chat", Heard("chat", F), f) = Heard("chat", F)
      BY <1>1 DEF Hear, HearChat
    <2> QED
      BY <2>2, <2>3 DEF HeardAs
  <1>2. UsageChunk(u).choice = <<>> /\ Sentinel.kind # "chunk"
    BY DEF UsageChunk, Sentinel
  <1> QED
    BY <1>1, <1>2

\* The usage and the marker, and the marker alone.
LEMMA ChatShuts ==
    ASSUME NEW base, NEW s, NEW i, NEW u, NEW inc, NEW F, ChatWrites(base, s, i, u, inc, "no", F),
           ChatSaid(F), NEW a, HeardAs("chat", F, a, ChatStop(a)), NEW v
    PROVE  /\ ChatTold(base, Put(s, Sentinel), a, inc)
           /\ ChatTold(base, Put(Put(s, UsageChunk(v)), Sentinel), a, inc)
  <1>1. ASSUME NEW r, NEW G, ChatWrites(base, r, i, u, inc, "no", G), ChatSaid(G), HeardAs("chat", G, a, ChatStop(a))
        PROVE  ChatTold(base, Put(r, Sentinel), a, inc)
    <2>1. PICK H : H = Append(G, Sentinel)
      OBVIOUS
    <2>2. ChatWrites(base, Put(r, Sentinel), i, u, inc, "no", H)
      BY <1>1, <2>1, ChatWritesSets
    <2>3. IsList(H) /\ ChatFormed(H)
      BY <1>1, <2>1, ChatCloses
    <2>4. HeardAs("chat", H, a, ChatStop(a))
      BY <1>1, <2>1, ChatQuiet
    <2> QED
      BY <2>2, <2>3, <2>4 DEF ChatTold
  <1>2. PICK r, G : r = Put(s, UsageChunk(v)) /\ G = Append(F, UsageChunk(v))
    OBVIOUS
  <1>3. ChatWrites(base, r, i, u, inc, "no", G) /\ ChatSaid(G) /\ HeardAs("chat", G, a, ChatStop(a))
    BY <1>2, ChatWritesSets, ChatUsage, ChatQuiet
  <1> QED
    BY <1>1, <1>2, <1>3

\* A report of usage: the end goes out if it waits for one.
LEMMA ChatCounts ==
    ASSUME NEW base, NEW s, NEW a \in Aggregators, NEW b \in Aggregators,
           b.thinking = a.thinking, b.text = a.text, b.tools = a.tools, b.stop = a.stop,
           NEW e \in Events, e.ev = "usage_delta", NEW t, t = EncodeChat(s, e)
    PROVE  /\ \A u, inc : ChatLive(base, s, a, u, inc) => \E v : ~Nil(v) /\ ChatLive(base, t, b, v, inc)
           /\ ChatWaits(base, s, a) => ChatTold(base, t, b, "yes")
           /\ \A inc : ChatTold(base, s, a, inc) => ChatTold(base, t, b, inc)
  <1>1. PICK v, r, q : v = MergeOption(s.usage, e.usage) /\ r = SetSeen(s, v) /\ q = SetSeenDone(s, v)
    OBVIOUS
  <1>2. ~Nil(v)
    BY <1>1 DEF MergeOption, Nil
  <1>3. t = IF s.pendingDone THEN Put(Put(q, UsageChunk(v[1])), Sentinel) ELSE r
    BY <1>1, Zenon DEF EncodeChat, SetSeen, SetSeenDone
  <1>4. ChatStop(b) = ChatStop(a) /\ \A F : HeardAs("chat", F, a, ChatStop(a)) => HeardAs("chat", F, b, ChatStop(b))
    BY DEF HeardAs, ChatStop
  <1>5. ASSUME NEW F, ChatHeard(F, a) PROVE ChatHeard(F, b)
    BY <1>5 DEF ChatHeard
  <1>6. ASSUME NEW i, NEW u, NEW inc, NEW F, ChatWrites(base, s, i, u, inc, "no", F)
        PROVE  ChatWrites(base, t, i, v, inc, "no", F)
    <2>1. s.pendingDone = ("no" = "yes")
      BY <1>6, ChatWritesFlags
    <2>2. t = r
      BY <1>3, <2>1
    <2> QED
      BY <1>1, <1>6, <2>2, ChatWritesSets
  <1>7. ASSUME NEW u, NEW inc, ChatLive(base, s, a, u, inc)
        PROVE  \E w : ~Nil(w) /\ ChatLive(base, t, b, w, inc)
    BY <1>2, <1>5, <1>6, <1>7 DEF ChatLive
  <1>8. ASSUME ChatWaits(base, s, a) PROVE ChatTold(base, t, b, "yes")
    <2>1. PICK F, i, u : /\ Nil(u) /\ ChatWrites(base, s, i, u, "yes", "yes", F)
                         /\ ChatSaid(F) /\ HeardAs("chat", F, a, ChatStop(a))
      BY <1>8 DEF ChatWaits
    <2>2. s.pendingDone = ("yes" = "yes")
      BY <2>1, ChatWritesFlags
    <2>3. t = Put(Put(q, UsageChunk(v[1])), Sentinel)
      BY <1>3, <2>2
    <2>4. ChatWrites(base, q, i, v, "yes", "no", F)
      BY <1>1, <2>1, ChatWritesSets
    <2> QED
      BY <1>4, <2>1, <2>3, <2>4, ChatShuts
  <1>9. ASSUME NEW inc, ChatTold(base, s, a, inc) PROVE ChatTold(base, t, b, inc)
    BY <1>4, <1>6, <1>9 DEF ChatTold
  <1> QED
    BY <1>7, <1>8, <1>9

\* The chunk of the finish reason ends what is said.
LEMMA ChatFinishLine ==
    ASSUME NEW base, NEW s, NEW a \in Aggregators, NEW u, NEW inc, ChatLive(base, s, a, u, inc),
           NEW e \in Events, e.ev = "done", NEW b, b = Push(a, e)
    PROVE  \E r, i, G :
             /\ r = Put(s, Chunk(NoDelta, <<StopToFinish(e.stop)>>))
             /\ ChatWrites(base, r, i, u, inc, "no", G) /\ ChatSaid(G) /\ HeardAs("chat", G, b, ChatStop(b))
  <1>1. PICK F, i : /\ i = Len(a.tools) - 1 /\ ChatWrites(base, s, i, u, inc, "no", F)
                    /\ ChatSpeaking(F) /\ ChatHeard(F, a)
    BY DEF ChatLive
  <1>2. EnsureStarted(s) = s /\ s.usage = u /\ s.includeUsage = (inc = "yes")
    BY <1>1, ChatWritesFields, ChatWritesFlags
  <1>3. PICK z, x, f, r : /\ Nil(z) /\ x = StopToFinish(e.stop)
                          /\ f = Chunk(NoDelta, <<x>>) /\ r = Put(s, f)
    BY DEF Nil
  <1>4. Saying(f, z, z, z, <<x>>) /\ ~f.choice[1].role
    BY <1>3, ChunksSay DEF Nil
  <1>5. PICK G : G = Append(F, f)
    OBVIOUS
  <1>6. ChatWrites(base, r, i, u, inc, "no", G)
    BY <1>1, <1>3, <1>5, ChatWritesSets
  <1>7. ChatSaid(G)
    BY <1>1, <1>4, <1>5, ChatNext
  <1>8. /\ b.thinking = a.thinking /\ b.text = a.text /\ b.tools = a.tools /\ b.stop = <<e.stop>>
    <2>1. PICK o : o = <<e.stop>>
      OBVIOUS
    <2>2. b = [a EXCEPT !.stop = o]
      BY <2>1 DEF Push
    <2> QED
      BY <2>1, <2>2 DEF Aggregators
  <1>9. ChatStop(b) = FinishToStop(x)
    <2>1. b.stop[1] = e.stop
      BY <1>8
    <2> QED
      BY <1>3, <2>1 DEF ChatStop
  <1>10. HeardAs("chat", G, b, ChatStop(b))
    <2>1. PICK blocks : Heard("chat", F) = Reader(a.thinking, a.text, Renamed(a.tools), blocks, "none")
      BY <1>1 DEF ChatHeard
    <2>2. IsList(F)
      BY <1>1 DEF ChatSpeaking, ChatSaid
    <2>3. Heard("chat", G) = Hear("chat", Reader(a.thinking, a.text, Renamed(a.tools), blocks, "none"), f)
      BY <1>5, <2>1, <2>2, HearAppend
    <2>4. Hear("chat", Reader(a.thinking, a.text, Renamed(a.tools), blocks, "none"), f)
            = Reader(a.thinking \o z, a.text \o z, Renamed(a.tools), blocks, FinishToStop(x))
      BY <1>3, <1>4, ChatHearsLast
    <2>5. a.thinking \o z = a.thinking /\ a.text \o z = a.text
      BY <1>3, TextsAreLists
    <2>6. Heard("chat", G) = Reader(b.thinking, b.text, Renamed(b.tools), blocks, FinishToStop(x))
      BY <1>8, <2>3, <2>4, <2>5
    <2> QED
      BY <1>9, <2>6 DEF HeardAs
  <1> QED
    BY <1>3, <1>6, <1>7, <1>10

\* What the end of an answer leaves.
ChatEnded(base, s, a, u, inc) ==
  IF inc = "yes" /\ Nil(u) THEN ChatWaits(base, s, a) ELSE ChatTold(base, s, a, inc)

\* The end of the answer, with the usage a client asked for.
LEMMA ChatEndsAnswer ==
    ASSUME NEW base, NEW s, NEW a \in Aggregators, NEW u, NEW inc, ChatLive(base, s, a, u, inc),
           NEW e \in Events, e.ev = "done", NEW b, b = Push(a, e), NEW t, t = EncodeChat(s, e)
    PROVE  ChatEnded(base, t, b, u, inc)
  <1>1. EnsureStarted(s) = s /\ s.usage = u /\ s.includeUsage = (inc = "yes")
    BY ChatWritesFields, ChatWritesFlags DEF ChatLive
  <1>2. PICK r, i, G :
          /\ r = Put(s, Chunk(NoDelta, <<StopToFinish(e.stop)>>))
          /\ ChatWrites(base, r, i, u, inc, "no", G) /\ ChatSaid(G) /\ HeardAs("chat", G, b, ChatStop(b))
    BY ChatFinishLine
  <1>11. inc # "yes" => ChatTold(base, t, b, inc)
    <2>0. SUFFICES ASSUME inc # "yes" PROVE ChatTold(base, t, b, inc)
      OBVIOUS
    <2>1. t = Put(r, Sentinel)
      BY <1>1, <1>2, <2>0 DEF EncodeChat
    <2>2. ChatTold(base, Put(r, Sentinel), b, inc)
      BY <1>2, ChatShuts
    <2> QED
      BY <2>0, <2>1, <2>2
  <1>12. (inc = "yes" /\ ~Nil(u)) => ChatTold(base, t, b, inc)
    <2>0. SUFFICES ASSUME inc = "yes", ~Nil(u) PROVE ChatTold(base, t, b, inc)
      OBVIOUS
    <2>1. t = Put(Put(r, UsageChunk(u[1])), Sentinel)
      BY <1>1, <1>2, <2>0 DEF EncodeChat, Nil
    <2>2. ChatTold(base, Put(Put(r, UsageChunk(u[1])), Sentinel), b, inc)
      BY <1>2, ChatShuts
    <2> QED
      BY <2>0, <2>1, <2>2
  <1>13. (inc = "yes" /\ Nil(u)) => ChatWaits(base, t, b)
    <2>0. SUFFICES ASSUME inc = "yes", Nil(u) PROVE ChatWaits(base, t, b)
      OBVIOUS
    <2>1. t = SetWaiting(r)
      <3>1. t = [r EXCEPT !.pendingDone = TRUE]
        BY <1>1, <1>2, <2>0 DEF EncodeChat, Nil
      <3> QED
        BY <3>1, Zenon DEF SetWaiting
    <2>2. ChatWrites(base, t, i, u, "yes", "yes", G)
      BY <1>2, <2>0, <2>1, ChatWritesSets
    <2> QED
      BY <1>2, <2>0, <2>2 DEF ChatWaits
  <1> QED
    BY <1>11, <1>12, <1>13 DEF ChatEnded

\* The encoder has told its client what the walk has brought so far; the end
\* is told once the usage was, if the client asked for it.
ChatKeeps(base, s, w, inc) ==
  /\ w.stage = "none" => /\ s = NewChat(inc = "yes") /\ Nil(base) /\ ~w.seen
                         /\ Nil(w.agg.thinking) /\ Nil(w.agg.text) /\ Nil(w.agg.tools)
  /\ w.stage \in {"open", "call"} =>
       \E u : /\ ChatLive(base, s, w.agg, u, inc) /\ (w.seen <=> ~Nil(u))
              /\ w.stage = "call" => ~Nil(w.agg.tools)
  /\ w.stage = "over" => IF inc = "yes" /\ ~w.seen THEN ChatWaits(base, s, w.agg)
                         ELSE ChatTold(base, s, w.agg, inc)

\* Whatever legal event comes, the Chat encoder keeps its invariant.
LEMMA ChatSteps ==
    ASSUME NEW inc, NEW base, NEW s, NEW w \in Points, ChatKeeps(base, s, w, inc), NEW e, Legal(w, e)
    PROVE  ChatKeeps(base, EncodeChat(s, e), After(w, e), inc)
  <1>1. e \in Events /\ w.agg \in Aggregators /\ w.stage \in Stages
    BY DEF Legal, Points
  <1>2. PICK a, b, st, x, t : /\ a = w.agg /\ b = Push(a, e) /\ st = StageAfter(w.stage, e)
                              /\ x = After(w, e) /\ t = EncodeChat(s, e)
    OBVIOUS
  <1>3. x.stage = st /\ x.agg = b /\ (x.seen <=> w.seen \/ e.ev = "usage_delta")
    BY <1>2 DEF After
  <1>20. b \in Aggregators /\ a \in Aggregators
    BY <1>1, <1>2, PushTyped
  <1>4. SUFFICES ChatKeeps(base, t, x, inc)
    BY <1>2
  <1>5. CASE e.ev = "message_start"
    <2>1. w.stage = "none" /\ st = "open"
      BY <1>2, <1>5 DEF Legal, StageAfter
    <2>2. /\ s = NewChat(inc = "yes") /\ Nil(base) /\ ~w.seen
          /\ Nil(a.thinking) /\ Nil(a.text) /\ Nil(a.tools)
      BY <1>2, <2>1 DEF ChatKeeps
    <2>3. b = a /\ t = StartChat(s)
      BY <1>2, <1>5 DEF Push, EncodeChat
    <2>4. ChatLive(base, t, b, base, inc)
      BY <1>20, <2>2, <2>3, ChatBegins
    <2>5. ~x.seen
      BY <1>3, <1>5, <2>2
    <2> QED
      BY <1>3, <2>1, <2>2, <2>4, <2>5 DEF ChatKeeps
  <1>6. CASE e.ev = "usage_delta"
    <2>1. w.stage # "none" /\ st = w.stage
      BY <1>2, <1>6 DEF Legal, StageAfter
    <2>2. b.thinking = a.thinking /\ b.text = a.text /\ b.tools = a.tools /\ b.stop = a.stop
      BY <1>1, <1>2, <1>6, PushQuiet
    <2>3. x.seen
      BY <1>3, <1>6
    <2>4. /\ \A u : ChatLive(base, s, a, u, inc) => \E v : ~Nil(v) /\ ChatLive(base, t, b, v, inc)
          /\ ChatWaits(base, s, a) => ChatTold(base, t, b, "yes")
          /\ ChatTold(base, s, a, inc) => ChatTold(base, t, b, inc)
      BY <1>1, <1>2, <1>6, <1>20, <2>2, ChatCounts
    <2>5. CASE w.stage \in {"open", "call"}
      <3>1. \E u : ChatLive(base, s, a, u, inc) /\ (w.stage = "call" => ~Nil(a.tools))
        BY <1>2, <2>5 DEF ChatKeeps
      <3> QED
        BY <1>3, <2>1, <2>2, <2>3, <2>4, <2>5, <3>1 DEF ChatKeeps
    <2>6. CASE w.stage = "over"
      <3>1. ChatTold(base, t, b, inc)
        BY <1>2, <2>4, <2>6 DEF ChatKeeps
      <3> QED
        BY <1>3, <2>1, <2>3, <2>6, <3>1 DEF ChatKeeps
    <2> QED
      BY <1>1, <2>1, <2>5, <2>6 DEF Stages
  <1>7. ASSUME e.ev \notin {"message_start", "usage_delta"}
        PROVE  /\ x.seen <=> w.seen
               /\ \E u : /\ ChatLive(base, s, a, u, inc) /\ (x.seen <=> ~Nil(u))
                         /\ w.stage = "call" => ~Nil(a.tools)
    <2>1. w.stage \in {"open", "call"}
      BY <1>1, <1>7 DEF Legal, Events
    <2>2. \E u : /\ ChatLive(base, s, a, u, inc) /\ (w.seen <=> ~Nil(u))
                 /\ w.stage = "call" => ~Nil(a.tools)
      BY <1>2, <2>1 DEF ChatKeeps
    <2>3. x.seen <=> w.seen
      BY <1>3, <1>7
    <2> QED
      BY <2>2, <2>3
  <1>8. CASE e.ev \in {"text_delta", "thinking_delta"}
    <2>1. PICK u : ChatLive(base, s, a, u, inc) /\ (x.seen <=> ~Nil(u))
      BY <1>7, <1>8
    <2>2. ChatLive(base, t, b, u, inc)
      BY <1>1, <1>2, <1>8, <1>20, <2>1, ChatSays
    <2>3. st = "open"
      BY <1>2, <1>8 DEF StageAfter
    <2> QED
      BY <1>3, <2>1, <2>2, <2>3 DEF ChatKeeps
  <1>9. CASE e.ev = "tool_use_delta"
    <2>1. w.stage = "call" /\ st = "call"
      BY <1>2, <1>9 DEF Legal, StageAfter
    <2>2. PICK u : ChatLive(base, s, a, u, inc) /\ (x.seen <=> ~Nil(u)) /\ ~Nil(a.tools)
      BY <1>7, <1>9, <2>1
    <2>3. ChatLive(base, t, b, u, inc)
      BY <1>1, <1>2, <1>9, <1>20, <2>2, ChatFills
    <2>4. ~Nil(b.tools)
      BY <1>1, <1>2, <1>9, <1>20, <2>2, PushCalls DEF Nil
    <2> QED
      BY <1>3, <2>1, <2>2, <2>3, <2>4 DEF ChatKeeps
  <1>10. CASE e.ev = "tool_use_start"
    <2>1. PICK u : ChatLive(base, s, a, u, inc) /\ (x.seen <=> ~Nil(u))
      BY <1>7, <1>10
    <2>2. ChatLive(base, t, b, u, inc)
      BY <1>1, <1>2, <1>10, <1>20, <2>1, ChatOpens
    <2>3. st = "call" /\ ~Nil(b.tools)
      BY <1>1, <1>2, <1>10, <1>20, PushCalls DEF StageAfter, Nil
    <2> QED
      BY <1>3, <2>1, <2>2, <2>3 DEF ChatKeeps
  <1>11. CASE e.ev = "done"
    <2>1. PICK u : ChatLive(base, s, a, u, inc) /\ (x.seen <=> ~Nil(u))
      BY <1>7, <1>11
    <2>2. ChatEnded(base, t, b, u, inc)
      BY <1>1, <1>2, <1>11, <1>20, <2>1, ChatEndsAnswer
    <2>3. st = "over"
      BY <1>2, <1>11 DEF StageAfter
    <2> QED
      BY <1>3, <2>1, <2>2, <2>3 DEF ChatKeeps, ChatEnded
  <1> QED
    BY <1>1, <1>5, <1>6, <1>8, <1>9, <1>10, <1>11 DEF Events

\* A new Chat encoder has written nothing.
LEMMA ChatNew ==
    ASSUME NEW c, NEW s, s = NewChat(c)
    PROVE  Flushed(s) = s /\ s.out = <<>>
  <1>1. PICK no, z, d : no = FALSE /\ z = <<>> /\ d = c
    OBVIOUS
  <1>2. s = [started |-> no, toolIndex |-> -1, usage |-> z, includeUsage |-> d, pendingDone |-> no, out |-> z]
    BY <1>1 DEF NewChat
  <1>3. [s EXCEPT !.out = z] = s
    BY <1>2
  <1>4. s.out = z
    BY <1>2
  <1> QED
    BY <1>1, <1>3, <1>4 DEF Flushed

\* Flushing keeps the Chat encoder's invariant.
LEMMA ChatFlushes ==
    ASSUME NEW inc, NEW base, NEW s, NEW w \in Points, ChatKeeps(base, s, w, inc)
    PROVE  ChatKeeps(base \o s.out, Flushed(s), w, inc)
  <1>1. w.stage \in Stages
    BY DEF Points
  <1>2. CASE w.stage = "none"
    <2>1. s = NewChat(inc = "yes") /\ Nil(base)
      BY <1>2 DEF ChatKeeps
    <2>2. Flushed(s) = s /\ s.out = <<>>
      BY <2>1, ChatNew
    <2>3. base \o s.out = base
      <3>1. PICK z : z = base
        OBVIOUS
      <3>2. z = <<>> /\ IsList(z) /\ s.out = z
        BY <2>1, <2>2, <3>1, ListEmpty DEF Nil
      <3>3. z \o z = z
        BY <3>2, ConcatNil
      <3> QED
        BY <3>1, <3>2, <3>3
    <2> QED
      BY <2>2, <2>3
  <1>4. PICK F, a, t : F = base \o s.out /\ a = w.agg /\ t = Flushed(s)
    OBVIOUS
  <1>3. ASSUME NEW i, NEW u, NEW pend, NEW c, NEW G, ChatWrites(base, s, i, u, c, pend, G)
        PROVE  F = G /\ ChatWrites(F, t, i, u, c, pend, G)
    <2>1. G = base \o s.out
      BY <1>3, ChatWritesFields
    <2>2. ChatWrites(G, Flushed(s), i, u, c, pend, G)
      BY <1>3, ChatWritesSets
    <2> QED
      BY <1>4, <2>1, <2>2
  <1>5. CASE w.stage \in {"open", "call"}
    <2>1. PICK u : /\ ChatLive(base, s, a, u, inc) /\ (w.seen <=> ~Nil(u))
                   /\ w.stage = "call" => ~Nil(a.tools)
      BY <1>4, <1>5 DEF ChatKeeps
    <2>2. ChatLive(F, t, a, u, inc)
      BY <1>3, <2>1 DEF ChatLive
    <2> QED
      BY <1>4, <1>5, <2>1, <2>2 DEF ChatKeeps
  <1>6. CASE w.stage = "over"
    <2>1. ChatWaits(base, s, a) => ChatWaits(F, t, a)
      BY <1>3 DEF ChatWaits
    <2>2. ChatTold(base, s, a, inc) => ChatTold(F, t, a, inc)
      BY <1>3 DEF ChatTold
    <2> QED
      BY <1>4, <1>6, <2>1, <2>2 DEF ChatKeeps
  <1> QED
    BY <1>1, <1>2, <1>5, <1>6 DEF Stages

\* What the frames so far are, and what a client has heard in them.
LEMMA ChatTells ==
    ASSUME NEW inc, NEW base, NEW s, NEW w \in Points, ChatKeeps(base, s, w, inc), NEW F, F = base \o s.out
    PROVE  /\ IsList(F) /\ ChatFormed(F)
           /\ w.stage # "over" \/ (inc = "yes" /\ ~w.seen) => \A i \in 1..Len(F) : F[i].kind # "[DONE]"
           /\ HeardAs("chat", F, w.agg, IF w.stage = "over" THEN ChatStop(w.agg) ELSE "none")
  <1>1. w.stage \in Stages
    BY DEF Points
  <1>2. PICK a, z : a = w.agg /\ z = <<>>
    OBVIOUS
  <1>3. CASE w.stage = "none"
    <2>1. s = NewChat(inc = "yes") /\ Nil(base) /\ Nil(a.thinking) /\ Nil(a.text) /\ Nil(a.tools)
      BY <1>2, <1>3 DEF ChatKeeps
    <2>2. s.out = <<>>
      BY <2>1, ChatNew
    <2>3. F = z /\ IsList(z)
      <3>1. base = z /\ s.out = z /\ IsList(z)
        BY <1>2, <2>1, <2>2, ListEmpty DEF Nil
      <3>2. z \o z = z
        BY <1>2, <3>1, ConcatNil
      <3> QED
        BY <3>1, <3>2
    <2>4. ChatFormed(z) /\ \A i \in 1..Len(z) : z[i].kind # "[DONE]"
      BY <1>2, ListEmpty DEF ChatFormed
    <2>5. HeardAs("chat", z, a, "none")
      BY <1>2, <2>1, NothingHeard DEF HeardAs, Nil
    <2> QED
      BY <1>2, <1>3, <2>3, <2>4, <2>5
  <1>4. \A G : ChatSaid(G) => IsList(G) /\ ChatFormed(G) /\ \A i \in 1..Len(G) : G[i].kind # "[DONE]"
    BY DEF ChatSaid
  <1>5. CASE w.stage \in {"open", "call"}
    <2>1. PICK G, i, u : ChatWrites(base, s, i, u, inc, "no", G) /\ ChatSpeaking(G) /\ ChatHeard(G, a)
      BY <1>2, <1>5 DEF ChatKeeps, ChatLive
    <2>2. F = G
      BY <2>1, ChatWritesFields
    <2> QED
      BY <1>2, <1>4, <1>5, <2>1, <2>2 DEF ChatSpeaking, ChatHeard, HeardAs
  <1>6. CASE w.stage = "over" /\ inc = "yes" /\ ~w.seen
    <2>1. PICK G, i, u : /\ ChatWrites(base, s, i, u, "yes", "yes", G)
                         /\ ChatSaid(G) /\ HeardAs("chat", G, a, ChatStop(a))
      BY <1>2, <1>6 DEF ChatKeeps, ChatWaits
    <2>2. F = G
      BY <2>1, ChatWritesFields
    <2> QED
      BY <1>2, <1>4, <1>6, <2>1, <2>2
  <1>7. CASE w.stage = "over" /\ ~(inc = "yes" /\ ~w.seen)
    <2>1. PICK G, i, u : /\ ChatWrites(base, s, i, u, inc, "no", G)
                         /\ IsList(G) /\ ChatFormed(G) /\ HeardAs("chat", G, a, ChatStop(a))
      BY <1>2, <1>7 DEF ChatKeeps, ChatTold
    <2>2. F = G
      BY <2>1, ChatWritesFields
    <2> QED
      BY <1>2, <1>7, <2>1, <2>2
  <1> QED
    BY <1>1, <1>3, <1>5, <1>6, <1>7 DEF Stages

\* The end of the upstream's bytes, wherever it comes.
LEMMA ChatFinishes ==
    ASSUME NEW inc, NEW base, NEW s, NEW w \in Points, ChatKeeps(base, s, w, inc),
           NEW t, t = FinishChat(s), NEW F, F = base \o t.out
    PROVE  /\ IsList(F) /\ ChatFormed(F)
           /\ w.stage # "over" => \A i \in 1..Len(F) : F[i].kind # "[DONE]"
           /\ HeardAs("chat", F, w.agg, IF w.stage = "over" THEN ChatStop(w.agg) ELSE "none")
  <1>1. PICK a : a = w.agg
    OBVIOUS
  <1>2. CASE w.stage = "over" /\ inc = "yes" /\ ~w.seen
    <2>1. PICK G, i, u : /\ Nil(u) /\ ChatWrites(base, s, i, u, "yes", "yes", G)
                         /\ ChatSaid(G) /\ HeardAs("chat", G, a, ChatStop(a))
      BY <1>1, <1>2 DEF ChatKeeps, ChatWaits
    <2>2. s.pendingDone = ("yes" = "yes") /\ s.usage = u
      BY <2>1, ChatWritesFlags, ChatWritesFields
    <2>3. t = Put([s EXCEPT !.pendingDone = FALSE], Sentinel)
      BY <2>1, <2>2 DEF FinishChat, Nil
    <2>4. t = Put(SetClosed(s), Sentinel)
      BY <2>3, Zenon DEF SetClosed
    <2>5. ChatWrites(base, SetClosed(s), i, u, "yes", "no", G)
      BY <2>1, ChatWritesSets
    <2>6. ChatTold(base, t, a, "yes")
      BY <2>1, <2>4, <2>5, ChatShuts
    <2>7. PICK H, j, v : /\ ChatWrites(base, t, j, v, "yes", "no", H)
                         /\ IsList(H) /\ ChatFormed(H) /\ HeardAs("chat", H, a, ChatStop(a))
      BY <2>6 DEF ChatTold
    <2>8. F = H
      BY <2>7, ChatWritesFields
    <2> QED
      BY <1>1, <1>2, <2>7, <2>8
  <1>3. CASE ~(w.stage = "over" /\ inc = "yes" /\ ~w.seen)
    <2>1. \A b : b = s.pendingDone => ~b
      <3>0. w.stage \in Stages
        BY DEF Points
      <3>1. CASE w.stage = "none"
        <4>1. s.pendingDone = FALSE
          BY <3>1 DEF ChatKeeps, NewChat
        <4> QED
          BY <4>1
      <3>2. CASE w.stage # "none"
        <4>1. \E i, u, G : ChatWrites(base, s, i, u, inc, "no", G)
          BY <1>3, <3>0, <3>2 DEF ChatKeeps, ChatLive, ChatTold, Stages
        <4>2. s.pendingDone = ("no" = "yes")
          BY <4>1, ChatWritesFlags
        <4> QED
          BY <4>2
      <3> QED
        BY <3>1, <3>2
    <2>2. t = s
      BY <2>1 DEF FinishChat
    <2> QED
      BY <1>3, <2>2, ChatTells
  <1> QED
    BY <1>2, <1>3

=============================================================================
